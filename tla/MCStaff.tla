------------------------------ MODULE MCStaff -------------------------------
(***************************************************************************)
(* Attendance, hiring, levies, earnings and savings, one at a time: in     *)
(* each initial state one of them moves (the focus), the others stand still. *)
(***************************************************************************)
EXTENDS Attendance, Hiring, Levies, Earnings, Ikimina, TLC

VARIABLE focus

vars == <<attendanceVars, hiringVars, leviesVars, earningsVars, ikiminaVars, focus>>

InTurn == Permutations(Writers) \cup Permutations(Clerks)

Row(e, hours, mark, one, two) ==
    [emp |-> e, hours |-> hours, mark |-> mark, cells |-> <<one, two>>]
SomeRows ==
    LET e == CHOOSE x \in Employees : TRUE IN
    {Row(x, 1, "P", Absence, Absence) : x \in Employees}
    \cup {Row(e, Absence, "A", Absence, Absence), Row(e, 1, "A", Absence, "P"), Row(e, Absence, "P", "?", Absence)}

SomeEntered == {Percentage(10), Fixed(1)}

SomeSlips ==
    LET all == [freq: {"MONTHLY", "DAILY", "CUSTOM"}, rate: {0, 1, 35, 500}, period: {30}, contract: {25, NoValue},
                workDays: {0, 30, NoValue}, present: {0, 20}, overtime: {0, 40}, allowance: {30}, percent: {0, 10, 85},
                pit: {0, 15}, fixed: {7}, override: {NoValue, 1000}]
    IN {s \in all : IF s.freq = "MONTHLY" THEN s.contract = NoValue /\ s.override = NoValue ELSE s.pit = 0}
OneSlip == [freq |-> "DAILY", rate |-> 0, period |-> 30, contract |-> NoValue, workDays |-> NoValue, present |-> 0,
            overtime |-> 0, allowance |-> 30, percent |-> 0, pit |-> 0, fixed |-> 7, override |-> NoValue]
SomeGrosses == {0, 59999, 60000, 60001, 60005, 60006, 99999, 100000, 100001, 100003, 199999, 200000, 200001, 200002, 450000}

Own == [location |-> "here", department |-> "own"]
Other == [location |-> "here", department |-> "other"]
Away == [location |-> "away", department |-> "other"]
AttendanceRests ==
    /\ office = "admin" /\ place = [e \in Employees |-> Own]
    /\ file = <<CHOOSE r \in Rows : TRUE>>
AttendanceStarts ==
    LET x == CHOOSE e \in Employees : TRUE
        placed(p, q) == [e \in Employees |-> IF e = x THEN p ELSE q]
    IN
    <<office, place>> \in {<<"admin", placed(Own, Away)>>, <<"manager", placed(Own, Away)>>, <<"staff", placed(Own, Other)>>}

\* One position that offers everything, and one employee in it, for a fixed term.
Employed ==
    LET x == CHOOSE z \in People : TRUE
        p == CHOOSE z \in Posts : TRUE
        wage == CHOOSE w \in Wages : TRUE
        c == "CUSTOM"
    IN
    /\ today = 0 /\ clerk = [k \in Clerks |-> CIdle] /\ asked = 0 /\ crossed = {}
    /\ posts = [q \in Posts |-> [listed |-> TRUE, offers |-> [d \in Categories |-> wage], perks |-> {}]]
    /\ staff = [y \in People |-> IF y # x THEN Nobody ELSE
               [key |-> CHOOSE k \in Keys : TRUE, post |-> p, cat |-> c, start |-> 0, end |-> 1,
                perks |-> {}, mixed |-> FALSE]]
    /\ terms = <<Structure(x, c, 1, BasicSalary(c, 1, 0, 1, 0), 0, FALSE)>>

Init ==
    /\ focus \in {"import", "pending", "hire", "terms", "levies", "slip", "preview", "savings"}
    /\ IF focus \in {"import", "pending"} THEN AttendanceInit /\ AttendanceStarts ELSE AttendanceRests /\ AttendanceInit
    /\ IF focus = "pending" THEN file = <<CHOOSE r \in Rows : TRUE>> ELSE TRUE
    /\ IF focus = "terms" THEN Employed ELSE HiringInit
    /\ IF focus = "levies" THEN TRUE ELSE first = TRUE /\ active = {}
    /\ LeviesInit
    /\ IF focus = "slip" THEN TRUE ELSE slip = OneSlip
    /\ IF focus = "preview" THEN TRUE ELSE gross = 0
    /\ EarningsInit
    /\ IkiminaInit

AttendanceMoves ==
    /\ \/ focus = "import" /\ (EditStep \/ ImportStep)
       \/ focus = "pending" /\ (EditStep \/ PendingStep)
    /\ UNCHANGED <<hiringVars, leviesVars, earningsVars, ikiminaVars>>
HiringMoves ==
    /\ \/ focus = "hire" /\ (PostStep \/ HireStep)
       \/ focus = "terms" /\ (UpdateStep \/ TermsStep \/ NextDay)
    /\ UNCHANGED <<attendanceVars, leviesVars, earningsVars, ikiminaVars>>
LeviesMove == focus = "levies" /\ LeviesStep /\ UNCHANGED <<attendanceVars, hiringVars, earningsVars, ikiminaVars>>
EarningsMove ==
    /\ (focus = "slip" /\ MarkPresent) \/ (focus = "preview" /\ PreviewMore)
    /\ UNCHANGED <<attendanceVars, hiringVars, leviesVars, ikiminaVars>>

SavingsMove == focus = "savings" /\ IkiminaNext /\ UNCHANGED <<attendanceVars, hiringVars, leviesVars, earningsVars>>

Next == UNCHANGED focus /\ (AttendanceMoves \/ HiringMoves \/ LeviesMove \/ EarningsMove \/ SavingsMove)
Spec == Init /\ [][Next]_vars
=============================================================================
