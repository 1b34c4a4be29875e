------------------------------- MODULE Levies -------------------------------
(***************************************************************************)
(* What is taken off salaries: the monthly taxes of the system settings,   *)
(* the deduction types, the deductions assigned to employees, and which of *)
(* them a payroll of a month charges (system-config.service.ts, the        *)
(* deduction part of payment-structures.service.ts, and the selection in   *)
(* calculateEmployeePayroll).                                              *)
(*                                                                         *)
(* Time is counted in months, and whether it is the first of the month.    *)
(* A levy's name is the income tax ("pit"; updateMonthlyTax stores every   *)
(* spelling of it under one name) or another one.  A charge is a pair of a *)
(* name and a value; percentages and fixed amounts are told apart.         *)
(***************************************************************************)
EXTENDS Naturals, Sequences, FiniteSets, SequencesExt

CONSTANTS
    Workers,     \* employees
    Names,       \* names of taxes and deduction types; "pit" is the income tax
    Percents,    \* rates that are entered for taxes
    Entered,     \* what is entered for deduction types
    LastMonth,   \* the months are 1..LastMonth
    Never,       \* no end date, no such type
    MaxRequests  \* bound on the requests that change the configuration

ASSUME LeviesAssumption ==
    /\ "pit" \in Names /\ Percents \subseteq Nat /\ IsFiniteSet(Workers)
    /\ LastMonth \in Nat \ {0} /\ MaxRequests \in Nat

VARIABLES
    month, first,  \* today
    active,        \* employees with status ACTIVE
    taxes,         \* monthly_taxes, in order of creation
    types,         \* deduction_types by name (the name is unique)
    assigned,      \* employee_deductions, in order of creation
    requests       \* requests so far

leviesVars == <<month, first, active, taxes, types, assigned, requests>>

Months == 1..LastMonth
DefaultPit == 15
Percentage(p) == [mode |-> "PERCENTAGE", value |-> p]
Fixed(a) == [mode |-> "FIXED", value |-> a]
Values == {Percentage(p) : p \in Percents} \cup {Fixed(1)}

Type == [charge: Values, mandatory: BOOLEAN]

ASSUME EnteredAssumption == Entered \subseteq Values /\ Never \notin Type

Tax == [name: Names, rate: Percents, from: 1..(LastMonth + 1), active: BOOLEAN]
Deduction == [emp: Workers, type: Names, start: 1..(LastMonth + 1), end: Months \cup {Never}, active: BOOLEAN]

LeviesInit ==
    /\ month = 1 /\ first \in BOOLEAN
    /\ active \in {Workers, {}}
    /\ taxes = <<>>
    /\ types = [n \in Names |-> Never]
    /\ assigned = <<>>
    /\ requests = 0

(***************************************************************************)
(* What a payroll of month m charges employee e                            *)
(***************************************************************************)
\* Rows of a name that apply in a month; the latest, and of those the last created, counts.
InForce(n, m) == {i \in DOMAIN taxes : taxes[i].name = n /\ taxes[i].active /\ taxes[i].from <= m}
Latest(ts) == CHOOSE i \in ts : \A j \in ts : taxes[j].from < taxes[i].from \/ (taxes[j].from = taxes[i].from /\ j <= i)

\* findMonthlyTaxesAtDate: the income tax, at 15 percent when nothing is configured.
PitRate(m) == IF InForce("pit", m) = {} THEN DefaultPit ELSE taxes[Latest(InForce("pit", m))].rate

Overlaps(d, m) == d.active /\ d.start <= m /\ (d.end = Never \/ d.end >= m)

\* calculateConfiguredDeductions: the rate of the tax of that name in force
\* (findEmployeeAssignedMonthlyTaxesAtDate), or what the deduction type says.
DeductionCharge(n, m) ==
    IF n # "pit" /\ InForce(n, m) # {}
    THEN Percentage(taxes[Latest(InForce(n, m))].rate)
    ELSE types[n].charge

\* filterEmployeeSpecificDeductions drops what the income tax already takes.
Counted(e, m) == {i \in DOMAIN assigned : assigned[i].emp = e /\ Overlaps(assigned[i], m) /\ assigned[i].type # "pit"}

\* The lines of a monthly employee's item: the income tax and each assigned deduction.
Charged(e, m) ==
    {<<"pit", 0, Percentage(PitRate(m))>>} \cup
    {<<assigned[i].type, i, DeductionCharge(assigned[i].type, m)>> : i \in Counted(e, m)}

(***************************************************************************)
(* Taxes of the system settings                                            *)
(***************************************************************************)
\* upsertDeductionTypeForTax keeps is_mandatory of a type that exists.
TypeForTax(n, rate) ==
    [charge |-> Percentage(rate), mandatory |-> IF types[n] = Never THEN FALSE ELSE types[n].mandatory]

\* updateMonthlyTax: from today on the first of a month, otherwise from the next month.
EffectiveFrom == IF first THEN month ELSE month + 1

UpdateMonthlyTax_NoType(n, rate) ==  \* mutant
    /\ taxes' = Append(taxes, [name |-> n, rate |-> rate, from |-> EffectiveFrom, active |-> TRUE])
    /\ UNCHANGED <<month, first, active, types, assigned>>
UpdateMonthlyTax(n, rate) ==
    /\ taxes' = Append(taxes, [name |-> n, rate |-> rate, from |-> EffectiveFrom, active |-> TRUE])
    /\ types' = IF n = "pit" THEN types ELSE [types EXCEPT ![n] = TypeForTax(n, rate)]
    /\ UNCHANGED <<month, first, active, assigned>>

\* deactivateMonthlyTax touches the row and nothing else.
DeactivateMonthlyTax(i) ==
    /\ i \in DOMAIN taxes
    /\ taxes' = [taxes EXCEPT ![i].active = FALSE]
    /\ UNCHANGED <<month, first, active, types, assigned>>

\* getAllMonthlyTaxes, a read, writes the latest active rate of every other tax into its type.
GetAllMonthlyTaxes ==
    LET rows(n) == {i \in DOMAIN taxes : taxes[i].name = n /\ taxes[i].active} IN
    /\ types' = [n \in Names |->
           IF n = "pit" \/ rows(n) = {} THEN types[n] ELSE TypeForTax(n, taxes[Latest(rows(n))].rate)]
    /\ UNCHANGED <<month, first, active, taxes, assigned>>

(***************************************************************************)
(* Deduction types and assignments                                         *)
(***************************************************************************)
Apply_Now(n, es) ==  \* mutant
    SetToSeq({[emp |-> e, type |-> n, start |-> month, end |-> Never, active |-> TRUE] : e \in es})

\* applyMandatoryDeductionTypeFromNextMonth: a row for every active employee without an
\* active one of that type.
Apply(n, es) ==
    SetToSeq({[emp |-> e, type |-> n, start |-> month + 1, end |-> Never, active |-> TRUE] : e \in es})

Missing(n) == {e \in active : ~\E i \in DOMAIN assigned :
                   assigned[i].emp = e /\ assigned[i].type = n /\ assigned[i].active}

CreateDeductionType(n, charge, mandatory) ==
    /\ types[n] = Never
    /\ types' = [types EXCEPT ![n] = [charge |-> charge, mandatory |-> mandatory]]
    /\ assigned' = IF mandatory THEN assigned \o Apply(n, Missing(n)) ELSE assigned
    /\ UNCHANGED <<month, first, active, taxes>>

UpdateDeductionType(n, charge, mandatory) ==
    /\ types[n] # Never
    /\ types' = [types EXCEPT ![n] = [charge |-> charge, mandatory |-> mandatory]]
    /\ assigned' = IF mandatory /\ ~types[n].mandatory THEN assigned \o Apply(n, Missing(n)) ELSE assigned
    /\ UNCHANGED <<month, first, active, taxes>>

\* createEmployeeDeduction does not ask whether the employee has the deduction already.
CreateEmployeeDeduction(e, n, start, end) ==
    /\ types[n] # Never
    /\ assigned' = Append(assigned, [emp |-> e, type |-> n, start |-> start, end |-> end, active |-> TRUE])
    /\ UNCHANGED <<month, first, active, taxes, types>>

UpdateEmployeeDeduction(i, on) ==
    /\ i \in DOMAIN assigned
    /\ assigned' = [assigned EXCEPT ![i].active = on]
    /\ UNCHANGED <<month, first, active, taxes, types>>

\* deleteEmployeeDeduction ends the deduction today.
DeleteEmployeeDeduction(i) ==
    /\ i \in DOMAIN assigned
    /\ assigned' = [assigned EXCEPT ![i].active = FALSE, ![i].end = month]
    /\ UNCHANGED <<month, first, active, taxes, types>>

(***************************************************************************)
(* The environment                                                         *)
(***************************************************************************)
TimePasses ==
    /\ \/ first /\ first' = FALSE /\ month' = month
       \/ ~first /\ month < LastMonth /\ first' = TRUE /\ month' = month + 1
    /\ UNCHANGED <<active, taxes, types, assigned>>

\* Somebody is suspended or taken back.
StatusChanges(e) ==
    /\ active' = IF e \in active THEN active \ {e} ELSE active \cup {e}
    /\ UNCHANGED <<month, first, taxes, types, assigned>>

ConfigStep ==
    \/ \E n \in Names :
          \/ \E p \in Percents : UpdateMonthlyTax(n, p)
          \/ \E c \in Entered, b \in BOOLEAN : CreateDeductionType(n, c, b) \/ UpdateDeductionType(n, c, b)
          \/ \E e \in Workers, end \in Months \cup {Never} : CreateEmployeeDeduction(e, n, month, end)
    \/ \E i \in DOMAIN taxes : DeactivateMonthlyTax(i)
    \/ GetAllMonthlyTaxes
    \/ \E i \in DOMAIN assigned : DeleteEmployeeDeduction(i) \/ \E on \in BOOLEAN : UpdateEmployeeDeduction(i, on)

LeviesStep ==
    \/ requests < MaxRequests /\ requests' = requests + 1 /\ ConfigStep
    \/ UNCHANGED requests /\ (TimePasses \/ \E e \in Workers : StatusChanges(e))

LeviesSpec == LeviesInit /\ [][LeviesStep]_leviesVars

(***************************************************************************)
(* Properties                                                              *)
(***************************************************************************)
\* Every row names a type that exists, and a tax other than the income tax has one: payroll
\* reads the type of every assigned deduction.
LeviesTypeOK ==
    /\ month \in Months /\ first \in BOOLEAN /\ active \subseteq Workers
    /\ taxes \in Seq(Tax)
    /\ types \in [Names -> Type \cup {Never}]
    /\ assigned \in Seq(Deduction)
    /\ \A i \in DOMAIN assigned : types[assigned[i].type] # Never
    /\ \A i \in DOMAIN taxes : taxes[i].name = "pit" \/ types[taxes[i].name] # Never

\* A new rate, entered after the first of a month, leaves alone what the month charges for
\* a tax that is already in force, whatever else was configured before.  A name that was only
\* a deduction type until then changes at once: the type's percentage is overwritten.
RateWaitsForNextMonth ==
    [][ \A n \in Names, m \in Months :
          (taxes' # taxes /\ Len(taxes') > Len(taxes) /\ ~first /\ m <= month /\ (n = "pit" \/ InForce(n, m) # {}))
              => IF n = "pit" THEN PitRate(m)' = PitRate(m)
                 ELSE DeductionCharge(n, m)' = DeductionCharge(n, m) ]_leviesVars

\* Making a type mandatory leaves this month's items as they are and from the next month on
\* charges everybody active exactly one more line, those excepted who have the deduction.
MandatoryStartsNextMonth ==
    [][ \A n \in Names :
          (types'[n] # Never /\ types'[n].mandatory /\ (types[n] = Never \/ ~types[n].mandatory))
              => \A e \in Workers :
                    /\ Counted(e, month)' = Counted(e, month)
                    /\ month < LastMonth => Cardinality(Counted(e, month + 1)' \ Counted(e, month + 1)) =
                           (IF n # "pit" /\ e \in Missing(n) THEN 1 ELSE 0) ]_leviesVars

\* What is configured during a month, rates and mandatory deductions alike,
\* leaves alone what that month charges.
MonthUnderWayKept == RateWaitsForNextMonth /\ MandatoryStartsNextMonth

=============================================================================
