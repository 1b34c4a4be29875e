------------------------------ MODULE Workspace -----------------------------
(***************************************************************************)
(* One person at work in the workspace: pages are opened from the menu,    *)
(* their controls used, and the requests they send are answered while an   *)
(* administrator changes the person's permission keys.                     *)
(*                                                                         *)
(* A handler decides by the keys the browser had when it started; the      *)
(* server answers by the keys the person holds when a request arrives; the *)
(* browser catches up with the 15 second poll of the layout, a change of   *)
(* page or a permissions_updated event.                                    *)
(***************************************************************************)
EXTENDS Screens

CONSTANTS
    MaxRuns,      \* handlers that may run at a time (a bound)
    Toggled,      \* the keys the administrator grants and takes away
    MaxGrants,    \* bound on those changes
    MaxVisits     \* bound on the pages opened and the controls used

ASSUME WorkspaceAssumption ==
    /\ MaxRuns \in Nat \ {0}
    /\ Toggled \subseteq AllPermissionKeys
    /\ MaxGrants \in Nat /\ MaxVisits \in Nat

VARIABLES
    who,       \* the server's record of the person: the role and the keys
    seen,      \* what the browser last received of it
    screen,    \* the page that is open
    runs,      \* the handlers that are running
    refusal,   \* the last answer, when it was a refusal
    edits,     \* changes of keys so far
    visits     \* pages opened and controls used so far

workspaceVars == <<who, seen, screen, runs, refusal, edits, visits>>

-----------------------------------------------------------------------------
\* What the browser is told of somebody: the role and the keys, with all that
\* they imply.  hasPermission and hasRole look at nothing else.
ToldOf(person) == [role |-> person.role, holds |-> Expand(person.keys) \cup {person.role}]

Shows(v, clauses) ==
    v.role = "SUPER_ADMIN" \/ \A keys \in clauses : keys \cap v.holds # {}

\* The menu offers the page and the page does not turn the person away.
Offered(v, p) == Shows(v, MenuGate[p]) /\ Shows(v, PageGate[p])

NoRun == [page |-> "unauthorized", goto |-> "stay", current |-> FALSE, todo |-> <<>>, open |-> {}]

\* A handler of page p that starts with the keys v: requests it asks about and
\* the person may not send are left out.
Started(v, p, goto, stages) ==
    [page |-> p, goto |-> goto, current |-> v = ToldOf(who) /\ Offered(v, p),
     todo |-> [i \in DOMAIN stages |-> {q \in stages[i] : Shows(v, q.ask)}], open |-> {}]

Loading(v, p) == Started(v, p, "stay", LoadsOf[p])

\* Nothing is under way and nothing is left to send.
Over(run) == run.open = {} /\ \A i \in DOMAIN run.todo : run.todo[i] = {}

Slots == 1..MaxRuns

\* A handler starts in the first slot that is free.
Free(s) == Over(runs[s]) /\ \A t \in Slots : Over(runs[t]) => s <= t

Quiet == \A s \in Slots : Over(runs[s])

NoRefusal == [page |-> "unauthorized", call |-> "none", verdict |-> "served", current |-> FALSE]

-----------------------------------------------------------------------------
(* The person *)

\* An entry of the menu or a link opens a page, which loads its data.
OpenPage(p) ==
    /\ visits < MaxVisits
    /\ p \notin {screen, "unauthorized"}
    /\ Offered(seen, p)
    /\ \E s \in Slots : Free(s) /\ runs' = [runs EXCEPT ![s] = Loading(seen, p)]
    /\ screen' = p
    /\ visits' = visits + 1
    /\ refusal' = NoRefusal
    /\ UNCHANGED <<who, seen, edits>>

\* A control of the open page is used.  A new batch leads back to the list.
UseControl(control) ==
    /\ visits < MaxVisits
    /\ Shows(seen, control.ask)
    /\ \E s \in Slots : Free(s) /\
         runs' = [runs EXCEPT ![s] =
                    Started(seen, screen, IF screen = "newBatch" THEN "payroll" ELSE "stay",
                            control.steps)]
    /\ visits' = visits + 1
    /\ refusal' = NoRefusal
    /\ UNCHANGED <<who, seen, screen, edits>>

-----------------------------------------------------------------------------
(* A handler *)

\* The handler reached the end: it stays, or leads to another page.
Finishing(s, run) ==
    IF Over(run) /\ run.goto # "stay"
    THEN /\ screen' = run.goto
         /\ runs' = [runs EXCEPT ![s] = Loading(seen, run.goto)]
    ELSE /\ UNCHANGED screen
         /\ runs' = [runs EXCEPT ![s] = run]

\* The requests of the next stage go out; some have nothing to send.
Send(s) ==
    /\ runs[s].open = {} /\ ~Over(runs[s])
    /\ \E dropped \in SUBSET {q \in Head(runs[s].todo) : q.skip} :
         Finishing(s, [runs[s] EXCEPT !.open = Head(runs[s].todo) \ dropped, !.todo = Tail(@)])
    /\ refusal' = NoRefusal
    /\ UNCHANGED <<who, seen, edits, visits>>

\* Mutant: the handler waits on for an answer that was a refusal.
Settled_Waits(run, q, served) ==
    IF served THEN [run EXCEPT !.open = @ \ {q}] ELSE [run EXCEPT !.todo = <<>>, !.goto = "stay"]

\* One request has its answer.  Without the answers it needs the handler gives
\* up; requests already sent are still answered.
Settled(run, q, served) ==
    LET next == [run EXCEPT !.open = @ \ {q}] IN
    IF served \/ ~q.must THEN next ELSE [next EXCEPT !.todo = <<>>, !.goto = "stay"]

Answer(s, q) ==
    LET verdict == Verdict(who, RouteOf[q.call]) IN
    /\ Finishing(s, Settled(runs[s], q, verdict = "served"))
    /\ refusal' = IF verdict = "served" THEN NoRefusal
                  ELSE [page |-> runs[s].page, call |-> q.call, verdict |-> verdict,
                        current |-> runs[s].current]
    /\ UNCHANGED <<who, seen, edits, visits>>

\* The request fails for another reason: a rule of the server, or the network.
Fail(s, q) ==
    /\ Finishing(s, Settled(runs[s], q, FALSE))
    /\ refusal' = NoRefusal
    /\ UNCHANGED <<who, seen, edits, visits>>

-----------------------------------------------------------------------------
(* Keys change *)

\* An administrator grants or takes away a key.
GrantsChange(k) ==
    /\ edits < MaxGrants
    /\ who' = [who EXCEPT !.keys = IF k \in @ THEN @ \ {k} ELSE @ \cup {k}]
    /\ runs' = [s \in Slots |-> [runs[s] EXCEPT !.current = FALSE]]
    /\ edits' = edits + 1
    /\ refusal' = NoRefusal
    /\ UNCHANGED <<seen, screen, visits>>

\* Mutant: a page looks at the keys only when it is opened.
PageAfter_Stays(v, p) == p

\* The page the person is on once the browser knows the keys v.
PageAfter(v, p) == IF Shows(v, PageGate[p]) THEN p ELSE TurnedAwayTo(p)

\* The browser receives the keys: a page that looks at them turns the person
\* away or loads again.
CatchUp ==
    /\ seen # ToldOf(who)
    /\ seen' = ToldOf(who)
    /\ screen' = PageAfter(seen', screen)
    /\ IF screen' # screen \/ screen \in Reloading
       THEN \E s \in Slots : Free(s) /\ runs' = [runs EXCEPT ![s] = Loading(seen', screen')]
       ELSE UNCHANGED runs
    /\ refusal' = NoRefusal
    /\ UNCHANGED <<who, edits, visits>>

-----------------------------------------------------------------------------
\* The workspace opens on the dashboard.
WorkspaceInit(people) ==
    /\ who \in people
    /\ seen = ToldOf(who)
    /\ screen = "dashboard"
    /\ runs = [s \in Slots |-> NoRun]
    /\ refusal = NoRefusal
    /\ edits = 0
    /\ visits = 0

HandlerStep == \E s \in Slots : Send(s) \/ \E q \in runs[s].open : Answer(s, q)

FailStep == \E s \in Slots : \E q \in runs[s].open : Fail(s, q)

PersonStep ==
    \/ \E p \in Pages : OpenPage(p)
    \/ \E control \in ControlsOf[screen] : UseControl(control)

AccessStep == CatchUp \/ \E k \in Toggled : GrantsChange(k)

\* Somebody with any role and any keys.
People ==
    [role : {"SUPER_ADMIN", "BRANCH_MANAGER", "CUSTOM"} \cup DOMAIN StaffKeys,
     keys : SUBSET AllPermissionKeys]

WorkspaceSpec ==
    WorkspaceInit(People)
      /\ [][HandlerStep \/ FailStep \/ PersonStep \/ AccessStep]_workspaceVars

\* What fairness asks of a handler: its requests go out and are answered or fail.
Progress(s) == Send(s) \/ \E q \in runs[s].open : Answer(s, q) \/ Fail(s, q)

-----------------------------------------------------------------------------
(* Properties *)

\* The keys of every role are keys of the catalogue, and the page and the
\* handlers are ones the workspace knows.
WorkspaceTypeOK ==
    /\ who \in People
    /\ seen.holds \subseteq AllPermissionKeys \cup {seen.role}
    /\ screen \in Pages
    /\ \A s \in Slots : runs[s].page \in Pages /\ runs[s].goto \in Pages \cup {"stay"}
                        /\ IsFiniteSet(runs[s].open)
    /\ refusal.verdict \in {"served", "refused", "unknown"}
    /\ edits \in 0..MaxGrants /\ visits \in 0..MaxVisits

\* The requests a page sends without asking for the key their route asks for.
SentUnchecked(p) ==
    CASE p = "dashboard" -> {"getPendingUsers"}
      [] p = "users" -> {"suspendUser", "reactivateUser", "uploadUserAvatar", "assignUserRoles",
                         "updateUserPermissionOverride", "getPermissions"}
      [] p = "employees" -> {"getActivePaymentStructureByEmployee", "getEmployeeDeductions",
                             "getAllowances", "createAllowance", "updateAllowance",
                             "deactivateAllowance", "getAllowanceTypes",
                             "getEmploymentCategories", "getPositions",
                             "getTimeRecordsByEmployee", "getMonthlyTaxes"}
      [] p = "positions" -> {"getDeductionTypes", "getAllowanceTypes", "getMonthlyTaxes"}
      [] p \in {"locations", "departments"} -> {"getUsers", "getEmployees"}
      [] p = "attendance" -> {"getEmployees", "getPositions"}
      [] p = "payroll" -> {"approvePayrollBatch", "rejectPayrollBatch", "rejectPayrollItem",
                           "getPositions"}
      [] p = "batch" -> {"submitPayrollBatch", "approvePayrollBatch", "rejectPayrollBatch",
                         "rejectPayrollItem"}
      [] p \in {"newBatch", "ikimina"} -> {"getEmployees"}
      [] p = "allowances" -> {"getAllowanceTypes"}
      [] OTHER -> {}

\* Somebody whose keys have not changed since, on a page their menu offers, is
\* refused only requests the page is known to send unchecked: everywhere else
\* the gates of the pages and the @Permissions of the controllers agree, what
\* one key implies included.
OfferedIsServed ==
    refusal.verdict = "refused" /\ refusal.current => refusal.call \in SentUnchecked(refusal.page)

\* Whatever a page sends has a route on the server.
EveryRequestHasARoute == refusal.verdict # "unknown"

\* A page that insists on a key is left, or the key given back, after the key
\* was taken away while the page was open.
RevokedPageIsLeft ==
    ~Shows(ToldOf(who), PageGate[screen]) ~> Shows(ToldOf(who), PageGate[screen])

\* A handler ends whatever becomes of its requests: no page loads for ever.
HandlersEnd == \A s \in Slots : (runs[s].open # {}) ~> Over(runs[s])

\* The pages of the browser and the guards of the server fit together.
WorkspaceSound == WorkspaceTypeOK /\ EveryRequestHasARoute /\ OfferedIsServed

=============================================================================
