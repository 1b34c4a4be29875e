------------------------------- MODULE Charts -------------------------------
(***************************************************************************)
(* The two chart panels of the dashboard                                   *)
(* (components/dashboard/dashboard-analytics-section.tsx).  One effect     *)
(* asks for the data of both whenever a filter, a permission or the retry  *)
(* token changes; a new run of the effect cancels the one before, whose    *)
(* answers then reach the cache only.  The caches belong to the page's     *)
(* script and outlive the section and the session.                         *)
(***************************************************************************)
EXTENDS Naturals, FiniteSets

CONSTANTS
    Filters,      \* what the panels can be set to
    Viewers,      \* people who use the same browser tab one after the other
    MaxEffects    \* bound on the runs of the effect

ASSUME ChartsAssumption == Filters # {} /\ Viewers # {} /\ MaxEffects \in Nat

Panels == {"employees", "payroll"}

VARIABLES
    viewer,    \* who is signed in
    allowed,   \* the panels that person may see, as the browser knows it
    filter,    \* what the panels are set to
    effect,    \* the number of the effect's last run
    panel,     \* what each panel shows: a status and the data below it
    asked,     \* requests under way
    cache      \* the data each panel's cache holds for each filter

chartVars == <<viewer, allowed, filter, effect, panel, asked, cache>>

NoData == [filter |-> "none", viewer |-> "none"]
Data == {NoData} \cup [filter : Filters, viewer : Viewers]

-----------------------------------------------------------------------------
\* What a panel shows while it loads: what it showed, or what the cache holds.
WhileLoading(shown, cached) ==
    [status |-> "loading", data |-> IF shown # NoData THEN shown ELSE cached]

\* The effect for a person, the panels they may see, a filter and what was shown.
RunEffect(v, may, f, shown) ==
    /\ effect < MaxEffects
    /\ effect' = effect + 1
    /\ viewer' = v /\ allowed' = may /\ filter' = f
    /\ panel' = [p \in Panels |-> IF p \in may THEN WhileLoading(shown[p], cache[p][f])
                                  ELSE [status |-> "idle", data |-> NoData]]
    /\ asked' = asked \cup {[panel |-> p, filter |-> f, viewer |-> v, run |-> effect + 1] : p \in may}
    /\ UNCHANGED cache

Shown == [p \in Panels |-> panel[p].data]

ChangeFilter(f) == f # filter /\ RunEffect(viewer, allowed, f, Shown)

Retry == RunEffect(viewer, allowed, filter, Shown)

AllowedChanges(may) == may # allowed /\ RunEffect(viewer, may, filter, Shown)

\* logout leads to the sign-in page without loading the script again; the next
\* person's section starts with nothing shown and with the caches as they are.
SignInAs(v, may) ==
    v # viewer /\ RunEffect(v, may, filter, [p \in Panels |-> NoData])

\* Mutant: a run that was replaced is not told so.
Cancelled_Never(request) == FALSE

Cancelled(request) == request.run # effect

ChartArrives(request) ==
    LET data == [filter |-> request.filter, viewer |-> request.viewer] IN
    /\ asked' = asked \ {request}
    /\ cache' = [cache EXCEPT ![request.panel][request.filter] = data]
    /\ panel' = IF Cancelled(request) THEN panel
                ELSE [panel EXCEPT ![request.panel] = [status |-> "success", data |-> data]]
    /\ UNCHANGED <<viewer, allowed, filter, effect>>

ChartFails(request) ==
    /\ asked' = asked \ {request}
    /\ panel' = IF Cancelled(request) THEN panel
                ELSE [panel EXCEPT ![request.panel].status = "error"]
    /\ UNCHANGED <<viewer, allowed, filter, effect, cache>>

-----------------------------------------------------------------------------
ChartsInit ==
    /\ viewer \in Viewers /\ allowed = {} /\ filter \in Filters
    /\ effect = 0
    /\ panel = [p \in Panels |-> [status |-> "idle", data |-> NoData]]
    /\ asked = {}
    /\ cache = [p \in Panels |-> [f \in Filters |-> NoData]]

ChartStep ==
    \/ \E f \in Filters : ChangeFilter(f)
    \/ Retry
    \/ \E may \in SUBSET Panels : AllowedChanges(may) \/ \E v \in Viewers : SignInAs(v, may)
    \/ \E request \in asked : ChartArrives(request) \/ ChartFails(request)

ChartsSpec == ChartsInit /\ [][ChartStep]_chartVars

-----------------------------------------------------------------------------
(* Properties *)

\* A panel that reports success shows what was asked for last, for the person
\* signed in, whatever the order in which requests for other filters, other
\* runs and other people are answered.
SuccessIsCurrent ==
    \A p \in Panels :
      panel[p].status = "success" =>
        p \in allowed /\ panel[p].data = [filter |-> filter, viewer |-> viewer]

\* A panel that may not be seen shows nothing, and one that loads is waiting
\* for a request that will be shown: none is left loading for good.
LoadingIsAsked ==
    \A p \in Panels :
      /\ p \notin allowed => panel[p] = [status |-> "idle", data |-> NoData]
      /\ panel[p].status = "loading" =>
           \E request \in asked : request.panel = p /\ ~Cancelled(request)

\* Whatever the order of answers, a panel shows what was asked for last and none
\* waits for an answer that will be thrown away.
PanelsCurrent == SuccessIsCurrent /\ LoadingIsAsked

=============================================================================
