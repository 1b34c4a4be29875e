--------------------------- MODULE Browser_proofs ---------------------------
(***************************************************************************)
(* What the chart panels of the dashboard show, for any filters, people    *)
(* and number of runs.  The order of answers is free: requests of every    *)
(* run so far may be under way, and the proof keeps apart those of the     *)
(* last run, which are for what is set and for who is signed in.  Then     *)
(* what the bell and the notices behind it hold, for any users, and that   *)
(* dismissing a notice stays with the user who dismissed it.  Last, that   *)
(* the gates of the pages fit the guards of the routes, for everybody: the *)
(* tables of keys, routes and handlers are settled page by page, and an    *)
(* invariant carries what a handler was shown to the answers it gets; and  *)
(* that each request a page is known to send unchecked is refused to       *)
(* somebody, so that none is excepted without need.                        *)
(***************************************************************************)
EXTENDS Charts, Notices, Workspace, FiniteSetTheorems, SequenceTheorems, TLAPS

-----------------------------------------------------------------------------
Request == [panel : Panels, filter : Filters, viewer : Viewers, run : Nat]
Panel == [status : {"idle", "loading", "success", "error"}, data : Data]

ChartsTypeOK ==
    /\ viewer \in Viewers /\ filter \in Filters /\ effect \in Nat
    /\ allowed \subseteq Panels
    /\ panel \in [Panels -> Panel]
    /\ asked \subseteq Request
    /\ cache \in [Panels -> [Filters -> Data]]

\* Requests are of a run so far; those of the last run ask for what is set, for
\* the person signed in and a panel that person may see.
LastRunIsCurrent ==
    \A request \in asked :
      /\ request.run <= effect
      /\ ~Cancelled(request) =>
           /\ request.filter = filter /\ request.viewer = viewer
           /\ request.panel \in allowed

ChartsInv == ChartsTypeOK /\ LastRunIsCurrent /\ PanelsCurrent

\* The invariant holds before the effect has run.
LEMMA ChartsStart == ChartsInit => ChartsInv
<1> SUFFICES ASSUME ChartsInit PROVE ChartsInv
  OBVIOUS
<1>1. ChartsTypeOK
  BY DEF ChartsInit, ChartsTypeOK, Panel, Data
<1>2. LastRunIsCurrent /\ PanelsCurrent
  BY DEF ChartsInit, LastRunIsCurrent, PanelsCurrent, SuccessIsCurrent, LoadingIsAsked
<1> QED  BY <1>1, <1>2 DEF ChartsInv

\* A run of the effect, for whatever changed, starts over.
LEMMA EffectStep ==
    ASSUME ChartsInv, NEW v \in Viewers, NEW may \in SUBSET Panels, NEW f \in Filters,
           NEW shown \in [Panels -> Data], RunEffect(v, may, f, shown)
    PROVE  ChartsInv'
<1> DEFINE new == {[panel |-> p, filter |-> f, viewer |-> v, run |-> effect + 1] : p \in may}
<1>1. /\ effect \in Nat /\ effect' = effect + 1
      /\ viewer' = v /\ allowed' = may /\ filter' = f /\ cache' = cache
      /\ asked' = asked \cup new
      /\ panel' = [p \in Panels |-> IF p \in may THEN WhileLoading(shown[p], cache[p][f])
                                    ELSE [status |-> "idle", data |-> NoData]]
  BY DEF ChartsInv, ChartsTypeOK, RunEffect
<1>2. new \subseteq Request
  BY <1>1 DEF Request
<1>3. \A p \in Panels : WhileLoading(shown[p], cache[p][f]) \in Panel
  BY DEF ChartsInv, ChartsTypeOK, WhileLoading, Panel
<1>4. [status |-> "idle", data |-> NoData] \in Panel
  BY DEF Panel, Data
<1>5. panel' \in [Panels -> Panel]
  BY <1>1, <1>3, <1>4
<1>6. ChartsTypeOK'
  BY <1>1, <1>2, <1>5 DEF ChartsInv, ChartsTypeOK
<1>7. LastRunIsCurrent'
  <2> SUFFICES ASSUME NEW request \in asked'
               PROVE  /\ request.run <= effect'
                      /\ request.run = effect' =>
                           /\ request.filter = filter' /\ request.viewer = viewer'
                           /\ request.panel \in allowed'
    BY DEF LastRunIsCurrent, Cancelled
  <2>1. CASE request \in asked
    <3>1. request.run \in Nat /\ request.run <= effect
      BY <2>1 DEF ChartsInv, ChartsTypeOK, Request, LastRunIsCurrent
    <3> QED  BY <1>1, <3>1
  <2>2. CASE request \in new
    BY <1>1, <2>2
  <2> QED  BY <1>1, <2>1, <2>2
<1>8. \A p \in Panels : panel'[p].status # "success"
  BY <1>1 DEF WhileLoading
<1>9. SuccessIsCurrent'
  BY <1>8 DEF SuccessIsCurrent
<1>10. LoadingIsAsked'
  <2> SUFFICES ASSUME NEW p \in Panels
               PROVE  /\ p \notin may => panel'[p] = [status |-> "idle", data |-> NoData]
                      /\ panel'[p].status = "loading" =>
                           \E request \in asked' : request.panel = p /\ request.run = effect'
    BY <1>1 DEF LoadingIsAsked, Cancelled
  <2>1. CASE p \in may
    <3>1. [panel |-> p, filter |-> f, viewer |-> v, run |-> effect + 1] \in asked'
      BY <1>1, <2>1
    <3> QED  BY <1>1, <2>1, <3>1
  <2>2. CASE p \notin may
    BY <1>1, <2>2
  <2> QED  BY <2>1, <2>2
<1> QED  BY <1>6, <1>7, <1>9, <1>10 DEF ChartsInv, PanelsCurrent

\* An answer, or a failure, touches at most the panel of the last run it is for.
LEMMA SettleStep ==
    ASSUME ChartsInv, NEW request \in asked, ChartArrives(request) \/ ChartFails(request)
    PROVE  ChartsInv'
<1>0. /\ ChartsTypeOK /\ LastRunIsCurrent /\ SuccessIsCurrent /\ LoadingIsAsked
      /\ request \in Request
      /\ asked' = asked \ {request} /\ UNCHANGED <<viewer, allowed, filter, effect>>
  BY DEF ChartsInv, PanelsCurrent, ChartsTypeOK, ChartArrives, ChartFails
<1>1. PICK p \in Panels, data \in Data :
        p = request.panel /\ data = [filter |-> request.filter, viewer |-> request.viewer]
  BY <1>0 DEF Request, Data
<1>2. PICK row \in Panel :
        /\ ~Cancelled(request) => panel' = [panel EXCEPT ![p] = row]
        /\ row.status \in {"success", "error"}
        /\ row.status = "success" => row.data = data
  <2>1. CASE ChartArrives(request)
    <3> DEFINE row == [status |-> "success", data |-> data]
    <3>1. row \in Panel
      BY DEF Panel
    <3>2. ~Cancelled(request) => panel' = [panel EXCEPT ![p] = row]
      BY <1>1, <2>1 DEF ChartArrives
    <3> QED  BY <3>1, <3>2
  <2>2. CASE ChartFails(request)
    <3> DEFINE row == [panel[p] EXCEPT !.status = "error"]
    <3>1. row \in Panel /\ row.status = "error"
      BY <1>0 DEF Panel, ChartsTypeOK
    <3>2. ~Cancelled(request) => panel' = [panel EXCEPT ![p] = row]
      BY <1>0, <1>1, <2>2 DEF ChartFails, ChartsTypeOK
    <3> QED  BY <3>1, <3>2
  <2> QED  BY <2>1, <2>2
<1>3. Cancelled(request) => panel' = panel
  BY DEF ChartArrives, ChartFails
<1>4. cache' \in [Panels -> [Filters -> Data]]
  <2>1. CASE ChartArrives(request)
    <3>1. request.filter \in Filters /\ cache[p] \in [Filters -> Data]
      BY <1>0 DEF Request, ChartsTypeOK
    <3>2. [cache[p] EXCEPT ![request.filter] = data] \in [Filters -> Data]
      BY <3>1
    <3>3. cache' = [cache EXCEPT ![p] = [cache[p] EXCEPT ![request.filter] = data]]
      BY <1>0, <1>1, <2>1 DEF ChartArrives, ChartsTypeOK
    <3> QED  BY <1>0, <3>2, <3>3 DEF ChartsTypeOK
  <2>2. CASE ChartFails(request)
    BY <1>0, <2>2 DEF ChartFails, ChartsTypeOK
  <2> QED  BY <2>1, <2>2
<1>5. panel' \in [Panels -> Panel]
  BY <1>0, <1>2, <1>3 DEF ChartsTypeOK
<1>6. ChartsTypeOK'
  BY <1>0, <1>4, <1>5 DEF ChartsTypeOK
<1>7. LastRunIsCurrent'
  BY <1>0 DEF LastRunIsCurrent, Cancelled
<1>8. ~Cancelled(request) => p \in allowed /\ data = [filter |-> filter, viewer |-> viewer]
  BY <1>0, <1>1 DEF LastRunIsCurrent
<1>9. \A x \in Panels : panel'[x] = IF x = p /\ ~Cancelled(request) THEN row ELSE panel[x]
  BY <1>0, <1>2, <1>3 DEF ChartsTypeOK
<1>10. SuccessIsCurrent'
  BY <1>0, <1>2, <1>8, <1>9 DEF SuccessIsCurrent
<1>11. LoadingIsAsked'
  <2> SUFFICES ASSUME NEW x \in Panels
               PROVE  /\ x \notin allowed => panel'[x] = [status |-> "idle", data |-> NoData]
                      /\ panel'[x].status = "loading" =>
                           \E q \in asked' : q.panel = x /\ q.run = effect
    BY <1>0 DEF LoadingIsAsked, Cancelled
  <2>1. x \notin allowed => panel'[x] = [status |-> "idle", data |-> NoData]
    BY <1>0, <1>8, <1>9 DEF LoadingIsAsked
  <2>2. ASSUME panel'[x].status = "loading"
        PROVE  \E q \in asked' : q.panel = x /\ q.run = effect
    <3>1. panel[x].status = "loading" /\ (x # p \/ Cancelled(request))
      BY <1>2, <1>9, <2>2
    <3>2. PICK q \in asked : q.panel = x /\ q.run = effect
      BY <1>0, <3>1 DEF LoadingIsAsked, Cancelled
    <3>3. q # request
      BY <1>1, <3>1, <3>2 DEF Cancelled
    <3> QED  BY <1>0, <3>2, <3>3
  <2> QED  BY <2>1, <2>2
<1> QED  BY <1>6, <1>7, <1>10, <1>11 DEF ChartsInv, PanelsCurrent

\* The invariant is inductive.
LEMMA ChartsStep == ChartsInv /\ [ChartStep]_chartVars => ChartsInv'
<1> SUFFICES ASSUME ChartsInv, [ChartStep]_chartVars PROVE ChartsInv'
  OBVIOUS
<1>0. viewer \in Viewers /\ filter \in Filters /\ allowed \in SUBSET Panels
  BY DEF ChartsInv, ChartsTypeOK
<1>1. PICK shown : shown = Shown
  OBVIOUS
<1>2. shown \in [Panels -> Data]
  BY <1>1 DEF Shown, ChartsInv, ChartsTypeOK, Panel
<1>3. ASSUME NEW v \in Viewers, NEW may \in SUBSET Panels, NEW f \in Filters,
             RunEffect(v, may, f, Shown)
      PROVE  ChartsInv'
  BY <1>1, <1>2, <1>3, EffectStep
<1>4. PICK v \in Viewers, f \in Filters, may \in SUBSET Panels :
        v = viewer /\ f = filter /\ may = allowed
  BY <1>0
<1>5. ASSUME NEW g \in Filters, ChangeFilter(g) PROVE ChartsInv'
  BY <1>3, <1>4, <1>5 DEF ChangeFilter
<1>6. CASE Retry
  BY <1>3, <1>4, <1>6 DEF Retry
<1>7. ASSUME NEW m \in SUBSET Panels, AllowedChanges(m) PROVE ChartsInv'
  BY <1>3, <1>4, <1>7 DEF AllowedChanges
<1>8. ASSUME NEW m \in SUBSET Panels, NEW w \in Viewers, SignInAs(w, m) PROVE ChartsInv'
  <2>1. [p \in Panels |-> NoData] \in [Panels -> Data]
    BY DEF Data
  <2> QED  BY <1>4, <1>8, <2>1, EffectStep DEF SignInAs
<1>9. CASE UNCHANGED chartVars
  BY <1>9 DEF chartVars, ChartsInv, ChartsTypeOK, LastRunIsCurrent, PanelsCurrent,
              SuccessIsCurrent, LoadingIsAsked, Cancelled
<1> QED  BY <1>5, <1>6, <1>7, <1>8, <1>9, SettleStep DEF ChartStep

\* Whatever the order of answers and failures, across changes of filter, of
\* permissions and of the person signed in (dashboard-analytics-section.tsx), a
\* panel that reports success shows what was asked for last, one that may not be
\* seen shows nothing, and none waits for an answer that will be thrown away.
THEOREM ChartsAreCurrent == ChartsSpec => []PanelsCurrent
<1>1. ChartsInv => PanelsCurrent
  BY DEF ChartsInv
<1> QED  BY <1>1, ChartsStart, ChartsStep, PTL DEF ChartsSpec

-----------------------------------------------------------------------------
(* The bell: what is on its way, what a handler under way knows *)

Notice == [to : Users \cup {None}, meant : SUBSET Users, read : BOOLEAN]
Event == [kind : {"notice"}, id : Nat] \cup [kind : Topics]

\* A notice that was, or will be, pushed to Me is meant for Me, if for anybody.
MayTell(n) == n \in Stored /\ (notices[n].meant # {} => Me \in notices[n].meant)

\* Pushes on their way that the bell will count.
Counting(q) == {i \in DOMAIN q : q[i].kind \notin SystemEvents}
Due == Counting(stream.inbox)

NoticeRows ==
    /\ office \in [Users -> Offices] /\ Cardinality(Managers) <= 1
    /\ notices \in Seq(Notice) /\ Len(notices) <= MaxNotices
    /\ dismissed \subseteq Stored \X Users
    /\ topic \in [Topics -> 0..MaxEdits]

StreamIsSound ==
    /\ stream.open \in BOOLEAN /\ stream.inbox \in Seq(Event)
    /\ stream = [open |-> stream.open, inbox |-> stream.inbox, drops |-> stream.drops]
    /\ stream.open \/ stream.inbox = <<>>
    /\ \A i \in DOMAIN stream.inbox :
         stream.inbox[i].kind = "notice" => MayTell(stream.inbox[i].id)

BellIsSound ==
    /\ bell \in [live : SUBSET (Stored \cup {Blank}), listed : SUBSET Stored, count : Nat,
                 told : SUBSET Stored]
    /\ \A n \in bell.told : MayTell(n) /\ (notices[n].to = Me => n \in bell.live \cup DismissedBy(Me))

\* The pushes on their way and the count are bounded by what was ever sent.
CountIsBounded ==
    /\ Cardinality(Due) <= Len(notices) + topic["departments"]
    /\ bell.count + Cardinality(Due) <= 2 * Len(notices) + topic["departments"]

\* What a handler under way holds is still so, and what it cleared is dismissed.
HandlerIsSound ==
    /\ flow.pc \in {"idle", "load", "list", "count", "total", "clear", "cleared"}
    /\ flow.pc = "list" => flow.got \subseteq Stored
    /\ flow.pc = "total" => flow.got \in 0..Len(notices)
    /\ flow.pc \in {"clear", "cleared"} =>
         /\ flow = [pc |-> flow.pc, gone |-> flow.gone, all |-> flow.all]
         /\ flow.all \in BOOLEAN /\ flow.gone \subseteq Stored \cup {Blank}
         /\ ~ flow.all => \E n \in Stored : flow.gone = {n}
    /\ flow.pc = "cleared" =>
         \A n \in flow.gone \cap Stored : notices[n].to = Me => n \in DismissedBy(Me)

BellInv == NoticeRows /\ StreamIsSound /\ BellIsSound /\ CountIsBounded /\ HandlerIsSound

-----------------------------------------------------------------------------
(* Lemmas about rows and what is on its way *)

\* Rows are added and marked, never readdressed or taken away; dismissals stay.
Grows ==
    /\ notices' \in Seq(Notice) /\ Len(notices) <= Len(notices')
    /\ \A n \in Stored : notices'[n].to = notices[n].to /\ notices'[n].meant = notices[n].meant
    /\ dismissed \subseteq dismissed'

\* The rows are numbered from one.
LEMMA StoredIs ==
    ASSUME NoticeRows
    PROVE  Stored = 1..Len(notices) /\ Len(notices) \in Nat /\ IsFiniteSet(Stored)
           /\ Cardinality(Stored) = Len(notices)
<1>1. Stored = 1..Len(notices) /\ Len(notices) \in Nat
  BY DEF NoticeRows, Stored
<1> QED  BY <1>1, FS_Interval

\* No notice is ever taken back.
LEMMA StoredGrows ==
    ASSUME NoticeRows, Grows
    PROVE  Stored \subseteq Stored'
<1>1. Len(notices) \in Nat /\ Len(notices') \in Nat
  BY DEF NoticeRows, Grows
<1>2. Stored = 1..Len(notices) /\ Stored' = 1..Len(notices')
  BY DEF NoticeRows, Grows, Stored
<1> QED  BY <1>1, <1>2 DEF Grows

\* What a user may be told of, and what they dismissed, stays so.
LEMMA TellKept ==
    ASSUME NoticeRows, Grows, NEW n \in Stored
    PROVE  /\ MayTell(n) => MayTell(n)'
           /\ n \in DismissedBy(Me) => n \in DismissedBy(Me)'
BY StoredGrows DEF MayTell, DismissedBy, Grows

\* Nothing changes: rows grow, in the least way.
LEMMA GrowsIdle ==
    ASSUME NoticeRows, UNCHANGED <<notices, dismissed>>
    PROVE  Grows
BY DEF NoticeRows, Grows

\* Dismissing takes no notice back.
LEMMA GrowsByDismissal ==
    ASSUME NoticeRows, UNCHANGED notices, dismissed \subseteq dismissed'
    PROVE  Grows
BY DEF NoticeRows, Grows

\* What the bell keeps stays sound while rows are added and notices dismissed.
LEMMA BellKept ==
    ASSUME NoticeRows, BellIsSound, Grows, UNCHANGED bell
    PROVE  BellIsSound'
<1>1. /\ bell.live \subseteq Stored \cup {Blank} /\ bell.listed \subseteq Stored
      /\ bell.told \subseteq Stored /\ bell.count \in Nat
      /\ bell = [live |-> bell.live, listed |-> bell.listed, count |-> bell.count, told |-> bell.told]
  BY DEF BellIsSound
<1>2. bell' \in [live : SUBSET (Stored' \cup {Blank}), listed : SUBSET Stored', count : Nat,
                 told : SUBSET Stored']
  <2>1. Stored \subseteq Stored'
    BY StoredGrows
  <2> QED  BY <1>1, <2>1
<1>3. ASSUME NEW n \in bell.told
      PROVE  MayTell(n)' /\ (notices'[n].to = Me => n \in bell.live \cup DismissedBy(Me)')
  BY <1>1, TellKept DEF BellIsSound, Grows
<1> QED  BY <1>2, <1>3 DEF BellIsSound

\* So does what a handler under way holds.
LEMMA HandlerKept ==
    ASSUME NoticeRows, HandlerIsSound, Grows, UNCHANGED flow
    PROVE  HandlerIsSound'
<1>1. Stored \subseteq Stored' /\ Len(notices) <= Len(notices')
  BY StoredGrows DEF Grows
<1>2. Len(notices) \in Nat /\ Len(notices') \in Nat
  BY DEF NoticeRows, Grows
<1>3. flow.pc = "total" => flow.got \in 0..Len(notices')
  BY <1>1, <1>2 DEF HandlerIsSound
<1>4. ASSUME flow.pc = "cleared", NEW n \in flow.gone \cap Stored', notices'[n].to = Me
      PROVE  n \in DismissedBy(Me)'
  <2>1. CASE n \in Stored
    BY <1>4, <2>1, TellKept DEF HandlerIsSound, Grows
  <2>2. CASE n \notin Stored
    <3>1. n = Blank
      BY <1>4, <2>2 DEF HandlerIsSound
    <3>2. n \in Nat
      BY <1>2, <1>4 DEF Grows, Stored
    <3> QED  BY <3>1, <3>2, NoticesAssumption
  <2> QED  BY <2>1, <2>2
<1> QED  BY <1>1, <1>3, <1>4 DEF HandlerIsSound

\* A sequence of events, longer by one or shorter by its head.
LEMMA DueAppended ==
    ASSUME NEW q \in Seq(Event), NEW e \in Event, NEW D, NEW N, IsFiniteSet(D),
           D = Counting(q), N = Counting(Append(q, e))
    PROVE  /\ IsFiniteSet(N)
           /\ Cardinality(N) = IF e.kind \in SystemEvents THEN Cardinality(D) ELSE Cardinality(D) + 1
<1> DEFINE k == Len(q) + 1
<1>1. Len(q) \in Nat /\ DOMAIN q = 1..Len(q) /\ DOMAIN Append(q, e) = 1..k
  OBVIOUS
<1>2. Append(q, e)[k] = e /\ \A i \in 1..Len(q) : Append(q, e)[i] = q[i]
  OBVIOUS
<1>3. k \notin D
  BY <1>1 DEF Counting
<1>4. N = IF e.kind \in SystemEvents THEN D ELSE D \cup {k}
  BY <1>1, <1>2 DEF Counting
<1> HIDE DEF k
<1>5. IsFiniteSet(D \cup {k}) /\ Cardinality(D \cup {k}) = Cardinality(D) + 1
  BY <1>3, FS_AddElement
<1>6. CASE e.kind \in SystemEvents
  <2>1. N = D
    BY <1>4, <1>6
  <2> QED  BY <1>6, <2>1
<1>7. CASE e.kind \notin SystemEvents
  <2>1. N = D \cup {k}
    BY <1>4, <1>7
  <2> QED  BY <1>5, <1>7, <2>1
<1> QED  BY <1>6, <1>7

\* Taking an event from the stream takes what it counts for from what is due.
LEMMA DueTaken ==
    ASSUME NEW q \in Seq(Event), q # <<>>, NEW D, NEW N, IsFiniteSet(D),
           D = Counting(q), N = Counting(Tail(q))
    PROVE  /\ IsFiniteSet(N)
           /\ Cardinality(N) <= IF Head(q).kind \in SystemEvents THEN Cardinality(D)
                                ELSE Cardinality(D) - 1
<1> DEFINE f == [i \in N |-> i + 1]
<1>1. /\ Len(q) \in Nat \ {0} /\ DOMAIN q = 1..Len(q) /\ DOMAIN Tail(q) = 1..(Len(q) - 1)
      /\ Head(q) = q[1] /\ \A i \in 1..(Len(q) - 1) : Tail(q)[i] = q[i + 1]
  OBVIOUS
<1>2. \A i \in N : i \in Nat /\ i + 1 \in D \ {1}
  BY <1>1 DEF Counting
<1>3. f \in Injection(N, D \ {1})
  <2>1. f \in [N -> D \ {1}]
    BY <1>2
  <2>2. \A i, j \in N : f[i] = f[j] => i = j
    BY <1>2
  <2> QED  BY <2>1, <2>2 DEF Injection, IsInjective
<1>4. 1 \in D <=> Head(q).kind \notin SystemEvents
  BY <1>1 DEF Counting
<1> HIDE DEF f
<1>6. IsFiniteSet(D \ {1}) /\ Cardinality(D \ {1}) = IF 1 \in D THEN Cardinality(D) - 1 ELSE Cardinality(D)
  BY FS_RemoveElement
<1>7. IsFiniteSet(N) /\ Cardinality(N) <= Cardinality(D \ {1})
  BY <1>3, <1>6, FS_Injection
<1>8. Cardinality(D) \in Nat
  BY FS_CardinalityType
<1> QED  BY <1>4, <1>6, <1>7, <1>8

\* What the bell has still to count is a finite number.
LEMMA DueTyped ==
    ASSUME StreamIsSound
    PROVE  IsFiniteSet(Due) /\ Cardinality(Due) \in Nat
<1>1. Due \subseteq 1..Len(stream.inbox) /\ Len(stream.inbox) \in Nat
  BY DEF StreamIsSound, Due, Counting
<1>2. IsFiniteSet(1..Len(stream.inbox))
  BY <1>1, FS_Interval
<1> QED  BY <1>1, <1>2, FS_Subset, FS_CardinalityType

-----------------------------------------------------------------------------
(* Steps of the server *)

\* Numbers of rows and edits.
LEMMA BoundsTyped ==
    ASSUME NoticeRows
    PROVE  Len(notices) \in Nat /\ topic["departments"] \in Nat
BY NoticesAssumption DEF NoticeRows, Topics

\* An event that is sent, or nothing, while rows are added.
LEMMA BellGrows ==
    ASSUME BellInv, Grows, NoticeRows', topic["departments"] <= topic'["departments"],
           UNCHANGED <<bell, flow>>,
           \/ stream' = stream
           \/ \E e \in Event :
                /\ stream' = Sent(stream, e)
                /\ e.kind = "notice" => MayTell(e.id)'
                /\ e.kind \in SystemEvents \/
                     Len(notices') + topic'["departments"] > Len(notices) + topic["departments"]
    PROVE  BellInv'
<1>1. BellIsSound' /\ HandlerIsSound'
  BY BellKept, HandlerKept DEF BellInv
<1>2. /\ Len(notices) \in Nat /\ Len(notices') \in Nat /\ Len(notices) <= Len(notices')
      /\ topic["departments"] \in Nat /\ topic'["departments"] \in Nat /\ bell.count \in Nat
      /\ IsFiniteSet(Due) /\ Cardinality(Due) \in Nat
  BY NoticesAssumption, DueTyped DEF BellInv, NoticeRows, Topics, BellIsSound, Grows
<1>3. ASSUME NEW i \in DOMAIN stream.inbox, stream.inbox[i].kind = "notice", NEW n,
             n = stream.inbox[i].id
      PROVE  MayTell(n)'
  <2>1. MayTell(n) /\ n \in Stored
    BY <1>3 DEF BellInv, StreamIsSound, MayTell
  <2> QED  BY <2>1, TellKept DEF BellInv
<1>4. CASE stream' = stream
  <2>1. StreamIsSound'
    BY <1>3, <1>4 DEF BellInv, StreamIsSound
  <2>2. Due' = Due
    BY <1>4 DEF Due
  <2>3. CountIsBounded'
    BY <1>2, <2>2 DEF BellInv, CountIsBounded
  <2> QED  BY <1>1, <2>1, <2>3 DEF BellInv
<1>5. CASE stream' # stream
  <2>1. PICK e \in Event :
          /\ stream' = Sent(stream, e)
          /\ e.kind = "notice" => MayTell(e.id)'
          /\ e.kind \in SystemEvents \/
               Len(notices') + topic'["departments"] > Len(notices) + topic["departments"]
    BY <1>5
  <2>2. PICK q : q = stream.inbox
    OBVIOUS
  <2>3. /\ stream.open /\ stream'.open = TRUE /\ stream'.inbox = Append(q, e)
        /\ stream' = [open |-> TRUE, inbox |-> stream'.inbox, drops |-> stream'.drops]
        /\ q \in Seq(Event)
    BY <1>5, <2>1, <2>2 DEF Sent, BellInv, StreamIsSound
  <2>4. StreamIsSound'
    <3>1. stream'.inbox \in Seq(Event)
      BY <2>3
    <3>2. ASSUME NEW i \in DOMAIN Append(q, e), Append(q, e)[i].kind = "notice", NEW n,
                 n = Append(q, e)[i].id
          PROVE  MayTell(n)'
      <4>1. CASE i = Len(q) + 1
        BY <2>1, <2>3, <3>2, <4>1
      <4>2. CASE i # Len(q) + 1
        <5>1. i \in DOMAIN q /\ Append(q, e)[i] = q[i]
          BY <2>3, <4>2
        <5> QED  BY <1>3, <2>2, <3>2, <5>1
      <4> QED  BY <4>1, <4>2
    <3> QED  BY <2>3, <3>1, <3>2 DEF StreamIsSound
  <2>5. PICK D, N : D = Due /\ N = Due'
    OBVIOUS
  <2>6. Cardinality(Due') = IF e.kind \in SystemEvents THEN Cardinality(Due) ELSE Cardinality(Due) + 1
    <3>1. IsFiniteSet(D) /\ D = Counting(q) /\ N = Counting(Append(q, e))
      BY <1>2, <2>2, <2>3, <2>5 DEF Due
    <3>2. Cardinality(N) = IF e.kind \in SystemEvents THEN Cardinality(D) ELSE Cardinality(D) + 1
      BY <2>3, <3>1, DueAppended
    <3> QED  BY <2>5, <3>2
  <2>7. CountIsBounded'
    <3>1. /\ Cardinality(Due) <= Len(notices) + topic["departments"]
          /\ bell.count + Cardinality(Due) <= 2 * Len(notices) + topic["departments"]
      BY DEF BellInv, CountIsBounded
    <3>2. /\ Cardinality(Due') <= Len(notices') + topic'["departments"]
          /\ bell'.count + Cardinality(Due') <= 2 * Len(notices') + topic'["departments"]
      <4>0. PICK l \in Nat, m \in Nat, s \in Nat, t \in Nat, c \in Nat, d \in Nat :
              /\ l = Len(notices) /\ m = Len(notices') /\ c = bell.count /\ d = Cardinality(Due)
              /\ s = topic["departments"] /\ t = topic'["departments"]
        BY <1>2
      <4>1. l <= m /\ s <= t /\ d <= l + s /\ c + d <= 2 * l + s /\ bell'.count = c
        BY <1>2, <3>1, <4>0
      <4>2. CASE e.kind \in SystemEvents
        <5>1. Cardinality(Due') = d
          BY <2>6, <4>0, <4>2
        <5>2. d <= m + t /\ c + d <= 2 * m + t
          BY <4>1
        <5> QED  BY <4>0, <4>1, <5>1, <5>2
      <4>3. CASE e.kind \notin SystemEvents
        <5>1. Cardinality(Due') = d + 1
          BY <2>6, <4>0, <4>3
        <5>2. m + t > l + s
          BY <2>1, <4>0, <4>3
        <5>3. d + 1 <= m + t /\ c + (d + 1) <= 2 * m + t
          BY <4>1, <5>2
        <5> QED  BY <4>0, <4>1, <5>1, <5>3
      <4> QED  BY <4>2, <4>3
    <3> QED  BY <3>2 DEF CountIsBounded
  <2> QED  BY <1>1, <2>4, <2>7 DEF BellInv
<1> QED  BY <1>4, <1>5

\* A row is added.
LEMMA RowsAppended ==
    ASSUME NoticeRows, NEW row \in Notice, Len(notices) < MaxNotices,
           notices' = Append(notices, row), UNCHANGED <<office, dismissed, topic>>
    PROVE  /\ NoticeRows' /\ Grows /\ Len(notices') = Len(notices) + 1
           /\ Len(notices') \in Stored' /\ notices'[Len(notices')] = row
<1>1. notices \in Seq(Notice) /\ Len(notices) \in Nat /\ MaxNotices \in Nat
  BY NoticesAssumption DEF NoticeRows
<1>2. /\ notices' \in Seq(Notice) /\ Len(notices') = Len(notices) + 1
      /\ DOMAIN notices = 1..Len(notices) /\ DOMAIN notices' = 1..Len(notices')
      /\ notices'[Len(notices) + 1] = row /\ \A n \in 1..Len(notices) : notices'[n] = notices[n]
  BY <1>1
<1>3. Grows
  BY <1>1, <1>2 DEF Grows, Stored
<1>4. Stored \subseteq Stored'
  BY <1>3, StoredGrows
<1>5. NoticeRows'
  BY <1>1, <1>2, <1>4 DEF NoticeRows, Managers
<1> QED  BY <1>1, <1>2, <1>3, <1>5 DEF Stored

\* A notice that is stored and pushed keeps the invariant of the bell.
LEMMA BellCreate ==
    ASSUME BellInv, NEW r \in Recipients, Create(r)
    PROVE  BellInv'
<1>1. r.to \in Users \cup {None} /\ r.meant \in SUBSET Users
      /\ (r.to # None => r.meant = {r.to})
  <2>1. Admins \subseteq Users /\ HqHr \subseteq Users /\ Managers \subseteq Users
    BY DEF Admins, HqHr, Managers
  <2>2. Managers # {} => (CHOOSE u \in Managers : TRUE) \in Users
    BY <2>1
  <2>3. (\E u \in Users : r = Direct(u)) \/ \E M \in SUBSET Users : r = [to |-> None, meant |-> M]
    BY <2>1, <2>2 DEF Recipients, ToAdmins, ToBranchManager, ToFinalApprovers
  <2> QED  BY <2>3 DEF Direct
<1>2. PICK row : row = Row(r)
  OBVIOUS
<1>3. row \in Notice /\ row.to = r.to /\ row.meant = r.meant
  BY <1>1, <1>2 DEF Row, Notice
<1>4. /\ Len(notices) < MaxNotices /\ notices' = Append(notices, row)
      /\ UNCHANGED <<office, dismissed, topic, bell, flow>>
  BY <1>2 DEF Create
<1>5. /\ NoticeRows' /\ Grows /\ Len(notices') = Len(notices) + 1
      /\ Len(notices') \in Stored' /\ notices'[Len(notices')] = row
  BY <1>3, <1>4, RowsAppended DEF BellInv
<1>6. Len(notices) \in Nat /\ topic["departments"] \in Nat
  BY BoundsTyped DEF BellInv
<1>7. CASE Me \in PushedTo(r)
  <2>1. PICK e : e = [kind |-> "notice", id |-> Len(notices')]
    OBVIOUS
  <2>2. e \in Event /\ e.kind = "notice" /\ e.id = Len(notices')
    BY <1>5, <1>6, <2>1 DEF Event
  <2>3. stream' = Sent(stream, e)
    BY <1>7, <2>1 DEF Create
  <2>4. MayTell(e.id)'
    BY <1>1, <1>3, <1>5, <1>7, <2>2 DEF MayTell, PushedTo
  <2>5. Len(notices') + topic'["departments"] > Len(notices) + topic["departments"]
    BY <1>4, <1>5, <1>6
  <2> QED  BY <1>4, <1>5, <1>6, <2>2, <2>3, <2>4, <2>5, BellGrows
<1>8. CASE Me \notin PushedTo(r)
  <2>1. stream' = stream
    BY <1>8 DEF Create
  <2> QED  BY <1>4, <1>5, <1>6, <2>1, BellGrows
<1> QED  BY <1>7, <1>8

\* A notice that is stored without a push keeps the invariant of the bell.
LEMMA BellCreateQuietly ==
    ASSUME BellInv, NEW u \in Users, CreateQuietly(u)
    PROVE  BellInv'
<1>1. PICK row : row = Row(Direct(u))
  OBVIOUS
<1>2. row \in Notice
  BY <1>1 DEF Row, Direct, Notice
<1>3. /\ Len(notices) < MaxNotices /\ notices' = Append(notices, row)
      /\ UNCHANGED <<office, dismissed, topic, stream, bell, flow>>
  BY <1>1 DEF CreateQuietly
<1>4. NoticeRows' /\ Grows
  BY <1>2, <1>3, RowsAppended DEF BellInv
<1>5. topic["departments"] <= topic'["departments"]
  BY <1>3, BoundsTyped DEF BellInv
<1> QED  BY <1>3, <1>4, <1>5, BellGrows

\* Notices are marked as read, by anybody.
LEMMA RowsMarked ==
    ASSUME NoticeRows, NEW u \in Users, NEW N, notices' = MarkedRead(u, N),
           UNCHANGED <<office, dismissed, topic>>
    PROVE  NoticeRows' /\ Grows /\ Stored' = Stored /\ Len(notices') = Len(notices)
<1>1. notices \in Seq(Notice) /\ Stored = 1..Len(notices) /\ Len(notices) \in Nat
  BY StoredIs DEF NoticeRows
<1>2. \A n \in Stored : notices[n] \in Notice
  BY <1>1
<1>3. ASSUME NEW n \in Stored
      PROVE  notices'[n] \in Notice /\ notices'[n].to = notices[n].to
             /\ notices'[n].meant = notices[n].meant
  <2>1. PICK b \in BOOLEAN : b = (notices[n].read \/ n \in N \cap Addressed(u))
    OBVIOUS
  <2>2. notices'[n] = [notices[n] EXCEPT !.read = b]
    BY <1>2, <2>1 DEF MarkedRead, Notice
  <2> QED  BY <1>2, <2>2 DEF Notice
<1>4. DOMAIN notices' = 1..Len(notices) /\ notices' = [n \in 1..Len(notices) |-> notices'[n]]
  BY <1>1 DEF MarkedRead
<1>5. notices' \in Seq(Notice) /\ Len(notices') = Len(notices) /\ Stored' = Stored
  <2>1. \A n \in 1..Len(notices) : notices'[n] \in Notice
    BY <1>1, <1>3
  <2>2. notices' \in [1..Len(notices) -> Notice]
    BY <1>4, <2>1
  <2>3. notices' \in Seq(Notice)
    BY <1>1, <2>2
  <2>4. Len(notices') = Len(notices)
    BY <1>1, <1>4, <2>3
  <2> QED  BY <1>1, <1>4, <2>3, <2>4 DEF Stored
<1>6. Grows
  BY <1>1, <1>3, <1>5 DEF Grows
<1>7. NoticeRows'
  BY <1>5 DEF NoticeRows, Managers
<1> QED  BY <1>5, <1>6, <1>7

\* Somebody dismisses notices that are theirs to see.
LEMMA RowsDismissed ==
    ASSUME NoticeRows, NEW u \in Users, NEW N \in SUBSET Stored,
           dismissed' = dismissed \cup Dismissing(u, N), UNCHANGED <<office, notices, topic>>
    PROVE  NoticeRows' /\ Grows
<1>1. dismissed' \subseteq Stored \X Users
  BY DEF NoticeRows, Dismissing
<1>2. NoticeRows'
  BY <1>1 DEF NoticeRows, Managers, Stored
<1>3. Grows
  BY GrowsByDismissal
<1> QED  BY <1>2, <1>3

\* Another user's client keeps the invariant of the bell.
LEMMA BellElsewhere ==
    ASSUME BellInv, NEW u \in Users, Elsewhere(u)
    PROVE  BellInv'
<1>1. UNCHANGED <<office, stream, bell, flow, topic>> /\ topic["departments"] \in Nat /\ NoticeRows
  BY BoundsTyped DEF Elsewhere, BellInv
<1>2. CASE (ClearAll(u) \/ \E n \in Stored : Clear(u, n)) /\ UNCHANGED notices
  <2>1. \E N \in SUBSET Stored : dismissed' = dismissed \cup Dismissing(u, N)
    BY <1>2 DEF ClearAll, Clear, FindAll, Addressed
  <2>2. NoticeRows' /\ Grows
    BY <1>1, <1>2, <2>1, RowsDismissed
  <2> QED  BY <1>1, <2>2, BellGrows
<1>3. CASE (MarkAllAsRead(u) \/ \E n \in Stored : MarkAsRead(u, n)) /\ UNCHANGED dismissed
  <2>1. \E N : notices' = MarkedRead(u, N)
    BY <1>3 DEF MarkAllAsRead, MarkAsRead
  <2>2. NoticeRows' /\ Grows
    BY <1>1, <1>3, <2>1, RowsMarked
  <2> QED  BY <1>1, <2>2, BellGrows
<1> QED  BY <1>2, <1>3 DEF Elsewhere

\* A user who changes office keeps the invariant of the bell.
LEMMA BellOffice ==
    ASSUME BellInv, NEW u \in Users, NEW o \in Offices, ChangeOffice(u, o)
    PROVE  BellInv'
<1>1. UNCHANGED <<notices, dismissed, stream, bell, flow, topic>> /\ topic["departments"] \in Nat
      /\ NoticeRows
  BY BoundsTyped DEF ChangeOffice, BellInv
<1>2. /\ office \in [Users -> Offices] /\ office' = [office EXCEPT ![u] = o]
      /\ "manager" \in o => Managers \subseteq {u}
  BY <1>1 DEF ChangeOffice, NoticeRows
<1>3. IsFiniteSet(Managers) /\ Cardinality(Managers) <= 1 /\ Cardinality(Managers) \in Nat
  <2>1. Managers \subseteq Users
    BY DEF Managers
  <2> QED  BY <1>1, <2>1, NoticesAssumption, FS_Subset, FS_CardinalityType DEF NoticeRows
<1>4. Cardinality(Managers') <= 1
  <2>1. CASE "manager" \in o
    <3>1. Managers' = {u}
      BY <1>2, <2>1 DEF Managers
    <3>2. Cardinality({u}) = 1
      BY FS_Singleton
    <3> QED  BY <3>1, <3>2
  <2>2. CASE "manager" \notin o
    <3>1. Managers' \subseteq Managers
      BY <1>2, <2>2 DEF Managers
    <3>2. PICK M, N : M = Managers /\ N = Managers'
      OBVIOUS
    <3>3. IsFiniteSet(M) /\ N \in SUBSET M
      BY <1>3, <3>1, <3>2
    <3>4. Cardinality(N) <= Cardinality(M) /\ Cardinality(N) \in Nat
      BY <3>3, FS_Subset, FS_CardinalityType
    <3> QED  BY <1>3, <3>2, <3>4
  <2> QED  BY <2>1, <2>2
<1>5. NoticeRows'
  <2>1. office' \in [Users -> Offices]
    BY <1>2
  <2> QED  BY <1>1, <1>4, <2>1 DEF NoticeRows, Stored
<1>6. Grows
  BY <1>1, GrowsIdle
<1> QED  BY <1>1, <1>5, <1>6, BellGrows

\* A broadcast to the pages keeps the invariant of the bell.
LEMMA BellBroadcast ==
    ASSUME BellInv, NEW t \in Topics, Broadcast(t)
    PROVE  BellInv'
<1>1. /\ UNCHANGED <<office, notices, dismissed, bell, flow>> /\ NoticeRows
      /\ topic \in [Topics -> 0..MaxEdits] /\ topic[t] < MaxEdits /\ topic[t] \in Nat /\ MaxEdits \in Nat
      /\ topic' = [topic EXCEPT ![t] = topic[t] + 1]
      /\ stream' = Sent(stream, [kind |-> t])
      /\ Len(notices) \in Nat /\ topic["departments"] \in Nat
  BY BoundsTyped, NoticesAssumption DEF Broadcast, BellInv, NoticeRows
<1>2. topic' \in [Topics -> 0..MaxEdits]
  BY <1>1
<1>3. topic'["departments"] = IF t = "departments" THEN topic["departments"] + 1 ELSE topic["departments"]
  BY <1>1 DEF Topics
<1>4. NoticeRows'
  BY <1>1, <1>2 DEF NoticeRows, Managers, Stored
<1>5. Grows
  BY <1>1, GrowsIdle
<1>6. PICK e : e = [kind |-> t]
  OBVIOUS
<1>7. e \in Event /\ e.kind = t /\ e.kind # "notice"
  BY <1>6 DEF Event, Topics
<1>8. stream' = Sent(stream, e)
  BY <1>1, <1>6
<1>9. e.kind \in SystemEvents \/
        Len(notices') + topic'["departments"] > Len(notices) + topic["departments"]
  BY <1>1, <1>3, <1>7 DEF SystemEvents, Topics
<1>10. topic["departments"] <= topic'["departments"]
  BY <1>1, <1>3
<1> QED  BY <1>1, <1>4, <1>5, <1>7, <1>8, <1>9, <1>10, BellGrows

-----------------------------------------------------------------------------
(* Steps of Me's stream and bell *)

\* The stream opens; it breaks and takes with it what was on its way.
LEMMA BellStream ==
    ASSUME BellInv, StreamOpens \/ StreamBreaks
    PROVE  BellInv'
<1>1. /\ UNCHANGED <<office, notices, dismissed, bell, flow, topic>> /\ NoticeRows
      /\ Len(notices) \in Nat /\ topic["departments"] \in Nat /\ bell.count \in Nat
      /\ IsFiniteSet(Due) /\ Cardinality(Due) \in Nat
  BY BoundsTyped, DueTyped DEF StreamOpens, StreamBreaks, BellInv, BellIsSound
<1>2. NoticeRows' /\ Grows
  BY <1>1, GrowsIdle DEF NoticeRows, Managers, Stored
<1>3. BellIsSound' /\ HandlerIsSound'
  BY <1>1, <1>2, BellKept, HandlerKept DEF BellInv
<1>4. CASE StreamOpens
  <2>1. /\ stream'.open = TRUE /\ stream'.inbox = stream.inbox
        /\ stream' = [open |-> TRUE, inbox |-> stream'.inbox, drops |-> stream'.drops]
    BY <1>4 DEF StreamOpens, BellInv, StreamIsSound
  <2>2. StreamIsSound'
    BY <1>1, <2>1 DEF BellInv, StreamIsSound, MayTell, Stored
  <2>3. Due' = Due
    BY <2>1 DEF Due
  <2>4. CountIsBounded'
    BY <1>1, <2>3 DEF BellInv, CountIsBounded
  <2> QED  BY <1>2, <1>3, <2>2, <2>4 DEF BellInv
<1>5. CASE StreamBreaks
  <2>1. /\ stream'.open = FALSE /\ stream'.inbox = <<>>
        /\ stream' = [open |-> FALSE, inbox |-> <<>>, drops |-> stream'.drops]
    BY <1>5 DEF StreamBreaks
  <2>2. StreamIsSound'
    <3>1. <<>> \in Seq(Event) /\ DOMAIN <<>> = {}
      OBVIOUS
    <3>2. DOMAIN stream'.inbox = {}
      BY <2>1, <3>1
    <3>3. /\ stream'.open \in BOOLEAN /\ stream'.inbox \in Seq(Event)
          /\ stream' = [open |-> stream'.open, inbox |-> stream'.inbox, drops |-> stream'.drops]
          /\ stream'.inbox = <<>>
      BY <2>1, <3>1
    <3> QED  BY <3>2, <3>3 DEF StreamIsSound
  <2>3. Due' = {}
    BY <2>1 DEF Due, Counting
  <2>4. Cardinality(Due') = 0
    BY <2>3, FS_EmptySet
  <2>5. bell.count + Cardinality(Due) <= 2 * Len(notices) + topic["departments"]
    BY DEF BellInv, CountIsBounded
  <2>6. CountIsBounded'
    BY <1>1, <2>4, <2>5 DEF CountIsBounded
  <2> QED  BY <1>2, <1>3, <2>2, <2>6 DEF BellInv
<1> QED  BY <1>4, <1>5

\* An event arrives.
LEMMA BellMessage ==
    ASSUME BellInv, OnMessage
    PROVE  BellInv'
<1>1. /\ UNCHANGED <<office, notices, dismissed, flow, topic>> /\ NoticeRows
      /\ Len(notices) \in Nat /\ topic["departments"] \in Nat /\ bell.count \in Nat
      /\ IsFiniteSet(Due) /\ Cardinality(Due) \in Nat
  BY BoundsTyped, DueTyped DEF OnMessage, BellInv, BellIsSound
<1>2. NoticeRows' /\ Grows
  BY <1>1, GrowsIdle DEF NoticeRows, Managers, Stored
<1>3. HandlerIsSound'
  BY <1>1, <1>2, HandlerKept DEF BellInv
<1>4. PICK q : q = stream.inbox
  OBVIOUS
<1>5. q \in Seq(Event) /\ q # <<>> /\ stream.open = TRUE
  BY <1>4 DEF OnMessage, BellInv, StreamIsSound
<1>6. PICK e : e = Head(q)
  OBVIOUS
<1>7. /\ e \in Event /\ e = q[1] /\ 1 \in DOMAIN q
      /\ Tail(q) \in Seq(Event) /\ \A i \in DOMAIN Tail(q) : i + 1 \in DOMAIN q /\ Tail(q)[i] = q[i + 1]
  BY <1>5, <1>6
<1>8. /\ stream'.open = TRUE /\ stream'.inbox = Tail(q)
      /\ stream' = [open |-> TRUE, inbox |-> stream'.inbox, drops |-> stream'.drops]
  BY <1>4, <1>5 DEF OnMessage, BellInv, StreamIsSound
<1>9. StreamIsSound'
  <2>1. ASSUME NEW i \in DOMAIN Tail(q), Tail(q)[i].kind = "notice", NEW n, n = Tail(q)[i].id
        PROVE  MayTell(n)'
    <3>1. MayTell(n)
      BY <1>4, <1>7, <2>1 DEF BellInv, StreamIsSound
    <3> QED  BY <1>1, <3>1 DEF MayTell, Stored
  <2> QED  BY <1>7, <1>8, <2>1 DEF StreamIsSound
<1>10. PICK D, N : D = Due /\ N = Due'
  OBVIOUS
<1>11. /\ IsFiniteSet(N) /\ Cardinality(N) \in Nat
       /\ Cardinality(N) <= IF e.kind \in SystemEvents THEN Cardinality(D) ELSE Cardinality(D) - 1
  <2>1. IsFiniteSet(D) /\ D = Counting(q) /\ N = Counting(Tail(q))
    BY <1>1, <1>4, <1>8, <1>10 DEF Due
  <2> QED  BY <1>5, <1>6, <2>1, DueTaken, FS_CardinalityType
<1>12. /\ Cardinality(D) <= Len(notices) + topic["departments"]
       /\ bell.count + Cardinality(D) <= 2 * Len(notices) + topic["departments"]
       /\ Cardinality(D) \in Nat
  BY <1>1, <1>10 DEF BellInv, CountIsBounded
<1>13. CASE e.kind \in SystemEvents
  <2>1. bell' = bell
    BY <1>4, <1>6, <1>13 DEF OnMessage, SystemEvents
  <2>2. BellIsSound'
    BY <1>2, <2>1, BellKept DEF BellInv
  <2>3. Cardinality(N) <= Cardinality(D)
    BY <1>11, <1>13
  <2>4. /\ Cardinality(N) <= Len(notices) + topic["departments"]
        /\ bell.count + Cardinality(N) <= 2 * Len(notices) + topic["departments"]
    BY <1>1, <1>11, <1>12, <2>3
  <2>5. CountIsBounded'
    BY <1>1, <1>10, <2>1, <2>4 DEF CountIsBounded
  <2> QED  BY <1>2, <1>3, <1>9, <2>2, <2>5 DEF BellInv
<1>14. CASE e.kind \notin SystemEvents
  <2>1. PICK x : /\ bell' = Counted(bell, x)
                 /\ x = Blank \/ MayTell(x)
    <3>1. CASE e.kind = "notice"
      <4>1. bell' = Counted(bell, e.id)
        BY <1>4, <1>6, <3>1 DEF OnMessage
      <4>2. PICK n : n = e.id
        OBVIOUS
      <4>3. MayTell(n)
        BY <1>4, <1>7, <3>1, <4>2 DEF BellInv, StreamIsSound
      <4> QED  BY <4>1, <4>2, <4>3
    <3>2. CASE e.kind # "notice"
      BY <1>4, <1>6, <1>14, <3>2 DEF OnMessage
    <3> QED  BY <3>1, <3>2
  <2>2. /\ bell'.live = bell.live \cup {x} /\ bell'.listed = bell.listed
        /\ bell'.count = bell.count + 1 /\ bell'.told = bell.told \cup ({x} \ {Blank})
        /\ bell' = [live |-> bell'.live, listed |-> bell'.listed, count |-> bell'.count,
                    told |-> bell'.told]
    BY <2>1 DEF Counted, BellInv, BellIsSound
  <2>3. BellIsSound'
    <3>1. /\ bell.live \subseteq Stored \cup {Blank} /\ bell.listed \subseteq Stored
          /\ bell.told \subseteq Stored /\ x \in Stored \cup {Blank} /\ Stored' = Stored
      BY <1>1, <2>1 DEF BellInv, BellIsSound, MayTell, Stored
    <3>2. bell' \in [live : SUBSET (Stored' \cup {Blank}), listed : SUBSET Stored', count : Nat,
                     told : SUBSET Stored']
      BY <1>1, <2>2, <3>1
    <3>3. ASSUME NEW n \in bell'.told
          PROVE  MayTell(n)' /\ (notices'[n].to = Me => n \in bell'.live \cup DismissedBy(Me)')
      <4>1. MayTell(n) /\ (notices[n].to = Me => n \in bell'.live \cup DismissedBy(Me))
        BY <2>1, <2>2, <3>3 DEF BellInv, BellIsSound
      <4> QED  BY <1>1, <4>1 DEF MayTell, DismissedBy, Stored
    <3> QED  BY <3>2, <3>3 DEF BellIsSound
  <2>4. /\ Cardinality(N) <= Len(notices) + topic["departments"]
        /\ (bell.count + 1) + Cardinality(N) <= 2 * Len(notices) + topic["departments"]
    <3>1. Cardinality(N) <= Cardinality(D) - 1
      BY <1>11, <1>14
    <3> QED  BY <1>1, <1>11, <1>12, <3>1
  <2>5. CountIsBounded'
    BY <1>1, <1>10, <2>2, <2>4 DEF CountIsBounded
  <2> QED  BY <1>2, <1>3, <1>9, <2>3, <2>5 DEF BellInv
<1> QED  BY <1>13, <1>14

\* What stays when a handler goes on: rows, dismissals and the stream.
LEMMA BellAside ==
    ASSUME BellInv, NoticeRows', Grows, UNCHANGED <<stream, topic>>, Len(notices') = Len(notices),
           BellIsSound', HandlerIsSound', bell'.count <= bell.count \/ bell'.count <= Len(notices)
    PROVE  BellInv'
<1>1. /\ Len(notices) \in Nat /\ topic["departments"] \in Nat
      /\ bell.count \in Nat /\ bell'.count \in Nat /\ Cardinality(Due) \in Nat
  BY BoundsTyped, DueTyped DEF BellInv, BellIsSound
<1>2. StreamIsSound'
  <2>1. ASSUME NEW i \in DOMAIN stream.inbox, stream.inbox[i].kind = "notice", NEW n,
               n = stream.inbox[i].id
        PROVE  MayTell(n)'
    <3>1. MayTell(n) /\ n \in Stored
      BY <2>1 DEF BellInv, StreamIsSound, MayTell
    <3> QED  BY <3>1, TellKept DEF BellInv
  <2> QED  BY <2>1 DEF BellInv, StreamIsSound
<1>3. Due' = Due
  BY DEF Due
<1>4. /\ Cardinality(Due) <= Len(notices) + topic["departments"]
      /\ bell.count + Cardinality(Due) <= 2 * Len(notices) + topic["departments"]
  BY DEF BellInv, CountIsBounded
<1>5. bell'.count + Cardinality(Due) <= 2 * Len(notices) + topic["departments"]
  BY <1>1, <1>4
<1>6. CountIsBounded'
  BY <1>3, <1>4, <1>5 DEF CountIsBounded
<1> QED  BY <1>2, <1>6 DEF BellInv

\* A bell that lists something else, and holds live what was told and not dismissed.
LEMMA BellListed ==
    ASSUME NoticeRows, BellIsSound, UNCHANGED <<notices, dismissed>>,
           NEW L \in SUBSET Stored, NEW V \in SUBSET bell.live, NEW c \in Nat,
           \A n \in bell.told : notices[n].to = Me => n \in V \cup DismissedBy(Me),
           bell' = [bell EXCEPT !.listed = L, !.live = V, !.count = c]
    PROVE  BellIsSound'
<1>1. /\ bell.live \subseteq Stored \cup {Blank} /\ bell.told \subseteq Stored /\ Stored' = Stored
      /\ bell = [live |-> bell.live, listed |-> bell.listed, count |-> bell.count, told |-> bell.told]
  BY DEF BellIsSound, Stored
<1>2. /\ bell' = [live |-> V, listed |-> L, count |-> c, told |-> bell.told]
      /\ bell'.live = V /\ bell'.told = bell.told
  BY <1>1
<1>3. bell' \in [live : SUBSET (Stored' \cup {Blank}), listed : SUBSET Stored', count : Nat,
                 told : SUBSET Stored']
  BY <1>1, <1>2
<1>4. ASSUME NEW n \in bell'.told
      PROVE  MayTell(n)' /\ (notices'[n].to = Me => n \in bell'.live \cup DismissedBy(Me)')
  BY <1>1, <1>2 DEF BellIsSound, MayTell, DismissedBy, Stored
<1> QED  BY <1>3, <1>4 DEF BellIsSound

\* The bell loads: the list, then the count, or neither.
LEMMA BellLoads ==
    ASSUME BellInv, LoadReads \/ ListReceived \/ CountReads \/ CountReceived \/ LoadFails
    PROVE  BellInv'
<1>1. UNCHANGED <<office, notices, dismissed, stream, topic>>
  BY DEF LoadReads, ListReceived, CountReads, CountReceived, LoadFails
<1>2. /\ NoticeRows /\ NoticeRows' /\ Grows /\ BellIsSound /\ Stored' = Stored
  BY <1>1, GrowsIdle DEF BellInv, NoticeRows, Managers, Stored
<1>3. /\ Len(notices) \in Nat /\ Len(notices') = Len(notices) /\ bell.count \in Nat
      /\ bell.listed \in SUBSET Stored
      /\ \A n \in bell.told : notices[n].to = Me => n \in bell.live \cup DismissedBy(Me)
      /\ bell = [live |-> bell.live, listed |-> bell.listed, count |-> bell.count, told |-> bell.told]
  BY <1>1, <1>2, BoundsTyped DEF BellIsSound
<1>4. /\ FindAll(Me) \subseteq Stored /\ FindUnreadCount(Me) \in 0..Len(notices)
  <2>1. FindAll(Me) \subseteq Stored
    BY DEF FindAll, Addressed
  <2>2. PICK U : U = {n \in FindAll(Me) : ~notices[n].read}
    OBVIOUS
  <2>3. PICK S : S = Stored
    OBVIOUS
  <2>4. U \in SUBSET S /\ IsFiniteSet(S) /\ Cardinality(S) = Len(notices)
    BY <1>2, <2>1, <2>2, <2>3, StoredIs
  <2>5. Cardinality(U) <= Cardinality(S) /\ Cardinality(U) \in Nat
    BY <2>4, FS_Subset, FS_CardinalityType
  <2> QED  BY <1>3, <2>1, <2>2, <2>4, <2>5 DEF FindUnreadCount
<1>5. CASE LoadReads \/ CountReads
  <2>1. bell' = bell
    BY <1>5 DEF LoadReads, CountReads
  <2>2. BellIsSound'
    BY <1>2, <2>1, BellKept
  <2>3. HandlerIsSound'
    BY <1>2, <1>3, <1>4, <1>5 DEF LoadReads, CountReads, HandlerIsSound
  <2> QED  BY <1>1, <1>2, <1>3, <2>1, <2>2, <2>3, BellAside
<1>6. CASE ListReceived
  <2>1. PICK L \in SUBSET Stored : L = flow.got
    BY <1>6 DEF ListReceived, BellInv, HandlerIsSound
  <2>2. bell' = [bell EXCEPT !.listed = L, !.live = bell.live, !.count = bell.count]
    BY <1>3, <1>6, <2>1 DEF ListReceived, Listed
  <2>3. BellIsSound' /\ bell'.count = bell.count
    BY <1>1, <1>2, <1>3, <2>2, BellListed
  <2>4. HandlerIsSound'
    BY <1>6 DEF ListReceived, HandlerIsSound
  <2> QED  BY <1>1, <1>2, <1>3, <2>3, <2>4, BellAside
<1>7. CASE CountReceived
  <2>1. PICK c \in Nat : c = flow.got /\ c <= Len(notices)
    BY <1>3, <1>7 DEF CountReceived, BellInv, HandlerIsSound
  <2>2. bell' = [bell EXCEPT !.listed = bell.listed, !.live = bell.live, !.count = c]
    BY <1>3, <1>7, <2>1 DEF CountReceived
  <2>3. BellIsSound' /\ bell'.count = c
    BY <1>1, <1>2, <1>3, <2>2, BellListed
  <2>4. HandlerIsSound'
    BY <1>7 DEF CountReceived, HandlerIsSound, FIdle
  <2> QED  BY <1>1, <1>2, <1>3, <2>1, <2>3, <2>4, BellAside
<1>8. CASE LoadFails
  <2>1. bell' = [bell EXCEPT !.listed = {}, !.live = bell.live, !.count = bell.count]
    BY <1>3, <1>8 DEF LoadFails
  <2>2. BellIsSound' /\ bell'.count = bell.count
    BY <1>1, <1>2, <1>3, <2>1, BellListed
  <2>3. HandlerIsSound'
    BY <1>8 DEF LoadFails, HandlerIsSound, FIdle
  <2> QED  BY <1>1, <1>2, <1>3, <2>2, <2>3, BellAside
<1> QED  BY <1>5, <1>6, <1>7, <1>8

\* The person clears one notice or all, or marks them read.
LEMMA BellHandles ==
    ASSUME BellInv, HandleClear \/ HandleClearAll \/ HandleMarkRead
    PROVE  BellInv'
<1>1. NoticeRows /\ BellIsSound /\ Len(notices) \in Nat /\ bell.count \in Nat
      /\ bell.live \subseteq Stored \cup {Blank} /\ bell.listed \subseteq Stored
      /\ bell = [live |-> bell.live, listed |-> bell.listed, count |-> bell.count, told |-> bell.told]
  BY BoundsTyped DEF BellInv, BellIsSound
<1>2. CASE HandleClear \/ HandleClearAll
  <2>1. UNCHANGED <<office, notices, dismissed, stream, topic, bell>>
    BY <1>2 DEF HandleClear, HandleClearAll
  <2>2. NoticeRows' /\ Grows /\ Stored' = Stored
    BY <1>1, <2>1, GrowsIdle DEF NoticeRows, Managers, Stored
  <2>3. BellIsSound'
    BY <1>1, <2>1, <2>2, BellKept
  <2>4. AllNotifications \subseteq Stored \cup {Blank}
    BY <1>1 DEF AllNotifications
  <2>5. HandlerIsSound'
    <3>1. CASE HandleClear
      <4>1. PICK n \in Stored : flow' = [pc |-> "clear", gone |-> {n}, all |-> FALSE]
        BY <2>4, <3>1 DEF HandleClear
      <4> QED  BY <2>2, <4>1 DEF HandlerIsSound
    <3>2. CASE HandleClearAll
      <4>1. PICK G \in SUBSET (Stored \cup {Blank}) : flow' = [pc |-> "clear", gone |-> G, all |-> TRUE]
        BY <2>4, <3>2 DEF HandleClearAll
      <4> QED  BY <2>2, <4>1 DEF HandlerIsSound
    <3> QED  BY <1>2, <3>1, <3>2
  <2> QED  BY <1>1, <2>1, <2>2, <2>3, <2>5, BellAside
<1>3. CASE HandleMarkRead
  <2>1. UNCHANGED <<office, dismissed, stream, topic>> /\ flow' = [pc |-> "load"]
    BY <1>3 DEF HandleMarkRead
  <2>2. \E N : notices' = MarkedRead(Me, N)
    BY <1>3 DEF HandleMarkRead, MarkAsRead, MarkAllAsRead
  <2>3. NoticeRows' /\ Grows /\ Stored' = Stored /\ Len(notices') = Len(notices)
    BY <1>1, <2>1, <2>2, RowsMarked, NoticesAssumption
  <2>4. HandlerIsSound'
    BY <2>1 DEF HandlerIsSound
  <2>5. bell' = bell \/ bell' = [bell EXCEPT !.count = 0]
    BY <1>3 DEF HandleMarkRead
  <2>6. /\ bell'.live = bell.live /\ bell'.told = bell.told /\ bell'.listed = bell.listed
        /\ bell'.count \in Nat /\ bell'.count <= bell.count
        /\ bell' = [live |-> bell'.live, listed |-> bell'.listed, count |-> bell'.count, told |-> bell'.told]
    BY <1>1, <2>5
  <2>7. BellIsSound'
    <3>1. bell.told \subseteq Stored
      BY <1>1 DEF BellIsSound
    <3>2. bell' \in [live : SUBSET (Stored' \cup {Blank}), listed : SUBSET Stored', count : Nat,
                     told : SUBSET Stored']
      BY <1>1, <2>3, <2>6, <3>1
    <3>3. ASSUME NEW n \in bell'.told
          PROVE  MayTell(n)' /\ (notices'[n].to = Me => n \in bell'.live \cup DismissedBy(Me)')
      <4>1. n \in Stored /\ MayTell(n) /\ (notices[n].to = Me => n \in bell.live \cup DismissedBy(Me))
        BY <1>1, <2>6, <3>1, <3>3 DEF BellIsSound
      <4> QED  BY <1>1, <2>3, <2>6, <4>1, TellKept DEF Grows
    <3> QED  BY <3>2, <3>3 DEF BellIsSound
  <2> QED  BY <1>1, <2>1, <2>3, <2>4, <2>6, <2>7, BellAside
<1> QED  BY <1>2, <1>3

\* The server dismisses what is cleared, or does not find it; then the bell forgets it.
LEMMA BellClears ==
    ASSUME BellInv, ClearDone \/ ClearReceived
    PROVE  BellInv'
<1>1. /\ NoticeRows /\ BellIsSound /\ HandlerIsSound /\ Len(notices) \in Nat /\ bell.count \in Nat
      /\ bell.live \subseteq Stored \cup {Blank} /\ bell.listed \subseteq Stored
      /\ bell.told \subseteq Stored
      /\ bell = [live |-> bell.live, listed |-> bell.listed, count |-> bell.count, told |-> bell.told]
      /\ UNCHANGED <<office, notices, stream, topic>>
  BY BoundsTyped DEF BellInv, BellIsSound, ClearDone, ClearReceived
<1>2. /\ flow.pc \in {"clear", "cleared"} /\ flow.all \in BOOLEAN
      /\ flow.gone \subseteq Stored \cup {Blank}
      /\ flow = [pc |-> flow.pc, gone |-> flow.gone, all |-> flow.all]
      /\ ~ flow.all => \E n \in Stored : flow.gone = {n}
  BY <1>1 DEF ClearDone, ClearReceived, HandlerIsSound
<1>3. PICK G \in SUBSET (Stored \cup {Blank}), a \in BOOLEAN : G = flow.gone /\ a = flow.all
  BY <1>2
<1>4. CASE ClearDone
  <2>1. bell' = bell
    BY <1>4 DEF ClearDone
  <2>2. CASE flow' = FIdle /\ UNCHANGED dismissed
    <3>1. NoticeRows' /\ Grows
      BY <1>1, <2>2, GrowsIdle DEF NoticeRows, Managers, Stored
    <3>2. HandlerIsSound'
      BY <2>2 DEF HandlerIsSound, FIdle
    <3>3. BellIsSound'
      BY <1>1, <2>1, <3>1, BellKept
    <3> QED  BY <1>1, <2>1, <3>1, <3>2, <3>3, BellAside
  <2>3. CASE flow' = [flow EXCEPT !.pc = "cleared"]
    <3>1. PICK N \in SUBSET Stored :
            /\ dismissed' = dismissed \cup Dismissing(Me, N)
            /\ \A n \in G \cap Stored : notices[n].to = Me => n \in N \cup DismissedBy(Me)
      <4>1. CASE flow.all
        <5>1. dismissed' = dismissed \cup Dismissing(Me, FindAll(Me))
          BY <1>4, <2>3, <4>1 DEF ClearDone, ClearAll, FIdle
        <5>2. FindAll(Me) \in SUBSET Stored
              /\ \A n \in Stored : notices[n].to = Me => n \in FindAll(Me) \cup DismissedBy(Me)
          BY DEF FindAll, Addressed
        <5> QED  BY <5>1, <5>2
      <4>2. CASE ~ flow.all
        <5>1. PICK n \in Stored : flow.gone = {n}
          BY <1>2, <4>2
        <5>2. Clear(Me, CHOOSE m \in flow.gone : TRUE)
          BY <1>4, <2>3, <4>2 DEF ClearDone, FIdle
        <5>3. (CHOOSE m \in flow.gone : TRUE) = n
          BY <5>1
        <5>4. dismissed' = dismissed \cup Dismissing(Me, {n})
          BY <5>2, <5>3 DEF Clear
        <5>5. {n} \in SUBSET Stored /\ G = {n}
          BY <1>3, <5>1
        <5> QED  BY <5>4, <5>5
      <4> QED  BY <4>1, <4>2
    <3>2. NoticeRows' /\ Grows /\ Stored' = Stored
      BY <1>1, <3>1, RowsDismissed, NoticesAssumption DEF Stored
    <3>3. BellIsSound'
      BY <1>1, <2>1, <3>2, BellKept
    <3>4. flow' = [pc |-> "cleared", gone |-> G, all |-> a]
      BY <1>2, <1>3, <2>3
    <3>5. \A n \in G \cap Stored : notices[n].to = Me => n \in DismissedBy(Me)'
      BY <1>1, <3>1, <3>2, NoticesAssumption DEF DismissedBy, Dismissing
    <3>6. HandlerIsSound'
      BY <1>1, <1>2, <1>3, <3>2, <3>4, <3>5 DEF HandlerIsSound
    <3> QED  BY <1>1, <2>1, <3>2, <3>3, <3>6, BellAside
  <2> QED  BY <1>4, <2>2, <2>3 DEF ClearDone
<1>5. CASE ClearReceived
  <2>1. flow.pc = "cleared" /\ flow' = FIdle /\ dismissed' = dismissed /\ bell' = AfterClear(bell, flow)
    BY <1>5 DEF ClearReceived
  <2>2. NoticeRows' /\ Grows
    BY <1>1, <2>1, GrowsIdle DEF NoticeRows, Managers, Stored
  <2>3. HandlerIsSound'
    BY <2>1 DEF HandlerIsSound, FIdle
  <2>4. PICK V \in SUBSET bell.live : V = bell.live \ G
    OBVIOUS
  <2>5. \A n \in bell.told : notices[n].to = Me => n \in V \cup DismissedBy(Me)
    BY <1>1, <1>3, <2>1, <2>4 DEF BellIsSound, HandlerIsSound
  <2>6. BellIsSound' /\ bell'.count <= bell.count
    <3>1. CASE a
      <4>1. PICK L \in SUBSET Stored, c \in Nat : L = {} /\ c = 0
        OBVIOUS
      <4>2. bell' = [bell EXCEPT !.listed = L, !.live = V, !.count = c]
        BY <1>1, <1>3, <2>1, <2>4, <3>1, <4>1 DEF AfterClear
      <4>3. bell'.count = c
        BY <1>1, <4>2
      <4>4. BellIsSound'
        BY <1>1, <2>1, <2>5, <4>2, BellListed
      <4>5. bell'.count <= bell.count
        BY <1>1, <4>1, <4>3
      <4> QED  BY <4>4, <4>5
    <3>2. CASE ~ a
      <4>1. PICK L \in SUBSET Stored, c \in Nat : L = bell.listed \ G /\ c = bell.count
        BY <1>1
      <4>2. bell' = [bell EXCEPT !.listed = L, !.live = V, !.count = c]
        BY <1>1, <1>3, <2>1, <2>4, <3>2, <4>1 DEF AfterClear
      <4>3. bell'.count = c
        BY <1>1, <4>2
      <4>4. BellIsSound'
        BY <1>1, <2>1, <2>5, <4>2, BellListed
      <4>5. bell'.count <= bell.count
        BY <1>1, <4>1, <4>3
      <4> QED  BY <4>4, <4>5
    <3> QED  BY <3>1, <3>2
  <2> QED  BY <1>1, <2>2, <2>3, <2>6, BellAside
<1> QED  BY <1>4, <1>5

-----------------------------------------------------------------------------
(* The theorems on notices *)

\* The invariant holds before anything was sent.
LEMMA BellStart == NoticesInit => BellInv
<1> SUFFICES ASSUME NoticesInit PROVE BellInv
  OBVIOUS
<1>1. /\ office \in [Users -> Offices] /\ Cardinality(Managers) <= 1
      /\ notices = <<>> /\ dismissed = {}
      /\ stream = [open |-> FALSE, inbox |-> <<>>, drops |-> 0]
      /\ bell = [live |-> {}, listed |-> {}, count |-> 0, told |-> {}]
      /\ flow = [pc |-> "load"] /\ topic = [t \in Topics |-> 0]
  BY DEF NoticesInit, Managers
<1>2. <<>> \in Seq(Notice) /\ <<>> \in Seq(Event) /\ Len(<<>>) = 0 /\ DOMAIN <<>> = {}
  OBVIOUS
<1>3. NoticeRows
  BY <1>1, <1>2, NoticesAssumption DEF NoticeRows
<1>4. StreamIsSound /\ stream.inbox = <<>>
  BY <1>1, <1>2 DEF StreamIsSound
<1>5. BellIsSound
  BY <1>1 DEF BellIsSound
<1>6. CountIsBounded
  <2>1. Due = {}
    BY <1>2, <1>4 DEF Due, Counting
  <2>2. Cardinality(Due) = 0
    BY <2>1, FS_EmptySet
  <2> QED  BY <1>1, <1>2, <2>2 DEF CountIsBounded, Topics
<1>7. HandlerIsSound
  BY <1>1 DEF HandlerIsSound
<1> QED  BY <1>3, <1>4, <1>5, <1>6, <1>7 DEF BellInv

\* Pages load; the bell is not concerned.
LEMMA BellApart ==
    ASSUME BellInv, UNCHANGED <<office, notices, dismissed, stream, bell, flow, topic>>
    PROVE  BellInv'
<1>1. NoticeRows' /\ Grows
  BY GrowsIdle DEF BellInv, NoticeRows, Managers, Stored
<1>2. topic["departments"] <= topic'["departments"]
  BY BoundsTyped DEF BellInv
<1> QED  BY <1>1, <1>2, BellGrows

\* Every step keeps the invariant of the bell.
LEMMA BellNext == BellInv /\ [NoticeStep \/ PageStep \/ ClientStep]_noticeVars => BellInv'
<1> SUFFICES ASSUME BellInv, [NoticeStep \/ PageStep \/ ClientStep]_noticeVars PROVE BellInv'
  OBVIOUS
<1>1. CASE NoticeStep
  BY <1>1, BellCreate, BellCreateQuietly, BellElsewhere, BellOffice DEF NoticeStep
<1>2. CASE PageStep
  <2>1. ASSUME NEW t \in Topics, PageLoads(t) PROVE BellInv'
    BY <2>1, BellApart DEF PageLoads
  <2> QED  BY <1>2, <2>1, BellStream, BellBroadcast DEF PageStep
<1>3. CASE ClientStep
  BY <1>3, BellStream, BellMessage, BellLoads, BellHandles, BellClears DEF ClientStep
<1>4. CASE UNCHANGED noticeVars
  BY <1>4, BellApart DEF noticeVars
<1> QED  BY <1>1, <1>2, <1>3, <1>4

\* The invariant of the bell holds throughout.
LEMMA BellAlways == NoticesSpec => []BellInv
BY BellStart, BellNext, PTL DEF NoticesSpec

\* For any users and any number of notices, edits and broken streams: a notice
\* is pushed live only to those it is meant for, whenever there are any, and
\* what arrived live stays on the bell until its reader clears it, whatever
\* lists, counts and clearings were under way (notifications.service create and
\* clear; the hook and the bell of the frontend).
THEOREM NoticesAreSound == NoticesSpec => []NoticesSound
<1>1. BellInv => NoticesSound
  <2> SUFFICES ASSUME BellInv PROVE NoticesSound
    OBVIOUS
  <2>1. NoticeRows /\ StreamIsSound /\ BellIsSound /\ CountIsBounded
    BY DEF BellInv
  <2>2. NoticesTypeOK
    <3>1. \A n \in Stored : notices[n].to \in Users \cup {None} /\ notices[n].meant \subseteq Users
      <4>1. \A n \in Stored : notices[n] \in Notice
        BY <2>1 DEF NoticeRows, Stored
      <4> QED  BY <4>1 DEF Notice
    <3>2. bell.count \in 0..(2 * MaxNotices + MaxEdits)
      <4>1. /\ Len(notices) \in Nat /\ topic["departments"] \in Nat /\ Cardinality(Due) \in Nat
            /\ bell.count \in Nat /\ MaxNotices \in Nat /\ MaxEdits \in Nat
            /\ Len(notices) <= MaxNotices /\ topic["departments"] <= MaxEdits
        BY <2>1, BoundsTyped, DueTyped, NoticesAssumption DEF NoticeRows, BellIsSound, Topics
      <4> QED  BY <2>1, <4>1 DEF CountIsBounded
    <3> QED  BY <2>1, <3>1, <3>2 DEF NoticesTypeOK, NoticeRows, StreamIsSound, BellIsSound
  <2>3. LivePushScoped /\ LiveStays
    BY <2>1 DEF LivePushScoped, LiveStays, BellIsSound, MayTell, AllNotifications
  <2> QED  BY <2>2, <2>3 DEF NoticesSound
<1> QED  BY <1>1, BellAlways, PTL

-----------------------------------------------------------------------------
(* Whose history a dismissal changes *)

\* Of the others, a step of Me or of somebody else's client takes nothing.
Personal(u) ==
    \A n \in FindAll(u) : n \in FindAll(u)' \/ office'[u] # office[u] \/ (u = Me <=> flow' # flow)

\* Without a dismissal of one's own and with the same office, one sees what one saw.
LEMMA SeenKept ==
    ASSUME NoticeRows, Grows, NEW u \in Users, office'[u] = office[u],
           NEW n \in FindAll(u), <<n, u>> \notin dismissed'
    PROVE  n \in FindAll(u)'
<1>1. n \in Stored /\ n \in Addressed(u)
  BY DEF FindAll, Addressed
<1>2. n \in Stored' /\ notices'[n].to = notices[n].to
  BY <1>1, StoredGrows DEF Grows
<1>3. n \in Addressed(u)'
  BY <1>1, <1>2 DEF Addressed, Admins
<1> QED  BY <1>3 DEF FindAll, DismissedBy

\* Rows are added or marked, and nothing is dismissed.
LEMMA PersonalKept ==
    ASSUME NoticeRows, Grows, NEW u \in Users, UNCHANGED dismissed
    PROVE  Personal(u)
<1> SUFFICES ASSUME NEW n \in FindAll(u), office'[u] = office[u] PROVE n \in FindAll(u)'
  BY DEF Personal
<1>1. <<n, u>> \notin dismissed'
  BY DEF FindAll, DismissedBy, Addressed
<1> QED  BY <1>1, SeenKept

\* Somebody dismisses: everybody else sees what they saw.
LEMMA PersonalDismissal ==
    ASSUME NoticeRows, NEW u \in Users, NEW w \in Users, NEW N,
           dismissed' = dismissed \cup Dismissing(w, N), UNCHANGED <<office, notices>>,
           w = Me <=> flow' # flow
    PROVE  Personal(u)
<1>1. CASE u = w
  BY <1>1 DEF Personal
<1>2. CASE u # w
  <2> SUFFICES ASSUME NEW n \in FindAll(u) PROVE n \in FindAll(u)'
    BY DEF Personal
  <2>1. <<n, u>> \notin dismissed'
    BY <1>2 DEF FindAll, DismissedBy, Addressed, Dismissing
  <2>2. Grows
    BY GrowsByDismissal
  <2> QED  BY <2>1, <2>2, SeenKept
<1> QED  BY <1>1, <1>2

\* What a user sees goes only by their own doing, or a change of their office.
LEMMA PersonalNext ==
    ASSUME BellInv, NEW u \in Users, [NoticeStep \/ PageStep \/ ClientStep]_noticeVars
    PROVE  Personal(u)
<1>1. NoticeRows /\ HandlerIsSound /\ Me \in Users
  BY NoticesAssumption DEF BellInv
<1>2. ASSUME UNCHANGED <<notices, dismissed>> PROVE Personal(u)
  BY <1>1, <1>2, GrowsIdle, PersonalKept
<1>3. ASSUME NEW w \in Users, NEW N, notices' = MarkedRead(w, N), UNCHANGED <<office, dismissed, topic>>
      PROVE  Personal(u)
  BY <1>1, <1>3, RowsMarked, PersonalKept
<1>4. ASSUME NEW r \in Recipients, Create(r) PROVE Personal(u)
  <2>1. Row(r) \in Notice
    <3>1. Admins \subseteq Users /\ HqHr \subseteq Users /\ Managers \subseteq Users
      BY DEF Admins, HqHr, Managers
    <3>2. Managers # {} => (CHOOSE x \in Managers : TRUE) \in Users
      BY <3>1
    <3>3. (\E x \in Users : r = Direct(x)) \/ \E M \in SUBSET Users : r = [to |-> None, meant |-> M]
      BY <3>1, <3>2 DEF Recipients, ToAdmins, ToBranchManager, ToFinalApprovers
    <3> QED  BY <3>3 DEF Direct, Row, Notice
  <2>2. PICK row \in Notice : row = Row(r)
    BY <2>1
  <2>3. Grows /\ UNCHANGED dismissed
    BY <1>1, <1>4, <2>2, RowsAppended DEF Create
  <2> QED  BY <1>1, <2>3, PersonalKept
<1>5. ASSUME NEW w \in Users, CreateQuietly(w) PROVE Personal(u)
  <2>1. PICK row \in Notice : row = Row(Direct(w))
    BY DEF Row, Direct, Notice
  <2>2. Grows /\ UNCHANGED dismissed
    BY <1>1, <1>5, <2>1, RowsAppended DEF CreateQuietly
  <2> QED  BY <1>1, <2>2, PersonalKept
<1>6. ASSUME NEW w \in Users, Elsewhere(w) PROVE Personal(u)
  <2>1. w # Me /\ UNCHANGED <<office, flow, topic>>
    BY <1>6 DEF Elsewhere
  <2>2. CASE (ClearAll(w) \/ \E n \in Stored : Clear(w, n)) /\ UNCHANGED notices
    <3>1. PICK N : dismissed' = dismissed \cup Dismissing(w, N)
      BY <2>2 DEF ClearAll, Clear
    <3> QED  BY <1>1, <2>1, <2>2, <3>1, PersonalDismissal
  <2>3. CASE (MarkAllAsRead(w) \/ \E n \in Stored : MarkAsRead(w, n)) /\ UNCHANGED dismissed
    <3>1. PICK N : notices' = MarkedRead(w, N)
      BY <2>3 DEF MarkAllAsRead, MarkAsRead
    <3> QED  BY <1>3, <2>1, <2>3, <3>1
  <2> QED  BY <1>6, <2>2, <2>3 DEF Elsewhere
<1>7. ASSUME ClearDone PROVE Personal(u)
  <2>1. UNCHANGED <<office, notices>> /\ flow.pc = "clear"
    BY <1>7 DEF ClearDone
  <2>2. CASE UNCHANGED dismissed
    BY <1>2, <2>1, <2>2
  <2>3. CASE (ClearAll(Me) \/ Clear(Me, CHOOSE n \in flow.gone : TRUE)) /\ flow' = [flow EXCEPT !.pc = "cleared"]
    <3>1. PICK N : dismissed' = dismissed \cup Dismissing(Me, N)
      BY <2>3 DEF ClearAll, Clear
    <3>2. flow'.pc = "cleared"
      BY <1>1, <2>1, <2>3 DEF HandlerIsSound
    <3>3. flow' # flow
      BY <2>1, <3>2
    <3> QED  BY <1>1, <2>1, <3>1, <3>3, PersonalDismissal
  <2> QED  BY <1>7, <2>2, <2>3 DEF ClearDone
<1>8. ASSUME HandleMarkRead PROVE Personal(u)
  <2>1. UNCHANGED <<office, dismissed, topic>> /\ \E N : notices' = MarkedRead(Me, N)
    BY <1>8 DEF HandleMarkRead, MarkAsRead, MarkAllAsRead
  <2> QED  BY <1>1, <1>3, <2>1
<1>9. CASE NoticeStep
  <2>1. ASSUME NEW w \in Users, NEW o \in Offices, ChangeOffice(w, o) PROVE Personal(u)
    BY <1>2, <2>1 DEF ChangeOffice
  <2> QED  BY <1>4, <1>5, <1>6, <1>9, <2>1 DEF NoticeStep
<1>10. CASE PageStep
  BY <1>2, <1>10 DEF PageStep, StreamBreaks, Broadcast, PageLoads
<1>11. CASE ClientStep
  <2>1. CASE UNCHANGED <<notices, dismissed>>
    BY <1>2, <2>1
  <2>2. UNCHANGED <<notices, dismissed>> \/ ClearDone \/ HandleMarkRead
    BY <1>11 DEF ClientStep, StreamOpens, OnMessage, LoadReads, ListReceived, CountReads,
         CountReceived, LoadFails, HandleClear, HandleClearAll, ClearReceived
  <2> QED  BY <1>7, <1>8, <2>1, <2>2
<1>12. CASE UNCHANGED noticeVars
  BY <1>2, <1>12 DEF noticeVars
<1> QED  BY <1>9, <1>10, <1>11, <1>12

\* For any users and notices, a shared one included: a notice leaves a user's
\* history only when that user clears it or loses the office it was seen by
\* (notifications.service clear, clearAll, getNotificationWhere).
THEOREM DismissalStaysPersonal == NoticesSpec => DismissalIsPersonal
<1>1. BellInv /\ [NoticeStep \/ PageStep \/ ClientStep]_noticeVars
        => [\A u \in Users : \A n \in FindAll(u) :
              n \in FindAll(u)' \/ office'[u] # office[u] \/ (u = Me <=> flow' # flow)]_noticeVars
  BY PersonalNext DEF Personal
<1> QED  BY <1>1, BellAlways, PTL DEF NoticesSpec, DismissalIsPersonal

-----------------------------------------------------------------------------
(* The tables: each function calls one route, each route asks for one set of keys *)

\* A function of the browser's client calls one route only.
LEMMA CallsOnce == \A c, d \in ClientTable : c.call = d.call => c = d
  BY SMTT(60) DEF ClientTable, Calls, EmployeesApi, UsersApi, RolesApi, PermissionsApi,
     OrganizationApi, PaymentStructuresApi, PayrollApi, PositionsApi, AttendanceApi, IkiminaApi,
     SystemConfigApi, DashboardApi, AuditApi, ProfileApi

\* A route has one @Permissions decorator: no two entries of the table are for it.
LEMMA RoutesOnce == \A t, u \in RouteTable : t.route = u.route => t = u
  BY SMTT(60) DEF RouteTable, Asking, EmployeesRoutes, EmployeesChanges, EmployeesStatus,
        UsersRoutes, UsersGrants, RolesRoutes, PermissionsRoutes, DepartmentsRoutes,
        OrganizationRoutes, PaymentStructuresRoutes, EmployeePayRoutes, PayrollRoutes,
        PayrollReviews, PositionsRoutes, PositionBenefitsRoutes, TimeRecordsRoutes,
        IkiminaRoutes, SystemConfigRoutes, DashboardRoutes, AuditRoutes, ProfileRoutes

\* The keys the controllers ask for are keys of the catalogue.
LEMMA RouteKeysKnown == \A t \in RouteTable : t.any \subseteq AllPermissionKeys
  BY SMTT(60) DEF RouteTable, Asking, EmployeesRoutes, EmployeesChanges, EmployeesStatus,
        UsersRoutes, UsersGrants, RolesRoutes, PermissionsRoutes, DepartmentsRoutes,
        OrganizationRoutes, PaymentStructuresRoutes, EmployeePayRoutes, PayrollRoutes,
        PayrollReviews, PositionsRoutes, PositionBenefitsRoutes, TimeRecordsRoutes,
        IkiminaRoutes, SystemConfigRoutes, DashboardRoutes, AuditRoutes, ProfileRoutes,
        AllPermissionKeys, PeopleKeys, PayKeys, OtherKeys

\* What a key implies may imply more, and that is where it ends.
LEMMA TwoDeep ==
    \A p, q, r \in ImpliedPermissions : q[1] \in p[2] => r[1] \notin q[2]
<1>1. \A p, q \in ImpliedPermissions : q[1] \in p[2] => q[2] = {"payroll.read"}
  BY SMTT(60) DEF ImpliedPermissions
<1>2. \A r \in ImpliedPermissions : r[1] # "payroll.read"
  BY SMTT(60) DEF ImpliedPermissions
<1>. QED
  BY <1>1, <1>2

\* The implications are between keys of the catalogue.
LEMMA ImpliedKnown == \A p \in ImpliedPermissions : p[1] \in AllPermissionKeys /\
      p[2] \subseteq AllPermissionKeys
  BY SMTT(60) DEF ImpliedPermissions, AllPermissionKeys, PeopleKeys, PayKeys, OtherKeys

\* A key that is enough for a route that asks for one of the keys any.
Suffices(k, any) == k \in any \/ \E p \in ImpliedPermissions : p[1] = k /\ p[2] \cap any # {}

\* The keys and what they imply, one step further.
Wider(ks) == ks \cup UNION {p[2] : p \in {q \in ImpliedPermissions : q[1] \in ks}}

\* The server and the browser follow the implications twice.
LEMMA ExpandIsWider == \A ks : Expand(ks) = Wider(Wider(ks))
  BY DEF Expand, Wider

\* How a key gets among the wider ones: it was there, or one that was there implies it.
LEMMA InWider ==
    ASSUME NEW ks, NEW x
    PROVE  x \in Wider(ks) <=> x \in ks \/ \E p \in ImpliedPermissions : p[1] \in ks /\ x \in p[2]
  BY DEF Wider

\* Following the implications twice follows them all.
LEMMA ExpandClosed ==
    ASSUME NEW ks, NEW p \in ImpliedPermissions, p[1] \in Expand(ks)
    PROVE  p[2] \subseteq Expand(ks)
<1>. SUFFICES ASSUME NEW x \in p[2] PROVE x \in Expand(ks)
  OBVIOUS
<1>. DEFINE W == Wider(ks)
<1>1. p[1] \in Wider(W) /\ Expand(ks) = Wider(W)
  BY ExpandIsWider
<1>2. p[1] \in W => x \in Wider(W)
  BY InWider
<1>3. CASE p[1] \notin W
  <2>1. PICK q \in ImpliedPermissions : q[1] \in W /\ p[1] \in q[2]
    BY <1>1, <1>3, InWider
  <2>2. q[1] \notin ks
    BY <2>1, <1>3, InWider
  <2>3. PICK r \in ImpliedPermissions : r[1] \in ks /\ q[1] \in r[2]
    BY <2>1, <2>2, InWider
  <2>. QED
    BY <2>1, <2>3, TwoDeep
<1>. QED
  BY <1>1, <1>2, <1>3

\* Keys of the catalogue imply keys of the catalogue only.
LEMMA ExpandKnown ==
    ASSUME NEW ks \in SUBSET AllPermissionKeys
    PROVE  Expand(ks) \subseteq AllPermissionKeys
<1>1. \A js \in SUBSET AllPermissionKeys : Wider(js) \subseteq AllPermissionKeys
  BY InWider, ImpliedKnown
<1>. QED
  BY <1>1, ExpandIsWider

\* Who holds a key that is enough for a route has, expanded, one it asks for.
LEMMA SufficientKey ==
    ASSUME NEW ks, NEW any, NEW k \in Expand(ks), Suffices(k, any)
    PROVE  any \cap Expand(ks) # {}
<1>1. CASE k \in any
  BY <1>1
<1>2. CASE \E p \in ImpliedPermissions : p[1] = k /\ p[2] \cap any # {}
  <2>1. PICK p \in ImpliedPermissions : p[1] = k /\ p[2] \cap any # {}
    BY <1>2
  <2>2. p[2] \subseteq Expand(ks)
    BY <2>1, ExpandClosed
  <2>. QED
    BY <2>1, <2>2
<1>. QED
  BY <1>1, <1>2 DEF Suffices

-----------------------------------------------------------------------------
\* The function f of the client calls the route r, which asks for one of the keys any.
Guarded(f, r, any) ==
    [call |-> f, route |-> r] \in ClientTable /\ [route |-> r, any |-> any] \in RouteTable

\* What is in the tables is what the server goes by.
LEMMA GuardFound ==
    ASSUME NEW f, NEW r, NEW any, Guarded(f, r, any)
    PROVE  /\ RouteOf[f] = r
           /\ r \in DOMAIN Asked /\ Asked[r] = any
<1>1. RouteOf[f] = r
  <2>1. f \in {c.call : c \in ClientTable}
    BY SMT DEF Guarded
  <2>. DEFINE d == CHOOSE c \in ClientTable : c.call = f
  <2>2. d \in ClientTable /\ d.call = f
    <3>1. \E c \in ClientTable : c.call = f
      BY <2>1
    <3>. QED
      BY <3>1
  <2>3. d.route = r
    <3>. HIDE DEF d
    <3>1. d = [call |-> f, route |-> r]
      BY <2>2, CallsOnce DEF Guarded
    <3>. QED
      BY <3>1
  <2>. QED
    BY <2>1, <2>3 DEF RouteOf
<1>2. r \in DOMAIN Asked /\ Asked[r] = any
  <2>1. r \in {t.route : t \in RouteTable}
    BY SMT DEF Guarded
  <2>. DEFINE u == CHOOSE t \in RouteTable : t.route = r
  <2>2. u \in RouteTable /\ u.route = r
    <3>1. \E t \in RouteTable : t.route = r
      BY <2>1
    <3>. QED
      BY <3>1
  <2>3. u.any = any
    <3>. HIDE DEF u
    <3>1. u = [route |-> r, any |-> any]
      BY <2>2, RoutesOnce DEF Guarded
    <3>. QED
      BY <3>1
  <2>. QED
    BY <2>1, <2>3 DEF Asked
<1>. QED
  BY <1>1, <1>2
\* The guards of the routes behind employeesApi and attendanceApi.
LEMMA EmployeesGuards ==
    /\ Guarded("createEmployee", "POST:employees", {"employees.create"})
    /\ Guarded("getEmployees", "GET:employees", {"employees.read"})
    /\ Guarded("transferEmployee", "PATCH:employees/:uuid/transfer", {"employees.transfer"})
    /\ Guarded("suspendEmployee", "PATCH:employees/:uuid/suspend", {"employees.suspend"})
    /\ Guarded("updateEmployee", "PATCH:employees/:uuid", {"employees.update"})
    /\ Guarded("uploadEmployeeAvatar", "PATCH:employees/:uuid/avatar", {"employees.update"})
    /\ Guarded("reactivateEmployee", "PATCH:employees/:uuid/reactivate", {"employees.update"})
    /\ Guarded("bulkImportEmployees", "POST:employees/bulk-import", {"employees.create"})
    /\ Guarded("getTimeRecords", "GET:time-records", {"attendance.read"})
    /\ Guarded("getTimeRecordsByEmployee", "GET:time-records/employee/:id", {"attendance.read"})
    /\ Guarded("bulkCreateTimeRecords", "POST:time-records/bulk", {"attendance.create"})
  BY SMTT(30) DEF Guarded, ClientTable, Calls, EmployeesApi, AttendanceApi, RouteTable, Asking,
       EmployeesChanges, EmployeesRoutes, EmployeesStatus, TimeRecordsRoutes

\* The guards of the routes behind usersApi, rolesApi and permissionsApi.
LEMMA UsersGuards ==
    /\ Guarded("createUser", "POST:users", {"users.create"})
    /\ Guarded("getUsers", "GET:users", {"users.read"})
    /\ Guarded("getPendingUsers", "GET:users/pending", {"users.read"})
    /\ Guarded("approveUser", "PATCH:users/:uuid/approve", {"users.approve"})
    /\ Guarded("rejectUser", "PATCH:users/:uuid/reject", {"users.approve"})
    /\ Guarded("suspendUser", "PATCH:users/:uuid/suspend", {"users.suspend"})
    /\ Guarded("reactivateUser", "PATCH:users/:uuid/reactivate", {"users.suspend"})
    /\ Guarded("updateUser", "PATCH:users/:uuid", {"users.update"})
    /\ Guarded("assignUserRoles", "PATCH:users/:uuid/roles", {"users.update"})
    /\ Guarded("updateUserPermissionOverride",
          "PATCH:users/:uuid/permissions/:permission/override",
               {"users.update"})
    /\ Guarded("uploadUserAvatar", "PATCH:users/:uuid/avatar", {"users.update"})
    /\ Guarded("bulkUploadProfileImages", "POST:users/bulk-profile-images", {"users.update"})
    /\ Guarded("getRoles", "GET:roles",
               {"roles.manage", "roles.manage_own_location", "users.create", "users.update",
                     "users.approve"})
    /\ Guarded("createRole", "POST:roles", {"roles.manage", "roles.manage_own_location"})
    /\ Guarded("updateRole", "PATCH:roles/:id", {"roles.manage", "roles.manage_own_location"})
    /\ Guarded("getPermissions", "GET:permissions", {"permissions.read"})
  BY SMTT(30) DEF Guarded, ClientTable, Calls, UsersApi, RolesApi, PermissionsApi, RouteTable,
       Asking, PermissionsRoutes, RolesRoutes, UsersGrants, UsersRoutes

\* The guards of the routes of branches and departments.
LEMMA OrganizationGuards ==
    /\ Guarded("getWorkingLocations", "GET:organization/working-locations", {})
    /\ Guarded("createWorkingLocation", "POST:organization/working-locations",
               {"branches.manage"})
    /\ Guarded("updateWorkingLocation", "PATCH:organization/working-locations/:uuid",
               {"branches.manage"})
    /\ Guarded("getDepartments", "GET:organization/departments", {})
    /\ Guarded("createDepartment", "POST:organization/departments", {"departments.manage"})
    /\ Guarded("updateDepartment", "PATCH:organization/departments/:uuid",
               {"departments.manage"})
    /\ Guarded("deleteDepartment", "PATCH:organization/departments/:uuid/delete",
               {"departments.manage"})
    /\ Guarded("suspendAndArchiveDepartment",
          "PATCH:organization/departments/:uuid/suspend-and-archive",
               {"departments.manage"})
    /\ Guarded("enableDepartmentAtLocation",
          "PATCH:organization/departments/:code/locations/:id/enable",
               {"departments.manage"})
    /\ Guarded("getEmployeeDashboardAnalytics", "GET:dashboard/analytics/employees",
               {"employees.read"})
    /\ Guarded("getPayrollDashboardAnalytics", "GET:dashboard/analytics/payroll",
               {"payroll.reports"})
    /\ Guarded("getAuditLogs", "GET:audit-logs", {"audit.view"})
    /\ Guarded("getMyProfile", "GET:auth/me", {})
    /\ Guarded("updateProfile", "PATCH:auth/profile", {})
    /\ Guarded("refreshToken", "POST:auth/refresh", {})
  BY SMTT(30) DEF Guarded, ClientTable, Calls, OrganizationApi, DashboardApi, AuditApi,
       ProfileApi, RouteTable, Asking, AuditRoutes, DashboardRoutes, DepartmentsRoutes,
       OrganizationRoutes, ProfileRoutes

\* The guards of the routes of payment structures, allowances and deductions.
LEMMA PayGuards ==
    /\ Guarded("getActivePaymentStructureByEmployee", "GET:payment-structures/employee/:id/active",
               {"payment-structures.read"})
    /\ Guarded("getDeductionTypes", "GET:payment-structures/deduction-types",
               {"payment-structures.read"})
    /\ Guarded("createEmployeeDeduction", "POST:payment-structures/employee-deductions",
               {"deductions.manage"})
    /\ Guarded("getEmployeeDeductions", "GET:payment-structures/employee-deductions/employee/:id",
               {"payment-structures.read"})
    /\ Guarded("updateEmployeeDeduction", "PATCH:payment-structures/employee-deductions/:uuid",
               {"deductions.manage"})
    /\ Guarded("createAllowance", "POST:payment-structures/allowances",
               {"payment-structures.create"})
    /\ Guarded("getAllowances", "GET:payment-structures/allowances/employee/:id",
               {"payment-structures.read"})
    /\ Guarded("deactivateAllowance", "PATCH:payment-structures/allowances/:uuid/deactivate",
               {"payment-structures.update"})
    /\ Guarded("updateAllowance", "PATCH:payment-structures/allowances/:uuid",
               {"payment-structures.update"})
    /\ Guarded("getAllowanceTypes", "GET:payment-structures/allowance-types",
               {"payment-structures.read"})
    /\ Guarded("createAllowanceType", "POST:payment-structures/allowance-types",
               {"allowances.manage"})
    /\ Guarded("updateAllowanceType", "PATCH:payment-structures/allowance-types/:uuid",
               {"allowances.manage"})
    /\ Guarded("getSystemConfigs", "GET:system-config", {"system-config.manage"})
    /\ Guarded("updateSystemConfig", "POST:system-config", {"system-config.manage"})
    /\ Guarded("getMonthlyTaxes", "GET:system-config/monthly-taxes/all",
               {"system-config.manage", "deductions.manage", "payment-structures.read"})
    /\ Guarded("updateMonthlyTax", "POST:system-config/monthly-taxes", {"system-config.manage"})
    /\ Guarded("deactivateMonthlyTax", "PATCH:system-config/monthly-taxes/:uuid/deactivate",
               {"system-config.manage"})
  BY SMTT(30) DEF Guarded, ClientTable, Calls, PaymentStructuresApi, SystemConfigApi,
       RouteTable, Asking, EmployeePayRoutes, PaymentStructuresRoutes, SystemConfigRoutes

\* The guards of the routes of payroll batches.
LEMMA PayrollGuards ==
    /\ Guarded("createPayrollBatch", "POST:payroll/batches", {"payroll.create"})
    /\ Guarded("uploadPayrollBatchAttachments", "POST:payroll/batches/:uuid/attachments",
               {"payroll.create", "payroll.approve"})
    /\ Guarded("submitPayrollBatch", "POST:payroll/batches/:uuid/submit", {"payroll.create"})
    /\ Guarded("getPayrollBatches", "GET:payroll/batches", {"payroll.read"})
    /\ Guarded("getPayrollBatch", "GET:payroll/batches/:uuid", {"payroll.read"})
    /\ Guarded("downloadPayrollBatchExport", "GET:payroll/batches/:uuid/export",
               {"payroll.read"})
    /\ Guarded("approvePayrollBatch", "PATCH:payroll/batches/:uuid/approve",
               {"payroll.approve", "payroll.approve_initial", "payroll.approve_final"})
    /\ Guarded("rejectPayrollBatch", "PATCH:payroll/batches/:uuid/reject",
               {"payroll.approve", "payroll.approve_initial", "payroll.approve_final"})
    /\ Guarded("rejectPayrollItem", "PATCH:payroll/batches/items/:uuid/reject",
               {"payroll.approve", "payroll.approve_initial", "payroll.approve_final"})
    /\ Guarded("getIkiminaMemberships", "GET:ikimina/memberships", {"ikimina.read"})
    /\ Guarded("createIkiminaMembership", "POST:ikimina/memberships", {"ikimina.manage"})
    /\ Guarded("updateIkiminaMembership", "PATCH:ikimina/memberships/:uuid", {"ikimina.manage"})
    /\ Guarded("removeIkiminaMembership", "DELETE:ikimina/memberships/:uuid",
               {"ikimina.manage"})
  BY SMTT(30) DEF Guarded, ClientTable, Calls, PayrollApi, IkiminaApi, RouteTable, Asking,
       IkiminaRoutes, PayrollReviews, PayrollRoutes

\* The guards of the routes of positions and employment categories.
LEMMA PositionsGuards ==
    /\ Guarded("getEmploymentCategories", "GET:positions/employment-categories",
               {"positions.read"})
    /\ Guarded("getPositions", "GET:positions", {"positions.read"})
    /\ Guarded("createPosition", "POST:positions", {"positions.manage"})
    /\ Guarded("updatePosition", "PATCH:positions/:uuid", {"positions.manage"})
    /\ Guarded("archivePosition", "PATCH:positions/:uuid/archive", {"positions.manage"})
    /\ Guarded("reactivatePosition", "PATCH:positions/:uuid/reactivate", {"positions.manage"})
    /\ Guarded("attachPositionEmploymentCategory", "POST:positions/:uuid/employment-categories",
               {"positions.manage"})
    /\ Guarded("updatePositionEmploymentCategory",
          "PATCH:positions/:uuid/employment-categories/:variant",
               {"positions.manage"})
    /\ Guarded("detachPositionEmploymentCategory",
          "DELETE:positions/:uuid/employment-categories/:variant",
               {"positions.manage"})
    /\ Guarded("attachPositionDeductionType", "POST:positions/:uuid/deduction-types",
               {"positions.manage"})
    /\ Guarded("detachPositionDeductionType", "DELETE:positions/:uuid/deduction-types/:id",
               {"positions.manage"})
    /\ Guarded("addPositionAllowanceTemplate", "POST:positions/:uuid/allowance-templates",
               {"positions.manage"})
    /\ Guarded("removePositionAllowanceTemplate",
          "DELETE:positions/:uuid/allowance-templates/:template",
               {"positions.manage"})
  BY SMTT(30) DEF Guarded, ClientTable, Calls, PositionsApi, RouteTable, Asking,
       PositionBenefitsRoutes, PositionsRoutes
-----------------------------------------------------------------------------
\* A request as a page describes it.
IsRequest(q) ==
    \E call, ask, must, skip : q = [call |-> call, ask |-> ask, must |-> must, skip |-> skip]

\* A sequence, of whatever elements.
IsSeq(steps) == \E S : steps \in Seq(S)

\* The function f is served to whoever meets the clauses on page p, or it is
\* one that p is known to send unchecked.
Fits(p, clauses, f) ==
    \E r, any :
       /\ Guarded(f, r, any)
       /\ \/ f \in SentUnchecked(p)
          \/ any = {}
          \/ \E keys \in clauses : \A k \in keys : Suffices(k, any)

\* So is the function a request calls, to whoever meets what the request asks too.
RequestFits(p, clauses, q) == IsRequest(q) /\ Fits(p, clauses \cup q.ask, q.call)

\* Requests sent together.
StageFits(p, clauses, stage) ==
    IsFiniteSet(stage) /\ \A q \in stage : RequestFits(p, clauses, q)

\* Stages of requests sent one after the other.
StepsFit(p, clauses, steps) ==
    IsSeq(steps) /\ \A i \in DOMAIN steps : StageFits(p, clauses, steps[i])

\* A control of page p, for whoever the menu offers p to and the control is shown.
ControlFits(p, control) == StepsFit(p, MenuGate[p] \cup control.ask, control.steps)

\* The handlers of page p, for whoever the menu offers it to.
PageFits(p) ==
    /\ StepsFit(p, MenuGate[p], LoadsOf[p])
    /\ \A control \in ControlsOf[p] : ControlFits(p, control)

\* A request fits where its gate asks for keys the route accepts.
LEMMA FitsByKey ==
    ASSUME NEW p, NEW clauses, NEW f, NEW r, NEW any, Guarded(f, r, any),
           NEW keys \in clauses, keys \subseteq any
    PROVE  Fits(p, clauses, f)
  BY DEF Fits, Suffices

\* A request fits where the page is known to send it unchecked.
LEMMA FitsUnchecked ==
    ASSUME NEW p, NEW clauses, NEW f \in SentUnchecked(p), NEW r, NEW any, Guarded(f, r, any)
    PROVE  Fits(p, clauses, f)
  BY DEF Fits

\* A request fits everywhere when its route asks for no key.
LEMMA FitsOpen ==
    ASSUME NEW p, NEW clauses, NEW f, NEW r, Guarded(f, r, {})
    PROVE  Fits(p, clauses, f)
  BY DEF Fits

\* A stricter gate only helps.
LEMMA FitsMore ==
    ASSUME NEW p, NEW clauses, NEW more, clauses \subseteq more, NEW f, Fits(p, clauses, f)
    PROVE  Fits(p, more, f)
  BY DEF Fits

\* The ways a page describes a request.
LEMMA WithField ==
    ASSUME NEW call, NEW ask, NEW must, NEW skip, NEW new
    PROVE  /\ [[call |-> call, ask |-> ask, must |-> must, skip |-> skip] EXCEPT !.must = new]
                = [call |-> call, ask |-> ask, must |-> new, skip |-> skip]
           /\ [[call |-> call, ask |-> ask, must |-> must, skip |-> skip] EXCEPT !.skip = new]
                = [call |-> call, ask |-> ask, must |-> must, skip |-> new]
  OBVIOUS

\* A plain request, whether or not its failure is caught, fits when its function does.
LEMMA MustFits ==
    ASSUME NEW p, NEW clauses, NEW f, Fits(p, clauses, f)
    PROVE  RequestFits(p, clauses, Must(f)) /\ RequestFits(p, clauses, Caught(f))
<1>1. /\ Must(f) = [call |-> f, ask |-> {}, must |-> TRUE, skip |-> FALSE]
      /\ Caught(f) = [call |-> f, ask |-> {}, must |-> FALSE, skip |-> FALSE]
  <2>1. PICK yes, no, none : yes = TRUE /\ no = FALSE /\ none = {}
    OBVIOUS
  <2>2. Caught(f) = [[call |-> f, ask |-> none, must |-> yes, skip |-> no] EXCEPT !.must = no]
    BY <2>1, Zenon DEF Must, Caught
  <2>. QED
    BY <2>1, <2>2, WithField, Zenon DEF Must
<1>2. IsRequest(Must(f)) /\ IsRequest(Caught(f))
  BY <1>1, Zenon DEF IsRequest
<1>3. Must(f).call = f /\ Must(f).ask = {} /\ Caught(f).call = f /\ Caught(f).ask = {}
  BY <1>1
<1>4. Fits(p, clauses \cup {}, f)
  BY FitsMore
<1>. QED
  BY <1>2, <1>3, <1>4 DEF RequestFits

\* A request behind a key of its own fits when it fits with the key's clause added.
LEMMA IfFits ==
    ASSUME NEW p, NEW clauses, NEW keys, NEW q, RequestFits(p, clauses \cup {keys}, q)
    PROVE  RequestFits(p, clauses, If(keys, q))
<1>1. PICK c, a, m, s : q = [call |-> c, ask |-> a, must |-> m, skip |-> s]
  BY DEF RequestFits, IsRequest
<1>2. If(keys, q) = [call |-> c, ask |-> a \cup {keys}, must |-> m, skip |-> s]
  BY <1>1 DEF If
<1>3. IsRequest(If(keys, q))
  BY <1>2, Zenon DEF IsRequest
<1>4. If(keys, q).call = q.call /\ If(keys, q).ask = q.ask \cup {keys}
  BY <1>1, <1>2
<1>5. (clauses \cup {keys}) \cup q.ask = clauses \cup (q.ask \cup {keys})
  OBVIOUS
<1>. QED
  BY <1>3, <1>4, <1>5 DEF RequestFits

\* A request that may have nothing to send fits when it does with something to send.
LEMMA PerhapsFits ==
    ASSUME NEW p, NEW clauses, NEW q, RequestFits(p, clauses, q)
    PROVE  RequestFits(p, clauses, Perhaps(q))
<1>1. PICK c, a, m, s : q = [call |-> c, ask |-> a, must |-> m, skip |-> s]
  BY DEF RequestFits, IsRequest
<1>2. Perhaps(q) = [call |-> c, ask |-> a, must |-> m, skip |-> TRUE]
  <2>1. PICK yes : yes = TRUE
    OBVIOUS
  <2>2. Perhaps(q) = [[call |-> c, ask |-> a, must |-> m, skip |-> s] EXCEPT !.skip = yes]
    BY <1>1, <2>1, Zenon DEF Perhaps
  <2>. QED
    BY <2>1, <2>2, WithField, Zenon
<1>3. IsRequest(Perhaps(q))
  BY <1>2, Zenon DEF IsRequest
<1>4. Perhaps(q).call = q.call /\ Perhaps(q).ask = q.ask
  BY <1>1, <1>2
<1>. QED
  BY <1>3, <1>4 DEF RequestFits

\* Stages: one request, or the requests of two stages together.
LEMMA OneFits ==
    ASSUME NEW p, NEW clauses, NEW q, RequestFits(p, clauses, q)
    PROVE  StageFits(p, clauses, {q})
  BY FS_Singleton DEF StageFits

\* Requests sent together fit when each part does.
LEMMA BothFit ==
    ASSUME NEW p, NEW clauses, NEW a, NEW b, StageFits(p, clauses, a), StageFits(p, clauses, b)
    PROVE  StageFits(p, clauses, a \cup b)
  BY FS_Union DEF StageFits

\* Two requests sent together.
LEMMA TwoTogether ==
    ASSUME NEW p, NEW clauses, NEW a, NEW b,
           RequestFits(p, clauses, a), RequestFits(p, clauses, b)
    PROVE  StageFits(p, clauses, {a, b})
<1>1. {a, b} = {a} \cup {b}
  OBVIOUS
<1>2. StageFits(p, clauses, {a} \cup {b})
  BY OneFits, BothFit
<1>. QED
  BY <1>1, <1>2

\* Three and four requests sent together.
LEMMA FourTogether ==
    ASSUME NEW p, NEW clauses, NEW a, NEW b, NEW c, NEW d,
           RequestFits(p, clauses, a), RequestFits(p, clauses, b),
           RequestFits(p, clauses, c), RequestFits(p, clauses, d)
    PROVE  StageFits(p, clauses, {a, b, c, d}) /\ StageFits(p, clauses, {a, b, c})
<1>1. {a, b, c, d} = {a, b} \cup {c, d} /\ {a, b, c} = {a, b} \cup {c}
  OBVIOUS
<1>2. StageFits(p, clauses, {a, b} \cup {c, d}) /\ StageFits(p, clauses, {a, b} \cup {c})
  BY OneFits, TwoTogether, BothFit
<1>. QED
  BY <1>1, <1>2

\* Five requests sent together.
LEMMA FiveTogether ==
    ASSUME NEW p, NEW clauses, NEW a, NEW b, NEW c, NEW d, NEW e,
           RequestFits(p, clauses, a), RequestFits(p, clauses, b),
           RequestFits(p, clauses, c), RequestFits(p, clauses, d), RequestFits(p, clauses, e)
    PROVE  StageFits(p, clauses, {a, b, c, d, e})
<1>1. {a, b, c, d, e} = {a, b, c, d} \cup {e}
  OBVIOUS
<1>2. StageFits(p, clauses, {a, b, c, d} \cup {e})
  BY OneFits, FourTogether, BothFit
<1>. QED
  BY <1>1, <1>2

\* Seven requests sent together.
LEMMA SevenTogether ==
    ASSUME NEW p, NEW clauses, NEW a, NEW b, NEW c, NEW d, NEW e, NEW f, NEW g,
           RequestFits(p, clauses, a), RequestFits(p, clauses, b),
           RequestFits(p, clauses, c), RequestFits(p, clauses, d), RequestFits(p, clauses, e),
           RequestFits(p, clauses, f), RequestFits(p, clauses, g)
    PROVE  StageFits(p, clauses, {a, b, c, d, e, f, g})
<1>1. {a, b, c, d, e, f, g} = {a, b, c, d, e} \cup {f, g}
  OBVIOUS
<1>2. StageFits(p, clauses, {a, b, c, d, e} \cup {f, g})
  BY TwoTogether, FiveTogether, BothFit
<1>. QED
  BY <1>1, <1>2

\* Handlers: one stage, or one after the other.
LEMMA OneStage ==
    ASSUME NEW p, NEW clauses, NEW a, StageFits(p, clauses, a)
    PROVE  StepsFit(p, clauses, <<a>>)
<1>1. <<a>> \in Seq({a})
  OBVIOUS
<1>2. IsSeq(<<a>>)
  BY <1>1, Zenon DEF IsSeq
<1>3. \A i \in DOMAIN <<a>> : StageFits(p, clauses, <<a>>[i])
  OBVIOUS
<1>. QED
  BY <1>2, <1>3 DEF StepsFit

\* Stages that fit may follow each other.
LEMMA OneThenMore ==
    ASSUME NEW p, NEW clauses, NEW a, StepsFit(p, clauses, a), NEW b, StepsFit(p, clauses, b)
    PROVE  StepsFit(p, clauses, a \o b)
<1>0. PICK S, T : a \in Seq(S) /\ b \in Seq(T)
  BY DEF StepsFit, IsSeq
<1>1. a \in Seq(S \cup T) /\ b \in Seq(S \cup T)
  BY <1>0
<1>2. a \o b \in Seq(S \cup T) /\ Len(a \o b) = Len(a) + Len(b)
  BY <1>1, ConcatProperties
<1>. SUFFICES ASSUME NEW i \in DOMAIN (a \o b)
              PROVE  StageFits(p, clauses, (a \o b)[i])
  BY <1>2 DEF StepsFit, IsSeq
<1>3. CASE i <= Len(a)
  <2>1. (a \o b)[i] = a[i] /\ i \in DOMAIN a
    BY <1>1, <1>2, <1>3, ConcatProperties
  <2>. QED
    BY <2>1 DEF StepsFit
<1>4. CASE ~(i <= Len(a))
  <2>1. (a \o b)[i] = b[i - Len(a)] /\ i - Len(a) \in DOMAIN b
    BY <1>1, <1>2, <1>4, ConcatProperties
  <2>. QED
    BY <2>1 DEF StepsFit
<1>. QED
  BY <1>3, <1>4

\* Stages that fit a gate fit a stricter one.
LEMMA StepsFitMore ==
    ASSUME NEW p, NEW clauses, NEW more, clauses \subseteq more, NEW a, StepsFit(p, clauses, a)
    PROVE  StepsFit(p, more, a)
<1>1. ASSUME NEW q, RequestFits(p, clauses, q) PROVE RequestFits(p, more, q)
  <2>1. clauses \cup q.ask \subseteq more \cup q.ask
    OBVIOUS
  <2>. QED
    BY <1>1, <2>1, FitsMore DEF RequestFits
<1>. QED
  BY <1>1 DEF StepsFit, StageFits

\* A handler of two stages.
LEMMA TwoStages ==
    ASSUME NEW p, NEW clauses, NEW a, NEW b, StageFits(p, clauses, a), StageFits(p, clauses, b)
    PROVE  StepsFit(p, clauses, <<a, b>>)
<1>1. <<a, b>> \in Seq({a, b})
  OBVIOUS
<1>2. IsSeq(<<a, b>>)
  BY <1>1, Zenon DEF IsSeq
<1>3. \A i \in DOMAIN <<a, b>> : StageFits(p, clauses, <<a, b>>[i])
  OBVIOUS
<1>. QED
  BY <1>2, <1>3 DEF StepsFit

\* A handler of three stages.
LEMMA ThreeStages ==
    ASSUME NEW p, NEW clauses, NEW a, NEW b, NEW c,
           StageFits(p, clauses, a), StageFits(p, clauses, b), StageFits(p, clauses, c)
    PROVE  StepsFit(p, clauses, <<a, b, c>>)
<1>1. <<a, b, c>> \in Seq({a, b, c})
  OBVIOUS
<1>2. IsSeq(<<a, b, c>>)
  BY <1>1, Zenon DEF IsSeq
<1>3. \A i \in DOMAIN <<a, b, c>> : StageFits(p, clauses, <<a, b, c>>[i])
  OBVIOUS
<1>. QED
  BY <1>2, <1>3 DEF StepsFit

\* A handler of four stages.
LEMMA FourStages ==
    ASSUME NEW p, NEW clauses, NEW a, NEW b, NEW c, NEW d,
           StageFits(p, clauses, a), StageFits(p, clauses, b), StageFits(p, clauses, c),
           StageFits(p, clauses, d)
    PROVE  StepsFit(p, clauses, <<a, b, c, d>>)
<1>1. <<a, b, c, d>> \in Seq({a, b, c, d})
  OBVIOUS
<1>2. IsSeq(<<a, b, c, d>>)
  BY <1>1, Zenon DEF IsSeq
<1>3. \A i \in DOMAIN <<a, b, c, d>> : StageFits(p, clauses, <<a, b, c, d>>[i])
  OBVIOUS
<1>. QED
  BY <1>2, <1>3 DEF StepsFit

\* Controls: what they ask for, one request after the other, and the page again.
LEMMA ControlOfSteps ==
    ASSUME NEW p, NEW ask, NEW steps, StepsFit(p, MenuGate[p] \cup ask, steps)
    PROVE  ControlFits(p, Control(ask, steps))
  BY DEF ControlFits, Control

\* A control that sends one request.
LEMMA ControlAlone ==
    ASSUME NEW p, NEW ask, NEW f, Fits(p, MenuGate[p] \cup ask, f)
    PROVE  ControlFits(p, Control(ask, <<{Must(f)}>>))
<1>1. RequestFits(p, MenuGate[p] \cup ask, Must(f))
  BY MustFits
<1>. QED
  BY <1>1, OneFits, OneStage, ControlOfSteps

\* A control that sends a request and loads the page again.
LEMMA ControlThenReload ==
    ASSUME NEW p, NEW ask, NEW f, Fits(p, MenuGate[p] \cup ask, f),
           NEW reload, StepsFit(p, MenuGate[p], reload)
    PROVE  ControlFits(p, Control(ask, <<{Must(f)}>> \o reload))
<1>. DEFINE clauses == MenuGate[p] \cup ask
<1>1. StepsFit(p, clauses, <<{Must(f)}>>)
  BY MustFits, OneFits, OneStage
<1>2. StepsFit(p, clauses, reload)
  BY StepsFitMore
<1>3. StepsFit(p, clauses, <<{Must(f)}>> \o reload)
  BY <1>1, <1>2, OneThenMore
<1>. QED
  BY <1>3, ControlOfSteps

\* A control that sends a request and then another.
LEMMA ControlThenOne ==
    ASSUME NEW p, NEW ask, NEW f, Fits(p, MenuGate[p] \cup ask, f),
           NEW g, Fits(p, MenuGate[p] \cup ask, g)
    PROVE  /\ ControlFits(p, Control(ask, <<{Must(f)}, {Caught(g)}>>))
           /\ ControlFits(p, Control(ask, <<{Must(f)}, {Must(g)}>>))
<1>. DEFINE clauses == MenuGate[p] \cup ask
<1>1. StageFits(p, clauses, {Must(f)}) /\ StageFits(p, clauses, {Must(g)}) /\ StageFits(p,
      clauses, {Caught(g)})
  BY MustFits, OneFits
<1>2. StepsFit(p, clauses, <<{Must(f)}, {Caught(g)}>>) /\ StepsFit(p, clauses, <<{Must(f)},
      {Must(g)}>>)
  BY <1>1, TwoStages
<1>. QED
  BY <1>2, ControlOfSteps
-----------------------------------------------------------------------------
(* Users *)

\* What users/page.tsx loads is served to whoever may read users.
LEMMA UsersLoadsFit == StepsFit("users", MenuGate["users"], UsersLoads)
<1>. DEFINE menu == MenuGate["users"]
<1>1. {"users.read"} \in menu
  BY DEF MenuGate, OneOf
<1>. HIDE DEF menu
<1>2. StageFits("users", menu, {Caught("getUsers")})
  <2>1. Fits("users", menu, "getUsers")
    BY <1>1, UsersGuards, FitsByKey
  <2>. QED
    BY <2>1, MustFits, OneFits
<1>3. StageFits("users", menu, {If({"roles.manage", "roles.manage_own_location", "users.create",
      "users.update",
           "users.approve"}, Caught("getRoles"))})
  <2>. DEFINE keys == {"roles.manage", "roles.manage_own_location", "users.create", "users.update",
           "users.approve"}
  <2>1. Fits("users", menu \cup {keys}, "getRoles")
    BY UsersGuards, FitsByKey
  <2>. QED
    BY <2>1, MustFits, IfFits, OneFits
<1>4. StageFits("users", menu, {If({"permissions.read", "permissions.assign"},
      Caught("getPermissions"))})
  <2>. DEFINE keys == {"permissions.read", "permissions.assign"}
  <2>1. Fits("users", menu \cup {keys}, "getPermissions")
    BY UsersGuards, FitsUnchecked DEF SentUnchecked
  <2>. QED
    BY <2>1, MustFits, IfFits, OneFits
<1>5. StageFits("users", menu, {If({"users.create", "users.approve", "users.update"},
          If({"branches.read_all"}, Caught("getWorkingLocations"))),
       If({"users.create", "users.approve", "users.update"}, Caught("getDepartments"))})
  <2>. DEFINE keys == {"users.create", "users.approve", "users.update"}
              a == If(keys, If({"branches.read_all"}, Caught("getWorkingLocations")))
              b == If(keys, Caught("getDepartments"))
  <2>1. RequestFits("users", menu, a)
    <3>1. Fits("users", (menu \cup {keys}) \cup {{"branches.read_all"}}, "getWorkingLocations")
      BY OrganizationGuards, FitsOpen
    <3>. QED
      BY <3>1, MustFits, IfFits
  <2>2. RequestFits("users", menu, b)
    <3>1. Fits("users", menu \cup {keys}, "getDepartments")
      BY OrganizationGuards, FitsOpen
    <3>. QED
      BY <3>1, MustFits, IfFits
  <2>. QED
    BY <2>1, <2>2, TwoTogether
<1>. QED
  BY <1>2, <1>3, <1>4, <1>5, FourStages DEF UsersLoads, menu

\* Every handler of users/page.tsx fits its gates.
LEMMA UsersFits == PageFits("users")
<1>. DEFINE menu == MenuGate["users"]
<1>1. UsersLoads = LoadsOf["users"]
  BY DEF LoadsOf
<1>2. \A control \in UsersCreation : ControlFits("users", control)
  <2>1. Fits("users", menu \cup OneOf({"users.create"}), "createUser")
    BY UsersGuards, FitsByKey DEF OneOf
  <2>. QED
    BY <2>1, UsersLoadsFit, ControlThenReload DEF UsersCreation
<1>3. \A control \in UsersGrantControls : ControlFits("users", control)
  <2>1. /\ Fits("users", menu \cup OneOf({"roles.manage", "roles.manage_own_location",
              "users.update"}), "assignUserRoles")
        /\ Fits("users", menu \cup OneOf({"permissions.assign"}), "updateUserPermissionOverride")
    BY UsersGuards, FitsUnchecked DEF SentUnchecked
  <2>. QED
    BY <2>1, UsersLoadsFit, ControlThenReload, ControlAlone DEF UsersGrantControls
<1>4. \A control \in UsersStatusControls : ControlFits("users", control)
  <2>1. \A f \in {"suspendUser", "reactivateUser", "uploadUserAvatar"} : Fits("users", menu \cup
        {}, f)
    BY UsersGuards, FitsUnchecked DEF SentUnchecked
  <2>2. Fits("users", menu \cup OneOf({"users.update"}), "updateUser")
    BY UsersGuards, FitsByKey DEF OneOf
  <2>. QED
    BY <2>1, <2>2, UsersLoadsFit, ControlThenReload, ControlAlone DEF UsersStatusControls
<1>5. \A control \in UsersReviews : ControlFits("users", control)
  <2>1. /\ Fits("users", menu \cup OneOf({"users.approve"}), "approveUser")
        /\ Fits("users", menu \cup OneOf({"users.approve"}), "rejectUser")
        /\ Fits("users", menu \cup OneOf({"users.update"}), "bulkUploadProfileImages")
    BY UsersGuards, FitsByKey DEF OneOf
  <2>. QED
    BY <2>1, UsersLoadsFit, ControlThenReload DEF UsersReviews
<1>6. ControlsOf["users"] = UsersCreation \cup UsersGrantControls \cup UsersStatusControls \cup
      UsersReviews
  BY DEF ControlsOf
<1>. QED
  BY <1>1, <1>2, <1>3, <1>4, <1>5, <1>6, UsersLoadsFit DEF PageFits
(* The dashboard *)

\* Every handler of the dashboard fits its gates.
LEMMA DashboardFits == PageFits("dashboard")
<1>. DEFINE menu == MenuGate["dashboard"]
<1>1. StageFits("dashboard", menu, {If({"employees.read"}, Caught("getEmployees"))})
  <2>1. Fits("dashboard", menu \cup {{"employees.read"}}, "getEmployees")
    BY EmployeesGuards, FitsByKey
  <2>. QED
    BY <2>1, MustFits, IfFits, OneFits
<1>2. StageFits("dashboard", menu, {If({"payroll.read"}, Caught("getPayrollBatches"))})
  <2>1. Fits("dashboard", menu \cup {{"payroll.read"}}, "getPayrollBatches")
    BY PayrollGuards, FitsByKey
  <2>. QED
    BY <2>1, MustFits, IfFits, OneFits
<1>3. StageFits("dashboard", menu,
        {If({"employees.read", "payroll.read", "payroll.reports", "users.read", "attendance.read"},
            If({"users.approve", "employees.approve"}, Caught("getPendingUsers")))})
  <2>. DEFINE any == {"employees.read", "payroll.read", "payroll.reports", "users.read",
        "attendance.read"}
  <2>1. Fits("dashboard", (menu \cup {any}) \cup {{"users.approve", "employees.approve"}},
        "getPendingUsers")
    BY UsersGuards, FitsUnchecked DEF SentUnchecked
  <2>. QED
    BY <2>1, MustFits, IfFits, OneFits
<1>4. StepsFit("dashboard", menu, LoadsOf["dashboard"])
  BY <1>1, <1>2, <1>3, ThreeStages DEF LoadsOf, DashboardLoads
<1>5. \A control \in ControlsOf["dashboard"] : ControlFits("dashboard", control)
  <2>1. /\ Fits("dashboard", menu \cup OneOf({"employees.read"}), "getEmployeeDashboardAnalytics")
        /\ Fits("dashboard", menu \cup OneOf({"payroll.reports"}), "getPayrollDashboardAnalytics")
    BY OrganizationGuards, FitsByKey DEF OneOf
  <2>. QED
    BY <2>1, ControlAlone DEF ControlsOf, DashboardCharts
<1>. QED
  BY <1>4, <1>5 DEF PageFits

(* Positions *)

\* Every handler of positions/page.tsx fits its gates.
LEMMA PositionsFits == PageFits("positions")
<1>. DEFINE menu == MenuGate["positions"]
<1>1. {"positions.read"} \in menu
  BY DEF MenuGate, OneOf
<1>2. StepsFit("positions", menu, PositionsLoads)
  <2>. HIDE DEF menu
  <2>1. \A f \in {"getPositions", "getEmploymentCategories"} : Fits("positions", menu, f)
    BY <1>1, PositionsGuards, FitsByKey
  <2>2. \A f \in {"getDeductionTypes", "getAllowanceTypes", "getMonthlyTaxes"} :
        Fits("positions", menu, f)
    BY PayGuards, FitsUnchecked DEF SentUnchecked
  <2>3. StageFits("positions", menu,
          {Must("getPositions"), Must("getEmploymentCategories"), Caught("getDeductionTypes"),
           Caught("getAllowanceTypes"), Caught("getMonthlyTaxes")})
    BY <2>1, <2>2, MustFits, FiveTogether
  <2>. QED
    BY <2>3, OneStage DEF PositionsLoads
<1>3. \A f \in {"createPosition", "updatePosition", "archivePosition", "reactivatePosition",
                "attachPositionDeductionType", "detachPositionDeductionType",
                "addPositionAllowanceTemplate", "removePositionAllowanceTemplate",
                "attachPositionEmploymentCategory", "updatePositionEmploymentCategory",
                "detachPositionEmploymentCategory"} :
         Fits("positions", menu \cup OneOf({"positions.manage"}), f)
  BY PositionsGuards, FitsByKey DEF OneOf
<1>4. \A control \in ControlsOf["positions"] : ControlFits("positions", control)
  BY <1>2, <1>3, ControlThenReload DEF ControlsOf, PositionsForms, PositionsBenefits,
        PositionsVariants
<1>5. StepsFit("positions", menu, LoadsOf["positions"])
  BY <1>2 DEF LoadsOf
<1>. QED
  BY <1>4, <1>5 DEF PageFits
(* Employees *)

\* What employees/page.tsx loads fits its menu entry.
LEMMA EmployeesLoadsFit ==
    /\ StepsFit("employees", MenuGate["employees"], EmployeesLoads)
    /\ StepsFit("employees", MenuGate["employees"], EmployeesReload)
<1>. DEFINE menu == MenuGate["employees"]
<1>1. {"employees.read"} \in menu
  BY DEF MenuGate, OneOf
<1>. HIDE DEF menu
<1>2. Fits("employees", menu, "getEmployees")
  BY <1>1, EmployeesGuards, FitsByKey
<1>3. \A f \in {"getWorkingLocations", "getDepartments"} : Fits("employees", menu, f)
  BY OrganizationGuards, FitsOpen
<1>4. \A f \in {"getPositions", "getEmploymentCategories"} : Fits("employees", menu, f)
  BY PositionsGuards, FitsUnchecked DEF SentUnchecked
<1>5. \A f \in {"getAllowanceTypes", "getMonthlyTaxes"} : Fits("employees", menu, f)
  BY PayGuards, FitsUnchecked DEF SentUnchecked
<1>6. StageFits("employees", menu,
        {Caught("getEmployees"), Caught("getWorkingLocations"), Caught("getDepartments"),
         Caught("getPositions"), Caught("getEmploymentCategories"), Caught("getAllowanceTypes"),
         Must("getMonthlyTaxes")})
  BY <1>2, <1>3, <1>4, <1>5, MustFits, SevenTogether
\* Here the page relies on deductions.manage implying payment-structures.read.
<1>7. StageFits("employees", menu,
        {If({"payment-structures.read", "deductions.manage"}, Caught("getDeductionTypes"))})
  <2>. DEFINE keys == {"payment-structures.read", "deductions.manage"}
  <2>1. <<"deductions.manage", {"payment-structures.read"}>> \in ImpliedPermissions
    BY DEF ImpliedPermissions
  <2>2. \A k \in keys : Suffices(k, {"payment-structures.read"})
    BY <2>1 DEF Suffices
  <2>3. Fits("employees", menu \cup {keys}, "getDeductionTypes")
    <3>. HIDE DEF keys
    <3>. QED
      BY <2>2, PayGuards DEF Fits
  <2>. QED
    BY <2>3, MustFits, IfFits, OneFits
<1>8. StepsFit("employees", menu, EmployeesLoads)
  BY <1>6, <1>7, TwoStages DEF EmployeesLoads
<1>9. StepsFit("employees", menu, EmployeesReload)
  BY <1>2, MustFits, OneFits, OneStage DEF EmployeesReload
<1>. QED
  BY <1>8, <1>9 DEF menu

\* The pay of an employee is asked for unchecked.
LEMMA EmployeesPayFits ==
    ASSUME NEW clauses, NEW f \in {"getActivePaymentStructureByEmployee", "getAllowances",
             "getEmployeeDeductions", "createAllowance", "updateAllowance", "deactivateAllowance"}
    PROVE  Fits("employees", clauses, f)
  BY PayGuards, FitsUnchecked DEF SentUnchecked

\* Every handler of employees/page.tsx fits its gates.
LEMMA EmployeesFits == PageFits("employees")
<1>. DEFINE menu == MenuGate["employees"]
            update == menu \cup OneOf({"employees.update"})
            deduct == menu \cup OneOf({"deductions.manage"})
<1>1. \A control \in EmployeesImport \cup EmployeesCreation : ControlFits("employees", control)
  <2>1. \A f \in {"bulkImportEmployees", "createEmployee"} :
           Fits("employees", menu \cup OneOf({"employees.create"}), f)
    BY EmployeesGuards, FitsByKey DEF OneOf
  <2>. QED
    BY <2>1, EmployeesLoadsFit, ControlThenReload DEF EmployeesImport, EmployeesCreation
<1>2. \A control \in EmployeesTransfer : ControlFits("employees", control)
  <2>. DEFINE clauses == menu \cup OneOf({"employees.transfer"})
  <2>1. Fits("employees", clauses, "transferEmployee")
    BY EmployeesGuards, FitsByKey DEF OneOf
  <2>2. Fits("employees", clauses, "getDepartments")
    BY OrganizationGuards, FitsOpen
  <2>3. StepsFit("employees", clauses, <<{Caught("getDepartments")}, {Must("transferEmployee")}>>)
    BY <2>1, <2>2, MustFits, OneFits, TwoStages
  <2>4. StepsFit("employees", clauses, EmployeesReload)
    BY EmployeesLoadsFit, StepsFitMore
  <2>5. StepsFit("employees", clauses,
                 <<{Caught("getDepartments")}, {Must("transferEmployee")}>> \o EmployeesReload)
    BY <2>3, <2>4, OneThenMore
  <2>. QED
    BY <2>5, ControlOfSteps DEF EmployeesTransfer
<1>3. \A control \in EmployeesEditing : ControlFits("employees", control)
  <2>1. RequestFits("employees", update, If({"deductions.manage"},
        Caught("getEmployeeDeductions")))
    BY EmployeesPayFits, MustFits, IfFits
  <2>2. /\ RequestFits("employees", update, Must("getActivePaymentStructureByEmployee"))
        /\ RequestFits("employees", update, Must("getAllowances"))
    BY EmployeesPayFits, MustFits
  <2>3. StageFits("employees", update,
          {Must("getActivePaymentStructureByEmployee"), Must("getAllowances"),
           If({"deductions.manage"}, Caught("getEmployeeDeductions"))})
    BY <2>1, <2>2, FourTogether
  <2>4. StageFits("employees", update, {Must("getDepartments")})
    <3>1. Fits("employees", update, "getDepartments")
      BY OrganizationGuards, FitsOpen
    <3>. QED
      BY <3>1, MustFits, OneFits
  <2>. QED
    BY <2>3, <2>4, TwoStages, ControlOfSteps DEF EmployeesEditing
<1>4. \A control \in EmployeesDetails : ControlFits("employees", control)
  <2>1. Fits("employees", menu \cup {}, "getTimeRecordsByEmployee")
    BY EmployeesGuards, FitsUnchecked DEF SentUnchecked
  <2>2. StageFits("employees", menu \cup {},
          {Caught("getActivePaymentStructureByEmployee"), Caught("getAllowances"),
           Caught("getEmployeeDeductions"), Caught("getTimeRecordsByEmployee")})
    BY <2>1, EmployeesPayFits, MustFits, FourTogether
  <2>3. Fits("employees", deduct, "updateEmployeeDeduction")
    BY PayGuards, FitsByKey DEF OneOf
  <2>4. Fits("employees", deduct, "getEmployeeDeductions")
    BY EmployeesPayFits
  <2>5. ControlFits("employees", Control({}, <<{Caught("getActivePaymentStructureByEmployee"),
        Caught("getAllowances"),
                    Caught("getEmployeeDeductions"), Caught("getTimeRecordsByEmployee")}>>))
    BY <2>2, OneStage, ControlOfSteps
  <2>6. ControlFits("employees", Control(OneOf({"deductions.manage"}),
             <<{Must("updateEmployeeDeduction")}, {Caught("getEmployeeDeductions")}>>))
    BY <2>3, <2>4, ControlThenOne
  <2>. QED
    BY <2>5, <2>6 DEF EmployeesDetails
<1>5. \A control \in EmployeesUpdate : ControlFits("employees", control)
  <2>1. StageFits("employees", update, {Must("updateEmployee")})
    <3>1. Fits("employees", update, "updateEmployee")
      BY EmployeesGuards, FitsByKey DEF OneOf
    <3>. QED
      BY <3>1, MustFits, OneFits
  <2>2. /\ StageFits("employees", update,
                     {If({"deductions.manage"}, Perhaps(Must("updateEmployeeDeduction")))})
        /\ StageFits("employees", update,
                     {If({"deductions.manage"}, Perhaps(Must("createEmployeeDeduction")))})
    <3>1. \A f \in {"updateEmployeeDeduction", "createEmployeeDeduction"} :
             Fits("employees", update \cup {{"deductions.manage"}}, f)
      BY PayGuards, FitsByKey
    <3>2. \A f \in {"updateEmployeeDeduction", "createEmployeeDeduction"} :
             RequestFits("employees", update \cup {{"deductions.manage"}}, Perhaps(Must(f)))
      BY <3>1, MustFits, PerhapsFits
    <3>. QED
      BY <3>2, IfFits, OneFits
  <2>3. StageFits("employees", update,
                  {If({"deductions.manage"}, Perhaps(Caught("getEmployeeDeductions")))})
    BY EmployeesPayFits, MustFits, PerhapsFits, IfFits, OneFits
  <2>. DEFINE steps == <<{Must("updateEmployee")},
               {If({"deductions.manage"}, Perhaps(Must("updateEmployeeDeduction")))},
               {If({"deductions.manage"}, Perhaps(Must("createEmployeeDeduction")))},
               {If({"deductions.manage"}, Perhaps(Caught("getEmployeeDeductions")))}>>
  <2>4. StepsFit("employees", update, steps)
    BY <2>1, <2>2, <2>3, FourStages
  <2>5. StepsFit("employees", update, EmployeesReload)
    BY EmployeesLoadsFit, StepsFitMore
  <2>. HIDE DEF steps
  <2>6. StepsFit("employees", update, steps \o EmployeesReload)
    BY <2>4, <2>5, OneThenMore
  <2>7. EmployeesUpdate = {Control(OneOf({"employees.update"}), steps \o EmployeesReload)}
    BY DEF EmployeesUpdate, steps
  <2>. QED
    BY <2>6, <2>7, ControlOfSteps
<1>6. \A control \in EmployeesStatusControls \cup EmployeesReactivation :
         ControlFits("employees", control)
  <2>1. /\ Fits("employees", menu \cup OneOf({"employees.suspend"}), "suspendEmployee")
        /\ Fits("employees", update, "reactivateEmployee")
        /\ Fits("employees", update, "uploadEmployeeAvatar")
    BY EmployeesGuards, FitsByKey DEF OneOf
  <2>. QED
    BY <2>1, EmployeesLoadsFit, ControlThenReload, ControlAlone
       DEF EmployeesStatusControls, EmployeesReactivation
<1>7. \A control \in EmployeesAllowances : ControlFits("employees", control)
  <2>1. \A f \in {"createAllowance", "updateAllowance", "deactivateAllowance", "getAllowances"} :
           Fits("employees", update, f)
    BY EmployeesPayFits
  <2>2. \A f \in {"createAllowance", "updateAllowance", "deactivateAllowance"} :
           ControlFits("employees",
                       Control(OneOf({"employees.update"}), <<{Must(f)},
                             {Must("getAllowances")}>>))
    BY <2>1, ControlThenOne
  <2>. QED
    BY <2>2 DEF EmployeesAllowances
<1>8. ControlsOf["employees"] =
        EmployeesImport \cup EmployeesTransfer \cup EmployeesEditing \cup EmployeesDetails
          \cup EmployeesUpdate \cup EmployeesCreation \cup EmployeesStatusControls
          \cup EmployeesReactivation \cup EmployeesAllowances
  BY DEF ControlsOf
<1>9. LoadsOf["employees"] = EmployeesLoads
  BY DEF LoadsOf
<1>. QED
  BY <1>1, <1>2, <1>3, <1>4, <1>5, <1>6, <1>7, <1>8, <1>9, EmployeesLoadsFit DEF PageFits
(* Branches and departments *)

\* Every handler of locations/page.tsx fits its gates.
LEMMA LocationsFits == PageFits("locations")
<1>. DEFINE menu == MenuGate["locations"]
<1>1. \A clauses : \A f \in {"getWorkingLocations", "getDepartments"} : Fits("locations",
      clauses, f)
  BY OrganizationGuards, FitsOpen
<1>2. StepsFit("locations", menu, LoadsOf["locations"])
  <2>1. StageFits("locations", menu, {Caught("getWorkingLocations"), Caught("getDepartments")})
    BY <1>1, MustFits, TwoTogether
  <2>. QED
    BY <2>1, OneStage DEF LoadsOf, LocationsLoads
<1>3. \A control \in LocationsRoster : ControlFits("locations", control)
  <2>1. Fits("locations", menu \cup {}, "getUsers") /\ Fits("locations", menu \cup {},
        "getEmployees")
    BY UsersGuards, EmployeesGuards, FitsUnchecked DEF SentUnchecked
  <2>2. StageFits("locations", menu \cup {}, {Must("getUsers"), Must("getEmployees")})
    BY <2>1, MustFits, TwoTogether
  <2>. QED
    BY <2>2, OneStage, ControlOfSteps DEF LocationsRoster
<1>4. \A control \in LocationsToggles : ControlFits("locations", control)
  <2>. DEFINE clauses == menu \cup OneOf({"departments.manage"})
  <2>1. \A f \in {"deleteDepartment", "enableDepartmentAtLocation"} : Fits("locations", clauses, f)
    BY OrganizationGuards, FitsByKey DEF OneOf
  <2>2. StageFits("locations", clauses, {Caught("getDepartments")})
        /\ StageFits("locations", clauses, {Caught("getWorkingLocations")})
    BY <1>1, MustFits, OneFits
  <2>3. \A f \in {"deleteDepartment", "enableDepartmentAtLocation"} :
           StepsFit("locations", clauses,
                    <<{Must(f)}, {Caught("getDepartments")}, {Caught("getWorkingLocations")}>>)
    BY <2>1, <2>2, MustFits, OneFits, ThreeStages
  <2>. QED
    BY <2>3, ControlOfSteps DEF LocationsToggles
<1>5. \A control \in LocationsForms : ControlFits("locations", control)
  <2>1. \A f \in {"createWorkingLocation", "updateWorkingLocation", "getWorkingLocations"} :
           Fits("locations", menu \cup OneOf({"branches.manage"}), f)
    BY <1>1, OrganizationGuards, FitsByKey DEF OneOf
  <2>2. \A f \in {"createWorkingLocation", "updateWorkingLocation"} :
           ControlFits("locations",
             Control(OneOf({"branches.manage"}), <<{Must(f)}, {Caught("getWorkingLocations")}>>))
    BY <2>1, ControlThenOne
  <2>. QED
    BY <2>2 DEF LocationsForms
<1>6. ControlsOf["locations"] = LocationsRoster \cup LocationsToggles \cup LocationsForms
  BY DEF ControlsOf
<1>. QED
  BY <1>2, <1>3, <1>4, <1>5, <1>6 DEF PageFits

\* Every handler of departments/page.tsx fits its gates.
LEMMA DepartmentsFits == PageFits("departments")
<1>. DEFINE menu == MenuGate["departments"]
<1>1. \A clauses : \A f \in {"getWorkingLocations", "getDepartments"} : Fits("departments",
      clauses, f)
  BY OrganizationGuards, FitsOpen
<1>2. StepsFit("departments", menu, LoadsOf["departments"])
  <2>1. StageFits("departments", menu,
          {Caught("getDepartments"), If({"branches.read_all"}, Caught("getWorkingLocations"))})
    BY <1>1, MustFits, IfFits, TwoTogether
  <2>. QED
    BY <2>1, OneStage DEF LoadsOf, DepartmentsLoads
<1>3. \A control \in DepartmentsRoster : ControlFits("departments", control)
  <2>1. Fits("departments", menu \cup {}, "getUsers") /\ Fits("departments", menu \cup {},
        "getEmployees")
    BY UsersGuards, EmployeesGuards, FitsUnchecked DEF SentUnchecked
  <2>2. StageFits("departments", menu \cup {}, {Must("getUsers"), Must("getEmployees")})
    BY <2>1, MustFits, TwoTogether
  <2>. QED
    BY <2>2, OneStage, ControlOfSteps DEF DepartmentsRoster
\* The toggles ask for branches.read_all; what the server asks for comes from the menu.
<1>4. \A control \in DepartmentsToggles \cup DepartmentsForms : ControlFits("departments", control)
  <2>1. {"departments.manage"} \in menu
    BY DEF MenuGate
  <2>2. ASSUME NEW ask
        PROVE  \A f \in {"enableDepartmentAtLocation", "deleteDepartment",
                         "suspendAndArchiveDepartment", "createDepartment", "updateDepartment"} :
                  Fits("departments", menu \cup ask, f)
    <3>1. {"departments.manage"} \in menu \cup ask
      BY <2>1
    <3>. HIDE DEF menu
    <3>. QED
      BY <3>1, OrganizationGuards, FitsByKey
  <2>3. \A ask : \A f \in {"enableDepartmentAtLocation", "deleteDepartment",
                         "suspendAndArchiveDepartment", "createDepartment", "updateDepartment"} :
           ControlFits("departments", Control(ask, <<{Must(f)}, {Caught("getDepartments")}>>))
    BY <1>1, <2>2, ControlThenOne
  <2>. QED
    BY <2>3 DEF DepartmentsToggles, DepartmentsForms
<1>5. ControlsOf["departments"] = DepartmentsRoster \cup DepartmentsToggles \cup DepartmentsForms
  BY DEF ControlsOf
<1>. QED
  BY <1>2, <1>3, <1>4, <1>5 DEF PageFits

(* Attendance *)

\* Every handler of attendance/page.tsx fits its gates.
LEMMA AttendanceFits == PageFits("attendance")
<1>. DEFINE menu == MenuGate["attendance"]
            create == menu \cup OneOf({"attendance.create"})
<1>1. {"attendance.read"} \in menu
  BY DEF MenuGate, OneOf
<1>2. \A ask : Fits("attendance", menu \cup ask, "getTimeRecords")
  <2>. HIDE DEF menu
  <2>. QED
    BY <1>1, EmployeesGuards, FitsByKey
<1>3. Fits("attendance", menu, "getTimeRecords")
  <2>. HIDE DEF menu
  <2>. QED
    BY <1>1, EmployeesGuards, FitsByKey
<1>4. StepsFit("attendance", menu, AttendanceLoads)
  <2>1. Fits("attendance", menu, "getEmployees") /\ Fits("attendance", menu, "getPositions")
    BY EmployeesGuards, PositionsGuards, FitsUnchecked DEF SentUnchecked
  <2>2. Fits("attendance", menu \cup {{"branches.read_all"}}, "getWorkingLocations")
    BY OrganizationGuards, FitsOpen
  <2>3. StageFits("attendance", menu,
          {Caught("getTimeRecords"), Caught("getEmployees"), Caught("getPositions"),
           If({"branches.read_all"}, Caught("getWorkingLocations"))})
    BY <1>3, <2>1, <2>2, MustFits, IfFits, FourTogether
  <2>. QED
    BY <2>3, OneStage DEF AttendanceLoads
<1>5. \A control \in AttendanceImport : ControlFits("attendance", control)
  <2>1. Fits("attendance", create, "bulkCreateTimeRecords")
    BY EmployeesGuards, FitsByKey DEF OneOf
  <2>. DEFINE steps == <<{Must("getTimeRecords")}, {Perhaps(Must("bulkCreateTimeRecords"))}>>
  <2>2. StepsFit("attendance", create, steps)
    BY <1>2, <2>1, MustFits, PerhapsFits, OneFits, TwoStages
  <2>3. StepsFit("attendance", create, AttendanceLoads)
    BY <1>4, StepsFitMore
  <2>4. AttendanceImport = {Control(OneOf({"attendance.create"}), steps \o AttendanceLoads)}
    BY DEF AttendanceImport
  <2>. HIDE DEF steps
  <2>. QED
    BY <2>2, <2>3, <2>4, OneThenMore, ControlOfSteps
<1>6. \A control \in AttendanceHistory \cup AttendanceExport : ControlFits("attendance", control)
  BY <1>2, ControlAlone DEF AttendanceHistory, AttendanceExport
<1>7. ControlsOf["attendance"] = AttendanceImport \cup AttendanceHistory \cup AttendanceExport
  BY DEF ControlsOf
<1>8. LoadsOf["attendance"] = AttendanceLoads
  BY DEF LoadsOf
<1>. QED
  BY <1>4, <1>5, <1>6, <1>7, <1>8 DEF PageFits

(* Payroll: the list, a new batch, one batch *)

\* Batches are read by whoever the menu offers payroll to.
LEMMA PayrollReadFits ==
    ASSUME NEW p \in {"payroll", "batch"}, NEW ask,
           NEW f \in {"getPayrollBatches", "getPayrollBatch", "downloadPayrollBatchExport"}
    PROVE  Fits(p, MenuGate[p] \cup ask, f) /\ Fits(p, MenuGate[p], f)
<1>. DEFINE menu == MenuGate[p]
<1>1. {"payroll.read"} \in menu /\ {"payroll.read"} \in menu \cup ask
  BY DEF MenuGate, OneOf
<1>. HIDE DEF menu
<1>2. Fits(p, menu \cup ask, f) /\ Fits(p, menu, f)
  BY <1>1, PayrollGuards, FitsByKey
<1>. QED
  BY <1>2 DEF menu

\* Reviews are sent unchecked.
LEMMA PayrollReviewFits ==
    ASSUME NEW p \in {"payroll", "batch"}, NEW ask,
           NEW f \in {"approvePayrollBatch", "rejectPayrollBatch", "rejectPayrollItem"}
    PROVE  Fits(p, MenuGate[p] \cup ask, f)
  BY PayrollGuards, FitsUnchecked DEF SentUnchecked

\* Every handler of the list of batches fits its gates.
LEMMA PayrollFits == PageFits("payroll")
<1>. DEFINE menu == MenuGate["payroll"]
<1>1. StepsFit("payroll", menu, LoadsOf["payroll"])
  <2>1. Fits("payroll", menu, "getPayrollBatches")
    BY PayrollReadFits
  <2>2. Fits("payroll", menu, "getPositions")
    BY PositionsGuards, FitsUnchecked DEF SentUnchecked
  <2>3. StageFits("payroll", menu, {Caught("getPayrollBatches"), Caught("getPositions")})
    BY <2>1, <2>2, MustFits, TwoTogether
  <2>. QED
    BY <2>3, OneStage DEF LoadsOf, PayrollLoads
<1>2. \A ask : \A f \in {"getPayrollBatches", "getPayrollBatch", "downloadPayrollBatchExport"} :
         ControlFits("payroll", Control(ask, <<{Must(f)}>>))
  BY PayrollReadFits, ControlAlone
<1>3. \A ask : \A f \in {"approvePayrollBatch", "rejectPayrollBatch", "rejectPayrollItem"} :
         /\ ControlFits("payroll", Control(ask, <<{Must(f)}, {Caught("getPayrollBatches")}>>))
         /\ ControlFits("payroll", Control(ask, <<{Must(f)}, {Caught("getPayrollBatch")}>>))
  BY PayrollReadFits, PayrollReviewFits, ControlThenOne
<1>4. \A control \in PayrollListControls \cup PayrollPanel : ControlFits("payroll", control)
  BY <1>2, <1>3 DEF PayrollListControls, PayrollPanel
<1>5. ControlsOf["payroll"] = PayrollListControls \cup PayrollPanel
  BY DEF ControlsOf
<1>. QED
  BY <1>1, <1>4, <1>5 DEF PageFits

\* Every handler of the page of one batch fits its gates.
LEMMA BatchFits == PageFits("batch")
<1>. DEFINE menu == MenuGate["batch"]
<1>1. StepsFit("batch", menu, LoadsOf["batch"])
  <2>1. Fits("batch", menu, "getPayrollBatch")
    BY PayrollReadFits
  <2>. QED
    BY <2>1, MustFits, OneFits, OneStage DEF LoadsOf, BatchLoads
<1>2. ControlFits("batch", Control({}, <<{Must("downloadPayrollBatchExport")}>>))
  BY PayrollReadFits, ControlAlone
<1>3. \A ask : \A f \in {"submitPayrollBatch", "approvePayrollBatch", "rejectPayrollBatch",
                         "rejectPayrollItem"} :
         ControlFits("batch", Control(ask, <<{Must(f)}, {Must("getPayrollBatch")}>>))
  <2>1. \A ask : Fits("batch", menu \cup ask, "submitPayrollBatch")
    BY PayrollGuards, FitsUnchecked DEF SentUnchecked
  <2>. QED
    BY <2>1, PayrollReadFits, PayrollReviewFits, ControlThenOne
<1>4. \A control \in ControlsOf["batch"] : ControlFits("batch", control)
  BY <1>2, <1>3 DEF ControlsOf, BatchControls
<1>. QED
  BY <1>1, <1>4 DEF PageFits

\* Every handler of the page for a new batch fits its gates.
LEMMA NewBatchFits == PageFits("newBatch")
<1>. DEFINE menu == MenuGate["newBatch"]
            create == menu \cup OneOf({"payroll.create"})
<1>1. StepsFit("newBatch", menu, LoadsOf["newBatch"])
  <2>1. Fits("newBatch", menu, "getEmployees")
    BY EmployeesGuards, FitsUnchecked DEF SentUnchecked
  <2>2. Fits("newBatch", menu, "getWorkingLocations") /\ Fits("newBatch", menu, "getDepartments")
    BY OrganizationGuards, FitsOpen
  <2>3. StageFits("newBatch", menu, {Caught("getEmployees"), Caught("getWorkingLocations")})
    BY <2>1, <2>2, MustFits, TwoTogether
  <2>4. StageFits("newBatch", menu, {Perhaps(Caught("getDepartments"))})
    BY <2>2, MustFits, PerhapsFits, OneFits
  <2>. QED
    BY <2>3, <2>4, TwoStages DEF LoadsOf, NewBatchLoads
<1>2. \A control \in ControlsOf["newBatch"] : ControlFits("newBatch", control)
  <2>1. \A f \in {"createPayrollBatch", "uploadPayrollBatchAttachments"} : Fits("newBatch",
        create, f)
    BY PayrollGuards, FitsByKey DEF OneOf
  <2>2. StepsFit("newBatch", create,
          <<{Must("createPayrollBatch")}, {Perhaps(Must("uploadPayrollBatchAttachments"))}>>)
    BY <2>1, MustFits, PerhapsFits, OneFits, TwoStages
  <2>. QED
    BY <2>2, ControlOfSteps DEF ControlsOf, NewBatchControls
<1>. QED
  BY <1>1, <1>2 DEF PageFits
(* Ikimina, tax setup, allowance setup, audit logs *)

\* Every handler of ikimina/page.tsx fits its gates.
LEMMA IkiminaFits == PageFits("ikimina")
<1>. DEFINE menu == MenuGate["ikimina"]
<1>1. {"ikimina.read"} \in menu
  BY DEF MenuGate
<1>2. StepsFit("ikimina", menu, IkiminaLoads)
  <2>. HIDE DEF menu
  <2>1. Fits("ikimina", menu, "getIkiminaMemberships")
    BY <1>1, PayrollGuards, FitsByKey
  <2>2. Fits("ikimina", menu, "getEmployees")
    BY EmployeesGuards, FitsUnchecked DEF SentUnchecked
  <2>3. StageFits("ikimina", menu, {Must("getIkiminaMemberships"), Caught("getEmployees")})
    BY <2>1, <2>2, MustFits, TwoTogether
  <2>. QED
    BY <2>3, OneStage DEF IkiminaLoads
<1>3. \A f \in {"createIkiminaMembership", "updateIkiminaMembership", "removeIkiminaMembership"} :
         Fits("ikimina", menu \cup OneOf({"ikimina.manage"}), f)
  BY PayrollGuards, FitsByKey DEF OneOf
<1>4. \A control \in ControlsOf["ikimina"] : ControlFits("ikimina", control)
  BY <1>2, <1>3, ControlThenReload DEF ControlsOf, IkiminaControls
<1>5. LoadsOf["ikimina"] = IkiminaLoads
  BY DEF LoadsOf
<1>. QED
  BY <1>2, <1>4, <1>5 DEF PageFits

\* Every handler of payments/page.tsx fits its gates.
LEMMA PaymentsFits == PageFits("payments")
<1>. DEFINE menu == MenuGate["payments"]
<1>1. {"system-config.manage"} \in menu /\ {"system-config.manage"} \in menu \cup {}
  BY DEF MenuGate
<1>2. Fits("payments", menu, "getMonthlyTaxes")
  <2>. HIDE DEF menu
  <2>. QED
    BY <1>1, PayGuards, FitsByKey
<1>3. \A f \in {"updateMonthlyTax", "deactivateMonthlyTax"} : Fits("payments", menu \cup {}, f)
  <2>. HIDE DEF menu
  <2>. QED
    BY <1>1, PayGuards, FitsByKey
<1>4. StepsFit("payments", menu, PaymentsLoads)
  BY <1>2, MustFits, OneFits, OneStage DEF PaymentsLoads
<1>5. \A control \in ControlsOf["payments"] : ControlFits("payments", control)
  BY <1>3, <1>4, ControlThenReload DEF ControlsOf, PaymentsControls
<1>6. LoadsOf["payments"] = PaymentsLoads
  BY DEF LoadsOf
<1>. QED
  BY <1>4, <1>5, <1>6 DEF PageFits

\* Every handler of allowances/page.tsx fits its gates.
LEMMA AllowancesFits == PageFits("allowances")
<1>. DEFINE menu == MenuGate["allowances"]
<1>1. {"allowances.manage"} \in menu \cup {}
  BY DEF MenuGate
<1>2. Fits("allowances", menu, "getAllowanceTypes")
  BY PayGuards, FitsUnchecked DEF SentUnchecked
<1>3. \A f \in {"createAllowanceType", "updateAllowanceType"} : Fits("allowances", menu \cup {}, f)
  <2>. HIDE DEF menu
  <2>. QED
    BY <1>1, PayGuards, FitsByKey
<1>4. StepsFit("allowances", menu, AllowancesLoads)
  BY <1>2, MustFits, OneFits, OneStage DEF AllowancesLoads
<1>5. \A control \in ControlsOf["allowances"] : ControlFits("allowances", control)
  BY <1>3, <1>4, ControlThenReload DEF ControlsOf, AllowancesControls
<1>6. LoadsOf["allowances"] = AllowancesLoads
  BY DEF LoadsOf
<1>. QED
  BY <1>4, <1>5, <1>6 DEF PageFits

\* Every handler of audit-logs/page.tsx fits its gates.
LEMMA AuditFits == PageFits("audit")
<1>. DEFINE menu == MenuGate["audit"]
<1>1. {"audit.view"} \in menu
  BY DEF MenuGate, OneOf
<1>2. \A ask : Fits("audit", menu \cup ask, "getAuditLogs") /\ Fits("audit", menu, "getAuditLogs")
  <2>. HIDE DEF menu
  <2>. QED
    BY <1>1, OrganizationGuards, FitsByKey
<1>3. StepsFit("audit", menu, <<{Caught("getAuditLogs")}>>)
  BY <1>2, MustFits, OneFits, OneStage
<1>4. StepsFit("audit", menu \cup {}, <<{Caught("getAuditLogs")}>>)
  BY <1>2, MustFits, OneFits, OneStage
<1>5. \A control \in ControlsOf["audit"] : ControlFits("audit", control)
  BY <1>4, ControlOfSteps DEF ControlsOf, AuditRefresh
<1>6. LoadsOf["audit"] = <<{Caught("getAuditLogs")}>>
  BY DEF LoadsOf, AuditLoads
<1>. QED
  BY <1>3, <1>5, <1>6 DEF PageFits

(* Settings, profile, and the page of those who are turned away *)

\* Every handler of settings/page.tsx fits its gates.
LEMMA SettingsFits == PageFits("settings")
<1>. DEFINE menu == MenuGate["settings"]
            roles == menu \cup OneOf(RoleManagers)
<1>1. StepsFit("settings", menu, LoadsOf["settings"])
  <2>1. Fits("settings", menu \cup {RoleManagers}, "getRoles")
    BY UsersGuards, FitsByKey DEF RoleManagers
  <2>2. Fits("settings", menu \cup {{"system-config.manage"}}, "getSystemConfigs")
    BY PayGuards, FitsByKey
  <2>3. /\ StageFits("settings", menu, {If(RoleManagers, Must("getRoles"))})
        /\ StageFits("settings", menu, {If({"system-config.manage"}, Must("getSystemConfigs"))})
    BY <2>1, <2>2, MustFits, IfFits, OneFits
  <2>. QED
    BY <2>3, TwoStages DEF LoadsOf, SettingsLoads
<1>2. \A control \in SettingsOvertime : ControlFits("settings", control)
  <2>1. Fits("settings", menu \cup OneOf({"system-config.manage"}), "updateSystemConfig")
    BY PayGuards, FitsByKey DEF OneOf
  <2>. QED
    BY <2>1, ControlAlone DEF SettingsOvertime
<1>3. \A control \in SettingsRoles : ControlFits("settings", control)
  <2>1. \A f \in {"createRole", "updateRole", "getRoles"} : Fits("settings", roles, f)
    BY UsersGuards, FitsByKey DEF RoleManagers, OneOf
  <2>2. \A f \in {"refreshToken", "getMyProfile"} : Fits("settings", roles, f)
    BY OrganizationGuards, FitsOpen
  <2>3. \A f \in {"createRole", "updateRole", "getRoles", "refreshToken", "getMyProfile"} :
           StageFits("settings", roles, {Must(f)})
    BY <2>1, <2>2, MustFits, OneFits
  <2>4. \A f \in {"createRole", "updateRole"} :
           StepsFit("settings", roles,
             <<{Must(f)}, {Must("getRoles")}, {Must("refreshToken")}, {Must("getMyProfile")}>>)
    BY <2>3, FourStages
  <2>. QED
    BY <2>4, ControlOfSteps DEF SettingsRoles
<1>4. ControlsOf["settings"] = SettingsOvertime \cup SettingsRoles
  BY DEF ControlsOf
<1>. QED
  BY <1>1, <1>2, <1>3, <1>4 DEF PageFits

\* Every handler of profile/page.tsx fits, and the unauthorized page sends nothing.
LEMMA ProfileFits == PageFits("profile") /\ PageFits("unauthorized")
<1>. DEFINE menu == MenuGate["profile"]
<1>1. \A p : StepsFit(p, MenuGate[p], <<>>)
  <2>1. <<>> \in Seq({}) /\ DOMAIN <<>> = {}
    OBVIOUS
  <2>. QED
    BY <2>1 DEF StepsFit, IsSeq
<1>2. \A f \in {"updateProfile", "refreshToken", "getMyProfile"} : Fits("profile", menu \cup {}, f)
  BY OrganizationGuards, FitsOpen
<1>3. StepsFit("profile", menu \cup {}, <<{Must("updateProfile")}, {Must("refreshToken")},
      {Must("getMyProfile")}>>)
  <2>1. \A f \in {"updateProfile", "refreshToken", "getMyProfile"} :
           StageFits("profile", menu \cup {}, {Must(f)})
    BY <1>2, MustFits, OneFits
  <2>. QED
    BY <2>1, ThreeStages
<1>4. \A control \in ControlsOf["profile"] : ControlFits("profile", control)
  BY <1>2, <1>3, ControlAlone, ControlOfSteps DEF ControlsOf, ProfileControls
<1>5. LoadsOf["profile"] = <<>> /\ LoadsOf["unauthorized"] = <<>> /\
      ControlsOf["unauthorized"] = {}
  BY DEF LoadsOf, ControlsOf
<1>. QED
  BY <1>1, <1>4, <1>5 DEF PageFits

\* The pages of the browser and the routes of the server fit together.
LEMMA EveryPageFits == \A p \in Pages : PageFits(p)
<1>1. Pages = {"dashboard", "users", "employees", "positions", "locations", "departments",
               "attendance", "payroll", "newBatch", "batch", "ikimina", "payments", "allowances",
               "audit", "settings", "profile", "unauthorized"}
  BY DEF Pages, LoadsOf
<1>. QED
  BY <1>1, DashboardFits, UsersFits, EmployeesFits, PositionsFits, LocationsFits, DepartmentsFits,
     AttendanceFits, PayrollFits, NewBatchFits, BatchFits, IkiminaFits, PaymentsFits,
     AllowancesFits, AuditFits, SettingsFits, ProfileFits
-----------------------------------------------------------------------------
(* What the browser shows, the server serves *)

\* A key that is enough for some route is a key of the catalogue.
LEMMA SufficientIsKnown ==
    ASSUME NEW f, NEW r, NEW any, Guarded(f, r, any), NEW k, Suffices(k, any)
    PROVE  k \in AllPermissionKeys
<1>1. any \subseteq AllPermissionKeys
  <2>1. PICK t \in RouteTable : t = [route |-> r, any |-> any]
    BY DEF Guarded
  <2>2. t.any = any
    BY <2>1
  <2>. QED
    BY <2>1, <2>2, RouteKeysKnown
<1>. QED
  BY <1>1, ImpliedKnown DEF Suffices

\* No role has the name of a key.
LEMMA RolesAreNotKeys ==
    ASSUME NEW person \in People
    PROVE  person.role \notin AllPermissionKeys
<1>1. person.role \in {"SUPER_ADMIN", "BRANCH_MANAGER", "CUSTOM"} \cup DOMAIN StaffKeys
  BY DEF People
<1>. QED
  BY <1>1 DEF StaffKeys, AllPermissionKeys, PeopleKeys, PayKeys, OtherKeys

\* The server knows the route, and serves the person unless the page is known
\* to send the request unchecked.
Served(person, p, f) ==
    f \in SentUnchecked(p) \/ Verdict(person, RouteOf[f]) = "served"

\* Who has been told of keys that meet the clauses is served what fits them.
LEMMA ShownIsServed ==
    ASSUME NEW person \in People, NEW p, NEW clauses, NEW f,
           Shows(ToldOf(person), clauses), Fits(p, clauses, f)
    PROVE  Served(person, p, f)
<1>1. PICK r, any :
        /\ Guarded(f, r, any)
        /\ \/ f \in SentUnchecked(p)
           \/ any = {}
           \/ \E keys \in clauses : \A k \in keys : Suffices(k, any)
  BY DEF Fits
<1>2. RouteOf[f] = r /\ r \in DOMAIN Asked /\ Asked[r] = any
  BY <1>1, GuardFound
<1>3. MayUse(person, any) => Served(person, p, f)
  BY <1>2 DEF Served, Verdict
<1>4. CASE any = {} \/ person.role = "SUPER_ADMIN"
  BY <1>3, <1>4 DEF MayUse
<1>5. CASE person.role # "SUPER_ADMIN" /\ \E keys \in clauses : \A k \in keys : Suffices(k, any)
  <2>1. PICK keys \in clauses : \A k \in keys : Suffices(k, any)
    BY <1>5
  <2>2. PICK k \in keys : k \in Expand(person.keys) \cup {person.role}
    BY <1>5 DEF Shows, ToldOf
  <2>3. k \in Expand(person.keys)
    BY <1>1, <2>1, <2>2, SufficientIsKnown, RolesAreNotKeys
  <2>4. any \cap Expand(person.keys) # {}
    BY <2>1, <2>3, SufficientKey
  <2>. QED
    BY <1>3, <2>4 DEF MayUse
<1>. QED
  BY <1>1, <1>4, <1>5 DEF Served

\* What fits a page has a route.
LEMMA FittingHasRoute ==
    ASSUME NEW p, NEW clauses, NEW f, Fits(p, clauses, f)
    PROVE  RouteOf[f] \in DOMAIN Asked
  BY GuardFound DEF Fits

\* Who is shown what two gates guard is shown what both guard together.
LEMMA ShowsTogether ==
    ASSUME NEW v, NEW some, NEW more, Shows(v, some), Shows(v, more)
    PROVE  Shows(v, some \cup more)
  BY DEF Shows

-----------------------------------------------------------------------------
(* The handlers *)

\* The requests of a stage have routes, and while the person's keys are the
\* ones the handler started with they are served.
StageInv(person, p, now, stage) ==
    /\ IsFiniteSet(stage)
    /\ \A q \in stage : /\ RouteOf[q.call] \in DOMAIN Asked
                        /\ now = TRUE => Served(person, p, q.call)

\* A handler by its fields.
RunOf(p, goto, now, todo, open) ==
    [page |-> p, goto |-> goto, current |-> now, todo |-> todo, open |-> open]

\* What a handler has under way and has left to send is sound for the person.
RunInv(person, run) ==
    \E p \in Pages, goto \in {"payroll", "stay"}, now \in BOOLEAN : \E todo, open :
       /\ run = RunOf(p, goto, now, todo, open)
       /\ IsSeq(todo)
       /\ \A i \in DOMAIN todo : StageInv(person, p, now, todo[i])
       /\ StageInv(person, p, now, open)

\* What a handler does next rests on what its invariant says of its fields.
LEMMA RunByFields ==
    ASSUME NEW person, NEW p \in Pages, NEW goto \in {"payroll", "stay"}, NEW now \in BOOLEAN,
           NEW todo, IsSeq(todo), \A i \in DOMAIN todo : StageInv(person, p, now, todo[i]),
           NEW open, StageInv(person, p, now, open)
    PROVE  RunInv(person, RunOf(p, goto, now, todo, open))
  BY DEF RunInv

\* No requests is a sound stage, and no stages a sequence of them.
LEMMA EmptyStage ==
    ASSUME NEW person, NEW p, NEW now
    PROVE  StageInv(person, p, now, {}) /\ IsSeq(<<>>)
<1>1. <<>> \in Seq({})
  OBVIOUS
<1>. QED
  BY <1>1, FS_EmptySet DEF StageInv, IsSeq

\* A sound stage stays so when requests are answered or have nothing to send.
LEMMA SmallerStage ==
    ASSUME NEW person, NEW p, NEW now, NEW stage, StageInv(person, p, now, stage),
           NEW part \in SUBSET stage
    PROVE  StageInv(person, p, now, part)
  BY FS_Subset DEF StageInv

\* The pages a handler or a gate may lead to are pages of the workspace.
LEMMA PagesKnown ==
    {"dashboard", "payroll", "unauthorized"} \subseteq Pages
  BY DEF Pages, LoadsOf

\* A slot without a handler is sound.
LEMMA NoRunInv == \A person : RunInv(person, NoRun)
<1>. TAKE person
<1>1. PICK todo, no, here : todo = <<>> /\ no = FALSE /\ here = "unauthorized"
  OBVIOUS
<1>2. no \in BOOLEAN /\ here \in Pages
  BY <1>1, PagesKnown
<1>3. /\ IsSeq(todo) /\ StageInv(person, here, no, {})
      /\ \A i \in DOMAIN todo : StageInv(person, here, no, todo[i])
  BY <1>1, EmptyStage
<1>4. RunInv(person, RunOf(here, "stay", no, todo, {}))
  BY <1>2, <1>3, RunByFields
<1>. QED
  BY <1>1, <1>4, Zenon DEF NoRun, RunOf

\* A handler that starts with the keys v, of somebody the server knows as person.
StartedFor(person, v, p, goto, stages) ==
    [page |-> p, goto |-> goto, current |-> v = ToldOf(person) /\ Offered(v, p),
     todo |-> [i \in DOMAIN stages |-> {q \in stages[i] : Shows(v, q.ask)}], open |-> {}]

\* The handler of a page or of a control that is shown starts sound.
LEMMA StartedInv ==
    ASSUME NEW person \in People, NEW v, NEW p \in Pages, NEW goto \in {"payroll", "stay"},
           NEW ask, Shows(v, ask), NEW stages, StepsFit(p, MenuGate[p] \cup ask, stages)
    PROVE  RunInv(person, StartedFor(person, v, p, goto, stages))
<1>. DEFINE now == v = ToldOf(person) /\ Offered(v, p)
            todo == [i \in DOMAIN stages |-> {q \in stages[i] : Shows(v, q.ask)}]
<1>1. IsSeq(todo)
  <2>1. PICK S : stages \in Seq(S)
    BY DEF StepsFit, IsSeq
  <2>2. PICK n \in Nat : DOMAIN stages = 1..n
    BY <2>1
  <2>3. todo \in [1..n -> SUBSET UNION S]
    BY <2>1, <2>2
  <2>4. todo \in Seq(SUBSET UNION S)
    <3>. HIDE DEF todo
    <3>. QED
      BY <2>3
  <2>. QED
    BY <2>4 DEF IsSeq
<1>2. ASSUME NEW i \in DOMAIN todo
      PROVE  StageInv(person, p, now, todo[i])
  <2>1. StageFits(p, MenuGate[p] \cup ask, stages[i]) /\ todo[i] \subseteq stages[i]
    BY DEF StepsFit
  <2>2. IsFiniteSet(todo[i])
    BY <2>1, FS_Subset DEF StageFits
  <2>3. ASSUME NEW q \in todo[i]
        PROVE  RouteOf[q.call] \in DOMAIN Asked /\ (now => Served(person, p, q.call))
    <3>1. Fits(p, (MenuGate[p] \cup ask) \cup q.ask, q.call)
      BY <2>1 DEF StageFits, RequestFits
    <3>2. Shows(v, q.ask)
      BY <2>3
    <3>3. now => Served(person, p, q.call)
      <4>. SUFFICES ASSUME now PROVE Served(person, p, q.call)
        OBVIOUS
      <4>1. Shows(v, MenuGate[p])
        BY DEF Offered
      <4>2. Shows(v, (MenuGate[p] \cup ask) \cup q.ask)
        BY <4>1, <3>2, ShowsTogether
      <4>. QED
        BY <3>1, <4>2, ShownIsServed
    <3>. QED
      BY <3>1, <3>3, FittingHasRoute
  <2>. QED
    BY <2>2, <2>3 DEF StageInv
<1>3. StageInv(person, p, now, {}) /\ now \in BOOLEAN
  BY EmptyStage
<1>4. StartedFor(person, v, p, goto, stages)
        = RunOf(p, goto, now, todo, {})
  BY Zenon DEF StartedFor, RunOf
<1>. HIDE DEF now, todo
<1>5. RunInv(person, RunOf(p, goto, now, todo, {}))
  BY <1>1, <1>2, <1>3, RunByFields, Zenon
<1>. QED
  BY <1>4, <1>5, Zenon

\* The load of any page starts sound, whatever the browser knows.
LEMMA LoadingInv ==
    ASSUME NEW person \in People, NEW v, NEW p \in Pages
    PROVE  RunInv(person, StartedFor(person, v, p, "stay", LoadsOf[p]))
<1>1. StepsFit(p, MenuGate[p] \cup {}, LoadsOf[p])
  <2>1. MenuGate[p] \cup {} = MenuGate[p]
    OBVIOUS
  <2>. QED
    BY <2>1, EveryPageFits DEF PageFits
<1>2. Shows(v, {})
  BY DEF Shows
<1>. QED
  BY <1>1, <1>2, StartedInv

\* A handler starts for the person the server knows.
LEMMA StartedIsFor ==
    /\ \A v, p, goto, stages : Started(v, p, goto, stages) = StartedFor(who, v, p, goto, stages)
    /\ \A v, p : Loading(v, p) = StartedFor(who, v, p, "stay", LoadsOf[p])
  BY Zenon DEF Started, Loading, StartedFor
\* The fields of a handler.
LEMMA RunFields ==
    ASSUME NEW p, NEW goto, NEW now, NEW todo, NEW open
    PROVE  /\ RunOf(p, goto, now, todo, open).page = p /\ RunOf(p, goto, now, todo,
                 open).goto = goto
           /\ RunOf(p, goto, now, todo, open).todo = todo /\ RunOf(p, goto, now, todo,
                 open).open = open
           /\ RunOf(p, goto, now, todo, open).current = now
  BY DEF RunOf

\* A handler with other requests under way.
LEMMA WithOpen ==
    ASSUME NEW p, NEW goto, NEW now, NEW todo, NEW open, NEW new
    PROVE  [RunOf(p, goto, now, todo, open) EXCEPT !.open = new]
             = RunOf(p, goto, now, todo, new)
  BY DEF RunOf

\* A handler whose keys are outdated.
LEMMA WithCurrent ==
    ASSUME NEW p, NEW goto, NEW now, NEW todo, NEW open, NEW new
    PROVE  [RunOf(p, goto, now, todo, open) EXCEPT !.current = new]
             = RunOf(p, goto, new, todo, open)
  BY DEF RunOf

\* The next stage goes out.
LEMMA SentInv ==
    ASSUME NEW person, NEW run, RunInv(person, run), run.open = {}, ~Over(run), NEW dropped
    PROVE  RunInv(person, [run EXCEPT !.open = Head(run.todo) \ dropped, !.todo = Tail(@)])
<1>1. PICK p \in Pages, goto \in {"payroll", "stay"}, now \in BOOLEAN : \E todo, open :
        /\ run = RunOf(p, goto, now, todo, open)
        /\ IsSeq(todo)
        /\ \A i \in DOMAIN todo : StageInv(person, p, now, todo[i])
        /\ StageInv(person, p, now, open)
  BY DEF RunInv
<1>2. PICK todo, open :
        /\ run = RunOf(p, goto, now, todo, open)
        /\ IsSeq(todo)
        /\ \A i \in DOMAIN todo : StageInv(person, p, now, todo[i])
        /\ StageInv(person, p, now, open)
  BY <1>1
<1>3. run.todo = todo
  BY <1>2, RunFields
<1>4. PICK S : todo \in Seq(S)
  BY <1>2 DEF IsSeq
<1>5. \E i \in DOMAIN todo : todo[i] # {}
  BY <1>3 DEF Over
<1>6. todo # <<>>
  BY <1>5
<1>7. /\ Head(todo) = todo[1] /\ 1 \in DOMAIN todo
      /\ Tail(todo) \in Seq(S)
      /\ \A i \in DOMAIN Tail(todo) : i + 1 \in DOMAIN todo /\ Tail(todo)[i] = todo[i + 1]
  BY <1>4, <1>6
<1>8. /\ IsSeq(Tail(todo))
      /\ \A i \in DOMAIN Tail(todo) : StageInv(person, p, now, Tail(todo)[i])
  BY <1>2, <1>7 DEF IsSeq
<1>9. StageInv(person, p, now, Head(todo) \ dropped)
  BY <1>2, <1>7, SmallerStage
<1>10. [run EXCEPT !.open = Head(run.todo) \ dropped, !.todo = Tail(@)]
         = RunOf(p, goto, now, Tail(todo), Head(todo) \ dropped)
  <2>0. PICK sent, rest : sent = Head(todo) \ dropped /\ rest = Tail(todo)
    OBVIOUS
  <2>1. [run EXCEPT !.open = Head(run.todo) \ dropped, !.todo = Tail(@)]
          = [run EXCEPT !.open = sent, !.todo = rest]
    BY <1>3, <2>0
  <2>2. [run EXCEPT !.open = sent, !.todo = rest]
          = [[run EXCEPT !.open = sent] EXCEPT !.todo = rest]
    BY Zenon
  <2>3. [run EXCEPT !.open = sent] = RunOf(p, goto, now, todo, sent)
    BY <1>2 DEF RunOf
  <2>4. [RunOf(p, goto, now, todo, sent) EXCEPT !.todo = rest]
          = RunOf(p, goto, now, rest, sent)
    BY DEF RunOf
  <2>. QED
    BY <2>0, <2>1, <2>2, <2>3, <2>4, Zenon
<1>11. RunInv(person, RunOf(p, goto, now, Tail(todo), Head(todo) \ dropped))
  BY <1>8, <1>9, RunByFields, Zenon
<1>. QED
  BY <1>10, <1>11, Zenon

\* A request has its answer: the handler goes on, or gives up.
LEMMA SettledInv ==
    ASSUME NEW person, NEW run, RunInv(person, run), NEW q, NEW served
    PROVE  RunInv(person, Settled(run, q, served))
<1>1. PICK p \in Pages, goto \in {"payroll", "stay"}, now \in BOOLEAN : \E todo, open :
        /\ run = RunOf(p, goto, now, todo, open)
        /\ IsSeq(todo)
        /\ \A i \in DOMAIN todo : StageInv(person, p, now, todo[i])
        /\ StageInv(person, p, now, open)
  BY DEF RunInv
<1>2. PICK todo, open :
        /\ run = RunOf(p, goto, now, todo, open)
        /\ IsSeq(todo)
        /\ \A i \in DOMAIN todo : StageInv(person, p, now, todo[i])
        /\ StageInv(person, p, now, open)
  BY <1>1
<1>. DEFINE left == open \ {q}
            next == RunOf(p, goto, now, todo, left)
            ended == RunOf(p, "stay", now, <<>>, left)
<1>3. StageInv(person, p, now, left)
  BY <1>2, SmallerStage
<1>4. RunInv(person, next)
  BY <1>2, <1>3, RunByFields
<1>5. RunInv(person, ended)
  <2>1. IsSeq(<<>>) /\ \A i \in DOMAIN <<>> : StageInv(person, p, now, <<>>[i])
    BY EmptyStage
  <2>2. PICK none : none = <<>>
    OBVIOUS
  <2>3. RunInv(person, RunOf(p, "stay", now, none, left))
    BY <1>3, <2>1, <2>2, RunByFields
  <2>. QED
    BY <2>2, <2>3, Zenon
<1>6. [run EXCEPT !.open = @ \ {q}] = next
  <2>1. run.open = open
    BY <1>2, RunFields
  <2>2. [run EXCEPT !.open = run.open \ {q}] = [run EXCEPT !.open = left]
    BY <2>1, Zenon
  <2>3. [run EXCEPT !.open = @ \ {q}] = [run EXCEPT !.open = run.open \ {q}]
    BY Zenon
  <2>4. \A new : [RunOf(p, goto, now, todo, open) EXCEPT !.open = new]
                    = RunOf(p, goto, now, todo, new)
    BY WithOpen
  <2>. QED
    BY <2>2, <2>3, <2>4, <1>2, Zenon
<1>7. [next EXCEPT !.todo = <<>>, !.goto = "stay"] = ended
  <2>0. PICK none, rest : none = <<>> /\ rest = left
    OBVIOUS
  <2>1. [next EXCEPT !.todo = none, !.goto = "stay"]
          = [[next EXCEPT !.todo = none] EXCEPT !.goto = "stay"]
    BY Zenon
  <2>2. [RunOf(p, goto, now, todo, rest) EXCEPT !.todo = none] = RunOf(p, goto, now, none, rest)
    BY DEF RunOf
  <2>3. [RunOf(p, goto, now, none, rest) EXCEPT !.goto = "stay"]
          = RunOf(p, "stay", now, none, rest)
    BY DEF RunOf
  <2>. QED
    BY <2>0, <2>1, <2>2, <2>3, Zenon
<1>. HIDE DEF next, ended
<1>8. Settled(run, q, served) = next \/ Settled(run, q, served) = ended
  BY <1>6, <1>7 DEF Settled
<1>. QED
  BY <1>4, <1>5, <1>8

\* Once the keys change, a handler is no longer bound to be served.
LEMMA OutdatedInv ==
    ASSUME NEW person, NEW other, NEW run, RunInv(person, run)
    PROVE  RunInv(other, [run EXCEPT !.current = FALSE])
<1>1. PICK p \in Pages, goto \in {"payroll", "stay"}, now \in BOOLEAN : \E todo, open :
        /\ run = RunOf(p, goto, now, todo, open)
        /\ IsSeq(todo)
        /\ \A i \in DOMAIN todo : StageInv(person, p, now, todo[i])
        /\ StageInv(person, p, now, open)
  BY DEF RunInv
<1>2. PICK todo, open :
        /\ run = RunOf(p, goto, now, todo, open)
        /\ IsSeq(todo)
        /\ \A i \in DOMAIN todo : StageInv(person, p, now, todo[i])
        /\ StageInv(person, p, now, open)
  BY <1>1
<1>3. PICK no \in BOOLEAN : no = FALSE
  OBVIOUS
<1>4. \A stage : StageInv(person, p, now, stage) => StageInv(other, p, no, stage)
  BY <1>3 DEF StageInv
<1>5. [run EXCEPT !.current = no]
        = RunOf(p, goto, no, todo, open)
  BY <1>2, WithCurrent
<1>6. RunInv(other, [run EXCEPT !.current = no])
  BY <1>2, <1>4, <1>5, RunByFields
<1>. QED
  BY <1>3, <1>6, Zenon
-----------------------------------------------------------------------------
(* The steps *)

\* The handlers are sound.
RunsInv(person, rs) ==
    rs = [t \in Slots |-> rs[t]] /\ \A t \in Slots : RunInv(person, rs[t])

\* The last answer was no refusal the gates rule out.
RefusalInv ==
    /\ refusal.verdict \in {"served", "refused", "unknown"}
    /\ EveryRequestHasARoute /\ OfferedIsServed

\* The invariant: WorkspaceSound, and what every handler rests on.
WorkspaceInv ==
    /\ who \in People
    /\ seen.holds \subseteq AllPermissionKeys \cup {seen.role}
    /\ screen \in Pages
    /\ RunsInv(who, runs)
    /\ RefusalInv
    /\ edits \in 0..MaxGrants /\ visits \in 0..MaxVisits

\* What the invariant of a handler says of its fields.
LEMMA RunKnown ==
    ASSUME NEW person, NEW run, RunInv(person, run)
    PROVE  /\ run.page \in Pages /\ run.goto \in {"payroll", "stay"}
           /\ IsFiniteSet(run.open)
           /\ \A q \in run.open : RouteOf[q.call] \in DOMAIN Asked
<1>1. PICK p \in Pages, goto \in {"payroll", "stay"}, now \in BOOLEAN : \E todo, open :
        run = RunOf(p, goto, now, todo, open) /\ StageInv(person, p, now, open)
  BY DEF RunInv
<1>2. PICK todo, open :
        run = RunOf(p, goto, now, todo, open) /\ StageInv(person, p, now, open)
  BY <1>1
<1>3. run.page = p /\ run.goto = goto /\ run.open = open
  BY <1>2, RunFields
<1>. QED
  BY <1>2, <1>3 DEF StageInv

\* A handler whose keys are current is served what is under way.
LEMMA CurrentIsServed ==
    ASSUME NEW person, NEW run, RunInv(person, run), NEW q \in run.open
    PROVE  run.current = TRUE => Served(person, run.page, q.call)
<1>1. PICK p \in Pages, goto \in {"payroll", "stay"}, now \in BOOLEAN : \E todo, open :
        run = RunOf(p, goto, now, todo, open) /\ StageInv(person, p, now, open)
  BY DEF RunInv
<1>2. PICK todo, open :
        run = RunOf(p, goto, now, todo, open) /\ StageInv(person, p, now, open)
  BY <1>1
<1>3. run.page = p /\ run.current = now /\ run.open = open
  BY <1>2, RunFields
<1>. QED
  BY <1>2, <1>3 DEF StageInv

\* The invariant is at least as strong as the property.
LEMMA SoundFromInv == WorkspaceInv => WorkspaceSound
<1>. SUFFICES ASSUME WorkspaceInv PROVE WorkspaceSound
  OBVIOUS
<1>1. \A s \in Slots : runs[s].page \in Pages /\ runs[s].goto \in Pages \cup {"stay"}
                       /\ IsFiniteSet(runs[s].open)
  BY RunKnown, PagesKnown DEF WorkspaceInv, RunsInv
<1>. QED
  BY <1>1 DEF WorkspaceInv, WorkspaceSound, WorkspaceTypeOK, RefusalInv

\* The handlers stay sound when one of them becomes another sound one.
LEMMA OneRunChanges ==
    ASSUME NEW person, NEW rs, RunsInv(person, rs), NEW s \in Slots, NEW run,
           RunInv(person, run)
    PROVE  RunsInv(person, [rs EXCEPT ![s] = run])
  BY DEF RunsInv

\* A step that is no refusal leaves nothing to explain.
LEMMA NothingRefused == refusal' = NoRefusal => RefusalInv'
  BY DEF NoRefusal, RefusalInv, EveryRequestHasARoute, OfferedIsServed

\* What the browser is told of anybody.
LEMMA ToldIsKnown ==
    ASSUME NEW person \in People
    PROVE  ToldOf(person).holds \subseteq AllPermissionKeys \cup {ToldOf(person).role}
<1>1. person.keys \in SUBSET AllPermissionKeys
  BY DEF People
<1>. QED
  BY <1>1, ExpandKnown DEF ToldOf

\* A handler that reached the end stays, or its next page loads.
LEMMA FinishingInv ==
    ASSUME WorkspaceInv, NEW s \in Slots, NEW run, RunInv(who, run), Finishing(s, run),
           who' = who
    PROVE  RunsInv(who, runs)' /\ screen' \in Pages
<1>1. CASE Over(run) /\ run.goto # "stay"
  <2>1. run.goto \in Pages
    BY <1>1, RunKnown, PagesKnown
  <2>2. screen' = run.goto /\ runs' = [runs EXCEPT ![s] = Loading(seen, run.goto)]
    BY <1>1 DEF Finishing
  <2>3. RunInv(who, Loading(seen, run.goto))
    BY <2>1, StartedIsFor, LoadingInv DEF WorkspaceInv
  <2>4. RunsInv(who, [runs EXCEPT ![s] = Loading(seen, run.goto)])
    BY <2>3, OneRunChanges DEF WorkspaceInv
  <2>. QED
    BY <2>1, <2>2, <2>4
<1>2. CASE ~(Over(run) /\ run.goto # "stay")
  <2>1. screen' = screen /\ runs' = [runs EXCEPT ![s] = run]
    BY <1>2 DEF Finishing
  <2>2. RunsInv(who, [runs EXCEPT ![s] = run])
    BY OneRunChanges DEF WorkspaceInv
  <2>. QED
    BY <2>1, <2>2 DEF WorkspaceInv
<1>. QED
  BY <1>1, <1>2

\* Opening a page keeps the invariant: its load starts sound.
LEMMA OpenPageInv ==
    ASSUME WorkspaceInv, NEW p \in Pages, OpenPage(p)
    PROVE  WorkspaceInv'
<1>1. PICK s \in Slots : runs' = [runs EXCEPT ![s] = Loading(seen, p)]
  BY DEF OpenPage
<1>2. RunInv(who, Loading(seen, p))
  BY StartedIsFor, LoadingInv DEF WorkspaceInv
<1>3. RunsInv(who, [runs EXCEPT ![s] = Loading(seen, p)])
  BY <1>2, OneRunChanges DEF WorkspaceInv
<1>4. who' = who /\ seen' = seen /\ screen' = p /\ edits' = edits
  BY DEF OpenPage
<1>5. visits' \in 0..MaxVisits
  BY WorkspaceAssumption DEF OpenPage, WorkspaceInv
<1>6. RefusalInv'
  BY NothingRefused DEF OpenPage
<1>. QED
  BY <1>1, <1>3, <1>4, <1>5, <1>6 DEF WorkspaceInv

\* Using a control keeps the invariant: it is shown, so what it sends fits.
LEMMA UseControlInv ==
    ASSUME WorkspaceInv, NEW control \in ControlsOf[screen], UseControl(control)
    PROVE  WorkspaceInv'
<1>. DEFINE goto == IF screen = "newBatch" THEN "payroll" ELSE "stay"
<1>1. PICK s \in Slots :
        runs' = [runs EXCEPT ![s] = Started(seen, screen, goto, control.steps)]
  BY DEF UseControl
<1>2. RunInv(who, Started(seen, screen, goto, control.steps))
  <2>1. screen \in Pages /\ who \in People /\ goto \in {"payroll", "stay"}
    BY DEF WorkspaceInv
  <2>2. StepsFit(screen, MenuGate[screen] \cup control.ask, control.steps)
    BY <2>1, EveryPageFits DEF PageFits, ControlFits
  <2>3. Shows(seen, control.ask)
    BY DEF UseControl
  <2>. HIDE DEF goto
  <2>4. RunInv(who, StartedFor(who, seen, screen, goto, control.steps))
    BY <2>1, <2>2, <2>3, StartedInv
  <2>. QED
    BY <2>4, StartedIsFor
<1>. HIDE DEF goto
<1>3. RunsInv(who, [runs EXCEPT ![s] = Started(seen, screen, goto, control.steps)])
  BY <1>2, OneRunChanges DEF WorkspaceInv
<1>4. who' = who /\ seen' = seen /\ screen' = screen /\ edits' = edits
  BY DEF UseControl
<1>5. visits' \in 0..MaxVisits
  BY WorkspaceAssumption DEF UseControl, WorkspaceInv
<1>6. RefusalInv'
  BY NothingRefused DEF UseControl
<1>. QED
  BY <1>1, <1>3, <1>4, <1>5, <1>6 DEF WorkspaceInv

\* Sending a stage keeps the invariant.
LEMMA SendInv ==
    ASSUME WorkspaceInv, NEW s \in Slots, Send(s)
    PROVE  WorkspaceInv'
<1>1. PICK dropped :
        Finishing(s, [runs[s] EXCEPT !.open = Head(runs[s].todo) \ dropped, !.todo = Tail(@)])
  BY DEF Send
<1>2. RunInv(who, runs[s])
  BY DEF WorkspaceInv, RunsInv
<1>3. RunInv(who, [runs[s] EXCEPT !.open = Head(runs[s].todo) \ dropped, !.todo = Tail(@)])
  BY <1>2, SentInv DEF Send
<1>4. /\ who' = who /\ seen' = seen /\ edits' = edits /\ visits' = visits
      /\ RefusalInv'
  BY NothingRefused DEF Send
<1>5. RunsInv(who, runs)' /\ screen' \in Pages
  BY <1>1, <1>3, <1>4, FinishingInv
<1>. QED
  BY <1>4, <1>5 DEF WorkspaceInv

\* An answer keeps the invariant: a refusal to a current handler was to be expected.
LEMMA AnswerInv ==
    ASSUME WorkspaceInv, NEW s \in Slots, NEW q \in runs[s].open, Answer(s, q)
    PROVE  WorkspaceInv'
<1>. DEFINE verdict == Verdict(who, RouteOf[q.call])
<1>1. RunInv(who, runs[s])
  BY DEF WorkspaceInv, RunsInv
<1>2. RunInv(who, Settled(runs[s], q, verdict = "served"))
  BY <1>1, SettledInv
<1>3. /\ who' = who /\ seen' = seen /\ edits' = edits /\ visits' = visits
      /\ Finishing(s, Settled(runs[s], q, verdict = "served"))
  BY DEF Answer
<1>4. RunsInv(who, runs)' /\ screen' \in Pages
  BY <1>2, <1>3, FinishingInv
<1>5. RefusalInv'
  <2>1. CASE verdict = "served"
    <3>1. refusal' = NoRefusal
      BY <2>1 DEF Answer
    <3>. QED
      BY <3>1, NothingRefused
  <2>2. CASE verdict # "served"
    <3>1. RouteOf[q.call] \in DOMAIN Asked
      BY <1>1, RunKnown
    <3>2. verdict = "refused"
      BY <2>2, <3>1 DEF Verdict
    <3>3. runs[s].current = TRUE => q.call \in SentUnchecked(runs[s].page)
      BY <1>1, <2>2, CurrentIsServed DEF Served
    <3>4. refusal' = [page |-> runs[s].page, call |-> q.call, verdict |-> verdict,
                      current |-> runs[s].current]
      BY <2>2 DEF Answer
    <3>5. PICK now : now = runs[s].current
      OBVIOUS
    <3>. HIDE DEF verdict
    <3>6. /\ refusal'.verdict = "refused" /\ refusal'.call = q.call
          /\ refusal'.page = runs[s].page /\ refusal'.current = runs[s].current
      BY <3>2, <3>4
    <3>7. OfferedIsServed'
      BY <3>3, <3>6 DEF OfferedIsServed
    <3>. QED
      BY <3>6, <3>7 DEF RefusalInv, EveryRequestHasARoute
  <2>. QED
    BY <2>1, <2>2
<1>. QED
  BY <1>3, <1>4, <1>5 DEF WorkspaceInv

\* A request that fails keeps the invariant.
LEMMA FailInv ==
    ASSUME WorkspaceInv, NEW s \in Slots, NEW q, Fail(s, q)
    PROVE  WorkspaceInv'
<1>1. RunInv(who, runs[s])
  BY DEF WorkspaceInv, RunsInv
<1>2. RunInv(who, Settled(runs[s], q, FALSE))
  <2>1. PICK no : no = FALSE
    OBVIOUS
  <2>2. RunInv(who, Settled(runs[s], q, no))
    BY <1>1, SettledInv
  <2>. QED
    BY <2>1, <2>2, Zenon
<1>3. /\ who' = who /\ seen' = seen /\ edits' = edits /\ visits' = visits
      /\ RefusalInv'
  BY NothingRefused DEF Fail
<1>4. Finishing(s, Settled(runs[s], q, FALSE))
  BY DEF Fail
<1>5. RunsInv(who, runs)' /\ screen' \in Pages
  BY <1>2, <1>3, <1>4, FinishingInv
<1>. QED
  BY <1>3, <1>5 DEF WorkspaceInv

\* A change of keys keeps the invariant: no handler is current any more.
LEMMA GrantsChangeInv ==
    ASSUME WorkspaceInv, NEW k \in Toggled, GrantsChange(k)
    PROVE  WorkspaceInv'
<1>1. who' \in People
  <2>1. PICK role, keys : /\ who = [role |-> role, keys |-> keys]
                          /\ keys \in SUBSET AllPermissionKeys
                          /\ role \in {"SUPER_ADMIN", "BRANCH_MANAGER", "CUSTOM"} \cup
                                DOMAIN StaffKeys
    BY DEF WorkspaceInv, People
  <2>2. PICK new : new = (IF k \in keys THEN keys \ {k} ELSE keys \cup {k})
    OBVIOUS
  <2>3. new \in SUBSET AllPermissionKeys
    BY <2>1, <2>2, WorkspaceAssumption
  <2>4. who' = [role |-> role, keys |-> new]
    BY <2>1, <2>2 DEF GrantsChange
  <2>. QED
    BY <2>1, <2>3, <2>4 DEF People
<1>2. RunsInv(who, runs)'
  <2>1. \A s \in Slots : RunInv(who', [runs[s] EXCEPT !.current = FALSE])
    BY OutdatedInv DEF WorkspaceInv, RunsInv
  <2>2. runs' = [s \in Slots |-> [runs[s] EXCEPT !.current = FALSE]]
    BY DEF GrantsChange
  <2>3. \A s \in Slots : runs'[s] = [runs[s] EXCEPT !.current = FALSE]
    BY <2>2, Zenon
  <2>4. \A s \in Slots : RunInv(who', runs'[s])
    BY <2>1, <2>3, Zenon
  <2>5. runs' = [s \in Slots |-> runs'[s]]
    BY <2>2, Zenon
  <2>. QED
    BY <2>4, <2>5 DEF RunsInv
<1>3. edits' \in 0..MaxGrants
  BY WorkspaceAssumption DEF GrantsChange, WorkspaceInv
<1>4. RefusalInv' /\ seen' = seen /\ screen' = screen /\ visits' = visits
  BY NothingRefused DEF GrantsChange
<1>. QED
  BY <1>1, <1>2, <1>3, <1>4 DEF WorkspaceInv

\* The browser catching up keeps the invariant, and turns nobody away to nowhere.
LEMMA CatchUpInv ==
    ASSUME WorkspaceInv, CatchUp
    PROVE  WorkspaceInv'
<1>1. /\ seen' = ToldOf(who) /\ who' = who /\ edits' = edits /\ visits' = visits
      /\ RefusalInv'
  BY NothingRefused DEF CatchUp
<1>2. seen'.holds \subseteq AllPermissionKeys \cup {seen'.role}
  BY <1>1, ToldIsKnown DEF WorkspaceInv
<1>3. screen' \in Pages
  <2>1. screen' = screen \/ screen' = TurnedAwayTo(screen)
    BY DEF CatchUp, PageAfter
  <2>2. TurnedAwayTo(screen) \in Pages
    BY PagesKnown DEF TurnedAwayTo
  <2>. QED
    BY <2>1, <2>2 DEF WorkspaceInv
<1>4. RunsInv(who, runs)'
  <2>1. RunInv(who, Loading(seen', screen'))
    BY <1>3, StartedIsFor, LoadingInv DEF WorkspaceInv
  <2>2. ASSUME NEW s \in Slots, runs' = [runs EXCEPT ![s] = Loading(seen', screen')]
        PROVE  RunsInv(who, runs')
    BY <2>1, <2>2, OneRunChanges DEF WorkspaceInv
  <2>3. runs' = runs \/ \E s \in Slots : runs' = [runs EXCEPT ![s] = Loading(seen', screen')]
    BY DEF CatchUp
  <2>4. RunsInv(who, runs')
    BY <2>2, <2>3 DEF WorkspaceInv
  <2>. QED
    BY <2>4, <1>1
<1>. QED
  BY <1>1, <1>2, <1>3, <1>4 DEF WorkspaceInv

\* The workspace starts sound, whoever opens it.
LEMMA WorkspaceStarts == WorkspaceInit(People) => WorkspaceInv
<1>. SUFFICES ASSUME WorkspaceInit(People) PROVE WorkspaceInv
  OBVIOUS
<1>1. RunsInv(who, runs)
  BY NoRunInv DEF WorkspaceInit, RunsInv
<1>2. seen.holds \subseteq AllPermissionKeys \cup {seen.role}
  BY ToldIsKnown DEF WorkspaceInit
<1>3. RefusalInv
  BY DEF WorkspaceInit, NoRefusal, RefusalInv, EveryRequestHasARoute, OfferedIsServed
<1>. QED
  BY <1>1, <1>2, <1>3, PagesKnown, WorkspaceAssumption DEF WorkspaceInit, WorkspaceInv

\* The pages of the browser and the guards of the server fit together, whoever
\* is at work, however their keys change and however many handlers run.
THEOREM PagesFitGuards == WorkspaceSpec => []WorkspaceSound
<1>1. WorkspaceInit(People) => WorkspaceInv
  BY WorkspaceStarts
<1>2. WorkspaceInv /\ [HandlerStep \/ FailStep \/ PersonStep \/ AccessStep]_workspaceVars
        => WorkspaceInv'
  <2>. SUFFICES ASSUME WorkspaceInv,
                       [HandlerStep \/ FailStep \/ PersonStep \/ AccessStep]_workspaceVars
                PROVE  WorkspaceInv'
    OBVIOUS
  <2>1. CASE HandlerStep
    BY <2>1, SendInv, AnswerInv DEF HandlerStep
  <2>2. CASE FailStep
    BY <2>2, FailInv DEF FailStep
  <2>3. CASE PersonStep
    BY <2>3, OpenPageInv, UseControlInv DEF PersonStep
  <2>4. CASE AccessStep
    BY <2>4, CatchUpInv, GrantsChangeInv DEF AccessStep
  <2>5. CASE UNCHANGED workspaceVars
    BY <2>5 DEF workspaceVars, WorkspaceInv, RefusalInv, EveryRequestHasARoute, OfferedIsServed
  <2>. QED
    BY <2>1, <2>2, <2>3, <2>4, <2>5
<1>3. WorkspaceInv => WorkspaceSound
  BY SoundFromInv
<1>. QED
  BY <1>1, <1>2, <1>3, PTL DEF WorkspaceSpec
-----------------------------------------------------------------------------
(* What is sent unchecked is refused to somebody *)

\* Who holds these keys or this role gets past the clauses.
Meets(held, clauses) == \A keys \in clauses : keys \cap held # {}

\* A handler sends f for who holds these.
SentFor(held, steps, f) ==
    \E i \in DOMAIN steps : \E q \in steps[i] : q.call = f /\ Meets(held, q.ask)

\* The page, or a control it shows, sends f for who holds these.
PageSends(held, p, f) ==
    \/ SentFor(held, LoadsOf[p], f)
    \/ \E control \in ControlsOf[p] :
         Meets(held, control.ask) /\ SentFor(held, control.steps, f)

\* Somebody is offered page p, the page sends f for them, and f is refused.
RefusedOn(p, f) ==
    \E person \in People :
      /\ Offered(ToldOf(person), p)
      /\ PageSends(ToldOf(person).holds, p, f)
      /\ Verdict(person, RouteOf[f]) = "refused"

\* More keys get past the same gates.
LEMMA MeetsMore ==
    ASSUME NEW held, NEW more, held \subseteq more, NEW clauses, Meets(held, clauses)
    PROVE  Meets(more, clauses)
  BY DEF Meets

\* Nobody is shown less for holding more.
LEMMA SendsMore ==
    ASSUME NEW held, NEW more, held \subseteq more, NEW p, NEW f, PageSends(held, p, f)
    PROVE  PageSends(more, p, f)
<1>1. \A clauses : Meets(held, clauses) => Meets(more, clauses)
  BY MeetsMore
<1>2. \A steps : SentFor(held, steps, f) => SentFor(more, steps, f)
  BY <1>1 DEF SentFor
<1>. QED
  BY <1>1, <1>2, Zenon DEF PageSends

\* How a request comes to be refused: its route asks for keys that what the
\* page was shown for does not imply.
LEMMA RefusedTo ==
    ASSUME NEW p \in Pages, NEW role \in {"CUSTOM", "BRANCH_MANAGER"},
           NEW keys \in SUBSET AllPermissionKeys,
           Meets(keys \cup {role}, MenuGate[p]), Meets(keys \cup {role}, PageGate[p]),
           NEW f, PageSends(keys \cup {role}, p, f),
           NEW r, NEW any, Guarded(f, r, any), any # {}, any \cap Expand(keys) = {}
    PROVE  RefusedOn(p, f)
<1>. DEFINE person == [role |-> role, keys |-> keys]
            held == keys \cup {role}
            holds == Expand(keys) \cup {role}
<1>1. person \in People /\ person.role = role /\ person.keys = keys
  BY DEF People
<1>2. keys \subseteq Expand(keys)
  BY ExpandIsWider, InWider
<1>3. ToldOf(person).holds = holds /\ ToldOf(person).role = role
  BY <1>1 DEF ToldOf
<1>. HIDE DEF person
<1>4. Offered(ToldOf(person), p)
  <2>1. Meets(holds, MenuGate[p]) /\ Meets(holds, PageGate[p])
    BY <1>2, MeetsMore
  <2>. QED
    BY <2>1, <1>3 DEF Offered, Shows, Meets
<1>5. PageSends(ToldOf(person).holds, p, f)
  BY <1>2, <1>3, SendsMore
<1>6. Verdict(person, RouteOf[f]) = "refused"
  BY <1>1, GuardFound DEF Verdict, MayUse
<1>. QED
  BY <1>1, <1>4, <1>5, <1>6 DEF RefusedOn

\* A key that implies nothing more is all there is.
LEMMA ExpandPlain ==
    ASSUME NEW keys, \A p \in ImpliedPermissions : p[1] \notin keys
    PROVE  Expand(keys) = keys
<1>1. Wider(keys) = keys
  BY InWider
<1>. QED
  BY <1>1, ExpandIsWider

\* What a request calls and asks for.
LEMMA RequestFields ==
    ASSUME NEW f
    PROVE  /\ Must(f).call = f /\ Must(f).ask = {}
           /\ Caught(f).call = f /\ Caught(f).ask = {}
<1>1. PICK yes, no, none : yes = TRUE /\ no = FALSE /\ none = {}
  OBVIOUS
<1>2. Must(f) = [call |-> f, ask |-> none, must |-> yes, skip |-> no]
  BY <1>1, Zenon DEF Must
<1>3. Caught(f) = [[call |-> f, ask |-> none, must |-> yes, skip |-> no] EXCEPT !.must = no]
  BY <1>1, Zenon DEF Must, Caught
<1>4. Caught(f) = [call |-> f, ask |-> none, must |-> no, skip |-> no]
  BY <1>3, WithField, Zenon
<1>. QED
  BY <1>1, <1>2, <1>4

\* A plain request of a stage is sent for everybody.
LEMMA PlainSent ==
    ASSUME NEW held, NEW steps, NEW i \in DOMAIN steps, NEW f,
           Must(f) \in steps[i] \/ Caught(f) \in steps[i]
    PROVE  SentFor(held, steps, f)
  BY RequestFields DEF SentFor, Meets

\* Caught requests are requests.
LEMMA RequestIs ==
    ASSUME NEW f
    PROVE  \E c, a, m, s : Caught(f) = [call |-> c, ask |-> a, must |-> m, skip |-> s]
<1>1. PICK yes, no, none : yes = TRUE /\ no = FALSE /\ none = {}
  OBVIOUS
<1>2. Caught(f) = [[call |-> f, ask |-> none, must |-> yes, skip |-> no] EXCEPT !.must = no]
  BY <1>1, Zenon DEF Must, Caught
<1>3. Caught(f) = [call |-> f, ask |-> none, must |-> no, skip |-> no]
  BY <1>2, WithField, Zenon
<1>. QED
  BY <1>3, Zenon

\* A request behind a key is sent for who holds the key.
LEMMA AskedSent ==
    ASSUME NEW held, NEW steps, NEW i \in DOMAIN steps, NEW f, NEW keys, keys \cap held # {},
           If(keys, Caught(f)) \in steps[i]
    PROVE  SentFor(held, steps, f)
<1>1. PICK c, a, m, s : Caught(f) = [call |-> c, ask |-> a, must |-> m, skip |-> s]
  BY RequestIs
<1>2. If(keys, Caught(f)) = [call |-> c, ask |-> a \cup {keys}, must |-> m, skip |-> s]
  BY <1>1 DEF If
<1>3. c = f /\ a = {}
  BY <1>1, RequestFields
<1>4. If(keys, Caught(f)).call = f /\ If(keys, Caught(f)).ask = {keys}
  BY <1>2, <1>3
<1>. QED
  BY <1>4 DEF SentFor, Meets

\* The first request of a control is sent for who is shown the control.
LEMMA FirstSent ==
    ASSUME NEW held, NEW p, NEW f, NEW ask, Meets(held, ask), NEW rest, IsSeq(rest),
           Control(ask, <<{Must(f)}>> \o rest) \in ControlsOf[p]
    PROVE  PageSends(held, p, f)
<1>. DEFINE steps == <<{Must(f)}>> \o rest
<1>1. PICK S : rest \in Seq(S)
  BY DEF IsSeq
<1>2. 1 \in DOMAIN steps /\ steps[1] = {Must(f)}
  BY <1>1
<1>3. Control(ask, steps).ask = ask /\ Control(ask, steps).steps = steps
  BY DEF Control
<1>4. SentFor(held, steps, f)
  <2>. HIDE DEF steps
  <2>. QED
    BY <1>2, PlainSent
<1>. HIDE DEF steps
<1>. QED
  BY <1>3, <1>4 DEF PageSends, steps
\* What a control sends, the page sends.
LEMMA ControlSends ==
    ASSUME NEW held, NEW p, NEW f, NEW ask, Meets(held, ask), NEW steps,
           Control(ask, steps) \in ControlsOf[p], SentFor(held, steps, f)
    PROVE  PageSends(held, p, f)
<1>1. Control(ask, steps).ask = ask /\ Control(ask, steps).steps = steps
  BY DEF Control
<1>. QED
  BY <1>1 DEF PageSends

\* The dashboard lists who is waiting for approval to approvers who may not
\* read users.
LEMMA DashboardRefuses == \A f \in SentUnchecked("dashboard") : RefusedOn("dashboard", f)
<1>. DEFINE keys == {"employees.read", "users.approve"}
            held == keys \cup {"CUSTOM"}
            f == "getPendingUsers"
<1>1. SentUnchecked("dashboard") = {f}
  BY DEF SentUnchecked
<1>2. "dashboard" \in Pages /\ keys \subseteq AllPermissionKeys
  BY DEF Pages, LoadsOf, AllPermissionKeys, PeopleKeys
<1>3. Meets(held, MenuGate["dashboard"]) /\ Meets(held, PageGate["dashboard"])
  BY <1>2 DEF Meets, MenuGate, PageGate
<1>4. PageSends(held, "dashboard", f)
  <2>. DEFINE one == {"employees.read", "payroll.read", "payroll.reports", "users.read",
                      "attendance.read"}
              two == {"users.approve", "employees.approve"}
  <2>1. PICK q : q = If(one, If(two, Caught(f)))
    OBVIOUS
  <2>2. q.call = f /\ q.ask = {two, one}
    <3>1. Caught(f).call = f /\ Caught(f).ask = {}
      BY RequestFields
    <3>2. PICK c, a, m, s : Caught(f) = [call |-> c, ask |-> a, must |-> m, skip |-> s]
      BY RequestIs
    <3>. HIDE DEF one, two, f
    <3>3. If(two, Caught(f)) = [call |-> c, ask |-> a \cup {two}, must |-> m, skip |-> s]
      BY <3>2 DEF If
    <3>4. q = [call |-> c, ask |-> (a \cup {two}) \cup {one}, must |-> m, skip |-> s]
      BY <2>1, <3>3 DEF If
    <3>5. c = f /\ a = {}
      BY <3>1, <3>2
    <3>. QED
      BY <3>4, <3>5
  <2>3. 3 \in DOMAIN LoadsOf["dashboard"] /\ q \in LoadsOf["dashboard"][3]
    BY <2>1 DEF LoadsOf, DashboardLoads
  <2>4. Meets(held, q.ask)
    BY <2>2 DEF Meets
  <2>. QED
    BY <2>2, <2>3, <2>4 DEF PageSends, SentFor
<1>5. Expand(keys) = keys
  BY ExpandPlain DEF ImpliedPermissions
<1>6. Guarded(f, "GET:users/pending", {"users.read"}) /\ {"users.read"} \cap Expand(keys) = {}
  BY <1>5, UsersGuards
<1>. HIDE DEF keys, f
<1>7. RefusedOn("dashboard", f)
  BY <1>2, <1>3, <1>4, <1>6, RefusedTo
<1>. QED
  BY <1>1, <1>7
\* The route of f asks for keys that the ones held do not imply.
Withheld(keys, f) ==
    \E r, any : Guarded(f, r, any) /\ any # {} /\ any \cap Expand(keys) = {}

\* What one person may not send.
LEMMA OneIsRefused ==
    ASSUME NEW p \in Pages, NEW role \in {"CUSTOM", "BRANCH_MANAGER"},
           NEW keys \in SUBSET AllPermissionKeys,
           Meets(keys \cup {role}, MenuGate[p]), Meets(keys \cup {role}, PageGate[p]),
           NEW f, PageSends(keys \cup {role}, p, f), Withheld(keys, f)
    PROVE  RefusedOn(p, f)
  BY RefusedTo DEF Withheld

\* Suspending, reactivating, avatars, roles, overrides and the list of
\* permissions are sent for who may read users, manage roles and assign
\* permissions, and need other keys.
LEMMA UsersRefuses == \A f \in SentUnchecked("users") : RefusedOn("users", f)
<1>. DEFINE keys == {"users.read", "roles.manage", "permissions.assign"}
            held == keys \cup {"CUSTOM"}
<1>1. SentUnchecked("users")
        = {"suspendUser", "reactivateUser", "uploadUserAvatar", "assignUserRoles",
           "updateUserPermissionOverride", "getPermissions"}
  BY DEF SentUnchecked
<1>2. "users" \in Pages /\ keys \subseteq AllPermissionKeys
  BY DEF Pages, LoadsOf, AllPermissionKeys, PeopleKeys
<1>3. Meets(held, MenuGate["users"]) /\ Meets(held, PageGate["users"])
  BY <1>2 DEF Meets, MenuGate, PageGate, OneOf
<1>4. IsSeq(UsersLoads) /\ Meets(held, {})
      /\ Meets(held, OneOf({"permissions.assign"}))
      /\ Meets(held, OneOf({"roles.manage", "roles.manage_own_location", "users.update"}))
  BY UsersLoadsFit DEF StepsFit, Meets, OneOf
<1>5. Expand(keys) = keys
  BY ExpandPlain DEF ImpliedPermissions
<1>6. \A f \in SentUnchecked("users") : Withheld(keys, f)
  BY <1>1, <1>5, UsersGuards DEF Withheld
<1>7. PageSends(held, "users", "getPermissions")
  <2>1. 3 \in DOMAIN LoadsOf["users"] /\
        If({"permissions.read", "permissions.assign"}, Caught("getPermissions"))
          \in LoadsOf["users"][3]
    BY DEF LoadsOf, UsersLoads
  <2>2. {"permissions.read", "permissions.assign"} \cap held # {}
    OBVIOUS
  <2>. HIDE DEF held
  <2>. QED
    BY <2>1, <2>2, AskedSent DEF PageSends
<1>8. PageSends(held, "users", "updateUserPermissionOverride")
  <2>. DEFINE steps == <<{Must("updateUserPermissionOverride")}>>
  <2>1. Control(OneOf({"permissions.assign"}), steps) \in ControlsOf["users"]
    BY DEF ControlsOf, UsersGrantControls
  <2>2. SentFor(held, steps, "updateUserPermissionOverride")
    BY PlainSent
  <2>. HIDE DEF held, steps
  <2>. QED
    BY <1>4, <2>1, <2>2, ControlSends
<1>9. PageSends(held, "users", "uploadUserAvatar")
  <2>. DEFINE steps == <<{Must("uploadUserAvatar")}>>
  <2>1. Control({}, steps) \in ControlsOf["users"]
    BY DEF ControlsOf, UsersStatusControls
  <2>2. SentFor(held, steps, "uploadUserAvatar")
    BY PlainSent
  <2>. HIDE DEF held, steps
  <2>. QED
    BY <1>4, <2>1, <2>2, ControlSends
<1>10. /\ PageSends(held, "users", "suspendUser") /\ PageSends(held, "users", "reactivateUser")
       /\ PageSends(held, "users", "assignUserRoles")
  <2>1. /\ Control({}, <<{Must("suspendUser")}>> \o UsersLoads) \in ControlsOf["users"]
        /\ Control({}, <<{Must("reactivateUser")}>> \o UsersLoads) \in ControlsOf["users"]
        /\ Control(OneOf({"roles.manage", "roles.manage_own_location", "users.update"}),
                   <<{Must("assignUserRoles")}>> \o UsersLoads) \in ControlsOf["users"]
    BY DEF ControlsOf, UsersStatusControls, UsersGrantControls
  <2>. HIDE DEF held
  <2>. QED
    BY <1>4, <2>1, FirstSent
<1>11. \A f \in SentUnchecked("users") : PageSends(held, "users", f)
  BY <1>1, <1>7, <1>8, <1>9, <1>10
<1>. HIDE DEF keys
<1>. QED
  BY <1>2, <1>3, <1>6, <1>11, OneIsRefused

\* An employee's pay, allowances, deductions and attendance, and the lists the
\* form needs, are sent for who may read and update employees.
LEMMA EmployeesRefuses == \A f \in SentUnchecked("employees") : RefusedOn("employees", f)
<1>. DEFINE keys == {"employees.read", "employees.update"}
            held == keys \cup {"CUSTOM"}
            loaded == {"getAllowanceTypes", "getEmploymentCategories", "getPositions",
                       "getMonthlyTaxes"}
            details == {"getActivePaymentStructureByEmployee", "getAllowances",
                        "getEmployeeDeductions", "getTimeRecordsByEmployee"}
            written == {"createAllowance", "updateAllowance", "deactivateAllowance"}
<1>1. SentUnchecked("employees") = loaded \cup details \cup written
  BY DEF SentUnchecked
<1>2. "employees" \in Pages /\ keys \subseteq AllPermissionKeys
  BY DEF Pages, LoadsOf, AllPermissionKeys, PeopleKeys
<1>3. Meets(held, MenuGate["employees"]) /\ Meets(held, PageGate["employees"])
  BY <1>2 DEF Meets, MenuGate, PageGate, OneOf
<1>4. Meets(held, {}) /\ Meets(held, OneOf({"employees.update"}))
  BY DEF Meets, OneOf
<1>5. Expand(keys) = keys
  BY ExpandPlain DEF ImpliedPermissions
<1>6. \A f \in loaded \cup details \cup written : Withheld(keys, f)
  BY <1>5, EmployeesGuards, PayGuards, PositionsGuards DEF Withheld
<1>7. \A f \in loaded : PageSends(held, "employees", f)
  <2>1. /\ 1 \in DOMAIN LoadsOf["employees"]
        /\ \A f \in loaded : Must(f) \in LoadsOf["employees"][1]
                             \/ Caught(f) \in LoadsOf["employees"][1]
    BY DEF LoadsOf, EmployeesLoads
  <2>. HIDE DEF held, loaded
  <2>. QED
    BY <2>1, PlainSent DEF PageSends
<1>8. \A f \in details : PageSends(held, "employees", f)
  <2>. DEFINE steps == <<{Caught("getActivePaymentStructureByEmployee"), Caught("getAllowances"),
                    Caught("getEmployeeDeductions"), Caught("getTimeRecordsByEmployee")}>>
  <2>1. Control({}, steps) \in ControlsOf["employees"]
    BY DEF ControlsOf, EmployeesDetails
  <2>2. 1 \in DOMAIN steps /\ \A f \in details : Caught(f) \in steps[1]
    OBVIOUS
  <2>. HIDE DEF held, steps, details
  <2>. QED
    BY <1>4, <2>1, <2>2, PlainSent, ControlSends
<1>9. \A f \in written : PageSends(held, "employees", f)
  <2>1. ASSUME NEW f \in written PROVE PageSends(held, "employees", f)
    <3>. DEFINE steps == <<{Must(f)}, {Must("getAllowances")}>>
    <3>1. Control(OneOf({"employees.update"}), steps) \in ControlsOf["employees"]
      BY DEF ControlsOf, EmployeesAllowances
    <3>2. 1 \in DOMAIN steps /\ Must(f) \in steps[1]
      OBVIOUS
    <3>. HIDE DEF held, steps, written
    <3>. QED
      BY <1>4, <3>1, <3>2, PlainSent, ControlSends
  <2>. QED
    BY <2>1
<1>10. \A f \in SentUnchecked("employees") : PageSends(held, "employees", f) /\ Withheld(keys, f)
  BY <1>1, <1>6, <1>7, <1>8, <1>9
<1>. HIDE DEF keys
<1>. QED
  BY <1>2, <1>3, <1>10, OneIsRefused
\* The page of positions loads types of benefits and taxes for who may only read
\* positions.
LEMMA PositionsRefuses == \A f \in SentUnchecked("positions") : RefusedOn("positions", f)
<1>. DEFINE keys == {"positions.read"}
            held == keys \cup {"CUSTOM"}
            some == {"getDeductionTypes", "getAllowanceTypes", "getMonthlyTaxes"}
<1>1. SentUnchecked("positions") = some
  BY DEF SentUnchecked
<1>2. "positions" \in Pages /\ keys \subseteq AllPermissionKeys
  BY DEF Pages, LoadsOf, AllPermissionKeys, PeopleKeys, PayKeys, OtherKeys
<1>3. Meets(held, MenuGate["positions"]) /\ Meets(held, PageGate["positions"])
  BY <1>2 DEF Meets, MenuGate, PageGate, OneOf, Management
<1>4. Expand(keys) = keys
  BY ExpandPlain DEF ImpliedPermissions
<1>5. \A f \in some : Withheld(keys, f)
  BY <1>4, PayGuards DEF Withheld
<1>6. \A f \in some : PageSends(held, "positions", f)
  <2>1. /\ 1 \in DOMAIN LoadsOf["positions"]
        /\ \A f \in some :
              Must(f) \in LoadsOf["positions"][1] \/ Caught(f) \in LoadsOf["positions"][1]
    BY DEF LoadsOf, PositionsLoads
  <2>. HIDE DEF held, some
  <2>. QED
    BY <2>1, PlainSent DEF PageSends
<1>. HIDE DEF keys
<1>. QED
  BY <1>1, <1>2, <1>3, <1>5, <1>6, OneIsRefused

\* The roster of a branch asks for users and employees for who may read neither.
LEMMA LocationsRefuses == \A f \in SentUnchecked("locations") : RefusedOn("locations", f)
<1>. DEFINE keys == {"branches.read_all", "payroll.read"}
            held == keys \cup {"CUSTOM"}
            some == {"getUsers", "getEmployees"}
<1>1. SentUnchecked("locations") = some
  BY DEF SentUnchecked
<1>2. "locations" \in Pages /\ keys \subseteq AllPermissionKeys
  BY DEF Pages, LoadsOf, AllPermissionKeys, PeopleKeys, PayKeys, OtherKeys
<1>3. Meets(held, MenuGate["locations"]) /\ Meets(held, PageGate["locations"])
  BY <1>2 DEF Meets, MenuGate, PageGate, OneOf, Management
<1>4. Expand(keys) = keys
  BY ExpandPlain DEF ImpliedPermissions
<1>5. \A f \in some : Withheld(keys, f)
  BY <1>4, UsersGuards, EmployeesGuards DEF Withheld
<1>6. \A f \in some : PageSends(held, "locations", f)
  <2>. DEFINE steps == <<{Must("getUsers"), Must("getEmployees")}>>
  <2>1. Control({}, steps) \in ControlsOf["locations"]
    BY DEF ControlsOf, LocationsRoster
  <2>2. 1 \in DOMAIN steps /\ \A f \in some : Must(f) \in steps[1]
    OBVIOUS
  <2>3. Meets(held, {})
    BY DEF Meets
  <2>. HIDE DEF held, some, steps
  <2>. QED
    BY <2>1, <2>2, <2>3, PlainSent, ControlSends
<1>. HIDE DEF keys
<1>. QED
  BY <1>1, <1>2, <1>3, <1>5, <1>6, OneIsRefused

\* So does the roster of a department.
LEMMA DepartmentsRefuses == \A f \in SentUnchecked("departments") : RefusedOn("departments", f)
<1>. DEFINE keys == {"departments.manage", "payroll.read"}
            held == keys \cup {"CUSTOM"}
            some == {"getUsers", "getEmployees"}
<1>1. SentUnchecked("departments") = some
  BY DEF SentUnchecked
<1>2. "departments" \in Pages /\ keys \subseteq AllPermissionKeys
  BY DEF Pages, LoadsOf, AllPermissionKeys, PeopleKeys, PayKeys, OtherKeys
<1>3. Meets(held, MenuGate["departments"]) /\ Meets(held, PageGate["departments"])
  BY <1>2 DEF Meets, MenuGate, PageGate, OneOf, Management
<1>4. Expand(keys) = keys
  BY ExpandPlain DEF ImpliedPermissions
<1>5. \A f \in some : Withheld(keys, f)
  BY <1>4, UsersGuards, EmployeesGuards DEF Withheld
<1>6. \A f \in some : PageSends(held, "departments", f)
  <2>. DEFINE steps == <<{Must("getUsers"), Must("getEmployees")}>>
  <2>1. Control({}, steps) \in ControlsOf["departments"]
    BY DEF ControlsOf, DepartmentsRoster
  <2>2. 1 \in DOMAIN steps /\ \A f \in some : Must(f) \in steps[1]
    OBVIOUS
  <2>3. Meets(held, {})
    BY DEF Meets
  <2>. HIDE DEF held, some, steps
  <2>. QED
    BY <2>1, <2>2, <2>3, PlainSent, ControlSends
<1>. HIDE DEF keys
<1>. QED
  BY <1>1, <1>2, <1>3, <1>5, <1>6, OneIsRefused

\* Attendance loads employees and positions for who may only read attendance.
LEMMA AttendanceRefuses == \A f \in SentUnchecked("attendance") : RefusedOn("attendance", f)
<1>. DEFINE keys == {"attendance.read"}
            held == keys \cup {"CUSTOM"}
            some == {"getEmployees", "getPositions"}
<1>1. SentUnchecked("attendance") = some
  BY DEF SentUnchecked
<1>2. "attendance" \in Pages /\ keys \subseteq AllPermissionKeys
  BY DEF Pages, LoadsOf, AllPermissionKeys, PeopleKeys, PayKeys, OtherKeys
<1>3. Meets(held, MenuGate["attendance"]) /\ Meets(held, PageGate["attendance"])
  BY <1>2 DEF Meets, MenuGate, PageGate, OneOf, Management
<1>4. Expand(keys) = keys
  BY ExpandPlain DEF ImpliedPermissions
<1>5. \A f \in some : Withheld(keys, f)
  BY <1>4, EmployeesGuards, PositionsGuards DEF Withheld
<1>6. \A f \in some : PageSends(held, "attendance", f)
  <2>1. /\ 1 \in DOMAIN LoadsOf["attendance"]
        /\ \A f \in some :
              Must(f) \in LoadsOf["attendance"][1] \/ Caught(f) \in LoadsOf["attendance"][1]
    BY DEF LoadsOf, AttendanceLoads
  <2>. HIDE DEF held, some
  <2>. QED
    BY <2>1, PlainSent DEF PageSends
<1>. HIDE DEF keys
<1>. QED
  BY <1>1, <1>2, <1>3, <1>5, <1>6, OneIsRefused

\* The review panel trusts the role of a branch manager, the server asks for keys.
LEMMA PayrollRefuses == \A f \in SentUnchecked("payroll") : RefusedOn("payroll", f)
<1>. DEFINE keys == {"payroll.read"}
            held == keys \cup {"BRANCH_MANAGER"}
            some == {"approvePayrollBatch", "rejectPayrollBatch", "rejectPayrollItem",
                  "getPositions"}
<1>1. SentUnchecked("payroll") = some
  BY DEF SentUnchecked
<1>2. "payroll" \in Pages /\ keys \subseteq AllPermissionKeys
  BY DEF Pages, LoadsOf, AllPermissionKeys, PeopleKeys, PayKeys, OtherKeys
<1>3. Meets(held, MenuGate["payroll"]) /\ Meets(held, PageGate["payroll"])
  BY <1>2 DEF Meets, MenuGate, PageGate, OneOf, Management
<1>4. Expand(keys) = keys
  BY ExpandPlain DEF ImpliedPermissions
<1>5. \A f \in some : Withheld(keys, f)
  BY <1>4, PayrollGuards, PositionsGuards DEF Withheld
<1>6. \A f \in some : PageSends(held, "payroll", f)
  <2>1. PageSends(held, "payroll", "getPositions")
    <3>1. 1 \in DOMAIN LoadsOf["payroll"] /\ Caught("getPositions") \in LoadsOf["payroll"][1]
      BY DEF LoadsOf, PayrollLoads
    <3>. HIDE DEF held
    <3>. QED
      BY <3>1, PlainSent DEF PageSends
  <2>2. Meets(held, OneOf({"BRANCH_MANAGER"}))
    BY DEF Meets, OneOf
  <2>3. ASSUME NEW f \in {"approvePayrollBatch", "rejectPayrollBatch"}
        PROVE  PageSends(held, "payroll", f)
    <3>. DEFINE steps == <<{Must(f)}, {Caught("getPayrollBatches")}>>
    <3>1. Control(OneOf({"BRANCH_MANAGER"}), steps) \in ControlsOf["payroll"]
      BY DEF ControlsOf, PayrollPanel
    <3>2. 1 \in DOMAIN steps /\ Must(f) \in steps[1]
      OBVIOUS
    <3>. HIDE DEF held, steps
    <3>. QED
      BY <2>2, <3>1, <3>2, PlainSent, ControlSends
  <2>4. PageSends(held, "payroll", "rejectPayrollItem")
    <3>. DEFINE steps == <<{Must("rejectPayrollItem")}, {Caught("getPayrollBatch")}>>
    <3>1. Control(OneOf({"BRANCH_MANAGER"}), steps) \in ControlsOf["payroll"]
      BY DEF ControlsOf, PayrollPanel
    <3>2. 1 \in DOMAIN steps /\ Must("rejectPayrollItem") \in steps[1]
      OBVIOUS
    <3>. HIDE DEF held, steps
    <3>. QED
      BY <2>2, <3>1, <3>2, PlainSent, ControlSends
  <2>. QED
    BY <2>1, <2>3, <2>4
<1>. HIDE DEF keys
<1>. QED
  BY <1>1, <1>2, <1>3, <1>5, <1>6, OneIsRefused

\* So does the page of a batch, which lets every reader submit it.
LEMMA BatchRefuses == \A f \in SentUnchecked("batch") : RefusedOn("batch", f)
<1>. DEFINE keys == {"payroll.read"}
            held == keys \cup {"BRANCH_MANAGER"}
            some == {"submitPayrollBatch", "approvePayrollBatch", "rejectPayrollBatch",
                  "rejectPayrollItem"}
<1>1. SentUnchecked("batch") = some
  BY DEF SentUnchecked
<1>2. "batch" \in Pages /\ keys \subseteq AllPermissionKeys
  BY DEF Pages, LoadsOf, AllPermissionKeys, PeopleKeys, PayKeys, OtherKeys
<1>3. Meets(held, MenuGate["batch"]) /\ Meets(held, PageGate["batch"])
  BY <1>2 DEF Meets, MenuGate, PageGate, OneOf, Management
<1>4. Expand(keys) = keys
  BY ExpandPlain DEF ImpliedPermissions
<1>5. \A f \in some : Withheld(keys, f)
  BY <1>4, PayrollGuards DEF Withheld
<1>6. \A f \in some : PageSends(held, "batch", f)
  <2>1. Meets(held, OneOf(BatchApprovers)) /\ Meets(held, {})
    BY DEF Meets, OneOf, BatchApprovers
  <2>2. ASSUME NEW f \in some PROVE PageSends(held, "batch", f)
    <3>. DEFINE steps == <<{Must(f)}, {Must("getPayrollBatch")}>>
    <3>1. \/ Control({}, steps) \in ControlsOf["batch"]
          \/ Control(OneOf(BatchApprovers), steps) \in ControlsOf["batch"]
      BY DEF ControlsOf, BatchControls
    <3>2. 1 \in DOMAIN steps /\ Must(f) \in steps[1]
      OBVIOUS
    <3>. HIDE DEF held, steps, some
    <3>. QED
      BY <2>1, <3>1, <3>2, PlainSent, ControlSends
  <2>. QED
    BY <2>2
<1>. HIDE DEF keys
<1>. QED
  BY <1>1, <1>2, <1>3, <1>5, <1>6, OneIsRefused

\* A new batch loads employees for who may create payroll but not read employees.
LEMMA NewBatchRefuses == \A f \in SentUnchecked("newBatch") : RefusedOn("newBatch", f)
<1>. DEFINE keys == {"payroll.create"}
            held == keys \cup {"CUSTOM"}
            some == {"getEmployees"}
<1>1. SentUnchecked("newBatch") = some
  BY DEF SentUnchecked
<1>2. "newBatch" \in Pages /\ keys \subseteq AllPermissionKeys
  BY DEF Pages, LoadsOf, AllPermissionKeys, PeopleKeys, PayKeys, OtherKeys
<1>3. Meets(held, MenuGate["newBatch"]) /\ Meets(held, PageGate["newBatch"])
  BY <1>2 DEF Meets, MenuGate, PageGate, OneOf, Management
<1>4. \A k \in Expand(keys) : k \in {"payroll.create", "payroll.read", "payroll.manage"}
  <2>. DEFINE three == {"payroll.create", "payroll.read", "payroll.manage"}
  <2>1. \A q \in ImpliedPermissions : q[1] \in three => q[2] \subseteq three
    BY DEF ImpliedPermissions
  <2>2. \A ks : ks \subseteq three => Wider(ks) \subseteq three
    <3>. HIDE DEF three
    <3>. QED
      BY <2>1, InWider
  <2>3. keys \subseteq three
    OBVIOUS
  <2>4. Wider(Wider(keys)) \subseteq three
    BY <2>2, <2>3
  <2>. QED
    BY <2>4, ExpandIsWider
<1>5. \A f \in some : Withheld(keys, f)
  BY <1>4, EmployeesGuards DEF Withheld
<1>6. \A f \in some : PageSends(held, "newBatch", f)
  <2>1. /\ 1 \in DOMAIN LoadsOf["newBatch"]
        /\ \A f \in some :
              Must(f) \in LoadsOf["newBatch"][1] \/ Caught(f) \in LoadsOf["newBatch"][1]
    BY DEF LoadsOf, NewBatchLoads
  <2>. HIDE DEF held, some
  <2>. QED
    BY <2>1, PlainSent DEF PageSends
<1>. HIDE DEF keys
<1>. QED
  BY <1>1, <1>2, <1>3, <1>5, <1>6, OneIsRefused

\* Ikimina loads employees for who may not read them.
LEMMA IkiminaRefuses == \A f \in SentUnchecked("ikimina") : RefusedOn("ikimina", f)
<1>. DEFINE keys == {"ikimina.read", "payroll.read"}
            held == keys \cup {"CUSTOM"}
            some == {"getEmployees"}
<1>1. SentUnchecked("ikimina") = some
  BY DEF SentUnchecked
<1>2. "ikimina" \in Pages /\ keys \subseteq AllPermissionKeys
  BY DEF Pages, LoadsOf, AllPermissionKeys, PeopleKeys, PayKeys, OtherKeys
<1>3. Meets(held, MenuGate["ikimina"]) /\ Meets(held, PageGate["ikimina"])
  BY <1>2 DEF Meets, MenuGate, PageGate, OneOf, Management
<1>4. Expand(keys) = keys
  BY ExpandPlain DEF ImpliedPermissions
<1>5. \A f \in some : Withheld(keys, f)
  BY <1>4, EmployeesGuards DEF Withheld
<1>6. \A f \in some : PageSends(held, "ikimina", f)
  <2>1. /\ 1 \in DOMAIN LoadsOf["ikimina"]
        /\ \A f \in some : Must(f) \in LoadsOf["ikimina"][1] \/ Caught(f) \in LoadsOf["ikimina"][1]
    BY DEF LoadsOf, IkiminaLoads
  <2>. HIDE DEF held, some
  <2>. QED
    BY <2>1, PlainSent DEF PageSends
<1>. HIDE DEF keys
<1>. QED
  BY <1>1, <1>2, <1>3, <1>5, <1>6, OneIsRefused

\* Allowance setup loads the types for who manages allowances but reads no pay.
LEMMA AllowancesRefuses == \A f \in SentUnchecked("allowances") : RefusedOn("allowances", f)
<1>. DEFINE keys == {"allowances.manage", "payroll.read"}
            held == keys \cup {"CUSTOM"}
            some == {"getAllowanceTypes"}
<1>1. SentUnchecked("allowances") = some
  BY DEF SentUnchecked
<1>2. "allowances" \in Pages /\ keys \subseteq AllPermissionKeys
  BY DEF Pages, LoadsOf, AllPermissionKeys, PeopleKeys, PayKeys, OtherKeys
<1>3. Meets(held, MenuGate["allowances"]) /\ Meets(held, PageGate["allowances"])
  BY <1>2 DEF Meets, MenuGate, PageGate, OneOf, Management
<1>4. Expand(keys) = keys
  BY ExpandPlain DEF ImpliedPermissions
<1>5. \A f \in some : Withheld(keys, f)
  BY <1>4, PayGuards DEF Withheld
<1>6. \A f \in some : PageSends(held, "allowances", f)
  <2>1. /\ 1 \in DOMAIN LoadsOf["allowances"]
        /\ \A f \in some :
              Must(f) \in LoadsOf["allowances"][1] \/ Caught(f) \in LoadsOf["allowances"][1]
    BY DEF LoadsOf, AllowancesLoads
  <2>. HIDE DEF held, some
  <2>. QED
    BY <2>1, PlainSent DEF PageSends
<1>. HIDE DEF keys
<1>. QED
  BY <1>1, <1>2, <1>3, <1>5, <1>6, OneIsRefused

\* The exceptions are real: each request that a page is known to send unchecked
\* is refused to somebody whom the menu offers the page.
THEOREM UncheckedIsRefused == \A p \in Pages : \A f \in SentUnchecked(p) : RefusedOn(p, f)
<1>. SUFFICES ASSUME NEW p \in Pages, NEW f \in SentUnchecked(p) PROVE RefusedOn(p, f)
  OBVIOUS
<1>1. p \in {"dashboard", "users", "employees", "positions", "locations", "departments",
             "attendance", "payroll", "batch", "newBatch", "ikimina", "allowances"}
  BY DEF SentUnchecked
<1>2. CASE p \in {"dashboard", "users", "employees", "positions", "locations", "departments"}
  BY <1>2, DashboardRefuses, UsersRefuses, EmployeesRefuses, PositionsRefuses,
     LocationsRefuses, DepartmentsRefuses
<1>3. CASE p \in {"attendance", "payroll", "batch", "newBatch", "ikimina", "allowances"}
  BY <1>3, AttendanceRefuses, PayrollRefuses, BatchRefuses, NewBatchRefuses,
     IkiminaRefuses, AllowancesRefuses
<1>. QED
  BY <1>1, <1>2, <1>3

=============================================================================
