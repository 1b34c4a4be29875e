------------------------------ MODULE Notices -------------------------------
(***************************************************************************)
(* Notifications: the stored rows and each user's dismissals, whom a       *)
(* notice is addressed to, the server-sent events that carry it, and the   *)
(* bell of one signed-in user, Me, which merges what it fetched with what  *)
(* arrived live (backend/src/notifications, and the hook, the bell and the *)
(* pages of the frontend that listen).                                     *)
(*                                                                         *)
(* No caller sets target_role or target_department_id, so the two          *)
(* conditions of getNotificationWhere on them match no row and are left    *)
(* out.                                                                    *)
(***************************************************************************)
EXTENDS Naturals, Sequences, FiniteSets, SequencesExt

CONSTANTS
    Users, Me,   \* everybody, and whose bell and pages are modelled
    None,        \* no user: user_id null
    Blank,       \* an event the bell takes for a notice without id
    MaxNotices,  \* bound on the notices stored
    MaxEdits,    \* bound on the edits of each topic
    MaxChanges,  \* bound on the changes of office
    MaxDrops     \* bound on the times the stream breaks

ASSUME NoticesAssumption ==
    /\ IsFiniteSet(Users) /\ Me \in Users /\ None \notin Users /\ Blank \notin Nat
    /\ {MaxNotices, MaxEdits, MaxChanges, MaxDrops} \subseteq Nat

VARIABLES
    office,     \* the positions each user holds: admin, HR at headquarters, branch manager
    changes,    \* changes of office so far
    notices,    \* the notifications table, in order of id
    dismissed,  \* notification_dismissals: pairs of notice and user
    stream,     \* Me's event stream: open or not, what is on its way, times broken
    bell,       \* what Me's bell keeps
    flow,       \* what Me's bell is waiting for
    topic,      \* edits of each list that pages show
    page,       \* Me's open pages: the edits each shows
    missed      \* topics whose edits Me's stream did not carry, since the page last loaded

noticeVars == <<office, changes, notices, dismissed, stream, bell, flow, topic, page, missed>>

\* One position, or none: a user with two sees and is sent what either position brings.
Offices == {{}, {"admin"}, {"hqHr"}, {"manager"}}
Topics == {"employees", "departments"}
Ids == 1..MaxNotices
Stored == DOMAIN notices

Admins == {u \in Users : "admin" \in office[u]}
HqHr == {u \in Users : "hqHr" \in office[u]}
Managers == {u \in Users : "manager" \in office[u]}

FIdle == [pc |-> "idle"]

\* The bell loads when it is mounted, and the pages show what they loaded.
NoticesInit ==
    /\ office \in {o \in [Users -> Offices] : Cardinality({u \in Users : "manager" \in o[u]}) <= 1}
    /\ changes = 0 /\ notices = <<>> /\ dismissed = {}
    /\ stream = [open |-> FALSE, inbox |-> <<>>, drops |-> 0]
    /\ bell = [live |-> {}, listed |-> {}, count |-> 0, told |-> {}]
    /\ flow = [pc |-> "load"]
    /\ topic = [t \in Topics |-> 0]
    /\ page = [t \in Topics |-> [shown |-> 0, loading |-> FALSE]]
    /\ missed = {}

\* Rows and what clients hold of them are of their types, and no bell counts more than it was sent.
NoticesTypeOK ==
    /\ office \in [Users -> Offices] /\ Cardinality(Managers) <= 1
    /\ \A n \in Stored : notices[n].to \in Users \cup {None} /\ notices[n].meant \subseteq Users
    /\ dismissed \subseteq Stored \X Users
    /\ bell.live \subseteq Stored \cup {Blank} /\ bell.listed \subseteq Stored
    /\ bell.count \in 0..(2 * MaxNotices + MaxEdits)
    /\ stream.open \/ stream.inbox = <<>>

-----------------------------------------------------------------------------
(* What a user may see (getNotificationWhere, getDismissedNotificationIds) *)

Addressed(u) == {n \in Stored : \/ notices[n].to = u
                                \/ notices[n].to = None /\ u \in Admins}

DismissedBy(u) == {n \in Stored : <<n, u>> \in dismissed}
FindAll(u) == Addressed(u) \ DismissedBy(u)
FindUnreadCount(u) == Cardinality({n \in FindAll(u) : ~notices[n].read})

-----------------------------------------------------------------------------
(* Storing a notice, and pushing it to the streams that are open *)

Direct(u) == [to |-> u, meant |-> {u}]
ToAdmins == [to |-> None, meant |-> Admins]
ToBranchManager == IF Managers = {} THEN ToAdmins ELSE Direct(CHOOSE u \in Managers : TRUE)
ToFinalApprovers == IF HqHr = {} THEN ToAdmins ELSE [to |-> None, meant |-> HqHr]

Recipients == {Direct(u) : u \in Users} \cup {ToAdmins, ToBranchManager, ToFinalApprovers}

\* Without anyone to push to, the push is a broadcast.
PushedTo(r) ==
    IF r.to # None THEN {r.to} ELSE IF r.meant # {} THEN r.meant ELSE Users

Row(r) == [to |-> r.to, meant |-> r.meant, read |-> FALSE]

Sent(s, e) == IF s.open THEN [s EXCEPT !.inbox = Append(@, e)] ELSE s

\* The row, and its push; when it arrives is the stream's affair.
Create(r) ==
    /\ Len(notices) < MaxNotices
    /\ notices' = Append(notices, Row(r))
    /\ stream' = IF Me \in PushedTo(r) THEN Sent(stream, [kind |-> "notice", id |-> Len(notices')]) ELSE stream
    /\ UNCHANGED <<office, changes, dismissed, bell, flow, topic, page, missed>>

\* The override notice is written by the transaction itself and never pushed.
CreateQuietly(u) ==
    /\ Len(notices) < MaxNotices
    /\ notices' = Append(notices, Row(Direct(u)))
    /\ UNCHANGED <<office, changes, dismissed, stream, bell, flow, topic, page, missed>>

\* An edit of a list that pages show, and its broadcast.
Broadcast(t) ==
    /\ topic[t] < MaxEdits
    /\ topic' = [topic EXCEPT ![t] = @ + 1]
    /\ stream' = Sent(stream, [kind |-> t])
    /\ missed' = IF stream.open THEN missed ELSE missed \cup {t}
    /\ UNCHANGED <<office, changes, notices, dismissed, bell, flow, page>>

\* Roles, branch managers and statuses change elsewhere.
ChangeOffice(u, o) ==
    /\ changes < MaxChanges
    /\ office[u] # o
    /\ "manager" \in o => Managers \subseteq {u}
    /\ office' = [office EXCEPT ![u] = o]
    /\ changes' = changes + 1
    /\ UNCHANGED <<notices, dismissed, stream, bell, flow, topic, page, missed>>

-----------------------------------------------------------------------------
(* Reading and clearing, as the server does it *)

\* Mutant: clearing is a flag on the row.
Dismissing_ForAll(u, N) == N \X Users

Dismissing(u, N) == N \X {u}

Clear(u, n) == n \in Addressed(u) /\ dismissed' = dismissed \cup Dismissing(u, {n})
ClearAll(u) == dismissed' = dismissed \cup Dismissing(u, FindAll(u))

MarkedRead(u, N) == [n \in Stored |-> [notices[n] EXCEPT !.read = @ \/ n \in N \cap Addressed(u)]]
MarkAsRead(u, n) == notices' = MarkedRead(u, {n})
MarkAllAsRead(u) == notices' = MarkedRead(u, Stored)

\* Somebody else's client.
Elsewhere(u) ==
    /\ u # Me
    /\ \/ (ClearAll(u) \/ \E n \in Stored : Clear(u, n)) /\ UNCHANGED notices
       \/ (MarkAllAsRead(u) \/ \E n \in Stored : MarkAsRead(u, n)) /\ UNCHANGED dismissed
    /\ UNCHANGED <<office, changes, stream, bell, flow, topic, page, missed>>

-----------------------------------------------------------------------------
(* Me's stream (useNotifications) *)

StreamOpens ==
    /\ ~stream.open
    /\ stream' = [stream EXCEPT !.open = TRUE]
    /\ UNCHANGED <<office, changes, notices, dismissed, bell, flow, topic, page, missed>>

\* What was on its way is lost; the server forgets the client.
StreamBreaks ==
    /\ stream.open /\ stream.drops < MaxDrops
    /\ stream' = [open |-> FALSE, inbox |-> <<>>, drops |-> stream.drops + 1]
    /\ missed' = missed \cup {t \in Topics : Contains(stream.inbox, [kind |-> t])}
    /\ UNCHANGED <<office, changes, notices, dismissed, bell, flow, topic, page>>

\* The events the hook hands on to the pages; it takes any other for a notice.
SystemEvents == {"employees"}

\* A push is counted even when the list already holds it.
Counted(b, x) == [b EXCEPT !.live = @ \cup {x}, !.count = @ + 1, !.told = @ \cup ({x} \ {Blank})]

\* Mutant: the event is taken for a notice.
Dispatched_Never(p, t) == p

\* A page that listens for the topic loads again.
Dispatched(p, t) == IF t \in SystemEvents THEN [p EXCEPT ![t].loading = TRUE] ELSE p

OnMessage ==
    /\ stream.inbox # <<>>
    /\ LET e == Head(stream.inbox)
       IN  IF e.kind = "notice"
             THEN bell' = Counted(bell, e.id) /\ UNCHANGED page
             ELSE /\ bell' = IF e.kind \in SystemEvents THEN bell ELSE Counted(bell, Blank)
                  /\ page' = Dispatched(page, e.kind)
    /\ stream' = [stream EXCEPT !.inbox = Tail(@)]
    /\ UNCHANGED <<office, changes, notices, dismissed, flow, topic, missed>>

PageLoads(t) ==
    /\ page[t].loading
    /\ page' = [page EXCEPT ![t] = [shown |-> topic[t], loading |-> FALSE]]
    /\ missed' = missed \ {t}
    /\ UNCHANGED <<office, changes, notices, dismissed, stream, bell, flow, topic>>

-----------------------------------------------------------------------------
(* Me's bell; its user waits for one handler to end before starting another *)

\* Deduplicated by uuid.
AllNotifications == bell.live \cup bell.listed

\* getNotifications, then getUnreadCount (loadNotifications).
LoadReads ==
    /\ flow.pc = "load"
    /\ flow' = [pc |-> "list", got |-> FindAll(Me)]
    /\ UNCHANGED <<office, changes, notices, dismissed, stream, bell, topic, page, missed>>

\* Mutant: the fetched list replaces what arrived live as well.
Listed_Only(b, N) == [b EXCEPT !.listed = N, !.live = {}]

Listed(b, N) == [b EXCEPT !.listed = N]

ListReceived ==
    /\ flow.pc = "list"
    /\ bell' = Listed(bell, flow.got)
    /\ flow' = [pc |-> "count"]
    /\ UNCHANGED <<office, changes, notices, dismissed, stream, topic, page, missed>>

CountReads ==
    /\ flow.pc = "count"
    /\ flow' = [pc |-> "total", got |-> FindUnreadCount(Me)]
    /\ UNCHANGED <<office, changes, notices, dismissed, stream, bell, topic, page, missed>>

CountReceived ==
    /\ flow.pc = "total"
    /\ bell' = [bell EXCEPT !.count = flow.got]
    /\ flow' = FIdle
    /\ UNCHANGED <<office, changes, notices, dismissed, stream, topic, page, missed>>

LoadFails ==
    /\ flow.pc \in {"load", "list", "count", "total"}
    /\ bell' = [bell EXCEPT !.listed = {}]
    /\ flow' = FIdle
    /\ UNCHANGED <<office, changes, notices, dismissed, stream, topic, page, missed>>

\* A click: what is cleared is what the list held then.
HandleClear ==
    /\ flow.pc = "idle"
    /\ \E n \in AllNotifications \ {Blank} : flow' = [pc |-> "clear", gone |-> {n}, all |-> FALSE]
    /\ UNCHANGED <<office, changes, notices, dismissed, stream, bell, topic, page, missed>>

HandleClearAll ==
    /\ flow.pc = "idle"
    /\ flow' = [pc |-> "clear", gone |-> AllNotifications, all |-> TRUE]
    /\ UNCHANGED <<office, changes, notices, dismissed, stream, bell, topic, page, missed>>

\* A notice Me may not see is not found, and nothing changes.
ClearDone ==
    /\ flow.pc = "clear"
    /\ \/ flow.all /\ ClearAll(Me) /\ flow' = [flow EXCEPT !.pc = "cleared"]
       \/ ~flow.all /\ Clear(Me, CHOOSE n \in flow.gone : TRUE) /\ flow' = [flow EXCEPT !.pc = "cleared"]
       \/ ~flow.all /\ ~(flow.gone \subseteq Addressed(Me)) /\ flow' = FIdle /\ UNCHANGED dismissed
    /\ UNCHANGED <<office, changes, notices, stream, bell, topic, page, missed>>

\* Only clearing all resets the count.
AfterClear(b, f) ==
    IF f.all THEN [b EXCEPT !.listed = {}, !.live = @ \ f.gone, !.count = 0]
             ELSE [b EXCEPT !.listed = @ \ f.gone, !.live = @ \ f.gone]

ClearReceived ==
    /\ flow.pc = "cleared"
    /\ bell' = AfterClear(bell, flow)
    /\ flow' = FIdle
    /\ UNCHANGED <<office, changes, notices, dismissed, stream, topic, page, missed>>

\* Opening a notice, acting on it or marking it read: the row, then a load.
HandleMarkRead ==
    /\ flow.pc = "idle"
    /\ \/ /\ \E n \in AllNotifications \ {Blank} : MarkAsRead(Me, n)
          /\ UNCHANGED bell
       \/ /\ MarkAllAsRead(Me)
          /\ bell' = [bell EXCEPT !.count = 0]
    /\ flow' = [pc |-> "load"]
    /\ UNCHANGED <<office, changes, dismissed, stream, topic, page, missed>>

-----------------------------------------------------------------------------

\* Notices come and people change.
NoticeStep ==
    \/ \E r \in Recipients : Create(r)
    \/ \E u \in Users : CreateQuietly(u) \/ Elsewhere(u) \/ \E o \in Offices : ChangeOffice(u, o)

\* The lists that pages show are edited, and the stream may break.
PageStep == StreamBreaks \/ \E t \in Topics : Broadcast(t) \/ PageLoads(t)

\* Me's stream and bell.
ClientStep ==
    \/ StreamOpens \/ OnMessage
    \/ LoadReads \/ ListReceived \/ CountReads \/ CountReceived \/ LoadFails
    \/ HandleClear \/ HandleClearAll \/ ClearDone \/ ClearReceived \/ HandleMarkRead

\* What the stream carries and the pages' answers arrive.
NoticesFairness ==
    /\ WF_noticeVars(OnMessage)
    /\ \A t \in Topics : WF_noticeVars(PageLoads(t))

NoticesSpec ==
    NoticesInit /\ [][NoticeStep \/ PageStep \/ ClientStep]_noticeVars /\ NoticesFairness

-----------------------------------------------------------------------------
(* Properties *)

\* A notice leaves a user's history only when that user clears it or loses the office it was seen
\* by: clearing a shared notice never hides it from its other recipients (clear, clearAll).
DismissalIsPersonal ==
    [][\A u \in Users : \A n \in FindAll(u) :
          n \in FindAll(u)' \/ office'[u] # office[u] \/ (u = Me <=> flow' # flow)]_noticeVars

\* A notice is pushed live only to those it is meant for, whenever there are any (notifyAdmins,
\* notifyFinalApprovers, notifyBranchManager).
LivePushScoped ==
    \A n \in bell.told : notices[n].meant # {} => Me \in notices[n].meant

\* A notice addressed to Me that arrived live stays on the bell until Me clears it, whatever loads
\* and clearings were under way when it arrived (the bell's merge, handleClearAll).
LiveStays ==
    \A n \in bell.told : notices[n].to = Me => n \in AllNotifications \cup DismissedBy(Me)

\* A page shows every edit of its topic in the end, unless the stream was down for one.
CatchesUp(t) == <>[](t \in missed \/ page[t].shown = topic[t])

\* The employees page refreshes itself after every employees_updated its stream carries.
EmployeesPageCatchesUp == CatchesUp("employees")

\* A notice is pushed to those it is meant for, and what arrived live stays on
\* the bell however lists, counts and clearings that were under way end.
NoticesSound == NoticesTypeOK /\ LivePushScoped /\ LiveStays

=============================================================================
