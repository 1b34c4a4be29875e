-------------------------------- MODULE Tab ---------------------------------
(***************************************************************************)
(* A browser tab of the workspace: its tokens, the permissions it shows    *)
(* and its notification stream (frontend/src/context/auth-context.tsx,     *)
(* api/auth.ts, api/axios.ts, hooks/use-notifications.ts and the layout    *)
(* that polls).                                                            *)
(*                                                                         *)
(* Three asynchronous flows may be under way at once: the 13-minute token  *)
(* timer, the 15-second poll and the handler of permissions_updated        *)
(* events.  A refresh token works once; answers may be lost.               *)
(***************************************************************************)
EXTENDS Access

CONSTANTS
    Me,         \* the user of the tab
    MaxRetries, \* attempts to reopen the stream
    MaxLost     \* bound on the answers that are lost

ASSUME TabAssumption == Me \in Users /\ MaxRetries \in Nat /\ MaxLost \in Nat

VARIABLES
    tab,   \* what the tab stores and shows
    flow,  \* where each flow is
    lost   \* answers lost so far

tabVars == <<tab, flow, lost>>

\* What the server says of the user in a token and in /auth/me.
View == [roles |-> grant[Me].roles, perms |-> BuildEffectivePermissions(grant[Me])]

\* What the tab makes of such an answer (mapJwtUser).
Mapped(v) == [v EXCEPT !.perms = ExpandPermissionKeys(@)]

NoView == [roles |-> {}, perms |-> {}]
FIdle == [pc |-> "idle"]
Flows == {"timer", "poll", "event"}

\* valid: the stored refresh token is the one the server will accept.
TabInit ==
    /\ tab = [signedIn |-> TRUE, valid |-> TRUE, token |-> Mapped(View), shown |-> Mapped(View),
              stream |-> "connecting", retries |-> 0]
    /\ flow = [f \in Flows |-> FIdle]
    /\ lost = 0

\* The tab shows what a user of the roles could have, and flows are at a known step.
TabTypeOK ==
    /\ tab.signedIn \in BOOLEAN /\ tab.valid \in BOOLEAN /\ lost \in 0..MaxLost
    /\ tab.shown.roles \subseteq Roles /\ tab.shown.perms \subseteq ExpandPermissionKeys(Keys)
    /\ tab.token.perms \subseteq ExpandPermissionKeys(Keys)
    /\ tab.stream \in {"connecting", "open", "waiting", "closed"}
    /\ tab.retries \in 0..MaxRetries
    /\ \A f \in Flows : flow[f].pc \in {"idle", "sent", "joined", "answered", "refused",
                                        "profile", "read"}

At(f, pc) == flow[f].pc = pc
Set(f, r) == flow' = [flow EXCEPT ![f] = r]
Leave(f) == Set(f, FIdle)

\* Mutant: every caller sends its own request.
Joinable_Never(f, g) == FALSE

\* A refresh under way is shared by those who ask for another (refreshPromise).
Joinable(f, g) == g # f /\ flow[g].pc \in {"sent", "answered", "refused"}

\* Ask for new tokens with the stored refresh token, or wait for who already did.
Asking(f, v) ==
    IF \E g \in Flows : Joinable(f, g)
      THEN [pc |-> "joined", base |-> v]
      ELSE [pc |-> "sent", base |-> v, valid |-> tab.valid]

-----------------------------------------------------------------------------
(* What starts a flow *)

Idle(f) == tab.signedIn /\ At(f, "idle")

Timer ==
    /\ Idle("timer")
    /\ Set("timer", Asking("timer", NoView))
    /\ UNCHANGED <<tab, lost, accessVars>>

\* refreshPermissions({refreshAccessToken: true})
PermissionsUpdated ==
    /\ Idle("event") /\ Me \in told
    /\ told' = told \ {Me}
    /\ Set("event", Asking("event", tab.token))
    /\ UNCHANGED <<tab, lost, role, grant, list, areq, clients, edits, inTurn>>

\* refreshPermissions(): every 15 seconds and on every navigation
Poll ==
    /\ Idle("poll")
    /\ Set("poll", [pc |-> "profile", base |-> tab.token, renewed |-> FALSE])
    /\ UNCHANGED <<tab, lost, accessVars>>

-----------------------------------------------------------------------------
(* New tokens *)

\* The server accepts a refresh token once and hands out its successor.
ServerRefresh(f) ==
    /\ At(f, "sent")
    /\ IF flow[f].valid /\ tab.valid
         THEN /\ Set(f, [pc |-> "answered", view |-> Mapped(View)])
              /\ tab' = [tab EXCEPT !.valid = FALSE]
         ELSE /\ Set(f, [pc |-> "refused"])
              /\ UNCHANGED tab
    /\ UNCHANGED <<lost, accessVars>>

\* A new access token closes the stream and opens another.
Reconnecting ==
    /\ clients' = clients \ {Me}
    /\ told' = told \ {Me}
    /\ UNCHANGED <<role, grant, list, areq, edits, inTurn>>

\* What a flow does with new tokens: the timer is done, the others read the profile.
Renewed(f, v) ==
    IF f = "timer" THEN FIdle ELSE [pc |-> "profile", base |-> v, renewed |-> TRUE]

Receive(f) ==
    /\ At(f, "answered")
    /\ LET v    == flow[f].view
           with == {f} \cup {g \in Flows : At(g, "joined")}
       IN  /\ tab' = [tab EXCEPT !.valid = TRUE, !.token = v, !.stream = "connecting",
                        !.retries = 0,
                        !.shown = IF with # {"timer"} THEN v ELSE @]
           /\ flow' = [g \in Flows |-> IF g \in with THEN Renewed(g, v) ELSE flow[g]]
    /\ Reconnecting
    /\ UNCHANGED lost

\* Tokens are cleared and the login page replaces the workspace.
SignedOut ==
    /\ tab' = [tab EXCEPT !.signedIn = FALSE, !.stream = "closed"]
    /\ flow' = [g \in Flows |-> FIdle]
    /\ Reconnecting

\* 401: the interceptor of api/axios.ts
Refused(f) == At(f, "refused") /\ SignedOut /\ UNCHANGED lost

\* No answer within 15 seconds: the timer signs out, the others log the error.
RefreshTimesOut(f) ==
    /\ flow[f].pc \in {"sent", "answered"}
    /\ lost < MaxLost /\ lost' = lost + 1
    /\ LET with == {f} \cup {g \in Flows : At(g, "joined")} IN
         IF "timer" \in with
           THEN SignedOut
           ELSE /\ flow' = [g \in Flows |-> IF g \in with THEN FIdle ELSE flow[g]]
                /\ UNCHANGED <<tab, accessVars>>

-----------------------------------------------------------------------------
(* The profile *)

GetMyProfile(f) ==
    /\ At(f, "profile")
    /\ Set(f, [pc |-> "read", base |-> flow[f].base, renewed |-> flow[f].renewed, got |-> View])
    /\ UNCHANGED <<tab, lost, accessVars>>

\* Mutant: the profile is never compared with the token.
ProfileDiffersFromToken_Never(got, base) == FALSE

ProfileDiffersFromToken(got, base) == Mapped(got) # base

\* Roles or permissions that are empty are taken from the token instead.
ApplyProfile(got, base) ==
    [roles |-> IF got.roles = {} THEN base.roles ELSE got.roles,
     perms |-> IF got.perms = {} THEN base.perms ELSE Mapped(got).perms]

ProfileReceived(f) ==
    /\ At(f, "read")
    /\ LET h == flow[f] IN
         IF ~ h.renewed /\ ProfileDiffersFromToken(h.got, h.base)
           THEN Set(f, Asking(f, h.base)) /\ UNCHANGED tab
           ELSE /\ tab' = [tab EXCEPT !.shown = ApplyProfile(h.got, h.base)]
                /\ Leave(f)
    /\ UNCHANGED <<lost, accessVars>>

-----------------------------------------------------------------------------
(* The notification stream *)

StreamOpens ==
    /\ tab.stream = "connecting"
    /\ tab' = [tab EXCEPT !.stream = "open", !.retries = 0]
    /\ clients' = clients \cup {Me}
    /\ UNCHANGED <<flow, lost, role, grant, list, areq, told, edits, inTurn>>

StreamFails ==
    /\ tab.stream \in {"connecting", "open"}
    /\ tab' = [tab EXCEPT !.stream = IF tab.retries < MaxRetries THEN "waiting" ELSE "closed"]
    /\ Reconnecting
    /\ UNCHANGED <<flow, lost>>

StreamRetries ==
    /\ tab.stream = "waiting"
    /\ tab' = [tab EXCEPT !.stream = "connecting", !.retries = @ + 1]
    /\ UNCHANGED <<flow, lost, accessVars>>

FlowStep(f) == ServerRefresh(f) \/ Receive(f) \/ Refused(f) \/ GetMyProfile(f) \/ ProfileReceived(f)

TabNext ==
    \/ Timer \/ PermissionsUpdated \/ Poll
    \/ \E f \in Flows : FlowStep(f) \/ RefreshTimesOut(f)
    \/ StreamOpens \/ StreamFails \/ StreamRetries

\* Requests are answered unless they time out, and the poll goes on while the tab is open.
TabFairness ==
    /\ WF_<<tabVars, accessVars>>(Poll)
    /\ \A f \in Flows : WF_<<tabVars, accessVars>>(FlowStep(f))

\* A tab while roles and grants change.
TabSpec ==
    /\ AccessInit /\ TabInit
    /\ [][((RoleStep \/ GrantStep) /\ UNCHANGED tabVars) \/ TabNext]_<<tabVars, accessVars>>
    /\ TabFairness

-----------------------------------------------------------------------------
(* Properties *)

\* The tab's own flows never make it lose its session: only a lost answer does,
\* however its timer, its polls and the events it receives overlap
\* (refreshPromise in api/auth.ts, auth-context.tsx).
TabKeepsItsSession == ~ tab.signedIn => lost > 0

\* Once roles and grants stay as they are, an open tab ends up showing them,
\* whatever events its stream missed and in whatever order answers arrive
\* (layout.tsx poll, refreshPermissions, applyProfile).
TabCatchesUp == <>[](tab.signedIn => tab.shown = Mapped(View))

\* The tab's overlapping flows use its refresh token once, and its stream is
\* reopened a bounded number of times.
TabSound == TabTypeOK /\ TabKeepsItsSession

=============================================================================
