------------------------------ MODULE Branches ------------------------------
(***************************************************************************)
(* Working locations and their branch managers                             *)
(* (backend/src/organization/organization.service.ts, and the parts of     *)
(* backend/src/users/users.service.ts that write branch_managers or move a *)
(* user to another location).                                              *)
(*                                                                         *)
(* Every handler checks first and writes in a transaction later; with one  *)
(* slot for requests they come one at a time, with more they interleave.   *)
(***************************************************************************)
EXTENDS Integers, FiniteSets

CONSTANTS
    Locations,   \* rows that working_locations may get
    Names,       \* location names, up to case and spacing
    Staff,       \* users
    BRequests    \* slots for requests in flight

VARIABLES
    loc,      \* working_locations
    person,   \* users: status, deleted_at and working_location_id
    manager,  \* branch_managers: the active rows, as <<location, user>>
    breq      \* what each request in flight has read

branchVars == <<loc, person, manager, breq>>

Location == [status : {"NONE", "LIVE", "DELETED"}, name : Names, hq : BOOLEAN]

\* INACTIVE stands for PENDING and SUSPENDED, which are treated alike here.
Person == [status : {"INACTIVE", "ACTIVE", "REJECTED"}, at : Locations]

BIdle == [op |-> "idle"]
BRequest ==
    [op : {"idle"}]
      \cup [op : {"create", "update"}, loc : Locations, name : Names, hq : BOOLEAN]
      \cup [op : {"delete"}, loc : Locations]
      \cup [op : {"assign", "move"}, loc : Locations, user : Staff]
      \cup [op : {"approve"}, loc : Locations, user : Staff, asManager : BOOLEAN]

\* Rows are those of the schema, managers are users, and requests well formed.
BranchesTypeOK ==
    /\ loc \in [Locations -> Location]
    /\ person \in [Staff -> Person]
    /\ manager \subseteq Locations \X Staff
    /\ breq \in [BRequests -> BRequest]

Exists(l) == loc[l].status # "NONE"
LiveLocs == {l \in Locations : loc[l].status = "LIVE"}

\* The seeded headquarters, where everyone starts.
BranchesInit ==
    \E h \in Locations, n \in Names :
      /\ loc = [l \in Locations |->
                  [status |-> IF l = h THEN "LIVE" ELSE "NONE", name |-> n, hq |-> l = h]]
      /\ person = [u \in Staff |-> [status |-> "INACTIVE", at |-> h]]
      /\ manager = {}
      /\ breq = [r \in BRequests |-> BIdle]
  
BBegin(r, q) ==
    /\ breq[r] = BIdle
    /\ breq' = [breq EXCEPT ![r] = q]
    /\ UNCHANGED <<loc, person, manager>>

BDone(r) == breq' = [breq EXCEPT ![r] = BIdle]

-----------------------------------------------------------------------------
(* Working locations *)

\* No other location that is not deleted has the name.
NameFree(l, n, hq) == \A k \in LiveLocs \ {l} : loc[k].name # n

NoHq == \A k \in LiveLocs : ~ loc[k].hq

CheckCreateWorkingLocation(r, l, n, hq) ==
    /\ loc[l].status = "NONE"
    /\ NameFree(l, n, hq)
    /\ hq => NoHq
    /\ BBegin(r, [op |-> "create", loc |-> l, name |-> n, hq |-> hq])

\* The headquarters keeps its type; another branch needs the type to be free.
MayBecomeHq(l) == loc[l].hq \/ NoHq

\* Name and type are written together: what the request leaves out is written
\* back as it was read.
CheckUpdateWorkingLocation(r, l, n, hq) ==
    /\ l \in LiveLocs
    /\ NameFree(l, n, hq)
    /\ hq => MayBecomeHq(l)
    /\ BBegin(r, [op |-> "update", loc |-> l, name |-> n, hq |-> hq])

\* A row a concurrent creation has taken is another row there.
SaveWorkingLocation(r) ==
    LET q == breq[r] IN
    /\ \/ q.op = "create" /\ loc[q.loc].status = "NONE"
       \/ q.op = "update"
    /\ loc' = [loc EXCEPT ![q.loc] =
                 [status |-> IF q.op = "create" THEN "LIVE" ELSE @.status,
                  name |-> q.name, hq |-> q.hq]]
    /\ BDone(r)
    /\ UNCHANGED <<person, manager>>

CheckDeleteWorkingLocation(r, l) ==
    l \in LiveLocs /\ BBegin(r, [op |-> "delete", loc |-> l])

\* A soft delete; neither users, managers nor employees are looked at.
DeleteWorkingLocation(r) ==
    /\ breq[r].op = "delete"
    /\ loc' = [loc EXCEPT ![breq[r].loc].status = "DELETED"]
    /\ BDone(r)
    /\ UNCHANGED <<person, manager>>

-----------------------------------------------------------------------------
(* Branch managers *)

CheckAssignBranchManager(r, l, u) ==
    /\ l \in LiveLocs
    /\ person[u] = [status |-> "ACTIVE", at |-> l]
    /\ BBegin(r, [op |-> "assign", loc |-> l, user |-> u])

\* Mutant: the branch's managers so far keep their rows.
Reassigned_Adds(l, u) == manager \cup {<<l, u>>}

\* All active rows of the branch end and one is created.
Reassigned(l, u) == {m \in manager : m[1] # l} \cup {<<l, u>>}

AssignBranchManager(r) ==
    /\ breq[r].op = "assign"
    /\ manager' = Reassigned(breq[r].loc, breq[r].user)
    /\ BDone(r)
    /\ UNCHANGED <<loc, person>>

Removed(u) == person[u].status = "REJECTED"

\* ensureOnlyOneBranchManager.
NoOtherManager(l, u) == \A m \in manager : m[1] = l => m[2] = u

\* approveUser, with the BRANCH_MANAGER role among those it gives or without.
\* A location named in the request must be live; the user's own need not be.
CheckApproveUser(r, u, l, asManager) ==
    /\ ~ Removed(u)
    /\ l \in LiveLocs \/ l = person[u].at
    /\ asManager => NoOtherManager(l, u)
    /\ BBegin(r, [op |-> "approve", loc |-> l, user |-> u, asManager |-> asManager])

\* A row of this user at this location is made active again or created; the
\* user's rows at other locations stay.
ApproveBranchUser(r) ==
    LET q == breq[r] IN
    /\ q.op = "approve"
    /\ person' = [person EXCEPT ![q.user] = [status |-> "ACTIVE", at |-> q.loc]]
    /\ manager' = IF q.asManager THEN manager \cup {<<q.loc, q.user>>} ELSE manager
    /\ BDone(r)
    /\ UNCHANGED loc

\* updateUser resolves a live location; a transfer names any that exists.
CheckMoveUser(r, u, l) ==
    /\ ~ Removed(u)
    /\ Exists(l) /\ person[u].at # l
    /\ BBegin(r, [op |-> "move", loc |-> l, user |-> u])

\* updateUser, or the final approval of a transfer: branch_managers untouched.
MoveUser(r) ==
    /\ breq[r].op = "move"
    /\ person' = [person EXCEPT ![breq[r].user].at = breq[r].loc]
    /\ BDone(r)
    /\ UNCHANGED <<loc, manager>>

\* rejectUser, suspendUser, reactivateUser: branch_managers untouched.
SetUserStatus(u, status) ==
    /\ ~ Removed(u) /\ person[u].status # status
    /\ person' = [person EXCEPT ![u].status = status]
    /\ UNCHANGED <<loc, manager, breq>>

\* The transaction is rolled back, or the process stops before it commits.
BAbort(r) ==
    /\ breq[r] # BIdle
    /\ BDone(r)
    /\ UNCHANGED <<loc, person, manager>>

LocationNext(r) ==
    \/ \E l \in Locations, n \in Names, hq \in BOOLEAN :
         \/ CheckCreateWorkingLocation(r, l, n, hq)
         \/ CheckUpdateWorkingLocation(r, l, n, hq)
    \/ \E l \in Locations : CheckDeleteWorkingLocation(r, l)
    \/ SaveWorkingLocation(r) \/ DeleteWorkingLocation(r) \/ BAbort(r)

ManagerNext(r) ==
    \/ \E u \in Staff, l \in Locations :
         \/ CheckAssignBranchManager(r, l, u) \/ CheckMoveUser(r, u, l)
         \/ \E asManager \in BOOLEAN : CheckApproveUser(r, u, l, asManager)
    \/ AssignBranchManager(r) \/ ApproveBranchUser(r) \/ MoveUser(r)

BranchesNext ==
    \/ \E r \in BRequests : LocationNext(r) \/ ManagerNext(r)
    \/ \E u \in Staff, s \in {"ACTIVE", "INACTIVE", "REJECTED"} : SetUserStatus(u, s)

BranchesSpec == BranchesInit /\ [][BranchesNext]_branchVars

-----------------------------------------------------------------------------
(* Properties.  They are promises of requests that come one at a time: every
   check is made before the transaction, and two requests can both pass it. *)

\* "Only one HQ can exist." (createWorkingLocation), through creation, change
\* of type and deletion.
OneHq ==
    Cardinality({l \in LiveLocs : loc[l].hq}) <= 1

\* Names of locations in use stay different up to case and spacing, which the
\* database's unique index on the exact name does not see to.
DistinctNames ==
    \A k, l \in LiveLocs : loc[k].name = loc[l].name => k = l

\* "Only one is allowed." (ensureOnlyOneBranchManager): a branch has at most
\* one active manager, whether made by assignment or by approval.
OneManagerPerBranch ==
    \A m, n \in manager : m[1] = n[1] => m = n

\* Whatever approvals, assignments, moves and edits follow each other, there is
\* one headquarters, one location of a name and one manager of a branch.
BranchesSound == BranchesTypeOK /\ OneHq /\ DistinctNames /\ OneManagerPerBranch

=============================================================================
