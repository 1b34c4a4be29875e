------------------------ MODULE Organization_proofs ------------------------
(***************************************************************************)
(* What Branches, Placement and Accounts promise, for any number of        *)
(* locations, departments, people, sessions and codes.  The three parts do *)
(* not share state and are proved one after the other.                     *)
(*                                                                         *)
(* Their handlers check first and write later.  The proofs keep, for every *)
(* request in flight, that what it checked still holds; where that needs   *)
(* requests to come one at a time the theorem says so.                     *)
(***************************************************************************)
EXTENDS Accounts, Branches, Placement, FiniteSetTheorems, SequenceTheorems, TLAPS

-----------------------------------------------------------------------------
(* Branches: one headquarters, distinct names, one manager *)

\* OneHq without counting.
LoneHq == \A k, l \in LiveLocs : loc[k].hq /\ loc[l].hq => k = l

\* What a request in flight has checked still holds.
BCurrent(q) ==
    /\ q.op \in {"create", "update"} =>
         /\ NameFree(q.loc, q.name, q.hq)
         /\ q.hq => \A k \in LiveLocs \ {q.loc} : ~ loc[k].hq
    /\ q.op = "approve" => (q.asManager => NoOtherManager(q.loc, q.user))

BranchInv ==
    /\ BranchesTypeOK /\ LoneHq /\ DistinctNames /\ OneManagerPerBranch
    /\ \A r \in BRequests : BCurrent(breq[r])

\* Branch requests come one at a time.
OneBranchRequest == \A r, s \in BRequests : r = s

\* A set with at most one member has at most one by count.
LEMMA AtMostOne ==
    ASSUME NEW S, \A x, y \in S : x = y
    PROVE  Cardinality(S) <= 1
<1>1. CASE S = {}
  BY <1>1, FS_EmptySet
<1>2. CASE S # {}
  <2>1. PICK x : x \in S
    BY <1>2
  <2>2. S = {x}
    BY <2>1
  <2> QED  BY <2>2, FS_Singleton
<1> QED  BY <1>1, <1>2

\* The invariant holds in the seeded state.
LEMMA BranchInit == BranchesInit => BranchInv
<1> SUFFICES ASSUME BranchesInit PROVE BranchInv
  OBVIOUS
<1>1. PICK h \in Locations, n \in Names :
        /\ loc = [l \in Locations |->
                    [status |-> IF l = h THEN "LIVE" ELSE "NONE", name |-> n, hq |-> l = h]]
        /\ person = [u \in Staff |-> [status |-> "INACTIVE", at |-> h]]
        /\ manager = {}
        /\ breq = [r \in BRequests |-> BIdle]
  BY DEF BranchesInit
<1>2. \A l \in Locations : (l = h) \in BOOLEAN
  OBVIOUS
<1>3. BranchesTypeOK
  BY <1>1, <1>2 DEF BranchesTypeOK, Location, Person, BRequest, BIdle
<1>4. LiveLocs = {h}
  BY <1>1 DEF LiveLocs
<1>5. LoneHq /\ DistinctNames /\ OneManagerPerBranch
  BY <1>1, <1>4 DEF LoneHq, DistinctNames, OneManagerPerBranch
<1>6. \A r \in BRequests : BCurrent(breq[r])
  BY <1>1 DEF BCurrent, BIdle
<1> QED  BY <1>3, <1>5, <1>6 DEF BranchInv

\* A request that begins with its checks made keeps the invariant.
LEMMA BranchBegin ==
    ASSUME BranchInv, NEW r \in BRequests, NEW q \in BRequest, BCurrent(q), BBegin(r, q)
    PROVE  BranchInv'
<1>1. BranchesTypeOK'
  BY DEF BBegin, BranchInv, BranchesTypeOK
<1>2. UNCHANGED <<loc, manager>>
  BY DEF BBegin
<1>3. (LoneHq /\ DistinctNames /\ OneManagerPerBranch)'
  BY <1>2 DEF BranchInv, LoneHq, DistinctNames, OneManagerPerBranch, LiveLocs
<1>4. ASSUME NEW s \in BRequests PROVE BCurrent(breq[s])'
  <2>1. breq'[s] = q \/ breq'[s] = breq[s]
    BY DEF BBegin, BranchInv, BranchesTypeOK
  <2>2. BCurrent(breq[s])
    BY DEF BranchInv
  <2> QED  BY <1>2, <2>1, <2>2 DEF BCurrent, NameFree, NoOtherManager, LiveLocs
<1> QED  BY <1>1, <1>3, <1>4 DEF BranchInv

\* With one slot, the end of a request leaves none to vouch for.
LEMMA BranchEnd ==
    ASSUME OneBranchRequest, BranchesTypeOK, NEW r \in BRequests, BDone(r)
    PROVE  /\ breq' \in [BRequests -> BRequest]
           /\ \A s \in BRequests : BCurrent(breq[s])'
<1>1. \A s \in BRequests : breq'[s] = BIdle
  BY DEF OneBranchRequest, BDone, BranchesTypeOK
<1> QED  BY <1>1 DEF BDone, BCurrent, BIdle, BranchesTypeOK, BRequest

\* Every step of a location request keeps the invariant.
LEMMA BranchLocationStep ==
    ASSUME OneBranchRequest, BranchInv, NEW r \in BRequests, LocationNext(r)
    PROVE  BranchInv'
<1>0. BranchesTypeOK /\ BCurrent(breq[r]) /\ breq[r] \in BRequest
  BY DEF BranchInv, BranchesTypeOK
<1>1. ASSUME NEW l \in Locations, NEW n \in Names, NEW hq \in BOOLEAN,
             CheckCreateWorkingLocation(r, l, n, hq)
      PROVE  BranchInv'
  <2> DEFINE q == [op |-> "create", loc |-> l, name |-> n, hq |-> hq]
  <2>1. q \in BRequest
    BY DEF BRequest
  <2>2. BCurrent(q)
    BY <1>1 DEF CheckCreateWorkingLocation, BCurrent, NoHq
  <2> QED  BY <1>1, <2>1, <2>2, BranchBegin DEF CheckCreateWorkingLocation
<1>2. ASSUME NEW l \in Locations, NEW n \in Names, NEW hq \in BOOLEAN,
             CheckUpdateWorkingLocation(r, l, n, hq)
      PROVE  BranchInv'
  <2> DEFINE q == [op |-> "update", loc |-> l, name |-> n, hq |-> hq]
  <2>1. q \in BRequest
    BY DEF BRequest
  <2>2. hq => \A k \in LiveLocs \ {l} : ~ loc[k].hq
    BY <1>2 DEF CheckUpdateWorkingLocation, MayBecomeHq, NoHq, BranchInv, LoneHq
  <2>3. BCurrent(q)
    BY <1>2, <2>2 DEF CheckUpdateWorkingLocation, BCurrent
  <2> QED  BY <1>2, <2>1, <2>3, BranchBegin DEF CheckUpdateWorkingLocation
<1>3. ASSUME NEW l \in Locations, CheckDeleteWorkingLocation(r, l)
      PROVE  BranchInv'
  <2> DEFINE q == [op |-> "delete", loc |-> l]
  <2>1. q \in BRequest
    BY DEF BRequest
  <2>2. BCurrent(q)
    BY DEF BCurrent
  <2> QED  BY <1>3, <2>1, <2>2, BranchBegin DEF CheckDeleteWorkingLocation
<1>4. ASSUME SaveWorkingLocation(r) PROVE BranchInv'
  <2> DEFINE l == breq[r].loc
             st == IF breq[r].op = "create" THEN "LIVE" ELSE loc[l].status
             row == [status |-> st, name |-> breq[r].name, hq |-> breq[r].hq]
  <2>1. /\ breq[r].op \in {"create", "update"}
        /\ breq[r] \in [op : {"create", "update"}, loc : Locations, name : Names, hq : BOOLEAN]
    BY <1>0, <1>4 DEF SaveWorkingLocation, BRequest
  <2>2. l \in Locations /\ row \in Location
    BY <1>0, <2>1 DEF Location, BranchesTypeOK
  <2>3. loc' = [loc EXCEPT ![l] = row] /\ UNCHANGED <<person, manager>> /\ BDone(r)
    BY <1>4, <2>1, <1>0 DEF SaveWorkingLocation, BranchesTypeOK, Location
  <2>4. /\ loc' \in [Locations -> Location]
        /\ loc'[l] = row
        /\ \A k \in Locations \ {l} : loc'[k] = loc[k]
    BY <1>0, <2>2, <2>3 DEF BranchesTypeOK
  <2>5. LiveLocs' \subseteq LiveLocs \cup {l} /\ LiveLocs \subseteq Locations
    BY <2>2, <2>4 DEF LiveLocs
  <2>6. /\ \A k \in LiveLocs \ {l} : loc[k].name # breq[r].name
        /\ breq[r].hq => \A k \in LiveLocs \ {l} : ~ loc[k].hq
    BY <1>0, <2>1 DEF BCurrent, NameFree
  <2>7. /\ row.name = breq[r].name /\ row.hq = breq[r].hq
        /\ LoneHq /\ DistinctNames /\ OneManagerPerBranch
    BY DEF BranchInv
  <2> HIDE DEF row, l
  <2>8. LoneHq'
    BY <2>4, <2>5, <2>6, <2>7 DEF LoneHq
  <2>9. DistinctNames'
    BY <2>4, <2>5, <2>6, <2>7 DEF DistinctNames
  <2>10. OneManagerPerBranch'
    BY <2>3, <2>7 DEF OneManagerPerBranch
  <2>11. BranchesTypeOK' /\ \A s \in BRequests : BCurrent(breq[s])'
    BY <1>0, <2>3, <2>4, BranchEnd DEF BranchesTypeOK
  <2> QED  BY <2>8, <2>9, <2>10, <2>11 DEF BranchInv
<1>5. ASSUME DeleteWorkingLocation(r) PROVE BranchInv'
  <2>1. breq[r].loc \in Locations /\ BDone(r) /\ UNCHANGED <<person, manager>>
    BY <1>0, <1>5 DEF DeleteWorkingLocation, BRequest
  <2>2. /\ loc' \in [Locations -> Location]
        /\ \A k \in Locations : loc'[k].name = loc[k].name /\ loc'[k].hq = loc[k].hq
        /\ LiveLocs' \subseteq LiveLocs /\ LiveLocs \subseteq Locations
    BY <1>0, <1>5, <2>1 DEF DeleteWorkingLocation, BranchesTypeOK, Location, LiveLocs
  <2>3. (LoneHq /\ DistinctNames /\ OneManagerPerBranch)'
    BY <2>1, <2>2 DEF BranchInv, LoneHq, DistinctNames, OneManagerPerBranch
  <2>4. BranchesTypeOK' /\ \A s \in BRequests : BCurrent(breq[s])'
    BY <1>0, <2>1, <2>2, BranchEnd DEF BranchesTypeOK
  <2> QED  BY <2>3, <2>4 DEF BranchInv
<1>6. ASSUME BAbort(r) PROVE BranchInv'
  <2>1. BDone(r) /\ UNCHANGED <<loc, person, manager>>
    BY <1>6 DEF BAbort
  <2>2. (LoneHq /\ DistinctNames /\ OneManagerPerBranch)'
    BY <2>1 DEF BranchInv, LoneHq, DistinctNames, OneManagerPerBranch, LiveLocs
  <2>3. BranchesTypeOK' /\ \A s \in BRequests : BCurrent(breq[s])'
    BY <1>0, <2>1, BranchEnd DEF BranchesTypeOK
  <2> QED  BY <2>2, <2>3 DEF BranchInv
<1> QED  BY <1>1, <1>2, <1>3, <1>4, <1>5, <1>6 DEF LocationNext

\* Every step of a request about people and managers keeps the invariant.
LEMMA BranchManagerStep ==
    ASSUME OneBranchRequest, BranchInv, NEW r \in BRequests, ManagerNext(r)
    PROVE  BranchInv'
<1>0. BranchesTypeOK /\ BCurrent(breq[r]) /\ breq[r] \in BRequest
  BY DEF BranchInv, BranchesTypeOK
<1>a. UNCHANGED loc => (LoneHq /\ DistinctNames)'
  BY DEF BranchInv, LoneHq, DistinctNames, LiveLocs
<1>1. ASSUME NEW l \in Locations, NEW u \in Staff, CheckAssignBranchManager(r, l, u)
      PROVE  BranchInv'
  <2> DEFINE q == [op |-> "assign", loc |-> l, user |-> u]
  <2>1. q \in BRequest /\ BCurrent(q)
    BY DEF BRequest, BCurrent
  <2> QED  BY <1>1, <2>1, BranchBegin DEF CheckAssignBranchManager
<1>2. ASSUME NEW l \in Locations, NEW u \in Staff, CheckMoveUser(r, u, l)
      PROVE  BranchInv'
  <2> DEFINE q == [op |-> "move", loc |-> l, user |-> u]
  <2>1. q \in BRequest /\ BCurrent(q)
    BY DEF BRequest, BCurrent
  <2> QED  BY <1>2, <2>1, BranchBegin DEF CheckMoveUser
<1>3. ASSUME NEW l \in Locations, NEW u \in Staff, NEW asManager \in BOOLEAN,
             CheckApproveUser(r, u, l, asManager)
      PROVE  BranchInv'
  <2> DEFINE q == [op |-> "approve", loc |-> l, user |-> u, asManager |-> asManager]
  <2>1. q \in BRequest
    BY DEF BRequest
  <2>2. BCurrent(q)
    BY <1>3 DEF BCurrent, CheckApproveUser
  <2> QED  BY <1>3, <2>1, <2>2, BranchBegin DEF CheckApproveUser
<1>4. ASSUME AssignBranchManager(r) PROVE BranchInv'
  <2>1. /\ breq[r].loc \in Locations /\ breq[r].user \in Staff
        /\ BDone(r) /\ UNCHANGED <<loc, person>>
        /\ manager' = {m \in manager : m[1] # breq[r].loc} \cup {<<breq[r].loc, breq[r].user>>}
    BY <1>0, <1>4 DEF AssignBranchManager, BRequest, Reassigned
  <2>2. manager' \subseteq Locations \X Staff
    BY <1>0, <2>1 DEF BranchesTypeOK
  <2>3. OneManagerPerBranch'
    BY <2>1 DEF BranchInv, OneManagerPerBranch
  <2>4. BranchesTypeOK' /\ \A s \in BRequests : BCurrent(breq[s])'
    BY <1>0, <2>1, <2>2, BranchEnd DEF BranchesTypeOK
  <2> QED  BY <1>a, <2>1, <2>3, <2>4 DEF BranchInv
<1>5. ASSUME ApproveBranchUser(r) PROVE BranchInv'
  <2> DEFINE q == breq[r]
  <2>1. q \in [op : {"approve"}, loc : Locations, user : Staff, asManager : BOOLEAN]
    BY <1>0, <1>5 DEF ApproveBranchUser, BRequest
  <2>2. /\ BDone(r) /\ UNCHANGED loc
        /\ person' = [person EXCEPT ![q.user] = [status |-> "ACTIVE", at |-> q.loc]]
        /\ manager' = IF q.asManager THEN manager \cup {<<q.loc, q.user>>} ELSE manager
    BY <1>5 DEF ApproveBranchUser
  <2>3. q.asManager => \A m \in manager : m[1] = q.loc => m[2] = q.user
    BY <1>0, <2>1 DEF BCurrent, NoOtherManager
  <2>4. \A m \in manager : m = <<m[1], m[2]>>
    BY <1>0 DEF BranchesTypeOK
  <2>5. person' \in [Staff -> Person] /\ manager' \subseteq Locations \X Staff
    BY <1>0, <2>1, <2>2 DEF BranchesTypeOK, Person
  <2>6. OneManagerPerBranch'
    <3>1. CASE ~ q.asManager
      BY <2>2, <3>1 DEF BranchInv, OneManagerPerBranch
    <3>2. CASE q.asManager
      <4>1. \A m \in manager : m[1] = q.loc => m = <<q.loc, q.user>>
        BY <2>3, <2>4, <3>2
      <4> QED  BY <2>2, <3>2, <4>1 DEF BranchInv, OneManagerPerBranch
    <3> QED  BY <3>1, <3>2
  <2>7. BranchesTypeOK' /\ \A s \in BRequests : BCurrent(breq[s])'
    BY <1>0, <2>2, <2>5, BranchEnd DEF BranchesTypeOK
  <2> QED  BY <1>a, <2>2, <2>6, <2>7 DEF BranchInv
<1>6. ASSUME MoveUser(r) PROVE BranchInv'
  <2>1. /\ breq[r].loc \in Locations /\ breq[r].user \in Staff
        /\ BDone(r) /\ UNCHANGED <<loc, manager>>
    BY <1>0, <1>6 DEF MoveUser, BRequest
  <2>2. person' \in [Staff -> Person]
    BY <1>0, <1>6, <2>1 DEF MoveUser, BranchesTypeOK, Person
  <2>3. OneManagerPerBranch'
    BY <2>1 DEF BranchInv, OneManagerPerBranch
  <2>4. BranchesTypeOK' /\ \A s \in BRequests : BCurrent(breq[s])'
    BY <1>0, <2>1, <2>2, BranchEnd DEF BranchesTypeOK
  <2> QED  BY <1>a, <2>1, <2>3, <2>4 DEF BranchInv
<1> QED  BY <1>1, <1>2, <1>3, <1>4, <1>5, <1>6 DEF ManagerNext

\* The invariant is inductive for requests that come one at a time.
LEMMA BranchStep ==
    ASSUME OneBranchRequest
    PROVE  BranchInv /\ [BranchesNext]_branchVars => BranchInv'
<1> SUFFICES ASSUME BranchInv, [BranchesNext]_branchVars PROVE BranchInv'
  OBVIOUS
<1>1. ASSUME UNCHANGED <<loc, manager, breq>>, person' \in [Staff -> Person]
      PROVE  BranchInv'
  BY <1>1 DEF BranchInv, BranchesTypeOK, LoneHq, DistinctNames, OneManagerPerBranch,
              BCurrent, NameFree, NoOtherManager, LiveLocs
<1>2. ASSUME NEW u \in Staff, NEW s \in {"ACTIVE", "INACTIVE", "REJECTED"},
             SetUserStatus(u, s)
      PROVE  BranchInv'
  <2>1. person' \in [Staff -> Person]
    BY <1>2 DEF SetUserStatus, BranchInv, BranchesTypeOK, Person
  <2> QED  BY <1>1, <1>2, <2>1 DEF SetUserStatus
<1>3. CASE UNCHANGED branchVars
  BY <1>1, <1>3 DEF branchVars, BranchInv, BranchesTypeOK
<1> QED  BY <1>2, <1>3, BranchLocationStep, BranchManagerStep DEF BranchesNext

\* With requests one at a time, creation, change and deletion of locations,
\* approvals, assignments and moves (organization.service.ts, users.service.ts)
\* leave one headquarters, one location of a name and one manager of a branch,
\* however many of each there are.
THEOREM BranchesAreSound ==
    ASSUME OneBranchRequest
    PROVE  BranchesSpec => []BranchesSound
<1>1. BranchInv => BranchesSound
  <2> SUFFICES ASSUME BranchInv PROVE OneHq
    BY DEF BranchInv, BranchesSound
  <2>1. \A k, l \in {h \in LiveLocs : loc[h].hq} : k = l
    BY DEF BranchInv, LoneHq
  <2> QED  BY <2>1, AtMostOne DEF OneHq
<1> QED  BY <1>1, BranchInit, BranchStep, PTL DEF BranchesSpec

-----------------------------------------------------------------------------
(* Placement: departments that are wound down *)

\* Placement requests come one at a time.
OnePlacementRequest == \A r, s \in PRequests : r = s

\* A deactivation about to be requested is one of a department in use that has
\* employees; a transfer about to be decided exists.
PCurrent(q) ==
    /\ q.op = "request" => Accepting(q.dept) /\ Assigned(q.dept) # {}
    /\ q.op \in {"forward", "finalize", "reject"} => xfer[q.id].status # "NONE"

PlacementInv ==
    /\ PlacementSound /\ EmptiedIsSeenTo
    /\ \A r \in PRequests : PCurrent(preq[r])

\* The request looks, or is about to archive, department d.
Watches(q, d) == q \in [op : {"left", "archive"}, dept : {d}]

\* The invariant holds when nothing has been created.
LEMMA PlacementStart == PlacementInit => PlacementInv
<1> SUFFICES ASSUME PlacementInit PROVE PlacementInv
  OBVIOUS
<1>1. PlacementTypeOK
  BY DEF PlacementInit, PlacementTypeOK, Dept, NoDept, Transfer, NoTransfer, PRequest,
         PIdle, People
<1>2. PendingIsActive /\ EmptiedIsSeenTo
  BY DEF PlacementInit, PendingIsActive, EmptiedIsSeenTo, Emptied, NoDept
<1>3. SuspendedIsSignedOut
  BY DEF PlacementInit, SuspendedIsSignedOut, People
<1>4. \A r \in PRequests : PCurrent(preq[r])
  BY DEF PlacementInit, PCurrent, PIdle
<1> QED  BY <1>1, <1>2, <1>3, <1>4 DEF PlacementInv, PlacementSound

\* What a step of the one request has to establish.
LEMMA PlacementAfter ==
    ASSUME OnePlacementRequest, NEW r \in PRequests,
           PlacementTypeOK', PendingIsActive', SuspendedIsSignedOut', PCurrent(preq[r])',
           \A d \in Depts : Emptied(d)' => d \in missed' \/ Watches(preq[r], d)'
    PROVE  PlacementInv'
<1>1. \A s \in PRequests : PCurrent(preq[s])'
  BY DEF OnePlacementRequest
<1>2. EmptiedIsSeenTo'
  BY DEF EmptiedIsSeenTo, Watches
<1> QED  BY <1>1, <1>2 DEF PlacementInv, PlacementSound

\* A request at any other step watches nothing, so what is emptied was missed.
LEMMA NobodyWatches ==
    ASSUME OnePlacementRequest, PlacementInv, NEW r \in PRequests,
           preq[r].op \notin {"left", "archive"}
    PROVE  \A d \in Depts : Emptied(d) => d \in missed
<1>1. \A s \in PRequests : preq[s].op \notin {"left", "archive"}
  BY DEF OnePlacementRequest
<1> QED  BY <1>1 DEF PlacementInv, EmptiedIsSeenTo

\* A request that begins with its checks made.
LEMMA PlacementBegin ==
    ASSUME OnePlacementRequest, PlacementInv, NEW r \in PRequests, NEW q \in PRequest,
           PCurrent(q), PBegin(r, q)
    PROVE  PlacementInv'
<1>1. PlacementTypeOK /\ preq'[r] = q /\ preq[r].op = "idle"
  BY DEF PlacementInv, PlacementSound, PlacementTypeOK, PBegin, PIdle
<1>2. UNCHANGED <<dept, open, placed, active, signed, xfer, missed>>
  BY DEF PBegin
<1>3. PlacementTypeOK'
  BY <1>1, <1>2 DEF PlacementTypeOK, PBegin
<1>4. PendingIsActive' /\ SuspendedIsSignedOut'
  BY <1>2 DEF PlacementInv, PlacementSound, PendingIsActive, SuspendedIsSignedOut
<1>5. PCurrent(preq[r])'
  BY <1>1, <1>2 DEF PCurrent, Accepting, Assigned
<1>6. \A d \in Depts : Emptied(d)' => d \in missed'
  BY <1>1, <1>2, NobodyWatches DEF Emptied, Assigned
<1> QED  BY <1>3, <1>4, <1>5, <1>6, PlacementAfter

\* What a write outside the requests has to establish.
LEMMA PlacementBeside ==
    ASSUME PlacementInv, UNCHANGED <<placed, preq, missed>>,
           PlacementTypeOK', PendingIsActive', SuspendedIsSignedOut',
           \A d \in Depts : /\ dept'[d].pending => dept[d].pending
                            /\ Accepting(d) => Accepting(d)',
           \A t \in Transfers : xfer[t].status # "NONE" => xfer'[t].status # "NONE"
    PROVE  PlacementInv'
<1>1. EmptiedIsSeenTo'
  BY DEF PlacementInv, EmptiedIsSeenTo, Emptied, Assigned
<1>2. ASSUME NEW r \in PRequests PROVE PCurrent(preq[r])'
  <2>1. PCurrent(preq[r]) /\ preq[r] \in PRequest
    BY DEF PlacementInv, PlacementSound, PlacementTypeOK
  <2>2. preq[r].op = "request" => preq[r].dept \in Depts
    BY <2>1 DEF PRequest
  <2>3. preq[r].op \in {"forward", "finalize", "reject"} => preq[r].id \in Transfers
    BY <2>1 DEF PRequest
  <2>4. preq[r].op = "request" => Accepting(preq[r].dept)' /\ (Assigned(preq[r].dept) # {})'
    BY <2>1, <2>2 DEF PCurrent, Assigned
  <2> QED  BY <2>1, <2>3, <2>4 DEF PCurrent
<1> QED  BY <1>1, <1>2 DEF PlacementInv, PlacementSound

\* Every step of a department's request keeps the invariant.
LEMMA DepartmentStep ==
    ASSUME OnePlacementRequest, PlacementInv, NEW r \in PRequests, DepartmentNext(r)
    PROVE  PlacementInv'
<1>0. /\ PlacementTypeOK /\ PendingIsActive /\ SuspendedIsSignedOut
      /\ PCurrent(preq[r]) /\ preq[r] \in PRequest /\ PIdle \in PRequest
  BY DEF PlacementInv, PlacementSound, PlacementTypeOK, PRequest, PIdle
<1>1. ASSUME NEW d \in Depts, DeleteDepartment(r, d) PROVE PlacementInv'
  <2>1. PICK q : q = [op |-> DeleteBecomes(d), dept |-> d]
    OBVIOUS
  <2>2. q \in PRequest /\ PCurrent(q)
    BY <1>1, <2>1 DEF DeleteDepartment, DeleteBecomes, PRequest, PCurrent, Accepting
  <2> QED  BY <1>1, <2>1, <2>2, PlacementBegin DEF DeleteDepartment
<1>2. ASSUME NEW d \in Depts, CheckEnableAtLocation(r, d) PROVE PlacementInv'
  <2> DEFINE q == [op |-> "enable", dept |-> d]
  <2>1. q \in PRequest /\ PCurrent(q)
    BY DEF PRequest, PCurrent
  <2> QED  BY <1>2, <2>1, PlacementBegin DEF CheckEnableAtLocation
<1>3. ASSUME NEW d \in Depts, CheckSuspendAndArchive(r, d) PROVE PlacementInv'
  <2> DEFINE q == [op |-> "suspendAll", dept |-> d]
  <2>1. q \in PRequest /\ PCurrent(q)
    BY DEF PRequest, PCurrent
  <2> QED  BY <1>3, <2>1, PlacementBegin DEF CheckSuspendAndArchive
<1>4. ASSUME RequestDepartmentDeactivation(r) PROVE PlacementInv'
  <2>1. PICK d \in Depts : d = preq[r].dept
    BY <1>0, <1>4 DEF RequestDepartmentDeactivation, PRequest
  <2>2. /\ dept' = [dept EXCEPT ![d].pending = TRUE]
        /\ preq' = [preq EXCEPT ![r] = PIdle]
        /\ UNCHANGED <<open, placed, active, signed, xfer, missed>>
        /\ preq[r].op = "request"
    BY <1>4, <2>1 DEF RequestDepartmentDeactivation, PGoto
  <2>3. dept[d].status = "ACTIVE" /\ Assigned(d) # {}
    BY <1>0, <2>1, <2>2 DEF PCurrent, Accepting
  <2>4. /\ dept' \in [Depts -> Dept] /\ preq'[r] = PIdle
        /\ \A e \in Depts : dept'[e].status = dept[e].status
                            /\ (e # d => dept'[e].pending = dept[e].pending)
    BY <1>0, <2>2 DEF PlacementTypeOK, Dept
  <2>5. PlacementTypeOK'
    BY <1>0, <2>2, <2>4 DEF PlacementTypeOK
  <2>6. PendingIsActive' /\ SuspendedIsSignedOut'
    BY <1>0, <2>2, <2>3, <2>4 DEF PendingIsActive, SuspendedIsSignedOut
  <2>7. \A e \in Depts : Emptied(e)' => e \in missed'
    BY <2>2, <2>3, <2>4, NobodyWatches DEF Emptied, Assigned
  <2>8. PCurrent(preq[r])'
    BY <2>4 DEF PCurrent, PIdle
  <2> QED  BY <2>5, <2>6, <2>7, <2>8, PlacementAfter
\* Archiving and enabling write the row afresh with nothing pending.
<1>a. ASSUME NEW d \in Depts, NEW st \in {"ACTIVE", "INACTIVE"}, preq[r].dept = d,
             preq[r].op \in {"archive", "enable", "suspendAll"},
             dept' = [dept EXCEPT ![d] = [status |-> st, pending |-> FALSE]],
             missed' = missed \ {d}, PGoto(r, PIdle), UNCHANGED <<open, placed, xfer>>,
             active' \subseteq active, signed' \subseteq signed \cap active'
      PROVE  PlacementInv'
  <2>1. /\ dept' \in [Depts -> Dept] /\ preq'[r] = PIdle
        /\ ~ dept'[d].pending
        /\ \A e \in Depts \ {d} : dept'[e] = dept[e]
    BY <1>0, <1>a DEF PlacementTypeOK, Dept, PGoto
  <2>2. PlacementTypeOK'
    BY <1>0, <1>a, <2>1 DEF PlacementTypeOK, PGoto
  <2>3. PendingIsActive' /\ SuspendedIsSignedOut'
    BY <1>0, <1>a, <2>1 DEF PendingIsActive, SuspendedIsSignedOut
  <2>4. PCurrent(preq[r])'
    BY <2>1 DEF PCurrent, PIdle
  <2>5. ASSUME NEW e \in Depts, Emptied(e)' PROVE e \in missed'
    <3>1. e # d
      BY <2>1, <2>5 DEF Emptied
    <3>2. Emptied(e)
      BY <1>a, <2>1, <2>5, <3>1 DEF Emptied, Assigned
    <3>3. \A s \in PRequests : ~ preq[s] \in [op : {"left", "archive"}, dept : {e}]
      BY <1>a, <3>1 DEF OnePlacementRequest
    <3>4. e \in missed
      BY <3>2, <3>3 DEF PlacementInv, EmptiedIsSeenTo
    <3> QED  BY <1>a, <3>1, <3>4
  <2> QED  BY <2>2, <2>3, <2>4, <2>5, PlacementAfter
<1>5. ASSUME ArchiveDepartmentNow(r) PROVE PlacementInv'
  <2>1. preq[r].dept \in Depts
    BY <1>0, <1>5 DEF ArchiveDepartmentNow, PRequest
  <2>2. UNCHANGED <<active, signed>> /\ signed \subseteq active
    BY <1>0, <1>5 DEF ArchiveDepartmentNow, SuspendedIsSignedOut
  <2> QED  BY <1>5, <1>a, <2>1, <2>2 DEF ArchiveDepartmentNow, Archived
<1>6. ASSUME EnableAtLocation(r) PROVE PlacementInv'
  <2>1. preq[r].dept \in Depts
    BY <1>0, <1>6 DEF EnableAtLocation, PRequest
  <2>2. UNCHANGED <<active, signed>> /\ signed \subseteq active
    BY <1>0, <1>6 DEF EnableAtLocation, SuspendedIsSignedOut
  <2> QED  BY <1>6, <1>a, <2>1, <2>2 DEF EnableAtLocation
<1>7. ASSUME SuspendAndArchive(r) PROVE PlacementInv'
  <2>1. preq[r].dept \in Depts
    BY <1>0, <1>7 DEF SuspendAndArchive, PRequest
  <2>2. active' \subseteq active /\ signed' \subseteq signed \cap active'
    BY <1>0, <1>7 DEF SuspendAndArchive, SignedAfter, SuspendedIsSignedOut
  <2> QED  BY <1>7, <1>a, <2>1, <2>2 DEF SuspendAndArchive, Archived
<1>8. ASSUME ArchiveIfEmpty(r) PROVE PlacementInv'
  <2>1. PICK d \in Depts : d = preq[r].dept
    BY <1>0, <1>8 DEF ArchiveIfEmpty, PRequest
  <2>2. /\ preq[r] = [op |-> "left", dept |-> d]
        /\ UNCHANGED <<dept, open, placed, active, signed, xfer, missed>>
    BY <1>0, <1>8, <2>1 DEF ArchiveIfEmpty, PRequest
  <2>3. /\ preq' = [preq EXCEPT ![r] = preq'[r]]
        /\ preq'[r] = IF Emptied(d) THEN [op |-> "archive", dept |-> d] ELSE PIdle
    BY <1>0, <1>8, <2>1 DEF ArchiveIfEmpty, PGoto, Emptied, PlacementTypeOK
  <2>4. preq'[r] \in PRequest /\ PCurrent(preq[r])'
    BY <1>0, <2>3 DEF PRequest, PCurrent, PIdle
  <2>5. PlacementTypeOK' /\ PendingIsActive' /\ SuspendedIsSignedOut'
    BY <1>0, <2>2, <2>3, <2>4 DEF PlacementTypeOK, PendingIsActive, SuspendedIsSignedOut
  <2>6. ASSUME NEW e \in Depts, Emptied(e)'
        PROVE  e \in missed' \/ Watches(preq[r], e)'
    <3>1. Emptied(e)
      BY <2>2, <2>6 DEF Emptied, Assigned
    <3>2. CASE e = d
      BY <2>3, <3>1, <3>2 DEF Watches
    <3>3. CASE e # d
      <4>1. \A s \in PRequests : ~ preq[s] \in [op : {"left", "archive"}, dept : {e}]
        BY <2>2, <3>3 DEF OnePlacementRequest
      <4> QED  BY <2>2, <3>1, <4>1 DEF PlacementInv, EmptiedIsSeenTo
    <3> QED  BY <3>2, <3>3
  <2> QED  BY <2>4, <2>5, <2>6, PlacementAfter
<1> QED  BY <1>1, <1>2, <1>3, <1>4, <1>5, <1>6, <1>7, <1>8 DEF DepartmentNext

\* Moving somebody: whoever leaves a department last is followed by a look at
\* it, or the department is counted as missed.
LEMMA MoveStep ==
    ASSUME OnePlacementRequest, PlacementInv, NEW r \in PRequests,
           preq[r].op \notin {"left", "archive"},
           NEW p \in People, NEW new \in Depts \cup {Nowhere},
           NEW old \in Depts \cup {Nowhere},
           placed' = [placed EXCEPT ![p] = new],
           preq' = [preq EXCEPT ![r] = preq'[r]],
           preq'[r] = PIdle \/ (old # Nowhere /\ preq'[r] = [op |-> "left", dept |-> old]),
           missed \subseteq missed', missed' \subseteq Depts,
           p \in Workers /\ placed[p] \notin {new, Nowhere} =>
             placed[p] \in missed' \/ preq'[r] = [op |-> "left", dept |-> placed[p]],
           xfer' \in [Transfers -> Transfer],
           UNCHANGED <<dept, open, active, signed>>
    PROVE  PlacementInv'
<1>1. /\ PlacementTypeOK /\ PendingIsActive /\ SuspendedIsSignedOut
      /\ PIdle \in PRequest
  BY DEF PlacementInv, PlacementSound, PRequest, PIdle
<1>2. preq'[r] \in PRequest /\ PCurrent(preq[r])'
  BY <1>1 DEF PRequest, PCurrent, PIdle
<1>3. PlacementTypeOK'
  BY <1>1, <1>2 DEF PlacementTypeOK
<1>4. PendingIsActive' /\ SuspendedIsSignedOut'
  BY <1>1 DEF PendingIsActive, SuspendedIsSignedOut
<1>5. ASSUME NEW d \in Depts, Emptied(d)'
      PROVE  d \in missed' \/ Watches(preq[r], d)'
  <2>1. CASE Emptied(d)
    BY <2>1, NobodyWatches
  <2>2. CASE ~ Emptied(d)
    <3>1. PICK e \in Workers : placed[e] = d /\ placed'[e] # d
      BY <1>5, <2>2 DEF Emptied, Assigned
    <3>2. e = p /\ new # d
      BY <1>1, <3>1 DEF PlacementTypeOK, People
    <3>3. d # Nowhere
      BY PlacementAssumption
    <3> QED  BY <3>1, <3>2, <3>3 DEF Watches
  <2> QED  BY <2>1, <2>2
<1> QED  BY <1>2, <1>3, <1>4, <1>5, PlacementAfter

\* Placement of employees and users keeps the invariant.
LEMMA PlaceStep ==
    ASSUME OnePlacementRequest, PlacementInv, NEW r \in PRequests, PlaceNext(r)
    PROVE  PlacementInv'
<1>0. PlacementTypeOK /\ preq[r] \in PRequest
  BY DEF PlacementInv, PlacementSound, PlacementTypeOK
<1>1. ASSUME NEW e \in Workers, NEW d \in Depts, CheckPlaceEmployee(r, e, d)
      PROVE  PlacementInv'
  <2>1. PICK q : q = [op |-> "move", who |-> e, dept |-> d, old |-> placed[e]]
    OBVIOUS
  <2>2. q \in PRequest /\ PCurrent(q)
    BY <1>0, <2>1 DEF PRequest, PCurrent, PlacementTypeOK, People
  <2> QED  BY <1>1, <2>1, <2>2, PlacementBegin DEF CheckPlaceEmployee
<1>2. ASSUME NEW u \in Members, NEW d \in Depts \cup {Nowhere}, CheckPlaceUser(r, u, d)
      PROVE  PlacementInv'
  <2>1. PICK q : q = [op |-> "move", who |-> u, dept |-> d, old |-> placed[u]]
    OBVIOUS
  <2>2. q \in PRequest /\ PCurrent(q)
    BY <1>0, <2>1 DEF PRequest, PCurrent, PlacementTypeOK, People
  <2> QED  BY <1>2, <2>1, <2>2, PlacementBegin DEF CheckPlaceUser
<1>3. ASSUME Place(r) PROVE PlacementInv'
  <2>1. PICK p \in People, new \in Depts \cup {Nowhere}, old \in Depts \cup {Nowhere} :
          preq[r] = [op |-> "move", who |-> p, dept |-> new, old |-> old]
    BY <1>0, <1>3 DEF Place, PRequest
  <2>2. /\ placed' = [placed EXCEPT ![p] = new]
        /\ missed' = MissedBy(p, old)
        /\ preq' = [preq EXCEPT ![r] = AfterLeaving(p, old)]
        /\ UNCHANGED <<dept, open, active, signed, xfer>>
    BY <1>3, <2>1 DEF Place, PGoto
  <2>3. preq'[r] = AfterLeaving(p, old) /\ preq' = [preq EXCEPT ![r] = preq'[r]]
    BY <1>0, <2>2 DEF PlacementTypeOK
  <2>4. placed[p] \in Depts \cup {Nowhere} /\ missed \subseteq Depts
    BY <1>0 DEF PlacementTypeOK
  <2>5. /\ preq'[r] = PIdle \/ (old # Nowhere /\ preq'[r] = [op |-> "left", dept |-> old])
        /\ missed \subseteq missed' /\ missed' \subseteq Depts
    BY <2>2, <2>3, <2>4 DEF AfterLeaving, MissedBy
  <2>6. p \in Workers /\ placed[p] \notin {new, Nowhere} =>
          placed[p] \in missed' \/ preq'[r] = [op |-> "left", dept |-> placed[p]]
    BY <2>2, <2>3 DEF AfterLeaving, MissedBy
  <2>7. xfer' \in [Transfers -> Transfer] /\ preq[r].op \notin {"left", "archive"}
    BY <1>0, <2>1, <2>2 DEF PlacementTypeOK
  <2> QED  BY <2>2, <2>3, <2>5, <2>6, <2>7, MoveStep
<1> QED  BY <1>1, <1>2, <1>3 DEF PlaceNext

\* Every step that decides a transfer keeps the invariant.
LEMMA TransferStep ==
    ASSUME OnePlacementRequest, PlacementInv, NEW r \in PRequests, TransferNext(r)
    PROVE  PlacementInv'
<1>0. /\ PlacementTypeOK /\ PendingIsActive /\ SuspendedIsSignedOut
      /\ PCurrent(preq[r]) /\ preq[r] \in PRequest /\ PIdle \in PRequest
  BY DEF PlacementInv, PlacementSound, PlacementTypeOK, PRequest, PIdle
<1>1. ASSUME NEW t \in Transfers, CheckApproveTransfer(r, t) PROVE PlacementInv'
  <2>1. PICK q : q = [op |-> IF xfer[t].level = "BRANCH_MANAGER" THEN "forward" ELSE "finalize",
                      id |-> t]
    OBVIOUS
  <2>2. q \in PRequest /\ PCurrent(q)
    BY <1>1, <2>1 DEF CheckApproveTransfer, Undecided, PRequest, PCurrent
  <2> QED  BY <1>1, <2>1, <2>2, PlacementBegin DEF CheckApproveTransfer
<1>2. ASSUME NEW t \in Transfers, CheckRejectTransfer(r, t) PROVE PlacementInv'
  <2> DEFINE q == [op |-> "reject", id |-> t]
  <2>1. q \in PRequest /\ PCurrent(q)
    BY <1>2 DEF CheckRejectTransfer, Undecided, PRequest, PCurrent
  <2> QED  BY <1>2, <2>1, PlacementBegin DEF CheckRejectTransfer
\* The row under decision is one that was requested.
<1>3. ASSUME preq[r].op \in {"forward", "finalize", "reject"}
      PROVE  \E t \in Transfers :
               /\ t = preq[r].id
               /\ xfer[t] \in [status : {"PENDING", "APPROVED", "REJECTED"}, level : Levels,
                               who : People, old : Depts \cup {Nowhere},
                               new : Depts \cup {Nowhere}]
  <2>1. preq[r].id \in Transfers
    BY <1>0, <1>3 DEF PRequest
  <2> QED  BY <1>0, <1>3, <2>1 DEF PCurrent, PlacementTypeOK, Transfer
\* A decision that moves nobody.
<1>a. ASSUME preq[r].op \in {"forward", "reject"}, PGoto(r, PIdle),
             xfer' \in [Transfers -> Transfer],
             UNCHANGED <<dept, open, placed, active, signed, missed>>
      PROVE  PlacementInv'
  <2>1. preq'[r] = PIdle
    BY <1>0, <1>a DEF PGoto, PlacementTypeOK
  <2>2. PlacementTypeOK' /\ PendingIsActive' /\ SuspendedIsSignedOut'
    BY <1>0, <1>a DEF PlacementTypeOK, PGoto, PendingIsActive, SuspendedIsSignedOut
  <2>3. PCurrent(preq[r])'
    BY <2>1 DEF PCurrent, PIdle
  <2>4. \A d \in Depts : Emptied(d)' => d \in missed'
    BY <1>a, NobodyWatches DEF Emptied, Assigned
  <2> QED  BY <2>2, <2>3, <2>4, PlacementAfter
<1>4. ASSUME ForwardTransfer(r) PROVE PlacementInv'
  <2>1. PICK t \in Transfers :
          /\ t = preq[r].id
          /\ xfer[t] \in [status : {"PENDING", "APPROVED", "REJECTED"}, level : Levels,
                          who : People, old : Depts \cup {Nowhere}, new : Depts \cup {Nowhere}]
    BY <1>3, <1>4 DEF ForwardTransfer
  <2>2. [xfer[t] EXCEPT !.level = "SUPER_ADMIN"] \in Transfer
    BY <2>1 DEF Transfer, Levels
  <2>3. xfer' = [xfer EXCEPT ![t] = [xfer[t] EXCEPT !.level = "SUPER_ADMIN"]]
    BY <1>0, <1>4, <2>1 DEF ForwardTransfer, PlacementTypeOK
  <2>4. xfer' \in [Transfers -> Transfer]
    BY <1>0, <2>2, <2>3 DEF PlacementTypeOK
  <2> QED  BY <1>4, <1>a, <2>4 DEF ForwardTransfer
<1>5. ASSUME RejectTransfer(r) PROVE PlacementInv'
  <2>1. PICK t \in Transfers :
          /\ t = preq[r].id
          /\ xfer[t] \in [status : {"PENDING", "APPROVED", "REJECTED"}, level : Levels,
                          who : People, old : Depts \cup {Nowhere}, new : Depts \cup {Nowhere}]
    BY <1>3, <1>5 DEF RejectTransfer
  <2> DEFINE x == [xfer[t] EXCEPT !.status = "REJECTED", !.level = "REJECTED"]
  <2>2. x \in Transfer
    BY <2>1 DEF Transfer, Levels
  <2>3. xfer' = [xfer EXCEPT ![t] = x]
    BY <1>0, <1>5, <2>1 DEF RejectTransfer, PlacementTypeOK
  <2>4. xfer' \in [Transfers -> Transfer]
    BY <1>0, <2>2, <2>3 DEF PlacementTypeOK
  <2> QED  BY <1>5, <1>a, <2>4 DEF RejectTransfer
\* The row that is granted.
<1>b. ASSUME preq[r].op = "finalize"
      PROVE  \E t \in Transfers, p \in People, new \in Depts \cup {Nowhere},
                old \in Depts \cup {Nowhere} :
               /\ t = preq[r].id
               /\ xfer[t].who = p /\ xfer[t].new = new /\ xfer[t].old = old
               /\ Granted(t) \in [Transfers -> Transfer]
  <2>1. PICK t \in Transfers :
          /\ t = preq[r].id
          /\ xfer[t] \in [status : {"PENDING", "APPROVED", "REJECTED"}, level : Levels,
                          who : People, old : Depts \cup {Nowhere}, new : Depts \cup {Nowhere}]
    BY <1>3, <1>b
  <2> DEFINE x == [xfer[t] EXCEPT !.status = "APPROVED", !.level = "FINALIZED"]
  <2>2. x \in Transfer
    BY <2>1 DEF Transfer, Levels
  <2>3. Granted(t) = [xfer EXCEPT ![t] = x]
    BY <1>0 DEF Granted, PlacementTypeOK
  <2>4. Granted(t) \in [Transfers -> Transfer]
    BY <1>0, <2>2, <2>3 DEF PlacementTypeOK
  <2>5. xfer[t].who \in People /\ xfer[t].new \in Depts \cup {Nowhere}
        /\ xfer[t].old \in Depts \cup {Nowhere}
    BY <2>1
  <2> QED  BY <2>1, <2>4, <2>5
<1>6. ASSUME FinalizeTransfer(r) PROVE PlacementInv'
  <2>0. preq[r].op = "finalize"
    BY <1>6 DEF FinalizeTransfer
  <2>1. PICK t \in Transfers, p \in People, new \in Depts \cup {Nowhere},
             old \in Depts \cup {Nowhere} :
          /\ t = preq[r].id
          /\ xfer[t].who = p /\ xfer[t].new = new /\ xfer[t].old = old
          /\ Granted(t) \in [Transfers -> Transfer]
    BY <1>b, <2>0
  <2>2. /\ p \in Workers
        /\ placed' = [placed EXCEPT ![p] = new]
        /\ xfer' \in [Transfers -> Transfer]
        /\ missed' = IF placed[p] = new THEN missed ELSE MissedBy(p, old)
        /\ preq' = [preq EXCEPT ![r] = IF old = new THEN PIdle ELSE AfterLeaving(p, old)]
        /\ UNCHANGED <<dept, open, active, signed>>
    BY <1>6, <2>1 DEF FinalizeTransfer, PGoto, LeftByTransfer
  <2>3. /\ preq'[r] = IF old = new THEN PIdle ELSE AfterLeaving(p, old)
        /\ preq' = [preq EXCEPT ![r] = preq'[r]]
    BY <1>0, <2>2 DEF PlacementTypeOK
  <2>4. placed[p] \in Depts \cup {Nowhere} /\ missed \subseteq Depts
    BY <1>0 DEF PlacementTypeOK
  <2>5. /\ preq'[r] = PIdle \/ (old # Nowhere /\ preq'[r] = [op |-> "left", dept |-> old])
        /\ missed \subseteq missed' /\ missed' \subseteq Depts
    BY <2>2, <2>3, <2>4 DEF AfterLeaving, MissedBy
  <2>6. p \in Workers /\ placed[p] \notin {new, Nowhere} =>
          placed[p] \in missed' \/ preq'[r] = [op |-> "left", dept |-> placed[p]]
    BY <2>2, <2>3 DEF AfterLeaving, MissedBy
  <2> QED  BY <2>0, <2>2, <2>3, <2>5, <2>6, MoveStep
<1>7. ASSUME FinalizeUserTransfer(r) PROVE PlacementInv'
  <2>0. preq[r].op = "finalize"
    BY <1>7 DEF FinalizeUserTransfer
  <2>1. PICK t \in Transfers, p \in People, new \in Depts \cup {Nowhere},
             old \in Depts \cup {Nowhere} :
          /\ t = preq[r].id
          /\ xfer[t].who = p /\ xfer[t].new = new /\ xfer[t].old = old
          /\ Granted(t) \in [Transfers -> Transfer]
    BY <1>b, <2>0
  <2>2. /\ p \notin Workers
        /\ placed' = [placed EXCEPT ![p] = new]
        /\ xfer' \in [Transfers -> Transfer]
        /\ preq' = [preq EXCEPT ![r] = PIdle]
        /\ UNCHANGED <<dept, open, active, signed, missed>>
    BY <1>7, <2>1, PlacementAssumption DEF FinalizeUserTransfer, PGoto
  <2>3. preq'[r] = PIdle /\ preq' = [preq EXCEPT ![r] = preq'[r]] /\ missed \subseteq Depts
    BY <1>0, <2>2 DEF PlacementTypeOK
  <2> QED  BY <2>0, <2>2, <2>3, MoveStep
<1> QED  BY <1>1, <1>2, <1>4, <1>5, <1>6, <1>7 DEF TransferNext

\* A process that stops leaves the department it watched among the missed.
LEMMA CrashStep ==
    ASSUME OnePlacementRequest, PlacementInv, NEW r \in PRequests, PCrash(r)
    PROVE  PlacementInv'
<1>0. /\ PlacementTypeOK /\ PendingIsActive /\ SuspendedIsSignedOut
      /\ preq[r] \in PRequest /\ PIdle \in PRequest
  BY DEF PlacementInv, PlacementSound, PlacementTypeOK, PRequest, PIdle
<1>1. /\ UNCHANGED <<dept, open, placed, active, signed, xfer>>
      /\ preq' = [preq EXCEPT ![r] = PIdle] /\ preq'[r] = PIdle
      /\ missed' = IF preq[r].op \in {"left", "archive"} THEN missed \cup {preq[r].dept}
                   ELSE missed
  BY <1>0 DEF PCrash, PGoto, PlacementTypeOK
<1>2. preq[r].op \in {"left", "archive"} => preq[r].dept \in Depts
  BY <1>0 DEF PRequest
<1>3. PlacementTypeOK' /\ PendingIsActive' /\ SuspendedIsSignedOut'
  BY <1>0, <1>1, <1>2 DEF PlacementTypeOK, PendingIsActive, SuspendedIsSignedOut
<1>4. PCurrent(preq[r])'
  BY <1>1 DEF PCurrent, PIdle
<1>5. ASSUME NEW d \in Depts, Emptied(d)' PROVE d \in missed'
  <2>1. Emptied(d)
    BY <1>1, <1>5 DEF Emptied, Assigned
  <2>2. d \in missed \/ preq[r] \in [op : {"left", "archive"}, dept : {d}]
    BY <2>1 DEF PlacementInv, EmptiedIsSeenTo, OnePlacementRequest
  <2> QED  BY <1>1, <2>2
<1> QED  BY <1>3, <1>4, <1>5, PlacementAfter

\* Creations, suspensions, sign-ins and new transfers keep the invariant.
LEMMA PlacementBesideStep ==
    ASSUME PlacementInv,
           \/ \E l \in Branch : CreateLocation(l)
           \/ \E k \in Codes, targets \in SUBSET Branch : CreateDepartment(k, targets)
           \/ \E p \in People : ChangeActive(p)
           \/ \E u \in Members : SignIn(u)
           \/ \E t \in Transfers :
                \/ \E e \in Workers, d \in Depts : RequestTransfer(t, e, d)
                \/ \E u \in Members, d \in Depts \cup {Nowhere} : RequestUserTransfer(t, u, d)
    PROVE  PlacementInv'
<1>0. PlacementTypeOK /\ PendingIsActive /\ SuspendedIsSignedOut
  BY DEF PlacementInv, PlacementSound
\* Rows are only created active, with nothing pending.
<1>a. ASSUME UNCHANGED <<placed, active, signed, xfer, preq, missed>>, open' \subseteq Branch,
             NEW S \in SUBSET Depts,
             dept' = [d \in Depts |-> IF d \in S THEN [status |-> "ACTIVE", pending |-> FALSE]
                                      ELSE dept[d]]
      PROVE  PlacementInv'
  <2>1. dept' \in [Depts -> Dept]
    BY <1>0, <1>a DEF PlacementTypeOK, Dept
  <2>2. \A d \in Depts : /\ dept'[d].pending => dept[d].pending /\ d \notin S
                         /\ Accepting(d) => Accepting(d)'
    BY <1>a DEF Accepting
  <2>3. PlacementTypeOK' /\ SuspendedIsSignedOut'
    BY <1>0, <1>a, <2>1 DEF PlacementTypeOK, SuspendedIsSignedOut
  <2>4. PendingIsActive'
    BY <1>0, <1>a, <2>2 DEF PendingIsActive
  <2> QED  BY <1>a, <2>2, <2>3, <2>4, PlacementBeside
<1>1. ASSUME NEW l \in Branch, CreateLocation(l) PROVE PlacementInv'
  <2>1. PICK S \in SUBSET Depts :
          S = {d \in Depts : d[2] = l /\ \E k \in open : dept[<<d[1], k>>].status = "ACTIVE"}
    OBVIOUS
  <2>2. open' \subseteq Branch
    BY <1>0, <1>1 DEF CreateLocation, PlacementTypeOK
  <2>3. dept' = [d \in Depts |-> IF d \in S THEN [status |-> "ACTIVE", pending |-> FALSE]
                                 ELSE dept[d]]
    BY <1>1, <2>1 DEF CreateLocation
  <2> QED  BY <1>1, <1>a, <2>2, <2>3 DEF CreateLocation
<1>2. ASSUME NEW k \in Codes, NEW targets \in SUBSET Branch, CreateDepartment(k, targets)
      PROVE  PlacementInv'
  <2>1. PICK S \in SUBSET Depts :
          S = {d \in Depts : d[1] = k /\ d[2] \in targets /\ dept[d].status = "NONE"}
    OBVIOUS
  <2>2. open' \subseteq Branch
    BY <1>0, <1>2 DEF CreateDepartment, PlacementTypeOK
  <2>3. dept' = [d \in Depts |-> IF d \in S THEN [status |-> "ACTIVE", pending |-> FALSE]
                                 ELSE dept[d]]
    BY <1>2, <2>1 DEF CreateDepartment
  <2> QED  BY <1>2, <1>a, <2>2, <2>3 DEF CreateDepartment
<1>3. ASSUME NEW p \in People, ChangeActive(p) PROVE PlacementInv'
  <2>1. PlacementTypeOK' /\ SuspendedIsSignedOut' /\ PendingIsActive'
    BY <1>0, <1>3 DEF ChangeActive, PlacementTypeOK, SuspendedIsSignedOut, PendingIsActive
  <2> QED  BY <1>3, <2>1, PlacementBeside DEF ChangeActive, Accepting
<1>4. ASSUME NEW u \in Members, SignIn(u) PROVE PlacementInv'
  <2>1. PlacementTypeOK' /\ SuspendedIsSignedOut' /\ PendingIsActive'
    BY <1>0, <1>4 DEF SignIn, PlacementTypeOK, SuspendedIsSignedOut, PendingIsActive
  <2> QED  BY <1>4, <2>1, PlacementBeside DEF SignIn, Accepting
<1>5. ASSUME NEW t \in Transfers, NEW p \in People, NEW d \in Depts \cup {Nowhere},
             xfer' = [xfer EXCEPT ![t] = NewTransfer(p, d)],
             UNCHANGED <<dept, open, placed, active, signed, preq, missed>>
      PROVE  PlacementInv'
  <2>1. NewTransfer(p, d) \in Transfer /\ NewTransfer(p, d).status = "PENDING"
    BY <1>0 DEF NewTransfer, Transfer, Levels, PlacementTypeOK
  <2>2. /\ xfer' \in [Transfers -> Transfer]
        /\ \A s \in Transfers : xfer[s].status # "NONE" => xfer'[s].status # "NONE"
    BY <1>0, <1>5, <2>1 DEF PlacementTypeOK
  <2>3. PlacementTypeOK' /\ SuspendedIsSignedOut' /\ PendingIsActive'
    BY <1>0, <1>5, <2>2 DEF PlacementTypeOK, SuspendedIsSignedOut, PendingIsActive
  <2> QED  BY <1>5, <2>2, <2>3, PlacementBeside DEF Accepting
<1>6. ASSUME NEW t \in Transfers, NEW e \in Workers, NEW d \in Depts, RequestTransfer(t, e, d)
      PROVE  PlacementInv'
  <2>1. e \in People
    BY DEF People
  <2> QED  BY <1>5, <1>6, <2>1 DEF RequestTransfer
<1>7. ASSUME NEW t \in Transfers, NEW u \in Members, NEW d \in Depts \cup {Nowhere},
             RequestUserTransfer(t, u, d)
      PROVE  PlacementInv'
  <2>1. u \in People
    BY DEF People
  <2> QED  BY <1>5, <1>7, <2>1 DEF RequestUserTransfer
<1> QED  BY <1>1, <1>2, <1>3, <1>4, <1>6, <1>7

\* The invariant is inductive for requests that come one at a time.
LEMMA PlacementStep ==
    ASSUME OnePlacementRequest
    PROVE  PlacementInv /\ [PlacementNext]_placementVars => PlacementInv'
<1> SUFFICES ASSUME PlacementInv, [PlacementNext]_placementVars PROVE PlacementInv'
  OBVIOUS
<1>1. CASE UNCHANGED placementVars
  <2>1. PlacementTypeOK' /\ SuspendedIsSignedOut' /\ PendingIsActive'
    BY <1>1 DEF placementVars, PlacementInv, PlacementSound, PlacementTypeOK,
                SuspendedIsSignedOut, PendingIsActive
  <2> QED  BY <1>1, <2>1, PlacementBeside DEF placementVars, Accepting
<1>2. CASE \E r \in PRequests :
             DepartmentNext(r) \/ TransferNext(r) \/ PlaceNext(r) \/ PCrash(r)
  BY <1>2, DepartmentStep, TransferStep, PlaceStep, CrashStep
<1>3. CASE ~ \E r \in PRequests :
               DepartmentNext(r) \/ TransferNext(r) \/ PlaceNext(r) \/ PCrash(r)
  <2>1. CASE PlacementNext
    BY <1>3, <2>1, PlacementBesideStep DEF PlacementNext
  <2> QED  BY <1>1, <2>1
<1> QED  BY <1>2, <1>3

\* With requests one at a time, no pending deactivation outlives its department
\* and nobody suspended with one is signed in, in whichever of the ways
\* department.service.ts winds it down.
THEOREM PlacementIsSound ==
    ASSUME OnePlacementRequest
    PROVE  PlacementSpec => []PlacementSound
<1>1. PlacementInv => PlacementSound
  BY DEF PlacementInv
<1> QED  BY <1>1, PlacementStart, PlacementStep, PTL DEF PlacementSpec

\* "REG Pay will archive it automatically when the department is empty.": with
\* requests one at a time, whatever crashes, a pending department whose last
\* employee has gone is being looked at, or belongs to those nobody looks at
\* because of a crash or of a transfer that names another department.
THEOREM EmptiedDepartmentsAreSeenTo ==
    ASSUME OnePlacementRequest
    PROVE  PlacementSpec => []EmptiedIsSeenTo
<1>1. PlacementInv => EmptiedIsSeenTo
  BY DEF PlacementInv
<1> QED  BY <1>1, PlacementStart, PlacementStep, PTL DEF PlacementSpec

-----------------------------------------------------------------------------
(* Accounts: rotation of sessions, blocked accounts, verification codes *)

\* A code that can be entered has been issued.
CodesStarted == \A u \in Users : account[u].codeOpen => account[u].code >= 1

\* A session replaces an older one.
ParentsBefore == \A s \in SessionIds : session[s].parent < s

\* A refresh in flight is about a session of its user; one that has claimed its
\* session has revoked it, and nothing has replaced that session yet.
Rotating(q) ==
    /\ q.op \in {"refresh", "rotate"} =>
         q.session \in SessionIds /\ q.user = session[q.session].user
    /\ q.op = "rotate" =>
         /\ session[q.session].revoked
         /\ \A t \in SessionIds : session[t].parent # q.session

\* No two requests have claimed the same session.
OneClaim ==
    \A c, d \in Calls :
      call[c].op = "rotate" /\ call[d].op = "rotate" /\ call[c].session = call[d].session
        => c = d

RotationInv ==
    /\ AccountsTypeOK /\ CodesStarted /\ ParentsBefore /\ OneSuccessor /\ OneClaim
    /\ \A c \in Calls : Rotating(call[c])

OneCall == \A c, d \in Calls : call[c] # Idle /\ call[d] # Idle => c = d

RejectedIsDeleted == \A u \in Users : account[u].status = "REJECTED" => account[u].deleted

\* A session was opened with a code that has been issued, and not with the one
\* that can be entered.
CodesBehind ==
    \A s \in SessionIds :
      /\ session[s].code <= account[session[s].user].code
      /\ account[session[s].user].codeOpen =>
           session[s].code # account[session[s].user].code

\* What a request in flight has checked still holds.
Allowed(q) ==
    /\ q.op \in {"login", "refresh", "rotate"} => account[q.user].status \notin Blocked
    /\ q.op \in {"verify", "verified"} =>
         /\ account[q.user].status # "REJECTED"
         /\ q.code <= account[q.user].code
         /\ \A s \in SessionIds : session[s].user = q.user => session[s].code # q.code
    /\ q.op = "verified" => ~ account[q.user].codeOpen

SerialInv ==
    serial => /\ OneCall /\ RejectedIsDeleted /\ CodesBehind
              /\ BlockedIsSignedOut /\ CodeUsedOnce
              /\ \A c \in Calls : Allowed(call[c])

AccountsInv == RotationInv /\ SerialInv

\* The rows of user_sessions stay, and none is made valid again.
RowsKept ==
    /\ session' \in Seq(Session) /\ Len(session') = Len(session)
    /\ \A s \in SessionIds :
         /\ session'[s].user = session[s].user
         /\ session'[s].parent = session[s].parent
         /\ session'[s].code = session[s].code
         /\ session[s].revoked => session'[s].revoked

\* The rows stay as they are and one is added.
RowAdded(row) ==
    /\ session' \in Seq(Session) /\ Len(session') = Len(session) + 1
    /\ \A s \in SessionIds : session'[s] = session[s]
    /\ session'[Len(session) + 1] = row

\* Facts about the rows that every proof below starts from.
LEMMA SessionRows ==
    ASSUME AccountsTypeOK
    PROVE  /\ Len(session) \in Nat
           /\ \A s \in SessionIds : s \in Nat /\ session[s] \in Session
BY LenProperties, ElementOfSeq DEF AccountsTypeOK, SessionIds

\* Revoking one session, or all of a user, keeps the rows.
LEMMA Revoking ==
    ASSUME AccountsTypeOK
    PROVE  /\ UNCHANGED session => RowsKept
           /\ \A t \in SessionIds :
                session' = [session EXCEPT ![t].revoked = TRUE] =>
                  RowsKept /\ session'[t].revoked
           /\ \A u \in Users :
                session' = RevokedAll(u) =>
                  RowsKept /\ \A s \in SessionIds : session[s].user = u => session'[s].revoked
<1>0. session \in Seq(Session)
  BY DEF AccountsTypeOK
<1>1. UNCHANGED session => RowsKept
  BY <1>0 DEF RowsKept
<1>2. ASSUME NEW t \in SessionIds, session' = [session EXCEPT ![t].revoked = TRUE]
      PROVE  RowsKept /\ session'[t].revoked
  <2>1. PICK row : row = [session[t] EXCEPT !.revoked = TRUE]
    OBVIOUS
  <2>2. /\ row \in Session /\ row.revoked
        /\ row.user = session[t].user /\ row.parent = session[t].parent
        /\ row.code = session[t].code
    BY <2>1, SessionRows DEF Session
  <2>3. session' = [session EXCEPT ![t] = row]
    BY <1>2, <2>1
  <2>4. /\ session' \in Seq(Session) /\ Len(session') = Len(session)
        /\ \A j \in SessionIds : session'[j] = IF j = t THEN row ELSE session[j]
    BY <1>0, <2>2, <2>3, ExceptSeq DEF SessionIds
  <2> QED  BY <2>2, <2>4 DEF RowsKept
<1>3. ASSUME NEW u \in Users, session' = RevokedAll(u)
      PROVE  RowsKept /\ \A s \in SessionIds : session[s].user = u => session'[s].revoked
  <2>1. \A s \in SessionIds : session'[s] \in Session
    BY <1>3, SessionRows DEF RevokedAll, Session
  <2>2. session' \in [1 .. Len(session) -> Session]
    BY <1>3, <2>1 DEF RevokedAll, SessionIds
  <2>3. session' \in Seq(Session) /\ Len(session') = Len(session)
    BY <2>2, SessionRows
  <2>4. \A s \in SessionIds :
          session'[s] = IF session[s].user = u THEN [session[s] EXCEPT !.revoked = TRUE]
                        ELSE session[s]
    BY <1>3 DEF RevokedAll
  <2>5. \A s \in SessionIds :
          /\ session'[s].user = session[s].user /\ session'[s].parent = session[s].parent
          /\ session'[s].code = session[s].code
          /\ session[s].revoked => session'[s].revoked
          /\ session[s].user = u => session'[s].revoked
    BY <2>4, SessionRows DEF Session
  <2> QED  BY <2>3, <2>5 DEF RowsKept
<1> QED  BY <1>1, <1>2, <1>3

\* Opening a session adds its row.
LEMMA Opening ==
    ASSUME AccountsTypeOK, NEW u \in Users, NEW parent \in 0 .. MaxSessions,
           NEW code \in 0 .. MaxCodes, session' = Opened(u, parent, code)
    PROVE  RowAdded([user |-> u, revoked |-> FALSE, parent |-> parent, code |-> code])
<1> DEFINE row == [user |-> u, revoked |-> FALSE, parent |-> parent, code |-> code]
<1>1. row \in Session
  BY DEF Session
<1>2. session \in Seq(Session) /\ session' = Append(session, row)
  BY DEF AccountsTypeOK, Opened
<1> QED  BY <1>1, <1>2, AppendProperties DEF RowAdded, SessionIds

\* The invariant holds in an empty database.
LEMMA AccountsStart == AccountsInit => AccountsInv
<1> SUFFICES ASSUME AccountsInit PROVE AccountsInv
  OBVIOUS
<1>1. SessionIds = {} /\ session \in Seq(Session) /\ Len(session) = 0
  BY EmptySeq DEF AccountsInit, SessionIds
<1>2. AccountsTypeOK
  BY <1>1, AccountsAssumption
     DEF AccountsInit, AccountsTypeOK, Account, Status, Call, Idle
<1>3. CodesStarted /\ RejectedIsDeleted
  BY DEF AccountsInit, CodesStarted, RejectedIsDeleted
<1>4. ParentsBefore /\ OneSuccessor /\ CodesBehind /\ BlockedIsSignedOut /\ CodeUsedOnce
  BY <1>1 DEF ParentsBefore, OneSuccessor, CodesBehind, BlockedIsSignedOut, CodeUsedOnce
<1>5. OneClaim /\ OneCall /\ \A c \in Calls : Rotating(call[c]) /\ Allowed(call[c])
  BY DEF AccountsInit, Idle, OneClaim, OneCall, Rotating, Allowed
<1> QED  BY <1>2, <1>3, <1>4, <1>5 DEF AccountsInv, RotationInv, SerialInv

\* A request that begins with its checks made keeps the invariant.
LEMMA AccountsBegin ==
    ASSUME AccountsInv, NEW c \in Calls, NEW q \in Call, Begin(c, q),
           Rotating(q), q.op # "rotate", serial => Allowed(q)
    PROVE  AccountsInv'
<1>1. UNCHANGED <<account, session, serial>> /\ call \in [Calls -> Call]
  BY DEF Begin, AccountsInv, RotationInv, AccountsTypeOK
<1>2. \A d \in Calls : call'[d] = IF d = c THEN q ELSE call[d]
  BY <1>1 DEF Begin
<1>3. AccountsTypeOK'
  BY <1>1 DEF Begin, AccountsInv, RotationInv, AccountsTypeOK
<1>4. (CodesStarted /\ ParentsBefore /\ OneSuccessor)'
  BY <1>1 DEF AccountsInv, RotationInv, CodesStarted, ParentsBefore, OneSuccessor, SessionIds
<1>5. OneClaim'
  BY <1>2 DEF AccountsInv, RotationInv, OneClaim
<1>6. ASSUME NEW d \in Calls PROVE Rotating(call[d])'
  <2>1. Rotating(call[d])
    BY DEF AccountsInv, RotationInv
  <2> QED  BY <1>1, <1>2, <2>1 DEF Rotating, SessionIds
<1>7. SerialInv'
  <2> SUFFICES ASSUME serial'
               PROVE  /\ (OneCall /\ RejectedIsDeleted /\ CodesBehind)'
                      /\ (BlockedIsSignedOut /\ CodeUsedOnce)'
                      /\ \A d \in Calls : Allowed(call[d])'
    BY DEF SerialInv
  <2>1. serial /\ \A d \in Calls : call[d] = Idle
    BY <1>1 DEF Begin, Quiet
  <2>2. OneCall'
    BY <1>2, <2>1 DEF OneCall
  <2>3. (RejectedIsDeleted /\ CodesBehind /\ BlockedIsSignedOut /\ CodeUsedOnce)'
    BY <1>1, <2>1 DEF AccountsInv, SerialInv, RejectedIsDeleted, CodesBehind,
                      BlockedIsSignedOut, CodeUsedOnce, SessionIds, Live
  <2>4. \A d \in Calls : Allowed(call[d])'
    BY <1>1, <1>2, <2>1 DEF Allowed, Idle, SessionIds
  <2> QED  BY <2>2, <2>3, <2>4
<1> QED  BY <1>3, <1>4, <1>5, <1>6, <1>7 DEF AccountsInv, RotationInv

\* What a write of row to an account may do to the promises: the account becomes
\* blocked only as its sessions are revoked, rejected only as it is deleted, and
\* a code becomes open only when it is issued.
SafeRow(u, row) ==
    /\ row.code >= account[u].code
    /\ row.codeOpen =>
         row.code > account[u].code \/ (row.code = account[u].code /\ account[u].codeOpen)
    /\ \/ row.status = account[u].status
       \/ row.status \notin Blocked
       \/ \A s \in SessionIds : session[s].user = u => session'[s].revoked
    /\ row.status = "REJECTED" =>
         row.deleted \/ (account[u].status = "REJECTED" /\ row.deleted = account[u].deleted)

WrittenSafely(u) == SafeRow(u, account'[u])

\* A step that adds no session, begins no refresh and claims nothing keeps the
\* rotation part.
LEMMA RotationKept ==
    ASSUME RotationInv, RowsKept, serial' = serial, account' \in [Users -> Account],
           call' \in [Calls -> Call],
           \A u \in Users : WrittenSafely(u),
           \A c \in Calls : call'[c] = call[c] \/ call'[c].op \notin {"refresh", "rotate"}
    PROVE  RotationInv'
<1>0. AccountsTypeOK /\ SessionIds' = SessionIds
  BY DEF RotationInv, RowsKept, SessionIds
<1>1. AccountsTypeOK'
  BY <1>0 DEF AccountsTypeOK, RowsKept
<1>2. CodesStarted'
  <2> SUFFICES ASSUME NEW u \in Users, account'[u].codeOpen PROVE account'[u].code >= 1
    BY DEF CodesStarted
  <2>1. account[u].code \in Nat /\ account'[u].code \in Nat
    BY <1>0, AccountsAssumption DEF AccountsTypeOK, Account
  <2>2. WrittenSafely(u) /\ (account[u].codeOpen => account[u].code >= 1)
    BY DEF RotationInv, CodesStarted
  <2> QED  BY <2>1, <2>2 DEF WrittenSafely, SafeRow
<1>3. ParentsBefore'
  BY <1>0 DEF RotationInv, ParentsBefore, RowsKept
<1>4. OneSuccessor'
  <2>1. \A s \in SessionIds : session[s].parent # 0 => session[s].parent \in SessionIds
    <3> SUFFICES ASSUME NEW s \in SessionIds, session[s].parent # 0
                 PROVE  session[s].parent \in SessionIds
      OBVIOUS
    <3>1. /\ session[s] \in Session /\ s \in Nat /\ Len(session) \in Nat
          /\ session[s].parent < s
      BY <1>0, SessionRows DEF RotationInv, ParentsBefore
    <3>2. session[s].parent \in Nat
      BY <3>1, AccountsAssumption DEF Session
    <3> QED  BY <3>1, <3>2 DEF SessionIds
  <2> QED  BY <1>0, <2>1 DEF RotationInv, OneSuccessor, RowsKept
<1>5. OneClaim'
  BY DEF RotationInv, OneClaim
<1>6. ASSUME NEW c \in Calls PROVE Rotating(call[c])'
  <2>1. Rotating(call[c])
    BY DEF RotationInv
  <2>2. CASE call'[c].op \notin {"refresh", "rotate"}
    BY <2>2 DEF Rotating
  <2>3. CASE call'[c] = call[c]
    BY <1>0, <2>1, <2>3 DEF Rotating, RowsKept
  <2> QED  BY <2>2, <2>3
<1> QED  BY <1>1, <1>2, <1>3, <1>4, <1>5, <1>6 DEF RotationInv

\* The same step keeps the promises of requests that come one at a time, once
\* those still in flight are vouched for.
LEMMA SerialKept ==
    ASSUME AccountsTypeOK, account' \in [Users -> Account],
           SerialInv, RowsKept, serial' = serial,
           \A u \in Users : WrittenSafely(u),
           serial => OneCall' /\ \A c \in Calls : Allowed(call[c])'
    PROVE  SerialInv'
<1> SUFFICES ASSUME serial'
             PROVE  (RejectedIsDeleted /\ CodesBehind /\ BlockedIsSignedOut /\ CodeUsedOnce)'
  BY DEF SerialInv
<1>0. /\ serial /\ SessionIds' = SessionIds
      /\ RejectedIsDeleted /\ CodesBehind /\ BlockedIsSignedOut /\ CodeUsedOnce
  BY DEF SerialInv, RowsKept, SessionIds
<1>1. RejectedIsDeleted'
  BY <1>0 DEF RejectedIsDeleted, WrittenSafely, SafeRow
<1>2. CodesBehind'
  <2> SUFFICES ASSUME NEW s \in SessionIds
               PROVE  /\ session'[s].code <= account'[session'[s].user].code
                      /\ account'[session'[s].user].codeOpen =>
                           session'[s].code # account'[session'[s].user].code
    BY <1>0 DEF CodesBehind
  <2>1. PICK u \in Users : u = session[s].user /\ u = session'[s].user
    BY SessionRows DEF RowsKept, Session
  <2>a. session[s] \in Session /\ account[u] \in Account /\ account'[u] \in Account
    BY SessionRows DEF AccountsTypeOK
  <2>b. session'[s].code = session[s].code
    BY DEF RowsKept
  <2>2. /\ session[s].code \in Int /\ session'[s].code = session[s].code
        /\ account[u].code \in Int /\ account'[u].code \in Int
    BY <2>a, <2>b DEF Account, Session
  <2>3. /\ session[s].code <= account[u].code
        /\ account[u].codeOpen => session[s].code # account[u].code
    BY <1>0, <2>1 DEF CodesBehind
  <2> QED  BY <2>1, <2>2, <2>3 DEF WrittenSafely, SafeRow
<1>3. BlockedIsSignedOut'
  <2> SUFFICES ASSUME NEW s \in SessionIds, ~ session'[s].revoked
               PROVE  /\ account'[session'[s].user].status # "REJECTED"
                      /\ account'[session'[s].user].status = "SUSPENDED" =>
                           session'[s].code # 0
    BY <1>0 DEF BlockedIsSignedOut, Live
  <2>1. PICK u \in Users : u = session[s].user /\ u = session'[s].user
    BY SessionRows DEF RowsKept, Session
  <2>2. /\ account[u].status # "REJECTED"
        /\ account[u].status = "SUSPENDED" => session[s].code # 0
    BY <1>0, <2>1 DEF BlockedIsSignedOut, Live, RowsKept
  <2> QED  BY <2>1, <2>2 DEF WrittenSafely, SafeRow, RowsKept, Blocked
<1>4. CodeUsedOnce'
  BY <1>0 DEF CodeUsedOnce, RowsKept
<1> QED  BY <1>1, <1>2, <1>3, <1>4

\* With one call in flight, its end leaves nothing to vouch for.
LEMMA NothingInFlight ==
    ASSUME AccountsInv, serial,
           (call' = call /\ Quiet) \/ \E c \in Calls : call[c] # Idle /\ call' = [call EXCEPT ![c] = Idle]
    PROVE  OneCall' /\ \A c \in Calls : Allowed(call[c])'
<1>1. \A c \in Calls : call'[c] = Idle
  BY DEF AccountsInv, RotationInv, SerialInv, OneCall, AccountsTypeOK, Quiet
<1> QED  BY <1>1 DEF OneCall, Allowed, Idle

\* The two kinds of steps that write accounts and revoke sessions: a request
\* that ends, and one that is served at once.
LEMMA AccountsEnd ==
    ASSUME AccountsInv, NEW c \in Calls, call[c] # Idle, Done(c), RowsKept,
           account' \in [Users -> Account], \A u \in Users : WrittenSafely(u)
    PROVE  AccountsInv'
<1>1. call \in [Calls -> Call] /\ AccountsTypeOK /\ RotationInv /\ SerialInv
  BY DEF AccountsInv, RotationInv, AccountsTypeOK
<1>2. serial' = serial /\ call' = [call EXCEPT ![c] = Idle]
  BY DEF Done
<1>3. /\ call' \in [Calls -> Call]
      /\ \A d \in Calls : call'[d] = call[d] \/ call'[d].op \notin {"refresh", "rotate"}
  BY <1>1, <1>2 DEF Call, Idle
<1>4. RotationInv'
  BY <1>1, <1>2, <1>3, RotationKept
<1>5. SerialInv'
  BY <1>1, <1>2, NothingInFlight, SerialKept
<1> QED  BY <1>4, <1>5 DEF AccountsInv

\* An operation that writes accounts safely, in one step, keeps their invariant.
LEMMA AccountsAtOnce ==
    ASSUME AccountsInv, serial => Quiet, UNCHANGED <<call, serial>>, RowsKept,
           account' \in [Users -> Account], \A u \in Users : WrittenSafely(u)
    PROVE  AccountsInv'
<1>1. call \in [Calls -> Call] /\ AccountsTypeOK /\ RotationInv /\ SerialInv
  BY DEF AccountsInv, RotationInv, AccountsTypeOK
<1>2. RotationInv'
  BY <1>1, RotationKept
<1>3. SerialInv'
  BY <1>1, NothingInFlight, SerialKept
<1> QED  BY <1>2, <1>3 DEF AccountsInv

\* An account written in one place: the other accounts are as they were.
LEMMA OneWritten ==
    ASSUME AccountsTypeOK, NEW u \in Users, NEW row \in Account,
           account' = [account EXCEPT ![u] = row],
           SafeRow(u, row)
    PROVE  account' \in [Users -> Account] /\ \A v \in Users : WrittenSafely(v)
<1>1. account \in [Users -> Account]
  BY DEF AccountsTypeOK
<1>2. account' \in [Users -> Account] /\ account'[u] = row
      /\ \A v \in Users \ {u} : account'[v] = account[v]
  BY <1>1
<1>3. \A v \in Users : account[v].code \in Int
  BY <1>1 DEF Account
<1>4. ASSUME NEW v \in Users PROVE WrittenSafely(v)
  <2>1. CASE v = u
    BY <1>2, <2>1 DEF WrittenSafely, SafeRow
  <2>2. CASE v # u
    BY <1>2, <1>3, <2>2 DEF WrittenSafely, SafeRow
  <2> QED  BY <2>1, <2>2
<1> QED  BY <1>2, <1>4

\* Requests that are served at once, and the expiry of codes and links.
LEMMA AccountsUserStep ==
    ASSUME AccountsInv, NEW u \in Users, UserNext(u)
    PROVE  AccountsInv'
<1>0. /\ AccountsTypeOK /\ account[u] \in Account /\ account \in [Users -> Account]
      /\ call \in [Calls -> Call] /\ RotationInv /\ SerialInv
  BY DEF AccountsInv, RotationInv, AccountsTypeOK
<1>1. ASSUME Register(u) PROVE AccountsInv'
  <2>1. PICK row : row = [account[u] EXCEPT !.status = "PENDING", !.password = TRUE]
    OBVIOUS
  <2>2. /\ row \in Account /\ row.code = account[u].code
        /\ row.codeOpen = account[u].codeOpen /\ row.status = "PENDING"
    BY <1>0, <2>1 DEF Account, Status
  <2>3. account' = [account EXCEPT ![u] = row]
    BY <1>0, <1>1, <2>1 DEF Register
  <2>4. RowsKept
    BY <1>0, <1>1, Revoking DEF Register
  <2>5. SafeRow(u, row)
    BY <1>0, <2>2 DEF SafeRow, Account, Blocked
  <2>6. account' \in [Users -> Account] /\ \A v \in Users : WrittenSafely(v)
    BY <1>0, <2>2, <2>3, <2>5, OneWritten
  <2> QED  BY <1>1, <2>4, <2>6, AccountsAtOnce DEF Register
<1>2. ASSUME CreateUser(u) PROVE AccountsInv'
  <2>1. PICK row : row = [account[u] EXCEPT !.status = "ACTIVE", !.link = TRUE]
    OBVIOUS
  <2>2. /\ row \in Account /\ row.code = account[u].code
        /\ row.codeOpen = account[u].codeOpen /\ row.status = "ACTIVE"
    BY <1>0, <2>1 DEF Account, Status
  <2>3. account' = [account EXCEPT ![u] = row]
    BY <1>0, <1>2, <2>1 DEF CreateUser
  <2>4. RowsKept
    BY <1>0, <1>2, Revoking DEF CreateUser
  <2>5. SafeRow(u, row)
    BY <1>0, <2>2 DEF SafeRow, Account, Blocked
  <2>6. account' \in [Users -> Account] /\ \A v \in Users : WrittenSafely(v)
    BY <1>0, <2>2, <2>3, <2>5, OneWritten
  <2> QED  BY <1>2, <2>4, <2>6, AccountsAtOnce DEF CreateUser
<1>3. ASSUME LogoutAll(u) PROVE AccountsInv'
  <2>1. RowsKept
    BY <1>0, <1>3, Revoking DEF LogoutAll
  <2>2. account' \in [Users -> Account] /\ \A v \in Users : WrittenSafely(v)
    BY <1>0, <1>3 DEF LogoutAll, WrittenSafely, SafeRow, Account
  <2> QED  BY <1>3, <2>1, <2>2, AccountsAtOnce DEF LogoutAll
<1>4. ASSUME UpdateProfile(u) PROVE AccountsInv'
  <2>1. PICK row : row = [account[u] EXCEPT !.password = TRUE]
    OBVIOUS
  <2>2. /\ row \in Account /\ row.code = account[u].code
        /\ row.codeOpen = account[u].codeOpen /\ row.status = account[u].status
        /\ row.deleted = account[u].deleted
    BY <1>0, <2>1 DEF Account
  <2>3. account' = [account EXCEPT ![u] = row]
    BY <1>0, <1>4, <2>1 DEF UpdateProfile
  <2>4. RowsKept
    BY <1>0, <1>4, Revoking DEF UpdateProfile
  <2>5. SafeRow(u, row)
    BY <1>0, <2>2 DEF SafeRow, Account, Blocked
  <2>6. account' \in [Users -> Account] /\ \A v \in Users : WrittenSafely(v)
    BY <1>0, <2>2, <2>3, <2>5, OneWritten
  <2> QED  BY <1>4, <2>4, <2>6, AccountsAtOnce DEF UpdateProfile
\* An expiry comes at any time, also while a request is in flight.
<1>5. ASSUME CodeExpires(u) \/ LinkExpires(u) PROVE AccountsInv'
  <2>1. PICK row : row = IF CodeExpires(u) THEN [account[u] EXCEPT !.codeOpen = FALSE]
                         ELSE [account[u] EXCEPT !.link = FALSE]
    OBVIOUS
  <2>2. /\ row \in Account /\ row.code = account[u].code
        /\ row.codeOpen => account[u].codeOpen
        /\ row.status = account[u].status /\ row.deleted = account[u].deleted
    BY <1>0, <2>1 DEF Account
  <2>3. account' = [account EXCEPT ![u] = row] /\ UNCHANGED <<session, call, serial>>
    BY <1>0, <1>5, <2>1 DEF CodeExpires, LinkExpires
  <2>4. RowsKept
    BY <1>0, <2>3, Revoking
  <2>5. SafeRow(u, row)
    BY <1>0, <2>2 DEF SafeRow, Account, Blocked
  <2>6. account' \in [Users -> Account] /\ \A v \in Users : WrittenSafely(v)
    BY <1>0, <2>2, <2>3, <2>5, OneWritten
  <2>7. RotationInv'
    BY <1>0, <2>3, <2>4, <2>6, RotationKept
  <2>8. \A v \in Users : /\ account'[v].status = account[v].status
                         /\ account'[v].code = account[v].code
                         /\ account'[v].codeOpen => account[v].codeOpen
    BY <1>0, <2>2, <2>3
  <2>9. ASSUME serial, NEW c \in Calls PROVE Allowed(call[c])'
    <3>1. Allowed(call[c]) /\ call[c] \in Call
      BY <1>0, <2>9 DEF SerialInv
    <3>2. call[c].op \in {"login", "refresh", "rotate", "verify", "verified"} =>
            call[c].user \in Users
      BY <3>1 DEF Call
    <3> QED  BY <2>3, <2>8, <3>1, <3>2 DEF Allowed, SessionIds
  <2>10. serial => OneCall'
    BY <1>0, <2>3 DEF SerialInv, OneCall
  <2>11. SerialInv'
    BY <1>0, <2>3, <2>4, <2>6, <2>9, <2>10, SerialKept
  <2> QED  BY <2>7, <2>11 DEF AccountsInv
<1> QED  BY <1>1, <1>2, <1>3, <1>4, <1>5 DEF UserNext

\* Requests that begin.
LEMMA AccountsBeginStep ==
    ASSUME AccountsInv, NEW c \in Calls, NEW u \in Users, BeginNext(c, u)
    PROVE  AccountsInv'
<1>0. AccountsTypeOK /\ account[u] \in Account /\ RotationInv /\ SerialInv
  BY DEF AccountsInv, RotationInv, AccountsTypeOK
<1>1. ASSUME Login(c, u) PROVE AccountsInv'
  <2> DEFINE q == [op |-> "login", user |-> u]
  <2>1. q \in Call /\ Rotating(q) /\ q.op # "rotate"
    BY DEF Call, Rotating
  <2>2. Allowed(q)
    BY <1>1 DEF Login, MayLogIn, Allowed
  <2> QED  BY <1>1, <2>1, <2>2, AccountsBegin DEF Login
<1>2. ASSUME VerifyAccount(c, u) PROVE AccountsInv'
  <2>1. PICK q : q = [op |-> "verify", user |-> u, code |-> account[u].code]
    OBVIOUS
  <2>2. account[u].code \in 1 .. MaxCodes
    BY <1>0, <1>2, AccountsAssumption DEF VerifyAccount, RotationInv, CodesStarted, Account
  <2>3. q \in Call /\ Rotating(q) /\ q.op # "rotate"
    BY <2>1, <2>2 DEF Call, Rotating
  <2>4. serial => Allowed(q)
    <3> SUFFICES ASSUME serial PROVE Allowed(q)
      OBVIOUS
    <3>1. account[u].status # "REJECTED"
      BY <1>0, <1>2 DEF VerifyAccount, Present, SerialInv, RejectedIsDeleted
    <3>2. \A s \in SessionIds : session[s].user = u => session[s].code # account[u].code
      BY <1>0, <1>2 DEF VerifyAccount, SerialInv, CodesBehind
    <3> QED  BY <2>1, <2>2, <3>1, <3>2 DEF Allowed
  <2> QED  BY <1>2, <2>1, <2>3, <2>4, AccountsBegin DEF VerifyAccount
<1>3. ASSUME NEW op \in {"approve", "reject", "suspend", "reactivate", "forgot", "reset",
                         "resend"},
             Begin(c, [op |-> op, user |-> u])
      PROVE  AccountsInv'
  <2> DEFINE q == [op |-> op, user |-> u]
  <2>1. q \in Call /\ Rotating(q) /\ q.op # "rotate" /\ Allowed(q)
    BY DEF Call, Rotating, Allowed
  <2> QED  BY <1>3, <2>1, AccountsBegin
<1>4. CASE Login(c, u) \/ VerifyAccount(c, u)
  BY <1>1, <1>2, <1>4
<1>5. CASE ForgotPassword(c, u) \/ ResetPassword(c, u) \/ ResendVerificationCode(c, u)
  BY <1>3, <1>5 DEF ForgotPassword, ResetPassword, ResendVerificationCode
<1>6. CASE \E op \in {"approve", "reject", "suspend", "reactivate"} : Administer(c, op, u)
  BY <1>3, <1>6 DEF Administer
<1> QED  BY <1>4, <1>5, <1>6 DEF BeginNext

\* Requests that start from a session.
LEMMA AccountsSessionStep ==
    ASSUME AccountsInv, NEW s \in SessionIds,
           Logout(s) \/ RefreshBlocked(s) \/ \E c \in Calls : Refresh(c, s)
    PROVE  AccountsInv'
<1>0. /\ AccountsTypeOK /\ RotationInv /\ SerialInv /\ account \in [Users -> Account]
      /\ session[s] \in Session /\ s \in Nat /\ Len(session) \in Nat
  BY SessionRows DEF AccountsInv, RotationInv, AccountsTypeOK
<1>1. ASSUME Logout(s) \/ RefreshBlocked(s) PROVE AccountsInv'
  <2>1. RowsKept
    BY <1>0, <1>1, Revoking DEF Logout, RefreshBlocked
  <2>2. UNCHANGED account
    BY <1>1 DEF Logout, RefreshBlocked
  <2>3. account' \in [Users -> Account] /\ \A v \in Users : WrittenSafely(v)
    BY <1>0, <2>2 DEF WrittenSafely, SafeRow, Account
  <2> QED  BY <1>1, <2>1, <2>3, AccountsAtOnce DEF Logout, RefreshBlocked
<1>2. ASSUME NEW c \in Calls, Refresh(c, s) PROVE AccountsInv'
  <2>1. PICK q : q = [op |-> "refresh", user |-> session[s].user, session |-> s]
    OBVIOUS
  <2>2. session[s].user \in Users
    BY <1>0 DEF Session
  <2>3. s \in 1 .. MaxSessions
    BY <1>0, AccountsAssumption DEF AccountsTypeOK, SessionIds
  <2>4. q \in Call /\ Rotating(q) /\ q.op # "rotate"
    BY <2>1, <2>2, <2>3 DEF Call, Rotating
  <2>5. Allowed(q)
    BY <1>2, <2>1 DEF Refresh, MayRefresh, Allowed
  <2> QED  BY <1>2, <2>1, <2>4, <2>5, AccountsBegin DEF Refresh
<1> QED  BY <1>1, <1>2

\* A session that is opened keeps the rotation part, if it replaces none or the
\* one its request has claimed.
LEMMA RotationAdded ==
    ASSUME RotationInv, NEW c \in Calls, Len(session) < MaxSessions,
           NEW row \in Session, RowAdded(row), UNCHANGED account, Done(c),
           row.parent = 0 \/ (call[c].op = "rotate" /\ row.parent = call[c].session)
    PROVE  RotationInv'
<1> DEFINE n == Len(session) + 1
<1>0. /\ AccountsTypeOK /\ Len(session) \in Nat /\ call \in [Calls -> Call]
      /\ \A s \in SessionIds : s \in Nat /\ s < n /\ session[s] \in Session
  BY SessionRows DEF RotationInv, AccountsTypeOK, SessionIds
<1>1. SessionIds' = SessionIds \cup {n} /\ n \notin SessionIds
  BY <1>0 DEF RowAdded, SessionIds
<1>2. /\ serial' = serial
      /\ \A d \in Calls : call'[d] = IF d = c THEN Idle ELSE call[d]
      /\ call' \in [Calls -> Call]
  BY <1>0 DEF Done, Call, Idle
<1>3. AccountsTypeOK'
  BY <1>0, <1>2, AccountsAssumption DEF AccountsTypeOK, RowAdded
<1>4. CodesStarted'
  BY DEF RotationInv, CodesStarted
<1>5. row.parent # 0 => /\ row.parent \in SessionIds
                        /\ session[row.parent].revoked
                        /\ \A t \in SessionIds : session[t].parent # row.parent
  BY DEF RotationInv, Rotating
<1>6. /\ \A s \in SessionIds : session'[s] = session[s]
      /\ session'[n] = row
  BY DEF RowAdded
<1>7. \A s \in SessionIds : session[s].parent # 0 => session[s].parent \in SessionIds
  <2> SUFFICES ASSUME NEW s \in SessionIds, session[s].parent # 0
               PROVE  session[s].parent \in SessionIds
    OBVIOUS
  <2>1. session[s].parent \in Nat /\ session[s].parent < s
    BY <1>0, AccountsAssumption DEF RotationInv, ParentsBefore, Session
  <2> QED  BY <1>0, <2>1 DEF SessionIds
<1>8. ParentsBefore'
  <2>1. row.parent < n
    BY <1>0, <1>5
  <2> QED  BY <1>1, <1>6, <2>1 DEF RotationInv, ParentsBefore
<1>9. OneSuccessor'
  <2>1. OneSuccessor
    BY DEF RotationInv
  <2> HIDE DEF n
  <2> SUFFICES ASSUME NEW s \in SessionIds', NEW t \in SessionIds', session'[s].parent # 0
               PROVE  /\ session'[session'[s].parent].revoked
                      /\ session'[s].parent = session'[t].parent => s = t
    BY DEF OneSuccessor
  <2>2. session'[s].parent \in SessionIds /\ session'[session'[s].parent].revoked
    BY <1>1, <1>5, <1>6, <1>7, <2>1 DEF OneSuccessor
  <2>3. session'[s].parent = session'[t].parent => s = t
    BY <1>1, <1>5, <1>6, <2>1 DEF OneSuccessor
  <2> QED  BY <2>2, <2>3
<1>10. OneClaim'
  BY <1>2 DEF RotationInv, OneClaim, Idle
<1>11. ASSUME NEW d \in Calls PROVE Rotating(call[d])'
  <2>1. CASE d = c
    BY <1>2, <2>1 DEF Rotating, Idle
  <2>2. CASE d # c
    <3>1. call'[d] = call[d] /\ Rotating(call[d])
      BY <1>2, <2>2 DEF RotationInv
    <3>2. call[d].op = "rotate" => row.parent # call[d].session
      BY <2>2, <1>0, <3>1 DEF RotationInv, OneClaim, Rotating, SessionIds
    <3> HIDE DEF n
    <3>3. call[d].op \in {"refresh", "rotate"} =>
            /\ call[d].session \in SessionIds'
            /\ call[d].user = session'[call[d].session].user
      BY <1>1, <1>6, <3>1 DEF Rotating
    <3>4. call[d].op = "rotate" =>
            /\ session'[call[d].session].revoked
            /\ \A t \in SessionIds' : session'[t].parent # call[d].session
      BY <1>1, <1>6, <3>1, <3>2 DEF Rotating
    <3> QED  BY <3>1, <3>3, <3>4 DEF Rotating
  <2> QED  BY <2>1, <2>2
<1> QED  BY <1>3, <1>4, <1>8, <1>9, <1>10, <1>11 DEF RotationInv

\* A session that is opened for an account that may have it, with a code that is
\* used up and opened no other, keeps the promises of requests one at a time.
LEMMA SerialAdded ==
    ASSUME AccountsInv, NEW c \in Calls, call[c] # Idle, Done(c), UNCHANGED account,
           NEW row \in Session, RowAdded(row),
           serial =>
             /\ account[row.user].status # "REJECTED"
             /\ account[row.user].status = "SUSPENDED" => row.code # 0
             /\ row.code <= account[row.user].code
             /\ account[row.user].codeOpen => row.code # account[row.user].code
             /\ row.code # 0 =>
                  \A s \in SessionIds : session[s].user = row.user => session[s].code # row.code
    PROVE  SerialInv'
<1> DEFINE n == Len(session) + 1
<1>0. AccountsTypeOK /\ Len(session) \in Nat
  BY SessionRows DEF AccountsInv, RotationInv, AccountsTypeOK
<1>1. SessionIds' = SessionIds \cup {n}
  BY <1>0 DEF RowAdded, SessionIds
<1>2. (\A s \in SessionIds : session'[s] = session[s]) /\ session'[n] = row
  BY DEF RowAdded
<1> HIDE DEF n
<1> SUFFICES ASSUME serial'
             PROVE  /\ (OneCall /\ RejectedIsDeleted /\ CodesBehind)'
                    /\ (BlockedIsSignedOut /\ CodeUsedOnce)'
                    /\ \A d \in Calls : Allowed(call[d])'
  BY DEF SerialInv
<1>3. /\ serial
      /\ RejectedIsDeleted /\ CodesBehind /\ BlockedIsSignedOut /\ CodeUsedOnce
  BY DEF Done, AccountsInv, SerialInv
<1>4. OneCall' /\ \A d \in Calls : Allowed(call[d])'
  BY <1>3, NothingInFlight DEF Done
<1>5. RejectedIsDeleted'
  BY <1>3 DEF RejectedIsDeleted
<1>6. CodesBehind'
  BY <1>1, <1>2, <1>3 DEF CodesBehind
<1>7. BlockedIsSignedOut'
  BY <1>1, <1>2, <1>3 DEF BlockedIsSignedOut, Live
<1>8. CodeUsedOnce'
  BY <1>1, <1>2, <1>3 DEF CodeUsedOnce
<1> QED  BY <1>4, <1>5, <1>6, <1>7, <1>8

\* login and verifyAccount open a session.
LEMMA IssueStep ==
    ASSUME AccountsInv, NEW c \in Calls, IssueSession(c)
    PROVE  AccountsInv'
<1>0. /\ AccountsTypeOK /\ RotationInv /\ SerialInv /\ call[c] \in Call
      /\ 0 \in 0 .. MaxSessions /\ 0 \in 0 .. MaxCodes
  BY AccountsAssumption DEF AccountsInv, RotationInv, AccountsTypeOK
<1>1. PICK u \in Users, code \in 0 .. MaxCodes :
        /\ call[c].user = u
        /\ code = IF call[c].op = "login" THEN 0 ELSE call[c].code
        /\ call[c].op = "verified" => code >= 1
  <2>1. CASE call[c].op = "login"
    BY <1>0, <2>1 DEF Call
  <2>2. CASE call[c].op = "verified"
    <3>1. call[c].user \in Users /\ call[c].code \in 1 .. MaxCodes
      BY <1>0, <2>2 DEF Call
    <3>2. call[c].code \in 0 .. MaxCodes /\ call[c].code >= 1
      BY <3>1, AccountsAssumption
    <3> QED  BY <2>2, <3>1, <3>2
  <2> QED  BY <2>1, <2>2 DEF IssueSession
<1>2. PICK row : row = [user |-> u, revoked |-> FALSE, parent |-> 0, code |-> code]
  OBVIOUS
<1>3. /\ row \in Session /\ row.user = u /\ row.parent = 0 /\ row.code = code
  BY <1>0, <1>2 DEF Session
<1>4. /\ session' = Opened(u, 0, code) /\ Done(c) /\ UNCHANGED account
      /\ Len(session) < MaxSessions /\ call[c] # Idle
      /\ call[c].op \in {"login", "verified"}
  BY <1>1 DEF IssueSession, Idle
<1>5. RowAdded(row)
  BY <1>0, <1>2, <1>4, Opening
<1>6. RotationInv'
  BY <1>0, <1>3, <1>4, <1>5, RotationAdded
<1>7. account[u].code \in 0 .. MaxCodes /\ (account[u].codeOpen => account[u].code >= 1)
  BY <1>0 DEF AccountsTypeOK, Account, RotationInv, CodesStarted
<1>8. ASSUME serial
      PROVE  /\ account[u].status # "REJECTED"
             /\ account[u].status = "SUSPENDED" => code # 0
             /\ code <= account[u].code
             /\ account[u].codeOpen => code # account[u].code
             /\ code # 0 => \A s \in SessionIds : session[s].user = u => session[s].code # code
  <2>1. Allowed(call[c])
    BY <1>0, <1>8 DEF SerialInv
  <2>2. CASE call[c].op = "login"
    BY <1>1, <1>7, <2>1, <2>2 DEF Allowed, Blocked
  <2>3. CASE call[c].op = "verified"
    BY <1>1, <1>7, <2>1, <2>3 DEF Allowed
  <2> QED  BY <1>4, <2>2, <2>3
<1>9. SerialInv'
  BY <1>3, <1>4, <1>5, <1>8, SerialAdded
<1> QED  BY <1>6, <1>9 DEF AccountsInv

\* refresh opens the session that replaces the one claimed.
LEMMA RotateStep ==
    ASSUME AccountsInv, NEW c \in Calls, RotateSession(c)
    PROVE  AccountsInv'
<1>0. /\ AccountsTypeOK /\ RotationInv /\ SerialInv /\ call[c] \in Call
      /\ 0 \in 0 .. MaxCodes
  BY AccountsAssumption DEF AccountsInv, RotationInv, AccountsTypeOK
<1>1. PICK u \in Users, parent \in 0 .. MaxSessions :
        call[c].user = u /\ call[c].session = parent
  <2>1. call[c].user \in Users /\ call[c].session \in 1 .. MaxSessions
    BY <1>0 DEF RotateSession, Call
  <2> QED  BY <2>1, AccountsAssumption
<1>2. PICK row : row = [user |-> u, revoked |-> FALSE, parent |-> parent, code |-> 0]
  OBVIOUS
<1>3. /\ row \in Session /\ row.user = u /\ row.parent = parent /\ row.code = 0
  BY <1>0, <1>2 DEF Session
<1>4. /\ session' = Opened(u, parent, 0) /\ Done(c) /\ UNCHANGED account
      /\ Len(session) < MaxSessions /\ call[c] # Idle
      /\ call[c].op = "rotate"
  BY <1>1 DEF RotateSession, Idle
<1>5. RowAdded(row)
  BY <1>0, <1>2, <1>4, Opening
<1>6. RotationInv'
  BY <1>0, <1>1, <1>3, <1>4, <1>5, RotationAdded
<1>7. account[u].code \in 0 .. MaxCodes /\ (account[u].codeOpen => account[u].code >= 1)
  BY <1>0 DEF AccountsTypeOK, Account, RotationInv, CodesStarted
<1>8. serial => account[u].status \notin Blocked
  BY <1>0, <1>1, <1>4 DEF SerialInv, Allowed
<1>9. serial => /\ account[u].status # "REJECTED" /\ account[u].status # "SUSPENDED"
                /\ 0 <= account[u].code
                /\ account[u].codeOpen => 0 # account[u].code
  BY <1>7, <1>8 DEF Blocked
<1>10. SerialInv'
  BY <1>3, <1>4, <1>5, <1>9, SerialAdded
<1> QED  BY <1>6, <1>10 DEF AccountsInv

\* The claim revokes the session; only the request that found it valid goes on.
LEMMA ClaimStep ==
    ASSUME AccountsInv, NEW c \in Calls, ClaimSession(c)
    PROVE  AccountsInv'
<1>0. /\ AccountsTypeOK /\ RotationInv /\ SerialInv /\ call[c] \in Call
      /\ call \in [Calls -> Call] /\ account \in [Users -> Account] /\ Rotating(call[c])
  BY DEF AccountsInv, RotationInv, AccountsTypeOK
<1>1. PICK s \in SessionIds : s = call[c].session
  BY <1>0 DEF ClaimSession, Rotating
<1>2. /\ call[c].op = "refresh" /\ UNCHANGED <<account, serial>>
      /\ session' = [session EXCEPT ![s].revoked = TRUE]
      /\ call' = [call EXCEPT ![c] =
                    IF Live(s) THEN [call[c] EXCEPT !.op = "rotate"] ELSE Idle]
  BY <1>0, <1>1 DEF ClaimSession, ClaimSucceeds
<1>3. RowsKept /\ session'[s].revoked
  BY <1>0, <1>2, Revoking
<1>4. \A u \in Users : WrittenSafely(u)
  BY <1>0, <1>2 DEF WrittenSafely, SafeRow, Account
<1>5. CASE ~ Live(s)
  <2>1. call[c] # Idle /\ Done(c)
    BY <1>2, <1>5 DEF Done, Idle
  <2> QED  BY <1>0, <1>2, <1>3, <1>4, <2>1, AccountsEnd
<1>6. CASE Live(s)
  <2>1. PICK q : q = [call[c] EXCEPT !.op = "rotate"]
    OBVIOUS
  <2>2. /\ q \in Call /\ q.op = "rotate" /\ q.session = s /\ q.user = call[c].user
    BY <1>0, <1>1, <1>2, <2>1 DEF Call
  <2>3. /\ call' \in [Calls -> Call]
        /\ \A d \in Calls : call'[d] = IF d = c THEN q ELSE call[d]
    BY <1>0, <1>2, <1>6, <2>1, <2>2
  <2>4. SessionIds' = SessionIds /\ ~ session[s].revoked
    BY <1>3, <1>6 DEF RowsKept, SessionIds, Live
  <2>5. \A t \in SessionIds : session[t].parent # s
    <3>1. s # 0
      BY <1>1, SessionRows, <1>0 DEF SessionIds
    <3> QED  BY <1>0, <2>4, <3>1 DEF RotationInv, OneSuccessor
  <2>6. \A d \in Calls : call[d].op = "rotate" => call[d].session # s
    BY <1>0, <2>4 DEF RotationInv, Rotating
\* The request apart, the step is one that keeps the rotation part.
  <2>7. AccountsTypeOK'
    BY <1>0, <1>2, <1>3, <2>3 DEF AccountsTypeOK, RowsKept
  <2>8. CodesStarted' /\ ParentsBefore'
    BY <1>0, <1>2, <1>3, <2>4 DEF RotationInv, CodesStarted, ParentsBefore, RowsKept
  <2>9. \A t \in SessionIds : session[t].parent # 0 => session[t].parent \in SessionIds
    <3> SUFFICES ASSUME NEW t \in SessionIds, session[t].parent # 0
                 PROVE  session[t].parent \in SessionIds
      OBVIOUS
    <3>1. /\ session[t] \in Session /\ t \in Nat /\ Len(session) \in Nat
          /\ session[t].parent < t
      BY <1>0, SessionRows DEF RotationInv, ParentsBefore
    <3>2. session[t].parent \in Nat
      BY <3>1, AccountsAssumption DEF Session
    <3> QED  BY <3>1, <3>2 DEF SessionIds
  <2>10. OneSuccessor'
    BY <1>0, <1>3, <2>4, <2>9 DEF RotationInv, OneSuccessor, RowsKept
  <2>11. OneClaim'
    BY <1>0, <2>2, <2>3, <2>6 DEF RotationInv, OneClaim
  <2>12. ASSUME NEW d \in Calls PROVE Rotating(call[d])'
    <3>1. CASE d = c
      <4>1. call'[d] = q
        BY <2>3, <3>1
      <4>2. q.user = session'[q.session].user
        BY <1>0, <1>1, <1>2, <1>3, <2>2 DEF Rotating, RowsKept
      <4>3. \A t \in SessionIds : session'[t].parent # s
        BY <1>3, <2>5 DEF RowsKept
      <4> QED  BY <1>3, <2>2, <2>4, <4>1, <4>2, <4>3 DEF Rotating
    <3>2. CASE d # c
      <4>1. call'[d] = call[d] /\ Rotating(call[d])
        BY <1>0, <2>3, <3>2 DEF RotationInv
      <4> QED  BY <1>3, <2>4, <4>1 DEF Rotating, RowsKept
    <3> QED  BY <3>1, <3>2
  <2>13. RotationInv'
    BY <2>7, <2>8, <2>10, <2>11, <2>12 DEF RotationInv
  <2>14. ASSUME serial PROVE OneCall' /\ \A d \in Calls : Allowed(call[d])'
    <3>1. \A d \in Calls : d # c => call[d] = Idle
      BY <1>0, <1>2, <2>14 DEF SerialInv, OneCall, Idle
    <3>2. account[q.user].status \notin Blocked
      BY <1>0, <1>2, <2>2, <2>14 DEF SerialInv, Allowed
    <3>3. OneCall'
      BY <2>3, <3>1 DEF OneCall
    <3>4. ASSUME NEW d \in Calls PROVE Allowed(call[d])'
      <4>1. CASE d = c
        <5>1. call'[d] = q
          BY <2>3, <4>1
        <5> QED  BY <1>2, <2>2, <3>2, <5>1 DEF Allowed
      <4>2. CASE d # c
        <5>1. call'[d] = Idle
          BY <2>3, <3>1, <4>2
        <5> QED  BY <5>1 DEF Allowed, Idle
      <4> QED  BY <4>1, <4>2
    <3> QED  BY <3>3, <3>4
  <2>15. SerialInv'
    BY <1>0, <1>2, <1>3, <1>4, <2>14, SerialKept
  <2> QED  BY <2>13, <2>15 DEF AccountsInv
<1> QED  BY <1>5, <1>6

\* verifyAccount uses its code up and goes on to open a session.
LEMMA MarkVerifiedStep ==
    ASSUME AccountsInv, NEW c \in Calls, MarkVerified(c)
    PROVE  AccountsInv'
<1>0. /\ AccountsTypeOK /\ RotationInv /\ SerialInv /\ call[c] \in Call
      /\ call \in [Calls -> Call] /\ account \in [Users -> Account]
  BY DEF AccountsInv, RotationInv, AccountsTypeOK
<1>1. PICK u \in Users : u = call[c].user /\ account[u] \in Account
  BY <1>0 DEF MarkVerified, Call
<1>2. PICK q : q = [call[c] EXCEPT !.op = "verified"]
  OBVIOUS
<1>3. q \in Call /\ q.op = "verified" /\ q.user = u /\ q.code = call[c].code
  BY <1>0, <1>1, <1>2 DEF MarkVerified, Call
<1>4. PICK row : row = [account[u] EXCEPT !.verified = TRUE, !.codeOpen = FALSE]
  OBVIOUS
<1>5. /\ row \in Account /\ row.code = account[u].code /\ ~ row.codeOpen
      /\ row.status = account[u].status /\ row.deleted = account[u].deleted
  BY <1>1, <1>4 DEF Account
<1>6. /\ account' = [account EXCEPT ![u] = row] /\ account'[u] = row
      /\ UNCHANGED <<session, serial>>
      /\ call[c].op = "verify"
      /\ call' \in [Calls -> Call]
      /\ \A d \in Calls : call'[d] = IF d = c THEN q ELSE call[d]
  BY <1>0, <1>1, <1>2, <1>3, <1>4 DEF MarkVerified, Verified
<1>7. RowsKept
  BY <1>0, <1>6, Revoking
<1>8. SafeRow(u, row)
  BY <1>1, <1>5 DEF SafeRow, Account
<1>9. account' \in [Users -> Account] /\ \A v \in Users : WrittenSafely(v)
  BY <1>0, <1>5, <1>6, <1>8, OneWritten
<1>10. RotationInv'
  BY <1>0, <1>3, <1>6, <1>7, <1>9, RotationKept
<1>11. ASSUME serial PROVE OneCall' /\ \A d \in Calls : Allowed(call[d])'
  <2>1. \A d \in Calls : d # c => call[d] = Idle
    BY <1>0, <1>6, <1>11 DEF SerialInv, OneCall, Idle
  <2>2. /\ account[u].status # "REJECTED" /\ q.code <= account[u].code
        /\ \A s \in SessionIds : session[s].user = u => session[s].code # q.code
    BY <1>0, <1>1, <1>3, <1>6, <1>11 DEF SerialInv, Allowed
  <2>3. OneCall'
    BY <1>6, <2>1 DEF OneCall
  <2>4. ASSUME NEW d \in Calls PROVE Allowed(call[d])'
    <3>1. CASE d = c
      <4>1. call'[d] = q
        BY <1>6, <3>1
      <4> QED  BY <1>3, <1>5, <1>6, <2>2, <4>1 DEF Allowed, SessionIds
    <3>2. CASE d # c
      <4>1. call'[d] = Idle
        BY <1>6, <2>1, <3>2
      <4> QED  BY <4>1 DEF Allowed, Idle
    <3> QED  BY <3>1, <3>2
  <2> QED  BY <2>3, <2>4
<1>12. SerialInv'
  BY <1>0, <1>6, <1>7, <1>9, <1>11, SerialKept
<1> QED  BY <1>10, <1>12 DEF AccountsInv

\* Every other write a request ends with, and a request that is lost.
LEMMA AccountsEndStep ==
    ASSUME AccountsInv, NEW c \in Calls,
           \/ CommitCredential(c) \/ ApproveUser(c) \/ RejectUser(c) \/ SuspendUser(c)
           \/ ReactivateUser(c) \/ Abandon(c)
    PROVE  AccountsInv'
<1>0. /\ AccountsTypeOK /\ RotationInv /\ SerialInv /\ call[c] \in Call
      /\ account \in [Users -> Account]
  BY DEF AccountsInv, RotationInv, AccountsTypeOK
<1>1. ASSUME Abandon(c) PROVE AccountsInv'
  <2>1. RowsKept
    BY <1>0, <1>1, Revoking DEF Abandon
  <2>2. account' \in [Users -> Account] /\ \A v \in Users : WrittenSafely(v)
    BY <1>0, <1>1 DEF Abandon, WrittenSafely, SafeRow, Account
  <2> QED  BY <1>1, <2>1, <2>2, AccountsEnd DEF Abandon
<1>2. SUFFICES ASSUME ~ Abandon(c) PROVE AccountsInv'
  BY <1>1
<1>3. PICK u \in Users : u = call[c].user /\ account[u] \in Account
  <2>1. call[c].user \in Users
    BY <1>0, <1>2 DEF Call, CommitCredential, ApproveUser, RejectUser, SuspendUser,
                      ReactivateUser
  <2> QED  BY <1>0, <2>1
<1>4. call[c] # Idle /\ Done(c)
  BY <1>2 DEF CommitCredential, ApproveUser, RejectUser, SuspendUser, ReactivateUser, Idle
<1>5. /\ RowsKept
      /\ RejectUser(c) \/ SuspendUser(c) =>
           \A s \in SessionIds : session[s].user = u => session'[s].revoked
  <2>1. UNCHANGED session \/ session' = RevokedAll(u)
    BY <1>2, <1>3 DEF CommitCredential, ApproveUser, RejectUser, SuspendUser,
                      ReactivateUser, RejectRevokes, SuspendRevokes
  <2>2. RejectUser(c) \/ SuspendUser(c) => session' = RevokedAll(u)
    BY <1>3 DEF RejectUser, SuspendUser, RejectRevokes, SuspendRevokes
  <2> QED  BY <1>0, <2>1, <2>2, Revoking
<1>6. SUFFICES ASSUME TRUE
               PROVE  \E row \in Account :
                        account' = [account EXCEPT ![u] = row] /\ SafeRow(u, row)
  <2>1. ASSUME NEW row \in Account, account' = [account EXCEPT ![u] = row], SafeRow(u, row)
        PROVE  AccountsInv'
    <3>1. account' \in [Users -> Account] /\ \A v \in Users : WrittenSafely(v)
      BY <1>0, <2>1, OneWritten
    <3> QED  BY <1>4, <1>5, <3>1, AccountsEnd
  <2> QED  BY <2>1
\* The rows the writes store.
<1>a. account[u].code \in 0 .. MaxCodes /\ account[u].code \in Int
  BY <1>3 DEF Account
<1>7. CASE CommitCredential(c) /\ call[c].op = "forgot"
  <2> DEFINE row == [account[u] EXCEPT !.link = TRUE]
  <2>1. row \in Account
    BY <1>3 DEF Account
  <2>2. account' = [account EXCEPT ![u] = row]
    BY <1>0, <1>3, <1>7 DEF CommitCredential
  <2>3. SafeRow(u, row)
    BY <1>3, <1>a DEF SafeRow, Account
  <2> QED  BY <2>1, <2>2, <2>3
<1>8. CASE CommitCredential(c) /\ call[c].op = "reset"
  <2> DEFINE row == [account[u] EXCEPT !.link = FALSE, !.password = TRUE]
  <2>1. row \in Account
    BY <1>3 DEF Account
  <2>2. account' = [account EXCEPT ![u] = row]
    BY <1>0, <1>3, <1>8 DEF CommitCredential
  <2>3. SafeRow(u, row)
    BY <1>3, <1>a DEF SafeRow, Account
  <2> QED  BY <2>1, <2>2, <2>3
<1>9. CASE CommitCredential(c) /\ call[c].op = "resend"
  <2> DEFINE row == [account[u] EXCEPT !.code = account[u].code + 1, !.codeOpen = TRUE]
  <2>1. account[u].code + 1 \in 0 .. MaxCodes
    BY <1>3, <1>9, <1>a, AccountsAssumption DEF CommitCredential
  <2>2. row \in Account
    BY <1>3, <2>1 DEF Account
  <2>3. account' = [account EXCEPT ![u] = row]
    BY <1>0, <1>3, <1>9 DEF CommitCredential, CodeIssued
  <2>4. SafeRow(u, row)
    BY <1>3, <1>a DEF SafeRow, Account
  <2> QED  BY <2>2, <2>3, <2>4
<1>10. CASE ApproveUser(c)
  <2> DEFINE row == [account[u] EXCEPT !.code = account[u].code + 1, !.codeOpen = TRUE,
                                       !.status = "ACTIVE", !.verified = FALSE]
  <2>1. account[u].code + 1 \in 0 .. MaxCodes
    BY <1>3, <1>10, <1>a, AccountsAssumption DEF ApproveUser
  <2>2. row \in Account
    BY <1>3, <2>1 DEF Account, Status
  <2>3. account' = [account EXCEPT ![u] = row]
    BY <1>0, <1>3, <1>10 DEF ApproveUser, CodeIssued
  <2>4. SafeRow(u, row)
    BY <1>3, <1>a DEF SafeRow, Account, Blocked
  <2> QED  BY <2>2, <2>3, <2>4
<1>11. CASE RejectUser(c)
  <2> DEFINE row == [account[u] EXCEPT !.status = "REJECTED", !.deleted = TRUE]
  <2>1. row \in Account
    BY <1>3 DEF Account, Status
  <2>2. account' = [account EXCEPT ![u] = row]
    BY <1>0, <1>3, <1>11 DEF RejectUser
  <2>3. SafeRow(u, row)
    BY <1>3, <1>5, <1>11, <1>a DEF SafeRow, Account
  <2> QED  BY <2>1, <2>2, <2>3
<1>12. CASE SuspendUser(c)
  <2> DEFINE row == [account[u] EXCEPT !.status = "SUSPENDED"]
  <2>1. row \in Account
    BY <1>3 DEF Account, Status
  <2>2. account' = [account EXCEPT ![u] = row]
    BY <1>0, <1>3, <1>12 DEF SuspendUser
  <2>3. SafeRow(u, row)
    BY <1>3, <1>5, <1>12, <1>a DEF SafeRow, Account
  <2> QED  BY <2>1, <2>2, <2>3
<1>13. CASE ReactivateUser(c)
  <2> DEFINE row == [account[u] EXCEPT !.status = "ACTIVE"]
  <2>1. row \in Account
    BY <1>3 DEF Account, Status
  <2>2. account' = [account EXCEPT ![u] = row]
    BY <1>0, <1>3, <1>13 DEF ReactivateUser
  <2>3. SafeRow(u, row)
    BY <1>3, <1>a DEF SafeRow, Account, Blocked
  <2> QED  BY <2>1, <2>2, <2>3
<1>14. CommitCredential(c) => call[c].op \in {"forgot", "reset", "resend"}
  BY DEF CommitCredential
<1> QED  BY <1>2, <1>7, <1>8, <1>9, <1>10, <1>11, <1>12, <1>13, <1>14

\* The invariant is inductive, and what a rotation does to a blocked account
\* follows from it.
LEMMA AccountsStep ==
    /\ AccountsInv /\ [AccountsNext]_accountVars => AccountsInv'
    /\ AccountsInv => \A c \in Calls : serial /\ RotateSession(c)
                        => account[call[c].user].status \notin Blocked
<1>1. ASSUME AccountsInv, [AccountsNext]_accountVars PROVE AccountsInv'
  <2>1. CASE UNCHANGED accountVars
    BY <1>1, <2>1 DEF accountVars, AccountsInv, RotationInv, SerialInv, AccountsTypeOK,
         CodesStarted, ParentsBefore, OneSuccessor, OneClaim, Rotating, OneCall,
         RejectedIsDeleted, CodesBehind, BlockedIsSignedOut, CodeUsedOnce, Allowed,
         SessionIds, Live
  <2>2. CASE \E u \in Users : UserNext(u) \/ \E c \in Calls : BeginNext(c, u)
    BY <1>1, <2>2, AccountsUserStep, AccountsBeginStep
  <2>3. CASE \E c \in Calls : CommitNext(c)
    BY <1>1, <2>3, MarkVerifiedStep, IssueStep, ClaimStep, RotateStep, AccountsEndStep
       DEF CommitNext
  <2>4. CASE \E s \in SessionIds :
               Logout(s) \/ RefreshBlocked(s) \/ \E c \in Calls : Refresh(c, s)
    BY <1>1, <2>4, AccountsSessionStep
  <2> QED  BY <1>1, <2>1, <2>2, <2>3, <2>4 DEF AccountsNext
<1>2. ASSUME AccountsInv, NEW c \in Calls, serial, RotateSession(c)
      PROVE  account[call[c].user].status \notin Blocked
  BY <1>2 DEF AccountsInv, SerialInv, Allowed, RotateSession
<1> QED  BY <1>1, <1>2

\* Rotation is single use (the claim in refresh): however many requests present
\* one refresh token at once, and whatever is revoked meanwhile, at most one
\* session comes of it.  No assumption on the requests.
THEOREM RefreshTokenIsSingleUse == AccountsSpec => []OneSuccessor
<1>1. AccountsInv => OneSuccessor
  BY DEF AccountsInv, RotationInv
<1> QED  BY <1>1, AccountsStart, AccountsStep, PTL DEF AccountsSpec

\* Where requests come one at a time, an account that is blocked has no session
\* it could refresh and a verification code signs in once; the tables keep their
\* schema in any case.
THEOREM AccountsAreSound == AccountsSpec => []AccountsSound
<1>1. AccountsInv => AccountsSound
  BY DEF AccountsInv, RotationInv, SerialInv, AccountsSound, BlockedIsSignedOut,
         CodeUsedOnce
<1> QED  BY <1>1, AccountsStart, AccountsStep, PTL DEF AccountsSpec

\* Where requests come one at a time, refresh never opens a session for an
\* account that is blocked by then.
THEOREM RefreshStopsWithTheAccount == AccountsSpec => RenewedWhileAllowed
<1>1. AccountsInv /\ [AccountsNext]_accountVars =>
        [\A c \in Calls : serial /\ RotateSession(c)
           => account[call[c].user].status \notin Blocked]_accountVars
  BY AccountsStep
<1> QED  BY <1>1, AccountsStart, AccountsStep, PTL DEF AccountsSpec, RenewedWhileAllowed

=============================================================================
