----------------------------- MODULE Placement -----------------------------
(***************************************************************************)
(* Departments, who is placed in them, and transfers                       *)
(* (backend/src/departments/department.service.ts, the placement that      *)
(* backend/src/employees/employees.service.ts and                          *)
(* backend/src/users/users.service.ts write, and both kinds of transfer).  *)
(*                                                                         *)
(* A department row is one code at one location, so it stands for the      *)
(* location too.  A department with employees is not archived at once: a   *)
(* deactivation request stays pending, and each handler that moves an      *)
(* employee away looks, once its transaction is done, whether the one left *)
(* can be archived now.                                                    *)
(***************************************************************************)
EXTENDS Integers, FiniteSets

CONSTANTS
    Codes,       \* department codes
    Branch,      \* working locations
    Workers,     \* employees
    Members,     \* users placed in departments
    Transfers,   \* rows that transfer_requests may get
    PRequests,   \* slots for requests in flight
    Crashes,     \* whether the process may stop between two steps
    Nowhere      \* department_id = null

Depts == Codes \X Branch
People == Workers \cup Members

ASSUME PlacementAssumption ==
    /\ Nowhere \notin Depts
    /\ Workers \cap Members = {}
    /\ Crashes \in BOOLEAN

VARIABLES
    dept,    \* departments: status, and whether a deactivation is pending
    open,    \* working locations created so far
    placed,  \* department_id of employees and users
    active,  \* employees and users with status ACTIVE
    signed,  \* users with a session that is not revoked
    xfer,    \* transfer_requests
    preq,    \* what each request in flight has read
    missed   \* history: departments someone left that nobody will look at

placementVars == <<dept, open, placed, active, signed, xfer, preq, missed>>

Dept == [status : {"NONE", "ACTIVE", "INACTIVE"}, pending : BOOLEAN]
NoDept == [status |-> "NONE", pending |-> FALSE]

Levels == {"BRANCH_MANAGER", "SUPER_ADMIN", "FINALIZED", "REJECTED"}
NoTransfer == [status |-> "NONE"]
Transfer ==
    [status : {"NONE"}]
      \cup [status : {"PENDING", "APPROVED", "REJECTED"}, level : Levels,
            who : People, old : Depts \cup {Nowhere}, new : Depts \cup {Nowhere}]

PIdle == [op |-> "idle"]
PRequest ==
    [op : {"idle"}]
      \cup [op : {"archive", "request", "enable", "suspendAll", "left"}, dept : Depts]
      \cup [op : {"move"}, who : People, dept : Depts \cup {Nowhere},
            old : Depts \cup {Nowhere}]
      \cup [op : {"forward", "finalize", "reject"}, id : Transfers]

\* Departments, placements, transfers and requests are of their schema.
PlacementTypeOK ==
    /\ dept \in [Depts -> Dept]
    /\ open \subseteq Branch
    /\ placed \in [People -> Depts \cup {Nowhere}]
    /\ active \subseteq People
    /\ signed \subseteq Members
    /\ xfer \in [Transfers -> Transfer]
    /\ preq \in [PRequests -> PRequest]
    /\ missed \subseteq Depts

PlacementInit ==
    /\ dept = [d \in Depts |-> NoDept]
    /\ open = {}
    /\ placed = [p \in People |-> Nowhere]
    /\ active = People
    /\ signed = Members
    /\ xfer = [t \in Transfers |-> NoTransfer]
    /\ preq = [r \in PRequests |-> PIdle]
    /\ missed = {}

PBegin(r, q) ==
    /\ preq[r] = PIdle
    /\ preq' = [preq EXCEPT ![r] = q]
    /\ UNCHANGED <<dept, open, placed, active, signed, xfer, missed>>

PGoto(r, q) == preq' = [preq EXCEPT ![r] = q]

Assigned(d) == {e \in Workers : placed[e] = d}
Accepting(d) == dept[d].status = "ACTIVE"

-----------------------------------------------------------------------------
(* Departments *)

\* createWorkingLocation gives the new location a row for every code that is
\* active somewhere.
CreateLocation(l) ==
    /\ l \notin open
    /\ open' = open \cup {l}
    /\ dept' = [d \in Depts |->
                  IF d[2] = l /\ \E k \in open : dept[<<d[1], k>>].status = "ACTIVE"
                  THEN [status |-> "ACTIVE", pending |-> FALSE] ELSE dept[d]]
    /\ UNCHANGED <<placed, active, signed, xfer, preq, missed>>

\* createDepartment, at the actor's location or at all of them: refused when
\* one of them has it active.  skipDuplicates leaves an archived row as it is.
CreateDepartment(k, targets) ==
    /\ targets # {} /\ targets \subseteq open
    /\ \A l \in targets : dept[<<k, l>>].status # "ACTIVE"
    /\ dept' = [d \in Depts |->
                  IF d[1] = k /\ d[2] \in targets /\ dept[d].status = "NONE"
                  THEN [status |-> "ACTIVE", pending |-> FALSE] ELSE dept[d]]
    /\ UNCHANGED <<open, placed, active, signed, xfer, preq, missed>>

\* With employees assigned, of any status, deleteDepartment only asks.
DeleteBecomes(d) == IF Assigned(d) = {} THEN "archive" ELSE "request"

DeleteDepartment(r, d) ==
    /\ dept[d].status = "ACTIVE"
    /\ PBegin(r, [op |-> DeleteBecomes(d), dept |-> d])

RequestDepartmentDeactivation(r) ==
    /\ preq[r].op = "request"
    /\ dept' = [dept EXCEPT ![preq[r].dept].pending = TRUE]
    /\ PGoto(r, PIdle)
    /\ UNCHANGED <<open, placed, active, signed, xfer, missed>>

\* The row once archived: pending requests are completed with it.
Archived(d) == [dept EXCEPT ![d] = [status |-> "INACTIVE", pending |-> FALSE]]

ArchiveDepartmentNow(r) ==
    /\ preq[r].op = "archive"
    /\ dept' = Archived(preq[r].dept)
    /\ missed' = missed \ {preq[r].dept}
    /\ PGoto(r, PIdle)
    /\ UNCHANGED <<open, placed, active, signed, xfer>>

CheckEnableAtLocation(r, d) ==
    /\ d[2] \in open
    /\ dept[d].status # "ACTIVE"
    /\ PBegin(r, [op |-> "enable", dept |-> d])

EnableAtLocation(r) ==
    /\ preq[r].op = "enable"
    /\ dept' = [dept EXCEPT ![preq[r].dept] = [status |-> "ACTIVE", pending |-> FALSE]]
    /\ missed' = missed \ {preq[r].dept}
    /\ PGoto(r, PIdle)
    /\ UNCHANGED <<open, placed, active, signed, xfer>>

CheckSuspendAndArchive(r, d) ==
    /\ dept[d].status = "ACTIVE" /\ dept[d].pending
    /\ PBegin(r, [op |-> "suspendAll", dept |-> d])

\* Mutant: the users are suspended but stay signed in.
SignedAfter_Kept(gone) == signed

SignedAfter(gone) == signed \ gone

\* Employees and users still there are suspended, the users' sessions revoked.
SuspendAndArchive(r) ==
    LET d == preq[r].dept
        gone == {p \in active : placed[p] = d}
    IN
    /\ preq[r].op = "suspendAll"
    /\ active' = active \ gone
    /\ signed' = SignedAfter(gone)
    /\ dept' = Archived(d)
    /\ missed' = missed \ {d}
    /\ PGoto(r, PIdle)
    /\ UNCHANGED <<open, placed, xfer>>

\* archivePendingDepartmentIfEmpty, after a transaction that moved someone.
ArchiveIfEmpty(r) ==
    LET d == preq[r].dept IN
    /\ preq[r].op = "left"
    /\ PGoto(r, IF dept[d].pending /\ Assigned(d) = {}
                THEN [op |-> "archive", dept |-> d] ELSE PIdle)
    /\ UNCHANGED <<dept, open, placed, active, signed, xfer, missed>>

-----------------------------------------------------------------------------
(* Placement *)

\* resolveDepartmentId asks for an ACTIVE department; for employees,
\* ensureDepartmentCanReceiveEmployees also for none that is pending.
MayPlace(p, d) ==
    /\ Accepting(d)
    /\ p \in Workers /\ placed[p] # d => ~ dept[d].pending

\* create, bulkImport and update of an employee.
CheckPlaceEmployee(r, e, d) ==
    /\ d # placed[e]
    /\ MayPlace(e, d)
    /\ PBegin(r, [op |-> "move", who |-> e, dept |-> d, old |-> placed[e]])

\* approveUser and updateUser; a user's department can be cleared.
CheckPlaceUser(r, u, d) ==
    /\ d # placed[u]
    /\ d # Nowhere => MayPlace(u, d)
    /\ PBegin(r, [op |-> "move", who |-> u, dept |-> d, old |-> placed[u]])

\* What a handler does next once p has left d: employees.service.ts looks
\* whether d can be archived, users.service.ts does not.
AfterLeaving(p, d) ==
    IF p \in Workers /\ d # Nowhere THEN [op |-> "left", dept |-> d] ELSE PIdle

\* An employee who meanwhile works somewhere else than the handler read leaves
\* a department that nobody will look at.
MissedBy(p, old) ==
    IF p \in Workers /\ placed[p] \notin {old, Nowhere}
    THEN missed \cup {placed[p]} ELSE missed

Place(r) ==
    LET q == preq[r] IN
    /\ q.op = "move"
    /\ placed' = [placed EXCEPT ![q.who] = q.dept]
    /\ missed' = MissedBy(q.who, q.old)
    /\ PGoto(r, AfterLeaving(q.who, q.old))
    /\ UNCHANGED <<dept, open, active, signed, xfer>>

\* suspend and reactivate, of employees and users; suspension signs out.
ChangeActive(p) ==
    /\ active' = IF p \in active THEN active \ {p} ELSE active \cup {p}
    /\ signed' = IF p \in active THEN signed \ {p} ELSE signed
    /\ UNCHANGED <<dept, open, placed, xfer, preq, missed>>

\* login, for a user who is not suspended.
SignIn(u) ==
    /\ u \in active /\ u \notin signed
    /\ signed' = signed \cup {u}
    /\ UNCHANGED <<dept, open, placed, active, xfer, preq, missed>>

-----------------------------------------------------------------------------
(* Transfers *)

\* The row a transfer starts as.  Someone who is nowhere yet skips the branch
\* manager.
NewTransfer(p, d) ==
    [status |-> "PENDING", who |-> p, old |-> placed[p], new |-> d,
     level |-> IF placed[p] = Nowhere THEN "SUPER_ADMIN" ELSE "BRANCH_MANAGER"]

\* transfer, of an employee.
RequestTransfer(t, e, d) ==
    /\ xfer[t] = NoTransfer
    /\ MayPlace(e, d)
    /\ xfer' = [xfer EXCEPT ![t] = NewTransfer(e, d)]
    /\ UNCHANGED <<dept, open, placed, active, signed, preq, missed>>

\* requestTransfer, of a user, to another location and maybe no department.
RequestUserTransfer(t, u, d) ==
    /\ xfer[t] = NoTransfer
    /\ d # Nowhere => MayPlace(u, d)
    /\ xfer' = [xfer EXCEPT ![t] = NewTransfer(u, d)]
    /\ UNCHANGED <<dept, open, placed, active, signed, preq, missed>>

\* findTransferRequestOrThrow.
Undecided(t) == xfer[t].status = "PENDING"

CheckApproveTransfer(r, t) ==
    /\ Undecided(t)
    /\ PBegin(r, [op |-> IF xfer[t].level = "BRANCH_MANAGER" THEN "forward" ELSE "finalize",
                  id |-> t])

CheckRejectTransfer(r, t) ==
    Undecided(t) /\ PBegin(r, [op |-> "reject", id |-> t])

\* The first level passes it on.
ForwardTransfer(r) ==
    /\ preq[r].op = "forward"
    /\ xfer' = [xfer EXCEPT ![preq[r].id].level = "SUPER_ADMIN"]
    /\ PGoto(r, PIdle)
    /\ UNCHANGED <<dept, open, placed, active, signed, missed>>

\* Mutant: the department named first is looked at, not the one left.
LeftByTransfer_New(x) == x.new

\* The department approveTransfer looks at: the old one of the request.
LeftByTransfer(x) == x.old

\* The request once granted.
Granted(t) == [xfer EXCEPT ![t] = [@ EXCEPT !.status = "APPROVED", !.level = "FINALIZED"]]

\* The second level moves the employee.  Neither the new department's status
\* nor the employee's present department is read again.
FinalizeTransfer(r) ==
    LET t == preq[r].id
        x == xfer[t]
        next == IF x.old = x.new THEN PIdle ELSE AfterLeaving(x.who, LeftByTransfer(x))
    IN
    /\ preq[r].op = "finalize"
    /\ x.who \in Workers
    /\ placed' = [placed EXCEPT ![x.who] = x.new]
    /\ xfer' = Granted(t)
    /\ missed' = IF placed[x.who] = x.new THEN missed ELSE MissedBy(x.who, x.old)
    /\ PGoto(r, next)
    /\ UNCHANGED <<dept, open, active, signed>>

\* The same for a user, whose department does not count as one left.
FinalizeUserTransfer(r) ==
    LET x == xfer[preq[r].id] IN
    /\ preq[r].op = "finalize"
    /\ x.who \in Members
    /\ placed' = [placed EXCEPT ![x.who] = x.new]
    /\ xfer' = Granted(preq[r].id)
    /\ PGoto(r, PIdle)
    /\ UNCHANGED <<dept, open, active, signed, missed>>

RejectTransfer(r) ==
    LET t == preq[r].id IN
    /\ preq[r].op = "reject"
    /\ xfer' = [xfer EXCEPT ![t] = [@ EXCEPT !.status = "REJECTED", !.level = "REJECTED"]]
    /\ PGoto(r, PIdle)
    /\ UNCHANGED <<dept, open, placed, active, signed, missed>>

\* The process stops between two steps; a look still owed is never taken.
PCrash(r) ==
    /\ Crashes
    /\ preq[r] # PIdle
    /\ missed' = IF preq[r].op \in {"left", "archive"} THEN missed \cup {preq[r].dept}
                 ELSE missed
    /\ PGoto(r, PIdle)
    /\ UNCHANGED <<dept, open, placed, active, signed, xfer>>

-----------------------------------------------------------------------------
DepartmentNext(r) ==
    \/ \E d \in Depts :
         DeleteDepartment(r, d) \/ CheckEnableAtLocation(r, d) \/ CheckSuspendAndArchive(r, d)
    \/ RequestDepartmentDeactivation(r) \/ ArchiveDepartmentNow(r)
    \/ EnableAtLocation(r) \/ SuspendAndArchive(r) \/ ArchiveIfEmpty(r)

TransferNext(r) ==
    \/ \E t \in Transfers : CheckApproveTransfer(r, t) \/ CheckRejectTransfer(r, t)
    \/ ForwardTransfer(r) \/ FinalizeTransfer(r) \/ FinalizeUserTransfer(r)
    \/ RejectTransfer(r)

PlaceNext(r) ==
    \/ \E e \in Workers, d \in Depts : CheckPlaceEmployee(r, e, d)
    \/ \E u \in Members, d \in Depts \cup {Nowhere} : CheckPlaceUser(r, u, d)
    \/ Place(r)

PlacementNext ==
    \/ \E r \in PRequests : DepartmentNext(r) \/ TransferNext(r) \/ PlaceNext(r) \/ PCrash(r)
    \/ \E l \in Branch : CreateLocation(l)
    \/ \E k \in Codes, targets \in SUBSET Branch : CreateDepartment(k, targets)
    \/ \E p \in People : ChangeActive(p)
    \/ \E u \in Members : SignIn(u)
    \/ \E t \in Transfers :
         \/ \E e \in Workers, d \in Depts : RequestTransfer(t, e, d)
         \/ \E u \in Members, d \in Depts \cup {Nowhere} : RequestUserTransfer(t, u, d)

\* The steps a handler has begun are finished unless the process stops.
HandlerStep(r) ==
    \/ RequestDepartmentDeactivation(r) \/ ArchiveDepartmentNow(r) \/ EnableAtLocation(r)
    \/ SuspendAndArchive(r) \/ ArchiveIfEmpty(r) \/ Place(r)
    \/ ForwardTransfer(r) \/ FinalizeTransfer(r) \/ FinalizeUserTransfer(r)
    \/ RejectTransfer(r)

PlacementSpec ==
    /\ PlacementInit /\ [][PlacementNext]_placementVars
    /\ \A r \in PRequests : WF_placementVars(HandlerStep(r))

-----------------------------------------------------------------------------
(* Properties *)

Emptied(d) == dept[d].pending /\ Assigned(d) = {}

\* "REG Pay will archive it automatically when the department is empty."
\* (requestDepartmentDeactivation): with requests one at a time, a pending
\* department whose last employee has gone is about to be looked at, unless
\* the process stopped or a transfer looked at another department.
EmptiedIsSeenTo ==
    \A d \in Depts : Emptied(d) =>
      \/ d \in missed
      \/ \E r \in PRequests : preq[r] \in [op : {"left", "archive"}, dept : {d}]

\* The same promise with no exception: does not hold even one request at a
\* time and without crashes, since approveTransfer looks at the department
\* the employee was in when the transfer was requested.
EmptiedIsArchived == \A d \in Depts : Emptied(d) ~> ~ Emptied(d)

\* A pending deactivation belongs to a department in use: once archived, in
\* any of the ways there are, or enabled again, nothing stays pending.
PendingIsActive == \A d \in Depts : dept[d].pending => dept[d].status = "ACTIVE"

\* Closing a department by suspension leaves nobody suspended signed in.
SuspendedIsSignedOut == signed \subseteq active

\* Winding a department down leaves nothing behind, by whichever of the ways it
\* ends: no pending request of a department out of use, and no session of
\* somebody suspended with it.
PlacementSound == PlacementTypeOK /\ PendingIsActive /\ SuspendedIsSignedOut

=============================================================================
