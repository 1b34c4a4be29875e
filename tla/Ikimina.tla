------------------------------ MODULE Ikimina ------------------------------
(***************************************************************************)
(* The Ikimina savings programme (backend/src/ikimina/ikimina.service.ts): *)
(* memberships, the contribution ledger, and the deduction that payroll    *)
(* makes while it builds a batch.                                          *)
(*                                                                         *)
(* A membership request that reads a row and later writes it in a          *)
(* transaction is two steps here, Check and Commit, so that payroll and    *)
(* other requests can run in between.  Serial = TRUE is the deployment in  *)
(* which requests are handled one at a time.                               *)
(***************************************************************************)
EXTENDS Workforce

CONSTANTS
    Amounts,     \* the monthly amounts a membership may carry
    Batches,     \* ids of payment_batches rows
    MRequests,   \* slots for membership requests in flight
    Requests,    \* slots for payroll requests in flight
    MaxJoins,    \* bound: memberships ever created per employee
    Serial       \* TRUE: at most one request of the system is in flight

ASSUME IkiminaAssumption ==
    /\ Amounts \subseteq Nat \ {0}
    /\ MaxJoins \in Nat
    /\ Serial \in BOOLEAN

VARIABLES
    membership,  \* ikimina_memberships, at most one row per employee
    contrib,     \* ikimina_contributions, unique on (employee, batch); 0 = no row
    mreq,        \* what each membership request in flight has read
    due          \* what deductForBatch is to take, as each payroll request read it

ikiminaVars == <<membership, contrib, mreq, due>>

MembershipStates == {"NONE", "ACTIVE", "INACTIVE"}
Membership == [id : 0 .. MaxJoins, state : MembershipStates, amount : Amounts \cup {0}]

IdleM == [op |-> "idle"]
MRequest ==
    [op : {"idle"}]
      \cup [op : {"update"}, emp : Employees, id : 1 .. MaxJoins,
            amount : Amounts, state : {"ACTIVE", "INACTIVE"},
            touches : SUBSET {"amount", "state"}]
      \cup [op : {"remove"}, emp : Employees, id : 1 .. MaxJoins]

\* A deduction; id is the membership a new ledger entry will refer to, or 0
\* when there is none to write.
Due == [amount : Amounts \cup {0}, id : 0 .. MaxJoins]
NothingDue == [amount |-> 0, id |-> 0]
NoDues == [e \in Employees |-> NothingDue]

\* Every variable ranges over the rows the schema allows.
IkiminaTypeOK ==
    /\ membership \in [Employees -> Membership]
    /\ contrib \in [Employees -> [Batches -> Amounts \cup {0}]]
    /\ mreq \in [MRequests -> MRequest]
    /\ due \in [Requests -> [Employees -> Due]]
    /\ \A e \in Employees :
         membership[e].state # "NONE" =>
           membership[e].id > 0 /\ membership[e].amount \in Amounts

NoContributions == [b \in Batches |-> 0]

IkiminaInit ==
    /\ membership = [e \in Employees |-> [id |-> 0, state |-> "NONE", amount |-> 0]]
    /\ contrib = [e \in Employees |-> NoContributions]
    /\ mreq = [r \in MRequests |-> IdleM]
    /\ due = [r \in Requests |-> NoDues]

MembershipQuiet == \A r \in MRequests : mreq[r] = IdleM

HasContributions(e) == \E b \in Batches : contrib[e][b] # 0

-----------------------------------------------------------------------------
(* Membership requests *)

\* The check for an existing row races with other requests, but the unique
\* key on employee_id makes the create itself fail, so the two are one step.
CreateMembership(e, amount, state) ==
    /\ Serial => MembershipQuiet
    /\ e \in Monthly
    /\ membership[e].state = "NONE"
    /\ membership[e].id < MaxJoins
    /\ membership' = [membership EXCEPT ![e] =
                        [id |-> @.id + 1, state |-> state, amount |-> amount]]
    /\ UNCHANGED <<contrib, mreq>>

\* Mutant: an omitted amount is stored as zero instead of the row's amount.
CheckUpdateMembership_NoFallback(r, e, touches, amount, state) ==
    /\ Serial => MembershipQuiet
    /\ mreq[r] = IdleM
    /\ membership[e].state # "NONE"
    /\ mreq' = [mreq EXCEPT ![r] =
         [op |-> "update", emp |-> e, id |-> membership[e].id, touches |-> touches,
          amount |-> IF "amount" \in touches THEN amount ELSE 0,
          state |-> IF "state" \in touches THEN state ELSE membership[e].state]]
    /\ UNCHANGED <<membership, contrib>>

\* A field the DTO leaves out is filled in from the row as it was read.
CheckUpdateMembership(r, e, touches, amount, state) ==
    /\ Serial => MembershipQuiet
    /\ mreq[r] = IdleM
    /\ membership[e].state # "NONE"
    /\ mreq' = [mreq EXCEPT ![r] =
         [op |-> "update", emp |-> e, id |-> membership[e].id, touches |-> touches,
          amount |-> IF "amount" \in touches THEN amount ELSE membership[e].amount,
          state |-> IF "state" \in touches THEN state ELSE membership[e].state]]
    /\ UNCHANGED <<membership, contrib>>

CommitUpdateMembership(r) ==
    LET q == mreq[r] IN
    /\ q.op = "update"
    /\ membership[q.emp].id = q.id
    /\ membership[q.emp].state # "NONE"
    /\ membership' = [membership EXCEPT ![q.emp] =
                        [id |-> @.id, state |-> q.state, amount |-> q.amount]]
    /\ mreq' = [mreq EXCEPT ![r] = IdleM]
    /\ UNCHANGED contrib

\* Mutant: the guard on processed contributions is dropped.
CheckRemoveMembership_Unguarded(r, e) ==
    /\ Serial => MembershipQuiet
    /\ mreq[r] = IdleM
    /\ membership[e].state # "NONE"
    /\ mreq' = [mreq EXCEPT ![r] =
                  [op |-> "remove", emp |-> e, id |-> membership[e].id]]
    /\ UNCHANGED <<membership, contrib>>

CheckRemoveMembership(r, e) ==
    /\ Serial => MembershipQuiet
    /\ mreq[r] = IdleM
    /\ membership[e].state # "NONE"
    /\ ~ HasContributions(e)
    /\ mreq' = [mreq EXCEPT ![r] =
                  [op |-> "remove", emp |-> e, id |-> membership[e].id]]
    /\ UNCHANGED <<membership, contrib>>

\* Mutant: the membership goes, its ledger entries stay.
CommitRemoveMembership_KeepLedger(r) ==
    LET q == mreq[r] IN
    /\ q.op = "remove"
    /\ membership[q.emp].id = q.id
    /\ membership[q.emp].state # "NONE"
    /\ membership' = [membership EXCEPT ![q.emp] =
                        [id |-> @.id, state |-> "NONE", amount |-> 0]]
    /\ mreq' = [mreq EXCEPT ![r] = IdleM]
    /\ UNCHANGED contrib

CommitRemoveMembership(r) ==
    LET q == mreq[r] IN
    /\ q.op = "remove"
    /\ membership[q.emp].id = q.id
    /\ membership[q.emp].state # "NONE"
    /\ contrib' = [contrib EXCEPT ![q.emp] = NoContributions]
    /\ membership' = [membership EXCEPT ![q.emp] =
                        [id |-> @.id, state |-> "NONE", amount |-> 0]]
    /\ mreq' = [mreq EXCEPT ![r] = IdleM]

\* A request whose row is gone, or whose transaction is rolled back.
AbortMembership(r) ==
    /\ mreq[r] # IdleM
    /\ mreq' = [mreq EXCEPT ![r] = IdleM]
    /\ UNCHANGED <<membership, contrib>>

-----------------------------------------------------------------------------
(* deductForBatch, called by payroll for the employees of a batch *)

ActiveMembers(emps) == {e \in emps : membership[e].state = "ACTIVE"}

\* Mutant: an entry the ledger has is skipped, but today's amount is withheld.
DueOf_CurrentAmount(b, e) ==
    [amount |-> membership[e].amount,
     id |-> IF b \in Batches /\ contrib[e][b] # 0 THEN 0 ELSE membership[e].id]

\* An entry the ledger already has for this batch keeps its amount; a batch
\* that is still to be created has none.
DueOf(b, e) ==
    IF b \in Batches /\ contrib[e][b] # 0
    THEN [amount |-> contrib[e][b], id |-> 0]
    ELSE [amount |-> membership[e].amount, id |-> membership[e].id]

\* What deductForBatch takes from each employee, in the snapshot it reads.
Dues(b, emps) ==
    [e \in Employees |-> IF e \in ActiveMembers(emps) THEN DueOf(b, e) ELSE NothingDue]

readDues(r, b, emps) == due' = [due EXCEPT ![r] = Dues(b, emps)]

\* The new entries are written when payroll commits; the foreign key to the
\* membership and the unique key on (employee, batch) must hold by then.
deductForBatch(r, b) ==
    /\ \A e \in Employees : due[r][e].id # 0 =>
         /\ membership[e].state # "NONE" /\ membership[e].id = due[r][e].id
         /\ contrib[e][b] = 0
    /\ contrib' = [e \in Employees |->
                     IF due[r][e].id # 0
                     THEN [contrib[e] EXCEPT ![b] = due[r][e].amount]
                     ELSE contrib[e]]
    /\ due' = [due EXCEPT ![r] = NoDues]

-----------------------------------------------------------------------------
(* The component on its own: payroll is whatever calls deductForBatch, for a *)
(* draft it has or for a batch whose id it learns only when it commits.      *)

MembershipNext ==
    \/ \E e \in Employees, a \in Amounts, s \in {"ACTIVE", "INACTIVE"} :
         CreateMembership(e, a, s)
    \/ \E r \in MRequests, e \in Employees, touches \in SUBSET {"amount", "state"},
          a \in Amounts, s \in {"ACTIVE", "INACTIVE"} :
         CheckUpdateMembership(r, e, touches, a, s)
    \/ \E r \in MRequests, e \in Employees : CheckRemoveMembership(r, e)
    \/ \E r \in MRequests :
         CommitUpdateMembership(r) \/ CommitRemoveMembership(r) \/ AbortMembership(r)

DuesQuiet == \A r \in Requests : due[r] = NoDues

PayrollReads(r, b, emps) ==
    /\ due[r] = NoDues
    /\ Serial => MembershipQuiet /\ DuesQuiet
    /\ readDues(r, b, emps)
    /\ UNCHANGED <<membership, contrib, mreq>>

PayrollDeducts(r, b) ==
    /\ Serial => MembershipQuiet
    /\ deductForBatch(r, b)
    /\ UNCHANGED <<membership, mreq>>

PayrollAborts(r) ==
    /\ due' = [due EXCEPT ![r] = NoDues]
    /\ UNCHANGED <<membership, contrib, mreq>>

IkiminaNext ==
    \/ /\ Serial => DuesQuiet
       /\ MembershipNext
       /\ UNCHANGED due
    \/ \E r \in Requests :
         \/ \E b \in Batches, emps \in SUBSET Employees : PayrollReads(r, b, emps)
         \/ \E b \in Batches : PayrollDeducts(r, b)
         \/ PayrollAborts(r)

IkiminaSpec == IkiminaInit /\ [][IkiminaNext]_ikiminaVars

-----------------------------------------------------------------------------
(* Properties *)

\* Every ledger entry belongs to a membership that exists: removeMembership
\* deletes the entries with the row, and payroll only credits a member.
LedgerOwned ==
    \A e \in Employees : HasContributions(e) => membership[e].state # "NONE"

\* removeMembership's comment: contributions processed through payroll are
\* "settled financial history and must stay immutable".
ContributionsImmutable ==
    [][\A e \in Employees, b \in Batches :
         contrib[e][b] # 0 => contrib'[e][b] = contrib[e][b]]_ikiminaVars

=============================================================================
