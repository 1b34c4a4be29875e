------------------------ MODULE PayrollBatches_proofs ------------------------
(* Payroll batches, for every number of employees, batches and requests. *)
EXTENDS PayrollBatches, Ikimina_proofs

\* The tables other modules own.
OthersTypeOK == LedgerInv /\ ContractsTypeOK

\* Types of every table but the requests in flight.
TablesTypeOK ==
    /\ batch \in [Batches -> Batch]
    /\ item \in [ItemIds -> Item]
    /\ txn \in [ItemIds -> Txn]
    /\ made \in [Employees -> 0 .. MaxItems]
    /\ approvers \in Approvers

\* A request; one that will only forward its batch was read at step 1.
WellFormed == {q \in Request : q.op = "approveTx" /\ ~ q.final => q.step = 1}

\* TypeOK, strengthened so that it is inductive.
TypeInv == OthersTypeOK /\ TablesTypeOK /\ req \in [Requests -> WellFormed]

\* The inductive invariant implies the type invariant.
LEMMA TypeInvImplies == TypeInv => TypeOK /\ LedgerOwned
BY DEF TypeInv, TypeOK, OthersTypeOK, TablesTypeOK, LedgerInv, WellFormed

\* Leaving the savings and the contracts alone keeps their types.
LEMMA OthersUnchanged ==
    ASSUME OthersTypeOK, UNCHANGED <<ikiminaVars, contractVars>>
    PROVE  OthersTypeOK'
BY DEF OthersTypeOK, LedgerInv, IkiminaTypeOK, LedgerOwned, HasContributions,
       ContractsTypeOK, ikiminaVars, contractVars

\* So does changing only what payroll is to deduct.
LEMMA OthersButDue ==
    ASSUME OthersTypeOK, due' \in [Requests -> [Employees -> Due]],
           UNCHANGED <<membership, contrib, mreq, contractVars>>
    PROVE  OthersTypeOK'
BY DEF OthersTypeOK, LedgerInv, IkiminaTypeOK, LedgerOwned, HasContributions,
       ContractsTypeOK, contractVars

\* So does leaving payroll's tables alone.
LEMMA TablesUnchanged ==
    ASSUME TablesTypeOK, UNCHANGED <<batch, item, txn, made, approvers>>
    PROVE  TablesTypeOK'
BY DEF TablesTypeOK

\* A request slot may hold any well-formed request.
LEMMA RequestWritten ==
    ASSUME req \in [Requests -> WellFormed], NEW r \in Requests, NEW q \in WellFormed,
           req' = [req EXCEPT ![r] = q]
    PROVE  req' \in [Requests -> WellFormed]
OBVIOUS

\* An idle slot is well formed.
LEMMA IdleIsRequest == Idle \in WellFormed
BY DEF Idle, Request, WellFormed

\* What the type of a request says of one that has come to a given step.
LEMMA Shape ==
    ASSUME NEW q \in WellFormed
    PROVE  /\ q.op = "create" => q.emps \in SUBSET Employees
           /\ q.op \in {"createDraft", "createTx"} =>
                /\ q.emps \in SUBSET Employees
                /\ q.target \in Batches \cup {NoBatch}
           /\ q.op = "createTx" => q.old \in SUBSET ItemIds
           /\ q.op \in {"submit", "attach", "item", "itemTx", "reject", "approve",
                        "approveTx"} => q.target \in Batches
           /\ q.op = "attach" => q.files \in SUBSET Files
           /\ q.op \in {"item", "itemTx"} => /\ q.id \in ItemIds
                                             /\ q.verdict \in {"APPROVED", "REJECTED"}
           /\ q.op \in {"approve", "approveTx"} => q.actor \in Actors /\ q.step \in 1 .. 2
           /\ q.op = "reject" => q.actor \in Actors
           /\ q.op = "approveTx" => /\ q.final \in BOOLEAN
                                    /\ q.rejected \in SUBSET ItemIds
                                    /\ q.payable \in SUBSET ItemIds
                                    /\ q.files \in SUBSET Files
BY DEF Request, WellFormed

\* A new batch row and its totals are well formed.
LEMMA EmptyBatchType ==
    /\ EmptyBatch \in Batch
    /\ \A ids \in SUBSET ItemIds : CountOnce(ids) \in [ItemIds -> Int]
BY DEF EmptyBatch, Batch, BatchStatus, CountOnce

\* A batch row written field by field: the fields the writers touch.
LEMMA RowFields ==
    ASSUME NEW row \in Batch, NEW st \in BatchStatus, NEW step \in 1 .. 2,
           NEW by \in Actors \cup {NoActor}, NEW totals \in [ItemIds -> Int]
    PROVE  /\ [row EXCEPT !.status = st, !.step = step] \in Batch
           /\ [row EXCEPT !.status = st, !.step = step, !.by = by] \in Batch
           /\ [row EXCEPT !.totals = totals, !.status = st, !.step = step, !.by = by]
                \in Batch
BY DEF Batch

\* The id a new batch gets is that of no row.
LEMMA NewBatchUnused ==
    ASSUME Unused # {} PROVE NewBatch \in Unused /\ NewBatch \in Batches
BY DEF Unused, NewBatch

\* The initial state is well typed.
LEMMA InitType == Init => TypeInv
<1> SUFFICES ASSUME Init PROVE TypeInv
  OBVIOUS
<1>1. OthersTypeOK
  BY IkiminaInitInv DEF Init, OthersTypeOK, ContractsInit, ContractsTypeOK, StaffStatus
<1>2. made \in [Employees -> 0 .. MaxItems]
  BY PayrollAssumption DEF Init
<1>3. batch \in [Batches -> Batch]
  BY EmptyBatchType DEF Init
<1>4. item \in [ItemIds -> Item] /\ txn \in [ItemIds -> Txn]
  BY DEF Init, NoItem, Item, Txn, ItemStatus, TxnStatus
<1>5. approvers \in Approvers /\ req \in [Requests -> WellFormed]
  BY IdleIsRequest DEF Init
<1> QED BY <1>1, <1>2, <1>3, <1>4, <1>5 DEF TypeInv, TablesTypeOK

-----------------------------------------------------------------------------
(* Steps that only read *)

\* The new state of a request that has read and written no table.
LEMMA ReadStep ==
    ASSUME TypeInv, NEW r \in Requests, NEW q \in WellFormed,
           req' = [req EXCEPT ![r] = q],
           UNCHANGED <<batch, item, txn, made, approvers>>,
           \/ UNCHANGED <<ikiminaVars, contractVars>>
           \/ /\ due' \in [Requests -> [Employees -> Due]]
              /\ UNCHANGED <<membership, contrib, mreq, contractVars>>
    PROVE  TypeInv'
<1>1. req' \in [Requests -> WellFormed]
  BY RequestWritten DEF TypeInv
<1>2. OthersTypeOK'
  BY OthersUnchanged, OthersButDue DEF TypeInv
<1>3. TablesTypeOK'
  BY TablesUnchanged DEF TypeInv
<1> QED BY <1>1, <1>2, <1>3 DEF TypeInv

\* Every check, every snapshot and every rollback keeps the types.
LEMMA ReadStepsType ==
    ASSUME TypeInv, NEW r \in Requests,
           \/ \E emps \in SUBSET Employees : ReadEmployees(r, emps)
           \/ \E b \in Batches \cup {NoBatch} : FindDraft(r, b)
           \/ BeginCreateBatch(r)
           \/ \E b \in Batches : CheckSubmitBatch(r, b)
           \/ \E b \in Batches, files \in SUBSET Files : CheckAddAttachments(r, b, files)
           \/ \E a \in Actors, i \in ItemIds, v \in {"APPROVED", "REJECTED"} :
                CheckReviewItem(r, a, i, v)
           \/ BeginReviewItem(r)
           \/ \E a \in Actors, b \in Batches :
                CheckApproveBatch(r, a, b) \/ CheckRejectBatch(r, a, b)
           \/ BeginApproveBatch(r)
           \/ Abort(r)
    PROVE  TypeInv'
<1>0. TablesTypeOK /\ req[r] \in WellFormed
  BY DEF TypeInv
<1> USE <1>0 DEF TablesTypeOK
<1>11. ASSUME NEW emps \in SUBSET Employees, ReadEmployees(r, emps) PROVE TypeInv'
  <2> DEFINE q == IF emps = {} THEN Idle ELSE [op |-> "create", emps |-> emps]
  <2>1. q \in WellFormed
    BY IdleIsRequest DEF Request, WellFormed
  <2>2. req' = [req EXCEPT ![r] = q]
    BY <1>11 DEF ReadEmployees
  <2> HIDE DEF q
  <2> QED BY <1>11, <2>1, <2>2, ReadStep DEF ReadEmployees
<1>10. ASSUME NEW b \in Batches \cup {NoBatch}, FindDraft(r, b) PROVE TypeInv'
  <2>1. [op |-> "createDraft", emps |-> req[r].emps, target |-> b] \in WellFormed
    BY <1>10, Shape DEF FindDraft, Request, WellFormed
  <2> QED BY <1>10, <2>1, ReadStep DEF FindDraft
<1>1. CASE BeginCreateBatch(r)
  <2> DEFINE b == req[r].target
             q == [op |-> "createTx", emps |-> req[r].emps, target |-> b,
                   old |-> IF b = NoBatch THEN {} ELSE ItemsOf(b)]
  <2>1. q \in WellFormed
    BY <1>1, Shape DEF BeginCreateBatch, Request, WellFormed, ItemsOf
  <2>2. req' = [req EXCEPT ![r] = q]
    BY <1>1 DEF BeginCreateBatch
  <2>3. due' \in [Requests -> [Employees -> Due]]
    <3>1. IkiminaTypeOK /\ req[r].emps \in SUBSET Employees
      BY <1>1, Shape DEF BeginCreateBatch, TypeInv, OthersTypeOK, LedgerInv
    <3> QED BY <1>1, <3>1, DuesType DEF BeginCreateBatch, readDues, IkiminaTypeOK
  <2> HIDE DEF q
  <2> QED BY <1>1, <2>1, <2>2, <2>3, ReadStep DEF BeginCreateBatch
<1>2. ASSUME NEW b \in Batches, CheckSubmitBatch(r, b) PROVE TypeInv'
  <2>1. [op |-> "submit", target |-> b] \in WellFormed
    BY DEF Request, WellFormed
  <2> QED BY <1>2, <2>1, ReadStep DEF CheckSubmitBatch
<1>3. ASSUME NEW b \in Batches, NEW files \in SUBSET Files, CheckAddAttachments(r, b, files)
      PROVE TypeInv'
  <2>1. Attached(b, files) \in SUBSET Files
    BY DEF Attached, Batch
  <2>2. [op |-> "attach", target |-> b, files |-> Attached(b, files)] \in WellFormed
    BY <2>1 DEF Request, WellFormed
  <2> QED BY <1>3, <2>2, ReadStep DEF CheckAddAttachments
<1>4. ASSUME NEW a \in Actors, NEW i \in ItemIds, NEW v \in {"APPROVED", "REJECTED"},
             CheckReviewItem(r, a, i, v)
      PROVE TypeInv'
  <2>1. item[i].batch \in Batches
    BY <1>4 DEF CheckReviewItem, Item
  <2>2. [op |-> "item", id |-> i, target |-> item[i].batch, verdict |-> v] \in WellFormed
    BY <2>1 DEF Request, WellFormed
  <2> QED BY <1>4, <2>2, ReadStep DEF CheckReviewItem
<1>5. CASE BeginReviewItem(r)
  <2> DEFINE others == ItemsOf(req[r].target) \ {req[r].id}
             q == [op |-> "itemTx", id |-> req[r].id, target |-> req[r].target,
                   verdict |-> req[r].verdict, others |-> others,
                   pending |-> \E i \in others : item[i].status = "PENDING"]
  <2>1. others \in SUBSET ItemIds
    BY DEF ItemsOf
  <2>2. req' = [req EXCEPT ![r] = q]
    BY <1>5 DEF BeginReviewItem
  <2>3. (\E i \in others : item[i].status = "PENDING") \in BOOLEAN
    OBVIOUS
  <2>4. q \in WellFormed
    <3> HIDE DEF others
    <3> QED BY <1>5, <2>1, <2>3, Shape DEF BeginReviewItem, Request, WellFormed
  <2> HIDE DEF q
  <2> QED BY <1>5, <2>2, <2>4, ReadStep DEF BeginReviewItem
<1>6. ASSUME NEW a \in Actors, NEW b \in Batches, CheckApproveBatch(r, a, b)
      PROVE TypeInv'
  <2>1. batch[b].step \in 1 .. 2
    BY DEF Batch
  <2>2. [op |-> "approve", actor |-> a, target |-> b, step |-> batch[b].step] \in WellFormed
    BY <2>1 DEF Request, WellFormed
  <2> QED BY <1>6, <2>2, ReadStep DEF CheckApproveBatch
<1>7. ASSUME NEW a \in Actors, NEW b \in Batches, CheckRejectBatch(r, a, b)
      PROVE TypeInv'
  <2>1. [op |-> "reject", actor |-> a, target |-> b] \in WellFormed
    BY DEF Request, WellFormed
  <2> QED BY <1>7, <2>1, ReadStep DEF CheckRejectBatch
<1>8. CASE BeginApproveBatch(r)
  <2> DEFINE rejected == {i \in ItemsOf(req[r].target) : item[i].status = "REJECTED"}
             final == req[r].step >= FinalStep
             payable == IF final THEN PayableItems(req[r].target) ELSE {}
             files == batch[req[r].target].files
             q == [op |-> "approveTx", actor |-> req[r].actor, target |-> req[r].target,
                   step |-> req[r].step, final |-> final, rejected |-> rejected,
                   payable |-> payable, files |-> files]
  <2>1. rejected \in SUBSET ItemIds /\ payable \in SUBSET ItemIds
    BY DEF ItemsOf, PayableItems
  <2>2. final \in BOOLEAN /\ (~ final => req[r].step = 1)
    BY <1>8, Shape DEF BeginApproveBatch, FinalStep
  <2>3. req[r].target \in Batches
    BY <1>8, Shape DEF BeginApproveBatch
  <2>4. files \in SUBSET Files
    BY <2>3 DEF Batch
  <2>5. req' = [req EXCEPT ![r] = q]
    BY <1>8 DEF BeginApproveBatch
  <2>6. q \in WellFormed
    <3> HIDE DEF rejected, final, payable, files
    <3> QED BY <1>8, <2>1, <2>2, <2>3, <2>4, Shape DEF BeginApproveBatch, Request, WellFormed
  <2> HIDE DEF q
  <2> QED BY <1>8, <2>5, <2>6, ReadStep DEF BeginApproveBatch
<1>9. CASE Abort(r)
  <2>1. due' \in [Requests -> [Employees -> Due]]
    BY <1>9, NoDuesType DEF Abort, TypeInv, OthersTypeOK, LedgerInv, IkiminaTypeOK
  <2> QED BY <1>9, <2>1, IdleIsRequest, ReadStep DEF Abort
<1> QED BY <1>1, <1>2, <1>3, <1>4, <1>5, <1>6, <1>7, <1>8, <1>9, <1>10, <1>11

-----------------------------------------------------------------------------
(* Steps that write *)

\* createBatch pauses the expired contracts.
LEMMA CheckCreateType ==
    ASSUME TypeInv, NEW r \in Requests, CheckCreateBatch(r) PROVE TypeInv'
<1>1. [op |-> "createRead"] \in WellFormed
  BY DEF Request, WellFormed
<1>2. req' \in [Requests -> WellFormed]
  BY <1>1 DEF TypeInv, CheckCreateBatch
<1>3. TablesTypeOK'
  BY TablesUnchanged DEF TypeInv, CheckCreateBatch
<1>4. LedgerInv'
  BY DEF TypeInv, CheckCreateBatch, OthersTypeOK, LedgerInv, IkiminaTypeOK,
                   LedgerOwned, HasContributions, ikiminaVars
<1>5. ContractsTypeOK'
  BY DEF TypeInv, CheckCreateBatch, OthersTypeOK, ContractsTypeOK, Paused, StaffStatus
<1> QED BY <1>2, <1>3, <1>4, <1>5 DEF TypeInv, OthersTypeOK

\* createBatch's transaction keeps the types.
LEMMA CommitCreateType ==
    ASSUME TypeInv, NEW r \in Requests, CommitCreateBatch(r) PROVE TypeInv'
<1> DEFINE q == req[r]
           b == IF q.target = NoBatch THEN NewBatch ELSE q.target
           fresh == FreshItems(q.emps)
<1>0. TablesTypeOK /\ OthersTypeOK /\ req \in [Requests -> WellFormed]
  BY DEF TypeInv
<1>1. b \in Batches /\ q.emps \in SUBSET Employees
  BY <1>0, Shape, NewBatchUnused DEF CommitCreateBatch
<1>2. fresh \in SUBSET ItemIds
  BY DEF FreshItems
<1>3. /\ item' = Replaced(b, fresh)
      /\ txn' = [i \in ItemIds |->
                   IF i \in fresh
                   THEN [status |-> "PENDING", ded |-> due[r][i[1]].amount]
                   ELSE IF i \in q.old THEN [txn[i] EXCEPT !.status = "NONE"]
                   ELSE txn[i]]
      /\ batch' = [batch EXCEPT ![b] =
                     IF q.target = NoBatch
                     THEN [EmptyBatch EXCEPT !.status = "DRAFT", !.totals = CountOnce(fresh)]
                     ELSE [batch[b] EXCEPT !.totals = CountOnce(fresh)]]
      /\ made' = [e \in Employees |-> IF e \in q.emps THEN made[e] + 1 ELSE made[e]]
      /\ \A e \in q.emps : made[e] < MaxItems
      /\ deductForBatch(r, b)
      /\ req' = [req EXCEPT ![r] = Idle]
      /\ UNCHANGED <<approvers, membership, mreq, contractVars>>
  BY DEF CommitCreateBatch
<1> HIDE DEF q, b, fresh
<1>4. item' \in [ItemIds -> Item]
  BY <1>0, <1>1, <1>3 DEF Replaced, NoItem, TablesTypeOK, Item, ItemStatus
<1>5. \A i \in ItemIds : due[r][i[1]].amount \in Amounts \cup {0}
  BY <1>0 DEF ItemIds, OthersTypeOK, LedgerInv, IkiminaTypeOK, Due
<1>6. txn' \in [ItemIds -> Txn]
  BY <1>0, <1>3, <1>5 DEF TablesTypeOK, Txn, TxnStatus
<1>7. batch' \in [Batches -> Batch]
  <2>1. [EmptyBatch EXCEPT !.status = "DRAFT", !.totals = CountOnce(fresh)] \in Batch
    BY <1>2, EmptyBatchType DEF Batch, BatchStatus
  <2>2. [batch[b] EXCEPT !.totals = CountOnce(fresh)] \in Batch
    BY <1>0, <1>1, <1>2, EmptyBatchType DEF TablesTypeOK, Batch
  <2> QED BY <1>0, <1>3, <2>1, <2>2 DEF TablesTypeOK
<1>8. made' \in [Employees -> 0 .. MaxItems]
  BY <1>0, <1>3, PayrollAssumption DEF TablesTypeOK
<1>9. OthersTypeOK'
  <2>1. IkiminaTypeOK'
    BY <1>0, <1>1, <1>3, DeductFacts DEF OthersTypeOK, LedgerInv, IkiminaTypeOK
  <2>2. LedgerOwned'
    BY <1>0, <1>1, <1>3, DeductFacts DEF OthersTypeOK, LedgerInv, LedgerOwned, HasContributions
  <2>3. ContractsTypeOK'
    BY <1>0, <1>3 DEF OthersTypeOK, ContractsTypeOK, contractVars
  <2> QED BY <2>1, <2>2, <2>3 DEF OthersTypeOK, LedgerInv
<1>10. req' \in [Requests -> WellFormed]
  BY <1>0, <1>3, IdleIsRequest, RequestWritten
<1>11. TablesTypeOK'
  BY <1>0, <1>3, <1>4, <1>6, <1>7, <1>8 DEF TablesTypeOK
<1> QED BY <1>9, <1>10, <1>11 DEF TypeInv

\* A step of a request that ends, writes payroll's tables and no others.
LEMMA WriteStep ==
    ASSUME TypeInv, NEW r \in Requests, req' = [req EXCEPT ![r] = Idle],
           batch' \in [Batches -> Batch], item' \in [ItemIds -> Item],
           txn' \in [ItemIds -> Txn],
           UNCHANGED <<made, approvers, ikiminaVars, contractVars>>
    PROVE  TypeInv'
<1>1. req' \in [Requests -> WellFormed]
  BY IdleIsRequest, RequestWritten DEF TypeInv
<1>2. OthersTypeOK'
  BY OthersUnchanged DEF TypeInv
<1>3. TablesTypeOK'
  BY DEF TypeInv, TablesTypeOK
<1> QED BY <1>1, <1>2, <1>3 DEF TypeInv

\* submitBatch, addBatchAttachments and the item decisions keep the types.
LEMMA SmallCommitsType ==
    ASSUME TypeInv, NEW r \in Requests,
           CommitSubmitBatch(r) \/ CommitAddAttachments(r) \/ CommitReviewItem(r)
    PROVE  TypeInv'
<1>0. TablesTypeOK /\ req[r] \in WellFormed
  BY DEF TypeInv
<1>1. CASE CommitSubmitBatch(r)
  <2>1. req[r].target \in Batches
    BY <1>0, <1>1, Shape DEF CommitSubmitBatch
  <2>2. [batch[req[r].target] EXCEPT !.status = "PENDING", !.step = 1] \in Batch
    <3>1. batch[req[r].target] \in Batch /\ "PENDING" \in BatchStatus /\ 1 \in 1 .. 2
      BY <1>0, <2>1 DEF TablesTypeOK, BatchStatus, Reviewable
    <3> QED BY <3>1, RowFields, EmptyBatchType DEF EmptyBatch, Batch
  <2>3. batch' \in [Batches -> Batch]
    BY <1>0, <1>1, <2>2 DEF CommitSubmitBatch, TablesTypeOK
  <2> QED BY <1>0, <1>1, <2>3, WriteStep DEF CommitSubmitBatch, TablesTypeOK
<1>2. CASE CommitAddAttachments(r)
  <2>1. req[r].target \in Batches /\ req[r].files \in SUBSET Files
    BY <1>0, <1>2, Shape DEF CommitAddAttachments
  <2>2. [batch[req[r].target] EXCEPT !.files = req[r].files] \in Batch
    BY <1>0, <2>1 DEF TablesTypeOK, Batch
  <2>3. batch' \in [Batches -> Batch]
    BY <1>0, <1>2, <2>2 DEF CommitAddAttachments, TablesTypeOK
  <2> QED BY <1>0, <1>2, <2>3, WriteStep DEF CommitAddAttachments, TablesTypeOK
<1>3. CASE CommitReviewItem(r)
  <2>1. /\ req[r].id \in ItemIds /\ req[r].target \in Batches
        /\ req[r].verdict \in {"APPROVED", "REJECTED"}
    BY <1>0, <1>3, Shape DEF CommitReviewItem
  <2>2. RecalculatedStatus(req[r]) \in BatchStatus
    BY <1>0, <2>1 DEF RecalculatedStatus, TablesTypeOK, Batch, BatchStatus, Reviewable
  <2>3. batch' \in [Batches -> Batch]
    <3>1. [batch[req[r].target] EXCEPT !.status = RecalculatedStatus(req[r])] \in Batch
      BY <1>0, <2>1, <2>2 DEF TablesTypeOK, Batch
    <3> QED BY <1>0, <1>3, <3>1 DEF CommitReviewItem, TablesTypeOK
  <2>4. item' \in [ItemIds -> Item]
    BY <1>0, <1>3, <2>1 DEF CommitReviewItem, TablesTypeOK, Item, ItemStatus
  <2>5. txn' \in [ItemIds -> Txn]
    BY <1>0, <1>3, <2>1 DEF CommitReviewItem, TablesTypeOK, Txn, TxnStatus
  <2> QED BY <1>3, <2>3, <2>4, <2>5, WriteStep DEF CommitReviewItem
<1> QED BY <1>1, <1>2, <1>3

\* approveBatch's transaction, split included, keeps the types.
LEMMA CommitApproveType ==
    ASSUME TypeInv, NEW r \in Requests, CommitApproveBatch(r) PROVE TypeInv'
<1> DEFINE q == req[r]
<1>0. TablesTypeOK /\ q \in WellFormed /\ q.op = "approveTx"
  BY DEF TypeInv, CommitApproveBatch
<1>1. /\ q.target \in Batches /\ q.rejected \in SUBSET ItemIds
      /\ q.files \in SUBSET Files /\ q.actor \in Actors
      /\ q.step \in 1 .. 2 /\ q.final \in BOOLEAN
  BY <1>0, Shape
<1>2. ~ q.final => q.step = 1
  BY <1>0 DEF WellFormed
<1>3. \A row \in Batch : Advanced(row, q) \in Batch
  <2> TAKE row \in Batch
  <2> DEFINE totals == Decremented(row.totals, q.rejected)
             st == IF q.final THEN "APPROVED" ELSE "MANAGER_APPROVED"
             step == IF q.final THEN q.step ELSE q.step + 1
             by == IF q.final THEN q.actor ELSE NoActor
  <2>1. totals \in [ItemIds -> Int]
    BY DEF Decremented, Batch
  <2>2. st \in BatchStatus
    BY DEF BatchStatus, Reviewable, Terminal
  <2>3. step \in 1 .. 2 /\ by \in Actors \cup {NoActor}
    BY <1>1, <1>2
  <2>4. Advanced(row, q) = [row EXCEPT !.totals = totals, !.status = st,
                                       !.step = step, !.by = by]
    BY DEF Advanced
  <2> HIDE DEF totals, st, step, by
  <2>5. [row EXCEPT !.totals = totals, !.status = st, !.step = step, !.by = by] \in Batch
    BY <2>1, <2>2, <2>3, RowFields
  <2> QED BY <2>4, <2>5
<1>4. SplitOff(q) \in Batch
  <2>1. CountOnce(q.rejected) \in [ItemIds -> Int]
    BY <1>1, EmptyBatchType
  <2> QED BY <1>1, <2>1, EmptyBatchType DEF SplitOff, Batch, BatchStatus
<1>5. batch' \in [Batches -> Batch]
  BY <1>0, <1>3, <1>4 DEF CommitApproveBatch, TablesTypeOK
<1>6. q.rejected # {} => NewBatch \in Batches
  BY NewBatchUnused DEF CommitApproveBatch
<1>7. item' \in [ItemIds -> Item]
  BY <1>0, <1>6 DEF CommitApproveBatch, TablesTypeOK, Item, ItemStatus
<1>8. txn' \in [ItemIds -> Txn]
  BY <1>0 DEF CommitApproveBatch, TablesTypeOK, Txn, TxnStatus
<1> QED BY <1>5, <1>7, <1>8, WriteStep DEF CommitApproveBatch

\* So does rejectBatch's.
LEMMA CommitRejectType ==
    ASSUME TypeInv, NEW r \in Requests, CommitRejectBatch(r) PROVE TypeInv'
<1> DEFINE q == req[r]
<1>0. TablesTypeOK /\ q.target \in Batches /\ q.actor \in Actors
  BY Shape DEF TypeInv, CommitRejectBatch
<1>1. batch[q.target] \in Batch
  BY <1>0 DEF TablesTypeOK
<1>2. [batch[q.target] EXCEPT !.status = "REJECTED", !.by = q.actor] \in Batch
  BY <1>0, <1>1 DEF Batch, BatchStatus, Terminal
<1>3. Returned(batch[q.target]) \in Batch
  <2>1. "DRAFT" \in BatchStatus /\ 1 \in 1 .. 2
    BY DEF BatchStatus
  <2> QED BY <1>1, <2>1, RowFields, EmptyBatchType DEF Returned, EmptyBatch, Batch
<1>4. batch' \in [Batches -> Batch]
  BY <1>0, <1>2, <1>3 DEF CommitRejectBatch, TablesTypeOK
<1>5. item' \in [ItemIds -> Item]
  BY <1>0 DEF CommitRejectBatch, Reopened, TablesTypeOK, Item, ItemStatus
<1> QED BY <1>0, <1>4, <1>5, WriteStep DEF CommitRejectBatch, TablesTypeOK

\* Every step of the system keeps the types.
LEMMA NextType == TypeInv /\ [Next]_vars => TypeInv'
<1> SUFFICES ASSUME TypeInv, [Next]_vars PROVE TypeInv'
  OBVIOUS
<1>1. CASE UNCHANGED vars
  <2>1. OthersTypeOK'
    BY <1>1, OthersUnchanged DEF TypeInv, vars
  <2>2. TablesTypeOK'
    BY <1>1, TablesUnchanged DEF TypeInv, vars, payrollVars
  <2> QED BY <1>1, <2>1, <2>2 DEF TypeInv, vars, payrollVars
<1>2. CASE ApproversMove
  <2>1. OthersTypeOK'
    BY <1>2, OthersUnchanged DEF TypeInv, ApproversMove
  <2> QED BY <1>2, <2>1 DEF ApproversMove, TypeInv, TablesTypeOK
<1>3. CASE MembershipNext /\ UNCHANGED <<payrollVars, due, contractVars>>
  <2>1. LedgerInv'
    BY <1>3, MembershipNextInv DEF TypeInv, OthersTypeOK
  <2> QED BY <1>3, <2>1 DEF TypeInv, OthersTypeOK, TablesTypeOK, payrollVars,
                            contractVars, ContractsTypeOK
<1>4. CASE ContractsNext /\ UNCHANGED <<payrollVars, ikiminaVars>>
  <2>1. ContractsTypeOK'
    BY <1>4 DEF TypeInv, OthersTypeOK, ContractsTypeOK, ContractsNext, StaffNext,
                CronNext, ContractEnds,
                RenewContract, ChangeStatus, FindExpired, PauseExpired, SweepFails,
                Expired, Paused, StaffStatus
  <2>2. LedgerInv'
    BY <1>4 DEF TypeInv, OthersTypeOK, LedgerInv, IkiminaTypeOK, LedgerOwned,
                HasContributions, ikiminaVars
  <2> QED BY <1>4, <2>1, <2>2 DEF TypeInv, OthersTypeOK, TablesTypeOK, payrollVars
<1> QED BY <1>1, <1>2, <1>3, <1>4, CheckCreateType, ReadStepsType, CommitCreateType,
           SmallCommitsType, CommitApproveType, CommitRejectType DEF Next, ContractsNext

\* The tables and the requests in flight are always well formed, however
\* requests interleave.
THEOREM TypeCorrect == Spec => []TypeOK
<1>1. TypeInv => TypeOK
  BY TypeInvImplies
<1> QED BY <1>1, InitType, NextType, PTL DEF Spec

-----------------------------------------------------------------------------
(* One item per employee and batch *)

Distinct(ids) == \A i, j \in ids : i[1] = j[1] => i = j

\* An item is in a batch that exists: an unused batch id has no items.
ItemsInRows ==
    \A i \in ItemIds, b \in Batches : item[i].batch = b => batch[b].status # "NONE"

\* What a split will move are items of different employees, even after other
\* requests have changed the batch they were read from; what createBatch will
\* regenerate is a row that exists.
SnapshotsSound ==
    \A r \in Requests :
      /\ req[r].op = "approveTx" => Distinct(req[r].rejected)
      /\ req[r].op \in {"createDraft", "createTx"} /\ req[r].target # NoBatch =>
           batch[req[r].target].status # "NONE"

ItemInv == TypeInv /\ OneItemPerEmployee /\ ItemsInRows /\ SnapshotsSound

\* Nothing is in a batch before the first request.
LEMMA InitItems == Init => ItemInv
<1> SUFFICES ASSUME Init PROVE ItemInv
  OBVIOUS
<1>1. \A i \in ItemIds : item[i].batch = NoBatch
  BY DEF Init, NoItem
<1>2. \A r \in Requests : req[r].op = "idle"
  BY DEF Init, Idle
<1>3. OneItemPerEmployee /\ ItemsInRows
  BY <1>1, PayrollAssumption DEF OneItemPerEmployee, ItemsInRows
<1> QED BY <1>2, <1>3, InitType DEF ItemInv, SnapshotsSound

\* A request that has read and written neither items nor batches.
LEMMA ReadStepItems ==
    ASSUME ItemInv, TypeInv', UNCHANGED <<batch, item>>,
           \A r \in Requests : req'[r] = req[r] \/
             /\ req'[r].op = "approveTx" => Distinct(req'[r].rejected)
             /\ req'[r].op \in {"createDraft", "createTx"} /\ req'[r].target # NoBatch =>
                  batch[req'[r].target].status # "NONE"
    PROVE  ItemInv'
BY DEF ItemInv, OneItemPerEmployee, ItemsInRows, SnapshotsSound

\* The steps of the handlers that write nothing.
LEMMA ReadStepsItems ==
    ASSUME ItemInv, TypeInv', NEW r \in Requests,
           \/ CheckCreateBatch(r)
           \/ \E emps \in SUBSET Employees : ReadEmployees(r, emps)
           \/ \E b \in Batches \cup {NoBatch} : FindDraft(r, b)
           \/ BeginCreateBatch(r)
           \/ \E b \in Batches : CheckSubmitBatch(r, b)
           \/ \E b \in Batches, files \in SUBSET Files : CheckAddAttachments(r, b, files)
           \/ \E a \in Actors, i \in ItemIds, v \in {"APPROVED", "REJECTED"} :
                CheckReviewItem(r, a, i, v)
           \/ BeginReviewItem(r)
           \/ \E a \in Actors, b \in Batches :
                CheckApproveBatch(r, a, b) \/ CheckRejectBatch(r, a, b)
           \/ BeginApproveBatch(r)
           \/ Abort(r)
    PROVE  ItemInv'
<1>0. req \in [Requests -> WellFormed] /\ TablesTypeOK
  BY DEF ItemInv, TypeInv
<1>1. ASSUME NEW b \in Batches \cup {NoBatch}, FindDraft(r, b) PROVE ItemInv'
  <2>1. b # NoBatch => batch[b].status # "NONE"
    BY <1>1 DEF FindDraft, Drafts
  <2> QED BY <1>0, <1>1, <2>1, ReadStepItems DEF FindDraft
<1>12. CASE BeginCreateBatch(r)
  <2>1. req[r].target # NoBatch => batch[req[r].target].status # "NONE"
    BY <1>12 DEF BeginCreateBatch, ItemInv, SnapshotsSound
  <2> QED BY <1>0, <1>12, <2>1, ReadStepItems DEF BeginCreateBatch
<1>2. CASE BeginApproveBatch(r)
  <2> DEFINE rejected == {i \in ItemsOf(req[r].target) : item[i].status = "REJECTED"}
  <2>1. req[r].target \in Batches
    BY <1>0, <1>2, Shape DEF BeginApproveBatch
  <2>2. Distinct(rejected)
    BY <2>1, PayrollAssumption DEF Distinct, ItemsOf, ItemInv, OneItemPerEmployee
  <2>3. req'[r].rejected = rejected /\ req'[r].op = "approveTx"
    BY <1>0, <1>2 DEF BeginApproveBatch
  <2>4. \A s \in Requests : s # r => req'[s] = req[s]
    BY <1>0, <1>2 DEF BeginApproveBatch
  <2> HIDE DEF rejected
  <2> QED BY <1>2, <2>2, <2>3, <2>4, ReadStepItems DEF BeginApproveBatch
<1>3. ASSUME NEW q, q.op \notin {"approveTx", "createDraft", "createTx"},
             req' = [req EXCEPT ![r] = q],
             UNCHANGED <<batch, item>>
      PROVE ItemInv'
  BY <1>0, <1>3, ReadStepItems
<1>4. CASE CheckCreateBatch(r)
  BY <1>3, <1>4 DEF CheckCreateBatch
<1>13. ASSUME NEW emps \in SUBSET Employees, ReadEmployees(r, emps) PROVE ItemInv'
  <2>1. CASE emps = {}
    BY <1>3, <1>13, <2>1 DEF ReadEmployees, Idle
  <2>2. CASE emps # {}
    BY <1>3, <1>13, <2>2 DEF ReadEmployees
  <2> QED BY <2>1, <2>2
<1>5. ASSUME NEW b \in Batches, CheckSubmitBatch(r, b) PROVE ItemInv'
  BY <1>3, <1>5 DEF CheckSubmitBatch
<1>6. ASSUME NEW b \in Batches, NEW files \in SUBSET Files, CheckAddAttachments(r, b, files)
      PROVE ItemInv'
  BY <1>3, <1>6 DEF CheckAddAttachments
<1>7. ASSUME NEW a \in Actors, NEW i \in ItemIds, NEW v \in {"APPROVED", "REJECTED"},
             CheckReviewItem(r, a, i, v)
      PROVE ItemInv'
  BY <1>3, <1>7 DEF CheckReviewItem
<1>8. CASE BeginReviewItem(r)
  BY <1>3, <1>8 DEF BeginReviewItem
<1>9. ASSUME NEW a \in Actors, NEW b \in Batches, CheckApproveBatch(r, a, b) PROVE ItemInv'
  BY <1>3, <1>9 DEF CheckApproveBatch
<1>10. ASSUME NEW a \in Actors, NEW b \in Batches, CheckRejectBatch(r, a, b) PROVE ItemInv'
  BY <1>3, <1>10 DEF CheckRejectBatch
<1>11. CASE Abort(r)
  BY <1>3, <1>11 DEF Abort, Idle
<1> QED BY <1>1, <1>2, <1>4, <1>5, <1>6, <1>7, <1>8, <1>9, <1>10, <1>11, <1>12,
           <1>13

\* The requests left after a commit that unmakes no batch.
LEMMA SnapshotsKept ==
    ASSUME ItemInv, NEW r \in Requests, req' = [req EXCEPT ![r] = Idle],
           \A b \in Batches : batch[b].status # "NONE" => batch'[b].status # "NONE"
    PROVE  SnapshotsSound'
<1>2. req \in [Requests -> WellFormed]
  BY DEF ItemInv, TypeInv
<1> SUFFICES ASSUME NEW s \in Requests
             PROVE /\ req'[s].op = "approveTx" => Distinct(req'[s].rejected)
                   /\ req'[s].op \in {"createDraft", "createTx"} /\ req'[s].target # NoBatch =>
                        batch'[req'[s].target].status # "NONE"
  BY DEF SnapshotsSound
<1>3. CASE s = r
  BY <1>2, <1>3 DEF Idle
<1>4. CASE s # r
  <2>1. req'[s] = req[s]
    BY <1>2, <1>4
  <2>2. req[s].op \in {"createDraft", "createTx"} /\ req[s].target # NoBatch =>
          req[s].target \in Batches
    BY <1>2, Shape
  <2> QED BY <2>1, <2>2 DEF ItemInv, SnapshotsSound
<1> QED BY <1>3, <1>4

\* A commit that moves no item between batches and unmakes no batch.
LEMMA CommitInPlace ==
    ASSUME ItemInv, TypeInv', NEW r \in Requests, req' = [req EXCEPT ![r] = Idle],
           \A i \in ItemIds : item'[i].batch = item[i].batch,
           \A b \in Batches : batch[b].status # "NONE" => batch'[b].status # "NONE"
    PROVE  ItemInv'
<1>1. OneItemPerEmployee' /\ ItemsInRows'
  BY DEF ItemInv, OneItemPerEmployee, ItemsInRows
<1>2. SnapshotsSound'
  BY SnapshotsKept
<1> QED BY <1>1, <1>2 DEF ItemInv

\* Commits that leave every item in its batch.
LEMMA InPlaceCommits ==
    ASSUME ItemInv, TypeInv', NEW r \in Requests,
           \/ CommitSubmitBatch(r) \/ CommitAddAttachments(r)
           \/ CommitReviewItem(r) \/ CommitRejectBatch(r)
    PROVE  ItemInv'
<1>0. TablesTypeOK /\ req[r] \in WellFormed
  BY DEF ItemInv, TypeInv
<1> USE <1>0 DEF TablesTypeOK
<1>1. CASE CommitSubmitBatch(r)
  <2>1. \A b \in Batches : batch[b].status # "NONE" => batch'[b].status # "NONE"
    BY <1>1 DEF CommitSubmitBatch, Batch
  <2> QED BY <1>1, <2>1, CommitInPlace DEF CommitSubmitBatch
<1>2. CASE CommitAddAttachments(r)
  <2>1. \A b \in Batches : batch[b].status # "NONE" => batch'[b].status # "NONE"
    BY <1>2 DEF CommitAddAttachments, Batch
  <2> QED BY <1>2, <2>1, CommitInPlace DEF CommitAddAttachments
<1>3. CASE CommitReviewItem(r)
  <2>1. \A b \in Batches : batch[b].status # "NONE" => batch'[b].status # "NONE"
    BY <1>3 DEF CommitReviewItem, RecalculatedStatus, Batch
  <2>2. \A i \in ItemIds : item'[i].batch = item[i].batch
    BY <1>3 DEF CommitReviewItem, Item
  <2> QED BY <1>3, <2>1, <2>2, CommitInPlace DEF CommitReviewItem
<1>4. CASE CommitRejectBatch(r)
  <2>1. \A b \in Batches : batch[b].status # "NONE" => batch'[b].status # "NONE"
    BY <1>4 DEF CommitRejectBatch, Returned, Batch
  <2>2. \A i \in ItemIds : item'[i].batch = item[i].batch
    BY <1>4 DEF CommitRejectBatch, Reopened, Item
  <2> QED BY <1>4, <2>1, <2>2, CommitInPlace DEF CommitRejectBatch
<1> QED BY <1>1, <1>2, <1>3, <1>4

\* createBatch leaves its batch with the fresh items only, one per employee.
LEMMA CommitCreateItems ==
    ASSUME ItemInv, TypeInv', NEW r \in Requests, CommitCreateBatch(r)
    PROVE  ItemInv'
<1> DEFINE q == req[r]
           b == IF q.target = NoBatch THEN NewBatch ELSE q.target
           fresh == FreshItems(q.emps)
<1>0. TablesTypeOK /\ q \in WellFormed
  BY DEF ItemInv, TypeInv
<1>1. b \in Batches
  BY <1>0, Shape, NewBatchUnused DEF CommitCreateBatch
<1>2. Distinct(fresh)
  BY DEF FreshItems, ItemIds, Distinct
<1>3. item' = Replaced(b, fresh) /\ req' = [req EXCEPT ![r] = Idle]
  BY DEF CommitCreateBatch
<1>4. \A c \in Batches : c # b => batch'[c] = batch[c]
  BY <1>0, <1>1 DEF CommitCreateBatch, TablesTypeOK
<1>5. batch'[b].status # "NONE"
  <2>1. CASE q.target = NoBatch
    BY <1>0, <1>1, <2>1 DEF CommitCreateBatch, TablesTypeOK, EmptyBatch
  <2>2. CASE q.target # NoBatch
    <3>1. batch[b].status # "NONE"
      BY <2>2 DEF ItemInv, SnapshotsSound, CommitCreateBatch
    <3> QED BY <1>0, <1>1, <2>2, <3>1 DEF CommitCreateBatch, TablesTypeOK, Batch
  <2> QED BY <2>1, <2>2
<1> HIDE DEF q, b, fresh
<1>6. \A i \in ItemIds : /\ item'[i].batch = b => i \in fresh
                         /\ item'[i].batch \notin {b, NoBatch} => item'[i] = item[i]
  BY <1>1, <1>3, PayrollAssumption DEF Replaced, NoItem
<1>7. OneItemPerEmployee'
  BY <1>2, <1>6 DEF OneItemPerEmployee, Distinct, ItemInv
<1>8. ItemsInRows'
  BY <1>4, <1>5, <1>6, PayrollAssumption DEF ItemsInRows, ItemInv
<1>9. SnapshotsSound'
  BY <1>3, <1>4, <1>5, SnapshotsKept
<1> QED BY <1>7, <1>8, <1>9 DEF ItemInv

\* A split moves items of different employees into a batch that had none.
LEMMA CommitApproveItems ==
    ASSUME ItemInv, TypeInv', NEW r \in Requests, CommitApproveBatch(r)
    PROVE  ItemInv'
<1> DEFINE q == req[r]
           split == q.rejected
           new == NewBatch
<1>0. TablesTypeOK /\ q \in WellFormed
  BY DEF ItemInv, TypeInv
<1>1. Distinct(split)
  BY DEF ItemInv, SnapshotsSound, CommitApproveBatch
<1>2. split # {} => new \in Batches /\ batch[new].status = "NONE"
  BY NewBatchUnused DEF CommitApproveBatch, Unused
<1>3. split # {} => \A i \in ItemIds : item[i].batch # new
  BY <1>2 DEF ItemInv, ItemsInRows
<1>4. \A i \in ItemIds : item'[i].batch = IF i \in split THEN new ELSE item[i].batch
  BY <1>0 DEF CommitApproveBatch, TablesTypeOK, Item
<1>5. \A b \in Batches : (batch[b].status # "NONE" => batch'[b].status # "NONE")
                         /\ (split # {} /\ b = new => batch'[b].status # "NONE")
  BY <1>0 DEF CommitApproveBatch, Advanced, SplitOff, EmptyBatch, TablesTypeOK, Batch
<1>6. req' = [req EXCEPT ![r] = Idle]
  BY DEF CommitApproveBatch
<1> HIDE DEF q, split, new
<1>7. OneItemPerEmployee'
  BY <1>1, <1>3, <1>4 DEF OneItemPerEmployee, ItemInv, Distinct
<1>8. ItemsInRows'
  BY <1>4, <1>5 DEF ItemsInRows, ItemInv
<1>9. SnapshotsSound'
  BY <1>5, <1>6, SnapshotsKept
<1> QED BY <1>7, <1>8, <1>9 DEF ItemInv

\* Every step of the system preserves the invariant.
LEMMA NextItems == ItemInv /\ [Next]_vars => ItemInv'
<1> SUFFICES ASSUME ItemInv, [Next]_vars PROVE ItemInv'
  OBVIOUS
<1>0. TypeInv'
  BY NextType DEF ItemInv
<1>1. CASE UNCHANGED <<batch, item, req>>
  BY <1>0, <1>1, ReadStepItems
<1>2. CASE ApproversMove \/ UNCHANGED vars \/ UNCHANGED payrollVars
  BY <1>1, <1>2 DEF ApproversMove, vars, payrollVars
<1> QED BY <1>0, <1>2, ReadStepsItems, InPlaceCommits, CommitCreateItems,
           CommitApproveItems DEF Next

\* However requests interleave, and for any number of them, no batch holds two
\* items of one employee.
THEOREM OneItem == Spec => []OneItemPerEmployee
<1>1. ItemInv => OneItemPerEmployee
  BY DEF ItemInv
<1> QED BY <1>1, InitItems, NextItems, PTL DEF Spec

-----------------------------------------------------------------------------
(* Who pays, when the approvers stay who they are *)

\* An approval in flight by someone without final authority is one of the
\* initial step, at a location that has an initial approver: it will not pay.
Authorised ==
    \A r \in Requests :
      /\ req[r].op = "approve" =>
           req[r].actor \in FinalAuthority \/ (req[r].step = 1 /\ approvers.initial)
      /\ req[r].op = "approveTx" /\ req[r].payable # {} => req[r].actor \in FinalAuthority

AuthInv == TypeInv /\ Authorised

\* Nobody is approving anything at the start.
LEMMA InitAuth == Init => AuthInv
BY InitType DEF Init, AuthInv, Authorised, Idle

\* A step of one request that leaves it in another state than an approval.
LEMMA NoApproval ==
    ASSUME AuthInv, NEW r \in Requests, NEW q, q.op \notin {"approve", "approveTx"},
           req' = [req EXCEPT ![r] = q], UNCHANGED approvers
    PROVE  Authorised'
BY DEF AuthInv, TypeInv, Authorised

\* A handler that is not an approval, or that ends, leaves none behind.
LEMMA OtherHandlersAuth ==
    ASSUME AuthInv, NEW r \in Requests,
           \/ CheckCreateBatch(r)
           \/ \E emps \in SUBSET Employees : ReadEmployees(r, emps)
           \/ \E b \in Batches \cup {NoBatch} : FindDraft(r, b)
           \/ BeginCreateBatch(r)
           \/ CommitCreateBatch(r)
           \/ \E b \in Batches : CheckSubmitBatch(r, b)
           \/ CommitSubmitBatch(r)
           \/ \E b \in Batches, files \in SUBSET Files : CheckAddAttachments(r, b, files)
           \/ CommitAddAttachments(r)
           \/ \E a \in Actors, i \in ItemIds, v \in {"APPROVED", "REJECTED"} :
                CheckReviewItem(r, a, i, v)
           \/ BeginReviewItem(r) \/ CommitReviewItem(r)
           \/ \E a \in Actors, b \in Batches : CheckRejectBatch(r, a, b)
           \/ CommitApproveBatch(r)
           \/ CommitRejectBatch(r)
           \/ Abort(r)
    PROVE  Authorised'
<1>1. CASE req' = [req EXCEPT ![r] = Idle] /\ UNCHANGED approvers
  BY <1>1, NoApproval DEF Idle
<1>2. CASE CheckCreateBatch(r)
  BY <1>2, NoApproval DEF CheckCreateBatch
<1>11. ASSUME NEW emps \in SUBSET Employees, ReadEmployees(r, emps) PROVE Authorised'
  <2>1. CASE emps = {}
    BY <1>11, <2>1, NoApproval DEF ReadEmployees, Idle
  <2>2. CASE emps # {}
    BY <1>11, <2>2, NoApproval DEF ReadEmployees
  <2> QED BY <2>1, <2>2
<1>3. ASSUME NEW b \in Batches \cup {NoBatch}, FindDraft(r, b) PROVE Authorised'
  BY <1>3, NoApproval DEF FindDraft
<1>10. CASE BeginCreateBatch(r)
  BY <1>10, NoApproval DEF BeginCreateBatch
<1>4. ASSUME NEW b \in Batches, CheckSubmitBatch(r, b) PROVE Authorised'
  BY <1>4, NoApproval DEF CheckSubmitBatch
<1>5. ASSUME NEW b \in Batches, NEW files \in SUBSET Files, CheckAddAttachments(r, b, files)
      PROVE Authorised'
  BY <1>5, NoApproval DEF CheckAddAttachments
<1>6. ASSUME NEW a \in Actors, NEW i \in ItemIds, NEW v \in {"APPROVED", "REJECTED"},
             CheckReviewItem(r, a, i, v)
      PROVE Authorised'
  BY <1>6, NoApproval DEF CheckReviewItem
<1>7. CASE BeginReviewItem(r)
  BY <1>7, NoApproval DEF BeginReviewItem
<1>8. ASSUME NEW a \in Actors, NEW b \in Batches, CheckRejectBatch(r, a, b)
      PROVE Authorised'
  BY <1>8, NoApproval DEF CheckRejectBatch
<1>9. CASE \/ CommitCreateBatch(r) \/ CommitSubmitBatch(r) \/ CommitAddAttachments(r)
           \/ CommitReviewItem(r) \/ CommitApproveBatch(r) \/ CommitRejectBatch(r)
           \/ Abort(r)
  BY <1>1, <1>9 DEF CommitCreateBatch, CommitSubmitBatch, CommitAddAttachments,
       CommitReviewItem, CommitApproveBatch, CommitRejectBatch, Abort
<1> QED BY <1>2, <1>3, <1>4, <1>5, <1>6, <1>7, <1>8, <1>9, <1>10, <1>11

\* approveBatch admits an initial approver for the initial step only, and a
\* location that has one makes that step not final.
LEMMA ApprovalAuth ==
    ASSUME AuthInv, NEW r \in Requests,
           \/ \E a \in Actors, b \in Batches : CheckApproveBatch(r, a, b)
           \/ BeginApproveBatch(r)
    PROVE  Authorised'
<1>0. req \in [Requests -> WellFormed]
  BY DEF AuthInv, TypeInv
<1>1. ASSUME NEW a \in Actors, NEW b \in Batches, CheckApproveBatch(r, a, b)
      PROVE Authorised'
  <2>1. a \in FinalAuthority \/ (batch[b].step = 1 /\ approvers.initial)
    BY <1>1 DEF CheckApproveBatch, MayReview, MayApprove, FinalAuthority
  <2>2. /\ req'[r].op = "approve" /\ req'[r].actor = a /\ req'[r].step = batch[b].step
        /\ \A s \in Requests : s # r => req'[s] = req[s]
        /\ UNCHANGED approvers
    BY <1>0, <1>1 DEF CheckApproveBatch
  <2> QED BY <2>1, <2>2 DEF AuthInv, Authorised
<1>2. CASE BeginApproveBatch(r)
  <2>1. /\ req[r].op = "approve" /\ req'[r].op = "approveTx"
        /\ req'[r].actor = req[r].actor
        /\ req'[r].payable # {} => req[r].step >= FinalStep
        /\ \A s \in Requests : s # r => req'[s] = req[s]
        /\ UNCHANGED approvers
    BY <1>0, <1>2 DEF BeginApproveBatch
  <2>2. req[r].actor \in FinalAuthority \/ ~ (req[r].step >= FinalStep)
    BY <2>1 DEF AuthInv, Authorised, FinalStep
  <2> QED BY <2>1, <2>2 DEF AuthInv, Authorised
<1> QED BY <1>1, <1>2

\* With the approvers fixed, every step preserves the invariant.
LEMMA NextAuth ==
    ASSUME "approvers" \notin Churn
    PROVE  AuthInv /\ [Next]_vars => AuthInv'
<1> SUFFICES ASSUME AuthInv, [Next]_vars PROVE AuthInv'
  OBVIOUS
<1>1. TypeInv'
  BY NextType DEF AuthInv
<1>2. CASE UNCHANGED <<req, approvers>>
  BY <1>1, <1>2 DEF AuthInv, Authorised
<1>3. CASE UNCHANGED vars \/ UNCHANGED payrollVars
  BY <1>2, <1>3 DEF vars, payrollVars
<1>4. ~ ApproversMove
  BY DEF ApproversMove
<1> QED BY <1>1, <1>3, <1>4, OtherHandlersAuth, ApprovalAuth DEF Next, AuthInv

\* Only the commit of an approval pays, and it pays what the approval read.
LEMMA PaidInApproval ==
    ASSUME AuthInv, [Next]_vars, NEW i \in ItemIds,
           txn[i].status # "PAID", txn'[i].status = "PAID"
    PROVE  \E r \in Requests : req[r].op = "approveTx" /\ req[r].actor \in FinalAuthority
<1>0. txn \in [ItemIds -> Txn]
  BY DEF AuthInv, TypeInv, TablesTypeOK
<1>1. ASSUME NEW r \in Requests, CommitApproveBatch(r)
      PROVE req[r].op = "approveTx" /\ req[r].actor \in FinalAuthority
  <2>1. req[r].op = "approveTx" /\ i \in req[r].payable
    BY <1>1 DEF CommitApproveBatch
  <2> QED BY <2>1 DEF AuthInv, Authorised
<1>2. ASSUME NEW r \in Requests, CommitCreateBatch(r) PROVE FALSE
  BY <1>0, <1>2 DEF CommitCreateBatch, Txn
<1>3. ASSUME NEW r \in Requests, CommitReviewItem(r) PROVE FALSE
  BY <1>0, <1>3 DEF CommitReviewItem, Txn
<1>4. CASE UNCHANGED txn
  BY <1>4
<1> QED BY <1>1, <1>2, <1>3, <1>4 DEF Next, vars, payrollVars, ApproversMove,
     CheckCreateBatch, ReadEmployees, FindDraft, BeginCreateBatch, CheckSubmitBatch, CommitSubmitBatch,
     CheckAddAttachments, CommitAddAttachments, CheckReviewItem, BeginReviewItem,
     CheckApproveBatch, CheckRejectBatch, BeginApproveBatch, CommitRejectBatch, Abort

\* As long as nobody's authority changes while requests run, only headquarters
\* HR and super admins pay, however many approvals interleave.
THEOREM OnlyAuthorityPays ==
    ASSUME "approvers" \notin Churn
    PROVE  Spec => PaidByAuthority
<1>1. AuthInv /\ [Next]_vars =>
        [\A i \in ItemIds :
           (txn[i].status # "PAID" /\ txn'[i].status = "PAID") =>
             \E r \in Requests : req[r].op = "approveTx" /\
                                 req[r].actor \in FinalAuthority]_vars
  BY PaidInApproval
<1> QED BY <1>1, InitAuth, NextAuth, PTL DEF Spec, PaidByAuthority

=============================================================================
