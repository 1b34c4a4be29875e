--------------------------- MODULE PayrollBatches ---------------------------
(***************************************************************************)
(* Payroll batches of one working location and one payroll period          *)
(* (backend/src/payroll/payroll.service.ts), composed with Ikimina and     *)
(* the contract sweep.                                                     *)
(*                                                                         *)
(* A handler runs in steps.  Check is what it reads and decides before its *)
(* transaction (createBatch does so in three stages); Begin is the         *)
(* snapshot its transaction reads (InnoDB REPEATABLE READ); Commit applies *)
(* its writes to the rows as they then are.  Other requests may run        *)
(* between any two steps, and a request may be rolled back at any of them. *)
(***************************************************************************)
EXTENDS Ikimina, Contracts

CONSTANTS
    SuperAdmins,       \* actors with role SUPER_ADMIN
    InitialApprovers,  \* actors who pass the initial-step permission test
    HqHr,              \* HR at headquarters holding the final permission
    Files,             \* attachments that may be uploaded
    MaxItems,          \* bound: items ever created per employee
    Churn,             \* which of "approvers", "staff" change while requests run
    NoBatch,           \* payment_batch_id of an item row that does not exist
    NoActor            \* approved_by = null

Actors == SuperAdmins \cup InitialApprovers \cup HqHr

ASSUME PayrollAssumption ==
    /\ NoBatch \notin Batches
    /\ NoActor \notin Actors
    /\ MaxItems \in Nat
    /\ Churn \subseteq {"approvers", "staff"}

VARIABLES
    batch,      \* payment_batches
    item,       \* payment_batch_items; an id is <<employee, n>>, never reused
    txn,        \* transactions; transaction i is the one item i was created with
    made,       \* how many items each employee has had
    approvers,  \* who could approve now, at the location and at headquarters
    req         \* what each payroll request in flight has read

payrollVars == <<batch, item, txn, made, approvers, req>>
vars == <<payrollVars, ikiminaVars, contractVars>>

ItemIds == Employees \X (1 .. MaxItems)

Reviewable == {"PENDING", "IN_REVIEW", "MANAGER_APPROVED"}
Terminal == {"APPROVED", "REJECTED"}
BatchStatus == {"NONE", "DRAFT"} \cup Reviewable \cup Terminal
ItemStatus == {"PENDING", "APPROVED", "REJECTED"}
TxnStatus == {"NONE", "PENDING", "REJECTED", "PAID"}

\* The six total_ columns are sums over items, set and decremented together.
\* totals is what is summed: how often each item is counted, so a wrong sum
\* shows as a count other than 1 for an item of the batch or 0 for any other.
Batch == [status : BatchStatus, step : 1 .. 2, totals : [ItemIds -> Int],
          by : Actors \cup {NoActor}, files : SUBSET Files]
Item == [batch : Batches \cup {NoBatch}, status : ItemStatus]
Txn == [status : TxnStatus, ded : Amounts \cup {0}]

Idle == [op |-> "idle"]
Request ==
    [op : {"idle"}]
      \cup [op : {"createRead"}]
      \cup [op : {"create"}, emps : SUBSET Employees]
      \cup [op : {"createDraft"}, emps : SUBSET Employees, target : Batches \cup {NoBatch}]
      \cup [op : {"createTx"}, emps : SUBSET Employees,
            target : Batches \cup {NoBatch}, old : SUBSET ItemIds]
      \cup [op : {"submit"}, target : Batches]
      \cup [op : {"approve"}, actor : Actors, target : Batches, step : 1 .. 2]
      \cup [op : {"approveTx"}, actor : Actors, target : Batches, step : 1 .. 2,
            final : BOOLEAN, rejected : SUBSET ItemIds, payable : SUBSET ItemIds,
            files : SUBSET Files]
      \cup [op : {"reject"}, actor : Actors, target : Batches]
      \cup [op : {"item"}, id : ItemIds, target : Batches,
            verdict : {"APPROVED", "REJECTED"}]
      \cup [op : {"itemTx"}, id : ItemIds, target : Batches,
            verdict : {"APPROVED", "REJECTED"}, others : SUBSET ItemIds,
            pending : BOOLEAN]
      \cup [op : {"attach"}, target : Batches, files : SUBSET Files]

\* Whether the location has an initial approver and headquarters has HR; HR
\* without the final permission counts for nothing, as if there were none.
Approvers == {a \in [initial : BOOLEAN, hr : BOOLEAN] : a.hr => HqHr # {}}

\* The tables hold rows of their schema and every request record is well formed.
TypeOK ==
    /\ IkiminaTypeOK
    /\ ContractsTypeOK
    /\ batch \in [Batches -> Batch]
    /\ item \in [ItemIds -> Item]
    /\ txn \in [ItemIds -> Txn]
    /\ made \in [Employees -> 0 .. MaxItems]
    /\ approvers \in Approvers
    /\ req \in [Requests -> Request]

CountOnce(ids) == [i \in ItemIds |-> IF i \in ids THEN 1 ELSE 0]

EmptyBatch == [status |-> "NONE", step |-> 1, totals |-> CountOnce({}),
               by |-> NoActor, files |-> {}]

NoItem == [batch |-> NoBatch, status |-> "PENDING"]

Init ==
    /\ IkiminaInit
    /\ ContractsInit
    /\ batch = [b \in Batches |-> EmptyBatch]
    /\ item = [i \in ItemIds |-> NoItem]
    /\ txn = [i \in ItemIds |-> [status |-> "NONE", ded |-> 0]]
    /\ made = [e \in Employees |-> 0]
    /\ approvers \in Approvers
    /\ req = [r \in Requests |-> Idle]

PayrollQuiet == \A r \in Requests : req[r] = Idle

\* A handler starts in a free slot; alone, when requests are serial.
Start(r) ==
    /\ req[r] = Idle
    /\ Serial => PayrollQuiet /\ MembershipQuiet

ItemsOf(b) == {i \in ItemIds : item[i].batch = b}

\* The id the next payment_batches row gets.
Unused == {b \in Batches : batch[b].status = "NONE"}
NewBatch == CHOOSE b \in Unused : TRUE

-----------------------------------------------------------------------------
(* createBatch *)

\* Employees with an item in a batch under review or approved.
Processed ==
    {e \in Employees : \E n \in 1 .. MaxItems, b \in Batches :
        /\ item[<<e, n>>].batch = b
        /\ batch[b].status \in Reviewable \cup {"APPROVED"}}

Drafts == {b \in Batches : batch[b].status = "DRAFT"}

\* The expired contracts are paused first, whatever happens next.
CheckCreateBatch(r) ==
    /\ Start(r)
    /\ staff' = Paused(Expired)
    /\ req' = [req EXCEPT ![r] = [op |-> "createRead"]]
    /\ UNCHANGED <<batch, item, txn, made, approvers, sweep, ikiminaVars>>

\* emps: the active employees that pass the category filter and have a payment
\* structure, less the processed ones; with none the request is refused.
ReadEmployees(r, emps) ==
    /\ req[r].op = "createRead"
    /\ \A e \in emps : staff[e].status = "ACTIVE" /\ e \notin Processed
    /\ req' = [req EXCEPT ![r] =
                 IF emps = {} THEN Idle ELSE [op |-> "create", emps |-> emps]]
    /\ UNCHANGED <<batch, item, txn, made, approvers, ikiminaVars, contractVars>>

\* existingDraft is any draft of the period.
FindDraft(r, draft) ==
    /\ req[r].op = "create"
    /\ \/ draft \in Drafts
       \/ draft = NoBatch /\ Drafts = {} /\ Unused # {}
    /\ req' = [req EXCEPT ![r] =
                 [op |-> "createDraft", emps |-> req[r].emps, target |-> draft]]
    /\ UNCHANGED <<batch, item, txn, made, approvers, ikiminaVars, contractVars>>

\* The transaction reads the draft's items and, in deductForBatch, the
\* memberships; it does not look at the draft's status again.
BeginCreateBatch(r) ==
    LET q == req[r] IN
    /\ q.op = "createDraft"
    /\ req' = [req EXCEPT ![r] =
                 [op |-> "createTx", emps |-> q.emps, target |-> q.target,
                  old |-> IF q.target = NoBatch THEN {} ELSE ItemsOf(q.target)]]
    /\ readDues(r, q.target, q.emps)
    /\ UNCHANGED <<batch, item, txn, made, approvers, membership, contrib, mreq,
                   contractVars>>

FreshItems(emps) == {i \in ItemIds : i[1] \in emps /\ i[2] = made[i[1]] + 1}

\* Mutant: the draft's old items are left in place.
Replaced_KeepOld(b, fresh) ==
    [i \in ItemIds |-> IF i \in fresh THEN [batch |-> b, status |-> "PENDING"] ELSE item[i]]

\* The item table once batch b holds the fresh items and no others.
Replaced(b, fresh) ==
    [i \in ItemIds |-> IF i \in fresh THEN [batch |-> b, status |-> "PENDING"]
                       ELSE IF item[i].batch = b THEN NoItem ELSE item[i]]

\* The draft's items are deleted by batch id, its transactions by the ids
\* read at Begin; a transaction an item still refers to cannot be deleted.
CommitCreateBatch(r) ==
    LET q == req[r]
        b == IF q.target = NoBatch THEN NewBatch ELSE q.target
        fresh == FreshItems(q.emps)
    IN
    /\ q.op = "createTx"
    /\ q.target = NoBatch => Unused # {}
    /\ \A e \in q.emps : made[e] < MaxItems
    /\ \A i \in q.old : item[i].batch \in {b, NoBatch}
    /\ item' = Replaced(b, fresh)
    /\ txn' = [i \in ItemIds |->
                 IF i \in fresh
                 THEN [status |-> "PENDING", ded |-> due[r][i[1]].amount]
                 ELSE IF i \in q.old THEN [txn[i] EXCEPT !.status = "NONE"]
                 ELSE txn[i]]
    /\ made' = [e \in Employees |-> IF e \in q.emps THEN made[e] + 1 ELSE made[e]]
    /\ batch' = [batch EXCEPT ![b] =
                   IF q.target = NoBatch
                   THEN [EmptyBatch EXCEPT !.status = "DRAFT", !.totals = CountOnce(fresh)]
                   ELSE [@ EXCEPT !.totals = CountOnce(fresh)]]
    /\ deductForBatch(r, b)
    /\ req' = [req EXCEPT ![r] = Idle]
    /\ UNCHANGED <<approvers, membership, mreq, contractVars>>

-----------------------------------------------------------------------------
(* submitBatch and addBatchAttachments *)

CheckSubmitBatch(r, b) ==
    /\ Start(r)
    /\ batch[b].status \in {"DRAFT", "REJECTED"}
    /\ req' = [req EXCEPT ![r] = [op |-> "submit", target |-> b]]
    /\ UNCHANGED <<batch, item, txn, made, approvers, ikiminaVars, contractVars>>

CommitSubmitBatch(r) ==
    /\ req[r].op = "submit"
    /\ batch' = [batch EXCEPT ![req[r].target] =
                   [@ EXCEPT !.status = "PENDING", !.step = 1]]
    /\ req' = [req EXCEPT ![r] = Idle]
    /\ UNCHANGED <<item, txn, made, approvers, ikiminaVars, contractVars>>

\* Mutant: the upload replaces what the batch already has.
Attached_Overwrite(b, files) == files

\* The attachments array the handler will write.
Attached(b, files) == batch[b].files \cup files

CheckAddAttachments(r, b, files) ==
    /\ Start(r)
    /\ files # {}
    /\ batch[b].status \notin Terminal \cup {"NONE"}
    /\ req' = [req EXCEPT ![r] =
                 [op |-> "attach", target |-> b, files |-> Attached(b, files)]]
    /\ UNCHANGED <<batch, item, txn, made, approvers, ikiminaVars, contractVars>>

CommitAddAttachments(r) ==
    /\ req[r].op = "attach"
    /\ batch' = [batch EXCEPT ![req[r].target] = [@ EXCEPT !.files = req[r].files]]
    /\ req' = [req EXCEPT ![r] = Idle]
    /\ UNCHANGED <<item, txn, made, approvers, ikiminaVars, contractVars>>

-----------------------------------------------------------------------------
(* Reviewing: approveItem, rejectItem, approveBatch, rejectBatch *)

\* ensureActorCanApproveBatch, for a batch read at this step.
MayApprove(a, step) ==
    \/ a \in SuperAdmins
    \/ step = 1 /\ approvers.initial /\ a \in InitialApprovers
    \/ ~ (step = 1 /\ approvers.initial) /\ approvers.hr /\ a \in HqHr

\* Mutant: only drafts are refused, terminal batches are not.
MayReview_Terminal(a, b) ==
    batch[b].status \notin {"NONE", "DRAFT"} /\ MayApprove(a, batch[b].step)

\* ensureBatchCanStillBeReviewed, then the actor's authority.
MayReview(a, b) == batch[b].status \in Reviewable /\ MayApprove(a, batch[b].step)

CheckReviewItem(r, a, i, verdict) ==
    /\ Start(r)
    /\ item[i].batch # NoBatch
    /\ MayReview(a, item[i].batch)
    /\ req' = [req EXCEPT ![r] =
                 [op |-> "item", id |-> i, target |-> item[i].batch, verdict |-> verdict]]
    /\ UNCHANGED <<batch, item, txn, made, approvers, ikiminaVars, contractVars>>

\* What recalculateBatchStatus will see of the batch's other items.
BeginReviewItem(r) ==
    LET q == req[r]
        others == ItemsOf(q.target) \ {q.id}
    IN
    /\ q.op = "item"
    /\ req' = [req EXCEPT ![r] =
                 [op |-> "itemTx", id |-> q.id, target |-> q.target,
                  verdict |-> q.verdict, others |-> others,
                  pending |-> \E i \in others : item[i].status = "PENDING"]]
    /\ UNCHANGED <<batch, item, txn, made, approvers, ikiminaVars, contractVars>>

\* recalculateBatchStatus: all items decided puts the batch IN_REVIEW.
RecalculatedStatus(q) ==
    IF ~ q.pending /\ (q.others # {} \/ item[q.id].batch = q.target)
    THEN "IN_REVIEW" ELSE batch[q.target].status

\* An item row that has been deleted meanwhile makes the update fail.
CommitReviewItem(r) ==
    LET q == req[r] IN
    /\ q.op = "itemTx"
    /\ item[q.id].batch # NoBatch
    /\ item' = [item EXCEPT ![q.id].status = q.verdict]
    /\ txn' = IF q.verdict = "REJECTED"
              THEN [txn EXCEPT ![q.id].status = "REJECTED"] ELSE txn
    /\ batch' = [batch EXCEPT ![q.target].status = RecalculatedStatus(q)]
    /\ req' = [req EXCEPT ![r] = Idle]
    /\ UNCHANGED <<made, approvers, ikiminaVars, contractVars>>

CheckApproveBatch(r, a, b) ==
    /\ Start(r)
    /\ MayReview(a, b)
    /\ req' = [req EXCEPT ![r] =
                 [op |-> "approve", actor |-> a, target |-> b, step |-> batch[b].step]]
    /\ UNCHANGED <<batch, item, txn, made, approvers, ikiminaVars, contractVars>>

\* Mutant: the location's approver is forgotten.
FinalStep_One == 1

FinalStep == IF approvers.initial THEN 2 ELSE 1

\* Mutant: the filter on rejected items is dropped.
PayableItems_All(b) == ItemsOf(b)

PayableItems(b) == {i \in ItemsOf(b) : item[i].status # "REJECTED"}

\* The initial approver is looked up a second time to decide what is final.
BeginApproveBatch(r) ==
    LET q == req[r]
        rejected == {i \in ItemsOf(q.target) : item[i].status = "REJECTED"}
        final == q.step >= FinalStep
    IN
    /\ q.op = "approve"
    /\ req' = [req EXCEPT ![r] =
                 [op |-> "approveTx", actor |-> q.actor, target |-> q.target,
                  step |-> q.step, final |-> final, rejected |-> rejected,
                  payable |-> IF final THEN PayableItems(q.target) ELSE {},
                  files |-> batch[q.target].files]]
    /\ UNCHANGED <<batch, item, txn, made, approvers, ikiminaVars, contractVars>>

\* handlePartialRejectionSplit: the rejected items become a draft of their own.
SplitOff(q) ==
    [EmptyBatch EXCEPT !.status = "DRAFT", !.totals = CountOnce(q.rejected),
                       !.files = q.files]

\* Mutant: the original batch keeps the totals it had.
Decremented_Kept(totals, ids) == totals

Decremented(totals, ids) ==
    [i \in ItemIds |-> IF i \in ids THEN totals[i] - 1 ELSE totals[i]]

\* Mutant: the step moves on even after the final approval.
Advanced_AlwaysNext(row, q) ==
    [row EXCEPT !.totals = Decremented(@, q.rejected),
                !.status = IF q.final THEN "APPROVED" ELSE "MANAGER_APPROVED",
                !.step = q.step + 1,
                !.by = IF q.final THEN q.actor ELSE NoActor]

\* The batch row an approval leaves: step and finality are those it read.
Advanced(row, q) ==
    [row EXCEPT !.totals = Decremented(@, q.rejected),
                !.status = IF q.final THEN "APPROVED" ELSE "MANAGER_APPROVED",
                !.step = IF q.final THEN q.step ELSE q.step + 1,
                !.by = IF q.final THEN q.actor ELSE NoActor]

CommitApproveBatch(r) ==
    LET q == req[r] IN
    /\ q.op = "approveTx"
    /\ q.rejected # {} => Unused # {}
    /\ \A i \in q.rejected : item[i].batch # NoBatch
    /\ item' = [i \in ItemIds |->
                  IF i \in q.rejected THEN [batch |-> NewBatch, status |-> "PENDING"]
                  ELSE IF /\ q.final
                          /\ item[i].batch = q.target
                          /\ item[i].status # "REJECTED"
                  THEN [item[i] EXCEPT !.status = "APPROVED"]
                  ELSE item[i]]
    /\ txn' = [i \in ItemIds |->
                 IF i \in q.payable /\ txn[i].status # "NONE"
                 THEN [txn[i] EXCEPT !.status = "PAID"] ELSE txn[i]]
    /\ batch' = [b \in Batches |->
                   IF b = q.target THEN Advanced(batch[b], q)
                   ELSE IF q.rejected # {} /\ b = NewBatch THEN SplitOff(q)
                   ELSE batch[b]]
    /\ req' = [req EXCEPT ![r] = Idle]
    /\ UNCHANGED <<made, approvers, ikiminaVars, contractVars>>

CheckRejectBatch(r, a, b) ==
    /\ Start(r)
    /\ MayReview(a, b)
    /\ req' = [req EXCEPT ![r] = [op |-> "reject", actor |-> a, target |-> b]]
    /\ UNCHANGED <<batch, item, txn, made, approvers, ikiminaVars, contractVars>>

\* Mutant: the approval step is not reset.
Returned_KeepStep(row) == [row EXCEPT !.status = "DRAFT", !.by = NoActor]

Returned(row) == [row EXCEPT !.status = "DRAFT", !.step = 1, !.by = NoActor]

\* The items of a returned batch are all to be reviewed again.
Reopened(b) ==
    [i \in ItemIds |-> IF item[i].batch = b
                       THEN [item[i] EXCEPT !.status = "PENDING"] ELSE item[i]]

\* A super admin ends the batch; anyone else returns it for corrections.
CommitRejectBatch(r) ==
    LET q == req[r] IN
    /\ q.op = "reject"
    /\ IF q.actor \in SuperAdmins
       THEN /\ batch' = [batch EXCEPT ![q.target] =
                           [@ EXCEPT !.status = "REJECTED", !.by = q.actor]]
            /\ UNCHANGED item
       ELSE /\ batch' = [batch EXCEPT ![q.target] = Returned(@)]
            /\ item' = Reopened(q.target)
    /\ req' = [req EXCEPT ![r] = Idle]
    /\ UNCHANGED <<txn, made, approvers, ikiminaVars, contractVars>>

-----------------------------------------------------------------------------
\* A request fails, times out or is rolled back before it commits.
Abort(r) ==
    /\ req[r] # Idle
    /\ req' = [req EXCEPT ![r] = Idle]
    /\ due' = [due EXCEPT ![r] = NoDues]
    /\ UNCHANGED <<batch, item, txn, made, approvers, membership, contrib, mreq,
                   contractVars>>

\* Branch managers, permissions and HR at headquarters are administered elsewhere.
ApproversMove ==
    /\ "approvers" \in Churn
    /\ approvers' \in Approvers
    /\ UNCHANGED <<batch, item, txn, made, req, ikiminaVars, contractVars>>

Next ==
    \/ \E r \in Requests :
         \/ CheckCreateBatch(r)
         \/ \E emps \in SUBSET Employees : ReadEmployees(r, emps)
         \/ \E b \in Batches \cup {NoBatch} : FindDraft(r, b)
         \/ BeginCreateBatch(r)
         \/ CommitCreateBatch(r)
         \/ \E b \in Batches : CheckSubmitBatch(r, b)
         \/ CommitSubmitBatch(r)
         \/ \E b \in Batches, files \in SUBSET Files : CheckAddAttachments(r, b, files)
         \/ CommitAddAttachments(r)
         \/ \E a \in Actors, i \in ItemIds, v \in {"APPROVED", "REJECTED"} :
              CheckReviewItem(r, a, i, v)
         \/ BeginReviewItem(r) \/ CommitReviewItem(r)
         \/ \E a \in Actors, b \in Batches :
              CheckApproveBatch(r, a, b) \/ CheckRejectBatch(r, a, b)
         \/ BeginApproveBatch(r) \/ CommitApproveBatch(r)
         \/ CommitRejectBatch(r)
         \/ Abort(r)
    \/ ApproversMove
    \/ /\ Serial => PayrollQuiet
       /\ MembershipNext
       /\ UNCHANGED <<payrollVars, due, contractVars>>
    \/ /\ "staff" \in Churn
       /\ \/ (Serial => PayrollQuiet) /\ StaffNext
          \/ CronNext
       /\ UNCHANGED <<payrollVars, ikiminaVars>>

Spec == Init /\ [][Next]_vars

-----------------------------------------------------------------------------
(* Properties that hold however requests interleave *)

\* createBatch and handlePartialRejectionSplit never give a batch two items of
\* one employee, whatever ran between a handler's reads and its writes.
OneItemPerEmployee ==
    \A i, j \in ItemIds :
      (i[1] = j[1] /\ item[i].batch = item[j].batch /\ item[i].batch # NoBatch) => i = j

\* Whoever may take the final decision of approveBatch.
FinalAuthority == SuperAdmins \cup HqHr

\* "Final payroll approval always belongs to HR at headquarters" or a super
\* admin: no other actor's approveBatch turns a transaction PAID.
PaidByAuthority ==
    [][\A i \in ItemIds :
         (txn[i].status # "PAID" /\ txn'[i].status = "PAID") =>
           \E r \in Requests : req[r].op = "approveTx" /\ req[r].actor \in FinalAuthority]_vars

-----------------------------------------------------------------------------
(* Properties of requests handled one at a time *)

\* Money moves exactly with the approval of the batch an item is in, and a
\* transaction without an item has been deleted (createBatch, approveBatch).
PaidIffApproved ==
    \A i \in ItemIds :
      IF item[i].batch = NoBatch THEN txn[i].status = "NONE"
      ELSE txn[i].status = "PAID" <=> batch[item[i].batch].status = "APPROVED"

\* The totals on every batch are those of its items, through regeneration of
\* a draft and through every split of rejected items.
TotalsMatchItems == \A b \in Batches : batch[b].totals = CountOnce(ItemsOf(b))

\* A draft awaits its first review: nothing in it is decided or paid.
DraftIsClean ==
    \A b \in Drafts :
      /\ batch[b].step = 1
      /\ batch[b].by = NoActor
      /\ \A i \in ItemsOf(b) : item[i].status = "PENDING" /\ txn[i].status # "PAID"

\* "Terminal batches cannot be modified.": an APPROVED batch keeps its row,
\* its items and their transactions for ever.
ApprovedIsFinal ==
    [][\A b \in Batches : batch[b].status = "APPROVED" =>
         /\ batch'[b] = batch[b]
         /\ \A i \in ItemIds :
              /\ item[i].batch = b => item'[i] = item[i] /\ txn'[i] = txn[i]
              /\ item'[i].batch = b => item[i].batch = b]_vars

\* "Auto-pause employees with expired contracts before batch creation": no
\* create request takes up a contracted employee whose contract has ended.
ExpiredNotDrafted ==
    [][\A r \in Requests :
         (req[r].op = "createRead" /\ req'[r].op = "create") =>
           \A e \in req'[r].emps \cap Contracted : ~ staff[e].ended]_vars

\* addBatchAttachments only adds: an uploaded file stays on its batch.
AttachmentsKept ==
    [][\A b \in Batches : batch[b].files \subseteq batch'[b].files]_vars

\* What payroll withheld for Ikimina is in the employee's ledger.
DeductionHasLedgerEntry ==
    \A i \in ItemIds :
      (item[i].batch # NoBatch /\ txn[i].ded # 0) =>
        \E b \in Batches : contrib[i[1]][b] = txn[i].ded

LedgerPhase(b) ==
    IF batch[b].status \in Reviewable THEN "REVIEW" ELSE batch[b].status

Ledger == INSTANCE PayrollLedger
            WITH Items <- ItemIds,
                 phase <- [b \in Batches |-> LedgerPhase(b)],
                 content <- [b \in Batches |-> ItemsOf(b)],
                 paid <- {i \in ItemIds : txn[i].status = "PAID"}

\* Every handler is one step of the ledger or leaves it alone: approveBatch
\* pays what it approves, and the split loses and duplicates nothing.
ImplementsLedger == Ledger!LedgerSpec

-----------------------------------------------------------------------------
(* What the comments promise and the code does not keep *)

\* createBatch: "employees already in an active ... batch for the same period"
\* are left out, so nobody is paid twice for one period.
NoDoublePay ==
    \A i, j \in ItemIds :
      (i[1] = j[1] /\ txn[i].status = "PAID" /\ txn[j].status = "PAID") => i = j

=============================================================================
