------------------------ MODULE PayrollSerial_proofs ------------------------
(***************************************************************************)
(* Payroll batches when requests are handled one at a time, for every      *)
(* number of employees, batches, items and request slots.                  *)
(*                                                                         *)
(* What a handler has read before its transaction is then still true when  *)
(* it commits (Current); with it the books can be shown to balance and     *)
(* every handler to be a step of the abstract ledger.                      *)
(***************************************************************************)
EXTENDS PayrollBatches_proofs

OneAtATime ==
    /\ \A r, s \in Requests : req[r] # Idle /\ req[s] # Idle => r = s
    /\ PayrollQuiet \/ MembershipQuiet

\* What request q has read so far is what the tables say now.
Current(q) ==
    /\ q.op \in {"create", "createDraft", "createTx"} => q.emps # {}
    /\ q.op \in {"createDraft", "createTx"} =>
         q.target = NoBatch \/ batch[q.target].status = "DRAFT"
    /\ q.op = "createTx" =>
         q.old = IF q.target = NoBatch THEN {} ELSE ItemsOf(q.target)
    /\ q.op = "submit" => batch[q.target].status \in {"DRAFT", "REJECTED"}
    /\ q.op = "attach" => /\ batch[q.target].status \notin Terminal \cup {"NONE"}
                          /\ batch[q.target].files \subseteq q.files
    /\ q.op \in {"item", "itemTx", "approve", "approveTx", "reject"} =>
         batch[q.target].status \in Reviewable
    /\ q.op \in {"item", "itemTx"} => item[q.id].batch = q.target
    /\ q.op = "approveTx" =>
         /\ q.rejected = {i \in ItemsOf(q.target) : item[i].status = "REJECTED"}
         /\ q.payable = IF q.final THEN PayableItems(q.target) ELSE {}
         /\ q.files = batch[q.target].files

\* Every item in a batch has its transaction.
Vouched == \A i \in ItemIds : item[i].batch # NoBatch => txn[i].status # "NONE"

\* The numbers an employee's next items will get are free.
NotYetMade == \A i \in ItemIds : i[2] > made[i[1]] => item[i].batch = NoBatch

\* A batch id nobody has used has no attachments.
UnusedBare == \A b \in Unused : batch[b].files = {}

Books ==
    /\ PaidIffApproved
    /\ TotalsMatchItems
    /\ DraftIsClean
    /\ Vouched
    /\ NotYetMade
    /\ UnusedBare

\* The inductive invariant of serial payroll.
BooksInv ==
    /\ ItemInv
    /\ OneAtATime
    /\ Books
    /\ \A r \in Requests : Current(req[r])

\* An idle slot has read nothing.
LEMMA IdleCurrent == Current(Idle)
BY DEF Current, Idle

\* The empty tables balance.
LEMMA InitBooks == Init => BooksInv
<1> SUFFICES ASSUME Init PROVE BooksInv
  OBVIOUS
<1>1. ItemInv
  BY InitItems
<1>2. OneAtATime
  BY DEF Init, OneAtATime, PayrollQuiet
<1>3. \A r \in Requests : Current(req[r])
  BY IdleCurrent DEF Init
<1>4. /\ \A i \in ItemIds : item[i].batch = NoBatch /\ txn[i].status = "NONE"
      /\ \A b \in Batches : ItemsOf(b) = {}
  BY PayrollAssumption DEF Init, NoItem, ItemsOf
<1>5. \A b \in Batches : batch[b] = EmptyBatch
  BY DEF Init
<1>6. PaidIffApproved /\ Vouched /\ NotYetMade
  BY <1>4 DEF PaidIffApproved, Vouched, NotYetMade
<1>7. DraftIsClean /\ UnusedBare
  BY <1>5 DEF DraftIsClean, Drafts, Unused, UnusedBare, EmptyBatch
<1>8. TotalsMatchItems
  BY <1>4, <1>5 DEF TotalsMatchItems, EmptyBatch, CountOnce
<1> QED BY <1>1, <1>2, <1>3, <1>6, <1>7, <1>8 DEF BooksInv, Books

-----------------------------------------------------------------------------
(* One request at a time *)

\* While a request runs, or as it starts, all other slots are idle and no
\* membership request is in flight.
LEMMA Alone ==
    ASSUME Serial, BooksInv, NEW r \in Requests, Start(r) \/ req[r].op # "idle"
    PROVE  /\ \A s \in Requests : s # r => req[s] = Idle
           /\ MembershipQuiet
<1>1. CASE Start(r)
  BY <1>1 DEF Start, PayrollQuiet
<1>2. CASE req[r].op # "idle"
  <2>1. req[r] # Idle
    BY <1>2 DEF Idle
  <2> QED BY <2>1 DEF BooksInv, OneAtATime, PayrollQuiet
<1> QED BY <1>1, <1>2

\* A request that takes a step on its own stays alone.
LEMMA StaysAlone ==
    ASSUME Serial, BooksInv, NEW r \in Requests, Start(r) \/ req[r].op # "idle",
           NEW q, req' = [req EXCEPT ![r] = q], UNCHANGED mreq
    PROVE  /\ OneAtATime'
           /\ \A s \in Requests : req'[s] = IF s = r THEN q ELSE Idle
<1>1. req \in [Requests -> WellFormed]
  BY DEF BooksInv, ItemInv, TypeInv
<1>2. \A s \in Requests : req'[s] = IF s = r THEN q ELSE Idle
  BY <1>1, Alone
<1>3. MembershipQuiet'
  BY Alone DEF MembershipQuiet
<1> QED BY <1>2, <1>3 DEF OneAtATime

\* The books read only four tables, and a request's reading only two.
LEMMA BooksUnchanged ==
    ASSUME Books, UNCHANGED <<batch, item, txn, made>> PROVE Books'
BY DEF Books, PaidIffApproved, TotalsMatchItems, ItemsOf, DraftIsClean, Drafts, Vouched,
       NotYetMade, UnusedBare, Unused

\* What a request has read stays current while batches and items stay.
LEMMA CurrentUnchanged ==
    ASSUME NEW s, req'[s] = req[s] \/ Current(req'[s]), Current(req[s]),
           UNCHANGED <<batch, item>>
    PROVE  Current(req[s])'
<1>1. Current(req'[s])
  OBVIOUS
<1> QED BY <1>1 DEF Current, ItemsOf, PayableItems

\* A step that reads and writes no table keeps the books.
LEMMA ReadBooks ==
    ASSUME Serial, BooksInv, ItemInv', NEW r \in Requests, Start(r) \/ req[r].op # "idle",
           NEW q, req' = [req EXCEPT ![r] = q], Current(q),
           UNCHANGED <<batch, item, txn, made, mreq>>
    PROVE  BooksInv'
<1>1. OneAtATime' /\ \A s \in Requests : req'[s] = IF s = r THEN q ELSE Idle
  BY StaysAlone
<1>2. Books'
  BY BooksUnchanged DEF BooksInv
<1>3. \A s \in Requests : Current(req'[s])
  BY <1>1, IdleCurrent
<1>4. \A s \in Requests : Current(req[s])'
  BY <1>3, CurrentUnchanged DEF BooksInv
<1> QED BY <1>1, <1>2, <1>4 DEF BooksInv

\* So does one that commits and leaves balanced books.
LEMMA CommitBooks ==
    ASSUME Serial, BooksInv, ItemInv', NEW r \in Requests, req[r].op # "idle",
           req' = [req EXCEPT ![r] = Idle], UNCHANGED mreq, Books'
    PROVE  BooksInv'
<1>1. OneAtATime' /\ \A s \in Requests : req'[s] = Idle
  BY StaysAlone
<1>2. \A s \in Requests : Current(req[s])'
  BY <1>1 DEF Current, Idle
<1> QED BY <1>1, <1>2 DEF BooksInv

-----------------------------------------------------------------------------
(* Steps that only read: what they note down is current *)

\* createBatch up to its transaction.
LEMMA CreateReads ==
    ASSUME Serial, BooksInv, ItemInv', NEW r \in Requests,
           \/ CheckCreateBatch(r)
           \/ \E emps \in SUBSET Employees : ReadEmployees(r, emps)
           \/ \E b \in Batches \cup {NoBatch} : FindDraft(r, b)
           \/ BeginCreateBatch(r)
    PROVE  BooksInv'
<1>0. Current(req[r])
  BY DEF BooksInv
<1>1. CASE CheckCreateBatch(r)
  <2>1. Current([op |-> "createRead"])
    BY DEF Current
  <2> QED BY <1>1, <2>1, ReadBooks DEF CheckCreateBatch, ikiminaVars
<1>2. ASSUME NEW emps \in SUBSET Employees, ReadEmployees(r, emps) PROVE BooksInv'
  <2>1. CASE emps = {}
    BY <1>2, <2>1, IdleCurrent, ReadBooks DEF ReadEmployees, ikiminaVars
  <2>2. CASE emps # {}
    <3>1. Current([op |-> "create", emps |-> emps])
      BY <2>2 DEF Current
    <3> QED BY <1>2, <2>2, <3>1, ReadBooks DEF ReadEmployees, ikiminaVars
  <2> QED BY <2>1, <2>2
<1>3. ASSUME NEW b \in Batches \cup {NoBatch}, FindDraft(r, b) PROVE BooksInv'
  <2>1. b = NoBatch \/ batch[b].status = "DRAFT"
    BY <1>3 DEF FindDraft, Drafts
  <2>2. Current([op |-> "createDraft", emps |-> req[r].emps, target |-> b])
    BY <1>0, <1>3, <2>1 DEF Current, FindDraft
  <2> QED BY <1>3, <2>2, ReadBooks DEF FindDraft, ikiminaVars
<1>4. CASE BeginCreateBatch(r)
  <2> DEFINE b == req[r].target
             q == [op |-> "createTx", emps |-> req[r].emps, target |-> b,
                   old |-> IF b = NoBatch THEN {} ELSE ItemsOf(b)]
  <2>1. Current(q)
    BY <1>0, <1>4 DEF Current, BeginCreateBatch
  <2>2. req' = [req EXCEPT ![r] = q]
    BY <1>4 DEF BeginCreateBatch
  <2> HIDE DEF q
  <2> QED BY <1>4, <2>1, <2>2, ReadBooks DEF BeginCreateBatch
<1> QED BY <1>1, <1>2, <1>3, <1>4

\* submitBatch and addBatchAttachments up to their writes.
LEMMA SubmitReads ==
    ASSUME Serial, BooksInv, ItemInv', NEW r \in Requests, NEW b \in Batches,
           \/ CheckSubmitBatch(r, b)
           \/ \E files \in SUBSET Files : CheckAddAttachments(r, b, files)
    PROVE  BooksInv'
<1>1. CASE CheckSubmitBatch(r, b)
  <2>1. Current([op |-> "submit", target |-> b])
    BY <1>1 DEF Current, CheckSubmitBatch
  <2> QED BY <1>1, <2>1, ReadBooks DEF CheckSubmitBatch, ikiminaVars
<1>2. ASSUME NEW files \in SUBSET Files, CheckAddAttachments(r, b, files)
      PROVE BooksInv'
  <2> DEFINE q == [op |-> "attach", target |-> b, files |-> Attached(b, files)]
  <2>1. Current(q)
    BY <1>2 DEF Current, CheckAddAttachments, Attached
  <2>2. req' = [req EXCEPT ![r] = q]
    BY <1>2 DEF CheckAddAttachments
  <2> HIDE DEF q
  <2> QED BY <1>2, <2>1, <2>2, ReadBooks DEF CheckAddAttachments, ikiminaVars
<1> QED BY <1>1, <1>2

\* The reviews up to their transactions.
LEMMA ReviewReads ==
    ASSUME Serial, BooksInv, ItemInv', NEW r \in Requests,
           \/ \E a \in Actors, i \in ItemIds, v \in {"APPROVED", "REJECTED"} :
                CheckReviewItem(r, a, i, v)
           \/ BeginReviewItem(r)
           \/ \E a \in Actors, b \in Batches :
                CheckApproveBatch(r, a, b) \/ CheckRejectBatch(r, a, b)
           \/ BeginApproveBatch(r)
           \/ Abort(r)
    PROVE  BooksInv'
<1>0. Current(req[r])
  BY DEF BooksInv
<1>1. ASSUME NEW a \in Actors, NEW i \in ItemIds, NEW v \in {"APPROVED", "REJECTED"},
             CheckReviewItem(r, a, i, v)
      PROVE BooksInv'
  <2>1. Current([op |-> "item", id |-> i, target |-> item[i].batch, verdict |-> v])
    BY <1>1 DEF Current, CheckReviewItem, MayReview
  <2> QED BY <1>1, <2>1, ReadBooks DEF CheckReviewItem, ikiminaVars
<1>2. CASE BeginReviewItem(r)
  <2> DEFINE others == ItemsOf(req[r].target) \ {req[r].id}
             q == [op |-> "itemTx", id |-> req[r].id, target |-> req[r].target,
                   verdict |-> req[r].verdict, others |-> others,
                   pending |-> \E i \in others : item[i].status = "PENDING"]
  <2>1. req' = [req EXCEPT ![r] = q]
    BY <1>2 DEF BeginReviewItem
  <2>2. Current(q)
    BY <1>0, <1>2 DEF Current, BeginReviewItem
  <2> HIDE DEF q
  <2> QED BY <1>2, <2>1, <2>2, ReadBooks DEF BeginReviewItem, ikiminaVars
<1>3. ASSUME NEW a \in Actors, NEW b \in Batches, CheckApproveBatch(r, a, b)
      PROVE BooksInv'
  <2>1. Current([op |-> "approve", actor |-> a, target |-> b, step |-> batch[b].step])
    BY <1>3 DEF Current, CheckApproveBatch, MayReview
  <2> QED BY <1>3, <2>1, ReadBooks DEF CheckApproveBatch, ikiminaVars
<1>4. ASSUME NEW a \in Actors, NEW b \in Batches, CheckRejectBatch(r, a, b)
      PROVE BooksInv'
  <2>1. Current([op |-> "reject", actor |-> a, target |-> b])
    BY <1>4 DEF Current, CheckRejectBatch, MayReview
  <2> QED BY <1>4, <2>1, ReadBooks DEF CheckRejectBatch, ikiminaVars
<1>5. CASE BeginApproveBatch(r)
  <2> DEFINE rejected == {i \in ItemsOf(req[r].target) : item[i].status = "REJECTED"}
             final == req[r].step >= FinalStep
             payable == IF final THEN PayableItems(req[r].target) ELSE {}
             q == [op |-> "approveTx", actor |-> req[r].actor, target |-> req[r].target,
                   step |-> req[r].step, final |-> final, rejected |-> rejected,
                   payable |-> payable, files |-> batch[req[r].target].files]
  <2>1. req' = [req EXCEPT ![r] = q]
    BY <1>5 DEF BeginApproveBatch
  <2>2. batch[req[r].target].status \in Reviewable
    BY <1>0, <1>5 DEF Current, BeginApproveBatch
  <2>3. Current(q)
    <3>1. final \in BOOLEAN
      BY DEF FinalStep
    <3> HIDE DEF final
    <3> QED BY <2>2, <3>1 DEF Current
  <2> HIDE DEF q
  <2> QED BY <1>5, <2>1, <2>3, ReadBooks DEF BeginApproveBatch, ikiminaVars
<1>6. CASE Abort(r)
  <2>1. req[r].op # "idle"
    BY <1>6 DEF Abort, Idle, BooksInv, ItemInv, TypeInv, WellFormed, Request
  <2> QED BY <1>6, <2>1, IdleCurrent, ReadBooks DEF Abort
<1> QED BY <1>1, <1>2, <1>3, <1>4, <1>5, <1>6

-----------------------------------------------------------------------------
(* Commits: the books they leave, and what they may not touch *)

\* What ApprovedIsFinal and AttachmentsKept say of one step.
KeepsApproved ==
    \A b \in Batches : batch[b].status = "APPROVED" =>
      /\ batch'[b] = batch[b]
      /\ \A i \in ItemIds :
           /\ item[i].batch = b => item'[i] = item[i] /\ txn'[i] = txn[i]
           /\ item'[i].batch = b => item[i].batch = b

KeepsFiles == \A b \in Batches : batch[b].files \subseteq batch'[b].files

\* A commit that writes the row of batch t, and of the items only their status.
LEMMA RowWritten ==
    ASSUME Books, TypeInv, NEW t \in Batches,
           \A b \in Batches : b # t => batch'[b] = batch[b],
           batch[t].status \notin {"NONE", "APPROVED"},
           batch'[t].status \notin {"NONE", "APPROVED"},
           batch'[t].totals = batch[t].totals,
           batch[t].files \subseteq batch'[t].files,
           batch'[t].status = "DRAFT" =>
             /\ batch'[t].step = 1 /\ batch'[t].by = NoActor
             /\ \A i \in ItemIds : item'[i].batch = t => item'[i].status = "PENDING",
           \A i \in ItemIds :
             /\ item'[i].batch = item[i].batch
             /\ item[i].batch # t => item'[i] = item[i] /\ txn'[i] = txn[i]
             /\ item[i].batch = t => txn'[i].status \in {txn[i].status, "REJECTED"},
           UNCHANGED made
    PROVE  Books' /\ KeepsApproved /\ KeepsFiles
<1>1. \A b \in Batches : ItemsOf(b)' = ItemsOf(b)
  BY DEF ItemsOf
<1>2. TotalsMatchItems'
  BY <1>1 DEF Books, TotalsMatchItems
<1>3. PaidIffApproved' /\ Vouched'
  <2> SUFFICES ASSUME NEW i \in ItemIds
               PROVE /\ item'[i].batch = NoBatch => txn'[i].status = "NONE"
                     /\ item'[i].batch # NoBatch =>
                          /\ txn'[i].status # "NONE"
                          /\ txn'[i].status = "PAID" <=>
                               batch'[item'[i].batch].status = "APPROVED"
    BY DEF PaidIffApproved, Vouched
  <2>1. /\ item[i].batch = NoBatch => txn[i].status = "NONE"
        /\ item[i].batch # NoBatch =>
             /\ txn[i].status # "NONE"
             /\ txn[i].status = "PAID" <=> batch[item[i].batch].status = "APPROVED"
    BY DEF Books, PaidIffApproved, Vouched
  <2>2. item[i].batch \in Batches \cup {NoBatch}
    BY DEF TypeInv, TablesTypeOK, Item
  <2>3. CASE item[i].batch = t
    BY <2>1, <2>3, PayrollAssumption
  <2>4. CASE item[i].batch # t
    BY <2>1, <2>2, <2>4
  <2> QED BY <2>3, <2>4
<1>4. DraftIsClean'
  <2> SUFFICES ASSUME NEW b \in Batches, batch'[b].status = "DRAFT"
               PROVE /\ batch'[b].step = 1 /\ batch'[b].by = NoActor
                     /\ \A i \in ItemIds : item'[i].batch = b =>
                          item'[i].status = "PENDING" /\ txn'[i].status # "PAID"
    BY DEF DraftIsClean, Drafts, ItemsOf
  <2>1. \A i \in ItemIds : item'[i].batch = b => txn'[i].status # "PAID"
    BY <1>3, PayrollAssumption DEF PaidIffApproved
  <2>2. CASE b = t
    BY <2>1, <2>2
  <2>3. CASE b # t
    BY <2>1, <2>3 DEF Books, DraftIsClean, Drafts, ItemsOf
  <2> QED BY <2>2, <2>3
<1>5. NotYetMade' /\ UnusedBare'
  BY DEF Books, NotYetMade, UnusedBare, Unused
<1>6. KeepsApproved /\ KeepsFiles
  BY DEF KeepsApproved, KeepsFiles
<1> QED BY <1>2, <1>3, <1>4, <1>5, <1>6 DEF Books

\* submitBatch, addBatchAttachments, the item decisions and rejectBatch.
LEMMA RowCommits ==
    ASSUME BooksInv, NEW r \in Requests,
           \/ CommitSubmitBatch(r) \/ CommitAddAttachments(r)
           \/ CommitReviewItem(r) \/ CommitRejectBatch(r)
    PROVE  Books' /\ KeepsApproved /\ KeepsFiles
<1> DEFINE q == req[r]
           t == q.target
<1>0. /\ Books /\ TypeInv /\ TablesTypeOK /\ q \in WellFormed /\ Current(q)
      /\ batch \in [Batches -> Batch]
  BY DEF BooksInv, ItemInv, TypeInv, TablesTypeOK
<1>1. t \in Batches
  BY <1>0, Shape DEF CommitSubmitBatch, CommitAddAttachments, CommitReviewItem,
                     CommitRejectBatch
<1>2. CASE CommitSubmitBatch(r)
  <2>1. /\ batch[t].status \in {"DRAFT", "REJECTED"}
        /\ batch' = [batch EXCEPT ![t] = [batch[t] EXCEPT !.status = "PENDING", !.step = 1]]
        /\ UNCHANGED <<item, txn, made>>
    BY <1>0, <1>2 DEF Current, CommitSubmitBatch
  <2>2. /\ \A b \in Batches : b # t => batch'[b] = batch[b]
        /\ batch'[t].status = "PENDING" /\ batch'[t].totals = batch[t].totals
        /\ batch'[t].files = batch[t].files
    BY <1>0, <1>1, <2>1 DEF Batch
  <2> HIDE DEF q, t
  <2> QED BY <1>0, <1>1, <2>1, <2>2, RowWritten
<1>3. CASE CommitAddAttachments(r)
  <2>1. /\ batch[t].status \notin Terminal \cup {"NONE"}
        /\ batch[t].files \subseteq q.files
        /\ batch' = [batch EXCEPT ![t] = [batch[t] EXCEPT !.files = q.files]]
        /\ UNCHANGED <<item, txn, made>>
    BY <1>0, <1>3 DEF Current, CommitAddAttachments
  <2>2. /\ \A b \in Batches : b # t => batch'[b] = batch[b]
        /\ batch'[t].status = batch[t].status /\ batch'[t].totals = batch[t].totals
        /\ batch'[t].files = q.files /\ batch'[t].step = batch[t].step
        /\ batch'[t].by = batch[t].by
    BY <1>0, <1>1, <2>1 DEF Batch
  <2>3. batch[t].status = "DRAFT" =>
          /\ batch[t].step = 1 /\ batch[t].by = NoActor
          /\ \A i \in ItemIds : item[i].batch = t => item[i].status = "PENDING"
    BY <1>0, <1>1 DEF Books, DraftIsClean, Drafts, ItemsOf
  <2> HIDE DEF q, t
  <2> QED BY <1>0, <1>1, <2>1, <2>2, <2>3, RowWritten DEF Terminal
<1>4. CASE CommitReviewItem(r)
  <2>1. /\ batch[t].status \in Reviewable /\ item[q.id].batch = t /\ q.id \in ItemIds
        /\ q.verdict \in {"APPROVED", "REJECTED"}
    BY <1>0, <1>4, Shape DEF Current, CommitReviewItem
  <2>2. RecalculatedStatus(q) \in Reviewable
    BY <2>1 DEF RecalculatedStatus, Reviewable
  <2>3. batch' = [batch EXCEPT ![t] = [batch[t] EXCEPT !.status = RecalculatedStatus(q)]]
    BY <1>4 DEF CommitReviewItem
  <2>4. /\ \A b \in Batches : b # t => batch'[b] = batch[b]
        /\ batch'[t].status \in Reviewable /\ batch'[t].totals = batch[t].totals
        /\ batch'[t].files = batch[t].files
    BY <1>0, <1>1, <2>2, <2>3 DEF Batch
  <2>5. \A i \in ItemIds :
          /\ item'[i].batch = item[i].batch
          /\ i # q.id => item'[i] = item[i] /\ txn'[i] = txn[i]
          /\ txn'[i].status \in {txn[i].status, "REJECTED"}
    BY <1>0, <1>4, <2>1 DEF CommitReviewItem, TablesTypeOK, Item, Txn
  <2>6. UNCHANGED made
    BY <1>4 DEF CommitReviewItem
  <2> HIDE DEF q, t
  <2> QED BY <1>0, <1>1, <2>1, <2>4, <2>5, <2>6, RowWritten DEF Reviewable
<1>5. CASE CommitRejectBatch(r)
  <2>1. /\ batch[t].status \in Reviewable
        /\ UNCHANGED <<txn, made>>
    BY <1>0, <1>5 DEF Current, CommitRejectBatch
  <2>2. /\ \A b \in Batches : b # t => batch'[b] = batch[b]
        /\ batch'[t].totals = batch[t].totals /\ batch'[t].files = batch[t].files
        /\ \/ batch'[t].status = "REJECTED" /\ UNCHANGED item
           \/ /\ batch'[t].status = "DRAFT" /\ batch'[t].step = 1
              /\ batch'[t].by = NoActor /\ item' = Reopened(t)
    <3>1. CASE q.actor \in SuperAdmins
      <4>1. /\ batch' = [batch EXCEPT ![t] =
                           [batch[t] EXCEPT !.status = "REJECTED", !.by = q.actor]]
            /\ UNCHANGED item
        BY <1>5, <3>1 DEF CommitRejectBatch
      <4> QED BY <1>0, <1>1, <4>1 DEF Batch
    <3>2. CASE q.actor \notin SuperAdmins
      <4>1. /\ batch' = [batch EXCEPT ![t] =
                  [batch[t] EXCEPT !.status = "DRAFT", !.step = 1, !.by = NoActor]]
            /\ item' = Reopened(t)
        BY <1>5, <3>2 DEF CommitRejectBatch, Returned
      <4> QED BY <1>0, <1>1, <4>1 DEF Batch
    <3> QED BY <3>1, <3>2
  <2>3. CASE UNCHANGED item /\ batch'[t].status = "REJECTED"
    <3> HIDE DEF q, t
    <3> QED BY <1>0, <1>1, <2>1, <2>2, <2>3, RowWritten DEF Reviewable
  <2>4. CASE batch'[t].status = "DRAFT" /\ item' = Reopened(t)
    <3> HIDE DEF q, t
    <3>1. \A i \in ItemIds : /\ item'[i].batch = item[i].batch
                             /\ item[i].batch # t => item'[i] = item[i]
                             /\ item[i].batch = t => item'[i].status = "PENDING"
      BY <1>0, <2>4 DEF Reopened, TablesTypeOK, Item
    <3> QED BY <1>0, <1>1, <2>1, <2>2, <2>4, <3>1, RowWritten DEF Reviewable
  <2> QED BY <2>2, <2>3, <2>4
<1> QED BY <1>2, <1>3, <1>4, <1>5

\* What createBatch's transaction does to batch b: the draft's items and their
\* transactions go, and items nobody had before take their place.
Drafted(b, fresh) ==
    /\ batch[b].status \in {"NONE", "DRAFT"}
    /\ fresh # {}
    /\ \A i \in fresh : item[i].batch = NoBatch /\ i[2] <= made'[i[1]]
    /\ \A e \in Employees : made[e] <= made'[e]
    /\ \A i \in ItemIds :
         /\ i \in fresh =>
              item'[i] = [batch |-> b, status |-> "PENDING"] /\ txn'[i].status = "PENDING"
         /\ i \notin fresh /\ item[i].batch = b =>
              item'[i] = NoItem /\ txn'[i].status = "NONE"
         /\ i \notin fresh /\ item[i].batch # b => item'[i] = item[i] /\ txn'[i] = txn[i]
    /\ \A c \in Batches : c # b => batch'[c] = batch[c]
    /\ batch'[b].status = "DRAFT" /\ batch'[b].step = 1 /\ batch'[b].by = NoActor
    /\ batch'[b].totals = CountOnce(fresh) /\ batch'[b].files = batch[b].files

\* The items createBatch adds: one for every employee it took up, none of
\* which has been used.
LEMMA FreshAreNew ==
    ASSUME TablesTypeOK, NotYetMade, NEW emps \in SUBSET Employees, emps # {},
           \A e \in emps : made[e] < MaxItems,
           made' = [e \in Employees |-> IF e \in emps THEN made[e] + 1 ELSE made[e]]
    PROVE  /\ FreshItems(emps) \in SUBSET ItemIds
           /\ FreshItems(emps) # {}
           /\ \A i \in FreshItems(emps) : item[i].batch = NoBatch /\ i[2] <= made'[i[1]]
           /\ \A e \in Employees : made[e] <= made'[e]
<1>1. FreshItems(emps) \in SUBSET ItemIds
  BY DEF FreshItems
<1>2. PICK e \in emps : TRUE
  OBVIOUS
<1>3. made[e] \in 0 .. MaxItems /\ made[e] < MaxItems /\ MaxItems \in Nat
  BY <1>2, PayrollAssumption DEF TablesTypeOK
<1>4. made[e] + 1 \in 1 .. MaxItems
  BY <1>3
<1>5. <<e, made[e] + 1>> \in FreshItems(emps)
  BY <1>2, <1>4 DEF FreshItems, ItemIds
<1>6. ASSUME NEW i \in FreshItems(emps)
      PROVE item[i].batch = NoBatch /\ i[2] <= made'[i[1]]
  <2>1. i \in ItemIds /\ i[1] \in emps /\ i[2] = made[i[1]] + 1
    BY <1>6 DEF FreshItems
  <2>2. made[i[1]] \in 0 .. MaxItems
    BY <2>1 DEF TablesTypeOK
  <2> QED BY <2>1, <2>2 DEF NotYetMade
<1>7. \A f \in Employees : made[f] <= made'[f]
  BY DEF TablesTypeOK
<1> QED BY <1>1, <1>5, <1>6, <1>7

\* When requests are serial, createBatch regenerates a draft or fills a new one.
LEMMA CreateEffect ==
    ASSUME BooksInv, NEW r \in Requests, CommitCreateBatch(r)
    PROVE  \E b \in Batches, fresh \in SUBSET ItemIds : Drafted(b, fresh)
<1> DEFINE q == req[r]
           b == IF q.target = NoBatch THEN NewBatch ELSE q.target
           fresh == FreshItems(q.emps)
<1>0. Books /\ TablesTypeOK /\ q \in WellFormed /\ Current(q) /\ ItemsInRows
  BY DEF BooksInv, ItemInv, TypeInv
<1>1. q.op = "createTx" /\ q.emps \in SUBSET Employees /\ b \in Batches
  BY <1>0, Shape, NewBatchUnused DEF CommitCreateBatch
<1>2. /\ q.target = NoBatch => batch[b].status = "NONE"
      /\ q.target # NoBatch => b = q.target /\ batch[b].status = "DRAFT"
  BY <1>0, <1>1, NewBatchUnused DEF CommitCreateBatch, Unused, Current
<1>3. q.old = ItemsOf(b)
  <2>1. CASE q.target = NoBatch
    <3>1. ItemsOf(b) = {}
      BY <1>0, <1>1, <1>2, <2>1 DEF ItemsOf, ItemsInRows
    <3> QED BY <1>0, <1>1, <2>1, <3>1 DEF Current
  <2>2. CASE q.target # NoBatch
    BY <1>0, <1>1, <1>2, <2>2 DEF Current
  <2> QED BY <2>1, <2>2
<1>4. q.emps # {} /\ NotYetMade
  BY <1>0, <1>1 DEF Current, Books
<1>5. /\ \A e \in q.emps : made[e] < MaxItems
      /\ made' = [e \in Employees |-> IF e \in q.emps THEN made[e] + 1 ELSE made[e]]
      /\ item' = Replaced(b, fresh)
      /\ txn' = [i \in ItemIds |->
                   IF i \in fresh
                   THEN [status |-> "PENDING", ded |-> due[r][i[1]].amount]
                   ELSE IF i \in q.old THEN [txn[i] EXCEPT !.status = "NONE"]
                   ELSE txn[i]]
      /\ batch' = [batch EXCEPT ![b] =
                     IF q.target = NoBatch
                     THEN [EmptyBatch EXCEPT !.status = "DRAFT", !.totals = CountOnce(fresh)]
                     ELSE [batch[b] EXCEPT !.totals = CountOnce(fresh)]]
  BY DEF CommitCreateBatch
<1>6. /\ fresh \in SUBSET ItemIds /\ fresh # {}
      /\ \A i \in fresh : item[i].batch = NoBatch /\ i[2] <= made'[i[1]]
      /\ \A e \in Employees : made[e] <= made'[e]
  BY <1>0, <1>1, <1>4, <1>5, FreshAreNew
<1>7. /\ \A c \in Batches : c # b => batch'[c] = batch[c]
      /\ batch'[b].status = "DRAFT" /\ batch'[b].step = 1 /\ batch'[b].by = NoActor
      /\ batch'[b].totals = CountOnce(fresh) /\ batch'[b].files = batch[b].files
  <2> HIDE DEF fresh
  <2>1. CASE q.target = NoBatch
    <3>1. batch[b].files = {}
      BY <1>0, <1>1, <1>2, <2>1 DEF Books, UnusedBare, Unused
    <3> HIDE DEF b, q
    <3> QED BY <1>0, <1>1, <1>5, <2>1, <3>1 DEF TablesTypeOK, EmptyBatch
  <2>2. CASE q.target # NoBatch
    <3>1. batch[b] \in Batch /\ batch[b].step = 1 /\ batch[b].by = NoActor
      BY <1>0, <1>1, <1>2, <2>2 DEF TablesTypeOK, Books, DraftIsClean, Drafts
    <3> HIDE DEF b, q
    <3> QED BY <1>0, <1>1, <1>2, <1>5, <2>2, <3>1 DEF TablesTypeOK, Batch
  <2> QED BY <2>1, <2>2
<1>8. \A i \in ItemIds :
        /\ i \in fresh =>
             item'[i] = [batch |-> b, status |-> "PENDING"] /\ txn'[i].status = "PENDING"
        /\ i \notin fresh /\ item[i].batch = b =>
             item'[i] = NoItem /\ txn'[i].status = "NONE"
        /\ i \notin fresh /\ item[i].batch # b => item'[i] = item[i] /\ txn'[i] = txn[i]
  <2> HIDE DEF q, b, fresh
  <2>1. \A i \in ItemIds : txn[i] \in Txn
    BY <1>0 DEF TablesTypeOK
  <2> QED BY <1>3, <1>5, <2>1 DEF Replaced, ItemsOf, Txn
<1>9. Drafted(b, fresh)
  <2> HIDE DEF q, b, fresh
  <2> QED BY <1>2, <1>6, <1>7, <1>8 DEF Drafted
<1> QED
  <2> HIDE DEF q, b, fresh
  <2> QED BY <1>1, <1>6, <1>9

\* The books after a batch has been drafted.
LEMMA DraftedBooks ==
    ASSUME BooksInv, NEW b \in Batches, NEW fresh \in SUBSET ItemIds, Drafted(b, fresh),
           made' \in [Employees -> 0 .. MaxItems]
    PROVE  Books' /\ KeepsApproved /\ KeepsFiles
<1>0. Books /\ TablesTypeOK /\ NoBatch \notin Batches
  BY PayrollAssumption DEF BooksInv, ItemInv, TypeInv
<1>1. \A i \in ItemIds : item[i].batch \in Batches \cup {NoBatch}
  BY <1>0 DEF TablesTypeOK, Item
<1>2. \A i \in ItemIds :
        \/ i \in fresh /\ item'[i].batch = b /\ item'[i].status = "PENDING"
           /\ txn'[i].status = "PENDING" /\ item[i].batch = NoBatch
        \/ i \notin fresh /\ item[i].batch = b /\ item'[i].batch = NoBatch
           /\ txn'[i].status = "NONE"
        \/ i \notin fresh /\ item[i].batch # b /\ item'[i] = item[i] /\ txn'[i] = txn[i]
  BY DEF Drafted, NoItem
<1>3. /\ \A c \in Batches : c # b => batch'[c] = batch[c]
      /\ batch'[b].status = "DRAFT" /\ batch[b].status \in {"NONE", "DRAFT"}
      /\ batch'[b].step = 1 /\ batch'[b].by = NoActor
      /\ batch'[b].totals = CountOnce(fresh) /\ batch'[b].files = batch[b].files
  BY DEF Drafted
<1>4. PaidIffApproved' /\ Vouched'
  <2> SUFFICES ASSUME NEW i \in ItemIds
               PROVE /\ item'[i].batch = NoBatch => txn'[i].status = "NONE"
                     /\ item'[i].batch # NoBatch =>
                          /\ txn'[i].status # "NONE"
                          /\ txn'[i].status = "PAID" <=>
                               batch'[item'[i].batch].status = "APPROVED"
    BY DEF PaidIffApproved, Vouched
  <2>1. CASE i \in fresh \/ item[i].batch = b
    BY <1>0, <1>2, <1>3, <2>1
  <2>2. CASE i \notin fresh /\ item[i].batch # b
    BY <1>0, <1>1, <1>2, <1>3, <2>2 DEF Books, PaidIffApproved, Vouched
  <2> QED BY <2>1, <2>2
<1>5. TotalsMatchItems'
  <2>1. ItemsOf(b)' = fresh
    BY <1>0, <1>2 DEF ItemsOf
  <2>2. \A c \in Batches : c # b => ItemsOf(c)' = ItemsOf(c)
    BY <1>0, <1>2 DEF ItemsOf
  <2> QED BY <1>0, <1>3, <2>1, <2>2 DEF TotalsMatchItems, Books
<1>6. DraftIsClean'
  <2> SUFFICES ASSUME NEW c \in Batches, batch'[c].status = "DRAFT"
               PROVE /\ batch'[c].step = 1 /\ batch'[c].by = NoActor
                     /\ \A i \in ItemIds : item'[i].batch = c =>
                          item'[i].status = "PENDING" /\ txn'[i].status # "PAID"
    BY DEF DraftIsClean, Drafts, ItemsOf
  <2>1. CASE c = b
    BY <1>0, <1>2, <1>3, <2>1
  <2>2. CASE c # b
    BY <1>0, <1>2, <1>3, <2>2 DEF Books, DraftIsClean, Drafts, ItemsOf
  <2> QED BY <2>1, <2>2
<1>7. NotYetMade'
  <2> SUFFICES ASSUME NEW i \in ItemIds, i[2] > made'[i[1]] PROVE item'[i].batch = NoBatch
    BY DEF NotYetMade
  <2>1. i \notin fresh /\ i[1] \in Employees /\ i[2] \in Nat
    BY DEF Drafted, ItemIds
  <2>2. made[i[1]] \in Nat /\ made'[i[1]] \in Nat /\ made[i[1]] <= made'[i[1]]
    BY <1>0, <2>1 DEF Drafted, TablesTypeOK
  <2>3. item[i].batch = NoBatch
    BY <1>0, <2>1, <2>2 DEF Books, NotYetMade
  <2> QED BY <1>0, <1>2, <2>1, <2>3
<1>8. UnusedBare'
  BY <1>0, <1>3 DEF Books, UnusedBare, Unused
<1>9. KeepsApproved /\ KeepsFiles
  BY <1>0, <1>2, <1>3 DEF KeepsApproved, KeepsFiles
<1> QED BY <1>4, <1>5, <1>6, <1>7, <1>8, <1>9 DEF Books

\* What approveBatch's transaction does to batch t: the held items go to the
\* draft new, the others stay and, when the step is final, are paid.
Approved(t, held, new, final) ==
    /\ batch[t].status \in Reviewable
    /\ held = {i \in ItemIds : item[i].batch = t /\ item[i].status = "REJECTED"}
    /\ held # {} => new \in Batches /\ batch[new].status = "NONE"
    /\ \A i \in ItemIds :
         /\ i \in held => item'[i] = [batch |-> new, status |-> "PENDING"] /\ txn'[i] = txn[i]
         /\ i \notin held /\ item[i].batch = t =>
              /\ item'[i].batch = t
              /\ txn'[i].status = IF final THEN "PAID" ELSE txn[i].status
         /\ item[i].batch # t => item'[i] = item[i] /\ txn'[i] = txn[i]
    /\ batch'[t].status = IF final THEN "APPROVED" ELSE "MANAGER_APPROVED"
    /\ batch'[t].totals = Decremented(batch[t].totals, held)
    /\ batch'[t].files = batch[t].files
    /\ held # {} => batch'[new] = [EmptyBatch EXCEPT !.status = "DRAFT",
                                     !.totals = CountOnce(held), !.files = batch[t].files]
    /\ \A c \in Batches : c # t /\ (held # {} => c # new) => batch'[c] = batch[c]

\* When requests are serial, approveBatch pays and splits what is there.
LEMMA ApproveEffect ==
    ASSUME BooksInv, NEW r \in Requests, CommitApproveBatch(r)
    PROVE  \E t \in Batches, held \in SUBSET ItemIds, final \in BOOLEAN :
             Approved(t, held, NewBatch, final)
<1> DEFINE q == req[r]
           t == q.target
           held == q.rejected
           new == NewBatch
<1>0. Books /\ TablesTypeOK /\ q \in WellFormed /\ Current(q) /\ q.op = "approveTx"
  BY DEF BooksInv, ItemInv, TypeInv, CommitApproveBatch
<1>1. t \in Batches /\ held \in SUBSET ItemIds /\ q.final \in BOOLEAN
  BY <1>0, Shape
<1>2. /\ batch[t].status \in Reviewable
      /\ held = {i \in ItemsOf(t) : item[i].status = "REJECTED"}
      /\ q.payable = IF q.final THEN PayableItems(t) ELSE {}
      /\ q.files = batch[t].files
  BY <1>0 DEF Current
<1>3. held # {} => new \in Batches /\ batch[new].status = "NONE"
  BY NewBatchUnused DEF CommitApproveBatch, Unused
<1>4. held # {} => new # t
  BY <1>2, <1>3 DEF Reviewable
<1>5. /\ item' = [i \in ItemIds |->
                    IF i \in held THEN [batch |-> new, status |-> "PENDING"]
                    ELSE IF /\ q.final
                            /\ item[i].batch = t
                            /\ item[i].status # "REJECTED"
                    THEN [item[i] EXCEPT !.status = "APPROVED"]
                    ELSE item[i]]
      /\ txn' = [i \in ItemIds |->
                   IF i \in q.payable /\ txn[i].status # "NONE"
                   THEN [txn[i] EXCEPT !.status = "PAID"] ELSE txn[i]]
      /\ batch' = [b \in Batches |->
                     IF b = t THEN Advanced(batch[b], q)
                     ELSE IF held # {} /\ b = new THEN SplitOff(q)
                     ELSE batch[b]]
  BY DEF CommitApproveBatch
<1>6. /\ Advanced(batch[t], q).status = IF q.final THEN "APPROVED" ELSE "MANAGER_APPROVED"
      /\ Advanced(batch[t], q).totals = Decremented(batch[t].totals, held)
      /\ Advanced(batch[t], q).files = batch[t].files
  <2>1. batch[t] \in Batch
    BY <1>0, <1>1 DEF TablesTypeOK
  <2> QED BY <2>1 DEF Advanced, Batch
<1>7. SplitOff(q) = [EmptyBatch EXCEPT !.status = "DRAFT", !.totals = CountOnce(held),
                                       !.files = batch[t].files]
  BY <1>2 DEF SplitOff
<1> HIDE DEF t, held, new
<1>8. /\ batch'[t].status = IF q.final THEN "APPROVED" ELSE "MANAGER_APPROVED"
      /\ batch'[t].totals = Decremented(batch[t].totals, held)
      /\ batch'[t].files = batch[t].files
      /\ held # {} => batch'[new] = SplitOff(q)
      /\ \A c \in Batches : c # t /\ (held # {} => c # new) => batch'[c] = batch[c]
  <2> HIDE DEF q
  <2> QED BY <1>1, <1>3, <1>4, <1>5, <1>6
<1>9. ASSUME NEW i \in ItemIds
      PROVE /\ i \in held =>
                 item'[i] = [batch |-> new, status |-> "PENDING"] /\ txn'[i] = txn[i]
            /\ i \notin held /\ item[i].batch = t =>
                 /\ item'[i].batch = t
                 /\ txn'[i].status = IF q.final THEN "PAID" ELSE txn[i].status
            /\ item[i].batch # t => item'[i] = item[i] /\ txn'[i] = txn[i]
  <2>0. t # NoBatch
    BY <1>1, PayrollAssumption
  <2> HIDE DEF q
  <2>1. item[i] \in Item /\ txn[i] \in Txn
    BY <1>0 DEF TablesTypeOK
  <2>2. item[i].batch = t => txn[i].status # "NONE"
    BY <1>0, <2>0 DEF Books, Vouched
  <2>3. i \in q.payable <=> q.final /\ item[i].batch = t /\ item[i].status # "REJECTED"
    BY <1>2 DEF PayableItems, ItemsOf
  <2>4. i \in held <=> item[i].batch = t /\ item[i].status = "REJECTED"
    BY <1>2 DEF ItemsOf
  <2>5. CASE i \in held
    BY <1>5, <2>3, <2>4, <2>5
  <2>6. CASE i \notin held /\ item[i].batch = t
    BY <1>5, <2>1, <2>2, <2>3, <2>4, <2>6 DEF Item, Txn
  <2>7. CASE item[i].batch # t
    BY <1>5, <2>3, <2>4, <2>7
  <2> QED BY <2>4, <2>5, <2>6, <2>7
<1>10. held = {i \in ItemIds : item[i].batch = t /\ item[i].status = "REJECTED"}
  BY <1>2 DEF ItemsOf
<1>11. Approved(t, held, new, q.final)
  <2> HIDE DEF q
  <2> QED BY <1>2, <1>3, <1>7, <1>8, <1>9, <1>10 DEF Approved
<1> QED
  <2> HIDE DEF q
  <2> QED BY <1>1, <1>11 DEF new

\* The books after a batch has been approved or forwarded.
LEMMA ApprovedBooks ==
    ASSUME BooksInv, UNCHANGED made,
           NEW t \in Batches, NEW held \in SUBSET ItemIds, NEW new, NEW final \in BOOLEAN,
           Approved(t, held, new, final)
    PROVE  Books' /\ KeepsApproved /\ KeepsFiles
<1>0. /\ Books /\ TablesTypeOK /\ ItemsInRows /\ NoBatch \notin Batches
  BY PayrollAssumption DEF BooksInv, ItemInv, TypeInv
<1>1. \A i \in ItemIds : item[i].batch \in Batches \cup {NoBatch}
  BY <1>0 DEF TablesTypeOK, Item
<1>2. /\ batch[t].status \in Reviewable
      /\ batch'[t].status \in {"APPROVED", "MANAGER_APPROVED"}
      /\ batch'[t].status = "APPROVED" <=> final
      /\ batch'[t].files = batch[t].files
      /\ \A c \in Batches : c # t /\ (held # {} => c # new) => batch'[c] = batch[c]
  BY DEF Approved
<1>3. ASSUME held # {}
      PROVE /\ new \in Batches /\ new # t /\ batch[new].status = "NONE"
            /\ batch'[new].status = "DRAFT" /\ batch'[new].step = 1
            /\ batch'[new].by = NoActor /\ batch'[new].totals = CountOnce(held)
            /\ \A i \in ItemIds : item[i].batch # new
            /\ batch[new].files = {}
  <2>1. new \in Batches /\ new # t /\ batch[new].status = "NONE"
    BY <1>3 DEF Approved, Reviewable
  <2>2. batch'[new] = [EmptyBatch EXCEPT !.status = "DRAFT", !.totals = CountOnce(held),
                                         !.files = batch[t].files]
    BY <1>3 DEF Approved
  <2>3. \A i \in ItemIds : item[i].batch # new
    BY <1>0, <2>1 DEF ItemsInRows
  <2>4. batch[new].files = {}
    BY <1>0, <2>1 DEF Books, UnusedBare, Unused
  <2> QED BY <2>1, <2>2, <2>3, <2>4 DEF EmptyBatch
<1>4. \A i \in ItemIds :
        \/ /\ i \in held /\ item[i].batch = t /\ item'[i].batch = new
           /\ item'[i].status = "PENDING" /\ txn'[i] = txn[i]
        \/ /\ i \notin held /\ item[i].batch = t /\ item'[i].batch = t
           /\ txn'[i].status = IF final THEN "PAID" ELSE txn[i].status
        \/ i \notin held /\ item[i].batch # t /\ item'[i] = item[i] /\ txn'[i] = txn[i]
  BY DEF Approved
<1>5. PaidIffApproved' /\ Vouched'
  <2> SUFFICES ASSUME NEW i \in ItemIds
               PROVE /\ item'[i].batch = NoBatch => txn'[i].status = "NONE"
                     /\ item'[i].batch # NoBatch =>
                          /\ txn'[i].status # "NONE"
                          /\ txn'[i].status = "PAID" <=>
                               batch'[item'[i].batch].status = "APPROVED"
    BY DEF PaidIffApproved, Vouched
  <2>0. /\ item[i].batch = NoBatch => txn[i].status = "NONE"
        /\ item[i].batch # NoBatch =>
             /\ txn[i].status # "NONE"
             /\ txn[i].status = "PAID" <=> batch[item[i].batch].status = "APPROVED"
    BY <1>0 DEF Books, PaidIffApproved, Vouched
  <2>1. CASE i \in held
    BY <1>0, <1>2, <1>3, <1>4, <2>0, <2>1 DEF Reviewable
  <2>2. CASE i \notin held /\ item[i].batch = t
    BY <1>0, <1>2, <1>4, <2>0, <2>2 DEF Reviewable
  <2>3. CASE item[i].batch # t
    <3>1. item[i].batch # NoBatch => batch'[item[i].batch] = batch[item[i].batch]
      BY <1>1, <1>2, <1>3, <2>3
    <3> QED BY <1>4, <2>0, <2>3, <3>1
  <2> QED BY <2>1, <2>2, <2>3
<1>6. TotalsMatchItems'
  <2> SUFFICES ASSUME NEW c \in Batches PROVE batch'[c].totals = CountOnce(ItemsOf(c)')
    BY DEF TotalsMatchItems
  <2>0. batch[c].totals = CountOnce(ItemsOf(c))
    BY <1>0 DEF Books, TotalsMatchItems
  <2>1. CASE c = t
    <3>1. ItemsOf(t)' = ItemsOf(t) \ held
      BY <1>3, <1>4 DEF ItemsOf
    <3>2. held \subseteq ItemsOf(t)
      BY <1>4 DEF ItemsOf
    <3>3. batch'[t].totals = Decremented(CountOnce(ItemsOf(t)), held)
      BY <2>0, <2>1 DEF Approved
    <3>4. Decremented(CountOnce(ItemsOf(t)), held) = CountOnce(ItemsOf(t) \ held)
      BY <3>2 DEF Decremented, CountOnce
    <3> QED BY <2>1, <3>1, <3>3, <3>4
  <2>2. CASE held # {} /\ c = new
    <3>1. ItemsOf(new)' = held
      BY <1>3, <1>4, <2>2 DEF ItemsOf
    <3> QED BY <1>3, <2>2, <3>1
  <2>3. CASE c # t /\ (held # {} => c # new)
    <3>1. ItemsOf(c)' = ItemsOf(c)
      BY <1>4, <2>3 DEF ItemsOf
    <3> QED BY <1>2, <2>0, <2>3, <3>1
  <2> QED BY <2>1, <2>2, <2>3
<1>7. DraftIsClean'
  <2> SUFFICES ASSUME NEW c \in Batches, batch'[c].status = "DRAFT"
               PROVE /\ batch'[c].step = 1 /\ batch'[c].by = NoActor
                     /\ \A i \in ItemIds : item'[i].batch = c =>
                          item'[i].status = "PENDING" /\ txn'[i].status # "PAID"
    BY DEF DraftIsClean, Drafts, ItemsOf
  <2>0. \A i \in ItemIds : item'[i].batch = c => txn'[i].status # "PAID"
    BY <1>0, <1>5 DEF PaidIffApproved
  <2>1. c # t
    BY <1>2
  <2>2. CASE held # {} /\ c = new
    BY <1>3, <1>4, <2>0, <2>1, <2>2
  <2>3. CASE held # {} => c # new
    BY <1>0, <1>2, <1>4, <2>0, <2>1, <2>3 DEF Books, DraftIsClean, Drafts, ItemsOf
  <2> QED BY <2>2, <2>3
<1>8. NotYetMade'
  BY <1>0, <1>4 DEF Books, NotYetMade
<1>9. UnusedBare'
  BY <1>0, <1>2, <1>3 DEF Books, UnusedBare, Unused
<1>10. KeepsApproved
  BY <1>2, <1>3, <1>4 DEF KeepsApproved, Reviewable
<1>11. KeepsFiles
  BY <1>2, <1>3 DEF KeepsFiles
<1> QED BY <1>5, <1>6, <1>7, <1>8, <1>9, <1>10, <1>11 DEF Books

\* Every commit leaves balanced books and keeps what is final.
LEMMA CommitsBooks ==
    ASSUME BooksInv, ItemInv', NEW r \in Requests,
           \/ CommitCreateBatch(r) \/ CommitSubmitBatch(r) \/ CommitAddAttachments(r)
           \/ CommitReviewItem(r) \/ CommitApproveBatch(r) \/ CommitRejectBatch(r)
    PROVE  Books' /\ KeepsApproved /\ KeepsFiles
<1>1. CASE CommitCreateBatch(r)
  <2>1. made' \in [Employees -> 0 .. MaxItems]
    BY DEF ItemInv, TypeInv, TablesTypeOK
  <2> QED BY <1>1, <2>1, CreateEffect, DraftedBooks
<1>2. CASE CommitApproveBatch(r)
  <2>1. UNCHANGED made
    BY <1>2 DEF CommitApproveBatch
  <2> QED BY <1>2, <2>1, ApproveEffect, ApprovedBooks
<1> QED BY <1>1, <1>2, RowCommits

\* The steps of other actors leave payroll's tables and requests alone.
LEMMA OthersBooks ==
    ASSUME Serial, BooksInv, ItemInv', UNCHANGED <<batch, item, txn, made, req>>,
           PayrollQuiet \/ UNCHANGED mreq
    PROVE  BooksInv'
<1>1. Books'
  BY BooksUnchanged DEF BooksInv
<1>2. \A s \in Requests : Current(req[s])'
  BY CurrentUnchanged DEF BooksInv
<1>3. OneAtATime'
  BY DEF BooksInv, OneAtATime, PayrollQuiet, MembershipQuiet
<1> QED BY <1>1, <1>2, <1>3 DEF BooksInv

\* Served one at a time, every step keeps the books balanced, leaves approved
\* batches as they are and loses no attachment.
LEMMA NextBooks ==
    ASSUME Serial
    PROVE  BooksInv /\ [Next]_vars => BooksInv' /\ KeepsApproved /\ KeepsFiles
<1> SUFFICES ASSUME BooksInv, [Next]_vars
             PROVE  BooksInv' /\ KeepsApproved /\ KeepsFiles
  OBVIOUS
<1>0. ItemInv'
  BY NextItems DEF BooksInv
<1>1. ASSUME UNCHANGED <<batch, item, txn>> PROVE KeepsApproved /\ KeepsFiles
  BY <1>1 DEF KeepsApproved, KeepsFiles
<1>2. ASSUME NEW r \in Requests,
             \/ CommitCreateBatch(r) \/ CommitSubmitBatch(r) \/ CommitAddAttachments(r)
             \/ CommitReviewItem(r) \/ CommitApproveBatch(r) \/ CommitRejectBatch(r)
      PROVE BooksInv' /\ KeepsApproved /\ KeepsFiles
  <2>1. Books' /\ KeepsApproved /\ KeepsFiles
    BY <1>0, <1>2, CommitsBooks
  <2>2. req[r].op # "idle" /\ req' = [req EXCEPT ![r] = Idle] /\ UNCHANGED mreq
    BY <1>2 DEF CommitCreateBatch, CommitSubmitBatch, CommitAddAttachments,
                CommitReviewItem, CommitApproveBatch, CommitRejectBatch, ikiminaVars
  <2> QED BY <1>0, <2>1, <2>2, CommitBooks
<1>3. ASSUME NEW r \in Requests,
             \/ CheckCreateBatch(r)
             \/ \E emps \in SUBSET Employees : ReadEmployees(r, emps)
             \/ \E b \in Batches \cup {NoBatch} : FindDraft(r, b)
             \/ BeginCreateBatch(r)
      PROVE BooksInv' /\ KeepsApproved /\ KeepsFiles
  BY <1>0, <1>1, <1>3, CreateReads DEF CheckCreateBatch, ReadEmployees, FindDraft,
                                       BeginCreateBatch
<1>4. ASSUME NEW r \in Requests, NEW b \in Batches,
             \/ CheckSubmitBatch(r, b)
             \/ \E files \in SUBSET Files : CheckAddAttachments(r, b, files)
      PROVE BooksInv' /\ KeepsApproved /\ KeepsFiles
  BY <1>0, <1>1, <1>4, SubmitReads DEF CheckSubmitBatch, CheckAddAttachments
<1>5. ASSUME NEW r \in Requests,
             \/ \E a \in Actors, i \in ItemIds, v \in {"APPROVED", "REJECTED"} :
                  CheckReviewItem(r, a, i, v)
             \/ BeginReviewItem(r)
             \/ \E a \in Actors, b \in Batches :
                  CheckApproveBatch(r, a, b) \/ CheckRejectBatch(r, a, b)
             \/ BeginApproveBatch(r)
             \/ Abort(r)
      PROVE BooksInv' /\ KeepsApproved /\ KeepsFiles
  <2>1. UNCHANGED <<batch, item, txn>>
    BY <1>5 DEF CheckReviewItem, BeginReviewItem, CheckApproveBatch, CheckRejectBatch,
                BeginApproveBatch, Abort
  <2> QED BY <1>0, <1>1, <1>5, <2>1, ReviewReads
<1>6. ASSUME UNCHANGED <<batch, item, txn, made, req>>, PayrollQuiet \/ UNCHANGED mreq
      PROVE BooksInv' /\ KeepsApproved /\ KeepsFiles
  BY <1>0, <1>1, <1>6, OthersBooks
<1>7. ASSUME \/ ApproversMove
             \/ PayrollQuiet /\ UNCHANGED payrollVars
             \/ UNCHANGED <<payrollVars, ikiminaVars>>
             \/ UNCHANGED vars
      PROVE BooksInv' /\ KeepsApproved /\ KeepsFiles
  BY <1>6, <1>7 DEF ApproversMove, payrollVars, ikiminaVars, vars
<1> QED BY <1>2, <1>3, <1>4, <1>5, <1>7 DEF Next

\* Served one at a time, a transaction is PAID exactly when the batch its item
\* is in is APPROVED, through regenerations, splits and rejections.
THEOREM SerialPaid ==
    ASSUME Serial PROVE Spec => []PaidIffApproved
<1>1. BooksInv => PaidIffApproved
  BY DEF BooksInv, Books
<1> QED BY <1>1, InitBooks, NextBooks, PTL DEF Spec

\* Served one at a time, the totals of every batch are those of its items.
THEOREM SerialTotals ==
    ASSUME Serial PROVE Spec => []TotalsMatchItems
<1>1. BooksInv => TotalsMatchItems
  BY DEF BooksInv, Books
<1> QED BY <1>1, InitBooks, NextBooks, PTL DEF Spec

\* Served one at a time, a draft starts from the first step with nothing in it
\* decided or paid, whether it is new, returned or split off.
THEOREM SerialDrafts ==
    ASSUME Serial PROVE Spec => []DraftIsClean
<1>1. BooksInv => DraftIsClean
  BY DEF BooksInv, Books
<1> QED BY <1>1, InitBooks, NextBooks, PTL DEF Spec

\* Served one at a time, no request changes an APPROVED batch, its items or
\* their transactions.
THEOREM SerialFinal ==
    ASSUME Serial PROVE Spec => ApprovedIsFinal
<1>1. BooksInv /\ [Next]_vars => [KeepsApproved]_vars
  BY NextBooks
<1> QED BY <1>1, InitBooks, NextBooks, PTL DEF Spec, ApprovedIsFinal, KeepsApproved

\* Served one at a time, no upload loses an attachment of another.
THEOREM SerialAttachments ==
    ASSUME Serial PROVE Spec => AttachmentsKept
<1>1. BooksInv /\ [Next]_vars => [KeepsFiles]_vars
  BY NextBooks
<1> QED BY <1>1, InitBooks, NextBooks, PTL DEF Spec, AttachmentsKept, KeepsFiles

-----------------------------------------------------------------------------
(* The refinement of the abstract ledger *)

\* The ledger as the tables show it.
LEMMA LedgerView ==
    /\ Ledger!ledgerVars =
         <<[b \in Batches |-> LedgerPhase(b)], [b \in Batches |-> ItemsOf(b)],
           {i \in ItemIds : txn[i].status = "PAID"}>>
    /\ Ledger!ledgerVars' =
         <<[b \in Batches |-> LedgerPhase(b)'], [b \in Batches |-> ItemsOf(b)'],
           {i \in ItemIds : txn'[i].status = "PAID"}>>
BY DEF Ledger!ledgerVars

\* The empty tables are the empty ledger.
LEMMA InitLedger == Init => Ledger!LedgerInit
<1> SUFFICES ASSUME Init PROVE Ledger!LedgerInit
  OBVIOUS
<1>1. [b \in Batches |-> LedgerPhase(b)] = [b \in Batches |-> "NONE"]
  BY DEF Init, LedgerPhase, EmptyBatch, Reviewable
<1>2. [b \in Batches |-> ItemsOf(b)] = [b \in Batches |-> {}]
  BY PayrollAssumption DEF Init, ItemsOf, NoItem
<1>3. {i \in ItemIds : txn[i].status = "PAID"} = {}
  BY DEF Init
<1> QED BY <1>1, <1>2, <1>3 DEF Ledger!LedgerInit

\* A step that moves no item, pays none and changes no phase is a stutter.
LEMMA LedgerStutter ==
    ASSUME \A i \in ItemIds : item'[i].batch = item[i].batch,
           \A i \in ItemIds : txn'[i].status = "PAID" <=> txn[i].status = "PAID",
           \A b \in Batches : LedgerPhase(b)' = LedgerPhase(b)
    PROVE  UNCHANGED Ledger!ledgerVars
<1>1. \A b \in Batches : ItemsOf(b)' = ItemsOf(b)
  BY DEF ItemsOf
<1> QED BY <1>1, LedgerView

\* createBatch is the ledger's Draft.
LEMMA DraftedLedger ==
    ASSUME BooksInv, NEW b \in Batches, NEW fresh \in SUBSET ItemIds, Drafted(b, fresh)
    PROVE  Ledger!LedgerNext
<1>0. Books /\ NoBatch \notin Batches
  BY PayrollAssumption DEF BooksInv
<1>1. LedgerPhase(b) \in {"NONE", "DRAFT"}
  BY DEF Drafted, LedgerPhase, Reviewable
<1>2. [c \in Batches |-> LedgerPhase(c)]' =
        [[c \in Batches |-> LedgerPhase(c)] EXCEPT ![b] = "DRAFT"]
  BY DEF Drafted, LedgerPhase, Reviewable
<1>3. \A i \in ItemIds : item'[i].batch = IF i \in fresh THEN b
                                          ELSE IF item[i].batch = b THEN NoBatch
                                          ELSE item[i].batch
  BY DEF Drafted, NoItem
<1>4. [c \in Batches |-> ItemsOf(c)]' =
        [[c \in Batches |-> ItemsOf(c)] EXCEPT ![b] = fresh]
  <2>1. ItemsOf(b)' = fresh
    BY <1>0, <1>3 DEF ItemsOf
  <2>2. \A c \in Batches : c # b => ItemsOf(c)' = ItemsOf(c)
    <3>1. \A i \in fresh : item[i].batch = NoBatch
      BY DEF Drafted
    <3> QED BY <1>0, <1>3, <3>1 DEF ItemsOf
  <2> QED BY <2>1, <2>2
<1>5. \A i \in ItemIds : txn'[i].status = "PAID" <=> txn[i].status = "PAID"
  <2> TAKE i \in ItemIds
  <2>1. CASE i \in fresh
    BY <1>0, <2>1 DEF Drafted, Books, PaidIffApproved
  <2>2. CASE i \notin fresh /\ item[i].batch = b
    BY <1>0, <2>2 DEF Drafted, Books, PaidIffApproved
  <2>3. CASE i \notin fresh /\ item[i].batch # b
    BY <2>3 DEF Drafted
  <2> QED BY <2>1, <2>2, <2>3
<1>6. fresh # {} /\ fresh \cap Ledger!InUse = {}
  <2>1. \A i \in fresh : item[i].batch = NoBatch /\ txn[i].status = "NONE"
    BY <1>0 DEF Drafted, Books, PaidIffApproved
  <2>2. \A c \in Batches : fresh \cap ItemsOf(c) = {}
    BY <1>0, <2>1 DEF ItemsOf
  <2>3. \A i \in Ledger!InUse :
          (\E c \in Batches : i \in ItemsOf(c)) \/ txn[i].status = "PAID"
    BY DEF Ledger!InUse
  <2>4. fresh # {}
    BY DEF Drafted
  <2> QED BY <2>1, <2>2, <2>3, <2>4
<1>7. Ledger!Draft(b, fresh)
  BY <1>1, <1>2, <1>4, <1>5, <1>6 DEF Ledger!Draft
<1> QED BY <1>7 DEF Ledger!LedgerNext

\* approveBatch is the ledger's Approve when its step is final, else Forward.
LEMMA ApprovedLedger ==
    ASSUME BooksInv, NEW t \in Batches, NEW held \in SUBSET ItemIds,
           NEW new, NEW final \in BOOLEAN, Approved(t, held, new, final)
    PROVE  Ledger!LedgerNext
<1>0. Books /\ ItemsInRows /\ NoBatch \notin Batches
  BY PayrollAssumption DEF BooksInv, ItemInv
<1> DEFINE n == IF held # {} THEN new ELSE t
           phase == [c \in Batches |-> LedgerPhase(c)]
           content == [c \in Batches |-> ItemsOf(c)]
           outcome == IF final THEN "APPROVED" ELSE "REVIEW"
<1>1. n \in Batches /\ (held # {} => n # t /\ LedgerPhase(n) = "NONE")
  BY DEF Approved, LedgerPhase, Reviewable
<1>2. LedgerPhase(t) = "REVIEW" /\ held \subseteq ItemsOf(t)
  BY DEF Approved, LedgerPhase, ItemsOf
<1>3. held # {} => \A i \in ItemIds : item[i].batch # n
  BY <1>0 DEF Approved, ItemsInRows
<1>4. /\ LedgerPhase(t)' = outcome
      /\ held # {} => LedgerPhase(n)' = "DRAFT"
      /\ \A c \in Batches : c # t /\ (held # {} => c # n) => LedgerPhase(c)' = LedgerPhase(c)
  BY <1>1 DEF Approved, LedgerPhase, Reviewable, EmptyBatch
<1>5. \A i \in ItemIds : item'[i].batch = IF i \in held THEN n ELSE item[i].batch
  BY DEF Approved
<1>6. /\ ItemsOf(t)' = ItemsOf(t) \ held
      /\ held # {} => ItemsOf(n)' = held
      /\ \A c \in Batches : c # t /\ (held # {} => c # n) => ItemsOf(c)' = ItemsOf(c)
  <2> HIDE DEF n
  <2>1. held \subseteq {i \in ItemIds : item[i].batch = t}
    BY <1>2 DEF ItemsOf
  <2> QED BY <1>1, <1>3, <1>5, <2>1 DEF ItemsOf
<1>7. \A i \in ItemIds :
        txn'[i].status = "PAID" <=> txn[i].status = "PAID" \/ (final /\ i \in ItemsOf(t)')
  <2> TAKE i \in ItemIds
  <2>1. item[i].batch = t => txn[i].status # "PAID"
    BY <1>0 DEF Books, PaidIffApproved, Approved, Reviewable
  <2>2. CASE i \in held
    BY <1>6, <2>2 DEF Approved
  <2>3. CASE i \notin held /\ item[i].batch = t
    BY <1>6, <2>1, <2>3 DEF Approved, ItemsOf
  <2>4. CASE item[i].batch # t
    BY <1>6, <2>4 DEF Approved, ItemsOf
  <2> QED BY <2>2, <2>3, <2>4
<1>8. Ledger!MoveHeld(t, held, n, outcome)
  <2>1. /\ phase[t] = "REVIEW" /\ held \subseteq content[t]
        /\ held # {} => phase[n] = "NONE"
    BY <1>1, <1>2
  <2>2. phase' = [c \in Batches |-> IF c = t THEN outcome
                                    ELSE IF c = n /\ held # {} THEN "DRAFT"
                                    ELSE phase[c]]
    <3> HIDE DEF n, outcome
    <3> QED BY <1>1, <1>4
  <2>3. content' = [c \in Batches |-> IF c = t THEN content[t] \ held
                                      ELSE IF c = n /\ held # {} THEN held
                                      ELSE content[c]]
    <3> HIDE DEF n, outcome
    <3> QED BY <1>1, <1>6
  <2> HIDE DEF n, outcome
  <2> QED BY <2>1, <2>2, <2>3 DEF Ledger!MoveHeld
<1>9. CASE final
  <2>1. {i \in ItemIds : txn'[i].status = "PAID"} =
          {i \in ItemIds : txn[i].status = "PAID"} \cup content'[t]
    BY <1>7, <1>9 DEF ItemsOf
  <2>2. Ledger!Approve(t, held, n)
    BY <1>8, <1>9, <2>1 DEF Ledger!Approve
  <2> HIDE DEF n
  <2> QED BY <1>1, <2>2 DEF Ledger!LedgerNext
<1>10. CASE ~ final
  <2>1. {i \in ItemIds : txn'[i].status = "PAID"} = {i \in ItemIds : txn[i].status = "PAID"}
    BY <1>7, <1>10
  <2>2. Ledger!Forward(t, held, n)
    BY <1>8, <1>10, <2>1 DEF Ledger!Forward
  <2> HIDE DEF n
  <2> QED BY <1>1, <2>2 DEF Ledger!LedgerNext
<1> QED BY <1>9, <1>10

\* submitBatch is Submit, rejectBatch is Turn, and the others stutter.
LEMMA RowLedger ==
    ASSUME BooksInv, NEW r \in Requests,
           \/ CommitSubmitBatch(r) \/ CommitAddAttachments(r)
           \/ CommitReviewItem(r) \/ CommitRejectBatch(r)
    PROVE  Ledger!LedgerNext \/ UNCHANGED Ledger!ledgerVars
<1> DEFINE q == req[r]
           t == q.target
           phase == [c \in Batches |-> LedgerPhase(c)]
           content == [c \in Batches |-> ItemsOf(c)]
<1>0. /\ Books /\ TablesTypeOK /\ q \in WellFormed /\ Current(q)
      /\ batch \in [Batches -> Batch]
  BY DEF BooksInv, ItemInv, TypeInv, TablesTypeOK
<1>1. t \in Batches /\ batch[t] \in Batch
  BY <1>0, Shape DEF CommitSubmitBatch, CommitAddAttachments, CommitReviewItem,
                     CommitRejectBatch
<1>2. CASE CommitSubmitBatch(r)
  <2>1. /\ batch[t].status \in {"DRAFT", "REJECTED"} /\ UNCHANGED <<item, txn>>
        /\ batch' = [batch EXCEPT ![t] = [batch[t] EXCEPT !.status = "PENDING", !.step = 1]]
    BY <1>0, <1>2 DEF Current, CommitSubmitBatch
  <2> HIDE DEF t
  <2>2. LedgerPhase(t) \in {"DRAFT", "REJECTED"}
    BY <2>1 DEF LedgerPhase, Reviewable
  <2>3. batch'[t].status = "PENDING" /\ \A c \in Batches : c # t => batch'[c] = batch[c]
    BY <1>0, <1>1, <2>1 DEF Batch
  <2>4. phase' = [phase EXCEPT ![t] = "REVIEW"]
    BY <2>3 DEF LedgerPhase, Reviewable
  <2>5. content' = content
    BY <2>1 DEF ItemsOf
  <2>6. Ledger!Submit(t)
    BY <1>1, <2>1, <2>2, <2>4, <2>5 DEF Ledger!Submit
  <2> QED BY <1>1, <2>6 DEF Ledger!LedgerNext
<1>3. CASE CommitAddAttachments(r)
  <2>1. /\ batch' = [batch EXCEPT ![t] = [batch[t] EXCEPT !.files = q.files]]
        /\ UNCHANGED <<item, txn>>
    BY <1>3 DEF CommitAddAttachments
  <2> HIDE DEF t
  <2>2. \A b \in Batches : batch'[b].status = batch[b].status
    BY <1>0, <1>1, <2>1 DEF Batch
  <2> QED BY <2>1, <2>2, LedgerStutter DEF LedgerPhase
<1>4. CASE CommitReviewItem(r)
  <2>1. batch[t].status \in Reviewable /\ item[q.id].batch = t /\ q.id \in ItemIds
    BY <1>0, <1>4, Shape DEF Current, CommitReviewItem
  <2>2. RecalculatedStatus(q) \in Reviewable
    BY <2>1 DEF RecalculatedStatus, Reviewable
  <2>3. batch' = [batch EXCEPT ![t] = [batch[t] EXCEPT !.status = RecalculatedStatus(q)]]
    BY <1>4 DEF CommitReviewItem
  <2>4. \A i \in ItemIds : /\ item'[i].batch = item[i].batch
                           /\ i # q.id => txn'[i] = txn[i]
                           /\ txn'[i].status \in {txn[i].status, "REJECTED"}
    BY <1>0, <1>4, <2>1 DEF CommitReviewItem, TablesTypeOK, Item, Txn
  <2>5. txn[q.id].status # "PAID"
    BY <1>0, <1>1, <2>1, PayrollAssumption DEF Books, PaidIffApproved, Reviewable
  <2> HIDE DEF q, t
  <2>6. \A b \in Batches : LedgerPhase(b)' = LedgerPhase(b)
    BY <1>0, <1>1, <2>1, <2>2, <2>3 DEF LedgerPhase, Batch
  <2> QED BY <2>4, <2>5, <2>6, LedgerStutter
<1>5. CASE CommitRejectBatch(r)
  <2>1. batch[t].status \in Reviewable /\ UNCHANGED txn
    BY <1>0, <1>5 DEF Current, CommitRejectBatch
  <2>2. PICK row \in Batch :
             batch' = [batch EXCEPT ![t] = row] /\ row.status \in {"DRAFT", "REJECTED"}
    <3>1. CASE q.actor \in SuperAdmins
      <4>1. q.actor \in Actors
        BY <1>0, <1>5, Shape DEF CommitRejectBatch
      <4>2. [batch[t] EXCEPT !.status = "REJECTED", !.by = q.actor] \in Batch
        BY <1>1, <4>1 DEF Batch, BatchStatus, Terminal
      <4> QED BY <1>1, <1>5, <3>1, <4>2 DEF CommitRejectBatch, Batch
    <3>2. CASE q.actor \notin SuperAdmins
      <4>1. "DRAFT" \in BatchStatus /\ 1 \in 1 .. 2
        BY DEF BatchStatus
      <4>2. Returned(batch[t]) \in Batch
        BY <1>1, <4>1, RowFields, EmptyBatchType DEF Returned, EmptyBatch, Batch
      <4>3. Returned(batch[t]).status = "DRAFT"
        BY <1>1 DEF Returned, Batch
      <4> QED BY <1>1, <1>5, <3>2, <4>2, <4>3 DEF CommitRejectBatch
    <3> QED BY <3>1, <3>2
  <2>3. \A i \in ItemIds : item'[i].batch = item[i].batch
    BY <1>0, <1>5 DEF CommitRejectBatch, Reopened, TablesTypeOK, Item
  <2> HIDE DEF q, t
  <2>4. LedgerPhase(t) = "REVIEW"
    BY <2>1 DEF LedgerPhase
  <2>5. phase' = [phase EXCEPT ![t] = row.status]
    <3>1. batch'[t] = row /\ \A c \in Batches : c # t => batch'[c] = batch[c]
      BY <1>0, <1>1, <2>2
    <3>2. \A c \in Batches : c = t => LedgerPhase(c)' = row.status
      BY <2>2, <3>1 DEF LedgerPhase, Reviewable
    <3>3. \A c \in Batches : c # t => LedgerPhase(c)' = LedgerPhase(c)
      BY <3>1 DEF LedgerPhase
    <3> QED BY <1>1, <3>2, <3>3
  <2>6. content' = content
    BY <2>3 DEF ItemsOf
  <2>7. Ledger!Turn(t, row.status)
    BY <1>1, <2>1, <2>4, <2>5, <2>6 DEF Ledger!Turn
  <2> QED BY <1>1, <2>2, <2>7 DEF Ledger!LedgerNext
<1> QED BY <1>2, <1>3, <1>4, <1>5

\* Served one at a time, every step of payroll is a step of the ledger or
\* leaves it alone.
LEMMA NextLedger ==
    BooksInv /\ [Next]_vars => [Ledger!LedgerNext]_(Ledger!ledgerVars)
<1> SUFFICES ASSUME BooksInv, [Next]_vars
             PROVE  Ledger!LedgerNext \/ UNCHANGED Ledger!ledgerVars
  OBVIOUS
<1>1. ASSUME NEW r \in Requests, CommitCreateBatch(r) PROVE Ledger!LedgerNext
  BY <1>1, CreateEffect, DraftedLedger
<1>2. ASSUME NEW r \in Requests, CommitApproveBatch(r) PROVE Ledger!LedgerNext
  BY <1>2, ApproveEffect, ApprovedLedger
<1>3. CASE UNCHANGED <<batch, item, txn>>
  BY <1>3, LedgerStutter DEF LedgerPhase
<1> QED BY <1>1, <1>2, <1>3, RowLedger DEF Next, vars, payrollVars, ApproversMove,
     CheckCreateBatch, ReadEmployees, FindDraft, BeginCreateBatch, CheckSubmitBatch,
     CheckAddAttachments, CheckReviewItem, BeginReviewItem, CheckApproveBatch,
     CheckRejectBatch, BeginApproveBatch, Abort

\* Served one at a time, payroll implements the ledger: an item is in one batch
\* at a time and is paid in the one step that approves its batch.
THEOREM SerialImplementsLedger ==
    ASSUME Serial PROVE Spec => ImplementsLedger
BY InitLedger, NextLedger, InitBooks, NextBooks, PTL
   DEF Spec, ImplementsLedger, Ledger!LedgerSpec

-----------------------------------------------------------------------------
(* Contracts: whom createBatch takes up *)

\* createBatch has paused the expired contracts and none has expired since.
Swept == \A r \in Requests : req[r].op = "createRead" => Expired = {}

SweptInv == TypeInv /\ Swept

\* The request slot a step writes, and what may be in it afterwards.
LEMMA RequestStep ==
    ASSUME TypeInv, NEW r \in Requests,
           \/ \E b \in Batches \cup {NoBatch} : FindDraft(r, b)
           \/ BeginCreateBatch(r)
           \/ CommitCreateBatch(r)
           \/ \E b \in Batches : CheckSubmitBatch(r, b)
           \/ CommitSubmitBatch(r)
           \/ \E b \in Batches, files \in SUBSET Files : CheckAddAttachments(r, b, files)
           \/ CommitAddAttachments(r)
           \/ \E a \in Actors, i \in ItemIds, v \in {"APPROVED", "REJECTED"} :
                CheckReviewItem(r, a, i, v)
           \/ BeginReviewItem(r) \/ CommitReviewItem(r)
           \/ \E a \in Actors, b \in Batches :
                CheckApproveBatch(r, a, b) \/ CheckRejectBatch(r, a, b)
           \/ BeginApproveBatch(r) \/ CommitApproveBatch(r)
           \/ CommitRejectBatch(r)
           \/ Abort(r)
    PROVE  /\ \A s \in Requests : s # r => req'[s] = req[s]
           /\ req'[r].op \notin {"createRead", "create"}
           /\ UNCHANGED contractVars
<1> DEFINE Only(q) == /\ req' = [req EXCEPT ![r] = q]
                      /\ q.op \notin {"createRead", "create"}
                      /\ UNCHANGED contractVars
<1>0. req \in [Requests -> WellFormed]
  BY DEF TypeInv
<1>1. ASSUME NEW q, Only(q)
      PROVE /\ \A s \in Requests : s # r => req'[s] = req[s]
            /\ req'[r].op \notin {"createRead", "create"}
            /\ UNCHANGED contractVars
  BY <1>0, <1>1
<1>2. CASE \/ CommitCreateBatch(r) \/ CommitSubmitBatch(r) \/ CommitAddAttachments(r)
           \/ CommitReviewItem(r) \/ CommitApproveBatch(r) \/ CommitRejectBatch(r)
           \/ Abort(r)
  <2>1. Only(Idle)
    BY <1>2 DEF CommitCreateBatch, CommitSubmitBatch, CommitAddAttachments,
         CommitReviewItem, CommitApproveBatch, CommitRejectBatch, Abort, Idle
  <2> HIDE DEF Only
  <2> QED BY <1>1, <2>1
<1>3. ASSUME NEW b \in Batches \cup {NoBatch}, FindDraft(r, b) PROVE \E q : Only(q)
  BY <1>3 DEF FindDraft
<1>4. CASE BeginCreateBatch(r)
  <2>1. \E q : Only(q)
    BY <1>4 DEF BeginCreateBatch
  <2> HIDE DEF Only
  <2> QED BY <1>1, <2>1
<1>5. ASSUME NEW b \in Batches, CheckSubmitBatch(r, b) PROVE \E q : Only(q)
  BY <1>5 DEF CheckSubmitBatch
<1>6. ASSUME NEW b \in Batches, NEW files \in SUBSET Files, CheckAddAttachments(r, b, files)
      PROVE \E q : Only(q)
  BY <1>6 DEF CheckAddAttachments
<1>7. ASSUME NEW a \in Actors, NEW i \in ItemIds, NEW v \in {"APPROVED", "REJECTED"},
             CheckReviewItem(r, a, i, v)
      PROVE \E q : Only(q)
  BY <1>7 DEF CheckReviewItem
<1>8. CASE BeginReviewItem(r)
  <2>1. \E q : Only(q)
    BY <1>8 DEF BeginReviewItem
  <2> HIDE DEF Only
  <2> QED BY <1>1, <2>1
<1>9. ASSUME NEW a \in Actors, NEW b \in Batches,
             CheckApproveBatch(r, a, b) \/ CheckRejectBatch(r, a, b)
      PROVE \E q : Only(q)
  BY <1>9 DEF CheckApproveBatch, CheckRejectBatch
<1>10. CASE BeginApproveBatch(r)
  <2>1. \E q : Only(q)
    BY <1>10 DEF BeginApproveBatch
  <2> HIDE DEF Only
  <2> QED BY <1>1, <2>1
<1> HIDE DEF Only
<1> QED BY <1>1, <1>2, <1>3, <1>4, <1>5, <1>6, <1>7, <1>8, <1>9, <1>10

\* Pausing employees makes nobody's contract an expired one.
LEMMA PausedExpired ==
    ASSUME TypeInv, NEW emps \in SUBSET Employees, staff' = Paused(emps)
    PROVE  Expired' = Expired \ emps
<1>1. staff \in [Employees -> [status : StaffStatus, ended : BOOLEAN]]
  BY DEF TypeInv, OthersTypeOK, ContractsTypeOK
<1>2. \A e \in Employees :
        /\ e \in emps => staff'[e].status = "PAUSED"
        /\ e \notin emps => staff'[e] = staff[e]
  BY <1>1 DEF Paused
<1> QED BY <1>2, WorkforceAssumption DEF Expired

\* ExpiredNotDrafted, of one step.
TakesUpUnexpired ==
    \A r \in Requests :
      (req[r].op = "createRead" /\ req'[r].op = "create") =>
        \A e \in req'[r].emps \cap Contracted : ~ staff[e].ended

\* Served one at a time, nothing expires between the sweep and the selection
\* of employees: the calendar is read once, and the nightly job only pauses.
LEMMA NextSwept ==
    ASSUME Serial
    PROVE  SweptInv /\ [Next]_vars => SweptInv' /\ TakesUpUnexpired
<1> SUFFICES ASSUME SweptInv, [Next]_vars PROVE SweptInv' /\ TakesUpUnexpired
  OBVIOUS
<1>0. TypeInv /\ TypeInv' /\ Swept /\ req \in [Requests -> WellFormed]
  BY NextType DEF SweptInv, TypeInv
<1> SUFFICES Swept' /\ TakesUpUnexpired
  BY <1>0 DEF SweptInv
<1>1. ASSUME NEW r \in Requests, CheckCreateBatch(r) PROVE Swept' /\ TakesUpUnexpired
  <2>1. Expired' = {}
    <3>1. Expired \in SUBSET Employees
      BY WorkforceAssumption DEF Expired
    <3> QED BY <1>0, <1>1, <3>1, PausedExpired DEF CheckCreateBatch
  <2>2. \A s \in Requests : req[s].op = "createRead" => req'[s].op = "createRead"
    BY <1>0, <1>1 DEF CheckCreateBatch
  <2> QED BY <2>1, <2>2 DEF Swept, TakesUpUnexpired
<1>2. ASSUME NEW r \in Requests, NEW emps \in SUBSET Employees, ReadEmployees(r, emps)
      PROVE Swept' /\ TakesUpUnexpired
  <2>1. /\ req[r].op = "createRead" /\ UNCHANGED staff
        /\ \A s \in Requests : s # r => req'[s] = req[s]
        /\ req'[r].op # "createRead"
        /\ req'[r].op = "create" => req'[r].emps = emps
    BY <1>0, <1>2 DEF ReadEmployees, contractVars, Idle
  <2>2. \A e \in emps \cap Contracted : ~ staff[e].ended
    BY <1>0, <1>2, <2>1 DEF ReadEmployees, Swept, Expired
  <2> QED BY <1>0, <2>1, <2>2 DEF Swept, TakesUpUnexpired, Expired
<1>3. ASSUME UNCHANGED staff,
             \A s \in Requests : req'[s] = req[s] \/ req'[s].op \notin {"createRead", "create"}
      PROVE Swept' /\ TakesUpUnexpired
  BY <1>0, <1>3 DEF Swept, TakesUpUnexpired, Expired
<1>4. CASE CronNext /\ UNCHANGED payrollVars
  <2>1. CASE PauseExpired
    <3>1. sweep \in SUBSET Employees
      BY <1>0, WorkforceAssumption DEF TypeInv, OthersTypeOK, ContractsTypeOK
    <3>2. Expired' \subseteq Expired
      BY <1>0, <2>1, <3>1, PausedExpired DEF PauseExpired
    <3> QED BY <1>0, <1>4, <3>2 DEF Swept, TakesUpUnexpired, payrollVars
  <2>2. CASE UNCHANGED staff
    BY <1>3, <1>4, <2>2 DEF payrollVars
  <2> QED BY <1>4, <2>1, <2>2 DEF CronNext, FindExpired, SweepFails
<1>5. CASE PayrollQuiet /\ UNCHANGED payrollVars
  BY <1>5 DEF PayrollQuiet, payrollVars, Swept, TakesUpUnexpired, Idle
<1>6. CASE ApproversMove \/ UNCHANGED vars
  BY <1>3, <1>6 DEF ApproversMove, vars, payrollVars, contractVars
<1>7. ASSUME NEW r \in Requests, UNCHANGED contractVars,
             \A s \in Requests : s # r => req'[s] = req[s],
             req'[r].op \notin {"createRead", "create"}
      PROVE Swept' /\ TakesUpUnexpired
  BY <1>3, <1>7 DEF contractVars
<1> QED BY <1>0, <1>1, <1>2, <1>4, <1>5, <1>6, <1>7, RequestStep DEF Next

\* Served one at a time, createBatch takes up no contracted employee whose
\* contract has ended, though the nightly sweep may run at any moment.
THEOREM SerialExpired ==
    ASSUME Serial PROVE Spec => ExpiredNotDrafted
<1>1. Init => SweptInv
  BY InitType DEF Init, SweptInv, Swept, Idle
<1>2. SweptInv /\ [Next]_vars => [TakesUpUnexpired]_vars
  BY NextSwept
<1> QED BY <1>1, <1>2, NextSwept, PTL DEF Spec, ExpiredNotDrafted, TakesUpUnexpired

-----------------------------------------------------------------------------
(* Savings: what payroll withholds is in the ledger *)

\* A deduction that is to add no ledger entry repeats one the ledger has.
DuesInLedger ==
    \A r \in Requests : req[r].op = "createTx" =>
      \A e \in Employees : due[r][e].id = 0 /\ due[r][e].amount # 0 =>
        req[r].target \in Batches /\ contrib[e][req[r].target] = due[r][e].amount

SavingsInv == BooksInv /\ SerialRemove /\ DuesInLedger /\ DeductionHasLedgerEntry

\* ContributionsImmutable, of one step.
KeepsContributions ==
    \A e \in Employees, b \in Batches :
      contrib[e][b] # 0 => contrib'[e][b] = contrib[e][b]

\* A step that writes no ledger entry and gives no item another deduction.
LEMMA SavingsKept ==
    ASSUME SavingsInv, BooksInv', KeepsContributions, SerialRemove', DuesInLedger',
           \A i \in ItemIds : /\ txn'[i].ded = txn[i].ded
                              /\ item'[i].batch # NoBatch => item[i].batch # NoBatch
    PROVE  SavingsInv'
<1>1. DeductionHasLedgerEntry'
  <2> SUFFICES ASSUME NEW i \in ItemIds, item'[i].batch # NoBatch, txn'[i].ded # 0
               PROVE \E b \in Batches : contrib'[i[1]][b] = txn'[i].ded
    BY DEF DeductionHasLedgerEntry
  <2>1. PICK b \in Batches : contrib[i[1]][b] = txn[i].ded
    BY DEF SavingsInv, DeductionHasLedgerEntry
  <2>2. i[1] \in Employees
    BY DEF ItemIds
  <2> QED BY <2>1, <2>2 DEF KeepsContributions
<1> QED BY <1>1 DEF SavingsInv

\* A payroll step other than createBatch's transaction, and not its snapshot.
LEMMA PayrollSavings ==
    ASSUME SavingsInv, BooksInv',
           \A i \in ItemIds : /\ txn'[i].ded = txn[i].ded
                              /\ item'[i].batch # NoBatch => item[i].batch # NoBatch,
           UNCHANGED <<contrib, mreq>>,
           \A s \in Requests : req'[s].op # "createTx" \/
                               (req'[s] = req[s] /\ due'[s] = due[s])
    PROVE  SavingsInv' /\ KeepsContributions
<1>1. KeepsContributions
  BY DEF KeepsContributions
<1>2. SerialRemove'
  BY DEF SavingsInv, SerialRemove, HasContributions
<1>3. DuesInLedger'
  BY DEF SavingsInv, DuesInLedger
<1> QED BY <1>1, <1>2, <1>3, SavingsKept

\* What each commit but createBatch's leaves of items and transactions.
LEMMA CommitsKeepDeductions ==
    ASSUME TablesTypeOK, NEW r \in Requests, req[r] \in WellFormed,
           \/ CommitSubmitBatch(r) \/ CommitAddAttachments(r) \/ CommitReviewItem(r)
           \/ CommitApproveBatch(r) \/ CommitRejectBatch(r)
    PROVE  \A i \in ItemIds : /\ txn'[i].ded = txn[i].ded
                              /\ item'[i].batch # NoBatch => item[i].batch # NoBatch
<1>0. item \in [ItemIds -> Item] /\ txn \in [ItemIds -> Txn]
  BY DEF TablesTypeOK
<1>1. CASE CommitSubmitBatch(r) \/ CommitAddAttachments(r)
  BY <1>1 DEF CommitSubmitBatch, CommitAddAttachments
<1>2. CASE CommitReviewItem(r)
  BY <1>0, <1>2 DEF CommitReviewItem, Item, Txn
<1>3. CASE CommitApproveBatch(r)
  BY <1>0, <1>3 DEF CommitApproveBatch, Item, Txn
<1>4. CASE CommitRejectBatch(r)
  BY <1>0, <1>4 DEF CommitRejectBatch, Reopened, Item
<1> QED BY <1>1, <1>2, <1>3, <1>4

\* createBatch's snapshot: what is due and adds no entry is in the ledger.
LEMMA BeginSavings ==
    ASSUME Serial, SavingsInv, BooksInv', NEW r \in Requests, BeginCreateBatch(r)
    PROVE  SavingsInv' /\ KeepsContributions
<1> DEFINE t == req[r].target
<1>0. /\ BooksInv /\ IkiminaTypeOK /\ req \in [Requests -> WellFormed]
      /\ req[r].emps \in SUBSET Employees
  BY Shape DEF SavingsInv, BooksInv, ItemInv, TypeInv, OthersTypeOK, LedgerInv,
               BeginCreateBatch
<1>1. /\ \A s \in Requests : s # r => req'[s] = Idle
      /\ req'[r].target = t
      /\ due'[r] = Dues(t, req[r].emps)
      /\ UNCHANGED <<item, txn, contrib, mreq>>
  <2>1. req[r].op # "idle"
    BY DEF BeginCreateBatch
  <2>2. \A s \in Requests : s # r => req[s] = Idle
    BY <1>0, <2>1, Alone
  <2> QED BY <1>0, <2>2 DEF BeginCreateBatch, readDues, IkiminaTypeOK
<1>2. ASSUME NEW e \in Employees, due'[r][e].id = 0, due'[r][e].amount # 0
      PROVE t \in Batches /\ contrib[e][t] = due'[r][e].amount
  <2>1. due'[r][e] = IF e \in ActiveMembers(req[r].emps) THEN DueOf(t, e) ELSE NothingDue
    BY <1>1 DEF Dues
  <2>2. e \in ActiveMembers(req[r].emps)
    BY <1>2, <2>1 DEF NothingDue
  <2>3. membership[e].id > 0 /\ membership[e].id # 0
    BY <1>0, <2>2 DEF ActiveMembers, IkiminaTypeOK, Membership
  <2> QED BY <1>2, <2>1, <2>2, <2>3 DEF DueOf
<1>3. DuesInLedger'
  <2> SUFFICES ASSUME NEW s \in Requests, req'[s].op = "createTx", NEW e \in Employees,
                      due'[s][e].id = 0, due'[s][e].amount # 0
               PROVE req'[s].target \in Batches
                     /\ contrib'[e][req'[s].target] = due'[s][e].amount
    BY DEF DuesInLedger
  <2>1. s = r
    BY <1>1 DEF Idle
  <2> QED BY <1>1, <1>2, <2>1
<1>4. KeepsContributions /\ SerialRemove'
  BY <1>1 DEF KeepsContributions, SavingsInv, SerialRemove, HasContributions
<1> QED BY <1>1, <1>3, <1>4, SavingsKept

\* createBatch's transaction: every new item's deduction is in the ledger.
LEMMA CreateSavings ==
    ASSUME Serial, SavingsInv, BooksInv', NEW r \in Requests, CommitCreateBatch(r)
    PROVE  SavingsInv' /\ KeepsContributions
<1> DEFINE q == req[r]
           b == IF q.target = NoBatch THEN NewBatch ELSE q.target
           fresh == FreshItems(q.emps)
<1>0. /\ BooksInv /\ IkiminaTypeOK /\ TablesTypeOK /\ q \in WellFormed
      /\ req \in [Requests -> WellFormed]
  BY DEF SavingsInv, BooksInv, ItemInv, TypeInv, OthersTypeOK, LedgerInv
<1>1. q.op = "createTx" /\ b \in Batches /\ deductForBatch(r, b) /\ UNCHANGED mreq
  BY <1>0, Shape, NewBatchUnused DEF CommitCreateBatch
<1>2. KeepsContributions
  BY <1>0, <1>1, DeductFacts DEF KeepsContributions
<1>3. MembershipQuiet
  BY <1>0, <1>1, Alone
<1>4. SerialRemove'
  BY <1>1, <1>3 DEF MembershipQuiet, SerialRemove, IdleM
<1>5. DuesInLedger'
  <2>1. \A s \in Requests : req'[s] = Idle
    BY <1>0, <1>1, StaysAlone DEF CommitCreateBatch
  <2> QED BY <2>1 DEF DuesInLedger, Idle
<1>6. \A e \in Employees : due[r][e].amount # 0 =>
        \E c \in Batches : contrib'[e][c] = due[r][e].amount
  <2> TAKE e \in Employees
  <2> HAVE due[r][e].amount # 0
  <2>1. CASE due[r][e].id = 0
    <3>1. q.target \in Batches /\ contrib[e][q.target] = due[r][e].amount
      BY <1>1, <2>1 DEF SavingsInv, DuesInLedger
    <3> QED BY <1>2, <3>1 DEF KeepsContributions
  <2>2. CASE due[r][e].id # 0
    BY <1>0, <1>1, <2>2 DEF deductForBatch, IkiminaTypeOK
  <2> QED BY <2>1, <2>2
<1>7. /\ item' = Replaced(b, fresh)
      /\ txn' = [i \in ItemIds |->
                   IF i \in fresh
                   THEN [status |-> "PENDING", ded |-> due[r][i[1]].amount]
                   ELSE IF i \in q.old THEN [txn[i] EXCEPT !.status = "NONE"]
                   ELSE txn[i]]
  BY DEF CommitCreateBatch
<1>8. DeductionHasLedgerEntry'
  <2> SUFFICES ASSUME NEW i \in ItemIds, item'[i].batch # NoBatch, txn'[i].ded # 0
               PROVE \E c \in Batches : contrib'[i[1]][c] = txn'[i].ded
    BY DEF DeductionHasLedgerEntry
  <2>0. i[1] \in Employees
    BY DEF ItemIds
  <2> HIDE DEF q, b, fresh
  <2>1. CASE i \in fresh
    BY <1>6, <1>7, <2>0, <2>1
  <2>2. CASE i \notin fresh
    <3>1. txn'[i].ded = txn[i].ded
      BY <1>0, <1>7, <2>2 DEF TablesTypeOK, Txn
    <3>2. item[i].batch # NoBatch
      BY <1>7, <2>2 DEF Replaced, NoItem
    <3>3. PICK c \in Batches : contrib[i[1]][c] = txn[i].ded
      BY <3>1, <3>2 DEF SavingsInv, DeductionHasLedgerEntry
    <3> QED BY <1>2, <2>0, <3>1, <3>3 DEF KeepsContributions
  <2> QED BY <2>1, <2>2
<1> QED BY <1>2, <1>4, <1>5, <1>8 DEF SavingsInv

\* A membership request, served while no payroll request runs, writes no entry,
\* and removes a membership only after it has found no entry of it.
LEMMA MembershipSavings ==
    ASSUME SavingsInv, BooksInv', PayrollQuiet, MembershipNext, UNCHANGED payrollVars
    PROVE  SavingsInv' /\ KeepsContributions
<1>0. IkiminaTypeOK /\ SerialRemove
  BY DEF SavingsInv, BooksInv, ItemInv, TypeInv, OthersTypeOK, LedgerInv
<1>1. ASSUME NEW e \in Employees, NEW a \in Amounts, NEW s \in {"ACTIVE", "INACTIVE"},
             CreateMembership(e, a, s)
      PROVE SerialRemove' /\ KeepsContributions
  BY <1>0, <1>1 DEF CreateMembership, SerialRemove, HasContributions, KeepsContributions
<1>2. ASSUME NEW r \in MRequests, NEW e \in Employees,
             NEW touches \in SUBSET {"amount", "state"},
             NEW a \in Amounts, NEW s \in {"ACTIVE", "INACTIVE"},
             CheckUpdateMembership(r, e, touches, a, s)
      PROVE SerialRemove' /\ KeepsContributions
  <2>1. /\ \A x \in MRequests : x # r => mreq'[x] = mreq[x]
        /\ mreq'[r].op = "update" /\ contrib' = contrib
    BY <1>0, <1>2 DEF CheckUpdateMembership, IkiminaTypeOK
  <2> QED BY <1>0, <2>1 DEF SerialRemove, HasContributions, KeepsContributions
<1>3. ASSUME NEW r \in MRequests, NEW e \in Employees, CheckRemoveMembership(r, e)
      PROVE SerialRemove' /\ KeepsContributions
  <2>1. /\ \A x \in MRequests : x # r => mreq'[x] = mreq[x]
        /\ mreq'[r].emp = e /\ contrib' = contrib /\ ~ HasContributions(e)
    BY <1>0, <1>3 DEF CheckRemoveMembership, IkiminaTypeOK
  <2> QED BY <1>0, <2>1 DEF SerialRemove, HasContributions, KeepsContributions
<1>4. ASSUME NEW r \in MRequests,
             CommitUpdateMembership(r) \/ AbortMembership(r) \/ CommitRemoveMembership(r)
      PROVE SerialRemove' /\ KeepsContributions
  <2>1. /\ \A x \in MRequests : x # r => mreq'[x] = mreq[x]
        /\ mreq'[r].op # "remove"
    BY <1>0, <1>4 DEF CommitUpdateMembership, AbortMembership, CommitRemoveMembership,
                      IkiminaTypeOK, IdleM
  <2>2. \A e \in Employees, b \in Batches : contrib'[e][b] = contrib[e][b]
    BY <1>0, <1>4 DEF CommitUpdateMembership, AbortMembership, CommitRemoveMembership,
                      IkiminaTypeOK, SerialRemove, HasContributions, NoContributions
  <2>3. \A x \in MRequests : mreq[x].op = "remove" => mreq[x].emp \in Employees
    BY <1>0, RequestShape
  <2> QED BY <1>0, <2>1, <2>2, <2>3 DEF SerialRemove, HasContributions, KeepsContributions
<1>5. SerialRemove' /\ KeepsContributions
  BY <1>1, <1>2, <1>3, <1>4 DEF MembershipNext
<1>6. DuesInLedger'
  BY DEF PayrollQuiet, payrollVars, DuesInLedger, Idle
<1> QED BY <1>5, <1>6, SavingsKept DEF payrollVars

\* Served one at a time, every step keeps the deductions in the ledger and
\* changes no entry of it.
LEMMA NextSavings ==
    ASSUME Serial
    PROVE  SavingsInv /\ [Next]_vars => SavingsInv' /\ KeepsContributions
<1> SUFFICES ASSUME SavingsInv, [Next]_vars PROVE SavingsInv' /\ KeepsContributions
  OBVIOUS
<1>0. /\ BooksInv' /\ TablesTypeOK /\ TypeInv /\ BooksInv
      /\ req \in [Requests -> WellFormed]
  BY NextBooks DEF SavingsInv, BooksInv, ItemInv, TypeInv
<1>1. ASSUME NEW r \in Requests,
             \/ CommitSubmitBatch(r) \/ CommitAddAttachments(r) \/ CommitReviewItem(r)
             \/ CommitApproveBatch(r) \/ CommitRejectBatch(r)
      PROVE SavingsInv' /\ KeepsContributions
  <2>1. req' = [req EXCEPT ![r] = Idle] /\ UNCHANGED ikiminaVars
    BY <1>1 DEF CommitSubmitBatch, CommitAddAttachments, CommitReviewItem,
                CommitApproveBatch, CommitRejectBatch
  <2>2. \A s \in Requests : req'[s].op # "createTx" \/
                            (req'[s] = req[s] /\ due'[s] = due[s])
    BY <1>0, <2>1 DEF ikiminaVars, Idle
  <2>3. \A i \in ItemIds : /\ txn'[i].ded = txn[i].ded
                           /\ item'[i].batch # NoBatch => item[i].batch # NoBatch
    BY <1>0, <1>1, CommitsKeepDeductions
  <2> QED BY <1>0, <2>1, <2>2, <2>3, PayrollSavings DEF ikiminaVars
<1>2. ASSUME NEW r \in Requests, NEW q, q.op # "createTx", req' = [req EXCEPT ![r] = q],
             UNCHANGED <<item, txn, contrib, mreq>>,
             \A s \in Requests : s # r => due'[s] = due[s]
      PROVE SavingsInv' /\ KeepsContributions
  <2>1. \A s \in Requests : req'[s].op # "createTx" \/
                            (req'[s] = req[s] /\ due'[s] = due[s])
    BY <1>0, <1>2
  <2> QED BY <1>0, <1>2, <2>1, PayrollSavings
<1>3. ASSUME NEW r \in Requests,
             \/ CheckCreateBatch(r)
             \/ \E emps \in SUBSET Employees : ReadEmployees(r, emps)
             \/ \E b \in Batches \cup {NoBatch} : FindDraft(r, b)
      PROVE SavingsInv' /\ KeepsContributions
  BY <1>2, <1>3 DEF CheckCreateBatch, ReadEmployees, FindDraft, ikiminaVars, Idle
<1>4. ASSUME NEW r \in Requests, NEW b \in Batches,
             \/ CheckSubmitBatch(r, b)
             \/ \E files \in SUBSET Files : CheckAddAttachments(r, b, files)
             \/ \E a \in Actors : CheckApproveBatch(r, a, b) \/ CheckRejectBatch(r, a, b)
      PROVE SavingsInv' /\ KeepsContributions
  BY <1>2, <1>4 DEF CheckSubmitBatch, CheckAddAttachments, CheckApproveBatch,
                    CheckRejectBatch, ikiminaVars
<1>5. ASSUME NEW r \in Requests,
             \/ \E a \in Actors, i \in ItemIds, v \in {"APPROVED", "REJECTED"} :
                  CheckReviewItem(r, a, i, v)
             \/ BeginReviewItem(r)
             \/ BeginApproveBatch(r)
      PROVE SavingsInv' /\ KeepsContributions
  BY <1>2, <1>5 DEF CheckReviewItem, BeginReviewItem, BeginApproveBatch, ikiminaVars
<1>6. ASSUME NEW r \in Requests, Abort(r) PROVE SavingsInv' /\ KeepsContributions
  <2>1. \A s \in Requests : s # r => due'[s] = due[s]
    BY <1>0, <1>6 DEF Abort, TypeInv, OthersTypeOK, LedgerInv, IkiminaTypeOK
  <2> QED BY <1>2, <1>6, <2>1 DEF Abort, Idle
<1>7. CASE UNCHANGED <<item, txn, req, ikiminaVars>>
  BY <1>0, <1>7, PayrollSavings DEF ikiminaVars
<1>8. CASE PayrollQuiet /\ MembershipNext /\ UNCHANGED payrollVars
  BY <1>0, <1>8, MembershipSavings
<1>9. ASSUME NEW r \in Requests, BeginCreateBatch(r) \/ CommitCreateBatch(r)
      PROVE SavingsInv' /\ KeepsContributions
  BY <1>0, <1>9, BeginSavings, CreateSavings
<1>10. CASE ApproversMove \/ UNCHANGED vars \/ UNCHANGED <<payrollVars, ikiminaVars>>
  BY <1>7, <1>10 DEF ApproversMove, vars, payrollVars
<1>11. CASE PayrollQuiet /\ MembershipNext /\ UNCHANGED <<payrollVars, due, contractVars>>
  BY <1>8, <1>11
<1> QED BY <1>1, <1>3, <1>4, <1>5, <1>6, <1>9, <1>10, <1>11 DEF Next

\* Nothing is withheld before the first batch.
LEMMA InitSavings == Init => SavingsInv
<1> SUFFICES ASSUME Init PROVE SavingsInv
  OBVIOUS
<1>1. SerialRemove
  BY DEF Init, IkiminaInit, SerialRemove, IdleM
<1>2. DuesInLedger /\ DeductionHasLedgerEntry
  BY DEF Init, DuesInLedger, DeductionHasLedgerEntry, Idle, NoItem
<1> QED BY <1>1, <1>2, InitBooks DEF SavingsInv

\* Served one at a time, whatever payroll withheld from an item for Ikimina is
\* in the employee's ledger, also after the draft has been regenerated.
THEOREM SerialDeductions ==
    ASSUME Serial PROVE Spec => []DeductionHasLedgerEntry
<1>1. SavingsInv => DeductionHasLedgerEntry
  BY DEF SavingsInv
<1> QED BY <1>1, InitSavings, NextSavings, PTL DEF Spec

\* Served one at a time and together with payroll's own requests, no ledger
\* entry is ever changed or deleted.
THEOREM SerialPayrollHistory ==
    ASSUME Serial PROVE Spec => ContributionsImmutable
<1>1. SavingsInv /\ [Next]_vars => [KeepsContributions]_ikiminaVars
  BY NextSavings
<1> QED BY <1>1, InitSavings, NextSavings, PTL
        DEF Spec, ContributionsImmutable, KeepsContributions

=============================================================================
