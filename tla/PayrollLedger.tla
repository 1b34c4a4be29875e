---------------------------- MODULE PayrollLedger ----------------------------
(***************************************************************************)
(* What payroll promises, with the review steps, the approvers and the     *)
(* transactions left out: a batch is drafted, submitted, and either        *)
(* approved or not; an item is in one batch at a time, and it is paid in   *)
(* the one step that approves its batch.                                   *)
(***************************************************************************)
EXTENDS Naturals

CONSTANTS Batches, Items

VARIABLES
    phase,    \* where each batch stands
    content,  \* the items of each batch
    paid      \* the items that have been paid

ledgerVars == <<phase, content, paid>>

Phases == {"NONE", "DRAFT", "REVIEW", "APPROVED", "REJECTED"}

\* Each batch has a phase and a set of items.
LedgerTypeOK ==
    /\ phase \in [Batches -> Phases]
    /\ content \in [Batches -> SUBSET Items]
    /\ paid \subseteq Items

LedgerInit ==
    /\ phase = [b \in Batches |-> "NONE"]
    /\ content = [b \in Batches |-> {}]
    /\ paid = {}

InUse == (UNION {content[b] : b \in Batches}) \cup paid

Draft(b, items) ==
    /\ phase[b] \in {"NONE", "DRAFT"}
    /\ items # {} /\ items \cap InUse = {}
    /\ phase' = [phase EXCEPT ![b] = "DRAFT"]
    /\ content' = [content EXCEPT ![b] = items]
    /\ UNCHANGED paid

Submit(b) ==
    /\ phase[b] \in {"DRAFT", "REJECTED"}
    /\ phase' = [phase EXCEPT ![b] = "REVIEW"]
    /\ UNCHANGED <<content, paid>>

Turn(b, outcome) ==
    /\ phase[b] = "REVIEW"
    /\ phase' = [phase EXCEPT ![b] = outcome]
    /\ UNCHANGED <<content, paid>>

\* The items held back leave b for a new draft; b goes on to outcome.
MoveHeld(b, held, new, outcome) ==
    /\ phase[b] = "REVIEW"
    /\ held \subseteq content[b]
    /\ held # {} => phase[new] = "NONE"
    /\ phase' = [c \in Batches |-> IF c = b THEN outcome
                                   ELSE IF c = new /\ held # {} THEN "DRAFT"
                                   ELSE phase[c]]
    /\ content' = [c \in Batches |-> IF c = b THEN content[b] \ held
                                     ELSE IF c = new /\ held # {} THEN held
                                     ELSE content[c]]

Forward(b, held, new) ==
    /\ MoveHeld(b, held, new, "REVIEW")
    /\ UNCHANGED paid

Approve(b, held, new) ==
    /\ MoveHeld(b, held, new, "APPROVED")
    /\ paid' = paid \cup content'[b]

LedgerNext ==
    \E b \in Batches :
      \/ \E items \in SUBSET Items : Draft(b, items)
      \/ Submit(b)
      \/ Turn(b, "DRAFT") \/ Turn(b, "REJECTED")
      \/ \E new \in Batches, held \in SUBSET Items :
           Forward(b, held, new) \/ Approve(b, held, new)

LedgerSpec == LedgerInit /\ [][LedgerNext]_ledgerVars

-----------------------------------------------------------------------------
\* No item is in two batches, so nothing can be approved in two places.
OneBatchPerItem ==
    \A b, c \in Batches : b # c => content[b] \cap content[c] = {}

\* Exactly the items of approved batches have been paid.
PaidIsApproved ==
    paid = UNION {content[b] : b \in {c \in Batches : phase[c] = "APPROVED"}}

=============================================================================
