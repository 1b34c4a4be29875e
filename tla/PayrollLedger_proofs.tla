------------------------ MODULE PayrollLedger_proofs ------------------------
(* Safety of the abstract ledger, for every set of batches and items. *)
EXTENDS PayrollLedger, TLAPS

LedgerInv == LedgerTypeOK /\ OneBatchPerItem /\ PaidIsApproved

\* The empty ledger satisfies the invariant.
LEMMA LedgerInitInv == LedgerInit => LedgerInv
BY DEF LedgerInit, LedgerInv, LedgerTypeOK, Phases, OneBatchPerItem, PaidIsApproved

\* Moving held items keeps every item in one batch and changes no approved one.
LEMMA MoveHeldFacts ==
    ASSUME LedgerInv,
           NEW b \in Batches, NEW new \in Batches, NEW held \in SUBSET Items,
           NEW outcome \in {"REVIEW", "APPROVED"}, MoveHeld(b, held, new, outcome)
    PROVE  /\ phase' \in [Batches -> Phases]
           /\ content' \in [Batches -> SUBSET Items]
           /\ OneBatchPerItem'
           /\ \A c \in Batches \ {b} :
                /\ phase'[c] = "APPROVED" <=> phase[c] = "APPROVED"
                /\ phase[c] = "APPROVED" => content'[c] = content[c]
           /\ phase[b] = "REVIEW" /\ phase'[b] = outcome
<1> USE DEF LedgerInv, LedgerTypeOK, MoveHeld
<1>1. phase' \in [Batches -> Phases]
  BY DEF Phases
<1>2. content' \in [Batches -> SUBSET Items]
  OBVIOUS
<1>3. held # {} => new # b
  OBVIOUS
<1>4. OneBatchPerItem'
  BY <1>3 DEF OneBatchPerItem
<1>5. \A c \in Batches \ {b} :
        /\ phase'[c] = "APPROVED" <=> phase[c] = "APPROVED"
        /\ phase[c] = "APPROVED" => content'[c] = content[c]
  OBVIOUS
<1> QED BY <1>1, <1>2, <1>4, <1>5

\* Every step of the ledger preserves the invariant.
LEMMA LedgerNextInv == LedgerInv /\ [LedgerNext]_ledgerVars => LedgerInv'
<1> SUFFICES ASSUME LedgerInv, [LedgerNext]_ledgerVars PROVE LedgerInv'
  OBVIOUS
<1>1. CASE UNCHANGED ledgerVars
  BY <1>1 DEF ledgerVars, LedgerInv, LedgerTypeOK, OneBatchPerItem, PaidIsApproved
<1>2. ASSUME NEW b \in Batches, NEW items \in SUBSET Items, Draft(b, items)
      PROVE LedgerInv'
  <2> USE <1>2 DEF Draft
  <2>1. LedgerTypeOK'
    BY DEF LedgerInv, LedgerTypeOK, Phases
  <2>2. OneBatchPerItem'
    BY DEF LedgerInv, LedgerTypeOK, OneBatchPerItem, InUse
  <2>3. PaidIsApproved'
    <3>1. \A c \in Batches : phase'[c] = "APPROVED" <=> phase[c] = "APPROVED"
      BY DEF LedgerInv, LedgerTypeOK
    <3>2. \A c \in Batches : phase[c] = "APPROVED" => content'[c] = content[c]
      BY DEF LedgerInv, LedgerTypeOK
    <3> QED BY <3>1, <3>2 DEF LedgerInv, PaidIsApproved
  <2> QED BY <2>1, <2>2, <2>3 DEF LedgerInv
<1>3. ASSUME NEW b \in Batches, Submit(b) PROVE LedgerInv'
  BY <1>3 DEF Submit, LedgerInv, LedgerTypeOK, Phases, OneBatchPerItem, PaidIsApproved
<1>4. ASSUME NEW b \in Batches, NEW o \in {"DRAFT", "REJECTED"}, Turn(b, o)
      PROVE LedgerInv'
  BY <1>4 DEF Turn, LedgerInv, LedgerTypeOK, Phases, OneBatchPerItem, PaidIsApproved
<1>5. ASSUME NEW b \in Batches, NEW new \in Batches, NEW held \in SUBSET Items,
             Forward(b, held, new)
      PROVE LedgerInv'
  <2>1. MoveHeld(b, held, new, "REVIEW") /\ paid' = paid
    BY <1>5 DEF Forward
  <2>2. PaidIsApproved'
    BY <2>1, MoveHeldFacts DEF LedgerInv, PaidIsApproved
  <2> QED BY <2>1, <2>2, MoveHeldFacts DEF LedgerInv, LedgerTypeOK
<1>6. ASSUME NEW b \in Batches, NEW new \in Batches, NEW held \in SUBSET Items,
             Approve(b, held, new)
      PROVE LedgerInv'
  <2>1. MoveHeld(b, held, new, "APPROVED") /\ paid' = paid \cup content'[b]
    BY <1>6 DEF Approve
  <2>2. PaidIsApproved'
    BY <2>1, MoveHeldFacts DEF LedgerInv, PaidIsApproved
  <2>3. paid' \subseteq Items
    BY <2>1, MoveHeldFacts DEF LedgerInv, LedgerTypeOK
  <2> QED BY <2>1, <2>2, <2>3, MoveHeldFacts DEF LedgerInv, LedgerTypeOK
<1> QED BY <1>1, <1>2, <1>3, <1>4, <1>5, <1>6 DEF LedgerNext

\* In the ledger no item is ever in two batches.
THEOREM LedgerOneBatch == LedgerSpec => []OneBatchPerItem
<1>1. LedgerInv => OneBatchPerItem
  BY DEF LedgerInv
<1> QED BY <1>1, LedgerInitInv, LedgerNextInv, PTL DEF LedgerSpec

\* What the ledger has paid is always exactly what it has approved.
THEOREM LedgerPaid == LedgerSpec => []PaidIsApproved
<1>1. LedgerInv => PaidIsApproved
  BY DEF LedgerInv
<1> QED BY <1>1, LedgerInitInv, LedgerNextInv, PTL DEF LedgerSpec

=============================================================================
