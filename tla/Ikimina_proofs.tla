--------------------------- MODULE Ikimina_proofs ---------------------------
(* The savings ledger, for every number of employees, batches and requests. *)
EXTENDS Ikimina, TLAPS

\* A request that is going to remove a membership, served alone, has found the
\* ledger of its employee empty and no other request can have filled it.
SerialRemove ==
    \A r \in MRequests : mreq[r].op = "remove" => ~ HasContributions(mreq[r].emp)

\* With serial requests, at most one membership request is in flight.
SerialRequests ==
    \A r, s \in MRequests : (mreq[r] # IdleM /\ mreq[s] # IdleM) => r = s

LedgerInv == IkiminaTypeOK /\ LedgerOwned

\* What deductForBatch reads is well formed.
LEMMA DuesType ==
    ASSUME IkiminaTypeOK, NEW b, NEW emps \in SUBSET Employees
    PROVE  Dues(b, emps) \in [Employees -> Due]
<1>1. NothingDue \in Due
  BY IkiminaAssumption DEF NothingDue, Due
<1>2. \A e \in Employees : DueOf(b, e) \in Due
  BY IkiminaAssumption DEF IkiminaTypeOK, DueOf, Due, Membership
<1> QED BY <1>1, <1>2 DEF Dues

\* A slot without dues is well formed.
LEMMA NoDuesType == NoDues \in [Employees -> Due]
BY IkiminaAssumption DEF NoDues, NothingDue, Due

\* deductForBatch keeps the ledger well formed and adds entries for members
\* only; every entry already there keeps its amount.
LEMMA DeductFacts ==
    ASSUME IkiminaTypeOK, NEW r \in Requests, NEW b \in Batches, deductForBatch(r, b)
    PROVE  /\ contrib' \in [Employees -> [Batches -> Amounts \cup {0}]]
           /\ due' \in [Requests -> [Employees -> Due]]
           /\ \A e \in Employees, c \in Batches :
                contrib[e][c] # 0 => contrib'[e][c] = contrib[e][c]
           /\ \A e \in Employees : contrib'[e] # contrib[e] =>
                                     membership[e].state # "NONE"
<1>1. \A e \in Employees : due[r][e].amount \in Amounts \cup {0}
  BY DEF IkiminaTypeOK, Due
<1>2. contrib' \in [Employees -> [Batches -> Amounts \cup {0}]]
  BY <1>1 DEF deductForBatch, IkiminaTypeOK
<1>3. \A e \in Employees, c \in Batches :
        contrib[e][c] # 0 => contrib'[e][c] = contrib[e][c]
  BY DEF deductForBatch, IkiminaTypeOK
<1>4. \A e \in Employees : contrib'[e] # contrib[e] => membership[e].state # "NONE"
  BY DEF deductForBatch
<1>5. due' \in [Requests -> [Employees -> Due]]
  BY NoDuesType DEF deductForBatch, IkiminaTypeOK
<1> QED BY <1>2, <1>3, <1>4, <1>5

\* The initial tables are well formed.
LEMMA IkiminaInitInv == IkiminaInit => LedgerInv
<1> SUFFICES ASSUME IkiminaInit PROVE LedgerInv
  OBVIOUS
<1>1. membership \in [Employees -> Membership]
  BY IkiminaAssumption DEF IkiminaInit, Membership, MembershipStates
<1>2. mreq \in [MRequests -> MRequest]
  BY DEF IkiminaInit, MRequest, IdleM
<1>3. contrib \in [Employees -> [Batches -> Amounts \cup {0}]]
  BY DEF IkiminaInit, NoContributions
<1>4. LedgerOwned /\ \A e \in Employees : membership[e].state = "NONE"
  BY DEF IkiminaInit, LedgerOwned, HasContributions, NoContributions
<1>5. due \in [Requests -> [Employees -> Due]]
  BY NoDuesType DEF IkiminaInit
<1> QED BY <1>1, <1>2, <1>3, <1>4, <1>5 DEF LedgerInv, IkiminaTypeOK

\* The slot of a request that ends is idle and the others are untouched.
LEMMA IdleType ==
    ASSUME IkiminaTypeOK, NEW r \in MRequests, mreq' = [mreq EXCEPT ![r] = IdleM]
    PROVE  mreq' \in [MRequests -> MRequest]
BY DEF IkiminaTypeOK, MRequest, IdleM

\* The shape of a request on its way to an update or a removal.
LEMMA RequestShape ==
    ASSUME IkiminaTypeOK, NEW r \in MRequests
    PROVE  /\ mreq[r].op = "update" =>
                /\ mreq[r].emp \in Employees /\ mreq[r].id \in 1 .. MaxJoins
                /\ mreq[r].amount \in Amounts /\ mreq[r].state \in {"ACTIVE", "INACTIVE"}
           /\ mreq[r].op = "remove" => mreq[r].emp \in Employees
           /\ mreq[r].op \in {"idle", "update", "remove"}
           /\ mreq[r].op = "idle" <=> mreq[r] = IdleM
BY DEF IkiminaTypeOK, MRequest, IdleM

\* No membership request breaks the types or leaves entries without a member.
LEMMA MembershipNextInv ==
    LedgerInv /\ MembershipNext /\ UNCHANGED due => LedgerInv'
<1> SUFFICES ASSUME LedgerInv, MembershipNext, UNCHANGED due PROVE LedgerInv'
  OBVIOUS
<1> USE DEF LedgerInv
<1>1. ASSUME NEW e \in Employees, NEW a \in Amounts, NEW s \in {"ACTIVE", "INACTIVE"},
             CreateMembership(e, a, s)
      PROVE LedgerInv'
  <2>1. membership[e].id + 1 \in 1 .. MaxJoins
    BY <1>1, IkiminaAssumption DEF CreateMembership, IkiminaTypeOK, Membership
  <2>2. IkiminaTypeOK'
    BY <1>1, <2>1 DEF CreateMembership, IkiminaTypeOK, Membership, MembershipStates
  <2>3. LedgerOwned'
    BY <1>1 DEF CreateMembership, IkiminaTypeOK, LedgerOwned, HasContributions
  <2> QED BY <2>2, <2>3
<1>2. ASSUME NEW r \in MRequests, NEW e \in Employees,
             NEW touches \in SUBSET {"amount", "state"},
             NEW a \in Amounts, NEW s \in {"ACTIVE", "INACTIVE"},
             CheckUpdateMembership(r, e, touches, a, s)
      PROVE LedgerInv'
  <2> DEFINE q == [op |-> "update", emp |-> e, id |-> membership[e].id,
                   touches |-> touches,
                   amount |-> IF "amount" \in touches THEN a ELSE membership[e].amount,
                   state |-> IF "state" \in touches THEN s ELSE membership[e].state]
  <2>1. /\ membership[e].id \in 1 .. MaxJoins
        /\ membership[e].amount \in Amounts
        /\ membership[e].state \in {"ACTIVE", "INACTIVE"}
    BY <1>2, IkiminaAssumption
       DEF CheckUpdateMembership, IkiminaTypeOK, Membership, MembershipStates
  <2>2. q \in MRequest
    BY <2>1 DEF MRequest
  <2>3. mreq' = [mreq EXCEPT ![r] = q] /\ UNCHANGED <<membership, contrib>>
    BY <1>2 DEF CheckUpdateMembership
  <2> HIDE DEF q
  <2> QED BY <2>2, <2>3 DEF IkiminaTypeOK, LedgerOwned, HasContributions
<1>3. ASSUME NEW r \in MRequests, NEW e \in Employees, CheckRemoveMembership(r, e)
      PROVE LedgerInv'
  <2>1. membership[e].id \in 1 .. MaxJoins
    BY <1>3, IkiminaAssumption DEF CheckRemoveMembership, IkiminaTypeOK, Membership
  <2>2. [op |-> "remove", emp |-> e, id |-> membership[e].id] \in MRequest
    BY <2>1 DEF MRequest
  <2> QED BY <1>3, <2>2 DEF CheckRemoveMembership, IkiminaTypeOK, LedgerOwned,
                            HasContributions
<1>4. ASSUME NEW r \in MRequests, CommitUpdateMembership(r) PROVE LedgerInv'
  <2> DEFINE q == mreq[r]
  <2>1. /\ q.emp \in Employees /\ q.amount \in Amounts
        /\ q.state \in {"ACTIVE", "INACTIVE"}
    BY <1>4, RequestShape DEF CommitUpdateMembership
  <2>2. membership' = [membership EXCEPT ![q.emp] =
                         [id |-> membership[q.emp].id, state |-> q.state,
                          amount |-> q.amount]]
    BY <1>4 DEF CommitUpdateMembership
  <2>3. mreq' = [mreq EXCEPT ![r] = IdleM] /\ contrib' = contrib
    BY <1>4 DEF CommitUpdateMembership
  <2>4. mreq' \in [MRequests -> MRequest]
    BY <2>3, IdleType
  <2>5. membership[q.emp].id > 0
    BY <1>4, <2>1 DEF CommitUpdateMembership, IkiminaTypeOK
  <2> HIDE DEF q
  <2>6. membership' \in [Employees -> Membership]
    BY <2>1, <2>2 DEF IkiminaTypeOK, Membership, MembershipStates
  <2>7. \A e \in Employees : membership'[e].state # "NONE" =>
          membership'[e].id > 0 /\ membership'[e].amount \in Amounts
    BY <2>1, <2>2, <2>5 DEF IkiminaTypeOK
  <2>8. LedgerOwned'
    BY <2>1, <2>2, <2>3 DEF IkiminaTypeOK, LedgerOwned, HasContributions
  <2> QED BY <2>3, <2>4, <2>6, <2>7, <2>8 DEF IkiminaTypeOK
<1>5. ASSUME NEW r \in MRequests, CommitRemoveMembership(r) PROVE LedgerInv'
  <2>1. mreq[r].emp \in Employees
    BY <1>5, RequestShape DEF CommitRemoveMembership
  <2>2. mreq' \in [MRequests -> MRequest]
    BY <1>5, IdleType DEF CommitRemoveMembership
  <2>3. LedgerOwned'
    BY <1>5, <2>1 DEF CommitRemoveMembership, IkiminaTypeOK, LedgerOwned,
                      HasContributions, NoContributions
  <2>4. contrib' \in [Employees -> [Batches -> Amounts \cup {0}]]
    BY <1>5, <2>1 DEF CommitRemoveMembership, IkiminaTypeOK, NoContributions
  <2>5. /\ membership' \in [Employees -> Membership]
        /\ \A e \in Employees : membership'[e].state # "NONE" =>
             membership'[e].id > 0 /\ membership'[e].amount \in Amounts
    BY <1>5, <2>1 DEF CommitRemoveMembership, IkiminaTypeOK, Membership, MembershipStates
  <2> QED BY <2>2, <2>3, <2>4, <2>5 DEF IkiminaTypeOK
<1>6. ASSUME NEW r \in MRequests, AbortMembership(r) PROVE LedgerInv'
  <2>1. mreq' \in [MRequests -> MRequest]
    BY <1>6, IdleType DEF AbortMembership
  <2> QED BY <1>6, <2>1 DEF AbortMembership, IkiminaTypeOK, LedgerOwned, HasContributions
<1> QED BY <1>1, <1>2, <1>3, <1>4, <1>5, <1>6 DEF MembershipNext

\* Neither does payroll, so every step of the component preserves them.
LEMMA IkiminaNextInv == LedgerInv /\ [IkiminaNext]_ikiminaVars => LedgerInv'
<1> SUFFICES ASSUME LedgerInv, [IkiminaNext]_ikiminaVars PROVE LedgerInv'
  OBVIOUS
<1>1. CASE MembershipNext /\ UNCHANGED due
  BY <1>1, MembershipNextInv
<1>2. ASSUME NEW r \in Requests, NEW b \in Batches, PayrollDeducts(r, b)
      PROVE LedgerInv'
  <2>1. deductForBatch(r, b) /\ UNCHANGED <<membership, mreq>>
    BY <1>2 DEF PayrollDeducts
  <2>2. IkiminaTypeOK'
    BY <2>1, DeductFacts DEF LedgerInv, IkiminaTypeOK
  <2>3. LedgerOwned'
    BY <2>1, DeductFacts DEF LedgerInv, LedgerOwned, HasContributions
  <2> QED BY <2>2, <2>3 DEF LedgerInv
<1>3. CASE UNCHANGED ikiminaVars
  BY <1>3 DEF ikiminaVars, LedgerInv, IkiminaTypeOK, LedgerOwned, HasContributions
<1>4. ASSUME NEW r \in Requests, NEW b \in Batches, NEW emps \in SUBSET Employees,
             PayrollReads(r, b, emps)
      PROVE LedgerInv'
  <2>1. due' \in [Requests -> [Employees -> Due]]
    BY <1>4, DuesType DEF PayrollReads, readDues, LedgerInv, IkiminaTypeOK
  <2> QED BY <1>4, <2>1 DEF PayrollReads, LedgerInv, IkiminaTypeOK, LedgerOwned,
                            HasContributions
<1>5. ASSUME NEW r \in Requests, PayrollAborts(r) PROVE LedgerInv'
  <2>1. due' \in [Requests -> [Employees -> Due]]
    BY <1>5, NoDuesType DEF PayrollAborts, LedgerInv, IkiminaTypeOK
  <2> QED BY <1>5, <2>1 DEF PayrollAborts, LedgerInv, IkiminaTypeOK, LedgerOwned,
                            HasContributions
<1> QED BY <1>1, <1>2, <1>3, <1>4, <1>5 DEF IkiminaNext

\* The tables and the requests in flight are always well formed.
THEOREM IkiminaTypeCorrect == IkiminaSpec => []IkiminaTypeOK
<1>1. LedgerInv => IkiminaTypeOK
  BY DEF LedgerInv
<1> QED BY <1>1, IkiminaInitInv, IkiminaNextInv, PTL DEF IkiminaSpec

\* However requests interleave, no ledger entry outlives its membership.
THEOREM IkiminaLedgerOwned == IkiminaSpec => []LedgerOwned
<1>1. LedgerInv => LedgerOwned
  BY DEF LedgerInv
<1> QED BY <1>1, IkiminaInitInv, IkiminaNextInv, PTL DEF IkiminaSpec

-----------------------------------------------------------------------------
(* Requests handled one at a time *)

SerialInv == LedgerInv /\ SerialRequests /\ SerialRemove

\* A slot that is not idle is the only one.
LEMMA SerialInitInv == IkiminaInit => SerialInv
<1> SUFFICES ASSUME IkiminaInit PROVE SerialInv
  OBVIOUS
<1>1. LedgerInv
  BY IkiminaInitInv
<1>2. SerialRequests /\ SerialRemove
  BY DEF IkiminaInit, IdleM, SerialRequests, SerialRemove
<1> QED BY <1>1, <1>2 DEF SerialInv

\* Serial requests keep the ledger of a membership under removal empty.
LEMMA SerialNextInv ==
    ASSUME Serial
    PROVE  SerialInv /\ [IkiminaNext]_ikiminaVars => SerialInv'
<1> SUFFICES ASSUME SerialInv, [IkiminaNext]_ikiminaVars
             PROVE  SerialRequests' /\ SerialRemove'
  BY IkiminaNextInv DEF SerialInv
<1> USE DEF SerialInv, LedgerInv
<1>1. ASSUME NEW e \in Employees, NEW a \in Amounts, NEW s \in {"ACTIVE", "INACTIVE"},
             CreateMembership(e, a, s)
      PROVE SerialRequests' /\ SerialRemove'
  BY <1>1 DEF CreateMembership, SerialRequests, SerialRemove, HasContributions
<1>2. ASSUME NEW r \in MRequests, NEW e \in Employees,
             NEW touches \in SUBSET {"amount", "state"},
             NEW a \in Amounts, NEW s \in {"ACTIVE", "INACTIVE"},
             CheckUpdateMembership(r, e, touches, a, s)
      PROVE SerialRequests' /\ SerialRemove'
  <2>1. \A x \in MRequests : x # r => mreq'[x] = IdleM
    BY <1>2 DEF CheckUpdateMembership, MembershipQuiet, IkiminaTypeOK
  <2>2. mreq'[r].op = "update"
    BY <1>2 DEF CheckUpdateMembership, IkiminaTypeOK
  <2> QED BY <2>1, <2>2 DEF SerialRequests, SerialRemove, IdleM
<1>3. ASSUME NEW r \in MRequests, NEW e \in Employees, CheckRemoveMembership(r, e)
      PROVE SerialRequests' /\ SerialRemove'
  <2>1. \A x \in MRequests : x # r => mreq'[x] = IdleM
    BY <1>3 DEF CheckRemoveMembership, MembershipQuiet, IkiminaTypeOK
  <2>2. mreq'[r].emp = e /\ contrib' = contrib /\ ~ HasContributions(e)
    BY <1>3 DEF CheckRemoveMembership, IkiminaTypeOK
  <2> QED BY <2>1, <2>2 DEF SerialRequests, SerialRemove, IdleM, HasContributions
<1>4. ASSUME NEW r \in MRequests,
             CommitUpdateMembership(r) \/ AbortMembership(r)
      PROVE SerialRequests' /\ SerialRemove'
  <2>1. mreq' = [mreq EXCEPT ![r] = IdleM] /\ contrib' = contrib
    BY <1>4 DEF CommitUpdateMembership, AbortMembership
  <2> QED BY <2>1 DEF SerialRequests, SerialRemove, IdleM, HasContributions, IkiminaTypeOK
<1>5. ASSUME NEW r \in MRequests, CommitRemoveMembership(r)
      PROVE SerialRequests' /\ SerialRemove'
  <2>1. \A x \in MRequests : mreq'[x] = IdleM
    BY <1>5 DEF CommitRemoveMembership, SerialRequests, IkiminaTypeOK, IdleM
  <2> QED BY <2>1 DEF SerialRequests, SerialRemove, IdleM
<1>6. ASSUME NEW r \in Requests, NEW b \in Batches, PayrollDeducts(r, b)
      PROVE SerialRequests' /\ SerialRemove'
  <2>1. \A x \in MRequests : mreq'[x] = IdleM
    BY <1>6 DEF PayrollDeducts, MembershipQuiet
  <2> QED BY <2>1 DEF SerialRequests, SerialRemove, IdleM
<1>7. CASE UNCHANGED ikiminaVars
  BY <1>7 DEF ikiminaVars, SerialRequests, SerialRemove, HasContributions
<1>8. CASE UNCHANGED <<membership, contrib, mreq>>
  BY <1>8 DEF SerialRequests, SerialRemove, HasContributions
<1> QED BY <1>1, <1>2, <1>3, <1>4, <1>5, <1>6, <1>7, <1>8
        DEF IkiminaNext, MembershipNext, PayrollReads, PayrollAborts

\* Under the serial invariant no step changes or deletes a ledger entry.
LEMMA SerialStepImmutable ==
    SerialInv /\ [IkiminaNext]_ikiminaVars =>
      [\A e \in Employees, b \in Batches :
         contrib[e][b] # 0 => contrib'[e][b] = contrib[e][b]]_ikiminaVars
<1> SUFFICES ASSUME SerialInv, IkiminaNext
             PROVE  \A e \in Employees, b \in Batches :
                      contrib[e][b] # 0 => contrib'[e][b] = contrib[e][b]
  OBVIOUS
<1> USE DEF SerialInv, LedgerInv
<1>1. ASSUME NEW r \in MRequests, CommitRemoveMembership(r)
      PROVE \A e \in Employees, b \in Batches :
              contrib[e][b] # 0 => contrib'[e][b] = contrib[e][b]
  BY <1>1 DEF CommitRemoveMembership, SerialRemove, HasContributions, IkiminaTypeOK
<1>2. ASSUME NEW r \in Requests, NEW b \in Batches, PayrollDeducts(r, b)
      PROVE \A e \in Employees, c \in Batches :
              contrib[e][c] # 0 => contrib'[e][c] = contrib[e][c]
  BY <1>2, DeductFacts DEF PayrollDeducts
<1> QED BY <1>1, <1>2 DEF IkiminaNext, MembershipNext, CreateMembership,
             CheckUpdateMembership, CheckRemoveMembership, CommitUpdateMembership,
             AbortMembership, PayrollReads, PayrollAborts

\* When requests are served one at a time, removeMembership's guard is enough:
\* the history payroll wrote is immutable.
THEOREM SerialHistoryImmutable ==
    ASSUME Serial
    PROVE  IkiminaSpec => ContributionsImmutable
BY SerialInitInv, SerialNextInv, SerialStepImmutable, PTL
   DEF IkiminaSpec, ContributionsImmutable

=============================================================================
