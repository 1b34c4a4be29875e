SPECIFICATION Spec
CONSTANTS
  Employees = {e1}
  Monthly = {e1}
  Contracted = {}
  Amounts = {1, 2}
  Batches = {b1, b2}
  MRequests = {m1}
  MaxJoins = 1
  Serial = TRUE
  Requests = {r1}
  SuperAdmins = {admin}
  InitialApprovers = {manager}
  HqHr = {hr}
  Files = {}
  MaxItems = 2
  Churn = {}
  NoBatch = NoBatch
  NoActor = NoActor
CHECK_DEADLOCK FALSE
INVARIANT DeductionHasLedgerEntry
INVARIANT DraftIsClean
PROPERTY ContributionsImmutable
