SPECIFICATION Spec
CONSTANTS
  Employees = {e1}
  Monthly = {e1}
  Contracted = {}
  Amounts = {}
  Batches = {b1, b2}
  MRequests = {}
  MaxJoins = 0
  Serial = FALSE
  Requests = {r1, r2}
  SuperAdmins = {admin}
  InitialApprovers = {manager}
  HqHr = {}
  Files = {}
  MaxItems = 2
  Churn = {}
  NoBatch = NoBatch
  NoActor = NoActor
SYMMETRY RequestSymmetry
CHECK_DEADLOCK FALSE
INVARIANT OneItemPerEmployee
PROPERTY PaidByAuthority
