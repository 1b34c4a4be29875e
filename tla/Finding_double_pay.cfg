SPECIFICATION Spec
CONSTANTS
  Employees = {e1, e2}
  Monthly = {e1, e2}
  Contracted = {}
  Amounts = {}
  Batches = {b1, b2}
  MRequests = {}
  MaxJoins = 0
  Serial = TRUE
  Requests = {r1}
  SuperAdmins = {}
  InitialApprovers = {manager}
  HqHr = {hr}
  Files = {}
  MaxItems = 2
  Churn = {}
  NoBatch = NoBatch
  NoActor = NoActor
SYMMETRY EmployeeSymmetry
CHECK_DEADLOCK FALSE
INVARIANT NoDoublePay
