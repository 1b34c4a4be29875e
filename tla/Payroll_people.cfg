SPECIFICATION FairSpec
CONSTANTS
  Employees = {e1}
  Monthly = {e1}
  Contracted = {e1}
  Amounts = {}
  Batches = {b1, b2}
  MRequests = {}
  MaxJoins = 0
  Serial = TRUE
  Requests = {r1}
  SuperAdmins = {admin}
  InitialApprovers = {manager}
  HqHr = {}
  Files = {f1, f2}
  MaxItems = 1
  Churn = {"approvers", "staff"}
  NoBatch = NoBatch
  NoActor = NoActor
CHECK_DEADLOCK FALSE
PROPERTY EndedIsPaused
PROPERTY AttachmentsKept
PROPERTY ExpiredNotDrafted
