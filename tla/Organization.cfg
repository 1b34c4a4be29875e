SPECIFICATION Spec
CONSTANTS
  Users = {u1}
  Calls = {c1, c2}
  MaxSessions = 3
  MaxCodes = 2
  Locations = {l1, l2}
  Names = {n1, n2}
  Staff = {u1, u2}
  BRequests = {r1}
  Codes = {k1}
  Branch = {b1, b2, b3}
  Workers = {e1}
  Members = {u1}
  Transfers = {t1}
  PRequests = {r1}
  Crashes = TRUE
  Nowhere = Nowhere
SYMMETRY BranchSymmetry
CHECK_DEADLOCK FALSE
INVARIANT OneSuccessor
INVARIANT AccountsSound
INVARIANT BranchesSound
INVARIANT EmptiedIsSeenTo
 
 
