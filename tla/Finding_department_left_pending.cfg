SPECIFICATION PlacementSpec
CONSTANTS
  Codes = {k1}
  Branch = {l1, l2, l3}
  Workers = {e1}
  Members = {}
  Transfers = {t1}
  PRequests = {r1}
  Crashes = FALSE
  Nowhere = Nowhere
CHECK_DEADLOCK FALSE
PROPERTY EmptiedIsArchived
