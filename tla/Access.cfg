SPECIFICATION Spec
CONSTANTS
  Users = {me}
  Me = me
  Roles = {r1, r2}
  RoleNames = {n1, n2}
  Branch = {b1}
  Global = global
  Keys = {"payroll.create", "payroll.read"}
  ARequests = {q1, q2}
  MaxEdits = 2
  MaxRetries = 1
  MaxLost = 1
CHECK_DEADLOCK FALSE
 
INVARIANT RolesSound
 
PROPERTY OpenTabCatchesUp
