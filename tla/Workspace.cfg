SPECIFICATION Spec
CONSTANTS
  MaxRuns = 2
  Toggled = {"users.read", "payroll.create"}
  MaxGrants = 2
  MaxVisits = 2
  Filters = {all, branch}
  Viewers = {first, second}
  MaxEffects = 3
CHECK_DEADLOCK FALSE
INVARIANT WorkspaceSound
INVARIANT PanelsCurrent
 
 
