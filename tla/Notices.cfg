SPECIFICATION Spec
CONSTANTS
  Users = {me, other}
  Me = me
  None = none
  Blank = blank
  MaxNotices = 2
  MaxEdits = 1
  MaxChanges = 1
  MaxDrops = 1
CHECK_DEADLOCK FALSE
INVARIANT NoticesSound
PROPERTY DismissalIsPersonal
 
