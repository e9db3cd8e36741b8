SPECIFICATION Spec
CONSTANTS
  Device = {d1, d2}
  NoDev = NoDev
  NumOfButtons = 3
  ResetHold = 1
  ResetClick = 0
  ResetClicks = 2
  ResetTime = 1
  AssignTime = 2
  MaxRestart = 1

PROPERTY AssignProcedure
