SPECIFICATION Spec
CONSTANTS
  i1 = i1
  i2 = i2
  None = None
  Missed = Missed
  Input = {i1, i2}
  Code = {1, 2}
  nprio = 2
  Modes <- FrmAsync
  serviceTime = 1
  serviceRate = 20
  Bytes = {1}
  Limit = {1}
  MaxItems = 3
INVARIANTS NoZeroDelay
