SPECIFICATION Spec
CONSTANTS
  i1 = i1
  i2 = i2
  None = None
  Missed = Missed
  Input = {i1, i2}
  Code = {1, 2}
  nprio = 2
  Modes <- AllModes
  serviceTime = 3
  serviceRate = 10
  Bytes = {1, 2}
  Limit = {0, 1}
  MaxItems = 3
INVARIANTS TypeOK Conserved Busy InOrder
PROPERTIES HighestFirst SyncStart
SYMMETRY MCSymmetry
