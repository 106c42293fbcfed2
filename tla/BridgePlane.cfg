SPECIFICATION Spec
CONSTANTS
  p1 = p1
  p2 = p2
  None = None
  Port = {p1, p2}
  process_speed = 2
  InMax = 2
  OutMax = 2
  cycle = 2
  MaxFrames = 3
  MaxBpdus = 3
  Directions <- BothWays
INVARIANTS TypeOK Conserved Awake Prompt
PROPERTIES InOrder
SYMMETRY MCSymmetry
