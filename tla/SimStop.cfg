SPECIFICATION Spec
CONSTANTS
  None = None
  delta = 2
  Lengths = {0, 1, 3, 4}
  MaxRuns = 3
  MaxObjects = 3
  Names = {n1, n2}
PROPERTIES StopBreaks
