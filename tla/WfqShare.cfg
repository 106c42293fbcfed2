SPECIFICATION Spec
CONSTANTS
  i1 = i1
  i2 = i2
  v1 = v1
  v2 = v2
  v3 = v3
  Input = {i1, i2}
  VC = {v1, v2, v3}
  delta <- MCdelta
  qsize <- MCqsize
  spacTimeMax = 4
INVARIANTS TypeOK Sorted Share
SYMMETRY MCSymmetry
