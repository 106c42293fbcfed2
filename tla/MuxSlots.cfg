SPECIFICATION Spec
CONSTANTS
  i1 = i1
  i2 = i2
  i3 = i3
  None = None
  Classes = {"mux", "muxDF", "muxAF", "muxDist"}
  Input = {i1, i2, i3}
  buff = 1
  active = 2
  Table = {1, 3}
  MaxCells = 6
INVARIANTS TypeOK Conserved ServerFed Sojourn
PROPERTIES OldestFirst
SYMMETRY MCSymmetry
