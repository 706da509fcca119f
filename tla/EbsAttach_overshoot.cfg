CONSTANTS
  Handler = {h1, h2}
  Volume = {v1, v2}
  Node = {n1}
  None = None
  MaxVolumesPerNode = 1
  MaxRestarts = 0
SPECIFICATION Spec
SYMMETRY Symmetric
INVARIANTS NodeWithinLimit
