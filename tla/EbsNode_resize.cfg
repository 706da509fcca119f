CONSTANTS
  Handler = {h1}
  Volume = {v1}
  Pod = {p1}
  Device = {d1}
  None = None
  BlockVolume = {}
  FromSnapshot = {v1}
  AbruptDetach = FALSE
  MaxRestarts = 0
  MaxAttaches = 1
SPECIFICATION Spec
SYMMETRY Symmetric
INVARIANTS StagedIsResized
