CONSTANTS
  Handler = {h1, h2}
  Volume = {v1, v2}
  Pod = {p1, p2}
  Device = {d1, d2}
  None = None
  BlockVolume = {v2}
  FromSnapshot = {v1}
  AbruptDetach = TRUE
  MaxRestarts = 1
  MaxAttaches = 2
SPECIFICATION Spec
SYMMETRY Symmetric
INVARIANTS TypeOK StagedIsMounted PublishedIsBound DoneIsUnmounted
PROPERTIES ImplementsExclusion
