CONSTANTS
  Handler = {h1, h2, h3}
  Volume = {v1}
  Node = {n1, n2}
  None = None
  MaxVolumesPerNode = 1
  MaxRestarts = 1
SPECIFICATION Spec
SYMMETRY Symmetric
INVARIANTS TypeOK PublishedIsAttached UnpublishedIsDetached
