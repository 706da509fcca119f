SPECIFICATION Spec
CONSTANTS
  Handler = {h1, h2}
  Name = {n1}
  Volume = {v1}
  SnapId = {s1, s2}
  Request <- EveryRequest
  MaxCapacity = 2
  None = None
  MaxRestarts = 1
SYMMETRY Symmetry
INVARIANTS TypeOK OneSnapshotPerName AnswersFit
PROPERTIES ImplementsExclusion
