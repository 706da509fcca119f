CONSTANTS
  Handler = {h1, h2}
  Name = {n1, n2}
  Type = {t1, t2}
  Zone = {z1, z2}
  VolId = {v1, v2}
  Request <- SameNameRequests
  PodZone <- OneZone
  NoZone = NoZone
  None = None
  GB = 2
  DefaultBytes = 5
  MaxRestarts = 1
  n1 = n1
  n2 = n2
  t1 = t1
  t2 = t2
  z1 = z1
  z2 = z2
SPECIFICATION Spec
SYMMETRY Symmetric
INVARIANTS KeysExact OneVolumePerName GoneIsDeleted
PROPERTIES ImplementsStore ImplementsExclusion
