--------------------------- MODULE MCEbsProvision ---------------------------
(* Small instances of EbsProvision: requests that agree, and requests of   *)
(* the same name that disagree on type, size or zone.                      *)
EXTENDS EbsProvision, TLC

CONSTANTS n1, n2, t1, t2, z1, z2

R(n, t, z, b) == [name |-> n, type |-> t, zone |-> z, bytes |-> b]

(* GB = 2: 3 bytes need 2 GB, 0 means the default. *)
SameNameRequests == {R(n1, t1, z1, 3)}
SomeRequests == {R(n1, t1, NoZone, 3), R(n1, t2, z1, 0), R(n1, t1, z2, 0)}

OneZone == {z1}
MovingPod == {z1, z2, NoZone}

Symmetric == Permutations(Handler) \cup Permutations(VolId)
=============================================================================
