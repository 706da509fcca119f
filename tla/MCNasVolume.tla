----------------------------- MODULE MCNasVolume -----------------------------
EXTENDS NasVolume

CONSTANT v1

\* Every pod uses the one volume.
SameVolume == [p \in Pod |-> v1]
=============================================================================
