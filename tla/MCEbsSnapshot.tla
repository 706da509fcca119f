--------------------------- MODULE MCEbsSnapshot ---------------------------
(* Instances of EbsSnapshot for TLC. *)
EXTENDS EbsSnapshot, TLC

(* Every name for every source. *)
EveryRequest == [name: Name, source: Volume]

Symmetry == Permutations(Handler) \cup Permutations(SnapId)
=============================================================================
