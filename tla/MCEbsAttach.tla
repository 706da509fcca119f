----------------------------- MODULE MCEbsAttach -----------------------------
(* Small instances of EbsAttach. *)
EXTENDS EbsAttach, TLC

Symmetric == Permutations(Handler) \cup Permutations(Volume) \cup Permutations(Node)
=============================================================================
