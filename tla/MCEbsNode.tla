------------------------------ MODULE MCEbsNode ------------------------------
(* Small instances of EbsNode. *)
EXTENDS EbsNode, TLC

Symmetric == Permutations(Handler) \cup Permutations(Pod) \cup Permutations(Device)
=============================================================================
