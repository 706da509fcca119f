---------------------------- MODULE MCEbsExpand ----------------------------
(* Instances of EbsExpand for TLC. *)
EXTENDS EbsExpand, TLC

Symmetry == Permutations(Handler)
=============================================================================
