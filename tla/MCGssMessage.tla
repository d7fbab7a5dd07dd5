---------------------------- MODULE MCGssMessage ----------------------------
(* Bounds for TLC: messages are only compared for equality. *)
EXTENDS GssMessage, TLC

Symmetry == Permutations(Msg)
=============================================================================
