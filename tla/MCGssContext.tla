--------------------------- MODULE MCGssContext ---------------------------
(* Bounds for TLC: the objects of GssContext are interchangeable, so their *)
(* permutations are a symmetry of the specification and its invariants.    *)
EXTENDS GssContext, TLC

Symmetry == Permutations(Ctx) \cup Permutations(Native) \cup Permutations(Name)
=============================================================================
