--------------------------- MODULE MCGssCredential ---------------------------
(* Symmetry for TLC: the objects are only compared for equality, and no      *)
(* liveness is checked.  The native structures are taken in a fixed order.   *)
EXTENDS GssCredential, TLC

Symmetry == Permutations(NameObj) \cup Permutations(CredObj) \cup Permutations(Ctx)
            \cup Permutations(Mech)
=============================================================================
