---------------------------- MODULE MCClientApp ----------------------------
(* Bounds for TLC: two context objects, two native contexts and one name   *)
(* for each run of the client, so that it never runs out of fresh ones.    *)
EXTENDS ClientApp, FiniteSets

ASSUME Enough ==
  /\ Cardinality(Ctx) >= 2 * MaxRuns
  /\ Cardinality(Native) > 2 * MaxRuns
  /\ Cardinality(Name) >= MaxRuns
=============================================================================
