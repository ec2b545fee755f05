--------------------------- MODULE MCShredReplay ----------------------------
(* Instances of ShredReplay for TLC. *)
EXTENDS ShredReplay, TLC

\* A plan is acted on in any order, so capsules are interchangeable; so are sweeps.
Interchangeable == Permutations(Item) \cup Permutations(Actor)
=============================================================================
