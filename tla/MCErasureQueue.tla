--------------------------- MODULE MCErasureQueue ---------------------------
(* Instances of ErasureQueue for TLC. *)
EXTENDS ErasureQueue, TLC

CONSTANTS s1, s2, cli
MCActor == {s1, s2, cli}
MCServer == {s1, s2}
\* One server is as good as the other.
Interchangeable == Permutations(MCServer)
=============================================================================
