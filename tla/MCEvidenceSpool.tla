-------------------------- MODULE MCEvidenceSpool --------------------------
(* Instances of EvidenceSpool for TLC. Events are interchangeable, and so    *)
(* are writers; runs that check temporal properties do not use it.          *)
EXTENDS EvidenceSpool, TLC

Interchangeable == Permutations(Writer) \cup Permutations(Event)
=============================================================================
