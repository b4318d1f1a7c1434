----------------------------- MODULE MCDmaSync ------------------------------
(* Instances of DmaSync.                                                   *)
EXTENDS DmaSync, TLC

Symmetric == Permutations(Procs) \cup Permutations(Channels)
=============================================================================
