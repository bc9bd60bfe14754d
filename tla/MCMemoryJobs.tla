---------------------------- MODULE MCMemoryJobs ----------------------------
(***************************************************************************)
(* Instances of MemoryJobs for TLC: threads and tokens are interchangeable. *)
(***************************************************************************)
EXTENDS MemoryJobs, TLC

Symmetry == Permutations(Threads) \cup Permutations(Tokens)
=============================================================================
