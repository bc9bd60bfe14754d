---------------------------- MODULE MCQueuedSend ----------------------------
(***************************************************************************)
(* Instances of QueuedSend for TLC: the messages are interchangeable.      *)
(***************************************************************************)
EXTENDS QueuedSend, TLC

Symmetry == Permutations(Messages)
=============================================================================
