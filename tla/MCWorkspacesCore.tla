-------------------------- MODULE MCWorkspacesCore --------------------------
(* Constants of the runs of WorkspacesCore. *)
EXTENDS WorkspacesCore, TLC

CONSTANTS w1, w2, w3, n1, n2

MainEntry == [parent |-> None, script |-> DefaultScript, branch |-> n1, path |-> n1]

WorktreeOf(p) == [MainEntry EXCEPT !.parent = p]

(* One workspace saved by an earlier run. *)
OneMain == {[w \in Ids |-> IF w = w1 THEN MainEntry ELSE None]}

(* Two workspaces saved by an earlier run. *)
TwoMains == {[w \in Ids |-> IF w \in {w1, w2} THEN MainEntry ELSE None]}

(* A workspace and one worktree of it. *)
OneFamily == {[w \in Ids |-> IF w = w1 THEN MainEntry
                             ELSE IF w = w2 THEN WorktreeOf(w1) ELSE None]}

(* Tasks are interchangeable, and so are sessions. *)
Symmetry == Permutations(Tasks) \cup Permutations(Sessions)
=============================================================================
