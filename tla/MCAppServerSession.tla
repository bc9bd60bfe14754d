------------------------- MODULE MCAppServerSession -------------------------
(* Constants of the run of AppServerSession. *)
EXTENDS AppServerSession, TLC

CONSTANTS new, list, login, prompt, memory, w1, w2

MCKind == new :> "start" @@ list :> "list" @@ login :> "login"

MCWsOf == [x \in Plain \cup Prompts |-> w2]

(* w2 is a directory of w1, which owns the process. *)
MCEncloses == w1 :> {} @@ w2 :> {w1}

(* What is under way together: a prompt beside an agent, a list beside an    *)
(* agent or a new thread whose workspace leaves, a login while both leave.   *)
MCWorkloads == {{prompt, memory}, {new, list, w2}, {list, memory}, {login, w1, w2}}
=============================================================================
