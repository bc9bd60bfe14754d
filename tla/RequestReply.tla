---------------------------- MODULE RequestReply ----------------------------
(***************************************************************************)
(* What a request channel promises to the code that calls through it: a    *)
(* call is issued once, is answered once, reports success only if it was   *)
(* executed, and is executed at most once unless it is one of the calls    *)
(* that may be replayed.  An execution may still follow the failure that   *)
(* was reported for it: the caller of a failed call knows nothing.         *)
(*                                                                         *)
(* RemoteBackend (client and daemon) and AppServerSession (app and         *)
(* app-server child) are shown to implement this specification.            *)
(***************************************************************************)
EXTENDS Naturals

CONSTANTS
    Calls,         \* requests that can ever be made
    Replayable     \* the ones that may be executed a second time

VARIABLES
    status,        \* what the caller of each request knows
    effects        \* how often the other side executed it

vars == <<status, effects>>

MaxEffects(c) == IF c \in Replayable THEN 2 ELSE 1

Init ==
    /\ status = [c \in Calls |-> "unsent"]
    /\ effects = [c \in Calls |-> 0]

Issue(c) ==
    /\ status[c] = "unsent"
    /\ status' = [status EXCEPT ![c] = "open"]
    /\ UNCHANGED effects

Execute(c) ==
    /\ status[c] # "unsent"
    /\ effects[c] < MaxEffects(c)
    /\ effects' = [effects EXCEPT ![c] = @ + 1]
    /\ UNCHANGED status

Succeed(c) ==
    /\ status[c] = "open"
    /\ effects[c] > 0
    /\ status' = [status EXCEPT ![c] = "ok"]
    /\ UNCHANGED effects

Fail(c) ==
    /\ status[c] = "open"
    /\ status' = [status EXCEPT ![c] = "err"]
    /\ UNCHANGED effects

Return(c) == Succeed(c) \/ Fail(c)

Next == \E c \in Calls : Issue(c) \/ Execute(c) \/ Return(c)

(* A call that was issued returns. *)
Fairness == \A c \in Calls : WF_vars(Return(c))

Safety == Init /\ [][Next]_vars

Spec == Safety /\ Fairness
=============================================================================
