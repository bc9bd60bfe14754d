-------------------------- MODULE MCRemoteBackend --------------------------
(* Constants of the runs of RemoteBackend. *)
EXTENDS RemoteBackend

(* Every remote is configured with the token its daemon expects. *)
RightTokens == [r \in Remotes |-> "right"]

(* One remote per way to configure a token. *)
AnyTokens == [r \in Remotes |-> r]
=============================================================================
