---------------------------- MODULE RemoteBackend ----------------------------
(***************************************************************************)
(* The remote backend: call_remote and its connection cache in             *)
(* src-tauri/src/remote_backend, the two I/O tasks behind each connection,  *)
(* the network, and handle_client of the daemon with its RPC tasks.        *)
(*                                                                         *)
(* Every command of the app is a tokio task.  One action is what a task    *)
(* does between two awaits that another task can get in between of; the    *)
(* operator is named after the function it belongs to.                     *)
(***************************************************************************)
EXTENDS Naturals, Sequences, FiniteSets, Functions

CONSTANTS
    Calls,          \* invocations of call_remote
    Retryable,      \* the ones whose method can_retry_after_disconnect accepts
    Conns,          \* connections that can ever be made
    Remotes,        \* backend settings: a host and a token
    TokenOf,        \* TokenOf[r]: "right", "wrong" or "none"
    NeedsToken,     \* the daemon was started with a token
    QueueCapacity,  \* OUTBOUND_QUEUE_CAPACITY
    MaxInFlight,    \* MAX_IN_FLIGHT_RPC_PER_CONNECTION
    MaxEvents,      \* bound: faults and settings updates together
    None            \* Option::None

ASSUME ConstantsAssumption ==
    /\ Retryable \subseteq Calls
    /\ TokenOf \in [Remotes -> {"right", "wrong", "none"}]
    /\ NeedsToken \in BOOLEAN
    /\ QueueCapacity \in Nat \ {0}
    /\ MaxInFlight \in Nat \ {0}
    /\ MaxEvents \in Nat
    /\ Conns \subseteq Nat

VARIABLES
    cached,     \* state.remote_backend
    setting,    \* the backend fields of state.app_settings
    had,        \* history: what `setting` has been
    saving,     \* how many update_app_settings are between the save and the reset
    events,     \* faults and settings updates so far
    \* one entry per call
    pc,         \* the await the call is at
    mode,       \* RemoteBackend::call is sending "auth" or the call itself
    dial,       \* the transport configuration ensure_remote_backend read
    on,         \* the client it holds
    lost,       \* the client of its first attempt, once that attempt failed
    id,         \* the id fetch_add gave it
    reply,      \* what its oneshot receiver holds
    result,     \* what call_remote returned
    effects,    \* how often the daemon executed it
    \* one entry per connection, the app's side
    target,     \* the remote it was opened to
    connected,  \* the AtomicBool
    nextId,     \* next_id
    pending,    \* PendingMap: pairs <<id, call>>
    outQ,       \* lines on their way to the daemon: the channel of out_tx, the
                \* writer task and the socket's buffers
    writer,     \* "on", "drain" in mark_disconnected, "off"
    reader,     \* "on", "drain" in mark_disconnected, "off"
    \* one entry per connection, the network and the daemon's side
    link,       \* "none", "up", "cut" (both ends see it), "dark" (none does)
    s2c,        \* lines on their way to the app
    serving,    \* handle_client runs
    authed,     \* its `authenticated`
    jobs        \* its RPC tasks

locals   == <<mode, dial, on, lost, id>>
callVars == <<pc, locals, reply, result>>
appVars  == <<target, connected, nextId, pending, outQ, writer, reader>>
netVars  == <<link, s2c>>
srvVars  == <<serving, authed, jobs>>
setVars  == <<cached, setting, had, saving>>
vars     == <<setVars, events, callVars, effects, appVars, netVars, srvVars>>

-----------------------------------------------------------------------------
(* Lines on the wire.  `call` and `mode` of a response are not sent: they   *)
(* record whose request the daemon answers.                                *)

Request == [id : Nat, call : Calls, mode : {"auth", "rpc"}]

(* "disc" stands for DISCONNECTED_MESSAGE, which only the app produces. *)
Results == {"ok", "err", "unauthorized", "disc"}

Response == [id : Nat, call : Calls, mode : {"auth", "rpc"}, res : Results]

ASSUME NoneAssumption ==
    /\ None \notin Calls /\ None \notin Conns /\ None \notin Remotes
    /\ None \notin Response

(* End of the stream, or a read error: both readers treat them alike. *)
EOF == [id |-> 0]

Answer(q, res) == [id |-> q.id, call |-> q.call, mode |-> q.mode, res |-> res]

Job == [id : Nat, call : Calls, mode : {"auth", "rpc"},
        step : {"queued", "running"}]

Prefixes(s) == {SubSeq(s, 1, n) : n \in 0..Len(s)}

Unused == {k \in Conns : link[k] = "none"}

Active(c) == pc[c] \notin {"idle", "done"}

(* The Arc<RemoteBackendInner> clones: the cache, and the locals `client` *)
(* and `retry_client` of call_remote, which live until it returns.        *)
Referenced(k) ==
    \/ cached = k
    \/ \E c \in Calls : Active(c) /\ k \in {on[c], lost[c]}

-----------------------------------------------------------------------------
Init ==
    /\ cached = None /\ setting \in Remotes
    /\ had = {setting} /\ saving = 0 /\ events = 0
    /\ pc = [c \in Calls |-> "idle"]
    /\ mode = [c \in Calls |-> "rpc"]
    /\ dial = [c \in Calls |-> None]
    /\ on = [c \in Calls |-> None]
    /\ lost = [c \in Calls |-> None]
    /\ id = [c \in Calls |-> 0]
    /\ reply = [c \in Calls |-> None]
    /\ result = [c \in Calls |-> "none"]
    /\ effects = [c \in Calls |-> 0]
    /\ target = [k \in Conns |-> None]
    /\ connected = [k \in Conns |-> FALSE]
    /\ nextId = [k \in Conns |-> 1]
    /\ pending = [k \in Conns |-> {}]
    /\ outQ = [k \in Conns |-> <<>>]
    /\ writer = [k \in Conns |-> "off"]
    /\ reader = [k \in Conns |-> "off"]
    /\ link = [k \in Conns |-> "none"]
    /\ s2c = [k \in Conns |-> <<>>]
    /\ serving = [k \in Conns |-> FALSE]
    /\ authed = [k \in Conns |-> FALSE]
    /\ jobs = [k \in Conns |-> {}]

-----------------------------------------------------------------------------
(* call_remote and ensure_remote_backend *)

Goto(c, step) == pc' = [pc EXCEPT ![c] = step]

(* call_remote starts, or tries again.  A cached client is used as it is. *)
ensure_remote_backend(c) ==
    /\ pc[c] \in {"idle", "ensure"}
    /\ \/ /\ cached # None
          /\ on' = [on EXCEPT ![c] = cached]
          /\ mode' = [mode EXCEPT ![c] = "rpc"]
          /\ Goto(c, "check")
       \/ /\ cached = None
          /\ Goto(c, "resolve")
          /\ UNCHANGED <<on, mode>>
    /\ UNCHANGED <<setVars, events, dial, lost, id, reply, result, effects,
                   appVars, netVars, srvVars>>

(* The settings are read under a lock of their own. *)
resolve_transport_config(c) ==
    /\ pc[c] = "resolve"
    /\ dial' = [dial EXCEPT ![c] = setting]
    /\ Goto(c, "connect")
    /\ UNCHANGED <<setVars, events, mode, on, lost, id, reply, result, effects,
                   appVars, netVars, srvVars>>

(* The client becomes the shared one, whatever the cache holds by now. *)
Publish(k) == cached' = k

(* Variant: the client is shared before it authenticated. *)
connect_shares_at_once(c, k) ==
    /\ pc[c] = "connect" /\ k \in Unused
    /\ \A j \in Unused : k <= j
    /\ on' = [on EXCEPT ![c] = k]
    /\ target' = [target EXCEPT ![k] = dial[c]]
    /\ connected' = [connected EXCEPT ![k] = TRUE]
    /\ writer' = [writer EXCEPT ![k] = "on"]
    /\ reader' = [reader EXCEPT ![k] = "on"]
    /\ link' = [link EXCEPT ![k] = "up"]
    /\ serving' = [serving EXCEPT ![k] = TRUE]
    /\ authed' = [authed EXCEPT ![k] = ~NeedsToken]
    /\ Goto(c, "check")
    /\ IF TokenOf[dial[c]] = "none"
       THEN Publish(k) /\ UNCHANGED mode
       ELSE Publish(k) /\ mode' = [mode EXCEPT ![c] = "auth"]
    /\ dial' = [dial EXCEPT ![c] = None]
    /\ UNCHANGED <<setting, had, saving, events, lost, id, reply, result, effects,
                   nextId, pending, outQ, s2c, jobs>>

(* TcpStream::connect, spawn_transport_io and, on the other side, accept.  *)
(* Without a token there is nothing to wait for before it is shared.       *)
connect(c, k) ==
    /\ pc[c] = "connect" /\ k \in Unused
    /\ \A j \in Unused : k <= j
    /\ on' = [on EXCEPT ![c] = k]
    /\ target' = [target EXCEPT ![k] = dial[c]]
    /\ connected' = [connected EXCEPT ![k] = TRUE]
    /\ writer' = [writer EXCEPT ![k] = "on"]
    /\ reader' = [reader EXCEPT ![k] = "on"]
    /\ link' = [link EXCEPT ![k] = "up"]
    /\ serving' = [serving EXCEPT ![k] = TRUE]
    /\ authed' = [authed EXCEPT ![k] = ~NeedsToken]
    /\ Goto(c, "check")
    /\ IF TokenOf[dial[c]] = "none"
       THEN Publish(k) /\ UNCHANGED mode
       ELSE mode' = [mode EXCEPT ![c] = "auth"] /\ UNCHANGED cached
    /\ dial' = [dial EXCEPT ![c] = None]
    /\ UNCHANGED <<setting, had, saving, events, lost, id, reply, result, effects,
                   nextId, pending, outQ, s2c, jobs>>

(* call_remote returns and drops what it holds, its clients included. *)
Returns(c, r) ==
    /\ result' = [result EXCEPT ![c] = r]
    /\ Goto(c, "done")
    /\ mode' = [mode EXCEPT ![c] = "rpc"]
    /\ dial' = [dial EXCEPT ![c] = None]
    /\ on' = [on EXCEPT ![c] = None]
    /\ lost' = [lost EXCEPT ![c] = None]
    /\ id' = [id EXCEPT ![c] = 0]

(* The connection is refused: `?` returns the error. *)
connect_fails(c) ==
    /\ pc[c] = "connect"
    /\ Returns(c, "err")
    /\ UNCHANGED <<setVars, events, reply, effects, appVars, netVars, srvVars>>

(* can_retry_after_disconnect, asked by the first attempt only. *)
can_retry_after_disconnect(c) == c \in Retryable /\ lost[c] = None

(* Variant: the shared client outlives the failure. *)
CallFails_keeping_client(c, e) ==
    /\ reply' = [reply EXCEPT ![c] = None]
    /\ IF mode[c] = "auth"
       THEN Returns(c, "err") /\ UNCHANGED cached
       ELSE /\ UNCHANGED cached
            /\ IF e = "disc" /\ can_retry_after_disconnect(c)
               THEN /\ Goto(c, "ensure")
                    /\ lost' = [lost EXCEPT ![c] = on[c]]
                    /\ on' = [on EXCEPT ![c] = None]
                    /\ id' = [id EXCEPT ![c] = 0]
                    /\ UNCHANGED <<result, mode, dial>>
               ELSE Returns(c, "err")

(* How call_remote goes on when RemoteBackend::call fails with `e`.  An    *)
(* "auth" call that fails ends ensure_remote_backend; a call of the method *)
(* itself forgets the shared client first.                                 *)
CallFails(c, e) ==
    /\ reply' = [reply EXCEPT ![c] = None]
    /\ IF mode[c] = "auth"
       THEN Returns(c, "err") /\ UNCHANGED cached
       ELSE /\ cached' = None
            /\ IF e = "disc" /\ can_retry_after_disconnect(c)
               THEN /\ Goto(c, "ensure")
                    /\ lost' = [lost EXCEPT ![c] = on[c]]
                    /\ on' = [on EXCEPT ![c] = None]
                    /\ id' = [id EXCEPT ![c] = 0]
                    /\ UNCHANGED <<result, mode, dial>>
               ELSE Returns(c, "err")

(* The method was executed, or "auth" was accepted. *)
CallSucceeds(c) ==
    /\ reply' = [reply EXCEPT ![c] = None]
    /\ IF mode[c] = "auth"
       THEN /\ Publish(on[c])
            /\ mode' = [mode EXCEPT ![c] = "rpc"]
            /\ Goto(c, "check")
            /\ UNCHANGED <<dial, on, lost, id, result>>
       ELSE Returns(c, "ok") /\ UNCHANGED cached

-----------------------------------------------------------------------------
(* RemoteBackend::call *)

(* Variant: next_id is read, not advanced. *)
call_check_reusing_id(c) ==
    LET k == on[c] IN
    /\ pc[c] = "check"
    /\ \/ /\ connected[k]
          /\ id' = [id EXCEPT ![c] = nextId[k]]
          /\ UNCHANGED nextId
          /\ Goto(c, "insert")
          /\ UNCHANGED <<cached, mode, dial, on, lost, reply, result>>
       \/ /\ ~connected[k]
          /\ CallFails(c, "disc")
          /\ UNCHANGED nextId
    /\ UNCHANGED <<setting, had, saving, events, effects, target,
                    connected, pending, outQ, writer, reader, netVars, srvVars>>

(* connected.load, then next_id.fetch_add. *)
call_check(c) ==
    LET k == on[c] IN
    /\ pc[c] = "check"
    /\ \/ /\ connected[k]
          /\ id' = [id EXCEPT ![c] = nextId[k]]
          /\ nextId' = [nextId EXCEPT ![k] = @ + 1]
          /\ Goto(c, "insert")
          /\ UNCHANGED <<cached, mode, dial, on, lost, reply, result>>
       \/ /\ ~connected[k]
          /\ CallFails(c, "disc")
          /\ UNCHANGED nextId
    /\ UNCHANGED <<setting, had, saving, events, effects, target,
                    connected, pending, outQ, writer, reader, netVars, srvVars>>

(* The sender enters the pending map once its mutex is free. *)
call_insert(c) ==
    /\ pc[c] = "insert"
    /\ pending' = [pending EXCEPT ![on[c]] = @ \cup {<<id[c], c>>}]
    /\ Goto(c, "send")
    /\ UNCHANGED <<setVars, events, locals, reply, result, effects, target,
                   connected, nextId, outQ, writer, reader, netVars, srvVars>>

Forget(c) == pending' = [pending EXCEPT ![on[c]] = @ \ {<<id[c], c>>}]

(* out_tx.send waits while the channel is full and fails once the writer   *)
(* task dropped its receiver.                                              *)
call_send(c) ==
    LET k == on[c] IN
    /\ pc[c] = "send"
    /\ \/ /\ writer[k] # "off" /\ Len(outQ[k]) < QueueCapacity
          /\ outQ' = [outQ EXCEPT ![k] =
                Append(@, [id |-> id[c], call |-> c, mode |-> mode[c]])]
          /\ Goto(c, "wait")
          /\ UNCHANGED <<cached, locals, reply, result, pending>>
       \/ /\ writer[k] = "off"
          /\ Forget(c)
          /\ CallFails(c, "disc")
          /\ UNCHANGED outQ
    /\ UNCHANGED <<setting, had, saving, events, effects, target,
                   connected, nextId, writer, reader, netVars, srvVars>>

(* REMOTE_SEND_TIMEOUT. *)
call_send_timeout(c) ==
    LET k == on[c] IN
    /\ pc[c] = "send"
    /\ writer[k] # "off" /\ Len(outQ[k]) = QueueCapacity
    /\ Forget(c)
    /\ CallFails(c, "timeout")
    /\ UNCHANGED <<setting, had, saving, events, effects, target,
                   connected, nextId, outQ, writer, reader, netVars, srvVars>>

(* Variant: the "error" member of an answer is ignored. *)
call_reply_ignoring_error(c) ==
    /\ pc[c] = "wait" /\ reply[c] # None
    /\ IF reply[c].res # "disc" THEN CallSucceeds(c) ELSE CallFails(c, reply[c].res)
    /\ UNCHANGED <<setting, had, saving, events, effects, appVars, netVars,
                   srvVars>>

(* The receiver resolves. *)
call_reply(c) ==
    /\ pc[c] = "wait" /\ reply[c] # None
    /\ IF reply[c].res = "ok" THEN CallSucceeds(c) ELSE CallFails(c, reply[c].res)
    /\ UNCHANGED <<setting, had, saving, events, effects, appVars, netVars,
                   srvVars>>

(* Variant: the sender of the timed-out call stays in the map. *)
call_timeout_leaving_entry(c) ==
    /\ pc[c] = "wait" /\ reply[c] = None
    /\ UNCHANGED pending
    /\ CallFails(c, "timeout")
    /\ UNCHANGED <<setting, had, saving, events, effects, target,
                   connected, nextId, outQ, writer, reader, netVars, srvVars>>

(* Variant: only a call on a connection known to be lost is given up. *)
call_timeout_if_disconnected(c) ==
    /\ pc[c] = "wait" /\ reply[c] = None
    /\ ~connected[on[c]]
    /\ Forget(c)
    /\ CallFails(c, "timeout")
    /\ UNCHANGED <<setting, had, saving, events, effects, target,
                   connected, nextId, outQ, writer, reader, netVars, srvVars>>

(* REMOTE_REQUEST_TIMEOUT. *)
call_timeout(c) ==
    /\ pc[c] = "wait" /\ reply[c] = None
    /\ Forget(c)
    /\ CallFails(c, "timeout")
    /\ UNCHANGED <<setting, had, saving, events, effects, target,
                   connected, nextId, outQ, writer, reader, netVars, srvVars>>

-----------------------------------------------------------------------------
(* spawn_transport_io: the writer and the reader task of a connection *)

(* While the connection is up and the daemon reads, lines reach it: that   *)
(* step is handle_client_line.  Otherwise a write is lost in a buffer ...   *)
Writable(k) == link[k] = "up" /\ serving[k]

writer_loses(k) ==
    /\ writer[k] = "on" /\ outQ[k] # <<>> /\ ~Writable(k)
    /\ outQ' = [outQ EXCEPT ![k] = Tail(@)]
    /\ UNCHANGED <<setVars, events, callVars, effects, target, connected,
                   nextId, pending, writer, reader, netVars, srvVars>>

(* ... or fails: mark_disconnected stores the flag, then takes the map. *)
writer_fails(k) ==
    /\ writer[k] = "on" /\ outQ[k] # <<>> /\ ~Writable(k)
    /\ outQ' = [outQ EXCEPT ![k] = Tail(@)]
    /\ connected' = [connected EXCEPT ![k] = FALSE]
    /\ writer' = [writer EXCEPT ![k] = "drain"]
    /\ UNCHANGED <<setVars, events, callVars, effects, target, nextId, pending,
                   reader, netVars, srvVars>>

(* Variant: the writer task leaves only once the connection is marked lost. *)
writer_ends_if_disconnected(k) ==
    /\ writer[k] = "on" /\ outQ[k] = <<>> /\ ~Referenced(k)
    /\ ~connected[k]
    /\ writer' = [writer EXCEPT ![k] = "off"]
    /\ UNCHANGED <<setVars, events, callVars, effects, target, connected,
                   nextId, pending, outQ, reader, netVars, srvVars>>

(* recv() yields None: every sender is gone and the queue is empty.  The   *)
(* write half is dropped, which ends the stream to the daemon.             *)
writer_ends(k) ==
    /\ writer[k] = "on" /\ outQ[k] = <<>> /\ ~Referenced(k)
    /\ writer' = [writer EXCEPT ![k] = "off"]
    /\ UNCHANGED <<setVars, events, callVars, effects, target, connected,
                   nextId, pending, outQ, reader, netVars, srvVars>>

(* mark_disconnected drains the map: every sender gets DISCONNECTED_MESSAGE. *)
Drain(k) ==
    /\ pending' = [pending EXCEPT ![k] = {}]
    /\ reply' = [c \in Calls |->
                    IF <<id[c], c>> \in pending[k]
                    THEN Answer([id |-> id[c], call |-> c, mode |-> mode[c]], "disc")
                    ELSE reply[c]]

(* The writer task ends and with it the queue. *)
writer_drains(k) ==
    /\ writer[k] = "drain"
    /\ Drain(k)
    /\ writer' = [writer EXCEPT ![k] = "off"]
    /\ outQ' = [outQ EXCEPT ![k] = <<>>]
    /\ UNCHANGED <<setVars, events, pc, locals, result, effects, target,
                   connected, nextId, reader, netVars, srvVars>>

(* dispatch_incoming_line: an answer goes to the call that waits under its *)
(* id; an answer nobody waits for is dropped.                              *)
dispatch_incoming_line(k) ==
    /\ reader[k] = "on" /\ s2c[k] # <<>> /\ Head(s2c[k]) # EOF
    /\ LET m == Head(s2c[k])
           to == {p \in pending[k] : p[1] = m.id}
       IN /\ pending' = [pending EXCEPT ![k] = @ \ to]
          /\ reply' = [c \in Calls |->
                          IF \E p \in to : p[2] = c THEN m ELSE reply[c]]
    /\ s2c' = [s2c EXCEPT ![k] = Tail(@)]
    /\ UNCHANGED <<setVars, events, pc, locals, result, effects,
                   target, connected, nextId, outQ, writer, reader, link, srvVars>>

(* read_loop leaves its loop. *)
reader_ends(k) ==
    /\ reader[k] = "on" /\ s2c[k] # <<>> /\ Head(s2c[k]) = EOF
    /\ s2c' = [s2c EXCEPT ![k] = <<>>]
    /\ connected' = [connected EXCEPT ![k] = FALSE]
    /\ reader' = [reader EXCEPT ![k] = "drain"]
    /\ UNCHANGED <<setVars, events, callVars, effects, target, nextId, pending,
                   outQ, writer, link, srvVars>>

reader_drains(k) ==
    /\ reader[k] = "drain"
    /\ Drain(k)
    /\ reader' = [reader EXCEPT ![k] = "off"]
    /\ UNCHANGED <<setVars, events, pc, locals, result, effects,
                   target, connected, nextId, outQ, writer, netVars, srvVars>>

-----------------------------------------------------------------------------
(* The daemon: handle_client and spawn_rpc_response_task *)

(* handle_client returns: the writer task is aborted, so answers it did not *)
(* write are lost, and the socket is closed.  RPC tasks go on.              *)
handle_client_eof(k) ==
    /\ serving[k]
    /\ (link[k] = "up" /\ writer[k] = "off") \/ link[k] = "cut"
    /\ serving' = [serving EXCEPT ![k] = FALSE]
    /\ authed' = [authed EXCEPT ![k] = FALSE]
    /\ \E rest \in Prefixes(s2c[k]) :
          s2c' = [s2c EXCEPT ![k] = IF link[k] = "up" THEN Append(rest, EOF) ELSE @]
    /\ UNCHANGED <<setVars, events, callVars, effects, appVars, link, jobs>>

(* A line for the client; nothing gets through once the link is broken or  *)
(* the writer task is gone.                                                *)
Respond(k, q, res) ==
    s2c' = [s2c EXCEPT ![k] = IF serving[k] /\ link[k] = "up"
                              THEN Append(@, Answer(q, res)) ELSE @]

(* A line of a client that has not authenticated is answered at once. *)
Unauthenticated(k, q) ==
    LET tok == TokenOf[target[k]] IN
    /\ ~authed[k]
    /\ \/ /\ q.mode # "auth"
          /\ Respond(k, q, "unauthorized")
          /\ UNCHANGED authed
       \/ /\ q.mode = "auth" /\ tok # "right"
          /\ Respond(k, q, "err")
          /\ UNCHANGED authed
       \/ /\ q.mode = "auth" /\ tok = "right"
          /\ Respond(k, q, "ok")
          /\ authed' = [authed EXCEPT ![k] = TRUE]

handle_client_line(k) ==
    /\ Writable(k) /\ writer[k] = "on" /\ outQ[k] # <<>>
    /\ LET q == Head(outQ[k]) IN
       \/ Unauthenticated(k, q) /\ UNCHANGED jobs
       \/ /\ authed[k]
          /\ jobs' = [jobs EXCEPT ![k] = @ \cup
                {[id |-> q.id, call |-> q.call, mode |-> q.mode,
                  step |-> "queued"]}]
          /\ UNCHANGED <<s2c, authed>>
    /\ outQ' = [outQ EXCEPT ![k] = Tail(@)]
    /\ UNCHANGED <<setVars, events, callVars, effects, target, connected, nextId,
                   pending, writer, reader, link, serving>>

Running(k) == {j \in jobs[k] : j.step = "running"}

(* Variant: requests run without a permit. *)
rpc_start_unlimited(k, j) ==
    /\ j \in jobs[k] /\ j.step = "queued"
    /\ jobs' = [jobs EXCEPT ![k] = (@ \ {j}) \cup {[j EXCEPT !.step = "running"]}]
    /\ effects' = IF j.mode = "rpc"
                  THEN [effects EXCEPT ![j.call] = @ + 1] ELSE effects
    /\ UNCHANGED <<setVars, events, callVars, appVars, netVars, serving, authed>>

(* The task gets a permit and the handler of its method takes effect.      *)
(* dispatch_rpc_request knows no method "auth".                            *)
rpc_start(k, j) ==
    /\ j \in jobs[k] /\ j.step = "queued"
    /\ Cardinality(Running(k)) < MaxInFlight
    /\ jobs' = [jobs EXCEPT ![k] = (@ \ {j}) \cup {[j EXCEPT !.step = "running"]}]
    /\ effects' = IF j.mode = "rpc"
                  THEN [effects EXCEPT ![j.call] = @ + 1] ELSE effects
    /\ UNCHANGED <<setVars, events, callVars, appVars, netVars, serving, authed>>

(* The handler returns Ok or Err; the answer is sent if the connection is  *)
(* still there, and the permit is returned.                                *)
rpc_finish(k, j) ==
    /\ j \in Running(k)
    /\ jobs' = [jobs EXCEPT ![k] = @ \ {j}]
    /\ \E res \in IF j.mode = "rpc" THEN {"ok", "err"} ELSE {"err"} : Respond(k, j, res)
    /\ UNCHANGED <<setVars, events, callVars, effects, appVars, link, serving,
                   authed>>

-----------------------------------------------------------------------------
(* Faults and settings *)

(* The connection breaks: some of the answers under way arrive.  Either both *)
(* ends are told ("cut"), or neither is ("dark").                          *)
Break(k, how) ==
    /\ events < MaxEvents
    /\ link[k] = "up" /\ (serving[k] \/ reader[k] = "on")
    /\ events' = events + 1
    /\ link' = [link EXCEPT ![k] = how]
    /\ \E rest \in Prefixes(s2c[k]) :
          s2c' = [s2c EXCEPT ![k] = IF how = "cut" /\ reader[k] = "on"
                                    THEN Append(rest, EOF) ELSE rest]
    /\ UNCHANGED <<setVars, callVars, effects, appVars, srvVars>>

(* The daemon stops and is started again: its tasks are gone. *)
DaemonRestart ==
    /\ events < MaxEvents
    /\ \E k \in Conns : serving[k]
    /\ events' = events + 1
    /\ serving' = [k \in Conns |-> FALSE]
    /\ authed' = [k \in Conns |-> FALSE]
    /\ jobs' = [k \in Conns |-> {}]
    /\ \E rest \in [Conns -> UNION {Prefixes(s2c[k]) : k \in Conns}] :
          /\ \A k \in Conns : rest[k] \in Prefixes(s2c[k])
          /\ s2c' = [k \in Conns |-> IF serving[k] /\ link[k] = "up"
                                     THEN Append(rest[k], EOF) ELSE s2c[k]]
    /\ UNCHANGED <<setVars, callVars, effects, appVars, link>>

(* update_app_settings saves the settings and finds out whether to reset:  *)
(* should_reset_remote_backend compares them with what it read before the  *)
(* save, which another update may have replaced since.  One that cannot    *)
(* write the file changes nothing.                                         *)
update_app_settings(r) ==
    /\ events < MaxEvents
    /\ \E previous \in had :
          /\ r \notin {previous} \cap {setting}
          /\ saving' = IF r = previous THEN saving ELSE saving + 1
    /\ setting' = r
    /\ had' = had \cup {r}
    /\ events' = events + 1
    /\ UNCHANGED <<cached, callVars, effects, appVars, netVars, srvVars>>

(* ... and forgets the shared client. *)
reset_remote_backend ==
    /\ saving > 0
    /\ saving' = saving - 1
    /\ cached' = None
    /\ UNCHANGED <<setting, had, events, callVars, effects, appVars, netVars,
                   srvVars>>

-----------------------------------------------------------------------------
CallStep(c) ==
    \/ ensure_remote_backend(c) \/ resolve_transport_config(c)
    \/ \E k \in Conns : connect(c, k)
    \/ connect_fails(c)
    \/ call_check(c) \/ call_insert(c) \/ call_send(c) \/ call_send_timeout(c)
    \/ call_reply(c) \/ call_timeout(c)

WriterStep(k) ==
    writer_loses(k) \/ writer_fails(k) \/ writer_ends(k) \/ writer_drains(k)

ReaderStep(k) ==
    dispatch_incoming_line(k) \/ reader_ends(k) \/ reader_drains(k)

ServerStep(k) == handle_client_eof(k) \/ handle_client_line(k)

JobStep(k, j) == rpc_start(k, j) \/ rpc_finish(k, j)

(* Every call has returned; the connections may idle on. *)
Quiet ==
    /\ \A c \in Calls : pc[c] = "done"
    /\ UNCHANGED vars

Next ==
    \/ \E c \in Calls : CallStep(c)
    \/ \E k \in Conns : WriterStep(k) \/ ReaderStep(k) \/ ServerStep(k)
    \/ \E k \in Conns : \E j \in jobs[k] : JobStep(k, j)
    \/ \E k \in Conns, how \in {"cut", "dark"} : Break(k, how)
    \/ DaemonRestart
    \/ \E r \in Remotes : update_app_settings(r)
    \/ reset_remote_backend
    \/ Quiet

(* tokio polls every task that can go on, timers included.  A call's       *)
(* fairness is that it takes some step: nothing says that an answer beats   *)
(* the timeout, and nothing is assumed of the handlers of RPC requests,    *)
(* which may hang.  Each subscript names what every step of the task       *)
(* changes.                                                                *)
Fairness ==
    /\ \A c \in Calls : WF_pc(CallStep(c))
    /\ \A k \in Conns :
          /\ WF_<<outQ, writer>>(WriterStep(k))
          /\ WF_<<s2c, reader>>(ReaderStep(k))
          /\ WF_<<outQ, serving>>(ServerStep(k))

Spec == Init /\ [][Next]_vars /\ Fairness

-----------------------------------------------------------------------------
TypeOK ==
    /\ cached \in Conns \cup {None} /\ setting \in Remotes
    /\ had \subseteq Remotes /\ saving \in Nat /\ events \in 0..MaxEvents
    /\ pc \in [Calls -> {"idle", "ensure", "resolve", "connect", "check", "insert", "send",
                         "wait", "done"}]
    /\ mode \in [Calls -> {"auth", "rpc"}]
    /\ dial \in [Calls -> Remotes \cup {None}]
    /\ on \in [Calls -> Conns \cup {None}] /\ lost \in [Calls -> Conns \cup {None}]
    /\ id \in [Calls -> Nat]
    /\ reply \in [Calls -> Response \cup {None}]
    /\ result \in [Calls -> {"none", "ok", "err"}]
    /\ effects \in [Calls -> Nat]
    /\ target \in [Conns -> Remotes \cup {None}]
    /\ connected \in [Conns -> BOOLEAN] /\ nextId \in [Conns -> Nat \ {0}]
    /\ pending \in [Conns -> SUBSET (Nat \X Calls)]
    /\ outQ \in [Conns -> Seq(Request)]
    /\ writer \in [Conns -> {"on", "drain", "off"}]
    /\ reader \in [Conns -> {"on", "drain", "off"}]
    /\ link \in [Conns -> {"none", "up", "cut", "dark"}]
    /\ s2c \in [Conns -> Seq(Response \cup {EOF})]
    /\ serving \in [Conns -> BOOLEAN] /\ authed \in [Conns -> BOOLEAN]
    /\ jobs \in [Conns -> SUBSET Job]
    /\ \A k \in Conns : /\ Len(outQ[k]) <= QueueCapacity
                        /\ Cardinality(Running(k)) <= MaxInFlight

(* An answer is handed to the call it answers, and to the request that call *)
(* is waiting for now: late answers of timed-out requests and answers on an *)
(* abandoned connection reach nobody.                                       *)
OwnAnswer ==
    \A c \in Calls : reply[c] # None =>
        reply[c].call = c /\ reply[c].mode = mode[c] /\ reply[c].id = id[c]

(* The pending map holds only calls that will still look at their receiver: *)
(* neither a timeout nor a failed send leaves an entry behind.              *)
PendingIsAwaited ==
    \A k \in Conns : \A p \in pending[k] :
        pc[p[2]] \in {"send", "wait"} /\ on[p[2]] = k /\ id[p[2]] = p[1]

(* A client that has a token to present is never told "unauthorized": other *)
(* calls get to use a connection only after its "auth" was answered.        *)
NeverUnauthorized ==
    \A c \in Calls :
        (reply[c] # None /\ reply[c].res = "unauthorized")
            => TokenOf[target[on[c]]] = "none"

(* A retry does not run into the connection whose loss it is a retry of. *)
RetryLeavesLostConnection ==
    \A c \in Calls : (Active(c) /\ lost[c] # None /\ pc[c] # "ensure")
                        => (pc[c] \in {"resolve", "connect"} \/ on[c] # lost[c])

(* What the caller sees is RequestReply: at most one execution, two for the *)
(* methods that can_retry_after_disconnect lists, and success only after    *)
(* one.                                                                    *)
Status(c) == CASE pc[c] = "idle" -> "unsent"
               [] pc[c] = "done" -> result[c]
               [] OTHER          -> "open"

Contract == INSTANCE RequestReply
    WITH Replayable <- Retryable, status <- [c \in Calls |-> Status(c)]

ImplementsRequestReply == Contract!Safety

(* Every call returns: no lost line, dead task or silent daemon leaves one *)
(* waiting.                                                                *)
CallsReturn == Contract!Fairness

-----------------------------------------------------------------------------
(* The inductive invariant behind these properties *)

Lines(k) == Range(outQ[k])
Answers(k) == Range(s2c[k]) \ {EOF}

Attached(c) == pc[c] \in {"check", "insert", "send", "wait"}
Numbered(c) == pc[c] \in {"insert", "send", "wait"}

LocalsSet ==
    \A c \in Calls :
        /\ on[c] # None <=> Attached(c)
        /\ lost[c] # None => Active(c)
        /\ mode[c] = "auth" => Attached(c)
        /\ reply[c] # None => pc[c] \in {"send", "wait"}
        /\ pc[c] = "connect" => dial[c] # None

(* A connection that was not made yet is nowhere in use. *)
ConnectionsUsed ==
    \A k \in Conns :
        /\ link[k] # "none" => target[k] # None
        /\ link[k] = "none" =>
              /\ cached # k
              /\ Lines(k) = {} /\ Answers(k) = {} /\ jobs[k] = {}
              /\ \A c \in Calls : on[c] # k /\ lost[c] # k

(* A call in the pending map has no answer yet. *)
AnsweredOnce ==
    \A c \in Calls : reply[c] # None => <<id[c], c>> \notin pending[on[c]]

(* Ids are not reused on a connection: whatever carries the id of a waiting *)
(* call is that call's request, its RPC task or its answer.                 *)
IdsIdentify ==
    /\ \A c \in Calls : Numbered(c) =>
          /\ id[c] < nextId[on[c]]
          /\ \A d \in Calls \ {c} :
                (Numbered(d) /\ on[d] = on[c]) => id[d] # id[c]
    /\ \A k \in Conns : \A q \in Lines(k) \cup jobs[k] \cup Answers(k) :
          /\ q.id < nextId[k]
          /\ \A c \in Calls : (Numbered(c) /\ on[c] = k /\ id[c] = q.id)
                                => (q.call = c /\ q.mode = mode[c])

(* A connection being authenticated belongs to one call alone, and a failed *)
(* attempt's connection is never the shared one again.                     *)
AuthIsPrivate ==
    \A d \in Calls : mode[d] = "auth" =>
        /\ cached # on[d]
        /\ \A c \in Calls : lost[c] # on[d] /\ (c # d => on[c] # on[d])

LostStaysLost ==
    \A c \in Calls : lost[c] # None => (cached # lost[c] /\ on[c] # lost[c])

(* The daemon would not refuse a request sent on k now. *)
Trusted(k) == TokenOf[target[k]] = "none" \/ authed[k] \/ ~serving[k]

(* An answer on connection k tells nothing wrong. *)
AnswerFits(k, a) ==
    /\ (a.mode = "auth" /\ a.res = "ok") => Trusted(k)
    /\ a.res = "unauthorized" => TokenOf[target[k]] = "none"
    /\ (a.mode = "rpc" /\ a.res = "ok") => effects[a.call] > 0

SharedIsTrusted ==
    /\ cached # None => Trusted(cached)
    /\ \A c \in Calls : (on[c] # None /\ mode[c] = "rpc") => Trusted(on[c])
    /\ \A k \in Conns : \A q \in Lines(k) : q.mode = "rpc" => Trusted(k)

AnswersFit ==
    /\ \A k \in Conns : \A a \in Answers(k) : AnswerFits(k, a)
    /\ \A c \in Calls : reply[c] # None => AnswerFits(on[c], reply[c])
    /\ \A k \in Conns : \A j \in Running(k) : j.mode = "rpc" => effects[j.call] > 0

(* Requests for call c under way on connection k: lines and waiting tasks. *)
RpcOf(q, c) == q.call = c /\ q.mode = "rpc"
Sent(k, c) == {i \in DOMAIN outQ[k] : RpcOf(outQ[k][i], c)}
Queued(k, c) == {j \in jobs[k] : j.step = "queued" /\ RpcOf(j, c)}
Unexecuted(c) == {k \in Conns : Sent(k, c) \cup Queued(k, c) # {}}

SentOnce ==
    \A k \in Conns, c \in Calls :
        /\ \A i, j \in Sent(k, c) : i = j
        /\ \A i, j \in Queued(k, c) : i = j
        /\ Sent(k, c) = {} \/ Queued(k, c) = {}
        /\ k \in Unexecuted(c) =>
              \/ pc[c] = "done"
              \/ lost[c] = k
              \/ on[c] = k /\ pc[c] = "wait" /\ mode[c] = "rpc"

(* How often call_remote may still send the request of c. *)
SendsLeft(c) ==
    IF pc[c] = "done" THEN 0
    ELSE (IF can_retry_after_disconnect(c) THEN 1 ELSE 0)
       + (IF pc[c] = "wait" /\ mode[c] = "rpc" THEN 0 ELSE 1)

(* Executions that happened, that are under way and that may yet be asked   *)
(* for stay within what RequestReply allows.                               *)
EffectsBounded ==
    \A c \in Calls :
        /\ IsFiniteSet(Unexecuted(c))
        /\ effects[c] + Cardinality(Unexecuted(c)) + SendsLeft(c)
              <= Contract!MaxEffects(c)

InductiveInvariant ==
    /\ TypeOK /\ LocalsSet /\ ConnectionsUsed
    /\ \A k \in Conns : IsFiniteSet(jobs[k])
    /\ PendingIsAwaited /\ AnsweredOnce /\ OwnAnswer /\ IdsIdentify
    /\ AuthIsPrivate /\ LostStaysLost /\ SharedIsTrusted /\ AnswersFit
    /\ SentOnce /\ EffectsBounded

-----------------------------------------------------------------------------
(* Nobody can use the connection any more, yet one end of it is still up;  *)
(* a link that went dark is nobody's to take down.                         *)
Stray(k) ==
    /\ link[k] \notin {"none", "dark"} /\ ~Referenced(k)
    /\ reader[k] # "off" \/ writer[k] # "off" \/ serving[k]

(* A connection nobody refers to any more is taken down on both sides,      *)
(* unless the network went dark under it.                                   *)
StrayConnectionsClose == \A k \in Conns : []<>~Stray(k)

(* The shared client talks to the remote the settings name. *)
CachedFollowsSettings ==
    (cached # None /\ saving = 0) => target[cached] = setting
=============================================================================
