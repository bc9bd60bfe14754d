-------------------------- MODULE AppServerSession --------------------------
(***************************************************************************)
(* One running app-server and the WorkspaceSession through which all       *)
(* workspaces talk to it: send_request_for_workspace, the task that reads  *)
(* the child's output and routes every line, and the background prompts    *)
(* that run a turn on a thread the user must not see                       *)
(* (src-tauri/src/backend/app_server.rs, shared/codex_aux_core.rs).        *)
(*                                                                         *)
(* The child is modelled from codex-rs/app-server: a thread may be         *)
(* reported on before the answer that names it, thread/started follows     *)
(* that answer, and an agent the child spawns itself is not announced at   *)
(* all.  The codex binary is the user's, of any version, so the model also *)
(* has a child that announces, lists and archives memory agents, which is  *)
(* what the hiding of threads in app_server.rs is there for.               *)
(***************************************************************************)
EXTENDS Naturals, Sequences, FiniteSets

CONSTANTS
    Plain,        \* requests made on their own
    Kind,         \* of a plain request: "start", "list" or "login"
    Prompts,      \* runs of run_background_prompt_core
    Memory,       \* threads of the memory consolidation agent
    WsOf,         \* the workspace a plain request or a prompt is for
    Workspaces,
    Encloses,     \* of a workspace: those whose root its own root lies in
    Owner,        \* owner_workspace_id, where unrouted lines go
    OutCap,       \* bound: lines in the pipe from the child
    Workloads,    \* sets of requests, prompts, memory threads and leaving
                  \* workspaces that occur together
    None

(* A prompt makes three requests, one after the other. *)
Steps == {"start", "turn", "archive"}

Calls == Plain \cup (Prompts \X Steps)

StartOf(p) == <<p, "start">>

(* A thread carries the name of the plain request or the prompt that starts it. *)
Threads == {c \in Plain : Kind[c] = "start"} \cup Prompts \cup Memory

IsPlain(c) == c \in Plain

Of(c) == IF IsPlain(c) THEN c ELSE c[1]

Method(c) == IF IsPlain(c) THEN Kind[c] ELSE c[2]

Workspace(c) == WsOf[Of(c)]

ASSUME ConstantsAssumption ==
    /\ Kind \in [Plain -> {"start", "list", "login"}]
    /\ WsOf \in [Plain \cup Prompts -> Workspaces]
    /\ Owner \in Workspaces
    /\ Encloses \in [Workspaces -> SUBSET Workspaces]
    /\ OutCap \in Nat \ {0}
    /\ \A w \in Workloads : w \subseteq Plain \cup Prompts \cup Memory \cup Workspaces

(* No two workspaces have the same root. *)
ASSUME EnclosesAssumption ==
    \A v, w \in Workspaces : v \in Encloses[w] => w \notin Encloses[v]

ASSUME DistinctAssumption ==
    /\ Plain \cap Prompts = {} /\ Plain \cap Memory = {} /\ Prompts \cap Memory = {}
    /\ Plain \cap (Prompts \X Steps) = {}
    /\ None \notin Workspaces /\ None \notin Plain \cup Prompts \cup Memory

VARIABLES
    load,      \* the workload of this behaviour
    \* one entry per request
    st,        \* how far send_request_for_workspace got
    id,        \* its id
    inbox,     \* what its receiver holds
    res,       \* what it returned
    effects,   \* how often the child executed it
    \* WorkspaceSession
    nextId, pending, context, threadWs, hidden, callbacks, ids, roots,
    left,      \* history: workspaces that were unregistered at some time
    reader,    \* "on", "cleared" between its two clears, "off"
    \* background prompts
    step,      \* where each prompt is
    events,    \* what its callback channel holds
    \* the child
    child,     \* "up" or "dead"
    got,       \* requests it read and has not answered
    fine,      \* requests whose execution succeeded
    thread,    \* the life of each thread
    out,       \* lines it wrote and the reader has not read
    \* the user interface
    shown,     \* <<thread, workspace>> of the events it was sent
    hiddenUi,  \* threads it was told to hide
    \* history
    named,     \* memory agents the session was told of, by a list or thread/started
    exposed,   \* threads with an event it should not have seen
    astray     \* threads with an event that went to the wrong workspace

callVars == <<st, id, inbox, res>>
wsVars == <<ids, roots, left>>
sessVars == <<nextId, pending, context, threadWs, hidden, callbacks, wsVars, reader>>
promptVars == <<step, events>>
childVars == <<child, got, fine, thread, out, effects>>
uiVars == <<shown, hiddenUi, named, exposed, astray>>
vars == <<load, callVars, sessVars, promptVars, childVars, uiVars>>

(* Lines of the child: an answer, or a notification about a thread, where   *)
(* a "note" is a status, a warning or another event outside of turns.       *)
Notes == {"note", "started", "turn", "archived"}

Line == [type : {"answer", "account"} \cup Notes, call : Calls \cup Threads, id : Nat,
         ok : BOOLEAN, list : SUBSET Threads]

Answer(c, ok, list) == [type |-> "answer", call |-> c, id |-> id[c], ok |-> ok, list |-> list]

Notify(what, t) == [type |-> what, call |-> t, id |-> 0, ok |-> TRUE, list |-> {}]

Init ==
    /\ load \in Workloads
    /\ st = [c \in Calls |-> "unsent"] /\ id = [c \in Calls |-> 0]
    /\ inbox = [c \in Calls |-> "empty"] /\ res = [c \in Calls |-> "none"]
    /\ effects = [c \in Calls |-> 0]
    /\ nextId = 1 /\ pending = {} /\ context = {}
    /\ threadWs = [t \in Threads |-> None] /\ hidden = {} /\ callbacks = {}
    /\ ids = Workspaces /\ roots = Workspaces /\ left = {} /\ reader = "on"
    /\ step = [p \in Prompts |-> "idle"] /\ events = [p \in Prompts |-> {}]
    /\ child = "up" /\ got = {} /\ fine = {} /\ out = <<>>
    /\ thread = [t \in Threads |-> "none"]
    /\ shown = {} /\ hiddenUi = {} /\ named = {} /\ exposed = {} /\ astray = {}

-----------------------------------------------------------------------------
(* send_request_for_workspace *)

Goto(c, s) == st' = [st EXCEPT ![c] = s]

(* Plain requests are made at any time, those of a prompt in their turn. *)
Due(c) == IF IsPlain(c) THEN c \in load ELSE step[c[1]] = c[2]

(* Variant: the id is read, not taken. *)
send_request_sharing_id(c) ==
    /\ st[c] = "unsent" /\ Due(c)
    /\ id' = [id EXCEPT ![c] = nextId]
    /\ UNCHANGED nextId
    /\ ids' = ids \cup {Workspace(c)}
    /\ pending' = pending \cup {<<nextId, c>>}
    /\ Goto(c, "inserted")
    /\ UNCHANGED <<load, inbox, res, context, threadWs, hidden, callbacks, roots, left, reader,
                   promptVars, childVars, uiVars>>

(* fetch_add, register_workspace, and the sender enters the pending map. *)
send_request(c) ==
    /\ st[c] = "unsent" /\ Due(c)
    /\ id' = [id EXCEPT ![c] = nextId]
    /\ nextId' = nextId + 1
    /\ ids' = ids \cup {Workspace(c)}
    /\ pending' = pending \cup {<<nextId, c>>}
    /\ Goto(c, "inserted")
    /\ UNCHANGED <<load, inbox, res, context, threadWs, hidden, callbacks, roots, left, reader,
                   promptVars, childVars, uiVars>>

(* The context enters its map; a request that names a thread claims it. *)
send_request_context(c) ==
    /\ st[c] = "inserted"
    /\ context' = context \cup {<<id[c], c>>}
    /\ threadWs' = IF Method(c) \in {"turn", "archive"}
                   THEN [threadWs EXCEPT ![Of(c)] = Workspace(c)] ELSE threadWs
    /\ Goto(c, "write")
    /\ UNCHANGED <<load, id, inbox, res, nextId, pending, hidden, callbacks, wsVars, reader,
                   promptVars, childVars, uiVars>>

Forget(c) ==
    /\ pending' = pending \ {<<id[c], c>>}
    /\ context' = context \ {<<id[c], c>>}

Returns(c, r) ==
    /\ Goto(c, "done")
    /\ res' = [res EXCEPT ![c] = r]

(* write_message; a dead child cannot be written to. *)
send_request_write(c) ==
    /\ st[c] = "write"
    /\ \/ /\ child = "up"
          /\ got' = got \cup {c}
          /\ Goto(c, "wait")
          /\ UNCHANGED <<res, pending, context>>
       \/ /\ child = "dead"
          /\ Forget(c)
          /\ Returns(c, "err")
          /\ UNCHANGED got
    /\ UNCHANGED <<load, id, inbox, nextId, threadWs, hidden, callbacks, wsVars, reader,
                   promptVars, child, fine, thread, out, effects, uiVars>>

(* The receiver resolves: with the answer, or because its sender is gone. *)
send_request_answer(c) ==
    /\ st[c] = "wait" /\ inbox[c] # "empty"
    /\ Returns(c, IF inbox[c] = "canceled" THEN "err" ELSE "ok")
    /\ UNCHANGED <<load, id, inbox, sessVars, promptVars, childVars, uiVars>>

(* Variant: the context of the timed-out request stays. *)
send_request_timeout_leaving_context(c) ==
    /\ st[c] = "wait" /\ inbox[c] = "empty"
    /\ pending' = pending \ {<<id[c], c>>}
    /\ UNCHANGED context
    /\ Returns(c, "err")
    /\ UNCHANGED <<load, id, inbox, nextId, threadWs, hidden, callbacks, wsVars, reader,
                   promptVars, childVars, uiVars>>

(* Variant: only a dead child is given up. *)
send_request_timeout_if_dead(c) ==
    /\ st[c] = "wait" /\ inbox[c] = "empty"
    /\ child = "dead"
    /\ Forget(c)
    /\ Returns(c, "err")
    /\ UNCHANGED <<load, id, inbox, nextId, threadWs, hidden, callbacks, wsVars, reader,
                   promptVars, childVars, uiVars>>

(* REQUEST_TIMEOUT. *)
send_request_timeout(c) ==
    /\ st[c] = "wait" /\ inbox[c] = "empty"
    /\ Forget(c)
    /\ Returns(c, "err")
    /\ UNCHANGED <<load, id, inbox, nextId, threadWs, hidden, callbacks, wsVars, reader,
                   promptVars, childVars, uiVars>>

(* codex_login_core drops the request when it is canceled or takes 30 s,   *)
(* at whichever await it is: nothing is removed.                           *)
login_dropped(c) ==
    /\ Method(c) = "login" /\ st[c] \in {"inserted", "write", "wait"}
    /\ Returns(c, "err")
    /\ UNCHANGED <<load, id, inbox, sessVars, promptVars, childVars, uiVars>>

-----------------------------------------------------------------------------
(* run_background_prompt_core *)

At(p, s) == step' = [step EXCEPT ![p] = s]

prompt_begins(p) ==
    /\ p \in load /\ step[p] = "idle"
    /\ At(p, "start")
    /\ UNCHANGED <<load, callVars, sessVars, events, childVars, uiVars>>

StartGaveThread(p) ==
    /\ step[p] = "start" /\ st[StartOf(p)] = "done"
    /\ res[StartOf(p)] = "ok" /\ inbox[StartOf(p)] = "answer"

(* thread/start failed, or its answer is an error. *)
prompt_without_thread(p) ==
    /\ step[p] = "start" /\ st[StartOf(p)] = "done" /\ ~StartGaveThread(p)
    /\ At(p, "done")
    /\ UNCHANGED <<load, callVars, sessVars, events, childVars, uiVars>>

(* Variant: the user interface is not told. *)
prompt_hides_silently(p) ==
    /\ StartGaveThread(p)
    /\ At(p, "register")
    /\ UNCHANGED <<load, callVars, sessVars, events, childVars, uiVars>>

(* on_hide_thread tells the user interface ... *)
prompt_hides(p) ==
    /\ StartGaveThread(p)
    /\ hiddenUi' = hiddenUi \cup {p}
    /\ At(p, "register")
    /\ UNCHANGED <<load, callVars, sessVars, events, childVars, shown, named, exposed, astray>>

(* ... then the callback is registered and the turn is started. *)
prompt_registers(p) ==
    /\ step[p] = "register"
    /\ callbacks' = callbacks \cup {p}
    /\ At(p, "turn")
    /\ UNCHANGED <<load, callVars, nextId, pending, context, threadWs, hidden, wsVars, reader,
                   events, childVars, uiVars>>

Turn(p) == <<p, "turn">>

(* turn/start was accepted: collect events. *)
prompt_collects(p) ==
    /\ step[p] = "turn" /\ st[Turn(p)] = "done"
    /\ res[Turn(p)] = "ok" /\ inbox[Turn(p)] = "answer"
    /\ At(p, "collect")
    /\ UNCHANGED <<load, callVars, sessVars, events, childVars, uiVars>>

(* turn/start failed, the turn ended, or 60 s are over: the callback is     *)
(* removed and the thread is archived.                                     *)
PromptOver(p) ==
    \/ /\ step[p] = "turn" /\ st[Turn(p)] = "done"
       /\ ~(res[Turn(p)] = "ok" /\ inbox[Turn(p)] = "answer")
    \/ step[p] = "collect"

(* Variant: the callback outlives a turn that could not be started. *)
prompt_keeps_callback(p) ==
    /\ PromptOver(p)
    /\ callbacks' = IF step[p] = "turn" THEN callbacks ELSE callbacks \ {p}
    /\ At(p, "archive")
    /\ UNCHANGED <<load, callVars, nextId, pending, context, threadWs, hidden, wsVars, reader,
                   events, childVars, uiVars>>

prompt_removes_callback(p) ==
    /\ PromptOver(p)
    /\ callbacks' = callbacks \ {p}
    /\ At(p, "archive")
    /\ UNCHANGED <<load, callVars, nextId, pending, context, threadWs, hidden, wsVars, reader,
                   events, childVars, uiVars>>

prompt_returns(p) ==
    /\ step[p] = "archive" /\ st[<<p, "archive">>] = "done"
    /\ At(p, "done")
    /\ UNCHANGED <<load, callVars, sessVars, events, childVars, uiVars>>

-----------------------------------------------------------------------------
(* The task that reads the child's output *)

(* Variant: no owner to fall back to. *)
Routed_without_fallback(t) == threadWs[t]

(* Where a line about thread t goes: to the workspace the thread is mapped  *)
(* to, else to that of the request it answers, else to the owner.          *)
Routed(t) == IF threadWs[t] # None THEN threadWs[t] ELSE Owner

(* The root that a directory of workspace d lies in; of several, the one    *)
(* that all others enclose.                                                 *)
resolve_workspace_for_cwd(d) ==
    LET matching == roots \cap ({d} \cup Encloses[d])
        longest  == {w \in matching : matching \ {w} \subseteq Encloses[w]}
    IN IF longest = {} THEN None ELSE CHOOSE w \in longest : TRUE

(* The workspace of a listed thread, if a root matches its directory. *)
ListedIn(t) ==
    LET w == resolve_workspace_for_cwd(WsOf[t]) IN IF w = None THEN threadWs[t] ELSE w

(* Variant: the thread an answer starts is not recorded. *)
MapsTo_listing_only(m, known, t) ==
    IF ~known THEN threadWs[t]
    ELSE IF t \in m.list \cap Memory THEN None
    ELSE IF t \in m.list THEN ListedIn(t)
    ELSE threadWs[t]

(* The workspace of thread t after an answer whose context is `known`: the  *)
(* thread it starts goes to the requesting workspace, the threads it lists  *)
(* go where their directory is, those of memory agents nowhere.             *)
MapsTo(m, known, t) ==
    IF ~known THEN threadWs[t]
    ELSE IF m.ok /\ Method(m.call) = "start" /\ t = Of(m.call) THEN Workspace(m.call)
    ELSE IF t \in m.list \cap Memory THEN None
    ELSE IF t \in m.list THEN ListedIn(t)
    ELSE threadWs[t]

(* An answer: the context is taken, threads are mapped, and the caller gets *)
(* it if it still waits.                                                    *)
reader_answer ==
    /\ reader = "on" /\ out # <<>> /\ Head(out).type = "answer"
    /\ LET m == Head(out)
           known == <<m.id, m.call>> \in context
       IN /\ context' = {x \in context : x[1] # m.id}
          /\ threadWs' = [t \in Threads |-> MapsTo(m, known, t)]
          /\ hidden' = IF known THEN hidden \cup (m.list \cap Memory) ELSE hidden
          /\ pending' = {x \in pending : x[1] # m.id}
          /\ named' = IF \E x \in pending : x[1] = m.id
                      THEN named \cup (m.list \cap Memory) ELSE named
          /\ inbox' = [x \in Calls |->
                IF <<m.id, x>> \in pending
                THEN (IF m.ok THEN "answer" ELSE "error") ELSE inbox[x]]
    /\ out' = Tail(out)
    /\ UNCHANGED <<load, st, id, res, nextId, callbacks, wsVars, reader, promptVars,
                   child, got, fine, thread, effects, shown, hiddenUi, exposed, astray>>

(* Variant: only the user interface is told. *)
HideStarted_in_ui_only(t) ==
    /\ hiddenUi' = hiddenUi \cup {t}
    /\ named' = named \cup {t}
    /\ UNCHANGED <<hidden, threadWs, shown, exposed, astray, events>>

(* thread/started of a memory consolidation agent: hide, tell the user     *)
(* interface, and go on with the next line.                                *)
HideStarted(t) ==
    /\ hidden' = hidden \cup {t}
    /\ hiddenUi' = hiddenUi \cup {t}
    /\ named' = named \cup {t}
    /\ UNCHANGED <<threadWs, shown, exposed, astray, events>>

(* What the histories record of an event of thread t sent to workspace w: a *)
(* turn of a prompt before the thread was to be hidden, an event other than *)
(* thread/archived of an agent the session was told of, an event that did   *)
(* not go to the workspace whose start was answered and that never left.    *)
Exposes(t, what) ==
    \/ t \in Prompts /\ what = "turn" /\ t \notin hiddenUi
    \/ t \in named /\ what # "archived"

Strays(t, w) ==
    \E c \in Calls : /\ Method(c) = "start" /\ Of(c) = t /\ inbox[c] = "answer"
                     /\ Workspace(c) \notin left /\ w # Workspace(c)

Emit(t, w, what) ==
    /\ shown' = shown \cup {<<t, w>>}
    /\ exposed' = IF Exposes(t, what) THEN exposed \cup {t} ELSE exposed
    /\ astray' = IF Strays(t, w) THEN astray \cup {t} ELSE astray

(* A hidden thread's notifications are dropped, thread/archived excepted;  *)
(* a thread with a callback has its notifications sent there; the others    *)
(* go to the user interface.                                               *)
Deliver(t, what) ==
    /\ IF t \in hidden /\ what # "archived"
       THEN UNCHANGED <<threadWs, hidden, events, shown, exposed, astray>>
       ELSE /\ IF what = "archived"
               THEN /\ threadWs' = [threadWs EXCEPT ![t] = None]
                    /\ hidden' = hidden \ {t}
               ELSE UNCHANGED <<threadWs, hidden>>
            /\ IF t \in callbacks
               THEN /\ events' = [events EXCEPT ![t] = @ \cup {what}]
                    /\ UNCHANGED <<shown, exposed, astray>>
               ELSE /\ Emit(t, Routed(t), what)
                    /\ UNCHANGED events
    /\ UNCHANGED <<hiddenUi, named>>

reader_notification ==
    /\ reader = "on" /\ out # <<>>
    /\ Head(out).type \in Notes
    /\ LET m == Head(out) IN
       IF m.type = "started" /\ m.call \in Memory
       THEN HideStarted(m.call) ELSE Deliver(m.call, m.type)
    /\ out' = Tail(out)
    /\ UNCHANGED <<load, callVars, nextId, pending, context, callbacks, wsVars, reader,
                   step, child, got, fine, thread, effects>>

(* A global account notification goes to every registered workspace. *)
reader_broadcast ==
    /\ reader = "on" /\ out # <<>> /\ Head(out).type = "account"
    /\ shown' = shown \cup {<<None, w>> : w \in IF ids = {} THEN {Owner} ELSE ids}
    /\ out' = Tail(out)
    /\ UNCHANGED <<load, callVars, sessVars, promptVars, child, got, fine, thread, effects,
                   hiddenUi, named, exposed, astray>>

(* The output ended: the senders are dropped ... *)
reader_clears_pending ==
    /\ reader = "on" /\ out = <<>> /\ child = "dead"
    /\ pending' = {}
    /\ inbox' = [c \in Calls |-> IF <<id[c], c>> \in pending THEN "canceled" ELSE inbox[c]]
    /\ reader' = "cleared"
    /\ UNCHANGED <<load, st, id, res, nextId, context, threadWs, hidden, callbacks, wsVars,
                   promptVars, childVars, uiVars>>

(* ... and then the contexts. *)
reader_clears_context ==
    /\ reader = "cleared"
    /\ context' = {}
    /\ reader' = "off"
    /\ UNCHANGED <<load, callVars, nextId, pending, threadWs, hidden, callbacks, wsVars,
                   promptVars, childVars, uiVars>>

(* A workspace leaves the session, be it the owner; its threads stay mapped. *)
unregister_workspace(w) ==
    /\ w \in load /\ w \in ids
    /\ ids' = ids \ {w}
    /\ roots' = roots \ {w}
    /\ left' = left \cup {w}
    /\ UNCHANGED <<load, callVars, nextId, pending, context, threadWs, hidden, callbacks,
                   reader, promptVars, childVars, uiVars>>

(* It connects again, and is registered with its path. *)
register_workspace_with_path(w) ==
    /\ w \notin roots
    /\ ids' = ids \cup {w}
    /\ roots' = roots \cup {w}
    /\ UNCHANGED <<load, callVars, nextId, pending, context, threadWs, hidden, callbacks,
                   left, reader, promptVars, childVars, uiVars>>

-----------------------------------------------------------------------------
(* The child *)

Room == child = "up" /\ Len(out) < OutCap

(* What a request does to the thread it is about, and when it can succeed. *)
ThreadAfter(c) ==
    CASE Method(c) = "start"   -> [thread EXCEPT ![Of(c)] = "made"]
      [] Method(c) = "turn"    -> [thread EXCEPT ![Of(c)] = "busy"]
      [] Method(c) = "archive" -> [thread EXCEPT ![Of(c)] = "archiving"]
      [] OTHER                 -> thread

Possible(c) ==
    CASE Method(c) = "turn"    -> thread[Of(c)] \in {"made", "idle"}
      [] Method(c) = "archive" -> thread[Of(c)] \in {"made", "idle", "busy", "ran"}
      [] OTHER                 -> TRUE

(* It executes a request it read, with or without success.  A thread it     *)
(* starts has its listener from here on.                                    *)
child_executes(c) ==
    /\ child = "up" /\ c \in got /\ effects[c] = 0
    /\ effects' = [effects EXCEPT ![c] = 1]
    /\ \/ /\ Possible(c)
          /\ thread' = ThreadAfter(c)
          /\ fine' = fine \cup {c}
       \/ UNCHANGED <<thread, fine>>
    /\ UNCHANGED <<load, callVars, sessVars, promptVars, child, got, out, uiVars>>

(* The threads a list may name; a page need not name all. *)
Listed == {t \in Threads : thread[t] \notin {"none", "gone"}}

(* What it announces behind the answer of a request that succeeded. *)
Announced(c) == c \in fine /\ Method(c) \in {"start", "archive", "login"}

Announcement(c) ==
    CASE Method(c) = "start"   -> Notify("started", Of(c))
      [] Method(c) = "archive" -> Notify("archived", Of(c))
      [] Method(c) = "login"   -> Notify("account", c)

(* It answers what it executed. *)
child_answers(c) ==
    /\ Room /\ c \in got /\ effects[c] = 1
    /\ got' = got \ {c}
    /\ \E list \in SUBSET Listed :
          /\ (Method(c) # "list" \/ c \notin fine) => list = {}
          /\ LET answered == Append(out, Answer(c, c \in fine, list))
             IN out' = IF Announced(c) THEN Append(answered, Announcement(c)) ELSE answered
    /\ thread' = IF Method(c) = "archive" /\ c \in fine
                 THEN [thread EXCEPT ![Of(c)] = "gone"] ELSE thread
    /\ UNCHANGED <<load, callVars, sessVars, promptVars, child, fine, effects, uiVars>>

Reports(t, what, s) ==
    /\ Room
    /\ out' = Append(out, Notify(what, t))
    /\ thread' = [thread EXCEPT ![t] = s]
    /\ UNCHANGED <<load, callVars, sessVars, promptVars, child, got, fine, effects, uiVars>>

(* A status or a warning of a new thread, before or after the answer of     *)
(* thread/start; one is enough to come first.                               *)
child_notes(t) ==
    /\ t \notin Memory /\ thread[t] = "made"
    /\ Reports(t, "note", "idle")

(* The events of a turn.  Those of the user's own threads follow requests   *)
(* that only somebody who was told of the thread can make.                  *)
child_runs_turn(t) ==
    /\ \/ thread[t] = "busy"
       \/ t \in (Plain \cap fine) \ got /\ thread[t] \in {"made", "idle"}
    /\ Reports(t, "turn", "ran")

(* The archive of a thread shuts it down, which ends its turn. *)
child_shuts_down(t) ==
    /\ thread[t] = "archiving"
    /\ Reports(t, "turn", "archiving")

(* It spawns a memory agent: a status first, then the turn of the agent.    *)
child_spawns_agent(t) ==
    /\ t \in Memory \cap load /\ thread[t] = "none"
    /\ Reports(t, "note", "busy")

(* The same of a child that announces the agent's thread ... *)
child_announces_agent(t) ==
    /\ t \in Memory \cap load /\ thread[t] = "none"
    /\ Reports(t, "started", "busy")

(* ... and of one that archives it. *)
child_archives_agent(t) ==
    /\ t \in Memory /\ thread[t] = "ran"
    /\ Reports(t, "archived", "gone")

(* It exits or is killed; what it wrote can still be read. *)
child_dies ==
    /\ child = "up"
    /\ child' = "dead"
    /\ got' = {}
    /\ UNCHANGED <<load, callVars, sessVars, promptVars, fine, thread, out, effects, uiVars>>

-----------------------------------------------------------------------------
RequestStep(c) ==
    \/ send_request(c) \/ send_request_context(c) \/ send_request_write(c)
    \/ send_request_answer(c) \/ send_request_timeout(c) \/ login_dropped(c)

PromptStep(p) ==
    \/ prompt_begins(p) \/ prompt_without_thread(p) \/ prompt_hides(p)
    \/ prompt_registers(p) \/ prompt_collects(p) \/ prompt_removes_callback(p)
    \/ prompt_returns(p)

ChildReports(t) ==
    \/ child_notes(t) \/ child_runs_turn(t) \/ child_shuts_down(t) \/ child_spawns_agent(t)
    \/ child_announces_agent(t) \/ child_archives_agent(t)

ReaderStep ==
    \/ reader_answer \/ reader_notification \/ reader_broadcast
    \/ reader_clears_pending \/ reader_clears_context

Finished ==
    /\ \A c \in Plain \cap load : st[c] = "done"
    /\ \A p \in Prompts \cap load : step[p] = "done"
    /\ UNCHANGED vars

Next ==
    \/ \E c \in Calls : RequestStep(c) \/ child_executes(c) \/ child_answers(c)
    \/ \E p \in Prompts : PromptStep(p)
    \/ ReaderStep
    \/ \E w \in Workspaces : unregister_workspace(w) \/ register_workspace_with_path(w)
    \/ \E t \in Threads : ChildReports(t)
    \/ child_dies
    \/ Finished

(* The runtime polls its tasks; the child need not do anything at all. *)
Fairness ==
    /\ \A c \in Calls : WF_vars(RequestStep(c))
    /\ \A p \in Prompts : WF_vars(PromptStep(p))
    /\ WF_vars(ReaderStep)

Spec == Init /\ [][Next]_vars /\ Fairness

-----------------------------------------------------------------------------
TypeOK ==
    /\ load \in Workloads
    /\ st \in [Calls -> {"unsent", "inserted", "write", "wait", "done"}]
    /\ id \in [Calls -> Nat] /\ nextId \in Nat
    /\ inbox \in [Calls -> {"empty", "answer", "error", "canceled"}]
    /\ res \in [Calls -> {"none", "ok", "err"}]
    /\ effects \in [Calls -> {0, 1}]
    /\ pending \subseteq Nat \X Calls /\ context \subseteq Nat \X Calls
    /\ threadWs \in [Threads -> Workspaces \cup {None}]
    /\ hidden \subseteq Threads /\ callbacks \subseteq Prompts /\ ids \subseteq Workspaces
    /\ roots \subseteq Workspaces /\ left \subseteq Workspaces
    /\ reader \in {"on", "cleared", "off"}
    /\ step \in [Prompts -> {"idle", "start", "register", "turn", "collect", "archive", "done"}]
    /\ events \in [Prompts -> SUBSET Notes]
    /\ child \in {"up", "dead"} /\ got \subseteq Calls /\ fine \subseteq Calls
    /\ thread \in [Threads -> {"none", "made", "idle", "busy", "ran", "archiving", "gone"}]
    /\ out \in Seq(Line) /\ Len(out) <= OutCap + 1
    /\ \A e \in shown : e[2] \in Workspaces
    /\ hiddenUi \subseteq Threads /\ named \subseteq Memory
    /\ exposed \subseteq Threads /\ astray \subseteq Threads

(* A request that returned left nothing in the maps of the session, unless  *)
(* its future was dropped (a login) or the output ended around it.          *)
NothingLeftBehind ==
    \A c \in Calls : (st[c] = "done" /\ Method(c) # "login") =>
        /\ <<id[c], c>> \notin pending
        /\ reader = "on" => <<id[c], c>> \notin context

(* Whoever starts a thread and was told so gets its events: from then on    *)
(* none goes to the owner of the process or to another workspace, as long   *)
(* as the starter does not leave; lists, archives and late answers between. *)
(* (What the child reports before its answer goes to the owner.)            *)
EventsFollowTheStarter == astray = {}

(* A memory consolidation agent that a caller was given in a list, or that  *)
(* thread/started announced, is never heard of again in the user interface, *)
(* thread/archived excepted.  (Nothing hides an agent nobody named.)        *)
NamedAgentsStayHidden == exposed \cap Memory = {}

(* The turn of a background prompt is seen by the user interface, if at     *)
(* all, after it was told to hide the thread: also the late events of a     *)
(* turn that outlived the prompt.                                           *)
TurnsOfPromptsAreHidden == exposed \cap Prompts = {}

(* However a background prompt ends, its callback is gone and the thread it *)
(* was given was asked to be archived.                                      *)
PromptsCleanUp ==
    \A p \in Prompts : step[p] = "done" =>
        /\ p \notin callbacks
        /\ (res[StartOf(p)] = "ok" /\ inbox[StartOf(p)] = "answer")
                => st[<<p, "archive">>] = "done"

(* A background prompt always returns. *)
PromptsReturn == \A p \in Prompts : step[p] = "start" ~> step[p] = "done"

(* The session implements RequestReply with nothing to be replayed: one     *)
(* execution at most, and an answer only after it.                          *)
Status(c) == CASE st[c] = "unsent" -> "unsent"
               [] st[c] = "done"   -> res[c]
               [] OTHER            -> "open"

Contract == INSTANCE RequestReply
    WITH Replayable <- {}, status <- [c \in Calls |-> Status(c)]

ImplementsRequestReply == Contract!Safety

(* Every request returns, also when the child hangs or dies around it. *)
CallsReturn == Contract!Fairness

-----------------------------------------------------------------------------
(* The inductive invariant behind these properties *)

Entry(c) == <<id[c], c>>

(* Ids are not reused, and entries of the maps belong to requests under way. *)
IdsIdentify ==
    /\ \A c \in Calls : st[c] # "unsent" =>
          /\ id[c] < nextId
          /\ \A d \in Calls \ {c} : st[d] # "unsent" => id[d] # id[c]
    /\ \A x \in pending \cup context : st[x[2]] # "unsent" /\ x[1] = id[x[2]]

(* A request is answered once: then it is in neither map, and the child is  *)
(* done with it.  Until the output ends, one that waits has its context.    *)
AnsweredOnce ==
    \A c \in Calls :
        /\ inbox[c] \in {"answer", "error"} =>
              /\ Entry(c) \notin pending \cup context
              /\ st[c] \in {"wait", "done"} /\ c \notin got /\ effects[c] = 1
        /\ inbox[c] = "canceled" =>
              reader # "on" /\ Entry(c) \notin pending /\ st[c] # "unsent"
        /\ c \in got => st[c] \in {"wait", "done"}
        /\ (reader = "on" /\ st[c] \in {"write", "wait"} /\ Entry(c) \in pending)
              => Entry(c) \in context

Starts(c) == Method(c) = "start"

Silent(t) == \A i \in DOMAIN out : out[i].type \in Notes => out[i].call # t

(* A line in the pipe says what is so ... *)
LineTrue(m) ==
    /\ m.type = "answer" =>
          /\ m.call \in Calls /\ m.id = id[m.call]
          /\ st[m.call] \in {"wait", "done"} /\ m.call \notin got
          /\ effects[m.call] = 1 /\ inbox[m.call] \notin {"answer", "error"}
          /\ m.list # {} => Method(m.call) = "list"
    /\ m.type \in Notes =>
          /\ m.call \in Threads
          /\ m.type = "archived" => thread[m.call] = "gone"
          /\ (m.type = "turn" /\ m.call \in Prompts) => m.call \in hiddenUi

(* ... is the only answer to its request, and the last of its thread if it  *)
(* says that the thread is archived.                                        *)
Follows(m, n) ==
    /\ (m.type = "answer" /\ n.type = "answer") => m.call # n.call
    /\ (m.type = "archived" /\ n.type \in Notes) => m.call # n.call

LinesInOrder ==
    /\ \A i \in DOMAIN out : LineTrue(out[i])
    /\ \A i, j \in DOMAIN out : i < j => Follows(out[i], out[j])

Unwritten(c) == st[c] \in {"unsent", "inserted", "write"}

(* A request is executed after it was written; a thread is not archived     *)
(* before its start is answered, nor gone before its archive is.            *)
ExecutedFirst ==
    \A c \in Calls :
        /\ c \in fine => effects[c] = 1
        /\ Unwritten(c) => effects[c] = 0
        /\ (Starts(c) /\ (Unwritten(c) \/ c \in got)) => thread[Of(c)] \notin {"archiving", "gone"}
        /\ (Method(c) = "archive" /\ c \in got \cap fine) => thread[Of(c)] = "archiving"

(* A workspace that did not leave still has its root. *)
RootsKept == Workspaces \ left \subseteq roots

(* A thread whose starter was told is mapped, until nothing more comes of it. *)
StarterMapped ==
    \A c \in Calls : (Starts(c) /\ inbox[c] = "answer" /\ Workspace(c) \notin left) =>
        \/ threadWs[Of(c)] = Workspace(c)
        \/ thread[Of(c)] = "gone" /\ Silent(Of(c))

(* A memory agent that was named is hidden, until nothing more comes of it. *)
NamedHidden ==
    \A t \in named : t \in hidden \/ (thread[t] = "gone" /\ Silent(t))

(* What a background prompt did by the time it is at a step. *)
PromptsInStep ==
    \A p \in Prompts :
        /\ p \in callbacks => step[p] \in {"turn", "collect"}
        /\ (step[p] \in {"register", "turn", "collect", "archive"} \/ st[Turn(p)] # "unsent"
              \/ st[<<p, "archive">>] # "unsent" \/ thread[p] \in {"busy", "archiving"})
              => p \in hiddenUi
        /\ (step[p] \in {"register", "turn", "collect", "archive"} \/ st[<<p, "archive">>] # "unsent")
              => inbox[StartOf(p)] = "answer"
        /\ step[p] = "done" =>
              \/ st[<<p, "archive">>] = "done"
              \/ /\ st[StartOf(p)] = "done"
                 /\ ~(res[StartOf(p)] = "ok" /\ inbox[StartOf(p)] = "answer")

InductiveInvariant ==
    /\ TypeOK /\ IdsIdentify /\ AnsweredOnce /\ NothingLeftBehind
    /\ LinesInOrder /\ ExecutedFirst /\ RootsKept
    /\ StarterMapped /\ EventsFollowTheStarter
    /\ NamedHidden /\ NamedAgentsStayHidden
    /\ PromptsInStep /\ TurnsOfPromptsAreHidden
=============================================================================
