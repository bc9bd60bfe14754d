# CodexMonitor: TLA+ models, model checking and proofs

CodexMonitor is a desktop app (Tauri, Rust and TypeScript) that drives
`codex app-server` processes for a list of workspaces. A second binary, the
daemon, offers the same commands over TCP. Both are thin layers over the cores in
`src-tauri/src/shared`. This project models the parts in which the concurrency
is: the life of workspaces and of the app-server process they share, the session
through which requests and events of that process pass, the connection between
the app and a remote daemon, the queue of follow-up messages in the user
interface, and the job table behind Codex memories, the one part of the bundled
Codex sources in which several processes compete for rows of a shared database.

## 1. Inventory

| component | state | operations | what is hard | what makes it correct |
|---|---|---|---|---|
| session pool (`shared/workspaces_core/connect.rs`, `runtime_codex_args.rs`) | `sessions` map, child processes, `workspace_ids` of a session, spawn lock | connect, take a live shared session, kill by id, switch codex args | processes die between a check and its use; two commands want to spawn; the kill is outside the spawn lock | one shared session; no leaked process; no kill of a process in use; every connected workspace registered |
| add, remove, settings (`crud_persistence.rs`) | `workspaces` map, `workspaces.json` | add, clone, clone from URL, remove with children, update settings | several effects with a rollback; saves outside the lock | a failed add is forgotten; a worktree keeps its parent; memory is what is persisted |
| worktrees (`worktree.rs`) | checkouts and branches | add, remove, rename | four effects, two of them in git | the entry says where the checkout is and which branch it has |
| storage (`storage.rs`, `state.rs`) | `workspaces.json` | read, write, load | truncating writes, two writing processes | an unreadable file is an empty list, never a wrong one |
| daemon state (`bin/codex_monitor_daemon.rs`) | same maps | list with a sync from the file, connect | the file is read outside the lock; sessions are pruned | pruning spares what is kept; connect repairs a dead session |
| app-server session (`backend/app_server.rs`) | pending requests, contexts, thread owners, hidden and background threads | send, answer, time out, route events, EOF | late answers, EOF against a new request, notifications before the answer, nested workspaces | every request is answered once, with its own answer; events go to the workspace of their thread; hidden threads stay hidden |
| remote backend client (`remote_backend/*`) | pending calls, connected flag, the cached connection | call, disconnect, reconnect, retry | disconnect races with a call; two connects | no call waits for ever; no call is repeated that must not be |
| daemon connection (`bin/codex_monitor_daemon/{transport,rpc}.rs`) | authenticated flag, event task, limiter | auth, dispatch, forward events | lagging clients, dropped connections | nothing is served before auth; the limiter is released |
| codex login (`shared/codex_core.rs:653-794`) | `codex_login_cancels` | start, cancel | a cancel before the login id is known; two logins | a cancel ends the login it was meant for |
| background helpers (`shared/codex_aux_core.rs`) | hidden threads, callbacks | start, turn, collect, archive | a prompt that fails half-way; events after its end | the user never sees the thread; nothing is left behind |
| terminals (`terminal.rs`) | `terminal_sessions` | open, write, resize, close | exit of the shell against a new terminal of the same key | a new terminal is not removed by the end of the old one |
| queued follow-ups (`useQueuedSend.ts`) | queue and message in flight per thread | enqueue, send, steer, clear | React effects that run between events; sends that are blocked or throw | no message lost or sent twice; one sent at a time |
| turn events (`useThreadTurnEvents.ts`, `useThreadMessaging.ts`) | processing flag, active and optimistic turn | turn started, completed, failed, interrupted, status changed | an answer and an event overtake each other; the status says idle before the turn ends | an event is applied to the turn it is about |
| Codex memories (`codex-rs/state/src/runtime/memories.rs`, `codex-rs/core/src/memories`) | job rows with token and lease, outputs, selection | claim, heartbeat, succeed, fail, prune, reset | expired leases under a live holder, late results, stale clocks | the cap holds; a memory has its job row; a replaced memory moves the consolidation watermark past the last success |

`PROJECT.json` lists these and the remaining parts (dictation, tailscale, git
user interface, configuration, usage statistics, the shell of the application,
the rest of the bundled Codex tree), with the reason for each that is left out.

How the parts interact. A command of the UI is a Tauri command in the desktop
process, or, in remote mode, a call of the remote backend client to the daemon,
which starts a tokio task for each request. Commands about workspaces lock
`workspaces`, `sessions` and a session's `workspace_ids` one after the other,
each only for a few lines; `CONNECT_WORKSPACE_SPAWN_LOCK` alone is held across
awaits. Desktop and daemon are separate processes that may use the same
`workspaces.json`.

## 2. Plan

Done:

1. `WorkspacesCore`, its runs and proofs: pool, add, remove, settings,
   worktrees, storage, daemon sync.
2. `RequestReply`, the abstract specification of a request channel, and two
   modules that implement it: `AppServerSession` (requests, answers, time-outs,
   end of output, event routing, background prompts) and `RemoteBackend` (call,
   disconnect, reconnect, retry, composed with the network and the daemon's
   connection handler).
3. `QueuedSend`: the queue of follow-up messages, the turn events it waits for
   and the app-server they talk to.
4. `MemoryJobs`: claims, leases and watermarks of the memories pipeline, with
   `MemoryJobsProofs`.
5. `RemoteBackendProofs` and `AppServerSessionProofs`: every safety property of
   the two modules, and that each step of them is a step of `RequestReply`.
6. `WorkspacesPoolProofs` and `WorkspacesStoreProofs`: every other safety property
   of `WorkspacesCore` that holds, each under the condition without which a
   listed race breaks it.

7. `QueuedSendProofs`: what holds of the queue in spite of the overlap it shows:
   no message is in two places, is lost without a reason or sent again.

Left: the map of login cancels and the terminals, two small questions of who owns
a map entry; setup-script markers and `rename_worktree_upstream`.

## 3. The model

| module | content |
|---|---|
| `WorkspacesCore` | the system: state, one action per step of each command, environment, properties |
| `MCWorkspacesCore` | initial stores and symmetry sets for TLC |
| `WorkspacesCoreProofs` | TLAPS proofs about it: types, the one shared session, who may spawn |
| `WorkspacesPoolProofs` | extends it: kills, leaks, registration, switches of codex args |
| `WorkspacesStoreProofs` | extends that: ids, parents of worktrees, failed adds, removed workspaces, checkouts |
| `RequestReply` | abstract: a call is issued once, returns once, succeeds only if executed, is executed at most once unless it may be replayed (`Safety`); a call that was issued returns (`Fairness`) |
| `RemoteBackend`, `MCRemoteBackend` | the remote client, the network, the daemon's connections |
| `RemoteBackendProofs` | TLAPS proofs about it |
| `AppServerSession`, `MCAppServerSession` | one app-server, its session, background prompts |
| `AppServerSessionProofs` | TLAPS proofs about it |
| `QueuedSend`, `MCQueuedSend` | the composer's queue for one thread, turn events, the app-server |
| `QueuedSendProofs` | TLAPS proofs about it |
| `MemoryJobs`, `MCMemoryJobs` | job and output rows of the memories database, the sessions working from them |
| `MemoryJobsProofs` | TLAPS proofs about it |

`RemoteBackend` and `AppServerSession` `INSTANCE` `RequestReply`; the status of a
request is read off its program counter, and `effects` counts what the daemon or
the child executed. Its two halves are separate properties of them:
`ImplementsRequestReply` (`Safety`, also proved) and `CallsReturn` (liveness).

### 3.1 WorkspacesCore

**State.** `workspaces` and `sessions` are the two maps of
`AppState`/`DaemonState`, total over `Ids` with `None` for an absent key.
`stored` is `workspaces.json` (or `Torn`, a file that does not parse). `disk` and
`branch` are what git and the file system know of a checkout. `proc`,
`registered` and `args` are the child, `workspace_ids` and `codex_args` of a
session. `spawnLock` is the spawn lock. Each task has a `pc` and its local
variables in `task`.

**Grain.** A tokio task can be interrupted at an `.await` only, and other
threads run between two critical sections. An action is one critical section of
a mutex, or one awaited effect (a git command, a spawn, a kill). What the code
does under one guard is one action: insert-and-save of an add, remove-and-save
of a removal, find-and-register at the end of a rename (the guard of an `if let`
lives to the end of its block in edition 2021). What it does after the guard is
another: settings and rename save a list copied earlier (`save_list`). The poll
`try_wait` of a session is separate from the look-up that found it.

**Commands and steps.** The label in `pc` is the position in the function:

| code | labels |
|---|---|
| `connect_workspace_core` | (`precheck` in the daemon) `resolve`, `lock`, `own`, `ownAlive`, `take`, `takeAlive`, `spawn`, `register`, `insert` |
| `add_workspace_core`, `add_clone_core`, `add_workspace_from_git_url_core` | `prepare`, `lock`, `take` ..., `persist`, `undo`, `undoKill`, `register`, `insert` |
| `add_worktree_core` | `lookup`, `gitAdd`, `lock`, `take` ..., `persist`, `register`, `insert`; a failed save returns at once |
| `set_workspace_runtime_codex_args_core` | `resolve`, `lock`, `current`, `spawn`, `swap`, `registerAll`, `killOld` |
| `remove_workspace_core` | `lookup`, then per child `child`, `drop`, `unregister`, `kill`, `files`; itself; `forget` |
| `remove_worktree_core` | `lookup`, `drop`, `unregister`, `kill`, `files`, `forget` |
| `update_workspace_settings_core` | `apply`, `propagate`, `snapshot`, `save` |
| `rename_worktree_core` | `lookup`, `branchMove`, `gitMove`, `update`, `save`, `reregister`; roll back through `renameBack`, `branchBack`, `restore` |
| `sync_workspaces_from_storage` | `syncRead`, `syncStore`, `syncPrune`, `syncKill` |

The three functions that add a workspace have the same steps in the same order;
they differ in whether they look up a source and whether a folder is deleted when
they fail (`ClonesDir`).

**Faults.** `Faults` selects what the environment may do: a failed spawn, an
app-server that dies, a write that fails and leaves the file (`write`) or
truncates it (`torn`), a failing git command (`git`), a failing roll-back
(`rollback`, whose errors the code ignores; also the removal of a failed clone's
folder), a restart, and another process that removes a workspace from the file.

**Left out.** Names, paths and settings other than the worktree setup script;
path normalisation in `storage.rs`; folder-name validation (a name that fails is
an error before any effect, like a failing `git`); the wording of errors; the
Windows process-tree kill (a kill ends the child). A branch name and the folder
named after it are one value. `send_request_for_workspace` also registers its
workspace with the session; the model registers at connect only, which is the
stronger reading of `ConnectedIsRegistered`. Cancelled commands (a dropped
future) are not modelled: neither front end aborts a command.

### 3.2 RemoteBackend

**State.** Per call of `call_remote` its program counter, the connection it holds
and what its oneshot receiver has; per connection the app's side (`connected`,
`next_id`, the pending map, the outbound queue, the writer and the reader task),
the link, and the daemon's side (`authenticated`, RPC tasks). `cached` is
`state.remote_backend`.

**Grain.** `ensure` looks at the cache, `resolve` reads the settings, `connect`
dials (and shares the client at once when there is no token to present; else
once `auth` is answered), `check`, `insert`, `send` and `wait` are the awaits of
`RemoteBackend::call`, first for `auth` and then for the call itself.
`mark_disconnected` clears the flag in one step and drains the pending map in
another, so a call can insert itself in between. A connection is dropped when
its last reference is (`Referenced`); its writer task then ends.

**Faults.** A link can be cut (both ends see it, after what is under way) or go
dark (neither does; only the time-outs help); the daemon can be restarted; the
settings can change, in two steps (save, reset) as in `update_app_settings`.
Updates may overlap, so one may compare its settings with values that another has
replaced since (`had`); an update that cannot write its file changes nothing.
An RPC may never finish and every time-out may strike at any moment.

**Left out.** `forward_events` and the methods behind `dispatch`: an RPC is
executed, with success or an error.

### 3.3 AppServerSession

**State.** The pending map, the request contexts, owners of threads, hidden
threads, callbacks, registered workspaces and their roots of `WorkspaceSession`;
the child's unread requests, threads and output; what the user interface was
shown. A prompt of `run_background_prompt_core` is three requests and the steps
around them. Workspaces may be nested: `Encloses` says whose root lies in whose,
and a listed thread is mapped to the innermost registered root its directory lies
in (`resolve_workspace_for_cwd`), so when a workspace has left, a list moves its
threads to an enclosing one. Any workspace may leave, the owner of the process
too, and may come back.

**The child** is `codex-rs/app-server`. A thread has its listener from the
execution of `thread/start` on, before the answer is written, so a status or a
warning that names it can come first (`child_notes`); the session then knows no
workspace for it and sends the line to the owner. `thread/started` follows the
answer of a start. An agent the child spawns itself is reported by a status and
its turn, and never announced (`child_spawns_agent`): nothing in
`app_server.rs` hides it until a list names it. The bundled version makes its
memory agents ephemeral, so its lists do not name them either. The codex binary
is the user's, of any version; `child_announces_agent` and
`child_archives_agent` are a version that announces, lists and archives such
agents, which is what `HideStarted` and the filter of lists are for.

**Histories.** `named`: memory agents the session was told of; `left`: workspaces
that were ever unregistered; `exposed` and `astray`: threads of which an event was
sent that should not have been seen, or to a workspace it does not belong to.

**Grain.** One critical section each: the insert into `pending`, the context,
the write, the wait. The reader handles one
line at a time (an answer: its context, its pending entry, the thread it names),
and clears the two maps in two steps at end of output. The
callback is looked up with the line it is for.

**Faults.** The child dies at any point, answers with an error, or never
answers; a request times out; a login future is dropped at any of its awaits
(`tokio::select!` with the cancel); a workspace is unregistered, and registered
again with its path, at any time.

**Left out.** The text of lines and the search for ids in them (a line names its
thread, or none); notifications and approvals to the child, which have no answer.

### 3.4 QueuedSend

The JavaScript thread runs a callback up to its next `await`, or an effect, as
one action. `TrackInFlight` and `FlushQueue` are the two effects of
`useQueuedSend`; React runs each at some point after a change it depends on.
A send is a call of `sendUserMessage` that waits for its thread (`sending`) and
then throws (`flushFails` puts a flushed message back in front), is blocked
(`sendBlocked`: nothing is requested, and a flushed message stays in flight) or
marks the thread busy and asks (`sendMessageToThread`). `immediate`,
`lastReducer` and `optimistic` are the refs with which `useThreadTurnEvents`
decides whether an event is about the current turn; `onThreadStatusChanged` sets
the busy flag and forgets the turn without asking them. Ids of queued items are
unique, so the filter in `removeQueuedMessage` drops one entry.

The app-server is modelled from `codex-rs`. `turn_start` submits an operation and
answers with its own id, also while another turn runs; `turn_steer` adds to the
expected turn or is refused; `turn_interrupt` submits an interrupt that names no
turn. `submission_loop` takes the operations in order: a message joins the running
turn or starts one, or its settings are refused, which is an error without a
turn. The thread's status is published when it changes, before the notice it
goes with (`Notify`): `active` before `turn/started`, `systemError` before an
error, `idle` before `turn/completed`. Requests may overtake each other, as may
an answer and a notification; the notifications of a thread arrive in order.
`queueOnly` and `unfinished` are histories for `OneAtATime`.

Left out: slash commands, reviews, approvals, a paused flush and several threads.
Every request is answered; time-outs of requests are the subject of
`AppServerSession` and `RemoteBackend`. `sendMessageToThread` cannot tell a steer
whose answer was lost from one that was refused, and queues both; `SettledOnce`
is about refusals.

### 3.5 MemoryJobs

A transaction is an action. A claim is named by its ownership token, which
carries what the session that claimed remembers; it can be used after the lease
ran out and somebody else took the row over. Every clock read of a claim happens
before the transaction waits for the database lock, so it may be up to
`ClockLag` old. A session may stop at any point (`Stop`), retention may delete
any output it is allowed to, and a reset may come between a claim and its
result. `baseline` is a history variable: what the last successful
consolidation used. The input watermark is the database's record of what there is
to consolidate; whether a consolidation that holds its lock has work to do is
decided by the git workspace of the consolidated files, which is left out, as are
usage counts (they rank outputs) and the model calls.

## 4. Runs

Bounds of the passing runs of `WorkspacesCore`. Two tasks are enough for every
race listed under hazards, each of which is between two commands; two sessions let a dead one be replaced once; two ids
are a workspace and a worktree, or one there at the start and one added; three
in `one_client` give a parent two children. Ids and sessions are
used up (uuids and processes are never reused), which bounds the state space; an
exhausted set makes the command fail as a failed `git` or spawn does.

| run | instance | checks |
|---|---|---|
| `pool` | daemon, two tasks, connect/add/remove/list; spawn, crash, write, torn, external | `InductiveInvariant`, `SingleSharedSession`, `NoLeakedSession`, `SpawnOnlyIntoEmptyPool` |
| `respawn` | desktop, two tasks, connect/add/git URL/args; spawn, crash, write, rollback; fair | `ConnectedIsRegistered`, `NoLeakedSession`, `KillSparesReferenced`, `SwitchReachesAll`, `FailedAddIsForgotten`, `RequestsReturn` |
| `one_client` | desktop, one task, three ids, connect/clone/worktree/remove/rename; spawn, crash, git, write | `ConnectedIsKnown`, `EntryMatchesCheckout`, `KillSparesReferenced` |
| `families` | desktop, two tasks, remove/rename/settings; git, write, torn, rollback, restart | `TypeOK`, `WorktreesKeepTheirParent` |
| `remote` | two calls (one retryable), two connections, remotes with the right, a wrong and no token, queue of one, one RPC at a time, one fault or change of settings; fair | `InductiveInvariant`, `OwnAnswer`, `PendingIsAwaited`, `NeverUnauthorized`, `RetryLeavesLostConnection`, `ImplementsRequestReply`, `CallsReturn`, `StrayConnectionsClose` |
| `session` | a workspace inside the owner's; a prompt with a memory agent, a start with a list while its workspace leaves and returns, a list with a memory agent, or a login while both workspaces leave; two lines in the pipe; fair | `TypeOK`, `InductiveInvariant`, `NothingLeftBehind`, `EventsFollowTheStarter`, `NamedAgentsStayHidden`, `TurnsOfPromptsAreHidden`, `PromptsCleanUp`, `PromptsReturn`, `ImplementsRequestReply`, `CallsReturn` |
| `queue` | two messages | `InOnePlace`, `SettledOnce` |
| `memory` | two threads, three claims, cap of one, two retries, leases and delays of one tick, clock reads one tick old, time 0 to 2 | `InductiveInvariant`, `ClaimsWithinCap`, `OutputHasItsJob`, `ReplacedMemoryIsQueued`, `SelectionTracksBaseline` |

The first conjunct of each `InductiveInvariant` is `TypeOK`.

Bounds of the others. In `remote`, two calls meet in the connection cache and
in one pending map, and two connections let each call open its own (the race of
two connects) or a retry find a new one; a queue of one makes a send wait, one
RPC at a time makes the second wait for the permit. One fault is enough for a
retry, which is attempted once. In `session`, requests of a workload overlap in
every order; a third line would only wait. In `queue`, two messages are one in
the turn and one steered, queued or sent behind it; a third takes TLC out of its
time, and the theorems hold for any number. In `remote`, one event leaves no room
for two updates of the settings; the invariants are proved for any number. In
`memory`, a token is used once, so
three claims are a holder whose lease ran out, the one who took over, and a
consolidation; two ticks let one lease run out and the next start. A fourth
claim would be needed for a consolidation that is enqueued by a source older than
the global watermark after another has succeeded; the
proof of section 5 covers it.

Which commands a run issues is part of the claim. In `WorkspacesCore` the
properties of `respawn` are about commands that hold the spawn lock; a removal,
which does not, breaks some of them, and those of `one_client` hold for a client that waits for each
answer. The races behind this are listed as hazards:
a session taken by a connect while the last reference is removed and its process
killed; a workspace connected after it was removed; a worktree added to a
workspace while it is removed; an args switch whose workspaces are removed
during the spawn; a failed add saved by a settings update before it is undone; a
worktree whose save fails, which keeps its process.

Four runs show where the code differs from what the repository says:

- `prune_kills_kept`: the daemon's sync kills the process of a removed
  workspace although a kept workspace shares it. A test of the daemon expects
  "connected persisted workspace session to remain"; it gives each workspace
  its own session, which the program never does.
- `lost_update`: a settings update writes a list copied before a concurrent
  add, so the new workspace is not in `workspaces.json` any more.
- `remote_switch`: a call that read the settings before they changed stores its
  client after `update_app_settings` reset the shared one, so later calls go to
  the old remote although the settings name another.
- `queue_overlap`: the user does nothing but queue three messages. The status
  `idle` or `systemError` arrives before the end of the first one's turn and marks
  the thread idle, so the second is sent; the end then finds no turn known, is
  taken for that of the second, and the third is sent while the second is only
  requested. The tests say "sends queued messages one at a time after processing
  completes". The late end of a stopped turn does the same.

The daemon's `connect_workspace` also differs from the desktop's: it returns `Ok`
for a session whose process has died, since it looks at the map before the shared
core, which would replace the session, is reached
(`codex_monitor_daemon.rs:531`). It is in the model (`precheck`) and among the
hazards; no document says otherwise.

Fairness. In `respawn` (`FairSpec`): weak fairness of each command's own steps:
the runtime polls every task that can go on, and git, spawns and kills end (the
spawn has a time-out). Strong fairness of taking the spawn lock: tokio's
`Mutex` serves its waiters in order, so a waiter is not overtaken for ever. No
fairness of requests or of the environment.

In `remote`: weak fairness of each call's next step, whichever it is, and of each
writer, reader and connection handler. Each is stated with the variables that
every such step changes as its subscript (`WF_pc(CallStep(c))`), which is the same
condition as with all variables and much cheaper to check. `StrayConnectionsClose`
says that a connection nobody refers to is infinitely often not there, so none
stays for ever. Nothing is assumed of RPC handlers, which
may hang, nor that an answer beats a time-out. In `session`: weak fairness of
each request's next step, each prompt's, and the reader's; the child need do
nothing at all. Both follow from the runtime polling every task that is ready,
timers included. Under this fairness "every issued call returns"
(`CallsReturn`) rests on the time-outs in the code alone. `memory` has no
liveness: a session that never runs again is what leases are for.

Deadlock is checked in every passing run but `queue`, where a thread whose
messages are all dealt with has nothing left to do. `remote` and `session` may
stutter (`Quiet`, `Finished`) only when every call has returned.

## 5. Proofs

`WorkspacesCoreProofs` proves, for any sets of ids, sessions, tasks and names,
any subset of commands and faults, desktop and daemon:

- `Invariance`: `Spec => []InductiveInvariant`;
- `TypeCorrect`: `Spec => []TypeOK`;
- `Sharing`: `Spec => []SingleSharedSession`;
- `SpawnDiscipline`: `Spec => SpawnOnlyIntoEmptyPool`.

Assumptions: `ConstantsAssumption`, `NoneAssumption` and `StoresAssumption`
(default values are values, `None` and `Torn` are no data, a file at start-up
is a store in which every worktree has its parent). TLC evaluates them in every run.

`SingleSharedSession` is not inductive: a task that inserts its session must
know that the map holds no other. `PoolReserved` says so for every label
between choosing a session and inserting it, and that the map stays empty while
a session is spawned for want of one; it is preserved because only the holder of
the spawn lock adds to the map (`LockHeld`), while everyone else, removers
and the daemon's sync included, only takes references away. `LocalsSet` says
which locals each label has set, without which neither the types nor the pool
can be followed through the steps. The proof has a lemma per group of commands
(`ConnectKeeps`, `AddWorkspaceKeeps`, ...), each with one step per action, over
the frame lemmas `Frame`, `PoolKept`, `ControlKept`, `Returned` and `Continued`.

`WorkspacesPoolProofs` and `WorkspacesStoreProofs` add the other safety
properties of the module. Three of their results are unconditional:

- `PoolInvariance`: a session that a task holds or the map names was spawned
  (`HeldIsBorn`), and a session that was chosen for a kill under the spawn lock is
  in use by nobody from the choice to the kill (`DoomedIsUnused`);
- `IdsInvariance`: until the command that made up an id inserts it, the id is in
  no map, no file and no list that another command copied and will write back
  (`FreshIds`, `IdsIssued`);
- `SwitchesReachAll`: `Spec => SwitchReachesAll`, in the desktop and the daemon,
  while connects, adds, removals and syncs run beside the switch.

The others do not hold of every mix of commands: the code has races that break
them, and they are among the hazards. Each theorem states, as a condition on the
constants, the race that must not happen, and nothing else; sizes and all other
commands and faults are arbitrary.

| theorem | property | condition | why it is needed |
|---|---|---|---|
| `KillsSpareUsers` | `KillSparesReferenced` | `RemovalsAlone`: no removals, or one command at a time | `kill_session_by_id` decides and kills outside the spawn lock; a connect in between takes the session |
| `NoProcessLeaks` | `NoLeakedSession` | `SwitchesAlone`: an args switch does not meet removals or syncs; no worktree is added while writes may fail | the session a switch replaces may be gone when it is done, and its new one then has no user; `add_worktree_core` leaves through `?` with its process running |
| `ConnectedAreRegistered` | `ConnectedIsRegistered` | `NoRemovals` | the unregistration comes after the reference is dropped, and a new connect may come between |
| `WorktreesAreNotOrphaned` | `WorktreesKeepTheirParent` | `FamiliesShrink`: no worktree is added, no sync | a worktree added while its parent is removed |
| `FailedAddsAreForgotten` | `FailedAddIsForgotten` | `OnlyAddsSave`: no removal, settings update or rename | another command saves the entry before it is taken back |
| `ConnectedAreKnown` | `ConnectedIsKnown` | `OneClient` | a connect that read the entry before it was removed |
| `EntriesMatchCheckouts` | `EntryMatchesCheckout` | `Undisturbed`: one client, roll-backs succeed, the file is not read again | the code ignores errors of a roll-back; a stop in the middle of a rename; a save that failed leaves the file out of date |

What carries each proof. *Kills*: the one who kills knows that the reference it
dropped was the last (`RemovedIsUnused`). *Leaks*: to hold a session is not enough
for an induction, since a holder may let go; a live process without a reference
has an owner, a task at a label from which it will insert or kill that very
process (`Accounted`), and an args switch still replaces the current session
(`SwitchCurrent`). *Switches*: once a switch has swapped the sessions, every entry
of the map has the args asked for until it answers, since whoever adds to the map
needs the spawn lock it holds (`Switched`). *Registration*: a task inserts only what it has registered
(`RegisteredFirst`). *Parents*: a removal takes a main workspace only when every
child is dealt with, and besides it only worktrees; every copied list that will be
saved is closed under parents; a rename puts back an entry with the same parent
(`Families`). Two removals of one family may take turns, so that is stated of
each one's own lists, and the lemmas on `Shrinks` show that a step of one keeps
the facts of the other. *Failed adds*: the fresh id stays out of the file and of
every list until the answer (`AddsUnknown`). *Removed workspaces*: a task between
look-up and insert still has its entry in the map, and what a removal will forget
is already disconnected (`KnownSessions`). *Checkouts*: at each label of a rename,
where folder and branch are in relation to the old entry and the new name, so
that either way out restores agreement; a worktree whose folder is deleted will be
forgotten by the same command (`Checkouts`).

`MemoryJobsProofs` proves, for any threads and claims, any leases, delays, clock
lag, cap and number of retries, and any bounds of the clock and the watermark:

- `Invariance`: `Spec => []InductiveInvariant`;
- `TypeCorrect`, `OutputsMatchJobs`, `ReplacementsAreQueued`,
  `SelectionIsBaseline`: the invariants `TypeOK`, `OutputHasItsJob`,
  `ReplacedMemoryIsQueued` and `SelectionTracksBaseline`;
- `CapHolds`: `Spec => []ClaimsWithinCap`.

From `MemoryAssumption`: finitely many threads, natural numbers, at least one
retry (`DEFAULT_RETRY_REMAINING` is 3; with none, a first failure would take the
count below zero). None of the four properties is inductive. `OutputHasItsJob`
needs that the owner of a running row extracts from that row's input, and that
this input is newer than the last success (`RowsConsistent`): a late result then
either finds another owner or writes what the row vouches for.
`SelectionTracksBaseline` needs that a consolidated source is no newer than the
last success of its thread (`WatermarksCover`), so no memory stored later can be
mistaken for it. `ReplacedMemoryIsQueued` must be carried through a consolidation
under way: `LoadedIsCovered` says that a loaded memory replaced meanwhile has
moved the input watermark past the one the owner will report, which holds
because the watermark moves on even for an older source and covers every stored
output. The cap needs none of this: a claim counts the leases by its own, older
clock, and an older clock counts no fewer (`LeasedShrinks`). There is one lemma
per action, over `OverKeeps`, `EnqueueKeeps` and `FinishKeeps` for the helpers.

`RemoteBackendProofs` proves, for any calls, connections, remotes and tokens, any
queue capacity, any limit of concurrent RPCs and any number of faults:

- `RemoteBackendInvariant`: `Spec => []InductiveInvariant`;
- `TypesCorrect`, `AnswersReachTheirCall`, `PendingEntriesAreAwaited`,
  `TokenHoldersAreAuthorized`, `RetriesMoveOn`: the invariants `TypeOK`,
  `OwnAnswer`, `PendingIsAwaited`, `NeverUnauthorized` and
  `RetryLeavesLostConnection`;
- `RemoteImplementsRequestReply`: `Spec => ImplementsRequestReply`.

Assumptions: `ConstantsAssumption` (capacities are positive, each remote has one
of three kinds of token) and `NoneAssumption`. `OwnAnswer` speaks of what a call
receives; the invariant follows a request all the way: every line, job and answer
of a connection that carries a call's id is that call's, sent in the mode the call
is in (`IdsIdentify`), and an entry is answered at most once (`AnsweredOnce`).
`NeverUnauthorized` needs that a connection belongs to one call alone until its
`auth` was accepted (`AuthIsPrivate`), that the daemon would refuse nothing on a
connection that is shared, used for a call or holds a line of one
(`SharedIsTrusted`), and that answers under way are true (`AnswersFit`). "Executed
at most once, twice if it may be replayed" is a count over places: executions so
far, connections that hold a request which may still become one, and sends that
are left add up to at most the bound (`SentOnce`, `EffectsBounded`). Each step of client, wire and daemon is then an
`Issue`, `Execute`, `Succeed` or `Fail` of `RequestReply`, or leaves its variables
alone (`StepRefines`).

`AppServerSessionProofs` proves, for any requests, prompts, memory threads,
workspaces and workloads and a pipe of any size:

- `AppServerSessionInvariant`: `Spec => []InductiveInvariant`;
- `TypesCorrect`, `ReturnedRequestsLeaveNothing`, `EventsGoToTheStarter`,
  `NamedAgentsAreHidden`, `PromptTurnsAreHidden`, `EndedPromptsAreClean`: the
  invariants `TypeOK`, `NothingLeftBehind`, `EventsFollowTheStarter`,
  `NamedAgentsStayHidden`, `TurnsOfPromptsAreHidden` and `PromptsCleanUp`;
- `SessionImplementsRequestReply`: `Spec => ImplementsRequestReply`.

Assumptions: `ConstantsAssumption`, `DistinctAssumption` (requests, prompts and
memory threads have different names) and `EnclosesAssumption` (no two workspaces
have the same root). What the reader does with a line is right only if the line is
true: `LinesInOrder` says of every line in the pipe that the child's state vouches
for it, that it is the only answer to its request, and that nothing about a thread
follows its `thread/archived`; `ExecutedFirst` that a thread is archived only
after its start was answered. `EventsFollowTheStarter` is a claim about the time
after the answer, and as long as the workspace did not leave: `StarterMapped` says
that the thread is then mapped to the workspace that asked, until nothing more
comes of it, and `RootsKept` that a list cannot move it, for the innermost root
around its directory is still registered. `NamedHidden` says that an agent is
in the hidden set from the moment it was named to the last line about it, and
`PromptsInStep` what each step of a prompt has set up for the next.

`QueuedSendProofs` proves, for any set of messages:

- `TypeCorrect`: `Spec => []TypeOK`;
- `MessagesAreInOnePlace`: `Spec => []InOnePlace`;
- `MessagesAreSettledOnce`: `Spec => SettledOnce`.

The only assumption is that `None` is not a message. The inductive invariant is
`TypeOK` and `EachHasAPlace`, which names for every message the one place it can
be in: unwritten, in the queue, in a send, a request, an operation of the session,
the answer to a failed steer, or the turn. A step moves at most one message, from
one place to the next, and leaves the others where they are (`StaysInPlace`).
There is a lemma for each kind of move (`WrittenIsQueued`, `QueuedIsSent`,
`SendGoesOn`, `StartIsTaken`, `SteerIsTaken`, `AnswerIsTaken`,
`OperationIsTaken`, ...), over lemmas on where an entry is in a sequence after an
append, a prepend, a tail or a removal; each gives both the new place and what
was settled, so `SettledOnce` follows from the same case split. A message may
leave all places only as `SettledFor` says: the user removed it, its send was
blocked, it is in a turn, or it was refused by an answer or an error.

`OneAtATime` fails (run `queue_overlap`), also when the user neither stops nor
steers anything, so there is nothing to prove of it.

Only model-checked, because TLAPS does not do fairness: `RequestsReturn`,
`CallsReturn`, `StrayConnectionsClose` and `PromptsReturn`. Every safety property
of a passing run is a theorem.

## 6. Not modelled

See `components` in `PROJECT.json`.

- The map of login cancels and the terminals: planned (section 2). What can go
  wrong there is among the hazards.
- Events forwarded by the daemon: they carry no id, the daemon keeps no state
  about them, and a client that lost some refreshes its threads.
- Slash commands, reviews and the display state of threads (plans, diffs, token
  usage): they do not enter the queue's decisions.
- The usage counts of memories and the git workspace of their files: the counts
  only rank, and no transaction spans files and database.
- Dictation, tailscale, menus and windows: device, process and operating-system
  I/O. Git and configuration helpers: stateless. Usage statistics: a pure text
  scan.
- The rest of the bundled Codex tree (`codex-rs`, `codex-cli`, `sdk`,
  `third_party`): the text interface, protocol types, model client, sandboxes and
  tools. It is a program of its own, most of the repository's lines, and what
  CodexMonitor relies on of it is the protocol of its app-server: threads, turns,
  their notifications and status, which `AppServerSession` and `QueuedSend` model.
