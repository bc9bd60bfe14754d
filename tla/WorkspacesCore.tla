--------------------------- MODULE WorkspacesCore ---------------------------
(***************************************************************************)
(* The workspace lifecycle of src-tauri/src/shared/workspaces_core: the    *)
(* map of workspaces and its file workspaces.json, the map of app-server   *)
(* sessions that all workspaces share, the child processes behind the      *)
(* sessions, the checkouts of worktrees, and the process-wide spawn lock.  *)
(*                                                                         *)
(* Every command of the desktop app, and every RPC of the daemon, runs as  *)
(* a tokio task of its own.  A task gives up control at each `.await`, so   *)
(* one action is one critical section of a mutex, or one awaited effect.   *)
(* The operator named after a step cites the function it belongs to.       *)
(***************************************************************************)
EXTENDS Naturals, FiniteSets

CONSTANTS
    Ids,            \* workspace ids (uuids), used at most once each
    Sessions,       \* app-server sessions that can ever be spawned
    Tasks,          \* commands that can be in flight at once
    Names,          \* branch names, and the folder names derived from them
    Scripts,        \* values of settings.worktree_setup_script
    DefaultScript,  \* its value in WorkspaceSettings::default()
    Args,           \* values of the resolved codex args
    DefaultArgs,    \* what resolve_workspace_codex_args yields
    InitialStores,  \* contents workspaces.json can have at start-up
    None,           \* Option::None, and "no such key" of a map
    Torn,           \* workspaces.json truncated by a write that failed
    Ops,            \* the commands that are issued
    Faults,         \* the failures the environment may inject
    Daemon          \* TRUE: the daemon; FALSE: the desktop app

AllOps == {"connect", "add", "clone", "giturl", "worktree", "remove",
           "rmworktree", "settings", "rename", "args", "list"}

AllFaults == {"spawn", "crash", "write", "torn", "git", "rollback",
              "restart", "external"}

Entry == [parent : Ids \cup {None}, script : Scripts,
          branch : Names, path : Names]

(* A HashMap<String, WorkspaceEntry>, total over Ids with None for "absent". *)
Stores == [Ids -> Entry \cup {None}]

EmptyStore == [w \in Ids |-> None]

(* The parent of every worktree is present and is no worktree itself. *)
ParentsPresent(store) ==
    \A w \in Ids :
        (store[w] # None /\ store[w].parent # None)
            => /\ store[store[w].parent] # None
               /\ store[store[w].parent].parent = None

ASSUME ConstantsAssumption ==
    /\ DefaultArgs \in Args
    /\ DefaultScript \in Scripts
    /\ Ops \subseteq AllOps
    /\ Faults \subseteq AllFaults
    /\ Daemon \in BOOLEAN

ASSUME NoneAssumption ==
    /\ None \notin Ids
    /\ None \notin Sessions
    /\ None \notin Tasks
    /\ None \notin Names
    /\ None \notin Entry

ASSUME StoresAssumption ==
    /\ InitialStores \subseteq Stores
    /\ Torn \notin Stores
    /\ \A store \in InitialStores : ParentsPresent(store)

VARIABLES
    workspaces,  \* AppState.workspaces / DaemonState.workspaces
    stored,      \* the contents of workspaces.json
    disk,        \* where the checkout of a workspace is, None if it is not
    branch,      \* the git branch a worktree has checked out
    issued,      \* ids handed out by Uuid::new_v4
    sessions,    \* AppState.sessions / DaemonState.sessions
    proc,        \* the child process of a session
    registered,  \* WorkspaceSession.workspace_ids
    args,        \* WorkspaceSession.codex_args
    spawnLock,   \* holder of CONNECT_WORKSPACE_SPAWN_LOCK
    pc,          \* where each task is
    task         \* the local variables of each task

store == <<workspaces, stored>>
git == <<disk, branch, issued>>
pool == <<sessions, proc, registered, args>>
vars == <<workspaces, stored, disk, branch, issued, sessions, proc,
          registered, args, spawnLock, pc, task>>

(* A task between two commands: what the last one answered. *)
AtRest == {"idle", "ok", "err"}

(* Between acquiring the spawn lock and dropping its guard. *)
Guarded == {"own", "ownAlive", "take", "takeAlive", "spawn", "persist",
            "undo", "undoKill", "register", "insert", "current", "swap",
            "registerAll", "killOld"}

Labels == AtRest \cup Guarded \cup
    {"precheck", "resolve", "prepare", "gitAdd", "lock", "lookup", "child",
     "drop", "unregister", "kill", "files", "forget", "apply", "propagate",
     "snapshot", "save", "branchMove", "gitMove", "update", "renameBack",
     "branchBack", "restore", "reregister", "syncRead", "syncStore",
     "syncPrune", "syncKill"}

Locals == [op : AllOps \cup {None}, id : Ids \cup {None},
           cur : Ids \cup {None}, entry : Entry \cup {None},
           before : Entry \cup {None}, list : Stores \cup {None},
           session : Sessions \cup {None}, old : Sessions \cup {None},
           args : Args, name : Names \cup {None},
           script : Scripts \cup {None},
           spawned : BOOLEAN, unshared : BOOLEAN, failed : BOOLEAN,
           todo : SUBSET Ids, gone : SUBSET Ids, doomed : SUBSET Sessions]

Blank == [op |-> None, id |-> None, cur |-> None, entry |-> None,
          before |-> None, list |-> None, session |-> None, old |-> None,
          args |-> DefaultArgs, name |-> None, script |-> None,
          spawned |-> FALSE, unshared |-> FALSE, failed |-> FALSE,
          todo |-> {}, gone |-> {}, doomed |-> {}]

StoreTypeOK ==
    /\ workspaces \in Stores
    /\ stored \in Stores \cup {Torn}

GitTypeOK ==
    /\ disk \in [Ids -> Names \cup {None}]
    /\ branch \in [Ids -> Names \cup {None}]
    /\ issued \in SUBSET Ids

PoolTypeOK ==
    /\ sessions \in [Ids -> Sessions \cup {None}]
    /\ proc \in [Sessions -> {"unborn", "alive", "dead"}]
    /\ registered \in [Sessions -> SUBSET Ids]
    /\ args \in [Sessions -> Args]

(* The type of every variable. *)
TypeOK ==
    /\ StoreTypeOK
    /\ GitTypeOK
    /\ PoolTypeOK
    /\ spawnLock \in Tasks \cup {None}
    /\ pc \in [Tasks -> Labels]
    /\ task \in [Tasks -> Locals]

Present(map) == {w \in Ids : map[w] # None}

IsMain(entry) == entry # None /\ entry.parent = None

Children(map, w) == {c \in Ids : map[c] # None /\ map[c].parent = w}

Init ==
    /\ stored \in InitialStores
    /\ workspaces = stored
    /\ disk = [w \in Ids |-> IF stored[w] = None THEN None
                             ELSE stored[w].path]
    /\ branch = [w \in Ids |-> IF stored[w] = None THEN None
                               ELSE stored[w].branch]
    /\ issued = Present(stored)
    /\ sessions = [w \in Ids |-> None]
    /\ proc = [s \in Sessions |-> "unborn"]
    /\ registered = [s \in Sessions |-> {}]
    /\ args = [s \in Sessions |-> DefaultArgs]
    /\ spawnLock = None
    /\ pc = [t \in Tasks |-> "idle"]
    /\ task = [t \in Tasks |-> Blank]
-----------------------------------------------------------------------------
(* Control: go to another step, or return and drop the spawn guard (RAII). *)

At(t, label) == pc[t] = label

Goto(t, label) == /\ pc' = [pc EXCEPT ![t] = label]
                  /\ UNCHANGED spawnLock

(* Seeded fault: the guard is not dropped when a command fails. *)
Return_err_keeps_guard(t, verdict) ==
    /\ pc' = [pc EXCEPT ![t] = verdict]
    /\ task' = [task EXCEPT ![t] = Blank]
    /\ spawnLock' = IF spawnLock = t /\ verdict = "ok" THEN None ELSE spawnLock

Return(t, verdict) ==
    /\ pc' = [pc EXCEPT ![t] = verdict]
    /\ task' = [task EXCEPT ![t] = Blank]
    /\ spawnLock' = IF spawnLock = t THEN None ELSE spawnLock

(* write_workspaces: create or truncate the file, then write the list.     *)
(* An error leaves the file as it was, or truncated.                       *)
write_workspaces(list) == stored' = list

write_workspaces_fails ==
    /\ "write" \in Faults
    /\ \/ UNCHANGED stored
       \/ /\ "torn" \in Faults
          /\ stored' = Torn

(* Seeded fault: an unreadable file is passed on. *)
read_workspaces_unchecked(file) == file

(* read_workspaces(..).unwrap_or_default() *)
read_workspaces(file) == IF file = Torn THEN EmptyStore ELSE file

session_process_is_alive(s) == proc[s] = "alive"

kill_child_process_tree(s) ==
    proc' = [proc EXCEPT ![s] = IF @ = "alive" THEN "dead" ELSE @]

remove_session_references(s) ==
    sessions' = [w \in Ids |-> IF sessions[w] = s THEN None ELSE sessions[w]]

AddOps == {"add", "clone", "giturl", "worktree"}

(* The checkout is the command's own, and is deleted if the command fails. *)
ClonesDir(op) == op \in {"clone", "giturl"}

FirstStep(op) ==
    CASE op = "connect" -> IF Daemon THEN "precheck" ELSE "resolve"
      [] op = "args" -> "resolve"
      [] op \in {"add", "clone", "giturl"} -> "prepare"
      [] op \in {"worktree", "remove", "rmworktree", "rename"} -> "lookup"
      [] op = "settings" -> "apply"
      [] op = "list" -> "syncRead"

(* A command arrives.  Its target is an id the client has been told of,    *)
(* "add" and its kin have none yet; list_workspaces only changes state in  *)
(* the daemon, which synchronises with the file first.                     *)
Request(t) ==
    /\ pc[t] \in AtRest
    /\ \E op \in Ops :
        /\ op = "list" => Daemon
        /\ \E w \in IF op \in {"add", "giturl", "list"} THEN {None} ELSE issued,
              a \in IF op = "args" THEN Args ELSE {DefaultArgs},
              n \in IF op \in AddOps \cup {"rename"} THEN Names ELSE {None},
              x \in IF op = "settings" THEN Scripts ELSE {None} :
            task' = [task EXCEPT ![t] = [Blank EXCEPT !.op = op, !.id = w,
                        !.args = a, !.name = n, !.script = x]]
        /\ Goto(t, FirstStep(op))
    /\ UNCHANGED <<store, git, pool>>
-----------------------------------------------------------------------------
(* connect_workspace_core, and the common part of the add_* functions.     *)

(* DaemonState::connect_workspace answers from the map alone. *)
connect_workspace_precheck(t) ==
    /\ At(t, "precheck")
    /\ \/ /\ sessions[task[t].id] # None
          /\ Return(t, "ok")
       \/ /\ sessions[task[t].id] = None
          /\ Goto(t, "resolve")
          /\ UNCHANGED task
    /\ UNCHANGED <<store, git, pool>>

resolve_entry_and_parent(t) ==
    /\ At(t, "resolve")
    /\ \/ /\ workspaces[task[t].id] = None
          /\ Return(t, "err")
       \/ /\ workspaces[task[t].id] # None
          /\ Goto(t, "lock")
          /\ UNCHANGED task
    /\ UNCHANGED <<store, git, pool>>

(* A new id, its entry, and the checkout it stands for. *)
MintEntry(t, parent, script) ==
    \E w \in Ids \ issued :
        /\ issued' = issued \cup {w}
        /\ disk' = [disk EXCEPT ![w] = task[t].name]
        /\ branch' = [branch EXCEPT ![w] = task[t].name]
        /\ task' = [task EXCEPT
                ![t].id = w,
                ![t].entry = [parent |-> parent, script |-> script,
                              branch |-> task[t].name, path |-> task[t].name]]

(* Up to the spawn lock: the folder is checked, or git clones into it.     *)
(* add_clone_core needs a source; what a failed clone leaves has no id.    *)
add_workspace_prepare(t) ==
    /\ At(t, "prepare")
    /\ \/ /\ \/ "git" \in Faults
             \/ task[t].op = "clone" /\ workspaces[task[t].id] = None
             \/ issued = Ids  \* bound: no id left
          /\ Return(t, "err")
          /\ UNCHANGED git
       \/ /\ task[t].op = "clone" => workspaces[task[t].id] # None
          /\ MintEntry(t, None, DefaultScript)
          /\ Goto(t, "lock")
    /\ UNCHANGED <<store, pool>>

add_worktree_lookup(t) ==
    /\ At(t, "lookup") /\ task[t].op = "worktree"
    /\ LET parent == workspaces[task[t].id]
       IN  \/ /\ ~IsMain(parent)
              /\ Return(t, "err")
           \/ /\ IsMain(parent)
              /\ task' = [task EXCEPT ![t].entry = parent]
              /\ Goto(t, "gitAdd")
    /\ UNCHANGED <<store, git, pool>>

(* git worktree add; the script is the parent's when it was looked up. *)
add_worktree_git(t) ==
    /\ At(t, "gitAdd")
    /\ \/ /\ \/ "git" \in Faults
             \/ issued = Ids  \* bound: no id left
          /\ Return(t, "err")
          /\ UNCHANGED git
       \/ /\ MintEntry(t, task[t].id, task[t].entry.script)
          /\ Goto(t, "lock")
    /\ UNCHANGED <<store, pool>>

(* Seeded fault: nobody waits for the spawn lock. *)
workspace_session_spawn_lock_unguarded(t) ==
    /\ At(t, "lock")
    /\ spawnLock' = t
    /\ pc' = [pc EXCEPT ![t] = CASE task[t].op = "connect" -> "own"
                                 [] task[t].op = "args" -> "current"
                                 [] OTHER -> "take"]
    /\ UNCHANGED <<store, git, pool, task>>

workspace_session_spawn_lock(t) ==
    /\ At(t, "lock")
    /\ spawnLock = None
    /\ spawnLock' = t
    /\ pc' = [pc EXCEPT ![t] = CASE task[t].op = "connect" -> "own"
                                 [] task[t].op = "args" -> "current"
                                 [] OTHER -> "take"]
    /\ UNCHANGED <<store, git, pool, task>>

(* connect_workspace_core: is the workspace connected already?  The entry  *)
(* is read under the lock of the map, the process is polled after it.      *)
connect_workspace_own(t) ==
    /\ At(t, "own")
    /\ LET s == sessions[task[t].id]
       IN  /\ task' = [task EXCEPT ![t].session = s]
           /\ Goto(t, IF s = None THEN "take" ELSE "ownAlive")
    /\ UNCHANGED <<store, git, pool>>

connect_workspace_own_alive(t) ==
    /\ At(t, "ownAlive")
    /\ \/ /\ session_process_is_alive(task[t].session)
          /\ Return(t, "ok")
          /\ UNCHANGED sessions
       \/ /\ ~session_process_is_alive(task[t].session)
          /\ remove_session_references(task[t].session)
          /\ task' = [task EXCEPT ![t].session = None]
          /\ Goto(t, "take")
    /\ UNCHANGED <<store, git, proc, registered, args>>

take_live_shared_session(t) ==
    /\ At(t, "take")
    /\ \/ /\ Present(sessions) = {}
          /\ Goto(t, "spawn")
          /\ UNCHANGED task
       \/ \E w \in Present(sessions) :
            /\ task' = [task EXCEPT ![t].session = sessions[w]]
            /\ Goto(t, "takeAlive")
    /\ UNCHANGED <<store, git, pool>>

AfterSession(t) == IF task[t].op = "connect" THEN "register" ELSE "persist"

(* Seeded fault: a dead shared session stays in the map. *)
take_live_shared_session_keeps_dead(t) ==
    /\ At(t, "takeAlive")
    /\ Goto(t, IF session_process_is_alive(task[t].session)
               THEN AfterSession(t) ELSE "spawn")
    /\ UNCHANGED <<store, git, pool, task>>

take_live_shared_session_alive(t) ==
    /\ At(t, "takeAlive")
    /\ \/ /\ session_process_is_alive(task[t].session)
          /\ Goto(t, AfterSession(t))
          /\ UNCHANGED <<sessions, task>>
       \/ /\ ~session_process_is_alive(task[t].session)
          /\ remove_session_references(task[t].session)
          /\ task' = [task EXCEPT ![t].session = None]
          /\ Goto(t, "take")
    /\ UNCHANGED <<store, git, proc, registered, args>>

(* A failed command deletes the clone it made; an error of remove_dir_all  *)
(* is discarded.                                                           *)
remove_clone(t) ==
    \/ disk' = IF ClonesDir(task[t].op)
               THEN [disk EXCEPT ![task[t].id] = None] ELSE disk
    \/ "rollback" \in Faults /\ UNCHANGED disk

(* spawn_session(..).await, a new process that knows its first workspace.  *)
(* A failed spawn leaves no process: the errors after the start are a      *)
(* time-out, which kills the child, and a pipe that the child closed.      *)
(* Then a clone is deleted, a worktree stays on disk.                      *)
spawn_session(t) ==
    /\ At(t, "spawn")
    /\ \/ \E s \in Sessions :
            /\ proc[s] = "unborn"
            /\ proc' = [proc EXCEPT ![s] = "alive"]
            /\ args' = [args EXCEPT ![s] = task[t].args]
            /\ registered' = [registered EXCEPT ![s] = {task[t].id}]
            /\ task' = [task EXCEPT ![t].session = s, ![t].spawned = TRUE]
            /\ Goto(t, IF task[t].op = "args" THEN "swap"
                       ELSE AfterSession(t))
            /\ UNCHANGED disk
       \/ /\ \/ "spawn" \in Faults
             \/ \A s \in Sessions : proc[s] # "unborn"  \* bound: none left
          /\ remove_clone(t)
          /\ Return(t, "err")
          /\ UNCHANGED <<proc, args, registered>>
    /\ UNCHANGED <<store, branch, issued, sessions>>

(* Seeded fault: the entry of a failed add stays in the map. *)
add_workspace_persist_no_undo(t) ==
    /\ At(t, "persist")
    /\ workspaces' = [workspaces EXCEPT ![task[t].id] = task[t].entry]
    /\ \/ write_workspaces(workspaces') /\ Goto(t, "register") /\ UNCHANGED task
       \/ write_workspaces_fails /\ Return(t, "err")
    /\ UNCHANGED <<git, pool>>

(* Insert the entry and save, in one critical section of `workspaces`.     *)
(* add_worktree_core leaves through `?`: nothing is undone.                *)
add_workspace_persist(t) ==
    /\ At(t, "persist")
    /\ workspaces' = [workspaces EXCEPT ![task[t].id] = task[t].entry]
    /\ \/ /\ write_workspaces(workspaces')
          /\ Goto(t, "register")
          /\ UNCHANGED task
       \/ /\ write_workspaces_fails
          /\ \/ task[t].op = "worktree" /\ Return(t, "err")
             \/ task[t].op # "worktree" /\ Goto(t, "undo") /\ UNCHANGED task
    /\ UNCHANGED <<git, pool>>

add_workspace_undo(t) ==
    /\ At(t, "undo")
    /\ workspaces' = [workspaces EXCEPT ![task[t].id] = None]
    /\ Goto(t, "undoKill")
    /\ UNCHANGED <<stored, git, pool, task>>

(* Seeded fault: the rollback kills the session even if it is shared. *)
add_workspace_undo_kill_shared(t) ==
    /\ At(t, "undoKill")
    /\ kill_child_process_tree(task[t].session)
    /\ remove_clone(t)
    /\ Return(t, "err")
    /\ UNCHANGED <<store, branch, issued, sessions, registered, args>>

(* Seeded fault: the rollback leaves the child that it spawned running. *)
add_workspace_undo_no_kill(t) ==
    /\ At(t, "undoKill")
    /\ remove_clone(t)
    /\ Return(t, "err")
    /\ UNCHANGED <<store, branch, issued, pool>>

(* The child dies if this command spawned it, and a clone goes. *)
add_workspace_undo_kill(t) ==
    /\ At(t, "undoKill")
    /\ IF task[t].spawned THEN kill_child_process_tree(task[t].session)
                          ELSE UNCHANGED proc
    /\ remove_clone(t)
    /\ Return(t, "err")
    /\ UNCHANGED <<store, branch, issued, sessions, registered, args>>

register_workspace_with_path(t) ==
    /\ At(t, "register")
    /\ registered' = [registered EXCEPT ![task[t].session] = @ \cup {task[t].id}]
    /\ Goto(t, "insert")
    /\ UNCHANGED <<store, git, sessions, proc, args, task>>

connect_workspace_insert(t) ==
    /\ At(t, "insert")
    /\ sessions' = [sessions EXCEPT ![task[t].id] = task[t].session]
    /\ Return(t, "ok")
    /\ UNCHANGED <<store, git, proc, registered, args>>
-----------------------------------------------------------------------------
(* set_workspace_runtime_codex_args_core: replace the shared session.      *)

runtime_codex_args_current(t) ==
    /\ At(t, "current")
    /\ \/ /\ sessions[task[t].id] = None
          /\ Return(t, "ok")
       \/ /\ sessions[task[t].id] # None
          /\ \E w \in Present(sessions) :
                \/ /\ args[sessions[w]] = task[t].args
                   /\ Return(t, "ok")
                \/ /\ args[sessions[w]] # task[t].args
                   /\ task' = [task EXCEPT ![t].old = sessions[w]]
                   /\ Goto(t, "spawn")
    /\ UNCHANGED <<store, git, pool>>

(* Seeded fault: only the caller's workspace is registered again. *)
runtime_codex_args_swap_own(t) ==
    /\ At(t, "swap")
    /\ sessions' = [w \in Ids |-> IF sessions[w] = None THEN None
                                  ELSE task[t].session]
    /\ task' = [task EXCEPT ![t].todo = {task[t].id}]
    /\ Goto(t, "registerAll")
    /\ UNCHANGED <<store, git, proc, registered, args>>

(* Seeded fault: only the caller's workspace gets the new session. *)
runtime_codex_args_swap_one(t) ==
    /\ At(t, "swap")
    /\ sessions' = [sessions EXCEPT ![task[t].id] = task[t].session]
    /\ task' = [task EXCEPT ![t].todo = Present(sessions)]
    /\ Goto(t, "registerAll")
    /\ UNCHANGED <<store, git, proc, registered, args>>

(* Every key of the map, whatever it holds, now names the new session. *)
runtime_codex_args_swap(t) ==
    /\ At(t, "swap")
    /\ sessions' = [w \in Ids |-> IF sessions[w] = None THEN None
                                  ELSE task[t].session]
    /\ task' = [task EXCEPT ![t].todo = Present(sessions)]
    /\ Goto(t, "registerAll")
    /\ UNCHANGED <<store, git, proc, registered, args>>

runtime_codex_args_register(t) ==
    /\ At(t, "registerAll")
    /\ \/ \E w \in task[t].todo :
            /\ registered' = [registered EXCEPT ![task[t].session] = @ \cup {w}]
            /\ task' = [task EXCEPT ![t].todo = @ \ {w}]
            /\ Goto(t, "registerAll")
       \/ /\ task[t].todo = {}
          /\ Goto(t, "killOld")
          /\ UNCHANGED <<registered, task>>
    /\ UNCHANGED <<store, git, sessions, proc, args>>

runtime_codex_args_kill_old(t) ==
    /\ At(t, "killOld")
    /\ kill_child_process_tree(task[t].old)
    /\ Return(t, "ok")
    /\ UNCHANGED <<store, git, sessions, registered, args>>
-----------------------------------------------------------------------------
(* kill_session_by_id: drop the reference, unregister, kill if unshared.   *)

(* Seeded fault: the reference that goes away is counted. *)
StillReferenced_counting_own(w) == \E v \in Ids : sessions[v] = sessions[w]

(* Seeded fault: nobody looks whether the session is shared. *)
StillReferenced_unchecked(w) == sessions[w] = None

StillReferenced(w) == \E v \in Ids \ {w} : sessions[v] = sessions[w]

AfterKill(t) == IF task[t].cur = task[t].id /\ task[t].op = "remove"
                THEN "forget" ELSE "files"

kill_session_by_id_remove(t) ==
    /\ At(t, "drop")
    /\ LET w == task[t].cur
       IN  \/ /\ sessions[w] = None
              /\ Goto(t, AfterKill(t))
              /\ UNCHANGED <<sessions, task>>
           \/ /\ sessions[w] # None
              /\ sessions' = [sessions EXCEPT ![w] = None]
              /\ task' = [task EXCEPT ![t].session = sessions[w],
                                      ![t].unshared = ~StillReferenced(w)]
              /\ Goto(t, "unregister")
    /\ UNCHANGED <<store, git, proc, registered, args>>

(* kill_session_by_id returns: its locals are gone. *)
KillReturns(t) ==
    /\ task' = [task EXCEPT ![t].session = None, ![t].unshared = FALSE]
    /\ Goto(t, AfterKill(t))

unregister_workspace(t) ==
    /\ At(t, "unregister")
    /\ registered' = [registered EXCEPT ![task[t].session] = @ \ {task[t].cur}]
    /\ \/ task[t].unshared /\ Goto(t, "kill") /\ UNCHANGED task
       \/ ~task[t].unshared /\ KillReturns(t)
    /\ UNCHANGED <<store, git, sessions, proc, args>>

kill_session_by_id_kill(t) ==
    /\ At(t, "kill")
    /\ kill_child_process_tree(task[t].session)
    /\ KillReturns(t)
    /\ UNCHANGED <<store, git, sessions, registered, args>>
-----------------------------------------------------------------------------
(* remove_workspace_core and remove_worktree_core.                         *)

(* The entries a command cloned out of the map. *)
Only(map, ids) == [w \in Ids |-> IF w \in ids THEN map[w] ELSE None]

remove_workspace_lookup(t) ==
    /\ At(t, "lookup") /\ task[t].op = "remove"
    /\ LET entry == workspaces[task[t].id]
       IN  \/ /\ ~IsMain(entry)
              /\ Return(t, "err")
           \/ /\ IsMain(entry)
              /\ task' = [task EXCEPT
                    ![t].todo = Children(workspaces, task[t].id),
                    ![t].list = Only(workspaces, Children(workspaces, task[t].id))]
              /\ Goto(t, "child")
    /\ UNCHANGED <<store, git, pool>>

(* Seeded fault: the workspace goes although a worktree of it stays. *)
remove_workspace_despite_failures(t) ==
    /\ At(t, "child")
    /\ \/ \E c \in task[t].todo :
            task' = [task EXCEPT ![t].todo = @ \ {c}, ![t].cur = c]
       \/ /\ task[t].todo = {}
          /\ task' = [task EXCEPT ![t].cur = task[t].id,
                                  ![t].gone = @ \cup {task[t].id}]
    /\ Goto(t, "drop")
    /\ UNCHANGED <<store, git, pool>>

(* Seeded fault: the session of the workspace itself is not dropped. *)
remove_workspace_keeps_session(t) ==
    /\ At(t, "child")
    /\ \/ \E c \in task[t].todo :
            /\ task' = [task EXCEPT ![t].todo = @ \ {c}, ![t].cur = c]
            /\ Goto(t, "drop")
       \/ /\ task[t].todo = {}
          /\ task' = [task EXCEPT ![t].gone =
                IF task[t].failed THEN @ ELSE @ \cup {task[t].id}]
          /\ Goto(t, "forget")
    /\ UNCHANGED <<store, git, pool>>

(* The next child, or the workspace itself if every child could be removed. *)
remove_workspace_child(t) ==
    /\ At(t, "child")
    /\ \/ \E c \in task[t].todo :
            /\ task' = [task EXCEPT ![t].todo = @ \ {c}, ![t].cur = c]
            /\ Goto(t, "drop")
       \/ /\ task[t].todo = {}
          /\ \/ /\ task[t].failed
                /\ Goto(t, "forget")
                /\ UNCHANGED task
             \/ /\ ~task[t].failed
                /\ task' = [task EXCEPT ![t].cur = task[t].id,
                                        ![t].gone = @ \cup {task[t].id}]
                /\ Goto(t, "drop")
    /\ UNCHANGED <<store, git, pool>>

remove_worktree_lookup(t) ==
    /\ At(t, "lookup") /\ task[t].op = "rmworktree"
    /\ LET entry == workspaces[task[t].id]
           usable == /\ entry # None
                     /\ entry.parent # None
                     /\ workspaces[entry.parent] # None
       IN  \/ ~usable /\ Return(t, "err")
           \/ /\ usable
              /\ task' = [task EXCEPT
                    ![t].list = Only(workspaces, {task[t].id}),
                    ![t].cur = task[t].id, ![t].gone = {task[t].id}]
              /\ Goto(t, "drop")
    /\ UNCHANGED <<store, git, pool>>

(* Delete the checkout at the path that was looked up, if it is there.     *)
(* An error fails a remove_worktree, and is collected by remove_workspace. *)
remove_worktree_files(t) ==
    LET c == task[t].cur
    IN  /\ At(t, "files")
        /\ \/ /\ disk' = IF disk[c] = task[t].list[c].path
                         THEN [disk EXCEPT ![c] = None] ELSE disk
              /\ task' = [task EXCEPT ![t].gone = @ \cup {c}]
              /\ Goto(t, IF task[t].op = "remove" THEN "child" ELSE "forget")
           \/ /\ "git" \in Faults
              /\ disk[c] = task[t].list[c].path
              /\ \/ /\ task[t].op = "remove"
                    /\ task' = [task EXCEPT ![t].failed = TRUE]
                    /\ Goto(t, "child")
                 \/ task[t].op = "rmworktree" /\ Return(t, "err")
              /\ UNCHANGED disk
        /\ UNCHANGED <<store, branch, issued, pool>>

(* Remove the entries and save, in one critical section of `workspaces`. *)
remove_workspace_forget(t) ==
    /\ At(t, "forget")
    /\ workspaces' = [w \in Ids |-> IF w \in task[t].gone THEN None
                                    ELSE workspaces[w]]
    /\ \/ /\ write_workspaces(workspaces')
          /\ Return(t, IF task[t].failed THEN "err" ELSE "ok")
       \/ /\ write_workspaces_fails
          /\ Return(t, "err")
    /\ UNCHANGED <<git, pool>>
-----------------------------------------------------------------------------
(* update_workspace_settings_core: three critical sections, then a save    *)
(* of the list outside of them.                                            *)

update_workspace_settings_apply(t) ==
    /\ At(t, "apply")
    /\ LET w == task[t].id
       IN  \/ /\ workspaces[w] = None
              /\ Return(t, "err")
              /\ UNCHANGED workspaces
           \/ /\ workspaces[w] # None
              /\ workspaces' = [workspaces EXCEPT ![w].script = task[t].script]
              /\ task' = [task EXCEPT ![t].todo =
                    IF /\ workspaces[w].script # task[t].script
                       /\ workspaces[w].parent = None
                    THEN Children(workspaces, w) ELSE {}]
              /\ Goto(t, "propagate")
    /\ UNCHANGED <<stored, git, pool>>

update_workspace_settings_propagate(t) ==
    /\ At(t, "propagate")
    /\ workspaces' = [w \in Ids |->
            IF w \in task[t].todo /\ workspaces[w] # None
            THEN [workspaces[w] EXCEPT !.script = task[t].script]
            ELSE workspaces[w]]
    /\ Goto(t, "snapshot")
    /\ UNCHANGED <<stored, git, pool, task>>

update_workspace_settings_snapshot(t) ==
    /\ At(t, "snapshot")
    /\ task' = [task EXCEPT ![t].list = workspaces]
    /\ Goto(t, "save")
    /\ UNCHANGED <<store, git, pool>>

(* The list may be out of date by now.  rename_worktree_core saves this    *)
(* way too, and goes on to roll back or to register the new path.          *)
save_list(t) ==
    /\ At(t, "save")
    /\ \/ /\ write_workspaces(task[t].list)
          /\ \/ task[t].op = "settings" /\ Return(t, "ok")
             \/ task[t].op = "rename" /\ Goto(t, "reregister") /\ UNCHANGED task
       \/ /\ write_workspaces_fails
          /\ \/ task[t].op = "settings" /\ Return(t, "err")
             \/ /\ task[t].op = "rename"
                /\ task' = [task EXCEPT ![t].failed = TRUE]
                /\ Goto(t, "renameBack")
    /\ UNCHANGED <<workspaces, git, pool>>
-----------------------------------------------------------------------------
(* rename_worktree_core: git first, then the entry, then the file.         *)

rename_worktree_lookup(t) ==
    /\ At(t, "lookup") /\ task[t].op = "rename"
    /\ LET entry == workspaces[task[t].id]
           usable == /\ entry # None
                     /\ entry.parent # None
                     /\ workspaces[entry.parent] # None
                     /\ entry.branch # task[t].name
       IN  \/ ~usable /\ Return(t, "err")
           \/ /\ usable
              /\ task' = [task EXCEPT ![t].entry = entry]
              /\ Goto(t, "branchMove")
    /\ UNCHANGED <<store, git, pool>>

(* The folder moves only if its name changes. *)
Moves(t) == task[t].entry.path # task[t].name

(* git branch -m <old> <new> *)
rename_worktree_branch(t) ==
    LET w == task[t].id
    IN  /\ At(t, "branchMove")
        /\ \/ /\ \/ "git" \in Faults
                 \/ branch[w] # task[t].entry.branch
              /\ Return(t, "err")
              /\ UNCHANGED branch
           \/ /\ branch[w] = task[t].entry.branch
              /\ branch' = [branch EXCEPT ![w] = task[t].name]
              /\ Goto(t, IF Moves(t) THEN "gitMove" ELSE "update")
              /\ UNCHANGED task
        /\ UNCHANGED <<store, disk, issued, pool>>

(* Seeded fault: a failed move leaves the branch renamed. *)
rename_worktree_move_no_rollback(t) ==
    LET w == task[t].id
    IN  /\ At(t, "gitMove")
        /\ \/ /\ \/ "git" \in Faults
                 \/ disk[w] # task[t].entry.path
              /\ Return(t, "err")
              /\ UNCHANGED disk
           \/ /\ disk[w] = task[t].entry.path
              /\ disk' = [disk EXCEPT ![w] = task[t].name]
              /\ Goto(t, "update")
              /\ UNCHANGED task
        /\ UNCHANGED <<store, branch, issued, pool>>

(* git worktree move <old> <new> *)
rename_worktree_move(t) ==
    LET w == task[t].id
    IN  /\ At(t, "gitMove")
        /\ \/ /\ \/ "git" \in Faults
                 \/ disk[w] # task[t].entry.path
              /\ Goto(t, "branchBack")
              /\ UNCHANGED disk
           \/ /\ disk[w] = task[t].entry.path
              /\ disk' = [disk EXCEPT ![w] = task[t].name]
              /\ Goto(t, "update")
        /\ UNCHANGED <<store, branch, issued, pool, task>>

rename_worktree_update(t) ==
    LET w == task[t].id
    IN  /\ At(t, "update")
        /\ \/ /\ workspaces[w] = None
              /\ Goto(t, "renameBack")
              /\ UNCHANGED <<workspaces, task>>
           \/ /\ workspaces[w] # None
              /\ workspaces' = [workspaces EXCEPT ![w].branch = task[t].name,
                                                  ![w].path = task[t].name]
              /\ task' = [task EXCEPT ![t].before = workspaces[w],
                                      ![t].list = workspaces']
              /\ Goto(t, "save")
        /\ UNCHANGED <<stored, git, pool>>

(* Errors of the commands that roll back are ignored. *)
rename_worktree_move_back(t) ==
    LET w == task[t].id
    IN  /\ At(t, "renameBack")
        /\ \/ disk' = IF Moves(t) /\ disk[w] = task[t].name
                      THEN [disk EXCEPT ![w] = task[t].entry.path] ELSE disk
           \/ "rollback" \in Faults /\ UNCHANGED disk
        /\ Goto(t, "branchBack")
        /\ UNCHANGED <<store, branch, issued, pool, task>>

rename_worktree_branch_back(t) ==
    LET w == task[t].id
    IN  /\ At(t, "branchBack")
        /\ \/ branch' = IF branch[w] = task[t].name
                        THEN [branch EXCEPT ![w] = task[t].entry.branch]
                        ELSE branch
           \/ "rollback" \in Faults /\ UNCHANGED branch
        /\ \/ task[t].failed /\ Goto(t, "restore") /\ UNCHANGED task
           \/ ~task[t].failed /\ Return(t, "err")
        /\ UNCHANGED <<store, disk, issued, pool>>

rename_worktree_restore(t) ==
    LET w == task[t].id
    IN  /\ At(t, "restore")
        /\ workspaces' = IF workspaces[w] = None THEN workspaces
                         ELSE [workspaces EXCEPT ![w] = task[t].before]
        /\ Return(t, "err")
        /\ UNCHANGED <<stored, git, pool>>

(* The guard of `sessions` lives to the end of the `if let`. *)
rename_worktree_register(t) ==
    /\ At(t, "reregister")
    /\ LET s == sessions[task[t].id]
       IN  registered' = IF s = None THEN registered
                         ELSE [registered EXCEPT ![s] = @ \cup {task[t].id}]
    /\ Return(t, "ok")
    /\ UNCHANGED <<store, git, sessions, proc, args>>
-----------------------------------------------------------------------------
(* DaemonState::list_workspaces: sync_workspaces_from_storage.             *)

sync_workspaces_read(t) ==
    /\ At(t, "syncRead")
    /\ \/ stored = Torn /\ Return(t, "ok")
       \/ /\ stored # Torn
          /\ task' = [task EXCEPT ![t].list = stored]
          /\ Goto(t, "syncStore")
    /\ UNCHANGED <<store, git, pool>>

sync_workspaces_store(t) ==
    /\ At(t, "syncStore")
    /\ workspaces' = task[t].list
    /\ Goto(t, "syncPrune")
    /\ UNCHANGED <<stored, git, pool, task>>

Stale(t) == {w \in Present(sessions) : task[t].list[w] = None}

sync_workspaces_prune(t) ==
    /\ At(t, "syncPrune")
    /\ sessions' = [w \in Ids |-> IF w \in Stale(t) THEN None ELSE sessions[w]]
    /\ task' = [task EXCEPT ![t].doomed = {sessions[w] : w \in Stale(t)},
                            ![t].list = None]
    /\ Goto(t, "syncKill")
    /\ UNCHANGED <<store, git, proc, registered, args>>

(* The children of the pruned sessions, whoever else refers to them. *)
sync_workspaces_kill(t) ==
    /\ At(t, "syncKill")
    /\ \/ \E s \in task[t].doomed :
            /\ kill_child_process_tree(s)
            /\ task' = [task EXCEPT ![t].doomed = @ \ {s}]
            /\ Goto(t, "syncKill")
       \/ /\ task[t].doomed = {}
          /\ Return(t, "ok")
          /\ UNCHANGED proc
    /\ UNCHANGED <<store, git, sessions, registered, args>>
-----------------------------------------------------------------------------
(* The environment.                                                        *)

(* An app-server exits or crashes on its own. *)
Crash ==
    /\ "crash" \in Faults
    /\ \E s \in Sessions : proc[s] = "alive" /\ kill_child_process_tree(s)
    /\ UNCHANGED <<store, git, sessions, registered, args, spawnLock, pc, task>>

(* The program stops and is started again: AppState::load reads the file,  *)
(* an unreadable one counts as empty.  The stdin of every app-server is    *)
(* closed, which ends it.  A save that was under way may be torn.          *)
Restart ==
    /\ "restart" \in Faults
    /\ \/ UNCHANGED stored
       \/ /\ "torn" \in Faults
          /\ \E t \in Tasks : pc[t] \in {"persist", "forget", "save"}
          /\ stored' = Torn
    /\ workspaces' = read_workspaces(stored')
    /\ sessions' = [w \in Ids |-> None]
    /\ proc' = [s \in Sessions |-> IF proc[s] = "alive" THEN "dead" ELSE proc[s]]
    /\ spawnLock' = None
    /\ pc' = [t \in Tasks |-> "idle"]
    /\ task' = [t \in Tasks |-> Blank]
    /\ UNCHANGED <<git, registered, args>>

(* The desktop app and the daemon are two processes with one               *)
(* workspaces.json: the other one removes a workspace and its worktrees.   *)
OtherProcessSaves ==
    /\ "external" \in Faults
    /\ stored # Torn
    /\ \E w \in Present(stored) :
        stored' = [v \in Ids |-> IF v = w \/ v \in Children(stored, w)
                                 THEN None ELSE stored[v]]
    /\ UNCHANGED <<workspaces, git, pool, spawnLock, pc, task>>

Environment == Crash \/ Restart \/ OtherProcessSaves
-----------------------------------------------------------------------------
Connect(t) ==
    \/ connect_workspace_precheck(t)
    \/ resolve_entry_and_parent(t)
    \/ connect_workspace_own(t)
    \/ connect_workspace_own_alive(t)
    \/ take_live_shared_session(t)
    \/ take_live_shared_session_alive(t)
    \/ spawn_session(t)
    \/ register_workspace_with_path(t)
    \/ connect_workspace_insert(t)

AddWorkspace(t) ==
    \/ add_workspace_prepare(t)
    \/ add_worktree_lookup(t)
    \/ add_worktree_git(t)
    \/ add_workspace_persist(t)
    \/ add_workspace_undo(t)
    \/ add_workspace_undo_kill(t)

RuntimeArgs(t) ==
    \/ runtime_codex_args_current(t)
    \/ runtime_codex_args_swap(t)
    \/ runtime_codex_args_register(t)
    \/ runtime_codex_args_kill_old(t)

RemoveWorkspace(t) ==
    \/ remove_workspace_lookup(t)
    \/ remove_workspace_child(t)
    \/ remove_worktree_lookup(t)
    \/ kill_session_by_id_remove(t)
    \/ unregister_workspace(t)
    \/ kill_session_by_id_kill(t)
    \/ remove_worktree_files(t)
    \/ remove_workspace_forget(t)

UpdateSettings(t) ==
    \/ update_workspace_settings_apply(t)
    \/ update_workspace_settings_propagate(t)
    \/ update_workspace_settings_snapshot(t)
    \/ save_list(t)

RenameWorktree(t) ==
    \/ rename_worktree_lookup(t)
    \/ rename_worktree_branch(t)
    \/ rename_worktree_move(t)
    \/ rename_worktree_update(t)
    \/ rename_worktree_move_back(t)
    \/ rename_worktree_branch_back(t)
    \/ rename_worktree_restore(t)
    \/ rename_worktree_register(t)

SyncFromStorage(t) ==
    \/ sync_workspaces_read(t)
    \/ sync_workspaces_store(t)
    \/ sync_workspaces_prune(t)
    \/ sync_workspaces_kill(t)

(* A step of a command in flight that needs no lock to be free. *)
Advance(t) ==
    \/ Connect(t) \/ AddWorkspace(t) \/ RuntimeArgs(t) \/ RemoveWorkspace(t)
    \/ UpdateSettings(t) \/ RenameWorktree(t) \/ SyncFromStorage(t)

Next ==
    \/ \E t \in Tasks :
        Request(t) \/ workspace_session_spawn_lock(t) \/ Advance(t)
    \/ Environment

Spec == Init /\ [][Next]_vars

(* The runtime polls every ready task; tokio's Mutex hands the lock to its *)
(* waiters in FIFO order, so a waiter is not overtaken for ever.           *)
Fairness == \A t \in Tasks : /\ WF_vars(Advance(t))
                             /\ SF_vars(workspace_session_spawn_lock(t))

FairSpec == Spec /\ Fairness
-----------------------------------------------------------------------------
(* Properties.                                                             *)

Holds(t, s) == /\ pc[t] \notin AtRest
               /\ s = task[t].session \/ s = task[t].old \/ s \in task[t].doomed

Quiet == \A t \in Tasks : pc[t] \in AtRest

(* What a task that is about to take the step `label` has in its locals:   *)
(* every local the step and its successors read was set by an earlier one. *)
ConnectOps == {"connect", "args"}

NeedsId == {"precheck", "resolve", "gitAdd", "lock", "own", "ownAlive", "take",
            "takeAlive", "spawn", "persist", "undo", "undoKill", "register",
            "insert", "current", "lookup", "child", "drop", "unregister", "kill",
            "files", "apply", "branchMove", "gitMove", "update", "renameBack",
            "branchBack", "restore", "reregister"}

NeedsName == {"prepare", "gitAdd", "branchMove", "gitMove", "update",
              "renameBack", "branchBack"}

NeedsEntry == {"gitAdd", "persist", "branchMove", "gitMove", "update",
               "renameBack", "branchBack"}

NeedsSession == {"ownAlive", "takeAlive", "persist", "register", "insert",
                 "swap", "registerAll", "unregister", "kill"}

NeedsList == {"child", "drop", "unregister", "kill", "files", "save",
              "syncStore", "syncPrune"}

LocalsFor(label, l) ==
    /\ label \in NeedsId => l.id \in Ids
    /\ label \in NeedsName => l.name \in Names
    /\ label \in NeedsEntry => l.entry \in Entry
    /\ label \in NeedsSession => l.session \in Sessions
    /\ label \in NeedsList => l.list \in Stores
    /\ label \in {"drop", "unregister", "kill", "files"} => l.cur \in Ids
    /\ label \in {"apply", "propagate"} => l.script \in Scripts
    /\ label = "lookup" /\ l.op \in {"worktree", "rename"} => l.name \in Names
    /\ label \in {"lock", "take", "takeAlive", "spawn"}
         => \/ l.op \in ConnectOps
            \/ l.op \in AddOps /\ l.entry \in Entry
    /\ label \in {"precheck", "resolve"} => l.op \in ConnectOps
    /\ label \in {"prepare", "gitAdd"} => l.op \in AddOps
    /\ label \in {"own", "take", "takeAlive"} => l.op # "args"
    /\ label \in {"own", "ownAlive"} => l.op = "connect"
    /\ label \in {"spawn", "swap", "registerAll", "killOld"}
         => (l.op = "args" => l.old \in Sessions)
    /\ label \in {"current", "swap", "registerAll", "killOld"} => l.op = "args"
    /\ label \in {"apply", "propagate", "snapshot"} => l.op = "settings"
    /\ label \in {"lookup", "branchMove", "gitMove", "update"} => ~l.failed
    /\ label = "save" /\ l.op = "rename"
         => /\ l.id \in Ids /\ l.name \in Names
            /\ l.entry \in Entry /\ l.before \in Entry
    /\ label \in {"renameBack", "branchBack"} /\ l.failed => l.before \in Entry
    /\ label = "restore" => l.before \in Entry

LocalsSet == \A t \in Tasks : LocalsFor(pc[t], task[t])

(* Only the holder of the spawn lock is inside its critical section. *)
LockHeld == \A t \in Tasks : pc[t] \in Guarded => spawnLock = t

(* The session a guarded task has chosen is the only one in the map; while *)
(* it spawns one for want of any, the map stays empty.                     *)
PoolFor(map, label, l) ==
    /\ label \in {"ownAlive", "takeAlive", "persist", "register", "insert"}
         => \A w \in Ids : map[w] \in {None, l.session}
    /\ label = "spawn" /\ l.op # "args" => \A w \in Ids : map[w] = None

PoolReserved == \A t \in Tasks : PoolFor(sessions, pc[t], task[t])

(* All connected workspaces share one app-server: whatever commands race,  *)
(* and whichever processes die, the sessions map never names two different *)
(* sessions (take_live_shared_session, connect.rs).                        *)
SingleSharedSession ==
    \A v, w \in Present(sessions) : sessions[v] = sessions[w]

(* The strengthening of SingleSharedSession that every step preserves. *)
InductiveInvariant ==
    /\ TypeOK
    /\ LocalsSet
    /\ LockHeld
    /\ PoolReserved
    /\ SingleSharedSession

SpawnStep ==
    \A s \in Sessions :
        (proc[s] = "unborn" /\ proc'[s] = "alive") =>
            \/ Present(sessions) = {}
            \/ \E t \in Tasks : task[t].op = "args" /\ spawnLock = t

(* A process is started only when no workspace refers to a session, except *)
(* to replace the shared session by one with other codex args: of two      *)
(* commands that find no session only one spawns (connect_workspace_core). *)
SpawnOnlyIntoEmptyPool == [][SpawnStep]_vars

(* No app-server outlives its use: a live process is referred to by a      *)
(* workspace, or held by a command that will insert or kill it.  Of two    *)
(* removers of the last two references exactly one must kill it            *)
(* (kill_session_by_id).                                                   *)
NoLeakedSession ==
    \A s \in Sessions :
        proc[s] = "alive" => \/ \E w \in Ids : sessions[w] = s
                             \/ \E t \in Tasks : Holds(t, s)

(* The kill of kill_session_by_id, of the rollback of an add and of the    *)
(* switch to other codex args never hits a process that a workspace still  *)
(* uses.  For kill_session_by_id, which runs outside the spawn lock, this  *)
(* holds as long as no connect overlaps it.                                *)
KillSparesReferenced ==
    [][\A t \in Tasks, s \in Sessions :
         /\ pc[t] \in {"kill", "undoKill", "killOld"}
         /\ pc'[t] \notin {pc[t], "idle"}
         /\ proc[s] = "alive" /\ proc'[s] = "dead"
         => \A w \in Ids : sessions[w] # s]_vars

(* The shared session knows every workspace that is connected through it,  *)
(* so that it can route events to it (register_workspace_with_path).       *)
ConnectedIsRegistered ==
    \A w \in Present(sessions) :
        \/ w \in registered[sessions[w]]
        \/ \E t \in Tasks : At(t, "registerAll") /\ w \in task[t].todo

(* No workspace that is gone keeps a session. *)
ConnectedIsKnown ==
    Quiet => Present(sessions) \subseteq Present(workspaces)

(* A switch to other codex args that answers Ok for a connected workspace  *)
(* has reached all of them: every connected workspace has a session with   *)
(* the args asked for, whether the process was replaced or was found to    *)
(* have them, while connects and adds take and spawn the shared session    *)
(* (set_workspace_runtime_codex_args_core).                                *)
SwitchReachesAll ==
    [][\A t \in Tasks :
         /\ task[t].op = "args" /\ pc[t] \in Guarded /\ pc'[t] = "ok"
         /\ sessions[task[t].id] # None
         => \A w \in Present(sessions') : args[sessions'[w]] = task[t].args]_vars

(* No worktree is left without its parent, in memory or in the file:       *)
(* remove_workspace keeps the parent when a child cannot be removed.       *)
WorktreesKeepTheirParent ==
    /\ ParentsPresent(workspaces)
    /\ ParentsPresent(read_workspaces(stored))

(* When all commands have returned, a worktree is where its entry says,    *)
(* on the branch its entry says (rename_worktree_core, with its rollback). *)
EntryMatchesCheckout ==
    Quiet => \A w \in Present(workspaces) :
                workspaces[w].parent # None
                    => /\ branch[w] = workspaces[w].branch
                       /\ disk[w] = workspaces[w].path

(* An add that reported an error is forgotten: no entry in memory, none in *)
(* the file that the next start would read, and no session.  (The folder   *)
(* of a clone may stay: an error of its removal is discarded.)             *)
FailedAddIsForgotten ==
    [][\A t \in Tasks :
         /\ task[t].op \in {"add", "clone", "giturl"}
         /\ pc[t] \in Guarded /\ pc'[t] = "err"
         /\ stored # Torn
         => LET w == task[t].id
            IN  /\ workspaces'[w] = None
                /\ stored'[w] = None
                /\ sessions'[w] = None]_vars

(* When all commands have returned, the file holds what memory holds.      *)
MemoryIsPersisted == (Quiet /\ stored # Torn) => stored = workspaces

(* Pruning the sessions of removed workspaces spares the session of a      *)
(* workspace that is still persisted and connected.                        *)
PruneSparesKept ==
    [][\A t \in Tasks, w \in Ids :
         /\ At(t, "syncKill")
         /\ pc'[t] = "syncKill"
         /\ sessions[w] # None /\ workspaces[w] # None
         => proc'[sessions[w]] = proc[sessions[w]]]_vars

(* Every command answers: the spawn lock is released on every path, and    *)
(* the loop of take_live_shared_session ends.                              *)
RequestsReturn == \A t \in Tasks : pc[t] \notin AtRest ~> pc[t] \in AtRest
=============================================================================
