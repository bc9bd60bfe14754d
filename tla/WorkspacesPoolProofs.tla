------------------------ MODULE WorkspacesPoolProofs ------------------------
(***************************************************************************)
(* Proofs about the life of app-server processes in WorkspacesCore: a live *)
(* process is used or about to be, a kill spares what is used, and the     *)
(* shared session knows the workspaces it serves.                          *)
(*                                                                         *)
(* Only the steps at HoldLabels, and the few that lead there, touch the    *)
(* pool or hold a session; for all others the frame lemma Bystander is     *)
(* enough.  The first part proves what holds whatever commands are issued  *)
(* (PoolInvariant); the second adds what holds for the commands that do    *)
(* not race with each other.                                               *)
(***************************************************************************)
EXTENDS WorkspacesCoreProofs

(* The steps at which a command has got hold of a session. *)
HoldLabels == {"ownAlive", "takeAlive", "spawn", "persist", "undo", "undoKill",
               "register", "insert", "swap", "registerAll", "killOld",
               "unregister", "kill", "syncKill"}

(* Which command a step belongs to, that it is one that is issued, and     *)
(* that nothing has been spawned or removed before the step that does it.  *)
CommandFor(label, l) ==
    /\ label \notin AtRest => l.op \in Ops
    /\ label = "precheck" => Daemon
    /\ label \in {"child", "drop", "unregister", "kill", "files", "forget"}
         => l.op \in {"remove", "rmworktree"}
    /\ label \in {"syncRead", "syncStore", "syncPrune", "syncKill"}
         => l.op = "list"
    /\ label \in {"persist", "undo", "undoKill"} => l.op \in AddOps
    /\ label \in {"branchMove", "gitMove", "update", "renameBack", "branchBack",
                  "restore", "reregister"} => l.op = "rename"
    /\ label = "gitAdd" => l.op = "worktree"
    /\ label = "lookup" => l.gone = {} /\ l.todo = {} /\ l.cur = None
    /\ label \in {"precheck", "resolve", "prepare", "lookup", "gitAdd", "lock",
                  "own", "ownAlive", "take", "takeAlive"} => ~l.spawned

CommandsIssued == \A t \in Tasks : CommandFor(pc[t], task[t])

(* A session that a workspace refers to, or that a command holds, has been *)
(* spawned: no later spawn can return it.                                  *)
BornFor(label, l) ==
    /\ label \in {"ownAlive", "takeAlive", "persist", "undo", "undoKill",
                  "register", "insert", "swap", "registerAll", "unregister",
                  "kill"}
         => l.session \in Sessions /\ proc[l.session] # "unborn"
    /\ label \in {"spawn", "swap", "registerAll", "killOld"} /\ l.op = "args"
         => l.old \in Sessions /\ proc[l.old] # "unborn"
    /\ label = "syncKill" => \A s \in l.doomed : proc[s] # "unborn"

HeldIsBorn ==
    /\ \A w \in Present(sessions) : proc[sessions[w]] # "unborn"
    /\ \A t \in Tasks : BornFor(pc[t], task[t])

(* No workspace refers to a session that an add has spawned and not yet    *)
(* published, nor to one that an args switch is about to kill.             *)
UnusedFor(label, l) ==
    /\ label \in {"persist", "undo", "undoKill"} /\ l.spawned
         => \A w \in Ids : sessions[w] # l.session
    /\ label = "swap" => l.old # l.session
    /\ label \in {"registerAll", "killOld"}
         => \A w \in Ids : sessions[w] # l.old

DoomedIsUnused == \A t \in Tasks : UnusedFor(pc[t], task[t])

(* What holds of the pool for any commands. *)
PoolInvariant == CommandsIssued /\ HeldIsBorn /\ DoomedIsUnused
-----------------------------------------------------------------------------
(* A step of t leaves the other tasks where they are. *)
OthersStay(t) == \A u \in Tasks \ {t} : pc'[u] = pc[u] /\ task'[u] = task[u]

(* t goes on to another step of the same command, or answers. *)
SameCommand(t) ==
    \/ pc'[t] \in AtRest
    \/ /\ pc'[t] \in Labels
       /\ task'[t].op = task[t].op
       /\ CommandFor(pc'[t], task'[t])

(* Every step of a command is taken alone and belongs to that command. *)
LEMMA AdvanceAlone ==
  ASSUME InductiveInvariant, NEW t \in Tasks, Advance(t),
         CommandFor(pc[t], task[t])
  PROVE  OthersStay(t) /\ SameCommand(t)
<1>0. /\ pc \in [Tasks -> Labels] /\ task \in [Tasks -> Locals]
      /\ task[t] \in Locals /\ LocalsFor(pc[t], task[t])
  BY DEF InductiveInvariant, TypeOK, LocalsSet
<1> USE DEF OthersStay, SameCommand, CommandFor, AtRest, Labels, Guarded, Goto,
            Return, At, Locals
<1>1. CASE connect_workspace_precheck(t)
  BY <1>0, <1>1 DEF connect_workspace_precheck, LocalsFor, ConnectOps, AddOps
<1>2. CASE resolve_entry_and_parent(t)
  BY <1>0, <1>2 DEF resolve_entry_and_parent, LocalsFor, ConnectOps, AddOps
<1>3. CASE connect_workspace_own(t)
  BY <1>0, <1>3 DEF connect_workspace_own, LocalsFor, ConnectOps, AddOps
<1>4. CASE connect_workspace_own_alive(t)
  BY <1>0, <1>4 DEF connect_workspace_own_alive, LocalsFor, ConnectOps, AddOps
<1>5. CASE take_live_shared_session(t)
  BY <1>0, <1>5 DEF take_live_shared_session, LocalsFor, ConnectOps, AddOps
<1>6. CASE take_live_shared_session_alive(t)
  BY <1>0, <1>6 DEF take_live_shared_session_alive, AfterSession, LocalsFor, ConnectOps, AddOps
<1>7. CASE spawn_session(t)
  <2>1. pc[t] = "spawn"
    BY <1>7 DEF spawn_session
  <2>2. CASE Return(t, "err")
    BY <1>0, <2>2
  <2>3. ASSUME NEW s \in Sessions,
               task' = [task EXCEPT ![t].session = s, ![t].spawned = TRUE],
               Goto(t, IF task[t].op = "args" THEN "swap" ELSE AfterSession(t))
        PROVE  OthersStay(t) /\ SameCommand(t)
    <3>1. task'[t].op = task[t].op /\ \A u \in Tasks \ {t} : task'[u] = task[u]
      BY <1>0, <2>3
    <3> QED BY <1>0, <2>1, <2>3, <3>1 DEF AfterSession, LocalsFor, ConnectOps,
          AddOps
  <2> QED BY <1>7, <2>2, <2>3 DEF spawn_session
<1>8. CASE register_workspace_with_path(t)
  BY <1>0, <1>8 DEF register_workspace_with_path, LocalsFor, ConnectOps, AddOps
<1>9. CASE connect_workspace_insert(t)
  BY <1>0, <1>9 DEF connect_workspace_insert, LocalsFor, ConnectOps, AddOps
<1>10. CASE add_workspace_prepare(t)
  <2>1. pc[t] = "prepare"
    BY <1>10 DEF add_workspace_prepare
  <2>2. CASE Return(t, "err")
    BY <1>0, <2>2
  <2>3. CASE MintEntry(t, None, DefaultScript) /\ Goto(t, "lock")
    <3>1. /\ task'[t].op = task[t].op /\ task'[t].spawned = task[t].spawned
          /\ \A u \in Tasks \ {t} : task'[u] = task[u]
      BY <1>0, <2>3 DEF MintEntry
    <3> QED BY <1>0, <2>1, <2>3, <3>1
  <2> QED BY <1>10, <2>2, <2>3 DEF add_workspace_prepare
<1>11. CASE add_worktree_lookup(t)
  BY <1>0, <1>11 DEF add_worktree_lookup, LocalsFor, ConnectOps, AddOps
<1>12. CASE add_worktree_git(t)
  <2>1. pc[t] = "gitAdd"
    BY <1>12 DEF add_worktree_git
  <2>2. CASE Return(t, "err")
    BY <1>0, <2>2
  <2>3. CASE MintEntry(t, task[t].id, task[t].entry.script) /\ Goto(t, "lock")
    <3>1. /\ task'[t].op = task[t].op /\ task'[t].spawned = task[t].spawned
          /\ \A u \in Tasks \ {t} : task'[u] = task[u]
      BY <1>0, <2>3 DEF MintEntry
    <3> QED BY <1>0, <2>1, <2>3, <3>1
  <2> QED BY <1>12, <2>2, <2>3 DEF add_worktree_git
<1>13. CASE add_workspace_persist(t)
  BY <1>0, <1>13 DEF add_workspace_persist, LocalsFor, ConnectOps, AddOps
<1>14. CASE add_workspace_undo(t)
  BY <1>0, <1>14 DEF add_workspace_undo, LocalsFor, ConnectOps, AddOps
<1>15. CASE add_workspace_undo_kill(t)
  BY <1>0, <1>15 DEF add_workspace_undo_kill, LocalsFor, ConnectOps, AddOps
<1>16. CASE runtime_codex_args_current(t)
  BY <1>0, <1>16 DEF runtime_codex_args_current, LocalsFor, ConnectOps, AddOps
<1>17. CASE runtime_codex_args_swap(t)
  BY <1>0, <1>17 DEF runtime_codex_args_swap, LocalsFor, ConnectOps, AddOps
<1>18. CASE runtime_codex_args_register(t)
  BY <1>0, <1>18 DEF runtime_codex_args_register, LocalsFor, ConnectOps, AddOps
<1>19. CASE runtime_codex_args_kill_old(t)
  BY <1>0, <1>19 DEF runtime_codex_args_kill_old, LocalsFor, ConnectOps, AddOps
<1>20. CASE remove_workspace_lookup(t)
  BY <1>0, <1>20 DEF remove_workspace_lookup, LocalsFor, ConnectOps, AddOps
<1>21. CASE remove_workspace_child(t)
  <2>1. pc[t] = "child"
    BY <1>21 DEF remove_workspace_child
  <2>2. task'[t].op = task[t].op /\ \A u \in Tasks \ {t} : task'[u] = task[u]
    <3>1. \/ \E c \in task[t].todo :
               task' = [task EXCEPT ![t].todo = @ \ {c}, ![t].cur = c]
          \/ task' = task
          \/ task' = [task EXCEPT ![t].cur = task[t].id,
                                  ![t].gone = @ \cup {task[t].id}]
      BY <1>21 DEF remove_workspace_child
    <3>2. ASSUME NEW c, task' = [task EXCEPT ![t].todo = @ \ {c}, ![t].cur = c]
          PROVE  task'[t].op = task[t].op /\ \A u \in Tasks \ {t} : task'[u] = task[u]
      BY <1>0, <3>2
    <3>3. CASE task' = [task EXCEPT ![t].cur = task[t].id,
                                    ![t].gone = @ \cup {task[t].id}]
      BY <1>0, <3>3
    <3> QED BY <3>1, <3>2, <3>3
  <2>3. pc' = [pc EXCEPT ![t] = "drop"] \/ pc' = [pc EXCEPT ![t] = "forget"]
    BY <1>21 DEF remove_workspace_child
  <2> QED BY <1>0, <2>1, <2>2, <2>3
<1>22. CASE remove_worktree_lookup(t)
  BY <1>0, <1>22 DEF remove_worktree_lookup, LocalsFor, ConnectOps, AddOps
<1>23. CASE kill_session_by_id_remove(t)
  BY <1>0, <1>23 DEF kill_session_by_id_remove, AfterKill, LocalsFor, ConnectOps, AddOps
<1>24. CASE unregister_workspace(t)
  BY <1>0, <1>24 DEF unregister_workspace, KillReturns, AfterKill, LocalsFor, ConnectOps, AddOps
<1>25. CASE kill_session_by_id_kill(t)
  BY <1>0, <1>25 DEF kill_session_by_id_kill, KillReturns, AfterKill, LocalsFor, ConnectOps, AddOps
<1>26. CASE remove_worktree_files(t)
  BY <1>0, <1>26 DEF remove_worktree_files, LocalsFor, ConnectOps, AddOps
<1>27. CASE remove_workspace_forget(t)
  BY <1>0, <1>27 DEF remove_workspace_forget, LocalsFor, ConnectOps, AddOps
<1>28. CASE update_workspace_settings_apply(t)
  BY <1>0, <1>28 DEF update_workspace_settings_apply, LocalsFor, ConnectOps, AddOps
<1>29. CASE update_workspace_settings_propagate(t)
  BY <1>0, <1>29 DEF update_workspace_settings_propagate, LocalsFor, ConnectOps, AddOps
<1>30. CASE update_workspace_settings_snapshot(t)
  BY <1>0, <1>30 DEF update_workspace_settings_snapshot, LocalsFor, ConnectOps, AddOps
<1>31. CASE save_list(t)
  BY <1>0, <1>31 DEF save_list, LocalsFor, ConnectOps, AddOps
<1>32. CASE rename_worktree_lookup(t)
  BY <1>0, <1>32 DEF rename_worktree_lookup, LocalsFor, ConnectOps, AddOps
<1>33. CASE rename_worktree_branch(t)
  BY <1>0, <1>33 DEF rename_worktree_branch, LocalsFor, ConnectOps, AddOps
<1>34. CASE rename_worktree_move(t)
  BY <1>0, <1>34 DEF rename_worktree_move, LocalsFor, ConnectOps, AddOps
<1>35. CASE rename_worktree_update(t)
  BY <1>0, <1>35 DEF rename_worktree_update, LocalsFor, ConnectOps, AddOps
<1>36. CASE rename_worktree_move_back(t)
  BY <1>0, <1>36 DEF rename_worktree_move_back, LocalsFor, ConnectOps, AddOps
<1>37. CASE rename_worktree_branch_back(t)
  BY <1>0, <1>37 DEF rename_worktree_branch_back, LocalsFor, ConnectOps, AddOps
<1>38. CASE rename_worktree_restore(t)
  BY <1>0, <1>38 DEF rename_worktree_restore, LocalsFor, ConnectOps, AddOps
<1>39. CASE rename_worktree_register(t)
  BY <1>0, <1>39 DEF rename_worktree_register, LocalsFor, ConnectOps, AddOps
<1>40. CASE sync_workspaces_read(t)
  BY <1>0, <1>40 DEF sync_workspaces_read, LocalsFor, ConnectOps, AddOps
<1>41. CASE sync_workspaces_store(t)
  BY <1>0, <1>41 DEF sync_workspaces_store, LocalsFor, ConnectOps, AddOps
<1>42. CASE sync_workspaces_prune(t)
  BY <1>0, <1>42 DEF sync_workspaces_prune, LocalsFor, ConnectOps, AddOps
<1>43. CASE sync_workspaces_kill(t)
  BY <1>0, <1>43 DEF sync_workspaces_kill, LocalsFor, ConnectOps, AddOps
<1> QED BY <1>1, <1>2, <1>3, <1>4, <1>5, <1>6, <1>7, <1>8, <1>9, <1>10, <1>11, <1>12, <1>13, <1>14, <1>15, <1>16, <1>17, <1>18, <1>19, <1>20, <1>21, <1>22, <1>23, <1>24, <1>25, <1>26, <1>27, <1>28, <1>29, <1>30, <1>31, <1>32, <1>33, <1>34, <1>35, <1>36, <1>37, <1>38, <1>39, <1>40, <1>41, <1>42, <1>43 DEF Advance, Connect, AddWorkspace, RuntimeArgs, RemoveWorkspace, UpdateSettings, RenameWorktree, SyncFromStorage

(* A command arrives, and takes the lock, alone. *)
LEMMA RequestAlone ==
  ASSUME InductiveInvariant, NEW t \in Tasks, Request(t)
  PROVE  /\ OthersStay(t) /\ CommandFor(pc'[t], task'[t])
         /\ pc[t] \in AtRest
         /\ pc'[t] \in {"precheck", "resolve", "prepare", "lookup", "apply",
                        "syncRead"}
         /\ UNCHANGED <<sessions, proc, registered, workspaces, stored, disk,
                        branch, issued>>
<1>0. /\ pc \in [Tasks -> Labels] /\ task \in [Tasks -> Locals]
  BY DEF InductiveInvariant, TypeOK
<1>1. PICK op \in Ops :
        /\ op = "list" => Daemon
        /\ \E w, a, n, x :
             task' = [task EXCEPT ![t] = [Blank EXCEPT !.op = op, !.id = w,
                              !.args = a, !.name = n, !.script = x]]
        /\ Goto(t, FirstStep(op))
  BY DEF Request
<1>2. PICK w, a, n, x :
        task' = [task EXCEPT ![t] = [Blank EXCEPT !.op = op, !.id = w,
                         !.args = a, !.name = n, !.script = x]]
  BY <1>1
<1>3. /\ task'[t].op = op /\ ~task'[t].spawned
      /\ task'[t].gone = {} /\ task'[t].todo = {} /\ task'[t].cur = None
      /\ \A u \in Tasks \ {t} : task'[u] = task[u]
  BY <1>0, <1>2 DEF Blank
<1>4. pc'[t] = FirstStep(op) /\ \A u \in Tasks \ {t} : pc'[u] = pc[u]
  BY <1>0, <1>1 DEF Goto
<1>5. op \in AllOps
  BY ConstantsAssumption
<1>6. /\ FirstStep(op) \in {"precheck", "resolve", "prepare", "lookup", "apply",
                            "syncRead"}
      /\ FirstStep(op) = "precheck" => Daemon
      /\ FirstStep(op) = "syncRead" => op = "list"
  BY <1>5 DEF FirstStep, AllOps
<1> QED BY <1>1, <1>3, <1>4, <1>6 DEF Request, OthersStay, CommandFor, AtRest,
      store, git, pool

LEMMA LockAlone ==
  ASSUME InductiveInvariant, NEW t \in Tasks, workspace_session_spawn_lock(t),
         CommandFor(pc[t], task[t])
  PROVE  /\ OthersStay(t) /\ CommandFor(pc'[t], task'[t])
         /\ pc[t] = "lock" /\ pc'[t] \in {"own", "current", "take"}
         /\ spawnLock = None
         /\ UNCHANGED <<sessions, proc, registered, workspaces, stored, disk,
                        branch, issued, task>>
  BY DEF workspace_session_spawn_lock, At, OthersStay, CommandFor, AtRest,
         InductiveInvariant, TypeOK, store, git, pool

(* A step that has nothing to do with the pool. *)
Bystander(t) ==
    /\ OthersStay(t)
    /\ pc[t] \notin HoldLabels /\ pc'[t] \notin HoldLabels
    /\ UNCHANGED <<sessions, proc>>
    /\ \A s \in Sessions : registered[s] \subseteq registered'[s]

(* The steps that have to do with it. *)
PoolAction(t) ==
    \/ connect_workspace_own(t) \/ connect_workspace_own_alive(t)
    \/ take_live_shared_session(t) \/ take_live_shared_session_alive(t)
    \/ spawn_session(t) \/ register_workspace_with_path(t)
    \/ connect_workspace_insert(t)
    \/ add_workspace_persist(t) \/ add_workspace_undo(t)
    \/ add_workspace_undo_kill(t)
    \/ RuntimeArgs(t)
    \/ kill_session_by_id_remove(t) \/ unregister_workspace(t)
    \/ kill_session_by_id_kill(t)
    \/ sync_workspaces_prune(t) \/ sync_workspaces_kill(t)

(* Every step of a task is one or the other. *)
LEMMA BystanderOrPool ==
  ASSUME InductiveInvariant, NEW t \in Tasks, CommandFor(pc[t], task[t]),
         Request(t) \/ workspace_session_spawn_lock(t) \/ Advance(t)
  PROVE  \/ PoolAction(t)
         \/ Bystander(t)
<1>0. pc \in [Tasks -> Labels] /\ registered \in [Sessions -> SUBSET Ids]
  BY DEF InductiveInvariant, TypeOK, PoolTypeOK
<1>1. CASE Request(t) \/ workspace_session_spawn_lock(t)
  BY <1>1, RequestAlone, LockAlone DEF Bystander, HoldLabels, AtRest
<1>2. ASSUME OthersStay(t)
      PROVE  Connect(t) => PoolAction(t) \/ Bystander(t)
  BY <1>0, <1>2 DEF Bystander, HoldLabels, AtRest, Goto, Return, At, store,
     git, pool, PoolAction, Connect, connect_workspace_precheck,
     resolve_entry_and_parent
<1>3. ASSUME OthersStay(t)
      PROVE  AddWorkspace(t) => PoolAction(t) \/ Bystander(t)
  BY <1>0, <1>3 DEF Bystander, HoldLabels, AtRest, Goto, Return, At, store,
     git, pool, PoolAction, AddWorkspace, add_workspace_prepare,
     add_worktree_lookup, add_worktree_git
<1>4. ASSUME OthersStay(t)
      PROVE  RemoveWorkspace(t) => PoolAction(t) \/ Bystander(t)
  BY <1>0, <1>4 DEF Bystander, HoldLabels, AtRest, Goto, Return, At, store,
     git, pool, PoolAction, RemoveWorkspace, remove_workspace_lookup,
     remove_workspace_child, remove_worktree_lookup, remove_worktree_files,
     remove_workspace_forget
<1>5. ASSUME OthersStay(t)
      PROVE  UpdateSettings(t) => PoolAction(t) \/ Bystander(t)
  BY <1>0, <1>5 DEF Bystander, HoldLabels, AtRest, Goto, Return, At, store,
     git, pool, PoolAction, UpdateSettings, update_workspace_settings_apply,
     update_workspace_settings_propagate, update_workspace_settings_snapshot,
     save_list
<1>6. ASSUME OthersStay(t)
      PROVE  RenameWorktree(t) => PoolAction(t) \/ Bystander(t)
  BY <1>0, <1>6 DEF Bystander, HoldLabels, AtRest, Goto, Return, At, store,
     git, pool, PoolAction, RenameWorktree, rename_worktree_lookup,
     rename_worktree_branch, rename_worktree_move, rename_worktree_update,
     rename_worktree_move_back, rename_worktree_branch_back,
     rename_worktree_restore, rename_worktree_register
<1>7. ASSUME OthersStay(t)
      PROVE  SyncFromStorage(t) => PoolAction(t) \/ Bystander(t)
  BY <1>0, <1>7 DEF Bystander, HoldLabels, AtRest, Goto, Return, At, store,
     git, pool, PoolAction, SyncFromStorage, sync_workspaces_read,
     sync_workspaces_store
<1> QED BY <1>1, <1>2, <1>3, <1>4, <1>5, <1>6, <1>7, AdvanceAlone
      DEF Advance, PoolAction
-----------------------------------------------------------------------------
(* What each step at a hold label does, local by local. *)

(* The locals that say which session a command holds, and why. *)
KeepsHold(t) ==
    /\ task'[t].op = task[t].op /\ task'[t].id = task[t].id
    /\ task'[t].old = task[t].old /\ task'[t].spawned = task[t].spawned
    /\ task'[t].doomed = task[t].doomed

LEMMA OwnEffect ==
  ASSUME InductiveInvariant, NEW t \in Tasks, connect_workspace_own(t)
  PROVE  /\ pc[t] = "own" /\ task[t].id \in Ids /\ task[t].op = "connect"
         /\ UNCHANGED <<sessions, proc, registered>>
         /\ KeepsHold(t) /\ task'[t].session = sessions[task[t].id]
         /\ pc'[t] = IF sessions[task[t].id] = None THEN "take" ELSE "ownAlive"
  BY DEF connect_workspace_own, At, Goto, KeepsHold, InductiveInvariant, TypeOK,
         LocalsSet, LocalsFor, NeedsId, Locals, pool

LEMMA OwnAliveEffect ==
  ASSUME InductiveInvariant, NEW t \in Tasks, connect_workspace_own_alive(t)
  PROVE  /\ pc[t] = "ownAlive" /\ task[t].session \in Sessions
         /\ task[t].id \in Ids /\ task[t].op = "connect"
         /\ UNCHANGED <<proc, registered>>
         /\ \/ /\ proc[task[t].session] = "alive" /\ sessions' = sessions
               /\ pc'[t] = "ok"
            \/ /\ proc[task[t].session] # "alive" /\ pc'[t] = "take"
               /\ remove_session_references(task[t].session)
               /\ KeepsHold(t)
  BY DEF connect_workspace_own_alive, At, Goto, Return, KeepsHold,
         session_process_is_alive, InductiveInvariant, TypeOK, LocalsSet,
         LocalsFor, NeedsSession, NeedsId, Locals

LEMMA TakeEffect ==
  ASSUME InductiveInvariant, NEW t \in Tasks, take_live_shared_session(t)
  PROVE  /\ pc[t] = "take" /\ task[t].op # "args" /\ task[t].id \in Ids
         /\ UNCHANGED <<sessions, proc, registered>>
         /\ KeepsHold(t)
         /\ \/ Present(sessions) = {} /\ pc'[t] = "spawn"
            \/ /\ pc'[t] = "takeAlive"
               /\ \E w \in Present(sessions) : task'[t].session = sessions[w]
  BY DEF take_live_shared_session, At, Goto, KeepsHold, InductiveInvariant,
         TypeOK, LocalsSet, LocalsFor, NeedsId, Locals, pool

LEMMA TakeAliveEffect ==
  ASSUME InductiveInvariant, NEW t \in Tasks, take_live_shared_session_alive(t)
  PROVE  /\ pc[t] = "takeAlive" /\ task[t].session \in Sessions
         /\ task[t].op # "args" /\ task[t].id \in Ids
         /\ UNCHANGED <<proc, registered>>
         /\ KeepsHold(t)
         /\ \/ /\ proc[task[t].session] = "alive" /\ sessions' = sessions
               /\ task'[t].session = task[t].session
               /\ pc'[t] = IF task[t].op = "connect" THEN "register" ELSE "persist"
            \/ /\ proc[task[t].session] # "alive" /\ pc'[t] = "take"
               /\ remove_session_references(task[t].session)
  BY DEF take_live_shared_session_alive, At, Goto, KeepsHold, AfterSession,
         session_process_is_alive, InductiveInvariant, TypeOK, LocalsSet,
         LocalsFor, NeedsSession, NeedsId, Locals

LEMMA SpawnEffect ==
  ASSUME InductiveInvariant, NEW t \in Tasks, spawn_session(t)
  PROVE  /\ pc[t] = "spawn" /\ task[t].id \in Ids
         /\ sessions' = sessions
         /\ \/ pc'[t] = "err" /\ UNCHANGED <<proc, registered>>
            \/ /\ pc'[t] = CASE task[t].op = "args" -> "swap"
                             [] task[t].op = "connect" -> "register"
                             [] OTHER -> "persist"
               /\ task'[t].op = task[t].op /\ task'[t].id = task[t].id
               /\ task'[t].old = task[t].old /\ task'[t].spawned
               /\ \E s \in Sessions :
                    /\ proc[s] = "unborn"
                    /\ proc' = [proc EXCEPT ![s] = "alive"]
                    /\ registered' = [registered EXCEPT ![s] = {task[t].id}]
                    /\ task'[t].session = s
<1>0. /\ pc \in [Tasks -> Labels] /\ task \in [Tasks -> Locals]
      /\ task[t] \in Locals /\ pc[t] = "spawn" /\ task[t].id \in Ids
  BY DEF spawn_session, At, InductiveInvariant, TypeOK, LocalsSet, LocalsFor,
     NeedsId
<1>1. CASE Return(t, "err") /\ UNCHANGED <<proc, args, registered>>
  BY <1>0, <1>1 DEF Return, spawn_session
<1>2. ASSUME NEW s \in Sessions,
             task' = [task EXCEPT ![t].session = s, ![t].spawned = TRUE],
             Goto(t, IF task[t].op = "args" THEN "swap" ELSE AfterSession(t))
      PROVE  /\ pc'[t] = CASE task[t].op = "args" -> "swap"
                            [] task[t].op = "connect" -> "register"
                            [] OTHER -> "persist"
             /\ task'[t].op = task[t].op /\ task'[t].id = task[t].id
             /\ task'[t].old = task[t].old /\ task'[t].spawned
             /\ task'[t].session = s
  <2>1. /\ task'[t].op = task[t].op /\ task'[t].id = task[t].id
        /\ task'[t].old = task[t].old /\ task'[t].spawned
        /\ task'[t].session = s
    BY <1>0, <1>2 DEF Locals
  <2>2. pc'[t] = IF task[t].op = "args" THEN "swap" ELSE AfterSession(t)
    BY <1>0, <1>2 DEF Goto
  <2> QED BY <2>1, <2>2 DEF AfterSession
<1> QED BY <1>0, <1>1, <1>2 DEF spawn_session

LEMMA PersistEffect ==
  ASSUME InductiveInvariant, NEW t \in Tasks, add_workspace_persist(t)
  PROVE  /\ pc[t] = "persist" /\ task[t].id \in Ids
         /\ task[t].session \in Sessions
         /\ UNCHANGED <<sessions, proc, registered>>
         /\ \/ pc'[t] \in {"register", "undo"} /\ task'[t] = task[t]
            \/ /\ pc'[t] = "err" /\ task[t].op = "worktree"
               /\ "write" \in Faults
  BY DEF add_workspace_persist, At, Goto, Return, write_workspaces_fails,
         InductiveInvariant, TypeOK, LocalsSet, LocalsFor, NeedsSession,
         NeedsId, Locals, pool

LEMMA UndoEffect ==
  ASSUME InductiveInvariant, NEW t \in Tasks, add_workspace_undo(t)
  PROVE  /\ pc[t] = "undo" /\ pc'[t] = "undoKill" /\ task'[t] = task[t]
         /\ UNCHANGED <<sessions, proc, registered>>
  BY DEF add_workspace_undo, At, Goto, InductiveInvariant, TypeOK, pool

LEMMA UndoKillEffect ==
  ASSUME InductiveInvariant, NEW t \in Tasks, add_workspace_undo_kill(t)
  PROVE  /\ pc[t] = "undoKill" /\ pc'[t] = "err"
         /\ UNCHANGED <<sessions, registered>>
         /\ IF task[t].spawned THEN kill_child_process_tree(task[t].session)
                               ELSE proc' = proc
  BY DEF add_workspace_undo_kill, At, Return, InductiveInvariant, TypeOK

LEMMA RegisterEffect ==
  ASSUME InductiveInvariant, NEW t \in Tasks, register_workspace_with_path(t)
  PROVE  /\ pc[t] = "register" /\ pc'[t] = "insert" /\ task'[t] = task[t]
         /\ task[t].id \in Ids /\ task[t].session \in Sessions
         /\ UNCHANGED <<sessions, proc>>
         /\ registered' = [registered EXCEPT ![task[t].session]
                                           = @ \cup {task[t].id}]
  BY DEF register_workspace_with_path, At, Goto, InductiveInvariant, TypeOK,
         LocalsSet, LocalsFor, NeedsSession, NeedsId

LEMMA InsertEffect ==
  ASSUME InductiveInvariant, NEW t \in Tasks, connect_workspace_insert(t)
  PROVE  /\ pc[t] = "insert" /\ pc'[t] = "ok"
         /\ task[t].id \in Ids /\ task[t].session \in Sessions
         /\ UNCHANGED <<proc, registered>>
         /\ sessions' = [sessions EXCEPT ![task[t].id] = task[t].session]
  BY DEF connect_workspace_insert, At, Return, InductiveInvariant, TypeOK,
         LocalsSet, LocalsFor, NeedsSession, NeedsId

LEMMA CurrentEffect ==
  ASSUME InductiveInvariant, NEW t \in Tasks, runtime_codex_args_current(t)
  PROVE  /\ pc[t] = "current" /\ task[t].id \in Ids /\ task[t].op = "args"
         /\ UNCHANGED <<sessions, proc, registered>>
         /\ \/ pc'[t] = "ok"
            \/ /\ pc'[t] = "spawn"
               /\ task'[t].op = "args" /\ task'[t].id = task[t].id
               /\ sessions[task[t].id] \in Sessions
               /\ task'[t].old = sessions[task[t].id]
<1>0. /\ pc \in [Tasks -> Labels] /\ task \in [Tasks -> Locals]
      /\ task[t] \in Locals /\ pc[t] = "current" /\ task[t].id \in Ids
      /\ task[t].op = "args" /\ SingleSharedSession
      /\ sessions \in [Ids -> Sessions \cup {None}]
      /\ UNCHANGED <<sessions, proc, registered>>
  BY DEF runtime_codex_args_current, At, InductiveInvariant, TypeOK, LocalsSet,
     LocalsFor, NeedsId, PoolTypeOK, pool
<1>1. CASE Return(t, "ok")
  BY <1>0, <1>1 DEF Return
<1>2. ASSUME NEW w \in Present(sessions), sessions[task[t].id] # None,
             task' = [task EXCEPT ![t].old = sessions[w]], Goto(t, "spawn")
      PROVE  /\ pc'[t] = "spawn"
             /\ task'[t].op = "args" /\ task'[t].id = task[t].id
             /\ sessions[task[t].id] \in Sessions
             /\ task'[t].old = sessions[task[t].id]
  <2>1. sessions[w] = sessions[task[t].id] /\ sessions[task[t].id] \in Sessions
    BY <1>0, <1>2 DEF SingleSharedSession, Present
  <2> QED BY <1>0, <1>2, <2>1 DEF Goto, Locals
<1> QED BY <1>0, <1>1, <1>2 DEF runtime_codex_args_current

LEMMA SwapEffect ==
  ASSUME InductiveInvariant, NEW t \in Tasks, runtime_codex_args_swap(t)
  PROVE  /\ pc[t] = "swap" /\ pc'[t] = "registerAll"
         /\ task[t].op = "args" /\ task[t].session \in Sessions
         /\ task[t].old \in Sessions
         /\ UNCHANGED <<proc, registered>>
         /\ sessions' = [w \in Ids |-> IF sessions[w] = None THEN None
                                       ELSE task[t].session]
         /\ KeepsHold(t) /\ task'[t].session = task[t].session
         /\ task'[t].todo = Present(sessions)
  BY DEF runtime_codex_args_swap, At, Goto, KeepsHold, InductiveInvariant,
         TypeOK, LocalsSet, LocalsFor, NeedsSession, Locals

LEMMA RegisterAllEffect ==
  ASSUME InductiveInvariant, NEW t \in Tasks, runtime_codex_args_register(t)
  PROVE  /\ pc[t] = "registerAll" /\ task[t].op = "args"
         /\ task[t].session \in Sessions /\ task[t].old \in Sessions
         /\ UNCHANGED <<sessions, proc>>
         /\ KeepsHold(t) /\ task'[t].session = task[t].session
         /\ \/ /\ pc'[t] = "registerAll"
               /\ \E w \in task[t].todo :
                    /\ registered' = [registered EXCEPT ![task[t].session]
                                                      = @ \cup {w}]
                    /\ task'[t].todo = task[t].todo \ {w}
            \/ /\ pc'[t] = "killOld" /\ task[t].todo = {}
               /\ registered' = registered
  BY DEF runtime_codex_args_register, At, Goto, KeepsHold, InductiveInvariant,
         TypeOK, LocalsSet, LocalsFor, NeedsSession, Locals

LEMMA KillOldEffect ==
  ASSUME InductiveInvariant, NEW t \in Tasks, runtime_codex_args_kill_old(t)
  PROVE  /\ pc[t] = "killOld" /\ pc'[t] = "ok"
         /\ task[t].op = "args" /\ task[t].old \in Sessions
         /\ UNCHANGED <<sessions, registered>>
         /\ kill_child_process_tree(task[t].old)
  BY DEF runtime_codex_args_kill_old, At, Return, InductiveInvariant, TypeOK,
         LocalsSet, LocalsFor

LEMMA DropEffect ==
  ASSUME InductiveInvariant, NEW t \in Tasks, kill_session_by_id_remove(t)
  PROVE  /\ pc[t] = "drop" /\ task[t].cur \in Ids
         /\ UNCHANGED <<proc, registered>>
         /\ \/ /\ pc'[t] \in {"forget", "files"} /\ sessions' = sessions
            \/ /\ pc'[t] = "unregister"
               /\ sessions[task[t].cur] \in Sessions
               /\ sessions' = [sessions EXCEPT ![task[t].cur] = None]
               /\ task'[t].session = sessions[task[t].cur]
               /\ task'[t].cur = task[t].cur
               /\ task'[t].unshared = ~StillReferenced(task[t].cur)
<1>0. /\ pc \in [Tasks -> Labels] /\ task \in [Tasks -> Locals]
      /\ task[t] \in Locals /\ pc[t] = "drop" /\ task[t].cur \in Ids
      /\ sessions \in [Ids -> Sessions \cup {None}]
      /\ UNCHANGED <<proc, registered>>
  BY DEF kill_session_by_id_remove, At, InductiveInvariant, TypeOK, LocalsSet,
     LocalsFor, PoolTypeOK
<1>1. CASE Goto(t, AfterKill(t)) /\ UNCHANGED <<sessions, task>>
  BY <1>0, <1>1 DEF Goto, AfterKill
<1>2. CASE /\ sessions[task[t].cur] # None
           /\ sessions' = [sessions EXCEPT ![task[t].cur] = None]
           /\ task' = [task EXCEPT ![t].session = sessions[task[t].cur],
                         ![t].unshared = ~StillReferenced(task[t].cur)]
           /\ Goto(t, "unregister")
  <2>1. /\ task'[t].session = sessions[task[t].cur]
        /\ task'[t].cur = task[t].cur
        /\ task'[t].unshared = ~StillReferenced(task[t].cur)
    BY <1>0, <1>2 DEF Locals
  <2> QED BY <1>0, <1>2, <2>1 DEF Goto
<1> QED BY <1>1, <1>2 DEF kill_session_by_id_remove

LEMMA UnregisterEffect ==
  ASSUME InductiveInvariant, NEW t \in Tasks, unregister_workspace(t)
  PROVE  /\ pc[t] = "unregister" /\ task[t].session \in Sessions
         /\ task[t].cur \in Ids
         /\ UNCHANGED <<sessions, proc>>
         /\ registered' = [registered EXCEPT ![task[t].session]
                                           = @ \ {task[t].cur}]
         /\ \/ /\ task[t].unshared /\ pc'[t] = "kill" /\ task'[t] = task[t]
            \/ ~task[t].unshared /\ pc'[t] \in {"forget", "files"}
  BY DEF unregister_workspace, At, Goto, KillReturns, AfterKill,
         InductiveInvariant, TypeOK, LocalsSet, LocalsFor, NeedsSession, Locals

LEMMA KillEffect ==
  ASSUME InductiveInvariant, NEW t \in Tasks, kill_session_by_id_kill(t)
  PROVE  /\ pc[t] = "kill" /\ task[t].session \in Sessions
         /\ pc'[t] \in {"forget", "files"}
         /\ UNCHANGED <<sessions, registered>>
         /\ kill_child_process_tree(task[t].session)
  BY DEF kill_session_by_id_kill, At, Goto, KillReturns, AfterKill,
         InductiveInvariant, TypeOK, LocalsSet, LocalsFor, NeedsSession

LEMMA PruneEffect ==
  ASSUME InductiveInvariant, NEW t \in Tasks, sync_workspaces_prune(t)
  PROVE  /\ pc[t] = "syncPrune" /\ pc'[t] = "syncKill"
         /\ task[t].list \in Stores
         /\ UNCHANGED <<proc, registered>>
         /\ sessions' = [w \in Ids |-> IF w \in Stale(t) THEN None
                                       ELSE sessions[w]]
         /\ task'[t].doomed = {sessions[w] : w \in Stale(t)}
<1>0. /\ pc \in [Tasks -> Labels] /\ task \in [Tasks -> Locals]
      /\ task[t] \in Locals /\ pc[t] = "syncPrune" /\ task[t].list \in Stores
  BY DEF sync_workspaces_prune, At, InductiveInvariant, TypeOK, LocalsSet,
     LocalsFor, NeedsList
<1>1. task' = [task EXCEPT ![t].doomed = {sessions[w] : w \in Stale(t)},
                           ![t].list = None]
  BY DEF sync_workspaces_prune
<1>2. task'[t].doomed = {sessions[w] : w \in Stale(t)}
  BY <1>0, <1>1 DEF Locals
<1> QED BY <1>0, <1>2 DEF sync_workspaces_prune, Goto

LEMMA SyncKillEffect ==
  ASSUME InductiveInvariant, NEW t \in Tasks, sync_workspaces_kill(t)
  PROVE  /\ pc[t] = "syncKill" /\ task[t].doomed \in SUBSET Sessions
         /\ UNCHANGED <<sessions, registered>>
         /\ \/ /\ pc'[t] = "syncKill"
               /\ \E s \in task[t].doomed :
                    /\ kill_child_process_tree(s)
                    /\ task'[t].doomed = task[t].doomed \ {s}
            \/ pc'[t] = "ok" /\ task[t].doomed = {} /\ proc' = proc
  BY DEF sync_workspaces_kill, At, Goto, Return, InductiveInvariant, TypeOK,
         Locals
-----------------------------------------------------------------------------
(* PoolInvariant is an invariant. *)

(* A spawned session never becomes a new one again. *)
StaysBorn == \A s \in Sessions : proc[s] # "unborn" => proc'[s] # "unborn"

Drops == \A w \in Ids : sessions'[w] \in {sessions[w], None}

LEMMA KillsKeepBorn ==
  ASSUME InductiveInvariant, NEW s, kill_child_process_tree(s)
  PROVE  StaysBorn
  BY DEF StaysBorn, kill_child_process_tree, InductiveInvariant, TypeOK,
         PoolTypeOK

(* What the other tasks rely on survives a step that drops references or   *)
(* is guarded by the spawn lock.                                           *)
LEMMA OthersKeepHold ==
  ASSUME InductiveInvariant, PoolInvariant, NEW t \in Tasks, OthersStay(t),
         StaysBorn, Drops \/ pc[t] \in Guarded
  PROVE  \A u \in Tasks \ {t} :
            BornFor(pc[u], task[u])' /\ UnusedFor(pc[u], task[u])'
<1> SUFFICES ASSUME NEW u \in Tasks \ {t}
             PROVE  BornFor(pc[u], task[u])' /\ UnusedFor(pc[u], task[u])'
  OBVIOUS
<1>1. /\ BornFor(pc[u], task[u]) /\ UnusedFor(pc[u], task[u])
      /\ pc'[u] = pc[u] /\ task'[u] = task[u] /\ task[u] \in Locals
  BY DEF PoolInvariant, HeldIsBorn, DoomedIsUnused, OthersStay,
     InductiveInvariant, TypeOK
<1>2. BornFor(pc[u], task[u])'
  BY <1>1 DEF BornFor, StaysBorn, Locals
<1>3. UnusedFor(pc[u], task[u])'
  <2>1. CASE pc[u] \in Guarded
    <3>1. pc[t] \notin Guarded
      BY <2>1 DEF InductiveInvariant, LockHeld
    <3>2. pc[u] \in {"persist", "undo", "undoKill"} => Drops
      BY <3>1
    <3>3. task[u].session \in Sessions \/ pc[u] \notin {"persist", "undo", "undoKill"}
      BY <1>1 DEF BornFor
    <3>4. task[u].old \in Sessions \/ pc[u] \notin {"registerAll", "killOld"}
      BY <1>1 DEF BornFor, InductiveInvariant, LocalsSet, LocalsFor
    <3> QED BY <1>1, <3>1, <3>3, <3>4, NoneAssumption DEF UnusedFor, Drops
  <2>2. CASE pc[u] \notin Guarded
    BY <1>1, <2>2 DEF UnusedFor, Guarded
  <2> QED BY <2>1, <2>2
<1> QED BY <1>2, <1>3

(* It remains to look at the task that takes the step. *)
LEMMA HoldKept ==
  ASSUME InductiveInvariant, PoolInvariant, NEW t \in Tasks, OthersStay(t),
         StaysBorn, Drops \/ pc[t] \in Guarded,
         BornFor(pc[t], task[t])', UnusedFor(pc[t], task[t])',
         \A w \in Ids : sessions'[w] # None => proc'[sessions'[w]] # "unborn"
  PROVE  HeldIsBorn' /\ DoomedIsUnused'
  BY OthersKeepHold DEF HeldIsBorn, DoomedIsUnused, Present

LEMMA BystanderKeepsHold ==
  ASSUME InductiveInvariant, PoolInvariant, NEW t \in Tasks, Bystander(t)
  PROVE  HeldIsBorn' /\ DoomedIsUnused'
<1>1. StaysBorn /\ Drops /\ OthersStay(t)
  BY DEF Bystander, StaysBorn, Drops
<1>2. BornFor(pc[t], task[t])' /\ UnusedFor(pc[t], task[t])'
  BY DEF Bystander, BornFor, UnusedFor, HoldLabels
<1>3. \A w \in Ids : sessions'[w] # None => proc'[sessions'[w]] # "unborn"
  BY DEF Bystander, PoolInvariant, HeldIsBorn, Present
<1> QED BY <1>1, <1>2, <1>3, HoldKept

LEMMA PoolActionKeepsHold ==
  ASSUME InductiveInvariant, PoolInvariant, NEW t \in Tasks, PoolAction(t)
  PROVE  HeldIsBorn' /\ DoomedIsUnused'
<1>0. /\ CommandFor(pc[t], task[t]) /\ BornFor(pc[t], task[t])
      /\ UnusedFor(pc[t], task[t]) /\ task[t] \in Locals
      /\ PoolTypeOK /\ PoolFor(sessions, pc[t], task[t])
      /\ \A w \in Ids : sessions[w] # None
             => proc[sessions[w]] # "unborn" /\ sessions[w] \in Sessions
  BY DEF PoolInvariant, CommandsIssued, HeldIsBorn, DoomedIsUnused, Present,
     InductiveInvariant, TypeOK, PoolTypeOK, PoolReserved
<1>a. OthersStay(t)
  BY <1>0, AdvanceAlone DEF PoolAction, Advance, Connect, AddWorkspace,
     RuntimeArgs, RemoveWorkspace, SyncFromStorage
<1> USE DEF KeepsHold, BornFor, UnusedFor
<1>1. CASE connect_workspace_own(t)
  <2>1. StaysBorn /\ Drops
    BY <1>1, OwnEffect DEF StaysBorn, Drops
  <2>2. /\ BornFor(pc[t], task[t])' /\ UnusedFor(pc[t], task[t])'
        /\ \A w \in Ids : sessions'[w] # None => proc'[sessions'[w]] # "unborn"
    BY <1>0, <1>1, OwnEffect
  <2> QED BY <1>a, <2>1, <2>2, HoldKept
<1>2. CASE connect_workspace_own_alive(t)
  <2>1. StaysBorn /\ Drops
    BY <1>2, OwnAliveEffect DEF StaysBorn, Drops, remove_session_references
  <2>2. /\ BornFor(pc[t], task[t])' /\ UnusedFor(pc[t], task[t])'
        /\ \A w \in Ids : sessions'[w] # None => proc'[sessions'[w]] # "unborn"
    BY <1>0, <1>2, OwnAliveEffect DEF remove_session_references
  <2> QED BY <1>a, <2>1, <2>2, HoldKept
<1>3. CASE take_live_shared_session(t)
  <2>1. StaysBorn /\ Drops
    BY <1>3, TakeEffect DEF StaysBorn, Drops
  <2>2. /\ BornFor(pc[t], task[t])' /\ UnusedFor(pc[t], task[t])'
        /\ \A w \in Ids : sessions'[w] # None => proc'[sessions'[w]] # "unborn"
    BY <1>0, <1>3, TakeEffect DEF Present
  <2> QED BY <1>a, <2>1, <2>2, HoldKept
<1>4. CASE take_live_shared_session_alive(t)
  <2>1. StaysBorn /\ Drops
    BY <1>4, TakeAliveEffect DEF StaysBorn, Drops, remove_session_references
  <2>2. /\ BornFor(pc[t], task[t])' /\ UnusedFor(pc[t], task[t])'
        /\ \A w \in Ids : sessions'[w] # None => proc'[sessions'[w]] # "unborn"
    BY <1>0, <1>4, TakeAliveEffect DEF remove_session_references, CommandFor
  <2> QED BY <1>a, <2>1, <2>2, HoldKept
<1>5. CASE spawn_session(t)
  <2>1. Drops
    BY <1>5, SpawnEffect DEF Drops
  <2>2. CASE pc'[t] = "err" /\ UNCHANGED proc
    <3>1. StaysBorn
      BY <2>2 DEF StaysBorn
    <3>2. /\ BornFor(pc[t], task[t])' /\ UnusedFor(pc[t], task[t])'
          /\ \A w \in Ids : sessions'[w] # None => proc'[sessions'[w]] # "unborn"
      BY <1>0, <1>5, <2>2, SpawnEffect
    <3> QED BY <1>a, <2>1, <3>1, <3>2, HoldKept
  <2>3. ASSUME NEW s \in Sessions, proc[s] = "unborn",
               proc' = [proc EXCEPT ![s] = "alive"], task'[t].session = s,
               task'[t].op = task[t].op, task'[t].old = task[t].old,
               pc'[t] = CASE task[t].op = "args" -> "swap"
                          [] task[t].op = "connect" -> "register"
                          [] OTHER -> "persist"
        PROVE  HeldIsBorn' /\ DoomedIsUnused'
    <3>0. pc[t] = "spawn" /\ sessions' = sessions
      BY <1>5, SpawnEffect
    <3>1. StaysBorn /\ proc'[s] # "unborn"
      BY <1>0, <2>3 DEF StaysBorn, PoolTypeOK
    <3>2. \A w \in Ids : sessions'[w] # None => proc'[sessions'[w]] # "unborn"
      BY <1>0, <3>0, <3>1 DEF StaysBorn
    <3>3. BornFor(pc[t], task[t])'
      BY <1>0, <2>3, <3>0, <3>1 DEF StaysBorn
    <3>4. UnusedFor(pc[t], task[t])'
      BY <1>0, <2>3, <3>0, <3>1, NoneAssumption
    <3> QED BY <1>a, <2>1, <3>1, <3>2, <3>3, <3>4, HoldKept
  <2> QED BY <1>5, <2>2, <2>3, SpawnEffect
<1>6. CASE register_workspace_with_path(t)
  <2>1. StaysBorn /\ Drops
    BY <1>6, RegisterEffect DEF StaysBorn, Drops
  <2>2. /\ BornFor(pc[t], task[t])' /\ UnusedFor(pc[t], task[t])'
        /\ \A w \in Ids : sessions'[w] # None => proc'[sessions'[w]] # "unborn"
    BY <1>0, <1>6, RegisterEffect
  <2> QED BY <1>a, <2>1, <2>2, HoldKept
<1>7. CASE connect_workspace_insert(t)
  <2>1. StaysBorn /\ pc[t] \in Guarded
    BY <1>7, InsertEffect DEF StaysBorn, Guarded
  <2>2. /\ BornFor(pc[t], task[t])' /\ UnusedFor(pc[t], task[t])'
        /\ \A w \in Ids : sessions'[w] # None => proc'[sessions'[w]] # "unborn"
    BY <1>0, <1>7, InsertEffect DEF PoolTypeOK
  <2> QED BY <1>a, <2>1, <2>2, HoldKept
<1>8. CASE add_workspace_persist(t)
  <2>1. StaysBorn /\ Drops
    BY <1>8, PersistEffect DEF StaysBorn, Drops
  <2>2. /\ BornFor(pc[t], task[t])' /\ UnusedFor(pc[t], task[t])'
        /\ \A w \in Ids : sessions'[w] # None => proc'[sessions'[w]] # "unborn"
    BY <1>0, <1>8, PersistEffect
  <2> QED BY <1>a, <2>1, <2>2, HoldKept
<1>9. CASE add_workspace_undo(t)
  <2>1. StaysBorn /\ Drops
    BY <1>9, UndoEffect DEF StaysBorn, Drops
  <2>2. /\ BornFor(pc[t], task[t])' /\ UnusedFor(pc[t], task[t])'
        /\ \A w \in Ids : sessions'[w] # None => proc'[sessions'[w]] # "unborn"
    BY <1>0, <1>9, UndoEffect
  <2> QED BY <1>a, <2>1, <2>2, HoldKept
<1>10. CASE add_workspace_undo_kill(t)
  <2>1. StaysBorn /\ Drops
    BY <1>10, UndoKillEffect, KillsKeepBorn DEF StaysBorn, Drops
  <2>2. /\ BornFor(pc[t], task[t])' /\ UnusedFor(pc[t], task[t])'
        /\ \A w \in Ids : sessions'[w] # None => proc'[sessions'[w]] # "unborn"
    BY <1>0, <1>10, <2>1, UndoKillEffect DEF StaysBorn
  <2> QED BY <1>a, <2>1, <2>2, HoldKept
<1>11. CASE runtime_codex_args_current(t)
  <2>1. StaysBorn /\ Drops
    BY <1>11, CurrentEffect DEF StaysBorn, Drops
  <2>2. /\ BornFor(pc[t], task[t])' /\ UnusedFor(pc[t], task[t])'
        /\ \A w \in Ids : sessions'[w] # None => proc'[sessions'[w]] # "unborn"
    BY <1>0, <1>11, CurrentEffect, NoneAssumption
  <2> QED BY <1>a, <2>1, <2>2, HoldKept
<1>12. CASE runtime_codex_args_swap(t)
  <2>1. StaysBorn /\ pc[t] \in Guarded
    BY <1>12, SwapEffect DEF StaysBorn, Guarded
  <2>2. /\ BornFor(pc[t], task[t])' /\ UnusedFor(pc[t], task[t])'
        /\ \A w \in Ids : sessions'[w] # None => proc'[sessions'[w]] # "unborn"
    BY <1>0, <1>12, SwapEffect, NoneAssumption
  <2> QED BY <1>a, <2>1, <2>2, HoldKept
<1>13. CASE runtime_codex_args_register(t)
  <2>1. StaysBorn /\ Drops
    BY <1>13, RegisterAllEffect DEF StaysBorn, Drops
  <2>2. /\ BornFor(pc[t], task[t])' /\ UnusedFor(pc[t], task[t])'
        /\ \A w \in Ids : sessions'[w] # None => proc'[sessions'[w]] # "unborn"
    BY <1>0, <1>13, RegisterAllEffect
  <2> QED BY <1>a, <2>1, <2>2, HoldKept
<1>14. CASE runtime_codex_args_kill_old(t)
  <2>1. StaysBorn /\ Drops
    BY <1>14, KillOldEffect, KillsKeepBorn DEF Drops
  <2>2. /\ BornFor(pc[t], task[t])' /\ UnusedFor(pc[t], task[t])'
        /\ \A w \in Ids : sessions'[w] # None => proc'[sessions'[w]] # "unborn"
    BY <1>0, <1>14, <2>1, KillOldEffect DEF StaysBorn
  <2> QED BY <1>a, <2>1, <2>2, HoldKept
<1>15. CASE kill_session_by_id_remove(t)
  <2>1. StaysBorn /\ Drops
    BY <1>0, <1>15, DropEffect DEF StaysBorn, Drops, PoolTypeOK
  <2>2. /\ BornFor(pc[t], task[t])' /\ UnusedFor(pc[t], task[t])'
        /\ \A w \in Ids : sessions'[w] # None => proc'[sessions'[w]] # "unborn"
    BY <1>0, <1>15, DropEffect, NoneAssumption DEF PoolTypeOK
  <2> QED BY <1>a, <2>1, <2>2, HoldKept
<1>16. CASE unregister_workspace(t)
  <2>1. StaysBorn /\ Drops
    BY <1>16, UnregisterEffect DEF StaysBorn, Drops
  <2>2. /\ BornFor(pc[t], task[t])' /\ UnusedFor(pc[t], task[t])'
        /\ \A w \in Ids : sessions'[w] # None => proc'[sessions'[w]] # "unborn"
    BY <1>0, <1>16, UnregisterEffect
  <2> QED BY <1>a, <2>1, <2>2, HoldKept
<1>17. CASE kill_session_by_id_kill(t)
  <2>1. StaysBorn /\ Drops
    BY <1>17, KillEffect, KillsKeepBorn DEF Drops
  <2>2. /\ BornFor(pc[t], task[t])' /\ UnusedFor(pc[t], task[t])'
        /\ \A w \in Ids : sessions'[w] # None => proc'[sessions'[w]] # "unborn"
    BY <1>0, <1>17, <2>1, KillEffect DEF StaysBorn
  <2> QED BY <1>a, <2>1, <2>2, HoldKept
<1>18. CASE sync_workspaces_prune(t)
  <2>1. StaysBorn /\ Drops
    BY <1>18, PruneEffect DEF StaysBorn, Drops
  <2>2. \A w \in Stale(t) : w \in Ids /\ sessions[w] # None
    BY DEF Stale, Present
  <2>3. /\ BornFor(pc[t], task[t])' /\ UnusedFor(pc[t], task[t])'
        /\ \A w \in Ids : sessions'[w] # None => proc'[sessions'[w]] # "unborn"
    BY <1>0, <1>18, <2>2, PruneEffect
  <2> QED BY <1>a, <2>1, <2>3, HoldKept
<1>19. CASE sync_workspaces_kill(t)
  <2>1. StaysBorn /\ Drops
    BY <1>19, SyncKillEffect, KillsKeepBorn DEF StaysBorn, Drops
  <2>2. /\ BornFor(pc[t], task[t])' /\ UnusedFor(pc[t], task[t])'
        /\ \A w \in Ids : sessions'[w] # None => proc'[sessions'[w]] # "unborn"
    BY <1>0, <1>19, <2>1, SyncKillEffect DEF StaysBorn
  <2> QED BY <1>a, <2>1, <2>2, HoldKept
<1> QED BY <1>1, <1>2, <1>3, <1>4, <1>5, <1>6, <1>7, <1>8, <1>9, <1>10, <1>11,
      <1>12, <1>13, <1>14, <1>15, <1>16, <1>17, <1>18, <1>19
      DEF PoolAction, RuntimeArgs

(* The environment holds no session. *)
LEMMA EnvironmentKeepsHold ==
  ASSUME InductiveInvariant, PoolInvariant, Environment
  PROVE  PoolInvariant'
<1>0. PoolTypeOK /\ task \in [Tasks -> Locals]
  BY DEF InductiveInvariant, TypeOK
<1>1. CASE Crash
  <2>1. StaysBorn /\ UNCHANGED <<sessions, pc, task>>
    BY <1>1, KillsKeepBorn DEF Crash
  <2>2. \A t \in Tasks : BornFor(pc[t], task[t])'
    BY <1>0, <2>1 DEF PoolInvariant, HeldIsBorn, BornFor, StaysBorn, Locals
  <2>3. \A w \in Present(sessions)' : proc'[sessions'[w]] # "unborn"
    BY <1>0, <2>1 DEF PoolInvariant, HeldIsBorn, StaysBorn, Present, PoolTypeOK
  <2>4. CommandsIssued' /\ DoomedIsUnused'
    BY <2>1 DEF PoolInvariant, CommandsIssued, DoomedIsUnused, UnusedFor
  <2> QED BY <2>2, <2>3, <2>4 DEF PoolInvariant, HeldIsBorn
<1>2. CASE Restart
  <2>1. /\ \A t \in Tasks : pc'[t] = "idle"
        /\ \A w \in Ids : sessions'[w] = None
    BY <1>2 DEF Restart
  <2> QED BY <2>1 DEF PoolInvariant, CommandsIssued, CommandFor, HeldIsBorn,
        BornFor, DoomedIsUnused, UnusedFor, Present, AtRest
<1>3. CASE OtherProcessSaves
  <2>1. UNCHANGED <<sessions, proc, pc, task>>
    BY <1>3 DEF OtherProcessSaves, pool
  <2> QED BY <2>1 DEF PoolInvariant, CommandsIssued, CommandFor, HeldIsBorn,
        BornFor, DoomedIsUnused, UnusedFor, Present
<1> QED BY <1>1, <1>2, <1>3 DEF Environment

LEMMA CommandsKept ==
  ASSUME InductiveInvariant, CommandsIssued, NEW t \in Tasks,
         Request(t) \/ workspace_session_spawn_lock(t) \/ Advance(t)
  PROVE  OthersStay(t) /\ CommandsIssued'
<1>1. CommandFor(pc[t], task[t])
  BY DEF CommandsIssued
<1>2. OthersStay(t) /\ CommandFor(pc'[t], task'[t])
  BY <1>1, AdvanceAlone, RequestAlone, LockAlone DEF SameCommand, CommandFor,
     AtRest
<1> QED BY <1>2 DEF CommandsIssued, OthersStay, CommandFor

LEMMA PoolNext ==
  ASSUME InductiveInvariant, PoolInvariant, [Next]_vars
  PROVE  PoolInvariant'
<1>1. CASE UNCHANGED vars
  BY <1>1 DEF vars, PoolInvariant, CommandsIssued, CommandFor, HeldIsBorn,
     BornFor, DoomedIsUnused, UnusedFor, Present
<1>2. ASSUME NEW t \in Tasks,
             Request(t) \/ workspace_session_spawn_lock(t) \/ Advance(t)
      PROVE  PoolInvariant'
  <2>1. CommandsIssued'
    BY <1>2, CommandsKept DEF PoolInvariant
  <2>2. HeldIsBorn' /\ DoomedIsUnused'
    BY <1>2, BystanderOrPool, BystanderKeepsHold, PoolActionKeepsHold
       DEF PoolInvariant, CommandsIssued
  <2> QED BY <2>1, <2>2 DEF PoolInvariant
<1>3. CASE Environment
  BY <1>3, EnvironmentKeepsHold
<1> QED BY <1>1, <1>2, <1>3 DEF Next

LEMMA PoolInit ==
  ASSUME Init
  PROVE  PoolInvariant
  BY DEF Init, PoolInvariant, CommandsIssued, CommandFor, HeldIsBorn, BornFor,
         DoomedIsUnused, UnusedFor, Present, AtRest

(* Whatever commands are issued, a session in use or held by a command has *)
(* been spawned, and what an add rolls back or an args switch kills is     *)
(* used by nobody.                                                         *)
THEOREM PoolInvariance == Spec => [](InductiveInvariant /\ PoolInvariant)
<1>1. Init => PoolInvariant
  BY PoolInit
<1>2. InductiveInvariant /\ PoolInvariant /\ [Next]_vars => PoolInvariant'
  BY PoolNext
<1> QED BY <1>1, <1>2, Invariance, PTL DEF Spec
-----------------------------------------------------------------------------
(* Kills. *)

(* The commands of the run are such that a removal is not overtaken by a   *)
(* command that connects: there is none, or one command at a time.         *)
RemovalsAlone == \/ Ops \cap {"remove", "rmworktree"} = {}
                 \/ \A t, u \in Tasks : t = u

(* Nobody refers to the session that kill_session_by_id is about to kill. *)
RemovedIsUnused ==
    \A t \in Tasks :
        pc[t] = "kill" \/ (pc[t] = "unregister" /\ task[t].unshared)
            => \A w \in Ids : sessions[w] # task[t].session

LEMMA RemovedInit ==
  ASSUME Init
  PROVE  RemovedIsUnused
  BY DEF Init, RemovedIsUnused

LEMMA RemovedNext ==
  ASSUME InductiveInvariant, PoolInvariant, PoolInvariant', RemovedIsUnused,
         RemovalsAlone, [Next]_vars
  PROVE  RemovedIsUnused'
<1>1. CASE Ops \cap {"remove", "rmworktree"} = {}
  <2>1. \A t \in Tasks : pc'[t] \notin {"unregister", "kill"}
    BY <1>1 DEF PoolInvariant, CommandsIssued, CommandFor, AtRest
  <2> QED BY <2>1 DEF RemovedIsUnused
<1>2. CASE UNCHANGED vars
  BY <1>2 DEF vars, RemovedIsUnused
<1>3. CASE Environment
  BY <1>3 DEF Environment, Crash, Restart, OtherProcessSaves, pool,
     RemovedIsUnused
<1>4. ASSUME \A t, u \in Tasks : t = u, NEW t \in Tasks,
             Request(t) \/ workspace_session_spawn_lock(t) \/ Advance(t)
      PROVE  RemovedIsUnused'
  <2>0. CommandFor(pc[t], task[t]) /\ sessions \in [Ids -> Sessions \cup {None}]
    BY DEF PoolInvariant, CommandsIssued, InductiveInvariant, TypeOK, PoolTypeOK
  <2> SUFFICES ASSUME pc'[t] \in {"unregister", "kill"},
                      pc'[t] = "kill" \/ task'[t].unshared, NEW w \in Ids
               PROVE  sessions'[w] # task'[t].session
    BY <1>4 DEF RemovedIsUnused
  <2>1. PoolAction(t)
    BY <1>4, <2>0, BystanderOrPool DEF Bystander, HoldLabels
  <2>2. \/ kill_session_by_id_remove(t) \/ unregister_workspace(t)
    BY <2>1, OwnEffect, OwnAliveEffect, TakeEffect, TakeAliveEffect,
       SpawnEffect, PersistEffect, UndoEffect, UndoKillEffect, RegisterEffect,
       InsertEffect, CurrentEffect, SwapEffect, RegisterAllEffect,
       KillOldEffect, KillEffect, PruneEffect, SyncKillEffect
       DEF PoolAction, RuntimeArgs
  <2>3. CASE kill_session_by_id_remove(t)
    <3>1. /\ task[t].cur \in Ids /\ sessions[task[t].cur] \in Sessions
          /\ sessions' = [sessions EXCEPT ![task[t].cur] = None]
          /\ task'[t].session = sessions[task[t].cur]
          /\ ~StillReferenced(task[t].cur)
      BY <2>3, DropEffect
    <3> QED BY <2>0, <3>1, NoneAssumption DEF StillReferenced
  <2>4. CASE unregister_workspace(t)
    BY <2>4, UnregisterEffect DEF RemovedIsUnused
  <2> QED BY <2>2, <2>3, <2>4
<1> QED BY <1>1, <1>2, <1>3, <1>4 DEF RemovalsAlone, Next

(* The roll-back of an add and the switch to other codex args never kill   *)
(* a process that a workspace uses, nor does kill_session_by_id when no    *)
(* connecting command overlaps it.                                         *)
THEOREM KillsSpareUsers ==
  ASSUME RemovalsAlone
  PROVE  Spec => KillSparesReferenced
<1> DEFINE Spared ==
      \A t \in Tasks, s \in Sessions :
         /\ pc[t] \in {"kill", "undoKill", "killOld"}
         /\ pc'[t] \notin {pc[t], "idle"}
         /\ proc[s] = "alive" /\ proc'[s] = "dead"
         => \A w \in Ids : sessions[w] # s
<1>1. Init => RemovedIsUnused
  BY RemovedInit
<1>2. /\ InductiveInvariant /\ PoolInvariant /\ PoolInvariant'
      /\ RemovedIsUnused /\ [Next]_vars
      => RemovedIsUnused'
  BY RemovedNext
<1>3. InductiveInvariant /\ PoolInvariant /\ RemovedIsUnused /\ [Next]_vars
        => [Spared]_vars
  <2> SUFFICES ASSUME InductiveInvariant, PoolInvariant, RemovedIsUnused, Next,
                      NEW t \in Tasks, NEW s \in Sessions,
                      pc[t] \in {"kill", "undoKill", "killOld"},
                      pc'[t] \notin {pc[t], "idle"},
                      proc[s] = "alive", proc'[s] = "dead",
                      NEW w \in Ids
               PROVE  sessions[w] # s
    OBVIOUS
  <2>0. /\ CommandFor(pc[t], task[t]) /\ BornFor(pc[t], task[t])
        /\ UnusedFor(pc[t], task[t]) /\ PoolTypeOK
    BY DEF PoolInvariant, CommandsIssued, HeldIsBorn, DoomedIsUnused,
       InductiveInvariant, TypeOK
  <2>1. ~Environment
    BY DEF Environment, Crash, Restart, OtherProcessSaves
  <2>2. PICK u \in Tasks :
          Request(u) \/ workspace_session_spawn_lock(u) \/ Advance(u)
    BY <2>1 DEF Next
  <2>3. u = t
    BY <2>2, CommandsKept DEF PoolInvariant, OthersStay
  <2>4. PoolAction(t)
    BY <2>0, <2>2, <2>3, BystanderOrPool DEF Bystander, HoldLabels
  <2>5. \/ kill_session_by_id_kill(t) \/ add_workspace_undo_kill(t)
        \/ runtime_codex_args_kill_old(t)
    BY <2>4, OwnEffect, OwnAliveEffect, TakeEffect, TakeAliveEffect,
       SpawnEffect, PersistEffect, UndoEffect, RegisterEffect, InsertEffect,
       CurrentEffect, SwapEffect, RegisterAllEffect, DropEffect,
       UnregisterEffect, PruneEffect, SyncKillEffect
       DEF PoolAction, RuntimeArgs
  <2>6. \A r \in Sessions : kill_child_process_tree(r) => r = s
    BY <2>0 DEF kill_child_process_tree, PoolTypeOK
  <2>7. CASE kill_session_by_id_kill(t)
    BY <2>6, <2>7, KillEffect DEF RemovedIsUnused
  <2>8. CASE add_workspace_undo_kill(t)
    BY <2>0, <2>6, <2>8, UndoKillEffect DEF UnusedFor, BornFor
  <2>9. CASE runtime_codex_args_kill_old(t)
    BY <2>0, <2>6, <2>9, KillOldEffect DEF UnusedFor
  <2> QED BY <2>5, <2>7, <2>8, <2>9
<1> QED BY <1>1, <1>2, <1>3, PoolInvariance, PTL DEF Spec, KillSparesReferenced
-----------------------------------------------------------------------------
(* No process outlives its use. *)

(* An args switch does not overlap a command that drops references, and    *)
(* the save of a new worktree does not fail (add_worktree_core leaves      *)
(* through `?` with its process running).                                  *)
SwitchesAlone ==
    /\ "args" \notin Ops \/ Ops \cap {"remove", "rmworktree", "list"} = {}
    /\ "worktree" \notin Ops \/ "write" \notin Faults

(* A task at this label will insert s into the map, or kill it. *)
OwnsFor(label, l, s) ==
    \/ label \in {"unregister", "kill"} /\ l.session = s /\ l.unshared
    \/ label = "syncKill" /\ s \in l.doomed
    \/ label \in {"register", "insert", "swap"} /\ l.session = s
    \/ label \in {"persist", "undo", "undoKill"} /\ l.session = s /\ l.spawned
    \/ label \in {"registerAll", "killOld"} /\ l.old = s

Owns(t, s) == OwnsFor(pc[t], task[t], s)

Used(s) == \E w \in Ids : sessions[w] = s

(* Holding a session is not enough: the one who drops the last reference   *)
(* knows that it must kill.                                                *)
Accounted ==
    \A s \in Sessions : proc[s] = "alive" => Used(s) \/ \E t \in Tasks : Owns(t, s)

(* The session an args switch replaces is still the shared one. *)
SwitchFor(label, l) ==
    label \in {"spawn", "swap"} /\ l.op = "args"
        => l.id \in Ids /\ sessions[l.id] = l.old

SwitchCurrent == \A t \in Tasks : SwitchFor(pc[t], task[t])

LEMMA OwnedIsHeld ==
  ASSUME InductiveInvariant, Accounted
  PROVE  NoLeakedSession
  BY DEF Accounted, Owns, OwnsFor, Used, NoLeakedSession, Holds, AtRest

(* A step of t accounts for every session that t or the map answered for. *)
LEMMA AccountKept ==
  ASSUME Accounted, NEW t \in Tasks, OthersStay(t),
         \A s \in Sessions : proc'[s] = "alive" =>
             \/ Used(s)' \/ Owns(t, s)'
             \/ proc[s] = "alive" /\ ~Used(s) /\ ~Owns(t, s)
  PROVE  Accounted'
<1> SUFFICES ASSUME NEW s \in Sessions, proc'[s] = "alive", ~Used(s)',
                    ~Owns(t, s)'
             PROVE  \E u \in Tasks : Owns(u, s)'
  BY DEF Accounted
<1>1. PICK u \in Tasks : Owns(u, s) /\ u # t
  BY DEF Accounted
<1>2. Owns(u, s)'
  BY <1>1 DEF Owns, OthersStay
<1> QED BY <1>2

LEMMA SwitchKept ==
  ASSUME InductiveInvariant, PoolInvariant, SwitchesAlone, SwitchCurrent,
         NEW t \in Tasks, OthersStay(t), SwitchFor(pc[t], task[t])',
         sessions' = sessions \/ pc[t] \in Guarded \cup {"drop", "syncPrune"}
  PROVE  SwitchCurrent'
<1> SUFFICES ASSUME NEW u \in Tasks \ {t}, pc[u] \in {"spawn", "swap"},
                    task[u].op = "args"
             PROVE  task[u].id \in Ids /\ sessions'[task[u].id] = task[u].old
  BY DEF SwitchCurrent, SwitchFor, OthersStay
<1>1. task[u].id \in Ids /\ sessions[task[u].id] = task[u].old
  BY DEF SwitchCurrent, SwitchFor
<1>2. pc[t] \notin Guarded
  BY DEF InductiveInvariant, LockHeld, Guarded
<1>3. "args" \in Ops
  BY DEF PoolInvariant, CommandsIssued, CommandFor, AtRest
<1>4. pc[t] \notin {"drop", "syncPrune"}
  BY <1>3 DEF SwitchesAlone, PoolInvariant, CommandsIssued, CommandFor, AtRest
<1> QED BY <1>1, <1>2, <1>4

LEMMA KilledIsDead ==
  ASSUME InductiveInvariant, NEW r \in Sessions, kill_child_process_tree(r)
  PROVE  /\ proc'[r] # "alive"
         /\ \A s \in Sessions : proc'[s] = "alive" => proc[s] = "alive" /\ s # r
  BY DEF kill_child_process_tree, InductiveInvariant, TypeOK, PoolTypeOK

LEMMA PoolActionAccounts ==
  ASSUME InductiveInvariant, PoolInvariant, SwitchesAlone, SwitchCurrent,
         Accounted, NEW t \in Tasks, PoolAction(t)
  PROVE  Accounted' /\ SwitchCurrent'
<1>0. /\ CommandFor(pc[t], task[t]) /\ BornFor(pc[t], task[t])
      /\ SwitchFor(pc[t], task[t]) /\ task[t] \in Locals
      /\ sessions \in [Ids -> Sessions \cup {None}]
      /\ PoolFor(sessions, pc[t], task[t]) /\ SingleSharedSession
  BY DEF PoolInvariant, CommandsIssued, HeldIsBorn, SwitchCurrent,
     InductiveInvariant, TypeOK, PoolTypeOK, PoolReserved
<1>a. OthersStay(t)
  BY <1>0, AdvanceAlone DEF PoolAction, Advance, Connect, AddWorkspace,
     RuntimeArgs, RemoveWorkspace, SyncFromStorage
<1> DEFINE Settled == \A s \in Sessions : proc'[s] = "alive" =>
                         \/ Used(s)' \/ Owns(t, s)'
                         \/ proc[s] = "alive" /\ ~Used(s) /\ ~Owns(t, s)
           Current == /\ SwitchFor(pc[t], task[t])'
                      /\ \/ sessions' = sessions
                         \/ pc[t] \in Guarded \cup {"drop", "syncPrune"}
<1>b. ASSUME Settled, Current
      PROVE  Accounted' /\ SwitchCurrent'
  BY <1>a, <1>b, AccountKept, SwitchKept
<1> USE DEF KeepsHold, Owns, OwnsFor, Used, SwitchFor, Guarded
<1>1. CASE connect_workspace_own(t)
  BY <1>0, <1>1, <1>b, OwnEffect
<1>2. CASE connect_workspace_own_alive(t)
  BY <1>0, <1>2, <1>b, OwnAliveEffect DEF remove_session_references
<1>3. CASE take_live_shared_session(t)
  BY <1>0, <1>3, <1>b, TakeEffect
<1>4. CASE take_live_shared_session_alive(t)
  BY <1>0, <1>4, <1>b, TakeAliveEffect DEF remove_session_references
<1>5. CASE spawn_session(t)
  <2>1. CASE pc'[t] = "err" /\ UNCHANGED proc
    BY <1>0, <1>5, <1>b, <2>1, SpawnEffect
  <2>2. ASSUME NEW r \in Sessions, proc' = [proc EXCEPT ![r] = "alive"],
               task'[t].session = r, task'[t].spawned,
               task'[t].op = task[t].op, task'[t].id = task[t].id,
               task'[t].old = task[t].old,
               pc'[t] = CASE task[t].op = "args" -> "swap"
                          [] task[t].op = "connect" -> "register"
                          [] OTHER -> "persist"
        PROVE  Accounted' /\ SwitchCurrent'
    <3>0. pc[t] = "spawn" /\ task[t].id \in Ids /\ sessions' = sessions
          /\ proc \in [Sessions -> {"unborn", "alive", "dead"}]
      BY <1>5, SpawnEffect DEF InductiveInvariant, TypeOK, PoolTypeOK
    <3>1. Current
      BY <1>0, <2>2, <3>0
    <3>2. Owns(t, r)'
      BY <2>2
    <3>3. \A s \in Sessions \ {r} : proc'[s] = proc[s]
      BY <2>2, <3>0
    <3>4. \A s \in Sessions : ~Owns(t, s) /\ Used(s)' = Used(s)
      BY <3>0
    <3>5. Settled
      BY <3>2, <3>3, <3>4
    <3> QED BY <1>b, <3>1, <3>5
  <2> QED BY <1>5, <2>1, <2>2, SpawnEffect
<1>6. CASE register_workspace_with_path(t)
  BY <1>0, <1>6, <1>b, RegisterEffect
<1>7. CASE connect_workspace_insert(t)
  <2>1. /\ pc[t] = "insert" /\ pc'[t] = "ok" /\ proc' = proc
        /\ task[t].id \in Ids /\ task[t].session \in Sessions
        /\ sessions' = [sessions EXCEPT ![task[t].id] = task[t].session]
    BY <1>7, InsertEffect
  <2>2. \A w \in Ids : sessions[w] \in {None, task[t].session}
    BY <1>0, <2>1 DEF PoolFor
  <2>3. \A s \in Sessions : s = task[t].session => Used(s)'
    BY <1>0, <2>1
  <2>4. \A s \in Sessions \ {task[t].session} : ~Used(s) /\ ~Owns(t, s)
    BY <2>1, <2>2, NoneAssumption
  <2>5. Settled
    BY <2>1, <2>3, <2>4
  <2> QED BY <1>b, <2>1, <2>5
<1>8. CASE add_workspace_persist(t)
  BY <1>0, <1>8, <1>b, PersistEffect DEF SwitchesAlone, CommandFor, AtRest
<1>9. CASE add_workspace_undo(t)
  BY <1>0, <1>9, <1>b, UndoEffect
<1>10. CASE add_workspace_undo_kill(t)
  BY <1>0, <1>10, <1>b, UndoKillEffect, KilledIsDead DEF BornFor
<1>11. CASE runtime_codex_args_current(t)
  BY <1>0, <1>11, <1>b, CurrentEffect
<1>12. CASE runtime_codex_args_swap(t)
  <2>1. PICK r \in Sessions, o \in Sessions :
          /\ pc[t] = "swap" /\ pc'[t] = "registerAll" /\ proc' = proc
          /\ task[t].op = "args" /\ task[t].session = r
          /\ task[t].old = o /\ task'[t].old = o
          /\ sessions' = [w \in Ids |-> IF sessions[w] = None THEN None ELSE r]
    BY <1>12, SwapEffect
  <2>2. task[t].id \in Ids /\ sessions[task[t].id] = o
    BY <1>0, <2>1
  <2>3. \A w \in Ids : sessions[w] \in {None, o}
    BY <1>0, <2>1, <2>2, NoneAssumption DEF SingleSharedSession, Present
  <2>4. Used(r)' /\ Owns(t, o)'
    BY <2>1, <2>2, NoneAssumption
  <2>5. \A s \in Sessions \ {r, o} : ~Used(s) /\ ~Owns(t, s)
    BY <2>1, <2>3, NoneAssumption
  <2>6. Settled
    BY <2>1, <2>4, <2>5
  <2> QED BY <1>b, <2>1, <2>6
<1>13. CASE runtime_codex_args_register(t)
  BY <1>0, <1>13, <1>b, RegisterAllEffect
<1>14. CASE runtime_codex_args_kill_old(t)
  BY <1>0, <1>14, <1>b, KillOldEffect, KilledIsDead
<1>15. CASE kill_session_by_id_remove(t)
  <2>1. CASE pc'[t] \in {"forget", "files"} /\ sessions' = sessions
    BY <1>0, <1>15, <1>b, <2>1, DropEffect
  <2>2. CASE pc'[t] = "unregister"
    <3>1. /\ pc[t] = "drop" /\ proc' = proc /\ task[t].cur \in Ids
          /\ sessions[task[t].cur] \in Sessions
          /\ sessions' = [sessions EXCEPT ![task[t].cur] = None]
          /\ task'[t].session = sessions[task[t].cur]
          /\ task'[t].unshared = ~StillReferenced(task[t].cur)
      BY <1>15, <2>2, DropEffect
    <3>2. ASSUME NEW s \in Sessions, proc'[s] = "alive", Used(s)
          PROVE  Used(s)' \/ Owns(t, s)'
      <4>1. CASE s # sessions[task[t].cur]
        BY <1>0, <3>1, <3>2, <4>1
      <4>2. CASE s = sessions[task[t].cur] /\ StillReferenced(task[t].cur)
        BY <1>0, <3>1, <4>2 DEF StillReferenced
      <4>3. CASE s = sessions[task[t].cur] /\ ~StillReferenced(task[t].cur)
        BY <2>2, <3>1, <4>3
      <4> QED BY <4>1, <4>2, <4>3
    <3>3. \A s \in Sessions : ~Owns(t, s)
      BY <3>1
    <3>4. Settled
      BY <3>1, <3>2, <3>3
    <3> QED BY <1>b, <2>2, <3>1, <3>4
  <2> QED BY <1>15, <2>1, <2>2, DropEffect
<1>16. CASE unregister_workspace(t)
  BY <1>0, <1>16, <1>b, UnregisterEffect
<1>17. CASE kill_session_by_id_kill(t)
  BY <1>0, <1>17, <1>b, KillEffect, KilledIsDead
<1>18. CASE sync_workspaces_prune(t)
  BY <1>0, <1>18, <1>b, PruneEffect DEF Stale, Present
<1>19. CASE sync_workspaces_kill(t)
  BY <1>0, <1>19, <1>b, SyncKillEffect, KilledIsDead
<1> QED BY <1>1, <1>2, <1>3, <1>4, <1>5, <1>6, <1>7, <1>8, <1>9, <1>10, <1>11,
      <1>12, <1>13, <1>14, <1>15, <1>16, <1>17, <1>18, <1>19
      DEF PoolAction, RuntimeArgs

LEMMA AccountNext ==
  ASSUME InductiveInvariant, PoolInvariant, SwitchesAlone, SwitchCurrent,
         Accounted, [Next]_vars
  PROVE  Accounted' /\ SwitchCurrent'
<1>1. CASE UNCHANGED <<sessions, proc, pc, task>>
  BY <1>1 DEF Accounted, Owns, OwnsFor, Used, SwitchCurrent, SwitchFor
<1>2. ASSUME NEW t \in Tasks,
             Request(t) \/ workspace_session_spawn_lock(t) \/ Advance(t)
      PROVE  Accounted' /\ SwitchCurrent'
  <2>1. CASE PoolAction(t)
    BY <2>1, PoolActionAccounts
  <2>2. CASE Bystander(t)
    <3>1. /\ OthersStay(t) /\ UNCHANGED <<sessions, proc>>
          /\ pc[t] \notin HoldLabels /\ pc'[t] \notin HoldLabels
      BY <2>2 DEF Bystander
    <3>2. \A s \in Sessions : ~Owns(t, s) /\ Used(s)' = Used(s)
      BY <3>1 DEF Owns, OwnsFor, HoldLabels, Used
    <3>3. Accounted'
      BY <3>1, <3>2, AccountKept
    <3>4. SwitchFor(pc[t], task[t])'
      BY <3>1 DEF SwitchFor, HoldLabels
    <3> QED BY <3>1, <3>3, <3>4, SwitchKept
  <2> QED BY <1>2, <2>1, <2>2, BystanderOrPool DEF PoolInvariant, CommandsIssued
<1>3. CASE Crash
  <2>1. PICK s \in Sessions : kill_child_process_tree(s)
    BY <1>3 DEF Crash
  <2>2. UNCHANGED <<sessions, pc, task>>
    BY <1>3 DEF Crash
  <2> QED BY <2>1, <2>2, KilledIsDead DEF Accounted, Owns, OwnsFor, Used,
        SwitchCurrent, SwitchFor
<1>4. CASE Restart
  <2>1. \A t \in Tasks : pc'[t] = "idle"
    BY <1>4 DEF Restart
  <2>2. \A s \in Sessions : proc'[s] # "alive"
    BY <1>4 DEF Restart
  <2> QED BY <2>1, <2>2 DEF Accounted, SwitchCurrent, SwitchFor
<1>5. CASE OtherProcessSaves
  BY <1>1, <1>5 DEF OtherProcessSaves, pool
<1> QED BY <1>1, <1>2, <1>3, <1>4, <1>5 DEF Next, Environment, vars

(* No app-server outlives its use: of two removers of the last references  *)
(* one kills it, an add that is rolled back and an args switch kill        *)
(* theirs, and the daemon's sync kills what it prunes.                     *)
THEOREM NoProcessLeaks ==
  ASSUME SwitchesAlone
  PROVE  Spec => []NoLeakedSession
<1>1. Init => Accounted /\ SwitchCurrent
  BY DEF Init, Accounted, SwitchCurrent, SwitchFor
<1>2. /\ InductiveInvariant /\ PoolInvariant /\ Accounted /\ SwitchCurrent
      /\ [Next]_vars
      => Accounted' /\ SwitchCurrent'
  BY AccountNext
<1>3. InductiveInvariant /\ Accounted => NoLeakedSession
  BY OwnedIsHeld
<1> QED BY <1>1, <1>2, <1>3, PoolInvariance, PTL DEF Spec
-----------------------------------------------------------------------------
(* The shared session knows its workspaces. *)

(* kill_session_by_id unregisters outside the spawn lock, after it dropped *)
(* the reference; a connect of that workspace may come in between.         *)
NoRemovals == Ops \cap {"remove", "rmworktree"} = {}

RegisteredFor(label, l) ==
    /\ label = "insert" => l.id \in registered[l.session]
    /\ label = "registerAll" => \A w \in Ids : sessions[w] \in {None, l.session}

RegisteredFirst == \A t \in Tasks : RegisteredFor(pc[t], task[t])

(* A workspace that the shared session knows or is about to be told of. *)
Known(w) == \/ w \in registered[sessions[w]]
            \/ \E t \in Tasks : At(t, "registerAll") /\ w \in task[t].todo

(* Sessions that others use keep what they know. *)
KeepsRegistered(t) ==
    \A s \in Sessions : \/ registered[s] \subseteq registered'[s]
                        \/ proc[s] = "unborn"

LEMMA RegisteredKept ==
  ASSUME InductiveInvariant, PoolInvariant, RegisteredFirst, NEW t \in Tasks,
         OthersStay(t), RegisteredFor(pc[t], task[t])', KeepsRegistered(t),
         Drops \/ pc[t] \in Guarded
  PROVE  RegisteredFirst'
<1> SUFFICES ASSUME NEW u \in Tasks \ {t}
             PROVE  RegisteredFor(pc[u], task[u])'
  BY DEF RegisteredFirst
<1>1. /\ pc'[u] = pc[u] /\ task'[u] = task[u]
      /\ RegisteredFor(pc[u], task[u]) /\ BornFor(pc[u], task[u])
  BY DEF OthersStay, RegisteredFirst, PoolInvariant, HeldIsBorn
<1>2. pc[u] \in Guarded => Drops
  BY DEF InductiveInvariant, LockHeld
<1>3. pc[u] = "insert" => task[u].id \in registered'[task[u].session]
  BY <1>1 DEF RegisteredFor, BornFor, KeepsRegistered
<1>4. pc[u] = "registerAll" => \A w \in Ids : sessions'[w] \in {None, task[u].session}
  BY <1>1, <1>2 DEF RegisteredFor, Drops, Guarded
<1> QED BY <1>1, <1>3, <1>4 DEF RegisteredFor

LEMMA ConnectedKept ==
  ASSUME InductiveInvariant, PoolInvariant, ConnectedIsRegistered,
         NEW t \in Tasks, OthersStay(t), KeepsRegistered(t), Drops,
         pc[t] # "registerAll"
  PROVE  ConnectedIsRegistered'
<1> SUFFICES ASSUME NEW w \in Ids, sessions'[w] # None PROVE Known(w)'
  BY DEF ConnectedIsRegistered, Present, Known
<1>1. /\ sessions'[w] = sessions[w] /\ sessions[w] \in Sessions
      /\ proc[sessions[w]] # "unborn"
  BY DEF Drops, PoolInvariant, HeldIsBorn, Present, InductiveInvariant, TypeOK,
     PoolTypeOK
<1>2. CASE w \in registered[sessions[w]]
  BY <1>1, <1>2 DEF KeepsRegistered, Known
<1>3. ASSUME NEW u \in Tasks, At(u, "registerAll"), w \in task[u].todo
      PROVE  Known(w)'
  BY <1>3 DEF At, OthersStay, Known
<1> QED BY <1>1, <1>2, <1>3 DEF ConnectedIsRegistered, Present

LEMMA PoolActionRegisters ==
  ASSUME InductiveInvariant, PoolInvariant, NoRemovals, RegisteredFirst,
         ConnectedIsRegistered, NEW t \in Tasks, PoolAction(t)
  PROVE  RegisteredFirst' /\ ConnectedIsRegistered'
<1>0. /\ CommandFor(pc[t], task[t]) /\ BornFor(pc[t], task[t])
      /\ RegisteredFor(pc[t], task[t]) /\ task[t] \in Locals
      /\ sessions \in [Ids -> Sessions \cup {None}]
      /\ registered \in [Sessions -> SUBSET Ids]
      /\ PoolFor(sessions, pc[t], task[t])
  BY DEF PoolInvariant, CommandsIssued, HeldIsBorn, RegisteredFirst,
     InductiveInvariant, TypeOK, PoolTypeOK, PoolReserved
<1>a. OthersStay(t)
  BY <1>0, AdvanceAlone DEF PoolAction, Advance, Connect, AddWorkspace,
     RuntimeArgs, RemoveWorkspace, SyncFromStorage
<1>b. ASSUME KeepsRegistered(t), Drops, pc[t] # "registerAll",
             RegisteredFor(pc[t], task[t])'
      PROVE  RegisteredFirst' /\ ConnectedIsRegistered'
  BY <1>a, <1>b, RegisteredKept, ConnectedKept
<1> USE DEF KeepsRegistered, Drops, RegisteredFor
<1>1. CASE connect_workspace_own(t)
  BY <1>1, <1>b, OwnEffect
<1>2. CASE connect_workspace_own_alive(t)
  BY <1>2, <1>b, OwnAliveEffect DEF remove_session_references
<1>3. CASE take_live_shared_session(t)
  BY <1>3, <1>b, TakeEffect
<1>4. CASE take_live_shared_session_alive(t)
  BY <1>4, <1>b, TakeAliveEffect DEF remove_session_references
<1>5. CASE spawn_session(t)
  <2>1. pc[t] = "spawn" /\ sessions' = sessions
    BY <1>5, SpawnEffect
  <2>2. pc'[t] \notin {"insert", "registerAll"}
    BY <1>5, SpawnEffect
  <2>3. KeepsRegistered(t)
    BY <1>0, <1>5, SpawnEffect
  <2> QED BY <1>b, <2>1, <2>2, <2>3
<1>6. CASE register_workspace_with_path(t)
  BY <1>0, <1>6, <1>b, RegisterEffect
<1>7. CASE connect_workspace_insert(t)
  <2>1. PICK r \in Sessions, v \in Ids :
          /\ pc[t] = "insert" /\ pc'[t] = "ok" /\ registered' = registered
          /\ r = task[t].session /\ v = task[t].id
          /\ sessions' = [sessions EXCEPT ![v] = r]
    BY <1>7, InsertEffect
  <2>2. v \in registered[r] /\ RegisteredFor(pc[t], task[t])' /\ KeepsRegistered(t)
    BY <1>0, <2>1
  <2>3. RegisteredFirst'
    BY <1>a, <2>1, <2>2, RegisteredKept DEF Guarded
  <2>4. \A u \in Tasks : pc[u] # "registerAll"
    BY <2>1 DEF InductiveInvariant, LockHeld, Guarded
  <2>5. \A w \in Ids : sessions[w] # None => w \in registered[sessions[w]]
    BY <2>4 DEF ConnectedIsRegistered, Present, At
  <2>6. ConnectedIsRegistered'
    BY <1>0, <2>1, <2>2, <2>5 DEF ConnectedIsRegistered, Present
  <2> QED BY <2>3, <2>6
<1>8. CASE add_workspace_persist(t)
  BY <1>0, <1>8, <1>b, PersistEffect
<1>9. CASE add_workspace_undo(t)
  BY <1>9, <1>b, UndoEffect
<1>10. CASE add_workspace_undo_kill(t)
  BY <1>10, <1>b, UndoKillEffect
<1>11. CASE runtime_codex_args_current(t)
  BY <1>11, <1>b, CurrentEffect
<1>12. CASE runtime_codex_args_swap(t)
  <2>1. /\ pc[t] = "swap" /\ pc'[t] = "registerAll" /\ registered' = registered
        /\ task'[t].session = task[t].session
        /\ task'[t].todo = Present(sessions)
        /\ sessions' = [w \in Ids |-> IF sessions[w] = None THEN None
                                      ELSE task[t].session]
    BY <1>12, SwapEffect DEF KeepsHold
  <2>2. RegisteredFor(pc[t], task[t])' /\ KeepsRegistered(t)
    BY <2>1
  <2>3. RegisteredFirst'
    BY <1>a, <2>1, <2>2, RegisteredKept DEF Guarded
  <2>4. ConnectedIsRegistered'
    BY <2>1 DEF ConnectedIsRegistered, Present, At
  <2> QED BY <2>3, <2>4
<1>13. CASE runtime_codex_args_register(t)
  <2>1. /\ pc[t] = "registerAll" /\ task[t].session \in Sessions
        /\ sessions' = sessions /\ task'[t].session = task[t].session
    BY <1>13, RegisterAllEffect
  <2>2. KeepsRegistered(t) /\ RegisteredFor(pc[t], task[t])'
    BY <1>0, <1>13, <2>1, RegisterAllEffect
  <2>3. RegisteredFirst'
    BY <1>a, <2>1, <2>2, RegisteredKept
  <2>4. \A u \in Tasks : pc[u] = "registerAll" => u = t
    BY <2>1 DEF InductiveInvariant, LockHeld, Guarded
  <2>5. \A w \in Ids : sessions[w] # None
           => /\ sessions[w] = task[t].session
              /\ w \in registered[task[t].session] \/ w \in task[t].todo
    BY <1>0, <2>1, <2>4 DEF ConnectedIsRegistered, Present, At
  <2>6. ASSUME NEW w \in Ids, sessions'[w] # None PROVE Known(w)'
    <3>0. /\ sessions'[w] = task[t].session
          /\ w \in registered[task[t].session] \/ w \in task[t].todo
      BY <2>1, <2>5, <2>6
    <3>1. CASE pc'[t] = "killOld"
      BY <1>13, <2>1, <3>0, <3>1, RegisterAllEffect DEF Known
    <3>2. CASE pc'[t] = "registerAll"
      <4>1. \/ w \in registered'[task[t].session] \/ w \in task'[t].todo
        BY <1>0, <1>13, <2>1, <3>0, <3>2, RegisterAllEffect
      <4> QED BY <3>0, <3>2, <4>1 DEF Known, At
    <3> QED BY <1>13, <3>1, <3>2, RegisterAllEffect
  <2>7. ConnectedIsRegistered'
    BY <2>6 DEF ConnectedIsRegistered, Present, Known
  <2> QED BY <2>3, <2>7
<1>14. CASE runtime_codex_args_kill_old(t)
  BY <1>14, <1>b, KillOldEffect
<1>15. CASE \/ kill_session_by_id_remove(t) \/ unregister_workspace(t)
            \/ kill_session_by_id_kill(t)
  BY <1>0, <1>15, DropEffect, UnregisterEffect, KillEffect
     DEF NoRemovals, CommandFor, AtRest
<1>16. CASE sync_workspaces_prune(t)
  BY <1>16, <1>b, PruneEffect
<1>17. CASE sync_workspaces_kill(t)
  BY <1>17, <1>b, SyncKillEffect
<1> QED BY <1>1, <1>2, <1>3, <1>4, <1>5, <1>6, <1>7, <1>8, <1>9, <1>10, <1>11,
      <1>12, <1>13, <1>14, <1>15, <1>16, <1>17 DEF PoolAction, RuntimeArgs

LEMMA RegisteredNext ==
  ASSUME InductiveInvariant, PoolInvariant, NoRemovals, RegisteredFirst,
         ConnectedIsRegistered, [Next]_vars
  PROVE  RegisteredFirst' /\ ConnectedIsRegistered'
<1>1. CASE UNCHANGED <<sessions, registered, pc, task>>
  BY <1>1 DEF RegisteredFirst, RegisteredFor, ConnectedIsRegistered, Present, At
<1>2. ASSUME NEW t \in Tasks,
             Request(t) \/ workspace_session_spawn_lock(t) \/ Advance(t)
      PROVE  RegisteredFirst' /\ ConnectedIsRegistered'
  <2>1. CASE PoolAction(t)
    BY <2>1, PoolActionRegisters
  <2>2. CASE Bystander(t)
    <3>1. /\ OthersStay(t) /\ KeepsRegistered(t) /\ Drops
          /\ pc[t] # "registerAll" /\ RegisteredFor(pc[t], task[t])'
      BY <2>2 DEF Bystander, KeepsRegistered, Drops, HoldLabels, RegisteredFor
    <3> QED BY <3>1, RegisteredKept, ConnectedKept
  <2> QED BY <1>2, <2>1, <2>2, BystanderOrPool DEF PoolInvariant, CommandsIssued
<1>3. CASE Restart
  BY <1>3 DEF Restart, RegisteredFirst, RegisteredFor, ConnectedIsRegistered,
     Present
<1>4. CASE Crash \/ OtherProcessSaves
  BY <1>1, <1>4 DEF Crash, OtherProcessSaves, pool
<1> QED BY <1>1, <1>2, <1>3, <1>4 DEF Next, Environment, vars

(* The shared session knows every workspace that is connected through it,  *)
(* or an args switch is about to tell it, as long as no workspace is       *)
(* removed (register_workspace_with_path comes before the insert).         *)
THEOREM ConnectedAreRegistered ==
  ASSUME NoRemovals
  PROVE  Spec => []ConnectedIsRegistered
<1>1. Init => RegisteredFirst /\ ConnectedIsRegistered
  BY DEF Init, RegisteredFirst, RegisteredFor, ConnectedIsRegistered, Present
<1>2. /\ InductiveInvariant /\ PoolInvariant /\ RegisteredFirst
      /\ ConnectedIsRegistered /\ [Next]_vars
      => RegisteredFirst' /\ ConnectedIsRegistered'
  BY RegisteredNext
<1> QED BY <1>1, <1>2, PoolInvariance, PTL DEF Spec
-----------------------------------------------------------------------------
(* A switch to other codex args reaches every connected workspace. *)

SwitchedFor(label, l) ==
    /\ label \in {"persist", "register", "insert"} => l.op # "args"
    /\ label = "swap" => args[l.session] = l.args
    /\ label \in {"registerAll", "killOld"}
         => \A w \in Ids : sessions[w] # None => args[sessions[w]] = l.args

Switched == \A t \in Tasks : SwitchedFor(pc[t], task[t])

(* The args of a process never change once it has started. *)
KeepsArgs == \A s \in Sessions : proc[s] # "unborn" => args'[s] = args[s]

(* Only spawn_session gives a process its args. *)
LEMMA ArgsKept ==
  ASSUME InductiveInvariant, NEW t \in Tasks,
         Request(t) \/ workspace_session_spawn_lock(t) \/ Advance(t)
  PROVE  KeepsArgs /\ (args' # args => spawn_session(t))
<1>0. args \in [Sessions -> Args]
  BY DEF InductiveInvariant, TypeOK, PoolTypeOK
<1>1. CASE Request(t) \/ workspace_session_spawn_lock(t)
  BY <1>1 DEF Request, workspace_session_spawn_lock, pool, KeepsArgs
<1>2. CASE spawn_session(t)
  BY <1>0, <1>2 DEF spawn_session, KeepsArgs
<1>3. CASE Connect(t) /\ ~spawn_session(t)
  BY <1>3 DEF Connect, connect_workspace_precheck, resolve_entry_and_parent,
     connect_workspace_own, connect_workspace_own_alive,
     take_live_shared_session, take_live_shared_session_alive,
     register_workspace_with_path, connect_workspace_insert, pool, KeepsArgs
<1>4. CASE AddWorkspace(t) \/ RuntimeArgs(t)
  BY <1>4 DEF AddWorkspace, add_workspace_prepare, add_worktree_lookup,
     add_worktree_git, add_workspace_persist, add_workspace_undo,
     add_workspace_undo_kill, RuntimeArgs, runtime_codex_args_current,
     runtime_codex_args_swap, runtime_codex_args_register,
     runtime_codex_args_kill_old, pool, KeepsArgs
<1>5. CASE RemoveWorkspace(t) \/ SyncFromStorage(t)
  BY <1>5 DEF RemoveWorkspace, remove_workspace_lookup,
     remove_workspace_child, remove_worktree_lookup,
     kill_session_by_id_remove, unregister_workspace, kill_session_by_id_kill,
     remove_worktree_files, remove_workspace_forget, SyncFromStorage,
     sync_workspaces_read, sync_workspaces_store, sync_workspaces_prune,
     sync_workspaces_kill, pool, KeepsArgs
<1>6. CASE UpdateSettings(t) \/ RenameWorktree(t)
  BY <1>6 DEF UpdateSettings, update_workspace_settings_apply,
     update_workspace_settings_propagate, update_workspace_settings_snapshot,
     save_list, RenameWorktree, rename_worktree_lookup, rename_worktree_branch,
     rename_worktree_move, rename_worktree_update, rename_worktree_move_back,
     rename_worktree_branch_back, rename_worktree_restore,
     rename_worktree_register, pool, KeepsArgs
<1> QED BY <1>1, <1>2, <1>3, <1>4, <1>5, <1>6 DEF Advance

(* The switch of another task: its map can only lose entries. *)
LEMMA SwitchedKept ==
  ASSUME InductiveInvariant, PoolInvariant, Switched, NEW t \in Tasks,
         OthersStay(t), KeepsArgs, SwitchedFor(pc[t], task[t])',
         Drops \/ pc[t] \in Guarded
  PROVE  Switched'
<1> SUFFICES ASSUME NEW u \in Tasks \ {t}
             PROVE  SwitchedFor(pc[u], task[u])'
  BY DEF Switched
<1>1. /\ pc'[u] = pc[u] /\ task'[u] = task[u]
      /\ SwitchedFor(pc[u], task[u]) /\ BornFor(pc[u], task[u])
  BY DEF OthersStay, Switched, PoolInvariant, HeldIsBorn
<1>2. pc[u] \in Guarded => Drops
  BY DEF InductiveInvariant, LockHeld
<1>3. pc[u] = "swap" => args'[task[u].session] = task[u].args
  BY <1>1 DEF SwitchedFor, BornFor, KeepsArgs
<1>4. ASSUME pc[u] \in {"registerAll", "killOld"},
             NEW w \in Ids, sessions'[w] # None
      PROVE  args'[sessions'[w]] = task[u].args
  <2>1. sessions'[w] = sessions[w]
    BY <1>2, <1>4 DEF Drops, Guarded
  <2>2. sessions[w] \in Sessions /\ proc[sessions[w]] # "unborn"
    BY <1>4, <2>1 DEF PoolInvariant, HeldIsBorn, Present, InductiveInvariant,
       TypeOK, PoolTypeOK
  <2> QED BY <1>1, <1>4, <2>1, <2>2 DEF SwitchedFor, KeepsArgs
<1> QED BY <1>1, <1>3, <1>4 DEF SwitchedFor

LEMMA PoolActionSwitches ==
  ASSUME InductiveInvariant, PoolInvariant, Switched, NEW t \in Tasks,
         PoolAction(t), KeepsArgs, args' # args => spawn_session(t)
  PROVE  Switched'
<1>0. /\ CommandFor(pc[t], task[t]) /\ SwitchedFor(pc[t], task[t])
      /\ BornFor(pc[t], task[t]) /\ pc \in [Tasks -> Labels]
      /\ task \in [Tasks -> Locals] /\ task[t] \in Locals
      /\ sessions \in [Ids -> Sessions \cup {None}]
      /\ args \in [Sessions -> Args]
  BY DEF PoolInvariant, CommandsIssued, HeldIsBorn, Switched,
     InductiveInvariant, TypeOK, PoolTypeOK
<1>a. OthersStay(t)
  BY <1>0, AdvanceAlone DEF PoolAction, Advance, Connect, AddWorkspace,
     RuntimeArgs, RemoveWorkspace, SyncFromStorage
<1>b. ASSUME Drops \/ pc[t] \in Guarded,
             pc'[t] \notin {"swap", "registerAll", "killOld"},
             pc'[t] \in {"persist", "register", "insert"}
               => task'[t].op # "args"
      PROVE  Switched'
  BY <1>a, <1>b, SwitchedKept DEF SwitchedFor
<1>1. CASE connect_workspace_own(t)
  BY <1>1, <1>b, OwnEffect DEF Guarded
<1>2. CASE connect_workspace_own_alive(t)
  BY <1>2, <1>b, OwnAliveEffect DEF Guarded
<1>3. CASE take_live_shared_session(t)
  BY <1>3, <1>b, TakeEffect DEF Guarded
<1>4. CASE take_live_shared_session_alive(t)
  BY <1>4, <1>b, TakeAliveEffect DEF Guarded, KeepsHold
<1>5. CASE spawn_session(t)
  <2>1. pc[t] \in Guarded /\ pc'[t] \notin {"registerAll", "killOld"}
    BY <1>5, SpawnEffect DEF Guarded
  <2>2. ASSUME pc'[t] = "swap" PROVE args'[task'[t].session] = task'[t].args
    <3>1. PICK s \in Sessions :
             /\ args' = [args EXCEPT ![s] = task[t].args]
             /\ task' = [task EXCEPT ![t].session = s, ![t].spawned = TRUE]
      BY <1>0, <1>5, <2>2 DEF spawn_session, Return
    <3>2. task'[t].session = s /\ task'[t].args = task[t].args
      BY <1>0, <3>1 DEF Locals
    <3> QED BY <1>0, <3>1, <3>2
  <2>3. pc'[t] \in {"persist", "register", "insert"} => task'[t].op # "args"
    BY <1>5, SpawnEffect
  <2> QED BY <1>a, <2>1, <2>2, <2>3, SwitchedKept DEF SwitchedFor
<1>6. CASE register_workspace_with_path(t) \/ connect_workspace_insert(t)
  BY <1>0, <1>6, <1>b, RegisterEffect, InsertEffect DEF Guarded, SwitchedFor
<1>7. CASE \/ add_workspace_persist(t) \/ add_workspace_undo(t)
           \/ add_workspace_undo_kill(t)
  BY <1>0, <1>7, <1>b, PersistEffect, UndoEffect, UndoKillEffect
     DEF Guarded, SwitchedFor
<1>8. CASE runtime_codex_args_current(t)
  BY <1>8, <1>b, CurrentEffect DEF Guarded
<1>9. CASE runtime_codex_args_swap(t)
  <2>1. /\ pc[t] = "swap" /\ pc'[t] = "registerAll"
        /\ sessions' = [w \in Ids |-> IF sessions[w] = None THEN None
                                      ELSE task[t].session]
    BY <1>9, SwapEffect
  <2>2. args' = args /\ task'[t].args = task[t].args
    BY <1>0, <1>9 DEF runtime_codex_args_swap, Locals
  <2>3. SwitchedFor(pc[t], task[t])'
    BY <1>0, <2>1, <2>2 DEF SwitchedFor
  <2> QED BY <1>a, <2>1, <2>3, SwitchedKept DEF Guarded
<1>10. CASE runtime_codex_args_register(t)
  <2>1. pc[t] = "registerAll" /\ sessions' = sessions
    BY <1>10, RegisterAllEffect
  <2>2. args' = args /\ task'[t].args = task[t].args
    BY <1>0, <1>10 DEF runtime_codex_args_register, Locals
  <2>3. SwitchedFor(pc[t], task[t])'
    BY <1>0, <1>10, <2>1, <2>2, RegisterAllEffect DEF SwitchedFor
  <2> QED BY <1>a, <2>1, <2>3, SwitchedKept DEF Guarded
<1>11. CASE runtime_codex_args_kill_old(t)
  BY <1>11, <1>b, KillOldEffect DEF Guarded
<1>12. CASE \/ kill_session_by_id_remove(t) \/ unregister_workspace(t)
            \/ kill_session_by_id_kill(t)
  BY <1>0, <1>12, <1>b, DropEffect, UnregisterEffect, KillEffect DEF Drops
<1>13. CASE sync_workspaces_prune(t) \/ sync_workspaces_kill(t)
  BY <1>13, <1>b, PruneEffect, SyncKillEffect DEF Drops
<1> QED BY <1>1, <1>2, <1>3, <1>4, <1>5, <1>6, <1>7, <1>8, <1>9, <1>10, <1>11,
      <1>12, <1>13 DEF PoolAction, RuntimeArgs

LEMMA SwitchedNext ==
  ASSUME InductiveInvariant, PoolInvariant, Switched, [Next]_vars
  PROVE  Switched'
<1>1. CASE UNCHANGED <<sessions, args, pc, task>>
  BY <1>1 DEF Switched, SwitchedFor
<1>2. ASSUME NEW t \in Tasks,
             Request(t) \/ workspace_session_spawn_lock(t) \/ Advance(t)
      PROVE  Switched'
  <2>1. KeepsArgs /\ (args' # args => spawn_session(t))
    BY <1>2, ArgsKept
  <2>2. CASE PoolAction(t)
    BY <2>1, <2>2, PoolActionSwitches
  <2>3. CASE Bystander(t)
    <3>1. OthersStay(t) /\ Drops /\ SwitchedFor(pc[t], task[t])'
      BY <2>3 DEF Bystander, Drops, HoldLabels, SwitchedFor
    <3> QED BY <2>1, <3>1, SwitchedKept
  <2> QED BY <1>2, <2>2, <2>3, BystanderOrPool DEF PoolInvariant, CommandsIssued
<1>3. CASE Restart
  BY <1>3 DEF Restart, Switched, SwitchedFor
<1>4. CASE Crash \/ OtherProcessSaves
  BY <1>1, <1>4 DEF Crash, OtherProcessSaves, pool
<1> QED BY <1>1, <1>2, <1>3, <1>4 DEF Next, Environment, vars

(* A switch answers Ok at its comparison of the args, or after its kill. *)
LEMMA SwitchAnswersAt ==
  ASSUME InductiveInvariant, Switched, NEW t \in Tasks, Advance(t),
         pc[t] \in Guarded, pc'[t] = "ok", task[t].op = "args"
  PROVE  runtime_codex_args_current(t) \/ runtime_codex_args_kill_old(t)
<1>0. pc \in [Tasks -> Labels] /\ LocalsFor(pc[t], task[t])
  BY DEF InductiveInvariant, TypeOK, LocalsSet
<1>1. CASE Connect(t)
  <2>1. pc[t] # "insert"
    BY DEF Switched, SwitchedFor
  <2> QED BY <1>0, <1>1, <2>1 DEF Connect, Goto, Return, At, Guarded,
     connect_workspace_precheck, resolve_entry_and_parent,
     connect_workspace_own, connect_workspace_own_alive,
     take_live_shared_session, take_live_shared_session_alive, spawn_session,
     register_workspace_with_path, connect_workspace_insert, AfterSession,
     LocalsFor
<1>2. CASE AddWorkspace(t)
  BY <1>0, <1>2 DEF AddWorkspace, Goto, Return, At, Guarded,
     add_workspace_prepare, add_worktree_lookup, add_worktree_git,
     add_workspace_persist, add_workspace_undo, add_workspace_undo_kill
<1>3. CASE RuntimeArgs(t)
  BY <1>0, <1>3 DEF RuntimeArgs, Goto, At, runtime_codex_args_swap,
     runtime_codex_args_register
<1>4. CASE RemoveWorkspace(t)
  BY <1>0, <1>4 DEF RemoveWorkspace, At, Guarded,
     remove_workspace_lookup, remove_workspace_child, remove_worktree_lookup,
     kill_session_by_id_remove, unregister_workspace,
     kill_session_by_id_kill, remove_worktree_files, remove_workspace_forget
<1>5. CASE UpdateSettings(t) \/ SyncFromStorage(t)
  BY <1>0, <1>5 DEF UpdateSettings, At, Guarded,
     update_workspace_settings_apply, update_workspace_settings_propagate,
     update_workspace_settings_snapshot, save_list, SyncFromStorage,
     sync_workspaces_read, sync_workspaces_store, sync_workspaces_prune,
     sync_workspaces_kill
<1>6. CASE RenameWorktree(t)
  BY <1>0, <1>6 DEF RenameWorktree, At, Guarded,
     rename_worktree_lookup, rename_worktree_branch, rename_worktree_move,
     rename_worktree_update, rename_worktree_move_back,
     rename_worktree_branch_back, rename_worktree_restore,
     rename_worktree_register
<1> QED BY <1>1, <1>2, <1>3, <1>4, <1>5, <1>6 DEF Advance

(* A switch that answers Ok for a connected workspace leaves every         *)
(* connected workspace with the args asked for, whatever commands race     *)
(* with it and whichever processes die: connects and adds wait for the     *)
(* spawn lock, removals and syncs only drop references                     *)
(* (set_workspace_runtime_codex_args_core).                                *)
THEOREM SwitchesReachAll == Spec => SwitchReachesAll
<1> DEFINE Reached ==
      \A t \in Tasks :
         /\ task[t].op = "args" /\ pc[t] \in Guarded /\ pc'[t] = "ok"
         /\ sessions[task[t].id] # None
         => \A w \in Present(sessions') : args[sessions'[w]] = task[t].args
<1>1. Init => Switched
  BY DEF Init, Switched, SwitchedFor
<1>2. InductiveInvariant /\ PoolInvariant /\ Switched /\ [Next]_vars => Switched'
  BY SwitchedNext
<1>3. InductiveInvariant /\ PoolInvariant /\ Switched /\ [Next]_vars
      => [Reached]_vars
  <2> SUFFICES ASSUME InductiveInvariant, PoolInvariant, Switched, Next,
                      NEW t \in Tasks, task[t].op = "args",
                      pc[t] \in Guarded, pc'[t] = "ok",
                      sessions[task[t].id] # None,
                      NEW w \in Ids, sessions'[w] # None
               PROVE  args[sessions'[w]] = task[t].args
    BY DEF Present
  <2>1. ~Environment /\ pc'[t] # pc[t]
    BY DEF Environment, Crash, Restart, OtherProcessSaves, Guarded
  <2>2. PICK u \in Tasks :
          Request(u) \/ workspace_session_spawn_lock(u) \/ Advance(u)
    BY <2>1 DEF Next
  <2>3. u = t
    BY <2>1, <2>2, CommandsKept DEF PoolInvariant, OthersStay
  <2>4. ~Request(t) /\ ~workspace_session_spawn_lock(t)
    BY DEF Request, workspace_session_spawn_lock, At, Guarded, AtRest
  <2>5. runtime_codex_args_current(t) \/ runtime_codex_args_kill_old(t)
    BY <2>2, <2>3, <2>4, SwitchAnswersAt
  <2>6. CASE runtime_codex_args_current(t)
    <3>1. sessions' = sessions
      BY <2>6, CurrentEffect
    <3>2. PICK v \in Present(sessions) : args[sessions[v]] = task[t].args
      BY <2>6 DEF runtime_codex_args_current, Goto, InductiveInvariant, TypeOK
    <3> QED BY <3>1, <3>2 DEF InductiveInvariant, SingleSharedSession, Present
  <2>7. CASE runtime_codex_args_kill_old(t)
    BY <2>7, KillOldEffect DEF Switched, SwitchedFor
  <2> QED BY <2>5, <2>6, <2>7
<1>4. Spec => [][Reached]_vars
  <2> HIDE DEF Reached
  <2> QED BY <1>1, <1>2, <1>3, PoolInvariance, PTL DEF Spec
<1> QED BY <1>4 DEF SwitchReachesAll
=============================================================================
