------------------------ MODULE WorkspacesCoreProofs ------------------------
(***************************************************************************)
(* Proofs about WorkspacesCore: InductiveInvariant is an invariant, hence  *)
(* the variables keep their types, all connected workspaces share one      *)
(* session, and a process is spawned only into an empty pool.              *)
(*                                                                         *)
(* A step of a task moves it to a label with new locals.  Returned and     *)
(* Continued say what such a move must satisfy to keep the invariant; the  *)
(* lemma of each command shows it for each of the command's steps.         *)
(***************************************************************************)
EXTENDS WorkspacesCore, TLAPS

(* The types of everything but the control state. *)
DataOK == StoreTypeOK /\ GitTypeOK /\ PoolTypeOK

(* What a step of t does to the sessions map: it drops references, or it   *)
(* is guarded by the spawn lock and leaves one session.                    *)
PoolStep(t) ==
    \/ \A w \in Ids : sessions'[w] \in {sessions[w], None}
    \/ pc[t] \in Guarded /\ SingleSharedSession'

-----------------------------------------------------------------------------
(* The locals of a task between two commands have their types. *)
LEMMA BlankLocals == Blank \in Locals
  BY ConstantsAssumption DEF Blank, Locals, AllOps

(* The type of each local. *)
LEMMA LocalsTypes ==
  ASSUME NEW l \in Locals
  PROVE  /\ l.op \in AllOps \cup {None} /\ l.id \in Ids \cup {None}
         /\ l.cur \in Ids \cup {None} /\ l.entry \in Entry \cup {None}
         /\ l.before \in Entry \cup {None} /\ l.list \in Stores \cup {None}
         /\ l.session \in Sessions \cup {None} /\ l.old \in Sessions \cup {None}
         /\ l.args \in Args /\ l.name \in Names \cup {None}
         /\ l.script \in Scripts \cup {None} /\ l.spawned \in BOOLEAN
         /\ l.unshared \in BOOLEAN /\ l.failed \in BOOLEAN
         /\ l.todo \in SUBSET Ids /\ l.gone \in SUBSET Ids
         /\ l.doomed \in SUBSET Sessions
  BY DEF Locals

(* A step that leaves the stores, the checkouts and the pool alone. *)
LEMMA Frame ==
  ASSUME InductiveInvariant, NEW t \in Tasks, UNCHANGED <<store, git, pool>>
  PROVE  DataOK' /\ PoolStep(t)
  BY DEF InductiveInvariant, TypeOK, DataOK, StoreTypeOK, GitTypeOK,
         PoolTypeOK, PoolStep, store, git, pool

(* The pool invariants hold after a step of t that satisfies PoolStep and  *)
(* leaves t itself in order.                                               *)
LEMMA PoolKept ==
  ASSUME InductiveInvariant, NEW t \in Tasks, NEW label \in Labels,
         NEW l \in Locals, PoolTypeOK', PoolStep(t),
         PoolFor(sessions', label, l),
         pc' = [pc EXCEPT ![t] = label], task' = [task EXCEPT ![t] = l]
  PROVE  PoolReserved' /\ SingleSharedSession'
<1>1. SingleSharedSession'
  <2>1. CASE \A w \in Ids : sessions'[w] \in {sessions[w], None}
    BY <2>1 DEF InductiveInvariant, SingleSharedSession, Present
  <2>2. CASE pc[t] \in Guarded /\ SingleSharedSession'
    BY <2>2
  <2> QED BY <2>1, <2>2 DEF PoolStep
<1>2. ASSUME NEW u \in Tasks PROVE PoolFor(sessions', pc'[u], task'[u])
  <2>1. CASE u = t
    BY <2>1 DEF InductiveInvariant, TypeOK
  <2>2. CASE u # t
    <3>1. pc'[u] = pc[u] /\ task'[u] = task[u]
      BY <2>2 DEF InductiveInvariant, TypeOK
    <3>2. PoolFor(sessions, pc[u], task[u])
      BY DEF InductiveInvariant, PoolReserved
    <3>3. CASE \A w \in Ids : sessions'[w] \in {sessions[w], None}
      BY <3>1, <3>2, <3>3 DEF PoolFor
    <3>4. CASE pc[t] \in Guarded
      <4>1. pc[u] \notin Guarded
        BY <2>2, <3>4 DEF InductiveInvariant, LockHeld
      <4> QED BY <3>1, <4>1 DEF PoolFor, Guarded
    <3> QED BY <3>3, <3>4 DEF PoolStep
  <2> QED BY <2>1, <2>2
<1> QED BY <1>1, <1>2 DEF PoolReserved

(* The control state is in order after t moves to label with locals l. *)
LEMMA ControlKept ==
  ASSUME InductiveInvariant, NEW t \in Tasks, NEW label \in Labels,
         NEW l \in Locals, LocalsFor(label, l),
         pc' = [pc EXCEPT ![t] = label], task' = [task EXCEPT ![t] = l]
  PROVE  /\ pc' \in [Tasks -> Labels]
         /\ task' \in [Tasks -> Locals]
         /\ LocalsSet'
<1>1. pc' \in [Tasks -> Labels] /\ task' \in [Tasks -> Locals]
  BY DEF InductiveInvariant, TypeOK
<1>2. ASSUME NEW u \in Tasks PROVE LocalsFor(pc'[u], task'[u])
  <2>1. CASE u = t
    BY <2>1 DEF InductiveInvariant, TypeOK
  <2>2. CASE u # t
    <3>1. pc'[u] = pc[u] /\ task'[u] = task[u]
      BY <2>2 DEF InductiveInvariant, TypeOK
    <3>2. LocalsFor(pc[u], task[u])
      BY DEF InductiveInvariant, LocalsSet
    <3> QED BY <3>1, <3>2
  <2> QED BY <2>1, <2>2
<1> QED BY <1>1, <1>2 DEF LocalsSet

(* A command that returns drops the spawn guard, whoever held it. *)
LEMMA Returned ==
  ASSUME InductiveInvariant, NEW t \in Tasks, NEW verdict \in AtRest,
         Return(t, verdict), DataOK', PoolStep(t)
  PROVE  InductiveInvariant'
<1>1. /\ verdict \in Labels
      /\ LocalsFor(verdict, Blank)
      /\ PoolFor(sessions', verdict, Blank)
  BY DEF AtRest, Labels, LocalsFor, PoolFor, NeedsId, NeedsName, NeedsEntry,
         NeedsSession, NeedsList
<1>2. pc' = [pc EXCEPT ![t] = verdict] /\ task' = [task EXCEPT ![t] = Blank]
  BY DEF Return
<1>3. LocalsSet' /\ pc' \in [Tasks -> Labels] /\ task' \in [Tasks -> Locals]
  BY <1>1, <1>2, BlankLocals, ControlKept
<1>4. PoolReserved' /\ SingleSharedSession'
  BY <1>1, <1>2, BlankLocals, PoolKept DEF DataOK
<1>5. LockHeld' /\ spawnLock' \in Tasks \cup {None}
  <2>1. spawnLock' = IF spawnLock = t THEN None ELSE spawnLock
    BY DEF Return
  <2>2. ASSUME NEW u \in Tasks, pc'[u] \in Guarded PROVE spawnLock' = u
    <3>1. u # t
      BY <1>2, <2>2 DEF InductiveInvariant, TypeOK, AtRest, Guarded
    <3>2. spawnLock = u
      BY <1>2, <2>2, <3>1 DEF InductiveInvariant, TypeOK, LockHeld
    <3> QED BY <2>1, <3>1, <3>2
  <2> QED BY <2>1, <2>2 DEF LockHeld, InductiveInvariant, TypeOK
<1> QED BY <1>3, <1>4, <1>5 DEF InductiveInvariant, TypeOK, DataOK

(* A command that goes on enters a guarded label from a guarded one only. *)
LEMMA Continued ==
  ASSUME InductiveInvariant, NEW t \in Tasks, NEW label \in Labels,
         NEW l \in Locals, LocalsFor(label, l),
         Goto(t, label), task' = [task EXCEPT ![t] = l],
         label \in Guarded => pc[t] \in Guarded,
         DataOK', PoolStep(t), PoolFor(sessions', label, l)
  PROVE  InductiveInvariant'
<1>1. pc' = [pc EXCEPT ![t] = label] /\ spawnLock' = spawnLock
  BY DEF Goto
<1>2. LocalsSet' /\ pc' \in [Tasks -> Labels] /\ task' \in [Tasks -> Locals]
  BY <1>1, ControlKept
<1>3. PoolReserved' /\ SingleSharedSession'
  BY <1>1, PoolKept DEF DataOK
<1>4. LockHeld'
  BY <1>1 DEF InductiveInvariant, TypeOK, LockHeld
<1> QED BY <1>1, <1>2, <1>3, <1>4 DEF InductiveInvariant, TypeOK, DataOK

(* Continued, for a step that leaves the locals of the task alone. *)
LEMMA ContinuedSameLocals ==
  ASSUME InductiveInvariant, NEW t \in Tasks, NEW label \in Labels,
         LocalsFor(label, task[t]), Goto(t, label), UNCHANGED task,
         label \in Guarded => pc[t] \in Guarded,
         DataOK', PoolStep(t), PoolFor(sessions', label, task[t])
  PROVE  InductiveInvariant'
<1>1. task[t] \in Locals /\ task' = [task EXCEPT ![t] = task[t]]
  BY DEF InductiveInvariant, TypeOK
<1> QED BY <1>1, Continued
(* Each step of connect_workspace_core keeps the invariant. *)
LEMMA ConnectKeeps ==
  ASSUME InductiveInvariant, NEW t \in Tasks, Connect(t)
  PROVE  InductiveInvariant'
<1> USE DEF Labels, AtRest, Guarded, NeedsId, NeedsName, NeedsEntry,
            NeedsSession, NeedsList, ConnectOps, AddOps
<1>0. /\ task[t] \in Locals /\ LocalsFor(pc[t], task[t])
      /\ PoolFor(sessions, pc[t], task[t])
      /\ StoreTypeOK /\ GitTypeOK /\ PoolTypeOK /\ SingleSharedSession
  BY DEF InductiveInvariant, TypeOK, LocalsSet, PoolReserved
<1>1. CASE connect_workspace_precheck(t)
  <2>1. pc[t] = "precheck" /\ LocalsFor("precheck", task[t])
    BY <1>0, <1>1 DEF connect_workspace_precheck, At
  <2>2. DataOK' /\ PoolStep(t) /\ sessions' = sessions
    BY <1>1, Frame DEF connect_workspace_precheck, pool
  <2>3. CASE Return(t, "ok")
    BY <2>2, <2>3, Returned
  <2>4. CASE Goto(t, "resolve") /\ UNCHANGED task
    <3>1. /\ "resolve" \in Labels
          /\ LocalsFor("resolve", task[t])
          /\ PoolFor(sessions', "resolve", task[t])
      BY <1>0, <2>1, <2>2, <2>4 DEF LocalsFor, PoolFor
    <3> QED BY <2>1, <2>2, <2>4, <3>1, ContinuedSameLocals
  <2> QED BY <1>1, <2>3, <2>4 DEF connect_workspace_precheck
<1>2. CASE resolve_entry_and_parent(t)
  <2>1. pc[t] = "resolve" /\ LocalsFor("resolve", task[t])
    BY <1>0, <1>2 DEF resolve_entry_and_parent, At
  <2>2. DataOK' /\ PoolStep(t) /\ sessions' = sessions
    BY <1>2, Frame DEF resolve_entry_and_parent, pool
  <2>3. CASE Return(t, "err")
    BY <2>2, <2>3, Returned
  <2>4. CASE Goto(t, "lock") /\ UNCHANGED task
    <3>1. /\ "lock" \in Labels
          /\ LocalsFor("lock", task[t])
          /\ PoolFor(sessions', "lock", task[t])
      BY <1>0, <2>1, <2>2, <2>4 DEF LocalsFor, PoolFor
    <3> QED BY <2>1, <2>2, <2>4, <3>1, ContinuedSameLocals
  <2> QED BY <1>2, <2>3, <2>4 DEF resolve_entry_and_parent
<1>3. CASE connect_workspace_own(t)
  <2>1. pc[t] = "own" /\ LocalsFor("own", task[t])
    BY <1>0, <1>3 DEF connect_workspace_own, At
  <2>2. DataOK' /\ PoolStep(t) /\ sessions' = sessions
    BY <1>3, Frame DEF connect_workspace_own, pool
  <2>3. CASE connect_workspace_own(t)
    <3> DEFINE label == IF sessions[task[t].id] = None THEN "take" ELSE "ownAlive"
    <3> DEFINE l == [task[t] EXCEPT !.session = sessions[task[t].id]]
    <3>1. /\ l \in Locals /\ l.session = sessions[task[t].id]
          /\ l.op = task[t].op /\ l.id = task[t].id
      BY <1>0, <2>1, <2>3 DEF Locals, LocalsFor, PoolTypeOK
    <3>2. /\ label \in Labels /\ LocalsFor(label, l)
          /\ PoolFor(sessions', label, l)
      <4> HIDE DEF l
      <4> QED
        BY <1>0, <2>1, <2>2, <2>3, <3>1 DEF LocalsFor, PoolFor, PoolTypeOK,
           SingleSharedSession, Present
    <3>3. Goto(t, label) /\ task' = [task EXCEPT ![t] = l]
      BY <2>3 DEF connect_workspace_own
    <3> HIDE DEF l, label
    <3> QED BY <2>1, <2>2, <3>1, <3>2, <3>3, Continued
  <2> QED BY <1>3, <2>3 DEF connect_workspace_own
<1>4. CASE connect_workspace_own_alive(t)
  <2>1. pc[t] = "ownAlive" /\ LocalsFor("ownAlive", task[t])
    BY <1>0, <1>4 DEF connect_workspace_own_alive, At
  <2>2. DataOK' /\ PoolStep(t)
    BY <1>0, <1>4, <2>1 DEF connect_workspace_own_alive, DataOK, PoolStep,
       StoreTypeOK, GitTypeOK, PoolTypeOK, store, git, pool,
       remove_session_references
  <2>3. CASE Return(t, "ok")
    BY <2>2, <2>3, Returned
  <2>4. CASE Goto(t, "take") /\ task' = [task EXCEPT ![t].session = None]
    <3> DEFINE l == [task[t] EXCEPT !.session = None]
    <3>1. /\ l \in Locals /\ l.session = None /\ l.op = task[t].op
          /\ l.id = task[t].id
      BY <1>0 DEF Locals
    <3>2. /\ "take" \in Labels /\ LocalsFor("take", l)
          /\ PoolFor(sessions', "take", l)
      <4> HIDE DEF l
      <4> QED
        BY <1>0, <2>1, <2>2, <2>4, <3>1 DEF LocalsFor, PoolFor
    <3>3. Goto(t, "take") /\ task' = [task EXCEPT ![t] = l]
      BY <2>4
    <3> HIDE DEF l
    <3> QED BY <2>1, <2>2, <3>1, <3>2, <3>3, Continued
  <2> QED BY <1>4, <2>3, <2>4 DEF connect_workspace_own_alive
<1>5. CASE take_live_shared_session(t)
  <2>1. pc[t] = "take" /\ LocalsFor("take", task[t])
    BY <1>0, <1>5 DEF take_live_shared_session, At
  <2>2. DataOK' /\ PoolStep(t) /\ sessions' = sessions
    BY <1>5, Frame DEF take_live_shared_session, pool
  <2>3. CASE Goto(t, "spawn") /\ UNCHANGED task /\ Present(sessions) = {}
    <3>1. /\ "spawn" \in Labels
          /\ LocalsFor("spawn", task[t])
          /\ PoolFor(sessions', "spawn", task[t])
      BY <1>0, <2>1, <2>2, <2>3 DEF LocalsFor, PoolFor, Present
    <3> QED BY <2>1, <2>2, <2>3, <3>1, ContinuedSameLocals
  <2>4. CASE \E w \in Present(sessions) :
             /\ task' = [task EXCEPT ![t].session = sessions[w]]
             /\ Goto(t, "takeAlive")
    <3>1. PICK w \in Present(sessions) :
            /\ task' = [task EXCEPT ![t].session = sessions[w]]
            /\ Goto(t, "takeAlive")
      BY <2>4
    <3> DEFINE l == [task[t] EXCEPT !.session = sessions[w]]
    <3>2. /\ l \in Locals /\ l.session = sessions[w] /\ l.op = task[t].op
          /\ l.id = task[t].id /\ l.entry = task[t].entry
      BY <1>0, <2>1, <3>1 DEF Locals, LocalsFor, PoolTypeOK, Present
    <3>3. /\ "takeAlive" \in Labels /\ LocalsFor("takeAlive", l)
          /\ PoolFor(sessions', "takeAlive", l)
      <4> HIDE DEF l
      <4> QED
        BY <1>0, <2>1, <2>2, <3>1, <3>2 DEF LocalsFor, PoolFor, PoolTypeOK,
           Present, SingleSharedSession
    <3>4. Goto(t, "takeAlive") /\ task' = [task EXCEPT ![t] = l]
      BY <3>1
    <3> HIDE DEF l
    <3> QED BY <2>1, <2>2, <3>2, <3>3, <3>4, Continued
  <2> QED BY <1>5, <2>3, <2>4 DEF take_live_shared_session
<1>6. CASE take_live_shared_session_alive(t)
  <2>1. pc[t] = "takeAlive" /\ LocalsFor("takeAlive", task[t])
    BY <1>0, <1>6 DEF take_live_shared_session_alive, At
  <2>2. DataOK' /\ PoolStep(t)
    BY <1>0, <1>6, <2>1 DEF take_live_shared_session_alive, DataOK, PoolStep,
       StoreTypeOK, GitTypeOK, PoolTypeOK, store, git, pool,
       remove_session_references
  <2>3. CASE Goto(t, AfterSession(t)) /\ UNCHANGED <<sessions, task>>
    <3>1. /\ AfterSession(t) \in Labels
          /\ LocalsFor(AfterSession(t), task[t])
          /\ PoolFor(sessions', AfterSession(t), task[t])
      BY <1>0, <2>1, <2>2, <2>3 DEF LocalsFor, PoolFor, AfterSession
    <3> QED BY <2>1, <2>2, <2>3, <3>1, ContinuedSameLocals
  <2>4. CASE Goto(t, "take") /\ task' = [task EXCEPT ![t].session = None]
    <3> DEFINE l == [task[t] EXCEPT !.session = None]
    <3>1. /\ l \in Locals /\ l.session = None /\ l.op = task[t].op
          /\ l.id = task[t].id /\ l.entry = task[t].entry
      BY <1>0 DEF Locals
    <3>2. /\ "take" \in Labels /\ LocalsFor("take", l)
          /\ PoolFor(sessions', "take", l)
      <4> HIDE DEF l
      <4> QED
        BY <1>0, <2>1, <2>2, <2>4, <3>1 DEF LocalsFor, PoolFor
    <3>3. Goto(t, "take") /\ task' = [task EXCEPT ![t] = l]
      BY <2>4
    <3> HIDE DEF l
    <3> QED BY <2>1, <2>2, <3>1, <3>2, <3>3, Continued
  <2> QED BY <1>6, <2>3, <2>4 DEF take_live_shared_session_alive
<1>7. CASE spawn_session(t)
  <2>1. pc[t] = "spawn" /\ LocalsFor("spawn", task[t])
    BY <1>0, <1>7 DEF spawn_session, At
  <2>2. DataOK' /\ PoolStep(t) /\ sessions' = sessions
    <3>1. task[t].id \in Ids /\ task[t].args \in Args
      BY <1>0, <2>1, LocalsTypes DEF LocalsFor
    <3>2. /\ workspaces' = workspaces /\ stored' = stored
          /\ branch' = branch /\ issued' = issued /\ sessions' = sessions
          /\ disk' \in {disk, [disk EXCEPT ![task[t].id] = None]}
          /\ \/ UNCHANGED <<proc, args, registered>>
             \/ \E s \in Sessions :
                  /\ proc' = [proc EXCEPT ![s] = "alive"]
                  /\ args' = [args EXCEPT ![s] = task[t].args]
                  /\ registered' = [registered EXCEPT ![s] = {task[t].id}]
      BY <1>7 DEF spawn_session, remove_clone, store
    <3>3. StoreTypeOK'
      BY <1>0, <3>1, <3>2 DEF StoreTypeOK
    <3>4. GitTypeOK'
      BY <1>0, <3>1, <3>2 DEF GitTypeOK
    <3>5. PoolTypeOK'
      BY <1>0, <3>1, <3>2 DEF PoolTypeOK
    <3> QED BY <3>3, <3>4, <3>5, <3>2 DEF DataOK, PoolStep
  <2>3. CASE \E s \in Sessions :
             /\ task' = [task EXCEPT ![t].session = s, ![t].spawned = TRUE]
             /\ Goto(t, IF task[t].op = "args" THEN "swap"
                        ELSE AfterSession(t))
    <3>1. PICK s \in Sessions :
            /\ task' = [task EXCEPT ![t].session = s, ![t].spawned = TRUE]
            /\ Goto(t, IF task[t].op = "args" THEN "swap"
                       ELSE AfterSession(t))
      BY <2>3
    <3> DEFINE label == IF task[t].op = "args" THEN "swap" ELSE AfterSession(t)
    <3> DEFINE l1 == [task[t] EXCEPT !.session = s]
    <3>2. /\ l1 \in Locals /\ l1.session = s /\ l1.op = task[t].op
          /\ l1.id = task[t].id /\ l1.entry = task[t].entry
          /\ l1.old = task[t].old
      BY <1>0, <2>1, <3>1 DEF Locals, LocalsFor
    <3> HIDE DEF l1
    <3> DEFINE b == TRUE
    <3>3. b \in BOOLEAN
      OBVIOUS
    <3> HIDE DEF b
    <3> DEFINE l == [l1 EXCEPT !.spawned = b]
    <3>4. /\ l \in Locals /\ l.session = s /\ l.op = task[t].op
          /\ l.id = task[t].id /\ l.entry = task[t].entry
          /\ l.old = task[t].old
      BY <3>2, <3>3 DEF Locals
    <3>5. /\ label \in Labels /\ LocalsFor(label, l)
          /\ PoolFor(sessions', label, l)
      <4> HIDE DEF l
      <4> QED
        BY <1>0, <2>1, <2>2, <3>1, <3>4 DEF LocalsFor, PoolFor, AfterSession
    <3>6. Goto(t, label) /\ task' = [task EXCEPT ![t] = l]
      BY <3>1 DEF l1, b
    <3> HIDE DEF l, label
    <3> QED BY <2>1, <2>2, <3>4, <3>5, <3>6, Continued
  <2>4. CASE Return(t, "err")
    BY <2>2, <2>4, Returned
  <2> QED BY <1>7, <2>3, <2>4 DEF spawn_session
<1>8. CASE register_workspace_with_path(t)
  <2>1. pc[t] = "register" /\ LocalsFor("register", task[t])
    BY <1>0, <1>8 DEF register_workspace_with_path, At
  <2>2. DataOK' /\ PoolStep(t) /\ sessions' = sessions
    BY <1>0, <1>8, <2>1 DEF register_workspace_with_path, DataOK, PoolStep,
       StoreTypeOK, GitTypeOK, PoolTypeOK, store, git, pool, LocalsFor
  <2>3. CASE Goto(t, "insert") /\ UNCHANGED task
    <3>1. /\ "insert" \in Labels
          /\ LocalsFor("insert", task[t])
          /\ PoolFor(sessions', "insert", task[t])
      BY <1>0, <2>1, <2>2, <2>3 DEF LocalsFor, PoolFor
    <3> QED BY <2>1, <2>2, <2>3, <3>1, ContinuedSameLocals
  <2> QED BY <1>8, <2>3 DEF register_workspace_with_path
<1>9. CASE connect_workspace_insert(t)
  <2>1. pc[t] = "insert" /\ LocalsFor("insert", task[t])
    BY <1>0, <1>9 DEF connect_workspace_insert, At
  <2>2. DataOK' /\ PoolStep(t)
    BY <1>0, <1>9, <2>1 DEF connect_workspace_insert, DataOK, PoolStep,
       StoreTypeOK, GitTypeOK, PoolTypeOK, store, git, pool, PoolFor,
       LocalsFor, SingleSharedSession, Present
  <2> QED BY <1>9, <2>2, Returned DEF connect_workspace_insert
<1> QED BY <1>1, <1>2, <1>3, <1>4, <1>5, <1>6, <1>7, <1>8, <1>9 DEF Connect

(* Each step of the add_* functions keeps the invariant. *)
LEMMA AddWorkspaceKeeps ==
  ASSUME InductiveInvariant, NEW t \in Tasks, AddWorkspace(t)
  PROVE  InductiveInvariant'
<1> USE DEF Labels, AtRest, Guarded, NeedsId, NeedsName, NeedsEntry,
            NeedsSession, NeedsList, ConnectOps, AddOps
<1>0. /\ task[t] \in Locals /\ LocalsFor(pc[t], task[t])
      /\ PoolFor(sessions, pc[t], task[t])
      /\ StoreTypeOK /\ GitTypeOK /\ PoolTypeOK /\ SingleSharedSession
  BY DEF InductiveInvariant, TypeOK, LocalsSet, PoolReserved
<1>1. CASE add_workspace_prepare(t)
  <2>1. pc[t] = "prepare" /\ LocalsFor("prepare", task[t])
    BY <1>0, <1>1 DEF add_workspace_prepare, At
  <2>2. DataOK' /\ PoolStep(t) /\ sessions' = sessions
    <3>1. task[t].name \in Names
      BY <1>0, <2>1 DEF LocalsFor
    <3>2. /\ workspaces' = workspaces /\ stored' = stored
          /\ sessions' = sessions /\ proc' = proc
          /\ registered' = registered /\ args' = args
          /\ \/ UNCHANGED git
             \/ \E w \in Ids :
                  /\ issued' = issued \cup {w}
                  /\ disk' = [disk EXCEPT ![w] = task[t].name]
                  /\ branch' = [branch EXCEPT ![w] = task[t].name]
      BY <1>1 DEF add_workspace_prepare, MintEntry, store, pool
    <3>3. StoreTypeOK'
      BY <1>0, <3>1, <3>2 DEF StoreTypeOK
    <3>4. GitTypeOK'
      BY <1>0, <3>1, <3>2 DEF GitTypeOK, git
    <3>5. PoolTypeOK'
      BY <1>0, <3>1, <3>2 DEF PoolTypeOK
    <3> QED BY <3>3, <3>4, <3>5, <3>2 DEF DataOK, PoolStep
  <2>3. CASE Return(t, "err")
    BY <2>2, <2>3, Returned
  <2>4. CASE MintEntry(t, None, DefaultScript) /\ Goto(t, "lock")
    <3>1. PICK w \in Ids :
            task' = [task EXCEPT
                ![t].id = w,
                ![t].entry = [parent |-> None, script |-> DefaultScript,
                              branch |-> task[t].name, path |-> task[t].name]]
      BY <2>4 DEF MintEntry
    <3> DEFINE e == [parent |-> None, script |-> DefaultScript,
                     branch |-> task[t].name, path |-> task[t].name]
    <3>2. e \in Entry
      BY <1>0, <2>1, <2>4, <3>1, ConstantsAssumption DEF Entry, LocalsFor
    <3>3. w \in Ids
      BY <1>0, <2>1, <2>4, <3>1
    <3> HIDE DEF e
    <3> DEFINE l1 == [task[t] EXCEPT !.id = w]
    <3>4. /\ l1 \in Locals /\ l1.id = w /\ l1.entry = task[t].entry
          /\ l1.op = task[t].op
      BY <1>0, <3>2, <3>3 DEF Locals
    <3> HIDE DEF l1
    <3> DEFINE l == [l1 EXCEPT !.entry = e]
    <3>5. /\ l \in Locals /\ l.id = w /\ l.entry = e /\ l.op = task[t].op
      BY <1>0, <3>2, <3>3, <3>4 DEF Locals
    <3>6. /\ "lock" \in Labels /\ LocalsFor("lock", l)
          /\ PoolFor(sessions', "lock", l)
      <4> HIDE DEF l
      <4> QED
        BY <1>0, <2>1, <2>2, <2>4, <3>1, <3>2, <3>3, <3>5 DEF LocalsFor,
           PoolFor
    <3>7. Goto(t, "lock") /\ task' = [task EXCEPT ![t] = l]
      BY <2>4, <3>1 DEF l1, e
    <3> HIDE DEF l
    <3> QED BY <2>1, <2>2, <3>5, <3>6, <3>7, Continued
  <2> QED BY <1>1, <2>3, <2>4 DEF add_workspace_prepare
<1>2. CASE add_worktree_lookup(t)
  <2>1. pc[t] = "lookup" /\ LocalsFor("lookup", task[t])
    BY <1>0, <1>2 DEF add_worktree_lookup, At
  <2>2. DataOK' /\ PoolStep(t) /\ sessions' = sessions
    BY <1>2, Frame DEF add_worktree_lookup, pool
  <2>3. CASE Return(t, "err")
    BY <2>2, <2>3, Returned
  <2>4. CASE /\ IsMain(workspaces[task[t].id])
             /\ task' = [task EXCEPT ![t].entry = workspaces[task[t].id]]
             /\ task[t].op = "worktree"
             /\ Goto(t, "gitAdd")
    <3> DEFINE l == [task[t] EXCEPT !.entry = workspaces[task[t].id]]
    <3>1. /\ l \in Locals /\ l.entry = workspaces[task[t].id]
          /\ l.op = task[t].op /\ l.id = task[t].id /\ l.name = task[t].name
      BY <1>0, <2>1, <2>4 DEF Locals, LocalsFor, StoreTypeOK, Stores
    <3>2. /\ "gitAdd" \in Labels /\ LocalsFor("gitAdd", l)
          /\ PoolFor(sessions', "gitAdd", l)
      <4> HIDE DEF l
      <4> QED
        BY <1>0, <2>1, <2>2, <2>4, <3>1 DEF LocalsFor, PoolFor, StoreTypeOK,
           Stores, IsMain
    <3>3. Goto(t, "gitAdd") /\ task' = [task EXCEPT ![t] = l]
      BY <2>4
    <3> HIDE DEF l
    <3> QED BY <2>1, <2>2, <3>1, <3>2, <3>3, Continued
  <2> QED BY <1>2, <2>3, <2>4 DEF add_worktree_lookup
<1>3. CASE add_worktree_git(t)
  <2>1. pc[t] = "gitAdd" /\ LocalsFor("gitAdd", task[t])
    BY <1>0, <1>3 DEF add_worktree_git, At
  <2>2. DataOK' /\ PoolStep(t) /\ sessions' = sessions
    <3>1. task[t].name \in Names
      BY <1>0, <2>1 DEF LocalsFor
    <3>2. /\ workspaces' = workspaces /\ stored' = stored
          /\ sessions' = sessions /\ proc' = proc
          /\ registered' = registered /\ args' = args
          /\ \/ UNCHANGED git
             \/ \E w \in Ids :
                  /\ issued' = issued \cup {w}
                  /\ disk' = [disk EXCEPT ![w] = task[t].name]
                  /\ branch' = [branch EXCEPT ![w] = task[t].name]
      BY <1>3 DEF add_worktree_git, MintEntry, store, pool
    <3>3. StoreTypeOK'
      BY <1>0, <3>1, <3>2 DEF StoreTypeOK
    <3>4. GitTypeOK'
      BY <1>0, <3>1, <3>2 DEF GitTypeOK, git
    <3>5. PoolTypeOK'
      BY <1>0, <3>1, <3>2 DEF PoolTypeOK
    <3> QED BY <3>3, <3>4, <3>5, <3>2 DEF DataOK, PoolStep
  <2>3. CASE Return(t, "err")
    BY <2>2, <2>3, Returned
  <2>4. CASE MintEntry(t, task[t].id, task[t].entry.script) /\ Goto(t, "lock")
    <3>1. PICK w \in Ids :
            task' = [task EXCEPT
                ![t].id = w,
                ![t].entry = [parent |-> task[t].id, script |-> task[t].entry.script,
                              branch |-> task[t].name, path |-> task[t].name]]
      BY <2>4 DEF MintEntry
    <3> DEFINE e == [parent |-> task[t].id, script |-> task[t].entry.script,
                     branch |-> task[t].name, path |-> task[t].name]
    <3>2. e \in Entry
      BY <1>0, <2>1, <2>4, <3>1, ConstantsAssumption DEF Entry, LocalsFor
    <3>3. w \in Ids
      BY <1>0, <2>1, <2>4, <3>1
    <3> HIDE DEF e
    <3> DEFINE l1 == [task[t] EXCEPT !.id = w]
    <3>4. /\ l1 \in Locals /\ l1.id = w /\ l1.entry = task[t].entry
          /\ l1.op = task[t].op
      BY <1>0, <3>2, <3>3 DEF Locals
    <3> HIDE DEF l1
    <3> DEFINE l == [l1 EXCEPT !.entry = e]
    <3>5. /\ l \in Locals /\ l.id = w /\ l.entry = e /\ l.op = task[t].op
      BY <1>0, <3>2, <3>3, <3>4 DEF Locals
    <3>6. /\ "lock" \in Labels /\ LocalsFor("lock", l)
          /\ PoolFor(sessions', "lock", l)
      <4> HIDE DEF l
      <4> QED
        BY <1>0, <2>1, <2>2, <2>4, <3>1, <3>2, <3>3, <3>5 DEF LocalsFor,
           PoolFor
    <3>7. Goto(t, "lock") /\ task' = [task EXCEPT ![t] = l]
      BY <2>4, <3>1 DEF l1, e
    <3> HIDE DEF l
    <3> QED BY <2>1, <2>2, <3>5, <3>6, <3>7, Continued
  <2> QED BY <1>3, <2>3, <2>4 DEF add_worktree_git
<1>4. CASE add_workspace_persist(t)
  <2>1. pc[t] = "persist" /\ LocalsFor("persist", task[t])
    BY <1>0, <1>4 DEF add_workspace_persist, At
  <2>2. DataOK' /\ PoolStep(t) /\ sessions' = sessions
    <3>1. task[t].id \in Ids /\ task[t].entry \in Entry
      BY <1>0, <2>1 DEF LocalsFor
    <3>2. /\ workspaces' = [workspaces EXCEPT ![task[t].id] = task[t].entry]
          /\ stored' \in {workspaces', stored, Torn}
          /\ disk' = disk /\ branch' = branch /\ issued' = issued
          /\ sessions' = sessions /\ proc' = proc
          /\ registered' = registered /\ args' = args
      BY <1>4 DEF add_workspace_persist, write_workspaces,
         write_workspaces_fails, git, pool
    <3>3. StoreTypeOK'
      BY <1>0, <3>1, <3>2 DEF StoreTypeOK, Stores
    <3>4. GitTypeOK'
      BY <1>0, <3>1, <3>2 DEF GitTypeOK
    <3>5. PoolTypeOK'
      BY <1>0, <3>1, <3>2 DEF PoolTypeOK
    <3> QED BY <3>3, <3>4, <3>5, <3>2 DEF DataOK, PoolStep
  <2>3. CASE Goto(t, "register") /\ UNCHANGED task
    <3>1. /\ "register" \in Labels
          /\ LocalsFor("register", task[t])
          /\ PoolFor(sessions', "register", task[t])
      BY <1>0, <2>1, <2>2, <2>3 DEF LocalsFor, PoolFor
    <3> QED BY <2>1, <2>2, <2>3, <3>1, ContinuedSameLocals
  <2>4. CASE Return(t, "err")
    BY <2>2, <2>4, Returned
  <2>5. CASE Goto(t, "undo") /\ UNCHANGED task
    <3>1. /\ "undo" \in Labels
          /\ LocalsFor("undo", task[t])
          /\ PoolFor(sessions', "undo", task[t])
      BY <1>0, <2>1, <2>2, <2>5 DEF LocalsFor, PoolFor
    <3> QED BY <2>1, <2>2, <2>5, <3>1, ContinuedSameLocals
  <2> QED BY <1>4, <2>3, <2>4, <2>5 DEF add_workspace_persist
<1>5. CASE add_workspace_undo(t)
  <2>1. pc[t] = "undo" /\ LocalsFor("undo", task[t])
    BY <1>0, <1>5 DEF add_workspace_undo, At
  <2>2. DataOK' /\ PoolStep(t) /\ sessions' = sessions
    <3>2. /\ workspaces' = [workspaces EXCEPT ![task[t].id] = None]
          /\ stored' = stored
          /\ disk' = disk /\ branch' = branch /\ issued' = issued
          /\ sessions' = sessions /\ proc' = proc
          /\ registered' = registered /\ args' = args
      BY <1>5 DEF add_workspace_undo, git, pool
    <3>3. StoreTypeOK'
      BY <1>0, <3>2 DEF StoreTypeOK, Stores
    <3>4. GitTypeOK'
      BY <1>0, <3>2 DEF GitTypeOK
    <3>5. PoolTypeOK'
      BY <1>0, <3>2 DEF PoolTypeOK
    <3> QED BY <3>3, <3>4, <3>5, <3>2 DEF DataOK, PoolStep
  <2>3. CASE Goto(t, "undoKill") /\ UNCHANGED task
    <3>1. /\ "undoKill" \in Labels
          /\ LocalsFor("undoKill", task[t])
          /\ PoolFor(sessions', "undoKill", task[t])
      BY <1>0, <2>1, <2>2, <2>3 DEF LocalsFor, PoolFor
    <3> QED BY <2>1, <2>2, <2>3, <3>1, ContinuedSameLocals
  <2> QED BY <1>5, <2>3 DEF add_workspace_undo
<1>6. CASE add_workspace_undo_kill(t)
  <2>1. pc[t] = "undoKill" /\ LocalsFor("undoKill", task[t])
    BY <1>0, <1>6 DEF add_workspace_undo_kill, At
  <2>2. DataOK' /\ PoolStep(t) /\ sessions' = sessions
    <3>2. /\ workspaces' = workspaces /\ stored' = stored
          /\ branch' = branch /\ issued' = issued
          /\ disk' \in {disk, [disk EXCEPT ![task[t].id] = None]}
          /\ sessions' = sessions
          /\ registered' = registered /\ args' = args
          /\ \/ proc' = proc
             \/ kill_child_process_tree(task[t].session)
      BY <1>6 DEF add_workspace_undo_kill, remove_clone, store
    <3>3. StoreTypeOK'
      BY <1>0, <3>2 DEF StoreTypeOK
    <3>4. GitTypeOK'
      BY <1>0, <3>2 DEF GitTypeOK
    <3>5. PoolTypeOK'
      BY <1>0, <3>2 DEF PoolTypeOK, kill_child_process_tree
    <3> QED BY <3>3, <3>4, <3>5, <3>2 DEF DataOK, PoolStep
  <2> QED BY <1>6, <2>2, Returned DEF add_workspace_undo_kill
<1> QED BY <1>1, <1>2, <1>3, <1>4, <1>5, <1>6 DEF AddWorkspace

(* Each step of set_workspace_runtime_codex_args_core keeps the invariant. *)
LEMMA RuntimeArgsKeeps ==
  ASSUME InductiveInvariant, NEW t \in Tasks, RuntimeArgs(t)
  PROVE  InductiveInvariant'
<1> USE DEF Labels, AtRest, Guarded, NeedsId, NeedsName, NeedsEntry,
            NeedsSession, NeedsList, ConnectOps, AddOps
<1>0. /\ task[t] \in Locals /\ LocalsFor(pc[t], task[t])
      /\ PoolFor(sessions, pc[t], task[t])
      /\ StoreTypeOK /\ GitTypeOK /\ PoolTypeOK /\ SingleSharedSession
  BY DEF InductiveInvariant, TypeOK, LocalsSet, PoolReserved
<1>1. CASE runtime_codex_args_current(t)
  <2>1. pc[t] = "current" /\ LocalsFor("current", task[t])
    BY <1>0, <1>1 DEF runtime_codex_args_current, At
  <2>2. DataOK' /\ PoolStep(t) /\ sessions' = sessions
    BY <1>1, Frame DEF runtime_codex_args_current, pool
  <2>3. CASE Return(t, "ok")
    BY <2>2, <2>3, Returned
  <2>4. CASE \E w \in Present(sessions) :
             /\ task' = [task EXCEPT ![t].old = sessions[w]]
             /\ Goto(t, "spawn")
    <3>1. PICK w \in Present(sessions) :
            /\ task' = [task EXCEPT ![t].old = sessions[w]]
            /\ Goto(t, "spawn")
      BY <2>4
    <3> DEFINE l == [task[t] EXCEPT !.old = sessions[w]]
    <3>2. /\ l \in Locals /\ l.old = sessions[w] /\ l.op = task[t].op
          /\ l.id = task[t].id
      BY <1>0, <2>1, <3>1 DEF Locals, LocalsFor, PoolTypeOK, Present
    <3>3. /\ "spawn" \in Labels /\ LocalsFor("spawn", l)
          /\ PoolFor(sessions', "spawn", l)
      <4> HIDE DEF l
      <4> QED
        BY <1>0, <2>1, <2>2, <3>1, <3>2 DEF LocalsFor, PoolFor, PoolTypeOK,
           Present
    <3>4. Goto(t, "spawn") /\ task' = [task EXCEPT ![t] = l]
      BY <3>1
    <3> HIDE DEF l
    <3> QED BY <2>1, <2>2, <3>2, <3>3, <3>4, Continued
  <2> QED BY <1>1, <2>3, <2>4 DEF runtime_codex_args_current
<1>2. CASE runtime_codex_args_swap(t)
  <2>1. pc[t] = "swap" /\ LocalsFor("swap", task[t])
    BY <1>0, <1>2 DEF runtime_codex_args_swap, At
  <2>2. DataOK' /\ PoolStep(t)
    <3>1. task[t].session \in Sessions
      BY <1>0, <2>1 DEF LocalsFor
    <3>2. /\ workspaces' = workspaces /\ stored' = stored
          /\ disk' = disk /\ branch' = branch /\ issued' = issued
          /\ sessions' = [w \in Ids |-> IF sessions[w] = None THEN None
                                         ELSE task[t].session]
          /\ proc' = proc
          /\ registered' = registered /\ args' = args
      BY <1>2 DEF runtime_codex_args_swap, store, git
    <3>3. StoreTypeOK'
      BY <1>0, <3>1, <3>2 DEF StoreTypeOK
    <3>4. GitTypeOK'
      BY <1>0, <3>1, <3>2 DEF GitTypeOK
    <3>5. PoolTypeOK'
      BY <1>0, <3>1, <3>2 DEF PoolTypeOK
    <3>6. PoolStep(t)
      BY <1>0, <3>1, <3>2, <2>1 DEF PoolStep, SingleSharedSession, Present
    <3> QED BY <3>3, <3>4, <3>5, <3>6 DEF DataOK
  <2>3. CASE /\ Goto(t, "registerAll")
             /\ task' = [task EXCEPT ![t].todo = Present(sessions)]
    <3> DEFINE l == [task[t] EXCEPT !.todo = Present(sessions)]
    <3>1. /\ l \in Locals /\ l.todo = Present(sessions) /\ l.op = task[t].op
          /\ l.session = task[t].session /\ l.old = task[t].old
      BY <1>0, <2>1, <2>3 DEF Locals, LocalsFor, Present
    <3>2. /\ "registerAll" \in Labels /\ LocalsFor("registerAll", l)
          /\ PoolFor(sessions', "registerAll", l)
      <4> HIDE DEF l
      <4> QED
        BY <1>0, <2>1, <2>2, <2>3, <3>1 DEF LocalsFor, PoolFor
    <3>3. Goto(t, "registerAll") /\ task' = [task EXCEPT ![t] = l]
      BY <2>3
    <3> HIDE DEF l
    <3> QED BY <2>1, <2>2, <3>1, <3>2, <3>3, Continued
  <2> QED BY <1>2, <2>3 DEF runtime_codex_args_swap
<1>3. CASE runtime_codex_args_register(t)
  <2>1. pc[t] = "registerAll" /\ LocalsFor("registerAll", task[t])
    BY <1>0, <1>3 DEF runtime_codex_args_register, At
  <2>2. DataOK' /\ PoolStep(t) /\ sessions' = sessions
    <3>1. task[t].session \in Sessions /\ task[t].todo \in SUBSET Ids
      BY <1>0, <2>1, LocalsTypes DEF LocalsFor
    <3>2. /\ workspaces' = workspaces /\ stored' = stored
          /\ disk' = disk /\ branch' = branch /\ issued' = issued
          /\ sessions' = sessions /\ proc' = proc
          /\ args' = args
          /\ \/ registered' = registered
             \/ \E w \in task[t].todo :
                  registered' = [registered EXCEPT ![task[t].session] = @ \cup {w}]
      BY <1>3 DEF runtime_codex_args_register, store, git
    <3>3. StoreTypeOK'
      BY <1>0, <3>1, <3>2 DEF StoreTypeOK
    <3>4. GitTypeOK'
      BY <1>0, <3>1, <3>2 DEF GitTypeOK
    <3>5. PoolTypeOK'
      BY <1>0, <3>1, <3>2 DEF PoolTypeOK
    <3> QED BY <3>3, <3>4, <3>5, <3>2 DEF DataOK, PoolStep
  <2>3. CASE \E w \in task[t].todo :
             /\ task' = [task EXCEPT ![t].todo = @ \ {w}]
             /\ Goto(t, "registerAll")
    <3>1. PICK w \in task[t].todo :
            /\ task' = [task EXCEPT ![t].todo = @ \ {w}]
            /\ Goto(t, "registerAll")
      BY <2>3
    <3> DEFINE l == [task[t] EXCEPT !.todo = task[t].todo \ {w}]
    <3>2. /\ l \in Locals /\ l.op = task[t].op /\ l.session = task[t].session
          /\ l.old = task[t].old
      BY <1>0, <2>1, <3>1 DEF Locals, LocalsFor
    <3>3. /\ "registerAll" \in Labels /\ LocalsFor("registerAll", l)
          /\ PoolFor(sessions', "registerAll", l)
      <4> HIDE DEF l
      <4> QED
        BY <1>0, <2>1, <2>2, <3>1, <3>2 DEF LocalsFor, PoolFor
    <3>4. Goto(t, "registerAll") /\ task' = [task EXCEPT ![t] = l]
      BY <3>1
    <3> HIDE DEF l
    <3> QED BY <2>1, <2>2, <3>2, <3>3, <3>4, Continued
  <2>4. CASE Goto(t, "killOld") /\ UNCHANGED task
    <3>1. /\ "killOld" \in Labels
          /\ LocalsFor("killOld", task[t])
          /\ PoolFor(sessions', "killOld", task[t])
      BY <1>0, <2>1, <2>2, <2>4 DEF LocalsFor, PoolFor
    <3> QED BY <2>1, <2>2, <2>4, <3>1, ContinuedSameLocals
  <2> QED BY <1>3, <2>3, <2>4 DEF runtime_codex_args_register
<1>4. CASE runtime_codex_args_kill_old(t)
  <2>1. pc[t] = "killOld" /\ LocalsFor("killOld", task[t])
    BY <1>0, <1>4 DEF runtime_codex_args_kill_old, At
  <2>2. DataOK' /\ PoolStep(t) /\ sessions' = sessions
    <3>2. /\ workspaces' = workspaces /\ stored' = stored
          /\ disk' = disk /\ branch' = branch /\ issued' = issued
          /\ sessions' = sessions
          /\ registered' = registered /\ args' = args
          /\ kill_child_process_tree(task[t].old)
      BY <1>4 DEF runtime_codex_args_kill_old, store, git
    <3>3. StoreTypeOK'
      BY <1>0, <3>2 DEF StoreTypeOK
    <3>4. GitTypeOK'
      BY <1>0, <3>2 DEF GitTypeOK
    <3>5. PoolTypeOK'
      BY <1>0, <3>2 DEF PoolTypeOK, kill_child_process_tree
    <3> QED BY <3>3, <3>4, <3>5, <3>2 DEF DataOK, PoolStep
  <2> QED BY <1>4, <2>2, Returned DEF runtime_codex_args_kill_old
<1> QED BY <1>1, <1>2, <1>3, <1>4 DEF RuntimeArgs

(* Each step of remove_workspace_core, remove_worktree_core and
   kill_session_by_id keeps the invariant. *)
LEMMA RemoveWorkspaceKeeps ==
  ASSUME InductiveInvariant, NEW t \in Tasks, RemoveWorkspace(t)
  PROVE  InductiveInvariant'
<1> USE DEF Labels, AtRest, Guarded, NeedsId, NeedsName, NeedsEntry,
            NeedsSession, NeedsList, ConnectOps, AddOps
<1>0. /\ task[t] \in Locals /\ LocalsFor(pc[t], task[t])
      /\ PoolFor(sessions, pc[t], task[t])
      /\ StoreTypeOK /\ GitTypeOK /\ PoolTypeOK /\ SingleSharedSession
  BY DEF InductiveInvariant, TypeOK, LocalsSet, PoolReserved
<1>1. CASE remove_workspace_lookup(t)
  <2>1. pc[t] = "lookup" /\ LocalsFor("lookup", task[t])
    BY <1>0, <1>1 DEF remove_workspace_lookup, At
  <2>2. DataOK' /\ PoolStep(t) /\ sessions' = sessions
    BY <1>1, Frame DEF remove_workspace_lookup, pool
  <2>3. CASE Return(t, "err")
    BY <2>2, <2>3, Returned
  <2>4. CASE /\ task' = [task EXCEPT
                  ![t].todo = Children(workspaces, task[t].id),
                  ![t].list = Only(workspaces, Children(workspaces, task[t].id))]
             /\ Goto(t, "child")
    <3> DEFINE l1 == [task[t] EXCEPT !.todo = Children(workspaces, task[t].id)]
    <3>1. /\ l1 \in Locals /\ l1.list = task[t].list /\ l1.id = task[t].id
      BY <1>0, <2>1, <2>4 DEF Locals, LocalsFor, StoreTypeOK, Stores, Only,
         Children
    <3> HIDE DEF l1
    <3> DEFINE l == [l1 EXCEPT !.list = Only(workspaces, Children(workspaces, task[t].id))]
    <3>2. /\ l \in Locals
          /\ l.list = Only(workspaces, Children(workspaces, task[t].id))
          /\ l.id = task[t].id
      BY <1>0, <2>1, <2>4, <3>1 DEF Locals, LocalsFor, StoreTypeOK, Stores,
         Only, Children
    <3>3. /\ "child" \in Labels /\ LocalsFor("child", l)
          /\ PoolFor(sessions', "child", l)
      <4> HIDE DEF l
      <4> QED
        BY <1>0, <2>1, <2>2, <2>4, <3>2 DEF LocalsFor, PoolFor, StoreTypeOK,
           Stores, Only
    <3>4. Goto(t, "child") /\ task' = [task EXCEPT ![t] = l]
      BY <2>4 DEF l1
    <3> HIDE DEF l
    <3> QED BY <2>1, <2>2, <3>2, <3>3, <3>4, Continued
  <2> QED BY <1>1, <2>3, <2>4 DEF remove_workspace_lookup
<1>2. CASE remove_workspace_child(t)
  <2>1. pc[t] = "child" /\ LocalsFor("child", task[t])
    BY <1>0, <1>2 DEF remove_workspace_child, At
  <2>2. DataOK' /\ PoolStep(t) /\ sessions' = sessions
    BY <1>2, Frame DEF remove_workspace_child, pool
  <2>3. CASE \E c \in task[t].todo :
             /\ task' = [task EXCEPT ![t].todo = @ \ {c}, ![t].cur = c]
             /\ Goto(t, "drop")
    <3>1. PICK c \in task[t].todo :
            /\ task' = [task EXCEPT ![t].todo = @ \ {c}, ![t].cur = c]
            /\ Goto(t, "drop")
      BY <2>3
    <3>2. c \in Ids /\ task[t].todo \ {c} \in SUBSET Ids
      BY <1>0, <2>1, <3>1, LocalsTypes
    <3> DEFINE l1 == [task[t] EXCEPT !.todo = task[t].todo \ {c}]
    <3>3. /\ l1 \in Locals /\ l1.cur = task[t].cur /\ l1.id = task[t].id
          /\ l1.list = task[t].list
      BY <1>0, <3>2 DEF Locals
    <3> HIDE DEF l1
    <3> DEFINE l == [l1 EXCEPT !.cur = c]
    <3>4. /\ l \in Locals /\ l.cur = c /\ l.id = task[t].id
          /\ l.list = task[t].list
      BY <1>0, <3>2, <3>3 DEF Locals
    <3>5. /\ "drop" \in Labels /\ LocalsFor("drop", l)
          /\ PoolFor(sessions', "drop", l)
      <4> HIDE DEF l
      <4> QED
        BY <1>0, <2>1, <2>2, <3>1, <3>2, <3>4 DEF LocalsFor, PoolFor
    <3>6. Goto(t, "drop") /\ task' = [task EXCEPT ![t] = l]
      BY <3>1 DEF l1
    <3> HIDE DEF l
    <3> QED BY <2>1, <2>2, <3>4, <3>5, <3>6, Continued
  <2>4. CASE Goto(t, "forget") /\ UNCHANGED task
    <3>1. /\ "forget" \in Labels
          /\ LocalsFor("forget", task[t])
          /\ PoolFor(sessions', "forget", task[t])
      BY <1>0, <2>1, <2>2, <2>4 DEF LocalsFor, PoolFor
    <3> QED BY <2>1, <2>2, <2>4, <3>1, ContinuedSameLocals
  <2>5. CASE /\ task' = [task EXCEPT ![t].cur = task[t].id,
                                      ![t].gone = @ \cup {task[t].id}]
             /\ Goto(t, "drop")
    <3> DEFINE l1 == [task[t] EXCEPT !.cur = task[t].id]
    <3>1. /\ l1 \in Locals /\ l1.cur = task[t].id /\ l1.id = task[t].id
          /\ l1.list = task[t].list
      BY <1>0, <2>1, <2>5 DEF Locals, LocalsFor
    <3> HIDE DEF l1
    <3> DEFINE l == [l1 EXCEPT !.gone = task[t].gone \cup {task[t].id}]
    <3>2. /\ l \in Locals /\ l.cur = task[t].id /\ l.id = task[t].id
          /\ l.list = task[t].list
      BY <1>0, <2>1, <2>5, <3>1 DEF Locals, LocalsFor
    <3>3. /\ "drop" \in Labels /\ LocalsFor("drop", l)
          /\ PoolFor(sessions', "drop", l)
      <4> HIDE DEF l
      <4> QED
        BY <1>0, <2>1, <2>2, <2>5, <3>2 DEF LocalsFor, PoolFor
    <3>4. Goto(t, "drop") /\ task' = [task EXCEPT ![t] = l]
      BY <2>5 DEF l1
    <3> HIDE DEF l
    <3> QED BY <2>1, <2>2, <3>2, <3>3, <3>4, Continued
  <2> QED BY <1>2, <2>3, <2>4, <2>5 DEF remove_workspace_child
<1>3. CASE remove_worktree_lookup(t)
  <2>1. pc[t] = "lookup" /\ LocalsFor("lookup", task[t])
    BY <1>0, <1>3 DEF remove_worktree_lookup, At
  <2>2. DataOK' /\ PoolStep(t) /\ sessions' = sessions
    BY <1>3, Frame DEF remove_worktree_lookup, pool
  <2>3. CASE Return(t, "err")
    BY <2>2, <2>3, Returned
  <2>4. CASE /\ task' = [task EXCEPT
                  ![t].list = Only(workspaces, {task[t].id}),
                  ![t].cur = task[t].id, ![t].gone = {task[t].id}]
             /\ Goto(t, "drop")
    <3>1. /\ task[t].id \in Ids /\ {task[t].id} \in SUBSET Ids
          /\ Only(workspaces, {task[t].id}) \in Stores
      BY <1>0, <2>1, <2>4 DEF LocalsFor, StoreTypeOK, Stores, Only
    <3> DEFINE l1 == [task[t] EXCEPT !.list = Only(workspaces, {task[t].id})]
    <3>2. /\ l1 \in Locals /\ l1.list = Only(workspaces, {task[t].id})
          /\ l1.cur = task[t].cur /\ l1.id = task[t].id
      BY <1>0, <3>1 DEF Locals
    <3> HIDE DEF l1
    <3> DEFINE l2 == [l1 EXCEPT !.cur = task[t].id]
    <3>3. /\ l2 \in Locals /\ l2.cur = task[t].id
          /\ l2.list = Only(workspaces, {task[t].id}) /\ l2.id = task[t].id
      BY <1>0, <3>1, <3>2 DEF Locals
    <3> HIDE DEF l2
    <3> DEFINE l == [l2 EXCEPT !.gone = {task[t].id}]
    <3>4. /\ l \in Locals /\ l.cur = task[t].id
          /\ l.list = Only(workspaces, {task[t].id}) /\ l.id = task[t].id
      BY <1>0, <3>1, <3>3 DEF Locals
    <3>5. /\ "drop" \in Labels /\ LocalsFor("drop", l)
          /\ PoolFor(sessions', "drop", l)
      <4> HIDE DEF l
      <4> QED
        BY <1>0, <2>1, <2>2, <2>4, <3>1, <3>4 DEF LocalsFor, PoolFor
    <3>6. Goto(t, "drop") /\ task' = [task EXCEPT ![t] = l]
      BY <2>4 DEF l1, l2
    <3> HIDE DEF l
    <3> QED BY <2>1, <2>2, <3>4, <3>5, <3>6, Continued
  <2> QED BY <1>3, <2>3, <2>4 DEF remove_worktree_lookup
<1>4. CASE kill_session_by_id_remove(t)
  <2>1. pc[t] = "drop" /\ LocalsFor("drop", task[t])
    BY <1>0, <1>4 DEF kill_session_by_id_remove, At
  <2>2. DataOK' /\ PoolStep(t)
    <3>2. /\ workspaces' = workspaces /\ stored' = stored
          /\ disk' = disk /\ branch' = branch /\ issued' = issued
          /\ sessions' \in {sessions, [sessions EXCEPT ![task[t].cur] = None]}
          /\ proc' = proc
          /\ registered' = registered /\ args' = args
      BY <1>4 DEF kill_session_by_id_remove, store, git
    <3>3. StoreTypeOK'
      BY <1>0, <3>2 DEF StoreTypeOK
    <3>4. GitTypeOK'
      BY <1>0, <3>2 DEF GitTypeOK
    <3>5. PoolTypeOK'
      BY <1>0, <3>2 DEF PoolTypeOK
    <3>6. PoolStep(t)
      BY <1>0, <3>2, <2>1 DEF PoolStep, PoolTypeOK
    <3> QED BY <3>3, <3>4, <3>5, <3>6 DEF DataOK
  <2>3. CASE Goto(t, AfterKill(t)) /\ UNCHANGED <<sessions, task>>
    <3>1. /\ AfterKill(t) \in Labels \ Guarded
          /\ LocalsFor(AfterKill(t), task[t])
          /\ PoolFor(sessions', AfterKill(t), task[t])
      BY <1>0, <2>1, <2>2, <2>3 DEF LocalsFor, PoolFor, AfterKill
    <3> QED BY <2>1, <2>2, <2>3, <3>1, ContinuedSameLocals
  <2>4. CASE /\ sessions[task[t].cur] # None
             /\ task' = [task EXCEPT ![t].session = sessions[task[t].cur],
                                  ![t].unshared = ~StillReferenced(task[t].cur)]
             /\ Goto(t, "unregister")
    <3> DEFINE s == sessions[task[t].cur]
    <3> DEFINE b == ~StillReferenced(task[t].cur)
    <3>1. s \in Sessions
      BY <1>0, <2>1, <2>4 DEF LocalsFor, PoolTypeOK
    <3>2. b \in BOOLEAN
      OBVIOUS
    <3> HIDE DEF s
    <3> HIDE DEF b
    <3> DEFINE l1 == [task[t] EXCEPT !.session = s]
    <3>3. /\ l1 \in Locals /\ l1.session = s /\ l1.id = task[t].id
          /\ l1.cur = task[t].cur /\ l1.list = task[t].list
      BY <1>0, <3>1, <3>2 DEF Locals
    <3> HIDE DEF l1
    <3> DEFINE l == [l1 EXCEPT !.unshared = b]
    <3>4. /\ l \in Locals /\ l.session = s /\ l.id = task[t].id
          /\ l.cur = task[t].cur /\ l.list = task[t].list
      BY <1>0, <3>1, <3>2, <3>3 DEF Locals
    <3>5. /\ "unregister" \in Labels /\ LocalsFor("unregister", l)
          /\ PoolFor(sessions', "unregister", l)
      <4> HIDE DEF l
      <4> QED
        BY <1>0, <2>1, <2>2, <2>4, <3>1, <3>2, <3>4 DEF LocalsFor, PoolFor
    <3>6. Goto(t, "unregister") /\ task' = [task EXCEPT ![t] = l]
      BY <2>4 DEF l1, s, b
    <3> HIDE DEF l
    <3> QED BY <2>1, <2>2, <3>4, <3>5, <3>6, Continued
  <2> QED BY <1>4, <2>3, <2>4 DEF kill_session_by_id_remove
<1>5. CASE unregister_workspace(t)
  <2>1. pc[t] = "unregister" /\ LocalsFor("unregister", task[t])
    BY <1>0, <1>5 DEF unregister_workspace, At
  <2>2. DataOK' /\ PoolStep(t) /\ sessions' = sessions
    <3>2. /\ workspaces' = workspaces /\ stored' = stored
          /\ disk' = disk /\ branch' = branch /\ issued' = issued
          /\ sessions' = sessions /\ proc' = proc
          /\ args' = args
          /\ registered' = [registered EXCEPT ![task[t].session] = @ \ {task[t].cur}]
      BY <1>5 DEF unregister_workspace, store, git
    <3>3. StoreTypeOK'
      BY <1>0, <3>2 DEF StoreTypeOK
    <3>4. GitTypeOK'
      BY <1>0, <3>2 DEF GitTypeOK
    <3>5. PoolTypeOK'
      BY <1>0, <3>2 DEF PoolTypeOK
    <3> QED BY <3>3, <3>4, <3>5, <3>2 DEF DataOK, PoolStep
  <2>3. CASE Goto(t, "kill") /\ UNCHANGED task
    <3>1. /\ "kill" \in Labels
          /\ LocalsFor("kill", task[t])
          /\ PoolFor(sessions', "kill", task[t])
      BY <1>0, <2>1, <2>2, <2>3 DEF LocalsFor, PoolFor
    <3> QED BY <2>1, <2>2, <2>3, <3>1, ContinuedSameLocals
  <2>4. CASE KillReturns(t)
    <3> DEFINE l1 == [task[t] EXCEPT !.session = None]
    <3>1. /\ l1 \in Locals /\ l1.session = None /\ l1.id = task[t].id
          /\ l1.cur = task[t].cur /\ l1.list = task[t].list
      BY <1>0 DEF Locals
    <3> HIDE DEF l1
    <3> DEFINE b == FALSE
    <3>2. b \in BOOLEAN
      OBVIOUS
    <3> HIDE DEF b
    <3> DEFINE l == [l1 EXCEPT !.unshared = b]
    <3>3. /\ l \in Locals /\ l.session = None /\ l.id = task[t].id
          /\ l.cur = task[t].cur /\ l.list = task[t].list
      BY <3>1, <3>2 DEF Locals
    <3>4. /\ AfterKill(t) \in Labels \ Guarded /\ LocalsFor(AfterKill(t), l)
          /\ PoolFor(sessions', AfterKill(t), l)
      <4> HIDE DEF l
      <4> QED
        BY <1>0, <2>1, <2>2, <2>4, <3>3 DEF LocalsFor, PoolFor, AfterKill
    <3>5. Goto(t, AfterKill(t)) /\ task' = [task EXCEPT ![t] = l]
      BY <2>4 DEF KillReturns, l1, b
    <3> HIDE DEF l
    <3> QED BY <2>1, <2>2, <3>3, <3>4, <3>5, Continued
  <2> QED BY <1>5, <2>3, <2>4 DEF unregister_workspace
<1>6. CASE kill_session_by_id_kill(t)
  <2>1. pc[t] = "kill" /\ LocalsFor("kill", task[t])
    BY <1>0, <1>6 DEF kill_session_by_id_kill, At
  <2>2. DataOK' /\ PoolStep(t) /\ sessions' = sessions
    <3>2. /\ workspaces' = workspaces /\ stored' = stored
          /\ disk' = disk /\ branch' = branch /\ issued' = issued
          /\ sessions' = sessions
          /\ registered' = registered /\ args' = args
          /\ kill_child_process_tree(task[t].session)
      BY <1>6 DEF kill_session_by_id_kill, store, git
    <3>3. StoreTypeOK'
      BY <1>0, <3>2 DEF StoreTypeOK
    <3>4. GitTypeOK'
      BY <1>0, <3>2 DEF GitTypeOK
    <3>5. PoolTypeOK'
      BY <1>0, <3>2 DEF PoolTypeOK, kill_child_process_tree
    <3> QED BY <3>3, <3>4, <3>5, <3>2 DEF DataOK, PoolStep
  <2>3. CASE KillReturns(t)
    <3> DEFINE l1 == [task[t] EXCEPT !.session = None]
    <3>1. /\ l1 \in Locals /\ l1.session = None /\ l1.id = task[t].id
          /\ l1.cur = task[t].cur /\ l1.list = task[t].list
      BY <1>0 DEF Locals
    <3> HIDE DEF l1
    <3> DEFINE b == FALSE
    <3>2. b \in BOOLEAN
      OBVIOUS
    <3> HIDE DEF b
    <3> DEFINE l == [l1 EXCEPT !.unshared = b]
    <3>3. /\ l \in Locals /\ l.session = None /\ l.id = task[t].id
          /\ l.cur = task[t].cur /\ l.list = task[t].list
      BY <3>1, <3>2 DEF Locals
    <3>4. /\ AfterKill(t) \in Labels \ Guarded /\ LocalsFor(AfterKill(t), l)
          /\ PoolFor(sessions', AfterKill(t), l)
      <4> HIDE DEF l
      <4> QED
        BY <1>0, <2>1, <2>2, <2>3, <3>3 DEF LocalsFor, PoolFor, AfterKill
    <3>5. Goto(t, AfterKill(t)) /\ task' = [task EXCEPT ![t] = l]
      BY <2>3 DEF KillReturns, l1, b
    <3> HIDE DEF l
    <3> QED BY <2>1, <2>2, <3>3, <3>4, <3>5, Continued
  <2> QED BY <1>6, <2>3 DEF kill_session_by_id_kill
<1>7. CASE remove_worktree_files(t)
  <2>1. pc[t] = "files" /\ LocalsFor("files", task[t])
    BY <1>0, <1>7 DEF remove_worktree_files, At
  <2>2. DataOK' /\ PoolStep(t) /\ sessions' = sessions
    <3>2. /\ workspaces' = workspaces /\ stored' = stored
          /\ sessions' = sessions /\ proc' = proc
          /\ registered' = registered /\ args' = args
          /\ branch' = branch /\ issued' = issued
          /\ disk' \in {disk, [disk EXCEPT ![task[t].cur] = None]}
      BY <1>7 DEF remove_worktree_files, store, pool
    <3>3. StoreTypeOK'
      BY <1>0, <3>2 DEF StoreTypeOK
    <3>4. GitTypeOK'
      BY <1>0, <3>2 DEF GitTypeOK
    <3>5. PoolTypeOK'
      BY <1>0, <3>2 DEF PoolTypeOK
    <3> QED BY <3>3, <3>4, <3>5, <3>2 DEF DataOK, PoolStep
  <2>3. CASE /\ task' = [task EXCEPT ![t].gone = @ \cup {task[t].cur}]
             /\ Goto(t, IF task[t].op = "remove" THEN "child" ELSE "forget")
    <3> DEFINE label == IF task[t].op = "remove" THEN "child" ELSE "forget"
    <3> DEFINE l == [task[t] EXCEPT !.gone = task[t].gone \cup {task[t].cur}]
    <3>1. /\ l \in Locals /\ l.id = task[t].id /\ l.list = task[t].list
      BY <1>0, <2>1, <2>3 DEF Locals, LocalsFor
    <3>2. /\ label \in Labels \ Guarded /\ LocalsFor(label, l)
          /\ PoolFor(sessions', label, l)
      <4> HIDE DEF l
      <4> QED
        BY <1>0, <2>1, <2>2, <2>3, <3>1 DEF LocalsFor, PoolFor
    <3>3. Goto(t, label) /\ task' = [task EXCEPT ![t] = l]
      BY <2>3
    <3> HIDE DEF l, label
    <3> QED BY <2>1, <2>2, <3>1, <3>2, <3>3, Continued
  <2>4. CASE Goto(t, "child") /\ task' = [task EXCEPT ![t].failed = TRUE]
    <3> DEFINE b == TRUE
    <3>1. b \in BOOLEAN
      OBVIOUS
    <3> HIDE DEF b
    <3> DEFINE l == [task[t] EXCEPT !.failed = b]
    <3>2. /\ l \in Locals /\ l.id = task[t].id /\ l.list = task[t].list
      BY <1>0, <3>1 DEF Locals
    <3>3. /\ "child" \in Labels /\ LocalsFor("child", l)
          /\ PoolFor(sessions', "child", l)
      <4> HIDE DEF l
      <4> QED
        BY <1>0, <2>1, <2>2, <2>4, <3>2 DEF LocalsFor, PoolFor
    <3>4. Goto(t, "child") /\ task' = [task EXCEPT ![t] = l]
      BY <2>4 DEF b
    <3> HIDE DEF l
    <3> QED BY <2>1, <2>2, <3>2, <3>3, <3>4, Continued
  <2>5. CASE Return(t, "err")
    BY <2>2, <2>5, Returned
  <2> QED BY <1>7, <2>3, <2>4, <2>5 DEF remove_worktree_files
<1>8. CASE remove_workspace_forget(t)
  <2>1. pc[t] = "forget" /\ LocalsFor("forget", task[t])
    BY <1>0, <1>8 DEF remove_workspace_forget, At
  <2>2. DataOK' /\ PoolStep(t) /\ sessions' = sessions
    <3>2. /\ workspaces' = [w \in Ids |-> IF w \in task[t].gone THEN None
                                          ELSE workspaces[w]]
          /\ stored' \in {workspaces', stored, Torn}
          /\ disk' = disk /\ branch' = branch /\ issued' = issued
          /\ sessions' = sessions /\ proc' = proc
          /\ registered' = registered /\ args' = args
      BY <1>8 DEF remove_workspace_forget, write_workspaces,
         write_workspaces_fails, git, pool
    <3>3. StoreTypeOK'
      BY <1>0, <3>2 DEF StoreTypeOK, Stores
    <3>4. GitTypeOK'
      BY <1>0, <3>2 DEF GitTypeOK
    <3>5. PoolTypeOK'
      BY <1>0, <3>2 DEF PoolTypeOK
    <3> QED BY <3>3, <3>4, <3>5, <3>2 DEF DataOK, PoolStep
  <2>3. CASE Return(t, "ok")
    BY <2>2, <2>3, Returned
  <2>4. CASE Return(t, "err")
    BY <2>2, <2>4, Returned
  <2> QED BY <1>8, <2>3, <2>4 DEF remove_workspace_forget
<1> QED BY <1>1, <1>2, <1>3, <1>4, <1>5, <1>6, <1>7, <1>8 DEF RemoveWorkspace

(* Each step of update_workspace_settings_core keeps the invariant. *)
LEMMA UpdateSettingsKeeps ==
  ASSUME InductiveInvariant, NEW t \in Tasks, UpdateSettings(t)
  PROVE  InductiveInvariant'
<1> USE DEF Labels, AtRest, Guarded, NeedsId, NeedsName, NeedsEntry,
            NeedsSession, NeedsList, ConnectOps, AddOps
<1>0. /\ task[t] \in Locals /\ LocalsFor(pc[t], task[t])
      /\ PoolFor(sessions, pc[t], task[t])
      /\ StoreTypeOK /\ GitTypeOK /\ PoolTypeOK /\ SingleSharedSession
  BY DEF InductiveInvariant, TypeOK, LocalsSet, PoolReserved
<1>1. CASE update_workspace_settings_apply(t)
  <2>1. pc[t] = "apply" /\ LocalsFor("apply", task[t])
    BY <1>0, <1>1 DEF update_workspace_settings_apply, At
  <2>2. DataOK' /\ PoolStep(t) /\ sessions' = sessions
    <3>1. task[t].id \in Ids /\ task[t].script \in Scripts
      BY <1>0, <2>1 DEF LocalsFor
    <3>2. /\ \/ workspaces' = workspaces
             \/ /\ workspaces[task[t].id] # None
                /\ workspaces' = [workspaces EXCEPT ![task[t].id].script = task[t].script]
          /\ stored' = stored
          /\ disk' = disk /\ branch' = branch /\ issued' = issued
          /\ sessions' = sessions /\ proc' = proc
          /\ registered' = registered /\ args' = args
      BY <1>1 DEF update_workspace_settings_apply, git, pool
    <3>3. StoreTypeOK'
      BY <1>0, <3>1, <3>2 DEF StoreTypeOK, Stores, Entry
    <3>4. GitTypeOK'
      BY <1>0, <3>1, <3>2 DEF GitTypeOK
    <3>5. PoolTypeOK'
      BY <1>0, <3>1, <3>2 DEF PoolTypeOK
    <3> QED BY <3>3, <3>4, <3>5, <3>2 DEF DataOK, PoolStep
  <2>3. CASE Return(t, "err")
    BY <2>2, <2>3, Returned
  <2>4. CASE \E e \in SUBSET Ids :
             /\ task' = [task EXCEPT ![t].todo = e]
             /\ Goto(t, "propagate")
    <3>1. PICK e \in SUBSET Ids :
            /\ task' = [task EXCEPT ![t].todo = e]
            /\ Goto(t, "propagate")
      BY <2>4
    <3> DEFINE l == [task[t] EXCEPT !.todo = e]
    <3>2. /\ l \in Locals /\ l.op = task[t].op /\ l.script = task[t].script
      BY <1>0, <2>1, <3>1 DEF Locals, LocalsFor
    <3>3. /\ "propagate" \in Labels /\ LocalsFor("propagate", l)
          /\ PoolFor(sessions', "propagate", l)
      <4> HIDE DEF l
      <4> QED
        BY <1>0, <2>1, <2>2, <3>1, <3>2 DEF LocalsFor, PoolFor
    <3>4. Goto(t, "propagate") /\ task' = [task EXCEPT ![t] = l]
      BY <3>1
    <3> HIDE DEF l
    <3> QED BY <2>1, <2>2, <3>2, <3>3, <3>4, Continued
  <2> QED BY <1>1, <2>3, <2>4 DEF update_workspace_settings_apply, Children
<1>2. CASE update_workspace_settings_propagate(t)
  <2>1. pc[t] = "propagate" /\ LocalsFor("propagate", task[t])
    BY <1>0, <1>2 DEF update_workspace_settings_propagate, At
  <2>2. DataOK' /\ PoolStep(t) /\ sessions' = sessions
    <3>1. task[t].script \in Scripts
      BY <1>0, <2>1 DEF LocalsFor
    <3>2. /\ workspaces' = [w \in Ids |->
                  IF w \in task[t].todo /\ workspaces[w] # None
                  THEN [workspaces[w] EXCEPT !.script = task[t].script]
                  ELSE workspaces[w]]
          /\ stored' = stored
          /\ disk' = disk /\ branch' = branch /\ issued' = issued
          /\ sessions' = sessions /\ proc' = proc
          /\ registered' = registered /\ args' = args
      BY <1>2 DEF update_workspace_settings_propagate, git, pool
    <3>3. StoreTypeOK'
      BY <1>0, <3>1, <3>2 DEF StoreTypeOK, Stores, Entry
    <3>4. GitTypeOK'
      BY <1>0, <3>1, <3>2 DEF GitTypeOK
    <3>5. PoolTypeOK'
      BY <1>0, <3>1, <3>2 DEF PoolTypeOK
    <3> QED BY <3>3, <3>4, <3>5, <3>2 DEF DataOK, PoolStep
  <2>3. CASE Goto(t, "snapshot") /\ UNCHANGED task
    <3>1. /\ "snapshot" \in Labels
          /\ LocalsFor("snapshot", task[t])
          /\ PoolFor(sessions', "snapshot", task[t])
      BY <1>0, <2>1, <2>2, <2>3 DEF LocalsFor, PoolFor
    <3> QED BY <2>1, <2>2, <2>3, <3>1, ContinuedSameLocals
  <2> QED BY <1>2, <2>3 DEF update_workspace_settings_propagate
<1>3. CASE update_workspace_settings_snapshot(t)
  <2>1. pc[t] = "snapshot" /\ LocalsFor("snapshot", task[t])
    BY <1>0, <1>3 DEF update_workspace_settings_snapshot, At
  <2>2. DataOK' /\ PoolStep(t) /\ sessions' = sessions
    BY <1>3, Frame DEF update_workspace_settings_snapshot, pool
  <2>3. CASE /\ Goto(t, "save")
             /\ task' = [task EXCEPT ![t].list = workspaces]
    <3> DEFINE l == [task[t] EXCEPT !.list = workspaces]
    <3>1. /\ l \in Locals /\ l.list = workspaces /\ l.op = task[t].op
      BY <1>0, <2>1, <2>3 DEF Locals, LocalsFor, StoreTypeOK
    <3>2. /\ "save" \in Labels /\ LocalsFor("save", l)
          /\ PoolFor(sessions', "save", l)
      <4> HIDE DEF l
      <4> QED
        BY <1>0, <2>1, <2>2, <2>3, <3>1 DEF LocalsFor, PoolFor, StoreTypeOK
    <3>3. Goto(t, "save") /\ task' = [task EXCEPT ![t] = l]
      BY <2>3
    <3> HIDE DEF l
    <3> QED BY <2>1, <2>2, <3>1, <3>2, <3>3, Continued
  <2> QED BY <1>3, <2>3 DEF update_workspace_settings_snapshot
<1>4. CASE save_list(t)
  <2>1. pc[t] = "save" /\ LocalsFor("save", task[t])
    BY <1>0, <1>4 DEF save_list, At
  <2>2. DataOK' /\ PoolStep(t) /\ sessions' = sessions
    <3>1. task[t].list \in Stores
      BY <1>0, <2>1 DEF LocalsFor
    <3>2. /\ workspaces' = workspaces
          /\ stored' \in {task[t].list, stored, Torn}
          /\ disk' = disk /\ branch' = branch /\ issued' = issued
          /\ sessions' = sessions /\ proc' = proc
          /\ registered' = registered /\ args' = args
      BY <1>4 DEF save_list, write_workspaces, write_workspaces_fails, git, pool
    <3>3. StoreTypeOK'
      BY <1>0, <3>1, <3>2 DEF StoreTypeOK
    <3>4. GitTypeOK'
      BY <1>0, <3>1, <3>2 DEF GitTypeOK
    <3>5. PoolTypeOK'
      BY <1>0, <3>1, <3>2 DEF PoolTypeOK
    <3> QED BY <3>3, <3>4, <3>5, <3>2 DEF DataOK, PoolStep
  <2>3. CASE Return(t, "ok")
    BY <2>2, <2>3, Returned
  <2>4. CASE Goto(t, "reregister") /\ UNCHANGED task /\ task[t].op = "rename"
    <3>1. /\ "reregister" \in Labels
          /\ LocalsFor("reregister", task[t])
          /\ PoolFor(sessions', "reregister", task[t])
      BY <1>0, <2>1, <2>2, <2>4 DEF LocalsFor, PoolFor
    <3> QED BY <2>1, <2>2, <2>4, <3>1, ContinuedSameLocals
  <2>5. CASE Return(t, "err")
    BY <2>2, <2>5, Returned
  <2>6. CASE /\ task' = [task EXCEPT ![t].failed = TRUE]
             /\ Goto(t, "renameBack") /\ task[t].op = "rename"
    <3> DEFINE b == TRUE
    <3>1. b \in BOOLEAN
      OBVIOUS
    <3> HIDE DEF b
    <3> DEFINE l == [task[t] EXCEPT !.failed = b]
    <3>2. /\ l \in Locals /\ l.id = task[t].id /\ l.name = task[t].name
          /\ l.entry = task[t].entry /\ l.before = task[t].before
      BY <1>0, <3>1 DEF Locals
    <3>3. /\ "renameBack" \in Labels /\ LocalsFor("renameBack", l)
          /\ PoolFor(sessions', "renameBack", l)
      <4> HIDE DEF l
      <4> QED
        BY <1>0, <2>1, <2>2, <2>6, <3>2 DEF LocalsFor, PoolFor
    <3>4. Goto(t, "renameBack") /\ task' = [task EXCEPT ![t] = l]
      BY <2>6 DEF b
    <3> HIDE DEF l
    <3> QED BY <2>1, <2>2, <3>2, <3>3, <3>4, Continued
  <2> QED BY <1>4, <2>3, <2>4, <2>5, <2>6 DEF save_list
<1> QED BY <1>1, <1>2, <1>3, <1>4 DEF UpdateSettings

(* Each step of rename_worktree_core keeps the invariant. *)
LEMMA RenameWorktreeKeeps ==
  ASSUME InductiveInvariant, NEW t \in Tasks, RenameWorktree(t)
  PROVE  InductiveInvariant'
<1> USE DEF Labels, AtRest, Guarded, NeedsId, NeedsName, NeedsEntry,
            NeedsSession, NeedsList, ConnectOps, AddOps
<1>0. /\ task[t] \in Locals /\ LocalsFor(pc[t], task[t])
      /\ PoolFor(sessions, pc[t], task[t])
      /\ StoreTypeOK /\ GitTypeOK /\ PoolTypeOK /\ SingleSharedSession
  BY DEF InductiveInvariant, TypeOK, LocalsSet, PoolReserved
<1>1. CASE rename_worktree_lookup(t)
  <2>1. pc[t] = "lookup" /\ LocalsFor("lookup", task[t])
    BY <1>0, <1>1 DEF rename_worktree_lookup, At
  <2>2. DataOK' /\ PoolStep(t) /\ sessions' = sessions
    BY <1>1, Frame DEF rename_worktree_lookup, pool
  <2>3. CASE Return(t, "err")
    BY <2>2, <2>3, Returned
  <2>4. CASE /\ workspaces[task[t].id] # None /\ task[t].op = "rename"
             /\ task' = [task EXCEPT ![t].entry = workspaces[task[t].id]]
             /\ Goto(t, "branchMove")
    <3> DEFINE l == [task[t] EXCEPT !.entry = workspaces[task[t].id]]
    <3>1. /\ l \in Locals /\ l.entry = workspaces[task[t].id]
          /\ l.id = task[t].id /\ l.name = task[t].name
          /\ l.failed = task[t].failed
      BY <1>0, <2>1, <2>4 DEF Locals, LocalsFor, StoreTypeOK, Stores
    <3>2. /\ "branchMove" \in Labels /\ LocalsFor("branchMove", l)
          /\ PoolFor(sessions', "branchMove", l)
      <4> HIDE DEF l
      <4> QED
        BY <1>0, <2>1, <2>2, <2>4, <3>1 DEF LocalsFor, PoolFor, StoreTypeOK,
           Stores
    <3>3. Goto(t, "branchMove") /\ task' = [task EXCEPT ![t] = l]
      BY <2>4
    <3> HIDE DEF l
    <3> QED BY <2>1, <2>2, <3>1, <3>2, <3>3, Continued
  <2> QED BY <1>1, <2>3, <2>4 DEF rename_worktree_lookup
<1>2. CASE rename_worktree_branch(t)
  <2>1. pc[t] = "branchMove" /\ LocalsFor("branchMove", task[t])
    BY <1>0, <1>2 DEF rename_worktree_branch, At
  <2>2. DataOK' /\ PoolStep(t) /\ sessions' = sessions
    <3>1. task[t].name \in Names
      BY <1>0, <2>1 DEF LocalsFor
    <3>2. /\ workspaces' = workspaces /\ stored' = stored
          /\ sessions' = sessions /\ proc' = proc
          /\ registered' = registered /\ args' = args
          /\ disk' = disk /\ issued' = issued
          /\ branch' \in {branch, [branch EXCEPT ![task[t].id] = task[t].name]}
      BY <1>2 DEF rename_worktree_branch, store, pool
    <3>3. StoreTypeOK'
      BY <1>0, <3>1, <3>2 DEF StoreTypeOK
    <3>4. GitTypeOK'
      BY <1>0, <3>1, <3>2 DEF GitTypeOK
    <3>5. PoolTypeOK'
      BY <1>0, <3>1, <3>2 DEF PoolTypeOK
    <3> QED BY <3>3, <3>4, <3>5, <3>2 DEF DataOK, PoolStep
  <2>3. CASE Return(t, "err")
    BY <2>2, <2>3, Returned
  <2>4. CASE /\ Goto(t, IF Moves(t) THEN "gitMove" ELSE "update")
             /\ UNCHANGED task
    <3> DEFINE label == IF Moves(t) THEN "gitMove" ELSE "update"
    <3>1. /\ label \in Labels \ Guarded
          /\ LocalsFor(label, task[t])
          /\ PoolFor(sessions', label, task[t])
      BY <1>0, <2>1, <2>2, <2>4 DEF LocalsFor, PoolFor
    <3>2. Goto(t, label) /\ UNCHANGED task
      BY <2>4
    <3> HIDE DEF label
    <3> QED BY <2>1, <2>2, <3>1, <3>2, ContinuedSameLocals
  <2> QED BY <1>2, <2>3, <2>4 DEF rename_worktree_branch
<1>3. CASE rename_worktree_move(t)
  <2>1. pc[t] = "gitMove" /\ LocalsFor("gitMove", task[t])
    BY <1>0, <1>3 DEF rename_worktree_move, At
  <2>2. DataOK' /\ PoolStep(t) /\ sessions' = sessions
    <3>1. task[t].name \in Names
      BY <1>0, <2>1 DEF LocalsFor
    <3>2. /\ workspaces' = workspaces /\ stored' = stored
          /\ sessions' = sessions /\ proc' = proc
          /\ registered' = registered /\ args' = args
          /\ branch' = branch /\ issued' = issued
          /\ disk' \in {disk, [disk EXCEPT ![task[t].id] = task[t].name]}
      BY <1>3 DEF rename_worktree_move, store, pool
    <3>3. StoreTypeOK'
      BY <1>0, <3>1, <3>2 DEF StoreTypeOK
    <3>4. GitTypeOK'
      BY <1>0, <3>1, <3>2 DEF GitTypeOK
    <3>5. PoolTypeOK'
      BY <1>0, <3>1, <3>2 DEF PoolTypeOK
    <3> QED BY <3>3, <3>4, <3>5, <3>2 DEF DataOK, PoolStep
  <2>3. CASE Goto(t, "branchBack") /\ UNCHANGED task
    <3>1. /\ "branchBack" \in Labels
          /\ LocalsFor("branchBack", task[t])
          /\ PoolFor(sessions', "branchBack", task[t])
      BY <1>0, <2>1, <2>2, <2>3 DEF LocalsFor, PoolFor
    <3> QED BY <2>1, <2>2, <2>3, <3>1, ContinuedSameLocals
  <2>4. CASE Goto(t, "update") /\ UNCHANGED task
    <3>1. /\ "update" \in Labels
          /\ LocalsFor("update", task[t])
          /\ PoolFor(sessions', "update", task[t])
      BY <1>0, <2>1, <2>2, <2>4 DEF LocalsFor, PoolFor
    <3> QED BY <2>1, <2>2, <2>4, <3>1, ContinuedSameLocals
  <2> QED BY <1>3, <2>3, <2>4 DEF rename_worktree_move
<1>4. CASE rename_worktree_update(t)
  <2>1. pc[t] = "update" /\ LocalsFor("update", task[t])
    BY <1>0, <1>4 DEF rename_worktree_update, At
  <2>2. DataOK' /\ PoolStep(t) /\ sessions' = sessions
    <3>1. task[t].id \in Ids /\ task[t].name \in Names
      BY <1>0, <2>1 DEF LocalsFor
    <3>2. /\ \/ workspaces' = workspaces
             \/ /\ workspaces[task[t].id] # None
                /\ workspaces' = [workspaces EXCEPT ![task[t].id].branch = task[t].name,
                                                    ![task[t].id].path = task[t].name]
          /\ stored' = stored
          /\ disk' = disk /\ branch' = branch /\ issued' = issued
          /\ sessions' = sessions /\ proc' = proc
          /\ registered' = registered /\ args' = args
      BY <1>4 DEF rename_worktree_update, git, pool
    <3>3. StoreTypeOK'
      BY <1>0, <3>1, <3>2 DEF StoreTypeOK, Stores, Entry
    <3>4. GitTypeOK'
      BY <1>0, <3>1, <3>2 DEF GitTypeOK
    <3>5. PoolTypeOK'
      BY <1>0, <3>1, <3>2 DEF PoolTypeOK
    <3> QED BY <3>3, <3>4, <3>5, <3>2 DEF DataOK, PoolStep
  <2>3. CASE Goto(t, "renameBack") /\ UNCHANGED task
    <3>1. /\ "renameBack" \in Labels
          /\ LocalsFor("renameBack", task[t])
          /\ PoolFor(sessions', "renameBack", task[t])
      BY <1>0, <2>1, <2>2, <2>3 DEF LocalsFor, PoolFor
    <3> QED BY <2>1, <2>2, <2>3, <3>1, ContinuedSameLocals
  <2>4. CASE /\ workspaces[task[t].id] # None
             /\ task' = [task EXCEPT ![t].before = workspaces[task[t].id],
                                  ![t].list = workspaces']
             /\ Goto(t, "save")
    <3>1. workspaces[task[t].id] \in Entry /\ workspaces' \in Stores
      BY <1>0, <2>1, <2>4, <2>2 DEF LocalsFor, DataOK, StoreTypeOK, Stores
    <3> DEFINE l1 == [task[t] EXCEPT !.before = workspaces[task[t].id]]
    <3>2. /\ l1 \in Locals /\ l1.before = workspaces[task[t].id]
          /\ l1.list = task[t].list /\ l1.id = task[t].id
          /\ l1.name = task[t].name /\ l1.entry = task[t].entry
      BY <1>0, <3>1 DEF Locals
    <3> HIDE DEF l1
    <3> DEFINE l == [l1 EXCEPT !.list = workspaces']
    <3>3. /\ l \in Locals /\ l.before = workspaces[task[t].id]
          /\ l.list = workspaces' /\ l.id = task[t].id
          /\ l.name = task[t].name /\ l.entry = task[t].entry
      BY <1>0, <3>1, <3>2 DEF Locals
    <3>4. /\ "save" \in Labels /\ LocalsFor("save", l)
          /\ PoolFor(sessions', "save", l)
      <4> HIDE DEF l
      <4> QED
        BY <1>0, <2>1, <2>2, <2>4, <3>1, <3>3 DEF LocalsFor, PoolFor
    <3>5. Goto(t, "save") /\ task' = [task EXCEPT ![t] = l]
      BY <2>4 DEF l1
    <3> HIDE DEF l
    <3> QED BY <2>1, <2>2, <3>3, <3>4, <3>5, Continued
  <2> QED BY <1>4, <2>3, <2>4 DEF rename_worktree_update
<1>5. CASE rename_worktree_move_back(t)
  <2>1. pc[t] = "renameBack" /\ LocalsFor("renameBack", task[t])
    BY <1>0, <1>5 DEF rename_worktree_move_back, At
  <2>2. DataOK' /\ PoolStep(t) /\ sessions' = sessions
    <3>1. task[t].entry.path \in Names
      BY <1>0, <2>1 DEF LocalsFor, Entry
    <3>2. /\ workspaces' = workspaces /\ stored' = stored
          /\ sessions' = sessions /\ proc' = proc
          /\ registered' = registered /\ args' = args
          /\ branch' = branch /\ issued' = issued
          /\ disk' \in {disk, [disk EXCEPT ![task[t].id] = task[t].entry.path]}
      BY <1>5 DEF rename_worktree_move_back, store, pool
    <3>3. StoreTypeOK'
      BY <1>0, <3>1, <3>2 DEF StoreTypeOK
    <3>4. GitTypeOK'
      BY <1>0, <3>1, <3>2 DEF GitTypeOK
    <3>5. PoolTypeOK'
      BY <1>0, <3>1, <3>2 DEF PoolTypeOK
    <3> QED BY <3>3, <3>4, <3>5, <3>2 DEF DataOK, PoolStep
  <2>3. CASE Goto(t, "branchBack") /\ UNCHANGED task
    <3>1. /\ "branchBack" \in Labels
          /\ LocalsFor("branchBack", task[t])
          /\ PoolFor(sessions', "branchBack", task[t])
      BY <1>0, <2>1, <2>2, <2>3 DEF LocalsFor, PoolFor
    <3> QED BY <2>1, <2>2, <2>3, <3>1, ContinuedSameLocals
  <2> QED BY <1>5, <2>3 DEF rename_worktree_move_back
<1>6. CASE rename_worktree_branch_back(t)
  <2>1. pc[t] = "branchBack" /\ LocalsFor("branchBack", task[t])
    BY <1>0, <1>6 DEF rename_worktree_branch_back, At
  <2>2. DataOK' /\ PoolStep(t) /\ sessions' = sessions
    <3>1. task[t].entry.branch \in Names
      BY <1>0, <2>1 DEF LocalsFor, Entry
    <3>2. /\ workspaces' = workspaces /\ stored' = stored
          /\ sessions' = sessions /\ proc' = proc
          /\ registered' = registered /\ args' = args
          /\ disk' = disk /\ issued' = issued
          /\ branch' \in {branch, [branch EXCEPT ![task[t].id] = task[t].entry.branch]}
      BY <1>6 DEF rename_worktree_branch_back, store, pool
    <3>3. StoreTypeOK'
      BY <1>0, <3>1, <3>2 DEF StoreTypeOK
    <3>4. GitTypeOK'
      BY <1>0, <3>1, <3>2 DEF GitTypeOK
    <3>5. PoolTypeOK'
      BY <1>0, <3>1, <3>2 DEF PoolTypeOK
    <3> QED BY <3>3, <3>4, <3>5, <3>2 DEF DataOK, PoolStep
  <2>3. CASE Goto(t, "restore") /\ UNCHANGED task /\ task[t].failed
    <3>1. /\ "restore" \in Labels
          /\ LocalsFor("restore", task[t])
          /\ PoolFor(sessions', "restore", task[t])
      BY <1>0, <2>1, <2>2, <2>3 DEF LocalsFor, PoolFor
    <3> QED BY <2>1, <2>2, <2>3, <3>1, ContinuedSameLocals
  <2>4. CASE Return(t, "err")
    BY <2>2, <2>4, Returned
  <2> QED BY <1>6, <2>3, <2>4 DEF rename_worktree_branch_back
<1>7. CASE rename_worktree_restore(t)
  <2>1. pc[t] = "restore" /\ LocalsFor("restore", task[t])
    BY <1>0, <1>7 DEF rename_worktree_restore, At
  <2>2. DataOK' /\ PoolStep(t) /\ sessions' = sessions
    <3>1. task[t].before \in Entry
      BY <1>0, <2>1 DEF LocalsFor
    <3>2. /\ workspaces' \in {workspaces, [workspaces EXCEPT ![task[t].id] = task[t].before]}
          /\ stored' = stored
          /\ disk' = disk /\ branch' = branch /\ issued' = issued
          /\ sessions' = sessions /\ proc' = proc
          /\ registered' = registered /\ args' = args
      BY <1>7 DEF rename_worktree_restore, git, pool
    <3>3. StoreTypeOK'
      BY <1>0, <3>1, <3>2 DEF StoreTypeOK, Stores
    <3>4. GitTypeOK'
      BY <1>0, <3>1, <3>2 DEF GitTypeOK
    <3>5. PoolTypeOK'
      BY <1>0, <3>1, <3>2 DEF PoolTypeOK
    <3> QED BY <3>3, <3>4, <3>5, <3>2 DEF DataOK, PoolStep
  <2> QED BY <1>7, <2>2, Returned DEF rename_worktree_restore
<1>8. CASE rename_worktree_register(t)
  <2>1. pc[t] = "reregister" /\ LocalsFor("reregister", task[t])
    BY <1>0, <1>8 DEF rename_worktree_register, At
  <2>2. DataOK' /\ PoolStep(t) /\ sessions' = sessions
    <3>1. task[t].id \in Ids
      BY <1>0, <2>1 DEF LocalsFor
    <3>2. /\ workspaces' = workspaces /\ stored' = stored
          /\ disk' = disk /\ branch' = branch /\ issued' = issued
          /\ sessions' = sessions /\ proc' = proc
          /\ args' = args
          /\ registered' = IF sessions[task[t].id] = None THEN registered
                           ELSE [registered EXCEPT ![sessions[task[t].id]] = @ \cup {task[t].id}]
      BY <1>8 DEF rename_worktree_register, store, git
    <3>3. StoreTypeOK'
      BY <1>0, <3>1, <3>2 DEF StoreTypeOK
    <3>4. GitTypeOK'
      BY <1>0, <3>1, <3>2 DEF GitTypeOK
    <3>5. PoolTypeOK'
      BY <1>0, <3>1, <3>2 DEF PoolTypeOK
    <3> QED BY <3>3, <3>4, <3>5, <3>2 DEF DataOK, PoolStep
  <2> QED BY <1>8, <2>2, Returned DEF rename_worktree_register
<1> QED BY <1>1, <1>2, <1>3, <1>4, <1>5, <1>6, <1>7, <1>8 DEF RenameWorktree

(* Each step of sync_workspaces_from_storage keeps the invariant. *)
LEMMA SyncFromStorageKeeps ==
  ASSUME InductiveInvariant, NEW t \in Tasks, SyncFromStorage(t)
  PROVE  InductiveInvariant'
<1> USE DEF Labels, AtRest, Guarded, NeedsId, NeedsName, NeedsEntry,
            NeedsSession, NeedsList, ConnectOps, AddOps
<1>0. /\ task[t] \in Locals /\ LocalsFor(pc[t], task[t])
      /\ PoolFor(sessions, pc[t], task[t])
      /\ StoreTypeOK /\ GitTypeOK /\ PoolTypeOK /\ SingleSharedSession
  BY DEF InductiveInvariant, TypeOK, LocalsSet, PoolReserved
<1>1. CASE sync_workspaces_read(t)
  <2>1. pc[t] = "syncRead" /\ LocalsFor("syncRead", task[t])
    BY <1>0, <1>1 DEF sync_workspaces_read, At
  <2>2. DataOK' /\ PoolStep(t) /\ sessions' = sessions
    BY <1>1, Frame DEF sync_workspaces_read, pool
  <2>3. CASE Return(t, "ok")
    BY <2>2, <2>3, Returned
  <2>4. CASE /\ stored # Torn /\ Goto(t, "syncStore")
             /\ task' = [task EXCEPT ![t].list = stored]
    <3>1. stored \in Stores
      BY <1>0, <2>1, <2>4 DEF StoreTypeOK
    <3> DEFINE l == [task[t] EXCEPT !.list = stored]
    <3>2. /\ l \in Locals /\ l.list = stored /\ l.op = task[t].op
      BY <1>0, <3>1 DEF Locals
    <3>3. /\ "syncStore" \in Labels /\ LocalsFor("syncStore", l)
          /\ PoolFor(sessions', "syncStore", l)
      <4> HIDE DEF l
      <4> QED
        BY <1>0, <2>1, <2>2, <2>4, <3>1, <3>2 DEF LocalsFor, PoolFor
    <3>4. Goto(t, "syncStore") /\ task' = [task EXCEPT ![t] = l]
      BY <2>4
    <3> HIDE DEF l
    <3> QED BY <2>1, <2>2, <3>2, <3>3, <3>4, Continued
  <2> QED BY <1>1, <2>3, <2>4 DEF sync_workspaces_read
<1>2. CASE sync_workspaces_store(t)
  <2>1. pc[t] = "syncStore" /\ LocalsFor("syncStore", task[t])
    BY <1>0, <1>2 DEF sync_workspaces_store, At
  <2>2. DataOK' /\ PoolStep(t) /\ sessions' = sessions
    <3>1. task[t].list \in Stores
      BY <1>0, <2>1 DEF LocalsFor
    <3>2. /\ workspaces' = task[t].list /\ stored' = stored
          /\ disk' = disk /\ branch' = branch /\ issued' = issued
          /\ sessions' = sessions /\ proc' = proc
          /\ registered' = registered /\ args' = args
      BY <1>2 DEF sync_workspaces_store, git, pool
    <3>3. StoreTypeOK'
      BY <1>0, <3>1, <3>2 DEF StoreTypeOK
    <3>4. GitTypeOK'
      BY <1>0, <3>1, <3>2 DEF GitTypeOK
    <3>5. PoolTypeOK'
      BY <1>0, <3>1, <3>2 DEF PoolTypeOK
    <3> QED BY <3>3, <3>4, <3>5, <3>2 DEF DataOK, PoolStep
  <2>3. CASE Goto(t, "syncPrune") /\ UNCHANGED task
    <3>1. /\ "syncPrune" \in Labels
          /\ LocalsFor("syncPrune", task[t])
          /\ PoolFor(sessions', "syncPrune", task[t])
      BY <1>0, <2>1, <2>2, <2>3 DEF LocalsFor, PoolFor
    <3> QED BY <2>1, <2>2, <2>3, <3>1, ContinuedSameLocals
  <2> QED BY <1>2, <2>3 DEF sync_workspaces_store
<1>3. CASE sync_workspaces_prune(t)
  <2>1. pc[t] = "syncPrune" /\ LocalsFor("syncPrune", task[t])
    BY <1>0, <1>3 DEF sync_workspaces_prune, At
  <2>2. DataOK' /\ PoolStep(t)
    <3>2. /\ workspaces' = workspaces /\ stored' = stored
          /\ disk' = disk /\ branch' = branch /\ issued' = issued
          /\ sessions' = [w \in Ids |-> IF w \in Stale(t) THEN None ELSE sessions[w]]
          /\ proc' = proc
          /\ registered' = registered /\ args' = args
      BY <1>3 DEF sync_workspaces_prune, store, git
    <3>3. StoreTypeOK'
      BY <1>0, <3>2 DEF StoreTypeOK
    <3>4. GitTypeOK'
      BY <1>0, <3>2 DEF GitTypeOK
    <3>5. PoolTypeOK'
      BY <1>0, <3>2 DEF PoolTypeOK
    <3>6. PoolStep(t)
      BY <1>0, <3>2, <2>1 DEF PoolStep
    <3> QED BY <3>3, <3>4, <3>5, <3>6 DEF DataOK
  <2>3. CASE /\ task' = [task EXCEPT ![t].doomed = {sessions[w] : w \in Stale(t)},
                                  ![t].list = None]
             /\ Goto(t, "syncKill")
    <3>1. {sessions[w] : w \in Stale(t)} \in SUBSET Sessions
      BY <1>0, <2>1, <2>3 DEF Stale, Present, PoolTypeOK
    <3> DEFINE l1 == [task[t] EXCEPT !.doomed = {sessions[w] : w \in Stale(t)}]
    <3>2. /\ l1 \in Locals /\ l1.list = task[t].list /\ l1.op = task[t].op
      BY <1>0, <3>1 DEF Locals
    <3> HIDE DEF l1
    <3> DEFINE l == [l1 EXCEPT !.list = None]
    <3>3. /\ l \in Locals /\ l.list = None /\ l.op = task[t].op
      BY <3>2 DEF Locals
    <3>4. /\ "syncKill" \in Labels /\ LocalsFor("syncKill", l)
          /\ PoolFor(sessions', "syncKill", l)
      <4> HIDE DEF l
      <4> QED
        BY <1>0, <2>1, <2>2, <2>3, <3>1, <3>3 DEF LocalsFor, PoolFor
    <3>5. Goto(t, "syncKill") /\ task' = [task EXCEPT ![t] = l]
      BY <2>3 DEF l1
    <3> HIDE DEF l
    <3> QED BY <2>1, <2>2, <3>3, <3>4, <3>5, Continued
  <2> QED BY <1>3, <2>3 DEF sync_workspaces_prune
<1>4. CASE sync_workspaces_kill(t)
  <2>1. pc[t] = "syncKill" /\ LocalsFor("syncKill", task[t])
    BY <1>0, <1>4 DEF sync_workspaces_kill, At
  <2>2. DataOK' /\ PoolStep(t) /\ sessions' = sessions
    <3>2. /\ workspaces' = workspaces /\ stored' = stored
          /\ disk' = disk /\ branch' = branch /\ issued' = issued
          /\ sessions' = sessions
          /\ registered' = registered /\ args' = args
          /\ proc' = proc \/ \E s \in task[t].doomed : kill_child_process_tree(s)
      BY <1>4 DEF sync_workspaces_kill, store, git
    <3>3. StoreTypeOK'
      BY <1>0, <3>2 DEF StoreTypeOK
    <3>4. GitTypeOK'
      BY <1>0, <3>2 DEF GitTypeOK
    <3>5. PoolTypeOK'
      BY <1>0, <3>2 DEF PoolTypeOK, kill_child_process_tree
    <3> QED BY <3>3, <3>4, <3>5, <3>2 DEF DataOK, PoolStep
  <2>3. CASE \E s \in task[t].doomed :
             /\ task' = [task EXCEPT ![t].doomed = @ \ {s}]
             /\ Goto(t, "syncKill")
    <3>1. PICK s \in task[t].doomed :
            /\ task' = [task EXCEPT ![t].doomed = @ \ {s}]
            /\ Goto(t, "syncKill")
      BY <2>3
    <3>2. task[t].doomed \ {s} \in SUBSET Sessions
      BY <1>0, <2>1, <3>1, LocalsTypes
    <3> DEFINE l == [task[t] EXCEPT !.doomed = task[t].doomed \ {s}]
    <3>3. /\ l \in Locals /\ l.op = task[t].op
      BY <1>0, <3>2 DEF Locals
    <3>4. /\ "syncKill" \in Labels /\ LocalsFor("syncKill", l)
          /\ PoolFor(sessions', "syncKill", l)
      <4> HIDE DEF l
      <4> QED
        BY <1>0, <2>1, <2>2, <3>1, <3>2, <3>3 DEF LocalsFor, PoolFor
    <3>5. Goto(t, "syncKill") /\ task' = [task EXCEPT ![t] = l]
      BY <3>1
    <3> HIDE DEF l
    <3> QED BY <2>1, <2>2, <3>3, <3>4, <3>5, Continued
  <2>4. CASE Return(t, "ok")
    BY <2>2, <2>4, Returned
  <2> QED BY <1>4, <2>3, <2>4 DEF sync_workspaces_kill
<1> QED BY <1>1, <1>2, <1>3, <1>4 DEF SyncFromStorage

(* The arrival of a command keeps the invariant. *)
LEMMA RequestKeeps ==
  ASSUME InductiveInvariant, NEW t \in Tasks, Request(t)
  PROVE  InductiveInvariant'
<1>1. DataOK' /\ PoolStep(t)
  BY Frame DEF Request
<1>2. PICK op \in Ops :
        \E w \in IF op \in {"add", "giturl", "list"} THEN {None} ELSE issued,
           a \in IF op = "args" THEN Args ELSE {DefaultArgs},
           n \in IF op \in AddOps \cup {"rename"} THEN Names ELSE {None},
           x \in IF op = "settings" THEN Scripts ELSE {None} :
             /\ task' = [task EXCEPT ![t] = [Blank EXCEPT !.op = op, !.id = w,
                              !.args = a, !.name = n, !.script = x]]
             /\ Goto(t, FirstStep(op))
  BY DEF Request
<1>3. PICK w \in IF op \in {"add", "giturl", "list"} THEN {None} ELSE issued,
           a \in IF op = "args" THEN Args ELSE {DefaultArgs},
           n \in IF op \in AddOps \cup {"rename"} THEN Names ELSE {None},
           x \in IF op = "settings" THEN Scripts ELSE {None} :
             /\ task' = [task EXCEPT ![t] = [Blank EXCEPT !.op = op, !.id = w,
                              !.args = a, !.name = n, !.script = x]]
             /\ Goto(t, FirstStep(op))
  BY <1>2
<1> DEFINE l == [Blank EXCEPT !.op = op, !.id = w, !.args = a, !.name = n,
                              !.script = x]
<1>4. op \in AllOps /\ a \in Args /\ issued \subseteq Ids
  BY ConstantsAssumption DEF InductiveInvariant, TypeOK, GitTypeOK
<1>5. /\ l \in Locals /\ l.op = op /\ l.id = w /\ l.name = n /\ l.script = x
      /\ l.failed = FALSE
  BY <1>4, BlankLocals DEF Locals, Blank
<1>6. FirstStep(op) \in Labels \ Guarded
  BY <1>4 DEF AllOps, FirstStep, Labels, AtRest, Guarded
<1>7. LocalsFor(FirstStep(op), l)
  BY <1>4, <1>5 DEF AllOps, FirstStep, LocalsFor, NeedsId, NeedsName,
     NeedsEntry, NeedsSession, NeedsList, ConnectOps, AddOps
<1>8. PoolFor(sessions', FirstStep(op), l)
  BY <1>6 DEF PoolFor, Guarded
<1> HIDE DEF l
<1>9. task' = [task EXCEPT ![t] = l] /\ Goto(t, FirstStep(op))
  BY <1>3 DEF l
<1> QED BY <1>1, <1>5, <1>6, <1>7, <1>8, <1>9, Continued

(* Acquiring the spawn lock keeps the invariant: nobody else is guarded. *)
LEMMA LockKeeps ==
  ASSUME InductiveInvariant, NEW t \in Tasks, workspace_session_spawn_lock(t)
  PROVE  InductiveInvariant'
<1> DEFINE label == CASE task[t].op = "connect" -> "own"
                      [] task[t].op = "args" -> "current"
                      [] OTHER -> "take"
<1>1. /\ task[t] \in Locals /\ LocalsFor("lock", task[t])
      /\ spawnLock = None /\ spawnLock' = t
      /\ pc' = [pc EXCEPT ![t] = label]
      /\ task' = [task EXCEPT ![t] = task[t]]
  BY DEF workspace_session_spawn_lock, At, InductiveInvariant, TypeOK, LocalsSet
<1>2. DataOK' /\ PoolStep(t)
  BY Frame DEF workspace_session_spawn_lock
<1>3. label \in {"own", "current", "take"} /\ LocalsFor(label, task[t])
  BY <1>1 DEF LocalsFor, NeedsId, NeedsName, NeedsEntry, NeedsSession,
     NeedsList, ConnectOps
<1>4. label \in Labels /\ PoolFor(sessions', label, task[t])
  BY <1>3 DEF PoolFor, Labels, Guarded
<1> HIDE DEF label
<1>5. LocalsSet' /\ pc' \in [Tasks -> Labels] /\ task' \in [Tasks -> Locals]
  BY <1>1, <1>3, <1>4, ControlKept
<1>6. PoolReserved' /\ SingleSharedSession'
  BY <1>1, <1>2, <1>4, PoolKept DEF DataOK
<1>7. LockHeld'
  <2> SUFFICES ASSUME NEW u \in Tasks, pc'[u] \in Guarded PROVE u = t
    BY <1>1 DEF LockHeld
  <2> QED BY <1>1, NoneAssumption DEF InductiveInvariant, TypeOK, LockHeld
<1> QED BY <1>1, <1>2, <1>5, <1>6, <1>7 DEF InductiveInvariant, TypeOK, DataOK

(* The environment keeps the invariant: it only drops references. *)
LEMMA EnvironmentKeeps ==
  ASSUME InductiveInvariant, Environment
  PROVE  InductiveInvariant'
<1>0. StoreTypeOK /\ GitTypeOK /\ PoolTypeOK
  BY DEF InductiveInvariant, TypeOK
<1>1. CASE Crash
  <2>1. /\ StoreTypeOK' /\ GitTypeOK' /\ UNCHANGED <<pc, task, spawnLock, sessions>>
    BY <1>0, <1>1 DEF Crash, store, git, StoreTypeOK, GitTypeOK
  <2>2. PoolTypeOK'
    BY <1>0, <1>1 DEF Crash, PoolTypeOK, kill_child_process_tree
  <2> QED BY <2>1, <2>2 DEF InductiveInvariant, TypeOK, LocalsSet, LockHeld,
        PoolReserved, SingleSharedSession, Present
<1>2. CASE Restart
  <2>1. StoreTypeOK'
    BY <1>0, <1>2 DEF Restart, StoreTypeOK, read_workspaces, EmptyStore, Stores
  <2>2. GitTypeOK' /\ PoolTypeOK'
    BY <1>0, <1>2 DEF Restart, GitTypeOK, PoolTypeOK, git
  <2>3. /\ pc' = [t \in Tasks |-> "idle"]
        /\ task' = [t \in Tasks |-> Blank]
        /\ spawnLock' = None
        /\ sessions' = [w \in Ids |-> None]
    BY <1>2 DEF Restart
  <2>4. LocalsSet' /\ LockHeld' /\ PoolReserved' /\ SingleSharedSession'
    BY <2>3 DEF LocalsSet, LocalsFor, LockHeld, PoolReserved, PoolFor,
       SingleSharedSession, Present, Guarded, NeedsId, NeedsName, NeedsEntry,
       NeedsSession, NeedsList
  <2>5. pc' \in [Tasks -> Labels] /\ task' \in [Tasks -> Locals]
    BY <2>3, BlankLocals DEF Labels, AtRest
  <2> QED BY <2>1, <2>2, <2>3, <2>4, <2>5 DEF InductiveInvariant, TypeOK
<1>3. CASE OtherProcessSaves
  <2>1. UNCHANGED <<workspaces, disk, branch, issued, sessions, proc, registered,
                    args, pc, task, spawnLock>>
    BY <1>3 DEF OtherProcessSaves, git, pool
  <2>2. stored' \in Stores
    BY <1>0, <1>3 DEF OtherProcessSaves, StoreTypeOK, Stores
  <2>3. StoreTypeOK' /\ GitTypeOK' /\ PoolTypeOK'
    BY <1>0, <2>1, <2>2 DEF StoreTypeOK, GitTypeOK, PoolTypeOK
  <2> QED BY <2>1, <2>3 DEF InductiveInvariant, TypeOK, LocalsSet, LockHeld,
        PoolReserved, SingleSharedSession, Present
<1> QED BY <1>1, <1>2, <1>3 DEF Environment
-----------------------------------------------------------------------------
(* The program starts in a state that satisfies the invariant. *)
LEMMA InitHolds == Init => InductiveInvariant
<1> SUFFICES ASSUME Init PROVE InductiveInvariant
  OBVIOUS
<1>1. StoreTypeOK
  BY StoresAssumption DEF Init, StoreTypeOK
<1>2. GitTypeOK
  BY <1>1, StoresAssumption DEF Init, GitTypeOK, Present, Stores, Entry
<1>3. PoolTypeOK
  BY ConstantsAssumption DEF Init, PoolTypeOK
<1>4. /\ pc = [t \in Tasks |-> "idle"]
      /\ task = [t \in Tasks |-> Blank]
      /\ spawnLock = None
      /\ sessions = [w \in Ids |-> None]
  BY DEF Init
<1>5. LocalsSet /\ LockHeld /\ PoolReserved /\ SingleSharedSession
  BY <1>4 DEF LocalsSet, LocalsFor, LockHeld, PoolReserved, PoolFor,
     SingleSharedSession, Present, Guarded, NeedsId, NeedsName, NeedsEntry,
     NeedsSession, NeedsList
<1>6. pc \in [Tasks -> Labels] /\ task \in [Tasks -> Locals]
  BY <1>4, BlankLocals DEF Labels, AtRest
<1> QED BY <1>1, <1>2, <1>3, <1>4, <1>5, <1>6 DEF InductiveInvariant, TypeOK

(* Every step of the program and of its environment keeps the invariant. *)
LEMMA NextKeeps == InductiveInvariant /\ [Next]_vars => InductiveInvariant'
<1> SUFFICES ASSUME InductiveInvariant, [Next]_vars PROVE InductiveInvariant'
  OBVIOUS
<1>1. CASE UNCHANGED vars
  BY <1>1 DEF vars, InductiveInvariant, TypeOK, StoreTypeOK, GitTypeOK,
     PoolTypeOK, LocalsSet, LockHeld, PoolReserved, SingleSharedSession, Present
<1>2. ASSUME NEW t \in Tasks, Advance(t) PROVE InductiveInvariant'
  BY <1>2, ConnectKeeps, AddWorkspaceKeeps, RuntimeArgsKeeps,
     RemoveWorkspaceKeeps, UpdateSettingsKeeps, RenameWorktreeKeeps,
     SyncFromStorageKeeps DEF Advance
<1>3. ASSUME NEW t \in Tasks, Request(t) \/ workspace_session_spawn_lock(t)
      PROVE  InductiveInvariant'
  BY <1>3, RequestKeeps, LockKeeps
<1>4. CASE Environment
  BY <1>4, EnvironmentKeeps
<1> QED BY <1>1, <1>2, <1>3, <1>4 DEF Next

(* InductiveInvariant is an invariant of the workspace lifecycle, with any *)
(* number of workspaces, sessions and concurrent commands.                 *)
THEOREM Invariance == Spec => []InductiveInvariant
<1>1. Init => InductiveInvariant
  BY InitHolds
<1>2. InductiveInvariant /\ [Next]_vars => InductiveInvariant'
  BY NextKeeps
<1> QED BY <1>1, <1>2, PTL DEF Spec

(* Every variable keeps its type. *)
THEOREM TypeCorrect == Spec => []TypeOK
<1>1. InductiveInvariant => TypeOK
  BY DEF InductiveInvariant
<1> QED BY <1>1, Invariance, PTL

(* All connected workspaces share one app-server session, whatever         *)
(* commands race and whichever processes die (take_live_shared_session).   *)
THEOREM Sharing == Spec => []SingleSharedSession
<1>1. InductiveInvariant => SingleSharedSession
  BY DEF InductiveInvariant
<1> QED BY <1>1, Invariance, PTL

(* Only spawn_session starts a process. *)
LEMMA OnlySpawnStarts ==
  ASSUME InductiveInvariant, Next, NEW s \in Sessions,
         proc[s] = "unborn", proc'[s] = "alive"
  PROVE  \E t \in Tasks : spawn_session(t)
<1>1. (\A r \in Sessions : ~kill_child_process_tree(r)) /\ proc' # proc
  BY DEF kill_child_process_tree, InductiveInvariant, TypeOK, PoolTypeOK
<1>2. ASSUME NEW t \in Tasks,
             Request(t) \/ workspace_session_spawn_lock(t)
               \/ UpdateSettings(t) \/ RenameWorktree(t)
      PROVE  FALSE
  BY <1>1, <1>2 DEF Request, workspace_session_spawn_lock, UpdateSettings,
     update_workspace_settings_apply, update_workspace_settings_propagate,
     update_workspace_settings_snapshot, save_list, RenameWorktree,
     rename_worktree_lookup, rename_worktree_branch, rename_worktree_move,
     rename_worktree_update, rename_worktree_move_back,
     rename_worktree_branch_back, rename_worktree_restore,
     rename_worktree_register, pool
<1>3. ASSUME NEW t \in Tasks, Connect(t)
      PROVE  spawn_session(t)
  BY <1>1, <1>3 DEF Connect, connect_workspace_precheck,
     resolve_entry_and_parent, connect_workspace_own,
     connect_workspace_own_alive, take_live_shared_session,
     take_live_shared_session_alive, register_workspace_with_path,
     connect_workspace_insert, pool
<1>4. ASSUME NEW t \in Tasks,
             AddWorkspace(t) \/ RuntimeArgs(t) \/ RemoveWorkspace(t)
               \/ SyncFromStorage(t)
      PROVE  FALSE
  <2>1. task[t] \in Locals /\ LocalsFor(pc[t], task[t])
    BY DEF InductiveInvariant, TypeOK, LocalsSet
  <2>2. \/ proc' = proc
        \/ /\ pc[t] \in {"undoKill", "kill"}
           /\ kill_child_process_tree(task[t].session)
        \/ pc[t] = "killOld" /\ kill_child_process_tree(task[t].old)
        \/ \E r \in task[t].doomed : kill_child_process_tree(r)
    BY <1>4 DEF AddWorkspace, add_workspace_prepare, add_worktree_lookup,
       add_worktree_git, add_workspace_persist, add_workspace_undo,
       add_workspace_undo_kill, RuntimeArgs, runtime_codex_args_current,
       runtime_codex_args_swap, runtime_codex_args_register,
       runtime_codex_args_kill_old, RemoveWorkspace, remove_workspace_lookup,
       remove_workspace_child, remove_worktree_lookup,
       kill_session_by_id_remove, unregister_workspace,
       kill_session_by_id_kill, remove_worktree_files,
       remove_workspace_forget, SyncFromStorage, sync_workspaces_read,
       sync_workspaces_store, sync_workspaces_prune, sync_workspaces_kill,
       pool, At
  <2>3. \A r : kill_child_process_tree(r) => proc'[s] = proc[s]
    BY DEF kill_child_process_tree, InductiveInvariant, TypeOK, PoolTypeOK
  <2> QED BY <2>2, <2>3
<1>5. CASE Environment
  BY <1>1, <1>5 DEF Environment, Crash, Restart, OtherProcessSaves, pool,
     InductiveInvariant, TypeOK, PoolTypeOK
<1> QED BY <1>2, <1>3, <1>4, <1>5 DEF Next, Advance

(* A process is started only when no workspace refers to a session, except *)
(* to replace the shared session by one with other codex args.             *)
THEOREM SpawnDiscipline == Spec => SpawnOnlyIntoEmptyPool
<1>1. InductiveInvariant /\ [Next]_vars => [SpawnStep]_vars
  <2> SUFFICES ASSUME InductiveInvariant, Next, NEW s \in Sessions,
                      proc[s] = "unborn", proc'[s] = "alive"
               PROVE  \/ Present(sessions) = {}
                      \/ \E t \in Tasks : task[t].op = "args" /\ spawnLock = t
    BY DEF SpawnStep
  <2>1. PICK t \in Tasks : spawn_session(t)
    BY OnlySpawnStarts
  <2>2. pc[t] = "spawn"
    BY <2>1 DEF spawn_session, At
  <2>3. CASE task[t].op = "args"
    BY <2>2, <2>3 DEF InductiveInvariant, LockHeld, Guarded
  <2>4. CASE task[t].op # "args"
    BY <2>2, <2>4 DEF InductiveInvariant, PoolReserved, PoolFor, Present
  <2> QED BY <2>3, <2>4
<1> QED BY <1>1, Invariance, PTL DEF Spec, SpawnOnlyIntoEmptyPool
=============================================================================
