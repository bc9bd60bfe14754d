----------------------- MODULE WorkspacesStoreProofs ------------------------
(***************************************************************************)
(* Proofs about the map of workspaces, its file and the checkouts in       *)
(* WorkspacesCore: a worktree keeps its parent, a failed add leaves        *)
(* nothing, and, for a client that waits for each answer, the connected    *)
(* workspaces are known and every entry describes its checkout.            *)
(*                                                                         *)
(* All of them rest on FreshIds: until the command that made up an id      *)
(* inserts it, the id is in no map, no file and no list that some other    *)
(* command has copied and will write back.                                 *)
(***************************************************************************)
EXTENDS WorkspacesPoolProofs

(* The steps of an add between making up the id and inserting it. *)
Minting == {"lock", "take", "takeAlive", "spawn", "persist"}

(* The steps at which a command has not looked its id up yet. *)
Early == AtRest \cup {"precheck", "resolve", "prepare", "lookup", "apply"}

RemoveLabels == {"child", "drop", "unregister", "kill", "files", "forget"}

AddsFor(label, l) == label \in Minting /\ l.op \in AddOps

Adds(t) == AddsFor(pc[t], task[t])

(* A command may write w back to a map or a file, or works on it. *)
MentionFor(label, l, w) ==
    \/ label \in NeedsList /\ l.list[w] # None
    \/ label \in RemoveLabels /\ (w \in l.todo \cup l.gone \/ w = l.cur)
    \/ label \notin Early /\ ~AddsFor(label, l) /\ w = l.id

Mentioned(w) ==
    \/ workspaces[w] # None
    \/ stored # Torn /\ stored[w] # None
    \/ \E u \in Tasks : MentionFor(pc[u], task[u], w)

(* An id that an add has made up is its own until it is inserted. *)
FreshIds ==
    \A t \in Tasks : Adds(t) =>
        /\ task[t].id \in issued
        /\ ~Mentioned(task[t].id)
        /\ \A u \in Tasks \ {t} : Adds(u) => task[u].id # task[t].id

IdsIssued ==
    /\ \A w \in Ids : Mentioned(w) => w \in issued
    /\ \A t \in Tasks : task[t].id \in issued \cup {None}

-----------------------------------------------------------------------------
(* FreshIds holds whatever commands are issued. *)

(* What a step of t may do to ids. *)
MentionStep(t) ==
    /\ issued \subseteq issued'
    /\ \A w \in Ids : Mentioned(w)' =>
          Mentioned(w) \/ (Adds(t) /\ w = task[t].id /\ ~Adds(t)')
    /\ Adds(t)' => \/ Adds(t) /\ task'[t].id = task[t].id
                   \/ task'[t].id \in issued' \ issued
    /\ task'[t].id \in issued' \cup {None}

LEMMA FreshStep ==
  ASSUME InductiveInvariant, FreshIds, IdsIssued, NEW t \in Tasks,
         OthersStay(t), MentionStep(t), InductiveInvariant'
  PROVE  FreshIds' /\ IdsIssued'
<1>0. /\ \A u \in Tasks : Adds(u) => task[u].id \in Ids
      /\ \A u \in Tasks : Adds(u)' => task'[u].id \in Ids
  BY DEF InductiveInvariant, LocalsSet, LocalsFor, Adds, AddsFor, Minting, NeedsId
<1>1. ASSUME NEW u \in Tasks, u # t
      PROVE  Adds(u)' = Adds(u) /\ task'[u].id = task[u].id
  BY <1>1 DEF OthersStay, Adds
<1>2. IdsIssued'
  <2>1. ASSUME NEW w \in Ids, Mentioned(w)' PROVE w \in issued'
    BY <2>1 DEF MentionStep, IdsIssued, FreshIds
  <2>2. ASSUME NEW u \in Tasks PROVE task'[u].id \in issued' \cup {None}
    BY <1>1 DEF MentionStep, IdsIssued
  <2> QED BY <2>1, <2>2 DEF IdsIssued
<1>3. ASSUME NEW u \in Tasks, Adds(u)'
      PROVE  /\ task'[u].id \in issued'
             /\ ~Mentioned(task[u].id)'
             /\ \A v \in Tasks \ {u} : Adds(v)' => task'[v].id # task'[u].id
  <2>0. PICK w \in Ids : w = task'[u].id
    BY <1>0, <1>3
  <2>1. CASE u # t
    <3>1. Adds(u) /\ w = task[u].id /\ w \in issued /\ ~Mentioned(w)
      BY <1>1, <1>3, <2>0, <2>1 DEF FreshIds
    <3>2. Adds(t) => task[t].id # w
      BY <2>1, <3>1 DEF FreshIds
    <3>3. ~Mentioned(w)'
      BY <3>1, <3>2 DEF MentionStep
    <3>4. \A v \in Tasks \ {u} : Adds(v)' => task'[v].id # w
      BY <1>1, <2>1, <3>1, <3>2 DEF FreshIds, MentionStep
    <3> QED BY <2>0, <3>1, <3>3, <3>4 DEF MentionStep
  <2>2. CASE u = t /\ Adds(t) /\ task'[t].id = task[t].id
    <3>1. w = task[t].id /\ w \in issued /\ ~Mentioned(w)
      BY <2>0, <2>2 DEF FreshIds
    <3>2. ~Mentioned(w)'
      BY <1>3, <2>2, <3>1 DEF MentionStep
    <3>3. \A v \in Tasks \ {u} : Adds(v)' => task'[v].id # w
      BY <1>1, <2>2, <3>1 DEF FreshIds
    <3> QED BY <2>0, <3>1, <3>2, <3>3 DEF MentionStep
  <2>3. CASE u = t /\ w \in issued' \ issued
    <3>1. ~Mentioned(w) /\ (Adds(t) => task[t].id # w)
      BY <2>3 DEF IdsIssued, FreshIds
    <3>2. ~Mentioned(w)'
      BY <3>1 DEF MentionStep
    <3>3. \A v \in Tasks \ {u} : Adds(v)' => task'[v].id # w
      BY <1>1, <2>3 DEF FreshIds
    <3> QED BY <2>0, <2>3, <3>2, <3>3
  <2> QED BY <1>3, <2>0, <2>1, <2>2, <2>3 DEF MentionStep
<1>4. FreshIds'
  BY <1>3 DEF FreshIds
<1> QED BY <1>2, <1>4

(* For the second part of MentionStep, only t itself matters. *)
LEMMA MentionsOf ==
  ASSUME NEW t \in Tasks, OthersStay(t), NEW w \in Ids, Mentioned(w)',
         workspaces'[w] = None, stored' = Torn \/ stored'[w] = None
  PROVE  MentionFor(pc'[t], task'[t], w) \/ Mentioned(w)
<1>1. PICK u \in Tasks : MentionFor(pc'[u], task'[u], w)
  BY DEF Mentioned
<1>2. CASE u = t
  BY <1>1, <1>2
<1>3. CASE u # t
  BY <1>1, <1>3 DEF OthersStay, Mentioned
<1> QED BY <1>2, <1>3

(* What t mentions after a step, it or somebody else mentioned before. *)
LocalMentions(t) ==
    /\ \A w \in Ids : MentionFor(pc'[t], task'[t], w) =>
          Mentioned(w) \/ (Adds(t) /\ w = task[t].id /\ ~Adds(t)')
    /\ Adds(t)' => \/ Adds(t) /\ task'[t].id = task[t].id
                   \/ task'[t].id \in issued' \ issued
    /\ task'[t].id \in issued' \cup {None}

(* A command that answers mentions nothing any more. *)
LEMMA ReturnMentions ==
  ASSUME InductiveInvariant, NEW t \in Tasks, NEW verdict \in AtRest,
         Return(t, verdict)
  PROVE  LocalMentions(t)
<1>1. pc'[t] = verdict /\ task'[t] = Blank
  BY DEF Return, InductiveInvariant, TypeOK
<1> QED BY <1>1 DEF LocalMentions, MentionFor, Adds, AddsFor, Minting, Early,
      NeedsList, RemoveLabels, AtRest, Blank

LEMMA AdvanceMentions ==
  ASSUME InductiveInvariant, PoolInvariant, IdsIssued, NEW t \in Tasks,
         Advance(t)
  PROVE  LocalMentions(t)
<1>0. /\ pc \in [Tasks -> Labels] /\ task \in [Tasks -> Locals]
      /\ task[t] \in Locals /\ LocalsFor(pc[t], task[t])
      /\ CommandFor(pc[t], task[t]) /\ workspaces \in Stores
      /\ task[t].id \in issued \cup {None}
  BY DEF InductiveInvariant, TypeOK, StoreTypeOK, LocalsSet, PoolInvariant,
     CommandsIssued, IdsIssued
<1>w. \A w \in Ids : workspaces[w] # None => Mentioned(w)
  BY DEF Mentioned
<1>s. \A w \in Ids : stored # Torn /\ stored[w] # None => Mentioned(w)
  BY DEF Mentioned
<1>m. \A w \in Ids : MentionFor(pc[t], task[t], w) => Mentioned(w)
  BY DEF Mentioned
<1> USE DEF LocalMentions, MentionFor, Adds, AddsFor, Minting, Early, NeedsList,
            RemoveLabels, AtRest, Goto, Return, At, Locals, Blank, LocalsFor,
            NeedsId, AddOps, ConnectOps
<1>1. CASE connect_workspace_precheck(t)
  BY <1>0, <1>m, <1>1 DEF connect_workspace_precheck, git
<1>2. CASE resolve_entry_and_parent(t)
  <2>1. CASE Return(t, "err")
    BY <2>1, ReturnMentions
  <2>2. CASE /\ workspaces[task[t].id] # None
             /\ Goto(t, "lock") /\ UNCHANGED task
    <3>1. /\ workspaces[task[t].id] # None
          /\ pc[t] = "resolve" /\ pc'[t] = "lock"
          /\ task'[t] = task[t] /\ UNCHANGED issued
      BY <1>0, <1>2, <2>2 DEF resolve_entry_and_parent, git
    <3>2. ~Adds(t)' /\ task'[t].id \in issued' \cup {None}
      BY <1>0, <3>1
    <3>3. \A w \in Ids : MentionFor("lock", task'[t], w) => Mentioned(w)
      BY <1>0, <1>w, <1>m, <3>1
    <3> QED BY <3>1, <3>2, <3>3
  <2> QED BY <1>2, <2>1, <2>2 DEF resolve_entry_and_parent
<1>3. CASE connect_workspace_own(t)
  BY <1>0, <1>m, <1>3 DEF connect_workspace_own, git
<1>4. CASE connect_workspace_own_alive(t)
  BY <1>0, <1>m, <1>4 DEF connect_workspace_own_alive, git
<1>5. CASE take_live_shared_session(t)
  BY <1>0, <1>m, <1>5 DEF take_live_shared_session, git
<1>6. CASE take_live_shared_session_alive(t)
  BY <1>0, <1>m, <1>6 DEF take_live_shared_session_alive, AfterSession, git
<1>7. CASE spawn_session(t)
  <2>1. CASE Return(t, "err")
    BY <2>1, ReturnMentions
  <2>2. CASE /\ \E s \in Sessions : task' = [task EXCEPT ![t].session = s,
                                                       ![t].spawned = TRUE]
             /\ Goto(t, IF task[t].op = "args" THEN "swap" ELSE AfterSession(t))
    <3>1. /\ pc[t] = "spawn" /\ pc'[t] \in {"swap", "register", "persist"}
          /\ pc'[t] = "persist" <=> task[t].op \in AddOps
          /\ task'[t].id = task[t].id /\ task'[t].op = task[t].op
          /\ UNCHANGED issued
      <4>1. pc[t] = "spawn" /\ UNCHANGED issued
        BY <1>7 DEF spawn_session
      <4>2. task'[t].id = task[t].id /\ task'[t].op = task[t].op
        BY <1>0, <2>2
      <4>3. pc'[t] = IF task[t].op = "args" THEN "swap"
                     ELSE IF task[t].op = "connect" THEN "register" ELSE "persist"
        BY <1>0, <2>2 DEF AfterSession
      <4>4. task[t].op \in ConnectOps \/ task[t].op \in AddOps
        BY <1>0, <4>1
      <4> QED BY <4>1, <4>2, <4>3, <4>4
    <3>2. task'[t].id \in issued' \cup {None}
      BY <1>0, <3>1
    <3>3. CASE task[t].op \in AddOps
      BY <1>0, <3>1, <3>2, <3>3
    <3>4. CASE task[t].op \notin AddOps
      <4>1. \A w \in Ids : MentionFor("spawn", task[t], w) => Mentioned(w)
        BY <1>m, <3>1
      <4>2. task[t].id \in Ids => Mentioned(task[t].id)
        BY <3>4, <4>1
      <4> QED BY <1>0, <3>1, <3>2, <3>4, <4>2
    <3> QED BY <3>3, <3>4
  <2> QED BY <1>7, <2>1, <2>2 DEF spawn_session
<1>8. CASE register_workspace_with_path(t)
  BY <1>0, <1>m, <1>8 DEF register_workspace_with_path, git
<1>9. CASE connect_workspace_insert(t)
  BY <1>0, <1>m, <1>9 DEF connect_workspace_insert, git
<1>10. CASE add_workspace_prepare(t)
  <2>1. CASE Return(t, "err")
    BY <2>1, ReturnMentions
  <2>2. ASSUME NEW w \in Ids \ issued, issued' = issued \cup {w},
               Goto(t, "lock"),
               \E x : task' = [task EXCEPT ![t].id = w, ![t].entry = x]
        PROVE  LocalMentions(t)
    <3>1. /\ pc'[t] = "lock"
          /\ task'[t].id = w /\ task'[t].op \in AddOps
          /\ w \in issued' \ issued
      BY <1>0, <1>10, <2>2 DEF add_workspace_prepare, CommandFor
    <3> QED BY <3>1
  <2> QED BY <1>10, <2>1, <2>2 DEF add_workspace_prepare, MintEntry
<1>11. CASE add_worktree_lookup(t)
  <2>1. CASE Return(t, "err")
    BY <2>1, ReturnMentions
  <2>2. CASE /\ IsMain(workspaces[task[t].id])
             /\ Goto(t, "gitAdd")
             /\ task' = [task EXCEPT ![t].entry = workspaces[task[t].id]]
    <3>1. /\ workspaces[task[t].id] # None
          /\ pc[t] = "lookup" /\ pc'[t] = "gitAdd"
          /\ task'[t].id = task[t].id /\ task'[t].op = task[t].op
          /\ UNCHANGED issued
      BY <1>0, <1>11, <2>2 DEF add_worktree_lookup, git, IsMain
    <3>2. ~Adds(t)' /\ task'[t].id \in issued' \cup {None}
      BY <1>0, <3>1
    <3>3. \A w \in Ids : MentionFor("gitAdd", task'[t], w) => Mentioned(w)
      BY <1>0, <1>w, <1>m, <3>1
    <3> QED BY <3>1, <3>2, <3>3
  <2> QED BY <1>11, <2>1, <2>2 DEF add_worktree_lookup
<1>12. CASE add_worktree_git(t)
  <2>1. CASE Return(t, "err")
    BY <2>1, ReturnMentions
  <2>2. ASSUME NEW w \in Ids \ issued, issued' = issued \cup {w},
               Goto(t, "lock"),
               \E x : task' = [task EXCEPT ![t].id = w, ![t].entry = x]
        PROVE  LocalMentions(t)
    <3>1. /\ pc'[t] = "lock"
          /\ task'[t].id = w /\ task'[t].op \in AddOps
          /\ w \in issued' \ issued
      BY <1>0, <1>12, <2>2 DEF add_worktree_git, CommandFor
    <3> QED BY <3>1
  <2> QED BY <1>12, <2>1, <2>2 DEF add_worktree_git, MintEntry
<1>13. CASE add_workspace_persist(t)
  BY <1>0, <1>m, <1>13 DEF add_workspace_persist, git
<1>14. CASE add_workspace_undo(t)
  BY <1>0, <1>m, <1>14 DEF add_workspace_undo, git
<1>15. CASE add_workspace_undo_kill(t)
  BY <1>0, <1>m, <1>15 DEF add_workspace_undo_kill, git
<1>16. CASE runtime_codex_args_current(t)
  BY <1>0, <1>m, <1>16 DEF runtime_codex_args_current, git
<1>17. CASE runtime_codex_args_swap(t)
  BY <1>0, <1>m, <1>17 DEF runtime_codex_args_swap, git
<1>18. CASE runtime_codex_args_register(t)
  BY <1>0, <1>m, <1>18 DEF runtime_codex_args_register, git
<1>19. CASE runtime_codex_args_kill_old(t)
  BY <1>0, <1>m, <1>19 DEF runtime_codex_args_kill_old, git
<1>20. CASE remove_workspace_lookup(t)
  <2>1. CASE Return(t, "err")
    BY <2>1, ReturnMentions
  <2>2. CASE /\ IsMain(workspaces[task[t].id])
             /\ Goto(t, "child")
    <3>1. /\ workspaces[task[t].id] # None
          /\ pc[t] = "lookup" /\ pc'[t] = "child"
          /\ task'[t].id = task[t].id /\ task'[t].op = task[t].op
          /\ task'[t].gone = {} /\ task'[t].cur = None
          /\ task'[t].todo = Children(workspaces, task[t].id)
          /\ task'[t].list = Only(workspaces, Children(workspaces, task[t].id))
          /\ UNCHANGED issued
      BY <1>0, <1>20, <2>2 DEF remove_workspace_lookup, git, CommandFor, IsMain
    <3>2. ~Adds(t)' /\ task'[t].id \in issued' \cup {None}
      BY <1>0, <3>1
    <3>3. \A w \in Ids : MentionFor("child", task'[t], w) => Mentioned(w)
      <4>1. \A w \in Ids : w \in task'[t].todo => workspaces[w] # None
        BY <3>1 DEF Children
      <4>2. \A w \in Ids : task'[t].list[w] # None => workspaces[w] # None
        BY <3>1 DEF Only
      <4>3. \A w \in Ids : MentionFor("child", task'[t], w) =>
              \/ task'[t].list[w] # None \/ w \in task'[t].todo
              \/ w = task[t].id
        BY <3>1, NoneAssumption
      <4> QED BY <1>w, <3>1, <4>1, <4>2, <4>3
    <3> QED BY <3>1, <3>2, <3>3
  <2> QED BY <1>20, <2>1, <2>2 DEF remove_workspace_lookup, CommandFor
<1>21. CASE remove_workspace_child(t)
  <2>0. /\ pc[t] = "child" /\ UNCHANGED issued
        /\ \A w \in Ids : MentionFor("child", task[t], w) => Mentioned(w)
    BY <1>m, <1>21 DEF remove_workspace_child, git
  <2>1. CASE Goto(t, "forget") /\ UNCHANGED task
    BY <1>0, <2>0, <2>1
  <2>2. ASSUME NEW c \in task[t].todo, Goto(t, "drop"),
               task' = [task EXCEPT ![t].todo = @ \ {c}, ![t].cur = c]
        PROVE  LocalMentions(t)
    <3>1. /\ pc'[t] = "drop" /\ task'[t].id = task[t].id
          /\ task'[t].op = task[t].op /\ task'[t].list = task[t].list
          /\ task'[t].gone = task[t].gone /\ task'[t].cur = c
          /\ task'[t].todo = task[t].todo \ {c}
      BY <1>0, <2>2
    <3>2. \A w \in Ids : MentionFor("drop", task'[t], w)
                           => MentionFor("child", task[t], w)
      BY <2>2, <3>1
    <3> QED BY <1>0, <2>0, <3>1, <3>2
  <2>3. CASE /\ Goto(t, "drop")
             /\ task' = [task EXCEPT ![t].cur = task[t].id,
                                     ![t].gone = @ \cup {task[t].id}]
    <3>1. /\ pc'[t] = "drop" /\ task'[t].id = task[t].id
          /\ task'[t].op = task[t].op /\ task'[t].list = task[t].list
          /\ task'[t].gone = task[t].gone \cup {task[t].id}
          /\ task'[t].cur = task[t].id /\ task'[t].todo = task[t].todo
      BY <1>0, <2>3
    <3>2. \A w \in Ids : MentionFor("drop", task'[t], w)
                           => MentionFor("child", task[t], w)
      BY <2>3, <3>1
    <3> QED BY <1>0, <2>0, <3>1, <3>2
  <2> QED BY <1>21, <2>1, <2>2, <2>3 DEF remove_workspace_child
<1>22. CASE remove_worktree_lookup(t)
  <2>1. CASE Return(t, "err")
    BY <2>1, ReturnMentions
  <2>2. CASE /\ workspaces[task[t].id] # None
             /\ Goto(t, "drop")
             /\ task' = [task EXCEPT ![t].list = Only(workspaces, {task[t].id}),
                ![t].cur = task[t].id, ![t].gone = {task[t].id}]
    <3>1. /\ workspaces[task[t].id] # None
          /\ pc[t] = "lookup" /\ pc'[t] = "drop"
          /\ task'[t].id = task[t].id /\ task'[t].op = task[t].op
          /\ task'[t].todo = task[t].todo
          /\ task'[t].gone = {task[t].id} /\ task'[t].cur = task[t].id
          /\ task'[t].list = Only(workspaces, {task[t].id})
          /\ UNCHANGED issued
      BY <1>0, <1>22, <2>2 DEF remove_worktree_lookup, git
    <3>2. ~Adds(t)' /\ task'[t].id \in issued' \cup {None}
      BY <1>0, <3>1
    <3>3. \A w \in Ids : MentionFor("drop", task'[t], w) => Mentioned(w)
      <4>1. task[t].todo = {}
        BY <1>0, <3>1 DEF CommandFor
      <4>2. \A w \in Ids : task'[t].list[w] # None => workspaces[w] # None
        BY <3>1 DEF Only
      <4>3. \A w \in Ids : MentionFor("drop", task'[t], w) =>
              \/ task'[t].list[w] # None \/ w = task[t].id
        BY <3>1, <4>1
      <4> QED BY <1>w, <3>1, <4>2, <4>3
    <3> QED BY <3>1, <3>2, <3>3
  <2> QED BY <1>22, <2>1, <2>2 DEF remove_worktree_lookup
<1>23. CASE kill_session_by_id_remove(t)
  BY <1>0, <1>m, <1>23 DEF kill_session_by_id_remove, AfterKill, git
<1>24. CASE unregister_workspace(t)
  BY <1>0, <1>m, <1>24 DEF unregister_workspace, KillReturns, AfterKill, git
<1>25. CASE kill_session_by_id_kill(t)
  BY <1>0, <1>m, <1>25 DEF kill_session_by_id_kill, KillReturns, AfterKill, git
<1>26. CASE remove_worktree_files(t)
  BY <1>0, <1>m, <1>26 DEF remove_worktree_files, git
<1>27. CASE remove_workspace_forget(t)
  BY <1>0, <1>m, <1>27 DEF remove_workspace_forget, git
<1>28. CASE update_workspace_settings_apply(t)
  <2>1. CASE Return(t, "err")
    BY <2>1, ReturnMentions
  <2>2. CASE /\ workspaces[task[t].id] # None
             /\ Goto(t, "propagate")
             /\ \E x : task' = [task EXCEPT ![t].todo = x]
    <3>1. /\ workspaces[task[t].id] # None
          /\ pc[t] = "apply" /\ pc'[t] = "propagate"
          /\ task'[t].id = task[t].id /\ task'[t].op = task[t].op
          /\ UNCHANGED issued
      BY <1>0, <1>28, <2>2 DEF update_workspace_settings_apply, git
    <3>2. ~Adds(t)' /\ task'[t].id \in issued' \cup {None}
      BY <1>0, <3>1
    <3>3. \A w \in Ids : MentionFor("propagate", task'[t], w) => Mentioned(w)
      BY <1>0, <1>w, <1>m, <3>1
    <3> QED BY <3>1, <3>2, <3>3
  <2> QED BY <1>28, <2>1, <2>2 DEF update_workspace_settings_apply
<1>29. CASE update_workspace_settings_propagate(t)
  BY <1>0, <1>m, <1>29 DEF update_workspace_settings_propagate, git
<1>30. CASE update_workspace_settings_snapshot(t)
  <2>2. CASE /\ Goto(t, "save")
             /\ task' = [task EXCEPT ![t].list = workspaces]
    <3>1. /\ pc[t] = "snapshot" /\ pc'[t] = "save"
          /\ task'[t].id = task[t].id /\ task'[t].op = task[t].op
          /\ task'[t].list = workspaces
          /\ UNCHANGED issued
      BY <1>0, <1>30, <2>2 DEF update_workspace_settings_snapshot, git
    <3>2. ~Adds(t)' /\ task'[t].id \in issued' \cup {None}
      BY <1>0, <3>1
    <3>3. \A w \in Ids : MentionFor("save", task'[t], w) => Mentioned(w)
      BY <1>0, <1>w, <1>m, <3>1
    <3> QED BY <3>1, <3>2, <3>3
  <2> QED BY <1>30, <2>2 DEF update_workspace_settings_snapshot
<1>31. CASE save_list(t)
  BY <1>0, <1>m, <1>31 DEF save_list, git
<1>32. CASE rename_worktree_lookup(t)
  <2>1. CASE Return(t, "err")
    BY <2>1, ReturnMentions
  <2>2. CASE /\ workspaces[task[t].id] # None
             /\ Goto(t, "branchMove")
             /\ task' = [task EXCEPT ![t].entry = workspaces[task[t].id]]
    <3>1. /\ workspaces[task[t].id] # None
          /\ pc[t] = "lookup" /\ pc'[t] = "branchMove"
          /\ task'[t].id = task[t].id /\ task'[t].op = task[t].op
          /\ UNCHANGED issued
      BY <1>0, <1>32, <2>2 DEF rename_worktree_lookup, git
    <3>2. ~Adds(t)' /\ task'[t].id \in issued' \cup {None}
      BY <1>0, <3>1
    <3>3. \A w \in Ids : MentionFor("branchMove", task'[t], w) => Mentioned(w)
      BY <1>0, <1>w, <1>m, <3>1
    <3> QED BY <3>1, <3>2, <3>3
  <2> QED BY <1>32, <2>1, <2>2 DEF rename_worktree_lookup
<1>33. CASE rename_worktree_branch(t)
  BY <1>0, <1>m, <1>33 DEF rename_worktree_branch, Moves, git
<1>34. CASE rename_worktree_move(t)
  BY <1>0, <1>m, <1>34 DEF rename_worktree_move, git
<1>35. CASE rename_worktree_update(t)
  <2>0. /\ pc[t] = "update" /\ UNCHANGED issued
        /\ \A w \in Ids : w = task[t].id => Mentioned(w)
    BY <1>m, <1>35 DEF rename_worktree_update, git
  <2>1. CASE Goto(t, "renameBack") /\ UNCHANGED task
    BY <1>0, <2>0, <2>1
  <2>2. CASE /\ workspaces[task[t].id] # None
             /\ workspaces' = [workspaces EXCEPT ![task[t].id].branch = task[t].name,
                                                 ![task[t].id].path = task[t].name]
             /\ task' = [task EXCEPT ![t].before = workspaces[task[t].id],
                                     ![t].list = workspaces']
             /\ Goto(t, "save")
    <3>1. /\ pc'[t] = "save" /\ task'[t].id = task[t].id
          /\ task'[t].op = task[t].op /\ task'[t].list = workspaces'
      BY <1>0, <2>2
    <3>2. \A w \in Ids : w # task[t].id => workspaces'[w] = workspaces[w]
      BY <1>0, <2>2 DEF Stores
    <3>3. \A w \in Ids : MentionFor("save", task'[t], w) => Mentioned(w)
      BY <1>w, <2>0, <3>1, <3>2
    <3> QED BY <1>0, <2>0, <3>1, <3>3
  <2> QED BY <1>35, <2>1, <2>2 DEF rename_worktree_update
<1>36. CASE rename_worktree_move_back(t)
  BY <1>0, <1>m, <1>36 DEF rename_worktree_move_back, git
<1>37. CASE rename_worktree_branch_back(t)
  BY <1>0, <1>m, <1>37 DEF rename_worktree_branch_back, git
<1>38. CASE rename_worktree_restore(t)
  BY <1>0, <1>m, <1>38 DEF rename_worktree_restore, git
<1>39. CASE rename_worktree_register(t)
  BY <1>0, <1>m, <1>39 DEF rename_worktree_register, git
<1>40. CASE sync_workspaces_read(t)
  BY <1>0, <1>m, <1>s, <1>40 DEF sync_workspaces_read, git
<1>41. CASE sync_workspaces_store(t)
  BY <1>0, <1>m, <1>41 DEF sync_workspaces_store, git
<1>42. CASE sync_workspaces_prune(t)
  BY <1>0, <1>m, <1>42 DEF sync_workspaces_prune, git
<1>43. CASE sync_workspaces_kill(t)
  BY <1>0, <1>m, <1>43 DEF sync_workspaces_kill, git
<1> QED BY <1>1, <1>2, <1>3, <1>4, <1>5, <1>6, <1>7, <1>8, <1>9, <1>10, <1>11, <1>12, <1>13, <1>14, <1>15, <1>16, <1>17, <1>18, <1>19, <1>20, <1>21, <1>22, <1>23, <1>24, <1>25, <1>26, <1>27, <1>28, <1>29, <1>30, <1>31, <1>32, <1>33, <1>34, <1>35, <1>36, <1>37, <1>38, <1>39, <1>40, <1>41, <1>42, <1>43 DEF Advance, Connect, AddWorkspace, RuntimeArgs, RemoveWorkspace, UpdateSettings, RenameWorktree, SyncFromStorage

(* The steps that change the map of workspaces or its file. *)
Saves(t) ==
    \/ add_workspace_persist(t)
    \/ add_workspace_undo(t)
    \/ remove_workspace_forget(t)
    \/ update_workspace_settings_apply(t)
    \/ update_workspace_settings_propagate(t)
    \/ save_list(t)
    \/ rename_worktree_update(t)
    \/ rename_worktree_restore(t)
    \/ sync_workspaces_store(t)

LEMMA SavesOrKeeps ==
  ASSUME NEW t \in Tasks, Advance(t)
  PROVE  Saves(t) \/ UNCHANGED <<workspaces, stored>>
<1>1. CASE Connect(t)
  BY <1>1 DEF Connect, Saves, store, connect_workspace_precheck,
    resolve_entry_and_parent, connect_workspace_own,
    connect_workspace_own_alive, take_live_shared_session,
    take_live_shared_session_alive, spawn_session,
    register_workspace_with_path, connect_workspace_insert
<1>2. CASE AddWorkspace(t)
  BY <1>2 DEF AddWorkspace, Saves, store, add_workspace_prepare,
    add_worktree_lookup, add_worktree_git, add_workspace_undo_kill
<1>3. CASE RuntimeArgs(t)
  BY <1>3 DEF RuntimeArgs, Saves, store, runtime_codex_args_current,
    runtime_codex_args_swap, runtime_codex_args_register,
    runtime_codex_args_kill_old
<1>4. CASE RemoveWorkspace(t)
  BY <1>4 DEF RemoveWorkspace, Saves, store, remove_workspace_lookup,
    remove_workspace_child, remove_worktree_lookup,
    kill_session_by_id_remove, unregister_workspace, kill_session_by_id_kill,
    remove_worktree_files
<1>5. CASE UpdateSettings(t)
  BY <1>5 DEF UpdateSettings, Saves, store,
    update_workspace_settings_snapshot
<1>6. CASE RenameWorktree(t)
  BY <1>6 DEF RenameWorktree, Saves, store, rename_worktree_lookup,
    rename_worktree_branch, rename_worktree_move, rename_worktree_move_back,
    rename_worktree_branch_back, rename_worktree_register
<1>7. CASE SyncFromStorage(t)
  BY <1>7 DEF SyncFromStorage, Saves, store, sync_workspaces_read,
    sync_workspaces_prune, sync_workspaces_kill
<1> QED BY <1>1, <1>2, <1>3, <1>4, <1>5, <1>6, <1>7 DEF Advance

LEMMA IssuedGrows ==
  ASSUME NEW t \in Tasks, Advance(t)
  PROVE  issued \subseteq issued'
<1>1. CASE Connect(t)
  BY <1>1 DEF Connect, git, connect_workspace_precheck,
     resolve_entry_and_parent, connect_workspace_own,
     connect_workspace_own_alive, take_live_shared_session,
     take_live_shared_session_alive, spawn_session,
     register_workspace_with_path, connect_workspace_insert
<1>2. CASE AddWorkspace(t)
  BY <1>2 DEF AddWorkspace, git, add_workspace_prepare, add_worktree_lookup,
     add_worktree_git, add_workspace_undo_kill,
     add_workspace_persist, add_workspace_undo, MintEntry
<1>3. CASE RuntimeArgs(t)
  BY <1>3 DEF RuntimeArgs, git, runtime_codex_args_current,
     runtime_codex_args_swap, runtime_codex_args_register,
     runtime_codex_args_kill_old
<1>4. CASE RemoveWorkspace(t)
  BY <1>4 DEF RemoveWorkspace, git, remove_workspace_lookup,
     remove_workspace_child, remove_worktree_lookup,
     kill_session_by_id_remove, unregister_workspace,
     kill_session_by_id_kill, remove_worktree_files, remove_workspace_forget
<1>5. CASE UpdateSettings(t)
  BY <1>5 DEF UpdateSettings, git, update_workspace_settings_snapshot,
     update_workspace_settings_apply,
     update_workspace_settings_propagate, save_list
<1>6. CASE RenameWorktree(t)
  BY <1>6 DEF RenameWorktree, git, rename_worktree_lookup,
     rename_worktree_branch, rename_worktree_move, rename_worktree_move_back,
     rename_worktree_branch_back, rename_worktree_register,
     rename_worktree_update, rename_worktree_restore
<1>7. CASE SyncFromStorage(t)
  BY <1>7 DEF SyncFromStorage, git, sync_workspaces_read,
     sync_workspaces_prune, sync_workspaces_kill, sync_workspaces_store
<1> QED BY <1>1, <1>2, <1>3, <1>4, <1>5, <1>6, <1>7 DEF Advance

(* What w is in the map or in the file after a step of t. *)
KnownNow(w) == workspaces'[w] # None \/ (stored' # Torn /\ stored'[w] # None)

LEMMA SavesMentions ==
  ASSUME InductiveInvariant, PoolInvariant, NEW t \in Tasks, Saves(t),
         NEW w \in Ids, KnownNow(w)
  PROVE  Mentioned(w) \/ (Adds(t) /\ w = task[t].id /\ ~Adds(t)')
<1>0. /\ pc \in [Tasks -> Labels] /\ task \in [Tasks -> Locals]
      /\ LocalsFor(pc[t], task[t]) /\ CommandFor(pc[t], task[t])
      /\ workspaces \in Stores /\ stored \in Stores \cup {Torn}
  BY DEF InductiveInvariant, TypeOK, StoreTypeOK, LocalsSet, PoolInvariant,
     CommandsIssued
<1>1. \/ workspaces[w] = None /\ (stored = Torn \/ stored[w] = None)
      \/ Mentioned(w)
  BY DEF Mentioned
<1>2. MentionFor(pc[t], task[t], w) => Mentioned(w)
  BY DEF Mentioned
<1> USE DEF At, KnownNow
<1>3. CASE add_workspace_persist(t)
  <2>1. /\ pc[t] = "persist" /\ pc'[t] # "persist" /\ pc'[t] \notin Minting
        /\ w # task[t].id => workspaces'[w] = workspaces[w]
        /\ w # task[t].id =>
              stored' = Torn \/ stored'[w] = stored[w] \/ stored'[w] = workspaces[w]
    BY <1>0, <1>3 DEF add_workspace_persist, write_workspaces, Minting,
       write_workspaces_fails, Goto, Return, Stores
  <2>2. Adds(t) /\ ~Adds(t)'
    BY <1>0, <2>1 DEF Adds, AddsFor, Minting, CommandFor
  <2>3. w # task[t].id => Mentioned(w)
    BY <1>0, <1>1, <1>3, <2>1 DEF add_workspace_persist, write_workspaces,
       write_workspaces_fails, Stores
  <2> QED BY <2>2, <2>3
<1>4. CASE add_workspace_undo(t)
  BY <1>0, <1>1, <1>4 DEF add_workspace_undo, Stores
<1>5. CASE remove_workspace_forget(t)
  BY <1>0, <1>1, <1>5 DEF remove_workspace_forget, write_workspaces,
     write_workspaces_fails
<1>6. CASE update_workspace_settings_apply(t)
  BY <1>0, <1>1, <1>6 DEF update_workspace_settings_apply, Stores
<1>7. CASE update_workspace_settings_propagate(t)
  BY <1>0, <1>1, <1>7 DEF update_workspace_settings_propagate
<1>8. CASE save_list(t)
  <2>1. pc[t] = "save" /\ UNCHANGED workspaces
    BY <1>8 DEF save_list
  <2>2. stored' \in {task[t].list, stored, Torn}
    BY <1>8 DEF save_list, write_workspaces, write_workspaces_fails
  <2> QED BY <1>1, <1>2, <2>1, <2>2 DEF MentionFor, NeedsList
<1>9. CASE rename_worktree_update(t)
  BY <1>0, <1>1, <1>9 DEF rename_worktree_update, Stores
<1>10. CASE rename_worktree_restore(t)
  BY <1>0, <1>1, <1>10 DEF rename_worktree_restore, Stores
<1>11. CASE sync_workspaces_store(t)
  BY <1>0, <1>1, <1>2, <1>11 DEF sync_workspaces_store, MentionFor, NeedsList
<1> QED BY <1>3, <1>4, <1>5, <1>6, <1>7, <1>8, <1>9, <1>10, <1>11 DEF Saves

(* Every step of a command in flight is a MentionStep. *)
LEMMA AdvanceIsMentionStep ==
  ASSUME InductiveInvariant, PoolInvariant, IdsIssued, NEW t \in Tasks,
         Advance(t)
  PROVE  OthersStay(t) /\ MentionStep(t)
<1>1. OthersStay(t) /\ LocalMentions(t) /\ issued \subseteq issued'
  BY AdvanceAlone, AdvanceMentions, IssuedGrows DEF PoolInvariant, CommandsIssued
<1>2. ASSUME NEW w \in Ids, KnownNow(w)
      PROVE  Mentioned(w) \/ (Adds(t) /\ w = task[t].id /\ ~Adds(t)')
  <2>1. CASE Saves(t)
    BY <1>2, <2>1, SavesMentions
  <2>2. CASE UNCHANGED <<workspaces, stored>>
    BY <1>2, <2>2 DEF KnownNow, Mentioned
  <2> QED BY <2>1, <2>2, SavesOrKeeps
<1>3. ASSUME NEW w \in Ids, Mentioned(w)', ~KnownNow(w)
      PROVE  Mentioned(w) \/ (Adds(t) /\ w = task[t].id /\ ~Adds(t)')
  <2>1. MentionFor(pc'[t], task'[t], w) \/ Mentioned(w)
    BY <1>1, <1>3, MentionsOf DEF KnownNow
  <2> QED BY <1>1, <2>1 DEF LocalMentions
<1> QED BY <1>1, <1>2, <1>3 DEF MentionStep, LocalMentions

LEMMA RequestIsMentionStep ==
  ASSUME InductiveInvariant, IdsIssued, NEW t \in Tasks, Request(t)
  PROVE  OthersStay(t) /\ MentionStep(t)
<1>1. /\ OthersStay(t)
      /\ pc'[t] \in {"precheck", "resolve", "prepare", "lookup", "apply",
                      "syncRead"}
      /\ UNCHANGED <<workspaces, stored, issued>>
  BY RequestAlone
<1>2. task \in [Tasks -> Locals]
  BY DEF InductiveInvariant, TypeOK
<1>3. PICK op \in Ops :
        \E w \in IF op \in {"add", "giturl", "list"} THEN {None} ELSE issued,
           a \in IF op = "args" THEN Args ELSE {DefaultArgs},
           n \in IF op \in AddOps \cup {"rename"} THEN Names ELSE {None},
           x \in IF op = "settings" THEN Scripts ELSE {None} :
          task' = [task EXCEPT ![t] = [Blank EXCEPT !.op = op, !.id = w,
                      !.args = a, !.name = n, !.script = x]]
  BY DEF Request
<1>4. /\ task'[t].id \in issued \cup {None}
      /\ pc'[t] = "syncRead" => task'[t].id = None
      /\ task'[t].todo = {} /\ task'[t].gone = {} /\ task'[t].cur = None
  <2>1. PICK w \in IF op \in {"add", "giturl", "list"} THEN {None} ELSE issued,
             a \in IF op = "args" THEN Args ELSE {DefaultArgs},
             n \in IF op \in AddOps \cup {"rename"} THEN Names ELSE {None},
             x \in IF op = "settings" THEN Scripts ELSE {None} :
          task' = [task EXCEPT ![t] = [Blank EXCEPT !.op = op, !.id = w,
                      !.args = a, !.name = n, !.script = x]]
    BY <1>3
  <2>2. w \in issued \cup {None}
    OBVIOUS
  <2>3. task'[t] = [Blank EXCEPT !.op = op, !.id = w, !.args = a, !.name = n,
                                 !.script = x]
    BY <1>2, <2>1
  <2>4. task'[t].id = w /\ task'[t].op = op
    BY <2>3 DEF Blank
  <2>5. pc'[t] = "syncRead" => op = "list"
    BY <2>4, RequestAlone DEF CommandFor
  <2>6. task'[t].todo = {} /\ task'[t].gone = {} /\ task'[t].cur = None
    BY <2>3 DEF Blank
  <2>7. op = "list" => w = None
    OBVIOUS
  <2> QED BY <2>2, <2>4, <2>5, <2>6, <2>7
<1>5. \A v \in Ids : ~MentionFor(pc'[t], task'[t], v)
  BY <1>1, <1>4, NoneAssumption DEF MentionFor, NeedsList, RemoveLabels, Early
<1>6. ~Adds(t)'
  BY <1>1 DEF Adds, AddsFor, Minting
<1>7. ASSUME NEW v \in Ids, Mentioned(v)' PROVE Mentioned(v)
  <2>1. CASE KnownNow(v)
    BY <1>1, <2>1 DEF KnownNow, Mentioned
  <2>2. CASE ~KnownNow(v)
    BY <1>1, <1>5, <1>7, <2>2, MentionsOf DEF KnownNow
  <2> QED BY <2>1, <2>2
<1> QED BY <1>1, <1>4, <1>6, <1>7 DEF MentionStep

LEMMA LockIsMentionStep ==
  ASSUME InductiveInvariant, PoolInvariant, IdsIssued, NEW t \in Tasks,
         workspace_session_spawn_lock(t)
  PROVE  OthersStay(t) /\ MentionStep(t)
<1>0. /\ pc \in [Tasks -> Labels] /\ task[t] \in Locals
      /\ LocalsFor(pc[t], task[t]) /\ CommandFor(pc[t], task[t])
  BY DEF InductiveInvariant, TypeOK, LocalsSet, PoolInvariant, CommandsIssued
<1>1. /\ OthersStay(t) /\ pc[t] = "lock" /\ task'[t] = task[t]
      /\ pc'[t] \in {"own", "current", "take"}
      /\ pc'[t] = "take" <=> task[t].op \notin {"connect", "args"}
      /\ UNCHANGED <<workspaces, stored, issued>>
  BY <1>0 DEF workspace_session_spawn_lock, OthersStay, At, store, git
<1>2. task[t].op \in ConnectOps \/ task[t].op \in AddOps
  BY <1>0, <1>1 DEF LocalsFor
<1>3. Adds(t)' <=> Adds(t)
  BY <1>1, <1>2 DEF Adds, AddsFor, Minting, ConnectOps, AddOps
<1>4. \A v \in Ids : MentionFor(pc'[t], task'[t], v) => MentionFor(pc[t], task[t], v)
  BY <1>1, <1>3 DEF MentionFor, NeedsList, RemoveLabels, Early, AtRest, Adds
<1>5. ASSUME NEW v \in Ids, Mentioned(v)' PROVE Mentioned(v)
  <2>1. CASE KnownNow(v)
    BY <1>1, <2>1 DEF KnownNow, Mentioned
  <2>2. CASE ~KnownNow(v)
    <3>1. MentionFor(pc'[t], task'[t], v) \/ Mentioned(v)
      BY <1>1, <1>5, <2>2, MentionsOf DEF KnownNow
    <3> QED BY <1>4, <3>1 DEF Mentioned
  <2> QED BY <2>1, <2>2
<1> QED BY <1>1, <1>3, <1>5 DEF MentionStep, IdsIssued

LEMMA EnvironmentKeepsIds ==
  ASSUME InductiveInvariant, FreshIds, IdsIssued, Environment
  PROVE  FreshIds' /\ IdsIssued'
<1>0. /\ workspaces \in Stores /\ stored \in Stores \cup {Torn}
  BY DEF InductiveInvariant, TypeOK, StoreTypeOK
<1>1. CASE Crash
  BY <1>1 DEF Crash, store, git, FreshIds, IdsIssued, Mentioned, Adds
<1>2. CASE Restart
  <2>1. /\ \A t \in Tasks : pc'[t] = "idle" /\ task'[t] = Blank
        /\ UNCHANGED issued
        /\ stored' \in {stored, Torn} /\ workspaces' = read_workspaces(stored')
    BY <1>2 DEF Restart, git
  <2>2. \A t \in Tasks : ~Adds(t)'
    BY <2>1 DEF Adds, AddsFor, Minting
  <2>3. \A t \in Tasks, w \in Ids : ~MentionFor(pc'[t], task'[t], w)
    BY <2>1 DEF MentionFor, NeedsList, RemoveLabels, Early, AtRest
  <2>4. ASSUME NEW w \in Ids, Mentioned(w)' PROVE Mentioned(w)
    <3>1. stored # Torn /\ stored[w] # None
      BY <2>1, <2>3, <2>4 DEF Mentioned, read_workspaces, EmptyStore
    <3> QED BY <3>1 DEF Mentioned
  <2>5. \A t \in Tasks : task'[t].id = None
    BY <2>1 DEF Blank
  <2>6. IdsIssued'
    BY <2>1, <2>4, <2>5 DEF IdsIssued
  <2> QED BY <2>2, <2>6 DEF FreshIds
<1>3. CASE OtherProcessSaves
  <2>1. /\ UNCHANGED <<workspaces, issued, pc, task>>
        /\ stored # Torn
        /\ \A w \in Ids : stored'[w] # None => stored[w] # None
    BY <1>3 DEF OtherProcessSaves, git
  <2>2. \A w \in Ids : Mentioned(w)' => Mentioned(w)
    BY <2>1 DEF Mentioned
  <2>3. \A t \in Tasks : Adds(t)' <=> Adds(t)
    BY <2>1 DEF Adds
  <2>4. \A t \in Tasks : Adds(t) => task[t].id \in Ids
    BY DEF InductiveInvariant, LocalsSet, LocalsFor, Adds, AddsFor, Minting, NeedsId
  <2>5. \A t \in Tasks : Adds(t) => ~Mentioned(task[t].id)'
    BY <2>1, <2>2, <2>4 DEF FreshIds
  <2> QED BY <2>1, <2>2, <2>3, <2>5 DEF FreshIds, IdsIssued
<1> QED BY <1>1, <1>2, <1>3 DEF Environment

LEMMA IdsNext ==
  ASSUME InductiveInvariant, InductiveInvariant', PoolInvariant, FreshIds,
         IdsIssued, [Next]_vars
  PROVE  FreshIds' /\ IdsIssued'
<1>1. CASE UNCHANGED vars
  BY <1>1 DEF vars, FreshIds, IdsIssued, Mentioned, Adds
<1>2. ASSUME NEW t \in Tasks,
             Request(t) \/ workspace_session_spawn_lock(t) \/ Advance(t)
      PROVE  FreshIds' /\ IdsIssued'
  <2>1. OthersStay(t) /\ MentionStep(t)
    BY <1>2, RequestIsMentionStep, LockIsMentionStep, AdvanceIsMentionStep
  <2> QED BY <2>1, FreshStep
<1>3. CASE Environment
  BY <1>3, EnvironmentKeepsIds
<1> QED BY <1>1, <1>2, <1>3 DEF Next

LEMMA IdsInit ==
  ASSUME Init
  PROVE  FreshIds /\ IdsIssued
<1>1. \A t \in Tasks : pc[t] = "idle" /\ task[t] = Blank
  BY DEF Init
<1>2. \A t \in Tasks : ~Adds(t)
  BY <1>1 DEF Adds, AddsFor, Minting
<1>3. \A t \in Tasks, w \in Ids : ~MentionFor(pc[t], task[t], w)
  BY <1>1 DEF MentionFor, NeedsList, RemoveLabels, Early, AtRest
<1>4. \A w \in Ids : Mentioned(w) => w \in issued
  BY <1>3 DEF Init, Mentioned, Present
<1>5. \A t \in Tasks : task[t].id = None
  BY <1>1 DEF Blank
<1> QED BY <1>2, <1>4, <1>5 DEF FreshIds, IdsIssued

(* Whatever commands race, the id that an add has made up is unknown to    *)
(* every map, file, copied list and command until the add inserts it, and  *)
(* no two adds have the same one (Uuid::new_v4, add_workspace_core).       *)
THEOREM IdsInvariance ==
  Spec => [](InductiveInvariant /\ PoolInvariant /\ FreshIds /\ IdsIssued)
<1>1. Init => FreshIds /\ IdsIssued
  BY IdsInit
<1>2. /\ InductiveInvariant /\ InductiveInvariant' /\ PoolInvariant
      /\ FreshIds /\ IdsIssued /\ [Next]_vars
      => FreshIds' /\ IdsIssued'
  BY IdsNext
<1> QED BY <1>1, <1>2, PoolInvariance, PTL DEF Spec

-----------------------------------------------------------------------------
(* WorktreesKeepTheirParent, when families only shrink: no worktree is     *)
(* added, and the daemon does not replace the map by the file.  (A         *)
(* worktree added while its parent is removed is left without it.)         *)
FamiliesShrink == Ops \cap {"worktree", "list"} = {}

NoMain(map, c) == map[c] # None => map[c].parent # None

(* The steps at which remove_workspace works on task.cur. *)
Dropping == {"drop", "unregister", "kill", "files"}

(* The ids remove_workspace has dealt with or will. *)
Handled(label, l) == l.todo \cup l.gone \cup IF label \in Dropping THEN {l.cur} ELSE {}

(* What a removal under way knows: it takes the workspace only with all    *)
(* its worktrees, and besides it only worktrees.                           *)
RemovalFor(map, label, l) ==
    /\ label \in RemoveLabels /\ l.op = "remove"
         => /\ l.id \in Ids
            /\ l.id \notin l.todo
            /\ \A c \in Handled(label, l) \ {l.id} : NoMain(map, c)
            /\ label = "child" => l.id \notin l.gone
            /\ label \in Dropping => (l.cur = l.id <=> l.id \in l.gone)
            /\ label = "files" => l.cur # l.id
            /\ l.id \notin l.gone /\ ~l.failed
                 => Children(map, l.id) \subseteq Handled(label, l)
            /\ l.id \in l.gone => Children(map, l.id) \subseteq l.gone
    /\ label \in RemoveLabels /\ l.op = "rmworktree"
         => /\ label # "child"
            /\ l.gone = {l.id} /\ l.cur = l.id /\ NoMain(map, l.id)

(* The steps of a rename that may put task.before back. *)
Restores(label, l) ==
    \/ label = "restore"
    \/ label = "save" /\ l.op = "rename"
    \/ label \in {"renameBack", "branchBack"} /\ l.failed

FamilyFor(map, label, l) ==
    /\ label = "save" => ParentsPresent(l.list)
    /\ Restores(label, l) /\ map[l.id] # None
         => map[l.id].parent = l.before.parent
    /\ AddsFor(label, l) \/ label = "undo"
         => Children(map, l.id) = {} /\ l.entry.parent = None
    /\ RemovalFor(map, label, l)

Families ==
    /\ ParentsPresent(workspaces)
    /\ ParentsPresent(read_workspaces(stored))
    /\ \A t \in Tasks : FamilyFor(workspaces, pc[t], task[t])

(* A step of t changes the parent of no workspace, brings in at most the   *)
(* main workspace that t adds, and takes no parent without its worktrees.  *)
Shrinks(t) ==
    /\ \A w \in Ids : workspaces[w] # None /\ workspaces'[w] # None
                        => workspaces'[w].parent = workspaces[w].parent
    /\ \A w \in Ids : workspaces[w] = None /\ workspaces'[w] # None
                        => /\ Adds(t) /\ w = task[t].id
                           /\ workspaces'[w].parent = None
    /\ \A w \in Ids : workspaces[w] # None /\ workspaces'[w] = None
                        => \A c \in Children(workspaces, w) : workspaces'[c] = None

SameFamilies ==
    \A w \in Ids : /\ workspaces'[w] = None <=> workspaces[w] = None
                   /\ workspaces[w] # None =>
                        workspaces'[w].parent = workspaces[w].parent

LEMMA SameShrinks ==
  ASSUME NEW t \in Tasks, SameFamilies
  PROVE  Shrinks(t)
<1>1. \A w \in Ids : workspaces[w] # None /\ workspaces'[w] # None
                      => workspaces'[w].parent = workspaces[w].parent
  BY DEF SameFamilies
<1>2. \A w \in Ids : ~(workspaces[w] = None /\ workspaces'[w] # None)
  BY DEF SameFamilies
<1>3. \A w \in Ids : ~(workspaces[w] # None /\ workspaces'[w] = None)
  BY DEF SameFamilies
<1> QED BY <1>1, <1>2, <1>3 DEF Shrinks

LEMMA SavesShrink ==
  ASSUME InductiveInvariant, PoolInvariant, FreshIds, Families, FamiliesShrink,
         NEW t \in Tasks, Saves(t)
  PROVE  Shrinks(t)
<1>0. /\ pc \in [Tasks -> Labels] /\ task \in [Tasks -> Locals]
      /\ LocalsFor(pc[t], task[t]) /\ CommandFor(pc[t], task[t])
      /\ workspaces \in Stores /\ FamilyFor(workspaces, pc[t], task[t])
      /\ ParentsPresent(workspaces)
  BY DEF InductiveInvariant, TypeOK, StoreTypeOK, LocalsSet, PoolInvariant,
     CommandsIssued, Families
<1>1. \A w \in Ids : workspaces[w] # None => workspaces[w] \in Entry
  BY <1>0 DEF Stores
<1> USE DEF At
<1>3. CASE add_workspace_persist(t)
  <2>1. /\ pc[t] = "persist"
        /\ workspaces' = [workspaces EXCEPT ![task[t].id] = task[t].entry]
    BY <1>3 DEF add_workspace_persist
  <2>2. Adds(t) /\ task[t].id \in Ids /\ task[t].entry.parent = None
    BY <1>0, <2>1 DEF Adds, AddsFor, Minting, CommandFor, LocalsFor, NeedsId,
       FamilyFor
  <2>3. workspaces[task[t].id] = None
    BY <2>2 DEF FreshIds, Mentioned
  <2>4. /\ workspaces'[task[t].id] = task[t].entry
        /\ \A w \in Ids \ {task[t].id} : workspaces'[w] = workspaces[w]
    BY <1>0, <2>1, <2>2 DEF Stores
  <2> QED BY <2>2, <2>3, <2>4 DEF Shrinks
<1>4. CASE add_workspace_undo(t)
  <2>1. /\ pc[t] = "undo" /\ Children(workspaces, task[t].id) = {}
        /\ \A w \in Ids \ {task[t].id} : workspaces'[w] = workspaces[w]
        /\ task[t].id \in Ids /\ workspaces'[task[t].id] = None
    BY <1>0, <1>4 DEF add_workspace_undo, Stores, FamilyFor, LocalsFor, NeedsId
  <2> QED BY <2>1 DEF Shrinks
<1>5. CASE remove_workspace_forget(t)
  <2>1. /\ pc[t] = "forget" /\ RemovalFor(workspaces, "forget", task[t])
        /\ task[t].op \in {"remove", "rmworktree"}
        /\ \A w \in Ids : workspaces'[w] =
              IF w \in task[t].gone THEN None ELSE workspaces[w]
    BY <1>0, <1>5 DEF remove_workspace_forget, FamilyFor, CommandFor
  <2>2. ASSUME NEW w \in Ids, workspaces[w] # None, w \in task[t].gone,
               NEW c \in Children(workspaces, w)
        PROVE  c \in task[t].gone
    <3>0. c \in Ids /\ workspaces[c] # None /\ workspaces[c].parent = w
      BY DEF Children
    <3>1. workspaces[w].parent = None
      BY <1>0, <2>2, <3>0, NoneAssumption DEF ParentsPresent
    <3>2. task[t].op = "remove" /\ w = task[t].id
      BY <2>1, <2>2, <3>1 DEF RemovalFor, RemoveLabels, NoMain, Handled
    <3> QED BY <2>1, <2>2, <3>2 DEF RemovalFor, RemoveLabels
  <2>3. \A w \in Ids : \A c \in Children(workspaces, w) : c \in Ids
    BY DEF Children
  <2> QED BY <2>1, <2>2, <2>3 DEF Shrinks
<1>6. CASE update_workspace_settings_apply(t)
  <2>0. task[t].id \in Ids /\ task[t].script \in Scripts
    BY <1>0, <1>6 DEF update_workspace_settings_apply, LocalsFor, NeedsId
  <2>1. CASE UNCHANGED workspaces
    BY <2>1, SameShrinks DEF SameFamilies
  <2>2. CASE /\ workspaces[task[t].id] # None
             /\ workspaces' = [workspaces EXCEPT ![task[t].id].script = task[t].script]
    <3>1. \A w \in Ids \ {task[t].id} : workspaces'[w] = workspaces[w]
      BY <1>0, <2>2 DEF Stores
    <3>2. workspaces'[task[t].id] = [workspaces[task[t].id] EXCEPT !.script = task[t].script]
      BY <1>0, <2>0, <2>2 DEF Stores
    <3>3. /\ workspaces'[task[t].id] \in Entry
          /\ workspaces'[task[t].id].parent = workspaces[task[t].id].parent
      BY <1>1, <2>0, <2>2, <3>2 DEF Entry
    <3>4. SameFamilies
      BY <2>2, <3>1, <3>3, NoneAssumption DEF SameFamilies
    <3> QED BY <3>4, SameShrinks
  <2> QED BY <1>6, <2>1, <2>2 DEF update_workspace_settings_apply
<1>7. CASE update_workspace_settings_propagate(t)
  <2>2. SameFamilies
    BY <1>0, <1>1, <1>7, NoneAssumption DEF update_workspace_settings_propagate,
       Entry, LocalsFor, SameFamilies
  <2> QED BY <2>2, SameShrinks
<1>8. CASE save_list(t)
  BY <1>8 DEF save_list, Shrinks
<1>9. CASE rename_worktree_update(t)
  <2>1. /\ pc[t] = "update" /\ task[t].id \in Ids
        /\ \/ UNCHANGED workspaces
           \/ /\ workspaces[task[t].id] # None
              /\ workspaces' = [workspaces EXCEPT
                    ![task[t].id].branch = task[t].name,
                    ![task[t].id].path = task[t].name]
    BY <1>0, <1>9 DEF rename_worktree_update, LocalsFor, NeedsId
  <2>2. SameFamilies
    BY <1>0, <1>1, <2>1, NoneAssumption DEF Entry, Stores, SameFamilies
  <2> QED BY <2>2, SameShrinks
<1>10. CASE rename_worktree_restore(t)
  <2>1. /\ pc[t] = "restore" /\ task[t].id \in Ids /\ task[t].before \in Entry
        /\ workspaces[task[t].id] # None
             => workspaces[task[t].id].parent = task[t].before.parent
    BY <1>0, <1>10 DEF rename_worktree_restore, LocalsFor, NeedsId, FamilyFor,
       Restores
  <2>2. SameFamilies
    BY <1>0, <1>10, <2>1, NoneAssumption DEF rename_worktree_restore, Stores,
       SameFamilies
  <2> QED BY <2>2, SameShrinks
<1>11. CASE sync_workspaces_store(t)
  BY <1>0, <1>11 DEF sync_workspaces_store, CommandFor, FamiliesShrink, AtRest
<1> QED BY <1>3, <1>4, <1>5, <1>6, <1>7, <1>8, <1>9, <1>10, <1>11 DEF Saves

LEMMA ShrunkKeepsParents ==
  ASSUME InductiveInvariant, ParentsPresent(workspaces), NEW t \in Tasks,
         Shrinks(t)
  PROVE  ParentsPresent(workspaces)'
<1> SUFFICES ASSUME NEW w \in Ids, workspaces'[w] # None,
                    workspaces'[w].parent # None
             PROVE  /\ workspaces'[workspaces'[w].parent] # None
                    /\ workspaces'[workspaces'[w].parent].parent = None
  BY DEF ParentsPresent
<1>1. /\ workspaces[w] # None /\ workspaces[w] \in Entry
      /\ workspaces'[w].parent = workspaces[w].parent
  BY DEF Shrinks, InductiveInvariant, TypeOK, StoreTypeOK, Stores
<1>2. PICK p \in Ids : p = workspaces[w].parent
  BY <1>1 DEF Entry
<1>3. workspaces[p] # None /\ workspaces[p].parent = None
  BY <1>1, <1>2 DEF ParentsPresent
<1>4. w \in Children(workspaces, p)
  BY <1>1, <1>2 DEF Children
<1>5. workspaces'[p] # None
  BY <1>3, <1>4 DEF Shrinks
<1> QED BY <1>1, <1>2, <1>3, <1>5 DEF Shrinks

(* Nobody's children become more. *)
LEMMA ShrunkChildren ==
  ASSUME NEW t \in Tasks, Shrinks(t), NEW w \in Ids
  PROVE  Children(workspaces', w) \subseteq Children(workspaces, w)
  BY NoneAssumption DEF Shrinks, Children

(* What the other commands know stays true. *)
LEMMA ShrunkKeepsOthers ==
  ASSUME InductiveInvariant, FreshIds, NEW t \in Tasks, Shrinks(t),
         NEW u \in Tasks, u # t, FamilyFor(workspaces, pc[u], task[u])
  PROVE  FamilyFor(workspaces', pc[u], task[u])
<1>0. LocalsFor(pc[u], task[u]) /\ task[u] \in Locals
  BY DEF InductiveInvariant, TypeOK, LocalsSet
<1>1. \A w \in Ids : workspaces[w] = None /\ workspaces'[w] # None
                      => ~MentionFor(pc[u], task[u], w)
  BY DEF Shrinks, FreshIds, Mentioned
<1>2. ASSUME NEW w \in Ids, NoMain(workspaces, w), MentionFor(pc[u], task[u], w)
      PROVE  NoMain(workspaces', w)
  BY <1>1, <1>2 DEF Shrinks, NoMain
<1>3. ASSUME Restores(pc[u], task[u]), workspaces'[task[u].id] # None
      PROVE  workspaces'[task[u].id].parent = task[u].before.parent
  <2>1. PICK w \in Ids : w = task[u].id
    BY <1>0, <1>3 DEF Restores, LocalsFor, NeedsId
  <2>2. MentionFor(pc[u], task[u], w)
    BY <1>3, <2>1 DEF MentionFor, Restores, Early, AtRest, AddsFor, Minting
  <2>3. workspaces[w] # None
    BY <1>1, <1>3, <2>1, <2>2
  <2> QED BY <1>3, <2>1, <2>3 DEF FamilyFor, Shrinks
<1>4. ASSUME AddsFor(pc[u], task[u]) \/ pc[u] = "undo"
      PROVE  Children(workspaces', task[u].id) = {} /\ task[u].entry.parent = None
  <2>1. task[u].id \in Ids
    BY <1>0, <1>4 DEF AddsFor, Minting, LocalsFor, NeedsId
  <2> QED BY <1>4, <2>1, ShrunkChildren DEF FamilyFor
<1>5. RemovalFor(workspaces', pc[u], task[u])
  <2>1. RemovalFor(workspaces, pc[u], task[u])
    BY DEF FamilyFor
  <2>2. CASE pc[u] \in RemoveLabels /\ task[u].op = "remove"
    <3>1. task[u].id \in Ids
      BY <2>1, <2>2 DEF RemovalFor
    <3>2. ASSUME NEW c \in Handled(pc[u], task[u]) \ {task[u].id}
          PROVE  NoMain(workspaces', c)
      <4>1. c \in Ids
        BY <1>0 DEF Handled, Locals, LocalsFor, Dropping
      <4>2. MentionFor(pc[u], task[u], c)
        BY <2>2 DEF Handled, MentionFor
      <4>3. NoMain(workspaces, c)
        BY <2>1, <2>2 DEF RemovalFor
      <4> QED BY <1>2, <4>1, <4>2, <4>3
    <3>3. Children(workspaces', task[u].id) \subseteq Children(workspaces, task[u].id)
      BY <3>1, ShrunkChildren
    <3>4. task[u].op # "rmworktree"
      BY <2>2
    <3> QED BY <2>1, <2>2, <3>2, <3>3, <3>4 DEF RemovalFor
  <2>3. CASE pc[u] \in RemoveLabels /\ task[u].op = "rmworktree"
    <3>1. /\ task[u].gone = {task[u].id} /\ task[u].cur = task[u].id
          /\ NoMain(workspaces, task[u].id) /\ pc[u] # "child"
      BY <2>1, <2>3 DEF RemovalFor
    <3>2. task[u].id \in Ids
      BY <1>0, <3>1 DEF Locals
    <3>3. MentionFor(pc[u], task[u], task[u].id)
      BY <2>3, <3>1 DEF MentionFor
    <3>4. task[u].op # "remove"
      BY <2>3
    <3> QED BY <1>2, <3>1, <3>2, <3>3, <3>4 DEF RemovalFor
  <2> QED BY <2>2, <2>3 DEF RemovalFor
<1>6. pc[u] = "save" => ParentsPresent(task[u].list)
  BY DEF FamilyFor
<1> QED BY <1>3, <1>4, <1>5, <1>6 DEF FamilyFor

(* What a step writes to the file is in order too. *)
LEMMA SavesKeepFile ==
  ASSUME Families, NEW t \in Tasks, Saves(t), ParentsPresent(workspaces)'
  PROVE  ParentsPresent(read_workspaces(stored))'
<1>1. ASSUME NEW file, ParentsPresent(file)
      PROVE  ParentsPresent(read_workspaces(file))
  BY <1>1 DEF read_workspaces, ParentsPresent, EmptyStore
<1>2. ParentsPresent(read_workspaces(Torn))
  BY DEF read_workspaces, ParentsPresent, EmptyStore
<1>3. \/ stored' \in {stored, Torn, workspaces'}
      \/ pc[t] = "save" /\ stored' = task[t].list
  BY DEF Saves, add_workspace_persist, add_workspace_undo, At,
     remove_workspace_forget, update_workspace_settings_apply,
     update_workspace_settings_propagate, save_list, rename_worktree_update,
     rename_worktree_restore, sync_workspaces_store, write_workspaces,
     write_workspaces_fails
<1>4. CASE stored' = stored
  BY <1>4 DEF Families
<1>5. CASE stored' = Torn
  BY <1>2, <1>5
<1>6. CASE stored' = workspaces'
  <2>1. ParentsPresent(workspaces')
    OBVIOUS
  <2> QED BY <1>1, <1>6, <2>1
<1>7. CASE pc[t] = "save" /\ stored' = task[t].list
  <2>1. ParentsPresent(task[t].list)
    BY <1>7 DEF Families, FamilyFor
  <2> QED BY <1>1, <1>7, <2>1
<1> QED BY <1>3, <1>4, <1>5, <1>6, <1>7

FamilyLabels == {"save", "restore", "renameBack", "branchBack", "undo"}

(* An add keeps its id and its entry up to the insertion. *)
LEMMA FamilyOfAdd ==
  ASSUME InductiveInvariant, NEW t \in Tasks, Shrinks(t),
         FamilyFor(workspaces, pc[t], task[t]),
         pc'[t] \notin (FamilyLabels \ {"undo"}) \cup RemoveLabels,
         AddsFor(pc'[t], task'[t]) \/ pc'[t] = "undo" =>
            /\ AddsFor(pc[t], task[t])
            /\ task'[t].id = task[t].id /\ task'[t].entry = task[t].entry
  PROVE  FamilyFor(workspaces', pc'[t], task'[t])
<1>1. AddsFor(pc[t], task[t]) => task[t].id \in Ids
  BY DEF InductiveInvariant, LocalsSet, LocalsFor, AddsFor, Minting, NeedsId
<1>2. AddsFor(pc'[t], task'[t]) \/ pc'[t] = "undo"
        => Children(workspaces', task'[t].id) = {} /\ task'[t].entry.parent = None
  BY <1>1, ShrunkChildren DEF FamilyFor
<1>3. pc'[t] # "save" /\ ~Restores(pc'[t], task'[t]) /\ pc'[t] \notin RemoveLabels
  BY DEF FamilyLabels, Restores
<1> QED BY <1>2, <1>3 DEF FamilyFor, RemovalFor

(* A command that has answered, or that adds nothing and removes nothing. *)
LEMMA FamilyOfOthers ==
  ASSUME NEW t \in Tasks, pc'[t] \notin FamilyLabels \cup RemoveLabels \cup Minting
  PROVE  FamilyFor(workspaces', pc'[t], task'[t])
  BY DEF FamilyFor, RemovalFor, Restores, AddsFor, FamilyLabels

(* A removal goes through the steps of one kill. *)
LEMMA FamilyOfKill ==
  ASSUME NEW t \in Tasks, UNCHANGED workspaces,
         FamilyFor(workspaces, pc[t], task[t]),
         pc[t] \in {"drop", "unregister", "kill"},
         pc'[t] \in {"unregister", "kill", AfterKill(t)},
         task'[t].op = task[t].op, task'[t].id = task[t].id,
         task'[t].cur = task[t].cur, task'[t].todo = task[t].todo,
         task'[t].gone = task[t].gone, task'[t].failed = task[t].failed
  PROVE  FamilyFor(workspaces', pc'[t], task'[t])
<1>1. pc'[t] \in {"unregister", "kill", "files", "forget"}
  BY DEF AfterKill
<1>2. RemovalFor(workspaces, pc[t], task[t])
  BY DEF FamilyFor
<1>3. pc'[t] = "forget" => task[t].cur = task[t].id
  BY DEF AfterKill
<1>4. pc'[t] = "files" => task[t].cur # task[t].id \/ task[t].op # "remove"
  BY DEF AfterKill
<1>5. Handled(pc'[t], task'[t]) \subseteq Handled(pc[t], task[t])
  BY <1>1 DEF Handled, Dropping
<1>6. pc'[t] # "forget" => Handled(pc'[t], task'[t]) = Handled(pc[t], task[t])
  BY <1>1 DEF Handled, Dropping
<1>7. RemovalFor(workspaces', pc'[t], task'[t])
  <2>1. CASE task[t].op = "remove"
    <3>1. /\ task[t].id \in Ids
          /\ task[t].id \notin task[t].todo
          /\ \A c \in Handled(pc[t], task[t]) \ {task[t].id} : NoMain(workspaces, c)
          /\ task[t].cur = task[t].id <=> task[t].id \in task[t].gone
          /\ task[t].id \notin task[t].gone /\ ~task[t].failed
               => Children(workspaces, task[t].id) \subseteq Handled(pc[t], task[t])
          /\ task[t].id \in task[t].gone
               => Children(workspaces, task[t].id) \subseteq task[t].gone
      BY <1>2, <2>1 DEF RemovalFor, RemoveLabels, Dropping
    <3> QED BY <1>1, <1>3, <1>4, <1>5, <1>6, <2>1, <3>1 DEF RemovalFor
  <2>2. CASE task[t].op = "rmworktree"
    BY <1>1, <1>2, <2>2 DEF RemovalFor, RemoveLabels
  <2>3. CASE task[t].op \notin {"remove", "rmworktree"}
    BY <2>3 DEF RemovalFor
  <2> QED BY <2>1, <2>2, <2>3
<1> QED BY <1>1, <1>7 DEF FamilyFor, Restores, AddsFor, Minting

LEMMA ConnectKeepsFamily ==
  ASSUME InductiveInvariant, PoolInvariant, NEW t \in Tasks, Shrinks(t),
         FamilyFor(workspaces, pc[t], task[t]),
         Connect(t) \/ RuntimeArgs(t)
  PROVE  FamilyFor(workspaces', pc'[t], task'[t])
<1>0. /\ pc \in [Tasks -> Labels] /\ task \in [Tasks -> Locals]
      /\ task[t] \in Locals /\ LocalsFor(pc[t], task[t])
  BY DEF InductiveInvariant, TypeOK, LocalsSet
<1>1. CASE \/ connect_workspace_precheck(t) \/ connect_workspace_insert(t)
           \/ register_workspace_with_path(t) \/ RuntimeArgs(t)
  <2>1. pc'[t] \in AtRest \cup {"resolve", "insert", "spawn", "registerAll", "killOld"}
    BY <1>0, <1>1 DEF connect_workspace_precheck, connect_workspace_insert,
       register_workspace_with_path, RuntimeArgs, runtime_codex_args_current,
       runtime_codex_args_swap, runtime_codex_args_register,
       runtime_codex_args_kill_old, Goto, Return, AtRest
  <2>2. CASE pc'[t] # "spawn"
    BY <2>1, <2>2, FamilyOfOthers DEF FamilyLabels, RemoveLabels, Minting, AtRest
  <2>3. CASE pc'[t] = "spawn"
    <3>1. runtime_codex_args_current(t) /\ pc[t] = "current"
      BY <1>0, <1>1, <2>3 DEF connect_workspace_precheck, connect_workspace_insert,
         register_workspace_with_path, RuntimeArgs, runtime_codex_args_current,
         runtime_codex_args_swap, runtime_codex_args_register, At,
         runtime_codex_args_kill_old, Goto, Return
    <3>2. task'[t].op = task[t].op
      BY <1>0, <2>3, <3>1 DEF runtime_codex_args_current, Goto, Return, Locals
    <3>3. ~AddsFor(pc'[t], task'[t])
      BY <1>0, <3>1, <3>2 DEF LocalsFor, AddsFor, AddOps
    <3> QED BY <2>3, <3>3, FamilyOfAdd DEF FamilyLabels, RemoveLabels
  <2> QED BY <2>2, <2>3
<1>2. ASSUME \/ resolve_entry_and_parent(t) \/ connect_workspace_own(t)
             \/ connect_workspace_own_alive(t) \/ take_live_shared_session(t)
             \/ take_live_shared_session_alive(t)
      PROVE  FamilyFor(workspaces', pc'[t], task'[t])
  <2>1. \/ pc'[t] \in AtRest
        \/ /\ pc'[t] \in {"lock", "take", "ownAlive", "spawn", "takeAlive",
                           "persist", "register"}
           /\ pc[t] \in {"resolve", "own", "ownAlive", "take", "takeAlive"}
           /\ task'[t].id = task[t].id /\ task'[t].entry = task[t].entry
           /\ task'[t].op = task[t].op
    BY <1>0, <1>2 DEF resolve_entry_and_parent, connect_workspace_own,
       connect_workspace_own_alive, take_live_shared_session, AfterSession,
       take_live_shared_session_alive, Goto, Return, AtRest, At, Locals
  <2>2. CASE pc'[t] \in AtRest
    BY <2>2, FamilyOfOthers DEF FamilyLabels, RemoveLabels, Minting, AtRest
  <2>3. CASE /\ pc'[t] \in {"lock", "take", "ownAlive", "spawn", "takeAlive",
                             "persist", "register"}
             /\ pc[t] \in {"resolve", "own", "ownAlive", "take", "takeAlive"}
             /\ task'[t].id = task[t].id /\ task'[t].entry = task[t].entry
             /\ task'[t].op = task[t].op
    <3>1. task[t].op \in AddOps => pc[t] \in {"take", "takeAlive"}
      BY <1>0, <2>3 DEF LocalsFor, ConnectOps, AddOps
    <3>2. AddsFor(pc'[t], task'[t]) => AddsFor(pc[t], task[t])
      BY <2>3, <3>1 DEF AddsFor, Minting
    <3>3. pc'[t] \notin FamilyLabels \cup RemoveLabels
      BY <2>3 DEF FamilyLabels, RemoveLabels
    <3> QED BY <2>3, <3>2, <3>3, FamilyOfAdd DEF FamilyLabels
  <2> QED BY <2>1, <2>2, <2>3
<1>3. CASE spawn_session(t)
  <2>1. CASE Return(t, "err")
    BY <1>0, <2>1, FamilyOfOthers DEF FamilyLabels, RemoveLabels, Minting, Return
  <2>2. CASE /\ \E x \in Sessions : task' = [task EXCEPT ![t].session = x,
                                                       ![t].spawned = TRUE]
             /\ Goto(t, IF task[t].op = "args" THEN "swap" ELSE AfterSession(t))
    <3>1. /\ task'[t].id = task[t].id /\ task'[t].entry = task[t].entry
          /\ task'[t].op = task[t].op
      BY <1>0, <2>2 DEF Locals
    <3>2. pc'[t] \in {"swap", "register", "persist"} /\ pc[t] = "spawn"
      BY <1>0, <1>3, <2>2 DEF spawn_session, Goto, AfterSession, At
    <3>3. pc'[t] \notin FamilyLabels \cup RemoveLabels
      BY <3>2 DEF FamilyLabels, RemoveLabels
    <3> QED BY <3>1, <3>2, <3>3, FamilyOfAdd DEF AddsFor, Minting, FamilyLabels
  <2> QED BY <1>3, <2>1, <2>2 DEF spawn_session
<1> QED BY <1>1, <1>2, <1>3 DEF Connect

LEMMA AddKeepsFamily ==
  ASSUME InductiveInvariant, PoolInvariant, IdsIssued, Families, FamiliesShrink,
         NEW t \in Tasks, Shrinks(t), AddWorkspace(t)
  PROVE  FamilyFor(workspaces', pc'[t], task'[t])
<1>0. /\ pc \in [Tasks -> Labels] /\ task \in [Tasks -> Locals]
      /\ task[t] \in Locals /\ LocalsFor(pc[t], task[t])
      /\ CommandFor(pc[t], task[t]) /\ FamilyFor(workspaces, pc[t], task[t])
      /\ workspaces \in Stores
  BY DEF InductiveInvariant, TypeOK, StoreTypeOK, LocalsSet, PoolInvariant,
     CommandsIssued, Families
<1>1. CASE pc'[t] \in AtRest \cup {"register", "undoKill"}
  BY <1>1, FamilyOfOthers DEF FamilyLabels, RemoveLabels, Minting, AtRest
<1>2. CASE add_workspace_prepare(t) /\ pc'[t] \notin AtRest
  <2>1. PICK w \in Ids \ issued :
          task' = [task EXCEPT ![t].id = w,
            ![t].entry = [parent |-> None, script |-> DefaultScript,
                          branch |-> task[t].name, path |-> task[t].name]]
    BY <1>0, <1>2 DEF add_workspace_prepare, MintEntry, Return, AtRest
  <2>2. pc'[t] = "lock" /\ UNCHANGED workspaces
    BY <1>0, <1>2 DEF add_workspace_prepare, Return, Goto, AtRest, store
  <2>3. task'[t].id = w /\ task'[t].entry.parent = None
    BY <1>0, <2>1 DEF Locals
  <2>4. workspaces[w] = None
    BY DEF IdsIssued, Mentioned
  <2>5. Children(workspaces, w) = {}
    <3> SUFFICES ASSUME NEW c \in Ids, workspaces[c] # None,
                        workspaces[c].parent = w
                 PROVE  FALSE
      BY DEF Children
    <3> QED BY <2>4, NoneAssumption DEF Families, ParentsPresent
  <2> QED BY <2>2, <2>3, <2>5 DEF FamilyFor, RemovalFor, RemoveLabels, Restores
<1>3. CASE add_worktree_lookup(t) \/ add_worktree_git(t)
  BY <1>0, <1>3 DEF add_worktree_lookup, add_worktree_git, At, CommandFor,
     FamiliesShrink, AtRest
<1>4. CASE add_workspace_persist(t) /\ pc'[t] \notin AtRest \cup {"register"}
  <2>1. /\ pc[t] = "persist" /\ pc'[t] = "undo" /\ task'[t] = task[t]
    BY <1>0, <1>4 DEF add_workspace_persist, Goto, Return, AtRest, At
  <2>2. AddsFor(pc[t], task[t])
    BY <1>0, <2>1 DEF AddsFor, Minting, CommandFor
  <2>3. pc'[t] \notin (FamilyLabels \ {"undo"}) \cup RemoveLabels
    BY <2>1 DEF FamilyLabels, RemoveLabels
  <2> QED BY <1>0, <2>1, <2>2, <2>3, FamilyOfAdd
<1>5. CASE add_workspace_undo(t) \/ add_workspace_undo_kill(t)
  <2>1. pc'[t] \in AtRest \cup {"undoKill"}
    BY <1>0, <1>5 DEF add_workspace_undo, add_workspace_undo_kill, Goto, Return,
       AtRest
  <2> QED BY <1>1, <2>1
<1> QED BY <1>1, <1>2, <1>3, <1>4, <1>5 DEF AddWorkspace

LEMMA RemoveKeepsFamily ==
  ASSUME InductiveInvariant, PoolInvariant, Families, NEW t \in Tasks,
         RemoveWorkspace(t)
  PROVE  FamilyFor(workspaces', pc'[t], task'[t])
<1>0. /\ pc \in [Tasks -> Labels] /\ task \in [Tasks -> Locals]
      /\ task[t] \in Locals /\ LocalsFor(pc[t], task[t])
      /\ CommandFor(pc[t], task[t]) /\ RemovalFor(workspaces, pc[t], task[t])
      /\ FamilyFor(workspaces, pc[t], task[t])
  BY DEF InductiveInvariant, TypeOK, LocalsSet, PoolInvariant,
     CommandsIssued, Families, FamilyFor
<1>1. CASE pc'[t] \in AtRest
  BY <1>1, FamilyOfOthers DEF FamilyLabels, RemoveLabels, Minting, AtRest
<1>2. ASSUME pc'[t] \in RemoveLabels, RemovalFor(workspaces', pc'[t], task'[t])
      PROVE  FamilyFor(workspaces', pc'[t], task'[t])
  BY <1>2 DEF FamilyFor, RemoveLabels, Restores, AddsFor, Minting
<1>3. CASE remove_workspace_lookup(t) /\ pc'[t] \notin AtRest
  <2>1. /\ pc[t] = "lookup" /\ task[t].op = "remove" /\ UNCHANGED workspaces
        /\ IsMain(workspaces[task[t].id]) /\ pc'[t] = "child"
        /\ task' = [task EXCEPT
              ![t].todo = Children(workspaces, task[t].id),
              ![t].list = Only(workspaces, Children(workspaces, task[t].id))]
    BY <1>0, <1>3 DEF remove_workspace_lookup, Goto, Return, AtRest, At, store
  <2>2. /\ task'[t].op = "remove" /\ task'[t].id = task[t].id
        /\ task'[t].todo = Children(workspaces, task[t].id)
        /\ task'[t].gone = {} /\ ~task'[t].failed /\ task[t].id \in Ids
    BY <1>0, <2>1 DEF Locals, CommandFor, LocalsFor, NeedsId
  <2>3. task[t].id \notin Children(workspaces, task[t].id)
    BY <2>1, <2>2, NoneAssumption DEF Children, IsMain
  <2>4. \A c \in Children(workspaces, task[t].id) : NoMain(workspaces, c)
    BY <2>2, NoneAssumption DEF Children, NoMain
  <2>5. Handled("child", task'[t]) = Children(workspaces, task[t].id)
    BY <2>2 DEF Handled, Dropping
  <2> QED BY <1>2, <2>1, <2>2, <2>3, <2>4, <2>5 DEF RemovalFor, RemoveLabels, Dropping
<1>4. CASE remove_workspace_child(t)
  <2>1. /\ pc[t] = "child" /\ UNCHANGED workspaces
        /\ task[t].op \in {"remove", "rmworktree"}
    BY <1>0, <1>4 DEF remove_workspace_child, CommandFor, At, store
  <2>2. CASE Goto(t, "forget") /\ UNCHANGED task /\ task[t].failed
    <3>1. pc'[t] = "forget" /\ task'[t] = task[t]
      BY <1>0, <2>2 DEF Goto
    <3>2. Handled("forget", task[t]) = Handled("child", task[t])
      BY DEF Handled, Dropping
    <3> QED BY <1>0, <1>2, <2>1, <2>2, <3>1, <3>2 DEF RemovalFor, RemoveLabels, Dropping
  <2>3. ASSUME NEW c \in task[t].todo, Goto(t, "drop"), task[t].op = "remove",
               task' = [task EXCEPT ![t].todo = @ \ {c}, ![t].cur = c]
        PROVE  FamilyFor(workspaces', pc'[t], task'[t])
    <3>1. /\ pc'[t] = "drop" /\ task'[t].id = task[t].id
          /\ task'[t].op = "remove" /\ task'[t].failed = task[t].failed
          /\ task'[t].gone = task[t].gone /\ task'[t].cur = c
          /\ task'[t].todo = task[t].todo \ {c}
      BY <1>0, <2>3 DEF Goto, Locals
    <3>2. Handled("drop", task'[t]) = Handled("child", task[t])
      BY <2>3, <3>1 DEF Handled, Dropping
    <3> QED BY <1>0, <1>2, <2>1, <2>3, <3>1, <3>2 DEF RemovalFor, RemoveLabels, Dropping
  <2>4. CASE /\ Goto(t, "drop") /\ task[t].todo = {} /\ ~task[t].failed
             /\ task[t].op = "remove"
             /\ task' = [task EXCEPT ![t].cur = task[t].id,
                                     ![t].gone = @ \cup {task[t].id}]
    <3>1. /\ pc'[t] = "drop" /\ task'[t].id = task[t].id
          /\ task'[t].op = "remove" /\ task'[t].failed = task[t].failed
          /\ task'[t].gone = task[t].gone \cup {task[t].id}
          /\ task'[t].cur = task[t].id /\ task'[t].todo = {}
      BY <1>0, <2>4 DEF Goto, Locals
    <3>2. /\ Handled("child", task[t]) = task[t].gone
          /\ Handled("drop", task'[t]) = task[t].gone \cup {task[t].id}
      BY <2>4, <3>1 DEF Handled, Dropping
    <3> QED BY <1>0, <1>2, <2>1, <2>4, <3>1, <3>2 DEF RemovalFor, RemoveLabels, Dropping
  <2>5. CASE task[t].op = "rmworktree"
    BY <1>0, <2>1, <2>5 DEF RemovalFor, RemoveLabels
  <2> QED BY <1>4, <2>1, <2>2, <2>3, <2>4, <2>5 DEF remove_workspace_child
<1>5. CASE remove_worktree_lookup(t) /\ pc'[t] \notin AtRest
  <2>1. /\ task[t].op = "rmworktree" /\ UNCHANGED workspaces /\ pc'[t] = "drop"
        /\ workspaces[task[t].id].parent # None
        /\ task' = [task EXCEPT
                    ![t].list = Only(workspaces, {task[t].id}),
                    ![t].cur = task[t].id, ![t].gone = {task[t].id}]
    BY <1>0, <1>5 DEF remove_worktree_lookup, Goto, Return, AtRest, store
  <2>2. /\ task'[t].op = "rmworktree" /\ task'[t].id = task[t].id
        /\ task'[t].gone = {task[t].id} /\ task'[t].cur = task[t].id
    BY <1>0, <2>1 DEF Locals
  <2> QED BY <1>2, <2>1, <2>2 DEF RemovalFor, RemoveLabels, NoMain
<1>6. CASE kill_session_by_id_remove(t)
  <2>1. /\ pc[t] = "drop" /\ UNCHANGED workspaces
        /\ pc'[t] \in {"unregister", AfterKill(t)}
    BY <1>0, <1>6 DEF kill_session_by_id_remove, Goto, At, store
  <2>2. /\ task'[t].op = task[t].op /\ task'[t].id = task[t].id
        /\ task'[t].cur = task[t].cur /\ task'[t].todo = task[t].todo
        /\ task'[t].gone = task[t].gone /\ task'[t].failed = task[t].failed
    BY <1>0, <1>6 DEF kill_session_by_id_remove, Locals
  <2> QED BY <1>0, <2>1, <2>2, FamilyOfKill
<1>7. CASE unregister_workspace(t) \/ kill_session_by_id_kill(t)
  <2>1. /\ pc[t] \in {"unregister", "kill"} /\ UNCHANGED workspaces
        /\ pc'[t] \in {"kill", AfterKill(t)}
    BY <1>0, <1>7 DEF unregister_workspace, kill_session_by_id_kill, KillReturns,
       Goto, At, store
  <2>2. /\ task'[t].op = task[t].op /\ task'[t].id = task[t].id
        /\ task'[t].cur = task[t].cur /\ task'[t].todo = task[t].todo
        /\ task'[t].gone = task[t].gone /\ task'[t].failed = task[t].failed
    BY <1>0, <1>7 DEF unregister_workspace, kill_session_by_id_kill, KillReturns,
       Locals
  <2> QED BY <1>0, <2>1, <2>2, FamilyOfKill
<1>8. CASE remove_worktree_files(t) /\ pc'[t] \notin AtRest
  <2>1. /\ pc[t] = "files" /\ UNCHANGED workspaces
        /\ task[t].op \in {"remove", "rmworktree"}
    BY <1>0, <1>8 DEF remove_worktree_files, CommandFor, At, store
  <2>2. CASE /\ task' = [task EXCEPT ![t].gone = @ \cup {task[t].cur}]
             /\ Goto(t, IF task[t].op = "remove" THEN "child" ELSE "forget")
    <3>1. /\ task'[t].op = task[t].op /\ task'[t].id = task[t].id
          /\ task'[t].cur = task[t].cur /\ task'[t].todo = task[t].todo
          /\ task'[t].failed = task[t].failed
          /\ task'[t].gone = task[t].gone \cup {task[t].cur}
          /\ pc'[t] = IF task[t].op = "remove" THEN "child" ELSE "forget"
      BY <1>0, <2>2 DEF Goto, Locals
    <3>2. Handled("child", task'[t]) = Handled("files", task[t])
      BY <3>1 DEF Handled, Dropping
    <3> QED BY <1>0, <1>2, <2>1, <3>1, <3>2 DEF RemovalFor, RemoveLabels, Dropping
  <2>3. CASE /\ task[t].op = "remove" /\ Goto(t, "child")
             /\ task' = [task EXCEPT ![t].failed = TRUE]
    <3>1. /\ task'[t].op = task[t].op /\ task'[t].id = task[t].id
          /\ task'[t].cur = task[t].cur /\ task'[t].todo = task[t].todo
          /\ task'[t].gone = task[t].gone /\ task'[t].failed /\ pc'[t] = "child"
      BY <1>0, <2>3 DEF Goto, Locals
    <3>2. Handled("child", task'[t]) \subseteq Handled("files", task[t])
      BY <3>1 DEF Handled, Dropping
    <3> QED BY <1>0, <1>2, <2>1, <2>3, <3>1, <3>2 DEF RemovalFor, RemoveLabels, Dropping
  <2>4. Return(t, "err") => pc'[t] \in AtRest
    BY <1>0 DEF Return, AtRest
  <2> QED BY <1>8, <2>2, <2>3, <2>4 DEF remove_worktree_files
<1>9. CASE remove_workspace_forget(t)
  <2>1. pc'[t] \in AtRest
    BY <1>0, <1>9 DEF remove_workspace_forget, Return, AtRest
  <2> QED BY <1>1, <2>1
<1> QED BY <1>1, <1>3, <1>4, <1>5, <1>6, <1>7, <1>8, <1>9 DEF RemoveWorkspace

LEMMA RenameKeepsFamily ==
  ASSUME InductiveInvariant, PoolInvariant, Families, NEW t \in Tasks,
         Shrinks(t), ParentsPresent(workspaces'),
         UpdateSettings(t) \/ RenameWorktree(t)
  PROVE  FamilyFor(workspaces', pc'[t], task'[t])
<1>0. /\ pc \in [Tasks -> Labels] /\ task \in [Tasks -> Locals]
      /\ task[t] \in Locals /\ LocalsFor(pc[t], task[t])
      /\ CommandFor(pc[t], task[t]) /\ FamilyFor(workspaces, pc[t], task[t])
      /\ workspaces \in Stores
  BY DEF InductiveInvariant, TypeOK, StoreTypeOK, LocalsSet, PoolInvariant,
     CommandsIssued, Families
<1>1. CASE pc'[t] \in AtRest \cup {"propagate", "snapshot", "branchMove", "gitMove",
                                   "update", "reregister"}
  BY <1>1, FamilyOfOthers DEF FamilyLabels, RemoveLabels, Minting, AtRest
<1>2. ASSUME pc'[t] \in {"renameBack", "branchBack", "restore"},
             Restores(pc'[t], task'[t]) => Restores(pc[t], task[t]),
             task'[t].id = task[t].id, task'[t].before = task[t].before,
             UNCHANGED workspaces
      PROVE  FamilyFor(workspaces', pc'[t], task'[t])
  BY <1>0, <1>2 DEF FamilyFor, RemovalFor, RemoveLabels, AddsFor, Minting
<1>3. CASE \/ update_workspace_settings_apply(t)
           \/ update_workspace_settings_propagate(t)
           \/ rename_worktree_lookup(t) \/ rename_worktree_branch(t)
           \/ rename_worktree_restore(t) \/ rename_worktree_register(t)
  <2>1. pc'[t] \in AtRest \cup {"propagate", "snapshot", "branchMove", "gitMove",
                                "update"}
    BY <1>0, <1>3 DEF update_workspace_settings_apply, Goto, Return, AtRest,
       update_workspace_settings_propagate, rename_worktree_lookup,
       rename_worktree_branch, rename_worktree_restore, rename_worktree_register
  <2> QED BY <1>1, <2>1
<1>4. CASE update_workspace_settings_snapshot(t)
  <2>1. /\ pc'[t] = "save" /\ task'[t].list = workspaces /\ UNCHANGED workspaces
        /\ task'[t].op = "settings"
    BY <1>0, <1>4 DEF update_workspace_settings_snapshot, Goto, At, Locals,
       LocalsFor, store
  <2> QED BY <2>1 DEF FamilyFor, Restores, RemovalFor, RemoveLabels, AddsFor,
        Minting
<1>5. CASE save_list(t) /\ pc'[t] \notin AtRest \cup {"reregister"}
  <2>1. /\ pc[t] = "save" /\ pc'[t] = "renameBack" /\ task[t].op = "rename"
        /\ UNCHANGED workspaces /\ task' = [task EXCEPT ![t].failed = TRUE]
    BY <1>0, <1>5 DEF save_list, Goto, Return, AtRest, At
  <2>2. task'[t].id = task[t].id /\ task'[t].before = task[t].before
    BY <1>0, <2>1 DEF Locals
  <2> QED BY <1>2, <2>1, <2>2 DEF Restores
<1>6. CASE rename_worktree_move(t)
  <2>1. /\ pc[t] = "gitMove" /\ pc'[t] \in {"branchBack", "update"}
        /\ task'[t] = task[t] /\ UNCHANGED workspaces
    BY <1>0, <1>6 DEF rename_worktree_move, Goto, At, store
  <2>2. ~task[t].failed
    BY <1>0, <2>1 DEF LocalsFor
  <2> QED BY <1>1, <1>2, <2>1, <2>2 DEF Restores
<1>7. CASE rename_worktree_update(t)
  <2>0. pc[t] = "update" /\ ~task[t].failed /\ task[t].id \in Ids
    BY <1>0, <1>7 DEF rename_worktree_update, LocalsFor, NeedsId, At
  <2>1. CASE Goto(t, "renameBack") /\ UNCHANGED <<workspaces, task>>
    <3>1. pc'[t] = "renameBack" /\ task'[t] = task[t]
      BY <1>0, <2>1 DEF Goto
    <3> QED BY <1>2, <2>0, <2>1, <3>1 DEF Restores
  <2>2. CASE /\ workspaces[task[t].id] # None
             /\ task' = [task EXCEPT ![t].before = workspaces[task[t].id],
                                     ![t].list = workspaces']
             /\ Goto(t, "save")
    <3>1. /\ pc'[t] = "save" /\ task'[t].list = workspaces'
          /\ task'[t].before = workspaces[task[t].id]
          /\ task'[t].id = task[t].id
      BY <1>0, <2>2 DEF Goto, Locals
    <3>2. workspaces'[task[t].id] # None =>
            workspaces'[task[t].id].parent = workspaces[task[t].id].parent
      BY <2>0, <2>2 DEF Shrinks
    <3> QED BY <3>1, <3>2 DEF FamilyFor, Restores, RemovalFor, RemoveLabels,
          AddsFor, Minting
  <2> QED BY <1>7, <2>1, <2>2 DEF rename_worktree_update
<1>8. CASE rename_worktree_move_back(t)
  <2>1. /\ pc[t] = "renameBack" /\ pc'[t] = "branchBack"
        /\ task'[t] = task[t] /\ UNCHANGED workspaces
    BY <1>0, <1>8 DEF rename_worktree_move_back, Goto, At, store
  <2> QED BY <1>2, <2>1 DEF Restores
<1>9. CASE rename_worktree_branch_back(t) /\ pc'[t] \notin AtRest
  <2>1. /\ pc[t] = "branchBack" /\ pc'[t] = "restore" /\ task[t].failed
        /\ task'[t] = task[t] /\ UNCHANGED workspaces
    BY <1>0, <1>9 DEF rename_worktree_branch_back, Goto, Return, AtRest, At, store
  <2> QED BY <1>2, <2>1 DEF Restores
<1> QED BY <1>1, <1>3, <1>4, <1>5, <1>6, <1>7, <1>8, <1>9 DEF UpdateSettings,
      RenameWorktree

LEMMA FamiliesNext ==
  ASSUME InductiveInvariant, PoolInvariant, FreshIds, IdsIssued, Families,
         FamiliesShrink, [Next]_vars
  PROVE  Families'
<1>0. /\ pc \in [Tasks -> Labels] /\ task \in [Tasks -> Locals]
      /\ workspaces \in Stores /\ stored \in Stores \cup {Torn}
  BY DEF InductiveInvariant, TypeOK, StoreTypeOK
<1>1. CASE UNCHANGED vars
  BY <1>1 DEF vars, Families
<1>2. ASSUME NEW t \in Tasks, OthersStay(t), Shrinks(t),
             ParentsPresent(read_workspaces(stored))',
             FamilyFor(workspaces', pc'[t], task'[t])
      PROVE  Families'
  <2>1. ParentsPresent(workspaces)'
    BY <1>2, ShrunkKeepsParents DEF Families
  <2>2. ASSUME NEW u \in Tasks, u # t
        PROVE  FamilyFor(workspaces', pc'[u], task'[u])
    <3>1. FamilyFor(workspaces', pc[u], task[u])
      BY <1>2, <2>2, ShrunkKeepsOthers DEF Families
    <3>2. pc'[u] = pc[u] /\ task'[u] = task[u]
      BY <1>2, <2>2 DEF OthersStay
    <3> QED BY <3>1, <3>2
  <2> QED BY <1>2, <2>1, <2>2 DEF Families
<1>3. ASSUME NEW t \in Tasks, UNCHANGED <<workspaces, stored>>
      PROVE  Shrinks(t) /\ ParentsPresent(read_workspaces(stored))'
  BY <1>3 DEF Shrinks, Families
<1>4. ASSUME NEW t \in Tasks, Request(t) PROVE Families'
  <2>1. /\ OthersStay(t) /\ UNCHANGED <<workspaces, stored>>
        /\ pc'[t] \in {"precheck", "resolve", "prepare", "lookup", "apply",
                        "syncRead"}
    BY <1>4, RequestAlone
  <2>2. FamilyFor(workspaces', pc'[t], task'[t])
    BY <2>1, FamilyOfOthers DEF FamilyLabels, RemoveLabels, Minting
  <2> QED BY <1>2, <1>3, <2>1, <2>2
<1>5. ASSUME NEW t \in Tasks, workspace_session_spawn_lock(t) PROVE Families'
  <2>1. /\ OthersStay(t) /\ UNCHANGED <<workspaces, stored>>
        /\ pc[t] = "lock" /\ task'[t] = task[t]
        /\ pc'[t] \in {"own", "current", "take"}
    BY <1>0, <1>5 DEF workspace_session_spawn_lock, OthersStay, At, store
  <2>2. pc'[t] \notin FamilyLabels \cup RemoveLabels
    BY <2>1 DEF FamilyLabels, RemoveLabels
  <2>3. Shrinks(t)
    BY <1>3, <2>1
  <2>4. FamilyFor(workspaces', pc'[t], task'[t])
    BY <2>1, <2>2, <2>3, FamilyOfAdd DEF AddsFor, Minting, FamilyLabels, Families
  <2> QED BY <1>2, <1>3, <2>1, <2>4
<1>6. ASSUME NEW t \in Tasks, Advance(t) PROVE Families'
  <2>0. OthersStay(t) /\ CommandFor(pc[t], task[t])
    BY <1>6, AdvanceAlone DEF PoolInvariant, CommandsIssued
  <2>1. Shrinks(t)
    BY <1>3, <1>6, SavesOrKeeps, SavesShrink
  <2>2. ParentsPresent(workspaces)'
    BY <2>1, ShrunkKeepsParents DEF Families
  <2>3. ParentsPresent(read_workspaces(stored))'
    BY <1>3, <1>6, <2>2, SavesOrKeeps, SavesKeepFile
  <2>4. ~SyncFromStorage(t)
    BY <2>0 DEF SyncFromStorage, sync_workspaces_read, sync_workspaces_store,
       sync_workspaces_prune, sync_workspaces_kill, At, CommandFor, AtRest,
       FamiliesShrink
  <2>5. FamilyFor(workspaces, pc[t], task[t]) /\ ParentsPresent(workspaces')
    BY <2>2 DEF Families
  <2>6. FamilyFor(workspaces', pc'[t], task'[t])
    BY <1>6, <2>1, <2>4, <2>5, ConnectKeepsFamily, AddKeepsFamily,
       RemoveKeepsFamily, RenameKeepsFamily DEF Advance
  <2> QED BY <1>2, <2>0, <2>1, <2>3, <2>6
<1>7. CASE Crash
  BY <1>7 DEF Crash, store, Families
<1>8. CASE Restart
  <2>1. /\ workspaces' = read_workspaces(stored') /\ stored' \in {stored, Torn}
        /\ \A u \in Tasks : pc'[u] = "idle"
    BY <1>8 DEF Restart
  <2>2. ParentsPresent(read_workspaces(stored'))
    BY <2>1 DEF Families, read_workspaces, EmptyStore, ParentsPresent
  <2>3. ParentsPresent(workspaces')
    BY <2>1, <2>2
  <2>4. \A u \in Tasks : FamilyFor(workspaces', pc'[u], task'[u])
    BY <2>1, FamilyOfOthers DEF FamilyLabels, RemoveLabels, Minting
  <2> QED BY <2>2, <2>3, <2>4 DEF Families
<1>9. CASE OtherProcessSaves
  <2>1. UNCHANGED <<workspaces, pc, task>> /\ stored \in Stores
    BY <1>0, <1>9 DEF OtherProcessSaves
  <2>2. PICK x \in Ids : stored' = [v \in Ids |->
            IF v = x \/ v \in Children(stored, x) THEN None ELSE stored[v]]
    BY <1>9 DEF OtherProcessSaves, Present
  <2>3. ParentsPresent(stored)
    BY <2>1, StoresAssumption DEF Families, read_workspaces
  <2>4. ParentsPresent(stored')
    <3> SUFFICES ASSUME NEW w \in Ids, stored'[w] # None, stored'[w].parent # None
                 PROVE  /\ stored'[stored'[w].parent] # None
                        /\ stored'[stored'[w].parent].parent = None
      BY DEF ParentsPresent
    <3>1. /\ w # x /\ w \notin Children(stored, x) /\ stored'[w] = stored[w]
      BY <2>2
    <3>2. stored[w] # None /\ stored[w] \in Entry
      BY <2>1, <3>1 DEF Stores
    <3>3. PICK p \in Ids : p = stored[w].parent
      BY <3>1, <3>2 DEF Entry
    <3>4. stored[p] # None /\ stored[p].parent = None
      BY <2>3, <3>2, <3>3, NoneAssumption DEF ParentsPresent
    <3>5. p # x /\ p \notin Children(stored, x)
      BY <3>1, <3>2, <3>3, <3>4, NoneAssumption DEF Children
    <3> QED BY <2>2, <3>1, <3>3, <3>4, <3>5
  <2>5. ParentsPresent(read_workspaces(stored'))
    BY <2>4 DEF read_workspaces, ParentsPresent, EmptyStore
  <2> QED BY <2>1, <2>5 DEF Families
<1> QED BY <1>1, <1>4, <1>5, <1>6, <1>7, <1>8, <1>9 DEF Next, Environment

LEMMA FamiliesInit ==
  ASSUME Init
  PROVE  Families
<1>1. /\ stored \in InitialStores /\ workspaces = stored
      /\ \A t \in Tasks : pc[t] = "idle"
  BY DEF Init
<1>2. ParentsPresent(stored) /\ stored \in Stores
  BY <1>1, StoresAssumption
<1>3. read_workspaces(stored) = stored
  BY <1>2, StoresAssumption DEF read_workspaces
<1>4. \A t \in Tasks : FamilyFor(workspaces, pc[t], task[t])
  BY <1>1 DEF FamilyFor, RemovalFor, RemoveLabels, Restores, AddsFor, Minting
<1> QED BY <1>1, <1>2, <1>3, <1>4 DEF Families

(* As long as no worktree is being added, a worktree is never left without *)
(* its parent, in memory or in the file: removals that fail half-way or    *)
(* overlap, stale lists saved by settings and renames, torn files, roll-   *)
(* backs and restarts included (remove_workspace_core).                    *)
THEOREM WorktreesAreNotOrphaned ==
  ASSUME FamiliesShrink
  PROVE  Spec => []WorktreesKeepTheirParent
<1>1. Init => Families
  BY FamiliesInit
<1>2. /\ InductiveInvariant /\ PoolInvariant /\ FreshIds /\ IdsIssued
      /\ Families /\ [Next]_vars
      => Families'
  BY FamiliesNext
<1>3. Families => WorktreesKeepTheirParent
  BY DEF Families, WorktreesKeepTheirParent
<1> QED BY <1>1, <1>2, <1>3, IdsInvariance, PTL DEF Spec

-----------------------------------------------------------------------------
(* FailedAddIsForgotten, when nobody else writes the file while an add     *)
(* is rolled back.  (A settings update, a rename or a removal may save the *)
(* entry after it is inserted and before it is taken back.)                *)
OnlyAddsSave == Ops \cap {"remove", "rmworktree", "settings", "rename"} = {}

(* From making up the id to the answer, unless the add succeeds. *)
Undoing(t) == pc[t] \in {"undo", "undoKill"}

(* The id of an add that is rolled back is still in no file and no list. *)
UndoFor(t) ==
    /\ stored = Torn \/ stored[task[t].id] = None
    /\ \A u \in Tasks : pc[u] = "syncStore" => task[u].list[task[t].id] = None
    /\ pc[t] = "undoKill" => workspaces[task[t].id] = None

AddsUnknown ==
    /\ Present(sessions) \subseteq issued
    /\ \A t \in Tasks : Adds(t) \/ Undoing(t) => sessions[task[t].id] = None
    /\ \A t \in Tasks : Undoing(t) => UndoFor(t)

(* A workspace becomes connected by connect_workspace_insert alone. *)
LEMMA SessionsGrow ==
  ASSUME InductiveInvariant, NEW t \in Tasks, Advance(t), NEW w \in Ids,
         sessions'[w] # None
  PROVE  sessions[w] # None \/ (pc[t] = "insert" /\ w = task[t].id)
<1>0. sessions \in [Ids -> Sessions \cup {None}]
  BY DEF InductiveInvariant, TypeOK, PoolTypeOK
<1>1. CASE Connect(t)
  BY <1>0, <1>1 DEF Connect, At, pool, connect_workspace_precheck,
     resolve_entry_and_parent, connect_workspace_own,
     connect_workspace_own_alive, take_live_shared_session,
     take_live_shared_session_alive, spawn_session,
     register_workspace_with_path, connect_workspace_insert,
     remove_session_references
<1>2. CASE AddWorkspace(t)
  BY <1>0, <1>2 DEF AddWorkspace, At, pool, add_workspace_prepare,
     add_worktree_lookup, add_worktree_git, add_workspace_persist,
     add_workspace_undo, add_workspace_undo_kill
<1>3. CASE RuntimeArgs(t)
  BY <1>0, <1>3 DEF RuntimeArgs, At, pool, runtime_codex_args_current,
     runtime_codex_args_swap, runtime_codex_args_register,
     runtime_codex_args_kill_old
<1>4. CASE RemoveWorkspace(t)
  BY <1>0, <1>4 DEF RemoveWorkspace, At, pool, remove_workspace_lookup,
     remove_workspace_child, remove_worktree_lookup,
     kill_session_by_id_remove, unregister_workspace,
     kill_session_by_id_kill, remove_worktree_files, remove_workspace_forget
<1>5. CASE UpdateSettings(t)
  BY <1>0, <1>5 DEF UpdateSettings, At, pool,
     update_workspace_settings_apply, update_workspace_settings_propagate,
     update_workspace_settings_snapshot, save_list
<1>6. CASE RenameWorktree(t)
  BY <1>0, <1>6 DEF RenameWorktree, At, pool, rename_worktree_lookup,
     rename_worktree_branch, rename_worktree_move, rename_worktree_update,
     rename_worktree_move_back, rename_worktree_branch_back,
     rename_worktree_restore, rename_worktree_register
<1>7. CASE SyncFromStorage(t)
  BY <1>0, <1>7 DEF SyncFromStorage, At, pool, sync_workspaces_read,
     sync_workspaces_store, sync_workspaces_prune, sync_workspaces_kill,
     Stale
<1> QED BY <1>1, <1>2, <1>3, <1>4, <1>5, <1>6, <1>7 DEF Advance

(* A rollback begins after a save that failed, a sync by reading the file. *)
LEMMA StepsBefore ==
  ASSUME InductiveInvariant, NEW t \in Tasks, Advance(t)
  PROVE  /\ pc'[t] = "undo" => add_workspace_persist(t)
         /\ pc'[t] = "undoKill" => add_workspace_undo(t)
         /\ pc'[t] = "syncStore" => sync_workspaces_read(t)
<1>0. pc \in [Tasks -> Labels]
  BY DEF InductiveInvariant, TypeOK
<1>1. CASE Connect(t)
  BY <1>0, <1>1 DEF Connect, Goto, Return, connect_workspace_precheck,
     resolve_entry_and_parent, connect_workspace_own,
     connect_workspace_own_alive, take_live_shared_session,
     take_live_shared_session_alive, spawn_session,
     register_workspace_with_path, connect_workspace_insert, AfterSession
<1>2. CASE AddWorkspace(t)
  BY <1>0, <1>2 DEF AddWorkspace, Goto, Return, add_workspace_prepare,
     add_worktree_lookup, add_worktree_git, add_workspace_persist,
     add_workspace_undo, add_workspace_undo_kill
<1>3. CASE RuntimeArgs(t)
  BY <1>0, <1>3 DEF RuntimeArgs, Goto, Return, runtime_codex_args_current,
     runtime_codex_args_swap, runtime_codex_args_register,
     runtime_codex_args_kill_old
<1>4. CASE RemoveWorkspace(t)
  BY <1>0, <1>4 DEF RemoveWorkspace, Goto, Return, remove_workspace_lookup,
     remove_workspace_child, remove_worktree_lookup,
     kill_session_by_id_remove, unregister_workspace,
     kill_session_by_id_kill, remove_worktree_files, remove_workspace_forget,
     KillReturns, AfterKill
<1>5. CASE UpdateSettings(t)
  BY <1>0, <1>5 DEF UpdateSettings, Goto, Return,
     update_workspace_settings_apply, update_workspace_settings_propagate,
     update_workspace_settings_snapshot, save_list
<1>6. CASE RenameWorktree(t)
  BY <1>0, <1>6 DEF RenameWorktree, Goto, Return, rename_worktree_lookup,
     rename_worktree_branch, rename_worktree_move, rename_worktree_update,
     rename_worktree_move_back, rename_worktree_branch_back,
     rename_worktree_restore, rename_worktree_register
<1>7. CASE SyncFromStorage(t)
  BY <1>0, <1>7 DEF SyncFromStorage, Goto, Return, sync_workspaces_read,
     sync_workspaces_store, sync_workspaces_prune, sync_workspaces_kill
<1> QED BY <1>1, <1>2, <1>3, <1>4, <1>5, <1>6, <1>7 DEF Advance

LEMMA AdvanceKeepsUnknown ==
  ASSUME InductiveInvariant, InductiveInvariant', PoolInvariant, FreshIds,
         IdsIssued, AddsUnknown, OnlyAddsSave, NEW t \in Tasks, Advance(t)
  PROVE  AddsUnknown'
<1>0. /\ pc \in [Tasks -> Labels] /\ task \in [Tasks -> Locals]
      /\ task[t] \in Locals /\ LocalsFor(pc[t], task[t])
      /\ CommandFor(pc[t], task[t]) /\ workspaces \in Stores
  BY DEF InductiveInvariant, TypeOK, StoreTypeOK, LocalsSet, PoolInvariant,
     CommandsIssued
<1>1. OthersStay(t) /\ MentionStep(t)
  BY AdvanceIsMentionStep
<1>2. \A u \in Tasks \ {t} : (Adds(u)' <=> Adds(u)) /\ (Undoing(u)' <=> Undoing(u))
  BY <1>1 DEF OthersStay, Adds, Undoing
<1>3. pc'[t] = "undo" => /\ Adds(t) /\ pc[t] = "persist"
                         /\ task'[t] = task[t] /\ stored' \in {stored, Torn}
  <2> SUFFICES ASSUME pc'[t] = "undo"
               PROVE  /\ Adds(t) /\ pc[t] = "persist"
                      /\ task'[t] = task[t] /\ stored' \in {stored, Torn}
    OBVIOUS
  <2>1. add_workspace_persist(t)
    BY StepsBefore
  <2>2. pc[t] = "persist" /\ task'[t] = task[t] /\ stored' \in {stored, Torn}
    BY <1>0, <2>1 DEF add_workspace_persist, Goto, Return, At,
       write_workspaces_fails
  <2> QED BY <1>0, <2>2 DEF Adds, AddsFor, Minting, CommandFor
<1>4. pc'[t] = "undoKill" => /\ pc[t] = "undo" /\ task'[t] = task[t]
                             /\ UNCHANGED stored
                             /\ workspaces'[task[t].id] = None
  <2> SUFFICES ASSUME pc'[t] = "undoKill"
               PROVE  /\ pc[t] = "undo" /\ task'[t] = task[t]
                      /\ UNCHANGED stored /\ workspaces'[task[t].id] = None
    OBVIOUS
  <2>1. add_workspace_undo(t)
    BY StepsBefore
  <2>2. task[t].id \in Ids
    BY <1>0, <2>1 DEF add_workspace_undo, At, LocalsFor, NeedsId
  <2> QED BY <1>0, <2>1, <2>2 DEF add_workspace_undo, At, Stores
<1>5. pc'[t] = "syncStore" => stored # Torn /\ task'[t].list = stored
  <2> SUFFICES ASSUME pc'[t] = "syncStore"
               PROVE  stored # Torn /\ task'[t].list = stored
    OBVIOUS
  <2>1. sync_workspaces_read(t)
    BY StepsBefore
  <2> QED BY <1>0, <2>1 DEF sync_workspaces_read, Return, Locals
<1>6. ASSUME NEW w \in Ids, sessions'[w] # None PROVE w \in issued'
  <2>1. sessions[w] # None \/ (pc[t] = "insert" /\ w = task[t].id)
    BY <1>6, SessionsGrow
  <2>2. w \in issued
    BY <2>1, NoneAssumption DEF AddsUnknown, Present, IdsIssued
  <2> QED BY <1>1, <2>2 DEF MentionStep
<1>7. ASSUME NEW u \in Tasks, Adds(u)' \/ Undoing(u)'
      PROVE  sessions'[task'[u].id] = None
  <2>0. PICK w \in Ids : w = task'[u].id
    BY <1>7 DEF InductiveInvariant, LocalsSet, LocalsFor, NeedsId, Adds, AddsFor,
       Minting, Undoing
  <2> SUFFICES ASSUME sessions'[w] # None PROVE FALSE
    BY <2>0
  <2>1. sessions[w] # None \/ (pc[t] = "insert" /\ w = task[t].id)
    BY SessionsGrow
  <2>2. CASE u # t
    <3>1. (Adds(u) \/ Undoing(u)) /\ w = task[u].id
      BY <1>1, <1>2, <1>7, <2>0, <2>2 DEF OthersStay
    <3>2. pc[t] = "insert" /\ w = task[t].id
      BY <2>1, <3>1 DEF AddsUnknown
    <3>3. MentionFor(pc[t], task[t], w)
      BY <3>2 DEF MentionFor, Early, AtRest, AddsFor, Minting
    <3>4. ~Adds(u)
      BY <3>1, <3>3 DEF FreshIds, Mentioned
    <3>5. pc[u] \in Guarded /\ pc[t] \in Guarded
      BY <3>1, <3>2, <3>4 DEF Undoing, Guarded
    <3> QED BY <2>2, <3>5 DEF InductiveInvariant, LockHeld
  <2>3. CASE u = t
    <3>1. \/ (Adds(t) \/ Undoing(t)) /\ w = task[t].id
          \/ w \in issued' \ issued
      BY <1>1, <1>3, <1>4, <1>7, <2>0, <2>3 DEF Undoing, MentionStep
    <3>2. CASE (Adds(t) \/ Undoing(t)) /\ w = task[t].id
      <4>1. pc[t] # "insert"
        BY <3>2 DEF Adds, AddsFor, Minting, Undoing
      <4> QED BY <2>1, <3>2, <4>1 DEF AddsUnknown
    <3>3. CASE w \in issued' \ issued
      <4>1. w # task[t].id
        BY <3>3, NoneAssumption DEF IdsIssued
      <4> QED BY <2>1, <3>3, <4>1 DEF AddsUnknown, Present
    <3> QED BY <3>1, <3>2, <3>3
  <2> QED BY <2>2, <2>3
<1>8. ASSUME NEW u \in Tasks, Undoing(u)' PROVE UndoFor(u)'
  <2>0. PICK w \in Ids : w = task'[u].id
    BY <1>8 DEF InductiveInvariant, LocalsSet, LocalsFor, NeedsId, Undoing
  <2>1. ASSUME stored' = Torn \/ stored'[w] = None,
               \A v \in Tasks : pc'[v] = "syncStore" => task'[v].list[w] = None,
               pc'[u] = "undoKill" => workspaces'[w] = None
        PROVE  UndoFor(u)'
    BY <2>0, <2>1 DEF UndoFor
  <2>2. CASE u = t /\ pc'[t] = "undo"
    <3>1. /\ Adds(t) /\ w = task[t].id /\ stored' \in {stored, Torn}
      BY <1>3, <2>0, <2>2
    <3>2. ~Mentioned(w)
      BY <3>1 DEF FreshIds
    <3>3. stored' = Torn \/ stored'[w] = None
      BY <3>1, <3>2 DEF Mentioned
    <3>4. ASSUME NEW v \in Tasks, pc'[v] = "syncStore" PROVE task'[v].list[w] = None
      <4>1. v # t
        BY <2>2, <3>4
      <4>2. pc[v] = "syncStore" /\ task'[v] = task[v]
        BY <1>1, <3>4, <4>1 DEF OthersStay
      <4> QED BY <3>2, <4>2 DEF Mentioned, MentionFor, NeedsList
    <3> QED BY <2>1, <2>2, <3>3, <3>4
  <2>3. CASE u = t /\ pc'[t] = "undoKill"
    <3>1. /\ pc[t] = "undo" /\ w = task[t].id /\ UNCHANGED stored
          /\ workspaces'[w] = None /\ UndoFor(t)
      BY <1>4, <2>0, <2>3 DEF AddsUnknown, Undoing
    <3>2. ASSUME NEW v \in Tasks, pc'[v] = "syncStore" PROVE task'[v].list[w] = None
      <4>1. v # t
        BY <2>3, <3>2
      <4>2. pc[v] = "syncStore" /\ task'[v] = task[v]
        BY <1>1, <3>2, <4>1 DEF OthersStay
      <4> QED BY <3>1, <4>2 DEF UndoFor
    <3>3. stored' = Torn \/ stored'[w] = None
      BY <3>1 DEF UndoFor
    <3> QED BY <2>1, <3>1, <3>2, <3>3
  <2>4. CASE u # t
    <3>1. /\ Undoing(u) /\ w = task[u].id /\ UndoFor(u)
          /\ pc'[u] = pc[u]
      BY <1>1, <1>8, <2>0, <2>4 DEF OthersStay, Undoing, AddsUnknown
    <3>2. pc[t] \notin Guarded
      BY <2>4, <3>1 DEF InductiveInvariant, LockHeld, Undoing, Guarded
    <3>3. Saves(t) => sync_workspaces_store(t)
      BY <1>0, <3>2 DEF Saves, add_workspace_persist, add_workspace_undo, At,
         remove_workspace_forget, update_workspace_settings_apply, Guarded,
         update_workspace_settings_propagate, save_list, LocalsFor, CommandFor,
         rename_worktree_update, rename_worktree_restore, OnlyAddsSave, AtRest
    <3>4. /\ UNCHANGED stored
          /\ \/ UNCHANGED workspaces
             \/ pc[t] = "syncStore" /\ workspaces' = task[t].list
      BY <3>3, SavesOrKeeps DEF sync_workspaces_store, At
    <3>5. stored' = Torn \/ stored'[w] = None
      BY <3>1, <3>4 DEF UndoFor
    <3>6. ASSUME NEW v \in Tasks, pc'[v] = "syncStore" PROVE task'[v].list[w] = None
      <4>1. CASE v = t
        BY <1>5, <3>1, <3>6, <4>1 DEF UndoFor
      <4>2. CASE v # t
        <5>1. pc[v] = "syncStore" /\ task'[v] = task[v]
          BY <1>1, <3>6, <4>2 DEF OthersStay
        <5> QED BY <3>1, <5>1 DEF UndoFor
      <4> QED BY <4>1, <4>2
    <3>7. pc'[u] = "undoKill" => workspaces'[w] = None
      BY <3>1, <3>4 DEF UndoFor
    <3> QED BY <2>1, <3>5, <3>6, <3>7
  <2> QED BY <1>8, <2>2, <2>3, <2>4 DEF Undoing
<1> QED BY <1>6, <1>7, <1>8 DEF AddsUnknown, Present

LEMMA UnknownNext ==
  ASSUME InductiveInvariant, InductiveInvariant', PoolInvariant, FreshIds,
         IdsIssued, AddsUnknown, OnlyAddsSave, [Next]_vars
  PROVE  AddsUnknown'
<1>0. /\ pc \in [Tasks -> Labels] /\ task \in [Tasks -> Locals]
  BY DEF InductiveInvariant, TypeOK
<1>1. CASE UNCHANGED vars
  BY <1>1 DEF vars, AddsUnknown, UndoFor, Undoing, Adds, Present
<1>2. ASSUME NEW t \in Tasks, OthersStay(t),
             UNCHANGED <<workspaces, stored, issued, sessions>>,
             Adds(t)' => Adds(t) /\ task'[t] = task[t],
             pc'[t] \notin {"undo", "undoKill", "syncStore"}
      PROVE  AddsUnknown'
  <2>1. ASSUME NEW u \in Tasks, Adds(u)' \/ Undoing(u)'
        PROVE  (Adds(u) \/ Undoing(u)) /\ task'[u] = task[u]
    BY <1>2, <2>1 DEF OthersStay, Adds, Undoing
  <2>2. ASSUME NEW u \in Tasks, Undoing(u)' PROVE UndoFor(u)'
    <3>1. u # t /\ Undoing(u) /\ UndoFor(u) /\ pc'[u] = pc[u] /\ task'[u] = task[u]
      BY <1>2, <2>2 DEF Undoing, OthersStay, AddsUnknown
    <3>2. \A v \in Tasks : pc'[v] = "syncStore" => pc[v] = "syncStore" /\ task'[v] = task[v]
      BY <1>2 DEF OthersStay
    <3> QED BY <1>2, <3>1, <3>2 DEF UndoFor
  <2> QED BY <1>2, <2>1, <2>2 DEF AddsUnknown, Present
<1>3. ASSUME NEW t \in Tasks, Request(t) PROVE AddsUnknown'
  <2>1. /\ OthersStay(t) /\ UNCHANGED <<workspaces, stored, issued, sessions>>
        /\ pc'[t] \in {"precheck", "resolve", "prepare", "lookup", "apply",
                        "syncRead"}
    BY <1>3, RequestAlone
  <2>2. ~Adds(t)'
    BY <2>1 DEF Adds, AddsFor, Minting
  <2> QED BY <1>2, <2>1, <2>2
<1>4. ASSUME NEW t \in Tasks, workspace_session_spawn_lock(t) PROVE AddsUnknown'
  <2>1. /\ OthersStay(t) /\ UNCHANGED <<workspaces, stored, issued, sessions>>
        /\ pc[t] = "lock" /\ task'[t] = task[t]
        /\ pc'[t] \in {"own", "current", "take"}
    BY <1>0, <1>4 DEF workspace_session_spawn_lock, OthersStay, At, store, git, pool
  <2>2. Adds(t)' => Adds(t)
    BY <2>1 DEF Adds, AddsFor, Minting
  <2> QED BY <1>2, <2>1, <2>2
<1>5. ASSUME NEW t \in Tasks, Advance(t) PROVE AddsUnknown'
  BY <1>5, AdvanceKeepsUnknown
<1>6. CASE Crash
  BY <1>6 DEF Crash, store, git, AddsUnknown, UndoFor, Undoing, Adds, Present
<1>7. CASE Restart
  BY <1>7 DEF Restart, git, AddsUnknown, Undoing, Adds, AddsFor, Minting, Present
<1>8. CASE OtherProcessSaves
  <2>1. /\ UNCHANGED <<workspaces, issued, sessions, pc, task>>
        /\ stored # Torn
        /\ \A w \in Ids : stored[w] = None => stored'[w] = None
    BY <1>8 DEF OtherProcessSaves, git, pool
  <2>2. ASSUME NEW u \in Tasks, Undoing(u)' PROVE UndoFor(u)'
    <3>1. Undoing(u) /\ UndoFor(u) /\ task[u].id \in Ids
      BY <2>1, <2>2 DEF Undoing, AddsUnknown, InductiveInvariant, LocalsSet,
         LocalsFor, NeedsId
    <3> QED BY <2>1, <3>1 DEF UndoFor
  <2> QED BY <2>1, <2>2 DEF AddsUnknown, Undoing, Adds, Present
<1> QED BY <1>1, <1>3, <1>4, <1>5, <1>6, <1>7, <1>8 DEF Next, Environment

(* An add fails when it cannot spawn, or after its rollback. *)
LEMMA AddsFailAt ==
  ASSUME InductiveInvariant, NEW t \in Tasks, Advance(t), pc[t] \in Guarded,
         pc'[t] = "err", task[t].op \in {"add", "clone", "giturl"}
  PROVE  spawn_session(t) \/ add_workspace_undo_kill(t)
<1>0. pc \in [Tasks -> Labels]
  BY DEF InductiveInvariant, TypeOK
<1>1. CASE Connect(t)
  BY <1>0, <1>1 DEF Connect, Goto, Return, At, Guarded,
     connect_workspace_precheck, resolve_entry_and_parent,
     connect_workspace_own, connect_workspace_own_alive,
     take_live_shared_session, take_live_shared_session_alive, spawn_session,
     register_workspace_with_path, connect_workspace_insert, AfterSession
<1>2. CASE AddWorkspace(t)
  BY <1>0, <1>2 DEF AddWorkspace, Goto, Return, At, Guarded,
     add_workspace_prepare, add_worktree_lookup, add_worktree_git,
     add_workspace_persist, add_workspace_undo, add_workspace_undo_kill
<1>3. CASE RuntimeArgs(t)
  BY <1>0, <1>3 DEF RuntimeArgs, Goto, Return, At, Guarded,
     runtime_codex_args_current, runtime_codex_args_swap,
     runtime_codex_args_register, runtime_codex_args_kill_old
<1>4. CASE RemoveWorkspace(t)
  BY <1>0, <1>4 DEF RemoveWorkspace, Goto, Return, At, Guarded,
     remove_workspace_lookup, remove_workspace_child, remove_worktree_lookup,
     kill_session_by_id_remove, unregister_workspace,
     kill_session_by_id_kill, remove_worktree_files, remove_workspace_forget,
     KillReturns, AfterKill
<1>5. CASE UpdateSettings(t)
  BY <1>0, <1>5 DEF UpdateSettings, Goto, Return, At, Guarded,
     update_workspace_settings_apply, update_workspace_settings_propagate,
     update_workspace_settings_snapshot, save_list
<1>6. CASE RenameWorktree(t)
  BY <1>0, <1>6 DEF RenameWorktree, Goto, Return, At, Guarded,
     rename_worktree_lookup, rename_worktree_branch, rename_worktree_move,
     rename_worktree_update, rename_worktree_move_back,
     rename_worktree_branch_back, rename_worktree_restore,
     rename_worktree_register
<1>7. CASE SyncFromStorage(t)
  BY <1>0, <1>7 DEF SyncFromStorage, Goto, Return, At, Guarded,
     sync_workspaces_read, sync_workspaces_store, sync_workspaces_prune,
     sync_workspaces_kill
<1> QED BY <1>1, <1>2, <1>3, <1>4, <1>5, <1>6, <1>7 DEF Advance

LEMMA FailedAddStep ==
  ASSUME InductiveInvariant, PoolInvariant, FreshIds, AddsUnknown,
         [Next]_vars, NEW t \in Tasks,
         task[t].op \in {"add", "clone", "giturl"},
         pc[t] \in Guarded, pc'[t] = "err", stored # Torn
  PROVE  /\ workspaces'[task[t].id] = None
         /\ stored'[task[t].id] = None
         /\ sessions'[task[t].id] = None
<1>0. /\ pc \in [Tasks -> Labels] /\ task \in [Tasks -> Locals]
      /\ LocalsFor(pc[t], task[t])
  BY DEF InductiveInvariant, TypeOK, LocalsSet
<1>1. Advance(t)
  <2>1. "err" \notin Guarded /\ Guarded \cap AtRest = {} /\ "lock" \notin Guarded
    BY DEF Guarded, AtRest
  <2>2. ASSUME NEW u \in Tasks, Advance(u) PROVE u = t
    <3>1. ASSUME u # t PROVE pc'[t] = pc[t]
      BY <2>2, <3>1, AdvanceAlone DEF OthersStay, PoolInvariant, CommandsIssued
    <3> QED BY <2>1, <3>1
  <2>3. ASSUME NEW u \in Tasks, Request(u) \/ workspace_session_spawn_lock(u)
        PROVE  FALSE
    <3>1. CASE u = t
      BY <2>1, <2>3, <3>1 DEF Request, workspace_session_spawn_lock, At
    <3>2. CASE u # t
      BY <1>0, <2>1, <2>3, <3>2 DEF Request, workspace_session_spawn_lock, Goto
    <3> QED BY <3>1, <3>2
  <2>4. ~Environment
    BY <2>1 DEF Environment, Crash, Restart, OtherProcessSaves
  <2>5. ~UNCHANGED vars
    BY <2>1 DEF vars
  <2> QED BY <2>2, <2>3, <2>4, <2>5 DEF Next
<1>2. CASE spawn_session(t)
  <2>1. pc[t] = "spawn" /\ UNCHANGED <<workspaces, stored, sessions>>
    BY <1>2 DEF spawn_session, At, store
  <2>2. task[t].id \in Ids /\ Adds(t)
    BY <1>0, <2>1 DEF LocalsFor, NeedsId, Adds, AddsFor, Minting, AddOps
  <2>3. ~Mentioned(task[t].id) /\ sessions[task[t].id] = None
    BY <2>2 DEF FreshIds, AddsUnknown
  <2> QED BY <2>1, <2>3 DEF Mentioned
<1>3. CASE add_workspace_undo_kill(t)
  <2>1. pc[t] = "undoKill" /\ UNCHANGED <<workspaces, stored, sessions>>
    BY <1>3 DEF add_workspace_undo_kill, At, store
  <2>2. task[t].id \in Ids /\ Undoing(t)
    BY <1>0, <2>1 DEF LocalsFor, NeedsId, Undoing
  <2>3. UndoFor(t) /\ sessions[task[t].id] = None
    BY <2>2 DEF AddsUnknown
  <2> QED BY <2>1, <2>2, <2>3 DEF UndoFor
<1> QED BY <1>1, <1>2, <1>3, AddsFailAt

LEMMA UnknownInit ==
  ASSUME Init
  PROVE  AddsUnknown
  BY DEF Init, AddsUnknown, Undoing, Adds, AddsFor, Minting, Present

(* An add that reports an error leaves no entry in memory, none in the     *)
(* file and no session, whatever connects, adds, worktrees, args switches  *)
(* and syncs race with it and whichever spawn, save or roll-back fails     *)
(* (add_workspace_core, add_clone_core, add_workspace_from_git_url_core).  *)
THEOREM FailedAddsAreForgotten ==
  ASSUME OnlyAddsSave
  PROVE  Spec => FailedAddIsForgotten
<1>1. Init => AddsUnknown
  BY UnknownInit
<1>2. /\ InductiveInvariant /\ InductiveInvariant' /\ PoolInvariant
      /\ FreshIds /\ IdsIssued /\ AddsUnknown /\ [Next]_vars
      => AddsUnknown'
  BY UnknownNext
<1>3. Spec => [](InductiveInvariant /\ PoolInvariant /\ FreshIds /\ AddsUnknown)
  BY <1>1, <1>2, IdsInvariance, PTL DEF Spec
<1> DEFINE Left == \A t \in Tasks :
         /\ task[t].op \in {"add", "clone", "giturl"}
         /\ pc[t] \in Guarded /\ pc'[t] = "err"
         /\ stored # Torn
         => LET w == task[t].id
            IN  /\ workspaces'[w] = None
                /\ stored'[w] = None
                /\ sessions'[w] = None
<1>4. /\ InductiveInvariant /\ PoolInvariant /\ FreshIds /\ AddsUnknown
      /\ [Next]_vars
      => [Left]_vars
  BY FailedAddStep
<1>5. Spec => [][Left]_vars
  <2> HIDE DEF Left
  <2> QED BY <1>3, <1>4, PTL DEF Spec
<1> QED BY <1>5 DEF FailedAddIsForgotten

-----------------------------------------------------------------------------
(* ConnectedIsKnown, for a client that waits for each answer.  (A connect  *)
(* that overlaps a removal or a rollback connects a workspace that is gone.) *)
OneClient == \A t, u \in Tasks : t = u

Connecting == {"lock", "own", "ownAlive", "take", "takeAlive", "spawn"}

(* What a task knows of the sessions of the workspaces it works on. *)
KnownFor(label, l) ==
    /\ label = "syncPrune" => workspaces = l.list
    /\ label \in Connecting /\ l.op = "connect" => workspaces[l.id] # None
    /\ label \in {"register", "insert"} => workspaces[l.id] # None
    /\ label = "undo" => sessions[l.id] = None
    /\ label \in RemoveLabels => \A c \in l.gone : sessions[c] = None
                                         \/ (label = "drop" /\ c = l.cur)
    /\ label \in {"unregister", "kill", "files"} => sessions[l.cur] = None

KnownSessions ==
    /\ \A t \in Tasks : KnownFor(pc[t], task[t])
    /\ (\A t \in Tasks : pc[t] # "syncPrune")
         => Present(sessions) \subseteq Present(workspaces)

(* The step at each of a few labels. *)
LEMMA AtPrune ==
  ASSUME InductiveInvariant, NEW t \in Tasks, Advance(t), pc[t] = "syncPrune"
  PROVE  sync_workspaces_prune(t)
<1>1. CASE Connect(t)
  BY <1>1 DEF Connect, At, connect_workspace_precheck,
     resolve_entry_and_parent, connect_workspace_own,
     connect_workspace_own_alive, take_live_shared_session,
     take_live_shared_session_alive, spawn_session,
     register_workspace_with_path, connect_workspace_insert
<1>2. CASE AddWorkspace(t)
  BY <1>2 DEF AddWorkspace, At, add_workspace_prepare, add_worktree_lookup,
     add_worktree_git, add_workspace_persist, add_workspace_undo,
     add_workspace_undo_kill
<1>3. CASE RuntimeArgs(t)
  BY <1>3 DEF RuntimeArgs, At, runtime_codex_args_current,
     runtime_codex_args_swap, runtime_codex_args_register,
     runtime_codex_args_kill_old
<1>4. CASE RemoveWorkspace(t)
  BY <1>4 DEF RemoveWorkspace, At, remove_workspace_lookup,
     remove_workspace_child, remove_worktree_lookup,
     kill_session_by_id_remove, unregister_workspace,
     kill_session_by_id_kill, remove_worktree_files, remove_workspace_forget
<1>5. CASE UpdateSettings(t)
  BY <1>5 DEF UpdateSettings, At, update_workspace_settings_apply,
     update_workspace_settings_propagate, update_workspace_settings_snapshot,
     save_list
<1>6. CASE RenameWorktree(t)
  BY <1>6 DEF RenameWorktree, At, rename_worktree_lookup,
     rename_worktree_branch, rename_worktree_move, rename_worktree_update,
     rename_worktree_move_back, rename_worktree_branch_back,
     rename_worktree_restore, rename_worktree_register
<1>7. CASE SyncFromStorage(t)
  BY <1>7 DEF SyncFromStorage, At, sync_workspaces_read,
     sync_workspaces_store, sync_workspaces_kill
<1> QED BY <1>1, <1>2, <1>3, <1>4, <1>5, <1>6, <1>7 DEF Advance

(* No connected workspace leaves the map. *)
LEMMA AdvanceKeepsConnected ==
  ASSUME InductiveInvariant, PoolInvariant, OneClient, KnownSessions,
         NEW t \in Tasks, Advance(t), pc'[t] # "syncPrune"
  PROVE  Present(sessions') \subseteq Present(workspaces')
<1>0. /\ pc \in [Tasks -> Labels] /\ task \in [Tasks -> Locals]
      /\ LocalsFor(pc[t], task[t]) /\ CommandFor(pc[t], task[t])
      /\ workspaces \in Stores /\ KnownFor(pc[t], task[t])
  BY DEF InductiveInvariant, TypeOK, StoreTypeOK, LocalsSet, PoolInvariant,
     CommandsIssued, KnownSessions
<1>1. \A w \in Ids : workspaces[w] # None => workspaces[w] \in Entry
  BY <1>0 DEF Stores
<1>2. pc[t] # "syncPrune" => Present(sessions) \subseteq Present(workspaces)
  BY DEF KnownSessions, OneClient
<1>3. CASE UNCHANGED workspaces
  <2> SUFFICES ASSUME NEW w \in Ids, sessions'[w] # None
               PROVE  workspaces[w] # None
    BY <1>3 DEF Present
  <2>1. sessions[w] # None \/ (pc[t] = "insert" /\ w = task[t].id)
    BY SessionsGrow
  <2>2. CASE pc[t] = "syncPrune"
    <3>1. sync_workspaces_prune(t)
      BY <2>2, AtPrune
    <3>2. w \notin Stale(t)
      BY <3>1 DEF sync_workspaces_prune
    <3> QED BY <1>0, <2>1, <2>2, <3>2 DEF Stale, Present, KnownFor
  <2>3. CASE pc[t] # "syncPrune"
    BY <1>0, <1>2, <2>1, <2>3 DEF Present, KnownFor
  <2> QED BY <2>2, <2>3
<1>4. CASE Saves(t)
  <2>0. UNCHANGED sessions /\ pc[t] # "syncPrune"
    BY <1>4 DEF Saves, add_workspace_persist, add_workspace_undo, At,
       remove_workspace_forget, update_workspace_settings_apply,
       update_workspace_settings_propagate, save_list, pool,
       rename_worktree_update, rename_worktree_restore, sync_workspaces_store
  <2> SUFFICES ASSUME NEW w \in Ids, sessions[w] # None, workspaces[w] # None
               PROVE  workspaces'[w] # None
    BY <1>2, <2>0 DEF Present
  <2>1. CASE add_workspace_persist(t)
    <3>1. task[t].entry # None
      BY <1>0, <2>1, NoneAssumption DEF add_workspace_persist, At, LocalsFor,
         NeedsEntry
    <3> QED BY <1>0, <2>1, <3>1 DEF add_workspace_persist, Stores
  <2>2. CASE add_workspace_undo(t)
    BY <1>0, <2>2 DEF add_workspace_undo, Stores, At, KnownFor
  <2>3. CASE remove_workspace_forget(t)
    BY <1>0, <2>3 DEF remove_workspace_forget, At, KnownFor, RemoveLabels
  <2>4. CASE update_workspace_settings_apply(t)
    <3>1. task[t].script \in Scripts
      BY <1>0, <2>4 DEF update_workspace_settings_apply, LocalsFor, At
    <3>2. workspaces' = workspaces \/
            workspaces' = [workspaces EXCEPT ![task[t].id].script = task[t].script]
      BY <2>4 DEF update_workspace_settings_apply
    <3> QED BY <1>0, <1>1, <3>1, <3>2, NoneAssumption DEF Entry, Stores
  <2>5. CASE update_workspace_settings_propagate(t)
    BY <1>0, <1>1, <2>5, NoneAssumption DEF update_workspace_settings_propagate,
       Entry, LocalsFor, At
  <2>6. CASE save_list(t)
    BY <2>6 DEF save_list
  <2>7. CASE rename_worktree_update(t)
    <3>1. task[t].name \in Names
      BY <1>0, <2>7 DEF rename_worktree_update, LocalsFor, NeedsName, At
    <3>2. workspaces' = workspaces \/
            workspaces' = [workspaces EXCEPT ![task[t].id].branch = task[t].name,
                                             ![task[t].id].path = task[t].name]
      BY <2>7 DEF rename_worktree_update
    <3> QED BY <1>0, <1>1, <3>1, <3>2, NoneAssumption DEF Entry, Stores
  <2>8. CASE rename_worktree_restore(t)
    <3>1. task[t].before # None
      BY <1>0, <2>8, NoneAssumption DEF rename_worktree_restore, At, LocalsFor
    <3> QED BY <1>0, <2>8, <3>1 DEF rename_worktree_restore, Stores
  <2>9. CASE sync_workspaces_store(t)
    BY <1>0, <2>9 DEF sync_workspaces_store, Goto
  <2> QED BY <1>4, <2>1, <2>2, <2>3, <2>4, <2>5, <2>6, <2>7, <2>8, <2>9 DEF Saves
<1> QED BY <1>3, <1>4, SavesOrKeeps

KnownLabels == Connecting \cup RemoveLabels \cup {"syncPrune", "register", "insert", "undo"}

LEMMA AdvanceKeepsKnown ==
  ASSUME InductiveInvariant, PoolInvariant, FreshIds, OneClient, KnownSessions,
         NEW t \in Tasks, Advance(t)
  PROVE  KnownFor(pc[t], task[t])'
<1>0. /\ pc \in [Tasks -> Labels] /\ task \in [Tasks -> Locals]
      /\ task[t] \in Locals /\ LocalsFor(pc[t], task[t])
      /\ CommandFor(pc[t], task[t]) /\ KnownFor(pc[t], task[t])
      /\ workspaces \in Stores /\ sessions \in [Ids -> Sessions \cup {None}]
  BY DEF InductiveInvariant, TypeOK, StoreTypeOK, PoolTypeOK, LocalsSet,
     PoolInvariant, CommandsIssued, KnownSessions
<1>1. CASE pc'[t] \notin KnownLabels
  BY <1>1 DEF KnownFor, KnownLabels, Connecting, RemoveLabels
<1>2. ASSUME UNCHANGED workspaces, task'[t].id = task[t].id,
             task'[t].op = task[t].op,
             pc'[t] \in Connecting \cup {"register", "insert"},
             \/ task[t].op # "connect" /\ pc'[t] \in Connecting
             \/ task[t].op = "connect" /\ workspaces[task[t].id] # None
             \/ pc[t] \in {"register", "insert"}
      PROVE  KnownFor(pc[t], task[t])'
  BY <1>0, <1>2 DEF KnownFor, Connecting, RemoveLabels
<1>3. CASE Connect(t) /\ pc'[t] \in KnownLabels
  <2>1. UNCHANGED workspaces
    BY <1>3 DEF Connect, connect_workspace_precheck, resolve_entry_and_parent,
       connect_workspace_own, connect_workspace_own_alive,
       take_live_shared_session, take_live_shared_session_alive, spawn_session,
       register_workspace_with_path, connect_workspace_insert, store
  <2>2. CASE resolve_entry_and_parent(t)
    <3>1. /\ pc'[t] = "lock" /\ task'[t] = task[t] /\ pc[t] = "resolve"
          /\ workspaces[task[t].id] # None
      BY <1>0, <1>3, <2>2 DEF resolve_entry_and_parent, Goto, Return, At,
         KnownLabels, Connecting, RemoveLabels
    <3> QED BY <1>2, <2>1, <3>1 DEF Connecting
  <2>3. CASE connect_workspace_precheck(t) \/ connect_workspace_insert(t)
    <3>1. pc'[t] \in AtRest \cup {"resolve"}
      BY <1>0, <2>3 DEF connect_workspace_precheck, connect_workspace_insert,
         Goto, Return, AtRest
    <3> QED BY <1>3, <3>1 DEF AtRest, KnownLabels, Connecting, RemoveLabels
  <2>4. CASE register_workspace_with_path(t)
    <3>1. pc'[t] = "insert" /\ task'[t] = task[t] /\ pc[t] = "register"
      BY <1>0, <2>4 DEF register_workspace_with_path, Goto, At
    <3> QED BY <1>2, <2>1, <3>1
  <2>5. CASE \/ connect_workspace_own(t) \/ connect_workspace_own_alive(t)
             \/ take_live_shared_session(t) \/ take_live_shared_session_alive(t)
    <3>1. /\ pc[t] \in Connecting
          /\ pc'[t] \in {"take", "ownAlive", "spawn", "takeAlive", "register"}
          /\ pc'[t] = "register" => task[t].op = "connect"
      BY <1>0, <1>3, <2>5 DEF connect_workspace_own, connect_workspace_own_alive,
         take_live_shared_session, take_live_shared_session_alive, AfterSession,
         Goto, Return, At, KnownLabels, Connecting, RemoveLabels
    <3>2. task'[t].op = task[t].op /\ task'[t].id = task[t].id
      BY <1>0, <2>5, <3>1 DEF connect_workspace_own, connect_workspace_own_alive,
         take_live_shared_session, take_live_shared_session_alive, Return, Locals
    <3> QED BY <1>0, <1>2, <2>1, <3>1, <3>2 DEF KnownFor, Connecting
  <2>6. CASE spawn_session(t)
    <3>1. CASE Return(t, "err")
      BY <1>0, <1>3, <3>1 DEF Return, KnownLabels, Connecting, RemoveLabels
    <3>2. CASE /\ \E x \in Sessions : task' = [task EXCEPT ![t].session = x,
                                                         ![t].spawned = TRUE]
               /\ Goto(t, IF task[t].op = "args" THEN "swap" ELSE AfterSession(t))
      <4>1. task'[t].op = task[t].op /\ task'[t].id = task[t].id
        BY <1>0, <3>2 DEF Locals
      <4>2. pc'[t] = "register" /\ task[t].op = "connect" /\ pc[t] = "spawn"
        BY <1>0, <1>3, <2>6, <3>2 DEF spawn_session, At, Goto, AfterSession,
           KnownLabels, Connecting, RemoveLabels
      <4> QED BY <1>0, <1>2, <2>1, <4>1, <4>2 DEF KnownFor, Connecting
    <3> QED BY <2>6, <3>1, <3>2 DEF spawn_session
  <2> QED BY <1>3, <2>2, <2>3, <2>4, <2>5, <2>6 DEF Connect
<1>4. CASE AddWorkspace(t) /\ pc'[t] \in KnownLabels
  <2>1. CASE add_workspace_prepare(t) \/ add_worktree_git(t)
    <3>1. pc'[t] = "lock"
      BY <1>0, <1>4, <2>1 DEF add_workspace_prepare, add_worktree_git, Goto,
         Return, KnownLabels, Connecting, RemoveLabels
    <3>2. task'[t].op # "connect"
      <4>1. task[t].op \in AddOps
        BY <1>0, <2>1 DEF add_workspace_prepare, add_worktree_git, At, LocalsFor
      <4>2. \E w, x : task' = [task EXCEPT ![t].id = w, ![t].entry = x]
        BY <1>0, <2>1, <3>1 DEF add_workspace_prepare, add_worktree_git, Return,
           MintEntry
      <4> QED BY <1>0, <4>1, <4>2 DEF AddOps, Locals
    <3> QED BY <3>1, <3>2 DEF KnownFor, Connecting, RemoveLabels
  <2>2. CASE add_worktree_lookup(t) \/ add_workspace_undo(t) \/ add_workspace_undo_kill(t)
    BY <1>0, <1>4, <2>2 DEF add_worktree_lookup, add_workspace_undo,
       add_workspace_undo_kill, Goto, Return, KnownLabels, Connecting, RemoveLabels
  <2>3. CASE add_workspace_persist(t)
    <3>1. /\ pc[t] = "persist" /\ pc'[t] \in {"register", "undo"}
          /\ task'[t] = task[t] /\ UNCHANGED sessions
          /\ workspaces' = [workspaces EXCEPT ![task[t].id] = task[t].entry]
      BY <1>0, <1>4, <2>3 DEF add_workspace_persist, Goto, Return, At, pool,
         KnownLabels, Connecting, RemoveLabels
    <3>2. /\ Adds(t) /\ task[t].id \in Ids /\ task[t].entry # None
      BY <1>0, <3>1, NoneAssumption DEF Adds, AddsFor, Minting, CommandFor,
         LocalsFor, NeedsId, NeedsEntry
    <3>3. workspaces[task[t].id] = None
      BY <3>2 DEF FreshIds, Mentioned
    <3>4. sessions[task[t].id] = None
      BY <3>1, <3>2, <3>3 DEF KnownSessions, OneClient, Present
    <3>5. workspaces'[task[t].id] # None
      BY <1>0, <3>1, <3>2 DEF Stores
    <3> QED BY <3>1, <3>4, <3>5 DEF KnownFor, Connecting, RemoveLabels
  <2> QED BY <1>4, <2>1, <2>2, <2>3 DEF AddWorkspace
<1>5. CASE RuntimeArgs(t) /\ pc'[t] \in KnownLabels
  <2>1. /\ pc'[t] = "spawn" /\ pc[t] = "current"
        /\ runtime_codex_args_current(t)
    BY <1>0, <1>5 DEF RuntimeArgs, runtime_codex_args_current, At, Goto, Return,
       runtime_codex_args_swap, runtime_codex_args_register,
       runtime_codex_args_kill_old, KnownLabels, Connecting, RemoveLabels
  <2>2. task'[t].op = "args"
    BY <1>0, <2>1 DEF runtime_codex_args_current, Goto, Return, LocalsFor, Locals
  <2> QED BY <2>1, <2>2 DEF KnownFor, Connecting, RemoveLabels
<1>6. CASE UpdateSettings(t) \/ RenameWorktree(t)
  <2>1. pc'[t] \notin KnownLabels
    BY <1>0, <1>6 DEF UpdateSettings, RenameWorktree, Goto, Return, KnownLabels,
       update_workspace_settings_apply, update_workspace_settings_propagate,
       update_workspace_settings_snapshot, save_list, rename_worktree_lookup,
       rename_worktree_branch, rename_worktree_move, rename_worktree_update,
       rename_worktree_move_back, rename_worktree_branch_back,
       rename_worktree_restore, rename_worktree_register, Connecting, RemoveLabels
  <2> QED BY <1>1, <2>1
<1>7. CASE SyncFromStorage(t) /\ pc'[t] \in KnownLabels
  <2>1. /\ pc'[t] = "syncPrune" /\ workspaces' = task[t].list
        /\ task'[t] = task[t]
    BY <1>0, <1>7 DEF SyncFromStorage, sync_workspaces_read,
       sync_workspaces_store, sync_workspaces_prune, sync_workspaces_kill, Goto,
       Return, KnownLabels, Connecting, RemoveLabels
  <2> QED BY <2>1 DEF KnownFor, Connecting, RemoveLabels
<1>8. CASE RemoveWorkspace(t) /\ pc'[t] \in KnownLabels
  <2>0. ASSUME pc'[t] \in RemoveLabels,
               \A c \in task'[t].gone :
                  sessions'[c] = None \/ (pc'[t] = "drop" /\ c = task'[t].cur),
               pc'[t] \in {"unregister", "kill", "files"} => sessions'[task'[t].cur] = None
        PROVE  KnownFor(pc[t], task[t])'
    BY <2>0 DEF KnownFor, RemoveLabels, Connecting
  <2>1. CASE remove_workspace_lookup(t)
    <3>1. pc'[t] = "child" /\ task'[t].gone = {}
      BY <1>0, <1>8, <2>1 DEF remove_workspace_lookup, Goto, Return, At, Locals,
         CommandFor, KnownLabels, Connecting, RemoveLabels
    <3> QED BY <2>0, <3>1 DEF RemoveLabels
  <2>2. CASE remove_workspace_child(t)
    <3>1. /\ pc[t] = "child" /\ pc'[t] \in {"drop", "forget"} /\ UNCHANGED sessions
      BY <1>0, <2>2 DEF remove_workspace_child, Goto, At, pool
    <3>2. \A c \in task[t].gone : sessions[c] = None
      BY <1>0, <3>1 DEF KnownFor, RemoveLabels
    <3>3. CASE task[t].todo = {} /\ ~task[t].failed
      <4>1. task'[t].gone = task[t].gone \cup {task[t].id}
        BY <1>0, <2>2, <3>3 DEF remove_workspace_child, Locals
      <4>2. task'[t].cur = task[t].id /\ pc'[t] = "drop"
        BY <1>0, <2>2, <3>3 DEF remove_workspace_child, Goto, Locals
      <4> QED BY <2>0, <3>1, <3>2, <4>1, <4>2 DEF RemoveLabels
    <3>4. CASE task[t].todo # {} \/ task[t].failed
      <4>1. task'[t].gone = task[t].gone
        BY <1>0, <2>2, <3>4 DEF remove_workspace_child, Locals
      <4> QED BY <2>0, <3>1, <3>2, <4>1 DEF RemoveLabels
    <3> QED BY <3>3, <3>4
  <2>3. CASE remove_worktree_lookup(t)
    <3>1. pc'[t] = "drop" /\ task'[t].gone = {task'[t].cur}
      BY <1>0, <1>8, <2>3 DEF remove_worktree_lookup, Goto, Return, Locals,
         KnownLabels, Connecting, RemoveLabels
    <3> QED BY <2>0, <3>1 DEF RemoveLabels
  <2>4. CASE kill_session_by_id_remove(t)
    <3>1. /\ pc[t] = "drop" /\ pc'[t] \in {"unregister", "forget", "files"}
          /\ task'[t].gone = task[t].gone /\ task'[t].cur = task[t].cur
          /\ task[t].cur \in Ids
      BY <1>0, <2>4 DEF kill_session_by_id_remove, Goto, At, Locals, AfterKill,
         LocalsFor
    <3>2. /\ sessions'[task[t].cur] = None
          /\ \A c \in Ids : sessions[c] = None => sessions'[c] = None
      BY <1>0, <2>4, <3>1 DEF kill_session_by_id_remove
    <3>3. \A c \in task[t].gone : c \in Ids /\ (sessions[c] = None \/ c = task[t].cur)
      BY <1>0, <3>1 DEF KnownFor, RemoveLabels, Locals
    <3> QED BY <2>0, <3>1, <3>2, <3>3 DEF RemoveLabels
  <2>5. CASE unregister_workspace(t) \/ kill_session_by_id_kill(t)
    <3>1. /\ pc[t] \in {"unregister", "kill"} /\ pc'[t] \in {"kill", "forget", "files"}
          /\ task'[t].gone = task[t].gone /\ task'[t].cur = task[t].cur
          /\ UNCHANGED sessions
      BY <1>0, <2>5 DEF unregister_workspace, kill_session_by_id_kill, Goto, At,
         Locals, AfterKill, KillReturns
    <3>2. /\ sessions[task[t].cur] = None
          /\ \A c \in task[t].gone : sessions[c] = None
      BY <1>0, <3>1 DEF KnownFor, RemoveLabels
    <3> QED BY <2>0, <3>1, <3>2 DEF RemoveLabels
  <2>6. CASE remove_worktree_files(t)
    <3>1. /\ pc[t] = "files" /\ pc'[t] \in {"child", "forget"}
          /\ task'[t].gone \subseteq task[t].gone \cup {task[t].cur}
          /\ UNCHANGED sessions
      BY <1>0, <1>8, <2>6 DEF remove_worktree_files, Goto, Return, At, Locals,
         pool, KnownLabels, Connecting, RemoveLabels
    <3>2. /\ sessions[task[t].cur] = None
          /\ \A c \in task[t].gone : sessions[c] = None
      BY <1>0, <3>1 DEF KnownFor, RemoveLabels
    <3> QED BY <2>0, <3>1, <3>2 DEF RemoveLabels
  <2>7. CASE remove_workspace_forget(t)
    BY <1>0, <1>8, <2>7 DEF remove_workspace_forget, Return, KnownLabels,
       Connecting, RemoveLabels
  <2> QED BY <1>8, <2>1, <2>2, <2>3, <2>4, <2>5, <2>6, <2>7 DEF RemoveWorkspace
<1> QED BY <1>1, <1>3, <1>4, <1>5, <1>6, <1>7, <1>8 DEF Advance

LEMMA KnownNext ==
  ASSUME InductiveInvariant, PoolInvariant, FreshIds, OneClient, KnownSessions,
         [Next]_vars
  PROVE  KnownSessions'
<1>0. /\ pc \in [Tasks -> Labels] /\ task \in [Tasks -> Locals]
  BY DEF InductiveInvariant, TypeOK
<1>1. CASE UNCHANGED vars
  BY <1>1 DEF vars, KnownSessions, KnownFor, Present
<1>2. ASSUME NEW t \in Tasks, Request(t) PROVE KnownSessions'
  <2>1. /\ UNCHANGED <<workspaces, sessions>> /\ pc[t] \in AtRest
        /\ pc'[t] \in {"precheck", "resolve", "prepare", "lookup", "apply",
                        "syncRead"}
    BY <1>2, RequestAlone
  <2>2. KnownFor(pc[t], task[t])'
    BY <2>1 DEF KnownFor, Connecting, RemoveLabels
  <2>3. Present(sessions) \subseteq Present(workspaces)
    BY <2>1 DEF KnownSessions, OneClient, AtRest
  <2> QED BY <2>1, <2>2, <2>3 DEF KnownSessions, OneClient, Present
<1>3. ASSUME NEW t \in Tasks, workspace_session_spawn_lock(t) PROVE KnownSessions'
  <2>1. /\ UNCHANGED <<workspaces, sessions>> /\ pc[t] = "lock"
        /\ pc'[t] \in {"own", "current", "take"} /\ task'[t] = task[t]
    BY <1>0, <1>3 DEF workspace_session_spawn_lock, At, store, pool
  <2>2. KnownFor(pc[t], task[t])'
    BY <2>1 DEF KnownFor, Connecting, RemoveLabels, KnownSessions
  <2>3. Present(sessions) \subseteq Present(workspaces)
    BY <2>1 DEF KnownSessions, OneClient
  <2> QED BY <2>1, <2>2, <2>3 DEF KnownSessions, OneClient, Present
<1>4. ASSUME NEW t \in Tasks, Advance(t) PROVE KnownSessions'
  <2>1. KnownFor(pc[t], task[t])'
    BY <1>4, AdvanceKeepsKnown
  <2>2. pc'[t] # "syncPrune" => Present(sessions') \subseteq Present(workspaces')
    BY <1>4, AdvanceKeepsConnected
  <2> QED BY <2>1, <2>2 DEF KnownSessions, OneClient, Present
<1>5. CASE Crash \/ OtherProcessSaves
  BY <1>5 DEF Crash, OtherProcessSaves, store, pool, KnownSessions, KnownFor, Present
<1>6. CASE Restart
  BY <1>6 DEF Restart, KnownSessions, KnownFor, Connecting, RemoveLabels, Present
<1> QED BY <1>1, <1>2, <1>3, <1>4, <1>5, <1>6 DEF Next, Environment

(* For a client that waits for each answer, no workspace that is gone      *)
(* keeps a session: whatever command fails half-way, when nothing runs     *)
(* every connected workspace is in the map (kill_session_by_id, the roll-  *)
(* back of an add, sync_workspaces_from_storage).                          *)
THEOREM ConnectedAreKnown ==
  ASSUME OneClient
  PROVE  Spec => []ConnectedIsKnown
<1>1. Init => KnownSessions
  BY DEF Init, KnownSessions, KnownFor, Connecting, RemoveLabels, Present
<1>2. /\ InductiveInvariant /\ PoolInvariant /\ FreshIds /\ KnownSessions
      /\ [Next]_vars
      => KnownSessions'
  BY KnownNext
<1>3. KnownSessions => ConnectedIsKnown
  BY DEF KnownSessions, ConnectedIsKnown, Quiet, AtRest
<1> QED BY <1>1, <1>2, <1>3, IdsInvariance, PTL DEF Spec

-----------------------------------------------------------------------------
(* EntryMatchesCheckout, for a client that waits for each answer, while    *)
(* the commands that roll a rename back succeed and nobody stops the       *)
(* program in the middle of one.  (list_workspaces and a restart read the  *)
(* file, which a save that failed or was cut off leaves out of date.)      *)
Undisturbed == /\ OneClient
               /\ "list" \notin Ops
               /\ Faults \cap {"restart", "rollback"} = {}

Matches(w) ==
    (workspaces[w] # None /\ workspaces[w].parent # None)
        => branch[w] = workspaces[w].branch /\ disk[w] = workspaces[w].path

(* The steps of a rename at which git and the entry disagree. *)
Between == {"gitMove", "update", "renameBack", "branchBack", "restore"}

(* The checkout of w is being moved, or is deleted and its entry will be. *)
UnsettledFor(label, l, w) ==
    \/ label = "forget" /\ w \in l.gone
    \/ label \in RemoveLabels /\ l.op = "remove" /\ w \in l.gone
    \/ label \in Between /\ w = l.id

RenameSaves(label, l) == label = "save" /\ l.op = "rename"

(* What a command knows of the checkout it works on, so that it can finish *)
(* the job or undo it.                                                     *)
CheckoutFor(label, l) ==
    /\ AddsFor(label, l)
         => branch[l.id] = l.entry.branch /\ disk[l.id] = l.entry.path
    /\ label = "undoKill" => workspaces[l.id] = None
    /\ label = "branchMove" => l.entry.parent # None
    /\ label \in {"branchMove", "gitMove", "update"}
         => workspaces[l.id] = l.entry
    /\ label \in {"gitMove", "update", "renameBack", "branchBack"}
         \/ RenameSaves(label, l)
         => branch[l.id] = l.name
    /\ label \in {"update", "renameBack"} \/ RenameSaves(label, l)
         => disk[l.id] = l.name
    /\ label \in {"gitMove", "branchBack", "restore"}
         => disk[l.id] = l.entry.path
    /\ label = "restore" => branch[l.id] = l.entry.branch
    /\ label \in {"renameBack", "restore"} \/ RenameSaves(label, l)
         => l.before = l.entry
    /\ label = "renameBack" => l.failed
    /\ label = "branchBack"
         => IF l.failed THEN l.before = l.entry ELSE workspaces[l.id] = l.entry

Checkouts ==
    /\ \A t \in Tasks : CheckoutFor(pc[t], task[t])
    /\ \A w \in Ids :
          Matches(w) \/ \E t \in Tasks : UnsettledFor(pc[t], task[t], w)

(* The labels of which CheckoutFor says something besides adds. *)
Noted == Between \cup {"undoKill", "branchMove", "save"}

(* What t owes after its step: its own facts, and the other checkouts. *)
Settled(t) ==
    /\ CheckoutFor(pc[t], task[t])
    /\ \A w \in Ids : Matches(w) \/ UnsettledFor(pc[t], task[t], w)

LEMMA NotAdding ==
  ASSUME NEW t \in Tasks, pc'[t] \notin Noted \cup Minting
  PROVE  CheckoutFor(pc[t], task[t])'
BY DEF CheckoutFor, Noted, Between, AddsFor, RenameSaves

LEMMA StillAdding ==
  ASSUME NEW t \in Tasks, pc[t] \in Minting, CheckoutFor(pc[t], task[t]),
         UNCHANGED <<disk, branch>>, pc'[t] \notin Noted,
         task'[t].op = task[t].op, task'[t].id = task[t].id,
         task'[t].entry = task[t].entry
  PROVE  CheckoutFor(pc[t], task[t])'
<1>1. AddsFor(pc[t], task[t])' => AddsFor(pc[t], task[t])
  BY DEF AddsFor
<1> QED BY <1>1 DEF CheckoutFor, Noted, Between, RenameSaves

LEMMA MatchesKept ==
  ASSUME UNCHANGED <<workspaces, disk, branch>>
  PROVE  \A w \in Ids : Matches(w)' <=> Matches(w)
BY DEF Matches

LEMMA ConnectKeepsCheckouts ==
  ASSUME InductiveInvariant, PoolInvariant, FreshIds, NEW t \in Tasks,
         Connect(t), Settled(t)
  PROVE  Settled(t)'
<1>0. /\ pc \in [Tasks -> Labels] /\ task \in [Tasks -> Locals]
      /\ task[t] \in Locals /\ LocalsFor(pc[t], task[t])
      /\ CommandFor(pc[t], task[t]) /\ CheckoutFor(pc[t], task[t])
      /\ disk \in [Ids -> Names \cup {None}]
  BY DEF InductiveInvariant, TypeOK, GitTypeOK, LocalsSet, PoolInvariant,
     CommandsIssued, Settled
<1>1. UNCHANGED <<workspaces, branch>>
  BY DEF Connect, connect_workspace_precheck, resolve_entry_and_parent,
     connect_workspace_own, connect_workspace_own_alive,
     take_live_shared_session, take_live_shared_session_alive, spawn_session,
     register_workspace_with_path, connect_workspace_insert, store, git
<1>2. pc[t] \notin Between \cup RemoveLabels
  BY DEF Connect, At, connect_workspace_precheck, resolve_entry_and_parent,
     connect_workspace_own, connect_workspace_own_alive,
     take_live_shared_session, take_live_shared_session_alive, spawn_session,
     register_workspace_with_path, connect_workspace_insert, Between,
     RemoveLabels
<1>3. \A w \in Ids : Matches(w)
  BY <1>2 DEF Settled, UnsettledFor, RemoveLabels
<1>4. ASSUME UNCHANGED disk, CheckoutFor(pc[t], task[t])' PROVE Settled(t)'
  BY <1>1, <1>3, <1>4, MatchesKept DEF Settled
<1>5. CASE \/ connect_workspace_precheck(t) \/ connect_workspace_insert(t)
           \/ register_workspace_with_path(t)
  <2>1. UNCHANGED disk /\ pc'[t] \in AtRest \cup {"resolve", "insert"}
    BY <1>0, <1>5 DEF connect_workspace_precheck, connect_workspace_insert,
       register_workspace_with_path, Goto, Return, git, AtRest
  <2> QED BY <1>4, <2>1, NotAdding DEF Noted, Between, Minting, AtRest
<1>6. CASE resolve_entry_and_parent(t)
  <2>1. UNCHANGED disk
    BY <1>6 DEF resolve_entry_and_parent, git
  <2>2. task[t].op \notin AddOps
    BY <1>0, <1>6 DEF resolve_entry_and_parent, At, LocalsFor, ConnectOps, AddOps
  <2>3. \/ pc'[t] = "err"
        \/ pc'[t] = "lock" /\ task'[t] = task[t]
    BY <1>0, <1>6 DEF resolve_entry_and_parent, Goto, Return
  <2>4. CheckoutFor(pc[t], task[t])'
    BY <2>2, <2>3 DEF CheckoutFor, AddsFor, RenameSaves, Minting
  <2> QED BY <1>4, <2>1, <2>4
<1>7. CASE \/ connect_workspace_own(t) \/ connect_workspace_own_alive(t)
  <2>1. UNCHANGED disk
    BY <1>7 DEF connect_workspace_own, connect_workspace_own_alive, git
  <2>2. task[t].op = "connect"
    BY <1>0, <1>7 DEF connect_workspace_own, connect_workspace_own_alive, At, LocalsFor
  <2>3. pc'[t] \in AtRest \/ (task'[t].op = task[t].op /\ pc'[t] \in {"take", "ownAlive"})
    <3>1. pc'[t] \in AtRest \cup {"take", "ownAlive"}
      BY <1>0, <1>7 DEF connect_workspace_own, connect_workspace_own_alive, Goto,
         Return, AtRest
    <3>2. pc'[t] \notin AtRest => task'[t].op = task[t].op
      BY <1>0, <1>7 DEF connect_workspace_own, connect_workspace_own_alive, Goto,
         Return, AtRest, Locals
    <3> QED BY <3>1, <3>2
  <2>4. CheckoutFor(pc[t], task[t])'
    BY <2>2, <2>3 DEF CheckoutFor, AddsFor, RenameSaves, Minting, AtRest, AddOps
  <2> QED BY <1>4, <2>1, <2>4
<1>8. CASE take_live_shared_session(t) \/ take_live_shared_session_alive(t)
  <2>1. UNCHANGED disk /\ pc[t] \in Minting
    BY <1>8 DEF take_live_shared_session, take_live_shared_session_alive, git,
       At, Minting
  <2>2. pc'[t] \in {"spawn", "takeAlive", "take", "register", "persist"}
    BY <1>0, <1>8 DEF take_live_shared_session, take_live_shared_session_alive,
       Goto, AfterSession
  <2>3. /\ task'[t].op = task[t].op /\ task'[t].id = task[t].id
        /\ task'[t].entry = task[t].entry
    BY <1>0, <1>8 DEF take_live_shared_session, take_live_shared_session_alive,
       Locals
  <2> QED BY <1>0, <1>1, <1>4, <2>1, <2>2, <2>3, StillAdding DEF Noted, Between
<1>9. CASE spawn_session(t) /\ pc'[t] # "err"
  <2>1. UNCHANGED disk /\ pc[t] \in Minting
    BY <1>0, <1>9 DEF spawn_session, At, Minting, Return
  <2>2. pc'[t] \in {"swap", "register", "persist"}
    BY <1>0, <1>9 DEF spawn_session, Goto, Return, AfterSession
  <2>3. PICK s \in Sessions :
           task' = [task EXCEPT ![t].session = s, ![t].spawned = TRUE]
    BY <1>0, <1>9 DEF spawn_session, Return
  <2>4. /\ task'[t].op = task[t].op /\ task'[t].id = task[t].id
        /\ task'[t].entry = task[t].entry
    BY <1>0, <2>3 DEF Locals
  <2> QED BY <1>0, <1>1, <1>4, <2>1, <2>2, <2>4, StillAdding DEF Noted, Between
<1>10. CASE spawn_session(t) /\ pc'[t] = "err"
  <2>1. CheckoutFor(pc[t], task[t])'
    BY <1>10, NotAdding DEF Noted, Between, Minting
  <2>2. CASE UNCHANGED disk
    BY <1>4, <2>1, <2>2
  <2>3. CASE disk' # disk
    <3>1. pc[t] = "spawn" /\ task[t].op \in AddOps /\ task[t].id \in Ids
      BY <1>0, <1>10, <2>3 DEF spawn_session, remove_clone, At, ClonesDir,
         AddOps, LocalsFor, NeedsId
    <3>2. disk' = [disk EXCEPT ![task[t].id] = None]
      BY <1>10, <2>3 DEF spawn_session, remove_clone
    <3>3. workspaces[task[t].id] = None
      BY <3>1 DEF FreshIds, Adds, AddsFor, Minting, Mentioned
    <3>4. \A w \in Ids : Matches(w)'
      BY <1>0, <1>1, <1>3, <3>1, <3>2, <3>3 DEF Matches
    <3> QED BY <2>1, <3>4 DEF Settled
  <2> QED BY <2>2, <2>3
<1> QED BY <1>5, <1>6, <1>7, <1>8, <1>9, <1>10 DEF Connect

LEMMA AddKeepsCheckouts ==
  ASSUME InductiveInvariant, PoolInvariant, FreshIds, IdsIssued,
         NEW t \in Tasks, AddWorkspace(t), Settled(t)
  PROVE  Settled(t)'
<1>0. /\ pc \in [Tasks -> Labels] /\ task \in [Tasks -> Locals]
      /\ task[t] \in Locals /\ LocalsFor(pc[t], task[t])
      /\ CommandFor(pc[t], task[t]) /\ CheckoutFor(pc[t], task[t])
      /\ disk \in [Ids -> Names \cup {None}]
      /\ branch \in [Ids -> Names \cup {None}]
      /\ workspaces \in Stores
  BY DEF InductiveInvariant, TypeOK, GitTypeOK, StoreTypeOK, LocalsSet,
     PoolInvariant, CommandsIssued, Settled
<1>2. pc[t] \notin Between \cup RemoveLabels
  BY DEF AddWorkspace, At, add_workspace_prepare, add_worktree_lookup,
     add_worktree_git, add_workspace_persist, add_workspace_undo,
     add_workspace_undo_kill, Between, RemoveLabels
<1>3. \A w \in Ids : Matches(w)
  BY <1>2 DEF Settled, UnsettledFor, RemoveLabels
<1>4. CASE add_workspace_prepare(t) \/ add_worktree_git(t)
  <2>1. CASE pc'[t] \in AtRest
    <3>1. UNCHANGED <<workspaces, disk, branch>>
      BY <1>0, <1>4, <2>1 DEF add_workspace_prepare, add_worktree_git, Goto,
         store, git, AtRest
    <3>2. CheckoutFor(pc[t], task[t])'
      BY <2>1, NotAdding DEF Noted, Between, Minting, AtRest
    <3> QED BY <1>3, <3>1, <3>2, MatchesKept DEF Settled
  <2>2. CASE pc'[t] \notin AtRest
    <3>1. PICK parent, script : MintEntry(t, parent, script)
      BY <1>0, <1>4, <2>2 DEF add_workspace_prepare, add_worktree_git, Return,
         AtRest
    <3>2. PICK w \in Ids \ issued :
            /\ disk' = [disk EXCEPT ![w] = task[t].name]
            /\ branch' = [branch EXCEPT ![w] = task[t].name]
            /\ task' = [task EXCEPT
                ![t].id = w,
                ![t].entry = [parent |-> parent, script |-> script,
                              branch |-> task[t].name, path |-> task[t].name]]
      BY <3>1 DEF MintEntry
    <3>3. pc'[t] = "lock" /\ UNCHANGED workspaces
      BY <1>0, <1>4, <2>2 DEF add_workspace_prepare, add_worktree_git, Goto,
         Return, AtRest, store
    <3>4. /\ task'[t].id = w /\ task'[t].entry.branch = task[t].name
          /\ task'[t].entry.path = task[t].name
      BY <1>0, <3>2 DEF Locals
    <3>5. disk'[w] = task[t].name /\ branch'[w] = task[t].name
      BY <1>0, <3>2
    <3>6. CheckoutFor(pc[t], task[t])'
      BY <3>3, <3>4, <3>5 DEF CheckoutFor, RenameSaves
    <3>7. workspaces[w] = None
      BY <3>2 DEF IdsIssued, Mentioned
    <3>8. \A v \in Ids : Matches(v)'
      BY <1>0, <1>3, <3>2, <3>3, <3>7 DEF Matches
    <3> QED BY <3>6, <3>8 DEF Settled
  <2> QED BY <2>1, <2>2
<1>5. CASE add_worktree_lookup(t)
  <2>1. UNCHANGED <<workspaces, disk, branch>> /\ pc'[t] \in {"err", "gitAdd"}
    BY <1>0, <1>5 DEF add_worktree_lookup, Goto, Return, store, git
  <2>2. CheckoutFor(pc[t], task[t])'
    BY <2>1, NotAdding DEF Noted, Between, Minting
  <2> QED BY <1>3, <2>1, <2>2, MatchesKept DEF Settled
<1>6. CASE add_workspace_persist(t)
  <2>1. /\ UNCHANGED <<disk, branch>> /\ pc'[t] \in {"register", "err", "undo"}
        /\ workspaces' = [workspaces EXCEPT ![task[t].id] = task[t].entry]
    BY <1>0, <1>6 DEF add_workspace_persist, Goto, Return, git
  <2>2. CheckoutFor(pc[t], task[t])'
    BY <2>1, NotAdding DEF Noted, Between, Minting
  <2>3. AddsFor(pc[t], task[t]) /\ task[t].id \in Ids
    BY <1>0, <1>6 DEF add_workspace_persist, At, AddsFor, Minting, CommandFor,
       LocalsFor, NeedsId
  <2>4. branch[task[t].id] = task[t].entry.branch /\ disk[task[t].id] = task[t].entry.path
    BY <1>0, <2>3 DEF CheckoutFor
  <2>5. \A w \in Ids : Matches(w)'
    BY <1>0, <1>3, <2>1, <2>3, <2>4 DEF Matches, Stores
  <2> QED BY <2>2, <2>5 DEF Settled
<1>7. CASE add_workspace_undo(t)
  <2>1. /\ UNCHANGED <<disk, branch, task>> /\ pc'[t] = "undoKill"
        /\ workspaces' = [workspaces EXCEPT ![task[t].id] = None]
        /\ task[t].id \in Ids
    BY <1>0, <1>7 DEF add_workspace_undo, Goto, At, git, LocalsFor, NeedsId
  <2>2. workspaces'[task[t].id] = None
    BY <1>0, <2>1 DEF Stores
  <2>3. CheckoutFor(pc[t], task[t])'
    BY <2>1, <2>2 DEF CheckoutFor, AddsFor, Minting, RenameSaves
  <2>4. \A w \in Ids : Matches(w)'
    BY <1>0, <1>3, <2>1 DEF Matches, Stores
  <2> QED BY <2>3, <2>4 DEF Settled
<1>8. CASE add_workspace_undo_kill(t)
  <2>1. /\ UNCHANGED <<workspaces, branch>> /\ pc'[t] = "err"
        /\ disk' = disk \/ disk' = [disk EXCEPT ![task[t].id] = None]
        /\ task[t].id \in Ids /\ pc[t] = "undoKill"
    BY <1>0, <1>8 DEF add_workspace_undo_kill, remove_clone, Return, At, store,
       LocalsFor, NeedsId
  <2>2. workspaces[task[t].id] = None
    BY <1>0, <2>1 DEF CheckoutFor
  <2>3. CheckoutFor(pc[t], task[t])'
    BY <2>1, NotAdding DEF Noted, Between, Minting
  <2>4. \A w \in Ids : Matches(w)'
    BY <1>0, <1>3, <2>1, <2>2 DEF Matches
  <2> QED BY <2>3, <2>4 DEF Settled
<1> QED BY <1>4, <1>5, <1>6, <1>7, <1>8 DEF AddWorkspace

LEMMA ArgsKeepCheckouts ==
  ASSUME InductiveInvariant, PoolInvariant, NEW t \in Tasks, RuntimeArgs(t),
         Settled(t)
  PROVE  Settled(t)'
<1>0. /\ pc \in [Tasks -> Labels] /\ task \in [Tasks -> Locals]
      /\ task[t] \in Locals /\ LocalsFor(pc[t], task[t])
      /\ CommandFor(pc[t], task[t]) /\ CheckoutFor(pc[t], task[t])
      /\ disk \in [Ids -> Names \cup {None}]
      /\ branch \in [Ids -> Names \cup {None}]
      /\ workspaces \in Stores
  BY DEF InductiveInvariant, TypeOK, GitTypeOK, StoreTypeOK, LocalsSet,
     PoolInvariant, CommandsIssued, Settled
<1>1. /\ UNCHANGED <<workspaces, disk, branch>>
      /\ pc[t] \notin Between \cup RemoveLabels /\ task[t].op = "args"
  BY <1>0 DEF RuntimeArgs, runtime_codex_args_current, runtime_codex_args_swap,
     runtime_codex_args_register, runtime_codex_args_kill_old, At, store, git,
     Between, RemoveLabels, LocalsFor
<1>2. pc'[t] \in AtRest \cup {"spawn", "registerAll", "killOld"}
  BY <1>0 DEF RuntimeArgs, runtime_codex_args_current, runtime_codex_args_swap,
     runtime_codex_args_register, runtime_codex_args_kill_old, Goto, Return, AtRest
<1>3. pc'[t] = "spawn" => task'[t].op = task[t].op
  BY <1>0 DEF RuntimeArgs, runtime_codex_args_current, runtime_codex_args_swap,
     runtime_codex_args_register, runtime_codex_args_kill_old, Goto, Return, Locals
<1>4. CheckoutFor(pc[t], task[t])'
  BY <1>1, <1>2, <1>3 DEF CheckoutFor, AddsFor, AddOps, Minting, RenameSaves,
     AtRest
<1>5. \A w \in Ids : Matches(w)
  BY <1>1 DEF Settled, UnsettledFor, RemoveLabels
<1> QED BY <1>1, <1>4, <1>5, MatchesKept DEF Settled

LEMMA SettingsKeepCheckouts ==
  ASSUME InductiveInvariant, PoolInvariant, NEW t \in Tasks,
         UpdateSettings(t), Settled(t)
  PROVE  Settled(t)'
<1>0. /\ pc \in [Tasks -> Labels] /\ task \in [Tasks -> Locals]
      /\ task[t] \in Locals /\ LocalsFor(pc[t], task[t])
      /\ CommandFor(pc[t], task[t]) /\ CheckoutFor(pc[t], task[t])
      /\ disk \in [Ids -> Names \cup {None}]
      /\ branch \in [Ids -> Names \cup {None}]
      /\ workspaces \in Stores
  BY DEF InductiveInvariant, TypeOK, GitTypeOK, StoreTypeOK, LocalsSet,
     PoolInvariant, CommandsIssued, Settled
<1>1. /\ UNCHANGED <<disk, branch>>
      /\ pc[t] \notin Between \cup RemoveLabels
  BY <1>0 DEF UpdateSettings, update_workspace_settings_apply,
     update_workspace_settings_propagate, update_workspace_settings_snapshot,
     save_list, At, git, Between, RemoveLabels
<1>2. \A w \in Ids : Matches(w)
  BY <1>1 DEF Settled, UnsettledFor, RemoveLabels
<1>3. CASE update_workspace_settings_apply(t)
  <2>1. pc'[t] \in {"err", "propagate"} /\ task[t].id \in Ids /\ task[t].script \in Scripts
    BY <1>0, <1>3 DEF update_workspace_settings_apply, Goto, Return, At,
       LocalsFor, NeedsId
  <2>2. CheckoutFor(pc[t], task[t])'
    BY <2>1, NotAdding DEF Noted, Between, Minting
  <2>3. CASE UNCHANGED workspaces
    BY <1>1, <1>2, <2>2, <2>3, MatchesKept DEF Settled
  <2>4. CASE /\ workspaces[task[t].id] # None
             /\ workspaces' = [workspaces EXCEPT ![task[t].id].script = task[t].script]
    <3>1. \A w \in Ids :
            /\ w # task[t].id => workspaces'[w] = workspaces[w]
            /\ w = task[t].id =>
                 /\ workspaces[w] \in Entry
                 /\ workspaces'[w] = [workspaces[w] EXCEPT !.script = task[t].script]
      BY <1>0, <2>1, <2>4 DEF Stores
    <3>2. \A w \in Ids :
            /\ (workspaces'[w] # None) => (workspaces[w] # None)
            /\ workspaces'[w].parent = workspaces[w].parent
            /\ workspaces'[w].branch = workspaces[w].branch
            /\ workspaces'[w].path = workspaces[w].path
      BY <2>4, <3>1 DEF Entry
    <3>3. \A w \in Ids : Matches(w)'
      BY <1>1, <1>2, <3>2 DEF Matches
    <3> QED BY <2>2, <3>3 DEF Settled
  <2> QED BY <1>3, <2>3, <2>4 DEF update_workspace_settings_apply
<1>4. CASE update_workspace_settings_propagate(t)
  <2>1. pc'[t] = "snapshot"
    BY <1>0, <1>4 DEF update_workspace_settings_propagate, Goto
  <2>2. CheckoutFor(pc[t], task[t])'
    BY <2>1, NotAdding DEF Noted, Between, Minting
  <2>3. \A w \in Ids :
          /\ workspaces[w] \in Entry \cup {None}
          /\ \/ workspaces'[w] = workspaces[w]
             \/ /\ workspaces[w] # None
                /\ workspaces'[w] = [workspaces[w] EXCEPT !.script = task[t].script]
    BY <1>0, <1>4 DEF update_workspace_settings_propagate, Stores
  <2>4. \A w \in Ids : Matches(w)'
    BY <1>1, <1>2, <2>3 DEF Matches, Entry
  <2> QED BY <2>2, <2>4 DEF Settled
<1>5. CASE update_workspace_settings_snapshot(t)
  <2>1. UNCHANGED workspaces /\ pc'[t] = "save" /\ task[t].op = "settings"
    BY <1>0, <1>5 DEF update_workspace_settings_snapshot, Goto, At, LocalsFor, store
  <2>2. task'[t].op = task[t].op
    BY <1>0, <1>5 DEF update_workspace_settings_snapshot, Locals
  <2>3. CheckoutFor(pc[t], task[t])'
    BY <2>1, <2>2 DEF CheckoutFor, AddsFor, Minting, RenameSaves
  <2> QED BY <1>1, <1>2, <2>1, <2>3, MatchesKept DEF Settled
<1>6. CASE save_list(t)
  <2>1. UNCHANGED workspaces /\ pc'[t] \in {"ok", "err", "reregister", "renameBack"}
    BY <1>0, <1>6 DEF save_list, Goto, Return
  <2>2. CASE pc'[t] # "renameBack"
    <3>1. CheckoutFor(pc[t], task[t])'
      BY <2>1, <2>2, NotAdding DEF Noted, Between, Minting
    <3> QED BY <1>1, <1>2, <2>1, <3>1, MatchesKept DEF Settled
  <2>3. CASE pc'[t] = "renameBack"
    <3>1. /\ RenameSaves(pc[t], task[t])
          /\ task' = [task EXCEPT ![t].failed = TRUE]
      BY <1>0, <1>6, <2>3 DEF save_list, Goto, Return, At, RenameSaves
    <3>2. /\ task'[t].failed /\ task'[t].id = task[t].id
          /\ task'[t].name = task[t].name /\ task'[t].entry = task[t].entry
          /\ task'[t].before = task[t].before
      BY <1>0, <3>1 DEF Locals
    <3>3. CheckoutFor(pc[t], task[t])'
      BY <1>0, <1>1, <2>3, <3>1, <3>2 DEF CheckoutFor, AddsFor, Minting, RenameSaves
    <3> QED BY <1>1, <1>2, <2>1, <3>3, MatchesKept DEF Settled
  <2> QED BY <2>2, <2>3
<1> QED BY <1>3, <1>4, <1>5, <1>6 DEF UpdateSettings

LEMMA RenameKeepsCheckouts ==
  ASSUME InductiveInvariant, PoolInvariant, Undisturbed, NEW t \in Tasks,
         RenameWorktree(t), Settled(t)
  PROVE  Settled(t)'
<1>0. /\ pc \in [Tasks -> Labels] /\ task \in [Tasks -> Locals]
      /\ task[t] \in Locals /\ LocalsFor(pc[t], task[t])
      /\ CommandFor(pc[t], task[t]) /\ CheckoutFor(pc[t], task[t])
      /\ disk \in [Ids -> Names \cup {None}]
      /\ branch \in [Ids -> Names \cup {None}]
      /\ workspaces \in Stores
  BY DEF InductiveInvariant, TypeOK, GitTypeOK, StoreTypeOK, LocalsSet,
     PoolInvariant, CommandsIssued, Settled
<1>1. /\ task[t].id \in Ids /\ pc[t] \notin RemoveLabels
      /\ "rollback" \notin Faults
  BY <1>0 DEF RenameWorktree, rename_worktree_lookup, rename_worktree_branch,
     rename_worktree_move, rename_worktree_update, rename_worktree_move_back,
     rename_worktree_branch_back, rename_worktree_restore,
     rename_worktree_register, At, LocalsFor, NeedsId, RemoveLabels, Undisturbed
<1>2. \A w \in Ids \ {task[t].id} : Matches(w)
  BY <1>1 DEF Settled, UnsettledFor, RemoveLabels
<1>3. pc[t] \notin Between => Matches(task[t].id)
  BY <1>1 DEF Settled, UnsettledFor, RemoveLabels
<1>4. ASSUME pc'[t] \in Between, task'[t].id = task[t].id,
             CheckoutFor(pc[t], task[t])',
             \A w \in Ids \ {task[t].id} : Matches(w)'
      PROVE  Settled(t)'
  BY <1>1, <1>4 DEF Settled, UnsettledFor
<1>5. CASE rename_worktree_lookup(t)
  <2>1. UNCHANGED <<workspaces, disk, branch>> /\ pc'[t] \in {"err", "branchMove"}
    BY <1>0, <1>5 DEF rename_worktree_lookup, Goto, Return, store, git
  <2>2. \A w \in Ids : Matches(w)
    BY <1>2, <1>3, <1>5 DEF rename_worktree_lookup, At, Between
  <2>3. pc'[t] = "branchMove"
        => /\ task'[t].id = task[t].id /\ task'[t].entry = workspaces[task[t].id]
           /\ workspaces[task[t].id].parent # None
    BY <1>0, <1>5 DEF rename_worktree_lookup, Return, Locals
  <2>4. CheckoutFor(pc[t], task[t])'
    BY <2>1, <2>3 DEF CheckoutFor, AddsFor, Minting, RenameSaves
  <2> QED BY <2>1, <2>2, <2>4, MatchesKept DEF Settled
<1>6. CASE rename_worktree_branch(t)
  <2>1. /\ UNCHANGED <<workspaces, disk>> /\ pc[t] = "branchMove"
        /\ workspaces[task[t].id] = task[t].entry /\ Matches(task[t].id)
        /\ task[t].name \in Names
    BY <1>0, <1>3, <1>6 DEF rename_worktree_branch, At, store, CheckoutFor,
       Between, LocalsFor, NeedsName
  <2>2. CASE UNCHANGED branch /\ pc'[t] = "err"
    <3>1. CheckoutFor(pc[t], task[t])'
      BY <2>2, NotAdding DEF Noted, Between, Minting
    <3> QED BY <1>2, <2>1, <2>2, <3>1, MatchesKept DEF Settled
  <2>3. CASE /\ branch' = [branch EXCEPT ![task[t].id] = task[t].name]
             /\ UNCHANGED task
             /\ pc' = [pc EXCEPT ![t] = IF Moves(t) THEN "gitMove" ELSE "update"]
    <3>1. branch'[task[t].id] = task[t].name
      BY <1>0, <1>1, <2>3
    <3>2. pc'[t] = IF Moves(t) THEN "gitMove" ELSE "update"
      BY <1>0, <2>3
    <3>3. disk[task[t].id] = task[t].entry.path
      <4>1. task[t].entry # None /\ task[t].entry.parent # None
        BY <1>0, <2>1, NoneAssumption DEF CheckoutFor, LocalsFor, NeedsEntry
      <4> QED BY <2>1, <4>1 DEF Matches
    <3>4. CheckoutFor(pc[t], task[t])'
      BY <2>1, <2>3, <3>1, <3>2, <3>3 DEF CheckoutFor, AddsFor, Minting,
         RenameSaves, Moves
    <3>5. \A w \in Ids \ {task[t].id} : Matches(w)'
      BY <1>0, <1>2, <2>1, <2>3 DEF Matches
    <3> QED BY <1>4, <2>3, <3>2, <3>4, <3>5 DEF Between
  <2> QED BY <1>0, <1>6, <2>2, <2>3 DEF rename_worktree_branch, Goto, Return
<1>7. CASE rename_worktree_move(t)
  <2>1. /\ UNCHANGED <<workspaces, branch, task>> /\ pc[t] = "gitMove"
        /\ ~task[t].failed /\ task[t].name \in Names
    BY <1>0, <1>7 DEF rename_worktree_move, At, store, LocalsFor, NeedsName
  <2>2. /\ workspaces[task[t].id] = task[t].entry
        /\ branch[task[t].id] = task[t].name
        /\ disk[task[t].id] = task[t].entry.path
    BY <1>0, <2>1 DEF CheckoutFor
  <2>3. CASE UNCHANGED disk /\ pc'[t] = "branchBack"
    <3>1. CheckoutFor(pc[t], task[t])'
      BY <2>1, <2>2, <2>3 DEF CheckoutFor, AddsFor, Minting, RenameSaves
    <3>2. \A w \in Ids \ {task[t].id} : Matches(w)'
      BY <1>2, <2>1, <2>3, MatchesKept
    <3> QED BY <1>4, <2>1, <2>3, <3>1, <3>2 DEF Between
  <2>4. CASE /\ disk' = [disk EXCEPT ![task[t].id] = task[t].name]
             /\ pc'[t] = "update"
    <3>1. disk'[task[t].id] = task[t].name
      BY <1>0, <1>1, <2>4
    <3>2. CheckoutFor(pc[t], task[t])'
      BY <2>1, <2>2, <2>4, <3>1 DEF CheckoutFor, AddsFor, Minting, RenameSaves
    <3>3. \A w \in Ids \ {task[t].id} : Matches(w)'
      BY <1>0, <1>2, <2>1, <2>4 DEF Matches
    <3> QED BY <1>4, <2>1, <2>4, <3>2, <3>3 DEF Between
  <2> QED BY <1>0, <1>7, <2>3, <2>4 DEF rename_worktree_move, Goto
<1>8. CASE rename_worktree_update(t)
  <2>1. /\ UNCHANGED <<disk, branch>> /\ pc[t] = "update"
        /\ task[t].entry \in Entry /\ task[t].name \in Names
    BY <1>0, <1>8 DEF rename_worktree_update, At, git, LocalsFor, NeedsEntry, NeedsName
  <2>2. /\ workspaces[task[t].id] = task[t].entry
        /\ branch[task[t].id] = task[t].name /\ disk[task[t].id] = task[t].name
    BY <1>0, <2>1 DEF CheckoutFor
  <2>3. workspaces[task[t].id] # None
    BY <2>1, <2>2, NoneAssumption
  <2>4. /\ workspaces' = [workspaces EXCEPT ![task[t].id].branch = task[t].name,
                                            ![task[t].id].path = task[t].name]
        /\ task' = [task EXCEPT ![t].before = workspaces[task[t].id],
                                ![t].list = workspaces']
        /\ pc'[t] = "save"
    BY <1>0, <1>8, <2>3 DEF rename_worktree_update, Goto
  <2>5. /\ task'[t].id = task[t].id /\ task'[t].name = task[t].name
        /\ task'[t].entry = task[t].entry
        /\ task'[t].before = workspaces[task[t].id]
    BY <1>0, <2>4 DEF Locals
  <2>6. CheckoutFor(pc[t], task[t])'
    BY <2>1, <2>2, <2>4, <2>5 DEF CheckoutFor, AddsFor, Minting, RenameSaves
  <2>7. \A w \in Ids :
          /\ w # task[t].id => workspaces'[w] = workspaces[w]
          /\ w = task[t].id =>
               workspaces'[w].branch = task[t].name /\ workspaces'[w].path = task[t].name
    BY <1>0, <2>1, <2>2, <2>4 DEF Stores, Entry
  <2>8. \A w \in Ids : Matches(w)'
    BY <1>2, <2>1, <2>2, <2>7 DEF Matches
  <2> QED BY <2>6, <2>8 DEF Settled
<1>9. CASE rename_worktree_move_back(t)
  <2>1. /\ UNCHANGED <<workspaces, branch, task>> /\ pc[t] = "renameBack"
        /\ pc'[t] = "branchBack"
        /\ disk' = IF Moves(t) /\ disk[task[t].id] = task[t].name
                   THEN [disk EXCEPT ![task[t].id] = task[t].entry.path] ELSE disk
    BY <1>0, <1>1, <1>9 DEF rename_worktree_move_back, Goto, At, store
  <2>2. /\ branch[task[t].id] = task[t].name /\ disk[task[t].id] = task[t].name
        /\ task[t].failed /\ task[t].before = task[t].entry
    BY <1>0, <2>1 DEF CheckoutFor
  <2>3. disk'[task[t].id] = task[t].entry.path
    BY <1>0, <1>1, <2>1, <2>2 DEF Moves
  <2>4. CheckoutFor(pc[t], task[t])'
    BY <2>1, <2>2, <2>3 DEF CheckoutFor, AddsFor, Minting, RenameSaves
  <2>5. \A w \in Ids \ {task[t].id} : Matches(w)'
    BY <1>0, <1>2, <2>1 DEF Matches
  <2> QED BY <1>4, <2>1, <2>4, <2>5 DEF Between
<1>10. CASE rename_worktree_branch_back(t)
  <2>1. /\ UNCHANGED <<workspaces, disk>> /\ pc[t] = "branchBack"
        /\ branch' = IF branch[task[t].id] = task[t].name
                     THEN [branch EXCEPT ![task[t].id] = task[t].entry.branch]
                     ELSE branch
    BY <1>0, <1>1, <1>10 DEF rename_worktree_branch_back, At, store
  <2>2. branch[task[t].id] = task[t].name /\ disk[task[t].id] = task[t].entry.path
    BY <1>0, <2>1 DEF CheckoutFor
  <2>3. branch'[task[t].id] = task[t].entry.branch
    BY <1>0, <1>1, <2>1, <2>2
  <2>4. \A w \in Ids \ {task[t].id} : Matches(w)'
    BY <1>0, <1>2, <2>1 DEF Matches
  <2>5. CASE task[t].failed
    <3>1. UNCHANGED task /\ pc'[t] = "restore"
      BY <1>0, <1>10, <2>5 DEF rename_worktree_branch_back, Goto
    <3>2. CheckoutFor(pc[t], task[t])'
      BY <1>0, <2>1, <2>2, <2>3, <2>5, <3>1 DEF CheckoutFor, AddsFor, Minting,
         RenameSaves
    <3> QED BY <1>4, <2>4, <3>1, <3>2 DEF Between
  <2>6. CASE ~task[t].failed
    <3>1. pc'[t] = "err"
      BY <1>0, <1>10, <2>6 DEF rename_worktree_branch_back, Return
    <3>2. CheckoutFor(pc[t], task[t])'
      BY <3>1, NotAdding DEF Noted, Between, Minting
    <3>3. workspaces[task[t].id] = task[t].entry
      BY <1>0, <2>1, <2>6 DEF CheckoutFor
    <3>4. \A w \in Ids : w = task[t].id => Matches(w)'
      BY <2>1, <2>2, <2>3, <3>3 DEF Matches
    <3> QED BY <2>4, <3>2, <3>4 DEF Settled
  <2> QED BY <2>5, <2>6
<1>11. CASE rename_worktree_restore(t)
  <2>1. /\ UNCHANGED <<disk, branch>> /\ pc[t] = "restore" /\ pc'[t] = "err"
        /\ workspaces' = IF workspaces[task[t].id] = None THEN workspaces
                         ELSE [workspaces EXCEPT ![task[t].id] = task[t].before]
    BY <1>0, <1>11 DEF rename_worktree_restore, Return, At, git
  <2>2. /\ branch[task[t].id] = task[t].entry.branch
        /\ disk[task[t].id] = task[t].entry.path
        /\ task[t].before = task[t].entry
    BY <1>0, <2>1 DEF CheckoutFor
  <2>3. CheckoutFor(pc[t], task[t])'
    BY <2>1, NotAdding DEF Noted, Between, Minting
  <2>4. \A w \in Ids : Matches(w)'
    BY <1>0, <1>1, <1>2, <2>1, <2>2 DEF Matches, Stores
  <2> QED BY <2>3, <2>4 DEF Settled
<1>12. CASE rename_worktree_register(t)
  <2>1. /\ UNCHANGED <<workspaces, disk, branch>> /\ pc'[t] = "ok"
        /\ pc[t] \notin Between
    BY <1>0, <1>12 DEF rename_worktree_register, Return, At, store, git, Between
  <2>2. CheckoutFor(pc[t], task[t])'
    BY <2>1, NotAdding DEF Noted, Between, Minting
  <2> QED BY <1>2, <1>3, <2>1, <2>2, MatchesKept DEF Settled
<1> QED BY <1>5, <1>6, <1>7, <1>8, <1>9, <1>10, <1>11, <1>12 DEF RenameWorktree

LEMMA RemoveKeepsCheckouts ==
  ASSUME InductiveInvariant, PoolInvariant, NEW t \in Tasks,
         RemoveWorkspace(t), Settled(t)
  PROVE  Settled(t)'
<1>0. /\ pc \in [Tasks -> Labels] /\ task \in [Tasks -> Locals]
      /\ task[t] \in Locals /\ LocalsFor(pc[t], task[t])
      /\ CommandFor(pc[t], task[t]) /\ CheckoutFor(pc[t], task[t])
      /\ disk \in [Ids -> Names \cup {None}]
      /\ branch \in [Ids -> Names \cup {None}]
      /\ workspaces \in Stores
  BY DEF InductiveInvariant, TypeOK, GitTypeOK, StoreTypeOK, LocalsSet,
     PoolInvariant, CommandsIssued, Settled
<1>1. ASSUME UNCHANGED <<workspaces, disk, branch>>, pc[t] # "forget",
             pc[t] \notin Between, pc'[t] \in RemoveLabels,
             task[t].gone \subseteq task'[t].gone, task'[t].op = task[t].op
      PROVE  Settled(t)'
  <2>1. CheckoutFor(pc[t], task[t])'
    BY <1>1, NotAdding DEF Noted, Between, Minting, RemoveLabels
  <2>2. \A w \in Ids : UnsettledFor(pc[t], task[t], w) => UnsettledFor(pc[t], task[t], w)'
    BY <1>1 DEF UnsettledFor
  <2> QED BY <1>1, <2>1, <2>2, MatchesKept DEF Settled
<1>2. ASSUME UNCHANGED <<workspaces, disk, branch>>, pc'[t] = "err",
             pc[t] \notin Between, pc[t] \notin RemoveLabels \/ pc[t] = "files",
             pc[t] = "files" => task[t].op # "remove"
      PROVE  Settled(t)'
  <2>1. CheckoutFor(pc[t], task[t])'
    BY <1>2, NotAdding DEF Noted, Between, Minting
  <2>2. \A w \in Ids : Matches(w)
    BY <1>2 DEF Settled, UnsettledFor, RemoveLabels
  <2> QED BY <1>2, <2>1, <2>2, MatchesKept DEF Settled
<1>3. CASE remove_workspace_lookup(t) \/ remove_worktree_lookup(t)
  <2>1. /\ UNCHANGED <<workspaces, disk, branch>> /\ pc[t] = "lookup"
        /\ task[t].gone = {}
    BY <1>0, <1>3 DEF remove_workspace_lookup, remove_worktree_lookup, At, store,
       git, CommandFor
  <2>2. pc'[t] \in {"err", "child", "drop"}
    BY <1>0, <1>3 DEF remove_workspace_lookup, remove_worktree_lookup, Goto, Return
  <2>3. pc'[t] # "err" => task'[t].op = task[t].op
    BY <1>0, <1>3 DEF remove_workspace_lookup, remove_worktree_lookup, Return, Locals
  <2> QED BY <1>1, <1>2, <2>1, <2>2, <2>3 DEF RemoveLabels, Between
<1>4. CASE remove_workspace_child(t)
  <2>1. /\ UNCHANGED <<workspaces, disk, branch>> /\ pc[t] = "child"
        /\ pc'[t] \in {"drop", "forget"}
    BY <1>0, <1>4 DEF remove_workspace_child, Goto, At, store, git
  <2>2. task'[t].op = task[t].op
    BY <1>0, <1>4 DEF remove_workspace_child, Locals
  <2>3. CASE task[t].todo = {} /\ ~task[t].failed
    <3>1. task'[t].gone = task[t].gone \cup {task[t].id}
      BY <1>0, <1>4, <2>3 DEF remove_workspace_child, Locals
    <3> QED BY <1>1, <2>1, <2>2, <3>1 DEF RemoveLabels, Between
  <2>4. CASE task[t].todo # {} \/ task[t].failed
    <3>1. task'[t].gone = task[t].gone
      BY <1>0, <1>4, <2>4 DEF remove_workspace_child, Locals
    <3> QED BY <1>1, <2>1, <2>2, <3>1 DEF RemoveLabels, Between
  <2> QED BY <2>3, <2>4
<1>5. CASE \/ kill_session_by_id_remove(t) \/ unregister_workspace(t)
           \/ kill_session_by_id_kill(t)
  <2>1. /\ UNCHANGED <<workspaces, disk, branch>>
        /\ pc[t] \in {"drop", "unregister", "kill"}
    BY <1>0, <1>5 DEF kill_session_by_id_remove, unregister_workspace,
       kill_session_by_id_kill, At, store, git
  <2>2. pc'[t] \in {"unregister", "kill", "files", "forget"}
    BY <1>0, <1>5 DEF kill_session_by_id_remove, unregister_workspace,
       kill_session_by_id_kill, Goto, KillReturns, AfterKill
  <2>3. task'[t].gone = task[t].gone /\ task'[t].op = task[t].op
    BY <1>0, <1>5 DEF kill_session_by_id_remove, unregister_workspace,
       kill_session_by_id_kill, KillReturns, Locals
  <2> QED BY <1>1, <2>1, <2>2, <2>3 DEF RemoveLabels, Between
<1>6. CASE remove_worktree_files(t)
  <2>1. /\ UNCHANGED <<workspaces, branch>> /\ pc[t] = "files"
        /\ task[t].cur \in Ids /\ task[t].op \in {"remove", "rmworktree"}
    BY <1>0, <1>6 DEF remove_worktree_files, At, store, LocalsFor, CommandFor
  <2>2. CASE /\ disk' = IF disk[task[t].cur] = task[t].list[task[t].cur].path
                        THEN [disk EXCEPT ![task[t].cur] = None] ELSE disk
             /\ task' = [task EXCEPT ![t].gone = @ \cup {task[t].cur}]
             /\ pc' = [pc EXCEPT ![t] =
                         IF task[t].op = "remove" THEN "child" ELSE "forget"]
    <3>1. /\ task'[t].gone = task[t].gone \cup {task[t].cur}
          /\ task'[t].op = task[t].op
          /\ pc'[t] = IF task[t].op = "remove" THEN "child" ELSE "forget"
      BY <1>0, <2>2 DEF Locals
    <3>2. CheckoutFor(pc[t], task[t])'
      BY <3>1, NotAdding DEF Noted, Between, Minting
    <3>3. ASSUME NEW w \in Ids
          PROVE  Matches(w)' \/ UnsettledFor(pc[t], task[t], w)'
      <4>1. CASE w \in task'[t].gone
        BY <3>1, <4>1 DEF UnsettledFor, RemoveLabels
      <4>2. CASE w \notin task'[t].gone
        <5>1. Matches(w)
          BY <2>1, <3>1, <4>2 DEF Settled, UnsettledFor, Between
        <5>2. disk'[w] = disk[w]
          BY <1>0, <2>1, <2>2, <3>1, <4>2
        <5> QED BY <2>1, <5>1, <5>2 DEF Matches
      <4> QED BY <4>1, <4>2
    <3> QED BY <3>2, <3>3 DEF Settled
  <2>3. CASE UNCHANGED disk /\ pc'[t] = "child" /\ task' = [task EXCEPT ![t].failed = TRUE]
    <3>1. task'[t].gone = task[t].gone /\ task'[t].op = task[t].op
      BY <1>0, <2>3 DEF Locals
    <3> QED BY <1>1, <2>1, <2>3, <3>1 DEF RemoveLabels, Between
  <2>4. CASE UNCHANGED disk /\ task[t].op = "rmworktree" /\ pc'[t] = "err"
    BY <1>2, <2>1, <2>4 DEF Between
  <2> QED BY <1>0, <1>6, <2>2, <2>3, <2>4 DEF remove_worktree_files, Goto, Return
<1>7. CASE remove_workspace_forget(t)
  <2>1. /\ UNCHANGED <<disk, branch>> /\ pc[t] = "forget"
        /\ pc'[t] \in {"ok", "err"}
        /\ workspaces' = [w \in Ids |-> IF w \in task[t].gone THEN None
                                        ELSE workspaces[w]]
    BY <1>0, <1>7 DEF remove_workspace_forget, Return, At, git
  <2>2. CheckoutFor(pc[t], task[t])'
    BY <2>1, NotAdding DEF Noted, Between, Minting
  <2>3. \A w \in Ids : w \in task[t].gone \/ Matches(w)
    BY <2>1 DEF Settled, UnsettledFor, Between
  <2>4. \A w \in Ids : Matches(w)'
    BY <2>1, <2>3 DEF Matches
  <2> QED BY <2>2, <2>4 DEF Settled
<1> QED BY <1>3, <1>4, <1>5, <1>6, <1>7 DEF RemoveWorkspace

LEMMA CheckoutsNext ==
  ASSUME InductiveInvariant, PoolInvariant, FreshIds, IdsIssued, Undisturbed,
         Checkouts, [Next]_vars
  PROVE  Checkouts'
<1>0. /\ pc \in [Tasks -> Labels] /\ task \in [Tasks -> Locals]
  BY DEF InductiveInvariant, TypeOK
<1>1. ASSUME NEW t \in Tasks, Settled(t)' PROVE Checkouts'
  <2>1. \A u \in Tasks : Settled(u)'
    BY <1>1 DEF Undisturbed, OneClient
  <2> QED BY <2>1 DEF Checkouts, Settled
<1>2. \A t \in Tasks : Settled(t)
  BY DEF Checkouts, Settled, Undisturbed, OneClient
<1>3. CASE UNCHANGED vars
  BY <1>3 DEF vars, Checkouts, CheckoutFor, Matches
<1>4. ASSUME NEW t \in Tasks, Request(t) PROVE Checkouts'
  <2>1. /\ UNCHANGED <<workspaces, disk, branch>> /\ pc[t] \in AtRest
        /\ pc'[t] \in {"precheck", "resolve", "prepare", "lookup", "apply",
                        "syncRead"}
    BY <1>4, RequestAlone
  <2>2. CheckoutFor(pc[t], task[t])'
    BY <2>1, NotAdding DEF Noted, Between, Minting
  <2>3. \A w \in Ids : Matches(w)
    BY <1>2, <2>1 DEF Settled, UnsettledFor, RemoveLabels, Between, AtRest
  <2> QED BY <1>1, <2>1, <2>2, <2>3, MatchesKept DEF Settled
<1>5. ASSUME NEW t \in Tasks, workspace_session_spawn_lock(t) PROVE Checkouts'
  <2>1. /\ UNCHANGED <<workspaces, disk, branch, task>> /\ pc[t] = "lock"
        /\ pc'[t] \in {"own", "current", "take"}
    BY <1>0, <1>5 DEF workspace_session_spawn_lock, At, store, git
  <2>2. CheckoutFor(pc[t], task[t])'
    BY <1>2, <2>1, StillAdding DEF Settled, Noted, Between, Minting
  <2>3. \A w \in Ids : Matches(w)
    BY <1>2, <2>1 DEF Settled, UnsettledFor, RemoveLabels, Between
  <2> QED BY <1>1, <2>1, <2>2, <2>3, MatchesKept DEF Settled
<1>6. ASSUME NEW t \in Tasks, Advance(t) PROVE Checkouts'
  <2>1. ~SyncFromStorage(t)
    BY DEF SyncFromStorage, sync_workspaces_read, sync_workspaces_store,
       sync_workspaces_prune, sync_workspaces_kill, At, PoolInvariant,
       CommandsIssued, CommandFor, Undisturbed, AtRest
  <2>2. Settled(t)'
    BY <1>2, <1>6, <2>1, ConnectKeepsCheckouts, AddKeepsCheckouts,
       ArgsKeepCheckouts, RemoveKeepsCheckouts, SettingsKeepCheckouts,
       RenameKeepsCheckouts DEF Advance
  <2> QED BY <1>1, <2>2
<1>7. CASE Crash \/ OtherProcessSaves
  BY <1>7 DEF Crash, OtherProcessSaves, store, git, Checkouts, CheckoutFor, Matches
<1>8. ~Restart
  BY DEF Restart, Undisturbed
<1> QED BY <1>3, <1>4, <1>5, <1>6, <1>7, <1>8 DEF Next, Environment

(* For a client that waits for each answer, every worktree is where its    *)
(* entry says and on the branch its entry says, whichever step of an add,  *)
(* a removal or a rename failed and was rolled back (worktree.rs).         *)
THEOREM EntriesMatchCheckouts ==
  ASSUME Undisturbed
  PROVE  Spec => []EntryMatchesCheckout
<1>1. Init => Checkouts
  <2> SUFFICES ASSUME Init PROVE Checkouts
    OBVIOUS
  <2>1. stored \in Stores /\ workspaces = stored
    BY StoresAssumption DEF Init
  <2>2. \A w \in Ids : Matches(w)
    BY <2>1 DEF Init, Matches
  <2>3. \A t \in Tasks : CheckoutFor(pc[t], task[t])
    BY DEF Init, CheckoutFor, AddsFor, Minting, RenameSaves
  <2> QED BY <2>2, <2>3 DEF Checkouts
<1>2. /\ InductiveInvariant /\ PoolInvariant /\ FreshIds /\ IdsIssued
      /\ Checkouts /\ [Next]_vars
      => Checkouts'
  BY CheckoutsNext
<1>3. Checkouts => EntryMatchesCheckout
  BY DEF Checkouts, EntryMatchesCheckout, Quiet, AtRest, UnsettledFor, Matches,
     RemoveLabels, Between, Present
<1> QED BY <1>1, <1>2, <1>3, IdsInvariance, PTL DEF Spec
=============================================================================
