----------------------- MODULE AppServerSessionProofs -----------------------
(***************************************************************************)
(* Proofs about AppServerSession, for any requests, prompts, memory        *)
(* threads and workspaces and a pipe of any size: InductiveInvariant is an *)
(* invariant, hence a request that returned left nothing behind, events of *)
(* a thread go to the workspace that was told of it, memory agents that    *)
(* were named stay hidden, turns of background prompts are hidden and      *)
(* prompts clean up; and every step is a step of RequestReply.             *)
(***************************************************************************)
EXTENDS AppServerSession, TLAPS, SequenceTheorems

-----------------------------------------------------------------------------
(* Requests and threads *)

(* Which thread and which workspace a request is about; a thread has one    *)
(* starter.                                                                 *)
LEMMA CallFacts ==
  /\ None \notin Threads /\ Memory \subseteq Threads /\ Prompts \subseteq Threads
  /\ Prompts \cap Memory = {} /\ None \notin Workspaces
  /\ \A c \in Calls :
       /\ Of(c) \in Plain \cup Prompts /\ Of(c) \notin Memory
       /\ Workspace(c) \in Workspaces /\ Workspace(c) = WsOf[Of(c)]
       /\ Method(c) \in {"start", "list", "login", "turn", "archive"}
       /\ Starts(c) => Of(c) \in Threads
       /\ Method(c) \in {"turn", "archive"} => Of(c) \in Prompts /\ c = <<Of(c), Method(c)>>
  /\ \A c, d \in Calls : Starts(c) /\ Starts(d) /\ Of(c) = Of(d) => c = d
  /\ \A p \in Prompts, s \in Steps :
       <<p, s>> \in Calls /\ Of(<<p, s>>) = p /\ Method(<<p, s>>) = s /\ ~IsPlain(<<p, s>>)
  /\ \A t \in Threads \ Memory : t \in Plain \cup Prompts /\ WsOf[t] \in Workspaces
<1>1. \A c \in Calls : IsPlain(c) \/ (~IsPlain(c) /\ c \in Prompts \X Steps)
  BY DEF Calls, IsPlain
<1>2. \A c \in Prompts \X Steps : c[1] \in Prompts /\ c[2] \in Steps /\ c = <<c[1], c[2]>>
  OBVIOUS
<1>3. \A c \in Plain : Kind[c] \in {"start", "list", "login"} /\ WsOf[c] \in Workspaces
  BY ConstantsAssumption
<1>4. \A p \in Prompts : WsOf[p] \in Workspaces
  BY ConstantsAssumption
<1>5. ASSUME NEW c \in Calls
      PROVE  /\ Of(c) \in Plain \cup Prompts /\ Of(c) \notin Memory
             /\ Workspace(c) \in Workspaces /\ Workspace(c) = WsOf[Of(c)]
             /\ Method(c) \in {"start", "list", "login", "turn", "archive"}
             /\ Starts(c) => Of(c) \in Threads
             /\ Method(c) \in {"turn", "archive"} => Of(c) \in Prompts /\ c = <<Of(c), Method(c)>>
  <2>1. CASE IsPlain(c)
    <3>1. Of(c) = c /\ Method(c) = Kind[c] /\ c \in Plain
      BY <2>1 DEF Of, Method, IsPlain
    <3> QED BY <3>1, <1>3, DistinctAssumption DEF Workspace, Starts, Threads
  <2>2. CASE ~IsPlain(c) /\ c \in Prompts \X Steps
    BY <2>2, <1>2, <1>4, DistinctAssumption
       DEF Of, Method, Workspace, Starts, Threads, Steps, StartOf
  <2> QED BY <1>1, <2>1, <2>2
<1>6. ASSUME NEW c \in Calls, NEW d \in Calls, Starts(c), Starts(d), Of(c) = Of(d)
      PROVE  c = d
  BY <1>1, <1>2, <1>6, DistinctAssumption DEF Of, Method, Starts, IsPlain
<1>7. \A t \in Threads \ Memory : t \in Plain \cup Prompts /\ WsOf[t] \in Workspaces
  BY <1>3, <1>4 DEF Threads
<1>8. ASSUME NEW p \in Prompts, NEW s \in Steps
      PROVE  <<p, s>> \in Calls /\ Of(<<p, s>>) = p /\ Method(<<p, s>>) = s /\ ~IsPlain(<<p, s>>)
  <2>1. <<p, s>> \in Prompts \X Steps
    OBVIOUS
  <2>2. <<p, s>> \notin Plain
    BY <2>1, DistinctAssumption
  <2> QED BY <2>1, <2>2 DEF Calls, Of, Method, IsPlain
<1> QED BY <1>8, <1>5, <1>6, <1>7, DistinctAssumption DEF Threads

(* A directory of a workspace that is registered is that workspace's, even  *)
(* if other roots enclose it; that of another is some workspace's or none's. *)
LEMMA RootsMatch ==
  ASSUME TypeOK, NEW d \in Workspaces
  PROVE  /\ resolve_workspace_for_cwd(d) \in Workspaces \cup {None}
         /\ d \in roots => resolve_workspace_for_cwd(d) = d
<1> DEFINE matching == roots \cap ({d} \cup Encloses[d])
           longest  == {w \in matching : matching \ {w} \subseteq Encloses[w]}
<1>1. resolve_workspace_for_cwd(d) = IF longest = {} THEN None ELSE CHOOSE w \in longest : TRUE
  BY DEF resolve_workspace_for_cwd
<1>2. longest \subseteq Workspaces
  BY DEF TypeOK
<1>3. ASSUME d \in roots PROVE longest = {d}
  <2>1. d \in longest
    BY <1>3
  <2>2. ASSUME NEW w \in longest, w # d PROVE FALSE
    <3>1. w \in Encloses[d] /\ d \in Encloses[w] /\ w \in Workspaces
      BY <1>2, <1>3, <2>2
    <3> QED BY <3>1, EnclosesAssumption
  <2> QED BY <2>1, <2>2
<1> HIDE DEF longest
<1>4. longest # {} => (CHOOSE w \in longest : TRUE) \in longest
  OBVIOUS
<1> QED BY <1>1, <1>2, <1>3, <1>4

-----------------------------------------------------------------------------
(* The parts of the invariant a step can leave alone *)

(* The lines in the pipe stay true while no thread that is gone and no      *)
(* answer changes.                                                          *)
LEMMA LinesStay ==
  ASSUME LinesInOrder, out' = out, inbox' = inbox, hiddenUi \subseteq hiddenUi',
         \A t \in Threads : thread[t] = "gone" => thread'[t] = "gone",
         \A c \in Calls : st[c] \in {"wait", "done"} =>
             /\ st'[c] \in {"wait", "done"} /\ id'[c] = id[c]
             /\ c \notin got => c \notin got' /\ (effects[c] = 1 => effects'[c] = 1)
  PROVE  LinesInOrder'
<1>1. ASSUME NEW i \in DOMAIN out PROVE LineTrue(out[i])'
  <2>1. LineTrue(out[i])
    BY DEF LinesInOrder
  <2> QED BY <2>1 DEF LineTrue
<1> QED BY <1>1 DEF LinesInOrder, Follows

(* What a step that neither reads nor writes the pipe owes the threads. *)
Quiet ==
    /\ UNCHANGED <<out, thread, inbox, hidden, named, exposed, astray, fine, effects>>
    /\ hiddenUi \subseteq hiddenUi' /\ left \subseteq left' /\ RootsKept'
    /\ threadWs' \in [Threads -> Workspaces \cup {None}]
    /\ \A t \in Threads : threadWs'[t] = threadWs[t] \/ (t \in Prompts /\ threadWs'[t] = WsOf[t])
    /\ \A c \in Calls : st[c] \in {"wait", "done"} =>
          /\ st'[c] \in {"wait", "done"} /\ id'[c] = id[c]
          /\ c \notin got => c \notin got'
    /\ \A c \in Calls : /\ Unwritten(c)' => Unwritten(c)
                        /\ c \in got' => c \in got \/ Unwritten(c)

LEMMA QuietKeeps ==
  ASSUME InductiveInvariant, Quiet
  PROVE  /\ LinesInOrder' /\ ExecutedFirst' /\ RootsKept' /\ StarterMapped'
         /\ EventsFollowTheStarter' /\ NamedHidden' /\ NamedAgentsStayHidden'
         /\ TurnsOfPromptsAreHidden'
<1> USE DEF InductiveInvariant, Quiet
<1>1. LinesInOrder'
  BY LinesStay
<1>2. ExecutedFirst'
  BY DEF ExecutedFirst
<1>3. \A t : Silent(t)' = Silent(t)
  BY DEF Silent
<1>4. StarterMapped'
  BY <1>3, CallFacts DEF StarterMapped
<1>5. NamedHidden'
  BY <1>3 DEF NamedHidden
<1> QED BY <1>1, <1>2, <1>4, <1>5
        DEF EventsFollowTheStarter, NamedAgentsStayHidden, TurnsOfPromptsAreHidden

(* Most steps of requests and prompts are quiet. *)
LEMMA CallsMoveQuietly ==
  ASSUME TypeOK, RootsKept,
         UNCHANGED <<out, thread, inbox, hidden, named, exposed, astray, fine, effects,
                     threadWs, roots, left>>,
         hiddenUi \subseteq hiddenUi', got' = got,
         \A d \in Calls : st[d] \in {"wait", "done"} => st'[d] \in {"wait", "done"} /\ id'[d] = id[d],
         \A d \in Calls : Unwritten(d)' => Unwritten(d)
  PROVE  Quiet
<1>1. threadWs' \in [Threads -> Workspaces \cup {None}]
  BY DEF TypeOK
<1>2. RootsKept'
  BY DEF RootsKept
<1>3. \A t \in Threads : threadWs'[t] = threadWs[t]
  OBVIOUS
<1> QED BY <1>1, <1>2, <1>3 DEF Quiet

-----------------------------------------------------------------------------
(* send_request_for_workspace *)

LEMMA SendRequestKeeps ==
  ASSUME InductiveInvariant, NEW c \in Calls, send_request(c)
  PROVE  InductiveInvariant'
<1> USE DEF InductiveInvariant, send_request, Goto, promptVars, childVars, uiVars, wsVars
<1>1. TypeOK'
  BY CallFacts DEF TypeOK
<1>a. /\ st[c] = "unsent" /\ st' = [st EXCEPT ![c] = "inserted"]
      /\ id' = [id EXCEPT ![c] = nextId] /\ nextId' = nextId + 1 /\ nextId \in Nat
      /\ st \in [Calls -> {"unsent", "inserted", "write", "wait", "done"}]
      /\ id \in [Calls -> Nat]
      /\ pending' = pending \cup {<<nextId, c>>} /\ context' = context
  BY DEF TypeOK
<1>b. \A x \in pending \cup context : x[2] \in Calls
  BY DEF TypeOK
<1>2. IdsIdentify'
  BY <1>a, <1>b DEF IdsIdentify
<1>c. \A d \in Calls \ {c} : Entry(d)' = Entry(d) /\ st'[d] = st[d] /\ Entry(d) # <<nextId, c>>
  BY <1>a DEF Entry
<1>3. AnsweredOnce'
  <2>1. c \notin got /\ inbox[c] = "empty"
    BY <1>a DEF AnsweredOnce, TypeOK
  <2> QED BY <1>a, <1>c, <2>1 DEF AnsweredOnce
<1>4. NothingLeftBehind'
  BY <1>a, <1>c DEF NothingLeftBehind, Entry
<1>5. PromptsInStep'
  <2>1. ASSUME NEW p \in Prompts, c = Turn(p) PROVE p \in hiddenUi
    BY <2>1, CallFacts DEF Due, Turn, Steps, PromptsInStep
  <2>2. ASSUME NEW p \in Prompts, c = <<p, "archive">>
        PROVE  p \in hiddenUi /\ inbox[StartOf(p)] = "answer"
    BY <2>2, CallFacts DEF Due, Steps, PromptsInStep
  <2>3. ASSUME NEW p \in Prompts
        PROVE  /\ <<p, "archive">> \in Calls /\ StartOf(p) \in Calls /\ Turn(p) \in Calls
               /\ st[<<p, "archive">>] = "done" => st'[<<p, "archive">>] = "done"
               /\ st[StartOf(p)] = "done" => st'[StartOf(p)] = "done"
               /\ st'[Turn(p)] # "unsent" => st[Turn(p)] # "unsent" \/ c = Turn(p)
               /\ st'[<<p, "archive">>] # "unsent"
                    => st[<<p, "archive">>] # "unsent" \/ c = <<p, "archive">>
    BY <1>a, CallFacts DEF Steps, StartOf, Turn
  <2> QED BY <2>1, <2>2, <2>3 DEF PromptsInStep
<1>6. Quiet
  <2>1. \A d \in Calls : st[d] \in {"wait", "done"} => st'[d] = st[d] /\ id'[d] = id[d]
    BY <1>a
  <2>2. \A d \in Calls : Unwritten(d)' => Unwritten(d)
    BY <1>a DEF Unwritten
  <2> QED BY <2>1, <2>2, CallsMoveQuietly
<1> QED BY <1>1, <1>2, <1>3, <1>4, <1>5, <1>6, QuietKeeps

(* A prompt's own requests, and what of their progress cannot be undone. *)
LEMMA PromptsStay ==
  ASSUME PromptsInStep,
         UNCHANGED <<callbacks, step, thread, inbox>>, hiddenUi \subseteq hiddenUi',
         \A c \in Calls : /\ st[c] = "unsent" => st'[c] = "unsent"
                          /\ st[c] = "done" => st'[c] = "done" /\ res'[c] = res[c]
  PROVE  PromptsInStep'
<1> SUFFICES ASSUME NEW p \in Prompts
             PROVE  /\ p \in callbacks => step[p] \in {"turn", "collect"}
                    /\ (step[p] \in {"register", "turn", "collect", "archive"}
                          \/ st'[Turn(p)] # "unsent" \/ st'[<<p, "archive">>] # "unsent"
                          \/ thread[p] \in {"busy", "archiving"}) => p \in hiddenUi'
                    /\ (step[p] \in {"register", "turn", "collect", "archive"}
                          \/ st'[<<p, "archive">>] # "unsent") => inbox[StartOf(p)] = "answer"
                    /\ step[p] = "done" =>
                          \/ st'[<<p, "archive">>] = "done"
                          \/ /\ st'[StartOf(p)] = "done"
                             /\ ~(res'[StartOf(p)] = "ok" /\ inbox[StartOf(p)] = "answer")
  BY DEF PromptsInStep
<1>1. <<p, "archive">> \in Calls /\ StartOf(p) \in Calls /\ Turn(p) \in Calls
  BY CallFacts DEF Steps, StartOf, Turn
<1> QED BY <1>1 DEF PromptsInStep

LEMMA SendRequestContextKeeps ==
  ASSUME InductiveInvariant, NEW c \in Calls, send_request_context(c)
  PROVE  InductiveInvariant'
<1> USE DEF InductiveInvariant, send_request_context, Goto, promptVars, childVars, uiVars, wsVars
<1>a. /\ st[c] = "inserted" /\ st' = [st EXCEPT ![c] = "write"]
      /\ st \in [Calls -> {"unsent", "inserted", "write", "wait", "done"}]
      /\ id \in [Calls -> Nat] /\ id' = id /\ nextId' = nextId /\ pending' = pending
      /\ context' = context \cup {Entry(c)} /\ Entry(c) \in Nat \X Calls
  BY DEF TypeOK, Entry
<1>b. \A d \in Calls : Entry(d)' = Entry(d) /\ (d # c => Entry(d) # Entry(c))
  BY <1>a DEF Entry
<1>t. /\ threadWs' \in [Threads -> Workspaces \cup {None}]
      /\ \A t \in Threads : threadWs'[t] = threadWs[t] \/ (t \in Prompts /\ threadWs'[t] = WsOf[t])
  <2>1. CASE Method(c) \in {"turn", "archive"}
    <3>1. Of(c) \in Prompts /\ Of(c) \in Threads /\ Workspace(c) \in Workspaces
          /\ Workspace(c) = WsOf[Of(c)]
      BY <2>1, CallFacts
    <3>2. threadWs' = [threadWs EXCEPT ![Of(c)] = Workspace(c)]
          /\ threadWs \in [Threads -> Workspaces \cup {None}]
      BY <2>1 DEF TypeOK
    <3> QED BY <3>1, <3>2
  <2>2. CASE Method(c) \notin {"turn", "archive"}
    BY <2>2 DEF TypeOK
  <2> QED BY <2>1, <2>2
<1>1. TypeOK'
  BY <1>a, <1>t DEF TypeOK
<1>2. IdsIdentify'
  <2>1. \A x \in pending' \cup context' : x \in pending \cup context \/ x = Entry(c)
    BY <1>a
  <2>2. \A x \in pending \cup context : x[2] \in Calls
    BY DEF TypeOK
  <2> QED BY <1>a, <2>1, <2>2 DEF IdsIdentify, Entry
<1>3. AnsweredOnce'
  BY <1>a, <1>b DEF AnsweredOnce
<1>4. NothingLeftBehind'
  BY <1>a, <1>b DEF NothingLeftBehind, Entry
<1>5. PromptsInStep'
  BY <1>a, PromptsStay
<1>6. Quiet
  <2>1. \A d \in Calls : /\ st[d] \in {"wait", "done"} => st'[d] = st[d]
                         /\ Unwritten(d)' => Unwritten(d)
    BY <1>a DEF Unwritten
  <2>2. UNCHANGED <<out, thread, inbox, hidden, named, exposed, astray, fine, effects,
                    hiddenUi, id, got, roots, left>>
    OBVIOUS
  <2>3. RootsKept'
    BY <2>2 DEF RootsKept
  <2> QED BY <1>t, <2>1, <2>2, <2>3 DEF Quiet
<1> QED BY <1>1, <1>2, <1>3, <1>4, <1>5, <1>6, QuietKeeps

(* A request that ends: its entries are gone, or it is a login, or an      *)
(* answer or the end of the output removed them.                           *)
LEMMA ReturningKeeps ==
  ASSUME InductiveInvariant, NEW c \in Calls, NEW r \in {"ok", "err"}, Returns(c, r),
         st[c] \in {"inserted", "write", "wait"},
         \/ Forget(c)
         \/ /\ UNCHANGED <<pending, context>>
            /\ Method(c) = "login" \/ inbox[c] # "empty",
         UNCHANGED <<load, id, inbox, nextId, threadWs, hidden, callbacks, wsVars, reader,
                     promptVars, childVars, uiVars>>
  PROVE  InductiveInvariant'
<1> USE DEF InductiveInvariant, Returns, Goto, promptVars, childVars, uiVars, wsVars
<1>a. /\ st' = [st EXCEPT ![c] = "done"] /\ res' = [res EXCEPT ![c] = r]
      /\ st \in [Calls -> {"unsent", "inserted", "write", "wait", "done"}]
      /\ res \in [Calls -> {"none", "ok", "err"}]
      /\ id \in [Calls -> Nat] /\ id' = id /\ nextId' = nextId
      /\ pending' \subseteq pending /\ context' \subseteq context
      /\ pending \ {Entry(c)} \subseteq pending' /\ context \ {Entry(c)} \subseteq context'
  BY DEF TypeOK, Forget, Entry
<1>b. \A d \in Calls : Entry(d)' = Entry(d) /\ (d # c => Entry(d) # Entry(c))
  BY <1>a DEF Entry
<1>1. TypeOK'
  BY <1>a DEF TypeOK
<1>2. IdsIdentify'
  <2>1. \A x \in pending \cup context : x[2] \in Calls
    BY DEF TypeOK
  <2> QED BY <1>a, <2>1 DEF IdsIdentify
<1>3. AnsweredOnce'
  BY <1>a, <1>b DEF AnsweredOnce
<1>4. NothingLeftBehind'
  <2>1. ASSUME Method(c) # "login"
        PROVE  Entry(c) \notin pending' /\ (reader = "on" => Entry(c) \notin context')
    <3>1. CASE Forget(c)
      BY <3>1 DEF Forget, Entry
    <3>2. CASE UNCHANGED <<pending, context>> /\ inbox[c] # "empty"
      BY <3>2 DEF AnsweredOnce, TypeOK
    <3> QED BY <2>1, <3>1, <3>2
  <2>2. ASSUME NEW d \in Calls \ {c}, st'[d] = "done", Method(d) # "login"
        PROVE  Entry(d) \notin pending' /\ (reader = "on" => Entry(d) \notin context')
    BY <1>a, <2>2 DEF NothingLeftBehind, Entry
  <2> QED BY <1>a, <1>b, <2>1, <2>2 DEF NothingLeftBehind, Entry
<1>5. PromptsInStep'
  BY <1>a, PromptsStay
<1>6. Quiet
  <2>1. \A d \in Calls : /\ st[d] \in {"wait", "done"} => st'[d] \in {"wait", "done"}
                         /\ Unwritten(d)' => Unwritten(d)
    BY <1>a DEF Unwritten
  <2> QED BY <1>a, <2>1, CallsMoveQuietly
<1> QED BY <1>1, <1>2, <1>3, <1>4, <1>5, <1>6, QuietKeeps

LEMMA SendRequestWriteKeeps ==
  ASSUME InductiveInvariant, NEW c \in Calls, send_request_write(c)
  PROVE  InductiveInvariant'
<1>1. CASE child = "dead" /\ Forget(c) /\ Returns(c, "err") /\ got' = got
  BY <1>1, ReturningKeeps DEF send_request_write, childVars
<1>2. CASE child = "up" /\ got' = got \cup {c} /\ Goto(c, "wait") /\ UNCHANGED <<res, pending, context>>
  <2> USE <1>2 DEF InductiveInvariant, send_request_write, Goto, promptVars, uiVars, wsVars
  <2>a. /\ st[c] = "write" /\ st' = [st EXCEPT ![c] = "wait"]
        /\ st \in [Calls -> {"unsent", "inserted", "write", "wait", "done"}]
        /\ id' = id /\ nextId' = nextId /\ pending' = pending /\ context' = context
        /\ got' = got \cup {c} /\ inbox' = inbox /\ effects' = effects /\ reader' = reader
    BY DEF TypeOK
  <2>b. \A d \in Calls : Entry(d)' = Entry(d)
    BY <2>a DEF Entry
  <2>1. TypeOK'
    BY <2>a DEF TypeOK
  <2>2. IdsIdentify'
    <3>1. \A x \in pending \cup context : x[2] \in Calls
      BY DEF TypeOK
    <3> QED BY <2>a, <3>1 DEF IdsIdentify
  <2>3. AnsweredOnce'
    BY <2>a, <2>b DEF AnsweredOnce
  <2>4. NothingLeftBehind'
    BY <2>a DEF NothingLeftBehind
  <2>5. PromptsInStep'
    BY <2>a, PromptsStay
  <2>6. Quiet
    <3>1. \A d \in Calls : /\ st[d] \in {"wait", "done"} => st'[d] = st[d] /\ d # c
                           /\ Unwritten(d)' \/ d = c => Unwritten(d)
      BY <2>a DEF Unwritten
    <3>2. UNCHANGED <<out, thread, inbox, hidden, named, exposed, astray, fine, effects,
                      hiddenUi, id, threadWs, roots, left>>
      OBVIOUS
    <3>3. threadWs' \in [Threads -> Workspaces \cup {None}] /\ RootsKept'
      BY <2>1, <3>2 DEF TypeOK, RootsKept
    <3>4. \A d \in Calls : d \in got' => d \in got \/ d = c
      BY <2>a
    <3> QED BY <3>1, <3>2, <3>3, <3>4 DEF Quiet
  <2> QED BY <2>1, <2>2, <2>3, <2>4, <2>5, <2>6, QuietKeeps
<1> QED BY <1>1, <1>2 DEF send_request_write

LEMMA RequestStepKeeps ==
  ASSUME InductiveInvariant, NEW c \in Calls, RequestStep(c)
  PROVE  InductiveInvariant'
<1>1. CASE send_request_answer(c)
  BY <1>1, ReturningKeeps DEF send_request_answer, sessVars
<1>2. CASE send_request_timeout(c)
  BY <1>2, ReturningKeeps DEF send_request_timeout
<1>3. CASE login_dropped(c)
  BY <1>3, ReturningKeeps DEF login_dropped, sessVars
<1> QED BY <1>1, <1>2, <1>3, SendRequestKeeps, SendRequestContextKeeps, SendRequestWriteKeeps
        DEF RequestStep

-----------------------------------------------------------------------------
(* run_background_prompt_core *)

(* A prompt that goes on touches neither requests nor the child. *)
LEMMA PromptMoveKeeps ==
  ASSUME InductiveInvariant, PromptsInStep', hiddenUi \subseteq hiddenUi', hiddenUi' \subseteq Threads,
         callbacks' \subseteq Prompts,
         step' \in [Prompts -> {"idle", "start", "register", "turn", "collect", "archive", "done"}],
         UNCHANGED <<load, callVars, nextId, pending, context, threadWs, hidden, wsVars, reader,
                     events, childVars, shown, named, exposed, astray>>
  PROVE  InductiveInvariant'
<1> USE DEF InductiveInvariant, callVars, childVars, wsVars
<1>1. TypeOK'
  BY DEF TypeOK
<1>2. IdsIdentify' /\ AnsweredOnce' /\ NothingLeftBehind'
  BY DEF IdsIdentify, AnsweredOnce, NothingLeftBehind, Entry
<1>3. Quiet
  <2>1. \A d \in Calls : Unwritten(d)' = Unwritten(d)
    BY DEF Unwritten
  <2> QED BY <2>1, CallsMoveQuietly
<1> QED BY <1>1, <1>2, <1>3, QuietKeeps

LEMMA PromptStepKeeps ==
  ASSUME InductiveInvariant, NEW p \in Prompts, PromptStep(p)
  PROVE  InductiveInvariant'
<1> USE DEF At, sessVars, uiVars
<1>a. /\ step \in [Prompts -> {"idle", "start", "register", "turn", "collect", "archive", "done"}]
      /\ hiddenUi \subseteq Threads /\ callbacks \subseteq Prompts /\ p \in Threads
      /\ PromptsInStep
  BY CallFacts DEF InductiveInvariant, TypeOK
<1>b. ASSUME NEW s \in {"start", "register", "turn", "collect", "archive", "done"}, At(p, s),
             UNCHANGED <<callVars, childVars>>, hiddenUi \subseteq hiddenUi',
             callbacks' \ {p} \subseteq callbacks,
             p \in callbacks' => s \in {"turn", "collect"},
             s \in {"register", "turn", "collect", "archive"}
                 => p \in hiddenUi' /\ inbox[StartOf(p)] = "answer",
             s = "done" => \/ st[<<p, "archive">>] = "done"
                           \/ /\ st[StartOf(p)] = "done"
                              /\ ~(res[StartOf(p)] = "ok" /\ inbox[StartOf(p)] = "answer")
      PROVE  /\ PromptsInStep'
             /\ step' \in [Prompts -> {"idle", "start", "register", "turn", "collect", "archive", "done"}]
  <2>1. step' = [step EXCEPT ![p] = s]
    BY <1>b
  <2>2. st' = st /\ res' = res /\ inbox' = inbox /\ thread' = thread
    BY <1>b DEF callVars, childVars
  <2> QED BY <1>a, <1>b, <2>1, <2>2 DEF PromptsInStep
<1>1. CASE prompt_begins(p)
  <2> USE <1>1 DEF prompt_begins
  <2>1. p \notin callbacks
    BY <1>a DEF PromptsInStep
  <2> QED BY <1>a, <1>b, <2>1, PromptMoveKeeps
<1>2. CASE prompt_without_thread(p)
  <2> USE <1>2 DEF prompt_without_thread, StartGaveThread
  <2>1. p \notin callbacks
    BY <1>a DEF PromptsInStep
  <2> QED BY <1>a, <1>b, <2>1, PromptMoveKeeps
<1>3. CASE prompt_hides(p)
  <2> USE <1>3 DEF prompt_hides, StartGaveThread
  <2>1. p \notin callbacks
    BY <1>a DEF PromptsInStep
  <2> QED BY <1>a, <1>b, <2>1, PromptMoveKeeps
<1>4. CASE prompt_registers(p)
  <2> USE <1>4 DEF prompt_registers
  <2>1. p \in hiddenUi /\ inbox[StartOf(p)] = "answer"
    BY <1>a DEF PromptsInStep
  <2> QED BY <1>a, <1>b, <2>1, PromptMoveKeeps
<1>5. CASE prompt_collects(p)
  <2> USE <1>5 DEF prompt_collects
  <2>1. p \in hiddenUi /\ inbox[StartOf(p)] = "answer"
    BY <1>a DEF PromptsInStep
  <2> QED BY <1>a, <1>b, <2>1, PromptMoveKeeps
<1>6. CASE prompt_removes_callback(p)
  <2> USE <1>6 DEF prompt_removes_callback, PromptOver
  <2>1. p \in hiddenUi /\ inbox[StartOf(p)] = "answer"
    BY <1>a DEF PromptsInStep
  <2> QED BY <1>a, <1>b, <2>1, PromptMoveKeeps
<1>7. CASE prompt_returns(p)
  <2> USE <1>7 DEF prompt_returns
  <2>1. p \notin callbacks
    BY <1>a DEF PromptsInStep
  <2> QED BY <1>a, <1>b, <2>1, PromptMoveKeeps
<1> QED BY <1>1, <1>2, <1>3, <1>4, <1>5, <1>6, <1>7 DEF PromptStep

-----------------------------------------------------------------------------
(* The end of the output, workspaces that leave, and the child *)

LEMMA ReaderClearsPendingKeeps ==
  ASSUME InductiveInvariant, reader_clears_pending
  PROVE  InductiveInvariant'
<1> USE DEF InductiveInvariant, reader_clears_pending, promptVars, childVars, uiVars, wsVars
<1>a. /\ inbox \in [Calls -> {"empty", "answer", "error", "canceled"}] /\ out' = <<>> /\ out = <<>>
      /\ inbox' = [c \in Calls |-> IF Entry(c) \in pending THEN "canceled" ELSE inbox[c]]
      /\ pending' = {} /\ context' = context /\ reader' = "cleared" /\ st' = st /\ id' = id
      /\ got' = got /\ effects' = effects
  BY DEF TypeOK, Entry
<1>b. \A c \in Calls : /\ Entry(c)' = Entry(c)
                       /\ inbox'[c] = inbox[c] \/ (inbox'[c] = "canceled" /\ st[c] # "unsent")
  BY <1>a DEF Entry, IdsIdentify
<1>1. TypeOK'
  BY <1>a DEF TypeOK
<1>2. IdsIdentify' /\ NothingLeftBehind'
  BY <1>a DEF IdsIdentify, NothingLeftBehind
<1>3. AnsweredOnce'
  BY <1>a, <1>b DEF AnsweredOnce
<1>4. LinesInOrder' /\ NamedHidden' /\ ExecutedFirst' /\ RootsKept'
  BY <1>a DEF LinesInOrder, NamedHidden, Silent, ExecutedFirst, Unwritten, RootsKept
<1>5. EventsFollowTheStarter' /\ NamedAgentsStayHidden' /\ TurnsOfPromptsAreHidden'
  BY DEF EventsFollowTheStarter, NamedAgentsStayHidden, TurnsOfPromptsAreHidden
<1>6. StarterMapped'
  BY <1>a, <1>b DEF StarterMapped, Silent
<1>7. PromptsInStep'
  <2>1. ASSUME NEW p \in Prompts PROVE (inbox'[StartOf(p)] = "answer") = (inbox[StartOf(p)] = "answer")
    <3>1. StartOf(p) \in Calls
      BY CallFacts DEF StartOf, Steps
    <3>2. inbox[StartOf(p)] = "answer" => Entry(StartOf(p)) \notin pending
      BY <3>1 DEF AnsweredOnce
    <3> QED BY <1>a, <3>1, <3>2
  <2> QED BY <2>1 DEF PromptsInStep
<1> QED BY <1>1, <1>2, <1>3, <1>4, <1>5, <1>6, <1>7

LEMMA ReaderClearsContextKeeps ==
  ASSUME InductiveInvariant, reader_clears_context
  PROVE  InductiveInvariant'
<1> USE DEF InductiveInvariant, reader_clears_context, callVars, promptVars, childVars, uiVars, wsVars
<1>1. TypeOK'
  BY DEF TypeOK
<1>2. IdsIdentify' /\ NothingLeftBehind'
  BY DEF IdsIdentify, NothingLeftBehind
<1>3. AnsweredOnce'
  BY DEF AnsweredOnce, Entry
<1>4. PromptsInStep'
  BY DEF PromptsInStep
<1>5. Quiet
  <2>1. \A d \in Calls : Unwritten(d)' = Unwritten(d)
    BY DEF Unwritten
  <2> QED BY <2>1, CallsMoveQuietly
<1> QED BY <1>1, <1>2, <1>3, <1>4, <1>5, QuietKeeps

(* A workspace that leaves takes its root with it; one that is registered   *)
(* again brings it back.                                                    *)
LEMMA RegistrationKeeps ==
  ASSUME InductiveInvariant, NEW w \in Workspaces,
         unregister_workspace(w) \/ register_workspace_with_path(w)
  PROVE  InductiveInvariant'
<1> USE DEF InductiveInvariant, unregister_workspace, register_workspace_with_path,
            callVars, promptVars, childVars, uiVars
<1>1. TypeOK'
  BY DEF TypeOK
<1>2. IdsIdentify' /\ NothingLeftBehind'
  BY DEF IdsIdentify, NothingLeftBehind
<1>3. AnsweredOnce'
  BY DEF AnsweredOnce, Entry
<1>4. PromptsInStep'
  BY DEF PromptsInStep
<1>5. Quiet
  <2>1. RootsKept' /\ left \subseteq left'
    BY DEF RootsKept
  <2>2. \A d \in Calls : Unwritten(d)' = Unwritten(d)
    BY DEF Unwritten
  <2>3. UNCHANGED <<out, thread, inbox, hidden, named, exposed, astray, fine, effects,
                    hiddenUi, id, st, got, threadWs>>
    OBVIOUS
  <2>4. threadWs' \in [Threads -> Workspaces \cup {None}]
    BY <1>1 DEF TypeOK
  <2> QED BY <2>1, <2>2, <2>3, <2>4 DEF Quiet
<1> QED BY <1>1, <1>2, <1>3, <1>4, <1>5, QuietKeeps

(* How the execution of a request changes the thread it is about. *)
LEMMA ExecutionMovesThread ==
  ASSUME InductiveInvariant, NEW c \in Calls, c \in got, Possible(c), thread' = ThreadAfter(c)
  PROVE  /\ thread' \in [Threads -> {"none", "made", "idle", "busy", "ran", "archiving", "gone"}]
         /\ \A t \in Threads :
              \/ thread'[t] = thread[t]
              \/ /\ t = Of(c) /\ thread[t] \notin {"archiving", "gone"}
                 /\ \/ Starts(c) /\ thread'[t] = "made"
                    \/ Method(c) = "turn" /\ thread'[t] = "busy"
                    \/ Method(c) = "archive" /\ thread'[t] = "archiving"
         /\ Method(c) = "archive" => thread'[Of(c)] = "archiving"
<1>1. thread \in [Threads -> {"none", "made", "idle", "busy", "ran", "archiving", "gone"}]
  BY DEF InductiveInvariant, TypeOK
<1>2. CASE Method(c) = "start"
  <2>1. thread' = [thread EXCEPT ![Of(c)] = "made"]
    BY <1>2 DEF ThreadAfter
  <2>2. thread[Of(c)] \notin {"archiving", "gone"} /\ Of(c) \in Threads /\ Starts(c)
    BY <1>2, CallFacts DEF InductiveInvariant, ExecutedFirst, Starts
  <2> QED BY <1>1, <1>2, <2>1, <2>2
<1>3. CASE Method(c) = "turn"
  <2>1. thread' = [thread EXCEPT ![Of(c)] = "busy"] /\ thread[Of(c)] \in {"made", "idle"}
    BY <1>3 DEF ThreadAfter, Possible
  <2>2. Of(c) \in Threads
    BY <1>3, CallFacts
  <2> QED BY <1>1, <1>3, <2>1, <2>2
<1>4. CASE Method(c) = "archive"
  <2>1. /\ thread' = [thread EXCEPT ![Of(c)] = "archiving"]
        /\ thread[Of(c)] \in {"made", "idle", "busy", "ran"}
    BY <1>4 DEF ThreadAfter, Possible
  <2>2. Of(c) \in Threads
    BY <1>4, CallFacts
  <2> QED BY <1>1, <1>4, <2>1, <2>2
<1>5. CASE Method(c) \in {"list", "login"}
  <2>1. thread' = thread
    BY <1>5 DEF ThreadAfter
  <2> QED BY <1>1, <1>5, <2>1
<1> QED BY <1>2, <1>3, <1>4, <1>5, CallFacts

LEMMA ChildExecutesKeeps ==
  ASSUME InductiveInvariant, NEW c \in Calls, child_executes(c)
  PROVE  InductiveInvariant'
<1> USE DEF InductiveInvariant
<1>a. /\ effects' = [effects EXCEPT ![c] = 1] /\ effects \in [Calls -> {0, 1}]
      /\ c \in got /\ effects[c] = 0
      /\ UNCHANGED <<load, st, id, inbox, res, nextId, pending, context, threadWs, hidden,
                     callbacks, ids, roots, left, reader, step, events, child, got, out,
                     shown, hiddenUi, named, exposed, astray>>
      /\ \/ Possible(c) /\ thread' = ThreadAfter(c) /\ fine' = fine \cup {c}
         \/ thread' = thread /\ fine' = fine
  BY DEF child_executes, TypeOK, callVars, sessVars, wsVars, promptVars, uiVars
<1>t. /\ thread' \in [Threads -> {"none", "made", "idle", "busy", "ran", "archiving", "gone"}]
      /\ \A t \in Threads :
           \/ thread'[t] = thread[t]
           \/ /\ t = Of(c) /\ thread[t] \notin {"archiving", "gone"}
              /\ \/ Starts(c) /\ thread'[t] = "made"
                 \/ Method(c) = "turn" /\ thread'[t] = "busy"
                 \/ Method(c) = "archive" /\ thread'[t] = "archiving"
      /\ (Method(c) = "archive" /\ c \in fine') => thread'[Of(c)] = "archiving"
      /\ fine' \subseteq fine \cup {c} /\ fine \subseteq fine'
  <2>1. CASE Possible(c) /\ thread' = ThreadAfter(c) /\ fine' = fine \cup {c}
    BY <1>a, <2>1, ExecutionMovesThread
  <2>2. CASE thread' = thread /\ fine' = fine
    <3>1. c \notin fine
      BY <1>a DEF ExecutedFirst
    <3> QED BY <2>2, <3>1 DEF TypeOK
  <2> QED BY <1>a, <2>1, <2>2
<1>w. st[c] \in {"wait", "done"} /\ ~Unwritten(c)
  BY <1>a DEF AnsweredOnce, Unwritten
<1>g. \A t \in Threads : thread[t] = "gone" => thread'[t] = "gone"
  BY <1>t
<1>e. \A d \in Calls : d # c => effects'[d] = effects[d]
  BY <1>a
<1>1. TypeOK'
  BY <1>a, <1>t DEF TypeOK
<1>2. IdsIdentify' /\ NothingLeftBehind'
  BY <1>a DEF IdsIdentify, NothingLeftBehind
<1>3. AnsweredOnce'
  BY <1>a, <1>e DEF AnsweredOnce, Entry
<1>4. LinesInOrder'
  BY <1>a, <1>g, LinesStay
<1>5. ExecutedFirst'
  <2> SUFFICES ASSUME NEW d \in Calls
               PROVE  /\ d \in fine' => effects'[d] = 1
                      /\ Unwritten(d) => effects'[d] = 0
                      /\ (Starts(d) /\ (Unwritten(d) \/ d \in got))
                            => thread'[Of(d)] \notin {"archiving", "gone"}
                      /\ (Method(d) = "archive" /\ d \in got \cap fine')
                            => thread'[Of(d)] = "archiving"
    BY <1>a DEF ExecutedFirst, Unwritten
  <2>1. d \in fine' => effects'[d] = 1
    BY <1>a, <1>t DEF ExecutedFirst
  <2>2. Unwritten(d) => effects'[d] = 0
    BY <1>a, <1>w DEF ExecutedFirst
  <2>3. ASSUME Starts(d), Unwritten(d) \/ d \in got
        PROVE  thread'[Of(d)] \notin {"archiving", "gone"}
    <3>1. thread[Of(d)] \notin {"archiving", "gone"} /\ Of(d) \in Threads
      BY <2>3, CallFacts DEF ExecutedFirst
    <3>2. ~(Method(c) = "archive" /\ Of(c) = Of(d))
      <4> SUFFICES ASSUME Method(c) = "archive", Of(c) = Of(d) PROVE FALSE
        OBVIOUS
      <4>1. PICK p \in Prompts : p = Of(c) /\ c = <<p, "archive">>
        BY CallFacts
      <4>2. inbox[StartOf(p)] = "answer"
        BY <1>w, <4>1 DEF PromptsInStep
      <4>3. StartOf(p) \in Calls /\ Of(StartOf(p)) = p /\ Starts(StartOf(p))
        BY CallFacts DEF StartOf, Steps, Starts
      <4>4. StartOf(p) = d
        BY <2>3, <4>1, <4>3, CallFacts
      <4> QED BY <2>3, <4>2, <4>4 DEF AnsweredOnce, Unwritten
    <3> QED BY <1>t, <3>1, <3>2
  <2>4. ASSUME Method(d) = "archive", d \in got \cap fine' PROVE thread'[Of(d)] = "archiving"
    <3>1. CASE d = c
      BY <1>t, <2>4, <3>1
    <3>2. CASE d # c
      <4>1. thread[Of(d)] = "archiving" /\ Of(d) \in Threads
        BY <1>t, <2>4, <3>2, CallFacts DEF ExecutedFirst
      <4> QED BY <1>t, <4>1
    <3> QED BY <3>1, <3>2
  <2> QED BY <2>1, <2>2, <2>3, <2>4
<1>6. StarterMapped' /\ NamedHidden'
  <2>1. \A t : Silent(t)' = Silent(t)
    BY <1>a DEF Silent
  <2>2. named \subseteq Threads /\ \A d \in Calls : Starts(d) => Of(d) \in Threads
    BY CallFacts DEF TypeOK
  <2>3. StarterMapped'
    BY <1>a, <1>g, <2>1, <2>2 DEF StarterMapped
  <2>4. NamedHidden'
    BY <1>a, <1>g, <2>1, <2>2 DEF NamedHidden
  <2> QED BY <2>3, <2>4
<1>7. /\ RootsKept' /\ EventsFollowTheStarter' /\ NamedAgentsStayHidden'
      /\ TurnsOfPromptsAreHidden'
  BY <1>a DEF RootsKept, EventsFollowTheStarter, NamedAgentsStayHidden, TurnsOfPromptsAreHidden
<1>8. PromptsInStep'
  <2>1. ASSUME NEW p \in Prompts, thread'[p] \in {"busy", "archiving"} PROVE p \in hiddenUi
    <3>1. p \in Threads
      BY CallFacts
    <3>2. CASE thread[p] \in {"busy", "archiving"}
      BY <3>2 DEF PromptsInStep
    <3>3. CASE p = Of(c) /\ Method(c) \in {"turn", "archive"}
      <4>1. c = Turn(p) \/ c = <<p, "archive">>
        BY <3>3, CallFacts DEF Turn
      <4> QED BY <1>w, <4>1 DEF PromptsInStep
    <3> QED BY <1>t, <2>1, <3>1, <3>2, <3>3
  <2> QED BY <1>a, <2>1 DEF PromptsInStep
<1> QED BY <1>1, <1>2, <1>3, <1>4, <1>5, <1>6, <1>7, <1>8

LEMMA ChildDiesKeeps ==
  ASSUME InductiveInvariant, child_dies
  PROVE  InductiveInvariant'
<1> USE DEF InductiveInvariant, child_dies, callVars, sessVars, promptVars, uiVars, wsVars
<1>1. TypeOK'
  BY DEF TypeOK
<1>2. IdsIdentify' /\ NothingLeftBehind'
  BY DEF IdsIdentify, NothingLeftBehind
<1>3. AnsweredOnce'
  BY DEF AnsweredOnce, Entry
<1>4. PromptsInStep'
  BY DEF PromptsInStep
<1>5. Quiet
  <2>1. /\ UNCHANGED <<out, thread, inbox, hidden, named, exposed, astray, fine, effects,
                       hiddenUi, id, st, threadWs, roots, left>>
        /\ got' = {}
    OBVIOUS
  <2>2. threadWs' \in [Threads -> Workspaces \cup {None}] /\ RootsKept'
    BY <1>1, <2>1 DEF TypeOK, RootsKept
  <2>3. \A d \in Calls : Unwritten(d)' = Unwritten(d)
    BY <2>1 DEF Unwritten
  <2> QED BY <2>1, <2>2, <2>3 DEF Quiet
<1> QED BY <1>1, <1>2, <1>3, <1>4, <1>5, QuietKeeps

-----------------------------------------------------------------------------
(* The pipe *)

(* A line written comes after all the others. *)
LEMMA AppendIndex ==
  ASSUME NEW S, NEW s \in Seq(S), NEW e \in S
  PROVE  /\ Append(s, e) \in Seq(S) /\ Len(Append(s, e)) = Len(s) + 1 /\ Len(s) \in Nat
         /\ \A i \in DOMAIN s : i \in Nat /\ i \in DOMAIN Append(s, e) /\ Append(s, e)[i] = s[i]
                                /\ s[i] \in S
         /\ \A i \in DOMAIN Append(s, e) :
              i \in DOMAIN s \/ (Append(s, e)[i] = e /\ \A j \in DOMAIN s : j < i)
         /\ \A i, j \in DOMAIN Append(s, e) : i < j => i \in DOMAIN s
<1>1. /\ Append(s, e) \in Seq(S) /\ Len(Append(s, e)) = Len(s) + 1
      /\ \A i \in 1 .. Len(s) : Append(s, e)[i] = s[i]
      /\ Append(s, e)[Len(s) + 1] = e
  BY AppendProperties
<1>2. Len(s) \in Nat /\ DOMAIN s = 1 .. Len(s) /\ s \in [1 .. Len(s) -> S]
  BY LenProperties
<1>3. DOMAIN Append(s, e) = 1 .. Len(s) + 1
  BY <1>1, LenProperties
<1> QED BY <1>1, <1>2, <1>3

(* A line read was the first, and the others move up. *)
LEMMA TailIndex ==
  ASSUME NEW S, NEW s \in Seq(S), s # <<>>
  PROVE  /\ Tail(s) \in Seq(S) /\ Len(Tail(s)) <= Len(s) /\ Len(s) \in Nat /\ Len(Tail(s)) \in Nat
         /\ Head(s) = s[1] /\ Head(s) \in S /\ 1 \in DOMAIN s
         /\ \A i \in DOMAIN Tail(s) :
              /\ i \in Nat /\ i + 1 \in DOMAIN s /\ 1 < i + 1
              /\ Tail(s)[i] = s[i + 1] /\ Tail(s)[i] \in S
         /\ \A i \in DOMAIN s : s[i] = Head(s) \/ \E j \in DOMAIN Tail(s) : Tail(s)[j] = s[i]
<1>1. /\ Head(s) \in S /\ Tail(s) \in Seq(S) /\ Len(Tail(s)) = Len(s) - 1
      /\ \A i \in 1 .. Len(Tail(s)) : Tail(s)[i] = s[i + 1]
  BY HeadTailProperties
<1>2. Len(s) \in Nat \ {0} /\ DOMAIN s = 1 .. Len(s) /\ s \in [1 .. Len(s) -> S]
  BY LenProperties, EmptySeq
<1>3. DOMAIN Tail(s) = 1 .. Len(s) - 1
  BY <1>1, LenProperties
<1>4. 1 \in DOMAIN s /\ Head(s) = s[1]
  BY <1>2
<1>5. \A i \in DOMAIN Tail(s) :
        /\ i \in Nat /\ i + 1 \in DOMAIN s /\ 1 < i + 1
        /\ Tail(s)[i] = s[i + 1] /\ Tail(s)[i] \in S
  BY <1>1, <1>2, <1>3
<1>6. ASSUME NEW i \in DOMAIN s, i # 1
      PROVE  \E j \in DOMAIN Tail(s) : Tail(s)[j] = s[i]
  <2>1. i - 1 \in DOMAIN Tail(s) /\ i - 1 + 1 = i
    BY <1>2, <1>3, <1>6
  <2> QED BY <1>5, <2>1
<1> QED BY <1>1, <1>2, <1>3, <1>4, <1>5, <1>6

(* Reading a line keeps the order if the others stay true. *)
LEMMA PopKeepsLines ==
  ASSUME TypeOK, LinesInOrder, out # <<>>, out' = Tail(out),
         \A m \in Line : LineTrue(m) /\ Follows(Head(out), m) => LineTrue(m)'
  PROVE  LinesInOrder'
<1>1. out \in Seq(Line)
  BY DEF TypeOK
<1>2. /\ Head(out) = out[1] /\ 1 \in DOMAIN out
      /\ \A i \in DOMAIN out' : /\ i \in Nat /\ i + 1 \in DOMAIN out /\ 1 < i + 1
                                /\ out'[i] = out[i + 1] /\ out'[i] \in Line
  BY <1>1, TailIndex
<1>3. ASSUME NEW i \in DOMAIN out' PROVE LineTrue(out[i])'
  <2>1. PICK m : m = out[i + 1]
    OBVIOUS
  <2>2. m = out'[i] /\ m \in Line /\ LineTrue(m) /\ Follows(Head(out), m)
    BY <1>2, <2>1 DEF LinesInOrder
  <2>3. LineTrue(m)'
    BY <2>2
  <2> QED BY <2>2, <2>3
<1>4. ASSUME NEW i \in DOMAIN out', NEW j \in DOMAIN out', i < j PROVE Follows(out'[i], out'[j])
  BY <1>2, <1>4 DEF LinesInOrder
<1> QED BY <1>3, <1>4 DEF LinesInOrder

(* So does writing a line, with or without another behind it. *)
Writes(a, n) ==
    /\ a \in Line /\ n \in Line
    /\ out' = Append(out, a) \/ out' = Append(Append(out, a), n)

LEMMA PushedLines ==
  ASSUME TypeOK, NEW a, NEW n, Writes(a, n)
  PROVE  /\ out' \in Seq(Line) /\ Len(out') <= Len(out) + 2 /\ Len(out) \in Nat
         /\ out' = Append(out, a) => Len(out') = Len(out) + 1
         /\ \A i \in DOMAIN out : i \in DOMAIN out' /\ out'[i] = out[i] /\ out[i] \in Line
         /\ \A i \in DOMAIN out' : i \in DOMAIN out \/ out'[i] = a \/ out'[i] = n
         /\ \A i, j \in DOMAIN out' :
              i < j => \/ i \in DOMAIN out /\ j \in DOMAIN out
                       \/ i \in DOMAIN out /\ out'[j] = a
                       \/ (i \in DOMAIN out \/ out'[i] = a) /\ out'[j] = n
<1>1. out \in Seq(Line)
  BY DEF TypeOK
<1> DEFINE s == Append(out, a)
<1>2. /\ s \in Seq(Line) /\ Len(s) = Len(out) + 1 /\ Len(out) \in Nat
      /\ \A i \in DOMAIN out : i \in Nat /\ i \in DOMAIN s /\ s[i] = out[i] /\ out[i] \in Line
      /\ \A i \in DOMAIN s : i \in DOMAIN out \/ (s[i] = a /\ \A j \in DOMAIN out : j < i)
      /\ \A i, j \in DOMAIN s : i < j => i \in DOMAIN out
  BY <1>1, AppendIndex DEF Writes
<1>3. CASE out' = s
  BY <1>2, <1>3
<1>4. CASE out' = Append(s, n)
  <2>1. /\ out' \in Seq(Line) /\ Len(out') = Len(s) + 1 /\ Len(s) \in Nat
        /\ \A i \in DOMAIN s : i \in Nat /\ i \in DOMAIN out' /\ out'[i] = s[i] /\ s[i] \in Line
        /\ \A i \in DOMAIN out' : i \in DOMAIN s \/ (out'[i] = n /\ \A j \in DOMAIN s : j < i)
        /\ \A i, j \in DOMAIN out' : i < j => i \in DOMAIN s
    <3> HIDE DEF s
    <3>1. n \in Line
      BY DEF Writes
    <3> QED BY <1>2, <1>4, <3>1, AppendIndex
  <2>2. out' # s
    BY <1>2, <2>1
  <2> HIDE DEF s
  <2> QED BY <1>2, <2>1, <2>2 DEF s
<1> QED BY <1>3, <1>4 DEF Writes

LEMMA PushKeepsLines ==
  ASSUME TypeOK, LinesInOrder, NEW a, NEW n, Writes(a, n), LineTrue(a)', LineTrue(n)',
         Follows(a, n),
         \A m \in Line : LineTrue(m) => LineTrue(m)' /\ Follows(m, a) /\ Follows(m, n)
  PROVE  LinesInOrder'
<1>1. /\ \A i \in DOMAIN out : i \in DOMAIN out' /\ out'[i] = out[i] /\ out[i] \in Line
      /\ \A i \in DOMAIN out' : i \in DOMAIN out \/ out'[i] = a \/ out'[i] = n
      /\ \A i, j \in DOMAIN out' :
              i < j => \/ i \in DOMAIN out /\ j \in DOMAIN out
                       \/ i \in DOMAIN out /\ out'[j] = a
                       \/ (i \in DOMAIN out \/ out'[i] = a) /\ out'[j] = n
  BY PushedLines
<1>2. ASSUME NEW m, m \in Line, LineTrue(m) PROVE LineTrue(m)' /\ Follows(m, a) /\ Follows(m, n)
  BY <1>2
<1>3. ASSUME NEW i \in DOMAIN out' PROVE LineTrue(out[i])'
  <2>1. PICK m : m = out'[i]
    OBVIOUS
  <2>2. CASE i \in DOMAIN out
    <3>1. m \in Line /\ LineTrue(m)
      BY <1>1, <2>1, <2>2 DEF LinesInOrder
    <3>2. LineTrue(m)'
      BY <3>1
    <3> QED BY <2>1, <3>2
  <2>3. CASE out'[i] = a
    BY <2>3
  <2>4. CASE out'[i] = n
    BY <2>4
  <2> QED BY <1>1, <2>2, <2>3, <2>4
<1>4. ASSUME NEW i \in DOMAIN out', NEW j \in DOMAIN out', i < j
      PROVE  Follows(out'[i], out'[j])
  <2>1. CASE i \in DOMAIN out /\ j \in DOMAIN out
    BY <1>1, <1>4, <2>1 DEF LinesInOrder
  <2>2. CASE i \in DOMAIN out /\ (out'[j] = a \/ out'[j] = n)
    <3>1. out'[i] \in Line /\ LineTrue(out[i]) /\ out'[i] = out[i]
      BY <1>1, <2>2 DEF LinesInOrder
    <3> QED BY <1>2, <2>2, <3>1
  <2>3. CASE out'[i] = a /\ out'[j] = n
    BY <2>3
  <2> QED BY <1>1, <1>4, <2>1, <2>2, <2>3
<1> QED BY <1>3, <1>4 DEF LinesInOrder

-----------------------------------------------------------------------------
(* What the child writes *)

(* What child_answers does, with names for the answer and for what it       *)
(* announces behind it.                                                     *)
Answers(c, a, n) ==
    /\ Room /\ c \in got /\ effects[c] = 1
    /\ got' = got \ {c}
    /\ a.type = "answer" /\ a.call = c /\ a.id = id[c] /\ (a.list # {} => Method(c) = "list")
    /\ \/ n.type = "account"
       \/ n.type = "started" /\ n.call = Of(c) /\ Starts(c)
       \/ n.type = "archived" /\ n.call = Of(c) /\ Method(c) = "archive" /\ c \in fine
    /\ Writes(a, n)
    /\ thread' = IF Method(c) = "archive" /\ c \in fine
                 THEN [thread EXCEPT ![Of(c)] = "gone"] ELSE thread
    /\ UNCHANGED <<load, callVars, sessVars, promptVars, child, fine, effects, uiVars>>

LEMMA ChildAnswersWrites ==
  ASSUME TypeOK, NEW c \in Calls, child_answers(c)
  PROVE  \E a, n : Answers(c, a, n)
<1>1. PICK l \in SUBSET Threads :
         /\ l # {} => Method(c) = "list"
         /\ out' = IF Announced(c) THEN Append(Append(out, Answer(c, c \in fine, l)), Announcement(c))
                   ELSE Append(out, Answer(c, c \in fine, l))
  <2>1. Listed \subseteq Threads
    BY DEF Listed
  <2>2. PICK l \in SUBSET Listed :
         /\ (Method(c) # "list" \/ c \notin fine) => l = {}
         /\ out' = IF Announced(c) THEN Append(Append(out, Answer(c, c \in fine, l)), Announcement(c))
                   ELSE Append(out, Answer(c, c \in fine, l))
    BY DEF child_answers
  <2> QED BY <2>1, <2>2
<1>2. PICK a : a = Answer(c, c \in fine, l)
  OBVIOUS
<1>3. a \in Line /\ a.type = "answer" /\ a.call = c /\ a.id = id[c] /\ a.list = l
  <2>1. (c \in fine) \in BOOLEAN
    OBVIOUS
  <2> QED BY <1>2, <2>1 DEF Answer, Line, TypeOK
<1>4. PICK n \in Line :
         /\ out' = Append(out, a) \/ out' = Append(Append(out, a), n)
         /\ \/ n.type = "account"
            \/ n.type = "started" /\ n.call = Of(c) /\ Starts(c)
            \/ n.type = "archived" /\ n.call = Of(c) /\ Method(c) = "archive" /\ c \in fine
  <2>1. \A t \in Calls \cup Threads, what \in {"account", "started", "archived"} :
           /\ Notify(what, t) \in Line /\ Notify(what, t).type = what /\ Notify(what, t).call = t
    BY DEF Notify, Line, Notes
  <2>2. CASE ~Announced(c)
    <3>1. out' = Append(out, a)
      BY <1>1, <1>2, <2>2
    <3> QED BY <2>1, <3>1
  <2>3. CASE Announced(c)
    <3>1. out' = Append(Append(out, a), Announcement(c))
      BY <1>1, <1>2, <2>3
    <3>2. CASE Method(c) = "start"
      <4>1. Announcement(c) = Notify("started", Of(c)) /\ Of(c) \in Threads /\ Starts(c)
        BY <3>2, CallFacts DEF Announcement, Starts
      <4> QED BY <2>1, <3>1, <4>1
    <3>3. CASE Method(c) = "archive"
      <4>1. Announcement(c) = Notify("archived", Of(c)) /\ Of(c) \in Threads /\ c \in fine
        BY <2>3, <3>3, CallFacts DEF Announcement, Announced
      <4> QED BY <2>1, <3>1, <3>3, <4>1
    <3>4. CASE Method(c) = "login"
      <4>1. Announcement(c) = Notify("account", c)
        BY <3>4 DEF Announcement
      <4> QED BY <2>1, <3>1, <4>1
    <3> QED BY <2>3, <3>2, <3>3, <3>4 DEF Announced
  <2> QED BY <2>2, <2>3
<1>5. Writes(a, n)
  BY <1>3, <1>4 DEF Writes
<1>6. Answers(c, a, n)
  BY <1>1, <1>3, <1>4, <1>5 DEF Answers, child_answers
<1> QED BY <1>6

LEMMA ChildAnswersKeeps ==
  ASSUME InductiveInvariant, NEW c \in Calls, child_answers(c)
  PROVE  InductiveInvariant'
<1> USE DEF InductiveInvariant
<1>0. PICK a, n : Answers(c, a, n)
  BY ChildAnswersWrites
<1>a. /\ UNCHANGED <<load, st, id, inbox, res, nextId, pending, context, threadWs, hidden,
                     callbacks, ids, roots, left, reader, step, events, child, fine, effects,
                     shown, hiddenUi, named, exposed, astray>>
      /\ Room /\ got' = got \ {c} /\ c \in got /\ effects[c] = 1 /\ Writes(a, n)
      /\ a.type = "answer" /\ a.call = c /\ a.id = id[c] /\ (a.list # {} => Method(c) = "list")
      /\ a \in Line /\ n \in Line
  BY <1>0 DEF Answers, Writes, callVars, sessVars, wsVars, promptVars, uiVars
<1>n. \/ n.type = "account"
      \/ n.type = "started" /\ n.call = Of(c) /\ Starts(c)
      \/ n.type = "archived" /\ n.call = Of(c) /\ Method(c) = "archive" /\ c \in fine
  BY <1>0 DEF Answers
<1>o. n.type \in Notes => n.call = Of(c) /\ Of(c) \in Threads /\ thread[Of(c)] # "gone"
  BY <1>a, <1>n, CallFacts DEF Notes, ExecutedFirst
<1>t. /\ thread' \in [Threads -> {"none", "made", "idle", "busy", "ran", "archiving", "gone"}]
      /\ \A t \in Threads :
           \/ thread'[t] = thread[t]
           \/ /\ Method(c) = "archive" /\ t = Of(c)
              /\ thread[t] = "archiving" /\ thread'[t] = "gone"
      /\ (Method(c) = "archive" /\ c \in fine) => thread'[Of(c)] = "gone"
  <2>1. thread \in [Threads -> {"none", "made", "idle", "busy", "ran", "archiving", "gone"}]
    BY DEF TypeOK
  <2>2. CASE Method(c) = "archive" /\ c \in fine
    <3>1. thread' = [thread EXCEPT ![Of(c)] = "gone"] /\ Of(c) \in Threads
      BY <1>0, <2>2, CallFacts DEF Answers
    <3>2. thread[Of(c)] = "archiving"
      BY <1>a, <2>2 DEF ExecutedFirst
    <3> QED BY <2>1, <2>2, <3>1, <3>2
  <2>3. CASE ~(Method(c) = "archive" /\ c \in fine)
    <3>1. thread' = thread
      BY <1>0, <2>3 DEF Answers
    <3> QED BY <2>1, <2>3, <3>1
  <2> QED BY <2>2, <2>3
<1>g. \A t \in Threads : thread[t] = "gone" => thread'[t] = "gone"
  BY <1>t
<1>p. /\ out' \in Seq(Line) /\ Len(out') <= OutCap + 1
      /\ \A i \in DOMAIN out : i \in DOMAIN out' /\ out'[i] = out[i]
      /\ \A i \in DOMAIN out' : i \in DOMAIN out \/ out'[i] = a \/ out'[i] = n
  <2>1. Len(out) < OutCap
    BY <1>a DEF Room
  <2> QED BY <1>a, <2>1, PushedLines, ConstantsAssumption
<1>c. st[c] \in {"wait", "done"} /\ inbox[c] \notin {"answer", "error"} /\ ~Unwritten(c)
  BY <1>a DEF AnsweredOnce, Unwritten
<1>s. \A t \in Threads : Silent(t) /\ thread[t] = "gone" => Silent(t)'
  <2> SUFFICES ASSUME NEW t \in Threads, Silent(t), thread[t] = "gone",
                      NEW i \in DOMAIN out', out'[i].type \in Notes
               PROVE  out'[i].call # t
    BY DEF Silent
  <2>1. a.type \notin Notes
    BY <1>a DEF Notes
  <2> QED BY <1>p, <1>o, <2>1 DEF Silent
<1>1. TypeOK'
  BY <1>a, <1>t, <1>p DEF TypeOK
<1>2. IdsIdentify' /\ NothingLeftBehind'
  BY <1>a DEF IdsIdentify, NothingLeftBehind
<1>3. AnsweredOnce'
  BY <1>a DEF AnsweredOnce, Entry
<1>4. LinesInOrder'
  <2>1. LineTrue(a)'
    BY <1>a, <1>c DEF LineTrue, Notes
  <2>2. LineTrue(n)' /\ Follows(a, n)
    BY <1>a, <1>n, <1>o, <1>t DEF LineTrue, Follows, Notes
  <2>3. ASSUME NEW m \in Line, LineTrue(m)
        PROVE  LineTrue(m)' /\ Follows(m, a) /\ Follows(m, n)
    <3>1. LineTrue(m)'
      BY <1>a, <1>g, <2>3 DEF LineTrue
    <3>2. Follows(m, a)
      BY <1>a, <2>3 DEF LineTrue, Follows, Notes
    <3>3. m.type = "archived" => thread[m.call] = "gone"
      BY <2>3 DEF LineTrue, Notes
    <3>4. n.type # "answer"
      BY <1>n
    <3> QED BY <1>o, <3>1, <3>2, <3>3, <3>4 DEF Follows
  <2> QED BY <1>a, <2>1, <2>2, <2>3, PushKeepsLines
<1>5. ExecutedFirst'
  <2> SUFFICES ASSUME NEW d \in Calls
               PROVE  /\ (Starts(d) /\ (Unwritten(d) \/ d \in got'))
                            => thread'[Of(d)] \notin {"archiving", "gone"}
                      /\ (Method(d) = "archive" /\ d \in got' \cap fine)
                            => thread'[Of(d)] = "archiving"
    BY <1>a DEF ExecutedFirst, Unwritten
  <2>1. ASSUME Starts(d), Unwritten(d) \/ d \in got'
        PROVE  thread'[Of(d)] \notin {"archiving", "gone"}
    <3>1. thread[Of(d)] \notin {"archiving", "gone"} /\ Of(d) \in Threads
      BY <1>a, <2>1, CallFacts DEF ExecutedFirst
    <3> QED BY <1>t, <3>1
  <2>2. ASSUME Method(d) = "archive", d \in got' \cap fine PROVE thread'[Of(d)] = "archiving"
    <3>1. thread[Of(d)] = "archiving" /\ Of(d) \in Threads /\ d # c
      BY <1>a, <2>2, CallFacts DEF ExecutedFirst
    <3>2. ~(Method(c) = "archive" /\ Of(d) = Of(c))
      BY <2>2, <3>1, CallFacts
    <3> QED BY <1>t, <3>1, <3>2
  <2> QED BY <2>1, <2>2
<1>6. StarterMapped' /\ NamedHidden'
  <2>1. named \subseteq Threads /\ \A d \in Calls : Starts(d) => Of(d) \in Threads
    BY CallFacts DEF TypeOK
  <2>2. StarterMapped'
    BY <1>a, <1>g, <1>s, <2>1 DEF StarterMapped
  <2>3. NamedHidden'
    BY <1>a, <1>g, <1>s, <2>1 DEF NamedHidden
  <2> QED BY <2>2, <2>3
<1>7. /\ RootsKept' /\ EventsFollowTheStarter' /\ NamedAgentsStayHidden'
      /\ TurnsOfPromptsAreHidden'
  BY <1>a DEF RootsKept, EventsFollowTheStarter, NamedAgentsStayHidden, TurnsOfPromptsAreHidden
<1>8. PromptsInStep'
  <2>1. \A p \in Prompts : p \in Threads /\ (thread'[p] \in {"busy", "archiving"}
                                               => thread[p] \in {"busy", "archiving"})
    BY <1>t, CallFacts
  <2> QED BY <1>a, <2>1 DEF PromptsInStep
<1> QED BY <1>1, <1>2, <1>3, <1>4, <1>5, <1>6, <1>7, <1>8

(* What all reports of the child have in common. *)
LEMMA ReportFacts ==
  ASSUME NEW t \in Threads, ChildReports(t)
  PROVE  \E what \in Notes, s \in {"idle", "busy", "ran", "archiving", "gone"} :
           /\ Reports(t, what, s)
           /\ thread[t] # "gone" /\ (s = "archiving") = (thread[t] = "archiving")
           /\ what = "archived" => s = "gone"
           /\ s \in {"busy", "gone"} => t \in Memory
           /\ (what = "turn" /\ t \in Prompts) => thread[t] \in {"busy", "archiving"}
<1> USE DEF Notes
<1>1. CASE child_notes(t)
  BY <1>1 DEF child_notes
<1>2. CASE child_runs_turn(t)
  BY <1>2, DistinctAssumption DEF child_runs_turn
<1>3. CASE child_spawns_agent(t)
  BY <1>3 DEF child_spawns_agent
<1>4. CASE child_announces_agent(t)
  BY <1>4 DEF child_announces_agent
<1>5. CASE child_archives_agent(t)
  BY <1>5 DEF child_archives_agent
<1>6. CASE child_shuts_down(t)
  BY <1>6 DEF child_shuts_down
<1> QED BY <1>1, <1>2, <1>3, <1>4, <1>5, <1>6 DEF ChildReports

LEMMA ChildReportsKeeps ==
  ASSUME InductiveInvariant, NEW t \in Threads, ChildReports(t)
  PROVE  InductiveInvariant'
<1> USE DEF InductiveInvariant
<1>0. PICK what \in Notes, s \in {"idle", "busy", "ran", "archiving", "gone"} :
           /\ Reports(t, what, s)
           /\ thread[t] # "gone" /\ (s = "archiving") = (thread[t] = "archiving")
           /\ what = "archived" => s = "gone"
           /\ s \in {"busy", "gone"} => t \in Memory
           /\ (what = "turn" /\ t \in Prompts) => thread[t] \in {"busy", "archiving"}
  BY ReportFacts
<1>b. PICK a : a = Notify(what, t)
  OBVIOUS
<1>a. /\ UNCHANGED <<load, st, id, inbox, res, nextId, pending, context, threadWs, hidden,
                     callbacks, ids, roots, left, reader, step, events, child, got, fine,
                     effects, shown, hiddenUi, named, exposed, astray>>
      /\ Room /\ out' = Append(out, a) /\ thread' = [thread EXCEPT ![t] = s]
  BY <1>0, <1>b DEF Reports, callVars, sessVars, wsVars, promptVars, uiVars
<1>n. a \in Line /\ a.type = what /\ a.call = t
  BY <1>b DEF Notify, Line, Notes
<1>t. /\ thread' \in [Threads -> {"none", "made", "idle", "busy", "ran", "archiving", "gone"}]
      /\ \A u \in Threads \ {t} : thread'[u] = thread[u]
      /\ thread'[t] = s
  <2>1. thread \in [Threads -> {"none", "made", "idle", "busy", "ran", "archiving", "gone"}]
    BY DEF TypeOK
  <2> QED BY <1>a, <2>1
<1>g. \A u \in Threads : thread[u] = "gone" => thread'[u] = "gone" /\ u # t
  BY <1>0, <1>t
<1>w. PICK n \in Line : n.type = "account"
  <2>1. Notify("account", t) \in Line /\ Notify("account", t).type = "account"
    BY DEF Notify, Line
  <2> QED BY <2>1
<1>x. Writes(a, n)
  BY <1>a, <1>n, <1>w DEF Writes
<1>p. /\ out' \in Seq(Line) /\ Len(out') <= OutCap + 1
      /\ \A i \in DOMAIN out : i \in DOMAIN out' /\ out'[i] = out[i]
      /\ \A i \in DOMAIN out' : i \in DOMAIN out \/ out'[i] = a
  <2>1. out \in Seq(Line) /\ Len(out) < OutCap
    BY <1>a DEF TypeOK, Room
  <2>2. /\ out' \in Seq(Line) /\ Len(out') = Len(out) + 1 /\ Len(out) \in Nat
        /\ \A i \in DOMAIN out : i \in DOMAIN out' /\ out'[i] = out[i]
        /\ \A i \in DOMAIN out' : i \in DOMAIN out \/ out'[i] = a
    BY <1>a, <1>n, <2>1, AppendIndex
  <2> QED BY <2>1, <2>2, ConstantsAssumption
<1>s. \A u \in Threads : Silent(u) /\ thread[u] = "gone" => Silent(u)'
  BY <1>p, <1>n, <1>g DEF Silent
<1>1. TypeOK'
  BY <1>a, <1>t, <1>p DEF TypeOK
<1>2. IdsIdentify' /\ NothingLeftBehind'
  BY <1>a DEF IdsIdentify, NothingLeftBehind
<1>3. AnsweredOnce'
  BY <1>a DEF AnsweredOnce, Entry
<1>4. LinesInOrder'
  <2>1. LineTrue(a)'
    <3>1. (what = "turn" /\ t \in Prompts) => t \in hiddenUi
      BY <1>0 DEF PromptsInStep
    <3> QED BY <1>0, <1>a, <1>n, <1>t, <3>1 DEF LineTrue, Notes
  <2>2. LineTrue(n)' /\ Follows(a, n)
    BY <1>w DEF LineTrue, Follows, Notes
  <2>3. ASSUME NEW m \in Line, LineTrue(m)
        PROVE  LineTrue(m)' /\ Follows(m, a) /\ Follows(m, n)
    <3>1. LineTrue(m)'
      BY <1>a, <1>g, <2>3 DEF LineTrue
    <3>2. m.type = "archived" => m.call \in Threads /\ thread[m.call] = "gone"
      BY <2>3 DEF LineTrue, Notes
    <3>3. Follows(m, a)
      BY <1>0, <1>n, <1>g, <3>2 DEF Follows, Notes
    <3>4. Follows(m, n)
      BY <1>w DEF Follows, Notes
    <3> QED BY <3>1, <3>3, <3>4
  <2> QED BY <1>x, <2>1, <2>2, <2>3, PushKeepsLines
<1>5. ExecutedFirst'
  <2> SUFFICES ASSUME NEW d \in Calls
               PROVE  /\ (Starts(d) /\ (Unwritten(d) \/ d \in got))
                            => thread'[Of(d)] \notin {"archiving", "gone"}
                      /\ (Method(d) = "archive" /\ d \in got \cap fine)
                            => thread'[Of(d)] = "archiving"
    BY <1>a DEF ExecutedFirst, Unwritten
  <2>1. ASSUME Starts(d), Unwritten(d) \/ d \in got
        PROVE  thread'[Of(d)] \notin {"archiving", "gone"}
    <3>1. thread[Of(d)] \notin {"archiving", "gone"} /\ Of(d) \in Threads /\ Of(d) \notin Memory
      BY <2>1, CallFacts DEF ExecutedFirst
    <3> QED BY <1>0, <1>t, <3>1
  <2>2. ASSUME Method(d) = "archive", d \in got \cap fine PROVE thread'[Of(d)] = "archiving"
    <3>1. thread[Of(d)] = "archiving" /\ Of(d) \in Threads
      BY <2>2, CallFacts DEF ExecutedFirst
    <3> QED BY <1>0, <1>t, <3>1
  <2> QED BY <2>1, <2>2
<1>6. StarterMapped' /\ NamedHidden'
  <2>1. named \subseteq Threads /\ \A d \in Calls : Starts(d) => Of(d) \in Threads
    BY CallFacts DEF TypeOK
  <2>2. StarterMapped'
    BY <1>a, <1>g, <1>s, <2>1 DEF StarterMapped
  <2>3. NamedHidden'
    BY <1>a, <1>g, <1>s, <2>1 DEF NamedHidden
  <2> QED BY <2>2, <2>3
<1>7. /\ RootsKept' /\ EventsFollowTheStarter' /\ NamedAgentsStayHidden'
      /\ TurnsOfPromptsAreHidden'
  BY <1>a DEF RootsKept, EventsFollowTheStarter, NamedAgentsStayHidden, TurnsOfPromptsAreHidden
<1>8. PromptsInStep'
  <2>1. \A p \in Prompts : p \in Threads /\ p \notin Memory
    BY CallFacts
  <2>2. \A p \in Prompts : thread'[p] \in {"busy", "archiving"} => thread[p] \in {"busy", "archiving"}
    BY <1>0, <1>t, <2>1
  <2> QED BY <1>a, <2>2 DEF PromptsInStep
<1> QED BY <1>1, <1>2, <1>3, <1>4, <1>5, <1>6, <1>7, <1>8

-----------------------------------------------------------------------------
(* What the reader does with a line *)

(* What is known of the line it takes. *)
LEMMA HeadLine ==
  ASSUME TypeOK, LinesInOrder, out # <<>>, out' = Tail(out)
  PROVE  /\ out' \in Seq(Line) /\ Len(out') <= OutCap + 1
         /\ Head(out) \in Line /\ LineTrue(Head(out))
         /\ \E i \in DOMAIN out : out[i] = Head(out)
         /\ \A i \in DOMAIN out' : /\ \E j \in DOMAIN out : out[j] = out'[i]
                                   /\ Follows(Head(out), out'[i])
         /\ \A i \in DOMAIN out : out[i] = Head(out) \/ \E j \in DOMAIN out' : out'[j] = out[i]
<1>1. out \in Seq(Line) /\ Len(out) <= OutCap + 1 /\ OutCap \in Nat
  BY ConstantsAssumption DEF TypeOK
<1>2. /\ out' \in Seq(Line) /\ Len(out') <= Len(out) /\ Len(out) \in Nat /\ Len(out') \in Nat
      /\ Head(out) = out[1] /\ Head(out) \in Line /\ 1 \in DOMAIN out
      /\ \A i \in DOMAIN out' : i \in Nat /\ i + 1 \in DOMAIN out /\ 1 < i + 1 /\ out'[i] = out[i + 1]
      /\ \A i \in DOMAIN out : out[i] = Head(out) \/ \E j \in DOMAIN out' : out'[j] = out[i]
  BY <1>1, TailIndex
<1>3. LineTrue(Head(out))
  BY <1>2 DEF LinesInOrder
<1>4. ASSUME NEW i \in DOMAIN out'
      PROVE  (\E j \in DOMAIN out : out[j] = out'[i]) /\ Follows(Head(out), out'[i])
  BY <1>2 DEF LinesInOrder
<1>5. Len(out') <= OutCap + 1
  BY <1>1, <1>2
<1> QED BY <1>2, <1>3, <1>4, <1>5

(* Nothing more comes of a thread of which nothing came, nor of one whose   *)
(* archival was just read.                                                  *)
LEMMA PopKeepsSilence ==
  ASSUME TypeOK, LinesInOrder, out # <<>>, out' = Tail(out), NEW t, Silent(t)
  PROVE  Silent(t)'
  BY HeadLine DEF Silent

(* An answer is for the one request that has its id, which still has its    *)
(* context if it waits.                                                     *)
LEMMA AnswerIsForOne ==
  ASSUME InductiveInvariant, NEW m \in Line, m.type = "answer", LineTrue(m), reader = "on"
  PROVE  /\ \A x \in Calls : <<m.id, x>> \in pending => x = m.call
         /\ \A x \in Calls : <<m.id, x>> \in context => x = m.call
         /\ m.call \in Calls /\ Entry(m.call) = <<m.id, m.call>>
         /\ (\E x \in pending : x[1] = m.id) => Entry(m.call) \in pending
         /\ (Entry(m.call) \in pending /\ Method(m.call) # "login") =>
               st[m.call] = "wait" /\ Entry(m.call) \in context
<1> USE DEF InductiveInvariant
<1>1. /\ m.call \in Calls /\ m.id = id[m.call] /\ st[m.call] \in {"wait", "done"}
  BY DEF LineTrue
<1>2. \A x \in Calls : <<m.id, x>> \in pending \cup context => id[x] = m.id /\ st[x] # "unsent"
  BY DEF IdsIdentify
<1>3. \A x \in Calls : <<m.id, x>> \in pending \cup context => x = m.call
  BY <1>1, <1>2 DEF IdsIdentify
<1>4. ASSUME Entry(m.call) \in pending, Method(m.call) # "login"
      PROVE  st[m.call] = "wait" /\ Entry(m.call) \in context
  <2>1. st[m.call] # "done"
    BY <1>1, <1>4 DEF NothingLeftBehind, Entry
  <2> QED BY <1>1, <1>4, <2>1 DEF AnsweredOnce
<1>5. ASSUME NEW x \in pending, x[1] = m.id PROVE Entry(m.call) \in pending
  <2>1. x \in Nat \X Calls
    BY DEF TypeOK
  <2>2. x = <<m.id, x[2]>> /\ x[2] \in Calls
    BY <1>5, <2>1
  <2>3. x[2] = m.call
    BY <1>3, <2>2
  <2> QED BY <1>1, <2>2, <2>3 DEF Entry
<1> QED BY <1>1, <1>3, <1>4, <1>5 DEF Entry

(* reader_answer, with a name for the line. *)
TakesAnswer(m) ==
    /\ reader = "on" /\ out # <<>> /\ m = Head(out) /\ m.type = "answer"
    /\ context' = {x \in context : x[1] # m.id}
    /\ threadWs' = [t \in Threads |-> MapsTo(m, <<m.id, m.call>> \in context, t)]
    /\ hidden' = IF <<m.id, m.call>> \in context THEN hidden \cup (m.list \cap Memory) ELSE hidden
    /\ pending' = {x \in pending : x[1] # m.id}
    /\ named' = IF \E x \in pending : x[1] = m.id THEN named \cup (m.list \cap Memory) ELSE named
    /\ inbox' = [x \in Calls |-> IF <<m.id, x>> \in pending
                                 THEN (IF m.ok THEN "answer" ELSE "error") ELSE inbox[x]]
    /\ out' = Tail(out)
    /\ UNCHANGED <<load, st, id, res, nextId, callbacks, wsVars, reader, promptVars,
                   child, got, fine, thread, effects, shown, hiddenUi, exposed, astray>>

LEMMA ReaderAnswerKeeps ==
  ASSUME InductiveInvariant, reader_answer
  PROVE  InductiveInvariant'
<1> USE DEF InductiveInvariant
<1>0. PICK m : TakesAnswer(m)
  BY DEF reader_answer, TakesAnswer
<1>a. /\ UNCHANGED <<load, st, id, res, nextId, callbacks, ids, roots, left, reader, step, events,
                     child, got, fine, thread, effects, shown, hiddenUi, exposed, astray>>
      /\ reader = "on" /\ out # <<>> /\ out' = Tail(out) /\ m = Head(out) /\ m.type = "answer"
  BY <1>0 DEF TakesAnswer, promptVars, wsVars
<1>h. /\ out' \in Seq(Line) /\ Len(out') <= OutCap + 1
      /\ m \in Line /\ LineTrue(m)
      /\ \A i \in DOMAIN out' : /\ \E j \in DOMAIN out : out[j] = out'[i]
                                /\ Follows(m, out'[i])
  BY <1>a, HeadLine
<1>o. /\ \A x \in Calls : <<m.id, x>> \in pending => x = m.call
      /\ \A x \in Calls : <<m.id, x>> \in context => x = m.call
      /\ m.call \in Calls /\ Entry(m.call) = <<m.id, m.call>>
      /\ (\E x \in pending : x[1] = m.id) => Entry(m.call) \in pending
      /\ (Entry(m.call) \in pending /\ Method(m.call) # "login") =>
               st[m.call] = "wait" /\ Entry(m.call) \in context
  BY <1>a, <1>h, AnswerIsForOne
<1>l. /\ m.id = id[m.call] /\ st[m.call] \in {"wait", "done"} /\ m.call \notin got
      /\ effects[m.call] = 1 /\ inbox[m.call] \notin {"answer", "error"}
      /\ m.list # {} => Method(m.call) = "list"
      /\ m.list \subseteq Threads
  BY <1>a, <1>h DEF LineTrue, Line
<1>i. /\ \A x \in Calls \ {m.call} : inbox'[x] = inbox[x]
      /\ inbox'[m.call] = IF Entry(m.call) \in pending
                          THEN (IF m.ok THEN "answer" ELSE "error") ELSE inbox[m.call]
      /\ inbox' \in [Calls -> {"empty", "answer", "error", "canceled"}]
      /\ inbox \in [Calls -> {"empty", "answer", "error", "canceled"}]
  BY <1>0, <1>o DEF TakesAnswer, TypeOK
<1>m. /\ pending' = {x \in pending : x[1] # m.id}
      /\ context' = {x \in context : x[1] # m.id}
      /\ pending' \subseteq pending /\ context' \subseteq context
      /\ \A c \in Calls : Entry(c)' = Entry(c)
      /\ \A c \in Calls : Entry(c) \in pending' => c # m.call /\ Entry(c) \in pending
      /\ \A c \in Calls : Entry(c) \in context' => c # m.call
      /\ \A c \in Calls : Entry(c) \in pending' /\ Entry(c) \in context => Entry(c) \in context'
  BY <1>0, <1>a, <1>l DEF TakesAnswer, Entry
<1>w. /\ threadWs' \in [Threads -> Workspaces \cup {None}]
      /\ \A t \in Threads \ Memory : WsOf[t] \in roots =>
           threadWs'[t] = threadWs[t] \/ threadWs'[t] = WsOf[t]
      /\ Entry(m.call) \in context /\ m.ok /\ Starts(m.call)
            => threadWs'[Of(m.call)] = Workspace(m.call)
  <2>1. threadWs' = [t \in Threads |-> MapsTo(m, Entry(m.call) \in context, t)]
    BY <1>0, <1>o DEF TakesAnswer
  <2>2. threadWs \in [Threads -> Workspaces \cup {None}]
    BY DEF TypeOK
  <2>3. ASSUME NEW t \in Threads
        PROVE  /\ MapsTo(m, Entry(m.call) \in context, t) \in Workspaces \cup {None}
               /\ t \in Memory \/ WsOf[t] \notin roots
                  \/ MapsTo(m, Entry(m.call) \in context, t) = threadWs[t]
                  \/ MapsTo(m, Entry(m.call) \in context, t) = WsOf[t]
    <3>1. Workspace(m.call) = WsOf[Of(m.call)] /\ Workspace(m.call) \in Workspaces
          /\ Of(m.call) \notin Memory
      BY <1>o, CallFacts
    <3>2. t \notin Memory => /\ WsOf[t] \in Workspaces /\ ListedIn(t) \in Workspaces \cup {None}
                             /\ WsOf[t] \in roots => ListedIn(t) = WsOf[t]
      BY <2>2, CallFacts, RootsMatch DEF ListedIn
    <3> QED BY <2>2, <3>1, <3>2 DEF MapsTo
  <2>4. ASSUME Entry(m.call) \in context, m.ok, Starts(m.call)
        PROVE  threadWs'[Of(m.call)] = Workspace(m.call)
    BY <1>o, <2>1, <2>4, CallFacts DEF MapsTo, Starts
  <2>5. \A t \in Threads : threadWs'[t] = MapsTo(m, Entry(m.call) \in context, t)
    BY <2>1
  <2>6. threadWs' \in [Threads -> Workspaces \cup {None}]
    BY <2>1, <2>3
  <2> HIDE DEF MapsTo
  <2> QED BY <2>3, <2>4, <2>5, <2>6
<1>d. /\ hidden' \subseteq Threads /\ hidden \subseteq hidden' /\ named' \subseteq Memory
      /\ \A t \in named' : t \in named \/ t \in hidden'
  <2>1. ASSUME \E x \in pending : x[1] = m.id, NEW t \in m.list \cap Memory PROVE t \in hidden'
    <3>1. Entry(m.call) \in context
      BY <1>o, <1>l, <2>1
    <3> QED BY <1>0, <1>o, <3>1 DEF TakesAnswer
  <2> QED BY <1>0, <1>l, <2>1 DEF TakesAnswer, TypeOK
<1>1. TypeOK'
  BY <1>a, <1>h, <1>i, <1>m, <1>w, <1>d DEF TypeOK
<1>2. IdsIdentify'
  <2>1. \A x \in pending \cup context : x[2] \in Calls
    BY DEF TypeOK
  <2> QED BY <1>a, <1>m, <2>1 DEF IdsIdentify
<1>3. AnsweredOnce'
  <2>1. ASSUME NEW c \in Calls, inbox'[c] \in {"answer", "error"}
        PROVE  /\ Entry(c) \notin pending' \cup context'
               /\ st[c] \in {"wait", "done"} /\ c \notin got /\ effects[c] = 1
    <3>1. CASE c = m.call
      BY <1>l, <1>m, <3>1
    <3>2. CASE c # m.call
      BY <1>i, <1>m, <2>1, <3>2 DEF AnsweredOnce
    <3> QED BY <3>1, <3>2
  <2>2. ASSUME NEW c \in Calls, inbox'[c] = "canceled" PROVE FALSE
    BY <1>a, <1>i, <2>2 DEF AnsweredOnce
  <2> QED BY <1>a, <1>m, <2>1, <2>2 DEF AnsweredOnce
<1>4. NothingLeftBehind'
  BY <1>a, <1>m DEF NothingLeftBehind, Entry
<1>5. LinesInOrder'
  <2>1. ASSUME NEW x \in Line, LineTrue(x), Follows(Head(out), x) PROVE LineTrue(x)'
    <3>1. x.type = "answer" => x.call # m.call
      BY <1>a, <2>1 DEF Follows
    <3> QED BY <1>a, <1>i, <2>1, <3>1 DEF LineTrue
  <2> QED BY <1>a, <2>1, PopKeepsLines
<1>6. /\ ExecutedFirst' /\ RootsKept' /\ EventsFollowTheStarter'
      /\ NamedAgentsStayHidden' /\ TurnsOfPromptsAreHidden'
  BY <1>a DEF ExecutedFirst, Unwritten, RootsKept, EventsFollowTheStarter,
              NamedAgentsStayHidden, TurnsOfPromptsAreHidden
<1>7. StarterMapped'
  <2> SUFFICES ASSUME NEW c \in Calls, Starts(c), inbox'[c] = "answer", Workspace(c) \notin left
               PROVE  threadWs'[Of(c)] = Workspace(c) \/ (thread[Of(c)] = "gone" /\ Silent(Of(c))')
    BY <1>a DEF StarterMapped
  <2>1. CASE inbox[c] # "answer"
    <3>1. c = m.call /\ Entry(c) \in pending /\ m.ok
      BY <1>i, <2>1
    <3> QED BY <1>o, <1>w, <3>1 DEF Starts
  <2>2. CASE inbox[c] = "answer"
    <3>1. Of(c) \in Threads \ Memory /\ Workspace(c) = WsOf[Of(c)] /\ Workspace(c) \in roots
      BY CallFacts DEF RootsKept
    <3>2. Silent(Of(c)) => Silent(Of(c))'
      BY <1>a, PopKeepsSilence
    <3> QED BY <1>w, <2>2, <3>1, <3>2 DEF StarterMapped
  <2> QED BY <2>1, <2>2
<1>8. NamedHidden'
  BY <1>a, <1>d, PopKeepsSilence DEF NamedHidden
<1>9. PromptsInStep'
  <2>1. ASSUME NEW p \in Prompts, st[StartOf(p)] = "done" \/ inbox[StartOf(p)] = "answer"
        PROVE  inbox'[StartOf(p)] = inbox[StartOf(p)]
    <3>1. StartOf(p) \in Calls /\ Method(StartOf(p)) = "start"
      BY CallFacts DEF StartOf, Steps
    <3>2. Entry(StartOf(p)) \notin pending
      BY <2>1, <3>1 DEF NothingLeftBehind, AnsweredOnce, Entry
    <3> QED BY <1>i, <3>1, <3>2
  <2> QED BY <1>a, <2>1 DEF PromptsInStep
<1> QED BY <1>1, <1>2, <1>3, <1>4, <1>5, <1>6, <1>7, <1>8, <1>9

(* An event that is delivered neither exposes a thread nor goes astray. *)
LEMMA ReaderNotificationKeeps ==
  ASSUME InductiveInvariant, reader_notification
  PROVE  InductiveInvariant'
<1> USE DEF InductiveInvariant
<1>0. PICK m : m = Head(out)
  OBVIOUS
<1>a. /\ UNCHANGED <<load, st, id, inbox, res, nextId, pending, context, callbacks, ids, roots,
                     left, reader, step, child, got, fine, thread, effects>>
      /\ out # <<>> /\ out' = Tail(out) /\ m = Head(out) /\ m.type \in Notes
  BY <1>0 DEF reader_notification, callVars, wsVars
<1>h. /\ out' \in Seq(Line) /\ Len(out') <= OutCap + 1
      /\ m \in Line /\ LineTrue(m)
      /\ \E i \in DOMAIN out : out[i] = m
      /\ \A i \in DOMAIN out' : /\ \E j \in DOMAIN out : out[j] = out'[i]
                                /\ Follows(m, out'[i])
  BY <1>a, HeadLine
<1>l. /\ m.call \in Threads
      /\ m.type = "archived" => thread[m.call] = "gone"
      /\ (m.type = "turn" /\ m.call \in Prompts) => m.call \in hiddenUi
  BY <1>a, <1>h DEF LineTrue
<1>g. m.type = "archived" => Silent(m.call)'
  BY <1>h DEF Silent, Follows
<1>q. ~Silent(m.call) /\ \A t : Silent(t) => Silent(t)'
  BY <1>a, <1>h, PopKeepsSilence DEF Silent
<1>x. m.call \in hidden \/ ~Exposes(m.call, m.type) \/ m.type = "archived"
  BY <1>l, <1>q DEF Exposes, NamedHidden
<1>y. m.type = "archived" => ~Exposes(m.call, m.type)
  BY DEF Exposes
<1>z. ~Strays(m.call, Routed(m.call))
  <2> SUFFICES ASSUME NEW c \in Calls, Starts(c), Of(c) = m.call, inbox[c] = "answer",
                      Workspace(c) \notin left
               PROVE  Routed(m.call) = Workspace(c)
    BY DEF Strays, Starts
  <2>1. threadWs[m.call] = Workspace(c)
    BY <1>q DEF StarterMapped
  <2>2. Workspace(c) # None
    BY CallFacts
  <2> QED BY <2>1, <2>2 DEF Routed
<1>d. /\ shown' = shown \/ shown' = shown \cup {<<m.call, Routed(m.call)>>}
      /\ \/ threadWs' = threadWs
         \/ m.type = "archived" /\ threadWs' = [threadWs EXCEPT ![m.call] = None]
      /\ \/ hidden \subseteq hidden' /\ hidden' \subseteq hidden \cup {m.call}
         \/ m.type = "archived" /\ hidden' = hidden \ {m.call}
      /\ \/ named' = named
         \/ named' = named \cup {m.call} /\ m.call \in Memory /\ m.call \in hidden'
      /\ hiddenUi \subseteq hiddenUi' /\ hiddenUi' \subseteq hiddenUi \cup {m.call}
      /\ exposed' = exposed /\ astray' = astray
      /\ events' = events \/ (m.call \in callbacks /\ events' = [events EXCEPT ![m.call] = @ \cup {m.type}])
  <2>1. CASE m.type = "started" /\ m.call \in Memory
    BY <1>0, <2>1 DEF reader_notification, HideStarted
  <2>2. CASE ~(m.type = "started" /\ m.call \in Memory)
    <3>1. Deliver(m.call, m.type)
      BY <1>0, <2>2 DEF reader_notification
    <3>2. CASE m.call \in hidden /\ m.type # "archived"
      BY <3>1, <3>2 DEF Deliver
    <3>3. CASE ~(m.call \in hidden /\ m.type # "archived")
      <4>1. CASE m.call \in callbacks
        BY <3>1, <3>3, <4>1 DEF Deliver
      <4>2. CASE m.call \notin callbacks
        <5>1. ~Exposes(m.call, m.type)
          BY <1>x, <1>y, <3>3
        <5>2. Emit(m.call, Routed(m.call), m.type)
          BY <3>1, <3>3, <4>2 DEF Deliver
        <5>3. /\ shown' = shown \cup {<<m.call, Routed(m.call)>>}
              /\ exposed' = exposed /\ astray' = astray
          BY <1>z, <5>1, <5>2 DEF Emit
        <5> QED BY <3>1, <3>3, <4>2, <5>3 DEF Deliver
      <4> QED BY <4>1, <4>2
    <3> QED BY <3>2, <3>3
  <2> QED BY <2>1, <2>2
<1>r. Routed(m.call) \in Workspaces
  BY <1>l, ConstantsAssumption DEF Routed, TypeOK
<1>1. TypeOK'
  <2>1. threadWs' \in [Threads -> Workspaces \cup {None}]
    BY <1>l, <1>d DEF TypeOK
  <2>2. /\ hidden' \subseteq Threads /\ hiddenUi' \subseteq Threads /\ named' \subseteq Memory
        /\ exposed' \subseteq Threads /\ astray' \subseteq Threads
    BY <1>l, <1>d DEF TypeOK
  <2>3. events' \in [Prompts -> SUBSET Notes]
    <3>1. events \in [Prompts -> SUBSET Notes] /\ callbacks \subseteq Prompts
      BY DEF TypeOK
    <3>2. CASE m.call \in callbacks /\ events' = [events EXCEPT ![m.call] = @ \cup {m.type}]
      <4>1. m.call \in Prompts /\ events[m.call] \cup {m.type} \in SUBSET Notes
        BY <1>a, <3>1, <3>2
      <4> QED BY <3>1, <3>2, <4>1
    <3> QED BY <1>d, <3>1, <3>2
  <2>4. \A e \in shown' : e[2] \in Workspaces
    BY <1>d, <1>r DEF TypeOK
  <2> QED BY <1>a, <1>h, <2>1, <2>2, <2>3, <2>4 DEF TypeOK
<1>2. IdsIdentify' /\ NothingLeftBehind'
  BY <1>a DEF IdsIdentify, NothingLeftBehind
<1>3. AnsweredOnce'
  BY <1>a DEF AnsweredOnce, Entry
<1>4. LinesInOrder'
  <2>1. ASSUME NEW x \in Line, LineTrue(x) PROVE LineTrue(x)'
    BY <1>a, <1>d, <2>1 DEF LineTrue
  <2> QED BY <1>a, <2>1, PopKeepsLines
<1>5. ExecutedFirst' /\ RootsKept'
  BY <1>a DEF ExecutedFirst, Unwritten, RootsKept
<1>6. StarterMapped'
  <2> SUFFICES ASSUME NEW c \in Calls, Starts(c), inbox[c] = "answer", Workspace(c) \notin left
               PROVE  threadWs'[Of(c)] = Workspace(c) \/ (thread[Of(c)] = "gone" /\ Silent(Of(c))')
    BY <1>a DEF StarterMapped
  <2>1. Of(c) \in Threads
    BY CallFacts
  <2>2. CASE m.type = "archived" /\ m.call = Of(c)
    BY <1>g, <1>l, <2>2
  <2>3. CASE ~(m.type = "archived" /\ m.call = Of(c))
    <3>1. threadWs'[Of(c)] = threadWs[Of(c)]
      BY <1>d, <1>l, <2>1, <2>3 DEF TypeOK
    <3> QED BY <1>q, <3>1 DEF StarterMapped
  <2> QED BY <2>2, <2>3
<1>7. EventsFollowTheStarter' /\ NamedAgentsStayHidden' /\ TurnsOfPromptsAreHidden'
  BY <1>d DEF EventsFollowTheStarter, NamedAgentsStayHidden, TurnsOfPromptsAreHidden
<1>8. NamedHidden'
  <2> SUFFICES ASSUME NEW t \in named'
               PROVE  t \in hidden' \/ (thread[t] = "gone" /\ Silent(t)')
    BY <1>a DEF NamedHidden
  <2>1. CASE m.type = "archived" /\ t = m.call
    BY <1>g, <1>l, <2>1
  <2>2. CASE ~(m.type = "archived" /\ t = m.call)
    BY <1>d, <1>q, <2>2 DEF NamedHidden
  <2> QED BY <2>1, <2>2
<1>9. PromptsInStep'
  BY <1>a, <1>d DEF PromptsInStep
<1> QED BY <1>1, <1>2, <1>3, <1>4, <1>5, <1>6, <1>7, <1>8, <1>9

LEMMA ReaderBroadcastKeeps ==
  ASSUME InductiveInvariant, reader_broadcast
  PROVE  InductiveInvariant'
<1> USE DEF InductiveInvariant
<1>a. /\ UNCHANGED <<load, st, id, inbox, res, nextId, pending, context, threadWs, hidden,
                     callbacks, ids, roots, left, reader, step, events, child, got, fine, thread,
                     effects, hiddenUi, named, exposed, astray>>
      /\ out # <<>> /\ out' = Tail(out)
  BY DEF reader_broadcast, callVars, sessVars, wsVars, promptVars
<1>h. out' \in Seq(Line) /\ Len(out') <= OutCap + 1
  BY <1>a, HeadLine
<1>q. \A t : Silent(t) => Silent(t)'
  BY <1>a, PopKeepsSilence
<1>1. TypeOK'
  <2>1. ids \subseteq Workspaces /\ Owner \in Workspaces
    BY ConstantsAssumption DEF TypeOK
  <2>2. \A e \in shown' : e[2] \in Workspaces
    BY <2>1 DEF reader_broadcast, TypeOK
  <2> QED BY <1>a, <1>h, <2>2 DEF TypeOK
<1>2. IdsIdentify' /\ NothingLeftBehind'
  BY <1>a DEF IdsIdentify, NothingLeftBehind
<1>3. AnsweredOnce'
  BY <1>a DEF AnsweredOnce, Entry
<1>4. LinesInOrder'
  <2>1. ASSUME NEW x \in Line, LineTrue(x) PROVE LineTrue(x)'
    BY <1>a, <2>1 DEF LineTrue
  <2> QED BY <1>a, <2>1, PopKeepsLines
<1>5. ExecutedFirst' /\ RootsKept'
  BY <1>a DEF ExecutedFirst, Unwritten, RootsKept
<1>6. StarterMapped' /\ NamedHidden'
  BY <1>a, <1>q DEF StarterMapped, NamedHidden
<1>7. EventsFollowTheStarter' /\ NamedAgentsStayHidden' /\ TurnsOfPromptsAreHidden'
  BY <1>a DEF EventsFollowTheStarter, NamedAgentsStayHidden, TurnsOfPromptsAreHidden
<1>8. PromptsInStep'
  BY <1>a DEF PromptsInStep
<1> QED BY <1>1, <1>2, <1>3, <1>4, <1>5, <1>6, <1>7, <1>8

LEMMA ReaderStepKeeps ==
  ASSUME InductiveInvariant, ReaderStep
  PROVE  InductiveInvariant'
  BY ReaderAnswerKeeps, ReaderNotificationKeeps, ReaderBroadcastKeeps,
     ReaderClearsPendingKeeps, ReaderClearsContextKeeps DEF ReaderStep

-----------------------------------------------------------------------------
(* The invariant *)

LEMMA InitInvariant == Init => InductiveInvariant
<1> SUFFICES ASSUME Init PROVE InductiveInvariant
  OBVIOUS
<1> USE DEF Init
<1>1. TypeOK
  <2>1. out \in Seq(Line) /\ Len(out) <= OutCap + 1
    BY ConstantsAssumption, EmptySeq
  <2> QED BY <2>1 DEF TypeOK
<1>2. IdsIdentify /\ AnsweredOnce /\ NothingLeftBehind
  BY DEF IdsIdentify, AnsweredOnce, NothingLeftBehind
<1>3. LinesInOrder /\ RootsKept /\ StarterMapped /\ NamedHidden
  BY DEF LinesInOrder, RootsKept, StarterMapped, NamedHidden
<1>4. ExecutedFirst
  <2>1. \A c \in Calls : Starts(c) => thread[Of(c)] = "none"
    BY CallFacts
  <2> QED BY <2>1 DEF ExecutedFirst
<1>5. EventsFollowTheStarter
  BY DEF EventsFollowTheStarter
<1>6. NamedAgentsStayHidden /\ TurnsOfPromptsAreHidden
  BY DEF NamedAgentsStayHidden, TurnsOfPromptsAreHidden
<1>7. PromptsInStep
  <2>1. \A p \in Prompts : p \in Threads /\ Turn(p) \in Calls /\ <<p, "archive">> \in Calls
    BY CallFacts DEF Turn, Steps
  <2> QED BY <2>1 DEF PromptsInStep
<1> QED BY <1>1, <1>2, <1>3, <1>4, <1>5, <1>6, <1>7 DEF InductiveInvariant

LEMMA UnchangedKeeps ==
  ASSUME InductiveInvariant, UNCHANGED vars
  PROVE  InductiveInvariant'
<1> USE DEF InductiveInvariant, vars, callVars, sessVars, wsVars, promptVars, childVars, uiVars
<1>1. TypeOK'
  BY DEF TypeOK
<1>2. IdsIdentify' /\ AnsweredOnce' /\ NothingLeftBehind'
  BY DEF IdsIdentify, AnsweredOnce, NothingLeftBehind, Entry
<1>3. PromptsInStep'
  BY DEF PromptsInStep
<1>4. Quiet
  <2>1. \A d \in Calls : Unwritten(d)' = Unwritten(d)
    BY DEF Unwritten
  <2> QED BY <2>1, CallsMoveQuietly
<1> QED BY <1>1, <1>2, <1>3, <1>4, QuietKeeps

LEMMA NextKeeps ==
  ASSUME InductiveInvariant, [Next]_vars
  PROVE  InductiveInvariant'
  BY RequestStepKeeps, PromptStepKeeps, ReaderStepKeeps, RegistrationKeeps, ChildExecutesKeeps,
     ChildAnswersKeeps, ChildReportsKeeps, ChildDiesKeeps, UnchangedKeeps
     DEF Next, Finished

(* Every reachable state of the session satisfies the inductive invariant:  *)
(* ids identify requests, lines in the pipe are true and in order, threads  *)
(* are mapped from the moment their starter is told, and agents are hidden  *)
(* from the moment they are named (app_server.rs).                          *)
THEOREM AppServerSessionInvariant == Spec => []InductiveInvariant
<1>1. InductiveInvariant /\ [Next]_vars => InductiveInvariant'
  BY NextKeeps
<1> QED BY <1>1, InitInvariant, PTL DEF Spec

(* The maps, the pipe and the positions of requests and prompts keep their  *)
(* types; the pipe stays within one line of its bound.                      *)
THEOREM TypesCorrect == Spec => []TypeOK
<1>1. InductiveInvariant => TypeOK
  BY DEF InductiveInvariant
<1> QED BY <1>1, AppServerSessionInvariant, PTL

(* send_request_for_workspace returns with its entries gone from pending    *)
(* and request_context, by whichever of its exits.                          *)
THEOREM ReturnedRequestsLeaveNothing == Spec => []NothingLeftBehind
<1>1. InductiveInvariant => NothingLeftBehind
  BY DEF InductiveInvariant
<1> QED BY <1>1, AppServerSessionInvariant, PTL

(* The reader routes every event of a thread whose starter was told to the  *)
(* starter, for every order of answers, listings, archives and timeouts,    *)
(* for every nesting of roots and while other workspaces come and go.       *)
THEOREM EventsGoToTheStarter == Spec => []EventsFollowTheStarter
<1>1. InductiveInvariant => EventsFollowTheStarter
  BY DEF InductiveInvariant
<1> QED BY <1>1, AppServerSessionInvariant, PTL

(* From the list or the thread/started that names a memory consolidation    *)
(* thread on, the reader emits nothing of it but its archival.              *)
THEOREM NamedAgentsAreHidden == Spec => []NamedAgentsStayHidden
<1>1. InductiveInvariant => NamedAgentsStayHidden
  BY DEF InductiveInvariant
<1> QED BY <1>1, AppServerSessionInvariant, PTL

(* No turn of a background prompt is shown before on_hide_thread. *)
THEOREM PromptTurnsAreHidden == Spec => []TurnsOfPromptsAreHidden
<1>1. InductiveInvariant => TurnsOfPromptsAreHidden
  BY DEF InductiveInvariant
<1> QED BY <1>1, AppServerSessionInvariant, PTL

(* run_background_prompt_core removes its callback and archives its thread  *)
(* on every path.                                                           *)
THEOREM EndedPromptsAreClean == Spec => []PromptsCleanUp
<1>1. InductiveInvariant => PromptsCleanUp
  BY DEF InductiveInvariant, PromptsInStep, PromptsCleanUp
<1> QED BY <1>1, AppServerSessionInvariant, PTL

-----------------------------------------------------------------------------
(* The contract of RequestReply *)

LEMMA StatusSame ==
  ASSUME NEW c \in Calls, st'[c] = st[c], res'[c] = res[c]
  PROVE  Status(c)' = Status(c)
  BY DEF Status

(* A step in which no caller learns anything and nothing is executed. *)
LEMMA Stutters ==
  ASSUME effects' = effects, \A c \in Calls : Status(c)' = Status(c)
  PROVE  UNCHANGED Contract!vars
  BY DEF Contract!vars

(* The status of one request moves. *)
LEMMA OneMoves ==
  ASSUME NEW c \in Calls, NEW s, Status(c)' = s, \A d \in Calls \ {c} : Status(d)' = Status(d)
  PROVE  [d \in Calls |-> Status(d)'] = [[d \in Calls |-> Status(d)] EXCEPT ![c] = s]
  OBVIOUS

LEMMA ReturnsRefine ==
  ASSUME TypeOK, NEW c \in Calls, NEW r \in {"ok", "err"}, Returns(c, r), effects' = effects,
         st[c] \in {"inserted", "write", "wait"}, r = "ok" => effects[c] = 1
  PROVE  Contract!Next
<1>1. Status(c) = "open" /\ Status(c)' = r
  BY DEF Returns, Goto, Status, TypeOK
<1>2. \A d \in Calls \ {c} : Status(d)' = Status(d)
  <2>1. \A d \in Calls \ {c} : st'[d] = st[d] /\ res'[d] = res[d]
    BY DEF Returns, Goto, TypeOK
  <2> QED BY <2>1, StatusSame
<1>3. [d \in Calls |-> Status(d)'] = [[d \in Calls |-> Status(d)] EXCEPT ![c] = r]
  BY <1>1, <1>2, OneMoves
<1>4. CASE r = "ok"
  <2>1. Contract!Succeed(c)
    BY <1>1, <1>3, <1>4 DEF Contract!Succeed
  <2> QED BY <2>1 DEF Contract!Next, Contract!Return
<1>5. CASE r = "err"
  <2>1. Contract!Fail(c)
    BY <1>1, <1>3, <1>5 DEF Contract!Fail
  <2> QED BY <2>1 DEF Contract!Next, Contract!Return
<1> QED BY <1>4, <1>5

LEMMA RequestStepRefines ==
  ASSUME InductiveInvariant, NEW c \in Calls, RequestStep(c)
  PROVE  [Contract!Next]_(Contract!vars)
<1>a. TypeOK /\ AnsweredOnce
  BY DEF InductiveInvariant
<1>1. CASE send_request(c)
  <2>1. Status(c) = "unsent" /\ Status(c)' = "open" /\ effects' = effects
    BY <1>a, <1>1 DEF send_request, Goto, Status, TypeOK, childVars
  <2>2. \A d \in Calls \ {c} : Status(d)' = Status(d)
    <3>1. \A d \in Calls \ {c} : st'[d] = st[d] /\ res'[d] = res[d]
      BY <1>a, <1>1 DEF send_request, Goto, TypeOK
    <3> QED BY <3>1, StatusSame
  <2>3. [d \in Calls |-> Status(d)'] = [[d \in Calls |-> Status(d)] EXCEPT ![c] = "open"]
    BY <2>1, <2>2, OneMoves
  <2>4. Contract!Issue(c)
    BY <2>1, <2>3 DEF Contract!Issue
  <2> QED BY <2>4 DEF Contract!Next
<1>2. ASSUME NEW s \in {"write", "wait"}, st[c] \in {"inserted", "write"}, Goto(c, s),
             res' = res, effects' = effects
      PROVE  UNCHANGED Contract!vars
  <2>1. Status(c)' = Status(c)
    BY <1>a, <1>2 DEF Goto, Status, TypeOK
  <2>2. \A d \in Calls \ {c} : st'[d] = st[d] /\ res'[d] = res[d]
    BY <1>a, <1>2 DEF Goto, TypeOK
  <2> QED BY <1>2, <2>1, <2>2, StatusSame, Stutters
<1>3. CASE send_request_context(c)
  BY <1>2, <1>3 DEF send_request_context, childVars
<1>4. CASE send_request_write(c)
  <2>1. CASE Goto(c, "wait") /\ res' = res
    BY <1>2, <1>4, <2>1 DEF send_request_write
  <2>2. CASE Returns(c, "err")
    BY <1>a, <1>4, <2>2, ReturnsRefine DEF send_request_write
  <2> QED BY <1>4, <2>1, <2>2 DEF send_request_write
<1>5. CASE send_request_answer(c)
  <2>1. inbox[c] # "canceled" => effects[c] = 1
    BY <1>a, <1>5 DEF send_request_answer, AnsweredOnce, TypeOK
  <2> QED BY <1>a, <1>5, <2>1, ReturnsRefine DEF send_request_answer, childVars
<1>6. CASE send_request_timeout(c) \/ login_dropped(c)
  BY <1>a, <1>6, ReturnsRefine DEF send_request_timeout, login_dropped, childVars
<1> QED BY <1>1, <1>3, <1>4, <1>5, <1>6 DEF RequestStep

LEMMA ChildExecutesRefines ==
  ASSUME InductiveInvariant, NEW c \in Calls, child_executes(c)
  PROVE  Contract!Next
<1>1. effects[c] = 0 /\ effects' = [effects EXCEPT ![c] = 1] /\ effects[c] + 1 = 1
  BY DEF child_executes
<1>2. Status(c) # "unsent"
  BY DEF child_executes, InductiveInvariant, AnsweredOnce, TypeOK, Status
<1>3. \A d \in Calls : Status(d)' = Status(d)
  BY StatusSame DEF child_executes, callVars
<1>4. Contract!Execute(c)
  BY <1>1, <1>2, <1>3 DEF Contract!Execute, Contract!MaxEffects
<1> QED BY <1>4 DEF Contract!Next

LEMMA StepRefines ==
  ASSUME InductiveInvariant, [Next]_vars
  PROVE  [Contract!Next]_(Contract!vars)
<1>1. ASSUME st' = st, res' = res, effects' = effects PROVE UNCHANGED Contract!vars
  BY <1>1, StatusSame, Stutters
<1>2. CASE \E c \in Calls : RequestStep(c)
  BY <1>2, RequestStepRefines
<1>3. CASE \E c \in Calls : child_executes(c)
  BY <1>3, ChildExecutesRefines
<1>4. CASE \E c \in Calls : child_answers(c)
  BY <1>1, <1>4 DEF child_answers, callVars
<1>5. CASE \E p \in Prompts : PromptStep(p)
  BY <1>1, <1>5 DEF PromptStep, prompt_begins, prompt_without_thread, prompt_hides,
     prompt_registers, prompt_collects, prompt_removes_callback, prompt_returns,
     callVars, childVars
<1>6. CASE ReaderStep
  BY <1>1, <1>6 DEF ReaderStep, reader_answer, reader_notification, reader_broadcast,
     reader_clears_pending, reader_clears_context, callVars, childVars
<1>7. CASE \E w \in Workspaces : unregister_workspace(w) \/ register_workspace_with_path(w)
  BY <1>1, <1>7 DEF unregister_workspace, register_workspace_with_path, callVars, childVars
<1>8. CASE \E t \in Threads : ChildReports(t)
  BY <1>1, <1>8, ReportFacts DEF Reports, callVars
<1>9. CASE child_dies
  BY <1>1, <1>9 DEF child_dies, callVars
<1>10. CASE UNCHANGED vars
  BY <1>1, <1>10 DEF vars, callVars, childVars
<1> QED BY <1>2, <1>3, <1>4, <1>5, <1>6, <1>7, <1>8, <1>9, <1>10 DEF Next, Finished

(* Through the session a request is executed at most once, is answered      *)
(* once, and reports success only if it was executed.                       *)
THEOREM SessionImplementsRequestReply == Spec => ImplementsRequestReply
<1>1. Init => Contract!Init
  BY DEF Init, Contract!Init, Status
<1>2. InductiveInvariant /\ [Next]_vars => [Contract!Next]_(Contract!vars)
  BY StepRefines
<1> QED BY <1>1, <1>2, AppServerSessionInvariant, PTL
        DEF Spec, ImplementsRequestReply, Contract!Safety
=============================================================================
