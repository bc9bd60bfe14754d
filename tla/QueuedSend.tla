----------------------------- MODULE QueuedSend -----------------------------
(***************************************************************************)
(* Follow-up messages of one thread: the composer's queue (useQueuedSend), *)
(* the send it ends in (useThreadMessaging), the events that say whether a *)
(* turn runs (useThreadTurnEvents), and the app-server that runs it.       *)
(*                                                                         *)
(* The hooks run on one JavaScript thread: a callback up to its next await *)
(* is one action, and so is an effect, which React runs at some point      *)
(* after the state it depends on changed.  Requests travel apart and may   *)
(* overtake each other, as may an answer and a notification; the           *)
(* notifications of the thread arrive in order.                            *)
(*                                                                         *)
(* In the app-server a request is checked and, unless it steers, put into  *)
(* the thread's queue of operations, which the session takes one by one.   *)
(* Left out: slash commands, reviews, approvals (they repeat the status    *)
(* "active"), and a request that is carried out although its answer is     *)
(* lost or comes after the time-out of five minutes.                       *)
(***************************************************************************)
EXTENDS Naturals, Sequences, FiniteSets

CONSTANTS
  Messages,  \* messages the user writes; a turn is named by the one starting it
  None       \* null

ASSUME NoneAssumption == None \notin Messages

VARIABLES
  unwritten,         \* messages the user has not sent yet
  queue,             \* queuedByThread
  inFlight,          \* inFlightByThread
  hasStarted,        \* hasStartedByThread
  sending,           \* calls of sendUserMessage that have not asked for anything yet
  processing,        \* threadStatusById.isProcessing
  activeTurn,        \* activeTurnIdByThread
  pendingInterrupt,  \* pendingInterruptsRef has the thread
  immediate,         \* immediateActiveTurnIdByThreadRef
  lastReducer,       \* lastReducerActiveTurnIdByThreadRef
  optimistic,        \* hasOptimisticActiveTurnByThreadRef
  requests,          \* turn/start and turn/steer on their way to the app-server
  stops,             \* how many turn/interrupt for a turn are on their way
  answers,           \* answers on their way back
  notices,           \* notifications on their way back
  ops,               \* operations submitted to the session; None is Op::Interrupt
  turn,              \* the turn the session runs
  inTurn,            \* the messages it has taken into that turn
  failing,           \* the turn has reported its error
  ended,             \* last_terminal_turn_id
  status,            \* the status of the thread last published
  queueOnly,         \* history: the user sent nothing past the queue, stopped nothing
  unfinished         \* history: so far, messages flushed and not yet dealt with

composer == <<unwritten, queue, inFlight, hasStarted, sending>>
thread == <<processing, activeTurn>>
refs == <<pendingInterrupt, immediate, lastReducer, optimistic>>
session == <<turn, inTurn, failing, ended, status>>
history == <<queueOnly, unfinished>>
vars == <<composer, thread, refs, requests, stops, answers, notices, ops, session,
          history>>

MaybeTurn == Messages \cup {None}

\* A request that expects a turn steers it, another one starts a turn.
Request == [of : Messages, expects : MaybeTurn]
Sending == [of : Messages, expects : MaybeTurn, flushed : BOOLEAN]
Answer == [of : Messages, expects : MaybeTurn, result : {"ok", "refused", "noTurn"}]
Status == {"idle", "active", "systemError"}
Notice == [kind : Status \cup {"started", "completed", "error"}, turn : MaybeTurn]

TypeOK ==
  /\ unwritten \subseteq Messages
  /\ queue \in Seq(Messages)
  /\ inFlight \in MaybeTurn
  /\ hasStarted \in BOOLEAN
  /\ sending \subseteq Sending
  /\ processing \in BOOLEAN
  /\ activeTurn \in MaybeTurn /\ immediate \in MaybeTurn /\ lastReducer \in MaybeTurn
  /\ pendingInterrupt \in BOOLEAN
  /\ optimistic \in BOOLEAN
  /\ requests \subseteq Request
  /\ stops \in [MaybeTurn -> Nat]
  /\ answers \subseteq Answer
  /\ notices \in Seq(Notice)
  /\ ops \in Seq(MaybeTurn)
  /\ turn \in MaybeTurn /\ ended \in MaybeTurn
  /\ inTurn \subseteq Messages
  /\ failing \in BOOLEAN
  /\ status \in Status
  /\ queueOnly \in BOOLEAN
  /\ unfinished \subseteq Messages

Init ==
  /\ unwritten = Messages
  /\ queue = <<>>
  /\ inFlight = None
  /\ hasStarted = FALSE
  /\ sending = {}
  /\ processing = FALSE
  /\ activeTurn = None
  /\ pendingInterrupt = FALSE
  /\ immediate = None
  /\ lastReducer = None
  /\ optimistic = FALSE
  /\ requests = {}
  /\ stops = [t \in MaybeTurn |-> 0]
  /\ answers = {}
  /\ notices = <<>>
  /\ ops = <<>>
  /\ turn = None
  /\ inTurn = {}
  /\ failing = FALSE
  /\ ended = None
  /\ status = "idle"
  /\ queueOnly = TRUE
  /\ unfinished = {}

-----------------------------------------------------------------------------
(* The composer *)

\* What the history notes: the user sends or stops by hand, after which it
\* follows nothing any more, or the flushed messages not yet dealt with.
PastTheQueue == queueOnly' = FALSE /\ unfinished' = {}
Unfinished(S) == unfinished' = S /\ UNCHANGED queueOnly

\* sendUserMessage up to its await.  Whether the message starts a turn or
\* steers one is settled by the state of the thread as of the call.
sendUserMessage(m, expects, flushed) ==
  sending' = sending \cup {[of |-> m, expects |-> expects, flushed |-> flushed]}

\* What the user sends goes out at once when the thread is idle; otherwise it
\* waits, or steers the turn if its id is known.
handleSend(m) ==
  /\ m \in unwritten
  /\ unwritten' = unwritten \ {m}
  /\ \/ processing /\ queue' = Append(queue, m) /\ UNCHANGED <<sending, history>>
     \/ /\ \/ ~processing /\ sendUserMessage(m, None, FALSE)
           \/ processing /\ activeTurn # None /\ sendUserMessage(m, activeTurn, FALSE)
        /\ PastTheQueue
        /\ UNCHANGED queue
  /\ UNCHANGED <<inFlight, hasStarted, thread, refs, requests, stops, answers, notices,
                 ops, session>>

queueMessage(m) ==
  /\ m \in unwritten
  /\ unwritten' = unwritten \ {m}
  /\ queue' = Append(queue, m)
  /\ UNCHANGED <<inFlight, hasStarted, sending, thread, refs, requests, stops, answers,
                 notices, ops, session, history>>

\* The filter by id drops the one entry of the message.
removeQueuedMessage(m) ==
  /\ \E i \in DOMAIN queue :
       /\ queue[i] = m
       /\ queue' = SubSeq(queue, 1, i - 1) \o SubSeq(queue, i + 1, Len(queue))
  /\ UNCHANGED <<unwritten, inFlight, hasStarted, sending, thread, refs, requests, stops,
                 answers, notices, ops, session, history>>

\* First effect: note that the message in flight has the thread busy, and
\* take it for finished once the thread is idle again.
TrackInFlight ==
  /\ inFlight # None
  /\ \/ processing /\ ~hasStarted /\ hasStarted' = TRUE /\ UNCHANGED inFlight
     \/ ~processing /\ hasStarted /\ hasStarted' = FALSE /\ inFlight' = None
  /\ UNCHANGED <<unwritten, queue, sending, thread, refs, requests, stops, answers,
                 notices, ops, session, history>>

\* Variant: the message sent stays at the head of the queue.
FlushQueue_keeping_head ==
  /\ ~processing
  /\ inFlight = None
  /\ queue # <<>>
  /\ inFlight' = Head(queue)
  /\ hasStarted' = FALSE
  /\ sendUserMessage(Head(queue), None, TRUE)
  /\ Unfinished(unfinished \cup {m \in {Head(queue)} : queueOnly})
  /\ UNCHANGED <<unwritten, queue, thread, refs, requests, stops, answers, notices, ops,
                 session>>

\* Second effect: an idle thread with nothing in flight sends its next message.
FlushQueue ==
  /\ ~processing
  /\ inFlight = None
  /\ queue # <<>>
  /\ inFlight' = Head(queue)
  /\ hasStarted' = FALSE
  /\ queue' = Tail(queue)
  /\ sendUserMessage(Head(queue), None, TRUE)
  /\ Unfinished(unfinished \cup {m \in {Head(queue)} : queueOnly})
  /\ UNCHANGED <<unwritten, thread, refs, requests, stops, answers, notices, ops, session>>

\* Variant: the flush that fails forgets the message it took.
flushFails_dropping(s) ==
  /\ s \in sending /\ s.flushed
  /\ sending' = sending \ {s}
  /\ inFlight' = None
  /\ hasStarted' = FALSE
  /\ Unfinished(unfinished \ {s.of})
  /\ UNCHANGED <<unwritten, queue, thread, refs, requests, stops, answers, notices, ops,
                 session>>

\* The call throws while it waits for the thread: the flush catches it and
\* puts the message back in front.
flushFails(s) ==
  /\ s \in sending /\ s.flushed
  /\ sending' = sending \ {s}
  /\ inFlight' = None
  /\ hasStarted' = FALSE
  /\ queue' = <<s.of>> \o queue
  /\ Unfinished(unfinished \ {s.of})
  /\ UNCHANGED <<unwritten, thread, refs, requests, stops, answers, notices, ops, session>>

\* The send is blocked: no workspace, no thread or a prompt that does not
\* expand.  Nothing is requested; a flushed message stays in flight.  A call
\* of handleSend that throws ends the same way, nobody awaits it.
sendBlocked(s) ==
  /\ s \in sending
  /\ sending' = sending \ {s}
  /\ Unfinished(unfinished \ {s.of})
  /\ UNCHANGED <<unwritten, queue, inFlight, hasStarted, thread, refs, requests, stops,
                 answers, notices, ops, session>>

\* sendMessageToThread up to its request: the thread is busy from here on.
sendMessageToThread(s) ==
  /\ s \in sending
  /\ sending' = sending \ {s}
  /\ processing' = TRUE
  /\ requests' = requests \cup {[of |-> s.of, expects |-> s.expects]}
  /\ UNCHANGED <<unwritten, queue, inFlight, hasStarted, activeTurn, refs, stops, answers,
                 notices, ops, session, history>>

\* The user stops the running turn (the button is there while the thread is
\* busy).  Without its id the stop names a turn "pending", and is sent again
\* when turn/started brings the id.
interruptTurn ==
  /\ processing
  /\ processing' = FALSE
  /\ activeTurn' = None
  /\ pendingInterrupt' = (pendingInterrupt \/ activeTurn = None)
  /\ stops' = [stops EXCEPT ![activeTurn] = @ + 1]
  /\ PastTheQueue
  /\ UNCHANGED <<composer, immediate, lastReducer, optimistic, requests, answers, notices,
                 ops, session>>

-----------------------------------------------------------------------------
(* Answers and notifications *)

\* The rest of sendMessageToThread for turn/start.
StartAnswered(a) ==
  /\ a \in answers /\ a.expects = None
  /\ \/ a.result = "ok" /\ activeTurn' = a.of /\ UNCHANGED processing
     \/ a.result # "ok" /\ processing' = FALSE /\ activeTurn' = None
  /\ answers' = answers \ {a}
  /\ UNCHANGED <<composer, refs, requests, stops, notices, ops, session, history>>

\* ... and for turn/steer: one that fails is queued instead, and one that
\* fails because no turn runs also clears the thread's state.
SteerAnswered(a) ==
  /\ a \in answers /\ a.expects # None
  /\ \/ a.result = "ok" /\ activeTurn' = a.expects /\ UNCHANGED <<processing, queue>>
     \/ a.result = "refused" /\ queue' = Append(queue, a.of) /\ UNCHANGED thread
     \/ /\ a.result = "noTurn"
        /\ queue' = Append(queue, a.of)
        /\ processing' = FALSE /\ activeTurn' = None
  /\ answers' = answers \ {a}
  /\ UNCHANGED <<unwritten, inFlight, hasStarted, sending, refs, requests, stops, notices,
                 ops, session, history>>

\* resetThreadTurnState, with the thread idle and its turn forgotten.
ThreadIsIdle ==
  /\ processing' = FALSE
  /\ activeTurn' = None
  /\ immediate' = None
  /\ optimistic' = FALSE
  /\ pendingInterrupt' = FALSE

onTurnStarted ==
  /\ notices # <<>> /\ Head(notices).kind = "started"
  /\ notices' = Tail(notices)
  /\ \/ /\ pendingInterrupt
        /\ pendingInterrupt' = FALSE
        /\ stops' = [stops EXCEPT ![Head(notices).turn] = @ + 1]
        /\ UNCHANGED <<thread, immediate, lastReducer, optimistic>>
     \/ /\ ~pendingInterrupt
        /\ processing' = TRUE
        /\ activeTurn' = Head(notices).turn
        /\ immediate' = Head(notices).turn
        /\ lastReducer' = activeTurn
        /\ optimistic' = TRUE
        /\ UNCHANGED <<pendingInterrupt, stops>>
  /\ UNCHANGED <<composer, requests, answers, ops, session, history>>

onThreadStatusChanged ==
  /\ notices # <<>> /\ Head(notices).kind \in Status
  /\ notices' = Tail(notices)
  /\ \/ /\ Head(notices).kind = "active"
        /\ processing' = TRUE
        /\ UNCHANGED <<activeTurn, immediate, optimistic, pendingInterrupt>>
     \/ Head(notices).kind # "active" /\ ThreadIsIdle
  /\ UNCHANGED <<composer, lastReducer, requests, stops, answers, ops, session, history>>

\* The id last written by onTurnStarted stands until the reducer is seen to
\* change by itself.
KeepsOptimistic ==
  optimistic /\ activeTurn # immediate /\ activeTurn = lastReducer

getLatestKnownActiveTurnId ==
  IF KeepsOptimistic \/ (~optimistic /\ lastReducer = activeTurn)
    THEN immediate
    ELSE activeTurn

\* onTurnCompleted and onTurnError: the end of another turn than the known one
\* is ignored; an end that finds no turn known is taken for the current turn's.
onTurnEnded ==
  /\ notices # <<>> /\ Head(notices).kind \in {"completed", "error"}
  /\ notices' = Tail(notices)
  /\ lastReducer' = activeTurn
  /\ LET known == getLatestKnownActiveTurnId
     IN  \/ /\ known \notin {None, Head(notices).turn}
            /\ immediate' = known
            /\ optimistic' = KeepsOptimistic
            /\ UNCHANGED <<thread, pendingInterrupt>>
         \/ known \in {None, Head(notices).turn} /\ ThreadIsIdle
  /\ UNCHANGED <<composer, requests, stops, answers, ops, session, history>>

-----------------------------------------------------------------------------
(* The app-server: requests *)

Reply(r, result) ==
  answers' = answers \cup {[of |-> r.of, expects |-> r.expects, result |-> result]}

\* turn/start submits the message, or is refused: by the checks before that,
\* or because the request never got there.
turn_start(r) ==
  /\ r \in requests /\ r.expects = None
  /\ requests' = requests \ {r}
  /\ \/ ops' = Append(ops, r.of) /\ Reply(r, "ok") /\ UNCHANGED history
     \/ Reply(r, "refused") /\ Unfinished(unfinished \ {r.of}) /\ UNCHANGED ops
  /\ UNCHANGED <<composer, thread, refs, stops, notices, session>>

\* turn/steer adds to the running turn if that is the expected one.
turn_steer(r) ==
  /\ r \in requests /\ r.expects # None
  /\ requests' = requests \ {r}
  /\ \/ /\ turn = r.expects
        /\ Reply(r, "ok")
        /\ inTurn' = inTurn \cup {r.of}
     \/ turn = None /\ Reply(r, "noTurn") /\ UNCHANGED inTurn
     \/ Reply(r, "refused") /\ UNCHANGED inTurn
  /\ UNCHANGED <<composer, thread, refs, stops, notices, ops, turn, failing, ended,
                 status, history>>

\* What the listener, which may lag behind the session by the notices not yet
\* delivered, takes for a turn that can be interrupted: the active one; while
\* it knows none and the session runs, any but the last that ended.
Interruptible(t) ==
  \/ t # None /\ t = turn
  \/ \E i \in DOMAIN notices : notices[i] = [kind |-> "completed", turn |-> t]
  \/ /\ status = "active" /\ (t = None \/ t # ended)
     /\ \E i \in DOMAIN notices : notices[i] = [kind |-> "started", turn |-> turn]

\* turn/interrupt submits an interrupt, which names no turn, or is refused.
turn_interrupt(t) ==
  /\ stops[t] > 0
  /\ stops' = [stops EXCEPT ![t] = @ - 1]
  /\ \/ Interruptible(t) /\ ops' = Append(ops, None)
     \/ UNCHANGED ops
  /\ UNCHANGED <<composer, thread, refs, requests, answers, notices, session, history>>

-----------------------------------------------------------------------------
(* The app-server: the session *)

\* A status is published when it changes, before the notice it goes with.
Notify(new, kind, t) ==
  /\ status' = new
  /\ notices' = (IF new = status THEN notices
                                 ELSE Append(notices, [kind |-> new, turn |-> None]))
                  \o <<[kind |-> kind, turn |-> t]>>

\* A message joins the running turn or starts one; its settings may be refused.
RunMessage(m) ==
  \/ /\ turn = None
     /\ turn' = m /\ inTurn' = {m} /\ failing' = FALSE
     /\ Notify("active", "started", m)
     /\ UNCHANGED <<ended, history>>
  \/ /\ turn # None
     /\ inTurn' = inTurn \cup {m}
     /\ UNCHANGED <<turn, failing, ended, status, notices, history>>
  \/ /\ Notify("systemError", "error", m)
     /\ Unfinished(unfinished \ {m})
     /\ UNCHANGED <<turn, inTurn, failing, ended>>

\* The end of a turn leaves a reported error standing.
EndTurn ==
  /\ turn # None
  /\ Notify(IF status = "active" THEN "idle" ELSE status, "completed", turn)
  /\ turn' = None /\ inTurn' = {} /\ failing' = FALSE
  /\ ended' = turn
  /\ Unfinished(unfinished \ inTurn)

\* The session takes its next operation.  An interrupt aborts what runs.
submission_loop ==
  /\ ops # <<>>
  /\ ops' = Tail(ops)
  /\ \/ Head(ops) # None /\ RunMessage(Head(ops))
     \/ Head(ops) = None /\ EndTurn
     \/ Head(ops) = None /\ turn = None /\ UNCHANGED <<session, notices, history>>
  /\ UNCHANGED <<composer, thread, refs, requests, stops, answers>>

TurnFails ==
  /\ turn # None /\ ~failing
  /\ failing' = TRUE
  /\ Notify("systemError", "error", turn)
  /\ Unfinished(unfinished \ inTurn)
  /\ UNCHANGED <<composer, thread, refs, requests, stops, answers, ops, turn, inTurn,
                 ended>>

TurnCompletes ==
  /\ EndTurn
  /\ UNCHANGED <<composer, thread, refs, requests, stops, answers, ops>>

Next ==
  \/ \E m \in Messages : handleSend(m) \/ queueMessage(m) \/ removeQueuedMessage(m)
  \/ TrackInFlight
  \/ FlushQueue
  \/ \E s \in sending : flushFails(s) \/ sendBlocked(s) \/ sendMessageToThread(s)
  \/ interruptTurn
  \/ \E a \in answers : StartAnswered(a) \/ SteerAnswered(a)
  \/ onTurnStarted
  \/ onThreadStatusChanged
  \/ onTurnEnded
  \/ \E r \in requests : turn_start(r) \/ turn_steer(r)
  \/ \E t \in MaybeTurn : turn_interrupt(t)
  \/ submission_loop
  \/ TurnFails
  \/ TurnCompletes

Spec == Init /\ [][Next]_vars

-----------------------------------------------------------------------------
(* Properties *)

\* The queue sends one message at a time (useQueuedSend.test.tsx): as long as
\* the user does no more than queue messages, none is flushed before the one
\* flushed last has been dealt with.
OneAtATime == queueOnly => Cardinality(unfinished) <= 1

\* Where a message can be, and the copies of it there: not yet written, in the
\* queue, on its way in a send, a request, an operation or the answer to a
\* steer that failed, or in the turn.
Where(s, m) == {i \in DOMAIN s : s[i] = m}
Of(S, m) == {x \in S : x.of = m}
Returned(m) == {a \in Of(answers, m) : a.expects # None /\ a.result # "ok"}
Copies(m) ==
  {<<"unwritten", x>> : x \in unwritten \cap {m}}
    \cup {<<"queue", i>> : i \in Where(queue, m)}
    \cup {<<"send", x>> : x \in Of(sending, m)}
    \cup {<<"request", x>> : x \in Of(requests, m)}
    \cup {<<"op", i>> : i \in Where(ops, m)}
    \cup {<<"answer", x>> : x \in Returned(m)}
    \cup {<<"turn", x>> : x \in inTurn \cap {m}}

\* A message is in one place at a time, and there once: neither the flush, nor
\* its failure, nor a steer, nor the queueing of a failed steer leaves a copy
\* behind, and what the app-server has in its turn is nowhere else.
InOnePlace == \A m \in Messages : \A c, d \in Copies(m) : c = d

\* Nobody has anything left to do with the message, but for the turn it is in.
Settled(m) == Copies(m) \subseteq {<<"turn", m>>}

\* Why a message gets settled: the user takes it out of the queue, the send is
\* blocked before anything is asked of the app-server, the app-server takes
\* it into a turn, or refuses it and says so in the answer or in an error.
SettledFor(m) ==
  \/ removeQueuedMessage(m)
  \/ \E s \in sending : s.of = m /\ sendBlocked(s)
  \/ m \in inTurn'
  \/ \E a \in answers' : a.of = m /\ a.expects = None /\ a.result # "ok"
  \/ \E i \in DOMAIN notices' : notices'[i] = [kind |-> "error", turn |-> m]

\* Every message is settled once and for a reason: whatever the user stops,
\* whichever sends and steers fail and in whatever order answers and
\* notifications arrive, no step loses a message in another way and none sends
\* one again that was dealt with.
SettledOnce ==
  [][\A m \in Messages : IF Settled(m) THEN Settled(m)'
                                        ELSE Settled(m)' => SettledFor(m)]_vars
=============================================================================
