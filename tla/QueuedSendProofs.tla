-------------------------- MODULE QueuedSendProofs --------------------------
(***************************************************************************)
(* Proofs about QueuedSend.  For any number of messages: a message is in   *)
(* one place at a time, and is settled once and for a reason.              *)
(***************************************************************************)
EXTENDS QueuedSend, SequenceTheorems, TLAPS

-----------------------------------------------------------------------------
(* Sequences: where a value is after an entry was added at an end, taken   *)
(* from the front or removed from the middle.                              *)

Single(s, m) == \A i, j \in Where(s, m) : i = j

(* Another entry changes nothing. *)
LEMMA AppendOther ==
  ASSUME NEW T, NEW s \in Seq(T), NEW x \in T, NEW m, x # m
  PROVE  Where(Append(s, x), m) = Where(s, m)
BY DEF Where

(* An entry is then the only one. *)
LEMMA AppendFirst ==
  ASSUME NEW T, NEW s \in Seq(T), NEW m \in T, Where(s, m) = {}
  PROVE  Where(Append(s, m), m) = {Len(s) + 1}
BY DEF Where

LEMMA Prepended ==
  ASSUME NEW T, NEW s \in Seq(T), NEW x \in T
  PROVE  /\ <<x>> \o s \in Seq(T)
         /\ Len(<<x>> \o s) = Len(s) + 1
         /\ \A i \in 1..(Len(s) + 1) : (<<x>> \o s)[i] = IF i = 1 THEN x ELSE s[i - 1]
<1>1. <<x>> \in Seq(T) /\ Len(<<x>>) = 1 /\ <<x>>[1] = x
  OBVIOUS
<1> DEFINE h == <<x>>
<1> HIDE DEF h
<1>2. h \in Seq(T) /\ Len(h) = 1 /\ h[1] = x
  BY <1>1 DEF h
<1>3. /\ h \o s \in Seq(T)
      /\ Len(h \o s) = Len(h) + Len(s)
      /\ \A i \in 1..(Len(h) + Len(s)) :
            (h \o s)[i] = IF i <= Len(h) THEN h[i] ELSE s[i - Len(h)]
  BY <1>2, ConcatProperties
<1>4. Len(s) \in Nat
  OBVIOUS
<1>5. ASSUME NEW i \in 1..(Len(s) + 1)
      PROVE  (h \o s)[i] = IF i = 1 THEN x ELSE s[i - 1]
  <2>1. i \in 1..(Len(h) + Len(s)) /\ (i <= Len(h) <=> i = 1)
    BY <1>2, <1>4
  <2> QED BY <1>2, <1>3, <2>1
<1> QED BY <1>2, <1>3, <1>4, <1>5 DEF h

LEMMA PrependOther ==
  ASSUME NEW T, NEW s \in Seq(T), NEW x \in T, NEW m, x # m
  PROVE  /\ Where(<<x>> \o s, m) = {} <=> Where(s, m) = {}
         /\ Single(s, m) => Single(<<x>> \o s, m)
<1> DEFINE w == <<x>> \o s
<1>1. /\ w \in Seq(T) /\ Len(w) = Len(s) + 1
      /\ \A i \in 1..(Len(s) + 1) : w[i] = IF i = 1 THEN x ELSE s[i - 1]
  BY Prepended
<1> HIDE DEF w
<1>2. \A i : i \in Where(w, m) => i - 1 \in Where(s, m) /\ i \in Nat
  BY <1>1 DEF Where
<1>3. \A i : i \in Where(s, m) => i + 1 \in Where(w, m)
  BY <1>1 DEF Where
<1>4. Single(s, m) => Single(w, m)
  BY <1>2 DEF Single
<1> QED BY <1>2, <1>3, <1>4 DEF w

LEMMA PrependFirst ==
  ASSUME NEW T, NEW s \in Seq(T), NEW m \in T, Where(s, m) = {}
  PROVE  Where(<<m>> \o s, m) = {1}
<1> DEFINE w == <<m>> \o s
<1>1. /\ w \in Seq(T) /\ Len(w) = Len(s) + 1
      /\ \A i \in 1..(Len(s) + 1) : w[i] = IF i = 1 THEN m ELSE s[i - 1]
  BY Prepended
<1> HIDE DEF w
<1>2. \A i : i \in Where(w, m) /\ i # 1 => i - 1 \in Where(s, m)
  BY <1>1 DEF Where
<1>3. 1 \in Where(w, m)
  BY <1>1 DEF Where
<1>4. Where(w, m) = {1}
  BY <1>2, <1>3
<1> QED BY <1>4 DEF w

LEMMA TailOther ==
  ASSUME NEW T, NEW s \in Seq(T), s # <<>>, NEW m, Head(s) # m
  PROVE  /\ Where(Tail(s), m) = {} <=> Where(s, m) = {}
         /\ Single(s, m) => Single(Tail(s), m)
<1>1. /\ Len(Tail(s)) = Len(s) - 1 /\ Tail(s) \in Seq(T)
      /\ \A i \in 1..Len(Tail(s)) : Tail(s)[i] = s[i + 1]
      /\ Head(s) = s[1]
  OBVIOUS
<1>2. \A i : i \in Where(Tail(s), m) => i + 1 \in Where(s, m) /\ i \in Nat
  BY <1>1 DEF Where
<1>3. \A i : i \in Where(s, m) => i - 1 \in Where(Tail(s), m)
  BY <1>1 DEF Where
<1> QED BY <1>2, <1>3 DEF Single

LEMMA TailOnly ==
  ASSUME NEW T, NEW s \in Seq(T), s # <<>>, NEW m, Head(s) = m, Single(s, m)
  PROVE  Where(Tail(s), m) = {}
<1>1. /\ Len(Tail(s)) = Len(s) - 1 /\ Tail(s) \in Seq(T)
      /\ \A i \in 1..Len(Tail(s)) : Tail(s)[i] = s[i + 1]
      /\ Head(s) = s[1] /\ Len(s) > 0
  OBVIOUS
<1>2. 1 \in Where(s, m)
  BY <1>1 DEF Where
<1>3. \A i : i \in Where(Tail(s), m) => i + 1 \in Where(s, m) /\ i \in Nat \ {0}
  BY <1>1 DEF Where
<1> QED BY <1>2, <1>3 DEF Single

Without(s, i) == SubSeq(s, 1, i - 1) \o SubSeq(s, i + 1, Len(s))

LEMMA WithoutEntries ==
  ASSUME NEW T, NEW s \in Seq(T), NEW i \in DOMAIN s
  PROVE  /\ Without(s, i) \in Seq(T)
         /\ Len(Without(s, i)) = Len(s) - 1
         /\ \A j \in 1..(Len(s) - 1) :
               Without(s, i)[j] = IF j < i THEN s[j] ELSE s[j + 1]
<1>1. i \in 1..Len(s) /\ Len(s) \in Nat
  OBVIOUS
<1>2. /\ SubSeq(s, 1, i - 1) \in Seq(T)
      /\ Len(SubSeq(s, 1, i - 1)) = i - 1
      /\ \A j \in 1..(i - 1) : SubSeq(s, 1, i - 1)[j] = s[j]
  BY <1>1
<1>3. /\ SubSeq(s, i + 1, Len(s)) \in Seq(T)
      /\ Len(SubSeq(s, i + 1, Len(s))) = Len(s) - i
      /\ \A j \in 1..(Len(s) - i) : SubSeq(s, i + 1, Len(s))[j] = s[i + j]
  BY <1>1
<1> DEFINE a == SubSeq(s, 1, i - 1)
           b == SubSeq(s, i + 1, Len(s))
<1> HIDE DEF a, b
<1>4. /\ a \o b \in Seq(T)
      /\ Len(a \o b) = Len(a) + Len(b)
      /\ \A j \in 1..(Len(a) + Len(b)) :
            (a \o b)[j] = IF j <= Len(a) THEN a[j] ELSE b[j - Len(a)]
  BY <1>2, <1>3 DEF a, b
<1>5. /\ Len(a) = i - 1 /\ Len(b) = Len(s) - i
      /\ \A j \in 1..(i - 1) : a[j] = s[j]
      /\ \A j \in 1..(Len(s) - i) : b[j] = s[i + j]
  BY <1>2, <1>3 DEF a, b
<1>6. \A j \in 1..(Len(s) - 1) :
         (a \o b)[j] = IF j < i THEN s[j] ELSE s[j + 1]
  <2> SUFFICES ASSUME NEW j \in 1..(Len(s) - 1)
               PROVE  (a \o b)[j] = IF j < i THEN s[j] ELSE s[j + 1]
    OBVIOUS
  <2>1. CASE j < i
    BY <1>1, <1>4, <1>5, <2>1
  <2>2. CASE ~(j < i)
    <3>1. j - (i - 1) \in 1..(Len(s) - i) /\ i + (j - (i - 1)) = j + 1
      BY <1>1, <2>2
    <3>2. (a \o b)[j] = b[j - (i - 1)]
      <4>1. j \in 1..(Len(a) + Len(b)) /\ ~(j <= Len(a)) /\ Len(a) = i - 1
        BY <1>1, <1>5, <2>2
      <4> QED BY <4>1, <1>4
    <3>3. b[j - (i - 1)] = s[i + (j - (i - 1))]
      BY <3>1, <1>5
    <3> QED BY <3>1, <3>2, <3>3, <2>2
  <2> QED BY <2>1, <2>2
<1>7. Without(s, i) = a \o b
  BY DEF Without, a, b
<1>8. Len(a) + Len(b) = Len(s) - 1
  BY <1>1, <1>5
<1> QED BY <1>4, <1>6, <1>7, <1>8

LEMMA WithoutOther ==
  ASSUME NEW T, NEW s \in Seq(T), NEW i \in DOMAIN s, NEW m, s[i] # m
  PROVE  /\ Where(Without(s, i), m) = {} <=> Where(s, m) = {}
         /\ Single(s, m) => Single(Without(s, i), m)
<1> DEFINE w == Without(s, i)
<1>1. /\ w \in Seq(T) /\ Len(w) = Len(s) - 1
      /\ \A j \in 1..(Len(s) - 1) : w[j] = IF j < i THEN s[j] ELSE s[j + 1]
  BY WithoutEntries
<1> HIDE DEF w
<1>2. \A j : j \in Where(w, m) =>
         /\ j \in Nat
         /\ IF j < i THEN j \in Where(s, m) ELSE j + 1 \in Where(s, m)
  BY <1>1 DEF Where
<1>3. \A j : j \in Where(s, m) =>
         IF j < i THEN j \in Where(w, m) ELSE j - 1 \in Where(w, m)
  BY <1>1 DEF Where
<1>4. Single(s, m) => Single(w, m)
  BY <1>2 DEF Single
<1> QED BY <1>2, <1>3, <1>4 DEF w

LEMMA WithoutOnly ==
  ASSUME NEW T, NEW s \in Seq(T), NEW i \in DOMAIN s, NEW m, s[i] = m, Single(s, m)
  PROVE  Where(Without(s, i), m) = {}
<1> DEFINE w == Without(s, i)
<1>1. /\ w \in Seq(T) /\ Len(w) = Len(s) - 1
      /\ \A j \in 1..(Len(s) - 1) : w[j] = IF j < i THEN s[j] ELSE s[j + 1]
  BY WithoutEntries
<1> HIDE DEF w
<1>2. \A j : j \in Where(w, m) =>
         /\ j \in Nat
         /\ IF j < i THEN j \in Where(s, m) ELSE j + 1 \in Where(s, m)
  BY <1>1 DEF Where
<1>3. i \in Where(s, m) /\ i \in Nat
  BY DEF Where
<1>4. Where(w, m) = {}
  BY <1>2, <1>3 DEF Single
<1> QED BY <1>4 DEF w

-----------------------------------------------------------------------------
(* Types *)

LEMMA InitTypes == Init => TypeOK
<1> SUFFICES ASSUME Init PROVE TypeOK
  OBVIOUS
<1>1. queue \in Seq(Messages) /\ notices \in Seq(Notice) /\ ops \in Seq(MaybeTurn)
  BY DEF Init
<1>2. stops \in [MaybeTurn -> Nat] /\ None \in MaybeTurn
  BY DEF Init, MaybeTurn
<1> QED BY <1>1, <1>2 DEF Init, TypeOK, Status

(* A published status and the notice after it. *)
LEMMA NotifyTypes ==
  ASSUME TypeOK, NEW new \in Status, NEW kind \in {"started", "completed", "error"},
         NEW t \in MaybeTurn, Notify(new, kind, t)
  PROVE  notices' \in Seq(Notice) /\ status' \in Status
<1> DEFINE x == [kind |-> new, turn |-> None]
           y == [kind |-> kind, turn |-> t]
           n == IF new = status THEN notices ELSE Append(notices, x)
<1>1. x \in Notice /\ y \in Notice
  BY DEF Notice, MaybeTurn
<1>2. notices \in Seq(Notice)
  BY DEF TypeOK
<1> HIDE DEF x, y
<1>3. n \in Seq(Notice) /\ <<y>> \in Seq(Notice)
  BY <1>1, <1>2
<1>4. notices' = n \o <<y>> /\ status' = new
  BY DEF Notify, x, y
<1> HIDE DEF n
<1>5. n \o <<y>> \in Seq(Notice)
  BY <1>3, ConcatProperties
<1> QED BY <1>4, <1>5

(* The end of a turn. *)
LEMMA EndTurnTypes ==
  ASSUME TypeOK, EndTurn
  PROVE  /\ notices' \in Seq(Notice) /\ status' \in Status
         /\ turn' \in MaybeTurn /\ inTurn' \subseteq Messages /\ failing' \in BOOLEAN
         /\ ended' \in MaybeTurn /\ unfinished' \subseteq Messages
         /\ queueOnly' \in BOOLEAN
<1> DEFINE new == IF status = "active" THEN "idle" ELSE status
<1>1. new \in Status /\ turn \in MaybeTurn
  BY DEF TypeOK, Status
<1>2. Notify(new, "completed", turn)
  BY DEF EndTurn
<1> HIDE DEF new
<1>3. notices' \in Seq(Notice) /\ status' \in Status
  BY <1>1, <1>2, NotifyTypes
<1> QED BY <1>3 DEF EndTurn, Unfinished, TypeOK, MaybeTurn

LEMMA RunMessageTypes ==
  ASSUME TypeOK, NEW m \in Messages, RunMessage(m)
  PROVE  /\ notices' \in Seq(Notice) /\ status' \in Status
         /\ turn' \in MaybeTurn /\ inTurn' \subseteq Messages /\ failing' \in BOOLEAN
         /\ ended' \in MaybeTurn /\ unfinished' \subseteq Messages
         /\ queueOnly' \in BOOLEAN
<1>1. m \in MaybeTurn /\ "active" \in Status /\ "systemError" \in Status
  BY DEF MaybeTurn, Status
<1>2. CASE Notify("active", "started", m) \/ Notify("systemError", "error", m)
  <2>1. notices' \in Seq(Notice) /\ status' \in Status
    BY <1>1, <1>2, NotifyTypes
  <2> QED BY <1>1, <2>1 DEF RunMessage, Unfinished, TypeOK, history
<1>3. CASE UNCHANGED <<status, notices>>
  <2>1. notices' \in Seq(Notice) /\ status' \in Status
    BY <1>3 DEF TypeOK
  <2> QED BY <1>1, <2>1 DEF RunMessage, Unfinished, TypeOK, history
<1> QED BY <1>2, <1>3 DEF RunMessage

(* Every step keeps the types. *)
LEMMA NextTypes == TypeOK /\ [Next]_vars => TypeOK'
<1> SUFFICES ASSUME TypeOK, [Next]_vars PROVE TypeOK'
  OBVIOUS
<1>0. /\ \A m \in Messages : m \in MaybeTurn
      /\ None \in MaybeTurn
      /\ \A m \in Messages, t \in MaybeTurn, b \in BOOLEAN :
            [of |-> m, expects |-> t, flushed |-> b] \in Sending
  BY DEF MaybeTurn, Sending
<1>00. /\ \A m \in Messages : Append(queue, m) \in Seq(Messages)
       /\ \A t \in MaybeTurn : Append(ops, t) \in Seq(MaybeTurn)
       /\ queue \in Seq(Messages) /\ ops \in Seq(MaybeTurn)
  <2>1. queue \in Seq(Messages) /\ ops \in Seq(MaybeTurn)
    BY DEF TypeOK
  <2> QED BY <2>1, AppendProperties
<1>1. ASSUME NEW m \in Messages, handleSend(m) PROVE TypeOK'
  <2>1. sending' \subseteq Sending
    <3>1. /\ activeTurn \in MaybeTurn /\ sending \subseteq Sending
      BY DEF TypeOK
    <3>2. \/ sending' = sending
          \/ sending' = sending \cup {[of |-> m, expects |-> None, flushed |-> FALSE]}
          \/ sending' = sending \cup {[of |-> m, expects |-> activeTurn, flushed |-> FALSE]}
      BY <1>1 DEF handleSend, sendUserMessage
    <3>3. /\ [of |-> m, expects |-> None, flushed |-> FALSE] \in Sending
          /\ [of |-> m, expects |-> activeTurn, flushed |-> FALSE] \in Sending
      BY <1>0, <3>1
    <3> QED BY <3>1, <3>2, <3>3
  <2>2. queue' \in {queue, Append(queue, m)}
    BY <1>1 DEF handleSend
  <2>3. queue' \in Seq(Messages)
    BY <1>00, <2>2
  <2>4. queueOnly' \in BOOLEAN /\ unfinished' \subseteq Messages
    BY <1>1 DEF handleSend, PastTheQueue, TypeOK, history
  <2> QED BY <1>1, <2>1, <2>3, <2>4 DEF TypeOK, handleSend, thread, refs, session
<1>2. ASSUME NEW m \in Messages, queueMessage(m) PROVE TypeOK'
  BY <1>2 DEF TypeOK, queueMessage, thread, refs, session, history
<1>3. ASSUME NEW m \in Messages, removeQueuedMessage(m) PROVE TypeOK'
  <2>1. PICK i \in DOMAIN queue : queue' = Without(queue, i)
    BY <1>3 DEF removeQueuedMessage, Without
  <2>2. queue' \in Seq(Messages)
    BY <2>1, WithoutEntries DEF TypeOK
  <2> QED BY <1>3, <2>2 DEF TypeOK, removeQueuedMessage, thread, refs, session, history
<1>4. CASE TrackInFlight
  BY <1>4 DEF TypeOK, TrackInFlight, MaybeTurn, thread, refs, session, history
<1>5. CASE FlushQueue
  <2>1. Head(queue) \in Messages /\ Tail(queue) \in Seq(Messages)
    BY <1>5 DEF FlushQueue, TypeOK
  <2>2. /\ queue' = Tail(queue) /\ inFlight' = Head(queue) /\ hasStarted' = FALSE
        /\ sending' = sending \cup {[of |-> Head(queue), expects |-> None, flushed |-> TRUE]}
        /\ unfinished' \subseteq unfinished \cup {Head(queue)} /\ queueOnly' = queueOnly
        /\ UNCHANGED <<unwritten, thread, refs, requests, stops, answers, notices, ops,
                       session>>
    BY <1>5 DEF FlushQueue, sendUserMessage, Unfinished
  <2>3. sending' \subseteq Sending
    <3>1. sending \subseteq Sending
      BY DEF TypeOK
    <3> QED BY <1>0, <2>1, <2>2, <3>1
  <2> QED BY <1>0, <2>1, <2>2, <2>3 DEF TypeOK, thread, refs, session
<1>6. ASSUME NEW s \in sending, flushFails(s) PROVE TypeOK'
  <2>1. s.of \in Messages
    BY <1>6 DEF TypeOK, Sending
  <2>2. queue' \in Seq(Messages)
    BY <1>6, <2>1, Prepended DEF flushFails, TypeOK
  <2> QED BY <1>6, <2>1, <2>2 DEF TypeOK, flushFails, Unfinished, MaybeTurn, thread, refs,
                                  session
<1>7. ASSUME NEW s \in sending, sendBlocked(s) PROVE TypeOK'
  BY <1>7 DEF TypeOK, sendBlocked, Unfinished, thread, refs, session
<1>8. ASSUME NEW s \in sending, sendMessageToThread(s) PROVE TypeOK'
  <2>1. [of |-> s.of, expects |-> s.expects] \in Request
    BY <1>8 DEF TypeOK, Sending, Request
  <2> QED BY <1>8, <2>1 DEF TypeOK, sendMessageToThread, refs, session, history
<1>9. CASE interruptTurn
  <2>1. stops' \in [MaybeTurn -> Nat]
    BY <1>9 DEF TypeOK, interruptTurn
  <2> QED BY <1>9, <2>1 DEF TypeOK, interruptTurn, PastTheQueue, MaybeTurn, composer, session
<1>10. ASSUME NEW a \in answers, StartAnswered(a) PROVE TypeOK'
  <2>1. a.of \in MaybeTurn
    BY <1>0, <1>10 DEF TypeOK, Answer
  <2> QED BY <1>10, <2>1 DEF TypeOK, StartAnswered, MaybeTurn, composer, refs, session, history
<1>11. ASSUME NEW a \in answers, SteerAnswered(a) PROVE TypeOK'
  <2>1. a.expects \in MaybeTurn /\ a.of \in Messages
    BY <1>11 DEF TypeOK, Answer
  <2>2. queue' \in {queue, Append(queue, a.of)}
    BY <1>11 DEF SteerAnswered
  <2>3. queue' \in Seq(Messages)
    BY <1>00, <2>1, <2>2
  <2>4. activeTurn' \in MaybeTurn /\ processing' \in BOOLEAN /\ answers' \subseteq answers
    BY <1>11, <2>1 DEF TypeOK, SteerAnswered, MaybeTurn, thread
  <2>5. UNCHANGED <<unwritten, inFlight, hasStarted, sending, refs, requests, stops, notices,
                    ops, session, history>>
    BY <1>11 DEF SteerAnswered
  <2> QED BY <2>3, <2>4, <2>5 DEF TypeOK, refs, session, history
<1>12. ASSUME notices # <<>>
       PROVE  Tail(notices) \in Seq(Notice) /\ Head(notices).turn \in MaybeTurn
  <2>1. Head(notices) \in Notice /\ Tail(notices) \in Seq(Notice)
    BY <1>12 DEF TypeOK
  <2> QED BY <2>1 DEF Notice
<1>13. CASE onTurnStarted
  <2>1. notices' \in Seq(Notice) /\ Head(notices).turn \in MaybeTurn
    BY <1>12, <1>13 DEF onTurnStarted
  <2>2. stops' \in [MaybeTurn -> Nat]
    <3>1. \/ stops' = stops
          \/ stops' = [stops EXCEPT ![Head(notices).turn] = stops[Head(notices).turn] + 1]
      BY <1>13 DEF onTurnStarted
    <3>2. stops \in [MaybeTurn -> Nat]
      BY DEF TypeOK
    <3> QED BY <2>1, <3>1, <3>2
  <2> QED BY <1>13, <2>1, <2>2 DEF TypeOK, onTurnStarted, composer, thread, session, history
<1>14. CASE onThreadStatusChanged
  <2>1. notices' \in Seq(Notice)
    BY <1>12, <1>14 DEF onThreadStatusChanged
  <2> QED BY <1>14, <2>1 DEF TypeOK, onThreadStatusChanged, ThreadIsIdle, MaybeTurn, composer,
                             session, history
<1>15. CASE onTurnEnded
  <2>1. notices' \in Seq(Notice)
    BY <1>12, <1>15 DEF onTurnEnded
  <2>2. getLatestKnownActiveTurnId \in MaybeTurn /\ KeepsOptimistic \in BOOLEAN
    BY DEF TypeOK, getLatestKnownActiveTurnId, KeepsOptimistic
  <2> QED BY <1>15, <2>1, <2>2 DEF TypeOK, onTurnEnded, ThreadIsIdle, MaybeTurn, composer,
                                   thread, session, history
<1>16. ASSUME NEW r \in requests, turn_start(r) PROVE TypeOK'
  <2>1. r.of \in Messages /\ r.expects \in MaybeTurn
    BY <1>16 DEF TypeOK, Request
  <2>2. answers' \subseteq Answer
    BY <1>16, <2>1 DEF turn_start, Reply, Answer, TypeOK
  <2>3. ops' \in {ops, Append(ops, r.of)}
    BY <1>16 DEF turn_start
  <2>4. ops' \in Seq(MaybeTurn)
    BY <1>0, <1>00, <2>1, <2>3
  <2> QED BY <1>16, <2>2, <2>4 DEF TypeOK, turn_start, Unfinished, composer, thread, refs,
                                   session, history
<1>17. ASSUME NEW r \in requests, turn_steer(r) PROVE TypeOK'
  <2>1. r.of \in Messages /\ r.expects \in MaybeTurn
    BY <1>17 DEF TypeOK, Request
  <2>2. answers' \subseteq Answer
    BY <1>17, <2>1 DEF turn_steer, Reply, Answer, TypeOK
  <2> QED BY <1>17, <2>1, <2>2 DEF TypeOK, turn_steer, composer, thread, refs, history
<1>18. ASSUME NEW t \in MaybeTurn, turn_interrupt(t) PROVE TypeOK'
  <2>1. stops' \in [MaybeTurn -> Nat]
    BY <1>18 DEF TypeOK, turn_interrupt
  <2>2. ops' \in {ops, Append(ops, None)} /\ None \in MaybeTurn
    BY <1>18 DEF turn_interrupt, MaybeTurn
  <2>3. ops' \in Seq(MaybeTurn)
    BY <1>00, <2>2
  <2> QED BY <1>18, <2>1, <2>3 DEF TypeOK, turn_interrupt, composer, thread, refs, session,
                                   history
<1>19. CASE submission_loop
  <2>1. ops' \in Seq(MaybeTurn) /\ Head(ops) \in MaybeTurn
    BY <1>19 DEF submission_loop, TypeOK
  <2>2. /\ notices' \in Seq(Notice) /\ status' \in Status
        /\ turn' \in MaybeTurn /\ inTurn' \subseteq Messages /\ failing' \in BOOLEAN
        /\ ended' \in MaybeTurn /\ unfinished' \subseteq Messages
        /\ queueOnly' \in BOOLEAN
    <3>1. CASE Head(ops) # None /\ RunMessage(Head(ops))
      BY <2>1, <3>1, RunMessageTypes DEF MaybeTurn
    <3>2. CASE EndTurn
      BY <3>2, EndTurnTypes
    <3>3. CASE UNCHANGED <<session, notices, history>>
      BY <3>3 DEF session, history, TypeOK
    <3> QED BY <1>19, <3>1, <3>2, <3>3 DEF submission_loop
  <2> QED BY <1>19, <2>1, <2>2 DEF TypeOK, submission_loop, composer, thread, refs
<1>20. CASE TurnFails
  <2>1. turn \in MaybeTurn /\ "systemError" \in Status /\ Notify("systemError", "error", turn)
    BY <1>20 DEF TurnFails, TypeOK, Status
  <2>2. notices' \in Seq(Notice) /\ status' \in Status
    BY <2>1, NotifyTypes
  <2> QED BY <1>20, <2>2 DEF TypeOK, TurnFails, Unfinished, composer, thread, refs
<1>21. CASE TurnCompletes
  BY <1>21, EndTurnTypes DEF TypeOK, TurnCompletes, composer, thread, refs
<1>22. CASE UNCHANGED vars
  BY <1>22 DEF TypeOK, vars, composer, thread, refs, session, history
<1> QED BY <1>1, <1>2, <1>3, <1>4, <1>5, <1>6, <1>7, <1>8, <1>9, <1>10, <1>11, <1>13, <1>14,
           <1>15, <1>16, <1>17, <1>18, <1>19, <1>20, <1>21, <1>22 DEF Next

(* The state of the hooks, of the app-server and of the channels between    *)
(* them is well formed.                                                    *)
THEOREM TypeCorrect == Spec => []TypeOK
BY InitTypes, NextTypes, PTL DEF Spec

-----------------------------------------------------------------------------
(* Every message in one place.                                             *)
(*                                                                         *)
(* The inductive invariant names the place: whatever is of the message is  *)
(* there, and there once.                                                  *)

PlaceNames == {"unwritten", "queue", "send", "request", "op", "answer", "turn"}

OnlyIn(m, p) ==
  /\ p # "unwritten" => m \notin unwritten
  /\ p # "queue" => Where(queue, m) = {}
  /\ p # "send" => Of(sending, m) = {}
  /\ p # "request" => Of(requests, m) = {}
  /\ p # "op" => Where(ops, m) = {}
  /\ p # "answer" => Returned(m) = {}
  /\ p # "turn" => m \notin inTurn
  /\ Single(queue, m) /\ Single(ops, m)
  /\ \A x, y \in Of(sending, m) : x = y
  /\ \A x, y \in Of(requests, m) : x = y
  /\ \A x, y \in Returned(m) : x = y

EachHasAPlace == \A m \in Messages : \E p \in PlaceNames : OnlyIn(m, p)

LEMMA OnePlaceEach == EachHasAPlace => InOnePlace
<1> SUFFICES ASSUME NEW m \in Messages, NEW p \in PlaceNames, OnlyIn(m, p),
                    NEW c \in Copies(m), NEW d \in Copies(m)
             PROVE  c = d
  BY DEF EachHasAPlace, InOnePlace
<1>1. CASE p = "unwritten"
  BY <1>1 DEF OnlyIn, Copies
<1>2. CASE p = "queue"
  BY <1>2 DEF OnlyIn, Copies, Single
<1>3. CASE p = "send"
  BY <1>3 DEF OnlyIn, Copies
<1>4. CASE p = "request"
  BY <1>4 DEF OnlyIn, Copies
<1>5. CASE p = "op"
  BY <1>5 DEF OnlyIn, Copies, Single
<1>6. CASE p = "answer"
  BY <1>6 DEF OnlyIn, Copies
<1>7. CASE p = "turn"
  BY <1>7 DEF OnlyIn, Copies
<1> QED BY <1>1, <1>2, <1>3, <1>4, <1>5, <1>6, <1>7 DEF PlaceNames

(* What it means to be settled. *)
Nowhere(m) ==
  /\ m \notin unwritten
  /\ Where(queue, m) = {} /\ Where(ops, m) = {}
  /\ Of(sending, m) = {} /\ Of(requests, m) = {} /\ Returned(m) = {}

LEMMA SettledIsNowhere == \A m \in Messages : Settled(m) <=> Nowhere(m)
<1> SUFFICES ASSUME NEW m \in Messages PROVE Settled(m) <=> Nowhere(m)
  OBVIOUS
<1>1. ASSUME Nowhere(m) PROVE Settled(m)
  BY <1>1 DEF Nowhere, Settled, Copies
<1>2. ASSUME Settled(m) PROVE Nowhere(m)
  <2>1. \A x : <<"unwritten", x>> \notin Copies(m)
    BY <1>2 DEF Settled
  <2>2. \A x : <<"queue", x>> \notin Copies(m) /\ <<"op", x>> \notin Copies(m)
    BY <1>2 DEF Settled
  <2>3. \A x : <<"send", x>> \notin Copies(m) /\ <<"request", x>> \notin Copies(m)
    BY <1>2 DEF Settled
  <2>4. \A x : <<"answer", x>> \notin Copies(m)
    BY <1>2 DEF Settled
  <2>5. m \notin unwritten
    BY <2>1 DEF Copies
  <2>6. Where(queue, m) = {} /\ Where(ops, m) = {}
    BY <2>2 DEF Copies
  <2>7. Of(sending, m) = {} /\ Of(requests, m) = {}
    BY <2>3 DEF Copies
  <2>8. Returned(m) = {}
    BY <2>4 DEF Copies
  <2> QED BY <2>5, <2>6, <2>7, <2>8 DEF Nowhere
<1> QED BY <1>1, <1>2

LEMMA SettledIsNowhereNext == (\A m \in Messages : Settled(m) <=> Nowhere(m))'
BY SettledIsNowhere, PTL

(* One step of one message: it still has a place, and is settled as it     *)
(* should be.                                                              *)
SettledStep(m) == IF Settled(m) THEN Settled(m)' ELSE Settled(m)' => SettledFor(m)
OneStep(m) == (\E q \in PlaceNames : OnlyIn(m, q)') /\ SettledStep(m)

(* The step leaves m where it is, or takes it out of the turn. *)
Stays(m) ==
  /\ m \in unwritten' <=> m \in unwritten
  /\ Where(queue', m) = {} <=> Where(queue, m) = {}
  /\ Single(queue, m) => Single(queue', m)
  /\ Where(ops', m) = {} <=> Where(ops, m) = {}
  /\ Single(ops, m) => Single(ops', m)
  /\ Of(sending', m) = Of(sending, m)
  /\ Of(requests', m) = Of(requests, m)
  /\ Returned(m)' = Returned(m)
  /\ m \in inTurn' => m \in inTurn

LEMMA StaysInPlace ==
  ASSUME NEW m \in Messages, NEW p \in PlaceNames, OnlyIn(m, p), Stays(m)
  PROVE  OneStep(m)
<1>1. Nowhere(m)' <=> Nowhere(m)
  BY DEF Stays, Nowhere
<1>2. Settled(m)' <=> Settled(m)
  BY <1>1, SettledIsNowhere, SettledIsNowhereNext
<1>3. OnlyIn(m, p)'
  BY DEF Stays, OnlyIn
<1> QED BY <1>2, <1>3 DEF OneStep, SettledStep

(* The step takes m from one place to another. *)
LEMMA MovesTo ==
  ASSUME NEW m \in Messages, NEW q \in PlaceNames, ~Nowhere(m), OnlyIn(m, q)',
         Nowhere(m)' => SettledFor(m)
  PROVE  OneStep(m)
BY SettledIsNowhere, SettledIsNowhereNext DEF OneStep, SettledStep

(* Sets of calls, requests and answers. *)
LEMMA OfOther ==
  ASSUME NEW S, NEW y, NEW m, y.of # m
  PROVE  Of(S \cup {y}, m) = Of(S, m) /\ Of(S \ {y}, m) = Of(S, m)
BY DEF Of

LEMMA OfFirst ==
  ASSUME NEW S, NEW y, NEW m, y.of = m, Of(S, m) = {}
  PROVE  Of(S \cup {y}, m) = {y}
BY DEF Of

LEMMA OfOnly ==
  ASSUME NEW S, NEW y \in S, NEW m, y.of = m, \A a, b \in Of(S, m) : a = b
  PROVE  Of(S \ {y}, m) = {} /\ Of(S, m) # {}
BY DEF Of

LEMMA NothingMoves ==
  ASSUME NEW m \in Messages, NEW p \in PlaceNames, OnlyIn(m, p),
         UNCHANGED <<unwritten, queue, sending, requests, ops>>,
         Returned(m)' = Returned(m), inTurn' \subseteq inTurn
  PROVE  OneStep(m)
<1>1. Stays(m)
  BY DEF Stays
<1> QED BY <1>1, StaysInPlace

(* A message written goes into the queue ... *)
LEMMA WrittenIsQueued ==
  ASSUME TypeOK, NEW m \in Messages, NEW p \in PlaceNames, OnlyIn(m, p),
         NEW x \in unwritten, unwritten' = unwritten \ {x}, queue' = Append(queue, x),
         UNCHANGED <<sending, requests, ops, answers, inTurn>>
  PROVE  OneStep(m)
<1>1. queue \in Seq(Messages) /\ x \in Messages
  BY DEF TypeOK
<1>2. Returned(m)' = Returned(m)
  BY DEF Returned, Of
<1>3. CASE m # x
  <2>1. Where(queue', m) = Where(queue, m)
    BY <1>1, <1>3, AppendOther
  <2>2. Stays(m)
    BY <1>2, <1>3, <2>1 DEF Stays, Single
  <2> QED BY <2>2, StaysInPlace
<1>4. CASE m = x
  <2>1. p = "unwritten" /\ ~Nowhere(m)
    BY <1>4 DEF OnlyIn, Nowhere
  <2>2. Where(queue, m) = {}
    BY <2>1 DEF OnlyIn
  <2>3. Where(queue', m) = {Len(queue) + 1}
    BY <1>1, <1>4, <2>2, AppendFirst
  <2>4. OnlyIn(m, "queue")' /\ ~Nowhere(m)'
    BY <1>2, <1>4, <2>1, <2>3 DEF OnlyIn, Nowhere, Single
  <2> QED BY <2>1, <2>4, MovesTo DEF PlaceNames
<1> QED BY <1>3, <1>4

(* ... or into a call of sendUserMessage. *)
LEMMA WrittenIsSent ==
  ASSUME NEW m \in Messages, NEW p \in PlaceNames, OnlyIn(m, p),
         NEW x \in unwritten, unwritten' = unwritten \ {x},
         NEW y, y.of = x, sending' = sending \cup {y},
         UNCHANGED <<queue, requests, ops, answers, inTurn>>
  PROVE  OneStep(m)
<1>1. Returned(m)' = Returned(m)
  BY DEF Returned, Of
<1>2. CASE m # x
  <2>1. Of(sending', m) = Of(sending, m)
    BY <1>2, OfOther
  <2>2. Stays(m)
    BY <1>1, <1>2, <2>1 DEF Stays
  <2> QED BY <2>2, StaysInPlace
<1>3. CASE m = x
  <2>1. p = "unwritten" /\ ~Nowhere(m)
    BY <1>3 DEF OnlyIn, Nowhere
  <2>2. Of(sending, m) = {}
    BY <2>1 DEF OnlyIn
  <2>3. Of(sending', m) = {y}
    BY <1>3, <2>2, OfFirst
  <2>4. OnlyIn(m, "send")' /\ ~Nowhere(m)'
    BY <1>1, <1>3, <2>1, <2>3 DEF OnlyIn, Nowhere
  <2> QED BY <2>1, <2>4, MovesTo DEF PlaceNames
<1> QED BY <1>2, <1>3

(* The user takes a message out of the queue. *)
LEMMA QueuedIsRemoved ==
  ASSUME TypeOK, NEW m \in Messages, NEW p \in PlaceNames, OnlyIn(m, p),
         NEW x \in Messages, removeQueuedMessage(x)
  PROVE  OneStep(m)
<1>1. PICK i \in DOMAIN queue : queue[i] = x /\ queue' = Without(queue, i)
  BY DEF removeQueuedMessage, Without
<1>2. UNCHANGED <<unwritten, sending, requests, ops, answers, inTurn>>
  BY DEF removeQueuedMessage, session
<1>3. queue \in Seq(Messages)
  BY DEF TypeOK
<1>4. Returned(m)' = Returned(m)
  BY <1>2 DEF Returned, Of
<1>5. CASE m # x
  <2>1. /\ Where(queue', m) = {} <=> Where(queue, m) = {}
        /\ Single(queue, m) => Single(queue', m)
    BY <1>1, <1>3, <1>5, WithoutOther
  <2>2. Stays(m)
    BY <1>2, <1>4, <2>1 DEF Stays
  <2> QED BY <2>2, StaysInPlace
<1>6. CASE m = x
  <2>1. Where(queue, m) # {} /\ Single(queue, m)
    BY <1>1, <1>6 DEF Where, OnlyIn
  <2>2. p = "queue" /\ ~Nowhere(m)
    BY <2>1 DEF OnlyIn, Nowhere
  <2>3. Where(queue', m) = {}
    BY <1>1, <1>3, <1>6, <2>1, WithoutOnly
  <2>4. OnlyIn(m, "queue")'
    BY <1>2, <1>4, <2>2, <2>3 DEF OnlyIn, Single
  <2>5. SettledFor(m)
    BY <1>6 DEF SettledFor
  <2> QED BY <2>2, <2>4, <2>5, MovesTo DEF PlaceNames
<1> QED BY <1>5, <1>6

(* The head of the queue is flushed. *)
LEMMA QueuedIsSent ==
  ASSUME TypeOK, NEW m \in Messages, NEW p \in PlaceNames, OnlyIn(m, p),
         queue # <<>>, queue' = Tail(queue),
         NEW y, y.of = Head(queue), sending' = sending \cup {y},
         UNCHANGED <<unwritten, requests, ops, answers, inTurn>>
  PROVE  OneStep(m)
<1>1. queue \in Seq(Messages)
  BY DEF TypeOK
<1>2. Returned(m)' = Returned(m)
  BY DEF Returned, Of
<1>3. CASE m # Head(queue)
  <2>1. /\ Where(queue', m) = {} <=> Where(queue, m) = {}
        /\ Single(queue, m) => Single(queue', m)
    BY <1>1, <1>3, TailOther
  <2>2. Of(sending', m) = Of(sending, m)
    BY <1>3, OfOther
  <2>3. Stays(m)
    BY <1>2, <2>1, <2>2 DEF Stays
  <2> QED BY <2>3, StaysInPlace
<1>4. CASE m = Head(queue)
  <2>1. 1 \in Where(queue, m)
    BY <1>1, <1>4 DEF Where
  <2>2. p = "queue" /\ ~Nowhere(m) /\ Single(queue, m) /\ Of(sending, m) = {}
    BY <2>1 DEF OnlyIn, Nowhere
  <2>3. Where(queue', m) = {}
    BY <1>1, <1>4, <2>2, TailOnly
  <2>4. Of(sending', m) = {y}
    BY <1>4, <2>2, OfFirst
  <2>5. OnlyIn(m, "send")' /\ ~Nowhere(m)'
    BY <1>2, <2>2, <2>3, <2>4 DEF OnlyIn, Nowhere, Single
  <2> QED BY <2>2, <2>5, MovesTo DEF PlaceNames
<1> QED BY <1>3, <1>4

(* A send that throws, is blocked or asks the app-server. *)
LEMMA SendGoesOn ==
  ASSUME TypeOK, NEW m \in Messages, NEW p \in PlaceNames, OnlyIn(m, p),
         NEW s \in sending, flushFails(s) \/ sendBlocked(s) \/ sendMessageToThread(s)
  PROVE  OneStep(m)
<1> DEFINE y == [of |-> s.of, expects |-> s.expects]
<1>1. queue \in Seq(Messages) /\ s.of \in Messages /\ y.of = s.of
  BY DEF TypeOK, Sending
<1>2. sending' = sending \ {s} /\ UNCHANGED <<unwritten, ops, answers, inTurn>>
  BY DEF flushFails, sendBlocked, sendMessageToThread, session
<1>3. /\ queue' = queue \/ queue' = <<s.of>> \o queue
      /\ requests' = requests \/ requests' = requests \cup {y}
  BY DEF flushFails, sendBlocked, sendMessageToThread
<1> HIDE DEF y
<1>4. Returned(m)' = Returned(m)
  BY <1>2 DEF Returned, Of
<1>5. CASE m # s.of
  <2>1. /\ Where(queue', m) = {} <=> Where(queue, m) = {}
        /\ Single(queue, m) => Single(queue', m)
    BY <1>1, <1>3, <1>5, PrependOther
  <2>2. Of(sending', m) = Of(sending, m) /\ Of(requests', m) = Of(requests, m)
    <3>1. Of(sending \ {s}, m) = Of(sending, m)
      BY <1>5, OfOther
    <3>2. Of(requests \cup {y}, m) = Of(requests, m)
      BY <1>1, <1>5, OfOther
    <3> QED BY <1>2, <1>3, <3>1, <3>2
  <2>3. Stays(m)
    BY <1>2, <1>4, <2>1, <2>2 DEF Stays
  <2> QED BY <2>3, StaysInPlace
<1>6. CASE m = s.of
  <2>1. Of(sending', m) = {} /\ Of(sending, m) # {}
    BY <1>2, <1>6, OfOnly DEF OnlyIn
  <2>2. p = "send" /\ ~Nowhere(m)
    BY <2>1 DEF OnlyIn, Nowhere
  <2>3. Where(queue, m) = {} /\ Of(requests, m) = {}
    BY <2>2 DEF OnlyIn
  <2>4. CASE flushFails(s)
    <3>1. Where(queue', m) = {1} /\ requests' = requests
      BY <1>1, <1>6, <2>3, <2>4, PrependFirst DEF flushFails
    <3>2. OnlyIn(m, "queue")' /\ ~Nowhere(m)'
      BY <1>2, <1>4, <2>1, <2>2, <3>1 DEF OnlyIn, Nowhere, Single
    <3> QED BY <2>2, <3>2, MovesTo DEF PlaceNames
  <2>5. CASE sendBlocked(s)
    <3>1. OnlyIn(m, "send")'
      BY <1>2, <1>4, <2>1, <2>2, <2>5 DEF OnlyIn, sendBlocked
    <3>2. SettledFor(m)
      BY <1>6, <2>5 DEF SettledFor
    <3> QED BY <2>2, <3>1, <3>2, MovesTo DEF PlaceNames
  <2>6. CASE sendMessageToThread(s)
    <3>1. Of(requests', m) = {y} /\ queue' = queue
      BY <1>1, <1>6, <2>3, <2>6, OfFirst DEF sendMessageToThread, y
    <3>2. OnlyIn(m, "request")' /\ ~Nowhere(m)'
      BY <1>2, <1>4, <2>1, <2>2, <3>1 DEF OnlyIn, Nowhere
    <3> QED BY <2>2, <3>2, MovesTo DEF PlaceNames
  <2> QED BY <2>4, <2>5, <2>6
<1> QED BY <1>5, <1>6

(* An answer: that of a steer that failed holds the message, any other is  *)
(* just dropped.                                                           *)
LEMMA AnswerIsTaken ==
  ASSUME TypeOK, NEW m \in Messages, NEW p \in PlaceNames, OnlyIn(m, p),
         NEW a \in answers, StartAnswered(a) \/ SteerAnswered(a)
  PROVE  OneStep(m)
<1>1. queue \in Seq(Messages) /\ a.of \in Messages
  BY DEF TypeOK, Answer
<1>2. /\ answers' = answers \ {a}
      /\ UNCHANGED <<unwritten, sending, requests, ops, inTurn>>
  BY DEF StartAnswered, SteerAnswered, composer, session
<1>3. IF a.expects # None /\ a.result # "ok"
        THEN queue' = Append(queue, a.of)
        ELSE queue' = queue
  BY DEF StartAnswered, SteerAnswered, composer
<1>4. CASE a \in Returned(m)
  <2>1. a.of = m /\ a.expects # None /\ a.result # "ok"
    BY <1>4 DEF Returned, Of
  <2>2. p = "answer" /\ ~Nowhere(m) /\ Where(queue, m) = {}
    BY <1>4 DEF OnlyIn, Nowhere
  <2>3. Returned(m)' = {}
    BY <1>2, <1>4 DEF Returned, Of, OnlyIn
  <2>4. Where(queue', m) = {Len(queue) + 1}
    BY <1>1, <1>3, <2>1, <2>2, AppendFirst
  <2>5. OnlyIn(m, "queue")' /\ ~Nowhere(m)'
    BY <1>2, <2>2, <2>3, <2>4 DEF OnlyIn, Nowhere, Single
  <2> QED BY <2>2, <2>5, MovesTo DEF PlaceNames
<1>5. CASE a \notin Returned(m)
  <2>1. Returned(m)' = Returned(m)
    BY <1>2, <1>5 DEF Returned, Of
  <2>2. queue' = queue \/ (queue' = Append(queue, a.of) /\ a.of # m)
    BY <1>3, <1>5 DEF Returned, Of
  <2>3. Where(queue', m) = Where(queue, m)
    <3>1. a.of # m => Where(Append(queue, a.of), m) = Where(queue, m)
      BY <1>1, AppendOther
    <3> QED BY <2>2, <3>1
  <2>4. Stays(m)
    BY <1>2, <2>1, <2>3 DEF Stays, Single
  <2> QED BY <2>4, StaysInPlace
<1> QED BY <1>4, <1>5

(* The answers to other messages' requests. *)
LEMMA ReplyToOther ==
  ASSUME NEW m, NEW r, r.of # m, NEW result, Reply(r, result)
  PROVE  Returned(m)' = Returned(m)
BY DEF Reply, Returned, Of

(* turn/start: the message becomes an operation, or the answer says no. *)
LEMMA StartIsTaken ==
  ASSUME TypeOK, NEW m \in Messages, NEW p \in PlaceNames, OnlyIn(m, p),
         NEW r \in requests, turn_start(r)
  PROVE  OneStep(m)
<1>1. ops \in Seq(MaybeTurn) /\ r.of \in MaybeTurn /\ r.of \in Messages
  BY DEF TypeOK, Request, MaybeTurn
<1>2. /\ requests' = requests \ {r} /\ r.expects = None
      /\ UNCHANGED <<unwritten, queue, sending, inTurn>>
  BY DEF turn_start, composer, session
<1>3. \/ ops' = Append(ops, r.of) /\ Reply(r, "ok")
      \/ ops' = ops /\ Reply(r, "refused")
  BY DEF turn_start
<1>4. Returned(m)' = Returned(m)
  BY <1>2, <1>3 DEF Reply, Returned, Of
<1>5. CASE m # r.of
  <2>1. Where(ops', m) = Where(ops, m)
    <3>1. Where(Append(ops, r.of), m) = Where(ops, m)
      BY <1>1, <1>5, AppendOther
    <3> QED BY <1>3, <3>1
  <2>2. Of(requests', m) = Of(requests, m)
    BY <1>2, <1>5, OfOther
  <2>3. Stays(m)
    BY <1>2, <1>4, <2>1, <2>2 DEF Stays, Single
  <2> QED BY <2>3, StaysInPlace
<1>6. CASE m = r.of
  <2>1. Of(requests', m) = {} /\ Of(requests, m) # {}
    <3>1. \A x, y \in Of(requests, m) : x = y
      BY DEF OnlyIn
    <3>2. Of(requests \ {r}, m) = {} /\ Of(requests, m) # {}
      BY <1>6, <3>1, OfOnly
    <3> QED BY <1>2, <3>2
  <2>2. p = "request" /\ ~Nowhere(m)
    BY <2>1 DEF OnlyIn, Nowhere
  <2>3. Where(ops, m) = {}
    BY <2>2 DEF OnlyIn
  <2>4. CASE ops' = Append(ops, r.of)
    <3>1. Where(ops', m) = {Len(ops) + 1}
      BY <1>1, <1>6, <2>3, <2>4, AppendFirst
    <3>2. OnlyIn(m, "op")' /\ ~Nowhere(m)'
      BY <1>2, <1>4, <2>1, <2>2, <3>1 DEF OnlyIn, Nowhere, Single
    <3> QED BY <2>2, <3>2, MovesTo DEF PlaceNames
  <2>5. CASE ops' = ops /\ Reply(r, "refused")
    <3>1. OnlyIn(m, "request")'
      BY <1>2, <1>4, <2>1, <2>2, <2>5 DEF OnlyIn
    <3>2. [of |-> r.of, expects |-> r.expects, result |-> "refused"] \in answers'
      BY <2>5 DEF Reply
    <3>3. SettledFor(m)
      BY <1>2, <1>6, <3>2 DEF SettledFor
    <3> QED BY <2>2, <3>1, <3>3, MovesTo DEF PlaceNames
  <2> QED BY <1>3, <2>4, <2>5
<1> QED BY <1>5, <1>6

(* turn/steer: the message joins the turn, or comes back. *)
LEMMA SteerIsTaken ==
  ASSUME TypeOK, NEW m \in Messages, NEW p \in PlaceNames, OnlyIn(m, p),
         NEW r \in requests, turn_steer(r)
  PROVE  OneStep(m)
<1>1. /\ requests' = requests \ {r} /\ r.expects # None
      /\ UNCHANGED <<unwritten, queue, sending, ops>>
  BY DEF turn_steer, composer
<1>2. \/ inTurn' = inTurn \cup {r.of} /\ Reply(r, "ok")
      \/ inTurn' = inTurn /\ \E result \in {"noTurn", "refused"} : Reply(r, result)
  BY DEF turn_steer
<1>3. CASE m # r.of
  <2>1. Returned(m)' = Returned(m)
    BY <1>2, <1>3, ReplyToOther
  <2>2. Of(requests', m) = Of(requests, m)
    BY <1>1, <1>3, OfOther
  <2>3. Stays(m)
    BY <1>1, <1>2, <1>3, <2>1, <2>2 DEF Stays
  <2> QED BY <2>3, StaysInPlace
<1>4. CASE m = r.of
  <2>1. Of(requests', m) = {} /\ Of(requests, m) # {}
    <3>1. \A x, y \in Of(requests, m) : x = y
      BY DEF OnlyIn
    <3>2. Of(requests \ {r}, m) = {} /\ Of(requests, m) # {}
      BY <1>4, <3>1, OfOnly
    <3> QED BY <1>1, <3>2
  <2>2. p = "request" /\ ~Nowhere(m)
    BY <2>1 DEF OnlyIn, Nowhere
  <2>3. Returned(m) = {} /\ m \notin inTurn
    BY <2>2 DEF OnlyIn
  <2>4. CASE inTurn' = inTurn \cup {r.of} /\ Reply(r, "ok")
    <3>1. Returned(m)' = {}
      BY <2>3, <2>4 DEF Reply, Returned, Of
    <3>2. OnlyIn(m, "turn")'
      BY <1>1, <2>1, <2>2, <3>1 DEF OnlyIn
    <3>3. SettledFor(m)
      BY <1>4, <2>4 DEF SettledFor
    <3> QED BY <2>2, <3>2, <3>3, MovesTo DEF PlaceNames
  <2>5. ASSUME inTurn' = inTurn, NEW result \in {"noTurn", "refused"}, Reply(r, result)
        PROVE  OneStep(m)
    <3> DEFINE y == [of |-> r.of, expects |-> r.expects, result |-> result]
    <3>1. y.of = m /\ y.expects # None /\ y.result # "ok"
      BY <1>1, <1>4, <2>5
    <3>2. answers' = answers \cup {y}
      BY <2>5 DEF Reply
    <3> HIDE DEF y
    <3>3. Returned(m)' = {y}
      BY <2>3, <3>1, <3>2 DEF Returned, Of
    <3>4. OnlyIn(m, "answer")' /\ ~Nowhere(m)'
      BY <1>1, <2>1, <2>2, <2>3, <2>5, <3>3 DEF OnlyIn, Nowhere
    <3> QED BY <2>2, <3>4, MovesTo DEF PlaceNames
  <2> QED BY <1>2, <2>4, <2>5
<1> QED BY <1>3, <1>4

(* An interrupt is no message. *)
LEMMA InterruptIsTaken ==
  ASSUME TypeOK, NEW m \in Messages, NEW p \in PlaceNames, OnlyIn(m, p),
         NEW t \in MaybeTurn, turn_interrupt(t)
  PROVE  OneStep(m)
<1>1. ops \in Seq(MaybeTurn) /\ None \in MaybeTurn /\ None # m
  BY NoneAssumption DEF TypeOK, MaybeTurn
<1>2. /\ ops' = ops \/ ops' = Append(ops, None)
      /\ UNCHANGED <<unwritten, queue, sending, requests, answers, inTurn>>
  BY DEF turn_interrupt, composer, session
<1>3. Where(ops', m) = Where(ops, m)
  <2>1. Where(Append(ops, None), m) = Where(ops, m)
    BY <1>1, AppendOther
  <2> QED BY <1>2, <2>1
<1>4. Stays(m)
  BY <1>2, <1>3 DEF Stays, Single, Returned, Of
<1> QED BY <1>4, StaysInPlace

(* What is published last is the notice itself. *)
LEMMA NotifyIsSeen ==
  ASSUME TypeOK, NEW new \in Status, NEW kind \in {"started", "completed", "error"},
         NEW t \in MaybeTurn, Notify(new, kind, t)
  PROVE  \E i \in DOMAIN notices' : notices'[i] = [kind |-> kind, turn |-> t]
<1> DEFINE x == [kind |-> new, turn |-> None]
           y == [kind |-> kind, turn |-> t]
           n == IF new = status THEN notices ELSE Append(notices, x)
<1>1. x \in Notice /\ y \in Notice
  BY DEF Notice, MaybeTurn
<1>2. notices \in Seq(Notice)
  BY DEF TypeOK
<1> HIDE DEF x, y
<1>3. n \in Seq(Notice) /\ <<y>> \in Seq(Notice) /\ Len(<<y>>) = 1 /\ <<y>>[1] = y
  BY <1>1, <1>2
<1>4. notices' = n \o <<y>>
  BY DEF Notify, x, y
<1> HIDE DEF n
<1> DEFINE z == <<y>>
<1> HIDE DEF z
<1>5. z \in Seq(Notice) /\ Len(z) = 1 /\ z[1] = y
  BY <1>3 DEF z
<1>6. /\ Len(n \o z) = Len(n) + Len(z)
      /\ n \o z \in Seq(Notice)
      /\ \A i \in 1..(Len(n) + Len(z)) :
            (n \o z)[i] = IF i <= Len(n) THEN n[i] ELSE z[i - Len(n)]
  BY <1>3, <1>5, ConcatProperties
<1>7. Len(n) + 1 \in DOMAIN (n \o z) /\ (n \o z)[Len(n) + 1] = y
  <2>1. Len(n) \in Nat
    BY <1>3
  <2>2. Len(n) + 1 \in 1..(Len(n) + Len(z)) /\ ~(Len(n) + 1 <= Len(n))
        /\ Len(n) + 1 - Len(n) = 1
    BY <1>5, <2>1
  <2> QED BY <1>5, <1>6, <2>2
<1> QED BY <1>4, <1>7 DEF y, z

(* The session takes an operation. *)
LEMMA OperationIsTaken ==
  ASSUME TypeOK, NEW m \in Messages, NEW p \in PlaceNames, OnlyIn(m, p),
         submission_loop
  PROVE  OneStep(m)
<1>1. ops \in Seq(MaybeTurn) /\ ops # <<>> /\ ops' = Tail(ops)
  BY DEF TypeOK, submission_loop
<1>2. UNCHANGED <<unwritten, queue, sending, requests, answers>>
  BY DEF submission_loop, composer
<1>3. Returned(m)' = Returned(m)
  BY <1>2 DEF Returned, Of
<1>4. CASE m # Head(ops)
  <2>1. /\ Where(ops', m) = {} <=> Where(ops, m) = {}
        /\ Single(ops, m) => Single(ops', m)
    BY <1>1, <1>4, TailOther
  <2>2. m \in inTurn' => m \in inTurn
    <3>1. CASE RunMessage(Head(ops))
      BY <1>4, <3>1 DEF RunMessage
    <3>2. CASE EndTurn
      BY <3>2 DEF EndTurn
    <3>3. CASE UNCHANGED session
      BY <3>3 DEF session
    <3> QED BY <3>1, <3>2, <3>3 DEF submission_loop
  <2>3. Stays(m)
    BY <1>2, <1>3, <2>1, <2>2 DEF Stays
  <2> QED BY <2>3, StaysInPlace
<1>5. CASE m = Head(ops)
  <2>1. 1 \in Where(ops, m)
    BY <1>1, <1>5 DEF Where
  <2>2. p = "op" /\ ~Nowhere(m) /\ Single(ops, m)
    BY <2>1 DEF OnlyIn, Nowhere
  <2>3. Where(ops', m) = {}
    BY <1>1, <1>5, <2>2, TailOnly
  <2>4. OnlyIn(m, "turn")'
    BY <1>2, <1>3, <2>2, <2>3 DEF OnlyIn, Single
  <2>5. m # None /\ RunMessage(m)
    BY <1>5, NoneAssumption DEF submission_loop
  <2>6. SettledFor(m)
    <3>1. CASE m \in inTurn'
      BY <3>1 DEF SettledFor
    <3>2. CASE Notify("systemError", "error", m)
      BY <3>2, NotifyIsSeen DEF SettledFor, Status, MaybeTurn
    <3> QED BY <2>5, <3>1, <3>2 DEF RunMessage
  <2> QED BY <2>2, <2>4, <2>6, MovesTo DEF PlaceNames
<1> QED BY <1>4, <1>5

(* Every step of every message. *)
LEMMA NextInPlace ==
  ASSUME TypeOK, EachHasAPlace, [Next]_vars, NEW m \in Messages
  PROVE  OneStep(m)
<1>1. PICK p \in PlaceNames : OnlyIn(m, p)
  BY DEF EachHasAPlace
<1>2. ASSUME NEW x \in Messages, handleSend(x) PROVE OneStep(m)
  <2>1. /\ x \in unwritten /\ unwritten' = unwritten \ {x}
        /\ UNCHANGED <<requests, ops, answers, inTurn>>
    BY <1>2 DEF handleSend, session
  <2>2. CASE queue' = Append(queue, x) /\ UNCHANGED sending
    BY <1>1, <2>1, <2>2, WrittenIsQueued
  <2>3. ASSUME NEW e, sendUserMessage(x, e, FALSE), UNCHANGED queue PROVE OneStep(m)
    <3> DEFINE y == [of |-> x, expects |-> e, flushed |-> FALSE]
    <3>1. sending' = sending \cup {y} /\ y.of = x
      BY <2>3 DEF sendUserMessage
    <3> HIDE DEF y
    <3> QED BY <1>1, <2>1, <2>3, <3>1, WrittenIsSent
  <2> QED BY <1>2, <2>2, <2>3 DEF handleSend
<1>3. ASSUME NEW x \in Messages, queueMessage(x) PROVE OneStep(m)
  BY <1>1, <1>3, WrittenIsQueued DEF queueMessage, session
<1>4. ASSUME NEW x \in Messages, removeQueuedMessage(x) PROVE OneStep(m)
  BY <1>1, <1>4, QueuedIsRemoved
<1>5. CASE FlushQueue
  <2> DEFINE y == [of |-> Head(queue), expects |-> None, flushed |-> TRUE]
  <2>1. sending' = sending \cup {y} /\ y.of = Head(queue)
    BY <1>5 DEF FlushQueue, sendUserMessage
  <2>2. /\ queue # <<>> /\ queue' = Tail(queue)
        /\ UNCHANGED <<unwritten, requests, ops, answers, inTurn>>
    BY <1>5 DEF FlushQueue, session
  <2> HIDE DEF y
  <2> QED BY <1>1, <2>1, <2>2, QueuedIsSent
<1>6. ASSUME NEW s \in sending, flushFails(s) \/ sendBlocked(s) \/ sendMessageToThread(s)
      PROVE  OneStep(m)
  BY <1>1, <1>6, SendGoesOn
<1>7. ASSUME NEW a \in answers, StartAnswered(a) \/ SteerAnswered(a) PROVE OneStep(m)
  BY <1>1, <1>7, AnswerIsTaken
<1>8. ASSUME NEW r \in requests, turn_start(r) PROVE OneStep(m)
  BY <1>1, <1>8, StartIsTaken
<1>9. ASSUME NEW r \in requests, turn_steer(r) PROVE OneStep(m)
  BY <1>1, <1>9, SteerIsTaken
<1>10. ASSUME NEW t \in MaybeTurn, turn_interrupt(t) PROVE OneStep(m)
  BY <1>1, <1>10, InterruptIsTaken
<1>11. CASE submission_loop
  BY <1>1, <1>11, OperationIsTaken
<1>12. CASE \/ TrackInFlight \/ interruptTurn \/ onTurnStarted \/ onThreadStatusChanged
            \/ onTurnEnded \/ TurnFails \/ TurnCompletes \/ UNCHANGED vars
  <2>1. /\ UNCHANGED <<unwritten, queue, sending, requests, ops, answers>>
        /\ inTurn' \subseteq inTurn
    BY <1>12 DEF TrackInFlight, interruptTurn, onTurnStarted, onThreadStatusChanged,
                 onTurnEnded, TurnFails, TurnCompletes, EndTurn, vars, composer, session
  <2>2. Returned(m)' = Returned(m)
    BY <2>1 DEF Returned, Of
  <2> QED BY <1>1, <2>1, <2>2, NothingMoves
<1> QED BY <1>2, <1>3, <1>4, <1>5, <1>6, <1>7, <1>8, <1>9, <1>10, <1>11, <1>12 DEF Next

LEMMA InitInPlace == Init => EachHasAPlace
<1> SUFFICES ASSUME Init, NEW m \in Messages PROVE OnlyIn(m, "unwritten")
  BY DEF EachHasAPlace, PlaceNames
<1>1. Where(queue, m) = {} /\ Where(ops, m) = {}
  BY DEF Init, Where
<1>2. Of(sending, m) = {} /\ Of(requests, m) = {} /\ Returned(m) = {}
  BY DEF Init, Of, Returned
<1>3. m \notin inTurn
  BY DEF Init
<1> QED BY <1>1, <1>2, <1>3 DEF OnlyIn, Single

LEMMA EachKeepsAPlace == TypeOK /\ EachHasAPlace /\ [Next]_vars => EachHasAPlace'
<1> SUFFICES ASSUME TypeOK, EachHasAPlace, [Next]_vars, NEW m \in Messages
             PROVE  \E p \in PlaceNames : OnlyIn(m, p)'
  BY DEF EachHasAPlace
<1> QED BY NextInPlace DEF OneStep

(* A message is in one place at a time, and there once: the composer's      *)
(* queue, its flush and the app-server never hold two copies of it.         *)
THEOREM MessagesAreInOnePlace == Spec => []InOnePlace
BY InitTypes, NextTypes, InitInPlace, EachKeepsAPlace, OnePlaceEach, PTL DEF Spec

(* Every message is settled once and for a reason, however sends, steers    *)
(* and turns fail and are stopped.                                         *)
THEOREM MessagesAreSettledOnce == Spec => SettledOnce
<1>1. TypeOK /\ EachHasAPlace /\ [Next]_vars =>
        [\A m \in Messages : IF Settled(m) THEN Settled(m)'
                                            ELSE Settled(m)' => SettledFor(m)]_vars
  BY NextInPlace DEF OneStep, SettledStep
<1> QED BY <1>1, InitTypes, NextTypes, InitInPlace, EachKeepsAPlace, PTL
        DEF Spec, SettledOnce

=============================================================================
