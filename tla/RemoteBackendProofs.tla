------------------------- MODULE RemoteBackendProofs -------------------------
(***************************************************************************)
(* Proofs about RemoteBackend, for any number of calls, connections and    *)
(* remotes, any tokens, any queue capacity and any number of faults:       *)
(* InductiveInvariant is an invariant, hence answers reach their own call, *)
(* the pending map holds only calls that wait, nobody is refused for a     *)
(* missing token while it has one, and a retry leaves the connection it    *)
(* lost; and every step is a step of RequestReply.                         *)
(***************************************************************************)
EXTENDS RemoteBackend, TLAPS, FiniteSetTheorems, SequenceTheorems

-----------------------------------------------------------------------------
(* Sequences: what the ways to change a queue do to its elements *)

(* Append adds one element, at the end. *)
LEMMA AppendRange ==
  ASSUME NEW S, NEW s \in Seq(S), NEW e \in S
  PROVE  /\ Append(s, e) \in Seq(S)
         /\ Range(Append(s, e)) = Range(s) \cup {e}
         /\ DOMAIN Append(s, e) = DOMAIN s \cup {Len(s) + 1}
         /\ Len(s) + 1 \notin DOMAIN s
         /\ Append(s, e)[Len(s) + 1] = e
         /\ \A i \in DOMAIN s : Append(s, e)[i] = s[i]
<1>1. /\ Append(s, e) \in Seq(S) /\ Len(Append(s, e)) = Len(s) + 1
      /\ \A i \in 1 .. Len(s) : Append(s, e)[i] = s[i]
      /\ Append(s, e)[Len(s) + 1] = e
  BY AppendProperties
<1>2. Len(s) \in Nat /\ DOMAIN s = 1 .. Len(s)
  BY LenProperties
<1>3. DOMAIN Append(s, e) = 1 .. Len(s) + 1
  BY <1>1, LenProperties
<1>4. DOMAIN Append(s, e) = DOMAIN s \cup {Len(s) + 1} /\ Len(s) + 1 \notin DOMAIN s
  BY <1>2, <1>3
<1>5. Range(Append(s, e)) = Range(s) \cup {e}
  BY <1>1, <1>2, <1>4 DEF Range
<1> QED BY <1>1, <1>2, <1>4, <1>5

(* Tail drops the first element and moves the others up. *)
LEMMA TailRange ==
  ASSUME NEW S, NEW s \in Seq(S), s # <<>>
  PROVE  /\ Tail(s) \in Seq(S) /\ Len(Tail(s)) = Len(s) - 1 /\ Len(s) \in Nat \ {0}
         /\ Range(Tail(s)) \subseteq Range(s)
         /\ Head(s) \in Range(s) /\ Head(s) \in S
         /\ 1 \in DOMAIN s /\ Head(s) = s[1]
         /\ \A i \in DOMAIN Tail(s) :
              i \in Int /\ i + 1 \in DOMAIN s /\ i + 1 # 1 /\ Tail(s)[i] = s[i + 1]
<1>1. /\ Head(s) \in S /\ Tail(s) \in Seq(S) /\ Len(Tail(s)) = Len(s) - 1
      /\ \A i \in 1 .. Len(Tail(s)) : Tail(s)[i] = s[i + 1]
  BY HeadTailProperties
<1>2. Len(s) \in Nat \ {0} /\ DOMAIN s = 1 .. Len(s)
  BY LenProperties, EmptySeq
<1>3. DOMAIN Tail(s) = 1 .. Len(s) - 1
  BY <1>1, LenProperties
<1>4. 1 \in DOMAIN s /\ Head(s) = s[1]
  BY <1>2
<1>5. \A i \in DOMAIN Tail(s) :
        i \in Int /\ i + 1 \in DOMAIN s /\ i + 1 # 1 /\ Tail(s)[i] = s[i + 1]
  BY <1>1, <1>2, <1>3
<1>6. Range(Tail(s)) \subseteq Range(s)
  BY <1>5 DEF Range
<1>7. Head(s) \in Range(s)
  BY <1>4 DEF Range
<1> QED BY <1>1, <1>2, <1>4, <1>5, <1>6, <1>7

(* What is left of a queue when its end is lost. *)
LEMMA PrefixRange ==
  ASSUME NEW S, NEW s \in Seq(S), NEW p \in Prefixes(s)
  PROVE  p \in Seq(S) /\ Range(p) \subseteq Range(s)
<1>1. PICK n \in 0 .. Len(s) : p = SubSeq(s, 1, n)
  BY DEF Prefixes
<1>2. Len(s) \in Nat /\ DOMAIN s = 1 .. Len(s) /\ s \in [1 .. Len(s) -> S]
  BY LenProperties
<1>3. n \in Int /\ \A i \in 1 .. n : s[i] \in S
  BY <1>2
<1>4. /\ p \in Seq(S) /\ Len(p) = (IF 1 <= n THEN n - 1 + 1 ELSE 0)
      /\ \A i \in 1 .. n - 1 + 1 : p[i] = s[1 + i - 1]
  BY <1>1, <1>3, SubSeqProperties
<1>5. DOMAIN p = 1 .. Len(p)
  BY <1>4, LenProperties
<1>6. \A i \in DOMAIN p : i \in DOMAIN s /\ p[i] = s[i]
  BY <1>2, <1>3, <1>4, <1>5
<1> QED BY <1>4, <1>6 DEF Range

LEMMA EmptyRange == Range(<<>>) = {} /\ DOMAIN <<>> = {}
  BY DEF Range

-----------------------------------------------------------------------------
(* What goes over the wires *)

(* Only an answer has a result: the end of a stream is none. *)
LEMMA EOFIsNoAnswer == EOF \notin Response
  BY DEF EOF, Response

LEMMA WireTypes ==
  ASSUME TypeOK, NEW k \in Conns
  PROVE  /\ Lines(k) \subseteq Request /\ Answers(k) \subseteq Response
         /\ jobs[k] \subseteq Job /\ Running(k) \subseteq jobs[k]
         /\ outQ[k] \in Seq(Request) /\ s2c[k] \in Seq(Response \cup {EOF})
<1>1. outQ[k] \in Seq(Request) /\ s2c[k] \in Seq(Response \cup {EOF}) /\ jobs[k] \subseteq Job
  BY DEF TypeOK
<1>2. Range(outQ[k]) \subseteq Request /\ Range(s2c[k]) \subseteq Response \cup {EOF}
  BY <1>1, RangeOfSeq
<1> QED BY <1>1, <1>2 DEF Lines, Answers, Running

(* Nothing is new on a wire that did not change. *)
LEMMA SameLines ==
  ASSUME outQ' = outQ, NEW k \in Conns
  PROVE  Lines(k)' = Lines(k) /\ \A c \in Calls : Sent(k, c)' = Sent(k, c)
  BY DEF Lines, Sent

LEMMA SameAnswers ==
  ASSUME s2c' = s2c, NEW k \in Conns
  PROVE  Answers(k)' = Answers(k)
  BY DEF Answers

LEMMA SameJobs ==
  ASSUME jobs' = jobs, NEW k \in Conns
  PROVE  Running(k)' = Running(k) /\ \A c \in Calls : Queued(k, c)' = Queued(k, c)
  BY DEF Running, Queued

LEMMA SameUnexecuted ==
  ASSUME outQ' = outQ, jobs' = jobs, NEW c \in Calls
  PROVE  Unexecuted(c)' = Unexecuted(c)
  BY SameLines, SameJobs DEF Unexecuted

LEMMA SendsLeftType ==
  ASSUME NEW c \in Calls
  PROVE  SendsLeft(c) \in Nat
  BY DEF SendsLeft

(* A step that executes nothing and sends nothing stays within the bound. *)
LEMMA BoundKept ==
  ASSUME TypeOK, EffectsBounded, effects' = effects,
         \A c \in Calls : Unexecuted(c)' \subseteq Unexecuted(c),
         \A c \in Calls : SendsLeft(c)' <= SendsLeft(c)
  PROVE  EffectsBounded'
<1> SUFFICES ASSUME NEW c \in Calls
             PROVE  /\ IsFiniteSet(Unexecuted(c)')
                    /\ effects'[c] + Cardinality(Unexecuted(c)') + SendsLeft(c)'
                         <= Contract!MaxEffects(c)
  BY DEF EffectsBounded, Contract!MaxEffects
<1>1. IsFiniteSet(Unexecuted(c)) /\ Unexecuted(c)' \subseteq Unexecuted(c)
  BY DEF EffectsBounded
<1>2. /\ IsFiniteSet(Unexecuted(c)')
      /\ Cardinality(Unexecuted(c)') <= Cardinality(Unexecuted(c))
  BY <1>1, FS_Subset
<1>3. Cardinality(Unexecuted(c)') \in Nat /\ Cardinality(Unexecuted(c)) \in Nat
  BY <1>1, <1>2, FS_CardinalityType
<1>4. effects[c] \in Nat /\ SendsLeft(c)' <= SendsLeft(c) /\ SendsLeft(c) \in Nat
  BY SendsLeftType DEF TypeOK
<1>5. SendsLeft(c)' \in Nat
  BY DEF SendsLeft
<1>6. effects[c] + Cardinality(Unexecuted(c)) + SendsLeft(c) <= Contract!MaxEffects(c)
  BY DEF EffectsBounded
<1>7. Contract!MaxEffects(c) \in Nat
  BY DEF Contract!MaxEffects
<1> HIDE DEF Contract!MaxEffects
<1> QED BY <1>2, <1>3, <1>4, <1>5, <1>6, <1>7

-----------------------------------------------------------------------------
(* Calls that leave their connection *)

(* What is common to every end of an attempt: the call's entry is gone from *)
(* the pending map and its receiver with it; the wires are left alone.      *)
Detaches(c) ==
    /\ Active(c)
    /\ cached' \in {cached, None}
    /\ reply' = [reply EXCEPT ![c] = None]
    /\ pending' \in [Conns -> SUBSET (Nat \X Calls)]
    /\ \A k \in Conns : pending'[k] \subseteq pending[k]
    /\ \A k \in Conns : \A p \in pending'[k] : p[2] # c
    /\ UNCHANGED <<setting, had, saving, events, effects, target, connected, nextId,
                   outQ, writer, reader, netVars, srvVars>>

(* The first attempt failed and there is a second. *)
Retries(c) ==
    /\ mode[c] = "rpc" /\ Attached(c) /\ can_retry_after_disconnect(c)
    /\ cached' = None
    /\ Goto(c, "ensure")
    /\ lost' = [lost EXCEPT ![c] = on[c]]
    /\ on' = [on EXCEPT ![c] = None]
    /\ id' = [id EXCEPT ![c] = 0]
    /\ UNCHANGED <<result, mode, dial>>

LEMMA DetachKeeps ==
  ASSUME InductiveInvariant, NEW c \in Calls, Detaches(c),
         Retries(c) \/ \E r \in {"ok", "err"} : Returns(c, r)
  PROVE  InductiveInvariant'
<1> USE DEF InductiveInvariant, Detaches, netVars, srvVars, Goto
<1>a. /\ \A k \in Conns : Lines(k)' = Lines(k) /\ Answers(k)' = Answers(k)
      /\ \A k \in Conns : Running(k)' = Running(k)
      /\ \A k \in Conns, d \in Calls : Sent(k, d)' = Sent(k, d) /\ Queued(k, d)' = Queued(k, d)
      /\ \A d \in Calls : Unexecuted(d)' = Unexecuted(d)
  BY SameLines, SameAnswers, SameJobs, SameUnexecuted
<1>b. /\ pc' \in [Calls -> {"idle", "ensure", "resolve", "connect", "check",
                            "insert", "send", "wait", "done"}]
      /\ pc'[c] \in {"ensure", "done"} /\ on'[c] = None /\ mode'[c] = "rpc"
      /\ id'[c] = 0 /\ reply'[c] = None
      /\ (pc'[c] = "ensure" /\ lost[c] = None /\ on[c] # None /\ lost'[c] = on[c]
            /\ cached' = None /\ c \in Retryable /\ mode[c] = "rpc" /\ Attached(c))
         \/ (pc'[c] = "done" /\ lost'[c] = None)
      /\ \A d \in Calls \ {c} :
           /\ pc'[d] = pc[d] /\ on'[d] = on[d] /\ lost'[d] = lost[d] /\ mode'[d] = mode[d]
           /\ id'[d] = id[d] /\ reply'[d] = reply[d] /\ dial'[d] = dial[d]
  <2>1. CASE Retries(c)
    BY <2>1 DEF Retries, TypeOK, LocalsSet, can_retry_after_disconnect
  <2>2. ASSUME NEW r \in {"ok", "err"}, Returns(c, r) PROVE <1>b!:
    BY <2>2 DEF Returns, TypeOK
  <2> QED BY <2>1, <2>2
<1>1. TypeOK'
  <2>1. /\ mode' \in [Calls -> {"auth", "rpc"}] /\ dial' \in [Calls -> Remotes \cup {None}]
        /\ on' \in [Calls -> Conns \cup {None}] /\ lost' \in [Calls -> Conns \cup {None}]
        /\ id' \in [Calls -> Nat] /\ result' \in [Calls -> {"none", "ok", "err"}]
    <3>1. CASE Retries(c)
      BY <3>1 DEF Retries, TypeOK
    <3>2. ASSUME NEW r \in {"ok", "err"}, Returns(c, r) PROVE <2>1!:
      BY <3>2 DEF Returns, TypeOK
    <3> QED BY <3>1, <3>2
  <2>2. reply' \in [Calls -> Response \cup {None}] /\ cached' \in Conns \cup {None}
    BY DEF TypeOK
  <2> QED BY <1>a, <1>b, <2>1, <2>2 DEF TypeOK
<1>2. LocalsSet'
  BY <1>b DEF LocalsSet, Attached, Active
<1>3. ConnectionsUsed'
  BY <1>a, <1>b, NoneAssumption DEF ConnectionsUsed
<1>4. PendingIsAwaited' /\ AnsweredOnce' /\ OwnAnswer'
  <2>1. PendingIsAwaited'
    BY <1>b DEF PendingIsAwaited, TypeOK
  <2>2. AnsweredOnce'
    BY <1>b DEF AnsweredOnce, TypeOK, LocalsSet, Attached
  <2>3. OwnAnswer'
    BY <1>b DEF OwnAnswer
  <2> QED BY <2>1, <2>2, <2>3
<1>5. IdsIdentify'
  BY <1>a, <1>b DEF IdsIdentify, Numbered
<1>6. AuthIsPrivate' /\ LostStaysLost'
  <2>1. AuthIsPrivate'
    BY <1>b DEF AuthIsPrivate, LocalsSet, Attached
  <2>2. LostStaysLost'
    BY <1>b DEF LostStaysLost
  <2> QED BY <2>1, <2>2
<1>7. SharedIsTrusted' /\ AnswersFit'
  <2>1. \A k : Trusted(k)' = Trusted(k)
    BY DEF Trusted
  <2>2. SharedIsTrusted'
    BY <1>a, <1>b, <2>1 DEF SharedIsTrusted
  <2>3. AnswersFit'
    BY <1>a, <1>b, <2>1 DEF AnswersFit, AnswerFits
  <2> QED BY <2>2, <2>3
<1>8. SentOnce'
  BY <1>a, <1>b, NoneAssumption DEF SentOnce, LocalsSet, Active
<1>9. EffectsBounded'
  <2>1. \A d \in Calls : SendsLeft(d)' <= SendsLeft(d)
    BY <1>b DEF SendsLeft, can_retry_after_disconnect, Active
  <2> QED BY <1>a, <2>1, BoundKept
<1> QED BY <1>1, <1>2, <1>3, <1>4, <1>5, <1>6, <1>7, <1>8, <1>9

-----------------------------------------------------------------------------
(* Steps of the wires and of the daemon, which no call takes *)

(* Whatever is on its way on connection k. *)
Items(k) == Lines(k) \cup jobs[k] \cup Answers(k)

SameRequest(p, q) == p.id = q.id /\ p.call = q.call /\ p.mode = q.mode

(* Nothing appears on a wire that was not there as a request before. *)
LEMMA WireKeeps ==
  ASSUME InductiveInvariant, TypeOK', SentOnce', EffectsBounded',
         UNCHANGED <<cached, pc, locals, reply, target, nextId, pending>>,
         \A c \in Calls : effects'[c] >= effects[c],
         \A k \in Conns : IsFiniteSet(jobs'[k]),
         \A k \in Conns : link'[k] = "none" <=> link[k] = "none",
         \A k \in Conns : Lines(k)' \subseteq Lines(k),
         \A k \in Conns : \A q \in Items(k)' : \E p \in Items(k) : SameRequest(p, q),
         \A k \in Conns : Trusted(k) => Trusted(k)',
         \A k \in Conns : \A a \in Answers(k)' : a \in Answers(k) \/ AnswerFits(k, a)',
         \A k \in Conns : \A j \in Running(k)' :
             j \in Running(k) \/ (j.mode = "rpc" => effects'[j.call] > 0)
  PROVE  InductiveInvariant'
<1> USE DEF InductiveInvariant, locals
<1>1. LocalsSet'
  BY DEF LocalsSet, Attached, Active
<1>2. ConnectionsUsed'
  <2> SUFFICES ASSUME NEW k \in Conns, link[k] = "none"
               PROVE  Lines(k)' = {} /\ Answers(k)' = {} /\ jobs'[k] = {}
    BY DEF ConnectionsUsed
  <2>1. Items(k) = {}
    BY DEF ConnectionsUsed, Items
  <2>2. Items(k)' = {}
    BY <2>1
  <2> QED BY <2>2 DEF Items
<1>3. PendingIsAwaited' /\ AnsweredOnce' /\ OwnAnswer'
  BY DEF PendingIsAwaited, AnsweredOnce, OwnAnswer
<1>4. IdsIdentify'
  <2>1. ASSUME NEW k \in Conns, NEW q \in Items(k)'
        PROVE  /\ q.id < nextId[k]
               /\ \A c \in Calls : (Numbered(c) /\ on[c] = k /\ id[c] = q.id)
                                     => (q.call = c /\ q.mode = mode[c])
    <3>1. PICK p \in Items(k) : SameRequest(p, q)
      BY <2>1
    <3> QED BY <3>1 DEF IdsIdentify, Items, SameRequest
  <2>2. \A c \in Calls : Numbered(c)' = Numbered(c)
    BY DEF Numbered
  <2> QED BY <2>1, <2>2 DEF IdsIdentify, Items
<1>5. AuthIsPrivate' /\ LostStaysLost'
  BY DEF AuthIsPrivate, LostStaysLost
<1>6. SharedIsTrusted'
  BY DEF SharedIsTrusted, TypeOK
<1>7. AnswersFit'
  <2>1. ASSUME NEW k \in Conns, NEW a \in Response, AnswerFits(k, a)
        PROVE  AnswerFits(k, a)'
    <3>1. a.call \in Calls /\ effects[a.call] \in Nat /\ effects'[a.call] >= effects[a.call]
      BY DEF Response, TypeOK
    <3>2. effects'[a.call] \in Nat
      BY <3>1 DEF TypeOK
    <3> QED BY <2>1, <3>1, <3>2 DEF AnswerFits
  <2>2. \A k \in Conns : \A a \in Answers(k)' : AnswerFits(k, a)'
    BY <2>1, WireTypes DEF AnswersFit
  <2>3. \A c \in Calls : reply[c] # None => AnswerFits(on[c], reply[c])'
    <3> SUFFICES ASSUME NEW c \in Calls, reply[c] # None
                 PROVE  AnswerFits(on[c], reply[c])'
      OBVIOUS
    <3>1. on[c] \in Conns /\ reply[c] \in Response /\ AnswerFits(on[c], reply[c])
      BY DEF AnswersFit, LocalsSet, Attached, TypeOK
    <3>2. PICK k \in Conns, a \in Response : k = on[c] /\ a = reply[c]
      BY <3>1
    <3>3. AnswerFits(k, a)
      BY <3>1, <3>2
    <3>4. AnswerFits(k, a)'
      BY <2>1, <3>3
    <3>5. on'[c] = k /\ reply'[c] = a
      BY <3>2
    <3> QED BY <3>4, <3>5 DEF AnswerFits, Trusted
  <2>4. \A k \in Conns : \A j \in Running(k)' : j.mode = "rpc" => effects'[j.call] > 0
    <3> SUFFICES ASSUME NEW k \in Conns, NEW j \in Running(k), j.mode = "rpc"
                 PROVE  effects'[j.call] > 0
      OBVIOUS
    <3>1. j.call \in Calls
      BY WireTypes DEF Job
    <3>2. effects[j.call] > 0 /\ effects[j.call] \in Nat /\ effects'[j.call] \in Nat
      BY <3>1 DEF AnswersFit, TypeOK
    <3> QED BY <3>1, <3>2
  <2> QED BY <2>2, <2>3, <2>4 DEF AnswersFit
<1> QED BY <1>1, <1>2, <1>3, <1>4, <1>5, <1>6, <1>7

(* Requests that are lost or moved up in their queue are not sent twice. *)
LEMMA LosingKeeps ==
  ASSUME InductiveInvariant,
         UNCHANGED <<pc, locals, effects>>,
         \A k \in Conns : jobs'[k] \subseteq jobs[k],
         \A k \in Conns, c \in Calls :
             /\ \A i, j \in Sent(k, c)' : i = j
             /\ Sent(k, c)' # {} => Sent(k, c) # {}
  PROVE  SentOnce' /\ EffectsBounded'
<1> USE DEF InductiveInvariant, locals
<1>1. \A k \in Conns, c \in Calls : Queued(k, c)' \subseteq Queued(k, c)
  BY DEF Queued
<1>2. \A c \in Calls : Unexecuted(c)' \subseteq Unexecuted(c)
  BY <1>1 DEF Unexecuted
<1>3. \A c \in Calls : SendsLeft(c)' <= SendsLeft(c)
  BY DEF SendsLeft, can_retry_after_disconnect
<1>4. EffectsBounded'
  BY <1>2, <1>3, BoundKept
<1>5. SentOnce'
  BY <1>1, <1>2 DEF SentOnce
<1> QED BY <1>4, <1>5

(* The daemon or the writer takes the first line of a queue. *)
LEMMA TakingALine ==
  ASSUME InductiveInvariant, NEW k \in Conns, outQ[k] # <<>>,
         outQ' = [outQ EXCEPT ![k] = Tail(@)]
  PROVE  /\ outQ' \in [Conns -> Seq(Request)]
         /\ Len(outQ'[k]) <= QueueCapacity
         /\ Head(outQ[k]) \in Lines(k) /\ Head(outQ[k]) \in Request
         /\ \A h \in Conns : Lines(h)' \subseteq Lines(h)
         /\ \A h \in Conns, c \in Calls :
              /\ \A i, j \in Sent(h, c)' : i = j
              /\ Sent(h, c)' # {} => Sent(h, c) # {}
         /\ \A c \in Calls : RpcOf(Head(outQ[k]), c) => (Sent(k, c) # {} /\ Sent(k, c)' = {})
<1> USE DEF InductiveInvariant
<1> DEFINE s == outQ[k]
<1>1. s \in Seq(Request) /\ outQ'[k] = Tail(s) /\ \A h \in Conns \ {k} : outQ'[h] = outQ[h]
  BY DEF TypeOK
<1> HIDE DEF s
<1>2. s # <<>>
  BY DEF s
<1>3. /\ Tail(s) \in Seq(Request) /\ Len(Tail(s)) = Len(s) - 1 /\ Len(s) \in Nat \ {0}
      /\ Range(Tail(s)) \subseteq Range(s)
      /\ Head(s) \in Range(s) /\ Head(s) \in Request
      /\ 1 \in DOMAIN s /\ Head(s) = s[1]
      /\ \A i \in DOMAIN Tail(s) :
           i \in Int /\ i + 1 \in DOMAIN s /\ i + 1 # 1 /\ Tail(s)[i] = s[i + 1]
  BY <1>1, <1>2, TailRange
<1>4. outQ' \in [Conns -> Seq(Request)]
  BY <1>1, <1>3 DEF TypeOK, s
<1>5. Len(outQ'[k]) <= QueueCapacity
  <2>1. Len(s) <= QueueCapacity /\ QueueCapacity \in Nat
    BY ConstantsAssumption DEF TypeOK, s
  <2> QED BY <1>1, <1>3, <2>1
<1>6. \A h \in Conns : Lines(h)' \subseteq Lines(h)
  BY <1>1, <1>3 DEF Lines, s
<1>7. \A c \in Calls : \A i \in Sent(k, c)' : i \in Int /\ i + 1 \in Sent(k, c) /\ i + 1 # 1
  BY <1>1, <1>3 DEF Sent, s
<1>8. \A h \in Conns \ {k}, c \in Calls : Sent(h, c)' = Sent(h, c)
  BY <1>1 DEF Sent
<1>9. ASSUME NEW c \in Calls, NEW i \in Sent(k, c)', NEW j \in Sent(k, c)'
      PROVE  i = j
  <2>1. i \in Int /\ j \in Int /\ i + 1 \in Sent(k, c) /\ j + 1 \in Sent(k, c)
    BY <1>7, <1>9
  <2>2. i + 1 = j + 1
    BY <2>1 DEF SentOnce
  <2> QED BY <2>1, <2>2
<1>10. ASSUME NEW c \in Calls, RpcOf(Head(s), c)
       PROVE  Sent(k, c) # {} /\ Sent(k, c)' = {}
  <2>1. 1 \in Sent(k, c)
    BY <1>3, <1>10 DEF Sent, s
  <2>2. \A i \in Sent(k, c) : i = 1
    BY <2>1 DEF SentOnce
  <2> QED BY <1>7, <2>1, <2>2
<1>11. \A h \in Conns, c \in Calls :
         /\ \A i, j \in Sent(h, c)' : i = j
         /\ Sent(h, c)' # {} => Sent(h, c) # {}
  <2>1. ASSUME NEW h \in Conns, NEW c \in Calls, h # k
        PROVE  /\ \A i, j \in Sent(h, c)' : i = j
               /\ Sent(h, c)' # {} => Sent(h, c) # {}
    BY <1>8, <2>1 DEF SentOnce
  <2>2. ASSUME NEW c \in Calls
        PROVE  /\ \A i, j \in Sent(k, c)' : i = j
               /\ Sent(k, c)' # {} => Sent(k, c) # {}
    BY <1>7, <1>9
  <2> QED BY <2>1, <2>2
<1>12. Head(s) \in Lines(k)
  BY <1>3 DEF Lines, s
<1> QED BY <1>3, <1>4, <1>5, <1>6, <1>10, <1>11, <1>12 DEF s

LEMMA WriterLosesKeeps ==
  ASSUME InductiveInvariant, NEW k \in Conns, writer_loses(k) \/ writer_fails(k)
  PROVE  InductiveInvariant'
<1> USE DEF setVars, callVars, locals, netVars, srvVars
<1>1. /\ outQ[k] # <<>> /\ outQ' = [outQ EXCEPT ![k] = Tail(@)]
      /\ UNCHANGED <<cached, setting, had, saving, events, pc, locals, reply, result, effects,
                     target, nextId, pending, reader, link, s2c, serving, authed, jobs>>
      /\ connected' \in {connected, [connected EXCEPT ![k] = FALSE]}
      /\ writer' \in {writer, [writer EXCEPT ![k] = "drain"]}
  BY DEF writer_loses, writer_fails
<1>2. /\ outQ' \in [Conns -> Seq(Request)] /\ Len(outQ'[k]) <= QueueCapacity
      /\ \A h \in Conns : Lines(h)' \subseteq Lines(h)
      /\ \A h \in Conns, c \in Calls :
           /\ \A i, j \in Sent(h, c)' : i = j
           /\ Sent(h, c)' # {} => Sent(h, c) # {}
  BY <1>1, TakingALine
<1>3. \A h \in Conns : Answers(h)' = Answers(h) /\ Running(h)' = Running(h)
  BY <1>1, SameAnswers, SameJobs
<1>4. TypeOK'
  BY <1>1, <1>2, <1>3 DEF InductiveInvariant, TypeOK
<1>5. SentOnce' /\ EffectsBounded'
  BY <1>1, <1>2, LosingKeeps
<1>6. \A h \in Conns : Trusted(h) => Trusted(h)'
  BY <1>1 DEF Trusted
<1>7. \A h \in Conns : \A q \in Items(h)' : \E p \in Items(h) : SameRequest(p, q)
  BY <1>1, <1>2, <1>3 DEF Items, SameRequest
<1>8. \A c \in Calls : effects'[c] >= effects[c]
  BY <1>1 DEF InductiveInvariant, TypeOK
<1>9. \A h \in Conns : IsFiniteSet(jobs'[h])
  BY <1>1 DEF InductiveInvariant
<1> QED BY <1>1, <1>2, <1>3, <1>4, <1>5, <1>6, <1>7, <1>8, <1>9, WireKeeps

(* The steps that leave requests and tasks where they are and lose answers. *)
LEMMA AnswersLostKeeps ==
  ASSUME InductiveInvariant, TypeOK',
         UNCHANGED <<cached, pc, locals, reply, effects, target, nextId, pending, outQ>>,
         \A k \in Conns : jobs'[k] \subseteq jobs[k],
         \A k \in Conns : link'[k] = "none" <=> link[k] = "none",
         \A k \in Conns : Answers(k)' \subseteq Answers(k),
         \A k \in Conns : Trusted(k) => Trusted(k)'
  PROVE  InductiveInvariant'
<1>1. \A k \in Conns : Lines(k)' = Lines(k)
  BY SameLines
<1>2. \A k \in Conns, c \in Calls : Sent(k, c)' = Sent(k, c)
  BY SameLines
<1>3. SentOnce' /\ EffectsBounded'
  BY <1>2, LosingKeeps DEF InductiveInvariant, SentOnce
<1>4. \A k \in Conns : \A q \in Items(k)' : \E p \in Items(k) : SameRequest(p, q)
  BY <1>1 DEF Items, SameRequest
<1>5. \A k \in Conns : Running(k)' \subseteq Running(k)
  BY DEF Running
<1>6. \A c \in Calls : effects'[c] >= effects[c]
  BY DEF InductiveInvariant, TypeOK
<1>7. \A k \in Conns : IsFiniteSet(jobs'[k])
  BY FS_Subset DEF InductiveInvariant
<1> QED BY <1>1, <1>3, <1>4, <1>5, <1>6, <1>7, WireKeeps

LEMMA WriterEndsKeeps ==
  ASSUME InductiveInvariant, NEW k \in Conns, writer_ends(k)
  PROVE  InductiveInvariant'
<1> USE DEF writer_ends, setVars, callVars, locals, netVars, srvVars
<1>1. \A h \in Conns : Answers(h)' = Answers(h) /\ Running(h)' = Running(h)
  BY SameAnswers, SameJobs
<1>2. TypeOK'
  BY <1>1 DEF InductiveInvariant, TypeOK
<1>3. \A h \in Conns : Trusted(h) => Trusted(h)'
  BY DEF Trusted
<1> QED BY <1>1, <1>2, <1>3, AnswersLostKeeps

LEMMA ReaderEndsKeeps ==
  ASSUME InductiveInvariant, NEW k \in Conns, reader_ends(k)
  PROVE  InductiveInvariant'
<1> USE DEF reader_ends, setVars, callVars, locals, srvVars
<1>1. \A h \in Conns : Running(h)' = Running(h)
  BY SameJobs
<1>2. s2c' \in [Conns -> Seq(Response \cup {EOF})]
  BY EmptySeq DEF InductiveInvariant, TypeOK
<1>3. TypeOK'
  BY <1>1, <1>2 DEF InductiveInvariant, TypeOK
<1>4. \A h \in Conns : Answers(h)' \subseteq Answers(h)
  BY EmptyRange DEF InductiveInvariant, TypeOK, Answers
<1>5. \A h \in Conns : Trusted(h) => Trusted(h)'
  BY DEF Trusted
<1> QED BY <1>3, <1>4, <1>5, AnswersLostKeeps

(* Cutting a stream short adds no answer. *)
LEMMA CutStream ==
  ASSUME TypeOK, NEW k \in Conns, NEW rest \in Prefixes(s2c[k])
  PROVE  /\ rest \in Seq(Response \cup {EOF})
         /\ Range(rest) \ {EOF} \subseteq Answers(k)
         /\ Append(rest, EOF) \in Seq(Response \cup {EOF})
         /\ Range(Append(rest, EOF)) \ {EOF} \subseteq Answers(k)
<1>1. s2c[k] \in Seq(Response \cup {EOF})
  BY DEF TypeOK
<1>2. rest \in Seq(Response \cup {EOF}) /\ Range(rest) \subseteq Range(s2c[k])
  BY <1>1, PrefixRange
<1>3. /\ Append(rest, EOF) \in Seq(Response \cup {EOF})
      /\ Range(Append(rest, EOF)) = Range(rest) \cup {EOF}
  BY <1>2, AppendRange
<1> QED BY <1>2, <1>3 DEF Answers

LEMMA HandleClientEofKeeps ==
  ASSUME InductiveInvariant, NEW k \in Conns, handle_client_eof(k)
  PROVE  InductiveInvariant'
<1> USE DEF handle_client_eof, setVars, callVars, locals, appVars
<1>1. PICK rest \in Prefixes(s2c[k]) :
         s2c' = [s2c EXCEPT ![k] = IF link[k] = "up" THEN Append(rest, EOF) ELSE @]
  OBVIOUS
<1>2. /\ Append(rest, EOF) \in Seq(Response \cup {EOF})
      /\ Range(Append(rest, EOF)) \ {EOF} \subseteq Answers(k)
  BY CutStream DEF InductiveInvariant
<1>3. \A h \in Conns : Running(h)' = Running(h)
  BY SameJobs
<1>4. s2c' \in [Conns -> Seq(Response \cup {EOF})]
  BY <1>1, <1>2 DEF InductiveInvariant, TypeOK
<1>5. TypeOK'
  BY <1>3, <1>4 DEF InductiveInvariant, TypeOK
<1>6. \A h \in Conns : Answers(h)' \subseteq Answers(h)
  BY <1>1, <1>2 DEF InductiveInvariant, TypeOK, Answers
<1>7. \A h \in Conns : Trusted(h) => Trusted(h)'
  BY DEF Trusted, InductiveInvariant, TypeOK
<1> QED BY <1>5, <1>6, <1>7, AnswersLostKeeps

LEMMA BreakKeeps ==
  ASSUME InductiveInvariant, NEW k \in Conns, NEW how \in {"cut", "dark"}, Break(k, how)
  PROVE  InductiveInvariant'
<1> USE DEF Break, setVars, callVars, locals, appVars, srvVars
<1>1. PICK rest \in Prefixes(s2c[k]) :
         s2c' = [s2c EXCEPT ![k] = IF how = "cut" /\ reader[k] = "on"
                                   THEN Append(rest, EOF) ELSE rest]
  OBVIOUS
<1>2. /\ rest \in Seq(Response \cup {EOF}) /\ Range(rest) \ {EOF} \subseteq Answers(k)
      /\ Append(rest, EOF) \in Seq(Response \cup {EOF})
      /\ Range(Append(rest, EOF)) \ {EOF} \subseteq Answers(k)
  BY CutStream DEF InductiveInvariant
<1>3. \A h \in Conns : Running(h)' = Running(h)
  BY SameJobs
<1>4. s2c' \in [Conns -> Seq(Response \cup {EOF})]
  BY <1>1, <1>2 DEF InductiveInvariant, TypeOK
<1>5. events' \in 0 .. MaxEvents
  BY ConstantsAssumption DEF InductiveInvariant, TypeOK
<1>6. TypeOK'
  BY <1>3, <1>4, <1>5 DEF InductiveInvariant, TypeOK
<1>7. \A h \in Conns : Answers(h)' \subseteq Answers(h)
  BY <1>1, <1>2 DEF InductiveInvariant, TypeOK, Answers
<1>8. \A h \in Conns : Trusted(h) => Trusted(h)'
  BY DEF Trusted, InductiveInvariant, TypeOK
<1>9. \A h \in Conns : link'[h] = "none" <=> link[h] = "none"
  BY DEF InductiveInvariant, TypeOK
<1> QED BY <1>6, <1>7, <1>8, <1>9, AnswersLostKeeps

LEMMA DaemonRestartKeeps ==
  ASSUME InductiveInvariant, DaemonRestart
  PROVE  InductiveInvariant'
<1> USE DEF DaemonRestart, setVars, callVars, locals, appVars
<1>1. PICK rest : /\ \A k \in Conns : rest[k] \in Prefixes(s2c[k])
                  /\ s2c' = [k \in Conns |-> IF serving[k] /\ link[k] = "up"
                                             THEN Append(rest[k], EOF) ELSE s2c[k]]
  OBVIOUS
<1>2. \A k \in Conns : /\ Append(rest[k], EOF) \in Seq(Response \cup {EOF})
                       /\ Range(Append(rest[k], EOF)) \ {EOF} \subseteq Answers(k)
  BY <1>1, CutStream DEF InductiveInvariant
<1>3. \A h \in Conns : Running(h)' = {}
  BY DEF Running
<1>4. s2c' \in [Conns -> Seq(Response \cup {EOF})]
  BY <1>1, <1>2 DEF InductiveInvariant, TypeOK
<1>5. events' \in 0 .. MaxEvents
  <2>1. events < MaxEvents /\ events' = events + 1
    OBVIOUS
  <2>2. events \in 0 .. MaxEvents /\ MaxEvents \in Nat
    BY ConstantsAssumption DEF InductiveInvariant, TypeOK
  <2> HIDE DEF DaemonRestart
  <2> QED BY <2>1, <2>2
<1>6. Cardinality({}) <= MaxInFlight
  BY FS_EmptySet, ConstantsAssumption
<1>7. TypeOK'
  BY <1>3, <1>4, <1>5, <1>6 DEF InductiveInvariant, TypeOK
<1>8. \A h \in Conns : Answers(h)' \subseteq Answers(h)
  BY <1>1, <1>2 DEF InductiveInvariant, TypeOK, Answers
<1>9. \A h \in Conns : Trusted(h) => Trusted(h)'
  BY DEF Trusted, InductiveInvariant, TypeOK
<1> QED BY <1>7, <1>8, <1>9, AnswersLostKeeps

(* A response adds one answer, if it gets through, on its own connection. *)
LEMMA RespondAdds ==
  ASSUME TypeOK, NEW k \in Conns, NEW q, NEW res \in Results,
         q.id \in Nat, q.call \in Calls, q.mode \in {"auth", "rpc"}, Respond(k, q, res)
  PROVE  /\ s2c' \in [Conns -> Seq(Response \cup {EOF})]
         /\ SameRequest(q, Answer(q, res)) /\ Answer(q, res).res = res
         /\ \A h \in Conns \ {k} : Answers(h)' = Answers(h)
         /\ \A a \in Answers(k)' : a \in Answers(k) \/ a = Answer(q, res)
<1>1. Answer(q, res) \in Response
  BY DEF Answer, Response
<1>2. s2c[k] \in Seq(Response \cup {EOF})
  BY DEF TypeOK
<1>3. /\ Append(s2c[k], Answer(q, res)) \in Seq(Response \cup {EOF})
      /\ Range(Append(s2c[k], Answer(q, res))) = Range(s2c[k]) \cup {Answer(q, res)}
  BY <1>1, <1>2, AppendRange
<1>4. /\ s2c'[k] \in {s2c[k], Append(s2c[k], Answer(q, res))}
      /\ \A h \in Conns \ {k} : s2c'[h] = s2c[h]
      /\ s2c' \in [Conns -> Seq(Response \cup {EOF})]
  BY <1>3 DEF Respond, TypeOK
<1>5. SameRequest(q, Answer(q, res)) /\ Answer(q, res).res = res
  BY DEF SameRequest, Answer
<1>6. \A h \in Conns \ {k} : Answers(h)' = Answers(h)
  BY <1>4 DEF Answers
<1>7. \A a \in Answers(k)' : a \in Answers(k) \/ a = Answer(q, res)
  BY <1>3, <1>4 DEF Answers
<1> QED BY <1>4, <1>5, <1>6, <1>7

LEMMA UnauthenticatedKeeps ==
  ASSUME InductiveInvariant, NEW k \in Conns, handle_client_line(k),
         Unauthenticated(k, Head(outQ[k])), jobs' = jobs
  PROVE  InductiveInvariant'
<1> USE DEF setVars, callVars, locals
<1> DEFINE q == Head(outQ[k])
<1>1. /\ outQ[k] # <<>> /\ outQ' = [outQ EXCEPT ![k] = Tail(@)] /\ serving[k]
      /\ UNCHANGED <<cached, setting, had, saving, events, pc, locals, reply, result, effects,
                     target, connected, nextId, pending, writer, reader, link, serving>>
  BY DEF handle_client_line, Writable
<1>2. /\ outQ' \in [Conns -> Seq(Request)] /\ Len(outQ'[k]) <= QueueCapacity
      /\ q \in Lines(k) /\ q \in Request
      /\ \A h \in Conns : Lines(h)' \subseteq Lines(h)
      /\ \A h \in Conns, c \in Calls :
           /\ \A i, j \in Sent(h, c)' : i = j
           /\ Sent(h, c)' # {} => Sent(h, c) # {}
  BY <1>1, TakingALine
<1>3. q.id \in Nat /\ q.call \in Calls /\ q.mode \in {"auth", "rpc"}
  BY <1>2 DEF Request
<1> HIDE DEF q
<1>4. PICK res \in {"unauthorized", "err", "ok"} :
        /\ Respond(k, q, res)
        /\ ~authed[k]
        /\ res = "unauthorized" => q.mode = "rpc"
        /\ res = "ok" => q.mode = "auth" /\ authed' = [authed EXCEPT ![k] = TRUE]
        /\ authed' \in {authed, [authed EXCEPT ![k] = TRUE]}
  BY <1>3 DEF Unauthenticated, q
<1>5. /\ s2c' \in [Conns -> Seq(Response \cup {EOF})]
      /\ SameRequest(q, Answer(q, res)) /\ Answer(q, res).res = res
      /\ \A h \in Conns \ {k} : Answers(h)' = Answers(h)
      /\ \A a \in Answers(k)' : a \in Answers(k) \/ a = Answer(q, res)
  BY <1>3, <1>4, RespondAdds DEF InductiveInvariant, Results
<1>6. \A h \in Conns : Running(h)' = Running(h)
  BY SameJobs
<1>7. TypeOK'
  BY <1>1, <1>2, <1>4, <1>5, <1>6 DEF InductiveInvariant, TypeOK
<1>8. SentOnce' /\ EffectsBounded'
  BY <1>1, <1>2, LosingKeeps
<1>9. \A h \in Conns : Trusted(h) => Trusted(h)'
  BY <1>1, <1>4 DEF Trusted, InductiveInvariant, TypeOK
<1>10. \A h \in Conns : \A p \in Items(h)' : \E r \in Items(h) : SameRequest(r, p)
  BY <1>2, <1>5 DEF Items, SameRequest
<1>11. ASSUME NEW a, a = Answer(q, res)
       PROVE  AnswerFits(k, a)'
  <2>1. q.mode = "rpc" => TokenOf[target[k]] = "none"
    BY <1>1, <1>2, <1>4 DEF InductiveInvariant, SharedIsTrusted, Trusted
  <2>2. a.mode = q.mode /\ a.res = res
    BY <1>5, <1>11 DEF SameRequest
  <2>3. res = "ok" => authed'[k]
    BY <1>4 DEF InductiveInvariant, TypeOK
  <2>4. target' = target
    BY <1>1
  <2> QED BY <1>3, <1>4, <2>1, <2>2, <2>3, <2>4 DEF AnswerFits, Trusted
<1>12. \A h \in Conns : \A a \in Answers(h)' : a \in Answers(h) \/ AnswerFits(h, a)'
  <2>1. \A a \in Answers(k)' : a \in Answers(k) \/ AnswerFits(k, a)'
    BY <1>5, <1>11
  <2> QED BY <1>5, <2>1
<1>13. \A c \in Calls : effects'[c] >= effects[c]
  BY <1>1 DEF InductiveInvariant, TypeOK
<1>14. \A h \in Conns : IsFiniteSet(jobs'[h])
  BY DEF InductiveInvariant
<1> QED BY <1>1, <1>2, <1>6, <1>7, <1>8, <1>9, <1>10, <1>12, <1>13, <1>14, WireKeeps

(* An accepted line becomes a task: the request only moves. *)
LEMMA AcceptedLineKeeps ==
  ASSUME InductiveInvariant, NEW k \in Conns, handle_client_line(k),
         NEW job,
         job = [id |-> Head(outQ[k]).id, call |-> Head(outQ[k]).call,
                mode |-> Head(outQ[k]).mode, step |-> "queued"],
         jobs' = [jobs EXCEPT ![k] = @ \cup {job}],
         UNCHANGED <<s2c, authed>>
  PROVE  InductiveInvariant'
<1> USE DEF setVars, callVars, locals
<1> DEFINE q == Head(outQ[k])
<1>1. /\ outQ[k] # <<>> /\ outQ' = [outQ EXCEPT ![k] = Tail(@)]
      /\ UNCHANGED <<cached, setting, had, saving, events, pc, locals, reply, result, effects,
                     target, connected, nextId, pending, writer, reader, link, serving>>
  BY DEF handle_client_line
<1>2. /\ outQ' \in [Conns -> Seq(Request)] /\ Len(outQ'[k]) <= QueueCapacity
      /\ q \in Lines(k) /\ q \in Request
      /\ \A h \in Conns : Lines(h)' \subseteq Lines(h)
      /\ \A h \in Conns, c \in Calls :
           /\ \A i, j \in Sent(h, c)' : i = j
           /\ Sent(h, c)' # {} => Sent(h, c) # {}
      /\ \A c \in Calls : RpcOf(q, c) => (Sent(k, c) # {} /\ Sent(k, c)' = {})
  BY <1>1, TakingALine
<1> HIDE DEF q
<1>3. /\ job \in Job /\ job.step = "queued" /\ SameRequest(q, job)
      /\ \A c \in Calls : RpcOf(job, c) <=> RpcOf(q, c)
  BY <1>2 DEF Request, Job, RpcOf, SameRequest, q
<1>4. jobs'[k] = jobs[k] \cup {job} /\ \A h \in Conns \ {k} : jobs'[h] = jobs[h]
  BY DEF InductiveInvariant, TypeOK
<1>5. \A h \in Conns : Running(h)' = Running(h)
  BY <1>3, <1>4 DEF Running
<1>6. jobs' \in [Conns -> SUBSET Job]
  BY <1>3 DEF InductiveInvariant, TypeOK
<1>7. TypeOK'
  BY <1>1, <1>2, <1>5, <1>6 DEF InductiveInvariant, TypeOK
<1>8. \A h \in Conns : IsFiniteSet(jobs'[h])
  BY <1>4, FS_AddElement DEF InductiveInvariant
<1>9. /\ \A h \in Conns \ {k}, c \in Calls : Queued(h, c)' = Queued(h, c)
      /\ \A c \in Calls : Queued(k, c)' = IF RpcOf(q, c) THEN Queued(k, c) \cup {job}
                                          ELSE Queued(k, c)
  BY <1>3, <1>4 DEF Queued
<1>10. \A c \in Calls : Unexecuted(c)' \subseteq Unexecuted(c)
  BY <1>2, <1>9 DEF Unexecuted
<1>11. SentOnce'
  <2> SUFFICES ASSUME NEW h \in Conns, NEW c \in Calls
               PROVE  /\ \A i, j \in Queued(h, c)' : i = j
                      /\ Sent(h, c)' = {} \/ Queued(h, c)' = {}
    BY <1>1, <1>2, <1>10 DEF InductiveInvariant, SentOnce
  <2>1. /\ \A i, j \in Queued(h, c) : i = j
        /\ Sent(h, c) = {} \/ Queued(h, c) = {}
    BY DEF InductiveInvariant, SentOnce
  <2> QED BY <1>2, <1>9, <2>1
<1>12. EffectsBounded'
  <2>1. \A c \in Calls : SendsLeft(c)' <= SendsLeft(c)
    BY <1>1 DEF SendsLeft, can_retry_after_disconnect
  <2> QED BY <1>1, <1>10, <2>1, BoundKept DEF InductiveInvariant
<1>13. \A h \in Conns : Answers(h)' = Answers(h)
  BY SameAnswers
<1>14. \A h \in Conns : Trusted(h) => Trusted(h)'
  BY <1>1 DEF Trusted
<1>15. \A h \in Conns : \A p \in Items(h)' : \E r \in Items(h) : SameRequest(r, p)
  BY <1>2, <1>3, <1>4, <1>13 DEF Items, SameRequest
<1>16. \A c \in Calls : effects'[c] >= effects[c]
  BY <1>1 DEF InductiveInvariant, TypeOK
<1> QED BY <1>1, <1>2, <1>5, <1>7, <1>8, <1>11, <1>12, <1>13, <1>14, <1>15, <1>16, WireKeeps

LEMMA HandleClientLineKeeps ==
  ASSUME InductiveInvariant, NEW k \in Conns, handle_client_line(k)
  PROVE  InductiveInvariant'
  BY UnauthenticatedKeeps, AcceptedLineKeeps DEF handle_client_line

(* A task that gets its permit runs: the request is executed, not under way *)
(* any more.                                                               *)
LEMMA RpcStartKeeps ==
  ASSUME InductiveInvariant, NEW k \in Conns, NEW j \in jobs[k], rpc_start(k, j)
  PROVE  InductiveInvariant'
<1> USE DEF setVars, callVars, locals, appVars, netVars
<1> DEFINE r == [j EXCEPT !.step = "running"]
           c0 == j.call
<1>1. /\ j.step = "queued" /\ Cardinality(Running(k)) < MaxInFlight
      /\ jobs' = [jobs EXCEPT ![k] = (@ \ {j}) \cup {r}]
      /\ effects' = IF j.mode = "rpc" THEN [effects EXCEPT ![c0] = @ + 1] ELSE effects
      /\ UNCHANGED <<cached, setting, had, saving, events, pc, locals, reply, result, target,
                     connected, nextId, pending, outQ, writer, reader, link, s2c,
                     serving, authed>>
  BY DEF rpc_start
<1>2. /\ j \in Job /\ r \in Job /\ r.step = "running" /\ SameRequest(j, r)
      /\ r.mode = j.mode /\ r.call = c0 /\ c0 \in Calls
  <2>1. j \in Job
    BY WireTypes DEF InductiveInvariant
  <2> QED BY <2>1 DEF Job, SameRequest
<1> HIDE DEF r, c0
<1>3. /\ jobs'[k] = (jobs[k] \ {j}) \cup {r} /\ \A h \in Conns \ {k} : jobs'[h] = jobs[h]
      /\ jobs' \in [Conns -> SUBSET Job]
  BY <1>1, <1>2 DEF InductiveInvariant, TypeOK
<1>4. /\ effects' \in [Calls -> Nat]
      /\ \A c \in Calls : effects'[c] = IF j.mode = "rpc" /\ c = c0
                                        THEN effects[c] + 1 ELSE effects[c]
  <2>1. effects \in [Calls -> Nat]
    BY DEF InductiveInvariant, TypeOK
  <2> QED BY <1>1, <1>2, <2>1
<1>5. /\ Running(k)' = Running(k) \cup {r}
      /\ \A h \in Conns \ {k} : Running(h)' = Running(h)
  BY <1>1, <1>2, <1>3 DEF Running
<1>6. Cardinality(Running(k)') <= MaxInFlight
  <2>1. IsFiniteSet(jobs[k]) /\ Running(k) \subseteq jobs[k]
    BY DEF InductiveInvariant, Running
  <2>2. IsFiniteSet(Running(k))
    BY <2>1, FS_Subset
  <2>3. Cardinality(Running(k)) \in Nat
    BY <2>2, FS_CardinalityType
  <2>4. \/ Cardinality(Running(k)') = Cardinality(Running(k))
        \/ Cardinality(Running(k)') = Cardinality(Running(k)) + 1
    BY <1>5, <2>2, FS_AddElement
  <2> QED BY <1>1, <2>3, <2>4, ConstantsAssumption
<1>7. TypeOK'
  BY <1>1, <1>3, <1>4, <1>5, <1>6 DEF InductiveInvariant, TypeOK
<1>8. \A h \in Conns : IsFiniteSet(jobs'[h])
  <2>1. IsFiniteSet(jobs[k] \ {j})
    BY FS_RemoveElement DEF InductiveInvariant
  <2>2. IsFiniteSet(jobs'[k])
    BY <1>3, <2>1, FS_AddElement
  <2> QED BY <1>3, <2>2 DEF InductiveInvariant
<1>9. /\ \A h \in Conns, c \in Calls : Queued(h, c)' \subseteq Queued(h, c)
      /\ \A h \in Conns, c \in Calls : h # k => Queued(h, c)' = Queued(h, c)
      /\ \A c \in Calls : Queued(k, c)' = Queued(k, c) \ {j}
      /\ j.mode = "rpc" => j \in Queued(k, c0)
  BY <1>1, <1>2, <1>3 DEF Queued, RpcOf, c0
<1>10. \A h \in Conns, c \in Calls : Sent(h, c)' = Sent(h, c)
  BY <1>1, SameLines
<1>11. \A c \in Calls : Unexecuted(c)' \subseteq Unexecuted(c)
  BY <1>9, <1>10 DEF Unexecuted
<1>12. SentOnce'
  BY <1>1, <1>9, <1>10, <1>11 DEF InductiveInvariant, SentOnce
<1>13. j.mode = "rpc" => k \in Unexecuted(c0) /\ k \notin Unexecuted(c0)'
  <2> SUFFICES ASSUME j.mode = "rpc"
               PROVE  k \in Unexecuted(c0) /\ k \notin Unexecuted(c0)'
    OBVIOUS
  <2>1. PICK c \in Calls : c = c0
    BY <1>2
  <2>2. j \in Queued(k, c) /\ Queued(k, c)' = Queued(k, c) \ {j}
    BY <1>9, <2>1
  <2>3. Sent(k, c) = {} /\ Queued(k, c)' = {}
    BY <2>2 DEF InductiveInvariant, SentOnce
  <2>4. k \in Unexecuted(c) /\ k \notin Unexecuted(c)'
    BY <1>10, <2>2, <2>3 DEF Unexecuted
  <2> QED BY <2>1, <2>4 DEF c0
<1>14. EffectsBounded'
  <2> SUFFICES ASSUME NEW c \in Calls
               PROVE  /\ IsFiniteSet(Unexecuted(c)')
                      /\ effects'[c] + Cardinality(Unexecuted(c)') + SendsLeft(c)'
                           <= Contract!MaxEffects(c)
    BY DEF EffectsBounded, Contract!MaxEffects
  <2>1. /\ IsFiniteSet(Unexecuted(c))
        /\ effects[c] + Cardinality(Unexecuted(c)) + SendsLeft(c) <= Contract!MaxEffects(c)
    BY DEF InductiveInvariant, EffectsBounded
  <2>2. SendsLeft(c)' = SendsLeft(c)
    BY <1>1 DEF SendsLeft, can_retry_after_disconnect
  <2>3. /\ IsFiniteSet(Unexecuted(c)')
        /\ Cardinality(Unexecuted(c)') <= Cardinality(Unexecuted(c))
        /\ Cardinality(Unexecuted(c)) = Cardinality(Unexecuted(c)')
             => Unexecuted(c) = Unexecuted(c)'
    BY <1>11, <2>1, FS_Subset
  <2>4. Cardinality(Unexecuted(c)') \in Nat /\ Cardinality(Unexecuted(c)) \in Nat
    BY <2>1, <2>3, FS_CardinalityType
  <2>5. effects[c] \in Nat /\ SendsLeft(c) \in Nat /\ Contract!MaxEffects(c) \in Nat
    BY SendsLeftType DEF InductiveInvariant, TypeOK, Contract!MaxEffects
  <2> HIDE DEF Contract!MaxEffects
  <2>6. CASE j.mode = "rpc" /\ c = c0
    BY <1>4, <1>13, <2>1, <2>2, <2>3, <2>4, <2>5, <2>6
  <2>7. CASE ~(j.mode = "rpc" /\ c = c0)
    BY <1>4, <2>1, <2>2, <2>3, <2>4, <2>5, <2>7
  <2> QED BY <2>6, <2>7
<1>15. \A h \in Conns : Answers(h)' = Answers(h) /\ Lines(h)' = Lines(h)
  BY <1>1, SameAnswers, SameLines
<1>16. \A h \in Conns : Trusted(h) => Trusted(h)'
  BY <1>1 DEF Trusted
<1>17. \A h \in Conns : \A p \in Items(h)' : \E q \in Items(h) : SameRequest(q, p)
  BY <1>2, <1>3, <1>15 DEF Items, SameRequest
<1>18. \A c \in Calls : effects'[c] >= effects[c]
  <2>1. \A c \in Calls : effects[c] \in Nat
    BY DEF InductiveInvariant, TypeOK
  <2> QED BY <1>4, <2>1
<1>19. \A h \in Conns : \A i \in Running(h)' :
         i \in Running(h) \/ (i.mode = "rpc" => effects'[i.call] > 0)
  <2>1. j.mode = "rpc" => effects'[c0] > 0
    BY <1>2, <1>4 DEF InductiveInvariant, TypeOK
  <2> QED BY <1>2, <1>5, <2>1
<1> QED BY <1>1, <1>7, <1>8, <1>12, <1>14, <1>15, <1>16, <1>17, <1>18, <1>19, WireKeeps

LEMMA RpcFinishKeeps ==
  ASSUME InductiveInvariant, NEW k \in Conns, NEW j \in jobs[k], rpc_finish(k, j)
  PROVE  InductiveInvariant'
<1> USE DEF setVars, callVars, locals, appVars
<1>1. /\ j \in Running(k) /\ jobs' = [jobs EXCEPT ![k] = @ \ {j}]
      /\ UNCHANGED <<cached, setting, had, saving, events, pc, locals, reply, result, effects,
                     target, connected, nextId, pending, outQ, writer, reader, link,
                     serving, authed>>
  BY DEF rpc_finish
<1>2. PICK res \in IF j.mode = "rpc" THEN {"ok", "err"} ELSE {"err"} : Respond(k, j, res)
  BY DEF rpc_finish
<1>3. j.id \in Nat /\ j.call \in Calls /\ j.mode \in {"auth", "rpc"}
  BY WireTypes DEF InductiveInvariant, Job
<1>4. /\ s2c' \in [Conns -> Seq(Response \cup {EOF})]
      /\ SameRequest(j, Answer(j, res)) /\ Answer(j, res).res = res
      /\ \A h \in Conns \ {k} : Answers(h)' = Answers(h)
      /\ \A a \in Answers(k)' : a \in Answers(k) \/ a = Answer(j, res)
  BY <1>2, <1>3, RespondAdds DEF InductiveInvariant, Results
<1>5. \A h \in Conns : jobs'[h] \subseteq jobs[h] /\ Running(h)' \subseteq Running(h)
  BY <1>1 DEF InductiveInvariant, TypeOK, Running
<1>6. \A h \in Conns : IsFiniteSet(jobs'[h])
  BY <1>5, FS_Subset DEF InductiveInvariant
<1>7. \A h \in Conns : Cardinality(Running(h)') <= MaxInFlight
  <2> SUFFICES ASSUME NEW h \in Conns
               PROVE  Cardinality(Running(h)') <= MaxInFlight
    OBVIOUS
  <2>1. IsFiniteSet(Running(h))
    BY WireTypes, FS_Subset DEF InductiveInvariant
  <2>2. IsFiniteSet(Running(h)') /\ Cardinality(Running(h)') <= Cardinality(Running(h))
    BY <1>5, <2>1, FS_Subset
  <2>3. Cardinality(Running(h)') \in Nat /\ Cardinality(Running(h)) \in Nat
    BY <2>1, <2>2, FS_CardinalityType
  <2> QED BY <2>2, <2>3, ConstantsAssumption DEF InductiveInvariant, TypeOK
<1>8. TypeOK'
  <2>1. jobs' \in [Conns -> SUBSET Job]
    BY <1>1 DEF InductiveInvariant, TypeOK
  <2> QED BY <1>1, <1>4, <1>7, <2>1 DEF InductiveInvariant, TypeOK
<1>9. \A h \in Conns, c \in Calls : Sent(h, c)' = Sent(h, c)
  BY <1>1, SameLines
<1>10. SentOnce' /\ EffectsBounded'
  BY <1>1, <1>5, <1>9, LosingKeeps DEF InductiveInvariant, SentOnce
<1>11. \A h \in Conns : Trusted(h) => Trusted(h)'
  BY <1>1 DEF Trusted
<1>12. \A h \in Conns : Lines(h)' = Lines(h)
  BY <1>1, SameLines
<1>13. \A h \in Conns : \A p \in Items(h)' : \E q \in Items(h) : SameRequest(q, p)
  BY <1>4, <1>5, <1>12 DEF Items, SameRequest
<1>14. ASSUME NEW a, a = Answer(j, res)
       PROVE  AnswerFits(k, a)'
  <2>1. j.mode = "rpc" => effects'[j.call] > 0
    BY <1>1, <1>3 DEF InductiveInvariant, AnswersFit
  <2>2. a.mode = j.mode /\ a.call = j.call /\ a.res = res
    BY <1>4, <1>14 DEF SameRequest
  <2> QED BY <1>2, <1>3, <2>1, <2>2 DEF AnswerFits
<1>15. \A h \in Conns : \A a \in Answers(h)' : a \in Answers(h) \/ AnswerFits(h, a)'
  <2>1. \A a \in Answers(k)' : a \in Answers(k) \/ AnswerFits(k, a)'
    BY <1>4, <1>14
  <2> QED BY <1>4, <2>1
<1>16. \A c \in Calls : effects'[c] >= effects[c]
  BY <1>1 DEF InductiveInvariant, TypeOK
<1> QED BY <1>1, <1>5, <1>6, <1>8, <1>10, <1>11, <1>12, <1>13, <1>15, <1>16, WireKeeps

-----------------------------------------------------------------------------
(* Answers handed to calls *)

(* Call c, which is in the pending map, is given its own answer. *)
Answered(c) ==
    /\ <<id[c], c>> \in pending[on[c]] /\ <<id[c], c>> \notin pending'[on[c]]
    /\ Numbered(c) /\ on[c] \in Conns /\ pc[c] \in {"send", "wait"}
    /\ reply'[c].id = id[c] /\ reply'[c].call = c /\ reply'[c].mode = mode[c]
    /\ AnswerFits(on[c], reply'[c])

LEMMA DeliverKeeps ==
  ASSUME InductiveInvariant, TypeOK',
         UNCHANGED <<cached, pc, locals, effects, target, nextId, link, serving, authed, jobs>>,
         \A k \in Conns : pending'[k] \subseteq pending[k],
         \A k \in Conns : Lines(k)' \subseteq Lines(k),
         \A k \in Conns : Answers(k)' \subseteq Answers(k),
         \A k \in Conns, c \in Calls :
             /\ \A i, j \in Sent(k, c)' : i = j
             /\ Sent(k, c)' # {} => Sent(k, c) # {},
         \A c \in Calls : reply'[c] = reply[c] \/ Answered(c)
  PROVE  InductiveInvariant'
<1> USE DEF InductiveInvariant, locals
<1>1. SentOnce' /\ EffectsBounded'
  BY LosingKeeps
<1>2. LocalsSet'
  BY DEF LocalsSet, Attached, Active, Answered
<1>3. ConnectionsUsed'
  BY DEF ConnectionsUsed
<1>4. PendingIsAwaited'
  BY DEF PendingIsAwaited
<1>5. AnsweredOnce'
  <2> SUFFICES ASSUME NEW c \in Calls, reply'[c] # None
               PROVE  <<id[c], c>> \notin pending'[on[c]]
    BY DEF AnsweredOnce
  <2>1. CASE reply'[c] = reply[c]
    <3>1. on[c] \in Conns
      BY <2>1 DEF LocalsSet, Attached, TypeOK
    <3> QED BY <2>1, <3>1 DEF AnsweredOnce
  <2>2. CASE Answered(c)
    BY <2>2 DEF Answered
  <2> QED BY <2>1, <2>2
<1>6. OwnAnswer'
  <2> SUFFICES ASSUME NEW c \in Calls, reply'[c] # None
               PROVE  reply'[c].call = c /\ reply'[c].mode = mode[c] /\ reply'[c].id = id[c]
    BY DEF OwnAnswer
  <2>1. CASE reply'[c] = reply[c]
    BY <2>1 DEF OwnAnswer
  <2>2. CASE Answered(c)
    BY <2>2 DEF Answered
  <2> QED BY <2>1, <2>2
<1>7. IdsIdentify'
  <2>1. \A c \in Calls : Numbered(c)' = Numbered(c)
    BY DEF Numbered
  <2> QED BY <2>1 DEF IdsIdentify
<1>8. AuthIsPrivate' /\ LostStaysLost'
  BY DEF AuthIsPrivate, LostStaysLost
<1>9. SharedIsTrusted'
  BY DEF SharedIsTrusted, Trusted
<1>10. AnswersFit'
  <2>1. \A k, a : AnswerFits(k, a)' = AnswerFits(k, a)
    BY DEF AnswerFits, Trusted
  <2>2. \A k \in Conns : \A a \in Answers(k)' : AnswerFits(k, a)'
    BY <2>1 DEF AnswersFit
  <2>3. \A c \in Calls : reply'[c] # None => AnswerFits(on[c], reply'[c])
    BY DEF AnswersFit, Answered
  <2>4. \A c \in Calls : (reply[c] # None => AnswerFits(on[c], reply[c]))'
    BY <2>3 DEF AnswerFits, Trusted
  <2>5. \A k \in Conns : Running(k)' = Running(k)
    BY SameJobs
  <2> QED BY <2>2, <2>4, <2>5 DEF AnswersFit
<1> QED BY <1>1, <1>2, <1>3, <1>4, <1>5, <1>6, <1>7, <1>8, <1>9, <1>10

(* Those a drain tells about the lost connection are its pending calls. *)
LEMMA DrainAnswers ==
  ASSUME InductiveInvariant, NEW k \in Conns, Drain(k), id' = id, mode' = mode
  PROVE  /\ pending' \in [Conns -> SUBSET (Nat \X Calls)]
         /\ reply' \in [Calls -> Response \cup {None}]
         /\ \A h \in Conns : pending'[h] \subseteq pending[h]
         /\ \A c \in Calls : reply'[c] = reply[c] \/ Answered(c)
<1> USE DEF InductiveInvariant
<1> DEFINE a(c) == Answer([id |-> id[c], call |-> c, mode |-> mode[c]], "disc")
<1>1. /\ pending' \in [Conns -> SUBSET (Nat \X Calls)] /\ pending'[k] = {}
      /\ \A h \in Conns : pending'[h] \subseteq pending[h]
  BY DEF Drain, TypeOK
<1>2. \A c \in Calls : reply'[c] = IF <<id[c], c>> \in pending[k] THEN a(c) ELSE reply[c]
  BY DEF Drain
<1>3. \A c \in Calls : /\ a(c) \in Response /\ a(c).id = id[c] /\ a(c).call = c
                       /\ a(c).mode = mode[c] /\ a(c).res = "disc"
  BY DEF Answer, Response, Results, TypeOK
<1>4. reply' \in [Calls -> Response \cup {None}]
  BY <1>3 DEF Drain, TypeOK
<1> HIDE DEF a
<1>5. ASSUME NEW c \in Calls, <<id[c], c>> \in pending[k]
      PROVE  Answered(c)
  <2>1. pc[c] \in {"send", "wait"} /\ on[c] = k
    BY <1>5 DEF PendingIsAwaited
  <2>2. reply'[c] = a(c)
    BY <1>2, <1>5
  <2>3. AnswerFits(on[c], reply'[c])
    BY <1>3, <2>2 DEF AnswerFits
  <2> QED BY <1>1, <1>3, <1>5, <2>1, <2>2, <2>3 DEF Answered, Numbered
<1> QED BY <1>1, <1>2, <1>4, <1>5

LEMMA DrainsKeep ==
  ASSUME InductiveInvariant, NEW k \in Conns, writer_drains(k) \/ reader_drains(k)
  PROVE  InductiveInvariant'
<1> USE DEF setVars, locals, netVars, srvVars
<1>1. /\ Drain(k)
      /\ outQ' \in {outQ, [outQ EXCEPT ![k] = <<>>]}
      /\ writer' \in {writer, [writer EXCEPT ![k] = "off"]}
      /\ reader' \in {reader, [reader EXCEPT ![k] = "off"]}
      /\ UNCHANGED <<cached, setting, had, saving, events, pc, locals, result, effects, target,
                     connected, nextId, link, s2c, serving, authed, jobs>>
  BY DEF writer_drains, reader_drains
<1>2. /\ pending' \in [Conns -> SUBSET (Nat \X Calls)]
      /\ reply' \in [Calls -> Response \cup {None}]
      /\ \A h \in Conns : pending'[h] \subseteq pending[h]
      /\ \A c \in Calls : reply'[c] = reply[c] \/ Answered(c)
  BY <1>1, DrainAnswers
<1>3. \A h \in Conns : outQ'[h] = outQ[h] \/ outQ'[h] = <<>>
  BY <1>1 DEF InductiveInvariant, TypeOK
<1>4. /\ outQ' \in [Conns -> Seq(Request)]
      /\ \A h \in Conns : Len(outQ'[h]) <= QueueCapacity
  <2>1. <<>> \in Seq(Request) /\ Len(<<>>) = 0 /\ QueueCapacity \in Nat
    BY EmptySeq, ConstantsAssumption
  <2>2. outQ \in [Conns -> Seq(Request)] /\ \A h \in Conns : Len(outQ[h]) <= QueueCapacity
    BY DEF InductiveInvariant, TypeOK
  <2>3. outQ' \in [Conns -> Seq(Request)]
    BY <1>1, <2>1, <2>2
  <2>4. \A h \in Conns : Len(outQ'[h]) <= QueueCapacity
    BY <1>3, <2>1, <2>2
  <2> QED BY <2>3, <2>4
<1>5. \A h \in Conns : Running(h)' = Running(h) /\ Answers(h)' = Answers(h)
  BY <1>1, SameJobs, SameAnswers
<1>6. TypeOK'
  BY <1>1, <1>2, <1>4, <1>5 DEF InductiveInvariant, TypeOK
<1>7. \A h \in Conns : Lines(h)' \subseteq Lines(h)
  BY <1>3, EmptyRange DEF Lines
<1>8. \A h \in Conns, c \in Calls : Sent(h, c)' \subseteq Sent(h, c)
  BY <1>3, EmptyRange DEF Sent
<1>9. \A h \in Conns, c \in Calls :
         /\ \A i, j \in Sent(h, c)' : i = j
         /\ Sent(h, c)' # {} => Sent(h, c) # {}
  BY <1>8 DEF InductiveInvariant, SentOnce
<1> QED BY <1>1, <1>2, <1>5, <1>6, <1>7, <1>9, DeliverKeeps

(* Ids being unique, an answer finds the call that it answers. *)
LEMMA DispatchKeeps ==
  ASSUME InductiveInvariant, NEW k \in Conns, dispatch_incoming_line(k)
  PROVE  InductiveInvariant'
<1> USE DEF setVars, locals, srvVars
<1> DEFINE m == Head(s2c[k])
           to == {p \in pending[k] : p[1] = m.id}
<1>1. /\ s2c[k] # <<>> /\ m # EOF
      /\ pending' = [pending EXCEPT ![k] = @ \ to]
      /\ reply' = [c \in Calls |-> IF \E p \in to : p[2] = c THEN m ELSE reply[c]]
      /\ s2c' = [s2c EXCEPT ![k] = Tail(@)]
      /\ UNCHANGED <<cached, setting, had, saving, events, pc, locals, result, effects, target,
                     connected, nextId, outQ, writer, reader, link, serving, authed, jobs>>
  BY DEF dispatch_incoming_line
<1>2. s2c[k] \in Seq(Response \cup {EOF})
  BY DEF InductiveInvariant, TypeOK
<1>3. /\ Tail(s2c[k]) \in Seq(Response \cup {EOF})
      /\ Range(Tail(s2c[k])) \subseteq Range(s2c[k])
      /\ Head(s2c[k]) \in Range(s2c[k])
      /\ Head(s2c[k]) \in Response \cup {EOF}
  BY <1>1, <1>2, TailRange
<1>4. m \in Answers(k) /\ m \in Response
  BY <1>1, <1>3 DEF Answers
<1>5. to \subseteq pending[k] /\ \A p \in to : p[1] = m.id
  OBVIOUS
<1>a. \A p \in pending[k] : p[1] = m.id => p \in to
  OBVIOUS
<1> HIDE DEF m, to
<1>6. /\ s2c' \in [Conns -> Seq(Response \cup {EOF})]
      /\ \A h \in Conns : Answers(h)' \subseteq Answers(h)
  BY <1>1, <1>3 DEF InductiveInvariant, TypeOK, Answers
<1>7. /\ pending' \in [Conns -> SUBSET (Nat \X Calls)]
      /\ \A h \in Conns : pending'[h] \subseteq pending[h]
      /\ pending'[k] = pending[k] \ to
  BY <1>1 DEF InductiveInvariant, TypeOK
<1>8. reply' \in [Calls -> Response \cup {None}]
  BY <1>1, <1>4 DEF InductiveInvariant, TypeOK
<1>9. \A h \in Conns : /\ Running(h)' = Running(h) /\ Lines(h)' = Lines(h)
                       /\ \A c \in Calls : Sent(h, c)' = Sent(h, c)
  BY <1>1, SameJobs, SameLines
<1>10. TypeOK'
  BY <1>1, <1>6, <1>7, <1>8, <1>9 DEF InductiveInvariant, TypeOK
<1>11. ASSUME NEW c \in Calls, \E p \in to : p[2] = c
       PROVE  Answered(c)
  <2>1. PICK p \in to : p[2] = c
    BY <1>11
  <2>2. p \in pending[k] /\ p[1] = m.id /\ p = <<p[1], p[2]>>
    BY <1>5, <2>1 DEF InductiveInvariant, TypeOK
  <2>3. pc[c] \in {"send", "wait"} /\ on[c] = k /\ id[c] = m.id
    BY <2>1, <2>2 DEF InductiveInvariant, PendingIsAwaited
  <2>4. p = <<id[c], c>>
    BY <2>1, <2>2, <2>3
  <2>5. <<id[c], c>> \in pending[on[c]] /\ <<id[c], c>> \notin pending'[on[c]]
    BY <1>7, <2>1, <2>2, <2>3, <2>4
  <2>6. reply'[c] = m
    BY <1>1, <1>11
  <2>7. m.call = c /\ m.mode = mode[c]
    BY <1>4, <2>3 DEF InductiveInvariant, IdsIdentify, Numbered
  <2>8. AnswerFits(k, m)
    BY <1>4 DEF InductiveInvariant, AnswersFit
  <2> QED BY <2>3, <2>5, <2>6, <2>7, <2>8 DEF Answered, Numbered
<1>12. \A c \in Calls : reply'[c] = reply[c] \/ Answered(c)
  BY <1>1, <1>11
<1>13. \A h \in Conns, c \in Calls :
         /\ \A i, j \in Sent(h, c)' : i = j
         /\ Sent(h, c)' # {} => Sent(h, c) # {}
  BY <1>9 DEF InductiveInvariant, SentOnce
<1> QED BY <1>1, <1>6, <1>7, <1>9, <1>10, <1>12, <1>13, DeliverKeeps

-----------------------------------------------------------------------------
(* Steps of the calls that stay on their way *)

WiresSame == UNCHANGED <<outQ, s2c, jobs>>

LEMMA SameWires ==
  ASSUME WiresSame
  PROVE  /\ \A k \in Conns : Lines(k)' = Lines(k) /\ Answers(k)' = Answers(k)
         /\ \A k \in Conns : Running(k)' = Running(k)
         /\ \A k \in Conns, d \in Calls : Sent(k, d)' = Sent(k, d) /\ Queued(k, d)' = Queued(k, d)
         /\ \A d \in Calls : Unexecuted(d)' = Unexecuted(d)
  BY SameLines, SameAnswers, SameJobs, SameUnexecuted DEF WiresSame

(* Calls in the pending map that stay where they are. *)
LEMMA PendingKept ==
  ASSUME TypeOK, PendingIsAwaited, pending' = pending,
         \A d \in Calls : pc[d] \in {"send", "wait"} =>
             pc'[d] \in {"send", "wait"} /\ on'[d] = on[d] /\ id'[d] = id[d]
  PROVE  PendingIsAwaited'
<1> SUFFICES ASSUME NEW k \in Conns, NEW p \in pending[k]
             PROVE  pc'[p[2]] \in {"send", "wait"} /\ on'[p[2]] = k /\ id'[p[2]] = p[1]
  BY DEF PendingIsAwaited
<1>1. pending[k] \subseteq Nat \X Calls
  BY DEF TypeOK
<1>2. p[2] \in Calls
  BY <1>1
<1> QED BY <1>2 DEF PendingIsAwaited

(* A call takes the shared client as it is. *)
LEMMA EnsureKeeps ==
  ASSUME InductiveInvariant, NEW c \in Calls, ensure_remote_backend(c)
  PROVE  InductiveInvariant'
<1> USE DEF InductiveInvariant, setVars, locals, appVars, netVars, srvVars, Goto
<1>1. /\ pc[c] \in {"idle", "ensure"}
      /\ UNCHANGED <<cached, setting, had, saving, events, dial, lost, id, reply, result, effects,
                     target, connected, nextId, pending, outQ, writer, reader, link, s2c,
                     serving, authed, jobs>>
      /\ pc' \in [Calls -> {"idle", "ensure", "resolve", "connect", "check",
                            "insert", "send", "wait", "done"}]
      /\ on' \in [Calls -> Conns \cup {None}] /\ mode' \in [Calls -> {"auth", "rpc"}]
      /\ mode'[c] = "rpc" /\ on'[c] = cached
      /\ pc'[c] = IF cached = None THEN "resolve" ELSE "check"
      /\ \A d \in Calls \ {c} : pc'[d] = pc[d] /\ on'[d] = on[d] /\ mode'[d] = mode[d]
  <2>1. on[c] = None /\ mode[c] = "rpc"
    BY DEF ensure_remote_backend, LocalsSet, Attached, TypeOK
  <2>2. CASE cached = None
    BY <2>1, <2>2 DEF ensure_remote_backend, TypeOK
  <2>3. CASE cached # None
    BY <2>1, <2>3 DEF ensure_remote_backend, TypeOK
  <2> QED BY <2>2, <2>3
<1>a. /\ \A k \in Conns : Lines(k)' = Lines(k) /\ Answers(k)' = Answers(k)
      /\ \A k \in Conns : Running(k)' = Running(k)
      /\ \A k \in Conns, d \in Calls : Sent(k, d)' = Sent(k, d) /\ Queued(k, d)' = Queued(k, d)
      /\ \A d \in Calls : Unexecuted(d)' = Unexecuted(d)
  BY <1>1, SameWires DEF WiresSame
<1>2. TypeOK'
  BY <1>1, <1>a DEF TypeOK
<1>3. LocalsSet'
  BY <1>1 DEF LocalsSet, Attached, Active
<1>4. ConnectionsUsed'
  BY <1>1, <1>a DEF ConnectionsUsed
<1>5. PendingIsAwaited'
  BY <1>1, PendingKept
<1>6. AnsweredOnce' /\ OwnAnswer'
  <2>1. reply[c] = None
    BY <1>1 DEF LocalsSet
  <2> QED BY <1>1, <2>1 DEF AnsweredOnce, OwnAnswer
<1>7. IdsIdentify'
  BY <1>1, <1>a DEF IdsIdentify, Numbered
<1>8. AuthIsPrivate' /\ LostStaysLost'
  <2>1. AuthIsPrivate'
    BY <1>1 DEF AuthIsPrivate
  <2>2. LostStaysLost'
    BY <1>1 DEF LostStaysLost
  <2> QED BY <2>1, <2>2
<1>9. SharedIsTrusted' /\ AnswersFit'
  <2>1. \A k : Trusted(k)' = Trusted(k)
    BY <1>1 DEF Trusted
  <2>2. SharedIsTrusted'
    BY <1>1, <1>a, <2>1 DEF SharedIsTrusted
  <2>3. reply[c] = None
    BY <1>1 DEF LocalsSet
  <2>4. AnswersFit'
    BY <1>1, <1>a, <2>1, <2>3 DEF AnswersFit, AnswerFits
  <2> QED BY <2>2, <2>4
<1>10. SentOnce'
  BY <1>1, <1>a DEF SentOnce
<1>11. EffectsBounded'
  <2>1. \A d \in Calls : SendsLeft(d)' <= SendsLeft(d)
    BY <1>1 DEF SendsLeft, can_retry_after_disconnect
  <2> QED BY <1>1, <1>a, <2>1, BoundKept
<1> QED BY <1>1, <1>2, <1>3, <1>4, <1>5, <1>6, <1>7, <1>8, <1>9, <1>10, <1>11

LEMMA ResolveKeeps ==
  ASSUME InductiveInvariant, NEW c \in Calls, resolve_transport_config(c)
  PROVE  InductiveInvariant'
<1> USE DEF InductiveInvariant, setVars, locals, appVars, netVars, srvVars, Goto
<1>1. /\ pc[c] = "resolve"
      /\ UNCHANGED <<cached, setting, had, saving, events, mode, on, lost, id, reply, result,
                     effects, target, connected, nextId, pending, outQ, writer, reader,
                     link, s2c, serving, authed, jobs>>
      /\ pc' \in [Calls -> {"idle", "ensure", "resolve", "connect", "check",
                            "insert", "send", "wait", "done"}]
      /\ dial' \in [Calls -> Remotes \cup {None}]
      /\ pc'[c] = "connect" /\ dial'[c] # None
      /\ \A d \in Calls \ {c} : pc'[d] = pc[d] /\ dial'[d] = dial[d]
  BY NoneAssumption DEF resolve_transport_config, TypeOK
<1>a. /\ \A k \in Conns : Lines(k)' = Lines(k) /\ Answers(k)' = Answers(k)
      /\ \A k \in Conns : Running(k)' = Running(k)
      /\ \A k \in Conns, d \in Calls : Sent(k, d)' = Sent(k, d) /\ Queued(k, d)' = Queued(k, d)
      /\ \A d \in Calls : Unexecuted(d)' = Unexecuted(d)
  BY <1>1, SameWires DEF WiresSame
<1>2. TypeOK'
  BY <1>1, <1>a DEF TypeOK
<1>3. LocalsSet'
  BY <1>1 DEF LocalsSet, Attached, Active
<1>4. ConnectionsUsed'
  BY <1>1, <1>a DEF ConnectionsUsed
<1>5. PendingIsAwaited' /\ AnsweredOnce' /\ OwnAnswer'
  <2>1. PendingIsAwaited'
    BY <1>1, PendingKept
  <2> QED BY <1>1, <2>1 DEF AnsweredOnce, OwnAnswer
<1>6. IdsIdentify'
  BY <1>1, <1>a DEF IdsIdentify, Numbered
<1>7. AuthIsPrivate' /\ LostStaysLost'
  BY <1>1 DEF AuthIsPrivate, LostStaysLost
<1>8. SharedIsTrusted' /\ AnswersFit'
  BY <1>1, <1>a DEF SharedIsTrusted, AnswersFit, AnswerFits, Trusted
<1>9. SentOnce'
  BY <1>1, <1>a DEF SentOnce
<1>10. EffectsBounded'
  <2>1. \A d \in Calls : SendsLeft(d)' <= SendsLeft(d)
    BY <1>1 DEF SendsLeft, can_retry_after_disconnect
  <2> QED BY <1>1, <1>a, <2>1, BoundKept
<1> QED BY <1>1, <1>2, <1>3, <1>4, <1>5, <1>6, <1>7, <1>8, <1>9, <1>10

(* A new connection is used by nobody else, and shared at once only where  *)
(* there is no token to present.                                           *)
LEMMA ConnectKeeps ==
  ASSUME InductiveInvariant, NEW c \in Calls, NEW k \in Conns, connect(c, k)
  PROVE  InductiveInvariant'
<1> USE DEF InductiveInvariant, Goto
<1>1. /\ pc[c] = "connect" /\ link[k] = "none" /\ on[c] = None /\ mode[c] = "rpc"
      /\ dial[c] \in Remotes /\ reply[c] = None
  <2>1. pc[c] = "connect" /\ link[k] = "none"
    BY DEF connect, Unused
  <2> QED BY <2>1 DEF LocalsSet, Attached, TypeOK
<1>2. /\ UNCHANGED <<setting, had, saving, events, lost, id, reply, result, effects, nextId,
                     pending, outQ, s2c, jobs>>
      /\ pc' \in [Calls -> {"idle", "ensure", "resolve", "connect", "check",
                            "insert", "send", "wait", "done"}]
      /\ on' \in [Calls -> Conns \cup {None}] /\ dial' \in [Calls -> Remotes \cup {None}]
      /\ mode' \in [Calls -> {"auth", "rpc"}] /\ cached' \in Conns \cup {None}
      /\ pc'[c] = "check" /\ on'[c] = k
      /\ \/ TokenOf[dial[c]] = "none" /\ cached' = k /\ mode'[c] = "rpc"
         \/ cached' = cached /\ mode'[c] = "auth"
      /\ \A d \in Calls \ {c} :
           pc'[d] = pc[d] /\ on'[d] = on[d] /\ mode'[d] = mode[d] /\ dial'[d] = dial[d]
  <2>1. CASE TokenOf[dial[c]] = "none"
    BY <1>1, <2>1 DEF connect, TypeOK, Publish
  <2>2. CASE TokenOf[dial[c]] # "none"
    BY <1>1, <2>2 DEF connect, TypeOK, Publish
  <2> QED BY <2>1, <2>2
<1>3. /\ target' \in [Conns -> Remotes \cup {None}] /\ connected' \in [Conns -> BOOLEAN]
      /\ writer' \in [Conns -> {"on", "drain", "off"}]
      /\ reader' \in [Conns -> {"on", "drain", "off"}]
      /\ link' \in [Conns -> {"none", "up", "cut", "dark"}]
      /\ serving' \in [Conns -> BOOLEAN] /\ authed' \in [Conns -> BOOLEAN]
      /\ target'[k] = dial[c] /\ link'[k] = "up"
      /\ \A h \in Conns \ {k} : /\ target'[h] = target[h] /\ link'[h] = link[h]
                                /\ serving'[h] = serving[h] /\ authed'[h] = authed[h]
  BY <1>1, ConstantsAssumption DEF connect, TypeOK
<1>a. /\ \A h \in Conns : Lines(h)' = Lines(h) /\ Answers(h)' = Answers(h)
      /\ \A h \in Conns : Running(h)' = Running(h)
      /\ \A h \in Conns, d \in Calls : Sent(h, d)' = Sent(h, d) /\ Queued(h, d)' = Queued(h, d)
      /\ \A d \in Calls : Unexecuted(d)' = Unexecuted(d)
  BY <1>2, SameWires DEF WiresSame
<1>b. /\ cached # k /\ Lines(k) = {} /\ Answers(k) = {} /\ jobs[k] = {}
      /\ \A d \in Calls : on[d] # k /\ lost[d] # k
  BY <1>1 DEF ConnectionsUsed
<1>4. TypeOK'
  BY <1>2, <1>3, <1>a DEF TypeOK
<1>5. LocalsSet'
  BY <1>1, <1>2, NoneAssumption DEF LocalsSet, Attached, Active
<1>6. ConnectionsUsed'
  BY <1>1, <1>2, <1>3, <1>a, NoneAssumption DEF ConnectionsUsed
<1>7. PendingIsAwaited'
  BY <1>1, <1>2, PendingKept
<1>8. AnsweredOnce' /\ OwnAnswer'
  BY <1>1, <1>2 DEF AnsweredOnce, OwnAnswer
<1>9. IdsIdentify'
  BY <1>1, <1>2, <1>a DEF IdsIdentify, Numbered
<1>10. AuthIsPrivate'
  <2> SUFFICES ASSUME NEW d \in Calls, mode'[d] = "auth"
               PROVE  /\ cached' # on'[d]
                      /\ \A e \in Calls : lost'[e] # on'[d] /\ (e # d => on'[e] # on'[d])
    BY DEF AuthIsPrivate
  <2>1. CASE d = c
    BY <1>2, <1>b, <2>1
  <2>2. CASE d # c
    BY <1>2, <1>b, <2>2 DEF AuthIsPrivate
  <2> QED BY <2>1, <2>2
<1>11. LostStaysLost'
  BY <1>2, <1>b DEF LostStaysLost
<1>12. /\ \A h \in Conns \ {k} : Trusted(h)' = Trusted(h)
       /\ TokenOf[dial[c]] = "none" => Trusted(k)'
  BY <1>3 DEF Trusted
<1>13. SharedIsTrusted'
  <2>1. cached' # None => Trusted(cached)'
    <3>1. CASE cached' = k
      BY <1>2, <1>b, <1>12, <3>1 DEF Trusted
    <3>2. CASE cached' = cached
      BY <1>3, <1>b, <3>2 DEF SharedIsTrusted, Trusted, TypeOK
    <3> QED BY <1>2, <3>1, <3>2
  <2>2. ASSUME NEW d \in Calls, on'[d] # None, mode'[d] = "rpc"
        PROVE  Trusted(on[d])'
    <3>1. CASE d = c
      BY <1>2, <1>b, <1>12, <2>2, <3>1 DEF Trusted
    <3>2. CASE d # c
      BY <1>2, <1>3, <1>b, <2>2, <3>2 DEF SharedIsTrusted, Trusted, TypeOK
    <3> QED BY <3>1, <3>2
  <2>3. \A h \in Conns : \A q \in Lines(h)' : q.mode = "rpc" => Trusted(h)'
    BY <1>a, <1>b, <1>12 DEF SharedIsTrusted
  <2> QED BY <2>1, <2>2, <2>3 DEF SharedIsTrusted
<1>14. AnswersFit'
  <2>1. \A h \in Conns \ {k} : \A a : AnswerFits(h, a)' = AnswerFits(h, a)
    BY <1>2, <1>3 DEF AnswerFits, Trusted
  <2>2. \A h \in Conns : \A a \in Answers(h)' : AnswerFits(h, a)'
    BY <1>a, <1>b, <2>1 DEF AnswersFit
  <2>3. ASSUME NEW d \in Calls, reply'[d] # None
        PROVE  AnswerFits(on[d], reply[d])'
    <3>1. d # c /\ on'[d] = on[d] /\ reply'[d] = reply[d] /\ on[d] \in Conns \ {k}
      BY <1>1, <1>2, <1>b, <2>3 DEF LocalsSet, Attached, TypeOK
    <3>2. AnswerFits(on[d], reply[d])
      BY <1>2, <2>3 DEF AnswersFit
    <3>3. UNCHANGED effects
      BY <1>2
    <3> QED BY <1>3, <3>1, <3>2, <3>3 DEF AnswerFits, Trusted
  <2> QED BY <1>2, <1>a, <2>2, <2>3 DEF AnswersFit
<1>15. SentOnce'
  BY <1>1, <1>2, <1>a DEF SentOnce
<1>16. EffectsBounded'
  <2>1. \A d \in Calls : SendsLeft(d)' <= SendsLeft(d)
    BY <1>1, <1>2 DEF SendsLeft, can_retry_after_disconnect
  <2> QED BY <1>2, <1>a, <2>1, BoundKept
<1> QED BY <1>2, <1>4, <1>5, <1>6, <1>7, <1>8, <1>9, <1>10, <1>11, <1>13, <1>14, <1>15, <1>16

(* fetch_add hands out an id that nothing on the connection carries. *)
LEMMA CheckPassesKeeps ==
  ASSUME InductiveInvariant, NEW c \in Calls, call_check(c), connected[on[c]]
  PROVE  InductiveInvariant'
<1> USE DEF InductiveInvariant
<1> DEFINE k == on[c]
<1>1. /\ pc[c] = "check" /\ k \in Conns /\ reply[c] = None
  <2>1. pc[c] = "check"
    BY DEF call_check
  <2> QED BY <2>1 DEF LocalsSet, Attached, TypeOK
<1>2. /\ UNCHANGED <<cached, setting, had, saving, events, mode, dial, on, lost, reply, result,
                     effects, target, connected, pending, outQ, writer, reader, link, s2c,
                     serving, authed, jobs>>
      /\ id' = [id EXCEPT ![c] = nextId[k]]
      /\ nextId' = [nextId EXCEPT ![k] = @ + 1]
      /\ pc' = [pc EXCEPT ![c] = "insert"]
  BY DEF call_check, Goto, netVars, srvVars
<1>k. \A h \in Conns : on[c] = h <=> h = k
  OBVIOUS
<1> HIDE DEF k
<1>3. /\ pc' \in [Calls -> {"idle", "ensure", "resolve", "connect", "check",
                            "insert", "send", "wait", "done"}]
      /\ id' \in [Calls -> Nat] /\ nextId' \in [Conns -> Nat \ {0}]
      /\ pc'[c] = "insert" /\ id'[c] = nextId[k] /\ nextId'[k] = nextId[k] + 1
      /\ nextId[k] \in Nat
      /\ \A d \in Calls \ {c} : pc'[d] = pc[d] /\ id'[d] = id[d]
      /\ \A h \in Conns \ {k} : nextId'[h] = nextId[h]
  <2>1. /\ pc \in [Calls -> {"idle", "ensure", "resolve", "connect", "check",
                             "insert", "send", "wait", "done"}]
        /\ id \in [Calls -> Nat] /\ nextId \in [Conns -> Nat \ {0}]
    BY DEF TypeOK
  <2>2. nextId[k] + 1 \in Nat \ {0} /\ nextId[k] \in Nat
    BY <1>1, <2>1
  <2> QED BY <1>1, <1>2, <2>1, <2>2
<1>a. /\ \A h \in Conns : Lines(h)' = Lines(h) /\ Answers(h)' = Answers(h)
      /\ \A h \in Conns : Running(h)' = Running(h)
      /\ \A h \in Conns, d \in Calls : Sent(h, d)' = Sent(h, d) /\ Queued(h, d)' = Queued(h, d)
      /\ \A d \in Calls : Unexecuted(d)' = Unexecuted(d)
  BY <1>2, SameWires DEF WiresSame
<1>4. TypeOK'
  BY <1>2, <1>3, <1>a DEF TypeOK
<1>5. LocalsSet'
  BY <1>1, <1>2, <1>3 DEF LocalsSet, Attached, Active
<1>6. ConnectionsUsed'
  BY <1>2, <1>a DEF ConnectionsUsed
<1>7. PendingIsAwaited' /\ AnsweredOnce' /\ OwnAnswer'
  <2>1. PendingIsAwaited'
    BY <1>1, <1>2, <1>3, PendingKept
  <2> QED BY <1>1, <1>2, <1>3, <2>1 DEF AnsweredOnce, OwnAnswer
<1>8. IdsIdentify'
  <2>1. \A d \in Calls : Numbered(d)' <=> (d = c \/ Numbered(d))
    BY <1>3 DEF Numbered
  <2>2. \A d \in Calls : Numbered(d) =>
          on[d] \in Conns /\ id[d] \in Nat /\ nextId[on[d]] \in Nat /\ id[d] < nextId[on[d]]
    BY DEF IdsIdentify, Numbered, LocalsSet, Attached, TypeOK
  <2>3. ASSUME NEW d \in Calls, Numbered(d)'
        PROVE  /\ id'[d] < nextId'[on[d]]
               /\ \A e \in Calls \ {d} :
                     (Numbered(e)' /\ on[e] = on[d]) => id'[e] # id'[d]
    <3>1. CASE d = c
      <4>1. id'[d] < nextId'[on[d]]
        BY <1>1, <1>3, <3>1 DEF k
      <4>2. ASSUME NEW e \in Calls \ {d}, Numbered(e)', on[e] = on[d]
            PROVE  id'[e] # id'[d]
        <5>1. Numbered(e) /\ id'[e] = id[e] /\ on[e] = k
          BY <1>3, <2>1, <3>1, <4>2 DEF k
        <5>2. id[e] < nextId[k] /\ id[e] \in Nat
          BY <2>2, <5>1
        <5> QED BY <1>3, <3>1, <5>1, <5>2
      <4> QED BY <4>1, <4>2
    <3>2. CASE d # c
      <4>1. Numbered(d) /\ id'[d] = id[d]
        BY <1>3, <2>1, <2>3, <3>2
      <4>2. id'[d] < nextId'[on[d]]
        BY <1>3, <2>2, <4>1
      <4>3. ASSUME NEW e \in Calls \ {d}, Numbered(e)', on[e] = on[d]
            PROVE  id'[e] # id'[d]
        <5>1. CASE e = c
          BY <1>1, <1>3, <2>2, <4>1, <4>3, <5>1 DEF k
        <5>2. CASE e # c
          BY <1>3, <2>1, <4>1, <4>3, <5>2 DEF IdsIdentify
        <5> QED BY <5>1, <5>2
      <4> QED BY <4>2, <4>3
    <3> QED BY <3>1, <3>2
  <2>4. ASSUME NEW h \in Conns, NEW q \in Items(h)
        PROVE  /\ q.id < nextId'[h]
               /\ \A d \in Calls : (Numbered(d)' /\ on[d] = h /\ id'[d] = q.id)
                                      => (q.call = d /\ q.mode = mode[d])
    <3>1. q.id \in Nat /\ q.id < nextId[h] /\ nextId[h] \in Nat
      <4>1. q \in Request \cup Job \cup Response
        BY WireTypes DEF Items
      <4>2. q.id \in Nat
        BY <4>1 DEF Request, Job, Response
      <4>3. q.id < nextId[h]
        BY DEF IdsIdentify, Items
      <4> QED BY <4>2, <4>3 DEF TypeOK
    <3>2. q.id < nextId'[h]
      BY <1>3, <3>1
    <3>3. ASSUME NEW d \in Calls, Numbered(d)', on[d] = h, id'[d] = q.id
          PROVE  q.call = d /\ q.mode = mode[d]
      <4>1. d # c
        BY <1>3, <1>k, <3>1, <3>3
      <4>2. Numbered(d) /\ id[d] = q.id
        BY <1>3, <2>1, <3>3, <4>1
      <4> QED BY <3>3, <4>2 DEF IdsIdentify, Items
    <3> QED BY <3>2, <3>3
  <2>5. \A h \in Conns : Lines(h)' \cup jobs'[h] \cup Answers(h)' = Items(h)
    BY <1>2, <1>a DEF Items
  <2> QED BY <1>2, <2>3, <2>4, <2>5 DEF IdsIdentify
<1>9. AuthIsPrivate' /\ LostStaysLost'
  BY <1>2 DEF AuthIsPrivate, LostStaysLost
<1>10. SharedIsTrusted' /\ AnswersFit'
  BY <1>2, <1>a DEF SharedIsTrusted, AnswersFit, AnswerFits, Trusted
<1>11. SentOnce'
  BY <1>1, <1>2, <1>3, <1>a DEF SentOnce
<1>12. EffectsBounded'
  <2>1. \A d \in Calls : SendsLeft(d)' <= SendsLeft(d)
    BY <1>1, <1>2, <1>3 DEF SendsLeft, can_retry_after_disconnect
  <2> QED BY <1>2, <1>a, <2>1, BoundKept
<1> QED BY <1>2, <1>4, <1>5, <1>6, <1>7, <1>8, <1>9, <1>10, <1>11, <1>12

LEMMA InsertKeeps ==
  ASSUME InductiveInvariant, NEW c \in Calls, call_insert(c)
  PROVE  InductiveInvariant'
<1> USE DEF InductiveInvariant
<1> DEFINE k == on[c]
<1>1. /\ pc[c] = "insert" /\ k \in Conns /\ reply[c] = None
  <2>1. pc[c] = "insert"
    BY DEF call_insert
  <2> QED BY <2>1 DEF LocalsSet, Attached, TypeOK
<1>2. /\ UNCHANGED <<cached, setting, had, saving, events, mode, dial, on, lost, id, reply, result,
                     effects, target, connected, nextId, outQ, writer, reader, link, s2c,
                     serving, authed, jobs>>
      /\ pending' = [pending EXCEPT ![k] = @ \cup {<<id[c], c>>}]
      /\ pc' = [pc EXCEPT ![c] = "send"]
  BY DEF call_insert, Goto, setVars, locals, netVars, srvVars
<1> HIDE DEF k
<1>3. /\ pc' \in [Calls -> {"idle", "ensure", "resolve", "connect", "check",
                            "insert", "send", "wait", "done"}]
      /\ pending' \in [Conns -> SUBSET (Nat \X Calls)]
      /\ pc'[c] = "send" /\ pending'[k] = pending[k] \cup {<<id[c], c>>}
      /\ \A d \in Calls \ {c} : pc'[d] = pc[d]
      /\ \A h \in Conns \ {k} : pending'[h] = pending[h]
  <2>1. /\ pc \in [Calls -> {"idle", "ensure", "resolve", "connect", "check",
                             "insert", "send", "wait", "done"}]
        /\ pending \in [Conns -> SUBSET (Nat \X Calls)] /\ <<id[c], c>> \in Nat \X Calls
    BY DEF TypeOK
  <2> QED BY <1>1, <1>2, <2>1
<1>a. /\ \A h \in Conns : Lines(h)' = Lines(h) /\ Answers(h)' = Answers(h)
      /\ \A h \in Conns : Running(h)' = Running(h)
      /\ \A h \in Conns, d \in Calls : Sent(h, d)' = Sent(h, d) /\ Queued(h, d)' = Queued(h, d)
      /\ \A d \in Calls : Unexecuted(d)' = Unexecuted(d)
  BY <1>2, SameWires DEF WiresSame
<1>4. TypeOK'
  BY <1>2, <1>3, <1>a DEF TypeOK
<1>5. LocalsSet'
  BY <1>1, <1>2, <1>3 DEF LocalsSet, Attached, Active
<1>6. ConnectionsUsed'
  BY <1>2, <1>a DEF ConnectionsUsed
<1>7. PendingIsAwaited'
  <2> SUFFICES ASSUME NEW h \in Conns, NEW p \in pending'[h]
               PROVE  pc'[p[2]] \in {"send", "wait"} /\ on[p[2]] = h /\ id[p[2]] = p[1]
    BY <1>2 DEF PendingIsAwaited
  <2>1. CASE h = k /\ p = <<id[c], c>>
    BY <1>1, <1>3, <2>1 DEF k
  <2>2. CASE p \in pending[h]
    <3>1. pending[h] \subseteq Nat \X Calls
      BY DEF TypeOK
    <3>2. p[2] \in Calls
      BY <2>2, <3>1
    <3>3. pc[p[2]] \in {"send", "wait"} /\ on[p[2]] = h /\ id[p[2]] = p[1]
      BY <2>2 DEF PendingIsAwaited
    <3> QED BY <1>1, <1>3, <3>2, <3>3
  <2> QED BY <1>3, <2>1, <2>2
<1>8. AnsweredOnce' /\ OwnAnswer'
  <2>1. ASSUME NEW d \in Calls, reply'[d] # None
        PROVE  <<id[d], d>> \notin pending'[on[d]]
    <3>1. d # c /\ on[d] \in Conns /\ <<id[d], d>> \notin pending[on[d]]
      BY <1>1, <1>2, <2>1 DEF AnsweredOnce, LocalsSet, Attached, TypeOK
    <3>2. <<id[d], d>> # <<id[c], c>>
      BY <3>1
    <3> QED BY <1>3, <3>1, <3>2
  <2> QED BY <1>2, <2>1 DEF AnsweredOnce, OwnAnswer
<1>9. IdsIdentify'
  <2>1. \A d \in Calls : Numbered(d)' = Numbered(d)
    BY <1>1, <1>3 DEF Numbered
  <2> QED BY <1>2, <1>a, <2>1 DEF IdsIdentify
<1>10. AuthIsPrivate' /\ LostStaysLost'
  BY <1>2 DEF AuthIsPrivate, LostStaysLost
<1>11. SharedIsTrusted' /\ AnswersFit'
  BY <1>2, <1>a DEF SharedIsTrusted, AnswersFit, AnswerFits, Trusted
<1>12. SentOnce'
  BY <1>1, <1>2, <1>3, <1>a DEF SentOnce
<1>13. EffectsBounded'
  <2>1. \A d \in Calls : SendsLeft(d)' <= SendsLeft(d)
    BY <1>1, <1>2, <1>3 DEF SendsLeft, can_retry_after_disconnect
  <2> QED BY <1>2, <1>a, <2>1, BoundKept
<1> QED BY <1>2, <1>4, <1>5, <1>6, <1>7, <1>8, <1>9, <1>10, <1>11, <1>12, <1>13

(* The request enters the queue: one of the sends the call had left. *)
LEMMA SendPassesKeeps ==
  ASSUME InductiveInvariant, NEW c \in Calls, NEW k \in Conns, NEW line,
         call_send(c), writer[k] # "off", k = on[c],
         line = [id |-> id[c], call |-> c, mode |-> mode[c]]
  PROVE  InductiveInvariant'
<1> USE DEF InductiveInvariant
<1>1. /\ pc[c] = "send" /\ k \in Conns /\ lost[c] # k
  BY NoneAssumption DEF call_send, LostStaysLost
<1>2. /\ UNCHANGED <<cached, setting, had, saving, events, mode, dial, on, lost, id, reply, result,
                     effects, target, connected, nextId, pending, writer, reader, link, s2c,
                     serving, authed, jobs>>
      /\ Len(outQ[k]) < QueueCapacity
      /\ outQ' = [outQ EXCEPT ![k] = Append(@, line)]
      /\ pc' = [pc EXCEPT ![c] = "wait"]
  BY DEF call_send, Goto, locals, netVars, srvVars
<1>3. /\ line \in Request /\ line.id = id[c] /\ line.call = c /\ line.mode = mode[c]
      /\ RpcOf(line, c) <=> mode[c] = "rpc"
      /\ \A d \in Calls \ {c} : ~RpcOf(line, d)
  BY DEF Request, RpcOf, TypeOK
<1>4. /\ pc' \in [Calls -> {"idle", "ensure", "resolve", "connect", "check",
                            "insert", "send", "wait", "done"}]
      /\ pc'[c] = "wait" /\ \A d \in Calls \ {c} : pc'[d] = pc[d]
  BY <1>2 DEF TypeOK
<1>5. /\ outQ[k] \in Seq(Request) /\ Len(outQ[k]) \in Nat
      /\ outQ'[k] = Append(outQ[k], line)
      /\ \A h \in Conns \ {k} : outQ'[h] = outQ[h]
  <2>1. outQ \in [Conns -> Seq(Request)]
    BY DEF TypeOK
  <2> QED BY <1>1, <1>2, <2>1, LenProperties
<1>6. /\ Append(outQ[k], line) \in Seq(Request)
      /\ Range(Append(outQ[k], line)) = Range(outQ[k]) \cup {line}
      /\ DOMAIN Append(outQ[k], line) = DOMAIN outQ[k] \cup {Len(outQ[k]) + 1}
      /\ Len(outQ[k]) + 1 \notin DOMAIN outQ[k]
      /\ Append(outQ[k], line)[Len(outQ[k]) + 1] = line
      /\ \A i \in DOMAIN outQ[k] : Append(outQ[k], line)[i] = outQ[k][i]
  BY <1>3, <1>5, AppendRange
<1>7. Len(Append(outQ[k], line)) <= QueueCapacity
  <2>1. Len(Append(outQ[k], line)) = Len(outQ[k]) + 1
    BY <1>3, <1>5, AppendProperties
  <2> QED BY <1>2, <1>5, <2>1, ConstantsAssumption
<1>a. \A h \in Conns : /\ Answers(h)' = Answers(h) /\ Running(h)' = Running(h)
                       /\ \A d \in Calls : Queued(h, d)' = Queued(h, d)
  BY <1>2, SameAnswers, SameJobs
<1>b. /\ Lines(k)' = Lines(k) \cup {line}
      /\ \A h \in Conns \ {k} : Lines(h)' = Lines(h)
  BY <1>5, <1>6 DEF Lines
<1>c. /\ \A h \in Conns \ {k}, d \in Calls : Sent(h, d)' = Sent(h, d)
      /\ \A d \in Calls \ {c} : Sent(k, d)' = Sent(k, d)
      /\ mode[c] = "rpc" => Sent(k, c)' = Sent(k, c) \cup {Len(outQ[k]) + 1}
      /\ mode[c] # "rpc" => Sent(k, c)' = Sent(k, c)
  <2>1. \A h \in Conns \ {k}, d \in Calls : Sent(h, d)' = Sent(h, d)
    BY <1>5 DEF Sent
  <2>2. \A d \in Calls : Sent(k, d)' =
          IF RpcOf(line, d) THEN Sent(k, d) \cup {Len(outQ[k]) + 1} ELSE Sent(k, d)
    BY <1>5, <1>6 DEF Sent
  <2> QED BY <1>3, <2>1, <2>2
<1>8. TypeOK'
  <2>1. outQ' \in [Conns -> Seq(Request)]
    BY <1>2, <1>6 DEF TypeOK
  <2>2. \A h \in Conns : Len(outQ'[h]) <= QueueCapacity
    BY <1>5, <1>7 DEF TypeOK
  <2> QED BY <1>2, <1>4, <1>a, <2>1, <2>2 DEF TypeOK
<1>9. LocalsSet'
  BY <1>1, <1>2, <1>4 DEF LocalsSet, Attached, Active
<1>10. ConnectionsUsed'
  BY <1>1, <1>2, <1>a, <1>b DEF ConnectionsUsed
<1>11. PendingIsAwaited' /\ AnsweredOnce' /\ OwnAnswer'
  <2>1. PendingIsAwaited'
    BY <1>1, <1>2, <1>4, PendingKept
  <2> QED BY <1>2, <2>1 DEF AnsweredOnce, OwnAnswer
<1>12. IdsIdentify'
  <2>1. Numbered(c) /\ \A d \in Calls : Numbered(d)' = Numbered(d)
    BY <1>1, <1>4 DEF Numbered
  <2>2. /\ id[c] < nextId[k]
        /\ \A d \in Calls : (Numbered(d) /\ on[d] = k /\ id[d] = id[c]) => d = c
    BY <2>1 DEF IdsIdentify
  <2>3. /\ line.id < nextId[k]
        /\ \A d \in Calls : (Numbered(d) /\ on[d] = k /\ id[d] = line.id)
                              => (line.call = d /\ line.mode = mode[d])
    BY <1>3, <2>2
  <2>4. ASSUME NEW h \in Conns, NEW q \in Items(h)'
        PROVE  /\ q.id < nextId[h]
               /\ \A d \in Calls : (Numbered(d) /\ on[d] = h /\ id[d] = q.id)
                                     => (q.call = d /\ q.mode = mode[d])
    <3>1. CASE q \in Items(h)
      BY <3>1 DEF IdsIdentify, Items
    <3>2. CASE q \notin Items(h)
      <4>1. h = k /\ q = line
        BY <1>2, <1>a, <1>b, <3>2 DEF Items
      <4> QED BY <2>3, <4>1
    <3> QED BY <3>1, <3>2
  <2>5. \A d \in Calls : Numbered(d) =>
          /\ id[d] < nextId[on[d]]
          /\ \A e \in Calls \ {d} : (Numbered(e) /\ on[e] = on[d]) => id[e] # id[d]
    BY DEF IdsIdentify
  <2> QED BY <1>2, <2>1, <2>4, <2>5 DEF IdsIdentify, Items
<1>13. AuthIsPrivate' /\ LostStaysLost'
  BY <1>2 DEF AuthIsPrivate, LostStaysLost
<1>14. SharedIsTrusted' /\ AnswersFit'
  <2>1. \A h : Trusted(h)' = Trusted(h)
    BY <1>2 DEF Trusted
  <2>2. mode[c] = "rpc" => Trusted(k)
    BY <1>1, NoneAssumption DEF SharedIsTrusted
  <2>3. SharedIsTrusted'
    BY <1>2, <1>3, <1>b, <2>1, <2>2 DEF SharedIsTrusted
  <2>4. AnswersFit'
    BY <1>2, <1>a, <2>1 DEF AnswersFit, AnswerFits
  <2> QED BY <2>3, <2>4
<1>15. Sent(k, c) = {} /\ Queued(k, c) = {} /\ k \notin Unexecuted(c)
  <2>1. k \notin Unexecuted(c)
    BY <1>1 DEF SentOnce
  <2> QED BY <1>1, <2>1 DEF Unexecuted
<1>16. SentOnce'
  <2> SUFFICES ASSUME NEW h \in Conns, NEW d \in Calls
               PROVE  /\ \A i, j \in Sent(h, d)' : i = j
                      /\ \A i, j \in Queued(h, d)' : i = j
                      /\ Sent(h, d)' = {} \/ Queued(h, d)' = {}
                      /\ h \in Unexecuted(d)' =>
                            \/ pc'[d] = "done"
                            \/ lost[d] = h
                            \/ on[d] = h /\ pc'[d] = "wait" /\ mode[d] = "rpc"
    BY <1>2 DEF SentOnce
  <2>1. CASE h = k /\ d = c /\ mode[c] = "rpc"
    BY <1>a, <1>c, <1>4, <1>15, <2>1
  <2>2. CASE ~(h = k /\ d = c /\ mode[c] = "rpc")
    <3>1. Sent(h, d)' = Sent(h, d) /\ Queued(h, d)' = Queued(h, d)
      BY <1>a, <1>c, <2>2
    <3>2. h \in Unexecuted(d)' <=> h \in Unexecuted(d)
      BY <3>1 DEF Unexecuted
    <3> QED BY <1>1, <1>4, <3>1, <3>2 DEF SentOnce
  <2> QED BY <2>1, <2>2
<1>17. EffectsBounded'
  <2>1. \A d \in Calls \ {c} : Unexecuted(d)' = Unexecuted(d) /\ SendsLeft(d)' = SendsLeft(d)
    BY <1>2, <1>4, <1>a, <1>c DEF Unexecuted, SendsLeft, can_retry_after_disconnect
  <2>2. CASE mode[c] # "rpc"
    <3>1. Unexecuted(c)' = Unexecuted(c)
      BY <1>a, <1>c, <2>2 DEF Unexecuted
    <3>2. SendsLeft(c)' = SendsLeft(c)
      BY <1>1, <1>2, <1>4, <2>2 DEF SendsLeft, can_retry_after_disconnect
    <3>3. \A d \in Calls : Unexecuted(d)' \subseteq Unexecuted(d) /\ SendsLeft(d)' <= SendsLeft(d)
      BY <2>1, <3>1, <3>2, SendsLeftType
    <3> QED BY <1>2, <3>3, BoundKept
  <2>3. CASE mode[c] = "rpc"
    <3>1. Unexecuted(c)' = Unexecuted(c) \cup {k}
      BY <1>1, <1>a, <1>c, <2>3 DEF Unexecuted
    <3>2. SendsLeft(c)' + 1 = SendsLeft(c) /\ SendsLeft(c)' \in Nat
      BY <1>1, <1>2, <1>4, <2>3 DEF SendsLeft, can_retry_after_disconnect
    <3>3. ASSUME NEW d \in Calls
          PROVE  /\ IsFiniteSet(Unexecuted(d)')
                 /\ effects[d] + Cardinality(Unexecuted(d)') + SendsLeft(d)'
                      <= Contract!MaxEffects(d)
      <4>1. /\ IsFiniteSet(Unexecuted(d))
            /\ effects[d] + Cardinality(Unexecuted(d)) + SendsLeft(d) <= Contract!MaxEffects(d)
        BY DEF EffectsBounded
      <4>2. CASE d # c
        BY <2>1, <4>1, <4>2
      <4>3. CASE d = c
        <5>1. /\ IsFiniteSet(Unexecuted(c)')
              /\ Cardinality(Unexecuted(c)') = Cardinality(Unexecuted(c)) + 1
          <6>1. IsFiniteSet(Unexecuted(c)) /\ k \notin Unexecuted(c)
            BY <1>15, <4>1, <4>3
          <6>2. /\ IsFiniteSet(Unexecuted(c) \cup {k})
                /\ Cardinality(Unexecuted(c) \cup {k}) = Cardinality(Unexecuted(c)) + 1
            BY <6>1, FS_AddElement
          <6> QED BY <3>1, <6>2
        <5>2. Cardinality(Unexecuted(c)) \in Nat /\ effects[c] \in Nat
          BY <4>1, <4>3, FS_CardinalityType DEF TypeOK
        <5>3. Contract!MaxEffects(c) \in Nat
          BY DEF Contract!MaxEffects
        <5> HIDE DEF Contract!MaxEffects
        <5> QED BY <3>2, <4>1, <4>3, <5>1, <5>2, <5>3
      <4> QED BY <4>2, <4>3
    <3> QED BY <1>2, <3>3 DEF EffectsBounded, Contract!MaxEffects
  <2> QED BY <2>2, <2>3
<1> QED BY <1>2, <1>8, <1>9, <1>10, <1>11, <1>12, <1>13, <1>14, <1>16, <1>17

(* An accepted "auth" makes its connection the shared one. *)
LEMMA AuthAcceptedKeeps ==
  ASSUME InductiveInvariant, NEW c \in Calls, call_reply(c),
         mode[c] = "auth", reply[c].res = "ok"
  PROVE  InductiveInvariant'
<1> USE DEF InductiveInvariant
<1>1. /\ pc[c] = "wait" /\ reply[c] # None /\ on[c] \in Conns
  <2>1. pc[c] = "wait" /\ reply[c] # None
    BY DEF call_reply
  <2> QED BY <2>1 DEF LocalsSet, Attached, TypeOK
<1>2. /\ UNCHANGED <<setting, had, saving, events, dial, on, lost, id, result, effects, target,
                     connected, nextId, pending, outQ, writer, reader, link, s2c, serving,
                     authed, jobs>>
      /\ cached' = on[c]
      /\ pc' = [pc EXCEPT ![c] = "check"] /\ mode' = [mode EXCEPT ![c] = "rpc"]
      /\ reply' = [reply EXCEPT ![c] = None]
  BY DEF call_reply, CallSucceeds, Publish, Goto, locals, appVars, netVars, srvVars
<1>3. /\ pc' \in [Calls -> {"idle", "ensure", "resolve", "connect", "check",
                            "insert", "send", "wait", "done"}]
      /\ mode' \in [Calls -> {"auth", "rpc"}] /\ reply' \in [Calls -> Response \cup {None}]
      /\ pc'[c] = "check" /\ mode'[c] = "rpc" /\ reply'[c] = None
      /\ \A d \in Calls \ {c} : pc'[d] = pc[d] /\ mode'[d] = mode[d] /\ reply'[d] = reply[d]
  BY <1>2 DEF TypeOK
<1>a. /\ \A h \in Conns : Lines(h)' = Lines(h) /\ Answers(h)' = Answers(h)
      /\ \A h \in Conns : Running(h)' = Running(h)
      /\ \A h \in Conns, d \in Calls : Sent(h, d)' = Sent(h, d) /\ Queued(h, d)' = Queued(h, d)
      /\ \A d \in Calls : Unexecuted(d)' = Unexecuted(d)
  BY <1>2, SameWires DEF WiresSame
<1>4. TypeOK'
  BY <1>1, <1>2, <1>3, <1>a DEF TypeOK
<1>5. LocalsSet'
  BY <1>1, <1>2, <1>3 DEF LocalsSet, Attached, Active
<1>6. ConnectionsUsed'
  BY <1>1, <1>2, <1>a DEF ConnectionsUsed
<1>7. PendingIsAwaited'
  <2> SUFFICES ASSUME NEW h \in Conns, NEW p \in pending[h]
               PROVE  pc'[p[2]] \in {"send", "wait"} /\ on[p[2]] = h /\ id[p[2]] = p[1]
    BY <1>2 DEF PendingIsAwaited
  <2>1. pending[h] \subseteq Nat \X Calls
    BY DEF TypeOK
  <2>2. p[2] \in Calls /\ p = <<p[1], p[2]>>
    BY <2>1
  <2>3. pc[p[2]] \in {"send", "wait"} /\ on[p[2]] = h /\ id[p[2]] = p[1]
    BY DEF PendingIsAwaited
  <2>4. p[2] # c
    BY <1>1, <2>2, <2>3 DEF AnsweredOnce
  <2> QED BY <1>3, <2>2, <2>3, <2>4
<1>8. AnsweredOnce' /\ OwnAnswer'
  BY <1>2, <1>3 DEF AnsweredOnce, OwnAnswer
<1>9. IdsIdentify'
  BY <1>2, <1>3, <1>a DEF IdsIdentify, Numbered
<1>10. AuthIsPrivate'
  BY <1>2, <1>3 DEF AuthIsPrivate
<1>11. LostStaysLost'
  BY <1>2 DEF LostStaysLost, AuthIsPrivate
<1>12. SharedIsTrusted' /\ AnswersFit'
  <2>1. \A h : Trusted(h)' = Trusted(h)
    BY <1>2 DEF Trusted
  <2>2. Trusted(on[c])
    BY <1>1 DEF OwnAnswer, AnswersFit, AnswerFits
  <2>3. SharedIsTrusted'
    BY <1>2, <1>3, <1>a, <2>1, <2>2 DEF SharedIsTrusted
  <2>4. AnswersFit'
    BY <1>2, <1>3, <1>a, <2>1 DEF AnswersFit, AnswerFits
  <2> QED BY <2>3, <2>4
<1>13. SentOnce'
  BY <1>1, <1>2, <1>3, <1>a DEF SentOnce
<1>14. EffectsBounded'
  <2>1. \A d \in Calls : SendsLeft(d)' <= SendsLeft(d)
    BY <1>1, <1>2, <1>3 DEF SendsLeft, can_retry_after_disconnect
  <2> QED BY <1>2, <1>a, <2>1, BoundKept
<1> QED BY <1>2, <1>4, <1>5, <1>6, <1>7, <1>8, <1>9, <1>10, <1>11, <1>12, <1>13, <1>14

-----------------------------------------------------------------------------
(* Failures, and the end of a call *)

(* The entry of a call is the only one Forget takes. *)
LEMMA ForgetDetaches ==
  ASSUME InductiveInvariant, NEW c \in Calls, Attached(c), Forget(c)
  PROVE  /\ pending' \in [Conns -> SUBSET (Nat \X Calls)]
         /\ \A k \in Conns : pending'[k] \subseteq pending[k]
         /\ \A k \in Conns : \A p \in pending'[k] : p[2] # c
<1> USE DEF InductiveInvariant
<1>1. pending \in [Conns -> SUBSET (Nat \X Calls)] /\ on[c] \in Conns
  BY DEF TypeOK, LocalsSet
<1>2. /\ pending' \in [Conns -> SUBSET (Nat \X Calls)]
      /\ pending'[on[c]] = pending[on[c]] \ {<<id[c], c>>}
      /\ \A k \in Conns : pending'[k] \subseteq pending[k]
  BY <1>1 DEF Forget
<1>3. ASSUME NEW k \in Conns, NEW p \in pending'[k]
      PROVE  p[2] # c
  <2>1. p \in pending[k] /\ p = <<p[1], p[2]>>
    BY <1>1, <1>2
  <2>2. on[p[2]] = k /\ id[p[2]] = p[1]
    BY <2>1 DEF PendingIsAwaited
  <2> QED BY <1>2, <2>1, <2>2
<1> QED BY <1>2, <1>3

(* A call that is not in the pending map has nothing to forget. *)
LEMMA NothingToForget ==
  ASSUME InductiveInvariant, NEW c \in Calls, pending' = pending,
         pc[c] \notin {"send", "wait"} \/ reply[c] # None
  PROVE  /\ pending' \in [Conns -> SUBSET (Nat \X Calls)]
         /\ \A k \in Conns : pending'[k] \subseteq pending[k]
         /\ \A k \in Conns : \A p \in pending'[k] : p[2] # c
<1> USE DEF InductiveInvariant
<1>1. pending \in [Conns -> SUBSET (Nat \X Calls)]
  BY DEF TypeOK
<1>2. ASSUME NEW k \in Conns, NEW p \in pending[k]
      PROVE  p[2] # c
  <2>1. p = <<p[1], p[2]>>
    BY <1>1
  <2>2. pc[p[2]] \in {"send", "wait"} /\ on[p[2]] = k /\ id[p[2]] = p[1]
    BY DEF PendingIsAwaited
  <2> QED BY <2>1, <2>2 DEF AnsweredOnce
<1> QED BY <1>1, <1>2

(* Either way a failed call lets go of its connection. *)
LEMMA CallFailsKeeps ==
  ASSUME InductiveInvariant, NEW c \in Calls, NEW e, Attached(c), CallFails(c, e),
         /\ pending' \in [Conns -> SUBSET (Nat \X Calls)]
         /\ \A k \in Conns : pending'[k] \subseteq pending[k]
         /\ \A k \in Conns : \A p \in pending'[k] : p[2] # c,
         UNCHANGED <<setting, had, saving, events, effects, target, connected, nextId,
                     outQ, writer, reader, netVars, srvVars>>
  PROVE  InductiveInvariant'
<1>1. Detaches(c)
  BY DEF Detaches, CallFails, Attached, Active
<1>2. mode[c] \in {"auth", "rpc"}
  BY DEF InductiveInvariant, TypeOK
<1>3. Retries(c) \/ \E r \in {"ok", "err"} : Returns(c, r)
  BY <1>2 DEF CallFails, Retries
<1> QED BY <1>1, <1>3, DetachKeeps

LEMMA CallCheckKeeps ==
  ASSUME InductiveInvariant, NEW c \in Calls, call_check(c)
  PROVE  InductiveInvariant'
<1>1. CASE connected[on[c]]
  BY <1>1, CheckPassesKeeps
<1>2. CASE ~connected[on[c]]
  <2>1. /\ pc[c] = "check" /\ CallFails(c, "disc") /\ pending' = pending
        /\ UNCHANGED <<setting, had, saving, events, effects, target, connected, nextId,
                       outQ, writer, reader, netVars, srvVars>>
    BY <1>2 DEF call_check
  <2>2. /\ pending' \in [Conns -> SUBSET (Nat \X Calls)]
        /\ \A k \in Conns : pending'[k] \subseteq pending[k]
        /\ \A k \in Conns : \A p \in pending'[k] : p[2] # c
    BY <2>1, NothingToForget
  <2>3. Attached(c)
    BY <2>1 DEF Attached
  <2> QED BY <2>1, <2>2, <2>3, CallFailsKeeps
<1> QED BY <1>1, <1>2

LEMMA CallSendKeeps ==
  ASSUME InductiveInvariant, NEW c \in Calls, call_send(c)
  PROVE  InductiveInvariant'
<1>1. CASE writer[on[c]] # "off"
  <2>1. on[c] \in Conns
    BY DEF call_send, InductiveInvariant, LocalsSet, Attached, TypeOK
  <2> QED BY <1>1, <2>1, SendPassesKeeps
<1>2. CASE writer[on[c]] = "off"
  <2>1. /\ pc[c] = "send" /\ CallFails(c, "disc") /\ Forget(c)
        /\ UNCHANGED <<setting, had, saving, events, effects, target, connected, nextId,
                       outQ, writer, reader, netVars, srvVars>>
    BY <1>2 DEF call_send
  <2>2. Attached(c)
    BY <2>1 DEF Attached
  <2> QED BY <2>1, <2>2, ForgetDetaches, CallFailsKeeps
<1> QED BY <1>1, <1>2

LEMMA TimeoutsKeep ==
  ASSUME InductiveInvariant, NEW c \in Calls, call_send_timeout(c) \/ call_timeout(c)
  PROVE  InductiveInvariant'
<1>1. /\ pc[c] \in {"send", "wait"} /\ CallFails(c, "timeout") /\ Forget(c)
      /\ UNCHANGED <<setting, had, saving, events, effects, target, connected, nextId,
                     outQ, writer, reader, netVars, srvVars>>
  BY DEF call_send_timeout, call_timeout
<1>2. Attached(c)
  BY <1>1 DEF Attached
<1> QED BY <1>1, <1>2, ForgetDetaches, CallFailsKeeps

LEMMA ConnectFailsKeeps ==
  ASSUME InductiveInvariant, NEW c \in Calls, connect_fails(c)
  PROVE  InductiveInvariant'
<1>1. /\ pc[c] = "connect" /\ Returns(c, "err") /\ cached' = cached /\ reply' = reply
      /\ pending' = pending
      /\ UNCHANGED <<setting, had, saving, events, effects, target, connected, nextId,
                     outQ, writer, reader, netVars, srvVars>>
  BY DEF connect_fails, setVars, appVars
<1>2. reply' = [reply EXCEPT ![c] = None]
  <2>1. reply[c] = None /\ reply \in [Calls -> Response \cup {None}]
    BY <1>1 DEF InductiveInvariant, LocalsSet, TypeOK
  <2> QED BY <1>1, <2>1
<1>3. /\ pending' \in [Conns -> SUBSET (Nat \X Calls)]
      /\ \A k \in Conns : pending'[k] \subseteq pending[k]
      /\ \A k \in Conns : \A p \in pending'[k] : p[2] # c
  BY <1>1, NothingToForget
<1>4. Detaches(c)
  BY <1>1, <1>2, <1>3 DEF Detaches, Active
<1> QED BY <1>1, <1>4, DetachKeeps

LEMMA CallReplyKeeps ==
  ASSUME InductiveInvariant, NEW c \in Calls, call_reply(c)
  PROVE  InductiveInvariant'
<1>1. /\ pc[c] = "wait" /\ reply[c] # None /\ pending' = pending
      /\ UNCHANGED <<setting, had, saving, events, effects, target, connected, nextId,
                     outQ, writer, reader, netVars, srvVars>>
      /\ IF reply[c].res = "ok" THEN CallSucceeds(c) ELSE CallFails(c, reply[c].res)
  BY DEF call_reply, appVars
<1>2. /\ pending' \in [Conns -> SUBSET (Nat \X Calls)]
      /\ \A k \in Conns : pending'[k] \subseteq pending[k]
      /\ \A k \in Conns : \A p \in pending'[k] : p[2] # c
  BY <1>1, NothingToForget
<1>3. CASE reply[c].res # "ok"
  BY <1>1, <1>2, <1>3, CallFailsKeeps DEF Attached
<1>4. CASE reply[c].res = "ok" /\ mode[c] = "auth"
  BY <1>4, AuthAcceptedKeeps
<1>5. CASE reply[c].res = "ok" /\ mode[c] # "auth"
  <2>1. Returns(c, "ok") /\ cached' = cached /\ reply' = [reply EXCEPT ![c] = None]
    BY <1>1, <1>5 DEF CallSucceeds
  <2>2. Detaches(c)
    BY <1>1, <1>2, <2>1 DEF Detaches, Active
  <2> QED BY <2>1, <2>2, DetachKeeps
<1> QED BY <1>3, <1>4, <1>5

-----------------------------------------------------------------------------
(* The settings, and steps that change nothing *)

LEMMA SettingsKeep ==
  ASSUME InductiveInvariant, cached' \in {cached, None},
         setting' \in Remotes, had' \subseteq Remotes, saving' \in Nat,
         events' \in 0 .. MaxEvents,
         UNCHANGED <<callVars, effects, appVars, netVars, srvVars>>
  PROVE  InductiveInvariant'
<1> USE DEF InductiveInvariant, callVars, locals, appVars, netVars, srvVars
<1>a. /\ \A h \in Conns : Lines(h)' = Lines(h) /\ Answers(h)' = Answers(h)
      /\ \A h \in Conns : Running(h)' = Running(h)
      /\ \A h \in Conns, d \in Calls : Sent(h, d)' = Sent(h, d) /\ Queued(h, d)' = Queued(h, d)
      /\ \A d \in Calls : Unexecuted(d)' = Unexecuted(d)
  BY SameWires DEF WiresSame
<1>1. TypeOK'
  BY <1>a DEF TypeOK
<1>2. LocalsSet'
  BY DEF LocalsSet, Attached, Active
<1>3. ConnectionsUsed'
  BY <1>a, NoneAssumption DEF ConnectionsUsed
<1>4. PendingIsAwaited' /\ AnsweredOnce' /\ OwnAnswer'
  BY DEF PendingIsAwaited, AnsweredOnce, OwnAnswer
<1>5. IdsIdentify'
  BY <1>a DEF IdsIdentify, Numbered
<1>6. AuthIsPrivate' /\ LostStaysLost'
  BY DEF AuthIsPrivate, LostStaysLost, LocalsSet
<1>7. SharedIsTrusted' /\ AnswersFit'
  <2>1. \A h : Trusted(h)' = Trusted(h)
    BY DEF Trusted
  <2> QED BY <1>a, <2>1 DEF SharedIsTrusted, AnswersFit, AnswerFits
<1>8. SentOnce'
  BY <1>a DEF SentOnce
<1>9. EffectsBounded'
  <2>1. \A d \in Calls : SendsLeft(d)' <= SendsLeft(d)
    BY DEF SendsLeft, can_retry_after_disconnect
  <2> QED BY <1>a, <2>1, BoundKept
<1> QED BY <1>1, <1>2, <1>3, <1>4, <1>5, <1>6, <1>7, <1>8, <1>9

LEMMA SettingsActionsKeep ==
  ASSUME InductiveInvariant,
         \/ \E r \in Remotes : update_app_settings(r)
         \/ reset_remote_backend
         \/ UNCHANGED vars
  PROVE  InductiveInvariant'
<1>1. ASSUME NEW r \in Remotes, update_app_settings(r) PROVE InductiveInvariant'
  <2>1. events' \in 0 .. MaxEvents /\ saving' \in Nat /\ had' \subseteq Remotes
    BY <1>1, ConstantsAssumption DEF update_app_settings, InductiveInvariant, TypeOK
  <2> QED BY <1>1, <2>1, SettingsKeep DEF update_app_settings
<1>2. CASE reset_remote_backend
  <2>1. /\ setting \in Remotes /\ had \subseteq Remotes /\ saving \in Nat
        /\ events \in 0 .. MaxEvents
    BY DEF InductiveInvariant, TypeOK
  <2>2. /\ cached' = None /\ saving' \in Nat
        /\ UNCHANGED <<setting, had, events, callVars, effects, appVars, netVars, srvVars>>
    BY <1>2, <2>1 DEF reset_remote_backend
  <2> QED BY <2>1, <2>2, SettingsKeep
<1>3. CASE UNCHANGED vars
  BY <1>3, SettingsKeep DEF vars, setVars, InductiveInvariant, TypeOK
<1> QED BY <1>1, <1>2, <1>3

-----------------------------------------------------------------------------
(* The invariant *)

(* Nothing was called, connected or sent yet. *)
LEMMA InitInvariant == Init => InductiveInvariant
<1> SUFFICES ASSUME Init PROVE InductiveInvariant
  OBVIOUS
<1> USE DEF Init
<1>1. /\ <<>> \in Seq(Request) /\ <<>> \in Seq(Response \cup {EOF}) /\ Len(<<>>) = 0
  BY EmptySeq
<1>2. /\ \A k \in Conns : Lines(k) = {} /\ Answers(k) = {} /\ Running(k) = {}
      /\ \A k \in Conns, c \in Calls : Sent(k, c) = {} /\ Queued(k, c) = {}
  BY EmptyRange DEF Lines, Answers, Running, Sent, Queued
<1>3. \A c \in Calls : Unexecuted(c) = {}
  BY <1>2 DEF Unexecuted
<1>4. IsFiniteSet({}) /\ Cardinality({}) = 0
  BY FS_EmptySet
<1>5. TypeOK
  <2>1. outQ \in [Conns -> Seq(Request)] /\ s2c \in [Conns -> Seq(Response \cup {EOF})]
    BY <1>1
  <2>2. \A k \in Conns : /\ Len(outQ[k]) <= QueueCapacity
                         /\ Cardinality(Running(k)) <= MaxInFlight
    <3>1. 0 <= QueueCapacity /\ 0 <= MaxInFlight
      BY ConstantsAssumption
    <3> QED BY <1>1, <1>2, <1>4, <3>1
  <2>3. 0 \in 0 .. MaxEvents /\ 1 \in Nat \ {0} /\ 0 \in Nat
    BY ConstantsAssumption
  <2> QED BY <2>1, <2>2, <2>3 DEF TypeOK
<1>6. LocalsSet /\ PendingIsAwaited /\ AnsweredOnce /\ OwnAnswer
  BY DEF LocalsSet, Attached, PendingIsAwaited, AnsweredOnce, OwnAnswer
<1>7. ConnectionsUsed /\ \A k \in Conns : IsFiniteSet(jobs[k])
  BY <1>2, <1>4, NoneAssumption DEF ConnectionsUsed
<1>8. IdsIdentify
  BY <1>2 DEF IdsIdentify, Numbered
<1>9. AuthIsPrivate /\ LostStaysLost
  BY DEF AuthIsPrivate, LostStaysLost
<1>10. SharedIsTrusted /\ AnswersFit
  BY <1>2 DEF SharedIsTrusted, AnswersFit
<1>11. SentOnce
  BY <1>2, <1>3 DEF SentOnce
<1>12. EffectsBounded
  <2> SUFFICES ASSUME NEW c \in Calls
               PROVE  effects[c] + 0 + SendsLeft(c) <= Contract!MaxEffects(c)
    BY <1>3, <1>4 DEF EffectsBounded
  <2>1. SendsLeft(c) = IF c \in Retryable THEN 2 ELSE 1
    BY DEF SendsLeft, can_retry_after_disconnect
  <2>2. effects[c] = 0
    OBVIOUS
  <2> QED BY <2>1, <2>2 DEF Contract!MaxEffects
<1> QED BY <1>5, <1>6, <1>7, <1>8, <1>9, <1>10, <1>11, <1>12 DEF InductiveInvariant

(* One case per action. *)
LEMMA NextKeeps ==
  ASSUME InductiveInvariant, [Next]_vars
  PROVE  InductiveInvariant'
<1>1. ASSUME NEW c \in Calls, CallStep(c) PROVE InductiveInvariant'
  BY <1>1, EnsureKeeps, ResolveKeeps, ConnectKeeps, ConnectFailsKeeps, CallCheckKeeps,
     InsertKeeps, CallSendKeeps, TimeoutsKeep, CallReplyKeeps DEF CallStep
<1>2. ASSUME NEW k \in Conns, WriterStep(k) PROVE InductiveInvariant'
  BY <1>2, WriterLosesKeeps, WriterEndsKeeps, DrainsKeep DEF WriterStep
<1>3. ASSUME NEW k \in Conns, ReaderStep(k) PROVE InductiveInvariant'
  BY <1>3, DispatchKeeps, ReaderEndsKeeps, DrainsKeep DEF ReaderStep
<1>4. ASSUME NEW k \in Conns, ServerStep(k) PROVE InductiveInvariant'
  BY <1>4, HandleClientEofKeeps, HandleClientLineKeeps DEF ServerStep
<1>5. ASSUME NEW k \in Conns, NEW j \in jobs[k], JobStep(k, j) PROVE InductiveInvariant'
  BY <1>5, RpcStartKeeps, RpcFinishKeeps DEF JobStep
<1>6. ASSUME NEW k \in Conns, NEW how \in {"cut", "dark"}, Break(k, how)
      PROVE  InductiveInvariant'
  BY <1>6, BreakKeeps
<1>7. CASE DaemonRestart
  BY <1>7, DaemonRestartKeeps
<1>8. CASE \/ \E r \in Remotes : update_app_settings(r)
           \/ reset_remote_backend
           \/ UNCHANGED vars
  BY <1>8, SettingsActionsKeep
<1>9. Quiet => UNCHANGED vars
  BY DEF Quiet
<1> QED BY <1>1, <1>2, <1>3, <1>4, <1>5, <1>6, <1>7, <1>8, <1>9 DEF Next

(* InductiveInvariant holds in every state of call_remote, its connections  *)
(* and the daemon: ids, pending entries, tokens and the count of requests   *)
(* under way always fit together.                                           *)
THEOREM RemoteBackendInvariant == Spec => []InductiveInvariant
<1>1. InductiveInvariant /\ [Next]_vars => InductiveInvariant'
  BY NextKeeps
<1> QED BY <1>1, InitInvariant, PTL DEF Spec

(* Every variable keeps its type; no channel exceeds OUTBOUND_QUEUE_CAPACITY *)
(* and no connection runs more than MAX_IN_FLIGHT_RPC_PER_CONNECTION tasks.  *)
THEOREM TypesCorrect == Spec => []TypeOK
<1>1. InductiveInvariant => TypeOK
  BY DEF InductiveInvariant
<1> QED BY <1>1, RemoteBackendInvariant, PTL

(* dispatch_incoming_line and mark_disconnected hand a call nothing but the *)
(* answer to the request it is waiting for.                                *)
THEOREM AnswersReachTheirCall == Spec => []OwnAnswer
<1>1. InductiveInvariant => OwnAnswer
  BY DEF InductiveInvariant
<1> QED BY <1>1, RemoteBackendInvariant, PTL

(* Timeouts and failed sends leave no entry in the PendingMap. *)
THEOREM PendingEntriesAreAwaited == Spec => []PendingIsAwaited
<1>1. InductiveInvariant => PendingIsAwaited
  BY DEF InductiveInvariant
<1> QED BY <1>1, RemoteBackendInvariant, PTL

(* With a token configured, no call is sent before handle_client accepted   *)
(* the token: ensure_remote_backend shares a connection only then.          *)
THEOREM TokenHoldersAreAuthorized == Spec => []NeverUnauthorized
<1>1. InductiveInvariant => NeverUnauthorized
  BY DEF InductiveInvariant, NeverUnauthorized, AnswersFit, AnswerFits
<1> QED BY <1>1, RemoteBackendInvariant, PTL

(* The second attempt of call_remote is made on another connection than the *)
(* one its first attempt lost.                                              *)
THEOREM RetriesMoveOn == Spec => []RetryLeavesLostConnection
<1>1. InductiveInvariant => RetryLeavesLostConnection
  BY DEF InductiveInvariant, RetryLeavesLostConnection, LostStaysLost
<1> QED BY <1>1, RemoteBackendInvariant, PTL

-----------------------------------------------------------------------------
(* Refinement of RequestReply *)

(* The caller learns nothing from a step that neither starts nor ends a call. *)
LEMMA Stutters ==
  ASSUME effects' = effects, \A c \in Calls : Status(c)' = Status(c)
  PROVE  UNCHANGED Contract!vars
  BY DEF Contract!vars

LEMMA SamePlace ==
  ASSUME effects' = effects, result' = result,
         \A c \in Calls : pc'[c] = "idle" <=> pc[c] = "idle",
         \A c \in Calls : pc'[c] = "done" <=> pc[c] = "done"
  PROVE  UNCHANGED Contract!vars
<1>1. \A c \in Calls : Status(c)' = Status(c)
  BY DEF Status
<1> QED BY <1>1, Stutters

(* Only call c moves. *)
LEMMA OneMoves ==
  ASSUME NEW c \in Calls, NEW r, Status(c)' = r,
         \A d \in Calls \ {c} : Status(d)' = Status(d)
  PROVE  [d \in Calls |-> Status(d)'] = [[d \in Calls |-> Status(d)] EXCEPT ![c] = r]
  OBVIOUS

LEMMA EnsureRefines ==
  ASSUME InductiveInvariant, NEW c \in Calls, ensure_remote_backend(c)
  PROVE  [Contract!Next]_(Contract!vars)
<1>1. /\ effects' = effects /\ result' = result /\ pc[c] \in {"idle", "ensure"}
      /\ pc'[c] \in {"check", "resolve"} /\ \A d \in Calls \ {c} : pc'[d] = pc[d]
  BY DEF ensure_remote_backend, Goto, InductiveInvariant, TypeOK
<1>2. CASE pc[c] = "ensure"
  BY <1>1, <1>2, SamePlace
<1>3. CASE pc[c] = "idle"
  <2>1. Status(c) = "unsent" /\ Status(c)' = "open"
    BY <1>1, <1>3 DEF Status
  <2>2. \A d \in Calls \ {c} : Status(d)' = Status(d)
    BY <1>1 DEF Status
  <2>3. [d \in Calls |-> Status(d)'] = [[d \in Calls |-> Status(d)] EXCEPT ![c] = "open"]
    BY <2>1, <2>2, OneMoves
  <2>4. Contract!Issue(c)
    BY <1>1, <2>1, <2>3 DEF Contract!Issue
  <2> QED BY <2>4 DEF Contract!Next
<1> QED BY <1>1, <1>2, <1>3

(* A call that returns is reported as it ended, and as a success only if    *)
(* the daemon executed it.                                                 *)
LEMMA ReturnsRefine ==
  ASSUME InductiveInvariant, NEW c \in Calls, NEW r \in {"ok", "err"}, Active(c),
         Returns(c, r), effects' = effects, r = "ok" => effects[c] > 0
  PROVE  Contract!Next
<1>1. /\ pc'[c] = "done" /\ result'[c] = r /\ pc[c] \notin {"idle", "done"}
      /\ \A d \in Calls \ {c} : pc'[d] = pc[d] /\ result'[d] = result[d]
  BY DEF Returns, Goto, Active, InductiveInvariant, TypeOK
<1>2. Status(c) = "open" /\ Status(c)' = r
  BY <1>1 DEF Status
<1>3. \A d \in Calls \ {c} : Status(d)' = Status(d)
  BY <1>1 DEF Status
<1>4. [d \in Calls |-> Status(d)'] = [[d \in Calls |-> Status(d)] EXCEPT ![c] = r]
  BY <1>2, <1>3, OneMoves
<1>5. CASE r = "ok"
  <2>1. Contract!Succeed(c)
    BY <1>2, <1>4, <1>5 DEF Contract!Succeed
  <2> QED BY <2>1 DEF Contract!Next, Contract!Return
<1>6. CASE r = "err"
  <2>1. Contract!Fail(c)
    BY <1>2, <1>4, <1>6 DEF Contract!Fail
  <2> QED BY <2>1 DEF Contract!Next, Contract!Return
<1> QED BY <1>5, <1>6

LEMMA CallFailsRefines ==
  ASSUME InductiveInvariant, NEW c \in Calls, NEW e, Attached(c), CallFails(c, e),
         effects' = effects
  PROVE  [Contract!Next]_(Contract!vars)
<1>1. Active(c) /\ pc[c] \notin {"idle", "done"}
  BY DEF Active, Attached
<1>2. Returns(c, "err") \/ (Goto(c, "ensure") /\ result' = result)
  BY DEF CallFails
<1>3. CASE Returns(c, "err")
  BY <1>1, <1>3, ReturnsRefine
<1>4. CASE Goto(c, "ensure") /\ result' = result
  <2>1. pc'[c] = "ensure" /\ \A d \in Calls \ {c} : pc'[d] = pc[d]
    BY <1>4 DEF Goto, InductiveInvariant, TypeOK
  <2> QED BY <1>1, <1>4, <2>1, SamePlace
<1> QED BY <1>2, <1>3, <1>4

LEMMA CallStepRefines ==
  ASSUME InductiveInvariant, NEW c \in Calls, CallStep(c)
  PROVE  [Contract!Next]_(Contract!vars)
<1> USE DEF InductiveInvariant
<1>0. pc \in [Calls -> {"idle", "ensure", "resolve", "connect", "check",
                        "insert", "send", "wait", "done"}]
  BY DEF TypeOK
<1>1. CASE ensure_remote_backend(c)
  BY <1>1, EnsureRefines
<1>2. CASE resolve_transport_config(c) \/ call_insert(c)
  BY <1>0, <1>2, SamePlace DEF resolve_transport_config, call_insert, Goto
<1>3. ASSUME NEW k \in Conns, connect(c, k) PROVE [Contract!Next]_(Contract!vars)
  BY <1>0, <1>3, SamePlace DEF connect, Goto
<1>4. CASE connect_fails(c)
  BY <1>4, ReturnsRefine DEF connect_fails, Active
<1>5. CASE call_check(c)
  <2>1. CASE connected[on[c]]
    BY <1>0, <1>5, <2>1, SamePlace DEF call_check, Goto
  <2>2. CASE ~connected[on[c]]
    BY <1>5, <2>2, CallFailsRefines DEF call_check, Attached
  <2> QED BY <2>1, <2>2
<1>6. CASE call_send(c)
  <2>1. CASE writer[on[c]] # "off"
    BY <1>0, <1>6, <2>1, SamePlace DEF call_send, Goto
  <2>2. CASE writer[on[c]] = "off"
    BY <1>6, <2>2, CallFailsRefines DEF call_send, Attached
  <2> QED BY <2>1, <2>2
<1>7. CASE call_send_timeout(c) \/ call_timeout(c)
  BY <1>7, CallFailsRefines DEF call_send_timeout, call_timeout, Attached
<1>8. CASE call_reply(c)
  <2>1. pc[c] = "wait" /\ reply[c] # None /\ effects' = effects
    BY <1>8 DEF call_reply
  <2>2. CASE reply[c].res # "ok"
    BY <1>8, <2>1, <2>2, CallFailsRefines DEF call_reply, Attached
  <2>3. CASE reply[c].res = "ok" /\ mode[c] = "auth"
    <3>1. Goto(c, "check") /\ result' = result
      BY <1>8, <2>3 DEF call_reply, CallSucceeds
    <3> QED BY <1>0, <2>1, <3>1, SamePlace DEF Goto
  <2>4. CASE reply[c].res = "ok" /\ mode[c] # "auth"
    <3>1. Returns(c, "ok")
      BY <1>8, <2>4 DEF call_reply, CallSucceeds
    <3>2. effects[c] > 0
      <4>1. reply[c].call = c /\ reply[c].mode = "rpc"
        BY <2>1, <2>4 DEF OwnAnswer, TypeOK
      <4> QED BY <2>1, <2>4, <4>1 DEF AnswersFit, AnswerFits
    <3> QED BY <2>1, <3>1, <3>2, ReturnsRefine DEF Active
  <2> QED BY <2>2, <2>3, <2>4
<1> QED BY <1>1, <1>2, <1>3, <1>4, <1>5, <1>6, <1>7, <1>8 DEF CallStep

(* A request executes within the bound: it was counted while under way. *)
LEMMA RpcStartRefines ==
  ASSUME InductiveInvariant, NEW k \in Conns, NEW j \in jobs[k], rpc_start(k, j)
  PROVE  [Contract!Next]_(Contract!vars)
<1> USE DEF InductiveInvariant
<1>1. /\ pc' = pc /\ result' = result /\ j.step = "queued"
      /\ effects' = IF j.mode = "rpc" THEN [effects EXCEPT ![j.call] = @ + 1] ELSE effects
  BY DEF rpc_start, callVars
<1>2. \A c \in Calls : Status(c)' = Status(c)
  BY <1>1 DEF Status
<1>3. CASE j.mode # "rpc"
  BY <1>1, <1>2, <1>3, Stutters
<1>4. CASE j.mode = "rpc"
  <2>1. PICK c \in Calls : c = j.call
    BY WireTypes DEF Job
  <2>2. k \in Unexecuted(c)
    BY <1>1, <1>4, <2>1 DEF Unexecuted, Queued, RpcOf
  <2>3. pc[c] # "idle"
    BY <2>2, NoneAssumption DEF SentOnce, LocalsSet, Active
  <2>4. effects[c] < Contract!MaxEffects(c)
    <3>1. /\ IsFiniteSet(Unexecuted(c)) /\ Cardinality(Unexecuted(c)) # 0
          /\ effects[c] + Cardinality(Unexecuted(c)) + SendsLeft(c) <= Contract!MaxEffects(c)
      BY <2>2, FS_EmptySet DEF EffectsBounded
    <3>2. Cardinality(Unexecuted(c)) \in Nat /\ SendsLeft(c) \in Nat /\ effects[c] \in Nat
      BY <3>1, FS_CardinalityType, SendsLeftType DEF TypeOK
    <3>3. Contract!MaxEffects(c) \in Nat
      BY DEF Contract!MaxEffects
    <3> HIDE DEF Contract!MaxEffects
    <3> QED BY <3>1, <3>2, <3>3
  <2>5. Status(c) # "unsent"
    BY <2>3 DEF Status, TypeOK
  <2>6. Contract!Execute(c)
    BY <1>1, <1>2, <1>4, <2>1, <2>4, <2>5 DEF Contract!Execute
  <2> QED BY <2>6 DEF Contract!Next
<1> QED BY <1>3, <1>4

LEMMA StepRefines ==
  ASSUME InductiveInvariant, [Next]_vars
  PROVE  [Contract!Next]_(Contract!vars)
<1> USE DEF callVars, locals
<1>1. ASSUME NEW c \in Calls, CallStep(c) PROVE [Contract!Next]_(Contract!vars)
  BY <1>1, CallStepRefines
<1>2. ASSUME NEW k \in Conns, WriterStep(k) \/ ReaderStep(k) \/ ServerStep(k)
      PROVE  [Contract!Next]_(Contract!vars)
  <2>1. UNCHANGED <<effects, result, pc>>
    BY <1>2 DEF WriterStep, writer_loses, writer_fails, writer_ends, writer_drains,
         ReaderStep, dispatch_incoming_line, reader_ends, reader_drains,
         ServerStep, handle_client_eof, handle_client_line
  <2> QED BY <2>1, SamePlace
<1>3. ASSUME NEW k \in Conns, NEW j \in jobs[k], JobStep(k, j)
      PROVE  [Contract!Next]_(Contract!vars)
  <2>1. CASE rpc_start(k, j)
    BY <2>1, RpcStartRefines
  <2>2. CASE rpc_finish(k, j)
    BY <2>2, SamePlace DEF rpc_finish
  <2> QED BY <1>3, <2>1, <2>2 DEF JobStep
<1>4. ASSUME NEW k \in Conns, NEW how \in {"cut", "dark"}, Break(k, how)
      PROVE  [Contract!Next]_(Contract!vars)
  BY <1>4, SamePlace DEF Break
<1>5. CASE DaemonRestart
  BY <1>5, SamePlace DEF DaemonRestart
<1>6. ASSUME NEW r \in Remotes, update_app_settings(r) PROVE [Contract!Next]_(Contract!vars)
  BY <1>6, SamePlace DEF update_app_settings
<1>7. CASE reset_remote_backend
  BY <1>7, SamePlace DEF reset_remote_backend
<1>8. CASE Quiet \/ UNCHANGED vars
  BY <1>8, SamePlace DEF Quiet, vars
<1> QED BY <1>1, <1>2, <1>3, <1>4, <1>5, <1>6, <1>7, <1>8 DEF Next

(* call_remote, its connections and the daemon implement RequestReply: no   *)
(* request is executed twice unless can_retry_after_disconnect accepts its  *)
(* method, then never three times, and success means it was executed.       *)
THEOREM RemoteImplementsRequestReply == Spec => ImplementsRequestReply
<1>1. Init => Contract!Init
  BY DEF Init, Contract!Init, Status
<1>2. InductiveInvariant /\ [Next]_vars => [Contract!Next]_(Contract!vars)
  BY StepRefines
<1> QED BY <1>1, <1>2, RemoteBackendInvariant, PTL
        DEF Spec, ImplementsRequestReply, Contract!Safety
=============================================================================
