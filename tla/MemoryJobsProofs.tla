-------------------------- MODULE MemoryJobsProofs --------------------------
(***************************************************************************)
(* Proofs about MemoryJobs, for any number of threads, sessions and claims *)
(* and any leases, delays and clock lags: InductiveInvariant is an         *)
(* invariant, hence rows keep their types, stored memories agree with      *)
(* their job rows, and what a consolidation used is tracked and queued     *)
(* again when replaced; and the cap on running jobs holds.                 *)
(***************************************************************************)
EXTENDS MemoryJobs, TLAPS, FiniteSetTheorems

-----------------------------------------------------------------------------
(* The helpers of the actions *)

(* A session that is over remembers nothing; the others are not affected. *)
LEMMA OverKeeps ==
  ASSUME TypeOK, ClaimsRemembered, NEW k \in Tokens, over(k)
  PROVE  /\ step' \in [Tokens -> {"fresh", "scanned", "extracting", "holding",
                                  "consolidating", "confirmed", "over"}]
         /\ wThread' \in [Tokens -> OrNull(Threads)]
         /\ wSource' \in [Tokens -> OrNull(0 .. MaxTime)]
         /\ wInputs' \in [Tokens -> [Threads -> OrNull(0 .. MaxTime)]]
         /\ wMark' \in [Tokens -> OrNull(Marks)]
         /\ ClaimsRemembered'
         /\ step'[k] = "over"
         /\ \A j \in Tokens \ {k} :
              /\ step'[j] = step[j] /\ wThread'[j] = wThread[j]
              /\ wSource'[j] = wSource[j] /\ wInputs'[j] = wInputs[j]
              /\ wMark'[j] = wMark[j]
<1>1. /\ step' \in [Tokens -> {"fresh", "scanned", "extracting", "holding",
                               "consolidating", "confirmed", "over"}]
      /\ wThread' \in [Tokens -> OrNull(Threads)]
      /\ wSource' \in [Tokens -> OrNull(0 .. MaxTime)]
      /\ wMark' \in [Tokens -> OrNull(Marks)]
  BY DEF TypeOK, over, OrNull
<1>2. wInputs' \in [Tokens -> [Threads -> OrNull(0 .. MaxTime)]]
  <2>1. [t \in Threads |-> Null] \in [Threads -> OrNull(0 .. MaxTime)]
    BY DEF OrNull
  <2> QED BY <2>1 DEF TypeOK, over
<1>3. /\ step'[k] = "over"
      /\ \A j \in Tokens \ {k} :
           /\ step'[j] = step[j] /\ wThread'[j] = wThread[j]
           /\ wSource'[j] = wSource[j] /\ wInputs'[j] = wInputs[j]
           /\ wMark'[j] = wMark[j]
  BY DEF TypeOK, over
<1>4. ClaimsRemembered'
  BY <1>3 DEF ClaimsRemembered
<1> QED BY <1>1, <1>2, <1>3, <1>4

(* Queueing a consolidation moves the input watermark on, to w at least; it *)
(* leaves the owner and the last success alone.                             *)
LEMMA EnqueueKeeps ==
  ASSUME TypeOK, WatermarksCover, NEW w \in 0 .. MaxTime,
         enqueue_global_consolidation(w)
  PROVE  /\ gStatus' \in {"pending", "running"}
         /\ gStatus' = "running" <=> gStatus = "running"
         /\ gToken' = gToken /\ gLease' = gLease /\ gSuccess' = gSuccess
         /\ gRetryAt' \in OrNull(Times) /\ gRetries' \in 0 .. DefaultRetry
         /\ gInput' \in Marks /\ gInput' >= w /\ gInput' >= gInput
         /\ gStatus # "absent" => gInput' > gInput
  BY MemoryAssumption DEF TypeOK, WatermarksCover, Marks, OrNull, Null,
         enqueue_global_consolidation

(* A job that ends well: its row reports the input it had. *)
LEMMA FinishKeeps ==
  ASSUME InductiveInvariant, NEW t \in Threads, jStatus[t] = "running", finish_row(t)
  PROVE  /\ jStatus' \in [Threads -> {"absent", "running", "done", "error"}]
         /\ jLease' \in [Threads -> OrNull(Times)]
         /\ jSuccess' \in [Threads -> OrNull(0 .. MaxTime)]
         /\ UNCHANGED <<jToken, jRetryAt, jRetries, jInput>>
         /\ jStatus'[t] = "done" /\ jSuccess'[t] = jInput[t] /\ jSuccess[t] < jInput[t]
         /\ jInput[t] \in 0 .. MaxTime
         /\ \A u \in Threads \ {t} : jStatus'[u] = jStatus[u] /\ jSuccess'[u] = jSuccess[u]
  BY DEF InductiveInvariant, TypeOK, RowsConsistent, finish_row, OrNull, Null

-----------------------------------------------------------------------------
(* The cap on running jobs *)

(* Leases only run out with time, so an old clock counts no fewer of them. *)
LEMMA LeasedShrinks ==
  ASSUME TypeOK, NEW c \in Int, NEW d \in Int, c <= d
  PROVE  Leased(d) \subseteq Leased(c)
  BY MemoryAssumption DEF TypeOK, Leased, OrNull, Null, Times

(* Threads are finitely many, so the leased ones can be counted. *)
LEMMA LeasedCounts ==
  ASSUME NEW S \in SUBSET Threads, NEW T \in SUBSET S
  PROVE  /\ IsFiniteSet(S) /\ IsFiniteSet(T)
         /\ Cardinality(S) \in Nat /\ Cardinality(T) \in Nat
         /\ Cardinality(T) <= Cardinality(S)
<1>1. IsFiniteSet(S)
  BY FS_Subset, MemoryAssumption
<1> QED BY <1>1, FS_Subset, FS_CardinalityType

(* One more fits into a set below the cap. *)
LEMMA RoomForOne ==
  ASSUME NEW S, IsFiniteSet(S), Cardinality(S) < MaxRunning, NEW x
  PROVE  Cardinality(S \cup {x}) <= MaxRunning
<1>1. Cardinality(S \cup {x}) = IF x \in S THEN Cardinality(S) ELSE Cardinality(S) + 1
  BY FS_AddElement
<1>2. Cardinality(S) \in Nat
  BY FS_CardinalityType
<1> QED BY <1>1, <1>2, MemoryAssumption

(* A claim adds one lease where the count left room for it. *)
LEMMA ClaimWithinCap ==
  ASSUME TypeOK, ClaimsRemembered, NEW k \in Tokens, try_claim_stage1_job(k), ClaimsWithinCap
  PROVE  ClaimsWithinCap'
<1>1. PICK c \in ReadClock :
        \/ MayClaim(k, wThread[k], c) /\ claimed(k, wThread[k], c)
        \/ UNCHANGED jobs
  BY DEF try_claim_stage1_job
<1>2. now \in Int /\ c \in Int /\ c <= now /\ now' = now
  BY <1>1 DEF TypeOK, ReadClock, try_claim_stage1_job
<1>3. CASE UNCHANGED jobs
  BY <1>2, <1>3 DEF ClaimsWithinCap, Leased, jobs
<1>4. CASE MayClaim(k, wThread[k], c) /\ claimed(k, wThread[k], c)
  <2> DEFINE t == wThread[k]
  <2>1. t \in Threads
    BY DEF try_claim_stage1_job, ClaimsRemembered
  <2>2. Leased(now)' \subseteq Leased(c) \cup {t}
    <3>1. Leased(now)' \subseteq Leased(now) \cup {t}
      BY <1>2, <1>4, <2>1 DEF TypeOK, Leased, claimed
    <3> QED BY <1>2, <3>1, LeasedShrinks
  <2>3. /\ Cardinality(Leased(c)) < MaxRunning
        /\ Leased(c) \subseteq Threads /\ Leased(c) \cup {t} \subseteq Threads
    BY <1>4, <2>1 DEF MayClaim, Leased
  <2>4. IsFiniteSet(Leased(c)) /\ Cardinality(Leased(c)) \in Nat
    BY <2>3, LeasedCounts
  <2>5. Cardinality(Leased(c) \cup {t}) <= MaxRunning
    BY <2>3, <2>4, RoomForOne
  <2>6. /\ Cardinality(Leased(now)') <= Cardinality(Leased(c) \cup {t})
        /\ Cardinality(Leased(now)') \in Nat /\ Cardinality(Leased(c) \cup {t}) \in Nat
    BY <2>2, <2>3, LeasedCounts
  <2> QED BY <2>5, <2>6, MemoryAssumption DEF ClaimsWithinCap
<1> QED BY <1>1, <1>3, <1>4

(* Nothing but a claim starts a lease of a stage-1 job. *)
LEMMA OthersStartNoLease ==
  ASSUME TypeOK, Next, ~ \E k \in Tokens : try_claim_stage1_job(k)
  PROVE  Leased(now)' \subseteq Leased(now)
<1>1. now' \in Int /\ now \in Int /\ now <= now'
  BY DEF TypeOK, Next, Tick, set_thread_memory_mode, mark_thread_memory_mode_polluted,
     scan, mark_stage1_job_succeeded, mark_stage1_job_succeeded_no_output,
     mark_stage1_job_failed, try_claim_global_phase2_job, get_phase2_input_selection,
     heartbeat_global_phase2_job, confirm_ownership, mark_global_phase2_job_succeeded,
     mark_global_phase2_job_failed, Stop, prune_stage1_outputs_for_retention,
     clear_memory_data
<1>2. \A t \in Threads : jStatus'[t] = "running" => jStatus[t] = "running" /\ jLease'[t] = jLease[t]
  BY DEF TypeOK, Next, Tick, set_thread_memory_mode, mark_thread_memory_mode_polluted,
     scan, mark_stage1_job_succeeded, mark_stage1_job_succeeded_no_output,
     mark_stage1_job_failed, finish_row, try_claim_global_phase2_job, get_phase2_input_selection,
     heartbeat_global_phase2_job, confirm_ownership, mark_global_phase2_job_succeeded,
     mark_global_phase2_job_failed, Stop, prune_stage1_outputs_for_retention,
     clear_memory_data, jobs
<1>3. \A t \in Threads : jLease[t] \in Int
  BY MemoryAssumption DEF TypeOK, OrNull, Null, Times
<1> QED BY <1>1, <1>2, <1>3 DEF Leased

-----------------------------------------------------------------------------
(* The inductive invariant *)

(* The first state. *)
LEMMA InitInvariant == Init => InductiveInvariant
<1> SUFFICES ASSUME Init PROVE InductiveInvariant
  OBVIOUS
<1>1. TypeOK
  BY MemoryAssumption DEF Init, TypeOK, OrNull, Times, Marks, Null
<1>2. /\ ClaimsRemembered /\ RowsConsistent /\ OutputHasItsJob /\ WatermarksCover
      /\ LoadedIsCovered /\ SelectionTracksBaseline /\ ReplacedMemoryIsQueued
  BY DEF Init, Null, ClaimsRemembered, RowsConsistent, Owns, OutputHasItsJob,
     WatermarksCover, LoadedIsCovered, GlobalOwns, Consolidating,
     SelectionTracksBaseline, ReplacedMemoryIsQueued
<1> QED BY <1>1, <1>2 DEF InductiveInvariant

(* The clock and the mode of a thread are read by guards only. *)
LEMMA ModeKeeps ==
  ASSUME InductiveInvariant,
         \/ Tick
         \/ \E t \in Threads, m \in {"enabled", "disabled"} : set_thread_memory_mode(t, m)
  PROVE  InductiveInvariant'
<1>1. UNCHANGED <<jobs, outputs, global, work, baseline>>
  BY DEF Tick, set_thread_memory_mode
<1>2. TypeOK'
  <2>1. now' \in 0 .. MaxTime /\ mode' \in [Threads -> {"enabled", "disabled", "polluted"}]
    <3>1. CASE Tick
      BY <3>1, MemoryAssumption DEF InductiveInvariant, TypeOK, Tick
    <3>2. CASE \E t \in Threads, m \in {"enabled", "disabled"} : set_thread_memory_mode(t, m)
      BY <3>2 DEF InductiveInvariant, TypeOK, set_thread_memory_mode
    <3> QED BY <3>1, <3>2
  <2> QED BY <1>1, <2>1 DEF InductiveInvariant, TypeOK, jobs, outputs, global, work
<1>3. /\ ClaimsRemembered' /\ RowsConsistent' /\ OutputHasItsJob' /\ WatermarksCover'
      /\ LoadedIsCovered' /\ SelectionTracksBaseline' /\ ReplacedMemoryIsQueued'
  BY <1>1 DEF InductiveInvariant, ClaimsRemembered, RowsConsistent, Owns, OutputHasItsJob,
     WatermarksCover, LoadedIsCovered, GlobalOwns, Consolidating,
     SelectionTracksBaseline, ReplacedMemoryIsQueued, jobs, outputs, global, work
<1> QED BY <1>2, <1>3 DEF InductiveInvariant

(* A session that gives up, stops or lost its row leaves all rows alone. *)
LEMMA GivingUpKeeps ==
  ASSUME InductiveInvariant, NEW k \in Tokens, over(k),
         UNCHANGED <<now, mode, jobs, outputs, global, baseline>>
  PROVE  InductiveInvariant'
<1> USE DEF InductiveInvariant
<1>1. TypeOK' /\ ClaimsRemembered'
  BY OverKeeps DEF TypeOK, jobs, outputs, global
<1>2. /\ step'[k] = "over"
      /\ \A j \in Tokens \ {k} :
           /\ step'[j] = step[j] /\ wThread'[j] = wThread[j]
           /\ wSource'[j] = wSource[j] /\ wInputs'[j] = wInputs[j]
           /\ wMark'[j] = wMark[j]
  BY OverKeeps
<1>3. RowsConsistent'
  BY <1>2 DEF RowsConsistent, Owns, jobs
<1>4. LoadedIsCovered'
  BY <1>2 DEF LoadedIsCovered, Consolidating, GlobalOwns, jobs, outputs, global
<1>5. /\ OutputHasItsJob' /\ WatermarksCover' /\ SelectionTracksBaseline'
      /\ ReplacedMemoryIsQueued'
  BY DEF OutputHasItsJob, WatermarksCover, SelectionTracksBaseline,
     ReplacedMemoryIsQueued, jobs, outputs, global
<1> QED BY <1>1, <1>3, <1>4, <1>5

(* Pollution queues a consolidation when the thread is in the baseline. *)
LEMMA PollutionKeeps ==
  ASSUME InductiveInvariant, NEW t \in Threads, mark_thread_memory_mode_polluted(t)
  PROVE  InductiveInvariant'
<1> USE DEF InductiveInvariant
<1>1. /\ now \in 0 .. MaxTime
      /\ mode' \in [Threads -> {"enabled", "disabled", "polluted"}]
      /\ UNCHANGED <<now, jobs, outputs, work, baseline>>
  BY DEF mark_thread_memory_mode_polluted, TypeOK
<1>2. CASE UNCHANGED global
  <2>1. TypeOK'
    BY <1>1, <1>2 DEF TypeOK, jobs, outputs, global, work
  <2>2. /\ ClaimsRemembered' /\ RowsConsistent' /\ OutputHasItsJob' /\ WatermarksCover'
        /\ LoadedIsCovered' /\ SelectionTracksBaseline' /\ ReplacedMemoryIsQueued'
    BY <1>1, <1>2 DEF ClaimsRemembered, RowsConsistent, Owns, OutputHasItsJob,
       WatermarksCover, LoadedIsCovered, GlobalOwns, Consolidating,
       SelectionTracksBaseline, ReplacedMemoryIsQueued, jobs, outputs, global, work
  <2> QED BY <2>1, <2>2
<1>3. CASE enqueue_global_consolidation(now)
  <2>1. /\ gStatus' \in {"pending", "running"}
        /\ gStatus' = "running" <=> gStatus = "running"
        /\ gToken' = gToken /\ gLease' = gLease /\ gSuccess' = gSuccess
        /\ gRetryAt' \in OrNull(Times) /\ gRetries' \in 0 .. DefaultRetry
        /\ gInput' \in Marks /\ gInput' >= gInput
        /\ gStatus # "absent" => gInput' > gInput
    BY <1>1, <1>3, EnqueueKeeps
  <2>2. TypeOK'
    BY <1>1, <2>1 DEF TypeOK, jobs, outputs, work
  <2>3. ClaimsRemembered' /\ RowsConsistent' /\ OutputHasItsJob' /\ SelectionTracksBaseline'
    BY <1>1 DEF ClaimsRemembered, RowsConsistent, Owns, OutputHasItsJob,
       SelectionTracksBaseline, jobs, outputs, work
  <2>4. /\ gInput \in Int /\ gInput' \in Int /\ gSuccess \in Int
        /\ \A u \in Threads : oSource[u] \in Int
        /\ \A k \in Tokens : wMark[k] \in Int
    BY <2>2, MemoryAssumption DEF TypeOK, Marks, OrNull, Null
  <2>5. WatermarksCover' /\ LoadedIsCovered' /\ ReplacedMemoryIsQueued'
    BY <1>1, <2>1, <2>4 DEF WatermarksCover, LoadedIsCovered, GlobalOwns, Consolidating,
       ReplacedMemoryIsQueued, jobs, outputs, work
  <2> QED BY <2>2, <2>3, <2>5
<1> QED BY <1>2, <1>3 DEF mark_thread_memory_mode_polluted

(* A scan picks a thread and remembers it. *)
LEMMA ScanKeeps ==
  ASSUME InductiveInvariant, NEW k \in Tokens, NEW t \in Threads, NEW s \in 0 .. now,
         scan(k, t, s)
  PROVE  InductiveInvariant'
<1> USE DEF InductiveInvariant
<1>1. /\ step[k] = "fresh" /\ step'[k] = "scanned"
      /\ wThread'[k] = t /\ wSource'[k] = s /\ s \in 0 .. MaxTime
      /\ \A j \in Tokens \ {k} : /\ step'[j] = step[j] /\ wThread'[j] = wThread[j]
                                 /\ wSource'[j] = wSource[j]
      /\ UNCHANGED <<now, mode, jobs, outputs, global, wInputs, wMark, baseline>>
  BY MemoryAssumption DEF scan, TypeOK
<1>2. TypeOK'
  <2>1. /\ step' \in [Tokens -> {"fresh", "scanned", "extracting", "holding",
                                 "consolidating", "confirmed", "over"}]
        /\ wThread' \in [Tokens -> OrNull(Threads)]
        /\ wSource' \in [Tokens -> OrNull(0 .. MaxTime)]
    BY <1>1 DEF scan, TypeOK, OrNull
  <2> QED BY <1>1, <2>1 DEF TypeOK, jobs, outputs, global
<1>3. ClaimsRemembered' /\ RowsConsistent' /\ LoadedIsCovered'
  BY <1>1 DEF ClaimsRemembered, RowsConsistent, Owns, LoadedIsCovered, GlobalOwns,
     Consolidating, jobs, outputs, global
<1>4. /\ OutputHasItsJob' /\ WatermarksCover' /\ SelectionTracksBaseline'
      /\ ReplacedMemoryIsQueued'
  BY <1>1 DEF OutputHasItsJob, WatermarksCover, SelectionTracksBaseline,
     ReplacedMemoryIsQueued, jobs, outputs, global
<1> QED BY <1>2, <1>3, <1>4

(* A claim takes the row over from whoever had it. *)
LEMMA ClaimKeeps ==
  ASSUME InductiveInvariant, NEW k \in Tokens, try_claim_stage1_job(k)
  PROVE  InductiveInvariant'
<1> USE DEF InductiveInvariant
<1>1. PICK c \in ReadClock :
        \/ MayClaim(k, wThread[k], c) /\ claimed(k, wThread[k], c)
        \/ over(k) /\ UNCHANGED jobs
  BY DEF try_claim_stage1_job
<1>2. step[k] = "scanned" /\ UNCHANGED <<now, mode, outputs, global, baseline>>
  BY DEF try_claim_stage1_job
<1>3. CASE over(k) /\ UNCHANGED jobs
  BY <1>2, <1>3, GivingUpKeeps
<1>4. CASE MayClaim(k, wThread[k], c) /\ claimed(k, wThread[k], c)
  <2> DEFINE t == wThread[k]
  <2>1. t \in Threads /\ wSource[k] \in 0 .. MaxTime
    BY <1>2 DEF ClaimsRemembered, TypeOK, OrNull, Null
  <2>2. /\ jStatus'[t] = "running" /\ jToken'[t] = k /\ jInput'[t] = wSource[k]
        /\ jRetries'[t] = IF wSource[k] > jInput[t] THEN DefaultRetry ELSE jRetries[t]
        /\ \A u \in Threads \ {t} :
             /\ jStatus'[u] = jStatus[u] /\ jToken'[u] = jToken[u]
             /\ jInput'[u] = jInput[u] /\ jRetries'[u] = jRetries[u]
        /\ step'[k] = "extracting"
        /\ \A j \in Tokens \ {k} : step'[j] = step[j]
        /\ UNCHANGED <<jSuccess, wThread, wSource, wInputs, wMark>>
    BY <1>4, <2>1 DEF claimed, TypeOK
  <2>3. c + LeaseSeconds \in Times
    BY MemoryAssumption DEF ReadClock, TypeOK, Times
  <2>4. /\ jSuccess[t] < wSource[k]
        /\ wSource[k] > jInput[t] \/ jRetries[t] > 0
    BY <1>4 DEF MayClaim, OutOfDate, MayRetry
  <2>5. TypeOK'
    <3>1. /\ jStatus' \in [Threads -> {"absent", "running", "done", "error"}]
          /\ jToken' \in [Threads -> Tokens \cup {NoToken}]
          /\ jLease' \in [Threads -> OrNull(Times)]
          /\ jRetryAt' \in [Threads -> OrNull(Times)]
      BY <1>4, <2>1, <2>3 DEF claimed, TypeOK, OrNull
    <3>2. /\ jRetries' \in [Threads -> 0 .. DefaultRetry]
          /\ jInput' \in [Threads -> OrNull(0 .. MaxTime)]
          /\ step' \in [Tokens -> {"fresh", "scanned", "extracting", "holding",
                                   "consolidating", "confirmed", "over"}]
      BY <1>4, <2>1, MemoryAssumption DEF claimed, TypeOK, OrNull
    <3> QED BY <1>2, <2>2, <3>1, <3>2 DEF TypeOK, outputs, global
  <2>6. ClaimsRemembered'
    BY <1>2, <2>2 DEF ClaimsRemembered
  <2>7. RowsConsistent'
    <3>1. ASSUME NEW u \in Threads, u # t
          PROVE  /\ jSuccess'[u] <= jInput'[u]
                 /\ jStatus'[u] = "running" => jRetries'[u] > 0 /\ jSuccess'[u] < jInput'[u]
                 /\ \A j \in Tokens :
                      Owns(j, u)' /\ step'[j] = "extracting" /\ wThread'[j] = u
                        => wSource'[j] = jInput'[u]
      BY <2>2, <3>1 DEF RowsConsistent, Owns
    <3>2. /\ jSuccess'[t] <= jInput'[t] /\ jRetries'[t] > 0 /\ jSuccess'[t] < jInput'[t]
          /\ \A j \in Tokens : Owns(j, t)' => wSource'[j] = jInput'[t]
      <4>1. jSuccess[t] \in Int /\ wSource[k] \in Int /\ jRetries[t] \in Int
        BY <2>1, MemoryAssumption DEF TypeOK, OrNull, Null
      <4> QED BY <2>1, <2>2, <2>4, <4>1, MemoryAssumption DEF Owns
    <3> QED BY <2>2, <3>1, <3>2 DEF RowsConsistent
  <2>8. OutputHasItsJob'
    BY <1>2, <2>2 DEF OutputHasItsJob, outputs
  <2>9. /\ WatermarksCover' /\ LoadedIsCovered' /\ SelectionTracksBaseline'
        /\ ReplacedMemoryIsQueued'
    BY <1>2, <2>2 DEF WatermarksCover, LoadedIsCovered, GlobalOwns, Consolidating,
       SelectionTracksBaseline, ReplacedMemoryIsQueued, outputs, global
  <2> QED BY <2>5, <2>6, <2>7, <2>8, <2>9
<1> QED BY <1>1, <1>3, <1>4

(* What is common to the two ways in which an owned stage-1 job succeeds:    *)
(* the rows stay consistent, whatever becomes of the outputs.                *)
LEMMA FinishedRows ==
  ASSUME InductiveInvariant, NEW k \in Tokens, NEW t \in Threads, Owns(k, t),
         finish_row(t), over(k)
  PROVE  /\ ClaimsRemembered' /\ RowsConsistent'
         /\ jSuccess'[t] = jInput[t] /\ jSuccess[t] < jInput[t]
         /\ \A u \in Threads : /\ jSuccess[u] \in Int /\ jSuccess'[u] \in Int
                               /\ jSuccess[u] <= jSuccess'[u]
                               /\ (u # t) => jSuccess'[u] = jSuccess[u]
                               /\ jStatus'[u] = "absent" => jStatus[u] = "absent"
<1> USE DEF InductiveInvariant
<1>1. /\ UNCHANGED <<jToken, jRetryAt, jRetries, jInput>>
      /\ jStatus'[t] = "done" /\ jSuccess'[t] = jInput[t] /\ jSuccess[t] < jInput[t]
      /\ jInput[t] \in 0 .. MaxTime
      /\ \A u \in Threads \ {t} : jStatus'[u] = jStatus[u] /\ jSuccess'[u] = jSuccess[u]
  BY FinishKeeps DEF Owns
<1>2. /\ ClaimsRemembered' /\ step'[k] = "over"
      /\ \A j \in Tokens \ {k} : /\ step'[j] = step[j] /\ wThread'[j] = wThread[j]
                                 /\ wSource'[j] = wSource[j]
  BY OverKeeps
<1>3. \A u \in Threads : jSuccess[u] \in Int
  BY MemoryAssumption DEF TypeOK, OrNull, Null
<1>4. ASSUME NEW u \in Threads
      PROVE  /\ jSuccess'[u] \in Int /\ jSuccess[u] <= jSuccess'[u]
             /\ jStatus'[u] = "absent" => jStatus[u] = "absent"
             /\ jSuccess'[u] <= jInput'[u]
             /\ jStatus'[u] = "running" => jRetries'[u] > 0 /\ jSuccess'[u] < jInput'[u]
  BY <1>1, <1>3 DEF RowsConsistent
<1>5. \A u \in Threads, j \in Tokens :
        Owns(j, u)' /\ step'[j] = "extracting" /\ wThread'[j] = u => wSource'[j] = jInput'[u]
  BY <1>1, <1>2 DEF RowsConsistent, Owns
<1>6. RowsConsistent'
  BY <1>4, <1>5 DEF RowsConsistent
<1> QED BY <1>1, <1>2, <1>3, <1>4, <1>6

(* The types after an owned stage-1 job succeeded. *)
LEMMA FinishedTypes ==
  ASSUME InductiveInvariant, NEW k \in Tokens, NEW t \in Threads, Owns(k, t),
         finish_row(t), over(k), UNCHANGED <<now, mode, baseline>>,
         oSource' \in [Threads -> OrNull(0 .. MaxTime)],
         oSelected' \in [Threads -> OrNull(0 .. MaxTime)],
         gStatus' \in {"absent", "pending", "running", "done", "error"},
         gToken' = gToken, gLease' = gLease, gSuccess' = gSuccess,
         gRetryAt' \in OrNull(Times), gRetries' \in 0 .. DefaultRetry, gInput' \in Marks
  PROVE  TypeOK'
<1>1. /\ jStatus' \in [Threads -> {"absent", "running", "done", "error"}]
      /\ jLease' \in [Threads -> OrNull(Times)]
      /\ jSuccess' \in [Threads -> OrNull(0 .. MaxTime)]
      /\ UNCHANGED <<jToken, jRetryAt, jRetries, jInput>>
  BY FinishKeeps DEF Owns
<1>2. /\ step' \in [Tokens -> {"fresh", "scanned", "extracting", "holding",
                               "consolidating", "confirmed", "over"}]
      /\ wThread' \in [Tokens -> OrNull(Threads)]
      /\ wSource' \in [Tokens -> OrNull(0 .. MaxTime)]
      /\ wInputs' \in [Tokens -> [Threads -> OrNull(0 .. MaxTime)]]
      /\ wMark' \in [Tokens -> OrNull(Marks)]
  BY OverKeeps DEF InductiveInvariant
<1> QED BY <1>1, <1>2 DEF InductiveInvariant, TypeOK

(* A memory is stored: it is newer than all the row has seen, so it is in no *)
(* baseline, and the watermark moves past whatever a consolidation under way *)
(* will report.                                                              *)
LEMMA SuccessKeeps ==
  ASSUME InductiveInvariant, NEW k \in Tokens, NEW t \in Threads,
         mark_stage1_job_succeeded(k, t)
  PROVE  InductiveInvariant'
<1> USE DEF InductiveInvariant
<1>1. /\ step[k] = "extracting" /\ t = wThread[k] /\ over(k)
      /\ UNCHANGED <<now, mode, baseline>>
  BY DEF mark_stage1_job_succeeded
<1>2. CASE ~Owns(k, t)
  BY <1>1, <1>2, GivingUpKeeps DEF mark_stage1_job_succeeded
<1>3. CASE Owns(k, t)
  <2>1. /\ finish_row(t)
        /\ oSource' = [oSource EXCEPT ![t] = IF wSource[k] >= @ THEN wSource[k] ELSE @]
        /\ enqueue_global_consolidation(wSource[k])
        /\ UNCHANGED oSelected
    BY <1>3 DEF mark_stage1_job_succeeded
  <2>2. wSource[k] = jInput[t] /\ wSource[k] \in 0 .. MaxTime
    BY <1>1, <1>3 DEF RowsConsistent, ClaimsRemembered, TypeOK, OrNull, Null
  <2>3. /\ ClaimsRemembered' /\ RowsConsistent'
        /\ jSuccess'[t] = jInput[t] /\ jSuccess[t] < jInput[t]
        /\ \A u \in Threads : /\ jSuccess[u] \in Int /\ jSuccess'[u] \in Int
                              /\ jSuccess[u] <= jSuccess'[u]
                              /\ (u # t) => jSuccess'[u] = jSuccess[u]
                              /\ jStatus'[u] = "absent" => jStatus[u] = "absent"
    BY <1>1, <1>3, <2>1, FinishedRows
  <2>4. /\ gStatus' \in {"pending", "running"}
        /\ gStatus' = "running" <=> gStatus = "running"
        /\ gToken' = gToken /\ gLease' = gLease /\ gSuccess' = gSuccess
        /\ gRetryAt' \in OrNull(Times) /\ gRetries' \in 0 .. DefaultRetry
        /\ gInput' \in Marks /\ gInput' >= wSource[k] /\ gInput' >= gInput
        /\ gStatus # "absent" => gInput' > gInput
    BY <2>1, <2>2, EnqueueKeeps
  <2>5. \A u \in Threads : oSource[u] \in Int /\ oSource[u] \in OrNull(0 .. MaxTime)
    BY MemoryAssumption DEF TypeOK, OrNull, Null
  <2>6. /\ oSource'[t] = wSource[k]
        /\ \A u \in Threads \ {t} : oSource'[u] = oSource[u]
    <3>1. oSource[t] <= wSource[k]
      BY <2>2, <2>3, <2>5 DEF OutputHasItsJob, Null
    <3> QED BY <2>1, <2>2, <2>5, <3>1 DEF TypeOK
  <2>7. oSource' \in [Threads -> OrNull(0 .. MaxTime)]
    BY <2>1, <2>2 DEF TypeOK, OrNull
  <2>8. TypeOK'
    BY <1>1, <1>3, <2>1, <2>4, <2>7, FinishedTypes DEF TypeOK
  <2>9. OutputHasItsJob'
    BY <1>3, <2>1, <2>2, <2>3, <2>6 DEF OutputHasItsJob, Owns, finish_row, TypeOK
  <2>10. /\ gInput \in Int /\ gInput' \in Int /\ gSuccess \in Int
         /\ \A j \in Tokens : wMark[j] \in Int
         /\ \A j \in Tokens, u \in Threads : wInputs[j][u] \in Int
         /\ \A u \in Threads : baseline[u] \in Int
    BY <2>4, MemoryAssumption DEF TypeOK, Marks, OrNull, Null
  <2>11. WatermarksCover'
    BY <1>1, <2>2, <2>3, <2>4, <2>5, <2>6, <2>10 DEF WatermarksCover
  <2>12. LoadedIsCovered'
    <3>1. \A j \in Tokens : step'[j] \in {"holding", "consolidating", "confirmed"} =>
            j # k /\ step'[j] = step[j] /\ wInputs'[j] = wInputs[j] /\ wMark'[j] = wMark[j]
      BY <1>1, OverKeeps
    <3>2. ASSUME NEW j \in Tokens, GlobalOwns(j)',
                 step'[j] \in {"holding", "consolidating", "confirmed"}
          PROVE  /\ GlobalOwns(j) /\ step[j] = step'[j]
                 /\ wMark'[j] <= gInput /\ gInput < gInput' /\ gSuccess' <= gInput
                 /\ wMark'[j] \in Int
      <4>1. GlobalOwns(j) /\ step[j] = step'[j] /\ wMark'[j] = wMark[j]
        BY <2>4, <3>1, <3>2 DEF GlobalOwns
      <4>2. gInput < gInput'
        BY <2>4, <4>1 DEF GlobalOwns
      <4> QED BY <2>4, <2>10, <3>2, <4>1, <4>2 DEF LoadedIsCovered, WatermarksCover
    <3>3. ASSUME NEW j \in Tokens, Consolidating(j)', NEW u \in Threads
          PROVE  wInputs'[j][u] <= jSuccess'[u]
      <4>1. Consolidating(j) /\ wInputs'[j] = wInputs[j]
        BY <3>1, <3>2, <3>3 DEF Consolidating
      <4> QED BY <2>3, <2>10, <4>1 DEF LoadedIsCovered
    <3> QED BY <2>4, <2>10, <3>2, <3>3 DEF LoadedIsCovered, Consolidating
  <2>13. SelectionTracksBaseline'
    <3>1. oSource'[t] # baseline[t] /\ oSource'[t] # Null
      BY <2>2, <2>3, <2>6, <2>10 DEF WatermarksCover, Null
    <3> QED BY <1>1, <2>1, <2>6, <3>1 DEF SelectionTracksBaseline
  <2>14. ReplacedMemoryIsQueued'
    BY <1>1, <2>4, <2>10 DEF WatermarksCover, ReplacedMemoryIsQueued
  <2> QED BY <2>3, <2>8, <2>9, <2>11, <2>12, <2>13, <2>14
<1> QED BY <1>2, <1>3

(* An extraction without a result deletes the memory, if there is one. *)
LEMMA NoOutputKeeps ==
  ASSUME InductiveInvariant, NEW k \in Tokens, NEW t \in Threads,
         mark_stage1_job_succeeded_no_output(k, t)
  PROVE  InductiveInvariant'
<1> USE DEF InductiveInvariant
<1>1. /\ step[k] = "extracting" /\ t = wThread[k] /\ over(k)
      /\ UNCHANGED <<now, mode, baseline>>
  BY DEF mark_stage1_job_succeeded_no_output
<1>2. CASE ~Owns(k, t)
  BY <1>1, <1>2, GivingUpKeeps DEF mark_stage1_job_succeeded_no_output
<1>3. CASE Owns(k, t)
  <2>1. /\ finish_row(t)
        /\ oSource' = [oSource EXCEPT ![t] = Null]
        /\ oSelected' = [oSelected EXCEPT ![t] = Null]
        /\ enqueue_global_consolidation(jInput[t]) \/ UNCHANGED global
    BY <1>3 DEF mark_stage1_job_succeeded_no_output
  <2>2. /\ ClaimsRemembered' /\ RowsConsistent'
        /\ jSuccess'[t] = jInput[t] /\ jSuccess[t] < jInput[t]
        /\ \A u \in Threads : /\ jSuccess[u] \in Int /\ jSuccess'[u] \in Int
                              /\ jSuccess[u] <= jSuccess'[u]
                              /\ (u # t) => jSuccess'[u] = jSuccess[u]
                              /\ jStatus'[u] = "absent" => jStatus[u] = "absent"
    BY <1>1, <1>3, <2>1, FinishedRows
  <2>3. jInput[t] \in 0 .. MaxTime
    BY <1>3, <2>1, FinishKeeps DEF Owns
  <2>4. /\ gStatus' \in {"absent", "pending", "running", "done", "error"}
        /\ gStatus' = "running" <=> gStatus = "running"
        /\ gToken' = gToken /\ gLease' = gLease /\ gSuccess' = gSuccess
        /\ gRetryAt' \in OrNull(Times) /\ gRetries' \in 0 .. DefaultRetry
        /\ gInput' \in Marks /\ gInput' >= gInput
        /\ gStatus' = "absent" => gStatus = "absent" /\ gInput' = gInput
    <3>1. CASE enqueue_global_consolidation(jInput[t])
      BY <2>3, <3>1, EnqueueKeeps
    <3>2. CASE UNCHANGED global
      BY <3>2, MemoryAssumption DEF global, TypeOK, Marks
    <3> QED BY <2>1, <3>1, <3>2
  <2>5. /\ oSource'[t] = Null /\ oSelected'[t] = Null
        /\ \A u \in Threads \ {t} : oSource'[u] = oSource[u] /\ oSelected'[u] = oSelected[u]
        /\ oSource' \in [Threads -> OrNull(0 .. MaxTime)]
        /\ oSelected' \in [Threads -> OrNull(0 .. MaxTime)]
    BY <2>1 DEF TypeOK, OrNull
  <2>6. TypeOK'
    BY <1>1, <1>3, <2>1, <2>4, <2>5, FinishedTypes
  <2>7. OutputHasItsJob'
    BY <2>2, <2>5 DEF OutputHasItsJob
  <2>8. /\ gInput \in Nat /\ gInput' \in Nat /\ gSuccess \in Int
        /\ \A j \in Tokens : wMark[j] \in Int
        /\ \A j \in Tokens, u \in Threads : wInputs[j][u] \in Int
        /\ \A u \in Threads : baseline[u] \in Int /\ oSource[u] \in Int
    BY <2>4, MemoryAssumption DEF TypeOK, Marks, OrNull, Null
  <2>9. WatermarksCover'
    BY <1>1, <2>2, <2>4, <2>5, <2>8 DEF WatermarksCover, Null
  <2>10. LoadedIsCovered'
    <3>1. \A j \in Tokens : step'[j] \in {"holding", "consolidating", "confirmed"} =>
            j # k /\ step'[j] = step[j] /\ wInputs'[j] = wInputs[j] /\ wMark'[j] = wMark[j]
      BY <1>1, OverKeeps
    <3>2. ASSUME NEW j \in Tokens, GlobalOwns(j)',
                 step'[j] \in {"holding", "consolidating", "confirmed"}
          PROVE  GlobalOwns(j) /\ wMark'[j] <= gInput'
      <4>1. GlobalOwns(j)
        BY <2>4, <3>2 DEF GlobalOwns
      <4> QED BY <2>4, <2>8, <3>1, <3>2, <4>1 DEF LoadedIsCovered
    <3>3. ASSUME NEW j \in Tokens, Consolidating(j)', NEW u \in Threads
          PROVE  /\ wInputs'[j][u] <= jSuccess'[u]
                 /\ wInputs'[j][u] # Null /\ oSource'[u] \notin {Null, wInputs'[j][u]}
                      => gInput' > gSuccess' /\ gInput' > wMark'[j]
      <4>1. Consolidating(j) /\ wInputs'[j] = wInputs[j] /\ wMark'[j] = wMark[j]
        BY <3>1, <3>2, <3>3 DEF Consolidating
      <4>2. wInputs'[j][u] <= jSuccess'[u]
        BY <2>2, <2>8, <4>1 DEF LoadedIsCovered
      <4>3. CASE u = t
        BY <2>5, <4>2, <4>3
      <4>4. CASE u # t
        BY <2>4, <2>5, <2>8, <4>1, <4>2, <4>4 DEF LoadedIsCovered
      <4> QED BY <4>3, <4>4
    <3> QED BY <3>2, <3>3 DEF LoadedIsCovered
  <2>11. SelectionTracksBaseline' /\ ReplacedMemoryIsQueued'
    BY <1>1, <2>4, <2>5, <2>8 DEF SelectionTracksBaseline, ReplacedMemoryIsQueued
  <2> QED BY <2>2, <2>6, <2>7, <2>9, <2>10, <2>11
<1> QED BY <1>2, <1>3

(* A failed extraction uses up a retry, of which a running row has one. *)
LEMMA FailureKeeps ==
  ASSUME InductiveInvariant, NEW k \in Tokens, NEW t \in Threads, mark_stage1_job_failed(k, t)
  PROVE  InductiveInvariant'
<1> USE DEF InductiveInvariant
<1>1. /\ over(k) /\ UNCHANGED <<now, mode, outputs, global, baseline>>
  BY DEF mark_stage1_job_failed
<1>2. CASE ~Owns(k, t)
  BY <1>1, <1>2, GivingUpKeeps DEF mark_stage1_job_failed
<1>3. CASE Owns(k, t)
  <2>1. /\ jStatus' = [jStatus EXCEPT ![t] = "error"]
        /\ jLease' = [jLease EXCEPT ![t] = Null]
        /\ jRetryAt' = [jRetryAt EXCEPT ![t] = now + RetryDelay]
        /\ jRetries' = [jRetries EXCEPT ![t] = @ - 1]
        /\ UNCHANGED <<jToken, jInput, jSuccess>>
    BY <1>3 DEF mark_stage1_job_failed
  <2>2. now + RetryDelay \in Times /\ jRetries[t] - 1 \in 0 .. DefaultRetry
    BY <1>3, MemoryAssumption DEF TypeOK, Times, RowsConsistent, Owns
  <2>3. /\ step' \in [Tokens -> {"fresh", "scanned", "extracting", "holding",
                                 "consolidating", "confirmed", "over"}]
        /\ wThread' \in [Tokens -> OrNull(Threads)]
        /\ wSource' \in [Tokens -> OrNull(0 .. MaxTime)]
        /\ wInputs' \in [Tokens -> [Threads -> OrNull(0 .. MaxTime)]]
        /\ wMark' \in [Tokens -> OrNull(Marks)]
        /\ ClaimsRemembered'
        /\ step'[k] = "over"
        /\ \A j \in Tokens \ {k} :
             /\ step'[j] = step[j] /\ wThread'[j] = wThread[j]
             /\ wSource'[j] = wSource[j] /\ wInputs'[j] = wInputs[j]
             /\ wMark'[j] = wMark[j]
    BY <1>1, OverKeeps
  <2>4. TypeOK'
    <3>1. /\ jStatus' \in [Threads -> {"absent", "running", "done", "error"}]
          /\ jLease' \in [Threads -> OrNull(Times)]
          /\ jRetryAt' \in [Threads -> OrNull(Times)]
          /\ jRetries' \in [Threads -> 0 .. DefaultRetry]
      BY <2>1, <2>2 DEF TypeOK, OrNull
    <3> QED BY <1>1, <2>1, <2>3, <3>1 DEF TypeOK, outputs, global
  <2>5. /\ jStatus'[t] = "error"
        /\ \A u \in Threads \ {t} : jStatus'[u] = jStatus[u] /\ jRetries'[u] = jRetries[u]
    BY <2>1 DEF TypeOK
  <2>6. RowsConsistent'
    BY <2>1, <2>3, <2>5 DEF RowsConsistent, Owns
  <2>7. LoadedIsCovered'
    BY <1>1, <2>1, <2>3 DEF LoadedIsCovered, Consolidating, GlobalOwns, outputs, global
  <2>8. /\ OutputHasItsJob' /\ WatermarksCover' /\ SelectionTracksBaseline'
        /\ ReplacedMemoryIsQueued'
    BY <1>1, <2>1, <2>5 DEF OutputHasItsJob, WatermarksCover, SelectionTracksBaseline,
       ReplacedMemoryIsQueued, outputs, global
  <2> QED BY <2>3, <2>4, <2>6, <2>7, <2>8
<1> QED BY <1>2, <1>3

(* Retention deletes memories that are not selected. *)
LEMMA RetentionKeeps ==
  ASSUME InductiveInvariant, NEW S \in SUBSET Threads, prune_stage1_outputs_for_retention(S)
  PROVE  InductiveInvariant'
<1> USE DEF InductiveInvariant
<1>1. /\ \A t \in S : oSelected[t] = Null
      /\ oSource' = [t \in Threads |-> IF t \in S THEN Null ELSE oSource[t]]
      /\ UNCHANGED <<now, mode, jobs, oSelected, global, work, baseline>>
  BY DEF prune_stage1_outputs_for_retention
<1>2. TypeOK'
  <2>1. oSource' \in [Threads -> OrNull(0 .. MaxTime)]
    BY <1>1 DEF TypeOK, OrNull
  <2> QED BY <1>1, <2>1 DEF TypeOK, jobs, global, work
<1>3. \A t \in Threads : oSource'[t] \in {oSource[t], Null}
  BY <1>1
<1>4. gInput \in Nat
  BY MemoryAssumption DEF TypeOK, Marks
<1>5. ClaimsRemembered' /\ RowsConsistent' /\ LoadedIsCovered'
  BY <1>1, <1>3 DEF ClaimsRemembered, RowsConsistent, Owns, LoadedIsCovered, GlobalOwns,
     Consolidating, jobs, global, work
<1>6. OutputHasItsJob' /\ WatermarksCover' /\ ReplacedMemoryIsQueued'
  BY <1>1, <1>3, <1>4 DEF OutputHasItsJob, WatermarksCover, ReplacedMemoryIsQueued,
     jobs, global, Null
<1>7. SelectionTracksBaseline'
  BY <1>1 DEF SelectionTracksBaseline
<1> QED BY <1>2, <1>5, <1>6, <1>7

-----------------------------------------------------------------------------
(* Phase 2 *)

(* A claim of the global job: the new owner has loaded nothing yet, and the *)
(* watermark it took is the current one.                                    *)
LEMMA GlobalClaimKeeps ==
  ASSUME InductiveInvariant, NEW k \in Tokens, try_claim_global_phase2_job(k)
  PROVE  InductiveInvariant'
<1> USE DEF InductiveInvariant
<1>1. /\ gStatus' = "running" /\ gToken' = k /\ gRetryAt' = Null
      /\ gRetries' = IF gStatus = "absent" THEN DefaultRetry ELSE gRetries
      /\ step' = [step EXCEPT ![k] = "holding"]
      /\ wMark' = [wMark EXCEPT ![k] = gInput]
      /\ UNCHANGED <<now, mode, jobs, outputs, gInput, gSuccess, wThread, wSource,
                     wInputs, baseline>>
  BY DEF try_claim_global_phase2_job
<1>2. gLease' \in OrNull(Times)
  BY MemoryAssumption DEF try_claim_global_phase2_job, ReadClock, TypeOK, Times, OrNull
<1>3. TypeOK'
  <2>1. /\ step' \in [Tokens -> {"fresh", "scanned", "extracting", "holding",
                                 "consolidating", "confirmed", "over"}]
        /\ wMark' \in [Tokens -> OrNull(Marks)]
        /\ gRetryAt' \in OrNull(Times) /\ gRetries' \in 0 .. DefaultRetry
    BY <1>1, MemoryAssumption DEF TypeOK, OrNull
  <2> QED BY <1>1, <1>2, <2>1 DEF TypeOK, jobs, outputs
<1>4. /\ step'[k] = "holding" /\ wMark'[k] = gInput
      /\ \A j \in Tokens \ {k} : step'[j] = step[j] /\ wMark'[j] = wMark[j]
  BY <1>1 DEF TypeOK
<1>5. ClaimsRemembered' /\ RowsConsistent'
  BY <1>1, <1>4 DEF ClaimsRemembered, RowsConsistent, Owns, jobs
<1>6. LoadedIsCovered'
  <2>1. gInput <= gInput
    BY MemoryAssumption DEF TypeOK, Marks
  <2> QED BY <1>1, <1>4, <2>1 DEF LoadedIsCovered, Consolidating, GlobalOwns
<1>7. /\ OutputHasItsJob' /\ WatermarksCover' /\ SelectionTracksBaseline'
      /\ ReplacedMemoryIsQueued'
  BY <1>1 DEF OutputHasItsJob, WatermarksCover, SelectionTracksBaseline,
     ReplacedMemoryIsQueued, jobs, outputs
<1> QED BY <1>3, <1>5, <1>6, <1>7

(* What is loaded is what is stored, and the input watermark covers it. *)
LEMMA SelectionKeeps ==
  ASSUME InductiveInvariant, NEW k \in Tokens, get_phase2_input_selection(k)
  PROVE  InductiveInvariant'
<1> USE DEF InductiveInvariant
<1>1. PICK S \in SUBSET Threads, m \in OrNull(Marks) :
        /\ wInputs' = [wInputs EXCEPT ![k] =
                         [t \in Threads |-> IF t \in S THEN oSource[t] ELSE Null]]
        /\ m \in {wMark[k]} \cup {oSource[t] : t \in S}
        /\ wMark' = [wMark EXCEPT ![k] = m]
  <2>1. \A t \in Threads : oSource[t] \in OrNull(Marks)
    BY MemoryAssumption DEF TypeOK, OrNull, Marks
  <2>2. wMark[k] \in OrNull(Marks)
    BY DEF TypeOK
  <2>3. PICK S \in SUBSET {t \in Threads : oSource[t] # Null /\ mode[t] = "enabled"} :
          /\ wInputs' = [wInputs EXCEPT ![k] =
                           [t \in Threads |-> IF t \in S THEN oSource[t] ELSE Null]]
          /\ \E m \in {wMark[k]} \cup {oSource[t] : t \in S} :
               wMark' = [wMark EXCEPT ![k] = m]
    BY Zenon DEF get_phase2_input_selection
  <2>4. PICK m \in {wMark[k]} \cup {oSource[t] : t \in S} : wMark' = [wMark EXCEPT ![k] = m]
    BY <2>3
  <2>5. S \in SUBSET Threads /\ m \in OrNull(Marks)
    BY <2>1, <2>2, <2>3, <2>4
  <2> QED BY <2>3, <2>4, <2>5, Zenon
<1>2. /\ step[k] = "holding"
      /\ step' = [step EXCEPT ![k] = "consolidating"]
      /\ UNCHANGED <<now, mode, jobs, outputs, global, wThread, wSource, baseline>>
  BY DEF get_phase2_input_selection
<1> DEFINE loaded == [t \in Threads |-> IF t \in S THEN oSource[t] ELSE Null]
<1>3. loaded \in [Threads -> OrNull(0 .. MaxTime)]
  BY DEF TypeOK, OrNull
<1>4. /\ wInputs'[k] = loaded /\ wMark'[k] = m /\ step'[k] = "consolidating"
      /\ \A j \in Tokens \ {k} : /\ step'[j] = step[j] /\ wMark'[j] = wMark[j]
                                 /\ wInputs'[j] = wInputs[j]
  BY <1>1, <1>2 DEF TypeOK
<1>5. TypeOK'
  <2>1. /\ step' \in [Tokens -> {"fresh", "scanned", "extracting", "holding",
                                 "consolidating", "confirmed", "over"}]
        /\ wMark' \in [Tokens -> OrNull(Marks)]
    BY <1>1, <1>2 DEF TypeOK
  <2>2. wInputs' \in [Tokens -> [Threads -> OrNull(0 .. MaxTime)]]
    BY <1>1, <1>3 DEF TypeOK
  <2> QED BY <1>2, <2>1, <2>2 DEF TypeOK, jobs, outputs, global
<1>6. ClaimsRemembered' /\ RowsConsistent'
  BY <1>2, <1>4 DEF ClaimsRemembered, RowsConsistent, Owns, jobs
<1>7. LoadedIsCovered'
  <2>1. \A t \in Threads : loaded[t] \in {oSource[t], Null}
    OBVIOUS
  <2>2. \A t \in Threads : loaded[t] <= jSuccess[t]
    <3>1. \A t \in Threads : jSuccess[t] \in Int /\ Null <= jSuccess[t]
      BY MemoryAssumption DEF TypeOK, OrNull, Null
    <3>2. \A t \in Threads : oSource[t] # Null => oSource[t] = jSuccess[t]
      BY DEF OutputHasItsJob
    <3> HIDE DEF loaded
    <3> QED BY <2>1, <3>1, <3>2
  <2>3. GlobalOwns(k) => m <= gInput
    BY <1>1, <1>2 DEF LoadedIsCovered, WatermarksCover
  <2> HIDE DEF loaded
  <2>4. \A j \in Tokens : GlobalOwns(j)' <=> GlobalOwns(j)
    BY <1>2 DEF GlobalOwns, global
  <2>5. ASSUME NEW j \in Tokens, j # k
        PROVE  /\ GlobalOwns(j)' /\ step'[j] \in {"holding", "consolidating", "confirmed"}
                    => wMark'[j] <= gInput'
               /\ Consolidating(j)' =>
                    \A t \in Threads :
                      /\ wInputs'[j][t] <= jSuccess'[t]
                      /\ wInputs'[j][t] # Null /\ oSource'[t] \notin {Null, wInputs'[j][t]}
                           => gInput' > gSuccess' /\ gInput' > wMark'[j]
    BY <1>2, <1>4, <2>4, <2>5 DEF LoadedIsCovered, Consolidating, jobs, outputs, global
  <2>6. /\ GlobalOwns(k)' => wMark'[k] <= gInput'
        /\ \A t \in Threads :
             /\ wInputs'[k][t] <= jSuccess'[t]
             /\ ~(wInputs'[k][t] # Null /\ oSource'[t] \notin {Null, wInputs'[k][t]})
    BY <1>2, <1>4, <2>1, <2>2, <2>3, <2>4 DEF jobs, outputs, global
  <2> QED BY <2>5, <2>6 DEF LoadedIsCovered
<1>8. /\ OutputHasItsJob' /\ WatermarksCover' /\ SelectionTracksBaseline'
      /\ ReplacedMemoryIsQueued'
  BY <1>2 DEF OutputHasItsJob, WatermarksCover, SelectionTracksBaseline,
     ReplacedMemoryIsQueued, jobs, outputs, global
<1> QED BY <1>5, <1>6, <1>7, <1>8

(* A heartbeat, also the last one before the commit, extends the lease. *)
LEMMA HeartbeatKeeps ==
  ASSUME InductiveInvariant, NEW k \in Tokens,
         heartbeat_global_phase2_job(k) \/ confirm_ownership(k)
  PROVE  InductiveInvariant'
<1> USE DEF InductiveInvariant
<1>1. /\ step[k] = "consolidating"
      /\ UNCHANGED <<now, mode, jobs, outputs, gStatus, gToken, gRetryAt, gRetries,
                     gInput, gSuccess, baseline>>
  BY DEF heartbeat_global_phase2_job, confirm_ownership
<1>2. CASE over(k) /\ UNCHANGED gLease
  BY <1>1, <1>2, GivingUpKeeps DEF global
<1>3. CASE /\ gLease' = now + LeaseSeconds
           /\ UNCHANGED <<wThread, wSource, wInputs, wMark>>
           /\ step' = step \/ step' = [step EXCEPT ![k] = "confirmed"]
  <2>1. /\ step' \in [Tokens -> {"fresh", "scanned", "extracting", "holding",
                                 "consolidating", "confirmed", "over"}]
        /\ step'[k] \in {"consolidating", "confirmed"}
        /\ \A j \in Tokens \ {k} : step'[j] = step[j]
    BY <1>1, <1>3 DEF TypeOK
  <2>2. gLease' \in OrNull(Times)
    BY <1>3, MemoryAssumption DEF TypeOK, OrNull, Times
  <2>3. TypeOK'
    BY <1>1, <1>3, <2>1, <2>2 DEF TypeOK, jobs, outputs
  <2>4. ClaimsRemembered' /\ RowsConsistent' /\ LoadedIsCovered'
    BY <1>1, <1>3, <2>1 DEF ClaimsRemembered, RowsConsistent, Owns, LoadedIsCovered,
       Consolidating, GlobalOwns, jobs, outputs
  <2>5. /\ OutputHasItsJob' /\ WatermarksCover' /\ SelectionTracksBaseline'
        /\ ReplacedMemoryIsQueued'
    BY <1>1 DEF OutputHasItsJob, WatermarksCover, SelectionTracksBaseline,
       ReplacedMemoryIsQueued, jobs, outputs
  <2> QED BY <2>3, <2>4, <2>5
<1> QED BY <1>2, <1>3 DEF heartbeat_global_phase2_job, confirm_ownership, work

(* The owner succeeds: what it loaded becomes the baseline, and what is still *)
(* stored of it the selection.                                                *)
LEMMA GlobalSuccessKeeps ==
  ASSUME InductiveInvariant, NEW k \in Tokens, mark_global_phase2_job_succeeded(k)
  PROVE  InductiveInvariant'
<1> USE DEF InductiveInvariant
<1>1. /\ step[k] \in {"consolidating", "confirmed"} /\ over(k)
      /\ UNCHANGED <<now, mode, jobs>>
  BY DEF mark_global_phase2_job_succeeded
<1>2. CASE ~GlobalOwns(k)
  BY <1>1, <1>2, GivingUpKeeps DEF mark_global_phase2_job_succeeded
<1>3. CASE GlobalOwns(k)
  <2>1. /\ gStatus' = "done" /\ gLease' = Null
        /\ gSuccess' = IF wMark[k] > gSuccess THEN wMark[k] ELSE gSuccess
        /\ oSelected' = [t \in Threads |->
                           IF oSource[t] = wInputs[k][t] THEN wInputs[k][t] ELSE Null]
        /\ baseline' = wInputs[k]
        /\ UNCHANGED <<gToken, gRetryAt, gRetries, gInput, oSource>>
    BY <1>3 DEF mark_global_phase2_job_succeeded, select_snapshots
  <2>2. /\ step' \in [Tokens -> {"fresh", "scanned", "extracting", "holding",
                                 "consolidating", "confirmed", "over"}]
        /\ wThread' \in [Tokens -> OrNull(Threads)]
        /\ wSource' \in [Tokens -> OrNull(0 .. MaxTime)]
        /\ wInputs' \in [Tokens -> [Threads -> OrNull(0 .. MaxTime)]]
        /\ wMark' \in [Tokens -> OrNull(Marks)]
        /\ ClaimsRemembered'
        /\ step'[k] = "over"
        /\ \A j \in Tokens \ {k} : /\ step'[j] = step[j] /\ wThread'[j] = wThread[j]
                                   /\ wSource'[j] = wSource[j]
    BY <1>1, OverKeeps
  <2>3. /\ wMark[k] \in Int /\ gInput \in Int /\ gSuccess \in Int
        /\ wInputs[k] \in [Threads -> OrNull(0 .. MaxTime)]
    BY MemoryAssumption DEF TypeOK, OrNull, Marks, Null
  <2>4. TypeOK'
    <3>1. oSelected' \in [Threads -> OrNull(0 .. MaxTime)]
      BY <2>1, <2>3 DEF OrNull
    <3>2. gSuccess' \in Marks /\ gLease' \in OrNull(Times)
      BY <2>1, <2>3, MemoryAssumption DEF TypeOK, OrNull, Marks, Null
    <3> QED BY <1>1, <2>1, <2>2, <2>3, <3>1, <3>2 DEF TypeOK, jobs
  <2>5. RowsConsistent'
    BY <1>1, <2>2 DEF RowsConsistent, Owns, jobs
  <2>6. OutputHasItsJob'
    BY <1>1, <2>1 DEF OutputHasItsJob, jobs
  <2>7. /\ wMark[k] <= gInput
        /\ \A t \in Threads :
             /\ wInputs[k][t] <= jSuccess[t]
             /\ wInputs[k][t] # Null /\ oSource[t] \notin {Null, wInputs[k][t]}
                  => gInput > gSuccess /\ gInput > wMark[k]
    BY <1>1, <1>3 DEF LoadedIsCovered, Consolidating
  <2>8. WatermarksCover'
    BY <1>1, <2>1, <2>3, <2>7 DEF WatermarksCover, jobs
  <2>9. LoadedIsCovered'
    BY <2>1 DEF LoadedIsCovered, Consolidating, GlobalOwns
  <2>10. SelectionTracksBaseline'
    BY <2>1 DEF SelectionTracksBaseline
  <2>11. ReplacedMemoryIsQueued'
    BY <2>1, <2>7 DEF ReplacedMemoryIsQueued
  <2> QED BY <2>2, <2>4, <2>5, <2>6, <2>8, <2>9, <2>10, <2>11
<1> QED BY <1>2, <1>3

(* A failed consolidation backs off; the watermarks stay where they are. *)
LEMMA GlobalFailureKeeps ==
  ASSUME InductiveInvariant, NEW k \in Tokens, mark_global_phase2_job_failed(k)
  PROVE  InductiveInvariant'
<1> USE DEF InductiveInvariant
<1>1. over(k) /\ UNCHANGED <<now, mode, jobs, outputs, baseline>>
  BY DEF mark_global_phase2_job_failed
<1>2. CASE UNCHANGED global
  BY <1>1, <1>2, GivingUpKeeps
<1>3. CASE /\ gStatus' = "error" /\ gLease' = Null
           /\ gRetryAt' = now + RetryDelay
           /\ gRetries' = IF gRetries > 0 THEN gRetries - 1 ELSE 0
           /\ UNCHANGED <<gToken, gInput, gSuccess>>
  <2>1. /\ step' \in [Tokens -> {"fresh", "scanned", "extracting", "holding",
                                 "consolidating", "confirmed", "over"}]
        /\ wThread' \in [Tokens -> OrNull(Threads)]
        /\ wSource' \in [Tokens -> OrNull(0 .. MaxTime)]
        /\ wInputs' \in [Tokens -> [Threads -> OrNull(0 .. MaxTime)]]
        /\ wMark' \in [Tokens -> OrNull(Marks)]
        /\ ClaimsRemembered'
        /\ step'[k] = "over"
        /\ \A j \in Tokens \ {k} : /\ step'[j] = step[j] /\ wThread'[j] = wThread[j]
                                   /\ wSource'[j] = wSource[j]
    BY <1>1, OverKeeps
  <2>2. gRetryAt' \in OrNull(Times) /\ gLease' \in OrNull(Times) /\ gRetries' \in 0 .. DefaultRetry
    BY <1>3, MemoryAssumption DEF TypeOK, OrNull, Times
  <2>3. TypeOK'
    BY <1>1, <1>3, <2>1, <2>2 DEF TypeOK, jobs, outputs
  <2>4. RowsConsistent'
    BY <1>1, <2>1 DEF RowsConsistent, Owns, jobs
  <2>5. LoadedIsCovered'
    BY <1>3 DEF LoadedIsCovered, Consolidating, GlobalOwns
  <2>6. /\ OutputHasItsJob' /\ WatermarksCover' /\ SelectionTracksBaseline'
        /\ ReplacedMemoryIsQueued'
    BY <1>1, <1>3 DEF OutputHasItsJob, WatermarksCover, SelectionTracksBaseline,
       ReplacedMemoryIsQueued, jobs, outputs
  <2> QED BY <2>1, <2>3, <2>4, <2>5, <2>6
<1> QED BY <1>2, <1>3 DEF mark_global_phase2_job_failed

(* A reset forgets every row and every owner, and so every claim is lost. *)
LEMMA ResetKeeps ==
  ASSUME InductiveInvariant, clear_memory_data
  PROVE  InductiveInvariant'
<1> USE DEF InductiveInvariant
<1>1. TypeOK'
  BY MemoryAssumption DEF clear_memory_data, TypeOK, OrNull, Marks, Null, work
<1>2. ClaimsRemembered'
  BY DEF clear_memory_data, ClaimsRemembered, work
<1>3. RowsConsistent' /\ OutputHasItsJob' /\ WatermarksCover'
  BY DEF clear_memory_data, RowsConsistent, Owns, OutputHasItsJob, WatermarksCover, Null
<1>4. LoadedIsCovered'
  BY DEF clear_memory_data, LoadedIsCovered, Consolidating, GlobalOwns
<1>5. SelectionTracksBaseline' /\ ReplacedMemoryIsQueued'
  BY DEF clear_memory_data, SelectionTracksBaseline, ReplacedMemoryIsQueued
<1> QED BY <1>1, <1>2, <1>3, <1>4, <1>5

(* A step that changes nothing. *)
LEMMA StutterKeeps ==
  ASSUME InductiveInvariant, UNCHANGED vars
  PROVE  InductiveInvariant'
<1>1. TypeOK'
  BY DEF InductiveInvariant, TypeOK, vars, jobs, outputs, global, work
<1>2. /\ ClaimsRemembered' /\ RowsConsistent' /\ OutputHasItsJob' /\ WatermarksCover'
      /\ LoadedIsCovered' /\ SelectionTracksBaseline' /\ ReplacedMemoryIsQueued'
  BY DEF InductiveInvariant, ClaimsRemembered, RowsConsistent, Owns, OutputHasItsJob,
     WatermarksCover, LoadedIsCovered, GlobalOwns, Consolidating,
     SelectionTracksBaseline, ReplacedMemoryIsQueued, vars, jobs, outputs, global, work
<1> QED BY <1>1, <1>2 DEF InductiveInvariant

-----------------------------------------------------------------------------
(* Theorems *)

(* The rows of both kinds and what the sessions remember agree at all times,  *)
(* however many sessions claim, stop, lose their leases or report late.       *)
THEOREM Invariance == Spec => []InductiveInvariant
<1>1. InductiveInvariant /\ [Next]_vars => InductiveInvariant'
  <2> SUFFICES ASSUME InductiveInvariant, [Next]_vars PROVE InductiveInvariant'
    OBVIOUS
  <2>1. CASE UNCHANGED vars
    BY <2>1, StutterKeeps
  <2>2. CASE Tick \/ \E t \in Threads, m \in {"enabled", "disabled"} : set_thread_memory_mode(t, m)
    BY <2>2, ModeKeeps
  <2>3. ASSUME NEW t \in Threads, mark_thread_memory_mode_polluted(t)
        PROVE  InductiveInvariant'
    BY <2>3, PollutionKeeps
  <2>4. ASSUME NEW k \in Tokens, NEW t \in Threads, NEW s \in 0 .. now, scan(k, t, s)
        PROVE  InductiveInvariant'
    BY <2>4, ScanKeeps
  <2>5. ASSUME NEW k \in Tokens, NEW t \in Threads,
               \/ mark_stage1_job_succeeded(k, t)
               \/ mark_stage1_job_succeeded_no_output(k, t)
               \/ mark_stage1_job_failed(k, t)
        PROVE  InductiveInvariant'
    BY <2>5, SuccessKeeps, NoOutputKeeps, FailureKeeps
  <2>6. ASSUME NEW k \in Tokens, try_claim_stage1_job(k) \/ try_claim_global_phase2_job(k)
        PROVE  InductiveInvariant'
    BY <2>6, ClaimKeeps, GlobalClaimKeeps
  <2>7. ASSUME NEW k \in Tokens, get_phase2_input_selection(k)
        PROVE  InductiveInvariant'
    BY <2>7, SelectionKeeps
  <2>8. ASSUME NEW k \in Tokens, heartbeat_global_phase2_job(k) \/ confirm_ownership(k)
        PROVE  InductiveInvariant'
    BY <2>8, HeartbeatKeeps
  <2>9. ASSUME NEW k \in Tokens,
               mark_global_phase2_job_succeeded(k) \/ mark_global_phase2_job_failed(k)
        PROVE  InductiveInvariant'
    BY <2>9, GlobalSuccessKeeps, GlobalFailureKeeps
  <2>10. ASSUME NEW k \in Tokens, Stop(k)
         PROVE  InductiveInvariant'
    BY <2>10, GivingUpKeeps DEF Stop
  <2>11. ASSUME NEW S \in SUBSET Threads, prune_stage1_outputs_for_retention(S)
         PROVE  InductiveInvariant'
    BY <2>11, RetentionKeeps
  <2>12. CASE clear_memory_data
    BY <2>12, ResetKeeps
  <2> QED
    BY <2>1, <2>2, <2>3, <2>4, <2>5, <2>6, <2>7, <2>8, <2>9, <2>10, <2>11, <2>12 DEF Next
<1> QED BY <1>1, InitInvariant, PTL DEF Spec

(* Every column keeps its type; in particular the retries of a stage-1 job,  *)
(* decremented without a floor, never go below zero.                         *)
THEOREM TypeCorrect == Spec => []TypeOK
<1>1. InductiveInvariant => TypeOK
  BY DEF InductiveInvariant
<1> QED BY <1>1, Invariance, PTL

(* A stored memory is the one its job row vouches for, after late results,   *)
(* takeovers and resets.                                                     *)
THEOREM OutputsMatchJobs == Spec => []OutputHasItsJob
<1>1. InductiveInvariant => OutputHasItsJob
  BY DEF InductiveInvariant
<1> QED BY <1>1, Invariance, PTL

(* A consolidated memory that was replaced leaves the global job with input  *)
(* it has not dealt with, also when it was replaced during the consolidation. *)
THEOREM ReplacementsAreQueued == Spec => []ReplacedMemoryIsQueued
<1>1. InductiveInvariant => ReplacedMemoryIsQueued
  BY DEF InductiveInvariant
<1> QED BY <1>1, Invariance, PTL

(* The selection is what is left of the last baseline, which retention keeps. *)
THEOREM SelectionIsBaseline == Spec => []SelectionTracksBaseline
<1>1. InductiveInvariant => SelectionTracksBaseline
  BY DEF InductiveInvariant
<1> QED BY <1>1, Invariance, PTL

(* No more than MaxRunning stage-1 jobs run under a lease, whatever old clock *)
(* the claims read.                                                          *)
THEOREM CapHolds == Spec => []ClaimsWithinCap
<1>1. Init => ClaimsWithinCap
  <2> SUFFICES ASSUME Init PROVE ClaimsWithinCap
    OBVIOUS
  <2>1. Leased(now) = {}
    BY DEF Init, Leased
  <2> QED BY <2>1, FS_EmptySet, MemoryAssumption DEF ClaimsWithinCap
<1>2. InductiveInvariant /\ ClaimsWithinCap /\ [Next]_vars => ClaimsWithinCap'
  <2> SUFFICES ASSUME InductiveInvariant, ClaimsWithinCap, [Next]_vars PROVE ClaimsWithinCap'
    OBVIOUS
  <2>1. CASE UNCHANGED vars
    BY <2>1 DEF ClaimsWithinCap, Leased, vars, jobs
  <2>2. CASE \E k \in Tokens : try_claim_stage1_job(k)
    BY <2>2, ClaimWithinCap DEF InductiveInvariant
  <2>3. CASE Next /\ ~ \E k \in Tokens : try_claim_stage1_job(k)
    <3>1. Leased(now)' \subseteq Leased(now) /\ Leased(now) \subseteq Threads
      BY <2>3, OthersStartNoLease DEF InductiveInvariant, Leased
    <3>2. /\ Cardinality(Leased(now)') <= Cardinality(Leased(now))
          /\ Cardinality(Leased(now)') \in Nat /\ Cardinality(Leased(now)) \in Nat
      BY <3>1, LeasedCounts
    <3> QED BY <3>2, MemoryAssumption DEF ClaimsWithinCap
  <2> QED BY <2>1, <2>2, <2>3
<1> QED BY <1>1, <1>2, Invariance, PTL DEF Spec

=============================================================================
