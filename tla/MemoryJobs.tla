----------------------------- MODULE MemoryJobs -----------------------------
(***************************************************************************)
(* The job table behind Codex memories (codex-rs/state/src/runtime/        *)
(* memories.rs) and the sessions that work from it (codex-rs/core/src/     *)
(* memories/phase1.rs, phase2.rs).  Every session that starts scans for    *)
(* threads whose memory is out of date, claims a stage-1 job for some of   *)
(* them, extracts, and stores the output; then it claims the one global    *)
(* phase-2 job, loads the stored outputs, and consolidates them.  Sessions *)
(* are processes of their own that share a SQLite file: a claim is a row   *)
(* with an ownership token and a lease, a session may stop at any point,   *)
(* and one that wakes after its lease has run out reports its result all   *)
(* the same.                                                               *)
(*                                                                         *)
(* A transaction is one action.  The clock is read before the transaction  *)
(* gets the database lock, so a claim may use a time up to ClockLag old.   *)
(* A claim is named by its token, a fresh uuid, and the token carries what *)
(* the claiming session remembers of it.  A database NULL is Null.         *)
(***************************************************************************)
EXTENDS Integers, FiniteSets

CONSTANTS
  Threads,       \* threads of the state database
  Tokens,        \* ownership tokens; one per attempt to claim a job
  NoToken,       \* a token column that is NULL
  LeaseSeconds,  \* JOB_LEASE_SECONDS of both phases
  RetryDelay,    \* JOB_RETRY_DELAY_SECONDS of both phases
  MaxRunning,    \* max_rollouts_per_startup: cap on running stage-1 jobs
  DefaultRetry,  \* DEFAULT_RETRY_REMAINING
  ClockLag,      \* longest wait for the database lock (busy_timeout)
  MaxTime,       \* bound of the clock
  MaxWatermark   \* bound of the global input watermark

ASSUME MemoryAssumption ==
  /\ IsFiniteSet(Threads)
  /\ NoToken \notin Tokens
  /\ LeaseSeconds \in Nat
  /\ RetryDelay \in Nat
  /\ MaxRunning \in Nat
  /\ DefaultRetry \in Nat \ {0}
  /\ ClockLag \in Nat
  /\ MaxTime \in Nat
  /\ MaxWatermark \in Nat

VARIABLES
  now,        \* wall clock, in seconds
  mode,       \* threads.memory_mode
  jStatus,    \* stage-1 row of a thread: status, or "absent"
  jToken,     \* ... its ownership_token
  jLease,     \* ... lease_until
  jRetryAt,   \* ... retry_at
  jRetries,   \* ... retry_remaining
  jInput,     \* ... input_watermark
  jSuccess,   \* ... last_success_watermark
  oSource,    \* stage1_outputs.source_updated_at, Null when there is no row
  oSelected,  \* ... selected_for_phase2_source_updated_at
  gStatus,    \* the singleton phase-2 row, same columns
  gToken,
  gLease,
  gRetryAt,
  gRetries,
  gInput,
  gSuccess,
  step,       \* how far the holder of a token has come
  wThread,    \* the thread of its stage-1 claim
  wSource,    \* source_updated_at it scanned
  wInputs,    \* phase 2: the outputs it loaded
  wMark,      \* phase 2: the watermark it will report
  baseline    \* history: the outputs the last successful phase 2 consolidated

jobs == <<jStatus, jToken, jLease, jRetryAt, jRetries, jInput, jSuccess>>
outputs == <<oSource, oSelected>>
global == <<gStatus, gToken, gLease, gRetryAt, gRetries, gInput, gSuccess>>
work == <<step, wThread, wSource, wInputs, wMark>>
vars == <<now, mode, jobs, outputs, global, work, baseline>>

Null == -1

Init ==
  /\ now = 0
  /\ mode = [t \in Threads |-> "enabled"]
  /\ jStatus = [t \in Threads |-> "absent"]
  /\ jToken = [t \in Threads |-> NoToken]
  /\ jLease = [t \in Threads |-> Null]
  /\ jRetryAt = [t \in Threads |-> Null]
  /\ jRetries = [t \in Threads |-> 0]
  /\ jInput = [t \in Threads |-> Null]
  /\ jSuccess = [t \in Threads |-> Null]
  /\ oSource = [t \in Threads |-> Null]
  /\ oSelected = [t \in Threads |-> Null]
  /\ gStatus = "absent"
  /\ gToken = NoToken
  /\ gLease = Null
  /\ gRetryAt = Null
  /\ gRetries = 0
  /\ gInput = 0
  /\ gSuccess = 0
  /\ step = [k \in Tokens |-> "fresh"]
  /\ wThread = [k \in Tokens |-> Null]
  /\ wSource = [k \in Tokens |-> Null]
  /\ wInputs = [k \in Tokens |-> [t \in Threads |-> Null]]
  /\ wMark = [k \in Tokens |-> Null]
  /\ baseline = [t \in Threads |-> Null]

-----------------------------------------------------------------------------
(* Threads and time *)

Tick ==
  /\ now < MaxTime
  /\ now' = now + 1
  /\ UNCHANGED <<mode, jobs, outputs, global, work, baseline>>

set_thread_memory_mode(t, m) ==
  /\ m \in {"enabled", "disabled"}
  /\ mode' = [mode EXCEPT ![t] = m]
  /\ UNCHANGED <<now, jobs, outputs, global, work, baseline>>

\* The times a transaction that gets the lock now may have read.
ReadClock == {c \in 0 .. now : now <= c + ClockLag}

-----------------------------------------------------------------------------
(* The global row *)

\* A mutant: a job that is already running is left as it is.
enqueue_global_consolidation_unless_running(w) ==
  /\ gInput < MaxWatermark
  /\ gStatus' = IF gStatus = "running" THEN "running" ELSE "pending"
  /\ gRetryAt' = IF gStatus = "running" THEN gRetryAt ELSE Null
  /\ gRetries' = IF gRetries < DefaultRetry THEN DefaultRetry ELSE gRetries
  /\ gInput' = IF gStatus = "running" THEN gInput ELSE IF w > gInput THEN w ELSE gInput + 1
  /\ UNCHANGED <<gToken, gLease, gSuccess>>

\* What an upsert of the global row by watermark w does: a running job keeps
\* running, any other becomes pending and may be claimed at once, and the
\* watermark moves on even when w is no newer.
enqueue_global_consolidation(w) ==
  /\ gInput < MaxWatermark
  /\ gStatus' = IF gStatus = "running" THEN "running" ELSE "pending"
  /\ gRetryAt' = IF gStatus = "running" THEN gRetryAt ELSE Null
  /\ gRetries' = IF gRetries < DefaultRetry THEN DefaultRetry ELSE gRetries
  /\ gInput' = IF gStatus = "absent" \/ w > gInput THEN w ELSE gInput + 1
  /\ UNCHANGED <<gToken, gLease, gSuccess>>

mark_thread_memory_mode_polluted(t) ==
  /\ mode[t] # "polluted"
  /\ mode' = [mode EXCEPT ![t] = "polluted"]
  /\ \/ oSelected[t] # Null /\ enqueue_global_consolidation(now)
     \/ oSelected[t] = Null /\ UNCHANGED global
  /\ UNCHANGED <<now, jobs, outputs, work, baseline>>

-----------------------------------------------------------------------------
(* Stage 1 *)

\* Both the stored output and the last success of t are older than s.
OutOfDate(t, s) == oSource[t] < s /\ jSuccess[t] < s

\* A starting session lists the enabled threads that are out of date at their
\* updated_at s.  Turns move that time on and a backfill may set an older one,
\* so s is any time up to now; nothing else reads it.  The age window, the scan
\* limit and the source filter only leave threads out.
scan(k, t, s) ==
  /\ step[k] = "fresh"
  /\ mode[t] = "enabled"
  /\ OutOfDate(t, s)
  /\ step' = [step EXCEPT ![k] = "scanned"]
  /\ wThread' = [wThread EXCEPT ![k] = t]
  /\ wSource' = [wSource EXCEPT ![k] = s]
  /\ UNCHANGED <<now, mode, jobs, outputs, global, wInputs, wMark, baseline>>

\* Threads whose stage-1 job runs under a lease that c has not reached.
Leased(c) == {t \in Threads : jStatus[t] = "running" /\ jLease[t] > c}

\* A mutant: the back-off is honoured and the count of retries is not.
MayRetry_without_count(t, s, c) == s > jInput[t] \/ jRetryAt[t] <= c

\* The WHERE of the upsert: s is newer than the input of the stored row, or
\* the row may be retried.
MayRetry(t, s, c) ==
  \/ s > jInput[t]
  \/ jRetryAt[t] <= c /\ jRetries[t] > 0

\* The claim goes through: insert a running row, or take over one that does
\* not run under a lease.  A newer source brings fresh retries.
claimed(k, t, c) ==
  /\ jStatus' = [jStatus EXCEPT ![t] = "running"]
  /\ jToken' = [jToken EXCEPT ![t] = k]
  /\ jLease' = [jLease EXCEPT ![t] = c + LeaseSeconds]
  /\ jRetryAt' = [jRetryAt EXCEPT ![t] = Null]
  /\ jRetries' = [jRetries EXCEPT ![t] =
                    IF wSource[k] > jInput[t] THEN DefaultRetry ELSE @]
  /\ jInput' = [jInput EXCEPT ![t] = wSource[k]]
  /\ step' = [step EXCEPT ![k] = "extracting"]
  /\ UNCHANGED <<jSuccess, wThread, wSource, wInputs, wMark>>

over(k) ==
  /\ step' = [step EXCEPT ![k] = "over"]
  /\ wThread' = [wThread EXCEPT ![k] = Null]
  /\ wSource' = [wSource EXCEPT ![k] = Null]
  /\ wInputs' = [wInputs EXCEPT ![k] = [t \in Threads |-> Null]]
  /\ wMark' = [wMark EXCEPT ![k] = Null]

\* A mutant: the cap is checked when a row is inserted and not on a takeover.
MayClaim_uncapped_takeover(k, t, c) ==
  /\ OutOfDate(t, wSource[k])
  /\ jStatus[t] = "absent" => Cardinality(Leased(c)) < MaxRunning
  /\ t \notin Leased(c)
  /\ MayRetry(t, wSource[k], c)

MayClaim(k, t, c) ==
  /\ OutOfDate(t, wSource[k])
  /\ Cardinality(Leased(c)) < MaxRunning
  /\ t \notin Leased(c)
  /\ MayRetry(t, wSource[k], c)

try_claim_stage1_job(k) ==
  /\ step[k] = "scanned"
  /\ \E c \in ReadClock :
       \/ MayClaim(k, wThread[k], c) /\ claimed(k, wThread[k], c)
       \/ ~MayClaim(k, wThread[k], c) /\ over(k) /\ UNCHANGED jobs
  /\ UNCHANGED <<now, mode, outputs, global, baseline>>

\* A mutant: any running row of the thread counts as the session's own.
Owns_by_status(k, t) == jStatus[t] = "running"

\* The row of t is still the running row that token k claimed.
Owns(k, t) == jStatus[t] = "running" /\ jToken[t] = k

finish_row(t) ==
  /\ jStatus' = [jStatus EXCEPT ![t] = "done"]
  /\ jLease' = [jLease EXCEPT ![t] = Null]
  /\ jSuccess' = [jSuccess EXCEPT ![t] = jInput[t]]
  /\ UNCHANGED <<jToken, jRetryAt, jRetries, jInput>>

mark_stage1_job_succeeded(k, t) ==
  /\ step[k] = "extracting"
  /\ t = wThread[k]
  /\ \/ ~Owns(k, t) /\ UNCHANGED <<jobs, outputs, global>>
     \/ /\ Owns(k, t)
        /\ finish_row(t)
        /\ oSource' = [oSource EXCEPT ![t] = IF wSource[k] >= @ THEN wSource[k] ELSE @]
        /\ enqueue_global_consolidation(wSource[k])
        /\ UNCHANGED oSelected
  /\ over(k)
  /\ UNCHANGED <<now, mode, baseline>>

mark_stage1_job_succeeded_no_output(k, t) ==
  /\ step[k] = "extracting"
  /\ t = wThread[k]
  /\ \/ ~Owns(k, t) /\ UNCHANGED <<jobs, outputs, global>>
     \/ /\ Owns(k, t)
        /\ finish_row(t)
        /\ oSource' = [oSource EXCEPT ![t] = Null]
        /\ oSelected' = [oSelected EXCEPT ![t] = Null]
        /\ \/ oSource[t] # Null /\ enqueue_global_consolidation(jInput[t])
           \/ oSource[t] = Null /\ UNCHANGED global
  /\ over(k)
  /\ UNCHANGED <<now, mode, baseline>>

mark_stage1_job_failed(k, t) ==
  /\ step[k] = "extracting"
  /\ t = wThread[k]
  /\ \/ ~Owns(k, t) /\ UNCHANGED jobs
     \/ /\ Owns(k, t)
        /\ jStatus' = [jStatus EXCEPT ![t] = "error"]
        /\ jLease' = [jLease EXCEPT ![t] = Null]
        /\ jRetryAt' = [jRetryAt EXCEPT ![t] = now + RetryDelay]
        /\ jRetries' = [jRetries EXCEPT ![t] = @ - 1]
        /\ UNCHANGED <<jToken, jInput, jSuccess>>
  /\ over(k)
  /\ UNCHANGED <<now, mode, outputs, global, baseline>>

\* Retention deletes outputs that are not in the phase-2 baseline.  Which of
\* them are old enough is left open.
prune_stage1_outputs_for_retention(S) ==
  /\ S # {}
  /\ \A t \in S : oSource[t] # Null /\ oSelected[t] = Null
  /\ oSource' = [t \in Threads |-> IF t \in S THEN Null ELSE oSource[t]]
  /\ UNCHANGED <<now, mode, jobs, oSelected, global, work, baseline>>

-----------------------------------------------------------------------------
(* Phase 2 *)

GlobalLeased(c) == gStatus = "running" /\ gLease > c

\* Whatever the watermarks say, the global job may be claimed unless it backs
\* off or runs under a lease; a missing row is inserted.
try_claim_global_phase2_job(k) ==
  /\ step[k] = "fresh"
  /\ \E c \in ReadClock :
       /\ gRetryAt <= c
       /\ ~GlobalLeased(c)
       /\ gLease' = c + LeaseSeconds
  /\ gStatus' = "running"
  /\ gToken' = k
  /\ gRetryAt' = Null
  /\ gRetries' = IF gStatus = "absent" THEN DefaultRetry ELSE gRetries
  /\ step' = [step EXCEPT ![k] = "holding"]
  /\ wMark' = [wMark EXCEPT ![k] = gInput]
  /\ UNCHANGED <<now, mode, jobs, outputs, gInput, gSuccess, wThread, wSource,
                 wInputs, baseline>>

GlobalOwns(k) == gStatus = "running" /\ gToken = k

\* Load the enabled outputs (the retention window and the count limit leave
\* some out) and take the newest watermark among them and the claim's.
get_phase2_input_selection(k) ==
  /\ step[k] = "holding"
  /\ \E S \in SUBSET {t \in Threads : oSource[t] # Null /\ mode[t] = "enabled"} :
       /\ wInputs' = [wInputs EXCEPT ![k] =
                        [t \in Threads |-> IF t \in S THEN oSource[t] ELSE Null]]
       /\ \E m \in {wMark[k]} \cup {oSource[t] : t \in S} :
            /\ m >= wMark[k] /\ \A t \in S : m >= oSource[t]
            /\ wMark' = [wMark EXCEPT ![k] = m]
  /\ step' = [step EXCEPT ![k] = "consolidating"]
  /\ UNCHANGED <<now, mode, jobs, outputs, global, wThread, wSource, baseline>>

\* The heartbeat of the agent loop.  One that finds the lock lost ends the
\* loop in an error, whose handling finds nothing to update.
heartbeat_global_phase2_job(k) ==
  /\ step[k] = "consolidating"
  /\ \/ GlobalOwns(k) /\ gLease' = now + LeaseSeconds /\ UNCHANGED work
     \/ ~GlobalOwns(k) /\ over(k) /\ UNCHANGED gLease
  /\ UNCHANGED <<now, mode, jobs, outputs, gStatus, gToken, gRetryAt, gRetries,
                 gInput, gSuccess, baseline>>

\* The agent completed: confirm the lock before the workspace is committed.
confirm_ownership(k) ==
  /\ step[k] = "consolidating"
  /\ \/ /\ GlobalOwns(k)
        /\ gLease' = now + LeaseSeconds
        /\ step' = [step EXCEPT ![k] = "confirmed"]
        /\ UNCHANGED <<wThread, wSource, wInputs, wMark>>
     \/ ~GlobalOwns(k) /\ over(k) /\ UNCHANGED gLease
  /\ UNCHANGED <<now, mode, jobs, outputs, gStatus, gToken, gRetryAt, gRetries,
                 gInput, gSuccess, baseline>>

\* A mutant: the selection of earlier runs is not cleared first.
select_snapshots_keeping_old(k) ==
  oSelected' = [t \in Threads |->
                  IF oSource[t] = wInputs[k][t] THEN wInputs[k][t] ELSE oSelected[t]]

\* Exactly the loaded snapshots that are still stored become the selection.
select_snapshots(k) ==
  oSelected' = [t \in Threads |->
                  IF oSource[t] = wInputs[k][t] THEN wInputs[k][t] ELSE Null]

\* A workspace without changes succeeds at once, a changed one after the agent.
mark_global_phase2_job_succeeded(k) ==
  /\ step[k] \in {"consolidating", "confirmed"}
  /\ \/ ~GlobalOwns(k) /\ UNCHANGED <<outputs, global, baseline>>
     \/ /\ GlobalOwns(k)
        /\ gStatus' = "done"
        /\ gLease' = Null
        /\ gSuccess' = IF wMark[k] > gSuccess THEN wMark[k] ELSE gSuccess
        /\ select_snapshots(k)
        /\ baseline' = wInputs[k]
        /\ UNCHANGED <<gToken, gRetryAt, gRetries, gInput, oSource>>
  /\ over(k)
  /\ UNCHANGED <<now, mode, jobs>>

\* job::failed: the owned row, or else a running row nobody owns.
mark_global_phase2_job_failed(k) ==
  /\ step[k] \in {"holding", "consolidating", "confirmed"}
  /\ LET unowned == gStatus = "running" /\ gToken \in {k, NoToken}
     IN  \/ ~unowned /\ UNCHANGED global
         \/ /\ unowned
            /\ gStatus' = "error"
            /\ gLease' = Null
            /\ gRetryAt' = now + RetryDelay
            /\ gRetries' = IF gRetries > 0 THEN gRetries - 1 ELSE 0
            /\ UNCHANGED <<gToken, gInput, gSuccess>>
  /\ over(k)
  /\ UNCHANGED <<now, mode, jobs, outputs, baseline>>

-----------------------------------------------------------------------------
(* Faults and the user *)

\* The session that holds k stops, or its update fails in the database: its
\* row stays as it is until the lease runs out.
Stop(k) ==
  /\ step[k] \notin {"fresh", "over"}
  /\ over(k)
  /\ UNCHANGED <<now, mode, jobs, outputs, global, baseline>>

\* The user resets memories: outputs and jobs of both kinds go together, and
\* the memory directory with them.
clear_memory_data ==
  /\ jStatus' = [t \in Threads |-> "absent"]
  /\ jToken' = [t \in Threads |-> NoToken]
  /\ jLease' = [t \in Threads |-> Null]
  /\ jRetryAt' = [t \in Threads |-> Null]
  /\ jRetries' = [t \in Threads |-> 0]
  /\ jInput' = [t \in Threads |-> Null]
  /\ jSuccess' = [t \in Threads |-> Null]
  /\ oSource' = [t \in Threads |-> Null]
  /\ oSelected' = [t \in Threads |-> Null]
  /\ gStatus' = "absent"
  /\ gToken' = NoToken
  /\ gLease' = Null
  /\ gRetryAt' = Null
  /\ gRetries' = 0
  /\ gInput' = 0
  /\ gSuccess' = 0
  /\ baseline' = [t \in Threads |-> Null]
  /\ UNCHANGED <<now, mode, work>>

Next ==
  \/ Tick
  \/ \E t \in Threads : \/ \E m \in {"enabled", "disabled"} : set_thread_memory_mode(t, m)
                        \/ mark_thread_memory_mode_polluted(t)
  \/ \E k \in Tokens, t \in Threads : \/ \E s \in 0 .. now : scan(k, t, s)
                                      \/ mark_stage1_job_succeeded(k, t)
                                      \/ mark_stage1_job_succeeded_no_output(k, t)
                                      \/ mark_stage1_job_failed(k, t)
  \/ \E k \in Tokens : \/ try_claim_stage1_job(k)
                       \/ try_claim_global_phase2_job(k)
                       \/ get_phase2_input_selection(k)
                       \/ heartbeat_global_phase2_job(k)
                       \/ confirm_ownership(k)
                       \/ mark_global_phase2_job_succeeded(k)
                       \/ mark_global_phase2_job_failed(k)
                       \/ Stop(k)
  \/ \E S \in SUBSET Threads : prune_stage1_outputs_for_retention(S)
  \/ clear_memory_data

Spec == Init /\ [][Next]_vars

-----------------------------------------------------------------------------
(* Properties *)

Times == 0 .. (MaxTime + LeaseSeconds + RetryDelay)
Marks == 0 .. (MaxWatermark + MaxTime)
OrNull(S) == S \cup {Null}

\* The columns of the two kinds of row and what a session remembers.  In
\* particular the retries of a stage-1 row, which mark_stage1_job_failed
\* decrements without a floor, never go below zero.
TypeOK ==
  /\ now \in 0 .. MaxTime
  /\ mode \in [Threads -> {"enabled", "disabled", "polluted"}]
  /\ jStatus \in [Threads -> {"absent", "running", "done", "error"}]
  /\ jToken \in [Threads -> Tokens \cup {NoToken}]
  /\ jLease \in [Threads -> OrNull(Times)]
  /\ jRetryAt \in [Threads -> OrNull(Times)]
  /\ jRetries \in [Threads -> 0 .. DefaultRetry]
  /\ jInput \in [Threads -> OrNull(0 .. MaxTime)]
  /\ jSuccess \in [Threads -> OrNull(0 .. MaxTime)]
  /\ oSource \in [Threads -> OrNull(0 .. MaxTime)]
  /\ oSelected \in [Threads -> OrNull(0 .. MaxTime)]
  /\ gStatus \in {"absent", "pending", "running", "done", "error"}
  /\ gToken \in Tokens \cup {NoToken}
  /\ gLease \in OrNull(Times)
  /\ gRetryAt \in OrNull(Times)
  /\ gRetries \in 0 .. DefaultRetry
  /\ gInput \in Marks
  /\ gSuccess \in Marks
  /\ step \in [Tokens -> {"fresh", "scanned", "extracting", "holding",
                           "consolidating", "confirmed", "over"}]
  /\ wThread \in [Tokens -> OrNull(Threads)]
  /\ wSource \in [Tokens -> OrNull(0 .. MaxTime)]
  /\ wInputs \in [Tokens -> [Threads -> OrNull(0 .. MaxTime)]]
  /\ wMark \in [Tokens -> OrNull(Marks)]
  /\ baseline \in [Threads -> OrNull(0 .. MaxTime)]

\* However many sessions start at once, whatever old clock their claims read
\* and whichever stop, no more than MaxRunning stage-1 jobs run under a lease
\* (the two counts in the upsert of try_claim_stage1_job).
ClaimsWithinCap == Cardinality(Leased(now)) <= MaxRunning

\* A stored memory is the one its job row vouches for: the row exists and its
\* last success is the very source the memory was extracted from.  A late
\* result of a lost claim, a takeover, or a reset between claim and result
\* must not leave a memory that the up-to-date checks of scan and claim then
\* take for newer (or older) than it is.
OutputHasItsJob ==
  \A t \in Threads :
    oSource[t] # Null => jStatus[t] # "absent" /\ jSuccess[t] = oSource[t]

\* When a memory that the last consolidation used has been replaced by a newer
\* one, the global job's input watermark is ahead of its last success, even
\* when the replacement was stored while that consolidation was running.  The
\* watermark is the database's record of it; whether a claimed consolidation
\* has work to do is decided by the git workspace, which is not modelled.
ReplacedMemoryIsQueued ==
  \A t \in Threads :
    baseline[t] # Null /\ oSource[t] \notin {Null, baseline[t]} => gInput > gSuccess

\* selected_for_phase2 says what was consolidated: a selected memory is in the
\* last baseline with the snapshot recorded for it, and a memory that is still
\* the one consolidated is selected, so retention keeps it.
SelectionTracksBaseline ==
  \A t \in Threads :
    /\ oSelected[t] # Null => oSource[t] # Null /\ oSelected[t] = baseline[t]
    /\ oSource[t] = baseline[t] => oSelected[t] = baseline[t]
-----------------------------------------------------------------------------
(* What the properties rest on, for the proofs in MemoryJobsProofs *)

\* A session remembers the thread and the source of its claim until it is over.
ClaimsRemembered ==
  \A k \in Tokens :
    step[k] \in {"scanned", "extracting"} => wThread[k] \in Threads /\ wSource[k] \in Nat

\* A running row has retries left and an input newer than its last success,
\* and the session that owns it extracts from that very input.
RowsConsistent ==
  \A t \in Threads :
    /\ jSuccess[t] <= jInput[t]
    /\ jStatus[t] = "running" => jRetries[t] > 0 /\ jSuccess[t] < jInput[t]
    /\ \A k \in Tokens :
         Owns(k, t) /\ step[k] = "extracting" /\ wThread[k] = t => wSource[k] = jInput[t]

\* Before the global row exists nothing was ever stored or consolidated;
\* afterwards its input watermark covers the last success and every output,
\* and a consolidated source is no newer than the last success of its thread.
WatermarksCover ==
  /\ gSuccess <= gInput
  /\ \A t \in Threads : oSource[t] <= gInput /\ baseline[t] <= jSuccess[t]
  /\ gStatus = "absent" => /\ gInput = 0
                           /\ \A t \in Threads : oSource[t] = Null /\ baseline[t] = Null

Consolidating(k) == GlobalOwns(k) /\ step[k] \in {"consolidating", "confirmed"}

\* What the running consolidation has loaded is old enough to become the
\* baseline, and a loaded memory that was replaced meanwhile has moved the input
\* watermark past the one the consolidation will report.
LoadedIsCovered ==
  \A k \in Tokens :
    /\ GlobalOwns(k) /\ step[k] \in {"holding", "consolidating", "confirmed"}
         => wMark[k] <= gInput
    /\ Consolidating(k) =>
         \A t \in Threads :
           /\ wInputs[k][t] <= jSuccess[t]
           /\ wInputs[k][t] # Null /\ oSource[t] \notin {Null, wInputs[k][t]}
                => gInput > gSuccess /\ gInput > wMark[k]

\* The inductive invariant: the stored rows and what the sessions at work on
\* them remember agree, whichever of them lost its lease, stopped or was reset.
InductiveInvariant ==
  /\ TypeOK
  /\ ClaimsRemembered
  /\ RowsConsistent
  /\ OutputHasItsJob
  /\ WatermarksCover
  /\ LoadedIsCovered
  /\ SelectionTracksBaseline
  /\ ReplacedMemoryIsQueued
=============================================================================
