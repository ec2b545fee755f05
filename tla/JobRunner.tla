----------------------------- MODULE JobRunner ------------------------------
(***************************************************************************)
(* src/src/novafabric/jobs/runner.py: processes that poll the job table.   *)
(* Each has a poller thread (recover expired leases, heartbeat what is in  *)
(* flight, claim as many jobs as it has free slots) and a thread pool that *)
(* runs the claimed attempts and writes their outcome. A runner has one    *)
(* worker id for its whole life; an attempt is a job and the attempt       *)
(* number its claim returned.                                              *)
(*                                                                         *)
(* Handlers are external: one returns, or raises. A lease may lapse under  *)
(* a live holder (the poller stalls, or waits for the database up to its   *)
(* 30 s busy timeout, which is also the default lease).                    *)
(***************************************************************************)
EXTENDS JobStore, Sequences, FiniteSets

CONSTANTS
  Threads,    \* pool size (workers)
  MaxFaults   \* bound: crashes, stops and database errors

ASSUME RunnerAssumption == Threads \in Nat \ {0} /\ MaxFaults \in Nat

Attempt == Job \X (1 .. MaxAttempts)

VARIABLES
  status,    \* runner: up, stopping, closed (pool shut down), dead
  pc,        \* poller: idle, expired, beat (holds the in-flight lock), claim, out
  beats,     \* in-flight jobs the poller has still to heartbeat
  free,      \* claims the poller may still make in this tick
  inflight,  \* _inflight: job ids
  pool,      \* attempts submitted and not started, in order
  phase,     \* attempt: none, pending, running, raised, failed, leaving, done
  owner,     \* attempt: the runner that claimed it
  wrote,     \* history: the attempt whose terminal write was accepted last; 0 = none
  deposed,   \* history: attempts still alive when their lease was expired
  faults     \* history: crashes, stops and database errors so far

pollVars == <<pc, beats, free>>
slotVars == <<inflight, pool, phase, owner>>
histVars == <<wrote, deposed>>
vars == <<storeVars, status, pollVars, slotVars, histVars, faults>>

Init ==
  /\ StoreInit
  /\ status = [r \in Worker |-> "up"]
  /\ pc = [r \in Worker |-> "idle"]
  /\ beats = [r \in Worker |-> {}]
  /\ free = [r \in Worker |-> 0]
  /\ inflight = [r \in Worker |-> {}]
  /\ pool = [r \in Worker |-> << >>]
  /\ phase = [t \in Attempt |-> "none"]
  /\ owner = [t \in Attempt |-> NoWorker]
  /\ wrote = [j \in Job |-> 0]
  /\ deposed = {}
  /\ faults = 0

Alive(t) == phase[t] \in {"pending", "running", "raised", "failed", "leaving"}
OnThread(r) == {t \in Attempt : owner[t] = r /\ Alive(t) /\ phase[t] # "pending"}
Fault == faults < MaxFaults /\ faults' = faults + 1

-----------------------------------------------------------------------------
(* Clients of the table.                                                    *)

Submit(j) == Enqueue(j) /\ UNCHANGED <<status, pollVars, slotVars, histVars, faults>>

\* cancel() of a settled or failed job changes nothing, also when a retry is under way.
RequestCancel(j) == Cancel(j) /\ UNCHANGED <<status, pollVars, slotVars, histVars, faults>>

LeaseLapses(j) == Lapse(j) /\ UNCHANGED <<status, pollVars, slotVars, histVars, faults>>

-----------------------------------------------------------------------------
(* The poller: _loop and _tick.                                             *)

StartTick(r) ==
  /\ pc[r] = "idle" /\ status[r] = "up"
  /\ ExpireLeases
  /\ pc' = [pc EXCEPT ![r] = "expired"]
  /\ deposed' = deposed \cup {t \in Attempt : t[1] \in Expired /\ t[2] = attempt[t[1]] /\ Alive(t)}
  /\ UNCHANGED <<status, beats, free, slotVars, wrote, faults>>

LockInflight(r) ==
  /\ pc[r] = "expired"
  /\ pc' = [pc EXCEPT ![r] = "beat"]
  /\ beats' = [beats EXCEPT ![r] = inflight[r]]
  /\ UNCHANGED <<storeVars, status, free, slotVars, histVars, faults>>

Beat(r, j) ==
  /\ pc[r] = "beat" /\ j \in beats[r]
  /\ IF Holds(j, r) THEN Heartbeat(j, r) ELSE UNCHANGED storeVars
  /\ beats' = [beats EXCEPT ![r] = @ \ {j}]
  /\ UNCHANGED <<status, pc, free, slotVars, histVars, faults>>

\* The lock is released with the number of free slots taken.
UnlockInflight(r) ==
  /\ pc[r] = "beat" /\ beats[r] = {}
  /\ pc' = [pc EXCEPT ![r] = "claim"]
  /\ free' = [free EXCEPT ![r] = Threads - Cardinality(inflight[r])]
  /\ UNCHANGED <<storeVars, status, beats, slotVars, histVars, faults>>

\* Claim, note the job as in flight, submit. After shutdown the submit raises: the
\* job stays claimed and in flight, and the tick ends.
ClaimNext(r, j) ==
  /\ pc[r] = "claim" /\ free[r] > 0
  /\ ClaimOldest(j, r)
  /\ inflight' = [inflight EXCEPT ![r] = @ \cup {j}]
  /\ LET t == <<j, attempt[j] + 1>>
     IN IF status[r] = "closed"
        THEN /\ pc' = [pc EXCEPT ![r] = "idle"]
             /\ UNCHANGED <<free, pool, phase, owner>>
        ELSE /\ free' = [free EXCEPT ![r] = @ - 1]
             /\ pool' = [pool EXCEPT ![r] = Append(@, t)]
             /\ phase' = [phase EXCEPT ![t] = "pending"]
             /\ owner' = [owner EXCEPT ![t] = r]
             /\ UNCHANGED pc
  /\ UNCHANGED <<status, beats, histVars, faults>>

EndTick(r) ==
  /\ pc[r] = "claim"
  /\ free[r] <= 0 \/ Queued = {}
  /\ pc' = [pc EXCEPT ![r] = "idle"]
  /\ UNCHANGED <<storeVars, status, beats, free, slotVars, histVars, faults>>

\* A database error in any call of the tick: _loop logs it and polls again later.
TickFails(r) ==
  /\ pc[r] \in {"beat", "claim"}
  /\ Fault
  /\ pc' = [pc EXCEPT ![r] = "idle"]
  /\ beats' = [beats EXCEPT ![r] = {}]
  /\ UNCHANGED <<storeVars, status, free, slotVars, histVars>>

LeaveLoop(r) ==
  /\ pc[r] = "idle" /\ status[r] \in {"stopping", "closed"}
  /\ pc' = [pc EXCEPT ![r] = "out"]
  /\ UNCHANGED <<storeVars, status, beats, free, slotVars, histVars, faults>>

-----------------------------------------------------------------------------
(* The pool: _run_one.                                                      *)

SetPhase(t, p) == phase' = [phase EXCEPT ![t] = p]

Start(r) ==
  /\ pool[r] # << >>
  /\ Cardinality(OnThread(r)) < Threads
  /\ SetPhase(Head(pool[r]), "running")
  /\ pool' = [pool EXCEPT ![r] = Tail(@)]
  /\ UNCHANGED <<storeVars, status, pollVars, inflight, owner, histVars, faults>>

\* Mutant: the write goes ahead whoever holds the job.
WriteAlways(t, outcome) ==
  /\ state' = [state EXCEPT ![t[1]] = outcome]
  /\ wrote' = [wrote EXCEPT ![t[1]] = t[2]]
  /\ UNCHANGED <<attempt, worker, lease, canceled>>

\* The terminal write of attempt t: accepted when its runner holds the job, whichever
\* attempt is the current one; StaleWorkerError otherwise.
Write(t, outcome) ==
  IF Holds(t[1], owner[t])
  THEN Terminal(t[1], owner[t], outcome) /\ wrote' = [wrote EXCEPT ![t[1]] = t[2]]
  ELSE UNCHANGED <<storeVars, wrote>>

\* The handler returns (or already_done says it need not run).
Finish(t) ==
  /\ phase[t] = "running"
  /\ Write(t, "succeeded")
  /\ SetPhase(t, "leaving")
  /\ UNCHANGED <<status, pollVars, inflight, pool, owner, deposed, faults>>

\* The handler raises, or finish fails on a database error.
Raise(t) ==
  /\ phase[t] = "running"
  /\ SetPhase(t, "raised")
  /\ UNCHANGED <<storeVars, status, pollVars, inflight, pool, owner, histVars, faults>>

Fail(t) ==
  /\ phase[t] = "raised"
  /\ Write(t, "failed")
  /\ SetPhase(t, IF Holds(t[1], owner[t]) /\ t[2] < MaxAttempts THEN "failed" ELSE "leaving")
  /\ UNCHANGED <<status, pollVars, inflight, pool, owner, deposed, faults>>

\* A second transaction returns the job to the queue.
RequeueFailed(t) ==
  /\ phase[t] = "failed"
  /\ IF CanRequeue(t[1]) THEN Requeue(t[1]) ELSE UNCHANGED storeVars
  /\ SetPhase(t, "leaving")
  /\ UNCHANGED <<status, pollVars, inflight, pool, owner, histVars, faults>>

\* A database error in fail or requeue_failed is swallowed by the future.
RecordingFails(t) ==
  /\ phase[t] \in {"raised", "failed"}
  /\ Fault
  /\ SetPhase(t, "leaving")
  /\ UNCHANGED <<storeVars, status, pollVars, inflight, pool, owner, histVars>>

\* Mutant: the slot is released only when the attempt ended well.
ReleasedNever(r, j) == inflight[r]
\* finally: the job id is discarded, whichever attempt of the job is in flight now.
Released(r, j) == inflight[r] \ {j}

Leave(t) ==
  /\ phase[t] = "leaving"
  /\ pc[owner[t]] # "beat"
  /\ inflight' = [inflight EXCEPT ![owner[t]] = Released(owner[t], t[1])]
  /\ SetPhase(t, "done")
  /\ UNCHANGED <<storeVars, status, pollVars, pool, owner, histVars, faults>>

-----------------------------------------------------------------------------
(* Stop and crash. A restarted process is another runner, with a new id.    *)

RequestStop(r) ==
  /\ status[r] = "up"
  /\ Fault
  /\ status' = [status EXCEPT ![r] = "stopping"]
  /\ UNCHANGED <<storeVars, pollVars, slotVars, histVars>>

\* The poller has left its loop, or the join timed out: pending attempts are cancelled,
\* running ones are waited for, without heartbeats.
ClosePool(r) ==
  /\ status[r] = "stopping"
  /\ status' = [status EXCEPT ![r] = "closed"]
  /\ pool' = [pool EXCEPT ![r] = << >>]
  /\ phase' = [t \in Attempt |-> IF owner[t] = r /\ phase[t] = "pending" THEN "done" ELSE phase[t]]
  /\ UNCHANGED <<storeVars, pollVars, inflight, owner, histVars, faults>>

Crash(r) ==
  /\ status[r] # "dead"
  /\ Fault
  /\ status' = [status EXCEPT ![r] = "dead"]
  /\ pc' = [pc EXCEPT ![r] = "out"]
  /\ beats' = [beats EXCEPT ![r] = {}]
  /\ inflight' = [inflight EXCEPT ![r] = {}]
  /\ pool' = [pool EXCEPT ![r] = << >>]
  /\ phase' = [t \in Attempt |-> IF owner[t] = r /\ Alive(t) THEN "done" ELSE phase[t]]
  /\ UNCHANGED <<storeVars, free, owner, histVars>>

-----------------------------------------------------------------------------
Poll(r) ==
  \/ StartTick(r) \/ LockInflight(r) \/ UnlockInflight(r) \/ EndTick(r) \/ LeaveLoop(r)
  \/ \E j \in Job : Beat(r, j) \/ ClaimNext(r, j)
RunOne(t) == Finish(t) \/ Raise(t) \/ Fail(t) \/ RequeueFailed(t) \/ Leave(t)
Faults ==
  \/ \E r \in Worker : TickFails(r) \/ RequestStop(r) \/ Crash(r)
  \/ \E t \in Attempt : RecordingFails(t)

Next ==
  \/ \E j \in Job : Submit(j) \/ RequestCancel(j) \/ LeaseLapses(j)
  \/ \E r \in Worker : Poll(r) \/ Start(r) \/ ClosePool(r)
  \/ \E t \in Attempt : RunOne(t)
  \/ Faults

Spec == Init /\ [][Next]_vars

\* A lease nobody heartbeats: no poller of its holder has the job in flight.
Unattended(j) == \A r \in Worker : worker[j] = r => pc[r] = "out" \/ j \notin inflight[r]

\* Pollers poll, threads run and handlers end; an unattended lease runs out. A thread
\* that waits for the in-flight lock gets it between two ticks, hence SF for Leave.
FairSpec ==
  /\ Spec
  /\ \A r \in Worker : WF_vars(Poll(r)) /\ WF_vars(Start(r)) /\ WF_vars(ClosePool(r))
  /\ \A t \in Attempt : WF_vars(RunOne(t)) /\ SF_vars(Leave(t))
  /\ \A j \in Job : WF_vars(Unattended(j) /\ LeaseLapses(j))

-----------------------------------------------------------------------------
(* Properties.                                                              *)

TypeOK ==
  /\ StoreTypeOK
  /\ status \in [Worker -> {"up", "stopping", "closed", "dead"}]
  /\ pc \in [Worker -> {"idle", "expired", "beat", "claim", "out"}]
  /\ beats \in [Worker -> SUBSET Job]
  /\ free \in [Worker -> Int]
  /\ inflight \in [Worker -> SUBSET Job]
  /\ pool \in [Worker -> Seq(Attempt)]
  /\ phase \in [Attempt -> {"none", "pending", "running", "raised", "failed", "leaving", "done"}]
  /\ owner \in [Attempt -> Worker \cup {NoWorker}]
  /\ wrote \in [Job -> 0 .. MaxAttempts]
  /\ deposed \subseteq Attempt
  /\ faults \in 0 .. MaxFaults

Executing(t) == phase[t] \in {"running", "raised"}

\* Two handlers of one job are executing at once only if the lease of one of its
\* attempts, the older of the two or an earlier one, was expired under it: neither a
\* retry nor a second runner doubles the work of a job whose lease is kept
\* (store.py:7-9, "the claim is the lock"; runner.py:166-169).
OverlapNeedsExpiry ==
  \A t, u \in Attempt :
    t[1] = u[1] /\ t[2] < u[2] /\ Executing(t) /\ Executing(u) =>
      \E d \in deposed : d[1] = t[1] /\ d[2] <= t[2]

\* A result is recorded by the attempt that holds the job, or else by an earlier attempt
\* of the same runner, after that runner kept working on a job whose lease had expired:
\* no other runner's late result is accepted (store.py:200-210).
LateResultOnlyOfHolder ==
  \A j \in Job :
    state[j] = "succeeded" /\ wrote[j] # attempt[j] =>
      /\ owner[<<j, wrote[j]>>] = worker[j]
      /\ \E d \in deposed : d[1] = j /\ d[2] <= wrote[j]

\* While a runner is up its slots are accounted for: a job in flight has an unfinished
\* attempt (no slot leaks), and an unfinished attempt's job is in flight, hence kept
\* alive by heartbeats, unless the runner also ran another attempt of it, whose end
\* released the slot the two share (runner.py:126-139, 175-178).
SlotsAccounted ==
  \A r \in Worker :
    status[r] = "up" =>
      /\ \A j \in inflight[r] : \E t \in Attempt : t[1] = j /\ owner[t] = r /\ Alive(t)
      /\ \A t \in Attempt :
           owner[t] = r /\ Alive(t) =>
             \/ t[1] \in inflight[r]
             \/ \E u \in Attempt : u[1] = t[1] /\ owner[u] = r /\ phase[u] = "done"

\* Every enqueued job is settled in the end, whatever fails, as long as one runner lives:
\* done, cancelled, or visibly failed (store.py:257-259, "visibly, never silently").
EveryJobSettles ==
  \A j \in Job :
    state[j] = "queued" ~> [](state[j] \in {"succeeded", "failed", "cancelled"})

\* The docstring's claim (runner.py:3-4), "heartbeats while running": the poller of a runner
\* that is up heartbeats every job whose holding attempt is executing, at least as long as
\* no lease was ever expired under a live attempt.
HeartbeatWhileRunning ==
  deposed = {} =>
    \A r \in Worker, t \in Attempt :
      status[r] = "up" /\ owner[t] = r /\ Executing(t) /\ t[2] = attempt[t[1]] /\ Holds(t[1], r) =>
        t[1] \in inflight[r]
=============================================================================
