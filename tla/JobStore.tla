------------------------------ MODULE JobStore ------------------------------
(***************************************************************************)
(* The job table of src/src/novafabric/jobs/store.py: one row per job in   *)
(* one SQLite file that every server process and runner shares. Each       *)
(* mutation is one guarded transaction, so each is one action here.        *)
(*                                                                         *)
(* A job stands for the rank of its created_at: created_at is read before  *)
(* the row is inserted, so rows may arrive in any order. Wall-clock time   *)
(* is reduced to what the statements compare: a lease is live until        *)
(* lease_expires_at, and lapsed after it.                                  *)
(***************************************************************************)
EXTENDS Integers

CONSTANTS
  Job,         \* jobs, numbered by created_at
  Worker,      \* worker ids
  NoWorker,    \* worker_id is NULL
  MaxAttempts  \* max_attempts of every job

ASSUME JobAssumption ==
  /\ Job \subseteq Nat
  /\ NoWorker \notin Worker
  /\ MaxAttempts \in Nat \ {0}

VARIABLES
  state,     \* absent, queued, running, succeeded, failed, cancelled
  attempt,   \* how many times the job was claimed
  worker,    \* worker_id
  lease,     \* lease_expires_at: none, live, lapsed
  canceled   \* cancel_requested

storeVars == <<state, attempt, worker, lease, canceled>>

StoreInit ==
  /\ state = [j \in Job |-> "absent"]
  /\ attempt = [j \in Job |-> 0]
  /\ worker = [j \in Job |-> NoWorker]
  /\ lease = [j \in Job |-> "none"]
  /\ canceled = [j \in Job |-> FALSE]

\* A worker holds a job: the WHERE clause of heartbeat, finish and fail.
\* Mutant: the guard without the worker id.
HoldsUnguarded(j, w) == state[j] = "running"
Holds(j, w) == state[j] = "running" /\ worker[j] = w

Queued == {j \in Job : state[j] = "queued"}
\* Mutant: expiry that handles only the jobs it can requeue.
ExpiredRetriable == {j \in Job : state[j] = "running" /\ lease[j] = "lapsed" /\ attempt[j] < MaxAttempts}
Expired == {j \in Job : state[j] = "running" /\ lease[j] = "lapsed"}

Enqueue(j) ==
  /\ state[j] = "absent"
  /\ state' = [state EXCEPT ![j] = "queued"]
  /\ UNCHANGED <<attempt, worker, lease, canceled>>

\* Mutant: a claim that is not conditional on the row being queued.
ClaimUnguarded(j, w) ==
  /\ state[j] \notin {"absent", "running"}
  /\ attempt[j] < MaxAttempts
  /\ state' = [state EXCEPT ![j] = "running"]
  /\ attempt' = [attempt EXCEPT ![j] = @ + 1]
  /\ worker' = [worker EXCEPT ![j] = w]
  /\ lease' = [lease EXCEPT ![j] = "live"]
  /\ UNCHANGED canceled

\* claim_job, and claim once the subquery has chosen the job.
Claim(j, w) ==
  /\ state[j] = "queued"
  /\ state' = [state EXCEPT ![j] = "running"]
  /\ attempt' = [attempt EXCEPT ![j] = @ + 1]
  /\ worker' = [worker EXCEPT ![j] = w]
  /\ lease' = [lease EXCEPT ![j] = "live"]
  /\ UNCHANGED canceled

\* claim: the oldest queued job.
ClaimOldest(j, w) == (\A i \in Queued : j <= i) /\ Claim(j, w)

Heartbeat(j, w) ==
  /\ Holds(j, w)
  /\ lease' = [lease EXCEPT ![j] = "live"]
  /\ UNCHANGED <<state, attempt, worker, canceled>>

\* _terminal, for finish (succeeded) and fail (failed), when the guard matches.
Terminal(j, w, outcome) ==
  /\ Holds(j, w)
  /\ state' = [state EXCEPT ![j] = outcome]
  /\ lease' = [lease EXCEPT ![j] = "none"]
  /\ UNCHANGED <<attempt, worker, canceled>>

\* Mutant: cancel without its state guard. cancel's WHERE clause.
CancelableAlways(j) == state[j] # "absent"
Cancelable(j) == state[j] \in {"queued", "running"}

Cancel(j) ==
  /\ Cancelable(j)
  /\ state' = [state EXCEPT ![j] = "cancelled"]
  /\ canceled' = [canceled EXCEPT ![j] = TRUE]
  /\ lease' = [lease EXCEPT ![j] = "none"]
  /\ UNCHANGED <<attempt, worker>>

\* requeue_failed's WHERE clause.
CanRequeue(j) == state[j] = "failed" /\ attempt[j] < MaxAttempts /\ ~canceled[j]

Requeue(j) ==
  /\ CanRequeue(j)
  /\ state' = [state EXCEPT ![j] = "queued"]
  /\ worker' = [worker EXCEPT ![j] = NoWorker]
  /\ UNCHANGED <<attempt, lease, canceled>>

\* What expire_leases makes of an expired job.
Recovered(j) == IF attempt[j] < MaxAttempts THEN "queued" ELSE "failed"

\* expire_leases: both updates, in one transaction.
ExpireLeases ==
  /\ state' = [j \in Job |-> IF j \in Expired THEN Recovered(j) ELSE state[j]]
  /\ worker' = [j \in Job |-> IF j \in Expired THEN NoWorker ELSE worker[j]]
  /\ lease' = [j \in Job |-> IF j \in Expired THEN "none" ELSE lease[j]]
  /\ UNCHANGED <<attempt, canceled>>

\* The clock passes lease_expires_at.
Lapse(j) ==
  /\ lease[j] = "live"
  /\ lease' = [lease EXCEPT ![j] = "lapsed"]
  /\ UNCHANGED <<state, attempt, worker, canceled>>

WorkerNext(j, w) ==
  Claim(j, w) \/ Heartbeat(j, w)
    \/ \E outcome \in {"succeeded", "failed"} : Terminal(j, w, outcome)

StoreNext ==
  \/ \E j \in Job : Enqueue(j) \/ Cancel(j) \/ Requeue(j) \/ Lapse(j)
  \/ \E j \in Job, w \in Worker : WorkerNext(j, w)
  \/ ExpireLeases

\* What the table promises to any set of clients that use it through its methods.
StoreSpec == StoreInit /\ [][StoreNext]_storeVars

-----------------------------------------------------------------------------
StoreTypeOK ==
  /\ state \in [Job -> {"absent", "queued", "running", "succeeded", "failed", "cancelled"}]
  /\ attempt \in [Job -> 0 .. MaxAttempts]
  /\ worker \in [Job -> Worker \cup {NoWorker}]
  /\ lease \in [Job -> {"none", "live", "lapsed"}]
  /\ canceled \in [Job -> BOOLEAN]

\* Retries are bounded whichever way a job comes back to the queue (lease expiry or
\* requeue_failed): a queued job always has an attempt left, so that the claim, which
\* checks no bound of its own, cannot exceed max_attempts (store.py:146,168,251,267).
AttemptsBounded ==
  \A j \in Job : state[j] \in {"absent", "queued"} => attempt[j] < MaxAttempts

\* A running job always has a holder and a lease, so that expire_leases can reach it
\* and its worker can end it; no other job has a lease (store.py:147,204,234,264).
RecoverableWhileRunning ==
  \A j \in Job :
    /\ state[j] = "running" => worker[j] \in Worker /\ attempt[j] > 0
    /\ state[j] = "running" <=> lease[j] # "none"

\* The column cancel_requested is set with the state and never apart from it.
CancelRecorded == \A j \in Job : canceled[j] <=> state[j] = "cancelled"

StoreInv == StoreTypeOK /\ AttemptsBounded /\ RecoverableWhileRunning /\ CancelRecorded

Settled == {"succeeded", "cancelled"}

\* A result or a cancellation is final: no late worker, expiry, retry or second
\* cancellation moves the job again; and a failed job moves only to the queue, with
\* an attempt left (store.py:15-17, "not a resurrection").
SettledForever ==
  [][\A j \in Job :
       /\ state[j] \in Settled => state'[j] = state[j] /\ attempt'[j] = attempt[j]
       /\ state[j] = "failed" /\ state'[j] # "failed" =>
            state'[j] = "queued" /\ attempt[j] < MaxAttempts]_storeVars
=============================================================================
