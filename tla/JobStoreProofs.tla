--------------------------- MODULE JobStoreProofs ---------------------------
(***************************************************************************)
(* Proofs about the job table, for any clients (StoreSpec), and transfer   *)
(* of the results to the runners, every step of which is a step of the     *)
(* table or leaves it alone.                                               *)
(*                                                                         *)
(* Then what is true of the runners' attempts, for any runners, threads,   *)
(* retries and faults: the type invariant, OverlapNeedsExpiry,             *)
(* LateResultOnlyOfHolder and SlotsAccounted of JobRunner. The first two   *)
(* of the three follow from one fact, HolderOrDeposed: an attempt that has *)
(* not written its outcome holds its job, unless a lease was expired under *)
(* it or under an earlier attempt. It is inductive together with where     *)
(* attempts come from (AttemptsAreClaimed, PoolIsPending).                 *)
(*                                                                         *)
(* Last, HeartbeatWhileRunning, which two threads can break: of runners    *)
(* with one thread, and of first attempts.                                 *)
(***************************************************************************)
EXTENDS JobRunner, FiniteSetTheorems, TLAPS

\* The table's invariant holds initially.
LEMMA StoreInitInv ==
  StoreInit => StoreInv
BY JobAssumption
   DEF StoreInit, StoreInv, StoreTypeOK, AttemptsBounded, RecoverableWhileRunning, CancelRecorded

\* Every statement of the table preserves the invariant.
LEMMA StoreNextInv ==
  StoreInv /\ [StoreNext]_storeVars => StoreInv'
<1> SUFFICES ASSUME StoreInv, [StoreNext]_storeVars PROVE StoreInv'
  OBVIOUS
<1> USE JobAssumption
    DEF StoreInv, StoreTypeOK, AttemptsBounded, RecoverableWhileRunning, CancelRecorded
<1>1. ASSUME NEW j \in Job, Enqueue(j) PROVE StoreInv'
  BY <1>1 DEF Enqueue
<1>2. ASSUME NEW j \in Job, Cancel(j) PROVE StoreInv'
  BY <1>2 DEF Cancel, Cancelable
<1>3. ASSUME NEW j \in Job, Requeue(j) PROVE StoreInv'
  BY <1>3 DEF Requeue, CanRequeue
<1>4. ASSUME NEW j \in Job, Lapse(j) PROVE StoreInv'
  BY <1>4 DEF Lapse
<1>5. ASSUME NEW j \in Job, NEW w \in Worker, Claim(j, w) PROVE StoreInv'
  BY <1>5 DEF Claim
<1>6. ASSUME NEW j \in Job, NEW w \in Worker, Heartbeat(j, w) PROVE StoreInv'
  BY <1>6 DEF Heartbeat, Holds
<1>7. ASSUME NEW j \in Job, NEW w \in Worker, NEW o \in {"succeeded", "failed"}, Terminal(j, w, o)
      PROVE StoreInv'
  BY <1>7 DEF Terminal, Holds
<1>8. ASSUME ExpireLeases PROVE StoreInv'
  BY <1>8 DEF ExpireLeases, Expired, Recovered
<1>9. CASE UNCHANGED storeVars
  BY <1>9 DEF storeVars
<1> QED
  BY <1>1, <1>2, <1>3, <1>4, <1>5, <1>6, <1>7, <1>8, <1>9 DEF StoreNext, WorkerNext

\* However clients use the table: its columns keep their types (in particular a job is
\* never claimed more than max_attempts times), a queued job has an attempt left, a
\* running one has a holder and a lease, and cancel_requested follows the state.
THEOREM StoreInvariant ==
  StoreSpec => []StoreInv
BY StoreInitInv, StoreNextInv, PTL DEF StoreSpec

\* A step of the table from a good state never moves a job that is done or cancelled, and
\* moves a failed one only to the queue, with an attempt left.
LEMMA StoreNextSettled ==
  ASSUME StoreInv, [StoreNext]_storeVars, NEW j \in Job
  PROVE  /\ state[j] \in Settled => state'[j] = state[j] /\ attempt'[j] = attempt[j]
         /\ state[j] = "failed" /\ state'[j] # "failed" =>
              state'[j] = "queued" /\ attempt[j] < MaxAttempts
<1> DEFINE Kept == /\ state[j] \in Settled => state'[j] = state[j] /\ attempt'[j] = attempt[j]
                   /\ state[j] = "failed" /\ state'[j] # "failed" =>
                        state'[j] = "queued" /\ attempt[j] < MaxAttempts
<1> USE DEF StoreInv, StoreTypeOK, Settled
<1>1. ASSUME NEW i \in Job, Enqueue(i) \/ Lapse(i) \/ Cancel(i) PROVE Kept
  BY <1>1 DEF Enqueue, Lapse, Cancel, Cancelable
<1>2. ASSUME NEW i \in Job, Requeue(i) PROVE Kept
  BY <1>2 DEF Requeue, CanRequeue
<1>3. ASSUME NEW i \in Job, NEW w \in Worker, WorkerNext(i, w) PROVE Kept
  BY <1>3 DEF WorkerNext, Claim, Heartbeat, Terminal, Holds
<1>4. ASSUME ExpireLeases PROVE Kept
  BY <1>4 DEF ExpireLeases, Expired
<1>5. CASE UNCHANGED storeVars
  BY <1>5 DEF storeVars
<1> QED
  BY <1>1, <1>2, <1>3, <1>4, <1>5 DEF StoreNext

\* A result or a cancellation is final, and a failure is left only by a bounded retry.
THEOREM ResultsAreFinal ==
  StoreSpec => SettledForever
<1>1. StoreInv /\ [StoreNext]_storeVars =>
        [\A j \in Job :
           /\ state[j] \in Settled => state'[j] = state[j] /\ attempt'[j] = attempt[j]
           /\ state[j] = "failed" /\ state'[j] # "failed" =>
                state'[j] = "queued" /\ attempt[j] < MaxAttempts]_storeVars
  BY StoreNextSettled
<1> QED
  BY <1>1, StoreInvariant, PTL DEF StoreSpec, SettledForever

-----------------------------------------------------------------------------
\* Every step of a runner is a step of the table, or leaves the table alone.
LEMMA RunnerStepIsStoreStep ==
  ASSUME \A t \in Attempt : phase[t] # "none" => owner[t] \in Worker, [Next]_vars
  PROVE  [StoreNext]_storeVars
<1>1. CASE \E j \in Job : Submit(j) \/ RequestCancel(j) \/ LeaseLapses(j)
  BY <1>1 DEF Submit, RequestCancel, LeaseLapses, StoreNext
<1>2. ASSUME NEW r \in Worker, Poll(r) PROVE [StoreNext]_storeVars
  <2>1. CASE StartTick(r)
    BY <2>1 DEF StartTick, StoreNext
  <2>2. ASSUME NEW j \in Job, Beat(r, j) PROVE [StoreNext]_storeVars
    BY <2>2 DEF Beat, StoreNext, WorkerNext
  <2>3. ASSUME NEW j \in Job, ClaimNext(r, j) PROVE [StoreNext]_storeVars
    BY <2>3 DEF ClaimNext, ClaimOldest, StoreNext, WorkerNext
  <2>4. CASE LockInflight(r) \/ UnlockInflight(r) \/ EndTick(r) \/ LeaveLoop(r)
    BY <2>4 DEF LockInflight, UnlockInflight, EndTick, LeaveLoop
  <2> QED
    BY <1>2, <2>1, <2>2, <2>3, <2>4 DEF Poll
<1>3. ASSUME NEW r \in Worker, Start(r) \/ ClosePool(r) PROVE [StoreNext]_storeVars
  BY <1>3 DEF Start, ClosePool
<1>4. ASSUME NEW t \in Attempt, RunOne(t) PROVE [StoreNext]_storeVars
  <2> DEFINE j == t[1]
             w == owner[t]
  <2>1. j \in Job
    BY DEF Attempt
  <2>2. phase[t] # "none" => w \in Worker
    OBVIOUS
  <2>3. CASE Finish(t)
    BY <2>1, <2>2, <2>3 DEF Finish, Write, StoreNext, WorkerNext
  <2>4. CASE Fail(t)
    BY <2>1, <2>2, <2>4 DEF Fail, Write, StoreNext, WorkerNext
  <2>5. CASE RequeueFailed(t)
    BY <2>1, <2>5 DEF RequeueFailed, StoreNext
  <2>6. CASE Raise(t) \/ Leave(t)
    BY <2>6 DEF Raise, Leave
  <2> QED
    BY <1>4, <2>3, <2>4, <2>5, <2>6 DEF RunOne
<1>5. CASE Faults
  BY <1>5 DEF Faults, TickFails, RequestStop, Crash, RecordingFails
<1>6. CASE UNCHANGED vars
  BY <1>6 DEF vars
<1> QED
  BY <1>1, <1>2, <1>3, <1>4, <1>5, <1>6 DEF Next

Phases == {"none", "pending", "running", "raised", "failed", "leaving", "done"}

\* What the mapping needs of a runner's bookkeeping: an attempt that was submitted has
\* an owner that is a worker id, and only such attempts are in a pool.
Bookkeeping ==
  /\ phase \in [Attempt -> Phases]
  /\ owner \in [Attempt -> Worker \cup {NoWorker}]
  /\ pool \in [Worker -> Seq(Attempt)]
  /\ \A t \in Attempt : phase[t] # "none" => owner[t] \in Worker
  /\ \A r \in Worker : \A i \in 1 .. Len(pool[r]) : phase[pool[r][i]] # "none"

\* The empty table and idle runners satisfy the invariant.
LEMMA RunnerInit ==
  Init => StoreInv /\ Bookkeeping
<1> SUFFICES ASSUME Init PROVE StoreInv /\ Bookkeeping
  OBVIOUS
<1>1. StoreInv
  BY StoreInitInv DEF Init
<1>2. Bookkeeping
  BY DEF Init, Bookkeeping, Phases
<1> QED
  BY <1>1, <1>2

\* An attempt changes to another phase than none: everything the mapping needs is kept.
LEMMA PhaseChangeKeeps ==
  ASSUME Bookkeeping, NEW t \in Attempt, phase[t] # "none",
         NEW p \in Phases \ {"none"}, SetPhase(t, p), UNCHANGED <<owner, pool>>
  PROVE  Bookkeeping'
BY DEF Bookkeeping, SetPhase

\* Attempts of one runner end at once, and its pool is emptied.
LEMMA PoolDropKeeps ==
  ASSUME Bookkeeping, NEW r \in Worker, UNCHANGED owner,
         pool' = [pool EXCEPT ![r] = << >>],
         phase' \in [Attempt -> Phases],
         \A t \in Attempt : phase'[t] = phase[t] \/ (phase[t] # "none" /\ phase'[t] = "done")
  PROVE  Bookkeeping'
<1> USE DEF Bookkeeping, Phases
<1>1. pool' \in [Worker -> Seq(Attempt)]
  OBVIOUS
<1>2. \A t \in Attempt : phase'[t] # "none" => owner'[t] \in Worker
  OBVIOUS
<1>3. ASSUME NEW s \in Worker, NEW i \in 1 .. Len(pool'[s]) PROVE phase'[pool'[s][i]] # "none"
  <2>1. CASE s = r
    BY <1>3, <2>1
  <2>2. CASE s # r
    BY <1>3, <2>2
  <2> QED
    BY <2>1, <2>2
<1> QED
  BY <1>1, <1>2, <1>3

\* Every step of every runner keeps it.
LEMMA RunnerNextKeeps ==
  ASSUME StoreInv, Bookkeeping, [Next]_vars
  PROVE  Bookkeeping'
<1>1. CASE \E j \in Job : Submit(j) \/ RequestCancel(j) \/ LeaseLapses(j)
  BY <1>1 DEF Submit, RequestCancel, LeaseLapses, slotVars, Bookkeeping
<1>2. ASSUME NEW r \in Worker, Poll(r) PROVE Bookkeeping'
  <2>1. ASSUME NEW j \in Job, ClaimNext(r, j) PROVE Bookkeeping'
    <3> DEFINE t == <<j, attempt[j] + 1>>
    <3>1. t \in Attempt
      BY <2>1, JobAssumption
         DEF ClaimNext, ClaimOldest, Claim, Attempt, StoreInv, StoreTypeOK, AttemptsBounded
    <3>2. CASE status[r] = "closed"
      BY <2>1, <3>2 DEF ClaimNext, Bookkeeping
    <3>3. CASE status[r] # "closed"
      <4>1. /\ pool' = [pool EXCEPT ![r] = Append(@, t)]
            /\ phase' = [phase EXCEPT ![t] = "pending"]
            /\ owner' = [owner EXCEPT ![t] = r]
        BY <2>1, <3>3 DEF ClaimNext
      <4> HIDE DEF t
      <4>2. /\ phase' \in [Attempt -> Phases]
            /\ owner' \in [Attempt -> Worker \cup {NoWorker}]
            /\ pool' \in [Worker -> Seq(Attempt)]
            /\ \A u \in Attempt : phase'[u] # "none" => owner'[u] \in Worker
        BY <3>1, <4>1 DEF Bookkeeping, Phases
      <4>3. ASSUME NEW s \in Worker, NEW i \in 1 .. Len(pool'[s]) PROVE phase'[pool'[s][i]] # "none"
        <5>1. pool[s] \in Seq(Attempt)
          BY DEF Bookkeeping
        <5>2. \A u \in Attempt : phase[u] # "none" => phase'[u] # "none"
          BY <4>1 DEF Bookkeeping, Phases
        <5>3. CASE s = r /\ i = Len(pool[s]) + 1
          BY <3>1, <4>1, <4>3, <5>1, <5>3 DEF Bookkeeping, Phases
        <5>4. CASE ~(s = r /\ i = Len(pool[s]) + 1)
          <6>1. i \in 1 .. Len(pool[s]) /\ pool'[s][i] = pool[s][i]
            BY <3>1, <4>1, <4>3, <5>1, <5>4 DEF Bookkeeping
          <6>2. pool[s][i] \in Attempt /\ phase[pool[s][i]] # "none"
            BY <5>1, <6>1 DEF Bookkeeping
          <6> QED
            BY <5>2, <6>1, <6>2
        <5> QED
          BY <5>3, <5>4
      <4> QED
        BY <4>2, <4>3 DEF Bookkeeping
    <3> QED
      BY <3>2, <3>3
  <2>2. CASE StartTick(r) \/ LockInflight(r) \/ UnlockInflight(r) \/ EndTick(r) \/ LeaveLoop(r)
             \/ \E j \in Job : Beat(r, j)
    BY <2>2 DEF StartTick, LockInflight, UnlockInflight, EndTick, LeaveLoop, Beat, slotVars, Bookkeeping
  <2> QED
    BY <1>2, <2>1, <2>2 DEF Poll
<1>3. ASSUME NEW r \in Worker, Start(r) PROVE Bookkeeping'
  <2> DEFINE t == Head(pool[r])
  <2>1. pool[r] \in Seq(Attempt) /\ pool[r] # << >>
    BY <1>3 DEF Start, Bookkeeping
  <2>2. t \in Attempt /\ t = pool[r][1] /\ phase[t] # "none"
    BY <2>1 DEF Bookkeeping
  <2>3. /\ phase' = [phase EXCEPT ![t] = "running"]
        /\ pool' = [pool EXCEPT ![r] = Tail(@)]
        /\ UNCHANGED owner
    BY <1>3 DEF Start, SetPhase
  <2>4. ASSUME NEW s \in Worker, NEW i \in 1 .. Len(pool'[s]) PROVE phase'[pool'[s][i]] # "none"
    <3>1. pool[s] \in Seq(Attempt)
      BY DEF Bookkeeping
    <3>2. \E k \in 1 .. Len(pool[s]) : pool'[s][i] = pool[s][k]
      <4>1. CASE s = r
        <5>1. pool'[s] = Tail(pool[s]) /\ i + 1 \in 1 .. Len(pool[s])
          BY <2>1, <2>3, <2>4, <4>1 DEF Bookkeeping
        <5>2. pool'[s][i] = pool[s][i + 1]
          BY <2>1, <2>4, <4>1, <5>1
        <5> QED
          BY <5>1, <5>2
      <4>2. CASE s # r
        BY <2>3, <2>4, <4>2 DEF Bookkeeping
      <4> QED
        BY <4>1, <4>2
    <3> QED
      BY <2>3, <3>1, <3>2 DEF Bookkeeping, Phases
  <2> HIDE DEF t
  <2> QED
    BY <2>1, <2>2, <2>3, <2>4 DEF Bookkeeping, Phases
<1>4. ASSUME NEW r \in Worker, ClosePool(r) \/ Crash(r) PROVE Bookkeeping'
  <2>1. /\ UNCHANGED owner
        /\ pool' = [pool EXCEPT ![r] = << >>]
    BY <1>4 DEF ClosePool, Crash
  <2>2. /\ phase' \in [Attempt -> Phases]
        /\ \A t \in Attempt : phase'[t] = phase[t] \/ (phase[t] # "none" /\ phase'[t] = "done")
    BY <1>4 DEF ClosePool, Crash, Alive, Bookkeeping, Phases
  <2> QED
    BY <2>1, <2>2, PoolDropKeeps
<1>5. ASSUME NEW t \in Attempt, RunOne(t) \/ RecordingFails(t) PROVE Bookkeeping'
  <2>1. phase[t] # "none" /\ UNCHANGED <<owner, pool>>
    BY <1>5 DEF RunOne, Finish, Raise, Fail, RequeueFailed, Leave, RecordingFails
  <2>2. \E p \in Phases \ {"none"} : SetPhase(t, p)
    BY <1>5 DEF RunOne, Finish, Raise, Fail, RequeueFailed, Leave, RecordingFails, Phases
  <2> QED
    BY <2>1, <2>2, PhaseChangeKeeps
<1>6. ASSUME NEW r \in Worker, TickFails(r) \/ RequestStop(r) PROVE Bookkeeping'
  BY <1>6 DEF TickFails, RequestStop, slotVars, Bookkeeping
<1>7. CASE UNCHANGED vars
  BY <1>7 DEF vars, slotVars, Bookkeeping
<1> QED
  BY <1>1, <1>2, <1>3, <1>4, <1>5, <1>6, <1>7 DEF Next, Faults

\* Runners, with their crashes, stalls and stops, use the table only as its specification
\* allows.
THEOREM RunnersRefineTable ==
  Spec => StoreSpec
<1>1. Init => StoreInit
  BY DEF Init
<1>2. StoreInv /\ Bookkeeping /\ [Next]_vars => [StoreNext]_storeVars
  BY RunnerStepIsStoreStep DEF Bookkeeping
<1>3. StoreInv /\ Bookkeeping /\ [Next]_vars => (StoreInv /\ Bookkeeping)'
  BY <1>2, StoreNextInv, RunnerNextKeeps
<1> QED
  BY <1>1, <1>2, <1>3, RunnerInit, PTL DEF Spec, StoreSpec

\* With any number of runners, threads and faults, the table's invariant holds: a job is
\* never attempted more than max_attempts times.
THEOREM RunnersKeepTableInvariant ==
  Spec => []StoreInv
BY RunnersRefineTable, StoreInvariant, PTL

\* With any number of runners, threads and faults, results and cancellations are final.
THEOREM RunnersKeepResultsFinal ==
  Spec => SettledForever
BY RunnersRefineTable, ResultsAreFinal, PTL

-----------------------------------------------------------------------------
(* Attempts of the runners: the invariant *)

\* The types of JobRunner that Bookkeeping leaves out.
Sites ==
  /\ status \in [Worker -> {"up", "stopping", "closed", "dead"}]
  /\ pc \in [Worker -> {"idle", "expired", "beat", "claim", "out"}]
  /\ beats \in [Worker -> SUBSET Job]
  /\ free \in [Worker -> Int]
  /\ inflight \in [Worker -> SUBSET Job]
  /\ \A r \in Worker : IsFiniteSet(inflight[r])
  /\ wrote \in [Job -> 0 .. MaxAttempts]
  /\ deposed \subseteq Attempt
  /\ faults \in 0 .. MaxFaults

\* A lease was expired under an attempt, or under an earlier one of its job.
Deposed(t) == \E d \in deposed : d[1] = t[1] /\ d[2] <= t[2]
Unwritten(t) == phase[t] \in {"pending", "running", "raised"}

\* An attempt that has not written its outcome is the current one and its runner holds
\* the job, or the job was cancelled, or it is deposed.
HolderOrDeposed ==
  \A t \in Attempt :
    Unwritten(t) =>
      \/ Deposed(t)
      \/ /\ t[2] = attempt[t[1]] /\ state[t[1]] \in {"running", "cancelled"}
         /\ state[t[1]] = "running" => worker[t[1]] = owner[t]

\* Attempts come from claims.
AttemptsAreClaimed ==
  \A t \in Attempt : phase[t] # "none" => owner[t] \in Worker /\ t[2] <= attempt[t[1]]

\* What a pool holds is pending, each attempt once.
PoolIsPending ==
  \A r \in Worker : \A i \in 1 .. Len(pool[r]) :
    /\ phase[pool[r][i]] = "pending" /\ owner[pool[r][i]] = r
    /\ \A k \in 1 .. Len(pool[r]) : pool[r][k] = pool[r][i] => k = i

\* A job that succeeded was written by an attempt.
WroteByAttempt == \A j \in Job : state[j] = "succeeded" => wrote[j] \in 1 .. MaxAttempts

RunnerInv ==
  /\ StoreInv /\ Sites /\ Bookkeeping
  /\ AttemptsAreClaimed /\ PoolIsPending /\ HolderOrDeposed
  /\ WroteByAttempt /\ LateResultOnlyOfHolder /\ SlotsAccounted

-----------------------------------------------------------------------------
(* Types *)

\* Every step keeps the runners' own types.
LEMMA SitesKept ==
  ASSUME Sites, Bookkeeping, [Next]_vars
  PROVE  Sites'
<1>1. CASE \E j \in Job : Submit(j) \/ RequestCancel(j) \/ LeaseLapses(j)
  BY <1>1 DEF Submit, RequestCancel, LeaseLapses, pollVars, slotVars, histVars, Sites
<1>2. ASSUME NEW r \in Worker, Poll(r) PROVE Sites'
  <2>1. CASE StartTick(r)
    <3>1. deposed' \subseteq Attempt
      BY <2>1 DEF StartTick, Sites
    <3> QED BY <2>1, <3>1 DEF StartTick, slotVars, Sites
  <2>2. CASE LockInflight(r)
    BY <2>2 DEF LockInflight, slotVars, histVars, Sites
  <2>3. CASE UnlockInflight(r)
    <3>1. Threads - Cardinality(inflight[r]) \in Int
      BY FS_CardinalityType, RunnerAssumption DEF Sites
    <3> QED BY <2>3, <3>1 DEF UnlockInflight, slotVars, histVars, Sites
  <2>4. CASE EndTick(r) \/ LeaveLoop(r)
    BY <2>4 DEF EndTick, LeaveLoop, slotVars, histVars, Sites
  <2>5. ASSUME NEW j \in Job, Beat(r, j) PROVE Sites'
    BY <2>5 DEF Beat, slotVars, histVars, Sites
  <2>6. ASSUME NEW j \in Job, ClaimNext(r, j) PROVE Sites'
    <3>1. IsFiniteSet(inflight[r] \cup {j})
      BY FS_AddElement DEF Sites
    <3>2. inflight' = [inflight EXCEPT ![r] = @ \cup {j}]
      BY <2>6 DEF ClaimNext
    <3>3. inflight' \in [Worker -> SUBSET Job] /\ \A s \in Worker : IsFiniteSet(inflight'[s])
      BY <3>1, <3>2 DEF Sites
    <3>4. pc' \in [Worker -> {"idle", "expired", "beat", "claim", "out"}] /\ free' \in [Worker -> Int]
      <4>1. CASE status[r] = "closed"
        BY <2>6, <4>1 DEF ClaimNext, Sites
      <4>2. CASE status[r] # "closed"
        <5>1. pc' = pc /\ free' = [free EXCEPT ![r] = free[r] - 1]
          BY <2>6, <4>2 DEF ClaimNext
        <5> QED BY <5>1 DEF Sites
      <4> QED BY <4>1, <4>2
    <3> QED BY <2>6, <3>3, <3>4 DEF ClaimNext, histVars, Sites
  <2> QED BY <1>2, <2>1, <2>2, <2>3, <2>4, <2>5, <2>6 DEF Poll
<1>3. ASSUME NEW r \in Worker, Start(r) \/ ClosePool(r) PROVE Sites'
  BY <1>3 DEF Start, ClosePool, pollVars, histVars, Sites
<1>4. ASSUME NEW t \in Attempt, Leave(t) PROVE Sites'
  <2>1. owner[t] \in Worker
    BY <1>4 DEF Leave, Bookkeeping
  <2>2. IsFiniteSet(inflight[owner[t]] \ {t[1]})
    BY <2>1, FS_RemoveElement DEF Sites
  <2>3. inflight' = [inflight EXCEPT ![owner[t]] = inflight[owner[t]] \ {t[1]}]
    BY <1>4 DEF Leave, Released
  <2>4. inflight' \in [Worker -> SUBSET Job] /\ \A s \in Worker : IsFiniteSet(inflight'[s])
    BY <2>1, <2>2, <2>3 DEF Sites
  <2> QED BY <1>4, <2>4 DEF Leave, pollVars, histVars, Sites
<1>5. ASSUME NEW t \in Attempt, RunOne(t), ~Leave(t) PROVE Sites'
  <2>1. t[1] \in Job /\ t[2] \in 0 .. MaxAttempts
    BY JobAssumption DEF Attempt
  <2>2. wrote' \in [Job -> 0 .. MaxAttempts]
    BY <1>5, <2>1 DEF RunOne, Finish, Raise, Fail, RequeueFailed, Write, histVars, Sites
  <2>3. UNCHANGED <<status, pollVars, inflight, deposed, faults>>
    BY <1>5 DEF RunOne, Finish, Raise, Fail, RequeueFailed, histVars
  <2> QED BY <2>2, <2>3 DEF pollVars, Sites
<1>6. CASE Faults
  <2>1. ASSUME Fault PROVE faults' \in 0 .. MaxFaults
    BY <2>1, RunnerAssumption DEF Fault, Sites
  <2>2. ASSUME NEW r \in Worker, TickFails(r) \/ RequestStop(r) PROVE Sites'
    BY <2>1, <2>2 DEF TickFails, RequestStop, pollVars, slotVars, histVars, Sites
  <2>3. ASSUME NEW r \in Worker, Crash(r) PROVE Sites'
    <3>1. inflight' \in [Worker -> SUBSET Job] /\ \A s \in Worker : IsFiniteSet(inflight'[s])
      BY <2>3, FS_EmptySet DEF Crash, Sites
    <3> QED BY <2>1, <2>3, <3>1 DEF Crash, histVars, Sites
  <2>4. ASSUME NEW t \in Attempt, RecordingFails(t) PROVE Sites'
    BY <2>1, <2>4 DEF RecordingFails, pollVars, histVars, Sites
  <2> QED BY <1>6, <2>2, <2>3, <2>4 DEF Faults
<1>7. CASE UNCHANGED vars
  BY <1>7 DEF vars, pollVars, slotVars, histVars, Sites
<1> QED BY <1>1, <1>2, <1>3, <1>4, <1>5, <1>6, <1>7 DEF Next

-----------------------------------------------------------------------------
(* What a step does to attempts: a claim makes one pending, which was none; a thread takes *)
(* a pending one; the others move one on that was begun, or end those of a runner.         *)

\* The attempt a claim makes is in range, and was none before.
LEMMA ClaimedIsNew ==
  ASSUME StoreInv, Bookkeeping, AttemptsAreClaimed, NEW r \in Worker, NEW j \in Job, ClaimNext(r, j)
  PROVE  /\ <<j, attempt[j] + 1>> \in Attempt
         /\ phase[<<j, attempt[j] + 1>>] = "none"
         /\ attempt[j] \in Nat
<1> DEFINE t == <<j, attempt[j] + 1>>
<1>1. attempt[j] \in Nat /\ attempt[j] < MaxAttempts
  BY JobAssumption DEF ClaimNext, ClaimOldest, Claim, StoreInv, StoreTypeOK, AttemptsBounded
<1>2. t \in Attempt
  BY <1>1, JobAssumption DEF Attempt
<1>3. ~(t[2] <= attempt[t[1]])
  BY <1>1
<1>4. phase[t] = "none"
  BY <1>2, <1>3 DEF AttemptsAreClaimed
<1> QED BY <1>1, <1>2, <1>4

\* A thread starts a pending attempt of its own runner.
LEMMA StartedIsPending ==
  ASSUME Bookkeeping, PoolIsPending, NEW r \in Worker, Start(r)
  PROVE  /\ Head(pool[r]) \in Attempt
         /\ phase[Head(pool[r])] = "pending" /\ owner[Head(pool[r])] = r
         /\ phase' = [phase EXCEPT ![Head(pool[r])] = "running"]
<1>1. pool[r] \in Seq(Attempt) /\ pool[r] # << >>
  BY DEF Start, Bookkeeping
<1>2. 1 \in 1 .. Len(pool[r]) /\ Head(pool[r]) = pool[r][1]
  BY <1>1
<1>3. Head(pool[r]) \in Attempt
  BY <1>1
<1> QED BY <1>2, <1>3 DEF PoolIsPending, Start, SetPhase

\* The step of an attempt that was begun.
LEMMA MovesOn ==
  ASSUME Bookkeeping, NEW t \in Attempt, RunOne(t) \/ RecordingFails(t)
  PROVE  /\ phase[t] \notin {"none", "pending"} /\ UNCHANGED <<owner, pool, deposed, attempt>>
         /\ \E p \in Phases \ {"none", "pending", "running"} : phase' = [phase EXCEPT ![t] = p]
<1>1. phase[t] \notin {"none", "pending"} /\ UNCHANGED <<owner, pool, deposed>>
  BY DEF RunOne, Finish, Raise, Fail, RequeueFailed, Leave, RecordingFails, histVars
<1>2. \E p \in Phases \ {"none", "pending", "running"} : phase' = [phase EXCEPT ![t] = p]
  BY DEF RunOne, Finish, Raise, Fail, RequeueFailed, Leave, RecordingFails, SetPhase, Phases
<1>3. UNCHANGED attempt
  BY DEF RunOne, Finish, Raise, Fail, RequeueFailed, Leave, RecordingFails, Write, Terminal,
         Requeue, storeVars
<1> QED BY <1>1, <1>2, <1>3

\* Every step keeps AttemptsAreClaimed.
LEMMA AttemptsClaimedStep ==
  ASSUME StoreInv, Bookkeeping, AttemptsAreClaimed, PoolIsPending, [Next]_vars
  PROVE  AttemptsAreClaimed'
<1> SUFFICES ASSUME NEW u \in Attempt, phase'[u] # "none"
             PROVE  owner'[u] \in Worker /\ u[2] <= attempt'[u[1]]
  BY DEF AttemptsAreClaimed
<1>0. u[1] \in Job /\ u[2] \in Nat /\ attempt \in [Job -> Nat]
  BY JobAssumption DEF Attempt, StoreInv, StoreTypeOK
<1>1. ASSUME UNCHANGED <<phase, owner, attempt>> PROVE owner'[u] \in Worker /\ u[2] <= attempt'[u[1]]
  BY <1>1 DEF AttemptsAreClaimed
<1>2. CASE \E j \in Job : Submit(j) \/ RequestCancel(j) \/ LeaseLapses(j)
  BY <1>1, <1>2 DEF Submit, RequestCancel, LeaseLapses, Enqueue, Cancel, Lapse, slotVars
<1>3. ASSUME NEW r \in Worker, Poll(r) PROVE owner'[u] \in Worker /\ u[2] <= attempt'[u[1]]
  <2>1. CASE StartTick(r) \/ LockInflight(r) \/ UnlockInflight(r) \/ EndTick(r) \/ LeaveLoop(r)
             \/ \E j \in Job : Beat(r, j)
    BY <1>1, <2>1
    DEF StartTick, ExpireLeases, LockInflight, UnlockInflight, EndTick, LeaveLoop, Beat, Heartbeat,
        storeVars, slotVars
  <2>2. ASSUME NEW j \in Job, ClaimNext(r, j) PROVE owner'[u] \in Worker /\ u[2] <= attempt'[u[1]]
    <3> DEFINE t == <<j, attempt[j] + 1>>
    <3>1. t \in Attempt /\ phase[t] = "none"
      BY <2>2, ClaimedIsNew
    <3>2. attempt' = [attempt EXCEPT ![j] = @ + 1]
      BY <2>2 DEF ClaimNext, ClaimOldest, Claim
    <3>3. CASE u = t /\ phase' # phase
      <4>1. owner' = [owner EXCEPT ![t] = r]
        BY <2>2, <3>3 DEF ClaimNext
      <4>2. owner'[u] = r
        BY <3>1, <3>3, <4>1 DEF Bookkeeping
      <4> QED BY <1>0, <3>2, <3>3, <4>2
    <3>4. CASE ~(u = t /\ phase' # phase)
      <4>1. phase'[u] = phase[u] /\ owner'[u] = owner[u]
        BY <2>2, <3>1, <3>4 DEF ClaimNext, Bookkeeping
      <4>2. owner[u] \in Worker /\ u[2] <= attempt[u[1]]
        BY <4>1 DEF AttemptsAreClaimed
      <4> QED BY <1>0, <3>2, <4>1, <4>2
    <3> QED BY <3>3, <3>4
  <2> QED BY <1>3, <2>1, <2>2 DEF Poll
<1>4. ASSUME NEW r \in Worker, Start(r) PROVE owner'[u] \in Worker /\ u[2] <= attempt'[u[1]]
  <2>1. phase[u] # "none"
    BY <1>4, StartedIsPending DEF Bookkeeping
  <2> QED BY <1>4, <2>1 DEF Start, storeVars, AttemptsAreClaimed
<1>5. ASSUME NEW r \in Worker, ClosePool(r) \/ Crash(r)
      PROVE  owner'[u] \in Worker /\ u[2] <= attempt'[u[1]]
  <2>1. phase[u] # "none"
    BY <1>5 DEF ClosePool, Crash, Alive
  <2> QED BY <1>5, <2>1 DEF ClosePool, Crash, storeVars, AttemptsAreClaimed
<1>6. ASSUME NEW t \in Attempt, RunOne(t) \/ RecordingFails(t)
      PROVE  owner'[u] \in Worker /\ u[2] <= attempt'[u[1]]
  <2>1. phase[u] # "none"
    BY <1>6, MovesOn DEF Bookkeeping
  <2> QED BY <1>6, <2>1, MovesOn DEF AttemptsAreClaimed
<1>7. ASSUME NEW r \in Worker, TickFails(r) \/ RequestStop(r)
      PROVE  owner'[u] \in Worker /\ u[2] <= attempt'[u[1]]
  BY <1>1, <1>7 DEF TickFails, RequestStop, storeVars, slotVars
<1>8. CASE UNCHANGED vars
  BY <1>1, <1>8 DEF vars, storeVars, slotVars
<1> QED BY <1>2, <1>3, <1>4, <1>5, <1>6, <1>7, <1>8 DEF Next, Faults

\* The tail of a sequence that is not empty, by index.
LEMMA TailFacts ==
  ASSUME NEW S, NEW q \in Seq(S), q # << >>
  PROVE  /\ Len(Tail(q)) = Len(q) - 1 /\ Len(q) \in Nat \ {0}
         /\ \A i \in 1 .. Len(q) - 1 : Tail(q)[i] = q[i + 1]
         /\ Head(q) = q[1]
  OBVIOUS

\* Every step keeps PoolIsPending: a claimed attempt is appended once, since it is new.
LEMMA PoolStep ==
  ASSUME StoreInv, Bookkeeping, AttemptsAreClaimed, PoolIsPending, [Next]_vars
  PROVE  PoolIsPending'
<1>0. \A r \in Worker : pool[r] \in Seq(Attempt) /\ Len(pool[r]) \in Nat
  BY DEF Bookkeeping
<1>1. \A r \in Worker : \A i \in 1 .. Len(pool[r]) : pool[r][i] \in Attempt
  BY DEF Bookkeeping
<1>2. ASSUME UNCHANGED <<pool, owner>>,
             \A t \in Attempt : phase[t] = "pending" => phase'[t] = "pending"
      PROVE  PoolIsPending'
  BY <1>1, <1>2 DEF PoolIsPending
<1>3. ASSUME UNCHANGED <<pool, owner, phase>> PROVE PoolIsPending'
  BY <1>2, <1>3
<1>4. CASE \E j \in Job : Submit(j) \/ RequestCancel(j) \/ LeaseLapses(j)
  BY <1>3, <1>4 DEF Submit, RequestCancel, LeaseLapses, slotVars
<1>5. ASSUME NEW r \in Worker, Poll(r) PROVE PoolIsPending'
  <2>1. CASE StartTick(r) \/ LockInflight(r) \/ UnlockInflight(r) \/ EndTick(r) \/ LeaveLoop(r)
             \/ \E j \in Job : Beat(r, j)
    BY <1>3, <2>1
    DEF StartTick, LockInflight, UnlockInflight, EndTick, LeaveLoop, Beat, slotVars
  <2>2. ASSUME NEW j \in Job, ClaimNext(r, j) PROVE PoolIsPending'
    <3> DEFINE t == <<j, attempt[j] + 1>>
    <3>1. t \in Attempt /\ phase[t] = "none"
      BY <2>2, ClaimedIsNew
    <3>2. CASE status[r] = "closed"
      BY <1>3, <2>2, <3>2 DEF ClaimNext
    <3>3. CASE status[r] # "closed"
      <4>1. /\ pool' = [pool EXCEPT ![r] = Append(@, t)]
            /\ phase' = [phase EXCEPT ![t] = "pending"]
            /\ owner' = [owner EXCEPT ![t] = r]
        BY <2>2, <3>3 DEF ClaimNext
      <4> HIDE DEF t
      <4>2. \A s \in Worker : \A i \in 1 .. Len(pool[s]) : pool[s][i] # t
        BY <3>1 DEF PoolIsPending
      <4>3. phase'[t] = "pending" /\ owner'[t] = r
        BY <3>1, <4>1 DEF Bookkeeping
      <4>4. \A u \in Attempt : u # t => phase'[u] = phase[u] /\ owner'[u] = owner[u]
        BY <4>1 DEF Bookkeeping
      <4>5. pool'[r] = Append(pool[r], t) /\ \A s \in Worker : s # r => pool'[s] = pool[s]
        BY <4>1 DEF Bookkeeping
      <4>6. /\ Len(pool'[r]) = Len(pool[r]) + 1 /\ pool'[r][Len(pool[r]) + 1] = t
            /\ \A i \in 1 .. Len(pool[r]) : pool'[r][i] = pool[r][i]
        BY <1>0, <3>1, <4>5
      <4> SUFFICES ASSUME NEW s \in Worker, NEW i \in 1 .. Len(pool'[s])
                   PROVE  /\ phase'[pool'[s][i]] = "pending" /\ owner'[pool'[s][i]] = s
                          /\ \A k \in 1 .. Len(pool'[s]) : pool'[s][k] = pool'[s][i] => k = i
        BY DEF PoolIsPending
      <4>7. CASE s = r
        <5>1. CASE i = Len(pool[r]) + 1
          BY <1>0, <4>2, <4>3, <4>6, <4>7, <5>1
        <5>2. CASE i \in 1 .. Len(pool[r])
          <6>1. /\ pool'[r][i] = pool[r][i] /\ pool[r][i] # t /\ pool[r][i] \in Attempt
                /\ phase[pool[r][i]] = "pending" /\ owner[pool[r][i]] = r
                /\ \A k \in 1 .. Len(pool[r]) : pool[r][k] = pool[r][i] => k = i
            BY <1>1, <4>2, <4>6, <5>2 DEF PoolIsPending
          <6>2. \A k \in 1 .. Len(pool'[r]) : pool'[r][k] = pool'[r][i] => k = i
            BY <1>0, <4>6, <6>1
          <6> QED BY <4>4, <4>7, <6>1, <6>2
        <5> QED BY <1>0, <4>6, <4>7, <5>1, <5>2
      <4>8. CASE s # r
        <5>1. pool'[s] = pool[s] /\ pool[s][i] # t /\ pool[s][i] \in Attempt
          BY <1>1, <4>2, <4>5, <4>8
        <5> QED BY <4>4, <5>1 DEF PoolIsPending
      <4> QED BY <4>7, <4>8
    <3> QED BY <3>2, <3>3
  <2> QED BY <1>5, <2>1, <2>2 DEF Poll
<1>6. ASSUME NEW r \in Worker, Start(r) PROVE PoolIsPending'
  <2> DEFINE t == Head(pool[r])
  <2>1. /\ t \in Attempt /\ phase[t] = "pending" /\ owner[t] = r
        /\ phase' = [phase EXCEPT ![t] = "running"]
    BY <1>6, StartedIsPending
  <2>2. /\ pool[r] # << >> /\ owner' = owner
        /\ pool' = [pool EXCEPT ![r] = Tail(@)]
    BY <1>6 DEF Start
  <2>3. pool'[r] = Tail(pool[r]) /\ \A s \in Worker : s # r => pool'[s] = pool[s]
    BY <2>2 DEF Bookkeeping
  <2>4. /\ Len(pool'[r]) = Len(pool[r]) - 1 /\ Len(pool[r]) \in Nat \ {0}
        /\ \A i \in 1 .. Len(pool[r]) - 1 : pool'[r][i] = pool[r][i + 1]
        /\ t = pool[r][1]
    BY <1>0, <2>2, <2>3, TailFacts
  <2> HIDE DEF t
  <2>5. \A u \in Attempt : u # t => phase'[u] = phase[u]
    BY <2>1 DEF Bookkeeping
  <2> SUFFICES ASSUME NEW s \in Worker, NEW i \in 1 .. Len(pool'[s])
               PROVE  /\ phase'[pool'[s][i]] = "pending" /\ owner'[pool'[s][i]] = s
                      /\ \A k \in 1 .. Len(pool'[s]) : pool'[s][k] = pool'[s][i] => k = i
    BY DEF PoolIsPending
  <2>6. CASE s = r
    <3>1. i + 1 \in 1 .. Len(pool[r]) /\ 1 \in 1 .. Len(pool[r]) /\ i + 1 # 1
      BY <2>4, <2>6
    <3>2. /\ phase[pool[r][i + 1]] = "pending" /\ owner[pool[r][i + 1]] = r
          /\ pool[r][i + 1] \in Attempt
          /\ \A k \in 1 .. Len(pool[r]) : pool[r][k] = pool[r][i + 1] => k = i + 1
      BY <1>1, <3>1 DEF PoolIsPending
    <3>3. pool[r][i + 1] # t /\ pool'[r][i] = pool[r][i + 1]
      BY <2>4, <2>6, <3>1, <3>2
    <3>4. \A k \in 1 .. Len(pool'[r]) : pool'[r][k] = pool'[r][i] => k = i
      BY <2>4, <2>6, <3>2, <3>3
    <3> QED BY <2>2, <2>5, <2>6, <3>2, <3>3, <3>4
  <2>7. CASE s # r
    <3>1. pool'[s] = pool[s] /\ pool[s][i] \in Attempt /\ owner[pool[s][i]] = s
      BY <1>1, <2>3, <2>7 DEF PoolIsPending
    <3>2. pool[s][i] # t
      BY <2>1, <2>7, <3>1
    <3>3. phase[pool[s][i]] = "pending" /\ \A k \in 1 .. Len(pool[s]) : pool[s][k] = pool[s][i] => k = i
      BY <3>1 DEF PoolIsPending
    <3> QED BY <2>2, <2>5, <3>1, <3>2, <3>3
  <2> QED BY <2>6, <2>7
<1>7. ASSUME NEW r \in Worker, ClosePool(r) \/ Crash(r) PROVE PoolIsPending'
  <2>1. pool' = [pool EXCEPT ![r] = << >>] /\ owner' = owner
    BY <1>7 DEF ClosePool, Crash
  <2>2. \A u \in Attempt : owner[u] # r => phase'[u] = phase[u]
    BY <1>7 DEF ClosePool, Crash
  <2>3. pool'[r] = << >> /\ \A s \in Worker : s # r => pool'[s] = pool[s]
    BY <2>1 DEF Bookkeeping
  <2> QED BY <1>1, <2>1, <2>2, <2>3 DEF PoolIsPending
<1>8. ASSUME NEW t \in Attempt, RunOne(t) \/ RecordingFails(t) PROVE PoolIsPending'
  <2>1. \A u \in Attempt : phase[u] = "pending" => phase'[u] = "pending"
    BY <1>8, MovesOn DEF Bookkeeping
  <2> QED BY <1>2, <1>8, <2>1, MovesOn
<1>9. ASSUME NEW r \in Worker, TickFails(r) \/ RequestStop(r) PROVE PoolIsPending'
  BY <1>3, <1>9 DEF TickFails, RequestStop, slotVars
<1>10. CASE UNCHANGED vars
  BY <1>3, <1>10 DEF vars, slotVars
<1> QED BY <1>4, <1>5, <1>6, <1>7, <1>8, <1>9, <1>10 DEF Next, Faults

-----------------------------------------------------------------------------
(* Who may still write *)

\* Attempts stay deposed.
LEMMA DeposedGrows ==
  ASSUME [Next]_vars
  PROVE  deposed \subseteq deposed'
<1>1. CASE \E j \in Job : Submit(j) \/ RequestCancel(j) \/ LeaseLapses(j)
  BY <1>1 DEF Submit, RequestCancel, LeaseLapses, histVars
<1>2. ASSUME NEW r \in Worker, Poll(r) PROVE deposed \subseteq deposed'
  BY <1>2
  DEF Poll, StartTick, LockInflight, UnlockInflight, EndTick, LeaveLoop, Beat, ClaimNext, histVars
<1>3. ASSUME NEW r \in Worker, Start(r) \/ ClosePool(r) PROVE deposed \subseteq deposed'
  BY <1>3 DEF Start, ClosePool, histVars
<1>4. ASSUME NEW t \in Attempt, RunOne(t) PROVE deposed \subseteq deposed'
  BY <1>4 DEF RunOne, Finish, Raise, Fail, RequeueFailed, Leave, histVars
<1>5. CASE Faults \/ UNCHANGED vars
  BY <1>5 DEF Faults, TickFails, RequestStop, Crash, RecordingFails, vars, histVars
<1> QED BY <1>1, <1>2, <1>3, <1>4, <1>5 DEF Next

\* Of two attempts of a job that have not written yet, the later one would be deposed too.
LEMMA DeposedLater ==
  ASSUME NEW t \in Attempt, NEW u \in Attempt, t[1] = u[1], t[2] <= u[2], Deposed(t),
         deposed \subseteq Attempt
  PROVE  Deposed(u)
  BY DEF Deposed, Attempt

\* An attempt is its job and its number.
LEMMA SameAttempt ==
  ASSUME NEW t \in Attempt, NEW u \in Attempt, t[1] = u[1], t[2] = u[2]
  PROVE  t = u
  BY DEF Attempt

\* A terminal write by an attempt that has not written: what it does to the others.
LEMMA WriteKeepsOthers ==
  ASSUME StoreInv, Sites, AttemptsAreClaimed, HolderOrDeposed,
         NEW t \in Attempt, Unwritten(t), NEW o, Write(t, o), UNCHANGED <<owner, deposed>>,
         NEW u \in Attempt, u # t, Unwritten(u)
  PROVE  \/ Deposed(u)
         \/ /\ u[2] = attempt'[u[1]] /\ state'[u[1]] \in {"running", "cancelled"}
            /\ state'[u[1]] = "running" => worker'[u[1]] = owner[u]
<1>0. /\ t[1] \in Job /\ t[2] \in Nat /\ u[1] \in Job /\ u[2] \in Nat /\ deposed \subseteq Attempt
      /\ state \in [Job -> {"absent", "queued", "running", "succeeded", "failed", "cancelled"}]
  BY JobAssumption DEF Attempt, StoreInv, StoreTypeOK, Sites
<1> SUFFICES ASSUME ~Deposed(u)
             PROVE  /\ u[2] = attempt'[u[1]] /\ state'[u[1]] \in {"running", "cancelled"}
                    /\ state'[u[1]] = "running" => worker'[u[1]] = owner[u]
  OBVIOUS
<1>1. /\ u[2] = attempt[u[1]] /\ state[u[1]] \in {"running", "cancelled"}
      /\ state[u[1]] = "running" => worker[u[1]] = owner[u]
  BY DEF HolderOrDeposed
<1>2. attempt' = attempt /\ worker' = worker
  BY DEF Write, Terminal, storeVars
<1>3. CASE t[1] # u[1] \/ ~Holds(t[1], owner[t])
  BY <1>0, <1>1, <1>2, <1>3 DEF Write, Terminal, storeVars
<1>4. CASE t[1] = u[1] /\ Holds(t[1], owner[t])
  <2>1. t[2] <= u[2]
    BY <1>1, <1>4 DEF AttemptsAreClaimed, Unwritten
  <2>2. t[2] # u[2]
    BY <1>4, SameAttempt
  <2>3. Deposed(t)
    BY <1>1, <1>4, <2>2 DEF HolderOrDeposed
  <2> QED BY <1>0, <1>4, <2>1, <2>3, DeposedLater
<1> QED BY <1>3, <1>4

\* What the invariant says of an attempt that has not written its outcome.
Keeps(u) ==
  \/ Deposed(u)
  \/ /\ u[2] = attempt[u[1]] /\ state[u[1]] \in {"running", "cancelled"}
     /\ state[u[1]] = "running" => worker[u[1]] = owner[u]

\* Every step keeps HolderOrDeposed: expiry deposes whoever loses the job by it, and a
\* claim finds the job queued, when all that have not written are deposed.
LEMMA HolderStep ==
  ASSUME StoreInv, Sites, Bookkeeping, AttemptsAreClaimed, PoolIsPending, HolderOrDeposed, [Next]_vars
  PROVE  HolderOrDeposed'
<1>0. /\ \A u \in Attempt : u[1] \in Job /\ u[2] \in Nat
      /\ \A u \in Attempt : Unwritten(u) => Keeps(u)
      /\ \A u \in Attempt : Deposed(u) => Deposed(u)'
      /\ state \in [Job -> {"absent", "queued", "running", "succeeded", "failed", "cancelled"}]
      /\ attempt \in [Job -> Nat] /\ worker \in [Job -> Worker \cup {NoWorker}]
  BY JobAssumption, DeposedGrows DEF Attempt, StoreInv, StoreTypeOK, HolderOrDeposed, Keeps, Deposed
<1> SUFFICES ASSUME NEW u \in Attempt, Unwritten(u)' PROVE Keeps(u)'
  BY DEF HolderOrDeposed, Keeps, Unwritten
<1>1. ASSUME Unwritten(u), UNCHANGED <<state, attempt, worker, owner>> PROVE Keeps(u)'
  BY <1>0, <1>1 DEF Keeps
<1>2. ASSUME NEW j \in Job, Submit(j) \/ RequestCancel(j) \/ LeaseLapses(j) PROVE Keeps(u)'
  <2>1. Unwritten(u) /\ owner' = owner
    BY <1>2 DEF Submit, RequestCancel, LeaseLapses, slotVars, Unwritten
  <2>2. UNCHANGED <<attempt, worker>>
    BY <1>2 DEF Submit, RequestCancel, LeaseLapses, Enqueue, Cancel, Lapse
  <2>3. state[u[1]] \in {"running", "cancelled"} => state'[u[1]] \in {state[u[1]], "cancelled"}
    BY <1>0, <1>2 DEF Submit, RequestCancel, LeaseLapses, Enqueue, Cancel, Lapse
  <2> QED BY <1>0, <2>1, <2>2, <2>3 DEF Keeps
<1>3. ASSUME NEW r \in Worker, Poll(r) PROVE Keeps(u)'
  <2>1. CASE StartTick(r)
    <3>1. Unwritten(u) /\ owner' = owner /\ attempt' = attempt
      BY <2>1 DEF StartTick, ExpireLeases, slotVars, Unwritten
    <3>2. CASE u[1] \in Expired /\ u[2] = attempt[u[1]]
      <4>1. u \in deposed'
        BY <2>1, <3>1, <3>2 DEF StartTick, Unwritten, Alive
      <4> QED BY <1>0, <4>1 DEF Keeps, Deposed
    <3>3. CASE u[1] \notin Expired
      <4>1. state'[u[1]] = state[u[1]] /\ worker'[u[1]] = worker[u[1]]
        BY <1>0, <2>1, <3>3 DEF StartTick, ExpireLeases
      <4> QED BY <1>0, <3>1, <4>1 DEF Keeps
    <3>4. CASE u[2] # attempt[u[1]]
      BY <1>0, <3>1, <3>4 DEF Keeps
    <3> QED BY <3>2, <3>3, <3>4
  <2>2. CASE LockInflight(r) \/ UnlockInflight(r) \/ EndTick(r) \/ LeaveLoop(r)
             \/ \E j \in Job : Beat(r, j)
    BY <1>1, <2>2
    DEF LockInflight, UnlockInflight, EndTick, LeaveLoop, Beat, Heartbeat, storeVars, slotVars, Unwritten
  <2>3. ASSUME NEW j \in Job, ClaimNext(r, j) PROVE Keeps(u)'
    <3> DEFINE t == <<j, attempt[j] + 1>>
    <3>1. t \in Attempt /\ phase[t] = "none"
      BY <2>3, ClaimedIsNew
    <3>2. /\ state[j] = "queued" /\ state' = [state EXCEPT ![j] = "running"]
          /\ attempt' = [attempt EXCEPT ![j] = @ + 1] /\ worker' = [worker EXCEPT ![j] = r]
      BY <2>3 DEF ClaimNext, ClaimOldest, Claim
    <3>3. CASE u = t
      <4>1. phase' # phase
        BY <3>1, <3>3 DEF Unwritten
      <4>2. owner' = [owner EXCEPT ![t] = r]
        BY <2>3, <4>1 DEF ClaimNext
      <4>3. owner'[u] = r
        BY <3>1, <3>3, <4>2 DEF Bookkeeping
      <4>4. attempt'[j] = attempt[j] + 1 /\ state'[j] = "running" /\ worker'[j] = r
        BY <1>0, <3>2
      <4> QED BY <3>3, <4>3, <4>4 DEF Keeps
    <3>4. CASE u # t
      <4>1. phase'[u] = phase[u] /\ owner'[u] = owner[u]
        BY <2>3, <3>4 DEF ClaimNext, Bookkeeping
      <4>2. Keeps(u)
        BY <1>0, <4>1 DEF Unwritten
      <4>3. CASE u[1] = j
        BY <1>0, <3>2, <4>2, <4>3 DEF Keeps
      <4>4. CASE u[1] # j
        <5>1. /\ attempt'[u[1]] = attempt[u[1]] /\ state'[u[1]] = state[u[1]]
              /\ worker'[u[1]] = worker[u[1]]
          BY <1>0, <3>2, <4>4
        <5> QED BY <1>0, <4>1, <4>2, <5>1 DEF Keeps
      <4> QED BY <4>3, <4>4
    <3> QED BY <3>3, <3>4
  <2> QED BY <1>3, <2>1, <2>2, <2>3 DEF Poll
<1>4. ASSUME NEW r \in Worker, Start(r) PROVE Keeps(u)'
  <2>1. Unwritten(u)
    BY <1>4, StartedIsPending DEF Bookkeeping, Unwritten
  <2> QED BY <1>1, <1>4, <2>1 DEF Start, storeVars
<1>5. ASSUME NEW r \in Worker, ClosePool(r) \/ Crash(r) PROVE Keeps(u)'
  <2>1. Unwritten(u)
    BY <1>5 DEF ClosePool, Crash, Unwritten
  <2> QED BY <1>1, <1>5, <2>1 DEF ClosePool, Crash, storeVars
<1>6. ASSUME NEW t \in Attempt, Finish(t) \/ Fail(t) PROVE Keeps(u)'
  <2>1. /\ Unwritten(t) /\ UNCHANGED <<owner, deposed>>
        /\ \E o \in {"succeeded", "failed"} : Write(t, o)
        /\ \E p \in {"leaving", "failed"} : SetPhase(t, p)
    BY <1>6 DEF Finish, Fail, Unwritten
  <2>2. u # t /\ Unwritten(u)
    BY <2>1 DEF SetPhase, Unwritten, Bookkeeping
  <2>3. \/ Deposed(u)
        \/ /\ u[2] = attempt'[u[1]] /\ state'[u[1]] \in {"running", "cancelled"}
           /\ state'[u[1]] = "running" => worker'[u[1]] = owner[u]
    BY <2>1, <2>2, WriteKeepsOthers
  <2> QED BY <1>0, <2>1, <2>3 DEF Keeps
<1>7. ASSUME NEW t \in Attempt, Raise(t) \/ Leave(t) \/ RecordingFails(t) PROVE Keeps(u)'
  <2>1. Unwritten(u)
    BY <1>7 DEF Raise, Leave, RecordingFails, SetPhase, Unwritten, Bookkeeping
  <2> QED BY <1>1, <1>7, <2>1 DEF Raise, Leave, RecordingFails, storeVars
<1>8. ASSUME NEW t \in Attempt, RequeueFailed(t) PROVE Keeps(u)'
  <2>1. Unwritten(u) /\ owner' = owner
    BY <1>8 DEF RequeueFailed, SetPhase, Unwritten, Bookkeeping
  <2>2. CASE CanRequeue(t[1])
    <3>1. /\ state[t[1]] = "failed" /\ attempt' = attempt
          /\ state' = [state EXCEPT ![t[1]] = "queued"]
          /\ worker' = [worker EXCEPT ![t[1]] = NoWorker]
      BY <1>8, <2>2 DEF RequeueFailed, Requeue, CanRequeue
    <3> QED BY <1>0, <2>1, <3>1 DEF Keeps
  <2>3. CASE ~CanRequeue(t[1])
    BY <1>1, <1>8, <2>1, <2>3 DEF RequeueFailed, storeVars
  <2> QED BY <2>2, <2>3
<1>9. ASSUME NEW r \in Worker, TickFails(r) \/ RequestStop(r) PROVE Keeps(u)'
  BY <1>1, <1>9 DEF TickFails, RequestStop, storeVars, slotVars, Unwritten
<1>10. CASE UNCHANGED vars
  BY <1>1, <1>10 DEF vars, storeVars, slotVars, Unwritten
<1> QED BY <1>2, <1>3, <1>4, <1>5, <1>6, <1>7, <1>8, <1>9, <1>10 DEF Next, RunOne, Faults

-----------------------------------------------------------------------------
(* Whose result is recorded *)

\* Every step keeps what is recorded of results: only the end of an attempt writes one, and
\* an attempt that is not the current one is deposed by then.
LEMMA LateResultStep ==
  ASSUME StoreInv, Sites, Bookkeeping, HolderOrDeposed, PoolIsPending, AttemptsAreClaimed,
         WroteByAttempt, LateResultOnlyOfHolder, [Next]_vars
  PROVE  WroteByAttempt' /\ LateResultOnlyOfHolder'
<1>0. /\ \A t \in Attempt : t[1] \in Job /\ t[2] \in 1 .. MaxAttempts /\ t = <<t[1], t[2]>>
      /\ \A i \in Job, n \in 1 .. MaxAttempts : <<i, n>> \in Attempt
      /\ state \in [Job -> {"absent", "queued", "running", "succeeded", "failed", "cancelled"}]
      /\ attempt \in [Job -> Nat] /\ worker \in [Job -> Worker \cup {NoWorker}]
      /\ wrote \in [Job -> 0 .. MaxAttempts] /\ MaxAttempts \in Nat
  BY JobAssumption DEF Attempt, StoreInv, StoreTypeOK, Sites
<1>00. deposed \subseteq deposed'
  BY DeposedGrows
<1> SUFFICES ASSUME NEW j \in Job, state'[j] = "succeeded"
             PROVE  /\ wrote'[j] \in 1 .. MaxAttempts
                    /\ wrote'[j] # attempt'[j] =>
                         /\ owner'[<<j, wrote'[j]>>] = worker'[j]
                         /\ \E d \in deposed' : d[1] = j /\ d[2] <= wrote'[j]
  BY DEF WroteByAttempt, LateResultOnlyOfHolder
<1> DEFINE Recorded == /\ wrote'[j] \in 1 .. MaxAttempts
                       /\ wrote'[j] # attempt'[j] =>
                            /\ owner'[<<j, wrote'[j]>>] = worker'[j]
                            /\ \E d \in deposed' : d[1] = j /\ d[2] <= wrote'[j]
<1>1. ASSUME state[j] = "succeeded", wrote'[j] = wrote[j], attempt'[j] = attempt[j],
             worker'[j] = worker[j], owner'[<<j, wrote[j]>>] = owner[<<j, wrote[j]>>]
      PROVE  Recorded
  BY <1>00, <1>1 DEF WroteByAttempt, LateResultOnlyOfHolder
<1>2. CASE UNCHANGED <<storeVars, wrote, owner>>
  BY <1>1, <1>2 DEF storeVars
<1>3. ASSUME NEW i \in Job, Submit(i) \/ RequestCancel(i) \/ LeaseLapses(i) PROVE Recorded
  <2>1. state[j] = "succeeded" /\ UNCHANGED <<attempt, worker, wrote, owner>>
    BY <1>0, <1>3
    DEF Submit, RequestCancel, LeaseLapses, Enqueue, Cancel, Lapse, slotVars, histVars
  <2> QED BY <1>1, <2>1
<1>4. ASSUME NEW r \in Worker, Poll(r) PROVE Recorded
  <2>1. CASE StartTick(r)
    <3>1. /\ UNCHANGED <<attempt, wrote, owner>>
          /\ state'[j] = IF j \in Expired THEN Recovered(j) ELSE state[j]
          /\ worker'[j] = IF j \in Expired THEN NoWorker ELSE worker[j]
      BY <2>1 DEF StartTick, ExpireLeases, slotVars
    <3>2. j \notin Expired
      BY <3>1 DEF Recovered
    <3> QED BY <1>1, <3>1, <3>2
  <2>2. CASE LockInflight(r) \/ UnlockInflight(r) \/ EndTick(r) \/ LeaveLoop(r)
    BY <1>2, <2>2 DEF LockInflight, UnlockInflight, EndTick, LeaveLoop, slotVars, histVars
  <2>3. ASSUME NEW i \in Job, Beat(r, i) PROVE Recorded
    <3>1. UNCHANGED <<state, attempt, worker, wrote, owner>>
      BY <2>3 DEF Beat, Heartbeat, storeVars, slotVars, histVars
    <3> QED BY <1>1, <3>1
  <2>4. ASSUME NEW i \in Job, ClaimNext(r, i) PROVE Recorded
    <3>1. /\ state[i] = "queued" /\ state' = [state EXCEPT ![i] = "running"]
          /\ attempt' = [attempt EXCEPT ![i] = @ + 1] /\ worker' = [worker EXCEPT ![i] = r]
          /\ wrote' = wrote
      BY <2>4 DEF ClaimNext, ClaimOldest, Claim, histVars
    <3>2. i # j
      BY <1>0, <3>1
    <3>3. /\ state[j] = "succeeded" /\ attempt'[j] = attempt[j] /\ worker'[j] = worker[j]
      BY <1>0, <3>1, <3>2
    <3>4. <<j, wrote[j]>> \in Attempt /\ <<j, wrote[j]>> # <<i, attempt[i] + 1>>
      BY <1>0, <3>2, <3>3 DEF WroteByAttempt
    <3>5. owner'[<<j, wrote[j]>>] = owner[<<j, wrote[j]>>]
      BY <2>4, <3>4 DEF ClaimNext, Bookkeeping
    <3> QED BY <1>1, <3>1, <3>3, <3>5
  <2> QED BY <1>4, <2>1, <2>2, <2>3, <2>4 DEF Poll
<1>5. ASSUME NEW r \in Worker, Start(r) \/ ClosePool(r) \/ Crash(r) \/ TickFails(r) \/ RequestStop(r)
      PROVE  Recorded
  BY <1>2, <1>5 DEF Start, ClosePool, Crash, TickFails, RequestStop, slotVars, histVars
<1>6. ASSUME NEW t \in Attempt, Finish(t) PROVE Recorded
  <2>0. owner' = owner /\ deposed' = deposed
    BY <1>6 DEF Finish
  <2>1. CASE ~Holds(t[1], owner[t])
    BY <1>2, <1>6, <2>1 DEF Finish, Write
  <2>2. CASE Holds(t[1], owner[t])
    <3>1. /\ state' = [state EXCEPT ![t[1]] = "succeeded"]
          /\ wrote' = [wrote EXCEPT ![t[1]] = t[2]]
          /\ UNCHANGED <<attempt, worker>>
      BY <1>6, <2>2 DEF Finish, Write, Terminal
    <3>2. CASE t[1] = j
      <4>1. wrote'[j] = t[2] /\ t = <<j, wrote'[j]>> /\ wrote'[j] \in 1 .. MaxAttempts
        BY <1>0, <3>1, <3>2
      <4>2. worker[j] = owner[t]
        BY <2>2, <3>2 DEF Holds
      <4>3. t[2] # attempt[j] => Deposed(t)
        BY <1>6, <3>2 DEF Finish, HolderOrDeposed, Unwritten
      <4> QED BY <2>0, <3>1, <3>2, <4>1, <4>2, <4>3 DEF Deposed
    <3>3. CASE t[1] # j
      <4>1. state[j] = "succeeded" /\ wrote'[j] = wrote[j]
        BY <1>0, <3>1, <3>3
      <4> QED BY <1>1, <2>0, <3>1, <4>1
    <3> QED BY <3>2, <3>3
  <2> QED BY <2>1, <2>2
<1>7. ASSUME NEW t \in Attempt, Fail(t) PROVE Recorded
  <2>1. CASE ~Holds(t[1], owner[t])
    BY <1>2, <1>7, <2>1 DEF Fail, Write
  <2>2. CASE Holds(t[1], owner[t])
    <3>1. /\ state' = [state EXCEPT ![t[1]] = "failed"]
          /\ wrote' = [wrote EXCEPT ![t[1]] = t[2]]
          /\ UNCHANGED <<attempt, worker, owner>>
      BY <1>7, <2>2 DEF Fail, Write, Terminal
    <3>2. t[1] # j /\ state[j] = "succeeded" /\ wrote'[j] = wrote[j]
      BY <1>0, <3>1
    <3> QED BY <1>1, <3>1, <3>2
  <2> QED BY <2>1, <2>2
<1>8. ASSUME NEW t \in Attempt, RequeueFailed(t) PROVE Recorded
  <2>0. UNCHANGED <<wrote, owner>>
    BY <1>8 DEF RequeueFailed, histVars
  <2>1. CASE ~CanRequeue(t[1])
    BY <1>2, <1>8, <2>0, <2>1 DEF RequeueFailed
  <2>2. CASE CanRequeue(t[1])
    <3>1. /\ state[t[1]] = "failed" /\ attempt' = attempt
          /\ state' = [state EXCEPT ![t[1]] = "queued"]
          /\ worker' = [worker EXCEPT ![t[1]] = NoWorker]
      BY <1>8, <2>2 DEF RequeueFailed, Requeue, CanRequeue
    <3>2. t[1] # j /\ state[j] = "succeeded" /\ worker'[j] = worker[j]
      BY <1>0, <3>1
    <3> QED BY <1>1, <2>0, <3>1, <3>2
  <2> QED BY <2>1, <2>2
<1>9. ASSUME NEW t \in Attempt, Raise(t) \/ Leave(t) \/ RecordingFails(t) PROVE Recorded
  BY <1>2, <1>9 DEF Raise, Leave, RecordingFails, histVars
<1>10. CASE UNCHANGED vars
  BY <1>2, <1>10 DEF vars, slotVars, histVars
<1> QED BY <1>3, <1>4, <1>5, <1>6, <1>7, <1>8, <1>9, <1>10 DEF Next, RunOne, Faults

-----------------------------------------------------------------------------
(* Slots *)

\* Attempts may go on as long as the living stay alive and the ended stay ended.
LEMMA SlotsFrame ==
  ASSUME SlotsAccounted, UNCHANGED <<inflight, owner>>,
         \A r \in Worker : status'[r] = "up" => status[r] = "up" /\
           \A t \in Attempt : owner[t] = r =>
             (Alive(t)' <=> Alive(t)) /\ (phase[t] = "done" => phase'[t] = "done")
  PROVE  SlotsAccounted'
BY DEF SlotsAccounted

\* Every step keeps SlotsAccounted: a slot is taken with an attempt and released with one.
LEMMA SlotsStep ==
  ASSUME StoreInv, Sites, Bookkeeping, AttemptsAreClaimed, PoolIsPending, SlotsAccounted, [Next]_vars
  PROVE  SlotsAccounted'
<1>1. CASE UNCHANGED <<status, inflight, owner, phase>>
  BY <1>1, SlotsFrame DEF Alive
<1>2. CASE \E j \in Job : Submit(j) \/ RequestCancel(j) \/ LeaseLapses(j)
  BY <1>1, <1>2 DEF Submit, RequestCancel, LeaseLapses, slotVars
<1>3. ASSUME NEW r \in Worker, Poll(r) PROVE SlotsAccounted'
  <2>1. CASE StartTick(r) \/ LockInflight(r) \/ UnlockInflight(r) \/ EndTick(r) \/ LeaveLoop(r)
             \/ \E j \in Job : Beat(r, j)
    BY <1>1, <2>1
    DEF StartTick, LockInflight, UnlockInflight, EndTick, LeaveLoop, Beat, slotVars
  <2>2. ASSUME NEW j \in Job, ClaimNext(r, j) PROVE SlotsAccounted'
    <3> DEFINE t == <<j, attempt[j] + 1>>
    <3>1. t \in Attempt /\ phase[t] = "none" /\ t[1] = j
      BY <2>2, ClaimedIsNew
    <3>2. /\ status' = status /\ inflight'[r] = inflight[r] \cup {j}
          /\ \A s \in Worker : s # r => inflight'[s] = inflight[s]
      BY <2>2 DEF ClaimNext, Sites
    <3>3. \A u \in Attempt : u # t => phase'[u] = phase[u] /\ owner'[u] = owner[u]
      BY <2>2 DEF ClaimNext, Bookkeeping
    <3>4. CASE status[r] = "closed"
      <4>1. UNCHANGED <<phase, owner>>
        BY <2>2, <3>4 DEF ClaimNext
      <4> QED BY <3>2, <3>4, <4>1 DEF SlotsAccounted, Alive
    <3>5. CASE status[r] # "closed"
      <4>1. /\ phase' = [phase EXCEPT ![t] = "pending"]
            /\ owner' = [owner EXCEPT ![t] = r]
        BY <2>2, <3>5 DEF ClaimNext
      <4>2. phase'[t] = "pending" /\ owner'[t] = r
        BY <3>1, <4>1 DEF Bookkeeping
      <4> HIDE DEF t
      <4> SUFFICES ASSUME NEW s \in Worker, status[s] = "up"
                   PROVE  /\ \A i \in inflight'[s] :
                               \E u \in Attempt : u[1] = i /\ owner'[u] = s /\ Alive(u)'
                          /\ \A u \in Attempt : owner'[u] = s /\ Alive(u)' =>
                               \/ u[1] \in inflight'[s]
                               \/ \E w \in Attempt : w[1] = u[1] /\ owner'[w] = s /\ phase'[w] = "done"
        BY <3>2 DEF SlotsAccounted
      <4>3. ASSUME NEW i \in inflight'[s]
            PROVE  \E u \in Attempt : u[1] = i /\ owner'[u] = s /\ Alive(u)'
        <5>1. CASE s = r /\ i = j
          BY <3>1, <4>2, <5>1 DEF Alive
        <5>2. CASE ~(s = r /\ i = j)
          <6>1. i \in inflight[s]
            BY <3>2, <4>3, <5>2
          <6>2. PICK u \in Attempt : u[1] = i /\ owner[u] = s /\ Alive(u)
            BY <6>1 DEF SlotsAccounted
          <6>3. u # t
            BY <3>1, <6>2 DEF Alive
          <6> QED BY <3>3, <6>2, <6>3 DEF Alive
        <5> QED BY <5>1, <5>2
      <4>4. ASSUME NEW u \in Attempt, owner'[u] = s, Alive(u)'
            PROVE  \/ u[1] \in inflight'[s]
                   \/ \E w \in Attempt : w[1] = u[1] /\ owner'[w] = s /\ phase'[w] = "done"
        <5>1. CASE u = t
          BY <3>1, <3>2, <4>2, <4>4, <5>1
        <5>2. CASE u # t
          <6>1. owner[u] = s /\ Alive(u)
            BY <3>3, <4>4, <5>2 DEF Alive
          <6>2. CASE u[1] \in inflight[s]
            BY <3>2, <6>2
          <6>3. CASE \E w \in Attempt : w[1] = u[1] /\ owner[w] = s /\ phase[w] = "done"
            <7>1. PICK w \in Attempt : w[1] = u[1] /\ owner[w] = s /\ phase[w] = "done"
              BY <6>3
            <7>2. w # t
              BY <3>1, <7>1
            <7> QED BY <3>3, <7>1, <7>2
          <6> QED BY <6>1, <6>2, <6>3 DEF SlotsAccounted
        <5> QED BY <5>1, <5>2
      <4> QED BY <4>3, <4>4
    <3> QED BY <3>4, <3>5
  <2> QED BY <1>3, <2>1, <2>2 DEF Poll
<1>4. ASSUME NEW r \in Worker, Start(r) PROVE SlotsAccounted'
  <2>1. UNCHANGED <<status, inflight, owner>>
    BY <1>4 DEF Start
  <2>2. \A t \in Attempt : (Alive(t)' <=> Alive(t)) /\ (phase[t] = "done" => phase'[t] = "done")
    BY <1>4, StartedIsPending DEF Alive, Bookkeeping
  <2> QED BY <2>1, <2>2, SlotsFrame
<1>5. ASSUME NEW r \in Worker, ClosePool(r) PROVE SlotsAccounted'
  <2>1. UNCHANGED <<inflight, owner>>
    BY <1>5 DEF ClosePool
  <2>2. \A s \in Worker : status'[s] = "up" => s # r /\ status[s] = "up"
    BY <1>5 DEF ClosePool, Sites
  <2>3. \A t \in Attempt : owner[t] # r => phase'[t] = phase[t]
    BY <1>5 DEF ClosePool
  <2> QED BY <2>1, <2>2, <2>3, SlotsFrame DEF Alive
<1>6. ASSUME NEW r \in Worker, Crash(r) PROVE SlotsAccounted'
  <2>1. /\ owner' = owner
        /\ \A s \in Worker : status'[s] = "up" => s # r /\ status[s] = "up" /\ inflight'[s] = inflight[s]
    BY <1>6 DEF Crash, Sites
  <2>2. \A t \in Attempt : owner[t] # r => phase'[t] = phase[t]
    BY <1>6 DEF Crash
  <2> QED BY <2>1, <2>2 DEF SlotsAccounted, Alive
<1>7. ASSUME NEW t \in Attempt, RunOne(t) \/ RecordingFails(t), ~Leave(t) PROVE SlotsAccounted'
  <2>1. UNCHANGED <<status, inflight, owner>>
    BY <1>7 DEF RunOne, Finish, Raise, Fail, RequeueFailed, RecordingFails
  <2>2. /\ phase[t] \in {"running", "raised", "failed"}
        /\ \E p \in {"raised", "failed", "leaving"} : phase' = [phase EXCEPT ![t] = p]
    BY <1>7 DEF RunOne, Finish, Raise, Fail, RequeueFailed, RecordingFails, SetPhase
  <2>3. \A u \in Attempt : (Alive(u)' <=> Alive(u)) /\ (phase[u] = "done" => phase'[u] = "done")
    BY <2>2 DEF Alive, Bookkeeping
  <2> QED BY <2>1, <2>3, SlotsFrame
<1>8. ASSUME NEW t \in Attempt, Leave(t) PROVE SlotsAccounted'
  <2>1. /\ phase[t] = "leaving" /\ phase' = [phase EXCEPT ![t] = "done"]
        /\ UNCHANGED <<status, owner>> /\ owner[t] \in Worker
        /\ inflight' = [inflight EXCEPT ![owner[t]] = inflight[owner[t]] \ {t[1]}]
    BY <1>8 DEF Leave, Released, SetPhase, Bookkeeping
  <2>2. phase'[t] = "done" /\ \A u \in Attempt : u # t => phase'[u] = phase[u]
    BY <2>1 DEF Bookkeeping
  <2>3. /\ inflight'[owner[t]] = inflight[owner[t]] \ {t[1]}
        /\ \A s \in Worker : s # owner[t] => inflight'[s] = inflight[s]
    BY <2>1 DEF Sites
  <2> SUFFICES ASSUME NEW s \in Worker, status[s] = "up"
               PROVE  /\ \A i \in inflight'[s] :
                           \E u \in Attempt : u[1] = i /\ owner[u] = s /\ Alive(u)'
                      /\ \A u \in Attempt : owner[u] = s /\ Alive(u)' =>
                           \/ u[1] \in inflight'[s]
                           \/ \E w \in Attempt : w[1] = u[1] /\ owner[w] = s /\ phase'[w] = "done"
    BY <2>1 DEF SlotsAccounted
  <2>4. ASSUME NEW i \in inflight'[s]
        PROVE  \E u \in Attempt : u[1] = i /\ owner[u] = s /\ Alive(u)'
    <3>1. i \in inflight[s] /\ (s = owner[t] => i # t[1])
      BY <2>3, <2>4
    <3>2. PICK u \in Attempt : u[1] = i /\ owner[u] = s /\ Alive(u)
      BY <3>1 DEF SlotsAccounted
    <3>3. u # t
      BY <3>1, <3>2
    <3> QED BY <2>2, <3>2, <3>3 DEF Alive
  <2>5. ASSUME NEW u \in Attempt, owner[u] = s, Alive(u)'
        PROVE  \/ u[1] \in inflight'[s]
               \/ \E w \in Attempt : w[1] = u[1] /\ owner[w] = s /\ phase'[w] = "done"
    <3>1. u # t
      BY <2>2, <2>5 DEF Alive
    <3>2. Alive(u)
      BY <2>2, <2>5, <3>1 DEF Alive
    <3>3. CASE u[1] \in inflight[s]
      BY <2>2, <2>3, <2>5, <3>3
    <3>4. CASE \E w \in Attempt : w[1] = u[1] /\ owner[w] = s /\ phase[w] = "done"
      BY <2>1, <2>2, <3>4
    <3> QED BY <2>5, <3>2, <3>3, <3>4 DEF SlotsAccounted
  <2> QED BY <2>4, <2>5
<1>9. ASSUME NEW r \in Worker, RequestStop(r) PROVE SlotsAccounted'
  <2>1. /\ UNCHANGED <<inflight, owner, phase>>
        /\ \A s \in Worker : status'[s] = "up" => status[s] = "up"
    BY <1>9 DEF RequestStop, slotVars, Sites
  <2> QED BY <2>1, SlotsFrame DEF Alive
<1>10. ASSUME NEW r \in Worker, TickFails(r) PROVE SlotsAccounted'
  BY <1>1, <1>10 DEF TickFails, slotVars
<1>11. CASE UNCHANGED vars
  BY <1>1, <1>11 DEF vars, slotVars
<1> QED BY <1>2, <1>3, <1>4, <1>5, <1>6, <1>7, <1>8, <1>9, <1>10, <1>11 DEF Next, RunOne, Faults

-----------------------------------------------------------------------------
(* Theorems *)

\* The invariant holds initially: no job, no attempt, no slot.
LEMMA RunnerInvInit ==
  Init => RunnerInv
<1> SUFFICES ASSUME Init PROVE RunnerInv
  OBVIOUS
<1>1. StoreInv /\ Bookkeeping
  BY RunnerInit
<1>2. Sites
  BY RunnerAssumption, JobAssumption, FS_EmptySet DEF Init, Sites
<1>3. AttemptsAreClaimed /\ PoolIsPending /\ HolderOrDeposed
  BY DEF Init, AttemptsAreClaimed, PoolIsPending, HolderOrDeposed, Unwritten
<1>4. WroteByAttempt /\ LateResultOnlyOfHolder
  BY DEF Init, StoreInit, WroteByAttempt, LateResultOnlyOfHolder
<1>5. SlotsAccounted
  BY DEF Init, SlotsAccounted, Alive
<1> QED BY <1>1, <1>2, <1>3, <1>4, <1>5 DEF RunnerInv

\* Every step of the runners keeps it.
LEMMA RunnerInvStep ==
  RunnerInv /\ [Next]_vars => RunnerInv'
<1> SUFFICES ASSUME RunnerInv, [Next]_vars PROVE RunnerInv'
  OBVIOUS
<1> USE DEF RunnerInv
<1>1. StoreInv'
  BY RunnerStepIsStoreStep, StoreNextInv DEF Bookkeeping
<1>2. Bookkeeping' /\ Sites'
  BY RunnerNextKeeps, SitesKept
<1>3. AttemptsAreClaimed' /\ PoolIsPending' /\ HolderOrDeposed'
  BY AttemptsClaimedStep, PoolStep, HolderStep
<1>4. WroteByAttempt' /\ LateResultOnlyOfHolder' /\ SlotsAccounted'
  BY LateResultStep, SlotsStep
<1> QED BY <1>1, <1>2, <1>3, <1>4

\* However many runners and threads, whatever crashes, stops or stalls: an attempt that
\* has not written its outcome holds its job or is known to be deposed, and slots, results
\* and types are as stated.
THEOREM RunnerInvariant ==
  Spec => []RunnerInv
BY RunnerInvInit, RunnerInvStep, PTL DEF Spec

\* The variables of the runners keep their types; in particular a job is never claimed
\* more often than max_attempts.
THEOREM RunnerTypeOK ==
  Spec => []TypeOK
<1>1. RunnerInv => TypeOK
  BY DEF RunnerInv, StoreInv, Sites, Bookkeeping, Phases, TypeOK
<1> QED BY <1>1, RunnerInvariant, PTL

\* Two attempts of one job execute at once only after a lease of it was expired under the
\* older one or an earlier one: of the two, the older is not the current attempt.
THEOREM OverlapsNeedExpiry ==
  Spec => []OverlapNeedsExpiry
<1>1. ASSUME RunnerInv PROVE OverlapNeedsExpiry
  <2> SUFFICES ASSUME NEW t \in Attempt, NEW u \in Attempt, t[1] = u[1], t[2] < u[2],
                      Executing(t), Executing(u)
               PROVE  Deposed(t)
    BY DEF OverlapNeedsExpiry, Deposed
  <2>1. u[2] <= attempt[u[1]]
    BY <1>1 DEF RunnerInv, AttemptsAreClaimed, Executing
  <2>2. t[2] # attempt[t[1]]
    BY <1>1, <2>1, JobAssumption DEF Attempt, RunnerInv, StoreInv, StoreTypeOK
  <2> QED BY <1>1, <2>2 DEF RunnerInv, HolderOrDeposed, Unwritten, Executing
<1> QED BY <1>1, RunnerInvariant, PTL

\* A result is recorded by the attempt that holds the job, or by a deposed one of the same
\* runner: store.py's guard lets no other runner's late result in.
THEOREM LateResultsAreOfHolders ==
  Spec => []LateResultOnlyOfHolder
<1>1. RunnerInv => LateResultOnlyOfHolder
  BY DEF RunnerInv
<1> QED BY <1>1, RunnerInvariant, PTL

\* While a runner is up no slot leaks, and no unfinished attempt is without its slot but by
\* the end of another attempt of the job.
THEOREM SlotsAreAccounted ==
  Spec => []SlotsAccounted
<1>1. RunnerInv => SlotsAccounted
  BY DEF RunnerInv
<1> QED BY <1>1, RunnerInvariant, PTL

-----------------------------------------------------------------------------
(* Heartbeats. A pool of two threads can run a retry beside the end of the attempt before    *)
(* it, which takes the slot the two share; what follows says when that cannot happen.         *)

\* With one thread: the poller claims only when nothing is in flight, so a runner has one
\* attempt at a time, and its job is what is in flight.
OneAtATime ==
  \A r \in Worker :
    /\ \A t \in Attempt : owner[t] = r /\ Alive(t) => inflight[r] = {t[1]}
    /\ \A t, u \in Attempt : owner[t] = r /\ owner[u] = r /\ Alive(t) /\ Alive(u) => t = u
    /\ pc[r] = "claim" /\ free[r] > 0 => inflight[r] = {} /\ free[r] = 1

\* Attempts end, and claims are given up.
LEMMA OneAtATimeFrame ==
  ASSUME OneAtATime,
         \A r \in Worker :
           /\ \A t \in Attempt : owner'[t] = r /\ Alive(t)' =>
                owner[t] = r /\ Alive(t) /\ inflight'[r] = inflight[r]
           /\ pc'[r] = "claim" /\ free'[r] > 0 =>
                pc[r] = "claim" /\ free[r] > 0 /\ free'[r] = free[r] /\ inflight'[r] \subseteq inflight[r]
  PROVE  OneAtATime'
<1> SUFFICES ASSUME NEW r \in Worker
             PROVE /\ \A t \in Attempt : owner'[t] = r /\ Alive(t)' => inflight'[r] = {t[1]}
                   /\ \A t, u \in Attempt :
                        owner'[t] = r /\ owner'[u] = r /\ Alive(t)' /\ Alive(u)' => t = u
                   /\ pc'[r] = "claim" /\ free'[r] > 0 => inflight'[r] = {} /\ free'[r] = 1
  BY DEF OneAtATime
<1>1. \A t \in Attempt : owner'[t] = r /\ Alive(t)' => inflight'[r] = {t[1]}
  BY DEF OneAtATime
<1>2. \A t, u \in Attempt : owner'[t] = r /\ owner'[u] = r /\ Alive(t)' /\ Alive(u)' => t = u
  BY DEF OneAtATime
<1>3. pc'[r] = "claim" /\ free'[r] > 0 => inflight'[r] = {} /\ free'[r] = 1
  BY DEF OneAtATime
<1> QED BY <1>1, <1>2, <1>3

\* The steps of the pollers.
LEMMA OneAtATimePoll ==
  ASSUME Threads = 1, RunnerInv, OneAtATime, NEW r \in Worker, Poll(r)
  PROVE  OneAtATime'
<1>0. Sites /\ Bookkeeping
  BY DEF RunnerInv
<1>1. CASE StartTick(r) \/ LockInflight(r) \/ EndTick(r) \/ LeaveLoop(r)
  <2>1. /\ UNCHANGED <<inflight, phase, owner, free>>
        /\ \E p \in {"expired", "beat", "idle", "out"} : pc' = [pc EXCEPT ![r] = p]
    BY <1>1 DEF StartTick, LockInflight, EndTick, LeaveLoop, slotVars
  <2>2. \A q \in Worker : pc'[q] = "claim" => pc[q] = "claim"
    BY <1>0, <2>1 DEF Sites
  <2> QED BY <2>1, <2>2, OneAtATimeFrame DEF Alive
<1>2. ASSUME NEW j \in Job, Beat(r, j) PROVE OneAtATime'
  BY <1>2, OneAtATimeFrame DEF Beat, slotVars, Alive
<1>3. CASE UnlockInflight(r)
  <2>1. /\ UNCHANGED <<inflight, phase, owner>> /\ pc' = [pc EXCEPT ![r] = "claim"]
        /\ free' = [free EXCEPT ![r] = 1 - Cardinality(inflight[r])]
    BY <1>3 DEF UnlockInflight, slotVars
  <2>2. IsFiniteSet(inflight[r]) /\ Cardinality(inflight[r]) \in Nat
    BY <1>0, FS_CardinalityType DEF Sites
  <2>3. free'[r] > 0 => inflight[r] = {} /\ free'[r] = 1
    BY <1>0, <2>1, <2>2, FS_EmptySet DEF Sites
  <2>4. \A q \in Worker \ {r} : pc'[q] = pc[q] /\ free'[q] = free[q]
    BY <1>0, <2>1 DEF Sites
  <2>5. \A t \in Attempt : Alive(t)' <=> Alive(t)
    BY <2>1 DEF Alive
  <2>6. \A q \in Worker : pc'[q] = "claim" /\ free'[q] > 0 => inflight'[q] = {} /\ free'[q] = 1
    BY <2>1, <2>3, <2>4 DEF OneAtATime
  <2> QED BY <2>1, <2>5, <2>6 DEF OneAtATime
<1>4. ASSUME NEW j \in Job, ClaimNext(r, j) PROVE OneAtATime'
  <2>0. /\ pc[r] = "claim" /\ free[r] > 0 /\ inflight' = [inflight EXCEPT ![r] = @ \cup {j}]
        /\ inflight[r] = {} /\ free[r] = 1
    BY <1>4 DEF ClaimNext, OneAtATime
  <2>1. inflight'[r] = {j} /\ \A q \in Worker \ {r} : inflight'[q] = inflight[q]
    BY <1>0, <2>0 DEF Sites
  <2>2. \A t \in Attempt : owner[t] = r => ~ Alive(t)
    BY <2>0 DEF OneAtATime
  <2>3. CASE status[r] = "closed"
    <3>1. pc' = [pc EXCEPT ![r] = "idle"] /\ UNCHANGED <<free, phase, owner>>
      BY <1>4, <2>3 DEF ClaimNext
    <3>2. \A q \in Worker : pc'[q] = "claim" => pc[q] = "claim" /\ q # r
      BY <1>0, <3>1 DEF Sites
    <3>3. \A t \in Attempt : Alive(t)' <=> Alive(t)
      BY <3>1 DEF Alive
    <3>4. \A q \in Worker, t \in Attempt : owner'[t] = q /\ Alive(t)' =>
             owner[t] = q /\ Alive(t) /\ inflight'[q] = inflight[q]
      BY <2>1, <2>2, <3>1, <3>3
    <3>5. \A q \in Worker : pc'[q] = "claim" /\ free'[q] > 0 =>
             pc[q] = "claim" /\ free[q] > 0 /\ free'[q] = free[q] /\ inflight'[q] \subseteq inflight[q]
      BY <2>1, <3>1, <3>2
    <3> QED BY <3>4, <3>5, OneAtATimeFrame
  <2>4. CASE status[r] # "closed"
    <3>1. PICK t : t = <<j, attempt[j] + 1>>
      OBVIOUS
    <3>2. /\ free' = [free EXCEPT ![r] = @ - 1] /\ pc' = pc
          /\ phase' = [phase EXCEPT ![t] = "pending"] /\ owner' = [owner EXCEPT ![t] = r]
      BY <1>4, <2>4, <3>1 DEF ClaimNext
    <3>3. t \in Attempt /\ t[1] = j
      BY <1>4, <3>1, ClaimedIsNew DEF RunnerInv
    <3>4. /\ owner'[t] = r
          /\ \A u \in Attempt \ {t} : owner'[u] = owner[u] /\ (Alive(u)' <=> Alive(u))
      BY <1>0, <3>2, <3>3 DEF Bookkeeping, Alive
    <3>5. free'[r] = 0 /\ \A q \in Worker \ {r} : free'[q] = free[q]
      BY <1>0, <2>0, <3>2 DEF Sites
    <3>6. \A q \in Worker, u \in Attempt : owner'[u] = q /\ Alive(u)' => inflight'[q] = {u[1]}
      BY <2>1, <2>2, <3>3, <3>4 DEF OneAtATime
    <3>7. \A q \in Worker, u, v \in Attempt :
            owner'[u] = q /\ owner'[v] = q /\ Alive(u)' /\ Alive(v)' => u = v
      BY <2>2, <3>4 DEF OneAtATime
    <3>8. \A q \in Worker : pc'[q] = "claim" /\ free'[q] > 0 => inflight'[q] = {} /\ free'[q] = 1
      BY <2>1, <3>2, <3>5 DEF OneAtATime
    <3> QED BY <3>6, <3>7, <3>8 DEF OneAtATime
  <2> QED BY <2>3, <2>4
<1> QED BY <1>1, <1>2, <1>3, <1>4 DEF Poll

\* And of the others.
LEMMA OneAtATimeStep ==
  ASSUME Threads = 1, RunnerInv, OneAtATime, [Next]_vars
  PROVE  OneAtATime'
<1>0. Sites /\ Bookkeeping /\ PoolIsPending
  BY DEF RunnerInv
<1>1. CASE UNCHANGED <<pc, free, inflight, owner, phase>>
  BY <1>1, OneAtATimeFrame DEF Alive
<1>2. CASE \E j \in Job : Submit(j) \/ RequestCancel(j) \/ LeaseLapses(j)
  BY <1>1, <1>2 DEF Submit, RequestCancel, LeaseLapses, pollVars, slotVars
<1>3. ASSUME NEW r \in Worker, Poll(r) PROVE OneAtATime'
  BY <1>3, OneAtATimePoll
<1>4. ASSUME NEW r \in Worker, Start(r) PROVE OneAtATime'
  <2>1. /\ Head(pool[r]) \in Attempt /\ phase[Head(pool[r])] = "pending"
        /\ phase' = [phase EXCEPT ![Head(pool[r])] = "running"]
    BY <1>0, <1>4, StartedIsPending
  <2>2. \A t \in Attempt : Alive(t)' => Alive(t)
    BY <1>0, <2>1 DEF Bookkeeping, Alive
  <2>3. UNCHANGED <<pc, free, inflight, owner>>
    BY <1>4 DEF Start, pollVars
  <2> QED BY <2>2, <2>3, OneAtATimeFrame
<1>5. ASSUME NEW r \in Worker, ClosePool(r) PROVE OneAtATime'
  <2>1. \A t \in Attempt : Alive(t)' => Alive(t)
    BY <1>5 DEF ClosePool, Alive
  <2>2. UNCHANGED <<pc, free, inflight, owner>>
    BY <1>5 DEF ClosePool, pollVars
  <2> QED BY <2>1, <2>2, OneAtATimeFrame
<1>6. ASSUME NEW t \in Attempt, Leave(t) PROVE OneAtATime'
  <2>1. /\ phase[t] = "leaving" /\ UNCHANGED <<pc, free, owner>>
        /\ phase' = [phase EXCEPT ![t] = "done"]
        /\ inflight' = [inflight EXCEPT ![owner[t]] = inflight[owner[t]] \ {t[1]}]
    BY <1>6 DEF Leave, SetPhase, Released, pollVars
  <2>2. Alive(t) /\ ~ Alive(t)' /\ \A u \in Attempt : Alive(u)' => Alive(u)
    BY <1>0, <2>1 DEF Bookkeeping, Alive
  <2>3. \A r \in Worker : inflight'[r] \subseteq inflight[r] /\ (r # owner[t] => inflight'[r] = inflight[r])
    BY <1>0, <2>1 DEF Sites
  <2>4. \A r \in Worker, u \in Attempt : owner'[u] = r /\ Alive(u)' => r # owner[t]
    BY <2>1, <2>2 DEF OneAtATime
  <2> QED BY <2>1, <2>2, <2>3, <2>4, OneAtATimeFrame
<1>7. ASSUME NEW t \in Attempt, Finish(t) \/ Raise(t) \/ Fail(t) \/ RequeueFailed(t) \/ RecordingFails(t)
      PROVE  OneAtATime'
  <2>1. Alive(t) /\ UNCHANGED <<pc, free, inflight, owner>> /\ \E p : phase' = [phase EXCEPT ![t] = p]
    BY <1>7 DEF Finish, Raise, Fail, RequeueFailed, RecordingFails, SetPhase, Alive, pollVars
  <2>2. \A u \in Attempt : Alive(u)' => Alive(u)
    BY <1>0, <2>1 DEF Bookkeeping, Alive
  <2> QED BY <2>1, <2>2, OneAtATimeFrame
<1>8. ASSUME NEW r \in Worker, TickFails(r) \/ RequestStop(r) PROVE OneAtATime'
  <2>1. UNCHANGED <<free, inflight, owner, phase>> /\ (pc' = pc \/ pc' = [pc EXCEPT ![r] = "idle"])
    BY <1>8 DEF TickFails, RequestStop, slotVars, pollVars
  <2>2. \A q \in Worker : pc'[q] = "claim" => pc[q] = "claim"
    BY <1>0, <2>1 DEF Sites
  <2> QED BY <2>1, <2>2, OneAtATimeFrame DEF Alive
<1>9. ASSUME NEW r \in Worker, Crash(r) PROVE OneAtATime'
  <2>1. /\ pc' = [pc EXCEPT ![r] = "out"] /\ inflight' = [inflight EXCEPT ![r] = {}]
        /\ UNCHANGED <<free, owner>>
    BY <1>9 DEF Crash
  <2>2. \A t \in Attempt : Alive(t)' => Alive(t) /\ owner[t] # r
    BY <1>9 DEF Crash, Alive
  <2>3. \A q \in Worker : /\ q # r => inflight'[q] = inflight[q] /\ pc'[q] = pc[q]
                          /\ pc'[r] # "claim"
    BY <1>0, <2>1 DEF Sites
  <2>4. \A q \in Worker : pc'[q] = "claim" => q # r
    BY <2>3
  <2> QED BY <2>1, <2>2, <2>3, <2>4, OneAtATimeFrame
<1>10. CASE UNCHANGED vars
  BY <1>1, <1>10 DEF vars, pollVars, slotVars
<1> QED
  BY <1>2, <1>3, <1>4, <1>5, <1>6, <1>7, <1>8, <1>9, <1>10 DEF Next, RunOne, Faults

\* So a pool of one thread keeps the docstring's claim, "heartbeats while running", whatever
\* leases expire; the run that refutes it has two.
THEOREM OneThreadHeartbeats ==
  ASSUME Threads = 1
  PROVE  Spec => []HeartbeatWhileRunning
<1>1. Init => OneAtATime
  BY DEF Init, OneAtATime, Alive
<1>2. RunnerInv /\ OneAtATime /\ [Next]_vars => OneAtATime'
  BY OneAtATimeStep
<1>3. OneAtATime => HeartbeatWhileRunning
  BY DEF OneAtATime, HeartbeatWhileRunning, Executing, Alive
<1> QED BY <1>1, <1>2, <1>3, RunnerInvariant, PTL DEF Spec

\* The first attempt of a job is in flight while it executes and its runner is up.
FirstAttemptsInFlight ==
  \A r \in Worker, t \in Attempt :
    status[r] = "up" /\ owner[t] = r /\ Executing(t) /\ attempt[t[1]] = 1 => t[1] \in inflight[r]

\* So it is with any number of threads: only a retry can be without heartbeats.
THEOREM FirstAttemptsHeartbeat ==
  Spec => []FirstAttemptsInFlight
<1>1. ASSUME RunnerInv PROVE FirstAttemptsInFlight
  <2> SUFFICES ASSUME NEW r \in Worker, NEW t \in Attempt, status[r] = "up", owner[t] = r,
                      Executing(t), attempt[t[1]] = 1, t[1] \notin inflight[r]
               PROVE  FALSE
    BY DEF FirstAttemptsInFlight
  <2>1. Alive(t) /\ phase[t] # "none"
    BY DEF Executing, Alive
  <2>2. PICK u \in Attempt : u[1] = t[1] /\ owner[u] = r /\ phase[u] = "done"
    BY <1>1, <2>1 DEF RunnerInv, SlotsAccounted
  <2>3. t[2] <= 1 /\ u[2] <= 1
    BY <1>1, <2>1, <2>2 DEF RunnerInv, AttemptsAreClaimed
  <2>4. t[2] = u[2]
    BY <2>3, JobAssumption DEF Attempt
  <2>5. t = u
    BY <2>2, <2>4, SameAttempt
  <2> QED BY <2>1, <2>2, <2>5 DEF Alive
<1> QED BY <1>1, RunnerInvariant, PTL

=============================================================================
