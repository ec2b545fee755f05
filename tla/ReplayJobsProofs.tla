--------------------------- MODULE ReplayJobsProofs --------------------------
(***************************************************************************)
(* The events of a replay agree with its row, for any servers, replays     *)
(* and crashes: what a thread may still push follows from where it is, and *)
(* a row that succeeded is never moved again. Then the routes implement    *)
(* the table's specification, and a replay is executed at most once.       *)
(***************************************************************************)
EXTENDS ReplayJobs, TLAPS

ReplayTypes ==
  /\ state \in [Job -> {"absent", "queued", "running", "succeeded", "failed", "cancelled"}]
  /\ thread \in [Job -> {"none", "scheduled", "running", "completed", "unread", "raised", "ended"}]
  /\ host \in [Job -> SUBSET Server]
  /\ events \in [Job -> SUBSET {"error", "completed"}]
  /\ errors \in [Job -> SUBSET {"enqueue", "claim", "finish", "fail"}]

\* A replay without a row has no thread and no events.
NothingBeforeTheRow ==
  \A j \in Job : state[j] = "absent" => thread[j] = "none" /\ host[j] = {} /\ events[j] = {}

\* Until its thread has an outcome nothing was pushed, and until the thread records success
\* nobody else does, unless it has and could not read it back; a thread about to push
\* completed has recorded it.
ThreadAgreesWithRow ==
  \A j \in Job :
    /\ thread[j] \in {"none", "scheduled", "running", "completed", "unread"} => events[j] = {}
    /\ thread[j] \in {"scheduled", "running"} => state[j] # "succeeded"
    /\ thread[j] = "raised" => state[j] # "succeeded" \/ "finish" \in errors[j]
    /\ thread[j] = "unread" => "finish" \in errors[j]
    /\ thread[j] = "completed" => state[j] = "succeeded"

ReplayInv == ReplayTypes /\ NothingBeforeTheRow /\ ThreadAgreesWithRow /\ EventsAgreeWithRow

\* What the invariant says of one replay.
Good(j) ==
  /\ state[j] = "absent" => thread[j] = "none" /\ host[j] = {} /\ events[j] = {}
  /\ thread[j] \in {"none", "scheduled", "running", "completed", "unread"} => events[j] = {}
  /\ thread[j] \in {"scheduled", "running"} => state[j] # "succeeded"
  /\ thread[j] = "raised" => state[j] # "succeeded" \/ "finish" \in errors[j]
  /\ thread[j] = "unread" => "finish" \in errors[j]
  /\ thread[j] = "completed" => state[j] = "succeeded"
  /\ "completed" \in events[j] => state[j] = "succeeded"
  /\ "error" \in events[j] => state[j] # "succeeded" \/ "finish" \in errors[j]

\* The invariant is its types and what it says of each replay.
LEMMA InvOfEach ==
  ReplayInv <=> ReplayTypes /\ \A j \in Job : Good(j)
BY DEF ReplayInv, NothingBeforeTheRow, ThreadAgreesWithRow, EventsAgreeWithRow, Good

\* A row that moves as the table lets others move it (expired, cancelled or left alone)
\* leaves the invariant of its replay alone.
LEMMA RowMoves ==
  ASSUME ReplayInv, UNCHANGED <<thread, host, events, errors>>,
         state' \in [Job -> {"absent", "queued", "running", "succeeded", "failed", "cancelled"}],
         \A j \in Job :
           state'[j] = state[j]
             \/ (state[j] \in {"queued", "running"} /\ state'[j] \in {"queued", "failed", "cancelled"})
  PROVE  ReplayInv'
BY DEF ReplayInv, ReplayTypes, NothingBeforeTheRow, ThreadAgreesWithRow, EventsAgreeWithRow

\* The step of one replay: the others keep their rows, threads and events.
LEMMA OneReplayMoves ==
  ASSUME ReplayInv, NEW i \in Job, ReplayTypes', Good(i)',
         \A j \in Job : j # i => /\ state'[j] = state[j] /\ thread'[j] = thread[j]
                                 /\ host'[j] = host[j] /\ events'[j] = events[j]
                                 /\ errors'[j] = errors[j]
  PROVE  ReplayInv'
<1>1. \A j \in Job : Good(j)
  BY InvOfEach
<1>2. \A j \in Job : Good(j)'
  BY <1>1 DEF Good
<1>3. ReplayTypes' /\ (\A j \in Job : Good(j))' => ReplayInv'
  BY DEF ReplayInv, NothingBeforeTheRow, ThreadAgreesWithRow, EventsAgreeWithRow, Good
<1> QED BY <1>2, <1>3

\* It holds initially: no replay has a row.
LEMMA ReplayInitInv ==
  Init => ReplayInv
BY DEF Init, StoreInit, ReplayInv, ReplayTypes, NothingBeforeTheRow, ThreadAgreesWithRow,
       EventsAgreeWithRow

\* Every step of the servers keeps it.
LEMMA ReplayStepInv ==
  ReplayInv /\ [Next]_vars => ReplayInv'
<1> SUFFICES ASSUME ReplayInv, [Next]_vars PROVE ReplayInv'
  OBVIOUS
<1>0. ReplayTypes /\ \A j \in Job : Good(j)
  BY InvOfEach
<1>1. ASSUME NEW s \in Server, OpenStore(s) PROVE ReplayInv'
  <2>1. /\ UNCHANGED <<thread, host, events, errors>>
        /\ state' = [j \in Job |-> IF j \in Expired THEN Recovered(j) ELSE state[j]]
    BY <1>1 DEF OpenStore, ExpireLeases
  <2> QED BY <1>0, <2>1, RowMoves DEF ReplayTypes, Expired, Recovered
<1>2. ASSUME NEW s \in Server, NEW i \in Job, Schedule(s, i) \/ ScheduleRaises(s, i) PROVE ReplayInv'
  <2>1. /\ state[i] = "absent" /\ events' = events
        /\ state' = [state EXCEPT ![i] = "queued"]
        /\ host' = [host EXCEPT ![i] = {s}]
        /\ \/ thread' = [thread EXCEPT ![i] = "scheduled"] /\ errors' = errors
           \/ /\ thread' = [thread EXCEPT ![i] = "ended"]
              /\ errors' = [errors EXCEPT ![i] = @ \cup {"enqueue"}]
    BY <1>2 DEF Schedule, ScheduleRaises, Enqueue, SetThread, Raised
  <2>2. ReplayTypes' /\ Good(i)'
    BY <1>0, <2>1 DEF ReplayTypes, Good
  <2> QED BY <1>0, <2>1, <2>2, OneReplayMoves DEF ReplayTypes
<1>3. ASSUME NEW i \in Job, ClaimOwn(i) PROVE ReplayInv'
  <2>1. /\ thread[i] = "scheduled" /\ host' = host /\ events' = events /\ errors' = errors
        /\ \/ /\ state' = [state EXCEPT ![i] = "running"]
              /\ thread' = [thread EXCEPT ![i] = "running"]
           \/ state' = state /\ thread' = [thread EXCEPT ![i] = "ended"]
    BY <1>3 DEF ClaimOwn, Claim, SetThread, storeVars
  <2>2. ReplayTypes' /\ Good(i)'
    BY <1>0, <2>1 DEF ReplayTypes, Good
  <2> QED BY <1>0, <2>1, <2>2, OneReplayMoves DEF ReplayTypes
<1>4. ASSUME NEW i \in Job, Finish(i) \/ FinishRaises(i) PROVE ReplayInv'
  <2>1. /\ thread[i] = "running" /\ host' = host /\ events' = events
        /\ \/ /\ state' = [state EXCEPT ![i] = "succeeded"] /\ errors' = errors
              /\ thread' = [thread EXCEPT ![i] = "completed"]
           \/ /\ state' = [state EXCEPT ![i] = "succeeded"]
              /\ errors' = [errors EXCEPT ![i] = @ \cup {"finish"}]
              /\ thread' = [thread EXCEPT ![i] = "unread"]
           \/ state' = state /\ thread' = [thread EXCEPT ![i] = "ended"] /\ errors' = errors
    BY <1>4 DEF Finish, FinishRaises, Terminal, SetThread, Raised, storeVars
  <2>2. ReplayTypes' /\ Good(i)'
    BY <1>0, <2>1 DEF ReplayTypes, Good
  <2> QED BY <1>0, <2>1, <2>2, OneReplayMoves DEF ReplayTypes
<1>5. ASSUME NEW i \in Job, PushCompleted(i) \/ PushError(i) PROVE ReplayInv'
  <2>1. /\ state' = state /\ host' = host /\ errors' = errors
        /\ \/ /\ thread[i] = "completed" /\ thread' = [thread EXCEPT ![i] = "ended"]
              /\ events' = [events EXCEPT ![i] = @ \cup {"completed"}]
           \/ /\ thread[i] \in {"running", "unread"} /\ thread' = [thread EXCEPT ![i] = "raised"]
              /\ events' = [events EXCEPT ![i] = @ \cup {"error"}]
    BY <1>5 DEF PushCompleted, PushError, SetThread, storeVars
  <2>2. ReplayTypes' /\ Good(i)'
    BY <1>0, <2>1 DEF ReplayTypes, Good
  <2> QED BY <1>0, <2>1, <2>2, OneReplayMoves DEF ReplayTypes
<1>6. ASSUME NEW i \in Job, Fail(i) \/ FailRaises(i) \/ ClaimRaises(i) PROVE ReplayInv'
  <2>1. /\ thread[i] \in {"raised", "scheduled"} /\ thread' = [thread EXCEPT ![i] = "ended"]
        /\ host' = host /\ events' = events
        /\ (state[i] = "running" /\ state' = [state EXCEPT ![i] = "failed"]) \/ state' = state
        /\ \/ errors' = errors
           \/ \E x \in {"claim", "fail"} : errors' = [errors EXCEPT ![i] = @ \cup {x}]
    BY <1>6 DEF Fail, FailRaises, ClaimRaises, Holds, Terminal, SetThread, Raised, storeVars
  <2>2. state[i] # "absent"
    BY <1>0, <2>1 DEF Good
  <2>3. ReplayTypes'
    <3>1. errors' \in [Job -> SUBSET {"enqueue", "claim", "finish", "fail"}]
      BY <1>0, <2>1 DEF ReplayTypes
    <3> QED BY <1>0, <2>1, <3>1 DEF ReplayTypes
  <2>4. /\ thread'[i] = "ended" /\ events'[i] = events[i] /\ errors[i] \subseteq errors'[i]
        /\ state'[i] = state[i] \/ (state[i] = "running" /\ state'[i] = "failed")
    BY <1>0, <2>1 DEF ReplayTypes
  <2>5. Good(i)'
    BY <1>0, <2>2, <2>4 DEF Good
  <2> QED BY <1>0, <2>1, <2>3, <2>5, OneReplayMoves DEF ReplayTypes
<1>7. ASSUME NEW i \in Job, CancelReplay(i) PROVE ReplayInv'
  <2>1. /\ UNCHANGED <<thread, host, events, errors>> /\ state[i] \in {"queued", "running"}
        /\ state' = [state EXCEPT ![i] = "cancelled"]
    BY <1>7 DEF CancelReplay, Cancel, Cancelable
  <2> QED BY <1>0, <2>1, RowMoves DEF ReplayTypes
<1>8. ASSUME NEW i \in Job, LeaseRunsOut(i) PROVE ReplayInv'
  BY <1>0, <1>8, RowMoves DEF LeaseRunsOut, Lapse, ReplayTypes
<1>9. ASSUME NEW s \in Server, Crash(s) PROVE ReplayInv'
  <2>1. /\ state' = state /\ host' = host /\ errors' = errors
        /\ thread' = [j \in Job |-> IF host[j] = {s} THEN "ended" ELSE thread[j]]
        /\ events' = [j \in Job |-> IF host[j] = {s} THEN {} ELSE events[j]]
    BY <1>9 DEF Crash, storeVars
  <2>2. ReplayTypes'
    BY <1>0, <2>1 DEF ReplayTypes
  <2>3. \A j \in Job : Good(j)'
    BY <1>0, <2>1 DEF Good
  <2> QED BY <2>2, <2>3 DEF ReplayInv, NothingBeforeTheRow, ThreadAgreesWithRow, EventsAgreeWithRow, Good
<1>10. CASE UNCHANGED vars
  BY <1>0, <1>10, RowMoves DEF vars, storeVars, ReplayTypes
<1> QED BY <1>1, <1>2, <1>3, <1>4, <1>5, <1>6, <1>7, <1>8, <1>9, <1>10 DEF Next, Replay

\* Whatever is cancelled, recovered or crashes: completed is pushed only for a row that says
\* succeeded and keeps saying so, and error only for one that never will, but for a finish
\* that could not read back what it had committed.
THEOREM EventsAgree ==
  Spec => []EventsAgreeWithRow
<1>1. ReplayInv => EventsAgreeWithRow
  BY DEF ReplayInv
<1> QED BY <1>1, ReplayInitInv, ReplayStepInv, PTL DEF Spec

-----------------------------------------------------------------------------
(* The routes as a client of the table.                                     *)

\* Every step of the servers is one of the table, or leaves it alone.
LEMMA ReplayStepIsStoreStep ==
  [Next]_vars => [StoreNext]_storeVars
<1> SUFFICES ASSUME [Next]_vars PROVE [StoreNext]_storeVars
  OBVIOUS
<1> USE DEF StoreNext, WorkerNext
<1>1. ASSUME NEW s \in Server, OpenStore(s) \/ Crash(s) PROVE [StoreNext]_storeVars
  BY <1>1 DEF OpenStore, Crash
<1>2. ASSUME NEW s \in Server, NEW j \in Job, Schedule(s, j) \/ ScheduleRaises(s, j) PROVE [StoreNext]_storeVars
  BY <1>2 DEF Schedule, ScheduleRaises
<1>3. ASSUME NEW j \in Job, Replay(j) PROVE [StoreNext]_storeVars
  <2>1. WorkerOf(j) \in Worker
    BY ReplayAssumption
  <2>2. CASE ClaimOwn(j)
    BY <2>1, <2>2 DEF ClaimOwn
  <2>3. CASE Finish(j) \/ Fail(j)
    BY <2>1, <2>3 DEF Finish, Fail
  <2>4. CASE PushCompleted(j) \/ PushError(j)
    BY <2>4 DEF PushCompleted, PushError
  <2> QED BY <1>3, <2>2, <2>3, <2>4 DEF Replay
<1>4. ASSUME NEW j \in Job, CancelReplay(j) \/ LeaseRunsOut(j) \/ ClaimRaises(j) \/ FailRaises(j)
      PROVE  [StoreNext]_storeVars
  BY <1>4 DEF CancelReplay, LeaseRunsOut, ClaimRaises, FailRaises
<1>5. ASSUME NEW j \in Job, FinishRaises(j) PROVE [StoreNext]_storeVars
  BY <1>5, ReplayAssumption DEF FinishRaises
<1>6. CASE UNCHANGED vars
  BY <1>6 DEF vars
<1> QED BY <1>1, <1>2, <1>3, <1>4, <1>5, <1>6 DEF Next

\* So the routes implement the table's specification, and what is proved of it for any clients
\* (StoreInvariant and ResultsAreFinal of JobStoreProofs) holds of the replays.
THEOREM ReplaysRefineTable ==
  Spec => StoreSpec
<1>1. Init => StoreInit
  BY DEF Init
<1> QED BY <1>1, ReplayStepIsStoreStep, PTL DEF Spec, StoreSpec

\* A replay that was claimed has used its one attempt.
ClaimedOnce ==
  /\ state \in [Job -> {"absent", "queued", "running", "succeeded", "failed", "cancelled"}]
  /\ attempt \in [Job -> Nat]
  /\ \A j \in Job : state[j] \in {"absent", "queued"} => attempt[j] = 0
  /\ \A j \in Job : attempt[j] <= 1 /\ (state[j] = "running" => attempt[j] = 1)

\* Every statement but a requeue, which no route executes, keeps that: expiry finds the one
\* attempt used and fails the replay.
LEMMA ClaimedOnceStep ==
  ClaimedOnce /\ [Next]_vars => ClaimedOnce'
<1> SUFFICES ASSUME ClaimedOnce, [Next]_vars PROVE ClaimedOnce'
  OBVIOUS
<1> USE ReplayAssumption DEF ClaimedOnce
<1>1. ASSUME NEW s \in Server, OpenStore(s) \/ Crash(s) PROVE ClaimedOnce'
  BY <1>1 DEF OpenStore, Crash, ExpireLeases, Expired, Recovered, storeVars
<1>2. ASSUME NEW s \in Server, NEW j \in Job, Schedule(s, j) \/ ScheduleRaises(s, j) PROVE ClaimedOnce'
  BY <1>2 DEF Schedule, ScheduleRaises, Enqueue
<1>3. ASSUME NEW j \in Job, ClaimOwn(j) PROVE ClaimedOnce'
  BY <1>3 DEF ClaimOwn, Claim, storeVars
<1>4. ASSUME NEW j \in Job, Finish(j) \/ FinishRaises(j) \/ Fail(j) PROVE ClaimedOnce'
  BY <1>4 DEF Finish, FinishRaises, Fail, Terminal, storeVars
<1>5. ASSUME NEW j \in Job, PushCompleted(j) \/ PushError(j) \/ LeaseRunsOut(j) \/ ClaimRaises(j) \/ FailRaises(j)
      PROVE  ClaimedOnce'
  BY <1>5 DEF PushCompleted, PushError, LeaseRunsOut, Lapse, ClaimRaises, FailRaises, storeVars
<1>6. ASSUME NEW j \in Job, CancelReplay(j) PROVE ClaimedOnce'
  BY <1>6 DEF CancelReplay, Cancel
<1>7. CASE UNCHANGED vars
  BY <1>7 DEF vars, storeVars
<1> QED BY <1>1, <1>2, <1>3, <1>4, <1>5, <1>6, <1>7 DEF Next, Replay

\* A replay once claimed is never queued again, by whatever server, cancel, crash or lapsed
\* lease: "automatically is not wanted" (replays.py:15-16).
NeverQueuedAgain ==
  [][\A j \in Job : attempt[j] > 0 => state'[j] # "queued" /\ attempt'[j] = attempt[j]]_storeVars

\* A replay runs at most once.
THEOREM ReplaysRunOnce ==
  Spec => [](\A j \in Job : attempt[j] <= 1) /\ NeverQueuedAgain
<1>1. Init => ClaimedOnce
  BY DEF Init, StoreInit, ClaimedOnce
<1>2. ClaimedOnce => \A j \in Job : attempt[j] <= 1
  BY DEF ClaimedOnce
<1>3. ClaimedOnce /\ ClaimedOnce' /\ [Next]_vars =>
        [\A j \in Job : attempt[j] > 0 => state'[j] # "queued" /\ attempt'[j] = attempt[j]]_storeVars
  <2> SUFFICES ASSUME ClaimedOnce, ClaimedOnce', [Next]_vars, NEW j \in Job, attempt[j] > 0
               PROVE  state'[j] # "queued" /\ attempt'[j] = attempt[j]
    OBVIOUS
  <2>1. attempt[j] <= attempt'[j]
    <3>1. attempt' = attempt \/ \E i \in Job : attempt' = [attempt EXCEPT ![i] = @ + 1]
      BY DEF Next, OpenStore, Crash, Schedule, ScheduleRaises, Replay, ClaimOwn, ClaimRaises, Finish,
             FinishRaises, Fail, FailRaises, PushCompleted, PushError, CancelReplay, LeaseRunsOut, ExpireLeases, Enqueue, Claim, Terminal, Cancel, Lapse, vars,
             storeVars
    <3> QED BY <3>1 DEF ClaimedOnce
  <2>2. attempt'[j] <= 1 /\ attempt[j] \in Nat /\ attempt'[j] \in Nat
    BY DEF ClaimedOnce
  <2> QED BY <2>1, <2>2 DEF ClaimedOnce
<1> QED BY <1>1, <1>2, <1>3, ClaimedOnceStep, PTL DEF Spec, NeverQueuedAgain

=============================================================================
