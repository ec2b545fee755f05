----------------------------- MODULE ReplayJobs -----------------------------
(***************************************************************************)
(* The /replays routes of src/src/novafabric/server/routes/replays.py, the *)
(* server's own client of the job table: a request enqueues its replay     *)
(* with max_attempts = 1, claims it under a worker id of its own and runs  *)
(* it in a thread, with a lease of an hour that nobody renews. Server      *)
(* processes share the table; each recovers expired leases once, when it   *)
(* first uses the table. A statement may raise a database error before its *)
(* commit, or, where the row is read back, after it. The replay engine is  *)
(* external.                                                               *)
(***************************************************************************)
EXTENDS JobStore

CONSTANTS
  Server,      \* server processes
  WorkerOf(_), \* the worker id of a replay's request
  MaxRestarts  \* bound: processes that crash and come back

ASSUME ReplayAssumption ==
  /\ MaxAttempts = 1
  /\ MaxRestarts \in Nat
  /\ \A j \in Job : WorkerOf(j) \in Worker

VARIABLES
  opened,    \* server: the cached JobStore was constructed
  thread,    \* replay: none, scheduled, running, completed, unread, raised, ended
  host,      \* replay: the server that scheduled it, or none
  events,    \* replay: error and completed events pushed, kept by its server
  errors,    \* history: replay: the statements that raised a database error
  restarts   \* history: crashes so far

vars == <<storeVars, opened, thread, host, events, errors, restarts>>

Init ==
  /\ StoreInit
  /\ opened = [s \in Server |-> FALSE]
  /\ thread = [j \in Job |-> "none"]
  /\ host = [j \in Job |-> {}]
  /\ events = [j \in Job |-> {}]
  /\ errors = [j \in Job |-> {}]
  /\ restarts = 0

SetThread(j, t) == thread' = [thread EXCEPT ![j] = t]
Raised(j, x) == errors' = [errors EXCEPT ![j] = @ \cup {x}]

\* _jobs(): the first use constructs the store and recovers expired leases.
OpenStore(s) ==
  /\ ~opened[s]
  /\ opened' = [opened EXCEPT ![s] = TRUE]
  /\ ExpireLeases
  /\ UNCHANGED <<thread, host, events, errors, restarts>>

Schedule(s, j) ==
  /\ opened[s]
  /\ Enqueue(j)
  /\ SetThread(j, "scheduled")
  /\ host' = [host EXCEPT ![j] = {s}]
  /\ UNCHANGED <<opened, events, errors, restarts>>

\* The row is inserted and cannot be read back: the request answers with an error.
ScheduleRaises(s, j) ==
  /\ opened[s]
  /\ Enqueue(j)
  /\ SetThread(j, "ended") /\ Raised(j, "enqueue")
  /\ host' = [host EXCEPT ![j] = {s}]
  /\ UNCHANGED <<opened, events, restarts>>

\* Mutant: the request claims the oldest queued replay, and drops it if it is not its own.
ClaimAny(j) ==
  /\ thread[j] = "scheduled"
  /\ IF Queued # {}
     THEN \E i \in Queued :
            /\ ClaimOldest(i, WorkerOf(j))
            /\ SetThread(j, IF i = j THEN "running" ELSE "ended")
     ELSE UNCHANGED storeVars /\ SetThread(j, "ended")
  /\ UNCHANGED <<opened, host, events, errors, restarts>>

\* The request claims its own job; one cancelled meanwhile is not run.
ClaimOwn(j) ==
  /\ thread[j] = "scheduled"
  /\ IF state[j] = "queued"
     THEN Claim(j, WorkerOf(j)) /\ SetThread(j, "running")
     ELSE UNCHANGED storeVars /\ SetThread(j, "ended")
  /\ UNCHANGED <<opened, host, events, errors, restarts>>

\* The claim raises, and so does the request: nobody else claims the replay.
ClaimRaises(j) ==
  /\ thread[j] = "scheduled"
  /\ SetThread(j, "ended") /\ Raised(j, "claim")
  /\ UNCHANGED <<storeVars, opened, host, events, restarts>>

\* Mutant: a refused finish is not noticed.
FinishUnnoticed(j) ==
  /\ thread[j] = "running"
  /\ IF Holds(j, WorkerOf(j)) THEN Terminal(j, WorkerOf(j), "succeeded") ELSE UNCHANGED storeVars
  /\ SetThread(j, "completed")
  /\ UNCHANGED <<opened, host, events, errors, restarts>>

\* The engine returns: finish, then the completed event if the write was accepted.
Finish(j) ==
  /\ thread[j] = "running"
  /\ IF Holds(j, WorkerOf(j))
     THEN Terminal(j, WorkerOf(j), "succeeded") /\ SetThread(j, "completed")
     ELSE UNCHANGED storeVars /\ SetThread(j, "ended")
  /\ UNCHANGED <<opened, host, events, errors, restarts>>

\* finish commits and cannot read the row back: it raises as the engine does.
FinishRaises(j) ==
  /\ thread[j] = "running" /\ Holds(j, WorkerOf(j))
  /\ Terminal(j, WorkerOf(j), "succeeded")
  /\ SetThread(j, "unread") /\ Raised(j, "finish")
  /\ UNCHANGED <<opened, host, events, restarts>>

PushCompleted(j) ==
  /\ thread[j] = "completed"
  /\ events' = [events EXCEPT ![j] = @ \cup {"completed"}]
  /\ SetThread(j, "ended")
  /\ UNCHANGED <<storeVars, opened, host, errors, restarts>>

\* The engine raises, or finish does: the error event first, then the guarded write.
PushError(j) ==
  /\ thread[j] \in {"running", "unread"}
  /\ events' = [events EXCEPT ![j] = @ \cup {"error"}]
  /\ SetThread(j, "raised")
  /\ UNCHANGED <<storeVars, opened, host, errors, restarts>>

Fail(j) ==
  /\ thread[j] = "raised"
  /\ IF Holds(j, WorkerOf(j)) THEN Terminal(j, WorkerOf(j), "failed") ELSE UNCHANGED storeVars
  /\ SetThread(j, "ended")
  /\ UNCHANGED <<opened, host, events, errors, restarts>>

\* The write raises in its turn: the thread ends and the row stays running.
FailRaises(j) ==
  /\ thread[j] = "raised"
  /\ SetThread(j, "ended") /\ Raised(j, "fail")
  /\ UNCHANGED <<storeVars, opened, host, events, restarts>>

\* DELETE /replays/{id}, past its check for a terminal state.
CancelReplay(j) == Cancel(j) /\ UNCHANGED <<opened, thread, host, events, errors, restarts>>

LeaseRunsOut(j) == Lapse(j) /\ UNCHANGED <<opened, thread, host, events, errors, restarts>>

\* A server dies with its threads and events, and comes back with no store cached.
Crash(s) ==
  /\ restarts < MaxRestarts
  /\ restarts' = restarts + 1
  /\ opened' = [opened EXCEPT ![s] = FALSE]
  /\ thread' = [j \in Job |-> IF host[j] = {s} THEN "ended" ELSE thread[j]]
  /\ events' = [j \in Job |-> IF host[j] = {s} THEN {} ELSE events[j]]
  /\ UNCHANGED <<storeVars, host, errors>>

Replay(j) == ClaimOwn(j) \/ Finish(j) \/ PushCompleted(j) \/ PushError(j) \/ Fail(j)

Next ==
  \/ \E s \in Server : OpenStore(s) \/ Crash(s) \/ \E j \in Job : Schedule(s, j) \/ ScheduleRaises(s, j)
  \/ \E j \in Job :
       \/ Replay(j) \/ ClaimRaises(j) \/ FinishRaises(j) \/ FailRaises(j)
       \/ CancelReplay(j) \/ LeaseRunsOut(j)

Spec == Init /\ [][Next]_vars

\* Servers receive requests, threads run, replays end and clocks advance.
FairSpec ==
  /\ Spec
  /\ \A s \in Server : WF_vars(OpenStore(s))
  /\ \A j \in Job : WF_vars(Replay(j)) /\ WF_vars(LeaseRunsOut(j))

-----------------------------------------------------------------------------
\* Types, and the table's own invariant: a replay, which has one attempt, is never queued
\* again once claimed (replays.py:15-16, "automatically is not wanted").
TypeOK ==
  /\ StoreInv
  /\ opened \in [Server -> BOOLEAN]
  /\ thread \in [Job -> {"none", "scheduled", "running", "completed", "unread", "raised", "ended"}]
  /\ host \in [Job -> SUBSET Server]
  /\ events \in [Job -> SUBSET {"error", "completed"}]
  /\ errors \in [Job -> SUBSET {"enqueue", "claim", "finish", "fail"}]
  /\ restarts \in 0 .. MaxRestarts

\* What the event stream says agrees with the row for good: completed is pushed only for a
\* replay recorded as succeeded, and error for one that never succeeds, although a cancel or
\* another server's lease recovery may come between the engine's end and the write; only a
\* finish that commits and then fails to read its row reports the wrong outcome
\* (replays.py:247-266, store.py:224).
EventsAgreeWithRow ==
  \A j \in Job :
    /\ "completed" \in events[j] => state[j] = "succeeded"
    /\ "error" \in events[j] => state[j] # "succeeded" \/ "finish" \in errors[j]

\* A scheduled replay whose server does not die, and whose claim and fail raise no database
\* error, reaches a terminal state, whatever other requests claim, and even when its lease
\* runs out under it or a cancel comes in (replays.py:119-128, store.py:158-164).
ScheduledReplaySettles ==
  \A j \in Job :
    thread[j] = "scheduled" ~>
      \/ state[j] \in {"succeeded", "failed", "cancelled"}
      \/ restarts > 0 \/ errors[j] \cap {"claim", "fail"} # {}
=============================================================================
