---------------------------- MODULE ErasureQueue ----------------------------
(***************************************************************************)
(* src/src/novafabric/pii/erasure_queue.py and the route that drives it    *)
(* (serve/app.py, POST /api/compliance/erasure/request): a request to      *)
(* erase a subject is a row of erasure.db, written PENDING, executed       *)
(* through the key store and finalized with the outcome. A POST re-attaches*)
(* to the subject's oldest PENDING row if there is one. A server runs one  *)
(* POST at a time (the handler never awaits); several servers and the      *)
(* erasers that keep no row (nova pii erase, POST /api/compliance/pii/erase*)
(* of another process, a retention sweep) share both databases.            *)
(*                                                                         *)
(* The receipt file and the audit entries that follow a final row are left *)
(* out: nothing here reads them.                                           *)
(***************************************************************************)
EXTENDS DekStore

CONSTANTS
  Server,        \* actors that execute requests; the others erase directly
  MaxRequests,   \* bound: rows
  MaxFaults      \* bound: crashes and database errors

ASSUME QueueAssumption ==
  Server \subseteq Actor /\ MaxRequests \in Nat /\ MaxFaults \in Nat

Request == 1 .. MaxRequests   \* in the order of their ULIDs
Final == {"COMPLETED", "DEFERRED", "HELD", "FAILED"}

VARIABLES
  rows,     \* request: none, PENDING or a final state
  job,      \* server: the request it executes; 0 = none
  liveAt,   \* history: the key there was when the request was created
  killed,   \* history: the request whose execution destroyed a key; 0 = none did
  again,    \* history: requests a POST re-attached to
  lost,     \* history: requests whose execution ended without a final row
  faults    \* history: crashes and database errors so far

queueVars == <<rows, job>>
histVars == <<liveAt, killed, again, lost>>
vars == <<dekVars, queueVars, histVars, faults>>

Init ==
  /\ DekInit
  /\ rows = [r \in Request |-> "none"]
  /\ job = [s \in Server |-> 0]
  /\ liveAt = [r \in Request |-> 0]
  /\ killed = [k \in Key |-> 0]
  /\ again = {} /\ lost = {} /\ faults = 0

Fault == faults < MaxFaults /\ faults' = faults + 1
Unused == {r \in Request : rows[r] = "none"}
Pending == {r \in Request : rows[r] = "PENDING"}
Oldest(r, S) == r \in S /\ \A q \in S : r <= q

-----------------------------------------------------------------------------
(* The POST: find_pending, else create_request; then execute_request.       *)

Attach(s, r) ==
  /\ pc[s] = "idle" /\ Oldest(r, Pending)
  /\ job' = [job EXCEPT ![s] = r]
  /\ again' = again \cup {r}
  /\ Goto(s, "select")
  /\ UNCHANGED <<rowVars, lawVars, sel, rows, liveAt, killed, lost, faults>>

FindNone(s) ==
  /\ pc[s] = "idle" /\ Pending = {} /\ Unused # {}
  /\ Goto(s, "create")
  /\ UNCHANGED <<rowVars, lawVars, sel, queueVars, histVars, faults>>

Create(s, r) ==
  /\ pc[s] = "create" /\ Oldest(r, Unused)
  /\ rows' = [rows EXCEPT ![r] = "PENDING"]
  /\ job' = [job EXCEPT ![s] = r]
  /\ liveAt' = [liveAt EXCEPT ![r] = key]
  /\ Goto(s, "select")
  /\ UNCHANGED <<rowVars, lawVars, sel, killed, again, lost, faults>>

\* The steps of erase_subject for the request.
Execute(s) ==
  /\ Erase(s)
  /\ killed' = IF key # 0 /\ key' = 0 THEN [killed EXCEPT ![key] = job[s]] ELSE killed
  /\ UNCHANGED <<queueVars, liveAt, again, lost, faults>>

\* Mutant: so does an exception after the key is destroyed.
EraseRaisesLate(s) ==
  /\ pc[s] \in {"select", "check", "destroy", "erased"} /\ Fault
  /\ Quit(s, "error")
  /\ UNCHANGED <<rowVars, aged, hold, queueVars, histVars>>

\* Any exception but KeyError while the key is handled.
EraseRaises(s) ==
  /\ pc[s] \in {"select", "check", "destroy"} /\ Fault
  /\ Quit(s, "error")
  /\ UNCHANGED <<rowVars, aged, hold, queueVars, histVars>>

\* Mutant: a KeyError without an earlier completed request goes unanswered.
PriorUnanswered(s) ==
  /\ pc[s] = "missing"
  /\ IF \E p \in Request : p # job[s] /\ rows[p] = "COMPLETED"
     THEN Goto(s, "already") /\ UNCHANGED job
     ELSE Goto(s, "idle") /\ job' = [job EXCEPT ![s] = 0]
  /\ UNCHANGED <<rowVars, lawVars, sel, rows, histVars, faults>>

\* KeyError: latest_completed, the row's own id excluded.
Prior(s) ==
  /\ pc[s] = "missing"
  /\ Goto(s, IF \E p \in Request : p # job[s] /\ rows[p] = "COMPLETED" THEN "already" ELSE "unknown")
  /\ UNCHANGED <<rowVars, lawVars, sel, queueVars, histVars, faults>>

Outcomes == {"erased", "held", "deferred", "already", "unknown", "error"}

\* Mutant: only a hold or a failure keeps a request from being completed.
VerdictDeferredIsDone(p) ==
  CASE p \in {"erased", "already", "deferred"} -> "COMPLETED"
    [] p = "held" -> "HELD"
    [] p \in {"unknown", "error"} -> "FAILED"

Verdict(p) ==
  CASE p \in {"erased", "already"} -> "COMPLETED"
    [] p = "held" -> "HELD"
    [] p = "deferred" -> "DEFERRED"
    [] p \in {"unknown", "error"} -> "FAILED"

\* Mutant: the UPDATE is by subject.
FinalizeSubject(s) ==
  /\ pc[s] \in Outcomes
  /\ rows' = [r \in Request |-> IF rows[r] = "none" THEN "none" ELSE Verdict(pc[s])]
  /\ job' = [job EXCEPT ![s] = 0]
  /\ Goto(s, "idle")
  /\ UNCHANGED <<rowVars, lawVars, sel, histVars, faults>>

\* finalize: an UPDATE by id, whatever state the row is in.
Finalize(s) ==
  /\ pc[s] \in Outcomes
  /\ rows' = [rows EXCEPT ![job[s]] = Verdict(pc[s])]
  /\ job' = [job EXCEPT ![s] = 0]
  /\ Goto(s, "idle")
  /\ UNCHANGED <<rowVars, lawVars, sel, histVars, faults>>

\* The process dies, or a statement on erasure.db raises: the row stays as it is.
Abandon(s) ==
  /\ pc[s] # "idle" /\ Fault
  /\ Quit(s, "idle")
  /\ job' = [job EXCEPT ![s] = 0]
  /\ lost' = lost \cup ({job[s]} \ {0})
  /\ UNCHANGED <<rowVars, aged, hold, rows, liveAt, killed, again>>

-----------------------------------------------------------------------------
(* Erasers without a row.                                                   *)

Begin(a) ==
  /\ pc[a] = "idle"
  /\ Goto(a, "select")
  /\ UNCHANGED <<rowVars, lawVars, sel, queueVars, histVars, faults>>

EraseDirectly(a) == Erase(a) /\ UNCHANGED <<queueVars, histVars, faults>>

\* The outcome is reported, or the process dies on the way to it.
End(a) ==
  /\ pc[a] # "idle"
  /\ Quit(a, "idle")
  /\ UNCHANGED <<rowVars, aged, hold, queueVars, histVars, faults>>

Capture == GetOrCreate /\ UNCHANGED <<queueVars, histVars, faults>>
WindowEnds(k) == Age(k) /\ UNCHANGED <<queueVars, histVars, faults>>
HoldChanges == (PlaceHold \/ ReleaseHold) /\ UNCHANGED <<queueVars, histVars, faults>>

-----------------------------------------------------------------------------
Post(s) == (\E r \in Request : Attach(s, r) \/ Create(s, r)) \/ FindNone(s) \/ Execute(s) \/ Prior(s) \/ Finalize(s)

Next ==
  \/ Capture \/ HoldChanges \/ \E k \in Key : WindowEnds(k)
  \/ \E s \in Server : Post(s) \/ EraseRaises(s) \/ Abandon(s)
  \/ \E a \in Actor \ Server : Begin(a) \/ EraseDirectly(a) \/ End(a)

Spec == Init /\ [][Next]_vars

-----------------------------------------------------------------------------
(* Properties.                                                              *)

TypeOK ==
  /\ DekTypeOK
  /\ pc \in [Actor -> {"idle", "create", "select", "check", "destroy", "missing"} \cup Outcomes]
  /\ rows \in [Request -> {"none", "PENDING"} \cup Final]
  /\ job \in [Server -> 0 .. MaxRequests]
  /\ \A s \in Server : job[s] = 0 <=> pc[s] \in {"idle", "create"}
  /\ liveAt \in [Request -> 0 .. MaxKeys]
  /\ killed \in [Key -> 0 .. MaxRequests]
  /\ again \subseteq Request /\ lost \subseteq Request
  /\ faults \in 0 .. MaxFaults

\* A COMPLETED request tells the truth for good: the key its subject had when it was
\* made is gone, whoever destroyed it and however the executions interleaved
\* (app.py:6229-6245, "erased: True only when the DEK was actually destroyed").
CompletedMeansGone ==
  \A r \in Request : rows[r] = "COMPLETED" /\ liveAt[r] # 0 => key # liveAt[r]

\* A request that destroyed a key is not answered with a failure, unless it was executed
\* twice: after a death between the two databases, or by two servers (erasure_queue.py:31-35).
FailureMeansNothingErased ==
  \A r \in Request, k \in Key : rows[r] = "FAILED" /\ killed[k] = r => r \in again

\* An answer stays what it was, unless the request was executed twice (finalize's
\* UPDATE asks for no state, erasure_queue.py:326-342).
AnswersAreFinal ==
  [][\A r \in Request : rows[r] \in Final /\ r \notin again => rows'[r] = rows[r]]_vars

\* Whoever destroys a key has found no hold since its check and the key past its window,
\* or else destroys a later key than the one it checked, which was gone by then
\* (store.py:383-398 and 449-470: "legal holds win", and the retention window).
DestroyedLawfully ==
  [][key # 0 /\ key' = 0 =>
       \E a \in Actor :
         /\ pc[a] = "destroy" /\ (hold => a \in racing)
         /\ key \in aged \/ (sel[a] < key /\ sel[a] \in gone)]_vars

\* "A row may remain PENDING only across a process crash" (erasure_queue.py:32-34): it is
\* being executed, or an execution of it was cut off, by a crash or, which that sentence
\* leaves out, by an error of erasure.db. Two POSTs never leave one behind.
PendingIsAttended ==
  \A r \in Request : rows[r] = "PENDING" => r \in lost \/ \E s \in Server : job[s] = r

\* Why, as an inductive invariant. A row in use has its request's key on record, and a
\* server that found no key, or destroyed it, knows that key to be gone.
GoneFor(r) == liveAt[r] # 0 => key # liveAt[r]

RowsInUse ==
  /\ \A r \in Request : liveAt[r] <= made
  /\ \A s \in Server : job[s] # 0 => rows[job[s]] # "none"
  /\ \A s \in Server : pc[s] \in {"missing", "already", "unknown", "erased"} => GoneFor(job[s])

\* A request no POST re-attached to is executed at most once, and by one server.
ExecutedOnce ==
  \A r \in Request :
    r \notin again =>
      /\ \A s, t \in Server : job[s] = r /\ job[t] = r => s = t
      /\ rows[r] \in Final => \A s \in Server : job[s] # r
      /\ \A k \in Key, s \in Server : killed[k] = r /\ job[s] = r => pc[s] = "erased"

KillsAreRows == \A k \in Key : killed[k] # 0 => rows[killed[k]] # "none"

ErasureInv ==
  /\ TypeOK /\ DekInv /\ RowsInUse /\ ExecutedOnce /\ KillsAreRows
  /\ CompletedMeansGone /\ FailureMeansNothingErased /\ PendingIsAttended
=============================================================================
