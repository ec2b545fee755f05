-------------------------- MODULE WebhookDispatch ---------------------------
(***************************************************************************)
(* Webhook delivery: src/src/novafabric/server/webhook_dispatch.py over    *)
(* the tables of server/webhooks.py. Request threads put events into the   *)
(* bounded queue of their server process; its one worker thread turns an   *)
(* event into a delivery row per enabled webhook and runs a chain of at    *)
(* most MaxAttempts posts for each; routes ping, redeliver, switch and     *)
(* delete webhooks.                                                        *)
(*                                                                         *)
(* A delivery is an event and a webhook; a chain is numbered, and so are   *)
(* its attempts. Chains live in memory and die with the process. Time,     *)
(* payloads, signatures and the duplicate suppression of operational       *)
(* events are left out: an attempt that waits may be due at any moment.    *)
(* A ping, which no filter stops, is an event that is not enqueued; audit  *)
(* appends succeed. Statements on the tables are atomic and may fail,      *)
(* counted in faults with the exits of a process.                          *)
(***************************************************************************)
EXTENDS Integers, Sequences, FiniteSets

CONSTANTS
  Server,       \* server processes over one database
  Hook, Event,  \* webhooks; events, each enqueued or pinged once
  Matches,      \* the events and webhooks that go together (type filter, workspace)
  STOP,         \* the marker that ends a worker
  QueueMax,     \* queue_max
  MaxAttempts,  \* max_attempts
  MaxAdmin,     \* bound: webhooks switched or deleted, and redeliveries
  MaxFaults     \* bound: failed statements, unavailable secrets, stops and deaths

ASSUME DispatchAssumption ==
  /\ STOP \notin Event
  /\ Matches \subseteq Event \X Hook
  /\ IsFiniteSet(Server)
  /\ {QueueMax, MaxAttempts} \subseteq Nat \ {0}
  /\ {MaxAdmin, MaxFaults} \subseteq Nat

Delivery == Matches
Attempt == Delivery \X (Nat \ {0}) \X (1 .. MaxAttempts)

VARIABLES
  hook,      \* webhooks: on, off or deleted
  status,    \* webhook_deliveries: none, pending, retrying, delivered, failed, pruned
  attempts,  \* webhook_deliveries: attempts
  sent,      \* events enqueued, dropped or pinged so far
  queue,     \* server: its queue
  heap,      \* server: attempts that wait
  pc,        \* worker: idle, fanout, attempt, posted, audited, ended; down without a process
  todo,      \* worker: deliveries it has still to insert
  cur,       \* worker: the attempt it runs
  ok,        \* worker: whether its post was answered with success
  request,   \* server: the delivery a redeliver request has looked at
  chains,    \* history: chains started for a delivery
  audits,    \* history: audit entries of a delivery's posts
  blind,     \* history: attempts recorded without a post, webhook or secret being gone
  stranded,  \* history: deliveries whose chain was lost
  missed,    \* history: deliveries lost before they had a row
  admin, faults

tableVars == <<hook, status, attempts>>
workerVars == <<pc, todo, cur, ok>>
histVars == <<chains, audits, blind, stranded, missed>>
vars == <<tableVars, sent, queue, heap, workerVars, request, histVars, admin, faults>>

Init ==
  /\ hook = [h \in Hook |-> "on"]
  /\ status = [d \in Delivery |-> "none"]
  /\ attempts = [d \in Delivery |-> 0]
  /\ sent = {}
  /\ queue = [s \in Server |-> << >>]
  /\ heap = [s \in Server |-> {}]
  /\ pc = [s \in Server |-> "idle"]
  /\ todo = [s \in Server |-> {}]
  /\ cur = [s \in Server |-> << >>]
  /\ ok = [s \in Server |-> FALSE]
  /\ request = [s \in Server |-> << >>]
  /\ chains = [d \in Delivery |-> 0]
  /\ audits = [d \in Delivery |-> 0]
  /\ blind = [d \in Delivery |-> 0]
  /\ stranded = {} /\ missed = {}
  /\ admin = 0 /\ faults = 0

Terminal == {"delivered", "failed"}
Open == {"pending", "retrying"}
Up(s) == pc[s] # "down"
Admin == admin < MaxAdmin /\ admin' = admin + 1
Fault == faults < MaxFaults /\ faults' = faults + 1
Goto(s, p) == pc' = [pc EXCEPT ![s] = p]
Push(s, a) == heap' = [heap EXCEPT ![s] = @ \cup {a}]
Of(s) == cur[s][1]   \* the delivery of the attempt that runs

-----------------------------------------------------------------------------
(* Routes and event sources.                                                *)

\* enqueue_event: never blocks; a full queue drops the event, counted and audited.
Enqueue(s, e) ==
  /\ Up(s) /\ e \notin sent
  /\ sent' = sent \cup {e}
  /\ queue' = IF Len(queue[s]) < QueueMax THEN [queue EXCEPT ![s] = Append(@, e)] ELSE queue
  /\ UNCHANGED <<tableVars, heap, workerVars, request, histVars, faults, admin>>

\* insert_delivery: the new row, and any of the webhook's terminal rows retention takes
\* (by age or by count).
InsertRow(s, d) ==
  /\ \E old \in SUBSET {x \in Delivery : x[2] = d[2] /\ status[x] \in Terminal} :
       status' = [x \in Delivery |->
                    IF x = d THEN "pending" ELSE IF x \in old THEN "pruned" ELSE status[x]]
  /\ chains' = [chains EXCEPT ![d] = 1]
  /\ Push(s, <<d, 1, 1>>)

Ping(s, d) ==
  /\ Up(s) /\ d[1] \notin sent /\ hook[d[2]] # "deleted"
  /\ sent' = sent \cup {d[1]}
  /\ InsertRow(s, d)
  /\ UNCHANGED <<hook, attempts, queue, workerVars, request, audits, blind, stranded, missed, faults, admin>>

\* Mutant: any finished delivery is redelivered.
RedeliverableTerminal(d) == status[d] \in Terminal
Redeliverable(d) == status[d] = "failed"

\* redeliver, first half: the row is read and found failed.
LookAt(s, d) ==
  /\ Up(s) /\ request[s] = << >>
  /\ hook[d[2]] # "deleted"
  /\ Redeliverable(d) /\ Admin
  /\ request' = [request EXCEPT ![s] = d]
  /\ UNCHANGED <<tableVars, sent, queue, heap, workerVars, histVars, faults>>

\* Mutant: the row is pending again and no chain starts.
RedeliverUnscheduled(s) ==
  /\ request[s] # << >> /\ status' = [status EXCEPT ![request[s]] = "pending"]
  /\ request' = [request EXCEPT ![s] = << >>]
  /\ UNCHANGED <<hook, attempts, sent, queue, heap, workerVars, histVars, faults, admin>>

\* Second half: the row, if it is still there, is pending again and a fresh chain starts.
Redeliver(s) ==
  /\ request[s] # << >>
  /\ LET d == request[s] IN
       IF status[d] = "pruned"
       THEN UNCHANGED <<status, heap, chains, stranded>>
       ELSE /\ status' = [status EXCEPT ![d] = "pending"]
            /\ chains' = [chains EXCEPT ![d] = @ + 1]
            /\ Push(s, <<d, chains[d] + 1, 1>>)
            /\ stranded' = stranded \ {d}
  /\ request' = [request EXCEPT ![s] = << >>]
  /\ UNCHANGED <<hook, attempts, sent, queue, workerVars, audits, blind, missed, faults, admin>>

RedeliverFails(s) ==
  /\ request[s] # << >> /\ Fault
  /\ request' = [request EXCEPT ![s] = << >>]
  /\ UNCHANGED <<tableVars, sent, queue, heap, workerVars, histVars, admin>>

\* update_webhook and delete_webhook.
Change(h, v) ==
  /\ hook[h] # "deleted" /\ hook[h] # v
  /\ hook' = [hook EXCEPT ![h] = v] /\ Admin
  /\ UNCHANGED <<status, attempts, sent, queue, heap, workerVars, request, histVars, faults>>

-----------------------------------------------------------------------------
(* The worker.                                                              *)

TakeEvent(s) ==
  /\ pc[s] = "idle" /\ queue[s] # << >> /\ Head(queue[s]) # STOP
  /\ queue' = [queue EXCEPT ![s] = Tail(@)]
  /\ todo' = [todo EXCEPT ![s] = {d \in Delivery : d[1] = Head(queue[s]) /\ hook[d[2]] = "on"}]
  /\ Goto(s, "fanout")
  /\ UNCHANGED <<tableVars, sent, heap, cur, ok, request, histVars, faults, admin>>

Insert(s) ==
  /\ pc[s] = "fanout"
  /\ \E d \in todo[s] : InsertRow(s, d) /\ todo' = [todo EXCEPT ![s] = @ \ {d}]
  /\ UNCHANGED <<hook, attempts, sent, queue, pc, cur, ok, request, audits, blind, stranded, missed, faults, admin>>

\* Mutant: the loop over the webhooks is left early.
EndFanoutEarly(s) ==
  /\ pc[s] = "fanout" /\ Goto(s, "idle") /\ todo' = [todo EXCEPT ![s] = {}]
  /\ UNCHANGED <<tableVars, sent, queue, heap, cur, ok, request, histVars, faults, admin>>
EndFanout(s) ==
  /\ pc[s] = "fanout" /\ todo[s] = {}
  /\ Goto(s, "idle")
  /\ UNCHANGED <<tableVars, sent, queue, heap, todo, cur, ok, request, histVars, faults, admin>>

\* One webhook's row cannot be read or written: the rest of the event is lost.
FanoutFails(s) ==
  /\ pc[s] = "fanout" /\ todo[s] # {} /\ Fault
  /\ missed' = missed \cup todo[s]
  /\ todo' = [todo EXCEPT ![s] = {}]
  /\ Goto(s, "idle")
  /\ UNCHANGED <<tableVars, sent, queue, heap, cur, ok, request, chains, audits, blind, stranded, admin>>

Pop(s) ==
  /\ pc[s] = "idle"
  /\ \E a \in heap[s] :
       /\ heap' = [heap EXCEPT ![s] = @ \ {a}]
       /\ cur' = [cur EXCEPT ![s] = a]
  /\ Goto(s, "attempt")
  /\ UNCHANGED <<tableVars, sent, queue, todo, ok, request, histVars, faults, admin>>

EndAttempt(s) == Goto(s, "idle") /\ cur' = [cur EXCEPT ![s] = << >>]

\* record_attempt; the row may have been pruned under the chain.
RecordRow(d, v) ==
  IF status[d] = "pruned" THEN UNCHANGED <<status, attempts>>
  ELSE /\ status' = [status EXCEPT ![d] = v]
       /\ attempts' = [attempts EXCEPT ![d] = @ + 1]

\* The webhook is gone, or its secret cannot be unwrapped just now: the row fails without
\* a post, whatever attempts the chain has left.
GiveUp(s) ==
  /\ pc[s] = "attempt"
  /\ IF hook[Of(s)[2]] = "deleted" THEN UNCHANGED faults ELSE Fault
  /\ RecordRow(Of(s), "failed")
  /\ blind' = [blind EXCEPT ![Of(s)] = @ + 1]
  /\ EndAttempt(s)
  /\ UNCHANGED <<hook, sent, queue, heap, todo, ok, request, chains, audits, stranded, missed, admin>>

\* One post, or a URL refused before it.
Post(s) ==
  /\ pc[s] = "attempt" /\ hook[Of(s)[2]] # "deleted"
  /\ \E b \in BOOLEAN : ok' = [ok EXCEPT ![s] = b]
  /\ Goto(s, "posted")
  /\ UNCHANGED <<tableVars, sent, queue, heap, todo, cur, request, histVars, faults, admin>>

\* Mutant: a failed post has no audit entry.
AuditSuccess(s) ==
  /\ pc[s] = "posted" /\ Goto(s, "audited")
  /\ audits' = [audits EXCEPT ![Of(s)] = IF ok[s] THEN @ + 1 ELSE @]
  /\ UNCHANGED <<tableVars, sent, queue, heap, todo, cur, ok, request, chains, blind, stranded, missed, faults, admin>>
AuditAttempt(s) ==
  /\ pc[s] = "posted"
  /\ audits' = [audits EXCEPT ![Of(s)] = @ + 1]
  /\ Goto(s, "audited")
  /\ UNCHANGED <<tableVars, sent, queue, heap, todo, cur, ok, request, chains, blind, stranded, missed, faults, admin>>

Outcome(s) ==
  IF ok[s] THEN "delivered" ELSE IF cur[s][3] >= MaxAttempts THEN "failed" ELSE "retrying"

\* Mutant: the retry is recorded and not scheduled.
RetryForgotten(s) == UNCHANGED heap
Retry(s) ==
  IF Outcome(s) = "retrying" /\ status[Of(s)] # "pruned"
  THEN Push(s, <<Of(s), cur[s][2], cur[s][3] + 1>>)
  ELSE UNCHANGED heap

Record(s) ==
  /\ pc[s] = "audited"
  /\ RecordRow(Of(s), Outcome(s))
  /\ Retry(s)
  /\ EndAttempt(s)
  /\ UNCHANGED <<hook, sent, queue, todo, ok, request, histVars, faults, admin>>

\* A statement of the attempt raises: the worker survives, the chain does not.
AttemptFails(s) ==
  /\ pc[s] \in {"attempt", "audited"} /\ Fault
  /\ stranded' = stranded \cup {Of(s)}
  /\ EndAttempt(s)
  /\ UNCHANGED <<tableVars, sent, queue, heap, todo, ok, request, chains, audits, blind, missed, admin>>

-----------------------------------------------------------------------------
(* Stop, exit, start.                                                       *)

\* stop: the marker goes to the end of the queue, or to its front when it is full.
Stop(s) ==
  /\ pc[s] \notin {"down", "ended"} /\ \A i \in 1 .. Len(queue[s]) : queue[s][i] # STOP
  /\ Fault
  /\ queue' = [queue EXCEPT ![s] = IF Len(@) < QueueMax THEN Append(@, STOP) ELSE <<STOP>> \o @]
  /\ UNCHANGED <<tableVars, sent, heap, workerVars, request, histVars, admin>>

EndWorker(s) ==
  /\ pc[s] = "idle" /\ queue[s] # << >> /\ Head(queue[s]) = STOP
  /\ Goto(s, "ended")
  /\ UNCHANGED <<tableVars, sent, queue, heap, todo, cur, ok, request, histVars, faults, admin>>

Working == {"attempt", "posted", "audited"}
Driven(s) == {a[1] : a \in heap[s]} \cup (IF pc[s] \in Working THEN {Of(s)} ELSE {})

Leave(s) ==
  /\ stranded' = stranded \cup Driven(s)
  /\ missed' = missed \cup todo[s]
       \cup {d \in Delivery : \E i \in 1 .. Len(queue[s]) : queue[s][i] = d[1]}
  /\ queue' = [queue EXCEPT ![s] = << >>]
  /\ heap' = [heap EXCEPT ![s] = {}]
  /\ Goto(s, "down")
  /\ todo' = [todo EXCEPT ![s] = {}]
  /\ cur' = [cur EXCEPT ![s] = << >>]
  /\ ok' = [ok EXCEPT ![s] = FALSE]
  /\ request' = [request EXCEPT ![s] = << >>]
  /\ UNCHANGED <<tableVars, sent, chains, audits, blind, admin>>

Exit(s) == pc[s] = "ended" /\ Leave(s) /\ UNCHANGED faults
Crash(s) == Up(s) /\ Fault /\ Leave(s)

Start(s) ==
  /\ pc[s] = "down"
  /\ Goto(s, "idle")
  /\ UNCHANGED <<tableVars, sent, queue, heap, todo, cur, ok, request, histVars, faults, admin>>

-----------------------------------------------------------------------------
Worker(s) ==
  \/ TakeEvent(s) \/ Insert(s) \/ EndFanout(s) \/ Pop(s) \/ GiveUp(s) \/ Post(s)
  \/ AuditAttempt(s) \/ Record(s) \/ EndWorker(s)
Trouble(s) == RedeliverFails(s) \/ FanoutFails(s) \/ AttemptFails(s) \/ Stop(s) \/ Crash(s)

Next ==
  \/ \E s \in Server : Worker(s) \/ Trouble(s) \/ Redeliver(s) \/ Exit(s) \/ Start(s)
  \/ \E s \in Server, e \in Event : Enqueue(s, e)
  \/ \E s \in Server, d \in Delivery : Ping(s, d) \/ LookAt(s, d)
  \/ \E h \in Hook, v \in {"on", "off", "deleted"} : Change(h, v)

Spec == Init /\ [][Next]_vars

\* The worker thread runs while its process does, and a process that stops, exits.
FairSpec == Spec /\ \A s \in Server : WF_vars(Worker(s)) /\ WF_vars(Exit(s))

-----------------------------------------------------------------------------
TypeOK ==
  /\ hook \in [Hook -> {"on", "off", "deleted"}]
  /\ status \in [Delivery -> {"none", "pruned"} \cup Open \cup Terminal]
  /\ attempts \in [Delivery -> Nat]
  /\ sent \subseteq Event
  /\ queue \in [Server -> Seq(Event \cup {STOP})]
  /\ heap \in [Server -> SUBSET Attempt]
  /\ pc \in [Server -> Working \cup {"idle", "fanout", "ended", "down"}]
  /\ todo \in [Server -> SUBSET Delivery]
  /\ cur \in [Server -> Attempt \cup {<< >>}]
  /\ \A s \in Server : IF pc[s] \in Working THEN cur[s] \in Attempt ELSE cur[s] = << >>
  /\ ok \in [Server -> BOOLEAN]
  /\ request \in [Server -> Delivery \cup {<< >>}]
  /\ chains \in [Delivery -> Nat]
  /\ audits \in [Delivery -> Nat]
  /\ blind \in [Delivery -> Nat]
  /\ stranded \subseteq Delivery /\ missed \subseteq Delivery
  /\ admin \in 0 .. MaxAdmin /\ faults \in 0 .. MaxFaults

\* A row says pending or retrying only while a chain stands behind it, unless a process or
\* a statement died with the chain (webhook_dispatch.py:20-22).
OpenRowsAreDriven ==
  \A d \in Delivery : status[d] \in Open => d \in stranded \/ \E s \in Server : d \in Driven(s)

\* Every attempt the row counts has its audit entry, at every moment a reader or a crash
\* may come, but for the attempts that could not post at all, their webhook deleted or its
\* secret not to be unwrapped (webhook_dispatch.py:397-406, 452-467).
EvidenceBeforeState == \A d \in Delivery : attempts[d] <= audits[d] + blind[d]

\* Why: an attempt that is audited and not yet recorded is covered already.
Due(d) == {s \in Server : pc[s] = "audited" /\ Of(s) = d}
EvidenceCoversDue == \A d \in Delivery : attempts[d] + Cardinality(Due(d)) <= audits[d] + blind[d]

\* The queue keeps its bound, but for the marker of a stop that found it full
\* (webhook_dispatch.py:149-154).
QueueBounded ==
  \A s \in Server :
    Len(queue[s]) <= QueueMax \/ (Len(queue[s]) = QueueMax + 1 /\ Head(queue[s]) = STOP)

\* What holds with any number of servers.
DispatchInv == TypeOK /\ QueueBounded /\ OpenRowsAreDriven /\ EvidenceCoversDue

\* What a receiver has taken is not posted again (webhook_dispatch.py:228-229).
DeliveredIsFinal ==
  [][\A d \in Delivery : status[d] = "delivered" => status'[d] \in {"delivered", "pruned"}]_vars

\* Why, as long as one server uses the database: an event waits once and has no row yet,
\* a delivery has one chain, a chain has an open row, and a request finds what it looked at.
EventsWaitOnce ==
  /\ \A d \in Delivery : d[1] \notin sent => status[d] = "none"
  /\ \A s \in Server :
       /\ \A i, j \in 1 .. Len(queue[s]) : queue[s][i] = queue[s][j] /\ queue[s][i] # STOP => i = j
       /\ \A i \in 1 .. Len(queue[s]) :
            queue[s][i] # STOP =>
              /\ queue[s][i] \in sent
              /\ \A d \in Delivery : d[1] = queue[s][i] => status[d] = "none" /\ d \notin todo[s]
       /\ \A d \in todo[s] : d[1] \in sent /\ status[d] = "none"

OneChain ==
  \A s \in Server :
    /\ \A a, b \in heap[s] : a[1] = b[1] => a = b
    /\ pc[s] \in Working => \A a \in heap[s] : a[1] # Of(s)
    /\ \A d \in Driven(s) : status[d] \in Open
    /\ request[s] # << >> => status[request[s]] \in {"failed", "pruned"}

\* All of it, for one server: DeliveredIsFinal follows from it step by step.
SoleInv == DispatchInv /\ EventsWaitOnce /\ OneChain

\* Every delivery with a row ends delivered or failed, unless its chain was lost.
EveryDeliverySettles ==
  \A d \in Delivery : (status[d] \in Open) ~> (status[d] \notin Open \/ d \in stranded)

\* An event accepted into a queue gets a row for every webhook that stays enabled, unless
\* the process or a statement died first.
EveryHookIsTold ==
  \A d \in Delivery :
    (\E s \in Server, i \in 1 .. QueueMax + 1 : i <= Len(queue[s]) /\ queue[s][i] = d[1])
      ~> (status[d] # "none" \/ d \in missed \/ hook[d[2]] # "on")
=============================================================================
