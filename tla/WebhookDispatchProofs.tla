----------------------- MODULE WebhookDispatchProofs -----------------------
(***************************************************************************)
(* Proofs about WebhookDispatch for any number of servers, webhooks,       *)
(* events, attempts and faults: rows are driven, evidence comes before     *)
(* state, and, with one server, what was delivered is final.               *)
(***************************************************************************)
EXTENDS WebhookDispatch, FiniteSetTheorems, TLAPS

-----------------------------------------------------------------------------
(* Data.                                                                    *)

\* The parts of an attempt.
LEMMA AttemptParts ==
  ASSUME NEW a \in Attempt
  PROVE  a[1] \in Delivery /\ a[2] \in Nat \ {0} /\ a[3] \in 1 .. MaxAttempts
BY DEF Attempt

\* An attempt is put together from its parts.
LEMMA AttemptMade ==
  ASSUME NEW d \in Delivery, NEW c \in Nat \ {0}, NEW n \in 1 .. MaxAttempts
  PROVE  <<d, c, n>> \in Attempt /\ <<d, c, n>>[1] = d
BY DEF Attempt

\* A delivery is an event and a webhook.
LEMMA DeliveryParts ==
  ASSUME NEW d \in Delivery
  PROVE  d[1] \in Event /\ d[2] \in Hook
BY DispatchAssumption DEF Delivery

\* A chain's attempt joins the heap.
LEMMA PushType ==
  ASSUME heap \in [Server -> SUBSET Attempt], NEW s \in Server, NEW a \in Attempt, Push(s, a)
  PROVE  heap' \in [Server -> SUBSET Attempt]
BY DEF Push

\* The worker moves to another place of its loop.
LEMMA GotoType ==
  ASSUME TypeOK, NEW s \in Server, NEW p \in Working \cup {"idle", "fanout", "ended", "down"}, Goto(s, p)
  PROVE  /\ pc' \in [Server -> Working \cup {"idle", "fanout", "ended", "down"}]
         /\ pc'[s] = p /\ \A t \in Server \ {s} : pc'[t] = pc[t]
BY DEF TypeOK, Goto

\* A move between two places of the loop that both have an attempt, or both have none.
LEMMA MoveType ==
  ASSUME TypeOK, NEW s \in Server, NEW p \in Working \cup {"idle", "fanout", "ended", "down"},
         Goto(s, p), cur' = cur, pc[s] \in Working <=> p \in Working
  PROVE  /\ pc' \in [Server -> Working \cup {"idle", "fanout", "ended", "down"}]
         /\ cur' \in [Server -> Attempt \cup {<< >>}]
         /\ \A t \in Server : IF pc'[t] \in Working THEN cur'[t] \in Attempt ELSE cur'[t] = << >>
<1>1. /\ pc' \in [Server -> Working \cup {"idle", "fanout", "ended", "down"}]
      /\ pc'[s] = p /\ \A t \in Server \ {s} : pc'[t] = pc[t]
  BY GotoType
<1> QED
  BY <1>1 DEF TypeOK

\* The attempt that runs.
LEMMA RunningAttempt ==
  ASSUME TypeOK, NEW s \in Server, pc[s] \in Working
  PROVE  /\ cur[s] \in Attempt /\ Of(s) \in Delivery
         /\ cur[s][2] \in Nat \ {0} /\ cur[s][3] \in 1 .. MaxAttempts
BY AttemptParts DEF TypeOK, Of

-----------------------------------------------------------------------------
(* Types.                                                                   *)

\* The bounds' counters.
LEMMA Counted ==
  ASSUME TypeOK
  PROVE  /\ Fault => faults' \in 0 .. MaxFaults
         /\ Admin => admin' \in 0 .. MaxAdmin
<1>1. MaxAdmin \in Nat /\ MaxFaults \in Nat
  BY DispatchAssumption
<1>2. faults \in 0 .. MaxFaults /\ admin \in 0 .. MaxAdmin
  BY DEF TypeOK
<1> QED
  BY <1>1, <1>2 DEF Fault, Admin

\* The initial state is of the types.
LEMMA TypeInit == Init => TypeOK
BY DispatchAssumption DEF Init, TypeOK, Open, Terminal, Working

\* The attempt has ended, and with it the worker's record of it.
LEMMA EndAttemptType ==
  ASSUME TypeOK, NEW s \in Server, EndAttempt(s)
  PROVE  /\ pc' \in [Server -> Working \cup {"idle", "fanout", "ended", "down"}]
         /\ cur' \in [Server -> Attempt \cup {<< >>}]
         /\ \A t \in Server : IF pc'[t] \in Working THEN cur'[t] \in Attempt ELSE cur'[t] = << >>
BY DEF EndAttempt, Goto, TypeOK, Working

\* An attempt is counted in its row, or the row is gone.
LEMMA RecordType ==
  ASSUME TypeOK, NEW d \in Delivery, NEW v \in Open \cup Terminal, RecordRow(d, v)
  PROVE  /\ status' \in [Delivery -> {"none", "pruned"} \cup Open \cup Terminal]
         /\ attempts' \in [Delivery -> Nat]
<1>1. CASE status[d] = "pruned"
  BY <1>1 DEF RecordRow, TypeOK
<1>2. CASE status[d] # "pruned"
  <2>1. status' = [status EXCEPT ![d] = v] /\ attempts' = [attempts EXCEPT ![d] = @ + 1]
    BY <1>2 DEF RecordRow
  <2> QED
    BY <2>1 DEF TypeOK
<1> QED
  BY <1>1, <1>2

\* A row is inserted with its chain.
LEMMA InsertType ==
  ASSUME TypeOK, NEW s \in Server, NEW d \in Delivery, InsertRow(s, d)
  PROVE  /\ status' \in [Delivery -> {"none", "pruned"} \cup Open \cup Terminal]
         /\ chains' \in [Delivery -> Nat]
         /\ heap' \in [Server -> SUBSET Attempt]
<1>1. status' \in [Delivery -> {"none", "pruned"} \cup Open \cup Terminal]
  BY DEF InsertRow, TypeOK, Open, Terminal
<1>2. <<d, 1, 1>> \in Attempt
  BY AttemptMade, DispatchAssumption
<1>3. heap' \in [Server -> SUBSET Attempt]
  BY <1>2, PushType DEF InsertRow, TypeOK
<1> QED
  BY <1>1, <1>3 DEF InsertRow, TypeOK

\* Every step keeps the types.
LEMMA TypeStep == TypeOK /\ [Next]_vars => TypeOK'
<1> SUFFICES ASSUME TypeOK, [Next]_vars PROVE TypeOK'
  OBVIOUS
<1>1. ASSUME NEW s \in Server, NEW e \in Event, Enqueue(s, e) PROVE TypeOK'
  <2>1. queue' \in [Server -> Seq(Event \cup {STOP})]
    BY <1>1 DEF Enqueue, TypeOK
  <2> QED
    BY <1>1, <2>1 DEF Enqueue, TypeOK, tableVars, workerVars, histVars, Of
<1>2. ASSUME NEW s \in Server, NEW d \in Delivery, Ping(s, d) PROVE TypeOK'
  <2>1. InsertRow(s, d) /\ d[1] \in Event
    BY <1>2, DeliveryParts DEF Ping
  <2> QED
    BY <1>2, <2>1, InsertType DEF Ping, TypeOK, workerVars
<1>3. ASSUME NEW s \in Server, NEW d \in Delivery, LookAt(s, d) PROVE TypeOK'
  BY <1>3, Counted DEF LookAt, TypeOK, tableVars, workerVars, histVars
<1>4. ASSUME NEW s \in Server, Redeliver(s) PROVE TypeOK'
  <2> DEFINE d == request[s]
  <2>1. d \in Delivery
    BY <1>4 DEF Redeliver, TypeOK
  <2>2. request' \in [Server -> Delivery \cup {<< >>}]
    BY <1>4 DEF Redeliver, TypeOK
  <2>3. CASE status[d] = "pruned"
    BY <1>4, <2>2, <2>3 DEF Redeliver, TypeOK, workerVars
  <2>4. CASE status[d] # "pruned"
    <3>1. <<d, chains[d] + 1, 1>> \in Attempt
      <4>1. chains[d] + 1 \in Nat \ {0} /\ 1 \in 1 .. MaxAttempts
        BY <2>1, DispatchAssumption DEF TypeOK
      <4> QED
        BY <2>1, <4>1, AttemptMade
    <3>2. heap' \in [Server -> SUBSET Attempt]
      BY <1>4, <2>4, <3>1, PushType DEF Redeliver, TypeOK
    <3>3. /\ status' = [status EXCEPT ![d] = "pending"]
          /\ chains' = [chains EXCEPT ![d] = @ + 1]
          /\ stranded' = stranded \ {d}
      BY <1>4, <2>4 DEF Redeliver
    <3>4. /\ status' \in [Delivery -> {"none", "pruned"} \cup Open \cup Terminal]
          /\ chains' \in [Delivery -> Nat]
          /\ stranded' \subseteq Delivery
      BY <3>3, <2>1 DEF TypeOK, Open
    <3> QED
      BY <1>4, <2>2, <3>2, <3>4 DEF Redeliver, TypeOK, workerVars
  <2> QED
    BY <2>3, <2>4
<1>5. ASSUME NEW s \in Server, RedeliverFails(s) PROVE TypeOK'
  BY <1>5, Counted DEF RedeliverFails, TypeOK, tableVars, workerVars, histVars
<1>6. ASSUME NEW h \in Hook, NEW v \in {"on", "off", "deleted"}, Change(h, v) PROVE TypeOK'
  BY <1>6, Counted DEF Change, TypeOK, workerVars, histVars
<1>7. ASSUME NEW s \in Server, TakeEvent(s) PROVE TypeOK'
  <2>1. queue' \in [Server -> Seq(Event \cup {STOP})] /\ todo' \in [Server -> SUBSET Delivery]
    BY <1>7 DEF TakeEvent, TypeOK
  <2>2. /\ pc' \in [Server -> Working \cup {"idle", "fanout", "ended", "down"}]
        /\ cur' \in [Server -> Attempt \cup {<< >>}]
        /\ \A t \in Server : IF pc'[t] \in Working THEN cur'[t] \in Attempt ELSE cur'[t] = << >>
    BY <1>7, MoveType DEF TakeEvent, Working
  <2>3. UNCHANGED <<tableVars, sent, heap, ok, request, histVars, faults, admin>>
    BY <1>7 DEF TakeEvent
  <2> QED
    BY <2>1, <2>2, <2>3 DEF TypeOK, tableVars, histVars
<1>8. ASSUME NEW s \in Server, Insert(s) PROVE TypeOK'
  <2>1. PICK d \in todo[s] : InsertRow(s, d) /\ todo' = [todo EXCEPT ![s] = @ \ {d}]
    BY <1>8 DEF Insert
  <2>2. d \in Delivery
    BY <2>1 DEF TypeOK
  <2>3. /\ status' \in [Delivery -> {"none", "pruned"} \cup Open \cup Terminal]
        /\ chains' \in [Delivery -> Nat]
        /\ heap' \in [Server -> SUBSET Attempt]
    BY <2>1, <2>2, InsertType
  <2>4. todo' \in [Server -> SUBSET Delivery]
    BY <2>1 DEF TypeOK
  <2>5. UNCHANGED <<hook, attempts, sent, queue, pc, cur, ok, request, audits, blind, stranded, missed, faults, admin>>
    BY <1>8 DEF Insert
  <2> QED
    BY <2>3, <2>4, <2>5 DEF TypeOK
<1>9. ASSUME NEW s \in Server, EndFanout(s) PROVE TypeOK'
  <2>1. /\ pc' \in [Server -> Working \cup {"idle", "fanout", "ended", "down"}]
        /\ cur' \in [Server -> Attempt \cup {<< >>}]
        /\ \A t \in Server : IF pc'[t] \in Working THEN cur'[t] \in Attempt ELSE cur'[t] = << >>
    BY <1>9, MoveType DEF EndFanout, Working
  <2>2. UNCHANGED <<tableVars, sent, queue, heap, todo, ok, request, histVars, faults, admin>>
    BY <1>9 DEF EndFanout
  <2> QED
    BY <2>1, <2>2 DEF TypeOK, tableVars, histVars
<1>10. ASSUME NEW s \in Server, FanoutFails(s) PROVE TypeOK'
  <2>1. /\ pc' \in [Server -> Working \cup {"idle", "fanout", "ended", "down"}]
        /\ cur' \in [Server -> Attempt \cup {<< >>}]
        /\ \A t \in Server : IF pc'[t] \in Working THEN cur'[t] \in Attempt ELSE cur'[t] = << >>
    BY <1>10, MoveType DEF FanoutFails, Working
  <2>2. todo' \in [Server -> SUBSET Delivery] /\ missed' \subseteq Delivery
    BY <1>10 DEF FanoutFails, TypeOK
  <2>3. UNCHANGED <<tableVars, sent, queue, heap, ok, request, chains, audits, blind, stranded, admin>>
    BY <1>10 DEF FanoutFails
  <2>4. faults' \in 0 .. MaxFaults
    BY <1>10, Counted DEF FanoutFails
  <2> QED
    BY <2>1, <2>2, <2>3, <2>4 DEF TypeOK, tableVars
<1>11. ASSUME NEW s \in Server, Pop(s) PROVE TypeOK'
  <2>1. PICK a \in heap[s] : /\ heap' = [heap EXCEPT ![s] = @ \ {a}]
                             /\ cur' = [cur EXCEPT ![s] = a]
    BY <1>11 DEF Pop
  <2>2. a \in Attempt
    BY <2>1 DEF TypeOK
  <2>3. /\ pc' \in [Server -> Working \cup {"idle", "fanout", "ended", "down"}]
        /\ pc'[s] = "attempt" /\ \A t \in Server \ {s} : pc'[t] = pc[t]
    BY <1>11, GotoType DEF Pop, Working
  <2>4. /\ cur' \in [Server -> Attempt \cup {<< >>}]
        /\ \A t \in Server : IF pc'[t] \in Working THEN cur'[t] \in Attempt ELSE cur'[t] = << >>
    BY <2>1, <2>2, <2>3 DEF TypeOK, Working
  <2>5. heap' \in [Server -> SUBSET Attempt]
    BY <2>1 DEF TypeOK
  <2>6. UNCHANGED <<tableVars, sent, queue, todo, ok, request, histVars, faults, admin>>
    BY <1>11 DEF Pop
  <2> QED
    BY <2>3, <2>4, <2>5, <2>6 DEF TypeOK, tableVars, histVars
<1>12. ASSUME NEW s \in Server, GiveUp(s) PROVE TypeOK'
  <2>1. Of(s) \in Delivery
    BY <1>12, RunningAttempt DEF GiveUp, Working
  <2>2. /\ status' \in [Delivery -> {"none", "pruned"} \cup Open \cup Terminal]
        /\ attempts' \in [Delivery -> Nat] /\ blind' \in [Delivery -> Nat]
    <3>1. "failed" \in Open \cup Terminal
      BY DEF Terminal
    <3>2. RecordRow(Of(s), "failed") /\ blind' = [blind EXCEPT ![Of(s)] = @ + 1]
      BY <1>12 DEF GiveUp
    <3>3. /\ status' \in [Delivery -> {"none", "pruned"} \cup Open \cup Terminal]
          /\ attempts' \in [Delivery -> Nat]
      BY <2>1, <3>1, <3>2, RecordType
    <3>4. blind \in [Delivery -> Nat]
      BY DEF TypeOK
    <3>5. blind' \in [Delivery -> Nat]
      BY <2>1, <3>2, <3>4
    <3> QED
      BY <3>3, <3>5
  <2>3. /\ pc' \in [Server -> Working \cup {"idle", "fanout", "ended", "down"}]
        /\ cur' \in [Server -> Attempt \cup {<< >>}]
        /\ \A t \in Server : IF pc'[t] \in Working THEN cur'[t] \in Attempt ELSE cur'[t] = << >>
    BY <1>12, EndAttemptType DEF GiveUp
  <2>4. UNCHANGED <<hook, sent, queue, heap, todo, ok, request, chains, audits, stranded, missed, admin>>
    BY <1>12 DEF GiveUp
  <2>5. faults' \in 0 .. MaxFaults
    BY <1>12, Counted DEF GiveUp, TypeOK
  <2> QED
    BY <2>2, <2>3, <2>4, <2>5 DEF TypeOK
<1>13. ASSUME NEW s \in Server, Post(s) PROVE TypeOK'
  <2>1. ok' \in [Server -> BOOLEAN]
    BY <1>13 DEF Post, TypeOK
  <2>2. /\ pc' \in [Server -> Working \cup {"idle", "fanout", "ended", "down"}]
        /\ pc'[s] = "posted" /\ pc[s] \in Working /\ \A t \in Server \ {s} : pc'[t] = pc[t]
    BY <1>13, GotoType DEF Post, Working
  <2> QED
    BY <1>13, <2>1, <2>2 DEF Post, TypeOK, tableVars, histVars, Working
<1>14. ASSUME NEW s \in Server, AuditAttempt(s) PROVE TypeOK'
  <2>1. Of(s) \in Delivery
    BY <1>14, RunningAttempt DEF AuditAttempt, Working
  <2>2. audits' \in [Delivery -> Nat]
    BY <1>14, <2>1 DEF AuditAttempt, TypeOK
  <2> QED
    BY <1>14, <2>2, GotoType DEF AuditAttempt, TypeOK, tableVars, Working
<1>15. ASSUME NEW s \in Server, Record(s) PROVE TypeOK'
  <2>1. /\ cur[s] \in Attempt /\ Of(s) \in Delivery
        /\ cur[s][2] \in Nat \ {0} /\ cur[s][3] \in 1 .. MaxAttempts
    BY <1>15, RunningAttempt DEF Record, Working
  <2>2. Outcome(s) \in Open \cup Terminal
    BY DEF Outcome, Open, Terminal
  <2>3. /\ status' \in [Delivery -> {"none", "pruned"} \cup Open \cup Terminal]
        /\ attempts' \in [Delivery -> Nat]
    BY <1>15, <2>1, <2>2, RecordType DEF Record
  <2>4. heap' \in [Server -> SUBSET Attempt]
    <3>1. CASE Outcome(s) = "retrying" /\ status[Of(s)] # "pruned"
      <4>1. cur[s][3] + 1 \in 1 .. MaxAttempts
        BY <2>1, <3>1, DispatchAssumption DEF Outcome
      <4>2. <<Of(s), cur[s][2], cur[s][3] + 1>> \in Attempt
        BY <2>1, <4>1, AttemptMade
      <4> QED
        BY <1>15, <3>1, <4>2, PushType DEF Record, Retry, TypeOK
    <3>2. CASE ~(Outcome(s) = "retrying" /\ status[Of(s)] # "pruned")
      BY <1>15, <3>2 DEF Record, Retry, TypeOK
    <3> QED
      BY <3>1, <3>2
  <2> QED
    BY <1>15, <2>3, <2>4, EndAttemptType DEF Record, TypeOK, histVars
<1>16. ASSUME NEW s \in Server, AttemptFails(s) PROVE TypeOK'
  <2>1. Of(s) \in Delivery
    BY <1>16, RunningAttempt DEF AttemptFails, Working
  <2> QED
    BY <1>16, <2>1, EndAttemptType, Counted DEF AttemptFails, TypeOK, tableVars
<1>17. ASSUME NEW s \in Server, Stop(s) PROVE TypeOK'
  <2>1. queue' \in [Server -> Seq(Event \cup {STOP})]
    <3>1. queue[s] \in Seq(Event \cup {STOP})
      BY DEF TypeOK
    <3>2. Append(queue[s], STOP) \in Seq(Event \cup {STOP}) /\ <<STOP>> \o queue[s] \in Seq(Event \cup {STOP})
      BY <3>1
    <3> QED
      BY <1>17, <3>2 DEF Stop, TypeOK
  <2>2. UNCHANGED <<tableVars, sent, heap, workerVars, request, histVars, admin>>
    BY <1>17 DEF Stop
  <2>3. faults' \in 0 .. MaxFaults
    BY <1>17, Counted DEF Stop
  <2> QED
    BY <2>1, <2>2, <2>3 DEF TypeOK, tableVars, workerVars, histVars
<1>18. ASSUME NEW s \in Server, EndWorker(s) PROVE TypeOK'
  <2>1. /\ pc' \in [Server -> Working \cup {"idle", "fanout", "ended", "down"}]
        /\ cur' \in [Server -> Attempt \cup {<< >>}]
        /\ \A t \in Server : IF pc'[t] \in Working THEN cur'[t] \in Attempt ELSE cur'[t] = << >>
    BY <1>18, MoveType DEF EndWorker, Working
  <2>2. UNCHANGED <<tableVars, sent, queue, heap, todo, ok, request, histVars, faults, admin>>
    BY <1>18 DEF EndWorker
  <2> QED
    BY <2>1, <2>2 DEF TypeOK, tableVars, histVars
<1>19. ASSUME NEW s \in Server, Leave(s), admin' = admin, faults' \in 0 .. MaxFaults PROVE TypeOK'
  <2>1. Driven(s) \subseteq Delivery
    BY RunningAttempt, AttemptParts DEF Driven, TypeOK
  <2>2. /\ queue' \in [Server -> Seq(Event \cup {STOP})]
        /\ heap' \in [Server -> SUBSET Attempt]
        /\ todo' \in [Server -> SUBSET Delivery]
        /\ ok' \in [Server -> BOOLEAN]
        /\ request' \in [Server -> Delivery \cup {<< >>}]
        /\ stranded' \subseteq Delivery /\ missed' \subseteq Delivery
    BY <1>19, <2>1 DEF Leave, TypeOK
  <2>3. /\ pc' \in [Server -> Working \cup {"idle", "fanout", "ended", "down"}]
        /\ cur' \in [Server -> Attempt \cup {<< >>}]
        /\ \A t \in Server : IF pc'[t] \in Working THEN cur'[t] \in Attempt ELSE cur'[t] = << >>
    BY <1>19 DEF Leave, Goto, TypeOK, Working
  <2> QED
    BY <1>19, <2>2, <2>3 DEF Leave, TypeOK, tableVars
<1>20. ASSUME NEW s \in Server, Exit(s) \/ Crash(s) PROVE TypeOK'
  <2>1. Leave(s) /\ admin' = admin /\ faults' \in 0 .. MaxFaults
    BY <1>20, Counted DEF Exit, Crash, Leave, TypeOK
  <2> QED
    BY <1>19, <2>1
<1>21. ASSUME NEW s \in Server, Start(s) PROVE TypeOK'
  <2>1. /\ pc' \in [Server -> Working \cup {"idle", "fanout", "ended", "down"}]
        /\ cur' \in [Server -> Attempt \cup {<< >>}]
        /\ \A t \in Server : IF pc'[t] \in Working THEN cur'[t] \in Attempt ELSE cur'[t] = << >>
    BY <1>21, MoveType DEF Start, Working
  <2>2. UNCHANGED <<tableVars, sent, queue, heap, todo, ok, request, histVars, faults, admin>>
    BY <1>21 DEF Start
  <2> QED
    BY <2>1, <2>2 DEF TypeOK, tableVars, histVars
<1>22. CASE UNCHANGED vars
  BY <1>22 DEF vars, tableVars, workerVars, histVars, TypeOK
<1> QED
  BY <1>1, <1>2, <1>3, <1>4, <1>5, <1>6, <1>7, <1>8, <1>9, <1>10, <1>11, <1>12, <1>13,
     <1>14, <1>15, <1>16, <1>17, <1>18, <1>20, <1>21, <1>22 DEF Next, Worker, Trouble

-----------------------------------------------------------------------------
(* The queue keeps its bound.                                               *)

\* Every step keeps the queue's bound.
LEMMA QueueStep == TypeOK /\ QueueBounded /\ [Next]_vars => QueueBounded'
<1> SUFFICES ASSUME TypeOK, QueueBounded, [Next]_vars, NEW t \in Server
             PROVE  Len(queue'[t]) <= QueueMax \/ (Len(queue'[t]) = QueueMax + 1 /\ Head(queue'[t]) = STOP)
  BY DEF QueueBounded
<1> DEFINE Fits(q) == Len(q) <= QueueMax \/ (Len(q) = QueueMax + 1 /\ Head(q) = STOP)
<1> DEFINE Same == queue'[t] = queue[t] \/ queue'[t] = << >>
<1>0. /\ QueueMax \in Nat \ {0}
      /\ queue[t] \in Seq(Event \cup {STOP}) /\ Fits(queue[t])
  BY DispatchAssumption DEF TypeOK, QueueBounded
<1>1. ASSUME NEW s \in Server, NEW e \in Event, Enqueue(s, e) PROVE Fits(queue'[t])
  BY <1>0, <1>1 DEF Enqueue, TypeOK
<1>2. ASSUME NEW s \in Server, TakeEvent(s) PROVE Fits(queue'[t])
  <2>1. CASE s = t
    <3>1. queue'[t] = Tail(queue[t]) /\ queue[t] # << >> /\ Head(queue[t]) # STOP
      BY <1>2, <2>1 DEF TakeEvent, TypeOK
    <3>2. Len(queue[t]) <= QueueMax /\ Len(queue'[t]) = Len(queue[t]) - 1
      BY <1>0, <3>1
    <3> QED
      BY <1>0, <3>2
  <2>2. CASE s # t
    BY <1>0, <1>2, <2>2 DEF TakeEvent, TypeOK
  <2> QED
    BY <2>1, <2>2
<1>3. ASSUME NEW s \in Server, Stop(s) PROVE Fits(queue'[t])
  <2>1. CASE s = t
    <3>1. Len(queue[t]) <= QueueMax
      BY <1>0, <1>3, <2>1 DEF Stop
    <3>2. CASE Len(queue[t]) < QueueMax
      <4>1. queue'[t] = Append(queue[t], STOP)
        BY <1>3, <2>1, <3>2 DEF Stop, TypeOK
      <4> QED
        BY <1>0, <3>2, <4>1
    <3>3. CASE ~(Len(queue[t]) < QueueMax)
      <4>1. queue'[t] = <<STOP>> \o queue[t]
        BY <1>3, <2>1, <3>3 DEF Stop, TypeOK
      <4> QED
        BY <1>0, <3>1, <3>3, <4>1
    <3> QED
      BY <3>2, <3>3
  <2>2. CASE s # t
    BY <1>0, <1>3, <2>2 DEF Stop, TypeOK
  <2> QED
    BY <2>1, <2>2
<1>4. ASSUME NEW s \in Server, Exit(s) \/ Crash(s) PROVE Same
  BY <1>4 DEF Exit, Crash, Leave, TypeOK
<1>5. ASSUME NEW s \in Server,
             \/ Insert(s) \/ EndFanout(s) \/ Pop(s) \/ GiveUp(s) \/ Post(s) \/ AuditAttempt(s)
             \/ Record(s) \/ EndWorker(s) \/ RedeliverFails(s) \/ FanoutFails(s)
             \/ AttemptFails(s) \/ Redeliver(s) \/ Start(s)
      PROVE  Same
  BY <1>5 DEF Insert, EndFanout, Pop, GiveUp, Post, AuditAttempt, Record, EndWorker,
     RedeliverFails, FanoutFails, AttemptFails, Redeliver, Start
<1>6. ASSUME NEW s \in Server, NEW d \in Delivery, Ping(s, d) \/ LookAt(s, d) PROVE Same
  BY <1>6 DEF Ping, LookAt
<1>7. ASSUME NEW h \in Hook, NEW v \in {"on", "off", "deleted"}, Change(h, v) PROVE Same
  BY <1>7 DEF Change
<1>8. ASSUME UNCHANGED vars PROVE Same
  BY <1>8 DEF vars
<1>9. ASSUME Same PROVE Fits(queue'[t])
  BY <1>0, <1>9
<1> QED
  BY <1>1, <1>2, <1>3, <1>4, <1>5, <1>6, <1>7, <1>8, <1>9, <1>0 DEF Next, Worker, Trouble

-----------------------------------------------------------------------------
(* An open row has a chain, or its chain is known to be lost.               *)

\* What a step must not do to a delivery: reopen its row without a chain, or take its
\* chain away.
Kept(d) ==
  /\ status'[d] \in Open => status[d] \in Open
  /\ d \in stranded => d \in stranded'
  /\ \A s \in Server : d \in Driven(s) => d \in Driven(s)'

\* A chain of d is in some server's hands, or known to be lost.
Covered(d) == d \in stranded \/ \E s \in Server : d \in Driven(s)

\* A delivery left alone stays covered.
LEMMA KeptCovers ==
  ASSUME OpenRowsAreDriven, NEW d \in Delivery, Kept(d), status'[d] \in Open
  PROVE  Covered(d)'
BY DEF OpenRowsAreDriven, Kept, Covered

\* The insertion of a row starts its chain and reopens no other.
LEMMA InsertCovers ==
  ASSUME TypeOK, OpenRowsAreDriven, NEW s \in Server, NEW e \in Delivery, InsertRow(s, e),
         stranded' = stranded, pc' = pc, cur' = cur, NEW d \in Delivery, status'[d] \in Open
  PROVE  Covered(d)'
<1>1. heap' = [heap EXCEPT ![s] = @ \cup {<<e, 1, 1>>}]
  BY DEF InsertRow, Push
<1>2. CASE d = e
  <2>1. <<e, 1, 1>> \in heap'[s] /\ <<e, 1, 1>>[1] = e
    BY <1>1 DEF TypeOK
  <2> QED
    BY <1>2, <2>1 DEF Covered, Driven
<1>3. CASE d # e
  <2>1. status'[d] \in {"pruned", status[d]}
    BY <1>3 DEF InsertRow, TypeOK
  <2>2. status[d] \in Open
    BY <2>1 DEF Open
  <2>3. \A t \in Server : d \in Driven(t) => d \in Driven(t)'
    BY <1>1 DEF Driven, Of, TypeOK
  <2> QED
    BY <2>2, <2>3 DEF OpenRowsAreDriven, Covered
<1> QED
  BY <1>2, <1>3

\* A step that leaves rows, heaps and running attempts alone.
LEMMA QuietCovers ==
  ASSUME OpenRowsAreDriven, status' = status, heap' = heap, stranded' = stranded,
         \A s \in Server : pc[s] \in Working => pc'[s] \in Working /\ cur'[s] = cur[s],
         NEW d \in Delivery, status'[d] \in Open
  PROVE  Covered(d)'
<1>1. \A s \in Server : d \in Driven(s) => d \in Driven(s)'
  BY DEF Driven, Of
<1> QED
  BY <1>1, KeptCovers DEF Kept

\* Every step keeps the open rows driven.
LEMMA DrivenStep == TypeOK /\ OpenRowsAreDriven /\ [Next]_vars => OpenRowsAreDriven'
<1> SUFFICES ASSUME TypeOK, OpenRowsAreDriven, [Next]_vars, NEW d \in Delivery, status'[d] \in Open
             PROVE  Covered(d)'
  BY DEF OpenRowsAreDriven, Covered
<1>1. ASSUME NEW s \in Server, NEW e \in Delivery, Ping(s, e) PROVE Covered(d)'
  BY <1>1, InsertCovers DEF Ping, workerVars
<1>2. ASSUME NEW s \in Server, Insert(s) PROVE Covered(d)'
  <2>1. PICK e \in todo[s] : InsertRow(s, e)
    BY <1>2 DEF Insert
  <2>2. e \in Delivery
    BY <2>1 DEF TypeOK
  <2> QED
    BY <1>2, <2>1, <2>2, InsertCovers DEF Insert
<1>3. ASSUME NEW s \in Server, Redeliver(s) PROVE Covered(d)'
  <2> DEFINE e == request[s]
  <2>1. e \in Delivery /\ pc' = pc /\ cur' = cur
    BY <1>3 DEF Redeliver, TypeOK, workerVars
  <2>2. CASE status[e] = "pruned"
    BY <1>3, <2>1, <2>2, QuietCovers DEF Redeliver
  <2>3. CASE status[e] # "pruned"
    <3>1. /\ status' = [status EXCEPT ![e] = "pending"]
          /\ heap' = [heap EXCEPT ![s] = @ \cup {<<e, chains[e] + 1, 1>>}]
          /\ stranded' = stranded \ {e}
      BY <1>3, <2>3 DEF Redeliver, Push
    <3>2. CASE d = e
      <4>1. <<e, chains[e] + 1, 1>> \in heap'[s] /\ <<e, chains[e] + 1, 1>>[1] = e
        BY <3>1 DEF TypeOK
      <4> QED
        BY <3>2, <4>1 DEF Covered, Driven
    <3>3. CASE d # e
      <4>1. \A t \in Server : d \in Driven(t) => d \in Driven(t)'
        BY <2>1, <3>1 DEF Driven, Of, TypeOK
      <4>2. status'[d] = status[d]
        BY <3>1, <3>3 DEF TypeOK
      <4>3. d \in stranded => d \in stranded'
        BY <3>1, <3>3
      <4> QED
        BY <4>1, <4>2, <4>3, KeptCovers DEF Kept
    <3> QED
      BY <3>2, <3>3
  <2> QED
    BY <2>2, <2>3
<1>4. ASSUME NEW s \in Server, Pop(s) PROVE Covered(d)'
  <2>1. PICK a \in heap[s] : /\ heap' = [heap EXCEPT ![s] = @ \ {a}]
                             /\ cur' = [cur EXCEPT ![s] = a]
    BY <1>4 DEF Pop
  <2>2. cur'[s] = a /\ pc'[s] = "attempt"
    BY <1>4, <2>1 DEF Pop, Goto, TypeOK
  <2>3. \A t \in Server \ {s} : heap'[t] = heap[t] /\ cur'[t] = cur[t] /\ pc'[t] = pc[t]
    BY <1>4, <2>1 DEF Pop, Goto, TypeOK
  <2>4. pc[s] \notin Working /\ heap'[s] = heap[s] \ {a}
    BY <1>4, <2>1 DEF Pop, Working, TypeOK
  <2>5. ASSUME NEW t \in Server, d \in Driven(t) PROVE d \in Driven(t)'
    <3>1. CASE t = s
      <4>1. PICK b \in heap[s] : b[1] = d
        BY <2>4, <2>5, <3>1 DEF Driven
      <4>2. CASE b = a
        BY <2>2, <3>1, <4>1, <4>2 DEF Driven, Of, Working
      <4>3. CASE b # a
        BY <2>4, <3>1, <4>1, <4>3 DEF Driven
      <4> QED
        BY <4>2, <4>3
    <3>2. CASE t # s
      BY <2>3, <2>5, <3>2 DEF Driven, Of
    <3> QED
      BY <3>1, <3>2
  <2> QED
    BY <1>4, <2>5, KeptCovers DEF Pop, Kept, tableVars, histVars
<1>5. ASSUME NEW s \in Server, EndAttempt(s), NEW t \in Server, d \in Driven(t), d # Of(s),
             heap[t] \subseteq heap'[t]
      PROVE  d \in Driven(t)'
  <2>1. t # s => pc'[t] = pc[t] /\ cur'[t] = cur[t]
    BY <1>5 DEF EndAttempt, Goto, TypeOK
  <2>2. CASE \E a \in heap[t] : a[1] = d
    BY <1>5, <2>2 DEF Driven
  <2>3. CASE pc[t] \in Working /\ d = Of(t)
    <3>1. t # s
      BY <1>5, <2>3
    <3> QED
      BY <2>1, <2>3, <3>1 DEF Driven, Of
  <2> QED
    BY <1>5, <2>2, <2>3 DEF Driven
<1>6. ASSUME NEW s \in Server, GiveUp(s) PROVE Covered(d)'
  <2>1. Of(s) \in Delivery
    BY <1>6, RunningAttempt DEF GiveUp, Working
  <2>2. d # Of(s) /\ status'[d] = status[d]
    BY <1>6, <2>1 DEF GiveUp, RecordRow, TypeOK, Open
  <2> QED
    BY <1>5, <1>6, <2>2, KeptCovers DEF GiveUp, Kept
<1>7. ASSUME NEW s \in Server, Record(s) PROVE Covered(d)'
  <2>1. Of(s) \in Delivery
    BY <1>7, RunningAttempt DEF Record, Working
  <2>2. CASE d = Of(s)
    <3>1. CASE status[d] = "pruned"
      BY <1>7, <2>2, <3>1 DEF Record, RecordRow, Open
    <3>2. CASE status[d] # "pruned"
      <4>1. status'[d] = Outcome(s)
        BY <1>7, <2>1, <2>2, <3>2 DEF Record, RecordRow, TypeOK
      <4>2. Outcome(s) = "retrying"
        BY <4>1 DEF Outcome, Open
      <4>3. heap' = [heap EXCEPT ![s] = @ \cup {<<Of(s), cur[s][2], cur[s][3] + 1>>}]
        BY <1>7, <2>2, <3>2, <4>2 DEF Record, Retry, Push
      <4>4. /\ <<Of(s), cur[s][2], cur[s][3] + 1>> \in heap'[s]
            /\ <<Of(s), cur[s][2], cur[s][3] + 1>>[1] = d
        BY <2>2, <4>3 DEF TypeOK
      <4> QED
        BY <4>4 DEF Covered, Driven
    <3> QED
      BY <3>1, <3>2
  <2>3. CASE d # Of(s)
    <3>1. status'[d] = status[d]
      BY <1>7, <2>1, <2>3 DEF Record, RecordRow, TypeOK
    <3>2. \A t \in Server : heap[t] \subseteq heap'[t]
      <4>1. CASE UNCHANGED heap
        BY <4>1
      <4>2. CASE Push(s, <<Of(s), cur[s][2], cur[s][3] + 1>>)
        BY <4>2 DEF Push, TypeOK
      <4> QED
        BY <1>7, <4>1, <4>2 DEF Record, Retry
    <3> QED
      BY <1>5, <1>7, <2>3, <3>1, <3>2, KeptCovers DEF Record, Kept, histVars
  <2> QED
    BY <2>2, <2>3
<1>8. ASSUME NEW s \in Server, AttemptFails(s) PROVE Covered(d)'
  <2>1. CASE d = Of(s)
    BY <1>8, <2>1 DEF AttemptFails, Covered
  <2>2. CASE d # Of(s)
    BY <1>5, <1>8, <2>2, KeptCovers DEF AttemptFails, Kept, tableVars
  <2> QED
    BY <2>1, <2>2
<1>9. ASSUME NEW s \in Server, Exit(s) \/ Crash(s) PROVE Covered(d)'
  <2>1. stranded' = stranded \cup Driven(s) /\ status' = status
    BY <1>9 DEF Exit, Crash, Leave, tableVars
  <2>2. \A t \in Server \ {s} : heap'[t] = heap[t] /\ pc'[t] = pc[t] /\ cur'[t] = cur[t]
    BY <1>9 DEF Exit, Crash, Leave, Goto, TypeOK
  <2>3. CASE d \in Driven(s)
    BY <2>1, <2>3 DEF Covered
  <2>4. CASE d \notin Driven(s)
    <3>1. \A t \in Server : d \in Driven(t) => d \in Driven(t)'
      BY <2>2, <2>4 DEF Driven, Of
    <3> QED
      BY <2>1, <3>1, KeptCovers DEF Kept
  <2> QED
    BY <2>3, <2>4
<1>10. ASSUME NEW s \in Server, Post(s) \/ AuditAttempt(s) PROVE Covered(d)'
  <2>1. \A t \in Server : pc[t] \in Working => pc'[t] \in Working /\ cur'[t] = cur[t]
    BY <1>10 DEF Post, AuditAttempt, Goto, TypeOK, Working
  <2> QED
    BY <1>10, <2>1, QuietCovers DEF Post, AuditAttempt, tableVars, histVars
<1>11. ASSUME NEW s \in Server,
              TakeEvent(s) \/ EndFanout(s) \/ FanoutFails(s) \/ EndWorker(s) \/ Start(s)
       PROVE  Covered(d)'
  <2>1. \A t \in Server : pc[t] \in Working => pc'[t] \in Working /\ cur'[t] = cur[t]
    BY <1>11 DEF TakeEvent, EndFanout, FanoutFails, EndWorker, Start, Goto, TypeOK, Working
  <2> QED
    BY <1>11, <2>1, QuietCovers
       DEF TakeEvent, EndFanout, FanoutFails, EndWorker, Start, tableVars, histVars
<1>12. ASSUME NEW s \in Server, RedeliverFails(s) \/ Stop(s) PROVE Covered(d)'
  BY <1>12, QuietCovers DEF RedeliverFails, Stop, tableVars, workerVars, histVars
<1>13. ASSUME NEW s \in Server, NEW e \in Event, Enqueue(s, e) PROVE Covered(d)'
  BY <1>13, QuietCovers DEF Enqueue, tableVars, workerVars, histVars
<1>14. ASSUME NEW s \in Server, NEW e \in Delivery, LookAt(s, e) PROVE Covered(d)'
  BY <1>14, QuietCovers DEF LookAt, tableVars, workerVars, histVars
<1>15. ASSUME NEW h \in Hook, NEW v \in {"on", "off", "deleted"}, Change(h, v) PROVE Covered(d)'
  BY <1>15, QuietCovers DEF Change, workerVars, histVars
<1>16. ASSUME UNCHANGED vars PROVE Covered(d)'
  BY <1>16, QuietCovers DEF vars, tableVars, workerVars, histVars
<1> QED
  BY <1>1, <1>2, <1>3, <1>4, <1>6, <1>7, <1>8, <1>9, <1>10, <1>11, <1>12, <1>13, <1>14,
     <1>15, <1>16 DEF Next, Worker, Trouble

-----------------------------------------------------------------------------
(* The audit entries cover the counted attempts.                            *)

\* The servers that hold an audited attempt of a delivery are finitely many.
LEMMA DueFinite ==
  ASSUME NEW d \in Delivery
  PROVE  IsFiniteSet(Due(d)) /\ Cardinality(Due(d)) \in Nat
<1>1. IsFiniteSet(Due(d))
  BY FS_Subset, DispatchAssumption DEF Due
<1> QED
  BY <1>1, FS_CardinalityType

\* A step that counts no attempt and adds none to the audited ones.
LEMMA NoneDue ==
  ASSUME TypeOK, EvidenceCoversDue, NEW d \in Delivery,
         attempts'[d] = attempts[d], audits'[d] = audits[d], blind'[d] = blind[d],
         \A t \in Server : pc'[t] = "audited" => pc[t] = "audited" /\ cur'[t] = cur[t]
  PROVE  attempts'[d] + Cardinality(Due(d)') <= audits'[d] + blind'[d]
<1>1. Due(d)' \subseteq Due(d)
  BY DEF Due, Of
<1>2. Cardinality(Due(d)') \in Nat /\ Cardinality(Due(d)') <= Cardinality(Due(d))
  BY <1>1, DueFinite, FS_Subset, FS_CardinalityType
<1> QED
  BY <1>2, DueFinite DEF EvidenceCoversDue, TypeOK

\* Every step keeps the attempts covered.
LEMMA EvidenceStep == TypeOK /\ EvidenceCoversDue /\ [Next]_vars => EvidenceCoversDue'
<1> SUFFICES ASSUME TypeOK, EvidenceCoversDue, [Next]_vars, NEW d \in Delivery
             PROVE  attempts'[d] + Cardinality(Due(d)') <= audits'[d] + blind'[d]
  BY DEF EvidenceCoversDue
<1> DEFINE Covers == attempts'[d] + Cardinality(Due(d)') <= audits'[d] + blind'[d]
<1>0. /\ attempts[d] \in Nat /\ audits[d] \in Nat /\ blind[d] \in Nat
      /\ Cardinality(Due(d)) \in Nat /\ IsFiniteSet(Due(d))
      /\ attempts[d] + Cardinality(Due(d)) <= audits[d] + blind[d]
  BY DueFinite DEF TypeOK, EvidenceCoversDue
<1>1. ASSUME NEW s \in Server, GiveUp(s) PROVE Covers
  <2>1. Of(s) \in Delivery
    BY <1>1, RunningAttempt DEF GiveUp, Working
  <2>2. \A t \in Server : pc'[t] = "audited" => pc[t] = "audited" /\ cur'[t] = cur[t]
    BY <1>1 DEF GiveUp, EndAttempt, Goto, TypeOK
  <2>3. Due(d)' \subseteq Due(d)
    BY <2>2 DEF Due, Of
  <2>4. Cardinality(Due(d)') \in Nat /\ Cardinality(Due(d)') <= Cardinality(Due(d))
    BY <1>0, <2>3, FS_Subset, FS_CardinalityType
  <2>5. CASE d = Of(s)
    <3>1. attempts'[d] \in {attempts[d], attempts[d] + 1} /\ blind'[d] = blind[d] + 1 /\ audits'[d] = audits[d]
      BY <1>1, <2>1, <2>5 DEF GiveUp, RecordRow, TypeOK
    <3> QED
      BY <1>0, <2>4, <3>1
  <2>6. CASE d # Of(s)
    <3>1. attempts'[d] = attempts[d] /\ blind'[d] = blind[d] /\ audits'[d] = audits[d]
      BY <1>1, <2>1, <2>6 DEF GiveUp, RecordRow, TypeOK
    <3> QED
      BY <2>2, <3>1, NoneDue
  <2> QED
    BY <2>5, <2>6
<1>2. ASSUME NEW s \in Server, AuditAttempt(s) PROVE Covers
  <2>1. Of(s) \in Delivery
    BY <1>2, RunningAttempt DEF AuditAttempt, Working
  <2>2. \A t \in Server \ {s} : pc'[t] = pc[t]
    BY <1>2 DEF AuditAttempt, Goto, TypeOK
  <2>3. cur' = cur /\ attempts' = attempts /\ blind' = blind
    BY <1>2 DEF AuditAttempt, tableVars
  <2>4. CASE d = Of(s)
    <3>1. audits'[d] = audits[d] + 1
      BY <1>2, <2>1, <2>4 DEF AuditAttempt, TypeOK
    <3>2. Due(d)' \subseteq Due(d) \cup {s}
      BY <2>2, <2>3 DEF Due, Of
    <3>3. /\ IsFiniteSet(Due(d) \cup {s})
          /\ Cardinality(Due(d) \cup {s}) \in {Cardinality(Due(d)), Cardinality(Due(d)) + 1}
      BY <1>0, FS_AddElement
    <3>4. Cardinality(Due(d)') \in Nat /\ Cardinality(Due(d)') <= Cardinality(Due(d)) + 1
      BY <1>0, <3>2, <3>3, FS_Subset, FS_CardinalityType
    <3> QED
      BY <1>0, <2>3, <3>1, <3>4
  <2>5. CASE d # Of(s)
    <3>1. audits'[d] = audits[d]
      BY <1>2, <2>1, <2>5 DEF AuditAttempt, TypeOK
    <3>2. Due(d)' \subseteq Due(d)
      BY <2>2, <2>3, <2>5 DEF Due, Of
    <3>3. Cardinality(Due(d)') \in Nat /\ Cardinality(Due(d)') <= Cardinality(Due(d))
      BY <1>0, <3>2, FS_Subset, FS_CardinalityType
    <3> QED
      BY <1>0, <2>3, <3>1, <3>3
  <2> QED
    BY <2>4, <2>5
<1>3. ASSUME NEW s \in Server, Record(s) PROVE Covers
  <2>1. Of(s) \in Delivery
    BY <1>3, RunningAttempt DEF Record, Working
  <2>2. \A t \in Server : pc'[t] = "audited" => t # s /\ pc[t] = "audited" /\ cur'[t] = cur[t]
    BY <1>3 DEF Record, EndAttempt, Goto, TypeOK
  <2>3. audits' = audits /\ blind' = blind
    BY <1>3 DEF Record, histVars
  <2>4. CASE d = Of(s)
    <3>1. attempts'[d] \in {attempts[d], attempts[d] + 1}
      BY <1>3, <2>1, <2>4 DEF Record, RecordRow, TypeOK
    <3>2. s \in Due(d) /\ Due(d)' \subseteq Due(d) \ {s}
      BY <1>3, <2>2, <2>4 DEF Record, Due, Of
    <3>3. IsFiniteSet(Due(d) \ {s}) /\ Cardinality(Due(d) \ {s}) = Cardinality(Due(d)) - 1
      BY <1>0, <3>2, FS_RemoveElement
    <3>4. Cardinality(Due(d)') \in Nat /\ Cardinality(Due(d)') <= Cardinality(Due(d)) - 1
      BY <3>2, <3>3, FS_Subset, FS_CardinalityType
    <3> QED
      BY <1>0, <2>3, <3>1, <3>4
  <2>5. CASE d # Of(s)
    <3>1. attempts'[d] = attempts[d]
      BY <1>3, <2>1, <2>5 DEF Record, RecordRow, TypeOK
    <3> QED
      BY <2>2, <2>3, <3>1, NoneDue
  <2> QED
    BY <2>4, <2>5
<1>4. ASSUME NEW s \in Server,
             \/ TakeEvent(s) \/ EndFanout(s) \/ EndWorker(s) \/ Start(s) \/ FanoutFails(s)
             \/ Pop(s) \/ Post(s) \/ AttemptFails(s) \/ Exit(s) \/ Crash(s)
      PROVE  Covers
  <2>1. attempts' = attempts /\ audits' = audits /\ blind' = blind
    BY <1>4 DEF TakeEvent, EndFanout, EndWorker, Start, FanoutFails, Pop, Post, AttemptFails,
       Exit, Crash, Leave, tableVars, histVars
  <2>2. ASSUME NEW t \in Server, pc'[t] = "audited" PROVE pc[t] = "audited" /\ cur'[t] = cur[t]
    <3>1. CASE TakeEvent(s) \/ EndFanout(s) \/ EndWorker(s) \/ Start(s) \/ FanoutFails(s) \/ Post(s)
      BY <2>2, <3>1 DEF TakeEvent, EndFanout, EndWorker, Start, FanoutFails, Post, Goto, TypeOK
    <3>2. CASE Pop(s)
      BY <2>2, <3>2 DEF Pop, Goto, TypeOK
    <3>3. CASE AttemptFails(s)
      BY <2>2, <3>3 DEF AttemptFails, EndAttempt, Goto, TypeOK
    <3>4. CASE Exit(s) \/ Crash(s)
      BY <2>2, <3>4 DEF Exit, Crash, Leave, Goto, TypeOK
    <3> QED
      BY <1>4, <3>1, <3>2, <3>3, <3>4
  <2> QED
    BY <2>1, <2>2, NoneDue
<1>5. ASSUME NEW s \in Server, Insert(s) \/ RedeliverFails(s) \/ Redeliver(s) \/ Stop(s) PROVE Covers
  BY <1>5, NoneDue DEF Insert, RedeliverFails, Redeliver, Stop, InsertRow, tableVars, workerVars, histVars
<1>6. ASSUME NEW s \in Server, NEW e \in Delivery, Ping(s, e) \/ LookAt(s, e) PROVE Covers
  BY <1>6, NoneDue DEF Ping, LookAt, tableVars, workerVars, histVars
<1>7. ASSUME NEW s \in Server, NEW e \in Event, Enqueue(s, e) PROVE Covers
  BY <1>7, NoneDue DEF Enqueue, tableVars, workerVars, histVars
<1>8. ASSUME NEW h \in Hook, NEW v \in {"on", "off", "deleted"}, Change(h, v) PROVE Covers
  BY <1>8, NoneDue DEF Change, workerVars, histVars
<1>9. ASSUME UNCHANGED vars PROVE Covers
  BY <1>9, NoneDue DEF vars, tableVars, workerVars, histVars
<1> QED
  BY <1>1, <1>2, <1>3, <1>4, <1>5, <1>6, <1>7, <1>8, <1>9 DEF Next, Worker, Trouble

-----------------------------------------------------------------------------
(* The invariant, and what it says of the tables.                           *)

\* The initial state has the invariant: nothing is queued, running or counted.
LEMMA DispatchInit == Init => DispatchInv
<1> SUFFICES ASSUME Init PROVE DispatchInv
  OBVIOUS
<1>1. TypeOK
  BY TypeInit
<1>2. QueueBounded
  BY DispatchAssumption DEF Init, QueueBounded
<1>3. OpenRowsAreDriven
  BY DEF Init, OpenRowsAreDriven, Open
<1>4. EvidenceCoversDue
  <2>1. \A d \in Delivery : Due(d) = {}
    BY DEF Init, Due
  <2> QED
    <3>1. Cardinality({}) = 0
      BY FS_EmptySet
    <3>2. ASSUME NEW d \in Delivery
          PROVE  attempts[d] + Cardinality(Due(d)) <= audits[d] + blind[d]
      <4>1. Cardinality(Due(d)) = 0
        BY <2>1, <3>1
      <4>2. attempts[d] = 0 /\ audits[d] = 0 /\ blind[d] = 0
        BY DEF Init
      <4> QED
        BY <4>1, <4>2
    <3> QED
      BY <3>2 DEF EvidenceCoversDue
<1> QED
  BY <1>1, <1>2, <1>3, <1>4 DEF DispatchInv

\* With any number of servers over one database, the dispatcher's state has its types, the
\* queues keep their bound, open rows are driven, and audit entries cover the attempts,
\* those about to be counted included.
THEOREM DispatchInvariant == Spec => []DispatchInv
<1>1. DispatchInv /\ [Next]_vars => DispatchInv'
  BY TypeStep, QueueStep, DrivenStep, EvidenceStep DEF DispatchInv
<1> QED
  BY <1>1, DispatchInit, PTL DEF Spec

\* The dispatcher's state has its types (webhook_dispatch.py:118-137).
THEOREM DispatchTypeOK == Spec => []TypeOK
BY DispatchInvariant, PTL DEF DispatchInv

\* A row left pending or retrying without a chain is one whose chain died with a process
\* or a failed statement (webhook_dispatch.py:20-22), never one the dispatcher forgot.
THEOREM RowsAreDriven == Spec => []OpenRowsAreDriven
BY DispatchInvariant, PTL DEF DispatchInv

\* The audit entry of an attempt is written before the row counts it, at any crash point
\* and with any number of servers (webhook_dispatch.py:452-467).
THEOREM EvidencePrecedesState == Spec => []EvidenceBeforeState
<1>1. DispatchInv => EvidenceBeforeState
  BY DueFinite DEF DispatchInv, TypeOK, EvidenceCoversDue, EvidenceBeforeState
<1> QED
  BY <1>1, DispatchInvariant, PTL

-----------------------------------------------------------------------------
(* One server: one chain for a delivery, and what was delivered is final.   *)

Sole == \A s, t \in Server : s = t

\* Steps that leave rows, heaps and running attempts alone keep the chains apart.
LEMMA QuietChains ==
  ASSUME OneChain, status' = status, heap' = heap,
         \A s \in Server : pc'[s] \in Working => pc[s] \in Working /\ cur'[s] = cur[s],
         \A s \in Server : request'[s] = << >> \/ request'[s] = request[s]
  PROVE  OneChain'
BY DEF OneChain, Driven, Of

\* A row that is inserted: retention may take finished rows, and no others change.
LEMMA InsertFate ==
  ASSUME TypeOK, NEW s \in Server, NEW d \in Delivery, InsertRow(s, d)
  PROVE  /\ status'[d] = "pending"
         /\ \A x \in Delivery \ {d} :
              status'[x] = status[x] \/ (status[x] \in Terminal /\ status'[x] = "pruned")
BY DEF InsertRow, TypeOK

\* A chain that starts for a delivery without one, while the other driven rows stay.
LEMMA JoinChains ==
  ASSUME Sole, TypeOK, OneChain, NEW s \in Server, NEW a \in Attempt, Push(s, a),
         a[1] \notin Driven(s), pc' = pc, cur' = cur,
         status'[a[1]] \in Open, \A x \in Driven(s) : status'[x] = status[x],
         request'[s] # << >> => status'[request'[s]] \in {"failed", "pruned"}
  PROVE  OneChain'
<1>1. heap'[s] = heap[s] \cup {a} /\ \A b \in heap[s] : b[1] # a[1]
  BY DEF Push, TypeOK, Driven
<1>2. \A b, c \in heap'[s] : b[1] = c[1] => b = c
  BY <1>1 DEF OneChain
<1>3. pc'[s] \in Working => \A b \in heap'[s] : b[1] # Of(s)'
  BY <1>1 DEF OneChain, Driven, Of
<1>4. \A x \in Driven(s)' : status'[x] \in Open
  BY <1>1 DEF OneChain, Driven, Of
<1>5. \A t \in Server : t = s
  BY DEF Sole
<1> QED
  BY <1>2, <1>3, <1>4, <1>5 DEF OneChain

\* An attempt that ends without a retry leaves the other chains alone.
LEMMA EndChains ==
  ASSUME Sole, TypeOK, OneChain, NEW s \in Server, pc[s] \in Working, EndAttempt(s),
         heap' = heap, request' = request,
         \A x \in Delivery \ {Of(s)} : status'[x] = status[x]
  PROVE  OneChain'
<1>1. pc'[s] \notin Working
  BY DEF EndAttempt, Goto, TypeOK, Working
<1>2. \A a \in heap[s] : a[1] # Of(s) /\ a[1] \in Delivery /\ status[a[1]] \in Open
  BY AttemptParts DEF OneChain, TypeOK, Driven
<1>3. \A x \in Driven(s)' : status'[x] \in Open
  BY <1>1, <1>2 DEF Driven
<1>4. request'[s] # << >> => status'[request'[s]] \in {"failed", "pruned"}
  <2> SUFFICES ASSUME request[s] # << >> PROVE status'[request[s]] \in {"failed", "pruned"}
    OBVIOUS
  <2>1. request[s] \in Delivery /\ status[request[s]] \in {"failed", "pruned"}
    BY DEF TypeOK, OneChain
  <2>2. status[Of(s)] \in Open
    BY DEF OneChain, Driven
  <2>3. request[s] # Of(s)
    BY <2>1, <2>2 DEF Open
  <2> QED
    BY <2>1, <2>3
<1>5. \A t \in Server : t = s
  BY DEF Sole
<1> QED
  BY <1>1, <1>3, <1>4, <1>5 DEF OneChain

\* Every step keeps the chains apart.
LEMMA ChainStep ==
  ASSUME Sole, SoleInv, [Next]_vars
  PROVE  OneChain'
<1>0. TypeOK /\ OneChain /\ EventsWaitOnce
  BY DEF SoleInv, DispatchInv
<1>1. ASSUME NEW s \in Server, NEW d \in Delivery, InsertRow(s, d), status[d] = "none",
             pc' = pc, cur' = cur, request' = request
      PROVE  OneChain'
  <2>1. <<d, 1, 1>> \in Attempt /\ <<d, 1, 1>>[1] = d /\ Push(s, <<d, 1, 1>>)
    BY <1>1, AttemptMade, DispatchAssumption DEF InsertRow
  <2>2. \A x \in Driven(s) : x \in Delivery /\ status[x] \in Open
    BY <1>0, RunningAttempt, AttemptParts DEF OneChain, Driven, TypeOK
  <2>3. d \notin Driven(s)
    BY <1>1, <2>2 DEF Open
  <2>4. status'[d] \in Open
    BY <1>0, <1>1, InsertFate DEF Open
  <2>5. ASSUME NEW x \in Driven(s) PROVE status'[x] = status[x]
    <3>1. x # d /\ x \in Delivery /\ status[x] \notin Terminal
      BY <2>2, <2>3 DEF Open, Terminal
    <3> QED
      BY <1>0, <1>1, <3>1, InsertFate
  <2>6. request'[s] # << >> => status'[request'[s]] \in {"failed", "pruned"}
    <3> SUFFICES ASSUME request[s] # << >> PROVE status'[request[s]] \in {"failed", "pruned"}
      BY <1>1
    <3>1. request[s] \in Delivery /\ status[request[s]] \in {"failed", "pruned"}
      BY <1>0 DEF TypeOK, OneChain
    <3> QED
      BY <1>0, <1>1, <3>1, InsertFate
  <2> QED
    BY <1>0, <1>1, <2>1, <2>3, <2>4, <2>5, <2>6, JoinChains
<1>2. ASSUME NEW s \in Server, NEW d \in Delivery, Ping(s, d) PROVE OneChain'
  <2>1. status[d] = "none"
    BY <1>0, <1>2 DEF Ping, EventsWaitOnce
  <2> QED
    BY <1>1, <1>2, <2>1 DEF Ping, workerVars
<1>3. ASSUME NEW s \in Server, Insert(s) PROVE OneChain'
  <2>1. PICK d \in todo[s] : InsertRow(s, d)
    BY <1>3 DEF Insert
  <2>2. d \in Delivery /\ status[d] = "none"
    BY <1>0, <2>1 DEF TypeOK, EventsWaitOnce
  <2> QED
    BY <1>1, <1>3, <2>1, <2>2 DEF Insert
<1>4. ASSUME NEW s \in Server, Redeliver(s) PROVE OneChain'
  <2> DEFINE d == request[s]
  <2>1. d \in Delivery /\ d # << >> /\ status[d] \in {"failed", "pruned"}
    BY <1>0, <1>4 DEF Redeliver, TypeOK, OneChain
  <2>2. pc' = pc /\ cur' = cur /\ request'[s] = << >> /\ request' = [request EXCEPT ![s] = << >>]
    BY <1>0, <1>4 DEF Redeliver, workerVars, TypeOK
  <2>3. CASE status[d] = "pruned"
    <3>1. status' = status /\ heap' = heap
      BY <1>4, <2>3 DEF Redeliver
    <3>2. \A t \in Server : request'[t] = << >> \/ request'[t] = request[t]
      BY <1>0, <2>2 DEF TypeOK
    <3> QED
      BY <1>0, <2>2, <3>1, <3>2, QuietChains
  <2>4. CASE status[d] # "pruned"
    <3> DEFINE a == <<d, chains[d] + 1, 1>>
    <3>1. a \in Attempt /\ a[1] = d
      <4>1. chains[d] + 1 \in Nat \ {0} /\ 1 \in 1 .. MaxAttempts
        BY <1>0, <2>1, DispatchAssumption DEF TypeOK
      <4> QED
        BY <2>1, <4>1, AttemptMade
    <3>2. Push(s, a) /\ status' = [status EXCEPT ![d] = "pending"]
      BY <1>4, <2>4 DEF Redeliver
    <3>3. \A x \in Driven(s) : status[x] \in Open
      BY <1>0 DEF OneChain
    <3>4. d \notin Driven(s)
      BY <2>1, <3>3 DEF Open
    <3>5. status'[d] \in Open /\ \A x \in Driven(s) : status'[x] = status[x]
      <4>1. \A x \in Driven(s) : x \in Delivery /\ x # d
        BY <1>0, <3>4, RunningAttempt, AttemptParts DEF Driven, TypeOK
      <4> QED
        BY <1>0, <2>1, <3>2, <4>1 DEF TypeOK, Open
    <3> HIDE DEF a
    <3> QED
      BY <1>0, <2>2, <3>1, <3>2, <3>4, <3>5, JoinChains
  <2> QED
    BY <2>3, <2>4
<1>5. ASSUME NEW s \in Server, Pop(s) PROVE OneChain'
  <2>1. PICK a \in heap[s] : /\ heap' = [heap EXCEPT ![s] = @ \ {a}]
                             /\ cur' = [cur EXCEPT ![s] = a]
    BY <1>5 DEF Pop
  <2>2. cur'[s] = a /\ heap'[s] = heap[s] \ {a}
    BY <1>0, <2>1 DEF TypeOK
  <2>3. status' = status /\ request' = request
    BY <1>5 DEF Pop, tableVars
  <2>4. \A b, c \in heap'[s] : b[1] = c[1] => b = c
    BY <1>0, <2>2 DEF OneChain
  <2>5. \A b \in heap'[s] : b[1] # Of(s)'
    BY <1>0, <2>1, <2>2 DEF OneChain, Of
  <2>6. \A x \in Driven(s)' : status'[x] \in Open
    BY <1>0, <2>1, <2>2, <2>3 DEF OneChain, Driven, Of
  <2>7. \A t \in Server : t = s
    BY DEF Sole
  <2> QED
    BY <1>0, <2>3, <2>4, <2>5, <2>6, <2>7 DEF OneChain
<1>6. ASSUME NEW s \in Server, GiveUp(s) PROVE OneChain'
  <2>1. pc[s] \in Working /\ Of(s) \in Delivery
    BY <1>0, <1>6, RunningAttempt DEF GiveUp, Working
  <2>2. \A x \in Delivery \ {Of(s)} : status'[x] = status[x]
    BY <1>0, <1>6, <2>1 DEF GiveUp, RecordRow, TypeOK
  <2> QED
    BY <1>0, <1>6, <2>1, <2>2, EndChains DEF GiveUp
<1>7. ASSUME NEW s \in Server, AttemptFails(s) PROVE OneChain'
  BY <1>0, <1>7, EndChains DEF AttemptFails, Working, tableVars
<1>8. ASSUME NEW s \in Server, Record(s) PROVE OneChain'
  <2>1. /\ pc[s] \in Working /\ Of(s) \in Delivery /\ cur[s] \in Attempt
        /\ \A x \in Delivery \ {Of(s)} : status'[x] = status[x]
    <3>1. pc[s] \in Working
      BY <1>8 DEF Record, Working
    <3>2. Of(s) \in Delivery /\ cur[s] \in Attempt
      BY <1>0, <3>1, RunningAttempt
    <3>3. \A x \in Delivery \ {Of(s)} : status'[x] = status[x]
      BY <1>0, <1>8, <3>2 DEF Record, RecordRow, TypeOK
    <3> QED
      BY <3>1, <3>2, <3>3
  <2>2. status[Of(s)] \in Open
    BY <1>0, <2>1 DEF OneChain, Driven
  <2>3. CASE Outcome(s) # "retrying"
    BY <1>0, <1>8, <2>1, <2>3, EndChains DEF Record, Retry
  <2>4. CASE Outcome(s) = "retrying"
    <3> DEFINE a == <<Of(s), cur[s][2], cur[s][3] + 1>>
    <3>1. a[1] = Of(s)
      OBVIOUS
    <3>2. heap' = [heap EXCEPT ![s] = @ \cup {a}] /\ status'[Of(s)] = "retrying"
      BY <1>0, <1>8, <2>1, <2>2, <2>4 DEF Record, Retry, Push, RecordRow, Open, TypeOK
    <3> HIDE DEF a
    <3>3. heap'[s] = heap[s] \cup {a} /\ pc'[s] \notin Working /\ request' = request
      BY <1>0, <1>8, <3>2 DEF Record, EndAttempt, Goto, Working, TypeOK
    <3>4. \A b \in heap[s] : b[1] # a[1] /\ b[1] \in Delivery /\ status[b[1]] \in Open
      BY <1>0, <2>1, <3>1, AttemptParts DEF OneChain, Driven, TypeOK
    <3>5. \A b, c \in heap'[s] : b[1] = c[1] => b = c
      BY <1>0, <3>3, <3>4 DEF OneChain
    <3>6. \A x \in Driven(s)' : status'[x] \in Open
      BY <2>1, <3>1, <3>2, <3>3, <3>4 DEF Driven, Open
    <3>7. request'[s] # << >> => status'[request'[s]] \in {"failed", "pruned"}
      <4> SUFFICES ASSUME request[s] # << >> PROVE status'[request[s]] \in {"failed", "pruned"}
        BY <3>3
      <4>1. request[s] \in Delivery /\ status[request[s]] \in {"failed", "pruned"}
        BY <1>0 DEF TypeOK, OneChain
      <4>2. request[s] # Of(s)
        BY <2>2, <4>1 DEF Open
      <4> QED
        BY <2>1, <4>1, <4>2
    <3>8. \A t \in Server : t = s
      BY DEF Sole
    <3> QED
      BY <3>3, <3>5, <3>6, <3>7, <3>8 DEF OneChain
  <2> QED
    BY <2>3, <2>4
<1>9. ASSUME NEW s \in Server, Exit(s) \/ Crash(s) PROVE OneChain'
  <2>1. heap'[s] = {} /\ pc'[s] = "down" /\ request'[s] = << >>
    BY <1>0, <1>9 DEF Exit, Crash, Leave, Goto, TypeOK
  <2>2. \A t \in Server : t = s
    BY DEF Sole
  <2> QED
    BY <2>1, <2>2 DEF OneChain, Driven, Working
<1>10. ASSUME NEW s \in Server, NEW d \in Delivery, LookAt(s, d) PROVE OneChain'
  <2>1. request'[s] = d /\ status[d] = "failed"
    BY <1>0, <1>10 DEF LookAt, Redeliverable, TypeOK
  <2>2. status' = status /\ heap' = heap /\ pc' = pc /\ cur' = cur
    BY <1>10 DEF LookAt, tableVars, workerVars
  <2>3. \A t \in Server : t = s
    BY DEF Sole
  <2> QED
    BY <1>0, <2>1, <2>2, <2>3 DEF OneChain, Driven, Of
<1>11. ASSUME NEW s \in Server,
              \/ TakeEvent(s) \/ EndFanout(s) \/ FanoutFails(s) \/ EndWorker(s) \/ Start(s)
              \/ Post(s) \/ AuditAttempt(s)
       PROVE  OneChain'
  <2>1. status' = status /\ heap' = heap /\ request' = request /\ cur' = cur
    BY <1>11 DEF TakeEvent, EndFanout, FanoutFails, EndWorker, Start, Post, AuditAttempt, tableVars
  <2>2. \A t \in Server : pc'[t] \in Working => pc[t] \in Working
    BY <1>0, <1>11 DEF TakeEvent, EndFanout, FanoutFails, EndWorker, Start, Post, AuditAttempt,
       Goto, TypeOK, Working
  <2> QED
    BY <1>0, <2>1, <2>2, QuietChains
<1>12. ASSUME NEW s \in Server, RedeliverFails(s) PROVE OneChain'
  <2>1. \A t \in Server : request'[t] = << >> \/ request'[t] = request[t]
    BY <1>0, <1>12 DEF RedeliverFails, TypeOK
  <2> QED
    BY <1>0, <1>12, <2>1, QuietChains DEF RedeliverFails, tableVars, workerVars
<1>13. ASSUME NEW s \in Server, Stop(s) PROVE OneChain'
  BY <1>0, <1>13, QuietChains DEF Stop, tableVars, workerVars
<1>14. ASSUME NEW s \in Server, NEW e \in Event, Enqueue(s, e) PROVE OneChain'
  BY <1>0, <1>14, QuietChains DEF Enqueue, tableVars, workerVars
<1>15. ASSUME NEW h \in Hook, NEW v \in {"on", "off", "deleted"}, Change(h, v) PROVE OneChain'
  BY <1>0, <1>15, QuietChains DEF Change, workerVars
<1>16. ASSUME UNCHANGED vars PROVE OneChain'
  BY <1>0, <1>16, QuietChains DEF vars, tableVars, workerVars
<1> QED
  BY <1>2, <1>3, <1>4, <1>5, <1>6, <1>7, <1>8, <1>9, <1>10, <1>11, <1>12, <1>13, <1>14,
     <1>15, <1>16 DEF Next, Worker, Trouble

\* Steps that queue nothing and give no row to a delivery without one.
LEMMA QuietEvents ==
  ASSUME TypeOK, EventsWaitOnce, sent \subseteq sent', queue' = queue,
         \A s \in Server : todo'[s] \subseteq todo[s],
         \A d \in Delivery : status[d] = "none" => status'[d] = "none"
  PROVE  EventsWaitOnce'
<1>1. \A s \in Server : \A d \in todo'[s] : d[1] \in sent' /\ status'[d] = "none"
  BY DEF EventsWaitOnce, TypeOK
<1>2. \A d \in Delivery : d[1] \notin sent' => status'[d] = "none"
  BY DEF EventsWaitOnce
<1>3. ASSUME NEW s \in Server, NEW i \in 1 .. Len(queue'[s]), queue'[s][i] # STOP
      PROVE  /\ queue'[s][i] \in sent'
             /\ \A d \in Delivery : d[1] = queue'[s][i] => status'[d] = "none" /\ d \notin todo'[s]
  BY <1>3 DEF EventsWaitOnce
<1> QED
  BY <1>1, <1>2, <1>3 DEF EventsWaitOnce

\* Every step keeps a waiting event unique and its deliveries without rows.
LEMMA WaitStep ==
  ASSUME Sole, SoleInv, [Next]_vars
  PROVE  EventsWaitOnce'
<1>0. TypeOK /\ OneChain /\ EventsWaitOnce
  BY DEF SoleInv, DispatchInv
<1>1. ASSUME NEW s \in Server, NEW e \in Event, Enqueue(s, e) PROVE EventsWaitOnce'
  <2>1. /\ status' = status /\ todo' = todo /\ sent' = sent \cup {e} /\ e \notin sent
        /\ queue[s] \in Seq(Event \cup {STOP})
    BY <1>0, <1>1 DEF Enqueue, tableVars, workerVars, TypeOK
  <2>2. CASE queue' = queue
    BY <1>0, <2>1, <2>2, QuietEvents
  <2>3. CASE queue' # queue
    <3>1. queue'[s] = Append(queue[s], e)
      BY <1>0, <1>1, <2>3 DEF Enqueue, TypeOK
    <3>2. /\ Len(queue'[s]) = Len(queue[s]) + 1 /\ Len(queue[s]) \in Nat
          /\ queue'[s][Len(queue[s]) + 1] = e
          /\ \A i \in 1 .. Len(queue[s]) : queue'[s][i] = queue[s][i]
      BY <2>1, <3>1
    <3>3. \A i \in 1 .. Len(queue'[s]) :
            (i \in 1 .. Len(queue[s]) /\ queue'[s][i] = queue[s][i])
              \/ (i = Len(queue[s]) + 1 /\ queue'[s][i] = e)
      BY <3>2
    <3>4. \A i \in 1 .. Len(queue[s]) : queue[s][i] # e
      BY <1>0, <2>1, DispatchAssumption DEF EventsWaitOnce
    <3>5. \A i, j \in 1 .. Len(queue'[s]) : queue'[s][i] = queue'[s][j] /\ queue'[s][i] # STOP => i = j
      BY <1>0, <3>3, <3>4 DEF EventsWaitOnce
    <3>6. \A d \in Delivery : d[1] = e => status[d] = "none" /\ d \notin todo[s]
      BY <1>0, <2>1 DEF EventsWaitOnce
    <3>7. \A t \in Server : t = s
      BY DEF Sole
    <3>8. ASSUME NEW i \in 1 .. Len(queue'[s]), queue'[s][i] # STOP
          PROVE  /\ queue'[s][i] \in sent'
                 /\ \A d \in Delivery : d[1] = queue'[s][i] => status[d] = "none" /\ d \notin todo[s]
      BY <1>0, <2>1, <3>3, <3>6, <3>8 DEF EventsWaitOnce
    <3> QED
      BY <1>0, <2>1, <3>5, <3>7, <3>8 DEF EventsWaitOnce
  <2> QED
    BY <2>2, <2>3
<1>2. ASSUME NEW s \in Server, TakeEvent(s) PROVE EventsWaitOnce'
  <2> DEFINE e == Head(queue[s])
  <2>1. /\ status' = status /\ sent' = sent
        /\ queue[s] \in Seq(Event \cup {STOP}) /\ queue[s] # << >> /\ e # STOP
        /\ queue'[s] = Tail(queue[s])
        /\ \A d \in todo'[s] : d \in Delivery /\ d[1] = e
    BY <1>0, <1>2 DEF TakeEvent, tableVars, TypeOK
  <2>2. /\ Len(queue[s]) \in Nat \ {0} /\ Len(queue'[s]) = Len(queue[s]) - 1
        /\ e = queue[s][1]
        /\ \A i \in 1 .. Len(queue'[s]) : i + 1 \in 1 .. Len(queue[s]) /\ queue'[s][i] = queue[s][i + 1]
    BY <2>1
  <2> HIDE DEF e
  <2>3. e \in sent /\ \A d \in Delivery : d[1] = e => status[d] = "none"
    BY <1>0, <2>1, <2>2 DEF EventsWaitOnce
  <2>4. ASSUME NEW i \in 1 .. Len(queue'[s]), queue'[s][i] # STOP
        PROVE  /\ queue'[s][i] \in sent /\ queue'[s][i] # e
               /\ \A d \in Delivery : d[1] = queue'[s][i] => status[d] = "none"
    <3>1. i + 1 \in 1 .. Len(queue[s]) /\ i + 1 # 1 /\ 1 \in 1 .. Len(queue[s])
      BY <2>2
    <3> QED
      BY <1>0, <2>1, <2>2, <2>4, <3>1 DEF EventsWaitOnce
  <2>5. ASSUME NEW i \in 1 .. Len(queue'[s]), NEW j \in 1 .. Len(queue'[s]),
               queue'[s][i] = queue'[s][j], queue'[s][i] # STOP
        PROVE  i = j
    <3>1. /\ i + 1 \in 1 .. Len(queue[s]) /\ j + 1 \in 1 .. Len(queue[s])
          /\ queue[s][i + 1] = queue[s][j + 1] /\ queue[s][i + 1] # STOP
      <4>1. i + 1 \in 1 .. Len(queue[s]) /\ queue'[s][i] = queue[s][i + 1]
        BY <2>2
      <4>2. j + 1 \in 1 .. Len(queue[s]) /\ queue'[s][j] = queue[s][j + 1]
        BY <2>2
      <4> QED
        BY <2>5, <4>1, <4>2
    <3>2. \A k, l \in 1 .. Len(queue[s]) : queue[s][k] = queue[s][l] /\ queue[s][k] # STOP => k = l
      BY <1>0 DEF EventsWaitOnce
    <3>3. i + 1 = j + 1
      BY <3>1, <3>2
    <3> QED
      BY <3>3
  <2>6. \A t \in Server : t = s
    BY DEF Sole
  <2>7. \A d \in Delivery : d[1] \notin sent' => status'[d] = "none"
    BY <1>0, <2>1 DEF EventsWaitOnce
  <2>8. \A i, j \in 1 .. Len(queue'[s]) : queue'[s][i] = queue'[s][j] /\ queue'[s][i] # STOP => i = j
    BY <2>5
  <2>9. \A i \in 1 .. Len(queue'[s]) :
          queue'[s][i] # STOP =>
            /\ queue'[s][i] \in sent'
            /\ \A d \in Delivery : d[1] = queue'[s][i] => status'[d] = "none" /\ d \notin todo'[s]
    BY <2>1, <2>4
  <2>10. \A d \in todo'[s] : d[1] \in sent' /\ status'[d] = "none"
    BY <2>1, <2>3
  <2>11. \A t \in Server :
           /\ \A i, j \in 1 .. Len(queue'[t]) : queue'[t][i] = queue'[t][j] /\ queue'[t][i] # STOP => i = j
           /\ \A i \in 1 .. Len(queue'[t]) :
                queue'[t][i] # STOP =>
                  /\ queue'[t][i] \in sent'
                  /\ \A d \in Delivery : d[1] = queue'[t][i] => status'[d] = "none" /\ d \notin todo'[t]
           /\ \A d \in todo'[t] : d[1] \in sent' /\ status'[d] = "none"
    BY <2>6, <2>8, <2>9, <2>10
  <2> QED
    BY <2>7, <2>11 DEF EventsWaitOnce
<1>3. ASSUME NEW s \in Server, NEW d \in Delivery, Ping(s, d) PROVE EventsWaitOnce'
  <2>1. /\ InsertRow(s, d) /\ d[1] \notin sent /\ sent' = sent \cup {d[1]}
        /\ queue' = queue /\ todo' = todo
    BY <1>3 DEF Ping, workerVars
  <2>2. \A x \in Delivery \ {d} : status[x] = "none" => status'[x] = "none"
    BY <1>0, <2>1, InsertFate DEF Terminal
  <2>3. \A x \in Delivery : x[1] \notin sent' => status'[x] = "none"
    BY <1>0, <2>1, <2>2 DEF EventsWaitOnce
  <2>4. \A x \in todo[s] : x \in Delivery /\ x # d /\ x[1] \in sent' /\ status'[x] = "none"
    BY <1>0, <2>1, <2>2 DEF EventsWaitOnce, TypeOK
  <2>5. ASSUME NEW i \in 1 .. Len(queue[s]), queue[s][i] # STOP, NEW x \in Delivery, x[1] = queue[s][i]
        PROVE  status'[x] = "none" /\ x \notin todo[s]
    BY <1>0, <2>1, <2>2, <2>5 DEF EventsWaitOnce
  <2>6. \A t \in Server : t = s
    BY DEF Sole
  <2> QED
    BY <1>0, <2>1, <2>3, <2>4, <2>5, <2>6 DEF EventsWaitOnce
<1>4. ASSUME NEW s \in Server, Insert(s) PROVE EventsWaitOnce'
  <2>1. PICK d \in todo[s] : InsertRow(s, d) /\ todo' = [todo EXCEPT ![s] = @ \ {d}]
    BY <1>4 DEF Insert
  <2>2. /\ d \in Delivery /\ d[1] \in sent /\ sent' = sent /\ queue' = queue
        /\ todo'[s] = todo[s] \ {d}
    BY <1>0, <1>4, <2>1 DEF Insert, EventsWaitOnce, TypeOK
  <2>3. \A x \in Delivery \ {d} : status[x] = "none" => status'[x] = "none"
    BY <1>0, <2>1, <2>2, InsertFate DEF Terminal
  <2>4. \A x \in Delivery : x[1] \notin sent' => status'[x] = "none"
    BY <1>0, <2>2, <2>3 DEF EventsWaitOnce
  <2>5. \A x \in todo'[s] : x[1] \in sent' /\ status'[x] = "none"
    BY <1>0, <2>2, <2>3 DEF EventsWaitOnce, TypeOK
  <2>6. ASSUME NEW i \in 1 .. Len(queue[s]), queue[s][i] # STOP, NEW x \in Delivery, x[1] = queue[s][i]
        PROVE  status'[x] = "none" /\ x \notin todo'[s]
    BY <1>0, <2>1, <2>2, <2>3, <2>6 DEF EventsWaitOnce
  <2>7. \A t \in Server : t = s
    BY DEF Sole
  <2> QED
    BY <1>0, <2>2, <2>4, <2>5, <2>6, <2>7 DEF EventsWaitOnce
<1>5. ASSUME NEW s \in Server, Stop(s) PROVE EventsWaitOnce'
  <2> DEFINE q == queue[s]
  <2>1. /\ status' = status /\ sent' = sent /\ todo' = todo
        /\ q \in Seq(Event \cup {STOP}) /\ queue'[s] \in {Append(q, STOP), <<STOP>> \o q}
    BY <1>0, <1>5 DEF Stop, tableVars, workerVars, TypeOK
  <2>2. PICK k \in {0, 1} : \A i \in 1 .. Len(queue'[s]) :
          queue'[s][i] = STOP \/ (i - k \in 1 .. Len(q) /\ queue'[s][i] = q[i - k])
    <3>1. CASE queue'[s] = Append(q, STOP)
      <4>1. \A i \in 1 .. Len(queue'[s]) :
              queue'[s][i] = STOP \/ (i - 0 \in 1 .. Len(q) /\ queue'[s][i] = q[i - 0])
        BY <2>1, <3>1
      <4> QED
        BY <4>1
    <3>2. CASE queue'[s] = <<STOP>> \o q
      <4>1. \A i \in 1 .. Len(queue'[s]) :
              queue'[s][i] = STOP \/ (i - 1 \in 1 .. Len(q) /\ queue'[s][i] = q[i - 1])
        BY <2>1, <3>2
      <4> QED
        BY <4>1
    <3> QED
      BY <2>1, <3>1, <3>2
  <2>3. ASSUME NEW i \in 1 .. Len(queue'[s]), NEW j \in 1 .. Len(queue'[s]),
               queue'[s][i] = queue'[s][j], queue'[s][i] # STOP
        PROVE  i = j
    <3>1. i - k = j - k
      BY <1>0, <2>2, <2>3 DEF EventsWaitOnce
    <3> QED
      BY <3>1
  <2>4. ASSUME NEW i \in 1 .. Len(queue'[s]), queue'[s][i] # STOP
        PROVE  /\ queue'[s][i] \in sent
               /\ \A d \in Delivery : d[1] = queue'[s][i] => status[d] = "none" /\ d \notin todo[s]
    BY <1>0, <2>2, <2>4 DEF EventsWaitOnce
  <2>5. \A t \in Server : t = s
    BY DEF Sole
  <2> QED
    BY <1>0, <2>1, <2>3, <2>4, <2>5 DEF EventsWaitOnce
<1>6. ASSUME NEW s \in Server, Exit(s) \/ Crash(s) PROVE EventsWaitOnce'
  <2>1. queue'[s] = << >> /\ todo'[s] = {} /\ status' = status /\ sent' = sent
    BY <1>0, <1>6 DEF Exit, Crash, Leave, TypeOK, tableVars
  <2>2. \A t \in Server : t = s
    BY DEF Sole
  <2> QED
    BY <1>0, <2>1, <2>2 DEF EventsWaitOnce
<1>7. ASSUME NEW s \in Server, GiveUp(s) \/ Record(s) PROVE EventsWaitOnce'
  <2>1. pc[s] \in Working /\ sent' = sent /\ queue' = queue /\ todo' = todo
    BY <1>7 DEF GiveUp, Record, Working
  <2>2. Of(s) \in Delivery /\ status[Of(s)] \in Open
    BY <1>0, <2>1, RunningAttempt DEF OneChain, Driven
  <2>3. \A x \in Delivery \ {Of(s)} : status'[x] = status[x]
    BY <1>0, <1>7, <2>2 DEF GiveUp, Record, RecordRow, TypeOK
  <2> QED
    BY <1>0, <2>1, <2>2, <2>3, QuietEvents DEF Open
<1>8. ASSUME NEW s \in Server, Redeliver(s) PROVE EventsWaitOnce'
  <2>1. request[s] \in Delivery /\ status[request[s]] \in {"failed", "pruned"}
    BY <1>0, <1>8 DEF Redeliver, OneChain, TypeOK
  <2>2. \A x \in Delivery \ {request[s]} : status'[x] = status[x]
    BY <1>0, <1>8 DEF Redeliver, TypeOK
  <2> QED
    BY <1>0, <1>8, <2>1, <2>2, QuietEvents DEF Redeliver, workerVars
<1>9. ASSUME NEW s \in Server, EndFanout(s) \/ FanoutFails(s) PROVE EventsWaitOnce'
  <2>1. \A t \in Server : todo'[t] \subseteq todo[t]
    BY <1>0, <1>9 DEF EndFanout, FanoutFails, TypeOK
  <2> QED
    BY <1>0, <1>9, <2>1, QuietEvents DEF EndFanout, FanoutFails, tableVars
<1>10. ASSUME NEW s \in Server,
              \/ Pop(s) \/ Post(s) \/ AuditAttempt(s) \/ AttemptFails(s) \/ EndWorker(s)
              \/ Start(s) \/ RedeliverFails(s)
       PROVE  EventsWaitOnce'
  BY <1>0, <1>10, QuietEvents
     DEF Pop, Post, AuditAttempt, AttemptFails, EndWorker, Start, RedeliverFails, tableVars, workerVars
<1>11. ASSUME NEW s \in Server, NEW d \in Delivery, LookAt(s, d) PROVE EventsWaitOnce'
  BY <1>0, <1>11, QuietEvents DEF LookAt, tableVars, workerVars
<1>12. ASSUME NEW h \in Hook, NEW v \in {"on", "off", "deleted"}, Change(h, v) PROVE EventsWaitOnce'
  BY <1>0, <1>12, QuietEvents DEF Change, workerVars
<1>13. ASSUME UNCHANGED vars PROVE EventsWaitOnce'
  BY <1>0, <1>13, QuietEvents DEF vars, tableVars, workerVars
<1> QED
  BY <1>1, <1>2, <1>3, <1>4, <1>5, <1>6, <1>7, <1>8, <1>9, <1>10, <1>11, <1>12, <1>13
     DEF Next, Worker, Trouble

\* A delivered row is touched by retention alone.
LEMMA DeliveredStep ==
  ASSUME SoleInv, [Next]_vars, NEW d \in Delivery, status[d] = "delivered"
  PROVE  status'[d] \in {"delivered", "pruned"}
<1>0. TypeOK /\ OneChain /\ EventsWaitOnce
  BY DEF SoleInv, DispatchInv
<1>1. ASSUME NEW s \in Server, NEW e \in Delivery, InsertRow(s, e), status[e] = "none"
      PROVE  status'[d] \in {"delivered", "pruned"}
  BY <1>0, <1>1, InsertFate
<1>2. ASSUME NEW s \in Server, NEW e \in Delivery, Ping(s, e)
      PROVE  status'[d] \in {"delivered", "pruned"}
  <2>1. status[e] = "none" /\ InsertRow(s, e)
    BY <1>0, <1>2 DEF Ping, EventsWaitOnce
  <2> QED
    BY <1>1, <2>1
<1>3. ASSUME NEW s \in Server, Insert(s) PROVE status'[d] \in {"delivered", "pruned"}
  <2>1. PICK e \in todo[s] : InsertRow(s, e)
    BY <1>3 DEF Insert
  <2>2. e \in Delivery /\ status[e] = "none"
    BY <1>0, <2>1 DEF TypeOK, EventsWaitOnce
  <2> QED
    BY <1>1, <2>1, <2>2
<1>4. ASSUME NEW s \in Server, Redeliver(s) PROVE status'[d] = "delivered"
  <2>1. request[s] # d
    BY <1>0, <1>4 DEF Redeliver, OneChain
  <2> QED
    BY <1>0, <1>4, <2>1 DEF Redeliver, TypeOK
<1>5. ASSUME NEW s \in Server, GiveUp(s) \/ Record(s) PROVE status'[d] = "delivered"
  <2>1. pc[s] \in Working
    BY <1>5 DEF GiveUp, Record, Working
  <2>2. Of(s) # d
    BY <1>0, <2>1 DEF OneChain, Driven, Open
  <2> QED
    BY <1>0, <1>5, <2>2 DEF GiveUp, Record, RecordRow, TypeOK
<1>6. ASSUME NEW s \in Server,
             \/ TakeEvent(s) \/ EndFanout(s) \/ Pop(s) \/ Post(s) \/ AuditAttempt(s) \/ EndWorker(s)
             \/ RedeliverFails(s) \/ FanoutFails(s) \/ AttemptFails(s) \/ Stop(s) \/ Crash(s)
             \/ Exit(s) \/ Start(s)
      PROVE  status'[d] = "delivered"
  BY <1>6 DEF TakeEvent, EndFanout, Pop, Post, AuditAttempt, EndWorker, RedeliverFails,
     FanoutFails, AttemptFails, Stop, Crash, Exit, Leave, Start, tableVars
<1>7. ASSUME NEW s \in Server, NEW e \in Event, Enqueue(s, e) PROVE status'[d] = "delivered"
  BY <1>7 DEF Enqueue, tableVars
<1>8. ASSUME NEW s \in Server, NEW e \in Delivery, LookAt(s, e) PROVE status'[d] = "delivered"
  BY <1>8 DEF LookAt, tableVars
<1>9. ASSUME NEW h \in Hook, NEW v \in {"on", "off", "deleted"}, Change(h, v)
      PROVE  status'[d] = "delivered"
  BY <1>9 DEF Change
<1>10. ASSUME UNCHANGED vars PROVE status'[d] = "delivered"
  BY <1>10 DEF vars, tableVars
<1> QED
  BY <1>2, <1>3, <1>4, <1>5, <1>6, <1>7, <1>8, <1>9, <1>10 DEF Next, Worker, Trouble

\* While one server uses the database, an event waits once, a delivery has one chain, and
\* a chain has an open row (webhook_dispatch.py:223-262, 365-387).
THEOREM SoleInvariant ==
  ASSUME Sole
  PROVE  Spec => []SoleInv
<1>1. Init => SoleInv
  <2> SUFFICES ASSUME Init PROVE SoleInv
    OBVIOUS
  <2>1. DispatchInv
    BY DispatchInit
  <2>2. EventsWaitOnce
    BY DEF Init, EventsWaitOnce
  <2>3. OneChain
    BY DEF Init, OneChain, Driven, Working
  <2> QED
    BY <2>1, <2>2, <2>3 DEF SoleInv
<1>2. SoleInv /\ [Next]_vars => SoleInv'
  BY TypeStep, QueueStep, DrivenStep, EvidenceStep, ChainStep, WaitStep DEF SoleInv, DispatchInv
<1> QED
  BY <1>1, <1>2, PTL DEF Spec

\* Then a row marked delivered is never posted for again (webhook_dispatch.py:228-229).
THEOREM DeliveredStaysDelivered ==
  ASSUME Sole
  PROVE  Spec => DeliveredIsFinal
<1>1. SoleInv /\ [Next]_vars
        => [\A d \in Delivery : status[d] = "delivered" => status'[d] \in {"delivered", "pruned"}]_vars
  BY DeliveredStep
<1>2. Spec => []SoleInv
  BY SoleInvariant
<1> QED
  BY <1>1, <1>2, PTL DEF Spec, DeliveredIsFinal
=============================================================================
