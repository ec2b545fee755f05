------------------------- MODULE ErasureQueueProofs -------------------------
(***************************************************************************)
(* Proofs about erasure requests, for any number of servers, of direct     *)
(* erasers and of requests, and any pattern of deaths: DekStore's steps    *)
(* first, then the parts of ErasureInv, one lemma each.                    *)
(***************************************************************************)
EXTENDS ErasureQueue, TLAPS

\* A capture, the passing of time and the ledger keep the store's invariant.
LEMMA StoreEventsInv ==
  ASSUME DekInv, \/ GetOrCreate \/ PlaceHold \/ ReleaseHold \/ \E k \in Key : Age(k)
  PROVE  DekInv'
<1> USE StoreAssumption DEF DekInv, DekTypeOK, Key
<1>1. CASE GetOrCreate
  BY <1>1 DEF GetOrCreate, lawVars
<1>2. CASE PlaceHold
  BY <1>2 DEF PlaceHold, rowVars
<1>3. CASE ReleaseHold
  BY <1>3 DEF ReleaseHold, rowVars
<1>4. ASSUME NEW k \in Key, Age(k) PROVE DekInv'
  BY <1>4 DEF Age, rowVars
<1> QED
  BY <1>1, <1>2, <1>3, <1>4

\* The steps of an erasure keep it.
LEMMA EraseInv ==
  ASSUME DekInv, NEW S, pc \in [Actor -> S], NEW a \in Actor, Erase(a)
  PROVE  DekInv'
<1> USE StoreAssumption DEF DekInv, DekTypeOK, Key, Goto
<1>1. CASE Select(a)
  <2>1. pc'[a] # "destroy" /\ \A b \in Actor \ {a} : pc'[b] = pc[b] /\ sel'[b] = sel[b]
    BY <1>1 DEF Select
  <2>2. sel'[a] = key /\ sel' \in [Actor -> 0 .. MaxKeys]
    BY <1>1 DEF Select
  <2> QED
    BY <1>1, <2>1, <2>2 DEF Select, rowVars, lawVars
<1>2. CASE Check(a)
  <2>1. \A b \in Actor \ {a} : pc'[b] = pc[b] /\ sel'[b] = sel[b]
    BY <1>2 DEF Check
  <2>2. sel'[a] \in {sel[a], 0} /\ sel' \in [Actor -> 0 .. MaxKeys]
    BY <1>2 DEF Check
  <2>3. pc'[a] = "destroy" => ~hold /\ sel[a] \in aged /\ sel'[a] = sel[a]
    BY <1>2 DEF Check, Judged
  <2> QED
    BY <1>2, <2>1, <2>2, <2>3 DEF Check, rowVars, lawVars
<1>3. CASE Destroy(a)
  <2>1. pc'[a] # "destroy" /\ \A b \in Actor \ {a} : pc'[b] = pc[b] /\ sel'[b] = sel[b]
    BY <1>3 DEF Destroy, Quit
  <2>2. sel'[a] = 0 /\ sel' \in [Actor -> 0 .. MaxKeys]
    BY <1>3 DEF Destroy, Quit
  <2>3. racing' = racing \ {a}
    BY <1>3 DEF Destroy, Quit
  <2> QED
    BY <1>3, <2>1, <2>2, <2>3 DEF Destroy
<1> QED
  BY <1>1, <1>2, <1>3 DEF Erase

\* An actor that moves to another step than the DELETE, or ends, keeps it.
LEMMA MoveInv ==
  ASSUME DekInv, NEW S, pc \in [Actor -> S], NEW a \in Actor, NEW p, p # "destroy",
         \/ Goto(a, p) /\ UNCHANGED <<rowVars, lawVars, sel>>
         \/ Quit(a, p) /\ UNCHANGED <<rowVars, aged, hold>>
  PROVE  DekInv'
<1> USE StoreAssumption DEF DekInv, DekTypeOK, Key, Goto
<1>1. CASE Goto(a, p) /\ UNCHANGED <<rowVars, lawVars, sel>>
  BY <1>1 DEF rowVars, lawVars
<1>2. CASE Quit(a, p) /\ UNCHANGED <<rowVars, aged, hold>>
  <2>1. pc'[a] # "destroy" /\ \A b \in Actor \ {a} : pc'[b] = pc[b] /\ sel'[b] = sel[b]
    BY <1>2 DEF Quit
  <2>2. sel'[a] = 0 /\ sel' \in [Actor -> 0 .. MaxKeys] /\ racing' = racing \ {a}
    BY <1>2 DEF Quit
  <2> QED
    BY <1>2, <2>1, <2>2 DEF rowVars
<1> QED
  BY <1>1, <1>2

\* The store's invariant survives every step.
LEMMA DekNextInv ==
  ASSUME TypeOK, DekInv, [Next]_vars
  PROVE  DekInv'
<1> DEFINE S == {"idle", "create", "select", "check", "destroy", "missing"} \cup Outcomes
<1> USE QueueAssumption
<1>1. pc \in [Actor -> S]
  BY DEF TypeOK
<1>2. ASSUME NEW s \in Server, Post(s) \/ EraseRaises(s) \/ Abandon(s) PROVE DekInv'
  <2>1. s \in Actor
    OBVIOUS
  <2>2. ASSUME NEW r \in Request, Attach(s, r) PROVE DekInv'
    BY <2>1, <2>2, <1>1, MoveInv DEF Attach
  <2>3. ASSUME NEW r \in Request, Create(s, r) PROVE DekInv'
    BY <2>1, <2>3, <1>1, MoveInv DEF Create
  <2>4. CASE FindNone(s)
    BY <2>1, <2>4, <1>1, MoveInv DEF FindNone
  <2>5. CASE Execute(s)
    BY <2>1, <2>5, <1>1, EraseInv DEF Execute
  <2>6. CASE Prior(s)
    <3> DEFINE p == IF \E q \in Request : q # job[s] /\ rows[q] = "COMPLETED" THEN "already" ELSE "unknown"
    <3>1. p # "destroy"
      OBVIOUS
    <3>2. Goto(s, p) /\ UNCHANGED <<rowVars, lawVars, sel>>
      BY <2>6 DEF Prior
    <3> HIDE DEF p
    <3> QED
      BY <2>1, <3>1, <3>2, <1>1, MoveInv
  <2>7. CASE Finalize(s)
    BY <2>1, <2>7, <1>1, MoveInv DEF Finalize
  <2>8. CASE EraseRaises(s)
    BY <2>1, <2>8, <1>1, MoveInv DEF EraseRaises
  <2>9. CASE Abandon(s)
    BY <2>1, <2>9, <1>1, MoveInv DEF Abandon
  <2> QED
    BY <1>2, <2>2, <2>3, <2>4, <2>5, <2>6, <2>7, <2>8, <2>9 DEF Post
<1>3. ASSUME NEW a \in Actor \ Server, Begin(a) \/ EraseDirectly(a) \/ End(a) PROVE DekInv'
  <2>1. a \in Actor
    OBVIOUS
  <2>2. CASE Begin(a)
    BY <2>1, <2>2, <1>1, MoveInv DEF Begin
  <2>3. CASE EraseDirectly(a)
    BY <2>1, <2>3, <1>1, EraseInv DEF EraseDirectly
  <2>4. CASE End(a)
    BY <2>1, <2>4, <1>1, MoveInv DEF End
  <2> QED
    BY <1>3, <2>2, <2>3, <2>4
<1>4. CASE Capture \/ HoldChanges \/ \E k \in Key : WindowEnds(k)
  BY <1>4, StoreEventsInv DEF Capture, HoldChanges, WindowEnds
<1>5. CASE UNCHANGED vars
  BY <1>5 DEF vars, dekVars, rowVars, lawVars, DekInv, DekTypeOK
<1> QED
  BY <1>2, <1>3, <1>4, <1>5 DEF Next

-----------------------------------------------------------------------------
\* A server's step keeps the types.
LEMMA ServerType ==
  ASSUME TypeOK, DekTypeOK', NEW s \in Server, Post(s) \/ EraseRaises(s) \/ Abandon(s)
  PROVE  TypeOK'
<1> USE QueueAssumption, StoreAssumption DEF TypeOK, Goto, Request, Final, Outcomes
<1> DEFINE Idle == {"idle", "create"}
<1>1. ASSUME NEW r \in Request, Attach(s, r) PROVE TypeOK'
  BY <1>1 DEF Attach
<1>2. ASSUME NEW r \in Request, Create(s, r) PROVE TypeOK'
  <2>1. /\ pc' = [pc EXCEPT ![s] = "select"] /\ job' = [job EXCEPT ![s] = r]
        /\ rows' = [rows EXCEPT ![r] = "PENDING"] /\ liveAt' = [liveAt EXCEPT ![r] = key]
        /\ UNCHANGED <<killed, again, lost, faults>>
    BY <1>2 DEF Create
  <2>2. liveAt' \in [Request -> 0 .. MaxKeys] /\ rows' \in [Request -> {"none", "PENDING"} \cup Final]
    BY <2>1 DEF DekTypeOK
  <2>3. job' \in [Server -> 0 .. MaxRequests] /\ \A t \in Server : job'[t] = 0 <=> pc'[t] \in Idle
    BY <2>1
  <2> QED
    BY <2>1, <2>2, <2>3
<1>3. CASE FindNone(s)
  BY <1>3 DEF FindNone, queueVars, histVars
<1>4. CASE Execute(s)
  <2>1. /\ pc' \in [Actor -> {"idle", "create", "select", "check", "destroy", "missing"} \cup Outcomes]
        /\ pc[s] \notin Idle /\ pc'[s] \notin Idle
        /\ \A t \in Server \ {s} : pc'[t] = pc[t]
    BY <1>4 DEF Execute, Erase, Select, Check, Judged, Destroy, Quit
  <2>2. killed' \in [Key -> 0 .. MaxRequests]
    BY <1>4 DEF Execute
  <2> QED
    BY <1>4, <2>1, <2>2 DEF Execute, queueVars
<1>5. CASE Prior(s)
  BY <1>5 DEF Prior, queueVars, histVars
<1>6. CASE Finalize(s)
  <2>1. Verdict(pc[s]) \in Final
    BY <1>6 DEF Finalize, Verdict
  <2>2. rows' \in [Request -> {"none", "PENDING"} \cup Final]
    BY <1>6, <2>1 DEF Finalize
  <2> QED
    BY <1>6, <2>2 DEF Finalize, histVars
<1>7. CASE EraseRaises(s)
  BY <1>7 DEF EraseRaises, Quit, Fault, queueVars, histVars
<1>8. CASE Abandon(s)
  <2>1. lost' \subseteq Request
    <3>1. lost' = lost \cup ({job[s]} \ {0})
      BY <1>8 DEF Abandon
    <3>2. job[s] # 0 => job[s] \in Request
      OBVIOUS
    <3> HIDE DEF Request
    <3> QED
      BY <3>1, <3>2
  <2>2. /\ pc' \in [Actor -> {"idle", "create", "select", "check", "destroy", "missing"} \cup Outcomes]
        /\ job' \in [Server -> 0 .. MaxRequests]
        /\ \A t \in Server : job'[t] = 0 <=> pc'[t] \in Idle
    BY <1>8 DEF Abandon, Quit
  <2>3. faults' \in 0 .. MaxFaults
    BY <1>8 DEF Abandon, Fault
  <2>4. UNCHANGED <<rows, liveAt, killed, again>>
    BY <1>8 DEF Abandon
  <2> QED
    BY <2>1, <2>2, <2>3, <2>4
<1> QED
  BY <1>1, <1>2, <1>3, <1>4, <1>5, <1>6, <1>7, <1>8 DEF Post

\* So does every step.
LEMMA NextType ==
  ASSUME TypeOK, DekInv, [Next]_vars
  PROVE  TypeOK'
<1>1. DekTypeOK'
  BY DekNextInv DEF DekInv
<1> USE QueueAssumption DEF TypeOK, Goto, queueVars, histVars
<1>2. ASSUME NEW s \in Server, Post(s) \/ EraseRaises(s) \/ Abandon(s) PROVE TypeOK'
  BY <1>1, <1>2, ServerType
<1>3. ASSUME NEW a \in Actor \ Server, Begin(a) \/ EraseDirectly(a) \/ End(a) PROVE TypeOK'
  <2>1. /\ pc' \in [Actor -> {"idle", "create", "select", "check", "destroy", "missing"} \cup Outcomes]
        /\ \A t \in Server : pc'[t] = pc[t]
    BY <1>3 DEF Begin, EraseDirectly, End, Erase, Select, Check, Judged, Destroy, Quit, Outcomes
  <2> QED
    BY <1>1, <1>3, <2>1 DEF Begin, EraseDirectly, End
<1>4. CASE Capture \/ HoldChanges \/ \E k \in Key : WindowEnds(k)
  BY <1>1, <1>4 DEF Capture, HoldChanges, WindowEnds, GetOrCreate, PlaceHold, ReleaseHold, Age
<1>5. CASE UNCHANGED vars
  BY <1>1, <1>5 DEF vars, dekVars, rowVars, lawVars
<1> QED
  BY <1>2, <1>3, <1>4, <1>5 DEF Next

-----------------------------------------------------------------------------
\* Keys are generated in order and destroyed for good: a key that is not in the row, of those
\* generated, never comes back.
LEMMA KeysPass ==
  ASSUME DekInv, [Next]_vars
  PROVE  /\ made \in Nat /\ made' \in Nat /\ key \in Nat /\ key' \in Nat
         /\ made <= made' /\ key' \in {key, 0, made + 1} /\ key <= made
<1> USE StoreAssumption DEF DekInv, DekTypeOK, rowVars, lawVars
<1> DEFINE Passes == made' \in {made, made + 1} /\ key' \in {key, 0, made + 1}
<1>1. Passes
  <2>1. ASSUME NEW a \in Actor, Erase(a) PROVE Passes
    BY <2>1 DEF Erase, Select, Check, Destroy
  <2>2. ASSUME NEW s \in Server, Post(s) \/ EraseRaises(s) \/ Abandon(s) PROVE Passes
    BY <2>2, <2>1, QueueAssumption
       DEF Post, Attach, Create, FindNone, Execute, Prior, Finalize, EraseRaises, Abandon
  <2>3. ASSUME NEW a \in Actor \ Server, Begin(a) \/ EraseDirectly(a) \/ End(a) PROVE Passes
    BY <2>3, <2>1 DEF Begin, EraseDirectly, End
  <2>4. CASE Capture \/ HoldChanges \/ \E k \in Key : WindowEnds(k)
    BY <2>4 DEF Capture, HoldChanges, WindowEnds, GetOrCreate, PlaceHold, ReleaseHold, Age
  <2>5. CASE UNCHANGED vars
    BY <2>5 DEF vars, dekVars
  <2> QED
    BY <2>2, <2>3, <2>4, <2>5 DEF Next
<1> QED
  BY <1>1

\* What only the servers change.
LEMMA OthersSpare ==
  ASSUME [Next]_vars, ~ \E s \in Server : Post(s) \/ EraseRaises(s) \/ Abandon(s), TypeOK
  PROVE  /\ UNCHANGED <<rows, job, liveAt, killed, again, lost>>
         /\ \A s \in Server : pc'[s] = pc[s]
<1> USE QueueAssumption DEF TypeOK, queueVars, histVars, Goto
<1>1. ASSUME NEW a \in Actor \ Server, Begin(a) \/ EraseDirectly(a) \/ End(a)
      PROVE  /\ UNCHANGED <<rows, job, liveAt, killed, again, lost>>
             /\ \A s \in Server : pc'[s] = pc[s]
  BY <1>1 DEF Begin, EraseDirectly, End, Erase, Select, Check, Destroy, Quit
<1>2. CASE Capture \/ HoldChanges \/ \E k \in Key : WindowEnds(k)
  BY <1>2 DEF Capture, HoldChanges, WindowEnds, GetOrCreate, PlaceHold, ReleaseHold, Age
<1>3. CASE UNCHANGED vars
  BY <1>3 DEF vars, dekVars
<1> QED
  BY <1>1, <1>2, <1>3 DEF Next

\* A server's step is its own.
LEMMA OneServer ==
  ASSUME TypeOK, NEW s \in Server, Post(s) \/ EraseRaises(s) \/ Abandon(s)
  PROVE  \A t \in Server \ {s} : pc'[t] = pc[t] /\ job'[t] = job[t]
BY QueueAssumption
   DEF TypeOK, Goto, Quit, queueVars, Post, Attach, Create, FindNone, Execute, Erase, Select, Check,
       Destroy, Prior, Finalize, EraseRaises, Abandon

\* What is gone stays gone.
LEMMA GoneStays ==
  ASSUME DekInv, TypeOK, [Next]_vars, NEW r \in Request, liveAt[r] <= made,
         liveAt'[r] = liveAt[r], GoneFor(r)
  PROVE  GoneFor(r)'
BY KeysPass DEF GoneFor, TypeOK

\* A server that found the subject's row missing, or destroyed it, knows what it says.
LEMMA RowsInUseNext ==
  ASSUME TypeOK, DekInv, RowsInUse, [Next]_vars
  PROVE  RowsInUse'
<1> USE QueueAssumption DEF TypeOK, RowsInUse, Goto
<1> DEFINE Gone == {"missing", "already", "unknown", "erased"}
<1>0. made <= made' /\ made \in Nat /\ made' \in Nat /\ key <= made /\ key \in Nat
  BY KeysPass
<1>1. ASSUME NEW s \in Server, Post(s) \/ EraseRaises(s) \/ Abandon(s) PROVE RowsInUse'
  <2>1. \A t \in Server \ {s} : pc'[t] = pc[t] /\ job'[t] = job[t]
    BY <1>1, OneServer
  <2> DEFINE Kept ==
        /\ \A r \in Request : rows[r] # "none" => rows'[r] # "none" /\ liveAt'[r] = liveAt[r]
        /\ \A r \in Request : liveAt'[r] \in {liveAt[r], key}
        /\ job'[s] # 0 => rows'[job'[s]] # "none"
  <2>2. Kept
    <3>1. ASSUME NEW r \in Request, Attach(s, r) PROVE Kept
      BY <3>1 DEF Attach, Oldest, Pending
    <3>2. ASSUME NEW r \in Request, Create(s, r) PROVE Kept
      BY <3>2 DEF Create, Oldest, Unused
    <3>3. CASE Finalize(s)
      <4>1. Verdict(pc[s]) # "none"
        BY <3>3 DEF Finalize, Verdict, Outcomes
      <4>2. rows' = [rows EXCEPT ![job[s]] = Verdict(pc[s])] /\ job'[s] = 0 /\ UNCHANGED liveAt
        BY <3>3 DEF Finalize, histVars
      <4> QED
        BY <4>1, <4>2
    <3>4. CASE FindNone(s) \/ Execute(s) \/ Prior(s) \/ EraseRaises(s) \/ Abandon(s)
      BY <3>4 DEF FindNone, Execute, Prior, EraseRaises, Abandon, queueVars, histVars
    <3> QED
      BY <1>1, <3>1, <3>2, <3>3, <3>4 DEF Post
  <2>3. pc'[s] \in Gone => job'[s] # 0 /\ job'[s] = job[s] /\ (pc[s] \in Gone \/ key' = 0)
    <3>1. CASE Execute(s)
      BY <3>1 DEF Execute, Erase, Select, Check, Judged, Destroy, Quit, rowVars, queueVars
    <3>2. CASE Prior(s)
      BY <3>2 DEF Prior, queueVars
    <3>3. ASSUME \E r \in Request : Attach(s, r) \/ Create(s, r) PROVE pc'[s] \notin Gone
      BY <3>3 DEF Attach, Create
    <3>4. CASE FindNone(s) \/ Finalize(s) \/ EraseRaises(s) \/ Abandon(s)
      BY <3>4 DEF FindNone, Finalize, EraseRaises, Abandon, Quit
    <3> QED
      BY <1>1, <3>1, <3>2, <3>3, <3>4 DEF Post
  <2>4. ASSUME NEW t \in Server, pc'[t] \in Gone PROVE GoneFor(job[t])'
    <3>1. PICK q \in Request : q = job[t] /\ job'[t] = q
      BY <2>1, <2>3, <2>4 DEF Request
    <3>2. pc[t] \in Gone \/ key' = 0
      BY <2>1, <2>3, <2>4
    <3>3. liveAt[q] <= made /\ liveAt'[q] = liveAt[q]
      <4>1. rows[q] # "none"
        BY <3>1 DEF Request
      <4> QED
        BY <2>2, <4>1
    <3>4. CASE pc[t] \in Gone
      <4>1. GoneFor(q)
        BY <3>1, <3>4
      <4>2. GoneFor(q)'
        BY <3>3, <4>1, GoneStays
      <4> QED
        BY <3>1, <4>2 DEF GoneFor
    <3>5. CASE key' = 0
      BY <3>1, <3>5 DEF GoneFor
    <3> QED
      BY <3>2, <3>4, <3>5
  <2>5. \A r \in Request : liveAt'[r] <= made'
    BY <1>0, <2>2
  <2>6. ASSUME NEW t \in Server \ {s}, job'[t] # 0 PROVE rows'[job'[t]] # "none"
    <3>1. job'[t] = job[t] /\ job[t] \in Request /\ rows[job[t]] # "none"
      BY <2>1, <2>6 DEF Request
    <3> QED
      BY <2>2, <3>1
  <2> QED
    BY <2>2, <2>4, <2>5, <2>6
<1>2. CASE ~ \E s \in Server : Post(s) \/ EraseRaises(s) \/ Abandon(s)
  <2>1. UNCHANGED <<rows, job, liveAt>> /\ \A s \in Server : pc'[s] = pc[s]
    BY <1>2, OthersSpare
  <2>2. ASSUME NEW s \in Server, pc'[s] \in Gone PROVE GoneFor(job[s])'
    <3>1. PICK q \in Request : q = job[s] /\ job'[s] = q
      BY <2>1, <2>2 DEF Request
    <3>2. GoneFor(q) /\ liveAt[q] <= made /\ liveAt'[q] = liveAt[q]
      BY <2>1, <2>2, <3>1
    <3>3. GoneFor(q)'
      BY <3>2, GoneStays
    <3> QED
      BY <3>1, <3>3 DEF GoneFor
  <2>3. \A r \in Request : liveAt'[r] <= made'
    BY <1>0, <2>1
  <2> QED
    BY <2>1, <2>2, <2>3
<1> QED
  BY <1>1, <1>2

\* A row is COMPLETED only by a server that knows.
LEMMA CompletedNext ==
  ASSUME TypeOK, DekInv, RowsInUse, CompletedMeansGone, [Next]_vars
  PROVE  CompletedMeansGone'
<1> USE QueueAssumption DEF TypeOK, RowsInUse, Goto
<1> SUFFICES ASSUME NEW r \in Request, rows'[r] = "COMPLETED" PROVE GoneFor(r)'
  BY DEF CompletedMeansGone, GoneFor
<1>1. liveAt'[r] = liveAt[r] /\ GoneFor(r)
  <2>1. ASSUME NEW s \in Server, Post(s) \/ EraseRaises(s) \/ Abandon(s)
        PROVE  liveAt'[r] = liveAt[r] /\ GoneFor(r)
    <3>1. ASSUME NEW q \in Request, Attach(s, q) \/ Create(s, q)
          PROVE  liveAt'[r] = liveAt[r] /\ GoneFor(r)
      BY <3>1 DEF Attach, Create, CompletedMeansGone, GoneFor
    <3>2. CASE Finalize(s)
      <4>1. UNCHANGED liveAt /\ rows'[r] = IF r = job[s] THEN Verdict(pc[s]) ELSE rows[r]
        BY <3>2 DEF Finalize, histVars
      <4>2. Verdict(pc[s]) = "COMPLETED" => pc[s] \in {"erased", "already"}
        BY <3>2 DEF Finalize, Verdict, Outcomes
      <4> QED
        BY <4>1, <4>2 DEF CompletedMeansGone, GoneFor
    <3>3. CASE FindNone(s) \/ Execute(s) \/ Prior(s) \/ EraseRaises(s) \/ Abandon(s)
      BY <3>3 DEF FindNone, Execute, Prior, EraseRaises, Abandon, queueVars, histVars,
                  CompletedMeansGone, GoneFor
    <3> QED
      BY <2>1, <3>1, <3>2, <3>3 DEF Post
  <2>2. CASE ~ \E s \in Server : Post(s) \/ EraseRaises(s) \/ Abandon(s)
    BY <2>2, OthersSpare DEF CompletedMeansGone, GoneFor
  <2> QED
    BY <2>1, <2>2
<1> QED
  BY <1>1, GoneStays

-----------------------------------------------------------------------------
\* Re-attachments are never forgotten, and a row in use stays in use.
LEMMA RowsGrow ==
  ASSUME TypeOK, [Next]_vars
  PROVE  /\ again \subseteq again'
         /\ \A r \in Request : rows[r] # "none" => rows'[r] # "none"
<1> DEFINE Grow == /\ again \subseteq again'
                   /\ \A r \in Request : rows[r] # "none" => rows'[r] # "none"
<1>1. ASSUME NEW s \in Server, Post(s) \/ EraseRaises(s) \/ Abandon(s) PROVE Grow
  <2>1. ASSUME NEW r \in Request, Attach(s, r) \/ Create(s, r) PROVE Grow
    BY <2>1 DEF Attach, Create, TypeOK
  <2>2. CASE Finalize(s)
    <3>1. Verdict(pc[s]) # "none"
      BY <2>2 DEF Finalize, Verdict, Outcomes
    <3> QED
      BY <2>2, <3>1 DEF Finalize, histVars, TypeOK
  <2>3. CASE FindNone(s) \/ Execute(s) \/ Prior(s) \/ EraseRaises(s) \/ Abandon(s)
    BY <2>3 DEF FindNone, Execute, Prior, EraseRaises, Abandon, queueVars, histVars
  <2> QED
    BY <1>1, <2>1, <2>2, <2>3 DEF Post
<1>2. CASE ~ \E s \in Server : Post(s) \/ EraseRaises(s) \/ Abandon(s)
  BY <1>2, OthersSpare
<1> QED
  BY <1>1, <1>2

\* An execution that destroys a key records it for a row in use.
LEMMA KillsNext ==
  ASSUME TypeOK, RowsInUse, KillsAreRows, [Next]_vars
  PROVE  KillsAreRows'
<1> USE DEF TypeOK, KillsAreRows
<1>1. \A r \in Request : rows[r] # "none" => rows'[r] # "none"
  BY RowsGrow
<1> DEFINE Owned == \A k \in Key : \/ killed'[k] = killed[k]
                                  \/ \E s \in Server : killed'[k] = job[s]
<1>2. Owned
  <2>1. ASSUME NEW s \in Server, Execute(s) PROVE Owned
    BY <2>1 DEF Execute
  <2>2. ASSUME NEW s \in Server, Post(s) \/ EraseRaises(s) \/ Abandon(s), ~Execute(s)
        PROVE  UNCHANGED killed
    BY <2>2 DEF Post, Attach, Create, FindNone, Prior, Finalize, EraseRaises, Abandon, histVars
  <2>3. CASE ~ \E s \in Server : Post(s) \/ EraseRaises(s) \/ Abandon(s)
    BY <2>3, OthersSpare
  <2> QED
    BY <2>1, <2>2, <2>3
<1> SUFFICES ASSUME NEW k \in Key, killed'[k] # 0 PROVE rows'[killed'[k]] # "none"
  OBVIOUS
<1>3. killed'[k] \in Request /\ rows[killed'[k]] # "none"
  BY <1>2 DEF RowsInUse, Request
<1> QED
  BY <1>1, <1>3

\* What the three parts about single execution say of one request.
Once(r) ==
  r \notin again =>
    /\ \A s, t \in Server : job[s] = r /\ job[t] = r => s = t
    /\ rows[r] \in Final => \A s \in Server : job[s] # r
    /\ \A k \in Key, s \in Server : killed[k] = r /\ job[s] = r => pc[s] = "erased"
    /\ \A k \in Key : killed[k] = r => rows[r] # "FAILED"

\* A request that no POST re-attaches to has one server, which leaves when the row is
\* final, and its row is not FAILED if it destroyed a key.
LEMMA OnceNext ==
  ASSUME TypeOK, RowsInUse, KillsAreRows, [Next]_vars, NEW r \in Request, Once(r)
  PROVE  Once(r)'
<1>0. SUFFICES ASSUME r \notin again' PROVE Once(r)'
  BY DEF Once
<1>1. r \notin again /\ r # 0
  BY <1>0, RowsGrow DEF Request
<1> USE <1>0, <1>1 DEF TypeOK, Once, Goto
<1>2. ASSUME NEW s \in Server, Post(s) \/ EraseRaises(s) \/ Abandon(s) PROVE Once(r)'
  <2>1. \A t \in Server \ {s} : pc'[t] = pc[t] /\ job'[t] = job[t]
    BY <1>2, OneServer
  <2>2. ASSUME NEW q \in Request, Attach(s, q) PROVE Once(r)'
    <3>1. q # r /\ job'[s] = q /\ UNCHANGED <<rows, killed>>
      BY <2>2 DEF Attach
    <3> QED
      BY <2>1, <3>1
  <2>3. ASSUME NEW q \in Request, Create(s, q) PROVE Once(r)'
    <3>1. rows[q] = "none" /\ job'[s] = q /\ UNCHANGED killed /\ rows' = [rows EXCEPT ![q] = "PENDING"]
      BY <2>3 DEF Create, Oldest, Unused
    <3>2. CASE q = r
      <4>1. \A t \in Server : job[t] # r
        BY <3>1, <3>2 DEF RowsInUse
      <4>2. \A k \in Key : killed[k] # r
        BY <3>1, <3>2 DEF KillsAreRows
      <4> QED
        BY <2>1, <3>1, <3>2, <4>1, <4>2 DEF Final
    <3>3. CASE q # r
      <4>1. rows'[r] = rows[r] /\ job'[s] # r
        BY <3>1, <3>3
      <4> QED
        BY <2>1, <3>1, <4>1
    <3> QED
      BY <3>2, <3>3
  <2>4. CASE Execute(s)
    <3>1. pc[s] \in {"select", "check", "destroy"} /\ UNCHANGED <<rows, job>>
      BY <2>4 DEF Execute, Erase, Select, Check, Destroy, queueVars
    <3>2. CASE UNCHANGED killed
      BY <2>1, <3>1, <3>2
    <3>3. CASE killed' = [killed EXCEPT ![key] = job[s]] /\ key # 0 /\ key' = 0
      <4>1. pc'[s] = "erased"
        <5>1. key' # key
          BY <3>3
        <5>2. Destroy(s)
          BY <2>4, <5>1 DEF Execute, Erase, Select, Check, rowVars
        <5> QED
          BY <5>2, QueueAssumption DEF Destroy, Quit
      <4>2. job[s] = r => rows[r] # "FAILED"
        BY DEF Final
      <4>3. \A k \in Key : killed'[k] = r => killed[k] = r \/ job[s] = r
        BY <3>3
      <4> QED
        BY <2>1, <3>1, <4>1, <4>2, <4>3
    <3> QED
      BY <2>4, <3>2, <3>3 DEF Execute
  <2>5. CASE Finalize(s)
    <3>1. /\ rows' = [rows EXCEPT ![job[s]] = Verdict(pc[s])]
          /\ job'[s] = 0 /\ UNCHANGED killed
      BY <2>5 DEF Finalize, histVars
    <3>2. pc[s] = "erased" => Verdict(pc[s]) # "FAILED"
      BY DEF Verdict
    <3>3. job[s] # r => rows'[r] = rows[r]
      BY <3>1
    <3>4. job[s] = r => rows'[r] = Verdict(pc[s])
      BY <3>1
    <3> QED
      BY <2>1, <3>1, <3>2, <3>3, <3>4
  <2>6. CASE FindNone(s) \/ Prior(s) \/ EraseRaises(s)
    <3>1. UNCHANGED <<rows, killed, job>> /\ pc[s] # "erased"
      BY <2>6 DEF FindNone, Prior, EraseRaises, queueVars, histVars
    <3> QED
      BY <2>1, <3>1
  <2>7. CASE Abandon(s)
    <3>1. UNCHANGED <<rows, killed>> /\ job'[s] = 0
      BY <2>7 DEF Abandon
    <3> QED
      BY <2>1, <3>1
  <2> QED
    BY <1>2, <2>2, <2>3, <2>4, <2>5, <2>6, <2>7 DEF Post
<1>3. CASE ~ \E s \in Server : Post(s) \/ EraseRaises(s) \/ Abandon(s)
  BY <1>3, OthersSpare
<1> QED
  BY <1>2, <1>3

\* A row does not stay PENDING without a server or a death.
LEMMA PendingNext ==
  ASSUME TypeOK, PendingIsAttended, [Next]_vars
  PROVE  PendingIsAttended'
<1> USE DEF TypeOK, PendingIsAttended, Goto
<1>1. ASSUME NEW s \in Server, Post(s) \/ EraseRaises(s) \/ Abandon(s) PROVE PendingIsAttended'
  <2>1. \A t \in Server \ {s} : job'[t] = job[t]
    BY <1>1, OneServer
  <2>2. ASSUME NEW q \in Request, Attach(s, q) PROVE PendingIsAttended'
    <3>1. job[s] = 0 /\ UNCHANGED <<rows, lost>>
      BY <2>2 DEF Attach
    <3> QED
      BY <2>1, <3>1 DEF Request
  <2>3. ASSUME NEW q \in Request, Create(s, q) PROVE PendingIsAttended'
    <3>1. /\ job[s] = 0 /\ job'[s] = q /\ UNCHANGED lost
          /\ \A r \in Request \ {q} : rows'[r] = rows[r]
      BY <2>3 DEF Create
    <3> QED
      BY <2>1, <3>1 DEF Request
  <2>4. CASE Finalize(s)
    <3>1. Verdict(pc[s]) # "PENDING"
      BY <2>4 DEF Finalize, Verdict, Outcomes
    <3>2. rows' = [rows EXCEPT ![job[s]] = Verdict(pc[s])] /\ UNCHANGED lost
      BY <2>4 DEF Finalize, histVars
    <3> QED
      BY <2>1, <3>1, <3>2
  <2>5. CASE Abandon(s)
    <3>1. UNCHANGED rows /\ lost' = lost \cup ({job[s]} \ {0})
      BY <2>5 DEF Abandon
    <3> QED
      BY <2>1, <3>1 DEF Request
  <2>6. CASE FindNone(s) \/ Execute(s) \/ Prior(s) \/ EraseRaises(s)
    BY <2>6 DEF FindNone, Execute, Prior, EraseRaises, queueVars, histVars
  <2> QED
    BY <1>1, <2>2, <2>3, <2>4, <2>5, <2>6 DEF Post
<1>2. CASE ~ \E s \in Server : Post(s) \/ EraseRaises(s) \/ Abandon(s)
  BY <1>2, OthersSpare
<1> QED
  BY <1>1, <1>2

-----------------------------------------------------------------------------
(* The theorems.                                                            *)

\* The invariant, from its parts: at the start, and after every step.
LEMMA ErasureInitInv ==
  Init => ErasureInv
<1> SUFFICES ASSUME Init PROVE ErasureInv
  OBVIOUS
<1> USE QueueAssumption, StoreAssumption DEF Init, DekInit
<1>1. DekTypeOK
  <2>1. key \in 0 .. MaxKeys /\ made \in 0 .. MaxKeys /\ sel \in [Actor -> 0 .. MaxKeys]
    OBVIOUS
  <2>2. hold \in BOOLEAN /\ aged \subseteq Key /\ gone \subseteq Key /\ racing \subseteq Actor
    OBVIOUS
  <2> QED
    BY <2>1, <2>2 DEF DekTypeOK
<1>2. DekInv
  BY <1>1 DEF DekInv, Key
<1>3. TypeOK
  BY <1>1 DEF TypeOK, Request
<1>4. RowsInUse /\ ExecutedOnce /\ KillsAreRows
  BY DEF RowsInUse, ExecutedOnce, KillsAreRows, Request, Final
<1>5. CompletedMeansGone /\ FailureMeansNothingErased /\ PendingIsAttended
  BY DEF CompletedMeansGone, FailureMeansNothingErased, PendingIsAttended
<1> QED
  BY <1>2, <1>3, <1>4, <1>5 DEF ErasureInv

\* Every step keeps the invariant.
LEMMA ErasureNextInv ==
  ErasureInv /\ [Next]_vars => ErasureInv'
<1> SUFFICES ASSUME ErasureInv, [Next]_vars PROVE ErasureInv'
  OBVIOUS
<1>1. TypeOK' /\ DekInv' /\ RowsInUse' /\ KillsAreRows' /\ CompletedMeansGone' /\ PendingIsAttended'
  BY NextType, DekNextInv, RowsInUseNext, KillsNext, CompletedNext, PendingNext DEF ErasureInv
<1>2. ASSUME NEW r \in Request PROVE Once(r)'
  <2>1. Once(r)
    BY DEF Once, ErasureInv, ExecutedOnce, FailureMeansNothingErased
  <2> QED
    BY <2>1, OnceNext DEF ErasureInv
<1>3. ExecutedOnce' /\ FailureMeansNothingErased'
  BY <1>2 DEF Once, ExecutedOnce, FailureMeansNothingErased
<1> QED
  BY <1>1, <1>3 DEF ErasureInv

\* Whatever the servers, erasers, captures and deaths do: types, the key store's row, and
\* the properties below, with the facts they need, hold throughout.
THEOREM ErasureInvariant ==
  Spec => []ErasureInv
BY ErasureInitInv, ErasureNextInv, PTL DEF Spec

\* A COMPLETED request never speaks of a key that still exists, or comes back.
THEOREM CompletedIsTrue ==
  Spec => []CompletedMeansGone
<1>1. ErasureInv => CompletedMeansGone
  BY DEF ErasureInv
<1> QED
  BY <1>1, ErasureInvariant, PTL

\* A request answered FAILED destroyed nothing, if no POST re-attached to it.
THEOREM FailedErasedNothing ==
  Spec => []FailureMeansNothingErased
<1>1. ErasureInv => FailureMeansNothingErased
  BY DEF ErasureInv
<1> QED
  BY <1>1, ErasureInvariant, PTL

\* A PENDING row is in some server's hands, or its server died.
THEOREM PendingAttended ==
  Spec => []PendingIsAttended
<1>1. ErasureInv => PendingIsAttended
  BY DEF ErasureInv
<1> QED
  BY <1>1, ErasureInvariant, PTL

\* The answer to a request that no POST re-attached to is never changed.
THEOREM AnswersStand ==
  Spec => AnswersAreFinal
<1>1. ErasureInv /\ [Next]_vars =>
        [\A r \in Request : rows[r] \in Final /\ r \notin again => rows'[r] = rows[r]]_vars
  <2> SUFFICES ASSUME ErasureInv, [Next]_vars, NEW r \in Request, rows[r] \in Final, r \notin again
               PROVE  rows'[r] = rows[r]
    OBVIOUS
  <2>1. rows[r] \notin {"none", "PENDING"} /\ \A s \in Server : job[s] # r
    BY DEF ErasureInv, ExecutedOnce, Final
  <2>2. ASSUME NEW s \in Server, Post(s) \/ EraseRaises(s) \/ Abandon(s) PROVE rows'[r] = rows[r]
    BY <2>1, <2>2
       DEF Post, Attach, Create, Oldest, Unused, FindNone, Execute, Prior, Finalize, EraseRaises, Abandon,
           queueVars, ErasureInv, TypeOK
  <2>3. CASE ~ \E s \in Server : Post(s) \/ EraseRaises(s) \/ Abandon(s)
    BY <2>3, OthersSpare DEF ErasureInv
  <2> QED
    BY <2>2, <2>3
<1> QED
  BY <1>1, ErasureInvariant, PTL DEF Spec, AnswersAreFinal

\* A key is destroyed by an actor that found no hold after it was placed, and either the
\* key is past its retention window or it replaced the one that was checked.
THEOREM ErasuresAreLawful ==
  Spec => DestroyedLawfully
<1> DEFINE Lawful == key # 0 /\ key' = 0 =>
             \E a \in Actor :
               /\ pc[a] = "destroy" /\ (hold => a \in racing)
               /\ key \in aged \/ (sel[a] < key /\ sel[a] \in gone)
<1>1. ErasureInv /\ [Next]_vars => Lawful
  <2> SUFFICES ASSUME ErasureInv, [Next]_vars, key # 0, key' = 0 PROVE Lawful
    OBVIOUS
  <2>1. \E a \in Actor : pc[a] = "destroy"
    <3>1. ASSUME NEW a \in Actor, Erase(a) PROVE pc[a] = "destroy"
      BY <3>1 DEF Erase, Select, Check, Destroy, rowVars
    <3>2. ASSUME NEW s \in Server, Post(s) \/ EraseRaises(s) \/ Abandon(s)
          PROVE  \E a \in Actor : pc[a] = "destroy"
      <4>1. Execute(s)
        BY <3>2 DEF Post, Attach, Create, FindNone, Prior, Finalize, EraseRaises, Abandon, rowVars
      <4> QED
        BY <3>1, <4>1, QueueAssumption DEF Execute
    <3>3. ASSUME NEW a \in Actor \ Server, Begin(a) \/ EraseDirectly(a) \/ End(a)
          PROVE  \E b \in Actor : pc[b] = "destroy"
      BY <3>1, <3>3 DEF Begin, EraseDirectly, End, rowVars
    <3>4. CASE Capture \/ HoldChanges \/ \E k \in Key : WindowEnds(k)
      BY <3>4, StoreAssumption
         DEF Capture, HoldChanges, WindowEnds, GetOrCreate, PlaceHold, ReleaseHold, Age, rowVars,
             ErasureInv, DekInv, DekTypeOK
    <3>5. ~ UNCHANGED vars
      BY DEF vars, dekVars, rowVars
    <3> QED
      BY <3>2, <3>3, <3>4, <3>5 DEF Next
  <2>2. ASSUME NEW a \in Actor, pc[a] = "destroy"
        PROVE  (hold => a \in racing) /\ (key \in aged \/ (sel[a] < key /\ sel[a] \in gone))
    BY <2>2, StoreAssumption DEF ErasureInv, DekInv, DekTypeOK, Key
  <2> QED
    BY <2>1, <2>2
<1> QED
  BY <1>1, ErasureInvariant, PTL DEF Spec, DestroyedLawfully
=============================================================================
