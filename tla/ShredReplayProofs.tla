-------------------------- MODULE ShredReplayProofs -------------------------
(***************************************************************************)
(* Proofs about retention sweeps, backups and restores, for any number of  *)
(* sweeps, capsules, backup sets and restores: the parts of ShredInv, one  *)
(* lemma each, then the theorems.                                          *)
(***************************************************************************)
EXTENDS ShredReplay, TLAPS

SweepStep(s) == Sweep(s) \/ ActionRaises(s) \/ Die(s)

\* A sweep's step is its own, and touches neither the shelf nor the backup set.
LEMMA OneSweep ==
  ASSUME TypeOK, NEW s \in Actor, SweepStep(s)
  PROVE  /\ UNCHANGED <<shelf, sealed, due, made, aged, hold, aside, buried, set, verdict>>
         /\ \A t \in Actor \ {s} : pc'[t] = pc[t] /\ pass'[t] = pass[t]
         /\ receipts \subseteq receipts' /\ log \subseteq log' /\ off \subseteq off'
<1> DEFINE Own ==
      /\ UNCHANGED <<shelf, sealed, due, made, aged, hold, aside, buried, set, verdict>>
      /\ \A t \in Actor \ {s} : pc'[t] = pc[t] /\ pass'[t] = pass[t]
      /\ receipts \subseteq receipts' /\ log \subseteq log' /\ off \subseteq off'
<1> USE DEF TypeOK, Goto, Quit, Now, rowVars, lawVars, shelfVars, evidenceVars, setVars
<1>1. CASE Plan(s) \/ NotApplied(s) \/ EndSweep(s)
  BY <1>1 DEF Plan, NotApplied, EndSweep
<1>2. ASSUME NEW i \in Item, Take(s, i) PROVE Own
  BY <1>2 DEF Take
<1>3. CASE Shred(s)
  BY <1>3 DEF Shred, Erase, Select, Check, Destroy
<1>4. CASE WriteReceipt(s)
  BY <1>4 DEF WriteReceipt
<1>5. CASE Append(s)
  BY <1>5 DEF Append
<1>6. CASE ActionRaises(s) \/ Die(s)
  BY <1>6 DEF ActionRaises, Die, ReceiptLeft
<1> QED
  BY <1>1, <1>2, <1>3, <1>4, <1>5, <1>6 DEF SweepStep, Sweep

Steps == {"idle", "sweep", "append", "select", "check", "destroy", "missing", "held", "deferred", "erased"}

\* What a sweep's process holds keeps its type.
LEMMA NowType ==
  ASSUME TypeOK, NEW s \in Actor, NEW p \in Pass, Now(s, p)
  PROVE  pass' \in [Actor -> Pass] /\ pass'[s] = p
BY DEF TypeOK, Now

\* When an item is done with, its fields are reset.
LEMMA Cleared ==
  ASSUME NEW p \in Pass
  PROVE  /\ [p EXCEPT !.cur = NoItem, !.took = 0] \in Pass
         /\ [p EXCEPT !.cur = NoItem, !.cites = NoItem, !.took = 0] \in Pass
<1> DEFINE T == 0 .. MaxKeys
           I == Item \cup {NoItem}
           P == [plan : SUBSET Item, keep : SUBSET Item, cur : I, proof : I, cites : I, took : T,
                 missed : SUBSET Item]
<1>1. 0 \in T /\ NoItem \in I
  BY StoreAssumption
<1>2. p \in P
  BY DEF Pass
<1> HIDE DEF T, I
<1>3. [p EXCEPT !.cur = NoItem, !.took = 0] \in P
  BY <1>1, <1>2
<1>4. [p EXCEPT !.cur = NoItem, !.cites = NoItem, !.took = 0] \in P
  BY <1>1, <1>2
<1> QED
  BY <1>3, <1>4 DEF Pass, T, I

\* A sweep's step keeps the types.
LEMMA SweepType ==
  ASSUME TypeOK, ReceiptsFirst, NEW s \in Actor, SweepStep(s)
  PROVE  TypeOK'
<1> USE StoreAssumption, ShredAssumption
    DEF TypeOK, DekTypeOK, Goto, Quit, rowVars, lawVars, shelfVars, evidenceVars, setVars, Key, Record
<1>0. pass[s] \in Pass /\ NoPass \in Pass
  BY DEF Pass, NoPass
<1>1. ASSUME pc' \in [Actor -> Steps], key' \in 0 .. MaxKeys, gone' \subseteq Key,
             sel' \in [Actor -> 0 .. MaxKeys], racing' \subseteq Actor, pass' \in [Actor -> Pass],
             receipts' \subseteq Item, torn' \subseteq receipts', cut' \in BOOLEAN,
             shown' \in [Item -> SUBSET Key], log' \subseteq Record,
             counts' \in [backups : 0 .. MaxBackups, restores : 0 .. MaxRestores, faults : 0 .. MaxFaults],
             off' \subseteq Key
      PROVE  TypeOK'
  BY <1>1, OneSweep DEF Steps
<1>2. CASE Plan(s)
  <2>1. ASSUME NEW seen \in SUBSET shelf
        PROVE  [NoPass EXCEPT !.plan = due \cap seen, !.keep = seen \ due, !.missed = shelf \ seen] \in Pass
    BY <1>0 DEF Pass
  <2>2. pass' \in [Actor -> Pass]
    BY <1>2, <2>1, NowType DEF Plan
  <2> QED
    BY <1>2, <1>1, <2>2 DEF Plan, Steps
<1>3. CASE NotApplied(s)
  <2>1. [pass[s] EXCEPT !.cur = NoItem] \in Pass
    BY <1>0 DEF Pass
  <2>2. pass' \in [Actor -> Pass]
    BY <1>3, <2>1, NowType DEF NotApplied
  <2> QED
    BY <1>3, <1>1, <2>2 DEF NotApplied, Steps
<1>4. CASE EndSweep(s)
  <2>1. pass' \in [Actor -> Pass]
    BY <1>4, <1>0, NowType DEF EndSweep
  <2> QED
    BY <1>4, <1>1, <2>1 DEF EndSweep, Steps
<1>5. ASSUME NEW i \in Item, Take(s, i) PROVE TypeOK'
  <2>1. Earlier(s, i) \in Item \cup {NoItem}
    BY <1>0 DEF Earlier, Pass
  <2>2. /\ [pass[s] EXCEPT !.plan = @ \ {i}] \in Pass
        /\ [pass[s] EXCEPT !.plan = @ \ {i}, !.cur = i] \in Pass
        /\ [pass[s] EXCEPT !.plan = @ \ {i}, !.cur = i, !.cites = Earlier(s, i)] \in Pass
    BY <1>0, <2>1 DEF Pass
  <2>3. pass' \in [Actor -> Pass]
    BY <1>5, <2>2, NowType DEF Take
  <2>4. pc' \in [Actor -> Steps]
    BY <1>5 DEF Take, Steps
  <2> QED
    BY <1>5, <1>1, <2>3, <2>4 DEF Take
<1>6. CASE Shred(s)
  <2>1. pc' \in [Actor -> Steps] /\ sel' \in [Actor -> 0 .. MaxKeys] /\ racing' \subseteq Actor
    BY <1>6 DEF Shred, Erase, Select, Check, Judged, Destroy, Steps
  <2>2. key' \in 0 .. MaxKeys /\ gone' \subseteq Key
    BY <1>6 DEF Shred, Erase, Select, Check, Destroy
  <2>3. pass' \in [Actor -> Pass]
    <3>1. [pass[s] EXCEPT !.took = key] \in Pass
      BY <1>0 DEF Pass
    <3> QED
      BY <1>6, <3>1, NowType DEF Shred
  <2> QED
    BY <1>1, <1>6, <2>1, <2>2, <2>3 DEF Shred
<1>7. CASE WriteReceipt(s)
  <2> DEFINE i == pass[s].cur
  <2>1. i \in Item /\ pass[s].took \in 0 .. MaxKeys
    BY <1>0, <1>7 DEF WriteReceipt, ReceiptsFirst, Pass
  <2>2. [pass[s] EXCEPT !.proof = i, !.cites = i] \in Pass
    BY <1>0, <2>1 DEF Pass
  <2>3. pass' \in [Actor -> Pass]
    BY <1>7, <2>2, NowType DEF WriteReceipt
  <2>4. shown' \in [Item -> SUBSET Key] /\ receipts' \subseteq Item /\ torn' \subseteq receipts'
    BY <1>7, <2>1 DEF WriteReceipt
  <2> QED
    BY <1>7, <1>1, <2>3, <2>4 DEF WriteReceipt, Steps
<1>8. CASE Append(s)
  <2>1. pass[s].cur \in Item /\ pass[s].cites \in Item
    BY <1>8 DEF Append, ReceiptsFirst
  <2>2. [pass[s] EXCEPT !.cur = NoItem, !.cites = NoItem, !.took = 0] \in Pass
    BY <1>0, Cleared
  <2>3. pass' \in [Actor -> Pass]
    BY <1>8, <2>2, NowType DEF Append
  <2>4. log' \subseteq Record
    BY <1>8, <2>1 DEF Append
  <2> QED
    BY <1>8, <1>1, <2>3, <2>4 DEF Append, Steps
<1>9. ASSUME ActionRaises(s) \/ Die(s) PROVE TypeOK'
  <2>1. [pass[s] EXCEPT !.cur = NoItem, !.took = 0] \in Pass
    BY <1>0, Cleared
  <2>2. pass' \in [Actor -> Pass]
    BY <1>9, <1>0, <2>1, NowType DEF ActionRaises, Die
  <2>3. off' \subseteq Key
    <3>1. pass[s].took \in 0 .. MaxKeys /\ off' = off \cup ({pass[s].took} \ {0})
      BY <1>0, <1>9 DEF ActionRaises, Die, Pass
    <3>2. off \subseteq Key /\ \A k \in 0 .. MaxKeys : {k} \ {0} \subseteq Key
      OBVIOUS
    <3> QED
      BY <3>1, <3>2
  <2>4. counts' \in [backups : 0 .. MaxBackups, restores : 0 .. MaxRestores, faults : 0 .. MaxFaults]
    <3>1. Fault
      BY <1>9 DEF ActionRaises, Die
    <3> QED
      BY <3>1 DEF Fault
  <2>5. receipts' \subseteq Item /\ torn' \subseteq receipts' /\ cut' \in BOOLEAN
    BY <1>9 DEF ActionRaises, Die, ReceiptLeft, ReceiptsFirst
  <2> QED
    <3>1. pc' \in [Actor -> Steps] /\ sel' \in [Actor -> 0 .. MaxKeys] /\ racing' \subseteq Actor
      <4>1. 0 \in 0 .. MaxKeys
        OBVIOUS
      <4>2. \E p \in Steps : Quit(s, p)
        BY <1>9 DEF ActionRaises, Die, Steps
      <4> QED
        BY <4>1, <4>2 DEF Steps
    <3>2. UNCHANGED <<key, gone, shown, log>>
      BY <1>9 DEF ActionRaises, Die
    <3> QED
      BY <1>1, <2>2, <2>3, <2>4, <2>5, <3>1, <3>2
<1> QED
  BY <1>2, <1>3, <1>4, <1>5, <1>6, <1>7, <1>8, <1>9 DEF SweepStep, Sweep

\* The steps of everyone but the sweeps.
Elsewhere ==
  \/ HoldChanges \/ ErasedElsewhere \/ \E k \in Key : WindowEnds(k)
  \/ \E i \in Item : Capture(i) \/ BecomesDue(i)
  \/ AppendCutOff \/ CopyCapsules \/ CopyKeys \/ CopyLog \/ Restore

\* A step is a sweep's or another's.
LEMMA NextSplit ==
  Next <=> Elsewhere \/ \E s \in Actor : SweepStep(s)
BY DEF Next, Elsewhere, SweepStep

\* So do all other steps.
LEMMA NextType ==
  ASSUME TypeOK, ReceiptsFirst, [Next]_vars
  PROVE  TypeOK'
<1> USE StoreAssumption, ShredAssumption
    DEF TypeOK, DekTypeOK, rowVars, lawVars, shelfVars, evidenceVars, setVars, Key
<1>1. CASE HoldChanges \/ \E k \in Key : WindowEnds(k)
  BY <1>1 DEF HoldChanges, PlaceHold, ReleaseHold, WindowEnds, Age
<1>2. CASE ErasedElsewhere
  BY <1>2 DEF ErasedElsewhere
<1>3. ASSUME NEW i \in Item, Capture(i) PROVE TypeOK'
  <2>1. key' \in 0 .. MaxKeys /\ made' \in 0 .. MaxKeys
    BY <1>3 DEF Capture, GetOrCreate
  <2>2. ASSUME NEW s \in Actor PROVE [pass[s] EXCEPT !.missed = @ \cup {i}] \in Pass
    <3>1. pass[s] \in Pass
      BY <2>2
    <3> QED
      BY <3>1 DEF Pass
  <2>3. pass' \in [Actor -> Pass]
    BY <1>3, <2>2 DEF Capture
  <2>4. sealed' \in [Item -> 0 .. MaxKeys] /\ shelf' \subseteq Item
    BY <1>3, <2>1 DEF Capture
  <2> QED
    BY <1>3, <2>1, <2>3, <2>4 DEF Capture, GetOrCreate
<1>4. ASSUME NEW i \in Item, BecomesDue(i) PROVE TypeOK'
  BY <1>4 DEF BecomesDue, dekVars
<1>5. CASE CopyCapsules \/ CopyKeys \/ CopyLog
  <2> DEFINE Sets == [step : {"none", "capsules", "keys", "done"}, items : SUBSET Item,
                      key : 0 .. MaxKeys, log : SUBSET Record, cut : BOOLEAN]
             Counts == [backups : 0 .. MaxBackups, restores : 0 .. MaxRestores, faults : 0 .. MaxFaults]
  <2>1. set' \in Sets
    <3>1. CASE CopyCapsules
      <4>1. NoSet \in Sets
        BY DEF NoSet
      <4> HIDE DEF NoSet
      <4> QED
        BY <3>1, <4>1 DEF CopyCapsules
    <3>2. CASE CopyKeys
      BY <3>2 DEF CopyKeys
    <3>3. CASE CopyLog
      BY <3>3 DEF CopyLog
    <3> QED
      BY <1>5, <3>1, <3>2, <3>3
  <2>2. counts' \in Counts
    BY <1>5 DEF CopyCapsules, CopyKeys, CopyLog
  <2> QED
    BY <1>5, <2>1, <2>2 DEF CopyCapsules, CopyKeys, CopyLog, dekVars
<1>6. CASE Restore
  <2>1. key' \in 0 .. MaxKeys /\ gone' \subseteq Key /\ off' \subseteq Key
    BY <1>6 DEF Restore, Resurrected
  <2>2. verdict' \in {"none", "ok", "failed"}
    BY <1>6 DEF Restore
  <2>3. counts' \in [backups : 0 .. MaxBackups, restores : 0 .. MaxRestores, faults : 0 .. MaxFaults]
    BY <1>6 DEF Restore
  <2>4. /\ shelf' \subseteq Item /\ cut' \in BOOLEAN
        /\ log' \subseteq Record /\ aside' \subseteq Record /\ buried' \subseteq Record
    BY <1>6 DEF Restore
  <2> QED
    BY <1>6, <2>1, <2>2, <2>3, <2>4 DEF Restore
<1>7. CASE AppendCutOff
  BY <1>7 DEF AppendCutOff, Fault, dekVars
<1>8. CASE UNCHANGED vars
  BY <1>8 DEF vars, dekVars
<1> QED
  BY <1>1, <1>2, <1>3, <1>4, <1>5, <1>6, <1>7, <1>8, SweepType, NextSplit DEF Elsewhere

-----------------------------------------------------------------------------
\* A sweep's step destroys the key it finds, or leaves the keys alone.
LEMMA SweepKeys ==
  ASSUME TypeOK, NEW s \in Actor, SweepStep(s)
  PROVE  \/ UNCHANGED <<key, gone>>
         \/ pc[s] = "destroy" /\ Shred(s) /\ key' = 0 /\ gone' = gone \cup ({key} \ {0})
<1> DEFINE Keys == \/ UNCHANGED <<key, gone>>
                   \/ pc[s] = "destroy" /\ Shred(s) /\ key' = 0 /\ gone' = gone \cup ({key} \ {0})
<1> USE DEF rowVars
<1>1. CASE Shred(s)
  BY <1>1 DEF Shred, Erase, Select, Check, Destroy
<1>2. CASE Plan(s) \/ NotApplied(s) \/ EndSweep(s) \/ WriteReceipt(s) \/ Append(s)
  BY <1>2 DEF Plan, NotApplied, EndSweep, WriteReceipt, Append
<1>3. CASE ActionRaises(s) \/ Die(s) \/ \E i \in Item : Take(s, i)
  BY <1>3 DEF ActionRaises, Die, Take
<1> QED
  BY <1>1, <1>2, <1>3 DEF SweepStep, Sweep

\* A key's number is used once: nothing but a restore brings a destroyed key back.
LEMMA KeysNext ==
  ASSUME TypeOK, KeysAreNew, [Next]_vars
  PROVE  KeysAreNew' /\ gone \subseteq gone'
<1> USE StoreAssumption DEF TypeOK, DekTypeOK, KeysAreNew, rowVars, lawVars, Key
<1> DEFINE New == KeysAreNew' /\ gone \subseteq gone'
<1>1. ASSUME NEW s \in Actor, SweepStep(s) PROVE New
  <2>1. UNCHANGED <<made, set>>
    BY <1>1, OneSweep
  <2>2. key # 0 => key \in 1 .. made
    OBVIOUS
  <2>3. key' \in {key, 0} /\ gone' \subseteq gone \cup ({key} \ {0}) /\ gone \subseteq gone'
    BY <1>1, SweepKeys
  <2> QED
    BY <2>1, <2>2, <2>3
<1>2. CASE HoldChanges \/ (\E k \in Key : WindowEnds(k)) \/ (\E i \in Item : BecomesDue(i)) \/ AppendCutOff
  BY <1>2 DEF AppendCutOff, HoldChanges, PlaceHold, ReleaseHold, WindowEnds, Age, BecomesDue, setVars, dekVars
<1>3. CASE ErasedElsewhere
  BY <1>3 DEF ErasedElsewhere, setVars
<1>4. ASSUME NEW i \in Item, Capture(i) PROVE New
  BY <1>4 DEF Capture, GetOrCreate, setVars
<1>5. CASE CopyCapsules \/ CopyKeys \/ CopyLog
  <2>1. set'.key \in {0, key, set.key}
    BY <1>5 DEF CopyCapsules, CopyKeys, CopyLog, NoSet
  <2> QED
    BY <1>5, <2>1 DEF CopyCapsules, CopyKeys, CopyLog, dekVars
<1>6. CASE Restore
  BY <1>6 DEF Restore, Resurrected
<1>7. CASE UNCHANGED vars
  BY <1>7 DEF vars, dekVars, setVars
<1> QED
  BY <1>1, <1>2, <1>3, <1>4, <1>5, <1>6, <1>7, NextSplit DEF Elsewhere

-----------------------------------------------------------------------------
\* The part of ReceiptsFirst about one sweep.
Witnessed(s) ==
  /\ pass[s].proof \in receipts \cup {NoItem}
  /\ pc[s] \in {"select", "check", "destroy", "erased", "append"} => pass[s].cur \in Item
  /\ pc[s] = "append" => pass[s].cites \in receipts
  /\ pass[s].took # 0 => \/ pc[s] = "erased"
                         \/ pc[s] = "append" /\ pass[s].took \in shown[pass[s].cites]

\* What taking up an item changes of what a sweep holds.
LEMMA TakeEffect ==
  ASSUME TypeOK, NEW s \in Actor, NEW i \in Item, Take(s, i)
  PROVE  /\ pc[s] = "sweep" /\ pc'[s] \in {"sweep", "append", "select"}
         /\ pass'[s].keep = pass[s].keep /\ pass'[s].missed = pass[s].missed
         /\ pass'[s].proof = pass[s].proof /\ pass'[s].took = pass[s].took
         /\ pc'[s] # "sweep" => pass'[s].cur = i
         /\ pc'[s] = "append" => pass'[s].cites = Earlier(s, i) /\ Earlier(s, i) # NoItem
         /\ pc'[s] = "select" => pass[s].keep = {}
<1> DEFINE P1 == [pass[s] EXCEPT !.plan = @ \ {i}]
           P2 == [pass[s] EXCEPT !.plan = @ \ {i}, !.cur = i, !.cites = Earlier(s, i)]
           P3 == [pass[s] EXCEPT !.plan = @ \ {i}, !.cur = i]
<1>1. pass[s] \in Pass /\ \A p : Now(s, p) => pass'[s] = p
  BY DEF TypeOK, Now
<1>2. ASSUME NEW p \in {P1, P2, P3}
      PROVE  p.keep = pass[s].keep /\ p.missed = pass[s].missed /\ p.proof = pass[s].proof /\ p.took = pass[s].took
  BY <1>1 DEF Pass
<1>3. P2.cur = i /\ P3.cur = i /\ P2.cites = Earlier(s, i)
  BY <1>1 DEF Pass
<1>4. /\ pc[s] = "sweep"
      /\ \/ pass'[s] = P1 /\ pc'[s] = "sweep"
         \/ pass'[s] = P2 /\ pc'[s] = "append" /\ Earlier(s, i) # NoItem
         \/ pass'[s] = P3 /\ pc'[s] = "select" /\ pass[s].keep = {}
  <2> HIDE DEF P1, P2, P3
  <2>1. Now(s, P1) \/ Now(s, P2) \/ Now(s, P3) => pass'[s] \in {P1, P2, P3}
    BY <1>1
  <2> QED
    BY <1>1, <2>1 DEF Take, Goto, TypeOK, P1, P2, P3
<1> HIDE DEF P1, P2, P3
<1> QED
  BY <1>2, <1>3, <1>4

\* A sweep cites only receipts it wrote or found.
LEMMA WitnessedStep ==
  ASSUME TypeOK, NEW s \in Actor, SweepStep(s), Witnessed(s)
  PROVE  Witnessed(s)'
<1> USE DEF TypeOK, Goto, Quit, evidenceVars
<1>0. /\ pass[s] \in Pass
      /\ \A p : Now(s, p) => pass'[s] = p
  BY DEF Now
<1>1. CASE Plan(s) \/ EndSweep(s) \/ Die(s)
  <2>1. pass'[s].proof = NoItem /\ pass'[s].took = 0 /\ pc'[s] \in {"sweep", "idle"}
    <3>1. CASE Plan(s)
      <4>1. PICK seen \in SUBSET shelf :
              pass'[s] = [NoPass EXCEPT !.plan = due \cap seen, !.keep = seen \ due, !.missed = shelf \ seen]
        BY <1>0, <3>1 DEF Plan
      <4>2. pass'[s].proof = NoItem /\ pass'[s].took = 0
        BY <4>1 DEF NoPass
      <4> QED
        BY <3>1, <4>2 DEF Plan
    <3>2. CASE EndSweep(s) \/ Die(s)
      <4>1. pass'[s] = NoPass
        BY <1>0, <3>2 DEF EndSweep, Die
      <4>2. pc'[s] = "idle"
        BY <3>2 DEF EndSweep, Die
      <4> QED
        BY <4>1, <4>2 DEF NoPass
    <3> QED
      BY <1>1, <3>1, <3>2
  <2> QED
    BY <2>1 DEF Witnessed
<1>2. ASSUME NEW i \in Item, Take(s, i) PROVE Witnessed(s)'
  <2>1. /\ pass'[s].proof = pass[s].proof /\ pass'[s].took = pass[s].took
        /\ pc[s] = "sweep" /\ UNCHANGED <<receipts, shown>>
        /\ pc'[s] \in {"sweep", "append", "select"}
        /\ pc'[s] # "sweep" => pass'[s].cur = i
        /\ pc'[s] = "append" => pass'[s].cites = Earlier(s, i) /\ Earlier(s, i) # NoItem
    <3>1. UNCHANGED <<receipts, shown>>
      BY <1>2 DEF Take
    <3> QED
      BY <1>2, <3>1, TakeEffect
  <2>2. Earlier(s, i) # NoItem => Earlier(s, i) \in receipts
    BY DEF Earlier, Witnessed
  <2> QED
    BY <2>1, <2>2 DEF Witnessed
<1>3. CASE Shred(s)
  <2>1. /\ pc[s] \in {"select", "check", "destroy"} /\ UNCHANGED <<receipts, shown>>
        /\ pc[s] # "destroy" => pc'[s] # "append" /\ UNCHANGED pass
        /\ pc[s] = "destroy" => pc'[s] = "erased"
    BY <1>3 DEF Shred, Erase, Select, Check, Judged, Destroy
  <2>2. pass'[s].proof = pass[s].proof /\ pass'[s].cur = pass[s].cur
    BY <1>0, <1>3 DEF Shred, Pass
  <2> QED
    BY <2>1, <2>2 DEF Witnessed
<1>4. CASE NotApplied(s) \/ ActionRaises(s)
  <2>1. /\ pc'[s] = "sweep" /\ receipts \subseteq receipts'
        /\ pass'[s].proof = pass[s].proof
        /\ pass'[s].took = 0 \/ (pass'[s].took = pass[s].took /\ pc[s] \notin {"erased", "append"})
    <3>1. CASE NotApplied(s)
      <4>1. pass'[s] = [pass[s] EXCEPT !.cur = NoItem]
        BY <1>0, <3>1 DEF NotApplied
      <4>2. pass'[s].proof = pass[s].proof /\ pass'[s].took = pass[s].took
        BY <1>0, <4>1 DEF Pass
      <4> QED
        BY <3>1, <4>2 DEF NotApplied
    <3>2. CASE ActionRaises(s)
      <4>1. pass'[s] = [pass[s] EXCEPT !.cur = NoItem, !.took = 0]
        BY <1>0, <3>2 DEF ActionRaises
      <4>2. pass'[s].proof = pass[s].proof /\ pass'[s].took = 0
        BY <1>0, <4>1 DEF Pass
      <4>3. pc'[s] = "sweep"
        BY <3>2 DEF ActionRaises
      <4>4. receipts \subseteq receipts'
        BY <3>2 DEF ActionRaises, ReceiptLeft
      <4> QED
        BY <4>2, <4>3, <4>4
    <3> QED
      BY <1>4, <3>1, <3>2
  <2> QED
    BY <2>1 DEF Witnessed
<1>5. CASE WriteReceipt(s)
  <2> DEFINE i == pass[s].cur
  <2>1. /\ pc[s] = "erased" /\ pc'[s] = "append" /\ i \in Item
        /\ receipts' = receipts \cup {i} /\ shown' = [shown EXCEPT ![i] = @ \cup ({pass[s].took} \ {0})]
    BY <1>5 DEF WriteReceipt, Witnessed
  <2>2. pass'[s].proof = i /\ pass'[s].cites = i /\ pass'[s].cur = i /\ pass'[s].took = pass[s].took
    BY <1>0, <1>5 DEF WriteReceipt, Pass
  <2>3. pass[s].took # 0 => pass[s].took \in shown'[i]
    BY <2>1
  <2> QED
    BY <2>1, <2>2, <2>3 DEF Witnessed
<1>6. CASE Append(s)
  <2>1. /\ pc'[s] = "sweep" /\ UNCHANGED receipts
        /\ pass'[s].proof = pass[s].proof /\ pass'[s].took = 0
    BY <1>0, <1>6 DEF Append, Pass
  <2> QED
    BY <2>1 DEF Witnessed
<1> QED
  BY <1>1, <1>2, <1>3, <1>4, <1>5, <1>6 DEF SweepStep, Sweep

\* Receipts come first, whatever else runs.
LEMMA ReceiptsNext ==
  ASSUME TypeOK, ReceiptsFirst, [Next]_vars
  PROVE  ReceiptsFirst'
<1> USE DEF TypeOK, ReceiptsFirst, evidenceVars, setVars
<1>1. ASSUME NEW s \in Actor, SweepStep(s) PROVE ReceiptsFirst'
  <2>1. /\ UNCHANGED set /\ receipts \subseteq receipts'
        /\ \A t \in Actor \ {s} : pc'[t] = pc[t] /\ pass'[t] = pass[t]
    BY <1>1, OneSweep
  <2>2. Witnessed(s)'
    BY <1>1, WitnessedStep DEF Witnessed
  <2>3. \A i \in Item : shown[i] \subseteq shown'[i]
    <3>1. CASE WriteReceipt(s)
      BY <3>1 DEF WriteReceipt
    <3>2. CASE ~WriteReceipt(s)
      BY <1>1, <3>2
         DEF SweepStep, Sweep, Plan, Shred, NotApplied, Append, EndSweep, Take, ActionRaises, Die
    <3> QED
      BY <3>1, <3>2
  <2>4. \A rec \in log' : rec[2] \in receipts'
    <3>1. CASE Append(s)
      <4>1. log' = log \cup {<<pass[s].cur, pass[s].cites, shown[pass[s].cites]>>}
        BY <3>1 DEF Append
      <4>2. pass[s].cites \in receipts
        BY <3>1 DEF Append
      <4> QED
        BY <2>1, <4>1, <4>2
    <3>2. CASE ~Append(s)
      <4>1. UNCHANGED log
        BY <1>1, <3>2
           DEF SweepStep, Sweep, Plan, Shred, NotApplied, WriteReceipt, EndSweep, Take, ActionRaises, Die
      <4> QED
        BY <2>1, <4>1
    <3> QED
      BY <3>1, <3>2
  <2>5. ASSUME NEW t \in Actor PROVE Witnessed(t)'
    <3>1. CASE t = s
      BY <2>2, <3>1
    <3>2. CASE t # s
      <4>1. pc'[t] = pc[t] /\ pass'[t] = pass[t] /\ Witnessed(t)
        BY <2>1, <3>2 DEF Witnessed
      <4>2. pc[t] = "append" => pass[t].cites \in Item
        BY <4>1 DEF Witnessed
      <4> QED
        BY <2>1, <2>3, <4>1, <4>2 DEF Witnessed
    <3> QED
      BY <3>1, <3>2
  <2> QED
    BY <2>1, <2>4, <2>5 DEF Witnessed
<1>2. ASSUME NEW i \in Item, Capture(i) PROVE ReceiptsFirst'
  <2>1. /\ UNCHANGED <<pc, receipts, shown, log, set>>
        /\ \A s \in Actor : /\ pass'[s].proof = pass[s].proof /\ pass'[s].cur = pass[s].cur
                            /\ pass'[s].cites = pass[s].cites /\ pass'[s].took = pass[s].took
    BY <1>2 DEF Capture, GetOrCreate, Pass
  <2> QED
    BY <2>1
<1>3. CASE \/ HoldChanges \/ ErasedElsewhere \/ AppendCutOff
           \/ (\E k \in Key : WindowEnds(k)) \/ \E i \in Item : BecomesDue(i)
  BY <1>3 DEF AppendCutOff, HoldChanges, PlaceHold, ReleaseHold, ErasedElsewhere, WindowEnds, Age, BecomesDue, dekVars
<1>4. CASE CopyCapsules \/ CopyKeys \/ CopyLog
  <2>1. set'.log \in {{}, log, set.log} /\ UNCHANGED <<pc, pass, receipts, shown, log>>
    BY <1>4 DEF CopyCapsules, CopyKeys, CopyLog, NoSet, dekVars
  <2> QED
    BY <2>1
<1>5. CASE Restore
  BY <1>5 DEF Restore
<1>6. CASE UNCHANGED vars
  BY <1>6 DEF vars, dekVars
<1> QED
  BY <1>1, <1>2, <1>3, <1>4, <1>5, <1>6, NextSplit DEF Elsewhere

-----------------------------------------------------------------------------
\* What a set holds of the log was in a log, and restores keep it in one.
LEMMA SetNext ==
  ASSUME TypeOK, SetFromLog, [Next]_vars
  PROVE  SetFromLog'
<1> USE DEF SetFromLog, evidenceVars, setVars
<1>1. ASSUME NEW s \in Actor, SweepStep(s) PROVE SetFromLog'
  BY <1>1, OneSweep
<1>2. CASE \/ HoldChanges \/ ErasedElsewhere \/ AppendCutOff
           \/ (\E k \in Key : WindowEnds(k)) \/ \E i \in Item : Capture(i) \/ BecomesDue(i)
  BY <1>2 DEF AppendCutOff, HoldChanges, ErasedElsewhere, WindowEnds, Capture, BecomesDue
<1>3. CASE CopyCapsules \/ CopyKeys \/ CopyLog
  <2>1. set'.log \in {{}, log, set.log}
    BY <1>3 DEF CopyCapsules, CopyKeys, CopyLog, NoSet, TypeOK
  <2>2. UNCHANGED <<log, aside, buried>>
    BY <1>3 DEF CopyCapsules, CopyKeys, CopyLog
  <2> QED
    BY <2>1, <2>2
<1>4. CASE Restore
  BY <1>4 DEF Restore
<1>5. CASE UNCHANGED vars
  BY <1>5 DEF vars
<1> QED
  BY <1>1, <1>2, <1>3, <1>4, <1>5, NextSplit DEF Elsewhere

\* A capsule on the shelf that is not due is in a sweep's inventory or came after it.
LEMMA SpareNext ==
  ASSUME TypeOK, SparedOrMissed, [Next]_vars
  PROVE  SparedOrMissed'
<1> USE DEF TypeOK, SparedOrMissed, shelfVars
<1> DEFINE Erasing == {"select", "check", "destroy"}
<1>1. ASSUME NEW s \in Actor, SweepStep(s) PROVE SparedOrMissed'
  <2>1. /\ UNCHANGED <<shelf, due>>
        /\ \A t \in Actor \ {s} : pc'[t] = pc[t] /\ pass'[t] = pass[t]
    BY <1>1, OneSweep
  <2>2. /\ pc'[s] # "idle" => shelf \ due \subseteq pass'[s].keep \cup pass'[s].missed
        /\ pc'[s] \in Erasing => pass'[s].keep = {}
    <3>0. pass[s] \in Pass /\ \A p : Now(s, p) => pass'[s] = p
      BY DEF Now
    <3>1. CASE Plan(s)
      <4>1. pc'[s] = "sweep" /\ \E seen \in SUBSET shelf :
              pass'[s] = [NoPass EXCEPT !.plan = due \cap seen, !.keep = seen \ due, !.missed = shelf \ seen]
        BY <3>0, <3>1 DEF Plan, Goto
      <4>2. \E seen \in SUBSET shelf : pass'[s].keep = seen \ due /\ pass'[s].missed = shelf \ seen
        BY <4>1 DEF NoPass
      <4> QED
        BY <4>1, <4>2
    <3>2. CASE EndSweep(s) \/ Die(s)
      BY <3>2 DEF EndSweep, Die, Goto, Quit
    <3>3. ASSUME pc[s] # "idle", pass'[s].keep = pass[s].keep, pass'[s].missed = pass[s].missed,
                 pc'[s] \in Erasing => pc[s] \in Erasing \/ pass[s].keep = {}
          PROVE  /\ pc'[s] # "idle" => shelf \ due \subseteq pass'[s].keep \cup pass'[s].missed
                 /\ pc'[s] \in Erasing => pass'[s].keep = {}
      BY <3>3
    <3>4. ASSUME NEW i \in Item, Take(s, i)
          PROVE  /\ pc'[s] # "idle" => shelf \ due \subseteq pass'[s].keep \cup pass'[s].missed
                 /\ pc'[s] \in Erasing => pass'[s].keep = {}
      <4>1. pass'[s].keep = pass[s].keep /\ pass'[s].missed = pass[s].missed
        BY <3>4, TakeEffect
      <4>2. pc[s] = "sweep" /\ (pc'[s] \in Erasing => pass[s].keep = {})
        BY <3>4, TakeEffect
      <4> QED
        BY <3>3, <4>1, <4>2
    <3>5. CASE Shred(s) \/ NotApplied(s) \/ ActionRaises(s) \/ WriteReceipt(s) \/ Append(s)
      <4>1. pass'[s].keep = pass[s].keep /\ pass'[s].missed = pass[s].missed
        <5>1. CASE Shred(s)
          <6>1. pass'[s] \in {pass[s], [pass[s] EXCEPT !.took = key]}
            BY <3>0, <5>1 DEF Shred
          <6> QED
            BY <3>0, <6>1 DEF Pass
        <5>2. CASE NotApplied(s)
          <6>1. pass'[s] = [pass[s] EXCEPT !.cur = NoItem]
            BY <3>0, <5>2 DEF NotApplied
          <6> QED
            BY <3>0, <6>1 DEF Pass
        <5>3. CASE ActionRaises(s)
          <6>1. pass'[s] = [pass[s] EXCEPT !.cur = NoItem, !.took = 0]
            BY <3>0, <5>3 DEF ActionRaises
          <6> QED
            BY <3>0, <6>1 DEF Pass
        <5>4. CASE WriteReceipt(s)
          <6>1. pass'[s] = [pass[s] EXCEPT !.proof = pass[s].cur, !.cites = pass[s].cur]
            BY <3>0, <5>4 DEF WriteReceipt
          <6> QED
            BY <3>0, <6>1 DEF Pass
        <5>5. CASE Append(s)
          <6>1. pass'[s] = [pass[s] EXCEPT !.cur = NoItem, !.cites = NoItem, !.took = 0]
            BY <3>0, <5>5 DEF Append
          <6> QED
            BY <3>0, <6>1 DEF Pass
        <5> QED
          BY <3>5, <5>1, <5>2, <5>3, <5>4, <5>5
      <4>2. pc[s] # "idle" /\ (pc'[s] \in Erasing => pc[s] \in Erasing)
        BY <3>5 DEF Shred, Erase, Select, Check, Judged, Destroy, NotApplied, ActionRaises, WriteReceipt,
                    Append, Goto, Quit
      <4> QED
        BY <3>3, <4>1, <4>2
    <3> QED
      BY <1>1, <3>1, <3>2, <3>4, <3>5 DEF SweepStep, Sweep
  <2> QED
    BY <2>1, <2>2
<1>2. ASSUME NEW i \in Item, Capture(i) PROVE SparedOrMissed'
  <2>1. UNCHANGED <<pc, due>> /\ shelf' = shelf \cup {i}
    BY <1>2 DEF Capture, GetOrCreate
  <2>2. ASSUME NEW s \in Actor PROVE /\ pass'[s].keep = pass[s].keep
                                     /\ pc[s] # "idle" => pass'[s].missed = pass[s].missed \cup {i}
    BY <1>2, <2>2 DEF Capture, Pass
  <2> QED
    BY <2>1, <2>2
<1>3. CASE \/ HoldChanges \/ ErasedElsewhere \/ AppendCutOff
           \/ (\E k \in Key : WindowEnds(k)) \/ \E i \in Item : BecomesDue(i)
  BY <1>3 DEF AppendCutOff, HoldChanges, PlaceHold, ReleaseHold, ErasedElsewhere, WindowEnds, Age, BecomesDue, dekVars
<1>4. CASE CopyCapsules \/ CopyKeys \/ CopyLog
  BY <1>4 DEF CopyCapsules, CopyKeys, CopyLog, dekVars
<1>5. CASE Restore
  BY <1>5 DEF Restore
<1>6. CASE UNCHANGED vars
  BY <1>6 DEF vars, dekVars
<1> QED
  BY <1>1, <1>2, <1>3, <1>4, <1>5, <1>6, NextSplit DEF Elsewhere

-----------------------------------------------------------------------------
\* A key of a set of records is a key of one of them.
LEMMA KeysOfMember ==
  ASSUME NEW S, NEW k
  PROVE  k \in KeysOf(S) <=> \E rec \in S : k \in rec[3]
BY DEF KeysOf

\* A key a sweep took stays with it, goes on record, or is marked as lost from it.
LEMMA TakenKey ==
  ASSUME TypeOK, ReceiptsFirst, NEW s \in Actor, SweepStep(s), pass[s].took # 0
  PROVE  \/ pass'[s].took = pass[s].took
         \/ pass[s].took \in off'
         \/ pass[s].took \in KeysOf(log')
<1> USE DEF TypeOK
<1>0. /\ pass[s] \in Pass
      /\ \A p : Now(s, p) => pass'[s] = p
      /\ pc[s] = "erased" \/ (pc[s] = "append" /\ pass[s].took \in shown[pass[s].cites])
  BY DEF Now, ReceiptsFirst
<1>1. CASE WriteReceipt(s)
  BY <1>0, <1>1 DEF WriteReceipt, Pass
<1>2. CASE Append(s)
  <2> DEFINE rec == <<pass[s].cur, pass[s].cites, shown[pass[s].cites]>>
  <2>1. rec \in log' /\ rec[3] = shown[pass[s].cites]
    BY <1>2 DEF Append
  <2>2. pass[s].took \in rec[3]
    BY <1>0, <1>2, <2>1 DEF Append
  <2> HIDE DEF rec
  <2> QED
    BY <2>1, <2>2, KeysOfMember
<1>3. CASE ActionRaises(s) \/ Die(s)
  BY <1>3 DEF ActionRaises, Die
<1>4. ~(Plan(s) \/ NotApplied(s) \/ EndSweep(s) \/ Shred(s) \/ \E i \in Item : Take(s, i))
  BY <1>0 DEF Plan, NotApplied, EndSweep, Shred, Erase, Select, Check, Destroy, Take
<1> QED
  BY <1>1, <1>2, <1>3, <1>4 DEF SweepStep, Sweep

\* A destroyed key is accounted for after every step.
LEMMA RecordedNext ==
  ASSUME TypeOK, ReceiptsFirst, SetFromLog, EveryShredIsRecorded, [Next]_vars
  PROVE  EveryShredIsRecorded'
<1> DEFINE Held(k) == k \in off \/ k \in KeysOf(Written) \/ \E s \in Actor : pass[s].took = k
<1> USE DEF TypeOK, DekTypeOK, Key
<1>0. ASSUME NEW S, NEW T, S \subseteq T PROVE KeysOf(S) \subseteq KeysOf(T)
  BY <1>0, KeysOfMember
<1>1. ASSUME NEW s \in Actor, SweepStep(s) PROVE EveryShredIsRecorded'
  <2>1. /\ \A t \in Actor \ {s} : pass'[t] = pass[t]
        /\ off \subseteq off' /\ UNCHANGED <<aside, buried, set>> /\ log \subseteq log'
    BY <1>1, OneSweep
  <2>2. KeysOf(Written) \subseteq KeysOf(Written') /\ KeysOf(log') \subseteq KeysOf(Written')
    BY <2>1, <1>0 DEF Written
  <2>3. Written' = log' \cup aside' \cup buried' \cup set'.log
    BY DEF Written
  <2>4. ASSUME NEW k \in gone', k # 0
        PROVE  k \in off' \/ k \in KeysOf(Written') \/ \E t \in Actor : pass'[t].took = k
    <3>1. CASE k \in gone
      <4>1. Held(k)
        BY <3>1 DEF EveryShredIsRecorded
      <4>2. ASSUME pass[s].took = k PROVE k \in off' \/ k \in KeysOf(log') \/ pass'[s].took = k
        BY <1>1, <2>4, <4>2, TakenKey
      <4> QED
        BY <2>1, <2>2, <4>1, <4>2
    <3>2. CASE k \notin gone
      <4>1. pc[s] = "destroy" /\ Shred(s) /\ k = key
        BY <1>1, <2>4, <3>2, SweepKeys
      <4>2. pass'[s].took = key
        BY <4>1 DEF Shred, Now, Pass
      <4> QED
        BY <4>1, <4>2
    <3> QED
      BY <3>1, <3>2
  <2>5. \A k \in gone' : k # 0
    BY <1>1, SweepKeys
  <2> QED
    BY <2>4, <2>5 DEF EveryShredIsRecorded
<1>2. ASSUME NEW i \in Item, Capture(i) PROVE EveryShredIsRecorded'
  <2>1. \A s \in Actor : pass'[s].took = pass[s].took
    BY <1>2 DEF Capture, Pass
  <2>2. UNCHANGED <<gone, off, log, aside, buried, set>>
    BY <1>2 DEF Capture, GetOrCreate, evidenceVars, setVars
  <2>3. KeysOf(Written)' = KeysOf(Written)
    BY <2>2 DEF KeysOf, Written
  <2> QED
    BY <2>1, <2>2, <2>3 DEF EveryShredIsRecorded
<1>3. CASE \/ HoldChanges \/ ErasedElsewhere \/ AppendCutOff
           \/ (\E k \in Key : WindowEnds(k)) \/ \E i \in Item : BecomesDue(i)
  <2>1. /\ UNCHANGED <<log, aside, buried, set, pass>> /\ off \subseteq off'
        /\ \A k \in gone' : k \in gone \/ k \in off'
    BY <1>3 DEF AppendCutOff, HoldChanges, PlaceHold, ReleaseHold, ErasedElsewhere, WindowEnds, Age, BecomesDue,
                evidenceVars, setVars, dekVars, rowVars
  <2>2. KeysOf(Written)' = KeysOf(Written)
    BY <2>1 DEF KeysOf, Written
  <2> QED
    BY <2>1, <2>2 DEF EveryShredIsRecorded
<1>4. CASE CopyCapsules \/ CopyKeys \/ CopyLog
  <2>1. UNCHANGED <<log, aside, buried, pass, off, gone>>
    BY <1>4 DEF CopyCapsules, CopyKeys, CopyLog, evidenceVars, dekVars, rowVars
  <2>2. Written \subseteq Written'
    BY <2>1 DEF Written, SetFromLog
  <2>3. KeysOf(Written) \subseteq KeysOf(Written')
    BY <2>2, <1>0
  <2> QED
    BY <2>1, <2>3 DEF EveryShredIsRecorded
<1>5. CASE Restore
  <2>1. /\ UNCHANGED <<pass>> /\ off \subseteq off'
        /\ \A k \in gone' : k \in gone \/ k \in off'
        /\ Written \subseteq Written'
    BY <1>5 DEF Restore, Written
  <2>2. KeysOf(Written) \subseteq KeysOf(Written')
    BY <2>1, <1>0
  <2> QED
    BY <2>1, <2>2 DEF EveryShredIsRecorded
<1>6. CASE UNCHANGED vars
  BY <1>6 DEF vars, dekVars, rowVars, evidenceVars, setVars, EveryShredIsRecorded, Written, KeysOf
<1> QED
  BY <1>1, <1>2, <1>3, <1>4, <1>5, <1>6, NextSplit DEF Elsewhere

\* A restore that passes its replay leaves no key alive that is on record in what it read.
LEMMA RestoreStays ==
  ASSUME TypeOK, KeysAreNew, ReceiptsFirst, EveryShredIsRecorded, Restore
  PROVE  RecordedShredsStay'
<1> USE DEF TypeOK, DekTypeOK, Key
<1> SUFFICES ASSUME verdict' = "ok", key' \in gone'
             PROVE  key' \in off' \/ key' \in KeysOf(buried')
  BY DEF RecordedShredsStay
<1>1. key' # 0
  BY DEF Restore, Resurrected
<1>2. ReplayPasses
  BY DEF Restore
<1>3. key' = set.key /\ ~Resurrected /\ gone' = gone /\ off' = off
  BY <1>1, <1>2 DEF Restore, ReplayPasses
<1>4. Decisions = {}
  BY <1>1, <1>2, <1>3 DEF ReplayPasses, Resurrected
<1>5. \A s \in Actor : pass[s].took # key'
  BY <1>1 DEF Restore, ReceiptsFirst
<1>6. key' \in off \/ key' \in KeysOf(Written)
  BY <1>3, <1>5 DEF EveryShredIsRecorded
<1>7. Written = buried'
  BY <1>4 DEF Restore, Written, Decisions
<1> QED
  BY <1>3, <1>6, <1>7

\* The key stays destroyed after the restore as well.
LEMMA StayNext ==
  ASSUME TypeOK, KeysAreNew, ReceiptsFirst, EveryShredIsRecorded, RecordedShredsStay, [Next]_vars
  PROVE  RecordedShredsStay'
<1>1. ASSUME UNCHANGED <<verdict, buried>>, off \subseteq off', key' \in gone' => key' = key /\ key \in gone
      PROVE  RecordedShredsStay'
  BY <1>1 DEF RecordedShredsStay, KeysOf
<1> USE DEF TypeOK, DekTypeOK, Key, KeysAreNew, evidenceVars, setVars, rowVars
<1>2. ASSUME NEW s \in Actor, SweepStep(s) PROVE RecordedShredsStay'
  <2>1. UNCHANGED <<verdict, buried>> /\ off \subseteq off'
    BY <1>2, OneSweep
  <2>2. key' \in gone' => key' = key /\ key \in gone
    BY <1>2, SweepKeys
  <2> QED
    BY <1>1, <2>1, <2>2
<1>3. ASSUME NEW i \in Item, Capture(i) PROVE RecordedShredsStay'
  BY <1>1, <1>3, StoreAssumption DEF Capture, GetOrCreate
<1>4. CASE \/ HoldChanges \/ ErasedElsewhere \/ AppendCutOff
           \/ (\E k \in Key : WindowEnds(k)) \/ \E i \in Item : BecomesDue(i)
  BY <1>1, <1>4
     DEF AppendCutOff, HoldChanges, PlaceHold, ReleaseHold, ErasedElsewhere, WindowEnds, Age, BecomesDue, dekVars
<1>5. CASE CopyCapsules \/ CopyKeys \/ CopyLog
  BY <1>1, <1>5 DEF CopyCapsules, CopyKeys, CopyLog, dekVars
<1>6. CASE Restore
  BY <1>6, RestoreStays
<1>7. CASE UNCHANGED vars
  BY <1>1, <1>7 DEF vars, dekVars
<1> QED
  BY <1>2, <1>3, <1>4, <1>5, <1>6, <1>7, NextSplit DEF Elsewhere

-----------------------------------------------------------------------------
(* The theorems.                                                            *)

\* The initial state satisfies the invariant.
LEMMA ShredInitInv ==
  Init => ShredInv
<1> SUFFICES ASSUME Init PROVE ShredInv
  OBVIOUS
<1> USE StoreAssumption, ShredAssumption DEF Init, DekInit
<1>1. DekTypeOK
  <2>1. key \in 0 .. MaxKeys /\ made \in 0 .. MaxKeys /\ sel \in [Actor -> 0 .. MaxKeys]
    OBVIOUS
  <2>2. hold \in BOOLEAN /\ aged \subseteq Key /\ gone \subseteq Key /\ racing \subseteq Actor
    OBVIOUS
  <2> QED
    BY <2>1, <2>2 DEF DekTypeOK
<1>2. pass \in [Actor -> Pass]
  BY DEF Pass, NoPass
<1>3. set \in [step : {"none", "capsules", "keys", "done"}, items : SUBSET Item,
              key : 0 .. MaxKeys, log : SUBSET Record, cut : BOOLEAN]
  BY DEF NoSet
<1>4. TypeOK
  <2>1. pc \in [Actor -> Steps] /\ shelf \subseteq Item /\ due \subseteq Item /\ sealed \in [Item -> 0 .. MaxKeys]
    BY DEF Steps
  <2>2. /\ receipts \subseteq Item /\ torn \subseteq receipts /\ cut \in BOOLEAN /\ shown \in [Item -> SUBSET Key]
        /\ log \subseteq Record /\ aside \subseteq Record /\ buried \subseteq Record
    OBVIOUS
  <2>3. /\ verdict \in {"none", "ok", "failed"} /\ off \subseteq Key
        /\ counts \in [backups : 0 .. MaxBackups, restores : 0 .. MaxRestores, faults : 0 .. MaxFaults]
    OBVIOUS
  <2> QED
    BY <1>1, <1>2, <1>3, <2>1, <2>2, <2>3 DEF TypeOK, Steps
<1>5. KeysAreNew /\ SetFromLog
  BY DEF KeysAreNew, SetFromLog, NoSet
<1>6. ReceiptsFirst /\ SparedOrMissed
  BY DEF ReceiptsFirst, SparedOrMissed, NoSet, NoPass
<1>7. EveryShredIsRecorded /\ RecordedShredsStay
  BY DEF EveryShredIsRecorded, RecordedShredsStay
<1> QED
  BY <1>4, <1>5, <1>6, <1>7 DEF ShredInv

\* Every step keeps it.
LEMMA ShredNextInv ==
  ShredInv /\ [Next]_vars => ShredInv'
BY NextType, KeysNext, ReceiptsNext, SetNext, SpareNext, RecordedNext, StayNext DEF ShredInv

\* Whatever sweeps, captures, erasers, backups and restores do, types, the order of receipts and
\* records, and the properties below hold throughout.
THEOREM ShredInvariant ==
  Spec => []ShredInv
BY ShredInitInv, ShredNextInv, PTL DEF Spec

\* No shred of a sweep goes unrecorded but by a failure between the key and the record.
THEOREM ShredsAreRecorded ==
  Spec => []EveryShredIsRecorded
<1>1. ShredInv => EveryShredIsRecorded
  BY DEF ShredInv
<1> QED
  BY <1>1, ShredInvariant, PTL

\* Shredded stays shredded when a restore reports success, for every key whose record is in
\* a log that the restore reads.
THEOREM ShreddedStaysShredded ==
  Spec => []RecordedShredsStay
<1>1. ShredInv => RecordedShredsStay
  BY DEF ShredInv
<1> QED
  BY <1>1, ShredInvariant, PTL

\* A sweep destroys no key under a capsule of its inventory that was not due.
THEOREM RetainedAreSpared ==
  Spec => SweepSparesRetained
<1>1. ShredInv /\ [Next]_vars =>
        [\A s \in Actor : pc[s] = "destroy" /\ pc'[s] = "erased" =>
           \A i \in shelf \ due : sealed[i] = key => i \in pass[s].missed]_vars
  BY DEF ShredInv, SparedOrMissed
<1> QED
  BY <1>1, ShredInvariant, PTL DEF Spec, SweepSparesRetained

\* A restore that reports failure met a hold, a line cut off in a log, or a record that cites
\* another's receipt or one that was cut off.
THEOREM RestoresFailForAReason ==
  Spec => RestoreFailsForAReason
<1>1. ShredInv /\ [Next]_vars =>
        [Restoring /\ verdict' = "failed" =>
           \/ hold \/ cut \/ set.cut
           \/ \E rec \in Decisions : rec[1] # rec[2] \/ rec[2] \in torn]_vars
  <2> SUFFICES ASSUME ShredInv, [Next]_vars, Restoring, verdict' = "failed"
               PROVE  \/ hold \/ cut \/ set.cut
                      \/ \E rec \in Decisions : rec[1] # rec[2] \/ rec[2] \in torn
    OBVIOUS
  <2>1. Restore
    <3>1. ~ \E s \in Actor : SweepStep(s)
      BY DEF ShredInv, TypeOK, Restoring, SweepStep, Sweep, Plan, Take, Shred, NotApplied, WriteReceipt,
             Append, EndSweep, ActionRaises, Die, Fault
    <3>2. ~(CopyCapsules \/ CopyKeys \/ CopyLog)
      BY DEF ShredInv, TypeOK, Restoring, CopyCapsules, CopyKeys, CopyLog
    <3>3. ~ UNCHANGED vars
      BY DEF Restoring, vars
    <3>4. ~(HoldChanges \/ ErasedElsewhere \/ (\E k \in Key : WindowEnds(k)) \/ \E i \in Item : Capture(i) \/ BecomesDue(i))
      BY DEF Restoring, HoldChanges, ErasedElsewhere, WindowEnds, Capture, BecomesDue
    <3>5. ~AppendCutOff
      BY DEF ShredInv, TypeOK, Restoring, AppendCutOff, Fault
    <3> QED
      BY <3>1, <3>2, <3>3, <3>4, <3>5, NextSplit DEF Elsewhere
  <2>2. ~ReplayPasses \/ cut \/ set.cut
    BY <2>1 DEF Restore, Unverified
  <2>3. \A rec \in Decisions : rec[2] \in receipts
    BY DEF ShredInv, ReceiptsFirst, Decisions
  <2> QED
    BY <2>2, <2>3 DEF ReplayPasses, Resolves
<1> QED
  BY <1>1, ShredInvariant, PTL DEF Spec, RestoreFailsForAReason

\* A log is moved aside by a restore, and what was aside before it is out of reach after it.
BuriedByTheSecond ==
  /\ counts.restores = 0 => aside = {}
  /\ counts.restores <= 1 => buried = {}

\* Only a restore moves logs.
LEMMA BuriedNext ==
  TypeOK /\ BuriedByTheSecond /\ [Next]_vars => BuriedByTheSecond'
<1> SUFFICES ASSUME TypeOK, BuriedByTheSecond, [Next]_vars PROVE BuriedByTheSecond'
  OBVIOUS
<1>0. counts.restores \in Nat
  BY ShredAssumption DEF TypeOK
<1>1. ASSUME UNCHANGED <<aside, buried>>, counts'.restores = counts.restores PROVE BuriedByTheSecond'
  BY <1>1 DEF BuriedByTheSecond
<1>2. ASSUME NEW s \in Actor, SweepStep(s) PROVE BuriedByTheSecond'
  <2>1. UNCHANGED <<aside, buried>> /\ counts'.restores = counts.restores
    BY <1>2
    DEF SweepStep, Sweep, Plan, Take, Shred, NotApplied, WriteReceipt, Append, EndSweep, ActionRaises,
        Die, Fault, evidenceVars, TypeOK
  <2> QED BY <1>1, <2>1
<1>3. CASE HoldChanges \/ ErasedElsewhere \/ AppendCutOff \/ (\E k \in Key : WindowEnds(k))
             \/ \E i \in Item : Capture(i) \/ BecomesDue(i)
  <2>1. UNCHANGED <<aside, buried>> /\ counts'.restores = counts.restores
    BY <1>3 DEF TypeOK, AppendCutOff, Fault, HoldChanges, ErasedElsewhere, WindowEnds, Capture, BecomesDue, evidenceVars
  <2> QED BY <1>1, <2>1
<1>4. CASE CopyCapsules \/ CopyKeys \/ CopyLog
  <2>1. UNCHANGED <<aside, buried>> /\ counts'.restores = counts.restores
    BY <1>4 DEF CopyCapsules, CopyKeys, CopyLog, evidenceVars, TypeOK
  <2> QED BY <1>1, <2>1
<1>5. CASE Restore
  <2>1. counts'.restores = counts.restores + 1 /\ buried' = buried \cup aside
    BY <1>5 DEF Restore, TypeOK
  <2> QED BY <1>0, <2>1 DEF BuriedByTheSecond
<1>6. CASE UNCHANGED vars
  BY <1>1, <1>6 DEF vars, evidenceVars, setVars
<1> QED
  BY <1>2, <1>3, <1>4, <1>5, <1>6, NextSplit DEF Elsewhere

\* So the runbook's promise holds up to the first restore: the run that refutes it restores twice.
THEOREM FirstRestoreKeepsItsPromise ==
  Spec => [](counts.restores <= 1 => ShreddedSubjectsStay)
<1>1. Init => BuriedByTheSecond
  BY DEF Init, BuriedByTheSecond
<1>2. ShredInv => TypeOK
  BY DEF ShredInv
<1>3. ShredInv /\ BuriedByTheSecond => (counts.restores <= 1 => ShreddedSubjectsStay)
  BY DEF ShredInv, BuriedByTheSecond, RecordedShredsStay, ShreddedSubjectsStay, KeysOf
<1> QED
  BY <1>1, <1>2, <1>3, BuriedNext, ShredInvariant, PTL DEF Spec

=============================================================================
