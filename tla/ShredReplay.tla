----------------------------- MODULE ShredReplay ----------------------------
(***************************************************************************)
(* Retention sweeps that destroy a subject's key (src/src/novafabric/      *)
(* retention/actions.py, crypto-shred), the backup set that may still hold *)
(* the key, and the restore that must destroy it again from the decision   *)
(* log (src/src/novafabric/backup/restore.py). A sweep writes a receipt    *)
(* file, then appends a record that names it to the audit log. The set     *)
(* holds capsules, dek.db and the audit log, copied in that order; a       *)
(* restore over a live home moves them aside and replays the restored log  *)
(* and the one it just moved. An erasure by request or by nova pii erase   *)
(* writes no such record: ErasureQueue has its steps, here a key is gone.  *)
(*                                                                         *)
(* One subject; an item is one of its capsules, which names it by the HMAC *)
(* in its redaction manifest. The actors are sweeps. A restore is taken    *)
(* with the deployment at rest, over a home whose dek.db and audit log are *)
(* older than the first set (they hold keys and entries of others). The    *)
(* log can be read. It is processes that die: what they wrote stays.       *)
(***************************************************************************)
EXTENDS DekStore, FiniteSets

CONSTANTS
  Item,          \* capsules of the subject
  NoItem,
  MaxBackups,    \* bound: backup sets made
  MaxRestores,   \* bound: restores
  MaxFaults      \* bound: deaths and failed steps of sweeps

ASSUME ShredAssumption ==
  /\ NoItem \notin Item
  /\ MaxBackups \in Nat /\ MaxRestores \in Nat /\ MaxFaults \in Nat

VARIABLES
  shelf,     \* items in the capsule directory
  sealed,    \* item: the key its PII is encrypted under; 0 = never captured
  due,       \* items a crypto-shred binding is due for
  pass,      \* sweep: what its process holds, a record (see NoPass)
  receipts,  \* items with a receipt file
  torn,      \* those whose receipt file was cut off
  log,       \* applied shreds in the audit log: item, item of the receipt, keys (history)
  cut,       \* a line of the audit log was cut off: its chain does not verify
  aside,     \* the records of the log that the last restore moved aside
  buried,    \* the records of logs that earlier restores moved aside
  set,       \* the backup set
  verdict,   \* the last restore: none, ok, failed
  counts,    \* backups, restores and faults so far
  shown,     \* history: item: the keys whose destruction its receipts have shown
  off        \* history: keys destroyed without a record, or whose sweep failed before it

shelfVars == <<shelf, sealed, due>>
evidenceVars == <<receipts, torn, shown, log, cut, aside, buried>>
setVars == <<set, verdict>>
vars == <<dekVars, shelfVars, pass, evidenceVars, setVars, counts, off>>

\* plan: items still to act on; keep: items of the inventory that were not due;
\* cur: the item whose shred is under way; proof: the item whose receipt the pass wrote
\* last (_shredded_this_pass); cites: the item whose receipt the next record names;
\* history: took: the key destroyed for cur; missed: items the inventory lacks.
NoPass == [plan |-> {}, keep |-> {}, cur |-> NoItem, proof |-> NoItem, cites |-> NoItem,
           took |-> 0, missed |-> {}]
NoSet == [step |-> "none", items |-> {}, key |-> 0, log |-> {}, cut |-> FALSE]

Init ==
  /\ DekInit
  /\ shelf = {} /\ sealed = [i \in Item |-> 0] /\ due = {}
  /\ pass = [s \in Actor |-> NoPass]
  /\ receipts = {} /\ torn = {} /\ shown = [i \in Item |-> {}]
  /\ log = {} /\ cut = FALSE /\ aside = {} /\ buried = {}
  /\ set = NoSet /\ verdict = "none"
  /\ counts = [backups |-> 0, restores |-> 0, faults |-> 0] /\ off = {}

\* What a sweep holds is p from here on.
Now(s, p) == pass' = [pass EXCEPT ![s] = p]
Fault == counts.faults < MaxFaults /\ counts' = [counts EXCEPT !.faults = @ + 1]

-----------------------------------------------------------------------------
(* Captures, time, and erasers that leave no record.                        *)

Capture(i) ==
  /\ sealed[i] = 0
  /\ GetOrCreate
  /\ sealed' = [sealed EXCEPT ![i] = key']
  /\ shelf' = shelf \cup {i}
  /\ pass' = [s \in Actor |-> IF pc[s] = "idle" THEN pass[s] ELSE [pass[s] EXCEPT !.missed = @ \cup {i}]]
  /\ UNCHANGED <<due, evidenceVars, setVars, counts, off>>

BecomesDue(i) ==
  /\ i \in shelf \ due
  /\ due' = due \cup {i}
  /\ UNCHANGED <<dekVars, shelf, sealed, pass, evidenceVars, setVars, counts, off>>

WindowEnds(k) ==
  Age(k) /\ UNCHANGED <<shelfVars, pass, evidenceVars, setVars, counts, off>>

HoldChanges ==
  (PlaceHold \/ ReleaseHold) /\ UNCHANGED <<shelfVars, pass, evidenceVars, setVars, counts, off>>

\* The DELETE of an erasure by request or by hand, lawful when it was checked.
ErasedElsewhere ==
  /\ key # 0
  /\ key' = 0 /\ gone' = gone \cup {key} /\ off' = off \cup {key}
  /\ UNCHANGED <<made, lawVars, pc, sel, shelfVars, pass, evidenceVars, setVars, counts>>

-----------------------------------------------------------------------------
(* A sweep: plan_sweep, then SweepExecutor.execute.                         *)

\* The inventory: an item whose manifest cannot be read, or whose redaction manifest cannot,
\* is not in it, or not as one of the subject. Under a hold every item is planned as held and
\* nothing is done.
Plan(s) ==
  /\ pc[s] = "idle" /\ ~hold
  /\ \E seen \in SUBSET shelf :
       /\ due \cap seen # {}
       /\ Now(s, [NoPass EXCEPT !.plan = due \cap seen, !.keep = seen \ due, !.missed = shelf \ seen])
  /\ Goto(s, "sweep")
  /\ UNCHANGED <<rowVars, lawVars, sel, shelfVars, evidenceVars, setVars, counts, off>>

\* The receipt that shows the key is gone already: of this pass, or the item's own, a file
\* that is not read.
Earlier(s, i) ==
  IF pass[s].proof # NoItem THEN pass[s].proof ELSE IF i \in receipts THEN i ELSE NoItem

\* Mutant: the siblings that must keep the key are not looked for.
TakeAnyway(s, i) ==
  /\ pc[s] = "sweep" /\ i \in pass[s].plan
  /\ ~hold /\ key # 0
  /\ Now(s, [pass[s] EXCEPT !.plan = @ \ {i}, !.cur = i])
  /\ Goto(s, "select")
  /\ UNCHANGED <<rowVars, lawVars, sel, shelfVars, evidenceVars, setVars, counts, off>>

\* The hold check, the subject's key looked up, and the siblings that must keep it:
\* the item is passed over, recorded as shredded already, or its key erased.
Take(s, i) ==
  /\ pc[s] = "sweep" /\ i \in pass[s].plan
  /\ \/ /\ \/ hold
           \/ key = 0 /\ Earlier(s, i) = NoItem
           \/ key # 0 /\ pass[s].keep # {}
        /\ Now(s, [pass[s] EXCEPT !.plan = @ \ {i}])
        /\ UNCHANGED pc
     \/ /\ ~hold /\ key = 0 /\ Earlier(s, i) # NoItem
        /\ Now(s, [pass[s] EXCEPT !.plan = @ \ {i}, !.cur = i, !.cites = Earlier(s, i)])
        /\ Goto(s, "append")
     \/ /\ ~hold /\ key # 0 /\ pass[s].keep = {}
        /\ Now(s, [pass[s] EXCEPT !.plan = @ \ {i}, !.cur = i])
        /\ Goto(s, "select")
  /\ UNCHANGED <<rowVars, lawVars, sel, shelfVars, evidenceVars, setVars, counts, off>>

Shred(s) ==
  /\ Erase(s)
  /\ IF pc[s] = "destroy" THEN Now(s, [pass[s] EXCEPT !.took = key]) ELSE UNCHANGED pass
  /\ UNCHANGED <<shelfVars, evidenceVars, setVars, counts, off>>

\* No key, a hold, or too young: recorded, but not as a shred that was applied.
NotApplied(s) ==
  /\ pc[s] \in {"missing", "held", "deferred"}
  /\ Now(s, [pass[s] EXCEPT !.cur = NoItem])
  /\ Goto(s, "sweep")
  /\ UNCHANGED <<rowVars, lawVars, sel, shelfVars, evidenceVars, setVars, counts, off>>

\* Mutant: a receipt that cannot be written is ignored.
WriteNoReceipt(s) ==
  /\ pc[s] = "erased"
  /\ Now(s, [pass[s] EXCEPT !.proof = pass[s].cur, !.cites = pass[s].cur])
  /\ Goto(s, "append")
  /\ UNCHANGED <<rowVars, lawVars, sel, shelfVars, evidenceVars, setVars, counts, off>>

WriteReceipt(s) ==
  /\ pc[s] = "erased"
  /\ LET i == pass[s].cur
     IN /\ receipts' = receipts \cup {i} /\ torn' = torn \ {i}
        /\ shown' = [shown EXCEPT ![i] = @ \cup ({pass[s].took} \ {0})]
        /\ Now(s, [pass[s] EXCEPT !.proof = i, !.cites = i])
  /\ Goto(s, "append")
  /\ UNCHANGED <<rowVars, lawVars, sel, shelfVars, log, cut, aside, buried, setVars, counts, off>>

\* Mutant: a capsule is recorded once.
AppendOnce(s) ==
  /\ pc[s] = "append"
  /\ log' = IF \E rec \in log : rec[1] = pass[s].cur THEN log
            ELSE log \cup {<<pass[s].cur, pass[s].cites, shown[pass[s].cites]>>}
  /\ Now(s, [pass[s] EXCEPT !.cur = NoItem, !.cites = NoItem, !.took = 0])
  /\ Goto(s, "sweep")
  /\ UNCHANGED <<rowVars, lawVars, sel, shelfVars, receipts, torn, shown, cut, aside, buried, setVars, counts, off>>

Append(s) ==
  /\ pc[s] = "append"
  /\ log' = log \cup {<<pass[s].cur, pass[s].cites, shown[pass[s].cites]>>}
  /\ Now(s, [pass[s] EXCEPT !.cur = NoItem, !.cites = NoItem, !.took = 0])
  /\ Goto(s, "sweep")
  /\ UNCHANGED <<rowVars, lawVars, sel, shelfVars, receipts, torn, shown, cut, aside, buried, setVars, counts, off>>

\* The plan is done, or the limit of a pass is reached.
EndSweep(s) ==
  /\ pc[s] = "sweep"
  /\ Now(s, NoPass)
  /\ Goto(s, "idle")
  /\ UNCHANGED <<rowVars, lawVars, sel, shelfVars, evidenceVars, setVars, counts, off>>

\* write_text empties the file and then fills it: a receipt under way may be left cut off,
\* in place of a whole one too.
ReceiptLeft(s) ==
  \/ UNCHANGED <<receipts, torn>>
  \/ /\ pc[s] = "erased"
     /\ receipts' = receipts \cup {pass[s].cur} /\ torn' = torn \cup {pass[s].cur}

\* An exception in the action, a receipt that cannot be written included: the outcome
\* recorded is an error, and the sweep goes on.
ActionRaises(s) ==
  /\ pc[s] \in {"select", "check", "destroy", "erased"} /\ Fault
  /\ Quit(s, "sweep")
  /\ Now(s, [pass[s] EXCEPT !.cur = NoItem, !.took = 0])
  /\ off' = off \cup ({pass[s].took} \ {0})
  /\ ReceiptLeft(s)
  /\ UNCHANGED <<rowVars, aged, hold, shelfVars, shown, log, cut, aside, buried, setVars>>

\* The process dies; so does a sweep whose append raises. A line begun is left as it is.
Die(s) ==
  /\ pc[s] # "idle" /\ Fault
  /\ Quit(s, "idle")
  /\ Now(s, NoPass)
  /\ off' = off \cup ({pass[s].took} \ {0})
  /\ ReceiptLeft(s)
  /\ cut' \in IF pc[s] = "append" THEN {cut, TRUE} ELSE {cut}
  /\ UNCHANGED <<rowVars, aged, hold, shelfVars, shown, log, aside, buried, setVars>>

\* An append of any other process stops in the middle of its line.
AppendCutOff ==
  /\ ~cut /\ Fault /\ cut' = TRUE
  /\ UNCHANGED <<dekVars, shelfVars, pass, receipts, torn, shown, log, aside, buried, setVars, off>>

-----------------------------------------------------------------------------
(* create_backup, beside everything else that runs.                         *)

CopyCapsules ==
  /\ set.step \in {"none", "done"} /\ counts.backups < MaxBackups
  /\ set' = [NoSet EXCEPT !.step = "capsules", !.items = shelf]
  /\ counts' = [counts EXCEPT !.backups = @ + 1]
  /\ UNCHANGED <<dekVars, shelfVars, pass, evidenceVars, verdict, off>>

CopyKeys ==
  /\ set.step = "capsules"
  /\ set' = [set EXCEPT !.step = "keys", !.key = key]
  /\ UNCHANGED <<dekVars, shelfVars, pass, evidenceVars, verdict, counts, off>>

\* copyfile takes no lock: a line that is being written is copied as far as it has got.
CopyLog ==
  /\ set.step = "keys"
  /\ \E c \in {cut, TRUE} : set' = [set EXCEPT !.step = "done", !.log = log, !.cut = c]
  /\ UNCHANGED <<dekVars, shelfVars, pass, evidenceVars, verdict, counts, off>>

-----------------------------------------------------------------------------
(* restore_backup --force over the live home.                               *)

\* Mutant: only the restored log is read.
DecisionsRestored == set.log

\* _replay_crypto_shreds reads the restored log and the one just moved aside.
Decisions == log \cup set.log

\* A log that has records of applied shreds, of any subject, must verify as a chain: whether
\* the replay stops before its first record.
Unverified ==
  {stops \in BOOLEAN : /\ stops => cut \/ set.cut
                       /\ (cut /\ log # {}) \/ (set.cut /\ set.log # {}) => stops}

\* _resolve_subject: the record's own receipt, by its name, a file that parses.
Resolves(rec) == rec[1] = rec[2] /\ rec[1] \in receipts \ torn

\* Some record names the subject, and the restored store has a key of the subject.
Resurrected == set.key # 0 /\ \E rec \in Decisions : Resolves(rec)

\* The replay passes when every record resolved and no hold kept a key alive.
ReplayPasses == (\A rec \in Decisions : Resolves(rec)) /\ ~(Resurrected /\ hold)

Restore ==
  /\ set.step = "done" /\ counts.restores < MaxRestores
  /\ \A a \in Actor : pc[a] = "idle"
  /\ counts' = [counts EXCEPT !.restores = @ + 1]
  /\ \E stops \in Unverified :
       /\ verdict' = IF ReplayPasses /\ ~stops THEN "ok" ELSE "failed"
       /\ IF Resurrected /\ ~hold /\ ~stops
          THEN /\ key' = 0 /\ gone' = gone \cup {set.key}
               /\ off' = IF set.key \in gone THEN off ELSE off \cup {set.key}
          ELSE key' = set.key /\ UNCHANGED <<gone, off>>
  /\ shelf' = set.items
  /\ log' = set.log /\ cut' = set.cut
  /\ aside' = log /\ buried' = buried \cup aside
  /\ UNCHANGED <<made, lawVars, pc, sel, sealed, due, pass, receipts, torn, shown, set>>

-----------------------------------------------------------------------------
Sweep(s) ==
  \/ Plan(s) \/ Shred(s) \/ NotApplied(s) \/ WriteReceipt(s) \/ Append(s) \/ EndSweep(s)
  \/ \E i \in Item : Take(s, i)

Next ==
  \/ HoldChanges \/ ErasedElsewhere \/ \E k \in Key : WindowEnds(k)
  \/ \E i \in Item : Capture(i) \/ BecomesDue(i)
  \/ \E s \in Actor : Sweep(s) \/ ActionRaises(s) \/ Die(s)
  \/ AppendCutOff \/ CopyCapsules \/ CopyKeys \/ CopyLog \/ Restore

Spec == Init /\ [][Next]_vars

-----------------------------------------------------------------------------
(* Properties.                                                              *)

Record == Item \X Item \X (SUBSET Key)
Pass == [plan : SUBSET Item, keep : SUBSET Item, cur : Item \cup {NoItem},
         proof : Item \cup {NoItem}, cites : Item \cup {NoItem},
         took : 0 .. MaxKeys, missed : SUBSET Item]

TypeOK ==
  /\ DekTypeOK
  /\ pc \in [Actor -> {"idle", "sweep", "append", "select", "check", "destroy",
                       "missing", "held", "deferred", "erased"}]
  /\ shelf \subseteq Item /\ due \subseteq Item
  /\ sealed \in [Item -> 0 .. MaxKeys]
  /\ pass \in [Actor -> Pass]
  /\ receipts \subseteq Item /\ torn \subseteq receipts /\ cut \in BOOLEAN /\ shown \in [Item -> SUBSET Key]
  /\ log \subseteq Record /\ aside \subseteq Record /\ buried \subseteq Record
  /\ set \in [step : {"none", "capsules", "keys", "done"}, items : SUBSET Item,
              key : 0 .. MaxKeys, log : SUBSET Record, cut : BOOLEAN]
  /\ verdict \in {"none", "ok", "failed"}
  /\ counts \in [backups : 0 .. MaxBackups, restores : 0 .. MaxRestores, faults : 0 .. MaxFaults]
  /\ off \subseteq Key

KeysOf(records) == UNION {rec[3] : rec \in records}
Written == log \cup aside \cup buried \cup set.log
Restoring == counts.restores' # counts.restores

\* A key a sweep destroyed is on record somewhere, or about to be, unless a fault came
\* between its destruction and the record (actions.py:388-406, 150-158).
EveryShredIsRecorded ==
  \A k \in gone : k \in off \/ k \in KeysOf(Written) \/ \E s \in Actor : pass[s].took = k

\* A restore that reports success leaves a destroyed key alive only if no record of its
\* destruction was ever written, or the record is in a log that a restore before the last
\* one moved aside ("shredded stays shredded", restore.py:18-25 and 302-319).
RecordedShredsStay ==
  verdict = "ok" /\ key \in gone => key \in off \/ key \in KeysOf(buried)

\* A sweep destroys the key of a capsule that is not due only if its inventory lacks the
\* capsule: it could not be read when the inventory was taken, or was captured since
\* (actions.py:341-365, sweep.py:195-249).
SweepSparesRetained ==
  [][\A s \in Actor : pc[s] = "destroy" /\ pc'[s] = "erased" =>
       \A i \in shelf \ due : sealed[i] = key => i \in pass[s].missed]_vars

\* A restore over a live home fails its replay only under a hold, over a log with a line cut
\* off, or when a record cites the receipt of a sibling or one that was cut off
\* (actions.py:305-329, restore.py:627-731 and 1298-1324): what a record names is on disk
\* before it.
RestoreFailsForAReason ==
  [][Restoring /\ verdict' = "failed" =>
       \/ hold \/ cut \/ set.cut
       \/ \E rec \in Decisions : rec[1] # rec[2] \/ rec[2] \in torn]_vars

\* The runbook's promise (docs/ops/backup-restore.md:325-328), "Crypto-shred replay on
\* restore guarantees shredded subjects stay shredded regardless": as above, whichever
\* restore moved the record aside.
ShreddedSubjectsStay == verdict = "ok" /\ key \in gone => key \in off

\* Why, as an inductive invariant. A key's number is used once.
KeysAreNew == gone \subseteq 1 .. made /\ key <= made /\ set.key <= made

\* A receipt is on disk before anything cites it, and shows the key its sweep took.
ReceiptsFirst ==
  /\ \A rec \in log \cup set.log : rec[2] \in receipts
  /\ \A s \in Actor :
       /\ pass[s].proof \in receipts \cup {NoItem}
       /\ pc[s] \in {"select", "check", "destroy", "erased", "append"} => pass[s].cur \in Item
       /\ pc[s] = "append" => pass[s].cites \in receipts
       /\ pass[s].took # 0 => \/ pc[s] = "erased"
                              \/ pc[s] = "append" /\ pass[s].took \in shown[pass[s].cites]

\* What a set holds of the log is in a log as well.
SetFromLog == set.log \subseteq log \cup aside \cup buried

\* What a sweep must spare is in its inventory, or the inventory lacks it.
SparedOrMissed ==
  \A s \in Actor :
    /\ pc[s] # "idle" => shelf \ due \subseteq pass[s].keep \cup pass[s].missed
    /\ pc[s] \in {"select", "check", "destroy"} => pass[s].keep = {}

ShredInv ==
  /\ TypeOK /\ KeysAreNew /\ ReceiptsFirst /\ SetFromLog /\ SparedOrMissed
  /\ EveryShredIsRecorded /\ RecordedShredsStay
=============================================================================
