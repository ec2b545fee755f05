------------------------------ MODULE DekStore ------------------------------
(***************************************************************************)
(* src/src/novafabric/pii/dek/store.py: the data-encryption key of a data  *)
(* subject, in one row of dek.db that every process opens for itself.      *)
(* erase_subject selects the row, reads the holds and the row's age, and   *)
(* overwrites and deletes what is there then. The lock is per store object *)
(* and the select opens no write transaction (Python's sqlite3 begins one  *)
(* at the first update), so two processes interleave between these steps.  *)
(*                                                                         *)
(* One subject: rows of others are never touched. A key is a number, the   *)
(* order of its generation; 0 is the missing row. A component gives each   *)
(* actor its own values of pc before and after the steps of an erasure.    *)
(***************************************************************************)
EXTENDS Naturals

CONSTANTS
  Actor,    \* processes that may erase
  MaxKeys   \* bound: keys generated

ASSUME StoreAssumption == MaxKeys \in Nat

Key == 1 .. MaxKeys

VARIABLES
  key,     \* the row of dek.db; 0 = none
  made,    \* keys generated so far
  aged,    \* keys past their retention window
  hold,    \* a legal hold is in the ledger (or the ledger is damaged)
  pc,      \* actor: the erasure's steps select, check, destroy, or the component's
  sel,     \* actor: the key its select returned, until the erasure ends
  gone,    \* history: keys destroyed
  racing   \* history: actors past their check when the hold was placed

rowVars == <<key, made, gone>>
lawVars == <<aged, hold, racing>>
dekVars == <<rowVars, lawVars, pc, sel>>

DekInit ==
  /\ key = 0 /\ made = 0 /\ gone = {}
  /\ aged = {} /\ hold = FALSE /\ racing = {}
  /\ pc = [a \in Actor |-> "idle"]
  /\ sel = [a \in Actor |-> 0]

Goto(a, p) == pc' = [pc EXCEPT ![a] = p]

\* The erasure ends here: nothing of it is remembered.
Quit(a, p) == Goto(a, p) /\ sel' = [sel EXCEPT ![a] = 0] /\ racing' = racing \ {a}

-----------------------------------------------------------------------------
\* Mutant: INSERT OR REPLACE, the key in place is lost.
GetOrReplace ==
  /\ made < MaxKeys /\ key' = made + 1 /\ made' = made + 1
  /\ UNCHANGED <<gone, lawVars, pc, sel>>

\* A capture of the subject: INSERT OR IGNORE, then the row is read back.
GetOrCreate ==
  /\ IF key = 0
     THEN made < MaxKeys /\ key' = made + 1 /\ made' = made + 1
     ELSE UNCHANGED <<key, made>>
  /\ UNCHANGED <<gone, lawVars, pc, sel>>

\* The retention window of a key ends.
Age(k) ==
  /\ k \in 1 .. made \ aged
  /\ aged' = aged \cup {k}
  /\ UNCHANGED <<rowVars, hold, racing, pc, sel>>

PlaceHold ==
  /\ ~hold /\ hold' = TRUE
  /\ racing' = {a \in Actor : pc[a] = "destroy"}
  /\ UNCHANGED <<rowVars, aged, pc, sel>>

ReleaseHold ==
  /\ hold /\ hold' = FALSE
  /\ racing' = {}
  /\ UNCHANGED <<rowVars, aged, pc, sel>>

-----------------------------------------------------------------------------
(* erase_subject.                                                           *)

Select(a) ==
  /\ pc[a] = "select"
  /\ sel' = [sel EXCEPT ![a] = key]
  /\ Goto(a, IF key = 0 THEN "missing" ELSE "check")
  /\ UNCHANGED <<rowVars, lawVars>>

\* Mutant: the retention window is checked and the holds are not.
JudgedByAge(a) == IF sel[a] \notin aged THEN "deferred" ELSE "destroy"

\* What the check decides: holds first, then the age of the selected row.
Judged(a) == IF hold THEN "held" ELSE IF sel[a] \notin aged THEN "deferred" ELSE "destroy"

Check(a) ==
  /\ pc[a] = "check"
  /\ Goto(a, Judged(a))
  /\ sel' = IF Judged(a) = "destroy" THEN sel ELSE [sel EXCEPT ![a] = 0]
  /\ UNCHANGED <<rowVars, lawVars>>

\* UPDATE and DELETE by subject id, in one transaction, whichever key the row has now.
Destroy(a) ==
  /\ pc[a] = "destroy"
  /\ key' = 0
  /\ gone' = gone \cup ({key} \ {0})
  /\ Quit(a, "erased")
  /\ UNCHANGED <<made, aged, hold>>

Erase(a) == Select(a) \/ Check(a) \/ Destroy(a)

-----------------------------------------------------------------------------
DekTypeOK ==
  /\ key \in 0 .. MaxKeys /\ made \in 0 .. MaxKeys
  /\ aged \subseteq Key /\ gone \subseteq Key
  /\ hold \in BOOLEAN /\ racing \subseteq Actor
  /\ sel \in [Actor -> 0 .. MaxKeys]

\* While no restore brings a row back, the row holds the newest key, or none, and the others
\* are destroyed for good.
\* An actor about to delete has checked the key it selected.
DekInv ==
  /\ DekTypeOK
  /\ key # 0 => key = made
  /\ \A k \in Key : k \in gone <=> k <= made /\ k # key
  /\ \A a \in Actor :
       /\ sel[a] <= made
       /\ pc[a] = "destroy" => sel[a] \in aged /\ (hold => a \in racing)
=============================================================================
