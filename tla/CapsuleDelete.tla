--------------------------- MODULE CapsuleDelete ----------------------------
(***************************************************************************)
(* Governed deletion of capsules: src/src/novafabric/server/               *)
(* capsule_delete.py and its four callers (the single and the bulk route   *)
(* of server/routes/capsules.py, the dashboard of serve/app.py and the     *)
(* command line), with what runs beside them: uploads, list requests that  *)
(* reconcile the runs cache with the directory, legal holds.               *)
(*                                                                         *)
(* A copy is one upload of a run. Its bytes are in the store, in a         *)
(* tombstone (plain, plain and past the grace period, or marked            *)
(* inconsistent), or destroyed. Renames, SQLite and MetadataStore          *)
(* transactions are atomic; every one of them may fail, and a deleter may  *)
(* die between any two. WORM locks and seals never change while a delete   *)
(* runs and refuse like a hold; they are left out.                         *)
(***************************************************************************)
EXTENDS Integers, FiniteSets

CONSTANTS
  Run,         \* run ids
  UuidRun,     \* the run ids that are UUIDs
  MaxUploads,  \* bound: uploads of one run id
  Tenant,      \* tenants of the MetadataStore
  Deleter,     \* requests and commands that delete
  KindOf(_),   \* of a deleter: api, bulk, serve or cli
  TenantOf(_), \* of a deleter: its caller's tenant, or something else if it has none
  MaxFaults    \* bound: failed steps and deaths of deleters

ASSUME DeleteAssumption ==
  /\ UuidRun \subseteq Run
  /\ MaxUploads \in Nat
  /\ MaxFaults \in Nat
  /\ \A d \in Deleter : KindOf(d) \in {"api", "bulk", "serve", "cli"}

Copy == Run \X (1 .. MaxUploads)
Unknown(r) == <<r, 0>>   \* a deleter's job before it has taken a copy

VARIABLES
  place,       \* copy: absent, store, plain, old, marked, destroyed
  upload,      \* copy: none, published, registered, indexed
  row,         \* runs_cache: runs with a row
  meta,        \* MetadataStore: the rows
  unfinished,  \* audit log: runs with a failed delete and no later completed one
  hold,        \* an active legal hold, in any registry
  pc,          \* deleter: idle, checked, ready, tombed, cached, failing, marking,
               \*          restored, failed, purging, deleted
  job,         \* deleter: its run and the copy it has taken
  reaped,      \* history: copies destroyed by the reaper
  reported,    \* history: copies whose failed delete the audit log still records
  loose,       \* history: runs and tenants whose row a delete or reaper left unread
  racing,      \* history: deleters past their check when the hold was placed
  faults       \* history: failed steps and deaths so far

indexVars == <<row, meta, unfinished>>
histVars == <<reaped, reported, loose, racing>>
vars == <<place, upload, indexVars, hold, pc, job, histVars, faults>>

Init ==
  /\ place = [c \in Copy |-> "absent"]
  /\ upload = [c \in Copy |-> "none"]
  /\ row = {} /\ meta = {} /\ unfinished = {}
  /\ hold = FALSE
  /\ pc = [d \in Deleter |-> "idle"]
  /\ job = [d \in Deleter |-> << >>]
  /\ reaped = {} /\ reported = {} /\ loose = {} /\ racing = {}
  /\ faults = 0

\* A run is registered for the uploader's tenant under its UUID, or else under a random
\* one of this upload.
Row(c, t) == <<c[1], IF c[1] \in UuidRun THEN 0 ELSE c[2], t>>

Stored(r) == \E c \in Copy : c[1] = r /\ place[c] = "store"
Move(c, p) == place' = [place EXCEPT ![c] = p]
Goto(d, p) == pc' = [pc EXCEPT ![d] = p]
Fault == faults < MaxFaults /\ faults' = faults + 1
Governed(d) == KindOf(d) \in {"api", "bulk"} /\ TenantOf(d) \in Tenant \* passes the MetadataStore
AuditsFailure(d) == KindOf(d) \in {"api", "serve"}  \* writes capsule_delete_failed
AuditsSuccess(d) == KindOf(d) # "cli"               \* writes capsule_delete

\* The one row of a run that a delete or reaper of this caller looks up and drops.
OwnRow(d, r) == IF Governed(d) /\ r \in UuidRun THEN {<<r, 0, TenantOf(d)>>} ELSE {}
\* The tenants whose row of the copy it does not see, or does not see yet.
Unseen(d, c) == {c[1]} \X {t \in Tenant : upload[c] # "indexed" \/ ~Governed(d) \/ t # TenantOf(d)}

-----------------------------------------------------------------------------
(* Uploads and list requests.                                               *)

\* The archive is extracted, checked and renamed into the store. Then the upload
\* registers the run and indexes it, both at best.
Publish(c) ==
  /\ place[c] = "absent" /\ ~Stored(c[1])
  /\ \A g \in 1 .. c[2] - 1 : place[<<c[1], g>>] # "absent"
  /\ Move(c, "store")
  /\ upload' = [upload EXCEPT ![c] = "published"]
  /\ UNCHANGED <<indexVars, hold, pc, job, histVars, faults>>

Register(c) ==
  /\ upload[c] = "published"
  /\ upload' = [upload EXCEPT ![c] = "registered"]
  /\ \E t \in Tenant : meta' = meta \cup {Row(c, t)}
  /\ UNCHANGED <<place, row, unfinished, hold, pc, job, histVars, faults>>

Index(c) ==
  /\ upload[c] \in {"published", "registered"}
  /\ upload' = [upload EXCEPT ![c] = "indexed"]
  /\ row' = row \cup {c[1]}
  /\ UNCHANGED <<place, meta, unfinished, hold, pc, job, histVars, faults>>

\* sync_index: backfill the runs cache from the directory and prune the rest.
Reconciled == {r \in Run : Stored(r)}
List ==
  /\ row # Reconciled
  /\ row' = Reconciled
  /\ UNCHANGED <<place, upload, meta, unfinished, hold, pc, job, histVars, faults>>

PlaceHold ==
  /\ ~hold
  /\ hold' = TRUE
  /\ racing' = {d \in Deleter : pc[d] \in {"checked", "ready"}}
  /\ UNCHANGED <<place, upload, indexVars, pc, job, reaped, reported, loose, faults>>

ReleaseHold ==
  /\ hold
  /\ hold' = FALSE
  /\ racing' = {}
  /\ UNCHANGED <<place, upload, indexVars, pc, job, reaped, reported, loose, faults>>

-----------------------------------------------------------------------------
(* A delete: the caller's checks, then execute_delete.                      *)

\* Mutant: deletion does not look for holds.
NoHoldIgnored == TRUE
NoHold == ~hold

\* capsule_exists and check_deletable. Refusals change nothing.
Check(d, r) ==
  /\ pc[d] = "idle"
  /\ Stored(r)
  /\ NoHold
  /\ Goto(d, "checked")
  /\ job' = [job EXCEPT ![d] = Unknown(r)]
  /\ UNCHANGED <<place, upload, indexVars, hold, histVars, faults>>

\* Mutants: the reaper trusts the index alone, or the audit log alone.
ReapableUnaudited(d, c) ==
  place[c] = "old" /\ c[1] \notin row /\ OwnRow(d, c[1]) \cap meta = {}
ReapableUnindexed(d, c) == place[c] = "old" /\ c[1] \notin unfinished
\* Mutant: the reaper does not wait for the grace period.
ReapableYoung(d, c) ==
  /\ place[c] \in {"plain", "old"} /\ c[1] \notin unfinished
  /\ c[1] \notin row /\ OwnRow(d, c[1]) \cap meta = {}

\* reap_tombstones: an old plain tombstone that neither the audit log nor an index the
\* caller can read still claims.
Reapable(d, c) ==
  /\ place[c] = "old"
  /\ c[1] \notin unfinished
  /\ c[1] \notin row
  /\ OwnRow(d, c[1]) \cap meta = {}

Reap(d, c) ==
  /\ pc[d] = "checked"
  /\ Reapable(d, c)
  /\ Move(c, "destroyed")
  /\ reaped' = reaped \cup {c}
  /\ loose' = loose \cup Unseen(d, c)
  /\ UNCHANGED <<upload, indexVars, hold, pc, job, reported, racing, faults>>

\* The reaper is done (an rmtree that fails leaves its entry); an earlier delete of the
\* run whose rollback failed refuses this one.
EndReap(d) ==
  /\ pc[d] = "checked"
  /\ Goto(d, IF \E c \in Copy : c[1] = job[d][1] /\ place[c] = "marked" THEN "failed" ELSE "ready")
  /\ UNCHANGED <<place, upload, indexVars, hold, job, histVars, faults>>

\* Rename the capsule into a tombstone of this delete.
Tombstone(d) ==
  /\ pc[d] = "ready"
  /\ \E c \in Copy :
       /\ c[1] = job[d][1] /\ place[c] = "store"
       /\ Move(c, "plain")
       /\ job' = [job EXCEPT ![d] = c]
  /\ Goto(d, "tombed")
  /\ UNCHANGED <<upload, indexVars, hold, histVars, faults>>

\* The rename fails because another delete was first.
TombstoneGone(d) ==
  /\ pc[d] = "ready"
  /\ ~Stored(job[d][1])
  /\ Goto(d, "failed")
  /\ UNCHANGED <<place, upload, indexVars, hold, job, histVars, faults>>

RemoveRow(d) ==
  /\ pc[d] = "tombed"
  /\ row' = row \ {job[d][1]}
  /\ Goto(d, "cached")
  /\ UNCHANGED <<place, upload, meta, unfinished, hold, job, histVars, faults>>

RemoveMeta(d) ==
  /\ pc[d] = "cached"
  /\ meta' = meta \ OwnRow(d, job[d][1])
  /\ loose' = loose \cup Unseen(d, job[d])
  /\ Goto(d, "purging")
  /\ UNCHANGED <<place, upload, row, unfinished, hold, job, reaped, reported, racing, faults>>

Purge(d) ==
  /\ pc[d] = "purging"
  /\ Move(job[d], "destroyed")
  /\ Goto(d, "deleted")
  /\ UNCHANGED <<upload, indexVars, hold, job, histVars, faults>>

\* A step of the delete fails: before the tombstone nothing has happened; an index step
\* starts the rollback; a failed purge leaves a residue.
StepFails(d) ==
  /\ Fault
  /\ \/ pc[d] = "ready" /\ Goto(d, "failed")
     \/ pc[d] = "tombed" /\ Goto(d, "failing")
     \/ pc[d] = "cached" /\ OwnRow(d, job[d][1]) # {} /\ Goto(d, "failing")
     \/ pc[d] = "purging" /\ Goto(d, "deleted")
  /\ UNCHANGED <<place, upload, indexVars, hold, job, histVars>>

\* Mark the tombstone so that no reaper takes it, then try to rename it back.
Mark(d) ==
  /\ pc[d] = "failing"
  /\ Move(job[d], "marked")
  /\ Goto(d, "marking")
  /\ UNCHANGED <<upload, indexVars, hold, job, histVars, faults>>

\* A rename does not replace a capsule that was uploaded meanwhile.
RollBack(d) ==
  /\ pc[d] = "marking"
  /\ IF Stored(job[d][1])
     THEN UNCHANGED place /\ Goto(d, "failed")
     ELSE Move(job[d], "store") /\ Goto(d, "restored")
  /\ UNCHANGED <<upload, indexVars, hold, job, histVars, faults>>

\* sync_index after a rollback.
Resync(d) ==
  /\ pc[d] = "restored"
  /\ row' = Reconciled
  /\ Goto(d, "failed")
  /\ UNCHANGED <<place, upload, meta, unfinished, hold, job, histVars, faults>>

RollbackStepFails(d) ==
  /\ Fault
  /\ \/ pc[d] = "failing" /\ Goto(d, "marking")
     \/ pc[d] \in {"marking", "restored"} /\ Goto(d, "failed")
  /\ UNCHANGED <<place, upload, indexVars, hold, job, histVars>>

EndDelete(d) == Goto(d, "idle") /\ job' = [job EXCEPT ![d] = << >>]

\* The caller records the outcome, if it is one that does.
AuditFailed(d) ==
  /\ pc[d] = "failed"
  /\ IF AuditsFailure(d)
     THEN /\ unfinished' = unfinished \cup {job[d][1]}
          /\ reported' = reported \cup ({job[d]} \cap Copy)
     ELSE UNCHANGED <<unfinished, reported>>
  /\ EndDelete(d)
  /\ UNCHANGED <<place, upload, row, meta, hold, reaped, loose, racing, faults>>

AuditDeleted(d) ==
  /\ pc[d] = "deleted"
  /\ IF AuditsSuccess(d)
     THEN /\ unfinished' = unfinished \ {job[d][1]}
          /\ reported' = {c \in reported : c[1] # job[d][1]}
     ELSE UNCHANGED <<unfinished, reported>>
  /\ EndDelete(d)
  /\ UNCHANGED <<place, upload, row, meta, hold, reaped, loose, racing, faults>>

Die(d) ==
  /\ pc[d] # "idle"
  /\ Fault
  /\ EndDelete(d)
  /\ UNCHANGED <<place, upload, indexVars, hold, histVars>>

\* An hour passes; no delete takes that long.
Age(c) ==
  /\ place[c] = "plain"
  /\ \A d \in Deleter : job[d] # c
  /\ Move(c, "old")
  /\ UNCHANGED <<upload, indexVars, hold, pc, job, histVars, faults>>

\* An operator renames a marked tombstone back.
Restore(c) ==
  /\ place[c] = "marked" /\ ~Stored(c[1])
  /\ \A d \in Deleter : job[d] # c
  /\ Move(c, "store")
  /\ UNCHANGED <<upload, indexVars, hold, pc, job, histVars, faults>>

DeleteStep(d) ==
  \/ EndReap(d) \/ Tombstone(d) \/ TombstoneGone(d) \/ RemoveRow(d) \/ RemoveMeta(d) \/ Purge(d)
  \/ Mark(d) \/ RollBack(d) \/ Resync(d) \/ AuditFailed(d) \/ AuditDeleted(d)
FaultStep(d) == StepFails(d) \/ RollbackStepFails(d) \/ Die(d)

Next ==
  \/ \E c \in Copy : Publish(c) \/ Register(c) \/ Index(c) \/ Age(c) \/ Restore(c)
  \/ List \/ PlaceHold \/ ReleaseHold
  \/ \E d \in Deleter : DeleteStep(d) \/ FaultStep(d)
  \/ \E d \in Deleter, r \in Run : Check(d, r)
  \/ \E d \in Deleter, c \in Copy : Reap(d, c)

Spec == Init /\ [][Next]_vars

-----------------------------------------------------------------------------
Taken == {"tombed", "cached", "failing", "marking", "restored", "purging", "deleted"}
Bytes == {"store", "plain", "old", "marked"}

TypeOK ==
  /\ place \in [Copy -> {"absent", "store", "plain", "old", "marked", "destroyed"}]
  /\ upload \in [Copy -> {"none", "published", "registered", "indexed"}]
  /\ row \subseteq Run /\ meta \subseteq Run \X (0 .. MaxUploads) \X Tenant /\ unfinished \subseteq Run
  /\ hold \in BOOLEAN
  /\ pc \in [Deleter -> {"idle", "checked", "ready", "failed"} \cup Taken]
  /\ job \in [Deleter -> {<< >>} \cup (Run \X (0 .. MaxUploads))]
  /\ \A d \in Deleter :
       \/ pc[d] = "idle" /\ job[d] = << >>
       \/ pc[d] \in {"checked", "ready", "failed"} /\ \E r \in Run : job[d] = Unknown(r)
       \/ pc[d] \in Taken \cup {"failed"} /\ job[d] \in Copy
  /\ reaped \subseteq Copy /\ reported \subseteq Copy /\ loose \subseteq Run \X Tenant
  /\ racing \subseteq Deleter
  /\ faults \in 0 .. MaxFaults

\* The bytes a running delete may still have to restore are where it left them: neither
\* the reaper of another worker nor another delete takes them (capsule_delete.py:339-343).
DeleteOwnsItsBytes ==
  \A d \in Deleter :
    /\ pc[d] \in {"tombed", "cached", "failing", "purging"} => place[job[d]] = "plain"
    /\ pc[d] = "marking" => place[job[d]] \in {"plain", "marked"}

\* A capsule whose delete was reported as failed in the audit log is never destroyed by
\* the reaper, whatever list requests do to the index, until a later delete of the run id
\* completes (capsule_delete.py:345-350).
FailedDeleteKeepsBytes == reaped \cap reported = {}

\* The MetadataStore row of a UUID run never outlives the capsule's bytes, even when a
\* delete dies at any step and its residue is reaped by another caller: only a row no
\* purge or reap has looked up is left, one of another tenant than its caller's or of an
\* upload still registering the run (capsule_delete.py:341-343, 398-403).
MetaRowHasBytes ==
  \A r \in UuidRun, t \in Tenant :
    <<r, 0, t>> \in meta /\ <<r, t>> \notin loose =>
      \E c \in Copy : c[1] = r /\ place[c] \in Bytes

\* Only a delete that had passed its check when the hold was placed still takes a capsule
\* from the store under the hold (capsule_delete.py:223-232).
HoldStopsLaterDeletes ==
  [][\A c \in Copy : place[c] = "store" /\ place'[c] = "plain" /\ hold =>
       \E d \in racing : job'[d] = c]_vars

\* Why, as an inductive invariant. A tombstone has one delete that may still move it; a
\* copy some delete has taken does not age, so no reaper has it.
Moving == {"tombed", "cached", "failing", "marking", "purging"}

OneMover ==
  \A d, e \in Deleter : pc[d] \in Moving /\ pc[e] \in Moving /\ job[d] = job[e] => d = e

TakenIsYoung ==
  /\ \A d \in Deleter : job[d] \in Copy => place[job[d]] # "old" /\ job[d] \notin reaped
  /\ \A c \in reaped : place[c] = "destroyed"

\* A reported copy still has its audit entry.
ReportedOnRecord == \A c \in reported : c[1] \in unfinished

\* A copy with bytes that no delete is about to purge.
Safe(c) == place[c] \in Bytes /\ \A d \in Deleter : pc[d] = "purging" => job[d] # c

\* A row has such a copy, and so has an upload that may still register one.
MetaRowKeepsBytes ==
  /\ \A r \in UuidRun, t \in Tenant :
       <<r, 0, t>> \in meta /\ <<r, t>> \notin loose => \E c \in Copy : c[1] = r /\ Safe(c)
  /\ \A c \in Copy, t \in Tenant :
       upload[c] \in {"published", "registered"} /\ <<c[1], t>> \notin loose => Safe(c)

RacersArePast == hold => \A d \in Deleter : pc[d] \in {"checked", "ready"} => d \in racing

DeleteInv ==
  /\ TypeOK /\ DeleteOwnsItsBytes /\ OneMover /\ TakenIsYoung
  /\ ReportedOnRecord /\ FailedDeleteKeepsBytes /\ MetaRowKeepsBytes /\ RacersArePast
=============================================================================
