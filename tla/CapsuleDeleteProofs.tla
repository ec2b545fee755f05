------------------------- MODULE CapsuleDeleteProofs ------------------------
(***************************************************************************)
(* Proofs about deletion, for any runs, uploads, deleters and kinds of     *)
(* callers, and any pattern of failed steps and deaths: the parts of       *)
(* DeleteInv, one lemma each.                                              *)
(***************************************************************************)
EXTENDS CapsuleDelete, TLAPS

\* The state has its types after every step.
LEMMA TypeStep ==
  ASSUME TypeOK, [Next]_vars
  PROVE  TypeOK'
<1> USE DeleteAssumption DEF TypeOK, Copy, Unknown, Taken, Move, Goto, EndDelete, Fault, indexVars, histVars
<1>1. ASSUME NEW c \in Copy, Publish(c) PROVE TypeOK'
  BY <1>1 DEF Publish
<1>2. ASSUME NEW c \in Copy, Register(c) PROVE TypeOK'
  BY <1>2 DEF Register, Row
<1>3. ASSUME NEW c \in Copy, Index(c) PROVE TypeOK'
  BY <1>3 DEF Index
<1>4. ASSUME NEW c \in Copy, Age(c) PROVE TypeOK'
  BY <1>4 DEF Age
<1>5. ASSUME NEW c \in Copy, Restore(c) PROVE TypeOK'
  BY <1>5 DEF Restore
<1>6. CASE List \/ PlaceHold \/ ReleaseHold
  <2>1. CASE List
    BY <2>1 DEF List, Reconciled
  <2>2. CASE PlaceHold
    BY <2>2 DEF PlaceHold
  <2>3. CASE ReleaseHold
    BY <2>3 DEF ReleaseHold
  <2> QED
    BY <1>6, <2>1, <2>2, <2>3
<1>7. ASSUME NEW d \in Deleter, NEW r \in Run, Check(d, r) PROVE TypeOK'
  BY <1>7 DEF Check
<1>8. ASSUME NEW d \in Deleter, NEW c \in Copy, Reap(d, c) PROVE TypeOK'
  BY <1>8 DEF Reap, Unseen
<1>9. ASSUME NEW d \in Deleter, EndReap(d) \/ TombstoneGone(d) \/ RemoveRow(d) \/ RemoveMeta(d) \/ Purge(d) PROVE TypeOK'
  <2>1. CASE EndReap(d)
    BY <2>1 DEF EndReap
  <2>2. CASE TombstoneGone(d)
    BY <2>2 DEF TombstoneGone
  <2>3. CASE RemoveRow(d)
    BY <2>3 DEF RemoveRow
  <2>4. CASE RemoveMeta(d)
    BY <2>4 DEF RemoveMeta, OwnRow, Unseen
  <2>5. CASE Purge(d)
    BY <2>5 DEF Purge
  <2> QED
    BY <1>9, <2>1, <2>2, <2>3, <2>4, <2>5
<1>10. ASSUME NEW d \in Deleter, Tombstone(d) PROVE TypeOK'
  BY <1>10 DEF Tombstone
<1>11. ASSUME NEW d \in Deleter, Mark(d) PROVE TypeOK'
  BY <1>11 DEF Mark
<1>12. ASSUME NEW d \in Deleter, RollBack(d) PROVE TypeOK'
  <2>1. CASE Stored(job[d][1])
    BY <1>12, <2>1 DEF RollBack
  <2>2. CASE ~Stored(job[d][1])
    <3>1. job[d] \in Copy /\ Move(job[d], "store") /\ Goto(d, "restored")
      BY <1>12, <2>2 DEF RollBack
    <3> QED
      BY <1>12, <3>1 DEF RollBack
  <2> QED
    BY <2>1, <2>2
<1>13. ASSUME NEW d \in Deleter, Resync(d) PROVE TypeOK'
  BY <1>13 DEF Resync, Reconciled
<1>14. ASSUME NEW d \in Deleter, AuditFailed(d) PROVE TypeOK'
  BY <1>14 DEF AuditFailed
<1>15. ASSUME NEW d \in Deleter, AuditDeleted(d) PROVE TypeOK'
  BY <1>15 DEF AuditDeleted
<1>16. ASSUME NEW d \in Deleter, StepFails(d) PROVE TypeOK'
  <2>1. PICK p \in {"failed", "failing", "deleted"} :
          Goto(d, p) /\ (p = "failed" => pc[d] = "ready") /\ (p # "failed" => pc[d] \in Taken)
    BY <1>16 DEF StepFails
  <2> QED
    BY <1>16, <2>1 DEF StepFails
<1>17. ASSUME NEW d \in Deleter, RollbackStepFails(d) PROVE TypeOK'
  <2>1. PICK p \in {"failed", "marking"} : Goto(d, p) /\ pc[d] \in Taken
    BY <1>17 DEF RollbackStepFails
  <2> QED
    BY <1>17, <2>1 DEF RollbackStepFails
<1>18. ASSUME NEW d \in Deleter, Die(d) PROVE TypeOK'
  BY <1>18 DEF Die
<1>19. CASE UNCHANGED vars
  BY <1>19 DEF vars
<1> QED
  BY <1>1, <1>2, <1>3, <1>4, <1>5, <1>6, <1>7, <1>8, <1>9, <1>10, <1>11, <1>12, <1>13, <1>14, <1>15, <1>16, <1>17, <1>18, <1>19
  DEF Next, DeleteStep, FaultStep

\* A delete that has not taken a copy yet names none.
LEMMA NoCopyYet ==
  /\ \A r \in Run : Unknown(r) \notin Copy
  /\ << >> \notin Copy
BY DEF Unknown, Copy

\* Only Tombstone gives a delete a copy, and it takes it from the store; the copy of a
\* delete that is still to move it is in a tombstone, so no second delete gets it.
LEMMA OwnershipStep ==
  ASSUME TypeOK, DeleteOwnsItsBytes, OneMover, [Next]_vars
  PROVE  (DeleteOwnsItsBytes /\ OneMover)'
<1> USE DEF TypeOK, Taken, Move, Goto, EndDelete, indexVars, histVars, DeleteOwnsItsBytes, OneMover, Moving
<1>1. ASSUME NEW c \in Copy, Publish(c) PROVE (DeleteOwnsItsBytes /\ OneMover)'
  BY <1>1 DEF Publish
<1>2. ASSUME NEW c \in Copy, Register(c) \/ Index(c) PROVE (DeleteOwnsItsBytes /\ OneMover)'
  BY <1>2 DEF Register, Index
<1>3. ASSUME NEW c \in Copy, Age(c) PROVE (DeleteOwnsItsBytes /\ OneMover)'
  BY <1>3 DEF Age
<1>4. ASSUME NEW c \in Copy, Restore(c) PROVE (DeleteOwnsItsBytes /\ OneMover)'
  BY <1>4 DEF Restore
<1>5. CASE List \/ PlaceHold \/ ReleaseHold
  BY <1>5 DEF List, PlaceHold, ReleaseHold
<1>6. ASSUME NEW d \in Deleter, NEW r \in Run, Check(d, r) PROVE (DeleteOwnsItsBytes /\ OneMover)'
  BY <1>6 DEF Check
<1>7. ASSUME NEW d \in Deleter, NEW c \in Copy, Reap(d, c) PROVE (DeleteOwnsItsBytes /\ OneMover)'
  BY <1>7 DEF Reap, Reapable
<1>8. ASSUME NEW d \in Deleter, EndReap(d) \/ TombstoneGone(d) PROVE (DeleteOwnsItsBytes /\ OneMover)'
  BY <1>8 DEF EndReap, TombstoneGone
<1>9. ASSUME NEW d \in Deleter, RemoveRow(d) \/ RemoveMeta(d) PROVE (DeleteOwnsItsBytes /\ OneMover)'
  <2>1. CASE RemoveRow(d)
    BY <2>1 DEF RemoveRow
  <2>2. CASE RemoveMeta(d)
    BY <2>2 DEF RemoveMeta
  <2> QED
    BY <1>9, <2>1, <2>2
<1>10. ASSUME NEW d \in Deleter, Tombstone(d) PROVE (DeleteOwnsItsBytes /\ OneMover)'
  BY <1>10 DEF Tombstone
<1>11. ASSUME NEW d \in Deleter, Purge(d) PROVE (DeleteOwnsItsBytes /\ OneMover)'
  BY <1>11 DEF Purge
<1>12. ASSUME NEW d \in Deleter, Mark(d) PROVE (DeleteOwnsItsBytes /\ OneMover)'
  BY <1>12 DEF Mark
<1>13. ASSUME NEW d \in Deleter, RollBack(d) PROVE (DeleteOwnsItsBytes /\ OneMover)'
  BY <1>13 DEF RollBack
<1>14. ASSUME NEW d \in Deleter, Resync(d) PROVE (DeleteOwnsItsBytes /\ OneMover)'
  BY <1>14 DEF Resync
<1>15. ASSUME NEW d \in Deleter, AuditFailed(d) \/ AuditDeleted(d) \/ Die(d) PROVE (DeleteOwnsItsBytes /\ OneMover)'
  BY <1>15 DEF AuditFailed, AuditDeleted, Die
<1>16. ASSUME NEW d \in Deleter, StepFails(d) PROVE (DeleteOwnsItsBytes /\ OneMover)'
  BY <1>16 DEF StepFails
<1>17. ASSUME NEW d \in Deleter, RollbackStepFails(d) PROVE (DeleteOwnsItsBytes /\ OneMover)'
  BY <1>17 DEF RollbackStepFails
<1>18. CASE UNCHANGED vars
  BY <1>18 DEF vars
<1> QED
  BY <1>1, <1>2, <1>3, <1>4, <1>5, <1>6, <1>7, <1>8, <1>9, <1>10, <1>11, <1>12, <1>13, <1>14, <1>15, <1>16, <1>17, <1>18
  DEF Next, DeleteStep, FaultStep

\* A copy a delete has taken does not age, so the reaper takes none of them.
LEMMA YoungStep ==
  ASSUME TypeOK, DeleteOwnsItsBytes, OneMover, TakenIsYoung, [Next]_vars
  PROVE  TakenIsYoung'
<1> USE NoCopyYet DEF TypeOK, Taken, Move, Goto, EndDelete, indexVars, histVars, DeleteOwnsItsBytes, OneMover, Moving, TakenIsYoung
<1>1. ASSUME NEW c \in Copy, Publish(c) PROVE TakenIsYoung'
  BY <1>1 DEF Publish
<1>2. ASSUME NEW c \in Copy, Register(c) \/ Index(c) PROVE TakenIsYoung'
  BY <1>2 DEF Register, Index
<1>3. ASSUME NEW c \in Copy, Age(c) PROVE TakenIsYoung'
  BY <1>3 DEF Age
<1>4. ASSUME NEW c \in Copy, Restore(c) PROVE TakenIsYoung'
  BY <1>4 DEF Restore
<1>5. CASE List \/ PlaceHold \/ ReleaseHold
  BY <1>5 DEF List, PlaceHold, ReleaseHold
<1>6. ASSUME NEW d \in Deleter, NEW r \in Run, Check(d, r) PROVE TakenIsYoung'
  BY <1>6 DEF Check
<1>7. ASSUME NEW d \in Deleter, NEW c \in Copy, Reap(d, c) PROVE TakenIsYoung'
  BY <1>7 DEF Reap, Reapable
<1>8. ASSUME NEW d \in Deleter, EndReap(d) \/ TombstoneGone(d) PROVE TakenIsYoung'
  BY <1>8 DEF EndReap, TombstoneGone
<1>9. ASSUME NEW d \in Deleter, RemoveRow(d) \/ RemoveMeta(d) PROVE TakenIsYoung'
  BY <1>9 DEF RemoveRow, RemoveMeta
<1>10. ASSUME NEW d \in Deleter, Tombstone(d) PROVE TakenIsYoung'
  BY <1>10 DEF Tombstone
<1>11. ASSUME NEW d \in Deleter, Purge(d) PROVE TakenIsYoung'
  BY <1>11 DEF Purge
<1>12. ASSUME NEW d \in Deleter, Mark(d) PROVE TakenIsYoung'
  BY <1>12 DEF Mark
<1>13. ASSUME NEW d \in Deleter, RollBack(d) PROVE TakenIsYoung'
  BY <1>13 DEF RollBack
<1>14. ASSUME NEW d \in Deleter, Resync(d) PROVE TakenIsYoung'
  BY <1>14 DEF Resync
<1>15. ASSUME NEW d \in Deleter, AuditFailed(d) \/ AuditDeleted(d) \/ Die(d) PROVE TakenIsYoung'
  BY <1>15 DEF AuditFailed, AuditDeleted, Die
<1>16. ASSUME NEW d \in Deleter, StepFails(d) PROVE TakenIsYoung'
  BY <1>16 DEF StepFails
<1>17. ASSUME NEW d \in Deleter, RollbackStepFails(d) PROVE TakenIsYoung'
  BY <1>17 DEF RollbackStepFails
<1>18. CASE UNCHANGED vars
  BY <1>18 DEF vars
<1> QED
  BY <1>1, <1>2, <1>3, <1>4, <1>5, <1>6, <1>7, <1>8, <1>9, <1>10, <1>11, <1>12, <1>13, <1>14, <1>15, <1>16, <1>17, <1>18
  DEF Next, DeleteStep, FaultStep

\* A failed delete enters the audit log as it is reported; the reaper destroys no copy of a
\* run the log still has, and a copy it has destroyed is never one that a delete reports.
LEMMA RecordStep ==
  ASSUME TypeOK, DeleteOwnsItsBytes, TakenIsYoung, ReportedOnRecord, FailedDeleteKeepsBytes, [Next]_vars
  PROVE  (ReportedOnRecord /\ FailedDeleteKeepsBytes)'
<1> USE NoCopyYet DEF TypeOK, Taken, Move, Goto, EndDelete, indexVars, histVars, TakenIsYoung, ReportedOnRecord, FailedDeleteKeepsBytes
<1>1. ASSUME NEW c \in Copy, Publish(c) PROVE (ReportedOnRecord /\ FailedDeleteKeepsBytes)'
  BY <1>1 DEF Publish
<1>2. ASSUME NEW c \in Copy, Register(c) PROVE (ReportedOnRecord /\ FailedDeleteKeepsBytes)'
  BY <1>2 DEF Register
<1>3. ASSUME NEW c \in Copy, Index(c) PROVE (ReportedOnRecord /\ FailedDeleteKeepsBytes)'
  BY <1>3 DEF Index
<1>4. ASSUME NEW c \in Copy, Age(c) PROVE (ReportedOnRecord /\ FailedDeleteKeepsBytes)'
  BY <1>4 DEF Age
<1>5. ASSUME NEW c \in Copy, Restore(c) PROVE (ReportedOnRecord /\ FailedDeleteKeepsBytes)'
  BY <1>5 DEF Restore
<1>6. CASE List \/ PlaceHold \/ ReleaseHold
  BY <1>6 DEF List, PlaceHold, ReleaseHold
<1>7. ASSUME NEW d \in Deleter, NEW r \in Run, Check(d, r) PROVE (ReportedOnRecord /\ FailedDeleteKeepsBytes)'
  BY <1>7 DEF Check
<1>8. ASSUME NEW d \in Deleter, NEW c \in Copy, Reap(d, c) PROVE (ReportedOnRecord /\ FailedDeleteKeepsBytes)'
  BY <1>8 DEF Reap, Reapable
<1>9. ASSUME NEW d \in Deleter, EndReap(d) \/ TombstoneGone(d) PROVE (ReportedOnRecord /\ FailedDeleteKeepsBytes)'
  BY <1>9 DEF EndReap, TombstoneGone
<1>10. ASSUME NEW d \in Deleter, RemoveRow(d) PROVE (ReportedOnRecord /\ FailedDeleteKeepsBytes)'
  BY <1>10 DEF RemoveRow
<1>11. ASSUME NEW d \in Deleter, RemoveMeta(d) PROVE (ReportedOnRecord /\ FailedDeleteKeepsBytes)'
  BY <1>11 DEF RemoveMeta
<1>12. ASSUME NEW d \in Deleter, Tombstone(d) PROVE (ReportedOnRecord /\ FailedDeleteKeepsBytes)'
  BY <1>12 DEF Tombstone
<1>13. ASSUME NEW d \in Deleter, Purge(d) PROVE (ReportedOnRecord /\ FailedDeleteKeepsBytes)'
  BY <1>13 DEF Purge
<1>14. ASSUME NEW d \in Deleter, Mark(d) PROVE (ReportedOnRecord /\ FailedDeleteKeepsBytes)'
  BY <1>14 DEF Mark
<1>15. ASSUME NEW d \in Deleter, RollBack(d) PROVE (ReportedOnRecord /\ FailedDeleteKeepsBytes)'
  BY <1>15 DEF RollBack
<1>16. ASSUME NEW d \in Deleter, Resync(d) PROVE (ReportedOnRecord /\ FailedDeleteKeepsBytes)'
  BY <1>16 DEF Resync
<1>17. ASSUME NEW d \in Deleter, AuditFailed(d) PROVE (ReportedOnRecord /\ FailedDeleteKeepsBytes)'
  BY <1>17 DEF AuditFailed
<1>18. ASSUME NEW d \in Deleter, AuditDeleted(d) PROVE (ReportedOnRecord /\ FailedDeleteKeepsBytes)'
  BY <1>18 DEF AuditDeleted
<1>19. ASSUME NEW d \in Deleter, Die(d) PROVE (ReportedOnRecord /\ FailedDeleteKeepsBytes)'
  BY <1>19 DEF Die
<1>20. ASSUME NEW d \in Deleter, StepFails(d) PROVE (ReportedOnRecord /\ FailedDeleteKeepsBytes)'
  BY <1>20 DEF StepFails
<1>21. ASSUME NEW d \in Deleter, RollbackStepFails(d) PROVE (ReportedOnRecord /\ FailedDeleteKeepsBytes)'
  BY <1>21 DEF RollbackStepFails
<1>22. CASE UNCHANGED vars
  BY <1>22 DEF vars
<1> QED
  BY <1>1, <1>2, <1>3, <1>4, <1>5, <1>6, <1>7, <1>8, <1>9, <1>10, <1>11, <1>12, <1>13, <1>14, <1>15, <1>16, <1>17, <1>18, <1>19, <1>20, <1>21, <1>22
  DEF Next, DeleteStep, FaultStep

\* A delete drops its own tenant's row before it purges, the reaper spares a run that has
\* one; the rows of others, and of an upload that is not done, are loose from then on.
LEMMA MetaRowStep ==
  ASSUME TypeOK, DeleteOwnsItsBytes, OneMover, TakenIsYoung, MetaRowKeepsBytes, [Next]_vars
  PROVE  MetaRowKeepsBytes'
<1> USE DEF TypeOK, Taken, Move, Goto, EndDelete, indexVars, histVars, DeleteOwnsItsBytes, OneMover, Moving, Bytes, MetaRowKeepsBytes, Safe, Row, OwnRow, Unseen, Governed
<1>1. ASSUME NEW c \in Copy, Publish(c) PROVE MetaRowKeepsBytes'
  BY <1>1 DEF Publish
<1>2. ASSUME NEW c \in Copy, Register(c) PROVE MetaRowKeepsBytes'
  BY <1>2 DEF Register
<1>3. ASSUME NEW c \in Copy, Index(c) PROVE MetaRowKeepsBytes'
  BY <1>3 DEF Index
<1>4. ASSUME NEW c \in Copy, Age(c) PROVE MetaRowKeepsBytes'
  BY <1>4 DEF Age
<1>5. ASSUME NEW c \in Copy, Restore(c) PROVE MetaRowKeepsBytes'
  BY <1>5 DEF Restore
<1>6. CASE List \/ PlaceHold \/ ReleaseHold
  BY <1>6 DEF List, PlaceHold, ReleaseHold
<1>7. ASSUME NEW d \in Deleter, NEW r \in Run, Check(d, r) PROVE MetaRowKeepsBytes'
  BY <1>7 DEF Check
<1>8. ASSUME NEW d \in Deleter, NEW c \in Copy, Reap(d, c) PROVE MetaRowKeepsBytes'
  BY <1>8 DEF Reap, Reapable
<1>9. ASSUME NEW d \in Deleter, EndReap(d) \/ TombstoneGone(d) PROVE MetaRowKeepsBytes'
  BY <1>9 DEF EndReap, TombstoneGone
<1>10. ASSUME NEW d \in Deleter, RemoveRow(d) PROVE MetaRowKeepsBytes'
  BY <1>10 DEF RemoveRow
<1>11. ASSUME NEW d \in Deleter, RemoveMeta(d) PROVE MetaRowKeepsBytes'
  BY <1>11 DEF RemoveMeta
<1>12. ASSUME NEW d \in Deleter, Tombstone(d) PROVE MetaRowKeepsBytes'
  <2>1. ASSUME NEW c \in Copy, Safe(c) PROVE Safe(c)'
    BY <1>12, <2>1 DEF Tombstone
  <2>2. UNCHANGED <<upload, meta, loose>>
    BY <1>12 DEF Tombstone
  <2> HIDE DEF Safe
  <2> QED
    BY <2>1, <2>2
<1>13. ASSUME NEW d \in Deleter, Purge(d) PROVE MetaRowKeepsBytes'
  BY <1>13 DEF Purge
<1>14. ASSUME NEW d \in Deleter, Mark(d) PROVE MetaRowKeepsBytes'
  BY <1>14 DEF Mark
<1>15. ASSUME NEW d \in Deleter, RollBack(d) PROVE MetaRowKeepsBytes'
  BY <1>15 DEF RollBack
<1>16. ASSUME NEW d \in Deleter, Resync(d) PROVE MetaRowKeepsBytes'
  BY <1>16 DEF Resync
<1>17. ASSUME NEW d \in Deleter, AuditFailed(d) PROVE MetaRowKeepsBytes'
  BY <1>17 DEF AuditFailed
<1>18. ASSUME NEW d \in Deleter, AuditDeleted(d) PROVE MetaRowKeepsBytes'
  BY <1>18 DEF AuditDeleted
<1>19. ASSUME NEW d \in Deleter, Die(d) PROVE MetaRowKeepsBytes'
  BY <1>19 DEF Die
<1>20. ASSUME NEW d \in Deleter, StepFails(d) PROVE MetaRowKeepsBytes'
  BY <1>20 DEF StepFails
<1>21. ASSUME NEW d \in Deleter, RollbackStepFails(d) PROVE MetaRowKeepsBytes'
  BY <1>21 DEF RollbackStepFails
<1>22. CASE UNCHANGED vars
  BY <1>22 DEF vars
<1> QED
  BY <1>1, <1>2, <1>3, <1>4, <1>5, <1>6, <1>7, <1>8, <1>9, <1>10, <1>11, <1>12, <1>13, <1>14, <1>15, <1>16, <1>17, <1>18, <1>19, <1>20, <1>21, <1>22
  DEF Next, DeleteStep, FaultStep

\* Placing a hold names every delete past its check; none passes it under the hold.
LEMMA RacerStep ==
  ASSUME TypeOK, RacersArePast, [Next]_vars
  PROVE  RacersArePast'
<1> USE DEF TypeOK, Taken, Move, Goto, EndDelete, indexVars, histVars, RacersArePast, NoHold
<1>1. ASSUME NEW c \in Copy, Publish(c) PROVE RacersArePast'
  BY <1>1 DEF Publish
<1>2. ASSUME NEW c \in Copy, Register(c) PROVE RacersArePast'
  BY <1>2 DEF Register
<1>3. ASSUME NEW c \in Copy, Index(c) PROVE RacersArePast'
  BY <1>3 DEF Index
<1>4. ASSUME NEW c \in Copy, Age(c) PROVE RacersArePast'
  BY <1>4 DEF Age
<1>5. ASSUME NEW c \in Copy, Restore(c) PROVE RacersArePast'
  BY <1>5 DEF Restore
<1>6. CASE List \/ PlaceHold \/ ReleaseHold
  BY <1>6 DEF List, PlaceHold, ReleaseHold
<1>7. ASSUME NEW d \in Deleter, NEW r \in Run, Check(d, r) PROVE RacersArePast'
  BY <1>7 DEF Check
<1>8. ASSUME NEW d \in Deleter, NEW c \in Copy, Reap(d, c) PROVE RacersArePast'
  BY <1>8 DEF Reap, Reapable
<1>9. ASSUME NEW d \in Deleter, EndReap(d) \/ TombstoneGone(d) PROVE RacersArePast'
  BY <1>9 DEF EndReap, TombstoneGone
<1>10. ASSUME NEW d \in Deleter, RemoveRow(d) PROVE RacersArePast'
  BY <1>10 DEF RemoveRow
<1>11. ASSUME NEW d \in Deleter, RemoveMeta(d) PROVE RacersArePast'
  BY <1>11 DEF RemoveMeta
<1>12. ASSUME NEW d \in Deleter, Tombstone(d) PROVE RacersArePast'
  BY <1>12 DEF Tombstone
<1>13. ASSUME NEW d \in Deleter, Purge(d) PROVE RacersArePast'
  BY <1>13 DEF Purge
<1>14. ASSUME NEW d \in Deleter, Mark(d) PROVE RacersArePast'
  BY <1>14 DEF Mark
<1>15. ASSUME NEW d \in Deleter, RollBack(d) PROVE RacersArePast'
  BY <1>15 DEF RollBack
<1>16. ASSUME NEW d \in Deleter, Resync(d) PROVE RacersArePast'
  BY <1>16 DEF Resync
<1>17. ASSUME NEW d \in Deleter, AuditFailed(d) PROVE RacersArePast'
  BY <1>17 DEF AuditFailed
<1>18. ASSUME NEW d \in Deleter, AuditDeleted(d) PROVE RacersArePast'
  BY <1>18 DEF AuditDeleted
<1>19. ASSUME NEW d \in Deleter, Die(d) PROVE RacersArePast'
  BY <1>19 DEF Die
<1>20. ASSUME NEW d \in Deleter, StepFails(d) PROVE RacersArePast'
  BY <1>20 DEF StepFails
<1>21. ASSUME NEW d \in Deleter, RollbackStepFails(d) PROVE RacersArePast'
  BY <1>21 DEF RollbackStepFails
<1>22. CASE UNCHANGED vars
  BY <1>22 DEF vars
<1> QED
  BY <1>1, <1>2, <1>3, <1>4, <1>5, <1>6, <1>7, <1>8, <1>9, <1>10, <1>11, <1>12, <1>13, <1>14, <1>15, <1>16, <1>17, <1>18, <1>19, <1>20, <1>21, <1>22
  DEF Next, DeleteStep, FaultStep

\* The invariant, for every number of runs, uploads and deleters: while a delete has a
\* copy to move or restore, no other delete and no reaper has it (capsule_delete.py:339-350).
THEOREM DeleteInvariant ==
  Spec => []DeleteInv
<1>1. Init => DeleteInv
  <2> SUFFICES ASSUME Init PROVE DeleteInv
    OBVIOUS
  <2>1. TypeOK
    <3>1. pc \in [Deleter -> {"idle", "checked", "ready", "failed"} \cup Taken]
      BY DEF Init
    <3>2. /\ job \in [Deleter -> {<< >>} \cup (Run \X (0 .. MaxUploads))]
          /\ \A d \in Deleter : pc[d] = "idle" /\ job[d] = << >>
      BY DEF Init
    <3>3. faults \in 0 .. MaxFaults
      BY DeleteAssumption DEF Init
    <3> QED
      BY <3>1, <3>2, <3>3 DEF Init, TypeOK
  <2>2. DeleteOwnsItsBytes /\ OneMover
    BY DEF Init, DeleteOwnsItsBytes, OneMover, Moving
  <2>3. TakenIsYoung /\ ReportedOnRecord /\ FailedDeleteKeepsBytes
    BY NoCopyYet DEF Init, TakenIsYoung, ReportedOnRecord, FailedDeleteKeepsBytes
  <2>4. MetaRowKeepsBytes /\ RacersArePast
    BY DEF Init, MetaRowKeepsBytes, RacersArePast
  <2> QED
    BY <2>1, <2>2, <2>3, <2>4 DEF DeleteInv
<1>2. DeleteInv /\ [Next]_vars => DeleteInv'
  BY TypeStep, OwnershipStep, YoungStep, RecordStep, MetaRowStep, RacerStep DEF DeleteInv
<1> QED
  BY <1>1, <1>2, PTL DEF Spec

\* The bytes a running delete may still have to restore are where it left them
\* (capsule_delete.py:339-343).
THEOREM DeletesOwnTheirBytes ==
  Spec => []DeleteOwnsItsBytes
<1>1. DeleteInv => DeleteOwnsItsBytes
  BY DEF DeleteInv
<1> QED
  BY <1>1, DeleteInvariant, PTL

\* The reaper never destroys a capsule whose delete was reported as failed and not
\* completed since, whatever the index says (capsule_delete.py:345-350).
THEOREM FailedDeletesKeepBytes ==
  Spec => []FailedDeleteKeepsBytes
<1>1. DeleteInv => FailedDeleteKeepsBytes
  BY DEF DeleteInv
<1> QED
  BY <1>1, DeleteInvariant, PTL

\* A MetadataStore row has bytes behind it, whichever step of a delete fails or is its
\* last (capsule_delete.py:341-343, 398-403).
THEOREM MetaRowsHaveBytes ==
  Spec => []MetaRowHasBytes
<1>1. DeleteInv => MetaRowHasBytes
  BY DEF DeleteInv, MetaRowKeepsBytes, MetaRowHasBytes, Safe
<1> QED
  BY <1>1, DeleteInvariant, PTL

\* A delete that takes a capsule under a hold had passed its check when the hold was
\* placed (capsule_delete.py:223-232).
THEOREM HoldsStopLaterDeletes ==
  Spec => HoldStopsLaterDeletes
<1> DEFINE Racers == \A c \in Copy : place[c] = "store" /\ place'[c] = "plain" /\ hold =>
                       \E d \in racing : job'[d] = c
<1>1. DeleteInv /\ [Next]_vars => [Racers]_vars
  <2> SUFFICES ASSUME DeleteInv, Next, NEW c \in Copy, place[c] = "store", place'[c] = "plain", hold
               PROVE  \E d \in racing : job'[d] = c
    BY DEF vars
  <2> USE DEF DeleteInv, TypeOK, RacersArePast, DeleteOwnsItsBytes, Move, Goto, indexVars, histVars
  <2>1. ASSUME NEW b \in Copy, Publish(b) \/ Register(b) \/ Index(b) \/ Age(b) \/ Restore(b) PROVE FALSE
    BY <2>1 DEF Publish, Register, Index, Age, Restore
  <2>2. CASE List \/ PlaceHold \/ ReleaseHold
    BY <2>2 DEF List, PlaceHold, ReleaseHold
  <2>3. ASSUME NEW d \in Deleter, NEW r \in Run, Check(d, r) PROVE FALSE
    BY <2>3 DEF Check
  <2>4. ASSUME NEW d \in Deleter, NEW b \in Copy, Reap(d, b) PROVE FALSE
    BY <2>4 DEF Reap
  <2>5. ASSUME NEW d \in Deleter, Tombstone(d) PROVE \E e \in racing : job'[e] = c
    BY <2>5 DEF Tombstone
  <2>6. ASSUME NEW d \in Deleter, Purge(d) \/ Mark(d) \/ RollBack(d) PROVE FALSE
    BY <2>6 DEF Purge, Mark, RollBack
  <2>7. ASSUME NEW d \in Deleter, EndReap(d) \/ TombstoneGone(d) \/ RemoveRow(d) \/ RemoveMeta(d)
                                    \/ Resync(d) \/ AuditFailed(d) \/ AuditDeleted(d) PROVE FALSE
    BY <2>7 DEF EndReap, TombstoneGone, RemoveRow, RemoveMeta, Resync, AuditFailed, AuditDeleted
  <2>8. ASSUME NEW d \in Deleter, FaultStep(d) PROVE FALSE
    BY <2>8 DEF FaultStep, StepFails, RollbackStepFails, Die
  <2> QED
    BY <2>1, <2>2, <2>3, <2>4, <2>5, <2>6, <2>7, <2>8 DEF Next, DeleteStep
<1> QED
  BY <1>1, DeleteInvariant, PTL DEF Spec, HoldStopsLaterDeletes
=============================================================================
