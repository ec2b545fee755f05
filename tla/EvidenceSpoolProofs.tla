------------------------ MODULE EvidenceSpoolProofs ------------------------
(***************************************************************************)
(* Proofs about EvidenceSpool, for any number of writers, any events, any  *)
(* cap and batch size, any segments the forwarder cannot read and any      *)
(* number of crashes: nothing committed is lost without a report,          *)
(* reordered or replaced; the delivery log is implemented; an accepted     *)
(* event is lost only when its number was overtaken; what exceeds the cap  *)
(* is due to racers; and an idle forwarder has settled all there is.       *)
(***************************************************************************)
EXTENDS EvidenceSpool, FiniteSetTheorems, WellFoundedInduction, TLAPS

-----------------------------------------------------------------------------
(* Directories are functions with a varying domain.                         *)

\* Removing files leaves the others as they were.
LEMMA WithoutFacts ==
  ASSUME NEW T, NEW f, f \in [DOMAIN f -> T], NEW R
  PROVE  /\ DOMAIN Without(f, R) = DOMAIN f \ R
         /\ Without(f, R) \in [DOMAIN Without(f, R) -> T]
         /\ \A x \in DOMAIN f \ R : Without(f, R)[x] = f[x]
BY DEF Without, Restrict

-----------------------------------------------------------------------------
(* Types.                                                                   *)

\* A commit keeps the types of the directory.
LEMMA CommitType ==
  ASSUME TypeOK, NEW e \in Event, NEW s \in Nat, seg' = With(seg, s, e)
  PROVE  /\ DOMAIN seg' = DOMAIN seg \cup {s}
         /\ DOMAIN seg' \subseteq Nat /\ seg' \in [DOMAIN seg' -> Event]
<1>1. seg \in [DOMAIN seg -> Event] /\ DOMAIN seg \subseteq Nat
  BY DEF TypeOK, DiskTypeOK
<1>2. DOMAIN With(seg, s, e) = DOMAIN seg \cup {s} /\ With(seg, s, e) \in [DOMAIN With(seg, s, e) -> Event]
  BY <1>1 DEF With
<1> QED BY <1>1, <1>2

\* A staging file is of an event and holds numbers.
LEMMA StagedType ==
  ASSUME TypeOK, NEW e \in DOMAIN tmp
  PROVE  e \in Event /\ tmp[e].name \in Nat /\ tmp[e].hdr \in Nat
BY DEF TypeOK, DiskTypeOK

\* A commit keeps the types of the history.
LEMMA RecordType ==
  ASSUME TypeOK, NEW e \in Event, NEW s \in Nat,
         IF s > ckpt THEN log' = Append(log, e) /\ UNCHANGED reused
                     ELSE reused' = reused \cup {e} /\ UNCHANGED log
  PROVE  log' \in Seq(Event) /\ reused' \subseteq Event
BY DEF TypeOK, OutcomeTypeOK

\* So does the removal of segments.
LEMMA EvictType ==
  ASSUME TypeOK, NEW R, seg' = Without(seg, R)
  PROVE  DOMAIN seg' \subseteq Nat /\ seg' \in [DOMAIN seg' -> Event]
<1>1. seg \in [DOMAIN seg -> Event] /\ DOMAIN seg \subseteq Nat
  BY DEF TypeOK, DiskTypeOK
<1>2. DOMAIN Without(seg, R) = DOMAIN seg \ R /\ Without(seg, R) \in [DOMAIN Without(seg, R) -> Event]
  BY <1>1, WithoutFacts
<1> QED BY <1>1, <1>2

\* And the removal of staging files.
LEMMA UnstageType ==
  ASSUME TypeOK, NEW R, tmp' = Without(tmp, R)
  PROVE  DOMAIN tmp' \subseteq Event /\ tmp' \in [DOMAIN tmp' -> [name : Nat, hdr : Nat]]
<1>1. tmp \in [DOMAIN tmp -> [name : Nat, hdr : Nat]] /\ DOMAIN tmp \subseteq Event
  BY DEF TypeOK, DiskTypeOK
<1>2. /\ DOMAIN Without(tmp, R) = DOMAIN tmp \ R
      /\ Without(tmp, R) \in [DOMAIN Without(tmp, R) -> [name : Nat, hdr : Nat]]
  BY <1>1, WithoutFacts
<1> QED BY <1>1, <1>2

\* What the reader holds in its batch is still in the directory, as it was logged.
LEMMA BatchIsOnDisk ==
  ASSUME SpoolInv
  PROVE  \A s \in batch : s \in Numbers /\ s \in DOMAIN seg /\ seg[s] = log[s + 1]
<1> SUFFICES ASSUME NEW s \in batch
             PROVE  s \in Numbers /\ s \in DOMAIN seg /\ seg[s] = log[s + 1]
  OBVIOUS
<1>1. fpc = "publish" /\ ckpt < s /\ s <= rpos /\ rpos < Len(log)
  BY DEF SpoolInv, ReadIsAccountedFor, Running
<1>2. s \in Nat /\ rpos \in Int /\ Len(log) \in Nat
  BY DEF SpoolInv, TypeOK, ReaderTypeOK, OutcomeTypeOK, NeverAcked
<1>3. s \in Numbers
  BY <1>1, <1>2 DEF Numbers
<1> QED BY <1>1, <1>3 DEF SpoolInv, DiskAgreesWithLog

\* The end of a write keeps the types of the writers.
LEMMA EndWriteType ==
  ASSUME TypeOK, NEW w \in Writer, NEW o \in {"accepted", "refused", "unknown"},
         EndWrite(w, o)
  PROVE  /\ wpc' \in [Writer -> {"idle", "scanned", "staged", "linked"}]
         /\ wev' \in [Writer -> Event \cup {NoEvent}]
         /\ status' \in [Event -> {"new", "writing", "accepted", "refused", "unknown"}]
BY DEF EndWrite, TypeOK, WriterTypeOK, OutcomeTypeOK

\* A read reports segments of the directory only.
LEMMA ReadDrops ==
  ASSUME Read
  PROVE  \E S \in SUBSET DOMAIN seg : dropped' = dropped \cup Report(S)
<1> DEFINE There(h) == {s \in {r \in Rescanned : r > rpos} : s <= h /\ s \in DOMAIN seg}
<1>1. PICK hi \in Rescanned : \E taken \in SUBSET There(hi) :
         dropped' = dropped \cup Report(There(hi) \ taken)
  BY DEF Read
<1>2. \A taken : There(hi) \ taken \in SUBSET DOMAIN seg
  OBVIOUS
<1> HIDE DEF There
<1> QED BY <1>1, <1>2

\* What is published or reported stays so.
LEMMA SettledGrows ==
  ASSUME [Next]_vars
  PROVE  Settled \subseteq Settled'
<1>1. ASSUME Read PROVE Settled \subseteq Settled'
  <2>1. published' = published
    BY <1>1 DEF Read
  <2> QED BY <1>1, <2>1, ReadDrops DEF Settled
<1>2. ASSUME Publish \/ PublishUnacknowledged PROVE Settled \subseteq Settled'
  <2>1. dropped' = dropped /\ published \subseteq published'
    BY <1>2 DEF Publish, PublishUnacknowledged, Store
  <2> QED BY <2>1 DEF Settled
<1>3. CASE UNCHANGED <<published, dropped>>
  BY <1>3 DEF Settled
<1>4. ASSUME NEW w \in Writer, WriterStep(w) PROVE UNCHANGED <<published, dropped>>
  BY <1>4
  DEF WriterStep, Scan, RefuseFull, Stage, Link, Collide, FailBeforeLink, Return, CrashWriter
<1>5. ASSUME RecoveryStep \/ Advance \/ Reclaim \/ Reclaimed \/ CrashForwarder \/ UNCHANGED vars
      PROVE  UNCHANGED <<published, dropped>>
  BY <1>5
  DEF RecoveryStep, Open, Promote, Discard, Recovered, Advance, Reclaim, Reclaimed, CrashForwarder,
      vars
<1> QED BY <1>1, <1>2, <1>3, <1>4, <1>5 DEF Next, ForwarderStep, DrainStep

\* Each part of the invariant is kept by every step.
LEMMA TypeStep == SpoolInv /\ [Next]_vars => TypeOK'
<1> SUFFICES ASSUME SpoolInv, [Next]_vars PROVE TypeOK'
  OBVIOUS
<1>0. TypeOK /\ DiskTypeOK /\ WriterTypeOK /\ ReaderTypeOK /\ OutcomeTypeOK
  BY DEF SpoolInv, TypeOK
<1> USE <1>0
<1> USE SpoolAssumption
<1>a. UNCHANGED diskVars => DiskTypeOK'
  BY DEF diskVars, DiskTypeOK
<1>b. UNCHANGED writerVars => WriterTypeOK'
  BY DEF writerVars, WriterTypeOK
<1>c. UNCHANGED readerVars => ReaderTypeOK'
  BY DEF readerVars, ReaderTypeOK
<1>d. UNCHANGED <<published, dropped, status, histVars>> => OutcomeTypeOK'
  BY DEF histVars, OutcomeTypeOK
<1> USE <1>a, <1>b, <1>c, <1>d DEF TypeOK
<1>1. ASSUME NEW w \in Writer, NEW e \in Event, Scan(w, e) PROVE TypeOK'
  <2>1. WriterTypeOK'
    BY <1>1 DEF Scan, WriterTypeOK, DiskTypeOK
  <2>2. OutcomeTypeOK'
    BY <1>1 DEF Scan, OutcomeTypeOK, histVars
  <2> QED BY <1>1, <2>1, <2>2 DEF Scan
<1>2. ASSUME NEW w \in Writer, RefuseFull(w) PROVE TypeOK'
  <2>1. DiskTypeOK'
    BY <1>2, EvictType DEF RefuseFull, DiskTypeOK
  <2>2. WriterTypeOK'
    BY <1>2, EndWriteType DEF RefuseFull, WriterTypeOK
  <2>3. OutcomeTypeOK'
    BY <1>2, EndWriteType DEF RefuseFull, OutcomeTypeOK, histVars
  <2> QED BY <1>2, <2>1, <2>2, <2>3 DEF RefuseFull
<1>3. ASSUME NEW w \in Writer, Stage(w) PROVE TypeOK'
  <2>1. DOMAIN seg' \subseteq Nat /\ seg' \in [DOMAIN seg' -> Event]
    BY <1>3, EvictType DEF Stage
  <2>2. PICK n \in Floors(w) : tmp' = With(tmp, wev[w], [name |-> n, hdr |-> n])
    BY <1>3 DEF Stage
  <2>3. n \in Nat
    BY DEF Floors, DiskTypeOK, WriterTypeOK, NeverAcked
  <2>4. wev[w] \in Event
    BY <1>3 DEF Stage, SpoolInv, OneWriterPerEvent
  <2>5. DOMAIN tmp' \subseteq Event /\ tmp' \in [DOMAIN tmp' -> [name : Nat, hdr : Nat]]
    <3>1. tmp \in [DOMAIN tmp -> [name : Nat, hdr : Nat]] /\ DOMAIN tmp \subseteq Event
      BY DEF DiskTypeOK
    <3> DEFINE r == [name |-> n, hdr |-> n]
    <3>2. r \in [name : Nat, hdr : Nat]
      BY <2>3
    <3> HIDE DEF r
    <3>3. /\ DOMAIN With(tmp, wev[w], r) = DOMAIN tmp \cup {wev[w]}
          /\ With(tmp, wev[w], r) \in [DOMAIN With(tmp, wev[w], r) -> [name : Nat, hdr : Nat]]
      BY <3>1, <3>2 DEF With
    <3>4. tmp' = With(tmp, wev[w], r)
      BY <2>2 DEF r
    <3> QED BY <2>4, <3>1, <3>3, <3>4
  <2>6. DiskTypeOK'
    BY <1>3, <2>1, <2>5 DEF Stage, DiskTypeOK
  <2>7. WriterTypeOK'
    BY <1>3 DEF Stage, WriterTypeOK
  <2> QED BY <1>3, <2>6, <2>7 DEF Stage
<1>4. ASSUME NEW w \in Writer, Link(w) PROVE TypeOK'
  <2>1. wev[w] \in Event /\ tmp[wev[w]].hdr \in Nat
    BY <1>4, StagedType DEF Link
  <2>2. DiskTypeOK'
    BY <1>4, <2>1, CommitType DEF Link, Record, DiskTypeOK
  <2>3. WriterTypeOK'
    BY <1>4, <2>1 DEF Link, WriterTypeOK
  <2>4. OutcomeTypeOK'
    BY <1>4, <2>1, RecordType DEF Link, Record, OutcomeTypeOK
  <2> QED BY <1>4, <2>2, <2>3, <2>4 DEF Link
<1>5. ASSUME NEW w \in Writer, Collide(w) PROVE TypeOK'
  <2>1. DiskTypeOK'
    BY <1>5, StagedType DEF Collide, DiskTypeOK
  <2> QED BY <1>5, <2>1 DEF Collide
<1>6. ASSUME NEW w \in Writer, FailBeforeLink(w) PROVE TypeOK'
  <2>1. DiskTypeOK'
    BY <1>6, UnstageType DEF FailBeforeLink, DiskTypeOK
  <2>2. WriterTypeOK'
    BY <1>6, EndWriteType DEF FailBeforeLink, WriterTypeOK
  <2>3. OutcomeTypeOK'
    BY <1>6, EndWriteType DEF FailBeforeLink, OutcomeTypeOK, histVars
  <2> QED BY <1>6, <2>1, <2>2, <2>3 DEF FailBeforeLink
<1>7. ASSUME NEW w \in Writer, Return(w) PROVE TypeOK'
  <2>0. PICK o \in {"accepted", "refused"} : EndWrite(w, o)
    BY <1>7 DEF Return
  <2>1. DiskTypeOK'
    BY <1>7, UnstageType DEF Return, DiskTypeOK
  <2>2. WriterTypeOK'
    BY <1>7, <2>0, EndWriteType DEF Return, WriterTypeOK
  <2>3. OutcomeTypeOK'
    BY <1>7, <2>0, EndWriteType DEF Return, OutcomeTypeOK, histVars
  <2> QED BY <1>7, <2>1, <2>2, <2>3 DEF Return
<1>8. ASSUME NEW w \in Writer, CrashWriter(w) PROVE TypeOK'
  <2>1. WriterTypeOK'
    BY <1>8, EndWriteType DEF CrashWriter, WriterTypeOK
  <2>2. OutcomeTypeOK'
    BY <1>8, EndWriteType DEF CrashWriter, OutcomeTypeOK
  <2> QED BY <1>8, <2>1, <2>2 DEF CrashWriter
<1>9. ASSUME Open PROVE TypeOK'
  <2>1. ReaderTypeOK'
    BY <1>9 DEF Open, ReaderTypeOK, DiskTypeOK
  <2> QED BY <1>9, <2>1 DEF Open
<1>10. ASSUME NEW e \in Event, Promote(e) PROVE TypeOK'
  <2>1. tmp[e].name \in Nat
    BY <1>10, StagedType DEF Promote, Promotable
  <2>2. DiskTypeOK'
    BY <1>10, <2>1, CommitType, UnstageType DEF Promote, Record, DiskTypeOK
  <2>3. ReaderTypeOK'
    BY <1>10, <2>1 DEF Promote, ReaderTypeOK
  <2>4. OutcomeTypeOK'
    BY <1>10, <2>1, RecordType DEF Promote, Record, OutcomeTypeOK
  <2> QED BY <1>10, <2>2, <2>3, <2>4 DEF Promote
<1>11. ASSUME NEW e \in Event, Discard(e) PROVE TypeOK'
  <2>1. DiskTypeOK'
    BY <1>11, UnstageType DEF Discard, DiskTypeOK
  <2>2. ReaderTypeOK'
    BY <1>11 DEF Discard, ReaderTypeOK
  <2> QED BY <1>11, <2>1, <2>2 DEF Discard
<1>12. ASSUME Recovered PROVE TypeOK'
  <2>1. ReaderTypeOK'
    BY <1>12 DEF Recovered, ReaderTypeOK
  <2> QED BY <1>12, <2>1 DEF Recovered
<1>13. ASSUME Read PROVE TypeOK'
  <2>1. Rescanned \subseteq Nat
    BY DEF Rescanned, Fresh, DiskTypeOK, ReaderTypeOK
  <2>2. ReaderTypeOK'
    BY <1>13, <2>1 DEF Read, ReaderTypeOK
  <2>3. \E S \in SUBSET DOMAIN seg : dropped' = dropped \cup Report(S)
    BY <1>13, ReadDrops
  <2>4. dropped' \subseteq Event
    BY <2>3 DEF Report, DiskTypeOK, OutcomeTypeOK
  <2>5. OutcomeTypeOK'
    BY <1>13, <2>4 DEF Read, OutcomeTypeOK, histVars
  <2> QED BY <1>13, <2>2, <2>5 DEF Read
<1>14. ASSUME Publish PROVE TypeOK'
  <2>1. published' \subseteq Event /\ dups' \in Nat
    BY <1>14, BatchIsOnDisk DEF Publish, Store, DiskTypeOK, OutcomeTypeOK
  <2>2. OutcomeTypeOK'
    BY <1>14, <2>1 DEF Publish, OutcomeTypeOK
  <2>3. ReaderTypeOK'
    BY <1>14 DEF Publish, ReaderTypeOK
  <2> QED BY <1>14, <2>2, <2>3 DEF Publish
<1>15. ASSUME Advance PROVE TypeOK'
  <2>1. DiskTypeOK' /\ ReaderTypeOK'
    BY <1>15 DEF Advance, DiskTypeOK, ReaderTypeOK
  <2>2. OutcomeTypeOK'
    BY <1>15 DEF Advance, DiskTypeOK, OutcomeTypeOK
  <2> QED BY <1>15, <2>1, <2>2 DEF Advance
<1>16. ASSUME Reclaim PROVE TypeOK'
  <2>1. DiskTypeOK'
    BY <1>16, EvictType DEF Reclaim, DiskTypeOK
  <2>2. ReaderTypeOK'
    BY <1>16 DEF Reclaim, ReaderTypeOK
  <2> QED BY <1>16, <2>1, <2>2 DEF Reclaim
<1>17. ASSUME Reclaimed PROVE TypeOK'
  <2>1. ReaderTypeOK'
    BY <1>17 DEF Reclaimed, ReaderTypeOK
  <2> QED BY <1>17, <2>1 DEF Reclaimed
<1>18. ASSUME CrashForwarder PROVE TypeOK'
  <2>1. ReaderTypeOK' /\ OutcomeTypeOK'
    BY <1>18 DEF CrashForwarder, Exit, ReaderTypeOK, OutcomeTypeOK
  <2> QED BY <1>18, <2>1 DEF CrashForwarder
<1>19. ASSUME PublishUnacknowledged PROVE TypeOK'
  <2>1. published' \subseteq Event /\ dups' \in Nat
    BY <1>19, BatchIsOnDisk DEF PublishUnacknowledged, Store, DiskTypeOK, OutcomeTypeOK
  <2>2. OutcomeTypeOK'
    BY <1>19, <2>1 DEF PublishUnacknowledged, Exit, OutcomeTypeOK
  <2>3. ReaderTypeOK'
    BY <1>19 DEF PublishUnacknowledged, Exit, ReaderTypeOK
  <2> QED BY <1>19, <2>2, <2>3 DEF PublishUnacknowledged
<1>20. ASSUME UNCHANGED vars PROVE TypeOK'
  BY <1>20 DEF vars
<1> QED
  BY <1>1, <1>2, <1>3, <1>4, <1>5, <1>6, <1>7, <1>8, <1>9, <1>10, <1>11, <1>12, <1>13,
     <1>14, <1>15, <1>16, <1>17, <1>18, <1>19, <1>20
  DEF Next, WriterStep, ForwarderStep, RecoveryStep, DrainStep

-----------------------------------------------------------------------------
(* The log and the directory.                                               *)

\* A free number above the checkpoint and within the log is the next one.
LEMMA FreeNumberIsNext ==
  ASSUME SpoolInv, NEW s \in Nat, s <= Len(log), s \notin DOMAIN seg, ckpt < s
  PROVE  s = Len(log)
BY DEF SpoolInv, DiskAgreesWithLog, Numbers, TypeOK, DiskTypeOK, OutcomeTypeOK

\* What a commit does to the log: it appends at the number it took, or nothing.
LEMMA CommitAppends ==
  ASSUME SpoolInv, NEW e \in Event, NEW s \in Nat, s <= Len(log), s \notin DOMAIN seg,
         Record(e, s)
  PROVE  /\ DOMAIN seg' = DOMAIN seg \cup {s}
         /\ seg'[s] = e
         /\ \A x \in DOMAIN seg : seg'[x] = seg[x]
         /\ s <= ckpt => log' = log
         /\ ckpt < s => /\ s = Len(log)
                        /\ Len(log') = Len(log) + 1
                        /\ log'[s + 1] = e
         /\ \A i \in 1 .. Len(log) : log'[i] = log[i]
<1>1. TypeOK /\ log \in Seq(Event) /\ ckpt \in Int
  BY DEF SpoolInv, TypeOK, DiskTypeOK, OutcomeTypeOK, NeverAcked
<1>2. DOMAIN seg' = DOMAIN seg \cup {s} /\ seg'[s] = e /\ \A x \in DOMAIN seg : seg'[x] = seg[x]
  BY DEF Record, With
<1>3. ckpt < s => s = Len(log)
  BY FreeNumberIsNext
<1>4. CASE s <= ckpt
  BY <1>1, <1>2, <1>4 DEF Record
<1>5. CASE ckpt < s
  <2>1. log' = Append(log, e)
    BY <1>1, <1>5 DEF Record
  <2> QED BY <1>1, <1>2, <1>3, <1>5, <2>1
<1>6. s <= ckpt \/ ckpt < s
  BY <1>1
<1> QED BY <1>4, <1>5, <1>6

\* Numbers committed by a link or a promotion lie within the log.
LEMMA CommitKeepsDisk ==
  ASSUME SpoolInv, NEW e \in Event, NEW s \in Nat, s <= Len(log), s \notin DOMAIN seg,
         Record(e, s), UNCHANGED ckpt, Settled \subseteq Settled'
  PROVE  DiskAgreesWithLog'
<1>1. /\ log \in Seq(Event) /\ ckpt \in Int /\ Len(log) \in Nat /\ DOMAIN seg \subseteq Nat
      /\ DiskAgreesWithLog
  BY DEF SpoolInv, TypeOK, DiskTypeOK, OutcomeTypeOK, NeverAcked
<1>2. /\ DOMAIN seg' = DOMAIN seg \cup {s} /\ seg'[s] = e
      /\ \A x \in DOMAIN seg : seg'[x] = seg[x]
      /\ s <= ckpt => log' = log
      /\ ckpt < s => s = Len(log) /\ Len(log') = Len(log) + 1 /\ log'[s + 1] = e
      /\ \A i \in 1 .. Len(log) : log'[i] = log[i]
  BY CommitAppends
<1>3. CASE s <= ckpt
  BY <1>1, <1>2, <1>3 DEF DiskAgreesWithLog, Numbers
<1>4. CASE ckpt < s
  <2>1. ckpt' < Len(log') /\ \A x \in DOMAIN seg' : x < Len(log')
    BY <1>1, <1>2, <1>4 DEF DiskAgreesWithLog
  <2>2. ASSUME NEW x \in Numbers', ckpt' < x PROVE x \in DOMAIN seg' /\ seg'[x] = log'[x + 1]
    <3>1. CASE x = s
      BY <1>1, <1>2, <1>4, <3>1
    <3>2. CASE x # s
      <4>1. x \in Numbers /\ x + 1 \in 1 .. Len(log)
        BY <1>1, <1>2, <1>4, <2>2, <3>2 DEF Numbers
      <4> QED BY <1>1, <1>2, <2>2, <4>1 DEF DiskAgreesWithLog
    <3> QED BY <3>1, <3>2
  <2>3. ASSUME NEW i \in 1 .. Len(log'), i <= ckpt' + 1 PROVE log'[i] \in Settled'
    <3>1. i \in 1 .. Len(log) /\ i <= ckpt + 1
      BY <1>1, <1>2, <1>4, <2>3 DEF DiskAgreesWithLog
    <3>2. log[i] \in Settled
      BY <1>1, <3>1 DEF DiskAgreesWithLog
    <3> QED BY <1>2, <3>1, <3>2
  <2> QED BY <2>1, <2>2, <2>3 DEF DiskAgreesWithLog
<1> QED BY <1>1, <1>3, <1>4

\* Unlinking acknowledged segments takes nothing the log still needs.
LEMMA UnlinkKeepsDisk ==
  ASSUME SpoolInv, NEW R, \A r \in R : r \in Nat /\ r <= ckpt,
         seg' = Without(seg, R), UNCHANGED <<ckpt, log>>, Settled \subseteq Settled'
  PROVE  DiskAgreesWithLog'
<1>1. ckpt \in Int /\ DOMAIN seg \subseteq Nat /\ DiskAgreesWithLog
  BY DEF SpoolInv, TypeOK, DiskTypeOK, NeverAcked
<1>2. DOMAIN seg' = DOMAIN seg \ R /\ \A x \in DOMAIN seg \ R : seg'[x] = seg[x]
  BY DEF Without, Restrict
<1>3. \A x \in Numbers : ckpt < x => x \notin R
  BY <1>1 DEF Numbers
<1> QED BY <1>1, <1>2, <1>3 DEF DiskAgreesWithLog, Numbers

\* Directory and log.
LEMMA DiskStep == SpoolInv /\ [Next]_vars => DiskAgreesWithLog'
<1> SUFFICES ASSUME SpoolInv, [Next]_vars PROVE DiskAgreesWithLog'
  OBVIOUS
<1>0. /\ TypeOK /\ DiskAgreesWithLog /\ NumbersWithinLog /\ ReadIsAccountedFor
      /\ ckpt \in Int /\ log \in Seq(Event) /\ Len(log) \in Nat
      /\ rpos \in Int /\ pend \in Int
  BY DEF SpoolInv, TypeOK, DiskTypeOK, ReaderTypeOK, OutcomeTypeOK, NeverAcked
<1>s. Settled \subseteq Settled'
  BY SettledGrows
<1>a. UNCHANGED <<seg, ckpt, log>> => DiskAgreesWithLog'
  BY <1>0, <1>s DEF DiskAgreesWithLog, Numbers
<1>b. ASSUME NEW w \in Writer PROVE \A r \in Evicted(w) : r \in Nat /\ r <= ckpt
  BY <1>0 DEF Evicted, Evictable, TypeOK, WriterTypeOK
<1>1. ASSUME NEW w \in Writer, RefuseFull(w) \/ Stage(w) PROVE DiskAgreesWithLog'
  BY <1>1, <1>b, <1>s, UnlinkKeepsDisk DEF RefuseFull, Stage, histVars
<1>2. ASSUME NEW w \in Writer, Link(w) PROVE DiskAgreesWithLog'
  <2>1. /\ wev[w] \in Event /\ tmp[wev[w]].hdr \in Nat
        /\ tmp[wev[w]].hdr <= Len(log)
    BY <1>0, <1>2, StagedType DEF Link, NumbersWithinLog
  <2> QED BY <1>2, <1>s, <2>1, CommitKeepsDisk DEF Link
<1>3. ASSUME NEW e \in Event, Promote(e) PROVE DiskAgreesWithLog'
  <2>1. tmp[e].name \in Nat /\ tmp[e].name <= Len(log)
    BY <1>0, <1>3, StagedType DEF Promote, Promotable, NumbersWithinLog
  <2> QED BY <1>3, <1>s, <2>1, CommitKeepsDisk DEF Promote, Promotable
<1>4. ASSUME Publish \/ PublishUnacknowledged PROVE DiskAgreesWithLog'
  BY <1>4, <1>a DEF Publish, PublishUnacknowledged, diskVars
<1>5. ASSUME Advance PROVE DiskAgreesWithLog'
  <2>1. /\ UNCHANGED <<seg, log>> /\ ckpt' = pend
        /\ ckpt < pend /\ pend <= rpos /\ rpos < Len(log) /\ batch = {}
        /\ \A j \in Numbers : ckpt < j /\ j <= rpos => log[j + 1] \in Settled
    BY <1>0, <1>5 DEF Advance, ReadIsAccountedFor, Running, histVars
  <2>2. ASSUME NEW i \in 1 .. Len(log), i <= pend + 1 PROVE log[i] \in Settled
    <3>1. CASE i <= ckpt + 1
      BY <1>0, <3>1 DEF DiskAgreesWithLog
    <3>2. CASE ckpt + 1 < i
      <4>1. i - 1 \in Numbers /\ ckpt < i - 1 /\ i - 1 <= rpos
        BY <1>0, <2>1, <2>2, <3>2 DEF Numbers
      <4>2. (i - 1) + 1 = i
        OBVIOUS
      <4> QED BY <2>1, <4>1, <4>2
    <3> QED BY <1>0, <3>1, <3>2
  <2> QED BY <1>0, <1>s, <2>1, <2>2 DEF DiskAgreesWithLog, Numbers
<1>6. ASSUME Reclaim PROVE DiskAgreesWithLog'
  <2>1. PICK s \in Reclaimable : seg' = Without(seg, {s})
    BY <1>6 DEF Reclaim
  <2>2. s \in Nat /\ s <= ckpt
    BY <1>0 DEF Reclaimable, TypeOK, ReaderTypeOK
  <2>3. \A r \in {s} : r \in Nat /\ r <= ckpt
    BY <2>2
  <2>4. UNCHANGED <<ckpt, log>>
    BY <1>6 DEF Reclaim, histVars
  <2> DEFINE R == {s}
  <2>5. (\A r \in R : r \in Nat /\ r <= ckpt) /\ seg' = Without(seg, R)
    BY <2>1, <2>3
  <2> HIDE DEF R
  <2> QED BY <1>s, <2>4, <2>5, UnlinkKeepsDisk
<1>7. ASSUME NEW w \in Writer,
             \/ \E e \in Event : Scan(w, e)
             \/ Collide(w) \/ FailBeforeLink(w) \/ Return(w) \/ CrashWriter(w)
      PROVE  DiskAgreesWithLog'
  BY <1>7, <1>a DEF Scan, Collide, FailBeforeLink, Return, CrashWriter, diskVars, histVars
<1>8. ASSUME \/ Open \/ Recovered \/ Read \/ Reclaimed \/ CrashForwarder
             \/ \E e \in Event : Discard(e)
      PROVE  DiskAgreesWithLog'
  BY <1>8, <1>a DEF Open, Recovered, Read, Reclaimed, CrashForwarder, Discard, diskVars, histVars
<1>9. ASSUME UNCHANGED vars PROVE DiskAgreesWithLog'
  BY <1>9, <1>a DEF vars, diskVars, histVars
<1> QED
  BY <1>1, <1>2, <1>3, <1>4, <1>5, <1>6, <1>7, <1>8, <1>9
  DEF Next, WriterStep, ForwarderStep, RecoveryStep, DrainStep

-----------------------------------------------------------------------------
(* Writers' numbers.                                                        *)

\* The log only grows: what is in it stays where it is.
LEMMA LogGrows ==
  ASSUME SpoolInv, [Next]_vars
  PROVE  Len(log) <= Len(log') /\ \A i \in 1 .. Len(log) : log'[i] = log[i]
<1>0. TypeOK /\ NumbersWithinLog /\ log \in Seq(Event) /\ Len(log) \in Nat /\ ckpt \in Int
  BY DEF SpoolInv, TypeOK, DiskTypeOK, OutcomeTypeOK, NeverAcked
<1>a. ASSUME NEW e \in Event, NEW s \in Nat, s <= Len(log), s \notin DOMAIN seg, Record(e, s)
      PROVE  Len(log) <= Len(log') /\ \A i \in 1 .. Len(log) : log'[i] = log[i]
  <2>1. /\ s <= ckpt => log' = log
        /\ ckpt < s => Len(log') = Len(log) + 1
        /\ \A i \in 1 .. Len(log) : log'[i] = log[i]
    BY <1>a, CommitAppends
  <2> QED BY <1>0, <2>1
<1>1. ASSUME NEW w \in Writer, Link(w)
      PROVE  Len(log) <= Len(log') /\ \A i \in 1 .. Len(log) : log'[i] = log[i]
  <2>1. wev[w] \in Event /\ tmp[wev[w]].hdr \in Nat /\ tmp[wev[w]].hdr <= Len(log)
    BY <1>0, <1>1, StagedType DEF Link, NumbersWithinLog
  <2> QED BY <1>1, <1>a, <2>1 DEF Link
<1>2. ASSUME NEW e \in Event, Promote(e)
      PROVE  Len(log) <= Len(log') /\ \A i \in 1 .. Len(log) : log'[i] = log[i]
  <2>1. tmp[e].name \in Nat /\ tmp[e].name <= Len(log)
    BY <1>0, <1>2, StagedType DEF Promote, Promotable, NumbersWithinLog
  <2> QED BY <1>2, <1>a, <2>1 DEF Promote, Promotable
<1>3. CASE log' = log
  BY <1>0, <1>3
<1> QED
  BY <1>1, <1>2, <1>3
  DEF Next, WriterStep, ForwarderStep, RecoveryStep, DrainStep, Scan, RefuseFull, Stage, Collide,
      FailBeforeLink, Return, CrashWriter, Open, Discard, Recovered, Read, Publish, Advance,
      Reclaim, Reclaimed, CrashForwarder, PublishUnacknowledged, histVars, vars

\* Numbers the writers hold.
LEMMA NumbersStep == SpoolInv /\ [Next]_vars => NumbersWithinLog'
<1> SUFFICES ASSUME SpoolInv, [Next]_vars PROVE NumbersWithinLog'
  OBVIOUS
<1>0. /\ TypeOK /\ DiskAgreesWithLog /\ NumbersWithinLog
      /\ wfloor \in [Writer -> Nat] /\ wseen \in [Writer -> SUBSET Nat]
      /\ ckpt \in Int /\ Len(log) \in Nat /\ DOMAIN seg \subseteq Nat
  BY DEF SpoolInv, TypeOK, DiskTypeOK, WriterTypeOK, OutcomeTypeOK, NeverAcked
<1>1. Len(log) <= Len(log') /\ Len(log') \in Nat
  <2>1. TypeOK'
    BY TypeStep
  <2> QED BY LogGrows, <2>1 DEF TypeOK, OutcomeTypeOK
<1> DEFINE Staged == \A e \in DOMAIN tmp : tmp[e].name <= Len(log) /\ tmp[e].hdr <= Len(log)
           Floor == \A w \in Writer : wfloor[w] <= Len(log)
           Seen == \A w \in Writer : \A s \in wseen[w] : s < Len(log)
<1>2. Staged /\ Floor /\ Seen
  BY <1>0 DEF NumbersWithinLog
<1>a. ASSUME DOMAIN tmp' \subseteq DOMAIN tmp, \A e \in DOMAIN tmp' : tmp'[e] = tmp[e]
      PROVE  Staged'
  BY <1>0, <1>1, <1>2, <1>a, StagedType
<1>b. UNCHANGED tmp => Staged'
  BY <1>a
<1>c. ASSUME NEW R, tmp' = Without(tmp, R) PROVE Staged'
  <2>1. DOMAIN tmp' \subseteq DOMAIN tmp /\ \A e \in DOMAIN tmp' : tmp'[e] = tmp[e]
    BY <1>c DEF Without, Restrict
  <2> QED BY <2>1, <1>a
<1>d. ASSUME NEW w \in Writer, wfloor' = wfloor \/ wfloor' = [wfloor EXCEPT ![w] = 0]
      PROVE  Floor'
  BY <1>0, <1>1, <1>2, <1>d
<1>e. UNCHANGED wfloor => Floor'
  BY <1>0, <1>1, <1>2
<1>f. ASSUME NEW w \in Writer, wseen' = [wseen EXCEPT ![w] = {}] PROVE Seen'
  BY <1>0, <1>1, <1>2, <1>f
<1>g. UNCHANGED wseen => Seen'
  BY <1>0, <1>1, <1>2
<1>h. Staged' /\ Floor' /\ Seen' => NumbersWithinLog'
  BY DEF NumbersWithinLog
<1> HIDE DEF Staged, Floor, Seen
<1>3. ASSUME NEW w \in Writer, NEW e \in Event, Scan(w, e) PROVE NumbersWithinLog'
  <2>1. Staged' /\ Floor'
    BY <1>3, <1>b, <1>e DEF Scan, diskVars
  <2>2. Seen'
    BY <1>0, <1>1, <1>2, <1>3 DEF Scan, Seen, DiskAgreesWithLog
  <2> QED BY <2>1, <2>2, <1>h
<1>4. ASSUME NEW w \in Writer, RefuseFull(w) PROVE NumbersWithinLog'
  BY <1>4, <1>b, <1>e, <1>f, <1>h DEF RefuseFull
<1>5. ASSUME NEW w \in Writer, Stage(w) PROVE NumbersWithinLog'
  <2>1. PICK n \in Floors(w) : tmp' = With(tmp, wev[w], [name |-> n, hdr |-> n])
    BY <1>5 DEF Stage
  <2>2. n \in Nat /\ n <= Len(log)
    <3>1. ckpt + 1 \in Nat /\ ckpt + 1 <= Len(log)
      BY <1>0 DEF DiskAgreesWithLog, TypeOK, DiskTypeOK, NeverAcked
    <3> QED BY <1>0, <1>2, <3>1 DEF Floors, Floor, Seen
  <2>3. /\ DOMAIN tmp' = DOMAIN tmp \cup {wev[w]}
        /\ tmp'[wev[w]] = [name |-> n, hdr |-> n]
        /\ \A e \in DOMAIN tmp : e # wev[w] => tmp'[e] = tmp[e]
    BY <2>1 DEF With
  <2>4. Staged'
    <3>1. ASSUME NEW e \in DOMAIN tmp' PROVE tmp'[e].name <= Len(log') /\ tmp'[e].hdr <= Len(log')
      <4>1. CASE e = wev[w]
        BY <1>0, <1>1, <2>2, <2>3, <4>1
      <4>2. CASE e # wev[w]
        <5>1. e \in DOMAIN tmp /\ tmp'[e] = tmp[e]
          BY <2>3, <3>1, <4>2
        <5> QED BY <1>0, <1>1, <1>2, <5>1, StagedType DEF Staged
      <4> QED BY <4>1, <4>2
    <3> QED BY <3>1 DEF Staged
  <2> QED BY <1>5, <2>4, <1>e, <1>f, <1>h DEF Stage
<1>6. ASSUME NEW w \in Writer, Link(w) PROVE NumbersWithinLog'
  <2>1. /\ wev[w] \in Event /\ tmp[wev[w]].hdr \in Nat
        /\ tmp[wev[w]].hdr <= Len(log)
    BY <1>0, <1>6, StagedType DEF Link, NumbersWithinLog
  <2>2. tmp[wev[w]].hdr + 1 <= Len(log')
    <3> DEFINE s == tmp[wev[w]].hdr
    <3>0. Record(wev[w], s) /\ s \notin DOMAIN seg /\ s \in Nat /\ s <= Len(log)
      BY <1>6, <2>1 DEF Link
    <3> HIDE DEF s
    <3>1. (s <= ckpt => log' = log) /\ (ckpt < s => s = Len(log) /\ Len(log') = Len(log) + 1)
      BY <2>1, <3>0, CommitAppends
    <3>2. ckpt < Len(log)
      BY <1>0 DEF DiskAgreesWithLog
    <3> QED BY <1>0, <3>0, <3>1, <3>2 DEF s
  <2>3. Floor'
    BY <1>0, <1>1, <1>2, <1>6, <2>2 DEF Link, Floor
  <2> QED BY <1>6, <2>3, <1>b, <1>g, <1>h DEF Link
<1>7. ASSUME NEW w \in Writer, Collide(w) PROVE NumbersWithinLog'
  <2>1. tmp[wev[w]].hdr \in Nat /\ tmp[wev[w]].hdr + 1 <= Len(log)
    BY <1>0, <1>7, StagedType DEF Collide, DiskAgreesWithLog
  <2>2. /\ DOMAIN tmp' = DOMAIN tmp
        /\ \A e \in DOMAIN tmp : e # wev[w] => tmp'[e] = tmp[e]
        /\ tmp'[wev[w]].name = tmp[wev[w]].name /\ tmp'[wev[w]].hdr = tmp[wev[w]].hdr + 1
    BY <1>0, <1>7 DEF Collide, TypeOK, DiskTypeOK
  <2>3. Staged'
    BY <1>0, <1>1, <1>2, <2>1, <2>2, StagedType DEF Staged
  <2> QED BY <1>7, <2>3, <1>e, <1>g, <1>h DEF Collide, writerVars
<1>8. ASSUME NEW w \in Writer, FailBeforeLink(w) \/ Return(w) PROVE NumbersWithinLog'
  BY <1>8, <1>c, <1>e, <1>g, <1>h DEF FailBeforeLink, Return
<1>9. ASSUME NEW w \in Writer, CrashWriter(w) PROVE NumbersWithinLog'
  BY <1>9, <1>b, <1>d, <1>f, <1>h DEF CrashWriter, diskVars
<1>10. ASSUME NEW e \in Event, Promote(e) \/ Discard(e) PROVE NumbersWithinLog'
  BY <1>10, <1>c, <1>e, <1>g, <1>h DEF Promote, Discard, writerVars
<1>11. CASE UNCHANGED <<tmp, wfloor, wseen>>
  BY <1>11, <1>b, <1>e, <1>g, <1>h
<1> QED
  BY <1>3, <1>4, <1>5, <1>6, <1>7, <1>8, <1>9, <1>10, <1>11
  DEF Next, WriterStep, ForwarderStep, RecoveryStep, DrainStep, Open, Recovered, Read, Publish,
      Advance, Reclaim, Reclaimed, CrashForwarder, PublishUnacknowledged, diskVars, writerVars, vars

-----------------------------------------------------------------------------
(* Writers and events.                                                      *)

\* One writer per event.
LEMMA OneWriterStep == SpoolInv /\ [Next]_vars => OneWriterPerEvent'
<1> SUFFICES ASSUME SpoolInv, [Next]_vars PROVE OneWriterPerEvent'
  OBVIOUS
<1>0. /\ OneWriterPerEvent /\ ReadIsAccountedFor
      /\ wpc \in [Writer -> {"idle", "scanned", "staged", "linked"}]
      /\ wev \in [Writer -> Event \cup {NoEvent}]
      /\ status \in [Event -> {"new", "writing", "accepted", "refused", "unknown"}]
      /\ DOMAIN tmp \subseteq Event /\ todo \subseteq Event
  BY DEF SpoolInv, TypeOK, DiskTypeOK, WriterTypeOK, ReaderTypeOK, OutcomeTypeOK
<1>a. ASSUME UNCHANGED <<wpc, wev, status>>, DOMAIN tmp' \cup todo' \subseteq DOMAIN tmp \cup todo
      PROVE  OneWriterPerEvent'
  BY <1>0, <1>a DEF OneWriterPerEvent
<1>b. ASSUME NEW w \in Writer, NEW o \in {"accepted", "refused", "unknown"},
             wpc[w] # "idle", EndWrite(w, o),
             DOMAIN tmp' \cup todo' \subseteq DOMAIN tmp \cup todo
      PROVE  OneWriterPerEvent'
  BY <1>0, <1>b DEF OneWriterPerEvent, EndWrite
<1>c. ASSUME NEW R PROVE DOMAIN Without(tmp, R) \subseteq DOMAIN tmp
  BY DEF Without, Restrict
<1>1. ASSUME NEW w \in Writer, NEW e \in Event, Scan(w, e) PROVE OneWriterPerEvent'
  BY <1>0, <1>1 DEF Scan, OneWriterPerEvent, diskVars, readerVars
<1>2. ASSUME NEW w \in Writer, RefuseFull(w) PROVE OneWriterPerEvent'
  BY <1>2, <1>b DEF RefuseFull, readerVars
<1>3. ASSUME NEW w \in Writer, Stage(w) PROVE OneWriterPerEvent'
  <2>1. DOMAIN tmp' = DOMAIN tmp \cup {wev[w]}
    BY <1>3 DEF Stage, With
  <2>2. /\ wpc' = [wpc EXCEPT ![w] = "staged"] /\ wpc[w] = "scanned"
        /\ UNCHANGED <<wev, status, todo>>
    BY <1>3 DEF Stage, readerVars
  <2> QED BY <1>0, <2>1, <2>2 DEF OneWriterPerEvent
<1>4. ASSUME NEW w \in Writer, Link(w) PROVE OneWriterPerEvent'
  BY <1>0, <1>4 DEF Link, OneWriterPerEvent, readerVars
<1>5. ASSUME NEW w \in Writer, Collide(w) PROVE OneWriterPerEvent'
  BY <1>5, <1>a DEF Collide, writerVars, readerVars
<1>6. ASSUME NEW w \in Writer, FailBeforeLink(w) PROVE OneWriterPerEvent'
  BY <1>6, <1>b, <1>c DEF FailBeforeLink, readerVars
<1>7. ASSUME NEW w \in Writer, Return(w) PROVE OneWriterPerEvent'
  BY <1>7, <1>b, <1>c DEF Return, readerVars
<1>8. ASSUME NEW w \in Writer, CrashWriter(w) PROVE OneWriterPerEvent'
  BY <1>8, <1>b DEF CrashWriter, diskVars, readerVars
<1>9. ASSUME NEW e \in Event, Promote(e) \/ Discard(e) PROVE OneWriterPerEvent'
  BY <1>9, <1>a, <1>c DEF Promote, Discard, writerVars
<1>10. ASSUME Open PROVE OneWriterPerEvent'
  BY <1>10, <1>a DEF Open, diskVars, writerVars
<1>11. ASSUME CrashForwarder \/ PublishUnacknowledged PROVE OneWriterPerEvent'
  BY <1>11, <1>a DEF CrashForwarder, PublishUnacknowledged, Exit, diskVars, writerVars
<1>12. ASSUME Recovered \/ Read \/ Publish \/ Advance \/ Reclaim \/ Reclaimed \/ UNCHANGED vars
       PROVE  OneWriterPerEvent'
  BY <1>12, <1>a
  DEF Recovered, Read, Publish, Advance, Reclaim, Reclaimed, vars, diskVars, writerVars, readerVars
<1> QED
  BY <1>1, <1>2, <1>3, <1>4, <1>5, <1>6, <1>7, <1>8, <1>9, <1>10, <1>11, <1>12
  DEF Next, WriterStep, ForwarderStep, RecoveryStep, DrainStep

-----------------------------------------------------------------------------
(* What the forwarder knows.                                                *)

\* A rescan adds the next numbers, without a gap.
LEMMA RescanWithoutGap ==
  ASSUME SpoolInv
  PROVE  /\ Rescanned \subseteq Nat
         /\ \A k \in Rescanned : k < Len(log)
         /\ \A k \in Rescanned : \A j \in Numbers : ckpt < j /\ j < k => j \in Rescanned
<1>0. /\ KnownWithoutGap /\ DiskAgreesWithLog
      /\ known \subseteq Nat /\ DOMAIN seg \subseteq Nat /\ ckpt \in Int /\ Len(log) \in Nat
  BY DEF SpoolInv, TypeOK, DiskTypeOK, ReaderTypeOK, OutcomeTypeOK, NeverAcked
<1>1. Rescanned \subseteq Nat /\ \A k \in Rescanned : k < Len(log)
  BY <1>0 DEF Rescanned, Fresh, KnownWithoutGap, DiskAgreesWithLog
<1>2. ASSUME NEW k \in Rescanned, NEW j \in Numbers, ckpt < j, j < k PROVE j \in Rescanned
  <2>1. CASE k \in known
    BY <1>0, <1>2, <2>1 DEF KnownWithoutGap, Rescanned
  <2>2. CASE k \notin known
    <3>1. Rescanned = known \cup Fresh
      BY <1>2, <2>2 DEF Rescanned
    <3>2. j \in DOMAIN seg /\ j \in Nat
      BY <1>0, <1>2 DEF DiskAgreesWithLog
    <3>3. CASE \A n \in known : j > n
      BY <1>2, <3>1, <3>2, <3>3 DEF Fresh
    <3>4. CASE \E n \in known : ~(j > n)
      <4>1. PICK n \in known : ~(j > n)
        BY <3>4
      <4>2. n = j \/ j < n
        BY <1>0, <3>2, <4>1
      <4> QED BY <1>0, <1>2, <3>1, <4>1, <4>2 DEF KnownWithoutGap
    <3> QED BY <3>3, <3>4
  <2> QED BY <2>1, <2>2
<1> QED BY <1>1, <1>2

\* What a read takes, of the log: numbers that follow what is behind the reader, up to hi. The
\* others up to there are reported.
Takes(hi, taken) ==
  /\ rpos < hi /\ hi < Len(log)
  /\ taken \subseteq rpos + 1 .. hi
  /\ IsFiniteSet(taken) /\ Cardinality(taken) \in Nat /\ Cardinality(taken) <= Batch
  /\ batch' = taken /\ rpos' = hi
  /\ dropped' = dropped \cup {log[j + 1] : j \in (rpos + 1 .. hi) \ taken}
  /\ IF taken = {}
     THEN UNCHANGED <<fpc, pend>>
     ELSE fpc' = "publish" /\ pend' \in taken /\ \A r \in taken : r <= pend'

\* A read does so, since nothing is missing between the reader and the number it reaches.
LEMMA ReadTakes ==
  ASSUME SpoolInv, Read
  PROVE  \E hi \in Nat : \E taken \in SUBSET Nat : Takes(hi, taken)
<1>0. /\ DiskAgreesWithLog /\ ReadIsAccountedFor /\ ckpt \in Int /\ rpos \in Int /\ -1 <= rpos
      /\ Len(log) \in Nat /\ Batch \in Nat /\ fpc = "idle" /\ ckpt <= rpos
  BY SpoolAssumption
  DEF Read, SpoolInv, TypeOK, DiskTypeOK, ReaderTypeOK, OutcomeTypeOK, NeverAcked,
      ReadIsAccountedFor, Running
<1> DEFINE ahead == {s \in Rescanned : s > rpos}
           there(h) == {s \in ahead : s <= h /\ s \in DOMAIN seg}
<1>1. PICK hi \in Rescanned : \E taken \in SUBSET there(hi) :
         /\ hi \in ahead
         /\ \/ Cardinality(taken) = Batch /\ hi \in taken
            \/ Cardinality(taken) < Batch /\ \A s \in ahead : s <= hi
         /\ dropped' = dropped \cup Report(there(hi) \ taken)
         /\ batch' = taken /\ rpos' = hi
         /\ IF taken = {}
            THEN UNCHANGED <<fpc, pend>>
            ELSE fpc' = "publish" /\ \E m \in taken : (\A s \in taken : s <= m) /\ pend' = m
  BY DEF Read
<1>2. PICK taken \in SUBSET there(hi) :
         /\ hi \in ahead
         /\ Cardinality(taken) = Batch \/ Cardinality(taken) < Batch
         /\ dropped' = dropped \cup Report(there(hi) \ taken)
         /\ batch' = taken /\ rpos' = hi
         /\ IF taken = {}
            THEN UNCHANGED <<fpc, pend>>
            ELSE fpc' = "publish" /\ \E m \in taken : (\A s \in taken : s <= m) /\ pend' = m
  BY <1>1
<1>3. /\ hi \in Nat /\ hi < Len(log) /\ rpos < hi /\ Rescanned \subseteq Nat
      /\ \A j \in Numbers : ckpt < j /\ j < hi => j \in Rescanned
  BY <1>2, RescanWithoutGap
<1>4. \A j \in rpos + 1 .. hi : j \in Numbers /\ j \in DOMAIN seg /\ seg[j] = log[j + 1]
  <2> SUFFICES ASSUME NEW j \in rpos + 1 .. hi
               PROVE  j \in Numbers /\ j \in DOMAIN seg /\ seg[j] = log[j + 1]
    OBVIOUS
  <2>1. j \in Numbers /\ ckpt < j
    BY <1>0, <1>3 DEF Numbers
  <2> QED BY <1>0, <2>1 DEF DiskAgreesWithLog
<1>5. there(hi) = rpos + 1 .. hi
  <2>1. ASSUME NEW j \in rpos + 1 .. hi PROVE j \in there(hi)
    <3>1. j \in DOMAIN seg /\ j \in Numbers /\ rpos < j /\ ckpt < j /\ j <= hi
      BY <1>0, <1>3, <1>4
    <3>2. j \in Rescanned
      BY <1>0, <1>2, <1>3, <3>1 DEF Numbers
    <3> QED BY <3>1, <3>2
  <2>2. ASSUME NEW j \in there(hi) PROVE j \in rpos + 1 .. hi
    <3>1. j \in Nat /\ rpos < j /\ j <= hi
      BY <1>3
    <3> QED BY <1>0, <1>3, <3>1
  <2> HIDE DEF there, ahead
  <2> QED BY <2>1, <2>2
<1> HIDE DEF there, ahead
<1>6. taken \subseteq rpos + 1 .. hi /\ taken \in SUBSET Nat
  BY <1>0, <1>3, <1>5
<1>7. IsFiniteSet(taken) /\ Cardinality(taken) \in Nat
  <2>1. rpos + 1 \in Int /\ hi \in Int
    BY <1>0, <1>3
  <2>2. IsFiniteSet(rpos + 1 .. hi)
    BY <2>1, FS_Interval
  <2>3. IsFiniteSet(taken)
    BY <1>6, <2>2, FS_Subset
  <2> QED BY <2>3, FS_CardinalityType
<1>8. Cardinality(taken) <= Batch
  BY <1>0, <1>2, <1>7
<1>9. Report(there(hi) \ taken) = {log[j + 1] : j \in (rpos + 1 .. hi) \ taken}
  BY <1>4, <1>5 DEF Report
<1>10. IF taken = {}
       THEN UNCHANGED <<fpc, pend>>
       ELSE fpc' = "publish" /\ pend' \in taken /\ \A r \in taken : r <= pend'
  BY <1>2
<1>11. Takes(hi, taken)
  BY <1>2, <1>3, <1>6, <1>7, <1>8, <1>9, <1>10 DEF Takes
<1> QED BY <1>3, <1>6, <1>11

\* What the forwarder knows.
LEMMA KnownStep == SpoolInv /\ [Next]_vars => KnownWithoutGap'
<1> SUFFICES ASSUME SpoolInv, [Next]_vars PROVE KnownWithoutGap'
  OBVIOUS
<1>0. /\ TypeOK /\ KnownWithoutGap /\ DiskAgreesWithLog /\ NumbersWithinLog
      /\ OneWriterPerEvent /\ ReadIsAccountedFor
      /\ known \subseteq Nat /\ DOMAIN seg \subseteq Nat /\ ckpt \in Int
      /\ Len(log) \in Nat /\ pend \in Int
  BY DEF SpoolInv, TypeOK, DiskTypeOK, ReaderTypeOK, OutcomeTypeOK, NeverAcked
<1>1. Len(log) <= Len(log') /\ Len(log') \in Nat
  <2>1. TypeOK'
    BY TypeStep
  <2> QED BY LogGrows, <2>1 DEF TypeOK, OutcomeTypeOK
<1>2. \A e \in DOMAIN tmp : tmp[e].name \in Nat /\ tmp[e].name <= Len(log)
  BY <1>0, StagedType DEF NumbersWithinLog
<1> DEFINE Ahead(e) == \A j \in Numbers : ckpt < j /\ j < tmp[e].name => j \in known
\* A step that leaves the reader alone and creates no staging file it looks at.
<1>a. ASSUME UNCHANGED <<known, ckpt>>,
             \A e \in todo' \cap DOMAIN tmp' : e \in todo \cap DOMAIN tmp /\ tmp'[e].name = tmp[e].name
      PROVE  KnownWithoutGap'
  <2>1. \A k \in known' : k < Len(log')
    BY <1>0, <1>1, <1>a DEF KnownWithoutGap
  <2>2. ASSUME NEW k \in known', NEW j \in Numbers', ckpt' < j, j < k PROVE j \in known'
    <3>1. j \in Numbers
      BY <1>0, <1>a, <2>2 DEF Numbers, KnownWithoutGap
    <3> QED BY <1>0, <1>a, <2>2, <3>1 DEF KnownWithoutGap
  <2>3. ASSUME NEW e \in todo' \cap DOMAIN tmp', NEW j \in Numbers', ckpt' < j, j < tmp'[e].name
        PROVE  j \in known'
    <3>1. e \in todo \cap DOMAIN tmp /\ tmp'[e].name = tmp[e].name
      BY <1>a
    <3>2. j \in Numbers
      BY <1>0, <1>2, <2>3, <3>1 DEF Numbers
    <3> QED BY <1>0, <1>a, <2>3, <3>1, <3>2 DEF KnownWithoutGap
  <2> QED BY <2>1, <2>2, <2>3 DEF KnownWithoutGap
<1>b. ASSUME UNCHANGED <<known, ckpt, todo>>, NEW R, tmp' = Without(tmp, R)
      PROVE  KnownWithoutGap'
  <2>1. DOMAIN tmp' \subseteq DOMAIN tmp /\ \A e \in DOMAIN tmp' : tmp'[e] = tmp[e]
    BY <1>b DEF Without, Restrict
  <2> QED BY <1>a, <1>b, <2>1
<1>3. ASSUME NEW w \in Writer, Stage(w) PROVE KnownWithoutGap'
  <2>1. /\ DOMAIN tmp' = DOMAIN tmp \cup {wev[w]}
        /\ \A e \in DOMAIN tmp : e # wev[w] => tmp'[e] = tmp[e]
    BY <1>3 DEF Stage, With
  <2>2. wev[w] \notin todo /\ UNCHANGED <<known, ckpt, todo>>
    BY <1>0, <1>3 DEF Stage, OneWriterPerEvent, readerVars
  <2> QED BY <1>a, <2>1, <2>2
<1>4. ASSUME NEW w \in Writer, Collide(w) PROVE KnownWithoutGap'
  <2>1. /\ DOMAIN tmp' = DOMAIN tmp
        /\ \A e \in DOMAIN tmp : tmp'[e].name = tmp[e].name
    BY <1>0, <1>4 DEF Collide, TypeOK, DiskTypeOK
  <2> QED BY <1>4, <1>a, <2>1 DEF Collide, readerVars
<1>5. ASSUME NEW w \in Writer, FailBeforeLink(w) \/ Return(w) PROVE KnownWithoutGap'
  BY <1>5, <1>b DEF FailBeforeLink, Return, readerVars
<1>6. ASSUME NEW w \in Writer,
             \/ \E e \in Event : Scan(w, e)
             \/ RefuseFull(w) \/ Link(w) \/ CrashWriter(w)
      PROVE  KnownWithoutGap'
  BY <1>6, <1>a DEF Scan, RefuseFull, Link, CrashWriter, readerVars, diskVars
<1>7. ASSUME Open PROVE KnownWithoutGap'
  <2>1. /\ known' = DOMAIN seg /\ UNCHANGED <<seg, tmp, ckpt, log>> /\ todo' \subseteq DOMAIN tmp
    BY <1>7 DEF Open, diskVars, histVars
  <2>2. \A j \in Numbers : ckpt < j => j \in DOMAIN seg
    BY <1>0 DEF DiskAgreesWithLog
  <2> QED BY <1>0, <2>1, <2>2 DEF KnownWithoutGap, DiskAgreesWithLog, Numbers
<1>8. ASSUME NEW e \in Event, Promote(e) PROVE KnownWithoutGap'
  <2> DEFINE n == tmp[e].name
  <2>1. /\ known' = known \cup {n} /\ ckpt' = ckpt /\ todo' = todo \ {e}
        /\ tmp' = Without(tmp, {e}) /\ e \in todo \cap DOMAIN tmp
        /\ Record(e, n) /\ n \notin DOMAIN seg /\ n \in Nat /\ n <= Len(log)
    BY <1>2, <1>8 DEF Promote, Promotable
  <2>2. \A j \in Numbers : ckpt < j /\ j < n => j \in known
    BY <1>0, <2>1 DEF KnownWithoutGap
  <2>3. DOMAIN tmp' = DOMAIN tmp \ {e} /\ \A d \in DOMAIN tmp' : tmp'[d] = tmp[d]
    BY <2>1 DEF Without, Restrict
  <2> HIDE DEF n
  <2>4. n < Len(log')
    <3>1. (n <= ckpt => log' = log) /\ (ckpt < n => n = Len(log) /\ Len(log') = Len(log) + 1)
      BY <2>1, CommitAppends
    <3> QED BY <1>0, <1>1, <2>1, <3>1 DEF DiskAgreesWithLog
  <2>5. \A k \in known' : k < Len(log')
    BY <1>0, <1>1, <2>1, <2>4 DEF KnownWithoutGap
  <2>6. ASSUME NEW k \in known', NEW j \in Numbers', ckpt' < j, j < k PROVE j \in known'
    <3>1. k \in Nat /\ k <= Len(log)
      BY <1>0, <2>1 DEF KnownWithoutGap
    <3>2. j \in Numbers
      BY <1>0, <2>6, <3>1 DEF Numbers
    <3> QED BY <1>0, <2>1, <2>2, <2>6, <3>2 DEF KnownWithoutGap
  <2>7. ASSUME NEW d \in todo' \cap DOMAIN tmp', NEW j \in Numbers', ckpt' < j, j < tmp'[d].name
        PROVE  j \in known'
    <3>1. d \in todo \cap DOMAIN tmp /\ tmp'[d] = tmp[d]
      BY <2>1, <2>3
    <3>2. j \in Numbers
      BY <1>0, <1>2, <2>7, <3>1 DEF Numbers
    <3> QED BY <1>0, <2>1, <2>7, <3>1, <3>2 DEF KnownWithoutGap
  <2> QED BY <2>5, <2>6, <2>7 DEF KnownWithoutGap
<1>9. ASSUME NEW e \in Event, Discard(e) PROVE KnownWithoutGap'
  <2>1. /\ UNCHANGED <<known, ckpt>> /\ todo' = todo \ {e} /\ tmp' = Without(tmp, {e})
    BY <1>9 DEF Discard
  <2>2. DOMAIN tmp' \subseteq DOMAIN tmp /\ \A d \in DOMAIN tmp' : tmp'[d] = tmp[d]
    BY <2>1 DEF Without, Restrict
  <2> QED BY <1>a, <2>1, <2>2
<1>10. ASSUME Read PROVE KnownWithoutGap'
  <2>1. known' = Rescanned /\ UNCHANGED <<ckpt, tmp, todo, log>> /\ todo = {}
    BY <1>0, <1>10 DEF Read, diskVars, histVars, ReadIsAccountedFor
  <2> QED BY <2>1, RescanWithoutGap DEF KnownWithoutGap, Numbers
<1>11. ASSUME Advance PROVE KnownWithoutGap'
  <2>1. ckpt' = pend /\ ckpt < pend /\ UNCHANGED <<known, todo, log>> /\ todo = {}
    BY <1>0, <1>11 DEF Advance, ReadIsAccountedFor, histVars
  <2> QED BY <1>0, <2>1 DEF KnownWithoutGap, Numbers
<1>12. ASSUME Reclaim PROVE KnownWithoutGap'
  <2>1. PICK s \in Reclaimable : known' = known \ {s}
    BY <1>12 DEF Reclaim
  <2>2. s <= ckpt /\ s \in Nat
    BY <1>0, <2>1 DEF Reclaimable
  <2>3. UNCHANGED <<ckpt, todo, log>> /\ todo = {}
    BY <1>0, <1>12 DEF Reclaim, ReadIsAccountedFor, histVars
  <2>4. Numbers' = Numbers /\ \A j \in Numbers : ckpt < j => j # s
    BY <1>0, <2>2, <2>3 DEF Numbers
  <2>5. \A k \in known' : k < Len(log) /\ \A j \in Numbers : ckpt < j /\ j < k => j \in known'
    BY <1>0, <2>1, <2>4 DEF KnownWithoutGap
  <2> QED BY <2>3, <2>4, <2>5 DEF KnownWithoutGap
<1>13. ASSUME CrashForwarder \/ PublishUnacknowledged PROVE KnownWithoutGap'
  BY <1>13 DEF CrashForwarder, PublishUnacknowledged, Exit, KnownWithoutGap
<1>14. ASSUME Recovered \/ Publish \/ Reclaimed \/ UNCHANGED vars PROVE KnownWithoutGap'
  BY <1>14, <1>a DEF Recovered, Publish, Reclaimed, vars, diskVars, readerVars
<1> QED
  BY <1>3, <1>4, <1>5, <1>6, <1>7, <1>8, <1>9, <1>10, <1>11, <1>12, <1>13, <1>14
  DEF Next, WriterStep, ForwarderStep, RecoveryStep, DrainStep

\* What lies behind the reader.
LEMMA ReadStep == SpoolInv /\ [Next]_vars => ReadIsAccountedFor'
<1> SUFFICES ASSUME SpoolInv, [Next]_vars PROVE ReadIsAccountedFor'
  OBVIOUS
<1>0. /\ TypeOK /\ KnownWithoutGap /\ DiskAgreesWithLog /\ ReadIsAccountedFor
      /\ known \subseteq Nat /\ batch \subseteq Nat /\ ckpt \in Int
      /\ Len(log) \in Nat /\ pend \in Int /\ rpos \in Int
      /\ fpc \in {"down", "recover", "idle", "publish", "ack", "reclaim"}
  BY DEF SpoolInv, TypeOK, DiskTypeOK, ReaderTypeOK, OutcomeTypeOK, NeverAcked
<1>1. /\ Len(log) <= Len(log') /\ Len(log') \in Nat
      /\ \A i \in 1 .. Len(log) : log'[i] = log[i]
  <2>1. TypeOK'
    BY TypeStep
  <2> QED BY LogGrows, <2>1 DEF TypeOK, OutcomeTypeOK
<1>s. Settled \subseteq Settled'
  BY SettledGrows
\* A step of a writer, or a step of recovery, moves none of this.
<1>a. ASSUME UNCHANGED <<fpc, rpos, batch, pend, ckpt>>, todo' \subseteq todo
      PROVE  ReadIsAccountedFor'
  <2>1. ASSUME fpc' \in Running, NEW j \in Numbers', ckpt' < j, j <= rpos'
        PROVE  log'[j + 1] \in Settled' \/ j \in batch'
    <3>1. j \in Numbers /\ j + 1 \in 1 .. Len(log)
      BY <1>0, <1>a, <2>1 DEF Numbers, ReadIsAccountedFor
    <3> QED BY <1>0, <1>1, <1>a, <1>s, <2>1, <3>1 DEF ReadIsAccountedFor
  <2>2. fpc' \in Running \cup {"recover"} => ckpt' <= rpos' /\ rpos' < Len(log')
    BY <1>0, <1>1, <1>a DEF ReadIsAccountedFor
  <2> QED BY <1>0, <1>a, <2>1, <2>2 DEF ReadIsAccountedFor
<1>2. ASSUME NEW w \in Writer, WriterStep(w) PROVE ReadIsAccountedFor'
  BY <1>2, <1>a
  DEF WriterStep, Scan, RefuseFull, Stage, Link, Collide, FailBeforeLink, Return, CrashWriter,
      diskVars, readerVars
<1>3. ASSUME NEW e \in Event, Promote(e) \/ Discard(e) PROVE ReadIsAccountedFor'
  BY <1>3, <1>a DEF Promote, Discard
<1>4. ASSUME Open PROVE ReadIsAccountedFor'
  <2>1. /\ fpc' = "recover" /\ rpos' = ckpt /\ UNCHANGED <<ckpt, log, batch>> /\ batch = {}
    BY <1>0, <1>4 DEF Open, ReadIsAccountedFor, diskVars, histVars
  <2> QED BY <1>0, <2>1 DEF ReadIsAccountedFor, Running, DiskAgreesWithLog
<1>5. ASSUME Recovered PROVE ReadIsAccountedFor'
  <2>1. /\ fpc = "recover" /\ fpc' = "idle" /\ rpos = ckpt /\ todo = {} /\ batch = {}
        /\ UNCHANGED <<rpos, ckpt, log, batch, todo, pend>>
    BY <1>0, <1>5 DEF Recovered, ReadIsAccountedFor, diskVars, histVars
  <2> QED BY <1>0, <2>1 DEF ReadIsAccountedFor, Running, Numbers
<1>6. ASSUME Read PROVE ReadIsAccountedFor'
  <2>1. PICK hi \in Nat : \E taken \in SUBSET Nat : Takes(hi, taken)
    BY <1>6, ReadTakes
  <2>2. PICK taken \in SUBSET Nat : Takes(hi, taken)
    BY <2>1
  <2>3. /\ fpc = "idle" /\ batch = {} /\ todo = {} /\ ckpt <= rpos
        /\ UNCHANGED <<ckpt, log, todo>>
        /\ \A j \in Numbers : ckpt < j /\ j <= rpos => log[j + 1] \in Settled
    BY <1>0, <1>6 DEF Read, ReadIsAccountedFor, Running, diskVars, histVars
  <2>4. ASSUME NEW j \in Numbers, ckpt < j, j <= hi PROVE log[j + 1] \in Settled' \/ j \in taken
    <3>1. CASE j <= rpos
      BY <1>s, <2>3, <2>4, <3>1
    <3>2. CASE rpos < j
      <4>1. j \in rpos + 1 .. hi
        BY <1>0, <2>4, <3>2 DEF Numbers
      <4> QED BY <2>2, <4>1 DEF Takes, Settled
    <3> QED BY <1>0, <3>1, <3>2 DEF Numbers
  <2>5. ASSUME NEW s \in taken PROVE ckpt < s /\ s <= hi /\ s \in Nat
    <3>1. s \in rpos + 1 .. hi
      BY <2>2 DEF Takes
    <3> QED BY <1>0, <2>3, <3>1
  <2>6. /\ batch' = taken /\ rpos' = hi /\ rpos < hi /\ hi < Len(log)
        /\ fpc' = (IF taken = {} THEN "idle" ELSE "publish")
        /\ taken # {} => pend' \in taken
    BY <2>2, <2>3 DEF Takes
  <2>7. taken # {} => ckpt' < pend' /\ pend' <= rpos'
    BY <2>3, <2>5, <2>6
  <2>8. /\ ckpt' <= rpos' /\ rpos' < Len(log')
        /\ \A s \in batch' : ckpt' < s /\ s <= rpos'
        /\ \A j \in Numbers' : ckpt' < j /\ j <= rpos' => log'[j + 1] \in Settled' \/ j \in batch'
    BY <1>0, <2>3, <2>4, <2>5, <2>6 DEF Numbers
  <2> QED BY <2>3, <2>6, <2>7, <2>8 DEF ReadIsAccountedFor, Running
<1>7. ASSUME Publish PROVE ReadIsAccountedFor'
  <2>1. PICK s \in batch : /\ published' = published \cup {seg[s]} /\ batch' = batch \ {s}
    BY <1>7 DEF Publish, Store
  <2>2. /\ fpc = "publish" /\ fpc' = (IF batch' = {} THEN "ack" ELSE "publish")
        /\ UNCHANGED <<rpos, pend, ckpt, log, todo>>
    BY <1>7 DEF Publish, diskVars
  <2>3. seg[s] = log[s + 1]
    BY <2>1, BatchIsOnDisk
  <2>4. \A j \in Numbers : ckpt < j /\ j <= rpos => log[j + 1] \in Settled' \/ j \in batch'
    BY <1>0, <1>s, <2>1, <2>2, <2>3 DEF ReadIsAccountedFor, Running, Settled
  <2>5. fpc' # "publish" => batch' = {}
    BY <2>2
  <2>6. fpc' \in {"publish", "ack"} /\ todo = {}
    BY <1>0, <2>2 DEF ReadIsAccountedFor
  <2>7. /\ ckpt <= rpos /\ rpos < Len(log) /\ ckpt < pend /\ pend <= rpos
        /\ \A x \in batch : ckpt < x /\ x <= rpos
    BY <1>0, <2>2 DEF ReadIsAccountedFor, Running
  <2> QED BY <2>1, <2>2, <2>4, <2>5, <2>6, <2>7 DEF ReadIsAccountedFor, Running, Numbers
<1>8. ASSUME Advance PROVE ReadIsAccountedFor'
  <2>1. /\ fpc = "ack" /\ fpc' = "reclaim" /\ ckpt' = pend
        /\ UNCHANGED <<rpos, pend, batch, todo, log>>
        /\ batch = {} /\ todo = {} /\ ckpt < pend /\ pend <= rpos /\ rpos < Len(log)
        /\ \A j \in Numbers : ckpt < j /\ j <= rpos => log[j + 1] \in Settled
    BY <1>0, <1>8 DEF Advance, ReadIsAccountedFor, Running, histVars
  <2> QED BY <1>0, <1>s, <2>1 DEF ReadIsAccountedFor, Running, Numbers
<1>9. ASSUME Reclaim \/ Reclaimed PROVE ReadIsAccountedFor'
  <2>1. /\ fpc = "reclaim" /\ fpc' \in {"reclaim", "idle"}
        /\ UNCHANGED <<rpos, pend, batch, todo, log, ckpt>>
    BY <1>9 DEF Reclaim, Reclaimed, diskVars, histVars
  <2>2. /\ batch = {} /\ todo = {} /\ ckpt <= rpos /\ rpos < Len(log)
        /\ \A j \in Numbers : ckpt < j /\ j <= rpos => log[j + 1] \in Settled
    BY <1>0, <2>1 DEF ReadIsAccountedFor, Running
  <2> QED BY <1>0, <1>s, <2>1, <2>2 DEF ReadIsAccountedFor, Running, Numbers
<1>10. ASSUME CrashForwarder \/ PublishUnacknowledged PROVE ReadIsAccountedFor'
  <2>1. fpc' = "down" /\ batch' = {} /\ todo' = {}
    BY <1>10 DEF CrashForwarder, PublishUnacknowledged, Exit
  <2> QED BY <2>1 DEF ReadIsAccountedFor, Running
<1>11. ASSUME UNCHANGED vars PROVE ReadIsAccountedFor'
  BY <1>11, <1>a DEF vars, diskVars, readerVars
<1> QED
  BY <1>2, <1>3, <1>4, <1>5, <1>6, <1>7, <1>8, <1>9, <1>10, <1>11
  DEF Next, ForwarderStep, RecoveryStep, DrainStep

-----------------------------------------------------------------------------
(* Theorems.                                                                *)

\* The empty directory satisfies the invariant.
LEMMA InitInv == Init => SpoolInv
<1> SUFFICES ASSUME Init PROVE SpoolInv
  OBVIOUS
<1> USE SpoolAssumption DEF Init, NeverAcked
<1>0. seg = << >> /\ tmp = << >> /\ DOMAIN seg = {} /\ DOMAIN tmp = {} /\ log = << >> /\ Len(log) = 0
  OBVIOUS
<1>1. DiskTypeOK
  BY <1>0 DEF DiskTypeOK
<1>2. WriterTypeOK /\ ReaderTypeOK /\ OutcomeTypeOK
  BY <1>0 DEF WriterTypeOK, ReaderTypeOK, OutcomeTypeOK
<1>3. DiskAgreesWithLog /\ NumbersWithinLog
  BY <1>0 DEF DiskAgreesWithLog, NumbersWithinLog, Numbers
<1>4. OneWriterPerEvent /\ KnownWithoutGap /\ ReadIsAccountedFor
  BY <1>0 DEF OneWriterPerEvent, KnownWithoutGap, ReadIsAccountedFor, Running
<1> QED BY <1>1, <1>2, <1>3, <1>4 DEF SpoolInv, TypeOK

\* The directory, the writers' numbers and the forwarder's cursor agree with the log
\* in every reachable state.
THEOREM SpoolInvariant == Spec => []SpoolInv
<1>1. SpoolInv /\ [Next]_vars => SpoolInv'
  BY TypeStep, DiskStep, NumbersStep, OneWriterStep, KnownStep, ReadStep DEF SpoolInv
<1> QED BY InitInv, <1>1, PTL DEF Spec

\* Every variable of the spool keeps its type.
THEOREM TypeCorrect == Spec => []TypeOK
<1>1. SpoolInv => TypeOK
  BY DEF SpoolInv
<1> QED BY <1>1, SpoolInvariant, PTL

\* No interleaving of writers, crashes, restarts and publish failures loses an event
\* that was committed above the checkpoint.
THEOREM NothingLoggedIsLost == Spec => []NoSilentLoss
<1>1. SpoolInv => NoSilentLoss
  <2> SUFFICES ASSUME SpoolInv, NEW i \in 1 .. Len(log), log[i] \notin Settled
               PROVE  i - 1 > ckpt /\ i - 1 \in DOMAIN seg /\ seg[i - 1] = log[i]
    BY DEF NoSilentLoss
  <2>1. DiskAgreesWithLog /\ ckpt \in Int /\ Len(log) \in Nat
    BY DEF SpoolInv, TypeOK, DiskTypeOK, OutcomeTypeOK, NeverAcked
  <2>2. ckpt < i - 1
    BY <2>1 DEF DiskAgreesWithLog
  <2>3. i - 1 \in Numbers /\ (i - 1) + 1 = i
    BY <2>1 DEF Numbers
  <2> QED BY <2>1, <2>2, <2>3 DEF DiskAgreesWithLog
<1> QED BY <1>1, SpoolInvariant, PTL

\* A commit never replaces a segment another process has committed.
THEOREM NoSegmentIsReplaced == Spec => SegmentNeverReplaced
<1> DEFINE Kept == \A s \in DOMAIN seg \cap DOMAIN seg' : seg'[s] = seg[s]
<1>1. SpoolInv /\ [Next]_vars => [Kept]_vars
  <2> SUFFICES ASSUME SpoolInv, [Next]_vars PROVE Kept
    OBVIOUS
  <2>a. ASSUME NEW R, seg' = Without(seg, R) PROVE Kept
    BY <2>a DEF Without, Restrict
  <2>b. ASSUME NEW e, NEW s, s \notin DOMAIN seg, Record(e, s) PROVE Kept
    BY <2>b DEF Record, With
  <2>1. ASSUME NEW w \in Writer, WriterStep(w) PROVE Kept
    <3>1. CASE RefuseFull(w) \/ Stage(w)
      BY <3>1, <2>a DEF RefuseFull, Stage
    <3>2. CASE Link(w)
      BY <3>2, <2>b DEF Link
    <3>3. CASE UNCHANGED seg
      BY <3>3
    <3> QED BY <2>1, <3>1, <3>2, <3>3
        DEF WriterStep, Scan, Collide, FailBeforeLink, Return, CrashWriter, diskVars
  <2>2. ASSUME NEW e \in Event, Promote(e) PROVE Kept
    BY <2>2, <2>b DEF Promote, Promotable
  <2>3. ASSUME Reclaim PROVE Kept
    BY <2>3, <2>a DEF Reclaim
  <2>4. CASE UNCHANGED seg
    BY <2>4
  <2> QED BY <2>1, <2>2, <2>3, <2>4
      DEF Next, ForwarderStep, RecoveryStep, DrainStep, Open, Discard, Recovered, Read, Publish,
          Advance, Reclaimed, CrashForwarder, PublishUnacknowledged, diskVars, vars
<1> QED BY <1>1, SpoolInvariant, PTL DEF Spec, SegmentNeverReplaced

-----------------------------------------------------------------------------
(* Order: an event enters the log once, and is published in its turn.       *)

LoggedOnce == \A i, j \in 1 .. Len(log) : log[i] = log[j] => i = j

\* The staging file of an event that was logged, left by a writer that died after its
\* link, has the number it was logged at: recovery finds that number taken or acknowledged.
StagingOfLogged ==
  \A e \in DOMAIN tmp : \A i \in 1 .. Len(log) : log[i] = e => tmp[e].hdr = i - 1

\* What a writer has still to commit was not committed by another process.
NotYetLogged ==
  /\ \A w \in Writer :
       wpc[w] = "scanned" \/ (wpc[w] = "staged" /\ wev[w] \in DOMAIN tmp) => wev[w] \notin Logged
  /\ \A e \in Event : status[e] = "new" => e \notin Logged

\* What the reader holds ends at the last number it took; what it passed over is reported.
BatchIsAhead ==
  /\ fpc = "publish" => pend \in batch
  /\ \A r \in batch : r <= pend
  /\ \A r \in batch : \A j \in r .. rpos : j \in batch \/ log[j + 1] \in dropped

OrderInv ==
  /\ LoggedOnce /\ StagingOfLogged /\ NotYetLogged /\ published \subseteq Logged
  /\ PublishedInOrder /\ BatchIsAhead

\* A commit of a staging file appends an event the log does not hold, or logs nothing.
LEMMA CommitsOnce ==
  ASSUME SpoolInv, StagingOfLogged, NEW e \in DOMAIN tmp, NEW s, s = tmp[e].hdr,
         s \notin DOMAIN seg, Record(e, s)
  PROVE  \/ log' = log
         \/ e \notin Logged /\ s = Len(log) /\ ckpt < s /\ log' = Append(log, e)
<1>1. /\ e \in Event /\ s \in Nat /\ s <= Len(log) /\ ckpt \in Int /\ log \in Seq(Event)
      /\ Len(log) \in Nat
  BY StagedType DEF SpoolInv, TypeOK, DiskTypeOK, OutcomeTypeOK, NumbersWithinLog, NeverAcked
<1>2. CASE s <= ckpt
  BY <1>1, <1>2 DEF Record
<1>3. CASE ckpt < s
  <2>1. s = Len(log) /\ log' = Append(log, e)
    BY <1>1, <1>3, FreeNumberIsNext DEF Record
  <2>2. e \notin Logged
    <3> SUFFICES ASSUME NEW i \in 1 .. Len(log), log[i] = e PROVE FALSE
      BY DEF Logged
    <3>1. tmp[e].hdr = i - 1
      BY DEF StagingOfLogged
    <3>2. i - 1 < Len(log) /\ i - 1 \in Int
      BY <1>1
    <3>3. i - 1 = Len(log)
      BY <2>1, <3>1
    <3> QED BY <1>1, <3>2, <3>3
  <2> QED BY <1>3, <2>1, <2>2
<1> QED BY <1>1, <1>2, <1>3

\* A log that grows by an event it did not hold.
LEMMA AppendedOnce ==
  ASSUME SpoolInv, OrderInv, NEW e \in Event, e \notin Logged, log' = Append(log, e)
  PROVE  /\ Len(log') = Len(log) + 1 /\ log'[Len(log) + 1] = e
         /\ \A i \in 1 .. Len(log) : log'[i] = log[i]
         /\ Logged' = Logged \cup {e} /\ LoggedOnce'
<1>1. log \in Seq(Event) /\ Len(log) \in Nat
  BY DEF SpoolInv, TypeOK, OutcomeTypeOK
<1>2. /\ Len(log') = Len(log) + 1 /\ log'[Len(log) + 1] = e
      /\ \A i \in 1 .. Len(log) : log'[i] = log[i]
  BY <1>1
<1>3. Logged' = Logged \cup {e}
  <2>1. \A i \in 1 .. Len(log') : i \in 1 .. Len(log) \/ i = Len(log) + 1
    BY <1>1, <1>2
  <2>2. Logged' \subseteq Logged \cup {e}
    BY <1>2, <2>1 DEF Logged
  <2>3. Len(log) + 1 \in 1 .. Len(log') /\ 1 .. Len(log) \subseteq 1 .. Len(log')
    BY <1>1, <1>2
  <2>4. Logged \cup {e} \subseteq Logged'
    BY <1>2, <2>3 DEF Logged
  <2> QED BY <2>2, <2>4
<1>4. LoggedOnce'
  <2> SUFFICES ASSUME NEW i \in 1 .. Len(log'), NEW j \in 1 .. Len(log'), log'[i] = log'[j]
               PROVE  i = j
    BY DEF LoggedOnce
  <2>1. \A k \in 1 .. Len(log) : log[k] # e
    BY DEF Logged
  <2> QED BY <1>1, <1>2, <2>1 DEF OrderInv, LoggedOnce
<1> QED BY <1>2, <1>3, <1>4

\* What is published stays in order when the log grows by an event not published.
LEMMA OrderKeptByLog ==
  ASSUME SpoolInv, OrderInv, NEW e \in Event, e \notin Logged, log' = Append(log, e),
         published' = published, Settled \subseteq Settled'
  PROVE  published' \subseteq Logged' /\ PublishedInOrder'
<1>1. /\ Len(log') = Len(log) + 1 /\ log'[Len(log) + 1] = e /\ Len(log) \in Nat
      /\ \A i \in 1 .. Len(log) : log'[i] = log[i]
      /\ Logged' = Logged \cup {e}
  BY AppendedOnce DEF SpoolInv, TypeOK, OutcomeTypeOK
<1>2. e \notin published
  BY DEF OrderInv
<1>3. PublishedInOrder'
  <2> SUFFICES ASSUME NEW i \in 1 .. Len(log'), NEW j \in 1 .. Len(log'), i < j,
                      log'[j] \in published
               PROVE  log'[i] \in Settled'
    BY DEF PublishedInOrder
  <2> QED BY <1>1, <1>2 DEF OrderInv, PublishedInOrder
<1> QED BY <1>1, <1>3 DEF OrderInv

\* The same parts when neither the log nor JetStream changes.
LEMMA OrderKept ==
  ASSUME OrderInv, UNCHANGED <<log, published>>, Settled \subseteq Settled'
  PROVE  LoggedOnce' /\ Logged' = Logged /\ published' \subseteq Logged' /\ PublishedInOrder'
BY DEF OrderInv, LoggedOnce, Logged, PublishedInOrder

\* Every step of the forwarder keeps it so.
LEMMA BatchStep ==
  ASSUME SpoolInv, BatchIsAhead, [Next]_vars
  PROVE  BatchIsAhead'
<1>0. /\ batch \subseteq Nat /\ ReadIsAccountedFor
      /\ fpc \in {"down", "recover", "idle", "publish", "ack", "reclaim"}
  BY DEF SpoolInv, TypeOK, ReaderTypeOK
<1>1. /\ Len(log) \in Nat /\ rpos \in Int /\ batch \subseteq Nat
      /\ \A r \in batch : \A j \in r .. rpos : j + 1 \in 1 .. Len(log)
  <2>1. Len(log) \in Nat /\ rpos \in Int
    BY DEF SpoolInv, TypeOK, ReaderTypeOK, OutcomeTypeOK, NeverAcked
  <2>2. batch # {} => rpos < Len(log)
    BY DEF SpoolInv, ReadIsAccountedFor, Running
  <2> QED BY <1>0, <2>1, <2>2
<1>g. \A i \in 1 .. Len(log) : log'[i] = log[i]
  BY LogGrows
<1>b. ASSUME UNCHANGED <<fpc, pend, batch, rpos, dropped>> PROVE BatchIsAhead'
  <2>1. ASSUME NEW r \in batch, NEW j \in r .. rpos PROVE j \in batch \/ log'[j + 1] \in dropped
    BY <1>1, <1>g, <2>1 DEF BatchIsAhead
  <2> QED BY <1>b, <2>1 DEF BatchIsAhead
<1>2. ASSUME NEW w \in Writer, WriterStep(w) PROVE BatchIsAhead'
  BY <1>b, <1>2
  DEF WriterStep, Scan, RefuseFull, Stage, Link, Collide, FailBeforeLink, Return, CrashWriter,
      diskVars, readerVars
<1>3. ASSUME NEW e \in Event, Promote(e) \/ Discard(e) PROVE BatchIsAhead'
  BY <1>b, <1>3 DEF Promote, Discard
<1>4. CASE Open \/ Recovered \/ Advance \/ Reclaim \/ Reclaimed
  <2>1. batch' = {} /\ fpc' # "publish"
    BY <1>0, <1>4 DEF Open, Recovered, Advance, Reclaim, Reclaimed, ReadIsAccountedFor
  <2> QED BY <2>1 DEF BatchIsAhead
<1>5. CASE Read
  <2>1. PICK hi \in Nat : \E taken \in SUBSET Nat : Takes(hi, taken)
    BY <1>5, ReadTakes
  <2>2. PICK taken \in SUBSET Nat : Takes(hi, taken)
    BY <2>1
  <2>3. fpc = "idle" /\ log' = log
    BY <1>5 DEF Read, histVars
  <2>4. /\ taken \subseteq rpos + 1 .. hi /\ batch' = taken /\ rpos' = hi
        /\ \A j \in (rpos + 1 .. hi) \ taken : log[j + 1] \in dropped'
        /\ fpc' = (IF taken = {} THEN "idle" ELSE "publish")
        /\ taken # {} => pend' \in taken /\ \A r \in taken : r <= pend'
    BY <2>2, <2>3 DEF Takes
  <2>5. ASSUME NEW r \in taken, NEW j \in r .. hi PROVE j \in taken \/ log[j + 1] \in dropped'
    <3>1. j \in rpos + 1 .. hi
      BY <1>1, <2>4, <2>5
    <3> QED BY <2>4, <3>1
  <2> QED BY <2>3, <2>4, <2>5 DEF BatchIsAhead
<1>6. CASE Publish
  <2>1. PICK s \in batch : IsNextToPublish(s) /\ batch' = batch \ {s}
    BY <1>6 DEF Publish
  <2>2. /\ fpc = "publish" /\ fpc' = (IF batch' = {} THEN "ack" ELSE "publish")
        /\ UNCHANGED <<pend, rpos, dropped, log>>
    BY <1>6 DEF Publish
  <2>3. batch' # {} => pend \in batch'
    <3> SUFFICES ASSUME NEW r \in batch' PROVE pend \in batch'
      OBVIOUS
    <3>1. /\ r \in batch /\ r # s /\ s <= r /\ r <= pend /\ pend \in batch
          /\ r \in Nat /\ s \in Nat /\ pend \in Nat
      BY <1>0, <2>1, <2>2 DEF BatchIsAhead, IsNextToPublish
    <3> QED BY <2>1, <3>1
  <2>4. ASSUME NEW r \in batch', NEW j \in r .. rpos PROVE j \in batch' \/ log[j + 1] \in dropped
    <3>1. r \in batch /\ r # s /\ s <= r /\ r \in Nat /\ s \in Nat
      BY <1>0, <2>1, <2>4 DEF IsNextToPublish
    <3>2. j # s
      BY <1>1, <2>4, <3>1
    <3> QED BY <2>1, <2>4, <3>1, <3>2 DEF BatchIsAhead
  <2> QED BY <2>1, <2>2, <2>3, <2>4 DEF BatchIsAhead
<1>7. CASE CrashForwarder \/ PublishUnacknowledged
  BY <1>7 DEF CrashForwarder, PublishUnacknowledged, Exit, BatchIsAhead
<1>8. CASE UNCHANGED vars
  BY <1>b, <1>8 DEF vars, readerVars
<1> QED
  BY <1>2, <1>3, <1>4, <1>5, <1>6, <1>7, <1>8
  DEF Next, ForwarderStep, RecoveryStep, DrainStep

\* The order of what is logged and published, without the batch.
LogOrder ==
  /\ LoggedOnce /\ StagingOfLogged /\ NotYetLogged /\ published \subseteq Logged
  /\ PublishedInOrder

\* What a step that logs nothing must leave alone.
LEMMA QuietStep ==
  ASSUME SpoolInv, OrderInv, UNCHANGED <<log, published>>, Settled \subseteq Settled',
         \A e \in DOMAIN tmp' : e \in Logged => e \in DOMAIN tmp /\ tmp'[e].hdr = tmp[e].hdr,
         \A w \in Writer :
           wpc'[w] = "scanned" \/ (wpc'[w] = "staged" /\ wev'[w] \in DOMAIN tmp') =>
             wev'[w] \notin Logged,
         \A e \in Event : status'[e] = "new" => status[e] = "new"
  PROVE  LogOrder'
<1>1. LoggedOnce' /\ Logged' = Logged /\ published' \subseteq Logged' /\ PublishedInOrder'
  BY OrderKept
<1>2. StagingOfLogged'
  BY DEF OrderInv, StagingOfLogged, Logged
<1>3. NotYetLogged'
  BY <1>1 DEF OrderInv, NotYetLogged
<1> QED BY <1>1, <1>2, <1>3 DEF LogOrder

\* A commit of the staging file of e: the log stays as it is or grows by e.
LEMMA CommitOrder ==
  ASSUME SpoolInv, OrderInv, NEW e \in DOMAIN tmp, NEW s, s = tmp[e].hdr, s \notin DOMAIN seg,
         Record(e, s), UNCHANGED <<published, wev, status>>, Settled \subseteq Settled',
         DOMAIN tmp' \subseteq DOMAIN tmp, \A d \in DOMAIN tmp' : tmp'[d] = tmp[d],
         \A w \in Writer :
           /\ wpc'[w] = "scanned" => wpc[w] = "scanned"
           /\ wpc'[w] = "staged" => wpc[w] = "staged"
           /\ wpc'[w] = "staged" => wev[w] # e \/ e \notin DOMAIN tmp'
  PROVE  LogOrder'
<1>0. /\ e \in Event /\ OneWriterPerEvent /\ log \in Seq(Event) /\ Len(log) \in Nat
      /\ wpc \in [Writer -> {"idle", "scanned", "staged", "linked"}]
  BY StagedType DEF SpoolInv, TypeOK, OutcomeTypeOK, WriterTypeOK
<1>1. CASE log' = log
  <2>1. \A w \in Writer :
          wpc'[w] = "scanned" \/ (wpc'[w] = "staged" /\ wev'[w] \in DOMAIN tmp') =>
            wev'[w] \notin Logged
    BY DEF OrderInv, NotYetLogged
  <2> QED BY <1>1, <2>1, QuietStep
<1>2. CASE e \notin Logged /\ s = Len(log) /\ log' = Append(log, e)
  <2>1. /\ Len(log') = Len(log) + 1 /\ log'[Len(log) + 1] = e
        /\ \A i \in 1 .. Len(log) : log'[i] = log[i]
        /\ Logged' = Logged \cup {e} /\ LoggedOnce'
    BY <1>0, <1>2, AppendedOnce
  <2>2. published' \subseteq Logged' /\ PublishedInOrder'
    BY <1>0, <1>2, OrderKeptByLog
  <2>3. StagingOfLogged'
    <3> SUFFICES ASSUME NEW d \in DOMAIN tmp', NEW i \in 1 .. Len(log'), log'[i] = d
                 PROVE  tmp'[d].hdr = i - 1
      BY DEF StagingOfLogged
    <3>1. d \in DOMAIN tmp /\ tmp'[d] = tmp[d]
      OBVIOUS
    <3>2. CASE i \in 1 .. Len(log)
      <4>1. log[i] = d
        BY <2>1, <3>2
      <4> QED BY <3>1, <3>2, <4>1 DEF OrderInv, StagingOfLogged
    <3>3. CASE i = Len(log) + 1
      <4>1. d = e
        BY <2>1, <3>3
      <4>2. tmp'[d].hdr = Len(log)
        BY <1>2, <3>1, <4>1
      <4> QED BY <1>0, <3>3, <4>2
    <3> QED BY <1>0, <2>1, <3>2, <3>3
  <2>4. NotYetLogged'
    <3>1. ASSUME NEW w \in Writer,
                 wpc'[w] = "scanned" \/ (wpc'[w] = "staged" /\ wev'[w] \in DOMAIN tmp')
          PROVE  wev'[w] \notin Logged'
      <4>1. wev[w] \notin Logged
        BY <3>1 DEF OrderInv, NotYetLogged
      <4>2. wev[w] # e
        BY <1>0, <3>1 DEF OneWriterPerEvent
      <4> QED BY <2>1, <4>1, <4>2
    <3>2. ASSUME NEW d \in Event, status'[d] = "new" PROVE d \notin Logged'
      <4>1. d \notin Logged /\ d # e
        BY <1>0, <3>2 DEF OrderInv, NotYetLogged, OneWriterPerEvent
      <4> QED BY <2>1, <4>1
    <3> QED BY <3>1, <3>2 DEF NotYetLogged
  <2> QED BY <2>1, <2>2, <2>3, <2>4 DEF LogOrder
<1>3. SpoolInv /\ StagingOfLogged
  BY DEF OrderInv
<1> QED BY <1>1, <1>2, <1>3, CommitsOnce

\* All before the least of a batch is settled.
LEMMA NextInOrder ==
  ASSUME SpoolInv, OrderInv, fpc = "publish", NEW s \in batch, IsNextToPublish(s)
  PROVE  /\ s \in Numbers /\ seg[s] = log[s + 1] /\ ckpt < s /\ s <= rpos
         /\ \A j \in Numbers : j < s => log[j + 1] \in Settled
<1>1. /\ ckpt \in Int /\ rpos \in Int /\ batch \subseteq Nat /\ log \in Seq(Event) /\ Len(log) \in Nat
      /\ DiskAgreesWithLog /\ ReadIsAccountedFor
  BY DEF SpoolInv, TypeOK, DiskTypeOK, ReaderTypeOK, OutcomeTypeOK, NeverAcked
<1>2. s \in Numbers /\ seg[s] = log[s + 1] /\ ckpt < s /\ s <= rpos
  BY <1>1, BatchIsOnDisk DEF ReadIsAccountedFor
<1>3. ASSUME NEW j \in Numbers, j < s PROVE log[j + 1] \in Settled
  <2>0. j \in Nat /\ s \in Nat /\ j < Len(log)
    BY <1>1, <1>2 DEF Numbers
  <2>1. CASE j <= ckpt
    <3>1. j + 1 \in 1 .. Len(log) /\ j + 1 <= ckpt + 1
      BY <1>1, <2>0, <2>1
    <3> QED BY <1>1, <3>1 DEF DiskAgreesWithLog
  <2>2. CASE ckpt < j
    <3>1. j <= rpos /\ j \notin batch
      BY <1>1, <1>2, <1>3, <2>0 DEF IsNextToPublish
    <3> QED BY <1>1, <1>3, <2>2, <3>1 DEF ReadIsAccountedFor, Running
  <2> QED BY <1>1, <2>0, <2>1, <2>2
<1> QED BY <1>2, <1>3

\* An event that reaches JetStream in its turn keeps the order.
LEMMA PublishOrder ==
  ASSUME SpoolInv, OrderInv, fpc = "publish", NEW s \in batch, IsNextToPublish(s), Store(seg[s]),
         UNCHANGED <<log, tmp, wpc, wev, status, dropped>>
  PROVE  LogOrder'
<1>1. /\ s \in Numbers /\ seg[s] = log[s + 1]
      /\ \A j \in Numbers : j < s => log[j + 1] \in Settled
  BY NextInOrder
<1>2. log \in Seq(Event) /\ Len(log) \in Nat /\ s \in Nat /\ s + 1 \in 1 .. Len(log)
  BY <1>1 DEF SpoolInv, TypeOK, OutcomeTypeOK, Numbers
<1>3. published' = published \cup {log[s + 1]}
  BY <1>1 DEF Store
<1>4. published' \subseteq Logged'
  BY <1>2, <1>3 DEF OrderInv, Logged
<1>5. PublishedInOrder'
  <2> SUFFICES ASSUME NEW i \in 1 .. Len(log), NEW j \in 1 .. Len(log), i < j,
                      log[j] \in published'
               PROVE  log[i] \in Settled'
    BY DEF PublishedInOrder
  <2>1. CASE log[j] \in published
    BY <1>3, <2>1 DEF OrderInv, PublishedInOrder, Settled
  <2>2. CASE log[j] = log[s + 1]
    <3>1. j = s + 1
      BY <1>2, <2>2 DEF OrderInv, LoggedOnce
    <3>2. i - 1 \in Numbers /\ i - 1 < s /\ (i - 1) + 1 = i
      BY <1>2, <3>1 DEF Numbers
    <3>3. log[(i - 1) + 1] \in Settled
      BY <1>1, <3>2
    <3> QED BY <1>3, <3>2, <3>3 DEF Settled
  <2> QED BY <1>3, <2>1, <2>2
<1>6. LoggedOnce' /\ StagingOfLogged' /\ NotYetLogged'
  BY DEF OrderInv, LoggedOnce, StagingOfLogged, NotYetLogged, Logged
<1> QED BY <1>4, <1>5, <1>6 DEF LogOrder

\* Every step of every process keeps the order.
LEMMA OrderStep ==
  ASSUME SpoolInv, OrderInv, [Next]_vars
  PROVE  OrderInv'
<1>0. /\ OneWriterPerEvent /\ DOMAIN tmp \subseteq Event
      /\ wpc \in [Writer -> {"idle", "scanned", "staged", "linked"}]
      /\ wev \in [Writer -> Event \cup {NoEvent}]
      /\ status \in [Event -> {"new", "writing", "accepted", "refused", "unknown"}]
      /\ tmp \in [DOMAIN tmp -> [name : Nat, hdr : Nat]]
      /\ LogOrder /\ NotYetLogged
  BY DEF SpoolInv, TypeOK, DiskTypeOK, WriterTypeOK, OutcomeTypeOK, OrderInv, LogOrder
<1>s. Settled \subseteq Settled'
  BY SettledGrows
<1>a. ASSUME UNCHANGED <<log, published, tmp, wpc, wev, status>> PROVE LogOrder'
  BY <1>0, <1>a, <1>s, QuietStep DEF NotYetLogged
<1>b. ASSUME NEW w \in Writer, NEW o \in {"accepted", "refused", "unknown"}, EndWrite(w, o),
             UNCHANGED <<log, published>>,
             \A e \in DOMAIN tmp' : e \in DOMAIN tmp /\ tmp'[e] = tmp[e]
      PROVE  LogOrder'
  <2>1. wpc'[w] = "idle" /\ \A v \in Writer : v # w => wpc'[v] = wpc[v] /\ wev'[v] = wev[v]
    BY <1>0, <1>b DEF EndWrite
  <2>2. \A e \in Event : status'[e] = "new" => status[e] = "new"
    BY <1>0, <1>b DEF EndWrite
  <2>3. \A v \in Writer :
          wpc'[v] = "scanned" \/ (wpc'[v] = "staged" /\ wev'[v] \in DOMAIN tmp') =>
            wev'[v] \notin Logged
    BY <1>0, <1>b, <2>1 DEF NotYetLogged
  <2> QED BY <1>b, <1>s, <2>2, <2>3, QuietStep
<1>1. ASSUME NEW w \in Writer, NEW e \in Event, Scan(w, e) PROVE LogOrder'
  <2>1. /\ status[e] = "new" /\ UNCHANGED <<log, published, tmp>>
        /\ wpc' = [wpc EXCEPT ![w] = "scanned"] /\ wev' = [wev EXCEPT ![w] = e]
        /\ status' = [status EXCEPT ![e] = "writing"]
    BY <1>1 DEF Scan, diskVars, histVars
  <2>2. \A v \in Writer :
          wpc'[v] = "scanned" \/ (wpc'[v] = "staged" /\ wev'[v] \in DOMAIN tmp') =>
            wev'[v] \notin Logged
    BY <1>0, <2>1 DEF NotYetLogged
  <2>3. \A d \in Event : status'[d] = "new" => status[d] = "new"
    BY <1>0, <2>1
  <2> QED BY <1>s, <2>1, <2>2, <2>3, QuietStep
<1>2. ASSUME NEW w \in Writer, RefuseFull(w) PROVE LogOrder'
  BY <1>2, <1>b DEF RefuseFull, histVars
<1>3. ASSUME NEW w \in Writer, Stage(w) PROVE LogOrder'
  <2>1. /\ wpc[w] = "scanned" /\ wpc' = [wpc EXCEPT ![w] = "staged"]
        /\ UNCHANGED <<log, published, wev, status>>
        /\ \E n : tmp' = With(tmp, wev[w], [name |-> n, hdr |-> n])
    BY <1>3 DEF Stage, histVars
  <2>2. wev[w] \notin Logged
    BY <1>0, <2>1 DEF NotYetLogged
  <2>3. \A d \in DOMAIN tmp' : d # wev[w] => d \in DOMAIN tmp /\ tmp'[d] = tmp[d]
    BY <2>1 DEF With
  <2>4. \A v \in Writer :
          wpc'[v] = "scanned" \/ (wpc'[v] = "staged" /\ wev'[v] \in DOMAIN tmp') =>
            wev'[v] \notin Logged
    <3> SUFFICES ASSUME NEW v \in Writer,
                        wpc'[v] = "scanned" \/ (wpc'[v] = "staged" /\ wev[v] \in DOMAIN tmp')
                 PROVE  wev[v] \notin Logged
      BY <2>1
    <3>1. CASE v = w
      BY <2>2, <3>1
    <3>2. CASE v # w
      <4>1. wpc'[v] = wpc[v] /\ wpc[v] # "idle" /\ wpc[w] # "idle"
        BY <1>0, <2>1, <3>2
      <4>2. wev[v] # wev[w]
        BY <1>0, <3>2, <4>1 DEF OneWriterPerEvent
      <4> QED BY <1>0, <2>3, <4>1, <4>2 DEF NotYetLogged
    <3> QED BY <3>1, <3>2
  <2> QED BY <1>s, <2>1, <2>2, <2>3, <2>4, QuietStep
<1>4. ASSUME NEW w \in Writer, Link(w) PROVE LogOrder'
  <2>1. /\ wpc[w] = "staged" /\ wev[w] \in DOMAIN tmp /\ tmp[wev[w]].hdr \notin DOMAIN seg
        /\ Record(wev[w], tmp[wev[w]].hdr) /\ wpc' = [wpc EXCEPT ![w] = "linked"]
        /\ UNCHANGED <<tmp, wev, published, status>>
    BY <1>4 DEF Link
  <2>2. \A v \in Writer :
          /\ wpc'[v] = "scanned" => wpc[v] = "scanned"
          /\ wpc'[v] = "staged" => wpc[v] = "staged" /\ v # w
    BY <1>0, <2>1
  <2>3. \A v \in Writer : wpc'[v] = "staged" => wev[v] # wev[w]
    BY <1>0, <2>1, <2>2 DEF OneWriterPerEvent
  <2> QED BY <1>s, <2>1, <2>2, <2>3, CommitOrder
<1>5. ASSUME NEW w \in Writer, Collide(w) PROVE LogOrder'
  <2>1. /\ wpc[w] = "staged" /\ wev[w] \in DOMAIN tmp /\ UNCHANGED <<log, published, wpc, wev, status>>
        /\ tmp' = [tmp EXCEPT ![wev[w]].hdr = @ + 1]
    BY <1>5 DEF Collide, writerVars, histVars
  <2>2. DOMAIN tmp' = DOMAIN tmp /\ \A d \in DOMAIN tmp : d # wev[w] => tmp'[d] = tmp[d]
    BY <2>1
  <2>3. wev[w] \notin Logged
    BY <1>0, <2>1 DEF NotYetLogged
  <2>4. \A v \in Writer :
          wpc'[v] = "scanned" \/ (wpc'[v] = "staged" /\ wev'[v] \in DOMAIN tmp') =>
            wev'[v] \notin Logged
    BY <1>0, <2>1, <2>2 DEF NotYetLogged
  <2> QED BY <1>s, <2>1, <2>2, <2>3, <2>4, QuietStep
<1>6. ASSUME NEW w \in Writer, FailBeforeLink(w) \/ Return(w) PROVE LogOrder'
  <2>1. /\ tmp' = Without(tmp, {wev[w]}) /\ UNCHANGED <<log, published>>
        /\ \E o \in {"accepted", "refused", "unknown"} : EndWrite(w, o)
    BY <1>6 DEF FailBeforeLink, Return, histVars
  <2>2. \A d \in DOMAIN tmp' : d \in DOMAIN tmp /\ tmp'[d] = tmp[d]
    BY <2>1 DEF Without, Restrict
  <2> QED BY <2>1, <2>2, <1>b
<1>7. ASSUME NEW w \in Writer, CrashWriter(w) PROVE LogOrder'
  BY <1>7, <1>b DEF CrashWriter, diskVars
<1>8. ASSUME NEW e \in Event, Promote(e) PROVE LogOrder'
  <2>1. /\ e \in DOMAIN tmp /\ tmp[e].hdr \notin DOMAIN seg /\ Record(e, tmp[e].hdr)
        /\ tmp' = Without(tmp, {e}) /\ UNCHANGED <<published, wpc, wev, status>>
    BY <1>8 DEF Promote, Promotable, writerVars
  <2>2. DOMAIN tmp' = DOMAIN tmp \ {e} /\ \A d \in DOMAIN tmp' : tmp'[d] = tmp[d]
    BY <2>1 DEF Without, Restrict
  <2> QED BY <1>s, <2>1, <2>2, CommitOrder
<1>9. ASSUME NEW e \in Event, Discard(e) PROVE LogOrder'
  <2>1. /\ tmp' = Without(tmp, {e}) /\ UNCHANGED <<log, published, wpc, wev, status>>
    BY <1>9 DEF Discard, writerVars, histVars
  <2>2. \A d \in DOMAIN tmp' : d \in DOMAIN tmp /\ tmp'[d] = tmp[d]
    BY <2>1 DEF Without, Restrict
  <2> QED BY <1>0, <1>s, <2>1, <2>2, QuietStep DEF NotYetLogged
<1>10. ASSUME Open \/ Recovered \/ Reclaimed PROVE LogOrder'
  <2>1. UNCHANGED <<log, published, tmp, wpc, wev, status>>
    BY <1>10 DEF Open, Recovered, Reclaimed, diskVars, writerVars, histVars
  <2> QED BY <2>1, <1>a
<1>11. ASSUME Read PROVE LogOrder'
  <2>1. UNCHANGED <<log, published, tmp, wpc, wev, status>>
    BY <1>11 DEF Read, diskVars, writerVars, histVars
  <2> QED BY <2>1, <1>a
<1>12. ASSUME Advance \/ Reclaim \/ CrashForwarder \/ UNCHANGED vars PROVE LogOrder'
  <2>1. UNCHANGED <<log, published, tmp, wpc, wev, status>>
    BY <1>12 DEF Advance, Reclaim, CrashForwarder, vars, diskVars, writerVars, histVars
  <2> QED BY <2>1, <1>a
<1>13. ASSUME Publish PROVE LogOrder'
  <2>1. PICK s \in batch : IsNextToPublish(s) /\ Store(seg[s])
    BY <1>13 DEF Publish
  <2>2. fpc = "publish" /\ UNCHANGED <<log, tmp, wpc, wev, status, dropped>>
    BY <1>13 DEF Publish, diskVars, writerVars
  <2> QED BY <2>1, <2>2, PublishOrder
<1>14. ASSUME PublishUnacknowledged PROVE LogOrder'
  <2>1. PICK s \in batch : IsNextToPublish(s) /\ Store(seg[s])
    BY <1>14 DEF PublishUnacknowledged
  <2>2. fpc = "publish" /\ UNCHANGED <<log, tmp, wpc, wev, status, dropped>>
    BY <1>14 DEF PublishUnacknowledged, diskVars, writerVars
  <2> QED BY <2>1, <2>2, PublishOrder
<1>15. LogOrder'
  BY <1>1, <1>2, <1>3, <1>4, <1>5, <1>6, <1>7, <1>8, <1>9, <1>10, <1>11, <1>12,
     <1>13, <1>14
  DEF Next, WriterStep, ForwarderStep, RecoveryStep, DrainStep
<1> QED BY <1>15, BatchStep DEF OrderInv, LogOrder

\* The empty log is in order.
LEMMA InitOrder == Init => OrderInv
<1> SUFFICES ASSUME Init PROVE OrderInv
  OBVIOUS
<1>1. /\ log = << >> /\ Len(log) = 0 /\ DOMAIN tmp = {} /\ published = {}
      /\ fpc = "down" /\ wpc = [w \in Writer |-> "idle"]
  BY DEF Init
<1>2. LoggedOnce /\ StagingOfLogged /\ NotYetLogged /\ PublishedInOrder
  BY <1>1 DEF LoggedOnce, StagingOfLogged, NotYetLogged, Logged, PublishedInOrder
<1>3. BatchIsAhead
  BY DEF Init, BatchIsAhead
<1> QED BY <1>1, <1>2, <1>3 DEF OrderInv

\* In every reachable state an event is in the log once, what a writer has still to commit is
\* not there yet, and what the forwarder holds is published in the order of the log.
THEOREM OrderInvariant == Spec => []OrderInv
<1>1. SpoolInv /\ OrderInv /\ [Next]_vars => OrderInv'
  BY OrderStep
<1> QED BY InitOrder, <1>1, SpoolInvariant, PTL DEF Spec

\* Whatever the forwarder repeats after its deaths, JetStream never holds an event without
\* every event committed before it, but for those it reported as unreadable.
THEOREM PublishesInOrder == Spec => []PublishedInOrder
<1>1. OrderInv => PublishedInOrder
  BY DEF OrderInv
<1> QED BY <1>1, OrderInvariant, PTL

-----------------------------------------------------------------------------
(* Repetition: what the forwarder has still to repeat was paid for by its deaths. *)

\* Numbers ahead of the checkpoint whose events JetStream has: a death would have them repeated.
Owed == {j \in Numbers : ckpt < j /\ log[j + 1] \in published}

\* Of these, D were handed over by the running process, which counts them to its batch; the
\* others are what earlier processes died with.
HandedOver(D) ==
  /\ D \subseteq Owed /\ D \cap batch = {}
  /\ \A j \in D : j <= pend
  /\ fpc \notin {"publish", "ack"} => D = {}
  /\ Cardinality(D) + Cardinality(batch) <= Batch
  /\ dups + Cardinality(Owed \ D) <= Batch * exits

Repeats == \E D \in SUBSET Nat : HandedOver(D)

\* What is counted is finite.
LEMMA OwedIsFinite ==
  ASSUME SpoolInv
  PROVE  /\ ckpt \in Int /\ batch \subseteq Nat /\ Len(log) \in Nat /\ Batch \in Nat
         /\ dups \in Nat /\ exits \in Nat /\ Batch * exits \in Nat
         /\ Numbers \subseteq Nat /\ IsFiniteSet(Numbers) /\ Owed \subseteq Numbers
         /\ IsFiniteSet(Owed) /\ IsFiniteSet(batch) /\ Cardinality(batch) \in Nat
<1>1. /\ ckpt \in Int /\ batch \subseteq Nat /\ Len(log) \in Nat /\ Batch \in Nat
      /\ dups \in Nat /\ exits \in Nat
  BY SpoolAssumption
  DEF SpoolInv, TypeOK, DiskTypeOK, ReaderTypeOK, OutcomeTypeOK, NeverAcked
<1>2. Batch * exits \in Nat
  BY <1>1
<1>3. Numbers \subseteq Nat /\ IsFiniteSet(Numbers)
  <2>1. 0 \in Int /\ Len(log) - 1 \in Int
    BY <1>1
  <2> QED BY <2>1, FS_Interval DEF Numbers
<1>4. Owed \subseteq Numbers /\ batch \subseteq Numbers
  BY BatchIsOnDisk DEF Owed
<1>5. IsFiniteSet(Owed) /\ IsFiniteSet(batch) /\ Cardinality(batch) \in Nat
  BY <1>3, <1>4, FS_Subset, FS_CardinalityType
<1> QED BY <1>1, <1>2, <1>3, <1>4, <1>5

\* A subset counts less.
LEMMA FewerOwed ==
  ASSUME NEW S, NEW T, IsFiniteSet(T), S \subseteq T
  PROVE  /\ IsFiniteSet(S) /\ Cardinality(S) \in Nat /\ Cardinality(T) \in Nat
         /\ Cardinality(S) <= Cardinality(T)
BY FS_Subset, FS_CardinalityType

\* An event joins the log at its end, or the log stays.
LogMoves == log' = log \/ \E e \in Event : log' = Append(log, e)

\* A commit changes nothing of what JetStream has.
LEMMA OwedAfterCommit ==
  ASSUME SpoolInv, OrderInv, LoggedOnce', LogMoves, UNCHANGED <<ckpt, published>>
  PROVE  Owed' = Owed
<1>1. log \in Seq(Event) /\ Len(log) \in Nat
  BY DEF SpoolInv, TypeOK, OutcomeTypeOK
<1>2. CASE log' = log
  BY <1>2 DEF Owed, Numbers
<1>3. ASSUME NEW e \in Event, log' = Append(log, e) PROVE Owed' = Owed
  <2>1. Len(log') = Len(log) + 1 /\ \A i \in 1 .. Len(log) : log'[i] = log[i]
    BY <1>1, <1>3
  <2>2. ASSUME NEW j \in Owed' PROVE j \in Owed
    <3>1. j \in Numbers' /\ ckpt < j /\ log'[j + 1] \in published
      BY <2>2 DEF Owed
    <3>2. PICK i \in 1 .. Len(log) : log[i] = log'[j + 1]
      BY <3>1 DEF OrderInv, Logged
    <3>3. j \in Nat /\ j < Len(log')
      BY <1>1, <2>1, <3>1 DEF Numbers
    <3>4. i = j + 1
      BY <1>1, <2>1, <3>2, <3>3 DEF LoggedOnce
    <3>5. j \in Numbers /\ log[j + 1] \in published
      BY <1>1, <3>1, <3>2, <3>3, <3>4 DEF Numbers
    <3> QED BY <3>1, <3>5 DEF Owed
  <2>3. ASSUME NEW j \in Owed PROVE j \in Owed'
    <3>1. j \in Numbers /\ ckpt < j /\ log[j + 1] \in published
      BY <2>3 DEF Owed
    <3>2. j \in Numbers' /\ log'[j + 1] = log[j + 1]
      BY <1>1, <2>1, <3>1 DEF Numbers
    <3> QED BY <3>1, <3>2 DEF Owed
  <2> QED BY <2>2, <2>3
<1> QED BY <1>2, <1>3 DEF LogMoves

\* The forwarder hands over number s: it is no longer owed, or it is owed now by this process.
LEMMA PaidAfterPublish ==
  ASSUME SpoolInv, OrderInv, fpc = "publish", NEW s \in batch, IsNextToPublish(s),
         NEW D \in SUBSET Nat, HandedOver(D), Store(seg[s]), UNCHANGED <<log, ckpt>>
  PROVE  /\ D \cup {s} \subseteq Owed' /\ IsFiniteSet(Owed') /\ dups' \in Nat
         /\ Cardinality(D \cup {s}) + Cardinality(batch \ {s}) <= Batch
         /\ dups' + Cardinality(Owed' \ (D \cup {s})) <= Batch * exits
<1>1. /\ s \in Numbers /\ s \in Nat /\ seg[s] = log[s + 1] /\ ckpt < s
  BY NextInOrder, OwedIsFinite
<1>2. /\ dups \in Nat /\ Batch * exits \in Nat /\ Batch \in Nat /\ Numbers \subseteq Nat
      /\ Len(log) \in Nat /\ IsFiniteSet(Owed) /\ IsFiniteSet(batch) /\ IsFiniteSet(Numbers)
  BY OwedIsFinite
<1>3. Numbers' = Numbers /\ published' = published \cup {log[s + 1]}
  BY <1>1 DEF Numbers, Store
<1>4. Owed' = Owed \cup {s}
  <2>1. ASSUME NEW j \in Owed' PROVE j \in Owed \cup {s}
    <3>1. j \in Numbers /\ ckpt < j /\ log[j + 1] \in published \cup {log[s + 1]}
      BY <1>3, <2>1 DEF Owed
    <3>2. CASE log[j + 1] = log[s + 1]
      <4>1. j + 1 \in 1 .. Len(log) /\ s + 1 \in 1 .. Len(log) /\ j \in Nat
        BY <1>1, <1>2, <3>1 DEF Numbers
      <4>2. j + 1 = s + 1
        BY <3>2, <4>1 DEF OrderInv, LoggedOnce
      <4> QED BY <1>1, <4>1, <4>2
    <3> QED BY <3>1, <3>2 DEF Owed
  <2>2. Owed \cup {s} \subseteq Owed'
    BY <1>1, <1>3 DEF Owed
  <2> QED BY <2>1, <2>2
<1>5. IsFiniteSet(Owed') /\ D \cup {s} \subseteq Owed' /\ s \notin D
  BY <1>2, <1>4, FS_AddElement DEF HandedOver
<1>6. IsFiniteSet(D)
  BY <1>2, FS_Subset DEF HandedOver
<1>7. /\ Cardinality(D \cup {s}) = Cardinality(D) + 1 /\ Cardinality(D) \in Nat
      /\ Cardinality(batch \ {s}) = Cardinality(batch) - 1 /\ Cardinality(batch) \in Nat
  BY <1>2, <1>5, <1>6, FS_AddElement, FS_RemoveElement, FS_CardinalityType
<1>8. Cardinality(D \cup {s}) + Cardinality(batch \ {s}) <= Batch
  BY <1>2, <1>7 DEF HandedOver
<1>9. Owed' \ (D \cup {s}) = (Owed \ D) \ {s}
  BY <1>4
<1>10. IsFiniteSet(Owed \ D) /\ Cardinality(Owed \ D) \in Nat
  BY <1>2, FewerOwed
<1>11. CASE log[s + 1] \in published
  <2>1. dups' = dups + 1 /\ s \in Owed \ D
    BY <1>1, <1>5, <1>11 DEF Store, Owed
  <2>2. Cardinality((Owed \ D) \ {s}) = Cardinality(Owed \ D) - 1
    BY <1>10, <2>1, FS_RemoveElement
  <2>3. dups' + Cardinality((Owed \ D) \ {s}) <= Batch * exits
    BY <1>2, <1>10, <2>1, <2>2 DEF HandedOver
  <2>4. dups' \in Nat
    BY <1>2, <2>1
  <2> QED BY <1>5, <1>8, <1>9, <2>3, <2>4
<1>12. CASE log[s + 1] \notin published
  <2>1. dups' = dups /\ (Owed \ D) \ {s} = Owed \ D
    BY <1>1, <1>12 DEF Store, Owed
  <2> QED BY <1>2, <1>5, <1>8, <1>9, <2>1 DEF HandedOver
<1> QED BY <1>11, <1>12

\* A death buys a batch.
LEMMA PaidAfterExit ==
  ASSUME SpoolInv, Exit, IsFiniteSet(Owed'), NEW D \in SUBSET Nat, D \subseteq Owed', dups' \in Nat,
         Cardinality(D) <= Batch, dups' + Cardinality(Owed' \ D) <= Batch * exits
  PROVE  Repeats'
<1>1. Batch \in Nat /\ exits \in Nat /\ Batch * exits \in Nat
  BY OwedIsFinite
<1>2. exits' = exits + 1 /\ Batch * exits' = Batch * exits + Batch
  BY <1>1 DEF Exit
<1>3. PICK O : O = Owed'
  OBVIOUS
<1>4. /\ IsFiniteSet(D) /\ IsFiniteSet(O \ D) /\ Cardinality(D) \in Nat /\ Cardinality(O \ D) \in Nat
  BY <1>3, FewerOwed
<1>5. Cardinality(O) \in Nat /\ Cardinality(O) = Cardinality(O \ D) + Cardinality(D)
  <2>1. O = (O \ D) \cup D /\ (O \ D) \cap D = {}
    BY <1>3
  <2>2. Cardinality({}) = 0
    BY FS_EmptySet
  <2>3. Cardinality((O \ D) \cup D) = Cardinality(O \ D) + Cardinality(D) - Cardinality((O \ D) \cap D)
    BY <1>4, FS_Union
  <2>4. Cardinality((O \ D) \cup D) = Cardinality(O \ D) + Cardinality(D)
    BY <1>4, <2>1, <2>2, <2>3
  <2>5. Cardinality(O \ D) + Cardinality(D) \in Nat
    BY <1>4
  <2> QED BY <2>1, <2>4, <2>5
<1>6. dups' + Cardinality(O) <= Batch * exits'
  BY <1>1, <1>2, <1>3, <1>4, <1>5
<1>7. O \ {} = O /\ Cardinality({}) = 0
  BY FS_EmptySet
<1>8. /\ Cardinality({}) + Cardinality({}) <= Batch
      /\ dups' + Cardinality(Owed' \ {}) <= Batch * exits'
  BY <1>1, <1>3, <1>6, <1>7
<1>9. HandedOver({})'
  BY <1>8 DEF HandedOver, Exit
<1> QED BY <1>9 DEF Repeats

\* The reader takes a batch, or reports what it cannot read.
LEMMA RepeatsAfterRead ==
  ASSUME SpoolInv, Repeats, Read
  PROVE  Repeats'
<1>1. PICK hi \in Nat : \E taken \in SUBSET Nat : Takes(hi, taken)
  BY ReadTakes
<1>2. PICK taken \in SUBSET Nat : Takes(hi, taken)
  BY <1>1
<1>3. /\ fpc = "idle" /\ UNCHANGED <<ckpt, log, published, dups, exits>>
  BY DEF Read, diskVars, histVars
<1>4. HandedOver({})
  BY <1>3 DEF Repeats, HandedOver
<1>5. Owed' = Owed
  BY <1>3 DEF Owed, Numbers
<1>6. Cardinality({}) = 0 /\ Cardinality(taken) \in Nat /\ Cardinality(taken) <= Batch /\ batch' = taken
  BY <1>2, FS_EmptySet DEF Takes
<1>7. HandedOver({})'
  BY <1>3, <1>4, <1>5, <1>6 DEF HandedOver
<1> QED BY <1>7 DEF Repeats

\* A step of the log: an event joins it at its end, or it stays.
LEMMA LogOnlyMoves ==
  ASSUME SpoolInv, OrderInv, [Next]_vars
  PROVE  LogMoves
<1>1. ASSUME NEW e, e \in Event, NEW s, Record(e, s)
      PROVE  LogMoves
  BY <1>1 DEF Record, LogMoves
<1>2. ASSUME NEW w \in Writer, Link(w)
      PROVE  LogMoves
  BY <1>1, <1>2, StagedType DEF Link, SpoolInv
<1>3. ASSUME NEW e \in Event, Promote(e)
      PROVE  LogMoves
  BY <1>1, <1>3 DEF Promote
<1>4. \/ \E w \in Writer : Link(w)
      \/ \E e \in Event : Promote(e)
      \/ UNCHANGED log
  BY
  DEF Next, WriterStep, ForwarderStep, RecoveryStep, DrainStep, Scan, RefuseFull, Stage, Collide,
      FailBeforeLink, Return, CrashWriter, Open, Discard, Recovered, Read, Publish, Advance,
      Reclaim, Reclaimed, CrashForwarder, PublishUnacknowledged, diskVars, histVars, vars
<1> QED BY <1>2, <1>3, <1>4 DEF LogMoves

\* Every step of every process stays within what the deaths paid for.
LEMMA RepeatsStep ==
  ASSUME SpoolInv, OrderInv, OrderInv', Repeats, [Next]_vars
  PROVE  Repeats'
<1>0. LoggedOnce' /\ LogMoves
  BY LogOnlyMoves DEF OrderInv
<1>d. PICK D \in SUBSET Nat : HandedOver(D)
  BY DEF Repeats
<1>t. /\ dups \in Nat /\ Batch \in Nat /\ IsFiniteSet(Owed) /\ IsFiniteSet(batch)
      /\ Cardinality(batch) \in Nat /\ Batch * exits \in Nat /\ ckpt \in Int
  BY OwedIsFinite
<1>a. ASSUME UNCHANGED <<ckpt, batch, published, dups, exits>>, UNCHANGED <<fpc, pend>> PROVE Repeats'
  <2>1. Owed' = Owed
    BY <1>0, <1>a, OwedAfterCommit
  <2>2. HandedOver(D)'
    BY <1>a, <1>d, <2>1 DEF HandedOver
  <2> QED BY <2>2 DEF Repeats
<1>2. ASSUME NEW w \in Writer, WriterStep(w) PROVE Repeats'
  BY <1>2, <1>a
  DEF WriterStep, Scan, RefuseFull, Stage, Link, Collide, FailBeforeLink, Return, CrashWriter,
      diskVars, readerVars, histVars
<1>3. ASSUME NEW e \in Event, Promote(e) \/ Discard(e) PROVE Repeats'
  BY <1>3, <1>a DEF Promote, Discard, histVars
<1>4. CASE Open \/ Recovered \/ Reclaim \/ Reclaimed
  <2>1. /\ UNCHANGED <<ckpt, log, published, dups, exits, batch, pend>>
        /\ fpc \notin {"publish", "ack"} /\ fpc' \notin {"publish", "ack"}
    BY <1>4 DEF Open, Recovered, Reclaim, Reclaimed, diskVars, histVars
  <2>2. Owed' = Owed
    BY <2>1 DEF Owed, Numbers
  <2>3. HandedOver(D)'
    BY <1>d, <2>1, <2>2 DEF HandedOver
  <2> QED BY <2>3 DEF Repeats
<1>5. CASE Read
  BY <1>5, RepeatsAfterRead
<1>6. CASE Publish
  <2>1. PICK s \in batch : IsNextToPublish(s) /\ Store(seg[s]) /\ batch' = batch \ {s}
    BY <1>6 DEF Publish
  <2>2. /\ fpc = "publish" /\ fpc' \in {"publish", "ack"} /\ UNCHANGED <<pend, ckpt, log, exits>>
    BY <1>6 DEF Publish, diskVars
  <2>3. /\ D \cup {s} \subseteq Owed'
        /\ Cardinality(D \cup {s}) + Cardinality(batch \ {s}) <= Batch
        /\ dups' + Cardinality(Owed' \ (D \cup {s})) <= Batch * exits
    BY <1>d, <2>1, <2>2, PaidAfterPublish
  <2>4. s <= pend /\ s \in Nat
    BY <1>t, <2>1, OwedIsFinite DEF OrderInv, BatchIsAhead
  <2>5. HandedOver(D \cup {s})'
    BY <1>d, <2>1, <2>2, <2>3, <2>4 DEF HandedOver
  <2> QED BY <1>d, <2>4, <2>5 DEF Repeats
<1>7. CASE Advance
  <2>1. /\ fpc = "ack" /\ fpc' = "reclaim" /\ ckpt' = pend /\ batch = {}
        /\ UNCHANGED <<log, published, dups, exits, batch, pend>> /\ ckpt < pend
    BY <1>7 DEF Advance, histVars, SpoolInv, ReadIsAccountedFor
  <2>2. Owed' \subseteq Owed \ D
    <3>1. ASSUME NEW j \in Owed' PROVE j \in Owed \ D
      <4>1. j \in Numbers /\ pend < j /\ log[j + 1] \in published
        BY <2>1, <3>1 DEF Owed, Numbers
      <4>2. j \in Int /\ pend \in Int
        BY <4>1, OwedIsFinite DEF SpoolInv, TypeOK, ReaderTypeOK, NeverAcked
      <4>3. ckpt < j /\ ~ (j <= pend)
        BY <1>t, <2>1, <4>1, <4>2
      <4> QED BY <1>d, <4>1, <4>3 DEF Owed, HandedOver
    <3> QED BY <3>1
  <2>3. /\ Owed' \ {} = Owed' /\ Cardinality(Owed') \in Nat /\ Cardinality(Owed \ D) \in Nat
        /\ Cardinality(Owed') <= Cardinality(Owed \ D)
    <3>1. IsFiniteSet(Owed \ D)
      BY <1>t, FewerOwed
    <3> QED BY <2>2, <3>1, FewerOwed
  <2>4. dups + Cardinality(Owed') <= Batch * exits
    BY <1>d, <1>t, <2>3 DEF HandedOver
  <2>5. Cardinality({}) = 0
    BY FS_EmptySet
  <2>6. HandedOver({})'
    BY <1>t, <2>1, <2>3, <2>4, <2>5 DEF HandedOver
  <2> QED BY <2>6 DEF Repeats
<1>8. CASE CrashForwarder
  <2>1. Exit /\ UNCHANGED <<ckpt, log, published, dups>>
    BY <1>8 DEF CrashForwarder, diskVars
  <2>2. Owed' = Owed
    BY <2>1 DEF Owed, Numbers
  <2>3. D \subseteq Owed /\ Cardinality(D) \in Nat
    BY <1>d, <1>t, FewerOwed DEF HandedOver
  <2>4. Cardinality(D) <= Batch
    BY <1>d, <1>t, <2>3 DEF HandedOver
  <2> QED BY <1>d, <1>t, <2>1, <2>2, <2>3, <2>4, PaidAfterExit DEF HandedOver
<1>9. CASE PublishUnacknowledged
  <2>1. PICK s \in batch : IsNextToPublish(s) /\ Store(seg[s])
    BY <1>9 DEF PublishUnacknowledged
  <2>2. fpc = "publish" /\ Exit /\ UNCHANGED <<ckpt, log>>
    BY <1>9 DEF PublishUnacknowledged, diskVars
  <2>3. /\ D \cup {s} \subseteq Owed' /\ IsFiniteSet(Owed') /\ dups' \in Nat
        /\ Cardinality(D \cup {s}) + Cardinality(batch \ {s}) <= Batch
        /\ dups' + Cardinality(Owed' \ (D \cup {s})) <= Batch * exits
    BY <1>d, <2>1, <2>2, PaidAfterPublish
  <2>4. Cardinality(D \cup {s}) \in Nat /\ Cardinality(batch \ {s}) \in Nat
    BY <1>t, <2>3, FewerOwed
  <2>5. Cardinality(D \cup {s}) <= Batch
    BY <1>t, <2>3, <2>4
  <2>6. D \cup {s} \in SUBSET Nat
    BY <1>d, <2>1, OwedIsFinite
  <2> QED BY <2>2, <2>3, <2>5, <2>6, PaidAfterExit
<1>10. CASE UNCHANGED vars
  BY <1>10, <1>a DEF vars, diskVars, readerVars, histVars
<1> QED
  BY <1>2, <1>3, <1>4, <1>5, <1>6, <1>7, <1>8, <1>9, <1>10
  DEF Next, ForwarderStep, RecoveryStep, DrainStep

\* Each death of the forwarder, in the middle of a batch or at a lost acknowledgement, repeats
\* at most one batch, even when a later process cannot read what an earlier one could.
THEOREM DeathsRepeatABatch == Spec => []RedeliveryBounded
<1>1. Init => Repeats
  <2> SUFFICES ASSUME Init PROVE Repeats
    OBVIOUS
  <2>1. log = << >> /\ Len(log) = 0 /\ published = {} /\ dups = 0 /\ exits = 0 /\ fpc = "down"
        /\ batch = {}
    BY DEF Init
  <2>2. Owed = {} /\ Cardinality({}) = 0
    BY <2>1, FS_EmptySet DEF Owed
  <2>3. HandedOver({})
    BY <2>1, <2>2, SpoolAssumption DEF HandedOver
  <2> QED BY <2>3 DEF Repeats
<1>2. SpoolInv /\ OrderInv /\ OrderInv' /\ Repeats /\ [Next]_vars => Repeats'
  BY RepeatsStep
<1>3. ASSUME SpoolInv, Repeats PROVE RedeliveryBounded
  <2>1. PICK D \in SUBSET Nat : dups + Cardinality(Owed \ D) <= Batch * exits
    BY <1>3 DEF Repeats, HandedOver
  <2>2. /\ Cardinality(Owed \ D) \in Nat /\ dups \in Nat /\ Batch * exits \in Nat
    BY <1>3, OwedIsFinite, FewerOwed
  <2> QED BY <2>1, <2>2 DEF RedeliveryBounded
<1> QED BY <1>1, <1>2, <1>3, SpoolInvariant, OrderInvariant, PTL DEF Spec

-----------------------------------------------------------------------------
(* The spool and its forwarder are the delivery log.                        *)

\* An event that is in the log stays there.
LEMMA LoggedStays ==
  ASSUME SpoolInv, LogMoves
  PROVE  Logged \subseteq Logged'
<1>1. log \in Seq(Event) /\ Len(log) \in Nat
  BY DEF SpoolInv, TypeOK, OutcomeTypeOK
<1>2. CASE log' = log
  BY <1>2 DEF Logged
<1>3. ASSUME NEW e \in Event, log' = Append(log, e) PROVE Logged \subseteq Logged'
  <2>1. Len(log') = Len(log) + 1 /\ \A i \in 1 .. Len(log) : log'[i] = log[i]
    BY <1>1, <1>3
  <2>2. 1 .. Len(log) \subseteq 1 .. Len(log')
    BY <1>1, <2>1
  <2> QED BY <2>1, <2>2 DEF Logged
<1> QED BY <1>2, <1>3 DEF LogMoves

\* A write is accepted only once its event is in the log, or behind the reader; and its staging
\* file is gone by then, so nothing commits it again.
CommitInv ==
  /\ \A w \in Writer : wpc[w] # "idle" => status[wev[w]] = "writing"
  /\ \A w \in Writer : wpc[w] = "linked" => wev[w] \in Logged \cup reused
  /\ \A e \in Event : status[e] = "accepted" => e \in Logged \cup reused
  /\ \A e \in DOMAIN tmp : status[e] # "accepted"

\* Of some numbers one is the least.
LEMMA LeastNumber ==
  ASSUME NEW S \in SUBSET Nat, S # {}
  PROVE  \E r \in S : \A q \in S : r <= q
<1>1. PICK r \in S : \A q \in S : <<q, r>> \notin OpToRel(<, Nat)
  BY NatLessThanWellFounded, WFMin
<1>2. ASSUME NEW q \in S PROVE r <= q
  <2>1. <<q, r>> \in Nat \X Nat /\ ~(<<q, r>>[1] < <<q, r>>[2])
    BY <1>1 DEF OpToRel
  <2> QED BY <2>1
<1> QED BY <1>2

\* How far the consumer is, while it publishes and otherwise.
Placed ==
  /\ fpc \in {"down", "recover"} => Handing = ckpt + 1
  /\ fpc \in {"idle", "ack", "reclaim"} => Handing = rpos + 1
  /\ fpc = "publish" => Handing \in batch /\ IsNextToPublish(Handing)

\* The place the refinement computes is that one.
LEMMA HandingIs == SpoolInv /\ OrderInv => Placed
<1> SUFFICES ASSUME SpoolInv, OrderInv PROVE Placed
  OBVIOUS
<1>1. batch \subseteq Nat /\ ReadIsAccountedFor /\ BatchIsAhead
  BY DEF SpoolInv, TypeOK, ReaderTypeOK, OrderInv
<1>2. CASE fpc # "publish"
  BY <1>1, <1>2 DEF Placed, Handing, ReadIsAccountedFor
<1>3. CASE fpc = "publish"
  <2>1. \E r \in batch : IsNextToPublish(r)
    <3>1. batch \in SUBSET Nat /\ batch # {}
      BY <1>1, <1>3 DEF BatchIsAhead
    <3>2. \E r \in batch : \A q \in batch : r <= q
      BY <3>1, LeastNumber
    <3> QED BY <3>2 DEF IsNextToPublish
  <2>2. Handing = CHOOSE r \in batch : IsNextToPublish(r)
    BY <1>3, <2>1 DEF Handing
  <2> QED BY <1>3, <2>1, <2>2 DEF Placed
<1> QED BY <1>2, <1>3

\* A batch has one least number.
LEMMA HandingIsLeast ==
  ASSUME SpoolInv, OrderInv, fpc = "publish", NEW s \in batch, IsNextToPublish(s)
  PROVE  Handing = s
<1>1. Handing \in batch /\ IsNextToPublish(Handing)
  BY HandingIs DEF Placed
<1>2. batch \subseteq Nat
  BY DEF SpoolInv, TypeOK, ReaderTypeOK
<1>3. Handing <= s /\ s <= Handing /\ s \in Nat /\ Handing \in Nat
  BY <1>1, <1>2 DEF IsNextToPublish
<1> QED BY <1>3

\* What JetStream has when the forwarder hands over the event at its place.
LEMMA HandsOverTheNext ==
  ASSUME SpoolInv, OrderInv, fpc = "publish", NEW s \in batch, IsNextToPublish(s), Store(seg[s])
  PROVE  Handing = s /\ s < Len(log) /\ published' = published \cup {log[Handing + 1]}
<1>1. s \in Numbers /\ seg[s] = log[s + 1] /\ Handing = s /\ Len(log) \in Nat
  BY NextInOrder, HandingIsLeast, OwedIsFinite
<1> QED BY <1>1 DEF Numbers, Store

\* What is committed stays committed.
LEMMA CommittedStays ==
  ASSUME SpoolInv, OrderInv, [Next]_vars
  PROVE  Logged \subseteq Logged' /\ reused \subseteq reused'
<1>1. LogMoves
  BY LogOnlyMoves
<1>2. Logged \subseteq Logged'
  BY <1>1, LoggedStays
<1>3. CASE UNCHANGED reused
  BY <1>2, <1>3
<1>4. CASE ~UNCHANGED reused
  <2>1. \E e, s : Record(e, s)
    BY <1>4
    DEF Next, WriterStep, Scan, RefuseFull, Stage, Link, Collide, FailBeforeLink, Return,
        CrashWriter, ForwarderStep, RecoveryStep, Open, Promote, Discard, Recovered, DrainStep,
        Read, Publish, Advance, Reclaim, Reclaimed, CrashForwarder, PublishUnacknowledged, vars,
        histVars
  <2> QED BY <1>2, <1>4, <2>1 DEF Record
<1> QED BY <1>3, <1>4

\* An event that is committed is in the log, or behind the reader.
LEMMA RecordCommits ==
  ASSUME SpoolInv, NEW e \in Event, NEW s, Record(e, s)
  PROVE  e \in Logged' \cup reused'
<1>1. log \in Seq(Event) /\ Len(log) \in Nat
  BY DEF SpoolInv, TypeOK, OutcomeTypeOK
<1>2. CASE s > ckpt
  <2>1. log' = Append(log, e)
    BY <1>2 DEF Record
  <2>2. Len(log') = Len(log) + 1 /\ log'[Len(log) + 1] = e
    BY <1>1, <2>1
  <2>3. Len(log) + 1 \in 1 .. Len(log')
    BY <1>1, <2>2
  <2> QED BY <2>2, <2>3 DEF Logged
<1>3. CASE ~(s > ckpt)
  BY <1>3 DEF Record
<1> QED BY <1>2, <1>3

\* Every step of every process keeps it.
LEMMA CommitStep ==
  ASSUME SpoolInv, OrderInv, CommitInv, [Next]_vars
  PROVE  CommitInv'
<1>0. /\ wpc \in [Writer -> {"idle", "scanned", "staged", "linked"}]
      /\ wev \in [Writer -> Event \cup {NoEvent}]
      /\ status \in [Event -> {"new", "writing", "accepted", "refused", "unknown"}]
      /\ DOMAIN tmp \subseteq Event /\ OneWriterPerEvent
  BY DEF SpoolInv, TypeOK, DiskTypeOK, WriterTypeOK, OutcomeTypeOK
<1>k. Logged \subseteq Logged' /\ reused \subseteq reused'
  BY CommittedStays
<1>u. ASSUME NEW R PROVE DOMAIN Without(tmp, R) \subseteq DOMAIN tmp \ R
  BY DEF Without, Restrict
<1>a. ASSUME UNCHANGED <<wpc, wev, status>>, DOMAIN tmp' \subseteq DOMAIN tmp PROVE CommitInv'
  BY <1>k, <1>a DEF CommitInv
<1>b. ASSUME NEW w \in Writer, wpc[w] # "idle", NEW o \in {"accepted", "refused", "unknown"},
             EndWrite(w, o), DOMAIN tmp' \subseteq DOMAIN tmp,
             o = "accepted" => wpc[w] = "linked" /\ wev[w] \notin DOMAIN tmp'
      PROVE  CommitInv'
  <2>1. wev[w] \in Event
    BY <1>0, <1>b DEF OneWriterPerEvent
  <2>2. /\ wpc' = [wpc EXCEPT ![w] = "idle"] /\ wev' = [wev EXCEPT ![w] = NoEvent]
        /\ status' = [status EXCEPT ![wev[w]] = o]
    BY <1>b DEF EndWrite
  <2>3. \A v \in Writer : wpc'[v] # "idle" => v # w /\ wpc'[v] = wpc[v] /\ wev'[v] = wev[v]
                                              /\ status'[wev[v]] = status[wev[v]]
    BY <1>0, <1>b, <2>1, <2>2 DEF OneWriterPerEvent
  <2>4. \A e \in Event : status'[e] = "accepted" =>
          status[e] = "accepted" \/ (e = wev[w] /\ wpc[w] = "linked" /\ e \notin DOMAIN tmp')
    BY <1>0, <1>b, <2>1, <2>2
  <2> QED BY <1>0, <1>b, <1>k, <2>3, <2>4 DEF CommitInv
<1>1. ASSUME NEW w \in Writer, NEW e \in Event, Scan(w, e) PROVE CommitInv'
  <2>1. /\ status[e] = "new" /\ UNCHANGED tmp /\ wpc' = [wpc EXCEPT ![w] = "scanned"]
        /\ wev' = [wev EXCEPT ![w] = e] /\ status' = [status EXCEPT ![e] = "writing"]
    BY <1>1 DEF Scan, diskVars
  <2>2. \A v \in Writer : wpc[v] # "idle" => wev[v] \in Event /\ wev[v] # e
    BY <1>0, <2>1 DEF OneWriterPerEvent
  <2>3. \A v \in Writer : wpc'[v] # "idle" => status'[wev'[v]] = "writing"
    BY <1>0, <2>1, <2>2 DEF CommitInv
  <2>4. \A v \in Writer : wpc'[v] = "linked" => wpc[v] = "linked" /\ wev'[v] = wev[v]
    BY <1>0, <2>1
  <2>5. \A d \in Event : status'[d] = "accepted" => status[d] = "accepted"
    BY <1>0, <2>1
  <2> QED BY <1>0, <1>k, <2>1, <2>3, <2>4, <2>5 DEF CommitInv
<1>2. ASSUME NEW w \in Writer, RefuseFull(w) PROVE CommitInv'
  BY <1>2, <1>b DEF RefuseFull
<1>3. ASSUME NEW w \in Writer, Stage(w) PROVE CommitInv'
  <2>1. /\ wpc[w] = "scanned" /\ wpc' = [wpc EXCEPT ![w] = "staged"] /\ UNCHANGED <<wev, status>>
        /\ DOMAIN tmp' = DOMAIN tmp \cup {wev[w]}
    BY <1>3 DEF Stage, With
  <2>2. status[wev[w]] = "writing"
    BY <2>1 DEF CommitInv
  <2> QED BY <1>0, <1>k, <2>1, <2>2 DEF CommitInv
<1>4. ASSUME NEW w \in Writer, Link(w) PROVE CommitInv'
  <2>1. /\ wpc[w] = "staged" /\ wev[w] \in DOMAIN tmp /\ Record(wev[w], tmp[wev[w]].hdr)
        /\ wpc' = [wpc EXCEPT ![w] = "linked"] /\ UNCHANGED <<tmp, wev, status>>
    BY <1>4 DEF Link
  <2>2. wev[w] \in Logged' \cup reused'
    BY <1>0, <2>1, RecordCommits
  <2> QED BY <1>0, <1>k, <2>1, <2>2 DEF CommitInv
<1>5. ASSUME NEW w \in Writer, Collide(w) PROVE CommitInv'
  BY <1>5, <1>a DEF Collide, writerVars
<1>6. ASSUME NEW w \in Writer, FailBeforeLink(w) \/ Return(w) PROVE CommitInv'
  <2>1. /\ wpc[w] # "idle" /\ tmp' = Without(tmp, {wev[w]})
        /\ \E o \in {"accepted", "refused", "unknown"} :
             EndWrite(w, o) /\ (o = "accepted" => wpc[w] = "linked")
    BY <1>6 DEF FailBeforeLink, Return
  <2> QED BY <1>b, <1>u, <2>1
<1>7. ASSUME NEW w \in Writer, CrashWriter(w) PROVE CommitInv'
  BY <1>7, <1>b DEF CrashWriter, diskVars
<1>8. ASSUME NEW e \in Event, Promote(e) \/ Discard(e) PROVE CommitInv'
  BY <1>8, <1>a, <1>u DEF Promote, Discard, writerVars
<1>9. CASE Open \/ Recovered \/ Read \/ Publish \/ Advance \/ Reclaim \/ Reclaimed
           \/ CrashForwarder \/ PublishUnacknowledged \/ UNCHANGED vars
  <2>1. UNCHANGED <<wpc, wev, status, tmp>>
    BY <1>9
    DEF Open, Recovered, Read, Publish, Advance, Reclaim, Reclaimed, CrashForwarder,
        PublishUnacknowledged, vars, diskVars, writerVars
  <2> QED BY <1>a, <2>1
<1> QED
  BY <1>1, <1>2, <1>3, <1>4, <1>5, <1>6, <1>7, <1>8, <1>9
  DEF Next, WriterStep, ForwarderStep, RecoveryStep, DrainStep

\* What is confirmed does not change with a commit of an event not yet accepted.
LEMMA CommitConfirmsNothing ==
  ASSUME SpoolInv, OrderInv, [Next]_vars, NEW e \in Event, status[e] # "accepted",
         UNCHANGED status,
         \/ log' = log /\ reused' \subseteq reused \cup {e}
         \/ reused' = reused /\ Logged' = Logged \cup {e}
  PROVE  Confirmed' = Confirmed
<1>1. Logged \subseteq Logged' /\ reused \subseteq reused'
  BY CommittedStays
<1>2. Logged' \subseteq Logged \cup {e} /\ reused' \subseteq reused \cup {e}
  BY DEF Logged
<1> QED BY <1>1, <1>2 DEF Confirmed, Behind

\* Every step of the spool is a step of the delivery log, or none.
LEMMA DeliveryStep ==
  ASSUME SpoolInv, OrderInv, CommitInv, SpoolInv', OrderInv', Placed, Placed', [Next]_vars
  PROVE  [Delivery!Next]_(Delivery!vars)
<1>0. /\ wpc \in [Writer -> {"idle", "scanned", "staged", "linked"}]
      /\ status \in [Event -> {"new", "writing", "accepted", "refused", "unknown"}]
      /\ \A w \in Writer : wpc[w] # "idle" => wev[w] \in Event /\ status[wev[w]] = "writing"
      /\ ckpt \in Int /\ rpos \in Int /\ ckpt' \in Int /\ rpos' \in Int /\ crashes \in Nat
      /\ Delivery!Logged = Logged
  <2>1. /\ wpc \in [Writer -> {"idle", "scanned", "staged", "linked"}]
        /\ status \in [Event -> {"new", "writing", "accepted", "refused", "unknown"}]
        /\ crashes \in Nat
    BY DEF SpoolInv, TypeOK, WriterTypeOK, OutcomeTypeOK
  <2>2. \A w \in Writer : wpc[w] # "idle" => wev[w] \in Event /\ status[wev[w]] = "writing"
    BY DEF SpoolInv, OneWriterPerEvent, CommitInv
  <2>3. ckpt \in Int /\ rpos \in Int
    BY DEF SpoolInv, TypeOK, DiskTypeOK, ReaderTypeOK, NeverAcked
  <2>4. ckpt' \in Int /\ rpos' \in Int
    BY DEF SpoolInv, TypeOK, DiskTypeOK, ReaderTypeOK, NeverAcked
  <2>5. Delivery!Logged = Logged
    BY DEF Delivery!Logged, Logged
  <2> QED BY <2>1, <2>2, <2>3, <2>4, <2>5
<1>h. /\ fpc \in {"down", "recover"} => Handing = ckpt + 1
      /\ fpc \in {"idle", "ack", "reclaim"} => Handing = rpos + 1
      /\ fpc = "publish" => Handing \in batch /\ IsNextToPublish(Handing)
  BY DEF Placed
<1>i. /\ fpc' \in {"down", "recover"} => Handing' = ckpt' + 1
      /\ fpc' \in {"idle", "ack", "reclaim"} => Handing' = rpos' + 1
      /\ fpc' = "publish" => Handing' \in batch' /\ IsNextToPublish(Handing)'
  BY DEF Placed
<1>a. ASSUME UNCHANGED <<fpc, rpos, ckpt, batch>> PROVE Handing' = Handing
  BY <1>a DEF Handing, IsNextToPublish
<1>b. ASSUME UNCHANGED <<log, ckpt, published, dropped>>, Handing' = Handing, Confirmed' = Confirmed
      PROVE  UNCHANGED Delivery!vars
  BY <1>b DEF Delivery!vars
<1>c. ASSUME NEW e \in Event, e \notin Logged, log' = Append(log, e), Confirmed' = Confirmed,
             Handing' = Handing, UNCHANGED <<ckpt, published, dropped>>
      PROVE  Delivery!Next
  <2>1. Delivery!Append1(e)
    BY <1>0, <1>c DEF Delivery!Append1
  <2> QED BY <2>1 DEF Delivery!Next
<1>q. ASSUME UNCHANGED <<status, log, reused>> PROVE Confirmed' = Confirmed
  BY <1>q DEF Confirmed, Behind, Logged
<1>d. ASSUME NEW e \in DOMAIN tmp, NEW s, s = tmp[e].hdr, s \notin DOMAIN seg, Record(e, s),
             Handing' = Handing, UNCHANGED <<ckpt, published, dropped, status>>
      PROVE  [Delivery!Next]_(Delivery!vars)
  <2>1. log' = log \/ (e \notin Logged /\ log' = Append(log, e))
    BY <1>d, CommitsOnce DEF OrderInv
  <2>2. e \in Event /\ status[e] # "accepted"
    BY StagedType DEF SpoolInv, CommitInv
  <2>3. \/ log' = log /\ reused' \subseteq reused \cup {e}
        \/ reused' = reused /\ Logged' = Logged \cup {e}
    <3>1. CASE s > ckpt
      <4>1. log' = Append(log, e) /\ reused' = reused
        BY <1>d, <3>1 DEF Record
      <4>2. log \in Seq(Event) /\ Len(log) \in Nat
        BY DEF SpoolInv, TypeOK, OutcomeTypeOK
      <4>3. Len(log') # Len(log)
        BY <2>2, <4>1, <4>2
      <4>4. e \notin Logged
        BY <2>1, <4>3
      <4> QED BY <2>2, <4>1, <4>4, AppendedOnce
    <3>2. CASE ~(s > ckpt)
      BY <1>d, <3>2 DEF Record
    <3> QED BY <3>1, <3>2
  <2>4. Confirmed' = Confirmed
    BY <1>d, <2>2, <2>3, CommitConfirmsNothing
  <2> QED BY <1>b, <1>c, <1>d, <2>1, <2>2, <2>4
<1>1. ASSUME NEW w \in Writer, WriterStep(w) PROVE [Delivery!Next]_(Delivery!vars)
  <2>1. UNCHANGED <<ckpt, published, dropped>> /\ Handing' = Handing
    BY <1>1, <1>a
    DEF WriterStep, Scan, RefuseFull, Stage, Link, Collide, FailBeforeLink, Return, CrashWriter,
        diskVars, readerVars
  <2>2. ASSUME NEW e \in Event, Scan(w, e) PROVE [Delivery!Next]_(Delivery!vars)
    <3>1. /\ status[e] = "new" /\ status' = [status EXCEPT ![e] = "writing"]
          /\ UNCHANGED <<log, reused>>
      BY <2>2 DEF Scan, histVars
    <3>2. Confirmed' = Confirmed
      BY <1>0, <3>1 DEF Confirmed, Behind, Logged
    <3> QED BY <1>b, <2>1, <3>1, <3>2
  <2>3. ASSUME wpc[w] # "idle", NEW o \in {"refused", "unknown"}, EndWrite(w, o),
               UNCHANGED <<log, reused>>
        PROVE  [Delivery!Next]_(Delivery!vars)
    <3>1. Confirmed' = Confirmed
      BY <1>0, <2>3 DEF EndWrite, Confirmed, Behind, Logged
    <3> QED BY <1>b, <2>1, <2>3, <3>1
  <2>4. CASE RefuseFull(w) \/ FailBeforeLink(w)
    BY <2>3, <2>4 DEF RefuseFull, FailBeforeLink, histVars
  <2>5. CASE Stage(w) \/ Collide(w)
    <3>1. UNCHANGED <<log, reused, status>>
      BY <2>5 DEF Stage, Collide, histVars
    <3> QED BY <1>b, <1>q, <2>1, <3>1
  <2>6. CASE Link(w)
    <3>1. /\ wev[w] \in DOMAIN tmp /\ tmp[wev[w]].hdr \notin DOMAIN seg
          /\ Record(wev[w], tmp[wev[w]].hdr) /\ UNCHANGED status
      BY <2>6 DEF Link
    <3> QED BY <1>d, <2>1, <3>1
  <2>7. CASE Return(w)
    <3>1. /\ wpc[w] = "linked" /\ UNCHANGED <<log, reused>>
          /\ \E o \in {"accepted", "refused"} : EndWrite(w, o)
      BY <2>7 DEF Return, histVars
    <3>2. ASSUME EndWrite(w, "accepted") PROVE [Delivery!Next]_(Delivery!vars)
      <4>1. PICK e \in Event : e = wev[w] /\ e \in Logged \cup reused
        BY <1>0, <3>1 DEF CommitInv
      <4>2. Confirmed' = Confirmed \cup ({e} \ Behind)
        BY <1>0, <3>1, <3>2, <4>1 DEF EndWrite, Confirmed, Behind, Logged
      <4>3. UNCHANGED <<log, ckpt + 1, Handing, published, dropped>>
        BY <2>1, <3>1
      <4>4. CASE e \in Logged
        <5>1. Confirmed' = Confirmed \cup {e}
          BY <4>2, <4>4 DEF Behind
        <5>2. Delivery!Confirm(e)
          BY <1>0, <4>3, <4>4, <5>1 DEF Delivery!Confirm
        <5> QED BY <4>1, <5>2 DEF Delivery!Next
      <4>5. CASE e \notin Logged
        <5>1. Confirmed' = Confirmed
          BY <4>1, <4>2, <4>5 DEF Behind
        <5> QED BY <1>b, <2>1, <3>1, <5>1
      <4> QED BY <4>4, <4>5
    <3> QED BY <2>3, <3>1, <3>2
  <2>8. CASE CrashWriter(w)
    BY <2>3, <2>8 DEF CrashWriter
  <2> QED BY <1>1, <2>2, <2>4, <2>5, <2>6, <2>7, <2>8 DEF WriterStep
<1>2. ASSUME NEW e \in Event, Promote(e) PROVE [Delivery!Next]_(Delivery!vars)
  <2>1. /\ e \in DOMAIN tmp /\ tmp[e].hdr \notin DOMAIN seg /\ Record(e, tmp[e].hdr)
        /\ UNCHANGED <<status, ckpt, published, dropped, fpc, rpos, batch>>
    BY <1>2 DEF Promote, Promotable
  <2> QED BY <1>a, <1>d, <2>1
<1>3. ASSUME NEW e \in Event, Discard(e) PROVE [Delivery!Next]_(Delivery!vars)
  <2>1. UNCHANGED <<status, log, reused, ckpt, published, dropped, fpc, rpos, batch>>
    BY <1>3 DEF Discard, histVars
  <2> QED BY <1>a, <1>b, <1>q, <2>1
<1>4. CASE Open \/ Recovered \/ Reclaim \/ Reclaimed
  <2>1. UNCHANGED <<ckpt, log, reused, published, dropped, status>>
    BY <1>4 DEF Open, Recovered, Reclaim, Reclaimed, diskVars, histVars
  <2>2. Handing' = Handing
    <3>1. CASE Open
      BY <1>h, <1>i, <2>1, <3>1 DEF Open
    <3>2. CASE Recovered
      <4>1. fpc = "recover" /\ fpc' = "idle" /\ rpos = ckpt /\ rpos' = rpos
        BY <3>2 DEF Recovered, SpoolInv, ReadIsAccountedFor
      <4> QED BY <1>h, <1>i, <4>1
    <3>3. CASE Reclaim \/ Reclaimed
      <4>1. fpc = "reclaim" /\ fpc' \in {"idle", "reclaim"} /\ rpos' = rpos
        BY <3>3 DEF Reclaim, Reclaimed
      <4> QED BY <1>h, <1>i, <4>1
    <3> QED BY <1>4, <3>1, <3>2, <3>3
  <2> QED BY <1>b, <1>q, <2>1, <2>2
<1>5. CASE Read
  <2>1. UNCHANGED <<ckpt, log, reused, published, status>> /\ fpc = "idle" /\ Handing = rpos + 1
    BY <1>5, <1>h DEF Read, diskVars, histVars
  <2>2. PICK hi \in Nat : \E taken \in SUBSET Nat : Takes(hi, taken)
    BY <1>5, ReadTakes
  <2>3. PICK taken \in SUBSET Nat : Takes(hi, taken)
    BY <2>2
  <2>4. /\ rpos < hi /\ hi < Len(log) /\ Len(log) \in Nat /\ -1 <= rpos
        /\ taken \subseteq rpos + 1 .. hi /\ batch' = taken /\ rpos' = hi
        /\ taken = {} => fpc' = "idle"
        /\ taken # {} => fpc' = "publish"
    <3>1. Len(log) \in Nat /\ -1 <= rpos
      BY DEF SpoolInv, TypeOK, ReaderTypeOK, OutcomeTypeOK, NeverAcked
    <3> QED BY <2>1, <2>3, <3>1 DEF Takes
  <2>5. \E S \in SUBSET {log[i] : i \in Handing + 1 .. Len(log)} : dropped' = dropped \cup S
    <3>1. {log[j + 1] : j \in (rpos + 1 .. hi) \ taken} \subseteq {log[i] : i \in Handing + 1 .. Len(log)}
      <4>1. ASSUME NEW j \in (rpos + 1 .. hi) \ taken
            PROVE  log[j + 1] \in {log[i] : i \in Handing + 1 .. Len(log)}
        <5>1. j + 1 \in Handing + 1 .. Len(log)
          BY <1>0, <2>1, <2>4
        <5> QED BY <5>1
      <4> QED BY <4>1
    <3> QED BY <2>3, <3>1 DEF Takes
  <2>6. \A i \in rpos + 2 .. hi + 1 : i - 1 \notin taken => log[i] \in dropped'
    <3>1. ASSUME NEW i \in rpos + 2 .. hi + 1, i - 1 \notin taken PROVE log[i] \in dropped'
      <4>1. i - 1 \in (rpos + 1 .. hi) \ taken /\ (i - 1) + 1 = i
        BY <1>0, <2>4, <3>1
      <4>2. log[(i - 1) + 1] \in dropped'
        BY <2>3, <4>1 DEF Takes
      <4> QED BY <4>1, <4>2
    <3> QED BY <3>1
  <2>7. /\ Handing' \in Handing .. Len(log)
        /\ \A i \in Handing + 1 .. Handing' : log[i] \in dropped'
    <3>1. CASE taken = {}
      <4>1. Handing' = hi + 1
        BY <1>i, <2>4, <3>1
      <4> QED BY <1>0, <2>1, <2>4, <2>6, <3>1, <4>1
    <3>2. CASE taken # {}
      <4>1. Handing' \in taken /\ \A r \in taken : Handing' <= r
        BY <1>i, <2>4, <3>2 DEF IsNextToPublish
      <4>2. Handing' \in Int /\ rpos + 1 <= Handing' /\ Handing' <= hi
        BY <1>0, <2>4, <4>1
      <4>3. ASSUME NEW i \in Handing + 1 .. Handing' PROVE log[i] \in dropped'
        <5>1. i \in rpos + 2 .. hi + 1 /\ ~(Handing' <= i - 1)
          BY <1>0, <2>1, <2>4, <4>2, <4>3
        <5> QED BY <2>6, <4>1, <5>1
      <4> QED BY <1>0, <2>1, <2>4, <4>2, <4>3
    <3> QED BY <3>1, <3>2
  <2>8. Delivery!Drop
    BY <1>q, <2>1, <2>5, <2>7 DEF Delivery!Drop, Delivery!Proceed
  <2> QED BY <2>8 DEF Delivery!Next
<1>6. CASE Publish
  <2>1. PICK s \in batch : IsNextToPublish(s) /\ Store(seg[s]) /\ batch' = batch \ {s}
    BY <1>6 DEF Publish
  <2>2. /\ fpc = "publish" /\ fpc' = (IF batch' = {} THEN "ack" ELSE "publish")
        /\ UNCHANGED <<rpos, ckpt, log, reused, status, dropped>>
    BY <1>6 DEF Publish, diskVars
  <2>3. Handing = s /\ s < Len(log) /\ published' = published \cup {log[Handing + 1]}
    BY <2>1, <2>2, HandsOverTheNext
  <2>4. /\ s \in Nat /\ s <= rpos /\ rpos < Len(log) /\ Len(log) \in Nat /\ batch \subseteq Nat
        /\ \A j \in s .. rpos : j \in batch \/ log[j + 1] \in dropped
        /\ \A r \in batch : r <= rpos
    BY <2>1, <2>2
    DEF OrderInv, BatchIsAhead, SpoolInv, ReadIsAccountedFor, Running, TypeOK, ReaderTypeOK,
        OutcomeTypeOK
  <2>5. \A i \in s + 2 .. rpos + 1 : i - 1 \notin batch' => log[i] \in dropped
    <3>1. ASSUME NEW i \in s + 2 .. rpos + 1, i - 1 \notin batch' PROVE log[i] \in dropped
      <4>1. i - 1 \in s .. rpos /\ i - 1 # s /\ (i - 1) + 1 = i
        BY <1>0, <2>4, <3>1
      <4>2. i - 1 \notin batch
        BY <2>1, <3>1, <4>1
      <4>3. log[(i - 1) + 1] \in dropped
        BY <2>4, <4>1, <4>2
      <4> QED BY <4>1, <4>3
    <3> QED BY <3>1
  <2>6. /\ Handing' \in Handing + 1 .. Len(log)
        /\ \A i \in (Handing + 1) + 1 .. Handing' : log[i] \in dropped'
    <3>1. CASE batch' = {}
      <4>1. Handing' = rpos + 1
        BY <1>i, <2>2, <3>1
      <4> QED BY <1>0, <2>2, <2>3, <2>4, <2>5, <3>1, <4>1
    <3>2. CASE batch' # {}
      <4>1. Handing' \in batch' /\ \A r \in batch' : Handing' <= r
        BY <1>i, <2>2, <3>2 DEF IsNextToPublish
      <4>2. Handing' \in Nat /\ Handing' # s /\ s <= Handing' /\ Handing' <= rpos
        BY <2>1, <2>4, <4>1 DEF IsNextToPublish
      <4>3. ASSUME NEW i \in (Handing + 1) + 1 .. Handing' PROVE log[i] \in dropped'
        <5>1. i \in s + 2 .. rpos + 1 /\ ~(Handing' <= i - 1)
          BY <1>0, <2>3, <2>4, <4>2, <4>3
        <5> QED BY <2>2, <2>5, <4>1, <5>1
      <4> QED BY <1>0, <2>3, <2>4, <4>2, <4>3
    <3> QED BY <3>1, <3>2
  <2>7. Delivery!HandOver
    BY <1>q, <2>2, <2>3, <2>6 DEF Delivery!HandOver, Delivery!Proceed
  <2> QED BY <2>7 DEF Delivery!Next
<1>7. CASE Advance
  <2>1. /\ fpc = "ack" /\ fpc' = "reclaim" /\ ckpt' = pend
        /\ UNCHANGED <<log, reused, published, dropped, status, rpos>>
    BY <1>7 DEF Advance, histVars
  <2>2. ckpt < pend /\ pend <= rpos
    BY <2>1 DEF SpoolInv, ReadIsAccountedFor
  <2>3. Handing = rpos + 1 /\ Handing' = rpos + 1
    BY <1>h, <1>i, <2>1
  <2>4. ckpt' + 1 \in ckpt + 1 + 1 .. Handing
    BY <1>0, <2>1, <2>2, <2>3
  <2>5. Delivery!Acknowledge
    BY <1>q, <2>1, <2>3, <2>4 DEF Delivery!Acknowledge
  <2> QED BY <2>5 DEF Delivery!Next
<1>8. CASE CrashForwarder
  <2>1. fpc' = "down" /\ UNCHANGED <<ckpt, log, reused, published, dropped, status>>
    BY <1>8 DEF CrashForwarder, Exit, diskVars
  <2>2. Delivery!Stop
    BY <1>i, <1>q, <2>1 DEF Delivery!Stop
  <2> QED BY <2>2 DEF Delivery!Next
<1>9. CASE PublishUnacknowledged
  <2>1. PICK s \in batch : IsNextToPublish(s) /\ Store(seg[s])
    BY <1>9 DEF PublishUnacknowledged
  <2>2. fpc = "publish" /\ fpc' = "down" /\ UNCHANGED <<ckpt, log, reused, status, dropped>>
    BY <1>9 DEF PublishUnacknowledged, Exit, diskVars
  <2>3. Handing = s /\ s < Len(log) /\ published' = published \cup {log[Handing + 1]}
    BY <2>1, <2>2, HandsOverTheNext
  <2>4. Delivery!HandOverAndStop
    BY <1>i, <1>q, <2>2, <2>3 DEF Delivery!HandOverAndStop
  <2> QED BY <2>4 DEF Delivery!Next
<1>10. CASE UNCHANGED vars
  <2>1. UNCHANGED <<status, log, reused, ckpt, published, dropped, fpc, rpos, batch>>
    BY <1>10 DEF vars, diskVars, readerVars, histVars
  <2> QED BY <1>a, <1>b, <1>q, <2>1
<1> QED
  BY <1>1, <1>2, <1>3, <1>4, <1>5, <1>6, <1>7, <1>8, <1>9, <1>10
  DEF Next, ForwarderStep, RecoveryStep, DrainStep

\* The spool and its forwarder, with any number of writers that share it without a lock and die
\* anywhere, are an append-only log read by one consumer: an accepted event is in it, unless it
\* was committed behind the reader, and the consumer hands events over in order.
THEOREM SpoolRefinesDeliveryLog == Spec => ImplementsDeliveryLog
<1>1. Init => CommitInv /\ Delivery!Init
  <2> SUFFICES ASSUME Init PROVE CommitInv /\ Delivery!Init
    OBVIOUS
  <2>1. /\ wpc = [w \in Writer |-> "idle"] /\ status = [e \in Event |-> "new"] /\ DOMAIN tmp = {}
        /\ fpc = "down" /\ ckpt = -1 /\ log = << >> /\ published = {} /\ dropped = {}
    BY DEF Init, NeverAcked
  <2>2. CommitInv
    BY <2>1 DEF CommitInv
  <2>3. Handing = 0 /\ Confirmed = {}
    BY <2>1 DEF Handing, Confirmed
  <2>4. Delivery!Init
    BY <2>1, <2>3 DEF Delivery!Init
  <2> QED BY <2>2, <2>4
<1>2. SpoolInv /\ OrderInv /\ CommitInv /\ [Next]_vars => CommitInv'
  BY CommitStep
<1>3. SpoolInv /\ OrderInv /\ CommitInv /\ SpoolInv' /\ OrderInv' /\ Placed /\ Placed' /\ [Next]_vars
        => [Delivery!Next]_(Delivery!vars)
  BY DeliveryStep
<1> QED
  BY <1>1, <1>2, <1>3, HandingIs, SpoolInvariant, OrderInvariant, PTL
  DEF Spec, ImplementsDeliveryLog, Delivery!Spec

\* A number is above the checkpoint when it is chosen, so one that is not was overtaken.
OvertakenInv ==
  /\ \A e \in DOMAIN tmp : tmp[e].hdr <= ckpt => e \in overtaken
  /\ reused \subseteq overtaken

\* Every step of every process keeps it.
LEMMA OvertakenStep ==
  ASSUME SpoolInv, OvertakenInv, [Next]_vars
  PROVE  OvertakenInv'
<1>0. ckpt \in Int /\ \A e \in DOMAIN tmp : e \in Event /\ tmp[e].hdr \in Nat
  BY StagedType DEF SpoolInv, TypeOK, DiskTypeOK, NeverAcked
<1>a. ASSUME UNCHANGED <<ckpt, reused, overtaken>>,
             \A e \in DOMAIN tmp' : e \in DOMAIN tmp /\ tmp'[e] = tmp[e]
      PROVE  OvertakenInv'
  BY <1>a DEF OvertakenInv
<1>u. ASSUME NEW R, tmp' = Without(tmp, R)
      PROVE  \A e \in DOMAIN tmp' : e \in DOMAIN tmp /\ tmp'[e] = tmp[e]
  BY <1>u DEF Without, Restrict
<1>r. ASSUME NEW e \in DOMAIN tmp, Record(e, tmp[e].hdr), UNCHANGED <<ckpt, overtaken>>,
             \A d \in DOMAIN tmp' : d \in DOMAIN tmp /\ tmp'[d] = tmp[d]
      PROVE  OvertakenInv'
  <2>1. reused' \subseteq overtaken
    <3>1. CASE tmp[e].hdr > ckpt
      BY <1>r, <3>1 DEF Record, OvertakenInv
    <3>2. CASE ~(tmp[e].hdr > ckpt)
      BY <1>0, <1>r, <3>2 DEF Record, OvertakenInv
    <3> QED BY <3>1, <3>2
  <2> QED BY <1>r, <2>1 DEF OvertakenInv
<1>1. ASSUME NEW w \in Writer, Stage(w) PROVE OvertakenInv'
  <2>1. PICK n \in Floors(w) : IsFloor(w, n) /\ tmp' = With(tmp, wev[w], [name |-> n, hdr |-> n])
    BY <1>1 DEF Stage
  <2>2. UNCHANGED <<ckpt, reused, overtaken>>
    BY <1>1 DEF Stage, histVars
  <2>3. ckpt + 1 <= n /\ n \in Int
    <3>1. wfloor[w] \in Nat /\ wseen[w] \subseteq Nat
      BY DEF SpoolInv, TypeOK, WriterTypeOK
    <3>2. n \in Int
      BY <1>0, <2>1, <3>1 DEF Floors
    <3>3. ckpt + 1 \in Floors(w)
      BY DEF Floors
    <3> QED BY <2>1, <3>2, <3>3 DEF IsFloor
  <2>4. /\ tmp'[wev[w]].hdr = n
        /\ \A e \in DOMAIN tmp' : e # wev[w] => e \in DOMAIN tmp /\ tmp'[e] = tmp[e]
    BY <2>1 DEF With
  <2>5. ASSUME NEW e \in DOMAIN tmp', tmp'[e].hdr <= ckpt PROVE e \in overtaken
    <3>1. e # wev[w]
      BY <1>0, <2>3, <2>4, <2>5
    <3> QED BY <2>4, <2>5, <3>1 DEF OvertakenInv
  <2> QED BY <2>2, <2>5 DEF OvertakenInv
<1>2. ASSUME NEW w \in Writer, Link(w) PROVE OvertakenInv'
  <2>1. /\ wev[w] \in DOMAIN tmp /\ Record(wev[w], tmp[wev[w]].hdr)
        /\ UNCHANGED <<ckpt, overtaken, tmp>>
    BY <1>2 DEF Link
  <2> QED BY <1>r, <2>1
<1>3. ASSUME NEW w \in Writer, Collide(w) PROVE OvertakenInv'
  <2>1. /\ DOMAIN tmp' = DOMAIN tmp /\ UNCHANGED <<ckpt, reused, overtaken>>
        /\ \A e \in DOMAIN tmp : tmp'[e].hdr \in {tmp[e].hdr, tmp[e].hdr + 1}
    BY <1>3 DEF Collide, histVars, SpoolInv, TypeOK, DiskTypeOK
  <2> QED BY <1>0, <2>1 DEF OvertakenInv
<1>4. ASSUME NEW w \in Writer, FailBeforeLink(w) \/ Return(w) PROVE OvertakenInv'
  BY <1>4, <1>a, <1>u DEF FailBeforeLink, Return, histVars
<1>5. ASSUME NEW w \in Writer,
             (\E e \in Event : Scan(w, e)) \/ RefuseFull(w) \/ CrashWriter(w)
      PROVE  OvertakenInv'
  BY <1>5, <1>a DEF Scan, RefuseFull, CrashWriter, diskVars, histVars
<1>6. ASSUME NEW e \in Event, Promote(e) PROVE OvertakenInv'
  <2>1. /\ e \in DOMAIN tmp /\ Record(e, tmp[e].hdr) /\ tmp' = Without(tmp, {e})
        /\ UNCHANGED <<ckpt, overtaken>>
    BY <1>6 DEF Promote, Promotable
  <2> QED BY <1>r, <1>u, <2>1
<1>7. ASSUME NEW e \in Event, Discard(e) PROVE OvertakenInv'
  BY <1>7, <1>a, <1>u DEF Discard, histVars
<1>8. CASE Advance
  <2>1. /\ ckpt' = pend /\ UNCHANGED <<tmp, reused>>
        /\ overtaken' = overtaken \cup {e \in DOMAIN tmp : ckpt < tmp[e].hdr /\ tmp[e].hdr <= pend}
    BY <1>8 DEF Advance
  <2>2. ASSUME NEW e \in DOMAIN tmp, tmp[e].hdr <= pend PROVE e \in overtaken'
    BY <1>0, <2>1, <2>2 DEF OvertakenInv
  <2> QED BY <2>1, <2>2 DEF OvertakenInv
<1>9. CASE Open \/ Recovered \/ Read \/ Publish \/ Reclaim \/ Reclaimed \/ CrashForwarder
          \/ PublishUnacknowledged \/ UNCHANGED vars
  <2>1. UNCHANGED <<tmp, ckpt, reused, overtaken>>
    BY <1>9
    DEF Open, Recovered, Read, Publish, Reclaim, Reclaimed, CrashForwarder,
        PublishUnacknowledged, vars, diskVars, histVars
  <2> QED BY <1>a, <2>1
<1> QED
  BY <1>1, <1>2, <1>3, <1>4, <1>5, <1>6, <1>7, <1>8, <1>9
  DEF Next, WriterStep, ForwarderStep, RecoveryStep, DrainStep

\* With any number of writers sharing the directory without a lock, and any deaths, an accepted
\* event that is neither published nor reported nor ahead of the checkpoint was staged at a number
\* which the forwarder acknowledged before the link, as in spool_reuse: nothing else loses it.
THEOREM AcceptedIsLostWhenOvertaken == Spec => []AcceptedOrOvertaken
<1>1. Init => CommitInv /\ OvertakenInv
  BY DEF Init, CommitInv, OvertakenInv
<1>2. SpoolInv /\ OrderInv /\ CommitInv /\ [Next]_vars => CommitInv'
  BY CommitStep
<1>3. SpoolInv /\ OvertakenInv /\ [Next]_vars => OvertakenInv'
  BY OvertakenStep
<1>4. NoSilentLoss /\ CommitInv /\ OvertakenInv => AcceptedOrOvertaken
  <2> SUFFICES ASSUME NoSilentLoss, CommitInv, OvertakenInv, NEW e \in Event,
                      status[e] = "accepted", e \notin Settled, e \notin overtaken
               PROVE  \E s \in DOMAIN seg : s > ckpt /\ seg[s] = e
    BY DEF AcceptedOrOvertaken
  <2>1. PICK i \in 1 .. Len(log) : log[i] = e
    BY DEF CommitInv, OvertakenInv, Logged
  <2> QED BY <2>1 DEF NoSilentLoss
<1> QED
  BY <1>1, <1>2, <1>3, <1>4, SpoolInvariant, OrderInvariant, NothingLoggedIsLost, PTL DEF Spec

-----------------------------------------------------------------------------
(* One writer process that does not die: nothing is committed behind it.    *)

SoleWriter == (\A v, w \in Writer : v = w) /\ MaxCrashes = 0

\* The staging file is the running write's own, and it was numbered after everything logged.
SoleInv ==
  /\ \A w \in Writer : wpc[w] # "idle" => status[wev[w]] = "writing"
  /\ \A w \in Writer : wpc[w] = "linked" => wev[w] \in Logged
  /\ \A e \in Event : status[e] = "accepted" => e \in Logged
  /\ \A e \in DOMAIN tmp : \E w \in Writer : wev[w] = e /\ wpc[w] \in {"staged", "linked"}
  /\ \A w \in Writer : wpc[w] = "staged" /\ wev[w] \in DOMAIN tmp => tmp[wev[w]].hdr = Len(log)
  /\ \A w \in Writer : wpc[w] = "scanned" => \A s \in Numbers : ckpt < s => s \in wseen[w]

\* What the forwarder does to the staging files and the log.
LEMMA SoleForwarderStep ==
  ASSUME SoleWriter, SpoolInv, SoleInv, UNCHANGED <<wpc, wev, wseen, status>>, LogMoves,
         \/ UNCHANGED <<tmp, log>>
         \/ \E e \in DOMAIN tmp : tmp' = Without(tmp, {e}),
         ckpt' \in Int, ckpt <= ckpt'
  PROVE  SoleInv'
<1>1. /\ Len(log) \in Nat /\ ckpt \in Int /\ wpc \in [Writer -> {"idle", "scanned", "staged", "linked"}]
  BY DEF SpoolInv, TypeOK, DiskTypeOK, WriterTypeOK, OutcomeTypeOK, NeverAcked
<1>2. Logged \subseteq Logged'
  BY LoggedStays
<1>3. \A e \in DOMAIN tmp' : e \in DOMAIN tmp /\ tmp'[e] = tmp[e]
  BY DEF Without, Restrict
<1>4. CASE UNCHANGED <<tmp, log>>
  <2>1. Numbers' = Numbers
    BY <1>4 DEF Numbers
  <2>2. \A s \in Numbers : s \in Int
    BY <1>1 DEF Numbers
  <2>3. \A w \in Writer : wpc[w] = "scanned" => \A s \in Numbers : ckpt' < s => s \in wseen[w]
    BY <1>1, <2>2 DEF SoleInv
  <2> QED BY <1>2, <1>4, <2>1, <2>3 DEF SoleInv
<1>5. ASSUME NEW e \in DOMAIN tmp, tmp' = Without(tmp, {e}) PROVE SoleInv'
  <2>1. e \notin DOMAIN tmp'
    BY <1>5 DEF Without, Restrict
  <2>2. PICK v \in Writer : wev[v] = e /\ wpc[v] \in {"staged", "linked"}
    BY DEF SoleInv
  <2>3. \A w \in Writer : wev[w] = e /\ wpc[w] \in {"staged", "linked"}
    BY <2>2 DEF SoleWriter
  <2> QED BY <1>2, <1>3, <2>1, <2>3 DEF SoleInv
<1> QED BY <1>4, <1>5

\* No staging file is left once no write is past its scan.
LEMMA NothingStaged ==
  ASSUME SoleWriter, SoleInv, NEW w \in Writer, wpc[w] \notin {"staged", "linked"}
  PROVE  DOMAIN tmp = {}
<1>1. ASSUME NEW e \in DOMAIN tmp PROVE FALSE
  <2>1. PICK v \in Writer : wpc[v] \in {"staged", "linked"}
    BY DEF SoleInv
  <2>2. v = w
    BY DEF SoleWriter
  <2> QED BY <2>1, <2>2
<1> QED BY <1>1

\* The write ends.
LEMMA SoleEnd ==
  ASSUME SoleWriter, SpoolInv, SoleInv, NEW w \in Writer, wpc[w] # "idle",
         NEW o \in {"accepted", "refused"}, EndWrite(w, o), o = "accepted" => wev[w] \in Logged,
         DOMAIN tmp' = {}, UNCHANGED log
  PROVE  SoleInv'
<1>1. /\ wpc \in [Writer -> {"idle", "scanned", "staged", "linked"}]
      /\ status \in [Event -> {"new", "writing", "accepted", "refused", "unknown"}]
      /\ wev[w] \in Event
  BY DEF SpoolInv, TypeOK, WriterTypeOK, OutcomeTypeOK, OneWriterPerEvent
<1>2. \A v \in Writer : wpc'[v] = "idle"
  BY <1>1 DEF SoleWriter, EndWrite
<1>3. \A e \in Event : status'[e] = "accepted" => e \in Logged
  BY <1>1 DEF SoleInv, EndWrite
<1> QED BY <1>2, <1>3 DEF SoleInv, Logged

\* A sole writer numbers its segment right after the log.
LEMMA FloorIsNext ==
  ASSUME SpoolInv, SoleInv, NEW w \in Writer, wpc[w] = "scanned", NEW n, IsFloor(w, n)
  PROVE  n = Len(log)
<1>1. /\ ckpt \in Int /\ -1 <= ckpt /\ ckpt < Len(log) /\ Len(log) \in Nat /\ wfloor[w] \in Nat
      /\ wfloor[w] <= Len(log) /\ wseen[w] \subseteq Nat /\ \A s \in wseen[w] : s < Len(log)
  BY DEF SpoolInv, TypeOK, DiskTypeOK, WriterTypeOK, OutcomeTypeOK, NeverAcked, DiskAgreesWithLog,
         NumbersWithinLog
<1>2. n \in Int /\ n <= Len(log) /\ ckpt + 1 <= n /\ \A s \in wseen[w] : s + 1 <= n
  BY <1>1 DEF IsFloor, Floors
<1>3. CASE ckpt + 1 = Len(log)
  BY <1>1, <1>2, <1>3
<1>4. CASE ckpt + 1 < Len(log)
  <2>1. Len(log) - 1 \in Numbers /\ ckpt < Len(log) - 1
    BY <1>1, <1>4 DEF Numbers
  <2>2. Len(log) - 1 \in wseen[w]
    BY <2>1 DEF SoleInv
  <2>3. (Len(log) - 1) + 1 <= n
    BY <1>2, <2>2
  <2> QED BY <1>1, <1>2, <2>3
<1> QED BY <1>1, <1>3, <1>4

\* Every step of the writer keeps it.
LEMMA SoleWriterStep ==
  ASSUME SoleWriter, SpoolInv, SoleInv, NEW w \in Writer, WriterStep(w)
  PROVE  SoleInv'
<1>0. /\ wpc \in [Writer -> {"idle", "scanned", "staged", "linked"}]
      /\ wev \in [Writer -> Event \cup {NoEvent}] /\ wseen \in [Writer -> SUBSET Nat]
      /\ status \in [Event -> {"new", "writing", "accepted", "refused", "unknown"}]
      /\ wpc[w] # "idle" => wev[w] \in Event
      /\ ckpt \in Int /\ Len(log) \in Nat /\ ckpt < Len(log) /\ crashes \in Nat /\ log \in Seq(Event)
  BY DEF SpoolInv, TypeOK, DiskTypeOK, WriterTypeOK, OutcomeTypeOK, OneWriterPerEvent, NeverAcked,
         DiskAgreesWithLog
<1>s. \A v \in Writer : v = w
  BY DEF SoleWriter
<1>1. ASSUME NEW e \in Event, Scan(w, e) PROVE SoleInv'
  <2>1. /\ wpc[w] = "idle" /\ wpc' = [wpc EXCEPT ![w] = "scanned"] /\ wev' = [wev EXCEPT ![w] = e]
        /\ wseen' = [wseen EXCEPT ![w] = DOMAIN seg] /\ status' = [status EXCEPT ![e] = "writing"]
        /\ UNCHANGED <<tmp, ckpt, log>>
    BY <1>1 DEF Scan, diskVars, histVars
  <2>2. DOMAIN tmp = {}
    BY <2>1, NothingStaged
  <2>3. Logged' = Logged /\ Numbers' = Numbers
    BY <2>1 DEF Logged, Numbers
  <2>4. \A s \in Numbers : ckpt < s => s \in DOMAIN seg
    BY DEF SpoolInv, DiskAgreesWithLog
  <2>5. wpc'[w] = "scanned" /\ wev'[w] = e /\ wseen'[w] = DOMAIN seg /\ status'[e] = "writing"
    BY <1>0, <2>1
  <2>6. \A d \in Event : status'[d] = "accepted" => d \in Logged
    BY <1>0, <2>1 DEF SoleInv
  <2> QED BY <1>s, <2>1, <2>2, <2>3, <2>4, <2>5, <2>6 DEF SoleInv
<1>2. CASE RefuseFull(w)
  <2>1. wpc[w] = "scanned" /\ EndWrite(w, "refused") /\ UNCHANGED <<tmp, log>>
    BY <1>2 DEF RefuseFull, histVars
  <2> QED BY <2>1, NothingStaged, SoleEnd
<1>3. CASE Stage(w)
  <2>1. PICK n : IsFloor(w, n) /\ tmp' = With(tmp, wev[w], [name |-> n, hdr |-> n])
    BY <1>3 DEF Stage
  <2>2. /\ wpc[w] = "scanned" /\ wpc' = [wpc EXCEPT ![w] = "staged"]
        /\ UNCHANGED <<ckpt, wev, status, log>>
    BY <1>3 DEF Stage, histVars
  <2>3. n = Len(log) /\ DOMAIN tmp = {}
    BY <2>1, <2>2, FloorIsNext, NothingStaged
  <2>4. DOMAIN tmp' = {wev[w]} /\ tmp'[wev[w]].hdr = Len(log)
    BY <2>1, <2>3 DEF With
  <2>5. wpc'[w] = "staged"
    BY <1>0, <2>2
  <2>6. Logged' = Logged
    BY <2>2 DEF Logged
  <2> QED BY <1>s, <2>2, <2>4, <2>5, <2>6 DEF SoleInv
<1>4. CASE Link(w)
  <2>1. /\ wpc[w] = "staged" /\ wev[w] \in DOMAIN tmp /\ Record(wev[w], tmp[wev[w]].hdr)
        /\ wpc' = [wpc EXCEPT ![w] = "linked"] /\ UNCHANGED <<tmp, ckpt, wev, wseen, status>>
    BY <1>4 DEF Link
  <2>2. log' = Append(log, wev[w])
    BY <1>0, <2>1 DEF SoleInv, Record
  <2>3. Logged \subseteq Logged' /\ wev[w] \in Logged'
    <3>1. Logged \subseteq Logged'
      BY <1>0, <2>1, <2>2, LoggedStays DEF LogMoves
    <3>2. Len(log') = Len(log) + 1 /\ log'[Len(log) + 1] = wev[w]
      BY <1>0, <2>1, <2>2
    <3>3. Len(log) + 1 \in 1 .. Len(log')
      BY <1>0, <3>2
    <3> QED BY <3>1, <3>2, <3>3 DEF Logged
  <2>4. wpc'[w] = "linked"
    BY <1>0, <2>1
  <2> QED BY <1>s, <2>1, <2>3, <2>4 DEF SoleInv
<1>5. CASE Collide(w)
  <2>1. wpc[w] = "staged" /\ wev[w] \in DOMAIN tmp /\ tmp[wev[w]].hdr \in DOMAIN seg
    BY <1>5 DEF Collide
  <2>2. tmp[wev[w]].hdr = Len(log) /\ \A s \in DOMAIN seg : s < Len(log)
    BY <2>1 DEF SoleInv, SpoolInv, DiskAgreesWithLog
  <2> QED BY <1>0, <2>1, <2>2
<1>6. ASSUME FailBeforeLink(w) \/ Return(w) PROVE SoleInv'
  <2>1. /\ wpc[w] # "idle" /\ tmp' = Without(tmp, {wev[w]}) /\ UNCHANGED log
        /\ \E o \in {"accepted", "refused"} :
             EndWrite(w, o) /\ (o = "accepted" => wpc[w] = "linked")
    BY <1>6 DEF FailBeforeLink, Return, histVars
  <2>2. DOMAIN tmp \subseteq {wev[w]}
    BY <1>s DEF SoleInv
  <2>3. DOMAIN tmp' = {}
    BY <2>1, <2>2 DEF Without, Restrict
  <2>4. wpc[w] = "linked" => wev[w] \in Logged
    BY DEF SoleInv
  <2> QED BY <2>1, <2>3, <2>4, SoleEnd
<1>7. ~ CrashWriter(w)
  BY <1>0 DEF CrashWriter, SoleWriter
<1> QED BY <1>1, <1>2, <1>3, <1>4, <1>5, <1>6, <1>7 DEF WriterStep

\* Every step of every process keeps it.
LEMMA SoleStep ==
  ASSUME SoleWriter, SpoolInv, OrderInv, SpoolInv', SoleInv, [Next]_vars
  PROVE  SoleInv'
<1>0. ckpt \in Int /\ ckpt' \in Int /\ LogMoves
  BY LogOnlyMoves DEF SpoolInv, TypeOK, DiskTypeOK, NeverAcked
<1>1. ASSUME NEW w \in Writer, WriterStep(w) PROVE SoleInv'
  BY <1>1, SoleWriterStep
<1>a. ASSUME UNCHANGED <<wpc, wev, wseen, status, tmp, log, ckpt>> PROVE SoleInv'
  BY <1>0, <1>a, SoleForwarderStep
<1>2. ASSUME NEW e \in Event, Promote(e) PROVE SoleInv'
  <2>1. /\ UNCHANGED <<wpc, wev, wseen, status, ckpt>> /\ e \in DOMAIN tmp
        /\ tmp' = Without(tmp, {e})
    BY <1>2 DEF Promote, Promotable, writerVars
  <2> QED BY <1>0, <2>1, SoleForwarderStep
<1>3. ASSUME NEW e \in Event, Discard(e) PROVE SoleInv'
  <2>1. UNCHANGED <<wpc, wev, wseen, status, ckpt, log>> /\ tmp' = Without(tmp, {e})
    BY <1>3 DEF Discard, writerVars, histVars
  <2>2. CASE e \in DOMAIN tmp
    BY <1>0, <2>1, <2>2, SoleForwarderStep
  <2>3. CASE e \notin DOMAIN tmp
    <3>1. \A d \in DOMAIN tmp' : d \in DOMAIN tmp /\ tmp'[d] = tmp[d]
      BY <2>1 DEF Without, Restrict
    <3>2. DOMAIN tmp' = DOMAIN tmp /\ Logged' = Logged /\ Numbers' = Numbers
      BY <2>1, <2>3 DEF Without, Restrict, Logged, Numbers
    <3> QED BY <2>1, <3>1, <3>2 DEF SoleInv
  <2> QED BY <2>2, <2>3
<1>4. CASE Advance
  <2>1. UNCHANGED <<wpc, wev, wseen, status, tmp, log>> /\ ckpt' = pend /\ fpc = "ack"
    BY <1>4 DEF Advance, writerVars, histVars
  <2>2. ckpt < pend
    BY <2>1 DEF SpoolInv, ReadIsAccountedFor
  <2>3. ckpt <= ckpt'
    BY <1>0, <2>1, <2>2
  <2> QED BY <1>0, <2>1, <2>3, SoleForwarderStep
<1>5. CASE Open \/ Recovered \/ Read \/ Publish \/ Reclaim \/ Reclaimed \/ CrashForwarder
          \/ PublishUnacknowledged \/ UNCHANGED vars
  <2>1. UNCHANGED <<wpc, wev, wseen, status, tmp, log, ckpt>>
    BY <1>5
    DEF Open, Recovered, Read, Publish, Reclaim, Reclaimed, CrashForwarder,
        PublishUnacknowledged, vars, diskVars, writerVars, histVars
  <2> QED BY <2>1, <1>a
<1> QED
  BY <1>1, <1>2, <1>3, <1>4, <1>5 DEF Next, ForwarderStep, RecoveryStep, DrainStep

\* Then an accepted write is never behind the reader: its event is published or reported,
\* or its segment is ahead of the checkpoint.
THEOREM AcceptedByASoleWriter ==
  ASSUME SoleWriter
  PROVE  Spec => []AcceptedIsReachable
<1>1. Init => SoleInv
  BY DEF Init, SoleInv
<1>2. SpoolInv /\ OrderInv /\ SpoolInv' /\ SoleInv /\ [Next]_vars => SoleInv'
  BY SoleStep
<1>3. SpoolInv /\ NoSilentLoss /\ SoleInv => AcceptedIsReachable
  <2> SUFFICES ASSUME NoSilentLoss, SoleInv, NEW e \in Event, status[e] = "accepted",
                      e \notin Settled
               PROVE  \E s \in DOMAIN seg : s > ckpt /\ seg[s] = e
    BY DEF AcceptedIsReachable
  <2>1. PICK i \in 1 .. Len(log) : log[i] = e
    BY DEF SoleInv, Logged
  <2> QED BY <2>1 DEF NoSilentLoss
<1> QED BY <1>1, <1>2, <1>3, SpoolInvariant, OrderInvariant, NothingLoggedIsLost, PTL DEF Spec

\* So the delivery log that the spool implements has every accepted event.
THEOREM ASoleWriterIsConfirmed ==
  ASSUME SoleWriter
  PROVE  Spec => [](Confirmed = {e \in Event : status[e] = "accepted"})
<1>1. Init => SoleInv
  BY DEF Init, SoleInv
<1>2. SpoolInv /\ OrderInv /\ SpoolInv' /\ SoleInv /\ [Next]_vars => SoleInv'
  BY SoleStep
<1>3. SoleInv => Confirmed = {e \in Event : status[e] = "accepted"}
  BY DEF SoleInv, Confirmed, Behind
<1> QED BY <1>1, <1>2, <1>3, SpoolInvariant, OrderInvariant, PTL DEF Spec

-----------------------------------------------------------------------------
(* The cap on segments. Below, sets are counted: writers, staging files, segments.   *)

\* A finite set is not larger than a finite set that contains it.
LEMMA SubsetBound ==
  ASSUME NEW S, NEW T, IsFiniteSet(T), S \subseteq T
  PROVE  /\ IsFiniteSet(S) /\ Cardinality(S) \in Nat /\ Cardinality(T) \in Nat
         /\ Cardinality(S) <= Cardinality(T)
BY FS_Subset, FS_CardinalityType

\* A union is not larger than its parts together.
LEMMA UnionBound ==
  ASSUME NEW S, NEW T, IsFiniteSet(S), IsFiniteSet(T)
  PROVE  /\ IsFiniteSet(S \cup T)
         /\ Cardinality(S) \in Nat /\ Cardinality(T) \in Nat /\ Cardinality(S \cup T) \in Nat
         /\ Cardinality(S \cup T) <= Cardinality(S) + Cardinality(T)
<1>1. IsFiniteSet(S \cap T) /\ IsFiniteSet(S \cup T)
  BY FS_Intersection, FS_Union
<1>2. /\ Cardinality(S) \in Nat /\ Cardinality(T) \in Nat
      /\ Cardinality(S \cap T) \in Nat /\ Cardinality(S \cup T) \in Nat
  BY <1>1, FS_CardinalityType
<1>3. Cardinality(S \cup T) = Cardinality(S) + Cardinality(T) - Cardinality(S \cap T)
  BY FS_Union
<1> QED BY <1>1, <1>2, <1>3

\* One element more or less.
LEMMA OneMore ==
  ASSUME NEW S, IsFiniteSet(S), NEW x
  PROVE  /\ IsFiniteSet(S \cup {x}) /\ Cardinality(S) \in Nat /\ Cardinality(S \cup {x}) \in Nat
         /\ Cardinality(S \cup {x}) <= Cardinality(S) + 1
         /\ x \notin S => Cardinality(S \cup {x}) = Cardinality(S) + 1
<1>1. IsFiniteSet(S \cup {x})
  BY FS_AddElement
<1> QED BY <1>1, FS_AddElement, FS_CardinalityType

\* The other way.
LEMMA OneLess ==
  ASSUME NEW S, IsFiniteSet(S), NEW x \in S
  PROVE  /\ IsFiniteSet(S \ {x}) /\ Cardinality(S) \in Nat /\ Cardinality(S \ {x}) \in Nat
         /\ Cardinality(S \ {x}) = Cardinality(S) - 1
<1>1. IsFiniteSet(S \ {x})
  BY FS_RemoveElement
<1> QED BY <1>1, FS_RemoveElement, FS_CardinalityType

\* Ranks: each number k below the size of a finite set of integers is the number of elements
\* below one of them, so at least k elements have fewer than k below them.
LEMMA LeastOnes ==
  ASSUME NEW S \in SUBSET Int, IsFiniteSet(S), NEW k \in Nat, k <= Cardinality(S),
         NEW L, L = {s \in S : Cardinality({r \in S : r < s}) < k}
  PROVE  IsFiniteSet(L) /\ Cardinality(L) \in Nat /\ k <= Cardinality(L)
<1> DEFINE Below(s) == {r \in S : r < s}
           n == Cardinality(S)
           rank == [s \in S |-> Cardinality(Below(s))]
<1>1. n \in Nat
  BY FS_CardinalityType
<1>2. \A s \in S : Cardinality(Below(s)) \in Nat /\ Cardinality(Below(s)) < n
  <2> SUFFICES ASSUME NEW s \in S PROVE Cardinality(Below(s)) \in Nat /\ Cardinality(Below(s)) < n
    OBVIOUS
  <2>1. Below(s) \subseteq S \ {s}
    OBVIOUS
  <2>2. IsFiniteSet(S \ {s}) /\ Cardinality(S \ {s}) = n - 1
    BY OneLess
  <2>3. Cardinality(Below(s)) \in Nat /\ Cardinality(Below(s)) <= n - 1
    BY <2>1, <2>2, SubsetBound
  <2> HIDE DEF Below
  <2> QED BY <1>1, <2>3
<1>3. \A r, s \in S : r < s => Cardinality(Below(r)) < Cardinality(Below(s))
  <2> SUFFICES ASSUME NEW r \in S, NEW s \in S, r < s
               PROVE  Cardinality(Below(r)) < Cardinality(Below(s))
    OBVIOUS
  <2>1. Below(r) \subseteq Below(s) /\ r \in Below(s) /\ r \notin Below(r)
    <3>1. \A q \in S : q < r => q < s
      OBVIOUS
    <3>2. ~ (r < r)
      OBVIOUS
    <3> QED BY <3>1, <3>2
  <2>2. IsFiniteSet(Below(s))
    BY SubsetBound
  <2> HIDE DEF Below
  <2>3. Below(r) \cup {r} \subseteq Below(s)
    BY <2>1
  <2>4. IsFiniteSet(Below(r))
    BY <2>1, <2>2, SubsetBound
  <2>5. Cardinality(Below(r) \cup {r}) = Cardinality(Below(r)) + 1 /\ Cardinality(Below(r)) \in Nat
    BY <2>1, <2>4, OneMore
  <2>6. Cardinality(Below(r) \cup {r}) <= Cardinality(Below(s)) /\ Cardinality(Below(s)) \in Nat
    BY <2>2, <2>3, SubsetBound
  <2> QED BY <2>5, <2>6
<1> HIDE DEF Below, n
<1>4. rank \in Injection(S, 0 .. n - 1)
  <2>1. rank \in [S -> 0 .. n - 1]
    BY <1>1, <1>2
  <2>2. \A r, s \in S : rank[r] = rank[s] => r = s
    <3> SUFFICES ASSUME NEW r \in S, NEW s \in S, r # s PROVE rank[r] # rank[s]
      OBVIOUS
    <3>1. r < s \/ s < r
      OBVIOUS
    <3> QED BY <1>2, <1>3, <3>1
  <2> QED BY <2>1, <2>2 DEF Injection, IsInjective
<1>5. IsFiniteSet(0 .. n - 1) /\ Cardinality(0 .. n - 1) = n
  BY <1>1, FS_Interval
<1>6. rank \in Surjection(S, 0 .. n - 1)
  BY <1>4, <1>5, FS_Injection DEF n
<1>7. L = {s \in S : rank[s] < k}
  BY DEF Below
<1>r. rank \in [S -> 0 .. n - 1]
  BY <1>6 DEF Surjection
<1> HIDE DEF rank
<1> DEFINE low == [s \in L |-> rank[s]]
<1>8. low \in Surjection(L, 0 .. k - 1)
  <2>1. low \in [L -> 0 .. k - 1]
    <3>1. \A s \in L : rank[s] \in 0 .. k - 1
      BY <1>1, <1>r, <1>7
    <3> QED BY <3>1
  <2>2. \A t \in 0 .. k - 1 : \E s \in L : low[s] = t
    <3> SUFFICES ASSUME NEW t \in 0 .. k - 1 PROVE \E s \in L : low[s] = t
      OBVIOUS
    <3>1. t \in 0 .. n - 1
      BY <1>1 DEF n
    <3>2. PICK s \in S : rank[s] = t
      BY <1>6, <3>1 DEF Surjection
    <3> QED BY <1>7, <3>2
  <2> HIDE DEF low
  <2> QED BY <2>1, <2>2 DEF Surjection
<1>9. IsFiniteSet(L)
  BY SubsetBound
<1> HIDE DEF low
<1>10. Cardinality(0 .. k - 1) <= Cardinality(L)
  BY <1>8, <1>9, FS_Surjection
<1>11. Cardinality(0 .. k - 1) = k
  BY FS_Interval
<1> QED BY <1>9, <1>10, <1>11, FS_CardinalityType

\* What the writers hold, and what they will: an event has one segment at most, its staging
\* file has that segment's number, and a writer that has not committed has none.
InSeg(e) == \E s \in DOMAIN seg : seg[s] = e
OneSegmentPerEvent ==
  /\ \A s, t \in DOMAIN seg : seg[s] = seg[t] => s = t
  /\ \A e \in DOMAIN tmp : \A s \in DOMAIN seg : seg[s] = e => tmp[e].hdr = s
  /\ \A w \in Writer :
       wpc[w] = "scanned" \/ (wpc[w] = "staged" /\ wev[w] \in DOMAIN tmp) => ~ InSeg(wev[w])
  /\ \A e \in Event : status[e] = "new" => ~ InSeg(e)

\* Files go, writes end: kept.
LEMMA SegmentsShrink ==
  ASSUME OneSegmentPerEvent,
         \A s \in DOMAIN seg' : s \in DOMAIN seg /\ seg'[s] = seg[s],
         \A e \in DOMAIN tmp' : e \in DOMAIN tmp /\ tmp'[e] = tmp[e],
         \A w \in Writer : /\ wpc'[w] = "scanned" => wpc[w] = "scanned" /\ wev'[w] = wev[w]
                           /\ wpc'[w] = "staged" => wpc[w] = "staged" /\ wev'[w] = wev[w],
         \A e \in Event : status'[e] = "new" => status[e] = "new"
  PROVE  OneSegmentPerEvent'
<1>1. \A e : InSeg(e)' => InSeg(e)
  BY DEF InSeg
<1> QED BY <1>1 DEF OneSegmentPerEvent

\* An event without a segment gets one.
LEMMA SegmentAdded ==
  ASSUME SpoolInv, OneSegmentPerEvent, NEW e \in DOMAIN tmp, NEW n, n = tmp[e].hdr,
         n \notin DOMAIN seg, seg' = With(seg, n, e), UNCHANGED <<wev, status>>,
         \A d \in DOMAIN tmp' : d \in DOMAIN tmp /\ tmp'[d] = tmp[d],
         \A w \in Writer :
           /\ wpc'[w] = "scanned" => wpc[w] = "scanned"
           /\ wpc'[w] = "staged" => wpc[w] = "staged"
           /\ wpc'[w] = "staged" => wev[w] # e \/ e \notin DOMAIN tmp'
  PROVE  OneSegmentPerEvent'
<1>0. OneWriterPerEvent /\ e \in Event
  BY StagedType DEF SpoolInv
<1>1. /\ DOMAIN seg' = DOMAIN seg \cup {n} /\ seg'[n] = e
      /\ \A s \in DOMAIN seg : seg'[s] = seg[s]
  BY DEF With
<1>2. ~ InSeg(e)
  BY DEF InSeg, OneSegmentPerEvent
<1>3. \A d : InSeg(d)' => InSeg(d) \/ d = e
  BY <1>1 DEF InSeg
<1>4. \A s, t \in DOMAIN seg' : seg'[s] = seg'[t] => s = t
  BY <1>1, <1>2 DEF InSeg, OneSegmentPerEvent
<1>5. \A d \in DOMAIN tmp' : \A s \in DOMAIN seg' : seg'[s] = d => tmp'[d].hdr = s
  BY <1>1, <1>2 DEF InSeg, OneSegmentPerEvent
<1>6. ASSUME NEW w \in Writer,
             wpc'[w] = "scanned" \/ (wpc'[w] = "staged" /\ wev'[w] \in DOMAIN tmp')
      PROVE  ~ InSeg(wev[w])'
  <2>1. ~ InSeg(wev[w])
    BY <1>6 DEF OneSegmentPerEvent
  <2>2. wev[w] # e
    BY <1>0, <1>6 DEF OneWriterPerEvent
  <2> QED BY <1>3, <2>1, <2>2 DEF InSeg
<1>7. ASSUME NEW d \in Event, status'[d] = "new" PROVE ~ InSeg(d)'
  <2>1. d # e
    BY <1>0, <1>7 DEF OneWriterPerEvent
  <2> QED BY <1>3, <1>7, <2>1 DEF OneSegmentPerEvent, InSeg
<1> QED BY <1>4, <1>5, <1>6, <1>7 DEF OneSegmentPerEvent

\* Every step keeps one segment per event.
LEMMA OneSegmentStep ==
  ASSUME SpoolInv, OneSegmentPerEvent, [Next]_vars
  PROVE  OneSegmentPerEvent'
<1>0. /\ OneWriterPerEvent
      /\ status \in [Event -> {"new", "writing", "accepted", "refused", "unknown"}]
      /\ wpc \in [Writer -> {"idle", "scanned", "staged", "linked"}]
      /\ wev \in [Writer -> Event \cup {NoEvent}]
  BY DEF SpoolInv, TypeOK, OutcomeTypeOK, WriterTypeOK
<1>g. /\ \A R : \A s \in DOMAIN Without(seg, R) : s \in DOMAIN seg /\ Without(seg, R)[s] = seg[s]
      /\ \A R : \A e \in DOMAIN Without(tmp, R) : e \in DOMAIN tmp /\ Without(tmp, R)[e] = tmp[e]
  BY DEF Without, Restrict
<1>e. ASSUME NEW w \in Writer, NEW o \in {"accepted", "refused", "unknown"}, EndWrite(w, o),
             wpc[w] # "idle",
             seg' = seg \/ \E R : seg' = Without(seg, R),
             tmp' = tmp \/ \E R : tmp' = Without(tmp, R)
      PROVE  OneSegmentPerEvent'
  <2>1. \A e \in Event : status'[e] = "new" => status[e] = "new"
    BY <1>0, <1>e DEF EndWrite
  <2>2. \A v \in Writer : /\ wpc'[v] = "scanned" => wpc[v] = "scanned" /\ wev'[v] = wev[v]
                          /\ wpc'[v] = "staged" => wpc[v] = "staged" /\ wev'[v] = wev[v]
    BY <1>0, <1>e DEF EndWrite
  <2>3. \A s \in DOMAIN seg' : s \in DOMAIN seg /\ seg'[s] = seg[s]
    BY <1>g, <1>e
  <2>4. \A e \in DOMAIN tmp' : e \in DOMAIN tmp /\ tmp'[e] = tmp[e]
    BY <1>g, <1>e
  <2> QED BY <2>1, <2>2, <2>3, <2>4, SegmentsShrink
<1>1. ASSUME NEW w \in Writer, NEW e \in Event, Scan(w, e) PROVE OneSegmentPerEvent'
  <2>1. /\ status[e] = "new" /\ wpc' = [wpc EXCEPT ![w] = "scanned"] /\ wev' = [wev EXCEPT ![w] = e]
        /\ status' = [status EXCEPT ![e] = "writing"] /\ UNCHANGED <<seg, tmp>>
    BY <1>1 DEF Scan, diskVars
  <2>2. \A d : InSeg(d)' <=> InSeg(d)
    BY <2>1 DEF InSeg
  <2>3. ASSUME NEW v \in Writer,
               wpc'[v] = "scanned" \/ (wpc'[v] = "staged" /\ wev'[v] \in DOMAIN tmp')
        PROVE  ~ InSeg(wev[v])'
    <3>1. CASE v = w
      BY <1>0, <2>1, <3>1 DEF OneSegmentPerEvent, InSeg
    <3>2. CASE v # w
      BY <1>0, <2>1, <2>3, <3>2 DEF OneSegmentPerEvent, InSeg
    <3> QED BY <3>1, <3>2
  <2>4. \A d \in Event : status'[d] = "new" => ~ InSeg(d)'
    BY <1>0, <2>1 DEF OneSegmentPerEvent, InSeg
  <2>5. /\ \A s, t \in DOMAIN seg' : seg'[s] = seg'[t] => s = t
        /\ \A d \in DOMAIN tmp' : \A s \in DOMAIN seg' : seg'[s] = d => tmp'[d].hdr = s
    BY <2>1 DEF OneSegmentPerEvent
  <2> QED BY <2>3, <2>4, <2>5 DEF OneSegmentPerEvent
<1>2. ASSUME NEW w \in Writer, RefuseFull(w) PROVE OneSegmentPerEvent'
  BY <1>2, <1>e DEF RefuseFull
<1>3. ASSUME NEW w \in Writer, Stage(w) PROVE OneSegmentPerEvent'
  <2>1. /\ wpc[w] = "scanned" /\ seg' = Without(seg, Evicted(w)) /\ UNCHANGED <<wev, status>>
        /\ wpc' = [wpc EXCEPT ![w] = "staged"] /\ \E x : tmp' = With(tmp, wev[w], x)
    BY <1>3 DEF Stage
  <2>2. /\ \A s \in DOMAIN seg' : s \in DOMAIN seg /\ seg'[s] = seg[s]
        /\ \A d \in DOMAIN tmp' : d # wev[w] => d \in DOMAIN tmp /\ tmp'[d] = tmp[d]
    BY <1>g, <2>1 DEF With
  <2>3. \A d : InSeg(d)' => InSeg(d)
    BY <2>2 DEF InSeg
  <2>4. ~ InSeg(wev[w])
    BY <2>1 DEF OneSegmentPerEvent
  <2>5. ASSUME NEW v \in Writer,
               wpc'[v] = "scanned" \/ (wpc'[v] = "staged" /\ wev'[v] \in DOMAIN tmp')
        PROVE  ~ InSeg(wev[v])'
    <3>1. CASE wev[v] = wev[w]
      BY <2>1, <2>3, <2>4, <3>1 DEF InSeg
    <3>2. CASE wev[v] # wev[w]
      <4>1. wpc[v] = wpc'[v]
        BY <1>0, <2>1, <3>2
      <4>2. ~ InSeg(wev[v])
        BY <2>1, <2>2, <2>5, <3>2, <4>1 DEF OneSegmentPerEvent
      <4> QED BY <2>1, <2>3, <4>2 DEF InSeg
    <3> QED BY <3>1, <3>2
  <2>6. \A d \in Event : status'[d] = "new" => ~ InSeg(d)'
    BY <2>1, <2>2 DEF OneSegmentPerEvent, InSeg
  <2>7. \A s, t \in DOMAIN seg' : seg'[s] = seg'[t] => s = t
    BY <2>2 DEF OneSegmentPerEvent
  <2>8. \A d \in DOMAIN tmp' : \A s \in DOMAIN seg' : seg'[s] = d => tmp'[d].hdr = s
    BY <2>2, <2>4 DEF OneSegmentPerEvent, InSeg
  <2> QED BY <2>5, <2>6, <2>7, <2>8 DEF OneSegmentPerEvent
<1>4. ASSUME NEW w \in Writer, Link(w) PROVE OneSegmentPerEvent'
  <2>1. /\ wev[w] \in DOMAIN tmp /\ tmp[wev[w]].hdr \notin DOMAIN seg
        /\ seg' = With(seg, tmp[wev[w]].hdr, wev[w]) /\ UNCHANGED <<wev, status, tmp>>
        /\ wpc[w] = "staged" /\ wpc' = [wpc EXCEPT ![w] = "linked"]
    BY <1>4 DEF Link, Record
  <2>2. \A v \in Writer : /\ wpc'[v] = "scanned" => wpc[v] = "scanned"
                          /\ wpc'[v] = "staged" => wpc[v] = "staged" /\ v # w
    BY <1>0, <2>1
  <2>3. \A v \in Writer : wpc'[v] = "staged" => wev[v] # wev[w]
    BY <2>1, <2>2 DEF SpoolInv, OneWriterPerEvent
  <2>4. \A d \in DOMAIN tmp' : d \in DOMAIN tmp /\ tmp'[d] = tmp[d]
    BY <2>1
  <2> QED BY <2>1, <2>2, <2>3, <2>4, SegmentAdded
<1>5. ASSUME NEW w \in Writer, Collide(w) PROVE OneSegmentPerEvent'
  <2>1. /\ wpc[w] = "staged" /\ wev[w] \in DOMAIN tmp /\ UNCHANGED <<seg, wpc, wev, status>>
        /\ DOMAIN tmp' = DOMAIN tmp /\ \A d \in DOMAIN tmp : d # wev[w] => tmp'[d] = tmp[d]
    BY <1>5 DEF Collide, writerVars
  <2>2. ~ InSeg(wev[w])
    BY <2>1 DEF OneSegmentPerEvent
  <2>3. \A d \in DOMAIN tmp' : \A s \in DOMAIN seg' : seg'[s] = d => tmp'[d].hdr = s
    BY <2>1, <2>2 DEF OneSegmentPerEvent, InSeg
  <2>4. \A d : InSeg(d)' <=> InSeg(d)
    BY <2>1 DEF InSeg
  <2> QED BY <2>1, <2>3, <2>4 DEF OneSegmentPerEvent, InSeg
<1>6. ASSUME NEW w \in Writer, FailBeforeLink(w) \/ Return(w) \/ CrashWriter(w) PROVE OneSegmentPerEvent'
  <2>1. /\ wpc[w] # "idle" /\ seg' = seg /\ (tmp' = tmp \/ tmp' = Without(tmp, {wev[w]}))
        /\ \E o \in {"accepted", "refused", "unknown"} : EndWrite(w, o)
    BY <1>6 DEF FailBeforeLink, Return, CrashWriter, diskVars
  <2> QED BY <2>1, <1>e
<1>7. ASSUME NEW w \in Writer, WriterStep(w) PROVE OneSegmentPerEvent'
  BY <1>1, <1>2, <1>3, <1>4, <1>5, <1>6, <1>7 DEF WriterStep
<1>8. ASSUME NEW e \in Event, Promote(e) PROVE OneSegmentPerEvent'
  <2>1. /\ e \in DOMAIN tmp /\ tmp[e].hdr \notin DOMAIN seg /\ seg' = With(seg, tmp[e].hdr, e)
        /\ tmp' = Without(tmp, {e}) /\ UNCHANGED <<wpc, wev, status>>
    BY <1>8 DEF Promote, Promotable, Record, writerVars
  <2>2. e \notin DOMAIN tmp'
    BY <2>1 DEF Without, Restrict
  <2>3. \A d \in DOMAIN tmp' : d \in DOMAIN tmp /\ tmp'[d] = tmp[d]
    BY <1>g, <2>1
  <2> QED BY <2>1, <2>2, <2>3, SegmentAdded
<1>9. ASSUME NEW e \in Event, Discard(e) PROVE OneSegmentPerEvent'
  <2>1. UNCHANGED <<seg, wpc, wev, status>> /\ tmp' = Without(tmp, {e})
    BY <1>9 DEF Discard, writerVars
  <2>2. \A d \in DOMAIN tmp' : d \in DOMAIN tmp /\ tmp'[d] = tmp[d]
    BY <1>g, <2>1
  <2> QED BY <2>1, <2>2, SegmentsShrink
<1>10. CASE Reclaim
  <2>1. UNCHANGED <<tmp, wpc, wev, status>> /\ \E R : seg' = Without(seg, R)
    BY <1>10 DEF Reclaim, writerVars
  <2>2. \A s \in DOMAIN seg' : s \in DOMAIN seg /\ seg'[s] = seg[s]
    BY <1>g, <2>1
  <2> QED BY <2>1, <2>2, SegmentsShrink
<1>11. CASE Open \/ Recovered \/ Read \/ Publish \/ Advance \/ Reclaimed \/ CrashForwarder
            \/ PublishUnacknowledged \/ UNCHANGED vars
  <2>1. UNCHANGED <<seg, tmp, wpc, wev, status>>
    BY <1>11
    DEF Open, Recovered, Read, Publish, Advance, Reclaimed, CrashForwarder,
        PublishUnacknowledged, vars, diskVars, writerVars
  <2> QED BY <2>1, SegmentsShrink
<1> QED
  BY <1>7, <1>8, <1>9, <1>10, <1>11 DEF Next, ForwarderStep, RecoveryStep, DrainStep

\* Staging files that their writers left: one for each writer that died, at most.
Owners == {w \in Writer : wpc[w] \in {"staged", "linked"}}
Orphans == {e \in DOMAIN tmp : \A w \in Owners : wev[w] # e}
OrphansOfCrashes == IsFiniteSet(Orphans) /\ Cardinality(Orphans) <= crashes

\* A death leaves one more.
LEMMA OrphansKept ==
  ASSUME SpoolInv, OrphansOfCrashes,
         \/ Orphans' \subseteq Orphans /\ crashes' = crashes
         \/ crashes' = crashes + 1 /\ \E x : Orphans' \subseteq Orphans \cup {x}
  PROVE  OrphansOfCrashes'
<1>0. crashes \in Nat
  BY DEF SpoolInv, TypeOK, OutcomeTypeOK
<1>1. CASE Orphans' \subseteq Orphans /\ crashes' = crashes
  BY <1>0, <1>1, SubsetBound DEF OrphansOfCrashes
<1>2. CASE crashes' = crashes + 1 /\ \E x : Orphans' \subseteq Orphans \cup {x}
  <2>1. PICK x : Orphans' \subseteq Orphans \cup {x}
    BY <1>2
  <2>2. /\ IsFiniteSet(Orphans \cup {x}) /\ Cardinality(Orphans) \in Nat
        /\ Cardinality(Orphans \cup {x}) <= Cardinality(Orphans) + 1
    BY OneMore DEF OrphansOfCrashes
  <2>3. /\ IsFiniteSet(Orphans') /\ Cardinality(Orphans') \in Nat
        /\ Cardinality(Orphans \cup {x}) \in Nat
        /\ Cardinality(Orphans') <= Cardinality(Orphans \cup {x})
    BY <2>1, <2>2, SubsetBound
  <2> QED BY <1>0, <1>2, <2>2, <2>3 DEF OrphansOfCrashes
<1> QED BY <1>1, <1>2

\* Every step of the writers and of recovery keeps the bound.
LEMMA OrphansStep ==
  ASSUME SpoolInv, OrphansOfCrashes, [Next]_vars
  PROVE  OrphansOfCrashes'
<1>0. /\ wpc \in [Writer -> {"idle", "scanned", "staged", "linked"}]
      /\ wev \in [Writer -> Event \cup {NoEvent}]
  BY DEF SpoolInv, TypeOK, WriterTypeOK
<1>g. \A R : DOMAIN Without(tmp, R) = DOMAIN tmp \ R
  BY DEF Without, Restrict
<1>q. ASSUME DOMAIN tmp' \subseteq DOMAIN tmp, UNCHANGED <<wpc, wev, crashes>> PROVE OrphansOfCrashes'
  <2>1. Orphans' \subseteq Orphans
    BY <1>q DEF Orphans, Owners
  <2> QED BY <1>q, <2>1, OrphansKept
<1>1. ASSUME NEW w \in Writer, NEW e \in Event, Scan(w, e) PROVE OrphansOfCrashes'
  <2>1. Orphans' \subseteq Orphans /\ crashes' = crashes
    BY <1>0, <1>1 DEF Scan, Orphans, Owners, diskVars, histVars
  <2> QED BY <2>1, OrphansKept
<1>2. ASSUME NEW w \in Writer, RefuseFull(w) PROVE OrphansOfCrashes'
  <2>1. Orphans' \subseteq Orphans /\ crashes' = crashes
    BY <1>0, <1>2 DEF RefuseFull, EndWrite, Orphans, Owners, histVars
  <2> QED BY <2>1, OrphansKept
<1>3. ASSUME NEW w \in Writer, Stage(w) PROVE OrphansOfCrashes'
  <2>1. /\ UNCHANGED <<wev, crashes>> /\ wpc' = [wpc EXCEPT ![w] = "staged"]
        /\ DOMAIN tmp' = DOMAIN tmp \cup {wev[w]}
    BY <1>3 DEF Stage, histVars, With
  <2>2. Orphans' \subseteq Orphans
    BY <1>0, <2>1 DEF Orphans, Owners
  <2> QED BY <2>1, <2>2, OrphansKept
<1>4. ASSUME NEW w \in Writer, Link(w) PROVE OrphansOfCrashes'
  <2>1. Orphans' \subseteq Orphans /\ crashes' = crashes
    BY <1>0, <1>4 DEF Link, Orphans, Owners
  <2> QED BY <2>1, OrphansKept
<1>5. ASSUME NEW w \in Writer, Collide(w) PROVE OrphansOfCrashes'
  BY <1>5, <1>q DEF Collide, writerVars, histVars
<1>6. ASSUME NEW w \in Writer, FailBeforeLink(w) \/ Return(w) PROVE OrphansOfCrashes'
  <2>1. /\ tmp' = Without(tmp, {wev[w]}) /\ crashes' = crashes
        /\ wpc' = [wpc EXCEPT ![w] = "idle"] /\ wev' = [wev EXCEPT ![w] = NoEvent]
    BY <1>6 DEF FailBeforeLink, Return, EndWrite, histVars
  <2>2. DOMAIN tmp' = DOMAIN tmp \ {wev[w]}
    BY <1>g, <2>1
  <2>3. Orphans' \subseteq Orphans
    BY <1>0, <2>1, <2>2 DEF Orphans, Owners
  <2> QED BY <2>1, <2>3, OrphansKept
<1>7. ASSUME NEW w \in Writer, CrashWriter(w) PROVE OrphansOfCrashes'
  <2>1. /\ tmp' = tmp /\ crashes' = crashes + 1
        /\ wpc' = [wpc EXCEPT ![w] = "idle"] /\ wev' = [wev EXCEPT ![w] = NoEvent]
    BY <1>7 DEF CrashWriter, EndWrite, diskVars
  <2>2. Orphans' \subseteq Orphans \cup {wev[w]}
    BY <1>0, <2>1 DEF Orphans, Owners
  <2> QED BY <2>1, <2>2, OrphansKept
<1>8. ASSUME NEW w \in Writer, WriterStep(w) PROVE OrphansOfCrashes'
  BY <1>1, <1>2, <1>3, <1>4, <1>5, <1>6, <1>7, <1>8 DEF WriterStep
<1>9. ASSUME NEW e \in Event, Promote(e) \/ Discard(e) PROVE OrphansOfCrashes'
  <2>1. UNCHANGED <<wpc, wev, crashes>> /\ tmp' = Without(tmp, {e})
    BY <1>9 DEF Promote, Discard, writerVars, histVars
  <2>2. DOMAIN tmp' \subseteq DOMAIN tmp
    BY <1>g, <2>1
  <2> QED BY <2>1, <2>2, <1>q
<1>10. CASE Open \/ Recovered \/ DrainStep \/ CrashForwarder \/ PublishUnacknowledged \/ UNCHANGED vars
  <2>1. UNCHANGED <<tmp, wpc, wev, crashes>>
    BY <1>10
    DEF Open, Recovered, DrainStep, Read, Publish, Advance, Reclaim, Reclaimed, CrashForwarder,
        PublishUnacknowledged, vars, diskVars, writerVars, histVars
  <2> QED BY <2>1, <1>q
<1> QED BY <1>8, <1>9, <1>10 DEF Next, ForwarderStep, RecoveryStep

-----------------------------------------------------------------------------
(* Writers that have listed the directory will evict by what they saw. Let B be what remains  *)
(* of the listing that last made room, P the writers that listed before that one did and have *)
(* not staged since, and older[w] the writers that had listed when w did. Each segment or     *)
(* staging file beyond B stands for a writer that is not in P, or for a death.                *)

Scanned == {w \in Writer : wpc[w] = "scanned"}
Room == Cardinality(Writer) + crashes
Beyond(X) == DOMAIN tmp \cup {seg[s] : s \in DOMAIN seg \ X}

\* What w will keep when it makes room has no more than this beyond it.
ListedInTime(w, P, older) ==
  /\ older[w] \subseteq Scanned \ {w} /\ P \subseteq older[w]
  /\ Cardinality(Beyond(wseen[w])) + Cardinality(older[w]) + 1 <= Room

Race(B, P, older) ==
  /\ IsFiniteSet(B) /\ Cardinality(B) <= MaxFiles - 1
  /\ P \subseteq Scanned
  /\ Cardinality(Beyond(B)) + Cardinality(P) <= Room
  /\ \A w \in Scanned \ P : ListedInTime(w, P, older)
  /\ \A v, w \in Scanned \ P : v # w => v \in older[w] \/ w \in older[v]
  /\ \A w \in Scanned \ P : \A v \in older[w] \ P : older[v] \subseteq older[w]

RaceInv ==
  \E B \in SUBSET Nat, P \in SUBSET Writer, older \in [Writer -> SUBSET Writer] : Race(B, P, older)

\* All that is counted is finite.
CapInv == OneSegmentPerEvent /\ OrphansOfCrashes /\ RaceInv

\* A directory listing is finite.
LEMMA ListingIsFinite ==
  ASSUME SpoolInv
  PROVE  /\ IsFiniteSet(DOMAIN seg) /\ DOMAIN seg \subseteq Nat
         /\ \A w \in Writer : IsFiniteSet(wseen[w]) /\ wseen[w] \subseteq Nat
<1>1. Len(log) \in Nat /\ DOMAIN seg \subseteq Nat /\ \A w \in Writer : wseen[w] \subseteq Nat
  BY DEF SpoolInv, TypeOK, DiskTypeOK, WriterTypeOK, OutcomeTypeOK
<1>2. /\ \A s \in DOMAIN seg : s <= Len(log)
      /\ \A w \in Writer : \A s \in wseen[w] : s <= Len(log)
  BY <1>1 DEF SpoolInv, DiskAgreesWithLog, NumbersWithinLog
<1>3. IsFiniteSet(DOMAIN seg)
  BY <1>1, <1>2, FS_BoundedSetOfNaturals
<1>4. ASSUME NEW w \in Writer PROVE IsFiniteSet(wseen[w])
  BY <1>1, <1>2, FS_BoundedSetOfNaturals
<1> QED BY <1>1, <1>3, <1>4

\* A staging file is a writer's own, or that of a writer that died.
LEMMA StagingIsBounded ==
  ASSUME IsFiniteSet(Writer), SpoolInv, OrphansOfCrashes
  PROVE  /\ IsFiniteSet(DOMAIN tmp) /\ IsFiniteSet(Owners)
         /\ Cardinality(DOMAIN tmp) \in Nat /\ Cardinality(Owners) \in Nat
         /\ Cardinality(DOMAIN tmp) <= crashes + Cardinality(Owners)
<1> DEFINE own == [w \in Owners |-> wev[w]]
           W == {wev[w] : w \in Owners}
<1>0. crashes \in Nat
  BY DEF SpoolInv, TypeOK, OutcomeTypeOK
<1>1. IsFiniteSet(Owners) /\ Cardinality(Owners) \in Nat
  BY SubsetBound DEF Owners
<1>2. own \in Surjection(Owners, W)
  BY DEF Surjection
<1>3. IsFiniteSet(W) /\ Cardinality(W) <= Cardinality(Owners)
  <2> HIDE DEF own, W
  <2> QED BY <1>1, <1>2, FS_Surjection
<1>4. DOMAIN tmp \subseteq Orphans \cup W
  BY DEF Orphans
<1> HIDE DEF W
<1>5. /\ IsFiniteSet(Orphans \cup W) /\ Cardinality(Orphans) \in Nat /\ Cardinality(W) \in Nat
      /\ Cardinality(Orphans \cup W) \in Nat
      /\ Cardinality(Orphans \cup W) <= Cardinality(Orphans) + Cardinality(W)
  BY <1>3, UnionBound DEF OrphansOfCrashes
<1>6. /\ IsFiniteSet(DOMAIN tmp) /\ Cardinality(DOMAIN tmp) \in Nat
      /\ Cardinality(DOMAIN tmp) <= Cardinality(Orphans \cup W)
  BY <1>4, <1>5, SubsetBound
<1> QED BY <1>0, <1>1, <1>3, <1>5, <1>6 DEF OrphansOfCrashes

\* So what lies beyond a set is finite.
LEMMA BeyondIsFinite ==
  ASSUME IsFiniteSet(Writer), SpoolInv, OrphansOfCrashes, NEW X
  PROVE  IsFiniteSet(Beyond(X)) /\ Cardinality(Beyond(X)) \in Nat
<1> DEFINE D == DOMAIN seg \ X
           f == [s \in D |-> seg[s]]
           V == {seg[s] : s \in D}
<1>1. IsFiniteSet(D)
  BY ListingIsFinite, SubsetBound
<1>2. f \in Surjection(D, V)
  BY DEF Surjection
<1>3. IsFiniteSet(V)
  <2> HIDE DEF f, V, D
  <2> QED BY <1>1, <1>2, FS_Surjection
<1>4. Beyond(X) = DOMAIN tmp \cup V
  BY DEF Beyond
<1> HIDE DEF V
<1>5. IsFiniteSet(DOMAIN tmp \cup V) /\ Cardinality(DOMAIN tmp \cup V) \in Nat
  BY <1>3, StagingIsBounded, UnionBound
<1> QED BY <1>4, <1>5

\* The race bounds the directory.
LEMMA RaceBounds ==
  ASSUME IsFiniteSet(Writer), SpoolInv, CapInv, MaxFiles > 0
  PROVE  Cardinality(DOMAIN seg) <= MaxFiles + Cardinality(Writer) - 1 + crashes
<1>0. crashes \in Nat /\ Cardinality(Writer) \in Nat /\ MaxFiles \in Nat
  BY SpoolAssumption, FS_CardinalityType DEF SpoolInv, TypeOK, OutcomeTypeOK
<1>1. PICK B \in SUBSET Nat, P \in SUBSET Writer, older \in [Writer -> SUBSET Writer] : Race(B, P, older)
  BY DEF CapInv, RaceInv
<1> DEFINE D == DOMAIN seg \ B
           f == [s \in D |-> seg[s]]
<1>2. /\ IsFiniteSet(Beyond(B)) /\ Cardinality(Beyond(B)) \in Nat
      /\ IsFiniteSet(P) /\ Cardinality(P) \in Nat
  BY BeyondIsFinite, SubsetBound DEF CapInv
<1>3. f \in Injection(D, Beyond(B))
  <2>1. f \in [D -> Beyond(B)]
    BY DEF Beyond
  <2>2. \A s, t \in D : f[s] = f[t] => s = t
    BY DEF CapInv, OneSegmentPerEvent
  <2> HIDE DEF f, D
  <2> QED BY <2>1, <2>2 DEF Injection, IsInjective
<1>4. IsFiniteSet(D) /\ Cardinality(D) <= Cardinality(Beyond(B))
  <2> HIDE DEF f, D
  <2> QED BY <1>2, <1>3, FS_Injection
<1>5. DOMAIN seg \subseteq B \cup D
  OBVIOUS
<1> HIDE DEF D
<1>6. /\ IsFiniteSet(B \cup D) /\ Cardinality(B) \in Nat /\ Cardinality(D) \in Nat
      /\ Cardinality(B \cup D) <= Cardinality(B) + Cardinality(D) /\ Cardinality(B \cup D) \in Nat
  BY <1>1, <1>4, UnionBound DEF Race
<1>7. Cardinality(DOMAIN seg) <= Cardinality(B \cup D) /\ Cardinality(DOMAIN seg) \in Nat
  BY <1>5, <1>6, SubsetBound
<1> QED BY <1>0, <1>1, <1>2, <1>4, <1>6, <1>7 DEF Race, Room

\* Making room leaves at most MaxFiles - 1 of the segments listed.
LEMMA RoomIsMade ==
  ASSUME SpoolInv, NEW w \in Writer, MaxFiles > 0, ~ Full(w)
  PROVE  IsFiniteSet(wseen[w] \ Evicted(w)) /\ Cardinality(wseen[w] \ Evicted(w)) <= MaxFiles - 1
<1> DEFINE n == Cardinality(wseen[w])
<1>0. MaxFiles \in Nat /\ ckpt \in Int
  BY SpoolAssumption DEF SpoolInv, TypeOK, DiskTypeOK, NeverAcked
<1>1. IsFiniteSet(wseen[w]) /\ wseen[w] \subseteq Nat /\ n \in Nat
  BY ListingIsFinite, FS_CardinalityType
<1>2. /\ Evictable(w) \subseteq wseen[w] /\ IsFiniteSet(Evictable(w)) /\ Cardinality(Evictable(w)) \in Nat
      /\ Evictable(w) \in SUBSET Int
  BY <1>1, SubsetBound DEF Evictable
<1>3. Evicted(w) = {s \in Evictable(w) : Cardinality({r \in Evictable(w) : r < s}) < Excess(w)}
  BY <1>0 DEF Evicted
<1>4. Excess(w) \in Int /\ Excess(w) = n - MaxFiles + 1 /\ Excess(w) <= Cardinality(Evictable(w))
  BY <1>0, <1>1, <1>2 DEF Excess, Full
<1>5. /\ IsFiniteSet(wseen[w] \ Evicted(w)) /\ Cardinality(wseen[w] \ Evicted(w)) \in Nat
      /\ Cardinality(wseen[w] \ Evicted(w)) <= n
  BY <1>1, SubsetBound
<1>6. CASE Excess(w) <= 0
  BY <1>0, <1>1, <1>4, <1>5, <1>6
<1>7. CASE Excess(w) > 0
  <2>1. Excess(w) \in Nat
    BY <1>4, <1>7
  <2>2. Cardinality(Evicted(w)) \in Nat /\ Excess(w) <= Cardinality(Evicted(w))
    BY <1>2, <1>3, <1>4, <2>1, LeastOnes
  <2>3. wseen[w] \cap Evicted(w) = Evicted(w)
    BY <1>2, <1>3
  <2>4. Cardinality(wseen[w] \ Evicted(w)) = n - Cardinality(Evicted(w))
    BY <1>1, <2>3, FS_Difference
  <2> HIDE DEF n
  <2> QED BY <1>0, <1>1, <1>4, <1>5, <2>2, <2>4
<1> QED BY <1>4, <1>6, <1>7

\* A step that only ends writes, removes files, and commits what was staged.
LEMMA RaceShrinks ==
  ASSUME IsFiniteSet(Writer), SpoolInv, OrphansOfCrashes, RaceInv,
         DOMAIN tmp' \subseteq DOMAIN tmp, crashes' \in {crashes, crashes + 1},
         \A s \in DOMAIN seg' : (s \in DOMAIN seg /\ seg'[s] = seg[s]) \/ seg'[s] \in DOMAIN tmp,
         \A w \in Writer : wpc'[w] = "scanned" => wpc[w] = "scanned" /\ wseen'[w] = wseen[w]
  PROVE  RaceInv'
<1>0. crashes \in Nat /\ Cardinality(Writer) \in Nat /\ Room' \in Nat /\ Room \in Nat /\ Room <= Room'
  BY FS_CardinalityType DEF SpoolInv, TypeOK, OutcomeTypeOK, Room
<1>1. PICK B \in SUBSET Nat, P \in SUBSET Writer, older \in [Writer -> SUBSET Writer] : Race(B, P, older)
  BY DEF RaceInv
<1>2. PICK Q : Q = Scanned'
  OBVIOUS
<1>3. PICK P1 : P1 = P \cap Q
  OBVIOUS
<1>4. PICK o1 : o1 = [w \in Writer |-> older[w] \cap Q]
  OBVIOUS
<1>5. Q \subseteq Scanned /\ \A w \in Q : wseen'[w] = wseen[w]
  BY <1>2 DEF Scanned
<1>6. P1 \in SUBSET Writer /\ o1 \in [Writer -> SUBSET Writer] /\ \A w \in Writer : o1[w] = older[w] \cap Q
  BY <1>3, <1>4
<1>7. ASSUME NEW X
      PROVE  /\ Cardinality(Beyond(X)) \in Nat /\ Cardinality(Beyond(X)') \in Nat
             /\ Cardinality(Beyond(X)') <= Cardinality(Beyond(X))
  <2>1. Beyond(X)' \subseteq Beyond(X)
    BY DEF Beyond
  <2> QED BY <2>1, BeyondIsFinite, SubsetBound
<1>8. ASSUME NEW S \in SUBSET Writer
      PROVE  /\ Cardinality(S) \in Nat /\ Cardinality(S \cap Q) \in Nat
             /\ Cardinality(S \cap Q) <= Cardinality(S)
  <2>1. IsFiniteSet(S)
    BY SubsetBound
  <2> QED BY <2>1, SubsetBound
<1>9. P1 \subseteq Q /\ Cardinality(Beyond(B)') + Cardinality(P1) <= Room'
  BY <1>0, <1>1, <1>3, <1>7, <1>8 DEF Race
<1>10. \A w \in Q \ P1 : w \in Scanned \ P
  BY <1>3, <1>5
<1>11. ASSUME NEW w \in Q \ P1 PROVE ListedInTime(w, P1, o1)'
  <2>1. ListedInTime(w, P, older) /\ w \in Writer
    BY <1>1, <1>10 DEF Race, Scanned
  <2>2. o1[w] \subseteq Q \ {w} /\ P1 \subseteq o1[w]
    BY <1>3, <1>6, <2>1 DEF ListedInTime
  <2>3. Cardinality(o1[w]) \in Nat /\ Cardinality(o1[w]) <= Cardinality(older[w]) /\ Cardinality(older[w]) \in Nat
    BY <1>6, <1>8, <2>1
  <2>4. /\ Cardinality(Beyond(wseen[w])) \in Nat /\ Cardinality(Beyond(wseen[w])') \in Nat
        /\ Cardinality(Beyond(wseen[w])') <= Cardinality(Beyond(wseen[w]))
    <3>1. PICK X : X = wseen[w]
      OBVIOUS
    <3>2. wseen'[w] = X
      BY <1>5, <3>1
    <3>3. Beyond(wseen[w])' = Beyond(X)'
      BY <3>2 DEF Beyond
    <3> QED BY <1>7, <3>1, <3>3
  <2>5. Cardinality(Beyond(wseen[w])') + Cardinality(o1[w]) + 1 <= Room'
    BY <1>0, <2>1, <2>3, <2>4 DEF ListedInTime
  <2> QED BY <1>2, <2>2, <2>5 DEF ListedInTime
<1>12. ASSUME NEW v \in Q \ P1, NEW w \in Q \ P1, v # w PROVE v \in o1[w] \/ w \in o1[v]
  <2>1. v \in Writer /\ w \in Writer /\ (v \in older[w] \/ w \in older[v])
    BY <1>1, <1>10, <1>12 DEF Race, Scanned
  <2> QED BY <1>6, <2>1
<1>13. ASSUME NEW w \in Q \ P1, NEW v \in o1[w] \ P1 PROVE o1[v] \subseteq o1[w]
  <2>1. w \in Writer /\ v \in older[w] \ P /\ v \in Writer
    BY <1>3, <1>6, <1>10, <1>13 DEF Scanned
  <2>2. older[v] \subseteq older[w]
    BY <1>1, <1>10, <2>1 DEF Race
  <2> QED BY <1>6, <2>1, <2>2
<1>14. Race(B, P1, o1)'
  BY <1>1, <1>2, <1>9, <1>11, <1>12, <1>13 DEF Race
<1> QED BY <1>6, <1>14 DEF RaceInv

\* A writer that lists the directory sees every segment: beyond its listing are staging files.
LEMMA RaceAfterScan ==
  ASSUME IsFiniteSet(Writer), SpoolInv, OrphansOfCrashes, RaceInv,
         NEW w \in Writer, NEW e \in Event, Scan(w, e)
  PROVE  RaceInv'
<1>0. /\ crashes \in Nat /\ Cardinality(Writer) \in Nat
      /\ wpc \in [Writer -> {"idle", "scanned", "staged", "linked"}]
      /\ wseen \in [Writer -> SUBSET Nat]
  BY FS_CardinalityType DEF SpoolInv, TypeOK, OutcomeTypeOK, WriterTypeOK
<1>1. PICK B \in SUBSET Nat, P \in SUBSET Writer, older \in [Writer -> SUBSET Writer] : Race(B, P, older)
  BY DEF RaceInv
<1>2. /\ wpc[w] = "idle" /\ wpc' = [wpc EXCEPT ![w] = "scanned"]
      /\ wseen' = [wseen EXCEPT ![w] = DOMAIN seg] /\ UNCHANGED <<seg, tmp, crashes>>
  BY DEF Scan, diskVars, histVars
<1>3. PICK S : S = Scanned
  OBVIOUS
<1>4. Scanned' = S \cup {w} /\ w \notin S /\ w \notin Owners /\ S \cap Owners = {} /\ S \subseteq Writer
  BY <1>0, <1>2, <1>3 DEF Scanned, Owners
<1>5. PICK o1 : o1 = [older EXCEPT ![w] = S]
  OBVIOUS
<1>6. o1 \in [Writer -> SUBSET Writer] /\ o1[w] = S /\ \A u \in Writer \ {w} : o1[u] = older[u]
  BY <1>4, <1>5
<1>7. \A X : Beyond(X)' = Beyond(X)
  BY <1>2 DEF Beyond
<1>8. Room' = Room
  BY <1>2 DEF Room
<1>9. Cardinality(DOMAIN tmp) + Cardinality(S) + 1 <= Room
  <2>1. IsFiniteSet(S) /\ Cardinality(S) \in Nat
    BY <1>4, SubsetBound
  <2>2. IsFiniteSet(S \cup {w}) /\ Cardinality(S \cup {w}) = Cardinality(S) + 1
    BY <1>4, <2>1, OneMore
  <2>3. /\ IsFiniteSet(Owners) /\ Cardinality(Owners) \in Nat /\ Cardinality(DOMAIN tmp) \in Nat
        /\ Cardinality(DOMAIN tmp) <= crashes + Cardinality(Owners)
    BY StagingIsBounded
  <2>4. (S \cup {w}) \cap Owners = {}
    BY <1>4
  <2>5. Cardinality((S \cup {w}) \cup Owners) = Cardinality(S \cup {w}) + Cardinality(Owners) - Cardinality({})
    BY <2>2, <2>3, <2>4, FS_Union
  <2>6. Cardinality({}) = 0
    BY FS_EmptySet
  <2>7. (S \cup {w}) \cup Owners \subseteq Writer
    BY <1>4 DEF Owners
  <2>8. Cardinality((S \cup {w}) \cup Owners) <= Cardinality(Writer)
    BY <2>7, SubsetBound
  <2> QED BY <1>0, <2>1, <2>2, <2>3, <2>5, <2>6, <2>8 DEF Room
<1>10. P \subseteq S \cup {w} /\ P \subseteq S
  BY <1>1, <1>3 DEF Race
<1>11. ASSUME NEW u \in (S \cup {w}) \ P PROVE ListedInTime(u, P, o1)'
  <2>1. CASE u = w
    <3>1. wseen'[w] = DOMAIN seg
      BY <1>0, <1>2
    <3>2. Beyond(wseen[w])' = DOMAIN tmp
      BY <1>2, <3>1 DEF Beyond
    <3> QED BY <1>4, <1>6, <1>8, <1>9, <1>10, <2>1, <3>2 DEF ListedInTime
  <2>2. CASE u # w
    <3>1. ListedInTime(u, P, older) /\ u \in Writer
      BY <1>1, <1>3, <1>4, <2>2 DEF Race
    <3>2. wseen'[u] = wseen[u]
      BY <1>0, <1>2, <2>2, <3>1
    <3>3. Beyond(wseen[u])' = Beyond(wseen[u])
      BY <1>2, <3>2 DEF Beyond
    <3>4. o1[u] = older[u]
      BY <1>6, <2>2, <3>1
    <3> QED BY <1>3, <1>4, <1>8, <3>1, <3>3, <3>4 DEF ListedInTime
  <2> QED BY <2>1, <2>2
<1>12. \A u \in S \ P : older[u] \subseteq S \ {u}
  BY <1>1, <1>3 DEF Race, ListedInTime
<1>13. ASSUME NEW u \in (S \cup {w}) \ P, NEW v \in (S \cup {w}) \ P, v # u
       PROVE  v \in o1[u] \/ u \in o1[v]
  <2>1. CASE u = w \/ v = w
    BY <1>6, <1>13, <2>1
  <2>2. CASE u # w /\ v # w
    BY <1>1, <1>3, <1>4, <1>6, <1>13, <2>2 DEF Race
  <2> QED BY <2>1, <2>2
<1>14. ASSUME NEW u \in (S \cup {w}) \ P, NEW v \in o1[u] \ P PROVE o1[v] \subseteq o1[u]
  <2>1. CASE u = w
    <3>1. v \in S \ P /\ v # w
      BY <1>4, <1>6, <1>14, <2>1
    <3> QED BY <1>4, <1>6, <1>12, <2>1, <3>1
  <2>2. CASE u # w
    <3>1. u \in S \ P /\ o1[u] = older[u]
      BY <1>4, <1>6, <2>2
    <3>2. v \in older[u] \ P /\ v # w /\ v \in Writer
      BY <1>4, <1>12, <1>14, <3>1
    <3>3. older[v] \subseteq older[u]
      BY <1>1, <1>3, <3>1, <3>2 DEF Race
    <3> QED BY <1>6, <3>1, <3>2, <3>3
  <2> QED BY <2>1, <2>2
<1>15. Race(B, P, o1)'
  BY <1>1, <1>4, <1>7, <1>8, <1>10, <1>11, <1>13, <1>14 DEF Race
<1> QED BY <1>6, <1>15 DEF RaceInv

\* One file more beyond a set, at most.
LEMMA OneMoreBeyond ==
  ASSUME IsFiniteSet(Writer), SpoolInv, OrphansOfCrashes, NEW e, NEW X, NEW Y,
         DOMAIN tmp' \subseteq DOMAIN tmp \cup {e},
         \A s \in DOMAIN seg' : s \in DOMAIN seg /\ seg'[s] = seg[s] /\ (s \in X => s \in Y)
  PROVE  /\ Cardinality(Beyond(X)) \in Nat /\ Cardinality(Beyond(Y)') \in Nat
         /\ Cardinality(Beyond(Y)') <= Cardinality(Beyond(X)) + 1
<1>1. Beyond(Y)' \subseteq Beyond(X) \cup {e}
  BY DEF Beyond
<1>2. IsFiniteSet(Beyond(X)) /\ Cardinality(Beyond(X)) \in Nat
  BY BeyondIsFinite
<1>3. /\ IsFiniteSet(Beyond(X) \cup {e}) /\ Cardinality(Beyond(X) \cup {e}) \in Nat
      /\ Cardinality(Beyond(X) \cup {e}) <= Cardinality(Beyond(X)) + 1
  BY <1>2, OneMore
<1>4. Cardinality(Beyond(Y)') \in Nat /\ Cardinality(Beyond(Y)') <= Cardinality(Beyond(X) \cup {e})
  BY <1>1, <1>3, SubsetBound
<1> QED BY <1>2, <1>3, <1>4

\* A writer w stages its file. The sets become B1 and P1; whoever must still make room
\* listed the directory when w already had.
LEMMA StageStep ==
  ASSUME IsFiniteSet(Writer), SpoolInv, OrphansOfCrashes, NEW w \in Writer, Stage(w),
         NEW B \in SUBSET Nat, NEW P \in SUBSET Writer, NEW older \in [Writer -> SUBSET Writer],
         Race(B, P, older),
         NEW B1 \in SUBSET Nat, NEW P1 \in SUBSET Writer,
         IsFiniteSet(B1), Cardinality(B1) <= MaxFiles - 1,
         P \ {w} \subseteq P1, P1 \subseteq Scanned \ {w},
         Cardinality(Beyond(B1)') + Cardinality(P1) <= Room,
         \A u \in (Scanned \ {w}) \ P1 : u \notin P /\ w \in older[u] /\ P1 \subseteq older[u]
  PROVE  RaceInv'
<1>0. /\ Cardinality(Writer) \in Nat /\ Room \in Nat
      /\ wpc \in [Writer -> {"idle", "scanned", "staged", "linked"}]
      /\ wseen \in [Writer -> SUBSET Nat]
  BY FS_CardinalityType DEF SpoolInv, TypeOK, OutcomeTypeOK, WriterTypeOK, Room
<1>1. /\ wpc[w] = "scanned" /\ wpc' = [wpc EXCEPT ![w] = "staged"]
      /\ wseen' = [wseen EXCEPT ![w] = {}] /\ seg' = Without(seg, Evicted(w)) /\ crashes' = crashes
      /\ \E x : tmp' = With(tmp, wev[w], x)
  BY DEF Stage, histVars
<1>2. PICK S : S = Scanned
  OBVIOUS
<1>3. Scanned' = S \ {w} /\ w \in S /\ S \subseteq Writer /\ Room' = Room
  BY <1>0, <1>1, <1>2 DEF Scanned, Room
<1>4. PICK o1 : o1 = [u \in Writer |-> older[u] \ {w}]
  OBVIOUS
<1>5. o1 \in [Writer -> SUBSET Writer] /\ \A u \in Writer : o1[u] = older[u] \ {w}
  BY <1>4
<1>6. /\ DOMAIN tmp' \subseteq DOMAIN tmp \cup {wev[w]}
      /\ \A s \in DOMAIN seg' : s \in DOMAIN seg /\ seg'[s] = seg[s]
  BY <1>1 DEF With, Without, Restrict
<1>7. \A u \in (S \ {w}) \ P1 : u \in S \ P /\ u # w /\ u \in Writer
  BY <1>2, <1>3
<1>8. ASSUME NEW u \in (S \ {w}) \ P1 PROVE ListedInTime(u, P1, o1)'
  <2>1. ListedInTime(u, P, older) /\ w \in older[u] /\ P1 \subseteq older[u]
    BY <1>2, <1>7, <1>8 DEF Race
  <2>2. o1[u] \subseteq (S \ {w}) \ {u} /\ P1 \subseteq o1[u]
    BY <1>2, <1>5, <1>7, <1>8, <2>1 DEF ListedInTime
  <2>3. /\ Cardinality(o1[u]) \in Nat /\ Cardinality(older[u]) \in Nat
        /\ Cardinality(o1[u]) = Cardinality(older[u]) - 1
    <3>1. IsFiniteSet(older[u])
      BY <1>7, <1>8, SubsetBound
    <3> QED BY <1>5, <1>7, <1>8, <2>1, <3>1, OneLess
  <2>4. PICK X : X = wseen[u]
    OBVIOUS
  <2>5. wseen'[u] = X
    BY <1>0, <1>1, <1>7, <1>8, <2>4
  <2>6. Beyond(wseen[u])' = Beyond(X)'
    BY <2>5 DEF Beyond
  <2>7. /\ Cardinality(Beyond(X)) \in Nat /\ Cardinality(Beyond(X)') \in Nat
        /\ Cardinality(Beyond(X)') <= Cardinality(Beyond(X)) + 1
    BY <1>6, OneMoreBeyond
  <2>8. Cardinality(Beyond(X)) + Cardinality(older[u]) + 1 <= Room
    BY <2>1, <2>4 DEF ListedInTime
  <2>9. Cardinality(Beyond(X)') + Cardinality(o1[u]) + 1 <= Room
    BY <1>0, <2>3, <2>7, <2>8
  <2> QED BY <1>3, <2>2, <2>6, <2>9 DEF ListedInTime
<1>9. ASSUME NEW u \in (S \ {w}) \ P1, NEW v \in (S \ {w}) \ P1, v # u
      PROVE  v \in o1[u] \/ u \in o1[v]
  BY <1>2, <1>5, <1>7, <1>9 DEF Race
<1>10. ASSUME NEW u \in (S \ {w}) \ P1, NEW v \in o1[u] \ P1 PROVE o1[v] \subseteq o1[u]
  <2>1. v \in older[u] \ P /\ v \in Writer
    BY <1>5, <1>7, <1>10
  <2>2. older[v] \subseteq older[u]
    BY <1>2, <1>7, <1>10, <2>1 DEF Race
  <2> QED BY <1>5, <1>7, <1>10, <2>1, <2>2
<1>11. Race(B1, P1, o1)'
  BY <1>2, <1>3, <1>8, <1>9, <1>10 DEF Race
<1> QED BY <1>5, <1>11 DEF RaceInv

\* A writer that listed before the last to make room adds its file beyond B and leaves P;
\* another one makes room by its own listing.
LEMMA RaceAfterStage ==
  ASSUME IsFiniteSet(Writer), SpoolInv, OrphansOfCrashes, RaceInv, MaxFiles > 0,
         NEW w \in Writer, Stage(w)
  PROVE  RaceInv'
<1>0. Cardinality(Writer) \in Nat /\ Room \in Nat
  BY FS_CardinalityType DEF SpoolInv, TypeOK, OutcomeTypeOK, Room
<1>1. PICK B \in SUBSET Nat, P \in SUBSET Writer, older \in [Writer -> SUBSET Writer] : Race(B, P, older)
  BY DEF RaceInv
<1>2. /\ w \in Scanned /\ ~ Full(w) /\ seg' = Without(seg, Evicted(w))
      /\ \E x : tmp' = With(tmp, wev[w], x)
  BY DEF Stage, Scanned
<1>3. /\ DOMAIN tmp' \subseteq DOMAIN tmp \cup {wev[w]}
      /\ \A s \in DOMAIN seg' : s \in DOMAIN seg \ Evicted(w) /\ seg'[s] = seg[s]
  BY <1>2 DEF With, Without, Restrict
<1>4. IsFiniteSet(P) /\ Cardinality(P) \in Nat
  BY SubsetBound
<1>5. CASE w \in P
  <2>1. PICK P1 : P1 = P \ {w}
    OBVIOUS
  <2>2. Cardinality(P1) \in Nat /\ Cardinality(P1) = Cardinality(P) - 1
    BY <1>4, <1>5, <2>1, OneLess
  <2>3. /\ Cardinality(Beyond(B)) \in Nat /\ Cardinality(Beyond(B)') \in Nat
        /\ Cardinality(Beyond(B)') <= Cardinality(Beyond(B)) + 1
    BY <1>3, OneMoreBeyond
  <2>4. Cardinality(Beyond(B)') + Cardinality(P1) <= Room
    BY <1>0, <1>1, <1>4, <2>2, <2>3 DEF Race
  <2>5. P1 \in SUBSET Writer /\ P \ {w} \subseteq P1 /\ P1 \subseteq Scanned \ {w}
    BY <1>1, <2>1 DEF Race
  <2>6. \A u \in (Scanned \ {w}) \ P1 : u \notin P /\ w \in older[u] /\ P1 \subseteq older[u]
    BY <1>1, <1>5, <2>1 DEF Race, ListedInTime
  <2>7. IsFiniteSet(B) /\ Cardinality(B) <= MaxFiles - 1
    BY <1>1 DEF Race
  <2> QED BY <1>1, <2>4, <2>5, <2>6, <2>7, StageStep
<1>6. CASE w \notin P
  <2>1. PICK B1 : B1 = wseen[w] \ Evicted(w)
    OBVIOUS
  <2>2. PICK P1 : P1 = older[w]
    OBVIOUS
  <2>3. ListedInTime(w, P, older)
    BY <1>1, <1>2, <1>6 DEF Race
  <2>4. IsFiniteSet(B1) /\ Cardinality(B1) <= MaxFiles - 1 /\ B1 \in SUBSET Nat
    BY <1>2, <2>1, RoomIsMade, ListingIsFinite
  <2>5. P1 \in SUBSET Writer /\ P \ {w} \subseteq P1 /\ P1 \subseteq Scanned \ {w} /\ P \subseteq P1
    BY <2>2, <2>3 DEF ListedInTime
  <2>6. /\ Cardinality(Beyond(wseen[w])) \in Nat /\ Cardinality(Beyond(B1)') \in Nat
        /\ Cardinality(Beyond(B1)') <= Cardinality(Beyond(wseen[w])) + 1
    <3>1. PICK X : X = wseen[w]
      OBVIOUS
    <3>2. \A s \in DOMAIN seg' : s \in DOMAIN seg /\ seg'[s] = seg[s] /\ (s \in X => s \in B1)
      BY <1>3, <2>1, <3>1
    <3> QED BY <1>3, <3>1, <3>2, OneMoreBeyond
  <2>7. IsFiniteSet(P1) /\ Cardinality(P1) \in Nat
    BY <2>5, SubsetBound
  <2>8. Cardinality(Beyond(B1)') + Cardinality(P1) <= Room
    BY <1>0, <2>2, <2>3, <2>6, <2>7 DEF ListedInTime
  <2>9. ASSUME NEW u \in (Scanned \ {w}) \ P1
        PROVE  u \notin P /\ w \in older[u] /\ P1 \subseteq older[u]
    <3>1. u \notin P /\ u # w /\ u \notin older[w]
      BY <2>2, <2>5
    <3>2. w \in older[u]
      BY <1>1, <1>2, <1>6, <3>1 DEF Race
    <3>3. older[w] \subseteq older[u]
      BY <1>1, <1>6, <3>1, <3>2 DEF Race
    <3> QED BY <2>2, <3>1, <3>2, <3>3
  <2> QED BY <1>1, <2>4, <2>5, <2>8, <2>9, StageStep
<1> QED BY <1>5, <1>6

\* Every step keeps the race.
LEMMA RaceStep ==
  ASSUME IsFiniteSet(Writer), SpoolInv, CapInv, MaxFiles > 0, [Next]_vars
  PROVE  RaceInv'
<1>0. /\ OrphansOfCrashes /\ RaceInv
      /\ wpc \in [Writer -> {"idle", "scanned", "staged", "linked"}]
      /\ wseen \in [Writer -> SUBSET Nat]
  BY DEF CapInv, SpoolInv, TypeOK, WriterTypeOK
<1>g. /\ \A R : \A s \in DOMAIN Without(seg, R) : s \in DOMAIN seg /\ Without(seg, R)[s] = seg[s]
      /\ \A R : DOMAIN Without(tmp, R) = DOMAIN tmp \ R
  BY DEF Without, Restrict
<1>c. \A n, e : e \in DOMAIN tmp /\ seg' = With(seg, n, e) =>
        \A s \in DOMAIN seg' : (s \in DOMAIN seg /\ seg'[s] = seg[s]) \/ seg'[s] \in DOMAIN tmp
  BY DEF With
<1>1. ASSUME NEW w \in Writer, NEW e \in Event, Scan(w, e) PROVE RaceInv'
  BY <1>0, <1>1, RaceAfterScan
<1>2. ASSUME NEW w \in Writer, Stage(w) PROVE RaceInv'
  BY <1>0, <1>2, RaceAfterStage
<1>3. ASSUME NEW w \in Writer, RefuseFull(w) \/ FailBeforeLink(w) \/ Return(w) \/ CrashWriter(w)
      PROVE  RaceInv'
  <2>0. /\ (tmp' = tmp \/ \E R : tmp' = Without(tmp, R)) /\ crashes' \in {crashes, crashes + 1}
        /\ (seg' = seg \/ \E R : seg' = Without(seg, R))
    BY <1>3 DEF RefuseFull, FailBeforeLink, Return, CrashWriter, diskVars, histVars
  <2>1. /\ DOMAIN tmp' \subseteq DOMAIN tmp
        /\ \A s \in DOMAIN seg' : s \in DOMAIN seg /\ seg'[s] = seg[s]
    BY <1>g, <2>0
  <2>2. \A v \in Writer : wpc'[v] = "scanned" => wpc[v] = "scanned" /\ wseen'[v] = wseen[v]
    BY <1>0, <1>3 DEF RefuseFull, FailBeforeLink, Return, CrashWriter, EndWrite
  <2> QED BY <1>0, <2>0, <2>1, <2>2, RaceShrinks
<1>4. ASSUME NEW w \in Writer, Link(w) \/ Collide(w) PROVE RaceInv'
  <2>1. DOMAIN tmp' \subseteq DOMAIN tmp /\ crashes' = crashes
    BY <1>4 DEF Link, Collide, histVars
  <2>2. \A v \in Writer : wpc'[v] = "scanned" => wpc[v] = "scanned" /\ wseen'[v] = wseen[v]
    BY <1>0, <1>4 DEF Link, Collide, writerVars
  <2>3. \A s \in DOMAIN seg' : (s \in DOMAIN seg /\ seg'[s] = seg[s]) \/ seg'[s] \in DOMAIN tmp
    BY <1>4, <1>c DEF Link, Record, Collide
  <2> QED BY <1>0, <2>1, <2>2, <2>3, RaceShrinks
<1>5. ASSUME NEW e \in Event, Promote(e) \/ Discard(e) PROVE RaceInv'
  <2>1. DOMAIN tmp' \subseteq DOMAIN tmp /\ UNCHANGED <<wpc, wseen, crashes>>
    BY <1>5, <1>g DEF Promote, Discard, writerVars, histVars
  <2>2. \A s \in DOMAIN seg' : (s \in DOMAIN seg /\ seg'[s] = seg[s]) \/ seg'[s] \in DOMAIN tmp
    BY <1>5, <1>c DEF Promote, Promotable, Record, Discard
  <2> QED BY <1>0, <2>1, <2>2, RaceShrinks
<1>6. CASE Open \/ Recovered \/ DrainStep \/ CrashForwarder \/ PublishUnacknowledged \/ UNCHANGED vars
  <2>1. UNCHANGED <<tmp, wpc, wseen, crashes>> /\ (seg' = seg \/ \E R : seg' = Without(seg, R))
    BY <1>6
    DEF Open, Recovered, DrainStep, Read, Publish, Advance, Reclaim, Reclaimed, CrashForwarder,
        PublishUnacknowledged, vars, diskVars, writerVars, histVars
  <2>2. \A s \in DOMAIN seg' : s \in DOMAIN seg /\ seg'[s] = seg[s]
    BY <1>g, <2>1
  <2> QED BY <1>0, <2>1, <2>2, RaceShrinks
<1> QED BY <1>1, <1>2, <1>3, <1>4, <1>5, <1>6 DEF Next, WriterStep, ForwarderStep, RecoveryStep

\* In the beginning there is nothing.
LEMMA InitCap ==
  ASSUME IsFiniteSet(Writer), MaxFiles > 0, Init
  PROVE  CapInv
<1>1. OneSegmentPerEvent
  BY DEF Init, OneSegmentPerEvent, InSeg
<1>2. Orphans = {} /\ crashes = 0 /\ Scanned = {} /\ Beyond({}) = {}
  BY DEF Init, Orphans, Scanned, Beyond
<1>3. IsFiniteSet({}) /\ Cardinality({}) = 0
  BY FS_EmptySet
<1>4. OrphansOfCrashes
  BY <1>2, <1>3 DEF OrphansOfCrashes
<1>5. MaxFiles \in Nat /\ Cardinality(Writer) \in Nat
  BY SpoolAssumption, FS_CardinalityType
<1>6. Race({}, {}, [w \in Writer |-> {}])
  BY <1>2, <1>3, <1>5 DEF Race, Room
<1>7. [w \in Writer |-> {}] \in [Writer -> SUBSET Writer]
  OBVIOUS
<1>8. RaceInv
  BY <1>6, <1>7 DEF RaceInv
<1> QED BY <1>1, <1>4, <1>8 DEF CapInv

\* With finitely many writers the cap holds but for those that listed the directory before another
\* one committed, and for the staging files that dead writers left.
THEOREM CapHoldsButForRacers ==
  ASSUME IsFiniteSet(Writer)
  PROVE  Spec => []CapExceededByRacersOnly
<1>1. CASE MaxFiles = 0
  <2>1. CapExceededByRacersOnly
    BY <1>1 DEF CapExceededByRacersOnly
  <2> QED BY <2>1, PTL
<1>2. CASE MaxFiles > 0
  <2>1. Init => CapInv
    BY <1>2, InitCap
  <2>2. SpoolInv /\ CapInv /\ [Next]_vars => CapInv'
    BY <1>2, OneSegmentStep, OrphansStep, RaceStep DEF CapInv
  <2>3. SpoolInv /\ CapInv => CapExceededByRacersOnly
    BY <1>2, RaceBounds DEF CapExceededByRacersOnly
  <2> QED BY <2>1, <2>2, <2>3, SpoolInvariant, PTL DEF Spec
<1> QED BY <1>1, <1>2, SpoolAssumption

-----------------------------------------------------------------------------
(* The end of a drain.                                                      *)

\* A drain that finds nothing to read has nothing left to do: all that is in the log is published or reported.
\* (The safety half of LoggedIsPublished: the forwarder never comes to rest before the end.)
DrainedWhenIdle == fpc = "idle" /\ Rescanned = known /\ Unread = {} => Logged \subseteq Settled

\* So it is in every reachable state: when Drain finds the directory unchanged and its list read,
\* no committed event is left behind, for any writers, deaths and promotions.
THEOREM NothingIsLeftBehind == Spec => []DrainedWhenIdle
<1>1. ASSUME SpoolInv PROVE DrainedWhenIdle
  <2> SUFFICES ASSUME fpc = "idle", Rescanned = known, Unread = {}, NEW i \in 1 .. Len(log),
                      log[i] \notin Settled
               PROVE  FALSE
    BY DEF DrainedWhenIdle, Logged
  <2>0. /\ ckpt \in Int /\ rpos \in Int /\ known \subseteq Nat /\ DOMAIN seg \subseteq Nat
        /\ Len(log) \in Nat
    BY <1>1 DEF SpoolInv, TypeOK, DiskTypeOK, ReaderTypeOK, OutcomeTypeOK, NeverAcked
  <2>1. i - 1 \in Numbers /\ log[(i - 1) + 1] = log[i]
    BY <2>0 DEF Numbers
  <2>2. ckpt < i - 1 /\ i - 1 \in DOMAIN seg
    BY <1>1, <2>0, <2>1 DEF SpoolInv, DiskAgreesWithLog
  <2>3. batch = {} /\ rpos < i - 1
    BY <1>1, <2>0, <2>1, <2>2 DEF SpoolInv, ReadIsAccountedFor, Running
  <2>4. \A k \in known : k <= rpos
    BY <2>0 DEF Unread
  <2>5. i - 1 \in Fresh
    BY <2>0, <2>2, <2>3, <2>4 DEF Fresh
  <2>6. i - 1 \in known
    BY <2>5 DEF Rescanned
  <2> QED BY <2>0, <2>3, <2>4, <2>6
<1> QED BY <1>1, SpoolInvariant, PTL

=============================================================================
