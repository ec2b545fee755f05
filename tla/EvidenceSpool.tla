--------------------------- MODULE EvidenceSpool ---------------------------
(***************************************************************************)
(* The evidence spool: a directory of one-event segment files shared by    *)
(* many capture processes, which write it without any lock, and by one     *)
(* forwarder process, which publishes every segment to JetStream and then  *)
(* moves a checkpoint file.                                                *)
(*                                                                         *)
(*   writers    src/src/novafabric/collector_cffi/spool.py and its Go twin *)
(*              src/collector/pkg/cffi/exports.go (MaxFiles = 0)           *)
(*   forwarder  src/collector/internal/spool (reader side), hpc.Drain and  *)
(*              internal/forwarder                                         *)
(*                                                                         *)
(* Processes crash; the operating system does not: a file once linked      *)
(* stays until it is unlinked. JetStream is external: a publish either is  *)
(* stored and acknowledged, is stored and its acknowledgement lost, or is  *)
(* not stored.                                                             *)
(***************************************************************************)
EXTENDS Integers, Sequences, FiniteSets, Functions

CONSTANTS
  Writer,      \* capture processes
  Event,       \* envelopes; each is written once
  NoEvent,     \* no envelope: the writer is between two writes
  MaxFiles,    \* cap on committed segments a Python writer keeps; 0 = none
  Batch,       \* events a drain takes at most (--max-events)
  MaxCrashes,  \* bound: writer processes that die
  MaxDropped,  \* bound: events whose segment the forwarder cannot read
  MaxExits     \* bound: forwarder processes that die

ASSUME SpoolAssumption ==
  /\ NoEvent \notin Event
  /\ MaxFiles \in Nat
  /\ Batch \in Nat \ {0}
  /\ MaxCrashes \in Nat
  /\ MaxDropped \in Nat
  /\ MaxExits \in Nat

NeverAcked == -1   \* the checkpoint before any acknowledgement

VARIABLES
  seg,        \* <seq>.jsonl files: sequence number -> event
  tmp,        \* <name>.<pid>.jsonl.tmp files: event -> name and header sequence
  ckpt,       \* checkpoint.json: last acknowledged sequence
  wpc,        \* writer: idle, scanned, staged, linked
  wev,        \* writer: the event being written
  wseen,      \* writer: the committed sequences its directory scan returned
  wfloor,     \* writer: one above its last commit (self._seq, spoolSeq)
  fpc,        \* forwarder: down, recover, idle, publish, ack, reclaim
  known,      \* forwarder: readSegments, as the set of its sequences
  rpos,       \* forwarder: sequences up to here are behind readIdx
  todo,       \* forwarder: old staging files recovery has still to look at
  batch,      \* forwarder: sequences read and not yet published
  pend,       \* forwarder: pendingAckSeq
  published,  \* JetStream: events stored
  dropped,    \* events of segments the forwarder could not read and reported so
              \* (a warning, and nova_spool_dropped_segments_total)
  status,     \* outcome of each write as its caller knows it
  log,        \* history: events committed above the checkpoint, in order
  reused,     \* history: events committed at an acknowledged sequence
  overtaken,  \* history: events staged at a number that was acknowledged meanwhile
  dups,       \* history: publishes of an event JetStream had already
  exits,      \* history: forwarder processes that died
  crashes     \* history: writer processes that died

diskVars == <<seg, tmp, ckpt>>
writerVars == <<wpc, wev, wseen, wfloor>>
readerVars == <<fpc, known, rpos, todo, batch, pend>>
histVars == <<log, reused, overtaken, dups, exits, crashes>>
vars == <<diskVars, writerVars, readerVars, published, dropped, status, histVars>>

Logged == {log[i] : i \in 1 .. Len(log)}
Without(f, S) == Restrict(f, DOMAIN f \ S)
With(f, k, v) == [x \in DOMAIN f \cup {k} |-> IF x = k THEN v ELSE f[x]]

Init ==
  /\ seg = << >>
  /\ tmp = << >>
  /\ ckpt = NeverAcked
  /\ wpc = [w \in Writer |-> "idle"]
  /\ wev = [w \in Writer |-> NoEvent]
  /\ wseen = [w \in Writer |-> {}]
  /\ wfloor = [w \in Writer |-> 0]
  /\ fpc = "down"
  /\ known = {}
  /\ rpos = NeverAcked
  /\ todo = {}
  /\ batch = {}
  /\ pend = NeverAcked
  /\ published = {}
  /\ dropped = {}
  /\ status = [e \in Event |-> "new"]
  /\ log = << >>
  /\ reused = {}
  /\ overtaken = {}
  /\ dups = 0
  /\ exits = 0
  /\ crashes = 0

-----------------------------------------------------------------------------
(* Writers: _PurePythonSpool.write and writeSegment.                        *)

\* The event is now the segment of sequence s. History: it joins the log if s is
\* above the checkpoint, and is a reused number otherwise.
Record(e, s) ==
  /\ seg' = With(seg, s, e)
  /\ IF s > ckpt
     THEN log' = Append(log, e) /\ UNCHANGED reused
     ELSE reused' = reused \cup {e} /\ UNCHANGED log

\* The write ends: the staging file is unlinked and the caller learns the outcome.
EndWrite(w, outcome) ==
  /\ wpc' = [wpc EXCEPT ![w] = "idle"]
  /\ wev' = [wev EXCEPT ![w] = NoEvent]
  /\ status' = [status EXCEPT ![wev[w]] = outcome]

\* write() starts: list the committed segments.
Scan(w, e) ==
  /\ wpc[w] = "idle"
  /\ status[e] = "new"
  /\ wpc' = [wpc EXCEPT ![w] = "scanned"]
  /\ wev' = [wev EXCEPT ![w] = e]
  /\ wseen' = [wseen EXCEPT ![w] = DOMAIN seg]
  /\ status' = [status EXCEPT ![e] = "writing"]
  /\ UNCHANGED <<diskVars, wfloor, readerVars, published, dropped, histVars>>

\* Mutant: the cap without room for the segment about to be written.
ExcessOffByOne(w) == Cardinality(wseen[w]) - MaxFiles

\* _make_room: how many segments are over the cap once one more is added, which of
\* those listed the checkpoint acknowledges, and the oldest of them that go.
Excess(w) == Cardinality(wseen[w]) - MaxFiles + 1
Evictable(w) == {s \in wseen[w] : s <= ckpt}
Evicted(w) ==
  IF MaxFiles = 0 THEN {}
  ELSE {s \in Evictable(w) : Cardinality({r \in Evictable(w) : r < s}) < Excess(w)}
Full(w) == MaxFiles > 0 /\ Excess(w) > Cardinality(Evictable(w))

\* SpoolFullError, after evicting what could be evicted.
RefuseFull(w) ==
  /\ wpc[w] = "scanned"
  /\ Full(w)
  /\ seg' = Without(seg, Evicted(w))
  /\ wseen' = [wseen EXCEPT ![w] = {}]
  /\ EndWrite(w, "refused")
  /\ UNCHANGED <<tmp, ckpt, wfloor, readerVars, published, dropped, histVars>>

\* Mutant: a counter that forgets the checkpoint.
FloorsWithoutCheckpoint(w) == {0} \cup {s + 1 : s \in wseen[w]}

\* The first sequence to try: above this process's commits, the segments listed
\* and the checkpoint.
Floors(w) == {wfloor[w], ckpt + 1} \cup {s + 1 : s \in wseen[w]}
IsFloor(w, n) == n \in Floors(w) /\ \A m \in Floors(w) : m <= n

\* Make room, then write and fsync <seq>.<pid>.jsonl.tmp with WriteComplete = 1.
\* A staging file a crash leaves half written is discarded by recovery and read by
\* nobody, so it is not represented.
Stage(w) ==
  /\ wpc[w] = "scanned"
  /\ ~Full(w)
  /\ \E n \in Floors(w) :
       /\ IsFloor(w, n)
       /\ tmp' = With(tmp, wev[w], [name |-> n, hdr |-> n])
  /\ seg' = Without(seg, Evicted(w))
  /\ wpc' = [wpc EXCEPT ![w] = "staged"]
  /\ wseen' = [wseen EXCEPT ![w] = {}]
  /\ UNCHANGED <<ckpt, wev, wfloor, readerVars, published, dropped, status, histVars>>

\* Mutant: rename(2), which replaces the segment another process committed.
LinkByRename(w) ==
  /\ wpc[w] = "staged"
  /\ wev[w] \in DOMAIN tmp
  /\ Record(wev[w], tmp[wev[w]].hdr)
  /\ wpc' = [wpc EXCEPT ![w] = "linked"]
  /\ wfloor' = [wfloor EXCEPT ![w] = tmp[wev[w]].hdr + 1]
  /\ UNCHANGED <<tmp, ckpt, wev, wseen, readerVars, published, dropped, status, overtaken, dups, exits, crashes>>

\* link(2) succeeds: the sequence was free in the directory.
Link(w) ==
  /\ wpc[w] = "staged"
  /\ wev[w] \in DOMAIN tmp
  /\ tmp[wev[w]].hdr \notin DOMAIN seg
  /\ Record(wev[w], tmp[wev[w]].hdr)
  /\ wpc' = [wpc EXCEPT ![w] = "linked"]
  /\ wfloor' = [wfloor EXCEPT ![w] = tmp[wev[w]].hdr + 1]
  /\ UNCHANGED <<tmp, ckpt, wev, wseen, readerVars, published, dropped, status, overtaken, dups, exits, crashes>>

\* link(2) fails with EEXIST: the header takes the next sequence, the name stays.
Collide(w) ==
  /\ wpc[w] = "staged"
  /\ wev[w] \in DOMAIN tmp
  /\ tmp[wev[w]].hdr \in DOMAIN seg
  /\ tmp' = [tmp EXCEPT ![wev[w]].hdr = @ + 1]
  /\ UNCHANGED <<seg, ckpt, writerVars, readerVars, published, dropped, status, histVars>>

\* Mutant: the failure is swallowed and the caller told the event is safe.
FailBeforeLinkSilently(w) ==
  /\ wpc[w] = "staged"
  /\ tmp' = Without(tmp, {wev[w]})
  /\ EndWrite(w, "accepted")
  /\ UNCHANGED <<seg, ckpt, wseen, wfloor, readerVars, published, dropped, histVars>>

\* The write fails before its commit: an I/O error, no free sequence after the last
\* try, or recovery removed the staging file of a writer that stalled.
FailBeforeLink(w) ==
  /\ wpc[w] = "staged"
  /\ tmp' = Without(tmp, {wev[w]})
  /\ EndWrite(w, "refused")
  /\ UNCHANGED <<seg, ckpt, wseen, wfloor, readerVars, published, dropped, histVars>>

\* After the commit: the directory fsync succeeds and write() returns, or it fails
\* and write() raises although the segment is there.
Return(w) ==
  /\ wpc[w] = "linked"
  /\ tmp' = Without(tmp, {wev[w]})
  /\ \E outcome \in {"accepted", "refused"} : EndWrite(w, outcome)
  /\ UNCHANGED <<seg, ckpt, wseen, wfloor, readerVars, published, dropped, histVars>>

\* The writer process dies; its staging file stays, and a new process takes over
\* with no floor of its own.
CrashWriter(w) ==
  /\ crashes < MaxCrashes
  /\ wpc[w] # "idle"
  /\ crashes' = crashes + 1
  /\ wseen' = [wseen EXCEPT ![w] = {}]
  /\ wfloor' = [wfloor EXCEPT ![w] = 0]
  /\ EndWrite(w, "unknown")
  /\ UNCHANGED <<diskVars, readerVars, published, dropped, log, reused, overtaken, dups, exits>>

-----------------------------------------------------------------------------
(* The forwarder.                                                           *)

\* NewSpool: load the checkpoint and list the directory. Any staging file may be
\* older than tmpGrace: its writer crashed, or stalled for longer than that.
Open ==
  /\ fpc = "down"
  /\ fpc' = "recover"
  /\ known' = DOMAIN seg
  /\ rpos' = ckpt
  /\ \E old \in SUBSET DOMAIN tmp : todo' = old
  /\ UNCHANGED <<diskVars, writerVars, batch, pend, published, dropped, status, histVars>>

Promotable(e) ==
  /\ e \in DOMAIN tmp
  /\ tmp[e].hdr = tmp[e].name
  /\ tmp[e].name \notin DOMAIN seg

\* recoverSegments: a complete staging file becomes its segment.
Promote(e) ==
  /\ fpc = "recover"
  /\ e \in todo
  /\ Promotable(e)
  /\ Record(e, tmp[e].name)
  /\ tmp' = Without(tmp, {e})
  /\ known' = known \cup {tmp[e].name}
  /\ todo' = todo \ {e}
  /\ UNCHANGED <<ckpt, writerVars, fpc, rpos, batch, pend, published, dropped, status, overtaken, dups, exits, crashes>>

\* Any other is removed, unless its writer has removed it meanwhile.
Discard(e) ==
  /\ fpc = "recover"
  /\ e \in todo
  /\ ~Promotable(e)
  /\ tmp' = Without(tmp, {e})
  /\ todo' = todo \ {e}
  /\ UNCHANGED <<seg, ckpt, writerVars, fpc, known, rpos, batch, pend, published, dropped, status, histVars>>

Recovered ==
  /\ fpc = "recover"
  /\ todo = {}
  /\ fpc' = "idle"
  /\ UNCHANGED <<diskVars, writerVars, known, rpos, todo, batch, pend, published, dropped, status, histVars>>

\* Mutants: a rescan that skips one number; a reader that never rescans.
FreshOffByOne == {s \in DOMAIN seg : s > ckpt + 1 /\ \A k \in known : s > k}
RescannedNever == known

\* The segments not read yet; when there are none, those a rescan adds: above every
\* known one and above the checkpoint.
Unread == {s \in known : s > rpos}
Fresh == {s \in DOMAIN seg : s > ckpt /\ \A k \in known : s > k}
Rescanned == IF Unread = {} THEN known \cup Fresh ELSE known

\* Mutant: a segment that cannot be read is passed over without a report.
ReportNone(S) == {}

\* What is reported when the segments S cannot be read.
Report(S) == {seg[s] : s \in S}

\* ReadBatch: read segments in order until Batch events are taken or none is left. Any of
\* them may be impossible to open, to decode or to scan (a line over MaxEventBytes, which
\* the Python writer does not refuse): it is passed over and reported, and the
\* acknowledgement of a later one covers it. So is one that is no longer there.
Read ==
  /\ fpc = "idle"
  /\ \E hi \in Rescanned :
       LET ahead == {s \in Rescanned : s > rpos}
           there == {s \in ahead : s <= hi /\ s \in DOMAIN seg}
       IN \E taken \in SUBSET there :
            /\ hi \in ahead
            /\ \/ Cardinality(taken) = Batch /\ hi \in taken
               \/ Cardinality(taken) < Batch /\ \A s \in ahead : s <= hi
            /\ dropped' = dropped \cup Report(there \ taken)
            /\ Cardinality(dropped') <= MaxDropped
            /\ batch' = taken
            /\ rpos' = hi
            /\ IF taken = {}
               THEN UNCHANGED <<fpc, pend>>
               ELSE /\ fpc' = "publish"
                    /\ \E m \in taken : (\A s \in taken : s <= m) /\ pend' = m
  /\ known' = Rescanned
  /\ UNCHANGED <<diskVars, writerVars, todo, published, status, histVars>>

\* Mutant: a batch published in any order.
IsNextInAnyOrder(s) == s \in batch

IsNextToPublish(s) == s \in batch /\ \A r \in batch : s <= r

Store(e) ==
  /\ published' = published \cup {e}
  /\ dups' = IF e \in published THEN dups + 1 ELSE dups

\* JetStream stores the event and acknowledges it.
Publish ==
  /\ fpc = "publish"
  /\ \E s \in batch :
       /\ IsNextToPublish(s)
       /\ Store(seg[s])
       /\ batch' = batch \ {s}
  /\ fpc' = IF batch' = {} THEN "ack" ELSE "publish"
  /\ UNCHANGED <<diskVars, writerVars, known, rpos, todo, pend, dropped, status, log, reused, overtaken, exits, crashes>>

\* Mutant: the checkpoint advances in memory only.
AdvanceInMemory ==
  /\ fpc = "ack"
  /\ fpc' = "reclaim"
  /\ UNCHANGED <<diskVars, writerVars, known, rpos, todo, batch, pend, published, dropped, status, histVars>>

\* Commit, first half: the checkpoint file is replaced and the directory fsynced.
Advance ==
  /\ fpc = "ack"
  /\ ckpt' = pend
  /\ overtaken' = overtaken \cup {e \in DOMAIN tmp : ckpt < tmp[e].hdr /\ tmp[e].hdr <= pend}
  /\ fpc' = "reclaim"
  /\ UNCHANGED <<seg, tmp, writerVars, known, rpos, todo, batch, pend, published, dropped, status>>
  /\ UNCHANGED <<log, reused, dups, exits, crashes>>

Reclaimable == {s \in known : s <= rpos /\ s <= ckpt}

\* Commit, second half: unlink the acknowledged segments, one file at a time.
Reclaim ==
  /\ fpc = "reclaim"
  /\ \E s \in Reclaimable :
       /\ \A r \in Reclaimable : s <= r
       /\ seg' = Without(seg, {s})
       /\ known' = known \ {s}
  /\ UNCHANGED <<tmp, ckpt, writerVars, fpc, rpos, todo, batch, pend, published, dropped, status, histVars>>

Reclaimed ==
  /\ fpc = "reclaim"
  /\ Reclaimable = {}
  /\ fpc' = "idle"
  /\ UNCHANGED <<diskVars, writerVars, known, rpos, todo, batch, pend, published, dropped, status, histVars>>

\* What the process held in memory is gone.
Exit ==
  /\ exits < MaxExits
  /\ exits' = exits + 1
  /\ fpc' = "down"
  /\ known' = {}
  /\ rpos' = NeverAcked
  /\ todo' = {}
  /\ batch' = {}
  /\ pend' = NeverAcked

\* The process dies at any point, or exits because a publish failed.
CrashForwarder ==
  /\ fpc # "down"
  /\ Exit
  /\ UNCHANGED <<diskVars, writerVars, published, dropped, status, log, reused, overtaken, dups, crashes>>

\* The event was stored but its acknowledgement did not arrive: the error is fatal.
PublishUnacknowledged ==
  /\ fpc = "publish"
  /\ \E s \in batch : IsNextToPublish(s) /\ Store(seg[s])
  /\ Exit
  /\ UNCHANGED <<diskVars, writerVars, dropped, status, log, reused, overtaken, crashes>>

-----------------------------------------------------------------------------
WriterStep(w) ==
  \/ \E e \in Event : Scan(w, e)
  \/ RefuseFull(w)
  \/ Stage(w)
  \/ Link(w)
  \/ Collide(w)
  \/ FailBeforeLink(w)
  \/ Return(w)
  \/ CrashWriter(w)

RecoveryStep ==
  \/ Open
  \/ \E e \in Event : Promote(e) \/ Discard(e)
  \/ Recovered

DrainStep ==
  \/ Read
  \/ Publish
  \/ Advance
  \/ Reclaim
  \/ Reclaimed

ForwarderStep == RecoveryStep \/ DrainStep

Next ==
  \/ \E w \in Writer : WriterStep(w)
  \/ ForwarderStep
  \/ CrashForwarder
  \/ PublishUnacknowledged

Spec == Init /\ [][Next]_vars

\* The supervisor restarts the forwarder, which drains on a ticker; a publish
\* succeeds once it has stopped failing. Writers are the workload: no fairness.
FairSpec == Spec /\ WF_vars(ForwarderStep)

-----------------------------------------------------------------------------
(* Properties.                                                              *)

DiskTypeOK ==
  /\ DOMAIN seg \subseteq Nat /\ seg \in [DOMAIN seg -> Event]
  /\ DOMAIN tmp \subseteq Event /\ tmp \in [DOMAIN tmp -> [name : Nat, hdr : Nat]]
  /\ ckpt \in Nat \cup {NeverAcked}

WriterTypeOK ==
  /\ wpc \in [Writer -> {"idle", "scanned", "staged", "linked"}]
  /\ wev \in [Writer -> Event \cup {NoEvent}]
  /\ wseen \in [Writer -> SUBSET Nat]
  /\ wfloor \in [Writer -> Nat]

ReaderTypeOK ==
  /\ fpc \in {"down", "recover", "idle", "publish", "ack", "reclaim"}
  /\ known \subseteq Nat
  /\ rpos \in Nat \cup {NeverAcked}
  /\ todo \subseteq Event
  /\ batch \subseteq Nat
  /\ pend \in Nat \cup {NeverAcked}

OutcomeTypeOK ==
  /\ published \subseteq Event /\ dropped \subseteq Event
  /\ status \in [Event -> {"new", "writing", "accepted", "refused", "unknown"}]
  /\ log \in Seq(Event)
  /\ reused \subseteq Event /\ overtaken \subseteq Event
  /\ dups \in Nat /\ exits \in Nat /\ crashes \in Nat

TypeOK == DiskTypeOK /\ WriterTypeOK /\ ReaderTypeOK /\ OutcomeTypeOK

\* What the forwarder has delivered, or reported as unreadable.
Settled == published \cup dropped

\* An event committed above the checkpoint is never lost without a report, whatever the
\* writers and the forwarder do in between and wherever they die: JetStream has it, its
\* segment is still there at its own number, ahead of the checkpoint, or the forwarder
\* could not read that segment and said so (spool.go:272-281).
NoSilentLoss ==
  \A i \in 1 .. Len(log) :
    \/ log[i] \in Settled
    \/ i - 1 > ckpt /\ i - 1 \in DOMAIN seg /\ seg[i - 1] = log[i]

\* Why nothing is lost, as an inductive invariant. The log and the directory agree
\* above the checkpoint, without a gap, and below it everything is settled.
Numbers == 0 .. Len(log) - 1

DiskAgreesWithLog ==
  /\ ckpt < Len(log)
  /\ \A s \in DOMAIN seg : s < Len(log)
  /\ \A s \in Numbers : ckpt < s => s \in DOMAIN seg /\ seg[s] = log[s + 1]
  /\ \A i \in 1 .. Len(log) : i <= ckpt + 1 => log[i] \in Settled

\* No writer holds a number beyond the end of the log, so a free number above the
\* checkpoint is exactly the next one.
NumbersWithinLog ==
  /\ \A e \in DOMAIN tmp : tmp[e].name <= Len(log) /\ tmp[e].hdr <= Len(log)
  /\ \A w \in Writer : wfloor[w] <= Len(log)
  /\ \A w \in Writer : \A s \in wseen[w] : s < Len(log)

\* An event has one writer, and its staging file is created once.
OneWriterPerEvent ==
  /\ \A w \in Writer : wpc[w] # "idle" => wev[w] \in Event /\ status[wev[w]] # "new"
  /\ \A v, w \in Writer : v # w /\ wpc[v] # "idle" /\ wpc[w] # "idle" => wev[v] # wev[w]
  /\ \A w \in Writer : wpc[w] = "scanned" => wev[w] \notin DOMAIN tmp \cup todo
  /\ \A e \in DOMAIN tmp \cup todo : status[e] # "new"

\* What the forwarder knows has no gap above the checkpoint, even once it promotes
\* the staging files it has still to look at.
KnownWithoutGap ==
  /\ \A k \in known : k < Len(log)
  /\ \A k \in known : \A j \in Numbers : ckpt < j /\ j < k => j \in known
  /\ \A e \in todo \cap DOMAIN tmp :
       \A j \in Numbers : ckpt < j /\ j < tmp[e].name => j \in known

\* What lies behind the reader is settled, or in the batch being published.
Running == {"idle", "publish", "ack", "reclaim"}
ReadIsAccountedFor ==
  /\ fpc \in Running \cup {"recover"} => ckpt <= rpos /\ rpos < Len(log)
  /\ fpc = "recover" => rpos = ckpt
  /\ fpc \in Running =>
       \A j \in Numbers : ckpt < j /\ j <= rpos => log[j + 1] \in Settled \/ j \in batch
  /\ fpc # "publish" => batch = {}
  /\ \A s \in batch : ckpt < s /\ s <= rpos
  /\ fpc \in {"publish", "ack"} => ckpt < pend /\ pend <= rpos
  /\ todo # {} => fpc = "recover"

SpoolInv ==
  /\ TypeOK
  /\ DiskAgreesWithLog
  /\ NumbersWithinLog
  /\ OneWriterPerEvent
  /\ KnownWithoutGap
  /\ ReadIsAccountedFor

\* JetStream first sees events in the order of their commits, across restarts of
\* the forwarder: what is published is a prefix of the log, but for reported segments.
PublishedInOrder ==
  \A i, j \in 1 .. Len(log) : i < j /\ log[j] \in published => log[i] \in Settled

\* Each death of the forwarder repeats at most the batch it was draining.
RedeliveryBounded == dups <= Batch * exits

\* A commit never replaces a segment: link(2) where rename(2) would.
SegmentNeverReplaced ==
  [][\A s \in DOMAIN seg \cap DOMAIN seg' : seg'[s] = seg[s]]_vars

\* The cap holds but for the writers that counted before another one committed, and
\* for the staging files of dead writers that recovery promotes.
CapExceededByRacersOnly ==
  MaxFiles > 0 => Cardinality(DOMAIN seg) <= MaxFiles + Cardinality(Writer) - 1 + crashes

\* An event whose write returned success is published, was reported, or will be read:
\* its segment is ahead of the checkpoint. "A new writer never reuses an acknowledged number the
\* reader would skip" (spool.py).
AcceptedIsReachable ==
  \A e \in Event : status[e] = "accepted" =>
    \/ e \in Settled
    \/ \E s \in DOMAIN seg : s > ckpt /\ seg[s] = e

\* With any number of writers there is one exception: the forwarder acknowledged the number
\* while the event was staged at it. A number is above the checkpoint when it is chosen, by
\* a writer or by one that died before recovery promoted its staging file, so nothing else
\* loses an accepted event (spool.py:181-186, 263).
AcceptedOrOvertaken ==
  \A e \in Event : status[e] = "accepted" =>
    \/ e \in Settled \/ e \in overtaken
    \/ \E s \in DOMAIN seg : s > ckpt /\ seg[s] = e

\* But for that, every accepted event reaches JetStream once the forwarder stops dying, or
\* is reported.
AcceptedIsPublished ==
  \A e \in Event : (status[e] = "accepted" /\ e \notin overtaken) ~> (e \in Settled)

\* Every event committed above the checkpoint reaches JetStream or is reported.
LoggedIsPublished ==
  \A e \in Event : (e \in Logged) ~> (e \in Settled)

\* Committed where the reader is already past, and nowhere else: what spool_reuse finds.
Behind == reused \ Logged
Confirmed == {e \in Event : status[e] = "accepted"} \ Behind

\* The pipeline implements the delivery log: what the running forwarder has handed
\* downstream ends where its batch begins. Of the accepted events those committed behind
\* the reader only are not in it.
Handing ==
  IF fpc \in {"down", "recover"} THEN ckpt + 1
  ELSE IF batch = {} THEN rpos + 1
  ELSE CHOOSE s \in batch : IsNextToPublish(s)

Delivery == INSTANCE DeliveryLog WITH
  confirmed <- Confirmed,
  acked <- ckpt + 1,
  cursor <- Handing,
  handed <- published,
  dropped <- dropped

ImplementsDeliveryLog == Delivery!Spec
=============================================================================
