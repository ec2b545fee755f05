----------------------------- MODULE AuditTail ------------------------------
(***************************************************************************)
(* `nova audit-log tail --follow`, src/src/novafabric/audit/siem_export.py *)
(* (_TailReader, follow_entries), which reads the log of AuditChain        *)
(* without its lock and re-reads the path to notice that it was rotated.   *)
(*                                                                         *)
(* It starts with --from-start. Truncation in place and the sinks are left *)
(* out; the rendering of a line is a function of it.                       *)
(***************************************************************************)
EXTENDS AuditChain, FiniteSets

VARIABLES
  fpc,       \* tailer: start, naming, poll, drained, turning, closed, compare
  fh,        \* the file it reads, or NoFile
  identity,  \* the file it believes it reads
  off,       \* lines of it consumed
  told,      \* whether any byte of it has been read
  walk,      \* the entry the chain walk expects to be named next
  exported,  \* entries rendered
  opened,    \* history: files it has opened
  cut,       \* history: files it has closed for being longer than the log
  alarm,     \* history: it reported an entry that does not name the one before it
  again      \* history: it rendered an entry a second time

readVars == <<off, told, walk, exported, alarm, again>>
nameVars == <<fh, identity, opened, cut>>
vars == <<chainVars, fpc, readVars, nameVars>>

Init ==
  /\ ChainInit
  /\ fpc = "start"
  /\ fh = NoFile /\ identity = NoFile /\ opened = {} /\ cut = {}
  /\ off = 0 /\ told = FALSE /\ walk = NoEntry
  /\ exported = {} /\ alarm = FALSE /\ again = FALSE

\* The complete lines after those consumed; a last one without its newline stays pending.
Readable == {i \in off + 1 .. Len(text[fh]) : IsComplete(text[fh][i])}
Rendered == {i \in Readable : IsJson(text[fh][i])}

\* What a chain walk that came from entry e expects line i to name.
Expected(e, i) ==
  LET before == {j \in Rendered : j < i} IN
  IF before = {} THEN e ELSE text[fh][CHOOSE j \in before : \A k \in before : k <= j].entry

\* Reads to the end of the file and consumes its lines, with a chain walk that comes from e.
Consume(e) ==
  LET entries == {text[fh][i].entry : i \in Rendered} IN
  /\ off' = off + Cardinality(Readable)
  /\ told' = (Len(text[fh]) > 0)
  /\ exported' = exported \cup entries
  /\ alarm' = (alarm \/ \E i \in Rendered : text[fh][i].prev # Expected(e, i))
  /\ again' = (again \/ entries \cap exported # {})
  /\ walk' = Expected(e, Len(text[fh]) + 1)

\* _open: the file the path names now, from its first line, or none.
Take ==
  /\ fh' = path
  /\ opened' = opened \cup ({path} \ {NoFile})
  /\ fpc' = IF path = NoFile THEN "poll" ELSE "naming"
  /\ off' = 0 /\ told' = FALSE
  /\ UNCHANGED <<chainVars, identity, cut, exported, alarm, again>>

Begin == fpc = "start" /\ Take /\ UNCHANGED walk

\* A cycle that has no file looks for one.
Appear ==
  /\ fpc = "poll" /\ fh = NoFile /\ path # NoFile
  /\ Take
  /\ UNCHANGED walk

\* The identity of the file just opened is asked of its path.
Name ==
  /\ fpc = "naming"
  /\ identity' = path
  /\ fpc' = "poll"
  /\ UNCHANGED <<chainVars, readVars, fh, opened, cut>>

\* A cycle: the lines of the file, then a look at the path, then one at its size. The drain
\* of a file just reopened is the one of the next cycle.
Drain ==
  /\ fpc = "poll" /\ fh # NoFile
  /\ Consume(walk)
  /\ fpc' = "drained"
  /\ UNCHANGED <<chainVars, nameVars>>

LookSame ==
  /\ fpc = "drained" /\ path \in {NoFile, identity}
  /\ fpc' = "compare"
  /\ UNCHANGED <<chainVars, readVars, nameVars>>

\* Mutant: a rotated file is closed as it was drained before.
LookOtherAtOnce ==
  /\ fpc = "drained" /\ path \notin {NoFile, identity}
  /\ fpc' = "closed"
  /\ walk' = NoEntry
  /\ UNCHANGED <<chainVars, nameVars, off, told, exported, alarm, again>>

LookOther ==
  /\ fpc = "drained" /\ path \notin {NoFile, identity}
  /\ fpc' = "turning"
  /\ UNCHANGED <<chainVars, readVars, nameVars>>

\* Mutant: the chain walk restarts before the old file's last lines are consumed.
LastDrainRestarted ==
  /\ fpc = "turning"
  /\ Consume(NoEntry)
  /\ fpc' = "closed"
  /\ UNCHANGED <<chainVars, nameVars>>

\* The rotated file is drained again before it is closed.
LastDrain ==
  /\ fpc = "turning"
  /\ Consume(walk)
  /\ fpc' = "closed"
  /\ UNCHANGED <<chainVars, nameVars>>

\* Then the chain walk restarts, with what the path names now.
Turn ==
  /\ fpc = "closed"
  /\ Take
  /\ walk' = NoEntry

\* The log's size is compared with what was read of the file, in bytes: of two files either
\* may be the longer one, unless one is empty.
CompareLonger ==
  /\ fpc = "compare"
  /\ (path \notin {NoFile, fh} /\ told => Len(text[path]) > 0)
  /\ fpc' = "poll"
  /\ UNCHANGED <<chainVars, readVars, nameVars>>

CompareShorter ==
  /\ fpc = "compare"
  /\ path \notin {NoFile, fh} /\ told
  /\ cut' = cut \cup {fh}
  /\ fpc' = "closed"
  /\ UNCHANGED <<chainVars, readVars, fh, identity, opened>>

Cycle ==
  \/ Begin \/ Appear \/ Name \/ Drain \/ LookSame \/ LookOther \/ LastDrain \/ Turn
  \/ CompareLonger \/ CompareShorter

Next == Cycle \/ (ChainNext /\ UNCHANGED <<fpc, readVars, nameVars>>)

Spec == Init /\ [][Next]_vars

\* The tailer goes on; nobody owes the log an entry.
FairSpec == Spec /\ WF_vars(Cycle)

-----------------------------------------------------------------------------
TypeOK ==
  /\ ChainTypeOK
  /\ fpc \in {"start", "naming", "poll", "drained", "turning", "closed", "compare"}
  /\ {fh, identity} \subseteq {NoFile} \cup File
  /\ off \in Nat /\ told \in BOOLEAN
  /\ walk \in {NoEntry} \cup Entry
  /\ exported \subseteq Entry /\ opened \subseteq File /\ cut \subseteq File
  /\ {alarm, again} \subseteq BOOLEAN

\* The stream repeats no entry, and for no log whose files are unbroken does it report an
\* entry whose prev_hash is another's, whatever it was doing when the log was rotated
\* (siem_export.py:938-944, 1025-1026). A restarted chain and a line that is not JSON are
\* reported as well (718-738), as they should be.
ExportIsFaithful == ~again /\ ~alarm

\* A file the tailer gets past without having read all of it: it had never opened it; it
\* believed it had; or it closed it for its size.
PassedOver(f) ==
  \/ f # path /\ f \notin opened
  \/ f = identity /\ f # fh
  \/ f \in cut

\* Every entry finished in the log is exported, also when the log is renamed away right
\* after it, unless its file is passed over (siem_export.py:865-869).
Finished(f, e) == \E i \in 1 .. Len(text[f]) : text[f][i].entry = e /\ text[f][i].is = "whole"
EntriesAreExported ==
  \A e \in Entry :
    e \notin late /\ (\E f \in File : Finished(f, e)) ~>
      e \in exported \/ \E f \in File : Finished(f, e) /\ PassedOver(f)
=============================================================================
