----------------------------- MODULE AuditChain -----------------------------
(***************************************************************************)
(* The hash-chained audit log, src/src/novafabric/audit/_log.py: processes *)
(* append to one file under flock, while the file may be renamed away, as  *)
(* logrotate and a restore do.                                             *)
(*                                                                         *)
(* An entry is a number, given when its line is begun, and its hash is the *)
(* entry itself. A line on disk is part of an entry or all of it, with or  *)
(* without its newline: a write that stops in the middle (a full disk, a   *)
(* death) leaves it so. flock excludes threads as well as processes here,  *)
(* since every append opens the file; the lock per path and process that   *)
(* stands in for it elsewhere is left out. Lines written are durable.      *)
(***************************************************************************)
EXTENDS Integers, Sequences

CONSTANTS
  Writer,      \* threads and processes that append
  MaxFiles,    \* bound: files the log's path has named
  MaxEntries,  \* bound: entries begun
  MaxReopen,   \* _MAX_REOPEN
  MaxFaults    \* bound: failed writes and deaths

ASSUME ChainAssumption ==
  MaxFiles \in Nat /\ MaxEntries \in Nat /\ MaxReopen \in Nat \ {0} /\ MaxFaults \in Nat

File == 1 .. MaxFiles
Entry == 1 .. MaxEntries
NoFile == 0
NoEntry == 0

VARIABLES
  path,     \* the file the log's path names, or NoFile
  text,     \* file: its lines
  made,     \* how many files there have been
  begun,    \* how many entries have been begun
  pc,       \* writer: idle, open, again, locked, ready, writing
  fd,       \* writer: the file it has opened
  tries,    \* writer: files it has locked in vain
  prev,     \* writer: the entry it found last in the file
  racing,   \* history: writers past their check when their file was renamed away
  late,     \* history: entries finished in a file that was no longer the log
  faults    \* history: failures so far

fileVars == <<path, made>>
histVars == <<racing, late>>
chainVars == <<fileVars, text, begun, pc, fd, tries, prev, histVars, faults>>

\* A line: part of an entry or, bare of its newline, all of it; terminated, a line torn for
\* good or whole.
Line == [entry : Entry, prev : {NoEntry} \cup Entry, is : {"part", "bare", "torn", "whole"}]
IsJson(l) == l.is \in {"bare", "whole"}
IsComplete(l) == l.is \in {"torn", "whole"}
End(l) == [l EXCEPT !.is = IF @ \in {"part", "torn"} THEN "torn" ELSE "whole"]
Elements(s) == {s[i] : i \in 1 .. Len(s)}
EndLast(s) == [i \in 1 .. Len(s) |-> IF i = Len(s) THEN End(s[i]) ELSE s[i]]

\* e is the last entry among the first n lines, corrupt lines skipped.
LastEntry(s, n, e) ==
  \/ e = NoEntry /\ \A j \in 1 .. n : ~IsJson(s[j])
  \/ \E j \in 1 .. n :
       /\ IsJson(s[j]) /\ s[j].entry = e
       /\ \A k \in j + 1 .. n : ~IsJson(s[k])

ChainInit ==
  /\ path = NoFile /\ text = [f \in File |-> << >>]
  /\ made = 0 /\ begun = 0
  /\ pc = [w \in Writer |-> "idle"]
  /\ fd = [w \in Writer |-> NoFile]
  /\ tries = [w \in Writer |-> 0]
  /\ prev = [w \in Writer |-> NoEntry]
  /\ racing = {} /\ late = {}
  /\ faults = 0

Goto(w, p) == pc' = [pc EXCEPT ![w] = p]
Holding == {"locked", "ready", "writing"}

\* os.open with O_CREAT.
Open(w) ==
  /\ pc[w] \in {"idle", "again"}
  /\ pc[w] = "idle" => begun < MaxEntries
  /\ IF path = NoFile
     THEN made < MaxFiles /\ made' = made + 1 /\ path' = made + 1
     ELSE UNCHANGED fileVars
  /\ fd' = [fd EXCEPT ![w] = path']
  /\ Goto(w, "open")
  /\ UNCHANGED <<text, begun, tries, prev, histVars, faults>>

\* Mutant: the lock does not exclude.
NotHeld(f) == TRUE
Unlocked(f) == ~\E v \in Writer : pc[v] \in Holding /\ fd[v] = f

Lock(w) ==
  /\ pc[w] = "open" /\ Unlocked(fd[w])
  /\ Goto(w, "locked")
  /\ UNCHANGED <<fileVars, text, begun, fd, tries, prev, histVars, faults>>

\* The last entry of the file is what the new one will name.
ReadTail(w) ==
  \E e \in {NoEntry} \cup Entry :
    /\ LastEntry(text[fd[w]], Len(text[fd[w]]), e)
    /\ prev' = [prev EXCEPT ![w] = e]

\* Mutant: whatever file was locked is the log.
CheckNothing(w) ==
  /\ pc[w] = "locked"
  /\ Goto(w, "ready")
  /\ ReadTail(w)
  /\ UNCHANGED <<fileVars, text, begun, fd, tries, histVars, faults>>

\* samestat: the file that was locked is still the log, or it is opened anew, MaxReopen
\* times at most; then append raises.
Check(w) ==
  /\ pc[w] = "locked"
  /\ LET t == tries[w] + 1 IN
     \/ fd[w] = path /\ Goto(w, "ready") /\ ReadTail(w) /\ UNCHANGED <<fd, tries>>
     \/ /\ fd[w] # path
        /\ fd' = [fd EXCEPT ![w] = NoFile]
        /\ Goto(w, IF t = MaxReopen THEN "idle" ELSE "again")
        /\ tries' = [tries EXCEPT ![w] = t % MaxReopen]
        /\ UNCHANGED prev
  /\ UNCHANGED <<fileVars, text, begun, histVars, faults>>

\* The write as far as it has got: it ends a line that was left without its newline and
\* begins its own.
WriteSome(w) ==
  /\ pc[w] = "ready" /\ begun < MaxEntries
  /\ begun' = begun + 1
  /\ LET line == [entry |-> begun + 1, prev |-> prev[w], is |-> "part"] IN
     text' = [text EXCEPT ![fd[w]] = Append(EndLast(@), line)]
  /\ late' = IF fd[w] = path THEN late
             ELSE late \cup {l.entry : l \in {m \in Elements(text[fd[w]]) : m.is = "bare"}}
  /\ Goto(w, "writing")
  /\ UNCHANGED <<fileVars, fd, tries, prev, racing, faults>>

\* Leaves the critical section.
Leave(w) ==
  /\ Goto(w, "idle")
  /\ fd' = [fd EXCEPT ![w] = NoFile]
  /\ tries' = [tries EXCEPT ![w] = 0]
  /\ prev' = [prev EXCEPT ![w] = NoEntry]
  /\ racing' = racing \ {w}
  /\ UNCHANGED <<fileVars, begun>>

\* The rest of the line; an fsync that fails makes append raise, the line stays.
WriteRest(w) ==
  /\ pc[w] = "writing"
  /\ LET s == text[fd[w]] IN
     /\ text' = [text EXCEPT ![fd[w]] = [s EXCEPT ![Len(s)].is = "whole"]]
     /\ late' = IF fd[w] = path THEN late ELSE late \cup {s[Len(s)].entry}
  /\ Leave(w)
  /\ UNCHANGED faults

\* A step raises or the process dies; of a line begun, no more may be missing than its
\* newline.
Fail(w) ==
  /\ pc[w] # "idle" /\ faults < MaxFaults
  /\ faults' = faults + 1
  /\ \/ UNCHANGED text
     \/ /\ pc[w] = "writing"
        /\ text' = [text EXCEPT ![fd[w]][Len(text[fd[w]])].is = "bare"]
  /\ Leave(w)
  /\ UNCHANGED late

\* The log is renamed away; the next append finds the path free and creates a file.
Rotate ==
  /\ path # NoFile
  /\ racing' = racing \cup {w \in Writer : pc[w] \in {"ready", "writing"} /\ fd[w] = path}
  /\ path' = NoFile
  /\ UNCHANGED <<text, made, begun, pc, fd, tries, prev, late, faults>>

AppendStep(w) ==
  Open(w) \/ Lock(w) \/ Check(w) \/ WriteSome(w) \/ WriteRest(w)

ChainNext == Rotate \/ \E w \in Writer : AppendStep(w) \/ Fail(w)

ChainSpec == ChainInit /\ [][ChainNext]_chainVars

-----------------------------------------------------------------------------
ChainTypeOK ==
  /\ path \in {NoFile} \cup File /\ path <= made
  /\ text \in [File -> Seq(Line)]
  /\ made \in 0 .. MaxFiles /\ begun \in 0 .. MaxEntries
  /\ pc \in [Writer -> Holding \cup {"idle", "open", "again"}]
  /\ fd \in [Writer -> {NoFile} \cup File]
  /\ \A w \in Writer : fd[w] = NoFile <=> pc[w] \in {"idle", "again"}
  /\ tries \in [Writer -> 0 .. MaxReopen - 1]
  /\ prev \in [Writer -> {NoEntry} \cup Entry]
  /\ racing \subseteq Writer /\ late \subseteq Entry
  /\ faults \in 0 .. MaxFaults

\* No two entries of a file follow the same one, and none is left out: each names the one
\* before it in the file, whatever writers failed or died in the middle of a line
\* (_log.py:234-236, 240).
ChainUnbroken ==
  \A f \in File : \A i \in 1 .. Len(text[f]) :
    IsJson(text[f][i]) => LastEntry(text[f], i - 1, text[f][i].prev)

\* Only a writer that had checked the file when it was renamed away still begins a line in
\* a file that is not the log (_log.py:182-184).
EntriesLandInTheLog ==
  [][\A f \in File : Len(text'[f]) > Len(text[f]) /\ f # path =>
       \E w \in racing : fd[w] = f]_chainVars

\* Why, as an inductive invariant: the lock excludes; a writer still knows the last entry
\* when it begins its line; every line, torn ones too, was begun so; a writer whose file
\* was renamed away is racing.
OneHolder ==
  \A v, w \in Writer : pc[v] \in Holding /\ pc[w] \in Holding /\ fd[v] = fd[w] => v = w

TailIsKnown ==
  \A w \in Writer : pc[w] = "ready" => LastEntry(text[fd[w]], Len(text[fd[w]]), prev[w])

InOrder(s) == \A i \in 1 .. Len(s) : LastEntry(s, i - 1, s[i].prev)
LinesAreBegunInOrder ==
  /\ \A f \in File : InOrder(text[f])
  /\ \A w \in Writer : pc[w] = "writing" => text[fd[w]] # << >>

RacersAreNamed ==
  \A w \in Writer : pc[w] \in {"ready", "writing"} /\ fd[w] # path => w \in racing

ChainInv == ChainTypeOK /\ OneHolder /\ TailIsKnown /\ LinesAreBegunInOrder /\ RacersAreNamed
=============================================================================
