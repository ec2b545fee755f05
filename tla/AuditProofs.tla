---------------------------- MODULE AuditProofs -----------------------------
(***************************************************************************)
(* Proofs about the audit log of AuditChain, for any number of writers,    *)
(* files, entries and failures, and for the log that AuditTail follows.    *)
(***************************************************************************)
EXTENDS AuditTail, SequenceTheorems, FiniteSetTheorems, TLAPS

-----------------------------------------------------------------------------
(* Lines *)

\* The null values are none of the real ones.
LEMMA EntryNotNone == NoEntry \notin Entry /\ NoFile \notin File
  BY DEF NoEntry, NoFile, Entry, File

\* The first n lines of s and t are of the same entries, and as readable.
SameLines(s, t, n) ==
  \A i \in 1 .. n : /\ IsJson(t[i]) <=> IsJson(s[i])
                    /\ t[i].entry = s[i].entry /\ t[i].prev = s[i].prev

\* What LastEntry finds depends on the entries among the first lines, not on how their
\* lines end.
LEMMA LastEntrySame ==
  ASSUME NEW s, NEW t, NEW n \in Nat, NEW e,
         SameLines(s, t, n), LastEntry(s, n, e)
  PROVE  LastEntry(t, n, e)
<1>1. CASE e = NoEntry /\ \A j \in 1 .. n : ~IsJson(s[j])
  BY <1>1 DEF LastEntry, SameLines
<1>2. CASE \E j \in 1 .. n :
             IsJson(s[j]) /\ s[j].entry = e /\ \A k \in j + 1 .. n : ~IsJson(s[k])
  <2>1. PICK j \in 1 .. n :
          IsJson(s[j]) /\ s[j].entry = e /\ \A k \in j + 1 .. n : ~IsJson(s[k])
    BY <1>2
  <2>2. \A k \in j + 1 .. n : k \in 1 .. n
    OBVIOUS
  <2>3. IsJson(t[j]) /\ t[j].entry = e /\ \A k \in j + 1 .. n : ~IsJson(t[k])
    BY <2>1, <2>2 DEF SameLines
  <2> QED BY <2>3 DEF LastEntry
<1> QED BY <1>1, <1>2 DEF LastEntry

\* A line that is ended is still a line, of the same entry, and as readable as before.
LEMMA EndKeeps ==
  ASSUME NEW l \in Line
  PROVE  /\ End(l) \in Line
         /\ IsJson(End(l)) <=> IsJson(l)
         /\ End(l).entry = l.entry /\ End(l).prev = l.prev
  BY DEF End, Line, IsJson

\* What WriteSome leaves in the file: the old lines, ended, and one more.
LEMMA AppendedLines ==
  ASSUME NEW s \in Seq(Line), NEW l \in Line, NEW t, t = Append(EndLast(s), l)
  PROVE  /\ t \in Seq(Line) /\ Len(t) = Len(s) + 1 /\ t[Len(s) + 1] = l
         /\ SameLines(s, t, Len(s))
<1> DEFINE r == EndLast(s)
<1>1. Len(s) \in Nat /\ \A i \in 1 .. Len(s) : s[i] \in Line
  BY LenProperties, ElementOfSeq
<1>2. \A i \in 1 .. Len(s) : r[i] \in Line
  BY <1>1, EndKeeps DEF EndLast
<1>3. r \in [1 .. Len(s) -> Line]
  BY <1>2 DEF EndLast
<1>4. r \in Seq(Line) /\ Len(r) = Len(s)
  BY <1>1, <1>3, SeqDef, LenProperties
<1>5. \A i \in 1 .. Len(s) : /\ IsJson(r[i]) <=> IsJson(s[i])
                             /\ r[i].entry = s[i].entry /\ r[i].prev = s[i].prev
  BY <1>1, EndKeeps DEF EndLast
<1>6. t = Append(r, l)
  OBVIOUS
<1> HIDE DEF r
<1>7. /\ t \in Seq(Line) /\ Len(t) = Len(r) + 1
      /\ \A i \in 1 .. Len(r) : t[i] = r[i]
      /\ t[Len(r) + 1] = l
  BY <1>4, <1>6, AppendProperties
<1>8. SameLines(s, t, Len(s))
  BY <1>4, <1>5, <1>7 DEF SameLines
<1> QED BY <1>4, <1>7, <1>8

\* What a write that ends, or fails, leaves: the same lines, the last one readable now.
LEMMA ChangedLast ==
  ASSUME NEW s \in Seq(Line), s # << >>, NEW x \in {"bare", "whole"},
         NEW t, t = [s EXCEPT ![Len(s)].is = x]
  PROVE  /\ t \in Seq(Line) /\ Len(t) = Len(s)
         /\ t[Len(s)].prev = s[Len(s)].prev
         /\ SameLines(s, t, Len(s) - 1)
<1> DEFINE l == [s[Len(s)] EXCEPT !.is = x]
<1>1. Len(s) \in Nat /\ Len(s) \in 1 .. Len(s) /\ \A i \in 1 .. Len(s) : s[i] \in Line
  BY LenProperties, EmptySeq, ElementOfSeq
<1>2. l \in Line /\ l.entry = s[Len(s)].entry /\ l.prev = s[Len(s)].prev
  BY <1>1 DEF Line
<1>3. t = [s EXCEPT ![Len(s)] = l]
  OBVIOUS
<1> HIDE DEF l
<1>4. t \in Seq(Line) /\ Len(t) = Len(s) /\ \A i \in 1 .. Len(s) : t[i] = IF i = Len(s) THEN l ELSE s[i]
  BY <1>1, <1>2, <1>3, ExceptSeq
<1>5. SameLines(s, t, Len(s) - 1)
  BY <1>1, <1>4 DEF SameLines
<1> QED BY <1>1, <1>2, <1>4, <1>5

\* A file stays in order when the line begun names the last entry, and when its last line is
\* ended.
LEMMA InOrderOneMore ==
  ASSUME NEW s, NEW t, Len(s) \in Nat, Len(t) = Len(s) + 1, SameLines(s, t, Len(s)),
         InOrder(s), LastEntry(s, Len(s), t[Len(s) + 1].prev)
  PROVE  InOrder(t)
<1> SUFFICES ASSUME NEW i \in 1 .. Len(s) + 1 PROVE LastEntry(t, i - 1, t[i].prev)
  BY DEF InOrder
<1>1. i - 1 \in Nat /\ SameLines(s, t, i - 1)
  BY DEF SameLines
<1>2. LastEntry(s, i - 1, t[i].prev)
  <2>1. CASE i = Len(s) + 1
    BY <2>1
  <2>2. CASE i \in 1 .. Len(s)
    BY <2>2 DEF InOrder, SameLines
  <2> QED BY <2>1, <2>2
<1> QED BY <1>1, <1>2, LastEntrySame

\* What the last line holds does not matter to the order of the lines.
LEMMA InOrderEnded ==
  ASSUME NEW s, NEW t, Len(s) \in Nat, Len(t) = Len(s), SameLines(s, t, Len(s) - 1),
         t[Len(s)].prev = s[Len(s)].prev, InOrder(s)
  PROVE  InOrder(t)
<1> SUFFICES ASSUME NEW i \in 1 .. Len(s) PROVE LastEntry(t, i - 1, t[i].prev)
  BY DEF InOrder
<1>1. i - 1 \in Nat /\ SameLines(s, t, i - 1)
  BY DEF SameLines
<1>2. t[i].prev = s[i].prev
  BY DEF SameLines
<1> QED BY <1>1, <1>2, LastEntrySame DEF InOrder

-----------------------------------------------------------------------------
(* What a step does to the lines of the files *)

\* A writer inside append has a file open.
LEMMA HolderHasAFile ==
  ASSUME ChainTypeOK, NEW w \in Writer, pc[w] \notin {"idle", "again"}
  PROVE  fd[w] \in File
  BY DEF ChainTypeOK

\* Of a writer's file the lines before the last keep their entries; so do all lines of the
\* other files.
LEMMA BeginsALine ==
  ASSUME ChainInv, NEW w \in Writer, WriteSome(w)
  PROVE  /\ fd[w] \in File /\ text' \in [File -> Seq(Line)]
         /\ \A f \in File : f # fd[w] => text'[f] = text[f]
         /\ Len(text'[fd[w]]) = Len(text[fd[w]]) + 1
         /\ text'[fd[w]][Len(text[fd[w]]) + 1].prev = prev[w]
         /\ SameLines(text[fd[w]], text'[fd[w]], Len(text[fd[w]]))
<1> DEFINE s == text[fd[w]]
           t == text'[fd[w]]
           l == [entry |-> begun + 1, prev |-> prev[w], is |-> "part"]
<1>1. ChainTypeOK /\ fd[w] \in File
  BY HolderHasAFile DEF ChainInv, WriteSome
<1>2. s \in Seq(Line)
  BY <1>1 DEF ChainTypeOK
<1>3. begun + 1 \in Entry
  BY <1>1, ChainAssumption DEF ChainTypeOK, WriteSome, Entry
<1>4. l \in Line
  BY <1>1, <1>3 DEF ChainTypeOK, Line
<1>5. text' = [text EXCEPT ![fd[w]] = Append(EndLast(s), l)]
  BY DEF WriteSome
<1>6. t = Append(EndLast(s), l) /\ \A f \in File : f # fd[w] => text'[f] = text[f]
  BY <1>1, <1>5 DEF ChainTypeOK
<1>7. l.prev = prev[w]
  OBVIOUS
<1> HIDE DEF s, l, t
<1>8. /\ t \in Seq(Line) /\ Len(t) = Len(s) + 1
      /\ t[Len(s) + 1] = l
      /\ SameLines(s, t, Len(s))
  BY <1>2, <1>4, <1>6, AppendedLines
<1>9. text' \in [File -> Seq(Line)]
  BY <1>1, <1>5, <1>6, <1>8 DEF ChainTypeOK, t
<1> QED BY <1>1, <1>6, <1>7, <1>8, <1>9 DEF s, t

\* The end of a write completes the line its writer began.
LEMMA EndsALine ==
  ASSUME ChainInv, NEW w \in Writer, pc[w] = "writing", NEW x \in {"bare", "whole"},
         text' = [text EXCEPT ![fd[w]] = [text[fd[w]] EXCEPT ![Len(text[fd[w]])].is = x]]
  PROVE  /\ fd[w] \in File /\ text' \in [File -> Seq(Line)]
         /\ \A f \in File : f # fd[w] => text'[f] = text[f]
         /\ Len(text[fd[w]]) \in Nat \ {0} /\ Len(text'[fd[w]]) = Len(text[fd[w]])
         /\ text'[fd[w]][Len(text[fd[w]])].prev = text[fd[w]][Len(text[fd[w]])].prev
         /\ SameLines(text[fd[w]], text'[fd[w]], Len(text[fd[w]]) - 1)
<1> DEFINE s == text[fd[w]]
           t == text'[fd[w]]
<1>1. ChainTypeOK /\ fd[w] \in File
  BY HolderHasAFile DEF ChainInv
<1>2. s \in Seq(Line) /\ s # << >>
  BY <1>1 DEF ChainInv, ChainTypeOK, LinesAreBegunInOrder
<1>3. Len(s) \in Nat \ {0}
  BY <1>2, EmptySeq
<1>4. /\ t = [s EXCEPT ![Len(s)].is = x]
      /\ \A f \in File : f # fd[w] => text'[f] = text[f]
  BY <1>1 DEF ChainTypeOK
<1> HIDE DEF s, t
<1>5. /\ t \in Seq(Line) /\ Len(t) = Len(s)
      /\ t[Len(s)].prev = s[Len(s)].prev
      /\ SameLines(s, t, Len(s) - 1)
  BY <1>2, <1>4, ChangedLast
<1>6. text' \in [File -> Seq(Line)]
  BY <1>1, <1>4, <1>5 DEF ChainTypeOK, t
<1> QED BY <1>1, <1>3, <1>4, <1>5, <1>6 DEF s, t

\* The two ways a step ends a line.
LEMMA RestEndsALine ==
  ASSUME ChainInv, NEW w \in Writer, WriteRest(w)
  PROVE  text' = [text EXCEPT ![fd[w]] = [text[fd[w]] EXCEPT ![Len(text[fd[w]])].is = "whole"]]
  BY DEF WriteRest

\* A failure that changes a file leaves its last line bare: begun, and its newline missing.
LEMMA FailEndsALine ==
  ASSUME ChainInv, NEW w \in Writer, Fail(w), text' # text
  PROVE  /\ pc[w] = "writing"
         /\ text' = [text EXCEPT ![fd[w]] = [text[fd[w]] EXCEPT ![Len(text[fd[w]])].is = "bare"]]
  BY DEF Fail

-----------------------------------------------------------------------------
(* Each part of the invariant is kept *)

\* Leaving the lock keeps the types.
LEMMA LeaveTypes ==
  ASSUME ChainTypeOK, NEW w \in Writer, Leave(w), text' \in [File -> Seq(Line)],
         late' \subseteq Entry, faults' \in 0 .. MaxFaults
  PROVE  ChainTypeOK'
<1>1. \A v \in Writer : fd'[v] = NoFile <=> pc'[v] \in {"idle", "again"}
  BY DEF ChainTypeOK, Leave, Goto
<1>2. /\ pc' \in [Writer -> Holding \cup {"idle", "open", "again"}]
      /\ fd' \in [Writer -> {NoFile} \cup File]
      /\ prev' \in [Writer -> {NoEntry} \cup Entry]
  BY DEF ChainTypeOK, Leave, Goto
<1>3. tries' \in [Writer -> 0 .. MaxReopen - 1]
  BY ChainAssumption DEF ChainTypeOK, Leave
<1> QED BY <1>1, <1>2, <1>3 DEF ChainTypeOK, Leave, fileVars

\* Every line is of an entry.
LEMMA LinesHaveEntries ==
  ASSUME ChainTypeOK, NEW f \in File, NEW i \in 1 .. Len(text[f])
  PROVE  text[f][i].entry \in Entry
<1>1. text[f] \in Seq(Line)
  BY DEF ChainTypeOK
<1>2. text[f][i] \in Line
  BY <1>1, ElementOfSeq
<1> QED BY <1>2 DEF Line

\* Every step keeps the types.
LEMMA TypeStep ==
  ASSUME ChainInv, ChainNext
  PROVE  ChainTypeOK'
<1>0. ChainTypeOK
  BY DEF ChainInv
<1>1. CASE Rotate
  BY <1>0, <1>1 DEF Rotate, ChainTypeOK, NoFile
<1>2. ASSUME NEW w \in Writer, Open(w) PROVE ChainTypeOK'
  <2>1. path' \in File /\ path' <= made' /\ made' \in 0 .. MaxFiles
    BY <1>0, <1>2, ChainAssumption DEF Open, ChainTypeOK, fileVars, File, NoFile
  <2>2. path' # NoFile
    BY <2>1, EntryNotNone
  <2>3. \A v \in Writer : fd'[v] = NoFile <=> pc'[v] \in {"idle", "again"}
    BY <1>0, <1>2, <2>1, <2>2 DEF Open, Goto, ChainTypeOK
  <2>4. pc' \in [Writer -> Holding \cup {"idle", "open", "again"}]
    BY <1>0, <1>2 DEF Open, Goto, ChainTypeOK
  <2> QED BY <1>0, <1>2, <2>1, <2>3, <2>4 DEF Open, ChainTypeOK, histVars
<1>3. ASSUME NEW w \in Writer, Lock(w) PROVE ChainTypeOK'
  BY <1>0, <1>3 DEF Lock, Goto, Holding, ChainTypeOK, fileVars, histVars
<1>4. ASSUME NEW w \in Writer, Check(w) PROVE ChainTypeOK'
  <2>1. CASE fd[w] = path /\ Goto(w, "ready") /\ ReadTail(w) /\ UNCHANGED <<fd, tries>>
    BY <1>0, <1>4, <2>1
    DEF Check, Goto, ReadTail, Holding, ChainTypeOK, fileVars, histVars
  <2>2. CASE /\ fd' = [fd EXCEPT ![w] = NoFile]
             /\ Goto(w, IF tries[w] + 1 = MaxReopen THEN "idle" ELSE "again")
             /\ tries' = [tries EXCEPT ![w] = (tries[w] + 1) % MaxReopen]
             /\ UNCHANGED prev
    <3>1. (tries[w] + 1) % MaxReopen \in 0 .. MaxReopen - 1
      BY <1>0, ChainAssumption DEF ChainTypeOK
    <3>2. tries' \in [Writer -> 0 .. MaxReopen - 1]
      BY <1>0, <2>2, <3>1 DEF ChainTypeOK
    <3>3. \A v \in Writer : fd'[v] = NoFile <=> pc'[v] \in {"idle", "again"}
      BY <1>0, <2>2 DEF Goto, ChainTypeOK
    <3>4. pc' \in [Writer -> Holding \cup {"idle", "open", "again"}]
      BY <1>0, <2>2 DEF Goto, ChainTypeOK
    <3>5. fd' \in [Writer -> {NoFile} \cup File]
      BY <1>0, <2>2 DEF ChainTypeOK
    <3> QED
      BY <1>0, <1>4, <2>2, <3>2, <3>3, <3>4, <3>5 DEF Check, ChainTypeOK, fileVars, histVars
  <2> QED BY <1>4, <2>1, <2>2 DEF Check
<1>5. ASSUME NEW w \in Writer, WriteSome(w) PROVE ChainTypeOK'
  <2>1. text' \in [File -> Seq(Line)] /\ fd[w] \in File
    BY <1>5, BeginsALine
  <2>2. begun' \in 0 .. MaxEntries
    BY <1>0, <1>5, ChainAssumption DEF WriteSome, ChainTypeOK
  <2>3. late' \subseteq Entry
    BY <1>0, <1>5, <2>1, LinesHaveEntries DEF WriteSome, ChainTypeOK, Elements
  <2> QED
    BY <1>0, <1>5, <2>1, <2>2, <2>3 DEF WriteSome, Goto, Holding, ChainTypeOK, fileVars
<1>6. ASSUME NEW w \in Writer, WriteRest(w) PROVE ChainTypeOK'
  <2>0. pc[w] = "writing" /\ Leave(w) /\ faults' = faults
    BY <1>6 DEF WriteRest
  <2>1. /\ text' \in [File -> Seq(Line)] /\ fd[w] \in File
        /\ Len(text[fd[w]]) \in Nat \ {0}
    BY <1>6, <2>0, RestEndsALine, EndsALine
  <2>2. text[fd[w]][Len(text[fd[w]])].entry \in Entry
    BY <1>0, <2>1, LinesHaveEntries
  <2>3. late' \subseteq Entry
    BY <1>0, <1>6, <2>2 DEF WriteRest, ChainTypeOK
  <2> QED BY <1>0, <2>0, <2>1, <2>3, LeaveTypes DEF ChainTypeOK
<1>7. ASSUME NEW w \in Writer, Fail(w) PROVE ChainTypeOK'
  <2>1. text' \in [File -> Seq(Line)]
    <3>1. CASE text' = text
      BY <1>0, <3>1 DEF ChainTypeOK
    <3>2. CASE text' # text
      BY <1>7, <3>2, FailEndsALine, EndsALine
    <3> QED BY <3>1, <3>2
  <2>2. faults' \in 0 .. MaxFaults /\ late' \subseteq Entry /\ Leave(w)
    BY <1>0, <1>7, ChainAssumption DEF Fail, ChainTypeOK
  <2> QED BY <1>0, <2>1, <2>2, LeaveTypes
<1> QED
  BY <1>1, <1>2, <1>3, <1>4, <1>5, <1>6, <1>7 DEF ChainNext, AppendStep

\* Only Lock makes a holder, of a file nobody holds.
LEMMA HolderStep ==
  ASSUME ChainInv, ChainNext
  PROVE  OneHolder'
<1>0. ChainTypeOK /\ OneHolder
  BY DEF ChainInv
<1>1. CASE Rotate
  BY <1>0, <1>1 DEF Rotate, OneHolder, Holding
<1>2. ASSUME NEW w \in Writer, AppendStep(w) \/ Fail(w) PROVE OneHolder'
  <2>1. CASE Lock(w)
    BY <1>0, <2>1 DEF Lock, Goto, Unlocked, OneHolder, Holding, ChainTypeOK
  <2>2. CASE ~Lock(w)
    <3>1. /\ \A v \in Writer : v # w => pc'[v] = pc[v] /\ fd'[v] = fd[v]
          /\ pc'[w] \in Holding => pc[w] \in Holding /\ fd'[w] = fd[w]
      BY <1>0, <1>2, <2>2
      DEF AppendStep, Open, Check, WriteSome, WriteRest, Fail, Leave, Goto, Holding, ChainTypeOK
    <3> QED BY <1>0, <3>1 DEF OneHolder
  <2> QED BY <2>1, <2>2
<1> QED BY <1>1, <1>2 DEF ChainNext

\* A writer reads the tail under the lock, so nobody writes between it and its own line.
LEMMA TailStep ==
  ASSUME ChainInv, ChainNext
  PROVE  TailIsKnown'
<1>0. ChainTypeOK /\ OneHolder /\ TailIsKnown
  BY DEF ChainInv
<1> SUFFICES ASSUME NEW v \in Writer, pc'[v] = "ready"
             PROVE  LastEntry(text'[fd'[v]], Len(text'[fd'[v]]), prev'[v])
  BY DEF TailIsKnown
<1>1. CASE Rotate
  BY <1>0, <1>1 DEF Rotate, TailIsKnown
<1>2. ASSUME NEW w \in Writer, AppendStep(w) \/ Fail(w)
      PROVE  LastEntry(text'[fd'[v]], Len(text'[fd'[v]]), prev'[v])
  <2>1. CASE w = v
    <3>1. Check(v) /\ text' = text /\ fd' = fd /\ ReadTail(v)
      BY <1>0, <1>2, <2>1
      DEF AppendStep, Open, Lock, Check, WriteSome, WriteRest, Fail, Leave, Goto, ChainTypeOK
    <3> QED BY <1>0, <3>1 DEF ReadTail, ChainTypeOK
  <2>2. CASE w # v
    <3>1. pc[v] = "ready" /\ fd'[v] = fd[v] /\ prev'[v] = prev[v] /\ fd[v] \in File
      <4>1. pc[v] = "ready" /\ fd'[v] = fd[v] /\ prev'[v] = prev[v]
        BY <1>0, <1>2, <2>2
        DEF AppendStep, Open, Lock, Check, ReadTail, WriteSome, WriteRest, Fail, Leave, Goto,
            ChainTypeOK
      <4> QED BY <1>0, <4>1, HolderHasAFile
    <3>2. text'[fd[v]] = text[fd[v]]
      <4>1. CASE text' = text
        BY <4>1
      <4>2. CASE text' # text
        <5>1. pc[w] \in {"ready", "writing"} /\ \E x : text' = [text EXCEPT ![fd[w]] = x]
          BY <1>2, <4>2 DEF AppendStep, Open, Lock, Check, WriteSome, WriteRest, Fail
        <5>2. fd[w] # fd[v]
          BY <1>0, <2>2, <3>1, <5>1 DEF OneHolder, Holding
        <5> QED BY <1>0, <3>1, <5>1, <5>2 DEF ChainTypeOK
      <4> QED BY <4>1, <4>2
    <3> QED BY <1>0, <3>1, <3>2 DEF TailIsKnown
  <2> QED BY <2>1, <2>2
<1> QED BY <1>1, <1>2 DEF ChainNext

\* Every step keeps the order of the lines.
LEMMA OrderStep ==
  ASSUME ChainInv, ChainNext
  PROVE  LinesAreBegunInOrder'
<1>0. ChainTypeOK /\ OneHolder /\ TailIsKnown /\ LinesAreBegunInOrder
  BY DEF ChainInv
<1>1. ASSUME text' = text, \A w \in Writer : pc'[w] = "writing" => pc[w] = "writing" /\ fd'[w] = fd[w]
      PROVE  LinesAreBegunInOrder'
  BY <1>0, <1>1 DEF LinesAreBegunInOrder
<1>2. CASE Rotate
  BY <1>1, <1>2 DEF Rotate
<1>3. ASSUME NEW w \in Writer, Open(w) \/ Lock(w) \/ Check(w) PROVE LinesAreBegunInOrder'
  BY <1>0, <1>1, <1>3 DEF Open, Lock, Check, Goto, ChainTypeOK
<1>4. ASSUME NEW w \in Writer, WriteSome(w) PROVE LinesAreBegunInOrder'
  <2> DEFINE f == fd[w]
  <2>1. /\ f \in File
        /\ \A g \in File : g # f => text'[g] = text[g]
        /\ Len(text'[f]) = Len(text[f]) + 1
        /\ text'[f][Len(text[f]) + 1].prev = prev[w]
        /\ SameLines(text[f], text'[f], Len(text[f]))
    BY <1>4, BeginsALine
  <2>2. text[f] \in Seq(Line) /\ Len(text[f]) \in Nat
    <3>1. text[f] \in Seq(Line)
      BY <1>0, <2>1 DEF ChainTypeOK
    <3> QED BY <3>1, LenProperties
  <2>3. InOrder(text[f]) /\ LastEntry(text[f], Len(text[f]), prev[w])
    BY <1>0, <1>4, <2>1 DEF LinesAreBegunInOrder, TailIsKnown, WriteSome
  <2>4. InOrder(text'[f])
    <3> DEFINE s == text[f]
               t == text'[f]
    <3>1. /\ Len(s) \in Nat /\ Len(t) = Len(s) + 1 /\ SameLines(s, t, Len(s)) /\ InOrder(s)
          /\ LastEntry(s, Len(s), t[Len(s) + 1].prev)
      BY <2>1, <2>2, <2>3
    <3> HIDE DEF s, t
    <3>2. InOrder(t)
      BY <3>1, InOrderOneMore
    <3> QED BY <3>2 DEF t
  <2>5. text'[f] # << >>
    BY <2>1, <2>2
  <2>6. \A v \in Writer : pc'[v] = "writing" => v = w \/ (pc[v] = "writing" /\ fd[v] # f)
    BY <1>0, <1>4 DEF WriteSome, Goto, OneHolder, Holding, ChainTypeOK
  <2>7. \A v \in Writer : pc[v] = "writing" => fd[v] \in File
    BY <1>0, HolderHasAFile
  <2>8. \A v \in Writer : pc'[v] = "writing" => text'[fd'[v]] # << >>
    BY <1>0, <1>4, <2>1, <2>5, <2>6, <2>7 DEF WriteSome, LinesAreBegunInOrder
  <2>9. \A g \in File : InOrder(text'[g])
    BY <1>0, <2>1, <2>4 DEF LinesAreBegunInOrder
  <2> QED BY <2>8, <2>9 DEF LinesAreBegunInOrder
<1>5. ASSUME NEW w \in Writer, NEW x \in {"bare", "whole"}, pc[w] = "writing", Leave(w),
             text' = [text EXCEPT ![fd[w]] = [text[fd[w]] EXCEPT ![Len(text[fd[w]])].is = x]]
      PROVE  LinesAreBegunInOrder'
  <2> DEFINE f == fd[w]
  <2>1. /\ f \in File
        /\ \A g \in File : g # f => text'[g] = text[g]
        /\ Len(text[f]) \in Nat \ {0} /\ Len(text'[f]) = Len(text[f])
        /\ text'[f][Len(text[f])].prev = text[f][Len(text[f])].prev
        /\ SameLines(text[f], text'[f], Len(text[f]) - 1)
    BY <1>5, EndsALine
  <2>2. InOrder(text[f])
    BY <1>0, <2>1 DEF LinesAreBegunInOrder
  <2>3. InOrder(text'[f])
    <3> DEFINE s == text[f]
               t == text'[f]
    <3>1. /\ Len(s) \in Nat /\ Len(t) = Len(s) /\ SameLines(s, t, Len(s) - 1)
          /\ t[Len(s)].prev = s[Len(s)].prev /\ InOrder(s)
      BY <2>1, <2>2
    <3> HIDE DEF s, t
    <3>2. InOrder(t)
      BY <3>1, InOrderEnded
    <3> QED BY <3>2 DEF t
  <2>4. \A v \in Writer : pc'[v] = "writing" => pc[v] = "writing" /\ fd'[v] = fd[v] /\ fd[v] # f
    BY <1>0, <1>5 DEF Leave, Goto, OneHolder, Holding, ChainTypeOK
  <2>5. \A v \in Writer : pc[v] = "writing" => fd[v] \in File
    BY <1>0, HolderHasAFile
  <2>6. \A v \in Writer : pc'[v] = "writing" => text'[fd'[v]] # << >>
    BY <1>0, <2>1, <2>4, <2>5 DEF LinesAreBegunInOrder
  <2>7. \A g \in File : InOrder(text'[g])
    BY <1>0, <2>1, <2>3 DEF LinesAreBegunInOrder
  <2> QED BY <2>6, <2>7 DEF LinesAreBegunInOrder
<1>6. ASSUME NEW w \in Writer, WriteRest(w) PROVE LinesAreBegunInOrder'
  <2>1. pc[w] = "writing" /\ Leave(w)
    BY <1>6 DEF WriteRest
  <2> QED BY <1>5, <1>6, <2>1, RestEndsALine
<1>7. ASSUME NEW w \in Writer, Fail(w) PROVE LinesAreBegunInOrder'
  <2>0. Leave(w)
    BY <1>7 DEF Fail
  <2>1. CASE text' = text
    <3>1. \A v \in Writer : pc'[v] = "writing" => pc[v] = "writing" /\ fd'[v] = fd[v]
      BY <1>0, <2>0 DEF Leave, Goto, ChainTypeOK
    <3> QED BY <1>1, <2>1, <3>1
  <2>2. CASE text' # text
    BY <1>5, <1>7, <2>0, <2>2, FailEndsALine
  <2> QED BY <2>1, <2>2
<1> QED BY <1>2, <1>3, <1>4, <1>6, <1>7 DEF ChainNext, AppendStep

\* Every step keeps the account of who raced a rotation.
LEMMA RacerStep ==
  ASSUME ChainInv, ChainNext
  PROVE  RacersAreNamed'
<1>0. ChainTypeOK /\ RacersAreNamed
  BY DEF ChainInv
<1> SUFFICES ASSUME NEW v \in Writer, pc'[v] \in {"ready", "writing"}, fd'[v] # path'
             PROVE  v \in racing'
  BY DEF RacersAreNamed
<1>1. CASE Rotate
  BY <1>0, <1>1 DEF Rotate, RacersAreNamed
<1>2. ASSUME NEW w \in Writer, AppendStep(w) \/ Fail(w) PROVE v \in racing'
  <2>1. CASE Open(w)
    \* A path that is taken keeps its file; a free one gets a file nobody holds.
    <3>1. pc[v] \in {"ready", "writing"} /\ fd'[v] = fd[v] /\ racing' = racing
      BY <1>0, <2>1 DEF Open, Goto, ChainTypeOK, histVars
    <3>2. fd[v] # path
      <4>1. CASE path = NoFile
        <5>1. fd[v] # NoFile
          BY <1>0, <3>1 DEF ChainTypeOK
        <5> QED BY <4>1, <5>1
      <4>2. CASE path # NoFile
        BY <2>1, <3>1, <4>2 DEF Open, fileVars
      <4> QED BY <4>1, <4>2
    <3> QED BY <1>0, <3>1, <3>2 DEF RacersAreNamed
  <2>2. CASE Lock(w) \/ Check(w) \/ WriteSome(w)
    BY <1>0, <2>2
    DEF Lock, Check, WriteSome, Goto, RacersAreNamed, ChainTypeOK, fileVars, histVars
  <2>3. CASE WriteRest(w) \/ Fail(w)
    <3>1. Leave(w)
      BY <2>3 DEF WriteRest, Fail
    <3> QED BY <1>0, <3>1 DEF Leave, Goto, RacersAreNamed, ChainTypeOK, fileVars
  <2> QED BY <1>2, <2>1, <2>2, <2>3 DEF AppendStep
<1> QED BY <1>1, <1>2 DEF ChainNext

-----------------------------------------------------------------------------
(* The theorems *)

\* The invariant holds in every state.
THEOREM ChainInvariant == ChainSpec => []ChainInv
<1>1. ChainInit => ChainInv
  <2> SUFFICES ASSUME ChainInit PROVE ChainInv
    OBVIOUS
  <2>1. \A f \in File : text[f] = << >> /\ Len(text[f]) = 0
    BY EmptySeq DEF ChainInit
  <2>2. text \in [File -> Seq(Line)]
    <3>1. << >> \in Seq(Line)
      BY EmptySeq
    <3> QED BY <3>1 DEF ChainInit
  <2>3. ChainTypeOK
    BY <2>2, ChainAssumption DEF ChainInit, ChainTypeOK, NoFile
  <2>4. LinesAreBegunInOrder
    BY <2>1 DEF ChainInit, LinesAreBegunInOrder, InOrder
  <2>5. OneHolder /\ TailIsKnown /\ RacersAreNamed
    BY DEF ChainInit, OneHolder, TailIsKnown, RacersAreNamed, Holding
  <2> QED BY <2>3, <2>4, <2>5 DEF ChainInv
<1>2. ChainInv /\ [ChainNext]_chainVars => ChainInv'
  <2>1. ASSUME ChainInv, ChainNext PROVE ChainInv'
    BY <2>1, TypeStep, HolderStep, TailStep, OrderStep, RacerStep DEF ChainInv
  <2>2. ASSUME ChainInv, UNCHANGED chainVars PROVE ChainInv'
    BY <2>2
    DEF chainVars, fileVars, histVars, ChainInv, ChainTypeOK, OneHolder, TailIsKnown,
        LinesAreBegunInOrder, RacersAreNamed
  <2> QED BY <2>1, <2>2
<1> QED BY <1>1, <1>2, PTL DEF ChainSpec

\* Every entry of a file names the one before it in the file, whatever failed or died in the
\* middle of a line (_log.py:234-236, 240).
THEOREM ChainsAreUnbroken == ChainSpec => []ChainUnbroken
<1>1. ChainInv => ChainUnbroken
  BY DEF ChainInv, LinesAreBegunInOrder, InOrder, ChainUnbroken
<1> QED BY <1>1, ChainInvariant, PTL

\* An entry begun in a file that is not the log is of a writer that had checked the file
\* before it was renamed away (_log.py:182-184).
THEOREM EntriesLandInTheLogOrRace == ChainSpec => EntriesLandInTheLog
<1> DEFINE Lands == \A f \in File : Len(text'[f]) > Len(text[f]) /\ f # path =>
                                      \E w \in racing : fd[w] = f
<1>1. ChainInv /\ [ChainNext]_chainVars => [Lands]_chainVars
  <2> SUFFICES ASSUME ChainInv, ChainNext, NEW f \in File,
                      Len(text'[f]) > Len(text[f]), f # path
               PROVE  \E w \in racing : fd[w] = f
    OBVIOUS
  <2>0. Len(text[f]) \in Nat
    <3>1. text[f] \in Seq(Line)
      BY DEF ChainInv, ChainTypeOK
    <3> QED BY <3>1, LenProperties
  <2>1. Len(text'[f]) # Len(text[f])
    BY <2>0
  <2>2. PICK w \in Writer : AppendStep(w) \/ Fail(w)
    BY <2>1 DEF ChainNext, Rotate
  <2>3. CASE WriteSome(w)
    <3>1. fd[w] = f
      BY <2>1, <2>3, BeginsALine
    <3>2. w \in racing
      BY <2>3, <3>1 DEF WriteSome, ChainInv, RacersAreNamed
    <3> QED BY <3>1, <3>2
  <2>4. CASE WriteRest(w)
    <3>1. Len(text'[fd[w]]) = Len(text[fd[w]]) /\ \A g \in File : g # fd[w] => text'[g] = text[g]
      BY <2>4, RestEndsALine, EndsALine DEF WriteRest
    <3> QED BY <2>1, <3>1
  <2>5. CASE Fail(w)
    <3>1. Len(text'[fd[w]]) = Len(text[fd[w]]) /\ \A g \in File : g # fd[w] => text'[g] = text[g]
      BY <2>1, <2>5, FailEndsALine, EndsALine
    <3> QED BY <2>1, <3>1
  <2>6. CASE Open(w) \/ Lock(w) \/ Check(w)
    BY <2>1, <2>6 DEF Open, Lock, Check
  <2> QED BY <2>2, <2>3, <2>4, <2>5, <2>6 DEF AppendStep
<1>2. ChainSpec => [][Lands]_chainVars
  BY <1>1, ChainInvariant, PTL DEF ChainSpec
<1> QED BY <1>2 DEF EntriesLandInTheLog

\* The tailer only reads: a log that is followed is one of ChainSpec.
THEOREM TailerOnlyReads == Spec => ChainSpec
<1>1. Init => ChainInit
  BY DEF Init
<1>2. [Next]_vars => [ChainNext]_chainVars
  <2>1. Cycle => UNCHANGED chainVars
    BY DEF Cycle, Begin, Appear, Take, Name, Drain, LookSame, LookOther, LastDrain, Turn,
           CompareLonger, CompareShorter
  <2>2. UNCHANGED vars => UNCHANGED chainVars
    BY DEF vars
  <2> QED BY <2>1, <2>2 DEF Next
<1> QED BY <1>1, <1>2, PTL DEF Spec, ChainSpec

-----------------------------------------------------------------------------
(* Lines are permanent: what the tailer relies on, beyond the chain *)

\* An entry is on one line of one file.
EntriesAreOnce ==
  \A f, g \in File : \A i \in 1 .. Len(text[f]) : \A j \in 1 .. Len(text[g]) :
    /\ text[f][i].entry <= begun
    /\ text[f][i].entry = text[g][j].entry => f = g /\ i = j

\* Only the last line of a file may still change, and a writer in the middle of one owns it.
OnlyTheLastIsOpen ==
  /\ \A f \in File : \A i \in 1 .. Len(text[f]) - 1 : IsComplete(text[f][i])
  /\ \A w \in Writer : pc[w] = "writing" => text[fd[w]][Len(text[fd[w]])].is = "part"

LinesInv == EntriesAreOnce /\ OnlyTheLastIsOpen

\* Line i of file f is finished in this step.
Finishes(f, i) == text'[f][i].is = "whole" /\ ~(i <= Len(text[f]) /\ IsComplete(text[f][i]))

\* What a step may do to a file: add a line, or end the last one.
LinesKept(f) ==
  /\ Len(text[f]) <= Len(text'[f])
  /\ \A i \in 1 .. Len(text[f]) :
       /\ text'[f][i].entry = text[f][i].entry
       /\ IsComplete(text[f][i]) => text'[f][i] = text[f][i]
  /\ \A i \in 1 .. Len(text'[f]) : Finishes(f, i) /\ f # path => text'[f][i].entry \in late'

\* Writer w ends its line, with the newline or without it.
EndsTheLine(w, x) ==
  /\ pc[w] = "writing"
  /\ text' = [text EXCEPT ![fd[w]] = [text[fd[w]] EXCEPT ![Len(text[fd[w]])].is = x]]
  /\ x = "whole" /\ fd[w] # path => text[fd[w]][Len(text[fd[w]])].entry \in late'

\* The files are sequences of lines.
LEMMA FileTypes ==
  ASSUME ChainTypeOK, NEW f \in File
  PROVE  /\ text[f] \in Seq(Line) /\ Len(text[f]) \in Nat
         /\ \A i \in 1 .. Len(text[f]) : text[f][i] \in Line
<1>1. text[f] \in Seq(Line)
  BY DEF ChainTypeOK
<1> QED BY <1>1, LenProperties, ElementOfSeq

\* The lines of a file after its last one was ended and a new one begun.
LEMMA BegunLines ==
  ASSUME NEW s \in Seq(Line), NEW l \in Line, NEW t, t = Append(EndLast(s), l)
  PROVE  /\ Len(s) \in Nat /\ Len(t) = Len(s) + 1 /\ t[Len(s) + 1] = l
         /\ \A i \in 1 .. Len(s) : t[i] = IF i = Len(s) THEN End(s[i]) ELSE s[i]
<1> DEFINE r == EndLast(s)
<1>1. Len(s) \in Nat /\ \A i \in 1 .. Len(s) : s[i] \in Line
  BY LenProperties, ElementOfSeq
<1>2. \A i \in 1 .. Len(s) : r[i] = IF i = Len(s) THEN End(s[i]) ELSE s[i]
  BY <1>1 DEF EndLast
<1>3. r \in [1 .. Len(s) -> Line]
  BY <1>1, EndKeeps DEF EndLast
<1>4. r \in Seq(Line) /\ Len(r) = Len(s)
  BY <1>1, <1>3, SeqDef, LenProperties
<1>5. t = Append(r, l)
  OBVIOUS
<1> HIDE DEF r
<1>6. Len(t) = Len(r) + 1 /\ t[Len(r) + 1] = l /\ \A i \in 1 .. Len(r) : t[i] = r[i]
  BY <1>4, <1>5, AppendProperties
<1> QED BY <1>1, <1>2, <1>4, <1>6

\* The lines of a file after its last one was changed.
LEMMA EndedLines ==
  ASSUME NEW s \in Seq(Line), s # << >>, NEW x \in {"bare", "whole"},
         NEW t, t = [s EXCEPT ![Len(s)].is = x]
  PROVE  /\ Len(s) \in Nat \ {0} /\ Len(t) = Len(s)
         /\ t[Len(s)] = [s[Len(s)] EXCEPT !.is = x]
         /\ \A i \in 1 .. Len(s) : i # Len(s) => t[i] = s[i]
<1>1. Len(s) \in Nat \ {0} /\ DOMAIN s = 1 .. Len(s)
  BY EmptySeq, LenProperties
<1>2. Len(t) = Len(s)
  BY ChangedLast
<1> QED BY <1>1, <1>2

\* A file that is left alone keeps its lines.
LEMMA UntouchedFile ==
  ASSUME ChainTypeOK, NEW f \in File, text'[f] = text[f]
  PROVE  LinesKept(f)
<1>1. Len(text[f]) \in Nat
  BY FileTypes
<1>2. ASSUME NEW i \in 1 .. Len(text[f]), Finishes(f, i) PROVE FALSE
  <2>1. text[f][i].is = "whole" /\ i <= Len(text[f])
    BY <1>1, <1>2 DEF Finishes
  <2>2. IsComplete(text[f][i])
    BY <2>1 DEF IsComplete
  <2> QED BY <1>2, <2>1, <2>2 DEF Finishes
<1> QED BY <1>1, <1>2 DEF LinesKept

\* What an append does to the lines of its file, and to no other.
LEMMA BeginKeepsLines ==
  ASSUME ChainInv, LinesInv, NEW w \in Writer, WriteSome(w)
  PROVE  /\ \A f \in File : LinesKept(f)
         /\ \A f \in File : f # fd[w] => text'[f] = text[f]
         /\ Len(text'[fd[w]]) = Len(text[fd[w]]) + 1
         /\ text'[fd[w]][Len(text[fd[w]]) + 1].entry = begun + 1
         /\ text'[fd[w]][Len(text[fd[w]]) + 1].is = "part"
         /\ \A i \in 1 .. Len(text[fd[w]]) : IsComplete(text'[fd[w]][i])
<1> DEFINE f == fd[w]
           s == text[f]
           t == text'[f]
           l == [entry |-> begun + 1, prev |-> prev[w], is |-> "part"]
<1>0. ChainTypeOK /\ f \in File
  BY HolderHasAFile DEF ChainInv, WriteSome
<1>1. begun + 1 \in Entry /\ prev[w] \in {NoEntry} \cup Entry
  BY <1>0, ChainAssumption DEF ChainTypeOK, WriteSome, Entry
<1>2. l \in Line
  BY <1>1 DEF Line
<1>3. s \in Seq(Line) /\ Len(s) \in Nat /\ \A i \in 1 .. Len(s) : s[i] \in Line
  BY <1>0, FileTypes
<1>4. t = Append(EndLast(s), l) /\ \A g \in File : g # f => text'[g] = text[g]
  BY <1>0 DEF WriteSome, ChainTypeOK
<1>5. /\ Len(t) = Len(s) + 1 /\ t[Len(s) + 1] = l
      /\ \A i \in 1 .. Len(s) : t[i] = IF i = Len(s) THEN End(s[i]) ELSE s[i]
  <2> HIDE DEF s, t, l
  <2> QED BY <1>2, <1>3, <1>4, BegunLines
<1>6. \A i \in 1 .. Len(s) : i # Len(s) => IsComplete(s[i])
  BY <1>0, <1>3 DEF LinesInv, OnlyTheLastIsOpen
<1>7. ASSUME NEW m \in Line
      PROVE  /\ End(m).entry = m.entry /\ IsComplete(End(m)) /\ (IsComplete(m) => End(m) = m)
             /\ (End(m).is = "whole" => m.is \in {"bare", "whole"})
  BY <1>7 DEF End, Line, IsComplete
<1>8. \A i \in 1 .. Len(s) : /\ t[i].entry = s[i].entry /\ IsComplete(t[i])
                             /\ IsComplete(s[i]) => t[i] = s[i]
                             /\ t[i].is = "whole" => s[i].is \in {"bare", "whole"}
  BY <1>3, <1>5, <1>6, <1>7
<1>9. \A i \in 1 .. Len(t) : Finishes(f, i) /\ f # path => t[i].entry \in late'
  <2> SUFFICES ASSUME NEW i \in 1 .. Len(t), Finishes(f, i), f # path PROVE t[i].entry \in late'
    OBVIOUS
  <2>0. t[i].is = "whole" /\ ~(i <= Len(s) /\ IsComplete(s[i]))
    BY DEF Finishes
  <2>1. i \in 1 .. Len(s)
    BY <1>3, <1>5, <2>0
  <2>4. s[i].is = "bare"
    BY <1>3, <1>8, <2>0, <2>1 DEF IsComplete
  <2>2. late' = late \cup {k.entry : k \in {m \in Elements(s) : m.is = "bare"}}
    BY DEF WriteSome
  <2>3. s[i] \in Elements(s)
    BY <2>1 DEF Elements
  <2> QED BY <1>8, <2>1, <2>2, <2>3, <2>4
<1>10. LinesKept(f)
  BY <1>3, <1>5, <1>8, <1>9 DEF LinesKept
<1>11. ASSUME NEW g \in File, g # f PROVE LinesKept(g)
  BY <1>0, <1>4, <1>11, UntouchedFile
<1> QED BY <1>4, <1>5, <1>8, <1>10, <1>11

\* So does the end of a write, or of one that fails with all but its newline.
LEMMA EndKeepsLines ==
  ASSUME ChainInv, LinesInv, NEW w \in Writer, pc[w] = "writing", NEW x \in {"bare", "whole"},
         text' = [text EXCEPT ![fd[w]] = [text[fd[w]] EXCEPT ![Len(text[fd[w]])].is = x]],
         x = "whole" /\ fd[w] # path => text[fd[w]][Len(text[fd[w]])].entry \in late'
  PROVE  /\ \A f \in File : LinesKept(f)
         /\ \A f \in File : /\ f # fd[w] => text'[f] = text[f]
                            /\ Len(text'[f]) = Len(text[f])
<1> DEFINE f == fd[w]
           s == text[f]
           t == text'[f]
<1>0. ChainTypeOK /\ f \in File
  BY HolderHasAFile DEF ChainInv
<1>1. s \in Seq(Line) /\ s # << >> /\ \A i \in 1 .. Len(s) : s[i] \in Line
  BY <1>0, FileTypes DEF ChainInv, LinesAreBegunInOrder
<1>2. t = [s EXCEPT ![Len(s)].is = x] /\ \A g \in File : g # f => text'[g] = text[g]
  BY <1>0 DEF ChainTypeOK
<1>3. /\ Len(s) \in Nat \ {0} /\ Len(t) = Len(s)
      /\ t[Len(s)] = [s[Len(s)] EXCEPT !.is = x]
      /\ \A i \in 1 .. Len(s) : i # Len(s) => t[i] = s[i]
  <2> HIDE DEF s, t
  <2> QED BY <1>1, <1>2, EndedLines
<1>4. s[Len(s)].is = "part"
  BY DEF LinesInv, OnlyTheLastIsOpen
<1>5. Len(s) \in 1 .. Len(s) /\ t[Len(s)].entry = s[Len(s)].entry /\ t[Len(s)].is = x
  BY <1>1, <1>3 DEF Line
<1>6. \A i \in 1 .. Len(s) : /\ t[i].entry = s[i].entry
                             /\ IsComplete(s[i]) => t[i] = s[i]
  BY <1>3, <1>4, <1>5 DEF IsComplete
<1>7. \A i \in 1 .. Len(t) : Finishes(f, i) /\ f # path => t[i].entry \in late'
  <2> SUFFICES ASSUME NEW i \in 1 .. Len(t), Finishes(f, i), f # path PROVE t[i].entry \in late'
    OBVIOUS
  <2>1. t[i].is = "whole" /\ i \in 1 .. Len(s) /\ ~IsComplete(s[i])
    BY <1>3 DEF Finishes
  <2>2. i = Len(s)
    BY <1>3, <2>1 DEF IsComplete
  <2>3. x = "whole"
    BY <1>5, <2>1, <2>2
  <2>4. s[Len(s)].entry \in late'
    BY <2>3
  <2> QED BY <1>5, <2>2, <2>4
<1>8. LinesKept(f)
  <2>1. Len(s) <= Len(t)
    BY <1>3
  <2> QED BY <1>6, <1>7, <2>1 DEF LinesKept
<1>9. ASSUME NEW g \in File, g # f PROVE LinesKept(g)
  BY <1>0, <1>2, <1>9, UntouchedFile
<1> QED BY <1>2, <1>3, <1>8, <1>9

\* The steps that end a line say where it is.
LEMMA EndingSteps ==
  ASSUME ChainInv, LinesInv, NEW w \in Writer
  PROVE  /\ WriteRest(w) => EndsTheLine(w, "whole")
         /\ Fail(w) /\ text' # text => EndsTheLine(w, "bare")
<1>1. ASSUME WriteRest(w) PROVE EndsTheLine(w, "whole")
  BY <1>1, RestEndsALine DEF WriteRest, EndsTheLine
<1>2. ASSUME Fail(w), text' # text PROVE EndsTheLine(w, "bare")
  BY <1>2, FailEndsALine DEF EndsTheLine
<1> QED BY <1>1, <1>2

\* Every step of the log keeps the lines of every file, and forgets nobody who was late.
LEMMA StepKeepsLines ==
  ASSUME ChainInv, LinesInv, ChainNext
  PROVE  (\A f \in File : LinesKept(f)) /\ late \subseteq late'
<1>0. ChainTypeOK
  BY DEF ChainInv
<1>1. ASSUME text' = text PROVE \A f \in File : LinesKept(f)
  BY <1>0, <1>1, UntouchedFile
<1>2. CASE Rotate
  BY <1>1, <1>2 DEF Rotate
<1>3. ASSUME NEW w \in Writer, Open(w) \/ Lock(w) \/ Check(w)
      PROVE  (\A f \in File : LinesKept(f)) /\ late \subseteq late'
  BY <1>1, <1>3 DEF Open, Lock, Check, histVars
<1>4. ASSUME NEW w \in Writer, WriteSome(w)
      PROVE  (\A f \in File : LinesKept(f)) /\ late \subseteq late'
  BY <1>4, BeginKeepsLines DEF WriteSome
<1>5. ASSUME NEW w \in Writer, WriteRest(w) \/ Fail(w)
      PROVE  (\A f \in File : LinesKept(f)) /\ late \subseteq late'
  <2>1. late \subseteq late'
    BY <1>5 DEF WriteRest, Fail
  <2>2. CASE text' = text
    BY <1>1, <2>1, <2>2
  <2>3. CASE text' # text
    BY <1>5, <2>1, <2>3, EndingSteps, EndKeepsLines DEF EndsTheLine
  <2> QED BY <2>2, <2>3
<1> QED BY <1>2, <1>3, <1>4, <1>5 DEF ChainNext, AppendStep

\* Entries stay on one line each when no line is added.
LEMMA OnceKept ==
  ASSUME ChainInv, LinesInv, UNCHANGED begun, \A f \in File : LinesKept(f),
         \A f \in File : Len(text'[f]) = Len(text[f])
  PROVE  EntriesAreOnce'
<1>1. \A f \in File : \A i \in 1 .. Len(text'[f]) :
        i \in 1 .. Len(text[f]) /\ text'[f][i].entry = text[f][i].entry
  BY DEF LinesKept
<1> QED BY <1>1 DEF EntriesAreOnce, LinesInv

\* Every step of the log keeps entries on one line each, and lines closed but the last.
LEMMA LinesStep ==
  ASSUME ChainInv, LinesInv, ChainNext
  PROVE  LinesInv'
<1>0. ChainTypeOK /\ OneHolder /\ EntriesAreOnce /\ OnlyTheLastIsOpen
  BY DEF ChainInv, LinesInv
<1>1. ASSUME text' = text, begun' = begun,
             \A v \in Writer : pc'[v] = "writing" => pc[v] = "writing" /\ fd'[v] = fd[v]
      PROVE  LinesInv'
  BY <1>0, <1>1 DEF LinesInv, EntriesAreOnce, OnlyTheLastIsOpen
<1>2. CASE Rotate
  BY <1>1, <1>2 DEF Rotate
<1>3. ASSUME NEW w \in Writer, Open(w) \/ Lock(w) \/ Check(w) PROVE LinesInv'
  <2>1. \A v \in Writer : pc'[v] = "writing" => pc[v] = "writing" /\ fd'[v] = fd[v]
    BY <1>0, <1>3 DEF Open, Lock, Check, Goto, ChainTypeOK
  <2> QED BY <1>1, <1>3, <2>1 DEF Open, Lock, Check
<1>4. ASSUME NEW w \in Writer, WriteSome(w) PROVE LinesInv'
  <2> DEFINE f == fd[w]
             n == Len(text[f])
  <2>0. f \in File /\ n \in Nat
    BY <1>0, <1>4, HolderHasAFile, FileTypes DEF WriteSome
  <2>1. /\ \A g \in File : LinesKept(g)
        /\ \A g \in File : g # f => text'[g] = text[g]
        /\ Len(text'[f]) = n + 1
        /\ text'[f][n + 1].entry = begun + 1 /\ text'[f][n + 1].is = "part"
        /\ \A i \in 1 .. n : IsComplete(text'[f][i])
    BY <1>4, BeginKeepsLines
  <2>2. \A g \in File : \A i \in 1 .. Len(text'[g]) :
          \/ i \in 1 .. Len(text[g]) /\ text'[g][i].entry = text[g][i].entry
          \/ g = f /\ i = n + 1 /\ text'[g][i].entry = begun + 1
    BY <2>0, <2>1 DEF LinesKept
  <2>3. begun' = begun + 1 /\ begun \in Nat
    BY <1>0, <1>4, ChainAssumption DEF WriteSome, ChainTypeOK
  <2>4. \A g \in File : \A i \in 1 .. Len(text[g]) :
          text[g][i].entry <= begun /\ text[g][i].entry \in Int
    <3> SUFFICES ASSUME NEW g \in File, NEW i \in 1 .. Len(text[g])
                 PROVE  text[g][i].entry <= begun /\ text[g][i].entry \in Int
      OBVIOUS
    <3>1. text[g][i].entry \in Entry
      BY <1>0, LinesHaveEntries
    <3> QED BY <1>0, <3>1 DEF EntriesAreOnce, Entry
  <2>5. EntriesAreOnce'
    <3> SUFFICES ASSUME NEW g \in File, NEW h \in File,
                        NEW i \in 1 .. Len(text'[g]), NEW j \in 1 .. Len(text'[h])
                 PROVE  /\ text'[g][i].entry <= begun'
                        /\ text'[g][i].entry = text'[h][j].entry => g = h /\ i = j
      BY DEF EntriesAreOnce
    <3>1. CASE i \in 1 .. Len(text[g]) /\ text'[g][i].entry = text[g][i].entry
      <4>1. CASE j \in 1 .. Len(text[h]) /\ text'[h][j].entry = text[h][j].entry
        <5>1. text[g][i].entry <= begun /\ text[g][i].entry \in Int
          BY <2>4, <3>1
        <5>2. text[g][i].entry = text[h][j].entry => g = h /\ i = j
          BY <1>0, <3>1, <4>1 DEF EntriesAreOnce
        <5> QED BY <2>3, <3>1, <4>1, <5>1, <5>2
      <4>2. CASE text'[h][j].entry = begun + 1
        BY <2>3, <2>4, <3>1, <4>2
      <4> QED BY <2>2, <4>1, <4>2
    <3>2. CASE g = f /\ i = n + 1 /\ text'[g][i].entry = begun + 1
      <4>1. CASE j \in 1 .. Len(text[h]) /\ text'[h][j].entry = text[h][j].entry
        BY <2>3, <2>4, <3>2, <4>1
      <4>2. CASE h = f /\ j = n + 1 /\ text'[h][j].entry = begun + 1
        BY <2>3, <3>2, <4>2
      <4> QED BY <2>2, <4>1, <4>2
    <3> QED BY <2>2, <3>1, <3>2
  <2>6. \A v \in Writer : pc'[v] = "writing" => v = w \/ (pc[v] = "writing" /\ fd[v] # f)
    BY <1>0, <1>4 DEF WriteSome, Goto, OneHolder, Holding, ChainTypeOK
  <2>7. OnlyTheLastIsOpen'
    <3>1. \A g \in File : \A i \in 1 .. Len(text'[g]) - 1 : IsComplete(text'[g][i])
      BY <1>0, <2>0, <2>1 DEF OnlyTheLastIsOpen
    <3>2. \A v \in Writer : pc[v] = "writing" => fd[v] \in File
      BY <1>0, HolderHasAFile
    <3>3. ASSUME NEW v \in Writer, pc'[v] = "writing"
          PROVE  text'[fd'[v]][Len(text'[fd'[v]])].is = "part"
      <4>1. fd' = fd
        BY <1>4 DEF WriteSome
      <4>2. CASE v = w
        BY <2>1, <4>1, <4>2
      <4>3. CASE v # w
        BY <1>0, <2>1, <2>6, <3>2, <3>3, <4>1, <4>3 DEF OnlyTheLastIsOpen
      <4> QED BY <4>2, <4>3
    <3> QED BY <3>1, <3>3 DEF OnlyTheLastIsOpen
  <2> QED BY <2>5, <2>7 DEF LinesInv
<1>5. ASSUME NEW w \in Writer, WriteRest(w) \/ Fail(w) PROVE LinesInv'
  <2>0. Leave(w)
    BY <1>5 DEF WriteRest, Fail
  <2>1. begun' = begun /\ \A v \in Writer : pc'[v] = "writing" =>
                            v # w /\ pc[v] = "writing" /\ fd'[v] = fd[v]
    BY <1>0, <2>0 DEF Leave, Goto, ChainTypeOK
  <2>2. CASE text' = text
    BY <1>1, <2>1, <2>2
  <2>3. CASE text' # text
    <3>1. PICK x \in {"bare", "whole"} : EndsTheLine(w, x)
      BY <1>5, <2>3, EndingSteps
    <3>2. /\ \A f \in File : LinesKept(f)
          /\ \A f \in File : (f # fd[w] => text'[f] = text[f]) /\ Len(text'[f]) = Len(text[f])
      BY <3>1, EndKeepsLines DEF EndsTheLine
    <3>3. EntriesAreOnce'
      BY <2>1, <3>2, OnceKept
    <3>4. \A f \in File : \A i \in 1 .. Len(text'[f]) - 1 : IsComplete(text'[f][i])
      <4> SUFFICES ASSUME NEW f \in File, NEW i \in 1 .. Len(text[f]) - 1
                   PROVE  IsComplete(text'[f][i])
        BY <3>2
      <4>1. IsComplete(text[f][i]) /\ i \in 1 .. Len(text[f])
        BY <1>0, FileTypes DEF OnlyTheLastIsOpen
      <4> QED BY <3>2, <4>1 DEF LinesKept
    <3>5. \A v \in Writer : pc'[v] = "writing" => fd[v] \in File /\ fd[v] # fd[w]
      <4>1. pc[w] = "writing"
        BY <3>1 DEF EndsTheLine
      <4> QED BY <1>0, <2>1, <4>1, HolderHasAFile DEF OneHolder, Holding
    <3>6. \A v \in Writer : pc'[v] = "writing" => text'[fd'[v]][Len(text'[fd'[v]])].is = "part"
      BY <1>0, <2>1, <3>2, <3>5 DEF OnlyTheLastIsOpen
    <3> QED BY <3>3, <3>4, <3>6 DEF LinesInv, OnlyTheLastIsOpen
  <2> QED BY <2>2, <2>3
<1> QED BY <1>2, <1>3, <1>4, <1>5 DEF ChainNext, AppendStep

\* An entry is on one line of one file, for good, and only the last line of a file is open.
THEOREM LinesArePermanent == ChainSpec => []LinesInv
<1>1. ChainInit => LinesInv
  <2>1. ChainInit => \A f \in File : Len(text[f]) = 0
    BY EmptySeq DEF ChainInit
  <2> QED BY <2>1 DEF ChainInit, LinesInv, EntriesAreOnce, OnlyTheLastIsOpen
<1>2. ChainInv /\ LinesInv /\ [ChainNext]_chainVars => LinesInv'
  <2>1. ASSUME ChainInv, LinesInv, ChainNext PROVE LinesInv'
    BY <2>1, LinesStep
  <2>2. ASSUME LinesInv, UNCHANGED chainVars PROVE LinesInv'
    BY <2>2 DEF chainVars, fileVars, LinesInv, EntriesAreOnce, OnlyTheLastIsOpen
  <2> QED BY <2>1, <2>2
<1> QED BY <1>1, <1>2, ChainInvariant, PTL DEF ChainSpec

-----------------------------------------------------------------------------
(* The tailer *)

\* The tailer has read line i of file f.
ReadFrom(f, i) ==
  f \in opened /\ i \in 1 .. Len(text[f]) /\ IsComplete(text[f][i]) /\ (f = fh => i <= off)

\* What it has consumed of its file is complete lines, and the chain walk expects the last
\* entry among them.
PlaceInFile ==
  /\ fpc \in {"naming", "drained", "turning", "closed", "compare"} => fh # NoFile
  /\ fpc = "start" => fh = NoFile
  /\ fh = NoFile => off = 0 /\ walk = NoEntry
  /\ fh # NoFile => /\ fh \in opened /\ off <= Len(text[fh])
                    /\ \A i \in 1 .. off : IsComplete(text[fh][i])
                    /\ LastEntry(text[fh], off, walk)

\* A file once opened is the log only while it is still read; one that is turned away from
\* is not the log any more.
FilesBehind ==
  /\ \A f \in opened : f <= made /\ (f # path \/ f = fh)
  /\ fpc \in {"poll", "drained", "compare"} /\ fh # NoFile => identity = fh \/ fh # path
  /\ fpc \in {"turning", "closed"} => fh # path

\* What is exported has been read.
ExportedWasRead ==
  \A e \in exported : \E f \in File : \E i \in 1 .. Len(text[f]) :
    ReadFrom(f, i) /\ text[f][i].entry = e

\* Every entry finished in a file that the tailer has read to its end and not cut, and that
\* was the log when it was finished, is exported.
NoneIsMissed ==
  \A f \in opened \ cut : \A i \in 1 .. Len(text[f]) :
    /\ text[f][i].is = "whole" /\ text[f][i].entry \notin late
    /\ f = fh => i <= off \/ fpc = "closed"
    => text[f][i].entry \in exported

TailInv ==
  /\ TypeOK /\ PlaceInFile /\ FilesBehind /\ ExportedWasRead /\ ExportIsFaithful /\ NoneIsMissed

\* In a file in order, some entry is the last one among the first n lines.
LEMMA LastEntryExists ==
  ASSUME NEW s, NEW n \in Nat, n <= Len(s), Len(s) \in Nat, InOrder(s)
  PROVE  \E e : LastEntry(s, n, e)
<1>1. CASE n = 0
  BY <1>1 DEF LastEntry
<1>2. CASE n # 0 /\ IsJson(s[n])
  <2>1. n \in 1 .. n /\ \A k \in n + 1 .. n : ~IsJson(s[k])
    BY <1>2
  <2> QED BY <1>2, <2>1 DEF LastEntry
<1>3. CASE n # 0 /\ ~IsJson(s[n])
  <2>1. LastEntry(s, n - 1, s[n].prev)
    BY <1>3 DEF InOrder
  <2>2. CASE s[n].prev = NoEntry /\ \A j \in 1 .. n - 1 : ~IsJson(s[j])
    <3>1. \A j \in 1 .. n : ~IsJson(s[j])
      BY <1>3, <2>2
    <3> QED BY <2>2, <3>1 DEF LastEntry
  <2>3. CASE \E j \in 1 .. n - 1 : /\ IsJson(s[j]) /\ s[j].entry = s[n].prev
                                   /\ \A k \in j + 1 .. n - 1 : ~IsJson(s[k])
    <3>1. PICK j \in 1 .. n - 1 : /\ IsJson(s[j]) /\ s[j].entry = s[n].prev
                                  /\ \A k \in j + 1 .. n - 1 : ~IsJson(s[k])
      BY <2>3
    <3>2. j \in 1 .. n /\ \A k \in j + 1 .. n : ~IsJson(s[k])
      BY <1>3, <3>1
    <3> QED BY <3>1, <3>2 DEF LastEntry
  <2> QED BY <2>1, <2>2, <2>3 DEF LastEntry
<1> QED BY <1>1, <1>2, <1>3

\* It is one entry.
LEMMA LastEntryUnique ==
  ASSUME NEW s, NEW n \in Nat, \A j \in 1 .. n : s[j].entry \in Entry,
         NEW d, LastEntry(s, n, d), NEW e, LastEntry(s, n, e)
  PROVE  d = e
<1>1. CASE \A j \in 1 .. n : ~IsJson(s[j])
  BY <1>1 DEF LastEntry
<1>2. CASE \E j \in 1 .. n : IsJson(s[j])
  <2>1. PICK i \in 1 .. n : IsJson(s[i]) /\ s[i].entry = d /\ \A k \in i + 1 .. n : ~IsJson(s[k])
    BY <1>2 DEF LastEntry
  <2>2. PICK j \in 1 .. n : IsJson(s[j]) /\ s[j].entry = e /\ \A k \in j + 1 .. n : ~IsJson(s[k])
    BY <1>2 DEF LastEntry
  <2>3. i = j
    <3>1. ~(i < j) /\ ~(j < i)
      BY <2>1, <2>2
    <3> QED BY <3>1
  <2> QED BY <2>1, <2>2, <2>3
<1> QED BY <1>1, <1>2

\* The lines that can be read are the next ones, up to line k.
LEMMA ReadableLines ==
  ASSUME TypeOK, LinesInv, fh \in File, off <= Len(text[fh])
  PROVE  \E k \in off .. Len(text[fh]) :
           /\ Readable = off + 1 .. k /\ off + Cardinality(Readable) = k
           /\ \A i \in off + 1 .. k : IsComplete(text[fh][i])
           /\ \A i \in k + 1 .. Len(text[fh]) : ~IsComplete(text[fh][i])
<1> DEFINE s == text[fh]
           n == Len(s)
<1>1. n \in Nat /\ off \in Nat /\ \A i \in 1 .. n - 1 : IsComplete(s[i])
  BY FileTypes DEF TypeOK, LinesInv, OnlyTheLastIsOpen
<1>2. \A k \in off .. n : Cardinality(off + 1 .. k) = k - off
  <2> SUFFICES ASSUME NEW k \in off .. n PROVE Cardinality(off + 1 .. k) = k - off
    OBVIOUS
  <2> DEFINE a == off + 1
  <2>1. a \in Int /\ k \in Int
    BY <1>1
  <2>2. (a > k => k - off = 0) /\ k - off = IF a > k THEN 0 ELSE k - a + 1
    BY <1>1
  <2> HIDE DEF a
  <2>3. Cardinality(a .. k) = IF a > k THEN 0 ELSE k - a + 1
    BY <2>1, FS_Interval
  <2>4. Cardinality(a .. k) = k - off
    BY <2>2, <2>3
  <2> QED BY <2>4 DEF a
<1>3. ASSUME NEW k \in off .. n, Readable = off + 1 .. k
      PROVE  /\ off + Cardinality(Readable) = k
             /\ \A i \in off + 1 .. k : IsComplete(s[i])
             /\ \A i \in k + 1 .. n : ~IsComplete(s[i])
  <2>1. off + Cardinality(Readable) = k
    BY <1>1, <1>2, <1>3
  <2>2. \A i \in off + 1 .. n : IsComplete(s[i]) <=> i \in off + 1 .. k
    BY <1>3 DEF Readable
  <2> QED BY <1>1, <2>1, <2>2
<1>4. CASE off = n \/ IsComplete(s[n])
  <2>1. Readable = off + 1 .. n
    BY <1>1, <1>4 DEF Readable
  <2>2. n \in off .. n
    BY <1>1
  <2> QED BY <1>3, <2>1, <2>2
<1>5. CASE off # n /\ ~IsComplete(s[n])
  <2>1. Readable = off + 1 .. n - 1 /\ n - 1 \in off .. n
    BY <1>1, <1>5 DEF Readable
  <2> QED BY <1>3, <2>1
<1> QED BY <1>4, <1>5

\* The chain walk that came to line i expects the last entry before it.
LEMMA ExpectedIsLast ==
  ASSUME NEW k \in Nat, off \in Nat, off <= k, Readable = off + 1 .. k,
         \E e : LastEntry(text[fh], k, e), LastEntry(text[fh], off, walk),
         NEW i \in Nat, NEW m \in off .. k, i > m, m = k \/ i = m + 1,
         \E e : LastEntry(text[fh], m, e)
  PROVE  LastEntry(text[fh], m, Expected(walk, i))
<1> DEFINE s == text[fh]
           before == {j \in Rendered : j < i}
<1>1. before = {j \in off + 1 .. m : IsJson(s[j])}
  BY DEF Rendered
<1>2. CASE before = {}
  <2>1. \A j \in off + 1 .. m : ~IsJson(s[j])
    BY <1>1, <1>2
  <2>2. Expected(walk, i) = walk
    BY <1>2 DEF Expected
  <2>3. CASE walk = NoEntry /\ \A j \in 1 .. off : ~IsJson(s[j])
    <3>1. \A j \in 1 .. m : ~IsJson(s[j])
      BY <2>1, <2>3
    <3> QED BY <2>2, <2>3, <3>1 DEF LastEntry
  <2>4. CASE \E j \in 1 .. off : /\ IsJson(s[j]) /\ s[j].entry = walk
                                 /\ \A l \in j + 1 .. off : ~IsJson(s[l])
    <3>1. PICK j \in 1 .. off : /\ IsJson(s[j]) /\ s[j].entry = walk
                                /\ \A l \in j + 1 .. off : ~IsJson(s[l])
      BY <2>4
    <3>2. j \in 1 .. m /\ \A l \in j + 1 .. m : ~IsJson(s[l])
      BY <2>1, <3>1
    <3> QED BY <2>2, <3>1, <3>2 DEF LastEntry
  <2> QED BY <2>3, <2>4 DEF LastEntry
<1>3. CASE before # {}
  <2>1. PICK e : LastEntry(s, m, e)
    OBVIOUS
  <2>2. PICK b \in before : TRUE
    BY <1>3
  <2>3. b \in 1 .. m /\ IsJson(s[b])
    BY <1>1, <2>2
  <2>4. PICK j \in 1 .. m : IsJson(s[j]) /\ s[j].entry = e /\ \A l \in j + 1 .. m : ~IsJson(s[l])
    BY <2>1, <2>3 DEF LastEntry
  <2>5. \A l \in before : l <= j
    BY <1>1, <2>4
  <2>6. j \in before
    BY <1>1, <2>2, <2>4, <2>5
  <2> DEFINE c == CHOOSE d \in before : \A l \in before : l <= d
  <2>7. c \in before /\ \A l \in before : l <= c
    BY <2>5, <2>6
  <2>8. c = j
    BY <1>1, <2>5, <2>6, <2>7
  <2>9. Expected(walk, i) = s[c].entry
    BY <1>3 DEF Expected
  <2> QED BY <2>4, <2>8, <2>9 DEF LastEntry
<1> QED BY <1>2, <1>3

\* What a batch does: the lines are the next ones, none of them was rendered before, each
\* names the entry the walk expects, and the walk ends at the last one.
LEMMA BatchIsRight ==
  ASSUME ChainInv, LinesInv, TailInv, fh # NoFile, Consume(walk)
  PROVE  /\ off' \in off .. Len(text[fh])
         /\ \A i \in off + 1 .. off' : IsComplete(text[fh][i])
         /\ \A i \in off' + 1 .. Len(text[fh]) : ~IsComplete(text[fh][i])
         /\ LastEntry(text[fh], off', walk')
         /\ exported' = exported \cup
              {text[fh][i].entry : i \in {j \in off + 1 .. off' : IsJson(text[fh][j])}}
         /\ ~alarm' /\ ~again'
<1> DEFINE s == text[fh]
           n == Len(s)
<1>0. fh \in File /\ off <= n /\ TypeOK /\ off \in Nat /\ LastEntry(s, off, walk)
  BY DEF TailInv, PlaceInFile, TypeOK
<1>1. n \in Nat /\ \A i \in 1 .. n : s[i] \in Line /\ s[i].entry \in Entry
  BY <1>0, FileTypes, LinesHaveEntries DEF TypeOK
<1>2. InOrder(s)
  BY <1>0 DEF ChainInv, LinesAreBegunInOrder
<1>3. PICK k \in off .. n :
        /\ Readable = off + 1 .. k /\ off + Cardinality(Readable) = k
        /\ \A i \in off + 1 .. k : IsComplete(s[i])
        /\ \A i \in k + 1 .. n : ~IsComplete(s[i])
  BY <1>0, ReadableLines
<1>4. off' = k /\ k \in Nat
  BY <1>0, <1>1, <1>3 DEF Consume
<1>5. \A m \in 0 .. n : \E e : LastEntry(s, m, e)
  BY <1>1, <1>2, LastEntryExists
<1>6. Rendered = {j \in off + 1 .. k : IsJson(s[j])}
  BY <1>3 DEF Rendered
<1>7. LastEntry(s, k, walk')
  <2>1. walk' = Expected(walk, n + 1)
    BY DEF Consume
  <2>2. /\ n + 1 \in Nat /\ k \in off .. k /\ n + 1 > k
        /\ (\E e : LastEntry(s, k, e))
    BY <1>0, <1>1, <1>3, <1>4, <1>5
  <2>3. LastEntry(s, k, Expected(walk, n + 1))
    BY <1>0, <1>3, <1>4, <2>2, ExpectedIsLast
  <2> QED BY <2>1, <2>3
<1>8. \A i \in Rendered : s[i].prev = Expected(walk, i)
  <2> SUFFICES ASSUME NEW i \in off + 1 .. k PROVE s[i].prev = Expected(walk, i)
    BY <1>6
  <2>1. /\ i \in 1 .. n /\ i - 1 \in off .. k /\ i - 1 \in Nat /\ i \in Nat /\ i > i - 1
        /\ i = (i - 1) + 1 /\ (\E e : LastEntry(s, i - 1, e)) /\ (\E e : LastEntry(s, k, e))
    BY <1>0, <1>1, <1>3, <1>4, <1>5
  <2>2. LastEntry(s, i - 1, Expected(walk, i))
    BY <1>0, <1>3, <1>4, <2>1, ExpectedIsLast
  <2>3. LastEntry(s, i - 1, s[i].prev)
    BY <1>2, <2>1 DEF InOrder
  <2>4. \A j \in 1 .. i - 1 : s[j].entry \in Entry
    BY <1>1, <2>1
  <2> DEFINE m == i - 1
             d == Expected(walk, i)
             e == s[i].prev
  <2>5. m \in Nat /\ LastEntry(s, m, d) /\ LastEntry(s, m, e) /\ \A j \in 1 .. m : s[j].entry \in Entry
    BY <2>1, <2>2, <2>3, <2>4
  <2> HIDE DEF s, m, d, e
  <2>6. d = e
    BY <2>5, LastEntryUnique
  <2> QED BY <2>6 DEF d, e
<1>9. \A i \in Rendered : s[i].entry \notin exported
  <2> SUFFICES ASSUME NEW i \in off + 1 .. k, s[i].entry \in exported PROVE FALSE
    BY <1>6
  <2>1. PICK f \in File : \E j \in 1 .. Len(text[f]) : ReadFrom(f, j) /\ text[f][j].entry = s[i].entry
    BY DEF TailInv, ExportedWasRead
  <2>2. PICK j \in 1 .. Len(text[f]) : ReadFrom(f, j) /\ text[f][j].entry = s[i].entry
    BY <2>1
  <2>3. i \in 1 .. n
    BY <1>0, <1>1, <1>3
  <2>4. f = fh /\ j = i
    BY <1>0, <2>2, <2>3 DEF LinesInv, EntriesAreOnce
  <2> QED BY <1>0, <2>2, <2>4 DEF ReadFrom
<1>10. ~alarm' /\ ~again'
  BY <1>8, <1>9 DEF TailInv, ExportIsFaithful, Consume
<1>11. exported' = exported \cup {s[i].entry : i \in {j \in off + 1 .. k : IsJson(s[j])}}
  BY <1>6 DEF Consume
<1> QED BY <1>3, <1>4, <1>7, <1>10, <1>11

\* A batch keeps the invariant, whether the file is left after it or not.
LEMMA BatchStep ==
  ASSUME ChainInv, LinesInv, TailInv, Drain \/ LastDrain
  PROVE  TailInv'
<1> DEFINE s == text[fh]
           n == Len(s)
           new == {j \in off + 1 .. off' : IsJson(s[j])}
<1>0. /\ TypeOK /\ PlaceInFile /\ FilesBehind /\ ExportedWasRead /\ NoneIsMissed /\ fh # NoFile
      /\ Consume(walk)
  BY DEF TailInv, PlaceInFile, Drain, LastDrain
<1>1. /\ off' \in off .. n
      /\ \A i \in off + 1 .. off' : IsComplete(s[i])
      /\ \A i \in off' + 1 .. n : ~IsComplete(s[i])
      /\ LastEntry(s, off', walk')
      /\ exported' = exported \cup {s[i].entry : i \in new}
      /\ ~alarm' /\ ~again'
  BY <1>0, BatchIsRight
<1>2. fh \in opened /\ fh \in File /\ off \in Nat /\ n \in Nat
  BY <1>0, FileTypes DEF PlaceInFile, TypeOK
<1>3. UNCHANGED <<chainVars, nameVars>> /\ fpc' \in {"drained", "closed"}
  BY DEF Drain, LastDrain
<1>4. new \subseteq 1 .. n /\ \A i \in new : s[i].entry \in Entry
  <2>1. new \subseteq 1 .. n
    BY <1>1, <1>2
  <2>2. \A i \in new : s[i].entry \in Entry
    BY <1>0, <1>2, <2>1, LinesHaveEntries DEF TypeOK
  <2> QED BY <2>1, <2>2
<1>5. TypeOK'
  <2>1. ChainTypeOK'
    BY <1>0, <1>3 DEF TypeOK, ChainTypeOK, chainVars, fileVars, histVars
  <2>2. walk' \in {NoEntry} \cup Entry
    <3>1. \A i \in 1 .. off' : s[i].entry \in Entry
      BY <1>0, <1>1, <1>2, LinesHaveEntries DEF TypeOK
    <3> QED BY <1>1, <3>1 DEF LastEntry
  <2>3. told' \in BOOLEAN
    BY <1>0 DEF Consume
  <2>4. exported' \subseteq Entry
    BY <1>0, <1>1, <1>4 DEF TypeOK
  <2>5. {alarm', again'} \subseteq BOOLEAN
    BY <1>0 DEF TypeOK, Consume
  <2> QED BY <1>0, <1>1, <1>2, <1>3, <2>1, <2>2, <2>3, <2>4, <2>5 DEF TypeOK, nameVars
<1>6. PlaceInFile'
  BY <1>0, <1>1, <1>2, <1>3 DEF PlaceInFile, chainVars, nameVars
<1>7. FilesBehind'
  BY <1>0, <1>3 DEF FilesBehind, chainVars, fileVars, nameVars, Drain, LastDrain
<1>8. ExportedWasRead'
  <2>1. ASSUME NEW f \in File, NEW i \in 1 .. Len(text[f]), ReadFrom(f, i) PROVE ReadFrom(f, i)'
    BY <1>1, <1>2, <1>3, <2>1 DEF ReadFrom, chainVars, nameVars
  <2>2. ASSUME NEW f \in File, f = fh, NEW i \in new PROVE i \in 1 .. Len(text[f]) /\ ReadFrom(f, i)'
    BY <1>1, <1>2, <1>3, <1>4, <2>2 DEF ReadFrom, chainVars, nameVars
  <2>3. text' = text
    BY <1>3 DEF chainVars
  <2> SUFFICES ASSUME NEW e \in exported'
               PROVE  \E f \in File : \E i \in 1 .. Len(text[f]) : ReadFrom(f, i)' /\ text[f][i].entry = e
    BY <2>3 DEF ExportedWasRead
  <2>4. CASE e \in exported
    BY <1>0, <2>1, <2>4 DEF ExportedWasRead
  <2>5. CASE e \in {s[i].entry : i \in new}
    <3>1. PICK f \in File : f = fh
      BY <1>2
    <3>2. PICK i \in new : e = text[f][i].entry
      BY <2>5, <3>1
    <3>3. i \in 1 .. Len(text[f]) /\ ReadFrom(f, i)'
      BY <2>2, <3>1
    <3> QED BY <3>2, <3>3
  <2> QED BY <1>1, <2>4, <2>5
<1>9. NoneIsMissed'
  <2>1. text' = text /\ late' = late /\ opened' = opened /\ cut' = cut /\ fh' = fh
    BY <1>3 DEF chainVars, histVars, nameVars
  <2> SUFFICES ASSUME NEW f \in opened \ cut, NEW i \in 1 .. Len(text[f]),
                      text[f][i].is = "whole", text[f][i].entry \notin late,
                      f = fh => i <= off' \/ fpc' = "closed"
               PROVE  text[f][i].entry \in exported'
    BY <2>1 DEF NoneIsMissed
  <2>2. CASE f # fh \/ i <= off
    BY <1>0, <1>1, <2>2 DEF NoneIsMissed
  <2>3. CASE f = fh /\ ~(i <= off)
    <3>1. IsComplete(s[i]) /\ IsJson(s[i]) /\ i \in off + 1 .. n
      BY <1>2, <2>3 DEF IsComplete, IsJson
    <3>2. i \in off + 1 .. off'
      BY <1>1, <1>2, <3>1
    <3> QED BY <1>1, <2>3, <3>1, <3>2
  <2> QED BY <2>2, <2>3
<1> QED BY <1>1, <1>5, <1>6, <1>7, <1>8, <1>9 DEF TailInv, ExportIsFaithful

\* So does opening what the path names, and the chain walk with it if a file was left.
LEMMA TakeStep ==
  ASSUME TailInv, Begin \/ Appear \/ Turn
  PROVE  TailInv'
<1>0. /\ TypeOK /\ PlaceInFile /\ FilesBehind /\ ExportedWasRead /\ NoneIsMissed
      /\ Take /\ walk' = NoEntry
  BY DEF TailInv, PlaceInFile, Begin, Appear, Turn
<1>1. /\ fh' = path /\ opened' = opened \cup ({path} \ {NoFile}) /\ off' = 0
      /\ UNCHANGED <<chainVars, identity, cut, exported, alarm, again>>
      /\ fpc' = IF path = NoFile THEN "poll" ELSE "naming"
      /\ told' = FALSE
  BY <1>0 DEF Take
<1>2. /\ text' = text /\ path' = path /\ made' = made /\ late' = late
      /\ path \in {NoFile} \cup File /\ path <= made
  BY <1>0, <1>1 DEF chainVars, fileVars, histVars, TypeOK, ChainTypeOK
<1>3. path \notin opened
  BY <1>0, EntryNotNone DEF FilesBehind, TypeOK, PlaceInFile, Begin, Appear, Turn
<1>4. TypeOK'
  <2>1. ChainTypeOK'
    BY <1>0, <1>1 DEF TypeOK, ChainTypeOK, chainVars, fileVars, histVars
  <2> QED BY <1>0, <1>1, <1>2, <2>1 DEF TypeOK
<1>5. PlaceInFile'
  <2>1. path # NoFile => 0 <= Len(text[path]) /\ LastEntry(text[path], 0, NoEntry)
    BY <1>0, <1>2, FileTypes DEF LastEntry, TypeOK
  <2> QED BY <1>0, <1>1, <1>2, <2>1, EntryNotNone DEF PlaceInFile
<1>6. FilesBehind'
  BY <1>0, <1>1, <1>2, <1>3 DEF FilesBehind
<1>7. ExportedWasRead'
  <2>1. ASSUME NEW f \in File, NEW i \in 1 .. Len(text[f]), ReadFrom(f, i) PROVE ReadFrom(f, i)'
    BY <1>1, <1>2, <1>3, <2>1 DEF ReadFrom
  <2> QED BY <1>0, <1>1, <1>2, <2>1 DEF ExportedWasRead
<1>8. NoneIsMissed'
  <2> SUFFICES ASSUME NEW f \in opened' \ cut, NEW i \in 1 .. Len(text[f]),
                      text[f][i].is = "whole", text[f][i].entry \notin late,
                      f = fh' => i <= off' \/ fpc' = "closed"
               PROVE  text[f][i].entry \in exported
    BY <1>1, <1>2 DEF NoneIsMissed
  <2>1. f # path
    BY <1>1
  <2>2. f \in opened \ cut /\ (f = fh => fpc = "closed")
    BY <1>0, <1>1, <2>1, EntryNotNone DEF PlaceInFile, TypeOK, Begin, Appear, Turn
  <2> QED BY <1>0, <2>2 DEF NoneIsMissed
<1> QED
  BY <1>1, <1>4, <1>5, <1>6, <1>7, <1>8 DEF TailInv, ExportIsFaithful

\* So do the looks at the path and at the log's size.
LEMMA LookStep ==
  ASSUME TailInv, Name \/ LookSame \/ LookOther \/ CompareLonger \/ CompareShorter
  PROVE  TailInv'
<1>0. /\ TypeOK /\ PlaceInFile /\ FilesBehind /\ ExportedWasRead /\ NoneIsMissed
      /\ UNCHANGED <<chainVars, readVars, fh, opened>>
  BY DEF TailInv, Name, LookSame, LookOther, CompareLonger, CompareShorter, nameVars
<1>1. /\ text' = text /\ path' = path /\ made' = made /\ late' = late
      /\ off' = off /\ walk' = walk /\ exported' = exported
  BY <1>0 DEF chainVars, fileVars, histVars, readVars
<1>2. fh \in File /\ fh \in opened
  BY <1>0 DEF TypeOK, PlaceInFile, Name, LookSame, LookOther, CompareLonger, CompareShorter
<1>3. TypeOK'
  <2>1. ChainTypeOK'
    BY <1>0 DEF TypeOK, ChainTypeOK, chainVars, fileVars, histVars
  <2>2. path \in {NoFile} \cup File
    BY <1>0 DEF TypeOK, ChainTypeOK
  <2>3. cut' \subseteq File /\ identity' \in {NoFile} \cup File
    BY <1>0, <1>2, <2>2
    DEF TypeOK, Name, LookSame, LookOther, CompareLonger, CompareShorter, nameVars
  <2>4. fpc' \in {"poll", "turning", "closed", "compare"}
    BY DEF Name, LookSame, LookOther, CompareLonger, CompareShorter
  <2> QED BY <1>0, <2>1, <2>3, <2>4 DEF TypeOK, readVars
<1>4. PlaceInFile'
  BY <1>0, <1>1, <1>2, EntryNotNone
  DEF PlaceInFile, Name, LookSame, LookOther, CompareLonger, CompareShorter
<1>5. FilesBehind'
  BY <1>0, <1>1
  DEF FilesBehind, Name, LookSame, LookOther, CompareLonger, CompareShorter, nameVars
<1>6. ExportedWasRead'
  BY <1>0, <1>1 DEF ExportedWasRead, ReadFrom
<1>7. NoneIsMissed'
  <2>1. opened' \ cut' \subseteq opened \ cut /\ (fpc' = "closed" => fh \in cut')
    BY <1>0 DEF Name, LookSame, LookOther, CompareLonger, CompareShorter, nameVars
  <2> QED BY <1>0, <1>1, <2>1 DEF NoneIsMissed
<1> QED BY <1>0, <1>3, <1>4, <1>5, <1>6, <1>7 DEF TailInv, ExportIsFaithful, readVars

\* What the log does meanwhile: its files keep their lines, and a new file has a new name.
LEMMA LogStep ==
  ASSUME ChainInv, LinesInv, TailInv, ChainNext, UNCHANGED <<fpc, readVars, nameVars>>
  PROVE  TailInv'
<1>0. /\ TypeOK /\ PlaceInFile /\ FilesBehind /\ ExportedWasRead /\ NoneIsMissed /\ ChainTypeOK
      /\ fpc' = fpc /\ fh' = fh /\ identity' = identity /\ opened' = opened /\ cut' = cut
      /\ off' = off /\ told' = told /\ walk' = walk
      /\ exported' = exported /\ alarm' = alarm /\ again' = again
  BY DEF TailInv, readVars, nameVars, TypeOK
<1>1. (\A f \in File : LinesKept(f)) /\ late \subseteq late'
  BY StepKeepsLines
<1>2. \A f \in File : Len(text[f]) \in Nat /\ Len(text[f]) <= Len(text'[f])
  BY <1>0, <1>1, FileTypes DEF LinesKept
<1>3. ChainTypeOK'
  BY TypeStep
<1>4. made' \in Nat /\ made <= made' /\ (path' = path \/ path' = NoFile \/ path' > made)
  <2>1. CASE Rotate
    BY <1>0, <2>1, ChainAssumption DEF Rotate, ChainTypeOK
  <2>2. ASSUME NEW w \in Writer, Open(w)
        PROVE  made' \in Nat /\ made <= made' /\ (path' = path \/ path' = NoFile \/ path' > made)
    BY <1>0, <2>2, ChainAssumption DEF Open, ChainTypeOK, fileVars
  <2>3. ASSUME NEW w \in Writer, AppendStep(w) \/ Fail(w), ~Open(w)
        PROVE  path' = path /\ made' = made
    BY <2>3 DEF AppendStep, Lock, Check, WriteSome, WriteRest, Fail, Leave, fileVars
  <2>4. made \in Nat
    BY <1>0, ChainAssumption DEF ChainTypeOK
  <2> QED BY <2>1, <2>2, <2>3, <2>4 DEF ChainNext, AppendStep
<1>5. \A f \in opened : f \in File /\ f <= made' /\ (f # path => f # path')
  BY <1>0, <1>4, ChainAssumption, EntryNotNone DEF FilesBehind, TypeOK, ChainTypeOK, File
<1>6. TypeOK'
  BY <1>0, <1>3 DEF TypeOK
<1>7. PlaceInFile'
  <2> SUFFICES ASSUME fh # NoFile
               PROVE  /\ off <= Len(text'[fh])
                      /\ \A i \in 1 .. off : IsComplete(text'[fh][i])
                      /\ LastEntry(text'[fh], off, walk)
    BY <1>0 DEF PlaceInFile
  <2> DEFINE s == text[fh]
             t == text'[fh]
  <2>0. /\ fh \in File /\ off \in Nat /\ off <= Len(s) /\ \A i \in 1 .. off : IsComplete(s[i])
        /\ LastEntry(s, off, walk)
    BY <1>0 DEF PlaceInFile, TypeOK
  <2>1. off <= Len(t)
    BY <1>2, <2>0, <1>3, FileTypes DEF ChainTypeOK
  <2>2. \A i \in 1 .. off : t[i] = s[i]
    BY <1>1, <1>2, <2>0 DEF LinesKept
  <2>3. SameLines(s, t, off)
    BY <2>2 DEF SameLines
  <2>4. LastEntry(t, off, walk)
    <3> HIDE DEF s, t
    <3> QED BY <2>0, <2>3, LastEntrySame
  <2> QED BY <2>0, <2>1, <2>2, <2>4
<1>8. FilesBehind'
  <2>1. fh # NoFile => fh \in opened
    BY <1>0 DEF PlaceInFile
  <2>2. fpc \in {"turning", "closed"} => fh # NoFile
    BY <1>0 DEF PlaceInFile
  <2> QED BY <1>0, <1>5, <2>1, <2>2 DEF FilesBehind
<1>9. ExportedWasRead'
  <2>1. ASSUME NEW f \in File, NEW i \in 1 .. Len(text[f]), ReadFrom(f, i)
        PROVE  i \in 1 .. Len(text'[f]) /\ ReadFrom(f, i)' /\ text'[f][i].entry = text[f][i].entry
    <3>1. i \in 1 .. Len(text'[f])
      BY <1>2, <1>3 DEF ChainTypeOK
    <3>2. text'[f][i] = text[f][i]
      BY <1>1, <2>1 DEF LinesKept, ReadFrom
    <3> QED BY <1>0, <2>1, <3>1, <3>2 DEF ReadFrom
  <2> QED BY <1>0, <2>1 DEF ExportedWasRead
<1>10. NoneIsMissed'
  <2> SUFFICES ASSUME NEW f \in opened \ cut, NEW i \in 1 .. Len(text'[f]),
                      text'[f][i].is = "whole", text'[f][i].entry \notin late',
                      f = fh => i <= off \/ fpc = "closed"
               PROVE  text'[f][i].entry \in exported
    BY <1>0 DEF NoneIsMissed
  <2>0. f \in File
    BY <1>5
  <2>1. ~Finishes(f, i)
    <3>1. f # path => ~Finishes(f, i)
      BY <1>1, <2>0 DEF LinesKept
    <3>2. f = path => f = fh /\ fpc # "closed"
      BY <1>0 DEF FilesBehind
    <3>3. f = fh /\ i <= off => i <= Len(text[f]) /\ IsComplete(text[f][i])
      BY <1>0, <1>2, <2>0, EntryNotNone DEF PlaceInFile, TypeOK
    <3> QED BY <3>1, <3>2, <3>3 DEF Finishes
  <2>2. i \in 1 .. Len(text[f]) /\ IsComplete(text[f][i])
    BY <1>2, <2>0, <2>1 DEF Finishes
  <2>3. text'[f][i] = text[f][i]
    BY <1>1, <2>0, <2>2 DEF LinesKept
  <2> QED BY <1>0, <1>1, <2>2, <2>3 DEF NoneIsMissed
<1> QED BY <1>0, <1>6, <1>7, <1>8, <1>9, <1>10 DEF TailInv, ExportIsFaithful

\* The tailer's invariant holds in every state.
THEOREM TailInvariant == Spec => []TailInv
<1>1. Init => TailInv
  <2> SUFFICES ASSUME Init PROVE TailInv
    OBVIOUS
  <2>1. \A f \in File : text[f] = << >>
    BY DEF Init, ChainInit
  <2>2. text \in [File -> Seq(Line)]
    <3>1. << >> \in Seq(Line)
      BY EmptySeq
    <3> QED BY <3>1 DEF Init, ChainInit
  <2>3. ChainTypeOK
    BY <2>2, ChainAssumption DEF Init, ChainInit, ChainTypeOK, NoFile
  <2>4. TypeOK
    BY <2>3 DEF Init, TypeOK
  <2> QED BY <2>4
    DEF Init, TailInv, PlaceInFile, FilesBehind, ExportedWasRead, ExportIsFaithful, NoneIsMissed
<1>2. ChainInv /\ LinesInv /\ TailInv /\ [Next]_vars => TailInv'
  <2>1. ASSUME ChainInv, LinesInv, TailInv, Cycle PROVE TailInv'
    BY <2>1, BatchStep, TakeStep, LookStep DEF Cycle
  <2>2. ASSUME ChainInv, LinesInv, TailInv, ChainNext, UNCHANGED <<fpc, readVars, nameVars>>
        PROVE  TailInv'
    BY <2>2, LogStep
  <2>3. ASSUME TailInv, UNCHANGED vars PROVE TailInv'
    BY <2>3
    DEF vars, chainVars, fileVars, histVars, readVars, nameVars, TailInv, TypeOK, ChainTypeOK,
        PlaceInFile, FilesBehind, ExportedWasRead, ReadFrom, ExportIsFaithful, NoneIsMissed
  <2> QED BY <2>1, <2>2, <2>3 DEF Next
<1>3. Spec => [](ChainInv /\ LinesInv)
  BY TailerOnlyReads, ChainInvariant, LinesArePermanent, PTL
<1> QED BY <1>1, <1>2, <1>3, PTL DEF Spec

\* The stream repeats no entry and reports no break in an unbroken log, whatever the tailer
\* was doing when the log was rotated (siem_export.py:938-944, 1025-1026).
THEOREM ExportsAreFaithful == Spec => []ExportIsFaithful
<1>1. TailInv => ExportIsFaithful
  BY DEF TailInv
<1> QED BY <1>1, TailInvariant, PTL

\* A file that the tailer has read to its end and left for the next one misses no entry that
\* was finished while it was the log, unless it was left for its size (siem_export.py:950-954).
THEOREM NoEntryIsMissed == Spec => []NoneIsMissed
<1>1. TailInv => NoneIsMissed
  BY DEF TailInv
<1> QED BY <1>1, TailInvariant, PTL

=============================================================================
