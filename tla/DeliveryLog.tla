---------------------------- MODULE DeliveryLog ----------------------------
(***************************************************************************)
(* What the evidence spool and its forwarder promise together, with the    *)
(* directory, the staging files, the checkpoint file and the reader's list *)
(* abstracted away: an append-only log read by one consumer.               *)
(*                                                                         *)
(* - A write is confirmed to its caller only once its event is in the log. *)
(* - The consumer hands events downstream in log order, starting after the *)
(*   last acknowledged one each time it starts.                            *)
(* - An event that cannot be read is passed over, and reported.            *)
(* - Only what was handed downstream or reported is acknowledged, so a     *)
(*   consumer that stops hands the rest of its batch again (at least       *)
(*   once), and never one it has acknowledged.                             *)
(***************************************************************************)
EXTENDS Naturals, Sequences

CONSTANT Event

VARIABLES
  log,        \* every event the spool holds or held, oldest first
  confirmed,  \* events whose write returned success
  acked,      \* how many of the log's first events are acknowledged
  cursor,     \* how many the running consumer has handed downstream or passed over
  handed,     \* events downstream has received
  dropped     \* events reported as unreadable

vars == <<log, confirmed, acked, cursor, handed, dropped>>

Logged == {log[i] : i \in 1 .. Len(log)}

Init ==
  /\ log = <<>>
  /\ confirmed = {}
  /\ acked = 0
  /\ cursor = 0
  /\ handed = {}
  /\ dropped = {}

\* An event enters the log once.
Append1(e) ==
  /\ e \notin Logged
  /\ log' = Append(log, e)
  /\ UNCHANGED <<confirmed, acked, cursor, handed, dropped>>

\* The writer is told its event is safe: only for an event in the log.
Confirm(e) ==
  /\ e \in Logged
  /\ confirmed' = confirmed \cup {e}
  /\ UNCHANGED <<log, acked, cursor, handed, dropped>>

\* The consumer goes on from position n to the next event it will hand over: it passes
\* over reported ones only.
Proceed(n) ==
  /\ cursor' \in n .. Len(log)
  /\ \A i \in n + 1 .. cursor' : log[i] \in dropped'

\* Events ahead turn out to be unreadable.
Drop ==
  /\ \E S \in SUBSET {log[i] : i \in cursor + 1 .. Len(log)} : dropped' = dropped \cup S
  /\ Proceed(cursor)
  /\ UNCHANGED <<log, confirmed, acked, handed>>

\* The next event of the log goes downstream.
HandOver ==
  /\ cursor < Len(log)
  /\ handed' = handed \cup {log[cursor + 1]}
  /\ Proceed(cursor + 1)
  /\ UNCHANGED <<log, confirmed, acked, dropped>>

\* Downstream took the next event but the consumer stops before it knows.
HandOverAndStop ==
  /\ cursor < Len(log)
  /\ handed' = handed \cup {log[cursor + 1]}
  /\ cursor' = acked
  /\ UNCHANGED <<log, confirmed, acked, dropped>>

\* What was handed over so far is acknowledged, with what was passed over before it.
Acknowledge ==
  /\ acked' \in acked + 1 .. cursor
  /\ UNCHANGED <<log, confirmed, cursor, handed, dropped>>

\* The consumer stops, or starts again, after the last acknowledged event.
Stop ==
  /\ cursor' = acked
  /\ UNCHANGED <<log, confirmed, acked, handed, dropped>>

Next ==
  \/ \E e \in Event : Append1(e) \/ Confirm(e)
  \/ Drop
  \/ HandOver
  \/ HandOverAndStop
  \/ Acknowledge
  \/ Stop

Spec == Init /\ [][Next]_vars
=============================================================================
