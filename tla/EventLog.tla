------------------------------ MODULE EventLog ------------------------------
(***************************************************************************)
(* What the loop's event store promises (src/src/loop/store.ts): a log of  *)
(* events that only grows, each event appended once and checked against    *)
(* exactly the log it extends; an append is reported as done only when its *)
(* event is in the log.                                                    *)
(***************************************************************************)
EXTENDS Sequences, FiniteSets

CONSTANTS Events,   \* everything that may be appended
          Created   \* the creation event

VARIABLES log, acked

Logged == {log[i] : i \in DOMAIN log}

Init == log = <<Created>> /\ acked = {}

AppendEvent(e) ==
  /\ e \notin Logged
  /\ log' = Append(log, e)
  /\ UNCHANGED acked

Acknowledge(e) ==
  /\ e \in Logged
  /\ acked' = acked \cup {e}
  /\ UNCHANGED log

Next == \E e \in Events : AppendEvent(e) \/ Acknowledge(e)

Spec == Init /\ [][Next]_<<log, acked>>
=============================================================================
