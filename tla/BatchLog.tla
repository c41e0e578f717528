------------------------------ MODULE BatchLog ------------------------------
(***************************************************************************)
(* What Long's journal promises its adapters (src/src/long/store.ts,       *)
(* src/docs/JEVLONG_DESIGN.md section 4): a log that only grows, by whole  *)
(* batches.  Of a batch, the drafts whose key is new are appended, all at  *)
(* once, with one receive time that never moves backwards; a key stands    *)
(* for one payload; and a caller is told of its batch only when all of it  *)
(* is in the log.                                                          *)
(***************************************************************************)
EXTENDS Integers, Sequences, FiniteSets

CONSTANTS Batches,  \* what may be ingested: sequences of drafts [key, payload]
          Times     \* receive times

VARIABLES log, acked

Logged == {log[i] : i \in DOMAIN log}

Init == log = <<>> /\ acked = {}

NewPlaces(batch) == {i \in DOMAIN batch : \A e \in Logged : e.key # batch[i].key}

NewPlace(batch, k) ==
  CHOOSE i \in NewPlaces(batch) : Cardinality({j \in NewPlaces(batch) : j <= i}) = k

(* The drafts whose key is new, in their order.                            *)
New(batch) == [k \in 1..Cardinality(NewPlaces(batch)) |-> batch[NewPlace(batch, k)]]

Stamped(drafts, time) ==
  [i \in DOMAIN drafts |->
     [key |-> drafts[i].key, payload |-> drafts[i].payload, received |-> time]]

OnePayloadPerKey(batch) ==
  \A i \in DOMAIN batch : \A e \in Logged : e.key = batch[i].key => e.payload = batch[i].payload

NoRepeat(batch) == \A i, j \in DOMAIN batch : batch[i].key = batch[j].key => i = j

AppendBatch(batch, time) ==
  /\ NoRepeat(batch) /\ OnePayloadPerKey(batch)
  /\ \A e \in Logged : e.received <= time
  /\ log' = log \o Stamped(New(batch), time)
  /\ UNCHANGED acked

Acknowledge(batch) ==
  /\ \A i \in DOMAIN batch :
       \E e \in Logged : e.key = batch[i].key /\ e.payload = batch[i].payload
  /\ acked' = acked \cup {e \in Logged : \E i \in DOMAIN batch : e.key = batch[i].key}
  /\ UNCHANGED log

Next == \E batch \in Batches : Acknowledge(batch) \/ \E time \in Times : AppendBatch(batch, time)

Spec == Init /\ [][Next]_<<log, acked>>
=============================================================================
