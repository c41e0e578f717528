---------------------------- MODULE LongSignals ----------------------------
(***************************************************************************)
(* What Long reads off a journal: reduceLongSignals                        *)
(* (src/src/long/signals.ts) as operators, and the conditions that         *)
(* evaluateLongPolicy raises alerts for (src/src/long/policy.ts).          *)
(*                                                                         *)
(* A journal is a sequence of events in the order of their receive times;  *)
(* an event's id is its place in the journal.  Scores are clamped to 0..1  *)
(* and alerts only ask whether they reach 1, or the warning score of       *)
(* drift: they appear as these comparisons, multiplied out.                *)
(***************************************************************************)
EXTENDS Naturals, FiniteSets, FiniteSetsExt, SequencesExt

CONSTANTS
  Outside, Protected,          \* paths out of the declared scope; protected ones
  NoPath, NoFailure, NoCall,   \* an event is not about one
  HeartbeatAfter, StallAfter, FailureWindow, FailureCount,
  DriftPercent, WarningPercent,
  Limit,                       \* the budget: what may be used of each measure
  MaxOpenCalls                 \* 512

Measures == {"wall_ms", "provider_tokens"}

ASSUME ThresholdAssumption ==
  /\ HeartbeatAfter \in Nat \ {0} /\ StallAfter \in Nat \ {0} /\ HeartbeatAfter <= StallAfter
  /\ FailureWindow \in Nat \ {0} /\ FailureCount \in Nat \ {0, 1}
  /\ DriftPercent \in 0..100 /\ WarningPercent \in 1..100
  /\ Limit \in [Measures \cup {"tool_calls"} -> Nat] /\ MaxOpenCalls \in Nat
  /\ NoPath \notin Outside \cup Protected

Meaningful == {"tool_finished", "test_result", "file_change", "milestone", "human_input", "loop_audit"}

Where(events, Test(_)) == {i \in DOMAIN events : Test(events[i])}

(* The items at these places, in their order.                              *)
Place(places, k) == CHOOSE i \in places : Cardinality({j \in places : j <= i}) = k

At(items, places) == [k \in 1..Cardinality(places) |-> items[Place(places, k)]]

(* The places that have a key, by their keys, and in order among equals.   *)
ByKey(key) ==
  LET places       == DOMAIN key
      Upto(i)      == {j \in places : key[j] < key[i] \/ (key[j] = key[i] /\ j <= i)}
  IN  [k \in 1..Cardinality(places) |-> CHOOSE i \in places : Cardinality(Upto(i)) = k]

(* The events received by the time of the evaluation, a prefix.            *)
Observed(events, now) == At(events, Where(events, LAMBDA e : e.at <= now))

(* [...new Set(items)]                                                     *)
Distinct(items) == At(items, {i \in DOMAIN items : \A j \in 1..i - 1 : items[j] # items[i]})

-----------------------------------------------------------------------------
OpenCalls(events) ==
  {c \in {events[i].call : i \in DOMAIN events} \ {NoCall} :
     \E i \in DOMAIN events :
       /\ events[i].type = "tool_started" /\ events[i].call = c
       /\ \A j \in DOMAIN events : j > i => ~(events[j].type = "tool_finished" /\ events[j].call = c)}

(* reduceLongSignals throws.                                               *)
TooManyOpenCalls(events) == Cardinality(OpenCalls(events)) > MaxOpenCalls

(* The age of the producer is at least this, for every n if it never spoke.*)
ProducerAgeOver(events, now, n) == events = <<>> \/ now > Last(events).at + n

(* The last meaningful event, or without one the last event of any type.   *)
Progress(events) ==
  LET meaningful == Where(events, LAMBDA e : e.type \in Meaningful)
  IN  IF meaningful = {} THEN Last(events).at ELSE events[Max(meaningful)].at

Silent(events, now) == ProducerAgeOver(events, now, HeartbeatAfter)

Stalled(events, now) == events = <<>> \/ now >= Progress(events) + StallAfter

-----------------------------------------------------------------------------
Failures(events, now) ==
  Where(events, LAMBDA e : e.failure # NoFailure /\ e.at + FailureWindow >= now)

Alike(events, now, i) == {j \in Failures(events, now) : events[j].failure = events[i].failure}

(* The failures of one fingerprint, if there are enough of them; groups in *)
(* the order of their first failures.                                      *)
RepeatedFailures(events, now) ==
  {i \in Failures(events, now) : Cardinality(Alike(events, now, i)) >= FailureCount}

Repeated(events, now) ==
  ByKey([i \in RepeatedFailures(events, now) |-> Min(Alike(events, now, i))])

FailureLoop(events, now) ==
  Cardinality(Failures(events, now)) + Cardinality(RepeatedFailures(events, now)) >= 2 * FailureCount

-----------------------------------------------------------------------------
Changes(events) == At(events, Where(events, LAMBDA e : e.type = "file_change" /\ e.path # NoPath))

ChangesIn(events, paths) == At(Changes(events), Where(Changes(events), LAMBDA e : e.path \in paths))

(* Every event that names one of the changed paths, path by path.          *)
Naming(events, changes) ==
  LET Changed(p) == {k \in DOMAIN changes : changes[k].path = p}
      named      == Where(events, LAMBDA e : Changed(e.path) # {})
  IN  ByKey([i \in named |-> Min(Changed(events[i].path))])

Drifts(events) ==
  100 * (Len(ChangesIn(events, Outside)) + 2 * Len(ChangesIn(events, Protected)))
    >= DriftPercent * (Len(Changes(events)) + 2)

Used(events, measure) ==
  IF measure = "tool_calls" THEN Cardinality(Where(events, LAMBDA e : e.type = "tool_started"))
  ELSE FoldLeft(LAMBDA sum, e : sum + e.spent[measure], 0, events)

BudgetAtRisk(events) ==
  \E m \in DOMAIN Limit :
    IF Limit[m] = 0 THEN Used(events, m) > 0
    ELSE 100 * Used(events, m) >= WarningPercent * Limit[m]

Garbled(events) == Where(events, LAMBDA e : e.garbled)

-----------------------------------------------------------------------------
(* The conditions in their order.  The signals have no evidence for        *)
(* activity, stalls and budgets.                                           *)
Kinds == <<"silent", "stall", "failure_loop", "drift", "protected_surface", "protocol", "budget_risk">>

EvidenceFor(kind, events, now) ==
  CASE kind = "failure_loop"      -> Repeated(events, now)
    [] kind = "drift"             -> Naming(events, ChangesIn(events, Outside) \o ChangesIn(events, Protected))
    [] kind = "protected_surface" -> Naming(events, ChangesIn(events, Protected))
    [] kind = "protocol"          -> ByKey([i \in Garbled(events) |-> i])
    [] OTHER                      -> <<>>

Active(kind, events, now) ==
  CASE kind = "silent"       -> Silent(events, now)
    [] kind = "stall"        -> Stalled(events, now)
    [] kind = "failure_loop" -> FailureLoop(events, now)
    [] kind = "drift"        -> Drifts(events)
    [] kind = "budget_risk"  -> BudgetAtRisk(events)
    [] OTHER                 -> EvidenceFor(kind, events, now) # <<>>
=============================================================================
