----------------------------- MODULE AlertWatch -----------------------------
(***************************************************************************)
(* A watch over one Long journal: it loads the journal, reduces it to      *)
(* signals, turns them into alerts (src/src/long/policy.ts) and hands the  *)
(* alerts that are new to a notifier (src/src/long/watch.ts, notifier.ts), *)
(* again and again, while others append to the journal and time passes.    *)
(* What it knows of earlier evaluations is in its memory only.             *)
(*                                                                         *)
(* A watch is a stream (watchLong without a terminal), or a refreshing     *)
(* cockpit, seen from the session it was opened for (main) or from one of  *)
(* the others it shows (sibling).  They differ in what they do first and   *)
(* in what they make of an error.  Assumed: the wall clock does not go     *)
(* back, and what a load shows stays (see LongStore for when it does not). *)
(***************************************************************************)
EXTENDS LongSignals

CONSTANTS
  Drafts,               \* what producers may report
  Modes,                \* the watches to look at
  MaxHistory,           \* max_alert_history
  MaxEvidence,          \* ids of evidence an alert keeps: 64
  NoBasis,
  MaxEvents, MaxTime    \* bounds

ASSUME WatchAssumption ==
  /\ Modes \subseteq {"stream", "main", "sibling"}
  /\ MaxHistory \in Nat \ {0} /\ MaxEvidence \in Nat \ {0} /\ MaxTime \in Nat /\ MaxEvents \in Nat
  /\ NoBasis \notin [events: Nat, at: Nat]

VARIABLES
  journal, now,
  mode,      \* which kind of watch is running
  pc,        \* "off", "ready", "load", "notify"
  stamp,     \* when the evaluation under way was asked for
  memory,    \* previousAlerts
  basis,     \* history: the evaluation that memory is the result of
  result,    \* what the last evaluation has found
  sent       \* the ids of the alerts this watch's notifier took

vars == <<journal, now, mode, pc, stamp, memory, basis, result, sent>>
watch == <<mode, stamp, memory, basis, result, sent>>

-----------------------------------------------------------------------------
LastOf(items, n) == SubSeq(items, Max({1, Len(items) - n + 1}), Len(items))

NewAlert(kind, evidence, n) ==
  [kind |-> kind, status |-> "open", first |-> Max({1, n}), last |-> Max({1, n}), count |-> 1,
   evidence |-> LastOf(evidence, MaxEvidence)]

(* Mutant: every evaluation of an event counts.                            *)
NewOccurrence_Any(alert, evidence, n) == n >= alert.last \/ ~(ToSet(evidence) \subseteq ToSet(alert.evidence))

NewOccurrence(alert, evidence, n) == n > alert.last \/ ~(ToSet(evidence) \subseteq ToSet(alert.evidence))

(* An open alert whose condition still holds.                              *)
Repeat(alert, evidence, n) ==
  [alert EXCEPT !.last = IF n = 0 THEN @ ELSE n,
                !.count = IF NewOccurrence(alert, evidence, n) THEN @ + 1 ELSE @,
                !.evidence = LastOf(Distinct(@ \o evidence), MaxEvidence)]

(* Mutant: a recovered alert stays open.                                   *)
Recover_Not(alert, n) == [alert EXCEPT !.last = IF n = 0 THEN @ ELSE n]

Recover(alert, n) == [alert EXCEPT !.status = "recovered", !.last = IF n = 0 THEN @ ELSE n]

IsOpen(alerts, kind) == \E a \in ToSet(alerts) : a.kind = kind /\ a.status = "open"

(* evaluateLongPolicy over a journal: every condition meets the alert of   *)
(* its own kind only; new kinds go behind the others, and the history is   *)
(* cut from the front.                                                     *)
EvaluatePolicy(prior, events, t) ==
  LET observed     == Observed(events, t)
      n            == Len(observed)
      evidence(k)  == EvidenceFor(k, observed, t)
      active(k)    == Active(k, observed, t)
      Met(alert)   == IF active(alert.kind)
                        THEN IF alert.status = "open" THEN Repeat(alert, evidence(alert.kind), n)
                             ELSE NewAlert(alert.kind, evidence(alert.kind), n)
                      ELSE IF alert.status = "open" THEN Recover(alert, n) ELSE alert
      fresh(k)     == NewAlert(k, evidence(k), n)
      Raise(ks)    == [i \in DOMAIN ks |-> fresh(ks[i])]
      Places(kinds) == {i \in DOMAIN Kinds : Kinds[i] \in kinds}
      onsets       == {k \in ToSet(Kinds) : active(k) /\ ~IsOpen(prior, k)}
      unknown      == {k \in onsets : \A a \in ToSet(prior) : a.kind # k}
      ended        == {k \in ToSet(Kinds) : ~active(k) /\ IsOpen(prior, k)}
  IN  [alerts    |-> LastOf([i \in DOMAIN prior |-> Met(prior[i])] \o Raise(At(Kinds, Places(unknown))),
                            MaxHistory),
       raised    |-> Raise(At(Kinds, Places(onsets))),
       recovered |-> At(Kinds, Places(ended))]

Id(alert) == <<alert.kind, alert.first>>

(* What the notifier gets: raised, and not among the alerts open before.   *)
NewAlerts(raised, prior) ==
  At(raised, {i \in DOMAIN raised :
                \A b \in ToSet(prior) : b.status = "open" => Id(b) # Id(raised[i])})

NoResult == [alerts |-> <<>>, new |-> <<>>, recovered |-> <<>>, basis |-> NoBasis]

-----------------------------------------------------------------------------
Start ==
  /\ pc = "off" /\ pc' = "ready"
  /\ mode' \in Modes
  /\ UNCHANGED <<journal, now, stamp, memory, basis, result, sent>>

(* longStatusCommand gets the time of the evaluation before it loads.      *)
Ask ==
  /\ pc = "ready" /\ pc' = "load"
  /\ stamp' = now
  /\ UNCHANGED <<journal, now, mode, memory, basis, result, sent>>

(* The process ends, and with it what it remembers.                       *)
End == pc' = "off" /\ memory' = <<>> /\ basis' = NoBasis /\ sent' = <<>>

(* The last iteration, or the user quits.                                  *)
Quit ==
  /\ pc = "ready" /\ End
  /\ UNCHANGED <<journal, now, mode, stamp, result>>

(* An error ends the watch; but what goes wrong with a sibling is          *)
(* swallowed, and the next refresh starts from what was remembered last.   *)
Fail ==
  /\ IF mode = "sibling" THEN pc' = "ready" /\ UNCHANGED <<memory, basis, sent>> ELSE End
  /\ result' = NoResult /\ stamp' = 0
  /\ UNCHANGED <<journal, now, mode>>

(* A stream remembers before it notifies.                                  *)
Evaluate ==
  /\ pc = "load" /\ pc' = "notify"
  /\ ~TooManyOpenCalls(Observed(journal, stamp))
  /\ LET found == EvaluatePolicy(memory, journal, stamp)
         here  == [events |-> Len(journal), at |-> stamp]
     IN  /\ stamp' = 0
         /\ result' = [alerts |-> found.alerts, new |-> NewAlerts(found.raised, memory),
                       recovered |-> found.recovered, basis |-> here]
         /\ IF mode = "stream" THEN memory' = found.alerts /\ basis' = here
            ELSE UNCHANGED <<memory, basis>>
  /\ UNCHANGED <<journal, now, mode, sent>>

(* The store cannot be loaded at the moment, or the signals are refused.   *)
LoadFails == pc = "load" /\ Fail

(* Mutant: a cockpit does not remember what its notifier took.             *)
Notify_Forgets ==
  /\ pc = "notify" /\ pc' = "ready"
  /\ sent' = sent \o [i \in DOMAIN result.new |-> Id(result.new[i])]
  /\ result' = NoResult
  /\ UNCHANGED <<journal, now, mode, stamp, memory, basis>>

(* The notifier takes all the new alerts.  A cockpit remembers after that. *)
Notify ==
  /\ pc = "notify" /\ pc' = "ready"
  /\ sent' = sent \o [i \in DOMAIN result.new |-> Id(result.new[i])]
  /\ IF mode = "stream" THEN UNCHANGED <<memory, basis>>
     ELSE memory' = result.alerts /\ basis' = result.basis
  /\ result' = NoResult
  /\ UNCHANGED <<journal, now, mode, stamp>>

(* Mutant: a stream goes on when its notifier fails.                       *)
NotifyFails_Swallowed ==
  /\ pc = "notify" /\ result.new # <<>>
  /\ pc' = "ready" /\ result' = NoResult
  /\ UNCHANGED <<journal, now, mode, stamp, memory, basis, sent>>

(* No file to append to, no answer of the webhook; nothing fails when      *)
(* there is nothing to say.                                                *)
NotifyFails == pc = "notify" /\ result.new # <<>> /\ Fail

-----------------------------------------------------------------------------
Received(d, t) == [field \in DOMAIN d \cup {"at"} |-> IF field = "at" THEN t ELSE d[field]]

(* Producers stamp their events before they wait for the store, which      *)
(* refuses receive times that go back.                                     *)
Ingest ==
  /\ Len(journal) < MaxEvents
  /\ \E d \in Drafts, t \in 0..now :
       /\ journal # <<>> => Last(journal).at <= t
       /\ journal' = Append(journal, Received(d, t))
  /\ UNCHANGED <<now, pc, watch>>

Tick ==
  /\ now < MaxTime /\ now' = now + 1
  /\ UNCHANGED <<journal, pc, watch>>

Init ==
  /\ journal = <<>> /\ now = 0
  /\ mode \in Modes /\ pc = "off" /\ stamp = 0
  /\ memory = <<>> /\ basis = NoBasis /\ result = NoResult /\ sent = <<>>

Next ==
  \/ Start \/ Quit \/ Ask \/ Evaluate \/ LoadFails \/ Notify \/ NotifyFails
  \/ Ingest \/ Tick

Spec == Init /\ [][Next]_vars
-----------------------------------------------------------------------------
(* longAlertSchema, which newAlert and every update parse: an alert that   *)
(* is not one would end the watch.  There is one alert of a kind at most.  *)
AlertsValid(alerts) ==
  /\ \A i, j \in DOMAIN alerts : alerts[i].kind = alerts[j].kind => i = j
  /\ \A a \in ToSet(alerts) :
       /\ a.kind \in ToSet(Kinds) /\ a.status \in {"open", "recovered"}
       /\ 1 <= a.first /\ a.first <= a.last /\ 1 <= a.count
       /\ IsInjective(a.evidence) /\ Len(a.evidence) <= MaxEvidence

TypeOK ==
  /\ now \in 0..MaxTime /\ stamp \in 0..now /\ mode \in Modes
  /\ pc \in {"off", "ready", "load", "notify"}
  /\ AlertsValid(memory) /\ AlertsValid(result.alerts)
  /\ basis = NoBasis \/ basis.events <= Len(journal)

OpenKinds(alerts) == {k \in ToSet(Kinds) : IsOpen(alerts, k)}

(* The conditions that held at an evaluation.                              *)
ActiveAt(b) ==
  {k \in ToSet(Kinds) : Active(k, Observed(SubSeq(journal, 1, b.events), b.at), b.at)}

(* "recovery closes only the matching alert" (JEVLONG_DESIGN.md:475): over *)
(* any number of evaluations, failed ones between them, the open alerts    *)
(* that a watch remembers are those whose conditions hold in the journal.  *)
OpenMeansActive ==
  IF basis = NoBasis THEN memory = <<>> ELSE OpenKinds(memory) = ActiveAt(basis)

(* "Repeated reads of one journal do not increment alert occurrences"      *)
(* (JEVLONG_DESIGN.md:473): every occurrence after the first has an event  *)
(* of its own, as long as an alert is not at the limit of its evidence.    *)
OccurrencesAreEvents ==
  \A a \in ToSet(memory) : Len(a.evidence) < MaxEvidence => a.count - 1 <= a.last - a.first

(* No alert is lost: what a watch remembers as open its notifier has had,  *)
(* whether it remembers before it notifies or after, and whatever failed.  *)
OpenWasSent ==
  pc \in {"ready", "load"} => \A a \in ToSet(memory) : a.status = "open" => Id(a) \in ToSet(sent)

(* "They must not flood the terminal" (JEVLONG_DESIGN.md:319): an alert is *)
(* named by its kind and the event it was raised at, and a notifier takes  *)
(* it once.  The first event shares its number with the empty journal, so  *)
(* an alert raised before any event may come back under its old name.      *)
SentOnce ==
  \A i, j \in DOMAIN sent : i # j /\ sent[i] = sent[j] => sent[i][2] = 1

-----------------------------------------------------------------------------
(* OccurrencesAreEvents without its reservation.                           *)
RereadCountsNothing ==
  \A a \in ToSet(memory) : a.count - 1 <= a.last - a.first

(* "A heartbeat can recover silent; it cannot by itself recover stall"     *)
(* (JEVLONG_DESIGN.md:335).                                                *)
StallEndsWithProgress ==
  "stall" \in ToSet(result.recovered) =>
    \E i \in 1..result.basis.events : journal[i].type \in Meaningful

(* "The same tool/command failure repeats" (JEVLONG_DESIGN.md:310), and    *)
(* the alert comes with references to the events (:488).                   *)
FailureLoopNamesFailures ==
  \A a \in ToSet(result.new) : a.kind = "failure_loop" => a.evidence # <<>>
=============================================================================
