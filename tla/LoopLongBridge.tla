---------------------------- MODULE LoopLongBridge ----------------------------
(***************************************************************************)
(* Audits of a loop are recorded as trusted events of a Long session       *)
(* (src/src/long/bridge.ts, long loop-audit), beside the events that       *)
(* adapters import into it.  The Long store is the log of BatchLog, which  *)
(* LongStore is shown to implement; of the loop only its audits matter,    *)
(* one for each round.                                                     *)
(*                                                                         *)
(* A digest stands for the outcome of an audit and the hashes of its       *)
(* order and evidence.  A key is what the ids of an adapter and its event  *)
(* become in the form they are stored in: the bridge's is the round.       *)
(***************************************************************************)
EXTENDS Integers, Sequences

CONSTANTS
  Digests,
  Bridges,     \* processes that bridge
  MaxRounds,   \* bound: audits of the loop
  MaxTime,     \* bound of the clock
  Scenes,      \* records that say what happens: jobs of the bridges ([round, digest] or NoJob),
               \* imports of adapters ([key, payload]), and the bounds rounds, time and faults
               \* (calls that die or find a lock)
  NoJob

Rounds == 1..MaxRounds

ASSUME BridgeAssumption ==
  /\ {MaxRounds, MaxTime} \subseteq Nat
  /\ \A s \in Scenes : /\ \A i \in s.imports : i.payload.source # "recorded"
                       /\ s.rounds <= MaxRounds /\ s.time <= MaxTime
                       /\ s.jobs \in [Bridges -> [round: Rounds, digest: Digests] \cup {NoJob}]

VARIABLES
  scene,     \* fixed
  audits,    \* the audits in the loop's journal
  journal,   \* of the Long session
  told,      \* events whose ingestion was reported
  now, faults,
  pc,        \* where it is: "idle", "verify", "ingest", "tell", "failed", "done"
  at         \* the time it took when it was called

bridgeVars == <<scene, audits, journal, told, now, faults, pc, at>>

Trusted(round, digest) == [key |-> round, payload |-> [source |-> "recorded", digest |-> digest]]

Long == INSTANCE BatchLog
  WITH log <- journal, acked <- told, Times <- 1..MaxTime,
       Batches <- {<<i>> : i \in UNION {s.imports : s \in Scenes}} \cup {<<Trusted(r, d)>> : r \in Rounds, d \in Digests}

BridgeInit ==
  /\ scene \in Scenes
  /\ audits = <<>> /\ Long!Init
  /\ now = 1 /\ faults = 0
  /\ pc = [b \in Bridges |-> "idle"] /\ at = [b \in Bridges |-> 0]

Goto(b, label) == pc' = [pc EXCEPT ![b] = label]

Draft(b) == Trusted(scene.jobs[b].round, scene.jobs[b].digest)

-----------------------------------------------------------------------------
Audit ==
  /\ Len(audits) < scene.rounds
  /\ \E d \in Digests : audits' = Append(audits, d)
  /\ UNCHANGED <<scene, journal, told, now, faults, pc, at>>

Tick ==
  /\ now < scene.time /\ now' = now + 1
  /\ UNCHANGED <<scene, audits, journal, told, faults, pc, at>>

(* An adapter's batch; it cannot contain recorded events.                  *)
Import ==
  /\ \E i \in scene.imports : Long!AppendBatch(<<i>>, now)
  /\ UNCHANGED <<scene, audits, now, faults, pc, at>>

(* The command, run for the first time or again.                           *)
CallBridge(b) ==
  /\ pc[b] \in {"idle", "failed"} /\ scene.jobs[b] # NoJob
  /\ at' = [at EXCEPT ![b] = now] /\ Goto(b, "verify")
  /\ UNCHANGED <<scene, audits, journal, told, now, faults>>

(* Mutant: the round was audited, whatever its outcome and its digests.    *)
AuditMatches_Round(round, digest) == round \in DOMAIN audits

AuditMatches(round, digest) == round \in DOMAIN audits /\ audits[round] = digest

(* recordLoopAuditEvent loads the loop and looks for the audit.            *)
VerifyAudit(b) ==
  /\ pc[b] = "verify"
  /\ Goto(b, IF AuditMatches(scene.jobs[b].round, scene.jobs[b].digest) THEN "ingest" ELSE "failed")
  /\ UNCHANGED <<scene, audits, journal, told, now, faults, at>>

(* Mutant: the fingerprint of an event has the time it was received at.    *)
Fits_Timed(draft, time) ==
  \A e \in Long!Logged : e.key # draft.key /\ e.received <= time

(* An event that is there already must have the same fingerprint; time may *)
(* not go back, for one that is there already neither.                     *)
Fits(draft, time) ==
  /\ Long!OnePayloadPerKey(<<draft>>)
  /\ \A e \in Long!Logged : e.received <= time

(* ingestRecordedLongBatch; the time is that of the call.                  *)
Ingest(b) ==
  /\ pc[b] = "ingest"
  /\ IF Fits(Draft(b), at[b])
     THEN Long!AppendBatch(<<Draft(b)>>, at[b]) /\ Goto(b, "tell")
     ELSE Goto(b, "failed") /\ UNCHANGED <<scene, journal, told>>
  /\ UNCHANGED <<scene, audits, now, faults, at>>

Tell(b) ==
  /\ pc[b] = "tell"
  /\ Long!Acknowledge(<<Draft(b)>>) /\ Goto(b, "done")
  /\ UNCHANGED <<scene, audits, now, faults, at>>

(* The process dies, or somebody else has the lock.                        *)
BridgeFails(b) ==
  /\ pc[b] \in {"verify", "ingest", "tell"} /\ faults < scene.faults
  /\ faults' = faults + 1 /\ Goto(b, "failed")
  /\ UNCHANGED <<scene, audits, journal, told, now, at>>

Bridge(b) == VerifyAudit(b) \/ Ingest(b) \/ Tell(b)

BridgeNext ==
  \/ Audit \/ Tick \/ Import
  \/ \E b \in Bridges : CallBridge(b) \/ Bridge(b) \/ BridgeFails(b)

BridgeFairness ==
  \A b \in Bridges : WF_bridgeVars(CallBridge(b)) /\ WF_bridgeVars(Bridge(b))

-----------------------------------------------------------------------------
(* What stands in the session as recorded is the audit of that round, and  *)
(* stands there once, whoever bridged it and however often (bridge.ts:24-  *)
(* 36); everything else was imported.                                      *)
TrustedEventsAreAudits ==
  /\ \A e \in Long!Logged : e.payload.source = "recorded" =>
       e.key \in DOMAIN audits /\ audits[e.key] = e.payload.digest
  /\ \A i, j \in DOMAIN journal : journal[i].key = journal[j].key => i = j

Taken(b) ==
  scene.jobs[b] # NoJob /\ \E e \in Long!Logged : e.key = scene.jobs[b].round /\ e.payload # Draft(b).payload

(* A bridge that is retried is told in the end of the event, also if it    *)
(* died after the event was written, or another process wrote it; unless   *)
(* an adapter took the key.                                                *)
RetriesSucceed ==
  \A b \in Bridges :
    (pc[b] # "idle" /\ AuditMatches(scene.jobs[b].round, scene.jobs[b].digest)) ~> (pc[b] = "done" \/ Taken(b))

(* tests/long-bridge.test.ts:49 has the audit in the session after the     *)
(* call; an import under the bridge's key keeps it out for good.           *)
AuditsCanBeBridged ==
  \A b \in Bridges : Taken(b) => ~AuditMatches(scene.jobs[b].round, scene.jobs[b].digest)
=============================================================================
