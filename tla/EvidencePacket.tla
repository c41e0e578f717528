--------------------------- MODULE EvidencePacket ---------------------------
(***************************************************************************)
(* The evidence of one finalist: what the three recorders of Decide do to  *)
(* a packet (src/src/evidence/recorder.ts, metric.ts, artifact.ts), and    *)
(* what prepareDecision makes of it (src/src/workflow/evidence.ts).        *)
(*                                                                         *)
(* A packet cites evidence from claims: the results of requirements and of *)
(* probes.  Samples and files are abstracted to whether they are good, and *)
(* callers are honest: a result they declare is that of what they record.  *)
(***************************************************************************)
EXTENDS Integers, FiniteSets, FiniteSetsExt

CONSTANTS
  Observations, Metrics, Evaluations,  \* ids of evidence that claims cite
  Artifacts,                           \* ids of files that evaluations are about
  Requirements,                        \* a requirement is named by its criterion
  Probes,
  NoId,                                \* an option that was not given
  MaxWall                              \* the work order's max_wall_ms

Claims   == Requirements \cup Probes
Statuses == {"pass", "fail", "unknown"}

ASSUME EvidenceIdsAssumption ==
  /\ Observations \cap Metrics = {} /\ Metrics \cap Evaluations = {} /\ Observations \cap Evaluations = {}
  /\ Requirements \cap Probes = {}
  /\ NoId \notin Requirements \cup Evaluations
  /\ MaxWall \in Nat

(* What a caller may record.                                               *)
CommandOps ==
  [kind: {"command"}, id: Observations, ok: BOOLEAN, ms: Nat, required: BOOLEAN,
   complete: BOOLEAN, links: SUBSET Claims, replace: BOOLEAN]
MetricOps ==
  [kind: {"metric"}, id: Metrics, criterion: Requirements, good: BOOLEAN,
   result: Statuses \cup {NoId}, links: SUBSET Claims, replace: BOOLEAN]
ArtifactOps ==
  [kind: {"artifact"}, id: Artifacts, good: BOOLEAN, evaluation: Evaluations \cup {NoId},
   criterion: Requirements \cup {NoId}, result: Statuses, links: SUBSET Claims, replace: BOOLEAN]

(* create-evidence-template: nothing recorded, everything unknown.  It has *)
(* results for what Decide requires, and none for soft constraints.        *)
Template ==
  [obs |-> <<>>, metrics |-> <<>>, arts |-> <<>>, evals |-> <<>>, wall |-> 0, completed |-> FALSE,
   claims |-> [c \in Claims |-> [status |-> "unknown", cites |-> {}]]]

Put(f, key, value) == [k \in DOMAIN f \cup {key} |-> IF k = key THEN value ELSE f[k]]

(* The claims in links cite the evidence, and have its status.             *)
Linked(claims, links, id, status) ==
  [c \in Claims |-> IF c \in links THEN [status |-> status, cites |-> claims[c].cites \cup {id}]
                                   ELSE claims[c]]

(* The claims that cite the evidence already.                              *)
Citing(packet, id) == {c \in Claims : id \in packet.claims[c].cites}

PassOrFail(ok) == IF ok THEN "pass" ELSE "fail"

-----------------------------------------------------------------------------
(* recordCommand, once it holds the lock.                                  *)
CommandAccepted(packet, op) == op.id \in DOMAIN packet.obs => op.replace

(* Mutant: takes the time of a replaced command off twice.                 *)
PriorDuration_Twice(packet, id) ==
  IF id \in DOMAIN packet.obs THEN 2 * packet.obs[id].ms ELSE 0

PriorDuration(packet, id) == IF id \in DOMAIN packet.obs THEN packet.obs[id].ms ELSE 0

WithCommand(packet, op) ==
  [packet EXCEPT
     !.obs = Put(@, op.id, [ok |-> op.ok, ms |-> op.ms, required |-> op.required]),
     !.wall = @ + op.ms - PriorDuration(packet, op.id),
     !.completed = @ \/ op.complete,
     !.claims = Linked(@, op.links, op.id, PassOrFail(op.ok))]

-----------------------------------------------------------------------------
(* Mutant: replaces linked samples under the old result.                   *)
MetricAccepted_NoResult(packet, op) ==
  /\ op.links # {} => op.result # NoId
  /\ op.id \in DOMAIN packet.metrics => op.replace
  /\ op.links \cap Requirements \subseteq {op.criterion}

(* recordMetric: a linked metric is not replaced without a new result.     *)
MetricAccepted(packet, op) ==
  /\ op.links # {} => op.result # NoId
  /\ op.id \in DOMAIN packet.metrics =>
       /\ op.replace
       /\ Citing(packet, op.id) # {} =>
            op.result # NoId /\ op.criterion = packet.metrics[op.id].criterion
  /\ op.links \cap Requirements \subseteq {op.criterion}

WithMetric(packet, op) ==
  [packet EXCEPT
     !.metrics = Put(@, op.id, [criterion |-> op.criterion, good |-> op.good]),
     !.claims = IF op.result = NoId THEN @
                ELSE Linked(@, op.links \cup Citing(packet, op.id), op.id, op.result)]

-----------------------------------------------------------------------------
(* recordArtifact: an evaluated file is not replaced without its           *)
(* evaluation.                                                             *)
PriorEvaluations(packet, id) == {e \in DOMAIN packet.evals : id \in packet.evals[e].arts}

(* The criterion an evaluation gets: the one given, else the prior one's.  *)
EvaluationCriterion(packet, op) ==
  LET prior == PriorEvaluations(packet, op.id)
  IN  IF op.criterion = NoId /\ Cardinality(prior) = 1
      THEN packet.evals[CHOOSE e \in prior : TRUE].criterion
      ELSE op.criterion

ArtifactAccepted(packet, op) ==
  LET prior == PriorEvaluations(packet, op.id)
  IN  /\ op.links # {} => op.evaluation # NoId
      /\ op.id \in DOMAIN packet.arts =>
           /\ op.replace
           /\ prior # {} =>
                /\ prior = {op.evaluation}
                /\ op.criterion # NoId /\ packet.evals[op.evaluation].criterion # NoId =>
                     op.criterion = packet.evals[op.evaluation].criterion
      /\ op.evaluation \in DOMAIN packet.evals => op.replace
      /\ op.links \cap Requirements \subseteq {EvaluationCriterion(packet, op)}

WithArtifact(packet, op) ==
  LET stored == [packet EXCEPT !.arts = Put(@, op.id, op.good)]
  IN  IF op.evaluation = NoId THEN stored
      ELSE [stored EXCEPT
              !.evals = Put(@, op.evaluation, [arts |-> {op.id}, status |-> op.result,
                                               criterion |-> EvaluationCriterion(packet, op)]),
              !.claims = Linked(@, op.links \cup Citing(packet, op.evaluation),
                                op.evaluation, op.result)]

-----------------------------------------------------------------------------
Accepts(packet, op) ==
  CASE op.kind = "command"  -> CommandAccepted(packet, op)
    [] op.kind = "metric"   -> MetricAccepted(packet, op)
    [] op.kind = "artifact" -> ArtifactAccepted(packet, op)

Recorded(packet, op) ==
  CASE op.kind = "command"  -> WithCommand(packet, op)
    [] op.kind = "metric"   -> WithMetric(packet, op)
    [] op.kind = "artifact" -> WithArtifact(packet, op)

-----------------------------------------------------------------------------
(* prepareDecision, for one finalist.                                      *)
CommandTime(packet) == MapThenSumSet(LAMBDA o : packet.obs[o].ms, DOMAIN packet.obs)

(* What Decide refuses to look at.                                         *)
Contradicts(packet) ==
  \/ packet.wall < CommandTime(packet)
  \/ \E r \in Requirements, m \in DOMAIN packet.metrics :
       m \in packet.claims[r].cites /\ packet.metrics[m].criterion # r

Cited(packet) == UNION {packet.claims[c].cites : c \in Claims}

RequiredCommands(packet) ==
  {o \in DOMAIN packet.obs : packet.obs[o].required \/ o \in Cited(packet)}

RejectedBy(packet) ==
  \/ \E c \in Claims : packet.claims[c].status = "fail"
  \/ \E e \in Cited(packet) \cap DOMAIN packet.evals : packet.evals[e].status = "fail"
  \/ \E o \in RequiredCommands(packet) : ~packet.obs[o].ok
  \/ packet.wall > MaxWall

IncompleteBy(packet) ==
  \/ ~packet.completed
  \/ \E c \in Claims : packet.claims[c].status = "unknown"
  \/ \E e \in Cited(packet) \cap DOMAIN packet.evals : packet.evals[e].status = "unknown"
  \/ RequiredCommands(packet) = {}

PreparedStatus(packet) ==
  IF Contradicts(packet) THEN "refused"
  ELSE IF RejectedBy(packet) THEN "rejected"
  ELSE IF IncompleteBy(packet) THEN "incomplete"
  ELSE "viable"
=============================================================================
