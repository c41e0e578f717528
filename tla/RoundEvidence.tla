---------------------------- MODULE RoundEvidence ----------------------------
(***************************************************************************)
(* The evidence file of one JevLoop round: what the three recorders do to  *)
(* it (src/src/loop/evidence-recorder.ts), and which class of evidence it  *)
(* is for each target (auditor.ts, assertCompletion in state-machine.ts).  *)
(*                                                                         *)
(* A digest of the work order is the number of its round.  Files under     *)
(* evaluation are ids, samples are their value; a claim cites ids of       *)
(* commands, samples and evaluations, which are disjoint.                  *)
(***************************************************************************)
EXTENDS LoopAudit, FiniteSetsExt, SequencesExt

CONSTANTS
  Hard,                \* criteria decided by commands; the rest of Checked by samples
  RequiredCommands,    \* of a hard criterion
  RequiredArtifacts,   \* of a judged criterion
  MetricTarget,        \* what the mean of samples must reach
  NoId                 \* an option that was not given

ASSUME RoundAssumption ==
  /\ Hard \subseteq Checked /\ MetricTarget \in Int
  /\ DOMAIN RequiredCommands = Hard /\ \A t \in Hard : RequiredCommands[t] # {}
  /\ DOMAIN RequiredArtifacts = Judged

(* loopEvidenceTemplate.                                                   *)
Template(round, head) ==
  [round |-> round, head |-> head, wall |-> 0,
   obs |-> <<>>, metrics |-> <<>>, evals |-> <<>>,
   claims |-> [t \in Targets |-> [status |-> "unknown", head |-> head, cites |-> {}]]]

-----------------------------------------------------------------------------
(* The recorders, on a file e that is bound to the active order.           *)
Cite(claim, id) == [claim EXCEPT !.cites = @ \cup {id}]

(* linkObservation.                                                        *)
Linked(claims, links, id, status) ==
  [t \in Targets |-> IF t \in links THEN [Cite(claims[t], id) EXCEPT !.status = status]
                     ELSE claims[t]]

EvaluationAt(e, id) == {i \in DOMAIN e.evals : e.evals[i].id = id}

Put(f, key, value) == [k \in DOMAIN f \cup {key} |-> IF k = key THEN value ELSE f[k]]

(* Without --replace an id is used once; samples are those of the head.    *)
Accepts(e, op) ==
  CASE op.kind = "command"  -> op.id \in DOMAIN e.obs => op.replace
    [] op.kind = "metric"   -> /\ op.head \in {NoId, e.head}
                               /\ op.id \in DOMAIN e.metrics => op.replace
    [] op.kind = "artifact" -> EvaluationAt(e, op.id) # {} => op.replace

(* Mutant: the duration of a replaced command stays in the total.          *)
PriorDuration_None(e, id) == 0

PriorDuration(e, id) == IF id \in DOMAIN e.obs THEN e.obs[id].ms ELSE 0

WithCommand(e, op) ==
  [e EXCEPT !.obs    = Put(@, op.id, [ok |-> op.ok, ms |-> op.ms, head |-> e.head]),
            !.wall   = @ + op.ms - PriorDuration(e, op.id),
            !.claims = Linked(@, op.links, op.id, IF op.ok THEN "pass" ELSE "fail")]

(* The status of the claim changes only if a result is given.              *)
WithMetric(e, op) ==
  LET c == op.criterion
  IN  [e EXCEPT !.metrics = Put(@, op.id, [criterion |-> c, value |-> op.value,
                                           enough |-> op.enough, head |-> e.head]),
                !.claims[c] = IF op.result = NoId THEN Cite(@, op.id)
                              ELSE [Cite(@, op.id) EXCEPT !.status = op.result]]

WithArtifact(e, op) ==
  LET new    == [id |-> op.id, artifact |-> op.artifact, status |-> op.status, head |-> e.head]
      stored == [e EXCEPT !.evals = IF EvaluationAt(e, op.id) = {} THEN Append(@, new)
                                    ELSE [i \in DOMAIN @ |-> IF @[i].id = op.id THEN new ELSE @[i]]]
  IN  IF op.criterion = NoId THEN stored
      ELSE [stored EXCEPT !.claims = Linked(@, {op.criterion}, op.id, op.status)]

Recorded(e, op) ==
  CASE op.kind = "command"  -> WithCommand(e, op)
    [] op.kind = "metric"   -> WithMetric(e, op)
    [] op.kind = "artifact" -> WithArtifact(e, op)

(* What is in the file under an id.                                        *)
Stored(e, id) ==
  IF id \in DOMAIN e.obs THEN e.obs[id]
  ELSE IF id \in DOMAIN e.metrics THEN e.metrics[id]
  ELSE e.evals[CHOOSE i \in EvaluationAt(e, id) : TRUE]

InFile(e) == DOMAIN e.obs \cup DOMAIN e.metrics \cup {e.evals[i].id : i \in DOMAIN e.evals}

-----------------------------------------------------------------------------
(* The auditor.                                                            *)

(* currentClaim: the claim is of this round and this head.                 *)
CurrentClaim(e, t) == e.claims[t].head = e.head

CleanCommand(e, id) == id \in DOMAIN e.obs /\ e.obs[id].ok /\ e.obs[id].head = e.head

CleanEvaluation(e, id) ==
  \E i \in EvaluationAt(e, id) : e.evals[i].status = "pass" /\ e.evals[i].head = e.head

(* Commands and evaluations that the claim cites, all of them clean.       *)
CitesClean(e, t) ==
  \A id \in e.claims[t].cites \ DOMAIN e.metrics : CleanCommand(e, id) \/ CleanEvaluation(e, id)

(* "met" is what assertCompletion asks of every target.                    *)
Proven(e, t) ==
  IF e.claims[t].status = "pass" /\ e.claims[t].cites # {} /\ CitesClean(e, t) THEN "met" ELSE "unclaimed"

(* Mutant: a claimed pass is not looked behind.                            *)
HardClass_Trusting(e, t) ==
  IF e.claims[t].status = "fail" THEN "fail"
  ELSE IF ~(RequiredCommands[t] \subseteq DOMAIN e.obs) THEN "gap"
  ELSE Proven(e, t)

(* assessHard.                                                             *)
HardClass(e, t) ==
  IF \/ e.claims[t].status = "fail"
     \/ \E o \in RequiredCommands[t] \cap DOMAIN e.obs : ~CleanCommand(e, o) THEN "fail"
  ELSE IF ~(RequiredCommands[t] \subseteq DOMAIN e.obs) THEN "gap"
  ELSE IF RequiredCommands[t] \subseteq e.claims[t].cites THEN Proven(e, t)
  ELSE "unclaimed"

(* The samples an audit of t counts.                                       *)
Qualified(e, t) ==
  {m \in DOMAIN e.metrics \cap e.claims[t].cites :
     e.metrics[m].criterion = t /\ e.metrics[m].enough /\ e.metrics[m].head = e.head}

(* The mean of all samples, those of an id counting once.                  *)
MeetsTarget(e, samples) ==
  MapThenSumSet(LAMBDA m : e.metrics[m].value, samples) >= MetricTarget * Cardinality(samples)

(* assessMetric: the best that is claimed is not believed, the worst is.   *)
MetricClass(e, t) ==
  IF e.claims[t].status = "fail" THEN "fail"
  ELSE IF Qualified(e, t) = {} THEN "gap"
  ELSE IF ~MeetsTarget(e, Qualified(e, t)) THEN "fail"
  ELSE IF \A m \in e.claims[t].cites \cap DOMAIN e.metrics :
            e.metrics[m].criterion = t /\ e.metrics[m].head = e.head
  THEN Proven(e, t) ELSE "unclaimed"

(* assessProtected.                                                        *)
SurfaceClass(e, t) ==
  IF e.claims[t].status = "fail" \/ ~CitesClean(e, t) THEN "fail"
  ELSE IF e.claims[t].cites \ DOMAIN e.metrics = {} THEN "gap"
  ELSE Proven(e, t)

(* The evaluations of an artifact that the claim cites, in file order; an  *)
(* audit looks at the first one only.                                      *)
CitedEvaluations(e, t, artifact) ==
  SelectSeq(e.evals, LAMBDA v : v.artifact = artifact /\ v.id \in e.claims[t].cites)

(* assessJudged.                                                           *)
JudgedClass(e, t) ==
  LET cited(a) == CitedEvaluations(e, t, a)
      A        == RequiredArtifacts[t]
      Lacks(a) == cited(a) = <<>> \/ cited(a)[1].status = "unknown"
      Fails(a) == cited(a) # <<>> /\ (cited(a)[1].status = "fail" \/ cited(a)[1].head # e.head)
  IN  IF e.claims[t].status = "fail" \/ \E a \in A : Fails(a) THEN "fail"
      ELSE IF \E a \in A : Lacks(a) THEN "gap"
      ELSE Proven(e, t)

ClassOf(e, t) ==
  IF ~CurrentClaim(e, t) THEN "absent"
  ELSE IF t \in Hard THEN HardClass(e, t)
  ELSE IF t \in Checked THEN MetricClass(e, t)
  ELSE IF t \in Judged THEN JudgedClass(e, t)
  ELSE SurfaceClass(e, t)
=============================================================================
