------------------------------ MODULE LoopAudit ------------------------------
(***************************************************************************)
(* The evidence audit of JevLoop (src/src/loop/auditor.ts): how the claims *)
(* of one round, the answers of the judge and the previous audit of the    *)
(* same specification decide the assessment of every target, the outcome   *)
(* of the round and the focus of the next one; and the completion gate of  *)
(* state-machine.ts that checks a "completed" outcome a second time.       *)
(*                                                                         *)
(* The evidence for one target is abstracted to what the two rules tell    *)
(* apart:                                                                  *)
(*   "absent"     no claim of this round and head (missing or carried);    *)
(*   "fail"       the builder claims the target fails; or a required       *)
(*                command, sample set or artifact failed, is of another    *)
(*                head, or was not recorded by the recorder;               *)
(*   "gap"        something required was not recorded;                     *)
(*   "unclaimed"  everything required is recorded and clean, but the claim *)
(*                is not "pass" or does not cite it exactly;               *)
(*   "met"        as before, claimed "pass" and cited exactly.             *)
(***************************************************************************)
EXTENDS Integers, FiniteSets

CONSTANTS
  Checked,        \* hard and metric criteria: decided by recorded commands and samples
  Judged,         \* judged criteria: scored by the judge on required artifacts
  Surfaces,       \* protected surfaces
  PlateauWindow,  \* spec.plateau.window
  NoAudit         \* last_audit = null

Criteria == Checked \cup Judged
Targets  == Criteria \cup Surfaces

ASSUME TargetsAssumption ==
  /\ Checked \cap Judged = {} /\ Criteria \cap Surfaces = {}
  /\ Criteria # {} /\ IsFiniteSet(Targets)
ASSUME WindowAssumption == PlateauWindow \in Nat /\ PlateauWindow >= 2

Claims    == {"absent", "fail", "gap", "unclaimed", "met"}
Answers   == {"none", "low_confidence", "below_target", "meets"}
Statuses  == {"pass", "fail", "unknown"}
Freshness == {"fresh", "carried_forward"}
Outcomes  == {"continue", "fix_regression", "verify", "replan",
              "waiting_human", "budget_paused", "completed"}
Modes     == {"progress", "fix_regression", "verify", "replan", "completion"}

Evidence == [claims: [Targets -> Claims], answers: [Judged -> Answers],
             known_failures: BOOLEAN, gain: BOOLEAN,
             wall_ms: Nat, provider_tokens: Nat]

AuditResults ==
  [round_number: Nat, spec_revision: Nat, audit_mode: {"progress", "completion"},
   outcome: Outcomes, criteria: [Targets -> [status: Statuses, freshness: Freshness]],
   focus_criteria: SUBSET Targets, material_progress: BOOLEAN]

ASSUME NoAuditAssumption == NoAudit \notin AuditResults

-----------------------------------------------------------------------------
(* Assessment of one target.                                               *)

FreshAssessment(status) == [status |-> status, freshness |-> "fresh", current |-> TRUE]

(* Mutant: carries an assessment that was itself carried.                  *)
CarriedAssessment_Again(previous, t, claim) ==
  IF previous # NoAudit
  THEN [status |-> previous.criteria[t].status,
        freshness |-> "carried_forward", current |-> FALSE]
  ELSE [status |-> "unknown", freshness |-> "fresh", current |-> claim # "absent"]

(* A target without usable evidence takes over its previous assessment, if *)
(* that one was itself fresh; else it is unknown.                          *)
CarriedAssessment(previous, t, claim) ==
  IF previous # NoAudit /\ previous.criteria[t].freshness = "fresh"
  THEN [status |-> previous.criteria[t].status,
        freshness |-> "carried_forward", current |-> FALSE]
  ELSE [status |-> "unknown",
        freshness |-> IF claim = "absent" THEN "fresh" ELSE "carried_forward",
        current |-> claim # "absent"]

AssessRecorded(previous, t, claim) ==
  IF claim = "fail" THEN FreshAssessment("fail")
  ELSE IF claim \in {"unclaimed", "met"} THEN FreshAssessment("pass")
  ELSE CarriedAssessment(previous, t, claim)

AssessJudged(previous, t, claim, answer) ==
  IF claim = "absent" \/ answer = "none" THEN CarriedAssessment(previous, t, claim)
  ELSE IF claim = "fail" THEN FreshAssessment("fail")
  ELSE IF claim \in {"unclaimed", "met"} /\ answer = "meets" THEN FreshAssessment("pass")
  ELSE FreshAssessment("unknown")

Assessments(previous, ev) ==
  [t \in Targets |-> IF t \in Judged
                     THEN AssessJudged(previous, t, ev.claims[t], ev.answers[t])
                     ELSE AssessRecorded(previous, t, ev.claims[t])]

-----------------------------------------------------------------------------
(* From the assessments to the outcome of the round.                       *)

CurrentWith(a, status) == {t \in Targets : a[t].current /\ a[t].status = status}

LowConfidence(a, ev) ==
  {c \in Judged : c \in CurrentWith(a, "unknown") /\ ev.answers[c] = "low_confidence"}

AllFreshPass(a) ==
  \A t \in Targets : a[t].current /\ a[t].status = "pass" /\ a[t].freshness = "fresh"

(* gain: some current criterion's score rose by min_material_delta.        *)
MaterialProgress(a, previous, ev) ==
  IF previous = NoAudit
  THEN \E c \in Criteria : a[c].current /\ a[c].status = "pass"
  ELSE \/ \E c \in Criteria : /\ a[c].current /\ a[c].status = "pass"
                              /\ previous.criteria[c].status # "pass"
       \/ ev.gain /\ \E c \in Criteria : a[c].current

Verdict(outcome, focus) == [outcome |-> outcome, focus |-> focus]

CompletionVerdict(a, ev) ==
  LET failures == CurrentWith(a, "fail")
      low      == LowConfidence(a, ev)
  IN IF ev.known_failures \/ failures # {}
     THEN Verdict("fix_regression", IF failures # {} THEN failures ELSE Criteria)
     ELSE IF low # {} THEN Verdict("waiting_human", low)
     ELSE IF AllFreshPass(a) THEN Verdict("completed", {})
     ELSE Verdict("verify", CurrentWith(a, "unknown"))

Plateaued(progress, stalled) == ~progress /\ stalled + 1 >= PlateauWindow

(* Mutant: replans at every plateau.                                       *)
Escalation_Again(replans) == "replan"

(* The first plateau asks for another plan, later ones for a human.        *)
Escalation(replans) == IF replans = 0 THEN "replan" ELSE "waiting_human"

ProgressVerdict(a, ev, focus, progress, stalled, replans) ==
  LET failures == CurrentWith(a, "fail")
      low      == LowConfidence(a, ev)
      unknown  == CurrentWith(a, "unknown")
      open     == {t \in Targets : ~a[t].current \/ a[t].status # "pass"}
  IN IF ev.known_failures \/ failures # {}
     THEN Verdict("fix_regression", IF failures # {} THEN failures ELSE focus)
     ELSE IF low # {} THEN Verdict("waiting_human", low)
     ELSE IF AllFreshPass(a) THEN Verdict("verify", Criteria)
     ELSE IF Plateaued(progress, stalled)
     THEN Verdict(Escalation(replans), unknown)
     ELSE Verdict("continue", IF unknown # {} THEN unknown
                              ELSE IF open # {} THEN open ELSE focus)

(* Mutant: lets a round use up the totals exactly.                         *)
BudgetReached_Beyond(spec, wall, tokens) ==
  wall > spec.pause_total_wall_ms \/ tokens > spec.pause_total_provider_tokens

(* The totals of the specification are reached by the round's wall time or *)
(* provider tokens (evidence plus judge).                                  *)
BudgetReached(spec, wall, tokens) ==
  wall >= spec.pause_total_wall_ms \/ tokens >= spec.pause_total_provider_tokens

(* auditRound: basis is the loop state the audit command loaded, order its *)
(* active work order, ev the submitted evidence with the judge's answers.  *)
AuditRound(basis, order, ev) ==
  LET previous == IF basis.last_audit # NoAudit
                     /\ basis.last_audit.spec_revision = basis.spec.revision
                  THEN basis.last_audit ELSE NoAudit
      a        == Assessments(previous, ev)
      progress == MaterialProgress(a, previous, ev)
      verdict  == IF order.mode = "completion" THEN CompletionVerdict(a, ev)
                  ELSE ProgressVerdict(a, ev, order.focus_criteria, progress,
                                       basis.consecutive_stalled, basis.plateau_replans)
      paused   == /\ verdict.outcome # "completed"
                  /\ BudgetReached(basis.spec, basis.cumulative_wall_ms + ev.wall_ms,
                                   basis.cumulative_provider_tokens + ev.provider_tokens)
  IN [round_number      |-> order.round_number,
      spec_revision     |-> basis.spec.revision,
      audit_mode        |-> IF order.mode = "completion" THEN "completion" ELSE "progress",
      outcome           |-> IF paused THEN "budget_paused" ELSE verdict.outcome,
      criteria          |-> [t \in Targets |-> [status    |-> a[t].status,
                                                freshness |-> a[t].freshness]],
      focus_criteria    |-> IF paused THEN {} ELSE verdict.focus,
      material_progress |-> progress]

-----------------------------------------------------------------------------
(* Mutant: trusts the assessments and does not look at the evidence again. *)
CompletionGate_Assessed(result, ev) ==
  /\ result.audit_mode = "completion"
  /\ ~ev.known_failures
  /\ \A t \in Targets : result.criteria[t] = [status |-> "pass", freshness |-> "fresh"]

(* assertCompletion: the state machine's own check of a completed audit.   *)
CompletionGate(result, ev) ==
  /\ result.audit_mode = "completion"
  /\ ~ev.known_failures
  /\ \A t \in Targets : /\ ev.claims[t] = "met"
                        /\ result.criteria[t] = [status |-> "pass", freshness |-> "fresh"]
  /\ \A c \in Judged : ev.answers[c] = "meets"
=============================================================================
