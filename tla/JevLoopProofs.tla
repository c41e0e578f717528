---------------------------- MODULE JevLoopProofs ----------------------------
(***************************************************************************)
(* Proofs about JevLoop, for any clients, criteria, budgets and bounds.    *)
(***************************************************************************)
EXTENDS JevLoop, TLAPS

Verdicts == [outcome: Outcomes, focus: SUBSET Targets]

(* An assessment is a status with its freshness and whether it is current. *)
AssessmentSet == [Targets -> [status: Statuses, freshness: Freshness, current: BOOLEAN]]

(* Every target gets a well-formed assessment, carried or fresh            *)
(* (auditor.ts, the assess functions).                                     *)
LEMMA AssessmentsType ==
  ASSUME NEW previous \in AuditResults \cup {NoAudit}, NEW ev \in Evidence
  PROVE  Assessments(previous, ev) \in AssessmentSet
<1> SUFFICES ASSUME NEW t \in Targets
             PROVE  (IF t \in Judged
                     THEN AssessJudged(previous, t, ev.claims[t], ev.answers[t])
                     ELSE AssessRecorded(previous, t, ev.claims[t]))
                      \in [status: Statuses, freshness: Freshness, current: BOOLEAN]
  BY DEF Assessments, AssessmentSet
<1>1. \A s \in Statuses : FreshAssessment(s)
                            \in [status: Statuses, freshness: Freshness, current: BOOLEAN]
  BY DEF FreshAssessment, Statuses, Freshness
<1>2. \A claim : CarriedAssessment(previous, t, claim)
                   \in [status: Statuses, freshness: Freshness, current: BOOLEAN]
  <2>1. CASE previous # NoAudit
    <3>1. previous.criteria[t] \in [status: Statuses, freshness: Freshness]
      BY <2>1 DEF AuditResults
    <3>2. QED  BY <3>1 DEF CarriedAssessment, Statuses, Freshness
  <2>2. CASE previous = NoAudit
    BY <2>2 DEF CarriedAssessment, Statuses, Freshness
  <2>3. QED  BY <2>1, <2>2
<1>3. QED
  BY <1>1, <1>2 DEF AssessJudged, AssessRecorded, Statuses

(* The verdicts are well formed, and the outcomes that matter come only    *)
(* from where auditor.ts may give them.                                    *)
LEMMA CompletionVerdictFacts ==
  ASSUME NEW a \in AssessmentSet, NEW ev \in Evidence
  PROVE  LET v == CompletionVerdict(a, ev)
         IN /\ v \in Verdicts
            /\ v.outcome \in {"fix_regression", "waiting_human", "completed", "verify"}
<1>1. /\ CurrentWith(a, "fail") \subseteq Targets
      /\ CurrentWith(a, "unknown") \subseteq Targets
      /\ LowConfidence(a, ev) \subseteq Targets
      /\ Criteria \subseteq Targets
  BY DEF CurrentWith, LowConfidence, Targets, Criteria
<1>2. QED
  BY <1>1 DEF CompletionVerdict, Verdict, Verdicts, Outcomes

LEMMA ProgressVerdictFacts ==
  ASSUME NEW a \in AssessmentSet, NEW ev \in Evidence, NEW focus \in SUBSET Targets,
         NEW progress \in BOOLEAN, NEW stalled \in Nat, NEW replans \in Nat
  PROVE  LET v == ProgressVerdict(a, ev, focus, progress, stalled, replans)
         IN /\ v \in Verdicts
            /\ v.outcome # "completed"
            /\ v.outcome = "replan" => replans = 0 /\ ~progress /\ stalled + 1 >= PlateauWindow
            /\ v.outcome = "continue" => progress \/ stalled + 1 < PlateauWindow
<1>1. /\ CurrentWith(a, "fail") \subseteq Targets
      /\ CurrentWith(a, "unknown") \subseteq Targets
      /\ LowConfidence(a, ev) \subseteq Targets
      /\ Criteria \subseteq Targets
      /\ {t \in Targets : ~a[t].current \/ a[t].status # "pass"} \subseteq Targets
  BY DEF CurrentWith, LowConfidence, Targets, Criteria
<1>2. QED
  BY <1>1, WindowAssumption DEF ProgressVerdict, Verdict, Verdicts, Outcomes, Plateaued,
     Escalation

(* What the audit command may record: a well-formed result for the loaded  *)
(* order and spec, "completed" only for a completion order, "replan" only  *)
(* on a full window when no replan was spent, "continue" only while the    *)
(* window has room.                                                        *)
LEMMA AuditRoundFacts ==
  ASSUME NEW basis \in Bases, NEW order \in WorkOrders, NEW ev \in Evidence
  PROVE  LET r == AuditRound(basis, order, ev)
         IN /\ r \in AuditResults
            /\ r.round_number = order.round_number
            /\ r.spec_revision = basis.spec.revision
            /\ r.audit_mode = "completion" <=> order.mode = "completion"
            /\ r.outcome = "completed" => order.mode = "completion"
            /\ r.outcome = "replan" =>
                 /\ basis.plateau_replans = 0
                 /\ ~r.material_progress /\ basis.consecutive_stalled + 1 >= PlateauWindow
            /\ r.outcome = "continue" =>
                 r.material_progress \/ basis.consecutive_stalled + 1 < PlateauWindow
<1> DEFINE previous == IF basis.last_audit # NoAudit
                          /\ basis.last_audit.spec_revision = basis.spec.revision
                       THEN basis.last_audit ELSE NoAudit
           a        == Assessments(previous, ev)
           progress == MaterialProgress(a, previous, ev)
           vc       == CompletionVerdict(a, ev)
           vp       == ProgressVerdict(a, ev, order.focus_criteria, progress,
                                       basis.consecutive_stalled, basis.plateau_replans)
           verdict  == IF order.mode = "completion" THEN vc ELSE vp
           paused   == /\ verdict.outcome # "completed"
                       /\ BudgetReached(basis.spec, basis.cumulative_wall_ms + ev.wall_ms,
                             basis.cumulative_provider_tokens + ev.provider_tokens)
           r        == AuditRound(basis, order, ev)
<1>1. previous \in AuditResults \cup {NoAudit}
  BY DEF Bases
<1>2. a \in AssessmentSet
  BY <1>1, AssessmentsType
<1>3. progress \in BOOLEAN
  BY DEF MaterialProgress
<1>4. /\ vc \in Verdicts
      /\ vc.outcome \in {"fix_regression", "waiting_human", "completed", "verify"}
  BY <1>2, CompletionVerdictFacts
<1>5. /\ vp \in Verdicts
      /\ vp.outcome # "completed"
      /\ vp.outcome = "replan" =>
           /\ basis.plateau_replans = 0
           /\ ~progress /\ basis.consecutive_stalled + 1 >= PlateauWindow
      /\ vp.outcome = "continue" =>
           progress \/ basis.consecutive_stalled + 1 < PlateauWindow
  <2>1. order.focus_criteria \in SUBSET Targets
    BY DEF WorkOrders
  <2>2. basis.consecutive_stalled \in Nat /\ basis.plateau_replans \in Nat
    BY DEF Bases
  <2>3. QED  BY <1>2, <1>3, <2>1, <2>2, ProgressVerdictFacts
<1>6. [t \in Targets |-> [status |-> a[t].status, freshness |-> a[t].freshness]]
        \in [Targets -> [status: Statuses, freshness: Freshness]]
  BY <1>2 DEF AssessmentSet
<1>7. basis.spec.revision \in Nat /\ order.round_number \in Nat
  BY DEF Bases, Specs, WorkOrders
<1>8. r = [round_number      |-> order.round_number,
           spec_revision     |-> basis.spec.revision,
           audit_mode        |-> IF order.mode = "completion" THEN "completion" ELSE "progress",
           outcome           |-> IF paused THEN "budget_paused" ELSE verdict.outcome,
           criteria          |-> [t \in Targets |-> [status    |-> a[t].status,
                                                     freshness |-> a[t].freshness]],
           focus_criteria    |-> IF paused THEN {} ELSE verdict.focus,
           material_progress |-> progress]
  BY DEF AuditRound
<1>9. verdict \in Verdicts
  BY <1>4, <1>5
<1> HIDE DEF previous, a, progress, vc, vp, paused, r
<1>10. r \in AuditResults
  BY <1>3, <1>6, <1>7, <1>8, <1>9 DEF AuditResults, Verdicts, Outcomes
<1>11. QED
  BY <1>3, <1>4, <1>5, <1>8, <1>10 DEF r
-----------------------------------------------------------------------------
(* Type correctness.                                                       *)

(* The evidence a round may submit is evidence.                            *)
LEMMA RoundEvidenceType ==
  ASSUME NEW order \in WorkOrders, NEW ev \in RoundEvidence(order)
  PROVE  /\ ev \in Evidence
         /\ ev.wall_ms \in Nat /\ ev.provider_tokens \in Nat
<1>1. order.max_wall_ms \in Nat
  BY DEF WorkOrders
<1>2. RoundTokens \subseteq Nat
  BY BudgetAssumption
<1>3. ev.answers \in [Judged -> Answers]
  <2>1. ev.answers \in AnswersTo(order)
    BY DEF RoundEvidence
  <2>2. AnswersTo(order) \subseteq [Judged -> Answers]
    BY Zenon DEF AnswersTo
  <2>3. QED  BY <2>1, <2>2
<1>4. ev.wall_ms \in Nat /\ ev.provider_tokens \in Nat
  <2>1. ev.wall_ms \in 0..order.max_wall_ms /\ ev.provider_tokens \in RoundTokens
    BY DEF RoundEvidence
  <2>2. \A n \in Nat : 0..n \subseteq Nat
    OBVIOUS
  <2>3. QED  BY <1>1, <1>2, <2>1, <2>2, Zenon
<1>5. ev = [claims |-> ev.claims, answers |-> ev.answers,
            known_failures |-> ev.known_failures, gain |-> ev.gain,
            wall_ms |-> ev.wall_ms, provider_tokens |-> ev.provider_tokens]
  BY DEF RoundEvidence
<1>6. ev.claims \in [Targets -> Claims] /\ ev.known_failures \in BOOLEAN
        /\ ev.gain \in BOOLEAN
  BY DEF RoundEvidence
<1>7. QED
  BY <1>3, <1>4, <1>5, <1>6, Zenon DEF Evidence

(* A command that runs is one of the two kinds, with its order.            *)
LEMMA CommandType ==
  ASSUME TypeOK, NEW c \in Clients
  PROVE  /\ work[c].cmd = "next" => work[c].order \in WorkOrders
         /\ work[c].cmd = "audit" => work[c].order \in WorkOrders /\ work[c].basis \in Bases
BY DEF TypeOK, Idle, NextCommands, AuditCommands

(* What the planner builds is a work order.                                *)
LEMMA BuiltOrderType ==
  ASSUME TypeOK, NEW focus \in SUBSET Targets, NEW maxWall \in Nat
  PROVE  BuildRoundWorkOrder(focus, maxWall) \in WorkOrders
<1>1. last_audit # NoAudit => last_audit.outcome \in Outcomes
  BY DEF TypeOK, AuditResults
<1>2. ExpectedMode \in Modes
  BY DEF ExpectedMode, AuditOfSpec, Modes
<1>3. last_round \in Nat /\ spec.revision \in Nat
  BY DEF TypeOK, Specs
<1>4. QED
  BY <1>2, <1>3 DEF BuildRoundWorkOrder, WorkOrders

LEMMA InitType == Init => TypeOK
<1> SUFFICES ASSUME Init PROVE TypeOK
  OBVIOUS
<1>1. spec \in Specs
  BY BudgetAssumption DEF Init, SpecOf, Specs
<1>2. QED
  BY <1>1 DEF Init, TypeOK, LoopStatus

LEMMA StepType == TypeOK /\ [Next]_vars => TypeOK'
<1> SUFFICES ASSUME TypeOK, [Next]_vars PROVE TypeOK'
  OBVIOUS
<1>1. ASSUME NEW c \in Clients, BeginNext(c) PROVE TypeOK'
  <2>1. PICK focus \in SUBSET Targets, maxWall \in 1..PerRoundWall :
          work' = [work EXCEPT ![c] =
                     [cmd |-> "next", order |-> BuildRoundWorkOrder(focus, maxWall)]]
    BY <1>1 DEF BeginNext
  <2>2. BuildRoundWorkOrder(focus, maxWall) \in WorkOrders
    BY BudgetAssumption, BuiltOrderType
  <2>3. work' \in [Clients -> {Idle} \cup NextCommands \cup AuditCommands]
    BY <2>1, <2>2 DEF TypeOK, NextCommands
  <2>4. QED  BY <1>1, <2>3 DEF BeginNext, TypeOK, loopVars
<1>2. ASSUME NEW c \in Clients, FinishNext(c) PROVE TypeOK'
  <2>1. work[c].order \in WorkOrders
    BY <1>2, CommandType DEF FinishNext
  <2>2. work[c].order.round_number \in Nat
    BY <2>1 DEF WorkOrders
  <2>3. work' \in [Clients -> {Idle} \cup NextCommands \cup AuditCommands]
    BY <1>2 DEF FinishNext, TypeOK
  <2>4. QED  BY <1>2, <2>1, <2>2, <2>3 DEF FinishNext, Issue, TypeOK, LoopStatus
<1>3. ASSUME NEW c \in Clients, BeginAudit(c) PROVE TypeOK'
  <2>1. Basis \in Bases
    BY DEF Basis, Bases, TypeOK
  <2>2. active_order \in WorkOrders
    BY <1>3 DEF BeginAudit, TypeOK
  <2>3. work' \in [Clients -> {Idle} \cup NextCommands \cup AuditCommands]
    BY <1>3, <2>1, <2>2 DEF BeginAudit, TypeOK, AuditCommands
  <2>4. QED  BY <1>3, <2>3 DEF BeginAudit, TypeOK, loopVars
<1>4. ASSUME NEW c \in Clients, FinishAudit(c) PROVE TypeOK'
  <2>1. work[c].order \in WorkOrders /\ work[c].basis \in Bases
    BY <1>4, CommandType DEF FinishAudit
  <2>2. PICK ev \in RoundEvidence(work[c].order) :
          Audit(work[c].order, AuditRound(work[c].basis, work[c].order, ev), ev)
    BY <1>4 DEF FinishAudit
  <2>3. ev \in Evidence /\ ev.wall_ms \in Nat /\ ev.provider_tokens \in Nat
    BY <2>1, RoundEvidenceType
  <2> DEFINE result == AuditRound(work[c].basis, work[c].order, ev)
  <2>4. result \in AuditResults
    BY <2>1, <2>3, AuditRoundFacts
  <2>5. Audit(work[c].order, result, ev)
    BY <2>2
  <2> HIDE DEF result
  <2>6. StatusAfter(result.outcome) \in LoopStatus
    BY DEF StatusAfter, LoopStatus
  <2>7. work' \in [Clients -> {Idle} \cup NextCommands \cup AuditCommands]
    BY <1>4 DEF FinishAudit, TypeOK
  <2>8. QED  BY <2>3, <2>4, <2>5, <2>6, <2>7 DEF Audit, TypeOK
<1>5. ASSUME NEW c \in Clients, GiveUp(c) PROVE TypeOK'
  BY <1>5 DEF GiveUp, TypeOK, loopVars
<1>6. ASSUME Resume PROVE TypeOK'
  BY <1>6 DEF Resume, TypeOK, LoopStatus
<1>7. ASSUME ApproveSpec PROVE TypeOK'
  <2>1. spec' \in Specs
    BY <1>7, BudgetAssumption DEF ApproveSpec, SpecOf, Specs, TypeOK
  <2>2. QED  BY <1>7, <2>1 DEF ApproveSpec, TypeOK, LoopStatus
<1>8. ASSUME Abort PROVE TypeOK'
  BY <1>8 DEF Abort, TypeOK, LoopStatus
<1>9. ASSUME UNCHANGED vars PROVE TypeOK'
  BY <1>9 DEF vars, TypeOK
<1>10. QED
  BY <1>1, <1>2, <1>3, <1>4, <1>5, <1>6, <1>7, <1>8, <1>9 DEF Next

(* The loop state always has the shape state-machine.ts declares.          *)
THEOREM TypeCorrect == Spec => []TypeOK
BY InitType, StepType, PTL DEF Spec
-----------------------------------------------------------------------------
(* The inductive invariant.                                                *)

(* What a client sees of a step that leaves the loop state and its own     *)
(* command alone.                                                          *)
LEMMA LoopUnchanged ==
  ASSUME LoopInv, UNCHANGED loopVars
  PROVE  LoopInv'
BY DEF LoopInv, ActiveOrderIsCurrent, AuditMatchesStatus, OrderAnswersAudit, AuditOfSpec,
       RequiredNextFocus, CompletionUnderBudget, SpentNeedsPause, BudgetReached,
       ReplansOnce, PlateauNeverContinues, loopVars

LEMMA CommandUnchanged ==
  ASSUME NEW c \in Clients, NextCommandSound(c), AuditCommandSound(c),
         UNCHANGED loopVars, work'[c] = work[c]
  PROVE  NextCommandSound(c)' /\ AuditCommandSound(c)'
BY DEF NextCommandSound, AuditCommandSound, ExpectedMode, RequiredNextFocus,
       AuditOfSpec, Basis, loopVars

(* An audit that is recorded was computed from the state it is recorded on. *)
LEMMA FinishAuditEffect ==
  ASSUME IInv, NEW c \in Clients, FinishAudit(c)
  PROVE  \E ev \in Evidence, result \in AuditResults :
           /\ ev.wall_ms \in Nat /\ ev.provider_tokens \in Nat
           /\ active_order \in WorkOrders
           /\ work[c].cmd = "audit" /\ work[c].order = active_order
           /\ work[c].basis = Basis
           /\ result = AuditRound(Basis, active_order, ev)
           /\ Audit(active_order, result, ev)
           /\ result.outcome = "replan" =>
                /\ plateau_replans = 0
                /\ ~result.material_progress /\ consecutive_stalled + 1 >= PlateauWindow
           /\ result.outcome = "continue" =>
                result.material_progress \/ consecutive_stalled + 1 < PlateauWindow
<1>1. TypeOK /\ AuditCommandSound(c)
  BY DEF IInv
<1>2. work[c].cmd = "audit" /\ work[c].order \in WorkOrders /\ work[c].basis \in Bases
  BY <1>1, CommandType DEF FinishAudit
<1>3. PICK ev \in RoundEvidence(work[c].order) :
        Audit(work[c].order, AuditRound(work[c].basis, work[c].order, ev), ev)
  BY DEF FinishAudit
<1>4. work[c].order = active_order
  BY <1>3 DEF Audit, BoundToActiveRound
<1>5. work[c].basis = Basis
  BY <1>1, <1>2, <1>4 DEF AuditCommandSound
<1>6. ev \in Evidence /\ ev.wall_ms \in Nat /\ ev.provider_tokens \in Nat
  BY <1>2, RoundEvidenceType
<1> DEFINE result == AuditRound(Basis, active_order, ev)
<1>7. /\ result \in AuditResults
      /\ result.outcome = "replan" =>
           /\ Basis.plateau_replans = 0
           /\ ~result.material_progress /\ Basis.consecutive_stalled + 1 >= PlateauWindow
      /\ result.outcome = "continue" =>
           result.material_progress \/ Basis.consecutive_stalled + 1 < PlateauWindow
  BY <1>2, <1>4, <1>5, <1>6, AuditRoundFacts
<1>8. /\ Basis.plateau_replans = plateau_replans
      /\ Basis.consecutive_stalled = consecutive_stalled
  BY DEF Basis
<1>9. Audit(active_order, result, ev)
  BY <1>3, <1>4, <1>5
<1>10. result = AuditRound(Basis, active_order, ev)
  OBVIOUS
<1> HIDE DEF result
<1>11. QED
  BY <1>2, <1>4, <1>5, <1>6, <1>7, <1>8, <1>9, <1>10

LEMMA InitInv == Init => IInv
<1> SUFFICES ASSUME Init PROVE IInv
  OBVIOUS
<1>1. TypeOK
  BY InitType
<1>2. LoopInv
  BY WindowAssumption DEF Init, LoopInv, ActiveOrderIsCurrent, AuditMatchesStatus,
     OrderAnswersAudit, CompletionUnderBudget, SpentNeedsPause, ReplansOnce,
     PlateauNeverContinues, AuditOfSpec
<1>3. \A c \in Clients : NextCommandSound(c) /\ AuditCommandSound(c)
  BY DEF Init, Idle, NextCommandSound, AuditCommandSound
<1>4. QED
  BY <1>1, <1>2, <1>3 DEF IInv
(* Issuing an order: the loaded plan still answers the latest audit.       *)
LEMMA FinishNextLoop ==
  ASSUME IInv, NEW c \in Clients, FinishNext(c)
  PROVE  LoopInv'
<1> DEFINE order == work[c].order
<1>1. /\ TypeOK /\ LoopInv /\ NextCommandSound(c)
      /\ work[c].cmd = "next" /\ Issue(order)
  BY DEF IInv, FinishNext
<1>2. order \in WorkOrders
  BY <1>1, CommandType
<1>3. /\ order.mode = ExpectedMode
      /\ order.mode # "completion" => RequiredNextFocus \subseteq order.focus_criteria
  BY <1>1 DEF NextCommandSound, Issue, OrderMatchesState
<1> HIDE DEF order
<1>4. ActiveOrderIsCurrent'
  BY <1>1, <1>2, NoOrderAssumption DEF ActiveOrderIsCurrent, Issue, OrderMatchesState
<1>5. AuditMatchesStatus'
  BY <1>1 DEF LoopInv, AuditMatchesStatus, Issue
<1>6. OrderAnswersAudit'
  BY <1>1, <1>3 DEF LoopInv, OrderAnswersAudit, AuditMatchesStatus, Issue, ExpectedMode,
     RequiredNextFocus, AuditOfSpec
<1>7. CompletionUnderBudget'
  BY <1>1 DEF LoopInv, CompletionUnderBudget, Issue, OrderMatchesState
<1>8. SpentNeedsPause'
  BY <1>1 DEF LoopInv, SpentNeedsPause, BudgetReached, Issue
<1>9. ReplansOnce' /\ PlateauNeverContinues'
  BY <1>1 DEF LoopInv, ReplansOnce, PlateauNeverContinues, AuditOfSpec, Issue
<1>10. QED
  BY <1>4, <1>5, <1>6, <1>7, <1>8, <1>9 DEF LoopInv

(* Recording an audit: its outcome fits the state it is recorded on.       *)
LEMMA FinishAuditLoop ==
  ASSUME IInv, NEW c \in Clients, FinishAudit(c)
  PROVE  LoopInv'
<1>1. TypeOK /\ LoopInv
  BY DEF IInv
<1>2. PICK ev \in Evidence, result \in AuditResults :
           /\ ev.wall_ms \in Nat /\ ev.provider_tokens \in Nat
           /\ Audit(active_order, result, ev)
           /\ result.outcome = "replan" =>
                /\ plateau_replans = 0
                /\ ~result.material_progress /\ consecutive_stalled + 1 >= PlateauWindow
           /\ result.outcome = "continue" =>
                result.material_progress \/ consecutive_stalled + 1 < PlateauWindow
  BY FinishAuditEffect
<1>3. /\ result # NoAudit
      /\ result.outcome \in Outcomes
      /\ result.spec_revision = spec.revision
      /\ spec' = spec /\ last_audit' = result /\ active_order' = NoOrder
      /\ status' = StatusAfter(result.outcome) /\ status' # "issued"
  BY <1>2, NoAuditAssumption DEF Audit, BoundToActiveRound, StatusAfter, AuditResults
<1>4. ActiveOrderIsCurrent'
  BY <1>3 DEF ActiveOrderIsCurrent
<1>5. AuditMatchesStatus'
  BY <1>3 DEF AuditMatchesStatus, StatusAfter
<1>6. OrderAnswersAudit'
  BY <1>3 DEF OrderAnswersAudit
<1>7. BudgetReached(spec', cumulative_wall_ms', cumulative_provider_tokens')
        => result.outcome \in {"budget_paused", "completed"}
  BY <1>2 DEF Audit, BudgetRespected, BudgetReached
<1>8. SpentNeedsPause'
  BY <1>3, <1>7 DEF SpentNeedsPause, StatusAfter
<1>9. CompletionUnderBudget'
  <2>1. /\ cumulative_wall_ms' \in Nat /\ cumulative_provider_tokens' \in Nat
        /\ spec'.pause_total_wall_ms \in Nat /\ spec'.pause_total_provider_tokens \in Nat
    BY <1>1, <1>2, <1>3 DEF Audit, TypeOK, Specs
  <2>2. status' = "completion_pending" => result.outcome = "verify"
    BY <1>3 DEF StatusAfter
  <2>3. QED  BY <1>3, <1>7, <2>1, <2>2 DEF CompletionUnderBudget, BudgetReached
<1>10. ReplansOnce'
  BY <1>1, <1>2 DEF LoopInv, ReplansOnce, Audit
<1>11. PlateauNeverContinues'
  BY <1>1, <1>2, <1>3, WindowAssumption DEF PlateauNeverContinues, Audit, TypeOK
<1>12. QED
  BY <1>4, <1>5, <1>6, <1>8, <1>9, <1>10, <1>11 DEF LoopInv

(* The commands of a human: resume, approve a revised spec, abort.         *)
LEMMA HumanLoop ==
  ASSUME IInv, Resume \/ ApproveSpec \/ Abort
  PROVE  LoopInv'
<1>1. TypeOK /\ LoopInv
  BY DEF IInv
<1>2. CASE Resume
  BY <1>1, <1>2 DEF Resume, LoopInv, ActiveOrderIsCurrent, AuditMatchesStatus,
     OrderAnswersAudit, CompletionUnderBudget, SpentNeedsPause, ReplansOnce,
     PlateauNeverContinues, AuditOfSpec, RequiredNextFocus, BudgetReached
<1>3. CASE ApproveSpec
  <2>1. active_order = NoOrder
    BY <1>1, <1>3 DEF ApproveSpec, LoopInv, ActiveOrderIsCurrent
  <2>2. QED
    BY <1>1, <1>3, <2>1, WindowAssumption DEF ApproveSpec, LoopInv, ActiveOrderIsCurrent,
       AuditMatchesStatus, OrderAnswersAudit, CompletionUnderBudget, SpentNeedsPause,
       ReplansOnce, PlateauNeverContinues, AuditOfSpec
<1>4. CASE Abort
  BY <1>1, <1>4 DEF Abort, LoopInv, ActiveOrderIsCurrent, AuditMatchesStatus,
     OrderAnswersAudit, CompletionUnderBudget, SpentNeedsPause, ReplansOnce,
     PlateauNeverContinues, AuditOfSpec
<1>5. QED
  BY <1>2, <1>3, <1>4
(* What a step does to a command that was running before it and is after.  *)
LEMMA CommandSurvives ==
  ASSUME IInv, NEW d \in Clients, work'[d] = work[d],
         \/ \E c \in Clients : FinishNext(c) \/ FinishAudit(c)
         \/ Resume \/ ApproveSpec \/ Abort
  PROVE  NextCommandSound(d)' /\ AuditCommandSound(d)'
<1>1. TypeOK /\ LoopInv /\ NextCommandSound(d) /\ AuditCommandSound(d)
  BY DEF IInv
<1>2. work[d].cmd = "next" =>
        /\ work[d].order \in WorkOrders
        /\ work[d].order.round_number \in Nat /\ work[d].order.spec_revision \in Nat
  BY <1>1, CommandType DEF WorkOrders
<1>3. work[d].cmd = "audit" => /\ work[d].order \in WorkOrders
                               /\ work[d].order.round_number \in Nat
  BY <1>1, CommandType DEF WorkOrders
<1>4. last_round \in Nat /\ spec.revision \in Nat
  BY <1>1 DEF TypeOK, Specs
<1>5. ASSUME NEW c \in Clients, FinishNext(c)
      PROVE  NextCommandSound(d)' /\ AuditCommandSound(d)'
  <2> DEFINE order == work[c].order
  <2>1. /\ Issue(order) /\ order.round_number = last_round + 1
        /\ active_order' = order /\ last_round' = last_round + 1 /\ UNCHANGED spec
        /\ status' = "issued"
    BY <1>5 DEF FinishNext, Issue, OrderMatchesState
  <2> HIDE DEF order
  <2>2. NextCommandSound(d)'
    BY <1>1, <1>2, <1>4, <2>1 DEF NextCommandSound
  <2>3. AuditCommandSound(d)'
    BY <1>1, <1>3, <1>4, <2>1 DEF AuditCommandSound
  <2>4. QED  BY <2>2, <2>3
<1>6. ASSUME NEW c \in Clients, FinishAudit(c)
      PROVE  NextCommandSound(d)' /\ AuditCommandSound(d)'
  <2>1. /\ status = "issued" /\ status' # "issued" /\ active_order' = NoOrder
        /\ UNCHANGED <<spec, last_round>>
    BY <1>6, FinishAuditEffect DEF Audit, StatusAfter
  <2>2. NextCommandSound(d)'
    BY <1>1, <1>2, <1>4, <2>1 DEF NextCommandSound
  <2>3. AuditCommandSound(d)'
    BY <1>1, <1>3, <2>1, NoOrderAssumption DEF AuditCommandSound
  <2>4. QED  BY <2>2, <2>3
<1>7. ASSUME Resume
      PROVE  NextCommandSound(d)' /\ AuditCommandSound(d)'
  <2>1. NextCommandSound(d)'
    BY <1>1, <1>7 DEF NextCommandSound, Resume
  <2>2. AuditCommandSound(d)'
    BY <1>1, <1>7 DEF AuditCommandSound, Resume, Basis
  <2>3. QED  BY <2>1, <2>2
<1>8. ASSUME ApproveSpec
      PROVE  NextCommandSound(d)' /\ AuditCommandSound(d)'
  <2>1. /\ spec'.revision = spec.revision + 1 /\ UNCHANGED <<last_round, active_order>>
        /\ active_order = NoOrder
    BY <1>1, <1>8 DEF ApproveSpec, SpecOf, LoopInv, ActiveOrderIsCurrent
  <2>2. NextCommandSound(d)'
    BY <1>1, <1>2, <1>4, <2>1 DEF NextCommandSound
  <2>3. AuditCommandSound(d)'
    BY <1>1, <1>3, <2>1, NoOrderAssumption DEF AuditCommandSound
  <2>4. QED  BY <2>2, <2>3
<1>9. ASSUME Abort
      PROVE  NextCommandSound(d)' /\ AuditCommandSound(d)'
  <2>1. NextCommandSound(d)'
    BY <1>1, <1>9 DEF NextCommandSound, Abort
  <2>2. AuditCommandSound(d)'
    BY <1>1, <1>3, <1>9, NoOrderAssumption DEF AuditCommandSound, Abort
  <2>3. QED  BY <2>1, <2>2
<1>10. QED
  BY <1>5, <1>6, <1>7, <1>8, <1>9

LEMMA StepInv == IInv /\ [Next]_vars => IInv'
<1> SUFFICES ASSUME IInv, [Next]_vars PROVE IInv'
  OBVIOUS
<1> DEFINE Sound(d) == NextCommandSound(d) /\ AuditCommandSound(d)
<1>1. TypeOK /\ LoopInv /\ work \in [Clients -> {Idle} \cup NextCommands \cup AuditCommands]
  BY DEF IInv, TypeOK
<1>2. TypeOK'
  BY <1>1, StepType
<1>3. \A d \in Clients : work'[d] = Idle => Sound(d)'
  BY DEF Idle, NextCommandSound, AuditCommandSound
<1>4. UNCHANGED loopVars => \A d \in Clients : work'[d] = work[d] => Sound(d)'
  BY CommandUnchanged DEF IInv
<1>5. ASSUME NEW c \in Clients, BeginNext(c)
      PROVE  LoopInv' /\ \A d \in Clients : Sound(d)'
  <2>1. PICK focus \in SUBSET Targets, maxWall \in 1..PerRoundWall :
          /\ PlanAccepted(focus, maxWall)
          /\ work' = [work EXCEPT ![c] =
                       [cmd |-> "next", order |-> BuildRoundWorkOrder(focus, maxWall)]]
    BY <1>5 DEF BeginNext
  <2>2. UNCHANGED loopVars /\ status \in {"ready", "completion_pending"}
    BY <1>5 DEF BeginNext
  <2>3. work'[c] = [cmd |-> "next", order |-> BuildRoundWorkOrder(focus, maxWall)]
    BY <1>1, <2>1
  <2>4. ExpectedMode = "completion" <=> status = "completion_pending"
    BY DEF ExpectedMode
  <2>5. NextCommandSound(c)'
    <3>1. last_round \in Nat /\ spec.revision \in Nat
      BY <1>1 DEF TypeOK, Specs
    <3>2. UNCHANGED <<spec, status, last_round, ExpectedMode, RequiredNextFocus>>
      BY <2>2 DEF loopVars, ExpectedMode, RequiredNextFocus, AuditOfSpec
    <3>3. ExpectedMode # "completion" => RequiredNextFocus \subseteq focus
      BY <2>1 DEF PlanAccepted
    <3>4. QED
      BY <2>2, <2>3, <3>1, <3>2, <3>3 DEF NextCommandSound, BuildRoundWorkOrder
  <2>6. AuditCommandSound(c)'
    BY <2>3 DEF AuditCommandSound
  <2>7. \A d \in Clients \ {c} : work'[d] = work[d]
    BY <1>1, <2>1
  <2>8. QED  BY <1>1, <1>4, <2>2, <2>5, <2>6, <2>7, LoopUnchanged
<1>6. ASSUME NEW c \in Clients, FinishNext(c)
      PROVE  LoopInv' /\ \A d \in Clients : Sound(d)'
  <2>1. \A d \in Clients : work'[d] = Idle \/ work'[d] = work[d]
    BY <1>1, <1>6 DEF FinishNext
  <2>2. QED  BY <1>3, <1>6, <2>1, FinishNextLoop, CommandSurvives
<1>7. ASSUME NEW c \in Clients, BeginAudit(c)
      PROVE  LoopInv' /\ \A d \in Clients : Sound(d)'
  <2>1. /\ UNCHANGED loopVars
        /\ work'[c] = [cmd |-> "audit", order |-> active_order, basis |-> Basis]
        /\ active_order \in WorkOrders /\ active_order.round_number = last_round
    BY <1>1, <1>7 DEF BeginAudit, TypeOK, LoopInv, ActiveOrderIsCurrent
  <2>2. UNCHANGED <<active_order, last_round, Basis>> /\ last_round \in Nat
    BY <1>1, <2>1 DEF loopVars, Basis, TypeOK
  <2>3. Sound(c)'
    BY <2>1, <2>2 DEF NextCommandSound, AuditCommandSound
  <2>4. \A d \in Clients \ {c} : work'[d] = work[d]
    BY <1>1, <1>7 DEF BeginAudit
  <2>5. QED  BY <1>1, <1>4, <2>1, <2>3, <2>4, LoopUnchanged
<1>8. ASSUME NEW c \in Clients, FinishAudit(c)
      PROVE  LoopInv' /\ \A d \in Clients : Sound(d)'
  <2>1. \A d \in Clients : work'[d] = Idle \/ work'[d] = work[d]
    BY <1>1, <1>8 DEF FinishAudit
  <2>2. QED  BY <1>3, <1>8, <2>1, FinishAuditLoop, CommandSurvives
<1>9. ASSUME NEW c \in Clients, GiveUp(c)
      PROVE  LoopInv' /\ \A d \in Clients : Sound(d)'
  <2>1. UNCHANGED loopVars /\ \A d \in Clients : work'[d] = Idle \/ work'[d] = work[d]
    BY <1>1, <1>9 DEF GiveUp
  <2>2. QED  BY <1>1, <1>3, <1>4, <2>1, LoopUnchanged
<1>10. ASSUME Resume \/ ApproveSpec \/ Abort
       PROVE  LoopInv' /\ \A d \in Clients : Sound(d)'
  <2>1. UNCHANGED work
    BY <1>10 DEF Resume, ApproveSpec, Abort
  <2>2. QED  BY <1>10, <2>1, HumanLoop, CommandSurvives
<1>11. ASSUME UNCHANGED vars
       PROVE  LoopInv' /\ \A d \in Clients : Sound(d)'
  <2>1. UNCHANGED loopVars /\ UNCHANGED work
    BY <1>11 DEF vars, loopVars
  <2>2. QED  BY <1>1, <1>4, <2>1, LoopUnchanged
<1>12. LoopInv' /\ \A d \in Clients : Sound(d)'
  BY <1>5, <1>6, <1>7, <1>8, <1>9, <1>10, <1>11 DEF Next
<1>13. QED
  BY <1>2, <1>12 DEF IInv

(* The inductive invariant holds in every reachable state.                 *)
THEOREM Inductive == Spec => []IInv
BY InitInv, StepInv, PTL DEF Spec
-----------------------------------------------------------------------------
(* What it gives.                                                          *)

(* A total that is spent stops the loop until a human acts, however many   *)
(* clients plan and audit at once (auditor.ts:277-282, state-machine.ts).  *)
THEOREM SpentTotalsNeedHuman == Spec => []OverBudgetNeedsHuman
<1>1. IInv => OverBudgetNeedsHuman
  BY DEF IInv, LoopInv, SpentNeedsPause, BudgetReached, OverBudgetNeedsHuman
<1>2. QED
  BY <1>1, Inductive, PTL

(* No completion round is pending or active over budget.                   *)
THEOREM CompletionStaysUnderBudget == Spec => []CompletionUnderBudget
<1>1. IInv => CompletionUnderBudget
  BY DEF IInv, LoopInv
<1>2. QED
  BY <1>1, Inductive, PTL

(* Every active order answers the latest audit, although it was planned on *)
(* a copy of the state that other clients may have made stale.             *)
THEOREM OrdersAnswerAudits == Spec => []OrderAnswersAudit
<1>1. IInv => OrderAnswersAudit
  BY DEF IInv, LoopInv
<1>2. QED
  BY <1>1, Inductive, PTL

(* A full window is answered with a replan once in a revision and with     *)
(* "continue" never, whichever clients plan, audit and resume meanwhile.   *)
THEOREM PlateauEscalates == Spec => EscalatesOnce
<1> DEFINE A == /\ Replanned => /\ plateau_replans = 0 /\ plateau_replans' = 1
                                /\ consecutive_stalled' >= PlateauWindow
                /\ ~Replanned => plateau_replans' = plateau_replans \/ spec' # spec
                /\ Recorded /\ last_audit'.outcome = "continue"
                     => consecutive_stalled' < PlateauWindow
<1>1. ASSUME IInv, [Next]_vars PROVE [A]_vars
  <2>1. ASSUME NEW c \in Clients, FinishAudit(c) PROVE A
    <3>1. PICK ev \in Evidence, result \in AuditResults :
             /\ Audit(active_order, result, ev)
             /\ result.outcome = "replan" =>
                  /\ plateau_replans = 0
                  /\ ~result.material_progress /\ consecutive_stalled + 1 >= PlateauWindow
             /\ result.outcome = "continue" =>
                  result.material_progress \/ consecutive_stalled + 1 < PlateauWindow
      BY <1>1, <2>1, FinishAuditEffect
    <3>2. /\ last_audit' = result /\ status = "issued" /\ status' = StatusAfter(result.outcome)
          /\ plateau_replans' = IF result.outcome = "replan" THEN plateau_replans + 1
                                ELSE plateau_replans
          /\ consecutive_stalled' = IF result.material_progress THEN 0
                                    ELSE consecutive_stalled + 1
      BY <3>1 DEF Audit
    <3>3. Recorded
      BY <3>2 DEF Recorded, StatusAfter
    <3>4. consecutive_stalled \in Nat
      BY <1>1 DEF IInv, TypeOK
    <3>5. QED  BY <3>1, <3>2, <3>3, <3>4, WindowAssumption DEF Replanned
  <2>2. ASSUME NEW c \in Clients,
               BeginNext(c) \/ FinishNext(c) \/ BeginAudit(c) \/ GiveUp(c)
        PROVE  UNCHANGED plateau_replans /\ (status' = status \/ status' = "issued")
    BY <2>2 DEF BeginNext, FinishNext, Issue, BeginAudit, GiveUp, loopVars
  <2>3. Resume \/ Abort => UNCHANGED plateau_replans /\ ~Recorded
    BY DEF Resume, Abort, Recorded
  <2>4. ApproveSpec => spec' # spec /\ ~Recorded
    BY <1>1 DEF ApproveSpec, Recorded, IInv, TypeOK, Specs, SpecOf
  <2>5. QED
    BY <1>1, <2>1, <2>2, <2>3, <2>4 DEF Next, Replanned, Recorded, vars
<1>2. QED
  BY <1>1, Inductive, PTL DEF Spec, EscalatesOnce

(* A recorded audit was computed from the state it is recorded on.         *)
THEOREM RecordsWhatItLoaded == Spec => AuditsWhatItLoaded
<1> DEFINE A == \A c \in Clients :
                  work[c].cmd = "audit" /\ work'[c] # work[c] /\ last_audit' # last_audit
                    => work[c].basis = Basis
<1>1. ASSUME IInv, [Next]_vars PROVE [A]_vars
  <2>1. ASSUME NEW c \in Clients, FinishAudit(c) PROVE A
    <3>1. work[c].basis = Basis
      BY <1>1, <2>1, FinishAuditEffect
    <3>2. \A d \in Clients \ {c} : work'[d] = work[d]
      BY <1>1, <2>1 DEF FinishAudit, IInv, TypeOK
    <3>3. QED  BY <3>1, <3>2
  <2>2. ASSUME NEW c \in Clients,
               BeginNext(c) \/ FinishNext(c) \/ BeginAudit(c) \/ GiveUp(c)
        PROVE  UNCHANGED last_audit
    BY <2>2 DEF BeginNext, FinishNext, Issue, BeginAudit, GiveUp, loopVars
  <2>3. Resume \/ ApproveSpec \/ Abort => UNCHANGED work
    BY DEF Resume, ApproveSpec, Abort
  <2>4. QED
    BY <1>1, <2>1, <2>2, <2>3 DEF Next
<1>2. QED
  BY <1>1, Inductive, PTL DEF Spec, AuditsWhatItLoaded

(* A loop completes only from a completion round that follows a passing    *)
(* audit of the same spec, with every target passing on fresh evidence.    *)
THEOREM CompletionIsVerified == Spec => CompletesVerified
<1> DEFINE A == status # "completed" /\ status' = "completed" =>
                  /\ active_order.mode = "completion"
                  /\ AuditOfSpec /\ last_audit.outcome = "verify"
                  /\ \A t \in Targets :
                       last_audit'.criteria[t] = [status |-> "pass", freshness |-> "fresh"]
<1>1. ASSUME IInv, [Next]_vars PROVE [A]_vars
  <2>1. ASSUME NEW c \in Clients, FinishAudit(c), status' = "completed" PROVE A
    <3>1. PICK ev \in Evidence, result \in AuditResults :
             Audit(active_order, result, ev)
      BY <1>1, <2>1, FinishAuditEffect
    <3>2. result.outcome = "completed" /\ last_audit' = result /\ status = "issued"
      BY <2>1, <3>1 DEF Audit, StatusAfter
    <3>3. /\ active_order.mode = "completion"
          /\ \A t \in Targets :
               result.criteria[t] = [status |-> "pass", freshness |-> "fresh"]
      BY <3>1, <3>2 DEF Audit, CompletionGate, BoundToActiveRound
    <3>4. AuditOfSpec /\ last_audit.outcome = "verify"
      BY <1>1, <3>2, <3>3 DEF IInv, LoopInv, OrderAnswersAudit
    <3>5. QED  BY <3>2, <3>3, <3>4
  <2>2. ASSUME NEW c \in Clients,
               BeginNext(c) \/ FinishNext(c) \/ BeginAudit(c) \/ GiveUp(c)
        PROVE  status' = status \/ status' = "issued"
    BY <2>2 DEF BeginNext, FinishNext, Issue, BeginAudit, GiveUp, loopVars
  <2>3. Resume \/ ApproveSpec \/ Abort => status' # "completed"
    BY DEF Resume, ApproveSpec, Abort
  <2>4. QED
    BY <1>1, <2>1, <2>2, <2>3 DEF Next, vars
<1>2. QED
  BY <1>1, Inductive, PTL DEF Spec, CompletesVerified
(* What is carried with a known status was fresh in the previous audit     *)
(* (auditor.ts:64-68).                                                     *)
LEMMA CarriedFromFresh ==
  ASSUME NEW previous \in AuditResults \cup {NoAudit}, NEW ev \in Evidence,
         NEW t \in Targets,
         Assessments(previous, ev)[t].freshness = "carried_forward",
         Assessments(previous, ev)[t].status # "unknown"
  PROVE  /\ previous # NoAudit
         /\ previous.criteria[t] = [status    |-> Assessments(previous, ev)[t].status,
                                    freshness |-> "fresh"]
<1> DEFINE claim == ev.claims[t]
           x     == CarriedAssessment(previous, t, claim)
           a     == Assessments(previous, ev)[t]
<1>1. \A s : FreshAssessment(s).freshness # "carried_forward"
  BY DEF FreshAssessment
<1>2. a \in {x, FreshAssessment("fail"), FreshAssessment("pass"), FreshAssessment("unknown")}
  <2>1. a = IF t \in Judged THEN AssessJudged(previous, t, claim, ev.answers[t])
                            ELSE AssessRecorded(previous, t, claim)
    BY DEF Assessments
  <2>2. QED  BY <2>1 DEF AssessJudged, AssessRecorded
<1>3. a = x
  BY <1>1, <1>2
<1>4. previous # NoAudit /\ previous.criteria[t].freshness = "fresh"
        /\ a.status = previous.criteria[t].status
  BY <1>3 DEF CarriedAssessment
<1>5. previous.criteria[t] \in [status: Statuses, freshness: Freshness]
  BY <1>4 DEF AuditResults
<1>6. QED
  BY <1>4, <1>5

(* No assessment is carried over two audits, nor over a spec revision.     *)
THEOREM NothingCarriedTwice == Spec => CarriedOnce
<1> DEFINE A == last_audit' # last_audit /\ last_audit' # NoAudit =>
       \A t \in Targets :
         /\ last_audit'.criteria[t].freshness = "carried_forward"
         /\ last_audit'.criteria[t].status # "unknown"
         => /\ AuditOfSpec
            /\ last_audit.criteria[t] = [status |-> last_audit'.criteria[t].status,
                                         freshness |-> "fresh"]
<1>1. ASSUME IInv, [Next]_vars PROVE [A]_vars
  <2>1. ASSUME NEW c \in Clients, FinishAudit(c) PROVE A
    <3>1. PICK ev \in Evidence, result \in AuditResults :
             /\ result = AuditRound(Basis, active_order, ev)
             /\ Audit(active_order, result, ev)
      BY <1>1, <2>1, FinishAuditEffect
    <3> DEFINE previous == IF AuditOfSpec THEN last_audit ELSE NoAudit
               a        == Assessments(previous, ev)
    <3>2. previous \in AuditResults \cup {NoAudit}
      BY <1>1 DEF IInv, TypeOK
    <3>3. previous = IF Basis.last_audit # NoAudit
                        /\ Basis.last_audit.spec_revision = Basis.spec.revision
                     THEN Basis.last_audit ELSE NoAudit
      BY DEF Basis, AuditOfSpec
    <3>4. result.criteria = [t \in Targets |-> [status    |-> a[t].status,
                                                freshness |-> a[t].freshness]]
      BY <3>1, <3>3 DEF AuditRound
    <3>5. last_audit' = result
      BY <3>1 DEF Audit
    <3>6. ASSUME NEW t \in Targets,
                 last_audit'.criteria[t].freshness = "carried_forward",
                 last_audit'.criteria[t].status # "unknown"
          PROVE  /\ AuditOfSpec
                 /\ last_audit.criteria[t] = [status |-> last_audit'.criteria[t].status,
                                              freshness |-> "fresh"]
      <4>1. a[t].freshness = "carried_forward" /\ a[t].status # "unknown"
              /\ last_audit'.criteria[t].status = a[t].status
        BY <3>4, <3>5, <3>6
      <4>2. previous # NoAudit
              /\ previous.criteria[t] = [status |-> a[t].status, freshness |-> "fresh"]
        BY <3>2, <4>1, CarriedFromFresh
      <4>3. QED  BY <4>1, <4>2
    <3>7. QED  BY <3>6
  <2>2. ASSUME NEW c \in Clients,
               BeginNext(c) \/ FinishNext(c) \/ BeginAudit(c) \/ GiveUp(c)
        PROVE  UNCHANGED last_audit
    BY <2>2 DEF BeginNext, FinishNext, Issue, BeginAudit, GiveUp, loopVars
  <2>3. Resume \/ ApproveSpec \/ Abort => UNCHANGED last_audit \/ last_audit' = NoAudit
    BY DEF Resume, ApproveSpec, Abort
  <2>4. QED
    BY <1>1, <2>1, <2>2, <2>3 DEF Next, vars
<1>2. QED
  BY <1>1, Inductive, PTL DEF Spec, CarriedOnce
=============================================================================
