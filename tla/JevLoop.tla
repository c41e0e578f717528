------------------------------- MODULE JevLoop -------------------------------
(***************************************************************************)
(* The life of one loop directory: the state machine that replays its      *)
(* event log (src/src/loop/state-machine.ts), the planner that issues work *)
(* orders (planner.ts) and the commands (commands.ts) that several jevrev  *)
(* processes ("clients") may run on it at once.                            *)
(*                                                                         *)
(* A command that needs the state loads it WITHOUT the mutation lock,      *)
(* works on that copy (an audit waits for the judge), and then appends its *)
(* event under the lock, where the event is checked against the state      *)
(* reloaded there.  Loading and appending are therefore separate steps;    *)
(* the append itself is one step, which LoopStore justifies.               *)
(***************************************************************************)
EXTENDS LoopAudit

CONSTANTS
  Clients,        \* processes running loop commands on this directory
  PauseTotals,    \* the <<pause_total_wall_ms, pause_total_provider_tokens>> a spec may freeze
  PerRoundWall,   \* spec.budget.per_round_wall_ms
  RoundTokens,    \* provider tokens one round may use
  MaxFocus,       \* the schema's limit on focus_criteria of a plan or order
  MaxRounds,      \* bound: rounds issued
  MaxRevision,    \* bound: approved spec revisions
  NoOrder         \* active_order = null

ASSUME BudgetAssumption ==
  /\ PauseTotals \subseteq (Nat \X Nat) /\ PauseTotals # {}
  /\ \A totals \in PauseTotals : totals[1] >= PerRoundWall /\ totals[2] > 0
  /\ PerRoundWall \in Nat \ {0} /\ RoundTokens \subseteq Nat
  /\ MaxRounds \in Nat /\ MaxRevision \in Nat
ASSUME FocusAssumption == MaxFocus \in Nat /\ Cardinality(Criteria) <= MaxFocus

VARIABLES
  spec,                        \* the frozen specification: revision and total budgets
  status, last_round, active_order, last_audit,
  cumulative_wall_ms, cumulative_provider_tokens,
  plateau_replans, consecutive_stalled,
  work                         \* client -> the command it is running, on what it loaded

loopVars == <<spec, status, last_round, active_order, last_audit, cumulative_wall_ms,
              cumulative_provider_tokens, plateau_replans, consecutive_stalled>>
vars == <<spec, status, last_round, active_order, last_audit, cumulative_wall_ms,
          cumulative_provider_tokens, plateau_replans, consecutive_stalled, work>>

LoopStatus == {"ready", "issued", "completion_pending", "waiting_human",
               "budget_paused", "completed", "aborted"}

Specs == [revision: Nat, pause_total_wall_ms: Nat, pause_total_provider_tokens: Nat]

SpecOf(revision, totals) ==
  [revision |-> revision, pause_total_wall_ms |-> totals[1],
   pause_total_provider_tokens |-> totals[2]]

WorkOrders == [round_number: Nat, spec_revision: Nat, mode: Modes,
               focus_criteria: SUBSET Targets, max_wall_ms: Nat]

ASSUME NoOrderAssumption == NoOrder \notin WorkOrders

Bases == [spec: Specs, last_audit: AuditResults \cup {NoAudit},
          cumulative_wall_ms: Nat, cumulative_provider_tokens: Nat,
          plateau_replans: Nat, consecutive_stalled: Nat]

Idle == [cmd |-> "idle"]
NextCommands  == [cmd: {"next"}, order: WorkOrders]
AuditCommands == [cmd: {"audit"}, order: WorkOrders, basis: Bases]

(* What auditLoopCommand passes to auditRound.                             *)
Basis == [spec |-> spec, last_audit |-> last_audit,
          cumulative_wall_ms |-> cumulative_wall_ms,
          cumulative_provider_tokens |-> cumulative_provider_tokens,
          plateau_replans |-> plateau_replans,
          consecutive_stalled |-> consecutive_stalled]

Init ==
  /\ \E totals \in PauseTotals : spec = SpecOf(1, totals)
  /\ status = "ready" /\ last_round = 0
  /\ active_order = NoOrder /\ last_audit = NoAudit
  /\ cumulative_wall_ms = 0 /\ cumulative_provider_tokens = 0
  /\ plateau_replans = 0 /\ consecutive_stalled = 0
  /\ work = [c \in Clients |-> Idle]

-----------------------------------------------------------------------------
(* planner.ts: the mode and the focus the previous audit asks for.         *)

AuditOfSpec == last_audit # NoAudit /\ last_audit.spec_revision = spec.revision

ExpectedMode ==
  IF status = "completion_pending" THEN "completion"
  ELSE IF AuditOfSpec /\ last_audit.outcome \in {"fix_regression", "verify", "replan"}
  THEN last_audit.outcome
  ELSE "progress"

RequiredNextFocus == IF AuditOfSpec THEN last_audit.focus_criteria ELSE {}

(* A plan the schema and validateNormalPlan accept, or the completion plan. *)
PlanAccepted(focus, maxWall) ==
  IF ExpectedMode = "completion"
  THEN focus = Criteria /\ maxWall = PerRoundWall
  ELSE /\ focus # {} /\ Cardinality(focus) <= MaxFocus
       /\ RequiredNextFocus \subseteq focus
       /\ maxWall <= PerRoundWall

BuildRoundWorkOrder(focus, maxWall) ==
  [round_number |-> last_round + 1, spec_revision |-> spec.revision,
   mode |-> ExpectedMode, focus_criteria |-> focus, max_wall_ms |-> maxWall]

-----------------------------------------------------------------------------
(* state-machine.ts: the transitions, each checked on the current state.   *)

(* Mutant: an order is accepted whatever round it was built for.           *)
OrderMatchesState_AnyRound(order) ==
  /\ order.spec_revision = spec.revision
  /\ (status = "completion_pending") <=> (order.mode = "completion")

OrderMatchesState(order) ==
  /\ order.spec_revision = spec.revision
  /\ order.round_number = last_round + 1
  /\ (status = "completion_pending") <=> (order.mode = "completion")

Issue(order) ==
  /\ status \in {"ready", "completion_pending"}
  /\ OrderMatchesState(order)
  /\ order.max_wall_ms <= PerRoundWall
  /\ status' = "issued"
  /\ last_round' = order.round_number
  /\ active_order' = order
  /\ UNCHANGED <<spec, last_audit, cumulative_wall_ms, cumulative_provider_tokens,
                 plateau_replans, consecutive_stalled>>

(* Mutant: only the audit mode is compared with the active order.          *)
BoundToActiveRound_ModeOnly(order, result) ==
  (active_order.mode = "completion") <=> (result.audit_mode = "completion")

(* The result and the evidence were made for the round that is active now. *)
BoundToActiveRound(order, result) ==
  /\ result.round_number = last_round
  /\ result.spec_revision = spec.revision
  /\ (active_order.mode = "completion") <=> (result.audit_mode = "completion")
  /\ order = active_order

BudgetRespected(result, ev) ==
  BudgetReached(spec, cumulative_wall_ms + ev.wall_ms,
                cumulative_provider_tokens + ev.provider_tokens)
    => result.outcome \in {"budget_paused", "completed"}

(* Mutant: a repaired regression goes straight to the completion round.    *)
StatusAfter_Eager(outcome) ==
  IF outcome \in {"completed", "waiting_human", "budget_paused"} THEN outcome
  ELSE IF outcome \in {"verify", "continue"} THEN "completion_pending" ELSE "ready"

StatusAfter(outcome) ==
  IF outcome \in {"completed", "waiting_human", "budget_paused"} THEN outcome
  ELSE IF outcome = "verify" THEN "completion_pending" ELSE "ready"

Audit(order, result, ev) ==
  /\ status = "issued"
  /\ BoundToActiveRound(order, result)
  /\ ev.wall_ms <= active_order.max_wall_ms
  /\ BudgetRespected(result, ev)
  /\ result.outcome = "completed" => CompletionGate(result, ev)
  /\ status' = StatusAfter(result.outcome)
  /\ active_order' = NoOrder
  /\ last_audit' = result
  /\ cumulative_wall_ms' = cumulative_wall_ms + ev.wall_ms
  /\ cumulative_provider_tokens' = cumulative_provider_tokens + ev.provider_tokens
  /\ consecutive_stalled' = IF result.material_progress THEN 0 ELSE consecutive_stalled + 1
  /\ plateau_replans' = IF result.outcome = "replan" THEN plateau_replans + 1
                        ELSE plateau_replans
  /\ UNCHANGED <<spec, last_round>>

Resume ==
  /\ status \in {"waiting_human", "budget_paused"}
  /\ status' = "ready"
  /\ UNCHANGED <<spec, last_round, active_order, last_audit, cumulative_wall_ms,
                 cumulative_provider_tokens, plateau_replans, consecutive_stalled, work>>

ApproveSpec ==
  /\ status \in {"ready", "waiting_human", "budget_paused"}
  /\ spec.revision < MaxRevision
  /\ \E totals \in PauseTotals : spec' = SpecOf(spec.revision + 1, totals)
  /\ status' = "ready"
  /\ last_audit' = NoAudit /\ consecutive_stalled' = 0 /\ plateau_replans' = 0
  /\ UNCHANGED <<last_round, active_order, cumulative_wall_ms,
                 cumulative_provider_tokens, work>>

Abort ==
  /\ status \notin {"completed", "aborted"}
  /\ status' = "aborted" /\ active_order' = NoOrder
  /\ UNCHANGED <<spec, last_round, last_audit, cumulative_wall_ms,
                 cumulative_provider_tokens, plateau_replans, consecutive_stalled, work>>

-----------------------------------------------------------------------------
(* commands.ts and issueNextRound: a client loads, then appends.           *)

BeginNext(c) ==
  /\ work[c] = Idle
  /\ status \in {"ready", "completion_pending"}
  /\ last_round < MaxRounds
  /\ \E focus \in SUBSET Targets, maxWall \in 1..PerRoundWall :
       /\ PlanAccepted(focus, maxWall)
       /\ work' = [work EXCEPT ![c] =
                     [cmd |-> "next", order |-> BuildRoundWorkOrder(focus, maxWall)]]
  /\ UNCHANGED loopVars

FinishNext(c) ==
  /\ work[c].cmd = "next"
  /\ Issue(work[c].order)
  /\ work' = [work EXCEPT ![c] = Idle]

BeginAudit(c) ==
  /\ work[c] = Idle
  /\ active_order # NoOrder
  /\ work' = [work EXCEPT ![c] =
                [cmd |-> "audit", order |-> active_order, basis |-> Basis]]
  /\ UNCHANGED loopVars

(* The judge is asked about the judged criteria in the order's focus (all  *)
(* of them in a completion round) and answers each of those.               *)
AnswersTo(order) ==
  {answers \in [Judged -> Answers] :
     \A c \in Judged : (answers[c] = "none") <=>
                       (order.mode # "completion" /\ c \notin order.focus_criteria)}

RoundEvidence(order) ==
  [claims: [Targets -> Claims], answers: AnswersTo(order), known_failures: BOOLEAN,
   gain: BOOLEAN, wall_ms: 0..order.max_wall_ms, provider_tokens: RoundTokens]

FinishAudit(c) ==
  /\ work[c].cmd = "audit"
  /\ \E ev \in RoundEvidence(work[c].order) :
       Audit(work[c].order, AuditRound(work[c].basis, work[c].order, ev), ev)
  /\ work' = [work EXCEPT ![c] = Idle]

(* The command fails before its append: the judge fails, an input or the   *)
(* transition is rejected, the process dies.  Nothing is written.          *)
GiveUp(c) ==
  /\ work[c] # Idle
  /\ work' = [work EXCEPT ![c] = Idle]
  /\ UNCHANGED loopVars

Next ==
  \/ \E c \in Clients : \/ BeginNext(c) \/ FinishNext(c)
                        \/ BeginAudit(c) \/ FinishAudit(c) \/ GiveUp(c)
  \/ Resume \/ ApproveSpec \/ Abort

Spec == Init /\ [][Next]_vars
-----------------------------------------------------------------------------
(* Properties.                                                             *)

(* The loop state and the running commands have the shapes that            *)
(* state-machine.ts and the schemas declare.                               *)
TypeOK ==
  /\ spec \in Specs
  /\ status \in LoopStatus
  /\ last_round \in Nat
  /\ active_order \in WorkOrders \cup {NoOrder}
  /\ last_audit \in AuditResults \cup {NoAudit}
  /\ cumulative_wall_ms \in Nat /\ cumulative_provider_tokens \in Nat
  /\ plateau_replans \in Nat /\ consecutive_stalled \in Nat
  /\ work \in [Clients -> {Idle} \cup NextCommands \cup AuditCommands]

(* An audit is computed outside the lock from a loaded copy while other    *)
(* clients mutate the loop; whenever its result is recorded, the loop is   *)
(* still in the state the result was computed from (commands.ts loads      *)
(* once, state-machine.ts rechecks only the order, round and spec).        *)
AuditsWhatItLoaded ==
  [][\A c \in Clients :
       work[c].cmd = "audit" /\ work'[c] # work[c] /\ last_audit' # last_audit
         => work[c].basis = Basis]_vars

(* The active order answers the latest audit: it has the mode that audit   *)
(* asked for and, unless it is the completion round, covers its focus.     *)
(* The planner checks this on a copy that may be stale; the transition     *)
(* does not check it again.                                                *)
OrderAnswersAudit ==
  status = "issued" =>
    \/ active_order.mode = "completion" /\ AuditOfSpec /\ last_audit.outcome = "verify"
    \/ /\ active_order.mode = (IF AuditOfSpec /\ last_audit.outcome \in
                                   {"fix_regression", "verify", "replan"}
                                THEN last_audit.outcome ELSE "progress")
       /\ RequiredNextFocus \subseteq active_order.focus_criteria

(* A loop completes only out of a completion round that follows a passing  *)
(* audit of the same spec revision, and then every criterion and protected *)
(* surface passes on fresh evidence ("No carried evidence can complete").  *)
CompletesVerified ==
  [][status # "completed" /\ status' = "completed" =>
       /\ active_order.mode = "completion"
       /\ AuditOfSpec /\ last_audit.outcome = "verify"
       /\ \A t \in Targets :
            last_audit'.criteria[t] = [status |-> "pass", freshness |-> "fresh"]]_vars

(* "Completion never follows from ... exhausting budget": a completion     *)
(* round is pending or active only while both totals of the current spec   *)
(* are still unspent.                                                      *)
CompletionUnderBudget ==
  status = "completion_pending" \/ (status = "issued" /\ active_order.mode = "completion")
    => /\ cumulative_wall_ms < spec.pause_total_wall_ms
       /\ cumulative_provider_tokens < spec.pause_total_provider_tokens

(* Once a total is spent, a further round needs a human: the loop is ready *)
(* or issued again only after a budget pause that somebody resumed, or on  *)
(* a newly approved spec.                                                  *)
OverBudgetNeedsHuman ==
  /\ status \in {"ready", "issued"}
  /\ \/ cumulative_wall_ms >= spec.pause_total_wall_ms
     \/ cumulative_provider_tokens >= spec.pause_total_provider_tokens
  => last_audit = NoAudit \/ last_audit.outcome = "budget_paused"

ReplansOnce == plateau_replans <= 1
PlateauNeverContinues ==
  AuditOfSpec /\ last_audit.outcome = "continue" => consecutive_stalled < PlateauWindow

(* "A plateau first yields replan; another plateau ... waiting_human": an  *)
(* audit answers "replan" only on a full window of rounds without material *)
(* progress and once in a revision, which neither progress nor repairs     *)
(* nor resumptions make it forget; and on a full window none answers       *)
(* "continue" (auditor.ts:271-277, state-machine.ts).                      *)
Recorded  == status = "issued" /\ status' \notin {"issued", "aborted"}
Replanned == Recorded /\ last_audit'.outcome = "replan"

EscalatesOnce ==
  [][/\ Replanned => /\ plateau_replans = 0 /\ plateau_replans' = 1
                     /\ consecutive_stalled' >= PlateauWindow
     /\ ~Replanned => plateau_replans' = plateau_replans \/ spec' # spec
     /\ Recorded /\ last_audit'.outcome = "continue"
          => consecutive_stalled' < PlateauWindow]_vars

(* An assessment is carried forward at most once: what an audit carries    *)
(* was assessed fresh by the audit just before it, under the same spec.    *)
CarriedOnce ==
  [][last_audit' # last_audit /\ last_audit' # NoAudit =>
       \A t \in Targets :
         /\ last_audit'.criteria[t].freshness = "carried_forward"
         /\ last_audit'.criteria[t].status # "unknown"
         => /\ AuditOfSpec
            /\ last_audit.criteria[t] = [status |-> last_audit'.criteria[t].status,
                                         freshness |-> "fresh"]]_vars

(* "Work can be paused for resource limits, lack of progress, or human     *)
(* input": a ready loop is not paused, so some plan must be acceptable.    *)
ReadyCanIssue ==
  status = "ready" => \E focus \in SUBSET Targets : PlanAccepted(focus, PerRoundWall)

(* The inductive invariant behind these properties: what makes recording   *)
(* on a reloaded state right although the command worked on an older copy. *)
ActiveOrderIsCurrent ==
  /\ status = "issued" <=> active_order # NoOrder
  /\ active_order # NoOrder => /\ active_order.round_number = last_round
                               /\ active_order.spec_revision = spec.revision

AuditMatchesStatus ==
  /\ last_audit # NoAudit => last_audit.spec_revision = spec.revision
  /\ status = "completion_pending" => last_audit # NoAudit /\ last_audit.outcome = "verify"

(* A loaded plan can still be issued only if nothing it depends on moved.  *)
NextCommandSound(c) ==
  work[c].cmd = "next" =>
    LET order == work[c].order
    IN /\ order.round_number <= last_round + 1
       /\ order.spec_revision <= spec.revision
       /\ order.round_number = last_round + 1 /\ order.spec_revision = spec.revision
            /\ status # "aborted"
            => /\ status \in {"ready", "completion_pending"}
               /\ order.mode = ExpectedMode
               /\ order.mode # "completion" => RequiredNextFocus \subseteq order.focus_criteria

(* A loaded audit can still be recorded only if its basis did not move.    *)
AuditCommandSound(c) ==
  work[c].cmd = "audit" =>
    /\ work[c].order.round_number <= last_round
    /\ work[c].order = active_order => work[c].basis = Basis

SpentNeedsPause ==
  BudgetReached(spec, cumulative_wall_ms, cumulative_provider_tokens)
    => \/ status \in {"completed", "aborted"}
       \/ last_audit = NoAudit
       \/ last_audit.outcome = "budget_paused"

LoopInv ==
  /\ ActiveOrderIsCurrent
  /\ AuditMatchesStatus
  /\ OrderAnswersAudit
  /\ CompletionUnderBudget
  /\ SpentNeedsPause
  /\ ReplansOnce
  /\ PlateauNeverContinues

IInv ==
  /\ TypeOK
  /\ LoopInv
  /\ \A c \in Clients : NextCommandSound(c) /\ AuditCommandSound(c)
=============================================================================
