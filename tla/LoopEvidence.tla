---------------------------- MODULE LoopEvidence ----------------------------
(***************************************************************************)
(* One evidence file through the rounds of a loop: the builder writes the  *)
(* template and edits it, recorders run commands and write results into it *)
(* under the file's lock (src/src/loop/evidence-recorder.ts), and an audit *)
(* reads it, asks the judge, and records what it found                     *)
(* (src/src/loop/commands.ts, auditor.ts).                                 *)
(*                                                                         *)
(* JevLoop has the rounds and what follows an audit; here a round is       *)
(* issued, audited once, and another may follow.  One audit command runs   *)
(* at a time.  A live process writes its pid into a fresh lock within the  *)
(* ten minutes after which an unreadable lock is stale.                    *)
(***************************************************************************)
EXTENDS RoundEvidence, JudgeCall

CONSTANTS
  Scenes,          \* records that say who works on the file, and how: their procs (recorders),
                   \* ops, heads, modes, focuses, edits (claims the builder edits), providers,
                   \* plans (of other commands); and the bounds rounds, deaths and overlap
                   \* (whether recordings and audits overlap)
  Procs,           \* recording processes
  JudgedOrder,     \* judged criteria in the order of the specification
  TargetScore,     \* what a judged criterion must reach
  MinConfidence,   \* and how sure the judge must be
  NoLock, NoOp, NoRun

Ops == UNION {s.ops : s \in Scenes}
Ids == {o.id : o \in Ops}

(* What callers record: samples for metric criteria only; links are to     *)
(* targets.                                                                *)
IsOp(o) ==
  \/ o.kind = "command" /\ o.ok \in BOOLEAN /\ o.ms \in Nat /\ o.links \subseteq Targets
  \/ o.kind = "metric" /\ o.criterion \in Checked \ Hard
  \/ o.kind = "artifact" /\ o.criterion \in Criteria \cup {NoId}

(* Commands, samples and evaluations are looked up each among their own:   *)
(* an id stands for the id and its kind.                                   *)
ASSUME OpsAssumption ==
  /\ \A o \in Ops : IsOp(o)
  /\ \A o, other \in Ops : o.id = other.id => o.kind = other.kind

ASSUME SceneAssumption ==
  /\ NoLock \notin [owner: Procs, named: BOOLEAN, old: BOOLEAN]
  /\ JudgedOrder \in Seq(Judged) /\ ToSet(JudgedOrder) = Judged /\ IsInjective(JudgedOrder)
  /\ {TargetScore, MinConfidence} \subseteq Nat
  /\ \A s \in Scenes : /\ s.procs \subseteq Procs /\ s.providers \subseteq Providers
                       /\ \A plan \in s.plans : IsPlan(plan)

VARIABLES
  scene,       \* fixed
  loop,        \* the state of the loop: [round, mode, focus], mode "none" between rounds
  file,        \* the evidence file
  lock,        \* its lock file
  pc, op, attempt,
  order,       \* the active round a recorder has loaded, 0 for none
  copy,        \* the evidence it has read
  crashes,
  audit,       \* where the audit command is
  held,        \* the evidence it has read
  audited,     \* the last audit that was recorded
  runs,        \* history: the last recording under each id, and its round, 0 for none
  expected,    \* history: ids recorded since the template was written
  clean        \* history: what had last been run clean when the audit command read the file

recorderVars == <<pc, op, attempt, order, copy, crashes>>
auditVars    == <<audit, held, audited, clean>>
history      == <<runs, expected>>
vars == <<scene, loop, file, lock, recorderVars, auditVars, history, judgeVars>>

Active == loop.mode # "none"

(* Bound: nothing is begun after the last round.                           *)
Unfinished == Active \/ loop.round < scene.rounds

Init ==
  /\ scene \in Scenes
  /\ loop \in [round: {1}, mode: scene.modes, focus: scene.focuses]
  /\ file \in {Template(1, h) : h \in scene.heads}
  /\ lock = NoLock /\ crashes = 0
  /\ pc = [p \in Procs |-> "idle"] /\ op = [p \in Procs |-> NoOp]
  /\ attempt = [p \in Procs |-> 0] /\ order = [p \in Procs |-> 0]
  /\ copy = [p \in Procs |-> NoRun]
  /\ audit = "idle" /\ held = NoRun /\ audited = NoAudit
  /\ runs = [id \in Ids |-> [round |-> 0, item |-> NoRun]] /\ expected = {} /\ clean = {}
  /\ JudgeInit

Goto(p, label) == pc' = [pc EXCEPT ![p] = label]

Alive(p) == pc[p] # "dead"

-----------------------------------------------------------------------------
(* The loop and its builder, who knows nothing of the lock.                *)

Issue ==
  /\ ~Active /\ audit = "idle" /\ loop.round < scene.rounds
  /\ audited.outcome # "completed"
  /\ loop' \in [round: {loop.round + 1}, mode: scene.modes, focus: scene.focuses]
  /\ UNCHANGED <<scene, file, lock, recorderVars, auditVars, history, judgeVars>>

(* jevrev loop template, written over the file.                            *)
WriteTemplate ==
  /\ Active
  /\ \E h \in scene.heads : file' = Template(loop.round, h)
  /\ expected' = {}
  /\ UNCHANGED <<scene, loop, lock, recorderVars, auditVars, runs, judgeVars>>

(* The builder edits the head, with or without that of the claims, or the  *)
(* status of a claim.                                                      *)
EditHead ==
  /\ Active /\ scene.edits # {}
  /\ \E h \in scene.heads \ {file.head}, claims \in BOOLEAN :
       file' = [file EXCEPT !.head = h,
                            !.claims = [t \in Targets |-> IF claims THEN [@[t] EXCEPT !.head = h] ELSE @[t]]]
  /\ UNCHANGED <<scene, loop, lock, recorderVars, auditVars, history, judgeVars>>

EditClaim ==
  /\ Active
  /\ \E t \in scene.edits : file' = [file EXCEPT !.claims[t].status = "pass"]
  /\ UNCHANGED <<scene, loop, lock, recorderVars, auditVars, history, judgeVars>>

-----------------------------------------------------------------------------
(* acquireEvidenceLock.                                                    *)

Begin(p) ==
  /\ p \in scene.procs /\ pc[p] = "idle" /\ Unfinished
  /\ scene.overlap \/ audit = "idle"
  /\ \E o \in scene.ops : op' = [op EXCEPT ![p] = o]
  /\ Goto(p, "open")
  /\ UNCHANGED <<scene, loop, file, lock, attempt, order, copy, crashes, auditVars, history, judgeVars>>

(* The call is over, by an error or not.                                   *)
Ends(p) ==
  /\ Goto(p, "idle")
  /\ op' = [op EXCEPT ![p] = NoOp] /\ attempt' = [attempt EXCEPT ![p] = 0]
  /\ order' = [order EXCEPT ![p] = 0] /\ copy' = [copy EXCEPT ![p] = NoRun]
  /\ UNCHANGED crashes

Goes(p, label) == Goto(p, label) /\ UNCHANGED <<op, attempt, order, copy, crashes>>

(* open(lockPath, "wx").                                                   *)
OpenLock(p) ==
  /\ pc[p] = "open"
  /\ IF lock = NoLock
     THEN lock' = [owner |-> p, named |-> FALSE, old |-> FALSE] /\ Goes(p, "name")
     ELSE UNCHANGED lock /\ Goes(p, "judge")
  /\ UNCHANGED <<scene, loop, file, auditVars, history, judgeVars>>

NameLock(p) ==
  /\ pc[p] = "name"
  /\ lock' = IF lock # NoLock /\ lock.owner = p THEN [lock EXCEPT !.named = TRUE] ELSE lock
  /\ Goes(p, "load")
  /\ UNCHANGED <<scene, loop, file, auditVars, history, judgeVars>>

(* The pid cannot be written: unlink whatever is at the path.              *)
NameLockFails(p) ==
  /\ pc[p] = "name"
  /\ lock' = NoLock /\ Ends(p)
  /\ UNCHANGED <<scene, loop, file, auditVars, history, judgeVars>>

(* Mutant: a lock without a pid is stale at once.                          *)
LockStale_Unnamed == lock # NoLock /\ (lock.named => ~Alive(lock.owner))

LockStale == lock # NoLock /\ IF lock.named THEN ~Alive(lock.owner) ELSE lock.old

(* A lock read without a pid cannot have been an old one a moment before:  *)
(* reading it and asking for its age are one step.                         *)
JudgeLock(p) ==
  /\ pc[p] = "judge"
  /\ IF LockStale /\ attempt[p] = 0 THEN Goes(p, "takeover") ELSE Ends(p)
  /\ UNCHANGED <<scene, loop, file, lock, auditVars, history, judgeVars>>

(* rename and unlink whatever lock is at the path by now.                  *)
TakeOver(p) ==
  /\ pc[p] = "takeover"
  /\ IF lock = NoLock THEN Ends(p) /\ UNCHANGED lock
     ELSE /\ lock' = NoLock
          /\ attempt' = [attempt EXCEPT ![p] = 1] /\ Goto(p, "open")
          /\ UNCHANGED <<op, order, copy, crashes>>
  /\ UNCHANGED <<scene, loop, file, auditVars, history, judgeVars>>

(* Ten minutes pass over the lock of a process that died before it wrote   *)
(* its pid.                                                                *)
Age ==
  /\ lock # NoLock /\ ~lock.named /\ ~lock.old /\ ~Alive(lock.owner)
  /\ lock' = [lock EXCEPT !.old = TRUE]
  /\ UNCHANGED <<scene, loop, file, recorderVars, auditVars, history, judgeVars>>

-----------------------------------------------------------------------------
(* The recorder under the lock.                                            *)

LoadLoop(p) ==
  /\ pc[p] = "load"
  /\ order' = [order EXCEPT ![p] = IF Active THEN loop.round ELSE 0]
  /\ Goto(p, "read")
  /\ UNCHANGED <<scene, loop, file, lock, op, attempt, copy, crashes, auditVars, history, judgeVars>>

(* readEvidence and assertActiveEvidence; a command runs after this step.  *)
ReadFile(p) ==
  /\ pc[p] = "read"
  /\ IF file.round = order[p] /\ Accepts(file, op[p])
     THEN copy' = [copy EXCEPT ![p] = file] /\ Goto(p, "write")
     ELSE UNCHANGED copy /\ Goto(p, "unlock")
  /\ UNCHANGED <<scene, loop, file, lock, op, attempt, order, crashes, auditVars, history, judgeVars>>

(* writeEvidence: a temporary file is renamed over the file.               *)
WriteFile(p) ==
  /\ pc[p] = "write"
  /\ file' = Recorded(copy[p], op[p])
  /\ runs' = [runs EXCEPT ![op[p].id] = [round |-> file'.round, item |-> Stored(file', op[p].id)]]
  /\ expected' = IF file'.round = file.round THEN expected \cup {op[p].id} ELSE {op[p].id}
  /\ Goes(p, "unlock")
  /\ UNCHANGED <<scene, loop, lock, auditVars, judgeVars>>

WriteFails(p) ==
  /\ pc[p] = "write"
  /\ Goes(p, "unlock")
  /\ UNCHANGED <<scene, loop, file, lock, auditVars, history, judgeVars>>

(* finally: unlink whatever lock is at the path.                           *)
Unlock(p) ==
  /\ pc[p] = "unlock"
  /\ lock' = NoLock /\ Ends(p)
  /\ UNCHANGED <<scene, loop, file, auditVars, history, judgeVars>>

Crash(p) ==
  /\ pc[p] \notin {"idle", "dead"} /\ crashes < scene.deaths
  /\ crashes' = crashes + 1 /\ Goto(p, "dead")
  /\ op' = [op EXCEPT ![p] = NoOp] /\ copy' = [copy EXCEPT ![p] = NoRun]
  /\ UNCHANGED <<scene, loop, file, lock, attempt, order, auditVars, history, judgeVars>>

Recorder(p) ==
  \/ OpenLock(p) \/ NameLock(p) \/ NameLockFails(p) \/ JudgeLock(p) \/ TakeOver(p)
  \/ LoadLoop(p) \/ ReadFile(p) \/ WriteFile(p) \/ WriteFails(p) \/ Unlock(p)

-----------------------------------------------------------------------------
(* jevrev loop audit.                                                      *)

(* The last recording under id is of the file's round and head; and the    *)
(* command or the evaluation, if it is one, passed.                        *)
RanClean(id) ==
  /\ runs[id].round = file.round /\ runs[id].item.head = file.head
  /\ id \in DOMAIN file.obs => runs[id].item.ok
  /\ EvaluationAt(file, id) # {} => runs[id].item.status = "pass"

ReadEvidence ==
  /\ audit = "idle" /\ Unfinished
  /\ scene.overlap \/ \A p \in Procs : pc[p] \in {"idle", "dead"}
  /\ audit' = "load" /\ held' = file
  /\ clean' = {id \in Ids : RanClean(id)}
  /\ UNCHANGED <<scene, loop, file, lock, recorderVars, audited, history, judgeVars>>

InFocus == {c \in Judged : loop.mode = "completion" \/ c \in loop.focus}

Asked == SelectSeq(JudgedOrder, LAMBDA c : c \in InFocus)

(* buildJevPlan: one question for each judged criterion in focus.          *)
BuildJevPlan ==
  [finalists |-> Asked, about |-> [k \in 1..Cardinality(InFocus) |-> {k}]]

AuditEnds == audit' = "idle" /\ held' = NoRun /\ clean' = {} /\ UNCHANGED audited

(* auditLoopCommand loads the loop and refuses evidence of another order;  *)
(* a judge is asked only if there is a question for it.                    *)
LoadForAudit ==
  /\ audit = "load"
  /\ IF ~(Active /\ held.round = loop.round) THEN AuditEnds /\ UNCHANGED judgeVars
     ELSE IF InFocus = {}
     THEN audit' = "append" /\ UNCHANGED <<held, audited, clean, judgeVars>>
     ELSE /\ audit' = "judging" /\ UNCHANGED <<held, audited, clean>>
          /\ \E provider \in scene.providers :
               \E opinion \in [Documents(BuildJevPlan) -> Opinions(provider)] :
                 Ask("audit", provider, BuildJevPlan, opinion)
  /\ UNCHANGED <<scene, loop, file, lock, recorderVars, history>>

(* A judge that fails ends the audit.                                      *)
JudgeFailed ==
  /\ audit = "judging" /\ call.phase = "failed"
  /\ AuditEnds /\ call' = NoCall
  /\ UNCHANGED <<scene, loop, file, lock, recorderVars, history, calls, late>>

(* judgeScores and assessJudged.                                           *)
AnswerClass(answer) ==
  IF answer.confidence < MinConfidence THEN "low_confidence"
  ELSE IF answer.score >= TargetScore THEN "meets" ELSE "below_target"

AnswersOf(plan, answers) ==
  [c \in Judged |->
     IF \E k \in DOMAIN plan.finalists : plan.finalists[k] = c
     THEN AnswerClass(answers[CHOOSE k \in DOMAIN plan.finalists : plan.finalists[k] = c])
     ELSE "none"]

(* auditRound as LoopAudit has it, on the classes of the evidence held.    *)
EvidenceHeld(answers) ==
  [claims |-> [t \in Targets |-> ClassOf(held, t)], answers |-> answers,
   known_failures |-> FALSE, gain |-> FALSE]

Audit(ev) ==
  LET a == Assessments(audited, ev)
  IN  [audit_mode |-> loop.mode,
       outcome    |-> IF loop.mode = "completion" THEN CompletionVerdict(a, ev).outcome ELSE "progress",
       criteria   |-> [t \in Targets |-> [status |-> a[t].status, freshness |-> a[t].freshness]]]

(* A claimed pass cites something.                                         *)
PassesCite(e) == \A t \in Targets : e.claims[t].status = "pass" => e.claims[t].cites # {}

(* appendLoopEvent: an outcome "completed" must pass assertCompletion and  *)
(* a claimed pass must cite something, or nothing is recorded; nor is it   *)
(* when the round's budget is exceeded, a claim of another head is still   *)
(* marked fresh, or the store refuses the append.                          *)
RecordAudit(answers) ==
  LET ev     == EvidenceHeld(answers)
      result == Audit(ev)
  IN  \/ AuditEnds /\ UNCHANGED loop
      \/ /\ PassesCite(held) /\ (result.outcome = "completed" => CompletionGate(result, ev))
         /\ audited' = result /\ audit' = "idle" /\ held' = NoRun /\ clean' = {}
         /\ loop' = [loop EXCEPT !.mode = "none"]

AppendUnjudged ==
  /\ audit = "append"
  /\ RecordAudit([c \in Judged |-> "none"])
  /\ UNCHANGED <<scene, file, lock, recorderVars, history, judgeVars>>

AppendJudged ==
  /\ audit = "judging" /\ call.phase = "answered"
  /\ RecordAudit(AnswersOf(call.plan, call.answers))
  /\ call' = NoCall
  /\ UNCHANGED <<scene, file, lock, recorderVars, history, calls, late>>

-----------------------------------------------------------------------------
(* Another command of the process asks for other plans, and is done.       *)
AskElsewhere ==
  /\ audit = "idle"
  /\ \E plan \in scene.plans, provider \in scene.providers :
       \E opinion \in [Documents(plan) -> Opinions(provider)] : Ask("other", provider, plan, opinion)
  /\ UNCHANGED <<scene, loop, file, lock, recorderVars, auditVars, history>>

Dismiss ==
  /\ call # NoCall /\ call.caller = "other" /\ call.phase \in {"answered", "failed"}
  /\ call' = NoCall
  /\ UNCHANGED <<scene, loop, file, lock, recorderVars, auditVars, history, calls, late>>

Judging == JudgeStep /\ UNCHANGED <<scene, loop, file, lock, recorderVars, auditVars, history>>

Next ==
  \/ Issue \/ WriteTemplate \/ EditHead \/ EditClaim \/ Age
  \/ \E p \in Procs : Begin(p) \/ Recorder(p) \/ Crash(p)
  \/ ReadEvidence \/ LoadForAudit \/ JudgeFailed \/ AppendUnjudged \/ AppendJudged
  \/ AskElsewhere \/ Dismiss \/ Judging

Spec == Init /\ [][Next]_vars

(* Nothing but the timers of the judges is sure to run.                    *)
FairSpec == Spec /\ JudgeFairness

-----------------------------------------------------------------------------
(* The file stays what the recorders need: claims cite what is there, and  *)
(* the recorded time is that of the commands in it, however often they     *)
(* were replaced (evidence-recorder.ts:190-194).                           *)
FileStaysValid ==
  /\ file.wall = MapThenSumSet(LAMBDA o : file.obs[o].ms, DOMAIN file.obs)
  /\ \A t \in Targets : file.claims[t].cites \subseteq InFile(file)
  /\ \A i, j \in DOMAIN file.evals : file.evals[i].id = file.evals[j].id => i = j

(* The lock makes read, run and write one step for other recorders         *)
(* (evidence-recorder.ts:77-124): everything in the file is the last       *)
(* recording under its id in that round, and nothing that was recorded     *)
(* since the template is missing.                                          *)
FileHoldsLastRuns ==
  /\ \A id \in InFile(file) : runs[id] = [round |-> file.round, item |-> Stored(file, id)]
  /\ expected \subseteq InFile(file)

(* What an audit counts as proof of a target, in the evidence e.           *)
Proof(e, t) ==
  IF t \in Hard THEN RequiredCommands[t]
  ELSE IF t \in Checked THEN Qualified(e, t) ELSE e.claims[t].cites

(* A target is found passing only if the latest runs of what proves it, in *)
(* this round and for this head, passed: not because a command was         *)
(* replaced under another claim, samples under an old result, a claim was  *)
(* edited, a head was changed, or two recorders overtook each other.  What *)
(* else a metric's claim cites, samples of another head among it, does not *)
(* keep the audit from passing it (auditor.ts:97-103), only from           *)
(* completion.                                                             *)
PassWasRun ==
  [][audited' # audited =>
       \A t \in Targets \ Judged :
         audited'.criteria[t] = [status |-> "pass", freshness |-> "fresh"] =>
           /\ Proof(held, t) # {}
           /\ Proof(held, t) \subseteq clean]_vars

(* A loop is completed only if every command and evaluation that a claim   *)
(* cites had last been run clean in this round and for this head, also     *)
(* those that the assessment of a judged criterion does not look at        *)
(* (state-machine.ts:160-237).                                             *)
CompletionWasRun ==
  [][audited' # audited /\ audited'.outcome = "completed" =>
       \A t \in Targets : /\ held.claims[t].cites # {}
                          /\ held.claims[t].cites \subseteq clean]_vars
=============================================================================
