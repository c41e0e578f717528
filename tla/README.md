# A TLA+ development of JevRev

JevRev is a command-line tool that keeps an agent's work honest.  It ranks candidate
changes (Sift), decides between finalists on recorded evidence (Decide), drives one
artifact through audited rounds until a frozen specification is met (JevLoop), and watches
long sessions (Long).  Every command is a short-lived process.  What the processes share is
a directory of files: an event log, a snapshot, a lock.  The hard part of the program is
therefore not inside a process but between processes: commands that load without a lock
and write under one, processes that die between two file-system calls, and counters and
verdicts that must survive long histories of rounds, resumptions and revisions.

This directory models that part:

| module | stands for | about |
| --- | --- | --- |
| `LoopAudit` | `loop/auditor.ts`, `assertCompletion` | how one round's evidence becomes a verdict |
| `JevLoop` | `loop/state-machine.ts`, `planner.ts`, `commands.ts` | the life of a loop, several clients |
| `EventLog` | abstract | what the loop's store promises |
| `LoopStore` | `loop/store.ts` | lock, takeover, append, snapshot, crashes |
| `BatchLog` | abstract | what Long's journal promises |
| `LongStore` | `long/store.ts`, the ingest of `long/commands.ts` | pending transaction, recovery, lock-free loads |
| `LongSignals` | `long/signals.ts`, the conditions of `long/policy.ts` | what a journal says, as operators |
| `AlertWatch` | `long/policy.ts`, `watch.ts`, `notifier.ts` | a watch: evaluate, remember, notify, fail |
| `EvidencePacket` | `evidence/recorder.ts`, `metric.ts`, `artifact.ts`, `workflow/evidence.ts` | what recording does to a finalist's packet, and what Decide makes of it |
| `EvidenceLedger` | abstract | recordings that take effect one after the other |
| `EvidenceFile` | `evidence/store.ts` and the recorders | lock, command, read, rename, crashes |
| `SiftPolicy` | `policy.ts`, `questions.ts` | `rankCandidates`, as operators |
| `DecidePolicy` | `workflow/decide.ts`, `decide-questions.ts` | `decideCampaign`, as operators |
| `Campaign` | `workflow/campaign.ts`, `reconsider.ts`, the commands of `cli.ts` | sift, reconsider, template, collect, decide |
| `RoundEvidence` | `loop/evidence-recorder.ts`, the assessments of `auditor.ts`, `assertCompletion` | a round's evidence file: what recording does to it, which class of evidence it is |
| `JudgeCall` | `judge.ts` | the four judge clients: requests, replies, timers, validation |
| `LoopEvidence` | the recorder's lock, `loopEvidenceTemplate`, `auditLoopCommand` | recorders, builder, audit and judge in one round |
| `LoopLongBridge` | `long/bridge.ts`, `long/normalize.ts` | audits become trusted events of a Long session |
| `SessionRegistry` | `tui/sessions.ts`, `tui/store.ts`, `tui/app.ts` | the index of sessions, its writers, the cockpit |
| `JevLoopProofs`, `LoopStoreProofs`, `LongStoreProofs`, `AlertWatchProofs`, `CampaignProofs`, `EvidenceFileProofs`, `LoopEvidenceProofs`, `ObserverProofs` | | theorems |
| `MCJevLoop`, `MCLoopStore`, `MCLongStore`, `MCAlertWatch`, `MCEvidenceLedger`, `MCEvidenceFile`, `MCCampaign`, `MCLoopEvidence`, `MCObservers` | | instances for TLC, one `.cfg` per run |

Which module uses which: `JevLoop` evaluates `LoopAudit`; `LoopEvidence` composes `RoundEvidence`
(and through it `LoopAudit`) with `JudgeCall`; `SessionRegistry` is built on `LoopLongBridge`,
whose Long session is the abstract `BatchLog`, which `LongStore` is shown to implement;
`Campaign` evaluates `SiftPolicy` and `DecidePolicy`; `EvidenceFile` implements
`EvidenceLedger`, `LoopStore` implements `EventLog`.

`PROJECT.json` lists components, runs, mutants, the source lines behind every definition,
findings, hazards and theorems.

## 1. Inventory

**JevLoop** (`src/src/loop`).  State: per directory an append-only hash-chained
`events.jsonl`, an `identity.json`, a `snapshot.json` that is only a cache, and
`.mutation.lock`.  The logical state (`LoopState`: status, round, active order, last audit,
two cumulative totals, stall and replan counters) is the fold of `transition` over the
events.  Operations: create, `next` (issue a round), `audit`, `resume`, `approve-spec`,
`abort`, `status`.  Hard: a command loads without the lock, may wait for a judge, and
appends under the lock on a reloaded state.  Correct when completion needs fresh passing
evidence for every target, budgets and plateaus end in a human's hands, orders and audits
answer the state they are recorded on, and the log is never broken or duplicated.

**Long** (`src/src/long`).  State: `events.jsonl`, `dedupe.jsonl`, `snapshot.json` (a
checkpoint: a journal behind it is refused), `pending.json`, the lock.  Operations: create,
ingest a batch, load, reduce to signals, evaluate alerts, watch, notify, bridge an audited
loop round.  Hard: one batch touches four files; loads take no lock; producers retry.
Correct when batches are atomic, keys idempotent, receive times monotone, acknowledged
batches are kept, and an interrupted ingest is repaired.

**Alerts** (`long/signals.ts`, `policy.ts`, `watch.ts`, `notifier.ts`).  State: the memory of
one watch, the alerts of its last evaluation.  Operations: evaluate, notify, fail, quit.
Hard: the time of an evaluation is taken before the journal is read, loads and notifiers
fail, a stream remembers before it notifies and a cockpit after.  Correct when open alerts
are the conditions that hold, none is lost, none repeated, and reading again counts nothing.

**Sift / Decide** (`policy.ts`, `questions.ts`, `workflow/`, `reconsider.ts`).  State: campaign
files, results of reconsideration, an evidence bundle.  Operations: sift, reconsider, create
the evidence template, decide.  Hard: judges are asked by position in an order of their own,
candidates are promoted on whichever campaign file is at hand, and greedy rules (duplicates,
quota, domination, two margins) overlap.  Correct when the outcome is the documented one
whatever the order of questions and of reconsiderations.

**Evidence recorders of Decide** (`evidence/`).  State: an evidence bundle and its lock.
Operations: record a command, a metric, an artifact and its evaluation.  Hard: the command
runs outside the lock; the lock is never taken over; evidence is replaced behind the claims
that cite it.  Correct when recordings are serial and whole, the bundle stays acceptable to
Decide, and no pass outlives its evidence.

**Evidence recorder of the loop** (`loop/evidence-recorder.ts`).  State: the evidence file of
a round and its lock.  Operations: the template, the same three recordings, the builder's own
edits.  Hard: here the lock is held while the command runs and is taken over from the dead; the
loop may move on meanwhile; the builder edits the file without the lock; the audit reads it
before it waits for a judge.  Correct when the file holds what was last run, and an audit finds
passing only what was last run clean, in this round and for this head.

**Judges** (`judge.ts`).  State: the call being made.  Operations: ask, reply, time out, replay.
Hard: replies are late, partial, reordered, or those of another request; SemIf asks question
after question.  Correct when an answer that is used belongs to its question, and a stalled
server does not block the command.

**Bridge** (`long/bridge.ts`).  No state of its own.  Operation: record an audit of a loop as a
trusted event.  Hard: the loop moves on between verification and ingest, the call is repeated,
by other processes too, and adapters share the key space.  Correct when every event of source
`recorded` is an audit that took place, once, and a retry comes to an end.

**Session registry** (`tui/store.ts`, `tui/sessions.ts`, `tui/app.ts`).  State: one JSON record per
session with a summary and two monitoring switches; the screen.  Operations: record, switch,
refresh, draw, press.  Hard: every command and the cockpit read, merge and rewrite records
without a lock; requests to repaint are merged.  Correct when the user's switches survive the
recorders, and the cockpit ends up showing the stores as they are.

**Command line, configuration, rendering, schemas, scripts.**  Dispatch, layout, shapes.

How they interact: the command line calls everything; JevLoop and Decide call a judge; the
bridge reads a loop and ingests into Long; the registry reads loops and Long stores without
locks.  There is no shared memory and no message passing between processes.

## 2. Plan

Modelled and checked: the loop, Long, alerts, both evidence recorders, the judges, Sift and
Decide, the bridge and the registry (in that order; every plan item of the model is done).  The
number of runs is kept at twelve and that of their properties at forty, so that a new question
takes the place of one that is answered elsewhere: small scenes of one run (`Scenes`, chosen in the
initial state) ask different questions of the same components.

Proved: every safety invariant and every action property that the passing runs check, and the type
invariants of `JevLoop`, `LoopStore`, `LongStore`, `AlertWatch`, `EvidenceFile` and `Campaign`: the loop,
its store (the lock and the chain through deaths with two processes, the step simulation of
`EventLog`), `LongStore` (the lock, both invariants, the step simulation of `BatchLog`), the watch, both evidence
recorders, the judges, campaigns, the bridge and the registry.  Where a theorem needs a hypothesis
(in the two stores, that no lock is left
behind for two processes to recover; a history as long as the list of kinds, a drift threshold above
zero), section 6 says why, and the counterexample without it is TLC's.

Left: what section 6 gives back to TLC.  Proof modules are limited to eight, so that those of one
subsystem share a module.

## 3. How the modules correspond to the code

**`LoopAudit`** has no state.  `AuditRound` is `auditRound`; its parts follow it in order:
`Assessments` (assessHard, assessMetric, assessProtected, assessJudged), `MaterialProgress`,
`CompletionVerdict` / `ProgressVerdict`, the budget override.  `CompletionGate` is
`assertCompletion`, the state machine's second opinion.  Evidence for a target is one of
five classes, chosen as the coarsest that auditor *and* gate tell apart ("unclaimed": the
auditor passes it, the gate does not).  Scores appear as `gain`: some current score rose by
`min_material_delta`.  The judge answers every question of the order it is asked about.

**`JevLoop`** holds `LoopState` field by field plus `work`, the command each client is
running and what it loaded.  `Issue`, `Audit`, `Resume`, `ApproveSpec`, `Abort` are the cases
of `transition`.  `BeginNext`/`FinishNext` and `BeginAudit`/`FinishAudit` split commands at
the gap between load and append; resume, abort and approve need nothing from what they
loaded that the transition does not recheck.  The retry loop of `issueNextRound` is `GiveUp`
followed by another `BeginNext`; on an issued loop `next` returns the active order and
changes nothing.  Left out: head revisions and changed files (they move with the audited
round, which is compared), identifiers, wording.  The set of targets is the same in every
revision; budgets may differ.

**`LoopStore`** has one step per file-system call of `appendLoopEvent` and
`acquireMutationLock`.  A line is whole or torn.  The digest of an event is its author and
sequence.  `Crash` may follow any call; `AppendFails` leaves a torn line, and an append that
fails before its first byte is one of the failures of `Reject`; `WriteSnapshot`
may write nothing, which the code swallows.  Assumed: pids are not reused, a live process
writes its pid within the ten minutes after which an unreadable lock is stale, and a line
that was synced stays (processes die, the operating system does not).

**`LongStore`** has one step per file-system call of a lock-free load, of `recoverPending`
and of `ingestLongBatch`.  Commands (`Cli`) stamp and load before they lock; callers of the
exported `ingestLongBatch` (`Api`) do not; `Readers` only load.  Lengths are counted in
lines; a dedupe line is the event it indexes.  What a write may leave behind is `Partials`:
any prefix of the batch, or one with its last line torn.  The lock has the steps of
`acquireLock`: `OpenLock`, `WritePid` (or `WritePidFails`, after which the call looks at its own lock
like at any other and nobody removes it), `StatLock`, `ReadLock` (a dead owner, or no pid and ten
minutes of age), `TakeOver` (rename, one more attempt).  `OneHolder` says that the lock excludes, and it does
as long as `OneRecovers`: a lock that was left behind has one process at most to recover it.
Otherwise two may be let in (section 5), as in `LoopStore`; what two at once do to the files is not
followed here, since the steps inside the lock are written for one (a locked load is one step, a write
goes by the pending record of its own ingest), and no run or theorem speaks of it.  Assumed, as for
`LoopStore`: pids are not reused, and a live process writes its pid in time; and the unlink that
releases a lock succeeds.  A scene says who uses the store and how often a process dies, a write
fails, or a pid cannot be written.  Left out: deletion or
editing of files from outside (the tests of tampering), and size limits of batches, which
refuse a batch like any other reason in `Reject`.  Keys are finitely many (`KeysAssumption`: a key
is two strings of at most 256 characters); events and heads are records of naturals, keys and
hashes, and `PendingAssumption` says that "no record" is not one of them.  The drafts whose key is
new are picked by their places in the batch (`FreshPlaces`, `FreshPlace`), which is the code's loop
without a recursion the provers cannot unfold.

**`LongSignals`** asks of every score only whether it reaches its threshold, and multiplies the
fraction out.  An event is its type and what the signals read of it; its id is its place.
Progress, costs and severities, which are only displayed, are left out.  What the code filters is
picked by places (`Where`, `At`), what it groups or collects path by path is put in order by the
place a group begins at (`ByKey`): operators the provers can unfold, with the code's order.

**`AlertWatch`** has one step per await of a watch: ask (the time is read), evaluate (the journal
is read), notify.  The conditions of `evaluateLongPolicy` have keys of their own, so the loop
over them is written as what happens to each alert and which kinds are new, picked from `Kinds`
by their places (`At`) in the order of the code's list.  `mode` says which
of the two watches in `watch.ts` runs, and for the cockpit which of its sessions is looked at.
`basis` is a history variable.  A failed load is any: `LongStore` shows which there are.
Assumed: the wall clock of the watch does not go back (the alert schema refuses an update
before its first time, which ends a watch), and what a load showed is not taken back.
Acknowledged and closed alerts are in the schema, and no command makes one.

**`EvidencePacket`** is one finalist's packet.  `WithCommand`, `WithMetric` and `WithArtifact` are
the three recorders after their checks (`*Accepted`), `PreparedStatus` is `prepareDecision`.
Samples and files are good or not, and callers honest: what they declare is so.  Left out:
hashes, the file budget, soft constraints, the limits of the schema (a bundle beyond them is
refused like a failed write).  A metric or an evaluation sets the status of every claim that
cites it; a command only of those it is linked to, which Decide makes up for by asking for the
exit code of every cited command.  **`EvidenceFile`** has one step per file-system call; the
command runs before the lock is asked for, `RemoveLock` is the operator who follows
`src/docs/WORKFLOW.md:94`.  `Windows` says whether rename refuses to replace.

**`SiftPolicy`, `DecidePolicy`** are operators.  A judge's thoughts are a card per candidate and the
pairs it takes for one mechanism (or for complementary); `Answers` turns them into a response by
position, in request or canonical order, and every lookup goes back through that order.
Thresholds are applied and weights added up when the card is made.  Scores are whole
hundredths that keep off the margins: on a margin the code's binary fractions decide
(0.58 - 0.50 < 0.08).  A ranking is written as the increasing enumeration of its indexes (`Ranked`;
each comes with those up to it), and the loop over the ranked candidates as a recursive function of
the number of its turns (`Sifting`), so that the provers can unfold both.  **`Campaign`** keeps every campaign file that was ever written and lets a
command take any of them.  A campaign's id is a digest of it, hence the campaign itself.
Nothing is written after a decision, which no other command reads.  Assumed of sessions, opinions and
evidence is what the schemas say: ids differ, the judge answers about each candidate
(`domain/schemas.ts:58`), scores and measured amounts are integers, and a quota is at most the number of
work orders.

**`RoundEvidence`** is one evidence file.  `WithCommand`, `WithMetric`, `WithArtifact` are the loop's
recorders after their checks (`Accepts`); `ClassOf` goes through `assessHard`, `assessMetric`,
`assessProtected` and `assessJudged` and says which of `LoopAudit`'s classes of evidence the file
is for a target, so that `AuditRound`'s parts can be evaluated on a file.  A digest of the work
order is the number of its round; samples have one value and the mean stands for both
aggregations.  A hard criterion has at least one required command, as the schema says (`min(1)`);
`Put` writes one entry of a table.  Left out: output digests, files under evaluation, lower-is-better metrics.

**`JudgeCall`** makes one call at a time, as a command does.  The judge's opinion is a function of the
finalists it is shown; a reply is what the server makes of it: scores by item id in any order, with
or without a count (local), top tokens that list some options (SemIf), keys and types (Jev), the
order and the keys of a captured response (replay).  `LocalTimeout` covers headers and body,
`SemIfTimeout` headers only, as in the code.  A request that was given up stays in `late` and may be
answered at any time, also during the next call.  Prompts, token counts and URLs are left out.

**`LoopEvidence`** puts these together, with one step per file-system call of
`acquireEvidenceLock` and the recorders.  `WriteTemplate`, `EditHead`, `EditClaim` are the builder.
An audit reads the file, loads the loop, asks the judge and appends (`RecordAudit`); the state machine
refuses a claimed pass that cites nothing and a completion that fails the gate, and it may refuse any
audit, for the budget of the round, for a claim of another head that is still marked fresh, or because
the append fails; these are not told apart.  Of the loop an audit needs the round, its mode and focus
(`JevLoop` has the rest).  `runs`, `expected` and `clean` are history variables:
what was last recorded under each id, what was recorded since the template, and what of that was
clean when the audit read the file.  `OpsAssumption` (`IsOp`) says what callers may record: samples
for metric criteria only, links to targets only, commands, samples and evaluations each with ids
of their own.  `PassWasRun` asks of a metric what the auditor asks: the samples that *qualify*
(`auditor.ts:97`) must have been run clean; another sample the claim cites, for instance one of an older
head, does not keep the auditor from passing the criterion, only from completion.  Two clients that audit at once are in `JevLoop`.

**`LoopLongBridge`** has one step each for verification (`recordLoopAuditEvent` loads the loop), the
ingest and the report.  An event's key is what `canonicalId` and the adapter's id become in the form
they are stored in; the bridge's is the round.  The Long session is an `INSTANCE` of `BatchLog`, its
state the journal and what callers were told, so that the ingest is `BatchLog`'s atomic step.  The
digest stands for outcome, order and evidence.  The time is that of the call, as in the code, and may
be older than the journal's last.

**`SessionRegistry`** has one step per file access of a writer: load the store, read the record there
is (`ExistingMonitoring`), save.  A switch reads the whole record and writes it back with one switch
changed.  A summary is reduced to a version, the number of audits or events.  The cockpit's
refresh is a queue of sessions that it records as a command would; `busy` and `pending` are those of
`render`.  A save may fail: a command then warns or fails and a repaint goes on, but a key press ends the
cockpit (`tui/app.ts:195`; `screen.open`), which neither repaints nor takes keys from then on.  `chosen` is a history variable: the switches as they were last set while nobody was about
to save older ones.  Left out: the order of records, the cockpit's own files, the layout.

**`EventLog`**, **`BatchLog`**, **`EvidenceLedger`** are what callers may rely on.  The refinement
mappings send the files to the log that a reader can verify (`LoopStore`: the longest chained
prefix) or that recovery would keep (`LongStore`: everything when nothing is pending or the
pending transaction is complete in both files, else what was there before it); the evidence
file shares `packet` with its ledger.  `BatchLog` picks the new drafts of a batch by their places, not
with a recursive filter, so that the bridge can be proved about.

## 4. Runs

| run | instance | shows |
| --- | --- | --- |
| `loop_audit` | 1 client, 1 recorded and 1 judged criterion, window 2, 4 rounds, 2 revisions | completion is verified, plateaus escalate once, nothing is carried twice |
| `loop_race` | 2 clients, 1 criterion, two pairs of totals, 3 rounds, 2 revisions | stale copies are never recorded, spent totals need a human; the inductive invariant |
| `store_crash` | 2 processes, 4 lines, one dies, a failed write | exclusion, intact chain, refinement of `EventLog`, the lock is recovered |
| `store_takeover` | 3 processes, one dies | **violated**: two survivors take over the same lock |
| `long_ingest` | a command and a caller, 2 keys, 2 payloads, 4 batches, 2 times; a scene of both, where one dies and a write fails; one of the caller alone, with a failed write and a pid that is not written | recovery agrees, refinement of `BatchLog`, a caller repairs what was left |
| `long_stuck` | 2 commands, one dies | **violated**: commands never reach the recovery |
| `alert_watch` | 3 reports, 3 events, 3 times, all three watches | open alerts are true, sent, sent once, and count events |
| `evidence_packet` | 1 command, metric, evaluation, 2 files, a requirement, a probe | the packet stays valid; a viable finalist is supported |
| `evidence_serial` | 3 recorders, a command and a metric with their replacements, all may die | recordings are serial and whole; calls end |
| `campaign` | 3 candidates, 2 quotas, 5 cards, all pairs, 2 reconsiderations; 4 candidates that crowd the campaign; 3 finalists, 4 kinds of evidence, 6 cards, all pairs | greedy selection, order of questions, promotions, winners and merges are earned |
| `round` | 5 scenes: 2 recorders, one dies, 2 rounds; a command replaced under other claims with edits; samples likewise; a completion round with 5 recordings; 4 judges, 2 calls, late replies | the file holds the last runs and stays valid; answers belong; passes and completions were run; local calls end |
| `observers` | 5 scenes: 2 bridges that quarrel or agree, beside an import, with 2 faults and 3 times; commands, presses and cockpit on a loop, on a loop and its Long session, on a session without a store | trusted events are audits, retries end, switches survive, the cockpit catches up |

*Bounds.*  Two or three targets exhibit every branch of the verdict (failure, low
confidence, unknown, all pass), since verdicts only ask for the existence of targets of a
kind.  Four rounds hold a plateau, its replan and the round after it with window 2, and a revision on
either side of a round leaves nothing of the old contract.  Two
clients are enough for a stale copy: the invariant of a command mentions that command and
the loop only, and the proofs are for any number.  Two keys give single, double, repeated
and conflicting batches.  One crash and one failed write cover each recovery path, one pid that is not written the lock that only age
can free; a second
interruption of the same recovery starts from states the first one already reaches.  Three
events and three times hold an alert, its recovery and its return, late events, and a window
that runs out; alerts of different kinds do not meet.  Replacing a piece of evidence needs two
of a kind at most, and packets are finite: that run has no bound on its length.  Three
candidates hold a duplicate of a duplicate, and both sides of a quota; three finalists one who
dominates, one dominated and a rival.  Gaps of 2, 4, 8 to 13 hundredths lie on all sides of
both margins.  A second recording of the same command, samples or file is the smallest that leaves a claim behind
its evidence; a second evaluation of one artifact with another result is the smallest that the
assessment does not look at.  Two calls hold a late reply to the first, two levels every mapping of a
score.  Two bridges are enough for a lost race and a repeated call; two commands, a press and the
cockpit for every order of two reads and two writes of a record.  `MaxRounds`, `MaxRevision`,
`MaxEvents`, `MaxTime`, `MaxCrashes`, `MaxWriteErrors`, `MaxReports`, `MaxCalls` and a scene's `rounds`,
`time`, `deaths`, `faults`, `runs`, `crashes`, `write_errors` and `lock_errors` occur in guards of the model only.

*Deadlock.*  A loop stops when it is completed or aborted, and a bounded one after
`MaxRounds`; the loop runs do not check deadlock, nor do `campaign` (everything is
decided), `evidence_serial` and `round` (all recorders may be dead, the round over) and `observers`
(scenes without a cockpit come to an end).  The other runs do: some process
can always start another call (in `store_*` a full log still lets a call be rejected).

*Fairness.*  The loop is driven by people and builders, who may stop: no liveness is claimed
of it.  In the stores weak fairness says that a call that was started runs on, that callers
call again, and (`LockAges`) that time passes.  It does not say that a crash, a failed write
or a rejection ever happens.  `long_stuck` is violated under the same fairness.  For evidence,
weak fairness of `Step` says the same: a command ends by its timeout, a wait by its own; nobody
is obliged to remove a dead lock, and `CallsEnd` holds without.  No liveness is claimed of
watches, which the user may quit, nor of campaigns.  `JudgeFairness` is that of the two timers and of
nothing else: servers may stop answering, recorders may stop.  In `observers` a bridge that was
called or has failed is called again and runs on (`BridgeFairness`; `RetriesSucceed` is about those
who retry), calls to the registry run to their end, and an open cockpit refreshes and is asked to
again by its interval timer; presses, commands and faults need never happen.

*Mutants.*  For every property a definition has a variant with a plausible mistake
(`Escalation_Again`, `OrderMatchesState_AnyRound`, `AuditMatches_Round`, ...), marked
"Mutant" where it stands, under which TLC finds the property violated.

## 5. Findings

Each of the first two is the violation of a run.

* `loop/store.ts:235` (`store_takeover`): the takeover renames whatever lock is at the path by
  then.  With two contenders the log gets two events of one sequence and cannot be read again.
* `long/commands.ts:45` (`long_stuck`): every command loads before it would recover, so a
  journal torn by a crash is repaired only by programs that call `ingestLongBatch` themselves.

Stated in the modules and refuted by TLC, without a run of their own.  Each is seen by naming
the property as the INVARIANT of a copy of the `.cfg` (`RollbackIsReal` as its PROPERTY) and changing
what is said here:

* `ReadyCanIssue` (`planner.ts:36`; `MCJevLoop_audit` with `Checked = {tests, bench}`, `Judged = {}`,
  `Surfaces = {api}` and `MaxFocus = 2`): the focus an audit demands may be larger than a plan may
  be; the loop is ready but no plan is accepted until a new specification is approved.
* `RollbackIsReal` (`long/store.ts:108`; `MCLongStore_stuck` with `Readers = {r}` and `Spec`): a
  load may report "rolled back behind its checkpoint" because an ingest committed between its two
  reads.
* `ShownIsKept` (`long/store.ts:156`; `MCLongStore_ingest` with `Readers = {r}` and
  `Spec`): events that a load has shown may be truncated by recovery, against "every event is
  append-only".
* `OneHolder` of `LongStore` (`long/store.ts:181-184`; `MCLongStore_ingest` with `Api = {d, r}`,
  `Scenes <- DeadScenes` and `Spec`; or with `Scenes <- LeftScenes` and `Spec`, for a lock that its living
  owner could not name): two processes that both find the same lock stale rename away each other's, and
  both are let in, as in `store_takeover`.
* `RereadCountsNothing` (`policy.ts:42`; `MCAlertWatch_watch`, `MaxEvidence = 1`): an alert keeps 64
  ids; a condition with more evidence finds one it does not know at every evaluation, and counts
  it, against "repeated reads of one journal do not increment alert occurrences".
* `StallEndsWithProgress` (`signals.ts:48`; `MCAlertWatch_watch`): before the first meaningful event
  the age of progress is that of the last event, so a heartbeat ends a stall, against
  `JEVLONG_DESIGN.md:335`.
* `SentOnce` with `MaxHistory = 1` (`policy.ts:53`; `MCAlertWatch_watch`): two conditions push each
  other out of a history shorter than the list of kinds, and every evaluation raises one anew.
* `FailureLoopNamesFailures` (`signals.ts:93`; four different fingerprints, `MaxEvents = 4`): many
  different failures make a "failure loop" without any repetition and without evidence, against
  `JEVLONG_DESIGN.md:310`.
* `BundleSurvives` (`evidence/store.ts:94`; `MCEvidenceFile_serial`): where rename does not replace,
  a writer that dies between unlink and rename leaves no bundle, only its temporary file.
* `EvaluationsMeasureTheirRequirement` (`artifact.ts:167`; `MCEvidenceLedger_packet` with
  `Requirements = {r1, r2}` and `Probes = {}`): an evaluation without a criterion may get one later,
  when a requirement with another criterion already cites it.
* `NoWinnerMeansGatesFailed` (`workflow/decide.ts:149`; `MCCampaign_full` with `FourSessions`,
  `Accounts`, `FourOpinions` and `MaxOrders = 4`): tokens and cost are compared only where both sides have them, so four
  finalists can dominate each other in a circle, and all are rejected, against
  `WORKFLOW.md:131`.  `NoWinnerMeansFailures` proves what remains.
* `ShortlistHoldsSurvivors` (`policy.ts:337`; `MCCampaign_full`): a candidate under review that
  scores better takes the place of a strict survivor on the shortlist, against
  `src/benchmarks/README.md:11`.
* `SemIfCallsEnd` (`judge.ts:929`; `MCLoopEvidence_round`, as PROPERTY): the timer of a SemIf request is
  cleared when the headers arrive, so a server that stops in the body blocks the command; the
  comment at `judge.ts:499` says "Per-question request timeout.".
* `AuditsCanBeBridged` (`long/bridge.ts:37`; `MCObservers_index`): an adapter may import an event under
  the key the bridge uses for a round, which keeps that audit out for good.
* `SwitchPersists` (`tui/sessions.ts:15`; `MCObservers_index`, as PROPERTY): a recorder that has read a
  record before a switch was written puts the old switch back.  `QuietSwitchPersists` is what remains.
* `FileHoldsLastRuns` with three recorders and one death (`loop/evidence-recorder.ts:115`;
  `MCLoopEvidence_round` with a third recorder `r` in `Procs` and a scene
  `[TwoRecorders EXCEPT !.procs = {p, q, r}, !.rounds = 1]`): the takeover is that of the loop's
  store and has its race, so that a recording may be lost.

(Where a property needs another specification than the run, `Spec` does.)

Noticed without a statement to hold them against: a judged criterion is assessed by the first
evaluation of an artifact that the claim cites, and a later one that failed is only looked at by the
completion gate, which is why `PassWasRun` leaves judged criteria out and `CompletionWasRun` does not;
what the builder edits while a recorder runs is overwritten by what the recorder has read; the tokens
a judge has spent on an audit that is then refused are never counted; a key pressed twice before the
cockpit has drawn writes the same switch twice; a command that is slow may leave an older summary
than the one it found, until the next refresh.  A completion round never counts as a
plateau and neither does a round of failures; stalled rounds are not reset by a resumption;
a budget pause overrides a "verify", so the verdict is lost; a pass that is recorded but not
claimed lets the auditor say "completed" and the gate refuse, leaving the round active; an
`unknown` without a claim counts as fresh and may be carried once as such.  An alert's counter
goes up with any new event, not only with evidence for it; a passing test does not lower the
failure score; an alert raised on an empty journal shares its id with one raised at the first
event.  Reconsideration's "reject" is recorded nowhere, so the candidate may be reconsidered;
of two finalists with equal scores in second place the earlier work order is compared.  With
`max_survivors` at least one, `budget_exhausted` as the reason of an empty result cannot occur.

## 6. Proofs

All proofs are checked by TLAPS and hold for every value of the constants that the modules'
assumptions admit (finite sets of targets, a window of at least 2, positive budgets,
...).

**`JevLoopProofs`.**  `TypeCorrect` is type correctness.  `Inductive` is the main theorem:
`IInv` holds in every reachable state.  The properties by themselves are not inductive,
because a client can finish a command prepared arbitrarily long ago.  What makes it right is
that a prepared command still *fits* only if nothing it used has moved: `NextCommandSound`
(an order of the next round and the current revision was planned in the present status, mode
and focus) and `AuditCommandSound` (an audit of the active order has the present state as its
basis).  These hold because rounds and revisions only grow, and because resumption is the one
step that returns to `ready` without advancing either; no order can be outstanding for it.
`SpentNeedsPause` carries the budget properties through pauses, aborts and
revisions.  From `IInv` follow `RecordsWhatItLoaded`, `OrdersAnswerAudits`,
`CompletionIsVerified`, `CompletionStaysUnderBudget`, `SpentTotalsNeedHuman`,
`PlateauEscalates` (`EscalatesOnce`, where `ReplansOnce` and `PlateauNeverContinues` are the parts of `IInv`
it rests on); `NothingCarriedTwice` needs in addition what `AuditRound` does to one
target (`CarriedFromFresh`).  Lemmas about the operators (`AuditRoundFacts`,
`ProgressVerdictFacts`, ...) come first, then one step per action.

**`LoopStoreProofs`.**  `LockExcludes`: at most one process is past the lock and the lock at the
path is its own.  `LogStaysChained`: every line continues the chain, whatever writes fail or are
broken off.  `StoreImplementsEventLog`: the step simulation of `EventLog`; the end of a write is the
step that appends, the release after it the one that acknowledges.  All three hold for any number of
processes until one dies, and for two processes through every death and takeover (`OneRecovers`: no
lock to recover, or one process at most to recover it); `store_takeover` shows that three processes and
one death break the chain.  The invariant (`LockInv`, `FileInv`) says that the lock at the path is its holder's
or was left by a dead process, that nobody is about to take a lock over unless a process is dead, and
that what the holder loaded is still the file up to the line it is writing or has written.  `LogOfAppend`
says what a torn and a whole line do to the log a reader can verify.  `StoreTypes` holds for any number
of processes and deaths, races included: a copy is never longer than the log (`TypeInv`), and a lock is
taken over in the first attempt only.

**`LongStoreProofs`.**  For any keys, batches, processes, failed writes and partial lines, as long as no
lock is left behind for two processes to recover (`OneRecovers`: one process alone ingests, or every pid
was written and nobody has died or at most two ingest; readers never lock).  The condition is the one of
`LoopStoreProofs`, for the same protocol, and it is needed: without it TLC refutes `OneHolder` (section 5).
`LockExcludes` is mutual exclusion under it: the lock at the path is its holder's, or was left by a dead
process or without a pid, nobody is about to take it over unless it was left, and the lock of a living
process does not look old (`LockInv`).  On exclusion rests the rest, all of it under the same condition.
The heart is `FileInv` (of `StoreInv` = `Shapes`, `LockInv`, `FileInv`): without a pending record the
four files agree (`Clean`); with one there is a *base* both logs share, each holds a part of what the
transaction appends (`Partials`, possibly torn), all of it would verify, and the checkpoint is at the old
head, or at the new one when both files are complete.  From it follow `RecoveryLeavesALoadableStore` and
`CheckpointNeverAhead`.  `StoreTypeOK` also needs that there are no more lines than keys: keys in a
verified journal are distinct, hence an injection (`KeysBound`).  For `StoreImplementsBatchLog`
the abstract log is what recovery would keep (`Durable`).  `DurableRecovery` and `DurableIngest` say that
it changes in one step only, when the index becomes complete, and then by exactly the fresh drafts;
everything else is a stutter.  `LogInv` adds what a batch is owed at each label: before the index is
written it is due to the log, afterwards the log covers it (`OwesLog`), so that an acknowledgement tells
the truth.  The lemmas about sequences (concatenation, truncation, hash chains, enumeration by
rank) stand first.

**`AlertWatchProofs`.**  `NoAlertIsLost`: for any journal, policy, watch and failure, what a watch
remembers as open in between its evaluations its notifier has taken.  `OpenIsActive`: the
open alerts are exactly the conditions that held when the journal was read, provided the history is
at least as long as the list of kinds; the hypothesis is needed, since the policy cuts longer
histories from the front and an open alert goes with it (section 5, `SentOnce` with `MaxHistory = 1`; the
schema lets the limit be any positive number).  The invariant
(`WatchInv`) has `Remembered` (the memory is true of its basis), `Delivered` and `Pending` (what waits for
the notifier).  `EvaluateFacts` is what `evaluateLongPolicy` does to any history: the room left after
cutting is enough for one alert per kind (`RoomForAll`), each kind stands at most once.

`SentOnlyOnce`, under the same hypothesis: a notifier takes no alert twice.  An alert is named by its kind
and the number of events seen when it was raised, so what has to be excluded is that a
condition ends and begins again while nothing is appended.  Time passes, though, and a journal read
at a later time shows more events, or the same ones with other ages.  `ActiveBetween` is the fact behind it:
for fixed events every condition holds over an interval of time, silence and stall from some moment
on, a failure loop until the failures leave the window, the others always or never; so what time has ended,
time does not bring back.  `Past` says of every name that was sent that the alert is still open, or
more events have been seen since, or its condition has ended without any; `Born` that open
alerts were raised by conditions that held; `Clock` that evaluations follow each other in the order of
time, even when the journal's own order is that of the producers' stamps.
`OccurrencesHaveEvents`, for histories and evidence of any length: while evidence is not cut off, an
alert counts an occurrence only for an event of its own.  The invariant (`Counted`) is that an open
alert ends at the last event seen and knows all the evidence there was; evidence only shrinks with
time (`EvidenceShrinks`) and grows with events.  The hypothesis, a drift threshold above zero, is needed, and TLC
finds the counterexample with `DriftPercent = 0`, which the schema allows (`long/schemas.ts:27`): an empty journal
then drifts, the alert is raised as of event 1, and when event 1 comes it counts as a second occurrence.
The signals' evidence is made of sequences without duplicates (`ByKeyFacts`, `DistinctFacts`, both
from `CountedOff`: a finite set is counted off by the sets of what comes before).  `WatchTypes`: no
evaluation makes an alert that `longAlertSchema` refuses; what makes it inductive is that an open alert
ends at the last event seen (`Measured`), and here no threshold needs a hypothesis.

**`EvidenceFileProofs`.**  First the packet: `ViableSupported`: for any evidence, claims and operations
of honest callers, a viable finalist has good evidence for each mandatory claim.  It is not inductive:
a replaced command leaves the status of the claims that cite it, and it is the conjunction of what
each recorder keeps up (`PacketInv`) that makes the gate right.  `Shape` types the packet;
`Referenced` says that claims cite what is there, and passing ones something; `Evaluated` ties
evaluations that passed to files that are good; `Passed` says that a passing claim cites something
that supports it, or a command that fails, which the gate rejects.  `BundleReadable` adds
`Timed` and `Measured` (`LedgerInv`): the recorded time is the sum of the commands' times however
often one is replaced, and metrics are cited by their own criterion.  Then the file:
`RecorderReadsCurrent`: whoever is past the lock owns it, and its copy is the file's content, for any
number of recorders and deaths (this lock is never taken over, which is why no condition is needed).
`FileImplementsLedger` maps every step to a recording or a stutter, and `FileViableSupported`
and `FileBundleReadable` carry the packet's theorems over.

**`CampaignProofs`.**  For any requests, judges, evidence and bounds.  `RankedFacts`: a ranking lists every
index once, in the order of its score (a finite set is counted off by the sets of what comes before).
`AnswersAreOwn`: what is looked up by position in the order of the questions is what the judge thinks
of that candidate, whichever order was asked; so the result of Sift and of Decide does not mention the
order, which is `QuestionOrderIgnored`.  `SieveTurns` and `SiftedAtLast`: after each turn of the loop over
the ranked candidates those seen are decided, kept exactly if eligible, no duplicate of a better one
kept and within the quota, and the rest are untouched; at the last turn this is `SiftKeepsBest`.  The invariant
(`CampaignsRight`, `FilesRight`) is that every campaign file carries that very result and nothing but
promotions of candidates under review, and that a decision is `DecideCampaign` of finalists of such a file.
`ProbesFit` follows since a violated hard constraint is rejected before anything else is asked
(`GateStatus`), and reconsideration only takes up candidates under review; `PromotionsVetted` needs in
addition that reports are only added.  `OutcomesEarned`: decide compares the two best accepted finalists
only, and the ranking makes that enough against all of them.

`DominationIrreflexive` and `DominationTransitive` say that among finalists that account for every
resource domination is an order, so that somebody stays (`SomebodyStays`).  Hence `NoWinnerMeansFailures`:
when all accounts are complete, "no_winner" means that every finalist failed a gate.  That is the
documented promise which the circle of section 5 breaks, and the theorem says that accounts left out are all
that can break it.

**`LoopEvidenceProofs`.**  For any scenes: recordings, replacements, heads, edits, deaths.
`FileAlwaysValid` needs `Shapes` and `Files`: whatever anyone has read (the file, a recorder's copy, what an
audit holds) is whole, its citations resolve, its time is the sum of its commands' (`Sound`), and each of
the recordings, the template and the edits keeps that (`RecordedFacts`, `TemplateFacts`, `EditFacts`).
`FileIsLastRuns`, `PassesWereRun` and `CompletionsWereRun` need in addition that the lock excludes
(`LockInv`), so that what was read under it is current when it is written (`RunsInv`), and that
what is good in the evidence under audit had been run clean when it was read (`HeldInv`).  They are
proved under `FewRecorders`: in every scene no recorder dies or at most two run.  The hypothesis is
needed: with three and a death the takeover has the race of `store_takeover` (section 5).  From there
`PassIsClean` and `MetIsClean` go through `ClassOf` and `AuditRound` to the verdict.
`AnswersAlwaysBelong`: for any plans, opinions, servers and replies, and any history of calls, answers
that are used are the judge's opinions of what the questions of this call are about.  Its invariant
says that a call keeps the plan and the opinions it was made with and that a SemIf call, which
collects answers one after the other, has those of the first questions.  For local replies it comes
down to this: ids that are those of the request, without repetition, are a permutation, and looking
scores up by id undoes it (`LocalReply_Belongs`).

*Sums.*  The recorded time is a fold over a set.  What such a fold does when an entry is added or
replaced (`TotalAdds`, `PutTime`) is proved without induction principles that take an operator: a
smallest counterexample among the subsets of a finite set (`SmallestSet`) is led to a contradiction,
which gives that partial folds exist, are unique and extend by one element.  These lemmas stand in
both evidence modules, whose specifications have variables of the same names and cannot be
extended together.

**`ObserverProofs`.**  `RecordedAreAudits`: for any number of bridges, retries, deaths and imports, what
stands in a Long session as recorded is the audit of that round, once.  `Found` carries a verification
to the ingest: it is still true then because audits are only appended.  `AppendOne` says what
`BatchLog` does with a batch of one.  `SwitchesSurvive`: for any number of commands, presses and
repaints that rewrite records without a lock, a switch that was set while nobody was about to save an
older one stays as it was set.  `Chosen` adds what makes it inductive: whoever is about to save a record
of that session has read the chosen switches.

**Only model-checked:** three processes and a death in `LoopStore`, two that recover one lock in
`LongStore` and three recorders in `LoopEvidence` (where the properties fail); all
liveness (`LockRecovered`, `CallersRecover`, `CallsEnd`, `LocalCallsEnd`, `RetriesSucceed`,
`CockpitCatchesUp`; out of the prover's reach, as is `ENABLED`).

## 7. Not modelled

Of the session registry, the files of the cockpit's own configuration and page, which one process
writes.  The configuration file (`config.ts`): saves of one process queue up, those of two processes
replace each other as wholes, and nothing else depends on it but the judge that is asked.  Activation
(`activation.ts`) is a formula over one request, and advice.  `evidence status` and `evidence next`
read a bundle and show what `PreparedStatus` is made of.  The model runtime (`runtime/server.py`) is
another program behind HTTP, of which `JudgeCall` assumes nothing.  Command-line parsing, rendering,
schemas as such, redaction, scripts, skills and benchmarks are input/output, wording or shapes.
