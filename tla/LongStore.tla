------------------------------ MODULE LongStore ------------------------------
(***************************************************************************)
(* The journal of one Long session (src/src/long/store.ts): lock-free      *)
(* loads, and the locked ingest of a batch behind a write-ahead record,    *)
(* one file-system call per step, for processes that may die between any   *)
(* two of them and for calls of the file system that fail.                 *)
(*                                                                         *)
(* Digests are abstracted to what they bind; a dedupe line is the event it *)
(* indexes; byte lengths are counted in lines.  A process that died is not *)
(* started again: its pid is not reused.  A live process writes its pid    *)
(* into a fresh lock, or gives up, within the ten minutes after which an   *)
(* unreadable lock is stale, and the unlink that releases a lock succeeds. *)
(*                                                                         *)
(* What follows acquireLock is written for one process at a time inside:   *)
(* the reads of a locked load are one step, and a write goes by the        *)
(* pending record of its own ingest.  acquireLock itself can let two in    *)
(* (OneHolder below says when): from that moment on the module makes no    *)
(* claim about the files.                                                  *)
(***************************************************************************)
EXTENDS Integers, Sequences, FiniteSets, SequencesExt

CONSTANTS
  Cli,             \* processes ingesting with a command: they load first
  Api,             \* processes calling ingestLongBatch themselves
  Readers,         \* processes that only load (status, watch, sessions)
  Keys,            \* adapter_id:adapter_event_id
  Payloads,
  Batches,         \* what may be ingested: sequences of drafts
  NoLock, NoPending,
  MaxTime,         \* bound: receive times told apart
  Scenes           \* bounds: who uses the store, and how often a process
                   \* dies, a write fails, or a pid cannot be written

Procs == Cli \cup Api \cup Readers

ASSUME ProcsAssumption ==
  IsFiniteSet(Procs) /\ Cli \cap Api = {} /\ Readers \cap (Cli \cup Api) = {}
(* An event's key is two strings of at most 256 characters.                *)
ASSUME KeysAssumption == IsFiniteSet(Keys)
ASSUME BatchesAssumption == Batches \subseteq Seq([key: Keys, payload: Payloads])
ASSUME BoundsAssumption ==
  /\ MaxTime \in Nat \ {0}
  /\ Scenes \subseteq [users: SUBSET Procs, crashes: Nat, write_errors: Nat, lock_errors: Nat]

(* The lock file: who created it, whether it holds a pid yet, and whether  *)
(* it is older than INVALID_LOCK_STALE_MS.                                 *)
Locks == [owner: Procs, written: BOOLEAN, old: BOOLEAN]

ASSUME NoLockAssumption == NoLock \notin Locks

VARIABLES
  journal,   \* events.jsonl: its lines, each whole or torn
  dedupe,    \* dedupe.jsonl: likewise
  pending,   \* pending.json: the transaction under way
  snapshot,  \* snapshot.json: the head it was written for
  lock,      \* .mutation.lock: NoLock or the file a process created
  acked,     \* events of the batches reported as ingested
  now,       \* the clock
  pc,        \* where each process is
  batch,     \* the drafts a process ingests
  stamp,     \* receivedAt of a command, taken when it starts
  loaded,    \* the events a lock-free load has read
  accepted,  \* the events the running ingest appends
  attempt,   \* the attempt of acquireLock (0, 1)
  seen_old,  \* stat found the lock at least ten minutes old
  scene,     \* the bounds of this behaviour
  crashes, write_errors, lock_errors

files == <<journal, dedupe, pending, snapshot>>
tries == <<attempt, seen_old>>
call  == <<batch, stamp, loaded, accepted, tries>>
bounds == <<scene, crashes, write_errors, lock_errors>>
vars  == <<journal, dedupe, pending, snapshot, lock, acked, now, pc, batch, stamp, loaded,
           accepted, attempt, seen_old, scene, crashes, write_errors, lock_errors>>

-----------------------------------------------------------------------------
(* Events, lines and heads.                                                *)

EventHash(event) == <<event.sequence, event.key, event.payload, event.received>>
ZeroHash == <<>>

(* An event names its predecessor by digest; nothing precedes the first.   *)
Hashes == {ZeroHash} \cup (Nat \X Keys \X Payloads \X (1..MaxTime))
LongEvents == [sequence: Nat, key: Keys, payload: Payloads, received: 1..MaxTime,
               previous: Hashes]
FileLines == [event: LongEvents, whole: BOOLEAN]
Heads == [sequence: Nat, last: Hashes]
Transactions == [old: Heads, new: Heads, append: Seq(LongEvents)]

ASSUME PendingAssumption == NoPending \notin Transactions

Whole(event) == [event |-> event, whole |-> TRUE]
Torn(event)  == [event |-> event, whole |-> FALSE]

Lines(events) == [i \in DOMAIN events |-> Whole(events[i])]
Events(lines) == [i \in DOMAIN lines |-> lines[i].event]

(* What a write of these events may have left in the file so far.          *)
Partials(events) ==
  {Lines(SubSeq(events, 1, n)) : n \in 0..Len(events)}
    \cup {Append(Lines(SubSeq(events, 1, n - 1)), Torn(events[n])) : n \in DOMAIN events}

HeadOf(events) ==
  [sequence |-> Len(events), last |-> IF events = <<>> THEN ZeroHash ELSE EventHash(Last(events))]

(* verifyJournal: whole lines, one chain, no event twice, received_at      *)
(* never backwards.                                                        *)
Verifies(lines) ==
  \A i \in DOMAIN lines :
    /\ lines[i].whole
    /\ lines[i].event.sequence = i
    /\ lines[i].event.previous = HeadOf(Events(SubSeq(lines, 1, i - 1))).last
    /\ \A j \in 1..(i - 1) : /\ lines[j].event.key # lines[i].event.key
                             /\ lines[j].event.received <= lines[i].event.received

(* loadLongStore: the journal is not behind its checkpoint, and has the    *)
(* checkpoint's event.                                                     *)
CheckpointMatches(events) ==
  /\ snapshot.sequence <= Len(events)
  /\ snapshot.sequence > 0 => EventHash(events[snapshot.sequence]) = snapshot.last

(* loadDedupe: one whole line for every event, and no other.               *)
DedupeMatches ==
  /\ \A i \in DOMAIN dedupe : dedupe[i].whole
  /\ Len(dedupe) = Len(journal)
  /\ ToSet(Events(dedupe)) = ToSet(Events(journal))

(* Mutant: looks at the journal only.                                      *)
Complete_JournalOnly == SubSeq(journal, pending.old.sequence + 1, Len(journal)) = Lines(pending.append)

(* recoverPending: both files end in exactly what the transaction appends. *)
Complete ==
  LET Suffix(lines) == SubSeq(lines, pending.old.sequence + 1, Len(lines))
  IN  Suffix(journal) = Lines(pending.append) /\ Suffix(dedupe) = Lines(pending.append)

Alive(p) == pc[p] # "dead"

Goto(p, label) == pc' = [pc EXCEPT ![p] = label]

Init ==
  /\ journal = <<>> /\ dedupe = <<>> /\ pending = NoPending /\ snapshot = HeadOf(<<>>)
  /\ lock = NoLock /\ acked = {} /\ now = 1
  /\ pc = [p \in Procs |-> "idle"]
  /\ batch = [p \in Procs |-> <<>>] /\ stamp = [p \in Procs |-> 1]
  /\ loaded = [p \in Procs |-> <<>>] /\ accepted = [p \in Procs |-> <<>>]
  /\ attempt = [p \in Procs |-> 0] /\ seen_old = [p \in Procs |-> FALSE]
  /\ scene \in Scenes /\ crashes = 0 /\ write_errors = 0 /\ lock_errors = 0

-----------------------------------------------------------------------------
(* Lock-free loads.                                                        *)

(* A command stamps its batch and loads the store before it takes the      *)
(* lock; a call of ingestLongBatch goes for the lock.                      *)
Start(p) ==
  /\ pc[p] = "idle" /\ p \in scene.users
  /\ batch' \in {[batch EXCEPT ![p] = b] : b \in IF p \in Readers THEN {<<>>} ELSE Batches}
  /\ stamp' = [stamp EXCEPT ![p] = IF p \in Cli THEN now ELSE @]
  /\ loaded' = [loaded EXCEPT ![p] = <<>>]
  /\ Goto(p, IF p \in Api THEN "open" ELSE "journal")
  /\ UNCHANGED <<files, lock, acked, now, accepted, tries, bounds>>

ReadJournal(p) ==
  /\ pc[p] = "journal"
  /\ IF Verifies(journal)
     THEN loaded' = [loaded EXCEPT ![p] = Events(journal)] /\ Goto(p, "snapshot")
     ELSE UNCHANGED loaded /\ Goto(p, "idle")
  /\ UNCHANGED <<files, lock, acked, now, batch, stamp, accepted, tries, bounds>>

(* The checkpoint is read after the journal it is compared with.           *)
ReadSnapshot(p) ==
  /\ pc[p] = "snapshot"
  /\ \/ /\ CheckpointMatches(loaded[p])
        /\ Goto(p, IF p \in Readers THEN "idle" ELSE "open")
        /\ loaded' = IF p \in Readers THEN loaded ELSE [loaded EXCEPT ![p] = <<>>]
     \/ /\ ~CheckpointMatches(loaded[p])
        /\ Goto(p, "rolled_back")
        /\ loaded' = [loaded EXCEPT ![p] = <<>>]
  /\ UNCHANGED <<files, lock, acked, now, batch, stamp, accepted, tries, bounds>>

(* "Long journal was rolled back behind its checkpoint".                   *)
FailLoad(p) ==
  /\ pc[p] = "rolled_back"
  /\ Goto(p, "idle")
  /\ UNCHANGED <<files, lock, acked, now, call, bounds>>

-----------------------------------------------------------------------------
(* acquireLock.                                                            *)

(* open(path, "wx") creates the lock or fails because it exists.           *)
OpenLock(p) ==
  /\ pc[p] = "open"
  /\ IF lock = NoLock
     THEN lock' = [owner |-> p, written |-> FALSE, old |-> FALSE] /\ Goto(p, "pid")
     ELSE UNCHANGED lock /\ Goto(p, "stat")
  /\ UNCHANGED <<files, acked, now, call, bounds>>

(* With its pid in it the lock is held, and the attempts are over.         *)
WritePid(p) ==
  /\ pc[p] = "pid"
  /\ lock' = IF lock # NoLock /\ lock.owner = p THEN [lock EXCEPT !.written = TRUE] ELSE lock
  /\ attempt' = [attempt EXCEPT ![p] = 0]
  /\ Goto(p, "recover")
  /\ UNCHANGED <<files, acked, now, batch, stamp, loaded, accepted, seen_old, bounds>>

(* The same catch as for a lock that exists: nobody removes this one.      *)
WritePidFails(p) ==
  /\ pc[p] = "pid"
  /\ lock_errors < scene.lock_errors
  /\ lock_errors' = lock_errors + 1
  /\ Goto(p, "stat")
  /\ UNCHANGED <<files, lock, acked, now, call, scene, crashes, write_errors>>

(* A lock that is gone by now has no age.                                  *)
StatLock(p) ==
  /\ pc[p] = "stat"
  /\ seen_old' = [seen_old EXCEPT ![p] = lock # NoLock /\ lock.old]
  /\ Goto(p, "read")
  /\ UNCHANGED <<files, lock, acked, now, batch, stamp, loaded, accepted, attempt, bounds>>

(* Mutant: a lock without a readable pid is never taken for stale.         *)
LockStale_PidOnly(p) == lock # NoLock /\ lock.written /\ ~Alive(lock.owner)

(* dead or malformedStale: the recorded owner is dead; where no pid can be *)
(* read, the age found by stat decides.                                    *)
LockStale(p) ==
  IF lock # NoLock /\ lock.written THEN ~Alive(lock.owner) ELSE seen_old[p]

(* Only the first attempt takes over; otherwise the call fails.            *)
ReadLock(p) ==
  /\ pc[p] = "read"
  /\ IF LockStale(p) /\ attempt[p] = 0
     THEN Goto(p, "takeover") /\ UNCHANGED attempt
     ELSE Goto(p, "idle") /\ attempt' = [attempt EXCEPT ![p] = 0]
  /\ seen_old' = [seen_old EXCEPT ![p] = FALSE]
  /\ UNCHANGED <<files, lock, acked, now, batch, stamp, loaded, accepted, bounds>>

(* rename and unlink whatever lock is at the path by now, and try again.   *)
TakeOver(p) ==
  /\ pc[p] = "takeover"
  /\ \/ /\ lock # NoLock
        /\ lock' = NoLock
        /\ attempt' = [attempt EXCEPT ![p] = 1]
        /\ Goto(p, "open")
     \/ /\ lock = NoLock
        /\ UNCHANGED <<lock, attempt>>
        /\ Goto(p, "idle")
  /\ UNCHANGED <<files, acked, now, batch, stamp, loaded, accepted, seen_old, bounds>>

-----------------------------------------------------------------------------
(* recoverPending.                                                         *)

NothingPending(p) ==
  /\ pc[p] = "recover"
  /\ pending = NoPending
  /\ Goto(p, "load")
  /\ UNCHANGED <<files, lock, acked, now, call, bounds>>

Truncate(lines) == SubSeq(lines, 1, pending.old.sequence)

(* An incomplete transaction is taken back, the two files in either order. *)
TruncateJournal(p) ==
  /\ pc[p] = "recover"
  /\ pending # NoPending
  /\ ~Complete
  /\ Len(journal) > pending.old.sequence
  /\ journal' = Truncate(journal)
  /\ UNCHANGED <<dedupe, pending, snapshot, lock, acked, now, pc, call, bounds>>

TruncateDedupe(p) ==
  /\ pc[p] = "recover"
  /\ pending # NoPending
  /\ ~Complete
  /\ Len(dedupe) > pending.old.sequence
  /\ dedupe' = Truncate(dedupe)
  /\ UNCHANGED <<journal, pending, snapshot, lock, acked, now, pc, call, bounds>>

(* Mutant: always rolls the checkpoint forward.                            *)
RecoveredHead_New == pending.new

RecoveredHead == IF Complete THEN pending.new ELSE pending.old

RestoreSnapshot(p) ==
  /\ pc[p] = "recover"
  /\ pending # NoPending
  /\ Complete \/ (Truncate(journal) = journal /\ Truncate(dedupe) = dedupe)
  /\ snapshot' = RecoveredHead
  /\ Goto(p, "recovered")
  /\ UNCHANGED <<journal, dedupe, pending, lock, acked, now, call, bounds>>

DropPending(p) ==
  /\ pc[p] = "recovered"
  /\ pending' = NoPending
  /\ Goto(p, "load")
  /\ UNCHANGED <<journal, dedupe, snapshot, lock, acked, now, call, bounds>>

-----------------------------------------------------------------------------
(* The batch, under the lock.                                              *)

Keyed(events, key) == {e \in ToSet(events) : e.key = key}

(* Without a receivedAt of the caller the clock is read under the lock.    *)
ReceivedAt(p) == IF p \in Cli THEN stamp[p] ELSE now

(* Mutant: received_at may move backwards.                                 *)
Acceptable_AnyTime(p) ==
  \A i \in DOMAIN batch[p] :
    /\ \A j \in 1..(i - 1) : batch[p][j].key # batch[p][i].key
    /\ \A e \in Keyed(Events(journal), batch[p][i].key) : e.payload = batch[p][i].payload

(* No key twice, none with another payload, and no receive time before the *)
(* last event's.                                                           *)
Acceptable(p) ==
  /\ \A i \in DOMAIN batch[p] :
       /\ \A j \in 1..(i - 1) : batch[p][j].key # batch[p][i].key
       /\ \A e \in Keyed(Events(journal), batch[p][i].key) : e.payload = batch[p][i].payload
  /\ batch[p] # <<>> /\ journal # <<>> => Last(journal).event.received <= ReceivedAt(p)

FreshPlaces(p) == {i \in DOMAIN batch[p] : Keyed(Events(journal), batch[p][i].key) = {}}

FreshPlace(p, k) ==
  CHOOSE i \in FreshPlaces(p) : Cardinality({j \in FreshPlaces(p) : j <= i}) = k

(* The drafts whose key is new, in their order.                            *)
Fresh(p) == [k \in 1..Cardinality(FreshPlaces(p)) |-> batch[p][FreshPlace(p, k)]]

(* The drafts as events that continue the journal.                         *)
Envelopes(drafts, received) ==
  LET n == Len(journal)
      Sealed(i) == [sequence |-> n + i, key |-> drafts[i].key, payload |-> drafts[i].payload,
                    received |-> received]
  IN  [i \in DOMAIN drafts |->
         [sequence |-> n + i, key |-> drafts[i].key, payload |-> drafts[i].payload,
          received |-> received,
          previous |-> IF i = 1 THEN HeadOf(Events(journal)).last ELSE EventHash(Sealed(i - 1))]]

LoadSucceeds ==
  Verifies(journal) /\ CheckpointMatches(Events(journal)) /\ DedupeMatches

(* A batch of known events changes nothing and succeeds.                   *)
Load(p) ==
  /\ pc[p] = "load"
  /\ LoadSucceeds /\ Acceptable(p)
  /\ accepted' = [accepted EXCEPT ![p] = Envelopes(Fresh(p), ReceivedAt(p))]
  /\ Goto(p, IF Fresh(p) = <<>> THEN "acked" ELSE "pending")
  /\ UNCHANGED <<files, lock, acked, now, batch, stamp, loaded, tries, bounds>>

(* The store cannot be loaded, or a draft is unacceptable for one of the   *)
(* reasons above or for its own content: the whole batch is refused.       *)
Reject(p) ==
  /\ pc[p] = "load"
  /\ Goto(p, "release")
  /\ UNCHANGED <<files, lock, acked, now, call, bounds>>

WritePending(p) ==
  /\ pc[p] = "pending"
  /\ pending' = [old |-> HeadOf(Events(journal)),
                 new |-> HeadOf(Events(journal) \o accepted[p]),
                 append |-> accepted[p]]
  /\ Goto(p, "append")
  /\ UNCHANGED <<journal, dedupe, snapshot, lock, acked, now, call, bounds>>

BeginAppend(p) ==
  /\ pc[p] = "append"
  /\ journal' \in {journal \o lines : lines \in Partials(accepted[p])}
  /\ Goto(p, "appending")
  /\ UNCHANGED <<dedupe, pending, snapshot, lock, acked, now, call, bounds>>

EndAppend(p) ==
  /\ pc[p] = "appending"
  /\ journal' = Truncate(journal) \o Lines(accepted[p])
  /\ Goto(p, "index")
  /\ UNCHANGED <<dedupe, pending, snapshot, lock, acked, now, call, bounds>>

BeginIndex(p) ==
  /\ pc[p] = "index"
  /\ dedupe' \in {dedupe \o lines : lines \in Partials(accepted[p])}
  /\ Goto(p, "indexing")
  /\ UNCHANGED <<journal, pending, snapshot, lock, acked, now, call, bounds>>

EndIndex(p) ==
  /\ pc[p] = "indexing"
  /\ dedupe' = Truncate(dedupe) \o Lines(accepted[p])
  /\ Goto(p, "checkpoint")
  /\ UNCHANGED <<journal, pending, snapshot, lock, acked, now, call, bounds>>

Checkpoint(p) ==
  /\ pc[p] = "checkpoint"
  /\ snapshot' = pending.new
  /\ Goto(p, "unlink")
  /\ UNCHANGED <<journal, dedupe, pending, lock, acked, now, call, bounds>>

UnlinkPending(p) ==
  /\ pc[p] = "unlink"
  /\ pending' = NoPending
  /\ Goto(p, "acked")
  /\ UNCHANGED <<journal, dedupe, snapshot, lock, acked, now, call, bounds>>

(* finally: unlink the lock; the batch is reported as ingested or refused. *)
Release(p) ==
  /\ pc[p] \in {"acked", "release"}
  /\ lock' = NoLock
  /\ acked' = acked \cup
       IF pc[p] = "acked"
       THEN {e \in ToSet(Events(journal)) : \E d \in ToSet(batch[p]) : d.key = e.key}
       ELSE {}
  /\ Goto(p, "idle")
  /\ batch' = [batch EXCEPT ![p] = <<>>]
  /\ accepted' = [accepted EXCEPT ![p] = <<>>]
  /\ UNCHANGED <<files, now, stamp, loaded, tries, bounds>>

-----------------------------------------------------------------------------
(* The environment.                                                        *)

(* A call of the file system fails: the ingest throws and leaves the files *)
(* as they are, unless only the checkpoint or the unlink is concerned.     *)
WriteFails(p) ==
  /\ write_errors < scene.write_errors
  /\ write_errors' = write_errors + 1
  /\ \/ /\ \/ pc[p] \in {"pending", "append", "appending", "index", "indexing"}
           \/ pc[p] = "recover" /\ pending # NoPending
        /\ Goto(p, "release")
     \/ pc[p] \in {"checkpoint", "unlink"} /\ Goto(p, "acked")
     \/ pc[p] = "recovered" /\ Goto(p, "load")
  /\ UNCHANGED <<files, lock, acked, now, call, scene, crashes, lock_errors>>

(* A process dies, in the middle of a write too, and its memory with it.   *)
Crash(p) ==
  /\ Alive(p) /\ p \in scene.users
  /\ crashes < scene.crashes
  /\ crashes' = crashes + 1
  /\ Goto(p, "dead")
  /\ batch' = [batch EXCEPT ![p] = <<>>]
  /\ accepted' = [accepted EXCEPT ![p] = <<>>]
  /\ UNCHANGED <<files, lock, acked, now, stamp, loaded, tries, scene, write_errors, lock_errors>>

(* Ten minutes pass over a lock whose creator died before writing its pid, *)
(* or gave up on it.                                                       *)
LockAges ==
  /\ lock # NoLock
  /\ ~lock.written /\ ~lock.old /\ pc[lock.owner] # "pid"
  /\ lock' = [lock EXCEPT !.old = TRUE]
  /\ UNCHANGED <<files, acked, now, pc, call, bounds>>

Tick ==
  /\ now < MaxTime
  /\ now' = now + 1
  /\ UNCHANGED <<files, lock, acked, pc, call, bounds>>

Acquire(p) ==
  \/ OpenLock(p) \/ WritePid(p) \/ WritePidFails(p)
  \/ StatLock(p) \/ ReadLock(p) \/ TakeOver(p)

Recovery(p) ==
  \/ NothingPending(p) \/ TruncateJournal(p) \/ TruncateDedupe(p)
  \/ RestoreSnapshot(p) \/ DropPending(p)

Step(p) ==
  \/ ReadJournal(p) \/ ReadSnapshot(p) \/ FailLoad(p)
  \/ Acquire(p) \/ Recovery(p)
  \/ Load(p) \/ Reject(p) \/ WritePending(p)
  \/ BeginAppend(p) \/ EndAppend(p) \/ BeginIndex(p) \/ EndIndex(p)
  \/ Checkpoint(p) \/ UnlinkPending(p) \/ WriteFails(p) \/ Release(p)

Next == Tick \/ LockAges \/ \E p \in Procs : Start(p) \/ Step(p) \/ Crash(p)

Spec == Init /\ [][Next]_vars

(* A call that was started runs on, callers try again, and time passes.    *)
FairSpec ==
  /\ Spec
  /\ WF_vars(LockAges)
  /\ \A p \in Procs : WF_vars(Step(p)) /\ WF_vars(Start(p))

-----------------------------------------------------------------------------
(* Properties.                                                             *)

Holding == {"pid", "recover", "recovered", "load", "pending", "append", "appending", "index",
            "indexing", "checkpoint", "unlink", "acked", "release"}

Labels == {"idle", "journal", "snapshot", "rolled_back", "open", "stat", "read", "takeover", "pid",
           "recover", "recovered", "load", "pending", "append", "appending", "index", "indexing",
           "checkpoint", "unlink", "acked", "release", "dead"}

(* The directory and the running calls have the shapes store.ts gives      *)
(* them; in particular the files hold no more lines than there are keys,   *)
(* whatever is retried.                                                    *)
TypeOK ==
  /\ journal \in Seq(FileLines) /\ Len(journal) <= Cardinality(Keys)
  /\ dedupe \in Seq(FileLines) /\ Len(dedupe) <= Cardinality(Keys)
  /\ pending \in Transactions \cup {NoPending}
  /\ snapshot \in Heads
  /\ lock \in Locks \cup {NoLock}
  /\ acked \subseteq LongEvents
  /\ now \in 1..MaxTime
  /\ pc \in [Procs -> Labels]
  /\ batch \in [Procs -> Batches \cup {<<>>}]
  /\ stamp \in [Procs -> 1..MaxTime]
  /\ loaded \in [Procs -> Seq(LongEvents)] /\ accepted \in [Procs -> Seq(LongEvents)]
  /\ attempt \in [Procs -> {0, 1}] /\ seen_old \in [Procs -> BOOLEAN]
  /\ scene \in Scenes
  /\ crashes \in 0..scene.crashes /\ write_errors \in 0..scene.write_errors
  /\ lock_errors \in 0..scene.lock_errors

(* The processes that go for the lock.                                     *)
Lockers == (Cli \cup Api) \cap scene.users

OneLocker  == \A p, q \in Lockers : p = q
TwoLockers == \A p, q, r \in Lockers : p = q \/ q = r \/ p = r

(* As long as no lock has been left behind for two processes to recover.   *)
OneRecovers == OneLocker \/ (lock_errors = 0 /\ (crashes = 0 \/ TwoLockers))

(* "Long store is being updated" (store.ts:187): two processes are never   *)
(* inside the lock at once, and the lock at the path is its holder's own.  *)
(* It holds while OneRecovers does; two processes that both recover a lock *)
(* left behind can rename away each other's (store.ts:181-184).            *)
OneHolder ==
  \A p \in Procs : pc[p] \in Holding =>
    /\ lock # NoLock /\ lock.owner = p
    /\ \A q \in Procs : pc[q] \in Holding => q = p

(* What recovery would keep: a transaction counts from the moment both     *)
(* files hold all of it.                                                   *)
Durable ==
  IF pending = NoPending \/ (pending # NoPending /\ Complete) THEN journal ELSE Truncate(journal)

(* Recovery leaves three files that agree: whoever has recovered under the *)
(* lock finds a journal that verifies, is not behind its checkpoint, and   *)
(* is indexed by the dedupe file line for line (store.ts:139-160,          *)
(* 198-205).  Otherwise every later ingest would be refused.               *)
RecoveredStoreLoads == \A p \in Procs : pc[p] = "load" => LoadSucceeds

(* The checkpoint never runs ahead of what recovery would keep: no         *)
(* rollback of an interrupted batch makes the store unreadable with        *)
(* "rolled back behind its checkpoint" (store.ts:109, 153-158, 250-257).   *)
CheckpointIsDurable == CheckpointMatches(Events(Durable))

(* The store implements the batch log: batches are atomic, keys are        *)
(* idempotent, receive times monotone, and a batch reported as ingested is *)
(* kept whatever crashes or fails later.                                   *)
Published(event) == [key |-> event.key, payload |-> event.payload, received |-> event.received]

DurableLog == [i \in DOMAIN Durable |-> Published(Durable[i].event)]

BL == INSTANCE BatchLog WITH
        Batches <- Batches,
        Times   <- 1..MaxTime,
        log     <- DurableLog,
        acked   <- {Published(e) : e \in acked}
ImplementsBatchLog == BL!Spec

(* "dead-process recovery" (src/docs/JEVLONG_DESIGN.md:450): a journal     *)
(* that a crash or a failed write left torn can be read again eventually.  *)
TornJournalRecovers == ~Verifies(journal) ~> Verifies(journal)

(* The same as far as the code goes: ingestLongBatch recovers before it    *)
(* loads (store.ts:198-200), so callers of the API that stay alive repair  *)
(* what a crash or a failed write, theirs or a command's, left torn.       *)
CallersRecover == ~Verifies(journal) ~> Verifies(journal) \/ \A p \in Api \cap scene.users : ~Alive(p)

(* What the tests show of loadLongStore: "detects complete-line rollback   *)
(* behind the durable checkpoint" (src/tests/long-store.test.ts:71).  A    *)
(* rollback is reported only of a journal that is behind its checkpoint.   *)
RollbackIsReal ==
  [][\A p \in Procs :
       pc[p] = "snapshot" /\ pc'[p] = "rolled_back" => ~CheckpointMatches(Events(journal))]_vars

(* "Every event is append-only" (src/docs/JEVLONG_DESIGN.md:130): an event *)
(* that a load has shown stays in the journal.                             *)
ShownIsKept ==
  \A p \in Readers : pc[p] = "idle" => IsPrefix(loaded[p], Events(journal))

=============================================================================
