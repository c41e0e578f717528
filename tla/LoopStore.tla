------------------------------ MODULE LoopStore ------------------------------
(***************************************************************************)
(* The event store of one loop directory (src/src/loop/store.ts): the      *)
(* mutation lock, its takeover from a dead owner, and the locked           *)
(* load-check-append-snapshot of appendLoopEvent, one file-system call per *)
(* step, for processes that may die between any two of them.               *)
(*                                                                         *)
(* A process that died is not started again: its pid is not reused.  A     *)
(* live process writes its pid into a fresh lock within the ten minutes    *)
(* after which an unreadable lock is taken for stale.  Payloads and their  *)
(* validation by the state machine are abstracted to "accepted or          *)
(* rejected on the loaded log"; JevLoop models them.                       *)
(***************************************************************************)
EXTENDS Integers, Sequences, FiniteSets, SequencesExt

CONSTANTS
  Procs,           \* processes appending to this directory
  Creator,         \* the process that created the loop
  NoLock,          \* .mutation.lock does not exist
  MaxEvents,       \* bound: lines of events.jsonl
  MaxCrashes,      \* bound: processes that die
  MaxWriteErrors   \* bound: appends that fail half way (disk full)

ASSUME ProcsAssumption == IsFiniteSet(Procs) /\ Creator \notin Procs
ASSUME NoLockAssumption == NoLock \notin [owner: Procs, written: BOOLEAN, old: BOOLEAN]
ASSUME BoundsAssumption == {MaxEvents, MaxCrashes, MaxWriteErrors} \subseteq Nat /\ MaxEvents # 0

VARIABLES
  file,      \* events.jsonl: the lines, each whole or torn
  snapshot,  \* snapshot.json: the sequence it was written for
  lock,      \* .mutation.lock: NoLock or the file a process created
  acked,     \* digests of the events whose append returned to its caller
  pc,        \* where each process is in appendLoopEvent
  attempt,   \* the attempt of acquireMutationLock (0, 1)
  seen_old,  \* stat found the lock at least ten minutes old
  loaded,    \* the events a process read under the lock
  crashes, write_errors

procVars == <<attempt, seen_old, loaded>>
vars == <<file, snapshot, lock, acked, pc, attempt, seen_old, loaded,
          crashes, write_errors>>

(* The digest of an event is abstracted to its author and sequence.        *)
Event(sequence, previous, by) == [sequence |-> sequence, previous |-> previous, by |-> by]
EventHash(event) == <<event.by, event.sequence>>
ZeroHash == <<Creator, 0>>
Created  == Event(1, ZeroHash, Creator)

Whole(event) == [event |-> event, whole |-> TRUE]
Torn(event)  == [event |-> event, whole |-> FALSE]

(* verifyEvent: the line is complete and continues the chain.              *)
Chained(lines, i) ==
  /\ lines[i].whole
  /\ lines[i].event.sequence = i
  /\ lines[i].event.previous = IF i = 1 THEN ZeroHash ELSE EventHash(lines[i-1].event)

Readable(lines) == Len(lines) > 0 /\ \A i \in 1..Len(lines) : Chained(lines, i)

Alive(p) == pc[p] # "dead"

Init ==
  /\ file = <<Whole(Created)>> /\ snapshot = 1
  /\ lock = NoLock /\ acked = {}
  /\ pc = [p \in Procs |-> "idle"]
  /\ attempt = [p \in Procs |-> 0] /\ seen_old = [p \in Procs |-> FALSE]
  /\ loaded = [p \in Procs |-> <<>>]
  /\ crashes = 0 /\ write_errors = 0

Goto(p, label) == pc' = [pc EXCEPT ![p] = label]

-----------------------------------------------------------------------------
(* acquireMutationLock.                                                    *)

Start(p) ==
  /\ pc[p] = "idle"
  /\ Goto(p, "open")
  /\ attempt' = [attempt EXCEPT ![p] = 0]
  /\ UNCHANGED <<file, snapshot, lock, acked, seen_old, loaded, crashes, write_errors>>

(* open(lockPath, "wx") creates the lock or fails because it exists.       *)
OpenLock(p) ==
  /\ pc[p] = "open"
  /\ IF lock = NoLock
     THEN /\ lock' = [owner |-> p, written |-> FALSE, old |-> FALSE]
          /\ Goto(p, "pid")
     ELSE UNCHANGED lock /\ Goto(p, "stat")
  /\ UNCHANGED <<file, snapshot, acked, procVars, crashes, write_errors>>

TriesAgain(p) == attempt[p] = 0

(* The lock may be gone by now: one more try, then the command fails.      *)
StatLock(p) ==
  /\ pc[p] = "stat"
  /\ IF lock # NoLock
     THEN /\ seen_old' = [seen_old EXCEPT ![p] = lock.old]
          /\ Goto(p, "read")
          /\ UNCHANGED attempt
     ELSE /\ Goto(p, IF TriesAgain(p) THEN "open" ELSE "idle")
          /\ attempt' = IF TriesAgain(p) THEN [attempt EXCEPT ![p] = @ + 1] ELSE attempt
          /\ UNCHANGED seen_old
  /\ UNCHANGED <<file, snapshot, lock, acked, loaded, crashes, write_errors>>

(* Mutant: a lock without a readable owner is stale at once.               *)
LockStale_Malformed(p) ==
  IF lock # NoLock /\ lock.written THEN ~Alive(lock.owner) ELSE TRUE

(* Mutant: an unreadable lock is never taken for stale.                    *)
LockStale_PidOnly(p) == lock # NoLock /\ lock.written /\ ~Alive(lock.owner)

(* Stale: the recorded owner is dead; without a readable record, the age   *)
(* found by stat decides.                                                  *)
LockStale(p) ==
  IF lock # NoLock /\ lock.written THEN ~Alive(lock.owner) ELSE seen_old[p]

ReadLock(p) ==
  /\ pc[p] = "read"
  /\ Goto(p, IF LockStale(p) /\ TriesAgain(p) THEN "takeover" ELSE "idle")
  /\ UNCHANGED <<file, snapshot, lock, acked, procVars, crashes, write_errors>>

(* rename and unlink whatever lock is at the path by now.                  *)
TakeOver(p) ==
  /\ pc[p] = "takeover"
  /\ IF lock # NoLock
     THEN /\ lock' = NoLock
          /\ attempt' = [attempt EXCEPT ![p] = @ + 1]
          /\ Goto(p, "open")
     ELSE UNCHANGED <<lock, attempt>> /\ Goto(p, "idle")
  /\ UNCHANGED <<file, snapshot, acked, seen_old, loaded, crashes, write_errors>>

-----------------------------------------------------------------------------
(* appendLoopEvent under the lock.                                         *)

WritePid(p) ==
  /\ pc[p] = "pid"
  /\ lock' = IF lock # NoLock /\ lock.owner = p THEN [lock EXCEPT !.written = TRUE] ELSE lock
  /\ Goto(p, "load")
  /\ UNCHANGED <<file, snapshot, acked, procVars, crashes, write_errors>>

(* Mutant: trusts the snapshot instead of replaying the log.               *)
LoadLog_Snapshot == SubSeq(file, 1, snapshot)

(* loadLoop replays the whole log.                                         *)
LoadLog == file

Load(p) ==
  /\ pc[p] = "load"
  /\ Readable(LoadLog)
  /\ loaded' = [loaded EXCEPT ![p] = LoadLog]
  /\ Goto(p, "append")
  /\ UNCHANGED <<file, snapshot, lock, acked, attempt, seen_old, crashes, write_errors>>

(* The pid cannot be written, the log cannot be read, the event is         *)
(* rejected on it, or not a byte of it is written: nothing is appended.    *)
Reject(p) ==
  /\ pc[p] \in {"pid", "load", "append"}
  /\ Goto(p, "release")
  /\ UNCHANGED <<file, snapshot, lock, acked, procVars, crashes, write_errors>>

NewEvent(p) == Event(Len(loaded[p]) + 1, EventHash(Last(loaded[p]).event), p)

BeginAppend(p) ==
  /\ pc[p] = "append"
  /\ Len(file) < MaxEvents
  /\ file' = Append(file, Torn(NewEvent(p)))
  /\ Goto(p, "appending")
  /\ UNCHANGED <<snapshot, lock, acked, attempt, seen_old, loaded, crashes, write_errors>>

EndAppend(p) ==
  /\ pc[p] = "appending"
  /\ \E i \in 1..Len(file) :
       /\ file[i] = Torn(NewEvent(p))
       /\ file' = [file EXCEPT ![i] = Whole(NewEvent(p))]
  /\ Goto(p, "snapshot")
  /\ UNCHANGED <<snapshot, lock, acked, procVars, crashes, write_errors>>

(* The write or the sync fails with the line begun, which stays torn; a    *)
(* write that fails before its first byte is Reject's.                     *)
AppendFails(p) ==
  /\ pc[p] = "appending"
  /\ write_errors < MaxWriteErrors
  /\ write_errors' = write_errors + 1
  /\ Goto(p, "release")
  /\ UNCHANGED <<file, snapshot, lock, acked, procVars, crashes>>

(* A snapshot that cannot be written does not fail the append.             *)
WriteSnapshot(p) ==
  /\ pc[p] = "snapshot"
  /\ snapshot' \in {snapshot, NewEvent(p).sequence}
  /\ Goto(p, "acked")
  /\ UNCHANGED <<file, lock, acked, procVars, crashes, write_errors>>

(* finally: close the lock and unlink whatever is at its path, then return *)
(* or throw.                                                               *)
Release(p) ==
  /\ pc[p] \in {"acked", "release"}
  /\ lock' = NoLock
  /\ acked' = IF pc[p] = "acked" THEN acked \cup {EventHash(NewEvent(p))} ELSE acked
  /\ Goto(p, "idle")
  /\ loaded' = [loaded EXCEPT ![p] = <<>>]
  /\ UNCHANGED <<file, snapshot, attempt, seen_old, crashes, write_errors>>

-----------------------------------------------------------------------------
(* The environment.                                                        *)

(* A process dies, in the middle of a write too.                           *)
Crash(p) ==
  /\ Alive(p)
  /\ crashes < MaxCrashes
  /\ crashes' = crashes + 1
  /\ Goto(p, "dead")
  /\ UNCHANGED <<file, snapshot, lock, acked, procVars, write_errors>>

(* Ten minutes pass over a lock whose creator died before writing its pid. *)
LockAges ==
  /\ lock # NoLock
  /\ ~lock.written /\ ~lock.old /\ ~Alive(lock.owner)
  /\ lock' = [lock EXCEPT !.old = TRUE]
  /\ UNCHANGED <<file, snapshot, acked, pc, procVars, crashes, write_errors>>

Step(p) ==
  \/ OpenLock(p) \/ StatLock(p) \/ ReadLock(p) \/ TakeOver(p)
  \/ WritePid(p) \/ Load(p) \/ Reject(p)
  \/ BeginAppend(p) \/ EndAppend(p) \/ AppendFails(p)
  \/ WriteSnapshot(p) \/ Release(p)

Next == LockAges \/ \E p \in Procs : Start(p) \/ Step(p) \/ Crash(p)

Spec == Init /\ [][Next]_vars

(* A call that was started runs on, callers try again, and time passes.    *)
FairSpec ==
  /\ Spec
  /\ WF_vars(LockAges)
  /\ \A p \in Procs : WF_vars(Step(p)) /\ WF_vars(Start(p))
-----------------------------------------------------------------------------
(* Properties.                                                             *)

Lines == [event: [sequence: 1..MaxEvents, previous: (Procs \cup {Creator}) \X (0..MaxEvents),
                  by: Procs \cup {Creator}],
          whole: BOOLEAN]

Labels == {"idle", "open", "stat", "read", "takeover", "pid", "load", "append",
           "appending", "snapshot", "acked", "release", "dead"}

(* The directory and the running calls have the shapes store.ts gives them *)
(* and acquireMutationLock makes two attempts at most.                     *)
TypeOK ==
  /\ file \in Seq(Lines) /\ Len(file) <= MaxEvents
  /\ snapshot \in 1..MaxEvents
  /\ lock \in [owner: Procs, written: BOOLEAN, old: BOOLEAN] \cup {NoLock}
  /\ acked \subseteq Procs \X (2..MaxEvents)
  /\ pc \in [Procs -> Labels]
  /\ attempt \in [Procs -> {0, 1}]
  /\ seen_old \in [Procs -> BOOLEAN]
  /\ \A p \in Procs : loaded[p] \in Seq(Lines)
  /\ crashes \in 0..MaxCrashes /\ write_errors \in 0..MaxWriteErrors

Holding == {"pid", "load", "append", "appending", "snapshot", "acked", "release"}

(* "exclusive mutation lock": two processes never hold the lock at once,   *)
(* and the lock at the path is the holder's own, so that the unlink of one *)
(* call never removes the lock of another (store.ts:201-204, 233-236).     *)
OneHolder ==
  \A p \in Procs : pc[p] \in Holding =>
    /\ lock # NoLock /\ lock.owner = p
    /\ \A q \in Procs : pc[q] \in Holding => q = p

(* "append-only hash-chained events": every line continues the chain; only *)
(* the last may be torn, by a write that is running, failed or died.  A    *)
(* line that does not chain would make the loop unreadable for good.       *)
ChainIntact ==
  \A i \in 1..Len(file) :
    \/ Chained(file, i)
    \/ i = Len(file) /\ ~file[i].whole

Verified == {n \in 0..Len(file) : \A i \in 1..n : Chained(file, i)}

(* The store implements the event log: what a reader can verify is a log   *)
(* that only grows, and a caller is told of its append only when the event *)
(* is in it.                                                               *)
EL == INSTANCE EventLog WITH
        Events  <- Procs \X (2..MaxEvents),
        Created <- EventHash(Created),
        log     <- [i \in 1..Max(Verified) |-> EventHash(file[i].event)],
        acked   <- acked
ImplementsEventLog == EL!Spec

(* "lock recovery": a lock left behind by a dead process, with or without  *)
(* its pid, does not block the directory for ever.                         *)
LockRecovered ==
  \A p \in Procs :
    lock # NoLock /\ lock.owner = p /\ ~Alive(p) ~> (lock = NoLock \/ lock.owner # p)

=============================================================================
