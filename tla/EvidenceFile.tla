---------------------------- MODULE EvidenceFile ----------------------------
(***************************************************************************)
(* The evidence bundle as a file (src/src/evidence/store.ts and the three  *)
(* recorders): a command runs before the lock is asked for, the bundle is  *)
(* read again under the lock, changed, written to a temporary file and     *)
(* renamed over the old one.  The lock of a dead recorder is never taken   *)
(* over: an operator removes it.                                           *)
(*                                                                         *)
(* One step per file-system call that others can tell from its neighbours. *)
(* What a command will report is part of its op, for nobody sees it before *)
(* it is recorded; waiting for the lock is one step that ends in it or not.*)
(***************************************************************************)
EXTENDS EvidenceLedger

CONSTANTS
  Recorders,       \* processes
  Windows,         \* whether rename may be refused because the file exists
  NoLock, NoOp

ASSUME FileAssumption == NoLock \notin Recorders /\ NoOp \notin Ops /\ Windows \in BOOLEAN

VARIABLES
  present,  \* whether the file is there; packet is what it holds, or held last
  lock,     \* the lock file: who created it
  named,    \* whether it holds its creator's pid yet
  pc, op,   \* where each recorder is, and what it records
  copy      \* the bundle it has read under the lock

vars == <<packet, present, lock, named, pc, op, copy>>

Init ==
  /\ PacketInit /\ present = TRUE
  /\ lock = NoLock /\ named = FALSE
  /\ pc = [p \in Recorders |-> "idle"] /\ op = [p \in Recorders |-> NoOp]
  /\ copy = [p \in Recorders |-> Template]

Goto(p, label) == pc' = [pc EXCEPT ![p] = label]

Alive(p) == pc[p] # "dead"

(* A command is looked up before it runs; metrics and artifacts are not.   *)
Begin(p) ==
  /\ pc[p] = "idle"
  /\ \E o \in Ops :
       /\ op' = [op EXCEPT ![p] = o]
       /\ IF o.kind = "command"
          THEN present /\ CommandAccepted(packet, o) /\ Goto(p, "run")
          ELSE Goto(p, "lock")
  /\ UNCHANGED <<packet, present, lock, named, copy>>

(* executeCommand: it exits, or is stopped after its timeout.              *)
Run(p) ==
  /\ pc[p] = "run" /\ Goto(p, "lock")
  /\ UNCHANGED <<packet, present, lock, named, op, copy>>

(* Mutant: opens the lock whether it exists or not.                        *)
OpenLock_NotExclusive(p) ==
  /\ pc[p] = "lock"
  /\ lock' = p /\ named' = FALSE /\ Goto(p, "name")
  /\ UNCHANGED <<packet, present, op, copy>>

(* acquireEvidenceLock: open with "wx", then the pid.                      *)
OpenLock(p) ==
  /\ pc[p] = "lock" /\ lock = NoLock
  /\ lock' = p /\ named' = FALSE /\ Goto(p, "name")
  /\ UNCHANGED <<packet, present, op, copy>>

NameLock(p) ==
  /\ pc[p] = "name" /\ named' = TRUE /\ Goto(p, "read")
  /\ UNCHANGED <<packet, present, lock, op, copy>>

Forget(p) == op' = [op EXCEPT ![p] = NoOp] /\ copy' = [copy EXCEPT ![p] = Template]

(* The pid could not be written: the lock is removed again.                *)
NameLockFails(p) ==
  /\ pc[p] = "name" /\ lock' = NoLock /\ named' = FALSE
  /\ Goto(p, "idle") /\ Forget(p)
  /\ UNCHANGED <<packet, present>>

(* Mutant: waits for as long as the lock may belong to somebody.           *)
GiveUp_Stale(p) ==
  /\ pc[p] = "lock" /\ lock # NoLock /\ named /\ ~Alive(lock)
  /\ Goto(p, "idle") /\ Forget(p)
  /\ UNCHANGED <<packet, present, lock, named>>

(* Five seconds have passed, or the lock names a process that is dead.     *)
GiveUp(p) ==
  /\ pc[p] = "lock" /\ lock # NoLock
  /\ Goto(p, "idle") /\ Forget(p)
  /\ UNCHANGED <<packet, present, lock, named>>

(* withEvidenceBundleLock reads the bundle; the recorder checks again.     *)
Read(p) ==
  /\ pc[p] = "read"
  /\ IF present /\ Accepts(packet, op[p])
     THEN copy' = [copy EXCEPT ![p] = packet] /\ Goto(p, "write")
     ELSE UNCHANGED copy /\ Goto(p, "release")
  /\ UNCHANGED <<packet, present, lock, named, op>>

(* Mutant: records on the bundle as it was when the lock was asked for.    *)
RenameOver_Initial(p) ==
  /\ pc[p] = "write"
  /\ packet' = Recorded(Template, op[p]) /\ Goto(p, "release")
  /\ UNCHANGED <<present, lock, named, op, copy>>

(* writeEvidenceBundle: rename replaces the file.                          *)
RenameOver(p) ==
  /\ pc[p] = "write"
  /\ packet' = Recorded(copy[p], op[p]) /\ Goto(p, "release")
  /\ UNCHANGED <<present, lock, named, op, copy>>

(* rename is refused: the old file goes first.                             *)
Unlink(p) ==
  /\ pc[p] = "write" /\ Windows
  /\ present' = FALSE /\ Goto(p, "rename")
  /\ UNCHANGED <<packet, lock, named, op, copy>>

RenameBack(p) ==
  /\ pc[p] = "rename"
  /\ packet' = Recorded(copy[p], op[p]) /\ present' = TRUE /\ Goto(p, "release")
  /\ UNCHANGED <<lock, named, op, copy>>

(* The temporary file is not written, or not renamed; it is removed.  So   *)
(* ends a bundle over the schema's limits, which is refused.               *)
WriteFails(p) ==
  /\ pc[p] \in {"write", "rename"} /\ Goto(p, "release")
  /\ UNCHANGED <<packet, present, lock, named, op, copy>>

(* releaseEvidenceLock: if the lock is still this call's.                  *)
Release(p) ==
  /\ pc[p] = "release" /\ Goto(p, "idle") /\ Forget(p)
  /\ IF lock = p THEN lock' = NoLock /\ named' = FALSE ELSE UNCHANGED <<lock, named>>
  /\ UNCHANGED <<packet, present>>

Crash(p) ==
  /\ pc[p] \notin {"idle", "dead"} /\ Goto(p, "dead") /\ Forget(p)
  /\ UNCHANGED <<packet, present, lock, named>>

(* The operator removes a lock after verifying that its writer is gone.    *)
RemoveLock ==
  /\ lock # NoLock /\ ~Alive(lock)
  /\ lock' = NoLock /\ named' = FALSE
  /\ UNCHANGED <<packet, present, pc, op, copy>>

Step(p) ==
  \/ Run(p) \/ OpenLock(p) \/ NameLock(p) \/ NameLockFails(p) \/ GiveUp(p) \/ Read(p)
  \/ RenameOver(p) \/ Unlink(p) \/ RenameBack(p) \/ WriteFails(p) \/ Release(p)

Next ==
  \/ \E p \in Recorders : Begin(p) \/ Step(p) \/ Crash(p)
  \/ RemoveLock

Spec == Init /\ [][Next]_vars

(* A call that was started runs on: the command ends by its timeout, the   *)
(* wait for the lock by its own.                                           *)
FairSpec == Spec /\ \A p \in Recorders : WF_vars(Step(p))

-----------------------------------------------------------------------------
Stages == {"idle", "run", "lock", "name", "read", "write", "rename", "release", "dead"}

Holding == {"name", "read", "write", "rename", "release"}

(* Every variable is what its comment says.                                *)
TypeOK ==
  /\ present \in BOOLEAN /\ named \in BOOLEAN /\ lock \in Recorders \cup {NoLock}
  /\ pc \in [Recorders -> Stages]
  /\ op \in [Recorders -> Ops \cup {NoOp}]
  /\ \A p \in Recorders : op[p] = NoOp <=> pc[p] \in {"idle", "dead"}
  /\ DOMAIN copy = Recorders

(* What makes recordings serial: whoever is past the lock owns it, and     *)
(* what it has read is what the file still holds.                          *)
CopyIsCurrent ==
  \A p \in Recorders :
    /\ pc[p] \in Holding => lock = p
    /\ pc[p] \in {"write", "rename"} => copy[p] = packet /\ Accepts(packet, op[p])

(* WORKFLOW.md: concurrent evidence writes are serialized, and whoever     *)
(* dies where, a recording is in the bundle as a whole or not at all: the  *)
(* file implements EvidenceLedger, with which it shares packet.            *)
ImplementsLedger == PacketSpec

(* Every call comes to an end, whatever locks the dead have left behind.   *)
CallsEnd == \A p \in Recorders : pc[p] \notin {"idle", "dead"} ~> pc[p] \in {"idle", "dead"}

(* store.ts:94, where rename may be refused: removing the old file is      *)
(* safe, because the writer holds the lock and will put the new one there. *)
BundleSurvives == present \/ \E p \in Recorders : pc[p] = "rename"
=============================================================================
