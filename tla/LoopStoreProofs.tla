--------------------------- MODULE LoopStoreProofs ---------------------------
(***************************************************************************)
(* Proofs about LoopStore, for any number of processes until one dies, and *)
(* through every death where at most two processes use the directory: the  *)
(* mutation lock excludes, the log stays a chain, and the store implements *)
(* the event log.  (After a death the takeover run shows a race between    *)
(* two processes that both recover the dead one's lock.)                   *)
(***************************************************************************)
EXTENDS LoopStore, SequenceTheorems, TLAPS

FewProcesses == \A p, q, r \in Procs : p = q \/ q = r \/ p = r

(* No lock to recover, or one process at most to recover it.               *)
OneRecovers == crashes = 0 \/ FewProcesses

Locks == [owner: Procs, written: BOOLEAN, old: BOOLEAN]

(* The lock is its holder's, or a dead process left it; who judges it      *)
(* stale, or is about to because of its age, knows of a dead process.      *)
LockInv ==
  /\ crashes \in Nat
  /\ pc \in [Procs -> Labels]
  /\ seen_old \in [Procs -> BOOLEAN]
  /\ lock \in Locks \cup {NoLock}
  /\ \A p \in Procs : pc[p] = "dead" => crashes # 0
  /\ \A p \in Procs : pc[p] \in Holding => lock # NoLock /\ lock.owner = p
  /\ lock # NoLock => pc[lock.owner] \in Holding \cup {"dead"}
  /\ lock # NoLock /\ lock.old => pc[lock.owner] = "dead"
  /\ \A p \in Procs : pc[p] = "takeover" \/ (pc[p] = "read" /\ seen_old[p]) =>
       \E q \in Procs : pc[q] = "dead"

LEMMA NoLockIsNone == NoLock \notin Locks
BY NoLockAssumption DEF Locks

LEMMA LockInit == Init => LockInv
BY NoLockIsNone DEF Init, LockInv, Labels, Holding

LEMMA LockStep ==
  ASSUME LockInv, OneRecovers, [Next]_vars
  PROVE  LockInv'
<1> USE DEF LockInv, Goto, Labels, Holding, procVars
<1>1. ASSUME NEW p \in Procs, Start(p) PROVE LockInv'
  <2>1. /\ pc[p] = "idle" /\ pc' = [pc EXCEPT ![p] = "open"]
        /\ UNCHANGED <<lock, seen_old, crashes>>
    BY <1>1 DEF Start
  <2>2. QED  BY <2>1, NoLockIsNone DEF Locks
<1>2. ASSUME NEW p \in Procs, OpenLock(p) PROVE LockInv'
  <2>1. CASE lock = NoLock
    <3> DEFINE new == [owner |-> p, written |-> FALSE, old |-> FALSE]
    <3>1. lock' = new /\ pc' = [pc EXCEPT ![p] = "pid"] /\ UNCHANGED <<seen_old, crashes>>
      BY <1>2, <2>1 DEF OpenLock
    <3>2. new \in Locks /\ new # NoLock /\ new.owner = p /\ ~new.old
      <4>1. new \in Locks
        BY DEF Locks
      <4>2. QED  BY <4>1, NoLockIsNone
    <3>3. pc[p] = "open" /\ \A q \in Procs : pc'[q] \in Holding <=> q = p
      BY <1>2, <2>1, <3>1 DEF OpenLock
    <3> HIDE DEF new
    <3>4. QED  BY <3>1, <3>2, <3>3
  <2>2. CASE lock # NoLock
    <3>1. /\ pc[p] = "open" /\ pc' = [pc EXCEPT ![p] = "stat"]
          /\ UNCHANGED <<lock, seen_old, crashes>>
      BY <1>2, <2>2 DEF OpenLock
    <3>2. QED  BY <3>1, NoLockIsNone DEF Locks
  <2>3. QED  BY <2>1, <2>2
<1>3. ASSUME NEW p \in Procs, StatLock(p) PROVE LockInv'
  <2>1. CASE lock # NoLock
    <3>1. /\ pc[p] = "stat" /\ pc' = [pc EXCEPT ![p] = "read"]
          /\ seen_old' = [seen_old EXCEPT ![p] = lock.old]
          /\ UNCHANGED <<lock, crashes>>
      BY <1>3, <2>1 DEF StatLock
    <3>2. lock \in Locks /\ lock.owner \in Procs /\ lock.old \in BOOLEAN
      BY <2>1 DEF Locks
    <3>3. QED  BY <3>1, <3>2, <2>1
  <2>2. CASE lock = NoLock
    <3>1. /\ pc[p] = "stat" /\ UNCHANGED <<lock, seen_old, crashes>>
          /\ pc' = [pc EXCEPT ![p] = "open"] \/ pc' = [pc EXCEPT ![p] = "idle"]
      BY <1>3, <2>2 DEF StatLock
    <3>2. QED  BY <3>1, <2>2
  <2>3. QED  BY <2>1, <2>2
<1>4. ASSUME NEW p \in Procs, ReadLock(p) PROVE LockInv'
  <2>1. CASE LockStale(p)
    <3>1. /\ pc[p] = "read" /\ UNCHANGED <<lock, seen_old, crashes>>
          /\ pc' = [pc EXCEPT ![p] = "takeover"] \/ pc' = [pc EXCEPT ![p] = "idle"]
      BY <1>4 DEF ReadLock
    <3>2. \E q \in Procs : pc[q] = "dead"
      BY <2>1, <3>1 DEF LockStale, Alive, Locks
    <3>3. QED  BY <3>1, <3>2 DEF Locks
  <2>2. CASE ~LockStale(p)
    <3>1. /\ pc[p] = "read" /\ UNCHANGED <<lock, seen_old, crashes>>
          /\ pc' = [pc EXCEPT ![p] = "idle"]
      BY <1>4, <2>2 DEF ReadLock
    <3>2. QED  BY <3>1 DEF Locks
  <2>3. QED  BY <2>1, <2>2
<1>5. ASSUME NEW p \in Procs, TakeOver(p) PROVE LockInv'
  <2>1. /\ pc[p] = "takeover" /\ UNCHANGED <<seen_old, crashes>> /\ lock' = NoLock
        /\ pc' = [pc EXCEPT ![p] = "open"] \/ pc' = [pc EXCEPT ![p] = "idle"]
    BY <1>5 DEF TakeOver
  <2>2. PICK q \in Procs : pc[q] = "dead"
    BY <2>1
  <2>3. \A r \in Procs : r = p \/ r = q
    BY <2>1, <2>2 DEF OneRecovers, FewProcesses
  <2>4. \A r \in Procs : pc'[r] \notin Holding
    BY <2>1, <2>2, <2>3
  <2>5. QED  BY <2>1, <2>2, <2>4
<1>6. ASSUME NEW p \in Procs, WritePid(p) PROVE LockInv'
  <2>1. lock \in Locks /\ lock # NoLock /\ lock.owner = p /\ ~lock.old
    BY <1>6 DEF WritePid, Locks
  <2>2. lock' \in Locks /\ lock'.owner = p /\ ~lock'.old
    BY <1>6, <2>1 DEF WritePid, Locks
  <2>3. lock' # NoLock
    BY <2>2, NoLockIsNone
  <2>4. /\ pc[p] = "pid" /\ pc' = [pc EXCEPT ![p] = "load"]
        /\ UNCHANGED <<seen_old, crashes>>
    BY <1>6 DEF WritePid
  <2>5. QED  BY <2>1, <2>2, <2>3, <2>4
<1>7. ASSUME NEW p \in Procs,
             \/ Load(p) \/ Reject(p) \/ BeginAppend(p) \/ EndAppend(p)
             \/ AppendFails(p) \/ WriteSnapshot(p)
      PROVE  LockInv'
  <2>1. UNCHANGED <<lock, seen_old, crashes>>
    BY <1>7 DEF Load, Reject, BeginAppend, EndAppend, AppendFails, WriteSnapshot
  <2>2. /\ pc[p] \in Holding
        /\ \E label \in Holding : pc' = [pc EXCEPT ![p] = label]
    BY <1>7 DEF Load, Reject, BeginAppend, EndAppend, AppendFails, WriteSnapshot
  <2>3. lock # NoLock /\ lock.owner = p /\ ~lock.old
    BY <2>2 DEF Locks
  <2>4. PICK label \in Holding : pc' = [pc EXCEPT ![p] = label]
    BY <2>2
  <2>5. pc'[p] = label /\ \A q \in Procs \ {p} : pc'[q] = pc[q]
    BY <2>4
  <2>6. label \in Labels /\ label # "dead" /\ label # "takeover" /\ label # "read"
    BY <2>4
  <2>7. QED  BY <2>1, <2>2, <2>3, <2>4, <2>5, <2>6
<1>8. ASSUME NEW p \in Procs, Release(p) PROVE LockInv'
  <2>1. lock # NoLock /\ lock.owner = p /\ lock' = NoLock
          /\ pc' = [pc EXCEPT ![p] = "idle"] /\ UNCHANGED <<seen_old, crashes>>
          /\ pc[p] # "dead"
    BY <1>8 DEF Release
  <2>2. QED  BY <2>1
<1>9. ASSUME NEW p \in Procs, Crash(p) PROVE LockInv'
  <2>1. /\ pc' = [pc EXCEPT ![p] = "dead"] /\ crashes' = crashes + 1
        /\ UNCHANGED <<lock, seen_old>>
    BY <1>9 DEF Crash
  <2>2. QED  BY <2>1 DEF Locks
<1>10. ASSUME LockAges PROVE LockInv'
  <2>1. /\ lock \in Locks /\ lock # NoLock /\ pc[lock.owner] = "dead"
        /\ lock' = [lock EXCEPT !.old = TRUE] /\ UNCHANGED <<pc, seen_old, crashes>>
    BY <1>10 DEF LockAges, Alive
  <2>2. lock' \in Locks /\ lock'.owner = lock.owner
    BY <2>1 DEF Locks
  <2>3. lock' # NoLock
    BY <2>2, NoLockIsNone
  <2>4. QED  BY <2>1, <2>2, <2>3
<1>11. CASE UNCHANGED vars
  BY <1>11 DEF vars
<1>12. QED
  BY <1>1, <1>2, <1>3, <1>4, <1>5, <1>6, <1>7, <1>8, <1>9, <1>10, <1>11 DEF Next, Step

(* A death is counted, and nothing counts back.                            *)
LEMMA CrashesGrow ==
  ASSUME crashes \in Nat, [Next]_vars
  PROVE  crashes' \in Nat /\ (OneRecovers' => OneRecovers)
<1>1. crashes' \in Nat /\ (crashes' = 0 => crashes = 0)
  BY DEF Next, Step, vars, LockAges, Start, OpenLock, StatLock, ReadLock, TakeOver, WritePid,
         Load, Reject, BeginAppend, EndAppend, AppendFails, WriteSnapshot, Release, Crash
<1>2. QED
  BY <1>1 DEF OneRecovers, FewProcesses

(* Mutual exclusion (store.ts:177-243): for any number of processes until  *)
(* one dies, and with two also while one recovers the other's lock.        *)
THEOREM LockExcludes == Spec => [](OneRecovers => OneHolder)
<1> DEFINE Inv == crashes \in Nat /\ (OneRecovers => LockInv)
<1>1. Init => Inv
  BY LockInit DEF Init
<1>2. Inv /\ [Next]_vars => Inv'
  BY LockStep, CrashesGrow
<1>3. Inv => (OneRecovers => OneHolder)
  BY DEF LockInv, OneHolder
<1>4. QED
  BY <1>1, <1>2, <1>3, PTL DEF Spec
-----------------------------------------------------------------------------
(* The log.                                                                *)

Authors  == Procs \cup {Creator}
AnyEvent == [sequence: Nat, previous: Authors \X Nat, by: Authors]
AnyLine  == [event: AnyEvent, whole: BOOLEAN]

Writing == {"append", "appending", "snapshot", "acked"}

(* What the holder read is still the log, up to the line it is writing or  *)
(* has written.                                                            *)
FileInv ==
  /\ file \in Seq(AnyLine) /\ Len(file) > 0
  /\ loaded \in [Procs -> Seq(AnyLine)]
  /\ ChainIntact
  /\ \A p \in Procs :
       /\ pc[p] = "append" => loaded[p] = file /\ Readable(file)
       /\ pc[p] = "appending" =>
            /\ Readable(loaded[p]) /\ file = Append(loaded[p], Torn(NewEvent(p)))
            /\ Len(file) <= MaxEvents
       /\ pc[p] \in {"snapshot", "acked"} =>
            /\ Readable(loaded[p]) /\ file = Append(loaded[p], Whole(NewEvent(p)))
            /\ Len(file) <= MaxEvents

(* The event appendLoopEvent builds is an event.                           *)
LEMMA NewEventType ==
  ASSUME NEW p \in Procs, loaded[p] \in Seq(AnyLine), Len(loaded[p]) > 0
  PROVE  /\ NewEvent(p) \in AnyEvent
         /\ Torn(NewEvent(p)) \in AnyLine /\ Whole(NewEvent(p)) \in AnyLine
<1>1. Len(loaded[p]) \in Nat /\ Last(loaded[p]) \in AnyLine
  BY DEF Last
<1>2. EventHash(Last(loaded[p]).event) \in Authors \X Nat
  BY <1>1 DEF AnyLine, AnyEvent, EventHash
<1>3. NewEvent(p) \in AnyEvent
  BY <1>1, <1>2 DEF NewEvent, Event, AnyEvent, Authors
<1>4. QED
  BY <1>3 DEF Torn, Whole, AnyLine

(* A line appended to a readable log leaves the earlier lines chained.     *)
LEMMA EarlierChained ==
  ASSUME NEW lines \in Seq(AnyLine), Readable(lines), NEW line \in AnyLine
  PROVE  /\ Append(lines, line) \in Seq(AnyLine)
         /\ Len(Append(lines, line)) = Len(lines) + 1
         /\ Append(lines, line)[Len(lines) + 1] = line
         /\ \A i \in 1..Len(lines) : Append(lines, line)[i] = lines[i]
         /\ \A i \in 1..Len(lines) : Chained(Append(lines, line), i)
<1>1. /\ Append(lines, line) \in Seq(AnyLine)
      /\ Len(Append(lines, line)) = Len(lines) + 1
      /\ Append(lines, line)[Len(lines) + 1] = line
      /\ \A i \in 1..Len(lines) : Append(lines, line)[i] = lines[i]
  OBVIOUS
<1>2. ASSUME NEW i \in 1..Len(lines)
      PROVE  Chained(Append(lines, line), i)
  <2>1. Chained(lines, i)
    BY DEF Readable
  <2>2. i # 1 => i - 1 \in 1..Len(lines)
    OBVIOUS
  <2>3. QED  BY <1>1, <2>1, <2>2 DEF Chained
<1>3. QED
  BY <1>1, <1>2

(* Replacing the line appended last.                                       *)
LEMMA ReplaceLast ==
  ASSUME NEW S, NEW s \in Seq(S), NEW a \in S, NEW b \in S
  PROVE  [Append(s, a) EXCEPT ![Len(s) + 1] = b] = Append(s, b)
<1> DEFINE n == Len(s)
           t == Append(s, a)
           f == [t EXCEPT ![n + 1] = b]
           g == Append(s, b)
<1>1. /\ t \in Seq(S) /\ Len(t) = n + 1
      /\ \A i \in 1..n : t[i] = s[i]
  BY AppendProperties
<1>2. /\ g \in Seq(S) /\ Len(g) = n + 1 /\ g[n + 1] = b
      /\ \A i \in 1..n : g[i] = s[i]
  BY AppendProperties
<1>3. n \in Nat
  OBVIOUS
<1> HIDE DEF t, g
<1>4. /\ f \in Seq(S) /\ Len(f) = n + 1
      /\ \A j \in 1..(n + 1) : f[j] = IF j = n + 1 THEN b ELSE t[j]
  BY <1>1, <1>3, ExceptSeq
<1> HIDE DEF f
<1>5. \A i \in 1..(n + 1) : f[i] = g[i]
  BY <1>1, <1>2, <1>3, <1>4
<1>6. f = g
  BY <1>2, <1>4, <1>5, SeqEqual
<1>7. QED
  BY <1>6 DEF f, g, t

(* The event built on a log, once its line is whole, continues its chain.  *)
LEMMA NewEventChains ==
  ASSUME NEW p \in Procs, loaded[p] \in Seq(AnyLine), Readable(loaded[p])
  PROVE  Readable(Append(loaded[p], Whole(NewEvent(p))))
<1> DEFINE lines == loaded[p]
           line  == Whole(NewEvent(p))
           new   == Append(lines, line)
<1>1. Len(lines) > 0 /\ Len(lines) \in Nat
  BY DEF Readable
<1>2. line \in AnyLine
  BY <1>1, NewEventType
<1>3. /\ Len(new) = Len(lines) + 1 /\ new[Len(lines) + 1] = line
      /\ new[Len(lines)] = lines[Len(lines)]
      /\ \A i \in 1..Len(lines) : Chained(new, i)
  BY <1>1, <1>2, EarlierChained
<1>4. /\ line.whole /\ line.event.sequence = Len(lines) + 1
      /\ line.event.previous = EventHash(lines[Len(lines)].event)
  BY DEF Whole, NewEvent, Event, Last
<1>5. Chained(new, Len(lines) + 1)
  BY <1>1, <1>3, <1>4 DEF Chained
<1>6. \A i \in 1..Len(new) : i \in 1..Len(lines) \/ i = Len(lines) + 1
  BY <1>1, <1>3
<1>7. QED
  BY <1>1, <1>3, <1>5, <1>6 DEF Readable

(* The write ends: the torn line of the holder, the last one, is whole.     *)
LEMMA EndAppendCompletes ==
  ASSUME FileInv, NEW p \in Procs, EndAppend(p)
  PROVE  /\ pc[p] = "appending" /\ UNCHANGED <<loaded, acked>>
         /\ Readable(loaded[p]) /\ loaded[p] \in Seq(AnyLine)
         /\ file = Append(loaded[p], Torn(NewEvent(p)))
         /\ file' = Append(loaded[p], Whole(NewEvent(p)))
         /\ Len(file') = Len(file)
<1> DEFINE lines == loaded[p]
           new   == Append(lines, Whole(NewEvent(p)))
<1>1. pc[p] = "appending" /\ UNCHANGED <<loaded, acked>> /\ loaded \in [Procs -> Seq(AnyLine)]
  BY DEF EndAppend, procVars, FileInv
<1>2. PICK i \in 1..Len(file) :
         /\ file[i] = Torn(NewEvent(p))
         /\ file' = [file EXCEPT ![i] = Whole(NewEvent(p))]
  BY DEF EndAppend
<1>3. /\ Readable(lines) /\ lines \in Seq(AnyLine) /\ Len(lines) > 0 /\ Len(lines) \in Nat
      /\ file = Append(lines, Torn(NewEvent(p)))
  BY <1>1 DEF FileInv, Readable
<1>4. Torn(NewEvent(p)) \in AnyLine /\ Whole(NewEvent(p)) \in AnyLine
  BY <1>3, NewEventType
<1>5. \A j \in 1..Len(lines) : file[j] = lines[j] /\ lines[j].whole
  BY <1>3 DEF Readable, Chained
<1>6. i = Len(lines) + 1
  <2>1. ~file[i].whole
    BY <1>2 DEF Torn
  <2>2. Len(file) = Len(lines) + 1
    BY <1>3, <1>4, EarlierChained
  <2>3. QED  BY <1>3, <1>5, <2>1, <2>2
<1>7. file' = new
  <2> DEFINE torn == Torn(NewEvent(p))
             line == Whole(NewEvent(p))
  <2>1. lines \in Seq(AnyLine) /\ torn \in AnyLine /\ line \in AnyLine
    BY <1>3, <1>4
  <2>2. file' = [Append(lines, torn) EXCEPT ![Len(lines) + 1] = line]
    BY <1>2, <1>3, <1>6
  <2> HIDE DEF lines, torn, line
  <2>3. [Append(lines, torn) EXCEPT ![Len(lines) + 1] = line] = Append(lines, line)
    BY <2>1, ReplaceLast
  <2>4. file' = Append(lines, line)
    BY <2>2, <2>3
  <2>5. QED  BY <2>4 DEF lines, line
<1>8. Len(new) = Len(file)
  BY <1>3, <1>4, EarlierChained
<1>9. QED
  BY <1>1, <1>3, <1>7, <1>8

LEMMA FileInit == Init => FileInv
<1> SUFFICES ASSUME Init PROVE FileInv
  OBVIOUS
<1>1. file = <<Whole(Created)>> /\ loaded = [p \in Procs |-> <<>>]
  BY DEF Init
<1>2. Whole(Created) \in AnyLine
  BY DEF Whole, Created, Event, ZeroHash, AnyLine, AnyEvent, Authors
<1>3. Chained(file, 1)
  BY <1>1 DEF Chained, Whole, Created, Event
<1>4. file \in Seq(AnyLine) /\ Len(file) = 1
  BY <1>1, <1>2
<1>5. ChainIntact
  BY <1>3, <1>4 DEF ChainIntact
<1>6. \A p \in Procs : pc[p] = "idle"
  BY DEF Init
<1>7. QED
  BY <1>1, <1>4, <1>5, <1>6 DEF FileInv


LEMMA FileStep ==
  ASSUME LockInv, FileInv, [Next]_vars
  PROVE  FileInv'
<1> USE DEF Writing
<1>1. \A p, q \in Procs : pc[p] \in Holding /\ pc[q] \in Holding => p = q
  BY DEF LockInv
<1>2. pc \in [Procs -> Labels] /\ loaded \in [Procs -> Seq(AnyLine)]
  BY DEF LockInv, FileInv
<1>3. ASSUME UNCHANGED <<file, loaded>>,
             \A q \in Procs : pc'[q] \in Writing =>
               pc'[q] = pc[q] \/ (pc'[q] = "acked" /\ pc[q] = "snapshot")
      PROVE  FileInv'
  <2>1. \A q \in Procs : NewEvent(q)' = NewEvent(q)
    BY <1>3 DEF NewEvent
  <2>2. ChainIntact'
    BY <1>3 DEF FileInv, ChainIntact, Chained
  <2>3. QED  BY <1>3, <2>1, <2>2 DEF FileInv
<1>4. ASSUME NEW p \in Procs,
             \/ Start(p) \/ OpenLock(p) \/ StatLock(p) \/ ReadLock(p) \/ TakeOver(p)
             \/ WritePid(p) \/ Reject(p) \/ AppendFails(p) \/ Crash(p)
      PROVE  FileInv'
  <2>1. UNCHANGED <<file, loaded>>
    BY <1>4 DEF Start, OpenLock, StatLock, ReadLock, TakeOver, WritePid, Reject,
       AppendFails, Crash, procVars
  <2>2. \E label \in Labels \ Writing : pc' = [pc EXCEPT ![p] = label]
    BY <1>4 DEF Start, OpenLock, StatLock, ReadLock, TakeOver, WritePid, Reject,
       AppendFails, Crash, Goto, Labels
  <2>3. \A q \in Procs : pc'[q] \in Writing => pc'[q] = pc[q]
    BY <1>2, <2>2
  <2>4. QED  BY <1>3, <2>1, <2>3
<1>5. ASSUME NEW p \in Procs, Load(p) PROVE FileInv'
  <2>1. /\ UNCHANGED file /\ Readable(file)
        /\ loaded' = [loaded EXCEPT ![p] = file]
        /\ pc' = [pc EXCEPT ![p] = "append"] /\ pc[p] = "load"
    BY <1>5 DEF Load, LoadLog, Goto
  <2>2. ChainIntact'
    BY <2>1 DEF FileInv, ChainIntact, Chained
  <2>3. \A q \in Procs \ {p} : pc'[q] \notin Writing
    BY <1>1, <1>2, <2>1 DEF Holding
  <2>4. pc'[p] = "append" /\ loaded'[p] = file /\ loaded' \in [Procs -> Seq(AnyLine)]
    BY <1>2, <2>1 DEF FileInv
  <2>5. QED  BY <2>1, <2>2, <2>3, <2>4 DEF FileInv
<1>6. ASSUME NEW p \in Procs, BeginAppend(p) PROVE FileInv'
  <2>1. /\ pc[p] = "append" /\ UNCHANGED loaded
        /\ pc' = [pc EXCEPT ![p] = "appending"]
        /\ file' = Append(file, Torn(NewEvent(p))) /\ Len(file) < MaxEvents
    BY <1>6 DEF BeginAppend, Goto
  <2>2. loaded[p] = file /\ Readable(file) /\ file \in Seq(AnyLine) /\ Len(file) > 0
    BY <2>1 DEF FileInv
  <2>3. Torn(NewEvent(p)) \in AnyLine
    BY <2>2, NewEventType
  <2>4. /\ file' \in Seq(AnyLine) /\ Len(file') = Len(file) + 1
        /\ file'[Len(file) + 1] = Torn(NewEvent(p))
        /\ \A i \in 1..Len(file) : Chained(file', i)
    BY <2>1, <2>2, <2>3, EarlierChained
  <2>5. ChainIntact'
    <3>1. \A i \in 1..Len(file') : i \in 1..Len(file) \/ i = Len(file) + 1
      BY <2>2, <2>4
    <3>2. ~file'[Len(file')].whole
      BY <2>4 DEF Torn
    <3>3. \A i \in 1..Len(file') : Chained(file', i) \/ (i = Len(file') /\ ~file'[i].whole)
      BY <2>4, <3>1, <3>2
    <3>4. QED  BY <3>3 DEF ChainIntact
  <2>6. \A q \in Procs \ {p} : pc'[q] \notin Writing
    BY <1>1, <1>2, <2>1 DEF Holding
  <2>7. pc'[p] = "appending" /\ NewEvent(p)' = NewEvent(p)
    BY <1>2, <2>1 DEF NewEvent
  <2>8. Len(file') <= MaxEvents
    BY <2>1, <2>2, <2>4, BoundsAssumption
  <2>9. QED  BY <1>2, <2>1, <2>2, <2>4, <2>5, <2>6, <2>7, <2>8 DEF FileInv
<1>7. ASSUME NEW p \in Procs, EndAppend(p) PROVE FileInv'
  <2> DEFINE lines == loaded[p]
             new   == Append(lines, Whole(NewEvent(p)))
  <2>1. /\ pc[p] = "appending" /\ UNCHANGED loaded
        /\ pc' = [pc EXCEPT ![p] = "snapshot"]
    BY <1>7 DEF EndAppend, Goto, procVars
  <2>2. Readable(lines) /\ lines \in Seq(AnyLine) /\ file' = new /\ Len(file') = Len(file)
    BY <1>7, EndAppendCompletes
  <2>3. Len(lines) > 0 /\ Whole(NewEvent(p)) \in AnyLine
    BY <2>2, NewEventType DEF Readable
  <2>4. Readable(new) /\ new \in Seq(AnyLine) /\ Len(new) > 0
    BY <2>2, <2>3, NewEventChains, EarlierChained
  <2>5. ChainIntact'
    BY <2>2, <2>4 DEF ChainIntact, Readable
  <2>6. \A q \in Procs \ {p} : pc'[q] \notin Writing
    BY <1>1, <1>2, <2>1 DEF Holding
  <2>7. pc'[p] = "snapshot" /\ NewEvent(p)' = NewEvent(p)
    BY <1>2, <2>1 DEF NewEvent
  <2>8. Len(file) <= MaxEvents
    BY <2>1 DEF FileInv
  <2>9. QED  BY <1>2, <2>1, <2>2, <2>4, <2>5, <2>6, <2>7, <2>8 DEF FileInv
<1>8. ASSUME NEW p \in Procs, Release(p) PROVE FileInv'
  <2>1. /\ pc[p] \in Holding /\ UNCHANGED file
        /\ pc' = [pc EXCEPT ![p] = "idle"] /\ loaded' = [loaded EXCEPT ![p] = <<>>]
    BY <1>8 DEF Release, Goto, Holding
  <2>2. \A q \in Procs : pc'[q] \notin Writing
    BY <1>1, <1>2, <2>1 DEF Holding
  <2>3. ChainIntact'
    BY <2>1 DEF FileInv, ChainIntact, Chained
  <2>4. <<>> \in Seq(AnyLine)
    OBVIOUS
  <2>5. loaded' \in [Procs -> Seq(AnyLine)]
    BY <1>2, <2>1, <2>4
  <2>6. QED  BY <2>1, <2>2, <2>3, <2>5 DEF FileInv
<1>9. ASSUME NEW p \in Procs, WriteSnapshot(p) PROVE FileInv'
  <2>1. /\ UNCHANGED <<file, loaded>> /\ pc[p] = "snapshot"
        /\ pc' = [pc EXCEPT ![p] = "acked"]
    BY <1>9 DEF WriteSnapshot, Goto, procVars
  <2>2. \A q \in Procs : pc'[q] \in Writing =>
           pc'[q] = pc[q] \/ (pc'[q] = "acked" /\ pc[q] = "snapshot")
    BY <1>2, <2>1
  <2>3. QED  BY <1>3, <2>1, <2>2
<1>10. ASSUME LockAges \/ UNCHANGED vars PROVE FileInv'
  BY <1>3, <1>10 DEF LockAges, procVars, vars
<1>11. QED
  BY <1>4, <1>5, <1>6, <1>7, <1>8, <1>9, <1>10 DEF Next, Step

StoreInv == crashes \in Nat /\ (OneRecovers => LockInv /\ FileInv)

LEMMA StoreInvInductive == Spec => []StoreInv
<1>1. Init => StoreInv
  BY LockInit, FileInit DEF Init, StoreInv
<1>2. StoreInv /\ [Next]_vars => StoreInv'
  BY LockStep, FileStep, CrashesGrow DEF StoreInv
<1>3. QED
  BY <1>1, <1>2, PTL DEF Spec

(* The log stays a chain of whole events, but for a line being written or  *)
(* broken off at its end: for any number of processes until one dies, and  *)
(* with two also afterwards.                                               *)
THEOREM LogStaysChained == Spec => [](OneRecovers => ChainIntact)
<1>1. StoreInv => (OneRecovers => ChainIntact)
  BY DEF StoreInv, FileInv
<1>2. QED
  BY <1>1, StoreInvInductive, PTL
-----------------------------------------------------------------------------
(* The event log the store implements.                                     *)

LogOf(lines) ==
  [i \in 1..Max({n \in 0..Len(lines) : \A k \in 1..n : Chained(lines, k)}) |->
     EventHash(lines[i].event)]

(* The first n lines continue the chain, the next one does not.            *)
ChainEnds(lines, n) ==
  /\ n \in 0..Len(lines)
  /\ \A i \in 1..n : Chained(lines, i)
  /\ n < Len(lines) => ~Chained(lines, n + 1)

LEMMA MaxIs ==
  ASSUME NEW S \in SUBSET Nat, NEW n \in S, \A m \in S : n >= m
  PROVE  Max(S) = n
<1>1. \A x \in S : (\A y \in S : x >= y) => x = n
  <2>1. SUFFICES ASSUME NEW x \in S, \A y \in S : x >= y PROVE x = n
    OBVIOUS
  <2>2. x >= n /\ n >= x /\ x \in Nat /\ n \in Nat
    BY <2>1
  <2>3. QED  BY <2>2
<1>2. QED
  BY <1>1 DEF Max

(* What a reader can verify ends where the chain does.                     *)
LEMMA LogOfChain ==
  ASSUME NEW lines \in Seq(AnyLine), NEW n \in Nat, ChainEnds(lines, n)
  PROVE  /\ LogOf(lines) \in Seq(Authors \X Nat) /\ Len(LogOf(lines)) = n
         /\ \A i \in 1..n : LogOf(lines)[i] = <<lines[i].event.by, i>>
<1> DEFINE V == {m \in 0..Len(lines) : \A k \in 1..m : Chained(lines, k)}
<1>1. n \in V /\ n \in Nat /\ Len(lines) \in Nat
  BY DEF ChainEnds
<1>2. ASSUME NEW m \in V PROVE n >= m
  <2>1. SUFFICES ASSUME m > n PROVE FALSE
    BY <1>1
  <2>2. n + 1 \in 1..m /\ n < Len(lines)
    BY <1>1, <2>1
  <2>3. QED  BY <2>2 DEF ChainEnds
<1>3. V \in SUBSET Nat
  OBVIOUS
<1>4. \A i \in 1..n : /\ EventHash(lines[i].event) = <<lines[i].event.by, i>>
                      /\ <<lines[i].event.by, i>> \in Authors \X Nat
  <2>1. SUFFICES ASSUME NEW i \in 1..n
                 PROVE  /\ EventHash(lines[i].event) = <<lines[i].event.by, i>>
                        /\ <<lines[i].event.by, i>> \in Authors \X Nat
    OBVIOUS
  <2>2. i \in Nat /\ i \in 1..Len(lines) /\ Chained(lines, i)
    BY <1>1 DEF ChainEnds
  <2>3. lines[i].event \in AnyEvent
    <3>1. lines[i] \in AnyLine
      BY <2>2
    <3>2. QED  BY <3>1 DEF AnyLine
  <2>4. lines[i].event.by \in Authors /\ lines[i].event.sequence = i
    BY <2>2, <2>3 DEF Chained, AnyEvent
  <2>5. QED  BY <2>2, <2>4 DEF EventHash
<1> HIDE DEF V
<1>5. Max(V) = n
  BY <1>1, <1>2, <1>3, MaxIs
<1>6. LogOf(lines) = [i \in 1..n |-> EventHash(lines[i].event)]
  BY <1>5 DEF LogOf, V
<1>7. LogOf(lines) \in [1..n -> Authors \X Nat]
  <2>1. \A i \in 1..n : EventHash(lines[i].event) \in Authors \X Nat
    BY <1>4
  <2> HIDE DEF LogOf
  <2>2. [i \in 1..n |-> EventHash(lines[i].event)] \in [1..n -> Authors \X Nat]
    BY <2>1
  <2>3. QED  BY <1>6, <2>2
<1>8. LogOf(lines) \in Seq(Authors \X Nat) /\ Len(LogOf(lines)) = n
  BY <1>1, <1>7
<1>9. QED
  BY <1>4, <1>6, <1>8

(* The line being written is not part of the log, and a line that was      *)
(* written extends it.                                                     *)
LEMMA LogOfAppend ==
  ASSUME NEW lines \in Seq(AnyLine), Readable(lines), NEW event \in AnyEvent
  PROVE  /\ LogOf(lines) \in Seq(Authors \X Nat)
         /\ \A i \in DOMAIN LogOf(lines) : LogOf(lines)[i][2] = i
         /\ DOMAIN LogOf(lines) = 1..Len(lines)
         /\ LogOf(Append(lines, Torn(event))) = LogOf(lines)
         /\ Readable(Append(lines, Whole(event))) =>
              LogOf(Append(lines, Whole(event))) = Append(LogOf(lines), EventHash(event))
<1> DEFINE n     == Len(lines)
           torn  == Append(lines, Torn(event))
           whole == Append(lines, Whole(event))
           log   == LogOf(lines)
<1>1. n \in Nat /\ Torn(event) \in AnyLine /\ Whole(event) \in AnyLine
  BY DEF Torn, Whole, AnyLine
<1>2. ChainEnds(lines, n)
  BY <1>1 DEF Readable, ChainEnds
<1>3. /\ log \in Seq(Authors \X Nat) /\ Len(log) = n
      /\ \A i \in 1..n : log[i] = <<lines[i].event.by, i>>
  BY <1>2, LogOfChain
<1>4. LogOf(torn) = log
  <2>1. /\ torn \in Seq(AnyLine) /\ Len(torn) = n + 1 /\ torn[n + 1] = Torn(event)
        /\ \A i \in 1..n : torn[i] = lines[i] /\ Chained(torn, i)
    BY <1>1, EarlierChained
  <2>2. ~Chained(torn, n + 1)
    BY <2>1 DEF Chained, Torn
  <2>3. ChainEnds(torn, n)
    BY <1>1, <2>1, <2>2 DEF ChainEnds
  <2>4. /\ LogOf(torn) \in Seq(Authors \X Nat) /\ Len(LogOf(torn)) = n
        /\ \A i \in 1..n : LogOf(torn)[i] = <<torn[i].event.by, i>>
    BY <1>1, <2>1, <2>3, LogOfChain
  <2>5. \A i \in 1..n : LogOf(torn)[i] = log[i]
    BY <1>3, <2>1, <2>4
  <2> HIDE DEF log, torn
  <2>6. QED  BY <1>1, <1>3, <2>4, <2>5, SeqEqual
<1>5. ASSUME Readable(whole) PROVE LogOf(whole) = Append(log, EventHash(event))
  <2> DEFINE hash == EventHash(event)
  <2>1. /\ whole \in Seq(AnyLine) /\ Len(whole) = n + 1 /\ whole[n + 1] = Whole(event)
        /\ \A i \in 1..n : whole[i] = lines[i]
    BY <1>1, EarlierChained
  <2>2. ChainEnds(whole, n + 1)
    BY <1>1, <1>5, <2>1 DEF ChainEnds, Readable
  <2>3. /\ LogOf(whole) \in Seq(Authors \X Nat) /\ Len(LogOf(whole)) = n + 1
        /\ \A i \in 1..(n + 1) : LogOf(whole)[i] = <<whole[i].event.by, i>>
    <3> DEFINE m == n + 1
    <3>1. m \in Nat
      BY <1>1
    <3> HIDE DEF whole
    <3>2. \A k \in Nat : ChainEnds(whole, k) =>
            /\ LogOf(whole) \in Seq(Authors \X Nat) /\ Len(LogOf(whole)) = k
            /\ \A i \in 1..k : LogOf(whole)[i] = <<whole[i].event.by, i>>
      BY <2>1, LogOfChain
    <3>3. QED  BY <2>2, <3>1, <3>2
  <2>4. whole[n + 1].event = event /\ event.sequence = n + 1
    BY <1>1, <1>5, <2>1 DEF Whole, Readable, Chained
  <2>5. hash = <<event.by, n + 1>> /\ hash \in Authors \X Nat
    BY <1>1, <2>4 DEF EventHash, AnyEvent
  <2>6. LogOf(whole)[n + 1] = hash /\ \A i \in 1..n : LogOf(whole)[i] = log[i]
    <3>1. n + 1 \in 1..(n + 1) /\ \A i \in 1..n : i \in 1..(n + 1)
      BY <1>1
    <3>2. LogOf(whole)[n + 1] = <<whole[n + 1].event.by, n + 1>>
      BY <2>3, <3>1
    <3>3. \A i \in 1..n : LogOf(whole)[i] = <<lines[i].event.by, i>>
      BY <2>1, <2>3, <3>1
    <3>4. QED  BY <1>3, <2>4, <2>5, <3>2, <3>3
  <2> HIDE DEF log, whole, hash, n
  <2>7. /\ Append(log, hash) \in Seq(Authors \X Nat) /\ Len(Append(log, hash)) = n + 1
        /\ Append(log, hash)[n + 1] = hash /\ \A i \in 1..n : Append(log, hash)[i] = log[i]
    BY <1>3, <2>5, AppendProperties
  <2>8. \A i \in 1..(n + 1) : LogOf(whole)[i] = Append(log, hash)[i]
    BY <1>1, <2>6, <2>7
  <2>9. LogOf(whole) = Append(log, hash)
    BY <1>1, <2>3, <2>7, <2>8, SeqEqual
  <2>10. QED  BY <2>9 DEF hash
<1>6. DOMAIN log = 1..n
  BY <1>1, <1>3
<1>7. \A i \in DOMAIN log : log[i][2] = i
  BY <1>3, <1>6
<1> HIDE DEF log
<1>8. QED
  BY <1>3, <1>4, <1>5, <1>6, <1>7 DEF log

LogStep == \/ \E e \in Procs \X (2..MaxEvents) :
                \/ /\ \A i \in DOMAIN LogOf(file) : LogOf(file)[i] # e
                   /\ LogOf(file)' = Append(LogOf(file), e)
                   /\ UNCHANGED acked
                \/ /\ \E i \in DOMAIN LogOf(file) : LogOf(file)[i] = e
                   /\ acked' = acked \cup {e}
                   /\ LogOf(file)' = LogOf(file)
           \/ LogOf(file)' = LogOf(file) /\ UNCHANGED acked

(* The end of a write is the step that appends, the return to the caller   *)
(* the one that acknowledges; the others are internal.                     *)
LEMMA LogStepSimulated ==
  ASSUME FileInv, [Next]_vars
  PROVE  LogStep
<1>1. ASSUME UNCHANGED <<file, acked>> PROVE LogStep
  BY <1>1 DEF LogStep
<1>2. ASSUME NEW p \in Procs,
             \/ Start(p) \/ OpenLock(p) \/ StatLock(p) \/ ReadLock(p) \/ TakeOver(p)
             \/ WritePid(p) \/ Load(p) \/ Reject(p) \/ AppendFails(p)
             \/ WriteSnapshot(p) \/ Crash(p)
      PROVE  LogStep
  BY <1>1, <1>2 DEF Start, OpenLock, StatLock, ReadLock, TakeOver, WritePid, Load, Reject,
     AppendFails, WriteSnapshot, Crash
<1>3. ASSUME NEW p \in Procs, BeginAppend(p) PROVE LogStep
  <2>1. /\ loaded[p] = file /\ Readable(file) /\ file \in Seq(AnyLine) /\ Len(file) > 0
        /\ file' = Append(file, Torn(NewEvent(p))) /\ UNCHANGED acked
    BY <1>3 DEF BeginAppend, FileInv
  <2>2. NewEvent(p) \in AnyEvent
    BY <2>1, NewEventType
  <2>3. LogOf(file') = LogOf(file)
    BY <2>1, <2>2, LogOfAppend
  <2>4. QED  BY <2>1, <2>3 DEF LogStep
<1>4. ASSUME NEW p \in Procs, EndAppend(p) PROVE LogStep
  <2> DEFINE lines == loaded[p]
             event == NewEvent(p)
             e     == EventHash(event)
  <2>1. /\ pc[p] = "appending" /\ UNCHANGED acked
        /\ Readable(lines) /\ lines \in Seq(AnyLine)
        /\ file = Append(lines, Torn(event)) /\ file' = Append(lines, Whole(event))
    BY <1>4, EndAppendCompletes
  <2>2. Len(lines) > 0 /\ Len(lines) \in Nat /\ event \in AnyEvent
    BY <2>1, NewEventType DEF Readable
  <2>3. Readable(file')
    BY <2>1, NewEventChains
  <2>4. Len(lines) + 1 <= MaxEvents
    <3>1. Len(file) = Len(lines) + 1 /\ Len(file) <= MaxEvents
      BY <2>1, <2>2 DEF FileInv
    <3>2. QED  BY <3>1
  <2>5. e = <<p, Len(lines) + 1>> /\ e \in Procs \X (2..MaxEvents)
    BY <2>2, <2>4, BoundsAssumption DEF EventHash, NewEvent, Event
  <2>6. \A i \in DOMAIN LogOf(lines) : LogOf(lines)[i] # e
    BY <2>1, <2>2, <2>5, LogOfAppend
  <2>7. LogOf(file) = LogOf(lines) /\ LogOf(file') = Append(LogOf(lines), e)
    BY <2>1, <2>2, <2>3, LogOfAppend
  <2>8. QED  BY <2>1, <2>5, <2>6, <2>7 DEF LogStep
<1>5. ASSUME NEW p \in Procs, Release(p) PROVE LogStep
  <2>1. UNCHANGED file
    BY <1>5 DEF Release
  <2>2. CASE pc[p] = "acked"
    <3> DEFINE lines == loaded[p]
               event == NewEvent(p)
               e     == EventHash(event)
    <3>1. /\ Readable(lines) /\ lines \in Seq(AnyLine) /\ file = Append(lines, Whole(event))
          /\ Len(file) <= MaxEvents
      BY <2>2 DEF FileInv
    <3>2. Len(lines) > 0 /\ Len(lines) \in Nat /\ event \in AnyEvent
      BY <3>1, NewEventType DEF Readable
    <3>3. Readable(file) /\ Len(file) = Len(lines) + 1
      BY <3>1, <3>2, NewEventChains
    <3>4. e = <<p, Len(lines) + 1>> /\ e \in Procs \X (2..MaxEvents)
      BY <3>1, <3>2, <3>3, BoundsAssumption DEF EventHash, NewEvent, Event
    <3>5. LogOf(file) = Append(LogOf(lines), e) /\ LogOf(lines) \in Seq(Authors \X Nat)
      BY <3>1, <3>2, <3>3, LogOfAppend
    <3>6. \E i \in DOMAIN LogOf(file) : LogOf(file)[i] = e
      <4> HIDE DEF e
      <4>1. /\ Len(LogOf(lines)) + 1 \in DOMAIN Append(LogOf(lines), e)
            /\ Append(LogOf(lines), e)[Len(LogOf(lines)) + 1] = e
        BY <3>5
      <4>2. QED  BY <3>5, <4>1
    <3>7. acked' = acked \cup {e}
      BY <1>5, <2>2 DEF Release
    <3>8. QED  BY <2>1, <3>4, <3>6, <3>7 DEF LogStep
  <2>3. CASE pc[p] # "acked"
    BY <1>1, <1>5, <2>1, <2>3 DEF Release
  <2>4. QED  BY <2>2, <2>3
<1>6. ASSUME LockAges \/ UNCHANGED vars PROVE LogStep
  BY <1>1, <1>6 DEF LockAges, vars
<1>7. QED
  BY <1>2, <1>3, <1>4, <1>5, <1>6 DEF Next, Step

(* The store implements the event log: what a reader can verify only ever  *)
(* grows by one event that was not in it, and a caller hears of an append  *)
(* only when its event is in it (store.ts:257-289): for any number of      *)
(* processes until one dies, and for two through every death.              *)
THEOREM StoreImplementsEventLog == Spec /\ []OneRecovers => ImplementsEventLog
<1>1. Init => EL!Init
  <2> SUFFICES ASSUME Init PROVE EL!Init
    OBVIOUS
  <2>1. FileInv /\ file = <<Whole(Created)>> /\ acked = {}
    BY FileInit DEF Init
  <2>2. Len(file) = 1 /\ file[1].event = Created /\ file \in Seq(AnyLine)
    BY <2>1 DEF Whole, FileInv
  <2>3. Chained(file, 1)
    BY <2>1, <2>2 DEF Chained, Whole, Created, Event
  <2>4. ChainEnds(file, 1)
    BY <2>2, <2>3 DEF ChainEnds
  <2>5. LogOf(file) = <<EventHash(Created)>>
    <3>1. /\ LogOf(file) \in Seq(Authors \X Nat) /\ Len(LogOf(file)) = 1
          /\ LogOf(file)[1] = <<file[1].event.by, 1>>
      BY <2>2, <2>4, LogOfChain
    <3>2. EventHash(Created) = <<file[1].event.by, 1>>
      BY <2>2 DEF EventHash, Created, Event
    <3>3. QED  BY <3>1, <3>2
  <2>6. QED  BY <2>1, <2>5 DEF EL!Init, LogOf, Verified
<1>2. LogStep => [EL!Next]_<<[i \in 1..Max(Verified) |-> EventHash(file[i].event)], acked>>
  BY DEF LogStep, EL!Next, EL!AppendEvent, EL!Acknowledge, EL!Logged, LogOf, Verified
<1>3. StoreInv /\ OneRecovers /\ [Next]_vars
        => [EL!Next]_<<[i \in 1..Max(Verified) |-> EventHash(file[i].event)], acked>>
  BY <1>2, LogStepSimulated DEF StoreInv
<1>4. QED
  BY <1>1, <1>3, StoreInvInductive, PTL DEF Spec, ImplementsEventLog, EL!Spec
-----------------------------------------------------------------------------
(* Types.                                                                  *)

(* A copy is never longer than the log, which never shrinks; so the event  *)
(* that is built on a copy is within the bound its writer has checked, and *)
(* a lock is taken over in the first attempt only.                         *)
TypeInv ==
  /\ TypeOK
  /\ loaded \in [Procs -> Seq(Lines)]
  /\ \A p \in Procs :
       /\ Len(loaded[p]) <= Len(file)
       /\ pc[p] \in Writing => Len(loaded[p]) > 0
       /\ pc[p] \in {"appending", "snapshot", "acked"} => Len(loaded[p]) < MaxEvents
       /\ pc[p] = "takeover" => attempt[p] = 0

LEMMA NewLineType ==
  ASSUME NEW p \in Procs, loaded[p] \in Seq(Lines), Len(loaded[p]) > 0, Len(loaded[p]) < MaxEvents
  PROVE  /\ Torn(NewEvent(p)) \in Lines /\ Whole(NewEvent(p)) \in Lines
         /\ NewEvent(p).sequence \in 2..MaxEvents
         /\ EventHash(NewEvent(p)) \in Procs \X (2..MaxEvents)
<1>1. MaxEvents \in Nat /\ Len(loaded[p]) \in Nat /\ Len(loaded[p]) + 1 \in 2..MaxEvents
  BY BoundsAssumption
<1>2. Last(loaded[p]) \in Lines
  BY <1>1 DEF Last
<1>3. EventHash(Last(loaded[p]).event) \in (Procs \cup {Creator}) \X (0..MaxEvents)
  BY <1>1, <1>2 DEF Lines, EventHash
<1>4. QED
  BY <1>1, <1>3 DEF NewEvent, Event, EventHash, Torn, Whole, Lines

LEMMA TypeInit == Init => TypeInv
<1> SUFFICES ASSUME Init PROVE TypeInv
  OBVIOUS
<1>1. MaxEvents \in Nat /\ MaxCrashes \in Nat /\ MaxWriteErrors \in Nat /\ 1 \in 1..MaxEvents
  BY BoundsAssumption
<1>2. Whole(Created) \in Lines
  BY <1>1 DEF Whole, Created, Event, ZeroHash, Lines
<1>3. file \in Seq(Lines) /\ Len(file) = 1
  BY <1>2 DEF Init
<1>4. loaded \in [Procs -> Seq(Lines)] /\ \A p \in Procs : Len(loaded[p]) = 0 /\ pc[p] = "idle"
  BY DEF Init
<1>5. TypeOK
  BY <1>1, <1>3, <1>4 DEF Init, TypeOK, Labels
<1>6. QED
  BY <1>3, <1>4, <1>5 DEF TypeInv, Writing

(* What a step may do to the parts that most steps leave alone.            *)
LEMMA TypeKept ==
  ASSUME TypeInv, NEW p \in Procs, NEW label \in Labels,
         pc' = [pc EXCEPT ![p] = label],
         UNCHANGED <<file, snapshot, acked, loaded, crashes, write_errors>>,
         lock' \in Locks \cup {NoLock},
         attempt' \in [Procs -> {0, 1}], seen_old' \in [Procs -> BOOLEAN],
         \A q \in Procs \ {p} : attempt'[q] = attempt[q],
         label \in Writing => Len(loaded[p]) > 0,
         label \in {"appending", "snapshot", "acked"} => Len(loaded[p]) < MaxEvents,
         label = "takeover" => attempt'[p] = 0
  PROVE  TypeInv'
<1>1. TypeOK'
  BY DEF TypeInv, TypeOK, Locks
<1>2. pc'[p] = label /\ \A q \in Procs \ {p} : pc'[q] = pc[q]
  BY DEF TypeInv, TypeOK
<1>3. QED
  BY <1>1, <1>2 DEF TypeInv

LEMMA TypeStep == TypeInv /\ [Next]_vars => TypeInv'
<1> SUFFICES ASSUME TypeInv, [Next]_vars PROVE TypeInv'
  OBVIOUS
<1>1. /\ pc \in [Procs -> Labels] /\ attempt \in [Procs -> {0, 1}] /\ seen_old \in [Procs -> BOOLEAN]
      /\ lock \in Locks \cup {NoLock} /\ loaded \in [Procs -> Seq(Lines)]
      /\ file \in Seq(Lines) /\ Len(file) <= MaxEvents /\ Len(file) \in Nat
      /\ MaxEvents \in Nat /\ MaxCrashes \in Nat /\ MaxWriteErrors \in Nat
      /\ \A p \in Procs : Len(loaded[p]) \in Nat
  BY BoundsAssumption DEF TypeInv, TypeOK, Locks
<1> USE DEF Goto, procVars
<1>2. ASSUME NEW p \in Procs, Start(p) \/ OpenLock(p) \/ StatLock(p) \/ ReadLock(p) \/ TakeOver(p)
      PROVE  TypeInv'
  <2>1. lock' \in Locks \cup {NoLock}
    <3>1. \/ lock' = [owner |-> p, written |-> FALSE, old |-> FALSE]
          \/ lock' = NoLock \/ lock' = lock
      BY <1>2 DEF Start, OpenLock, StatLock, ReadLock, TakeOver
    <3>2. [owner |-> p, written |-> FALSE, old |-> FALSE] \in Locks
      BY DEF Locks
    <3>3. QED  BY <1>1, <3>1, <3>2
  <2>2. seen_old' \in [Procs -> BOOLEAN]
    BY <1>1, <1>2 DEF Start, OpenLock, StatLock, ReadLock, TakeOver, Locks
  <2>3. attempt' \in [Procs -> {0, 1}] /\ \A q \in Procs \ {p} : attempt'[q] = attempt[q]
    <3>1. attempt[p] \in {0, 1} /\ (pc[p] = "takeover" => attempt[p] = 0)
      BY <1>1 DEF TypeInv
    <3>2. attempt[p] = 0 => attempt[p] + 1 = 1
      OBVIOUS
    <3>3. \/ attempt' = attempt \/ attempt' = [attempt EXCEPT ![p] = 0]
          \/ attempt[p] = 0 /\ attempt' = [attempt EXCEPT ![p] = attempt[p] + 1]
      BY <1>2, <3>1 DEF Start, OpenLock, StatLock, ReadLock, TakeOver, TriesAgain
    <3>4. QED  BY <1>1, <3>2, <3>3
  <2>4. PICK label \in {"open", "pid", "stat", "read", "idle", "takeover"} :
          /\ pc' = [pc EXCEPT ![p] = label]
          /\ label = "takeover" => attempt'[p] = 0
    BY <1>2 DEF Start, OpenLock, StatLock, ReadLock, TakeOver, TriesAgain
  <2>5. UNCHANGED <<file, snapshot, acked, loaded, crashes, write_errors>>
    BY <1>2 DEF Start, OpenLock, StatLock, ReadLock, TakeOver
  <2>6. label \in Labels /\ label \notin Writing /\ label \notin {"appending", "snapshot", "acked"}
    BY <2>4 DEF Labels, Writing
  <2>7. QED  BY <2>1, <2>2, <2>3, <2>4, <2>5, <2>6, TypeKept
<1>3. ASSUME NEW p \in Procs, WritePid(p) \/ Reject(p) PROVE TypeInv'
  <2>1. lock' \in Locks \cup {NoLock}
    BY <1>1, <1>3 DEF WritePid, Reject, Locks
  <2>2. PICK label \in {"load", "release"} : pc' = [pc EXCEPT ![p] = label]
    BY <1>3 DEF WritePid, Reject
  <2>3. UNCHANGED <<file, snapshot, acked, loaded, crashes, write_errors, attempt, seen_old>>
    BY <1>3 DEF WritePid, Reject
  <2>4. /\ label \in Labels /\ label \notin Writing /\ label \notin {"appending", "snapshot", "acked"}
        /\ label # "takeover"
    BY <2>2 DEF Labels, Writing
  <2>5. QED  BY <1>1, <2>1, <2>2, <2>3, <2>4, TypeKept
<1>4. ASSUME NEW p \in Procs, Load(p) PROVE TypeInv'
  <2>1. /\ Len(file) > 0 /\ loaded' = [loaded EXCEPT ![p] = file] /\ pc' = [pc EXCEPT ![p] = "append"]
        /\ UNCHANGED <<file, snapshot, lock, acked, attempt, seen_old, crashes, write_errors>>
    BY <1>4 DEF Load, LoadLog, Readable
  <2>2. loaded' \in [Procs -> Seq(Lines)] /\ loaded'[p] = file /\ \A q \in Procs \ {p} : loaded'[q] = loaded[q]
    BY <1>1, <2>1
  <2>3. TypeOK'
    BY <1>1, <2>1, <2>2 DEF TypeInv, TypeOK, Labels
  <2>4. pc'[p] = "append" /\ \A q \in Procs \ {p} : pc'[q] = pc[q]
    BY <1>1, <2>1
  <2>5. QED  BY <1>1, <2>1, <2>2, <2>3, <2>4 DEF TypeInv, Writing
<1>5. ASSUME NEW p \in Procs, BeginAppend(p) PROVE TypeInv'
  <2>1. /\ pc[p] = "append" /\ pc' = [pc EXCEPT ![p] = "appending"] /\ Len(file) < MaxEvents
        /\ file' = Append(file, Torn(NewEvent(p)))
        /\ UNCHANGED <<snapshot, lock, acked, attempt, seen_old, loaded, crashes, write_errors>>
    BY <1>5 DEF BeginAppend
  <2>2. Len(loaded[p]) > 0 /\ Len(loaded[p]) < MaxEvents
    BY <1>1, <2>1 DEF TypeInv, Writing
  <2>3. Torn(NewEvent(p)) \in Lines
    BY <1>1, <2>2, NewLineType
  <2>4. file' \in Seq(Lines) /\ Len(file') = Len(file) + 1
    <3> DEFINE line == Torn(NewEvent(p))
    <3>1. line \in Lines /\ file' = Append(file, line)
      BY <2>1, <2>3
    <3> HIDE DEF line
    <3>2. QED  BY <1>1, <3>1, AppendProperties
  <2>5. TypeOK'
    BY <1>1, <2>1, <2>4 DEF TypeInv, TypeOK, Labels
  <2>6. pc'[p] = "appending" /\ \A q \in Procs \ {p} : pc'[q] = pc[q]
    BY <1>1, <2>1
  <2>7. \A q \in Procs : Len(loaded'[q]) <= Len(file')
    BY <1>1, <2>1, <2>4 DEF TypeInv
  <2>8. QED  BY <2>1, <2>2, <2>5, <2>6, <2>7 DEF TypeInv
<1>6. ASSUME NEW p \in Procs, EndAppend(p) PROVE TypeInv'
  <2>1. /\ pc[p] = "appending" /\ pc' = [pc EXCEPT ![p] = "snapshot"]
        /\ UNCHANGED <<snapshot, lock, acked, attempt, seen_old, loaded, crashes, write_errors>>
    BY <1>6 DEF EndAppend
  <2>2. PICK i \in 1..Len(file) : file' = [file EXCEPT ![i] = Whole(NewEvent(p))]
    BY <1>6 DEF EndAppend
  <2>3. Len(loaded[p]) > 0 /\ Len(loaded[p]) < MaxEvents
    BY <2>1 DEF TypeInv, Writing
  <2>4. Whole(NewEvent(p)) \in Lines
    BY <1>1, <2>3, NewLineType
  <2>5. file' \in Seq(Lines) /\ Len(file') = Len(file)
    <3> DEFINE line == Whole(NewEvent(p))
    <3>1. line \in Lines /\ file' = [file EXCEPT ![i] = line]
      BY <2>2, <2>4
    <3> HIDE DEF line
    <3>2. QED  BY <1>1, <3>1, ExceptSeq
  <2>6. TypeOK'
    BY <1>1, <2>1, <2>5 DEF TypeInv, TypeOK, Labels
  <2>7. pc'[p] = "snapshot" /\ \A q \in Procs \ {p} : pc'[q] = pc[q]
    BY <1>1, <2>1
  <2>8. QED  BY <2>1, <2>3, <2>5, <2>6, <2>7 DEF TypeInv
<1>7. ASSUME NEW p \in Procs, AppendFails(p) \/ Crash(p) PROVE TypeInv'
  <2>1. PICK label \in {"release", "dead"} : pc' = [pc EXCEPT ![p] = label]
    BY <1>7 DEF AppendFails, Crash
  <2>2. UNCHANGED <<file, snapshot, lock, acked, loaded, attempt, seen_old>>
    BY <1>7 DEF AppendFails, Crash
  <2>3. crashes' \in 0..MaxCrashes /\ write_errors' \in 0..MaxWriteErrors
    BY <1>1, <1>7 DEF AppendFails, Crash, TypeInv, TypeOK
  <2>4. TypeOK'
    BY <1>1, <2>1, <2>2, <2>3 DEF TypeInv, TypeOK, Labels
  <2>5. pc'[p] = label /\ \A q \in Procs \ {p} : pc'[q] = pc[q]
    BY <1>1, <2>1
  <2>6. QED  BY <2>1, <2>2, <2>4, <2>5 DEF TypeInv, Writing
<1>8. ASSUME NEW p \in Procs, WriteSnapshot(p) PROVE TypeInv'
  <2>1. /\ pc[p] = "snapshot" /\ pc' = [pc EXCEPT ![p] = "acked"]
        /\ snapshot' = snapshot \/ snapshot' = NewEvent(p).sequence
        /\ UNCHANGED <<file, lock, acked, attempt, seen_old, loaded, crashes, write_errors>>
    BY <1>8 DEF WriteSnapshot
  <2>2. Len(loaded[p]) > 0 /\ Len(loaded[p]) < MaxEvents
    BY <2>1 DEF TypeInv, Writing
  <2>3. NewEvent(p).sequence \in 2..MaxEvents
    BY <1>1, <2>2, NewLineType
  <2>4. snapshot' \in 1..MaxEvents
    BY <2>1, <2>3 DEF TypeInv, TypeOK
  <2>5. TypeOK'
    BY <1>1, <2>1, <2>4 DEF TypeInv, TypeOK, Labels
  <2>6. pc'[p] = "acked" /\ \A q \in Procs \ {p} : pc'[q] = pc[q]
    BY <1>1, <2>1
  <2>7. QED  BY <2>1, <2>2, <2>5, <2>6 DEF TypeInv
<1>9. ASSUME NEW p \in Procs, Release(p) PROVE TypeInv'
  <2>1. /\ lock' = NoLock /\ pc' = [pc EXCEPT ![p] = "idle"] /\ loaded' = [loaded EXCEPT ![p] = <<>>]
        /\ UNCHANGED <<file, snapshot, attempt, seen_old, crashes, write_errors>>
    BY <1>9 DEF Release
  <2>2. acked' \subseteq Procs \X (2..MaxEvents)
    <3>1. CASE pc[p] = "acked"
      <4>1. EventHash(NewEvent(p)) \in Procs \X (2..MaxEvents)
        BY <1>1, <3>1, NewLineType DEF TypeInv, Writing
      <4>2. acked' = acked \cup {EventHash(NewEvent(p))}
        BY <1>9, <3>1 DEF Release
      <4>3. QED  BY <4>1, <4>2 DEF TypeInv, TypeOK
    <3>2. CASE pc[p] # "acked"
      BY <1>9, <3>2 DEF Release, TypeInv, TypeOK
    <3>3. QED  BY <3>1, <3>2
  <2>3. /\ loaded' \in [Procs -> Seq(Lines)] /\ loaded'[p] = <<>> /\ Len(loaded'[p]) = 0
        /\ \A q \in Procs \ {p} : loaded'[q] = loaded[q]
    BY <1>1, <2>1
  <2>4. TypeOK'
    BY <1>1, <2>1, <2>2, <2>3 DEF TypeInv, TypeOK, Labels
  <2>5. pc'[p] = "idle" /\ \A q \in Procs \ {p} : pc'[q] = pc[q]
    BY <1>1, <2>1
  <2>6. QED  BY <1>1, <2>1, <2>3, <2>4, <2>5 DEF TypeInv, Writing
<1>10. ASSUME LockAges PROVE TypeInv'
  <2>1. /\ lock' \in Locks
        /\ UNCHANGED <<file, snapshot, acked, pc, attempt, seen_old, loaded, crashes, write_errors>>
    BY <1>1, <1>10 DEF LockAges, Locks
  <2>2. QED  BY <2>1 DEF TypeInv, TypeOK, Locks
<1>11. CASE UNCHANGED vars
  BY <1>11 DEF vars, TypeInv, TypeOK
<1>12. QED
  BY <1>2, <1>3, <1>4, <1>5, <1>6, <1>7, <1>8, <1>9, <1>10, <1>11 DEF Next, Step

(* The shapes of the directory and of the calls, and that a lock is tried  *)
(* twice at most (store.ts:177-243), for any number of processes, deaths   *)
(* and failed writes: these hold through the race of a takeover, too.      *)
THEOREM StoreTypes == Spec => []TypeOK
<1>1. TypeInv => TypeOK
  BY DEF TypeInv
<1>2. QED
  BY <1>1, TypeInit, TypeStep, PTL DEF Spec
=============================================================================
