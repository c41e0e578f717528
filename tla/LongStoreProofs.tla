--------------------------- MODULE LongStoreProofs ---------------------------
(***************************************************************************)
(* Proofs about LongStore, for any keys and batches and any number of      *)
(* failed writes, as long as OneRecovers holds: for any number of          *)
(* processes until one dies, and through every death where at most two of  *)
(* them ingest.  The lock excludes, the three files have the shapes that   *)
(* the protocol of the pending record gives them, recovery leaves a store  *)
(* that loads, and the store implements BatchLog.                          *)
(***************************************************************************)
EXTENDS LongStore, SequenceTheorems, FiniteSetTheorems, FunctionTheorems, TLAPS

-----------------------------------------------------------------------------
(* Sequences of events and of lines.                                       *)

LEMMA ConcatFacts ==
  ASSUME NEW S, NEW s \in Seq(S), NEW t \in Seq(S)
  PROVE  /\ s \o t \in Seq(S) /\ Len(s \o t) = Len(s) + Len(t)
         /\ Len(s) \in Nat /\ Len(t) \in Nat
         /\ \A i \in 1..Len(s) : (s \o t)[i] = s[i]
         /\ \A i \in 1..Len(t) : (s \o t)[Len(s) + i] = t[i]
OBVIOUS

LEMMA LinesFacts ==
  ASSUME NEW events \in Seq(LongEvents)
  PROVE  /\ Lines(events) \in Seq(FileLines)
         /\ Len(Lines(events)) = Len(events)
         /\ \A i \in 1..Len(events) : Lines(events)[i] = Whole(events[i])
<1>1. Lines(events) = [i \in 1..Len(events) |-> Whole(events[i])]
  BY DEF Lines
<1>2. \A i \in 1..Len(events) : Whole(events[i]) \in FileLines
  BY DEF Whole, FileLines
<1>3. Len(events) \in Nat
  OBVIOUS
<1> QED
  BY <1>1, <1>2, <1>3

LEMMA EventsFacts ==
  ASSUME NEW lines \in Seq(FileLines)
  PROVE  /\ Events(lines) \in Seq(LongEvents)
         /\ Len(Events(lines)) = Len(lines)
         /\ \A i \in 1..Len(lines) : Events(lines)[i] = lines[i].event
<1>1. Events(lines) = [i \in 1..Len(lines) |-> lines[i].event]
  BY DEF Events
<1>2. \A i \in 1..Len(lines) : lines[i].event \in LongEvents
  <2>1. \A i \in 1..Len(lines) : lines[i] \in FileLines
    OBVIOUS
  <2> QED  BY <2>1 DEF FileLines
<1>3. Len(lines) \in Nat
  OBVIOUS
<1> QED
  BY <1>1, <1>2, <1>3

LEMMA EventsOfLines ==
  ASSUME NEW events \in Seq(LongEvents)
  PROVE  Events(Lines(events)) = events
<1>1. /\ Lines(events) \in Seq(FileLines)
      /\ Len(Lines(events)) = Len(events)
      /\ \A i \in 1..Len(events) : Lines(events)[i] = Whole(events[i])
  BY LinesFacts
<1>a. \A i \in 1..Len(events) : Lines(events)[i].event = events[i]
  <2>1. \A e : Whole(e).event = e
    BY DEF Whole
  <2> QED  BY <1>1, <2>1
<1>2. /\ Events(Lines(events)) \in Seq(LongEvents)
      /\ Len(Events(Lines(events))) = Len(events)
      /\ \A i \in 1..Len(events) : Events(Lines(events))[i] = events[i]
  BY <1>1, <1>a, EventsFacts
<1> QED
  BY <1>2, SeqEqual

LEMMA EventsOfConcat ==
  ASSUME NEW s \in Seq(FileLines), NEW t \in Seq(FileLines)
  PROVE  Events(s \o t) = Events(s) \o Events(t)
<1> DEFINE es == Events(s)
           et == Events(t)
<1>1. s \o t \in Seq(FileLines) /\ Len(s \o t) = Len(s) + Len(t)
  OBVIOUS
<1>2. /\ Events(s \o t) \in Seq(LongEvents) /\ Len(Events(s \o t)) = Len(s) + Len(t)
      /\ \A i \in 1..Len(s) + Len(t) : Events(s \o t)[i] = (s \o t)[i].event
  BY <1>1, EventsFacts
<1>3. /\ es \in Seq(LongEvents) /\ Len(es) = Len(s)
      /\ et \in Seq(LongEvents) /\ Len(et) = Len(t)
  BY EventsFacts
<1>4. /\ \A i \in 1..Len(s) : es[i] = s[i].event
      /\ \A i \in 1..Len(t) : et[i] = t[i].event
  BY EventsFacts
<1> HIDE DEF es, et
<1>5. es \o et \in Seq(LongEvents) /\ Len(es \o et) = Len(s) + Len(t)
  BY <1>3
<1>6. \A i \in 1..Len(s) + Len(t) : (es \o et)[i] = (s \o t)[i].event
  <2> TAKE i \in 1..Len(s) + Len(t)
  <2>1. CASE i <= Len(s)
    <3>1. (es \o et)[i] = es[i] /\ (s \o t)[i] = s[i] /\ i \in 1..Len(s)
      BY <2>1, <1>3
    <3> QED  BY <3>1, <1>4
  <2>2. CASE i > Len(s)
    <3>1. /\ (es \o et)[i] = et[i - Len(s)]
          /\ (s \o t)[i] = t[i - Len(s)] /\ i - Len(s) \in 1..Len(t)
      BY <2>2, <1>3
    <3> QED  BY <3>1, <1>4
  <2>3. i <= Len(s) \/ i > Len(s)
    OBVIOUS
  <2> QED  BY <2>1, <2>2, <2>3
<1>7. Events(s \o t) = es \o et
  BY <1>2, <1>5, <1>6, SeqEqual
<1> QED
  BY <1>7 DEF es, et

(* What is cut from, and what is left of, a file that continues base.      *)
LEMMA CutOfConcat ==
  ASSUME NEW S, NEW base \in Seq(S), NEW tail \in Seq(S)
  PROVE  /\ SubSeq(base \o tail, 1, Len(base)) = base
         /\ SubSeq(base \o tail, Len(base) + 1, Len(base \o tail)) = tail
         /\ Len(base \o tail) > Len(base) <=> tail # <<>>
<1>1. /\ base \o tail \in Seq(S) /\ Len(base \o tail) = Len(base) + Len(tail)
      /\ Len(base) \in Nat /\ Len(tail) \in Nat
  OBVIOUS
<1>2. SubSeq(base \o tail, 1, Len(base)) = base
  <2>1. /\ SubSeq(base \o tail, 1, Len(base)) \in Seq(S)
        /\ Len(SubSeq(base \o tail, 1, Len(base))) = Len(base)
        /\ \A i \in 1..Len(base) : SubSeq(base \o tail, 1, Len(base))[i] = base[i]
    BY <1>1
  <2> QED  BY <2>1, SeqEqual
<1>3. SubSeq(base \o tail, Len(base) + 1, Len(base \o tail)) = tail
  <2> DEFINE cut == SubSeq(base \o tail, Len(base) + 1, Len(base) + Len(tail))
  <2>1. /\ cut \in Seq(S) /\ Len(cut) = Len(tail)
        /\ \A i \in 1..Len(tail) : cut[i] = tail[i]
    BY <1>1
  <2> QED  BY <1>1, <2>1, SeqEqual
<1>4. Len(tail) > 0 <=> tail # <<>>
  BY <1>1
<1> QED
  BY <1>1, <1>2, <1>3, <1>4

LEMMA PartialsFacts ==
  ASSUME NEW events \in Seq(LongEvents)
  PROVE  /\ Partials(events) \subseteq Seq(FileLines)
         /\ <<>> \in Partials(events)
         /\ Lines(events) \in Partials(events)
         /\ \A part \in Partials(events) : Len(part) <= Len(events)
<1>1. ASSUME NEW n \in 0..Len(events)
      PROVE  SubSeq(events, 1, n) \in Seq(LongEvents) /\ Len(SubSeq(events, 1, n)) = n
  BY <1>1
<1>2. ASSUME NEW n \in 0..Len(events)
      PROVE  /\ Lines(SubSeq(events, 1, n)) \in Seq(FileLines)
             /\ Len(Lines(SubSeq(events, 1, n))) = n
  BY <1>1, LinesFacts
<1>3. ASSUME NEW n \in DOMAIN events
      PROVE  /\ Append(Lines(SubSeq(events, 1, n - 1)), Torn(events[n])) \in Seq(FileLines)
             /\ Len(Append(Lines(SubSeq(events, 1, n - 1)), Torn(events[n]))) <= Len(events)
  <2>1. n - 1 \in 0..Len(events) /\ n <= Len(events)
    OBVIOUS
  <2>2. Torn(events[n]) \in FileLines
    BY DEF Torn, FileLines
  <2>3. /\ Lines(SubSeq(events, 1, n - 1)) \in Seq(FileLines)
        /\ Len(Lines(SubSeq(events, 1, n - 1))) = n - 1
    BY <1>2, <2>1
  <2> DEFINE part == Lines(SubSeq(events, 1, n - 1))
             line == Torn(events[n])
  <2> HIDE DEF part, line
  <2>4. Append(part, line) \in Seq(FileLines) /\ Len(Append(part, line)) = n
    BY <2>1, <2>2, <2>3, AppendProperties DEF part, line
  <2> QED  BY <2>1, <2>4 DEF part, line
<1>4. <<>> \in Partials(events)
  <2>1. 0 \in 0..Len(events)
    OBVIOUS
  <2>2. Lines(SubSeq(events, 1, 0)) = <<>>
    BY <1>2, <2>1, EmptySeq
  <2> QED  BY <2>1, <2>2 DEF Partials
<1>5. Lines(events) \in Partials(events)
  <2>1. Len(events) \in 0..Len(events) /\ SubSeq(events, 1, Len(events)) = events
    BY SubSeqFull
  <2> QED  BY <2>1 DEF Partials
<1>6. \A part \in Partials(events) : part \in Seq(FileLines) /\ Len(part) <= Len(events)
  <2> SUFFICES ASSUME NEW part \in Partials(events)
               PROVE  part \in Seq(FileLines) /\ Len(part) <= Len(events)
    OBVIOUS
  <2>1. CASE \E n \in 0..Len(events) : part = Lines(SubSeq(events, 1, n))
    <3> PICK n \in 0..Len(events) : part = Lines(SubSeq(events, 1, n))
      BY <2>1
    <3> QED  BY <1>2
  <2>2. CASE \E n \in DOMAIN events :
               part = Append(Lines(SubSeq(events, 1, n - 1)), Torn(events[n]))
    BY <2>2, <1>3
  <2> QED  BY <2>1, <2>2 DEF Partials
<1> QED
  BY <1>4, <1>5, <1>6

-----------------------------------------------------------------------------
(* Journals that verify.                                                   *)

(* What verifyJournal asks of the line at place i.                         *)
Follows(lines, i) ==
  /\ lines[i] = Whole(lines[i].event)
  /\ lines[i].event.sequence = i
  /\ lines[i].event.previous = IF i = 1 THEN ZeroHash ELSE EventHash(lines[i - 1].event)
  /\ \A j \in 1..(i - 1) : /\ lines[j].event.key # lines[i].event.key
                           /\ lines[j].event.received <= lines[i].event.received

LEMMA HeadOfLines ==
  ASSUME NEW lines \in Seq(FileLines)
  PROVE  HeadOf(Events(lines)) =
           [sequence |-> Len(lines),
            last |-> IF Len(lines) = 0 THEN ZeroHash ELSE EventHash(lines[Len(lines)].event)]
<1>1. /\ Events(lines) \in Seq(LongEvents) /\ Len(Events(lines)) = Len(lines)
      /\ \A i \in 1..Len(lines) : Events(lines)[i] = lines[i].event
  BY EventsFacts
<1> DEFINE events == Events(lines)
<1> HIDE DEF events
<1>2. events = <<>> <=> Len(lines) = 0
  BY <1>1 DEF events
<1>3. Len(lines) # 0 => Last(events) = lines[Len(lines)].event
  BY <1>1 DEF Last, events
<1> QED
  BY <1>1, <1>2, <1>3 DEF HeadOf, events

LEMMA VerifiesFollows ==
  ASSUME NEW lines \in Seq(FileLines)
  PROVE  Verifies(lines) <=> \A i \in 1..Len(lines) : Follows(lines, i)
<1>1. ASSUME NEW i \in 1..Len(lines)
      PROVE  HeadOf(Events(SubSeq(lines, 1, i - 1))).last =
               IF i = 1 THEN ZeroHash ELSE EventHash(lines[i - 1].event)
  <2> DEFINE before == SubSeq(lines, 1, i - 1)
  <2>1. /\ before \in Seq(FileLines) /\ Len(before) = i - 1
        /\ i # 1 => before[i - 1] = lines[i - 1]
    OBVIOUS
  <2> HIDE DEF before
  <2>2. HeadOf(Events(before)).last =
          IF Len(before) = 0 THEN ZeroHash ELSE EventHash(before[Len(before)].event)
    BY <2>1, HeadOfLines
  <2> QED
    BY <2>1, <2>2 DEF before
<1>2. DOMAIN lines = 1..Len(lines)
  OBVIOUS
<1>3. \A i \in 1..Len(lines) : lines[i].whole <=> lines[i] = Whole(lines[i].event)
  <2>1. \A i \in 1..Len(lines) : lines[i] \in FileLines
    OBVIOUS
  <2>2. \A line \in FileLines : line.whole <=> line = Whole(line.event)
    BY DEF FileLines, Whole
  <2> QED  BY <2>1, <2>2
<1> QED
  BY <1>1, <1>2, <1>3 DEF Verifies, Follows

(* A prefix of a journal that verifies verifies.                           *)
LEMMA PrefixVerifies ==
  ASSUME NEW s \in Seq(FileLines), NEW t \in Seq(FileLines), Verifies(s \o t)
  PROVE  Verifies(s)
<1>1. /\ s \o t \in Seq(FileLines) /\ Len(s \o t) = Len(s) + Len(t)
      /\ \A i \in 1..Len(s) : (s \o t)[i] = s[i]
      /\ Len(s) \in Nat /\ Len(t) \in Nat
  OBVIOUS
<1>2. \A i \in 1..Len(s) + Len(t) : Follows(s \o t, i)
  BY <1>1, VerifiesFollows
<1>3. ASSUME NEW i \in 1..Len(s) PROVE Follows(s, i)
  <2>1. Follows(s \o t, i)
    BY <1>1, <1>2
  <2>2. /\ (s \o t)[i] = s[i]
        /\ i # 1 => (s \o t)[i - 1] = s[i - 1]
        /\ \A j \in 1..(i - 1) : (s \o t)[j] = s[j]
    BY <1>1
  <2> QED
    BY <2>1, <2>2 DEF Follows
<1> QED
  BY <1>3, VerifiesFollows

(* A checkpoint of a prefix, or of all, of the events matches them.        *)
LEMMA HeadMatches ==
  ASSUME NEW s \in Seq(FileLines), NEW t \in Seq(FileLines),
         snapshot = HeadOf(Events(s))
  PROVE  CheckpointMatches(Events(s \o t)) /\ CheckpointMatches(Events(s))
<1>1. ASSUME NEW u \in Seq(FileLines), Len(s) <= Len(u), \A i \in 1..Len(s) : u[i] = s[i]
      PROVE  CheckpointMatches(Events(u))
  <2>1. /\ snapshot.sequence = Len(s)
        /\ Len(s) # 0 => snapshot.last = EventHash(s[Len(s)].event)
    BY HeadOfLines
  <2>2. /\ Len(Events(u)) = Len(u)
        /\ \A i \in 1..Len(u) : Events(u)[i] = u[i].event
    BY EventsFacts
  <2>3. Len(s) \in Nat /\ Len(u) \in Nat
    OBVIOUS
  <2>4. Len(s) # 0 => Events(u)[Len(s)] = s[Len(s)].event
    BY <1>1, <2>2, <2>3
  <2> QED
    BY <1>1, <2>1, <2>2, <2>3, <2>4 DEF CheckpointMatches
<1>2. /\ s \o t \in Seq(FileLines) /\ Len(s) <= Len(s \o t) /\ Len(s) <= Len(s)
      /\ \A i \in 1..Len(s) : (s \o t)[i] = s[i]
  OBVIOUS
<1> QED
  BY <1>1, <1>2

LEMMA HeadType ==
  ASSUME NEW events \in Seq(LongEvents)
  PROVE  HeadOf(events) \in Heads
<1>1. \A e \in LongEvents : EventHash(e) \in Hashes
  BY DEF LongEvents, EventHash, Hashes
<1>2. events # <<>> => Last(events) \in LongEvents
  BY DEF Last
<1> QED
  BY <1>1, <1>2 DEF HeadOf, Heads, Hashes

-----------------------------------------------------------------------------
(* The drafts that are new, and the events made of them.                   *)

Drafts == [key: Keys, payload: Payloads]

Rank(places, i) == Cardinality({j \in places : j <= i})

(* The places of a finite set are counted off in their order.              *)
LEMMA Ranks ==
  ASSUME NEW n \in Nat, NEW places \in SUBSET (1..n)
  PROVE  /\ Cardinality(places) \in Nat
         /\ \A i \in places : Rank(places, i) \in 1..Cardinality(places)
         /\ \A i, j \in places : Rank(places, i) = Rank(places, j) => i = j
         /\ \A k \in 1..Cardinality(places) : \E i \in places : Rank(places, i) = k
<1>1. IsFiniteSet(places) /\ Cardinality(places) \in Nat
  <2>1. IsFiniteSet(1..n)
    BY FS_Interval
  <2> QED  BY <2>1, FS_Subset, FS_CardinalityType
<1>2. ASSUME NEW i \in places
      PROVE  /\ IsFiniteSet({j \in places : j <= i})
             /\ Rank(places, i) \in 1..Cardinality(places)
  <2> DEFINE upto == {j \in places : j <= i}
  <2>1. upto \subseteq places /\ i \in upto
    OBVIOUS
  <2> HIDE DEF upto
  <2>2. /\ IsFiniteSet(upto) /\ Cardinality(upto) \in Nat
        /\ Cardinality(upto) <= Cardinality(places)
    BY <1>1, <2>1, FS_Subset, FS_CardinalityType
  <2>3. Cardinality(upto) # 0
    BY <2>1, <2>2, FS_EmptySet
  <2> QED  BY <1>1, <2>2, <2>3 DEF Rank, upto
<1>3. ASSUME NEW i \in places, NEW j \in places, i < j
      PROVE  Rank(places, i) < Rank(places, j)
  <2> DEFINE low  == {k \in places : k <= i}
             high == {k \in places : k <= j}
  <2>1. low \subseteq high /\ j \in high /\ j \notin low
    <3>1. i \in Int /\ j \in Int /\ \A k \in places : k \in Int
      OBVIOUS
    <3>2. i < j
      BY <1>3
    <3>3. \A k \in places : k <= i => k <= j
      BY <3>1, <3>2
    <3>4. j <= j /\ ~(j <= i)
      BY <3>1, <3>2
    <3> QED  BY <3>3, <3>4
  <2>2. IsFiniteSet(high) /\ IsFiniteSet(low)
    BY <1>2
  <2> HIDE DEF low, high
  <2>3. Cardinality(low) <= Cardinality(high) /\ Cardinality(low) # Cardinality(high)
    BY <2>1, <2>2, FS_Subset
  <2>4. Cardinality(low) \in Nat /\ Cardinality(high) \in Nat
    BY <2>2, FS_CardinalityType
  <2> QED  BY <2>3, <2>4 DEF Rank, low, high
<1>4. \A i, j \in places : Rank(places, i) = Rank(places, j) => i = j
  <2> SUFFICES ASSUME NEW i \in places, NEW j \in places, i # j
               PROVE  Rank(places, i) # Rank(places, j)
    OBVIOUS
  <2>1. i < j \/ j < i
    OBVIOUS
  <2>2. \A k \in 1..Cardinality(places) : k \in Int
    OBVIOUS
  <2>3. Rank(places, i) \in Int /\ Rank(places, j) \in Int
    BY <1>2, <2>2
  <2> QED  BY <1>3, <2>1, <2>3
<1>5. \A k \in 1..Cardinality(places) : \E i \in places : Rank(places, i) = k
  <2> DEFINE T == 1..Cardinality(places)
             f == [i \in places |-> Rank(places, i)]
  <2>1. IsFiniteSet(T) /\ Cardinality(T) = Cardinality(places)
    <3>1. Cardinality(places) >= 1 => Cardinality(places) - 1 + 1 = Cardinality(places)
      BY <1>1
    <3> QED  BY <1>1, <3>1, FS_Interval
  <2>2. f \in Injection(places, T)
    BY <1>2, <1>4 DEF Injection, IsInjective
  <2> HIDE DEF T, f
  <2>3. f \in Surjection(places, T)
    BY <2>1, <2>2, FS_Injection
  <2> QED  BY <2>3 DEF Surjection, f, T
<1> QED
  BY <1>1, <1>2, <1>4, <1>5

LEMMA FreshFacts ==
  ASSUME NEW p \in Procs, batch[p] \in Seq(Drafts)
  PROVE  /\ Fresh(p) \in Seq(Drafts) /\ Len(Fresh(p)) = Cardinality(FreshPlaces(p))
         /\ \A k \in 1..Len(Fresh(p)) :
              \E i \in FreshPlaces(p) : Fresh(p)[k] = batch[p][i] /\ Rank(FreshPlaces(p), i) = k
         /\ \A i \in FreshPlaces(p) : \E k \in 1..Len(Fresh(p)) : Fresh(p)[k] = batch[p][i]
<1> DEFINE places == FreshPlaces(p)
           n == Cardinality(places)
<1>1. places \in SUBSET (1..Len(batch[p])) /\ Len(batch[p]) \in Nat
  BY DEF FreshPlaces
<1>2. \A i \in places : batch[p][i] \in Drafts
  BY <1>1
<1> HIDE DEF places
<1>3. /\ n \in Nat
      /\ \A i \in places : Rank(places, i) \in 1..n
      /\ \A i, j \in places : Rank(places, i) = Rank(places, j) => i = j
      /\ \A k \in 1..n : \E i \in places : Rank(places, i) = k
  BY <1>1, Ranks
<1> DEFINE Place(k) == CHOOSE i \in places : Rank(places, i) = k
<1>4. \A k \in 1..n : Place(k) \in places /\ Rank(places, Place(k)) = k
  BY <1>3
<1>5. Fresh(p) = [k \in 1..n |-> batch[p][Place(k)]]
  BY DEF Fresh, FreshPlace, Rank, places
<1> HIDE DEF Place, n
<1>6. Fresh(p) \in Seq(Drafts) /\ Len(Fresh(p)) = n
  BY <1>2, <1>3, <1>4, <1>5
<1>7. \A i \in places : Place(Rank(places, i)) = i
  BY <1>3, <1>4
<1> QED
  BY <1>3, <1>4, <1>5, <1>6, <1>7 DEF places, n

(* The events of drafts continue the journal they were made for.           *)
LEMMA EnvelopesFacts ==
  ASSUME journal \in Seq(FileLines), NEW drafts \in Seq(Drafts), NEW t \in 1..MaxTime
  PROVE  LET events == Envelopes(drafts, t)
         IN  /\ events \in Seq(LongEvents) /\ Len(events) = Len(drafts)
             /\ \A i \in 1..Len(drafts) :
                  /\ events[i].sequence = Len(journal) + i
                  /\ events[i].key = drafts[i].key
                  /\ events[i].payload = drafts[i].payload
                  /\ events[i].received = t
                  /\ events[i].previous =
                       IF i = 1 THEN HeadOf(Events(journal)).last ELSE EventHash(events[i - 1])
<1> DEFINE n == Len(journal)
           Sealed(i) == [sequence |-> n + i, key |-> drafts[i].key,
                         payload |-> drafts[i].payload, received |-> t]
           Previous(i) == IF i = 1 THEN HeadOf(Events(journal)).last
                          ELSE EventHash(Sealed(i - 1))
           Sent(i) == [sequence |-> n + i, key |-> drafts[i].key, payload |-> drafts[i].payload,
                       received |-> t, previous |-> Previous(i)]
           events == Envelopes(drafts, t)
<1>1. n \in Nat /\ Len(drafts) \in Nat /\ DOMAIN drafts = 1..Len(drafts)
  OBVIOUS
<1>2. \A i \in 1..Len(drafts) : drafts[i].key \in Keys /\ drafts[i].payload \in Payloads
  <2>1. \A i \in 1..Len(drafts) : drafts[i] \in Drafts
    OBVIOUS
  <2> QED  BY <2>1 DEF Drafts
<1>3. HeadOf(Events(journal)).last \in Hashes
  BY EventsFacts, HeadType DEF Heads
<1>4. events = [i \in DOMAIN drafts |-> Sent(i)]
  BY DEF Envelopes
<1>5. \A i \in 1..Len(drafts) : EventHash(Sealed(i)) \in Hashes
  <2>1. \A i \in 1..Len(drafts) : n + i \in Nat
    BY <1>1
  <2>2. \A i \in 1..Len(drafts) :
          EventHash(Sealed(i)) = <<n + i, drafts[i].key, drafts[i].payload, t>>
    BY DEF EventHash
  <2> QED  BY <1>2, <2>1, <2>2 DEF Hashes
<1> HIDE DEF n, Sealed
<1>6. \A i \in 1..Len(drafts) : Previous(i) \in Hashes
  <2> TAKE i \in 1..Len(drafts)
  <2>1. i # 1 => i - 1 \in 1..Len(drafts)
    BY <1>1
  <2> QED  BY <1>3, <1>5, <2>1
<1> HIDE DEF Previous
<1>7. \A i \in 1..Len(drafts) :
        /\ Sent(i) \in LongEvents
        /\ Sent(i).sequence = n + i /\ Sent(i).key = drafts[i].key
        /\ Sent(i).payload = drafts[i].payload /\ Sent(i).received = t
        /\ Sent(i).previous = Previous(i)
  <2>1. \A i \in 1..Len(drafts) : n + i \in Nat
    BY <1>1
  <2> QED  BY <1>2, <1>6, <2>1 DEF LongEvents
<1>8. \A i \in 1..Len(drafts) : EventHash(Sent(i)) = EventHash(Sealed(i))
  BY <1>7 DEF EventHash, Sealed
<1> HIDE DEF Sent, events
<1>9. /\ events \in Seq(LongEvents) /\ Len(events) = Len(drafts)
      /\ \A i \in 1..Len(drafts) : events[i] = Sent(i)
  BY <1>1, <1>4, <1>7
<1>10. \A i \in 1..Len(drafts) :
         Previous(i) = IF i = 1 THEN HeadOf(Events(journal)).last ELSE EventHash(events[i - 1])
  <2> TAKE i \in 1..Len(drafts)
  <2>1. i # 1 => i - 1 \in 1..Len(drafts)
    BY <1>1
  <2>2. i # 1 => EventHash(events[i - 1]) = EventHash(Sealed(i - 1))
    BY <1>8, <1>9, <2>1
  <2> QED  BY <2>2 DEF Previous
<1>11. \A i \in 1..Len(drafts) :
        /\ events[i].sequence = n + i /\ events[i].key = drafts[i].key
        /\ events[i].payload = drafts[i].payload /\ events[i].received = t
        /\ events[i].previous =
             IF i = 1 THEN HeadOf(Events(journal)).last ELSE EventHash(events[i - 1])
  BY <1>7, <1>9, <1>10
<1> QED
  BY <1>9, <1>11 DEF events, n

(* The same, of what a batch tells its caller.                             *)
LEMMA EnvelopesTell ==
  ASSUME journal \in Seq(FileLines), NEW drafts \in Seq(Drafts), NEW t \in 1..MaxTime
  PROVE  /\ Envelopes(drafts, t) \in Seq(LongEvents) /\ Len(Envelopes(drafts, t)) = Len(drafts)
         /\ \A i \in 1..Len(drafts) : /\ Envelopes(drafts, t)[i].key = drafts[i].key
                                      /\ Envelopes(drafts, t)[i].payload = drafts[i].payload
                                      /\ Envelopes(drafts, t)[i].received = t
BY EnvelopesFacts

(* What lines must be to continue a journal that verifies.                 *)
Continues(s, t, i) ==
  /\ t[i] = Whole(t[i].event)
  /\ t[i].event.sequence = Len(s) + i
  /\ t[i].event.previous =
       IF i = 1 THEN HeadOf(Events(s)).last ELSE EventHash(t[i - 1].event)
  /\ \A j \in 1..Len(s) : /\ s[j].event.key # t[i].event.key
                          /\ s[j].event.received <= t[i].event.received
  /\ \A j \in 1..(i - 1) : /\ t[j].event.key # t[i].event.key
                           /\ t[j].event.received <= t[i].event.received

LEMMA ContinuedVerifies ==
  ASSUME NEW s \in Seq(FileLines), NEW t \in Seq(FileLines), Verifies(s),
         \A i \in 1..Len(t) : Continues(s, t, i)
  PROVE  Verifies(s \o t)
<1> DEFINE all == s \o t
           n == Len(s)
<1>1. /\ all \in Seq(FileLines) /\ Len(all) = n + Len(t)
      /\ n \in Nat /\ Len(t) \in Nat
      /\ \A i \in 1..n : all[i] = s[i]
      /\ \A i \in 1..Len(t) : all[n + i] = t[i]
  BY ConcatFacts
<1>2. HeadOf(Events(s)).last = IF n = 0 THEN ZeroHash ELSE EventHash(s[n].event)
  BY HeadOfLines
<1>3. \A i \in 1..n : Follows(s, i)
  BY VerifiesFollows
<1> HIDE DEF all
<1>4. ASSUME NEW i \in 1..n PROVE Follows(all, i)
  <2>1. Follows(s, i)
    BY <1>3
  <2>2. /\ all[i] = s[i]
        /\ i # 1 => all[i - 1] = s[i - 1]
        /\ \A j \in 1..(i - 1) : all[j] = s[j]
    BY <1>1
  <2> QED  BY <2>1, <2>2 DEF Follows
<1>5. ASSUME NEW m \in 1..Len(all), m > n PROVE Follows(all, m)
  <2> DEFINE i == m - n
  <2>1. i \in 1..Len(t) /\ n + i = m
    BY <1>1, <1>5
  <2> HIDE DEF i
  <2>2. Continues(s, t, i) /\ all[m] = t[i]
    BY <1>1, <2>1
  <2>3. all[m].event.previous = IF m = 1 THEN ZeroHash ELSE EventHash(all[m - 1].event)
    <3>1. CASE i = 1
      <4>1. /\ all[m].event.previous = IF n = 0 THEN ZeroHash ELSE EventHash(s[n].event)
        BY <1>2, <2>2, <3>1 DEF Continues
      <4>2. m - 1 = n /\ (n # 0 => all[n] = s[n]) /\ (m = 1 <=> n = 0)
        BY <1>1, <2>1, <3>1
      <4> QED  BY <4>1, <4>2
    <3>2. CASE i # 1
      <4>1. i - 1 \in 1..Len(t) /\ n + (i - 1) = m - 1 /\ m # 1
        BY <1>1, <2>1, <3>2
      <4>2. all[m - 1] = t[i - 1]
        BY <1>1, <4>1
      <4> QED  BY <2>2, <3>2, <4>1, <4>2 DEF Continues
    <3> QED  BY <3>1, <3>2
  <2>4. ASSUME NEW j \in 1..(m - 1)
        PROVE  /\ all[j].event.key # all[m].event.key
               /\ all[j].event.received <= all[m].event.received
    <3>1. CASE j <= n
      <4>1. j \in 1..n /\ all[j] = s[j]
        BY <1>1, <3>1
      <4> QED  BY <2>2, <4>1 DEF Continues
    <3>2. CASE j > n
      <4>1. j - n \in 1..(i - 1) /\ j - n \in 1..Len(t) /\ n + (j - n) = j
        BY <1>1, <2>1, <3>2
      <4>2. all[j] = t[j - n]
        BY <1>1, <4>1
      <4> QED  BY <2>2, <4>1, <4>2 DEF Continues
    <3>3. j <= n \/ j > n
      BY <1>1
    <3> QED  BY <3>1, <3>2, <3>3
  <2>5. all[m] = Whole(all[m].event) /\ all[m].event.sequence = m
    BY <2>1, <2>2 DEF Continues
  <2> QED
    BY <2>3, <2>4, <2>5 DEF Follows
<1>6. \A i \in 1..Len(all) : Follows(all, i)
  <2> TAKE i \in 1..Len(all)
  <2>1. i <= n => i \in 1..n
    BY <1>1
  <2>2. i <= n \/ i > n
    BY <1>1
  <2> QED  BY <1>4, <1>5, <2>1, <2>2
<1>7. Verifies(all)
  BY <1>1, <1>6, VerifiesFollows
<1> QED
  BY <1>7 DEF all

(* Drafts with new and distinct keys, received no earlier than the last    *)
(* event, become lines that continue a journal that verifies.              *)
LEMMA EnvelopesVerify ==
  ASSUME journal \in Seq(FileLines), Verifies(journal),
         NEW drafts \in Seq(Drafts), NEW t \in 1..MaxTime,
         \A i, j \in 1..Len(drafts) : drafts[i].key = drafts[j].key => i = j,
         \A i \in 1..Len(drafts), j \in 1..Len(journal) : journal[j].event.key # drafts[i].key,
         \A i \in 1..Len(drafts), j \in 1..Len(journal) : journal[j].event.received <= t
  PROVE  Verifies(journal \o Lines(Envelopes(drafts, t)))
<1> DEFINE events == Envelopes(drafts, t)
           lines == Lines(events)
<1>1. /\ events \in Seq(LongEvents) /\ Len(events) = Len(drafts)
      /\ \A i \in 1..Len(drafts) :
           /\ events[i].sequence = Len(journal) + i
           /\ events[i].key = drafts[i].key
           /\ events[i].received = t
           /\ events[i].previous =
                IF i = 1 THEN HeadOf(Events(journal)).last ELSE EventHash(events[i - 1])
  BY EnvelopesFacts
<1> HIDE DEF events
<1>2. /\ lines \in Seq(FileLines) /\ Len(lines) = Len(drafts)
      /\ \A i \in 1..Len(drafts) : lines[i] = Whole(events[i]) /\ lines[i].event = events[i]
  <2>1. \A e : Whole(e).event = e
    BY DEF Whole
  <2>2. /\ lines \in Seq(FileLines) /\ Len(lines) = Len(events)
        /\ \A i \in 1..Len(events) : lines[i] = Whole(events[i])
    BY <1>1, LinesFacts
  <2> QED  BY <1>1, <2>1, <2>2
<1> HIDE DEF lines
<1>3. ASSUME NEW i \in 1..Len(drafts) PROVE Continues(journal, lines, i)
  <2>1. \A j \in 1..(i - 1) : /\ j \in 1..Len(drafts) /\ j # i
                              /\ lines[j].event.key = drafts[j].key
                              /\ lines[j].event.received = t
    <3>1. \A j \in 1..(i - 1) : j \in 1..Len(drafts) /\ j # i
      OBVIOUS
    <3>2. \A j \in 1..Len(drafts) : /\ lines[j].event.key = drafts[j].key
                                    /\ lines[j].event.received = t
      BY <1>1, <1>2
    <3> QED  BY <3>1, <3>2
  <2>2. /\ lines[i].event.key = drafts[i].key /\ lines[i].event.received = t
        /\ lines[i].event.sequence = Len(journal) + i
        /\ lines[i] = Whole(lines[i].event)
    BY <1>1, <1>2
  <2>3. lines[i].event.previous =
          IF i = 1 THEN HeadOf(Events(journal)).last ELSE EventHash(lines[i - 1].event)
    <3>1. i # 1 => i - 1 \in 1..Len(drafts)
      OBVIOUS
    <3>2. i # 1 => lines[i - 1].event = events[i - 1]
      BY <1>2, <3>1
    <3>3. lines[i].event = events[i]
      BY <1>2
    <3>4. events[i].previous =
            IF i = 1 THEN HeadOf(Events(journal)).last ELSE EventHash(events[i - 1])
      BY <1>1
    <3> QED  BY <3>2, <3>3, <3>4
  <2>4. t <= t
    OBVIOUS
  <2> QED
    BY <2>1, <2>2, <2>3, <2>4 DEF Continues
<1>4. Verifies(journal \o lines)
  BY <1>2, <1>3, ContinuedVerifies
<1> QED
  BY <1>4 DEF lines, events

-----------------------------------------------------------------------------
(* The invariant.                                                          *)

Writing == {"append", "appending", "index", "indexing", "checkpoint", "unlink"}
Acquiring == {"open", "stat", "read", "takeover"}

Shapes ==
  /\ journal \in Seq(FileLines) /\ dedupe \in Seq(FileLines)
  /\ pending \in Transactions \cup {NoPending}
  /\ snapshot \in Heads
  /\ lock \in Locks \cup {NoLock}
  /\ acked \subseteq LongEvents
  /\ now \in 1..MaxTime
  /\ pc \in [Procs -> Labels]
  /\ batch \in [Procs -> Batches \cup {<<>>}]
  /\ stamp \in [Procs -> 1..MaxTime]
  /\ loaded \in [Procs -> Seq(LongEvents)] /\ accepted \in [Procs -> Seq(LongEvents)]
  /\ attempt \in [Procs -> {0, 1}] /\ seen_old \in [Procs -> BOOLEAN]
  /\ scene \in Scenes
  /\ crashes \in 0..scene.crashes /\ write_errors \in 0..scene.write_errors
  /\ lock_errors \in 0..scene.lock_errors

(* The lock is its holder's, with the pid once that is written, or a dead  *)
(* process left it, or the one that goes for it; who judges it stale, or   *)
(* is about to because of its age, knows of a dead process.                *)
LockInv ==
  /\ \A p \in Procs : pc[p] # "idle" => p \in scene.users
  /\ \A p \in Procs : pc[p] \in Acquiring \cup Holding => p \notin Readers
  /\ \A p \in Procs : pc[p] = "dead" => crashes # 0
  /\ \A p \in Procs : pc[p] \in Holding =>
       lock # NoLock /\ lock.owner = p /\ (lock.written \/ pc[p] = "pid")
  /\ lock # NoLock => /\ lock.owner \in Lockers
                      /\ OneLocker \/ pc[lock.owner] \in Holding \cup {"dead"}
                      /\ lock.old => OneLocker \/ pc[lock.owner] = "dead"
  /\ \A p \in Procs : pc[p] = "takeover" \/ (pc[p] = "read" /\ seen_old[p]) =>
       OneLocker \/ \E q \in Lockers : pc[q] = "dead"

(* No transaction under way, or one that is finished but for its record.   *)
Clean == dedupe = journal /\ Verifies(journal) /\ snapshot = HeadOf(Events(journal))

(* A transaction under way: on a common base both files hold a part of     *)
(* what it appends, all of which would verify; the checkpoint moves only   *)
(* when both hold all of it.                                               *)
InFlight(base, tail, index) ==
  LET all == Lines(pending.append)
  IN  /\ journal = base \o tail /\ dedupe = base \o index
      /\ pending.old = HeadOf(Events(base))
      /\ pending.new = HeadOf(Events(base \o all))
      /\ Verifies(base \o all)
      /\ snapshot = pending.old \/ (snapshot = pending.new /\ tail = all /\ index = all)

(* How far a process has come with it.                                     *)
Progress(p, tail, index) ==
  LET all == Lines(pending.append)
  IN  /\ pc[p] = "recovered" => Clean
      /\ pc[p] \in Writing => pending.append = accepted[p]
      /\ pc[p] = "append" => tail = <<>>
      /\ pc[p] \in {"append", "appending", "index"} => index = <<>>
      /\ pc[p] \in {"index", "indexing", "checkpoint", "unlink"} => tail = all
      /\ pc[p] \in {"checkpoint", "unlink"} => index = all
      /\ pc[p] \in Writing \ {"unlink"} => snapshot = pending.old
      /\ pc[p] = "unlink" => snapshot = pending.new

FileInv ==
  /\ pending = NoPending => Clean /\ \A p \in Procs : pc[p] \notin Writing \cup {"recovered"}
  /\ pending # NoPending =>
       \E base \in Seq(FileLines) : \E tail, index \in Partials(pending.append) :
         InFlight(base, tail, index) /\ \A p \in Procs : Progress(p, tail, index)
  /\ \A p \in Procs : pc[p] \in {"load", "pending"} => Clean
  /\ \A p \in Procs : pc[p] = "pending" => Verifies(journal \o Lines(accepted[p]))

StoreInv == Shapes /\ LockInv /\ FileInv

(* What the code reads off a transaction under way.                        *)
LEMMA InFlightFacts ==
  ASSUME NEW append \in Seq(LongEvents), pending.append = append,
         NEW base \in Seq(FileLines), NEW tail \in Partials(append), NEW index \in Partials(append),
         InFlight(base, tail, index)
  PROVE  /\ Truncate(journal) = base /\ Truncate(dedupe) = base
         /\ Complete <=> tail = Lines(append) /\ index = Lines(append)
         /\ Len(journal) > pending.old.sequence <=> tail # <<>>
         /\ Len(dedupe) > pending.old.sequence <=> index # <<>>
         /\ Verifies(base)
         /\ tail \in Seq(FileLines) /\ index \in Seq(FileLines)
         /\ journal \in Seq(FileLines) /\ dedupe \in Seq(FileLines)
<1>1. tail \in Seq(FileLines) /\ index \in Seq(FileLines) /\ Lines(append) \in Seq(FileLines)
  BY PartialsFacts, LinesFacts
<1>2. journal = base \o tail /\ dedupe = base \o index /\ pending.old = HeadOf(Events(base))
      /\ Verifies(base \o Lines(append))
  BY DEF InFlight
<1>3. pending.old.sequence = Len(base)
  BY <1>2, HeadOfLines
<1>4. /\ SubSeq(journal, 1, Len(base)) = base
      /\ SubSeq(journal, Len(base) + 1, Len(journal)) = tail
      /\ Len(journal) > Len(base) <=> tail # <<>>
  BY <1>1, <1>2, CutOfConcat
<1>5. /\ SubSeq(dedupe, 1, Len(base)) = base
      /\ SubSeq(dedupe, Len(base) + 1, Len(dedupe)) = index
      /\ Len(dedupe) > Len(base) <=> index # <<>>
  BY <1>1, <1>2, CutOfConcat
<1>6. journal \in Seq(FileLines) /\ dedupe \in Seq(FileLines)
  BY <1>1, <1>2, ConcatFacts
<1>7. Verifies(base)
  BY <1>1, <1>2, PrefixVerifies
<1>8. Complete <=> tail = Lines(append) /\ index = Lines(append)
  BY <1>3, <1>4, <1>5 DEF Complete
<1> QED
  BY <1>1, <1>3, <1>4, <1>5, <1>6, <1>7, <1>8 DEF Truncate

LEMMA SceneType ==
  ASSUME scene \in Scenes
  PROVE  /\ scene.users \subseteq Procs
         /\ scene.crashes \in Nat /\ scene.write_errors \in Nat /\ scene.lock_errors \in Nat
BY BoundsAssumption

LEMMA InitInv == Init => StoreInv
<1> SUFFICES ASSUME Init PROVE StoreInv
  OBVIOUS
<1>1. <<>> \in Seq(FileLines) /\ <<>> \in Seq(LongEvents)
  OBVIOUS
<1>2. Events(<<>>) = <<>>
  BY <1>1, EventsFacts, EmptySeq
<1>3. Verifies(<<>>)
  BY DEF Verifies
<1>4. HeadOf(<<>>) \in Heads
  BY <1>1, HeadType
<1>5. 1 \in 1..MaxTime /\ scene \in Scenes
  BY BoundsAssumption DEF Init
<1>6. Shapes
  BY <1>1, <1>4, <1>5, SceneType DEF Init, Shapes, Labels
<1>7. LockInv
  BY DEF Init, LockInv, Holding, Acquiring
<1>8. FileInv
  BY <1>2, <1>3 DEF Init, FileInv, Clean, Writing
<1> QED
  BY <1>6, <1>7, <1>8 DEF StoreInv

-----------------------------------------------------------------------------
(* The calls and the lock.                                                 *)

(* What a step of acquireLock leaves alone, and where it leads.            *)
LEMMA AcquireFacts ==
  ASSUME NEW p \in Procs, Acquire(p)
  PROVE  /\ UNCHANGED <<files, acked, now, batch, stamp, loaded, accepted, scene, crashes, write_errors>>
         /\ pc[p] \in Acquiring \cup {"pid"}
         /\ \E label \in {"idle", "open", "stat", "read", "takeover", "pid", "recover"} :
              pc' = [pc EXCEPT ![p] = label]
<1> USE DEF Goto, Acquiring, call, bounds, tries
<1>1. CASE OpenLock(p)
  BY <1>1 DEF OpenLock
<1>2. CASE WritePid(p)
  BY <1>2 DEF WritePid
<1>3. CASE WritePidFails(p)
  BY <1>3 DEF WritePidFails
<1>4. CASE StatLock(p)
  BY <1>4 DEF StatLock
<1>5. CASE ReadLock(p)
  BY <1>5 DEF ReadLock
<1>6. CASE TakeOver(p)
  BY <1>6 DEF TakeOver
<1> QED
  BY <1>1, <1>2, <1>3, <1>4, <1>5, <1>6 DEF Acquire

(* What the invariant says of the lock.                                    *)
LEMMA LockFacts ==
  ASSUME Shapes, LockInv, lock # NoLock
  PROVE  lock \in Locks /\ lock.owner \in Procs /\ lock.written \in BOOLEAN /\ lock.old \in BOOLEAN
BY DEF Shapes, Locks

(* A step that leaves the lock alone, of a process that does not move      *)
(* towards it.                                                             *)
LEMMA LockKept ==
  ASSUME Shapes, LockInv, NEW p \in Procs, UNCHANGED <<lock, seen_old, scene, crashes>>,
         NEW label, pc' = [pc EXCEPT ![p] = label], label # "dead",
         label = "idle" \/ p \in scene.users,
         label \in Acquiring \cup Holding => p \notin Readers,
         label \in Holding => pc[p] \in Holding /\ label # "pid" /\ (pc[p] # "pid" \/ lock.written),
         pc[p] \in Holding /\ label \notin Holding => OneLocker,
         pc[p] # "dead", label # "takeover", label = "read" => ~seen_old[p]
  PROVE  LockInv'
<1>1. /\ pc'[p] = label /\ \A q \in Procs \ {p} : pc'[q] = pc[q]
      /\ pc \in [Procs -> Labels] /\ scene.users \subseteq Procs
  BY SceneType DEF Shapes
<1>2. UNCHANGED <<Lockers, OneLocker>>
  BY DEF Lockers, OneLocker
<1>3. \A q \in Procs : pc[q] = "dead" <=> pc'[q] = "dead"
  BY <1>1
<1>4. \A q \in Procs : pc'[q] # "idle" => q \in scene.users
  BY <1>1 DEF LockInv
<1>5. \A q \in Procs : pc'[q] \in Acquiring \cup Holding => q \notin Readers
  BY <1>1 DEF LockInv
<1>6. \A q \in Procs : pc'[q] = "dead" => crashes # 0
  BY <1>1, <1>3 DEF LockInv
<1>7. \A q \in Procs : pc'[q] \in Holding =>
        lock # NoLock /\ lock.owner = q /\ (lock.written \/ pc'[q] = "pid")
  BY <1>1 DEF LockInv
<1>8. lock # NoLock => /\ lock.owner \in Lockers /\ lock.owner \in Procs
                       /\ OneLocker \/ pc'[lock.owner] \in Holding \cup {"dead"}
                       /\ lock.old => OneLocker \/ pc'[lock.owner] = "dead"
  BY <1>1, <1>3, LockFacts DEF LockInv
<1>9. \A q \in Procs : pc'[q] = "takeover" \/ (pc'[q] = "read" /\ seen_old[q]) =>
        OneLocker \/ \E o \in Lockers : pc'[o] = "dead"
  <2>1. Lockers \subseteq Procs
    BY <1>1 DEF Lockers
  <2> QED  BY <1>1, <1>3, <2>1 DEF LockInv
<1> QED
  BY <1>2, <1>4, <1>5, <1>6, <1>7, <1>8, <1>9 DEF LockInv

LEMMA LockStep ==
  ASSUME Shapes, LockInv, OneRecovers, OneRecovers', [Next]_vars
  PROVE  LockInv'
<1>1. /\ pc \in [Procs -> Labels] /\ seen_old \in [Procs -> BOOLEAN]
      /\ Lockers \subseteq Procs /\ scene.users \subseteq Procs
      /\ crashes \in Nat /\ lock_errors \in Nat /\ "dead" \notin Holding
  BY SceneType DEF Shapes, Lockers, Holding
<1>2. ASSUME NEW p \in Procs, Start(p) \/ ReadJournal(p) \/ ReadSnapshot(p) \/ FailLoad(p)
      PROVE  LockInv'
  <2>1. UNCHANGED <<lock, seen_old, scene, crashes>> /\ pc[p] \notin Holding \cup {"dead"}
    BY <1>2 DEF Start, ReadJournal, ReadSnapshot, FailLoad, call, bounds, tries, Holding
  <2>2. p \in scene.users
    BY <1>2 DEF LockInv, Start, ReadJournal, ReadSnapshot, FailLoad
  <2>3. \E label \in {"idle", "journal", "snapshot", "rolled_back", "open"} :
          pc' = [pc EXCEPT ![p] = label] /\ (label = "open" => p \notin Readers)
    BY <1>2, ProcsAssumption DEF Start, ReadJournal, ReadSnapshot, FailLoad, Goto
  <2> QED  BY <2>1, <2>2, <2>3, LockKept DEF Holding, Acquiring
<1>3. ASSUME NEW p \in Procs, Acquire(p) PROVE LockInv'
  <2>1. /\ UNCHANGED <<scene, crashes>> /\ pc[p] \in Acquiring \cup {"pid"}
        /\ \E label : pc' = [pc EXCEPT ![p] = label]
    BY <1>3, AcquireFacts
  <2>2. pc[p] # "dead" /\ p \in scene.users /\ p \notin Readers /\ p \in Lockers
    BY <2>1 DEF LockInv, Acquiring, Holding, Lockers, Procs
  <2>3. UNCHANGED <<Lockers, OneLocker>> /\ \A q \in Procs \ {p} : pc'[q] = pc[q]
    BY <1>1, <2>1 DEF Lockers, OneLocker
  <2>4. CASE OpenLock(p) /\ lock = NoLock
    <3> DEFINE new == [owner |-> p, written |-> FALSE, old |-> FALSE]
    <3>1. lock' = new /\ pc' = [pc EXCEPT ![p] = "pid"] /\ UNCHANGED seen_old /\ pc[p] = "open"
      BY <2>4 DEF OpenLock, Goto, call, tries
    <3>2. new \in Locks /\ new.owner = p /\ ~new.old
      <4>1. new \in Locks
        BY DEF Locks
      <4> QED  BY <4>1
    <3>3. new # NoLock
      BY <3>2, NoLockAssumption
    <3> HIDE DEF new
    <3>4. pc'[p] = "pid" /\ \A q \in Procs : pc[q] \notin Holding
      BY <1>1, <2>4, <3>1 DEF LockInv
    <3>5. \A q \in Procs : pc'[q] \in Holding <=> q = p
      BY <2>3, <3>4 DEF Holding
    <3>6. \A q \in Procs : pc[q] = "dead" => pc'[q] = "dead"
      BY <2>2, <2>3
    <3> QED
      BY <1>1, <2>1, <2>2, <2>3, <3>1, <3>2, <3>3, <3>4, <3>5, <3>6 DEF LockInv, Acquiring
  <2>5. CASE OpenLock(p) /\ lock # NoLock
    <3>1. UNCHANGED <<lock, seen_old>> /\ pc' = [pc EXCEPT ![p] = "stat"] /\ pc[p] = "open"
      BY <2>5 DEF OpenLock, Goto, call, tries
    <3> QED  BY <2>1, <2>2, <3>1, LockKept DEF Acquiring, Holding
  <2>6. CASE WritePid(p)
    <3>1. /\ pc[p] = "pid" /\ pc' = [pc EXCEPT ![p] = "recover"] /\ UNCHANGED seen_old
          /\ lock # NoLock /\ lock.owner = p /\ lock' = [lock EXCEPT !.written = TRUE]
      BY <2>6 DEF WritePid, Goto, LockInv, Holding
    <3>2. lock' \in Locks /\ lock'.owner = p /\ lock'.written /\ lock'.old = lock.old
      <4>1. lock \in Locks
        BY <3>1, LockFacts
      <4>2. lock' \in Locks
        BY <3>1, <4>1 DEF Locks
      <4> QED  BY <3>1, <4>1, <4>2 DEF Locks
    <3>3. lock' # NoLock
      BY <3>2, NoLockAssumption
    <3>4. pc'[p] = "recover" /\ "recover" \in Holding /\ "pid" \in Holding
      BY <1>1, <3>1 DEF Holding
    <3>5. \A q \in Procs : pc'[q] \in Holding => q = p
      BY <2>3, <3>1 DEF LockInv
    <3>6. lock.old => OneLocker
      BY <3>1 DEF LockInv
    <3>7. \A q \in Procs : pc[q] = "dead" => pc'[q] = "dead"
      BY <2>2, <2>3
    <3> QED
      BY <1>1, <2>1, <2>2, <2>3, <3>1, <3>2, <3>3, <3>4, <3>5, <3>6, <3>7 DEF LockInv, Acquiring
  <2>7. CASE WritePidFails(p)
    <3>1. UNCHANGED <<lock, seen_old>> /\ pc' = [pc EXCEPT ![p] = "stat"] /\ pc[p] = "pid"
          /\ lock_errors' = lock_errors + 1
      BY <2>7 DEF WritePidFails, Goto, call, tries
    <3>2. OneLocker
      BY <1>1, <2>3, <3>1 DEF OneRecovers
    <3> QED  BY <2>1, <2>2, <3>1, <3>2, LockKept DEF Acquiring, Holding
  <2>8. CASE StatLock(p)
    <3>1. /\ seen_old' = [seen_old EXCEPT ![p] = lock # NoLock /\ lock.old] /\ UNCHANGED lock
          /\ pc' = [pc EXCEPT ![p] = "read"] /\ pc[p] = "stat"
      BY <2>8 DEF StatLock, Goto
    <3>2. pc'[p] = "read" /\ seen_old'[p] = (lock # NoLock /\ lock.old)
          /\ \A q \in Procs \ {p} : seen_old'[q] = seen_old[q]
      BY <1>1, <3>1
    <3>3. \A q \in Procs : (pc[q] = "dead" <=> pc'[q] = "dead") /\ (pc[q] \in Holding <=> pc'[q] \in Holding)
      BY <2>3, <3>1, <3>2 DEF Holding
    <3>4. seen_old'[p] => OneLocker \/ \E q \in Lockers : pc[q] = "dead"
      BY <3>2 DEF LockInv
    <3>5. \A q \in Procs : pc'[q] = "takeover" \/ (pc'[q] = "read" /\ seen_old'[q]) =>
            OneLocker \/ \E o \in Lockers : pc'[o] = "dead"
      BY <1>1, <2>3, <3>2, <3>3, <3>4 DEF LockInv
    <3>6. \A q \in Procs : pc'[q] = "pid" <=> pc[q] = "pid"
      BY <2>3, <3>1, <3>2
    <3> QED
      BY <1>1, <2>1, <2>2, <2>3, <3>1, <3>2, <3>3, <3>5, <3>6 DEF LockInv
  <2>9. CASE ReadLock(p)
    <3>1. /\ seen_old' = [seen_old EXCEPT ![p] = FALSE] /\ UNCHANGED lock /\ pc[p] = "read"
          /\ \/ pc' = [pc EXCEPT ![p] = "takeover"] /\ LockStale(p)
             \/ pc' = [pc EXCEPT ![p] = "idle"]
      BY <2>9 DEF ReadLock, Goto
    <3>2. pc'[p] \in {"takeover", "idle"}
          /\ \A q \in Procs \ {p} : seen_old'[q] = seen_old[q]
      BY <1>1, <3>1
    <3>3. \A q \in Procs : (pc[q] = "dead" <=> pc'[q] = "dead") /\ (pc[q] \in Holding <=> pc'[q] \in Holding)
      BY <2>3, <3>1, <3>2 DEF Holding
    <3>4. LockStale(p) => OneLocker \/ \E q \in Lockers : pc[q] = "dead"
      BY <3>1 DEF LockInv, LockStale, Alive
    <3>5. \A q \in Procs : pc'[q] = "takeover" \/ (pc'[q] = "read" /\ seen_old'[q]) =>
            OneLocker \/ \E o \in Lockers : pc'[o] = "dead"
      <4>1. pc'[p] = "takeover" => LockStale(p)
        BY <1>1, <3>1
      <4> QED  BY <1>1, <2>3, <3>2, <3>3, <3>4, <4>1 DEF LockInv
    <3>6. \A q \in Procs : pc'[q] = "pid" <=> pc[q] = "pid"
      BY <2>3, <3>1, <3>2
    <3> QED
      BY <1>1, <2>1, <2>2, <2>3, <3>1, <3>2, <3>3, <3>5, <3>6 DEF LockInv
  <2>10. CASE TakeOver(p)
    <3>1. /\ UNCHANGED seen_old /\ lock' = NoLock /\ pc[p] = "takeover"
          /\ pc' = [pc EXCEPT ![p] = "open"] \/ pc' = [pc EXCEPT ![p] = "idle"]
      BY <2>10 DEF TakeOver, Goto
    <3>2. pc'[p] \in {"open", "idle"}
      BY <1>1, <3>1
    <3>3. \A q \in Procs : pc[q] \notin Holding
      <4> SUFFICES ASSUME NEW q \in Procs, pc[q] \in Holding PROVE FALSE
        OBVIOUS
      <4>1. q \in Lockers /\ q # p
        BY <3>1 DEF LockInv, Lockers, Procs, Holding
      <4>2. ~OneLocker
        BY <2>2, <4>1 DEF OneLocker
      <4>3. PICK o \in Lockers : pc[o] = "dead"
        BY <3>1, <4>2 DEF LockInv
      <4>4. o # p /\ o # q /\ crashes # 0
        BY <1>1, <2>2, <4>3 DEF LockInv
      <4>5. TwoLockers
        BY <4>2, <4>4 DEF OneRecovers
      <4> QED  BY <2>2, <4>1, <4>3, <4>4, <4>5 DEF TwoLockers
    <3>4. \A q \in Procs : (pc[q] = "dead" <=> pc'[q] = "dead") /\ pc'[q] \notin Holding
      BY <2>3, <3>1, <3>2, <3>3 DEF Holding
    <3> QED
      BY <1>1, <2>1, <2>2, <2>3, <3>1, <3>2, <3>4 DEF LockInv
  <2> QED  BY <1>3, <2>4, <2>5, <2>6, <2>7, <2>8, <2>9, <2>10 DEF Acquire
<1>4. ASSUME NEW p \in Procs, Release(p) PROVE LockInv'
  <2>1. /\ pc[p] \in Holding /\ pc[p] # "dead" /\ pc' = [pc EXCEPT ![p] = "idle"] /\ lock' = NoLock
        /\ UNCHANGED <<seen_old, scene, crashes>>
    BY <1>4 DEF Release, Goto, Holding, bounds, tries
  <2>2. pc'[p] = "idle" /\ \A q \in Procs \ {p} : pc'[q] = pc[q]
    BY <1>1, <2>1
  <2>3. \A q \in Procs : (pc[q] = "dead" <=> pc'[q] = "dead") /\ pc'[q] \notin Holding
    BY <2>1, <2>2 DEF LockInv, Holding
  <2>4. UNCHANGED <<Lockers, OneLocker>>
    BY <2>1 DEF Lockers, OneLocker
  <2> QED  BY <1>1, <2>1, <2>2, <2>3, <2>4 DEF LockInv
<1>5. ASSUME NEW p \in Procs, Crash(p) PROVE LockInv'
  <2>1. /\ pc' = [pc EXCEPT ![p] = "dead"] /\ crashes' = crashes + 1 /\ p \in scene.users
        /\ UNCHANGED <<lock, seen_old, scene>>
    BY <1>5 DEF Crash, Goto, tries
  <2>2. pc'[p] = "dead" /\ \A q \in Procs \ {p} : pc'[q] = pc[q]
    BY <1>1, <2>1
  <2>3. UNCHANGED <<Lockers, OneLocker>>
    BY <2>1 DEF Lockers, OneLocker
  <2>4. \A q \in Procs : pc[q] = "dead" => pc'[q] = "dead"
    BY <2>2
  <2>5. \A q \in Procs : pc'[q] \in Acquiring \cup Holding => pc'[q] = pc[q]
    BY <2>2 DEF Acquiring, Holding
  <2>6. crashes' # 0
    BY <1>1, <2>1
  <2>7. lock # NoLock /\ pc[lock.owner] \in Holding \cup {"dead"} => pc'[lock.owner] \in Holding \cup {"dead"}
    BY <2>2, <2>4, LockFacts
  <2>8. \A q \in Procs : pc'[q] = "takeover" \/ (pc'[q] = "read" /\ seen_old[q]) => pc'[q] = pc[q]
    BY <2>2
  <2> QED  BY <1>1, <2>1, <2>2, <2>3, <2>4, <2>5, <2>6, <2>7, <2>8, LockFacts DEF LockInv
<1>6. ASSUME NEW p \in Procs,
             \/ Recovery(p) \/ Load(p) \/ Reject(p) \/ WritePending(p)
             \/ BeginAppend(p) \/ EndAppend(p) \/ BeginIndex(p) \/ EndIndex(p)
             \/ Checkpoint(p) \/ UnlinkPending(p) \/ WriteFails(p)
      PROVE  LockInv'
  <2>1. UNCHANGED <<lock, seen_old, scene, crashes>> /\ pc[p] \in Holding \ {"pid"}
    BY <1>6 DEF Recovery, NothingPending, TruncateJournal, TruncateDedupe, RestoreSnapshot,
         DropPending, Load, Reject, WritePending, BeginAppend, EndAppend, BeginIndex, EndIndex,
         Checkpoint, UnlinkPending, WriteFails, Holding, call, bounds, tries
  <2>2. pc' = pc \/ \E label \in Holding \ {"pid"} : pc' = [pc EXCEPT ![p] = label]
    BY <1>6 DEF Recovery, NothingPending, TruncateJournal, TruncateDedupe, RestoreSnapshot,
         DropPending, Load, Reject, WritePending, BeginAppend, EndAppend, BeginIndex, EndIndex,
         Checkpoint, UnlinkPending, WriteFails, Goto, Holding
  <2>3. \E label \in Holding \ {"pid"} : pc' = [pc EXCEPT ![p] = label]
    BY <1>1, <2>1, <2>2
  <2>4. p \in scene.users /\ p \notin Readers
    BY <2>1 DEF LockInv, Holding
  <2> QED  BY <2>1, <2>3, <2>4, LockKept DEF Holding
<1>7. CASE LockAges
  <2>1. /\ lock # NoLock /\ ~lock.written /\ pc[lock.owner] # "pid"
        /\ lock' = [lock EXCEPT !.old = TRUE] /\ UNCHANGED <<pc, seen_old, scene, crashes>>
    BY <1>7 DEF LockAges, call, bounds, tries
  <2>2. /\ lock \in Locks /\ lock' \in Locks /\ lock'.owner = lock.owner /\ lock.owner \in Procs
        /\ lock'.written = lock.written
    <3>1. lock \in Locks
      BY <2>1, LockFacts
    <3>2. lock' \in Locks
      BY <2>1, <3>1 DEF Locks
    <3> QED  BY <2>1, <3>1, <3>2 DEF Locks
  <2>3. lock' # NoLock
    BY <2>2, NoLockAssumption
  <2>4. UNCHANGED <<Lockers, OneLocker>>
    BY <2>1 DEF Lockers, OneLocker
  <2>5. pc[lock.owner] \notin Holding
    BY <2>1, <2>2 DEF LockInv
  <2> QED  BY <2>1, <2>2, <2>3, <2>4, <2>5 DEF LockInv
<1>8. CASE Tick \/ UNCHANGED vars
  <2>1. UNCHANGED <<lock, pc, seen_old, scene, crashes>>
    BY <1>8 DEF Tick, vars, call, bounds, tries
  <2> QED  BY <2>1 DEF LockInv, Lockers, OneLocker
<1> QED
  BY <1>2, <1>3, <1>4, <1>5, <1>6, <1>7, <1>8 DEF Next, Step

(* Only the holder of the lock is past acquireLock.                        *)
LEMMA Alone ==
  ASSUME LockInv, NEW p \in Procs, pc[p] \in Holding, NEW q \in Procs, q # p
  PROVE  pc[q] \notin Holding
BY DEF LockInv

LEMMA ReceivedAtType ==
  ASSUME Shapes, NEW p \in Procs
  PROVE  ReceivedAt(p) \in 1..MaxTime
BY DEF Shapes, ReceivedAt

LEMMA BatchType ==
  ASSUME Shapes, NEW p \in Procs
  PROVE  batch[p] \in Seq(Drafts)
<1>1. batch[p] \in Batches \/ batch[p] = <<>>
  BY DEF Shapes
<1>2. <<>> \in Seq(Drafts)
  OBVIOUS
<1> QED
  BY <1>1, <1>2, BatchesAssumption DEF Drafts

(* What an ingest is going to append continues the journal it has loaded.  *)
LEMMA LoadExtends ==
  ASSUME Shapes, NEW p \in Procs
  PROVE  /\ Envelopes(Fresh(p), ReceivedAt(p)) \in Seq(LongEvents)
         /\ Verifies(journal) /\ Acceptable(p) =>
              Verifies(journal \o Lines(Envelopes(Fresh(p), ReceivedAt(p))))
<1>1. /\ batch[p] \in Seq(Drafts) /\ ReceivedAt(p) \in 1..MaxTime /\ journal \in Seq(FileLines)
  BY BatchType, ReceivedAtType DEF Shapes
<1>2. /\ Fresh(p) \in Seq(Drafts)
      /\ \A k \in 1..Len(Fresh(p)) :
           \E i \in FreshPlaces(p) : Fresh(p)[k] = batch[p][i] /\ Rank(FreshPlaces(p), i) = k
  BY <1>1, FreshFacts
<1>3. Envelopes(Fresh(p), ReceivedAt(p)) \in Seq(LongEvents)
  BY <1>1, <1>2, EnvelopesFacts
<1>4. ASSUME Verifies(journal), Acceptable(p)
      PROVE  Verifies(journal \o Lines(Envelopes(Fresh(p), ReceivedAt(p))))
  <2> DEFINE drafts == Fresh(p)
             t == ReceivedAt(p)
  <2>1. \A i, j \in DOMAIN batch[p] : batch[p][i].key = batch[p][j].key => i = j
    <3> SUFFICES ASSUME NEW i \in DOMAIN batch[p], NEW j \in DOMAIN batch[p], i # j
                 PROVE  batch[p][i].key # batch[p][j].key
      OBVIOUS
    <3>1. DOMAIN batch[p] = 1..Len(batch[p]) /\ Len(batch[p]) \in Nat
      BY <1>1
    <3>2. i \in 1..(j - 1) \/ j \in 1..(i - 1)
      BY <3>1
    <3> QED  BY <1>4, <3>2 DEF Acceptable
  <2>2. \A i \in FreshPlaces(p) : i \in DOMAIN batch[p] /\
          \A j \in 1..Len(journal) : journal[j].event.key # batch[p][i].key
    <3> TAKE i \in FreshPlaces(p)
    <3>1. i \in DOMAIN batch[p] /\ Keyed(Events(journal), batch[p][i].key) = {}
      BY DEF FreshPlaces
    <3> SUFFICES ASSUME NEW j \in 1..Len(journal), journal[j].event.key = batch[p][i].key
                 PROVE  FALSE
      BY <3>1
    <3>2. /\ Events(journal) \in Seq(LongEvents) /\ j \in DOMAIN Events(journal)
          /\ Events(journal)[j] = journal[j].event
      BY <1>1, EventsFacts
    <3>3. journal[j].event \in Keyed(Events(journal), batch[p][i].key)
      BY <3>2 DEF Keyed, ToSet
    <3> QED  BY <3>1, <3>3
  <2> HIDE DEF drafts, t
  <2>3. \A i, j \in 1..Len(drafts) : drafts[i].key = drafts[j].key => i = j
    <3> TAKE i, j \in 1..Len(drafts)
    <3> HAVE drafts[i].key = drafts[j].key
    <3>1. PICK k \in FreshPlaces(p) : drafts[i] = batch[p][k] /\ Rank(FreshPlaces(p), k) = i
      BY <1>2 DEF drafts
    <3>2. PICK m \in FreshPlaces(p) : drafts[j] = batch[p][m] /\ Rank(FreshPlaces(p), m) = j
      BY <1>2 DEF drafts
    <3>3. k = m
      BY <2>1, <2>2, <3>1, <3>2
    <3> QED  BY <3>1, <3>2, <3>3
  <2>4. \A i \in 1..Len(drafts), j \in 1..Len(journal) : journal[j].event.key # drafts[i].key
    BY <1>2, <2>2 DEF drafts
  <2>5. \A i \in 1..Len(drafts), j \in 1..Len(journal) : journal[j].event.received <= t
    <3> TAKE i \in 1..Len(drafts), j \in 1..Len(journal)
    <3>1. /\ Len(journal) \in Nat /\ Len(journal) \in 1..Len(journal) /\ journal # <<>>
          /\ Last(journal) = journal[Len(journal)]
      BY <1>1 DEF Last
    <3>2. batch[p] # <<>>
      <4>1. PICK k \in FreshPlaces(p) : drafts[i] = batch[p][k]
        BY <1>2 DEF drafts
      <4>2. DOMAIN <<>> = {}
        OBVIOUS
      <4> QED  BY <2>2, <4>1, <4>2
    <3>3. journal[Len(journal)].event.received <= t
      BY <1>4, <3>1, <3>2 DEF Acceptable, t
    <3>4. \A m \in 1..Len(journal) : journal[m].event.received \in 1..MaxTime
      <4>1. \A m \in 1..Len(journal) : journal[m] \in FileLines
        BY <1>1
      <4> QED  BY <4>1 DEF FileLines, LongEvents
    <3>5. journal[j].event.received <= journal[Len(journal)].event.received
      <4>1. Follows(journal, Len(journal))
        BY <1>1, <1>4, <3>1, VerifiesFollows
      <4>2. j # Len(journal) => j \in 1..(Len(journal) - 1)
        BY <3>1
      <4> QED  BY <3>1, <3>4, <4>1, <4>2 DEF Follows
    <3>6. t \in 1..MaxTime
      BY <1>1 DEF t
    <3> QED  BY <3>1, <3>3, <3>4, <3>5, <3>6
  <2>6. drafts \in Seq(Drafts) /\ t \in 1..MaxTime
    BY <1>1, <1>2 DEF drafts, t
  <2>7. Verifies(journal \o Lines(Envelopes(drafts, t)))
    BY <1>1, <1>4, <2>3, <2>4, <2>5, <2>6, EnvelopesVerify
  <2> QED  BY <2>7 DEF drafts, t
<1> QED
  BY <1>3, <1>4

(* The variables of the calls keep their types.                            *)
CallShapes ==
  /\ lock \in Locks \cup {NoLock}
  /\ acked \subseteq LongEvents
  /\ now \in 1..MaxTime
  /\ pc \in [Procs -> Labels]
  /\ batch \in [Procs -> Batches \cup {<<>>}]
  /\ stamp \in [Procs -> 1..MaxTime]
  /\ loaded \in [Procs -> Seq(LongEvents)] /\ accepted \in [Procs -> Seq(LongEvents)]
  /\ attempt \in [Procs -> {0, 1}] /\ seen_old \in [Procs -> BOOLEAN]
  /\ scene \in Scenes
  /\ crashes \in 0..scene.crashes /\ write_errors \in 0..scene.write_errors
  /\ lock_errors \in 0..scene.lock_errors

LEMMA CallStep ==
  ASSUME Shapes, [Next]_vars
  PROVE  CallShapes'
<1>1. CallShapes /\ journal \in Seq(FileLines)
  BY DEF Shapes, CallShapes
<1>2. /\ MaxTime \in Nat
      /\ scene.crashes \in Nat /\ scene.write_errors \in Nat /\ scene.lock_errors \in Nat
  BY <1>1, BoundsAssumption, SceneType DEF CallShapes
<1> USE DEF CallShapes, Goto, bounds, call, tries
<1>3. Events(journal) \in Seq(LongEvents) /\ <<>> \in Seq(LongEvents)
  BY <1>1, EventsFacts
<1>4. ASSUME NEW p \in Procs, Start(p) PROVE CallShapes'
  <2>1. /\ UNCHANGED <<lock, acked, now, accepted, attempt, seen_old, scene, crashes, write_errors,
                       lock_errors>>
        /\ loaded' = [loaded EXCEPT ![p] = <<>>]
        /\ stamp' = [stamp EXCEPT ![p] = IF p \in Cli THEN now ELSE @]
    BY <1>4 DEF Start
  <2>2. \E b \in Batches \cup {<<>>} : batch' = [batch EXCEPT ![p] = b]
    <3>1. CASE p \in Readers
      BY <1>4, <3>1 DEF Start
    <3>2. CASE p \notin Readers
      BY <1>4, <3>2 DEF Start
    <3> QED  BY <3>1, <3>2
  <2>3. \E label \in Labels : pc' = [pc EXCEPT ![p] = label]
    BY <1>4 DEF Start, Labels
  <2>4. batch' \in [Procs -> Batches \cup {<<>>}]
    BY <1>1, <2>2
  <2>5. stamp' \in [Procs -> 1..MaxTime]
    BY <1>1, <2>1
  <2> QED  BY <1>1, <1>3, <2>1, <2>3, <2>4, <2>5
<1>5. ASSUME NEW p \in Procs, ReadJournal(p) \/ ReadSnapshot(p) \/ FailLoad(p) PROVE CallShapes'
  <2>1. UNCHANGED <<lock, acked, now, batch, stamp, accepted, attempt, seen_old, scene, crashes,
                    write_errors, lock_errors>>
    BY <1>5 DEF ReadJournal, ReadSnapshot, FailLoad
  <2>2. loaded' = loaded \/ \E s \in Seq(LongEvents) : loaded' = [loaded EXCEPT ![p] = s]
    <3>1. CASE ReadJournal(p)
      BY <1>3, <3>1 DEF ReadJournal
    <3>2. CASE ReadSnapshot(p)
      BY <1>3, <3>2 DEF ReadSnapshot
    <3>3. CASE FailLoad(p)
      BY <3>3 DEF FailLoad
    <3> QED  BY <1>5, <3>1, <3>2, <3>3
  <2>3. \E label \in Labels : pc' = [pc EXCEPT ![p] = label]
    BY <1>5 DEF ReadJournal, ReadSnapshot, FailLoad, Labels
  <2>4. loaded' \in [Procs -> Seq(LongEvents)]
    BY <1>1, <2>2
  <2> QED  BY <1>1, <2>1, <2>3, <2>4
<1>6. ASSUME NEW p \in Procs, Acquire(p) PROVE CallShapes'
  <2>1. UNCHANGED <<acked, now, batch, stamp, loaded, accepted, scene, crashes, write_errors>>
    BY <1>6, AcquireFacts
  <2>2. \E label \in Labels : pc' = [pc EXCEPT ![p] = label]
    BY <1>6, AcquireFacts DEF Labels
  <2>3. lock' \in Locks \cup {NoLock}
    <3>1. CASE lock' = [owner |-> p, written |-> FALSE, old |-> FALSE]
      BY <3>1 DEF Locks
    <3>2. CASE lock \in Locks /\ lock' = [lock EXCEPT !.written = TRUE]
      BY <3>2 DEF Locks
    <3>3. CASE lock' = NoLock \/ lock' = lock
      BY <1>1, <3>3
    <3> QED
      BY <1>1, <1>6, <3>1, <3>2, <3>3
         DEF Acquire, OpenLock, WritePid, WritePidFails, StatLock, ReadLock, TakeOver
  <2>4. attempt' = attempt \/ \E n \in {0, 1} : attempt' = [attempt EXCEPT ![p] = n]
    BY <1>6 DEF Acquire, OpenLock, WritePid, WritePidFails, StatLock, ReadLock, TakeOver
  <2>5. seen_old' = seen_old \/ \E old \in BOOLEAN : seen_old' = [seen_old EXCEPT ![p] = old]
    <3>1. CASE StatLock(p)
      <4>1. (lock # NoLock /\ lock.old) \in BOOLEAN
        OBVIOUS
      <4> QED  BY <3>1, <4>1 DEF StatLock
    <3>2. CASE ReadLock(p)
      BY <3>2 DEF ReadLock
    <3>3. CASE OpenLock(p) \/ WritePid(p) \/ WritePidFails(p) \/ TakeOver(p)
      BY <3>3 DEF OpenLock, WritePid, WritePidFails, TakeOver
    <3> QED  BY <1>6, <3>1, <3>2, <3>3 DEF Acquire
  <2>6. lock_errors' \in 0..scene.lock_errors
    <3>1. CASE WritePidFails(p)
      <4>1. lock_errors < scene.lock_errors /\ lock_errors' = lock_errors + 1
        BY <3>1 DEF WritePidFails
      <4> QED  BY <1>1, <1>2, <4>1
    <3>2. CASE OpenLock(p) \/ WritePid(p) \/ StatLock(p) \/ ReadLock(p) \/ TakeOver(p)
      <4>1. lock_errors' = lock_errors
        BY <3>2 DEF OpenLock, WritePid, StatLock, ReadLock, TakeOver
      <4> QED  BY <1>1, <4>1
    <3> QED  BY <1>6, <3>1, <3>2 DEF Acquire
  <2>7. pc' \in [Procs -> Labels]
    BY <1>1, <2>2
  <2>8. attempt' \in [Procs -> {0, 1}] /\ seen_old' \in [Procs -> BOOLEAN]
    BY <1>1, <2>4, <2>5
  <2> QED  BY <1>1, <2>1, <2>3, <2>6, <2>7, <2>8
<1>7. ASSUME NEW p \in Procs, Load(p) PROVE CallShapes'
  <2>1. accepted' = [accepted EXCEPT ![p] = Envelopes(Fresh(p), ReceivedAt(p))]
    BY <1>7 DEF Load
  <2>2. accepted' \in [Procs -> Seq(LongEvents)]
    BY <1>1, <2>1, LoadExtends
  <2>3. \E label \in Labels : pc' = [pc EXCEPT ![p] = label]
    BY <1>7 DEF Load, Labels
  <2>4. UNCHANGED <<lock, acked, now, batch, stamp, loaded, attempt, seen_old, scene, crashes,
                    write_errors, lock_errors>>
    BY <1>7 DEF Load
  <2> QED  BY <1>1, <2>2, <2>3, <2>4
<1>8. ASSUME NEW p \in Procs, Release(p) PROVE CallShapes'
  <2>1. ToSet(Events(journal)) \subseteq LongEvents
    BY <1>3 DEF ToSet
  <2>2. acked' \subseteq LongEvents
    <3>1. acked' \subseteq acked \cup ToSet(Events(journal))
      BY <1>8 DEF Release
    <3> QED  BY <1>1, <2>1, <3>1
  <2>3. /\ lock' = NoLock
        /\ UNCHANGED <<now, stamp, loaded, attempt, seen_old, scene, crashes, write_errors,
                       lock_errors>>
        /\ batch' = [batch EXCEPT ![p] = <<>>] /\ accepted' = [accepted EXCEPT ![p] = <<>>]
        /\ pc' = [pc EXCEPT ![p] = "idle"]
    BY <1>8 DEF Release
  <2>4. /\ batch' \in [Procs -> Batches \cup {<<>>}]
        /\ accepted' \in [Procs -> Seq(LongEvents)] /\ pc' \in [Procs -> Labels]
    BY <1>1, <1>3, <2>3 DEF Labels
  <2> QED  BY <1>1, <2>2, <2>3, <2>4
<1>9. ASSUME NEW p \in Procs,
             \/ Recovery(p) \/ Reject(p) \/ WritePending(p) \/ BeginAppend(p) \/ EndAppend(p)
             \/ BeginIndex(p) \/ EndIndex(p) \/ Checkpoint(p) \/ UnlinkPending(p)
      PROVE  CallShapes'
  <2>1. UNCHANGED <<lock, acked, now, batch, stamp, loaded, accepted, attempt, seen_old, scene,
                    crashes, write_errors, lock_errors>>
    BY <1>9 DEF Recovery, NothingPending, TruncateJournal, TruncateDedupe, RestoreSnapshot,
         DropPending, Reject, WritePending, BeginAppend, EndAppend, BeginIndex, EndIndex,
         Checkpoint, UnlinkPending
  <2>2. pc' = pc \/ \E label \in Labels : pc' = [pc EXCEPT ![p] = label]
    BY <1>9 DEF Recovery, NothingPending, TruncateJournal, TruncateDedupe, RestoreSnapshot,
         DropPending, Reject, WritePending, BeginAppend, EndAppend, BeginIndex, EndIndex,
         Checkpoint, UnlinkPending, Labels
  <2> QED  BY <1>1, <2>1, <2>2
<1>10. ASSUME NEW p \in Procs, WriteFails(p) \/ Crash(p) PROVE CallShapes'
  <2>1. UNCHANGED <<lock, acked, now, stamp, loaded, attempt, seen_old, scene, lock_errors>>
    BY <1>10 DEF WriteFails, Crash
  <2>2. \E label \in Labels : pc' = [pc EXCEPT ![p] = label]
    BY <1>10 DEF WriteFails, Crash, Labels
  <2>3. /\ batch' = batch \/ batch' = [batch EXCEPT ![p] = <<>>]
        /\ accepted' = accepted \/ accepted' = [accepted EXCEPT ![p] = <<>>]
    BY <1>10 DEF WriteFails, Crash
  <2>4. crashes' \in 0..scene.crashes /\ write_errors' \in 0..scene.write_errors
    <3>1. CASE WriteFails(p)
      <4>1. /\ crashes' = crashes /\ write_errors < scene.write_errors
            /\ write_errors' = write_errors + 1
        BY <3>1 DEF WriteFails
      <4> QED  BY <1>1, <1>2, <4>1
    <3>2. CASE Crash(p)
      <4>1. write_errors' = write_errors /\ crashes < scene.crashes /\ crashes' = crashes + 1
        BY <3>2 DEF Crash
      <4> QED  BY <1>1, <1>2, <4>1
    <3> QED  BY <1>10, <3>1, <3>2
  <2>5. batch' \in [Procs -> Batches \cup {<<>>}] /\ accepted' \in [Procs -> Seq(LongEvents)]
    BY <1>1, <1>3, <2>3
  <2>6. pc' \in [Procs -> Labels]
    BY <1>1, <2>2
  <2> QED  BY <1>1, <2>1, <2>4, <2>5, <2>6
<1>11. CASE Tick
  BY <1>1, <1>2, <1>11 DEF Tick
<1>12. CASE LockAges
  <2>1. lock \in Locks /\ lock' = [lock EXCEPT !.old = TRUE]
    BY <1>1, <1>12 DEF LockAges
  <2>2. lock' \in Locks
    BY <2>1 DEF Locks
  <2> QED  BY <1>1, <1>12, <2>2 DEF LockAges
<1>13. CASE UNCHANGED vars
  BY <1>1, <1>13 DEF vars
<1> QED
  BY <1>4, <1>5, <1>6, <1>7, <1>8, <1>9, <1>10, <1>11, <1>12, <1>13 DEF Next, Step

-----------------------------------------------------------------------------
(* The files.                                                              *)

FileShapes ==
  /\ journal \in Seq(FileLines) /\ dedupe \in Seq(FileLines)
  /\ pending \in Transactions \cup {NoPending}
  /\ snapshot \in Heads

(* A step that leaves the files alone, of a process that is then in no     *)
(* label the invariant speaks of.                                          *)
LEMMA QuietStep ==
  ASSUME Shapes, FileInv, UNCHANGED files, NEW p \in Procs, NEW label,
         pc' = [pc EXCEPT ![p] = label],
         label \notin Writing \cup {"recovered", "load", "pending"},
         \A q \in Procs \ {p} : accepted'[q] = accepted[q]
  PROVE  FileInv' /\ FileShapes'
<1>1. /\ \A q \in Procs \ {p} : pc'[q] = pc[q]
      /\ pc'[p] \notin Writing \cup {"recovered", "load", "pending"}
  BY DEF Shapes
<1>2. UNCHANGED <<journal, dedupe, pending, snapshot>>
  BY DEF files
<1>3. FileShapes'
  BY <1>2 DEF Shapes, FileShapes
<1>4. Clean => Clean'
  BY <1>2 DEF Clean
<1>5. pending' = NoPending =>
        Clean' /\ \A q \in Procs : pc'[q] \notin Writing \cup {"recovered"}
  BY <1>1, <1>2, <1>4 DEF FileInv
<1>6. ASSUME pending' # NoPending
      PROVE  \E base \in Seq(FileLines) : \E tail, index \in Partials(pending'.append) :
               InFlight(base, tail, index)' /\ \A q \in Procs : Progress(q, tail, index)'
  <2>1. PICK base \in Seq(FileLines), tail \in Partials(pending.append), index \in Partials(pending.append) :
          InFlight(base, tail, index) /\ \A q \in Procs : Progress(q, tail, index)
    BY <1>2, <1>6 DEF FileInv
  <2>2. InFlight(base, tail, index)'
    BY <1>2, <2>1 DEF InFlight
  <2>3. ASSUME NEW q \in Procs PROVE Progress(q, tail, index)'
    <3>1. CASE q = p
      BY <1>1, <3>1 DEF Progress, Writing
    <3>2. CASE q # p
      <4>1. pc'[q] = pc[q] /\ accepted'[q] = accepted[q]
        BY <1>1, <3>2
      <4> QED  BY <1>2, <1>4, <2>1, <4>1 DEF Progress
    <3> QED  BY <3>1, <3>2
  <2> QED  BY <1>2, <2>1, <2>2, <2>3
<1>7. \A q \in Procs : pc'[q] \in {"load", "pending"} => Clean'
  BY <1>1, <1>4 DEF FileInv
<1>8. ASSUME NEW q \in Procs, pc'[q] = "pending"
      PROVE  Verifies(journal' \o Lines(accepted'[q]))
  <2>1. q # p /\ pc[q] = "pending" /\ accepted'[q] = accepted[q]
    BY <1>1, <1>8
  <2> QED  BY <1>2, <2>1 DEF FileInv
<1> QED
  BY <1>3, <1>5, <1>6, <1>7, <1>8 DEF FileInv

(* A step of the holder that leaves a transaction under way.               *)
LEMMA FlightStep ==
  ASSUME NEW p \in Procs, pending' # NoPending, pc'[p] \notin {"load", "pending"},
         \A q \in Procs \ {p} : pc'[q] \notin Holding,
         NEW base \in Seq(FileLines),
         NEW tail \in Partials(pending'.append), NEW index \in Partials(pending'.append),
         InFlight(base, tail, index)', Progress(p, tail, index)'
  PROVE  FileInv'
<1>1. ASSUME NEW q \in Procs PROVE Progress(q, tail, index)'
  <2>1. q # p => pc'[q] \notin Holding
    OBVIOUS
  <2> QED  BY <2>1 DEF Progress, Holding, Writing
<1>2. \A q \in Procs : pc'[q] \notin {"load", "pending"}
  BY DEF Holding
<1> QED
  BY <1>1, <1>2 DEF FileInv

(* A step of the holder that leaves none.                                  *)
LEMMA CleanStep ==
  ASSUME NEW p \in Procs, pending' = NoPending, Clean',
         pc'[p] \notin Writing \cup {"recovered", "pending"},
         \A q \in Procs \ {p} : pc'[q] \notin Holding
  PROVE  FileInv'
<1>1. \A q \in Procs : pc'[q] \notin Writing \cup {"recovered", "pending"}
  BY DEF Holding, Writing
<1> QED
  BY <1>1 DEF FileInv

(* What is known where the holder finds a transaction under way.           *)
LEMMA UnderWay ==
  ASSUME StoreInv, pending # NoPending
  PROVE  /\ pending \in Transactions /\ pending.append \in Seq(LongEvents)
         /\ Lines(pending.append) \in Seq(FileLines)
         /\ <<>> \in Partials(pending.append)
         /\ Lines(pending.append) \in Partials(pending.append)
         /\ Partials(pending.append) \subseteq Seq(FileLines)
         /\ \E base \in Seq(FileLines) : \E tail, index \in Partials(pending.append) :
              InFlight(base, tail, index) /\ \A p \in Procs : Progress(p, tail, index)
<1>1. pending \in Transactions
  BY DEF StoreInv, Shapes
<1>2. pending.append \in Seq(LongEvents)
  BY <1>1 DEF Transactions
<1>3. /\ Lines(pending.append) \in Seq(FileLines)
      /\ <<>> \in Partials(pending.append)
      /\ Lines(pending.append) \in Partials(pending.append)
      /\ Partials(pending.append) \subseteq Seq(FileLines)
  BY <1>2, LinesFacts, PartialsFacts
<1> QED
  BY <1>1, <1>2, <1>3 DEF StoreInv, FileInv

(* The holder moves to a label, and nobody else holds.                     *)
LEMMA HolderMoves ==
  ASSUME StoreInv, NEW p \in Procs, pc[p] \in Holding, NEW label, pc' = [pc EXCEPT ![p] = label]
  PROVE  pc'[p] = label /\ \A q \in Procs \ {p} : pc'[q] \notin Holding
BY Alone DEF StoreInv, Shapes

LEMMA RecoveryFiles ==
  ASSUME StoreInv, NEW p \in Procs, Recovery(p)
  PROVE  FileInv' /\ FileShapes'
<1>1. FileShapes /\ pc[p] \in Holding /\ Shapes /\ FileInv
  BY DEF StoreInv, Shapes, FileShapes, Recovery, NothingPending, TruncateJournal, TruncateDedupe,
         RestoreSnapshot, DropPending, Holding
<1>2. CASE NothingPending(p)
  <2>1. UNCHANGED files /\ pending = NoPending /\ pc' = [pc EXCEPT ![p] = "load"]
    BY <1>2 DEF NothingPending, Goto
  <2>2. Clean
    BY <1>1, <2>1 DEF FileInv
  <2>3. Clean'
    BY <2>1, <2>2 DEF Clean, files
  <2>4. pc'[p] = "load" /\ \A q \in Procs \ {p} : pc'[q] \notin Holding
    BY <1>1, <2>1, HolderMoves
  <2>5. pending' = NoPending
    BY <2>1 DEF files
  <2>6. FileInv'
    BY <2>3, <2>4, <2>5, CleanStep DEF Writing
  <2> QED  BY <1>1, <2>1, <2>6 DEF FileShapes, files
<1>3. CASE TruncateJournal(p) \/ TruncateDedupe(p) \/ RestoreSnapshot(p)
  <2>1. pending # NoPending /\ pending' = pending /\ pc[p] = "recover"
    BY <1>3 DEF TruncateJournal, TruncateDedupe, RestoreSnapshot
  <2> DEFINE append == pending.append
             all == Lines(append)
  <2>2. /\ pending \in Transactions /\ append \in Seq(LongEvents)
        /\ all \in Seq(FileLines) /\ <<>> \in Partials(append) /\ all \in Partials(append)
        /\ Partials(append) \subseteq Seq(FileLines)
    BY <2>1, UnderWay
  <2>3. PICK base \in Seq(FileLines), tail \in Partials(append), index \in Partials(append) :
          InFlight(base, tail, index)
    BY <2>1, UnderWay
  <2>4. /\ Truncate(journal) = base /\ Truncate(dedupe) = base
        /\ Complete <=> tail = all /\ index = all
        /\ tail \in Seq(FileLines) /\ index \in Seq(FileLines)
    BY <2>2, <2>3, InFlightFacts
  <2>5. /\ journal = base \o tail /\ dedupe = base \o index
        /\ pending.old = HeadOf(Events(base)) /\ pending.new = HeadOf(Events(base \o all))
        /\ Verifies(base \o all)
        /\ snapshot = pending.old \/ (snapshot = pending.new /\ tail = all /\ index = all)
    BY <2>3 DEF InFlight
  <2>6. base \o <<>> = base /\ Verifies(base)
    BY <2>2, <2>3, InFlightFacts, ConcatEmptySeq
  <2>7. pending.old \in Heads /\ pending.new \in Heads
    BY <2>2 DEF Transactions
  <2> HIDE DEF append, all
  <2>8. CASE TruncateJournal(p)
    <3>1. /\ journal' = base /\ UNCHANGED <<dedupe, pending, snapshot, pc>> /\ ~Complete
      BY <2>4, <2>8 DEF TruncateJournal
    <3>2. InFlight(base, <<>>, index)'
      BY <2>4, <2>5, <2>6, <3>1 DEF InFlight, all, append
    <3>3. Progress(p, <<>>, index)'
      BY <2>1, <3>1 DEF Progress, Writing
    <3>4. \A q \in Procs \ {p} : pc'[q] \notin Holding
      BY <1>1, <3>1, Alone DEF StoreInv
    <3>5. /\ pending' # NoPending /\ pc'[p] \notin {"load", "pending"}
          /\ <<>> \in Partials(pending'.append) /\ index \in Partials(pending'.append)
      BY <2>1, <2>2, <2>3, <3>1 DEF append
    <3>6. FileInv'
      BY <3>2, <3>3, <3>4, <3>5, FlightStep
    <3> QED  BY <1>1, <3>1, <3>6 DEF FileShapes
  <2>9. CASE TruncateDedupe(p)
    <3>1. /\ dedupe' = base /\ UNCHANGED <<journal, pending, snapshot, pc>> /\ ~Complete
      BY <2>4, <2>9 DEF TruncateDedupe
    <3>2. InFlight(base, tail, <<>>)'
      BY <2>4, <2>5, <2>6, <3>1 DEF InFlight, all, append
    <3>3. Progress(p, tail, <<>>)'
      BY <2>1, <3>1 DEF Progress, Writing
    <3>4. \A q \in Procs \ {p} : pc'[q] \notin Holding
      BY <1>1, <3>1, Alone DEF StoreInv
    <3>5. /\ pending' # NoPending /\ pc'[p] \notin {"load", "pending"}
          /\ tail \in Partials(pending'.append) /\ <<>> \in Partials(pending'.append)
      BY <2>1, <2>2, <2>3, <3>1 DEF append
    <3>6. FileInv'
      BY <3>2, <3>3, <3>4, <3>5, FlightStep
    <3> QED  BY <1>1, <3>1, <3>6 DEF FileShapes
  <2>10. CASE RestoreSnapshot(p)
    <3>1. /\ UNCHANGED <<journal, dedupe, pending>> /\ pc' = [pc EXCEPT ![p] = "recovered"]
          /\ snapshot' = IF Complete THEN pending.new ELSE pending.old
          /\ Complete \/ (journal = base /\ dedupe = base)
      BY <2>4, <2>10 DEF RestoreSnapshot, RecoveredHead, Goto
    <3>2. /\ dedupe = journal /\ Verifies(journal) /\ snapshot' = HeadOf(Events(journal))
          /\ snapshot' \in Heads
      BY <2>4, <2>5, <2>6, <2>7, <3>1
    <3>3. Clean'
      BY <3>1, <3>2 DEF Clean
    <3>4. InFlight(base, tail, index)'
      BY <2>4, <2>5, <3>1 DEF InFlight, all, append
    <3>5. pc'[p] = "recovered" /\ \A q \in Procs \ {p} : pc'[q] \notin Holding
      BY <1>1, <3>1, HolderMoves
    <3>6. Progress(p, tail, index)'
      BY <3>3, <3>5 DEF Progress, Writing
    <3>7. /\ pending' # NoPending /\ tail \in Partials(pending'.append)
          /\ index \in Partials(pending'.append)
      BY <2>1, <2>3, <3>1 DEF append
    <3>8. FileInv'
      BY <3>4, <3>5, <3>6, <3>7, FlightStep
    <3> QED  BY <1>1, <3>1, <3>2, <3>8 DEF FileShapes
  <2> QED  BY <1>3, <2>8, <2>9, <2>10
<1>4. CASE DropPending(p)
  <2>1. /\ UNCHANGED <<journal, dedupe, snapshot>> /\ pending' = NoPending /\ pc[p] = "recovered"
        /\ pc' = [pc EXCEPT ![p] = "load"]
    BY <1>4 DEF DropPending, Goto
  <2>2. pending # NoPending
    BY <1>1, <2>1 DEF FileInv
  <2>3. Clean
    BY <2>1, <2>2, UnderWay DEF Progress
  <2>4. Clean'
    BY <2>1, <2>3 DEF Clean
  <2>5. pc'[p] = "load" /\ \A q \in Procs \ {p} : pc'[q] \notin Holding
    BY <1>1, <2>1, HolderMoves
  <2>6. FileInv'
    BY <2>1, <2>4, <2>5, CleanStep DEF Writing
  <2> QED  BY <1>1, <2>1, <2>6 DEF FileShapes
<1> QED
  BY <1>2, <1>3, <1>4 DEF Recovery

(* The record of a transaction that continues the journal.                 *)
LEMMA WritePendingFiles ==
  ASSUME StoreInv, NEW p \in Procs, WritePending(p)
  PROVE  FileInv' /\ FileShapes'
<1> DEFINE all == Lines(accepted[p])
<1>1. /\ UNCHANGED <<journal, dedupe, snapshot, accepted>> /\ pc[p] = "pending"
      /\ pending' = [old |-> HeadOf(Events(journal)), new |-> HeadOf(Events(journal) \o accepted[p]),
                     append |-> accepted[p]]
      /\ pc' = [pc EXCEPT ![p] = "append"]
  BY DEF WritePending, Goto, call
<1>2. /\ journal \in Seq(FileLines) /\ accepted[p] \in Seq(LongEvents)
      /\ dedupe \in Seq(FileLines) /\ snapshot \in Heads
  BY DEF StoreInv, Shapes
<1>3. dedupe = journal /\ snapshot = HeadOf(Events(journal)) /\ Verifies(journal \o all)
  BY <1>1 DEF StoreInv, FileInv, Clean
<1>4. all \in Seq(FileLines) /\ Events(all) = accepted[p] /\ Events(journal) \in Seq(LongEvents)
  BY <1>2, LinesFacts, EventsOfLines, EventsFacts
<1> HIDE DEF all
<1>5. Events(journal \o all) = Events(journal) \o accepted[p]
  BY <1>2, <1>4, EventsOfConcat
<1>6. Events(journal \o all) \in Seq(LongEvents)
  BY <1>2, <1>4, ConcatFacts, EventsFacts
<1>7. /\ pending'.old = HeadOf(Events(journal)) /\ pending'.new = HeadOf(Events(journal \o all))
      /\ pending'.append = accepted[p]
  BY <1>1, <1>5
<1>8. pending' \in Transactions
  <2>1. HeadOf(Events(journal)) \in Heads /\ HeadOf(Events(journal) \o accepted[p]) \in Heads
    BY <1>4, <1>5, <1>6, HeadType
  <2> QED  BY <1>1, <1>2, <2>1 DEF Transactions
<1>9. pending' # NoPending
  BY <1>8, PendingAssumption
<1>10. <<>> \in Partials(pending'.append)
  BY <1>2, <1>7, PartialsFacts
<1>a. PICK base \in Seq(FileLines) : base = journal
  BY <1>2
<1>11. InFlight(base, <<>>, <<>>)'
  <2>1. base \o <<>> = base
    BY ConcatEmptySeq
  <2> QED  BY <1>1, <1>3, <1>7, <1>a, <2>1 DEF InFlight, all
<1>12. pc'[p] = "append" /\ \A q \in Procs \ {p} : pc'[q] \notin Holding
  BY <1>1, HolderMoves DEF Holding
<1>13. Progress(p, <<>>, <<>>)'
  BY <1>1, <1>3, <1>7, <1>12 DEF Progress
<1>14. FileInv'
  BY <1>9, <1>10, <1>11, <1>12, <1>13, FlightStep
<1> QED
  BY <1>1, <1>2, <1>8, <1>14 DEF FileShapes

(* Both files are given what the record says, and the checkpoint follows.  *)
LEMMA AppendFiles ==
  ASSUME StoreInv, NEW p \in Procs,
         BeginAppend(p) \/ EndAppend(p) \/ BeginIndex(p) \/ EndIndex(p) \/ Checkpoint(p)
  PROVE  FileInv' /\ FileShapes'
<1>1. pc[p] \in Writing \ {"unlink"} /\ pc[p] \in Holding /\ UNCHANGED <<pending, accepted>>
  BY DEF BeginAppend, EndAppend, BeginIndex, EndIndex, Checkpoint, Writing, Holding, call
<1>2. pending # NoPending
  BY <1>1 DEF StoreInv, FileInv
<1> DEFINE append == pending.append
           all == Lines(append)
<1>3. /\ pending \in Transactions /\ append \in Seq(LongEvents)
      /\ all \in Seq(FileLines) /\ <<>> \in Partials(append) /\ all \in Partials(append)
      /\ Partials(append) \subseteq Seq(FileLines)
  BY <1>2, UnderWay
<1>4. PICK base \in Seq(FileLines), tail \in Partials(append), index \in Partials(append) :
        InFlight(base, tail, index) /\ Progress(p, tail, index)
  BY <1>2, UnderWay
<1>5. /\ Truncate(journal) = base /\ Truncate(dedupe) = base
      /\ journal \in Seq(FileLines) /\ dedupe \in Seq(FileLines)
  BY <1>3, <1>4, InFlightFacts
<1>6. /\ journal = base \o tail /\ dedupe = base \o index
      /\ pending.old = HeadOf(Events(base)) /\ pending.new = HeadOf(Events(base \o all))
      /\ Verifies(base \o all)
  BY <1>4 DEF InFlight
<1>7. /\ append = accepted[p] /\ snapshot = pending.old
      /\ pc[p] = "append" => tail = <<>>
      /\ pc[p] \in {"append", "appending", "index"} => index = <<>>
      /\ pc[p] \in {"index", "indexing", "checkpoint"} => tail = all
      /\ pc[p] = "checkpoint" => index = all
  BY <1>1, <1>4 DEF Progress, Writing
<1>8. base \o <<>> = base
  BY ConcatEmptySeq
<1>9. pending.old \in Heads /\ pending.new \in Heads /\ snapshot \in Heads
  BY <1>3 DEF Transactions, StoreInv, Shapes
<1> HIDE DEF append, all
(* Whatever part of the batch a step leaves in the files is a part of it.  *)
<1>10. ASSUME NEW label \in Writing, pc' = [pc EXCEPT ![p] = label],
              NEW tail2 \in Partials(append), NEW index2 \in Partials(append),
              journal' = base \o tail2, dedupe' = base \o index2,
              snapshot' \in Heads,
              snapshot' = pending.old \/ (snapshot' = pending.new /\ tail2 = all /\ index2 = all),
              label = "append" => tail2 = <<>>,
              label \in {"append", "appending", "index"} => index2 = <<>>,
              label \in {"index", "indexing", "checkpoint", "unlink"} => tail2 = all,
              label \in {"checkpoint", "unlink"} => index2 = all,
              IF label = "unlink" THEN snapshot' = pending.new ELSE snapshot' = pending.old
       PROVE  FileInv' /\ FileShapes'
  <2>1. InFlight(base, tail2, index2)'
    BY <1>1, <1>6, <1>10 DEF InFlight, append, all
  <2>2. pc'[p] = label /\ \A q \in Procs \ {p} : pc'[q] \notin Holding
    BY <1>1, <1>10, HolderMoves
  <2>3. Progress(p, tail2, index2)'
    BY <1>1, <1>7, <1>10, <2>2 DEF Progress, append, all, Writing
  <2>4. /\ pending' # NoPending /\ pc'[p] \notin {"load", "pending"}
        /\ tail2 \in Partials(pending'.append) /\ index2 \in Partials(pending'.append)
    BY <1>1, <1>2, <2>2 DEF append, Writing
  <2>5. FileInv'
    BY <2>1, <2>2, <2>3, <2>4, FlightStep
  <2>6. journal' \in Seq(FileLines) /\ dedupe' \in Seq(FileLines)
    BY <1>3, <1>10, ConcatFacts
  <2> QED  BY <1>1, <1>3, <1>10, <2>5, <2>6 DEF FileShapes
<1>11. CASE BeginAppend(p)
  <2>1. /\ pc[p] = "append" /\ UNCHANGED <<dedupe, snapshot>> /\ pc' = [pc EXCEPT ![p] = "appending"]
        /\ \E lines \in Partials(append) : journal' = base \o lines
    BY <1>6, <1>7, <1>8, <1>11 DEF BeginAppend, Goto
  <2>2. PICK lines \in Partials(append) : journal' = base \o lines
    BY <2>1
  <2> QED  BY <1>3, <1>6, <1>7, <1>9, <1>10, <2>1, <2>2 DEF Writing
<1>12. CASE EndAppend(p)
  <2>1. /\ pc[p] = "appending" /\ UNCHANGED <<dedupe, snapshot>> /\ pc' = [pc EXCEPT ![p] = "index"]
        /\ journal' = base \o all
    BY <1>5, <1>7, <1>12 DEF EndAppend, Goto, all
  <2> QED  BY <1>3, <1>6, <1>7, <1>9, <1>10, <2>1 DEF Writing
<1>13. CASE BeginIndex(p)
  <2>1. /\ pc[p] = "index" /\ UNCHANGED <<journal, snapshot>> /\ pc' = [pc EXCEPT ![p] = "indexing"]
        /\ \E lines \in Partials(append) : dedupe' = base \o lines
    BY <1>6, <1>7, <1>8, <1>13 DEF BeginIndex, Goto
  <2>2. PICK lines \in Partials(append) : dedupe' = base \o lines
    BY <2>1
  <2> QED  BY <1>3, <1>6, <1>7, <1>9, <1>10, <2>1, <2>2 DEF Writing
<1>14. CASE EndIndex(p)
  <2>1. /\ pc[p] = "indexing" /\ UNCHANGED <<journal, snapshot>>
        /\ pc' = [pc EXCEPT ![p] = "checkpoint"] /\ dedupe' = base \o all
    BY <1>5, <1>7, <1>14 DEF EndIndex, Goto, all
  <2> QED  BY <1>3, <1>6, <1>7, <1>9, <1>10, <2>1 DEF Writing
<1>15. CASE Checkpoint(p)
  <2>1. /\ pc[p] = "checkpoint" /\ UNCHANGED <<journal, dedupe>>
        /\ pc' = [pc EXCEPT ![p] = "unlink"] /\ snapshot' = pending.new
    BY <1>15 DEF Checkpoint, Goto
  <2> QED  BY <1>3, <1>6, <1>7, <1>9, <1>10, <2>1 DEF Writing
<1> QED
  BY <1>11, <1>12, <1>13, <1>14, <1>15

LEMMA UnlinkFiles ==
  ASSUME StoreInv, NEW p \in Procs, UnlinkPending(p)
  PROVE  FileInv' /\ FileShapes'
<1>1. /\ pc[p] = "unlink" /\ UNCHANGED <<journal, dedupe, snapshot>> /\ pending' = NoPending
      /\ pc' = [pc EXCEPT ![p] = "acked"]
  BY DEF UnlinkPending, Goto
<1>2. pending # NoPending
  BY <1>1 DEF StoreInv, FileInv, Writing
<1>3. PICK base \in Seq(FileLines), tail \in Partials(pending.append), index \in Partials(pending.append) :
        InFlight(base, tail, index) /\ Progress(p, tail, index)
  BY <1>2, UnderWay
<1>4. tail = Lines(pending.append) /\ index = Lines(pending.append) /\ snapshot = pending.new
  BY <1>1, <1>3 DEF Progress
<1>5. Clean'
  BY <1>1, <1>3, <1>4 DEF InFlight, Clean
<1>6. pc'[p] = "acked" /\ \A q \in Procs \ {p} : pc'[q] \notin Holding
  BY <1>1, HolderMoves DEF Holding, Writing
<1>7. FileInv'
  BY <1>1, <1>5, <1>6, CleanStep DEF Writing
<1> QED
  BY <1>1, <1>7 DEF FileShapes, StoreInv, Shapes

QuietLabels == {"idle", "journal", "snapshot", "rolled_back", "open", "stat", "read", "takeover",
                "pid", "recover", "release", "dead"}

(* Where the steps that leave the files alone lead.                        *)
LEMMA QuietMoves ==
  ASSUME NEW p \in Procs,
         \/ Start(p) \/ ReadJournal(p) \/ ReadSnapshot(p) \/ FailLoad(p) \/ Acquire(p)
         \/ Reject(p) \/ Release(p) \/ Crash(p)
  PROVE  \E label \in QuietLabels :
           pc' = [pc EXCEPT ![p] = label]
<1> USE DEF Goto, QuietLabels
<1>1. CASE Start(p)
  BY <1>1 DEF Start
<1>2. CASE ReadJournal(p)
  BY <1>2 DEF ReadJournal
<1>3. CASE ReadSnapshot(p)
  BY <1>3 DEF ReadSnapshot
<1>4. CASE FailLoad(p) \/ Reject(p) \/ Crash(p)
  BY <1>4 DEF FailLoad, Reject, Crash
<1>5. CASE Acquire(p)
  BY <1>5, AcquireFacts
<1>6. CASE Release(p)
  BY <1>6 DEF Release
<1> QED
  BY <1>1, <1>2, <1>3, <1>4, <1>5, <1>6

LEMMA FileStep ==
  ASSUME StoreInv, [Next]_vars
  PROVE  FileInv' /\ FileShapes'
<1>1. Shapes /\ LockInv /\ FileInv
  BY DEF StoreInv
<1>2. ASSUME NEW p \in Procs,
             \/ Start(p) \/ ReadJournal(p) \/ ReadSnapshot(p) \/ FailLoad(p) \/ Acquire(p)
             \/ Reject(p) \/ Release(p) \/ Crash(p)
      PROVE  FileInv' /\ FileShapes'
  <2>1. UNCHANGED files /\ \A q \in Procs \ {p} : accepted'[q] = accepted[q]
    BY <1>1, <1>2, AcquireFacts DEF Start, ReadJournal, ReadSnapshot, FailLoad, Reject, Release,
         Crash, call, Shapes
  <2>2. \E label \in QuietLabels :
          pc' = [pc EXCEPT ![p] = label]
    BY <1>2, QuietMoves
  <2>3. \E label : /\ pc' = [pc EXCEPT ![p] = label]
                   /\ label \notin Writing \cup {"recovered", "load", "pending"}
    BY <2>2 DEF Writing, QuietLabels
  <2> QED  BY <1>1, <2>1, <2>3, QuietStep
<1>3. ASSUME NEW p \in Procs, Load(p) PROVE FileInv' /\ FileShapes'
  <2> DEFINE events == Envelopes(Fresh(p), ReceivedAt(p))
  <2>1. /\ UNCHANGED files /\ accepted' = [accepted EXCEPT ![p] = events]
        /\ pc[p] = "load" /\ LoadSucceeds /\ Acceptable(p)
    BY <1>3 DEF Load
  <2> HIDE DEF events
  <2>2. accepted'[p] = events /\ \A q \in Procs \ {p} : accepted'[q] = accepted[q]
    BY <1>1, <2>1 DEF Shapes
  <2>3. CASE pc' = [pc EXCEPT ![p] = "acked"]
    BY <1>1, <2>1, <2>2, <2>3, QuietStep DEF Writing
  <2>4. CASE pc' = [pc EXCEPT ![p] = "pending"]
    <3>1. pc'[p] = "pending" /\ \A q \in Procs \ {p} : pc'[q] \notin Holding
      BY <2>1, <2>4, HolderMoves DEF Holding
    <3>2. UNCHANGED <<journal, dedupe, pending, snapshot>>
      BY <2>1 DEF files
    <3>3. Clean
      BY <1>1, <2>1 DEF FileInv
    <3>4. Clean'
      BY <3>2, <3>3 DEF Clean
    <3>5. Verifies(journal' \o Lines(accepted'[p]))
      BY <1>1, <2>1, <2>2, <3>2, LoadExtends DEF LoadSucceeds, events
    <3>6. \A q \in Procs : pc'[q] \notin Writing \cup {"recovered"}
      BY <3>1 DEF Holding, Writing
    <3>7. ASSUME pending' # NoPending
          PROVE  \E base \in Seq(FileLines) : \E tail, index \in Partials(pending'.append) :
                   InFlight(base, tail, index)' /\ \A q \in Procs : Progress(q, tail, index)'
      <4>1. PICK base \in Seq(FileLines), tail \in Partials(pending.append), index \in Partials(pending.append) :
              InFlight(base, tail, index)
        BY <3>2, <3>7, UnderWay
      <4>2. InFlight(base, tail, index)'
        BY <3>2, <4>1 DEF InFlight
      <4>3. \A q \in Procs : Progress(q, tail, index)'
        BY <3>6 DEF Progress, Writing
      <4> QED  BY <3>2, <4>1, <4>2, <4>3
    <3>8. \A q \in Procs : pc'[q] = "pending" => q = p
      BY <3>1 DEF Holding
    <3>9. FileInv'
      BY <3>4, <3>5, <3>6, <3>7, <3>8 DEF FileInv
    <3> QED  BY <1>1, <3>2, <3>9 DEF FileShapes, Shapes
  <2> QED  BY <1>3, <2>3, <2>4 DEF Load, Goto
<1>4. ASSUME NEW p \in Procs, WriteFails(p) PROVE FileInv' /\ FileShapes'
  <2>1. UNCHANGED files /\ UNCHANGED accepted
    BY <1>4 DEF WriteFails, call
  <2>2. CASE \E label \in {"release", "acked"} : pc' = [pc EXCEPT ![p] = label]
    BY <1>1, <2>1, <2>2, QuietStep DEF Writing
  <2>3. CASE pc[p] = "recovered" /\ pc' = [pc EXCEPT ![p] = "load"]
    <3>1. pc'[p] = "load" /\ \A q \in Procs \ {p} : pc'[q] \notin Holding
      BY <2>3, HolderMoves DEF Holding
    <3>2. UNCHANGED <<journal, dedupe, pending, snapshot>>
      BY <2>1 DEF files
    <3>3. pending # NoPending
      BY <1>1, <2>3 DEF FileInv
    <3>4. PICK base \in Seq(FileLines), tail \in Partials(pending.append), index \in Partials(pending.append) :
            InFlight(base, tail, index) /\ Progress(p, tail, index)
      BY <3>3, UnderWay
    <3>5. Clean
      BY <2>3, <3>4 DEF Progress
    <3>6. Clean'
      BY <3>2, <3>5 DEF Clean
    <3>7. InFlight(base, tail, index)'
      BY <3>2, <3>4 DEF InFlight
    <3>8. \A q \in Procs : pc'[q] \notin Writing \cup {"recovered", "pending"}
      BY <3>1 DEF Holding, Writing
    <3>9. \A q \in Procs : Progress(q, tail, index)'
      BY <3>8 DEF Progress, Writing
    <3>10. FileInv'
      BY <3>2, <3>3, <3>4, <3>6, <3>7, <3>8, <3>9 DEF FileInv
    <3> QED  BY <1>1, <3>2, <3>10 DEF FileShapes, Shapes
  <2> QED  BY <1>4, <2>2, <2>3 DEF WriteFails, Goto
<1>5. CASE Tick \/ LockAges \/ UNCHANGED vars
  <2>1. UNCHANGED <<journal, dedupe, pending, snapshot, pc, accepted>>
    BY <1>5 DEF Tick, LockAges, vars, files, call
  <2>2. UNCHANGED <<Clean, Truncate(journal)>>
    BY <2>1 DEF Clean, Truncate
  <2>3. ASSUME NEW q \in Procs, NEW tail, NEW index PROVE Progress(q, tail, index)' = Progress(q, tail, index)
    BY <2>1, <2>2 DEF Progress
  <2>4. ASSUME NEW base, NEW tail, NEW index PROVE InFlight(base, tail, index)' = InFlight(base, tail, index)
    BY <2>1 DEF InFlight
  <2>5. FileInv'
    BY <1>1, <2>1, <2>2, <2>3, <2>4 DEF FileInv
  <2> QED  BY <1>1, <2>1, <2>5 DEF FileShapes, Shapes
<1> QED
  BY <1>2, <1>3, <1>4, <1>5, RecoveryFiles, WritePendingFiles, AppendFiles, UnlinkFiles
     DEF Next, Step

LEMMA InvStep ==
  ASSUME StoreInv, OneRecovers, OneRecovers', [Next]_vars
  PROVE  StoreInv'
<1>1. LockInv' /\ CallShapes' /\ FileInv' /\ FileShapes'
  BY LockStep, CallStep, FileStep DEF StoreInv
<1> QED
  BY <1>1 DEF StoreInv, Shapes, CallShapes, FileShapes

(* Deaths and locks left behind are counted, and nothing counts back.      *)
Counts == crashes \in Nat /\ lock_errors \in Nat

LEMMA CountsGrow ==
  ASSUME Counts, [Next]_vars
  PROVE  Counts' /\ (OneRecovers' => OneRecovers)
<1> USE DEF Counts, bounds
<1>1. ASSUME NEW p \in Procs, Step(p) \/ Start(p) \/ Crash(p)
      PROVE  /\ crashes' \in Nat /\ lock_errors' \in Nat /\ scene' = scene
             /\ (crashes' = 0 => crashes = 0) /\ (lock_errors' = 0 => lock_errors = 0)
  <2>1. CASE Acquire(p)
    <3>1. lock_errors' = lock_errors \/ lock_errors' = lock_errors + 1
      BY <2>1 DEF Acquire, OpenLock, WritePid, WritePidFails, StatLock, ReadLock, TakeOver
    <3> QED  BY <2>1, <3>1, AcquireFacts
  <2>2. CASE Start(p) \/ ReadJournal(p) \/ ReadSnapshot(p) \/ FailLoad(p) \/ Release(p) \/ WriteFails(p)
    <3>1. UNCHANGED <<scene, crashes, lock_errors>>
      BY <2>2 DEF Start, ReadJournal, ReadSnapshot, FailLoad, Release, WriteFails
    <3> QED  BY <3>1
  <2>3. CASE \/ Recovery(p) \/ Load(p) \/ Reject(p) \/ WritePending(p)
             \/ BeginAppend(p) \/ EndAppend(p) \/ BeginIndex(p) \/ EndIndex(p)
             \/ Checkpoint(p) \/ UnlinkPending(p)
    <3>1. UNCHANGED <<scene, crashes, lock_errors>>
      BY <2>3 DEF Recovery, NothingPending, TruncateJournal, TruncateDedupe, RestoreSnapshot,
           DropPending, Load, Reject, WritePending, BeginAppend, EndAppend, BeginIndex, EndIndex,
           Checkpoint, UnlinkPending
    <3> QED  BY <3>1
  <2>4. CASE Crash(p)
    <3>1. UNCHANGED <<scene, lock_errors>> /\ crashes' = crashes + 1
      BY <2>4 DEF Crash
    <3> QED  BY <3>1
  <2> QED  BY <1>1, <2>1, <2>2, <2>3, <2>4 DEF Step
<1>2. /\ crashes' \in Nat /\ lock_errors' \in Nat /\ scene' = scene
      /\ (crashes' = 0 => crashes = 0) /\ (lock_errors' = 0 => lock_errors = 0)
  <2>1. CASE \E p \in Procs : Step(p) \/ Start(p) \/ Crash(p)
    BY <1>1, <2>1
  <2>2. CASE Tick \/ LockAges \/ UNCHANGED vars
    BY <2>2 DEF Tick, LockAges, vars
  <2> QED  BY <2>1, <2>2 DEF Next
<1> QED
  BY <1>2 DEF OneRecovers, OneLocker, TwoLockers, Lockers

LEMMA StoreInvariant == Spec => [](OneRecovers => StoreInv)
<1> DEFINE Inv == Counts /\ (OneRecovers => StoreInv)
<1>1. Init => Inv
  BY InitInv DEF Init, Counts
<1>2. Inv /\ [Next]_vars => Inv'
  BY InvStep, CountsGrow
<1> QED
  BY <1>1, <1>2, PTL DEF Spec

-----------------------------------------------------------------------------
(* What the invariant gives.                                               *)

(* Mutual exclusion (store.ts:173-191): for any number of processes until  *)
(* one dies or fails to write its pid, with two also while one recovers    *)
(* the lock of the other, and on its own whatever it has left behind.      *)
THEOREM LockExcludes == Spec => [](OneRecovers => OneHolder)
<1>1. StoreInv => OneHolder
  BY DEF StoreInv, LockInv, OneHolder
<1> QED
  BY <1>1, StoreInvariant, PTL

(* Whoever has recovered under the lock finds a store that loads           *)
(* (store.ts:139-160, 198-205), however the processes before it died.      *)
THEOREM RecoveryLeavesALoadableStore == Spec => [](OneRecovers => RecoveredStoreLoads)
<1>1. StoreInv => RecoveredStoreLoads
  <2> SUFFICES ASSUME StoreInv, NEW p \in Procs, pc[p] = "load"
               PROVE  LoadSucceeds
    BY DEF RecoveredStoreLoads
  <2>1. Clean /\ journal \in Seq(FileLines)
    BY DEF StoreInv, FileInv, Shapes
  <2>2. \A i \in DOMAIN journal : journal[i].whole
    BY <2>1 DEF Clean, Verifies
  <2>3. CheckpointMatches(Events(journal))
    <3>1. <<>> \in Seq(FileLines)
      OBVIOUS
    <3> QED  BY <2>1, <3>1, HeadMatches DEF Clean
  <2> QED  BY <2>1, <2>2, <2>3 DEF Clean, LoadSucceeds, DedupeMatches
<1> QED
  BY <1>1, StoreInvariant, PTL

(* The checkpoint never runs ahead of what recovery keeps (store.ts:109,   *)
(* 153-158, 250-257).                                                      *)
THEOREM CheckpointNeverAhead == Spec => [](OneRecovers => CheckpointIsDurable)
<1>1. StoreInv => CheckpointIsDurable
  <2> SUFFICES ASSUME StoreInv PROVE CheckpointMatches(Events(Durable))
    BY DEF CheckpointIsDurable
  <2>1. CASE pending = NoPending
    <3>1. Clean /\ journal \in Seq(FileLines) /\ Durable = journal /\ <<>> \in Seq(FileLines)
      BY <2>1 DEF StoreInv, FileInv, Shapes, Durable
    <3> QED  BY <3>1, HeadMatches DEF Clean
  <2>2. CASE pending # NoPending
    <3>1. PICK base \in Seq(FileLines), tail \in Partials(pending.append), index \in Partials(pending.append) :
            InFlight(base, tail, index)
      BY <2>2, UnderWay
    <3>2. pending.append \in Seq(LongEvents) /\ Lines(pending.append) \in Seq(FileLines)
      BY <2>2, UnderWay
    <3>3. /\ Truncate(journal) = base
          /\ Complete <=> tail = Lines(pending.append) /\ index = Lines(pending.append)
          /\ tail \in Seq(FileLines)
      BY <3>1, <3>2, InFlightFacts
    <3>4. Durable = IF Complete THEN base \o Lines(pending.append) ELSE base
      BY <2>2, <3>1, <3>3 DEF Durable, InFlight
    <3>5. CASE snapshot = HeadOf(Events(base))
      BY <3>2, <3>4, <3>5, HeadMatches
    <3>6. CASE snapshot = HeadOf(Events(base \o Lines(pending.append))) /\ Complete
      <4>1. base \o Lines(pending.append) \in Seq(FileLines) /\ <<>> \in Seq(FileLines)
        BY <3>2, ConcatFacts
      <4> QED  BY <3>4, <3>6, <4>1, HeadMatches
    <3> QED  BY <3>1, <3>3, <3>5, <3>6 DEF InFlight
  <2> QED  BY <2>1, <2>2
<1> QED
  BY <1>1, StoreInvariant, PTL

-----------------------------------------------------------------------------
(* The types.                                                              *)

(* Lines that verify have as many keys as they are.                        *)
LEMMA KeysBound ==
  ASSUME NEW lines \in Seq(FileLines), Verifies(lines)
  PROVE  Len(lines) <= Cardinality(Keys) /\ Cardinality(Keys) \in Nat
<1> DEFINE S == 1..Len(lines)
           f == [i \in S |-> lines[i].event.key]
<1>1. IsFiniteSet(Keys) /\ Cardinality(Keys) \in Nat
  BY KeysAssumption, FS_CardinalityType
<1>2. Len(lines) \in Nat /\ Cardinality(S) = Len(lines)
  <2>1. Len(lines) \in Nat
    OBVIOUS
  <2> DEFINE n == Len(lines)
  <2>2. n \in Nat
    BY <2>1
  <2> HIDE DEF n
  <2>3. 1 \in Int /\ n \in Int
    BY <2>2
  <2>4. Cardinality(1..n) = IF 1 > n THEN 0 ELSE n - 1 + 1
    BY <2>3, FS_Interval
  <2>5. Cardinality(1..n) = n
    BY <2>2, <2>4
  <2> QED  BY <2>1, <2>5 DEF n
<1>3. \A i \in S : lines[i].event.key \in Keys
  <2>1. \A i \in S : lines[i] \in FileLines
    OBVIOUS
  <2> QED  BY <2>1 DEF FileLines, LongEvents
<1>4. \A i, j \in S : f[i] = f[j] => i = j
  <2> SUFFICES ASSUME NEW i \in S, NEW j \in S, i # j PROVE f[i] # f[j]
    OBVIOUS
  <2>1. Follows(lines, i) /\ Follows(lines, j)
    BY VerifiesFollows
  <2>2. i \in 1..(j - 1) \/ j \in 1..(i - 1)
    OBVIOUS
  <2> QED  BY <2>1, <2>2 DEF Follows
<1>5. f \in Injection(S, Keys)
  BY <1>3, <1>4 DEF Injection, IsInjective
<1> HIDE DEF S, f
<1>6. Cardinality(S) <= Cardinality(Keys)
  BY <1>1, <1>5, FS_Injection
<1> QED
  BY <1>1, <1>2, <1>6

(* The files have no more lines than there are keys: what a transaction    *)
(* appends is bounded with its base.                                       *)
THEOREM StoreTypeOK == Spec => [](OneRecovers => TypeOK)
<1>1. StoreInv => TypeOK
  <2> SUFFICES ASSUME StoreInv PROVE TypeOK
    OBVIOUS
  <2>1. Shapes
    BY DEF StoreInv
  <2>2. CASE pending = NoPending
    <3>1. dedupe = journal /\ Verifies(journal)
      BY <2>2 DEF StoreInv, FileInv, Clean
    <3>2. Len(journal) <= Cardinality(Keys)
      BY <2>1, <3>1, KeysBound DEF Shapes
    <3> QED  BY <2>1, <3>1, <3>2 DEF Shapes, TypeOK
  <2>3. CASE pending # NoPending
    <3>1. PICK append \in Seq(LongEvents) : append = pending.append
      BY <2>3, UnderWay
    <3>2. PICK base \in Seq(FileLines), tail \in Partials(append), index \in Partials(append) :
            InFlight(base, tail, index)
      BY <2>3, <3>1, UnderWay
    <3>3. PICK all \in Seq(FileLines) : all = Lines(append) /\ Len(all) = Len(append)
      BY LinesFacts
    <3>4. /\ journal = base \o tail /\ dedupe = base \o index /\ Verifies(base \o all)
      BY <3>1, <3>2, <3>3 DEF InFlight
    <3>5. /\ tail \in Seq(FileLines) /\ Len(tail) <= Len(append)
          /\ index \in Seq(FileLines) /\ Len(index) <= Len(append)
      BY PartialsFacts
    <3>6. base \o all \in Seq(FileLines) /\ Len(base \o all) = Len(base) + Len(all)
      OBVIOUS
    <3>7. Len(base) + Len(all) <= Cardinality(Keys) /\ Cardinality(Keys) \in Nat
      BY <3>4, <3>6, KeysBound
    <3>8. ASSUME NEW part \in Seq(FileLines), Len(part) <= Len(append)
          PROVE  Len(base \o part) <= Cardinality(Keys)
      <4>1. Len(base \o part) = Len(base) + Len(part)
        OBVIOUS
      <4> QED  BY <3>3, <3>7, <3>8, <4>1
    <3> QED  BY <2>1, <3>4, <3>5, <3>8 DEF Shapes, TypeOK
  <2> QED  BY <2>2, <2>3
<1> QED
  BY <1>1, StoreInvariant, PTL

-----------------------------------------------------------------------------
(* What counts as logged.                                                  *)

(* The journal that recovery would make of these files and this record.    *)
Kept(journal_lines, dedupe_lines, append, n) ==
  LET Suffix(lines) == SubSeq(lines, n + 1, Len(lines))
  IN  IF Suffix(journal_lines) = Lines(append) /\ Suffix(dedupe_lines) = Lines(append)
      THEN journal_lines ELSE SubSeq(journal_lines, 1, n)

LEMMA KeptFacts ==
  ASSUME NEW base \in Seq(FileLines), NEW tail \in Seq(FileLines), NEW index \in Seq(FileLines),
         NEW append \in Seq(LongEvents)
  PROVE  Kept(base \o tail, base \o index, append, Len(base)) =
           IF tail = Lines(append) /\ index = Lines(append) THEN base \o Lines(append) ELSE base
<1>1. /\ SubSeq(base \o tail, 1, Len(base)) = base
      /\ SubSeq(base \o tail, Len(base) + 1, Len(base \o tail)) = tail
      /\ SubSeq(base \o index, Len(base) + 1, Len(base \o index)) = index
  BY CutOfConcat
<1> QED
  BY <1>1 DEF Kept

LEMMA DurableIsKept ==
  /\ Durable = IF pending = NoPending THEN journal
               ELSE Kept(journal, dedupe, pending.append, pending.old.sequence)
  /\ Durable' = IF pending' = NoPending THEN journal'
                ELSE Kept(journal', dedupe', pending'.append, pending'.old.sequence)
BY DEF Durable, Complete, Truncate, Kept

(* Where the three files agree, the journal counts as it stands.           *)
LEMMA CleanIsDurable ==
  ASSUME StoreInv, Clean
  PROVE  Durable = journal
<1>1. CASE pending = NoPending
  BY <1>1, DurableIsKept
<1>2. CASE pending # NoPending
  <2>1. PICK base \in Seq(FileLines), tail \in Partials(pending.append), index \in Partials(pending.append) :
          InFlight(base, tail, index)
    BY <1>2, UnderWay
  <2> DEFINE append == pending.append
             all == Lines(append)
  <2>2. append \in Seq(LongEvents) /\ all \in Seq(FileLines)
        /\ tail \in Seq(FileLines) /\ index \in Seq(FileLines)
    BY <1>2, <2>1, UnderWay
  <2>3. /\ journal = base \o tail /\ dedupe = base \o index
        /\ pending.old = HeadOf(Events(base))
        /\ snapshot = pending.old \/ (tail = all /\ index = all)
    BY <2>1 DEF InFlight
  <2> HIDE DEF append, all
  <2>4. pending.old.sequence = Len(base)
    BY <2>3, HeadOfLines
  <2>5. Durable = IF tail = all /\ index = all THEN base \o all ELSE base
    <3>1. Kept(base \o tail, base \o index, append, Len(base)) =
            IF tail = all /\ index = all THEN base \o all ELSE base
      BY <2>2, KeptFacts DEF all
    <3> QED  BY <1>2, <2>3, <2>4, <3>1, DurableIsKept DEF append
  <2>6. CASE snapshot = pending.old
    <3>1. snapshot.sequence = Len(journal) /\ journal \in Seq(FileLines)
      BY HeadOfLines DEF Clean, StoreInv, Shapes
    <3>2. Len(base \o tail) = Len(base) + Len(tail) /\ Len(tail) \in Nat /\ Len(base) \in Nat
      BY <2>2, ConcatFacts
    <3>3. Len(tail) = 0
      BY <2>3, <2>4, <2>6, <3>1, <3>2
    <3>4. tail = <<>>
      BY <2>2, <3>3, EmptySeq
    <3>5. base \o <<>> = base
      BY ConcatEmptySeq
    <3> QED  BY <2>3, <2>5, <3>4, <3>5
  <2>7. CASE tail = all /\ index = all
    BY <2>3, <2>5, <2>7
  <2> QED  BY <2>3, <2>6, <2>7
<1> QED
  BY <1>1, <1>2

(* Only writing the index changes what counts, and then by the batch.      *)
LEMMA DurableRecovery ==
  ASSUME StoreInv, NEW p \in Procs, Recovery(p)
  PROVE  Durable' = Durable
<1>1. CASE NothingPending(p) \/ RestoreSnapshot(p)
  BY <1>1, DurableIsKept DEF NothingPending, RestoreSnapshot, files
<1>2. CASE DropPending(p)
  <2>1. pending' = NoPending /\ journal' = journal /\ pc[p] = "recovered"
    BY <1>2 DEF DropPending
  <2>2. pending # NoPending
    BY <2>1 DEF StoreInv, FileInv
  <2>3. Clean
    BY <2>1, <2>2, UnderWay DEF Progress
  <2> QED  BY <2>1, <2>3, CleanIsDurable, DurableIsKept
<1>3. CASE TruncateJournal(p) \/ TruncateDedupe(p)
  <2>1. pending # NoPending /\ pending' = pending /\ ~Complete
    BY <1>3 DEF TruncateJournal, TruncateDedupe
  <2>2. PICK base \in Seq(FileLines), tail \in Partials(pending.append), index \in Partials(pending.append) :
          InFlight(base, tail, index)
    BY <2>1, UnderWay
  <2> DEFINE append == pending.append
             all == Lines(append)
  <2>3. /\ append \in Seq(LongEvents) /\ all \in Seq(FileLines) /\ <<>> \in Seq(FileLines)
        /\ tail \in Seq(FileLines) /\ index \in Seq(FileLines)
    BY <2>1, <2>2, UnderWay
  <2>4. /\ journal = base \o tail /\ dedupe = base \o index
        /\ pending.old = HeadOf(Events(base))
    BY <2>2 DEF InFlight
  <2>5. pending.old.sequence = Len(base)
    BY <2>4, HeadOfLines
  <2>6. Truncate(journal) = base /\ Truncate(dedupe) = base /\ ~(tail = all /\ index = all)
    BY <2>1, <2>2, <2>3, InFlightFacts
  <2> HIDE DEF append, all
  <2>7. base \o <<>> = base
    BY ConcatEmptySeq
  <2>8. Durable = base
    BY <2>1, <2>3, <2>4, <2>5, <2>6, DurableIsKept, KeptFacts DEF append, all
  <2>9. CASE TruncateJournal(p)
    <3>1. journal' = base \o <<>> /\ dedupe' = base \o index
      BY <2>4, <2>6, <2>7, <2>9 DEF TruncateJournal
    <3>2. Kept(base \o <<>>, base \o index, append, Len(base)) = base
      BY <2>3, <2>7, KeptFacts DEF all
    <3> QED  BY <2>1, <2>5, <2>8, <3>1, <3>2, DurableIsKept DEF append
  <2>10. CASE TruncateDedupe(p)
    <3>1. journal' = base \o tail /\ dedupe' = base \o <<>>
      BY <2>4, <2>6, <2>7, <2>10 DEF TruncateDedupe
    <3>2. Kept(base \o tail, base \o <<>>, append, Len(base)) = base
      <4>1. Kept(base \o tail, base \o <<>>, append, Len(base)) =
              IF tail = all /\ <<>> = all THEN base \o all ELSE base
        BY <2>3, KeptFacts DEF all
      <4> QED  BY <2>7, <4>1
    <3> QED  BY <2>1, <2>5, <2>8, <3>1, <3>2, DurableIsKept DEF append
  <2> QED  BY <1>3, <2>9, <2>10
<1> QED
  BY <1>1, <1>2, <1>3 DEF Recovery

LEMMA DurableIngest ==
  ASSUME StoreInv, NEW p \in Procs
  PROVE  /\ WritePending(p) \/ BeginAppend(p) \/ EndAppend(p) \/ Checkpoint(p) => Durable' = Durable
         /\ BeginIndex(p) => Durable' = IF Complete' THEN Durable \o Lines(accepted[p]) ELSE Durable
         /\ EndIndex(p) => Durable' = IF Complete THEN Durable ELSE Durable \o Lines(accepted[p])
         /\ UnlinkPending(p) => Durable' = Durable /\ Durable' = journal'
         /\ pc[p] \in {"checkpoint", "unlink"} => Durable = journal
<1>1. ASSUME WritePending(p) PROVE Durable' = Durable
  <2>1. /\ UNCHANGED <<journal, dedupe>> /\ pc[p] = "pending" /\ pc' = [pc EXCEPT ![p] = "append"]
        /\ pending'.append = accepted[p] /\ pending'.old = HeadOf(Events(journal))
    BY <1>1 DEF WritePending, Goto
  <2>2. PICK base \in Seq(FileLines) : base = journal
    BY DEF StoreInv, Shapes
  <2>3. /\ accepted[p] \in Seq(LongEvents) /\ Clean /\ <<>> \in Seq(FileLines)
        /\ base \o <<>> = base
    BY <2>1, <2>2, ConcatEmptySeq DEF StoreInv, FileInv, Shapes
  <2>4. pending'.old.sequence = Len(base)
    BY <2>1, <2>2, HeadOfLines
  <2>5. Kept(base \o <<>>, base \o <<>>, accepted[p], Len(base)) = base
    BY <2>3, KeptFacts
  <2>6. journal' = base /\ dedupe' = base /\ Durable = base
    BY <2>1, <2>2, <2>3, CleanIsDurable DEF Clean
  <2> QED  BY <2>1, <2>3, <2>4, <2>5, <2>6, DurableIsKept
<1>2. ASSUME pc[p] \in Writing
      PROVE  /\ BeginAppend(p) \/ EndAppend(p) \/ Checkpoint(p) => Durable' = Durable
             /\ BeginIndex(p) =>
                  Durable' = IF Complete' THEN Durable \o Lines(accepted[p]) ELSE Durable
             /\ EndIndex(p) => Durable' = IF Complete THEN Durable ELSE Durable \o Lines(accepted[p])
             /\ UnlinkPending(p) => Durable' = Durable /\ Durable' = journal'
             /\ pc[p] \in {"checkpoint", "unlink"} => Durable = journal
  <2>1. pending # NoPending
    BY <1>2 DEF StoreInv, FileInv
  <2>2. PICK base \in Seq(FileLines), tail \in Partials(pending.append), index \in Partials(pending.append) :
          InFlight(base, tail, index) /\ Progress(p, tail, index)
    BY <2>1, UnderWay
  <2> DEFINE append == pending.append
             all == Lines(append)
             Logs(j, d) == Kept(base \o j, base \o d, append, Len(base))
  <2>3. /\ append \in Seq(LongEvents) /\ all \in Seq(FileLines) /\ <<>> \in Seq(FileLines)
        /\ tail \in Seq(FileLines) /\ index \in Seq(FileLines)
        /\ Partials(append) \subseteq Seq(FileLines)
    BY <2>1, <2>2, UnderWay
  <2>4. /\ journal = base \o tail /\ dedupe = base \o index
        /\ pending.old = HeadOf(Events(base))
    BY <2>2 DEF InFlight
  <2>5. pending.old.sequence = Len(base)
    BY <2>4, HeadOfLines
  <2>6. /\ append = accepted[p]
        /\ pc[p] = "append" => tail = <<>>
        /\ pc[p] \in {"append", "appending", "index"} => index = <<>>
        /\ pc[p] \in {"index", "indexing", "checkpoint", "unlink"} => tail = all
        /\ pc[p] \in {"checkpoint", "unlink"} => index = all
    BY <1>2, <2>2 DEF Progress
  <2>7. Truncate(journal) = base /\ Truncate(dedupe) = base /\ (Complete <=> tail = all /\ index = all)
    BY <2>2, <2>3, InFlightFacts
  <2>8. \A j, d \in Seq(FileLines) : Logs(j, d) = IF j = all /\ d = all THEN base \o all ELSE base
    BY <2>3, KeptFacts
  <2>9. base \o <<>> = base
    BY ConcatEmptySeq
  <2>10. Durable = Logs(tail, index)
    BY <2>1, <2>4, <2>5, DurableIsKept
  <2>11. ASSUME NEW j, NEW d, pending' = pending, journal' = base \o j, dedupe' = base \o d
         PROVE  Durable' = Logs(j, d)
    BY <2>1, <2>5, <2>11, DurableIsKept
  <2> HIDE DEF append, all, Logs
  <2>12. ASSUME BeginAppend(p) PROVE Durable' = Durable
    <3>1. /\ pc[p] = "append" /\ pending' = pending /\ dedupe' = dedupe
          /\ journal' \in {journal \o lines : lines \in Partials(accepted[p])}
      BY <2>12 DEF BeginAppend
    <3>2. PICK part \in Partials(append) : journal' = journal \o part
      BY <2>6, <3>1
    <3>3. journal' = base \o part /\ dedupe' = base \o index /\ index = <<>> /\ tail = <<>>
      BY <2>4, <2>6, <2>9, <3>1, <3>2
    <3>4. Durable' = Logs(part, index)
      BY <2>11, <3>1, <3>3
    <3>5. part \in Seq(FileLines)
      BY <2>3, <3>2
    <3>6. Logs(part, index) = base /\ Logs(tail, index) = base
      BY <2>3, <2>8, <2>9, <3>3, <3>5
    <3> QED  BY <2>10, <3>4, <3>6
  <2>13. ASSUME EndAppend(p) PROVE Durable' = Durable
    <3>1. /\ pc[p] = "appending" /\ pending' = pending /\ dedupe' = base \o index
          /\ journal' = base \o all
      BY <2>4, <2>6, <2>7, <2>13 DEF EndAppend, all
    <3>2. Durable' = Logs(all, index)
      BY <2>11, <3>1
    <3>3. Logs(all, index) = base /\ Logs(tail, index) = base
      BY <2>3, <2>6, <2>8, <2>9, <3>1
    <3> QED  BY <2>10, <3>2, <3>3
  <2>14. ASSUME Checkpoint(p) PROVE Durable' = Durable
    BY <2>14, DurableIsKept DEF Checkpoint
  <2>15. ASSUME BeginIndex(p)
         PROVE  Durable' = IF Complete' THEN Durable \o Lines(accepted[p]) ELSE Durable
    <3>1. /\ pc[p] = "index" /\ pending' = pending /\ journal' = journal
          /\ dedupe' \in {dedupe \o lines : lines \in Partials(accepted[p])}
      BY <2>15 DEF BeginIndex
    <3>2. PICK part \in Partials(append) : dedupe' = dedupe \o part
      BY <2>6, <3>1
    <3>3. dedupe' = base \o part /\ journal' = base \o tail /\ index = <<>> /\ tail = all
      BY <2>4, <2>6, <2>9, <3>1, <3>2
    <3>4. Durable' = Logs(tail, part)
      BY <2>11, <3>1, <3>3
    <3>5. part \in Seq(FileLines)
      BY <2>3, <3>2
    <3>6. Durable = base
      BY <2>3, <2>8, <2>9, <2>10, <3>3
    <3>7. Complete' <=> part = all
      <4>1. /\ SubSeq(base \o tail, Len(base) + 1, Len(base \o tail)) = tail
            /\ SubSeq(base \o part, Len(base) + 1, Len(base \o part)) = part
        <5>1. \A part2 \in Seq(FileLines) :
                SubSeq(base \o part2, Len(base) + 1, Len(base \o part2)) = part2
          BY CutOfConcat
        <5> QED  BY <2>3, <3>5, <5>1
      <4> QED  BY <2>5, <3>1, <3>3, <4>1 DEF Complete, all, append
    <3>8. Durable' = IF part = all THEN base \o all ELSE base
      BY <2>3, <2>8, <3>3, <3>4, <3>5
    <3> QED  BY <2>6, <3>6, <3>7, <3>8 DEF all
  <2>16. ASSUME EndIndex(p)
         PROVE  Durable' = IF Complete THEN Durable ELSE Durable \o Lines(accepted[p])
    <3>1. /\ pc[p] = "indexing" /\ pending' = pending /\ journal' = base \o tail
          /\ dedupe' = base \o all
      BY <2>4, <2>6, <2>7, <2>16 DEF EndIndex, all
    <3>2. Durable' = Logs(tail, all) /\ tail = all
      BY <2>6, <2>11, <3>1
    <3>3. Durable' = base \o all
      BY <2>3, <2>8, <3>2
    <3>4. Durable = IF Complete THEN base \o all ELSE base
      BY <2>3, <2>7, <2>8, <2>10
    <3> QED  BY <2>6, <3>3, <3>4 DEF all
  <2>17. pc[p] \in {"checkpoint", "unlink"} => Durable = journal
    BY <2>3, <2>4, <2>6, <2>8, <2>10
  <2>18. ASSUME UnlinkPending(p) PROVE Durable' = Durable /\ Durable' = journal'
    <3>1. pc[p] = "unlink" /\ pending' = NoPending /\ journal' = journal
      BY <2>18 DEF UnlinkPending
    <3> QED  BY <2>17, <3>1, DurableIsKept
  <2> QED  BY <2>12, <2>13, <2>14, <2>15, <2>16, <2>17, <2>18
<1>3. /\ BeginAppend(p) \/ EndAppend(p) \/ BeginIndex(p) \/ EndIndex(p) \/ Checkpoint(p)
           \/ UnlinkPending(p) => pc[p] \in Writing
      /\ pc[p] \in {"checkpoint", "unlink"} => pc[p] \in Writing
  BY DEF BeginAppend, EndAppend, BeginIndex, EndIndex, Checkpoint, UnlinkPending, Writing
<1> QED
  BY <1>1, <1>2, <1>3

-----------------------------------------------------------------------------
(* The log that the store implements.                                      *)

LogEntries == [key: Keys, payload: Payloads, received: 1..MaxTime]

Log(lines) == [i \in DOMAIN lines |-> Published(lines[i].event)]
Sent(events) == [i \in DOMAIN events |-> Published(events[i])]

LEMMA PublishedType ==
  ASSUME NEW event \in LongEvents
  PROVE  /\ Published(event) \in LogEntries
         /\ Published(event).key = event.key /\ Published(event).payload = event.payload
         /\ Published(event).received = event.received
BY DEF Published, LongEvents, LogEntries

LEMMA SentFacts ==
  ASSUME NEW events \in Seq(LongEvents)
  PROVE  /\ Sent(events) \in Seq(LogEntries) /\ Len(Sent(events)) = Len(events)
         /\ \A i \in 1..Len(events) :
              /\ events[i] \in LongEvents
              /\ Sent(events)[i] = Published(events[i])
<1>1. Sent(events) = [i \in 1..Len(events) |-> Published(events[i])]
  BY DEF Sent
<1>2. \A i \in 1..Len(events) : events[i] \in LongEvents /\ Published(events[i]) \in LogEntries
  BY PublishedType
<1> QED
  BY <1>1, <1>2

LEMMA LogFacts ==
  ASSUME NEW lines \in Seq(FileLines)
  PROVE  /\ Log(lines) \in Seq(LogEntries) /\ Len(Log(lines)) = Len(lines)
         /\ \A i \in 1..Len(lines) : Log(lines)[i] = Published(lines[i].event)
<1>1. Log(lines) = Sent(Events(lines))
  <2>1. Log(lines) = [i \in 1..Len(lines) |-> Published(lines[i].event)]
    BY DEF Log
  <2>2. /\ Events(lines) \in Seq(LongEvents) /\ Len(Events(lines)) = Len(lines)
        /\ \A i \in 1..Len(lines) : Events(lines)[i] = lines[i].event
    BY EventsFacts
  <2>3. Sent(Events(lines)) = [i \in 1..Len(lines) |-> Published(Events(lines)[i])]
    BY <2>2 DEF Sent
  <2> QED  BY <2>1, <2>2, <2>3
<1> QED
  BY <1>1, EventsFacts, SentFacts

LEMMA LogOfConcat ==
  ASSUME NEW s \in Seq(FileLines), NEW events \in Seq(LongEvents)
  PROVE  Log(s \o Lines(events)) = Log(s) \o Sent(events)
<1>1. PICK t \in Seq(FileLines) : t = Lines(events)
  BY LinesFacts
<1>2. Len(t) = Len(events) /\ \A i \in 1..Len(events) : t[i].event = events[i]
  <2>1. \A e : Whole(e).event = e
    BY DEF Whole
  <2> QED  BY <1>1, <2>1, LinesFacts
<1>3. /\ s \o t \in Seq(FileLines) /\ Len(s \o t) = Len(s) + Len(t)
      /\ Len(s) \in Nat /\ Len(t) \in Nat
      /\ \A i \in 1..Len(s) : (s \o t)[i] = s[i]
      /\ \A i \in 1..Len(t) : (s \o t)[Len(s) + i] = t[i]
  BY ConcatFacts
<1>4. PICK a \in Seq(LogEntries) :
        a = Log(s) /\ Len(a) = Len(s) /\ \A i \in 1..Len(s) : a[i] = Published(s[i].event)
  BY LogFacts
<1>5. PICK b \in Seq(LogEntries) :
        b = Sent(events) /\ Len(b) = Len(t) /\ \A i \in 1..Len(t) : b[i] = Published(t[i].event)
  BY <1>2, SentFacts
<1>6. PICK c \in Seq(LogEntries) :
        /\ c = Log(s \o t) /\ Len(c) = Len(s) + Len(t)
        /\ \A i \in 1..Len(s) + Len(t) : c[i] = Published((s \o t)[i].event)
  BY <1>3, LogFacts
<1>7. a \o b \in Seq(LogEntries) /\ Len(a \o b) = Len(s) + Len(t)
  <2>1. a \o b \in Seq(LogEntries) /\ Len(a \o b) = Len(a) + Len(b)
    OBVIOUS
  <2> QED  BY <1>4, <1>5, <2>1
<1>8. ASSUME NEW i \in 1..Len(s) + Len(t) PROVE (a \o b)[i] = c[i]
  <2>1. CASE i \in 1..Len(s)
    <3>1. (a \o b)[i] = a[i] /\ (s \o t)[i] = s[i]
      BY <1>3, <1>4, <1>5, <2>1
    <3> QED  BY <1>4, <1>6, <2>1, <3>1
  <2>2. CASE i \notin 1..Len(s)
    <3>1. i - Len(s) \in 1..Len(t) /\ Len(s) + (i - Len(s)) = i
      BY <1>3, <2>2
    <3>2. (s \o t)[i] = t[i - Len(s)]
      BY <1>3, <3>1
    <3>3. (a \o b)[i] = b[i - Len(s)]
      BY <1>4, <1>5, <3>1
    <3> QED  BY <1>5, <1>6, <3>1, <3>2, <3>3
  <2> QED  BY <2>1, <2>2
<1>9. a \o b = c
  BY <1>6, <1>7, <1>8, SeqEqual
<1> QED
  BY <1>1, <1>4, <1>5, <1>6, <1>9

-----------------------------------------------------------------------------
(* What an ingest owes the log.                                            *)

(* The places of a batch whose keys are not in the log.                    *)
Places(log, drafts) ==
  {i \in DOMAIN drafts : \A j \in DOMAIN log : log[j].key # drafts[i].key}

Distinct(drafts) ==
  \A i, j \in DOMAIN drafts : drafts[i].key = drafts[j].key => i = j

OnePayload(log, drafts) ==
  \A i \in DOMAIN drafts : \A j \in DOMAIN log :
    log[j].key = drafts[i].key => log[j].payload = drafts[i].payload

(* The elements of drafts at these places, counted off in their order.     *)
Counted(places, drafts, new) ==
  /\ Len(new) = Cardinality(places)
  /\ \A k \in 1..Len(new) : \E i \in places : new[k] = drafts[i] /\ Rank(places, i) = k

(* These entries are what the log is to be given for the batch.            *)
Due(log, drafts, entries) ==
  /\ Distinct(drafts) /\ OnePayload(log, drafts)
  /\ \E new \in Seq(Drafts), time \in 1..MaxTime :
       /\ Counted(Places(log, drafts), drafts, new)
       /\ entries = [i \in DOMAIN new |->
                       [key |-> new[i].key, payload |-> new[i].payload, received |-> time]]
       /\ \A j \in DOMAIN log : log[j].received <= time

(* The log has all of the batch.                                           *)
Covered(log, drafts) ==
  \A i \in DOMAIN drafts : \E j \in DOMAIN log :
    log[j].key = drafts[i].key /\ log[j].payload = drafts[i].payload

LEMMA CountedFacts ==
  ASSUME NEW drafts \in Seq(Drafts), NEW log, NEW new \in Seq(Drafts),
         Counted(Places(log, drafts), drafts, new)
  PROVE  \A i \in Places(log, drafts) : \E k \in 1..Len(new) : new[k] = drafts[i]
<1> DEFINE places == Places(log, drafts)
<1>1. places \in SUBSET (1..Len(drafts)) /\ Len(drafts) \in Nat
  BY DEF Places
<1> HIDE DEF places
<1>2. /\ \A i \in places : Rank(places, i) \in 1..Cardinality(places)
      /\ \A i, j \in places : Rank(places, i) = Rank(places, j) => i = j
  BY <1>1, Ranks
<1> QED
  BY <1>2 DEF Counted, places

(* Given what is due to it, the log has the batch.                         *)
LEMMA DueCovers ==
  ASSUME NEW log \in Seq(LogEntries), NEW drafts \in Seq(Drafts),
         NEW entries \in Seq(LogEntries), Due(log, drafts, entries)
  PROVE  Covered(log \o entries, drafts)
<1>1. PICK new \in Seq(Drafts), time \in 1..MaxTime :
        /\ Counted(Places(log, drafts), drafts, new)
        /\ entries = [i \in DOMAIN new |->
                        [key |-> new[i].key, payload |-> new[i].payload, received |-> time]]
  BY DEF Due
<1>2. /\ log \o entries \in Seq(LogEntries) /\ Len(log \o entries) = Len(log) + Len(entries)
      /\ Len(log) \in Nat /\ Len(entries) \in Nat
      /\ \A i \in 1..Len(log) : (log \o entries)[i] = log[i]
      /\ \A i \in 1..Len(entries) : (log \o entries)[Len(log) + i] = entries[i]
  BY ConcatFacts
<1>3. /\ DOMAIN log = 1..Len(log) /\ DOMAIN (log \o entries) = 1..(Len(log) + Len(entries))
      /\ DOMAIN entries = 1..Len(entries) /\ DOMAIN new = 1..Len(new)
  BY <1>2
<1>4. Len(entries) = Len(new)
  BY <1>1, <1>2, <1>3
<1> SUFFICES ASSUME NEW i \in DOMAIN drafts
             PROVE  \E j \in DOMAIN (log \o entries) :
                      /\ (log \o entries)[j].key = drafts[i].key
                      /\ (log \o entries)[j].payload = drafts[i].payload
  BY DEF Covered
<1>5. CASE i \in Places(log, drafts)
  <2>1. PICK k \in 1..Len(new) : new[k] = drafts[i]
    BY <1>1, <1>5, CountedFacts
  <2>2. entries[k].key = drafts[i].key /\ entries[k].payload = drafts[i].payload
    BY <1>1, <1>3, <2>1
  <2>3. Len(log) + k \in 1..(Len(log) + Len(entries))
    BY <1>2, <1>4, <2>1
  <2> QED  BY <1>2, <1>3, <1>4, <2>1, <2>2, <2>3
<1>6. CASE i \notin Places(log, drafts)
  <2>1. PICK j \in DOMAIN log : log[j].key = drafts[i].key
    BY <1>6 DEF Places
  <2>2. log[j].payload = drafts[i].payload
    BY <2>1 DEF Due, OnePayload
  <2>3. j \in 1..(Len(log) + Len(entries)) /\ (log \o entries)[j] = log[j]
    BY <1>2, <1>3, <2>1
  <2> QED  BY <1>3, <2>1, <2>2, <2>3
<1> QED
  BY <1>5, <1>6

LEMMA SameCardinality == \A S : BL!Cardinality(S) = Cardinality(S)
BY DEF BL!Cardinality, Cardinality

(* What is due is what the batch log appends.                              *)
LEMMA DueIsAppended ==
  ASSUME NEW log \in Seq(LogEntries), DurableLog = log,
         NEW drafts \in Seq(Drafts), NEW entries, Due(log, drafts, entries),
         DurableLog' = log \o entries, acked' = acked
  PROVE  \E time \in 1..MaxTime : BL!AppendBatch(drafts, time)
<1>1. PICK new \in Seq(Drafts), time \in 1..MaxTime :
        /\ Counted(Places(log, drafts), drafts, new)
        /\ entries = [i \in DOMAIN new |->
                        [key |-> new[i].key, payload |-> new[i].payload, received |-> time]]
        /\ \A j \in DOMAIN log : log[j].received <= time
  BY DEF Due
<1> DEFINE places == Places(log, drafts)
<1>2. places \in SUBSET (1..Len(drafts)) /\ Len(drafts) \in Nat
  BY DEF Places
<1>3. BL!NewPlaces(drafts) = places
  BY DEF BL!NewPlaces, BL!Logged, Places
<1> HIDE DEF places
<1>4. /\ Cardinality(places) \in Nat
      /\ \A i, j \in places : Rank(places, i) = Rank(places, j) => i = j
  BY <1>2, Ranks
<1>5. /\ Len(new) = Cardinality(places) /\ new = [k \in 1..Len(new) |-> new[k]]
      /\ \A k \in 1..Len(new) : \E i \in places : new[k] = drafts[i] /\ Rank(places, i) = k
  BY <1>1 DEF Counted, places
<1>6. ASSUME NEW k \in 1..Len(new)
      PROVE  drafts[BL!NewPlace(drafts, k)] = new[k]
  <2>1. PICK i \in places : new[k] = drafts[i] /\ Rank(places, i) = k
    BY <1>5
  <2> DEFINE Is(m) == BL!Cardinality({j \in places : j <= m}) = k
  <2>2. BL!NewPlace(drafts, k) = CHOOSE m \in places : Is(m)
    BY <1>3 DEF BL!NewPlace
  <2>3. \A m \in places : Is(m) <=> Rank(places, m) = k
    BY SameCardinality DEF Rank
  <2> HIDE DEF Is
  <2>4. (CHOOSE m \in places : Is(m)) = i
    BY <1>4, <2>1, <2>3
  <2> QED  BY <2>1, <2>2, <2>4
<1>7. BL!New(drafts) = new
  <2>1. BL!New(drafts) = [k \in 1..Len(new) |-> drafts[BL!NewPlace(drafts, k)]]
    BY <1>3, <1>5, SameCardinality DEF BL!New
  <2> QED  BY <1>5, <1>6, <2>1
<1>8. BL!Stamped(BL!New(drafts), time) = entries
  BY <1>1, <1>7 DEF BL!Stamped
<1>9. BL!NoRepeat(drafts) /\ BL!OnePayloadPerKey(drafts)
  <2>1. Distinct(drafts) /\ OnePayload(log, drafts)
    BY DEF Due
  <2>2. BL!Logged = {log[j] : j \in DOMAIN log}
    BY DEF BL!Logged
  <2> QED
    BY ZenonT(40), <2>1, <2>2 DEF Distinct, OnePayload, BL!NoRepeat, BL!OnePayloadPerKey
<1>10. \A e \in BL!Logged : e.received <= time
  BY <1>1 DEF BL!Logged
<1>11. BL!AppendBatch(drafts, time)
  BY <1>8, <1>9, <1>10 DEF BL!AppendBatch
<1> QED
  BY <1>11

-----------------------------------------------------------------------------
(* The invariant of the refinement.                                        *)

BatchInv ==
  \A p \in Procs \ Readers :
    pc[p] \in Holding \cup Acquiring \cup {"journal", "snapshot"} => batch[p] \in Batches

(* Until its index is written a batch is due to the log; from then on the  *)
(* log has it.                                                             *)
OwesLog(p) ==
  LET due == Due(DurableLog, batch[p], Sent(accepted[p]))
  IN  /\ pc[p] \in {"pending", "append", "appending", "index"} => due
      /\ pc[p] = "indexing" => IF Complete THEN Covered(DurableLog, batch[p]) ELSE due
      /\ pc[p] \in {"checkpoint", "unlink", "acked"} => Covered(DurableLog, batch[p])
      /\ pc[p] = "acked" => Durable = journal

LogInv == StoreInv /\ BatchInv /\ \A p \in Procs : OwesLog(p)

LEMMA BatchStep ==
  ASSUME Shapes, BatchInv, [Next]_vars
  PROVE  BatchInv'
<1> USE DEF Shapes, Goto
<1>1. ASSUME NEW p \in Procs, batch' = batch,
             \E label : pc' = [pc EXCEPT ![p] = label] /\ label \notin Holding \cup Acquiring \cup {"journal", "snapshot"}
      PROVE  BatchInv'
  BY <1>1 DEF BatchInv
<1>2. ASSUME NEW p \in Procs, batch' = batch,
             \E label : pc' = [pc EXCEPT ![p] = label], pc[p] \in Holding \cup Acquiring
      PROVE  BatchInv'
  BY <1>2 DEF BatchInv
<1>3. ASSUME NEW p \in Procs, Start(p) PROVE BatchInv'
  <2>1. CASE p \in Readers
    <3>1. /\ pc' = [pc EXCEPT ![p] = "journal"] /\ batch' = [batch EXCEPT ![p] = <<>>]
      BY <1>3, <2>1, ProcsAssumption DEF Start
    <3> QED  BY <2>1, <3>1 DEF BatchInv, Holding, Acquiring
  <2>2. CASE p \notin Readers
    <3>1. \E b \in Batches : batch' = [batch EXCEPT ![p] = b]
      BY <1>3, <2>2 DEF Start
    <3>2. \E label : pc' = [pc EXCEPT ![p] = label]
      BY <1>3 DEF Start
    <3> QED  BY <2>2, <3>1, <3>2 DEF BatchInv
  <2> QED  BY <2>1, <2>2
<1>4. ASSUME NEW p \in Procs, ReadJournal(p) PROVE BatchInv'
  <2>1. batch' = batch /\ pc[p] = "journal"
    BY <1>4 DEF ReadJournal
  <2>2. pc' = [pc EXCEPT ![p] = "snapshot"] \/ pc' = [pc EXCEPT ![p] = "idle"]
    BY <1>4 DEF ReadJournal
  <2> QED  BY <2>1, <2>2 DEF BatchInv, Holding, Acquiring
<1>5. ASSUME NEW p \in Procs, ReadSnapshot(p) PROVE BatchInv'
  <2>1. batch' = batch /\ pc[p] = "snapshot"
    BY <1>5 DEF ReadSnapshot
  <2>2. \/ pc' = [pc EXCEPT ![p] = "rolled_back"] \/ pc' = [pc EXCEPT ![p] = "idle"]
        \/ p \notin Readers /\ pc' = [pc EXCEPT ![p] = "open"]
    BY <1>5 DEF ReadSnapshot
  <2> QED  BY <2>1, <2>2 DEF BatchInv, Holding, Acquiring
<1>6. ASSUME NEW p \in Procs, FailLoad(p) PROVE BatchInv'
  <2>1. batch' = batch /\ pc' = [pc EXCEPT ![p] = "idle"]
    BY <1>6 DEF FailLoad, call
  <2>2. "idle" \notin Holding \cup Acquiring \cup {"journal", "snapshot"}
    BY DEF Holding, Acquiring
  <2> QED  BY <1>1, <2>1, <2>2
<1>7. ASSUME NEW p \in Procs, Acquire(p) PROVE BatchInv'
  <2>1. /\ batch' = batch /\ pc[p] \in Holding \cup Acquiring
        /\ \E label : pc' = [pc EXCEPT ![p] = label]
    BY <1>7, AcquireFacts DEF Holding
  <2> QED  BY <1>2, <2>1
<1>8. ASSUME NEW p \in Procs, Release(p) \/ Crash(p) PROVE BatchInv'
  <2>1. /\ batch' = [batch EXCEPT ![p] = <<>>]
        /\ pc' = [pc EXCEPT ![p] = "idle"] \/ pc' = [pc EXCEPT ![p] = "dead"]
    BY <1>8 DEF Release, Crash
  <2> QED  BY <2>1 DEF BatchInv, Holding, Acquiring
<1>9. ASSUME NEW p \in Procs,
             \/ Recovery(p) \/ Load(p) \/ Reject(p) \/ WritePending(p)
             \/ BeginAppend(p) \/ EndAppend(p) \/ BeginIndex(p) \/ EndIndex(p)
             \/ Checkpoint(p) \/ UnlinkPending(p) \/ WriteFails(p)
      PROVE  BatchInv'
  <2>1. batch' = batch /\ pc[p] \in Holding
    BY <1>9 DEF Recovery, NothingPending, TruncateJournal, TruncateDedupe, RestoreSnapshot,
         DropPending, Load, Reject, WritePending, BeginAppend, EndAppend, BeginIndex, EndIndex,
         Checkpoint, UnlinkPending, WriteFails, Holding, Writing, call
  <2>2. pc' = pc \/ \E label \in {"load", "recovered", "acked", "pending", "release", "append",
                                  "appending", "index", "indexing", "checkpoint", "unlink"} :
                      pc' = [pc EXCEPT ![p] = label]
    BY <1>9 DEF Recovery, NothingPending, TruncateJournal, TruncateDedupe, RestoreSnapshot,
         DropPending, Load, Reject, WritePending, BeginAppend, EndAppend, BeginIndex, EndIndex,
         Checkpoint, UnlinkPending, WriteFails
  <2>3. CASE pc' = pc
    BY <2>1, <2>3 DEF BatchInv
  <2>4. CASE \E label \in {"load", "recovered", "acked", "pending", "release", "append",
                           "appending", "index", "indexing", "checkpoint", "unlink"} :
               pc' = [pc EXCEPT ![p] = label]
    BY <1>2, <2>1, <2>4 DEF Holding, Writing
  <2> QED  BY <2>2, <2>3, <2>4
<1>10. CASE Tick \/ LockAges \/ UNCHANGED vars
  <2>1. UNCHANGED <<pc, batch>>
    BY <1>10 DEF Tick, LockAges, vars, call
  <2> QED  BY <2>1 DEF BatchInv
<1> QED
  BY <1>3, <1>4, <1>5, <1>6, <1>7, <1>8, <1>9, <1>10 DEF Next, Step

LEMMA DurableType ==
  ASSUME StoreInv
  PROVE  /\ Durable \in Seq(FileLines) /\ DurableLog = Log(Durable)
         /\ DurableLog \in Seq(LogEntries)
<1>1. Durable \in Seq(FileLines)
  <2>1. CASE pending = NoPending
    BY <2>1, DurableIsKept DEF StoreInv, Shapes
  <2>2. CASE pending # NoPending
    <3>1. PICK base \in Seq(FileLines), tail \in Partials(pending.append), index \in Partials(pending.append) :
            InFlight(base, tail, index)
      BY <2>2, UnderWay
    <3>2. pending.append \in Seq(LongEvents)
      BY <2>2, UnderWay
    <3>3. Truncate(journal) = base /\ journal \in Seq(FileLines)
      BY <3>1, <3>2, InFlightFacts
    <3> QED  BY <3>3 DEF Durable
  <2> QED  BY <2>1, <2>2
<1>2. DurableLog = Log(Durable)
  BY DEF DurableLog, Log
<1> QED
  BY <1>1, <1>2, LogFacts

(* An ingest that has loaded owes the log its new drafts, and nothing when *)
(* there are none.                                                         *)
LEMMA LoadOwes ==
  ASSUME StoreInv, NEW p \in Procs, pc[p] = "load", LoadSucceeds, Acceptable(p)
  PROVE  LET events == Envelopes(Fresh(p), ReceivedAt(p))
         IN  IF Fresh(p) = <<>> THEN Covered(DurableLog, batch[p])
             ELSE Due(DurableLog, batch[p], Sent(events))
<1> DEFINE t == ReceivedAt(p)
           events == Envelopes(Fresh(p), t)
<1>1. PICK lines \in Seq(FileLines) : lines = journal
  BY DEF StoreInv, Shapes
<1>2. PICK drafts \in Seq(Drafts) : drafts = batch[p]
  BY BatchType DEF StoreInv
<1>3. PICK log \in Seq(LogEntries) : log = DurableLog
  BY DurableType
<1>4. Durable = lines /\ log = Log(lines) /\ Verifies(lines)
  <2>1. Clean
    BY DEF StoreInv, FileInv
  <2> QED  BY <1>1, <1>3, <2>1, CleanIsDurable, DurableType DEF Clean
<1>5. /\ DOMAIN log = 1..Len(lines) /\ Len(log) = Len(lines) /\ Len(lines) \in Nat
      /\ \A j \in 1..Len(lines) : /\ log[j].key = lines[j].event.key
                                  /\ log[j].payload = lines[j].event.payload
                                  /\ log[j].received = lines[j].event.received
  <2>1. /\ log \in Seq(LogEntries) /\ Len(log) = Len(lines)
        /\ \A j \in 1..Len(lines) : log[j] = Published(lines[j].event)
    BY <1>4, LogFacts
  <2>2. \A j \in 1..Len(lines) : lines[j].event \in LongEvents
    <3>1. \A j \in 1..Len(lines) : lines[j] \in FileLines
      OBVIOUS
    <3> QED  BY <3>1 DEF FileLines
  <2> QED  BY <2>1, <2>2, PublishedType
<1>6. /\ DOMAIN Events(lines) = 1..Len(lines)
      /\ \A j \in 1..Len(lines) : Events(lines)[j] = lines[j].event
  BY EventsFacts
<1>7. \A i \in DOMAIN drafts : \A e \in Keyed(Events(lines), drafts[i].key) : e.payload = drafts[i].payload
  BY <1>1, <1>2 DEF Acceptable
<1>8. \A key : \A j \in 1..Len(lines) :
        lines[j].event.key = key => lines[j].event \in Keyed(Events(lines), key)
  BY <1>6 DEF Keyed, ToSet
<1>9. OnePayload(log, drafts)
  BY <1>5, <1>7, <1>8 DEF OnePayload
<1>10. Distinct(drafts)
  <2> SUFFICES ASSUME NEW i \in DOMAIN drafts, NEW j \in DOMAIN drafts, i # j
               PROVE  drafts[i].key # drafts[j].key
    BY DEF Distinct
  <2>1. DOMAIN drafts = 1..Len(drafts) /\ Len(drafts) \in Nat
    OBVIOUS
  <2>2. i \in 1..(j - 1) \/ j \in 1..(i - 1)
    BY <2>1
  <2> QED  BY <1>2, <2>2 DEF Acceptable
<1>11. FreshPlaces(p) = Places(log, drafts)
  <2>1. ASSUME NEW i \in DOMAIN drafts
        PROVE  Keyed(Events(lines), drafts[i].key) = {} <=>
                 \A j \in DOMAIN log : log[j].key # drafts[i].key
    <3>1. ASSUME NEW e \in Keyed(Events(lines), drafts[i].key)
          PROVE  \E j \in DOMAIN log : log[j].key = drafts[i].key
      <4>1. PICK j \in DOMAIN Events(lines) : e = Events(lines)[j]
        BY <3>1 DEF Keyed, ToSet
      <4>2. e.key = drafts[i].key
        BY <3>1 DEF Keyed
      <4>3. j \in 1..Len(lines) /\ e = lines[j].event
        BY <1>6, <4>1
      <4> QED  BY <1>5, <4>2, <4>3
    <3>2. ASSUME NEW j \in DOMAIN log, log[j].key = drafts[i].key
          PROVE  Keyed(Events(lines), drafts[i].key) # {}
      <4>1. j \in 1..Len(lines) /\ lines[j].event.key = drafts[i].key
        BY <1>5, <3>2
      <4> QED  BY <1>8, <4>1
    <3> QED  BY <3>1, <3>2
  <2> QED  BY <1>1, <1>2, <2>1 DEF FreshPlaces, Places
<1>12. PICK new \in Seq(Drafts) :
         /\ new = Fresh(p) /\ Len(new) = Cardinality(FreshPlaces(p))
         /\ \A k \in 1..Len(new) :
              \E i \in FreshPlaces(p) : new[k] = drafts[i] /\ Rank(FreshPlaces(p), i) = k
  BY <1>2, FreshFacts
<1>13. Counted(Places(log, drafts), drafts, new)
  BY <1>11, <1>12 DEF Counted
<1>14. CASE Fresh(p) = <<>>
  <2>1. Places(log, drafts) = {}
    <3>1. 1..Len(new) = {}
      BY <1>12, <1>14
    <3>2. \A i \in Places(log, drafts) : \E k \in 1..Len(new) : new[k] = drafts[i]
      BY <1>13, CountedFacts
    <3> QED  BY <3>1, <3>2
  <2>2. Covered(log, drafts)
    BY <1>9, <2>1 DEF Covered, Places, OnePayload
  <2> QED  BY <1>2, <1>3, <1>14, <2>2
<1>15. CASE Fresh(p) # <<>>
  <2>1. t \in 1..MaxTime
    BY ReceivedAtType DEF StoreInv
  <2> HIDE DEF t
  <2>2. PICK envelopes \in Seq(LongEvents) :
          /\ envelopes = events /\ Len(envelopes) = Len(new)
          /\ \A i \in 1..Len(new) : /\ envelopes[i].key = new[i].key
                                    /\ envelopes[i].payload = new[i].payload
                                    /\ envelopes[i].received = t
    <3>1. ASSUME NEW time \in 1..MaxTime
          PROVE  /\ Envelopes(new, time) \in Seq(LongEvents) /\ Len(Envelopes(new, time)) = Len(new)
                 /\ \A i \in 1..Len(new) : /\ Envelopes(new, time)[i].key = new[i].key
                                           /\ Envelopes(new, time)[i].payload = new[i].payload
                                           /\ Envelopes(new, time)[i].received = time
      <4>1. journal \in Seq(FileLines)
        BY <1>1
      <4> QED  BY <4>1, EnvelopesTell
    <3> QED  BY <1>12, <2>1, <3>1
  <2>3. Sent(envelopes) = [i \in DOMAIN new |-> [key |-> new[i].key, payload |-> new[i].payload, received |-> t]]
    <3>1. DOMAIN envelopes = 1..Len(new) /\ DOMAIN new = 1..Len(new)
      BY <2>2
    <3> QED  BY <2>2, <3>1 DEF Sent, Published
  <2>4. Verifies(lines \o Lines(envelopes))
    BY <1>1, <1>4, <2>2, LoadExtends DEF t, StoreInv
  <2>5. \A j \in DOMAIN log : log[j].received <= t
    <3>1. PICK tail \in Seq(FileLines) :
            tail = Lines(envelopes) /\ Len(tail) = Len(new) /\ tail[1] = Whole(envelopes[1])
      <4>1. 1 \in 1..Len(envelopes)
        BY <1>12, <1>15, <2>2
      <4> QED  BY <2>2, <4>1, LinesFacts
    <3>2. Len(new) \in Nat /\ Len(new) >= 1 /\ 1 \in 1..Len(new)
      BY <1>12, <1>15
    <3>3. /\ lines \o tail \in Seq(FileLines) /\ Len(lines) + 1 \in 1..Len(lines \o tail)
          /\ (lines \o tail)[Len(lines) + 1] = tail[1]
          /\ \A j \in 1..Len(lines) : (lines \o tail)[j] = lines[j]
      BY <3>1, <3>2
    <3>4. Follows(lines \o tail, Len(lines) + 1)
      BY <2>4, <3>1, <3>3, VerifiesFollows
    <3>5. tail[1].event.received = t
      BY <2>2, <3>1, <3>2 DEF Whole
    <3>6. \A j \in 1..Len(lines) : j \in 1..(Len(lines) + 1 - 1)
      BY <1>5
    <3>7. \A j \in 1..Len(lines) : (lines \o tail)[j].event.received <= t
      BY <3>3, <3>4, <3>5, <3>6 DEF Follows
    <3>8. ASSUME NEW j \in 1..Len(lines) PROVE log[j].received <= t
      <4>1. (lines \o tail)[j] = lines[j] /\ log[j].received = lines[j].event.received
        BY <1>5, <3>3
      <4> QED  BY <3>7, <4>1
    <3> QED  BY <1>5, <3>8
  <2>6. Due(log, drafts, Sent(envelopes))
    BY <1>9, <1>10, <1>13, <2>1, <2>3, <2>5 DEF Due
  <2> QED  BY <1>2, <1>3, <1>15, <2>2, <2>6 DEF t
<1> QED
  BY <1>14, <1>15

(* What a process owes the log is kept by the steps that leave alone what  *)
(* it is read from.                                                        *)
LEMMA OwesKept ==
  ASSUME NEW q \in Procs, OwesLog(q), UNCHANGED <<journal, Durable, DurableLog>>, Complete' = Complete,
         pc'[q] = pc[q], batch'[q] = batch[q], accepted'[q] = accepted[q]
  PROVE  OwesLog(q)'
BY DEF OwesLog

LEMMA OwesNothing ==
  ASSUME NEW q \in Procs,
         pc'[q] \notin {"pending", "append", "appending", "index", "indexing", "checkpoint", "unlink", "acked"}
  PROVE  OwesLog(q)'
BY DEF OwesLog

LEMMA SameDurable ==
  /\ Durable' = Durable => DurableLog' = DurableLog
  /\ UNCHANGED files => UNCHANGED <<journal, Durable, Complete>>
BY DEF DurableLog, Durable, Complete, Truncate, files

LEMMA IngestOwes ==
  ASSUME LogInv, NEW p \in Procs,
         \/ WritePending(p) \/ BeginAppend(p) \/ EndAppend(p) \/ BeginIndex(p) \/ EndIndex(p)
         \/ Checkpoint(p) \/ UnlinkPending(p)
  PROVE  /\ OwesLog(p)'
         /\ \/ Durable' = Durable
            \/ /\ DurableLog' = DurableLog \o Sent(accepted[p]) /\ acked' = acked
               /\ Due(DurableLog, batch[p], Sent(accepted[p]))
<1>1. StoreInv /\ OwesLog(p) /\ UNCHANGED <<batch, accepted, acked>> /\ pc \in [Procs -> Labels]
  BY DEF LogInv, WritePending, BeginAppend, EndAppend, BeginIndex, EndIndex, Checkpoint, UnlinkPending,
         call, StoreInv, Shapes
<1>2. PICK entries \in Seq(LogEntries) : entries = Sent(accepted[p])
  BY <1>1, SentFacts DEF StoreInv, Shapes
<1>3. PICK log \in Seq(LogEntries) : log = DurableLog
  BY <1>1, DurableType
<1>4. PICK drafts \in Seq(Drafts) : drafts = batch[p]
  BY <1>1, BatchType DEF StoreInv
<1>5. Due(log, drafts, entries) => Covered(log \o entries, drafts)
  BY DueCovers
<1>6. Durable' = Durable \o Lines(accepted[p]) => DurableLog' = log \o entries
  <2>1. PICK events \in Seq(LongEvents) : events = accepted[p]
    BY <1>1 DEF StoreInv, Shapes
  <2>2. PICK lines \in Seq(FileLines) : lines = Durable /\ DurableLog = Log(lines)
    BY <1>1, DurableType
  <2>3. DurableLog' = Log(Durable')
    BY DEF DurableLog, Log
  <2>4. Log(lines \o Lines(events)) = Log(lines) \o Sent(events)
    BY LogOfConcat
  <2> QED  BY <1>2, <1>3, <2>1, <2>2, <2>3, <2>4
<1>7. Durable' = Durable => DurableLog' = log
  BY <1>3, SameDurable
<1>8. Sent(accepted[p])' = entries /\ batch'[p] = drafts
  BY <1>1, <1>2, <1>4 DEF Sent
<1>9. CASE WritePending(p) \/ BeginAppend(p) \/ EndAppend(p)
  <2>1. /\ Due(log, drafts, entries)
        /\ pc'[p] \in {"append", "appending", "index"}
    BY <1>1, <1>2, <1>3, <1>4, <1>9 DEF OwesLog, WritePending, BeginAppend, EndAppend, Goto
  <2>2. Durable' = Durable
    BY <1>1, <1>9, DurableIngest
  <2> QED  BY <1>7, <1>8, <2>1, <2>2 DEF OwesLog
<1>10. CASE BeginIndex(p)
  <2>1. Due(log, drafts, entries) /\ pc'[p] = "indexing"
    BY <1>1, <1>2, <1>3, <1>4, <1>10 DEF OwesLog, BeginIndex, Goto
  <2>2. Durable' = IF Complete' THEN Durable \o Lines(accepted[p]) ELSE Durable
    BY <1>1, <1>10, DurableIngest
  <2>3. CASE Complete'
    <3>1. DurableLog' = log \o entries
      BY <1>6, <2>2, <2>3
    <3> QED  BY <1>1, <1>2, <1>3, <1>4, <1>5, <1>8, <2>1, <2>3, <3>1 DEF OwesLog
  <2>4. CASE ~Complete'
    BY <1>7, <1>8, <2>1, <2>2, <2>4 DEF OwesLog
  <2> QED  BY <2>3, <2>4
<1>11. CASE EndIndex(p)
  <2>1. /\ IF Complete THEN Covered(log, drafts) ELSE Due(log, drafts, entries)
        /\ pc'[p] = "checkpoint"
    BY <1>1, <1>2, <1>3, <1>4, <1>11 DEF OwesLog, EndIndex, Goto
  <2>2. Durable' = IF Complete THEN Durable ELSE Durable \o Lines(accepted[p])
    BY <1>1, <1>11, DurableIngest
  <2>3. CASE ~Complete
    <3>1. DurableLog' = log \o entries /\ Due(log, drafts, entries)
      BY <1>6, <2>1, <2>2, <2>3
    <3> QED  BY <1>1, <1>2, <1>3, <1>4, <1>5, <1>8, <2>1, <3>1 DEF OwesLog
  <2>4. CASE Complete
    BY <1>7, <1>8, <2>1, <2>2, <2>4 DEF OwesLog
  <2> QED  BY <2>3, <2>4
<1>12. CASE Checkpoint(p)
  <2>1. Covered(log, drafts) /\ pc'[p] = "unlink"
    BY <1>1, <1>2, <1>3, <1>4, <1>12 DEF OwesLog, Checkpoint, Goto
  <2>2. Durable' = Durable
    BY <1>1, <1>12, DurableIngest
  <2> QED  BY <1>7, <1>8, <2>1, <2>2 DEF OwesLog
<1>13. CASE UnlinkPending(p)
  <2>1. Covered(log, drafts) /\ pc'[p] = "acked"
    BY <1>1, <1>2, <1>3, <1>4, <1>13 DEF OwesLog, UnlinkPending, Goto
  <2>2. Durable' = Durable /\ Durable' = journal'
    BY <1>1, <1>13, DurableIngest
  <2> QED  BY <1>7, <1>8, <2>1, <2>2 DEF OwesLog
<1> QED
  BY <1>9, <1>10, <1>11, <1>12, <1>13

(* A step keeps what is owed, and changes what counts only by what is due. *)
LEMMA LogStep ==
  ASSUME LogInv, OneRecovers, OneRecovers', [Next]_vars
  PROVE  /\ LogInv'
         /\ \/ Durable' = Durable
            \/ \E p \in Procs : /\ pc[p] \in Holding
                                /\ DurableLog' = DurableLog \o Sent(accepted[p]) /\ acked' = acked
                                /\ Due(DurableLog, batch[p], Sent(accepted[p]))
<1>1. StoreInv' /\ BatchInv'
  BY InvStep, BatchStep DEF LogInv, StoreInv
<1>2. /\ StoreInv /\ \A q \in Procs : OwesLog(q)
      /\ pc \in [Procs -> Labels] /\ batch \in [Procs -> Batches \cup {<<>>}]
      /\ accepted \in [Procs -> Seq(LongEvents)]
  BY DEF LogInv, StoreInv, Shapes
(* A step of one process that leaves the files alone.                      *)
<1>3. ASSUME NEW p \in Procs, UNCHANGED files, OwesLog(p)',
             \A q \in Procs \ {p} : pc'[q] = pc[q] /\ batch'[q] = batch[q] /\ accepted'[q] = accepted[q]
      PROVE  (\A q \in Procs : OwesLog(q)') /\ Durable' = Durable
  <2>1. UNCHANGED <<journal, Durable, DurableLog>> /\ Complete' = Complete
    BY <1>3, SameDurable
  <2>2. ASSUME NEW q \in Procs \ {p} PROVE OwesLog(q)'
    BY <1>2, <1>3, <2>1, OwesKept
  <2> QED  BY <1>3, <2>1, <2>2
(* A step of the holder.                                                   *)
<1>4. ASSUME NEW p \in Procs, pc[p] \in Holding, OwesLog(p)',
             \A q \in Procs \ {p} : pc'[q] = pc[q]
      PROVE  \A q \in Procs : OwesLog(q)'
  <2>1. ASSUME NEW q \in Procs \ {p} PROVE OwesLog(q)'
    <3>1. pc'[q] \notin Holding
      BY <1>2, <1>4, Alone DEF StoreInv
    <3> QED  BY <3>1, OwesNothing DEF Holding, Writing
  <2> QED  BY <1>4, <2>1
<1>5. ASSUME NEW p \in Procs,
             \/ Start(p) \/ ReadJournal(p) \/ ReadSnapshot(p) \/ FailLoad(p) \/ Acquire(p)
             \/ Reject(p) \/ Release(p) \/ Crash(p)
      PROVE  (\A q \in Procs : OwesLog(q)') /\ Durable' = Durable
  <2>1. /\ UNCHANGED files
        /\ \A q \in Procs \ {p} : batch'[q] = batch[q] /\ accepted'[q] = accepted[q]
    BY <1>2, <1>5, AcquireFacts DEF Start, ReadJournal, ReadSnapshot, FailLoad, Reject, Release,
         Crash, call
  <2>2. \E label \in QuietLabels :
          pc' = [pc EXCEPT ![p] = label]
    BY <1>5, QuietMoves
  <2>3. /\ pc'[p] \in QuietLabels
        /\ \A q \in Procs \ {p} : pc'[q] = pc[q]
    BY <1>2, <2>2
  <2>4. OwesLog(p)'
    BY <2>3, OwesNothing DEF QuietLabels
  <2> QED  BY <1>3, <2>1, <2>3, <2>4
<1>6. ASSUME NEW p \in Procs, Recovery(p)
      PROVE  (\A q \in Procs : OwesLog(q)') /\ Durable' = Durable
  <2>1. /\ pc[p] \in Holding
        /\ pc' = pc \/ \E label \in {"load", "recovered"} : pc' = [pc EXCEPT ![p] = label]
        /\ pc[p] \in {"recover", "recovered"}
    BY <1>6 DEF Recovery, NothingPending, TruncateJournal, TruncateDedupe, RestoreSnapshot,
         DropPending, Holding, Goto
  <2>2. /\ pc'[p] \in {"recover", "recovered", "load"}
        /\ \A q \in Procs \ {p} : pc'[q] = pc[q]
    BY <1>2, <2>1
  <2>3. OwesLog(p)'
    BY <2>2, OwesNothing
  <2> QED  BY <1>2, <1>4, <1>6, <2>1, <2>2, <2>3, DurableRecovery
<1>7. ASSUME NEW p \in Procs, Load(p)
      PROVE  (\A q \in Procs : OwesLog(q)') /\ Durable' = Durable
  <2>1. /\ UNCHANGED <<files, batch>> /\ pc[p] = "load" /\ LoadSucceeds /\ Acceptable(p)
        /\ accepted' = [accepted EXCEPT ![p] = Envelopes(Fresh(p), ReceivedAt(p))]
        /\ pc' = [pc EXCEPT ![p] = IF Fresh(p) = <<>> THEN "acked" ELSE "pending"]
    BY <1>7 DEF Load, Goto
  <2>2. IF Fresh(p) = <<>> THEN Covered(DurableLog, batch[p])
        ELSE Due(DurableLog, batch[p], Sent(Envelopes(Fresh(p), ReceivedAt(p))))
    BY <1>2, <2>1, LoadOwes
  <2>3. UNCHANGED <<journal, Durable, DurableLog>>
    BY <2>1, SameDurable
  <2>4. Durable = journal
    BY <1>2, <2>1, CleanIsDurable DEF StoreInv, FileInv
  <2>5. /\ accepted'[p] = Envelopes(Fresh(p), ReceivedAt(p)) /\ batch'[p] = batch[p]
        /\ pc'[p] = IF Fresh(p) = <<>> THEN "acked" ELSE "pending"
        /\ \A q \in Procs \ {p} : pc'[q] = pc[q] /\ batch'[q] = batch[q] /\ accepted'[q] = accepted[q]
    BY <1>2, <2>1
  <2>6. Sent(accepted[p])' = Sent(Envelopes(Fresh(p), ReceivedAt(p)))
    BY <2>5 DEF Sent
  <2>7. OwesLog(p)'
    BY <2>2, <2>3, <2>4, <2>5, <2>6 DEF OwesLog
  <2> QED  BY <1>3, <2>1, <2>5, <2>7
<1>8. ASSUME NEW p \in Procs, WriteFails(p)
      PROVE  (\A q \in Procs : OwesLog(q)') /\ Durable' = Durable
  <2>1. UNCHANGED <<files, batch, accepted>>
    BY <1>8 DEF WriteFails, call
  <2>2. UNCHANGED <<journal, Durable, DurableLog>>
    BY <2>1, SameDurable
  <2>3. CASE \E label \in {"release", "load"} : pc' = [pc EXCEPT ![p] = label]
    <3>1. pc'[p] \in {"release", "load"} /\ \A q \in Procs \ {p} : pc'[q] = pc[q]
      BY <1>2, <2>3
    <3> QED  BY <1>3, <2>1, <3>1, OwesNothing
  <2>4. CASE pc[p] \in {"checkpoint", "unlink"} /\ pc' = [pc EXCEPT ![p] = "acked"]
    <3>1. pc'[p] = "acked" /\ \A q \in Procs \ {p} : pc'[q] = pc[q]
      BY <1>2, <2>4
    <3>2. Covered(DurableLog, batch[p])
      BY <1>2, <2>4 DEF OwesLog
    <3>3. Durable = journal
      BY <1>2, <2>4, DurableIngest
    <3>4. OwesLog(p)'
      BY <2>1, <2>2, <3>1, <3>2, <3>3 DEF OwesLog
    <3> QED  BY <1>3, <2>1, <3>1, <3>4
  <2> QED  BY <1>8, <2>3, <2>4 DEF WriteFails, Goto
<1>9. ASSUME NEW p \in Procs,
             \/ WritePending(p) \/ BeginAppend(p) \/ EndAppend(p) \/ BeginIndex(p) \/ EndIndex(p)
             \/ Checkpoint(p) \/ UnlinkPending(p)
      PROVE  /\ pc[p] \in Holding /\ \A q \in Procs : OwesLog(q)'
             /\ \/ Durable' = Durable
                \/ /\ DurableLog' = DurableLog \o Sent(accepted[p]) /\ acked' = acked
                   /\ Due(DurableLog, batch[p], Sent(accepted[p]))
  <2>1. /\ pc[p] \in Holding
        /\ \E label : pc' = [pc EXCEPT ![p] = label]
    BY <1>9 DEF WritePending, BeginAppend, EndAppend, BeginIndex, EndIndex, Checkpoint,
         UnlinkPending, Holding, Writing, Goto
  <2>2. \A q \in Procs \ {p} : pc'[q] = pc[q]
    BY <1>2, <2>1
  <2> QED  BY <1>4, <1>9, <2>1, <2>2, IngestOwes
<1>10. CASE Tick \/ LockAges \/ UNCHANGED vars
  <2>1. UNCHANGED <<files, pc, batch, accepted>>
    BY <1>10 DEF Tick, LockAges, vars, files, call
  <2>2. UNCHANGED <<journal, Durable, DurableLog>> /\ Complete' = Complete
    BY <2>1, SameDurable
  <2>3. \A q \in Procs : OwesLog(q)'
    BY <1>2, <2>1, <2>2, OwesKept
  <2> QED  BY <1>1, <2>2, <2>3 DEF LogInv
<1>11. ASSUME (\A q \in Procs : OwesLog(q)') PROVE LogInv'
  BY <1>1, <1>11 DEF LogInv
<1> QED
  BY <1>5, <1>6, <1>7, <1>8, <1>9, <1>10, <1>11 DEF Next, Step

LEMMA LogInvariant == Spec => [](OneRecovers => LogInv)
<1> DEFINE Inv == Counts /\ (OneRecovers => LogInv)
<1>1. Init => Inv
  <2> SUFFICES ASSUME Init PROVE LogInv /\ Counts
    OBVIOUS
  <2>1. StoreInv
    BY InitInv
  <2>2. \A p \in Procs : pc[p] = "idle"
    BY DEF Init
  <2>3. BatchInv /\ \A p \in Procs : OwesLog(p)
    BY <2>2 DEF BatchInv, OwesLog, Holding, Acquiring
  <2> QED  BY <2>1, <2>3 DEF LogInv, Init, Counts
<1>2. Inv /\ [Next]_vars => Inv'
  BY LogStep, CountsGrow
<1> QED
  BY <1>1, <1>2, PTL DEF Spec

(* Of the steps only the last of an ingest tells its caller anything, and  *)
(* then of events the log has.                                             *)
LEMMA AckStep ==
  ASSUME LogInv, [Next]_vars, Durable' = Durable
  PROVE  [BL!Next]_<<DurableLog, {Published(e) : e \in acked}>>
<1>1. DurableLog' = DurableLog
  BY SameDurable
<1>2. CASE acked' = acked
  BY <1>1, <1>2
<1>3. ASSUME NEW p \in Procs, Release(p), pc[p] = "acked" PROVE BL!Acknowledge(batch[p]) /\ batch[p] \in Batches
  <2>1. batch[p] \in Batches
    BY <1>3 DEF LogInv, StoreInv, LockInv, BatchInv, Holding
  <2>2. /\ Covered(DurableLog, batch[p]) /\ Durable = journal
    BY <1>3 DEF LogInv, OwesLog
  <2>3. \A i \in DOMAIN batch[p] :
          \E e \in BL!Logged : e.key = batch[p][i].key /\ e.payload = batch[p][i].payload
    BY <2>2 DEF Covered, BL!Logged
  <2>4. acked' = acked \cup {e \in ToSet(Events(journal)) : \E d \in ToSet(batch[p]) : d.key = e.key}
    BY <1>3 DEF Release
  <2>5. BL!Logged = {Published(e) : e \in ToSet(Events(journal))}
    BY <2>2 DEF BL!Logged, DurableLog, ToSet, Events
  <2>6. \A e : Published(e).key = e.key
    BY DEF Published
  <2>7. {Published(e) : e \in acked'} =
          {Published(e) : e \in acked} \cup {e \in BL!Logged : \E i \in DOMAIN batch[p] : e.key = batch[p][i].key}
    BY <2>4, <2>5, <2>6 DEF ToSet
  <2> QED  BY <1>1, <2>1, <2>3, <2>7 DEF BL!Acknowledge
<1>4. acked' = acked \/ \E p \in Procs : Release(p) /\ pc[p] = "acked"
  BY DEF Next, vars, Tick, LockAges, Start, Step, Crash, ReadJournal, ReadSnapshot, FailLoad,
     Acquire, OpenLock, WritePid, WritePidFails, StatLock, ReadLock, TakeOver, Recovery, NothingPending, TruncateJournal, TruncateDedupe, RestoreSnapshot, DropPending, Load,
     Reject, WritePending, BeginAppend, EndAppend, BeginIndex, EndIndex, Checkpoint, UnlinkPending,
     WriteFails, Release
<1> QED
  BY <1>2, <1>3, <1>4 DEF BL!Next

(* The store implements the batch log (LongStore!ImplementsBatchLog), as   *)
(* long as at most one process recovers a lock left behind.                *)
THEOREM StoreImplementsBatchLog == Spec /\ []OneRecovers => ImplementsBatchLog
<1>1. Init => BL!Init
  <2> SUFFICES ASSUME Init PROVE BL!Init
    OBVIOUS
  <2>1. Durable = <<>> /\ acked = {}
    BY DEF Init, Durable
  <2> QED  BY <2>1 DEF BL!Init, DurableLog
<1>2. LogInv /\ OneRecovers /\ OneRecovers' /\ [Next]_vars
        => [BL!Next]_<<DurableLog, {Published(e) : e \in acked}>>
  <2> SUFFICES ASSUME LogInv, OneRecovers, OneRecovers', [Next]_vars
               PROVE  [BL!Next]_<<DurableLog, {Published(e) : e \in acked}>>
    OBVIOUS
  <2>1. CASE Durable' = Durable
    BY <2>1, AckStep
  <2>2. ASSUME NEW p \in Procs, pc[p] \in Holding,
               DurableLog' = DurableLog \o Sent(accepted[p]), acked' = acked,
               Due(DurableLog, batch[p], Sent(accepted[p]))
        PROVE  BL!Next
    <3>1. batch[p] \in Batches /\ batch[p] \in Seq(Drafts)
      BY <2>2, BatchType DEF LogInv, BatchInv, StoreInv, LockInv
    <3>2. PICK log \in Seq(LogEntries) : log = DurableLog
      BY DurableType DEF LogInv
    <3>3. PICK drafts \in Seq(Drafts) : drafts = batch[p]
      BY <3>1
    <3>4. PICK entries : entries = Sent(accepted[p])
      OBVIOUS
    <3>5. \E time \in 1..MaxTime : BL!AppendBatch(drafts, time)
      BY <2>2, <3>2, <3>3, <3>4, DueIsAppended
    <3> QED  BY <3>1, <3>3, <3>5 DEF BL!Next
  <2> QED  BY <2>1, <2>2, LogStep
<1> QED
  BY <1>1, <1>2, LogInvariant, PTL DEF Spec, ImplementsBatchLog, BL!Spec

=============================================================================
