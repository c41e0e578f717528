--------------------------- MODULE AlertWatchProofs ---------------------------
(***************************************************************************)
(* Proofs about AlertWatch, for any reports, policy and number of          *)
(* evaluations: no alert is lost, whichever watch runs and whatever fails; *)
(* what a watch remembers as open is what the journal says, and a notifier *)
(* is not told twice of one alert, as long as the history has room for one *)
(* alert of every kind; and reading one journal again counts nothing.      *)
(***************************************************************************)
EXTENDS AlertWatch, FiniteSetTheorems, FunctionTheorems, SequenceTheorems, TLAPS

-----------------------------------------------------------------------------
(* Parts of sequences.                                                     *)

(* A finite set is counted off by sets that grow from one of its elements  *)
(* to the next.                                                            *)
Growing(P, below) ==
  /\ IsFiniteSet(P) /\ below \in [P -> SUBSET P]
  /\ \A i \in P : i \in below[i]
  /\ \A i, j \in P : i # j => \/ below[i] \subseteq below[j] /\ j \notin below[i]
                              \/ below[j] \subseteq below[i] /\ i \notin below[j]

CountsOff(P, below) ==
  /\ Cardinality(P) \in Nat
  /\ \A i \in P : Cardinality(below[i]) \in 1..Cardinality(P)
  /\ \A i, j \in P : Cardinality(below[i]) = Cardinality(below[j]) => i = j
  /\ \A k \in 1..Cardinality(P) : \E i \in P : Cardinality(below[i]) = k

LEMMA CountedOff ==
  ASSUME NEW P, NEW below, Growing(P, below)
  PROVE  CountsOff(P, below)
<1>1. IsFiniteSet(P) /\ Cardinality(P) \in Nat
  BY FS_CardinalityType DEF Growing
<1>2. ASSUME NEW i \in P
      PROVE  /\ IsFiniteSet(below[i]) /\ Cardinality(below[i]) \in Nat
             /\ Cardinality(below[i]) \in 1..Cardinality(P)
  <2>1. below[i] \subseteq P /\ i \in below[i]
    BY DEF Growing
  <2>2. /\ IsFiniteSet(below[i]) /\ Cardinality(below[i]) \in Nat
        /\ Cardinality(below[i]) <= Cardinality(P)
    BY <1>1, <2>1, FS_Subset, FS_CardinalityType
  <2>3. Cardinality(below[i]) # 0
    BY <2>1, <2>2, FS_EmptySet
  <2> QED  BY <1>1, <2>2, <2>3
<1>3. ASSUME NEW i \in P, NEW j \in P, below[i] \subseteq below[j], j \notin below[i]
      PROVE  Cardinality(below[i]) # Cardinality(below[j])
  <2>1. j \in below[j] /\ below[i] # below[j]
    BY <1>3 DEF Growing
  <2> QED  BY <1>2, <1>3, <2>1, FS_Subset
<1>4. \A i, j \in P : Cardinality(below[i]) = Cardinality(below[j]) => i = j
  <2> SUFFICES ASSUME NEW i \in P, NEW j \in P, i # j
               PROVE  Cardinality(below[i]) # Cardinality(below[j])
    OBVIOUS
  <2> QED  BY <1>3 DEF Growing
<1>5. \A k \in 1..Cardinality(P) : \E i \in P : Cardinality(below[i]) = k
  <2> DEFINE T == 1..Cardinality(P)
             f == [i \in P |-> Cardinality(below[i])]
  <2>1. IsFiniteSet(T) /\ Cardinality(T) = Cardinality(P)
    <3>1. Cardinality(P) >= 1 => Cardinality(P) - 1 + 1 = Cardinality(P)
      BY <1>1
    <3> QED  BY <1>1, <3>1, FS_Interval
  <2>2. f \in Injection(P, T)
    BY <1>2, <1>4 DEF Injection, IsInjective
  <2> HIDE DEF T, f
  <2>3. f \in Surjection(P, T)
    BY <1>1, <2>1, <2>2, FS_Injection
  <2> QED  BY <2>3 DEF Surjection, f, T
<1> QED
  BY <1>1, <1>2, <1>4, <1>5 DEF CountsOff

Rank(places, i) == Cardinality({j \in places : j <= i})

(* The places of a finite set are counted off in their order.              *)
LEMMA Ranks ==
  ASSUME NEW n \in Nat, NEW places \in SUBSET (1..n)
  PROVE  /\ Cardinality(places) \in Nat
         /\ \A i \in places : Rank(places, i) \in 1..Cardinality(places)
         /\ \A i, j \in places : Rank(places, i) = Rank(places, j) => i = j
         /\ \A k \in 1..Cardinality(places) : \E i \in places : Rank(places, i) = k
<1> DEFINE below == [i \in places |-> {j \in places : j <= i}]
<1>1. IsFiniteSet(places)
  <2>1. IsFiniteSet(1..n)
    BY FS_Interval
  <2> QED  BY <2>1, FS_Subset
<1>2. \A i \in places : i \in Int
  OBVIOUS
<1>3. \A i, j \in places : i # j => \/ below[i] \subseteq below[j] /\ j \notin below[i]
                                    \/ below[j] \subseteq below[i] /\ i \notin below[j]
  <2>1. \A i, j, k \in places : i < j /\ k <= i => k <= j
    BY <1>2
  <2>2. \A i, j \in places : i # j => (i < j /\ ~(j <= i)) \/ (j < i /\ ~(i <= j))
    BY <1>2
  <2> QED  BY <2>1, <2>2
<1>4. below \in [places -> SUBSET places] /\ \A i \in places : i \in below[i]
  BY <1>2
<1>5. \A i \in places : below[i] = {j \in places : j <= i}
  OBVIOUS
<1> HIDE DEF below
<1>6. /\ Cardinality(places) \in Nat
      /\ \A i \in places : Cardinality(below[i]) \in 1..Cardinality(places)
      /\ \A i, j \in places : Cardinality(below[i]) = Cardinality(below[j]) => i = j
      /\ \A k \in 1..Cardinality(places) : \E i \in places : Cardinality(below[i]) = k
  <2>1. Growing(places, below)
    BY <1>1, <1>3, <1>4 DEF Growing
  <2>2. CountsOff(places, below)
    BY <2>1, CountedOff
  <2> QED  BY <2>2 DEF CountsOff
<1>7. \A i \in places : Cardinality(below[i]) = Rank(places, i)
  BY <1>5 DEF Rank
<1> QED
  BY <1>6, <1>7

LEMMA AtFacts ==
  ASSUME NEW S, NEW items \in Seq(S), NEW places \in SUBSET (DOMAIN items)
  PROVE  /\ At(items, places) \in Seq(S)
         /\ DOMAIN At(items, places) = 1..Cardinality(places)
         /\ \A k \in DOMAIN At(items, places) :
              \E i \in places : At(items, places)[k] = items[i] /\ Rank(places, i) = k
         /\ \A i \in places : \E k \in DOMAIN At(items, places) : At(items, places)[k] = items[i]
<1> DEFINE n == Cardinality(places)
           Is(i, k) == Cardinality({j \in places : j <= i}) = k
<1>1. places \in SUBSET (1..Len(items)) /\ Len(items) \in Nat
  OBVIOUS
<1>2. /\ n \in Nat
      /\ \A i \in places : Rank(places, i) \in 1..n
      /\ \A i, j \in places : Rank(places, i) = Rank(places, j) => i = j
      /\ \A k \in 1..n : \E i \in places : Rank(places, i) = k
  BY <1>1, Ranks
<1> HIDE DEF n
<1>3. \A k \in 1..n : Place(places, k) \in places /\ Rank(places, Place(places, k)) = k
  <2> TAKE k \in 1..n
  <2>1. Place(places, k) = CHOOSE i \in places : Is(i, k)
    BY DEF Place
  <2>2. \A i \in places : Is(i, k) <=> Rank(places, i) = k
    BY DEF Rank
  <2> HIDE DEF Is
  <2>3. \E i \in places : Is(i, k)
    BY <1>2, <2>2
  <2> QED  BY <2>1, <2>2, <2>3
<1>4. At(items, places) = [k \in 1..n |-> items[Place(places, k)]]
  BY DEF At, n
<1>5. \A i \in places : items[i] \in S
  BY <1>1
<1>6. At(items, places) \in Seq(S) /\ DOMAIN At(items, places) = 1..n
  BY <1>2, <1>3, <1>4, <1>5
<1>7. \A k \in 1..n : At(items, places)[k] = items[Place(places, k)]
  BY <1>4
<1>8. \A i \in places : Place(places, Rank(places, i)) = i
  BY <1>2, <1>3
<1> QED
  BY <1>2, <1>3, <1>6, <1>7, <1>8 DEF n

LEMMA MaxWithOne ==
  ASSUME NEW n \in Int
  PROVE  Max({1, n}) = IF n > 1 THEN n ELSE 1
<1>1. \E x \in {1, n} : \A y \in {1, n} : x >= y
  OBVIOUS
<1>2. Max({1, n}) \in {1, n} /\ \A y \in {1, n} : Max({1, n}) >= y
  BY <1>1 DEF Max
<1> QED
  BY <1>2

LEMMA LastOfFacts ==
  ASSUME NEW S, NEW items \in Seq(S), NEW n \in Nat \ {0}
  PROVE  /\ LastOf(items, n) \in Seq(S)
         /\ \E d \in Nat : \A i \in DOMAIN LastOf(items, n) :
              i + d \in DOMAIN items /\ LastOf(items, n)[i] = items[i + d]
         /\ Len(items) <= n => LastOf(items, n) = items
<1> DEFINE m == Max({1, Len(items) - n + 1})
<1>1. Len(items) \in Nat /\ Len(items) - n + 1 \in Int
  OBVIOUS
<1>2. m = IF Len(items) - n + 1 > 1 THEN Len(items) - n + 1 ELSE 1
  BY <1>1, MaxWithOne
<1> HIDE DEF m
<1>3. m \in Nat /\ m >= 1 /\ m <= Len(items) + 1
  BY <1>1, <1>2
<1>4. /\ LastOf(items, n) = SubSeq(items, m, Len(items))
      /\ LastOf(items, n) \in Seq(S) /\ Len(LastOf(items, n)) = Len(items) - m + 1
      /\ \A i \in 1..Len(items) - m + 1 : LastOf(items, n)[i] = items[i + m - 1]
  <2>1. LastOf(items, n) = SubSeq(items, m, Len(items))
    BY DEF LastOf, m
  <2>2. /\ SubSeq(items, m, Len(items)) \in Seq(S)
        /\ Len(SubSeq(items, m, Len(items))) = Len(items) - m + 1
        /\ \A i \in 1..Len(items) - m + 1 : SubSeq(items, m, Len(items))[i] = items[m + i - 1]
    BY <1>1, <1>3
  <2> QED  BY <1>3, <2>1, <2>2
<1>5. \A i \in DOMAIN LastOf(items, n) :
        i + (m - 1) \in DOMAIN items /\ LastOf(items, n)[i] = items[i + (m - 1)]
  <2>a. DOMAIN LastOf(items, n) = 1..Len(items) - m + 1
    BY <1>4, LenProperties
  <2>b. DOMAIN items = 1..Len(items)
    OBVIOUS
  <2> SUFFICES ASSUME NEW i \in 1..Len(items) - m + 1
               PROVE  i + (m - 1) \in 1..Len(items) /\ LastOf(items, n)[i] = items[i + (m - 1)]
    BY <2>a, <2>b, Zenon
  <2>1. i + m - 1 = i + (m - 1) /\ i + (m - 1) \in 1..Len(items)
    BY <1>1, <1>3
  <2>2. LastOf(items, n)[i] = items[i + m - 1]
    BY <1>4
  <2> QED  BY <2>1, <2>2
<1>6. m - 1 \in Nat
  BY <1>3
<1>7. Len(items) <= n => LastOf(items, n) = items
  <2> HAVE Len(items) <= n
  <2>1. m = 1
    BY <1>1, <1>2
  <2> QED  BY <1>4, <2>1, SubSeqFull
<1> QED
  BY <1>4, <1>5, <1>6, <1>7

(* Cutting from the front leaves fewer than the limit only if it cuts none.*)
LEMMA CutShort ==
  ASSUME NEW S, NEW items \in Seq(S), NEW n \in Nat \ {0},
         \A i, j \in DOMAIN items : items[i] = items[j] => i = j
  PROVE  /\ \A i, j \in DOMAIN LastOf(items, n) : LastOf(items, n)[i] = LastOf(items, n)[j] => i = j
         /\ Len(LastOf(items, n)) < n => LastOf(items, n) = items
<1> DEFINE cut == LastOf(items, n)
<1>1. /\ cut \in Seq(S)
      /\ \E d \in Nat : \A i \in DOMAIN cut : i + d \in DOMAIN items /\ cut[i] = items[i + d]
      /\ Len(items) <= n => cut = items
  BY LastOfFacts
<1>2. cut = SubSeq(items, Max({1, Len(items) - n + 1}), Len(items))
  BY DEF LastOf
<1> HIDE DEF cut
<1>3. DOMAIN cut = 1..Len(cut) /\ Len(cut) \in Nat
  BY <1>1
<1>4. \A i, j \in DOMAIN cut : cut[i] = cut[j] => i = j
  <2> TAKE i \in DOMAIN cut, j \in DOMAIN cut
  <2> HAVE cut[i] = cut[j]
  <2>1. PICK d \in Nat : \A k \in DOMAIN cut : k + d \in DOMAIN items /\ cut[k] = items[k + d]
    BY <1>1
  <2>2. i + d = j + d
    BY <2>1
  <2> QED  BY <1>3, <2>2
<1>5. Len(items) > n => Len(cut) = n
  <2> HAVE Len(items) > n
  <2> DEFINE x == Len(items) - n + 1
  <2>1. x \in Nat /\ x > 1 /\ x <= Len(items)
    OBVIOUS
  <2>2. Max({1, x}) = x
    <3> HIDE DEF x
    <3> QED  BY <2>1, MaxWithOne
  <2>3. cut = SubSeq(items, x, Len(items))
    BY <1>2, <2>2
  <2>4. Len(cut) = Len(items) - x + 1
    BY <2>1, <2>3
  <2> QED  BY <2>4
<1>6. Len(cut) < n => cut = items
  <2>1. Len(items) \in Nat
    OBVIOUS
  <2> QED  BY <1>1, <1>5, <2>1
<1> QED
  BY <1>4, <1>6 DEF cut

(* Places have a first and a last one.                                     *)
LEMMA Ends ==
  ASSUME NEW n \in Nat, NEW places \in SUBSET (1..n), places # {}
  PROVE  /\ Max(places) \in places /\ \A i \in places : i <= Max(places)
         /\ Min(places) \in places /\ \A i \in places : Min(places) <= i
<1> DEFINE c == Cardinality(places)
<1>1. /\ c \in Nat
      /\ \A i \in places : Rank(places, i) \in 1..c
      /\ \A i, j \in places : Rank(places, i) = Rank(places, j) => i = j
      /\ \A k \in 1..c : \E i \in places : Rank(places, i) = k
  BY Ranks
<1>2. \A i \in places : IsFiniteSet({j \in places : j <= i})
  <2>1. IsFiniteSet(1..n)
    BY FS_Interval
  <2> QED  BY <2>1, FS_Subset
<1> HIDE DEF c
<1>3. c >= 1
  <2>1. PICK i \in places : Rank(places, i) \in 1..c
    BY <1>1
  <2> QED  BY <1>1, <2>1
<1>4. \A i, j \in places : i <= j => Rank(places, i) <= Rank(places, j)
  <2> TAKE i \in places, j \in places
  <2> HAVE i <= j
  <2> DEFINE low  == {k \in places : k <= i}
             high == {k \in places : k <= j}
  <2>1. low \subseteq high
    <3>1. i \in Int /\ j \in Int /\ \A k \in places : k \in Int
      OBVIOUS
    <3>2. \A k \in places : k <= i => k <= j
      BY <3>1
    <3> QED  BY <3>2
  <2>2. IsFiniteSet(high)
    BY <1>2
  <2> HIDE DEF low, high
  <2>3. Cardinality(low) <= Cardinality(high)
    BY <2>1, <2>2, FS_Subset
  <2> QED  BY <2>3 DEF Rank, low, high
<1>5. \A i \in places : i \in Int
  OBVIOUS
<1>6. \E i \in places : \A j \in places : i >= j
  <2>1. PICK i \in places : Rank(places, i) = c
    BY <1>1, <1>3
  <2>2. \A j \in places : i >= j
    <3> TAKE j \in places
    <3>1. CASE j <= i
      BY <1>5, <3>1
    <3>2. CASE i <= j
      <4>1. Rank(places, j) = c
        BY <1>1, <1>4, <2>1, <3>2
      <4> QED  BY <1>1, <1>5, <2>1, <4>1
    <3> QED  BY <1>5, <3>1, <3>2
  <2> QED  BY <2>2
<1>7. \E i \in places : \A j \in places : i =< j
  <2>1. PICK i \in places : Rank(places, i) = 1
    BY <1>1, <1>3
  <2>2. \A j \in places : i <= j
    <3> TAKE j \in places
    <3>1. CASE i <= j
      BY <3>1
    <3>2. CASE j <= i
      <4>1. Rank(places, j) = 1
        BY <1>1, <1>4, <2>1, <3>2
      <4> QED  BY <1>1, <1>5, <2>1, <4>1
    <3> QED  BY <1>5, <3>1, <3>2
  <2> QED  BY <2>2
<1>8. Max(places) \in places /\ \A j \in places : Max(places) >= j
  BY <1>6 DEF Max
<1>9. Min(places) \in places /\ \A j \in places : Min(places) <= j
  BY <1>7 DEF Min
<1> QED
  BY <1>5, <1>8, <1>9

(* What is ordered by its keys is there once each.                         *)
LEMMA ByKeyFacts ==
  ASSUME NEW n \in Nat, NEW places \in SUBSET (1..n), NEW key \in [places -> Nat]
  PROVE  /\ ByKey(key) \in Seq(places)
         /\ \A i, j \in DOMAIN ByKey(key) : ByKey(key)[i] = ByKey(key)[j] => i = j
         /\ ToSet(ByKey(key)) = places
<1> DEFINE below == [i \in places |-> {j \in places : key[j] < key[i] \/ (key[j] = key[i] /\ j <= i)}]
           c == Cardinality(places)
           at(k) == CHOOSE i \in places :
                      Cardinality({j \in places : key[j] < key[i] \/ (key[j] = key[i] /\ j <= i)}) = k
<1>1. IsFiniteSet(places)
  <2>1. IsFiniteSet(1..n)
    BY FS_Interval
  <2> QED  BY <2>1, FS_Subset
<1>2. \A i \in places : i \in Int /\ key[i] \in Int
  OBVIOUS
<1>3. \A i, j \in places : i # j => \/ below[i] \subseteq below[j] /\ j \notin below[i]
                                    \/ below[j] \subseteq below[i] /\ i \notin below[j]
  <2> DEFINE Upto(i, j) == key[i] < key[j] \/ (key[i] = key[j] /\ i <= j)
  <2>1. \A i, j, k \in places : Upto(i, j) /\ Upto(k, i) => Upto(k, j)
    BY <1>2
  <2>2. \A i, j \in places : i # j => (Upto(i, j) /\ ~Upto(j, i)) \/ (Upto(j, i) /\ ~Upto(i, j))
    BY <1>2
  <2>3. \A i \in places : below[i] = {j \in places : Upto(j, i)}
    OBVIOUS
  <2> HIDE DEF Upto, below
  <2>4. ASSUME NEW i \in places, NEW j \in places, Upto(i, j), ~Upto(j, i)
        PROVE  below[i] \subseteq below[j] /\ j \notin below[i]
    BY <2>1, <2>3, <2>4
  <2> QED  BY <2>2, <2>4
<1>4. below \in [places -> SUBSET places] /\ \A i \in places : i \in below[i]
  BY <1>2
<1>5. \A i \in places : below[i] = {j \in places : key[j] < key[i] \/ (key[j] = key[i] /\ j <= i)}
  OBVIOUS
<1>6. ByKey(key) = [k \in 1..c |-> at(k)]
  <2> DEFINE Sorted(P) ==
               [k \in 1..Cardinality(P) |->
                  CHOOSE i \in P :
                    Cardinality({j \in P : key[j] < key[i] \/ (key[j] = key[i] /\ j <= i)}) = k]
  <2>1. ByKey(key) = Sorted(DOMAIN key) /\ Sorted(places) = [k \in 1..c |-> at(k)]
    BY DEF ByKey
  <2>2. DOMAIN key = places
    OBVIOUS
  <2> HIDE DEF Sorted, at, c
  <2> QED  BY <2>1, <2>2
<1> HIDE DEF below
<1>7. /\ Cardinality(places) \in Nat
      /\ \A i \in places : Cardinality(below[i]) \in 1..Cardinality(places)
      /\ \A i, j \in places : Cardinality(below[i]) = Cardinality(below[j]) => i = j
      /\ \A k \in 1..Cardinality(places) : \E i \in places : Cardinality(below[i]) = k
  <2>1. Growing(places, below)
    BY <1>1, <1>3, <1>4 DEF Growing
  <2>2. CountsOff(places, below)
    BY <2>1, CountedOff
  <2> QED  BY <2>2 DEF CountsOff
<1>8. \A k \in 1..c : at(k) \in places /\ Cardinality(below[at(k)]) = k
  <2> TAKE k \in 1..c
  <2>1. \E i \in places :
          Cardinality({j \in places : key[j] < key[i] \/ (key[j] = key[i] /\ j <= i)}) = k
    BY <1>5, <1>7
  <2> QED  BY <1>5, <2>1
<1> HIDE DEF at, c
<1>9. c \in Nat /\ ByKey(key) \in [1..c -> places]
  BY <1>6, <1>7, <1>8 DEF c
<1>10. \A i \in places : at(Cardinality(below[i])) = i /\ Cardinality(below[i]) \in 1..c
  BY <1>7, <1>8 DEF c
<1>11. \A k \in 1..c : ByKey(key)[k] = at(k)
  BY <1>6
<1>12. ByKey(key) \in Seq(places) /\ DOMAIN ByKey(key) = 1..c
  BY <1>9
<1>13. \A i, j \in 1..c : at(i) = at(j) => i = j
  BY <1>8
<1>14. ToSet(ByKey(key)) = places
  BY <1>8, <1>10, <1>11, <1>12 DEF ToSet
<1> QED
  BY <1>11, <1>12, <1>13, <1>14

(* Without duplicates: everything is still there, and what comes first and *)
(* has none stays.                                                         *)
LEMMA DistinctFacts ==
  ASSUME NEW S, NEW items \in Seq(S)
  PROVE  /\ Distinct(items) \in Seq(S)
         /\ \A i, j \in DOMAIN Distinct(items) : Distinct(items)[i] = Distinct(items)[j] => i = j
         /\ ToSet(Distinct(items)) = ToSet(items)
         /\ \A m \in 0..Len(items) :
              (\A i, j \in 1..m : items[i] = items[j] => i = j) => m <= Len(Distinct(items))
<1> DEFINE firsts == {i \in DOMAIN items : \A j \in 1..i - 1 : items[j] # items[i]}
           d == At(items, firsts)
           L == Len(items)
<1>1. Distinct(items) = d
  BY DEF Distinct
<1>2. L \in Nat /\ DOMAIN items = 1..L
  OBVIOUS
<1>3. firsts \in SUBSET DOMAIN items
  OBVIOUS
<1>4. \A i \in DOMAIN items : i \in firsts <=> \A j \in 1..i - 1 : items[j] # items[i]
  OBVIOUS
<1> HIDE DEF firsts
<1>5. /\ d \in Seq(S) /\ DOMAIN d = 1..Cardinality(firsts)
      /\ \A k \in DOMAIN d : \E i \in firsts : d[k] = items[i] /\ Rank(firsts, i) = k
      /\ \A i \in firsts : \E k \in DOMAIN d : d[k] = items[i]
  BY <1>3, AtFacts
<1> HIDE DEF d, L
<1>6. \A i, j \in firsts : items[i] = items[j] => i = j
  <2> TAKE i \in firsts, j \in firsts
  <2> HAVE items[i] = items[j]
  <2>1. i \in 1..L /\ j \in 1..L
    BY <1>2, <1>3
  <2>2. ~(i < j)
    <3> SUFFICES ASSUME i < j PROVE FALSE
      OBVIOUS
    <3>1. i \in 1..j - 1
      BY <1>2, <2>1
    <3> QED  BY <1>2, <1>4, <2>1, <3>1
  <2>3. ~(j < i)
    <3> SUFFICES ASSUME j < i PROVE FALSE
      OBVIOUS
    <3>1. j \in 1..i - 1
      BY <1>2, <2>1
    <3> QED  BY <1>2, <1>4, <2>1, <3>1
  <2> QED  BY <1>2, <2>1, <2>2, <2>3
<1>7. \A i, j \in DOMAIN d : d[i] = d[j] => i = j
  <2> TAKE i \in DOMAIN d, j \in DOMAIN d
  <2> HAVE d[i] = d[j]
  <2>1. PICK x \in firsts : d[i] = items[x] /\ Rank(firsts, x) = i
    BY <1>5
  <2>2. PICK y \in firsts : d[j] = items[y] /\ Rank(firsts, y) = j
    BY <1>5
  <2> QED  BY <1>6, <2>1, <2>2
<1>8. \A i \in DOMAIN items : \E k \in firsts : items[k] = items[i]
  <2> TAKE i \in DOMAIN items
  <2> DEFINE alike == {j \in 1..L : items[j] = items[i]}
  <2>1. alike \in SUBSET (1..L) /\ alike # {} /\ L \in Nat
    BY <1>2
  <2>2. \A j \in 1..L : j \in alike <=> items[j] = items[i]
    OBVIOUS
  <2> HIDE DEF alike
  <2>3. Min(alike) \in alike /\ \A j \in alike : Min(alike) <= j
    BY <2>1, Ends
  <2>4. PICK k \in alike : \A j \in alike : k <= j
    BY <2>3
  <2>5. k \in 1..L /\ items[k] = items[i]
    BY <2>1, <2>2, <2>4
  <2>6. \A j \in 1..k - 1 : items[j] # items[k]
    <3> TAKE j \in 1..k - 1
    <3>1. j \in 1..L /\ ~(k <= j)
      BY <1>2, <2>5
    <3> QED  BY <2>2, <2>4, <2>5, <3>1
  <2>7. k \in firsts
    BY <1>2, <1>4, <2>5, <2>6
  <2> QED  BY <2>5, <2>7
<1>9. ToSet(d) = ToSet(items)
  <2>1. \A k \in DOMAIN d : \E i \in DOMAIN items : d[k] = items[i]
    BY <1>3, <1>5
  <2>2. \A i \in DOMAIN items : \E k \in DOMAIN d : d[k] = items[i]
    BY <1>5, <1>8
  <2> QED  BY <2>1, <2>2 DEF ToSet
<1>10. ASSUME NEW m \in 0..L, \A i, j \in 1..m : items[i] = items[j] => i = j
       PROVE  m <= Len(d)
  <2>1. \A i \in 1..m : i \in firsts
    <3> TAKE i \in 1..m
    <3>1. i \in DOMAIN items
      BY <1>2
    <3>2. \A j \in 1..i - 1 : j \in 1..m /\ i # j
      BY <1>2
    <3> QED  BY <1>4, <1>10, <3>1, <3>2
  <2>2. 1..m \subseteq firsts
    BY <2>1
  <2>3. IsFiniteSet(firsts) /\ Cardinality(firsts) \in Nat
    <3>1. IsFiniteSet(1..L)
      BY <1>2, FS_Interval
    <3>2. IsFiniteSet(firsts)
      BY <1>2, <1>3, <3>1, FS_Subset
    <3> QED  BY <3>2, FS_CardinalityType
  <2>4. Cardinality(1..m) <= Cardinality(firsts)
    BY <2>2, <2>3, FS_Subset
  <2>5. Cardinality(1..m) = m
    BY <1>2, FS_Interval
  <2>6. Len(d) = Cardinality(firsts)
    BY <1>5, <2>3
  <2> QED  BY <2>4, <2>5, <2>6
<1> QED
  BY <1>1, <1>5, <1>7, <1>9, <1>10 DEF L

(* A sequence is one of its own items.                                      *)
LEMMA OfItsItems ==
  ASSUME NEW S, NEW s \in Seq(S)
  PROVE  s \in Seq(ToSet(s))
<1>1. s \in [1..Len(s) -> S] /\ Len(s) \in Nat
  OBVIOUS
<1>2. s \in [1..Len(s) -> ToSet(s)]
  BY <1>1 DEF ToSet
<1> QED
  BY <1>1, <1>2

(* Its beginning stays when it grows.                                       *)
LEMMA Longer ==
  ASSUME NEW S, NEW events \in Seq(S), NEW e, NEW n \in 0..Len(events)
  PROVE  SubSeq(Append(events, e), 1, n) = SubSeq(events, 1, n)
<1>1. events \in [1..Len(events) -> S \cup {e}] /\ Len(events) \in Nat
  OBVIOUS
<1>2. events \in Seq(S \cup {e})
  BY <1>1
<1> DEFINE longer == Append(events, e)
<1>3. /\ longer \in Seq(S \cup {e}) /\ Len(longer) = Len(events) + 1
      /\ \A i \in 1..Len(events) : longer[i] = events[i]
  BY <1>2
<1> HIDE DEF longer
<1>4. SubSeq(longer, 1, n) = [i \in 1..n |-> longer[i]]
  BY <1>1, <1>3
<1>5. SubSeq(events, 1, n) = [i \in 1..n |-> events[i]]
  BY <1>1
<1>6. \A i \in 1..n : longer[i] = events[i]
  BY <1>1, <1>3
<1> QED
  BY <1>4, <1>5, <1>6 DEF longer

-----------------------------------------------------------------------------
(* Alerts, and what a policy that meets them makes of them.  Of the        *)
(* evidence nothing needs to be known.                                     *)

IsAlert(a) ==
  /\ a = [kind |-> a.kind, status |-> a.status, first |-> a.first, last |-> a.last,
          count |-> a.count, evidence |-> a.evidence]
  /\ a.kind \in ToSet(Kinds) /\ a.status \in {"open", "recovered"}

KnownAlerts(alerts) ==
  /\ alerts \in Seq(ToSet(alerts))
  /\ \A i \in DOMAIN alerts : IsAlert(alerts[i])
  /\ \A i, j \in DOMAIN alerts : alerts[i].kind = alerts[j].kind => i = j

Ids(alerts) == {Id(a) : a \in ToSet(alerts)}

OpenIds(alerts) == {Id(a) : a \in {b \in ToSet(alerts) : b.status = "open"}}

Fresh(k, events, t) == NewAlert(k, EvidenceFor(k, events, t), Len(events))

Meets(a, events, t) ==
  IF Active(a.kind, events, t)
    THEN IF a.status = "open" THEN Repeat(a, EvidenceFor(a.kind, events, t), Len(events))
         ELSE NewAlert(a.kind, EvidenceFor(a.kind, events, t), Len(events))
  ELSE IF a.status = "open" THEN Recover(a, Len(events)) ELSE a

LEMMA FreshFacts ==
  ASSUME NEW k \in ToSet(Kinds), NEW events, NEW t
  PROVE  /\ IsAlert(Fresh(k, events, t))
         /\ Fresh(k, events, t).kind = k /\ Fresh(k, events, t).status = "open"
  BY DEF IsAlert, Fresh, NewAlert

LEMMA MeetsFacts ==
  ASSUME NEW a, IsAlert(a), NEW events, NEW t
  PROVE  /\ IsAlert(Meets(a, events, t))
         /\ Meets(a, events, t).kind = a.kind
         /\ Meets(a, events, t).status = "open" <=> Active(a.kind, events, t)
         /\ Active(a.kind, events, t) /\ a.status = "open" => Id(Meets(a, events, t)) = Id(a)
         /\ Active(a.kind, events, t) /\ a.status # "open" =>
              Meets(a, events, t) = Fresh(a.kind, events, t)
<1> DEFINE ev == EvidenceFor(a.kind, events, t)
           n  == Len(events)
<1>1. a.kind \in ToSet(Kinds) /\ a.status \in {"open", "recovered"}
  BY DEF IsAlert
<1>2. PICK kind, status, first, last, count, evidence :
        a = [kind |-> kind, status |-> status, first |-> first, last |-> last,
             count |-> count, evidence |-> evidence]
  BY DEF IsAlert
<1> HIDE DEF ev, n
<1>3. CASE Active(a.kind, events, t) /\ a.status = "open"
  <2>1. Meets(a, events, t) = Repeat(a, ev, n)
    BY <1>3 DEF Meets, ev, n
  <2> DEFINE x == IF n = 0 THEN a.last ELSE n
             y == IF NewOccurrence(a, ev, n) THEN a.count + 1 ELSE a.count
             z == LastOf(Distinct(a.evidence \o ev), MaxEvidence)
  <2>2. Repeat(a, ev, n) = [a EXCEPT !.last = x, !.count = y, !.evidence = z]
    BY DEF Repeat
  <2> HIDE DEF x, y, z
  <2>3. Repeat(a, ev, n) = [kind |-> kind, status |-> status, first |-> first,
                            last |-> x, count |-> y, evidence |-> z]
    BY <1>2, <2>2
  <2> QED  BY <1>1, <1>2, <1>3, <2>1, <2>3 DEF IsAlert, Id
<1>4. CASE Active(a.kind, events, t) /\ a.status # "open"
  <2>1. Meets(a, events, t) = Fresh(a.kind, events, t)
    BY <1>4 DEF Meets, Fresh
  <2> QED  BY <1>1, <1>4, <2>1, FreshFacts
<1>5. CASE ~Active(a.kind, events, t) /\ a.status = "open"
  <2>1. Meets(a, events, t) = Recover(a, n)
    BY <1>5 DEF Meets, n
  <2> DEFINE x == IF n = 0 THEN a.last ELSE n
  <2>2. Recover(a, n) = [a EXCEPT !.status = "recovered", !.last = x]
    BY DEF Recover
  <2> HIDE DEF x
  <2>3. Recover(a, n) = [kind |-> kind, status |-> "recovered", first |-> first,
                         last |-> x, count |-> count, evidence |-> evidence]
    BY <1>2, <2>2
  <2> QED  BY <1>1, <1>2, <1>5, <2>1, <2>3 DEF IsAlert
<1>6. CASE ~Active(a.kind, events, t) /\ a.status # "open"
  BY <1>6 DEF Meets
<1> QED
  BY <1>3, <1>4, <1>5, <1>6

(* There are only so many alerts of different kinds.                       *)
LEMMA RoomForAll ==
  ASSUME NEW alerts, KnownAlerts(alerts)
  PROVE  Len(alerts) <= Len(Kinds)
<1> DEFINE m == Len(alerts)
           n == Len(Kinds)
           place(k) == CHOOSE j \in 1..n : Kinds[j] = k
           f == [i \in 1..m |-> place(alerts[i].kind)]
<1>1. m \in Nat /\ DOMAIN alerts = 1..m
  BY DEF KnownAlerts
<1>2. n = 7 /\ DOMAIN Kinds = 1..n
  BY DEF Kinds
<1> HIDE DEF n, m
<1>3. \A k \in ToSet(Kinds) : place(k) \in 1..n /\ Kinds[place(k)] = k
  BY <1>2 DEF ToSet
<1> HIDE DEF place
<1>4. \A i \in 1..m : alerts[i].kind \in ToSet(Kinds)
  BY <1>1 DEF KnownAlerts, IsAlert
<1>5. f \in [1..m -> 1..n]
  BY <1>3, <1>4
<1>6. \A i, j \in 1..m : f[i] = f[j] => alerts[i].kind = alerts[j].kind
  BY <1>3, <1>4
<1>7. \A i, j \in 1..m : f[i] = f[j] => i = j
  BY <1>1, <1>6 DEF KnownAlerts
<1> HIDE DEF f
<1>8. f \in Injection(1..m, 1..n)
  BY <1>5, <1>7 DEF Injection, IsInjective
<1>9. /\ IsFiniteSet(1..n) /\ Cardinality(1..n) = n
      /\ IsFiniteSet(1..m) /\ Cardinality(1..m) = m
  <2>1. 1 \in Int /\ n \in Int /\ m \in Int
    BY <1>1, <1>2
  <2>2. IsFiniteSet(1..n) /\ IsFiniteSet(1..m)
    BY <2>1, FS_Interval
  <2>3. n \in Nat => Cardinality(1..n) = n
    BY FS_Interval
  <2>4. Cardinality(1..m) = m
    BY <1>1, FS_Interval
  <2> QED  BY <1>2, <2>2, <2>3, <2>4
<1>10. Cardinality(1..m) <= Cardinality(1..n)
  BY <1>8, <1>9, FS_Injection
<1> QED
  BY <1>9, <1>10 DEF m, n

(* The kinds at some places of Kinds, with an alert raised for each.       *)
Places(kinds) == {i \in DOMAIN Kinds : Kinds[i] \in kinds}

Raised(kinds, events, t) ==
  [i \in DOMAIN At(Kinds, Places(kinds)) |-> Fresh(At(Kinds, Places(kinds))[i], events, t)]

LEMMA RaisedFacts ==
  ASSUME NEW kinds \in SUBSET ToSet(Kinds), NEW events, NEW t
  PROVE  /\ KnownAlerts(Raised(kinds, events, t))
         /\ ToSet(Raised(kinds, events, t)) = {Fresh(k, events, t) : k \in kinds}
<1> DEFINE ks == At(Kinds, Places(kinds))
           rs == Raised(kinds, events, t)
<1>1. Kinds \in Seq(ToSet(Kinds)) /\ DOMAIN Kinds = 1..7
  BY DEF Kinds, ToSet
<1>2. \A i, j \in DOMAIN Kinds : Kinds[i] = Kinds[j] => i = j
  BY DEF Kinds
<1>3. \A k \in kinds : \E i \in DOMAIN Kinds : Kinds[i] = k
  BY DEF ToSet
<1>4. Places(kinds) \in SUBSET DOMAIN Kinds
  BY DEF Places
<1>5. PICK n : DOMAIN ks = 1..n /\ n \in Nat
  <2>1. DOMAIN ks = 1..Cardinality(Places(kinds))
    BY <1>1, <1>4, AtFacts
  <2>2. Places(kinds) \in SUBSET (1..7)
    BY <1>1, <1>4
  <2>3. Cardinality(Places(kinds)) \in Nat
    BY <2>2, Ranks
  <2> QED  BY <2>1, <2>3
<1>6. /\ \A k \in DOMAIN ks : \E i \in Places(kinds) : ks[k] = Kinds[i] /\ Rank(Places(kinds), i) = k
      /\ \A i \in Places(kinds) : \E k \in DOMAIN ks : ks[k] = Kinds[i]
  BY <1>1, <1>4, AtFacts
<1>7. rs = [i \in DOMAIN ks |-> Fresh(ks[i], events, t)]
  BY DEF Raised
<1> HIDE DEF ks, rs
<1>8. \A i \in DOMAIN ks : ks[i] \in kinds
  BY <1>6 DEF Places
<1>9. \A i, j \in DOMAIN ks : ks[i] = ks[j] => i = j
  <2> TAKE i \in DOMAIN ks, j \in DOMAIN ks
  <2> HAVE ks[i] = ks[j]
  <2>1. PICK a \in Places(kinds) : ks[i] = Kinds[a] /\ Rank(Places(kinds), a) = i
    BY <1>6
  <2>2. PICK b \in Places(kinds) : ks[j] = Kinds[b] /\ Rank(Places(kinds), b) = j
    BY <1>6
  <2>3. a = b
    BY <1>2, <1>4, <2>1, <2>2
  <2> QED  BY <2>1, <2>2, <2>3
<1>10. \A k \in kinds : \E i \in DOMAIN ks : ks[i] = k
  BY <1>3, <1>6 DEF Places
<1>11. ToSet(rs) = {Fresh(k, events, t) : k \in kinds}
  BY <1>7, <1>8, <1>10 DEF ToSet
<1>12. rs \in Seq(ToSet(rs))
  <2>1. rs \in [1..n -> ToSet(rs)]
    BY <1>5, <1>7, <1>8, <1>11
  <2> QED  BY <1>5, <2>1
<1>13. \A i \in DOMAIN rs : IsAlert(rs[i]) /\ rs[i].kind = ks[i]
  BY <1>7, <1>8, FreshFacts
<1>14. KnownAlerts(rs)
  BY <1>7, <1>9, <1>12, <1>13 DEF KnownAlerts
<1> QED
  BY <1>11, <1>14 DEF rs

(* An evaluation in these terms.                                           *)
Onsets(prior, events, t) == {k \in ToSet(Kinds) : Active(k, events, t) /\ ~IsOpen(prior, k)}

Unknown(prior, events, t) ==
  {k \in Onsets(prior, events, t) : \A a \in ToSet(prior) : a.kind # k}

All(prior, events, t) ==
  [i \in DOMAIN prior |-> Meets(prior[i], events, t)] \o Raised(Unknown(prior, events, t), events, t)

LEMMA EvaluateForm ==
  ASSUME NEW prior, NEW events, NEW t
  PROVE  /\ EvaluatePolicy(prior, events, t).alerts =
              LastOf(All(prior, Observed(events, t), t), MaxHistory)
         /\ EvaluatePolicy(prior, events, t).raised =
              Raised(Onsets(prior, Observed(events, t), t), Observed(events, t), t)
<1> QED
  BY DEF EvaluatePolicy, All, Meets, Raised, Fresh, Places, Unknown, Onsets

LEMMA ConcatFacts ==
  ASSUME NEW S, NEW T, NEW a \in Seq(S), NEW b \in Seq(T)
  PROVE  /\ a \o b \in Seq(S \cup T)
         /\ ToSet(a \o b) = ToSet(a) \cup ToSet(b)
         /\ \A i \in DOMAIN (a \o b) :
              IF i \in DOMAIN a THEN (a \o b)[i] = a[i]
              ELSE i - Len(a) \in DOMAIN b /\ (a \o b)[i] = b[i - Len(a)]
<1>1. a \in Seq(S \cup T) /\ b \in Seq(S \cup T)
  <2>1. a \in [1..Len(a) -> S] /\ Len(a) \in Nat /\ b \in [1..Len(b) -> T] /\ Len(b) \in Nat
    OBVIOUS
  <2>2. a \in [1..Len(a) -> S \cup T] /\ b \in [1..Len(b) -> S \cup T]
    BY <2>1
  <2> QED  BY <2>1, <2>2
<1>2. a \o b \in Seq(S \cup T) /\ Len(a \o b) = Len(a) + Len(b)
  BY <1>1
<1>3. /\ Len(a) \in Nat /\ Len(b) \in Nat
      /\ DOMAIN a = 1..Len(a) /\ DOMAIN b = 1..Len(b) /\ DOMAIN (a \o b) = 1..Len(a) + Len(b)
  BY <1>1, <1>2
<1>4. \A i \in 1..Len(a) : (a \o b)[i] = a[i]
  BY <1>1
<1>5. \A i \in 1..Len(a) + Len(b) : i > Len(a) => (a \o b)[i] = b[i - Len(a)]
  BY <1>1
<1>6. \A i \in 1..Len(a) + Len(b) : i \notin 1..Len(a) => i > Len(a) /\ i - Len(a) \in 1..Len(b)
  BY <1>3
<1>7. \A i \in 1..Len(b) : i + Len(a) \in 1..Len(a) + Len(b) /\ i + Len(a) > Len(a)
                           /\ (i + Len(a)) - Len(a) = i
  BY <1>3
<1>8. \A i \in 1..Len(a) : i \in 1..Len(a) + Len(b)
  BY <1>3
<1>9. \A x : x \in ToSet(a \o b) <=> x \in ToSet(a) \cup ToSet(b)
  <2> TAKE x
  <2>1. ASSUME x \in ToSet(a \o b) PROVE x \in ToSet(a) \cup ToSet(b)
    BY <2>1, <1>3, <1>4, <1>5, <1>6 DEF ToSet
  <2>2. ASSUME x \in ToSet(a) PROVE x \in ToSet(a \o b)
    BY <2>2, <1>3, <1>4, <1>8 DEF ToSet
  <2>3. ASSUME x \in ToSet(b) PROVE x \in ToSet(a \o b)
    <3>1. PICK i \in 1..Len(b) : x = b[i]
      BY <2>3, <1>3 DEF ToSet
    <3>2. x = (a \o b)[i + Len(a)] /\ i + Len(a) \in DOMAIN (a \o b)
      BY <3>1, <1>3, <1>5, <1>7
    <3> QED  BY <3>2 DEF ToSet
  <2> QED  BY <2>1, <2>2, <2>3
<1> QED
  BY <1>2, <1>3, <1>4, <1>5, <1>6, <1>9

LEMMA AllFacts ==
  ASSUME NEW prior, KnownAlerts(prior), NEW events, NEW t
  PROVE  /\ KnownAlerts(All(prior, events, t))
         /\ OpenKinds(All(prior, events, t)) = {k \in ToSet(Kinds) : Active(k, events, t)}
         /\ OpenIds(All(prior, events, t)) \subseteq
              OpenIds(prior) \cup Ids(Raised(Onsets(prior, events, t), events, t))
         /\ ToSet(All(prior, events, t)) =
              {Meets(a, events, t) : a \in ToSet(prior)} \cup
              {Fresh(k, events, t) : k \in Unknown(prior, events, t)}
<1> DEFINE onsets  == Onsets(prior, events, t)
           unknown == Unknown(prior, events, t)
           met     == [i \in DOMAIN prior |-> Meets(prior[i], events, t)]
           new     == Raised(unknown, events, t)
           all     == All(prior, events, t)
<1>1. all = met \o new
  BY DEF All
<1>2. onsets \in SUBSET ToSet(Kinds) /\ unknown \in SUBSET onsets
  BY DEF Onsets, Unknown
<1>3. /\ KnownAlerts(new)
      /\ ToSet(new) = {Fresh(k, events, t) : k \in unknown}
      /\ ToSet(Raised(onsets, events, t)) = {Fresh(k, events, t) : k \in onsets}
  <2>1. onsets \in SUBSET ToSet(Kinds) /\ unknown \in SUBSET ToSet(Kinds)
    BY <1>2
  <2> HIDE DEF onsets, unknown
  <2> QED  BY <2>1, RaisedFacts
<1>4. prior \in Seq(ToSet(prior)) /\ \A i \in DOMAIN prior : IsAlert(prior[i])
  BY DEF KnownAlerts
<1>5. DOMAIN met = DOMAIN prior /\ \A i \in DOMAIN prior : met[i] = Meets(prior[i], events, t)
  OBVIOUS
<1>6. met \in Seq(ToSet(met))
  <2>1. Len(prior) \in Nat /\ DOMAIN met = 1..Len(prior)
    BY <1>4, <1>5
  <2> HIDE DEF met
  <2>2. met \in [1..Len(prior) -> ToSet(met)]
    <3>1. met = [i \in 1..Len(prior) |-> met[i]]
      BY <2>1 DEF met
    <3>2. \A i \in 1..Len(prior) : met[i] \in ToSet(met)
      BY <2>1 DEF ToSet
    <3> QED  BY <3>1, <3>2
  <2> QED  BY <2>1, <2>2
<1>7. ToSet(met) = {Meets(a, events, t) : a \in ToSet(prior)}
  BY <1>5 DEF ToSet
<1>8. new \in Seq(ToSet(new))
  BY <1>3 DEF KnownAlerts
<1>9. \A a \in ToSet(prior) : IsAlert(a)
  BY <1>4 DEF ToSet
<1>10. \A k \in unknown : k \in ToSet(Kinds) /\ \A a \in ToSet(prior) : a.kind # k
  BY <1>2 DEF Unknown
<1>11. \A k \in onsets : Active(k, events, t) /\ k \in ToSet(Kinds) /\ ~IsOpen(prior, k)
  BY DEF Onsets
<1>12. \A k \in ToSet(Kinds) :
         Active(k, events, t) => k \in unknown \/ \E a \in ToSet(prior) : a.kind = k
  BY DEF Onsets, Unknown, IsOpen
<1>13. \A a \in ToSet(prior) :
         Active(a.kind, events, t) /\ a.status # "open" => a.kind \in onsets
  <2> TAKE a \in ToSet(prior)
  <2> HAVE Active(a.kind, events, t) /\ a.status # "open"
  <2>1. \A b \in ToSet(prior) : b.kind = a.kind => b = a
    BY DEF KnownAlerts, ToSet
  <2>2. a.kind \in ToSet(Kinds)
    BY <1>9 DEF IsAlert
  <2> QED  BY <2>1, <2>2 DEF Onsets, IsOpen
<1> HIDE DEF onsets, unknown, met, new, all
<1>14. /\ all \in Seq(ToSet(met) \cup ToSet(new))
       /\ ToSet(all) = ToSet(met) \cup ToSet(new)
       /\ \A i \in DOMAIN all :
            IF i \in DOMAIN met THEN all[i] = met[i]
            ELSE i - Len(met) \in DOMAIN new /\ all[i] = new[i - Len(met)]
  <2> DEFINE A == ToSet(met)
             B == ToSet(new)
  <2>1. met \in Seq(A) /\ new \in Seq(B)
    BY <1>6, <1>8
  <2> HIDE DEF A, B
  <2>2. /\ met \o new \in Seq(A \cup B)
        /\ ToSet(met \o new) = ToSet(met) \cup ToSet(new)
        /\ \A i \in DOMAIN (met \o new) :
             IF i \in DOMAIN met THEN (met \o new)[i] = met[i]
             ELSE i - Len(met) \in DOMAIN new /\ (met \o new)[i] = new[i - Len(met)]
    BY <2>1, ConcatFacts
  <2> QED  BY <1>1, <2>2, Zenon DEF A, B
<1>15. \A i \in DOMAIN prior : IsAlert(met[i]) /\ met[i].kind = prior[i].kind
  BY <1>4, <1>5, MeetsFacts
<1>16. \A i \in DOMAIN new : IsAlert(new[i]) /\ new[i].kind \in unknown
  <2> TAKE i \in DOMAIN new
  <2>1. new[i] \in ToSet(new)
    BY DEF ToSet
  <2>2. PICK k \in unknown : new[i] = Fresh(k, events, t)
    BY <1>3, <2>1
  <2> QED  BY <1>10, <2>2, FreshFacts
<1>17. \A i \in DOMAIN all : IsAlert(all[i])
  BY <1>5, <1>14, <1>15, <1>16
<1>18. \A i, j \in DOMAIN all : all[i].kind = all[j].kind => i = j
  <2>1. \A i, j \in DOMAIN prior : prior[i].kind = prior[j].kind => i = j
    BY DEF KnownAlerts
  <2>2. \A i, j \in DOMAIN new : new[i].kind = new[j].kind => i = j
    BY <1>3 DEF KnownAlerts
  <2>3. \A i \in DOMAIN prior, j \in DOMAIN new : prior[i].kind # new[j].kind
    BY <1>10, <1>16 DEF ToSet
  <2>4. DOMAIN all \subseteq Int /\ Len(met) \in Int
    BY <1>6, <1>14
  <2> TAKE i \in DOMAIN all, j \in DOMAIN all
  <2> HAVE all[i].kind = all[j].kind
  <2>5. CASE i \in DOMAIN met /\ j \in DOMAIN met
    BY <2>1, <2>5, <1>5, <1>14, <1>15
  <2>6. CASE i \in DOMAIN met /\ j \notin DOMAIN met
    BY <2>3, <2>6, <1>5, <1>14, <1>15
  <2>7. CASE i \notin DOMAIN met /\ j \in DOMAIN met
    BY <2>3, <2>7, <1>5, <1>14, <1>15
  <2>8. CASE i \notin DOMAIN met /\ j \notin DOMAIN met
    <3>1. i - Len(met) = j - Len(met)
      BY <2>2, <2>8, <1>14
    <3>2. i \in Int /\ j \in Int
      BY <2>4
    <3> QED  BY <2>4, <3>1, <3>2
  <2> QED  BY <2>5, <2>6, <2>7, <2>8
<1>19. KnownAlerts(all)
  BY <1>14, <1>17, <1>18, OfItsItems DEF KnownAlerts
<1>20. OpenKinds(all) = {k \in ToSet(Kinds) : Active(k, events, t)}
  <2> SUFFICES ASSUME NEW k \in ToSet(Kinds)
               PROVE  IsOpen(all, k) <=> Active(k, events, t)
    BY DEF OpenKinds
  <2>1. ASSUME IsOpen(all, k) PROVE Active(k, events, t)
    <3>1. PICK a \in ToSet(met) \cup ToSet(new) : a.kind = k /\ a.status = "open"
      BY <2>1, <1>14 DEF IsOpen
    <3>2. CASE a \in ToSet(met)
      <4>1. PICK b \in ToSet(prior) : a = Meets(b, events, t)
        BY <1>7, <3>2
      <4> QED  BY <1>9, <3>1, <4>1, MeetsFacts
    <3>3. CASE a \in ToSet(new)
      <4>1. PICK x \in unknown : a = Fresh(x, events, t)
        BY <1>3, <3>3
      <4>2. x = k
        BY <1>10, <3>1, <4>1, FreshFacts
      <4> QED  BY <1>2, <1>11, <4>2
    <3> QED  BY <3>1, <3>2, <3>3
  <2>2. ASSUME Active(k, events, t) PROVE IsOpen(all, k)
    <3>1. CASE k \in unknown
      <4>1. Fresh(k, events, t) \in ToSet(all)
        BY <1>3, <1>14, <3>1
      <4> QED  BY <4>1, FreshFacts DEF IsOpen
    <3>2. CASE \E a \in ToSet(prior) : a.kind = k
      <4>1. PICK a \in ToSet(prior) : a.kind = k
        BY <3>2
      <4>2. Meets(a, events, t) \in ToSet(all)
        BY <1>7, <1>14
      <4>3. Meets(a, events, t).kind = k /\ Meets(a, events, t).status = "open"
        BY <1>9, <2>2, <4>1, MeetsFacts
      <4> QED  BY <4>2, <4>3 DEF IsOpen
    <3> QED  BY <1>12, <2>2, <3>1, <3>2
  <2> QED  BY <2>1, <2>2
<1>21. OpenIds(all) \subseteq OpenIds(prior) \cup Ids(Raised(onsets, events, t))
  <2> SUFFICES ASSUME NEW a \in ToSet(met) \cup ToSet(new), a.status = "open"
               PROVE  Id(a) \in OpenIds(prior) \cup Ids(Raised(onsets, events, t))
    BY <1>14 DEF OpenIds
  <2>1. CASE a \in ToSet(met)
    <3>1. PICK b \in ToSet(prior) : a = Meets(b, events, t)
      BY <1>7, <2>1
    <3>2. Active(b.kind, events, t)
      BY <1>9, <3>1, MeetsFacts
    <3>3. CASE b.status = "open"
      <4>1. Id(a) = Id(b)
        BY <1>9, <3>1, <3>2, <3>3, MeetsFacts
      <4> QED  BY <3>3, <4>1 DEF OpenIds
    <3>4. CASE b.status # "open"
      <4>1. a = Fresh(b.kind, events, t)
        BY <1>9, <3>1, <3>2, <3>4, MeetsFacts
      <4>2. a \in ToSet(Raised(onsets, events, t))
        BY <1>3, <1>13, <3>2, <3>4, <4>1
      <4> QED  BY <4>2 DEF Ids
    <3> QED  BY <3>3, <3>4
  <2>2. CASE a \in ToSet(new)
    <3>1. a \in ToSet(Raised(onsets, events, t))
      BY <1>2, <1>3, <2>2
    <3> QED  BY <3>1 DEF Ids
  <2> QED  BY <2>1, <2>2
<1>22. ToSet(all) = {Meets(a, events, t) : a \in ToSet(prior)} \cup {Fresh(k, events, t) : k \in unknown}
  BY <1>3, <1>7, <1>14
<1> QED
  BY <1>19, <1>20, <1>21, <1>22 DEF all, onsets, unknown

LEMMA CutFacts ==
  ASSUME NEW alerts, KnownAlerts(alerts), NEW n \in Nat \ {0}
  PROVE  /\ KnownAlerts(LastOf(alerts, n))
         /\ ToSet(LastOf(alerts, n)) \subseteq ToSet(alerts)
         /\ OpenIds(LastOf(alerts, n)) \subseteq OpenIds(alerts)
         /\ n >= Len(Kinds) => LastOf(alerts, n) = alerts
<1> DEFINE cut == LastOf(alerts, n)
           S == ToSet(alerts)
<1>1. alerts \in Seq(S)
  BY DEF KnownAlerts
<1> HIDE DEF S, cut
<1>2. LastOf(alerts, n) \in Seq(S)
  BY <1>1, LastOfFacts
<1>3. PICK d \in Nat : \A i \in DOMAIN LastOf(alerts, n) :
        i + d \in DOMAIN alerts /\ LastOf(alerts, n)[i] = alerts[i + d]
  BY <1>1, LastOfFacts
<1>4. Len(alerts) <= n => LastOf(alerts, n) = alerts
  BY <1>1, LastOfFacts
<1>5. cut \in Seq(S) /\ \A i \in DOMAIN cut : i + d \in DOMAIN alerts /\ cut[i] = alerts[i + d]
  BY <1>2, <1>3 DEF cut
<1>6. \A i, j \in DOMAIN cut : cut[i].kind = cut[j].kind => i = j
  <2> TAKE i \in DOMAIN cut, j \in DOMAIN cut
  <2> HAVE cut[i].kind = cut[j].kind
  <2>1. i + d = j + d
    BY <1>5 DEF KnownAlerts
  <2>2. i \in Int /\ j \in Int /\ d \in Int
    BY <1>5
  <2> QED  BY <2>1, <2>2
<1>7. KnownAlerts(cut)
  BY <1>5, <1>6, OfItsItems DEF KnownAlerts
<1>8. ToSet(cut) \subseteq ToSet(alerts)
  BY <1>5 DEF ToSet
<1>9. n >= Len(Kinds) => Len(alerts) <= n
  <2>1. Len(alerts) <= Len(Kinds)
    BY RoomForAll
  <2>2. Len(Kinds) = 7 /\ Len(alerts) \in Nat
    BY <1>1 DEF Kinds
  <2> QED  BY <2>1, <2>2
<1> QED
  BY <1>4, <1>7, <1>8, <1>9 DEF cut, OpenIds

(* What an evaluation makes of the alerts before it: none of them is       *)
(* forgotten or made up, and with room for all kinds the open ones are     *)
(* those whose conditions hold.                                            *)
LEMMA EvaluateFacts ==
  ASSUME NEW prior, KnownAlerts(prior), NEW events, NEW t
  PROVE  LET found == EvaluatePolicy(prior, events, t)
         IN  /\ KnownAlerts(found.alerts)
             /\ OpenIds(found.alerts) \subseteq OpenIds(prior) \cup Ids(found.raised)
             /\ found.raised \in Seq(ToSet(found.raised))
             /\ MaxHistory >= Len(Kinds) =>
                  OpenKinds(found.alerts) =
                    {k \in ToSet(Kinds) : Active(k, Observed(events, t), t)}
<1> DEFINE observed == Observed(events, t)
           all      == All(prior, observed, t)
           onsets   == Onsets(prior, observed, t)
           found    == EvaluatePolicy(prior, events, t)
<1>1. MaxHistory \in Nat \ {0}
  BY WatchAssumption
<1>2. found.alerts = LastOf(all, MaxHistory) /\ found.raised = Raised(onsets, observed, t)
  BY EvaluateForm
<1>3. onsets \in SUBSET ToSet(Kinds)
  BY DEF Onsets
<1> HIDE DEF observed, found
<1>4. /\ KnownAlerts(all)
      /\ OpenKinds(all) = {k \in ToSet(Kinds) : Active(k, observed, t)}
      /\ OpenIds(all) \subseteq OpenIds(prior) \cup Ids(Raised(onsets, observed, t))
  BY AllFacts
<1> HIDE DEF all, onsets
<1>5. /\ KnownAlerts(found.alerts)
      /\ OpenIds(found.alerts) \subseteq OpenIds(all)
      /\ MaxHistory >= Len(Kinds) => found.alerts = all
  BY <1>1, <1>2, <1>4, CutFacts
<1>6. found.raised \in Seq(ToSet(found.raised))
  <2>1. KnownAlerts(Raised(onsets, observed, t))
    BY <1>3, RaisedFacts
  <2>2. KnownAlerts(found.raised)
    BY <1>2, <2>1, Zenon
  <2> HIDE DEF found
  <2> QED  BY <2>2 DEF KnownAlerts
<1>7. OpenIds(found.alerts) \subseteq OpenIds(prior) \cup Ids(found.raised)
  BY <1>2, <1>4, <1>5
<1>8. MaxHistory >= Len(Kinds) =>
        OpenKinds(found.alerts) = {k \in ToSet(Kinds) : Active(k, observed, t)}
  BY <1>4, <1>5
<1> QED
  BY <1>5, <1>6, <1>7, <1>8 DEF found, observed

LEMMA NewFacts ==
  ASSUME NEW prior, NEW raised, raised \in Seq(ToSet(raised))
  PROVE  /\ NewAlerts(raised, prior) \in Seq(ToSet(raised))
         /\ Ids(raised) \subseteq OpenIds(prior) \cup Ids(NewAlerts(raised, prior))
<1> DEFINE places == {i \in DOMAIN raised :
                        \A b \in ToSet(prior) : b.status = "open" => Id(b) # Id(raised[i])}
<1>1. NewAlerts(raised, prior) = At(raised, places)
  BY DEF NewAlerts
<1>2. places \in SUBSET DOMAIN raised
  OBVIOUS
<1>3. \A i \in DOMAIN raised : i \in places \/ Id(raised[i]) \in OpenIds(prior)
  BY DEF OpenIds
<1> HIDE DEF places
<1>4. /\ At(raised, places) \in Seq(ToSet(raised))
      /\ \A i \in places : \E k \in DOMAIN At(raised, places) : At(raised, places)[k] = raised[i]
  <2> DEFINE S == ToSet(raised)
  <2>1. raised \in Seq(S)
    OBVIOUS
  <2> HIDE DEF S
  <2>2. /\ At(raised, places) \in Seq(S)
        /\ \A i \in places : \E k \in DOMAIN At(raised, places) : At(raised, places)[k] = raised[i]
    BY <1>2, <2>1, AtFacts
  <2> QED  BY <2>2 DEF S
<1>5. \A i \in places : raised[i] \in ToSet(At(raised, places))
  BY <1>4 DEF ToSet
<1>6. Ids(raised) \subseteq OpenIds(prior) \cup Ids(At(raised, places))
  BY <1>3, <1>5 DEF Ids, ToSet
<1> QED
  BY <1>1, <1>4, <1>6

-----------------------------------------------------------------------------
(* The invariant: what a watch holds at every point of an evaluation.      *)

ActiveIn(events, b) ==
  {k \in ToSet(Kinds) : Active(k, Observed(SubSeq(events, 1, b.events), b.at), b.at)}

(* Alerts are what an evaluation of this part of the journal leaves open.  *)
Faithful(alerts, events, b) ==
  /\ b \in [events : Nat, at : Nat] /\ b.events <= Len(events)
  /\ MaxHistory >= Len(Kinds) => OpenKinds(alerts) = ActiveIn(events, b)

Shapes ==
  /\ journal \in Seq(ToSet(journal)) /\ sent \in Seq(ToSet(sent))
  /\ now \in Nat /\ stamp \in Nat
  /\ pc \in {"off", "ready", "load", "notify"}
  /\ KnownAlerts(memory)

Remembered == IF basis = NoBasis THEN memory = <<>> ELSE Faithful(memory, journal, basis)

(* A stream remembers what its notifier has not had only while it waits    *)
(* for the notifier.                                                       *)
Delivered == (pc = "notify" /\ mode = "stream") \/ OpenIds(memory) \subseteq ToSet(sent)

Pending ==
  pc = "notify" =>
    /\ KnownAlerts(result.alerts) /\ Faithful(result.alerts, journal, result.basis)
    /\ result.new \in Seq(ToSet(result.new))
    /\ OpenIds(result.alerts) \subseteq ToSet(sent) \cup Ids(result.new)
    /\ mode = "stream" => memory = result.alerts

WatchInv == Shapes /\ Remembered /\ Delivered /\ Pending

LEMMA EmptyAlerts ==
  KnownAlerts(<<>>) /\ OpenIds(<<>>) = {}
BY DEF KnownAlerts, OpenIds, ToSet

LEMMA InitWatch == Init => WatchInv
<1> SUFFICES ASSUME Init PROVE WatchInv
  OBVIOUS
<1>1. <<>> \in Seq(ToSet(<<>>))
  OBVIOUS
<1> QED
  BY <1>1, EmptyAlerts DEF Init, WatchInv, Shapes, Remembered, Delivered, Pending

(* More of the journal changes nothing of what its beginning says.         *)
LEMMA FaithfulStays ==
  ASSUME NEW S, NEW events \in Seq(S), NEW e, NEW alerts, NEW b, Faithful(alerts, events, b)
  PROVE  Faithful(alerts, Append(events, e), b)
<1>1. b.events \in 0..Len(events) /\ Len(events) \in Nat
  BY DEF Faithful
<1>2. events \in Seq(S \cup {e}) /\ Append(events, e) \in Seq(S \cup {e})
  <2>1. events \in [1..Len(events) -> S \cup {e}] /\ Len(events) \in Nat
    OBVIOUS
  <2>2. events \in Seq(S \cup {e})
    BY <2>1
  <2> QED  BY <2>2
<1>3. /\ Len(Append(events, e)) = Len(events) + 1
      /\ \A i \in 1..Len(events) : Append(events, e)[i] = events[i]
  BY <1>2
<1>4. SubSeq(Append(events, e), 1, b.events) = SubSeq(events, 1, b.events)
  BY <1>1, Longer
<1>5. ActiveIn(Append(events, e), b) = ActiveIn(events, b)
  BY <1>4 DEF ActiveIn
<1>6. b.events <= Len(Append(events, e))
  BY <1>1, <1>3
<1> QED
  BY <1>5, <1>6 DEF Faithful

LEMMA EvaluateKeeps ==
  ASSUME WatchInv, Evaluate
  PROVE  WatchInv'
<1> DEFINE found == EvaluatePolicy(memory, journal, stamp)
           here  == [events |-> Len(journal), at |-> stamp]
           new   == NewAlerts(found.raised, memory)
<1>1. /\ pc = "load" /\ pc' = "notify" /\ stamp' = 0
      /\ result' = [alerts |-> found.alerts, new |-> new, recovered |-> found.recovered,
                    basis |-> here]
      /\ IF mode = "stream" THEN memory' = found.alerts /\ basis' = here
         ELSE UNCHANGED <<memory, basis>>
      /\ UNCHANGED <<journal, now, mode, sent>>
  BY DEF Evaluate
<1>2. /\ KnownAlerts(memory) /\ OpenIds(memory) \subseteq ToSet(sent)
      /\ journal \in Seq(ToSet(journal)) /\ sent \in Seq(ToSet(sent)) /\ now \in Nat /\ stamp \in Nat
  BY <1>1 DEF WatchInv, Shapes, Delivered
<1>3. /\ KnownAlerts(found.alerts)
      /\ OpenIds(found.alerts) \subseteq OpenIds(memory) \cup Ids(found.raised)
      /\ found.raised \in Seq(ToSet(found.raised))
      /\ MaxHistory >= Len(Kinds) =>
           OpenKinds(found.alerts) = {k \in ToSet(Kinds) : Active(k, Observed(journal, stamp), stamp)}
  BY <1>2, EvaluateFacts
<1> HIDE DEF found
<1>4. /\ new \in Seq(ToSet(found.raised))
      /\ Ids(found.raised) \subseteq OpenIds(memory) \cup Ids(new)
  BY <1>3, NewFacts
<1> HIDE DEF new
<1>5. new \in Seq(ToSet(new))
  BY <1>4, OfItsItems
<1>6. OpenIds(found.alerts) \subseteq ToSet(sent) \cup Ids(new)
  BY <1>2, <1>3, <1>4
<1>7. Len(journal) \in Nat /\ SubSeq(journal, 1, Len(journal)) = journal
  BY <1>2, SubSeqFull
<1>8. /\ here \in [events : Nat, at : Nat] /\ here.events = Len(journal) /\ here.at = stamp
  BY <1>2, <1>7
<1> HIDE DEF here
<1>9. ActiveIn(journal, here) = {k \in ToSet(Kinds) : Active(k, Observed(journal, stamp), stamp)}
  BY <1>7, <1>8 DEF ActiveIn
<1>10. Faithful(found.alerts, journal, here)
  BY <1>3, <1>7, <1>8, <1>9 DEF Faithful
<1>11. here # NoBasis
  BY <1>8, WatchAssumption
<1>12. Shapes'
  BY <1>1, <1>2, <1>3 DEF Shapes
<1>13. Remembered'
  <2>1. CASE mode = "stream"
    BY <1>1, <1>10, <1>11, <2>1 DEF Remembered
  <2>2. CASE mode # "stream"
    BY <1>1, <2>2 DEF WatchInv, Remembered
  <2> QED  BY <2>1, <2>2
<1>14. Delivered'
  BY <1>1, <1>2 DEF Delivered
<1>15. Pending'
  <2>1. /\ result'.alerts = found.alerts /\ result'.new = new /\ result'.basis = here
    BY <1>1
  <2> QED  BY <1>1, <1>3, <1>5, <1>6, <1>10, <2>1 DEF Pending
<1> QED
  BY <1>12, <1>13, <1>14, <1>15 DEF WatchInv

LEMMA FailKeeps ==
  ASSUME WatchInv, pc = "load" \/ pc = "notify", Fail
  PROVE  WatchInv'
<1>1. result' = NoResult /\ stamp' = 0 /\ UNCHANGED <<journal, now, mode>>
  BY DEF Fail
<1>2. CASE mode = "sibling"
  <2>1. pc' = "ready" /\ UNCHANGED <<memory, basis, sent>>
    BY <1>2 DEF Fail
  <2> QED
    BY <1>1, <1>2, <2>1 DEF WatchInv, Shapes, Remembered, Delivered, Pending
<1>3. CASE mode # "sibling"
  <2>1. pc' = "off" /\ memory' = <<>> /\ basis' = NoBasis /\ sent' = <<>>
    BY <1>3 DEF Fail, End
  <2>2. <<>> \in Seq(ToSet(<<>>))
    OBVIOUS
  <2> QED
    BY <1>1, <2>1, <2>2, EmptyAlerts DEF WatchInv, Shapes, Remembered, Delivered, Pending
<1> QED
  BY <1>2, <1>3

LEMMA NotifyKeeps ==
  ASSUME WatchInv, Notify
  PROVE  WatchInv'
<1> DEFINE ids == [i \in DOMAIN result.new |-> Id(result.new[i])]
<1>1. /\ pc = "notify" /\ pc' = "ready" /\ sent' = sent \o ids /\ result' = NoResult
      /\ IF mode = "stream" THEN UNCHANGED <<memory, basis>>
         ELSE memory' = result.alerts /\ basis' = result.basis
      /\ UNCHANGED <<journal, now, mode, stamp>>
  BY DEF Notify
<1>2. /\ KnownAlerts(result.alerts) /\ Faithful(result.alerts, journal, result.basis)
      /\ result.new \in Seq(ToSet(result.new))
      /\ OpenIds(result.alerts) \subseteq ToSet(sent) \cup Ids(result.new)
      /\ mode = "stream" => memory = result.alerts
  BY <1>1 DEF WatchInv, Pending
<1>3. sent \in Seq(ToSet(sent))
  BY DEF WatchInv, Shapes
<1>4. ids \in Seq(Ids(result.new)) /\ ToSet(ids) = Ids(result.new)
  <2> DEFINE new == result.new
             S == ToSet(new)
  <2>1. new \in Seq(S)
    BY <1>2
  <2>2. ids = [i \in DOMAIN new |-> Id(new[i])] /\ \A i \in DOMAIN new : new[i] \in ToSet(new)
    BY DEF ToSet
  <2> HIDE DEF new, S, ids
  <2>3. DOMAIN new = 1..Len(new) /\ Len(new) \in Nat
    BY <2>1
  <2>4. ids \in [1..Len(new) -> Ids(new)]
    BY <2>2, <2>3 DEF Ids
  <2>5. ids \in Seq(Ids(new))
    BY <2>3, <2>4
  <2>6. ToSet(ids) = Ids(new)
    BY <2>2 DEF ToSet, Ids
  <2> QED  BY <2>5, <2>6 DEF new
<1> HIDE DEF ids
<1>5. sent \o ids \in Seq(ToSet(sent \o ids)) /\ ToSet(sent \o ids) = ToSet(sent) \cup Ids(result.new)
  <2> DEFINE A == ToSet(sent)
             B == Ids(result.new)
  <2>1. sent \in Seq(A) /\ ids \in Seq(B)
    BY <1>3, <1>4
  <2> HIDE DEF A, B
  <2>2. sent \o ids \in Seq(A \cup B) /\ ToSet(sent \o ids) = ToSet(sent) \cup ToSet(ids)
    BY <2>1, ConcatFacts
  <2>3. sent \o ids \in Seq(ToSet(sent \o ids))
    BY <2>2, OfItsItems
  <2> QED  BY <1>4, <2>2, <2>3
<1>6. Shapes'
  BY <1>1, <1>2, <1>5 DEF WatchInv, Shapes
<1>7. Remembered'
  <2>1. CASE mode = "stream"
    BY <1>1, <2>1 DEF WatchInv, Remembered
  <2>2. CASE mode # "stream"
    <3>1. result.basis # NoBasis
      BY <1>2, WatchAssumption DEF Faithful
    <3> QED  BY <1>1, <1>2, <2>2, <3>1 DEF Remembered
  <2> QED  BY <2>1, <2>2
<1>8. memory' = result.alerts
  BY <1>1, <1>2
<1>9. Delivered'
  BY <1>1, <1>2, <1>5, <1>8 DEF Delivered
<1>10. Pending'
  BY <1>1 DEF Pending
<1> QED
  BY <1>6, <1>7, <1>9, <1>10 DEF WatchInv

LEMMA IngestKeeps ==
  ASSUME WatchInv, Ingest
  PROVE  WatchInv'
<1>1. PICK e : journal' = Append(journal, e)
  BY DEF Ingest
<1>2. UNCHANGED <<now, mode, pc, stamp, memory, basis, result, sent>>
  BY DEF Ingest, watch
<1>3. journal \in Seq(ToSet(journal))
  BY DEF WatchInv, Shapes
<1>4. journal' \in Seq(ToSet(journal'))
  <2> DEFINE S == ToSet(journal)
  <2>1. journal \in Seq(S)
    BY <1>3
  <2> HIDE DEF S
  <2>2. journal \in [1..Len(journal) -> S \cup {e}] /\ Len(journal) \in Nat
    BY <2>1
  <2>3. journal \in Seq(S \cup {e})
    BY <2>2
  <2>4. Append(journal, e) \in Seq(S \cup {e})
    BY <2>3
  <2> QED  BY <1>1, <2>4, OfItsItems
<1>5. \A alerts, b : Faithful(alerts, journal, b) => Faithful(alerts, journal', b)
  <2> DEFINE S == ToSet(journal)
  <2>1. journal \in Seq(S)
    BY <1>3
  <2> HIDE DEF S
  <2> QED  BY <1>1, <2>1, FaithfulStays
<1>6. Shapes'
  BY <1>2, <1>4 DEF WatchInv, Shapes
<1>7. Remembered'
  BY <1>2, <1>5 DEF WatchInv, Remembered
<1>8. Delivered' /\ Pending'
  BY <1>2, <1>5 DEF WatchInv, Delivered, Pending
<1> QED
  BY <1>6, <1>7, <1>8 DEF WatchInv

LEMMA WatchStep == WatchInv /\ [Next]_vars => WatchInv'
<1> SUFFICES ASSUME WatchInv, [Next]_vars PROVE WatchInv'
  OBVIOUS
<1>1. CASE Start
  BY <1>1 DEF Start, WatchInv, Shapes, Remembered, Delivered, Pending
<1>2. CASE Quit
  <2>1. <<>> \in Seq(ToSet(<<>>))
    OBVIOUS
  <2> QED
    BY <1>2, <2>1, EmptyAlerts DEF Quit, End, WatchInv, Shapes, Remembered, Delivered, Pending
<1>3. CASE Ask
  BY <1>3 DEF Ask, WatchInv, Shapes, Remembered, Delivered, Pending
<1>4. CASE Evaluate
  BY <1>4, EvaluateKeeps
<1>5. CASE LoadFails
  BY <1>5, FailKeeps DEF LoadFails
<1>6. CASE Notify
  BY <1>6, NotifyKeeps
<1>7. CASE NotifyFails
  BY <1>7, FailKeeps DEF NotifyFails
<1>8. CASE Ingest
  BY <1>8, IngestKeeps
<1>9. CASE Tick
  BY <1>9 DEF Tick, watch, WatchInv, Shapes, Remembered, Delivered, Pending
<1>10. CASE UNCHANGED vars
  BY <1>10 DEF vars, WatchInv, Shapes, Remembered, Delivered, Pending
<1> QED
  BY <1>1, <1>2, <1>3, <1>4, <1>5, <1>6, <1>7, <1>8, <1>9, <1>10 DEF Next

LEMMA Watching == Spec => []WatchInv
BY InitWatch, WatchStep, PTL DEF Spec

-----------------------------------------------------------------------------
(* No alert is lost, for any reports, thresholds and limits of the policy: *)
(* whatever a watch remembers as open between its evaluations its notifier *)
(* has taken, in a stream, which remembers before it notifies, and in a    *)
(* cockpit, which does after; across failed loads and notifications, and   *)
(* whatever of the history the policy cuts off (src/src/long/watch.ts:29,  *)
(* src/src/long/policy.ts:22).                                             *)
THEOREM NoAlertIsLost == Spec => []OpenWasSent
<1>1. WatchInv => OpenWasSent
  BY DEF WatchInv, Delivered, OpenIds, OpenWasSent
<1> QED
  BY <1>1, Watching, PTL

(* The open alerts a watch remembers are the conditions that held in the   *)
(* part of the journal they come from, as long as the history may hold one *)
(* alert of every kind: the policy cuts longer histories from the front    *)
(* (src/src/long/policy.ts:53; the limit is any positive number, see       *)
(* src/src/long/schemas.ts:35), and an open alert that is cut off is not   *)
(* closed but forgotten.                                                   *)
THEOREM OpenIsActive ==
  ASSUME MaxHistory >= Len(Kinds)
  PROVE  Spec => []OpenMeansActive
<1>1. WatchInv => OpenMeansActive
  <2> SUFFICES ASSUME WatchInv, basis # NoBasis
               PROVE  OpenKinds(memory) = ActiveAt(basis)
    BY DEF WatchInv, Remembered, OpenMeansActive
  <2>1. OpenKinds(memory) = ActiveIn(journal, basis)
    BY DEF WatchInv, Remembered, Faithful
  <2> QED  BY <2>1 DEF ActiveIn, ActiveAt
<1> QED
  BY <1>1, Watching, PTL

-----------------------------------------------------------------------------
(* What the signals say of one and the same events as time goes by.        *)

Timed(events) ==
  /\ events \in Seq(ToSet(events))
  /\ \A i \in DOMAIN events : events[i].at \in Nat

Ordered(events) ==
  \A i, j \in DOMAIN events : i <= j => events[i].at <= events[j].at

(* The events that an evaluation sees are the first ones.                  *)
LEMMA ObservedIsPrefix ==
  ASSUME NEW events, Timed(events), Ordered(events), NEW t \in Nat
  PROVE  \E n \in 0..Len(events) :
           /\ Observed(events, t) = SubSeq(events, 1, n)
           /\ \A i \in DOMAIN events : events[i].at <= t <=> i <= n
<1> DEFINE places == {i \in DOMAIN events : events[i].at <= t}
           n == Cardinality(places)
           L == Len(events)
           S == ToSet(events)
<1>1. Observed(events, t) = At(events, places)
  BY DEF Observed, Where
<1>2. events \in Seq(S) /\ \A i \in DOMAIN events : events[i].at \in Nat
  BY DEF Timed
<1> HIDE DEF S
<1>3. L \in Nat /\ DOMAIN events = 1..L
  BY <1>2
<1>4. places \in SUBSET (1..L)
  BY <1>3
<1>5. \A i \in places : \A j \in 1..i : j \in places
  <2> TAKE i \in places
  <2> TAKE j \in 1..i
  <2>1. j \in DOMAIN events /\ j <= i /\ i \in DOMAIN events
    BY <1>3
  <2>2. events[j].at <= events[i].at /\ events[i].at <= t
    BY <2>1 DEF Ordered
  <2>3. events[j].at \in Nat /\ events[i].at \in Nat
    BY <1>2, <2>1
  <2> QED  BY <2>1, <2>2, <2>3
<1>6. \A i \in DOMAIN events : events[i].at <= t <=> i \in places
  OBVIOUS
<1> HIDE DEF places, L
<1>7. \A i \in places : Rank(places, i) = i
  <2> TAKE i \in places
  <2>1. i \in 1..L
    BY <1>4
  <2>2. {j \in places : j <= i} = 1..i
    <3>1. ASSUME NEW j \in places, j <= i PROVE j \in 1..i
      BY <1>3, <1>4, <2>1, <3>1
    <3>2. ASSUME NEW j \in 1..i PROVE j \in places /\ j <= i
      BY <1>5, <2>1
    <3> QED  BY <3>1, <3>2
  <2>3. Cardinality(1..i) = i
    BY <2>1, <1>3, FS_Interval
  <2> QED  BY <2>2, <2>3 DEF Rank
<1>8. /\ n \in Nat
      /\ \A i \in places : Rank(places, i) \in 1..n
      /\ \A k \in 1..n : \E i \in places : Rank(places, i) = k
  BY <1>3, <1>4, Ranks
<1> HIDE DEF n
<1>9. places = 1..n
  BY <1>7, <1>8
<1>10. n <= L
  <2>1. n \in 1..n \/ n = 0
    BY <1>8
  <2> QED  BY <1>3, <1>4, <1>9, <2>1
<1>11. At(events, places) = SubSeq(events, 1, n)
  <2>1. /\ DOMAIN At(events, places) = 1..n
        /\ \A k \in DOMAIN At(events, places) :
             \E i \in places : At(events, places)[k] = events[i] /\ Rank(places, i) = k
    <3>1. places \in SUBSET (DOMAIN events)
      BY <1>3, <1>4
    <3> HIDE DEF n
    <3>2. DOMAIN At(events, places) = 1..Cardinality(places)
      BY <1>2, <3>1, AtFacts
    <3>3. \A k \in DOMAIN At(events, places) :
            \E i \in places : At(events, places)[k] = events[i] /\ Rank(places, i) = k
      BY <1>2, <3>1, AtFacts
    <3> QED  BY <3>2, <3>3 DEF n
  <2>2. \A k \in 1..n : At(events, places)[k] = events[k]
    <3> TAKE k \in 1..n
    <3>1. PICK i \in places : At(events, places)[k] = events[i] /\ Rank(places, i) = k
      BY <2>1
    <3> QED  BY <1>7, <3>1
  <2>3. SubSeq(events, 1, n) = [k \in 1..n |-> events[k]]
    BY <1>2, <1>3, <1>8, <1>10 DEF L
  <2>4. At(events, places) = [k \in 1..n |-> At(events, places)[k]]
    BY <2>1 DEF At
  <2> QED  BY <2>2, <2>3, <2>4
<1>12. \A i \in DOMAIN events : i \in places <=> i <= n
  BY <1>3, <1>8, <1>9
<1> QED
  BY <1>1, <1>3, <1>6, <1>8, <1>10, <1>11, <1>12 DEF L

(* Failures leave the window, and with them repetitions.                   *)
LEMMA FailuresShrink ==
  ASSUME NEW events, Timed(events), NEW t \in Nat, NEW u \in Nat, t <= u
  PROVE  /\ Failures(events, u) \subseteq Failures(events, t)
         /\ RepeatedFailures(events, u) \subseteq RepeatedFailures(events, t)
         /\ IsFiniteSet(Failures(events, t))
<1>1. \A v : Failures(events, v) =
               {i \in DOMAIN events : events[i].failure # NoFailure /\ events[i].at + FailureWindow >= v}
  BY DEF Failures, Where
<1>2. Failures(events, u) \subseteq Failures(events, t)
  <2>1. FailureWindow \in Nat
    BY ThresholdAssumption
  <2>2. \A i \in DOMAIN events : events[i].at \in Nat
    BY DEF Timed
  <2> QED  BY <1>1, <2>1, <2>2
<1>3. \A v : IsFiniteSet(Failures(events, v))
  <2>1. DOMAIN events = 1..Len(events) /\ Len(events) \in Nat
    BY DEF Timed
  <2>2. IsFiniteSet(DOMAIN events)
    BY <2>1, FS_Interval
  <2>3. \A v : Failures(events, v) \subseteq DOMAIN events
    BY <1>1
  <2> QED  BY <2>2, <2>3, FS_Subset
<1>4. ASSUME NEW i
      PROVE  /\ IsFiniteSet(Alike(events, u, i)) /\ IsFiniteSet(Alike(events, t, i))
             /\ Cardinality(Alike(events, u, i)) <= Cardinality(Alike(events, t, i))
  <2>1. /\ Alike(events, u, i) \subseteq Alike(events, t, i)
        /\ Alike(events, t, i) \subseteq Failures(events, t)
    BY <1>2 DEF Alike
  <2> QED  BY <1>3, <2>1, FS_Subset
<1>5. RepeatedFailures(events, u) \subseteq RepeatedFailures(events, t)
  <2> SUFFICES ASSUME NEW i \in Failures(events, u), Cardinality(Alike(events, u, i)) >= FailureCount
               PROVE  Cardinality(Alike(events, t, i)) >= FailureCount
    BY <1>2 DEF RepeatedFailures
  <2>1. FailureCount \in Nat
    BY ThresholdAssumption
  <2>2. Cardinality(Alike(events, u, i)) \in Nat /\ Cardinality(Alike(events, t, i)) \in Nat
    BY <1>4, FS_CardinalityType
  <2> QED  BY <1>4, <2>1, <2>2
<1> QED
  BY <1>2, <1>3, <1>5

(* What time alone ends, time alone does not bring back.                   *)
LEMMA ActiveBetween ==
  ASSUME NEW events, Timed(events), NEW k \in ToSet(Kinds),
         NEW s \in Nat, NEW t \in Nat, NEW u \in Nat, s <= t, t <= u,
         Active(k, events, s), Active(k, events, u)
  PROVE  Active(k, events, t)
<1>1. k \in {"silent", "stall", "failure_loop", "drift", "protected_surface", "protocol", "budget_risk"}
  BY DEF ToSet, Kinds
<1>2. CASE k = "silent"
  <2>1. SUFFICES Silent(events, s) => Silent(events, t)
    BY <1>2 DEF Active
  <2>2. HeartbeatAfter \in Nat
    BY ThresholdAssumption
  <2>3. events # <<>> => Last(events).at \in Nat
    <3> HAVE events # <<>>
    <3>1. Len(events) \in DOMAIN events
      BY DEF Timed
    <3> QED  BY <3>1 DEF Timed, Last
  <2> QED  BY <2>2, <2>3 DEF Silent, ProducerAgeOver
<1>3. CASE k = "stall"
  <2>1. SUFFICES Stalled(events, s) => Stalled(events, t)
    BY <1>3 DEF Active
  <2>2. StallAfter \in Nat
    BY ThresholdAssumption
  <2>3. events # <<>> => Progress(events) \in Nat
    <3> HAVE events # <<>>
    <3>1. Len(events) \in DOMAIN events /\ DOMAIN events = 1..Len(events) /\ Len(events) \in Nat
      BY DEF Timed
    <3> DEFINE places == {i \in DOMAIN events : events[i].type \in Meaningful}
    <3>2. Progress(events) = IF places = {} THEN Last(events).at ELSE events[Max(places)].at
      BY DEF Progress, Where
    <3>3. places \in SUBSET (1..Len(events))
      BY <3>1
    <3> HIDE DEF places
    <3>4. places # {} => Max(places) \in DOMAIN events
      BY <3>1, <3>3, Ends
    <3> QED  BY <3>1, <3>2, <3>4 DEF Timed, Last
  <2> QED  BY <2>2, <2>3 DEF Stalled
<1>4. CASE k = "failure_loop"
  <2>1. SUFFICES FailureLoop(events, u) => FailureLoop(events, t)
    BY <1>4 DEF Active
  <2> DEFINE F(v) == Failures(events, v)
             R(v) == RepeatedFailures(events, v)
  <2>2. F(u) \subseteq F(t) /\ R(u) \subseteq R(t) /\ IsFiniteSet(F(t)) /\ R(t) \subseteq F(t)
    BY FailuresShrink DEF RepeatedFailures
  <2> HIDE DEF F, R
  <2>3. IsFiniteSet(R(t)) /\ IsFiniteSet(R(u)) /\ IsFiniteSet(F(u))
    BY <2>2, FS_Subset
  <2>4. Cardinality(F(u)) <= Cardinality(F(t)) /\ Cardinality(R(u)) <= Cardinality(R(t))
    BY <2>2, <2>3, FS_Subset
  <2>5. /\ Cardinality(F(u)) \in Nat /\ Cardinality(F(t)) \in Nat
        /\ Cardinality(R(u)) \in Nat /\ Cardinality(R(t)) \in Nat /\ FailureCount \in Nat
    BY <2>2, <2>3, FS_CardinalityType, ThresholdAssumption
  <2>6. Cardinality(F(u)) + Cardinality(R(u)) >= 2 * FailureCount =>
          Cardinality(F(t)) + Cardinality(R(t)) >= 2 * FailureCount
    BY <2>4, <2>5
  <2> QED  BY <2>6 DEF FailureLoop, F, R
<1>5. CASE k = "drift"
  BY <1>5 DEF Active
<1>6. CASE k = "budget_risk"
  BY <1>6 DEF Active
<1>7. CASE k \in {"protected_surface", "protocol"}
  BY <1>7 DEF Active, EvidenceFor
<1> QED
  BY <1>1, <1>2, <1>3, <1>4, <1>5, <1>6, <1>7

-----------------------------------------------------------------------------
FreshOnes(kinds, events, t) == {Fresh(k, events, t) : k \in kinds}

MetOnes(prior, events, t) == {Meets(a, events, t) : a \in ToSet(prior)}

(* Every alert that an evaluation leaves is one it met or one it raised.   *)
LEMMA AlertsFound ==
  ASSUME NEW prior, KnownAlerts(prior), NEW events, NEW t,
         NEW seen, seen = Observed(events, t), NEW found, found = EvaluatePolicy(prior, events, t)
  PROVE  /\ KnownAlerts(found.raised)
         /\ ToSet(found.raised) = FreshOnes(Onsets(prior, seen, t), seen, t)
         /\ ToSet(found.alerts) \subseteq
              MetOnes(prior, seen, t) \cup FreshOnes(Onsets(prior, seen, t), seen, t)
         /\ MaxHistory >= Len(Kinds) =>
              MetOnes(prior, seen, t) \cup FreshOnes(Onsets(prior, seen, t), seen, t) \subseteq ToSet(found.alerts)
<1> DEFINE all    == All(prior, seen, t)
           onsets == Onsets(prior, seen, t)
           unknown == Unknown(prior, seen, t)
<1>1. found.alerts = LastOf(all, MaxHistory) /\ found.raised = Raised(onsets, seen, t)
  BY EvaluateForm
<1>2. /\ KnownAlerts(all)
      /\ ToSet(all) = {Meets(a, seen, t) : a \in ToSet(prior)} \cup {Fresh(k, seen, t) : k \in unknown}
  BY AllFacts
<1>3. onsets \in SUBSET ToSet(Kinds) /\ unknown \subseteq onsets
  BY DEF Onsets, Unknown
<1>4. \A k \in onsets : k \in unknown \/ \E a \in ToSet(prior) : Meets(a, seen, t) = Fresh(k, seen, t)
  <2> TAKE k \in onsets
  <2>1. CASE \A a \in ToSet(prior) : a.kind # k
    BY <2>1 DEF Unknown
  <2>2. CASE \E a \in ToSet(prior) : a.kind = k
    <3>1. PICK a \in ToSet(prior) : a.kind = k
      BY <2>2
    <3>2. IsAlert(a) /\ a.status # "open" /\ Active(a.kind, seen, t)
      BY <3>1 DEF Onsets, IsOpen, KnownAlerts, ToSet
    <3> QED  BY <3>1, <3>2, MeetsFacts
  <2> QED  BY <2>1, <2>2
<1> HIDE DEF all, onsets, unknown
<1>5. MaxHistory \in Nat \ {0}
  BY WatchAssumption
<1>6. /\ ToSet(found.alerts) \subseteq ToSet(all)
      /\ MaxHistory >= Len(Kinds) => found.alerts = all
  BY <1>1, <1>2, <1>5, CutFacts
<1>7. KnownAlerts(found.raised) /\ ToSet(found.raised) = {Fresh(k, seen, t) : k \in onsets}
  BY <1>1, <1>3, RaisedFacts
<1>8. /\ ToSet(all) \subseteq MetOnes(prior, seen, t) \cup FreshOnes(onsets, seen, t)
      /\ MetOnes(prior, seen, t) \cup FreshOnes(onsets, seen, t) \subseteq ToSet(all)
  BY <1>2, <1>3, <1>4 DEF MetOnes, FreshOnes
<1>9. ToSet(found.raised) = FreshOnes(onsets, seen, t)
  BY <1>7 DEF FreshOnes
<1> QED
  BY <1>6, <1>7, <1>8, <1>9 DEF onsets

(* The notifier is told of alerts of different kinds.                      *)
LEMMA NewOnes ==
  ASSUME NEW prior, NEW raised, KnownAlerts(raised)
  PROVE  /\ ToSet(NewAlerts(raised, prior)) \subseteq ToSet(raised)
         /\ \A i, j \in DOMAIN NewAlerts(raised, prior) :
              Id(NewAlerts(raised, prior)[i]) = Id(NewAlerts(raised, prior)[j]) => i = j
<1> DEFINE places == {i \in DOMAIN raised :
                        \A b \in ToSet(prior) : b.status = "open" => Id(b) # Id(raised[i])}
           S == ToSet(raised)
           new == At(raised, places)
<1>1. NewAlerts(raised, prior) = new
  BY DEF NewAlerts
<1>2. places \in SUBSET DOMAIN raised
  OBVIOUS
<1>3. raised \in Seq(S)
  BY DEF KnownAlerts
<1> HIDE DEF places, S
<1>4. \A k \in DOMAIN new : \E i \in places : new[k] = raised[i] /\ Rank(places, i) = k
  BY <1>2, <1>3, AtFacts
<1> HIDE DEF new
<1>5. \A k \in DOMAIN new : new[k] \in ToSet(raised)
  BY <1>2, <1>4 DEF ToSet
<1>6. ToSet(new) \subseteq ToSet(raised)
  BY <1>5 DEF ToSet
<1>7. \A i, j \in DOMAIN new : Id(new[i]) = Id(new[j]) => i = j
  <2> TAKE i \in DOMAIN new, j \in DOMAIN new
  <2> HAVE Id(new[i]) = Id(new[j])
  <2>1. new[i].kind = new[j].kind
    BY DEF Id
  <2>2. PICK x \in places : new[i] = raised[x] /\ Rank(places, x) = i
    BY <1>4
  <2>3. PICK y \in places : new[j] = raised[y] /\ Rank(places, y) = j
    BY <1>4
  <2>4. x = y
    BY <1>2, <2>1, <2>2, <2>3 DEF KnownAlerts
  <2> QED  BY <2>2, <2>3, <2>4
<1> QED
  BY <1>1, <1>6, <1>7

-----------------------------------------------------------------------------
(* What evaluations of one growing journal have seen.                      *)

Bases == [events : Nat, at : Nat]

Seen(events, b) == Observed(SubSeq(events, 1, b.events), b.at)

Count(events, b) == Len(Seen(events, b))

LEMMA PartFacts ==
  ASSUME NEW events, Timed(events), Ordered(events), NEW n \in 0..Len(events)
  PROVE  LET part == SubSeq(events, 1, n)
         IN  /\ Len(part) = n /\ Timed(part) /\ Ordered(part)
             /\ \A i \in 1..n : part[i] = events[i]
             /\ \A m \in 0..n : SubSeq(part, 1, m) = SubSeq(events, 1, m)
<1> DEFINE S == ToSet(events)
           part == SubSeq(events, 1, n)
<1>1. events \in Seq(S) /\ \A i \in DOMAIN events : events[i].at \in Nat
  BY DEF Timed
<1> HIDE DEF S
<1>2. Len(events) \in Nat /\ DOMAIN events = 1..Len(events)
  BY <1>1
<1>3. part \in Seq(S) /\ Len(part) = n /\ \A i \in 1..n : part[i] = events[i]
  BY <1>1, <1>2
<1> HIDE DEF part
<1>4. DOMAIN part = 1..n
  BY <1>3
<1>5. part \in Seq(ToSet(part))
  BY <1>3, OfItsItems
<1>6. \A i \in 1..n : i \in DOMAIN events
  BY <1>2
<1>7. Timed(part) /\ Ordered(part)
  BY <1>1, <1>3, <1>4, <1>5, <1>6 DEF Timed, Ordered
<1>8. \A m \in 0..n : SubSeq(part, 1, m) = SubSeq(events, 1, m)
  <2> TAKE m \in 0..n
  <2>1. SubSeq(part, 1, m) = [i \in 1..m |-> part[i]]
    BY <1>3
  <2>2. SubSeq(events, 1, m) = [i \in 1..m |-> events[i]]
    BY <1>1, <1>2
  <2>3. \A i \in 1..m : part[i] = events[i]
    BY <1>3
  <2> QED  BY <2>1, <2>2, <2>3
<1> QED
  BY <1>3, <1>7, <1>8 DEF part

LEMMA SeenFacts ==
  ASSUME NEW events, Timed(events), Ordered(events), NEW b \in Bases, b.events <= Len(events)
  PROVE  /\ Count(events, b) \in 0..b.events
         /\ Seen(events, b) = SubSeq(events, 1, Count(events, b))
         /\ Timed(Seen(events, b))
         /\ \A i \in 1..b.events : events[i].at <= b.at <=> i <= Count(events, b)
<1> DEFINE part == SubSeq(events, 1, b.events)
<1>1. Len(events) \in Nat /\ b.events \in 0..Len(events) /\ b.at \in Nat
  BY DEF Bases, Timed
<1>2. /\ Len(part) = b.events /\ Timed(part) /\ Ordered(part)
      /\ \A i \in 1..b.events : part[i] = events[i]
      /\ \A m \in 0..b.events : SubSeq(part, 1, m) = SubSeq(events, 1, m)
  BY <1>1, PartFacts
<1> HIDE DEF part
<1>3. PICK n \in 0..b.events :
        /\ Observed(part, b.at) = SubSeq(part, 1, n)
        /\ \A i \in DOMAIN part : part[i].at <= b.at <=> i <= n
  BY <1>1, <1>2, ObservedIsPrefix
<1>4. Seen(events, b) = SubSeq(events, 1, n)
  BY <1>2, <1>3 DEF Seen, part
<1>5. n \in 0..Len(events)
  BY <1>1
<1>6. Len(Seen(events, b)) = n /\ Timed(Seen(events, b))
  BY <1>4, <1>5, PartFacts
<1>7. DOMAIN part = 1..b.events
  BY <1>2 DEF Timed
<1> QED
  BY <1>2, <1>3, <1>4, <1>6, <1>7 DEF Count

(* A later evaluation has seen no less.                                    *)
LEMMA SeenGrows ==
  ASSUME NEW events, Timed(events), Ordered(events),
         NEW b \in Bases, NEW c \in Bases, b.events <= c.events, c.events <= Len(events), b.at <= c.at
  PROVE  /\ Count(events, b) \in Nat /\ Count(events, c) \in Nat
         /\ Count(events, b) <= Count(events, c)
         /\ Count(events, b) = Count(events, c) => Seen(events, b) = Seen(events, c)
<1>1. Len(events) \in Nat /\ b.events \in Nat /\ c.events \in Nat /\ b.at \in Nat /\ c.at \in Nat
  BY DEF Bases, Timed
<1>2. /\ Count(events, b) \in 0..b.events
      /\ Seen(events, b) = SubSeq(events, 1, Count(events, b))
      /\ \A i \in 1..b.events : events[i].at <= b.at <=> i <= Count(events, b)
  BY <1>1, SeenFacts
<1>3. /\ Count(events, c) \in 0..c.events
      /\ Seen(events, c) = SubSeq(events, 1, Count(events, c))
      /\ \A i \in 1..c.events : events[i].at <= c.at <=> i <= Count(events, c)
  BY <1>1, SeenFacts
<1> DEFINE m == Count(events, b)
           n == Count(events, c)
<1>4. m # 0 => m <= n
  <2> HAVE m # 0
  <2>1. m \in 1..b.events /\ m \in 1..c.events
    BY <1>1, <1>2
  <2>2. events[m].at <= b.at
    BY <1>2, <2>1
  <2>3. m \in DOMAIN events
    BY <1>1, <2>1 DEF Timed
  <2>4. events[m].at \in Nat
    BY <2>3 DEF Timed
  <2>5. events[m].at <= c.at
    BY <1>1, <2>2, <2>4
  <2> QED  BY <1>3, <2>1, <2>5
<1> QED
  BY <1>1, <1>2, <1>3, <1>4

(* An evaluation of the whole journal sees what is observed.               *)
LEMMA SeenNow ==
  ASSUME NEW events, Timed(events), NEW b \in Bases, b.events = Len(events)
  PROVE  Seen(events, b) = Observed(events, b.at)
<1> DEFINE S == ToSet(events)
<1>1. events \in Seq(S)
  BY DEF Timed
<1> HIDE DEF S
<1>2. SubSeq(events, 1, Len(events)) = events
  BY <1>1, SubSeqFull
<1> QED
  BY <1>2 DEF Seen

(* More events change nothing of what was seen.                            *)
LEMMA SeenStays ==
  ASSUME NEW events, Timed(events), NEW e, NEW b \in Bases, b.events <= Len(events)
  PROVE  Seen(Append(events, e), b) = Seen(events, b)
<1> DEFINE S == ToSet(events)
<1>1. events \in Seq(S) /\ b.events \in 0..Len(events)
  BY DEF Timed, Bases
<1> HIDE DEF S
<1>2. SubSeq(Append(events, e), 1, b.events) = SubSeq(events, 1, b.events)
  BY <1>1, Longer
<1> QED
  BY <1>2 DEF Seen

-----------------------------------------------------------------------------
(* An alert is named by its kind and by how many events had been seen when *)
(* it was raised.  Once the notifier was told of it that name comes back   *)
(* only for the first event: either the alert is still open, or more       *)
(* events have been seen since, or its condition ended without any; and    *)
(* what time alone has ended does not begin again without an event.        *)

Held(events, k, n, b) == \E s \in 0..b.at : Active(k, SubSeq(events, 1, n), s)

Gone(events, b, id) ==
  \/ id[2] < Count(events, b)
  \/ /\ id[2] = Count(events, b) /\ Held(events, id[1], id[2], b)
     /\ ~Active(id[1], Seen(events, b), b.at)

Past(alerts, events, b, id) ==
  /\ id[1] \in ToSet(Kinds) /\ id[2] \in Nat
  /\ id[2] = 1 \/ id \in OpenIds(alerts) \/ Gone(events, b, id)

(* Open alerts were raised by conditions that held.                        *)
Born(alerts, events, b) ==
  \A a \in ToSet(alerts) :
    a.status = "open" => /\ a.first \in 1..(Count(events, b) + 1)
                         /\ a.first = 1 \/ (a.first <= Count(events, b) /\ Held(events, a.kind, a.first, b))

LEMMA FreshId ==
  ASSUME NEW k, NEW events, NEW t, NEW n \in Nat, Len(events) = n
  PROVE  /\ Fresh(k, events, t).first = IF n > 1 THEN n ELSE 1
         /\ Id(Fresh(k, events, t)) = <<k, IF n > 1 THEN n ELSE 1>>
BY MaxWithOne DEF Fresh, NewAlert, Id

LEMMA EvaluationTells ==
  ASSUME MaxHistory >= Len(Kinds),
         NEW events, Timed(events), Ordered(events), NEW prior, KnownAlerts(prior),
         NEW b \in Bases, NEW c \in Bases,
         b.events <= c.events, c.events = Len(events), b.at <= c.at,
         NEW ids, Born(prior, events, b), \A id \in ids : Past(prior, events, b, id),
         NEW found, found = EvaluatePolicy(prior, events, c.at)
  PROVE  /\ Born(found.alerts, events, c)
         /\ \A id \in ids \cup Ids(found.raised) : Past(found.alerts, events, c, id)
         /\ \A id \in ids \cap Ids(found.raised) : id[2] = 1
<1> DEFINE m == Count(events, b)
           n == Count(events, c)
           seen == Seen(events, c)
           t == c.at
           onsets == Onsets(prior, seen, t)
<1>1. /\ Len(events) \in Nat /\ b.events \in Nat /\ c.events \in Nat /\ b.at \in Nat /\ t \in Nat
  BY DEF Bases, Timed
<1>2. /\ m \in Nat /\ n \in Nat /\ m <= n
      /\ m = n => Seen(events, b) = seen
  BY <1>1, SeenGrows
<1>3. /\ seen = SubSeq(events, 1, n) /\ Timed(seen) /\ Len(seen) = n
  BY <1>1, SeenFacts DEF Count
<1>4. seen = Observed(events, t)
  BY SeenNow
<1>5. ASSUME NEW k, NEW x, Held(events, k, x, b) PROVE Held(events, k, x, c)
  <2>1. \A s \in 0..b.at : s \in 0..c.at
    BY <1>1
  <2> QED  BY <1>5, <2>1 DEF Held
<1> HIDE DEF m, n, seen, t, onsets
<1>6. /\ ToSet(found.raised) = FreshOnes(onsets, seen, t)
      /\ ToSet(found.alerts) \subseteq MetOnes(prior, seen, t) \cup FreshOnes(onsets, seen, t)
      /\ MetOnes(prior, seen, t) \cup FreshOnes(onsets, seen, t) \subseteq ToSet(found.alerts)
  <2>1. found = EvaluatePolicy(prior, events, t)
    BY DEF t
  <2>2. /\ ToSet(found.raised) = FreshOnes(Onsets(prior, seen, t), seen, t)
        /\ ToSet(found.alerts) \subseteq
              MetOnes(prior, seen, t) \cup FreshOnes(Onsets(prior, seen, t), seen, t)
        /\ MaxHistory >= Len(Kinds) =>
              MetOnes(prior, seen, t) \cup FreshOnes(Onsets(prior, seen, t), seen, t) \subseteq ToSet(found.alerts)
    BY <1>4, <2>1, AlertsFound
  <2> QED  BY <2>2 DEF onsets
<1>7. \A a \in ToSet(prior) :
        /\ IsAlert(a) /\ a.kind \in ToSet(Kinds) /\ a.status \in {"open", "recovered"}
        /\ Id(a) = <<a.kind, a.first>>
  BY DEF KnownAlerts, ToSet, IsAlert, Id
<1>8. \A k \in onsets : k \in ToSet(Kinds) /\ Active(k, seen, t) /\ ~IsOpen(prior, k)
  BY DEF onsets, Onsets
<1>9. ASSUME NEW k, Active(k, seen, t), NEW f, f = (IF n > 1 THEN n ELSE 1)
      PROVE  /\ f \in 1..(n + 1)
             /\ f = 1 \/ (f <= n /\ Held(events, k, f, c))
  <2>1. CASE n > 1
    <3>1. Held(events, k, n, c)
      <4>1. t \in 0..c.at
        BY <1>1 DEF t
      <4> QED  BY <1>3, <1>9, <4>1 DEF Held
    <3> QED  BY <1>2, <1>9, <2>1, <3>1
  <2>2. CASE ~(n > 1)
    BY <1>2, <1>9, <2>2
  <2> QED  BY <2>1, <2>2
<1>10. Born(found.alerts, events, c)
  <2> SUFFICES ASSUME NEW a \in ToSet(found.alerts), a.status = "open"
               PROVE  /\ a.first \in 1..(n + 1)
                      /\ a.first = 1 \/ (a.first <= n /\ Held(events, a.kind, a.first, c))
    BY DEF Born, n
  <2>1. ASSUME NEW k \in ToSet(Kinds), Active(k, seen, t), a = Fresh(k, seen, t)
        PROVE  /\ a.first \in 1..(n + 1)
               /\ a.first = 1 \/ (a.first <= n /\ Held(events, a.kind, a.first, c))
    <3>1. a.first = IF n > 1 THEN n ELSE 1
      BY <1>2, <1>3, <2>1, FreshId
    <3>2. a.kind = k
      BY <2>1, FreshFacts
    <3> QED  BY <1>9, <2>1, <3>1, <3>2
  <2>2. CASE \E k \in onsets : a = Fresh(k, seen, t)
    BY <1>8, <2>1, <2>2
  <2>3. ASSUME NEW p \in ToSet(prior), a = Meets(p, seen, t)
        PROVE  /\ a.first \in 1..(n + 1)
               /\ a.first = 1 \/ (a.first <= n /\ Held(events, a.kind, a.first, c))
    <3>1. Active(p.kind, seen, t) /\ a.kind = p.kind
      BY <1>7, <2>3, MeetsFacts
    <3>2. CASE p.status = "open"
      <4>1. Id(a) = Id(p)
        BY <1>7, <2>3, <3>1, <3>2, MeetsFacts
      <4>2. a.first = p.first
        BY <1>7, <4>1 DEF Id
      <4>3. /\ p.first \in 1..(m + 1)
            /\ p.first = 1 \/ (p.first <= m /\ Held(events, p.kind, p.first, b))
        BY <3>2 DEF Born, m
      <4>4. p.first \in 1..(n + 1) /\ (p.first <= m => p.first <= n)
        BY <1>2, <4>3
      <4> QED  BY <1>5, <3>1, <4>2, <4>3, <4>4
    <3>3. CASE p.status # "open"
      <4>1. a = Fresh(p.kind, seen, t)
        BY <1>7, <2>3, <3>1, <3>3, MeetsFacts
      <4> QED  BY <1>7, <2>1, <3>1, <4>1
    <3> QED  BY <3>2, <3>3
  <2> QED  BY <1>6, <2>2, <2>3 DEF MetOnes, FreshOnes
<1>11. ASSUME NEW id \in ids PROVE Past(found.alerts, events, c, id)
  <2>1. Past(prior, events, b, id)
    OBVIOUS
  <2>2. id[1] \in ToSet(Kinds) /\ id[2] \in Nat
    BY <2>1 DEF Past
  <2>3. CASE id[2] = 1
    BY <2>2, <2>3 DEF Past
  <2>4. CASE id[2] # 1 /\ id \in OpenIds(prior)
    <3>1. PICK p \in ToSet(prior) : p.status = "open" /\ id = Id(p)
      BY <2>4 DEF OpenIds
    <3>2. id[1] = p.kind /\ id[2] = p.first
      BY <1>7, <3>1
    <3>3. CASE Active(p.kind, seen, t)
      <4>1. /\ Meets(p, seen, t) \in ToSet(found.alerts) /\ Meets(p, seen, t).status = "open"
            /\ Id(Meets(p, seen, t)) = id
        BY <1>6, <1>7, <3>1, <3>3, MeetsFacts DEF MetOnes
      <4>2. id \in OpenIds(found.alerts)
        BY <4>1 DEF OpenIds
      <4> QED  BY <2>2, <4>2 DEF Past
    <3>4. CASE ~Active(p.kind, seen, t)
      <4>1. p.first <= m /\ Held(events, p.kind, p.first, b)
        BY <2>4, <3>1, <3>2 DEF Born, m
      <4>2. Held(events, id[1], id[2], c)
        BY <1>5, <3>2, <4>1
      <4>3. id[2] < n \/ id[2] = n
        BY <1>2, <2>2, <3>2, <4>1
      <4>4. Gone(events, c, id)
        BY <3>2, <3>4, <4>2, <4>3 DEF Gone, n, seen, t
      <4> QED  BY <2>2, <4>4 DEF Past
    <3> QED  BY <3>3, <3>4
  <2>5. CASE Gone(events, b, id)
    <3>1. CASE id[2] < n
      BY <2>2, <3>1 DEF Past, Gone, n
    <3>2. CASE ~(id[2] < n)
      <4>1. /\ id[2] = m /\ m = n /\ Held(events, id[1], id[2], b)
            /\ ~Active(id[1], Seen(events, b), b.at)
        BY <1>2, <2>2, <2>5, <3>2 DEF Gone, m
      <4>2. PICK s \in 0..b.at : Active(id[1], SubSeq(events, 1, id[2]), s)
        BY <4>1 DEF Held
      <4>3. Active(id[1], seen, s) /\ ~Active(id[1], seen, b.at)
        BY <1>2, <1>3, <4>1, <4>2
      <4>4. s \in Nat /\ s <= b.at /\ b.at <= t
        BY <1>1 DEF t
      <4>5. ~Active(id[1], seen, t)
        BY <1>1, <1>3, <2>2, <4>3, <4>4, ActiveBetween
      <4>6. Gone(events, c, id)
        BY <1>5, <4>1, <4>5 DEF Gone, n, seen, t
      <4> QED  BY <2>2, <4>6 DEF Past
    <3> QED  BY <3>1, <3>2
  <2> QED  BY <2>1, <2>3, <2>4, <2>5 DEF Past
<1>12. ASSUME NEW id \in Ids(found.raised)
       PROVE  Past(found.alerts, events, c, id) /\ (id \in ids => id[2] = 1)
  <2>1. PICK k \in onsets : id = Id(Fresh(k, seen, t))
    BY <1>6 DEF Ids, FreshOnes
  <2>2. id = <<k, IF n > 1 THEN n ELSE 1>>
    BY <1>2, <1>3, <2>1, FreshId
  <2>3. id[1] = k /\ id[2] = (IF n > 1 THEN n ELSE 1) /\ id[2] \in Nat
    BY <1>2, <2>2
  <2>4. Fresh(k, seen, t) \in ToSet(found.alerts) /\ Fresh(k, seen, t).status = "open"
    BY <1>6, <1>8, FreshFacts DEF FreshOnes
  <2>5. id \in OpenIds(found.alerts)
    BY <2>1, <2>4 DEF OpenIds
  <2>6. Past(found.alerts, events, c, id)
    BY <1>8, <2>3, <2>5 DEF Past
  <2>7. ASSUME id \in ids, id[2] # 1 PROVE FALSE
    <3>1. Past(prior, events, b, id) /\ id[2] = n
      BY <2>3, <2>7
    <3>2. id \notin OpenIds(prior)
      <4> SUFFICES ASSUME NEW p \in ToSet(prior), p.status = "open", id = Id(p) PROVE FALSE
        BY DEF OpenIds
      <4>1. p.kind = k
        BY <1>7, <2>3
      <4> QED  BY <1>8, <4>1 DEF IsOpen
    <3>3. Gone(events, b, id)
      BY <2>7, <3>1, <3>2 DEF Past
    <3>4. /\ id[2] = m /\ m = n /\ Held(events, id[1], id[2], b)
          /\ ~Active(id[1], Seen(events, b), b.at)
      BY <1>2, <3>1, <3>3 DEF Gone, m
    <3>5. PICK s \in 0..b.at : Active(id[1], SubSeq(events, 1, id[2]), s)
      BY <3>4 DEF Held
    <3>6. Active(k, seen, s) /\ ~Active(k, seen, b.at)
      BY <1>2, <1>3, <2>3, <3>4, <3>5
    <3>7. s \in Nat /\ s <= b.at /\ b.at <= t
      BY <1>1 DEF t
    <3>8. ~Active(k, seen, t)
      BY <1>1, <1>3, <1>8, <3>6, <3>7, ActiveBetween
    <3> QED  BY <1>8, <3>8
  <2> QED  BY <2>6, <2>7
<1> QED
  BY <1>10, <1>11, <1>12

-----------------------------------------------------------------------------
(* The invariant behind SentOnce: evaluations come in the order of time,   *)
(* and whatever was sent, or is about to be, is past.                      *)
Names(alerts) == [i \in DOMAIN alerts |-> Id(alerts[i])]

Once(ids) == \A i, j \in DOMAIN ids : i # j /\ ids[i] = ids[j] => ids[i][2] = 1

(* What was said under these names is past, or an open one of the alerts.  *)
Said(alerts, events, b, ids) ==
  /\ b \in Bases /\ b.events <= Len(events)
  /\ Born(alerts, events, b)
  /\ \A id \in ids : Past(alerts, events, b, id)

(* The journal is in the order of its times, and evaluations follow each   *)
(* other in it.                                                            *)
Clock ==
  /\ Timed(journal) /\ Ordered(journal)
  /\ basis # NoBasis => basis \in Bases /\ basis.events <= Len(journal) /\ basis.at <= now
  /\ pc = "load" => stamp <= now /\ (basis # NoBasis => basis.at <= stamp)
  /\ pc = "notify" =>
       /\ result.basis \in Bases /\ result.basis.events <= Len(journal) /\ result.basis.at <= now
       /\ mode = "stream" => basis = result.basis

SaidBefore ==
  ~(pc = "notify" /\ mode = "stream") =>
    IF basis = NoBasis THEN sent = <<>>
    ELSE Said(memory, journal, basis, ToSet(sent))

ToSay ==
  pc = "notify" =>
    /\ Said(result.alerts, journal, result.basis, ToSet(sent) \cup Ids(result.new))
    /\ \A i, j \in DOMAIN result.new : Id(result.new[i]) = Id(result.new[j]) => i = j
    /\ \A id \in ToSet(sent) \cap Ids(result.new) : id[2] = 1

SpeechInv == SaidBefore /\ ToSay /\ Once(sent)

LEMMA InitClock == Init => Clock
<1>1. Timed(<<>>) /\ Ordered(<<>>)
  BY DEF Timed, Ordered
<1> QED
  BY <1>1 DEF Init, Clock

LEMMA IngestClock ==
  ASSUME WatchInv, Clock, Ingest
  PROVE  Clock'
<1>1. PICK d \in Drafts, t \in 0..now :
        /\ journal # <<>> => Last(journal).at <= t
        /\ journal' = Append(journal, Received(d, t))
  BY DEF Ingest
<1>2. UNCHANGED <<now, mode, pc, stamp, memory, basis, result, sent>>
  BY DEF Ingest, watch
<1>3. now \in Nat /\ Timed(journal) /\ Ordered(journal)
  BY DEF WatchInv, Shapes, Clock
<1> DEFINE e == Received(d, t)
           S == ToSet(journal)
           L == Len(journal)
<1>4. e.at = t /\ t \in Nat
  BY <1>3 DEF Received
<1>5. journal \in Seq(S) /\ L \in Nat /\ DOMAIN journal = 1..L
  BY <1>3 DEF Timed
<1> HIDE DEF S, e
<1>6. journal' = Append(journal, e)
  BY <1>1 DEF e
<1>7. journal' \in Seq(S \cup {e})
  <2>1. journal \in [1..Len(journal) -> S \cup {e}]
    BY <1>5
  <2>2. journal \in Seq(S \cup {e})
    BY <1>5, <2>1
  <2> QED  BY <1>6, <2>2
<1>8. journal' \in Seq(ToSet(journal'))
  BY <1>7, OfItsItems
<1>9. /\ DOMAIN journal' = 1..(L + 1)
      /\ \A i \in 1..L : journal'[i] = journal[i]
      /\ journal'[L + 1] = e
  BY <1>5, <1>6
<1>10. \A i \in 1..L : journal[i].at \in Nat /\ journal[i].at <= t
  <2> TAKE i \in 1..L
  <2>1. journal # <<>> /\ L \in DOMAIN journal /\ i \in DOMAIN journal /\ i <= L
    BY <1>5
  <2>2. journal[L].at <= t
    BY <1>1, <2>1 DEF Last
  <2>3. journal[i].at <= journal[L].at
    BY <1>3, <2>1 DEF Ordered
  <2>4. journal[i].at \in Nat /\ journal[L].at \in Nat
    BY <1>3, <2>1 DEF Timed
  <2> QED  BY <1>4, <2>2, <2>3, <2>4
<1>11. Timed(journal')
  <2>1. \A i \in 1..(L + 1) : i \in 1..L \/ i = L + 1
    BY <1>5
  <2> QED  BY <1>4, <1>8, <1>9, <1>10, <2>1 DEF Timed
<1>12. Ordered(journal')
  <2> SUFFICES ASSUME NEW i \in 1..(L + 1), NEW j \in 1..(L + 1), i <= j
               PROVE  journal'[i].at <= journal'[j].at
    BY <1>9 DEF Ordered
  <2>1. CASE j \in 1..L
    <3>1. i \in 1..L
      BY <1>5, <2>1
    <3>2. journal[i].at <= journal[j].at
      BY <1>3, <1>5, <2>1, <3>1 DEF Ordered
    <3> QED  BY <1>9, <2>1, <3>1, <3>2
  <2>2. CASE j = L + 1 /\ i \in 1..L
    BY <1>4, <1>9, <1>10, <2>2
  <2>3. CASE j = L + 1 /\ i = L + 1
    BY <1>4, <1>9, <2>3
  <2> QED  BY <1>5, <2>1, <2>2, <2>3
<1>13. L <= Len(journal') /\ \A b \in Bases : b.events <= L => b.events <= Len(journal')
  <2>1. Len(journal') = L + 1
    BY <1>5, <1>6
  <2> QED  BY <1>5, <2>1 DEF Bases
<1> QED
  BY <1>2, <1>11, <1>12, <1>13 DEF Clock

LEMMA ClockStep == WatchInv /\ Clock /\ [Next]_vars => Clock'
<1> SUFFICES ASSUME WatchInv, Clock, [Next]_vars PROVE Clock'
  OBVIOUS
<1>1. now \in Nat /\ stamp \in Nat /\ Len(journal) \in Nat
  BY DEF WatchInv, Shapes
<1>2. \A b \in Bases : b.at \in Nat /\ b.events \in Nat
  BY DEF Bases
<1>3. CASE Start
  BY <1>3 DEF Start, Clock
<1>4. CASE Quit
  BY <1>4 DEF Quit, End, Clock
<1>5. CASE Ask
  BY <1>1, <1>5 DEF Ask, Clock
<1>6. CASE Evaluate
  <2> DEFINE here == [events |-> Len(journal), at |-> stamp]
  <2>1. /\ pc = "load" /\ pc' = "notify" /\ result'.basis = here
        /\ (mode = "stream" /\ basis' = here) \/ (mode # "stream" /\ basis' = basis)
        /\ UNCHANGED <<journal, now, mode>>
    BY <1>6 DEF Evaluate
  <2>2. here \in Bases /\ here.events <= Len(journal) /\ here.at <= now
    BY <1>1, <2>1 DEF Bases, Clock
  <2> QED  BY <2>1, <2>2 DEF Clock
<1>7. CASE Fail /\ pc \in {"load", "notify"}
  BY <1>7 DEF Fail, End, Clock
<1>8. CASE Notify
  BY <1>8 DEF Notify, Clock
<1>9. CASE Ingest
  BY <1>9, IngestClock
<1>10. CASE Tick
  <2>1. now' = now + 1 /\ UNCHANGED <<journal, pc, mode, stamp, basis, result>>
    BY <1>10 DEF Tick, watch
  <2>2. \A x \in Nat : x <= now => x <= now'
    BY <1>1, <2>1
  <2> QED  BY <1>1, <1>2, <2>1, <2>2 DEF Clock
<1>11. CASE UNCHANGED vars
  BY <1>11 DEF vars, Clock
<1> QED
  BY <1>3, <1>4, <1>5, <1>6, <1>7, <1>8, <1>9, <1>10, <1>11 DEF Next, LoadFails, NotifyFails

LEMMA InitSpeech == Init => SpeechInv
<1> SUFFICES ASSUME Init PROVE SpeechInv
  OBVIOUS
<1>1. Once(<<>>)
  BY DEF Once
<1> QED
  BY <1>1 DEF Init, SpeechInv, SaidBefore, ToSay

(* More events change nothing of what was seen, held and said before.      *)
LEMMA SaidStays ==
  ASSUME NEW events, Timed(events), Ordered(events), NEW e, NEW longer, longer = Append(events, e),
         NEW alerts, NEW b, NEW ids, Said(alerts, events, b, ids)
  PROVE  Said(alerts, longer, b, ids)
<1> DEFINE S == ToSet(events)
           L == Len(events)
           m == Count(events, b)
<1>1. events \in Seq(S) /\ L \in Nat
  BY DEF Timed
<1>2. b \in Bases /\ b.events \in 0..L
  BY DEF Said, Bases
<1> HIDE DEF S
<1>3. \A n \in 0..L : SubSeq(longer, 1, n) = SubSeq(events, 1, n)
  BY <1>1, Longer
<1>4. Len(longer) = L + 1
  BY <1>1
<1>5. Seen(longer, b) = Seen(events, b) /\ Count(longer, b) = m
  BY <1>2, SeenStays DEF Count, Said
<1>6. m \in 0..L
  <2>1. m \in 0..b.events
    BY <1>1, <1>2, SeenFacts
  <2> QED  BY <1>1, <1>2, <2>1
<1> HIDE DEF L, m
<1>7. ASSUME NEW k, NEW n \in 0..L PROVE Held(longer, k, n, b) <=> Held(events, k, n, b)
  BY <1>3 DEF Held
<1>8. Born(alerts, longer, b)
  <2> SUFFICES ASSUME NEW a \in ToSet(alerts), a.status = "open"
               PROVE  /\ a.first \in 1..(m + 1)
                      /\ a.first = 1 \/ (a.first <= m /\ Held(longer, a.kind, a.first, b))
    BY <1>5 DEF Born
  <2>1. /\ a.first \in 1..(m + 1)
        /\ a.first = 1 \/ (a.first <= m /\ Held(events, a.kind, a.first, b))
    BY DEF Said, Born, m
  <2>2. a.first <= m => a.first \in 0..L
    BY <1>1, <1>6, <2>1 DEF L
  <2> QED  BY <1>7, <2>1, <2>2
<1>9. ASSUME NEW id \in ids PROVE Past(alerts, longer, b, id)
  <2>1. Past(alerts, events, b, id)
    BY DEF Said
  <2>2. Gone(events, b, id) => Gone(longer, b, id)
    BY <1>5, <1>6, <1>7 DEF Gone, m
  <2> QED  BY <2>1, <2>2 DEF Past
<1>10. b.events <= Len(longer)
  BY <1>1, <1>2, <1>4 DEF L
<1> QED
  BY <1>2, <1>8, <1>9, <1>10 DEF Said

LEMMA IngestSpeech ==
  ASSUME Clock, SpeechInv, Ingest
  PROVE  SpeechInv'
<1>1. PICK e : journal' = Append(journal, e)
  BY DEF Ingest
<1>2. UNCHANGED <<now, mode, pc, stamp, memory, basis, result, sent>>
  BY DEF Ingest, watch
<1>3. \A alerts, b, ids : Said(alerts, journal, b, ids) => Said(alerts, journal', b, ids)
  BY <1>1, SaidStays DEF Clock
<1>4. SaidBefore'
  BY <1>2, <1>3 DEF SpeechInv, SaidBefore
<1>5. ToSay'
  BY <1>2, <1>3 DEF SpeechInv, ToSay
<1> QED
  BY <1>2, <1>4, <1>5 DEF SpeechInv, Once

LEMMA EvaluateSpeech ==
  ASSUME MaxHistory >= Len(Kinds), WatchInv, Clock, SpeechInv, Evaluate
  PROVE  SpeechInv'
<1> DEFINE found == EvaluatePolicy(memory, journal, stamp)
           here  == [events |-> Len(journal), at |-> stamp]
           new   == NewAlerts(found.raised, memory)
<1>1. /\ pc = "load" /\ pc' = "notify" /\ stamp' = 0
      /\ result' = [alerts |-> found.alerts, new |-> new, recovered |-> found.recovered,
                    basis |-> here]
      /\ IF mode = "stream" THEN memory' = found.alerts /\ basis' = here
         ELSE UNCHANGED <<memory, basis>>
      /\ UNCHANGED <<journal, now, mode, sent>>
  BY DEF Evaluate
<1>2. /\ KnownAlerts(memory) /\ stamp \in Nat /\ now \in Nat /\ stamp <= now
      /\ Timed(journal) /\ Ordered(journal) /\ Len(journal) \in Nat
  BY <1>1 DEF WatchInv, Shapes, Clock, Timed
<1>3. here \in Bases /\ here.events = Len(journal) /\ here.at = stamp
  BY <1>2 DEF Bases
<1>4. \E b \in Bases :
        /\ b.events <= Len(journal) /\ b.at <= stamp
        /\ Born(memory, journal, b)
        /\ \A id \in ToSet(sent) : Past(memory, journal, b, id)
  <2>1. CASE basis = NoBasis
    <3> DEFINE zero == [events |-> 0, at |-> 0]
    <3>1. memory = <<>> /\ sent = <<>>
      BY <1>1, <2>1 DEF WatchInv, Remembered, SpeechInv, SaidBefore
    <3>2. ToSet(memory) = {} /\ ToSet(sent) = {}
      BY <3>1 DEF ToSet
    <3>3. zero \in Bases /\ zero.events <= Len(journal) /\ zero.at <= stamp
      BY <1>2 DEF Bases
    <3>4. Born(memory, journal, zero)
      BY <3>2 DEF Born
    <3> QED  BY <3>2, <3>3, <3>4
  <2>2. CASE basis # NoBasis
    BY <1>1, <2>2 DEF Clock, SpeechInv, SaidBefore, Said
  <2> QED  BY <2>1, <2>2
<1> HIDE DEF found, here, new
<1>5. /\ Born(found.alerts, journal, here)
      /\ \A id \in ToSet(sent) \cup Ids(found.raised) : Past(found.alerts, journal, here, id)
      /\ \A id \in ToSet(sent) \cap Ids(found.raised) : id[2] = 1
  <2>1. PICK b \in Bases :
        /\ b.events <= Len(journal) /\ b.at <= stamp
        /\ Born(memory, journal, b)
        /\ \A id \in ToSet(sent) : Past(memory, journal, b, id)
    BY <1>4
  <2>2. found = EvaluatePolicy(memory, journal, here.at)
    BY <1>3 DEF found
  <2>3. b.events <= here.events /\ b.at <= here.at
    BY <1>3, <2>1
  <2> DEFINE ids == ToSet(sent)
  <2>4. \A id \in ids : Past(memory, journal, b, id)
    BY <2>1
  <2> HIDE DEF ids
  <2>5. /\ Born(found.alerts, journal, here)
        /\ \A id \in ids \cup Ids(found.raised) : Past(found.alerts, journal, here, id)
        /\ \A id \in ids \cap Ids(found.raised) : id[2] = 1
    <3>1. KnownAlerts(memory) /\ Timed(journal) /\ Ordered(journal)
      BY <1>2
    <3>2. b \in Bases /\ here \in Bases /\ here.events = Len(journal) /\ Born(memory, journal, b)
      BY <1>3, <2>1
    <3> QED  BY <2>2, <2>3, <2>4, <3>1, <3>2, EvaluationTells
  <2> QED  BY <2>5 DEF ids
<1>6. KnownAlerts(found.raised)
  BY <1>2, AlertsFound DEF found
<1>7. /\ ToSet(new) \subseteq ToSet(found.raised)
      /\ \A i, j \in DOMAIN new : Id(new[i]) = Id(new[j]) => i = j
  BY <1>6, NewOnes DEF new
<1>8. Ids(new) \subseteq Ids(found.raised)
  BY <1>7 DEF Ids
<1>9. /\ result'.alerts = found.alerts /\ result'.new = new /\ result'.basis = here
  BY <1>1
<1>10. Said(found.alerts, journal, here, ToSet(sent) \cup Ids(new))
  <2>1. here.events <= Len(journal)
    BY <1>2, <1>3
  <2> QED  BY <1>3, <1>5, <1>8, <2>1 DEF Said
<1>12. SaidBefore'
  <2>1. CASE mode = "stream"
    BY <1>1, <2>1 DEF SaidBefore
  <2>2. CASE mode # "stream"
    BY <1>1, <2>2 DEF SpeechInv, SaidBefore
  <2> QED  BY <2>1, <2>2
<1>13. ToSay'
  <2>1. \A id \in ToSet(sent) \cap Ids(new) : id[2] = 1
    BY <1>5, <1>8
  <2>2. sent' = sent /\ journal' = journal
    BY <1>1
  <2> QED  BY <1>7, <1>9, <1>10, <2>1, <2>2 DEF ToSay
<1>14. Once(sent')
  BY <1>1 DEF SpeechInv
<1> QED
  BY <1>12, <1>13, <1>14 DEF SpeechInv, Once

LEMMA NotifySpeech ==
  ASSUME WatchInv, Clock, SpeechInv, Notify
  PROVE  SpeechInv'
<1> DEFINE ids == Names(result.new)
<1>1. /\ pc = "notify" /\ pc' = "ready" /\ sent' = sent \o ids /\ result' = NoResult
      /\ IF mode = "stream" THEN UNCHANGED <<memory, basis>>
         ELSE memory' = result.alerts /\ basis' = result.basis
      /\ UNCHANGED <<journal, now, mode, stamp>>
  BY DEF Notify, Names
<1>2. /\ Said(result.alerts, journal, result.basis, ToSet(sent) \cup Ids(result.new))
      /\ \A i, j \in DOMAIN result.new : Id(result.new[i]) = Id(result.new[j]) => i = j
      /\ \A id \in ToSet(sent) \cap Ids(result.new) : id[2] = 1
      /\ result.new \in Seq(ToSet(result.new)) /\ sent \in Seq(ToSet(sent))
      /\ memory' = result.alerts /\ basis' = result.basis
  BY <1>1 DEF WatchInv, Shapes, Pending, Clock, SpeechInv, ToSay
<1>3. /\ ids \in Seq(Ids(result.new)) /\ ToSet(ids) = Ids(result.new)
      /\ \A i, j \in DOMAIN ids : ids[i] = ids[j] => i = j
  <2> DEFINE new == result.new
             S == ToSet(new)
  <2>1. new \in Seq(S)
    BY <1>2
  <2>2. ids = [i \in DOMAIN new |-> Id(new[i])] /\ \A i \in DOMAIN new : new[i] \in ToSet(new)
    BY DEF ToSet, Names
  <2> HIDE DEF new, S, ids
  <2>3. DOMAIN new = 1..Len(new) /\ Len(new) \in Nat
    BY <2>1
  <2>4. ids \in [1..Len(new) -> Ids(new)]
    BY <2>2, <2>3 DEF Ids
  <2>5. ids \in Seq(Ids(new))
    BY <2>3, <2>4
  <2>6. ToSet(ids) = Ids(new)
    BY <2>2 DEF ToSet, Ids
  <2>7. \A i, j \in DOMAIN ids : ids[i] = ids[j] => i = j
    BY <1>2, <2>2 DEF new
  <2> QED  BY <2>5, <2>6, <2>7 DEF new
<1> HIDE DEF ids
<1> DEFINE A == ToSet(sent)
           B == Ids(result.new)
<1>4. sent \in Seq(A) /\ ids \in Seq(B)
  BY <1>2, <1>3
<1>5. /\ \A i \in DOMAIN sent : sent[i] \in A
      /\ \A i \in DOMAIN ids : ids[i] \in B
      /\ \A id \in A \cap B : id[2] = 1
  BY <1>2, <1>3 DEF ToSet
<1>6. ToSet(sent \o ids) = A \cup B
  <2> HIDE DEF A, B
  <2> QED  BY <1>3, <1>4, ConcatFacts DEF A, B
<1> HIDE DEF A, B
<1>7. Once(sent \o ids)
  <2>1. /\ Len(sent) \in Nat /\ Len(ids) \in Nat
        /\ DOMAIN sent = 1..Len(sent) /\ DOMAIN ids = 1..Len(ids)
        /\ DOMAIN (sent \o ids) = 1..(Len(sent) + Len(ids))
        /\ \A i \in 1..(Len(sent) + Len(ids)) :
             (sent \o ids)[i] = IF i <= Len(sent) THEN sent[i] ELSE ids[i - Len(sent)]
    BY <1>4
  <2> DEFINE m == Len(sent)
             n == Len(ids)
             all == sent \o ids
  <2>2. \A i \in 1..(m + n) :
          \/ i \in DOMAIN sent /\ all[i] = sent[i]
          \/ i > m /\ i - m \in DOMAIN ids /\ all[i] = ids[i - m]
    BY <2>1
  <2> HIDE DEF all
  <2>3. SUFFICES ASSUME NEW i \in 1..(m + n), NEW j \in 1..(m + n), i # j, all[i] = all[j]
                 PROVE  all[i][2] = 1
    BY <2>1 DEF Once, all
  <2>4. CASE i \in DOMAIN sent /\ all[i] = sent[i] /\ j \in DOMAIN sent /\ all[j] = sent[j]
    BY <2>3, <2>4 DEF SpeechInv, Once
  <2>5. CASE /\ i > m /\ i - m \in DOMAIN ids /\ all[i] = ids[i - m]
             /\ j > m /\ j - m \in DOMAIN ids /\ all[j] = ids[j - m]
    <3>1. i - m = j - m
      BY <1>3, <2>3, <2>5
    <3> QED  BY <2>1, <2>3, <3>1
  <2>6. CASE /\ i \in DOMAIN sent /\ all[i] = sent[i]
             /\ j - m \in DOMAIN ids /\ all[j] = ids[j - m]
    <3>1. all[i] \in A \cap B
      BY <1>5, <2>3, <2>6
    <3> QED  BY <1>5, <3>1
  <2>7. CASE /\ j \in DOMAIN sent /\ all[j] = sent[j]
             /\ i - m \in DOMAIN ids /\ all[i] = ids[i - m]
    <3>1. all[i] \in A \cap B
      BY <1>5, <2>3, <2>7
    <3> QED  BY <1>5, <3>1
  <2> QED  BY <2>2, <2>4, <2>5, <2>6, <2>7
<1>8. result.basis # NoBasis
  BY <1>2, WatchAssumption DEF Said, Bases
<1>10. SaidBefore'
  <2>1. Said(memory', journal', basis', ToSet(sent')) 
    BY <1>1, <1>2, <1>6 DEF A, B
  <2> QED  BY <1>1, <1>2, <1>8, <2>1 DEF SaidBefore
<1>11. ToSay'
  BY <1>1 DEF ToSay
<1> QED
  BY <1>1, <1>7, <1>10, <1>11 DEF SpeechInv, Once

LEMMA FailSpeech ==
  ASSUME SpeechInv, pc = "load" \/ pc = "notify", Fail
  PROVE  SpeechInv'
<1>1. UNCHANGED <<journal, now, mode>>
  BY DEF Fail
<1>2. CASE mode = "sibling"
  <2>1. pc' = "ready" /\ UNCHANGED <<memory, basis, sent>>
    BY <1>2 DEF Fail
  <2> QED
    BY <1>1, <1>2, <2>1 DEF SpeechInv, SaidBefore, ToSay, Once
<1>3. CASE mode # "sibling"
  <2>1. pc' = "off" /\ memory' = <<>> /\ basis' = NoBasis /\ sent' = <<>>
    BY <1>3 DEF Fail, End
  <2>2. Once(<<>>)
    BY DEF Once
  <2> QED
    BY <1>1, <2>1, <2>2 DEF SpeechInv, SaidBefore, ToSay, Once
<1> QED
  BY <1>2, <1>3

LEMMA SpeechStep ==
  MaxHistory >= Len(Kinds) /\ WatchInv /\ Clock /\ SpeechInv /\ [Next]_vars => SpeechInv'
<1> SUFFICES ASSUME MaxHistory >= Len(Kinds), WatchInv, Clock, SpeechInv, [Next]_vars PROVE SpeechInv'
  OBVIOUS
<1>1. CASE Start
  BY <1>1 DEF Start, SpeechInv, SaidBefore, ToSay, Once
<1>2. CASE Quit
  <2>1. Once(<<>>)
    BY DEF Once
  <2> QED
    BY <1>2, <2>1 DEF Quit, End, SpeechInv, SaidBefore, ToSay, Once
<1>3. CASE Ask
  BY <1>3 DEF Ask, SpeechInv, SaidBefore, ToSay, Once
<1>4. CASE Evaluate
  BY <1>4, EvaluateSpeech
<1>5. CASE LoadFails
  BY <1>5, FailSpeech DEF LoadFails
<1>6. CASE Notify
  BY <1>6, NotifySpeech
<1>7. CASE NotifyFails
  BY <1>7, FailSpeech DEF NotifyFails
<1>8. CASE Ingest
  BY <1>8, IngestSpeech
<1>9. CASE Tick
  BY <1>9 DEF Tick, watch, SpeechInv, SaidBefore, ToSay, Once
<1>10. CASE UNCHANGED vars
  BY <1>10 DEF vars, SpeechInv, SaidBefore, ToSay, Once
<1> QED
  BY <1>1, <1>2, <1>3, <1>4, <1>5, <1>6, <1>7, <1>8, <1>9, <1>10 DEF Next

(* A notifier takes an alert once, under the name it was raised with, if   *)
(* the history has room for an alert of every kind: in any journal, at any *)
(* pace of evaluations, and whichever of them or of the notifications fail *)
(* (newAlert and the filter of src/src/long/policy.ts:22 and :53,          *)
(* src/src/long/watch.ts:29).  An open alert that the history has no room  *)
(* for is raised again and again, by every evaluation.                     *)
THEOREM SentOnlyOnce ==
  ASSUME MaxHistory >= Len(Kinds)
  PROVE  Spec => []SentOnce
<1>1. SpeechInv => SentOnce
  BY DEF SpeechInv, Once, SentOnce
<1>2. WatchInv /\ Clock /\ SpeechInv /\ [Next]_vars => SpeechInv'
  BY SpeechStep
<1> QED
  BY <1>1, <1>2, InitClock, ClockStep, InitSpeech, Watching, PTL DEF Spec

-----------------------------------------------------------------------------
(* Evidence: places of the journal, each of them once.                     *)

OnceEach(items) ==
  items \in Seq(ToSet(items)) /\ \A i, j \in DOMAIN items : items[i] = items[j] => i = j

LEMMA ByKeyOnce ==
  ASSUME NEW n \in Nat, NEW places \in SUBSET (1..n), NEW key, key \in [places -> Nat]
  PROVE  OnceEach(ByKey(key)) /\ ToSet(ByKey(key)) = places
<1>1. ByKey(key) \in Seq(places) /\ ToSet(ByKey(key)) = places
  BY ByKeyFacts
<1>2. \A i, j \in DOMAIN ByKey(key) : ByKey(key)[i] = ByKey(key)[j] => i = j
  BY ByKeyFacts
<1> QED
  BY <1>1, <1>2 DEF OnceEach

LEMMA NamingOnce ==
  ASSUME NEW events, Timed(events), NEW S, NEW changes \in Seq(S)
  PROVE  OnceEach(Naming(events, changes))
<1> DEFINE Changed(p) == {k \in DOMAIN changes : changes[k].path = p}
           named == {i \in DOMAIN events : Changed(events[i].path) # {}}
           key == [i \in named |-> Min(Changed(events[i].path))]
<1>1. Naming(events, changes) = ByKey(key)
  BY DEF Naming, Where
<1>2. Len(events) \in Nat /\ named \in SUBSET (1..Len(events))
  BY DEF Timed
<1>3. \A i \in named : Changed(events[i].path) # {}
  OBVIOUS
<1>4. \A p : Changed(p) \in SUBSET (1..Len(changes)) /\ Len(changes) \in Nat
  OBVIOUS
<1> HIDE DEF Changed, named
<1>5. \A i \in named : Min(Changed(events[i].path)) \in Nat
  <2> TAKE i \in named
  <2> DEFINE places == Changed(events[i].path)
  <2>1. places \in SUBSET (1..Len(changes)) /\ places # {} /\ Len(changes) \in Nat
    BY <1>3, <1>4
  <2> HIDE DEF places
  <2>2. Min(places) \in places
    BY <2>1, Ends
  <2>3. \A j \in places : j \in Nat
    BY <2>1
  <2>4. Min(places) \in Nat
    BY <2>2, <2>3
  <2> QED  BY <2>4 DEF places
<1>6. key \in [named -> Nat]
  BY <1>5
<1> HIDE DEF key
<1> QED
  BY <1>1, <1>2, <1>6, ByKeyOnce

LEMMA RepeatedOnce ==
  ASSUME NEW events, Timed(events), NEW t
  PROVE  OnceEach(Repeated(events, t)) /\ ToSet(Repeated(events, t)) = RepeatedFailures(events, t)
<1> DEFINE places == RepeatedFailures(events, t)
           key == [i \in places |-> Min(Alike(events, t, i))]
           L == Len(events)
<1>1. Repeated(events, t) = ByKey(key)
  BY DEF Repeated
<1>2. Failures(events, t) \in SUBSET (1..L) /\ L \in Nat
  BY DEF Failures, Where, Timed
<1> HIDE DEF L
<1>3. places \in SUBSET (1..L)
  BY <1>2 DEF RepeatedFailures
<1>4. \A i \in places : i \in Alike(events, t, i) /\ Alike(events, t, i) \in SUBSET (1..L)
  BY <1>2 DEF RepeatedFailures, Alike
<1> HIDE DEF places
<1>5. \A i \in places : Min(Alike(events, t, i)) \in Nat
  <2> TAKE i \in places
  <2> DEFINE alike == Alike(events, t, i)
  <2>1. alike \in SUBSET (1..L) /\ alike # {}
    BY <1>4
  <2> HIDE DEF alike
  <2>2. Min(alike) \in alike
    BY <1>2, <2>1, Ends
  <2>3. \A j \in alike : j \in Nat
    BY <1>2, <2>1
  <2>4. Min(alike) \in Nat
    BY <2>2, <2>3
  <2> QED  BY <2>4 DEF alike
<1>6. key \in [places -> Nat]
  BY <1>5
<1> HIDE DEF key
<1>7. OnceEach(ByKey(key)) /\ ToSet(ByKey(key)) = places
  BY <1>2, <1>3, <1>6, ByKeyOnce
<1> QED
  BY <1>1, <1>7 DEF places

LEMMA GarbledOnce ==
  ASSUME NEW events, Timed(events)
  PROVE  LET garbled == ByKey([i \in Garbled(events) |-> i])
         IN  OnceEach(garbled) /\ ToSet(garbled) = Garbled(events)
<1> DEFINE places == Garbled(events)
           key == [i \in places |-> i]
           L == Len(events)
<1>1. places \in SUBSET (1..L) /\ L \in Nat
  BY DEF Garbled, Where, Timed
<1> HIDE DEF L, places
<1>2. key \in [places -> Nat]
  BY <1>1
<1> HIDE DEF key
<1>3. OnceEach(ByKey(key)) /\ ToSet(ByKey(key)) = places
  BY <1>1, <1>2, ByKeyOnce
<1> QED
  BY <1>3 DEF places, key

LEMMA ChangesAre ==
  ASSUME NEW events, Timed(events), NEW paths
  PROVE  /\ ChangesIn(events, paths) \in Seq(ToSet(events))
         /\ events = <<>> => ChangesIn(events, paths) = <<>> /\ Changes(events) = <<>>
<1> DEFINE S == ToSet(events)
           first == {i \in DOMAIN events : events[i].type = "file_change" /\ events[i].path # NoPath}
           all == Changes(events)
           second == {i \in DOMAIN all : all[i].path \in paths}
<1>1. events \in Seq(S)
  BY DEF Timed
<1>2. all = At(events, first)
  BY DEF Changes, Where
<1>3. first \in SUBSET DOMAIN events
  OBVIOUS
<1> HIDE DEF S, first
<1>4. all \in Seq(S) /\ DOMAIN all = 1..Cardinality(first)
  BY <1>1, <1>2, <1>3, AtFacts
<1> HIDE DEF all
<1>5. ChangesIn(events, paths) = At(all, second)
  BY DEF ChangesIn, Where, all
<1>6. second \in SUBSET DOMAIN all
  OBVIOUS
<1> HIDE DEF second
<1>7. At(all, second) \in Seq(S) /\ DOMAIN At(all, second) = 1..Cardinality(second)
  BY <1>4, <1>6, AtFacts
<1>8. events = <<>> => At(all, second) = <<>> /\ all = <<>>
  <2> HAVE events = <<>>
  <2>1. first = {}
    BY <1>3
  <2>2. DOMAIN all = 1..0
    BY <1>4, <2>1, FS_EmptySet
  <2>3. all = <<>> /\ DOMAIN all = {}
    BY <1>4, <2>2
  <2>4. second = {}
    BY <1>6, <2>3
  <2>5. DOMAIN At(all, second) = 1..0
    BY <1>7, <2>4, FS_EmptySet
  <2> QED  BY <1>7, <2>3, <2>5
<1> QED
  BY <1>5, <1>7, <1>8 DEF S, all

LEMMA EvidenceFacts ==
  ASSUME NEW events, Timed(events), NEW k \in ToSet(Kinds), NEW t
  PROVE  OnceEach(EvidenceFor(k, events, t))
<1>1. k \in {"silent", "stall", "failure_loop", "drift", "protected_surface", "protocol", "budget_risk"}
  BY DEF ToSet, Kinds
<1>2. CASE k = "failure_loop"
  BY <1>2, RepeatedOnce DEF EvidenceFor
<1> DEFINE S == ToSet(events)
<1>3. ChangesIn(events, Outside) \in Seq(S) /\ ChangesIn(events, Protected) \in Seq(S)
  BY ChangesAre
<1>4. ChangesIn(events, Outside) \o ChangesIn(events, Protected) \in Seq(S)
  <2> HIDE DEF S
  <2> QED  BY <1>3
<1>5. CASE k = "drift"
  BY <1>4, <1>5, NamingOnce DEF EvidenceFor
<1>6. CASE k = "protected_surface"
  BY <1>3, <1>6, NamingOnce DEF EvidenceFor
<1>7. CASE k = "protocol"
  BY <1>7, GarbledOnce DEF EvidenceFor
<1>8. CASE k \in {"silent", "stall", "budget_risk"}
  <2>1. EvidenceFor(k, events, t) = <<>>
    BY <1>8 DEF EvidenceFor
  <2>2. OnceEach(<<>>)
    BY DEF OnceEach
  <2> QED  BY <2>1, <2>2
<1> QED
  BY <1>1, <1>2, <1>5, <1>6, <1>7, <1>8

(* Time alone brings no evidence.                                          *)
LEMMA EvidenceShrinks ==
  ASSUME NEW events, Timed(events), NEW k \in ToSet(Kinds), NEW t \in Nat, NEW u \in Nat, t <= u
  PROVE  ToSet(EvidenceFor(k, events, u)) \subseteq ToSet(EvidenceFor(k, events, t))
<1>1. CASE k = "failure_loop"
  <2>1. RepeatedFailures(events, u) \subseteq RepeatedFailures(events, t)
    BY FailuresShrink
  <2> QED  BY <1>1, <2>1, RepeatedOnce DEF EvidenceFor
<1>2. CASE k # "failure_loop"
  BY <1>2 DEF EvidenceFor
<1> QED
  BY <1>1, <1>2

(* What holds of no events at all has no evidence, ever.                   *)
LEMMA ActiveAtFirst ==
  ASSUME DriftPercent > 0, NEW k \in ToSet(Kinds), NEW t, Active(k, <<>>, t)
  PROVE  k \in {"silent", "stall", "budget_risk"}
<1>1. k \in {"silent", "stall", "failure_loop", "drift", "protected_surface", "protocol", "budget_risk"}
  BY DEF ToSet, Kinds
<1>2. Timed(<<>>) /\ ToSet(<<>>) = {}
  BY DEF Timed, ToSet
<1>3. CASE k = "failure_loop"
  <2>1. Failures(<<>>, t) = {} /\ RepeatedFailures(<<>>, t) = {}
    BY DEF Failures, Where, RepeatedFailures
  <2>2. FailureLoop(<<>>, t) <=> 0 + 0 >= 2 * FailureCount
    BY <2>1, FS_EmptySet DEF FailureLoop
  <2>3. FailureCount \in Nat /\ FailureCount > 0
    BY ThresholdAssumption
  <2> QED  BY <1>3, <2>2, <2>3 DEF Active
<1>4. /\ ChangesIn(<<>>, Outside) = <<>> /\ ChangesIn(<<>>, Protected) = <<>> /\ Changes(<<>>) = <<>>
  BY <1>2, ChangesAre
<1>5. CASE k = "drift"
  <2>1. Drifts(<<>>) <=> 100 * (0 + 2 * 0) >= DriftPercent * (0 + 2)
    BY <1>4 DEF Drifts
  <2>2. DriftPercent \in Nat
    BY ThresholdAssumption
  <2> QED  BY <1>5, <2>1, <2>2 DEF Active
<1>6. \A items : items \in Seq(ToSet(items)) /\ ToSet(items) = {} => items = <<>>
  BY DEF ToSet
<1>7. CASE k = "protected_surface"
  <2>1. Naming(<<>>, <<>>) = ByKey([i \in {} |-> Min({j \in DOMAIN <<>> : <<>>[j].path = <<>>[i].path})])
    BY DEF Naming, Where
  <2> DEFINE key == [i \in {} |-> Min({j \in DOMAIN <<>> : <<>>[j].path = <<>>[i].path})]
  <2>2. key \in [{} -> Nat] /\ {} \in SUBSET (1..0)
    OBVIOUS
  <2> HIDE DEF key
  <2>3. OnceEach(ByKey(key)) /\ ToSet(ByKey(key)) = {}
    BY <2>2, ByKeyOnce
  <2>4. ByKey(key) = <<>>
    BY <1>6, <2>3 DEF OnceEach
  <2>5. EvidenceFor(k, <<>>, t) = <<>>
    BY <1>4, <1>7, <2>1, <2>4 DEF EvidenceFor, key
  <2> QED  BY <1>7, <2>5 DEF Active
<1>8. CASE k = "protocol"
  <2>1. Garbled(<<>>) = {}
    BY DEF Garbled, Where
  <2> DEFINE items == EvidenceFor(k, <<>>, t)
  <2>2. items = ByKey([i \in Garbled(<<>>) |-> i])
    BY <1>8 DEF EvidenceFor
  <2>3. OnceEach(items) /\ ToSet(items) = {}
    BY <1>2, <2>1, <2>2, GarbledOnce
  <2> HIDE DEF items
  <2>4. items = <<>>
    BY <1>6, <2>3 DEF OnceEach
  <2> QED  BY <1>8, <2>4 DEF Active, items
<1> QED
  BY <1>1, <1>3, <1>5, <1>7, <1>8

-----------------------------------------------------------------------------
(* Occurrences after the first have events of their own: as long as no     *)
(* evidence was cut off, an open alert knows all there is for the events   *)
(* up to its last one, and time alone brings none.                         *)

Counted(a, events, b) ==
  /\ a.first \in Nat /\ a.last \in Nat /\ a.count \in Nat
  /\ a.first <= a.last
  /\ OnceEach(a.evidence)
  /\ Len(a.evidence) < MaxEvidence => a.count - 1 <= a.last - a.first
  /\ a.status = "open" =>
       /\ a.last = IF Count(events, b) > 1 THEN Count(events, b) ELSE 1
       /\ Active(a.kind, Seen(events, b), b.at)
       /\ Len(a.evidence) < MaxEvidence =>
            ToSet(EvidenceFor(a.kind, Seen(events, b), b.at)) \subseteq ToSet(a.evidence)

LEMMA CutOnce ==
  ASSUME NEW items, OnceEach(items)
  PROVE  /\ OnceEach(LastOf(items, MaxEvidence))
         /\ Len(LastOf(items, MaxEvidence)) < MaxEvidence => LastOf(items, MaxEvidence) = items
<1> DEFINE S == ToSet(items)
           cut == LastOf(items, MaxEvidence)
<1>1. items \in Seq(S) /\ \A i, j \in DOMAIN items : items[i] = items[j] => i = j
  BY DEF OnceEach
<1>2. MaxEvidence \in Nat \ {0}
  BY WatchAssumption
<1> HIDE DEF S
<1>3. cut \in Seq(S)
  BY <1>1, <1>2, LastOfFacts
<1>4. /\ \A i, j \in DOMAIN cut : cut[i] = cut[j] => i = j
      /\ Len(cut) < MaxEvidence => cut = items
  BY <1>1, <1>2, CutShort
<1> HIDE DEF cut
<1>5. cut \in Seq(ToSet(cut))
  BY <1>3, OfItsItems
<1> QED
  BY <1>4, <1>5 DEF OnceEach, cut

LEMMA FreshCounts ==
  ASSUME NEW events, Timed(events), Ordered(events), NEW c \in Bases, c.events <= Len(events),
         NEW k \in ToSet(Kinds), Active(k, Seen(events, c), c.at)
  PROVE  Counted(Fresh(k, Seen(events, c), c.at), events, c)
<1> DEFINE seen == Seen(events, c)
           E == EvidenceFor(k, seen, c.at)
           n == Len(seen)
           f == Max({1, n})
           z == LastOf(E, MaxEvidence)
           a == Fresh(k, seen, c.at)
<1>1. Timed(seen) /\ n = Count(events, c) /\ n \in Nat
  BY SeenFacts DEF Count, Timed
<1>2. OnceEach(E)
  BY <1>1, EvidenceFacts
<1>3. OnceEach(z) /\ (Len(z) < MaxEvidence => z = E)
  <2> HIDE DEF E
  <2> QED  BY <1>2, CutOnce
<1>4. f = IF n > 1 THEN n ELSE 1
  <2> HIDE DEF n
  <2> QED  BY <1>1, MaxWithOne
<1>5. a = [kind |-> k, status |-> "open", first |-> f, last |-> f, count |-> 1, evidence |-> z]
  BY DEF Fresh, NewAlert
<1> HIDE DEF seen, E, n, f, z, a
<1>6. /\ a.kind = k /\ a.first = f /\ a.last = f /\ a.count = 1 /\ a.evidence = z
      /\ f \in Nat
  BY <1>1, <1>4, <1>5
<1>7. Len(z) < MaxEvidence => ToSet(E) \subseteq ToSet(z)
  BY <1>3
<1>8. Counted(a, events, c)
  <2>1. a.count - 1 <= a.last - a.first /\ a.first <= a.last /\ a.count \in Nat
    BY <1>6
  <2>2. a.last = IF Count(events, c) > 1 THEN Count(events, c) ELSE 1
    BY <1>1, <1>4, <1>6
  <2>3. /\ Active(a.kind, Seen(events, c), c.at)
        /\ Len(a.evidence) < MaxEvidence =>
             ToSet(EvidenceFor(a.kind, Seen(events, c), c.at)) \subseteq ToSet(a.evidence)
    BY <1>6, <1>7 DEF E, seen
  <2> QED  BY <1>3, <1>6, <2>1, <2>2, <2>3 DEF Counted
<1> QED
  BY <1>8 DEF a, seen

(* What a repetition keeps and adds.                                       *)
LEMMA Gathered ==
  ASSUME NEW ev, OnceEach(ev), NEW E, OnceEach(E), NEW z, z = LastOf(Distinct(ev \o E), MaxEvidence)
  PROVE  /\ OnceEach(z)
         /\ Len(z) < MaxEvidence => /\ Len(ev) < MaxEvidence
                                    /\ ToSet(z) = ToSet(ev) \cup ToSet(E)
<1> DEFINE A == ToSet(ev)
           B == ToSet(E)
           all == ev \o E
           d == Distinct(all)
<1>1. ev \in Seq(A) /\ E \in Seq(B) /\ \A i, j \in DOMAIN ev : ev[i] = ev[j] => i = j
  BY DEF OnceEach
<1> HIDE DEF A, B
<1>2. all \in Seq(A \cup B) /\ ToSet(all) = ToSet(ev) \cup ToSet(E)
  BY <1>1, ConcatFacts
<1>3. /\ Len(ev) \in Nat /\ DOMAIN ev = 1..Len(ev) /\ Len(ev) <= Len(all)
      /\ \A i \in 1..Len(ev) : all[i] = ev[i]
  BY <1>1
<1> HIDE DEF all
<1>4. /\ d \in Seq(A \cup B)
      /\ \A i, j \in DOMAIN d : d[i] = d[j] => i = j
      /\ ToSet(d) = ToSet(all)
      /\ \A m \in 0..Len(all) :
           (\A i, j \in 1..m : all[i] = all[j] => i = j) => m <= Len(d)
  BY <1>2, DistinctFacts
<1> HIDE DEF d
<1>5. OnceEach(d)
  BY <1>4, OfItsItems DEF OnceEach
<1>6. Len(ev) <= Len(d)
  <2>1. Len(ev) \in 0..Len(all)
    BY <1>2, <1>3
  <2>2. \A i, j \in 1..Len(ev) : all[i] = all[j] => i = j
    BY <1>1, <1>3
  <2> QED  BY <1>4, <2>1, <2>2
<1>7. OnceEach(z) /\ (Len(z) < MaxEvidence => z = d)
  <2>1. z = LastOf(d, MaxEvidence)
    BY DEF d, all
  <2> QED  BY <1>5, <2>1, CutOnce
<1>8. Len(d) \in Nat /\ MaxEvidence \in Nat
  BY <1>4, WatchAssumption
<1>9. Len(z) < MaxEvidence => Len(ev) < MaxEvidence
  BY <1>3, <1>6, <1>7, <1>8
<1> QED
  BY <1>2, <1>4, <1>7, <1>9 DEF all

LEMMA MeetCounts ==
  ASSUME DriftPercent > 0,
         NEW events, Timed(events), Ordered(events),
         NEW b \in Bases, NEW c \in Bases,
         b.events <= c.events, c.events <= Len(events), b.at <= c.at,
         NEW a, IsAlert(a), Counted(a, events, b)
  PROVE  Counted(Meets(a, Seen(events, c), c.at), events, c)
<1> DEFINE m == Count(events, b)
           n == Count(events, c)
           seen == Seen(events, c)
           t == c.at
           E == EvidenceFor(a.kind, seen, t)
           r == Meets(a, seen, t)
<1>1. b.at \in Nat /\ t \in Nat /\ b.events <= Len(events)
  BY DEF Bases, Timed
<1>2. /\ m \in Nat /\ n \in Nat /\ m <= n /\ (m = n => Seen(events, b) = seen)
      /\ Timed(seen) /\ Len(seen) = n
      /\ Timed(Seen(events, b)) /\ Len(Seen(events, b)) = m
  BY <1>1, SeenGrows, SeenFacts DEF Count
<1>3. a.kind \in ToSet(Kinds) /\ a.status \in {"open", "recovered"}
  BY DEF IsAlert
<1>4. PICK kind, status, first, last, count, evidence :
        a = [kind |-> kind, status |-> status, first |-> first, last |-> last,
             count |-> count, evidence |-> evidence]
  BY DEF IsAlert
<1>5. OnceEach(E)
  BY <1>2, <1>3, EvidenceFacts
<1>6. /\ first \in Nat /\ last \in Nat /\ count \in Nat /\ first <= last /\ OnceEach(evidence)
      /\ Len(evidence) < MaxEvidence => count - 1 <= last - first
      /\ status = "open" =>
           /\ last = IF m > 1 THEN m ELSE 1
           /\ Active(kind, Seen(events, b), b.at)
           /\ Len(evidence) < MaxEvidence =>
                ToSet(EvidenceFor(kind, Seen(events, b), b.at)) \subseteq ToSet(evidence)
  <2>1. a.first = first /\ a.last = last /\ a.count = count /\ a.evidence = evidence
        /\ a.kind = kind /\ a.status = status
    BY <1>4
  <2> HIDE DEF m
  <2> QED  BY <2>1 DEF Counted, m
<1>7. CASE Active(a.kind, seen, t) /\ a.status = "open"
  <2> DEFINE x == IF n = 0 THEN last ELSE n
             y == IF NewOccurrence(a, E, n) THEN count + 1 ELSE count
             z == LastOf(Distinct(evidence \o E), MaxEvidence)
  <2>1. r = [kind |-> kind, status |-> status, first |-> first, last |-> x, count |-> y, evidence |-> z]
    <3>1. r = Repeat(a, E, n)
      BY <1>2, <1>7 DEF Meets
    <3>2. Repeat(a, E, n) =
            [a EXCEPT !.last = IF n = 0 THEN @ ELSE n,
                      !.count = IF NewOccurrence(a, E, n) THEN @ + 1 ELSE @,
                      !.evidence = LastOf(Distinct(@ \o E), MaxEvidence)]
      BY DEF Repeat
    <3> DEFINE B == NewOccurrence(a, E, n)
    <3> HIDE DEF E, n, B, r
    <3>3. Repeat(a, E, n) = [a EXCEPT !.last = x, !.count = y, !.evidence = z]
      BY <1>4, <3>2 DEF B
    <3> HIDE DEF x, y, z
    <3> QED  BY <1>4, <3>1, <3>3
  <2>2. NewOccurrence(a, E, n) <=> n > last \/ ~(ToSet(E) \subseteq ToSet(evidence))
    BY <1>4 DEF NewOccurrence
  <2>3. status = "open" /\ kind = a.kind
    BY <1>4, <1>7
  <2>4. last = IF m > 1 THEN m ELSE 1
    BY <1>6, <2>3
  <2>5. /\ OnceEach(z)
        /\ Len(z) < MaxEvidence => /\ Len(evidence) < MaxEvidence
                                   /\ ToSet(z) = ToSet(evidence) \cup ToSet(E)
    <3> HIDE DEF E, z
    <3> QED  BY <1>5, <1>6, Gathered DEF z
  <2>6. ASSUME Len(evidence) < MaxEvidence, ~(n > last)
        PROVE  ToSet(E) \subseteq ToSet(evidence)
    <3>1. CASE m = n
      <4>1. Seen(events, b) = seen
        BY <1>2, <3>1
      <4>2. ToSet(E) \subseteq ToSet(EvidenceFor(kind, seen, b.at))
        BY <1>1, <1>2, <1>3, <2>3, EvidenceShrinks
      <4> QED  BY <1>6, <2>3, <2>6, <4>1, <4>2
    <3>2. CASE m # n
      <4>1. m = 0
        BY <1>2, <2>4, <2>6, <3>2
      <4>2. Seen(events, b) = <<>>
        <5> DEFINE s == Seen(events, b)
        <5>1. s \in Seq(ToSet(s)) /\ Len(s) = 0
          BY <1>2, <4>1 DEF Timed
        <5> HIDE DEF s
        <5>2. s = <<>>
          BY <5>1
        <5> QED  BY <5>2 DEF s
      <4>3. Active(kind, <<>>, b.at)
        BY <1>6, <2>3, <4>2
      <4>4. kind \in {"silent", "stall", "budget_risk"}
        BY <1>3, <2>3, <4>3, ActiveAtFirst
      <4>5. E = <<>>
        BY <2>3, <4>4 DEF EvidenceFor
      <4> QED  BY <4>5 DEF ToSet
    <3> QED  BY <3>1, <3>2
  <2>7. x \in Nat /\ last <= x /\ (n > last => last + 1 <= x) /\ x = IF n > 1 THEN n ELSE 1
    BY <1>2, <1>6, <2>4
  <2>8. y \in Nat /\ y <= count + 1
    BY <1>6
  <2>9. Len(z) < MaxEvidence => y - 1 <= x - first
    <3> HAVE Len(z) < MaxEvidence
    <3>1. Len(evidence) < MaxEvidence /\ count - 1 <= last - first
      BY <1>6, <2>5
    <3>2. CASE n > last
      BY <1>6, <2>7, <2>8, <3>1, <3>2
    <3>3. CASE ~(n > last)
      <4>1. y = count
        BY <2>2, <2>6, <3>1, <3>3
      <4> QED  BY <1>6, <2>7, <3>1, <4>1
    <3> QED  BY <3>2, <3>3
  <2> HIDE DEF x, y, z, r
  <2>10. /\ r.first = first /\ r.last = x /\ r.count = y /\ r.evidence = z /\ r.kind = kind
    BY <2>1
  <2>11. first <= x
    BY <1>6, <2>7
  <2>12. Len(z) < MaxEvidence => ToSet(EvidenceFor(kind, seen, t)) \subseteq ToSet(z)
    BY <2>3, <2>5
  <2> HIDE DEF n, seen, t, E
  <2>13. Active(kind, seen, t)
    BY <1>7, <2>3
  <2> QED
    BY <1>6, <2>5, <2>7, <2>8, <2>9, <2>10, <2>11, <2>12, <2>13 DEF Counted, n, seen, t, r
<1>8. CASE Active(a.kind, seen, t) /\ a.status # "open"
  <2>1. r = Fresh(a.kind, seen, t)
    BY <1>8, MeetsFacts
  <2> QED  BY <1>3, <1>8, <2>1, FreshCounts
<1>9. CASE ~Active(a.kind, seen, t) /\ a.status = "open"
  <2> DEFINE x == IF n = 0 THEN last ELSE n
  <2>1. r = [kind |-> kind, status |-> "recovered", first |-> first, last |-> x, count |-> count,
             evidence |-> evidence]
    <3>1. r = Recover(a, n)
      BY <1>2, <1>9 DEF Meets
    <3>2. Recover(a, n) = [a EXCEPT !.status = "recovered", !.last = IF n = 0 THEN @ ELSE n]
      BY DEF Recover
    <3> HIDE DEF n, r
    <3>3. Recover(a, n) = [a EXCEPT !.status = "recovered", !.last = x]
      BY <1>4, <3>2
    <3> HIDE DEF x
    <3> QED  BY <1>4, <3>1, <3>3
  <2>2. last = IF m > 1 THEN m ELSE 1
    BY <1>4, <1>6, <1>9
  <2>3. x \in Nat /\ last <= x
    BY <1>2, <1>6, <2>2
  <2> HIDE DEF x, r
  <2>4. /\ r.status = "recovered" /\ r.first = first /\ r.last = x /\ r.count = count
        /\ r.evidence = evidence
    BY <2>1
  <2>5. first <= x /\ (Len(evidence) < MaxEvidence => count - 1 <= x - first)
    BY <1>6, <2>3
  <2> QED  BY <1>6, <2>3, <2>4, <2>5 DEF Counted, r
<1>10. CASE ~Active(a.kind, seen, t) /\ a.status # "open"
  <2>1. r = a
    BY <1>10 DEF Meets
  <2> QED  BY <1>10, <2>1 DEF Counted
<1> QED
  BY <1>7, <1>8, <1>9, <1>10

-----------------------------------------------------------------------------
(* All alerts of a watch are counted this way.                             *)
CountInv ==
  /\ basis # NoBasis => \A a \in ToSet(memory) : Counted(a, journal, basis)
  /\ pc = "notify" => \A a \in ToSet(result.alerts) : Counted(a, journal, result.basis)

LEMMA InitCount == Init => CountInv
BY DEF Init, CountInv

LEMMA EvaluateCounts ==
  ASSUME DriftPercent > 0, WatchInv, Clock, CountInv, Evaluate
  PROVE  CountInv'
<1> DEFINE found == EvaluatePolicy(memory, journal, stamp)
           here  == [events |-> Len(journal), at |-> stamp]
           seen  == Seen(journal, here)
<1>1. /\ pc = "load" /\ pc' = "notify" /\ journal' = journal
      /\ result'.alerts = found.alerts /\ result'.basis = here
      /\ \/ mode = "stream" /\ memory' = found.alerts /\ basis' = here
         \/ mode # "stream" /\ UNCHANGED <<memory, basis>>
  BY DEF Evaluate
<1>2. /\ KnownAlerts(memory) /\ stamp \in Nat
      /\ Timed(journal) /\ Ordered(journal) /\ Len(journal) \in Nat
  BY <1>1 DEF WatchInv, Shapes, Clock, Timed
<1>3. here \in Bases /\ here.events = Len(journal) /\ here.at = stamp /\ here.events <= Len(journal)
  BY <1>2 DEF Bases
<1> HIDE DEF found, here
<1>4. seen = Observed(journal, stamp)
  BY <1>2, <1>3, SeenNow
<1>5. ToSet(found.alerts) \subseteq
        MetOnes(memory, seen, stamp) \cup FreshOnes(Onsets(memory, seen, stamp), seen, stamp)
  <2> HIDE DEF seen
  <2> QED  BY <1>2, <1>4, AlertsFound DEF found
<1>6. ASSUME NEW k \in Onsets(memory, seen, stamp)
      PROVE  Counted(Fresh(k, seen, stamp), journal, here)
  <2>1. k \in ToSet(Kinds) /\ Active(k, seen, stamp)
    BY <1>6 DEF Onsets
  <2> QED  BY <1>2, <1>3, <2>1, FreshCounts
<1>7. ASSUME NEW a \in ToSet(memory)
      PROVE  Counted(Meets(a, seen, stamp), journal, here)
  <2>1. basis # NoBasis
    <3>1. memory # <<>>
      BY DEF ToSet
    <3> QED  BY <3>1 DEF WatchInv, Remembered
  <2>2. /\ basis \in Bases /\ basis.events <= here.events /\ basis.at <= here.at
        /\ Counted(a, journal, basis)
    BY <1>1, <1>3, <2>1 DEF Clock, CountInv
  <2>3. IsAlert(a)
    BY <1>2 DEF KnownAlerts, ToSet
  <2>4. Counted(Meets(a, Seen(journal, here), here.at), journal, here)
    BY <1>2, <1>3, <2>2, <2>3, MeetCounts
  <2> QED  BY <1>3, <2>4
<1> HIDE DEF seen
<1>8. \A a \in ToSet(found.alerts) : Counted(a, journal, here)
  BY <1>5, <1>6, <1>7 DEF MetOnes, FreshOnes
<1> QED
  BY <1>1, <1>8 DEF CountInv

LEMMA CountStep ==
  DriftPercent > 0 /\ WatchInv /\ Clock /\ CountInv /\ [Next]_vars => CountInv'
<1> SUFFICES ASSUME DriftPercent > 0, WatchInv, Clock, CountInv, [Next]_vars PROVE CountInv'
  OBVIOUS
<1>1. CASE Start
  BY <1>1 DEF Start, CountInv
<1>2. CASE Quit
  BY <1>2 DEF Quit, End, CountInv
<1>3. CASE Ask
  BY <1>3 DEF Ask, CountInv
<1>4. CASE Evaluate
  BY <1>4, EvaluateCounts
<1>5. CASE Fail
  BY <1>5 DEF Fail, End, CountInv
<1>6. CASE Notify
  <2>1. pc = "notify" /\ pc' = "ready" /\ journal' = journal
    BY <1>6 DEF Notify
  <2>2. memory' = result.alerts /\ basis' = result.basis
    BY <1>6 DEF Notify, WatchInv, Pending, Clock
  <2> QED  BY <2>1, <2>2 DEF CountInv
<1>7. CASE Ingest
  <2>1. PICK e : journal' = Append(journal, e)
    BY <1>7 DEF Ingest
  <2>2. UNCHANGED <<now, mode, pc, stamp, memory, basis, result, sent>>
    BY <1>7 DEF Ingest, watch
  <2>3. ASSUME NEW a, NEW b \in Bases, b.events <= Len(journal), Counted(a, journal, b)
        PROVE  Counted(a, journal', b)
    <3>1. Seen(journal', b) = Seen(journal, b)
      BY <2>1, <2>3, SeenStays DEF Clock
    <3> QED  BY <2>3, <3>1 DEF Counted, Count
  <2>4. basis # NoBasis => basis \in Bases /\ basis.events <= Len(journal)
    BY DEF Clock
  <2>5. pc = "notify" => result.basis \in Bases /\ result.basis.events <= Len(journal)
    BY DEF Clock
  <2> QED  BY <2>2, <2>3, <2>4, <2>5 DEF CountInv
<1>8. CASE Tick
  BY <1>8 DEF Tick, watch, CountInv
<1>9. CASE UNCHANGED vars
  BY <1>9 DEF vars, CountInv
<1> QED
  BY <1>1, <1>2, <1>3, <1>4, <1>5, <1>6, <1>7, <1>8, <1>9 DEF Next, LoadFails, NotifyFails

(* Whatever the limits of history and evidence: as long as an alert is not *)
(* at the limit of its evidence, every occurrence after the first has an   *)
(* event of its own, however often the journal is read in between, by      *)
(* evaluations that fail or not (update in src/src/long/policy.ts:30).     *)
(* A threshold of drift above zero is needed: with zero an empty journal   *)
(* drifts, and its first event counts twice, as when the alert was raised  *)
(* and as what happened since.                                             *)
THEOREM OccurrencesHaveEvents ==
  ASSUME DriftPercent > 0
  PROVE  Spec => []OccurrencesAreEvents
<1>1. WatchInv /\ CountInv => OccurrencesAreEvents
  <2> SUFFICES ASSUME WatchInv, CountInv, NEW a \in ToSet(memory), Len(a.evidence) < MaxEvidence
               PROVE  a.count - 1 <= a.last - a.first
    BY DEF OccurrencesAreEvents
  <2>1. memory # <<>>
    BY DEF ToSet
  <2>2. Counted(a, journal, basis)
    BY <2>1 DEF WatchInv, Remembered, CountInv
  <2> QED  BY <2>2 DEF Counted
<1>2. WatchInv /\ Clock /\ CountInv /\ [Next]_vars => CountInv'
  BY CountStep
<1> QED
  BY <1>1, <1>2, InitCount, InitClock, ClockStep, Watching, PTL DEF Spec
-----------------------------------------------------------------------------
(* Types: what a watch remembers would pass longAlertSchema, by which every *)
(* update is parsed.                                                       *)

Measured(a, events, b) ==
  /\ a.first \in Nat /\ a.last \in Nat /\ a.count \in Nat
  /\ 1 <= a.first /\ a.first <= a.last /\ 1 <= a.count
  /\ OnceEach(a.evidence) /\ Len(a.evidence) <= MaxEvidence
  /\ a.status = "open" => a.last = IF Count(events, b) > 1 THEN Count(events, b) ELSE 1

LEMMA CutFits ==
  ASSUME NEW items, OnceEach(items)
  PROVE  OnceEach(LastOf(items, MaxEvidence)) /\ Len(LastOf(items, MaxEvidence)) <= MaxEvidence
<1> DEFINE S   == ToSet(items)
           n   == Len(items)
           m   == Max({1, n - MaxEvidence + 1})
           cut == LastOf(items, MaxEvidence)
<1>1. OnceEach(cut)
  BY CutOnce
<1>2. items \in Seq(S)
  BY DEF OnceEach
<1> HIDE DEF S
<1>3. n \in Nat /\ MaxEvidence \in Nat \ {0} /\ n - MaxEvidence + 1 \in Int
  BY <1>2, WatchAssumption
<1>4. cut = SubSeq(items, m, n)
  BY DEF LastOf
<1> HIDE DEF n, cut
<1>5. m = IF n - MaxEvidence + 1 > 1 THEN n - MaxEvidence + 1 ELSE 1
  BY <1>3, MaxWithOne
<1> HIDE DEF m
<1>6. m \in 1..(n + 1) /\ n - m + 1 <= MaxEvidence /\ n - m + 1 \in Nat
  BY <1>3, <1>5
<1>7. Len(cut) = n - m + 1
  BY <1>2, <1>3, <1>4, <1>6, SubSeqProperties DEF n
<1> QED
  BY <1>1, <1>6, <1>7 DEF cut

LEMMA FreshIsMeasured ==
  ASSUME NEW events, Timed(events), Ordered(events), NEW c \in Bases, c.events <= Len(events),
         NEW k \in ToSet(Kinds)
  PROVE  Measured(Fresh(k, Seen(events, c), c.at), events, c)
<1> DEFINE seen == Seen(events, c)
           E == EvidenceFor(k, seen, c.at)
           n == Len(seen)
           f == Max({1, n})
           z == LastOf(E, MaxEvidence)
           a == Fresh(k, seen, c.at)
<1>1. Timed(seen) /\ n = Count(events, c) /\ n \in Nat
  BY SeenFacts DEF Count, Timed
<1>2. OnceEach(E)
  BY <1>1, EvidenceFacts
<1>3. OnceEach(z) /\ Len(z) <= MaxEvidence
  <2> HIDE DEF E
  <2> QED  BY <1>2, CutFits
<1>4. f = IF n > 1 THEN n ELSE 1
  <2> HIDE DEF n
  <2> QED  BY <1>1, MaxWithOne
<1>5. a = [kind |-> k, status |-> "open", first |-> f, last |-> f, count |-> 1, evidence |-> z]
  BY DEF Fresh, NewAlert
<1> HIDE DEF seen, E, n, f, z, a
<1>6. a.first = f /\ a.last = f /\ a.count = 1 /\ a.evidence = z /\ f \in Nat /\ 1 <= f
  BY <1>1, <1>4, <1>5
<1>7. Measured(a, events, c)
  BY <1>1, <1>3, <1>4, <1>6 DEF Measured
<1> QED
  BY <1>7 DEF a, seen

LEMMA MeetIsMeasured ==
  ASSUME NEW events, Timed(events), Ordered(events),
         NEW b \in Bases, NEW c \in Bases,
         b.events <= c.events, c.events <= Len(events), b.at <= c.at,
         NEW a, IsAlert(a), Measured(a, events, b)
  PROVE  Measured(Meets(a, Seen(events, c), c.at), events, c)
<1> DEFINE m == Count(events, b)
           n == Count(events, c)
           seen == Seen(events, c)
           t == c.at
           E == EvidenceFor(a.kind, seen, t)
           r == Meets(a, seen, t)
<1>1. b.at \in Nat /\ t \in Nat /\ b.events <= Len(events)
  BY DEF Bases, Timed
<1>2. m \in Nat /\ n \in Nat /\ m <= n /\ Timed(seen) /\ Len(seen) = n
  BY <1>1, SeenGrows, SeenFacts DEF Count
<1>3. a.kind \in ToSet(Kinds) /\ a.status \in {"open", "recovered"}
  BY DEF IsAlert
<1>4. PICK kind, status, first, last, count, evidence :
        a = [kind |-> kind, status |-> status, first |-> first, last |-> last,
             count |-> count, evidence |-> evidence]
  BY DEF IsAlert
<1>5. /\ first \in Nat /\ last \in Nat /\ count \in Nat /\ 1 <= first /\ first <= last /\ 1 <= count
      /\ OnceEach(evidence) /\ Len(evidence) <= MaxEvidence
      /\ status = "open" => last = IF m > 1 THEN m ELSE 1
  <2>1. a.first = first /\ a.last = last /\ a.count = count /\ a.evidence = evidence /\ a.status = status
    BY <1>4
  <2> HIDE DEF m
  <2> QED  BY <2>1 DEF Measured, m
<1> DEFINE x == IF n = 0 THEN last ELSE n
<1>6. status = "open" => x \in Nat /\ last <= x /\ x = IF n > 1 THEN n ELSE 1
  BY <1>2, <1>5
<1>7. CASE Active(a.kind, seen, t) /\ a.status = "open"
  <2> DEFINE y == IF NewOccurrence(a, E, n) THEN count + 1 ELSE count
             z == LastOf(Distinct(evidence \o E), MaxEvidence)
  <2>1. r = [kind |-> kind, status |-> status, first |-> first, last |-> x, count |-> y, evidence |-> z]
    <3>1. r = Repeat(a, E, n)
      BY <1>2, <1>7 DEF Meets
    <3>2. Repeat(a, E, n) =
            [a EXCEPT !.last = IF n = 0 THEN @ ELSE n,
                      !.count = IF NewOccurrence(a, E, n) THEN @ + 1 ELSE @,
                      !.evidence = LastOf(Distinct(@ \o E), MaxEvidence)]
      BY DEF Repeat
    <3> DEFINE B == NewOccurrence(a, E, n)
    <3> HIDE DEF E, n, B, r
    <3>3. Repeat(a, E, n) = [a EXCEPT !.last = x, !.count = y, !.evidence = z]
      BY <1>4, <3>2 DEF B
    <3> HIDE DEF x, y, z
    <3> QED  BY <1>4, <3>1, <3>3
  <2>2. status = "open"
    BY <1>4, <1>7
  <2>3. OnceEach(z) /\ Len(z) <= MaxEvidence
    <3> DEFINE A == ToSet(evidence)
               B == ToSet(E)
               d == Distinct(evidence \o E)
    <3>1. OnceEach(E)
      BY <1>2, <1>3, EvidenceFacts
    <3>2. evidence \in Seq(A) /\ E \in Seq(B)
      BY <1>5, <3>1 DEF OnceEach
    <3> HIDE DEF A, B, E
    <3>3. evidence \o E \in Seq(A \cup B)
      BY <3>2
    <3>4. d \in Seq(A \cup B) /\ \A i, j \in DOMAIN d : d[i] = d[j] => i = j
      BY <3>3, DistinctFacts
    <3> HIDE DEF d
    <3>5. OnceEach(d)
      BY <3>4, OfItsItems DEF OnceEach
    <3> QED  BY <3>5, CutFits DEF d
  <2>4. y \in Nat /\ 1 <= y
    BY <1>5
  <2> HIDE DEF x, y, z, r
  <2>5. r.first = first /\ r.last = x /\ r.count = y /\ r.evidence = z
    BY <2>1
  <2>6. first <= x
    BY <1>5, <1>6, <2>2
  <2> HIDE DEF n
  <2> QED  BY <1>5, <1>6, <2>2, <2>3, <2>4, <2>5, <2>6 DEF Measured, n, r
<1>8. CASE Active(a.kind, seen, t) /\ a.status # "open"
  <2>1. r = Fresh(a.kind, seen, t)
    BY <1>8, MeetsFacts
  <2> QED  BY <1>3, <2>1, FreshIsMeasured
<1>9. CASE ~Active(a.kind, seen, t) /\ a.status = "open"
  <2>1. r = [kind |-> kind, status |-> "recovered", first |-> first, last |-> x, count |-> count,
             evidence |-> evidence]
    <3>1. r = Recover(a, n)
      BY <1>2, <1>9 DEF Meets
    <3>2. Recover(a, n) = [a EXCEPT !.status = "recovered", !.last = IF n = 0 THEN @ ELSE n]
      BY DEF Recover
    <3> HIDE DEF n, r
    <3>3. Recover(a, n) = [a EXCEPT !.status = "recovered", !.last = x]
      BY <1>4, <3>2
    <3> HIDE DEF x
    <3> QED  BY <1>4, <3>1, <3>3
  <2>2. status = "open"
    BY <1>4, <1>9
  <2> HIDE DEF x, r
  <2>3. /\ r.status = "recovered" /\ r.first = first /\ r.last = x /\ r.count = count
        /\ r.evidence = evidence
    BY <2>1
  <2>4. x \in Nat /\ first <= x
    BY <1>5, <1>6, <2>2
  <2> QED  BY <1>5, <2>3, <2>4 DEF Measured, r
<1>10. CASE ~Active(a.kind, seen, t) /\ a.status # "open"
  <2>1. r = a
    BY <1>10 DEF Meets
  <2> QED  BY <1>10, <2>1 DEF Measured
<1> QED
  BY <1>7, <1>8, <1>9, <1>10

MeasureInv ==
  /\ now <= MaxTime /\ stamp <= now /\ mode \in Modes
  /\ pc # "notify" => result = NoResult
  /\ basis # NoBasis => \A a \in ToSet(memory) : Measured(a, journal, basis)
  /\ pc = "notify" => \A a \in ToSet(result.alerts) : Measured(a, journal, result.basis)

LEMMA InitMeasure == Init => MeasureInv
BY WatchAssumption DEF Init, MeasureInv

LEMMA EvaluateMeasures ==
  ASSUME WatchInv, Clock, MeasureInv, Evaluate
  PROVE  MeasureInv'
<1> DEFINE found == EvaluatePolicy(memory, journal, stamp)
           here  == [events |-> Len(journal), at |-> stamp]
           seen  == Seen(journal, here)
<1>1. /\ pc = "load" /\ pc' = "notify" /\ journal' = journal /\ stamp' = 0 /\ UNCHANGED <<now, mode>>
      /\ result'.alerts = found.alerts /\ result'.basis = here
      /\ \/ mode = "stream" /\ memory' = found.alerts /\ basis' = here
         \/ mode # "stream" /\ UNCHANGED <<memory, basis>>
  BY DEF Evaluate
<1>2. /\ KnownAlerts(memory) /\ stamp \in Nat /\ now \in Nat
      /\ Timed(journal) /\ Ordered(journal) /\ Len(journal) \in Nat
  BY <1>1 DEF WatchInv, Shapes, Clock, Timed
<1>3. here \in Bases /\ here.events = Len(journal) /\ here.at = stamp /\ here.events <= Len(journal)
  BY <1>2 DEF Bases
<1> HIDE DEF found, here
<1>4. seen = Observed(journal, stamp)
  BY <1>2, <1>3, SeenNow
<1>5. ToSet(found.alerts) \subseteq
        MetOnes(memory, seen, stamp) \cup FreshOnes(Onsets(memory, seen, stamp), seen, stamp)
  <2> HIDE DEF seen
  <2> QED  BY <1>2, <1>4, AlertsFound DEF found
<1>6. ASSUME NEW k \in Onsets(memory, seen, stamp)
      PROVE  Measured(Fresh(k, seen, stamp), journal, here)
  <2>1. k \in ToSet(Kinds)
    BY <1>6 DEF Onsets
  <2> QED  BY <1>2, <1>3, <2>1, FreshIsMeasured
<1>7. ASSUME NEW a \in ToSet(memory)
      PROVE  Measured(Meets(a, seen, stamp), journal, here)
  <2>1. basis # NoBasis
    <3>1. memory # <<>>
      BY DEF ToSet
    <3> QED  BY <3>1 DEF WatchInv, Remembered
  <2>2. /\ basis \in Bases /\ basis.events <= here.events /\ basis.at <= here.at
        /\ Measured(a, journal, basis)
    BY <1>1, <1>3, <2>1 DEF Clock, MeasureInv
  <2>3. IsAlert(a)
    BY <1>2 DEF KnownAlerts, ToSet
  <2>4. Measured(Meets(a, Seen(journal, here), here.at), journal, here)
    BY <1>2, <1>3, <2>2, <2>3, MeetIsMeasured
  <2> QED  BY <1>3, <2>4
<1> HIDE DEF seen
<1>8. \A a \in ToSet(found.alerts) : Measured(a, journal, here)
  BY <1>5, <1>6, <1>7 DEF MetOnes, FreshOnes
<1> QED
  BY <1>1, <1>2, <1>8 DEF MeasureInv

LEMMA MeasureStep == WatchInv /\ Clock /\ MeasureInv /\ [Next]_vars => MeasureInv'
<1> SUFFICES ASSUME WatchInv, Clock, MeasureInv, [Next]_vars PROVE MeasureInv'
  OBVIOUS
<1>0. now \in Nat /\ stamp \in Nat /\ MaxTime \in Nat
  BY WatchAssumption DEF WatchInv, Shapes
<1>1. CASE Start
  BY <1>1 DEF Start, MeasureInv
<1>2. CASE Quit
  BY <1>2 DEF Quit, End, MeasureInv
<1>3. CASE Ask
  BY <1>0, <1>3 DEF Ask, MeasureInv
<1>4. CASE Evaluate
  BY <1>4, EvaluateMeasures
<1>5. CASE Fail
  BY <1>0, <1>5 DEF Fail, End, MeasureInv
<1>6. CASE Notify
  <2>1. pc = "notify" /\ pc' = "ready" /\ result' = NoResult /\ UNCHANGED <<journal, now, mode, stamp>>
    BY <1>6 DEF Notify
  <2>2. memory' = result.alerts /\ basis' = result.basis
    BY <1>6 DEF Notify, WatchInv, Pending, Clock
  <2> QED  BY <2>1, <2>2 DEF MeasureInv
<1>7. CASE Ingest
  <2>1. PICK e : journal' = Append(journal, e)
    BY <1>7 DEF Ingest
  <2>2. UNCHANGED <<now, mode, pc, stamp, memory, basis, result, sent>>
    BY <1>7 DEF Ingest, watch
  <2>3. ASSUME NEW a, NEW b \in Bases, b.events <= Len(journal), Measured(a, journal, b)
        PROVE  Measured(a, journal', b)
    <3>1. Seen(journal', b) = Seen(journal, b)
      BY <2>1, <2>3, SeenStays DEF Clock
    <3> QED  BY <2>3, <3>1 DEF Measured, Count
  <2>4. basis # NoBasis => basis \in Bases /\ basis.events <= Len(journal)
    BY DEF Clock
  <2>5. pc = "notify" => result.basis \in Bases /\ result.basis.events <= Len(journal)
    BY DEF Clock
  <2> QED  BY <2>2, <2>3, <2>4, <2>5 DEF MeasureInv
<1>8. CASE Tick
  BY <1>0, <1>8 DEF Tick, watch, MeasureInv
<1>9. CASE UNCHANGED vars
  BY <1>9 DEF vars, MeasureInv
<1> QED
  BY <1>1, <1>2, <1>3, <1>4, <1>5, <1>6, <1>7, <1>8, <1>9 DEF Next, LoadFails, NotifyFails

(* No evaluation makes an alert that longAlertSchema would refuse, which   *)
(* would end the watch (src/src/long/policy.ts:30): for any journal,       *)
(* thresholds and limits, first and last stay in order, an occurrence is   *)
(* counted at least, and evidence stays within its limit and without       *)
(* repetition, with one alert of a kind at most.                           *)
THEOREM WatchTypes == Spec => []TypeOK
<1>1. WatchInv /\ Clock /\ MeasureInv => TypeOK
  <2> SUFFICES ASSUME WatchInv, Clock, MeasureInv PROVE TypeOK
    OBVIOUS
  <2>1. ASSUME NEW alerts, NEW b, KnownAlerts(alerts),
               \A a \in ToSet(alerts) : Measured(a, journal, b)
        PROVE  AlertsValid(alerts)
    <3>1. \A a \in ToSet(alerts) : IsAlert(a)
      BY <2>1 DEF KnownAlerts, ToSet
    <3>2. \A a \in ToSet(alerts) : IsInjective(a.evidence) /\ Len(a.evidence) <= MaxEvidence
      BY <2>1 DEF Measured, OnceEach, IsInjective
    <3> QED  BY <2>1, <3>1, <3>2 DEF AlertsValid, KnownAlerts, IsAlert, Measured
  <2>2. KnownAlerts(memory) /\ (basis = NoBasis => memory = <<>>)
    BY DEF WatchInv, Shapes, Remembered
  <2>3. AlertsValid(<<>>)
    BY DEF AlertsValid, ToSet
  <2>4. AlertsValid(memory)
    BY <2>1, <2>2, <2>3 DEF MeasureInv
  <2>5. AlertsValid(result.alerts)
    <3>1. CASE pc = "notify"
      BY <2>1, <3>1 DEF WatchInv, Pending, MeasureInv
    <3>2. CASE pc # "notify"
      <4>1. result.alerts = <<>>
        BY <3>2 DEF MeasureInv, NoResult
      <4> QED  BY <2>3, <4>1
    <3> QED  BY <3>1, <3>2
  <2>6. now \in 0..MaxTime /\ stamp \in 0..now
    BY WatchAssumption DEF WatchInv, Shapes, MeasureInv
  <2>7. basis = NoBasis \/ basis.events <= Len(journal)
    BY DEF Clock
  <2> QED  BY <2>4, <2>5, <2>6, <2>7 DEF TypeOK, WatchInv, Shapes, MeasureInv
<1> QED
  BY <1>1, InitMeasure, MeasureStep, InitClock, ClockStep, Watching, PTL DEF Spec
=============================================================================
