--------------------------- MODULE CampaignProofs ---------------------------
(***************************************************************************)
(* What is proved about campaigns for any candidates, judges, evidence and *)
(* bounds: what a promotion rests on and what a campaign file may probe,   *)
(* that Sift keeps the best, that the order of the questions is ignored,   *)
(* that an outcome of Decide is earned, and what domination is.            *)
(*                                                                         *)
(* The argument: a ranking lists every index once in the order of its      *)
(* score (RankedFacts); answers looked up by position are the judge's own  *)
(* (AnswersAreOwn), so that the result does not depend on the order of the *)
(* questions; the loop over the ranked candidates decides each of them     *)
(* once, and rightly among the ones before it (SieveTurns, SiftedAtLast);  *)
(* every campaign file holds that result (CampaignsRight).                 *)
(***************************************************************************)
EXTENDS Campaign, FiniteSetTheorems, FunctionTheorems, SequenceTheorems, TLAPS

(* Domination is irreflexive, whatever a finalist leaves out ...           *)
THEOREM DominationIrreflexive ==
  ASSUME NEW e, e.gain \in Seq(Amounts), e.spent \in [Resources -> Amounts]
  PROVE  ~ObjectivelyDominates(e, e)
<1>1. \A m \in DOMAIN e.gain : e.gain[m] \in Int \/ e.gain[m] = NoValue
  BY DEF Amounts
<1>2. \A r \in Resources : e.spent[r] \in Int \/ e.spent[r] = NoValue
  BY DEF Amounts
<1> QED
  BY <1>1, <1>2 DEF ObjectivelyDominates, Comparable

(* ... and among finalists that account for every resource it is           *)
(* transitive: one that is dominated by a dominated one is dominated by    *)
(* the latter's dominator too, so that decideCampaign may test all pairs   *)
(* at once (decide.ts:209-223).  Finalists that do not account for tokens  *)
(* or cost are outside of this theorem, and rightly: see the README.       *)
THEOREM DominationTransitive ==
  ASSUME NEW e, NEW f, NEW g, NoValue \notin Int,
         e.gain \in Seq(Amounts), f.gain \in Seq(Amounts), g.gain \in Seq(Amounts),
         e.spent \in [Resources -> Int], f.spent \in [Resources -> Int], g.spent \in [Resources -> Int],
         ObjectivelyDominates(e, f), ObjectivelyDominates(f, g)
  PROVE  ObjectivelyDominates(e, g)
<1> DEFINE M           == DOMAIN e.gain
           worse(a, b) == \E m \in M : a.gain[m] > b.gain[m]
           less(a, b)  == \E r \in Resources : a.spent[r] < b.spent[r]
<1>1. M # {} /\ DOMAIN f.gain = M /\ DOMAIN g.gain = M
  BY DEF ObjectivelyDominates
<1>2. /\ \A m \in M : e.gain[m] \in Int /\ f.gain[m] \in Int /\ g.gain[m] \in Int
      /\ \A r \in Resources : e.spent[r] \in Int /\ f.spent[r] \in Int /\ g.spent[r] \in Int
  <2>1. \A m \in M : e.gain[m] \in Amounts /\ f.gain[m] \in Amounts /\ g.gain[m] \in Amounts
    BY <1>1
  <2>2. \A m \in M : e.gain[m] # NoValue /\ f.gain[m] # NoValue /\ g.gain[m] # NoValue
    BY <1>1 DEF ObjectivelyDominates
  <2> QED  BY <2>1, <2>2 DEF Amounts
<1>3. /\ \A m \in M : e.gain[m] >= f.gain[m] /\ f.gain[m] >= g.gain[m]
      /\ \A r \in Resources : e.spent[r] <= f.spent[r] /\ f.spent[r] <= g.spent[r]
      /\ worse(e, f) \/ less(e, f)
  BY <1>1, <1>2 DEF ObjectivelyDominates, Comparable
<1>4. worse(e, g) \/ less(e, g)
  <2>1. CASE worse(e, f)
    <3>1. PICK m \in M : e.gain[m] > f.gain[m]
      BY <2>1
    <3>2. /\ e.gain[m] \in Int /\ f.gain[m] \in Int /\ g.gain[m] \in Int
          /\ f.gain[m] >= g.gain[m]
      BY <1>2, <1>3
    <3>3. e.gain[m] > g.gain[m]
      BY <3>1, <3>2
    <3> QED  BY <3>3
  <2>2. CASE less(e, f)
    <3>1. PICK r \in Resources : e.spent[r] < f.spent[r]
      BY <2>2
    <3>2. /\ e.spent[r] \in Int /\ f.spent[r] \in Int /\ g.spent[r] \in Int
          /\ f.spent[r] <= g.spent[r]
      BY <1>2, <1>3
    <3>3. e.spent[r] < g.spent[r]
      BY <3>1, <3>2
    <3> QED  BY <3>3
  <2> QED  BY <1>3, <2>1, <2>2
<1>5. \A m \in M : e.gain[m] # NoValue /\ g.gain[m] # NoValue /\ e.gain[m] >= g.gain[m]
  <2> TAKE m \in M
  <2>1. /\ e.gain[m] \in Int /\ f.gain[m] \in Int /\ g.gain[m] \in Int
        /\ e.gain[m] >= f.gain[m] /\ f.gain[m] >= g.gain[m]
    BY <1>2, <1>3
  <2>2. e.gain[m] >= g.gain[m]
    BY <2>1
  <2> QED  BY <2>1, <2>2
<1>6. \A r \in Resources : e.spent[r] <= g.spent[r] /\ Comparable(e, g, r)
  <2> TAKE r \in Resources
  <2>1. /\ e.spent[r] \in Int /\ f.spent[r] \in Int /\ g.spent[r] \in Int
        /\ e.spent[r] <= f.spent[r] /\ f.spent[r] <= g.spent[r]
    BY <1>2, <1>3
  <2>2. e.spent[r] <= g.spent[r]
    BY <2>1
  <2> QED  BY <2>1, <2>2 DEF Comparable
<1> QED
  BY <1>1, <1>4, <1>5, <1>6 DEF ObjectivelyDominates

-----------------------------------------------------------------------------
(* Rankings.                                                               *)

(* A finite set is counted off by sets that grow from one of its elements  *)
(* to the next.                                                            *)
Growing(P, upto) ==
  /\ IsFiniteSet(P) /\ upto \in [P -> SUBSET P]
  /\ \A i \in P : i \in upto[i]
  /\ \A i, j \in P : i # j => \/ upto[i] \subseteq upto[j] /\ j \notin upto[i]
                              \/ upto[j] \subseteq upto[i] /\ i \notin upto[j]

(* The sequence r holds every element of P once, in the order of upto.     *)
RanksBy(r, P, upto) ==
  /\ Cardinality(P) \in Nat
  /\ r \in Seq(P) /\ DOMAIN r = 1..Cardinality(P)
  /\ \A i \in P : \E k \in DOMAIN r : r[k] = i
  /\ \A k, l \in DOMAIN r : r[k] = r[l] => k = l
  /\ \A k, l \in DOMAIN r : k <= l <=> r[k] \in upto[r[l]]

LEMMA RankedFacts ==
  ASSUME NEW P, NEW upto, Growing(P, upto)
  PROVE  RanksBy(Ranked(upto), P, upto)
<1> DEFINE c     == Cardinality(P)
           at(k) == CHOOSE i \in P : Cardinality(upto[i]) = k
           r     == [k \in 1..c |-> at(k)]
<1>1. IsFiniteSet(P) /\ c \in Nat /\ DOMAIN upto = P
  BY FS_CardinalityType DEF Growing
<1>2. ASSUME NEW i \in P
      PROVE  /\ IsFiniteSet(upto[i]) /\ Cardinality(upto[i]) \in Nat
             /\ Cardinality(upto[i]) \in 1..c
  <2>1. upto[i] \subseteq P /\ i \in upto[i]
    BY DEF Growing
  <2>2. IsFiniteSet(upto[i]) /\ Cardinality(upto[i]) \in Nat /\ Cardinality(upto[i]) <= c
    BY <1>1, <2>1, FS_Subset, FS_CardinalityType
  <2>3. Cardinality(upto[i]) # 0
    BY <2>1, <2>2, FS_EmptySet
  <2> QED  BY <1>1, <2>2, <2>3
<1>3. ASSUME NEW i \in P, NEW j \in P, upto[i] \subseteq upto[j], j \notin upto[i]
      PROVE  Cardinality(upto[i]) < Cardinality(upto[j])
  <2>1. j \in upto[j] /\ upto[i] # upto[j]
    BY <1>3 DEF Growing
  <2>2. Cardinality(upto[i]) <= Cardinality(upto[j]) /\ Cardinality(upto[i]) # Cardinality(upto[j])
    BY <1>2, <1>3, <2>1, FS_Subset
  <2> QED  BY <1>2, <2>2
<1>4. \A i, j \in P : Cardinality(upto[i]) = Cardinality(upto[j]) => i = j
  <2> SUFFICES ASSUME NEW i \in P, NEW j \in P, i # j
               PROVE  Cardinality(upto[i]) # Cardinality(upto[j])
    OBVIOUS
  <2>1. Cardinality(upto[i]) < Cardinality(upto[j]) \/ Cardinality(upto[j]) < Cardinality(upto[i])
    BY <1>3 DEF Growing
  <2> QED  BY <1>2, <2>1
<1>5. \A k \in 1..c : \E i \in P : Cardinality(upto[i]) = k
  <2> DEFINE T == 1..c
             f == [i \in P |-> Cardinality(upto[i])]
  <2>1. IsFiniteSet(T) /\ Cardinality(T) = c
    <3>1. c >= 1 => c - 1 + 1 = c
      BY <1>1
    <3> QED  BY <1>1, <3>1, FS_Interval
  <2>2. f \in Injection(P, T)
    BY <1>2, <1>4 DEF Injection, IsInjective
  <2> HIDE DEF T, f
  <2>3. f \in Surjection(P, T)
    BY <1>1, <2>1, <2>2, FS_Injection
  <2> QED  BY <2>3 DEF Surjection, f, T
<1> HIDE DEF c
<1>6. \A k \in 1..c : at(k) \in P /\ Cardinality(upto[at(k)]) = k
  BY <1>5
<1> HIDE DEF at
<1>7. r \in Seq(P) /\ DOMAIN r = 1..c /\ \A k \in 1..c : r[k] = at(k)
  BY <1>1, <1>6
<1>8. Ranked(upto) = r
  <2>1. Ranked(upto) = <<>> \o r
    BY <1>1 DEF Ranked, c, at
  <2> HIDE DEF r
  <2> QED  BY <1>7, <2>1, ConcatEmptySeq
<1> HIDE DEF r
<1>9. \A i \in P : \E k \in 1..c : r[k] = i
  <2> TAKE i \in P
  <2>1. at(Cardinality(upto[i])) = i
    BY <1>2, <1>4, <1>6
  <2> QED  BY <1>2, <1>7, <2>1
<1>10. \A k, l \in 1..c : r[k] = r[l] => k = l
  BY <1>6, <1>7
<1>11. ASSUME NEW k \in 1..c, NEW l \in 1..c
       PROVE  k <= l <=> r[k] \in upto[r[l]]
  <2>1. r[k] \in P /\ r[l] \in P /\ Cardinality(upto[r[k]]) = k /\ Cardinality(upto[r[l]]) = l
    BY <1>6, <1>7
  <2>2. k \in Nat /\ l \in Nat
    BY <1>1
  <2>3. CASE r[k] = r[l]
    BY <1>10, <2>1, <2>2, <2>3 DEF Growing
  <2>4. CASE upto[r[k]] \subseteq upto[r[l]] /\ r[l] \notin upto[r[k]]
    <3>1. k < l
      BY <1>3, <2>1, <2>4
    <3>2. r[k] \in upto[r[l]]
      BY <2>1, <2>4 DEF Growing
    <3> QED  BY <2>2, <3>1, <3>2
  <2>5. CASE upto[r[l]] \subseteq upto[r[k]] /\ r[k] \notin upto[r[l]]
    <3>1. l < k
      BY <1>3, <2>1, <2>5
    <3> QED  BY <2>2, <2>5, <3>1
  <2> QED  BY <2>1, <2>3, <2>4, <2>5 DEF Growing
<1> QED
  BY <1>1, <1>7, <1>8, <1>9, <1>10, <1>11 DEF RanksBy, c

LEMMA IndexesFinite ==
  ASSUME NEW n \in Nat, NEW P \in SUBSET (1..n)
  PROVE  IsFiniteSet(P)
<1>1. IsFiniteSet(1..n)
  BY FS_Interval
<1> QED
  BY <1>1, FS_Subset

UptoScore(score) ==
  [i \in DOMAIN score |->
     {j \in DOMAIN score : score[j] > score[i] \/ (score[j] = score[i] /\ j <= i)}]

(* Sorting indexes by a score, the best first, in order among equals.      *)
LEMMA BestFirstFacts ==
  ASSUME NEW n \in Nat, NEW P \in SUBSET (1..n), NEW score \in [P -> Int]
  PROVE  RanksBy(BestFirst(score), P, UptoScore(score))
<1> DEFINE upto == UptoScore(score)
           Ahead(j, i) == score[j] > score[i] \/ (score[j] = score[i] /\ j <= i)
<1>1. IsFiniteSet(P)
  BY IndexesFinite
<1>2. \A i \in P : i \in Int /\ score[i] \in Int
  OBVIOUS
<1>3. /\ upto \in [P -> SUBSET P]
      /\ \A i \in P : upto[i] = {j \in P : Ahead(j, i)}
  BY DEF UptoScore
<1>4. /\ \A i \in P : Ahead(i, i)
      /\ \A i, j \in P : i # j => (Ahead(i, j) /\ ~Ahead(j, i)) \/ (Ahead(j, i) /\ ~Ahead(i, j))
      /\ \A i, j, k \in P : Ahead(k, i) /\ Ahead(i, j) => Ahead(k, j)
  BY <1>2
<1>5. BestFirst(score) = Ranked(upto)
  BY DEF BestFirst, UptoScore
<1> HIDE DEF Ahead, upto
<1>6. ASSUME NEW i \in P, NEW j \in P, Ahead(i, j), ~Ahead(j, i)
      PROVE  upto[i] \subseteq upto[j] /\ j \notin upto[i]
  BY <1>3, <1>4, <1>6
<1>7. Growing(P, upto)
  BY <1>1, <1>3, <1>4, <1>6 DEF Growing
<1> QED
  BY <1>5, <1>7, RankedFacts DEF upto

(* Sorting indexes.                                                        *)
LEMMA InOrderFacts ==
  ASSUME NEW n \in Nat, NEW P \in SUBSET (1..n)
  PROVE  RanksBy(InOrder(P), P, [i \in P |-> {j \in P : j <= i}])
<1> DEFINE upto == [i \in P |-> {j \in P : j <= i}]
<1>1. IsFiniteSet(P)
  BY IndexesFinite
<1>2. \A i \in P : i \in Int
  OBVIOUS
<1>3. \A i, j \in P : i # j => \/ upto[i] \subseteq upto[j] /\ j \notin upto[i]
                               \/ upto[j] \subseteq upto[i] /\ i \notin upto[j]
  <2>1. \A i, j, k \in P : i < j /\ k <= i => k <= j
    BY <1>2
  <2>2. \A i, j \in P : i # j => (i < j /\ ~(j <= i)) \/ (j < i /\ ~(i <= j))
    BY <1>2
  <2> QED  BY <2>1, <2>2
<1>4. upto \in [P -> SUBSET P] /\ \A i \in P : i \in upto[i]
  BY <1>2
<1>5. InOrder(P) = Ranked(upto)
  BY DEF InOrder
<1> HIDE DEF upto
<1>6. Growing(P, upto)
  BY <1>1, <1>3, <1>4 DEF Growing
<1> QED
  BY <1>5, <1>6, RankedFacts DEF upto

(* The order of a plan's questions is a permutation of the indexes.        *)
Permutes(order, n) ==
  /\ order \in [1..n -> 1..n]
  /\ \A i \in 1..n : \E k \in 1..n : order[k] = i
  /\ \A k, l \in 1..n : order[k] = order[l] => k = l

LEMMA CanonicalFacts ==
  ASSUME NEW n \in Nat, NEW ids \in [1..n -> Nat], IsInjective(ids), NEW canonicalize \in BOOLEAN
  PROVE  Permutes(Canonical(ids, canonicalize), n)
<1>1. CASE ~canonicalize
  <2>1. Canonical(ids, canonicalize) = [i \in 1..n |-> i]
    BY <1>1 DEF Canonical
  <2> QED  BY <2>1 DEF Permutes
<1>2. CASE canonicalize
  <2> DEFINE P    == 1..n
             upto == [i \in P |-> {j \in P : ids[j] <= ids[i]}]
  <2>1. Canonical(ids, canonicalize) = Ranked(upto)
    BY <1>2 DEF Canonical
  <2>2. IsFiniteSet(P) /\ Cardinality(P) = n /\ P = 1..n
    <3>1. n >= 1 => n - 1 + 1 = n
      OBVIOUS
    <3> QED  BY <3>1, FS_Interval
  <2>3. \A i \in P : ids[i] \in Int
    OBVIOUS
  <2>4. \A i, j \in P : i # j => ids[i] # ids[j]
    BY DEF IsInjective
  <2>5. \A i, j \in P : i # j => \/ upto[i] \subseteq upto[j] /\ j \notin upto[i]
                                 \/ upto[j] \subseteq upto[i] /\ i \notin upto[j]
    <3>1. \A i, j, k \in P : ids[i] < ids[j] /\ ids[k] <= ids[i] => ids[k] <= ids[j]
      BY <2>3
    <3>2. \A i, j \in P : i # j => \/ ids[i] < ids[j] /\ ~(ids[j] <= ids[i])
                                   \/ ids[j] < ids[i] /\ ~(ids[i] <= ids[j])
      BY <2>3, <2>4
    <3> QED  BY <3>1, <3>2
  <2>6. upto \in [P -> SUBSET P] /\ \A i \in P : i \in upto[i]
    BY <2>3
  <2> HIDE DEF P, upto
  <2>7. Growing(P, upto)
    BY <2>2, <2>5, <2>6 DEF Growing
  <2>8. RanksBy(Ranked(upto), P, upto)
    BY <2>7, RankedFacts
  <2> DEFINE r == Ranked(upto)
  <2>9. /\ r \in Seq(P) /\ DOMAIN r = P
        /\ \A i \in P : \E k \in P : r[k] = i
        /\ \A k, l \in P : r[k] = r[l] => k = l
    BY <2>2, <2>8 DEF RanksBy
  <2> HIDE DEF r
  <2>10. r \in [P -> P]
    BY <2>9
  <2>11. Permutes(r, n)
    BY <2>2, <2>9, <2>10 DEF Permutes
  <2> QED  BY <2>1, <2>11 DEF r
<1> QED
  BY <1>1, <1>2
-----------------------------------------------------------------------------
(* Questions and answers.                                                  *)

(* Whatever the order of the questions, the answer at the position of an   *)
(* item is the judge's opinion of that item.                               *)
AnswersOwn(judge, ids, order) ==
  /\ \A i \in DOMAIN ids : Answers(judge, ids, order).cards[Position(order, i)] = judge.card[ids[i]]
  /\ \A i, j \in DOMAIN ids : i # j =>
       Answers(judge, ids, order).pairs[PairKey(Position(order, i), Position(order, j))]
         = ({ids[i], ids[j]} \in judge.pairs)

LEMMA AnswersAreOwn ==
  ASSUME NEW n \in Nat, NEW ids \in [1..n -> Nat], NEW order, Permutes(order, n), NEW judge
  PROVE  AnswersOwn(judge, ids, order)
<1> DEFINE response == Answers(judge, ids, order)
<1>1. order \in Seq(1..n) /\ Len(order) = n /\ DOMAIN order = 1..n
  <2>1. order \in [1..n -> 1..n]
    BY DEF Permutes
  <2> QED  BY <2>1
<1>2. response.cards = [k \in 1..n |-> judge.card[ids[order[k]]]]
  BY <1>1 DEF Answers
<1>3. response.pairs = [p \in Pairs(n) |-> {ids[order[p[1]]], ids[order[p[2]]]} \in judge.pairs]
  BY <1>1 DEF Answers
<1>4. \A i \in 1..n : Position(order, i) \in 1..n /\ order[Position(order, i)] = i
  BY <1>1 DEF Position, Permutes
<1> HIDE DEF response
<1>5. \A i \in 1..n : response.cards[Position(order, i)] = judge.card[ids[i]]
  <2> TAKE i \in 1..n
  <2> DEFINE k == Position(order, i)
  <2>1. k \in 1..n /\ order[k] = i
    BY <1>4
  <2> HIDE DEF k
  <2>2. response.cards[k] = judge.card[ids[order[k]]]
    BY <1>2, <2>1
  <2> QED  BY <2>1, <2>2 DEF k
<1>6. ASSUME NEW i \in 1..n, NEW j \in 1..n, i # j
      PROVE  response.pairs[PairKey(Position(order, i), Position(order, j))]
               = ({ids[i], ids[j]} \in judge.pairs)
  <2> DEFINE a == Position(order, i)
             b == Position(order, j)
  <2>1. a \in 1..n /\ b \in 1..n /\ order[a] = i /\ order[b] = j
    BY <1>4
  <2>2. a # b
    BY <1>6, <2>1
  <2> HIDE DEF a, b
  <2>3. CASE a < b
    <3>1. PairKey(a, b) = <<a, b>> /\ <<a, b>> \in Pairs(n)
      BY <2>1, <2>3 DEF PairKey, Pairs
    <3>2. response.pairs[<<a, b>>] = ({ids[order[a]], ids[order[b]]} \in judge.pairs)
      BY <1>3, <3>1
    <3> QED  BY <2>1, <3>1, <3>2 DEF a, b
  <2>4. CASE b < a
    <3>1. PairKey(a, b) = <<b, a>> /\ <<b, a>> \in Pairs(n)
      BY <2>1, <2>4 DEF PairKey, Pairs
    <3>2. response.pairs[<<b, a>>] = ({ids[order[b]], ids[order[a]]} \in judge.pairs)
      BY <1>3, <3>1
    <3>3. {ids[j], ids[i]} = {ids[i], ids[j]}
      OBVIOUS
    <3> QED  BY <2>1, <3>1, <3>2, <3>3 DEF a, b
  <2> QED  BY <2>1, <2>2, <2>3, <2>4
<1> QED
  BY <1>5, <1>6 DEF AnswersOwn, response

OwnCards(judge, ids) == [i \in DOMAIN ids |-> judge.card[ids[i]]]

OwnPairs(judge, ids) == {p \in Pairs(Len(ids)) : {ids[p[1]], ids[p[2]]} \in judge.pairs}

(* The candidates are ranked by what the judge thinks of each, whatever    *)
(* the order they were asked about in.                                     *)
LEMMA RankedByOwn ==
  ASSUME NEW ids \in Seq(Nat), IsInjective(ids), NEW canonicalize \in BOOLEAN, NEW judge, NEW max
  PROVE  LET order == Canonical(ids, canonicalize)
         IN  RankCandidates(ids, Answers(judge, ids, order), order, max)
               = RankedResult(ids, OwnCards(judge, ids), OwnPairs(judge, ids), max)
<1> DEFINE n        == Len(ids)
           order    == Canonical(ids, canonicalize)
           response == Answers(judge, ids, order)
<1>1. n \in Nat /\ ids \in [1..n -> Nat] /\ DOMAIN ids = 1..n
  OBVIOUS
<1>2. Permutes(order, n)
  BY <1>1, CanonicalFacts
<1>3. AnswersOwn(judge, ids, order)
  BY <1>1, <1>2, AnswersAreOwn
<1>4. Len(order) = n
  BY <1>1, <1>2 DEF Permutes
<1> HIDE DEF order, n
<1>5. [i \in DOMAIN ids |-> response.cards[Position(order, i)]] = OwnCards(judge, ids)
  BY <1>3 DEF AnswersOwn, OwnCards
<1>6. Duplicates(response, order) = OwnPairs(judge, ids)
  <2>1. \A p \in Pairs(n) : p[1] \in DOMAIN ids /\ p[2] \in DOMAIN ids /\ p[1] # p[2]
    BY <1>1 DEF Pairs
  <2>2. \A p \in Pairs(n) : SameMechanism(response, order, p[1], p[2])
                              = ({ids[p[1]], ids[p[2]]} \in judge.pairs)
    BY <1>3, <2>1 DEF AnswersOwn, SameMechanism
  <2> HIDE DEF response
  <2> QED  BY <1>4, <2>2 DEF Duplicates, OwnPairs, n
<1> HIDE DEF response
<1>7. RankCandidates(ids, response, order, max)
        = RankedResult(ids, OwnCards(judge, ids), OwnPairs(judge, ids), max)
  BY <1>5, <1>6 DEF RankCandidates
<1> QED
  BY <1>7 DEF response, order
-----------------------------------------------------------------------------
(* The sieve.                                                              *)

(* What holds of 0 and of the next number holds up to n.                   *)
LEMMA Climbing ==
  ASSUME NEW n \in Nat, NEW S, 0 \in S, \A k \in 0..(n - 1) : k \in S => k + 1 \in S
  PROVE  \A k \in 0..n : k \in S
<1> DEFINE M == {k \in 1..n : k \notin S}
           r == InOrder(M)
<1>1. M \in SUBSET (1..n)
  OBVIOUS
<1>2. RanksBy(r, M, [i \in M |-> {j \in M : j <= i}])
  BY <1>1, InOrderFacts
<1>3. IsFiniteSet(M)
  BY <1>1, IndexesFinite
<1>4. ASSUME M # {} PROVE FALSE
  <2> DEFINE c == Cardinality(M)
  <2>1. c \in Nat /\ c # 0
    BY <1>2, <1>3, <1>4, FS_EmptySet DEF RanksBy
  <2>2. 1 \in DOMAIN r /\ DOMAIN r = 1..c
    BY <1>2, <2>1 DEF RanksBy
  <2> DEFINE m == r[1]
  <2>3. r \in Seq(M) /\ m \in M
    BY <1>2, <2>2 DEF RanksBy
  <2>4. \A i \in M : m <= i
    <3> TAKE i \in M
    <3>1. PICK k \in DOMAIN r : r[k] = i
      BY <1>2 DEF RanksBy
    <3>2. 1 <= k
      BY <2>2, <3>1
    <3>3. m \in [x \in M |-> {j \in M : j <= x}][i]
      BY <1>2, <2>2, <3>1, <3>2 DEF RanksBy
    <3> QED  BY <3>3
  <2> HIDE DEF r, m
  <2>5. m \in 1..n /\ m \notin S
    BY <2>3
  <2>6. m - 1 \in 0..(n - 1) /\ m - 1 + 1 = m
    BY <2>5
  <2>7. m - 1 \notin S
    BY <2>5, <2>6
  <2>8. m - 1 # 0
    BY <2>7
  <2>9. m - 1 \in M
    BY <2>5, <2>6, <2>7, <2>8
  <2> QED  BY <2>4, <2>5, <2>9
<1> QED
  BY <1>4

(* Nothing decided but by the gates.                                       *)
Unsieved(cards) ==
  [kept |-> <<>>, cut |-> {}, status |-> [i \in DOMAIN cards |-> GateStatus(cards[i])]]

(* The loop takes its turns one after the other.                           *)
TurnByTurn(after, cards, ranked, duplicates, max) ==
  /\ after[0] = Unsieved(cards)
  /\ \A n \in 1..Len(ranked) : after[n] = Sieve(after[n - 1], ranked[n], duplicates, max)

LEMMA SiftingTurns ==
  ASSUME NEW cards, NEW ranked, NEW duplicates, NEW max, Len(ranked) \in Nat
  PROVE  TurnByTurn(Sifting(cards, ranked, duplicates, max), cards, ranked, duplicates, max)
<1> DEFINE N        == Len(ranked)
           turn(s, n) == Sieve(s, ranked[n], duplicates, max)
           start    == Unsieved(cards)
           Fits(g, m) == g = [n \in 0..m |-> IF n = 0 THEN start ELSE turn(g[n - 1], n)]
           S        == {m \in 0..N : \E g : Fits(g, m)}
           after    == Sifting(cards, ranked, duplicates, max)
<1>1. after = CHOOSE g : Fits(g, N)
  BY DEF Sifting, Unsieved
<1> HIDE DEF turn, start, after
<1>2. 0 \in S
  <2> DEFINE g == [n \in 0..0 |-> start]
             b == [n \in 0..0 |-> IF n = 0 THEN start ELSE turn(g[n - 1], n)]
  <2>1. \A n \in 0..0 : n = 0
    OBVIOUS
  <2>2. \A n \in 0..0 : b[n] = start
    BY <2>1
  <2>3. b = [n \in 0..0 |-> b[n]]
    OBVIOUS
  <2> HIDE DEF b
  <2>4. g = b
    BY <2>2, <2>3
  <2>5. Fits(g, 0)
    BY <2>4 DEF b
  <2>6. 0 \in 0..N
    OBVIOUS
  <2> HIDE DEF g, Fits
  <2> QED  BY <2>5, <2>6
<1>3. ASSUME NEW m \in 0..(N - 1), m \in S PROVE m + 1 \in S
  <2>1. PICK g : Fits(g, m)
    BY <1>3
  <2> DEFINE h == [n \in 0..(m + 1) |-> IF n = m + 1 THEN turn(g[m], m + 1) ELSE g[n]]
             b == [n \in 0..(m + 1) |-> IF n = 0 THEN start ELSE turn(h[n - 1], n)]
  <2>2. m \in Nat /\ m + 1 \in 0..N
    OBVIOUS
  <2>3. ASSUME NEW n \in 0..(m + 1) PROVE h[n] = b[n]
    <3>1. CASE n = m + 1
      <4>1. h[m] = g[m] /\ n # 0 /\ n - 1 = m
        BY <2>2, <3>1
      <4>2. h[n] = turn(g[m], n)
        BY <3>1
      <4>3. b[n] = turn(h[m], n)
        BY <4>1
      <4> QED  BY <4>1, <4>2, <4>3
    <3>2. CASE n # m + 1 /\ n # 0
      <4>1. n \in 0..m /\ n - 1 \in 0..m /\ n - 1 \in 0..(m + 1) /\ n - 1 # m + 1
        BY <2>2, <3>2
      <4>2. h[n] = g[n] /\ h[n - 1] = g[n - 1]
        BY <3>2, <4>1
      <4>3. g[n] = turn(g[n - 1], n)
        BY <2>1, <3>2, <4>1
      <4>4. b[n] = turn(h[n - 1], n)
        BY <3>2
      <4> QED  BY <4>2, <4>3, <4>4
    <3>3. CASE n # m + 1 /\ n = 0
      <4>1. h[n] = g[n] /\ n \in 0..m
        BY <2>2, <3>3
      <4>2. g[n] = start
        BY <2>1, <3>3, <4>1
      <4> QED  BY <3>3, <4>1, <4>2
    <3> QED  BY <3>1, <3>2, <3>3
  <2>4. DOMAIN h = 0..(m + 1) /\ DOMAIN b = 0..(m + 1)
    OBVIOUS
  <2>5. h = b
    <3>1. h = [n \in 0..(m + 1) |-> h[n]] /\ b = [n \in 0..(m + 1) |-> b[n]]
      OBVIOUS
    <3> HIDE DEF h, b
    <3> QED  BY <2>3, <3>1
  <2>6. Fits(h, m + 1)
    BY <2>5
  <2> HIDE DEF h, Fits
  <2> QED  BY <2>2, <2>6
<1>4. N \in S
  <2> HIDE DEF S
  <2>1. N \in Nat /\ N \in 0..N
    OBVIOUS
  <2> QED  BY <1>2, <1>3, <2>1, Climbing
<1>5. Fits(after, N)
  <2>1. \E g : Fits(g, N)
    BY <1>4
  <2> HIDE DEF Fits
  <2> QED  BY <1>1, <2>1
<1>6. after[0] = start
  <2>1. 0 \in 0..N
    OBVIOUS
  <2> QED  BY <1>5, <2>1
<1>7. \A n \in 1..N : after[n] = turn(after[n - 1], n)
  <2>1. \A n \in 1..N : n \in 0..N /\ n # 0
    OBVIOUS
  <2> QED  BY <1>5, <2>1
<1> QED
  BY <1>6, <1>7 DEF TurnByTurn, turn, start, after
(* What appending something new does to a sequence.                        *)
LEMMA AppendedOnce ==
  ASSUME NEW S, NEW s \in Seq(S), NEW e \in S
  PROVE  /\ Append(s, e) \in Seq(S) /\ Len(Append(s, e)) = Len(s) + 1
         /\ ToSet(Append(s, e)) = ToSet(s) \cup {e}
         /\ e \notin ToSet(s) /\ IsInjective(s) => IsInjective(Append(s, e))
<1>1. /\ Append(s, e) \in Seq(S) /\ Len(s) \in Nat /\ Len(Append(s, e)) = Len(s) + 1
      /\ Append(s, e)[Len(s) + 1] = e
      /\ \A k \in 1..Len(s) : Append(s, e)[k] = s[k]
      /\ DOMAIN s = 1..Len(s) /\ DOMAIN Append(s, e) = 1..(Len(s) + 1)
  OBVIOUS
<1>2. \A k \in 1..(Len(s) + 1) : k \in 1..Len(s) \/ k = Len(s) + 1
  BY <1>1
<1>3. ToSet(Append(s, e)) = ToSet(s) \cup {e}
  <2>1. Len(s) + 1 \in 1..(Len(s) + 1) /\ 1..Len(s) \subseteq 1..(Len(s) + 1)
    BY <1>1
  <2> QED  BY <1>1, <1>2, <2>1 DEF ToSet
<1>4. ASSUME e \notin ToSet(s), IsInjective(s) PROVE IsInjective(Append(s, e))
  <2>1. \A k \in 1..Len(s) : s[k] # e
    BY <1>1, <1>4 DEF ToSet
  <2> QED  BY <1>1, <1>2, <1>4, <2>1 DEF IsInjective
<1> QED
  BY <1>1, <1>3, <1>4

Turned(ranked, n) == {ranked[k] : k \in 1..n}

(* What was kept of the candidates that were ranked before the k-th.       *)
Earlier(kept, ranked, k) == {j \in kept : \E l \in 1..(k - 1) : j = ranked[l]}

(* The k-th candidate is worth to be kept beside the ones before it.       *)
Survives(kept, ranked, k, cards, duplicates, max) ==
  /\ GateStatus(cards[ranked[k]]) = "eligible"
  /\ \A j \in Earlier(kept, ranked, k) : PairKey(ranked[k], j) \notin duplicates
  /\ Cardinality(Earlier(kept, ranked, k)) < max

Verdicts == {"reject", "review", "eligible", "keep"}

Shaped(s, cards) ==
  /\ s = [kept |-> s.kept, cut |-> s.cut, status |-> s.status]
  /\ s.status \in [DOMAIN cards -> Verdicts]

(* What the sieve has decided after n turns.                               *)
KeptRight(kept, ranked, n, max) ==
  /\ kept \in Seq(Turned(ranked, n)) /\ IsInjective(kept)
  /\ IsFiniteSet(ToSet(kept)) /\ Cardinality(ToSet(kept)) = Len(kept) /\ Len(kept) <= max

StatusRight(status, ranked, n, cards) ==
  \A i \in DOMAIN cards :
    /\ i \notin Turned(ranked, n) => status[i] = GateStatus(cards[i])
    /\ status[i] # GateStatus(cards[i]) =>
         GateStatus(cards[i]) = "eligible" /\ status[i] \in {"keep", "reject"}

ChoiceRight(kept, ranked, n, cards, duplicates, max) ==
  \A k \in 1..n : ranked[k] \in kept <=> Survives(kept, ranked, k, cards, duplicates, max)

Sifted(s, ranked, n, cards, duplicates, max) ==
  /\ Shaped(s, cards)
  /\ KeptRight(s.kept, ranked, n, max)
  /\ StatusRight(s.status, ranked, n, cards)
  /\ ChoiceRight(ToSet(s.kept), ranked, n, cards, duplicates, max)

(* One turn leaves the choice among the earlier ones as it is.             *)
LEMMA TurnChooses ==
  ASSUME NEW ranked, NEW N \in Nat, NEW n \in 1..N, NEW kept, NEW kept2,
         NEW cards, NEW duplicates, NEW max,
         \A k, l \in 1..N : ranked[k] = ranked[l] => k = l,
         kept \subseteq Turned(ranked, n - 1),
         kept2 = kept \/ kept2 = kept \cup {ranked[n]},
         ChoiceRight(kept, ranked, n - 1, cards, duplicates, max),
         ranked[n] \in kept2 <=>
           /\ GateStatus(cards[ranked[n]]) = "eligible"
           /\ \A j \in kept : PairKey(ranked[n], j) \notin duplicates
           /\ Cardinality(kept) < max
  PROVE  ChoiceRight(kept2, ranked, n, cards, duplicates, max)
<1>1. n \in Nat /\ n - 1 \in Nat /\ \A k \in 1..(n - 1) : k \in 1..N /\ k # n
  OBVIOUS
<1>2. ranked[n] \notin kept
  BY <1>1 DEF Turned
<1>3. \A k \in 1..n : \A l \in 1..(k - 1) : l \in 1..N /\ l # n
  <2> TAKE k \in 1..n
  <2> TAKE l \in 1..(k - 1)
  <2> QED  BY <1>1
<1>4. \A k \in 1..n : Earlier(kept2, ranked, k) = Earlier(kept, ranked, k)
  <2> TAKE k \in 1..n
  <2>1. ~ \E l \in 1..(k - 1) : ranked[n] = ranked[l]
    BY <1>3
  <2> QED  BY <2>1 DEF Earlier
<1>5. Earlier(kept, ranked, n) = kept
  BY DEF Earlier, Turned
<1>6. ASSUME NEW k \in 1..(n - 1)
      PROVE  ranked[k] \in kept2 <=> Survives(kept2, ranked, k, cards, duplicates, max)
  <2>1. k \in 1..n /\ k \in 1..N /\ k # n
    BY <1>1
  <2>2. ranked[k] # ranked[n]
    BY <2>1
  <2>3. ranked[k] \in kept2 <=> ranked[k] \in kept
    BY <2>2
  <2>4. Survives(kept2, ranked, k, cards, duplicates, max)
          <=> Survives(kept, ranked, k, cards, duplicates, max)
    BY <1>4, <2>1 DEF Survives
  <2> QED  BY <2>3, <2>4 DEF ChoiceRight
<1>7. ranked[n] \in kept2 <=> Survives(kept2, ranked, n, cards, duplicates, max)
  <2>1. n \in 1..n
    BY <1>1
  <2>2. Earlier(kept2, ranked, n) = kept
    BY <1>4, <1>5, <2>1
  <2> QED  BY <2>2 DEF Survives
<1>8. \A k \in 1..n : k \in 1..(n - 1) \/ k = n
  BY <1>1
<1> QED
  BY <1>6, <1>7, <1>8 DEF ChoiceRight

(* One turn of the loop.                                                   *)
LEMMA SieveTurns ==
  ASSUME NEW N \in Nat, NEW cards, DOMAIN cards = 1..N,
         NEW ranked \in [1..N -> 1..N], \A k, l \in 1..N : ranked[k] = ranked[l] => k = l,
         NEW duplicates, NEW max \in Nat,
         NEW n \in 1..N, NEW s, Sifted(s, ranked, n - 1, cards, duplicates, max)
  PROVE  Sifted(Sieve(s, ranked[n], duplicates, max), ranked, n, cards, duplicates, max)
<1> DEFINE i         == ranked[n]
           K         == ToSet(s.kept)
           t         == Sieve(s, i, duplicates, max)
           duplicate == \E k \in K : PairKey(i, k) \in duplicates
           cut       == ~duplicate /\ ~HasSlot(s.kept, max)
           before    == Turned(ranked, n - 1)
           after     == Turned(ranked, n)
<1>1. /\ Shaped(s, cards) /\ KeptRight(s.kept, ranked, n - 1, max)
      /\ StatusRight(s.status, ranked, n - 1, cards)
      /\ ChoiceRight(K, ranked, n - 1, cards, duplicates, max)
  BY DEF Sifted
<1>2. n \in Nat /\ n - 1 \in Nat /\ i \in 1..N
  OBVIOUS
<1>3. i \notin before /\ after = before \cup {i}
  <2>1. \A k \in 1..(n - 1) : k \in 1..N /\ k # n
    BY <1>2
  <2>2. 1..n = 1..(n - 1) \cup {n}
    BY <1>2
  <2>3. i \notin before
    BY <2>1 DEF Turned
  <2>4. after = {ranked[k] : k \in 1..(n - 1) \cup {n}}
    BY <2>2 DEF Turned
  <2>5. after = before \cup {i}
    BY <2>4 DEF Turned
  <2> QED  BY <2>3, <2>5
<1>4. K \subseteq before /\ IsFiniteSet(K) /\ Cardinality(K) = Len(s.kept) /\ Len(s.kept) \in Nat
  BY <1>1 DEF KeptRight, ToSet
<1>5. s.status[i] = GateStatus(cards[i])
  BY <1>1, <1>2, <1>3 DEF StatusRight
<1>6. s.status \in [1..N -> Verdicts]
  BY <1>1 DEF Shaped
<1>7. HasSlot(s.kept, max) <=> Cardinality(K) < max
  BY <1>4 DEF HasSlot
<1>8. \A u \in {"keep", "reject"} :
        LET status == [s.status EXCEPT ![i] = u]
        IN  /\ status \in [1..N -> Verdicts] /\ status[i] = u
            /\ \A j \in 1..N : j # i => status[j] = s.status[j]
  BY <1>2, <1>6 DEF Verdicts
<1>9. CASE s.status[i] # "eligible"
  <2>1. t = s
    BY <1>9 DEF Sieve
  <2>2. KeptRight(s.kept, ranked, n, max)
    <3>1. s.kept \in Seq(after)
      BY <1>1, <1>3 DEF KeptRight
    <3> QED  BY <1>1, <3>1 DEF KeptRight
  <2>3. StatusRight(s.status, ranked, n, cards)
    BY <1>1, <1>3 DEF StatusRight
  <2>4. ChoiceRight(K, ranked, n, cards, duplicates, max)
    <3>1. i \notin K /\ GateStatus(cards[i]) # "eligible"
      BY <1>3, <1>4, <1>5, <1>9
    <3> HIDE DEF K
    <3> QED  BY <1>1, <1>4, <3>1, TurnChooses
  <2> QED  BY <1>1, <2>1, <2>2, <2>3, <2>4 DEF Sifted
<1>10. CASE s.status[i] = "eligible" /\ (duplicate \/ cut)
  <2> DEFINE status == [s.status EXCEPT ![i] = "reject"]
             dropped == IF cut THEN s.cut \cup {i} ELSE s.cut
  <2>1. t = [kept |-> s.kept, cut |-> dropped, status |-> status]
    <3>1. s = [kept |-> s.kept, cut |-> s.cut, status |-> s.status]
      BY <1>1 DEF Shaped
    <3>2. t = [s EXCEPT !.status[i] = "reject", !.cut = IF cut THEN @ \cup {i} ELSE @]
      BY <1>10 DEF Sieve
    <3> HIDE DEF cut
    <3> QED  BY <3>1, <3>2
  <2>2. t.kept = s.kept /\ t.status = status /\ t.cut = dropped
    BY <2>1
  <2>3. KeptRight(s.kept, ranked, n, max)
    <3>1. s.kept \in Seq(after)
      BY <1>1, <1>3 DEF KeptRight
    <3> QED  BY <1>1, <3>1 DEF KeptRight
  <2>4. /\ status \in [1..N -> Verdicts] /\ status[i] = "reject"
        /\ \A j \in 1..N : j # i => status[j] = s.status[j]
    BY <1>8
  <2> HIDE DEF status, dropped, t
  <2>5. StatusRight(status, ranked, n, cards)
    BY <1>1, <1>3, <1>5, <1>10, <2>4 DEF StatusRight
  <2>6. ChoiceRight(K, ranked, n, cards, duplicates, max)
    <3>1. i \notin K /\ ((\E j \in K : PairKey(i, j) \in duplicates) \/ ~(Cardinality(K) < max))
      BY <1>3, <1>4, <1>7, <1>10
    <3> HIDE DEF K
    <3> QED  BY <1>1, <1>4, <3>1, TurnChooses
  <2>7. Shaped(t, cards)
    BY <2>1, <2>2, <2>4 DEF Shaped
  <2> QED  BY <2>2, <2>3, <2>5, <2>6, <2>7 DEF Sifted, t
<1>11. CASE s.status[i] = "eligible" /\ ~(duplicate \/ cut)
  <2> DEFINE status == [s.status EXCEPT ![i] = "keep"]
             kept   == Append(s.kept, i)
  <2>1. t = [kept |-> kept, cut |-> s.cut, status |-> status]
    <3>1. s = [kept |-> s.kept, cut |-> s.cut, status |-> s.status]
      BY <1>1 DEF Shaped
    <3>2. t = [s EXCEPT !.status[i] = "keep", !.kept = Append(@, i)]
      BY <1>11 DEF Sieve
    <3> QED  BY <3>1, <3>2
  <2>2. t.kept = kept /\ t.status = status /\ t.cut = s.cut
    BY <2>1
  <2>3. /\ status \in [1..N -> Verdicts] /\ status[i] = "keep"
        /\ \A j \in 1..N : j # i => status[j] = s.status[j]
    BY <1>8
  <2>4. /\ kept \in Seq(after) /\ Len(kept) = Len(s.kept) + 1
        /\ ToSet(kept) = K \cup {i} /\ IsInjective(kept)
    <3>1. s.kept \in Seq(after) /\ i \in after /\ i \notin ToSet(s.kept) /\ IsInjective(s.kept)
      BY <1>1, <1>3, <1>4 DEF KeptRight
    <3> HIDE DEF after
    <3> QED  BY <3>1, AppendedOnce
  <2>5. IsFiniteSet(K \cup {i}) /\ Cardinality(K \cup {i}) = Cardinality(K) + 1
    BY <1>3, <1>4, FS_AddElement
  <2>6. Cardinality(K) < max /\ \A j \in K : PairKey(i, j) \notin duplicates
    BY <1>7, <1>11
  <2> HIDE DEF status, kept, t
  <2>7. KeptRight(kept, ranked, n, max)
    BY <1>4, <2>4, <2>5, <2>6 DEF KeptRight
  <2>8. StatusRight(status, ranked, n, cards)
    BY <1>1, <1>3, <1>5, <1>11, <2>3 DEF StatusRight
  <2>9. ChoiceRight(K \cup {i}, ranked, n, cards, duplicates, max)
    <3>1. GateStatus(cards[i]) = "eligible"
      BY <1>5, <1>11
    <3> HIDE DEF K
    <3> QED  BY <1>1, <1>4, <2>6, <3>1, TurnChooses
  <2>10. Shaped(t, cards)
    BY <2>1, <2>2, <2>3 DEF Shaped
  <2> QED  BY <2>2, <2>4, <2>7, <2>8, <2>9, <2>10 DEF Sifted, t
<1> QED
  BY <1>9, <1>10, <1>11

(* The whole loop.                                                         *)
LEMMA SiftedAtLast ==
  ASSUME NEW N \in Nat, NEW cards, DOMAIN cards = 1..N,
         NEW ranked \in [1..N -> 1..N], \A k, l \in 1..N : ranked[k] = ranked[l] => k = l,
         NEW duplicates, NEW max \in Nat
  PROVE  Sifted(Sifting(cards, ranked, duplicates, max)[N], ranked, N, cards, duplicates, max)
<1> DEFINE after  == Sifting(cards, ranked, duplicates, max)
           Good(n) == Sifted(after[n], ranked, n, cards, duplicates, max)
           S      == {n \in 0..N : Good(n)}
<1>1. Len(ranked) = N
  OBVIOUS
<1>2. /\ after[0] = Unsieved(cards)
      /\ \A n \in 1..N : after[n] = Sieve(after[n - 1], ranked[n], duplicates, max)
  <2>1. Len(ranked) \in Nat
    OBVIOUS
  <2>2. TurnByTurn(after, cards, ranked, duplicates, max)
    BY <2>1, SiftingTurns
  <2> HIDE DEF after
  <2> QED  BY <1>1, <2>2 DEF TurnByTurn
<1>3. Good(0)
  <2> DEFINE s == Unsieved(cards)
  <2>1. s.kept = <<>> /\ s.status = [i \in 1..N |-> GateStatus(cards[i])]
        /\ s = [kept |-> s.kept, cut |-> s.cut, status |-> s.status]
    BY DEF Unsieved
  <2> HIDE DEF s
  <2>2. Shaped(s, cards)
    <3>1. \A i \in 1..N : GateStatus(cards[i]) \in Verdicts
      BY DEF GateStatus, Verdicts
    <3> QED  BY <2>1, <3>1 DEF Shaped
  <2>3. KeptRight(<<>>, ranked, 0, max)
    <3>1. ToSet(<<>>) = {}
      BY DEF ToSet
    <3>2. <<>> \in Seq(Turned(ranked, 0)) /\ IsInjective(<<>>) /\ Len(<<>>) = 0
      BY DEF IsInjective
    <3> QED  BY <3>1, <3>2, FS_EmptySet DEF KeptRight
  <2>4. StatusRight(s.status, ranked, 0, cards)
    BY <2>1 DEF StatusRight
  <2>5. ChoiceRight(ToSet(s.kept), ranked, 0, cards, duplicates, max)
    BY DEF ChoiceRight
  <2> QED  BY <1>2, <2>1, <2>2, <2>3, <2>4, <2>5 DEF Sifted, s
<1> HIDE DEF after
<1>4. ASSUME NEW n \in 1..N, Good(n - 1) PROVE Good(n)
  <2> DEFINE s == after[n - 1]
  <2>1. Sifted(s, ranked, n - 1, cards, duplicates, max)
    BY <1>4
  <2>2. after[n] = Sieve(s, ranked[n], duplicates, max)
    BY <1>2
  <2> HIDE DEF s
  <2>3. Sifted(Sieve(s, ranked[n], duplicates, max), ranked, n, cards, duplicates, max)
    BY <2>1, SieveTurns
  <2> QED  BY <2>2, <2>3
<1> HIDE DEF Good
<1>5. \A k \in 0..(N - 1) : k \in S => k + 1 \in S
  <2> TAKE k \in 0..(N - 1)
  <2>1. k + 1 \in 1..N /\ k + 1 \in 0..N /\ k + 1 - 1 = k
    OBVIOUS
  <2>2. Good(k) => Good(k + 1)
    <3> DEFINE n == k + 1
    <3>1. n \in 1..N /\ n - 1 = k
      BY <2>1
    <3> HIDE DEF n
    <3>2. Good(n - 1) => Good(n)
      BY <1>4, <3>1
    <3> QED  BY <3>1, <3>2 DEF n
  <2> QED  BY <2>1, <2>2
<1>6. 0 \in S
  BY <1>3
<1> HIDE DEF S
<1>7. N \in S
  <2>1. N \in 0..N
    OBVIOUS
  <2> QED  BY <1>5, <1>6, <2>1, Climbing
<1> QED
  BY <1>7 DEF S, Good, after
-----------------------------------------------------------------------------
(* What is kept.                                                           *)

(* The kept candidates that are ranked before the i-th.                    *)
BetterIndexes(kept, cards, i) ==
  {j \in ToSet(kept) : j # i /\ j \in UptoScore([k \in DOMAIN cards |-> cards[k].score])[i]}

IndexesRight(s, cards, duplicates, max, N) ==
  /\ s.kept \in Seq(1..N) /\ IsInjective(s.kept) /\ Len(s.kept) <= max
  /\ \A i \in 1..N :
       /\ s.status[i] = "review" => GateStatus(cards[i]) = "review"
       /\ i \in ToSet(s.kept) <=>
            /\ GateStatus(cards[i]) = "eligible"
            /\ \A j \in BetterIndexes(s.kept, cards, i) : PairKey(i, j) \notin duplicates
            /\ Cardinality(BetterIndexes(s.kept, cards, i)) < max

LEMMA KeptIndexes ==
  ASSUME NEW N \in Nat, NEW cards \in [1..N -> Cards], NEW duplicates, NEW max \in Nat
  PROVE  LET ranked == BestFirst([i \in DOMAIN cards |-> cards[i].score])
         IN  IndexesRight(Sifting(cards, ranked, duplicates, max)[Len(ranked)], cards, duplicates, max, N)
<1> DEFINE P      == 1..N
           score  == [i \in DOMAIN cards |-> cards[i].score]
           ranked == BestFirst(score)
           s      == Sifting(cards, ranked, duplicates, max)[Len(ranked)]
           kept   == s.kept
           K      == ToSet(kept)
           upto   == UptoScore(score)
<1>1. P \in SUBSET (1..N) /\ score \in [P -> Int] /\ DOMAIN cards = 1..N
  <2>1. \A i \in 1..N : cards[i].score \in Int
    BY DEF Cards
  <2> QED  BY <2>1
<1>2. Cardinality(P) = N
  <2>1. N >= 1 => N - 1 + 1 = N
    OBVIOUS
  <2> QED  BY <2>1, FS_Interval
<1>3. DOMAIN upto = P
  BY <1>1 DEF UptoScore
<1> HIDE DEF score
<1>4. RanksBy(ranked, P, upto)
  BY <1>1, BestFirstFacts
<1> HIDE DEF ranked, upto
<1>5. /\ ranked \in [1..N -> 1..N] /\ Len(ranked) = N
      /\ \A k, l \in 1..N : ranked[k] = ranked[l] => k = l
      /\ \A i \in 1..N : \E k \in 1..N : ranked[k] = i
      /\ \A k, l \in 1..N : k <= l <=> ranked[k] \in upto[ranked[l]]
  <2>1. ranked \in Seq(P) /\ DOMAIN ranked = P
    BY <1>2, <1>4 DEF RanksBy
  <2>2. /\ \A k, l \in P : ranked[k] = ranked[l] => k = l
        /\ \A i \in P : \E k \in P : ranked[k] = i
        /\ \A k, l \in P : k <= l <=> ranked[k] \in upto[ranked[l]]
    BY <1>4, <2>1 DEF RanksBy
  <2>3. ranked \in [P -> P] /\ Len(ranked) = N
    BY <2>1
  <2> QED  BY <2>2, <2>3
<1>6. s = Sifting(cards, ranked, duplicates, max)[N]
  BY <1>5
<1> HIDE DEF s
<1>7. Sifted(s, ranked, N, cards, duplicates, max)
  BY <1>1, <1>5, <1>6, SiftedAtLast
<1>8. Turned(ranked, N) \subseteq 1..N
  BY <1>5 DEF Turned
<1>9. kept \in Seq(1..N) /\ IsInjective(kept) /\ Len(kept) <= max /\ K \subseteq 1..N
  <2>1. kept \in Seq(Turned(ranked, N))
    BY <1>7 DEF Sifted, KeptRight
  <2>2. kept \in Seq(1..N)
    BY <1>8, <2>1
  <2> QED  BY <1>7, <2>2 DEF Sifted, KeptRight, ToSet
<1>10. \A i \in 1..N : s.status[i] = "review" => GateStatus(cards[i]) = "review"
  BY <1>1, <1>7 DEF Sifted, StatusRight
<1> HIDE DEF kept, K
<1>11. ASSUME NEW i \in 1..N
       PROVE  i \in K <=>
                /\ GateStatus(cards[i]) = "eligible"
                /\ \A j \in BetterIndexes(kept, cards, i) : PairKey(i, j) \notin duplicates
                /\ Cardinality(BetterIndexes(kept, cards, i)) < max
  <2>1. PICK k \in 1..N : ranked[k] = i
    BY <1>5
  <2>2. i \in K <=> Survives(K, ranked, k, cards, duplicates, max)
    <3>1. ChoiceRight(K, ranked, N, cards, duplicates, max)
      BY <1>7 DEF Sifted, kept, K
    <3> QED  BY <2>1, <3>1 DEF ChoiceRight
  <2>3. BetterIndexes(kept, cards, i) = {j \in K : j # i /\ j \in upto[i]}
    BY DEF BetterIndexes, K, upto, score
  <2>4. \A j \in K : j # i /\ j \in upto[i] <=> \E l \in 1..(k - 1) : j = ranked[l]
    <3> TAKE j \in K
    <3>1. PICK l \in 1..N : ranked[l] = j
      BY <1>5, <1>9
    <3>2. j # i /\ j \in upto[i] <=> l < k
      <4>1. l <= k <=> j \in upto[i]
        BY <1>5, <2>1, <3>1
      <4>2. j # i <=> l # k
        BY <1>5, <2>1, <3>1
      <4> QED  BY <4>1, <4>2
    <3>3. \A m \in 1..(k - 1) : m \in 1..N /\ m < k
      OBVIOUS
    <3>4. (\E m \in 1..(k - 1) : j = ranked[m]) => l < k
      BY <1>5, <3>1, <3>3
    <3>5. l < k => l \in 1..(k - 1)
      OBVIOUS
    <3> QED  BY <3>1, <3>2, <3>4, <3>5
  <2>5. Earlier(K, ranked, k) = BetterIndexes(kept, cards, i)
    BY <2>3, <2>4 DEF Earlier
  <2> QED  BY <2>1, <2>2, <2>5 DEF Survives
<1>12. IndexesRight(s, cards, duplicates, max, N)
  BY <1>9, <1>10, <1>11 DEF IndexesRight, kept, K
<1> QED
  BY <1>12 DEF s, ranked, score

(* The same of the candidates themselves.                                  *)
IndexOf(request, c) == CHOOSE i \in DOMAIN request : request[i] = c

BetterNames(kept, request, card, c) ==
  {k \in kept :
     \/ card[k].score > card[c].score
     \/ card[k].score = card[c].score /\ IndexOf(request, k) < IndexOf(request, c)}

JudgedRight(result, request, judge, max, c) ==
  LET better == BetterNames(ToSet(result.selected), request, judge.card, c)
  IN  /\ result.status[c] = "review" => GateStatus(judge.card[c]) = "review"
      /\ c \in ToSet(result.selected) <=> /\ Passes(judge.card[c])
                                          /\ \A k \in better : {k, c} \notin judge.pairs
                                          /\ Cardinality(better) < max

ChosenRight(result, request, judge, max) ==
  /\ result.selected \in Seq(ToSet(request)) /\ IsInjective(result.selected)
  /\ Len(result.selected) <= max
  /\ \A c \in ToSet(request) : JudgedRight(result, request, judge, max, c)

LEMMA Renamed ==
  ASSUME NEW S, NEW T, NEW f, IsFiniteSet(S), \A x \in S : f[x] \in T,
         \A x, y \in S : f[x] = f[y] => x = y, \A t \in T : \E x \in S : f[x] = t
  PROVE  Cardinality(T) = Cardinality(S)
<1> DEFINE g == [x \in S |-> f[x]]
<1>1. g \in Bijection(S, T)
  BY DEF Bijection, Injection, Surjection, IsInjective
<1>2. ExistsBijection(S, T)
  BY <1>1 DEF ExistsBijection
<1> QED
  BY <1>2, FS_Bijection

LEMMA ChosenNames ==
  ASSUME NEW request \in Seq(Nat), IsInjective(request),
         NEW judge, judge.card \in [ToSet(request) -> Cards], NEW max \in Nat
  PROVE  ChosenRight(RankedResult(request, OwnCards(judge, request), OwnPairs(judge, request), max),
                     request, judge, max)
<1> DEFINE N          == Len(request)
           cards      == OwnCards(judge, request)
           duplicates == OwnPairs(judge, request)
           ranked     == BestFirst([i \in DOMAIN cards |-> cards[i].score])
           s          == Sifting(cards, ranked, duplicates, max)[Len(ranked)]
           result     == RankedResult(request, cards, duplicates, max)
           selected   == result.selected
           kept       == s.kept
           K          == ToSet(kept)
<1>1. N \in Nat /\ DOMAIN request = 1..N /\ \A i \in 1..N : request[i] \in Nat
  OBVIOUS
<1>2. /\ ToSet(request) = {request[i] : i \in 1..N}
      /\ \A i, j \in 1..N : request[i] = request[j] => i = j
  BY <1>1 DEF ToSet, IsInjective
<1>3. cards \in [1..N -> Cards] /\ \A i \in 1..N : cards[i] = judge.card[request[i]]
  <2>1. \A i \in 1..N : judge.card[request[i]] \in Cards
    BY <1>2
  <2> QED  BY <1>1, <2>1 DEF OwnCards
<1>4. \A i, j \in 1..N : i # j => (PairKey(i, j) \in duplicates <=> {request[i], request[j]} \in judge.pairs)
  <2> TAKE i, j \in 1..N
  <2> HAVE i # j
  <2>0. \A a, b \in 1..N : <<a, b>> \in Pairs(N) =>
          (<<a, b>> \in duplicates <=> {request[a], request[b]} \in judge.pairs)
    BY DEF OwnPairs
  <2> HIDE DEF duplicates
  <2>1. CASE i < j
    <3>1. PairKey(i, j) = <<i, j>> /\ <<i, j>> \in Pairs(N)
      BY <2>1 DEF PairKey, Pairs
    <3> QED  BY <2>0, <3>1
  <2>2. CASE j < i
    <3>1. PairKey(i, j) = <<j, i>> /\ <<j, i>> \in Pairs(N)
      BY <2>2 DEF PairKey, Pairs
    <3>2. {request[i], request[j]} = {request[j], request[i]}
      OBVIOUS
    <3> QED  BY <2>0, <3>1, <3>2
  <2> QED  BY <1>1, <2>1, <2>2
<1>5. \A c \in ToSet(request) : IndexOf(request, c) \in 1..N /\ request[IndexOf(request, c)] = c
  BY <1>1, <1>2 DEF IndexOf
<1>6. \A i \in 1..N : IndexOf(request, request[i]) = i
  BY <1>1, <1>2 DEF IndexOf
<1>7. /\ selected = [k \in DOMAIN kept |-> request[kept[k]]]
      /\ result.status = [c \in ToSet(request) |-> s.status[IndexOf(request, c)]]
  BY DEF RankedResult, Names, IndexOf
<1> HIDE DEF cards, duplicates, N
<1>8. IndexesRight(s, cards, duplicates, max, N)
  BY <1>1, <1>3, KeptIndexes
<1> HIDE DEF s, result
<1>9. kept \in Seq(1..N) /\ IsInjective(kept) /\ Len(kept) <= max /\ K \subseteq 1..N /\ K = {kept[k] : k \in DOMAIN kept}
  <2>1. kept \in Seq(1..N) /\ IsInjective(kept) /\ Len(kept) <= max
    BY <1>8 DEF IndexesRight
  <2> HIDE DEF kept
  <2>2. K = {kept[k] : k \in DOMAIN kept}
    BY DEF ToSet
  <2>3. \A k \in DOMAIN kept : kept[k] \in 1..N
    <3> DEFINE S == 1..N
    <3>1. kept \in Seq(S)
      BY <2>1
    <3> HIDE DEF S
    <3>2. \A k \in DOMAIN kept : kept[k] \in S
      BY <3>1
    <3> QED  BY <3>2 DEF S
  <2> QED  BY <2>1, <2>2, <2>3
<1>10. /\ selected \in Seq(ToSet(request)) /\ IsInjective(selected) /\ Len(selected) <= max
       /\ ToSet(selected) = {request[i] : i \in K}
  <2> DEFINE m == Len(kept)
  <2>1. DOMAIN kept = 1..m /\ m \in Nat /\ \A k \in 1..m : kept[k] \in 1..N
    BY <1>9
  <2>2. \A k, l \in 1..m : request[kept[k]] = request[kept[l]] => k = l
    BY <1>2, <1>9, <2>1 DEF IsInjective
  <2>3. selected = [k \in 1..m |-> request[kept[k]]] /\ m <= max
    BY <1>7, <1>9, <2>1
  <2> HIDE DEF m, selected
  <2>4. \A k \in 1..m : request[kept[k]] \in ToSet(request)
    BY <1>2, <2>1
  <2>5. selected \in Seq(ToSet(request)) /\ Len(selected) = m /\ DOMAIN selected = 1..m
    BY <2>1, <2>3, <2>4
  <2>6. IsInjective(selected)
    BY <2>2, <2>3, <2>5 DEF IsInjective
  <2>7. ToSet(selected) = {selected[k] : k \in 1..m}
    BY <2>5 DEF ToSet
  <2>8. ToSet(selected) = {request[i] : i \in K}
    BY <1>9, <2>1, <2>3, <2>7
  <2> QED  BY <2>3, <2>5, <2>6, <2>8
<1> HIDE DEF kept, selected
<1>11. \A i \in 1..N : i \in K <=> request[i] \in ToSet(selected)
  BY <1>2, <1>9, <1>10
<1>12. ASSUME NEW i \in 1..N
       PROVE  JudgedRight(result, request, judge, max, request[i])
  <2> DEFINE c      == request[i]
             better == BetterNames(ToSet(selected), request, judge.card, c)
             B      == BetterIndexes(kept, cards, i)
  <2>1. c \in ToSet(request) /\ IndexOf(request, c) = i /\ cards[i] = judge.card[c]
    BY <1>2, <1>3, <1>6
  <2>2. result.status[c] = "review" => GateStatus(judge.card[c]) = "review"
    <3>1. result.status[c] = s.status[i]
      BY <1>7, <2>1
    <3> QED  BY <1>8, <2>1, <3>1 DEF IndexesRight
  <2>3. Passes(judge.card[c]) <=> GateStatus(cards[i]) = "eligible"
    <3>1. cards[i] \in Cards
      BY <1>3
    <3> QED  BY <2>1, <3>1 DEF Cards, Passes, GateStatus
  <2>4. /\ B \subseteq K
        /\ \A j \in K : j \in B <=> \/ cards[j].score > cards[i].score
                                    \/ (cards[j].score = cards[i].score /\ j < i)
    <3>1. DOMAIN cards = 1..N /\ \A j \in 1..N : cards[j].score \in Int
      BY <1>3 DEF Cards
    <3>2. B = {j \in K : j # i /\ (cards[j].score > cards[i].score
                                    \/ (cards[j].score = cards[i].score /\ j <= i))}
      BY <1>9, <3>1 DEF BetterIndexes, UptoScore, K
    <3> HIDE DEF B
    <3>3. B \subseteq K
      BY <3>2
    <3>4. ASSUME NEW j \in K
          PROVE  j \in B <=> \/ cards[j].score > cards[i].score
                             \/ cards[j].score = cards[i].score /\ j < i
      <4>1. j \in 1..N /\ cards[j].score \in Int /\ cards[i].score \in Int
        BY <1>9, <3>1
      <4>2. j \in B <=> /\ j # i
                        /\ \/ cards[j].score > cards[i].score
                           \/ cards[j].score = cards[i].score /\ j <= i
        BY <3>2
      <4> QED  BY <4>1, <4>2
    <3> QED  BY <3>3, <3>4
  <2>5. \A j \in K : j \in B <=> request[j] \in better
    <3> TAKE j \in K
    <3>1. request[j] \in ToSet(selected) /\ IndexOf(request, request[j]) = j /\ cards[j] = judge.card[request[j]]
      BY <1>3, <1>6, <1>9, <1>11
    <3>2. request[j] \in better <=> \/ cards[j].score > cards[i].score
                                    \/ (cards[j].score = cards[i].score /\ j < i)
      BY <2>1, <3>1 DEF BetterNames
    <3> HIDE DEF B, better
    <3> QED  BY <2>4, <3>2
  <2>6. better \subseteq ToSet(selected)
    BY DEF BetterNames
  <2> HIDE DEF better, B
  <2>7. Cardinality(better) = Cardinality(B)
    <3>1. IsFiniteSet(B)
      <4>1. B \in SUBSET (1..N)
        BY <1>9, <2>4
      <4> QED  BY <1>1, <4>1, IndexesFinite
    <3>2. \A j \in B : request[j] \in better
      BY <2>4, <2>5
    <3>3. \A j, k \in B : request[j] = request[k] => j = k
      BY <1>2, <1>9, <2>4
    <3>4. \A t \in better : \E j \in B : request[j] = t
      BY <1>10, <2>4, <2>5, <2>6
    <3> QED  BY <3>1, <3>2, <3>3, <3>4, Renamed
  <2>8. (\A j \in B : PairKey(i, j) \notin duplicates) <=> (\A k \in better : {k, c} \notin judge.pairs)
    <3>1. \A j \in B : j \in 1..N /\ j # i
      <4>1. i \notin B
        BY <1>3, <1>9, <2>4 DEF BetterIndexes, B
      <4> QED  BY <1>9, <2>4, <4>1
    <3>2. \A j \in B : PairKey(i, j) \in duplicates <=> {request[j], c} \in judge.pairs
      <4>1. \A j \in 1..N : {request[j], c} = {c, request[j]}
        OBVIOUS
      <4> QED  BY <1>4, <3>1, <4>1
    <3>3. \A j \in B : request[j] \in better
      BY <2>4, <2>5
    <3>4. \A t \in better : \E j \in B : request[j] = t
      BY <1>10, <2>4, <2>5, <2>6
    <3> HIDE DEF c
    <3> QED  BY <3>2, <3>3, <3>4
  <2>9. i \in K <=> /\ GateStatus(cards[i]) = "eligible"
                    /\ \A j \in B : PairKey(i, j) \notin duplicates
                    /\ Cardinality(B) < max
    BY <1>8 DEF IndexesRight, B, K, kept
  <2>10. c \in ToSet(selected) <=> i \in K
    BY <1>11
  <2>11. c \in ToSet(selected) <=> /\ Passes(judge.card[c])
                                   /\ \A k \in better : {k, c} \notin judge.pairs
                                   /\ Cardinality(better) < max
    <3> HIDE DEF c
    <3> QED  BY <2>3, <2>7, <2>8, <2>9, <2>10
  <2> QED  BY <2>2, <2>11 DEF JudgedRight, better, selected
<1>13. \A c \in ToSet(request) : \E i \in 1..N : c = request[i]
  BY <1>2
<1>14. ChosenRight(result, request, judge, max)
  BY <1>10, <1>12, <1>13 DEF ChosenRight, selected
<1> QED
  BY <1>14 DEF result, cards, duplicates
-----------------------------------------------------------------------------
(* Campaign files.                                                         *)

(* The result of Sift for this session.                                    *)
OwnSift ==
  RankedResult(session.request, OwnCards(session.judge, session.request),
               OwnPairs(session.judge, session.request), session.max)

LEMMA SiftIsOwn ==
  ASSUME session \in Sessions
  PROVE  /\ \A canonicalize \in BOOLEAN : SiftResult(canonicalize) = OwnSift
         /\ ChosenRight(OwnSift, session.request, session.judge, session.max)
<1>1. /\ session.request \in Seq(Nat) /\ IsInjective(session.request)
      /\ session.judge.card \in [ToSet(session.request) -> Cards] /\ session.max \in Nat
  BY CampaignAssumption, SessionAssumption
<1>2. ASSUME NEW canonicalize \in BOOLEAN PROVE SiftResult(canonicalize) = OwnSift
  BY <1>1, RankedByOwn DEF SiftResult, OwnSift
<1> QED
  BY <1>1, <1>2, ChosenNames DEF OwnSift

(* Every campaign file has the result of Sift and its work orders, and     *)
(* differs from the others in what was promoted.                           *)
CampaignRight(campaign) ==
  LET promoted == campaign.review_work_orders
  IN  /\ campaign = [sift |-> OwnSift, work_orders |-> OwnSift.selected, review_work_orders |-> promoted]
      /\ promoted \in Seq(ToSet(session.request))
      /\ \A c \in ToSet(promoted) : OwnSift.status[c] = "review"
      /\ IsInjective(OwnSift.selected \o promoted) /\ Len(OwnSift.selected \o promoted) <= MaxOrders

CampaignsRight ==
  /\ session \in Sessions
  /\ \A campaign \in campaigns : CampaignRight(campaign)

LEMMA SiftWritesRight ==
  ASSUME CampaignsRight, Sift
  PROVE  CampaignsRight'
<1> PICK canonicalize \in BOOLEAN : campaigns' = {BuildCampaign(SiftResult(canonicalize))}
  BY DEF Sift
<1> DEFINE selected == OwnSift.selected
<1>1. session' = session /\ session \in Sessions
  BY DEF CampaignsRight, Sift
<1>2. campaigns' = {[sift |-> OwnSift, work_orders |-> selected, review_work_orders |-> <<>>]}
  BY <1>1, SiftIsOwn DEF BuildCampaign
<1>3. selected \in Seq(ToSet(session.request)) /\ IsInjective(selected) /\ Len(selected) <= MaxOrders
  <2>1. ChosenRight(OwnSift, session.request, session.judge, session.max)
    BY <1>1, SiftIsOwn
  <2>2. session.max \in 0..MaxOrders /\ MaxOrders \in Nat
    BY <1>1, CampaignAssumption
  <2>3. selected \in Seq(ToSet(session.request)) /\ IsInjective(selected) /\ Len(selected) <= session.max
    BY <2>1 DEF ChosenRight
  <2>4. Len(selected) \in Nat
    BY <2>3
  <2> QED  BY <2>2, <2>3, <2>4
<1> HIDE DEF selected
<1>4. selected \o <<>> = selected
  BY <1>3, ConcatEmptySeq
<1>5. ASSUME NEW campaign \in campaigns' PROVE CampaignRight(campaign)
  <2>1. campaign.review_work_orders = <<>>
    BY <1>2
  <2>2. ToSet(<<>>) = {} /\ <<>> \in Seq(ToSet(session.request))
    BY DEF ToSet
  <2> QED  BY <1>2, <1>3, <1>4, <2>1, <2>2 DEF CampaignRight, selected
<1> QED
  BY <1>1, <1>5 DEF CampaignsRight, CampaignRight, OwnSift

LEMMA ReconsiderWritesRight ==
  ASSUME CampaignsRight, Reconsider
  PROVE  CampaignsRight'
<1> PICK base \in campaigns, c \in DOMAIN session.judge.card, card \in SecondCards :
      LET verdict == ReconsiderVerdict(base, card)
          promote == verdict = "promote_to_probe"
      IN  /\ base.sift.status[c] = "review"
          /\ promote => ValidCampaign(Promoted(base, c))
          /\ reports' = reports \cup {[campaign |-> base, candidate |-> c, card |-> card,
                                       decision |-> verdict]}
          /\ campaigns' = IF promote THEN campaigns \cup {Promoted(base, c)} ELSE campaigns
  BY DEF Reconsider
<1> DEFINE next == Promoted(base, c)
           orders == base.review_work_orders
           more == Append(orders, c)
<1>1. session' = session /\ session \in Sessions /\ CampaignRight(base)
  BY DEF CampaignsRight, Reconsider
<1>2. campaigns' = campaigns \/ (campaigns' = campaigns \cup {next} /\ ValidCampaign(next))
  OBVIOUS
<1>3. DOMAIN session.judge.card = ToSet(session.request)
  BY <1>1, SessionAssumption
<1>4. /\ base = [sift |-> OwnSift, work_orders |-> OwnSift.selected, review_work_orders |-> orders]
      /\ orders \in Seq(ToSet(session.request))
  BY <1>1 DEF CampaignRight
<1>5. more \in Seq(ToSet(session.request))
  BY <1>3, <1>4, AppendedOnce
<1>6. next = [base EXCEPT !.review_work_orders = more]
  BY DEF Promoted
<1> HIDE DEF next, orders, more
<1>7. next = [sift |-> OwnSift, work_orders |-> OwnSift.selected, review_work_orders |-> more]
  BY <1>4, <1>6
<1>8. next.review_work_orders = more /\ next.sift = OwnSift /\ Finalists(next) = OwnSift.selected \o more
  BY <1>7 DEF Finalists
<1>9. ValidCampaign(next) => CampaignRight(next)
  <2> SUFFICES ASSUME ValidCampaign(next) PROVE CampaignRight(next)
    OBVIOUS
  <2>1. /\ IsInjective(OwnSift.selected \o more) /\ Len(OwnSift.selected \o more) <= MaxOrders
        /\ \A d \in ToSet(more) : OwnSift.status[d] = "review"
    BY <1>8 DEF ValidCampaign
  <2> QED  BY <1>5, <1>7, <1>8, <2>1 DEF CampaignRight
<1> QED
  BY <1>1, <1>2, <1>9 DEF CampaignsRight, CampaignRight, OwnSift

LEMMA CampaignsStayRight ==
  ASSUME CampaignsRight, [Next]_vars
  PROVE  CampaignsRight'
<1>1. CASE Sift
  BY <1>1, SiftWritesRight
<1>2. CASE Reconsider
  BY <1>2, ReconsiderWritesRight
<1>3. CASE UNCHANGED <<session, campaigns>>
  BY <1>3 DEF CampaignsRight, CampaignRight, OwnSift
<1>4. CreateTemplate \/ CollectEvidence \/ Decide => UNCHANGED <<session, campaigns>>
  BY DEF CreateTemplate, CollectEvidence, Decide
<1> QED
  BY <1>1, <1>2, <1>3, <1>4 DEF Next, vars

LEMMA InitRight ==
  ASSUME Init
  PROVE  CampaignsRight
BY DEF Init, CampaignsRight

LEMMA CampaignsAreRight == Spec => []CampaignsRight
BY InitRight, CampaignsStayRight, PTL DEF Spec

(* Sift keeps the candidates that pass every gate, repeat no better one    *)
(* that is kept and find a slot, for any number of candidates, any judge   *)
(* and any quota.                                                          *)
THEOREM SiftKeepsBest == Spec => []SiftKeepsTheBest
<1>1. CampaignsRight => SiftKeepsTheBest
  <2> SUFFICES ASSUME CampaignsRight, NEW campaign \in campaigns, NEW c \in ToSet(session.request)
               PROVE  LET kept      == ToSet(campaign.sift.selected)
                          better(d) == {k \in kept : RankedBefore(k, d)}
                      IN  c \in kept <=> /\ Passes(session.judge.card[c])
                                         /\ \A k \in better(c) : {k, c} \notin session.judge.pairs
                                         /\ Cardinality(better(c)) < session.max
    BY DEF SiftKeepsTheBest
  <2> DEFINE kept   == ToSet(OwnSift.selected)
             better == {k \in kept : RankedBefore(k, c)}
  <2>1. campaign.sift = OwnSift
    <3> DEFINE promoted == campaign.review_work_orders
    <3>1. campaign = [sift |-> OwnSift, work_orders |-> OwnSift.selected, review_work_orders |-> promoted]
      BY DEF CampaignsRight, CampaignRight
    <3> HIDE DEF promoted
    <3> QED  BY <3>1
  <2>2. JudgedRight(OwnSift, session.request, session.judge, session.max, c)
    BY SiftIsOwn DEF CampaignsRight, ChosenRight
  <2>3. better = BetterNames(kept, session.request, session.judge.card, c)
    BY DEF RankedBefore, BetterNames, IndexOf
  <2> HIDE DEF better
  <2>4. c \in kept <=> /\ Passes(session.judge.card[c])
                       /\ \A k \in better : {k, c} \notin session.judge.pairs
                       /\ Cardinality(better) < session.max
    BY <2>2, <2>3 DEF JudgedRight
  <2> QED  BY <2>1, <2>4 DEF better
<1> QED
  BY <1>1, CampaignsAreRight, PTL

LEMMA JoinedSet ==
  ASSUME NEW S, NEW s \in Seq(S), NEW t \in Seq(S)
  PROVE  ToSet(s \o t) \subseteq ToSet(s) \cup ToSet(t)
<1> DEFINE m == Len(s)
           n == Len(t)
           j == s \o t
<1>1. /\ m \in Nat /\ n \in Nat /\ DOMAIN s = 1..m /\ DOMAIN t = 1..n /\ DOMAIN j = 1..(m + n)
      /\ \A k \in 1..(m + n) : j[k] = IF k <= m THEN s[k] ELSE t[k - m]
  OBVIOUS
<1> HIDE DEF m, n, j
<1>2. ASSUME NEW k \in 1..(m + n) PROVE j[k] \in ToSet(s) \cup ToSet(t)
  <2>1. CASE k <= m
    <3>1. k \in DOMAIN s /\ j[k] = s[k]
      BY <1>1, <2>1
    <3> QED  BY <3>1 DEF ToSet
  <2>2. CASE ~(k <= m)
    <3>1. k - m \in DOMAIN t /\ j[k] = t[k - m]
      BY <1>1, <2>2
    <3> QED  BY <3>1 DEF ToSet
  <2> QED  BY <2>1, <2>2
<1>3. ToSet(j) = {j[k] : k \in DOMAIN j}
  BY DEF ToSet
<1> QED
  BY <1>1, <1>2, <1>3 DEF j

(* No campaign file probes a candidate whose proposal violated a hard      *)
(* constraint, none twice, and none more than there are work orders.       *)
THEOREM ProbesFit == Spec => []ProbesAreFit
<1>1. CampaignsRight => ProbesAreFit
  <2> SUFFICES ASSUME CampaignsRight, NEW campaign \in campaigns
               PROVE  /\ \A c \in ToSet(Finalists(campaign)) : ~session.judge.card[c].risk
                      /\ IsInjective(Finalists(campaign)) /\ Len(Finalists(campaign)) <= MaxOrders
    BY DEF ProbesAreFit
  <2> DEFINE promoted == campaign.review_work_orders
             selected == OwnSift.selected
  <2>1. /\ campaign = [sift |-> OwnSift, work_orders |-> selected, review_work_orders |-> promoted]
        /\ promoted \in Seq(ToSet(session.request))
        /\ \A c \in ToSet(promoted) : OwnSift.status[c] = "review"
        /\ IsInjective(selected \o promoted) /\ Len(selected \o promoted) <= MaxOrders
    BY DEF CampaignsRight, CampaignRight
  <2>2. /\ selected \in Seq(ToSet(session.request))
        /\ \A c \in ToSet(session.request) :
             JudgedRight(OwnSift, session.request, session.judge, session.max, c)
    BY SiftIsOwn DEF CampaignsRight, ChosenRight
  <2> HIDE DEF promoted, selected
  <2>3. Finalists(campaign) = selected \o promoted
    <3>1. campaign.work_orders = selected /\ campaign.review_work_orders = promoted
      BY <2>1
    <3> QED  BY <3>1 DEF Finalists
  <2>4. \A c \in ToSet(selected) \cup ToSet(promoted) : c \in ToSet(session.request)
    BY <2>1, <2>2 DEF ToSet
  <2>5. ASSUME NEW c \in ToSet(selected) PROVE ~session.judge.card[c].risk
    <3>1. Passes(session.judge.card[c])
      BY <2>2, <2>4 DEF JudgedRight, selected
    <3> QED  BY <3>1 DEF Passes
  <2>6. ASSUME NEW c \in ToSet(promoted) PROVE ~session.judge.card[c].risk
    <3>1. GateStatus(session.judge.card[c]) = "review"
      BY <2>1, <2>2, <2>4 DEF JudgedRight
    <3> QED  BY <3>1 DEF GateStatus
  <2>7. \A c \in ToSet(selected \o promoted) : c \in ToSet(selected) \cup ToSet(promoted)
    BY <2>1, <2>2, JoinedSet
  <2> QED  BY <2>1, <2>3, <2>5, <2>6, <2>7
<1> QED
  BY <1>1, CampaignsAreRight, PTL
-----------------------------------------------------------------------------
(* Decisions.                                                              *)

(* Finalists as prepareDecision leaves them, and a judge of them.          *)
FinalistsOf(ids) ==
  [id : ids, status : {"viable", "rejected", "incomplete"}, gain : Seq(Amounts),
   spent : [Resources -> Amounts]]

Decidable(prepared, opinion, n) ==
  /\ n \in Nat
  /\ \E ids \in SUBSET Nat : prepared \in [1..n -> FinalistsOf(ids)] /\ opinion.card \in [ids -> Cards]
  /\ \A k, l \in 1..n : prepared[k].id = prepared[l].id => k = l

LEMMA DecidableFacts ==
  ASSUME NEW prepared, NEW opinion, NEW n, Decidable(prepared, opinion, n)
  PROVE  /\ n \in Nat /\ prepared \in Seq(FinalistsOf(Nat)) /\ DOMAIN prepared = 1..n /\ Len(prepared) = n
         /\ \A k \in 1..n : /\ prepared[k].id \in Nat
                            /\ prepared[k].status \in {"viable", "rejected", "incomplete"}
                            /\ prepared[k].gain \in Seq(Amounts)
                            /\ prepared[k].spent \in [Resources -> Amounts]
                            /\ opinion.card[prepared[k].id] \in Cards
<1>1. PICK ids \in SUBSET Nat :
        prepared \in [1..n -> FinalistsOf(ids)] /\ opinion.card \in [ids -> Cards]
  BY DEF Decidable
<1>2. n \in Nat
  BY DEF Decidable
<1>3. \A k \in 1..n : prepared[k] \in FinalistsOf(ids)
  BY <1>1
<1>4. FinalistsOf(ids) \subseteq FinalistsOf(Nat)
  BY DEF FinalistsOf
<1>5. \A k \in 1..n : /\ prepared[k].id \in ids
                      /\ prepared[k].status \in {"viable", "rejected", "incomplete"}
                      /\ prepared[k].gain \in Seq(Amounts)
                      /\ prepared[k].spent \in [Resources -> Amounts]
  BY <1>3 DEF FinalistsOf
<1> HIDE DEF FinalistsOf
<1>6. prepared \in [1..n -> FinalistsOf(Nat)]
  BY <1>1, <1>4
<1>7. prepared \in Seq(FinalistsOf(Nat)) /\ DOMAIN prepared = 1..n /\ Len(prepared) = n
  BY <1>2, <1>6
<1> QED
  BY <1>1, <1>2, <1>5, <1>7

(* The viable finalists, and where each of them is among them.             *)
ViableRight(prepared, n, viable) ==
  /\ viable \in Seq(Nat) /\ IsInjective(viable)
  /\ \A k \in 1..n : prepared[k].status = "viable" =>
       \E v \in DOMAIN viable : viable[v] = prepared[k].id

LEMMA ViableFinalists ==
  ASSUME NEW prepared, NEW opinion, NEW n, Decidable(prepared, opinion, n)
  PROVE  ViableRight(prepared, n, Viable(prepared))
<1> DEFINE P    == {k \in DOMAIN prepared : prepared[k].status = "viable"}
           r    == InOrder(P)
           upto == [i \in P |-> {j \in P : j <= i}]
           m    == Cardinality(P)
           v    == Viable(prepared)
<1>1. /\ n \in Nat /\ DOMAIN prepared = 1..n
      /\ \A k \in 1..n : prepared[k].id \in Nat
      /\ \A k, l \in 1..n : prepared[k].id = prepared[l].id => k = l
  BY DecidableFacts DEF Decidable
<1>2. P \in SUBSET (1..n) /\ \A k \in 1..n : k \in P <=> prepared[k].status = "viable"
  BY <1>1
<1>3. v = [k \in DOMAIN r |-> prepared[r[k]].id]
  BY DEF Viable
<1> HIDE DEF P, r, v
<1>4. RanksBy(r, P, upto)
  BY <1>1, <1>2, InOrderFacts DEF r
<1> HIDE DEF upto, m
<1>5. /\ m \in Nat /\ r \in Seq(P) /\ DOMAIN r = 1..m
      /\ \A i \in P : \E k \in 1..m : r[k] = i
      /\ \A k, l \in 1..m : r[k] = r[l] => k = l
  BY <1>4 DEF RanksBy, m
<1>6. \A k \in 1..m : r[k] \in P /\ r[k] \in 1..n
  <2>1. \A k \in DOMAIN r : r[k] \in P
    BY <1>5
  <2> QED  BY <1>2, <1>5, <2>1
<1>7. v = [k \in 1..m |-> prepared[r[k]].id]
  BY <1>3, <1>5
<1>8. \A k \in 1..m : prepared[r[k]].id \in Nat
  BY <1>1, <1>6
<1>9. v \in Seq(Nat) /\ DOMAIN v = 1..m
  BY <1>5, <1>7, <1>8
<1>10. IsInjective(v)
  BY <1>1, <1>5, <1>6, <1>7, <1>9 DEF IsInjective
<1>11. ASSUME NEW k \in 1..n, prepared[k].status = "viable"
       PROVE  \E x \in DOMAIN v : v[x] = prepared[k].id
  BY <1>2, <1>5, <1>7, <1>9, <1>11
<1> QED
  BY <1>9, <1>10, <1>11 DEF ViableRight, v

(* What the judge thinks of each finalist.                                 *)
OwnEvaluations(prepared, opinion) ==
  [k \in DOMAIN prepared |->
     IF prepared[k].status = "viable"
       THEN [status |-> SemanticStatus(opinion.card[prepared[k].id]),
             score  |-> opinion.card[prepared[k].id].score]
       ELSE [status |-> prepared[k].status, score |-> 0]]

OwnComplements(prepared, opinion) ==
  {p \in Pairs(Len(prepared)) :
     /\ prepared[p[1]].status = "viable" /\ prepared[p[2]].status = "viable"
     /\ {prepared[p[1]].id, prepared[p[2]].id} \in opinion.pairs}

OwnDecision(prepared, opinion) ==
  DecidedResult(prepared, OwnEvaluations(prepared, opinion), OwnComplements(prepared, opinion))

LEMMA DecisionIsOwn ==
  ASSUME NEW prepared, NEW opinion, NEW n, Decidable(prepared, opinion, n), NEW canonicalize \in BOOLEAN
  PROVE  Decision(prepared, opinion, canonicalize) = OwnDecision(prepared, opinion)
<1> DEFINE viable   == Viable(prepared)
           order    == Canonical(viable, canonicalize)
           response == Answers(opinion, viable, order)
           At(k)    == CHOOSE v \in DOMAIN viable : viable[v] = prepared[k].id
<1>1. ViableRight(prepared, n, viable)
  BY ViableFinalists
<1>2. /\ n \in Nat /\ DOMAIN prepared = 1..n /\ Len(prepared) = n
      /\ \A k, l \in 1..n : prepared[k].id = prepared[l].id => k = l
  BY DecidableFacts DEF Decidable
<1> HIDE DEF viable
<1>3. viable \in Seq(Nat) /\ IsInjective(viable)
  BY <1>1 DEF ViableRight
<1>4. AnswersOwn(opinion, viable, order)
  <2> DEFINE m == Len(viable)
  <2>1. m \in Nat /\ viable \in [1..m -> Nat]
    BY <1>3
  <2> HIDE DEF m, order
  <2>2. Permutes(order, m)
    BY <1>3, <2>1, CanonicalFacts DEF order
  <2> QED  BY <2>1, <2>2, AnswersAreOwn
<1> HIDE DEF order, response
<1>5. \A k \in 1..n : prepared[k].status = "viable" => At(k) \in DOMAIN viable /\ viable[At(k)] = prepared[k].id
  BY <1>1 DEF ViableRight
<1> HIDE DEF At
<1>6. ASSUME NEW k \in 1..n, prepared[k].status = "viable"
      PROVE  response.cards[Asked(viable, order, prepared[k])] = opinion.card[prepared[k].id]
  <2>1. Asked(viable, order, prepared[k]) = Position(order, At(k))
    BY DEF Asked, At
  <2> QED  BY <1>4, <1>5, <1>6, <2>1 DEF AnswersOwn, response
<1>7. Evaluations(prepared, response, order) = OwnEvaluations(prepared, opinion)
  BY <1>2, <1>6 DEF Evaluations, OwnEvaluations, viable
<1>8. ASSUME NEW k \in 1..n, NEW l \in 1..n, k # l,
             prepared[k].status = "viable", prepared[l].status = "viable"
      PROVE  response.pairs[PairKey(Asked(viable, order, prepared[k]), Asked(viable, order, prepared[l]))]
               = ({prepared[k].id, prepared[l].id} \in opinion.pairs)
  <2>1. /\ Asked(viable, order, prepared[k]) = Position(order, At(k))
        /\ Asked(viable, order, prepared[l]) = Position(order, At(l))
    BY DEF Asked, At
  <2>2. At(k) # At(l)
    BY <1>2, <1>5, <1>8
  <2> QED  BY <1>4, <1>5, <1>8, <2>1, <2>2 DEF AnswersOwn, response
<1>9. Complements(prepared, response, order) = OwnComplements(prepared, opinion)
  <2>1. \A p \in Pairs(n) : p[1] \in 1..n /\ p[2] \in 1..n /\ p[1] # p[2]
    BY DEF Pairs
  <2>2. Complements(prepared, response, order)
          = {p \in Pairs(n) :
               /\ prepared[p[1]].status = "viable" /\ prepared[p[2]].status = "viable"
               /\ response.pairs[PairKey(Asked(viable, order, prepared[p[1]]),
                                         Asked(viable, order, prepared[p[2]]))]}
    BY <1>2 DEF Complements, viable
  <2>3. OwnComplements(prepared, opinion)
          = {p \in Pairs(n) :
               /\ prepared[p[1]].status = "viable" /\ prepared[p[2]].status = "viable"
               /\ {prepared[p[1]].id, prepared[p[2]].id} \in opinion.pairs}
    BY <1>2 DEF OwnComplements
  <2>4. \A p \in Pairs(n) : prepared[p[1]].status = "viable" /\ prepared[p[2]].status = "viable" =>
          response.pairs[PairKey(Asked(viable, order, prepared[p[1]]),
                                 Asked(viable, order, prepared[p[2]]))]
            = ({prepared[p[1]].id, prepared[p[2]].id} \in opinion.pairs)
    BY <1>8, <2>1
  <2> QED  BY <2>2, <2>3, <2>4
<1>10. Decision(prepared, opinion, canonicalize)
         = DecidedResult(prepared, Evaluations(prepared, response, order),
                         Complements(prepared, response, order))
  BY DEF Decision, DecideCampaign, response, order, viable
<1> QED
  BY <1>7, <1>9, <1>10 DEF OwnDecision

(* The properties of an outcome, of any decision.                          *)
ClearedOf(prepared, opinion) ==
  {n \in DOMAIN prepared :
     /\ prepared[n].status = "viable"
     /\ opinion.card[prepared[n].id].confident
     /\ ~opinion.card[prepared[n].id].weak}

RivalsOf(prepared, opinion) ==
  {n \in ClearedOf(prepared, opinion) :
     \A m \in ClearedOf(prepared, opinion) : ~ObjectivelyDominates(prepared[m], prepared[n])}

SettledFor(prepared, opinion) ==
  \A n \in DOMAIN prepared :
    \/ prepared[n].status = "rejected"
    \/ /\ prepared[n].status = "viable"
       /\ opinion.card[prepared[n].id].confident

PointsOf(prepared, opinion, n) == opinion.card[prepared[n].id].score

WinnerEarned(prepared, opinion, result) ==
  /\ SettledFor(prepared, opinion)
  /\ \E w \in RivalsOf(prepared, opinion) :
       /\ result.winner = {prepared[w].id}
       /\ \A n \in RivalsOf(prepared, opinion) \ {w} :
            PointsOf(prepared, opinion, n) + WinnerMargin <= PointsOf(prepared, opinion, w)

MergeEarned(prepared, opinion, result) ==
  /\ SettledFor(prepared, opinion)
  /\ \E v, w \in RivalsOf(prepared, opinion) :
       /\ v # w /\ result.merge = <<prepared[v].id, prepared[w].id>>
       /\ {prepared[v].id, prepared[w].id} \in opinion.pairs
       /\ PointsOf(prepared, opinion, v) <= PointsOf(prepared, opinion, w) + MergeMargin
       /\ \A n \in RivalsOf(prepared, opinion) \ {v} :
            PointsOf(prepared, opinion, n) <= PointsOf(prepared, opinion, w) \/ n = w

Earned(prepared, opinion, result) ==
  /\ result.winner # {} => WinnerEarned(prepared, opinion, result)
  /\ result.merge # <<>> => MergeEarned(prepared, opinion, result)

(* What the status of a judged finalist says.                              *)
StatusSays(prepared, opinion, judged, n) ==
  /\ judged[n].status = "eligible" <=> n \in ClearedOf(prepared, opinion)
  /\ judged[n].status = "eligible" => judged[n].score = PointsOf(prepared, opinion, n)
  /\ judged[n].status \notin {"incomplete", "review"} =>
       \/ prepared[n].status = "rejected"
       \/ prepared[n].status = "viable" /\ opinion.card[prepared[n].id].confident

LEMMA StatusesSay ==
  ASSUME NEW prepared, NEW opinion, NEW n, Decidable(prepared, opinion, n), NEW k \in 1..n
  PROVE  StatusSays(prepared, opinion, OwnEvaluations(prepared, opinion), k)
<1> DEFINE card == opinion.card[prepared[k].id]
           judged == OwnEvaluations(prepared, opinion)
<1>1. /\ k \in DOMAIN prepared /\ card \in Cards
      /\ prepared[k].status \in {"viable", "rejected", "incomplete"}
  BY DecidableFacts
<1>2. k \in ClearedOf(prepared, opinion) <=> prepared[k].status = "viable" /\ card.confident /\ ~card.weak
  BY <1>1 DEF ClearedOf
<1>3. card.confident \in BOOLEAN /\ card.weak \in BOOLEAN
  BY <1>1 DEF Cards
<1>4. CASE prepared[k].status = "viable"
  <2>1. judged[k] = [status |-> SemanticStatus(card), score |-> card.score]
    BY <1>1, <1>4 DEF OwnEvaluations
  <2>2. judged[k].status = SemanticStatus(card) /\ judged[k].score = card.score
    BY <2>1
  <2> HIDE DEF judged, card
  <2> QED  BY <1>2, <1>3, <1>4, <2>2 DEF StatusSays, SemanticStatus, PointsOf, judged, card
<1>5. CASE prepared[k].status # "viable"
  <2>1. judged[k] = [status |-> prepared[k].status, score |-> 0]
    BY <1>1, <1>5 DEF OwnEvaluations
  <2>2. judged[k].status = prepared[k].status
    BY <2>1
  <2> HIDE DEF judged
  <2> QED  BY <1>1, <1>2, <1>5, <2>2 DEF StatusSays, judged
<1> QED
  BY <1>4, <1>5

(* The rivals in their order.                                              *)
AcceptedRight(accepted, rivals, judged) ==
  LET c == Cardinality(rivals)
  IN  /\ c \in Nat
      /\ \A k \in 1..c : accepted[k] \in rivals
      /\ \A i \in rivals : \E k \in 1..c : accepted[k] = i
      /\ \A k, l \in 1..c : accepted[k] = accepted[l] => k = l
      /\ \A k, l \in 1..c : k <= l => judged[accepted[k]].score >= judged[accepted[l]].score

LEMMA AcceptedFacts ==
  ASSUME NEW n \in Nat, NEW rivals \in SUBSET (1..n), NEW judged, \A i \in rivals : judged[i].score \in Int
  PROVE  AcceptedRight(BestFirst([i \in rivals |-> judged[i].score]), rivals, judged)
<1> DEFINE score == [i \in rivals |-> judged[i].score]
           r     == BestFirst(score)
           c     == Cardinality(rivals)
<1>1. score \in [rivals -> Int] /\ \A i \in rivals : score[i] = judged[i].score
  OBVIOUS
<1> HIDE DEF score
<1>2. RanksBy(r, rivals, UptoScore(score))
  BY <1>1, BestFirstFacts
<1> HIDE DEF r
<1>3. /\ c \in Nat /\ r \in Seq(rivals) /\ DOMAIN r = 1..c
      /\ \A i \in rivals : \E k \in 1..c : r[k] = i
      /\ \A k, l \in 1..c : r[k] = r[l] => k = l
      /\ \A k, l \in 1..c : k <= l <=> r[k] \in UptoScore(score)[r[l]]
  BY <1>2 DEF RanksBy
<1>4. \A k \in 1..c : r[k] \in rivals
  <2>1. \A k \in DOMAIN r : r[k] \in rivals
    BY <1>3
  <2> QED  BY <1>3, <2>1
<1>5. ASSUME NEW k \in 1..c, NEW l \in 1..c, k <= l
      PROVE  judged[r[k]].score >= judged[r[l]].score
  <2>1. r[k] \in UptoScore(score)[r[l]]
    BY <1>3, <1>5
  <2>2. score[r[k]] > score[r[l]] \/ score[r[k]] = score[r[l]]
    BY <1>1, <1>4, <2>1 DEF UptoScore
  <2>3. score[r[k]] \in Int /\ score[r[l]] \in Int
    BY <1>1, <1>4
  <2>4. score[r[k]] >= score[r[l]]
    BY <2>2, <2>3
  <2> QED  BY <1>1, <1>4, <2>4
<1> HIDE DEF c
<1> QED
  BY <1>3, <1>4, <1>5 DEF AcceptedRight, r, score, c

LEMMA OutcomeFields ==
  ASSUME NEW decision, NEW winner, NEW merge, NEW type, NEW ids
  PROVE  /\ Outcome(decision, winner, merge, type, ids).winner = winner
         /\ Outcome(decision, winner, merge, type, ids).merge = merge
BY DEF Outcome

(* Those that the judge's answers leave eligible, and not dominated.       *)
Eligible(prepared, opinion) ==
  {k \in DOMAIN prepared : OwnEvaluations(prepared, opinion)[k].status = "eligible"}

LEMMA RivalsAreRight ==
  ASSUME NEW prepared, NEW opinion, NEW n, Decidable(prepared, opinion, n)
  PROVE  /\ Eligible(prepared, opinion) = ClearedOf(prepared, opinion)
         /\ Eligible(prepared, opinion) \ Dominated(prepared, Eligible(prepared, opinion))
              = RivalsOf(prepared, opinion)
<1> DEFINE C == ClearedOf(prepared, opinion)
<1>1. DOMAIN prepared = 1..n /\ \A k \in 1..n : StatusSays(prepared, opinion, OwnEvaluations(prepared, opinion), k)
  BY DecidableFacts, StatusesSay
<1>2. Eligible(prepared, opinion) = C
  BY <1>1 DEF Eligible, StatusSays, ClearedOf
<1>3. \A k \in C : ~ObjectivelyDominates(prepared[k], prepared[k])
  BY <1>1, DecidableFacts, DominationIrreflexive DEF ClearedOf
<1>4. RivalsOf(prepared, opinion) = {k \in C : \A m \in C : ~ObjectivelyDominates(prepared[m], prepared[k])}
  BY DEF RivalsOf
<1> HIDE DEF C
<1>5. C \ Dominated(prepared, C) = RivalsOf(prepared, opinion)
  BY <1>3, <1>4 DEF Dominated
<1> QED
  BY <1>2, <1>5 DEF C

LEMMA DecisionEarned ==
  ASSUME NEW prepared, NEW opinion, NEW n, Decidable(prepared, opinion, n)
  PROVE  Earned(prepared, opinion, OwnDecision(prepared, opinion))
<1> DEFINE judged      == OwnEvaluations(prepared, opinion)
           complements == OwnComplements(prepared, opinion)
           result      == OwnDecision(prepared, opinion)
           With(s)     == {k \in DOMAIN prepared : judged[k].status = s}
           rivals      == With("eligible") \ Dominated(prepared, With("eligible"))
           accepted    == BestFirst([k \in rivals |-> judged[k].score])
           Ids(ks)     == [k \in DOMAIN ks |-> prepared[ks[k]].id]
           best        == IF rivals = {} THEN <<>> ELSE <<prepared[accepted[1]].id>>
           gap         == judged[accepted[1]].score - judged[accepted[2]].score
           paired      == PairKey(accepted[1], accepted[2]) \in complements
           compared    == Comparison(prepared[accepted[1]].id, prepared[accepted[2]].id, gap, paired)
           outcome     ==
             IF With("incomplete") # {}
               THEN Outcome("probe_more", {}, <<>>, "collect_evidence", Ids(InOrder(With("incomplete"))))
             ELSE IF With("review") # {}
               THEN Outcome("human_review", {}, <<>>, "ask_human", best \o Ids(InOrder(With("review"))))
             ELSE IF rivals = {}
               THEN Outcome("no_winner", {}, <<>>, "revise_ideas", <<>>)
             ELSE IF Cardinality(rivals) = 1
               THEN Outcome("winner", ToSet(best), <<>>, "integrate_winner", best)
             ELSE compared
           P(k)        == PointsOf(prepared, opinion, k)
<1>1. /\ n \in Nat /\ DOMAIN prepared = 1..n /\ Len(prepared) = n
      /\ \A k \in 1..n : /\ prepared[k].gain \in Seq(Amounts)
                         /\ prepared[k].spent \in [Resources -> Amounts]
                         /\ opinion.card[prepared[k].id] \in Cards
  BY DecidableFacts
<1>2. \A k \in 1..n : StatusSays(prepared, opinion, judged, k)
  BY StatusesSay
<1>3. /\ result.winner = outcome.winner
      /\ result.merge = outcome.merge
  BY DEF OwnDecision, DecidedResult
<1>5. rivals = RivalsOf(prepared, opinion)
  BY RivalsAreRight DEF Eligible
<1> HIDE DEF judged, complements, result
<1>6. rivals \in SUBSET (1..n) /\ \A k \in rivals : judged[k].score = P(k) /\ P(k) \in Int
  <2>1. \A k \in rivals : k \in 1..n /\ judged[k].status = "eligible"
    BY <1>1
  <2>2. \A k \in rivals : judged[k].score = P(k)
    BY <1>2, <2>1 DEF StatusSays
  <2>3. \A k \in 1..n : P(k) \in Int
    BY <1>1 DEF PointsOf, Cards
  <2> QED  BY <2>1, <2>2, <2>3
<1>7. With("incomplete") = {} /\ With("review") = {} => SettledFor(prepared, opinion)
  <2> SUFFICES ASSUME With("incomplete") = {}, With("review") = {} PROVE SettledFor(prepared, opinion)
    OBVIOUS
  <2>1. \A k \in 1..n : judged[k].status \notin {"incomplete", "review"}
    BY <1>1
  <2> QED  BY <1>1, <1>2, <2>1 DEF StatusSays, SettledFor
<1> HIDE DEF With, rivals, accepted, compared, Ids, best, P
<1>8. AcceptedRight(accepted, rivals, judged)
  BY <1>1, <1>6, AcceptedFacts DEF accepted
<1> DEFINE c == Cardinality(rivals)
<1>9. /\ c \in Nat
      /\ \A k \in 1..c : accepted[k] \in rivals
      /\ \A i \in rivals : \E k \in 1..c : accepted[k] = i
      /\ \A k, l \in 1..c : accepted[k] = accepted[l] => k = l
      /\ \A k, l \in 1..c : k <= l => judged[accepted[k]].score >= judged[accepted[l]].score
  BY <1>8 DEF AcceptedRight
<1> HIDE DEF c
<1>10. ASSUME ~(With("incomplete") = {} /\ With("review") = {} /\ rivals # {})
       PROVE  Earned(prepared, opinion, result)
  <2>1. outcome.winner = {} /\ outcome.merge = <<>>
    BY <1>10, OutcomeFields
  <2> HIDE DEF outcome
  <2> QED  BY <1>3, <2>1 DEF Earned
<1>11. ASSUME With("incomplete") = {}, With("review") = {}, rivals # {}
       PROVE  Earned(prepared, opinion, result)
  <2>1. SettledFor(prepared, opinion)
    BY <1>7, <1>11
  <2>2. c >= 1
    BY <1>9, <1>11
  <2>3. accepted[1] \in rivals
    BY <1>9, <2>2
  <2>4. CASE c = 1
    <3>1. outcome = Outcome("winner", ToSet(best), <<>>, "integrate_winner", best)
      BY <1>11, <2>4 DEF c
    <3>2. best = <<prepared[accepted[1]].id>>
      BY <1>11 DEF best
    <3>3. ToSet(<<prepared[accepted[1]].id>>) = {prepared[accepted[1]].id}
      BY DEF ToSet
    <3> HIDE DEF outcome
    <3>4. result.winner = {prepared[accepted[1]].id} /\ result.merge = <<>>
      BY <1>3, <3>1, <3>2, <3>3, OutcomeFields
    <3>5. rivals \ {accepted[1]} = {}
      BY <1>9, <2>4
    <3>6. WinnerEarned(prepared, opinion, result)
      BY <1>5, <2>1, <2>3, <3>4, <3>5 DEF WinnerEarned
    <3> QED  BY <3>4, <3>6 DEF Earned
  <2>5. CASE c # 1
    <3> DEFINE v == accepted[1]
               w == accepted[2]
    <3>1. outcome = compared
      BY <1>11, <2>5 DEF c
    <3>2. c >= 2 /\ 1 \in 1..c /\ 2 \in 1..c
      BY <1>9, <2>2, <2>5
    <3>3. v \in rivals /\ w \in rivals /\ v # w
      BY <1>9, <3>2
    <3>4. /\ judged[v].score = P(v) /\ P(v) \in Int
          /\ judged[w].score = P(w) /\ P(w) \in Int
      BY <1>6, <3>3
    <3>5. \A i \in rivals : i = v \/ i = w \/ (P(i) \in Int /\ P(i) <= P(w))
      <4> TAKE i \in rivals
      <4>1. PICK k \in 1..c : accepted[k] = i
        BY <1>9
      <4>2. k = 1 \/ k = 2 \/ 2 <= k
        BY <1>9
      <4>3. 2 <= k => judged[w].score >= judged[i].score
        BY <1>9, <3>2, <4>1
      <4>4. judged[i].score = P(i) /\ P(i) \in Int
        BY <1>6
      <4> QED  BY <3>4, <4>1, <4>2, <4>3, <4>4
    <3> DEFINE close == paired /\ gap <= MergeMargin
    <3>6. gap = P(v) - P(w)
      BY <3>4
    <3>7. paired => {prepared[v].id, prepared[w].id} \in opinion.pairs
      <4> SUFFICES ASSUME paired PROVE {prepared[v].id, prepared[w].id} \in opinion.pairs
        OBVIOUS
      <4>1. \A p \in complements : {prepared[p[1]].id, prepared[p[2]].id} \in opinion.pairs
        BY DEF complements, OwnComplements
      <4> DEFINE p == PairKey(v, w)
      <4>2. p \in complements
        OBVIOUS
      <4>3. p = <<v, w>> \/ p = <<w, v>>
        BY DEF PairKey
      <4> HIDE DEF v, w, p
      <4>4. (p[1] = v /\ p[2] = w) \/ (p[1] = w /\ p[2] = v)
        BY <4>3
      <4>5. {prepared[v].id, prepared[w].id} = {prepared[w].id, prepared[v].id}
        OBVIOUS
      <4> QED  BY <4>1, <4>2, <4>4, <4>5
    <3> HIDE DEF outcome, gap, paired, v, w
    <3>8. CASE close
      <4>1. compared = Outcome("merge", {}, <<prepared[v].id, prepared[w].id>>, "probe_combination",
                               <<prepared[v].id, prepared[w].id>>)
        BY <3>8 DEF compared, Comparison, v, w
      <4>2. result.winner = {} /\ result.merge = <<prepared[v].id, prepared[w].id>>
        BY <1>3, <3>1, <4>1, OutcomeFields
      <4>3. P(v) <= P(w) + MergeMargin
        BY <3>4, <3>6, <3>8 DEF MergeMargin
      <4>4. \A i \in rivals \ {v} : P(i) <= P(w) \/ i = w
        BY <3>5
      <4>5. MergeEarned(prepared, opinion, result)
        BY <1>5, <2>1, <3>3, <3>7, <3>8, <4>2, <4>3, <4>4 DEF MergeEarned, P
      <4> QED  BY <4>2, <4>5 DEF Earned
    <3>9. CASE ~close /\ gap < WinnerMargin
      <4>1. compared = Outcome("probe_more", {}, <<>>, "collect_evidence",
                               <<prepared[v].id, prepared[w].id>>)
        BY <3>9 DEF compared, Comparison, v, w
      <4>2. result.winner = {} /\ result.merge = <<>>
        BY <1>3, <3>1, <4>1, OutcomeFields
      <4> QED  BY <4>2 DEF Earned
    <3>10. CASE ~close /\ ~(gap < WinnerMargin)
      <4>1. compared = Outcome("winner", {prepared[v].id}, <<>>, "integrate_winner", <<prepared[v].id>>)
        BY <3>10 DEF compared, Comparison, v, w
      <4>2. result.winner = {prepared[v].id} /\ result.merge = <<>>
        BY <1>3, <3>1, <4>1, OutcomeFields
      <4>3. P(w) + WinnerMargin <= P(v)
        BY <3>4, <3>6, <3>10 DEF WinnerMargin
      <4>4. \A i \in rivals \ {v} : P(i) + WinnerMargin <= P(v)
        BY <3>4, <3>5, <4>3 DEF WinnerMargin
      <4>5. WinnerEarned(prepared, opinion, result)
        BY <1>5, <2>1, <3>3, <4>2, <4>4 DEF WinnerEarned, P
      <4> QED  BY <4>2, <4>5 DEF Earned
    <3> QED  BY <3>8, <3>9, <3>10
  <2> QED  BY <2>4, <2>5
<1> QED
  BY <1>10, <1>11 DEF result

-----------------------------------------------------------------------------
(* Promotions.                                                             *)

(* What appending does to a sequence.                                      *)
LEMMA Appended ==
  ASSUME NEW S, NEW s \in Seq(S), NEW e \in S
  PROVE  /\ Append(s, e) \in Seq(S)
         /\ Len(s) \in Nat /\ Len(Append(s, e)) = Len(s) + 1
         /\ Append(s, e)[Len(s) + 1] = e
         /\ \A n \in Nat \ {0} : n <= Len(s) => Append(s, e)[n] = s[n]
OBVIOUS

(* Only a candidate that passes every gate is promoted.                    *)
LEMMA PromotedPasses ==
  ASSUME NEW campaign, NEW card, ReconsiderVerdict(campaign, card) = "promote_to_probe"
  PROVE  Passes(card)
BY DEF ReconsiderVerdict, Passes

LEMMA ReconsiderPromotes ==
  ASSUME CampaignsRight, PromotionIsVetted, Reconsider
  PROVE  PromotionIsVetted'
<1> PICK base \in campaigns, c \in DOMAIN session.judge.card, card \in SecondCards :
      LET verdict == ReconsiderVerdict(base, card)
          promote == verdict = "promote_to_probe"
      IN  /\ base.sift.status[c] = "review"
          /\ promote => ValidCampaign(Promoted(base, c))
          /\ reports' = reports \cup {[campaign |-> base, candidate |-> c, card |-> card,
                                       decision |-> verdict]}
          /\ campaigns' = IF promote THEN campaigns \cup {Promoted(base, c)} ELSE campaigns
  BY DEF Reconsider
<1> DEFINE next   == Promoted(base, c)
           report == [campaign |-> base, candidate |-> c, card |-> card,
                      decision |-> ReconsiderVerdict(base, card)]
           orders == base.review_work_orders
<1>1. report \in reports' /\ (campaigns' = campaigns \cup {next} \/ campaigns' = campaigns)
  OBVIOUS
<1>2. campaigns' # campaigns => ReconsiderVerdict(base, card) = "promote_to_probe"
  OBVIOUS
<1>3. reports \subseteq reports' /\ session \in Sessions /\ CampaignRight(base)
  BY DEF CampaignsRight
<1>4. c \in ToSet(session.request) /\ base.sift.status[c] = "review"
  BY <1>3, SessionAssumption
<1>5. /\ base = [sift |-> OwnSift, work_orders |-> OwnSift.selected, review_work_orders |-> orders]
      /\ orders \in Seq(ToSet(session.request))
  BY <1>3 DEF CampaignRight
<1>6. next = [base EXCEPT !.review_work_orders = Append(orders, c)]
  BY DEF Promoted
<1>7. next.review_work_orders = Append(orders, c) /\ next.sift = base.sift
  <2> HIDE DEF next, orders
  <2> QED  BY <1>5, <1>6
<1>8. /\ Len(Append(orders, c)) = Len(orders) + 1 /\ Len(orders) \in Nat
      /\ Append(orders, c)[Len(orders) + 1] = c
      /\ \A k \in Nat \ {0} : k <= Len(orders) => Append(orders, c)[k] = orders[k]
  BY <1>4, <1>5, Appended
<1>9. ASSUME NEW campaign \in campaigns', NEW n \in 1..MaxOrders, n <= Len(campaign.review_work_orders)
      PROVE  /\ campaign.sift.status[campaign.review_work_orders[n]] = "review"
             /\ \E r \in reports' : /\ r.candidate = campaign.review_work_orders[n]
                                    /\ r.decision = "promote_to_probe"
                                    /\ Passes(r.card)
  <2>1. CASE campaign \in campaigns
    BY <1>3, <1>9, <2>1 DEF PromotionIsVetted
  <2>2. CASE campaign \notin campaigns
    <3>1. campaign = next /\ ReconsiderVerdict(base, card) = "promote_to_probe"
      BY <1>1, <1>2, <1>9, <2>2
    <3>2. campaign.review_work_orders = Append(orders, c) /\ campaign.sift = base.sift
      BY <1>7, <3>1
    <3>3. CASE n = Len(orders) + 1
      <4>1. campaign.review_work_orders[n] = c
        BY <1>8, <3>2, <3>3
      <4>2. report.candidate = c /\ report.decision = "promote_to_probe" /\ Passes(report.card)
        BY <3>1, PromotedPasses
      <4> HIDE DEF report
      <4> QED  BY <1>1, <1>4, <3>2, <4>1, <4>2
    <3>4. CASE n # Len(orders) + 1
      <4>1. n <= Len(orders) /\ n \in Nat \ {0}
        BY <1>8, <1>9, <3>2, <3>4, CampaignAssumption
      <4>2. campaign.review_work_orders[n] = orders[n]
        BY <1>8, <3>2, <4>1
      <4> HIDE DEF report, next
      <4> QED  BY <1>3, <1>9, <3>2, <4>1, <4>2 DEF PromotionIsVetted
    <3> QED  BY <3>3, <3>4
  <2> QED  BY <2>1, <2>2
<1> QED
  BY <1>9 DEF PromotionIsVetted

LEMMA SiftPromotesNobody ==
  ASSUME Sift
  PROVE  PromotionIsVetted'
<1> PICK canonicalize \in BOOLEAN : campaigns' = {BuildCampaign(SiftResult(canonicalize))}
  BY DEF Sift
<1>1. \A campaign \in campaigns' : campaign.review_work_orders = <<>>
  BY DEF BuildCampaign
<1>2. \A n \in 1..MaxOrders : ~(n <= Len(<<>>))
  BY CampaignAssumption
<1> QED
  BY <1>1, <1>2 DEF PromotionIsVetted

(* Whatever is reconsidered in whatever order on whichever campaign file,  *)
(* a second work order rests on a confident reconsideration without a      *)
(* failing gate, of a candidate that Sift had put under review.            *)
THEOREM PromotionsVetted == Spec => []PromotionIsVetted
<1>1. Init => PromotionIsVetted
  BY DEF Init, PromotionIsVetted
<1>2. CampaignsRight /\ PromotionIsVetted /\ [Next]_vars => PromotionIsVetted'
  <2> SUFFICES ASSUME CampaignsRight, PromotionIsVetted, [Next]_vars PROVE PromotionIsVetted'
    OBVIOUS
  <2>1. CASE Sift
    BY <2>1, SiftPromotesNobody
  <2>2. CASE Reconsider
    BY <2>2, ReconsiderPromotes
  <2>3. CASE UNCHANGED <<campaigns, reports>>
    BY <2>3 DEF PromotionIsVetted
  <2>4. CreateTemplate \/ CollectEvidence \/ Decide => UNCHANGED <<campaigns, reports>>
    BY DEF CreateTemplate, CollectEvidence, Decide
  <2> QED  BY <2>1, <2>2, <2>3, <2>4 DEF Next, vars
<1> QED
  BY <1>1, <1>2, CampaignsAreRight, PTL DEF Spec

-----------------------------------------------------------------------------
(* Evidence and its decision.                                              *)

BundleRight ==
  bundle # NoFile => /\ bundle = [campaign |-> bundle.campaign, packets |-> bundle.packets]
                     /\ bundle.packets \in [DOMAIN bundle.packets -> Packets]

DecidedRight ==
  decided # NoFile =>
    /\ \E n \in Nat : Decidable(decided.prepared, decided.opinion, n)
    /\ decided.result = OwnDecision(decided.prepared, decided.opinion)

FilesRight == CampaignsRight /\ BundleRight /\ DecidedRight

LEMMA PreparedIsDecidable ==
  ASSUME CampaignsRight, NEW campaign \in campaigns, NEW opinion \in Opinions(session),
         NEW packets, packets \in [DOMAIN packets -> Packets]
  PROVE  \E n \in Nat : Decidable(Prepared(campaign, packets), opinion, n)
<1> DEFINE ids      == Finalists(campaign)
           n        == Len(ids)
           S        == ToSet(session.request)
           prepared == Prepared(campaign, packets)
<1>1. session \in Sessions /\ CampaignRight(campaign)
  BY DEF CampaignsRight
<1>2. ids \in Seq(S) /\ IsInjective(ids)
  <2> DEFINE promoted == campaign.review_work_orders
  <2>1. /\ campaign = [sift |-> OwnSift, work_orders |-> OwnSift.selected, review_work_orders |-> promoted]
        /\ promoted \in Seq(S) /\ IsInjective(OwnSift.selected \o promoted)
    BY <1>1 DEF CampaignRight
  <2>2. OwnSift.selected \in Seq(S)
    BY <1>1, SiftIsOwn DEF ChosenRight
  <2> HIDE DEF promoted, S
  <2>3. campaign.work_orders = OwnSift.selected /\ campaign.review_work_orders = promoted
    BY <2>1
  <2>4. OwnSift.selected \o promoted \in Seq(S)
    BY <2>1, <2>2
  <2> QED  BY <2>1, <2>3, <2>4 DEF Finalists
<1>3. S \in SUBSET Nat /\ opinion.card \in [S -> Cards]
  <2>1. session.request \in Seq(Nat) /\ opinion.card \in [S -> Cards]
    BY <1>1, SessionAssumption, OpinionAssumption
  <2> QED  BY <2>1 DEF ToSet
<1> HIDE DEF ids, S
<1>4. n \in Nat /\ DOMAIN ids = 1..n /\ \A k \in 1..n : ids[k] \in S
  BY <1>2
<1> HIDE DEF n
<1>5. NoEvidence \in Packets
  BY DEF NoEvidence, Packets, Amounts
<1> DEFINE found(k) == IF ids[k] \in DOMAIN packets THEN packets[ids[k]] ELSE NoEvidence
<1>6. \A k \in 1..n : found(k) \in Packets
  BY <1>5
<1>7. prepared = [k \in 1..n |-> [id |-> ids[k], status |-> found(k).status, gain |-> found(k).gain,
                                  spent |-> found(k).spent]]
  BY <1>4 DEF Prepared, ids
<1> HIDE DEF found, prepared
<1>8. \A k \in 1..n : prepared[k] \in FinalistsOf(S) /\ prepared[k].id = ids[k]
  BY <1>4, <1>6, <1>7 DEF FinalistsOf, Packets
<1>9. prepared \in [1..n -> FinalistsOf(S)]
  <2>1. DOMAIN prepared = 1..n /\ prepared = [k \in 1..n |-> prepared[k]]
    BY <1>7
  <2> QED  BY <1>8, <2>1
<1>10. \A k, l \in 1..n : prepared[k].id = prepared[l].id => k = l
  BY <1>2, <1>4, <1>8 DEF IsInjective
<1>11. Decidable(prepared, opinion, n)
  BY <1>3, <1>4, <1>9, <1>10 DEF Decidable
<1> QED
  BY <1>4, <1>11 DEF prepared

LEMMA CreateKeepsFiles ==
  ASSUME FilesRight, CreateTemplate
  PROVE  BundleRight'
<1> PICK campaign \in campaigns :
      bundle' = [campaign |-> campaign, packets |-> [c \in ToSet(Finalists(campaign)) |-> NoEvidence]]
  BY DEF CreateTemplate
<1> DEFINE packets == [c \in ToSet(Finalists(campaign)) |-> NoEvidence]
<1>1. NoEvidence \in Packets
  BY DEF NoEvidence, Packets, Amounts
<1>2. packets \in [DOMAIN packets -> Packets]
  BY <1>1
<1>3. bundle' = [campaign |-> campaign, packets |-> packets]
  OBVIOUS
<1> HIDE DEF packets
<1> QED
  BY <1>2, <1>3 DEF BundleRight

LEMMA CollectKeepsFiles ==
  ASSUME FilesRight, CollectEvidence
  PROVE  BundleRight'
<1> PICK c \in DOMAIN bundle.packets, e \in Evidence(session) :
      bundle' = [bundle EXCEPT !.packets[c] = e]
  BY DEF CollectEvidence
<1> DEFINE packets == bundle.packets
           more    == [packets EXCEPT ![c] = e]
<1>1. bundle = [campaign |-> bundle.campaign, packets |-> packets] /\ packets \in [DOMAIN packets -> Packets]
  BY DEF FilesRight, BundleRight, CollectEvidence
<1>2. e \in Packets
  BY EvidenceAssumption DEF FilesRight, CampaignsRight
<1>3. more \in [DOMAIN packets -> Packets] /\ DOMAIN more = DOMAIN packets
  BY <1>1, <1>2
<1>4. bundle' = [bundle EXCEPT !.packets = more]
  OBVIOUS
<1> DEFINE campaign == bundle.campaign
<1> HIDE DEF packets, more, campaign
<1>5. bundle' = [campaign |-> campaign, packets |-> more]
  BY <1>1, <1>4 DEF campaign
<1>6. bundle'.campaign = campaign /\ bundle'.packets = more
  BY <1>5
<1>7. bundle'.packets \in [DOMAIN bundle'.packets -> Packets]
  BY <1>3, <1>6
<1> QED
  BY <1>5, <1>6, <1>7 DEF BundleRight

LEMMA DecideKeepsFiles ==
  ASSUME FilesRight, Decide
  PROVE  DecidedRight'
<1> PICK campaign \in campaigns, opinion \in Opinions(session), canonicalize \in BOOLEAN :
      decided' = [campaign |-> campaign, prepared |-> Prepared(campaign, bundle.packets), opinion |-> opinion,
                  result |-> Decision(Prepared(campaign, bundle.packets), opinion, canonicalize)]
  BY DEF Decide
<1> DEFINE prepared == Prepared(campaign, bundle.packets)
<1>1. bundle.packets \in [DOMAIN bundle.packets -> Packets]
  BY DEF FilesRight, BundleRight, Decide
<1>2. PICK n \in Nat : Decidable(prepared, opinion, n)
  BY <1>1, PreparedIsDecidable DEF FilesRight
<1>3. decided' = [campaign |-> campaign, prepared |-> prepared, opinion |-> opinion,
                  result |-> Decision(prepared, opinion, canonicalize)]
  OBVIOUS
<1> HIDE DEF prepared
<1>4. Decision(prepared, opinion, canonicalize) = OwnDecision(prepared, opinion)
  BY <1>2, DecisionIsOwn
<1>5. /\ decided'.prepared = prepared /\ decided'.opinion = opinion
      /\ decided'.result = OwnDecision(prepared, opinion)
  BY <1>3, <1>4
<1> QED
  BY <1>2, <1>5 DEF DecidedRight

LEMMA FilesStayRight ==
  ASSUME FilesRight, [Next]_vars
  PROVE  FilesRight'
<1>1. CampaignsRight'
  BY CampaignsStayRight DEF FilesRight
<1>2. CASE CreateTemplate
  <2>1. BundleRight'
    BY <1>2, CreateKeepsFiles
  <2>2. DecidedRight'
    BY <1>2 DEF CreateTemplate, FilesRight, DecidedRight
  <2> QED  BY <1>1, <2>1, <2>2 DEF FilesRight
<1>3. CASE CollectEvidence
  <2>1. BundleRight'
    BY <1>3, CollectKeepsFiles
  <2>2. DecidedRight'
    BY <1>3 DEF CollectEvidence, FilesRight, DecidedRight
  <2> QED  BY <1>1, <2>1, <2>2 DEF FilesRight
<1>4. CASE Decide
  <2>1. DecidedRight'
    BY <1>4, DecideKeepsFiles
  <2>2. BundleRight'
    BY <1>4 DEF Decide, FilesRight, BundleRight
  <2> QED  BY <1>1, <2>1, <2>2 DEF FilesRight
<1>5. CASE UNCHANGED <<bundle, decided>>
  <2>1. BundleRight' /\ DecidedRight'
    BY <1>5 DEF FilesRight, BundleRight, DecidedRight
  <2> QED  BY <1>1, <2>1 DEF FilesRight
<1>6. Sift \/ Reconsider => UNCHANGED <<bundle, decided>>
  BY DEF Sift, Reconsider
<1> QED
  BY <1>2, <1>3, <1>4, <1>5, <1>6 DEF Next, vars

LEMMA FilesAreRight == Spec => []FilesRight
<1>1. Init => FilesRight
  BY InitRight DEF Init, FilesRight, BundleRight, DecidedRight
<1> QED
  BY <1>1, FilesStayRight, PTL DEF Spec

(* For any candidates, judges, evidence and opinions, asking in canonical  *)
(* order or in the order of the request gives the same ranking and the     *)
(* same decision.                                                          *)
THEOREM QuestionOrderIgnored == Spec => []QuestionOrderIsIgnored
<1>1. FilesRight => QuestionOrderIsIgnored
  <2> SUFFICES ASSUME FilesRight PROVE QuestionOrderIsIgnored
    OBVIOUS
  <2>1. SiftResult(TRUE) = SiftResult(FALSE)
    BY SiftIsOwn DEF FilesRight, CampaignsRight
  <2>2. ASSUME decided # NoFile, NEW canonicalize \in BOOLEAN
        PROVE  decided.result = Decision(decided.prepared, decided.opinion, canonicalize)
    <3>1. /\ \E n \in Nat : Decidable(decided.prepared, decided.opinion, n)
          /\ decided.result = OwnDecision(decided.prepared, decided.opinion)
      BY <2>2 DEF FilesRight, DecidedRight
    <3> QED  BY <3>1, DecisionIsOwn
  <2> QED  BY <2>1, <2>2 DEF QuestionOrderIsIgnored
<1> QED
  BY <1>1, FilesAreRight, PTL

(* Every winner and every merge is earned against all rivals, though       *)
(* decide compares the two best only.                                      *)
THEOREM OutcomesEarned == Spec => []OutcomeIsEarned
<1>1. FilesRight => OutcomeIsEarned
  <2> SUFFICES ASSUME FilesRight, decided # NoFile PROVE OutcomeIsEarned
    BY DEF OutcomeIsEarned
  <2>1. Earned(decided.prepared, decided.opinion, decided.result)
    BY DecisionEarned DEF FilesRight, DecidedRight
  <2>2. Cleared = ClearedOf(decided.prepared, decided.opinion)
    BY DEF Cleared, ClearedOf
  <2>3. \A n : Points(n) = PointsOf(decided.prepared, decided.opinion, n)
    BY DEF Points, PointsOf
  <2> QED
    BY <2>1, <2>2, <2>3 DEF OutcomeIsEarned, Earned, WinnerEarned, MergeEarned, SettledFor, RivalsOf
<1> QED
  BY <1>1, FilesAreRight, PTL

(* With nothing left out, domination has no circles, and somebody stays.   *)
LEMMA SomebodyStays ==
  ASSUME NEW n \in Nat, NEW S \in SUBSET (1..n), S # {}, NEW D,
         \A i \in S : <<i, i>> \notin D, \A i, j, k \in S : <<i, j>> \in D /\ <<j, k>> \in D => <<i, k>> \in D
  PROVE  \E i \in S : \A j \in S : <<j, i>> \notin D
<1> DEFINE Upto(k)  == S \cap (1..k)
           Stays(k) == Upto(k) # {} => \E i \in Upto(k) : \A j \in Upto(k) : <<j, i>> \notin D
           T        == {k \in 0..n : Stays(k)}
<1>1. 0 \in T
  OBVIOUS
<1>2. ASSUME NEW k \in 0..(n - 1), k \in T PROVE k + 1 \in T
  <2>1. k + 1 \in 0..n
    OBVIOUS
  <2>2. CASE k + 1 \notin S
    <3>1. Upto(k + 1) = Upto(k)
      BY <2>2
    <3> QED  BY <1>2, <2>1, <3>1
  <2>3. CASE k + 1 \in S
    <3>1. Upto(k + 1) = Upto(k) \cup {k + 1} /\ Upto(k) \subseteq S
      BY <2>3
    <3> DEFINE U == Upto(k)
               V == Upto(k + 1)
               m == k + 1
    <3>2. V = U \cup {m} /\ U \subseteq S /\ m \in S
      BY <2>3, <3>1
    <3>3. U # {} => \E i \in U : \A j \in U : <<j, i>> \notin D
      BY <1>2
    <3> HIDE DEF U, V, m
    <3>4. \E i \in V : \A j \in V : <<j, i>> \notin D
      <4>1. CASE U = {}
        BY <3>2, <4>1
      <4>2. CASE U # {}
        <5>1. PICK i \in U : \A j \in U : <<j, i>> \notin D
          BY <3>3, <4>2
        <5>2. CASE <<m, i>> \in D
          <6>1. \A j \in U : <<j, m>> \notin D
            BY <3>2, <5>1, <5>2
          <6> QED  BY <3>2, <6>1
        <5>3. CASE <<m, i>> \notin D
          BY <3>2, <5>1, <5>3
        <5> QED  BY <5>2, <5>3
      <4> QED  BY <4>1, <4>2
    <3> QED  BY <2>1, <3>4 DEF V, m
  <2> QED  BY <2>2, <2>3
<1> HIDE DEF T
<1>3. n \in T
  <2>1. n \in 0..n
    OBVIOUS
  <2> QED  BY <1>1, <1>2, <2>1, Climbing
<1>4. Upto(n) = S
  OBVIOUS
<1> QED
  BY <1>3, <1>4 DEF T

(* Every viable finalist accounts for every resource.                      *)
AllAccounted ==
  decided # NoFile =>
    \A n \in DOMAIN decided.prepared : decided.prepared[n].status = "viable" =>
      \A r \in Resources : decided.prepared[n].spent[r] # NoValue

LEMMA RivalsWereLeft ==
  ASSUME NEW prepared, NEW opinion, NEW n, Decidable(prepared, opinion, n), NoValue \notin Int,
         \A k \in DOMAIN prepared : prepared[k].status = "viable" =>
           \A r \in Resources : prepared[k].spent[r] # NoValue,
         ClearedOf(prepared, opinion) # {}
  PROVE  RivalsOf(prepared, opinion) # {}
<1> DEFINE S == ClearedOf(prepared, opinion)
           D == {p \in S \X S : ObjectivelyDominates(prepared[p[1]], prepared[p[2]])}
<1>1. /\ n \in Nat /\ DOMAIN prepared = 1..n
      /\ \A k \in 1..n : prepared[k].gain \in Seq(Amounts) /\ prepared[k].spent \in [Resources -> Amounts]
  BY DecidableFacts
<1>2. S \in SUBSET (1..n) /\ \A k \in S : prepared[k].status = "viable"
  BY <1>1 DEF ClearedOf
<1>3. \A k \in S : prepared[k].gain \in Seq(Amounts) /\ prepared[k].spent \in [Resources -> Int]
  <2> TAKE k \in S
  <2>1. k \in 1..n /\ prepared[k].spent \in [Resources -> Amounts]
    BY <1>1, <1>2
  <2>2. \A r \in Resources : prepared[k].spent[r] \in Amounts /\ prepared[k].spent[r] # NoValue
    BY <1>1, <1>2, <2>1
  <2>3. \A r \in Resources : prepared[k].spent[r] \in Int
    BY <2>2 DEF Amounts
  <2> QED  BY <1>1, <2>1, <2>3
<1>4. \A i, j \in S : <<i, j>> \in D <=> ObjectivelyDominates(prepared[i], prepared[j])
  OBVIOUS
<1>5. RivalsOf(prepared, opinion) = {k \in S : \A m \in S : ~ObjectivelyDominates(prepared[m], prepared[k])}
  BY DEF RivalsOf
<1>s. S # {}
  OBVIOUS
<1> HIDE DEF S, D
<1>6. \A i \in S : <<i, i>> \notin D
  <2> TAKE i \in S
  <2>1. prepared[i].spent \in [Resources -> Amounts]
    BY <1>1, <1>2
  <2> QED  BY <1>3, <1>4, <2>1, DominationIrreflexive
<1>7. \A i, j, k \in S : <<i, j>> \in D /\ <<j, k>> \in D => <<i, k>> \in D
  BY <1>3, <1>4, DominationTransitive
<1>8. PICK i \in S : \A j \in S : <<j, i>> \notin D
  BY <1>1, <1>2, <1>6, <1>7, <1>s, SomebodyStays
<1> QED
  BY <1>4, <1>5, <1>8

LEMMA NoWinnerNoRivals ==
  ASSUME NEW prepared, NEW opinion, NEW n, Decidable(prepared, opinion, n),
         OwnDecision(prepared, opinion).decision = "no_winner"
  PROVE  RivalsOf(prepared, opinion) = {}
<1> DEFINE judged      == OwnEvaluations(prepared, opinion)
           complements == OwnComplements(prepared, opinion)
           With(s)     == {k \in DOMAIN prepared : judged[k].status = s}
           rivals      == With("eligible") \ Dominated(prepared, With("eligible"))
           accepted    == BestFirst([k \in rivals |-> judged[k].score])
           Ids(ks)     == [k \in DOMAIN ks |-> prepared[ks[k]].id]
           best        == IF rivals = {} THEN <<>> ELSE <<prepared[accepted[1]].id>>
           compared    == Comparison(prepared[accepted[1]].id, prepared[accepted[2]].id,
                                     judged[accepted[1]].score - judged[accepted[2]].score,
                                     PairKey(accepted[1], accepted[2]) \in complements)
           outcome     ==
             IF With("incomplete") # {}
               THEN Outcome("probe_more", {}, <<>>, "collect_evidence", Ids(InOrder(With("incomplete"))))
             ELSE IF With("review") # {}
               THEN Outcome("human_review", {}, <<>>, "ask_human", best \o Ids(InOrder(With("review"))))
             ELSE IF rivals = {}
               THEN Outcome("no_winner", {}, <<>>, "revise_ideas", <<>>)
             ELSE IF Cardinality(rivals) = 1
               THEN Outcome("winner", ToSet(best), <<>>, "integrate_winner", best)
             ELSE compared
<1>1. outcome.decision = "no_winner"
  BY DEF OwnDecision, DecidedResult
<1>2. rivals = RivalsOf(prepared, opinion)
  BY RivalsAreRight DEF Eligible
<1>3. \A d, w, m, t, ids : Outcome(d, w, m, t, ids).decision = d
  BY DEF Outcome
<1>4. compared.decision # "no_winner"
  <2>1. \A first, second, gap, complementary :
          Comparison(first, second, gap, complementary).decision \in {"merge", "probe_more", "winner"}
    BY <1>3 DEF Comparison
  <2>2. compared.decision \in {"merge", "probe_more", "winner"}
    BY <2>1
  <2> HIDE DEF compared
  <2> QED  BY <2>2
<1> HIDE DEF judged, complements, With, rivals, accepted, Ids, best, compared
<1> QED
  BY <1>1, <1>2, <1>3, <1>4

(* "no_winner: every candidate failed a deterministic or semantic gate"    *)
(* (src/docs/WORKFLOW.md:131) is true of every decision whose finalists    *)
(* account for every resource: what breaks it is accounts left out only.   *)
THEOREM NoWinnerMeansFailures ==
  ASSUME NoValue \notin Int
  PROVE  Spec => [](AllAccounted => NoWinnerMeansGatesFailed)
<1>1. FilesRight => (AllAccounted => NoWinnerMeansGatesFailed)
  <2> SUFFICES ASSUME FilesRight, AllAccounted, decided # NoFile, decided.result.decision = "no_winner"
               PROVE  Cleared = {}
    BY DEF NoWinnerMeansGatesFailed
  <2> DEFINE prepared == decided.prepared
             opinion  == decided.opinion
  <2>1. PICK n \in Nat : Decidable(prepared, opinion, n)
    BY DEF FilesRight, DecidedRight
  <2>2. OwnDecision(prepared, opinion).decision = "no_winner"
    BY DEF FilesRight, DecidedRight
  <2>3. \A k \in DOMAIN prepared : prepared[k].status = "viable" =>
          \A r \in Resources : prepared[k].spent[r] # NoValue
    BY DEF AllAccounted
  <2>4. Cleared = ClearedOf(prepared, opinion)
    BY DEF Cleared, ClearedOf
  <2> HIDE DEF prepared, opinion
  <2>5. RivalsOf(prepared, opinion) = {}
    BY <2>1, <2>2, NoWinnerNoRivals
  <2>6. ClearedOf(prepared, opinion) # {} => RivalsOf(prepared, opinion) # {}
    BY <2>1, <2>3, RivalsWereLeft
  <2> QED  BY <2>4, <2>5, <2>6
<1> QED
  BY <1>1, FilesAreRight, PTL

(* Types: reports and evidence belong to campaign files that exist, and    *)
(* only candidates of the request become finalists.                        *)
FinalistsAsked ==
  \A campaign \in campaigns : ToSet(Finalists(campaign)) \subseteq ToSet(session.request)

LEMMA FinalistsAreAsked ==
  ASSUME CampaignsRight
  PROVE  FinalistsAsked
<1> SUFFICES ASSUME NEW campaign \in campaigns
             PROVE  ToSet(Finalists(campaign)) \subseteq ToSet(session.request)
  BY DEF FinalistsAsked
<1> DEFINE promoted == campaign.review_work_orders
           selected == OwnSift.selected
           S        == ToSet(session.request)
<1>1. /\ campaign = [sift |-> OwnSift, work_orders |-> selected, review_work_orders |-> promoted]
      /\ promoted \in Seq(S)
  BY DEF CampaignsRight, CampaignRight
<1>2. selected \in Seq(S)
  BY SiftIsOwn DEF CampaignsRight, ChosenRight
<1> HIDE DEF promoted, selected, S
<1>3. campaign.work_orders = selected /\ campaign.review_work_orders = promoted
  BY <1>1
<1>4. ToSet(selected \o promoted) \subseteq ToSet(selected) \cup ToSet(promoted)
  BY <1>1, <1>2, JoinedSet
<1>5. ToSet(selected) \subseteq S /\ ToSet(promoted) \subseteq S
  BY <1>1, <1>2 DEF ToSet
<1> QED
  BY <1>3, <1>4, <1>5 DEF Finalists, S

LEMMA TypesStay ==
  ASSUME CampaignsRight, CampaignsRight', FinalistsAsked', TypeOK, [Next]_vars
  PROVE  TypeOK'
<1>1. session' = session /\ session' \in Sessions
  BY DEF Next, vars, Sift, Reconsider, CreateTemplate, CollectEvidence, Decide, CampaignsRight
<1>2. \A campaign \in campaigns' : ToSet(Finalists(campaign)) \subseteq ToSet(session'.request)
  BY DEF FinalistsAsked
<1> DEFINE Reported(r) == r.campaign \in campaigns' /\ r.candidate \in ToSet(session.request) /\ r.card \in SecondCards
<1>3. campaigns \subseteq campaigns'
  BY DEF Next, vars, Sift, Reconsider, CreateTemplate, CollectEvidence, Decide
<1>4. \A r \in reports : Reported(r)
  BY <1>3 DEF TypeOK
<1>5. \A r \in reports' : Reported(r)
  <2>1. CASE Reconsider
    <3> PICK base \in campaigns, c \in DOMAIN session.judge.card, card \in SecondCards :
          reports' = reports \cup {[campaign |-> base, candidate |-> c, card |-> card,
                                    decision |-> ReconsiderVerdict(base, card)]}
      BY <2>1 DEF Reconsider
    <3>1. c \in ToSet(session.request)
      BY <1>1, SessionAssumption
    <3> DEFINE report == [campaign |-> base, candidate |-> c, card |-> card,
                          decision |-> ReconsiderVerdict(base, card)]
    <3>2. Reported(report)
      BY <1>3, <3>1
    <3>3. reports' = reports \cup {report}
      OBVIOUS
    <3> HIDE DEF report, Reported
    <3> QED  BY <1>4, <3>2, <3>3
  <2>2. CASE reports' = reports
    BY <1>4, <2>2
  <2> QED  BY <2>1, <2>2 DEF Next, vars, Sift, CreateTemplate, CollectEvidence, Decide
<1>6. bundle' # NoFile => bundle'.campaign \in campaigns'
  <2>1. CASE CreateTemplate
    <3>1. PICK campaign \in campaigns :
            bundle' = [campaign |-> campaign, packets |-> [c \in ToSet(Finalists(campaign)) |-> NoEvidence]]
      BY <2>1 DEF CreateTemplate
    <3> QED  BY <1>3, <3>1
  <2>2. CASE CollectEvidence
    <3>1. PICK c \in DOMAIN bundle.packets, e \in Evidence(session) : bundle' = [bundle EXCEPT !.packets[c] = e]
      BY <2>2 DEF CollectEvidence
    <3>2. bundle # NoFile /\ bundle.campaign \in campaigns
      BY <2>2 DEF CollectEvidence, TypeOK
    <3>3. bundle'.campaign = bundle.campaign
      BY <3>1
    <3> QED  BY <1>3, <3>2, <3>3
  <2>3. CASE bundle' = bundle
    BY <1>3, <2>3 DEF TypeOK
  <2> QED  BY <2>1, <2>2, <2>3 DEF Next, vars, Sift, Reconsider, Decide
<1>7. decided' # NoFile => decided'.campaign \in campaigns'
  <2>1. CASE Decide
    <3>1. PICK campaign \in campaigns, opinion \in Opinions(session), canonicalize \in BOOLEAN :
            decided' = [campaign |-> campaign, prepared |-> Prepared(campaign, bundle.packets),
                        opinion |-> opinion,
                        result |-> Decision(Prepared(campaign, bundle.packets), opinion, canonicalize)]
      BY <2>1 DEF Decide
    <3> QED  BY <1>3, <3>1
  <2>2. CASE decided' = decided
    BY <1>3, <2>2 DEF TypeOK
  <2> QED  BY <2>1, <2>2 DEF Next, vars, Sift, Reconsider, CreateTemplate, CollectEvidence
<1> QED
  BY <1>1, <1>2, <1>5, <1>6, <1>7 DEF TypeOK

THEOREM TypesHold == Spec => []TypeOK
<1>1. Init => TypeOK
  BY DEF Init, TypeOK
<1> QED
  BY <1>1, FinalistsAreAsked, TypesStay, CampaignsAreRight, PTL DEF Spec
=============================================================================
