----------------------------- MODULE SiftPolicy -----------------------------
(***************************************************************************)
(* Sift as operators: the positional questions (src/src/questions.ts) and  *)
(* rankCandidates (src/src/policy.ts).                                     *)
(*                                                                         *)
(* A candidate is its id, and ids are numbers because only their order is  *)
(* used.  A request is the sequence of its candidates.  What a judge       *)
(* thinks is a card per candidate and the pairs it takes for the same      *)
(* mechanism:                                                              *)
(*   risk       constraint_fit is below its threshold                      *)
(*   confident  the smallest confidence reaches its threshold              *)
(*   weak       one of the other four signals is below its threshold       *)
(*   score      the weighted sum after the effort multiplier               *)
(* The judge answers by position, so a response is a card per position and *)
(* a yes or no per pair of positions, the smaller one first.               *)
(***************************************************************************)
EXTENDS Integers, FiniteSets, SequencesExt

Pairs(n) == {p \in (1..n) \X (1..n) : p[1] < p[2]}

(* What is sorted, given with each item the items up to it.  (TLC keeps a  *)
(* concatenation, and computes a function again wherever it is applied.)   *)
Ranked(upto) ==
  <<>> \o [k \in 1..Cardinality(DOMAIN upto) |->
             CHOOSE i \in DOMAIN upto : Cardinality(upto[i]) = k]

(* Indexes in their own order.                                             *)
InOrder(indexes) == Ranked([i \in indexes |-> {j \in indexes : j <= i}])

(* Indexes by their scores, the best first, in order among equals.         *)
BestFirst(score) ==
  Ranked([i \in DOMAIN score |->
            {j \in DOMAIN score : score[j] > score[i] \/ (score[j] = score[i] /\ j <= i)}])

(* The order in which a plan asks about items: canonical position to index.*)
Canonical(ids, canonicalize) ==
  LET indexes == DOMAIN ids
  IN  IF canonicalize THEN Ranked([i \in indexes |-> {j \in indexes : ids[j] <= ids[i]}])
                      ELSE [i \in indexes |-> i]

(* The response of a judge to the plan about ids in that order.            *)
Answers(judge, ids, order) ==
  [cards |-> [k \in DOMAIN order |-> judge.card[ids[order[k]]]],
   pairs |-> [p \in Pairs(Len(order)) |-> {ids[order[p[1]]], ids[order[p[2]]]} \in judge.pairs]]

(* Mutant: answers are looked up by input index.                           *)
Position_Input(order, i) == i

(* candidateOrder.indexOf.                                                 *)
Position(order, i) == CHOOSE k \in DOMAIN order : order[k] = i

PairKey(left, right) == IF left < right THEN <<left, right>> ELSE <<right, left>>

-----------------------------------------------------------------------------
(* Mutant: confidence is checked before the hard constraints.              *)
GateStatus_ConfidenceFirst(card) ==
  IF ~card.confident THEN "review" ELSE IF card.risk \/ card.weak THEN "reject" ELSE "eligible"

(* A hard constraint is checked before confidence, confidence before the   *)
(* other gates: uncertainty about them goes to review.                     *)
GateStatus(card) ==
  IF card.risk THEN "reject"
  ELSE IF ~card.confident THEN "review"
  ELSE IF card.weak THEN "reject" ELSE "eligible"

SameMechanism(response, order, i, j) ==
  response.pairs[PairKey(Position(order, i), Position(order, j))]

(* Mutant: the quota is compared after the next candidate has been counted.*)
HasSlot_Beyond(kept, max) == Len(kept) <= max

HasSlot(kept, max) == Len(kept) < max

(* The pairs of candidates that are duplicates, as indexes.                *)
Duplicates(response, order) ==
  {p \in Pairs(Len(order)) : SameMechanism(response, order, p[1], p[2])}

(* One turn of the loop over the ranked candidates.                        *)
Sieve(sieve, i, duplicates, max) ==
  LET duplicate == \E k \in ToSet(sieve.kept) : PairKey(i, k) \in duplicates
      cut       == ~duplicate /\ ~HasSlot(sieve.kept, max)
  IN  IF sieve.status[i] # "eligible" THEN sieve
      ELSE IF duplicate \/ cut
        THEN [sieve EXCEPT !.status[i] = "reject", !.cut = IF cut THEN @ \cup {i} ELSE @]
        ELSE [sieve EXCEPT !.status[i] = "keep", !.kept = Append(@, i)]

(* The loop: what is decided after each of its turns.                      *)
Sifting(cards, ranked, duplicates, max) ==
  LET after[n \in 0..Len(ranked)] ==
        IF n = 0
          THEN [kept |-> <<>>, cut |-> {}, status |-> [i \in DOMAIN cards |-> GateStatus(cards[i])]]
          ELSE Sieve(after[n - 1], ranked[n], duplicates, max)
  IN  after

(* What to do next, and why nothing was selected.                          *)
OutcomeMetadata(sieve, cards) ==
  LET Outcome(next, empty) == [next_action |-> next, empty_reason |-> empty]
      AllAre(status)       == \A i \in DOMAIN cards : sieve.status[i] = status
  IN  IF sieve.kept # <<>> THEN Outcome("implement", "none")
      ELSE IF AllAre("review") THEN Outcome("ask_human", "all_review")
      ELSE IF ~AllAre("reject") THEN Outcome("ask_human", "mixed_no_survivor")
      ELSE IF \A i \in DOMAIN cards : cards[i].risk THEN Outcome("relax_constraints", "all_rejected")
      ELSE IF DOMAIN cards \subseteq sieve.cut THEN Outcome("ask_human", "budget_exhausted")
      ELSE Outcome("revise_candidates", "all_rejected")

(* The best ones of those that were kept or are under review.              *)
Shortlist(ranked, status, max) ==
  LET handoff == SelectSeq(ranked, LAMBDA i : status[i] \in {"keep", "review"})
  IN  SubSeq(handoff, 1, IF Len(handoff) < max THEN Len(handoff) ELSE max)

Names(request, indexes) == [k \in DOMAIN indexes |-> request[indexes[k]]]

(* The result of ranking candidates by the cards at their own indexes.     *)
RankedResult(request, cards, duplicates, max) ==
  LET ranked  == BestFirst([i \in DOMAIN cards |-> cards[i].score])
      sieve   == Sifting(cards, ranked, duplicates, max)[Len(ranked)]
      outcome == OutcomeMetadata(sieve, cards)
  IN  [selected     |-> Names(request, sieve.kept),
       shortlist    |-> Names(request, Shortlist(ranked, sieve.status, max)),
       ranking      |-> Names(request, ranked),
       status       |-> [c \in ToSet(request) |-> sieve.status[CHOOSE i \in DOMAIN request : request[i] = c]],
       next_action  |-> outcome.next_action,
       empty_reason |-> outcome.empty_reason]

(* rankCandidates: max is budget.max_survivors.                            *)
RankCandidates(request, response, order, max) ==
  RankedResult(request, [i \in DOMAIN request |-> response.cards[Position(order, i)]],
               Duplicates(response, order), max)
=============================================================================
