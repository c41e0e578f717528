---------------------------- MODULE DecidePolicy ----------------------------
(***************************************************************************)
(* Decide as operators: decideCampaign (src/src/workflow/decide.ts) over   *)
(* what prepareDecision made of the evidence, and the validation of its    *)
(* result (decideResultSchema in src/src/workflow/schemas.ts).             *)
(*                                                                         *)
(* An evaluation has a finalist's id, the status of its evidence, and what *)
(* was measured: gain, the relative improvement per metric (criterion,     *)
(* unit and direction), and spent, what the development took.  A gain is   *)
(* NoValue where the baseline is zero; tokens and cost are optional.       *)
(* Scores are in hundredths; on a margin itself the rounding of the code's *)
(* binary fractions decides (0.58 - 0.50 < 0.08), which is left out.       *)
(***************************************************************************)
EXTENDS SiftPolicy

CONSTANT NoValue

Resources == {"wall_ms", "changed_files", "tokens", "cost_usd"}

WinnerMargin == 8
MergeMargin  == 12

(* Here a missing confidence goes to review before any gate.               *)
SemanticStatus(card) ==
  IF ~card.confident THEN "review" ELSE IF card.weak THEN "rejected" ELSE "eligible"

(* Both finalists account for the resource.                                *)
Comparable(left, right, r) == left.spent[r] # NoValue /\ right.spent[r] # NoValue

ObjectivelyDominates(left, right) ==
  /\ DOMAIN left.gain # {}
  /\ DOMAIN left.gain = DOMAIN right.gain
  /\ \A m \in DOMAIN left.gain :
       left.gain[m] # NoValue /\ right.gain[m] # NoValue /\ left.gain[m] >= right.gain[m]
  /\ \A r \in Resources : Comparable(left, right, r) => left.spent[r] <= right.spent[r]
  /\ \/ \E m \in DOMAIN left.gain : left.gain[m] > right.gain[m]
     \/ \E r \in Resources : Comparable(left, right, r) /\ left.spent[r] < right.spent[r]

-----------------------------------------------------------------------------
(* The finalists whose evidence holds, in the order of their work orders.  *)
Viable(prepared) ==
  LET viable == InOrder({n \in DOMAIN prepared : prepared[n].status = "viable"})
  IN  [k \in DOMAIN viable |-> prepared[viable[k]].id]

(* Where the plan asked about a viable evaluation.                         *)
Asked(viable, order, evaluation) ==
  Position(order, CHOOSE v \in DOMAIN viable : viable[v] = evaluation.id)

(* The evaluations before domination is looked at.                         *)
Evaluations(prepared, response, order) ==
  LET viable == Viable(prepared)
  IN  [n \in DOMAIN prepared |->
         IF prepared[n].status = "viable"
           THEN LET card == response.cards[Asked(viable, order, prepared[n])]
                IN  [status |-> SemanticStatus(card), score |-> card.score]
           ELSE [status |-> prepared[n].status, score |-> 0]]

(* Every eligible finalist that another one dominates, dominated or not.   *)
Dominated(prepared, eligible) ==
  {n \in eligible : \E m \in eligible \ {n} : ObjectivelyDominates(prepared[m], prepared[n])}

Outcome(decision, winner, merge, type, ids) ==
  [decision |-> decision, winner |-> winner, merge |-> merge, next |-> [type |-> type, ids |-> ids]]

(* Mutant: complementary finalists are merged whatever separates them.     *)
Comparison_MergesAny(first, second, gap, complementary) ==
  IF complementary
    THEN Outcome("merge", {}, <<first, second>>, "probe_combination", <<first, second>>)
  ELSE IF gap < WinnerMargin
    THEN Outcome("probe_more", {}, <<>>, "collect_evidence", <<first, second>>)
  ELSE Outcome("winner", {first}, <<>>, "integrate_winner", <<first>>)

(* Between the two best accepted finalists.                                *)
Comparison(first, second, gap, complementary) ==
  IF complementary /\ gap <= MergeMargin
    THEN Outcome("merge", {}, <<first, second>>, "probe_combination", <<first, second>>)
  ELSE IF gap < WinnerMargin
    THEN Outcome("probe_more", {}, <<>>, "collect_evidence", <<first, second>>)
  ELSE Outcome("winner", {first}, <<>>, "integrate_winner", <<first>>)

(* The pairs of viable finalists that are complementary, as indexes.       *)
Complements(prepared, response, order) ==
  LET viable == Viable(prepared)
  IN  {p \in Pairs(Len(prepared)) :
         /\ prepared[p[1]].status = "viable" /\ prepared[p[2]].status = "viable"
         /\ response.pairs[PairKey(Asked(viable, order, prepared[p[1]]),
                                   Asked(viable, order, prepared[p[2]]))]}

(* The decision on finalists that were judged.  The winner is a set of at  *)
(* most one finalist.                                                      *)
DecidedResult(prepared, judged, complements) ==
  LET With(s)   == {n \in DOMAIN prepared : judged[n].status = s}
      dominated == Dominated(prepared, With("eligible"))
      rivals    == With("eligible") \ dominated
      accepted  == BestFirst([n \in rivals |-> judged[n].score])
      Ids(ns)   == [k \in DOMAIN ns |-> prepared[ns[k]].id]
      best      == IF rivals = {} THEN <<>> ELSE <<prepared[accepted[1]].id>>
      outcome   ==
        IF With("incomplete") # {}
          THEN Outcome("probe_more", {}, <<>>, "collect_evidence", Ids(InOrder(With("incomplete"))))
        ELSE IF With("review") # {}
          THEN Outcome("human_review", {}, <<>>, "ask_human", best \o Ids(InOrder(With("review"))))
        ELSE IF rivals = {}
          THEN Outcome("no_winner", {}, <<>>, "revise_ideas", <<>>)
        ELSE IF Cardinality(rivals) = 1
          THEN Outcome("winner", ToSet(best), <<>>, "integrate_winner", best)
        ELSE Comparison(prepared[accepted[1]].id, prepared[accepted[2]].id,
                        judged[accepted[1]].score - judged[accepted[2]].score,
                        PairKey(accepted[1], accepted[2]) \in complements)
  IN  [decision  |-> outcome.decision,
       winner    |-> outcome.winner,
       merge     |-> outcome.merge,
       next      |-> outcome.next,
       eligible  |-> Ids(accepted),
       dominated |-> {prepared[n].id : n \in dominated},
       status    |-> [n \in DOMAIN prepared |->
                        IF n \in dominated THEN "rejected" ELSE judged[n].status]]

(* decideCampaign.                                                         *)
DecideCampaign(prepared, response, order) ==
  DecidedResult(prepared, Evaluations(prepared, response, order),
                Complements(prepared, response, order))
=============================================================================
