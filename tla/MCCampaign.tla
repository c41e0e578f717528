----------------------------- MODULE MCCampaign -----------------------------
(* Instances of Campaign for TLC.                                          *)
EXTENDS Campaign

Card(status, score) ==
  [risk |-> status \in {"risk", "risk_unsure"}, weak |-> status = "weak",
   confident |-> status \notin {"unsure", "risk_unsure"}, score |-> score]

PairsOf(S) == {pair \in SUBSET S : Cardinality(pair) = 2}

-----------------------------------------------------------------------------
(* Three candidates, asked about in an order that is not that of their     *)
(* names, with every kind of card and every pair a duplicate or not.       *)
SiftCards ==
  {Card("risk_unsure", 2), Card("unsure", 2), Card("weak", 1), Card("good", 1), Card("good", 2)}

SiftSessions ==
  [request: {<<2, 3, 1>>, <<1, 3, 2>>}, max: {1, 2},
   judge: [card: [1..3 -> SiftCards], pairs: SUBSET PairsOf(1..3)]]

(* Four candidates, the good ones of which may fill the campaign, so that  *)
(* a reconsidered one finds it full.                                       *)
CrowdedSessions ==
  [request: {<<2, 3, 1, 4>>}, max: {2, 3},
   judge: [card: [1..4 -> {Card("good", 2), Card("unsure", 2)}], pairs: {{}}]]

(* What the second judgment of a candidate may be.                         *)
Reconsidered == {Card("good", 1), Card("unsure", 1), Card("weak", 1), Card("risk", 1)}

-----------------------------------------------------------------------------
(* Three finalists whose evidence and judgment differ.                     *)
AllKept(request) ==
  {[request |-> request, max |-> Len(request),
    judge |-> [card |-> [c \in ToSet(request) |-> Card("good", 1)], pairs |-> {}]]}

DecideSessions == AllKept(<<3, 1, 2>>)

Spending(wall, tokens, cost) ==
  [r \in Resources |-> CASE r = "tokens" -> tokens [] r = "cost_usd" -> cost [] OTHER -> wall]

Measured(gain, wall, tokens, cost) ==
  [status |-> "viable", gain |-> <<gain>>, spent |-> Spending(wall, tokens, cost)]

SomeEvidence ==
  {[status |-> "rejected", gain |-> <<>>, spent |-> Spending(1, 1, 1)],
   Measured(1, 1, 1, 1), Measured(2, 2, 1, 1), Measured(1, 2, 2, NoValue)}

(* Gaps on either side of both margins, none of them on a margin.          *)
DecideCards ==
  {Card("unsure", 59), Card("weak", 59), Card("good", 50), Card("good", 59), Card("good", 61), Card("good", 63)}

SomeOpinions == [card: [1..3 -> DecideCards], pairs: SUBSET PairsOf(1..3)]

-----------------------------------------------------------------------------
(* The campaigns that are sifted and reconsidered, and those that collect  *)
(* evidence and are decided.                                               *)
AllSessions == SiftSessions \cup CrowdedSessions \cup DecideSessions

EvidenceOf(s) == IF s \in DecideSessions THEN SomeEvidence ELSE {}

OpinionsOf(s) == IF s \in DecideSessions THEN SomeOpinions ELSE {}

-----------------------------------------------------------------------------
(* Four equal finalists that differ in what they account for.              *)
FourSessions == AllKept(<<1, 2, 3, 4>>)

Accounts(s) ==
  {Measured(1, 1, 1, NoValue), Measured(1, 1, 2, 1), Measured(1, 1, NoValue, 2), Measured(1, 1, 0, 3)}

FourOpinions(s) == {[card |-> [c \in 1..4 |-> Card("good", 58)], pairs |-> {}]}
=============================================================================
