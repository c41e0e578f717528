--------------------------- MODULE MCEvidenceFile ---------------------------
(* Instances of EvidenceFile for TLC.                                      *)
EXTENDS EvidenceFile

CONSTANTS o1, m1, r1, p, q, s

Command(ok, ms, links, replace) ==
  [kind |-> "command", id |-> o1, ok |-> ok, ms |-> ms, required |-> TRUE,
   complete |-> TRUE, links |-> links, replace |-> replace]

Metric(good, result, replace) ==
  [kind |-> "metric", id |-> m1, criterion |-> r1, good |-> good, result |-> result,
   links |-> {r1}, replace |-> replace]

(* A command that claims an id and one that takes it over, and a metric    *)
(* that competes with both for the status of the claim.                    *)
CompetingOps ==
  {Command(TRUE, 0, {r1}, FALSE), Command(FALSE, 1, {}, TRUE),
   Metric(TRUE, "pass", FALSE), Metric(FALSE, "fail", TRUE)}

OneOp == {Command(TRUE, 0, {r1}, FALSE)}
=============================================================================
