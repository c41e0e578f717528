-------------------------- MODULE MCEvidenceLedger --------------------------
(* Instances of EvidenceLedger for TLC.                                    *)
EXTENDS EvidenceLedger

CONSTANTS o1, m1, e1, a1, a2, r1, r2, p1

Commands ==
  [kind: {"command"}, id: Observations, ok: BOOLEAN, ms: {0, 1}, required: BOOLEAN,
   complete: {TRUE}, links: SUBSET Claims, replace: BOOLEAN]

Measurements ==
  {op \in [kind: {"metric"}, id: Metrics, criterion: Requirements, good: BOOLEAN,
           result: Statuses \cup {NoId}, links: SUBSET Claims, replace: BOOLEAN] :
     op.result \in {PassOrFail(op.good), "unknown", NoId}}

Files ==
  {op \in [kind: {"artifact"}, id: Artifacts, good: BOOLEAN, evaluation: Evaluations \cup {NoId},
           criterion: Requirements \cup {NoId}, result: Statuses, links: SUBSET Claims,
           replace: BOOLEAN] :
     op.result = PassOrFail(op.good)}

AllOps == Commands \cup Measurements \cup Files
=============================================================================
