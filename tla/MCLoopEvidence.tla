--------------------------- MODULE MCLoopEvidence ---------------------------
(* Instances of LoopEvidence for TLC.  A scene says who records what, on   *)
(* which heads, whether the builder edits the file, what is in focus, and  *)
(* which judges answer.                                                    *)
EXTENDS LoopEvidence

CONSTANTS tests, bench, look, feel, s, o1, m1, e1, e2, e3, f, m2, p, q, h1, h2

Command(ok, ms, links, replace) ==
  [kind |-> "command", id |-> o1, ok |-> ok, ms |-> ms, links |-> links, replace |-> replace]

Samples(id, value, enough, result, replace) ==
  [kind |-> "metric", id |-> id, criterion |-> bench, value |-> value, enough |-> enough,
   head |-> NoId, result |-> result, replace |-> replace]

Evaluated(id, status, criterion) ==
  [kind |-> "artifact", id |-> id, artifact |-> f, status |-> status, criterion |-> criterion,
   replace |-> FALSE]

Commands  == [x \in Hard |-> {o1}]
Artifacts == [x \in Judged |-> {f}]

(* Two recorders, one of which may die, compete for the file of a round    *)
(* that may end meanwhile.                                                 *)
TwoRecorders ==
  [procs |-> {p, q},
   ops   |-> {Command(TRUE, 1, {tests}, TRUE), Samples(m1, 1, TRUE, "pass", FALSE)},
   heads |-> {h1}, modes |-> {"progress"}, focuses |-> {{tests}}, edits |-> {},
   providers |-> {}, plans |-> {}, rounds |-> 2, deaths |-> 1, overlap |-> TRUE]

(* A builder who edits heads and claims around one recorder, whose command *)
(* is replaced under other claims.                                         *)
Replaced ==
  [procs |-> {p},
   ops   |-> {Command(TRUE, 1, {tests, s}, FALSE), Command(FALSE, 2, {tests}, TRUE), Command(TRUE, 1, {}, TRUE)},
   heads |-> {h1, h2}, modes |-> {"progress"}, focuses |-> {{tests}}, edits |-> {tests},
   providers |-> {}, plans |-> {}, rounds |-> 1, deaths |-> 0, overlap |-> FALSE]

(* The same for samples, which may be replaced under an old result.        *)
Resampled ==
  [procs |-> {p},
   ops   |-> {Samples(m1, 1, TRUE, "pass", FALSE), Samples(m1, 0, TRUE, NoId, TRUE), Samples(m2, 1, TRUE, NoId, FALSE)},
   heads |-> {h1, h2}, modes |-> {"progress"}, focuses |-> {{bench}}, edits |-> {bench},
   providers |-> {}, plans |-> {}, rounds |-> 1, deaths |-> 0, overlap |-> FALSE]

(* A round that may complete the loop, whose artifact may be evaluated a   *)
(* second time with another result.                                        *)
Completing ==
  [procs |-> {p},
   ops   |-> {Command(TRUE, 1, {tests, s}, FALSE), Samples(m1, 1, TRUE, "pass", FALSE),
              Evaluated(e1, "pass", look), Evaluated(e2, "pass", feel), Evaluated(e3, "fail", look)},
   heads |-> {h1}, modes |-> {"completion"}, focuses |-> {{look}}, edits |-> {look},
   providers |-> {"jev"}, plans |-> {}, rounds |-> 1, deaths |-> 0, overlap |-> FALSE]

(* Every judge is asked about one or two criteria by an audit, and about a *)
(* pair by another command of the process.                                 *)
Judges ==
  [procs |-> {}, ops |-> {}, heads |-> {h1}, modes |-> {"progress"}, focuses |-> {{look}, {look, feel}},
   edits |-> {}, providers |-> {"local", "semif", "jev", "replay"},
   plans |-> {[finalists |-> <<look, feel>>, about |-> <<{2}, {1, 2}>>]},
   rounds |-> 1, deaths |-> 0, overlap |-> FALSE]

AllScenes == {TwoRecorders, Replaced, Resampled, Completing, Judges}

GivenAnswers == {[score |-> 0, confidence |-> 2], [score |-> 2, confidence |-> 2]}

SpecOrder == <<look, feel>>
=============================================================================
