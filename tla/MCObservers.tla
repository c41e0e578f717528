----------------------------- MODULE MCObservers -----------------------------
(* Instances of SessionRegistry for TLC.                                   *)
EXTENDS SessionRegistry

CONSTANTS a, b, d, e, p, q, k

Job(digest) == [round |-> 1, digest |-> digest]

Imported(digest) == [key |-> 1, payload |-> [source |-> "imported", digest |-> digest]]

(* Two processes bridge the first round, one perhaps with the wrong        *)
(* digests, while an adapter may take its key.                             *)
Bridging ==
  [jobs |-> [x \in Bridges |-> Job(IF x = a THEN d ELSE e)], imports |-> {Imported(d)},
   rounds |-> 2, time |-> 3, faults |-> 2,
   commands |-> {}, presses |-> {}, sessions |-> {}, found |-> {}, open |-> FALSE, runs |-> 0]

(* The same without a quarrel about the digests.                           *)
Twice == [Bridging EXCEPT !.jobs = [x \in Bridges |-> Job(d)]]

(* A loop whose commands, switches and cockpit all write its record.       *)
Switches ==
  [jobs |-> [x \in Bridges |-> NoJob], imports |-> {}, rounds |-> 2, time |-> 1, faults |-> 1,
   commands |-> {p, q}, presses |-> {k}, sessions |-> {"loop"}, found |-> {}, open |-> TRUE,
   runs |-> 2]

(* A loop and the Long session it is bridged into, in one cockpit.         *)
Both ==
  [jobs |-> [x \in Bridges |-> IF x = a THEN Job(d) ELSE NoJob], imports |-> {},
   rounds |-> 1, time |-> 1, faults |-> 1,
   commands |-> {p}, presses |-> {}, sessions |-> {"loop", "long"}, found |-> {"loop", "long"},
   open |-> TRUE, runs |-> 1]

(* A session without a store, registered again and switched.               *)
Hosts == [Switches EXCEPT !.sessions = {"host"}, !.rounds = 0]

AllScenes == {Bridging, Twice, Switches, Both, Hosts}
=============================================================================
