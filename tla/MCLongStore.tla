----------------------------- MODULE MCLongStore -----------------------------
(* Instances of LongStore for TLC.                                         *)
EXTENDS LongStore

CONSTANTS a, b, x, y, c, d, r

Draft(key, payload) == [key |-> key, payload |-> payload]

(* Single events, a batch of two, one that reuses a key with another       *)
(* payload, and one that repeats a key.                                    *)
MixedBatches ==
  {<<Draft(a, x)>>, <<Draft(a, x), Draft(b, x)>>, <<Draft(b, x), Draft(a, y)>>,
   <<Draft(b, x), Draft(b, x)>>}

PlainBatches == {<<Draft(a, x)>>, <<Draft(a, x), Draft(b, x)>>}

Scene(processes, deaths, writes, pids) ==
  [users |-> processes, crashes |-> deaths, write_errors |-> writes, lock_errors |-> pids]

(* A command and a caller, one of which may die; a caller on its own that  *)
(* may leave a lock without a pid behind.                                  *)
IngestScenes == {Scene({c, d} \cup Readers, 1, 1, 0), Scene({d}, 0, 1, 1)}

CommandScenes == {Scene({c, d} \cup Readers, 1, 0, 0)}

(* A lock left behind, by a death or by a pid that was not written, and    *)
(* two others to recover it.                                               *)
DeadScenes == {Scene(Procs, 1, 0, 0)}
LeftScenes == {Scene({c, d}, 0, 0, 1)}
=============================================================================
