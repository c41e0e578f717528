---------------------------- MODULE MCAlertWatch ----------------------------
(* Instances of AlertWatch for TLC.                                        *)
EXTENDS AlertWatch

Report(type, path, failure, tokens, garbled) ==
  [type |-> type, path |-> path, failure |-> failure, call |-> NoCall, garbled |-> garbled,
   spent |-> [m \in Measures |-> IF m = "provider_tokens" THEN tokens ELSE 0]]

(* A sign of life, a failing test, and a change of a protected file with   *)
(* its tokens and a duration that is not one.                              *)
Reports ==
  {Report("heartbeat", NoPath, NoFailure, 0, FALSE),
   Report("test_result", NoPath, "tests", 0, FALSE),
   Report("file_change", "api", NoFailure, 1, TRUE)}

Budget == [m \in Measures \cup {"tool_calls"} |-> IF m = "wall_ms" THEN 9 ELSE 2]
=============================================================================
