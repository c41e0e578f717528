------------------------------ MODULE MCJevLoop ------------------------------
(* Instances of JevLoop for TLC: the clients and budgets of the runs.      *)
EXTENDS JevLoop

CONSTANTS c1, c2

OneTotal   == {<<2, 5>>}
TwoTotals  == {<<2, 5>>, <<4, 1>>}
FreeTokens == {0}
SomeTokens == {0, 1}
=============================================================================
