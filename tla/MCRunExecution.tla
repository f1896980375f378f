--------------------------- MODULE MCRunExecution ---------------------------
(* Two workers for TLC; the clock of w1 is a tick ahead of that of w2.     *)
EXTENDS RunExecution

CONSTANTS w1, w2

MCSkew == [w \in Worker |-> IF w = w1 THEN 1 ELSE 0]
MCNoSkew == [w \in Worker |-> 0]

=============================================================================
