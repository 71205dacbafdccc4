----------------------------- MODULE MCGateway -----------------------------
(***************************************************************************)
(* Two processes, with two calls in progress at one and one at the other.  *)
(***************************************************************************)
EXTENDS Gateway

CONSTANTS g1, g2, c1, c2, d1

BothProcesses == {g1, g2}
ThreeCalls == {c1, c2, d1}
CallHomes == [c \in ThreeCalls |-> IF c = d1 THEN g2 ELSE g1]

=============================================================================
