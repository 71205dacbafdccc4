----------------------------- MODULE MCLedger ------------------------------
(***************************************************************************)
(* Two processes, one of them with two threads that append.                *)
(***************************************************************************)
EXTENDS Ledger

CONSTANTS a, b, w1, w2, w3

BothLedgers == {a, b}
ThreeWriters == {w1, w2, w3}
WriterLedgers == [w \in ThreeWriters |-> IF w = w3 THEN b ELSE a]

=============================================================================
