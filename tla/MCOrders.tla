------------------------------- MODULE MCOrders -------------------------------
(***************************************************************************)
(* Small instances of Orders for TLC.                                      *)
(***************************************************************************)
EXTENDS Orders, TLC

CONSTANTS r1, r2, s1, w1, w2

(* r1 wants one unit of product 1; r2 one unit of products 1 and 2. *)
MCQuantity == [r \in Requests |-> [p \in Products |-> IF p = 1 \/ (p = 2 /\ r = r2) THEN 1 ELSE 0]]
MCSaleOf   == [r \in Requests |-> s1]

MCLevels == [p \in Products |-> IF p = 1 THEN {1, 2} ELSE {1}]
ZeroOrOne == [p \in Products |-> IF p = 1 THEN {0, 1} ELSE {1}]
OneUnit  == [p \in Products |-> {1}]

NoBatches  == {}
BothProducts == {Products}

WebSymmetry == Permutations({w1, w2})
=============================================================================
