----------------------------- MODULE MCBackOffice -----------------------------
(***************************************************************************)
(* A small instance of BackOffice for TLC: two resellers, three payments   *)
(* of two referred sellers, two requests to pay with one reference, two    *)
(* flash sales.                                                            *)
(***************************************************************************)
EXTENDS BackOffice, TLC

CONSTANTS r1, r2, w1, w2, f1, f2, f3, s1, s2, b1, b2, k1, v1, v2, h1

MCSellerOf   == f1 :> s1 @@ f2 :> s1 @@ f3 :> s2
MCCommission == f1 :> 1 @@ f2 :> 1 @@ f3 :> 2

Interchangeable ==
  Permutations(Resellers) \cup Permutations(Grantors) \cup Permutations(Sales)
===============================================================================
