---------------------------- MODULE MCSubscription ----------------------------
(***************************************************************************)
(* Small instances of Subscription for TLC.                                *)
(***************************************************************************)
EXTENDS Subscription

CONSTANTS w1, w2, p1, p2

MCDays == [pl \in Plans |-> 3]
=============================================================================
