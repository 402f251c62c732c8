----------------------------- MODULE MCSettlement -----------------------------
(***************************************************************************)
(* Small instances of Settlement for TLC.                                  *)
(***************************************************************************)
EXTENDS Settlement, TLC

CONSTANTS l1, l2, w1, w2

MCMargin == [l \in Lines |-> 1]

Interchangeable == Permutations({l1, l2})
=============================================================================
