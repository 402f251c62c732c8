------------------------------ MODULE MarginDebt ------------------------------
(***************************************************************************)
(* What the settlement of resellers promises about one margin, whatever    *)
(* lines, statements and payouts it is made of                             *)
(* (distrib/services/settlement.py and statements.py).                     *)
(*                                                                         *)
(* A margin is earned when the sale is confirmed.  The wholesaler then     *)
(* owes it, claims to have paid it, and is discharged when the reseller    *)
(* says so or says nothing.  A contested claim leaves the margin owed.     *)
(***************************************************************************)
CONSTANTS Lines

VARIABLES debt   \* debt[l]: how the margin of l stands

Debts == {"none", "owed", "claimed", "settled"}

DebtTypeOK == debt \in [Lines -> Debts]

DebtInit == debt = [l \in Lines |-> "none"]

(* Any number of margins may move at once: a statement gathers them. *)
Move(from, to, ls) ==
  /\ ls # {}
  /\ \A l \in ls : debt[l] = from
  /\ debt' = [l \in Lines |-> IF l \in ls THEN to ELSE debt[l]]

Earn(l)     == Move("none", "owed", {l})
(* A correction of the team, or an order cancelled after a presumption. *)
Lose(l)     == Move("owed", "none", {l})
Claim(ls)   == Move("owed", "claimed", ls)
Dispute(ls) == Move("claimed", "owed", ls)
Receive(ls) == Move("claimed", "settled", ls)
(* The team closes a statement that was contested twice. *)
Arbitrate(ls) == Move("owed", "settled", ls)

DebtNext ==
  \/ \E l \in Lines : Earn(l) \/ Lose(l)
  \/ \E ls \in SUBSET Lines : Claim(ls) \/ Dispute(ls) \/ Receive(ls) \/ Arbitrate(ls)

DebtSpec == DebtInit /\ [][DebtNext]_debt
=============================================================================
