------------------------------ MODULE Inventory ------------------------------
(***************************************************************************)
(* What the stock of HayaFlash promises, without locks, sessions or rows:  *)
(* a request holds its whole basket or nothing, a basket is taken out of   *)
(* the stock once and comes back at most once, and the seller may correct  *)
(* the stock of any product.  Module Orders is shown to implement it.      *)
(***************************************************************************)
EXTENDS Integers

CONSTANTS Requests,   \* order requests, one per client_request_id
          Products,   \* catalogue products
          Quantity    \* Quantity[r][p]: units of p in the basket of r

VARIABLES stock,      \* stock[p]: units that can still be ordered
          phase       \* phase[r]: where the basket of r is

invVars == <<stock, phase>>

InventoryInit ==
  /\ stock \in [Products -> Nat]
  /\ phase = [r \in Requests |-> "none"]

(* An order takes the whole basket, and only when the stock covers it. *)
Reserve(r) ==
  /\ phase[r] = "none"
  /\ \A p \in Products : stock[p] >= Quantity[r][p]
  /\ stock' = [p \in Products |-> stock[p] - Quantity[r][p]]
  /\ phase' = [phase EXCEPT ![r] = "held"]

(* A cancelled or expired order gives the whole basket back, once. *)
Return(r) ==
  /\ phase[r] = "held"
  /\ stock' = [p \in Products |-> stock[p] + Quantity[r][p]]
  /\ phase' = [phase EXCEPT ![r] = "returned"]

(* A delivered order keeps its basket for good. *)
Sell(r) ==
  /\ phase[r] = "held"
  /\ phase' = [phase EXCEPT ![r] = "sold"]
  /\ UNCHANGED stock

(* The seller sets the stock of some products to what she counts. *)
Correct ==
  /\ stock' \in [Products -> Nat]
  /\ UNCHANGED phase

InventoryNext ==
  \/ \E r \in Requests : Reserve(r) \/ Return(r) \/ Sell(r)
  \/ Correct

InventorySpec == InventoryInit /\ [][InventoryNext]_invVars

=============================================================================
