------------------------------ MODULE Allocation ------------------------------
(***************************************************************************)
(* Stock a wholesaler allocates to resellers, for one wholesale product    *)
(* (distrib/services/allocation.py, catalog.py and invites.py).            *)
(*                                                                         *)
(* The units allocated to a reseller are the stock of a product of that    *)
(* reseller's shop: orders take them (orders/services/create_order.py) and *)
(* give them back (stock_release.py) while the wholesaler allocates more   *)
(* or takes back what is unsold.  An import and an allocation lock the row *)
(* of the wholesale product, then read the invitation, the suspension and  *)
(* the ceilings, which they do not lock: grant[w] is a transaction between *)
(* these readings and its commit.  What else a function does under the     *)
(* lock of the wholesale product is one action.                            *)
(*                                                                         *)
(* Abstractions: prices are left out, as is stock_initial, which follows   *)
(* allocated_qty; of the units of the orders their number is kept.         *)
(***************************************************************************)
EXTENDS Integers, FiniteSetsExt

CONSTANTS
  Resellers,  \* numbers on the wholesaler's list
  Grantors,   \* web workers that serve imports and allocations
  MaxStock    \* bound on the stock of the wholesale product

ASSUME MaxStockAssumption == MaxStock \in Nat

ASSUME ResellersAssumption == IsFiniteSet(Resellers)

VARIABLES
  total,       \* WholesaleProduct.stock_total
  offered,     \* WholesaleProduct.is_active
  wholesaler,  \* Distributor.is_active and is_suspended
  over,        \* resellers a ceiling blocks (services/ceilings.py)
  invite,      \* invite[r]: ResellerInvite.status
  imported,    \* resellers with an ImportedProduct
  allocated,   \* allocated[r]: ImportedProduct.allocated_qty
  shelf,       \* shelf[r]: Product.stock_available
  out,         \* out[r]: units of r's product in orders not cancelled
  ordered,     \* resellers whose product was ever ordered
  grant        \* grant[w]: a transaction that has checked, not committed

catalogVars == <<total, offered>>
partyVars   == <<wholesaler, over, invite>>
unitVars    == <<imported, allocated, shelf, out, ordered>>
allocationVars == <<catalogVars, partyVars, unitVars, grant>>

InviteStatuses == {"none", "invited", "accepted", "declined", "revoked"}
NoGrant == [at |-> "idle"]
Grants  == [at: {"import", "allocate"}, reseller: Resellers, qty: 0..MaxStock]

AllocationInit ==
  /\ total \in 0..MaxStock
  /\ offered = TRUE
  /\ wholesaler = "active"
  /\ over = {}
  /\ invite = [r \in Resellers |-> "none"]
  /\ imported = {}
  /\ allocated = [r \in Resellers |-> 0]
  /\ shelf = [r \in Resellers |-> 0]
  /\ out = [r \in Resellers |-> 0]
  /\ ordered = {}
  /\ grant = [w \in Grantors |-> NoGrant]

(* No transaction holds the row of the wholesale product, of r's product. *)
CatalogFree    == \A w \in Grantors : grant[w] = NoGrant
ProductFree(r) == \A w \in Grantors : grant[w] # NoGrant => grant[w].reseller # r

Allocated   == MapThenSumSet(LAMBDA r : allocated[r], Resellers)
Available   == IF total > Allocated THEN total - Allocated ELSE 0

(* _assert_new_stock_allowed *)
NewStockAllowed(r) ==
  /\ wholesaler = "active"
  /\ invite[r] = "accepted"
  /\ r \notin over

(***************************************************************************)
(* Invitations.                                                            *)
(***************************************************************************)
SetInvite(r, status) ==
  /\ invite' = [invite EXCEPT ![r] = status]
  /\ UNCHANGED <<catalogVars, wholesaler, over, unitVars, grant>>

InviteReseller(r) == invite[r] \in {"none", "declined", "revoked"} /\ SetInvite(r, "invited")

RevokeInvite(r) == invite[r] \in {"invited", "accepted"} /\ SetInvite(r, "revoked")

AnswerInvite(r) ==
  /\ invite[r] = "invited"
  /\ wholesaler # "inactive"
  /\ \E answer \in {"accepted", "declined"} : SetInvite(r, answer)

(***************************************************************************)
(* Imports and allocations.                                                *)
(***************************************************************************)
ImportCheck(w, r) ==
  /\ CatalogFree
  /\ NewStockAllowed(r)
  /\ offered
  /\ r \notin imported
  /\ grant' = [grant EXCEPT ![w] = [at |-> "import", reseller |-> r, qty |-> 0]]
  /\ UNCHANGED <<catalogVars, partyVars, unitVars>>

(* Mutation: the row of the wholesale product is not locked. *)
AllocateUnlocked(w, r, q) ==
  /\ grant[w] = NoGrant
  /\ r \in imported
  /\ ProductFree(r)
  /\ NewStockAllowed(r)
  /\ q <= Available
  /\ grant' = [grant EXCEPT ![w] = [at |-> "allocate", reseller |-> r, qty |-> q]]
  /\ UNCHANGED <<catalogVars, partyVars, unitVars>>

AllocateCheck(w, r, q) ==
  /\ CatalogFree
  /\ r \in imported
  /\ NewStockAllowed(r)
  /\ q <= Available
  /\ grant' = [grant EXCEPT ![w] = [at |-> "allocate", reseller |-> r, qty |-> q]]
  /\ UNCHANGED <<catalogVars, partyVars, unitVars>>

(* _move_stock *)
MoveStock(r, delta) ==
  /\ allocated' = [allocated EXCEPT ![r] = @ + delta]
  /\ shelf' = [shelf EXCEPT ![r] = @ + delta]
  /\ UNCHANGED <<catalogVars, partyVars, out, ordered>>

(* An import commits a product without stock. *)
GrantCommit(w) ==
  /\ grant[w] # NoGrant
  /\ imported' = imported \cup {grant[w].reseller}
  /\ MoveStock(grant[w].reseller, grant[w].qty)
  /\ grant' = [grant EXCEPT ![w] = NoGrant]

(* Mutation: the limit forgets what the shop has already sold. *)
AllAllocated(r) == allocated[r]

(* What take_back may take: never more than what is unsold. *)
Unsold(r) == IF shelf[r] < allocated[r] THEN shelf[r] ELSE allocated[r]

TakeBack(r, q) ==
  /\ CatalogFree
  /\ r \in imported
  /\ q <= Unsold(r)
  /\ MoveStock(r, -q)
  /\ UNCHANGED <<imported, grant>>

(* update_wholesale_product *)
UpdateCatalog ==
  /\ CatalogFree
  /\ \E stock \in 0..MaxStock : Allocated <= stock /\ total' = stock
  /\ offered' \in BOOLEAN
  /\ UNCHANGED <<partyVars, unitVars, grant>>

(***************************************************************************)
(* The shop of the reseller, and the team.                                 *)
(***************************************************************************)
Reserve(r, q) ==
  /\ ProductFree(r)
  /\ r \in imported
  /\ q <= shelf[r]
  /\ shelf' = [shelf EXCEPT ![r] = @ - q]
  /\ out' = [out EXCEPT ![r] = @ + q]
  /\ ordered' = ordered \cup {r}
  /\ UNCHANGED <<catalogVars, partyVars, imported, allocated, grant>>

(* Mutation: the units of an order may be given back twice. *)
ReleaseAgain(r, q) ==
  /\ ProductFree(r)
  /\ r \in imported
  /\ shelf' = [shelf EXCEPT ![r] = @ + q]
  /\ out' = [out EXCEPT ![r] = @ - q]
  /\ UNCHANGED <<catalogVars, partyVars, imported, allocated, ordered, grant>>

(* release_order_stock: what an order took, less what it gave back. *)
Release(r, q) ==
  /\ ProductFree(r)
  /\ q <= out[r]
  /\ shelf' = [shelf EXCEPT ![r] = @ + q]
  /\ out' = [out EXCEPT ![r] = @ - q]
  /\ UNCHANGED <<catalogVars, partyVars, imported, allocated, ordered, grant>>

(* delete_product: orders protect a product, and deleting it takes its    *)
(* import and its journal along.                                           *)
DeleteProduct(r) ==
  /\ ProductFree(r)
  /\ r \in imported \ ordered
  /\ imported' = imported \ {r}
  /\ allocated' = [allocated EXCEPT ![r] = 0]
  /\ shelf' = [shelf EXCEPT ![r] = 0]
  /\ UNCHANGED <<catalogVars, partyVars, out, ordered, grant>>

(* The team suspends or closes the account; debts pass their ceilings, or *)
(* are paid.                                                               *)
PartyChanges ==
  /\ wholesaler' \in {"active", "suspended", "inactive"}
  /\ over' \in SUBSET Resellers
  /\ UNCHANGED <<catalogVars, invite, unitVars, grant>>

AllocationNext ==
  \/ UpdateCatalog
  \/ PartyChanges
  \/ \E w \in Grantors : GrantCommit(w)
  \/ \E r \in Resellers :
       \/ InviteReseller(r) \/ RevokeInvite(r) \/ AnswerInvite(r)
       \/ DeleteProduct(r)
       \/ \E w \in Grantors : ImportCheck(w, r)
       \/ \E q \in 1..MaxStock :
            \/ TakeBack(r, q) \/ Reserve(r, q) \/ Release(r, q)
            \/ \E w \in Grantors : AllocateCheck(w, r, q)

AllocationSpec == AllocationInit /\ [][AllocationNext]_allocationVars

-----------------------------------------------------------------------------
AllocationTypeOK ==
  /\ total \in 0..MaxStock
  /\ offered \in BOOLEAN
  /\ wholesaler \in {"active", "suspended", "inactive"}
  /\ over \subseteq Resellers
  /\ invite \in [Resellers -> InviteStatuses]
  /\ imported \subseteq Resellers
  /\ allocated \in [Resellers -> Int]
  /\ shelf \in [Resellers -> Int]
  /\ out \in [Resellers -> Nat]
  /\ ordered \subseteq Resellers
  /\ grant \in [Grantors -> {NoGrant} \cup Grants]

(* Every unit allocated is on the reseller's shelf or in an order, however *)
(* allocations, take-backs, orders and cancellations interleave: a         *)
(* take-back never takes a unit a customer has ordered.                    *)
UnitsAccounted ==
  \A r \in Resellers : shelf[r] >= 0 /\ allocated[r] = shelf[r] + out[r]

(* The allocations to all resellers together never exceed the stock of the *)
(* wholesaler, though each reads what is available before it writes and    *)
(* the wholesaler may lower that stock.                                    *)
WithinCatalog == Allocated <= total
=============================================================================
