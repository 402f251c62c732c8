--------------------------- MODULE AllocationProofs ---------------------------
(***************************************************************************)
(* Proofs about Allocation, for any finite set of resellers and any set of *)
(* workers.                                                                *)
(***************************************************************************)
EXTENDS Allocation, SumLemmas

(* DeleteProduct drops a product that was never ordered: its units are all *)
(* on the shelf only because no order holds one.                           *)
NoneOutUnordered == \A r \in Resellers : r \notin ordered => out[r] = 0

AllocationInv == AllocationTypeOK /\ UnitsAccounted /\ NoneOutUnordered

LEMMA AllocationInitial == AllocationInit => AllocationInv
  <1> SUFFICES ASSUME AllocationInit PROVE AllocationInv
    OBVIOUS
  <1>1. AllocationTypeOK
    BY DEF AllocationInit, AllocationTypeOK, InviteStatuses
  <1>2. UnitsAccounted /\ NoneOutUnordered
    BY DEF AllocationInit, UnitsAccounted, NoneOutUnordered
  <1> QED
    BY <1>1, <1>2 DEF AllocationInv

(* A step that leaves the units alone keeps what is said of them. *)
LEMMA UnitsKept ==
  ASSUME AllocationInv, UNCHANGED unitVars
  PROVE  UnitsAccounted' /\ NoneOutUnordered'
  BY DEF AllocationInv, unitVars, UnitsAccounted, NoneOutUnordered

LEMMA InvitesStep ==
  ASSUME AllocationInv, NEW r \in Resellers, NEW status \in InviteStatuses,
         SetInvite(r, status)
  PROVE  AllocationInv'
  <1>1. AllocationTypeOK'
    BY DEF AllocationInv, AllocationTypeOK, SetInvite, catalogVars, unitVars
  <1> QED
    BY <1>1, UnitsKept DEF AllocationInv, SetInvite

LEMMA CheckStep ==
  ASSUME AllocationInv, NEW w \in Grantors, NEW g \in Grants,
         grant' = [grant EXCEPT ![w] = g],
         UNCHANGED <<catalogVars, partyVars, unitVars>>
  PROVE  AllocationInv'
  <1>1. AllocationTypeOK'
    BY DEF AllocationInv, AllocationTypeOK, catalogVars, partyVars, unitVars
  <1> QED
    BY <1>1, UnitsKept DEF AllocationInv

LEMMA GrantCommitStep ==
  ASSUME AllocationInv, NEW w \in Grantors, GrantCommit(w)
  PROVE  AllocationInv'
  <1>1. grant[w] \in Grants
    BY DEF AllocationInv, AllocationTypeOK, GrantCommit
  <1> DEFINE r == grant[w].reseller
             q == grant[w].qty
  <1>2. r \in Resellers /\ q \in Nat
    BY <1>1, MaxStockAssumption DEF Grants
  <1>3. /\ imported' = imported \cup {r}
        /\ allocated' = [allocated EXCEPT ![r] = @ + q]
        /\ shelf' = [shelf EXCEPT ![r] = @ + q]
        /\ grant' = [grant EXCEPT ![w] = NoGrant]
        /\ UNCHANGED <<total, offered, wholesaler, over, invite, out, ordered>>
    BY DEF GrantCommit, MoveStock, catalogVars, partyVars
  <1> HIDE DEF r, q
  <1>4. AllocationTypeOK'
    BY <1>2, <1>3 DEF AllocationInv, AllocationTypeOK
  <1>5. UnitsAccounted' /\ NoneOutUnordered'
    BY <1>2, <1>3 DEF AllocationInv, AllocationTypeOK, UnitsAccounted, NoneOutUnordered
  <1> QED
    BY <1>4, <1>5 DEF AllocationInv

LEMMA TakeBackStep ==
  ASSUME AllocationInv, NEW r \in Resellers, NEW q \in 1..MaxStock, TakeBack(r, q)
  PROVE  AllocationInv'
  <1>1. /\ q \in Nat /\ q <= shelf[r]
        /\ allocated' = [allocated EXCEPT ![r] = @ + -q]
        /\ shelf' = [shelf EXCEPT ![r] = @ + -q]
        /\ UNCHANGED <<total, offered, wholesaler, over, invite, imported, out, ordered, grant>>
    BY MaxStockAssumption
    DEF AllocationInv, AllocationTypeOK, TakeBack, Unsold, MoveStock, catalogVars, partyVars
  <1>2. AllocationTypeOK'
    BY <1>1 DEF AllocationInv, AllocationTypeOK
  <1>3. UnitsAccounted' /\ NoneOutUnordered'
    BY <1>1 DEF AllocationInv, AllocationTypeOK, UnitsAccounted, NoneOutUnordered
  <1> QED
    BY <1>2, <1>3 DEF AllocationInv

LEMMA ShopStep ==
  ASSUME AllocationInv, NEW r \in Resellers, NEW q \in 1..MaxStock,
         Reserve(r, q) \/ Release(r, q)
  PROVE  AllocationInv'
  <1>0. q \in Nat
    BY MaxStockAssumption
  <1>1. CASE Reserve(r, q)
    <2>1. /\ q <= shelf[r]
          /\ shelf' = [shelf EXCEPT ![r] = @ - q]
          /\ out' = [out EXCEPT ![r] = @ + q]
          /\ ordered' = ordered \cup {r}
          /\ UNCHANGED <<total, offered, wholesaler, over, invite, imported, allocated, grant>>
      BY <1>1 DEF Reserve, catalogVars, partyVars
    <2>2. AllocationTypeOK'
      BY <1>0, <2>1 DEF AllocationInv, AllocationTypeOK
    <2>3. UnitsAccounted' /\ NoneOutUnordered'
      BY <1>0, <2>1 DEF AllocationInv, AllocationTypeOK, UnitsAccounted, NoneOutUnordered
    <2> QED
      BY <2>2, <2>3 DEF AllocationInv
  <1>2. CASE Release(r, q)
    <2>1. /\ q <= out[r]
          /\ shelf' = [shelf EXCEPT ![r] = @ + q]
          /\ out' = [out EXCEPT ![r] = @ - q]
          /\ UNCHANGED <<total, offered, wholesaler, over, invite, imported, allocated, ordered, grant>>
      BY <1>2 DEF Release, catalogVars, partyVars
    <2>2. AllocationTypeOK'
      BY <1>0, <2>1 DEF AllocationInv, AllocationTypeOK
    <2>3. UnitsAccounted' /\ NoneOutUnordered'
      BY <1>0, <2>1 DEF AllocationInv, AllocationTypeOK, UnitsAccounted, NoneOutUnordered
    <2> QED
      BY <2>2, <2>3 DEF AllocationInv
  <1> QED
    BY <1>1, <1>2

(* Units disappear with a product only when no order holds one of them. *)
LEMMA DeleteProductStep ==
  ASSUME AllocationInv, NEW r \in Resellers, DeleteProduct(r)
  PROVE  AllocationInv'
  <1>1. /\ r \notin ordered
        /\ imported' = imported \ {r}
        /\ allocated' = [allocated EXCEPT ![r] = 0]
        /\ shelf' = [shelf EXCEPT ![r] = 0]
        /\ UNCHANGED <<total, offered, wholesaler, over, invite, out, ordered, grant>>
    BY DEF DeleteProduct, catalogVars, partyVars
  <1>2. AllocationTypeOK'
    BY <1>1 DEF AllocationInv, AllocationTypeOK
  <1>3. UnitsAccounted' /\ NoneOutUnordered'
    BY <1>1 DEF AllocationInv, AllocationTypeOK, UnitsAccounted, NoneOutUnordered
  <1> QED
    BY <1>2, <1>3 DEF AllocationInv

LEMMA OfficeStep ==
  ASSUME AllocationInv, UpdateCatalog \/ PartyChanges
  PROVE  AllocationInv'
  <1>1. UNCHANGED unitVars
    BY DEF UpdateCatalog, PartyChanges
  <1>2. CASE UpdateCatalog
    BY <1>1, <1>2, UnitsKept
    DEF UpdateCatalog, AllocationInv, AllocationTypeOK, partyVars, unitVars
  <1>3. CASE PartyChanges
    BY <1>1, <1>3, UnitsKept
    DEF PartyChanges, AllocationInv, AllocationTypeOK, catalogVars, unitVars
  <1> QED
    BY <1>2, <1>3

LEMMA AllocationInductive ==
  AllocationInv /\ [AllocationNext]_allocationVars => AllocationInv'
  <1> SUFFICES ASSUME AllocationInv, [AllocationNext]_allocationVars PROVE AllocationInv'
    OBVIOUS
  <1>1. CASE UpdateCatalog \/ PartyChanges
    BY <1>1, OfficeStep
  <1>2. ASSUME NEW w \in Grantors, GrantCommit(w) PROVE AllocationInv'
    BY <1>2, GrantCommitStep
  <1>3. ASSUME NEW r \in Resellers, InviteReseller(r) \/ RevokeInvite(r) \/ AnswerInvite(r)
        PROVE  AllocationInv'
    <2>1. PICK status \in InviteStatuses : SetInvite(r, status)
      BY <1>3 DEF InviteReseller, RevokeInvite, AnswerInvite, InviteStatuses
    <2> QED
      BY <2>1, InvitesStep
  <1>4. ASSUME NEW r \in Resellers, DeleteProduct(r) PROVE AllocationInv'
    BY <1>4, DeleteProductStep
  <1>5. ASSUME NEW r \in Resellers, NEW w \in Grantors, ImportCheck(w, r)
        PROVE  AllocationInv'
    <2>1. [at |-> "import", reseller |-> r, qty |-> 0] \in Grants
      BY MaxStockAssumption DEF Grants
    <2> QED
      BY <1>5, <2>1, CheckStep DEF ImportCheck
  <1>6. ASSUME NEW r \in Resellers, NEW q \in 1..MaxStock,
               TakeBack(r, q) \/ Reserve(r, q) \/ Release(r, q)
        PROVE  AllocationInv'
    BY <1>6, TakeBackStep, ShopStep
  <1>7. ASSUME NEW r \in Resellers, NEW q \in 1..MaxStock, NEW w \in Grantors,
               AllocateCheck(w, r, q)
        PROVE  AllocationInv'
    <2>1. [at |-> "allocate", reseller |-> r, qty |-> q] \in Grants
      BY MaxStockAssumption DEF Grants
    <2> QED
      BY <1>7, <2>1, CheckStep DEF AllocateCheck
  <1>8. CASE UNCHANGED allocationVars
    BY <1>8 DEF allocationVars, catalogVars, partyVars, unitVars, AllocationInv,
       AllocationTypeOK, UnitsAccounted, NoneOutUnordered
  <1> QED
    BY <1>1, <1>2, <1>3, <1>4, <1>5, <1>6, <1>7, <1>8 DEF AllocationNext

LEMMA AllocationAlways == AllocationSpec => []AllocationInv
  BY AllocationInitial, AllocationInductive, PTL DEF AllocationSpec

(* Every variable keeps its type: no number of units is ever negative out  *)
(* of the orders, for any number of resellers and of workers.              *)
THEOREM AllocationTypes == AllocationSpec => []AllocationTypeOK
  <1>1. AllocationInv => AllocationTypeOK
    BY DEF AllocationInv
  <1> QED
    BY <1>1, AllocationAlways, PTL

(* Allocated units are on the shelf or in an order, in every interleaving  *)
(* of allocate, take_back, orders and cancellations.                       *)
THEOREM UnitsAreAccounted == AllocationSpec => []UnitsAccounted
  <1>1. AllocationInv => UnitsAccounted
    BY DEF AllocationInv
  <1> QED
    BY <1>1, AllocationAlways, PTL

(***************************************************************************)
(* The stock of the wholesaler.                                            *)
(***************************************************************************)
(* The lock of the wholesale product: one transaction at a time has        *)
(* checked what it commits, and what it checked still fits.                *)
OneGrant ==
  \A v, w \in Grantors : grant[v] # NoGrant /\ grant[w] # NoGrant => v = w

GrantFits ==
  \A w \in Grantors : grant[w] # NoGrant => Allocated + grant[w].qty <= total

CatalogInv == OneGrant /\ GrantFits /\ WithinCatalog

LEMMA AllocatedIsSum == Allocated = SumOver(allocated, Resellers)
  BY DEF Allocated, SumOver

LEMMA AllocatedType == ASSUME AllocationTypeOK PROVE Allocated \in Int /\ total \in Int
  <1>1. \A r \in Resellers : allocated[r] \in Int
    BY DEF AllocationTypeOK
  <1>2. SumOver(allocated, Resellers) \in Int
    BY <1>1, ResellersAssumption, SumType
  <1> QED
    BY <1>2, AllocatedIsSum DEF AllocationTypeOK

(* The allocation of one reseller changes the sum by as much. *)
LEMMA AllocatedAfter ==
  ASSUME AllocationTypeOK, NEW r \in Resellers, NEW v \in Int,
         allocated' = [allocated EXCEPT ![r] = v]
  PROVE  Allocated' = Allocated - allocated[r] + v
  <1> DEFINE after == [allocated EXCEPT ![r] = v]
  <1>1. \A s \in Resellers : allocated[s] \in Int /\ after[s] \in Int
    BY DEF AllocationTypeOK
  <1>2. after[r] = v /\ \A s \in Resellers : s # r => after[s] = allocated[s]
    BY DEF AllocationTypeOK
  <1>3. allocated' = after
    OBVIOUS
  <1> HIDE DEF after
  <1>4. SumOver(after, Resellers) = SumOver(allocated, Resellers) - allocated[r] + after[r]
    BY <1>1, <1>2, ResellersAssumption, SumChange
  <1>5. (Allocated = SumOver(allocated, Resellers))'
    BY AllocatedIsSum, PTL
  <1> QED
    BY <1>2, <1>3, <1>4, <1>5, AllocatedIsSum

LEMMA AllocatedKept == ASSUME UNCHANGED allocated PROVE Allocated' = Allocated
  <1>1. (Allocated = SumOver(allocated, Resellers))'
    BY AllocatedIsSum, PTL
  <1> QED
    BY <1>1, AllocatedIsSum

LEMMA CatalogInitial == AllocationInit => CatalogInv
  <1> SUFFICES ASSUME AllocationInit PROVE CatalogInv
    OBVIOUS
  <1>1. OneGrant /\ GrantFits
    BY DEF AllocationInit, OneGrant, GrantFits
  <1>2. Allocated = 0
    <2>1. allocated = [r \in Resellers |-> 0]
      BY DEF AllocationInit
    <2>2. \A r \in Resellers : allocated[r] = 0
      BY <2>1
    <2>3. SumOver(allocated, Resellers)
            = SumOver(allocated, Resellers) + SumOver(allocated, Resellers)
      BY <2>2, ResellersAssumption, SumOfSums
    <2>4. AllocationTypeOK
      BY AllocationInitial DEF AllocationInv
    <2> QED
      BY <2>3, <2>4, AllocatedType, AllocatedIsSum
  <1>3. total \in Nat
    BY MaxStockAssumption DEF AllocationInit
  <1> QED
    BY <1>1, <1>2, <1>3 DEF CatalogInv, WithinCatalog

LEMMA CatalogQuiet ==
  ASSUME CatalogInv, UNCHANGED <<total, allocated, grant>>
  PROVE  CatalogInv'
  BY AllocatedKept DEF CatalogInv, OneGrant, GrantFits, WithinCatalog

(* A transaction that checked: what it read still holds when it commits.   *)
LEMMA CatalogCheck ==
  ASSUME AllocationInv, CatalogInv, NEW w \in Grantors, NEW g \in Grants,
         CatalogFree, Allocated + g.qty <= total,
         grant' = [grant EXCEPT ![w] = g],
         UNCHANGED <<total, allocated>>
  PROVE  CatalogInv'
  <1>1. \A v \in Grantors : grant'[v] = IF v = w THEN g ELSE NoGrant
    BY DEF AllocationInv, AllocationTypeOK, CatalogFree
  <1> QED
    BY <1>1, AllocatedKept DEF CatalogInv, OneGrant, GrantFits, WithinCatalog

LEMMA CatalogCommit ==
  ASSUME AllocationInv, CatalogInv, NEW w \in Grantors, GrantCommit(w)
  PROVE  CatalogInv'
  <1> DEFINE r == grant[w].reseller
             q == grant[w].qty
             v == allocated[r] + q
  <1>1. grant[w] \in Grants
    BY DEF AllocationInv, AllocationTypeOK, GrantCommit
  <1>2. r \in Resellers /\ q \in Nat /\ allocated[r] \in Int
    BY <1>1, MaxStockAssumption DEF Grants, AllocationInv, AllocationTypeOK
  <1>3. Allocated + q <= total
    BY DEF GrantCommit, CatalogInv, GrantFits
  <1>4. allocated' = [allocated EXCEPT ![r] = v] /\ total' = total
    BY DEF GrantCommit, MoveStock, catalogVars
  <1>5. \A u \in Grantors : grant'[u] = NoGrant
    BY DEF GrantCommit, CatalogInv, OneGrant, AllocationInv, AllocationTypeOK
  <1> HIDE DEF r, q
  <1>6. v \in Int
    BY <1>2
  <1> HIDE DEF v
  <1>7. AllocationTypeOK /\ r \in Resellers
    BY <1>2 DEF AllocationInv
  <1>8. Allocated' = Allocated - allocated[r] + v
    BY <1>4, <1>6, <1>7, AllocatedAfter
  <1>9. Allocated \in Int /\ total \in Int
    BY AllocatedType DEF AllocationInv
  <1>10. Allocated' <= total'
    BY <1>2, <1>3, <1>4, <1>8, <1>9 DEF v
  <1> QED
    BY <1>5, <1>10 DEF CatalogInv, OneGrant, GrantFits, WithinCatalog

(* An allocation that falls leaves room, whoever else is allocating. *)
LEMMA CatalogLess ==
  ASSUME AllocationInv, CatalogInv, NEW r \in Resellers, NEW v \in Int, v <= allocated[r],
         allocated' = [allocated EXCEPT ![r] = v],
         UNCHANGED <<total, grant>>
  PROVE  CatalogInv'
  <1>1. Allocated' = Allocated - allocated[r] + v
    BY AllocatedAfter DEF AllocationInv
  <1>2. Allocated \in Int /\ total \in Int /\ allocated[r] \in Int
    BY AllocatedType DEF AllocationInv, AllocationTypeOK
  <1>3. Allocated' \in Int /\ Allocated' <= Allocated
    BY <1>1, <1>2
  <1>4. GrantFits'
    <2> SUFFICES ASSUME NEW w \in Grantors, grant[w] # NoGrant
                 PROVE  Allocated' + grant[w].qty <= total
      BY DEF GrantFits
    <2>1. grant[w] \in Grants
      BY DEF AllocationInv, AllocationTypeOK
    <2>2. grant[w].qty \in Nat
      BY <2>1, MaxStockAssumption DEF Grants
    <2>3. Allocated + grant[w].qty <= total
      BY DEF CatalogInv, GrantFits
    <2> QED
      BY <1>2, <1>3, <2>2, <2>3
  <1>5. OneGrant' /\ WithinCatalog'
    BY <1>2, <1>3 DEF CatalogInv, OneGrant, WithinCatalog
  <1> QED
    BY <1>4, <1>5 DEF CatalogInv

LEMMA CatalogInductive ==
  AllocationInv /\ CatalogInv /\ [AllocationNext]_allocationVars => CatalogInv'
  <1> SUFFICES ASSUME AllocationInv, CatalogInv, [AllocationNext]_allocationVars
               PROVE  CatalogInv'
    OBVIOUS
  <1>0. Allocated \in Int /\ total \in Int
    BY AllocatedType DEF AllocationInv
  <1>1. CASE UpdateCatalog
    <2>1. Allocated <= total' /\ UNCHANGED <<allocated, grant>> /\ CatalogFree
      BY <1>1 DEF UpdateCatalog, unitVars
    <2> QED
      BY <2>1, AllocatedKept
      DEF CatalogFree, CatalogInv, OneGrant, GrantFits, WithinCatalog
  <1>2. ASSUME NEW w \in Grantors, GrantCommit(w) PROVE CatalogInv'
    BY <1>2, CatalogCommit
  <1>3. ASSUME NEW r \in Resellers, NEW w \in Grantors, ImportCheck(w, r)
        PROVE  CatalogInv'
    <2> DEFINE g == [at |-> "import", reseller |-> r, qty |-> 0]
    <2>1. g \in Grants /\ g.qty = 0
      BY MaxStockAssumption DEF Grants
    <2>2. /\ CatalogFree
          /\ grant' = [grant EXCEPT ![w] = g]
          /\ UNCHANGED <<total, allocated>>
      BY <1>3 DEF ImportCheck, catalogVars, unitVars
    <2> HIDE DEF g
    <2>3. Allocated + g.qty <= total
      BY <1>0, <2>1 DEF CatalogInv, WithinCatalog
    <2> QED
      BY <2>1, <2>2, <2>3, CatalogCheck
  <1>4. ASSUME NEW r \in Resellers, NEW q \in 1..MaxStock, NEW w \in Grantors,
               AllocateCheck(w, r, q)
        PROVE  CatalogInv'
    <2> DEFINE g == [at |-> "allocate", reseller |-> r, qty |-> q]
    <2>1. g \in Grants /\ g.qty = q /\ q \in Nat
      BY MaxStockAssumption DEF Grants
    <2>2. /\ CatalogFree /\ q <= Available
          /\ grant' = [grant EXCEPT ![w] = g]
          /\ UNCHANGED <<total, allocated>>
      BY <1>4 DEF AllocateCheck, catalogVars, unitVars
    <2> HIDE DEF g
    <2>3. Allocated + g.qty <= total
      BY <1>0, <2>1, <2>2 DEF Available, CatalogInv, WithinCatalog
    <2> QED
      BY <2>1, <2>2, <2>3, CatalogCheck
  <1>5. ASSUME NEW r \in Resellers, NEW q \in 1..MaxStock, TakeBack(r, q) PROVE CatalogInv'
    <2>1. q \in Nat /\ allocated[r] \in Int
      BY MaxStockAssumption DEF AllocationInv, AllocationTypeOK
    <2>2. allocated' = [allocated EXCEPT ![r] = allocated[r] + -q] /\ UNCHANGED <<total, grant>>
      BY <1>5 DEF TakeBack, MoveStock, catalogVars
    <2>3. allocated[r] + -q \in Int /\ allocated[r] + -q <= allocated[r]
      BY <2>1
    <2> QED
      BY <2>2, <2>3, CatalogLess
  <1>6. ASSUME NEW r \in Resellers, DeleteProduct(r) PROVE CatalogInv'
    <2>1. 0 <= allocated[r]
      BY DEF AllocationInv, AllocationTypeOK, UnitsAccounted
    <2>2. allocated' = [allocated EXCEPT ![r] = 0] /\ UNCHANGED <<total, grant>>
      BY <1>6 DEF DeleteProduct, catalogVars
    <2> DEFINE none == 0
    <2>3. none \in Int /\ none <= allocated[r] /\ allocated' = [allocated EXCEPT ![r] = none]
      BY <2>1, <2>2
    <2> HIDE DEF none
    <2> QED
      BY <2>2, <2>3, CatalogLess
  <1>7. ASSUME NEW r \in Resellers, InviteReseller(r) \/ RevokeInvite(r) \/ AnswerInvite(r)
        PROVE  CatalogInv'
    BY <1>7, CatalogQuiet
    DEF InviteReseller, RevokeInvite, AnswerInvite, SetInvite, catalogVars, unitVars
  <1>8. ASSUME NEW r \in Resellers, NEW q \in 1..MaxStock, Reserve(r, q) \/ Release(r, q)
        PROVE  CatalogInv'
    BY <1>8, CatalogQuiet DEF Reserve, Release, catalogVars
  <1>9. CASE PartyChanges \/ UNCHANGED allocationVars
    BY <1>9, CatalogQuiet DEF PartyChanges, allocationVars, catalogVars, unitVars
  <1> QED
    BY <1>1, <1>2, <1>3, <1>4, <1>5, <1>6, <1>7, <1>8, <1>9 DEF AllocationNext

LEMMA CatalogAlways == AllocationSpec => []CatalogInv
  BY CatalogInitial, CatalogInductive, AllocationAlways, PTL DEF AllocationSpec

(* The allocations to all resellers together stay within the stock of the  *)
(* wholesaler: allocate reads what is available, and the wholesaler may    *)
(* lower the stock, between the reading and the commit of another.         *)
THEOREM AllocationsWithinCatalog == AllocationSpec => []WithinCatalog
  <1>1. CatalogInv => WithinCatalog
    BY DEF CatalogInv
  <1> QED
    BY <1>1, CatalogAlways, PTL

(* The resellers together never show or promise a unit the wholesaler does *)
(* not have: what is on their shelves and in their orders comes out of his *)
(* stock, however orders, cancellations and allocations interleave.        *)
UnitsWithinCatalog == SumOver(shelf, Resellers) + SumOver(out, Resellers) <= total

(* No interleaving oversells the stock of the wholesaler: from the two     *)
(* theorems above, as a sum of sums.                                       *)
THEOREM UnitsAreWithinCatalog == AllocationSpec => []UnitsWithinCatalog
  <1>1. AllocationInv /\ CatalogInv => UnitsWithinCatalog
    <2> SUFFICES ASSUME AllocationInv, CatalogInv PROVE UnitsWithinCatalog
      OBVIOUS
    <2>1. \A r \in Resellers :
            shelf[r] \in Int /\ out[r] \in Int /\ allocated[r] = shelf[r] + out[r]
      BY DEF AllocationInv, AllocationTypeOK, UnitsAccounted
    <2>2. SumOver(allocated, Resellers) = SumOver(shelf, Resellers) + SumOver(out, Resellers)
      BY <2>1, ResellersAssumption, SumOfSums
    <2> QED
      BY <2>2, AllocatedIsSum DEF CatalogInv, WithinCatalog, UnitsWithinCatalog
  <1> QED
    BY <1>1, AllocationAlways, CatalogAlways, PTL
=============================================================================
