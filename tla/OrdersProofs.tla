----------------------------- MODULE OrdersProofs -----------------------------
(***************************************************************************)
(* Proofs about Orders, for any number of requests, sales, products and    *)
(* sessions.                                                               *)
(***************************************************************************)
EXTENDS Orders, SumLemmas

(***************************************************************************)
(* The inductive invariant.                                                *)
(***************************************************************************)
(* What an open transaction knows of the rows it has locked. *)
Reserving(w) ==
  /\ tx[w].req \in Requests
  /\ tx[w].sale = SaleOf[tx[w].req]
  /\ orderable[tx[w].sale]
  /\ tx[w].todo \cup tx[w].held = Items(tx[w].req)
  /\ \A p \in tx[w].held : stock[p] >= Quantity[tx[w].req][p]

Returning(w) ==
  /\ tx[w].req \in Requests
  /\ status[tx[w].req] \in {"pending", "confirmed"}
  /\ delivery[tx[w].req] = "pending"
  /\ tx[w].todo \cup tx[w].held = Items(tx[w].req)
  /\ w = Beat => status[tx[w].req] = "pending" /\ tx[w].req \in old

TxOK(w) ==
  /\ tx[w].at \in {"idle", "lookup", "sale", "candidate"} => tx[w].todo = {} /\ tx[w].held = {}
  /\ tx[w].at \in {"lookup", "sale"} => tx[w].req \in Requests /\ tx[w].sale = SaleOf[tx[w].req]
  /\ tx[w].at = "candidate" => tx[w].req \in Requests
  /\ tx[w].at = "reserve" => Reserving(w)
  /\ tx[w].at = "release" => Returning(w)
  /\ tx[w].at = "edit" => tx[w].sale \in Sales
  /\ \A p \in tx[w].held, q \in tx[w].todo : p < q

(* No two sessions hold the same row. *)
Exclusive(w, v) ==
  /\ tx[w].held \cap tx[v].held = {}
  /\ tx[w].at = "reserve" /\ tx[v].at = "reserve" => tx[w].sale # tx[v].sale
  /\ tx[w].at = "release" /\ tx[v].at = "release" => tx[w].req # tx[v].req

TxInv ==
  /\ \A w \in Sessions : TxOK(w)
  /\ \A w, v \in Sessions : w # v => Exclusive(w, v)

(* The delivery of an unhonored order never goes back to pending. *)
UnhonoredInv == \A r \in unhonored : status[r] # "cancelled" /\ delivery[r] \notin {"none", "pending"}

DataInv ==
  /\ StockLedger
  /\ LedgerMatchesOrders
  /\ OrderMatchesDelivery
  /\ UnhonoredInv
  /\ AcceptedExists

IndInv == TypeOK /\ TxInv /\ DataInv

(***************************************************************************)
(* Lemmas about the operators of Orders.                                   *)
(***************************************************************************)
(* Opening a transaction changes only the session that opens it. *)
LEMMA OpenTx ==
  ASSUME tx \in [Sessions -> Transactions], NEW w \in Sessions, NEW point \in Points,
         NEW r \in Requests \cup {None}, NEW s \in Sales \cup {None}, NEW ps \in SUBSET Products,
         Open(w, point, r, s, ps)
  PROVE  /\ tx' \in [Sessions -> Transactions]
         /\ tx'[w] = [at |-> point, req |-> r, sale |-> s, todo |-> ps, held |-> {}]
         /\ \A v \in Sessions : v # w => tx'[v] = tx[v]
BY DEF Open, Transactions

(* Ending a transaction changes only its session, which is idle afterwards. *)
LEMMA CloseTx ==
  ASSUME tx \in [Sessions -> Transactions], NEW w \in Sessions, Close(w)
  PROVE  /\ tx' \in [Sessions -> Transactions]
         /\ tx'[w] = Idle
         /\ tx'[w].at = "idle" /\ tx'[w].todo = {} /\ tx'[w].held = {}
         /\ \A v \in Sessions : v # w => tx'[v] = tx[v]
BY DEF Close, Transactions, Idle, Points

(* Locking a product moves it from the rows to lock to the locked rows. *)
LEMMA HoldTx ==
  ASSUME tx \in [Sessions -> Transactions], NEW w \in Sessions, NEW p \in Products, Hold(w, p)
  PROVE  /\ tx' \in [Sessions -> Transactions]
         /\ tx'[w].at = tx[w].at /\ tx'[w].req = tx[w].req /\ tx'[w].sale = tx[w].sale
         /\ tx'[w].todo = tx[w].todo \ {p} /\ tx'[w].held = tx[w].held \cup {p}
         /\ \A v \in Sessions : v # w => tx'[v] = tx[v]
BY DEF Hold, Transactions

(* Lost or not, an answer is the answer of the request it answers. *)
LEMMA AnswerType ==
  ASSUME answer \in [Requests -> Answers], NEW r \in Requests, NEW reply \in Answers, Answer(r, reply)
  PROVE  /\ answer' \in [Requests -> Answers]
         /\ \A q \in Requests : answer'[q] = answer[q] \/ (q = r /\ answer'[q] = reply)
BY DEF Answer

(* An order that is alive owes exactly its basket. *)
LEMMA OwedItems ==
  ASSUME IndInv, NEW r \in Requests, status[r] \in {"pending", "confirmed"}
  PROVE  Owed(r) = Items(r)
<1>1. ASSUME NEW p \in Products
      PROVE  net[r][p] = - Quantity[r][p] /\ Quantity[r][p] \in Nat
  BY RequestsAssumption DEF IndInv, DataInv, LedgerMatchesOrders
<1>2. ASSUME NEW p \in Products
      PROVE  net[r][p] < 0 <=> Quantity[r][p] > 0
  BY <1>1
<1> QED
  BY <1>2 DEF Owed, Items

(***************************************************************************)
(* The invariant holds initially.                                          *)
(***************************************************************************)
(* The invariant holds in a database without orders. *)
LEMMA InitIndInv == Init => IndInv
<1> SUFFICES ASSUME Init PROVE IndInv
  OBVIOUS
<1>1. stock \in [Products -> Nat]
  BY ProductsAssumption DEF Init
<1>2. \A w \in Sessions : tx[w].at = "idle" /\ tx[w].todo = {} /\ tx[w].held = {}
  BY DEF Init, Idle
<1>3. TypeOK
  BY <1>1 DEF Init, TypeOK, Links, Statuses, Deliveries, Answers, Idle, Transactions, Points
<1>4. TxInv
  BY <1>2 DEF TxInv, TxOK, Exclusive
<1>5. DataInv
  BY <1>1 DEF Init, DataInv, StockLedger, LedgerMatchesOrders, OrderMatchesDelivery, UnhonoredInv, AcceptedExists
<1> QED
  BY <1>3, <1>4, <1>5 DEF IndInv

(***************************************************************************)
(* Steps that change only a transaction, and perhaps an answer.            *)
(***************************************************************************)
(* It is enough to look at the session that moves. *)
LEMMA TxStep ==
  ASSUME IndInv, UNCHANGED <<saleVars, stockVars, orderVars>>,
         NEW w \in Sessions,
         tx' \in [Sessions -> Transactions], \A v \in Sessions : v # w => tx'[v] = tx[v],
         answer' \in [Requests -> Answers], AcceptedExists',
         TxOK(w)', \A v \in Sessions : v # w => Exclusive(w, v)'
  PROVE  IndInv'
<1>1. TypeOK'
  BY DEF IndInv, TypeOK, saleVars, stockVars, orderVars
<1>2. DataInv'
  BY DEF IndInv, DataInv, StockLedger, LedgerMatchesOrders, OrderMatchesDelivery, UnhonoredInv,
         stockVars, orderVars
<1>3. ASSUME NEW v \in Sessions PROVE TxOK(v)'
  <2>1. CASE v = w
    BY <2>1
  <2>2. CASE v # w
    <3>1. TxOK(v)
      BY DEF IndInv, TxInv
    <3>2. tx'[v] = tx[v]
      BY <2>2
    <3> QED
      BY <3>1, <3>2 DEF TxOK, Reserving, Returning, saleVars, stockVars, orderVars
  <2> QED
    BY <2>1, <2>2
<1>4. ASSUME NEW u \in Sessions, NEW v \in Sessions, u # v PROVE Exclusive(u, v)'
  <2>1. Exclusive(u, v)
    BY <1>4 DEF IndInv, TxInv
  <2>2. CASE u = w
    BY <2>2, <1>4
  <2>3. CASE v = w
    <3>1. Exclusive(v, u)'
      BY <2>3, <1>4
    <3> QED
      BY <3>1 DEF Exclusive
  <2>4. CASE u # w /\ v # w
    <3>1. tx'[u] = tx[u] /\ tx'[v] = tx[v]
      BY <2>4
    <3> QED
      BY <2>1, <3>1 DEF Exclusive
  <2> QED
    BY <2>2, <2>3, <2>4
<1> QED
  BY <1>1, <1>2, <1>3, <1>4 DEF IndInv, TxInv

(* A session that closes its transaction holds nothing: that is always safe. *)
LEMMA ClosingTx ==
  ASSUME tx \in [Sessions -> Transactions], NEW w \in Sessions, Close(w)
  PROVE  TxOK(w)' /\ \A v \in Sessions : v # w => Exclusive(w, v)'
<1>1. tx'[w].at = "idle" /\ tx'[w].todo = {} /\ tx'[w].held = {}
  BY CloseTx
<1> QED
  BY <1>1 DEF TxOK, Exclusive

(* Dropping a transaction without a commit preserves the invariant. *)
LEMMA RollbackStep ==
  ASSUME IndInv, NEW w \in Sessions, Close(w), UNCHANGED <<saleVars, stockVars, orderVars>>,
         answer' \in [Requests -> Answers], AcceptedExists'
  PROVE  IndInv'
<1>1. tx \in [Sessions -> Transactions]
  BY DEF IndInv, TypeOK
<1>2. /\ tx' \in [Sessions -> Transactions]
      /\ \A v \in Sessions : v # w => tx'[v] = tx[v]
  BY <1>1, CloseTx
<1>3. TxOK(w)' /\ \A v \in Sessions : v # w => Exclusive(w, v)'
  BY <1>1, ClosingTx
<1> QED
  BY <1>2, <1>3, TxStep

(* A refusal never makes an accepted order out of an absent one. *)
LEMMA RefuseStep ==
  ASSUME IndInv, NEW w \in Sessions, tx[w].req \in Requests, Refuse(w)
  PROVE  IndInv'
<1>1. answer \in [Requests -> Answers] /\ AcceptedExists
  BY DEF IndInv, TypeOK, DataInv
<1>2. /\ answer' \in [Requests -> Answers]
      /\ \A q \in Requests : answer'[q] = answer[q] \/ answer'[q] = "refused"
  BY <1>1, AnswerType DEF Refuse, Answers
<1>3. AcceptedExists'
  BY <1>1, <1>2 DEF AcceptedExists, Refuse, orderVars
<1> QED
  BY <1>2, <1>3, RollbackStep DEF Refuse

(***************************************************************************)
(* One lemma per action.                                                   *)
(***************************************************************************)
(* A submission opens a transaction that holds nothing, or is refused. *)
LEMMA SubmitStep ==
  ASSUME IndInv, NEW w \in Sessions, NEW r \in Requests, Submit(w, r)
  PROVE  IndInv'
<1>1. /\ tx \in [Sessions -> Transactions]
      /\ answer \in [Requests -> Answers]
      /\ AcceptedExists
  BY DEF IndInv, TypeOK, DataInv
<1>2. SaleOf[r] \in Sales
  BY RequestsAssumption
<1>3. CASE Open(w, "lookup", r, SaleOf[r], {}) /\ UNCHANGED answer
  <2>1. /\ tx' \in [Sessions -> Transactions]
        /\ tx'[w] = [at |-> "lookup", req |-> r, sale |-> SaleOf[r], todo |-> {}, held |-> {}]
        /\ \A v \in Sessions : v # w => tx'[v] = tx[v]
    BY <1>1, <1>2, <1>3, OpenTx DEF Points
  <2>2. TxOK(w)' /\ \A v \in Sessions : v # w => Exclusive(w, v)'
    BY <2>1 DEF TxOK, Exclusive
  <2>3. answer' \in [Requests -> Answers] /\ AcceptedExists'
    BY <1>1, <1>3 DEF AcceptedExists, Submit, orderVars
  <2> QED
    BY <2>1, <2>2, <2>3, TxStep DEF Submit
<1>4. CASE (Answer(r, "refused") \/ Answer(r, "none")) /\ UNCHANGED tx
  <2>1. /\ answer' \in [Requests -> Answers]
        /\ \A q \in Requests : answer'[q] = answer[q] \/ answer'[q] \in {"refused", "none"}
    BY <1>1, <1>4, AnswerType DEF Answers
  <2>2. AcceptedExists'
    BY <1>1, <2>1 DEF AcceptedExists, Submit, orderVars
  <2>3. TxOK(w) /\ \A v \in Sessions : v # w => Exclusive(w, v)
    BY DEF IndInv, TxInv
  <2>4. TxOK(w)' /\ \A v \in Sessions : v # w => Exclusive(w, v)'
    BY <1>4, <2>3 DEF TxOK, Reserving, Returning, Exclusive, Submit, saleVars, stockVars, orderVars
  <2> QED
    BY <1>1, <1>4, <2>1, <2>2, <2>4, TxStep DEF Submit
<1> QED
  BY <1>3, <1>4 DEF Submit

(* A retry answers with the order it finds, so AcceptedExists is kept. *)
LEMMA LookupStep ==
  ASSUME IndInv, NEW w \in Sessions, Lookup(w)
  PROVE  IndInv'
<1>1. /\ tx \in [Sessions -> Transactions]
      /\ answer \in [Requests -> Answers]
      /\ AcceptedExists
      /\ TxOK(w)
  BY DEF IndInv, TypeOK, DataInv, TxInv
<1>2. tx[w].at = "lookup" /\ tx[w].req \in Requests /\ tx[w].sale = SaleOf[tx[w].req]
      /\ tx[w].todo = {} /\ tx[w].held = {}
  BY <1>1 DEF Lookup, TxOK
<1>3. CASE status[tx[w].req] = "absent"
  <2>1. /\ tx' \in [Sessions -> Transactions]
        /\ tx'[w].at = "sale" /\ tx'[w].req = tx[w].req /\ tx'[w].sale = tx[w].sale
        /\ tx'[w].todo = {} /\ tx'[w].held = {}
        /\ \A v \in Sessions : v # w => tx'[v] = tx[v]
    BY <1>1, <1>2, <1>3 DEF Lookup, Transactions, Points
  <2>2. TxOK(w)' /\ \A v \in Sessions : v # w => Exclusive(w, v)'
    BY <1>2, <2>1 DEF TxOK, Exclusive
  <2>3. answer' \in [Requests -> Answers] /\ AcceptedExists'
    BY <1>1, <1>3 DEF AcceptedExists, Lookup, orderVars
  <2> QED
    BY <2>1, <2>2, <2>3, TxStep DEF Lookup
<1>4. CASE status[tx[w].req] # "absent"
  <2>1. Close(w) /\ Answer(tx[w].req, "accepted")
    BY <1>4 DEF Lookup, Accept
  <2>2. /\ answer' \in [Requests -> Answers]
        /\ \A q \in Requests : answer'[q] = answer[q] \/ (q = tx[w].req /\ answer'[q] = "accepted")
    BY <1>1, <1>2, <2>1, AnswerType DEF Answers
  <2>3. AcceptedExists'
    BY <1>1, <1>4, <2>2 DEF AcceptedExists, Lookup, orderVars
  <2> QED
    BY <2>1, <2>2, <2>3, RollbackStep DEF Lookup
<1> QED
  BY <1>3, <1>4

(* The sale is locked only when free and only while it takes orders. *)
LEMMA LockSaleStep ==
  ASSUME IndInv, NEW w \in Sessions, LockSale(w)
  PROVE  IndInv'
<1> DEFINE r == tx[w].req
           s == tx[w].sale
<1>1. tx \in [Sessions -> Transactions] /\ TxOK(w)
  BY DEF IndInv, TypeOK, TxInv
<1>2. tx[w].at = "sale" /\ r \in Requests /\ s = SaleOf[r] /\ s \in Sales /\ SaleFree(s)
  BY <1>1, RequestsAssumption DEF LockSale, TxOK
<1>3. CASE Accepts(s) /\ NextListed(s, Items(r))
  <2>1. /\ Open(w, "reserve", r, s, Items(r))
        /\ UNCHANGED <<saleVars, stockVars, orderVars, answer>>
    BY <1>3 DEF LockSale
  <2>2. /\ tx' \in [Sessions -> Transactions]
        /\ tx'[w] = [at |-> "reserve", req |-> r, sale |-> s, todo |-> Items(r), held |-> {}]
        /\ \A v \in Sessions : v # w => tx'[v] = tx[v]
    <3>1. Items(r) \in SUBSET Products
      BY DEF Items
    <3> QED
      BY <1>1, <1>2, <2>1, <3>1, OpenTx DEF Points
  <2>3. TxOK(w)'
    BY <1>2, <1>3, <2>1, <2>2 DEF TxOK, Reserving, Accepts, saleVars, Items
  <2>4. ASSUME NEW v \in Sessions, v # w PROVE Exclusive(w, v)'
    BY <1>2, <2>2, <2>4 DEF Exclusive, SaleFree, HoldsSale
  <2>5. answer' \in [Requests -> Answers] /\ AcceptedExists'
    BY <2>1 DEF IndInv, TypeOK, DataInv, AcceptedExists, orderVars
  <2> QED
    BY <2>1, <2>2, <2>3, <2>4, <2>5, TxStep
<1>4. CASE ~ (Accepts(s) /\ NextListed(s, Items(r)))
  BY <1>2, <1>4, RefuseStep DEF LockSale
<1> QED
  BY <1>3, <1>4

(* Locking the smallest product left keeps the locks in order and apart. *)
LEMMA HoldKeepsOrder ==
  ASSUME IndInv, NEW w \in Sessions, NEW p \in Products, IsNext(p, tx[w].todo), ProductFree(p), Hold(w, p)
  PROVE  /\ \A q \in tx'[w].held, o \in tx'[w].todo : q < o
         /\ tx'[w].todo \cup tx'[w].held = tx[w].todo \cup tx[w].held
         /\ \A v \in Sessions : v # w => tx'[w].held \cap tx'[v].held = {}
<1>1. tx \in [Sessions -> Transactions] /\ TxOK(w) /\ \A v \in Sessions : v # w => Exclusive(w, v)
  BY DEF IndInv, TypeOK, TxInv
<1>2. /\ tx'[w].todo = tx[w].todo \ {p} /\ tx'[w].held = tx[w].held \cup {p}
      /\ \A v \in Sessions : v # w => tx'[v] = tx[v]
  BY <1>1, HoldTx
<1>3. ASSUME NEW q \in tx'[w].held, NEW o \in tx'[w].todo PROVE q < o
  <2>1. o \in tx[w].todo /\ o # p /\ p \in Nat /\ o \in Nat
    BY <1>1, <1>2, ProductsAssumption DEF Transactions
  <2>2. CASE q = p
    BY <2>1, <2>2 DEF IsNext
  <2>3. CASE q \in tx[w].held
    BY <1>1, <2>1, <2>3 DEF TxOK
  <2> QED
    BY <1>2, <2>2, <2>3
<1>4. tx'[w].todo \cup tx'[w].held = tx[w].todo \cup tx[w].held
  BY <1>2 DEF IsNext
<1>5. ASSUME NEW v \in Sessions, v # w PROVE tx'[w].held \cap tx'[v].held = {}
  BY <1>1, <1>2, <1>5 DEF Exclusive, ProductFree
<1> QED
  BY <1>3, <1>4, <1>5

(* A product is locked only when free and when it covers the order. *)
LEMMA ReserveNextStep ==
  ASSUME IndInv, NEW w \in Sessions, NEW p \in Products, ReserveNext(w, p)
  PROVE  IndInv'
<1>1. /\ tx \in [Sessions -> Transactions] /\ TxOK(w)
      /\ tx[w].at = "reserve" /\ IsNext(p, tx[w].todo) /\ ProductFree(p)
  BY DEF IndInv, TypeOK, TxInv, ReserveNext
<1>2. Reserving(w)
  BY <1>1 DEF TxOK
<1>3. CASE stock[p] >= Quantity[tx[w].req][p] /\ NextListed(tx[w].sale, tx[w].todo \ {p})
  <2>1. Hold(w, p) /\ UNCHANGED <<saleVars, stockVars, orderVars, answer>>
    BY <1>3 DEF ReserveNext
  <2>2. /\ tx' \in [Sessions -> Transactions]
        /\ tx'[w].at = "reserve" /\ tx'[w].req = tx[w].req /\ tx'[w].sale = tx[w].sale
        /\ tx'[w].held = tx[w].held \cup {p}
        /\ \A v \in Sessions : v # w => tx'[v] = tx[v]
    BY <1>1, <2>1, HoldTx
  <2>3. /\ \A q \in tx'[w].held, o \in tx'[w].todo : q < o
        /\ tx'[w].todo \cup tx'[w].held = tx[w].todo \cup tx[w].held
        /\ \A v \in Sessions : v # w => tx'[w].held \cap tx'[v].held = {}
    BY <1>1, <2>1, HoldKeepsOrder
  <2>4. Reserving(w)'
    BY <1>2, <1>3, <2>1, <2>2, <2>3 DEF Reserving, Items, saleVars, stockVars
  <2>5. TxOK(w)'
    BY <2>2, <2>3, <2>4 DEF TxOK
  <2>6. ASSUME NEW v \in Sessions, v # w PROVE Exclusive(w, v)'
    <3>1. Exclusive(w, v)
      BY <2>6 DEF IndInv, TxInv
    <3> QED
      BY <1>1, <2>2, <2>3, <2>6, <3>1 DEF Exclusive
  <2>7. answer' \in [Requests -> Answers] /\ AcceptedExists'
    BY <2>1 DEF IndInv, TypeOK, DataInv, AcceptedExists, orderVars
  <2> QED
    BY <2>1, <2>2, <2>5, <2>6, <2>7, TxStep
<1>4. CASE ~ (stock[p] >= Quantity[tx[w].req][p] /\ NextListed(tx[w].sale, tx[w].todo \ {p}))
  BY <1>2, <1>4, RefuseStep DEF ReserveNext, Reserving
<1> QED
  BY <1>3, <1>4

(* Steps that leave the answers alone keep what is known of them. *)
LEMMA SameAnswer ==
  ASSUME IndInv, UNCHANGED <<orderVars, answer>>
  PROVE  answer' \in [Requests -> Answers] /\ AcceptedExists'
BY DEF IndInv, TypeOK, DataInv, AcceptedExists, orderVars

(* Listing an order to expire takes no lock and writes nothing. *)
LEMMA PickStaleStep ==
  ASSUME IndInv, NEW r \in Requests, PickStale(r)
  PROVE  IndInv'
<1>1. /\ tx \in [Sessions -> Transactions] /\ Beat \in Sessions
      /\ Open(Beat, "candidate", r, None, {})
  BY SessionsAssumption DEF IndInv, TypeOK, PickStale
<1>2. /\ tx' \in [Sessions -> Transactions]
      /\ tx'[Beat] = [at |-> "candidate", req |-> r, sale |-> None, todo |-> {}, held |-> {}]
      /\ \A v \in Sessions : v # Beat => tx'[v] = tx[v]
  BY <1>1, OpenTx DEF Points
<1>3. TxOK(Beat)' /\ \A v \in Sessions : v # Beat => Exclusive(Beat, v)'
  BY <1>2 DEF TxOK, Exclusive
<1> QED
  BY <1>1, <1>2, <1>3, SameAnswer, TxStep DEF PickStale

(* Locking an order that is free, to return what it owes. *)
LEMMA OpenRelease ==
  ASSUME IndInv, NEW w \in Sessions, NEW r \in Requests, OrderFree(r),
         status[r] \in {"pending", "confirmed"}, delivery[r] = "pending",
         w = Beat => status[r] = "pending" /\ r \in old,
         Open(w, "release", r, None, Owed(r)),
         UNCHANGED <<saleVars, stockVars, orderVars, answer>>
  PROVE  IndInv'
<1>1. tx \in [Sessions -> Transactions]
  BY DEF IndInv, TypeOK
<1>2. Owed(r) = Items(r) /\ Items(r) \in SUBSET Products
  BY OwedItems DEF Items
<1>3. /\ tx' \in [Sessions -> Transactions]
      /\ tx'[w] = [at |-> "release", req |-> r, sale |-> None, todo |-> Items(r), held |-> {}]
      /\ \A v \in Sessions : v # w => tx'[v] = tx[v]
  BY <1>1, <1>2, OpenTx DEF Points
<1>4. TxOK(w)'
  BY <1>3 DEF TxOK, Returning, Items, orderVars
<1>5. ASSUME NEW v \in Sessions, v # w PROVE Exclusive(w, v)'
  BY <1>3, <1>5 DEF Exclusive, OrderFree, HoldsOrder
<1> QED
  BY <1>3, <1>4, <1>5, SameAnswer, TxStep

(* The order is locked only when free, still pending and too old. *)
LEMMA ExpireOneStep ==
  ASSUME IndInv, NEW r \in Requests, ExpireOne(r)
  PROVE  IndInv'
<1>1. CASE status[r] = "pending" /\ r \in old
  <2>1. delivery[r] = "pending"
    BY <1>1 DEF IndInv, TypeOK, DataInv, OrderMatchesDelivery, UnhonoredInv, Deliveries
  <2> QED
    BY <1>1, <2>1, SessionsAssumption, OpenRelease DEF ExpireOne
<1>2. CASE ~ (status[r] = "pending" /\ r \in old)
  BY <1>2, SessionsAssumption, SameAnswer, RollbackStep DEF ExpireOne
<1> QED
  BY <1>1, <1>2

(* The seller cancels only before the parcel has left. *)
LEMMA CancelBySellerStep ==
  ASSUME IndInv, NEW w \in Web, NEW r \in Requests, CancelBySeller(w, r)
  PROVE  IndInv'
<1>1. w \in Sessions /\ w # Beat
  BY DEF Web
<1> QED
  BY <1>1, OpenRelease DEF CancelBySeller

(* Locking a product to credit keeps the rows of sessions disjoint. *)
LEMMA ReleaseNextStep ==
  ASSUME IndInv, NEW w \in Sessions, NEW p \in Products, ReleaseNext(w, p)
  PROVE  IndInv'
<1>1. /\ tx \in [Sessions -> Transactions] /\ TxOK(w)
      /\ tx[w].at = "release" /\ IsNext(p, tx[w].todo) /\ ProductFree(p)
      /\ Hold(w, p) /\ UNCHANGED <<saleVars, stockVars, orderVars, answer>>
  BY DEF IndInv, TypeOK, TxInv, ReleaseNext
<1>2. Returning(w)
  BY <1>1 DEF TxOK
<1>3. /\ tx' \in [Sessions -> Transactions]
      /\ tx'[w].at = "release" /\ tx'[w].req = tx[w].req
      /\ \A v \in Sessions : v # w => tx'[v] = tx[v]
  BY <1>1, HoldTx
<1>4. /\ \A q \in tx'[w].held, o \in tx'[w].todo : q < o
      /\ tx'[w].todo \cup tx'[w].held = tx[w].todo \cup tx[w].held
      /\ \A v \in Sessions : v # w => tx'[w].held \cap tx'[v].held = {}
  BY <1>1, HoldKeepsOrder
<1>5. TxOK(w)'
  BY <1>1, <1>2, <1>3, <1>4 DEF TxOK, Returning, Items, orderVars
<1>6. ASSUME NEW v \in Sessions, v # w PROVE Exclusive(w, v)'
  <2>1. Exclusive(w, v)
    BY <1>6 DEF IndInv, TxInv
  <2> QED
    BY <1>1, <1>3, <1>4, <1>6, <2>1 DEF Exclusive
<1> QED
  BY <1>1, <1>3, <1>5, <1>6, SameAnswer, TxStep

(* A batch edit begins without any lock. *)
LEMMA OpenEditStep ==
  ASSUME IndInv, NEW w \in Sessions, NEW s \in Sales, NEW batch \in Batches, OpenEdit(w, s, batch)
  PROVE  IndInv'
<1>1. tx \in [Sessions -> Transactions] /\ batch \in SUBSET Products
  BY ProductsAssumption DEF IndInv, TypeOK
<1>2. /\ tx' \in [Sessions -> Transactions]
      /\ tx'[w] = [at |-> "edit", req |-> None, sale |-> s, todo |-> batch, held |-> {}]
      /\ \A v \in Sessions : v # w => tx'[v] = tx[v]
  BY <1>1, OpenTx DEF OpenEdit, Points
<1>3. TxOK(w)' /\ \A v \in Sessions : v # w => Exclusive(w, v)'
  BY <1>2 DEF TxOK, Exclusive
<1> QED
  BY <1>2, <1>3, SameAnswer, TxStep DEF OpenEdit

(* Locking a product to edit keeps the rows of sessions disjoint. *)
LEMMA LockForEditStep ==
  ASSUME IndInv, NEW w \in Sessions, NEW p \in Products, LockForEdit(w, p)
  PROVE  IndInv'
<1>1. /\ tx \in [Sessions -> Transactions] /\ TxOK(w)
      /\ tx[w].at = "edit" /\ IsNext(p, tx[w].todo) /\ ProductFree(p)
      /\ Hold(w, p) /\ UNCHANGED <<saleVars, stockVars, orderVars, answer>>
  BY DEF IndInv, TypeOK, TxInv, LockForEdit
<1>2. /\ tx' \in [Sessions -> Transactions]
      /\ tx'[w].at = "edit" /\ tx'[w].sale = tx[w].sale
      /\ \A v \in Sessions : v # w => tx'[v] = tx[v]
  BY <1>1, HoldTx
<1>3. /\ \A q \in tx'[w].held, o \in tx'[w].todo : q < o
      /\ \A v \in Sessions : v # w => tx'[w].held \cap tx'[v].held = {}
  BY <1>1, HoldKeepsOrder
<1>4. TxOK(w)' /\ \A v \in Sessions : v # w => Exclusive(w, v)'
  BY <1>1, <1>2, <1>3 DEF TxOK, Exclusive
<1> QED
  BY <1>1, <1>2, <1>4, SameAnswer, TxStep

(* A rollback forgets the transaction and writes nothing. *)
LEMMA AbortStep ==
  ASSUME IndInv, NEW w \in Sessions, Abort(w)
  PROVE  IndInv'
BY SameAnswer, RollbackStep DEF Abort

(***************************************************************************)
(* Commits that change orders and stock.                                   *)
(***************************************************************************)
(* A commit closes its own transaction and changes only rows it has        *)
(* locked, so the transactions of the other sessions stay as they are.     *)
LEMMA CommitStep ==
  ASSUME IndInv, NEW w \in Sessions, Close(w), UNCHANGED <<orderable, old>>,
         \A v \in Sessions : v # w =>
           /\ tx[v].at = "reserve" => \A p \in tx[v].held : stock'[p] = stock[p]
           /\ tx[v].at = "release" => /\ status'[tx[v].req] = status[tx[v].req]
                                      /\ delivery'[tx[v].req] = delivery[tx[v].req]
  PROVE  TxInv'
<1>1. tx \in [Sessions -> Transactions] /\ TxInv
  BY DEF IndInv, TypeOK
<1>2. /\ TxOK(w)' /\ \A v \in Sessions : v # w => Exclusive(w, v)'
      /\ \A v \in Sessions : v # w => tx'[v] = tx[v]
  BY <1>1, CloseTx, ClosingTx
<1>3. ASSUME NEW v \in Sessions PROVE TxOK(v)'
  <2>1. CASE v = w
    BY <1>2, <2>1
  <2>2. CASE v # w
    <3>1. TxOK(v) /\ tx'[v] = tx[v]
      BY <1>1, <1>2, <2>2 DEF TxInv
    <3>2. tx[v].at = "reserve" => Reserving(v)'
      BY <2>2, <3>1 DEF TxOK, Reserving
    <3>3. tx[v].at = "release" => Returning(v)'
      BY <2>2, <3>1 DEF TxOK, Returning
    <3> QED
      BY <3>1, <3>2, <3>3 DEF TxOK
  <2> QED
    BY <2>1, <2>2
<1>4. ASSUME NEW u \in Sessions, NEW v \in Sessions, u # v PROVE Exclusive(u, v)'
  <2>1. Exclusive(u, v)
    BY <1>1, <1>4 DEF TxInv
  <2>2. CASE u = w
    BY <1>2, <1>4, <2>2
  <2>3. CASE v = w
    <3>1. Exclusive(v, u)'
      BY <1>2, <1>4, <2>3
    <3> QED
      BY <3>1 DEF Exclusive
  <2>4. CASE u # w /\ v # w
    <3>1. tx'[u] = tx[u] /\ tx'[v] = tx[v]
      BY <1>2, <2>4
    <3> QED
      BY <2>1, <3>1 DEF Exclusive
  <2> QED
    BY <2>2, <2>3, <2>4
<1> QED
  BY <1>3, <1>4 DEF TxInv

(* The rows of a new order agree: stock, movements, status, delivery. *)
LEMMA AddOrderStep ==
  ASSUME IndInv, NEW w \in Sessions, tx[w].at = "reserve", tx[w].todo = {},
         status[tx[w].req] = "absent", \A p \in Products : stock[p] >= Quantity[tx[w].req][p],
         Accept(w), AddOrder(tx[w].req)
  PROVE  IndInv'
<1> DEFINE r == tx[w].req
<1>1. TypeOK /\ DataInv /\ TxOK(w) /\ \A v \in Sessions : v # w => Exclusive(w, v) /\ TxOK(v)
  BY DEF IndInv, TxInv
<1>2. /\ r \in Requests /\ tx[w].held = Items(r)
      /\ \A p \in Products : Quantity[r][p] \in Nat
  BY <1>1, RequestsAssumption DEF TxOK, Reserving
<1>3. /\ stock' \in [Products -> Nat] /\ moved' \in [Products -> Int]
      /\ net' \in [Requests -> [Products -> Int]]
      /\ \A p \in Products : stock'[p] = stock[p] - Quantity[r][p] /\ moved'[p] = moved[p] - Quantity[r][p]
      /\ \A p \in Products : net'[r][p] = - Quantity[r][p]
      /\ \A q \in Requests : q # r => net'[q] = net[q]
  BY <1>1, <1>2 DEF AddOrder, TypeOK
<1>4. /\ status' \in [Requests -> Statuses] /\ delivery' \in [Requests -> Deliveries]
      /\ status'[r] = "pending" /\ delivery'[r] = "pending"
      /\ \A q \in Requests : q # r => status'[q] = status[q] /\ delivery'[q] = delivery[q]
      /\ UNCHANGED <<saleVars, collected, unhonored, old>>
  BY <1>1, <1>2 DEF AddOrder, TypeOK, Statuses, Deliveries
<1>5. /\ answer' \in [Requests -> Answers]
      /\ \A q \in Requests : answer'[q] = answer[q] \/ (q = r /\ answer'[q] = "accepted")
  BY <1>1, <1>2, AnswerType DEF Accept, TypeOK, Answers
<1>6. tx' \in [Sessions -> Transactions]
  BY <1>1, CloseTx DEF Accept, TypeOK
<1>7. TypeOK'
  BY <1>1, <1>3, <1>4, <1>5, <1>6 DEF TypeOK, saleVars
<1>8. DataInv'
  <2>1. StockLedger'
    BY <1>1, <1>3 DEF DataInv, StockLedger
  <2>2. LedgerMatchesOrders'
    BY <1>1, <1>3, <1>4 DEF DataInv, LedgerMatchesOrders
  <2>3. r \notin unhonored /\ r \notin collected /\ delivery[r] = "none"
    BY <1>1, <1>2 DEF DataInv, OrderMatchesDelivery, UnhonoredInv
  <2>4. OrderMatchesDelivery'
    BY <1>1, <1>4, <2>3 DEF DataInv, OrderMatchesDelivery
  <2>5. UnhonoredInv'
    BY <1>1, <1>4, <2>3 DEF DataInv, UnhonoredInv, TypeOK
  <2>6. AcceptedExists'
    BY <1>1, <1>4, <1>5 DEF DataInv, AcceptedExists
  <2> QED
    BY <2>1, <2>2, <2>4, <2>5, <2>6 DEF DataInv
<1>9. TxInv'
  <2>1. ASSUME NEW v \in Sessions, v # w, tx[v].at = "reserve", NEW p \in tx[v].held
        PROVE  stock'[p] = stock[p]
    <3>1. p \in Products /\ p \notin Items(r)
      BY <1>1, <1>2, <2>1 DEF Exclusive, TypeOK, Transactions
    <3>2. Quantity[r][p] = 0 /\ stock[p] \in Nat
      BY <1>1, <1>2, <3>1 DEF Items, TypeOK
    <3> QED
      BY <1>3, <3>1, <3>2
  <2>2. ASSUME NEW v \in Sessions, v # w, tx[v].at = "release"
        PROVE  status'[tx[v].req] = status[tx[v].req] /\ delivery'[tx[v].req] = delivery[tx[v].req]
    <3>1. tx[v].req \in Requests /\ status[tx[v].req] # "absent"
      BY <1>1, <2>2 DEF TxOK, Returning
    <3> QED
      BY <1>4, <3>1
  <2> QED
    BY <1>4, <2>1, <2>2, CommitStep DEF Accept, saleVars
<1> QED
  BY <1>7, <1>8, <1>9 DEF IndInv

(* Inserting an order, finding it or refusing it all keep IndInv. *)
LEMMA InsertStep ==
  ASSUME IndInv, NEW w \in Sessions, Insert(w)
  PROVE  IndInv'
<1> DEFINE r == tx[w].req
<1>1. tx[w].at = "reserve" /\ tx[w].todo = {} /\ r \in Requests
  BY DEF IndInv, TxInv, TxOK, Reserving, Insert
<1>2. CASE status[r] # "absent"
  <2>1. Close(w) /\ Answer(r, "accepted") /\ UNCHANGED <<saleVars, stockVars, orderVars>>
    BY <1>2 DEF Insert, Accept
  <2>2. answer \in [Requests -> Answers] /\ AcceptedExists
    BY DEF IndInv, TypeOK, DataInv
  <2>3. /\ answer' \in [Requests -> Answers]
        /\ \A q \in Requests : answer'[q] = answer[q] \/ (q = r /\ answer'[q] = "accepted")
    BY <1>1, <2>1, <2>2, AnswerType DEF Answers
  <2>4. AcceptedExists'
    BY <1>2, <2>1, <2>2, <2>3 DEF AcceptedExists, orderVars
  <2> QED
    BY <2>1, <2>3, <2>4, RollbackStep
<1>3. CASE status[r] = "absent" /\ \A p \in Products : stock[p] >= Quantity[r][p]
  BY <1>1, <1>3, AddOrderStep DEF Insert
<1>4. CASE status[r] = "absent" /\ ~ \A p \in Products : stock[p] >= Quantity[r][p]
  BY <1>1, <1>4, RefuseStep DEF Insert
<1> QED
  BY <1>2, <1>3, <1>4

(* What is given back is what the movements of the order owed. *)
LEMMA CommitReleaseStep ==
  ASSUME IndInv, NEW w \in Sessions, CommitRelease(w)
  PROVE  IndInv'
<1> DEFINE r == tx[w].req
           back == [p \in Products |-> IF p \in tx[w].held THEN - net[r][p] ELSE 0]
<1>1. TypeOK /\ DataInv /\ TxOK(w) /\ \A v \in Sessions : v # w => Exclusive(w, v) /\ TxOK(v)
  BY DEF IndInv, TxInv
<1>2. /\ tx[w].at = "release" /\ r \in Requests /\ tx[w].held = Items(r)
      /\ status[r] \in {"pending", "confirmed"} /\ delivery[r] = "pending"
  BY <1>1 DEF CommitRelease, TxOK, Returning
<1>3. \A p \in Products : back[p] = Quantity[r][p] /\ Quantity[r][p] \in Nat
                          /\ net[r][p] = - Quantity[r][p]
  <2>1. ASSUME NEW p \in Products PROVE Quantity[r][p] \in Nat /\ net[r][p] = - Quantity[r][p]
    BY <1>1, <1>2, RequestsAssumption DEF DataInv, LedgerMatchesOrders
  <2>2. ASSUME NEW p \in Products PROVE back[p] = Quantity[r][p]
    BY <1>2, <2>1 DEF Items
  <2> QED
    BY <2>1, <2>2
<1>4. /\ stock' \in [Products -> Nat] /\ moved' \in [Products -> Int]
      /\ net' \in [Requests -> [Products -> Int]]
      /\ \A p \in Products : stock'[p] = stock[p] + Quantity[r][p] /\ moved'[p] = moved[p] + Quantity[r][p]
      /\ \A p \in Products : net'[r][p] = 0
      /\ \A q \in Requests : q # r => net'[q] = net[q]
  <2>1. /\ stock' = [p \in Products |-> stock[p] + back[p]]
        /\ moved' = [p \in Products |-> moved[p] + back[p]]
        /\ net' = [net EXCEPT ![r] = [p \in Products |-> net[r][p] + back[p]]]
    BY DEF CommitRelease
  <2> HIDE DEF back
  <2>2. /\ stock' \in [Products -> Nat] /\ moved' \in [Products -> Int]
        /\ \A p \in Products : stock'[p] = stock[p] + Quantity[r][p] /\ moved'[p] = moved[p] + Quantity[r][p]
    <3>1. ASSUME NEW p \in Products
          PROVE  /\ stock[p] + back[p] \in Nat /\ stock[p] + back[p] = stock[p] + Quantity[r][p]
                 /\ moved[p] + back[p] \in Int /\ moved[p] + back[p] = moved[p] + Quantity[r][p]
      <4>1. stock[p] \in Nat /\ moved[p] \in Int
        BY <1>1 DEF TypeOK
      <4>2. back[p] = Quantity[r][p] /\ Quantity[r][p] \in Nat
        BY <1>3
      <4> QED
        BY <4>1, <4>2
    <3> QED
      BY <2>1, <3>1
  <2>3. /\ net'[r] = [p \in Products |-> net[r][p] + back[p]]
        /\ \A q \in Requests : q # r => net'[q] = net[q]
    BY <1>1, <1>2, <2>1 DEF TypeOK
  <2>4. \A p \in Products : net'[r][p] = 0
    BY <1>3, <2>3
  <2>5. net' \in [Requests -> [Products -> Int]]
    <3>1. [p \in Products |-> net[r][p] + back[p]] \in [Products -> Int]
      BY <1>3
    <3> QED
      BY <1>1, <1>2, <2>1, <3>1 DEF TypeOK
  <2> QED
    BY <2>2, <2>3, <2>4, <2>5
<1>5. /\ status' \in [Requests -> Statuses] /\ status'[r] = "cancelled"
      /\ \A q \in Requests : q # r => status'[q] = status[q]
      /\ UNCHANGED <<saleVars, delivery, collected, unhonored, old, answer>>
  BY <1>1, <1>2 DEF CommitRelease, TypeOK, Statuses
<1>6. Close(w) /\ tx' \in [Sessions -> Transactions]
  BY <1>1, CloseTx DEF CommitRelease, TypeOK
<1>7. TypeOK'
  BY <1>1, <1>4, <1>5, <1>6 DEF TypeOK, saleVars
<1>8. DataInv'
  <2>1. StockLedger'
    BY <1>1, <1>4 DEF DataInv, StockLedger
  <2>2. LedgerMatchesOrders'
    BY <1>1, <1>4, <1>5 DEF DataInv, LedgerMatchesOrders
  <2>3. r \notin unhonored /\ r \notin collected
    BY <1>1, <1>2 DEF DataInv, OrderMatchesDelivery, UnhonoredInv
  <2>4. OrderMatchesDelivery'
    BY <1>1, <1>2, <1>5, <2>3 DEF DataInv, OrderMatchesDelivery
  <2>5. UnhonoredInv'
    BY <1>1, <1>5, <2>3 DEF DataInv, UnhonoredInv, TypeOK
  <2>6. AcceptedExists'
    BY <1>1, <1>5 DEF DataInv, AcceptedExists
  <2> QED
    BY <2>1, <2>2, <2>4, <2>5, <2>6 DEF DataInv
<1>9. TxInv'
  <2>1. ASSUME NEW v \in Sessions, v # w, tx[v].at = "reserve", NEW p \in tx[v].held
        PROVE  stock'[p] = stock[p]
    <3>1. p \in Products /\ p \notin Items(r)
      BY <1>1, <1>2, <2>1 DEF Exclusive, TypeOK, Transactions
    <3>2. Quantity[r][p] = 0 /\ stock[p] \in Nat
      BY <1>1, <1>3, <3>1 DEF Items, TypeOK
    <3> QED
      BY <1>4, <3>1, <3>2
  <2>2. ASSUME NEW v \in Sessions, v # w, tx[v].at = "release"
        PROVE  status'[tx[v].req] = status[tx[v].req] /\ delivery'[tx[v].req] = delivery[tx[v].req]
    <3>1. tx[v].req \in Requests /\ tx[v].req # r
      BY <1>1, <1>2, <2>2 DEF TxOK, Returning, Exclusive
    <3> QED
      BY <1>5, <3>1
  <2> QED
    BY <1>5, <1>6, <2>1, <2>2, CommitStep DEF saleVars
<1> QED
  BY <1>7, <1>8, <1>9 DEF IndInv

(* A corrected stock is recorded in a movement of the same amount. *)
LEMMA CommitEditStep ==
  ASSUME IndInv, NEW w \in Sessions, NEW level \in [Products -> Nat],
         NEW shown \in [tx[w].held -> {"active", "hidden"}], CommitEdit(w, level, shown)
  PROVE  IndInv'
<1> DEFINE s == tx[w].sale
           added == [p \in Products |-> IF p \in tx[w].held THEN level[p] - stock[p] ELSE 0]
<1>1. TypeOK /\ DataInv /\ TxOK(w) /\ \A v \in Sessions : v # w => Exclusive(w, v) /\ TxOK(v)
  BY DEF IndInv, TxInv
<1>2. tx[w].at = "edit" /\ s \in Sales
  BY <1>1 DEF CommitEdit, TxOK
<1>3. \A p \in Products : /\ added[p] \in Int /\ stock[p] + added[p] \in Nat
                          /\ p \notin tx[w].held => added[p] = 0
  BY <1>1 DEF TypeOK
<1>4. /\ stock' \in [Products -> Nat] /\ moved' \in [Products -> Int]
      /\ \A p \in Products : stock'[p] = stock[p] + added[p] /\ moved'[p] = moved[p] + added[p]
  <2>1. /\ stock' = [p \in Products |-> stock[p] + added[p]]
        /\ moved' = [p \in Products |-> moved[p] + added[p]]
    BY DEF CommitEdit
  <2> HIDE DEF added
  <2> QED
    BY <1>1, <1>3, <2>1 DEF TypeOK
<1>5. link' \in [Sales -> [Products -> Links]]
  <2>1. ASSUME NEW p \in tx[w].held PROVE shown[p] \in Links
    BY DEF Links
  <2> QED
    BY <1>1, <1>2, <2>1 DEF CommitEdit, TypeOK
<1>6. Close(w) /\ tx' \in [Sessions -> Transactions] /\ UNCHANGED <<orderable, window, net, orderVars, answer>>
  BY <1>1, CloseTx DEF CommitEdit, TypeOK
<1>7. TypeOK'
  BY <1>1, <1>4, <1>5, <1>6 DEF TypeOK, orderVars
<1>8. DataInv'
  <2> HIDE DEF added
  <2>1. StockLedger'
    BY <1>1, <1>4 DEF DataInv, StockLedger
  <2> QED
    BY <1>1, <1>6, <2>1 DEF DataInv, LedgerMatchesOrders, OrderMatchesDelivery, UnhonoredInv,
                             AcceptedExists, orderVars
<1>9. TxInv'
  <2> HIDE DEF added
  <2>1. ASSUME NEW v \in Sessions, v # w, tx[v].at = "reserve", NEW p \in tx[v].held
        PROVE  stock'[p] = stock[p]
    <3>1. p \in Products /\ p \notin tx[w].held
      BY <1>1, <2>1 DEF Exclusive, TypeOK, Transactions
    <3>2. added[p] = 0 /\ stock[p] \in Nat
      BY <1>1, <1>3, <3>1 DEF TypeOK
    <3> QED
      BY <1>4, <3>1, <3>2
  <2> QED
    BY <1>6, <2>1, CommitStep DEF orderVars
<1> QED
  BY <1>7, <1>8, <1>9 DEF IndInv

(* Whatever levels and visibilities the seller types, IndInv is kept. *)
LEMMA FinishEditStep ==
  ASSUME IndInv, NEW w \in Sessions, FinishEdit(w)
  PROVE  IndInv'
<1>1. PICK shown \in [tx[w].held -> {"active", "hidden"}], typed \in SUBSET tx[w].held :
        \E level \in [typed -> UNION {Levels[p] : p \in typed}] :
          /\ \A p \in typed : level[p] \in Levels[p]
          /\ CommitEdit(w, [p \in Products |-> IF p \in typed THEN level[p] ELSE stock[p]], shown)
  BY DEF FinishEdit
<1>2. PICK level \in [typed -> UNION {Levels[p] : p \in typed}] :
          /\ \A p \in typed : level[p] \in Levels[p]
          /\ CommitEdit(w, [p \in Products |-> IF p \in typed THEN level[p] ELSE stock[p]], shown)
  BY <1>1
<1>3. [p \in Products |-> IF p \in typed THEN level[p] ELSE stock[p]] \in [Products -> Nat]
  BY <1>2, ProductsAssumption DEF IndInv, TypeOK
<1> QED
  BY <1>2, <1>3, CommitEditStep

(***************************************************************************)
(* Steps that leave the open transactions alone: the order page, the       *)
(* status of a sale, the clock.                                            *)
(***************************************************************************)
(* They change no row that an open transaction has locked. *)
LEMMA RowStep ==
  ASSUME IndInv, UNCHANGED <<stock, tx>>, old \subseteq old',
         \A w \in Sessions :
           /\ tx[w].at = "reserve" => orderable'[tx[w].sale] = orderable[tx[w].sale]
           /\ tx[w].at = "release" => /\ status'[tx[w].req] = status[tx[w].req]
                                      /\ delivery'[tx[w].req] = delivery[tx[w].req]
  PROVE  TxInv'
<1>1. ASSUME NEW w \in Sessions PROVE TxOK(w)'
  <2>1. TxOK(w)
    BY DEF IndInv, TxInv
  <2>2. tx[w].at = "reserve" => Reserving(w)'
    BY <2>1 DEF TxOK, Reserving
  <2>3. tx[w].at = "release" => Returning(w)'
    BY <2>1 DEF TxOK, Returning
  <2> QED
    BY <2>1, <2>2, <2>3 DEF TxOK
<1>2. ASSUME NEW u \in Sessions, NEW v \in Sessions, u # v PROVE Exclusive(u, v)'
  <2>1. Exclusive(u, v)
    BY <1>2 DEF IndInv, TxInv
  <2> QED
    BY <2>1 DEF Exclusive
<1> QED
  BY <1>1, <1>2 DEF TxInv

(* advance_delivery writes an order that no other session has locked. *)
LEMMA DeliveringStep ==
  ASSUME IndInv, NEW r \in Requests, Delivering(r)
  PROVE  IndInv'
<1>1. TypeOK /\ DataInv
  BY DEF IndInv
<1>2. /\ OrderFree(r)
      /\ UNCHANGED <<saleVars, stockVars, old, answer, tx>>
      /\ \A q \in Requests : q # r => status'[q] = status[q] /\ delivery'[q] = delivery[q]
  BY <1>1 DEF Delivering, Confirm, StartDelivery, MarkDelivered, MarkFailed, TypeOK
<1>3. TypeOK' /\ OrderMatchesDelivery' /\ UnhonoredInv'
  <2>1. CASE Confirm(r)
    BY <1>1, <2>1 DEF Confirm, TypeOK, Statuses, DataInv, OrderMatchesDelivery, UnhonoredInv, saleVars, stockVars
  <2>2. CASE StartDelivery(r)
    BY <1>1, <2>2 DEF StartDelivery, TypeOK, Statuses, Deliveries, DataInv, OrderMatchesDelivery, UnhonoredInv,
                      saleVars, stockVars
  <2>3. CASE \E cod \in BOOLEAN : MarkDelivered(r, cod)
    BY <1>1, <2>3 DEF MarkDelivered, TypeOK, Statuses, Deliveries, DataInv, OrderMatchesDelivery, UnhonoredInv,
                      saleVars, stockVars
  <2>4. CASE MarkFailed(r)
    BY <1>1, <2>4 DEF MarkFailed, TypeOK, Statuses, Deliveries, DataInv, OrderMatchesDelivery, UnhonoredInv,
                      saleVars, stockVars
  <2> QED
    BY <2>1, <2>2, <2>3, <2>4 DEF Delivering
<1>4. /\ status[r] \notin {"absent", "cancelled"} /\ status'[r] \notin {"absent", "cancelled"}
  BY <1>1 DEF Delivering, Confirm, StartDelivery, MarkDelivered, MarkFailed, TypeOK
<1>5. DataInv'
  <2>1. StockLedger' /\ LedgerMatchesOrders'
    BY <1>1, <1>2, <1>4 DEF DataInv, StockLedger, LedgerMatchesOrders, stockVars
  <2>2. AcceptedExists'
    BY <1>1, <1>2, <1>4 DEF DataInv, AcceptedExists
  <2> QED
    BY <1>3, <2>1, <2>2 DEF DataInv
<1>6. TxInv'
  <2>1. ASSUME NEW w \in Sessions, tx[w].at = "release"
        PROVE  status'[tx[w].req] = status[tx[w].req] /\ delivery'[tx[w].req] = delivery[tx[w].req]
    <3>1. tx[w].req \in Requests
      BY <2>1 DEF IndInv, TxInv, TxOK, Returning
    <3> QED
      BY <1>2, <2>1, <3>1 DEF OrderFree, HoldsOrder
  <2> QED
    BY <1>2, <2>1, RowStep DEF saleVars, stockVars
<1> QED
  BY <1>3, <1>5, <1>6 DEF IndInv

(* Time makes more orders stale, never fewer. *)
LEMMA AgeStep ==
  ASSUME IndInv, NEW r \in Requests, Age(r)
  PROVE  IndInv'
<1>1. TypeOK' /\ DataInv'
  BY DEF IndInv, Age, TypeOK, DataInv, StockLedger, LedgerMatchesOrders, OrderMatchesDelivery, UnhonoredInv,
         AcceptedExists, saleVars, stockVars
<1>2. TxInv'
  BY RowStep DEF Age, saleVars, stockVars
<1> QED
  BY <1>1, <1>2 DEF IndInv

(* The status of a sale changes only while no order holds its row. *)
LEMMA WriteSaleStatusStep ==
  ASSUME IndInv, NEW s \in Sales, WriteSaleStatus(s)
  PROVE  IndInv'
<1>1. TypeOK'
  BY DEF IndInv, WriteSaleStatus, TypeOK, stockVars, orderVars
<1>2. DataInv'
  BY DEF IndInv, WriteSaleStatus, DataInv, StockLedger, LedgerMatchesOrders, OrderMatchesDelivery, UnhonoredInv,
         AcceptedExists, stockVars, orderVars
<1>3. ASSUME NEW w \in Sessions, tx[w].at = "reserve"
      PROVE  orderable'[tx[w].sale] = orderable[tx[w].sale]
  BY <1>3 DEF IndInv, TypeOK, WriteSaleStatus, SaleFree, HoldsSale
<1>4. TxInv'
  BY <1>3, RowStep DEF WriteSaleStatus, stockVars, orderVars
<1> QED
  BY <1>1, <1>2, <1>4 DEF IndInv

(* No invariant depends on the clock. *)
LEMMA PassTimeStep ==
  ASSUME IndInv, NEW s \in Sales, PassTime(s)
  PROVE  IndInv'
<1>1. TypeOK'
  BY DEF IndInv, PassTime, TypeOK, stockVars, orderVars
<1>2. DataInv'
  BY DEF IndInv, PassTime, DataInv, StockLedger, LedgerMatchesOrders, OrderMatchesDelivery, UnhonoredInv,
         AcceptedExists, stockVars, orderVars
<1>3. TxInv'
  BY RowStep DEF PassTime, stockVars, orderVars
<1> QED
  BY <1>1, <1>2, <1>3 DEF IndInv

(* Nothing happens. *)
LEMMA StutterStep ==
  ASSUME IndInv, UNCHANGED vars
  PROVE  IndInv'
<1>1. TypeOK' /\ DataInv'
  BY DEF IndInv, vars, TypeOK, DataInv, StockLedger, LedgerMatchesOrders, OrderMatchesDelivery, UnhonoredInv,
         AcceptedExists, saleVars, stockVars, orderVars
<1>2. TxInv'
  BY RowStep DEF vars, saleVars, stockVars, orderVars
<1> QED
  BY <1>1, <1>2 DEF IndInv

(***************************************************************************)
(* The invariant is inductive.                                             *)
(***************************************************************************)
(* Every step of Next keeps IndInv. *)
LEMMA NextIndInv == IndInv /\ [Next]_vars => IndInv'
<1> SUFFICES ASSUME IndInv, [Next]_vars PROVE IndInv'
  OBVIOUS
<1>1. ASSUME NEW w \in Web, Ordering(w) PROVE IndInv'
  <2>1. w \in Sessions
    BY DEF Web
  <2> QED
    BY <1>1, <2>1, SubmitStep, LookupStep, LockSaleStep, ReserveNextStep, InsertStep DEF Ordering
<1>2. ASSUME NEW w \in Web, Editing(w) PROVE IndInv'
  <2>1. w \in Sessions
    BY DEF Web
  <2> QED
    BY <1>2, <2>1, OpenEditStep, LockForEditStep, FinishEditStep DEF Editing
<1>3. ASSUME NEW w \in Web, NEW r \in Requests, CancelBySeller(w, r) PROVE IndInv'
  BY <1>3, CancelBySellerStep
<1>4. ASSUME NEW r \in Requests, PickStale(r) \/ ExpireOne(r) PROVE IndInv'
  BY <1>4, PickStaleStep, ExpireOneStep
<1>5. ASSUME NEW w \in Sessions, Releasing(w) \/ Abort(w) PROVE IndInv'
  BY <1>5, ReleaseNextStep, CommitReleaseStep, AbortStep DEF Releasing
<1>6. ASSUME NEW r \in Requests, Delivering(r) \/ Age(r) PROVE IndInv'
  BY <1>6, DeliveringStep, AgeStep
<1>7. ASSUME NEW s \in Sales, WriteSaleStatus(s) \/ PassTime(s) PROVE IndInv'
  BY <1>7, WriteSaleStatusStep, PassTimeStep
<1> QED
  BY <1>1, <1>2, <1>3, <1>4, <1>5, <1>6, <1>7, StutterStep DEF Next

(* IndInv holds in every reachable state: the other theorems follow from it. *)
THEOREM InductiveInvariant == Spec => []IndInv
<1>1. Init => IndInv
  BY InitIndInv
<1>2. IndInv /\ [Next]_vars => IndInv'
  BY NextIndInv
<1> QED
  BY <1>1, <1>2, PTL DEF Spec

(***************************************************************************)
(* Safety.                                                                 *)
(***************************************************************************)
(* Every variable keeps its type. *)
THEOREM TypeCorrectness == Spec => []TypeOK
<1>1. IndInv => TypeOK
  BY DEF IndInv
<1> QED
  BY <1>1, InductiveInvariant, PTL

(* Available stock is the sum of its movements (create_order,              *)
(* release_order_stock, adjust_stock), however the transactions interleave. *)
THEOREM StockIsItsLedger == Spec => []StockLedger
<1>1. IndInv => StockLedger
  BY DEF IndInv, DataInv
<1> QED
  BY <1>1, InductiveInvariant, PTL

(* Every order is taken out of the stock once and returned at most once,   *)
(* by the expiration task or by the seller, whichever comes first.         *)
THEOREM ReleasedExactlyOnce == Spec => []LedgerMatchesOrders
<1>1. IndInv => LedgerMatchesOrders
  BY DEF IndInv, DataInv
<1> QED
  BY <1>1, InductiveInvariant, PTL

(* The stock checked under a row lock is still there at the commit: the    *)
(* conditional UPDATE of create_order never misses its row.                *)
THEOREM NoOversell == Spec => []LockedStockSuffices
<1>1. IndInv => LockedStockSuffices
  BY DEF IndInv, TxInv, TxOK, Reserving, LockedStockSuffices
<1> QED
  BY <1>1, InductiveInvariant, PTL

(* advance_delivery keeps the order and its delivery in step. *)
THEOREM OrderAndDeliveryAgree == Spec => []OrderMatchesDelivery
<1>1. IndInv => OrderMatchesDelivery
  BY DEF IndInv, DataInv
<1> QED
  BY <1>1, InductiveInvariant, PTL

(* The order of a failed parcel is never cancelled. *)
FailedNeverCancelled == \A r \in unhonored : status[r] # "cancelled"

(* What the run orders_unhonored shows of one order holds of every one: no *)
(* order recorded as unhonored is ever cancelled, so it counts against its *)
(* phone number until the window or an unblocking ends it, though          *)
(* unhonored.py leaves cancelled orders out of the count.  Only an edit in *)
(* the Django admin, left out here, could set that status.                 *)
THEOREM FailureIsForGood == Spec => []FailedNeverCancelled
<1>1. IndInv => FailedNeverCancelled
  BY DEF IndInv, DataInv, UnhonoredInv, FailedNeverCancelled
<1> QED
  BY <1>1, InductiveInvariant, PTL

(* An order whose creation the client was told of is in the database. *)
THEOREM AnswersAreTrue == Spec => []AcceptedExists
<1>1. IndInv => AcceptedExists
  BY DEF IndInv, DataInv
<1> QED
  BY <1>1, InductiveInvariant, PTL

(***************************************************************************)
(* Deadlock.                                                               *)
(***************************************************************************)
(* Every nonempty set of natural numbers has a smallest element. *)
LEMMA MinExists ==
  ASSUME NEW S, S \subseteq Nat, S # {}
  PROVE  \E x \in S : \A y \in S : x <= y
<1>1. PICK x \in S : \A y \in S : ~ (<<y, x>> \in OpToRel(<, Nat))
  BY WFMin, NatLessThanWellFounded
<1>2. ASSUME NEW y \in S PROVE x <= y
  <2>1. x \in Nat /\ y \in Nat
    OBVIOUS
  <2>2. ~ (y < x)
    BY <1>1, <2>1, Zenon DEF OpToRel
  <2> QED
    BY <2>1, <2>2
<1> QED
  BY <1>2

(* Every nonempty bounded set of natural numbers has a largest element. *)
LEMMA MaxExists ==
  ASSUME NEW S, S \subseteq Nat, S # {}, NEW top \in Nat, \A x \in S : x <= top
  PROVE  \E x \in S : \A y \in S : y <= x
<1> DEFINE T == {top - x : x \in S}
<1>1. \A x \in S : x \in Nat /\ top - x \in Nat
  <2>1. \A x \in S : x \in Nat
    OBVIOUS
  <2> QED
    BY <2>1
<1>2. T \subseteq Nat /\ T # {}
  BY <1>1, Zenon
<1>3. PICK t \in T : \A u \in T : t <= u
  BY <1>2, MinExists
<1>4. PICK x \in S : t = top - x
  OBVIOUS
<1>5. ASSUME NEW y \in S PROVE y <= x
  <2>1. top - x <= top - y
    BY <1>3, <1>4
  <2>2. x \in Nat /\ y \in Nat
    OBVIOUS
  <2> QED
    BY <2>1, <2>2
<1> QED
  BY <1>5

(* In a deadlock without an attaching session everyone waits for someone   *)
(* who waits for a product: a session waits only for one that holds rows,  *)
(* and one that holds rows waits only for its next product.                *)
LEMMA HolderWaitsForProduct ==
  ASSUME TypeOK, TxInv, NEW w \in Sessions, NEW v \in Sessions, NEW u \in Sessions,
         WaitsFor(w, v), WaitsFor(v, u), ~ Attaches(w), ~ Attaches(v)
  PROVE  \E q \in tx[v].todo : IsNext(q, tx[v].todo) /\ q \in tx[u].held
<1>1. TxOK(w) /\ TxOK(v)
  BY DEF TxInv
<1>2. tx[v].at \in {"reserve", "release", "edit"}
  BY <1>1 DEF WaitsFor, HoldsSale, HoldsOrder, TxOK, TypeOK, Transactions, Points
<1> QED
  BY <1>2 DEF WaitsFor

(* The largest product somebody of the group waits for is held by somebody *)
(* of the group, who waits for a larger one: the group cannot exist.       *)
LEMMA IndInvNoDeadlock == TypeOK /\ TxInv => OnlyAttachDeadlocks
<1> SUFFICES ASSUME TypeOK, TxInv, NEW group \in SUBSET Sessions, Deadlocked(group),
                    ~ \E w \in group : Attaches(w)
             PROVE  FALSE
  BY DEF OnlyAttachDeadlocks
<1> DEFINE Awaited == {p \in Products : \E v \in group, u \in group :
                          p \in tx[v].todo /\ IsNext(p, tx[v].todo) /\ p \in tx[u].held}
<1>1. \A w \in group : w \in Sessions /\ ~ Attaches(w) /\ \E v \in group : WaitsFor(w, v)
  BY DEF Deadlocked
<1>2. \A v \in Sessions : tx[v].todo \subseteq Products /\ tx[v].held \subseteq Products
  BY DEF TypeOK, Transactions
<1>3. ASSUME NEW w \in group, NEW v \in group, WaitsFor(w, v)
      PROVE  \E q \in Awaited : q \in tx[v].todo
  <2>1. PICK u \in group : WaitsFor(v, u)
    BY <1>1
  <2>2. PICK q \in tx[v].todo : IsNext(q, tx[v].todo) /\ q \in tx[u].held
    BY <1>1, <1>3, <2>1, HolderWaitsForProduct
  <2> QED
    BY <1>1, <1>2, <2>2
<1>4. Awaited # {}
  BY <1>1, <1>3 DEF Deadlocked
<1>5. Awaited \subseteq Nat
  BY ProductsAssumption
<1>6. PICK top \in Nat : \A p \in Awaited : p <= top
  BY ProductsAssumption
<1> HIDE DEF Awaited
<1>7. PICK p \in Awaited : \A q \in Awaited : q <= p
  BY <1>4, <1>5, <1>6, MaxExists
<1>8. PICK v \in group, u \in group : p \in tx[v].todo /\ IsNext(p, tx[v].todo) /\ p \in tx[u].held
  BY <1>7 DEF Awaited
<1>9. WaitsFor(v, u)
  BY <1>8 DEF WaitsFor
<1>10. PICK q \in Awaited : q \in tx[u].todo
  BY <1>3, <1>9
<1>11. p < q
  BY <1>1, <1>8, <1>10 DEF TxInv, TxOK
<1>12. q <= p /\ p \in Nat /\ q \in Nat
  BY <1>5, <1>7, <1>10
<1> QED
  BY <1>11, <1>12

(* No set of sessions, however large, waits in a circle unless one of them *)
(* puts a new product in a sale: the rows that sorted() and order_by("pk") *)
(* lock in ascending order cannot close one.                               *)
THEOREM DeadlockOnlyByAttach == Spec => []OnlyAttachDeadlocks
<1>1. IndInv => OnlyAttachDeadlocks
  BY IndInvNoDeadlock DEF IndInv
<1> QED
  BY <1>1, InductiveInvariant, PTL

(***************************************************************************)
(* Action properties.                                                      *)
(***************************************************************************)
(* The three ways the status of an order changes. *)
LEMMA StatusChange ==
  ASSUME IndInv, Next, NEW r \in Requests, status'[r] # status[r]
  PROVE  \/ \E w \in Sessions : /\ Insert(w) /\ tx[w].at = "reserve" /\ tx[w].req = r
                                /\ status[r] = "absent" /\ status'[r] = "pending"
         \/ \E w \in Sessions : CommitRelease(w) /\ tx[w].req = r /\ status'[r] = "cancelled"
         \/ Delivering(r)
<1>1. /\ status \in [Requests -> Statuses]
      /\ \A w \in Sessions : TxOK(w)
  BY DEF IndInv, TypeOK, TxInv
<1>2. ASSUME NEW w \in Web, Ordering(w) \/ Editing(w) \/ \E q \in Requests : CancelBySeller(w, q)
      PROVE  /\ w \in Sessions /\ Insert(w) /\ tx[w].at = "reserve" /\ tx[w].req = r
             /\ status[r] = "absent" /\ status'[r] = "pending"
  <2>1. w \in Sessions
    BY DEF Web
  <2>2. CASE UNCHANGED status
    BY <2>2
  <2>3. CASE Insert(w) /\ AddOrder(tx[w].req) /\ status[tx[w].req] = "absent"
    <3>1. tx[w].at = "reserve" /\ tx[w].req \in Requests
      BY <1>1, <2>1, <2>3 DEF Insert, TxOK, Reserving
    <3> QED
      BY <1>1, <2>1, <2>3, <3>1 DEF AddOrder
  <2> QED
    BY <1>2, <2>1, <2>2, <2>3
       DEF Ordering, Editing, Submit, Lookup, LockSale, ReserveNext, Insert, Refuse, OpenEdit, LockForEdit,
           FinishEdit, CommitEdit, CancelBySeller, orderVars
<1>3. ASSUME NEW w \in Sessions, Releasing(w) \/ Abort(w)
      PROVE  CommitRelease(w) /\ tx[w].req = r /\ status'[r] = "cancelled"
  BY <1>1, <1>3 DEF Releasing, ReleaseNext, CommitRelease, Abort, orderVars, TxOK, Returning
<1>4. ASSUME NEW q \in Requests, PickStale(q) \/ ExpireOne(q) \/ Age(q) PROVE FALSE
  BY <1>4 DEF PickStale, ExpireOne, Age, orderVars
<1>5. ASSUME NEW q \in Requests, Delivering(q) PROVE Delivering(r)
  BY <1>1, <1>5 DEF Delivering, Confirm, StartDelivery, MarkDelivered, MarkFailed
<1>6. ASSUME NEW s \in Sales, WriteSaleStatus(s) \/ PassTime(s) PROVE FALSE
  BY <1>6 DEF WriteSaleStatus, PassTime, orderVars
<1> QED
  BY <1>2, <1>3, <1>4, <1>5, <1>6 DEF Next

(* Closing a sale waits for the orders in progress (SELECT ... FOR UPDATE  *)
(* in create_order): no order enters a sale that no longer takes orders.   *)
THEOREM ClosingStopsOrders == Spec => NoOrderAfterClose
<1> DEFINE Step == \A r \in Requests : status[r] = "absent" /\ status'[r] # "absent" => orderable[SaleOf[r]]
<1>1. IndInv /\ [Next]_vars => [Step]_vars
  <2> SUFFICES ASSUME IndInv, Next, NEW r \in Requests, status[r] = "absent", status'[r] # "absent"
               PROVE  orderable[SaleOf[r]]
    OBVIOUS
  <2>1. ~ Delivering(r)
    BY DEF Delivering, Confirm, StartDelivery, MarkDelivered, MarkFailed
  <2>2. \A w \in Sessions : TxOK(w)
    BY DEF IndInv, TxInv
  <2>3. CASE \E w \in Sessions : tx[w].at = "reserve" /\ tx[w].req = r
    BY <2>2, <2>3 DEF TxOK, Reserving
  <2>4. CASE \E w \in Sessions : CommitRelease(w) /\ tx[w].req = r
    BY <2>2, <2>4 DEF CommitRelease, TxOK, Returning
  <2> QED
    BY <2>1, <2>3, <2>4, StatusChange
<1> QED
  BY <1>1, InductiveInvariant, PTL DEF Spec, NoOrderAfterClose

(* The expiration task cancels an order only if, when it commits, the      *)
(* order is still pending and too old: a confirmation in between wins.     *)
THEOREM ConfirmedOrdersDoNotExpire == Spec => ExpiryRespectsConfirm
<1> DEFINE Step == \A r \in Requests :
       status[r] # "cancelled" /\ status'[r] = "cancelled" =>
         \E w \in Sessions : HoldsOrder(w, r) /\ (w = Beat => status[r] = "pending" /\ r \in old)
<1>1. IndInv /\ [Next]_vars => [Step]_vars
  <2> SUFFICES ASSUME IndInv, Next, NEW r \in Requests, status[r] # "cancelled", status'[r] = "cancelled"
               PROVE  \E w \in Sessions : HoldsOrder(w, r) /\ (w = Beat => status[r] = "pending" /\ r \in old)
    OBVIOUS
  <2>1. ~ Delivering(r)
    BY DEF IndInv, TypeOK, Delivering, Confirm, StartDelivery, MarkDelivered, MarkFailed
  <2>2. PICK w \in Sessions : CommitRelease(w) /\ tx[w].req = r
    BY <2>1, StatusChange
  <2>3. TxOK(w)
    BY DEF IndInv, TxInv
  <2> QED
    BY <2>2, <2>3 DEF CommitRelease, TxOK, Returning, HoldsOrder
<1> QED
  BY <1>1, InductiveInvariant, PTL DEF Spec, ExpiryRespectsConfirm

(* Delivered and cancelled are final. *)
THEOREM NothingLeavesTheEnd == Spec => FinalIsFinal
<1> DEFINE Step == \A r \in Requests : status[r] \in {"delivered", "cancelled"} => status'[r] = status[r]
<1>1. IndInv /\ [Next]_vars => [Step]_vars
  <2> SUFFICES ASSUME IndInv, Next, NEW r \in Requests, status[r] \in {"delivered", "cancelled"},
                      status'[r] # status[r]
               PROVE  FALSE
    OBVIOUS
  <2>1. ~ Delivering(r)
    BY DEF IndInv, TypeOK, DataInv, OrderMatchesDelivery, Delivering, Confirm, StartDelivery, MarkDelivered,
           MarkFailed
  <2>2. PICK w \in Sessions : CommitRelease(w) /\ tx[w].req = r
    BY <2>1, StatusChange
  <2>3. TxOK(w)
    BY DEF IndInv, TxInv
  <2> QED
    BY <2>2, <2>3 DEF CommitRelease, TxOK, Returning
<1> QED
  BY <1>1, InductiveInvariant, PTL DEF Spec, FinalIsFinal

(***************************************************************************)
(* Refinement: Orders implements Inventory.                                *)
(***************************************************************************)
(* A step that leaves the stock alone and keeps every order where it was   *)
(* is not seen by the abstract specification.                              *)
LEMMA SilentStep ==
  ASSUME UNCHANGED stock, \A r \in Requests : Phase(status'[r]) = Phase(status[r])
  PROVE  UNCHANGED Abstract!invVars
BY DEF Abstract!invVars, phaseOf

(* Changing the status of one order moves the basket of that order. *)
LEMMA PhaseChange ==
  ASSUME status \in [Requests -> Statuses], NEW r \in Requests, NEW st \in Statuses,
         status' = [status EXCEPT ![r] = st]
  PROVE  phaseOf' = [phaseOf EXCEPT ![r] = Phase(st)]
BY DEF phaseOf

(* A basket moves, in the terms of Inventory. *)
BasketMoves ==
  \E r \in Requests : Abstract!Reserve(r) \/ Abstract!Return(r) \/ Abstract!Sell(r)

(* The insertion of an order takes its whole basket at once. *)
LEMMA InsertReserves ==
  ASSUME IndInv, NEW w \in Sessions, Insert(w)
  PROVE  BasketMoves \/ UNCHANGED Abstract!invVars
<1> DEFINE r == tx[w].req
<1>1. r \in Requests /\ status \in [Requests -> Statuses]
  BY DEF IndInv, TxInv, TxOK, Reserving, Insert, TypeOK
<1>2. CASE UNCHANGED <<stock, status>>
  BY <1>2, SilentStep
<1>3. CASE status[r] = "absent" /\ AddOrder(r) /\ \A p \in Products : stock[p] >= Quantity[r][p]
  <2>1. phaseOf[r] = "none"
    BY <1>1, <1>3 DEF phaseOf, Phase
  <2>2. phaseOf' = [phaseOf EXCEPT ![r] = "held"]
    BY <1>1, <1>3, PhaseChange DEF AddOrder, Statuses, Phase
  <2>3. Abstract!Reserve(r)
    BY <1>3, <2>1, <2>2 DEF Abstract!Reserve, AddOrder
  <2> QED
    BY <1>1, <2>3 DEF BasketMoves
<1> QED
  BY <1>2, <1>3 DEF Insert, Refuse, Accept, stockVars, orderVars

(* A cancellation gives the whole basket back: what the movements say is   *)
(* owed is what the order took.                                            *)
LEMMA CommitReleaseReturns ==
  ASSUME IndInv, NEW w \in Sessions, CommitRelease(w)
  PROVE  BasketMoves
<1> DEFINE r == tx[w].req
<1>1. /\ r \in Requests /\ status \in [Requests -> Statuses]
      /\ status[r] \in {"pending", "confirmed"}
      /\ tx[w].held = Items(r)
  BY DEF IndInv, TxInv, TxOK, Returning, CommitRelease, TypeOK
<1>2. ASSUME NEW p \in Products
      PROVE  stock[p] + (IF p \in tx[w].held THEN - net[r][p] ELSE 0) = stock[p] + Quantity[r][p]
  <2>1. Quantity[r][p] \in Nat /\ stock[p] \in Nat
    BY <1>1, RequestsAssumption DEF IndInv, TypeOK
  <2>2. net[r][p] = - Quantity[r][p]
    BY <1>1 DEF IndInv, DataInv, LedgerMatchesOrders
  <2> QED
    BY <1>1, <2>1, <2>2 DEF Items
<1>3. stock' = [p \in Products |-> stock[p] + Quantity[r][p]]
  BY <1>2 DEF CommitRelease
<1>4. phaseOf[r] = "held"
  BY <1>1 DEF phaseOf, Phase
<1>5. phaseOf' = [phaseOf EXCEPT ![r] = "returned"]
  BY <1>1, PhaseChange DEF CommitRelease, Statuses, Phase
<1> QED
  BY <1>1, <1>3, <1>4, <1>5 DEF Abstract!Return, BasketMoves

(* Of the steps of advance_delivery only mark_delivered moves the basket. *)
LEMMA DeliveringSells ==
  ASSUME IndInv, NEW r \in Requests, Delivering(r)
  PROVE  BasketMoves \/ UNCHANGED Abstract!invVars
<1>1. status \in [Requests -> Statuses]
  BY DEF IndInv, TypeOK
<1>2. CASE Confirm(r) \/ StartDelivery(r) \/ MarkFailed(r)
  <2>1. \A q \in Requests : Phase(status'[q]) = Phase(status[q])
    BY <1>1, <1>2 DEF Confirm, StartDelivery, MarkFailed, Phase
  <2> QED
    BY <1>2, <2>1, SilentStep DEF Confirm, StartDelivery, MarkFailed, stockVars
<1>3. ASSUME NEW cod \in BOOLEAN, MarkDelivered(r, cod)
      PROVE  Abstract!Sell(r)
  <2>1. phaseOf[r] = "held"
    BY <1>3 DEF MarkDelivered, phaseOf, Phase
  <2>2. phaseOf' = [phaseOf EXCEPT ![r] = "sold"]
    BY <1>1, <1>3, PhaseChange DEF MarkDelivered, Statuses, Phase
  <2> QED
    BY <1>3, <2>1, <2>2 DEF Abstract!Sell, MarkDelivered, stockVars
<1> QED
  BY <1>2, <1>3 DEF Delivering, BasketMoves

(* The seller's grid only corrects the stock. *)
LEMMA FinishEditCorrects ==
  ASSUME IndInv', NEW w \in Sessions, FinishEdit(w)
  PROVE  Abstract!InventoryNext
<1>1. stock' \in [Products -> Nat]
  BY DEF IndInv, TypeOK
<1>2. UNCHANGED status
  BY DEF FinishEdit, CommitEdit, orderVars
<1>3. UNCHANGED phaseOf
  BY <1>2 DEF phaseOf
<1> QED
  BY <1>1, <1>3 DEF Abstract!Correct, Abstract!InventoryNext

(* Every step of Orders moves a basket, ends an edit of the grid, or is    *)
(* not seen by Inventory.                                                  *)
LEMMA NextMoves ==
  ASSUME IndInv, [Next]_vars
  PROVE  BasketMoves \/ (\E w \in Web : FinishEdit(w)) \/ UNCHANGED Abstract!invVars
<1>1. CASE UNCHANGED <<stock, status>>
  BY <1>1, SilentStep
<1>2. ASSUME NEW w \in Web, Ordering(w) \/ Editing(w) \/ \E r \in Requests : CancelBySeller(w, r)
      PROVE  Insert(w) \/ FinishEdit(w) \/ UNCHANGED <<stock, status>>
  BY <1>2 DEF Ordering, Editing, Submit, Lookup, LockSale, ReserveNext, Refuse, OpenEdit, LockForEdit,
              CancelBySeller, stockVars, orderVars
<1>3. ASSUME NEW w \in Sessions, Releasing(w) \/ Abort(w)
      PROVE  CommitRelease(w) \/ UNCHANGED <<stock, status>>
  BY <1>3 DEF Releasing, ReleaseNext, Abort, stockVars, orderVars
<1>4. ASSUME NEW r \in Requests, PickStale(r) \/ ExpireOne(r) \/ Age(r)
      PROVE  UNCHANGED <<stock, status>>
  BY <1>4 DEF PickStale, ExpireOne, Age, stockVars, orderVars
<1>5. ASSUME NEW s \in Sales, WriteSaleStatus(s) \/ PassTime(s)
      PROVE  UNCHANGED <<stock, status>>
  BY <1>5 DEF WriteSaleStatus, PassTime, stockVars, orderVars
<1>6. Web \subseteq Sessions
  BY DEF Web
<1>7. CASE UNCHANGED vars
  BY <1>1, <1>7 DEF vars, stockVars, orderVars
<1> QED
  BY <1>1, <1>2, <1>3, <1>4, <1>5, <1>6, <1>7, InsertReserves, CommitReleaseReturns, DeliveringSells
  DEF Next

LEMMA NextImplements ==
  ASSUME IndInv, IndInv', [Next]_vars
  PROVE  Abstract!InventoryNext \/ UNCHANGED Abstract!invVars
<1>1. BasketMoves => Abstract!InventoryNext
  BY DEF BasketMoves, Abstract!InventoryNext
<1> QED
  BY <1>1, NextMoves, FinishEditCorrects DEF Web

(* Row locks, idempotent retries, the sweep and crashes implement the      *)
(* promise of Inventory: a basket is taken whole, and comes back at most   *)
(* once.                                                                   *)
THEOREM OrdersImplementInventory == Spec => ImplementsInventory
<1>1. Init => Abstract!InventoryInit
  <2> SUFFICES ASSUME Init PROVE Abstract!InventoryInit
    OBVIOUS
  <2>1. stock \in [Products -> Nat]
    BY InitIndInv DEF IndInv, TypeOK
  <2>2. phaseOf = [r \in Requests |-> "none"]
    BY DEF Init, phaseOf, Phase
  <2> QED
    BY <2>1, <2>2 DEF Abstract!InventoryInit
<1>2. IndInv /\ IndInv' /\ [Next]_vars => [Abstract!InventoryNext]_(Abstract!invVars)
  BY NextImplements
<1> QED
  BY <1>1, <1>2, InductiveInvariant, PTL DEF Spec, ImplementsInventory, Abstract!InventorySpec

(***************************************************************************)
(* Conservation of units.                                                  *)
(***************************************************************************)
(* The units of p that orders hold or have sold. *)
TakenBy(p) ==
  [r \in Requests |-> IF phaseOf[r] \in {"held", "sold"} THEN Quantity[r][p] ELSE 0]

Taken(p) == SumOver(TakenBy(p), Requests)

Conserves(p) == stock'[p] + Taken(p)' = stock[p] + Taken(p)

(* What is on the shelf and what orders have taken add up to the same for  *)
(* ever, through retries, expirations, cancellations and crashes, but for  *)
(* the correction a seller types in a grid that holds the product: no unit *)
(* is ever sold twice, lost, or given back twice.                          *)
UnitsConserved ==
  [][\A p \in Products :
       Conserves(p) \/ \E w \in Web : p \in tx[w].held /\ FinishEdit(w)]_vars

LEMMA TakenType ==
  ASSUME NEW p \in Products
  PROVE  Taken(p) \in Nat /\ \A r \in Requests : TakenBy(p)[r] \in Nat
<1>1. \A r \in Requests : TakenBy(p)[r] \in Nat
  BY RequestsAssumption DEF TakenBy
<1>2. SumOver(TakenBy(p), Requests) \in Nat
  BY <1>1, RequestsAssumption, SumType
<1> QED
  BY <1>1, <1>2 DEF Taken

(* The phase of one request changes what is taken by its basket. *)
LEMMA TakenAfter ==
  ASSUME NEW r \in Requests, NEW ph, phaseOf' = [phaseOf EXCEPT ![r] = ph], NEW p \in Products
  PROVE  Taken(p)' = Taken(p) - TakenBy(p)[r]
                              + (IF ph \in {"held", "sold"} THEN Quantity[r][p] ELSE 0)
<1> DEFINE after == [TakenBy(p) EXCEPT ![r] = IF ph \in {"held", "sold"} THEN Quantity[r][p] ELSE 0]
<1>1. TakenBy(p)' = after
  BY DEF TakenBy, phaseOf
<1>2. Taken(p)' = SumOver(after, Requests)
  BY <1>1 DEF Taken
<1>3. /\ \A q \in Requests : TakenBy(p)[q] \in Int /\ after[q] \in Int
      /\ \A q \in Requests : q # r => after[q] = TakenBy(p)[q]
      /\ after[r] = IF ph \in {"held", "sold"} THEN Quantity[r][p] ELSE 0
  BY TakenType, RequestsAssumption DEF TakenBy
<1> HIDE DEF after
<1>4. SumOver(after, Requests) = SumOver(TakenBy(p), Requests) - TakenBy(p)[r] + after[r]
  BY <1>3, RequestsAssumption, SumChange
<1> QED
  BY <1>2, <1>3, <1>4 DEF Taken

LEMMA BasketConserves ==
  ASSUME IndInv, BasketMoves, NEW p \in Products
  PROVE  Conserves(p)
<1>1. PICK r \in Requests : Abstract!Reserve(r) \/ Abstract!Return(r) \/ Abstract!Sell(r)
  BY DEF BasketMoves
<1>2. stock[p] \in Nat /\ Quantity[r][p] \in Nat /\ Taken(p) \in Nat
  BY RequestsAssumption, TakenType DEF IndInv, TypeOK
<1>3. CASE Abstract!Reserve(r)
  <2>1. TakenBy(p)[r] = 0 /\ stock'[p] = stock[p] - Quantity[r][p]
    BY <1>3 DEF Abstract!Reserve, TakenBy
  <2>2. Taken(p)' = Taken(p) - TakenBy(p)[r] + Quantity[r][p]
    BY <1>3, TakenAfter DEF Abstract!Reserve
  <2> QED
    BY <1>2, <2>1, <2>2 DEF Conserves
<1>4. CASE Abstract!Return(r)
  <2>1. TakenBy(p)[r] = Quantity[r][p] /\ stock'[p] = stock[p] + Quantity[r][p]
    BY <1>4 DEF Abstract!Return, TakenBy
  <2>2. Taken(p)' = Taken(p) - TakenBy(p)[r] + 0
    BY <1>4, TakenAfter DEF Abstract!Return
  <2> QED
    BY <1>2, <2>1, <2>2 DEF Conserves
<1>5. CASE Abstract!Sell(r)
  <2>1. TakenBy(p)[r] = Quantity[r][p] /\ stock'[p] = stock[p]
    BY <1>5 DEF Abstract!Sell, TakenBy
  <2>2. Taken(p)' = Taken(p) - TakenBy(p)[r] + Quantity[r][p]
    BY <1>5, TakenAfter DEF Abstract!Sell
  <2> QED
    BY <1>2, <2>1, <2>2 DEF Conserves
<1> QED
  BY <1>1, <1>3, <1>4, <1>5

LEMMA PhasesKeptTaken ==
  ASSUME UNCHANGED phaseOf, NEW p
  PROVE  Taken(p)' = Taken(p)
<1>1. TakenBy(p)' = TakenBy(p)
  BY DEF TakenBy
<1> QED
  BY <1>1 DEF Taken

(* A line of a batch writes the stock of a product the batch has locked. *)
LEMMA EditConserves ==
  ASSUME IndInv, NEW w \in Web, FinishEdit(w), NEW p \in Products, p \notin tx[w].held
  PROVE  Conserves(p)
<1>1. UNCHANGED phaseOf
  BY DEF FinishEdit, CommitEdit, orderVars, phaseOf
<1>2. stock[p] \in Nat
  BY DEF IndInv, TypeOK
<1>3. stock'[p] = stock[p] + 0
  BY DEF FinishEdit, CommitEdit
<1> QED
  BY <1>1, <1>2, <1>3, PhasesKeptTaken DEF Conserves

(* Stock and baskets are conserved by create_order, the release of stock   *)
(* and advance_delivery, for any number of requests and sessions.          *)
THEOREM UnitsAreConserved == Spec => UnitsConserved
<1>1. IndInv /\ [Next]_vars =>
        [\A p \in Products :
           Conserves(p) \/ \E w \in Web : p \in tx[w].held /\ FinishEdit(w)]_vars
  <2> SUFFICES ASSUME IndInv, [Next]_vars, NEW p \in Products
               PROVE  Conserves(p) \/ \E w \in Web : p \in tx[w].held /\ FinishEdit(w)
    OBVIOUS
  <2>1. CASE BasketMoves
    BY <2>1, BasketConserves
  <2>2. ASSUME NEW w \in Web, FinishEdit(w)
        PROVE  Conserves(p) \/ p \in tx[w].held
    BY <2>2, EditConserves
  <2>3. CASE UNCHANGED Abstract!invVars
    BY <2>3, PhasesKeptTaken DEF Abstract!invVars, Conserves
  <2> QED
    BY <2>1, <2>2, <2>3, NextMoves
<1> QED
  BY <1>1, InductiveInvariant, PTL DEF Spec, UnitsConserved

=============================================================================
