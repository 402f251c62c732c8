-------------------------------- MODULE Orders --------------------------------
(***************************************************************************)
(* The life of an order in HayaFlash: orders/services (create_order,       *)
(* client_order, expiration, stock_release), delivery/services/delivery    *)
(* and the part of products that writes stock_available and the links      *)
(* between a sale and its products.                                        *)
(*                                                                         *)
(* Every web request and every run of the expiration task is a database    *)
(* transaction that takes row locks one after the other (SELECT ... FOR    *)
(* UPDATE) and writes at the end.  A transaction that waits for row locks  *)
(* is a record tx[w] of the session w that runs it: what it waits for is   *)
(* an action of its own, what it does once it holds its locks is one       *)
(* action, which also commits.  A handler whose only wait comes before its *)
(* first lock is a single action guarded by that lock being free.          *)
(*                                                                         *)
(* A row of orders_order is named by its client_request_id, unique in the  *)
(* table: status[r] = "absent" says that no such row is committed.         *)
(***************************************************************************)
EXTENDS Integers, FiniteSets

CONSTANTS
  Requests,   \* client_request_id's
  Sales,      \* flash sales
  Products,   \* primary keys of catalogue products: row locks follow their order
  Sessions,   \* web workers and the Celery worker of the expiration task
  Beat,       \* the session that runs expire_pending_orders
  None,       \* no request or sale
  SaleOf,     \* SaleOf[r]: the sale r is addressed to
  Quantity,   \* Quantity[r][p]: units of p in the basket of r
  Batches,    \* sets of products a bulk edit of a sale's grid may address
  Levels      \* Levels[p]: stock levels of p a seller may type in

ASSUME RequestsAssumption ==
  /\ IsFiniteSet(Requests)
  /\ None \notin Requests \cup Sales
  /\ SaleOf \in [Requests -> Sales]
  /\ Quantity \in [Requests -> [Products -> Nat]]
  /\ \A r \in Requests : \E p \in Products : Quantity[r][p] > 0

ASSUME ProductsAssumption ==
  /\ Products \subseteq Nat
  /\ \E top \in Products : \A p \in Products : p <= top
  /\ Batches \subseteq SUBSET Products
  /\ Levels \in [Products -> SUBSET Nat]

ASSUME SessionsAssumption == Beat \in Sessions

VARIABLES
  orderable,   \* orderable[s]: FlashSale.status is LIVE or SCHEDULED
  window,      \* window[s]: the clock is between start_time and end_time
  link,        \* link[s][p]: the FlashSaleProduct row of s and p
  stock,       \* stock[p]: Product.stock_available
  moved,       \* moved[p]: sum of quantity_change over the movements of p
  net,         \* net[r][p]: the same sum over the movements of order r
  status,      \* Order.status
  delivery,    \* Delivery.status
  collected,   \* orders whose Delivery.cod_collected is True
  unhonored,   \* orders with an UnhonoredOrder row
  old,         \* orders created more than ORDER_PENDING_EXPIRY_HOURS ago
  answer,      \* answer[r]: what the last answer of POST /orders/ told the client of its order
  tx           \* tx[w]: the transaction open in session w

saleVars  == <<orderable, window, link>>
stockVars == <<stock, moved, net>>
orderVars == <<status, delivery, collected, unhonored, old>>
vars == <<saleVars, stockVars, orderVars, answer, tx>>

Statuses   == {"absent", "pending", "confirmed", "out_for_delivery", "delivered", "cancelled"}
Deliveries == {"none", "pending", "in_transit", "delivered", "failed"}
Links      == {"none", "active", "hidden"}
Answers    == {"none", "accepted", "refused"}
Points     == {"idle", "lookup", "sale", "reserve", "candidate", "release", "edit"}

(***************************************************************************)
(* Transactions and row locks.                                             *)
(***************************************************************************)
Web == Sessions \ {Beat}

Transactions ==
  [at : Points, req : Requests \cup {None}, sale : Sales \cup {None},
   todo : SUBSET Products, held : SUBSET Products]

Idle == [at |-> "idle", req |-> None, sale |-> None, todo |-> {}, held |-> {}]

Open(w, point, r, s, ps) ==
  tx' = [tx EXCEPT ![w] = [at |-> point, req |-> r, sale |-> s, todo |-> ps, held |-> {}]]

(* Commit or rollback: either way the row locks of w are released. *)
Close(w) == tx' = [tx EXCEPT ![w] = Idle]

(* Lock the row of product p, for w. *)
Hold(w, p) ==
  tx' = [tx EXCEPT ![w].todo = @ \ {p}, ![w].held = @ \cup {p}]

HoldsSale(w, s)  == tx[w].at = "reserve" /\ tx[w].sale = s
HoldsOrder(w, r) == tx[w].at = "release" /\ tx[w].req = r

SaleFree(s)    == \A w \in Sessions : ~HoldsSale(w, s)
OrderFree(r)   == \A w \in Sessions : ~HoldsOrder(w, r)
ProductFree(p) == \A w \in Sessions : p \notin tx[w].held

(* Rows are locked in the order of their keys: p is the next one of ps. *)
IsNext(p, ps) == p \in ps /\ \A q \in ps : p <= q

(***************************************************************************)
(* Helpers of the handlers.                                                *)
(***************************************************************************)
Items(r) == {p \in Products : Quantity[r][p] > 0}

Accepts(s) == orderable[s] /\ window[s]

(* The active link of the next product to lock, read without a lock. *)
NextListed(s, ps) == \A p \in ps : IsNext(p, ps) => link[s][p] = "active"

(* Mutation: only the first product is given back. *)
OwedFirst(r) == {p \in Products : net[r][p] < 0 /\ \A q \in Products : net[r][q] < 0 => p <= q}

(* What the movements of r say is still out of the stock. *)
Owed(r) == {p \in Products : net[r][p] < 0}

(* The batch puts a product in the sale for the first time. *)
Attaches(w) ==
  /\ tx[w].at = "edit"
  /\ tx[w].todo = {}
  /\ \E p \in tx[w].held : link[tx[w].sale][p] = "none"

(* The answer reaches the client, or is lost on the way. *)
Answer(r, reply) == answer' \in {answer, [answer EXCEPT ![r] = reply]}

(* Mutation: a ValidationError swallowed by the view: success without an order. *)
RefuseSwallowed(w) ==
  /\ Answer(tx[w].req, "accepted")
  /\ Close(w)
  /\ UNCHANGED <<saleVars, stockVars, orderVars>>

(* A ValidationError: rollback, and status 400 for the client. *)
Refuse(w) ==
  /\ Answer(tx[w].req, "refused")
  /\ Close(w)
  /\ UNCHANGED <<saleVars, stockVars, orderVars>>

(* An order is found or created: commit, and status 200 or 201. *)
Accept(w) ==
  /\ Answer(tx[w].req, "accepted")
  /\ Close(w)

Init ==
  /\ orderable \in [Sales -> BOOLEAN]
  /\ window \in [Sales -> BOOLEAN]
  /\ link \in [Sales -> [Products -> {"none", "active"}]]
  /\ stock \in [Products -> UNION {Levels[p] : p \in Products}]
  /\ \A p \in Products : stock[p] \in Levels[p]
  /\ moved = stock
  /\ net = [r \in Requests |-> [p \in Products |-> 0]]
  /\ status = [r \in Requests |-> "absent"]
  /\ delivery = [r \in Requests |-> "none"]
  /\ collected = {}
  /\ unhonored = {}
  /\ old = {}
  /\ answer = [r \in Requests |-> "none"]
  /\ tx = [w \in Sessions |-> Idle]

(***************************************************************************)
(* Mutated operations: what each property would catch, were the code so.   *)
(***************************************************************************)
(* No check of the stock after the lock. *)
ReserveNextUnchecked(w, p) ==
  /\ tx[w].at = "reserve"
  /\ IsNext(p, tx[w].todo)
  /\ ProductFree(p)
  /\ Hold(w, p)
  /\ UNCHANGED <<saleVars, stockVars, orderVars, answer>>

(* No movement for the order. *)
AddOrderUnrecorded(r) ==
  /\ status' = [status EXCEPT ![r] = "pending"]
  /\ delivery' = [delivery EXCEPT ![r] = "pending"]
  /\ stock' = [p \in Products |-> stock[p] - Quantity[r][p]]
  /\ UNCHANGED <<saleVars, moved, net, collected, unhonored, old>>

(* The expiration task expires only orders of sales that are still open. *)
PickStaleOpen(r) ==
  /\ tx[Beat].at = "idle"
  /\ status[r] = "pending"
  /\ r \in old
  /\ Accepts(SaleOf[r])
  /\ Open(Beat, "candidate", r, None, {})
  /\ UNCHANGED <<saleVars, stockVars, orderVars, answer>>

(* The expiration task does not look again once it holds the lock. *)
ExpireOneUnchecked(r) ==
  /\ tx[Beat].at = "candidate"
  /\ tx[Beat].req = r
  /\ OrderFree(r)
  /\ Open(Beat, "release", r, None, Owed(r))
  /\ UNCHANGED <<saleVars, stockVars, orderVars, answer>>

(* The sum of the movements is added with its own sign. *)
CommitReleaseUnsigned(w) ==
  LET r == tx[w].req
      back == [p \in Products |-> IF p \in tx[w].held THEN net[r][p] ELSE 0]
  IN
  /\ tx[w].at = "release"
  /\ tx[w].todo = {}
  /\ stock' = [p \in Products |-> stock[p] + back[p]]
  /\ moved' = [p \in Products |-> moved[p] + back[p]]
  /\ net' = [net EXCEPT ![r] = [p \in Products |-> net[r][p] + back[p]]]
  /\ status' = [status EXCEPT ![r] = "cancelled"]
  /\ Close(w)
  /\ UNCHANGED <<saleVars, delivery, collected, unhonored, old, answer>>

(* The movement of the return does not name the order. *)
CommitReleaseAnonymous(w) ==
  LET r == tx[w].req
      back == [p \in Products |-> IF p \in tx[w].held THEN - net[r][p] ELSE 0]
  IN
  /\ tx[w].at = "release"
  /\ tx[w].todo = {}
  /\ stock' = [p \in Products |-> stock[p] + back[p]]
  /\ moved' = [p \in Products |-> moved[p] + back[p]]
  /\ status' = [status EXCEPT ![r] = "cancelled"]
  /\ Close(w)
  /\ UNCHANGED <<saleVars, net, delivery, collected, unhonored, old, answer>>

(* Any order can be confirmed. *)
ConfirmAny(r) ==
  /\ OrderFree(r)
  /\ status[r] # "absent"
  /\ status' = [status EXCEPT ![r] = "confirmed"]
  /\ UNCHANGED <<saleVars, stockVars, delivery, collected, unhonored, old, answer, tx>>

(* A delivery fails before its order is confirmed. *)
MarkFailedUnconfirmed(r) ==
  /\ OrderFree(r)
  /\ delivery[r] \in {"pending", "in_transit"}
  /\ delivery' = [delivery EXCEPT ![r] = "failed"]
  /\ unhonored' = unhonored \cup {r}
  /\ UNCHANGED <<saleVars, stockVars, status, collected, old, answer, tx>>

(* The rows of a batch are locked in the order the seller lists them. *)
LockForEditUnsorted(w, p) ==
  /\ tx[w].at = "edit"
  /\ p \in tx[w].todo
  /\ ProductFree(p)
  /\ Hold(w, p)
  /\ UNCHANGED <<saleVars, stockVars, orderVars, answer>>

(* The rows of a batch are not locked at all. *)
LockForEditUnlocked(w, p) ==
  /\ tx[w].at = "edit"
  /\ IsNext(p, tx[w].todo)
  /\ Hold(w, p)
  /\ UNCHANGED <<saleVars, stockVars, orderVars, answer>>

(* A correction without its movement. *)
CommitEditUnrecorded(w, level, shown) ==
  LET s == tx[w].sale IN
  /\ tx[w].at = "edit"
  /\ tx[w].todo = {}
  /\ Attaches(w) => SaleFree(s)
  /\ link' = [link EXCEPT ![s] = [p \in Products |-> IF p \in tx[w].held THEN shown[p] ELSE @[p]]]
  /\ stock' = [p \in Products |-> IF p \in tx[w].held THEN level[p] ELSE stock[p]]
  /\ Close(w)
  /\ UNCHANGED <<orderable, window, moved, net, orderVars, answer>>

(* The status of a sale is written without waiting for the orders. *)
WriteSaleStatusUnlocked(s) ==
  /\ orderable' = [orderable EXCEPT ![s] = ~@]
  /\ UNCHANGED <<window, link, stockVars, orderVars, answer, tx>>

(***************************************************************************)
(* POST /api/v1/orders/.                                                   *)
(***************************************************************************)
(* submit_public_order_api: the limit per address (429, which tells the    *)
(* client nothing of the order) comes first, so a retry meets it too.  The *)
(* sale and the link are checked next, before any transaction.  A blocked  *)
(* phone is refused, and the limit per phone applies, only while no row    *)
(* has this client_request_id.                                             *)
Submit(w, r) ==
  LET listed == Accepts(SaleOf[r]) /\ \A p \in Items(r) : link[SaleOf[r]][p] = "active" IN
  /\ tx[w].at = "idle"
  /\ \/ /\ Answer(r, "none")
        /\ UNCHANGED tx
     \/ /\ ~listed \/ status[r] = "absent"
        /\ Answer(r, "refused")
        /\ UNCHANGED tx
     \/ /\ listed
        /\ Open(w, "lookup", r, SaleOf[r], {})
        /\ UNCHANGED answer
  /\ UNCHANGED <<saleVars, stockVars, orderVars>>

(* The row of this client_request_id, if there is one, is the answer. *)
Lookup(w) ==
  /\ tx[w].at = "lookup"
  /\ IF status[tx[w].req] = "absent"
     THEN /\ tx' = [tx EXCEPT ![w].at = "sale"]
          /\ UNCHANGED answer
     ELSE /\ OrderFree(tx[w].req)
          /\ Accept(w)
  /\ UNCHANGED <<saleVars, stockVars, orderVars>>

(* The sale is locked and checked again; the first link is read. *)
LockSale(w) ==
  LET s == tx[w].sale  r == tx[w].req IN
  /\ tx[w].at = "sale"
  /\ SaleFree(s)
  /\ IF Accepts(s) /\ NextListed(s, Items(r))
     THEN /\ Open(w, "reserve", r, s, Items(r))
          /\ UNCHANGED <<saleVars, stockVars, orderVars, answer>>
     ELSE Refuse(w)

(* The next product is locked and its stock checked; the link after it is read. *)
ReserveNext(w, p) ==
  /\ tx[w].at = "reserve"
  /\ IsNext(p, tx[w].todo)
  /\ ProductFree(p)
  /\ IF stock[p] >= Quantity[tx[w].req][p] /\ NextListed(tx[w].sale, tx[w].todo \ {p})
     THEN /\ Hold(w, p)
          /\ UNCHANGED <<saleVars, stockVars, orderVars, answer>>
     ELSE Refuse(w)

(* The new order, its lines, movements and delivery, and the stock taken. *)
AddOrder(r) ==
  /\ status' = [status EXCEPT ![r] = "pending"]
  /\ delivery' = [delivery EXCEPT ![r] = "pending"]
  /\ stock' = [p \in Products |-> stock[p] - Quantity[r][p]]
  /\ moved' = [p \in Products |-> moved[p] - Quantity[r][p]]
  /\ net' = [net EXCEPT ![r] = [p \in Products |-> - Quantity[r][p]]]
  /\ UNCHANGED <<saleVars, collected, unhonored, old>>

(* Mutation: no unique constraint on client_request_id. *)
InsertTwice(w) ==
  /\ tx[w].at = "reserve"
  /\ tx[w].todo = {}
  /\ Accept(w)
  /\ AddOrder(tx[w].req)

(* With every row locked the order is inserted; when another session has   *)
(* inserted the same client_request_id the IntegrityError rolls back and   *)
(* the existing order is the answer.                                       *)
Insert(w) ==
  LET r == tx[w].req IN
  /\ tx[w].at = "reserve"
  /\ tx[w].todo = {}
  /\ IF status[r] # "absent"
     THEN Accept(w) /\ UNCHANGED <<saleVars, stockVars, orderVars>>
     ELSE IF \A p \in Products : stock[p] >= Quantity[r][p]
          THEN Accept(w) /\ AddOrder(r)
          ELSE Refuse(w)

(***************************************************************************)
(* Returning the stock of an order: expiration, cancellation by the seller.*)
(***************************************************************************)
(* The expiration task reads the orders to expire without a lock. *)
PickStale(r) ==
  /\ tx[Beat].at = "idle"
  /\ status[r] = "pending"
  /\ r \in old
  /\ Open(Beat, "candidate", r, None, {})
  /\ UNCHANGED <<saleVars, stockVars, orderVars, answer>>

(* It then locks the order and checks it again. *)
ExpireOne(r) ==
  /\ tx[Beat].at = "candidate"
  /\ tx[Beat].req = r
  /\ OrderFree(r)
  /\ IF status[r] = "pending" /\ r \in old
     THEN Open(Beat, "release", r, None, Owed(r))
     ELSE Close(Beat)
  /\ UNCHANGED <<saleVars, stockVars, orderVars, answer>>

(* advance_delivery("cancel"): the seller, before the parcel has left. *)
CancelBySeller(w, r) ==
  /\ tx[w].at = "idle"
  /\ OrderFree(r)
  /\ status[r] \in {"pending", "confirmed"}
  /\ delivery[r] = "pending"
  /\ Open(w, "release", r, None, Owed(r))
  /\ UNCHANGED <<saleVars, stockVars, orderVars, answer>>

(* release_order_stock locks the products to credit, in order. *)
ReleaseNext(w, p) ==
  /\ tx[w].at = "release"
  /\ IsNext(p, tx[w].todo)
  /\ ProductFree(p)
  /\ Hold(w, p)
  /\ UNCHANGED <<saleVars, stockVars, orderVars, answer>>

(* Each of them gets back what the movements of the order say it owes. *)
CommitRelease(w) ==
  LET r == tx[w].req
      back == [p \in Products |-> IF p \in tx[w].held THEN - net[r][p] ELSE 0]
  IN
  /\ tx[w].at = "release"
  /\ tx[w].todo = {}
  /\ stock' = [p \in Products |-> stock[p] + back[p]]
  /\ moved' = [p \in Products |-> moved[p] + back[p]]
  /\ net' = [net EXCEPT ![r] = [p \in Products |-> net[r][p] + back[p]]]
  /\ status' = [status EXCEPT ![r] = "cancelled"]
  /\ Close(w)
  /\ UNCHANGED <<saleVars, delivery, collected, unhonored, old, answer>>

(***************************************************************************)
(* The other steps of advance_delivery: the delivery and the order are     *)
(* locked, in that order, and written together.                            *)
(***************************************************************************)
Confirm(r) ==
  /\ OrderFree(r)
  /\ status[r] = "pending"
  /\ status' = [status EXCEPT ![r] = "confirmed"]
  /\ UNCHANGED <<saleVars, stockVars, delivery, collected, unhonored, old, answer, tx>>

StartDelivery(r) ==
  /\ OrderFree(r)
  /\ status[r] = "confirmed"
  /\ status' = [status EXCEPT ![r] = "out_for_delivery"]
  /\ delivery' = [delivery EXCEPT ![r] = "in_transit"]
  /\ UNCHANGED <<saleVars, stockVars, collected, unhonored, old, answer, tx>>

MarkDelivered(r, cod) ==
  /\ OrderFree(r)
  /\ status[r] = "out_for_delivery"
  /\ status' = [status EXCEPT ![r] = "delivered"]
  /\ delivery' = [delivery EXCEPT ![r] = "delivered"]
  /\ collected' = IF cod THEN collected \cup {r} ELSE collected \ {r}
  /\ UNCHANGED <<saleVars, stockVars, unhonored, old, answer, tx>>

MarkFailed(r) ==
  /\ OrderFree(r)
  /\ status[r] \in {"confirmed", "out_for_delivery"}
  /\ delivery[r] \in {"pending", "in_transit"}
  /\ delivery' = [delivery EXCEPT ![r] = "failed"]
  /\ unhonored' = unhonored \cup {r}
  /\ UNCHANGED <<saleVars, stockVars, status, collected, old, answer, tx>>

(***************************************************************************)
(* The seller's grid: bulk-update of the products of a sale.               *)
(***************************************************************************)
OpenEdit(w, s, batch) ==
  /\ tx[w].at = "idle"
  /\ Open(w, "edit", None, s, batch)
  /\ UNCHANGED <<saleVars, stockVars, orderVars, answer>>

(* _lock_existing_products_ascending *)
LockForEdit(w, p) ==
  /\ tx[w].at = "edit"
  /\ IsNext(p, tx[w].todo)
  /\ ProductFree(p)
  /\ Hold(w, p)
  /\ UNCHANGED <<saleVars, stockVars, orderVars, answer>>

(* adjust_stock and attach_product_to_sale on each product, then COMMIT.   *)
(* The foreign key of a new link is checked there: PostgreSQL takes a key  *)
(* share lock on the row of the sale, which waits for the FOR UPDATE lock  *)
(* of an order in progress.                                                *)
CommitEdit(w, level, shown) ==
  LET s == tx[w].sale
      added == [p \in Products |-> IF p \in tx[w].held THEN level[p] - stock[p] ELSE 0]
  IN
  /\ tx[w].at = "edit"
  /\ tx[w].todo = {}
  /\ Attaches(w) => SaleFree(s)
  /\ link' = [link EXCEPT ![s] = [p \in Products |-> IF p \in tx[w].held THEN shown[p] ELSE @[p]]]
  /\ stock' = [p \in Products |-> stock[p] + added[p]]
  /\ moved' = [p \in Products |-> moved[p] + added[p]]
  /\ Close(w)
  /\ UNCHANGED <<orderable, window, net, orderVars, answer>>

(* A line of the batch leaves the stock alone when it gives none. *)
FinishEdit(w) ==
  \E shown \in [tx[w].held -> {"active", "hidden"}], typed \in SUBSET tx[w].held :
    \E level \in [typed -> UNION {Levels[p] : p \in typed}] :
      /\ \A p \in typed : level[p] \in Levels[p]
      /\ CommitEdit(w, [p \in Products |-> IF p \in typed THEN level[p] ELSE stock[p]], shown)

(***************************************************************************)
(* The environment: the sale's status, the clock, failures.                *)
(***************************************************************************)
(* open_sale, close_sale, complete_sale, cancel_sale and the periodic      *)
(* tasks: an UPDATE of the sale's row waits for the lock of an order.      *)
WriteSaleStatus(s) ==
  /\ SaleFree(s)
  /\ orderable' = [orderable EXCEPT ![s] = ~@]
  /\ UNCHANGED <<window, link, stockVars, orderVars, answer, tx>>

(* start_time or end_time passes. *)
PassTime(s) ==
  /\ window' = [window EXCEPT ![s] = ~@]
  /\ UNCHANGED <<orderable, link, stockVars, orderVars, answer, tx>>

(* An order gets older than ORDER_PENDING_EXPIRY_HOURS. *)
Age(r) ==
  /\ status[r] = "pending"
  /\ r \notin old
  /\ old' = old \cup {r}
  /\ UNCHANGED <<saleVars, stockVars, status, delivery, collected, unhonored, answer, tx>>

(* The process dies, a line of a batch is invalid, or PostgreSQL breaks a  *)
(* deadlock: the transaction is rolled back and the client reads nothing.  *)
Abort(w) ==
  /\ tx[w].at # "idle"
  /\ Close(w)
  /\ UNCHANGED <<saleVars, stockVars, orderVars, answer>>

(***************************************************************************)
(* The specification.                                                      *)
(***************************************************************************)
Ordering(w) ==
  \/ \E r \in Requests : Submit(w, r)
  \/ Lookup(w)
  \/ LockSale(w)
  \/ \E p \in Products : ReserveNext(w, p)
  \/ Insert(w)

Releasing(w) ==
  \/ \E p \in Products : ReleaseNext(w, p)
  \/ CommitRelease(w)

Editing(w) ==
  \/ \E s \in Sales, batch \in Batches : OpenEdit(w, s, batch)
  \/ \E p \in Products : LockForEdit(w, p)
  \/ FinishEdit(w)

Delivering(r) ==
  \/ Confirm(r)
  \/ StartDelivery(r)
  \/ \E cod \in BOOLEAN : MarkDelivered(r, cod)
  \/ MarkFailed(r)

Next ==
  \/ \E w \in Web : Ordering(w) \/ Editing(w) \/ \E r \in Requests : CancelBySeller(w, r)
  \/ \E r \in Requests : PickStale(r) \/ ExpireOne(r)
  \/ \E w \in Sessions : Releasing(w) \/ Abort(w)
  \/ \E r \in Requests : Delivering(r) \/ Age(r)
  \/ \E s \in Sales : WriteSaleStatus(s) \/ PassTime(s)

Spec == Init /\ [][Next]_vars

(***************************************************************************)
(* Fairness.  A session that has a transaction open goes on with it or     *)
(* loses it (a request times out, PostgreSQL breaks a deadlock).  The      *)
(* expiration task runs again and again over every order, it is not killed *)
(* in the middle of every one of its runs, and a row lock that is free     *)
(* again and again is granted to it: PostgreSQL queues those who wait.     *)
(***************************************************************************)
Continue(w) == tx[w].at # "idle" /\ (Ordering(w) \/ Editing(w) \/ Releasing(w) \/ Abort(w))

Fairness ==
  /\ \A w \in Web : WF_vars(Continue(w))
  /\ <>[][~Abort(Beat)]_vars
  /\ SF_vars(\E p \in Products : ReleaseNext(Beat, p))
  /\ WF_vars(CommitRelease(Beat))
  /\ \A r \in Requests : SF_vars(PickStale(r)) /\ SF_vars(ExpireOne(r))

FairSpec == Spec /\ Fairness

(***************************************************************************)
(* Invariants.                                                             *)
(***************************************************************************)
(* Every variable has its type. *)
TypeOK ==
  /\ orderable \in [Sales -> BOOLEAN]
  /\ window \in [Sales -> BOOLEAN]
  /\ link \in [Sales -> [Products -> Links]]
  /\ stock \in [Products -> Nat]
  /\ moved \in [Products -> Int]
  /\ net \in [Requests -> [Products -> Int]]
  /\ status \in [Requests -> Statuses]
  /\ delivery \in [Requests -> Deliveries]
  /\ collected \subseteq Requests
  /\ unhonored \subseteq Requests
  /\ old \subseteq Requests
  /\ answer \in [Requests -> Answers]
  /\ tx \in [Sessions -> Transactions]

(* The stock shown to buyers is the sum of the recorded movements, through *)
(* orders, expirations, cancellations and corrections that interleave.     *)
StockLedger == \A p \in Products : stock[p] = moved[p]

(* An order that is alive is out of the stock exactly once, and one that   *)
(* was cancelled or expired was given back exactly once, whoever ends it.  *)
LedgerMatchesOrders ==
  \A r \in Requests, p \in Products :
    net[r][p] = IF status[r] \in {"absent", "cancelled"} THEN 0 ELSE - Quantity[r][p]

(* A product locked for an order covers the order until the commit: the    *)
(* guard stock_available__gte of the final UPDATE never has to refuse.     *)
LockedStockSuffices ==
  \A w \in Sessions : tx[w].at = "reserve" =>
    \A p \in tx[w].held : stock[p] >= Quantity[tx[w].req][p]

(* The two state machines written by advance_delivery agree, and only a    *)
(* delivered parcel has its cash collected.                                *)
OrderMatchesDelivery ==
  \A r \in Requests :
    /\ delivery[r] = "none" <=> status[r] = "absent"
    /\ delivery[r] = "delivered" <=> status[r] = "delivered"
    /\ delivery[r] = "in_transit" => status[r] = "out_for_delivery"
    /\ delivery[r] = "failed" => status[r] \in {"confirmed", "out_for_delivery"} /\ r \in unhonored
    /\ status[r] = "out_for_delivery" => delivery[r] \in {"in_transit", "failed"}
    /\ r \in collected => status[r] = "delivered"

(* orders/models.py:112-114 of the record of a failed delivery: "Une       *)
(* commande ensuite annulee par le vendeur ne compte plus".  So the seller *)
(* may cancel the order of a failed parcel.                                *)
UnhonoredMayBeCancelled ==
  \A r \in unhonored, w \in Web :
    tx[w].at = "idle" /\ OrderFree(r) /\ status[r] # "cancelled" => ENABLED CancelBySeller(w, r)

(* What the client was told exists: no answer 200 or 201 is sent for an    *)
(* order that was rolled back.                                             *)
AcceptedExists == \A r \in Requests : answer[r] = "accepted" => status[r] # "absent"

(* Session w waits for a row lock that session v holds. *)
WaitsFor(w, v) ==
  \/ tx[w].at = "sale" /\ HoldsSale(v, tx[w].sale)
  \/ Attaches(w) /\ HoldsSale(v, tx[w].sale)
  \/ tx[w].at = "lookup" /\ HoldsOrder(v, tx[w].req)
  \/ tx[w].at = "candidate" /\ HoldsOrder(v, tx[w].req)
  \/ \E p \in tx[w].todo : IsNext(p, tx[w].todo) /\ p \in tx[v].held

Deadlocked(group) ==
  /\ group # {}
  /\ \A w \in group : \E v \in group : WaitsFor(w, v)

(* Products are locked in one order everywhere (sorted ids): sessions that *)
(* wait for one another always include one that attaches a new product.    *)
OnlyAttachDeadlocks ==
  \A group \in SUBSET Sessions : Deadlocked(group) => \E w \in group : Attaches(w)

(* products/api.py:147-148 and stock_release.py:27 promise that the lock   *)
(* order of create_order, followed everywhere, leaves no deadlock.         *)
NoDeadlock == \A group \in SUBSET Sessions : ~Deadlocked(group)

(***************************************************************************)
(* Action properties.                                                      *)
(***************************************************************************)
(* Closing or cancelling a sale waits for the orders in progress: none is  *)
(* inserted into a sale whose status no longer takes orders.               *)
NoOrderAfterClose ==
  [][\A r \in Requests : status[r] = "absent" /\ status'[r] # "absent" => orderable[SaleOf[r]]]_vars

(* The expiration task, which lists orders before it locks them, cancels   *)
(* only orders that are still pending and too old when it commits.         *)
ExpiryRespectsConfirm ==
  [][\A r \in Requests :
       status[r] # "cancelled" /\ status'[r] = "cancelled" =>
         \E w \in Sessions : HoldsOrder(w, r) /\ (w = Beat => status[r] = "pending" /\ r \in old)]_vars

(* docs/API_CONTRACT.md:12,133: POST /orders/ is safe to retry with the    *)
(* same client_request_id, so a client never reads that an order of its    *)
(* own, which exists, is refused.                                          *)
RetrySafe ==
  [][\A r \in Requests : answer[r] # "refused" /\ answer'[r] = "refused" => status[r] = "absent"]_vars

(* An order never comes back from delivered or cancelled, whatever retries *)
(* of the same request, sweeps and seller actions are in progress.         *)
FinalIsFinal ==
  [][\A r \in Requests : status[r] \in {"delivered", "cancelled"} => status'[r] = status[r]]_vars

(***************************************************************************)
(* Liveness, and the abstract specification.                               *)
(***************************************************************************)
(* An order too old and still pending is confirmed or cancelled some day.  *)
StaleOrdersEnd ==
  \A r \in Requests : status[r] = "pending" /\ r \in old ~> status[r] # "pending"

(* Where the basket of an order is, given the status of the order. *)
Phase(st) ==
  CASE st = "absent"    -> "none"
    [] st = "cancelled" -> "returned"
    [] st = "delivered" -> "sold"
    [] OTHER            -> "held"

phaseOf == [r \in Requests |-> Phase(status[r])]

Abstract == INSTANCE Inventory WITH phase <- phaseOf

(* Locks, retries, sweeps and crashes implement the promise of Inventory.  *)
ImplementsInventory == Abstract!InventorySpec

=============================================================================
