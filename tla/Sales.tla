--------------------------------- MODULE Sales ---------------------------------
(***************************************************************************)
(* The life of the flash sales of one seller (flash_sales/models.py,       *)
(* services/crud.py, services/rules.py, services/ordering.py, tasks.py).   *)
(*                                                                         *)
(* No request of the seller and no task takes a lock or a transaction: it  *)
(* reads the sale and counts the others, and saves later, the fields its   *)
(* save names or the whole row.  job[h] is the save that h has still to do.*)
(*                                                                         *)
(* raced is a history variable: no action reads it.  It records the sales  *)
(* that two workers had in flight, read and not yet saved, at one moment.  *)
(*                                                                         *)
(* Abstractions: what a handler reads before it saves is read at one       *)
(* instant, except the lists of the tasks, read before their sales are     *)
(* handled one by one.  All happens in one month, under one plan.  Edits   *)
(* in the Django admin, which may set any status, are left out.            *)
(***************************************************************************)
EXTENDS Integers, FiniteSets

CONSTANTS
  Sales,         \* the sales of the seller, created or to be
  Handlers,      \* web workers
  Opener,        \* the task auto_open_scheduled_sales
  Day,           \* the length of a day
  MaxDuration,   \* MAX_DURATION_MINUTES
  MaxDailySales, \* MAX_DAILY_SALES
  Quota,         \* monthly limit of the plan
  CloneDelay,    \* a clone is scheduled this much later
  Horizon        \* bound on the clock and on the windows

ASSUME SalesAssumption ==
  /\ {Day, MaxDuration, MaxDailySales, Quota, CloneDelay, Horizon} \subseteq Nat
  /\ Day > 0 /\ MaxDuration > 0
  /\ Opener \notin Handlers
  /\ IsFiniteSet(Sales)

VARIABLES
  now,         \* the time
  sale,        \* sale[s]: the row of FlashSale
  withOrders,  \* sales that have orders
  job,         \* job[h]: the save that h is about to do
  opening,     \* what is left of the list of auto_open_scheduled_sales
  closing,     \* what is left of the list of auto_close_live_sales
  raced        \* raced: {s, t} if two workers had s and t, or both s ({s}), in flight

salesVars == <<now, sale, withOrders, job, opening, closing, raced>>

Times     == 0..Horizon
Workers   == Handlers \cup {Opener}
Statuses  == {"scheduled", "live", "closed", "cancelled"}
Orderable == {"scheduled", "live"}

Span     == [start: Times, stop: Times]
Legal(w) == w.start < w.stop /\ w.stop - w.start <= MaxDuration

Nowhen  == [start |-> 0, stop |-> 0]
Absent  == [status |-> "absent", window |-> Nowhen]
Row     == [status: Statuses \cup {"absent"}, window: Span]

(* A save of the status only keeps the window of the row. *)
Kept  == [start |-> 0, stop |-> -1]
NoJob == [at |-> "idle"]
Job   == [at: {"save"}, sale: Sales, status: Statuses, window: Span \cup {Kept}]
Copy  == [sale: Sales, window: Span]

SalesInit ==
  /\ now = 0
  /\ sale = [s \in Sales |-> Absent]
  /\ withOrders = {}
  /\ job = [h \in Workers |-> NoJob]
  /\ opening = {}
  /\ closing = {}
  /\ raced = {}

(***************************************************************************)
(* services/rules.py                                                       *)
(***************************************************************************)
Exists(s)      == sale[s].status # "absent"
Overlap(v, w)  == v.start < w.stop /\ w.start < v.stop
DayOf(w)       == w.start \div Day
Running(s)    == sale[s].window.start <= now /\ now <= sale[s].window.stop

(* The other sales that count: cancelled ones do not. *)
Others(s) == {t \in Sales \ {s} : sale[t].status \notin {"absent", "cancelled"}}

OfDay(d)       == {t \in Sales : DayOf(sale[t].window) = d}
DayFree(s, w)  == Cardinality(Others(s) \cap OfDay(DayOf(w))) < MaxDailySales
SlotFree(s, w) == \A t \in Others(s) : ~Overlap(sale[t].window, w)

QuotaLeft(s) == Cardinality(Others(s)) < Quota

(* Mutations: windows that meet, or the other sales of the day, are not    *)
(* looked for.                                                             *)
CreationRulesAnySlot(s, w) == Legal(w) /\ DayFree(s, w)
CreationRulesAnyDay(s, w) == Legal(w) /\ SlotFree(s, w)

CreationRules(s, w) == Legal(w) /\ DayFree(s, w) /\ SlotFree(s, w)

(***************************************************************************)
(* Requests of the seller.                                                 *)
(***************************************************************************)
(* What h has read and may still save. *)
InFlight(h) ==
  {s \in Sales : job[h] # NoJob /\ job[h].sale = s}
    \cup {s \in Sales : h = Opener /\ \E c \in opening : c.sale = s}

Elsewhere(h) == UNION {InFlight(g) : g \in Workers \ {h}}

Races(h, S) == raced' = raced \cup {{s, t} : s \in S, t \in Elsewhere(h)}

WillSave(h, s, status, w) ==
  /\ job[h] = NoJob
  /\ job' = [job EXCEPT ![h] = [at |-> "save", sale |-> s, status |-> status, window |-> w]]
  /\ Races(h, {s})
  /\ UNCHANGED <<now, sale, withOrders>>

(* A row that no request is about to insert. *)
Fresh(s) == ~Exists(s) /\ \A h \in Workers : job[h] # NoJob => job[h].sale # s

Create(h, s, w) ==
  /\ Fresh(s)
  /\ now <= w.start
  /\ CreationRules(s, w) /\ QuotaLeft(s)
  /\ WillSave(h, s, "scheduled", w)
  /\ UNCHANGED <<opening, closing>>

Later == [start |-> now + CloneDelay, stop |-> now + CloneDelay + MaxDuration]

Clone(h, s, from) ==
  /\ Fresh(s)
  /\ Exists(from)
  /\ Later.stop <= Horizon
  /\ CreationRules(s, Later) /\ QuotaLeft(s)
  /\ WillSave(h, s, "scheduled", Later)
  /\ UNCHANGED <<opening, closing>>

(* The whole row is saved, the status that was read included. *)
Update(h, s, w) ==
  /\ sale[s].status = "scheduled"
  /\ now <= w.start
  /\ CreationRules(s, w)
  /\ WillSave(h, s, "scheduled", w)
  /\ UNCHANGED <<opening, closing>>

(* The window of a sale opened early begins now and lasts as long. *)
Advanced(w) == [start |-> now, stop |-> now + (w.stop - w.start)]

(* Mutation: only the status is saved. *)
OpeningStatusOnly(w) == Kept

(* Mutation: the end is not saved. *)
OpeningStartOnly(w) == IF now < w.start THEN [start |-> now, stop |-> w.stop] ELSE Kept

Opening(w) == IF now < w.start THEN Advanced(w) ELSE Kept

OpeningRules(s, w) ==
  CreationRules(s, IF now < w.start THEN Advanced(w) ELSE w) /\ QuotaLeft(s)

(* Mutation: a closed sale may be opened too. *)
OpenSaleAgain(h, s) ==
  /\ sale[s].status \in {"scheduled", "closed"}
  /\ OpeningRules(s, sale[s].window)
  /\ WillSave(h, s, "live", Opening(sale[s].window))
  /\ UNCHANGED <<opening, closing>>

OpenSale(h, s) ==
  /\ sale[s].status = "scheduled"
  /\ OpeningRules(s, sale[s].window)
  /\ WillSave(h, s, "live", Opening(sale[s].window))
  /\ UNCHANGED <<opening, closing>>

(* Whatever the status. *)
CloseSale(h, s) ==
  /\ Exists(s)
  /\ WillSave(h, s, "closed", Kept)
  /\ UNCHANGED <<opening, closing>>

CancelSale(h, s) ==
  /\ sale[s].status = "scheduled" /\ ~Running(s)
  /\ s \notin withOrders
  /\ WillSave(h, s, "cancelled", Kept)
  /\ UNCHANGED <<opening, closing>>

Saved(row, j) ==
  [status |-> j.status, window |-> IF j.window = Kept THEN row.window ELSE j.window]

Save(h) ==
  /\ job[h] # NoJob
  /\ sale' = [sale EXCEPT ![job[h].sale] = Saved(@, job[h])]
  /\ job' = [job EXCEPT ![h] = NoJob]
  /\ UNCHANGED <<now, withOrders, opening, closing, raced>>

(* A worker stops before it saves. *)
Crash(h) ==
  /\ job[h] # NoJob
  /\ job' = [job EXCEPT ![h] = NoJob]
  /\ UNCHANGED <<now, sale, withOrders, opening, closing, raced>>

(***************************************************************************)
(* Tasks of Celery beat, every minute.                                     *)
(***************************************************************************)
Due ==
  {s \in Sales : /\ sale[s].status = "scheduled"
                 /\ sale[s].window.start <= now
                 /\ now < sale[s].window.stop}

OpenerRead ==
  /\ opening = {} /\ job[Opener] = NoJob
  /\ opening' = {[sale |-> s, window |-> sale[s].window] : s \in Due}
  /\ Races(Opener, Due)
  /\ UNCHANGED <<now, sale, withOrders, job, closing>>

(* open_sale, on the copy of the list.  If refused, the sale stays as it is. *)
OpenerNext(c) ==
  /\ c \in opening /\ job[Opener] = NoJob
  /\ opening' = opening \ {c}
  /\ IF OpeningRules(c.sale, c.window)
       THEN WillSave(Opener, c.sale, "live", Opening(c.window))
       ELSE UNCHANGED <<now, sale, withOrders, job, raced>>
  /\ UNCHANGED closing

Late == {s \in Sales : sale[s].status = "live" /\ sale[s].window.stop <= now}

CloserRead ==
  /\ closing = {}
  /\ closing' = Late
  /\ UNCHANGED <<now, sale, withOrders, job, opening, raced>>

CloserNext(s) ==
  /\ s \in closing
  /\ closing' = closing \ {s}
  /\ sale' = [sale EXCEPT ![s].status = "closed"]
  /\ UNCHANGED <<now, withOrders, job, opening, raced>>

(* The worker of the tasks stops: their lists are lost. *)
TasksCrash ==
  /\ opening # {} \/ closing # {}
  /\ opening' = {}
  /\ closing' = {}
  /\ UNCHANGED <<now, sale, withOrders, job, raced>>

(***************************************************************************)
(* Customers and time.                                                     *)
(***************************************************************************)
(* assert_flash_sale_accepts_orders; the saves of the sale wait meanwhile. *)
PlaceOrder(s) ==
  /\ s \notin withOrders
  /\ sale[s].status \in Orderable /\ Running(s)
  /\ withOrders' = withOrders \cup {s}
  /\ UNCHANGED <<now, sale, job, opening, closing, raced>>

Tick ==
  /\ now < Horizon
  /\ now' = now + 1
  /\ UNCHANGED <<sale, withOrders, job, opening, closing, raced>>

SalesNext ==
  \/ \E h \in Handlers, s \in Sales :
       \/ OpenSale(h, s) \/ CloseSale(h, s) \/ CancelSale(h, s)
       \/ \E from \in Sales : Clone(h, s, from)
       \/ \E w \in Span : Create(h, s, w) \/ Update(h, s, w)
  \/ \E h \in Workers : Save(h) \/ Crash(h)
  \/ OpenerRead \/ CloserRead \/ TasksCrash
  \/ \E c \in opening : OpenerNext(c)
  \/ \E s \in Sales : CloserNext(s) \/ PlaceOrder(s)
  \/ Tick

SalesSpec == SalesInit /\ [][SalesNext]_salesVars

-----------------------------------------------------------------------------
SalesTypeOK ==
  /\ now \in Times
  /\ sale \in [Sales -> Row]
  /\ withOrders \subseteq Sales
  /\ job \in [Workers -> {NoJob} \cup Job]
  /\ opening \subseteq Copy
  /\ closing \subseteq Sales
  /\ raced \subseteq SUBSET Sales

(* The window of a sale starts before it ends and is not longer than two   *)
(* hours, though saves of the status, of the window and of the whole row,  *)
(* prepared from older rows, follow one another in any order.              *)
WindowIsLegal == \A s \in Sales : Exists(s) => Legal(sale[s].window)

(* Sales whose status lets them take orders. *)
Open == {s \in Sales : sale[s].status \in Orderable}

(* No two sales of S were ever in flight at one moment. *)
Unraced(S) == \A s, t \in S : s # t => {s, t} \notin raced

(* Whatever else runs at the same time, two sales that may take orders     *)
(* overlap only if two workers once had these very sales in flight: no     *)
(* creation, clone, edit, early opening, stale copy of the task or closing *)
(* late leads there alone.                                                 *)
OrderableDisjoint ==
  \A s, t \in Open : Unraced({s, t}) /\ s # t => ~Overlap(sale[s].window, sale[t].window)

(* Likewise for the quota of the plan and the limit of the day: sales that *)
(* were not in flight together keep to both.                               *)
SalesWithinLimits ==
  \A S \in SUBSET Open :
    Unraced(S) => /\ Cardinality(S) <= Quota
                  /\ \A d \in Times : Cardinality(S \cap OfDay(d)) <= MaxDailySales

(* A live sale has begun, and its customers may order as its seller was    *)
(* told, unless two workers had that sale in flight, as when the task      *)
(* opens a sale while an edit moves it.                                    *)
LiveHasStarted ==
  \A s \in Sales : sale[s].status = "live" => sale[s].window.start <= now \/ {s} \in raced

Earlier(status) ==
  CASE status = "live" -> {"scheduled"}
    [] status \in {"closed", "cancelled"} -> Orderable
    [] OTHER -> {}

(* A sale that was opened, closed or cancelled never goes back, unless two *)
(* workers had it in flight and one saved what it had read before.         *)
NoWayBack ==
  [][\A s \in Sales :
       sale'[s].status \in Earlier(sale[s].status) => {s} \in raced]_salesVars
=============================================================================
