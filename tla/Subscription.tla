----------------------------- MODULE Subscription -----------------------------
(***************************************************************************)
(* Payment of a HayaFlash subscription through Orange Money                *)
(* (subscriptions/services/payment.py, billing_views.py, views.py,         *)
(* tasks.py), for one seller: rows of different sellers never meet.        *)
(*                                                                         *)
(* Orange Money may tell of a payment in three ways that race one another: *)
(* a webhook, the browser that comes back, and a task every five minutes.  *)
(* Each of them reads the payment, asks Orange for its state over the      *)
(* network and only then opens a transaction.  A session is in tx[w]       *)
(* between its read and its write; what the transaction does under its row *)
(* locks is one action.  An instance is never read again between the two,  *)
(* and every handler goes on only if it read PENDING, so that what a       *)
(* session has read need not be kept.                                      *)
(***************************************************************************)
EXTENDS Integers, FiniteSets, FiniteSetsExt

CONSTANTS
  Payments,     \* rows of SubscriptionPayment
  Plans,        \* paid plans
  Free,         \* the plan of a seller who never paid
  Days,         \* Days[plan]: duration of the plan
  SpecialPlan,  \* the plan of the seller's special price
  SpecialDays,  \* duration at the special price
  MaxUses,      \* payments the special price is meant for
  TrialPlan,    \* the plan offered to a partner on trial
  TrialDays,    \* PARTNER_TRIAL_DAYS
  Sessions,     \* web workers and the Celery worker of the status check
  Beat,         \* the session that runs check_pending_orange_payments
  Horizon       \* bound on the clock

ASSUME PlansAssumption ==
  /\ Free \notin Plans
  /\ {SpecialPlan, TrialPlan} \subseteq Plans
  /\ Days \in [Plans -> Nat \ {0}]
  /\ {SpecialDays, TrialDays} \subseteq Nat \ {0}
  /\ MaxUses \in Nat

ASSUME SessionsAssumption == Beat \in Sessions

ASSUME PaymentsAssumption == IsFiniteSet(Payments)

VARIABLES
  status,       \* SubscriptionPayment.status
  bought,       \* bought[p]: the plan p pays for
  special,      \* payments at the special price (price_override)
  known,        \* payments with the pay_token and the notif_token of Orange
  recent,       \* payments of less than PENDING_CHECK_WINDOW
  orange,       \* orange[p]: what Orange Money says of p
  plan,         \* Subscription.plan
  expires,      \* Subscription.expires_at
  now,          \* the clock
  uses,         \* SellerPriceOverride.uses_count
  offered,      \* the special price is active and in its period
  trial,        \* the trial of the seller was granted
  activations,  \* activations[p]: times p activated the subscription
  undone,       \* undone[p]: times a SUCCESS of p was overwritten
  tx            \* tx[w]: what session w has read and not written yet

paymentVars == <<status, bought, special, known, recent>>
planVars    == <<plan, expires, uses, activations>>
worldVars   == <<orange, now, offered, trial>>
vars == <<paymentVars, planVars, worldVars, undone, tx>>

Statuses == {"absent", "pending", "success", "failed", "cancelled", "expired"}
Points   == {"idle", "initiate", "ask", "cancel", "fail"}

Web  == Sessions \ {Beat}
Idle == [at |-> "idle", todo |-> {}]

Read(w, point, ps) ==
  /\ tx[w].at = "idle"
  /\ tx' = [tx EXCEPT ![w] = [at |-> point, todo |-> ps]]

(* w has dealt with p. *)
Done(w, p) ==
  LET left == tx[w].todo \ {p} IN
  tx' = [tx EXCEPT ![w] = IF left = {} THEN Idle ELSE [at |-> tx[w].at, todo |-> left]]

(* Subscription.is_paid *)
IsPaid == plan # Free /\ expires >= now

(* A seller who never paid, or whose plan has ended. *)
Init ==
  /\ status = [p \in Payments |-> "absent"]
  /\ bought \in [Payments -> Plans]
  /\ special = {}
  /\ known = {}
  /\ recent = {}
  /\ orange = [p \in Payments |-> "open"]
  /\ plan \in Plans \cup {Free}
  /\ expires = 0
  /\ now = 1
  /\ uses = 0
  /\ offered \in BOOLEAN
  /\ trial = FALSE
  /\ activations = [p \in Payments |-> 0]
  /\ undone = [p \in Payments |-> 0]
  /\ tx = [w \in Sessions |-> Idle]

(***************************************************************************)
(* Initiation.                                                             *)
(***************************************************************************)
(* The price is quoted and the row created, before Orange is asked.  A     *)
(* special price is refused while a paid subscription runs.                *)
Create(w, p) ==
  LET quoted == offered /\ bought[p] = SpecialPlan /\ uses < MaxUses IN
  /\ status[p] = "absent"
  /\ quoted => ~IsPaid
  /\ Read(w, "initiate", {p})
  /\ status' = [status EXCEPT ![p] = "pending"]
  /\ special' = IF quoted THEN special \cup {p} ELSE special
  /\ recent' = recent \cup {p}
  /\ UNCHANGED <<bought, known, planVars, worldVars, undone>>

(* Orange answers with its tokens, which are saved. *)
Redirect(w, p) ==
  /\ tx[w].at = "initiate"
  /\ p \in tx[w].todo
  /\ known' = known \cup {p}
  /\ Done(w, p)
  /\ UNCHANGED <<status, bought, special, recent, planVars, worldVars, undone>>

(* Or it refuses: OrangeMoneyError. *)
FailInitiation(w, p) ==
  /\ tx[w].at = "initiate"
  /\ p \in tx[w].todo
  /\ status' = [status EXCEPT ![p] = "failed"]
  /\ Done(w, p)
  /\ UNCHANGED <<bought, special, known, recent, planVars, worldVars, undone>>

(***************************************************************************)
(* Whoever hears of a payment reads it first.                              *)
(***************************************************************************)
(* billing_return_view, payment_return_view: the browser is back.  The     *)
(* webhook with a SUCCESS does the same, since a webhook proves nothing.   *)
AskForOne(w, p) ==
  /\ p \in known
  /\ status[p] = "pending"
  /\ Read(w, "ask", {p})
  /\ UNCHANGED <<paymentVars, planVars, worldVars, undone>>

(* Mutation: the window is on the wrong side. *)
PollOld ==
  /\ \E p \in Payments \ recent : status[p] = "pending"
  /\ Read(Beat, "ask", {p \in Payments \ recent : status[p] = "pending"})
  /\ UNCHANGED <<paymentVars, planVars, worldVars, undone>>

(* check_pending_orange_payments evaluates its queryset once. *)
Poll ==
  /\ \E p \in recent : status[p] = "pending"
  /\ Read(Beat, "ask", {p \in recent : status[p] = "pending"})
  /\ UNCHANGED <<paymentVars, planVars, worldVars, undone>>

(* billing_cancel_view, payment_cancel_view. *)
OpenCancel(w, p) ==
  /\ p \in known
  /\ status[p] = "pending"
  /\ Read(w, "cancel", {p})
  /\ UNCHANGED <<paymentVars, planVars, worldVars, undone>>

(* A webhook says anything but SUCCESS.  Orange is not asked, so that this *)
(* need not be what Orange knows of the payment.                           *)
OpenFailure(w, p) ==
  /\ p \in known
  /\ status[p] = "pending"
  /\ Read(w, "fail", {p})
  /\ UNCHANGED <<paymentVars, planVars, worldVars, undone>>

(***************************************************************************)
(* Then it writes.                                                         *)
(***************************************************************************)
(* How long the subscription runs once p is paid. *)
NewExpiry(p) ==
  IF p \in special THEN now + SpecialDays
  ELSE IF plan = bought[p] /\ expires > now THEN expires + Days[bought[p]]
  ELSE now + Days[bought[p]]

Extend(p) ==
  /\ plan' = bought[p]
  /\ expires' = NewExpiry(p)

(* Mutations: no look at the locked row; no look at the subscription. *)
ActivateAgain(p) ==
  /\ status' = [status EXCEPT ![p] = "success"]
  /\ activations' = [activations EXCEPT ![p] = @ + 1]
  /\ uses' = IF p \in special THEN uses + 1 ELSE uses
  /\ IF p \in special /\ IsPaid THEN UNCHANGED <<plan, expires>> ELSE Extend(p)

ActivateSpecial(p) ==
  IF status[p] = "success"
  THEN UNCHANGED <<status, planVars>>
  ELSE /\ status' = [status EXCEPT ![p] = "success"]
       /\ activations' = [activations EXCEPT ![p] = @ + 1]
       /\ uses' = IF p \in special THEN uses + 1 ELSE uses
       /\ Extend(p)

(* activate_subscription_from_payment, under the locks of the payment, of  *)
(* the special price and of the subscription.                              *)
Activate(p) ==
  IF status[p] = "success"
  THEN UNCHANGED <<status, planVars>>
  ELSE /\ status' = [status EXCEPT ![p] = "success"]
       /\ activations' = [activations EXCEPT ![p] = @ + 1]
       /\ uses' = IF p \in special THEN uses + 1 ELSE uses
       /\ IF p \in special /\ IsPaid THEN UNCHANGED <<plan, expires>> ELSE Extend(p)

(* Mutation: the state is written as Orange spells it. *)
FailRaw(p, st) ==
  /\ status' = IF status[p] = "pending" THEN [status EXCEPT ![p] = IF st = "failed" THEN "FAILED" ELSE "EXPIRED"] ELSE status
  /\ UNCHANGED planVars

(* A final failure is written only over PENDING, under the lock. *)
Fail(p, st) ==
  /\ status' = IF status[p] = "pending" THEN [status EXCEPT ![p] = st] ELSE status
  /\ UNCHANGED planVars

(* Mutation: the status of Orange is taken for a SUCCESS whatever it is. *)
ApplyAnything(w, p) ==
  /\ tx[w].at = "ask"
  /\ p \in tx[w].todo \cap known
  /\ Activate(p)
  /\ Done(w, p)
  /\ UNCHANGED <<bought, special, known, recent, worldVars, undone>>

(* sync_orange_payment_status: Orange answers with a final state. *)
Apply(w, p) ==
  /\ tx[w].at = "ask"
  /\ p \in tx[w].todo \cap known
  /\ orange[p] # "open"
  /\ IF orange[p] = "paid" THEN Activate(p) ELSE Fail(p, orange[p])
  /\ Done(w, p)
  /\ UNCHANGED <<bought, special, known, recent, worldVars, undone>>

(* No pay_token, no network, another amount, or nothing final yet. *)
LearnNothing(w, p) ==
  /\ tx[w].at = "ask"
  /\ p \in tx[w].todo
  /\ Done(w, p)
  /\ UNCHANGED <<paymentVars, planVars, worldVars, undone>>

(* payment.save() of an instance read before: the whole row is written. *)
SaveOver(w, p, st) ==
  /\ status' = [status EXCEPT ![p] = st]
  /\ undone' = [undone EXCEPT ![p] = IF status[p] = "success" THEN @ + 1 ELSE @]
  /\ Done(w, p)
  /\ UNCHANGED <<bought, special, known, recent, planVars, worldVars>>

SaveCancel(w, p) ==
  /\ tx[w].at = "cancel"
  /\ p \in tx[w].todo
  /\ SaveOver(w, p, "cancelled")

SaveFailure(w, p) ==
  /\ tx[w].at = "fail"
  /\ p \in tx[w].todo
  /\ SaveOver(w, p, "failed")

(***************************************************************************)
(* The environment.                                                        *)
(***************************************************************************)
(* What happens on the page of Orange is final there. *)
Decide(p) ==
  /\ p \in known
  /\ orange[p] = "open"
  /\ \E st \in {"paid", "failed", "expired"} : orange' = [orange EXCEPT ![p] = st]
  /\ UNCHANGED <<paymentVars, planVars, now, offered, trial, undone, tx>>

Tick ==
  /\ now < Horizon
  /\ now' = now + 1
  /\ UNCHANGED <<paymentVars, planVars, orange, offered, trial, undone, tx>>

LeaveWindow(p) ==
  /\ p \in recent
  /\ recent' = recent \ {p}
  /\ UNCHANGED <<status, bought, special, known, planVars, worldVars, undone, tx>>

(* The staff starts or ends the special price. *)
Offer ==
  /\ offered' = ~offered
  /\ UNCHANGED <<paymentVars, planVars, orange, now, trial, undone, tx>>

(* grant_pro_trial, once for a seller and never over a paid subscription. *)
GrantTrial ==
  /\ ~trial
  /\ ~IsPaid
  /\ trial' = TRUE
  /\ plan' = TrialPlan
  /\ expires' = now + TrialDays
  /\ UNCHANGED <<paymentVars, uses, activations, orange, now, offered, undone, tx>>

(* The process dies: what it read is lost. *)
Crash(w) ==
  /\ tx[w].at # "idle"
  /\ tx' = [tx EXCEPT ![w] = Idle]
  /\ UNCHANGED <<paymentVars, planVars, worldVars, undone>>

(***************************************************************************)
(* The specification.                                                      *)
(***************************************************************************)
Initiating(w, p) == Create(w, p) \/ Redirect(w, p) \/ FailInitiation(w, p)
Hearing(w, p)    == AskForOne(w, p) \/ OpenCancel(w, p) \/ OpenFailure(w, p)
Writing(w, p)    == Apply(w, p) \/ LearnNothing(w, p) \/ SaveCancel(w, p) \/ SaveFailure(w, p)

Next ==
  \/ \E w \in Web, p \in Payments : Initiating(w, p) \/ Hearing(w, p)
  \/ Poll
  \/ \E w \in Sessions, p \in Payments : Writing(w, p)
  \/ \E w \in Sessions : Crash(w)
  \/ \E p \in Payments : Decide(p) \/ LeaveWindow(p)
  \/ Tick \/ Offer \/ GrantTrial

Spec == Init /\ [][Next]_vars

(* The task runs again and again, each run ends, and Orange answers some   *)
(* day: a network that fails for ever would leave a payment pending.       *)
Fairness ==
  /\ WF_vars(Poll)
  /\ WF_vars(\E p \in Payments : Writing(Beat, p))
  /\ \A p \in Payments : SF_vars(Apply(Beat, p))

FairSpec == Spec /\ Fairness

(***************************************************************************)
(* Properties.                                                             *)
(***************************************************************************)
(* Every variable has its type. *)
TypeOK ==
  /\ status \in [Payments -> Statuses]
  /\ bought \in [Payments -> Plans]
  /\ special \subseteq Payments
  /\ known \subseteq Payments
  /\ recent \subseteq Payments
  /\ orange \in [Payments -> {"open", "paid", "failed", "expired"}]
  /\ plan \in Plans \cup {Free}
  /\ expires \in Nat
  /\ now \in Nat
  /\ uses \in Nat
  /\ offered \in BOOLEAN
  /\ trial \in BOOLEAN
  /\ activations \in [Payments -> Nat]
  /\ undone \in [Payments -> Nat]
  /\ tx \in [Sessions -> [at : Points, todo : SUBSET Payments]]

(* A payment gives a plan only when Orange was paid, whatever webhooks,    *)
(* returns, cancellations and polls race.                                  *)
OnlyPaidActivates ==
  \A p \in Payments : status[p] = "success" \/ activations[p] > 0 => orange[p] = "paid"

(* The lock of activate_subscription_from_payment keeps webhook, return    *)
(* page and task from extending twice: a payment activates again only      *)
(* after a SUCCESS of it was overwritten by the save of a stale instance.  *)
AgainOnlyIfUndone ==
  \A p \in Payments : activations[p] = undone[p] + (IF status[p] = "success" THEN 1 ELSE 0)

(* payment.py:276,284-287: "Idempotent", a second caller sees SUCCESS and  *)
(* leaves, so that a payment extends the subscription once.                *)
ActivatedOnce == \A p \in Payments : activations[p] <= 1

(* DaysPaid[p]: days that p has paid for at the official price. *)
DaysPaid ==
  [p \in Payments |-> IF p \in special THEN 0 ELSE activations[p] * Days[bought[p]]]

OneOfficialPlan(P) ==
  \A p \in Payments \ special : activations[p] > 0 => bought[p] = P

(* A seller who pays the official price of one plan gets all the days paid *)
(* for, one payment after the other, whatever trials and special prices,   *)
(* initiated before or after, come in between.  (A payment of another plan *)
(* does replace what is left of the present one: payment.py:335-342.)      *)
PaidDaysGiven ==
  \A P \in Plans :
    OneOfficialPlan(P) => MapThenSumSet(LAMBDA p : DaysPaid[p], Payments) <= expires

(* A payment Orange has cashed does not stay pending, with no webhook and  *)
(* a browser that never comes back, unless it is too old for the task.     *)
CashedIsSettled ==
  \A p \in Payments :
    orange[p] = "paid" /\ status[p] = "pending" ~> status[p] # "pending" \/ p \notin recent

=============================================================================
