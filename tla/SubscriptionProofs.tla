-------------------------- MODULE SubscriptionProofs --------------------------
(***************************************************************************)
(* Proofs about Subscription, for any number of payments and sessions.     *)
(***************************************************************************)
EXTENDS Subscription, SumLemmas, TLAPS

(***************************************************************************)
(* The inductive invariant.                                                *)
(***************************************************************************)
(* A payment whose initiation is in progress is pending, belongs to one    *)
(* session only, and Orange has not told its tokens yet.                   *)
Initiated ==
  /\ \A w \in Sessions : tx[w].at = "initiate" =>
       \A p \in tx[w].todo : status[p] = "pending" /\ p \notin known
  /\ \A w, v \in Sessions : w # v /\ tx[w].at = "initiate" /\ tx[v].at = "initiate" =>
       tx[w].todo \cap tx[v].todo = {}

(* Only a payment known to Orange can be paid, cancelled or reported.      *)
Known ==
  /\ \A w \in Sessions : tx[w].at \in {"cancel", "fail"} => tx[w].todo \subseteq known
  /\ \A p \in Payments : orange[p] # "open" => p \in known

(* A payment Orange knows has a row. *)
Stored == \A p \in known : status[p] # "absent"

IndInv == TypeOK /\ Initiated /\ Known /\ Stored /\ OnlyPaidActivates /\ AgainOnlyIfUndone

(***************************************************************************)
(* What a step does to the sessions.                                       *)
(***************************************************************************)
(* Reading opens a session, which was idle. *)
LEMMA ReadTx ==
  ASSUME TypeOK, NEW w \in Sessions, NEW point \in Points, NEW ps \in SUBSET Payments, Read(w, point, ps)
  PROVE  /\ tx' \in [Sessions -> [at : Points, todo : SUBSET Payments]]
         /\ tx'[w] = [at |-> point, todo |-> ps]
         /\ \A v \in Sessions : v # w => tx'[v] = tx[v]
BY DEF Read, TypeOK

(* Dealing with a payment takes it off the list of the session. *)
LEMMA DoneTx ==
  ASSUME TypeOK, NEW w \in Sessions, NEW p \in Payments, p \in tx[w].todo, Done(w, p)
  PROVE  /\ tx' \in [Sessions -> [at : Points, todo : SUBSET Payments]]
         /\ tx'[w].at = tx[w].at \/ tx'[w].at = "idle"
         /\ tx'[w].todo = tx[w].todo \ {p}
         /\ \A v \in Sessions : v # w => tx'[v] = tx[v]
<1>1. tx[w] \in [at : Points, todo : SUBSET Payments]
  BY DEF TypeOK
<1>2. CASE tx[w].todo \ {p} = {}
  <2>1. tx' = [tx EXCEPT ![w] = Idle]
    BY <1>2 DEF Done
  <2>2. Idle \in [at : Points, todo : SUBSET Payments]
    BY DEF Idle, Points
  <2> QED
    BY <1>2, <2>1, <2>2 DEF TypeOK, Idle
<1>3. CASE tx[w].todo \ {p} # {}
  <2>1. tx' = [tx EXCEPT ![w] = [at |-> tx[w].at, todo |-> tx[w].todo \ {p}]]
    BY <1>3 DEF Done
  <2> QED
    BY <1>1, <2>1 DEF TypeOK
<1> QED
  BY <1>2, <1>3

(* The sessions keep to the invariant when one of them gets on with what   *)
(* it has read and no payment of an initiation is touched.                 *)
LEMMA SessionsKept ==
  ASSUME IndInv, NEW w \in Sessions,
         tx' \in [Sessions -> [at : Points, todo : SUBSET Payments]],
         tx'[w].at = tx[w].at \/ tx'[w].at = "idle",
         tx'[w].todo \subseteq tx[w].todo,
         \A v \in Sessions : v # w => tx'[v] = tx[v],
         \A v \in Sessions : tx'[v].at = "initiate" =>
           \A p \in tx'[v].todo : status'[p] = status[p] /\ (p \in known' => p \in known),
         known \subseteq known', orange' = orange
  PROVE  Initiated' /\ Known'
<1>1. ASSUME NEW v \in Sessions
      PROVE  /\ tx'[v].at = tx[v].at \/ tx'[v].at = "idle"
             /\ tx'[v].todo \subseteq tx[v].todo
  BY DEF IndInv, TypeOK
<1>2. Initiated'
  <2>1. ASSUME NEW v \in Sessions, tx'[v].at = "initiate", NEW p \in tx'[v].todo
        PROVE  status'[p] = "pending" /\ p \notin known'
    BY <1>1, <2>1 DEF IndInv, Initiated
  <2>2. ASSUME NEW v \in Sessions, NEW u \in Sessions, v # u, tx'[v].at = "initiate", tx'[u].at = "initiate"
        PROVE  tx'[v].todo \cap tx'[u].todo = {}
    <3>1. tx[v].at = "initiate" /\ tx[u].at = "initiate"
      BY <1>1, <2>2
    <3>2. tx[v].todo \cap tx[u].todo = {}
      BY <2>2, <3>1 DEF IndInv, Initiated
    <3> QED
      BY <1>1, <3>2
  <2> QED
    BY <2>1, <2>2 DEF Initiated
<1>3. Known'
  <2>1. ASSUME NEW v \in Sessions, tx'[v].at \in {"cancel", "fail"}
        PROVE  tx'[v].todo \subseteq known'
    BY <1>1, <2>1 DEF IndInv, Known
  <2> QED
    BY <2>1 DEF IndInv, Known
<1> QED
  BY <1>2, <1>3

(***************************************************************************)
(* The invariant holds initially.                                          *)
(***************************************************************************)
(* The invariant holds before any payment. *)
LEMMA InitIndInv == Init => IndInv
<1> SUFFICES ASSUME Init PROVE IndInv
  OBVIOUS
<1>1. \A w \in Sessions : tx[w] = Idle
  BY DEF Init
<1>2. TypeOK
  BY DEF Init, TypeOK, Idle, Points, Statuses
<1>3. Initiated /\ Known /\ Stored
  BY <1>1 DEF Init, Initiated, Known, Stored, Idle
<1>4. OnlyPaidActivates /\ AgainOnlyIfUndone
  BY DEF Init, OnlyPaidActivates, AgainOnlyIfUndone
<1> QED
  BY <1>2, <1>3, <1>4 DEF IndInv

(***************************************************************************)
(* Initiation.                                                             *)
(***************************************************************************)
(* A new payment is in no session and unknown to Orange. *)
LEMMA CreateStep ==
  ASSUME IndInv, NEW w \in Web, NEW p \in Payments, Create(w, p)
  PROVE  IndInv'
<1>w. w \in Sessions /\ "initiate" \in Points /\ Read(w, "initiate", {p})
  BY DEF Web, Points, Create
<1>1. /\ tx' \in [Sessions -> [at : Points, todo : SUBSET Payments]]
      /\ tx'[w] = [at |-> "initiate", todo |-> {p}]
      /\ \A v \in Sessions : v # w => tx'[v] = tx[v]
  BY <1>w, ReadTx DEF IndInv
<1>2. status' \in [Payments -> Statuses] /\ status'[p] = "pending" /\ status[p] = "absent"
      /\ \A q \in Payments : q # p => status'[q] = status[q]
  BY DEF Create, IndInv, TypeOK, Statuses
<1>3. UNCHANGED <<bought, known, plan, expires, uses, activations, orange, now, offered, trial, undone>>
  BY DEF Create, planVars, worldVars
<1>4. TypeOK'
  BY <1>1, <1>2, <1>3 DEF Create, IndInv, TypeOK
<1>5. p \notin known
  BY <1>2 DEF IndInv, Stored
<1>6. \A v \in Sessions : tx[v].at = "initiate" => p \notin tx[v].todo
  BY <1>2 DEF IndInv, Initiated
<1>7. Initiated'
  <2>1. ASSUME NEW v \in Sessions, tx'[v].at = "initiate", NEW q \in tx'[v].todo
        PROVE  status'[q] = "pending" /\ q \notin known'
    <3>1. CASE v = w
      BY <1>1, <1>2, <1>3, <1>5, <2>1, <3>1
    <3>2. CASE v # w
      <4>1. tx[v].at = "initiate" /\ q \in tx[v].todo
        BY <1>1, <2>1, <3>2
      <4>2. q # p /\ q \in Payments /\ status[q] = "pending" /\ q \notin known
        BY <1>6, <4>1 DEF IndInv, Initiated, TypeOK
      <4> QED
        BY <1>2, <1>3, <4>2
    <3> QED
      BY <3>1, <3>2
  <2>2. ASSUME NEW v \in Sessions, NEW u \in Sessions, v # u, tx'[v].at = "initiate", tx'[u].at = "initiate"
        PROVE  tx'[v].todo \cap tx'[u].todo = {}
    <3>1. CASE v # w /\ u # w
      BY <1>1, <2>2, <3>1 DEF IndInv, Initiated
    <3>2. CASE v = w \/ u = w
      BY <1>1, <1>6, <2>2, <3>2
    <3> QED
      BY <3>1, <3>2
  <2> QED
    BY <2>1, <2>2 DEF Initiated
<1>8. Known' /\ Stored'
  BY <1>1, <1>2, <1>3 DEF IndInv, TypeOK, Known, Stored
<1>9. OnlyPaidActivates' /\ AgainOnlyIfUndone'
  BY <1>2, <1>3 DEF IndInv, OnlyPaidActivates, AgainOnlyIfUndone
<1> QED
  BY <1>4, <1>7, <1>8, <1>9 DEF IndInv

(* The tokens of a payment are saved once its only session has them. *)
LEMMA RedirectStep ==
  ASSUME IndInv, NEW w \in Web, NEW p \in Payments, Redirect(w, p)
  PROVE  IndInv'
<1>w. w \in Sessions /\ tx[w].at = "initiate" /\ p \in tx[w].todo
  BY DEF Web, Redirect
<1>1. /\ tx' \in [Sessions -> [at : Points, todo : SUBSET Payments]]
      /\ tx'[w].at = tx[w].at \/ tx'[w].at = "idle"
      /\ tx'[w].todo = tx[w].todo \ {p}
      /\ \A v \in Sessions : v # w => tx'[v] = tx[v]
  BY <1>w, DoneTx DEF IndInv, Redirect
<1>2. known' = known \cup {p}
  BY DEF Redirect
<1>3. UNCHANGED <<status, bought, special, recent, plan, expires, uses, activations, orange, now, offered, trial, undone>>
  BY DEF Redirect, planVars, worldVars
<1>4. TypeOK'
  BY <1>1, <1>2, <1>3 DEF IndInv, TypeOK
<1>5. ASSUME NEW v \in Sessions, tx'[v].at = "initiate" PROVE p \notin tx'[v].todo
  <2>1. CASE v = w
    BY <1>1, <2>1
  <2>2. CASE v # w
    BY <1>w, <1>1, <1>5, <2>2 DEF IndInv, Initiated
  <2> QED
    BY <2>1, <2>2
<1>6. Initiated' /\ Known'
  <2>1. \A v \in Sessions : tx'[v].at = "initiate" =>
          \A q \in tx'[v].todo : status'[q] = status[q] /\ (q \in known' => q \in known)
    BY <1>2, <1>3, <1>5
  <2> QED
    BY <1>w, <1>1, <1>2, <1>3, <2>1, SessionsKept
<1>7. Stored'
  BY <1>w, <1>2, <1>3 DEF IndInv, Initiated, Stored
<1>8. OnlyPaidActivates' /\ AgainOnlyIfUndone'
  BY <1>3 DEF IndInv, OnlyPaidActivates, AgainOnlyIfUndone
<1> QED
  BY <1>4, <1>6, <1>7, <1>8 DEF IndInv

(* A refused initiation fails a payment that is pending for sure. *)
LEMMA FailInitiationStep ==
  ASSUME IndInv, NEW w \in Web, NEW p \in Payments, FailInitiation(w, p)
  PROVE  IndInv'
<1>w. w \in Sessions /\ tx[w].at = "initiate" /\ p \in tx[w].todo
  BY DEF Web, FailInitiation
<1>1. /\ tx' \in [Sessions -> [at : Points, todo : SUBSET Payments]]
      /\ tx'[w].at = tx[w].at \/ tx'[w].at = "idle"
      /\ tx'[w].todo = tx[w].todo \ {p}
      /\ \A v \in Sessions : v # w => tx'[v] = tx[v]
  BY <1>w, DoneTx DEF IndInv, FailInitiation
<1>2. status' \in [Payments -> Statuses] /\ status'[p] = "failed" /\ status[p] = "pending"
      /\ \A q \in Payments : q # p => status'[q] = status[q]
  BY <1>w DEF FailInitiation, IndInv, TypeOK, Initiated, Statuses
<1>3. UNCHANGED <<bought, special, known, recent, plan, expires, uses, activations, orange, now, offered, trial, undone>>
  BY DEF FailInitiation, planVars, worldVars
<1>4. TypeOK'
  BY <1>1, <1>2, <1>3 DEF IndInv, TypeOK
<1>5. ASSUME NEW v \in Sessions, tx'[v].at = "initiate" PROVE p \notin tx'[v].todo
  <2>1. CASE v = w
    BY <1>1, <2>1
  <2>2. CASE v # w
    BY <1>w, <1>1, <1>5, <2>2 DEF IndInv, Initiated
  <2> QED
    BY <2>1, <2>2
<1>6. Initiated' /\ Known'
  <2>1. ASSUME NEW v \in Sessions, tx'[v].at = "initiate", NEW q \in tx'[v].todo
        PROVE  status'[q] = status[q]
    <3>1. q # p /\ q \in Payments
      BY <1>1, <1>5, <2>1
    <3> QED
      BY <1>2, <3>1
  <2> QED
    BY <1>w, <1>1, <1>3, <2>1, SessionsKept
<1>7. Stored'
  BY <1>2, <1>3 DEF IndInv, TypeOK, Stored
<1>8. OnlyPaidActivates' /\ AgainOnlyIfUndone'
  BY <1>2, <1>3 DEF IndInv, OnlyPaidActivates, AgainOnlyIfUndone
<1> QED
  BY <1>4, <1>6, <1>7, <1>8 DEF IndInv

(***************************************************************************)
(* Reading, and steps that leave the payments alone.                       *)
(***************************************************************************)
(* A session that reads payments disturbs nothing. *)
LEMMA ReadStep ==
  ASSUME IndInv, NEW w \in Sessions, NEW point \in {"ask", "cancel", "fail"}, NEW ps \in SUBSET Payments,
         Read(w, point, ps), point \in {"cancel", "fail"} => ps \subseteq known,
         UNCHANGED <<paymentVars, planVars, worldVars, undone>>
  PROVE  IndInv'
<1>1. /\ tx' \in [Sessions -> [at : Points, todo : SUBSET Payments]]
      /\ tx'[w] = [at |-> point, todo |-> ps]
      /\ \A v \in Sessions : v # w => tx'[v] = tx[v]
  BY ReadTx DEF IndInv, Points
<1>2. TypeOK'
  BY <1>1 DEF IndInv, TypeOK, paymentVars, planVars, worldVars
<1>3. \A v \in Sessions : tx'[v].at = "initiate" => v # w /\ tx[v] = tx'[v]
  BY <1>1
<1>4. Initiated'
  BY <1>3 DEF IndInv, Initiated, paymentVars
<1>5. Known' /\ Stored'
  BY <1>1 DEF IndInv, Known, Stored, paymentVars, worldVars
<1>6. OnlyPaidActivates' /\ AgainOnlyIfUndone'
  BY DEF IndInv, OnlyPaidActivates, AgainOnlyIfUndone, paymentVars, planVars, worldVars
<1> QED
  BY <1>2, <1>4, <1>5, <1>6 DEF IndInv

(* The return page, the two webhooks and the cancellation page read one    *)
(* payment, the task a set of them.                                        *)
LEMMA HearingStep ==
  ASSUME IndInv, \/ \E w \in Web, p \in Payments : Hearing(w, p)
                 \/ Poll
  PROVE  IndInv'
<1>1. ASSUME NEW w \in Web, NEW p \in Payments, Hearing(w, p) PROVE IndInv'
  <2>1. w \in Sessions /\ p \in known /\ {p} \in SUBSET Payments
        /\ UNCHANGED <<paymentVars, planVars, worldVars, undone>>
    BY <1>1 DEF Web, Hearing, AskForOne, OpenCancel, OpenFailure
  <2>2. \E point \in {"ask", "cancel", "fail"} : Read(w, point, {p})
    BY <1>1 DEF Hearing, AskForOne, OpenCancel, OpenFailure
  <2> QED
    BY <2>1, <2>2, ReadStep
<1>2. ASSUME Poll PROVE IndInv'
  <2>1. {p \in recent : status[p] = "pending"} \in SUBSET Payments
    BY DEF IndInv, TypeOK
  <2>2. Read(Beat, "ask", {p \in recent : status[p] = "pending"})
        /\ UNCHANGED <<paymentVars, planVars, worldVars, undone>>
    BY <1>2 DEF Poll
  <2> QED
    BY <2>1, <2>2, ReadStep, SessionsAssumption
<1> QED
  BY <1>1, <1>2

(* An answer that says nothing ends the turn of a payment. *)
LEMMA LearnNothingStep ==
  ASSUME IndInv, NEW w \in Sessions, NEW p \in Payments, LearnNothing(w, p)
  PROVE  IndInv'
<1>1. /\ tx' \in [Sessions -> [at : Points, todo : SUBSET Payments]]
      /\ tx'[w].at = tx[w].at \/ tx'[w].at = "idle"
      /\ tx'[w].todo = tx[w].todo \ {p}
      /\ \A v \in Sessions : v # w => tx'[v] = tx[v]
  BY DoneTx DEF IndInv, LearnNothing
<1>2. UNCHANGED <<paymentVars, planVars, worldVars, undone>>
  BY DEF LearnNothing
<1>3. TypeOK'
  BY <1>1, <1>2 DEF IndInv, TypeOK, paymentVars, planVars, worldVars
<1>4. Initiated' /\ Known'
  BY <1>1, <1>2, SessionsKept DEF paymentVars, worldVars
<1>5. Stored' /\ OnlyPaidActivates' /\ AgainOnlyIfUndone'
  BY <1>2 DEF IndInv, Stored, OnlyPaidActivates, AgainOnlyIfUndone, paymentVars, planVars, worldVars
<1> QED
  BY <1>3, <1>4, <1>5 DEF IndInv

(* A session that dies forgets what it has read. *)
LEMMA CrashStep ==
  ASSUME IndInv, NEW w \in Sessions, Crash(w)
  PROVE  IndInv'
<1>1. /\ tx' \in [Sessions -> [at : Points, todo : SUBSET Payments]]
      /\ tx'[w].at = "idle" /\ tx'[w].todo \subseteq tx[w].todo
      /\ \A v \in Sessions : v # w => tx'[v] = tx[v]
  BY DEF Crash, Idle, Points, IndInv, TypeOK
<1>2. UNCHANGED <<paymentVars, planVars, worldVars, undone>>
  BY DEF Crash
<1>3. TypeOK'
  BY <1>1, <1>2 DEF IndInv, TypeOK, paymentVars, planVars, worldVars
<1>4. Initiated' /\ Known'
  BY <1>1, <1>2, SessionsKept DEF paymentVars, worldVars
<1>5. Stored' /\ OnlyPaidActivates' /\ AgainOnlyIfUndone'
  BY <1>2 DEF IndInv, Stored, OnlyPaidActivates, AgainOnlyIfUndone, paymentVars, planVars, worldVars
<1> QED
  BY <1>3, <1>4, <1>5 DEF IndInv

(***************************************************************************)
(* Writing.                                                                *)
(***************************************************************************)
(* A write to the status of a payment Orange knows, by a session that has  *)
(* read it, is told from an initiation.                                    *)
LEMMA WriteStep ==
  ASSUME IndInv, NEW w \in Sessions, NEW p \in known, p \in tx[w].todo, Done(w, p),
         TypeOK',
         status'[p] # "absent", \A q \in Payments : q # p => status'[q] = status[q],
         known' = known, orange' = orange,
         OnlyPaidActivates', AgainOnlyIfUndone'
  PROVE  IndInv'
<1>p. p \in Payments
  BY DEF IndInv, TypeOK
<1>1. /\ tx' \in [Sessions -> [at : Points, todo : SUBSET Payments]]
      /\ tx'[w].at = tx[w].at \/ tx'[w].at = "idle"
      /\ tx'[w].todo = tx[w].todo \ {p}
      /\ \A v \in Sessions : v # w => tx'[v] = tx[v]
  BY <1>p, DoneTx DEF IndInv
<1>2. ASSUME NEW v \in Sessions, tx'[v].at = "initiate", NEW q \in tx'[v].todo
      PROVE  status'[q] = status[q]
  <2>1. tx[v].at = "initiate" /\ q \in tx[v].todo /\ q \in Payments
    BY <1>1, <1>2 DEF IndInv, TypeOK
  <2>2. q # p
    BY <2>1 DEF IndInv, Initiated
  <2> QED
    BY <2>1, <2>2
<1>3. Initiated' /\ Known'
  BY <1>1, <1>2, SessionsKept
<1>4. Stored'
  BY DEF IndInv, TypeOK, Stored
<1> QED
  BY <1>3, <1>4 DEF IndInv

(* The end of the subscription is a date. *)
LEMMA NewExpiryType ==
  ASSUME TypeOK, NEW p \in Payments
  PROVE  NewExpiry(p) \in Nat
<1>1. bought[p] \in Plans /\ Days[bought[p]] \in Nat /\ SpecialDays \in Nat /\ now \in Nat /\ expires \in Nat
  BY PlansAssumption DEF TypeOK
<1> QED
  BY <1>1 DEF NewExpiry

(* A first activation writes SUCCESS and counts once. *)
LEMMA FirstActivation ==
  ASSUME TypeOK, NEW p \in Payments, Activate(p), status[p] # "success"
  PROVE  /\ status' = [status EXCEPT ![p] = "success"]
         /\ activations' = [activations EXCEPT ![p] = @ + 1]
         /\ uses' \in Nat
         /\ plan' \in Plans \cup {Free} /\ expires' \in Nat
<1>1. status' = [status EXCEPT ![p] = "success"] /\ activations' = [activations EXCEPT ![p] = @ + 1]
  BY DEF Activate
<1>2. UNCHANGED <<plan, expires>> \/ Extend(p)
  BY DEF Activate
<1>3. plan' \in Plans \cup {Free} /\ expires' \in Nat
  <2>1. CASE UNCHANGED <<plan, expires>>
    BY <2>1 DEF TypeOK
  <2>2. CASE Extend(p)
    BY <2>2, NewExpiryType DEF Extend, TypeOK
  <2> QED
    BY <1>2, <2>1, <2>2
<1>4. uses' = IF p \in special THEN uses + 1 ELSE uses
  BY DEF Activate
<1>5. uses' \in Nat
  BY <1>4 DEF TypeOK
<1> QED
  BY <1>1, <1>3, <1>5

(* A final answer of Orange activates once, or fails what is pending. *)
LEMMA ApplyStep ==
  ASSUME IndInv, NEW w \in Sessions, NEW p \in Payments, Apply(w, p)
  PROVE  IndInv'
<1>1. p \in known /\ p \in tx[w].todo /\ Done(w, p)
  BY DEF Apply
<1>2. UNCHANGED <<bought, special, known, recent, orange, now, offered, trial, undone>>
  BY DEF Apply, worldVars
<1>3. tx' \in [Sessions -> [at : Points, todo : SUBSET Payments]]
  BY <1>1, DoneTx DEF IndInv
<1>4. status[p] # "absent" /\ orange[p] \in {"paid", "failed", "expired"}
  BY <1>1 DEF Apply, IndInv, Stored, TypeOK
<1>5. CASE status[p] # "success" /\ orange[p] = "paid"
  <2>1. Activate(p)
    BY <1>5 DEF Apply
  <2>2. /\ status' = [status EXCEPT ![p] = "success"]
        /\ activations' = [activations EXCEPT ![p] = @ + 1]
        /\ uses' \in Nat /\ plan' \in Plans \cup {Free} /\ expires' \in Nat
    BY <1>5, <2>1, FirstActivation DEF IndInv
  <2>3. status' \in [Payments -> Statuses] /\ activations' \in [Payments -> Nat]
    BY <2>2 DEF IndInv, TypeOK, Statuses
  <2>4. TypeOK'
    BY <1>2, <1>3, <2>2, <2>3 DEF IndInv, TypeOK
  <2>5. OnlyPaidActivates'
    BY <1>2, <1>5, <2>2 DEF IndInv, TypeOK, OnlyPaidActivates
  <2>6. AgainOnlyIfUndone'
    <3>1. ASSUME NEW q \in Payments
          PROVE  activations'[q] = undone'[q] + (IF status'[q] = "success" THEN 1 ELSE 0)
      <4>1. activations[q] = undone[q] + (IF status[q] = "success" THEN 1 ELSE 0)
        BY DEF IndInv, AgainOnlyIfUndone
      <4>2. undone' = undone /\ undone[q] \in Nat /\ activations[q] \in Nat
        BY <1>2 DEF IndInv, TypeOK
      <4>3. CASE q = p
        <5>1. activations'[p] = activations[p] + 1 /\ status'[p] = "success"
          BY <2>2 DEF IndInv, TypeOK
        <5> QED
          BY <1>5, <4>1, <4>2, <4>3, <5>1
      <4>4. CASE q # p
        BY <2>2, <4>1, <4>2, <4>4 DEF IndInv, TypeOK
      <4> QED
        BY <4>3, <4>4
    <3> QED
      BY <3>1 DEF AgainOnlyIfUndone
  <2>7. status'[p] # "absent" /\ \A q \in Payments : q # p => status'[q] = status[q]
    BY <2>2 DEF IndInv, TypeOK
  <2> QED
    BY <1>1, <1>2, <2>4, <2>5, <2>6, <2>7, WriteStep
<1>6. CASE status[p] = "success" \/ orange[p] # "paid"
  <2>1. UNCHANGED planVars /\ (status' = status \/ (status[p] = "pending" /\ status' = [status EXCEPT ![p] = orange[p]]))
    BY <1>4, <1>6 DEF Apply, Activate, Fail
  <2>2. \/ status' = status
        \/ /\ status[p] = "pending" /\ status'[p] = orange[p] /\ orange[p] \in {"failed", "expired"}
           /\ status' \in [Payments -> Statuses]
           /\ \A q \in Payments : q # p => status'[q] = status[q]
    BY <1>4, <1>6, <2>1 DEF IndInv, TypeOK, Statuses
  <2>3. TypeOK'
    BY <1>2, <1>3, <2>1, <2>2 DEF IndInv, TypeOK, planVars
  <2>4. OnlyPaidActivates' /\ AgainOnlyIfUndone'
    BY <1>2, <2>1, <2>2 DEF IndInv, OnlyPaidActivates, AgainOnlyIfUndone, planVars
  <2>5. status'[p] # "absent" /\ \A q \in Payments : q # p => status'[q] = status[q]
    BY <1>4, <2>2
  <2> QED
    BY <1>1, <1>2, <2>3, <2>4, <2>5, WriteStep
<1> QED
  BY <1>5, <1>6

(* The save of a stale instance counts the SUCCESS it overwrites. *)
LEMMA SaveOverStep ==
  ASSUME IndInv, NEW w \in Sessions, NEW p \in Payments, SaveCancel(w, p) \/ SaveFailure(w, p)
  PROVE  IndInv'
<1>1. /\ tx[w].at \in {"cancel", "fail"} /\ p \in tx[w].todo
      /\ \E st \in {"cancelled", "failed"} : SaveOver(w, p, st)
  BY DEF SaveCancel, SaveFailure
<1>2. PICK st \in {"cancelled", "failed"} : SaveOver(w, p, st)
  BY <1>1
<1>3. p \in known /\ Done(w, p)
  BY <1>1, <1>2 DEF IndInv, Known, SaveOver
<1>4. UNCHANGED <<bought, special, known, recent, planVars, worldVars>>
  BY <1>2 DEF SaveOver
<1>5. /\ status' = [status EXCEPT ![p] = st]
      /\ undone' = [undone EXCEPT ![p] = IF status[p] = "success" THEN @ + 1 ELSE @]
  BY <1>2 DEF SaveOver
<1>6. status'[p] = st /\ \A q \in Payments : q # p => status'[q] = status[q]
  BY <1>5 DEF IndInv, TypeOK
<1>7. TypeOK'
  <2>1. tx' \in [Sessions -> [at : Points, todo : SUBSET Payments]]
    BY <1>1, <1>3, DoneTx DEF IndInv
  <2>2. status' \in [Payments -> Statuses] /\ undone' \in [Payments -> Nat]
    BY <1>5 DEF IndInv, TypeOK, Statuses
  <2> QED
    BY <1>4, <2>1, <2>2 DEF IndInv, TypeOK, planVars, worldVars
<1>8. OnlyPaidActivates'
  BY <1>4, <1>6 DEF IndInv, OnlyPaidActivates, planVars, worldVars
<1>9. AgainOnlyIfUndone'
  <2>1. ASSUME NEW q \in Payments
        PROVE  activations'[q] = undone'[q] + (IF status'[q] = "success" THEN 1 ELSE 0)
    <3>1. /\ activations[q] = undone[q] + (IF status[q] = "success" THEN 1 ELSE 0)
          /\ activations' = activations /\ undone[q] \in Nat
      BY <1>4 DEF IndInv, TypeOK, AgainOnlyIfUndone, planVars
    <3>2. CASE q = p
      <4>1. undone'[p] = undone[p] + (IF status[p] = "success" THEN 1 ELSE 0)
        BY <1>5, <3>1, <3>2 DEF IndInv, TypeOK
      <4> QED
        BY <1>6, <3>1, <3>2, <4>1
    <3>3. CASE q # p
      BY <1>5, <1>6, <3>1, <3>3 DEF IndInv, TypeOK
    <3> QED
      BY <3>2, <3>3
  <2> QED
    BY <2>1 DEF AgainOnlyIfUndone
<1> QED
  BY <1>1, <1>3, <1>4, <1>6, <1>7, <1>8, <1>9, WriteStep DEF worldVars

(***************************************************************************)
(* The environment, and all steps together.                                *)
(***************************************************************************)
(* Orange, the clock, the staff and the trial leave payments alone. *)
LEMMA WorldStep ==
  ASSUME IndInv, (\E p \in Payments : Decide(p) \/ LeaveWindow(p)) \/ Tick \/ Offer \/ GrantTrial
  PROVE  IndInv'
<1>1. UNCHANGED <<status, bought, special, known, uses, activations, undone, tx>>
  BY DEF Decide, LeaveWindow, Tick, Offer, GrantTrial, paymentVars, planVars, worldVars
<1>2. TypeOK' /\ \A q \in Payments : orange'[q] = orange[q] \/ (orange[q] = "open" /\ q \in known)
  <2>1. CASE \E p \in Payments : Decide(p)
    <3>1. PICK p \in Payments : Decide(p)
      BY <2>1
    <3>2. PICK st \in {"paid", "failed", "expired"} : orange' = [orange EXCEPT ![p] = st]
      BY <3>1 DEF Decide
    <3>3. orange' \in [Payments -> {"open", "paid", "failed", "expired"}]
      BY <3>2 DEF IndInv, TypeOK
    <3>4. UNCHANGED <<recent, plan, expires, now, offered, trial>>
      BY <3>1 DEF Decide, paymentVars, planVars
    <3>5. TypeOK'
      BY <1>1, <3>3, <3>4 DEF IndInv, TypeOK
    <3>6. orange[p] = "open" /\ p \in known
      BY <3>1 DEF Decide
    <3> QED
      BY <3>2, <3>5, <3>6 DEF IndInv, TypeOK
  <2>2. CASE \E p \in Payments : LeaveWindow(p)
    BY <1>1, <2>2 DEF LeaveWindow, IndInv, TypeOK, planVars, worldVars
  <2>3. CASE Tick
    BY <1>1, <2>3 DEF Tick, IndInv, TypeOK, paymentVars, planVars
  <2>4. CASE Offer
    BY <1>1, <2>4 DEF Offer, IndInv, TypeOK, paymentVars, planVars
  <2>5. CASE GrantTrial
    BY <1>1, <2>5, PlansAssumption DEF GrantTrial, IndInv, TypeOK, paymentVars
  <2> QED
    BY <2>1, <2>2, <2>3, <2>4, <2>5
<1>3. Initiated' /\ Known' /\ Stored'
  BY <1>1, <1>2 DEF IndInv, Initiated, Known, Stored
<1>4. OnlyPaidActivates' /\ AgainOnlyIfUndone'
  BY <1>1, <1>2 DEF IndInv, OnlyPaidActivates, AgainOnlyIfUndone
<1> QED
  BY <1>2, <1>3, <1>4 DEF IndInv

(* Every step keeps the invariant. *)
LEMMA NextIndInv == IndInv /\ [Next]_vars => IndInv'
<1> SUFFICES ASSUME IndInv, [Next]_vars PROVE IndInv'
  OBVIOUS
<1>1. ASSUME NEW w \in Web, NEW p \in Payments, Initiating(w, p) PROVE IndInv'
  BY <1>1, CreateStep, RedirectStep, FailInitiationStep DEF Initiating
<1>2. ASSUME NEW w \in Sessions, NEW p \in Payments, Writing(w, p) PROVE IndInv'
  BY <1>2, ApplyStep, LearnNothingStep, SaveOverStep DEF Writing
<1>3. CASE UNCHANGED vars
  BY <1>3 DEF vars, paymentVars, planVars, worldVars, IndInv, TypeOK, Initiated, Known, Stored,
              OnlyPaidActivates, AgainOnlyIfUndone
<1> QED
  BY <1>1, <1>2, <1>3, HearingStep, CrashStep, WorldStep DEF Next

(***************************************************************************)
(* Theorems.                                                               *)
(***************************************************************************)
(* The inductive invariant holds in every reachable state. *)
THEOREM InductiveInvariant == Spec => []IndInv
<1>1. Init => IndInv
  BY InitIndInv
<1>2. IndInv /\ [Next]_vars => IndInv'
  BY NextIndInv
<1> QED
  BY <1>1, <1>2, PTL DEF Spec

(* Every variable has its type. *)
THEOREM TypeCorrectness == Spec => []TypeOK
<1>1. IndInv => TypeOK
  BY DEF IndInv
<1> QED
  BY <1>1, InductiveInvariant, PTL

(* No payment activates before Orange has cashed it, whichever of webhook, *)
(* return page and task hears of it first.                                 *)
THEOREM NoActivationForFree == Spec => []OnlyPaidActivates
<1>1. IndInv => OnlyPaidActivates
  BY DEF IndInv
<1> QED
  BY <1>1, InductiveInvariant, PTL

(* A second activation needs a SUCCESS that a stale save has overwritten:  *)
(* the row lock of the activation lets nothing else through.               *)
THEOREM LockedActivationIsOnce == Spec => []AgainOnlyIfUndone
<1>1. IndInv => AgainOnlyIfUndone
  BY DEF IndInv
<1> QED
  BY <1>1, InductiveInvariant, PTL

(* Only an activation and the trial touch the subscription. *)
LEMMA SubscriptionWrites ==
  ASSUME [Next]_vars
  PROVE  \/ UNCHANGED planVars
         \/ \E p \in Payments : status[p] # "success" /\ Activate(p) /\ UNCHANGED <<now, bought, special>>
         \/ GrantTrial
<1>1. ASSUME NEW w \in Sessions, NEW p \in Payments, Apply(w, p)
      PROVE  \/ UNCHANGED planVars
             \/ \E q \in Payments : status[q] # "success" /\ Activate(q) /\ UNCHANGED <<now, bought, special>>
  <2>1. CASE orange[p] = "paid" /\ status[p] # "success"
    BY <1>1, <2>1 DEF Apply, worldVars
  <2>2. CASE ~(orange[p] = "paid" /\ status[p] # "success")
    BY <1>1, <2>2 DEF Apply, Activate, Fail
  <2> QED
    BY <2>1, <2>2
<1>2. ASSUME NEW w \in Sessions, NEW p \in Payments, Writing(w, p) PROVE Apply(w, p) \/ UNCHANGED planVars
  BY <1>2 DEF Writing, LearnNothing, SaveCancel, SaveFailure, SaveOver
<1>3. ASSUME NEW w \in Web, NEW p \in Payments, Initiating(w, p) \/ Hearing(w, p) PROVE UNCHANGED planVars
  BY <1>3 DEF Initiating, Hearing, Create, Redirect, FailInitiation, AskForOne, OpenCancel, OpenFailure
<1>4. ASSUME \/ Poll \/ Tick \/ Offer
             \/ \E w \in Sessions : Crash(w)
             \/ \E p \in Payments : Decide(p) \/ LeaveWindow(p)
      PROVE  UNCHANGED planVars
  BY <1>4 DEF Poll, Tick, Offer, Crash, Decide, LeaveWindow
<1>5. CASE UNCHANGED vars
  BY <1>5 DEF vars
<1> QED
  BY <1>1, <1>2, <1>3, <1>4, <1>5 DEF Next

(***************************************************************************)
(* The days paid for.                                                      *)
(***************************************************************************)
Given == SumOver(DaysPaid, Payments)

(* The days of one official plan are in what is left of it, or they have   *)
(* passed if the seller has another plan now, from a trial or a special    *)
(* price.                                                                  *)
DaysInv ==
  \A P \in Plans :
    OneOfficialPlan(P) => Given <= expires /\ (plan # P => Given <= now)

(* Every payment counts for a number of days. *)
LEMMA DaysType ==
  ASSUME TypeOK
  PROVE  (\A p \in Payments : DaysPaid[p] \in Nat) /\ Given \in Nat
<1>1. ASSUME NEW p \in Payments PROVE DaysPaid[p] \in Nat
  <2>1. activations[p] \in Nat /\ Days[bought[p]] \in Nat
    BY PlansAssumption DEF TypeOK
  <2>2. activations[p] * Days[bought[p]] \in Nat
    BY <2>1
  <2> QED
    BY <2>2 DEF DaysPaid
<1>2. SumOver(DaysPaid, Payments) \in Nat
  BY <1>1, PaymentsAssumption, SumType
<1> QED
  BY <1>1, <1>2 DEF Given

(* The sum is the same when no payment counts for more. *)
LEMMA DaysSame ==
  ASSUME DaysPaid' = DaysPaid
  PROVE  Given' = Given
<1>1. Given' = SumOver(DaysPaid', Payments)
  BY DEF Given
<1> QED
  BY <1>1 DEF Given

(* An activation at the official price adds the days of its plan. *)
LEMMA DaysAdded ==
  ASSUME TypeOK, NEW p \in Payments, p \notin special, UNCHANGED <<special, bought>>,
         activations' = [activations EXCEPT ![p] = @ + 1]
  PROVE  Given' = Given + Days[bought[p]]
<1> DEFINE after == [DaysPaid EXCEPT ![p] = @ + Days[bought[p]]]
<1>n. activations[p] \in Nat /\ Days[bought[p]] \in Nat
  BY PlansAssumption DEF TypeOK
<1>1. (activations[p] + 1) * Days[bought[p]] = activations[p] * Days[bought[p]] + Days[bought[p]]
  BY <1>n
<1>2. DaysPaid' = after
  <2>1. ASSUME NEW q \in Payments PROVE DaysPaid'[q] = after[q]
    <3>1. CASE q = p
      BY <1>1, <3>1 DEF DaysPaid, TypeOK
    <3>2. CASE q # p
      BY <3>2 DEF DaysPaid, TypeOK
    <3> QED
      BY <3>1, <3>2
  <2>2. DaysPaid' = [q \in Payments |-> DaysPaid'[q]]
    BY DEF DaysPaid
  <2>3. DOMAIN DaysPaid = Payments
    BY DEF DaysPaid
  <2>4. after = [q \in Payments |-> after[q]]
    BY <2>3
  <2> HIDE DEF after
  <2> QED
    BY <2>1, <2>2, <2>4
<1>3. Given' = SumOver(after, Payments)
  BY <1>2 DEF Given
<1>4. \A q \in Payments : DaysPaid[q] \in Nat /\ after[q] \in Nat
  BY <1>n, DaysType DEF DaysPaid
<1>5. \A q \in Payments : q # p => after[q] = DaysPaid[q]
  BY DEF DaysPaid
<1>6. after[p] = DaysPaid[p] + Days[bought[p]]
  BY DEF DaysPaid
<1> HIDE DEF after
<1>7. SumOver(after, Payments) = SumOver(DaysPaid, Payments) - DaysPaid[p] + after[p]
  BY <1>4, <1>5, PaymentsAssumption, SumChange
<1> QED
  BY <1>n, <1>3, <1>4, <1>6, <1>7, DaysType DEF Given

(* A payment that gets its special price was never activated. *)
LEMMA SpecialIsNew ==
  ASSUME IndInv, [Next]_vars
  PROVE  /\ bought' = bought
         /\ special \subseteq special'
         /\ \A p \in special' \ special : activations[p] = 0
         /\ now' \in Nat /\ now <= now'
         /\ special' # special => UNCHANGED planVars
<1>n. now \in Nat
  BY DEF IndInv, TypeOK
<1>1. ASSUME NEW w \in Web, NEW p \in Payments, Create(w, p)
      PROVE  /\ UNCHANGED <<bought, now, planVars>>
             /\ special' = special \/ (special' = special \cup {p} /\ activations[p] = 0)
  <2>1. status[p] = "absent" /\ p \notin known
    BY <1>1 DEF Create, IndInv, Stored
  <2>2. ~(activations[p] > 0) /\ activations[p] \in Nat
    BY <2>1 DEF IndInv, TypeOK, OnlyPaidActivates, Known
  <2>3. activations[p] = 0
    BY <2>2
  <2> QED
    BY <1>1, <2>3 DEF Create, worldVars
<1>2. ASSUME NEW w \in Web, NEW p \in Payments, Initiating(w, p) \/ Hearing(w, p), ~Create(w, p)
      PROVE  UNCHANGED <<bought, special, now>>
  BY <1>2 DEF Initiating, Hearing, Redirect, FailInitiation, AskForOne, OpenCancel, OpenFailure,
              paymentVars, worldVars
<1>3. ASSUME NEW w \in Sessions, NEW p \in Payments, Writing(w, p)
      PROVE  UNCHANGED <<bought, special, now>>
  BY <1>3 DEF Writing, Apply, LearnNothing, SaveCancel, SaveFailure, SaveOver, paymentVars, worldVars
<1>4. ASSUME \/ Poll \/ Offer \/ GrantTrial
             \/ \E w \in Sessions : Crash(w)
             \/ \E p \in Payments : Decide(p) \/ LeaveWindow(p)
             \/ UNCHANGED vars
      PROVE  UNCHANGED <<bought, special, now>>
  BY <1>4 DEF Poll, Offer, GrantTrial, Crash, Decide, LeaveWindow, vars, paymentVars, worldVars
<1>5. CASE Tick
  BY <1>n, <1>5 DEF Tick, paymentVars
<1>6. CASE \E w \in Web, p \in Payments : Create(w, p)
  BY <1>n, <1>1, <1>6
<1>7. CASE UNCHANGED <<bought, special, now>>
  BY <1>n, <1>7
<1> QED
  BY <1>2, <1>3, <1>4, <1>5, <1>6, <1>7 DEF Next, Initiating

(* No step loses a day of the official plan. *)
LEMMA NextDays == IndInv /\ DaysInv /\ [Next]_vars => DaysInv'
<1> SUFFICES ASSUME IndInv, DaysInv, [Next]_vars, NEW P \in Plans, OneOfficialPlan(P)'
             PROVE  Given' <= expires' /\ (plan' # P => Given' <= now')
  BY DEF DaysInv
<1>n. /\ now \in Nat /\ expires \in Nat /\ activations \in [Payments -> Nat]
      /\ bought \in [Payments -> Plans] /\ special \subseteq Payments /\ plan \in Plans \cup {Free}
      /\ Given \in Nat
  BY DaysType DEF IndInv, TypeOK
<1>s. /\ bought' = bought
      /\ special \subseteq special'
      /\ \A p \in special' \ special : activations[p] = 0
      /\ now' \in Nat /\ now <= now'
      /\ special' # special => UNCHANGED planVars
  BY SpecialIsNew
<1>1. CASE UNCHANGED planVars
  <2>1. DaysPaid' = DaysPaid
    <3>1. ASSUME NEW p \in Payments PROVE DaysPaid'[p] = DaysPaid[p]
      <4>1. Days[bought[p]] \in Nat
        BY <1>n, PlansAssumption
      <4>2. 0 * Days[bought[p]] = 0
        BY <4>1
      <4>3. CASE p \in special \/ p \notin special'
        BY <1>1, <1>s, <4>3 DEF DaysPaid, planVars
      <4>4. CASE p \in special' \ special
        BY <1>1, <1>s, <4>2, <4>4 DEF DaysPaid, planVars
      <4> QED
        BY <4>3, <4>4
    <3>2. DaysPaid' = [p \in Payments |-> DaysPaid'[p]] /\ DaysPaid = [p \in Payments |-> DaysPaid[p]]
      BY DEF DaysPaid
    <3> QED
      BY <3>1, <3>2
  <2>2. Given' = Given
    BY <2>1, DaysSame
  <2>3. OneOfficialPlan(P)
    BY <1>1, <1>n, <1>s DEF OneOfficialPlan, planVars
  <2> QED
    BY <1>1, <1>n, <1>s, <2>2, <2>3 DEF DaysInv, planVars
<1>2. ASSUME NEW p \in Payments, status[p] # "success", Activate(p), UNCHANGED <<now, bought, special>>
      PROVE  Given' <= expires' /\ (plan' # P => Given' <= now')
  <2>1. activations' = [activations EXCEPT ![p] = @ + 1]
    BY <1>2 DEF Activate
  <2>2. \A q \in Payments : activations[q] > 0 => activations'[q] > 0
    BY <1>n, <2>1
  <2>3. OneOfficialPlan(P)
    BY <1>2, <2>2 DEF OneOfficialPlan
  <2>4. Given <= expires /\ (plan # P => Given <= now)
    BY <2>3 DEF DaysInv
  <2>5. Days[bought[p]] \in Nat /\ SpecialDays \in Nat
    BY <1>n, PlansAssumption
  <2>6. CASE p \in special
    <3>1. DaysPaid' = DaysPaid
      <4>1. ASSUME NEW q \in Payments PROVE DaysPaid'[q] = DaysPaid[q]
        <5>1. CASE q = p
          BY <1>2, <2>6, <5>1 DEF DaysPaid
        <5>2. CASE q # p
          BY <1>2, <1>n, <2>1, <5>2 DEF DaysPaid
        <5> QED
          BY <5>1, <5>2
      <4>2. DaysPaid' = [q \in Payments |-> DaysPaid'[q]] /\ DaysPaid = [q \in Payments |-> DaysPaid[q]]
        BY DEF DaysPaid
      <4> QED
        BY <4>1, <4>2
    <3>2. Given' = Given
      BY <3>1, DaysSame
    <3>3. CASE IsPaid
      BY <1>2, <2>4, <2>6, <3>2, <3>3 DEF Activate
    <3>4. CASE ~IsPaid
      <4>1. plan = Free \/ expires < now
        BY <1>n, <3>4 DEF IsPaid
      <4>2. Given <= now
        BY <1>n, <2>4, <4>1, PlansAssumption
      <4>3. expires' = now + SpecialDays
        BY <1>2, <2>6, <3>4 DEF Activate, Extend, NewExpiry
      <4> QED
        BY <1>2, <1>n, <2>5, <3>2, <4>2, <4>3
    <3> QED
      BY <3>3, <3>4
  <2>7. CASE p \notin special
    <3>1. Given' = Given + Days[bought[p]]
      BY <1>2, <2>1, <2>7, DaysAdded DEF IndInv
    <3>2. bought[p] = P
      BY <1>2, <1>n, <2>1, <2>7 DEF OneOfficialPlan
    <3>3. plan' = P /\ expires' = NewExpiry(p)
      BY <1>2, <2>7, <3>2 DEF Activate, Extend
    <3>4. Given' <= expires'
      BY <1>n, <2>4, <2>5, <2>7, <3>1, <3>2, <3>3 DEF NewExpiry
    <3> QED
      BY <3>3, <3>4
  <2> QED
    BY <2>6, <2>7
<1>3. CASE GrantTrial
  <2>1. UNCHANGED <<activations, special, bought, now>>
    BY <1>3 DEF GrantTrial, paymentVars
  <2>2. DaysPaid' = DaysPaid
    BY <2>1 DEF DaysPaid
  <2>3. Given' = Given
    BY <2>2, DaysSame
  <2>4. OneOfficialPlan(P)
    BY <2>1 DEF OneOfficialPlan
  <2>5. plan = Free \/ expires < now
    BY <1>3, <1>n DEF GrantTrial, IsPaid
  <2>6. Given <= now
    BY <1>n, <2>4, <2>5, PlansAssumption DEF DaysInv
  <2>7. expires' = now + TrialDays /\ TrialDays \in Nat
    BY <1>3, PlansAssumption DEF GrantTrial
  <2> QED
    BY <1>n, <2>1, <2>3, <2>6, <2>7
<1> QED
  BY <1>1, <1>2, <1>3, SubscriptionWrites

(* Before any payment, no day is due. *)
LEMMA InitDays == Init => DaysInv
<1> SUFFICES ASSUME Init PROVE DaysInv
  OBVIOUS
<1>1. ASSUME NEW p \in Payments PROVE DaysPaid[p] = 0
  <2>1. Days[bought[p]] \in Nat /\ activations[p] = 0
    BY PlansAssumption DEF Init
  <2>2. 0 * Days[bought[p]] = 0
    BY <2>1
  <2> QED
    BY <2>1, <2>2 DEF DaysPaid
<1> DEFINE none == [p \in Payments |-> 0]
<1>2. SumOver(none, Payments) = 0
  <2> DEFINE Good == {T \in SUBSET Payments : SumOver(none, T) = 0}
  <2>1. {} \in Good
    BY SumOfNone
  <2>2. ASSUME NEW T \in SUBSET Payments, T # {}, T \ {Pick(T)} \in Good PROVE T \in Good
    <3>1. Pick(T) \in T /\ IsFiniteSet(T)
      BY <2>2, PickIn, PaymentsAssumption, FS_Subset
    <3> HIDE DEF none
    <3>2. SumOver(none, T) = none[Pick(T)] + SumOver(none, T \ {Pick(T)})
      BY <2>2, <3>1, SumOfPick
    <3>3. none[Pick(T)] = 0
      BY <3>1 DEF none
    <3> QED
      BY <2>2, <3>2, <3>3
  <2> HIDE DEF Good, none
  <2>3. Payments \in Good
    BY <2>1, <2>2, PaymentsAssumption, OneByOne
  <2> QED
    BY <2>3 DEF Good
<1>3. \A p \in Payments : DaysPaid[p] = none[p]
  BY <1>1
<1> HIDE DEF none
<1>4. Given = 0
  BY <1>2, <1>3, PaymentsAssumption, SumOfSame DEF Given
<1> QED
  BY <1>4 DEF Init, DaysInv

(* The days of one official plan are all given, whatever trials and special *)
(* prices race them.                                                        *)
THEOREM PaidDaysAreGiven == Spec => []PaidDaysGiven
<1>1. Init => IndInv /\ DaysInv
  BY InitIndInv, InitDays
<1>2. (IndInv /\ DaysInv) /\ [Next]_vars => (IndInv /\ DaysInv)'
  BY NextIndInv, NextDays
<1>3. DaysInv => PaidDaysGiven
  BY DEF DaysInv, PaidDaysGiven, Given, SumOver
<1> QED
  BY <1>1, <1>2, <1>3, PTL DEF Spec

=============================================================================
