--------------------------- MODULE BackOfficeProofs ---------------------------
(***************************************************************************)
(* BackOffice implements each of its parts, so what is proved of a part    *)
(* holds of the specification TLC checks.  The proofs about its smallest   *)
(* part, Payments, come first: for any orders, references, workers and     *)
(* number of payments.                                                     *)
(***************************************************************************)
EXTENDS BackOffice, AllocationProofs, PartnersProofs, SalesProofs

(***************************************************************************)
(* Payments.                                                               *)
(***************************************************************************)
PaymentsInv == PaymentsTypeOK /\ LedgerTellsPayment

LEMMA PaymentsInitial == PaymentsInit => PaymentsInv
  BY DEF PaymentsInit, PaymentsInv, PaymentsTypeOK, LedgerTellsPayment, PaymentRow, Final,
         Answers

LEMMA RowsKept ==
  ASSUME PaymentsInv, UNCHANGED <<payment, ledger>>
  PROVE  LedgerTellsPayment'
  BY DEF PaymentsInv, LedgerTellsPayment

(* A request asks, or is answered. *)
LEMMA AnswerType ==
  ASSUME PaymentsInv, NEW w \in Payers, NEW what \in Answers, Respond(w, what)
  PROVE  /\ asking' \in [Payers -> {Unasked} \cup Request]
         /\ answer' \in [Payers -> Answers]
  BY DEF Respond, PaymentsInv, PaymentsTypeOK

LEMMA AskingStep ==
  ASSUME PaymentsInv,
         asking' \in [Payers -> {Unasked} \cup Request], answer' \in [Payers -> Answers],
         UNCHANGED <<unpaid, payment, ledger>>
  PROVE  PaymentsInv'
  <1>1. PaymentsTypeOK'
    BY DEF PaymentsInv, PaymentsTypeOK
  <1> QED
    BY <1>1, RowsKept DEF PaymentsInv

LEMMA InsertStep ==
  ASSUME PaymentsInv, NEW w \in Payers, NEW i \in Rows, Insert(w, i)
  PROVE  PaymentsInv'
  <1> DEFINE reference == asking[w].reference
  <1>1. asking[w] \in Request
    BY DEF PaymentsInv, PaymentsTypeOK, Insert, Respond
  <1>2. reference \in References \cup {NoReference}
    BY <1>1 DEF Request
  <1>3. PICK status \in {"pending", "failed"} :
          payment' = [payment EXCEPT ![i] = [status |-> status, reference |-> reference]]
    BY DEF Insert
  <1>4. UNCHANGED <<unpaid, ledger>> /\ payment[i].status = "absent"
    BY DEF Insert, NextRow
  <1>a. asking' \in [Payers -> {Unasked} \cup Request] /\ answer' \in [Payers -> Answers]
    BY AnswerType DEF Insert, Answers
  <1> HIDE DEF reference
  <1>5. payment \in [Rows -> PaymentRow]
    BY DEF PaymentsInv, PaymentsTypeOK
  <1>6. PaymentsTypeOK'
    BY <1>2, <1>3, <1>4, <1>a DEF PaymentsInv, PaymentsTypeOK, PaymentRow, Final
  <1>7. \A j \in Rows : payment'[j] = IF j = i THEN [status |-> status, reference |-> reference]
                                               ELSE payment[j]
    BY <1>3, <1>5
  <1>8. LedgerTellsPayment'
    BY <1>4, <1>7 DEF PaymentsInv, LedgerTellsPayment
  <1> QED
    BY <1>6, <1>8 DEF PaymentsInv

LEMMA WebhookStep ==
  ASSUME PaymentsInv, NEW i \in Rows, WebhookFailed(i) \/ WebhookSuccess(i)
  PROVE  PaymentsInv'
  <1>1. payment \in [Rows -> PaymentRow] /\ ledger \in [Rows -> SUBSET {"debit", "credit"}]
    BY DEF PaymentsInv, PaymentsTypeOK
  <1>2. /\ payment[i].status = "pending"
        /\ ledger[i] = {}
        /\ UNCHANGED <<unpaid, asking, answer>>
    BY DEF WebhookFailed, WebhookSuccess, PaymentsInv, LedgerTellsPayment
  <1>3. PICK status \in Final :
          /\ payment' = [payment EXCEPT ![i].status = status]
          /\ ledger' = [ledger EXCEPT ![i] =
                          IF status = "success" THEN {"debit", "credit"} ELSE {}]
    <2>1. CASE WebhookFailed(i)
      <3>1. ledger' = [ledger EXCEPT ![i] = {}]
        BY <2>1, <1>1, <1>2 DEF WebhookFailed
      <3> QED
        BY <3>1, <2>1 DEF WebhookFailed, Final
    <2>2. CASE WebhookSuccess(i)
      BY <2>2, <1>2 DEF WebhookSuccess, Entries, Final
    <2> QED
      BY <2>1, <2>2
  <1>4. PaymentsTypeOK'
    BY <1>1, <1>2, <1>3 DEF PaymentsInv, PaymentsTypeOK, PaymentRow, Final
  <1>5. LedgerTellsPayment'
    BY <1>1, <1>3 DEF PaymentsInv, LedgerTellsPayment, PaymentRow
  <1> QED
    BY <1>4, <1>5 DEF PaymentsInv

LEMMA PaymentsInductive ==
  PaymentsInv /\ [PaymentsNext]_paymentsVars => PaymentsInv'
  <1> SUFFICES ASSUME PaymentsInv, [PaymentsNext]_paymentsVars PROVE PaymentsInv'
    OBVIOUS
  <1>1. ASSUME NEW w \in Payers, Refuse(w) \/ LoseRace(w) PROVE PaymentsInv'
    <2>1. Respond(w, "refused") \/ Respond(w, "error")
      BY <1>1 DEF Refuse, LoseRace
    <2>2. asking' \in [Payers -> {Unasked} \cup Request] /\ answer' \in [Payers -> Answers]
      BY <2>1, AnswerType DEF Answers
    <2> QED
      BY <1>1, <2>2, AskingStep DEF Refuse, LoseRace
  <1>2. ASSUME NEW w \in Payers, NEW i \in Rows, Insert(w, i) PROVE PaymentsInv'
    BY <1>2, InsertStep
  <1>3. ASSUME NEW w \in Payers, NEW bill \in Bills, NEW reference \in References \cup {NoReference},
               LookUp(w, bill, reference)
        PROVE  PaymentsInv'
    <2>1. [at |-> "ask", bill |-> bill, reference |-> reference] \in Request
      BY DEF Request
    <2>2. asking' \in [Payers -> {Unasked} \cup Request] /\ answer' \in [Payers -> Answers]
      BY <1>3, <2>1 DEF LookUp, Answers, PaymentsInv, PaymentsTypeOK
    <2> QED
      BY <1>3, <2>2, AskingStep DEF LookUp
  <1>7. ASSUME NEW w \in Payers, NEW reference \in References, Replay(w, reference)
        PROVE  PaymentsInv'
    <2>1. asking' \in [Payers -> {Unasked} \cup Request] /\ answer' \in [Payers -> Answers]
      BY <1>7 DEF Replay, Answers, PaymentsInv, PaymentsTypeOK
    <2> QED
      BY <1>7, <2>1, AskingStep DEF Replay
  <1>4. ASSUME NEW i \in Rows, WebhookFailed(i) \/ WebhookSuccess(i) PROVE PaymentsInv'
    BY <1>4, WebhookStep
  <1>5. ASSUME NEW bill \in Bills, OrderMovesOn(bill) PROVE PaymentsInv'
    BY <1>5, RowsKept DEF OrderMovesOn, PaymentsInv, PaymentsTypeOK
  <1>6. CASE UNCHANGED paymentsVars
    BY <1>6, RowsKept DEF paymentsVars, PaymentsInv, PaymentsTypeOK
  <1> QED
    BY <1>1, <1>2, <1>3, <1>4, <1>5, <1>6, <1>7 DEF PaymentsNext

LEMMA PaymentsAlways == PaymentsSpec => []PaymentsInv
  BY PaymentsInitial, PaymentsInductive, PTL DEF PaymentsSpec

(* Every variable keeps its type. *)
THEOREM PaymentsTypes == PaymentsSpec => []PaymentsTypeOK
  <1>1. PaymentsInv => PaymentsTypeOK
    BY DEF PaymentsInv
  <1> QED
    BY <1>1, PaymentsAlways, PTL

(* The ledger holds both entries of a payment exactly when the payment     *)
(* succeeded, in every order and repetition of the callbacks.              *)
THEOREM LedgerFollowsPayment == PaymentsSpec => []LedgerTellsPayment
  <1>1. PaymentsInv => LedgerTellsPayment
    BY DEF PaymentsInv
  <1> QED
    BY <1>1, PaymentsAlways, PTL

(* No callback changes the outcome of a payment, nor does a request.       *)
THEOREM OutcomeIsKept == PaymentsSpec => OutcomeIsFinal
  <1> DEFINE FinalKept == \A i \in Rows : payment[i].status \in Final => payment'[i] = payment[i]
  <1>1. PaymentsTypeOK /\ [PaymentsNext]_paymentsVars => [FinalKept]_paymentsVars
    <2> SUFFICES ASSUME PaymentsTypeOK, PaymentsNext PROVE FinalKept
      OBVIOUS
    <2>1. ASSUME NEW w \in Payers, NEW i \in Rows, Insert(w, i) PROVE FinalKept
      <3>1. payment[i].status \notin Final
        BY <2>1 DEF Insert, NextRow, Final
      <3> QED
        BY <3>1, <2>1 DEF Insert, PaymentsTypeOK
    <2>2. ASSUME NEW i \in Rows, WebhookFailed(i) \/ WebhookSuccess(i) PROVE FinalKept
      <3>1. payment[i].status \notin Final
        BY <2>2 DEF WebhookFailed, WebhookSuccess, Final
      <3> QED
        BY <3>1, <2>2 DEF WebhookFailed, WebhookSuccess, PaymentsTypeOK
    <2>3. ASSUME UNCHANGED payment PROVE FinalKept
      BY <2>3
    <2> QED
      BY <2>1, <2>2, <2>3 DEF PaymentsNext, Refuse, LoseRace, LookUp, Replay, OrderMovesOn
  <1> QED
    BY <1>1, PaymentsTypes, PTL DEF PaymentsSpec, OutcomeIsFinal

(***************************************************************************)
(* The composition.                                                        *)
(***************************************************************************)
(* In every behaviour of BackOffice each part behaves as its own           *)
(* specification says: no part depends on another.                         *)
THEOREM BackOfficeImplementsParts ==
  BackOfficeSpec => AllocationSpec /\ PartnersSpec /\ PaymentsSpec /\ SalesSpec
  <1>1. BackOfficeInit => AllocationInit /\ PartnersInit /\ PaymentsInit /\ SalesInit
    BY DEF BackOfficeInit
  <1>2. [BackOfficeNext]_backOfficeVars =>
          /\ [AllocationNext]_allocationVars
          /\ [PartnersNext]_partnersVars
          /\ [PaymentsNext]_paymentsVars
          /\ [SalesNext]_salesVars
    BY DEF BackOfficeNext, backOfficeVars
  <1> QED
    BY <1>1, <1>2, PTL
    DEF BackOfficeSpec, AllocationSpec, PartnersSpec, PaymentsSpec, SalesSpec

(* Every variable of the back office keeps its type: no stock, total or    *)
(* ledger leaves its range, for any number of resellers, payments, members *)
(* of the team and sales.                                                  *)
THEOREM BackOfficeTypes == BackOfficeSpec => []BackOfficeTypeOK
  <1>1. AllocationTypeOK /\ PartnersTypeOK /\ PaymentsTypeOK /\ SalesTypeOK => BackOfficeTypeOK
    BY DEF BackOfficeTypeOK
  <1> QED
    BY <1>1, BackOfficeImplementsParts, AllocationTypes, PartnersTypes, PaymentsTypes, SalesTypes,
       PTL

(* Stock, commissions, payouts, payments and flash sales stay consistent   *)
(* in the whole back office: every invariant the run of BackOffice checks, *)
(* and its action properties.                                              *)
THEOREM BackOfficeIsConsistent ==
  BackOfficeSpec =>
    /\ []UnitsAccounted
    /\ []WithinCatalog
    /\ []PayoutIsSum
    /\ []InPayoutWasValidated
    /\ []CommissionInWindow
    /\ []LedgerTellsPayment
    /\ []WindowIsLegal
    /\ []OrderableDisjoint
    /\ []LiveHasStarted
    /\ []SalesWithinLimits
    /\ PaidIsFinal
    /\ OutcomeIsFinal
    /\ NoWayBack
  BY BackOfficeImplementsParts, UnitsAreAccounted, AllocationsWithinCatalog, PayoutTotalsAreSums,
     PayoutHoldsValidated, CommissionsAreInWindow, LedgerFollowsPayment,
     SalesWindows, SalesDisjoint, SalesLiveStarted, SalesLimits, PaidPayoutIsKept,
     OutcomeIsKept, SalesNeverBack, PTL
=============================================================================
