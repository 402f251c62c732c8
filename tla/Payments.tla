------------------------------- MODULE Payments -------------------------------
(***************************************************************************)
(* Customer payments of orders (payments/services/payments.py, webhooks.py *)
(* and ledger.py): a payment is initiated under a reference of the client  *)
(* that makes retries harmless, and settled by callbacks of the provider,  *)
(* which may be repeated, late, or contradict one another.                 *)
(*                                                                         *)
(* Initiation looks the reference up, finds nothing to lock, waits for the *)
(* lock of the order and inserts: asking[w] is between the look-up and the *)
(* insertion.  A callback works under the lock of its payment.  answer[w]  *)
(* is what the last request of w was answered.                             *)
(*                                                                         *)
(* Abstractions: the amount is left out: both entries of the ledger and    *)
(* the payment carry the same.  A request without a reference is given a   *)
(* fresh one, NoReference here.                                            *)
(***************************************************************************)
EXTENDS Integers

CONSTANTS
  Bills,        \* orders to pay
  References,   \* client references
  NoReference,  \* a request without one
  Payers,       \* web workers
  MaxRows       \* bound on the payments

ASSUME RowsAssumption == MaxRows \in Nat /\ NoReference \notin References

VARIABLES
  unpaid,   \* orders still pending
  payment,  \* payment[i]: the row of the i-th PaymentTransaction
  ledger,   \* ledger[i]: its LedgerEntry rows
  asking,   \* asking[w]: a request whose look-up found nothing
  answer    \* answer[w]: how the last request of w ended

paymentsVars == <<unpaid, payment, ledger, asking, answer>>

Rows == 1..MaxRows
Final == {"success", "failed"}
PaymentRow == [status: {"absent", "pending"} \cup Final,
               reference: References \cup {NoReference}]
Unasked == [at |-> "idle"]
Request == [at: {"ask"}, bill: Bills, reference: References \cup {NoReference}]
Answers == {"none", "payment", "refused", "error"}

PaymentsInit ==
  /\ unpaid = Bills
  /\ payment = [i \in Rows |-> [status |-> "absent", reference |-> NoReference]]
  /\ ledger = [i \in Rows |-> {}]
  /\ asking = [w \in Payers |-> Unasked]
  /\ answer = [w \in Payers |-> "none"]

Known(reference) ==
  reference # NoReference
  /\ \E i \in Rows : payment[i].status # "absent" /\ payment[i].reference = reference

(* The look-up finds the payment of the reference. *)
Replay(w, reference) ==
  /\ asking[w] = Unasked
  /\ Known(reference)
  /\ answer' = [answer EXCEPT ![w] = "payment"]
  /\ UNCHANGED <<unpaid, payment, ledger, asking>>

(* It finds nothing. *)
LookUp(w, bill, reference) ==
  /\ asking[w] = Unasked
  /\ ~Known(reference)
  /\ asking' = [asking EXCEPT ![w] = [at |-> "ask", bill |-> bill, reference |-> reference]]
  /\ answer' = [answer EXCEPT ![w] = "none"]
  /\ UNCHANGED <<unpaid, payment, ledger>>

Respond(w, what) ==
  /\ asking[w] # Unasked
  /\ asking' = [asking EXCEPT ![w] = Unasked]
  /\ answer' = [answer EXCEPT ![w] = what]

(* Rows are numbered as they are inserted. *)
NextRow(i) ==
  /\ payment[i].status = "absent"
  /\ \A j \in 1..(i - 1) : payment[j].status # "absent"

(* The order is pending and the reference still unknown.  The charge is    *)
(* initiated in the same transaction, and may fail at once.                *)
Insert(w, i) ==
  /\ Respond(w, "payment")
  /\ asking[w].bill \in unpaid
  /\ ~Known(asking[w].reference)
  /\ NextRow(i)
  /\ \E status \in {"pending", "failed"} :
       payment' = [payment EXCEPT ![i] =
                     [status |-> status, reference |-> asking[w].reference]]
  /\ UNCHANGED <<unpaid, ledger>>

(* The order is unknown or no longer pending, or the phone or the total is *)
(* wrong: the data leaves out the last two, so that no guard is left.      *)
Refuse(w) ==
  /\ Respond(w, "refused")
  /\ UNCHANGED <<unpaid, payment, ledger>>

(* Another request has inserted the reference.  Django refuses any query   *)
(* in a transaction that an IntegrityError broke, there is no savepoint    *)
(* around the insertion, and so the search for the row raises: the request *)
(* ends in an error.                                                       *)
LoseRace(w) ==
  /\ Respond(w, "error")
  /\ asking[w].bill \in unpaid
  /\ Known(asking[w].reference)
  /\ UNCHANGED <<unpaid, payment, ledger>>

(* append_balanced_entries_for_success *)
Entries(i) == IF ledger[i] = {} THEN {"debit", "credit"} ELSE ledger[i]

(* Mutation: a failure that comes late is applied. *)
FailLate(i) ==
  /\ payment[i].status \in {"pending", "success"}
  /\ payment' = [payment EXCEPT ![i].status = "failed"]
  /\ UNCHANGED <<unpaid, ledger, asking, answer>>

WebhookFailed(i) ==
  /\ payment[i].status = "pending"
  /\ payment' = [payment EXCEPT ![i].status = "failed"]
  /\ UNCHANGED <<unpaid, ledger, asking, answer>>

(* Mutation: a success that comes after a failure is applied. *)
SucceedLate(i) ==
  /\ payment[i].status \in {"pending", "failed"}
  /\ payment' = [payment EXCEPT ![i].status = "success"]
  /\ ledger' = [ledger EXCEPT ![i] = Entries(i)]
  /\ UNCHANGED <<unpaid, asking, answer>>

WebhookSuccess(i) ==
  /\ payment[i].status = "pending"
  /\ payment' = [payment EXCEPT ![i].status = "success"]
  /\ ledger' = [ledger EXCEPT ![i] = Entries(i)]
  /\ UNCHANGED <<unpaid, asking, answer>>

(* The order is confirmed or cancelled: no payment decides of it. *)
OrderMovesOn(bill) ==
  /\ bill \in unpaid
  /\ unpaid' = unpaid \ {bill}
  /\ UNCHANGED <<payment, ledger, asking, answer>>

PaymentsNext ==
  \/ \E w \in Payers :
       \/ Refuse(w)
       \/ LoseRace(w)
       \/ \E reference \in References : Replay(w, reference)
       \/ \E i \in Rows : Insert(w, i)
       \/ \E bill \in Bills, reference \in References \cup {NoReference} :
            LookUp(w, bill, reference)
  \/ \E i \in Rows : WebhookFailed(i) \/ WebhookSuccess(i)
  \/ \E bill \in Bills : OrderMovesOn(bill)

PaymentsSpec == PaymentsInit /\ [][PaymentsNext]_paymentsVars

-----------------------------------------------------------------------------
PaymentsTypeOK ==
  /\ unpaid \subseteq Bills
  /\ payment \in [Rows -> PaymentRow]
  /\ ledger \in [Rows -> SUBSET {"debit", "credit"}]
  /\ asking \in [Payers -> {Unasked} \cup Request]
  /\ answer \in [Payers -> Answers]

(* The ledger holds the two entries of a payment if and only if the        *)
(* payment succeeded, whatever callbacks were repeated or contradicted.    *)
LedgerTellsPayment ==
  \A i \in Rows :
    ledger[i] = IF payment[i].status = "success" THEN {"debit", "credit"} ELSE {}

(* payments.py:65: "Idempotent on client_reference (unique): same key      *)
(* returns the same row", and tests_services.py:254 of a row that appears  *)
(* between the look-up and the insertion: "rejeu, pas d'erreur".           *)
DuplicateIsReplayed == \A w \in Payers : answer[w] # "error"

(* A payment that succeeded or failed keeps that outcome. *)
OutcomeIsFinal ==
  [][\A i \in Rows :
       payment[i].status \in Final => payment'[i] = payment[i]]_paymentsVars
=============================================================================
