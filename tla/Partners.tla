------------------------------- MODULE Partners -------------------------------
(***************************************************************************)
(* Commissions of one partner of the referral programme                    *)
(* (partners/services/commissions.py, payouts.py and acceptance.py, with   *)
(* the command partners_reconcile).                                        *)
(*                                                                         *)
(* A collected subscription payment of a referred seller may create one    *)
(* commission, which the team validates, gathers in the payout of a month  *)
(* and marks as paid.  What a function does under row locks is one action; *)
(* validate_month locks nothing: validating[w] is between its reading of   *)
(* the commissions to validate and its update of them.                     *)
(*                                                                         *)
(* Abstractions: an instant is its month.  Payments are the ones           *)
(* revenue_payments keeps: collected, of a positive amount, not a test.    *)
(* Places of founders, invitations and statements are left out.            *)
(***************************************************************************)
EXTENDS Integers, FiniteSetsExt

CONSTANTS
  Fees,       \* subscription payments of the sellers the partner referred
  Sellers,    \* these sellers, each with its Referral
  SellerOf,   \* SellerOf[p]: the seller who pays p
  Commission, \* Commission[p]: commission_fcfa of p (compute_amounts)
  Window,     \* PARTNER_COMMISSION_MONTHS
  Minimum,    \* PARTNER_MIN_PAYOUT_FCFA
  Staff,      \* members of the team who validate
  MaxMonth    \* bound on the months

ASSUME FeesAssumption ==
  /\ IsFiniteSet(Fees)
  /\ SellerOf \in [Fees -> Sellers]
  /\ Commission \in [Fees -> Nat]

ASSUME MonthsAssumption == {Window, Minimum} \subseteq Nat /\ MaxMonth \in Nat \ {0}

VARIABLES
  month,      \* the current month
  phase,      \* Partner.phase
  letter,     \* the trial letter was accepted
  terms,      \* month of PartnerAcceptance of program_terms; 0: none
  paidAt,     \* paidAt[p]: month p was collected; 0: not yet
  first,      \* first[s]: Referral.first_paid_at; 0: null
  ends,       \* ends[s]: Referral.commission_ends_at; 0: null
  entry,      \* entry[p]: the CommissionEntry of p
  payoutStatus, \* payoutStatus[m]: Payout.status of month m
  payoutTotal,  \* payoutTotal[m]: Payout.total_fcfa of month m
  validating  \* validating[w]: what w read and did not write yet

contractVars == <<phase, letter, terms>>
windowVars   == <<first, ends>>
payoutVars   == <<payoutStatus, payoutTotal>>
partnersVars == <<month, contractVars, paidAt, windowVars, entry, payoutVars, validating>>

Months == 1..MaxMonth

Entry  == [status: {"absent", "pending", "validated", "paid", "cancelled"},
           payout: 0..MaxMonth]
Reading == [month: Months, entries: SUBSET Fees]

NotReading == [month |-> 0, entries |-> {}]

PartnersInit ==
  /\ month = 1
  /\ phase \in {"none", "contract"}
  /\ letter = FALSE
  /\ terms = 0
  /\ paidAt = [p \in Fees |-> 0]
  /\ first = [s \in Sellers |-> 0]
  /\ ends = [s \in Sellers |-> 0]
  /\ entry = [p \in Fees |-> [status |-> "absent", payout |-> 0]]
  /\ payoutStatus = [m \in Months |-> "absent"]
  /\ payoutTotal = [m \in Months |-> 0]
  /\ validating = [w \in Staff |-> NotReading]

Total(entries) == MapThenSumSet(LAMBDA p : Commission[p], entries)
EntriesOf(m)   == {p \in Fees : entry[p].payout = m}

(***************************************************************************)
(* The partner's documents.                                                *)
(***************************************************************************)
NextMonth ==
  /\ month < MaxMonth
  /\ month' = month + 1
  /\ UNCHANGED <<contractVars, paidAt, windowVars, entry, payoutVars, validating>>

AcceptLetter ==
  /\ ~letter
  /\ letter' = TRUE
  /\ phase' = IF phase = "none" THEN "trial" ELSE phase
  /\ UNCHANGED <<month, terms, paidAt, windowVars, entry, payoutVars, validating>>

(* A written acceptance may be recorded long after its date. *)
AcceptTerms(at) ==
  /\ letter
  /\ terms = 0
  /\ at <= month
  /\ terms' = at
  /\ phase' = "contract"
  /\ UNCHANGED <<month, letter, paidAt, windowVars, entry, payoutVars, validating>>

(* The team ends the contract: acquired rights remain. *)
EndContract ==
  /\ phase = "contract"
  /\ phase' = "ended"
  /\ UNCHANGED <<month, letter, terms, paidAt, windowVars, entry, payoutVars, validating>>

(***************************************************************************)
(* From a payment to its commission.                                       *)
(***************************************************************************)
(* _terms_reason *)
TermsInForce(at) ==
  /\ phase \in {"contract", "ended"}
  /\ terms # 0
  /\ terms <= at

(* Mutation: the window is not looked at. *)
InAnyWindow(p, at) == TRUE

(* The window opens with the first payment recorded. *)
InWindow(p, at) == first[SellerOf[p]] = 0 \/ at <= ends[SellerOf[p]]

Creates(p, at) == entry[p].status = "absent" /\ TermsInForce(at) /\ InWindow(p, at)

(* evaluate_payment, once it is to create a line. *)
Record(p, at) ==
  LET s == SellerOf[p] IN
    /\ first' = [first EXCEPT ![s] = IF @ = 0 THEN at ELSE @]
    /\ ends' = [ends EXCEPT ![s] = IF first[s] = 0 THEN at + Window ELSE @]
    /\ entry' = [entry EXCEPT ![p].status = "pending"]

(* The activation of a subscription records the commission, unless that    *)
(* fails in its savepoint.                                                 *)
Collect(p) ==
  /\ paidAt[p] = 0
  /\ paidAt' = [paidAt EXCEPT ![p] = month]
  /\ \/ Creates(p, month) /\ Record(p, month)
     \/ UNCHANGED <<windowVars, entry>>
  /\ UNCHANGED <<month, contractVars, payoutVars, validating>>

(* partners_reconcile replays the payments without a line in the order     *)
(* they were collected.                                                    *)
Reconcile(p) ==
  /\ paidAt[p] # 0
  /\ Creates(p, paidAt[p])
  /\ \A q \in Fees :
       paidAt[q] \in 1..(paidAt[p] - 1) /\ SellerOf[q] = SellerOf[p]
         => ~Creates(q, paidAt[q])
  /\ Record(p, paidAt[p])
  /\ UNCHANGED <<month, contractVars, paidAt, payoutVars, validating>>

(***************************************************************************)
(* From commissions to a payout.                                           *)
(***************************************************************************)
(* Mutation: a commission in a payout may be cancelled. *)
CancelIncluded(p) == entry[p].status \in {"pending", "validated"}

Cancellable(p) == entry[p].status \in {"pending", "validated"} /\ entry[p].payout = 0

CancelEntry(p) ==
  /\ Cancellable(p)
  /\ entry' = [entry EXCEPT ![p].status = "cancelled"]
  /\ UNCHANGED <<month, contractVars, paidAt, windowVars, payoutVars, validating>>

ValidateRead(w, m) ==
  /\ validating[w] = NotReading
  /\ LET ids == {p \in Fees : entry[p].status = "pending" /\ paidAt[p] = m} IN
       /\ ids # {}
       /\ validating' = [validating EXCEPT ![w] = [month |-> m, entries |-> ids]]
  /\ UNCHANGED <<month, contractVars, paidAt, windowVars, entry, payoutVars>>

(* The update looks at the keys only, not at the status any more. *)
ValidateWrite(w) ==
  /\ validating[w] # NotReading
  /\ entry' = [p \in Fees |-> IF p \in validating[w].entries
                                THEN [entry[p] EXCEPT !.status = "validated"]
                                ELSE entry[p]]
  /\ validating' = [validating EXCEPT ![w] = NotReading]
  /\ UNCHANGED <<month, contractVars, paidAt, windowVars, payoutVars>>

(* _unversed, up to the end of month m *)
Unversed(m) ==
  {p \in Fees : entry[p].status = "validated" /\ entry[p].payout = 0 /\ paidAt[p] <= m}

(* Mutation: a payout already paid may be completed. *)
PayableLate(m) ==
  payoutStatus[m] # "absent" \/ Total(Unversed(m)) >= Minimum

(* A payout needs the minimum, except to be completed. *)
Payable(m) ==
  \/ payoutStatus[m] = "due"
  \/ payoutStatus[m] = "absent" /\ Total(Unversed(m)) >= Minimum

Include(m) ==
  entry' = [p \in Fees |-> IF p \in Unversed(m) THEN [entry[p] EXCEPT !.payout = m]
                                                ELSE entry[p]]

(* Mutation: a payout completed keeps only its new entries in its total. *)
NewTotalAfresh(m) == Total(Unversed(m))

NewTotal(m) == payoutTotal[m] + Total(Unversed(m))

BuildPayout(m) ==
  /\ Payable(m)
  /\ payoutStatus' = [payoutStatus EXCEPT ![m] = IF @ = "absent" THEN "due" ELSE @]
  /\ payoutTotal' = [payoutTotal EXCEPT ![m] = NewTotal(m)]
  /\ Include(m)
  /\ UNCHANGED <<month, contractVars, paidAt, windowVars, validating>>

MarkPaid(m) ==
  /\ payoutStatus[m] = "due"
  /\ payoutStatus' = [payoutStatus EXCEPT ![m] = "paid"]
  /\ entry' = [p \in Fees |-> IF entry[p].payout = m THEN [entry[p] EXCEPT !.status = "paid"]
                                                     ELSE entry[p]]
  /\ UNCHANGED <<month, contractVars, paidAt, windowVars, payoutTotal, validating>>

PartnersNext ==
  \/ NextMonth \/ AcceptLetter \/ EndContract
  \/ \E p \in Fees : Collect(p) \/ Reconcile(p) \/ CancelEntry(p)
  \/ \E w \in Staff : ValidateWrite(w) \/ \E m \in Months : ValidateRead(w, m)
  \/ \E m \in Months : AcceptTerms(m) \/ BuildPayout(m) \/ MarkPaid(m)

PartnersSpec == PartnersInit /\ [][PartnersNext]_partnersVars

-----------------------------------------------------------------------------
PartnersTypeOK ==
  /\ month \in Months
  /\ phase \in {"none", "trial", "contract", "ended"}
  /\ letter \in BOOLEAN
  /\ terms \in 0..MaxMonth
  /\ paidAt \in [Fees -> 0..MaxMonth]
  /\ first \in [Sellers -> 0..MaxMonth]
  /\ ends \in [Sellers -> Nat]
  /\ entry \in [Fees -> Entry]
  /\ payoutStatus \in [Months -> {"absent", "due", "paid"}]
  /\ payoutTotal \in [Months -> Nat]
  /\ validating \in [Staff -> {NotReading} \cup Reading]

(* The total of a payout is the sum of the commissions it holds, though it *)
(* is completed as further payments are validated, and though a validation *)
(* may overwrite the status of a commission that changed meanwhile.        *)
PayoutIsSum ==
  \A m \in Months :
    payoutStatus[m] # "absent" => payoutTotal[m] = Total(EntriesOf(m))

(* What a payout holds is validated or paid: it is not cancelled there,    *)
(* though a late validation may revive what was cancelled before.  And a   *)
(* commission is marked as paid only in a payout that was paid.            *)
InPayoutWasValidated ==
  \A p \in Fees :
    /\ entry[p].payout # 0 => entry[p].status \in {"validated", "paid"}
    /\ entry[p].status = "paid" => /\ entry[p].payout # 0
                                   /\ payoutStatus[entry[p].payout] = "paid"

(* A commission is for a payment collected after the terms were accepted   *)
(* and before the end of the window of its seller, whatever the delay and  *)
(* the order in which the payments were recorded.                          *)
CommissionInWindow ==
  \A p \in Fees :
    entry[p].status # "absent" =>
      terms # 0 /\ terms <= paidAt[p] /\ paidAt[p] <= ends[SellerOf[p]]

(* A payout marked as paid never changes, nor what it holds: no commission *)
(* joins it or leaves it.                                                  *)
PaidIsFinal ==
  [][\A m \in Months :
       payoutStatus[m] = "paid" =>
         /\ payoutStatus'[m] = "paid"
         /\ payoutTotal'[m] = payoutTotal[m]
         /\ EntriesOf(m)' = EntriesOf(m)]_partnersVars
=============================================================================
