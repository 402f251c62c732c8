---------------------------- MODULE PartnersProofs ----------------------------
(***************************************************************************)
(* Proofs about Partners, for any finite set of payments, any sellers,     *)
(* window and number of members of the team.                               *)
(***************************************************************************)
EXTENDS Partners, SumLemmas

(* The types of all but the totals. *)
PartnersShape ==
  /\ month \in Months
  /\ phase \in {"none", "trial", "contract", "ended"}
  /\ terms \in 0..MaxMonth
  /\ paidAt \in [Fees -> 0..MaxMonth]
  /\ first \in [Sellers -> 0..MaxMonth]
  /\ ends \in [Sellers -> Nat]
  /\ entry \in [Fees -> Entry]
  /\ payoutStatus \in [Months -> {"absent", "due", "paid"}]
  /\ validating \in [Staff -> {NotReading} \cup Reading]

(* What a window has seen: a commission opened the one of its seller, and  *)
(* who validates read commissions that exist.                              *)
WindowOpened ==
  \A p \in Fees : entry[p].status # "absent" => first[SellerOf[p]] # 0

ReadingExists ==
  \A w \in Staff : \A p \in validating[w].entries : entry[p].status # "absent"

PartnersInv ==
  /\ PartnersShape
  /\ InPayoutWasValidated
  /\ CommissionInWindow
  /\ WindowOpened
  /\ ReadingExists

LEMMA PartnersInitial == PartnersInit => PartnersInv
  <1> SUFFICES ASSUME PartnersInit PROVE PartnersInv
    OBVIOUS
  <1>1. PartnersShape
    BY MonthsAssumption DEF PartnersInit, PartnersShape, Months, Entry
  <1>2. InPayoutWasValidated /\ CommissionInWindow /\ WindowOpened
    BY DEF PartnersInit, InPayoutWasValidated, CommissionInWindow, WindowOpened
  <1>3. ReadingExists
    BY DEF PartnersInit, ReadingExists, NotReading
  <1> QED
    BY <1>1, <1>2, <1>3 DEF PartnersInv

(***************************************************************************)
(* Steps that create no commission.                                        *)
(***************************************************************************)
LEMMA DocumentStep ==
  ASSUME PartnersInv,
         NextMonth \/ AcceptLetter \/ EndContract \/ \E m \in Months : AcceptTerms(m)
  PROVE  PartnersInv'
  <1>1. UNCHANGED <<paidAt, first, ends, entry, payoutStatus, validating>>
    BY DEF NextMonth, AcceptLetter, EndContract, AcceptTerms, windowVars, payoutVars
  <1>2. PartnersShape'
    BY <1>1, MonthsAssumption
    DEF PartnersInv, PartnersShape, NextMonth, AcceptLetter, EndContract, AcceptTerms,
        contractVars, Months
  <1>3. terms' = terms \/ \A p \in Fees : entry[p].status = "absent"
    BY DEF PartnersInv, CommissionInWindow, NextMonth, AcceptLetter, EndContract, AcceptTerms,
        contractVars
  <1>4. CommissionInWindow'
    BY <1>1, <1>3 DEF PartnersInv, CommissionInWindow
  <1>5. InPayoutWasValidated' /\ WindowOpened' /\ ReadingExists'
    BY <1>1 DEF PartnersInv, InPayoutWasValidated, WindowOpened, ReadingExists
  <1> QED
    BY <1>2, <1>4, <1>5 DEF PartnersInv

LEMMA ValidateReadStep ==
  ASSUME PartnersInv, NEW w \in Staff, NEW m \in Months, ValidateRead(w, m)
  PROVE  PartnersInv'
  <1>1. PICK ids \in SUBSET Fees :
          /\ \A p \in ids : entry[p].status # "absent"
          /\ validating' = [validating EXCEPT ![w] = [month |-> m, entries |-> ids]]
    <2> WITNESS {p \in Fees : entry[p].status = "pending" /\ paidAt[p] = m} \in SUBSET Fees
    <2> QED
      BY DEF ValidateRead
  <1>2. UNCHANGED <<month, phase, letter, terms, paidAt, first, ends, entry, payoutStatus>>
    BY DEF ValidateRead, contractVars, windowVars, payoutVars
  <1>3. PartnersShape'
    BY <1>1, <1>2 DEF PartnersInv, PartnersShape, Reading
  <1>4. ReadingExists'
    BY <1>1, <1>2 DEF PartnersInv, PartnersShape, ReadingExists
  <1>5. InPayoutWasValidated' /\ CommissionInWindow' /\ WindowOpened'
    BY <1>2 DEF PartnersInv, InPayoutWasValidated, CommissionInWindow, WindowOpened
  <1> QED
    BY <1>3, <1>4, <1>5 DEF PartnersInv

(***************************************************************************)
(* Steps that change commissions that exist, and create none.              *)
(***************************************************************************)
(* What a change of the commissions must respect. *)
LEMMA ExistingKept ==
  ASSUME PartnersInv, PartnersShape',
         UNCHANGED <<terms, paidAt, first, ends>>,
         \A w \in Staff : validating'[w] = validating[w] \/ validating'[w] = NotReading,
         \A p \in Fees : entry'[p].status = "absent" <=> entry[p].status = "absent"
  PROVE  CommissionInWindow' /\ WindowOpened' /\ ReadingExists'
  <1>1. CommissionInWindow' /\ WindowOpened'
    BY DEF PartnersInv, CommissionInWindow, WindowOpened
  <1>2. \A w \in Staff : validating[w].entries \subseteq Fees
    BY DEF PartnersInv, PartnersShape, Reading, NotReading
  <1>3. ReadingExists'
    <2> SUFFICES ASSUME NEW w \in Staff, NEW p \in validating'[w].entries
                 PROVE  entry'[p].status # "absent"
      BY DEF ReadingExists
    <2>1. p \in validating[w].entries
      BY DEF NotReading
    <2> QED
      BY <2>1, <1>2 DEF PartnersInv, ReadingExists
  <1> QED
    BY <1>1, <1>3

LEMMA CancelStep ==
  ASSUME PartnersInv, NEW p \in Fees, CancelEntry(p)
  PROVE  PartnersInv'
  <1>1. /\ entry[p].status \in {"pending", "validated"}
        /\ entry[p].payout = 0
        /\ entry' = [entry EXCEPT ![p].status = "cancelled"]
        /\ UNCHANGED <<month, phase, letter, terms, paidAt, first, ends, payoutStatus, validating>>
    BY DEF CancelEntry, Cancellable, contractVars, windowVars, payoutVars
  <1>2. PartnersShape'
    BY <1>1 DEF PartnersInv, PartnersShape, Entry
  <1>3. \A q \in Fees : /\ entry'[q].payout = entry[q].payout
                        /\ entry'[q].status = IF q = p THEN "cancelled" ELSE entry[q].status
    BY <1>1 DEF PartnersInv, PartnersShape, Entry
  <1>4. CommissionInWindow' /\ WindowOpened' /\ ReadingExists'
    BY <1>1, <1>2, <1>3, ExistingKept
  <1>5. InPayoutWasValidated'
    BY <1>1, <1>3 DEF PartnersInv, InPayoutWasValidated
  <1> QED
    BY <1>2, <1>4, <1>5 DEF PartnersInv

(* A late validation may overwrite any status but an absence. *)
LEMMA ValidateWriteStep ==
  ASSUME PartnersInv, NEW w \in Staff, ValidateWrite(w)
  PROVE  PartnersInv'
  <1>1. /\ entry' = [p \in Fees |-> IF p \in validating[w].entries
                                      THEN [entry[p] EXCEPT !.status = "validated"]
                                      ELSE entry[p]]
        /\ validating' = [validating EXCEPT ![w] = NotReading]
        /\ UNCHANGED <<month, phase, letter, terms, paidAt, first, ends, payoutStatus>>
    BY DEF ValidateWrite, contractVars, windowVars, payoutVars
  <1>2. \A p \in Fees : entry[p] \in Entry
    BY DEF PartnersInv, PartnersShape
  <1>3. \A p \in Fees :
          /\ entry'[p] \in Entry
          /\ entry'[p].payout = entry[p].payout
          /\ entry'[p].status = IF p \in validating[w].entries THEN "validated" ELSE entry[p].status
    BY <1>1, <1>2 DEF Entry
  <1>4. PartnersShape'
    BY <1>1, <1>3 DEF PartnersInv, PartnersShape
  <1>5. \A p \in Fees : entry'[p].status = "absent" <=> entry[p].status = "absent"
    BY <1>3 DEF PartnersInv, ReadingExists
  <1>6. \A v \in Staff : validating'[v] = validating[v] \/ validating'[v] = NotReading
    BY <1>1 DEF PartnersInv, PartnersShape
  <1>7. CommissionInWindow' /\ WindowOpened' /\ ReadingExists'
    BY <1>1, <1>4, <1>5, <1>6, ExistingKept
  <1>8. InPayoutWasValidated'
    BY <1>1, <1>3 DEF PartnersInv, InPayoutWasValidated
  <1> QED
    BY <1>4, <1>7, <1>8 DEF PartnersInv

LEMMA BuildStep ==
  ASSUME PartnersInv, NEW m \in Months, BuildPayout(m)
  PROVE  PartnersInv'
  <1>1. /\ payoutStatus[m] \in {"absent", "due"}
        /\ payoutStatus' = [payoutStatus EXCEPT ![m] = IF @ = "absent" THEN "due" ELSE @]
        /\ entry' = [p \in Fees |-> IF p \in Unversed(m) THEN [entry[p] EXCEPT !.payout = m]
                                                          ELSE entry[p]]
        /\ UNCHANGED <<month, phase, letter, terms, paidAt, first, ends, validating>>
    BY DEF BuildPayout, Payable, Include, contractVars, windowVars
  <1>2. m \in 1..MaxMonth /\ m # 0
    BY MonthsAssumption DEF Months
  <1>3. \A p \in Fees : entry[p] \in Entry
    BY DEF PartnersInv, PartnersShape
  <1>4. \A p \in Fees :
          /\ entry'[p] \in Entry
          /\ entry'[p].status = entry[p].status
          /\ entry'[p].payout = IF p \in Unversed(m) THEN m ELSE entry[p].payout
    BY <1>1, <1>2, <1>3, MonthsAssumption DEF Entry
  <1>5. \A n \in Months : /\ payoutStatus'[n] \in {"absent", "due", "paid"}
                          /\ payoutStatus[n] = "paid" => payoutStatus'[n] = "paid"
    BY <1>1 DEF PartnersInv, PartnersShape
  <1>6. PartnersShape'
    BY <1>1, <1>4, <1>5 DEF PartnersInv, PartnersShape
  <1>7. CommissionInWindow' /\ WindowOpened' /\ ReadingExists'
    BY <1>1, <1>4, <1>6, ExistingKept
  <1>8. InPayoutWasValidated'
    <2> SUFFICES ASSUME NEW p \in Fees
                 PROVE  /\ entry'[p].payout # 0 => entry'[p].status \in {"validated", "paid"}
                        /\ entry'[p].status = "paid" =>
                             /\ entry'[p].payout # 0
                             /\ payoutStatus'[entry'[p].payout] = "paid"
      BY DEF InPayoutWasValidated
    <2>1. CASE p \in Unversed(m)
      BY <2>1, <1>4 DEF Unversed
    <2>2. CASE p \notin Unversed(m)
      <3>1. entry'[p].status = entry[p].status /\ entry'[p].payout = entry[p].payout
        BY <2>2, <1>4
      <3>2. entry[p].payout # 0 => entry[p].payout \in Months
        BY <1>3, MonthsAssumption DEF Entry, Months
      <3> QED
        BY <3>1, <3>2, <1>5 DEF PartnersInv, InPayoutWasValidated
    <2> QED
      BY <2>1, <2>2
  <1> QED
    BY <1>6, <1>7, <1>8 DEF PartnersInv

LEMMA MarkPaidStep ==
  ASSUME PartnersInv, NEW m \in Months, MarkPaid(m)
  PROVE  PartnersInv'
  <1>1. /\ payoutStatus' = [payoutStatus EXCEPT ![m] = "paid"]
        /\ entry' = [p \in Fees |-> IF entry[p].payout = m
                                      THEN [entry[p] EXCEPT !.status = "paid"] ELSE entry[p]]
        /\ UNCHANGED <<month, phase, letter, terms, paidAt, first, ends, validating>>
    BY DEF MarkPaid, contractVars, windowVars
  <1>2. m # 0
    BY MonthsAssumption DEF Months
  <1>3. \A p \in Fees : entry[p] \in Entry
    BY DEF PartnersInv, PartnersShape
  <1>4. \A p \in Fees :
          /\ entry'[p] \in Entry
          /\ entry'[p].payout = entry[p].payout
          /\ entry'[p].status = IF entry[p].payout = m THEN "paid" ELSE entry[p].status
    BY <1>1, <1>3 DEF Entry
  <1>5. \A n \in Months : payoutStatus'[n] = IF n = m THEN "paid" ELSE payoutStatus[n]
    BY <1>1 DEF PartnersInv, PartnersShape
  <1>6. PartnersShape'
    BY <1>1, <1>4 DEF PartnersInv, PartnersShape
  <1>7. \A p \in Fees : entry'[p].status = "absent" <=> entry[p].status = "absent"
    BY <1>2, <1>4 DEF PartnersInv, InPayoutWasValidated
  <1>8. CommissionInWindow' /\ WindowOpened' /\ ReadingExists'
    BY <1>1, <1>6, <1>7, ExistingKept
  <1>9. InPayoutWasValidated'
    <2> SUFFICES ASSUME NEW p \in Fees
                 PROVE  /\ entry'[p].payout # 0 => entry'[p].status \in {"validated", "paid"}
                        /\ entry'[p].status = "paid" =>
                             /\ entry'[p].payout # 0
                             /\ payoutStatus'[entry'[p].payout] = "paid"
      BY DEF InPayoutWasValidated
    <2>1. entry[p].payout # 0 => entry[p].payout \in Months
      BY <1>3, MonthsAssumption DEF Entry, Months
    <2> QED
      BY <2>1, <1>2, <1>4, <1>5 DEF PartnersInv, InPayoutWasValidated
  <1> QED
    BY <1>6, <1>8, <1>9 DEF PartnersInv

(***************************************************************************)
(* The creation of a commission.                                           *)
(***************************************************************************)
LEMMA RecordKeeps ==
  ASSUME PartnersInv, NEW p \in Fees, NEW at \in Months,
         Creates(p, at), Record(p, at),
         paidAt' \in [Fees -> 0..MaxMonth], paidAt'[p] = at,
         \A q \in Fees : q # p => paidAt'[q] = paidAt[q],
         UNCHANGED <<month, phase, letter, terms, payoutStatus, validating>>
  PROVE  PartnersInv'
  <1> DEFINE s == SellerOf[p]
  <1>1. s \in Sellers /\ \A q \in Fees : SellerOf[q] \in Sellers
    BY FeesAssumption
  <1>2. /\ entry[p].status = "absent"
        /\ terms # 0 /\ terms <= at
        /\ first[s] = 0 \/ at <= ends[s]
    BY DEF Creates, TermsInForce, InWindow
  <1>3. /\ first' = [first EXCEPT ![s] = IF @ = 0 THEN at ELSE @]
        /\ ends' = [ends EXCEPT ![s] = IF first[s] = 0 THEN at + Window ELSE @]
        /\ entry' = [entry EXCEPT ![p].status = "pending"]
    BY DEF Record
  <1> HIDE DEF s
  <1>4. at \in Nat /\ at # 0 /\ at \in 0..MaxMonth /\ Window \in Nat
    BY MonthsAssumption DEF Months
  <1>5. /\ entry \in [Fees -> Entry] /\ first \in [Sellers -> 0..MaxMonth]
        /\ ends \in [Sellers -> Nat]
    BY DEF PartnersInv, PartnersShape
  <1>6. first' \in [Sellers -> 0..MaxMonth] /\ ends' \in [Sellers -> Nat]
    BY <1>1, <1>3, <1>4, <1>5
  <1>7. entry' \in [Fees -> Entry]
    BY <1>3, <1>5 DEF Entry
  <1>8. PartnersShape'
    BY <1>6, <1>7 DEF PartnersInv, PartnersShape
  <1>9. \A q \in Fees : /\ entry'[q].payout = entry[q].payout
                        /\ entry'[q].status = IF q = p THEN "pending" ELSE entry[q].status
    BY <1>3, <1>5 DEF Entry
  <1>10. first'[s] # 0 /\ at <= ends'[s]
    BY <1>1, <1>2, <1>3, <1>4, <1>5
  <1>11. \A t \in Sellers : first[t] # 0 => first'[t] = first[t] /\ ends'[t] = ends[t]
    BY <1>1, <1>3, <1>5
  <1>12. InPayoutWasValidated'
    BY <1>2, <1>9 DEF PartnersInv, InPayoutWasValidated
  <1>13. WindowOpened'
    <2> SUFFICES ASSUME NEW q \in Fees, entry'[q].status # "absent"
                 PROVE  first'[SellerOf[q]] # 0
      BY DEF WindowOpened
    <2>1. CASE q = p
      BY <2>1, <1>10 DEF s
    <2>2. CASE q # p
      BY <2>2, <1>1, <1>9, <1>11 DEF PartnersInv, WindowOpened
    <2> QED
      BY <2>1, <2>2
  <1>14. CommissionInWindow'
    <2> SUFFICES ASSUME NEW q \in Fees, entry'[q].status # "absent"
                 PROVE  terms' # 0 /\ terms' <= paidAt'[q] /\ paidAt'[q] <= ends'[SellerOf[q]]
      BY DEF CommissionInWindow
    <2>1. CASE q = p
      BY <2>1, <1>2, <1>10 DEF s
    <2>2. CASE q # p
      <3>1. entry[q].status # "absent" /\ paidAt'[q] = paidAt[q]
        BY <2>2, <1>9
      <3>2. ends'[SellerOf[q]] = ends[SellerOf[q]]
        BY <3>1, <1>1, <1>11 DEF PartnersInv, WindowOpened
      <3> QED
        BY <3>1, <3>2 DEF PartnersInv, CommissionInWindow
    <2> QED
      BY <2>1, <2>2
  <1>15. \A w \in Staff : validating[w].entries \subseteq Fees
    BY DEF PartnersInv, PartnersShape, Reading, NotReading
  <1>16. ReadingExists'
    BY <1>9, <1>15 DEF PartnersInv, ReadingExists
  <1> QED
    BY <1>8, <1>12, <1>13, <1>14, <1>16 DEF PartnersInv

LEMMA CollectStep ==
  ASSUME PartnersInv, NEW p \in Fees, Collect(p)
  PROVE  PartnersInv'
  <1>1. /\ paidAt[p] = 0
        /\ paidAt' = [paidAt EXCEPT ![p] = month]
        /\ UNCHANGED <<month, phase, letter, terms, payoutStatus, validating>>
    BY DEF Collect, contractVars, payoutVars
  <1>2. month \in Months /\ month \in 0..MaxMonth /\ paidAt \in [Fees -> 0..MaxMonth]
    BY MonthsAssumption DEF PartnersInv, PartnersShape, Months
  <1>3. /\ paidAt' \in [Fees -> 0..MaxMonth]
        /\ paidAt'[p] = month
        /\ \A q \in Fees : q # p => paidAt'[q] = paidAt[q]
    BY <1>1, <1>2
  <1>4. CASE Creates(p, month) /\ Record(p, month)
    BY <1>1, <1>2, <1>3, <1>4, RecordKeeps
  <1>5. CASE UNCHANGED <<first, ends, entry>>
    <2>1. entry[p].status = "absent"
      <3>1. terms \in Nat
        BY MonthsAssumption DEF PartnersInv, PartnersShape
      <3> QED
        BY <1>1, <3>1 DEF PartnersInv, CommissionInWindow
    <2>2. PartnersShape'
      BY <1>1, <1>3, <1>5 DEF PartnersInv, PartnersShape
    <2>3. CommissionInWindow'
      BY <1>1, <1>3, <1>5, <2>1 DEF PartnersInv, CommissionInWindow
    <2>4. InPayoutWasValidated' /\ WindowOpened' /\ ReadingExists'
      BY <1>1, <1>5 DEF PartnersInv, InPayoutWasValidated, WindowOpened, ReadingExists
    <2> QED
      BY <2>2, <2>3, <2>4 DEF PartnersInv
  <1> QED
    BY <1>4, <1>5 DEF Collect, windowVars

LEMMA ReconcileStep ==
  ASSUME PartnersInv, NEW p \in Fees, Reconcile(p)
  PROVE  PartnersInv'
  <1>1. paidAt \in [Fees -> 0..MaxMonth]
    BY DEF PartnersInv, PartnersShape
  <1>2. paidAt[p] \in Months
    BY <1>1, MonthsAssumption DEF Reconcile, Months
  <1>3. /\ Creates(p, paidAt[p]) /\ Record(p, paidAt[p])
        /\ paidAt' = paidAt
        /\ UNCHANGED <<month, phase, letter, terms, payoutStatus, validating>>
    BY DEF Reconcile, contractVars, payoutVars
  <1> QED
    BY <1>1, <1>2, <1>3, RecordKeeps

LEMMA PartnersInductive ==
  PartnersInv /\ [PartnersNext]_partnersVars => PartnersInv'
  <1> SUFFICES ASSUME PartnersInv, [PartnersNext]_partnersVars PROVE PartnersInv'
    OBVIOUS
  <1>1. CASE NextMonth \/ AcceptLetter \/ EndContract \/ \E m \in Months : AcceptTerms(m)
    BY <1>1, DocumentStep
  <1>2. ASSUME NEW p \in Fees, Collect(p) \/ Reconcile(p) \/ CancelEntry(p)
        PROVE  PartnersInv'
    BY <1>2, CollectStep, ReconcileStep, CancelStep
  <1>3. ASSUME NEW w \in Staff, ValidateWrite(w) \/ \E m \in Months : ValidateRead(w, m)
        PROVE  PartnersInv'
    BY <1>3, ValidateWriteStep, ValidateReadStep
  <1>4. ASSUME NEW m \in Months, BuildPayout(m) \/ MarkPaid(m)
        PROVE  PartnersInv'
    BY <1>4, BuildStep, MarkPaidStep
  <1>5. CASE UNCHANGED partnersVars
    <2>1. UNCHANGED <<month, phase, letter, terms, paidAt, first, ends, entry, payoutStatus,
                      validating>>
      BY <1>5 DEF partnersVars, contractVars, windowVars, payoutVars
    <2> QED
      BY <2>1 DEF PartnersInv, PartnersShape, InPayoutWasValidated, CommissionInWindow,
         WindowOpened, ReadingExists
  <1> QED
    BY <1>1, <1>2, <1>3, <1>4, <1>5 DEF PartnersNext

LEMMA PartnersAlways == PartnersSpec => []PartnersInv
  BY PartnersInitial, PartnersInductive, PTL DEF PartnersSpec

(* What a payout holds is validated or paid, and what is paid is in a      *)
(* payout that was paid, whatever validations overwrite.                   *)
THEOREM PayoutHoldsValidated == PartnersSpec => []InPayoutWasValidated
  <1>1. PartnersInv => InPayoutWasValidated
    BY DEF PartnersInv
  <1> QED
    BY <1>1, PartnersAlways, PTL

(* A commission is for a payment between the acceptance of the terms and   *)
(* the end of the window, whatever was recorded late.                      *)
THEOREM CommissionsAreInWindow == PartnersSpec => []CommissionInWindow
  <1>1. PartnersInv => CommissionInWindow
    BY DEF PartnersInv
  <1> QED
    BY <1>1, PartnersAlways, PTL

(***************************************************************************)
(* Totals.                                                                 *)
(***************************************************************************)
(* Every month has the total of the commissions it holds, a month without  *)
(* a payout none: what a new payout adds to is 0.                          *)
TotalsAreSums == \A m \in Months : payoutTotal[m] = Total(EntriesOf(m))

TotalsInv ==
  /\ letter \in BOOLEAN
  /\ payoutTotal \in [Months -> Nat]
  /\ TotalsAreSums

LEMMA TotalIsSum == ASSUME NEW entries PROVE Total(entries) = SumOver(Commission, entries)
  BY DEF Total, SumOver

LEMMA TotalType ==
  ASSUME NEW entries \in SUBSET Fees
  PROVE  Total(entries) \in Nat
  <1>1. IsFiniteSet(entries) /\ \A p \in entries : Commission[p] \in Nat
    BY FeesAssumption, FS_Subset
  <1>2. SumOver(Commission, entries) \in Nat
    BY <1>1, SumType
  <1> QED
    BY <1>2, TotalIsSum

(* Only build_payout puts a commission in a payout. *)
LEMMA EntriesKept ==
  ASSUME PartnersInv, [PartnersNext]_partnersVars, \A m \in Months : ~BuildPayout(m)
  PROVE  /\ payoutTotal' = payoutTotal
         /\ \A m \in Months : EntriesOf(m)' = EntriesOf(m)
  <1>1. entry \in [Fees -> Entry]
    BY DEF PartnersInv, PartnersShape
  <1> DEFINE PayoutsKept == \A p \in Fees : entry'[p].payout = entry[p].payout
  <1>2. ASSUME UNCHANGED entry PROVE PayoutsKept
    BY <1>2
  <1>3. ASSUME NEW p \in Fees, NEW at, Record(p, at) PROVE PayoutsKept
    BY <1>1, <1>3 DEF Record, Entry
  <1>4. ASSUME NEW p \in Fees, CancelEntry(p) PROVE PayoutsKept
    BY <1>1, <1>4 DEF CancelEntry, Entry
  <1>5. ASSUME NEW w \in Staff, ValidateWrite(w) PROVE PayoutsKept
    BY <1>1, <1>5 DEF ValidateWrite, Entry
  <1>6. ASSUME NEW m \in Months, MarkPaid(m) PROVE PayoutsKept
    BY <1>1, <1>6 DEF MarkPaid, Entry
  <1> HIDE DEF PayoutsKept
  <1>7. PayoutsKept
    BY <1>2, <1>3, <1>4, <1>5, <1>6
    DEF PartnersNext, NextMonth, AcceptLetter, AcceptTerms, EndContract, Collect, Reconcile,
        ValidateRead, partnersVars
  <1>8. payoutTotal' = payoutTotal
    BY DEF PartnersNext, NextMonth, AcceptLetter, AcceptTerms, EndContract, Collect, Reconcile,
       CancelEntry, ValidateRead, ValidateWrite, MarkPaid, partnersVars, payoutVars
  <1> QED
    BY <1>7, <1>8 DEF PayoutsKept, EntriesOf

(* What build_payout adds to a month was in no payout. *)
LEMMA BuildEntries ==
  ASSUME PartnersInv, NEW n \in Months, BuildPayout(n)
  PROVE  /\ EntriesOf(n)' = EntriesOf(n) \cup Unversed(n)
         /\ EntriesOf(n) \cap Unversed(n) = {}
         /\ \A m \in Months : m # n => EntriesOf(m)' = EntriesOf(m)
  <1>1. 0 \notin Months
    BY MonthsAssumption DEF Months
  <1>2. \A p \in Fees : entry[p] \in Entry
    BY DEF PartnersInv, PartnersShape
  <1>3. \A p \in Fees :
          entry'[p].payout = IF p \in Unversed(n) THEN n ELSE entry[p].payout
    BY <1>2 DEF BuildPayout, Include, Entry
  <1>4. \A p \in Unversed(n) : p \in Fees /\ entry[p].payout = 0
    BY DEF Unversed
  <1> QED
    BY <1>1, <1>3, <1>4 DEF EntriesOf

LEMMA TotalsBuild ==
  ASSUME PartnersInv, TotalsInv, NEW n \in Months, BuildPayout(n)
  PROVE  TotalsInv'
  <1> DEFINE A == EntriesOf(n)
             B == Unversed(n)
  <1>1. A \in SUBSET Fees /\ B \in SUBSET Fees
    BY DEF EntriesOf, Unversed
  <1>2. /\ letter' = letter
        /\ payoutTotal' = [payoutTotal EXCEPT ![n] = payoutTotal[n] + Total(B)]
    BY DEF BuildPayout, NewTotal, contractVars
  <1>3. /\ EntriesOf(n)' = A \cup B /\ A \cap B = {}
        /\ \A m \in Months : m # n => EntriesOf(m)' = EntriesOf(m)
    BY BuildEntries
  <1>4. payoutTotal[n] = Total(A)
    BY DEF TotalsInv, TotalsAreSums
  <1> HIDE DEF A, B
  <1>5. IsFiniteSet(A) /\ IsFiniteSet(B) /\ \A p \in A \cup B : Commission[p] \in Int
    BY <1>1, FeesAssumption, FS_Subset
  <1>6. Total(A \cup B) = Total(A) + Total(B)
    BY <1>3, <1>5, SumOfUnion, TotalIsSum
  <1>7. Total(B) \in Nat
    BY <1>1, TotalType
  <1>8. payoutTotal' \in [Months -> Nat]
    BY <1>2, <1>7 DEF TotalsInv
  <1>9. payoutTotal'[n] = Total(A \cup B)
    BY <1>2, <1>4, <1>6 DEF TotalsInv
  <1>10. \A m \in Months : m # n => payoutTotal'[m] = payoutTotal[m]
    BY <1>2 DEF TotalsInv
  <1>11. TotalsAreSums'
    BY <1>3, <1>9, <1>10 DEF TotalsInv, TotalsAreSums
  <1> QED
    BY <1>2, <1>8, <1>11 DEF TotalsInv

LEMMA TotalsAlways == PartnersSpec => []TotalsInv
  <1>1. PartnersInit => TotalsInv
    <2> SUFFICES ASSUME PartnersInit PROVE TotalsInv
      OBVIOUS
    <2>1. \A m \in Months : EntriesOf(m) = {} /\ payoutTotal[m] = 0
      BY MonthsAssumption DEF PartnersInit, EntriesOf, Months
    <2>2. Total({}) = 0
      BY TotalIsSum, SumOfNone
    <2> QED
      BY <2>1, <2>2 DEF PartnersInit, TotalsInv, TotalsAreSums
  <1>2. PartnersInv /\ TotalsInv /\ [PartnersNext]_partnersVars => TotalsInv'
    <2> SUFFICES ASSUME PartnersInv, TotalsInv, [PartnersNext]_partnersVars
                 PROVE  TotalsInv'
      OBVIOUS
    <2>1. CASE \E m \in Months : BuildPayout(m)
      BY <2>1, TotalsBuild
    <2>2. CASE \A m \in Months : ~BuildPayout(m)
      <3>1. payoutTotal' = payoutTotal /\ \A m \in Months : EntriesOf(m)' = EntriesOf(m)
        BY <2>2, EntriesKept
      <3>2. letter' \in BOOLEAN
        BY DEF TotalsInv, PartnersNext, NextMonth, AcceptLetter, AcceptTerms, EndContract, Collect,
           Reconcile, CancelEntry, ValidateRead, ValidateWrite, BuildPayout, MarkPaid,
           partnersVars, contractVars
      <3> QED
        BY <3>1, <3>2 DEF TotalsInv, TotalsAreSums
    <2> QED
      BY <2>1, <2>2
  <1> QED
    BY <1>1, <1>2, PartnersAlways, PTL DEF PartnersSpec

(* The total of a payout is the sum of the commissions it holds, however   *)
(* often build_payout completes it and whatever validations overwrite.     *)
THEOREM PayoutTotalsAreSums == PartnersSpec => []PayoutIsSum
  <1>1. TotalsInv => PayoutIsSum
    BY DEF TotalsInv, TotalsAreSums, PayoutIsSum
  <1> QED
    BY <1>1, TotalsAlways, PTL

(* A payout exists only from the minimum on (payouts.py:5), though it is   *)
(* created and completed from what is validated at the time.               *)
PayoutReachesMinimum ==
  \A m \in Months : payoutStatus[m] # "absent" => payoutTotal[m] >= Minimum

(* build_payout keeps to the minimum, for every sequence of validations    *)
(* and completions.                                                        *)
THEOREM PayoutsReachMinimum == PartnersSpec => []PayoutReachesMinimum
  <1>1. PartnersInit => PayoutReachesMinimum
    BY DEF PartnersInit, PayoutReachesMinimum
  <1>2. PartnersInv /\ TotalsInv /\ TotalsInv' /\ PayoutReachesMinimum
          /\ [PartnersNext]_partnersVars => PayoutReachesMinimum'
    <2> SUFFICES ASSUME PartnersInv, TotalsInv, PayoutReachesMinimum,
                        [PartnersNext]_partnersVars,
                        NEW m \in Months, payoutStatus'[m] # "absent"
                 PROVE  payoutTotal'[m] >= Minimum
      BY DEF PayoutReachesMinimum
    <2>1. Minimum \in Nat /\ payoutTotal[m] \in Nat
      BY MonthsAssumption DEF TotalsInv
    <2>2. ASSUME NEW n \in Months, BuildPayout(n) PROVE payoutTotal'[m] >= Minimum
      <3>1. Unversed(n) \in SUBSET Fees
        BY DEF Unversed
      <3>2. Total(Unversed(n)) \in Nat
        BY <3>1, TotalType
      <3>3. CASE m = n
        BY <2>1, <2>2, <3>2, <3>3
        DEF BuildPayout, NewTotal, Payable, TotalsInv, PayoutReachesMinimum
      <3>4. CASE m # n
        BY <2>2, <3>4
        DEF BuildPayout, TotalsInv, PayoutReachesMinimum, PartnersInv, PartnersShape
      <3> QED
        BY <3>3, <3>4
    <2>3. CASE \A n \in Months : ~BuildPayout(n)
      <3>1. payoutStatus[m] # "absent"
        BY <2>3 DEF PartnersInv, PartnersShape, PartnersNext, NextMonth, AcceptLetter, AcceptTerms,
           EndContract, Collect, Reconcile, CancelEntry, ValidateRead, ValidateWrite, MarkPaid,
           partnersVars, payoutVars
      <3> QED
        BY <2>3, <3>1, EntriesKept DEF PayoutReachesMinimum
    <2> QED
      BY <2>2, <2>3
  <1> QED
    BY <1>1, <1>2, PartnersAlways, TotalsAlways, PTL DEF PartnersSpec

(* Every variable keeps its type: no total is negative. *)
THEOREM PartnersTypes == PartnersSpec => []PartnersTypeOK
  <1>1. PartnersInv /\ TotalsInv => PartnersTypeOK
    BY DEF PartnersInv, PartnersShape, TotalsInv, PartnersTypeOK
  <1> QED
    BY <1>1, PartnersAlways, TotalsAlways, PTL

(***************************************************************************)
(* A paid payout never changes.                                            *)
(***************************************************************************)
Settled(m) ==
  payoutStatus[m] = "paid" =>
    /\ payoutStatus'[m] = "paid"
    /\ payoutTotal'[m] = payoutTotal[m]
    /\ EntriesOf(m)' = EntriesOf(m)

LEMMA StatusSettled ==
  ASSUME PartnersInv, [PartnersNext]_partnersVars, NEW m \in Months, payoutStatus[m] = "paid"
  PROVE  payoutStatus'[m] = "paid"
  <1>1. payoutStatus \in [Months -> {"absent", "due", "paid"}]
    BY DEF PartnersInv, PartnersShape
  <1> QED
    BY <1>1 DEF PartnersNext, NextMonth, AcceptLetter, AcceptTerms, EndContract, Collect, Reconcile,
       CancelEntry, ValidateRead, ValidateWrite, BuildPayout, MarkPaid, partnersVars, payoutVars

LEMMA StepSettles ==
  ASSUME PartnersInv, TotalsInv, [PartnersNext]_partnersVars, NEW m \in Months
  PROVE  Settled(m)
  <1> SUFFICES ASSUME payoutStatus[m] = "paid"
               PROVE  payoutTotal'[m] = payoutTotal[m] /\ EntriesOf(m)' = EntriesOf(m)
    BY StatusSettled DEF Settled
  <1>1. ASSUME NEW n \in Months, BuildPayout(n)
        PROVE  payoutTotal'[m] = payoutTotal[m] /\ EntriesOf(m)' = EntriesOf(m)
    <2>1. m # n
      BY <1>1 DEF BuildPayout, Payable
    <2>2. payoutTotal'[m] = payoutTotal[m]
      BY <1>1, <2>1 DEF BuildPayout, TotalsInv
    <2> QED
      BY <1>1, <2>1, <2>2, BuildEntries
  <1> QED
    BY <1>1, EntriesKept

(* A payout that was paid keeps its total and its commissions for ever,    *)
(* against build_payout, cancel_entry and late validations.                *)
THEOREM PaidPayoutIsKept == PartnersSpec => PaidIsFinal
  <1>1. PartnersInv /\ TotalsInv /\ [PartnersNext]_partnersVars
          => [\A m \in Months : Settled(m)]_partnersVars
    BY StepSettles
  <1>2. (\A m \in Months : Settled(m)) =>
          \A m \in Months :
            payoutStatus[m] = "paid" =>
              /\ payoutStatus'[m] = "paid"
              /\ payoutTotal'[m] = payoutTotal[m]
              /\ EntriesOf(m)' = EntriesOf(m)
    BY DEF Settled
  <1> QED
    BY <1>1, <1>2, PartnersAlways, TotalsAlways, PTL DEF PartnersSpec, PaidIsFinal
=============================================================================
