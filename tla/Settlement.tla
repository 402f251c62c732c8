------------------------------ MODULE Settlement ------------------------------
(***************************************************************************)
(* Settlement of the sales of one reseller of a wholesaler                 *)
(* (distrib/services/settlement.py, receipts.py, statements.py and the     *)
(* tasks of distrib/tasks.py): the follow-up line of every order, the      *)
(* weekly statements of the margins and their payouts.                     *)
(*                                                                         *)
(* An order carries one line (services/commission.py:7): a line stands for *)
(* its order too.  What a function does under the lock of the line or of   *)
(* the statement is one action.  Two gaps remain.  sync_order reads the    *)
(* order without a lock and applies what it read later (seen[w]).  A line  *)
(* that leaves a statement is written in a transaction that holds only the *)
(* line, reads the lines left and writes their sum: in fix[w] between its  *)
(* reading and its commit.                                                 *)
(*                                                                         *)
(* Abstractions: the amount of a statement is the set of the lines it      *)
(* sums (covers).  Of the instant of a confirmation its week is kept, and  *)
(* a deadline that was set may pass at any time.  The commission is not    *)
(* kept: it is set and cleared with PAID_CONFIRMED.  Nor is the conflict   *)
(* flag, a signal to the team that no function reads to decide.            *)
(***************************************************************************)
EXTENDS Integers, FiniteSets, FiniteSetsExt

CONSTANTS
  Lines,        \* orders of imported products, with their line
  Margin,       \* Margin[l]: sale minus wholesale price, perhaps negative
  Sessions,     \* web workers and the worker of the reconciliation
  MaxWeek,      \* bound on the weeks
  MaxAttempts,  \* bound on the payouts of a statement
  MaxCorrections \* bound on the corrections by the team

ASSUME LinesAssumption == Margin \in [Lines -> Int]

ASSUME BoundsAssumption ==
  /\ {MaxWeek, MaxAttempts} \subseteq Nat \ {0}
  /\ MaxCorrections \in Nat

VARIABLES
  order,      \* order[l]: Order.status
  line,       \* line[l]: the row of DistribSettlement
  statement,  \* statement[p]: the DistribStatement of week p
  payout,     \* payout[p][a]: status of the attempt a to pay statement p
  now,        \* the week
  corrected,  \* corrections by the team
  seen,       \* seen[w]: what sync_order read and did not apply yet
  fix         \* fix[w]: a line on its way out of a statement

lineVars      == <<line, corrected>>
statementVars == <<statement, payout>>
worldVars     == <<order, now>>
vars == <<lineVars, statementVars, worldVars, seen, fix>>

OrderStatuses == {"pending", "confirmed", "out_for_delivery", "delivered", "cancelled"}
Open          == {"ordered", "in_delivery", "delivered_by_shop"}
LineStatuses  == Open \cup {"absent", "paid_confirmed", "cancelled", "not_delivered"}
StatementStatuses == {"absent", "to_pay", "paid", "accepted", "contested", "escalated"}
PayoutStatuses == {"none", "declared", "accepted", "contested"}

Weeks    == 1..MaxWeek
Attempts == 1..MaxAttempts

(* DistribSettlement: week is the week of paid_confirmed_at; presumed is   *)
(* auto_confirm_at and told customer_confirmed_at; 0 and FALSE are null.   *)
(* Of the sources of a confirmation only the presumption, auto, is ever    *)
(* told apart.                                                             *)
Row == [status: LineStatuses, auto: BOOLEAN, margin: Int, presumed: BOOLEAN,
        week: 0..MaxWeek, statement: 0..MaxWeek, payout: 0..MaxAttempts,
        told: BOOLEAN]

(* DistribStatement *)
Statement == [status: StatementStatuses, covers: SUBSET Lines,
              contests: 0..2, attempts: 0..MaxAttempts]

Nothing == [at |-> "idle"]
Reading == [at: {"sync"}, line: Lines, order: OrderStatuses]
Fixing  == [at: {"fix"}, line: Lines, row: Row, statement: Weeks, left: SUBSET Lines]

LinesOf(p) == {l \in Lines : line[l].statement = p}

(* The rows a transaction that is still open has locked. *)
Locked(l) == \E w \in Sessions : fix[w].at = "fix" /\ fix[w].line = l

NoLine == [status |-> "absent", auto |-> FALSE, margin |-> 0, presumed |-> FALSE, week |-> 0,
           statement |-> 0, payout |-> 0, told |-> FALSE]

NoStatement == [status |-> "absent", covers |-> {}, contests |-> 0, attempts |-> 0]

Init ==
  /\ order = [l \in Lines |-> "pending"]
  /\ line = [l \in Lines |-> NoLine]
  /\ statement = [p \in Weeks |-> NoStatement]
  /\ payout = [p \in Weeks |-> [a \in Attempts |-> "none"]]
  /\ now = 1
  /\ corrected = 0
  /\ seen = [w \in Sessions |-> Nothing]
  /\ fix = [w \in Sessions |-> Nothing]

SetLine(l, row) == line' = [line EXCEPT ![l] = row]

(***************************************************************************)
(* The line follows its order.                                             *)
(***************************************************************************)
(* sync_order reads the order, without a lock. *)
SyncRead(w, l) ==
  /\ seen[w] = Nothing
  /\ fix[w] = Nothing
  /\ seen' = [seen EXCEPT ![w] = [at |-> "sync", line |-> l, order |-> order[l]]]
  /\ UNCHANGED <<lineVars, statementVars, worldVars, fix>>

(* order_saved, after the commit of whoever saved the order: the callbacks *)
(* of two saves run in any order.  One that fails is only logged, as if it *)
(* had not run.                                                            *)
OrderSaved(w, l) == SyncRead(w, l)

(* Mutation: any confirmation may be reversed. *)
PresumedAny(l) == line[l].status = "paid_confirmed" /\ line[l].payout = 0

(* Confirmed by the presumption alone, and not paid out. *)
Presumed(l) == line[l].status = "paid_confirmed" /\ line[l].auto /\ line[l].payout = 0

(* Mutation: an open line is taken for settled. *)
ForgottenLate(l) ==
  \/ line[l].status = "absent"
  \/ (line[l].status = "paid_confirmed" /\ order[l] = "cancelled")

(* reconcile, every five minutes: what the filter of its query selects. *)
Forgotten(l) ==
  \/ line[l].status \in Open \cup {"absent"}
  \/ (line[l].status = "paid_confirmed" /\ order[l] = "cancelled")

Reconcile(w, l) == Forgotten(l) /\ SyncRead(w, l)

Synced(w) == seen' = [seen EXCEPT ![w] = Nothing]

(* A line that is not open keeps its status, but for the reversal below.  A *)
(* confirmed line of a cancelled order is flagged for the team.            *)
SyncNothing(w) ==
  /\ seen[w] # Nothing
  /\ LET l == seen[w].line IN
       /\ line[l].status \notin Open \cup {"absent"}
       /\ ~ (Presumed(l) /\ seen[w].order = "cancelled")
       /\ ~ Locked(l)
  /\ Synced(w)
  /\ UNCHANGED <<lineVars, statementVars, worldVars, fix>>

(* STATUS_MAP *)
StatusMap(st) ==
  CASE st \in {"pending", "confirmed"} -> "ordered"
    [] st = "out_for_delivery" -> "in_delivery"
    [] st = "delivered" -> "delivered_by_shop"
    [] st = "cancelled" -> "cancelled"

(* _create_line *)
Created(l) == [NoLine EXCEPT !.status = "ordered", !.margin = Margin[l]]

(* The presumption runs from the first status of the order that is one of  *)
(* CONFIRMED_ORDER_STATUSES.                                               *)
Started(row, st) == row.presumed \/ st \in {"confirmed", "out_for_delivery", "delivered"}

(* sync_order and _apply_order_state: a line that is still open. *)
SyncOpen(w) ==
  /\ seen[w] # Nothing
  /\ LET l   == seen[w].line
         st  == seen[w].order
         row == IF line[l].status = "absent" THEN Created(l) ELSE line[l]
     IN /\ line[l].status \in Open \cup {"absent"}
        /\ ~ Locked(l)
        /\ SetLine(l, [row EXCEPT !.status = StatusMap(st), !.presumed = Started(row, st)])
  /\ Synced(w)
  /\ UNCHANGED <<corrected, statementVars, worldVars, fix>>

(* A line leaves its statement: recalc_statement reads the lines left, and *)
(* only them are locked out.                                               *)
Withdraw(w, l, row) ==
  fix' = [fix EXCEPT ![w] = [at |-> "fix", line |-> l, row |-> row,
            statement |-> line[l].statement, left |-> LinesOf(line[l].statement) \ {l}]]

(* _reverse_presumption *)
Reversed(l) ==
  [line[l] EXCEPT !.status = "cancelled", !.margin = 0, !.statement = 0]

SyncReverse(w) ==
  /\ seen[w] # Nothing
  /\ LET l == seen[w].line IN
       /\ Presumed(l)
       /\ seen[w].order = "cancelled"
       /\ ~ Locked(l)
       /\ IF line[l].statement = 0
          THEN SetLine(l, Reversed(l)) /\ UNCHANGED fix
          ELSE Withdraw(w, l, Reversed(l)) /\ UNCHANGED line
  /\ Synced(w)
  /\ UNCHANGED <<corrected, statementVars, worldVars>>

(* The end of that transaction: recalc_statement writes what it has summed *)
(* and deletes an empty statement, which its payouts forbid.  The whole    *)
(* transaction is then undone.                                             *)
FixCommit(w) ==
  /\ fix[w] # Nothing
  /\ LET f == fix[w] IN
       /\ f.left = {} => statement[f.statement].attempts = 0
       /\ SetLine(f.line, f.row)
       /\ statement' = [statement EXCEPT ![f.statement] =
            IF f.left = {} THEN NoStatement
            ELSE [statement[f.statement] EXCEPT !.covers = f.left]]
       /\ corrected' = IF f.row.auto THEN corrected ELSE corrected + 1  \* auto: a reversal
  /\ fix' = [fix EXCEPT ![w] = Nothing]
  /\ UNCHANGED <<payout, worldVars, seen>>

FixRefused(w) ==
  /\ fix[w] # Nothing
  /\ fix[w].left = {}
  /\ statement[fix[w].statement].attempts > 0
  /\ fix' = [fix EXCEPT ![w] = Nothing]
  /\ UNCHANGED <<lineVars, statementVars, worldVars, seen>>

(***************************************************************************)
(* Delivered is paid.                                                      *)
(***************************************************************************)
(* _mark_paid *)
Paid(l, auto) ==
  [line[l] EXCEPT !.status = "paid_confirmed", !.auto = auto, !.week = now]

(* The order is read under its lock too. *)
MayConfirm(l) ==
  /\ line[l].status \in Open
  /\ order[l] # "cancelled"
  /\ ~ Locked(l)

(* distributor_confirm *)
DistributorConfirm(l) ==
  /\ MayConfirm(l)
  /\ SetLine(l, Paid(l, FALSE))
  /\ UNCHANGED <<corrected, statementVars, worldVars, seen, fix>>

(* auto_confirm_due, once auto_confirm_at is past: each line is looked at  *)
(* again under its lock.                                                   *)
AutoConfirm(l) ==
  /\ MayConfirm(l)
  /\ line[l].presumed
  /\ SetLine(l, Paid(l, TRUE))
  /\ UNCHANGED <<corrected, statementVars, worldVars, seen, fix>>

(* customer_confirm, from the receipt: against a "not delivered" it only   *)
(* tells the team.                                                         *)
CustomerConfirm(l) ==
  /\ line[l].status \notin {"absent", "cancelled"}
  /\ order[l] # "cancelled"
  /\ ~ line[l].told
  /\ ~ Locked(l)
  /\ LET row == IF line[l].status \in Open THEN Paid(l, FALSE) ELSE line[l]
     IN SetLine(l, [row EXCEPT !.told = TRUE])
  /\ UNCHANGED <<corrected, statementVars, worldVars, seen, fix>>

(* declare_not_delivered *)
DeclareNotDelivered(l) ==
  /\ line[l].status \in Open
  /\ ~ Locked(l)
  /\ SetLine(l, [line[l] EXCEPT !.status = "not_delivered"])
  /\ UNCHANGED <<corrected, statementVars, worldVars, seen, fix>>

(***************************************************************************)
(* The team corrects a line: staff_correct.                                *)
(***************************************************************************)
CorrectableTo == {"paid_confirmed", "cancelled", "not_delivered", "ordered"}

Correction(l, to) ==
  IF to = "paid_confirmed"
  THEN Paid(l, FALSE)
  ELSE [line[l] EXCEPT !.status = to, !.auto = FALSE, !.week = 0, !.statement = 0,
          !.margin = IF to = "cancelled" THEN 0 ELSE line[l].margin]

(* Mutation: a line of a payout may be corrected. *)
CorrectableAlways(l, to) ==
  /\ line[l].status \notin {"absent", to}
  /\ corrected < MaxCorrections
  /\ ~ Locked(l)

Correctable(l, to) ==
  /\ line[l].status \notin {"absent", to}
  /\ line[l].payout = 0
  /\ corrected < MaxCorrections
  /\ ~ Locked(l)

StaffCorrect(l, to) ==
  /\ Correctable(l, to)
  /\ line[l].statement = 0
  /\ SetLine(l, Correction(l, to))
  /\ corrected' = corrected + 1
  /\ UNCHANGED <<statementVars, worldVars, seen, fix>>

(* The line of a statement to pay: it leaves the statement. *)
StaffWithdraw(w, l, to) ==
  /\ seen[w] = Nothing
  /\ fix[w] = Nothing
  /\ Correctable(l, to)
  /\ line[l].statement # 0
  /\ Withdraw(w, l, Correction(l, to))
  /\ UNCHANGED <<lineVars, statementVars, worldVars, seen>>

(***************************************************************************)
(* Statements and payouts.                                                 *)
(***************************************************************************)
(* close_weekly_statements, for the week that is over. *)
Unsettled ==
  {l \in Lines : /\ line[l].status = "paid_confirmed"
                 /\ line[l].statement = 0
                 /\ line[l].payout = 0
                 /\ line[l].week < now}

CloseWeek ==
  /\ now > 1
  /\ statement[now - 1].status = "absent"
  /\ MapThenSumSet(LAMBDA l : line[l].margin, Unsettled) > 0
  /\ statement' = [statement EXCEPT ![now - 1] =
       [status |-> "to_pay", covers |-> Unsettled, contests |-> 0, attempts |-> 0]]
  /\ line' = [l \in Lines |->
       IF l \in Unsettled THEN [line[l] EXCEPT !.statement = now - 1] ELSE line[l]]
  /\ UNCHANGED <<corrected, payout, worldVars, seen, fix>>

AttachPayout(p, a) ==
  line' = [l \in Lines |->
    IF line[l].statement = p THEN [line[l] EXCEPT !.payout = a] ELSE line[l]]

(* Mutations: a second click pays again; the lines are not waited for. *)
DeclareTwice(p) ==
  LET s == statement[p]
      a == s.attempts + 1
  IN /\ s.status \in {"to_pay", "paid"} \/ (s.status = "contested" /\ s.contests = 1)
     /\ \A l \in LinesOf(p) : ~ Locked(l)
     /\ s.attempts < MaxAttempts
     /\ payout' = [payout EXCEPT ![p][a] = "declared"]
     /\ statement' = [statement EXCEPT ![p] = [s EXCEPT !.status = "paid", !.attempts = a]]
     /\ AttachPayout(p, a)
     /\ UNCHANGED <<corrected, worldVars, seen, fix>>

DeclareAtOnce(p) ==
  LET s == statement[p]
      a == s.attempts + 1
  IN /\ s.status = "to_pay" \/ (s.status = "contested" /\ s.contests = 1)
     /\ s.attempts < MaxAttempts
     /\ payout' = [payout EXCEPT ![p][a] = "declared"]
     /\ statement' = [statement EXCEPT ![p] = [s EXCEPT !.status = "paid", !.attempts = a]]
     /\ AttachPayout(p, a)
     /\ UNCHANGED <<corrected, worldVars, seen, fix>>

(* declare_paid: the lines are waited for.  A line being withdrawn waits   *)
(* in turn for the statement: the database then breaks the deadlock.       *)
DeclarePaid(p) ==
  LET s == statement[p]
      a == s.attempts + 1
  IN /\ s.status = "to_pay" \/ (s.status = "contested" /\ s.contests = 1)
     /\ \A l \in LinesOf(p) : ~ Locked(l)
     /\ s.attempts < MaxAttempts
     /\ payout' = [payout EXCEPT ![p][a] = "declared"]
     /\ statement' = [statement EXCEPT ![p] = [s EXCEPT !.status = "paid", !.attempts = a]]
     /\ AttachPayout(p, a)
     /\ UNCHANGED <<corrected, worldVars, seen, fix>>

(* The last payout of p takes a status and p one of its own. *)
Answer(p, payoutStatus, status, contests) ==
  /\ payout' = [payout EXCEPT ![p][statement[p].attempts] = payoutStatus]
  /\ statement' = [statement EXCEPT ![p] =
       [statement[p] EXCEPT !.status = status, !.contests = contests]]
  /\ UNCHANGED <<lineVars, worldVars, seen, fix>>

Awaited(p) ==
  /\ statement[p].status = "paid"
  /\ payout[p][statement[p].attempts] = "declared"

(* answer_payout *)
Accept(p) ==
  /\ Awaited(p)
  /\ Answer(p, "accepted", "accepted", statement[p].contests)

(* Mutation: an attempt counts for its number. *)
ContestByAttempt(p) ==
  LET contests == statement[p].contests + statement[p].attempts IN
  /\ Awaited(p)
  /\ Answer(p, "contested", IF contests >= 2 THEN "escalated" ELSE "contested", contests)

Contest(p) ==
  LET contests == statement[p].contests + 1 IN
  /\ Awaited(p)
  /\ Answer(p, "contested", IF contests >= 2 THEN "escalated" ELSE "contested", contests)

(* Mutation: a payout that was contested once is never accepted by silence. *)
AcceptFirst(p, a) ==
  /\ a = 1
  /\ payout[p][a] = "declared"
  /\ payout' = [payout EXCEPT ![p][a] = "accepted"]
  /\ statement' = IF statement[p].status = "paid"
                  THEN [statement EXCEPT ![p] = [statement[p] EXCEPT !.status = "accepted"]]
                  ELSE statement
  /\ UNCHANGED <<lineVars, worldVars, seen, fix>>

(* accept_due_payouts: no answer in 72 hours is a yes.  Every payout that  *)
(* is still declared is looked at, whatever the state of its statement.    *)
AcceptDue(p, a) ==
  /\ payout[p][a] = "declared"
  /\ payout' = [payout EXCEPT ![p][a] = "accepted"]
  /\ statement' = IF statement[p].status = "paid"
                  THEN [statement EXCEPT ![p] = [statement[p] EXCEPT !.status = "accepted"]]
                  ELSE statement
  /\ UNCHANGED <<lineVars, worldVars, seen, fix>>

(* staff_close_escalated *)
StaffClose(p) ==
  /\ statement[p].status = "escalated"
  /\ Answer(p, "accepted", "accepted", statement[p].contests)

(* Mutation: the lines stay in the contested payout. *)
ReopenAttached(p) ==
  /\ statement[p].status = "escalated"
  /\ statement' = [statement EXCEPT ![p] =
       [statement[p] EXCEPT !.status = "to_pay", !.contests = 0]]
  /\ UNCHANGED <<lineVars, payout, worldVars, seen, fix>>

(* staff_reopen_escalated: the payouts stay with the statement. *)
StaffReopen(p) ==
  /\ statement[p].status = "escalated"
  /\ \A l \in LinesOf(p) : ~ Locked(l)
  /\ statement' = [statement EXCEPT ![p] =
       [statement[p] EXCEPT !.status = "to_pay", !.contests = 0]]
  /\ AttachPayout(p, 0)
  /\ UNCHANGED <<corrected, payout, worldVars, seen, fix>>

(***************************************************************************)
(* The orders and time.                                                    *)
(***************************************************************************)
(* Order.status, written by the shop, the customer and the courier. *)
Successors(st) ==
  CASE st = "pending" -> {"confirmed", "cancelled"}
    [] st = "confirmed" -> {"out_for_delivery", "cancelled"}
    [] st = "out_for_delivery" -> {"delivered"}
    [] OTHER -> {}

OrderMoves(l) ==
  /\ \E st \in Successors(order[l]) : order' = [order EXCEPT ![l] = st]
  /\ UNCHANGED <<lineVars, statementVars, now, seen, fix>>

NextWeek ==
  /\ now < MaxWeek
  /\ now' = now + 1
  /\ UNCHANGED <<lineVars, statementVars, order, seen, fix>>

LineNext(l) ==
  \/ DistributorConfirm(l) \/ AutoConfirm(l) \/ CustomerConfirm(l) \/ DeclareNotDelivered(l)
  \/ \E to \in CorrectableTo : StaffCorrect(l, to)
  \/ OrderMoves(l)

SessionNext(w) ==
  \/ \E l \in Lines : OrderSaved(w, l) \/ Reconcile(w, l)
  \/ SyncNothing(w) \/ SyncOpen(w) \/ SyncReverse(w)
  \/ \E l \in Lines, to \in CorrectableTo : StaffWithdraw(w, l, to)
  \/ FixCommit(w) \/ FixRefused(w)

StatementNext(p) ==
  \/ DeclarePaid(p) \/ Accept(p) \/ Contest(p) \/ StaffClose(p) \/ StaffReopen(p)
  \/ \E a \in Attempts : AcceptDue(p, a)

Next ==
  \/ \E l \in Lines : LineNext(l)
  \/ \E w \in Sessions : SessionNext(w)
  \/ \E p \in Weeks : StatementNext(p)
  \/ CloseWeek \/ NextWeek

Spec == Init /\ [][Next]_vars

(* The beat runs its tasks again and again, each over all its rows, and    *)
(* time passes.                                                            *)
Fairness ==
  /\ \A l \in Lines :
       /\ SF_vars(\E w \in Sessions : Reconcile(w, l))
       /\ SF_vars(AutoConfirm(l))
  /\ \A w \in Sessions :
       /\ WF_vars(SyncNothing(w) \/ SyncOpen(w) \/ SyncReverse(w))
       /\ WF_vars(FixCommit(w) \/ FixRefused(w))
  /\ \A p \in Weeks :
       \A a \in Attempts : WF_vars(AcceptDue(p, a))

FairSpec == Spec /\ Fairness

(***************************************************************************)
(* Properties.                                                             *)
(***************************************************************************)
TypeOK ==
  /\ order \in [Lines -> OrderStatuses]
  /\ line \in [Lines -> Row]
  /\ statement \in [Weeks -> Statement]
  /\ payout \in [Weeks -> [Attempts -> PayoutStatuses]]
  /\ now \in Weeks
  /\ corrected \in Nat
  /\ seen \in [Sessions -> Reading \cup {Nothing}]
  /\ fix \in [Sessions -> Fixing \cup {Nothing}]

(* A statement and its payouts never tell different stories: every attempt *)
(* but the last was contested, and the last one is declared while the      *)
(* statement is paid, accepted when it is accepted, contested otherwise.   *)
(* So the same margins are never declared twice at a time                  *)
(* (declare_paid, answer_payout, accept_due_payouts, staff_close and       *)
(* staff_reopen write both rows).                                          *)
PayoutTellsStatement(p) ==
  LET s == statement[p] IN
  /\ s.status = "absent" => s.attempts = 0
  /\ s.status \in {"paid", "accepted", "contested", "escalated"} => s.attempts > 0
  /\ \A a \in Attempts :
       /\ a > s.attempts => payout[p][a] = "none"
       /\ a < s.attempts => payout[p][a] = "contested"
       /\ a = s.attempts => payout[p][a] = CASE s.status = "paid" -> "declared"
                                             [] s.status = "accepted" -> "accepted"
                                             [] OTHER -> "contested"

OneLivePayout == \A p \in Weeks : PayoutTellsStatement(p)

(* The lines of a statement are confirmed, and they are in the last payout *)
(* exactly while there is one that stands: none for a statement to pay,    *)
(* reopened or not, all of them for any other (lines.update in             *)
(* declare_paid and staff_reopen, against staff_correct and the            *)
(* synchronisation, which take lines out).                                 *)
LineFollowsStatement(l) ==
  LET p == line[l].statement IN
  /\ p = 0 => line[l].payout = 0
  /\ p # 0 =>
       /\ line[l].status = "paid_confirmed"
       /\ statement[p].status # "absent"
       /\ line[l].payout = IF statement[p].status = "to_pay" THEN 0 ELSE statement[p].attempts

LinesFollowStatement == \A l \in Lines : LineFollowsStatement(l)

(* A confirmed sale stays confirmed, whatever its order becomes.  Only the *)
(* team takes it back, or the cancellation of an order that was confirmed  *)
(* by silence and not paid out; a sale in a payout is out of reach of both *)
(* (settlement.py:7).  And "not delivered" is never overwritten by the     *)
(* synchronisation (settlement.py:6).                                      *)
ConfirmedKept ==
  [][\A l \in Lines :
       line[l].status \in {"paid_confirmed", "not_delivered"} /\ line'[l].status # line[l].status =>
         /\ line[l].payout = 0
         /\ \/ corrected' = corrected + 1
            \/ /\ line[l].auto
               /\ order[l] = "cancelled"
               /\ line'[l].status = "cancelled"]_vars

(* What a statement sums is not rewritten once it was paid and until the   *)
(* team reopens it: the amount copied to the payout is the one of the      *)
(* lines it settles (recalc_statement holds no lock on the statement).     *)
AmountFrozen ==
  [][\A p \in Weeks :
       statement[p].status \in {"paid", "accepted", "contested", "escalated"} =>
         statement'[p].covers = statement[p].covers]_vars

(* reseller_due of ceilings.py: margins confirmed and not paid out, those  *)
(* of a contested payout included.                                         *)
ResellerDue ==
  {l \in Lines : /\ line[l].status = "paid_confirmed"
                 /\ \/ line[l].payout = 0
                    \/ payout[line[l].statement][line[l].payout] = "contested"}

(* How the margin of a line stands. *)
DebtOf(l) ==
  IF line[l].status # "paid_confirmed" THEN "none"
  ELSE IF l \in ResellerDue THEN "owed"
  ELSE IF statement[line[l].statement].status = "paid" THEN "claimed"
  ELSE "settled"

Debt == INSTANCE MarginDebt WITH debt <- [l \in Lines |-> DebtOf(l)]

(* Every margin goes through owed, claimed and settled as MarginDebt says: *)
(* a contested or escalated amount is due again in every computation       *)
(* (statements.py:11), and a settled one never comes back.                 *)
ImplementsDebt == Debt!DebtSpec

(* The amount of a statement to pay is the sum of the margins of its lines *)
(* (statements.py:60: "le montant est la somme des marges").               *)
AmountIsSum ==
  \A p \in Weeks : statement[p].status = "to_pay" => statement[p].covers = LinesOf(p)

(* Silence is agreement: a payout that was declared does not stay without  *)
(* an answer (accept_due_payouts).                                         *)
SilenceIsConsent == \A p \in Weeks : statement[p].status = "paid" ~> statement[p].status # "paid"

(* An order that is on its way, delivered or cancelled does not leave its  *)
(* line open for ever: the synchronisation, the reconciliation and the     *)
(* presumption get it out.                                                 *)
OrderIsAnswered ==
  \A l \in Lines :
    order[l] \in {"out_for_delivery", "delivered", "cancelled"} ~>
      line[l].status \notin Open \cup {"absent"}
=============================================================================
