--------------------------- MODULE SettlementProofs ---------------------------
(***************************************************************************)
(* Proofs about Settlement, for any number of lines, weeks and sessions.   *)
(***************************************************************************)
EXTENDS Settlement, TLAPS

(***************************************************************************)
(* The inductive invariant.                                                *)
(***************************************************************************)
(* How often a statement was contested since it was closed or reopened. *)
ContestsCounted ==
  \A p \in Weeks :
    /\ statement[p].status = "to_pay" => statement[p].contests = 0
    /\ statement[p].status \in {"paid", "contested"} => statement[p].contests \in {0, 1}

(* What a transaction that takes a line out of its statement has read is   *)
(* still so: it holds the line.  The lines of the statement are among the  *)
(* ones it has read: they may leave it too, but none joins it.             *)
FixHolds(w) ==
  fix[w].at = "fix" =>
    LET f == fix[w] IN
    /\ line[f.line].statement = f.statement
    /\ line[f.line].payout = 0
    /\ f.row.statement = 0 /\ f.row.payout = 0
    /\ f.row.status \notin {"paid_confirmed", "absent"}
    /\ LinesOf(f.statement) \ {f.line} \subseteq f.left
    /\ f.row.auto => /\ line[f.line].auto
                     /\ order[f.line] = "cancelled"
                     /\ f.row.status = "cancelled"

FixesHold == \A w \in Sessions : FixHolds(w)

(* A line is locked by one session. *)
OneHolder ==
  \A w, v \in Sessions :
    w # v /\ fix[w].at = "fix" /\ fix[v].at = "fix" => fix[w].line # fix[v].line

(* A cancelled order stays so until what was read of it is applied. *)
SeenIsPast ==
  \A w \in Sessions :
    seen[w].at = "sync" /\ seen[w].order = "cancelled" => order[seen[w].line] = "cancelled"

IndInv ==
  /\ TypeOK
  /\ OneLivePayout
  /\ LinesFollowStatement
  /\ ContestsCounted
  /\ FixesHold
  /\ OneHolder
  /\ SeenIsPast

(***************************************************************************)
(* Facts about the rows.                                                   *)
(***************************************************************************)
(* A transaction is open exactly while it is at "fix". *)
LEMMA FixTyped ==
  ASSUME TypeOK, NEW w \in Sessions
  PROVE  /\ fix[w] # Nothing <=> fix[w].at = "fix"
         /\ fix[w].at = "fix" =>
              /\ fix[w] \in Fixing
              /\ fix[w].line \in Lines /\ fix[w].row \in Row
              /\ fix[w].statement \in Weeks /\ fix[w].left \in SUBSET Lines
<1>1. fix[w] \in Fixing \cup {Nothing}
  BY DEF TypeOK
<1>2. CASE fix[w] = Nothing
  BY <1>2 DEF Nothing
<1>3. CASE fix[w] \in Fixing
  BY <1>3 DEF Fixing, Nothing
<1> QED
  BY <1>1, <1>2, <1>3

LEMMA SeenTyped ==
  ASSUME TypeOK, NEW w \in Sessions
  PROVE  /\ seen[w] # Nothing <=> seen[w].at = "sync"
         /\ seen[w].at = "sync" => seen[w].line \in Lines /\ seen[w].order \in OrderStatuses
<1>1. seen[w] \in Reading \cup {Nothing}
  BY DEF TypeOK
<1>2. CASE seen[w] = Nothing
  BY <1>2 DEF Nothing
<1>3. CASE seen[w] \in Reading
  BY <1>3 DEF Reading, Nothing
<1> QED
  BY <1>1, <1>2, <1>3

LEMMA RowTyped ==
  ASSUME TypeOK, NEW l \in Lines
  PROVE  /\ line[l] \in Row
         /\ line[l].status \in LineStatuses /\ line[l].auto \in BOOLEAN
         /\ line[l].margin \in Int /\ line[l].presumed \in BOOLEAN
         /\ line[l].week \in 0..MaxWeek /\ line[l].statement \in 0..MaxWeek
         /\ line[l].payout \in 0..MaxAttempts /\ line[l].told \in BOOLEAN
<1>1. line[l] \in Row
  BY DEF TypeOK
<1> QED
  BY <1>1 DEF Row

LEMMA StatementTyped ==
  ASSUME TypeOK, NEW p \in Weeks
  PROVE  /\ statement[p] \in Statement
         /\ statement[p].status \in StatementStatuses /\ statement[p].covers \in SUBSET Lines
         /\ statement[p].contests \in 0..2 /\ statement[p].attempts \in 0..MaxAttempts
<1>1. statement[p] \in Statement
  BY DEF TypeOK
<1> QED
  BY <1>1 DEF Statement

(* A line whose statement is not null is confirmed, and its statement is   *)
(* a row; one that is not is in no payout.                                 *)
LEMMA LineInStatement ==
  ASSUME IndInv, NEW l \in Lines
  PROVE  /\ line[l].statement = 0 => line[l].payout = 0
         /\ line[l].statement # 0 =>
              /\ line[l].statement \in Weeks
              /\ line[l].status = "paid_confirmed"
              /\ statement[line[l].statement].status # "absent"
              /\ line[l].payout = IF statement[line[l].statement].status = "to_pay" THEN 0
                                  ELSE statement[line[l].statement].attempts
<1>1. LineFollowsStatement(l)
  BY DEF IndInv, LinesFollowStatement
<1>2. line[l].statement \in 0..MaxWeek
  BY RowTyped DEF IndInv
<1>3. line[l].statement # 0 => line[l].statement \in Weeks
  BY <1>2, BoundsAssumption DEF Weeks
<1> QED
  BY <1>1, <1>3 DEF LineFollowsStatement

(***************************************************************************)
(* Initially.                                                              *)
(***************************************************************************)
LEMMA InitIndInv == Init => IndInv
<1> SUFFICES ASSUME Init PROVE IndInv
  OBVIOUS
<1>1. NoLine \in Row
  BY BoundsAssumption DEF NoLine, Row, LineStatuses, Open
<1>2. NoStatement \in Statement
  BY BoundsAssumption DEF NoStatement, Statement, StatementStatuses
<1>3. 1 \in Weeks
  BY BoundsAssumption DEF Weeks
<1>4. TypeOK
  BY <1>1, <1>2, <1>3 DEF Init, TypeOK, OrderStatuses, PayoutStatuses
<1>5. OneLivePayout
  BY DEF Init, OneLivePayout, PayoutTellsStatement, NoStatement, Attempts
<1>6. LinesFollowStatement /\ ContestsCounted
  BY DEF Init, LinesFollowStatement, LineFollowsStatement, NoLine, ContestsCounted, NoStatement
<1>7. FixesHold /\ OneHolder /\ SeenIsPast
  BY DEF Init, FixesHold, FixHolds, OneHolder, SeenIsPast, Nothing
<1> QED
  BY <1>4, <1>5, <1>6, <1>7 DEF IndInv

(***************************************************************************)
(* A line changes, in or out of a statement as before.                     *)
(***************************************************************************)
(* No transaction is on a line that is not locked. *)
LEMMA NotHeld ==
  ASSUME NEW l \in Lines, ~ Locked(l), NEW w \in Sessions, fix[w].at = "fix"
  PROVE  fix[w].line # l
BY DEF Locked

(* A row that keeps its statement and its payout keeps the invariant. *)
LEMMA LineStep ==
  ASSUME IndInv, NEW l \in Lines, NEW row \in Row, SetLine(l, row), ~ Locked(l),
         row.statement = line[l].statement, row.payout = line[l].payout,
         row.statement # 0 => row.status = "paid_confirmed",
         corrected' \in Nat, seen' = seen \/ \E w \in Sessions : Synced(w),
         UNCHANGED <<statementVars, worldVars, fix>>
  PROVE  IndInv'
<1>u. UNCHANGED <<statement, payout, order, now, fix>>
  BY DEF statementVars, worldVars
<1>1. /\ line' \in [Lines -> Row]
      /\ line'[l] = row
      /\ \A k \in Lines : k # l => line'[k] = line[k]
  BY DEF SetLine, IndInv, TypeOK
<1>2. seen' \in [Sessions -> Reading \cup {Nothing}]
      /\ \A w \in Sessions : seen'[w] = seen[w] \/ seen'[w] = Nothing
  BY DEF Synced, IndInv, TypeOK
<1>3. TypeOK'
  BY <1>u, <1>1, <1>2 DEF IndInv, TypeOK
<1>4. OneLivePayout' /\ ContestsCounted' /\ OneHolder'
  BY <1>u DEF IndInv, OneLivePayout, PayoutTellsStatement, ContestsCounted, OneHolder
<1>5. LinesFollowStatement'
  <2> SUFFICES ASSUME NEW k \in Lines PROVE LineFollowsStatement(k)'
    BY DEF LinesFollowStatement
  <2>1. LineFollowsStatement(k)
    BY DEF IndInv, LinesFollowStatement
  <2> QED
    BY <1>u, <1>1, <2>1 DEF LineFollowsStatement
<1>6. FixesHold'
  <2> SUFFICES ASSUME NEW w \in Sessions, fix[w].at = "fix" PROVE FixHolds(w)'
    BY <1>u DEF FixesHold, FixHolds
  <2>1. fix[w].line \in Lines /\ fix[w].line # l
    BY FixTyped, NotHeld DEF IndInv
  <2>2. LinesOf(fix[w].statement)' = LinesOf(fix[w].statement)
    BY <1>u, <1>1 DEF LinesOf
  <2>3. FixHolds(w)
    BY DEF IndInv, FixesHold
  <2> QED
    BY <1>u, <1>1, <2>1, <2>2, <2>3 DEF FixHolds
<1>7. SeenIsPast'
  BY <1>u, <1>2 DEF IndInv, SeenIsPast, Nothing
<1> QED
  BY <1>3, <1>4, <1>5, <1>6, <1>7 DEF IndInv

(***************************************************************************)
(* The steps of a line.                                                    *)
(***************************************************************************)
LEMMA PaidTyped ==
  ASSUME IndInv, NEW l \in Lines, NEW auto \in BOOLEAN
  PROVE  /\ Paid(l, auto) \in Row
         /\ Paid(l, auto).status = "paid_confirmed" /\ Paid(l, auto).auto = auto
         /\ Paid(l, auto).statement = line[l].statement /\ Paid(l, auto).payout = line[l].payout
         /\ Paid(l, auto).told = line[l].told
<1>1. line[l] \in Row
  BY RowTyped DEF IndInv
<1>2. now \in 0..MaxWeek
  BY BoundsAssumption DEF IndInv, TypeOK, Weeks
<1> QED
  BY <1>1, <1>2 DEF Paid, Row, LineStatuses

LEMMA ConfirmStep ==
  ASSUME IndInv, NEW l \in Lines, NEW auto \in BOOLEAN, ~ Locked(l), SetLine(l, Paid(l, auto)),
         UNCHANGED <<corrected, statementVars, worldVars, seen, fix>>
  PROVE  IndInv'
<1>1. corrected' \in Nat
  BY DEF IndInv, TypeOK
<1> QED
  BY <1>1, PaidTyped, LineStep

LEMMA CustomerConfirmStep ==
  ASSUME IndInv, NEW l \in Lines, CustomerConfirm(l)
  PROVE  IndInv'
<1> DEFINE row  == IF line[l].status \in Open THEN Paid(l, FALSE) ELSE line[l]
           told == [row EXCEPT !.told = TRUE]
<1>1. row \in Row /\ row.statement = line[l].statement /\ row.payout = line[l].payout
      /\ (row.status = line[l].status \/ row.status = "paid_confirmed")
  BY PaidTyped, RowTyped DEF IndInv
<1> HIDE DEF row
<1>2. told \in Row /\ told.statement = row.statement /\ told.payout = row.payout /\ told.status = row.status
  BY <1>1 DEF Row
<1>3. told.statement # 0 => told.status = "paid_confirmed"
  BY <1>1, <1>2, LineInStatement
<1>4. SetLine(l, told) /\ ~ Locked(l) /\ seen' = seen /\ corrected' \in Nat
      /\ UNCHANGED <<statementVars, worldVars, fix>>
  BY DEF CustomerConfirm, row, IndInv, TypeOK
<1> HIDE DEF told
<1> QED
  BY <1>1, <1>2, <1>3, <1>4, LineStep

LEMMA DeclareNotDeliveredStep ==
  ASSUME IndInv, NEW l \in Lines, DeclareNotDelivered(l)
  PROVE  IndInv'
<1> DEFINE row == [line[l] EXCEPT !.status = "not_delivered"]
<1>1. row \in Row /\ row.statement = line[l].statement /\ row.payout = line[l].payout
  BY RowTyped DEF IndInv, Row, LineStatuses
<1>2. line[l].statement = 0
  BY LineInStatement DEF DeclareNotDelivered, Open
<1>3. SetLine(l, row) /\ ~ Locked(l) /\ seen' = seen /\ corrected' \in Nat
      /\ UNCHANGED <<statementVars, worldVars, fix>>
  BY DEF DeclareNotDelivered, IndInv, TypeOK
<1> HIDE DEF row
<1> QED
  BY <1>1, <1>2, <1>3, LineStep

(* What the team may put a line to. *)
LEMMA CorrectionTyped ==
  ASSUME IndInv, NEW l \in Lines, NEW to \in CorrectableTo
  PROVE  /\ Correction(l, to) \in Row
         /\ Correction(l, to).status = to /\ ~ Correction(l, to).auto
         /\ Correction(l, to).payout = line[l].payout
         /\ Correction(l, to).statement = IF to = "paid_confirmed" THEN line[l].statement ELSE 0
<1>1. line[l] \in Row
  BY RowTyped DEF IndInv
<1>2. CASE to = "paid_confirmed"
  BY <1>2, PaidTyped DEF Correction
<1>3. CASE to # "paid_confirmed"
  <2>1. /\ 0 \in Int /\ line[l].margin \in Int /\ 0 \in 0..MaxWeek
        /\ to \in LineStatuses
    BY <1>1, BoundsAssumption DEF Row, CorrectableTo, LineStatuses, Open
  <2> QED
    BY <1>1, <1>3, <2>1 DEF Correction, Row
<1> QED
  BY <1>2, <1>3

LEMMA StaffCorrectStep ==
  ASSUME IndInv, NEW l \in Lines, NEW to \in CorrectableTo, StaffCorrect(l, to)
  PROVE  IndInv'
<1>1. line[l].statement = 0 /\ line[l].payout = 0 /\ ~ Locked(l) /\ SetLine(l, Correction(l, to))
  BY DEF StaffCorrect, Correctable
<1>2. corrected' \in Nat /\ seen' = seen /\ UNCHANGED <<statementVars, worldVars, fix>>
  BY DEF StaffCorrect, IndInv, TypeOK
<1> QED
  BY <1>1, <1>2, CorrectionTyped, LineStep

(***************************************************************************)
(* The synchronisation.                                                    *)
(***************************************************************************)
LEMMA SyncReadStep ==
  ASSUME IndInv, NEW w \in Sessions, NEW l \in Lines, SyncRead(w, l)
  PROVE  IndInv'
<1>1. seen' = [seen EXCEPT ![w] = [at |-> "sync", line |-> l, order |-> order[l]]]
  BY DEF SyncRead
<1>2. UNCHANGED <<line, corrected, statement, payout, order, now, fix>>
  BY DEF SyncRead, lineVars, statementVars, worldVars
<1>3. [at |-> "sync", line |-> l, order |-> order[l]] \in Reading
  BY DEF IndInv, TypeOK, Reading
<1>4. TypeOK'
  BY <1>1, <1>2, <1>3 DEF IndInv, TypeOK
<1>5. SeenIsPast'
  <2>1. \A v \in Sessions : v # w => seen'[v] = seen[v]
    BY <1>1 DEF IndInv, TypeOK
  <2>2. seen'[w] = [at |-> "sync", line |-> l, order |-> order[l]]
    BY <1>1 DEF IndInv, TypeOK
  <2> QED
    BY <1>2, <2>1, <2>2 DEF IndInv, SeenIsPast
<1>6. OneLivePayout' /\ LinesFollowStatement' /\ ContestsCounted'
  BY <1>2 DEF IndInv, OneLivePayout, PayoutTellsStatement, LinesFollowStatement,
     LineFollowsStatement, ContestsCounted
<1>7. FixesHold' /\ OneHolder'
  BY <1>2 DEF IndInv, FixesHold, FixHolds, OneHolder, LinesOf
<1> QED
  BY <1>4, <1>5, <1>6, <1>7 DEF IndInv

(* Forgetting what was read disturbs nothing. *)
LEMMA SyncedSeen ==
  ASSUME IndInv, NEW w \in Sessions, Synced(w), UNCHANGED order
  PROVE  seen' \in [Sessions -> Reading \cup {Nothing}] /\ SeenIsPast'
<1>1. seen' \in [Sessions -> Reading \cup {Nothing}]
      /\ \A v \in Sessions : seen'[v] = seen[v] \/ seen'[v] = Nothing
  BY DEF Synced, IndInv, TypeOK
<1> QED
  BY <1>1 DEF IndInv, SeenIsPast, Nothing

LEMMA SyncNothingStep ==
  ASSUME IndInv, NEW w \in Sessions, SyncNothing(w)
  PROVE  IndInv'
<1>1. UNCHANGED <<line, corrected, statement, payout, order, now, fix>>
  BY DEF SyncNothing, lineVars, statementVars, worldVars
<1>2. seen' \in [Sessions -> Reading \cup {Nothing}] /\ SeenIsPast'
  BY <1>1, SyncedSeen DEF SyncNothing
<1>3. TypeOK'
  BY <1>1, <1>2 DEF IndInv, TypeOK
<1>4. OneLivePayout' /\ LinesFollowStatement' /\ ContestsCounted'
  BY <1>1 DEF IndInv, OneLivePayout, PayoutTellsStatement, LinesFollowStatement,
     LineFollowsStatement, ContestsCounted
<1>5. FixesHold' /\ OneHolder'
  BY <1>1 DEF IndInv, FixesHold, FixHolds, OneHolder, LinesOf
<1> QED
  BY <1>2, <1>3, <1>4, <1>5 DEF IndInv

LEMMA SyncOpenStep ==
  ASSUME IndInv, NEW w \in Sessions, SyncOpen(w)
  PROVE  IndInv'
<1> DEFINE l   == seen[w].line
           st  == seen[w].order
           old == IF line[l].status = "absent" THEN Created(l) ELSE line[l]
           row == [old EXCEPT !.status = StatusMap(st), !.presumed = Started(old, st)]
<1>1. l \in Lines /\ st \in OrderStatuses
  BY SeenTyped DEF SyncOpen, IndInv
<1>2. line[l].statement = 0 /\ line[l].payout = 0
  BY <1>1, LineInStatement DEF SyncOpen, Open
<1>3. old \in Row /\ old.statement = 0 /\ old.payout = 0
  <2>1. NoLine \in Row
    BY BoundsAssumption DEF NoLine, Row, LineStatuses, Open
  <2>2. Created(l) \in Row /\ Created(l).statement = 0 /\ Created(l).payout = 0
    BY <1>1, <2>1, LinesAssumption DEF Created, NoLine, Row, LineStatuses, Open
  <2> QED
    BY <1>1, <1>2, <2>2, RowTyped DEF IndInv
<1>4. StatusMap(st) \in LineStatuses
  BY <1>1 DEF OrderStatuses, StatusMap, LineStatuses, Open
<1>5. Started(old, st) \in BOOLEAN
  BY <1>3 DEF Started, Row
<1>6. SetLine(l, row) /\ ~ Locked(l) /\ Synced(w) /\ corrected' \in Nat
      /\ UNCHANGED <<statementVars, worldVars, fix>>
  BY DEF SyncOpen, IndInv, TypeOK
<1> HIDE DEF old
<1>7. row \in Row /\ row.statement = 0 /\ row.payout = 0
  BY <1>3, <1>4, <1>5 DEF Row
<1> HIDE DEF row, l, st
<1> QED
  BY <1>1, <1>2, <1>6, <1>7, LineStep

(* A transaction opens on a line of a statement to pay. *)
LEMMA WithdrawKept ==
  ASSUME IndInv, NEW w \in Sessions, NEW l \in Lines, NEW row \in Row, Withdraw(w, l, row),
         ~ Locked(l), line[l].statement # 0, line[l].payout = 0,
         row.statement = 0, row.payout = 0, row.status \notin {"paid_confirmed", "absent"},
         row.auto => line[l].auto /\ order[l] = "cancelled" /\ row.status = "cancelled",
         seen' \in [Sessions -> Reading \cup {Nothing}], SeenIsPast',
         UNCHANGED <<lineVars, statementVars, worldVars>>
  PROVE  IndInv'
<1> DEFINE f == [at |-> "fix", line |-> l, row |-> row, statement |-> line[l].statement,
                 left |-> LinesOf(line[l].statement) \ {l}]
<1>1. UNCHANGED <<line, corrected, statement, payout, order, now>>
  BY DEF lineVars, statementVars, worldVars
<1>2. f \in Fixing
  BY LineInStatement DEF Fixing, LinesOf
<1>3. /\ fix' \in [Sessions -> Fixing \cup {Nothing}]
      /\ fix'[w] = f
      /\ \A v \in Sessions : v # w => fix'[v] = fix[v]
  BY <1>2 DEF Withdraw, IndInv, TypeOK
<1>4. TypeOK'
  BY <1>1, <1>3 DEF IndInv, TypeOK
<1>5. OneLivePayout' /\ LinesFollowStatement' /\ ContestsCounted'
  BY <1>1 DEF IndInv, OneLivePayout, PayoutTellsStatement, LinesFollowStatement,
     LineFollowsStatement, ContestsCounted
<1>6. FixesHold'
  <2> SUFFICES ASSUME NEW v \in Sessions PROVE FixHolds(v)'
    BY DEF FixesHold
  <2>1. CASE v = w
    BY <1>1, <1>3, <2>1 DEF FixHolds, LinesOf
  <2>2. CASE v # w
    BY <1>1, <1>3, <2>2 DEF IndInv, FixesHold, FixHolds, LinesOf
  <2> QED
    BY <2>1, <2>2
<1>7. OneHolder'
  <2>1. \A v \in Sessions : fix[v].at = "fix" => fix[v].line # l
    BY DEF Locked
  <2> QED
    BY <1>3, <2>1 DEF IndInv, OneHolder
<1> QED
  BY <1>4, <1>5, <1>6, <1>7 DEF IndInv

LEMMA ReversedTyped ==
  ASSUME IndInv, NEW l \in Lines, Presumed(l)
  PROVE  /\ Reversed(l) \in Row
         /\ Reversed(l).status = "cancelled"
         /\ Reversed(l).statement = 0 /\ Reversed(l).payout = 0
<1>1. line[l] \in Row
  BY RowTyped DEF IndInv
<1>2. 0 \in Int /\ 0 \in 0..MaxWeek /\ "cancelled" \in LineStatuses
  BY BoundsAssumption DEF LineStatuses
<1> QED
  BY <1>1, <1>2 DEF Reversed, Presumed, Row

LEMMA SyncReverseStep ==
  ASSUME IndInv, NEW w \in Sessions, SyncReverse(w)
  PROVE  IndInv'
<1> DEFINE l == seen[w].line
<1>1. l \in Lines /\ seen[w].at = "sync"
  BY SeenTyped DEF SyncReverse, IndInv
<1>2. Presumed(l) /\ seen[w].order = "cancelled" /\ ~ Locked(l) /\ Synced(w)
      /\ UNCHANGED <<corrected, statementVars, worldVars>>
  BY DEF SyncReverse
<1>3. order[l] = "cancelled"
  BY <1>1, <1>2 DEF IndInv, SeenIsPast
<1>4. CASE line[l].statement = 0
  <2>1. SetLine(l, Reversed(l)) /\ UNCHANGED fix
    BY <1>4 DEF SyncReverse
  <2>2. corrected' \in Nat
    BY <1>2 DEF IndInv, TypeOK
  <2>3. Reversed(l).statement = line[l].statement /\ Reversed(l).payout = line[l].payout
    BY <1>1, <1>2, <1>4, ReversedTyped DEF Presumed
  <2> HIDE DEF l
  <2> QED
    BY <1>1, <1>2, <1>4, <2>1, <2>2, <2>3, ReversedTyped, LineStep
<1>5. CASE line[l].statement # 0
  <2>1. Withdraw(w, l, Reversed(l)) /\ UNCHANGED line
    BY <1>5 DEF SyncReverse
  <2>2. seen' \in [Sessions -> Reading \cup {Nothing}] /\ SeenIsPast'
    BY <1>2, SyncedSeen DEF worldVars
  <2>3. line[l].auto /\ line[l].payout = 0
    BY <1>2 DEF Presumed
  <2>4. UNCHANGED lineVars
    BY <1>2, <2>1 DEF lineVars
  <2> HIDE DEF l
  <2> QED
    BY <1>1, <1>2, <1>3, <1>5, <2>1, <2>2, <2>3, <2>4, ReversedTyped, WithdrawKept
<1> QED
  BY <1>4, <1>5

LEMMA StaffWithdrawStep ==
  ASSUME IndInv, NEW w \in Sessions, NEW l \in Lines, NEW to \in CorrectableTo, StaffWithdraw(w, l, to)
  PROVE  IndInv'
<1>1. /\ line[l].statement # 0 /\ line[l].payout = 0 /\ ~ Locked(l) /\ line[l].status # to
      /\ Withdraw(w, l, Correction(l, to))
      /\ UNCHANGED <<lineVars, statementVars, worldVars, seen>>
  BY DEF StaffWithdraw, Correctable
<1>2. to # "paid_confirmed" /\ to # "absent"
  BY <1>1, LineInStatement DEF CorrectableTo
<1>3. seen' \in [Sessions -> Reading \cup {Nothing}] /\ SeenIsPast'
  BY <1>1 DEF IndInv, TypeOK, SeenIsPast, worldVars
<1> QED
  BY <1>1, <1>2, <1>3, CorrectionTyped, WithdrawKept

(***************************************************************************)
(* A line has left its statement.                                          *)
(***************************************************************************)
(* Another transaction does not hold the last line of the statement.       *)
LEMMA FixCommitStep ==
  ASSUME IndInv, NEW w \in Sessions, FixCommit(w)
  PROVE  IndInv'
<1> DEFINE f == fix[w]
           s == statement[f.statement]
           t == IF f.left = {} THEN NoStatement ELSE [s EXCEPT !.covers = f.left]
<1>1. f.at = "fix" /\ f.line \in Lines /\ f.row \in Row /\ f.statement \in Weeks /\ f.left \in SUBSET Lines
  BY FixTyped DEF FixCommit, IndInv
<1>2. /\ f.left = {} => s.attempts = 0
      /\ SetLine(f.line, f.row)
      /\ statement' = [statement EXCEPT ![f.statement] = t]
      /\ fix' = [fix EXCEPT ![w] = Nothing]
      /\ UNCHANGED <<payout, order, now, seen>>
  BY DEF FixCommit, worldVars
<1>3. /\ line[f.line].statement = f.statement /\ line[f.line].payout = 0
      /\ f.row.statement = 0 /\ f.row.payout = 0
      /\ LinesOf(f.statement) \ {f.line} \subseteq f.left
  BY <1>1 DEF IndInv, FixesHold, FixHolds
<1>4. s \in Statement
  BY <1>1, StatementTyped DEF IndInv
<1>5. f.statement # 0
  BY <1>1 DEF Weeks
<1>6. s.status # "absent" /\ (s.status # "to_pay" => s.attempts = 0)
  BY <1>1, <1>3, <1>5, LineInStatement
<1>7. s.status = "to_pay"
  BY <1>1, <1>4, <1>6 DEF IndInv, OneLivePayout, PayoutTellsStatement, Statement, StatementStatuses
<1>8. t \in Statement /\ t.attempts = s.attempts /\ t.contests = s.contests
      /\ t.status = IF f.left = {} THEN "absent" ELSE "to_pay"
  <2>1. NoStatement \in Statement /\ NoStatement.contests = 0
    BY BoundsAssumption DEF NoStatement, Statement, StatementStatuses
  <2>2. s.contests = 0
    BY <1>1, <1>7 DEF IndInv, ContestsCounted
  <2> QED
    BY <1>1, <1>2, <1>4, <1>7, <2>1, <2>2 DEF NoStatement, Statement
<1> HIDE DEF t
<1>9. /\ line' \in [Lines -> Row]
      /\ line'[f.line] = f.row
      /\ \A k \in Lines : k # f.line => line'[k] = line[k]
  BY <1>1, <1>2 DEF SetLine, IndInv, TypeOK
<1>10. /\ statement' \in [Weeks -> Statement]
       /\ statement'[f.statement] = t
       /\ \A p \in Weeks : p # f.statement => statement'[p] = statement[p]
  BY <1>1, <1>2, <1>8 DEF IndInv, TypeOK
<1>11. /\ fix' \in [Sessions -> Fixing \cup {Nothing}]
       /\ fix'[w] = Nothing
       /\ \A v \in Sessions : v # w => fix'[v] = fix[v]
  BY <1>2 DEF IndInv, TypeOK
<1>12. corrected' \in Nat
  BY DEF FixCommit, IndInv, TypeOK
<1>13. TypeOK'
  BY <1>2, <1>9, <1>10, <1>11, <1>12 DEF IndInv, TypeOK
<1>14. OneLivePayout'
  <2> SUFFICES ASSUME NEW p \in Weeks PROVE PayoutTellsStatement(p)'
    BY DEF OneLivePayout
  <2>1. PayoutTellsStatement(p)
    BY DEF IndInv, OneLivePayout
  <2>2. CASE p # f.statement
    BY <1>2, <1>10, <2>1, <2>2 DEF PayoutTellsStatement
  <2>3. CASE p = f.statement
    BY <1>2, <1>7, <1>8, <1>10, <2>1, <2>3 DEF PayoutTellsStatement
  <2> QED
    BY <2>2, <2>3
<1>15. ContestsCounted'
  BY <1>7, <1>8, <1>10 DEF IndInv, ContestsCounted
<1>16. \A k \in Lines : k # f.line /\ line[k].statement = f.statement => f.left # {}
  BY <1>3 DEF LinesOf
<1>17. LinesFollowStatement'
  <2> SUFFICES ASSUME NEW k \in Lines PROVE LineFollowsStatement(k)'
    BY DEF LinesFollowStatement
  <2>1. CASE k = f.line
    BY <1>3, <1>9, <2>1 DEF LineFollowsStatement
  <2>2. CASE k # f.line /\ line[k].statement = f.statement
    BY <1>7, <1>8, <1>9, <1>10, <1>16, <2>2, LineInStatement DEF LineFollowsStatement
  <2>3. CASE k # f.line /\ line[k].statement # f.statement
    BY <1>9, <1>10, <2>3, LineInStatement DEF LineFollowsStatement
  <2> QED
    BY <2>1, <2>2, <2>3
<1>18. FixesHold'
  <2> SUFFICES ASSUME NEW v \in Sessions, fix'[v].at = "fix" PROVE FixHolds(v)'
    BY DEF FixesHold, FixHolds
  <2>1. v # w /\ fix'[v] = fix[v]
    BY <1>11 DEF Nothing
  <2>2. fix[v].line \in Lines /\ fix[v].line # f.line
    BY <1>1, <2>1, FixTyped DEF IndInv, OneHolder
  <2>3. LinesOf(fix[v].statement)' \subseteq LinesOf(fix[v].statement)
    <3>1. fix[v].statement # 0
      BY <2>1, FixTyped DEF IndInv, Weeks
    <3> QED
      BY <1>3, <1>9, <2>1, <3>1 DEF LinesOf
  <2>4. FixHolds(v)
    BY DEF IndInv, FixesHold
  <2> QED
    BY <1>2, <1>9, <2>1, <2>2, <2>3, <2>4 DEF FixHolds
<1>19. OneHolder'
  BY <1>11 DEF IndInv, OneHolder, Nothing
<1>20. SeenIsPast'
  BY <1>2 DEF IndInv, SeenIsPast
<1> QED
  BY <1>13, <1>14, <1>15, <1>17, <1>18, <1>19, <1>20 DEF IndInv

LEMMA FixRefusedStep ==
  ASSUME IndInv, NEW w \in Sessions, FixRefused(w)
  PROVE  IndInv'
<1>1. UNCHANGED <<line, corrected, statement, payout, order, now, seen>>
  BY DEF FixRefused, lineVars, statementVars, worldVars
<1>2. /\ fix' \in [Sessions -> Fixing \cup {Nothing}]
      /\ \A v \in Sessions : fix'[v] = fix[v] \/ fix'[v] = Nothing
  BY DEF FixRefused, IndInv, TypeOK
<1>3. TypeOK'
  BY <1>1, <1>2 DEF IndInv, TypeOK
<1>4. OneLivePayout' /\ LinesFollowStatement' /\ ContestsCounted' /\ SeenIsPast'
  BY <1>1 DEF IndInv, OneLivePayout, PayoutTellsStatement, LinesFollowStatement,
     LineFollowsStatement, ContestsCounted, SeenIsPast
<1>5. FixesHold' /\ OneHolder'
  BY <1>1, <1>2 DEF IndInv, FixesHold, FixHolds, OneHolder, LinesOf, Nothing
<1> QED
  BY <1>3, <1>4, <1>5 DEF IndInv

(***************************************************************************)
(* Statements and payouts.                                                 *)
(***************************************************************************)
(* The statement of the week is new, and its lines were in none. *)
LEMMA CloseWeekStep ==
  ASSUME IndInv, CloseWeek
  PROVE  IndInv'
<1> DEFINE p == now - 1
           s == [status |-> "to_pay", covers |-> Unsettled, contests |-> 0, attempts |-> 0]
<1>1. p \in Weeks /\ p \in 0..MaxWeek /\ p # 0
  BY BoundsAssumption DEF CloseWeek, IndInv, TypeOK, Weeks
<1>2. /\ statement[p].status = "absent"
      /\ statement' = [statement EXCEPT ![p] = s]
      /\ line' = [l \in Lines |->
                    IF l \in Unsettled THEN [line[l] EXCEPT !.statement = p] ELSE line[l]]
      /\ UNCHANGED <<corrected, payout, order, now, seen, fix>>
  BY DEF CloseWeek, worldVars
<1>3. \A l \in Unsettled : l \in Lines /\ line[l].status = "paid_confirmed"
                           /\ line[l].statement = 0 /\ line[l].payout = 0
  BY DEF Unsettled
<1>4. s \in Statement
  BY BoundsAssumption DEF Unsettled, Statement, StatementStatuses
<1>5. \A l \in Lines : line'[l] \in Row
  <2> SUFFICES ASSUME NEW l \in Lines PROVE line'[l] \in Row
    OBVIOUS
  <2>1. line[l] \in Row
    BY RowTyped DEF IndInv
  <2>2. [line[l] EXCEPT !.statement = p] \in Row
    BY <1>1, <2>1 DEF Row
  <2> QED
    BY <1>2, <2>1, <2>2
<1>6. \A l \in Lines : IF l \in Unsettled
                       THEN /\ line'[l].statement = p /\ line'[l].payout = 0
                            /\ line'[l].status = "paid_confirmed"
                       ELSE line'[l] = line[l]
  BY <1>2, <1>3, RowTyped DEF IndInv, Row
<1> HIDE DEF s
<1>7. /\ statement' \in [Weeks -> Statement]
      /\ statement'[p] = s
      /\ \A q \in Weeks : q # p => statement'[q] = statement[q]
  BY <1>1, <1>2, <1>4 DEF IndInv, TypeOK
<1>8. s.status = "to_pay" /\ s.contests = 0 /\ s.attempts = 0
  BY DEF s
<1> HIDE DEF p
<1>9. TypeOK'
  BY <1>2, <1>5, <1>7 DEF IndInv, TypeOK
<1>10. OneLivePayout'
  <2> SUFFICES ASSUME NEW q \in Weeks PROVE PayoutTellsStatement(q)'
    BY DEF OneLivePayout
  <2>1. PayoutTellsStatement(q)
    BY DEF IndInv, OneLivePayout
  <2>2. CASE q # p
    BY <1>2, <1>7, <2>1, <2>2 DEF PayoutTellsStatement
  <2>3. CASE q = p
    BY <1>2, <1>7, <1>8, <2>1, <2>3 DEF PayoutTellsStatement, Attempts
  <2> QED
    BY <2>2, <2>3
<1>11. ContestsCounted'
  BY <1>7, <1>8 DEF IndInv, ContestsCounted
<1>12. LinesFollowStatement'
  <2> SUFFICES ASSUME NEW l \in Lines PROVE LineFollowsStatement(l)'
    BY DEF LinesFollowStatement
  <2>1. CASE l \in Unsettled
    BY <1>1, <1>6, <1>7, <1>8, <2>1 DEF LineFollowsStatement
  <2>2. CASE l \notin Unsettled
    <3>1. line'[l] = line[l]
      BY <1>6, <2>2
    <3>2. line[l].statement # 0 => line[l].statement \in Weeks /\ line[l].statement # p
      BY <1>2, LineInStatement
    <3> QED
      BY <1>7, <3>1, <3>2, LineInStatement DEF LineFollowsStatement
  <2> QED
    BY <2>1, <2>2
<1>13. FixesHold'
  <2> SUFFICES ASSUME NEW w \in Sessions, fix[w].at = "fix" PROVE FixHolds(w)'
    BY <1>2 DEF FixesHold, FixHolds
  <2>1. FixHolds(w) /\ fix[w].line \in Lines /\ fix[w].statement \in Weeks
    BY FixTyped DEF IndInv, FixesHold
  <2>2. line[fix[w].line].statement = fix[w].statement /\ fix[w].statement # 0
    BY <2>1 DEF FixHolds, Weeks
  <2>3. fix[w].statement # p /\ fix[w].line \notin Unsettled
    BY <1>2, <1>3, <2>1, <2>2, LineInStatement
  <2>4. LinesOf(fix[w].statement)' = LinesOf(fix[w].statement)
    <3>1. \A l \in Lines : line'[l].statement = fix[w].statement <=> line[l].statement = fix[w].statement
      BY <1>3, <1>6, <2>2, <2>3
    <3> QED
      BY <1>2, <3>1 DEF LinesOf
  <2> QED
    BY <1>2, <1>6, <2>1, <2>3, <2>4 DEF FixHolds
<1>14. OneHolder' /\ SeenIsPast'
  BY <1>2 DEF IndInv, OneHolder, SeenIsPast
<1> QED
  BY <1>9, <1>10, <1>11, <1>12, <1>13, <1>14 DEF IndInv

(* The lines of a statement are put in a payout, or taken out of it. *)
LEMMA AttachedRows ==
  ASSUME IndInv, NEW p \in Weeks, NEW a \in 0..MaxAttempts, AttachPayout(p, a)
  PROVE  /\ line' \in [Lines -> Row]
         /\ \A l \in Lines :
              /\ line[l].statement # p => line'[l] = line[l]
              /\ line[l].statement = p =>
                   /\ line'[l].payout = a
                   /\ line'[l].statement = line[l].statement
                   /\ line'[l].status = line[l].status
                   /\ line'[l].auto = line[l].auto
<1> SUFFICES ASSUME NEW l \in Lines
             PROVE  /\ line'[l] \in Row
                    /\ line[l].statement # p => line'[l] = line[l]
                    /\ line[l].statement = p =>
                         /\ line'[l].payout = a
                         /\ line'[l].statement = line[l].statement
                         /\ line'[l].status = line[l].status
                         /\ line'[l].auto = line[l].auto
  BY DEF AttachPayout
<1>1. line[l] \in Row
  BY RowTyped DEF IndInv
<1>2. [line[l] EXCEPT !.payout = a] \in Row
  BY <1>1 DEF Row
<1>3. line'[l] = IF line[l].statement = p THEN [line[l] EXCEPT !.payout = a] ELSE line[l]
  BY DEF AttachPayout
<1> QED
  BY <1>1, <1>2, <1>3 DEF Row

(* It is not done while one of them is on its way out. *)
LEMMA AttachedFixes ==
  ASSUME IndInv, NEW p \in Weeks, NEW a \in 0..MaxAttempts, AttachPayout(p, a),
         \A l \in LinesOf(p) : ~ Locked(l), UNCHANGED <<order, fix>>
  PROVE  FixesHold'
<1> SUFFICES ASSUME NEW w \in Sessions, fix[w].at = "fix" PROVE FixHolds(w)'
  BY DEF FixesHold, FixHolds
<1>1. FixHolds(w) /\ fix[w].line \in Lines
  BY FixTyped DEF IndInv, FixesHold
<1>2. line[fix[w].line].statement # p
  BY <1>1, NotHeld DEF LinesOf
<1>3. line'[fix[w].line] = line[fix[w].line]
  BY <1>1, <1>2, AttachedRows
<1>4. \A l \in Lines : line'[l].statement = line[l].statement
  BY AttachedRows
<1>5. LinesOf(fix[w].statement)' = LinesOf(fix[w].statement)
  BY <1>4 DEF LinesOf
<1> QED
  BY <1>1, <1>3, <1>5 DEF FixHolds

LEMMA DeclarePaidStep ==
  ASSUME IndInv, NEW p \in Weeks, DeclarePaid(p)
  PROVE  IndInv'
<1> DEFINE s == statement[p]
           a == s.attempts + 1
           t == [s EXCEPT !.status = "paid", !.attempts = a]
<1>1. s \in Statement
  BY StatementTyped DEF IndInv
<1>2. /\ s.status = "to_pay" \/ (s.status = "contested" /\ s.contests = 1)
      /\ \A l \in LinesOf(p) : ~ Locked(l)
      /\ s.attempts < MaxAttempts
      /\ payout' = [payout EXCEPT ![p][a] = "declared"]
      /\ statement' = [statement EXCEPT ![p] = t]
      /\ AttachPayout(p, a)
      /\ UNCHANGED <<corrected, order, now, seen, fix>>
  BY DEF DeclarePaid, worldVars
<1>3. s.attempts \in Nat /\ a \in Attempts /\ a \in 0..MaxAttempts /\ a # 0 /\ a > s.attempts
  BY <1>1, <1>2, BoundsAssumption DEF Statement, Attempts
<1>4. s.contests \in {0, 1}
  BY <1>2 DEF IndInv, ContestsCounted
<1>5. t \in Statement /\ t.status = "paid" /\ t.attempts = a /\ t.contests = s.contests
  BY <1>1, <1>3 DEF Statement, StatementStatuses
<1> HIDE DEF t
<1>6. /\ statement' \in [Weeks -> Statement]
      /\ statement'[p] = t
      /\ \A q \in Weeks : q # p => statement'[q] = statement[q]
  BY <1>2, <1>5 DEF IndInv, TypeOK
<1>7. payout[p] \in [Attempts -> PayoutStatuses] /\ payout \in [Weeks -> [Attempts -> PayoutStatuses]]
  BY DEF IndInv, TypeOK
<1>8. /\ payout' = [payout EXCEPT ![p] = [payout[p] EXCEPT ![a] = "declared"]]
      /\ [payout[p] EXCEPT ![a] = "declared"] \in [Attempts -> PayoutStatuses]
  BY <1>2, <1>3, <1>7 DEF PayoutStatuses
<1>9. /\ payout' \in [Weeks -> [Attempts -> PayoutStatuses]]
      /\ \A q \in Weeks : q # p => payout'[q] = payout[q]
      /\ payout'[p][a] = "declared"
      /\ \A b \in Attempts : b # a => payout'[p][b] = payout[p][b]
  BY <1>3, <1>7, <1>8
<1>10. TypeOK'
  BY <1>2, <1>3, <1>6, <1>9, AttachedRows DEF IndInv, TypeOK
<1>11. OneLivePayout'
  <2> SUFFICES ASSUME NEW q \in Weeks PROVE PayoutTellsStatement(q)'
    BY DEF OneLivePayout
  <2>1. PayoutTellsStatement(q)
    BY DEF IndInv, OneLivePayout
  <2>2. CASE q # p
    BY <1>6, <1>9, <2>1, <2>2 DEF PayoutTellsStatement
  <2>3. CASE q = p
    <3>1. \A b \in Attempts : b <= s.attempts => payout[p][b] = "contested"
      BY <1>2, <1>3, <2>1, <2>3 DEF PayoutTellsStatement, Attempts
    <3>2. \A b \in Attempts : b > s.attempts => payout[p][b] = "none"
      BY <2>1, <2>3 DEF PayoutTellsStatement
    <3> HIDE DEF s
    <3>3. \A b \in Attempts : (b < a => b <= s.attempts) /\ (b > a => b > s.attempts)
      BY <1>3 DEF Attempts, s
    <3>4. \A b \in Attempts : /\ b < a => payout'[p][b] = "contested"
                              /\ b > a => payout'[p][b] = "none"
                              /\ b = a => payout'[p][b] = "declared"
      <4> TAKE b \in Attempts
      <4>1. (b < a => b # a) /\ (b > a => b # a)
        BY <1>3 DEF Attempts
      <4> QED
        BY <1>9, <3>1, <3>2, <3>3, <4>1
    <3>5. statement'[p].status = "paid" /\ statement'[p].attempts = a /\ a > 0
      BY <1>3, <1>5, <1>6 DEF s
    <3> QED
      BY <2>3, <3>4, <3>5 DEF PayoutTellsStatement
  <2> QED
    BY <2>2, <2>3
<1>12. ContestsCounted'
  BY <1>4, <1>5, <1>6 DEF IndInv, ContestsCounted
<1>13. LinesFollowStatement'
  <2> SUFFICES ASSUME NEW l \in Lines PROVE LineFollowsStatement(l)'
    BY DEF LinesFollowStatement
  <2>1. CASE line[l].statement = p
    <3>1. line'[l].payout = a /\ line'[l].statement = p /\ line'[l].status = "paid_confirmed"
      BY <1>2, <1>3, <2>1, AttachedRows, LineInStatement DEF Weeks
    <3> QED
      BY <1>5, <1>6, <3>1 DEF LineFollowsStatement, Weeks
  <2>2. CASE line[l].statement # p
    <3>1. line'[l] = line[l]
      BY <1>2, <1>3, <2>2, AttachedRows
    <3> QED
      BY <1>6, <2>2, <3>1, LineInStatement DEF LineFollowsStatement
  <2> QED
    BY <2>1, <2>2
<1>14. FixesHold'
  BY <1>2, <1>3, AttachedFixes
<1>15. OneHolder' /\ SeenIsPast'
  BY <1>2 DEF IndInv, OneHolder, SeenIsPast
<1> QED
  BY <1>10, <1>11, <1>12, <1>13, <1>14, <1>15 DEF IndInv

(* The statement and its last payout take an answer together. *)
LEMMA AnswerStep ==
  ASSUME IndInv, NEW p \in Weeks, statement[p].status \in {"paid", "escalated"},
         NEW told \in {"accepted", "contested"}, NEW status \in {"accepted", "contested", "escalated"},
         told = "accepted" <=> status = "accepted",
         NEW contests \in 0..2, status = "contested" => contests \in {0, 1},
         Answer(p, told, status, contests)
  PROVE  IndInv'
<1> DEFINE s == statement[p]
           a == s.attempts
           t == [s EXCEPT !.status = status, !.contests = contests]
<1>1. s \in Statement
  BY StatementTyped DEF IndInv
<1>2. /\ payout' = [payout EXCEPT ![p][a] = told]
      /\ statement' = [statement EXCEPT ![p] = t]
      /\ UNCHANGED <<line, corrected, order, now, seen, fix>>
  BY DEF Answer, lineVars, worldVars
<1>3. PayoutTellsStatement(p)
  BY DEF IndInv, OneLivePayout
<1>4. a \in Attempts /\ a > 0
  BY <1>1, <1>3 DEF PayoutTellsStatement, Statement, Attempts
<1>5. t \in Statement /\ t.status = status /\ t.contests = contests /\ t.attempts = a
  BY <1>1 DEF Statement, StatementStatuses
<1> HIDE DEF t
<1>6. /\ statement' \in [Weeks -> Statement]
      /\ statement'[p] = t
      /\ \A q \in Weeks : q # p => statement'[q] = statement[q]
  BY <1>2, <1>5 DEF IndInv, TypeOK
<1>7. payout[p] \in [Attempts -> PayoutStatuses] /\ payout \in [Weeks -> [Attempts -> PayoutStatuses]]
  BY DEF IndInv, TypeOK
<1>8. /\ payout' = [payout EXCEPT ![p] = [payout[p] EXCEPT ![a] = told]]
      /\ [payout[p] EXCEPT ![a] = told] \in [Attempts -> PayoutStatuses]
  BY <1>2, <1>4, <1>7 DEF PayoutStatuses
<1>9. /\ payout' \in [Weeks -> [Attempts -> PayoutStatuses]]
      /\ \A q \in Weeks : q # p => payout'[q] = payout[q]
      /\ payout'[p][a] = told
      /\ \A b \in Attempts : b # a => payout'[p][b] = payout[p][b]
  BY <1>4, <1>7, <1>8
<1>10. TypeOK'
  BY <1>2, <1>6, <1>9 DEF IndInv, TypeOK
<1>11. OneLivePayout'
  <2> SUFFICES ASSUME NEW q \in Weeks PROVE PayoutTellsStatement(q)'
    BY DEF OneLivePayout
  <2>1. PayoutTellsStatement(q)
    BY DEF IndInv, OneLivePayout
  <2>2. CASE q # p
    BY <1>6, <1>9, <2>1, <2>2 DEF PayoutTellsStatement
  <2>3. CASE q = p
    <3>1. \A b \in Attempts : /\ b < a => payout[p][b] = "contested"
                              /\ b > a => payout[p][b] = "none"
      BY <1>3 DEF PayoutTellsStatement
    <3>2. \A b \in Attempts : (b < a => b # a) /\ (b > a => b # a)
      BY <1>4 DEF Attempts
    <3> HIDE DEF a
    <3>3. \A b \in Attempts : /\ b < a => payout'[p][b] = "contested"
                              /\ b > a => payout'[p][b] = "none"
                              /\ b = a => payout'[p][b] = told
      BY <1>9, <3>1, <3>2
    <3>4. statement'[p].status = status /\ statement'[p].attempts = a
      BY <1>5, <1>6
    <3> QED
      BY <1>4, <2>3, <3>3, <3>4 DEF PayoutTellsStatement
  <2> QED
    BY <2>2, <2>3
<1>12. ContestsCounted'
  BY <1>5, <1>6 DEF IndInv, ContestsCounted
<1>13. LinesFollowStatement'
  <2> SUFFICES ASSUME NEW l \in Lines PROVE LineFollowsStatement(l)'
    BY DEF LinesFollowStatement
  <2> QED
    BY <1>2, <1>5, <1>6, LineInStatement DEF LineFollowsStatement
<1>14. FixesHold'
  BY <1>2 DEF IndInv, FixesHold, FixHolds, LinesOf
<1>15. OneHolder' /\ SeenIsPast'
  BY <1>2 DEF IndInv, OneHolder, SeenIsPast
<1> QED
  BY <1>10, <1>11, <1>12, <1>13, <1>14, <1>15 DEF IndInv

LEMMA ContestStep ==
  ASSUME IndInv, NEW p \in Weeks, Contest(p)
  PROVE  IndInv'
<1> DEFINE contests == statement[p].contests + 1
           status   == IF contests >= 2 THEN "escalated" ELSE "contested"
<1>1. statement[p].status = "paid" /\ Answer(p, "contested", status, contests)
  BY DEF Contest, Awaited
<1>2. statement[p].contests \in {0, 1}
  BY <1>1 DEF IndInv, ContestsCounted
<1>3. contests \in 0..2 /\ (status = "contested" => contests \in {0, 1})
  BY <1>2
<1> HIDE DEF contests
<1> QED
  BY <1>1, <1>3, AnswerStep

LEMMA AcceptStep ==
  ASSUME IndInv, NEW p \in Weeks, Accept(p) \/ StaffClose(p)
  PROVE  IndInv'
<1>1. statement[p].status \in {"paid", "escalated"}
      /\ Answer(p, "accepted", "accepted", statement[p].contests)
  BY DEF Accept, StaffClose, Awaited
<1>2. statement[p].contests \in 0..2
  BY StatementTyped DEF IndInv
<1> QED
  BY <1>1, <1>2, AnswerStep

(* A payout that awaits an answer is the last one of a paid statement. *)
LEMMA DeclaredIsLast ==
  ASSUME IndInv, NEW p \in Weeks, NEW a \in Attempts, payout[p][a] = "declared"
  PROVE  statement[p].status = "paid" /\ a = statement[p].attempts
<1>1. PayoutTellsStatement(p)
  BY DEF IndInv, OneLivePayout
<1>2. statement[p].attempts \in Int /\ a \in Int
  BY StatementTyped DEF IndInv, Attempts
<1>3. a = statement[p].attempts
  BY <1>1, <1>2 DEF PayoutTellsStatement
<1> QED
  BY <1>1, <1>3 DEF PayoutTellsStatement

LEMMA AcceptDueIsAnswer ==
  ASSUME IndInv, NEW p \in Weeks, NEW a \in Attempts, AcceptDue(p, a)
  PROVE  Accept(p)
<1>1. statement[p].status = "paid" /\ a = statement[p].attempts
  BY DeclaredIsLast DEF AcceptDue
<1>2. [statement[p] EXCEPT !.status = "accepted"]
        = [statement[p] EXCEPT !.status = "accepted", !.contests = statement[p].contests]
  BY StatementTyped DEF IndInv, Statement
<1> QED
  BY <1>1, <1>2 DEF AcceptDue, Accept, Awaited, Answer

LEMMA StaffReopenStep ==
  ASSUME IndInv, NEW p \in Weeks, StaffReopen(p)
  PROVE  IndInv'
<1> DEFINE s == statement[p]
           t == [s EXCEPT !.status = "to_pay", !.contests = 0]
<1>1. s \in Statement
  BY StatementTyped DEF IndInv
<1>2. /\ s.status = "escalated"
      /\ \A l \in LinesOf(p) : ~ Locked(l)
      /\ statement' = [statement EXCEPT ![p] = t]
      /\ AttachPayout(p, 0)
      /\ UNCHANGED <<corrected, payout, order, now, seen, fix>>
  BY DEF StaffReopen, worldVars
<1>3. t \in Statement /\ t.status = "to_pay" /\ t.contests = 0 /\ t.attempts = s.attempts
  <2>1. "to_pay" \in StatementStatuses /\ 0 \in 0..2
    BY DEF StatementStatuses
  <2> HIDE DEF s
  <2> QED
    BY <1>1, <2>1 DEF Statement
<1> HIDE DEF t
<1>4. /\ statement' \in [Weeks -> Statement]
      /\ statement'[p] = t
      /\ \A q \in Weeks : q # p => statement'[q] = statement[q]
  BY <1>2, <1>3 DEF IndInv, TypeOK
<1>5. 0 \in 0..MaxAttempts
  BY BoundsAssumption
<1>6. TypeOK'
  BY <1>2, <1>4, <1>5, AttachedRows DEF IndInv, TypeOK
<1>7. OneLivePayout'
  <2> SUFFICES ASSUME NEW q \in Weeks PROVE PayoutTellsStatement(q)'
    BY DEF OneLivePayout
  <2>1. PayoutTellsStatement(q)
    BY DEF IndInv, OneLivePayout
  <2>2. CASE q # p
    BY <1>2, <1>4, <2>1, <2>2 DEF PayoutTellsStatement
  <2>3. CASE q = p
    BY <1>2, <1>3, <1>4, <2>1, <2>3 DEF PayoutTellsStatement
  <2> QED
    BY <2>2, <2>3
<1>8. ContestsCounted'
  BY <1>3, <1>4 DEF IndInv, ContestsCounted
<1>9. LinesFollowStatement'
  <2> SUFFICES ASSUME NEW l \in Lines PROVE LineFollowsStatement(l)'
    BY DEF LinesFollowStatement
  <2>1. CASE line[l].statement = p
    <3>1. line'[l].payout = 0 /\ line'[l].statement = p /\ line'[l].status = "paid_confirmed"
      BY <1>2, <1>5, <2>1, AttachedRows, LineInStatement DEF Weeks
    <3> QED
      BY <1>3, <1>4, <3>1 DEF LineFollowsStatement, Weeks
  <2>2. CASE line[l].statement # p
    <3>1. line'[l] = line[l]
      BY <1>2, <1>5, <2>2, AttachedRows
    <3> QED
      BY <1>4, <2>2, <3>1, LineInStatement DEF LineFollowsStatement
  <2> QED
    BY <2>1, <2>2
<1>10. FixesHold'
  BY <1>2, <1>5, AttachedFixes
<1>11. OneHolder' /\ SeenIsPast'
  BY <1>2 DEF IndInv, OneHolder, SeenIsPast
<1> QED
  BY <1>6, <1>7, <1>8, <1>9, <1>10, <1>11 DEF IndInv

(***************************************************************************)
(* The orders and time.                                                    *)
(***************************************************************************)
LEMMA OrderMovesStep ==
  ASSUME IndInv, NEW l \in Lines, OrderMoves(l)
  PROVE  IndInv'
<1>1. UNCHANGED <<line, corrected, statement, payout, now, seen, fix>>
  BY DEF OrderMoves, lineVars, statementVars
<1>2. PICK st \in Successors(order[l]) : order' = [order EXCEPT ![l] = st]
  BY DEF OrderMoves
<1>3. order[l] \in OrderStatuses
  BY DEF IndInv, TypeOK
<1>4. st \in OrderStatuses /\ order[l] # "cancelled"
  BY <1>2, <1>3 DEF Successors, OrderStatuses
<1>5. /\ order' \in [Lines -> OrderStatuses]
      /\ \A k \in Lines : order[k] = "cancelled" => order'[k] = "cancelled"
  BY <1>2, <1>4 DEF IndInv, TypeOK
<1>6. TypeOK'
  BY <1>1, <1>5 DEF IndInv, TypeOK
<1>7. OneLivePayout' /\ LinesFollowStatement' /\ ContestsCounted' /\ OneHolder'
  BY <1>1 DEF IndInv, OneLivePayout, PayoutTellsStatement, LinesFollowStatement,
     LineFollowsStatement, ContestsCounted, OneHolder
<1>8. FixesHold'
  BY <1>1, <1>5, FixTyped DEF IndInv, FixesHold, FixHolds, LinesOf
<1>9. SeenIsPast'
  BY <1>1, <1>5, SeenTyped DEF IndInv, SeenIsPast
<1> QED
  BY <1>6, <1>7, <1>8, <1>9 DEF IndInv

LEMMA NextWeekStep ==
  ASSUME IndInv, NextWeek
  PROVE  IndInv'
<1>1. UNCHANGED <<line, corrected, statement, payout, order, seen, fix>>
  BY DEF NextWeek, lineVars, statementVars
<1>2. now' \in Weeks
  BY BoundsAssumption DEF NextWeek, IndInv, TypeOK, Weeks
<1>3. TypeOK'
  BY <1>1, <1>2 DEF IndInv, TypeOK
<1>4. OneLivePayout' /\ LinesFollowStatement' /\ ContestsCounted' /\ OneHolder' /\ SeenIsPast'
  BY <1>1 DEF IndInv, OneLivePayout, PayoutTellsStatement, LinesFollowStatement,
     LineFollowsStatement, ContestsCounted, OneHolder, SeenIsPast
<1>5. FixesHold'
  BY <1>1 DEF IndInv, FixesHold, FixHolds, LinesOf
<1> QED
  BY <1>3, <1>4, <1>5 DEF IndInv

(***************************************************************************)
(* Invariants.                                                             *)
(***************************************************************************)
LEMMA LineNextKept ==
  ASSUME IndInv, NEW l \in Lines, LineNext(l)
  PROVE  IndInv'
<1>1. CASE DistributorConfirm(l) \/ AutoConfirm(l)
  BY <1>1, ConfirmStep DEF DistributorConfirm, AutoConfirm, MayConfirm
<1>2. CASE CustomerConfirm(l)
  BY <1>2, CustomerConfirmStep
<1>3. CASE DeclareNotDelivered(l)
  BY <1>3, DeclareNotDeliveredStep
<1>4. CASE \E to \in CorrectableTo : StaffCorrect(l, to)
  BY <1>4, StaffCorrectStep
<1>5. CASE OrderMoves(l)
  BY <1>5, OrderMovesStep
<1> QED
  BY <1>1, <1>2, <1>3, <1>4, <1>5 DEF LineNext

LEMMA SessionNextKept ==
  ASSUME IndInv, NEW w \in Sessions, SessionNext(w)
  PROVE  IndInv'
<1>1. CASE \E l \in Lines : OrderSaved(w, l) \/ Reconcile(w, l)
  BY <1>1, SyncReadStep DEF OrderSaved, Reconcile
<1>2. CASE SyncNothing(w)
  BY <1>2, SyncNothingStep
<1>3. CASE SyncOpen(w)
  BY <1>3, SyncOpenStep
<1>4. CASE SyncReverse(w)
  BY <1>4, SyncReverseStep
<1>5. CASE \E l \in Lines, to \in CorrectableTo : StaffWithdraw(w, l, to)
  BY <1>5, StaffWithdrawStep
<1>6. CASE FixCommit(w)
  BY <1>6, FixCommitStep
<1>7. CASE FixRefused(w)
  BY <1>7, FixRefusedStep
<1> QED
  BY <1>1, <1>2, <1>3, <1>4, <1>5, <1>6, <1>7 DEF SessionNext

LEMMA StatementNextKept ==
  ASSUME IndInv, NEW p \in Weeks, StatementNext(p)
  PROVE  IndInv'
<1>1. CASE DeclarePaid(p)
  BY <1>1, DeclarePaidStep
<1>2. CASE Accept(p) \/ StaffClose(p)
  BY <1>2, AcceptStep
<1>3. CASE Contest(p)
  BY <1>3, ContestStep
<1>4. CASE StaffReopen(p)
  BY <1>4, StaffReopenStep
<1>5. CASE \E a \in Attempts : AcceptDue(p, a)
  BY <1>5, AcceptDueIsAnswer, AcceptStep
<1> QED
  BY <1>1, <1>2, <1>3, <1>4, <1>5 DEF StatementNext

(* Every step keeps the invariant. *)
LEMMA NextIndInv == IndInv /\ [Next]_vars => IndInv'
<1> SUFFICES ASSUME IndInv, [Next]_vars PROVE IndInv'
  OBVIOUS
<1>1. CASE UNCHANGED vars
  <2>1. UNCHANGED <<order, line, statement, payout, now, corrected, seen, fix>>
    BY <1>1 DEF vars, lineVars, statementVars, worldVars
  <2>2. TypeOK'
    BY <2>1 DEF IndInv, TypeOK
  <2>3. OneLivePayout' /\ LinesFollowStatement' /\ ContestsCounted' /\ OneHolder' /\ SeenIsPast'
    BY <2>1 DEF IndInv, OneLivePayout, PayoutTellsStatement, LinesFollowStatement,
       LineFollowsStatement, ContestsCounted, OneHolder, SeenIsPast
  <2>4. FixesHold'
    BY <2>1 DEF IndInv, FixesHold, FixHolds, LinesOf
  <2> QED
    BY <2>2, <2>3, <2>4 DEF IndInv
<1>2. CASE Next
  BY <1>2, LineNextKept, SessionNextKept, StatementNextKept, CloseWeekStep, NextWeekStep DEF Next
<1> QED
  BY <1>1, <1>2

(* What the transactions that are open know of the rows they hold, and how *)
(* lines, statements and payouts agree, is so in every reachable state.    *)
THEOREM SettlementInvariant == Spec => []IndInv
<1> QED
  BY InitIndInv, NextIndInv, PTL DEF Spec

(* Every row keeps to its type; no statement is contested a third time.    *)
THEOREM SettlementTypes == Spec => []TypeOK
<1>1. IndInv => TypeOK
  BY DEF IndInv
<1> QED
  BY <1>1, SettlementInvariant, PTL

(* A statement and its payouts agree: one payout at most stands.           *)
THEOREM NeverPaidTwiceAtATime == Spec => []OneLivePayout
<1>1. IndInv => OneLivePayout
  BY DEF IndInv
<1> QED
  BY <1>1, SettlementInvariant, PTL

(* A line is in the payout of its statement exactly while one stands.      *)
THEOREM LinesAgreeWithStatement == Spec => []LinesFollowStatement
<1>1. IndInv => LinesFollowStatement
  BY DEF IndInv
<1> QED
  BY <1>1, SettlementInvariant, PTL

(***************************************************************************)
(* Action properties.                                                      *)
(***************************************************************************)
(* A confirmed or contested line that changes its status. *)
LEMMA ConfirmedStep ==
  ASSUME IndInv, Next, NEW l \in Lines,
         line[l].status \in {"paid_confirmed", "not_delivered"}, line'[l].status # line[l].status
  PROVE  /\ line[l].payout = 0
         /\ \/ corrected' = corrected + 1
            \/ line[l].auto /\ order[l] = "cancelled" /\ line'[l].status = "cancelled"
<1>t. line \in [Lines -> Row]
  BY DEF IndInv, TypeOK
<1>1. ASSUME NEW k \in Lines, LineNext(k)
      PROVE  line[l].payout = 0 /\ corrected' = corrected + 1
  <2>1. CASE OrderMoves(k)
    BY <2>1 DEF OrderMoves, lineVars
  <2>2. CASE DistributorConfirm(k) \/ AutoConfirm(k) \/ DeclareNotDelivered(k)
    BY <1>t, <2>2 DEF DistributorConfirm, AutoConfirm, DeclareNotDelivered, MayConfirm, SetLine, Open
  <2>3. CASE CustomerConfirm(k)
    <3>1. k = l
      BY <1>t, <2>3 DEF CustomerConfirm, SetLine
    <3>2. line[l].status \notin Open
      BY DEF Open
    <3>3. line'[l] = [line[l] EXCEPT !.told = TRUE]
      BY <1>t, <2>3, <3>1, <3>2 DEF CustomerConfirm, SetLine
    <3>4. line[l] \in Row
      BY <1>t
    <3> QED
      BY <3>3, <3>4 DEF Row
  <2>4. CASE \E to \in CorrectableTo : StaffCorrect(k, to)
    BY <1>t, <2>4 DEF StaffCorrect, Correctable, SetLine
  <2> QED
    BY <1>1, <2>1, <2>2, <2>3, <2>4 DEF LineNext
<1>2. ASSUME NEW w \in Sessions, SessionNext(w)
      PROVE  /\ line[l].payout = 0
             /\ \/ corrected' = corrected + 1
                \/ line[l].auto /\ order[l] = "cancelled" /\ line'[l].status = "cancelled"
  <2>1. CASE \/ \E k \in Lines : OrderSaved(w, k) \/ Reconcile(w, k)
             \/ SyncNothing(w) \/ FixRefused(w)
             \/ \E k \in Lines, to \in CorrectableTo : StaffWithdraw(w, k, to)
    BY <2>1 DEF OrderSaved, Reconcile, SyncRead, SyncNothing, FixRefused, StaffWithdraw, lineVars
  <2>2. CASE SyncOpen(w)
    BY <1>t, <2>2 DEF SyncOpen, SetLine, Open
  <2>3. CASE SyncReverse(w)
    <3>1. seen[w].line = l /\ SetLine(l, Reversed(l))
      BY <1>t, <2>3 DEF SyncReverse, SetLine
    <3>2. Presumed(l) /\ seen[w].order = "cancelled" /\ seen[w].at = "sync"
      BY <2>3, <3>1, SeenTyped DEF SyncReverse, IndInv
    <3>3. order[l] = "cancelled"
      BY <3>1, <3>2 DEF IndInv, SeenIsPast
    <3>4. line'[l].status = "cancelled"
      BY <1>t, <3>1, <3>2, ReversedTyped DEF SetLine
    <3> QED
      BY <3>2, <3>3, <3>4 DEF Presumed
  <2>4. CASE FixCommit(w)
    <3>1. fix[w].at = "fix" /\ fix[w].line \in Lines /\ fix[w].row \in Row
      BY <2>4, FixTyped DEF FixCommit, IndInv
    <3>2. SetLine(fix[w].line, fix[w].row)
          /\ corrected' = IF fix[w].row.auto THEN corrected ELSE corrected + 1
      BY <2>4 DEF FixCommit
    <3>3. fix[w].line = l /\ line'[l] = fix[w].row
      BY <1>t, <3>1, <3>2 DEF SetLine
    <3>4. FixHolds(w)
      BY DEF IndInv, FixesHold
    <3> QED
      BY <3>1, <3>2, <3>3, <3>4 DEF FixHolds
  <2> QED
    BY <1>2, <2>1, <2>2, <2>3, <2>4 DEF SessionNext
<1>3. ASSUME NEW p \in Weeks, StatementNext(p)
      PROVE  FALSE
  <2>1. CASE Accept(p) \/ Contest(p) \/ StaffClose(p) \/ \E a \in Attempts : AcceptDue(p, a)
    BY <2>1 DEF Accept, Contest, StaffClose, AcceptDue, Answer, lineVars
  <2>2. CASE DeclarePaid(p)
    <3>1. AttachPayout(p, statement[p].attempts + 1) /\ statement[p].attempts + 1 \in 0..MaxAttempts
      BY <2>2, StatementTyped, BoundsAssumption DEF DeclarePaid, IndInv
    <3> QED
      BY <3>1, AttachedRows
  <2>3. CASE StaffReopen(p)
    <3>1. AttachPayout(p, 0) /\ 0 \in 0..MaxAttempts
      BY <2>3, BoundsAssumption DEF StaffReopen
    <3> QED
      BY <3>1, AttachedRows
  <2> QED
    BY <1>3, <2>1, <2>2, <2>3 DEF StatementNext
<1>4. CASE CloseWeek
  <2>1. line'[l] = line[l] \/ line'[l] = [line[l] EXCEPT !.statement = now - 1]
    BY <1>4 DEF CloseWeek
  <2>2. line[l] \in Row
    BY <1>t
  <2> QED
    BY <2>1, <2>2 DEF Row
<1>5. CASE NextWeek
  BY <1>5 DEF NextWeek, lineVars
<1> QED
  BY <1>1, <1>2, <1>3, <1>4, <1>5 DEF Next

(* A sale is taken back only before it is in a payout, and only by the     *)
(* team or because its order was cancelled after silence had confirmed it. *)
THEOREM ConfirmedIsKept == Spec => ConfirmedKept
<1>1. ASSUME IndInv, [Next]_vars
      PROVE  [\A l \in Lines :
                line[l].status \in {"paid_confirmed", "not_delivered"} /\ line'[l].status # line[l].status =>
                  /\ line[l].payout = 0
                  /\ \/ corrected' = corrected + 1
                     \/ /\ line[l].auto
                        /\ order[l] = "cancelled"
                        /\ line'[l].status = "cancelled"]_vars
  BY <1>1, ConfirmedStep
<1> QED
  BY <1>1, SettlementInvariant, PTL DEF Spec, ConfirmedKept

(* What a statement sums. *)
LEMMA CoversStep ==
  ASSUME IndInv, Next, NEW p \in Weeks,
         statement[p].status \in {"paid", "accepted", "contested", "escalated"}
  PROVE  statement'[p].covers = statement[p].covers
<1>t. statement \in [Weeks -> Statement] /\ statement[p] \in Statement
  BY DEF IndInv, TypeOK
<1>1. ASSUME NEW q \in Weeks, StatementNext(q)
      PROVE  statement'[p].covers = statement[p].covers
  <2>1. CASE DeclarePaid(q)
    <3>1. statement' = [statement EXCEPT ![q] =
                          [statement[q] EXCEPT !.status = "paid", !.attempts = statement[q].attempts + 1]]
      BY <2>1 DEF DeclarePaid
    <3> QED
      BY <1>t, <3>1 DEF Statement
  <2>2. CASE \E told, status, contests : Answer(q, told, status, contests)
    <3>1. PICK told, status, contests : Answer(q, told, status, contests)
      BY <2>2
    <3>2. statement' = [statement EXCEPT ![q] =
                          [statement[q] EXCEPT !.status = status, !.contests = contests]]
      BY <3>1 DEF Answer
    <3> QED
      BY <1>t, <3>2 DEF Statement
  <2>3. CASE StaffReopen(q)
    <3>1. statement' = [statement EXCEPT ![q] = [statement[q] EXCEPT !.status = "to_pay", !.contests = 0]]
      BY <2>3 DEF StaffReopen
    <3> QED
      BY <1>t, <3>1 DEF Statement
  <2>4. CASE \E a \in Attempts : AcceptDue(q, a)
    <3>1. Accept(q)
      BY <2>4, AcceptDueIsAnswer
    <3> QED
      BY <2>2, <3>1 DEF Accept
  <2> QED
    BY <1>1, <2>1, <2>2, <2>3, <2>4 DEF StatementNext, Accept, Contest, StaffClose
<1>2. ASSUME NEW w \in Sessions, FixCommit(w)
      PROVE  statement'[p].covers = statement[p].covers
  <2>1. fix[w].at = "fix" /\ fix[w].line \in Lines /\ fix[w].statement \in Weeks
    BY <1>2, FixTyped DEF FixCommit, IndInv
  <2>2. line[fix[w].line].statement = fix[w].statement /\ line[fix[w].line].payout = 0
    BY <2>1 DEF IndInv, FixesHold, FixHolds
  <2>3. statement[fix[w].statement].status = "to_pay" \/ statement[fix[w].statement].attempts = 0
    BY <2>1, <2>2, LineInStatement DEF Weeks
  <2>4. fix[w].statement # p
    BY <1>t, <2>3 DEF IndInv, OneLivePayout, PayoutTellsStatement
  <2> QED
    BY <1>2, <1>t, <2>1, <2>4 DEF FixCommit
<1>3. CASE CloseWeek
  BY <1>3, <1>t DEF CloseWeek
<1>4. CASE UNCHANGED statement
  BY <1>4
<1>5. ASSUME NEW k \in Lines, LineNext(k)
      PROVE  UNCHANGED statement
  BY <1>5 DEF LineNext, DistributorConfirm, AutoConfirm, CustomerConfirm, DeclareNotDelivered, StaffCorrect,
     OrderMoves, statementVars
<1>6. ASSUME NEW w \in Sessions, SessionNext(w)
      PROVE  UNCHANGED statement \/ FixCommit(w)
  BY <1>6 DEF SessionNext, OrderSaved, Reconcile, SyncRead, SyncNothing, SyncOpen, SyncReverse, StaffWithdraw,
     FixRefused, statementVars
<1>7. NextWeek => UNCHANGED statement
  BY DEF NextWeek, statementVars
<1> QED
  BY <1>1, <1>2, <1>3, <1>4, <1>5, <1>6, <1>7 DEF Next

(* The amount of a statement stands from its payment on: a withdrawal that *)
(* holds no lock on the statement cannot rewrite it behind a payment.      *)
THEOREM AmountIsFrozen == Spec => AmountFrozen
<1>1. ASSUME IndInv, [Next]_vars
      PROVE  [\A p \in Weeks :
                statement[p].status \in {"paid", "accepted", "contested", "escalated"} =>
                  statement'[p].covers = statement[p].covers]_vars
  BY <1>1, CoversStep
<1> QED
  BY <1>1, SettlementInvariant, PTL DEF Spec, AmountFrozen

(***************************************************************************)
(* Settlement implements MarginDebt.                                       *)
(***************************************************************************)
(* How the lines of a statement stand. *)
Owing(status) ==
  CASE status = "paid" -> "claimed"
    [] status = "accepted" -> "settled"
    [] OTHER -> "owed"

Standing(l) ==
  IF line[l].status # "paid_confirmed" THEN "none"
  ELSE IF line[l].statement = 0 THEN "owed" ELSE Owing(statement[line[l].statement].status)

(* It is what the payouts of the lines say. *)
LEMMA DebtIsStanding == IndInv => \A l \in Lines : DebtOf(l) = Standing(l)
<1> SUFFICES ASSUME IndInv, NEW l \in Lines PROVE DebtOf(l) = Standing(l)
  OBVIOUS
<1> DEFINE p == line[l].statement
           s == statement[p]
<1>1. CASE line[l].status # "paid_confirmed"
  BY <1>1 DEF DebtOf, Standing
<1>2. CASE line[l].status = "paid_confirmed" /\ p = 0
  <2>1. l \in ResellerDue
    BY <1>2, LineInStatement DEF ResellerDue
  <2> QED
    BY <1>2, <2>1 DEF DebtOf, Standing
<1>3. CASE line[l].status = "paid_confirmed" /\ p # 0
  <2>1. p \in Weeks /\ s.status # "absent" /\ s.status \in StatementStatuses
        /\ line[l].payout = IF s.status = "to_pay" THEN 0 ELSE s.attempts
    BY <1>3, LineInStatement, StatementTyped DEF IndInv
  <2>2. PayoutTellsStatement(p) /\ s.attempts \in 0..MaxAttempts
    BY <2>1, StatementTyped DEF IndInv, OneLivePayout
  <2>3. CASE s.status = "to_pay"
    <3>1. l \in ResellerDue
      BY <1>3, <2>1, <2>3 DEF ResellerDue
    <3> QED
      BY <1>3, <2>3, <3>1 DEF DebtOf, Standing, Owing
  <2>4. CASE s.status # "to_pay"
    <3>1. s.attempts > 0 /\ s.attempts \in Attempts /\ line[l].payout = s.attempts
      BY <2>1, <2>2, <2>4 DEF PayoutTellsStatement, StatementStatuses, Attempts
    <3>2. payout[p][s.attempts] = CASE s.status = "paid" -> "declared"
                                    [] s.status = "accepted" -> "accepted"
                                    [] OTHER -> "contested"
      BY <2>2, <3>1 DEF PayoutTellsStatement
    <3>3. l \in ResellerDue <=> s.status \notin {"paid", "accepted"}
      BY <1>3, <3>1, <3>2 DEF ResellerDue
    <3> QED
      BY <1>3, <3>3 DEF DebtOf, Standing, Owing
  <2> QED
    BY <2>3, <2>4
<1> QED
  BY <1>1, <1>2, <1>3

LEMMA DebtIsStandingNext == IndInv' => (\A l \in Lines : DebtOf(l) = Standing(l))'
BY DebtIsStanding, PTL

(* Margins that move together, or one of them. *)
LEMMA MoveSet ==
  ASSUME IndInv, IndInv', NEW ls \in SUBSET Lines, NEW from, NEW to,
         <<from, to>> \in {<<"owed", "claimed">>, <<"claimed", "owed">>,
                           <<"claimed", "settled">>, <<"owed", "settled">>},
         \A l \in ls : Standing(l) = from /\ Standing(l)' = to,
         \A l \in Lines : l \notin ls => Standing(l)' = Standing(l)
  PROVE  [Debt!DebtNext]_([l \in Lines |-> DebtOf(l)])
<1>1. \A l \in Lines : DebtOf(l) = Standing(l) /\ DebtOf(l)' = Standing(l)'
  BY DebtIsStanding, DebtIsStandingNext
<1>2. CASE ls = {}
  <2>1. \A l \in Lines : DebtOf(l)' = DebtOf(l)
    BY <1>1, <1>2
  <2> QED
    BY <2>1
<1>3. CASE ls # {}
  <2>1. Debt!Move(from, to, ls)
    <3>1. \A l \in Lines : DebtOf(l)' = IF l \in ls THEN to ELSE DebtOf(l)
      BY <1>1
    <3>2. \A l \in ls : DebtOf(l) = from
      BY <1>1
    <3> QED
      BY <1>3, <3>1, <3>2 DEF Debt!Move
  <2>2. Debt!Claim(ls) \/ Debt!Dispute(ls) \/ Debt!Receive(ls) \/ Debt!Arbitrate(ls)
    BY <2>1 DEF Debt!Claim, Debt!Dispute, Debt!Receive, Debt!Arbitrate
  <2> QED
    BY <2>2 DEF Debt!DebtNext
<1> QED
  BY <1>2, <1>3

LEMMA MoveOne ==
  ASSUME IndInv, IndInv', NEW l \in Lines,
         Standing(l)' = Standing(l) \/ {Standing(l), Standing(l)'} \subseteq {"none", "owed"},
         \A k \in Lines : k # l => Standing(k)' = Standing(k)
  PROVE  [Debt!DebtNext]_([k \in Lines |-> DebtOf(k)])
<1>1. \A k \in Lines : DebtOf(k) = Standing(k) /\ DebtOf(k)' = Standing(k)'
  BY DebtIsStanding, DebtIsStandingNext
<1>2. CASE Standing(l)' = Standing(l)
  <2>1. \A k \in Lines : DebtOf(k)' = DebtOf(k)
    BY <1>1, <1>2
  <2> QED
    BY <2>1
<1>3. CASE Standing(l)' # Standing(l)
  <2> DEFINE from == Standing(l)
             to   == Standing(l)'
  <2>1. <<from, to>> \in {<<"none", "owed">>, <<"owed", "none">>}
    BY <1>3
  <2>2. Debt!Move(from, to, {l})
    <3>1. \A k \in Lines : DebtOf(k)' = IF k \in {l} THEN to ELSE DebtOf(k)
      BY <1>1
    <3>2. \A k \in {l} : DebtOf(k) = from
      BY <1>1
    <3> QED
      BY <3>1, <3>2 DEF Debt!Move
  <2>3. Debt!Earn(l) \/ Debt!Lose(l)
    BY <2>1, <2>2 DEF Debt!Earn, Debt!Lose
  <2> QED
    BY <2>3 DEF Debt!DebtNext
<1> QED
  BY <1>2, <1>3

(* The two shapes of a step: a line that is in no statement afterwards...  *)
LEMMA LineMoves ==
  ASSUME IndInv, IndInv', NEW l \in Lines,
         line[l].statement = 0 \/ statement[line[l].statement].status = "to_pay"
           \/ (line'[l].status = line[l].status /\ line'[l].statement = line[l].statement),
         line'[l].statement = 0
           \/ (line'[l].status = line[l].status /\ line'[l].statement = line[l].statement),
         \A k \in Lines : k # l => line'[k] = line[k],
         \A k \in Lines : k # l /\ line[k].statement # 0 =>
           statement'[line[k].statement].status = statement[line[k].statement].status,
         line'[l].statement # 0 => statement'[line[l].statement].status = statement[line[l].statement].status
  PROVE  [Debt!DebtNext]_([k \in Lines |-> DebtOf(k)])
<1>1. \A k \in Lines : k # l => Standing(k)' = Standing(k)
  BY DEF Standing
<1>2. Standing(l)' = Standing(l) \/ {Standing(l), Standing(l)'} \subseteq {"none", "owed"}
  BY DEF Standing, Owing
<1> QED
  BY <1>1, <1>2, MoveOne

(* ... and a statement that changes status, with its lines.                *)
LEMMA StatementMoves ==
  ASSUME IndInv, IndInv', NEW p \in Weeks,
         \A l \in Lines : line'[l].statement = line[l].statement /\ line'[l].status = line[l].status,
         \A q \in Weeks : q # p => statement'[q] = statement[q],
         <<Owing(statement[p].status), Owing(statement'[p].status)>> \in
           {<<"owed", "owed">>, <<"owed", "claimed">>, <<"claimed", "owed">>,
            <<"claimed", "settled">>, <<"owed", "settled">>}
  PROVE  [Debt!DebtNext]_([l \in Lines |-> DebtOf(l)])
<1> DEFINE from == Owing(statement[p].status)
           to   == Owing(statement'[p].status)
<1>1. \A l \in LinesOf(p) : l \in Lines /\ Standing(l) = from /\ Standing(l)' = to
  <2> TAKE l \in LinesOf(p)
  <2>1. l \in Lines /\ line[l].statement = p /\ p # 0
    BY DEF LinesOf, Weeks
  <2>2. line[l].status = "paid_confirmed" /\ line'[l].status = "paid_confirmed" /\ line'[l].statement = p
    BY <2>1, LineInStatement
  <2> QED
    BY <2>1, <2>2 DEF Standing
<1>2. \A l \in Lines : l \notin LinesOf(p) => Standing(l)' = Standing(l)
  BY LineInStatement DEF Standing, LinesOf
<1>3. LinesOf(p) \in SUBSET Lines
  BY DEF LinesOf
<1>4. CASE from = to
  <2>1. \A l \in Lines : Standing(l)' = Standing(l)
    BY <1>1, <1>2, <1>4
  <2>2. \A l \in Lines : DebtOf(l)' = DebtOf(l)
    BY <2>1, DebtIsStanding, DebtIsStandingNext
  <2> QED
    BY <2>2
<1>5. CASE from # to
  <2>1. <<from, to>> \in {<<"owed", "claimed">>, <<"claimed", "owed">>,
                          <<"claimed", "settled">>, <<"owed", "settled">>}
    BY <1>5
  <2>2. PICK ls \in SUBSET Lines, a \in {from}, b \in {to} : ls = LinesOf(p) /\ a = from /\ b = to
    BY <1>3
  <2>3. <<a, b>> \in {<<"owed", "claimed">>, <<"claimed", "owed">>,
                      <<"claimed", "settled">>, <<"owed", "settled">>}
    BY <2>1, <2>2
  <2>4. \A l \in ls : Standing(l) = a /\ Standing(l)' = b
    BY <1>1, <2>2
  <2>5. \A l \in Lines : l \notin ls => Standing(l)' = Standing(l)
    BY <1>2, <2>2
  <2> HIDE DEF from, to
  <2> QED
    BY <2>3, <2>4, <2>5, MoveSet
<1> QED
  BY <1>4, <1>5

LEMMA NothingMoves ==
  ASSUME IndInv, IndInv', \A l \in Lines : Standing(l)' = Standing(l)
  PROVE  [Debt!DebtNext]_([l \in Lines |-> DebtOf(l)])
<1>1. \A l \in Lines : DebtOf(l)' = DebtOf(l)
  BY DebtIsStanding, DebtIsStandingNext
<1> QED
  BY <1>1

LEMMA LineNextDebt ==
  ASSUME IndInv, IndInv', NEW l \in Lines, LineNext(l)
  PROVE  [Debt!DebtNext]_([k \in Lines |-> DebtOf(k)])
<1>t. line \in [Lines -> Row] /\ line[l] \in Row
  BY DEF IndInv, TypeOK
<1>1. CASE OrderMoves(l)
  BY <1>1, NothingMoves DEF OrderMoves, lineVars, statementVars, Standing
<1>2. ASSUME NEW row, SetLine(l, row), UNCHANGED statement,
             \/ line[l].statement = 0 /\ row.statement = 0
             \/ row.status = line[l].status /\ row.statement = line[l].statement
      PROVE  [Debt!DebtNext]_([k \in Lines |-> DebtOf(k)])
  <2>1. line'[l] = row /\ \A k \in Lines : k # l => line'[k] = line[k]
    BY <1>t, <1>2 DEF SetLine
  <2> QED
    BY <1>2, <2>1, LineMoves
<1>3. CASE DistributorConfirm(l) \/ AutoConfirm(l)
  <2>1. PICK auto \in BOOLEAN : SetLine(l, Paid(l, auto))
    BY <1>3 DEF DistributorConfirm, AutoConfirm
  <2>2. line[l].statement = 0 /\ UNCHANGED statement
    BY <1>3, LineInStatement DEF DistributorConfirm, AutoConfirm, MayConfirm, Open, statementVars
  <2> QED
    BY <1>2, <2>1, <2>2, PaidTyped
<1>4. CASE CustomerConfirm(l)
  <2> DEFINE row  == IF line[l].status \in Open THEN Paid(l, FALSE) ELSE line[l]
             told == [row EXCEPT !.told = TRUE]
  <2>1. SetLine(l, told) /\ UNCHANGED statement
    BY <1>4 DEF CustomerConfirm, statementVars
  <2>2. row \in Row /\ row.statement = line[l].statement
        /\ (line[l].statement = 0 \/ row.status = line[l].status)
    BY <1>t, PaidTyped, LineInStatement DEF Open
  <2> HIDE DEF row
  <2>3. told.statement = row.statement /\ told.status = row.status
    BY <2>2 DEF Row
  <2> HIDE DEF told
  <2> QED
    BY <1>2, <2>1, <2>2, <2>3
<1>5. CASE DeclareNotDelivered(l)
  <2>1. SetLine(l, [line[l] EXCEPT !.status = "not_delivered"]) /\ UNCHANGED statement
    BY <1>5 DEF DeclareNotDelivered, statementVars
  <2>2. line[l].statement = 0
    BY <1>5, LineInStatement DEF DeclareNotDelivered, Open
  <2>3. [line[l] EXCEPT !.status = "not_delivered"].statement = 0
    BY <1>t, <2>2 DEF Row
  <2> QED
    BY <1>2, <2>1, <2>2, <2>3
<1>6. CASE \E to \in CorrectableTo : StaffCorrect(l, to)
  <2>1. PICK to \in CorrectableTo : StaffCorrect(l, to)
    BY <1>6
  <2>2. SetLine(l, Correction(l, to)) /\ UNCHANGED statement /\ line[l].statement = 0
    BY <2>1 DEF StaffCorrect, statementVars
  <2>3. Correction(l, to).statement = 0
    BY <2>2, CorrectionTyped
  <2> QED
    BY <1>2, <2>2, <2>3
<1> QED
  BY <1>1, <1>3, <1>4, <1>5, <1>6 DEF LineNext

(* A line leaves a statement to pay, and no other line loses it. *)
LEMMA FixFacts ==
  ASSUME IndInv, NEW w \in Sessions, FixCommit(w)
  PROVE  LET f == fix[w] IN
         /\ f.line \in Lines /\ f.statement \in Weeks /\ f.statement # 0
         /\ line[f.line].statement = f.statement
         /\ statement[f.statement].status = "to_pay"
         /\ line'[f.line].statement = 0
         /\ \A k \in Lines : k # f.line => line'[k] = line[k]
         /\ \A k \in Lines : k # f.line /\ line[k].statement # 0 =>
              statement'[line[k].statement].status = statement[line[k].statement].status
<1> DEFINE f == fix[w]
           s == statement[f.statement]
<1>1. f.at = "fix" /\ f.line \in Lines /\ f.row \in Row /\ f.statement \in Weeks /\ f.statement # 0
  BY FixTyped DEF FixCommit, IndInv, Weeks
<1>2. /\ f.left = {} => s.attempts = 0
      /\ SetLine(f.line, f.row)
      /\ statement' = [statement EXCEPT ![f.statement] =
                         IF f.left = {} THEN NoStatement ELSE [s EXCEPT !.covers = f.left]]
  BY DEF FixCommit
<1>3. /\ line[f.line].statement = f.statement /\ line[f.line].payout = 0 /\ f.row.statement = 0
      /\ LinesOf(f.statement) \ {f.line} \subseteq f.left
  BY <1>1 DEF IndInv, FixesHold, FixHolds
<1>4. s \in Statement /\ statement \in [Weeks -> Statement] /\ line \in [Lines -> Row]
  BY <1>1 DEF IndInv, TypeOK
<1>5. s.status # "absent" /\ (s.status # "to_pay" => s.attempts = 0)
  BY <1>1, <1>3, LineInStatement
<1>6. s.status = "to_pay"
  BY <1>1, <1>4, <1>5 DEF IndInv, OneLivePayout, PayoutTellsStatement, Statement, StatementStatuses
<1>7. /\ line'[f.line] = f.row
      /\ \A k \in Lines : k # f.line => line'[k] = line[k]
  BY <1>1, <1>2, <1>4 DEF SetLine
<1>8. ASSUME NEW k \in Lines, k # f.line, line[k].statement # 0
      PROVE  statement'[line[k].statement].status = statement[line[k].statement].status
  <2>1. line[k].statement \in Weeks
    BY <1>8, LineInStatement
  <2>2. CASE line[k].statement # f.statement
    BY <1>2, <1>4, <2>1, <2>2
  <2>3. CASE line[k].statement = f.statement
    <3>1. f.left # {}
      BY <1>3, <1>8, <2>3 DEF LinesOf
    <3>2. statement'[f.statement] = [s EXCEPT !.covers = f.left]
      BY <1>1, <1>2, <1>4, <3>1
    <3>3. statement'[f.statement].status = s.status
      BY <1>4, <3>2 DEF Statement
    <3> QED
      BY <2>3, <3>3
  <2> QED
    BY <2>2, <2>3
<1> QED
  BY <1>1, <1>3, <1>6, <1>7, <1>8

LEMMA SessionNextDebt ==
  ASSUME IndInv, IndInv', NEW w \in Sessions, SessionNext(w)
  PROVE  [Debt!DebtNext]_([k \in Lines |-> DebtOf(k)])
<1>t. line \in [Lines -> Row]
  BY DEF IndInv, TypeOK
<1>1. CASE UNCHANGED <<line, statement>>
  BY <1>1, NothingMoves DEF Standing
<1>2. CASE \/ \E l \in Lines : OrderSaved(w, l) \/ Reconcile(w, l)
           \/ SyncNothing(w) \/ FixRefused(w)
           \/ \E l \in Lines, to \in CorrectableTo : StaffWithdraw(w, l, to)
  BY <1>1, <1>2 DEF OrderSaved, Reconcile, SyncRead, SyncNothing, FixRefused, StaffWithdraw, lineVars,
     statementVars
<1>3. CASE SyncOpen(w)
  <2> DEFINE l   == seen[w].line
             old == IF line[l].status = "absent" THEN Created(l) ELSE line[l]
             row == [old EXCEPT !.status = StatusMap(seen[w].order), !.presumed = Started(old, seen[w].order)]
  <2>1. l \in Lines /\ SetLine(l, row) /\ UNCHANGED statement
    BY <1>3, SeenTyped DEF SyncOpen, IndInv, statementVars
  <2>2. line[l].statement = 0
    BY <1>3, <2>1, LineInStatement DEF SyncOpen, Open
  <2>3. row.statement = 0
    BY <1>t, <2>1, <2>2 DEF Created, NoLine, Row
  <2> HIDE DEF row
  <2>4. line'[l] = row /\ \A k \in Lines : k # l => line'[k] = line[k]
    BY <1>t, <2>1 DEF SetLine
  <2> HIDE DEF l
  <2> QED
    BY <2>1, <2>2, <2>3, <2>4, LineMoves
<1>4. CASE SyncReverse(w)
  <2> DEFINE l == seen[w].line
  <2>1. l \in Lines /\ Presumed(l) /\ UNCHANGED statement
    BY <1>4, SeenTyped DEF SyncReverse, IndInv, statementVars
  <2>2. CASE line[l].statement = 0
    <3>1. SetLine(l, Reversed(l))
      BY <1>4, <2>2 DEF SyncReverse
    <3>2. line'[l] = Reversed(l) /\ \A k \in Lines : k # l => line'[k] = line[k]
      BY <1>t, <2>1, <3>1 DEF SetLine
    <3> HIDE DEF l
    <3> QED
      BY <2>1, <2>2, <3>2, ReversedTyped, LineMoves
  <2>3. CASE line[l].statement # 0
    BY <1>1, <1>4, <2>1, <2>3 DEF SyncReverse
  <2> QED
    BY <2>2, <2>3
<1>5. CASE FixCommit(w)
  <2>1. PICK l \in Lines : l = fix[w].line
    BY <1>5, FixFacts
  <2>2. /\ line[l].statement # 0 /\ statement[line[l].statement].status = "to_pay"
        /\ line'[l].statement = 0
        /\ \A k \in Lines : k # l => line'[k] = line[k]
        /\ \A k \in Lines : k # l /\ line[k].statement # 0 =>
             statement'[line[k].statement].status = statement[line[k].statement].status
    BY <1>5, <2>1, FixFacts
  <2>3. \A k \in Lines : k # l => Standing(k)' = Standing(k)
    BY <2>2 DEF Standing
  <2>4. {Standing(l), Standing(l)'} \subseteq {"none", "owed"}
    BY <2>2 DEF Standing, Owing
  <2> QED
    BY <2>3, <2>4, MoveOne
<1> QED
  BY <1>2, <1>3, <1>4, <1>5 DEF SessionNext

LEMMA StatementNextDebt ==
  ASSUME IndInv, IndInv', NEW p \in Weeks, StatementNext(p)
  PROVE  [Debt!DebtNext]_([l \in Lines |-> DebtOf(l)])
<1>t. statement \in [Weeks -> Statement] /\ statement[p] \in Statement
  BY DEF IndInv, TypeOK
<1>1. CASE DeclarePaid(p)
  <2>1. AttachPayout(p, statement[p].attempts + 1) /\ statement[p].attempts + 1 \in 0..MaxAttempts
    BY <1>1, StatementTyped, BoundsAssumption DEF DeclarePaid, IndInv
  <2>2. statement' = [statement EXCEPT ![p] =
                        [statement[p] EXCEPT !.status = "paid", !.attempts = statement[p].attempts + 1]]
    BY <1>1 DEF DeclarePaid
  <2>3. statement'[p].status = "paid" /\ \A q \in Weeks : q # p => statement'[q] = statement[q]
    BY <1>t, <2>2 DEF Statement
  <2>4. <<Owing(statement[p].status), Owing(statement'[p].status)>> = <<"owed", "claimed">>
    BY <1>1, <2>3 DEF DeclarePaid, Owing
  <2>5. \A l \in Lines : line'[l].statement = line[l].statement /\ line'[l].status = line[l].status
    BY <2>1, AttachedRows
  <2> QED
    BY <2>3, <2>4, <2>5, StatementMoves
<1>2. ASSUME NEW told, NEW status, NEW contests, Answer(p, told, status, contests),
             <<Owing(statement[p].status), Owing(status)>> \in
               {<<"owed", "owed">>, <<"owed", "claimed">>, <<"claimed", "owed">>,
                <<"claimed", "settled">>, <<"owed", "settled">>}
      PROVE  [Debt!DebtNext]_([l \in Lines |-> DebtOf(l)])
  <2>1. UNCHANGED line
    BY <1>2 DEF Answer, lineVars
  <2>2. statement' = [statement EXCEPT ![p] = [statement[p] EXCEPT !.status = status, !.contests = contests]]
    BY <1>2 DEF Answer
  <2>3. statement'[p].status = status /\ \A q \in Weeks : q # p => statement'[q] = statement[q]
    BY <1>t, <2>2 DEF Statement
  <2> QED
    BY <1>2, <2>1, <2>3, StatementMoves
<1>3. CASE Accept(p) \/ \E a \in Attempts : AcceptDue(p, a)
  <2>1. Accept(p)
    BY <1>3, AcceptDueIsAnswer
  <2>2. <<Owing(statement[p].status), Owing("accepted")>> = <<"claimed", "settled">>
    BY <2>1 DEF Accept, Awaited, Owing
  <2> QED
    BY <1>2, <2>1, <2>2 DEF Accept
<1>4. CASE Contest(p)
  <2>1. PICK status \in {"contested", "escalated"} : Answer(p, "contested", status, statement[p].contests + 1)
    BY <1>4 DEF Contest
  <2>2. <<Owing(statement[p].status), Owing(status)>> = <<"claimed", "owed">>
    BY <1>4, <2>1 DEF Contest, Awaited, Owing
  <2> QED
    BY <1>2, <2>1, <2>2
<1>5. CASE StaffClose(p)
  <2>1. <<Owing(statement[p].status), Owing("accepted")>> = <<"owed", "settled">>
    BY <1>5 DEF StaffClose, Owing
  <2> QED
    BY <1>2, <1>5, <2>1 DEF StaffClose
<1>6. CASE StaffReopen(p)
  <2>1. AttachPayout(p, 0) /\ 0 \in 0..MaxAttempts
    BY <1>6, BoundsAssumption DEF StaffReopen
  <2>2. statement' = [statement EXCEPT ![p] = [statement[p] EXCEPT !.status = "to_pay", !.contests = 0]]
    BY <1>6 DEF StaffReopen
  <2>3. statement'[p].status = "to_pay" /\ \A q \in Weeks : q # p => statement'[q] = statement[q]
    BY <1>t, <2>2 DEF Statement
  <2>4. <<Owing(statement[p].status), Owing(statement'[p].status)>> = <<"owed", "owed">>
    BY <1>6, <2>3 DEF StaffReopen, Owing
  <2>5. \A l \in Lines : line'[l].statement = line[l].statement /\ line'[l].status = line[l].status
    BY <2>1, AttachedRows
  <2> QED
    BY <2>3, <2>4, <2>5, StatementMoves
<1> QED
  BY <1>1, <1>3, <1>4, <1>5, <1>6 DEF StatementNext

LEMMA CloseWeekDebt ==
  ASSUME IndInv, IndInv', CloseWeek
  PROVE  [Debt!DebtNext]_([l \in Lines |-> DebtOf(l)])
<1> DEFINE p == now - 1
<1>1. p \in Weeks /\ p # 0 /\ statement[p].status = "absent"
  BY BoundsAssumption DEF CloseWeek, IndInv, TypeOK, Weeks
<1>2. statement'[p].status = "to_pay" /\ \A q \in Weeks : q # p => statement'[q] = statement[q]
  BY <1>1 DEF CloseWeek, IndInv, TypeOK
<1>3. \A l \in Lines : line'[l] = IF l \in Unsettled THEN [line[l] EXCEPT !.statement = p] ELSE line[l]
  BY DEF CloseWeek
<1> HIDE DEF p
<1>4. ASSUME NEW l \in Lines PROVE Standing(l)' = Standing(l)
  <2>1. CASE l \in Unsettled
    <3>1. line[l].status = "paid_confirmed" /\ line[l].statement = 0
      BY <2>1 DEF Unsettled
    <3>2. line'[l].status = "paid_confirmed" /\ line'[l].statement = p
      BY <1>3, <2>1, <3>1, RowTyped DEF IndInv, Row
    <3> QED
      BY <1>1, <1>2, <3>1, <3>2 DEF Standing, Owing
  <2>2. CASE l \notin Unsettled
    <3>1. line'[l] = line[l]
      BY <1>3, <2>2
    <3>2. line[l].statement # 0 => line[l].statement \in Weeks /\ line[l].statement # p
      BY <1>1, LineInStatement
    <3> QED
      BY <1>2, <3>1, <3>2 DEF Standing
  <2> QED
    BY <2>1, <2>2
<1> QED
  BY <1>4, NothingMoves

LEMMA NextDebt ==
  ASSUME IndInv, IndInv', [Next]_vars
  PROVE  [Debt!DebtNext]_([l \in Lines |-> DebtOf(l)])
<1>1. CASE UNCHANGED vars
  BY <1>1, NothingMoves DEF vars, lineVars, statementVars, Standing
<1>2. CASE NextWeek
  BY <1>2, NothingMoves DEF NextWeek, lineVars, statementVars, Standing
<1>3. CASE Next /\ ~ NextWeek
  BY <1>3, LineNextDebt, SessionNextDebt, StatementNextDebt, CloseWeekDebt DEF Next
<1> QED
  BY <1>1, <1>2, <1>3

(* The rows of the settlement, with the reads without a lock and the       *)
(* withdrawals that hold no statement, keep the promise of MarginDebt.     *)
THEOREM SettlementImplementsDebt == Spec => ImplementsDebt
<1>1. Init => Debt!DebtInit
  <2> SUFFICES ASSUME Init PROVE Debt!DebtInit
    OBVIOUS
  <2>1. \A l \in Lines : DebtOf(l) = "none"
    BY DEF Init, NoLine, DebtOf
  <2> QED
    BY <2>1 DEF Debt!DebtInit
<1>2. IndInv /\ IndInv' /\ [Next]_vars => [Debt!DebtNext]_([l \in Lines |-> DebtOf(l)])
  BY NextDebt
<1> QED
  BY <1>1, <1>2, SettlementInvariant, PTL DEF Spec, ImplementsDebt, Debt!DebtSpec

(* A margin that was received, accepted by silence or closed by the team   *)
(* is never due again: no correction, contest, late synchronisation or     *)
(* withdrawal brings it back (statements.py:11 makes contested ones due    *)
(* again, and no other).  MarginDebt leaves "settled" by no step, and      *)
(* Settlement implements it.                                               *)
SettledStaysSettled ==
  [][\A l \in Lines : DebtOf(l) = "settled" => DebtOf(l)' = "settled"]_vars

(* No step of the settlement makes a settled margin due again: a property  *)
(* of MarginDebt, carried over by the refinement.                          *)
THEOREM MarginsAreSettledOnce == Spec => SettledStaysSettled
<1> DEFINE debts == [l \in Lines |-> DebtOf(l)]
           Stays == \A l \in Lines : DebtOf(l) = "settled" => DebtOf(l)' = "settled"
<1>1. [Debt!DebtNext]_debts => Stays
  <2> SUFFICES ASSUME [Debt!DebtNext]_debts PROVE Stays
    OBVIOUS
  <2>1. ASSUME NEW from, NEW to, from # "settled", NEW ls \in SUBSET Lines, Debt!Move(from, to, ls)
        PROVE  Stays
    <3>1. \A l \in ls : DebtOf(l) = from
      BY <2>1 DEF Debt!Move
    <3>2. debts' = [l \in Lines |-> IF l \in ls THEN to ELSE DebtOf(l)]
      BY <2>1 DEF Debt!Move
    <3>3. \A l \in Lines : DebtOf(l)' = IF l \in ls THEN to ELSE DebtOf(l)
      BY <3>2
    <3> QED
      BY <2>1, <3>1, <3>3
  <2>2. CASE UNCHANGED debts
    BY <2>2
  <2> HIDE DEF Stays, debts
  <2>3. \A l \in Lines : {l} \in SUBSET Lines
    OBVIOUS
  <2> QED
    BY <2>1, <2>2, <2>3
    DEF Debt!DebtNext, Debt!Earn, Debt!Lose, Debt!Claim, Debt!Dispute, Debt!Receive,
        Debt!Arbitrate
<1>2. IndInv /\ IndInv' /\ [Next]_vars => [Stays]_vars
  BY <1>1, NextDebt
<1> QED
  BY <1>2, SettlementInvariant, PTL DEF Spec, SettledStaysSettled
=============================================================================
