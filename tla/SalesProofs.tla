------------------------------ MODULE SalesProofs ------------------------------
(***************************************************************************)
(* Proofs about Sales, for any set of sales and of web workers.            *)
(***************************************************************************)
EXTENDS Sales, FiniteSetTheorems, TLAPS

(* What is about to be saved, and the sales the tasks listed, exist or     *)
(* have a window that was checked.                                         *)
JobLegal(j) ==
  IF j.window = Kept THEN Exists(j.sale) ELSE Legal(j.window)

PendingLegal ==
  /\ \A h \in Workers : job[h] # NoJob => JobLegal(job[h])
  /\ \A c \in opening : Exists(c.sale) /\ Legal(c.window)
  /\ \A s \in closing : Exists(s)

LegalInv == SalesTypeOK /\ WindowIsLegal /\ PendingLegal

LEMMA KeptIsNoSpan == Kept \notin Span
  BY SalesAssumption DEF Kept, Span, Times

LEMMA JobOf ==
  ASSUME SalesTypeOK, NEW h \in Workers, job[h] # NoJob
  PROVE  job[h] \in Job
  BY DEF SalesTypeOK

LEMMA LegalInitial == SalesInit => LegalInv
  BY SalesAssumption
  DEF SalesInit, LegalInv, SalesTypeOK, WindowIsLegal, PendingLegal, Exists, Absent, Nowhen, Row, Span,
      Times, NoJob

LEMMA RacedTyped ==
  ASSUME SalesTypeOK, NEW h \in Workers, NEW S \in SUBSET Sales, Races(h, S)
  PROVE  raced' \subseteq SUBSET Sales
  <1>1. Elsewhere(h) \subseteq Sales
    BY DEF Elsewhere, InFlight
  <1> QED
    BY <1>1 DEF Races, SalesTypeOK

(* A worker that prepares a save. *)
LEMMA LegalPrepare ==
  ASSUME LegalInv, NEW h \in Workers, NEW s \in Sales, NEW status \in Statuses,
         NEW w \in Span \cup {Kept},
         IF w = Kept THEN Exists(s) ELSE Legal(w),
         WillSave(h, s, status, w),
         opening' \subseteq opening, closing' = closing
  PROVE  LegalInv'
  <1> DEFINE j == [at |-> "save", sale |-> s, status |-> status, window |-> w]
  <1>1. j \in Job /\ j.window = w /\ j.sale = s
    BY DEF Job
  <1>2. job' = [job EXCEPT ![h] = j] /\ UNCHANGED <<now, sale, withOrders>>
    BY DEF WillSave
  <1>3. SalesTypeOK'
    <2>1. raced' \subseteq SUBSET Sales
      BY RacedTyped DEF WillSave, LegalInv
    <2> QED
      BY <1>1, <1>2, <2>1 DEF LegalInv, SalesTypeOK
  <1>4. WindowIsLegal'
    BY <1>2 DEF LegalInv, WindowIsLegal, Exists
  <1>5. \A g \in Workers : job'[g] = IF g = h THEN j ELSE job[g]
    BY <1>2 DEF LegalInv, SalesTypeOK
  <1>6. JobLegal(j)
    BY <1>1 DEF JobLegal
  <1> HIDE DEF j
  <1>7. \A g \in Workers : job'[g] # NoJob => JobLegal(job'[g])
    BY <1>5, <1>6 DEF LegalInv, PendingLegal
  <1>8. PendingLegal'
    BY <1>2, <1>7 DEF LegalInv, PendingLegal, JobLegal, Exists
  <1> QED
    BY <1>3, <1>4, <1>8 DEF LegalInv

(* The window of a sale opened early. *)
LEMMA AdvancedSpan ==
  ASSUME SalesTypeOK, NEW w \in Span, Legal(w), now < w.start
  PROVE  Advanced(w) \in Span
  BY SalesAssumption DEF SalesTypeOK, Span, Times, Advanced, Legal

LEMMA OpeningLegal ==
  ASSUME SalesTypeOK, NEW s \in Sales, NEW w \in Span, Legal(w), Exists(s), OpeningRules(s, w)
  PROVE  /\ Opening(w) \in Span \cup {Kept}
         /\ IF Opening(w) = Kept THEN Exists(s) ELSE Legal(Opening(w))
  <1>1. CASE now < w.start
    BY <1>1, AdvancedSpan, KeptIsNoSpan DEF Opening, OpeningRules, CreationRules
  <1>2. CASE ~(now < w.start)
    BY <1>2 DEF Opening
  <1> QED
    BY <1>1, <1>2

LEMMA LaterSpan ==
  ASSUME SalesTypeOK, Later.stop <= Horizon
  PROVE  Later \in Span
  BY SalesAssumption DEF SalesTypeOK, Span, Times, Later

(* A save of the row, by a request or by the task that opens. *)
LEMMA LegalSave ==
  ASSUME LegalInv, NEW h \in Workers, Save(h)
  PROVE  LegalInv'
  <1> DEFINE s == job[h].sale
             row == Saved(sale[s], job[h])
  <1>1. job[h] # NoJob /\ job[h] \in Job /\ JobLegal(job[h])
    BY JobOf DEF LegalInv, PendingLegal, Save
  <1>2. /\ s \in Sales /\ job[h].status \in Statuses
        /\ job[h].window \in Span \cup {Kept}
    BY <1>1 DEF Job
  <1>3. sale[s] \in Row
    BY <1>2 DEF LegalInv, SalesTypeOK
  <1>4. /\ row \in Row
        /\ row.status # "absent"
        /\ Legal(row.window)
    BY <1>1, <1>2, <1>3 DEF Saved, Row, Statuses, JobLegal, LegalInv, WindowIsLegal
  <1>5. /\ sale' = [sale EXCEPT ![s] = row]
        /\ job' = [job EXCEPT ![h] = NoJob]
        /\ UNCHANGED <<now, withOrders, opening, closing, raced>>
    BY DEF Save
  <1> HIDE DEF row, s
  <1>6. SalesTypeOK'
    BY <1>4, <1>5 DEF LegalInv, SalesTypeOK
  <1>7. \A t \in Sales : sale'[t] = IF t = s THEN row ELSE sale[t]
    BY <1>5 DEF LegalInv, SalesTypeOK
  <1>8. \A t \in Sales : Exists(t) => Exists(t)'
    BY <1>4, <1>7 DEF Exists
  <1>9. WindowIsLegal'
    BY <1>4, <1>7 DEF LegalInv, WindowIsLegal, Exists
  <1>10. \A g \in Workers : job'[g] # NoJob => job'[g] = job[g] /\ job[g] \in Job
    BY <1>5, JobOf DEF LegalInv, SalesTypeOK
  <1>11. \A g \in Workers :
           job'[g] # NoJob => IF job'[g].window = Kept THEN sale'[job'[g].sale].status # "absent"
                                                       ELSE Legal(job'[g].window)
    BY <1>8, <1>10 DEF LegalInv, PendingLegal, JobLegal, Exists, Job
  <1>12. opening \subseteq Copy /\ closing \subseteq Sales
    BY DEF LegalInv, SalesTypeOK
  <1>13. PendingLegal'
    <2>1. \A c \in opening' : Exists(c.sale)' /\ Legal(c.window)
      BY <1>5, <1>8, <1>12 DEF LegalInv, PendingLegal, Copy
    <2>2. \A t \in closing' : Exists(t)'
      BY <1>5, <1>8, <1>12 DEF LegalInv, PendingLegal
    <2> QED
      BY <1>11, <2>1, <2>2 DEF PendingLegal, JobLegal, Exists
  <1> QED
    BY <1>6, <1>9, <1>13 DEF LegalInv

LEMMA LegalCrash ==
  ASSUME LegalInv, NEW h \in Workers, Crash(h)
  PROVE  LegalInv'
  <1>1. /\ job' = [job EXCEPT ![h] = NoJob]
        /\ UNCHANGED <<now, sale, withOrders, opening, closing, raced>>
    BY DEF Crash
  <1>2. SalesTypeOK' /\ WindowIsLegal'
    BY <1>1 DEF LegalInv, SalesTypeOK, WindowIsLegal, Exists
  <1>3. \A g \in Workers : job'[g] # NoJob => job'[g] = job[g]
    BY <1>1 DEF LegalInv, SalesTypeOK
  <1>4. PendingLegal'
    BY <1>1, <1>3 DEF LegalInv, PendingLegal, JobLegal, Exists
  <1> QED
    BY <1>2, <1>4 DEF LegalInv

LEMMA LegalOpenerRead ==
  ASSUME LegalInv, OpenerRead
  PROVE  LegalInv'
  <1>1. UNCHANGED <<now, sale, withOrders, job, closing>>
    BY DEF OpenerRead
  <1>2. \A c \in opening' : /\ c.sale \in Sales /\ sale[c.sale].status = "scheduled"
                            /\ c.window = sale[c.sale].window
                            /\ c = [sale |-> c.sale, window |-> c.window]
    BY DEF OpenerRead, Due
  <1>3. \A c \in opening' : c \in Copy
    BY <1>2 DEF LegalInv, SalesTypeOK, Row, Copy
  <1>4. \A c \in opening' : Exists(c.sale) /\ Legal(c.window)
    BY <1>2 DEF LegalInv, WindowIsLegal, Exists
  <1>5. SalesTypeOK' /\ WindowIsLegal'
    <2>1. raced' \subseteq SUBSET Sales
      BY RacedTyped DEF OpenerRead, Due, Workers, LegalInv
    <2> QED
      BY <1>1, <1>3, <2>1 DEF LegalInv, SalesTypeOK, WindowIsLegal, Exists
  <1>6. PendingLegal'
    BY <1>1, <1>4 DEF LegalInv, PendingLegal, JobLegal, Exists
  <1> QED
    BY <1>5, <1>6 DEF LegalInv

LEMMA LegalOpenerNext ==
  ASSUME LegalInv, NEW c \in opening, OpenerNext(c)
  PROVE  LegalInv'
  <1>1. c.sale \in Sales /\ c.window \in Span /\ Exists(c.sale) /\ Legal(c.window)
    BY DEF LegalInv, SalesTypeOK, PendingLegal, Copy
  <1>2. opening' \subseteq opening /\ closing' = closing
    BY DEF OpenerNext
  <1>3. CASE OpeningRules(c.sale, c.window)
    <2>1. WillSave(Opener, c.sale, "live", Opening(c.window))
      BY <1>3 DEF OpenerNext
    <2>2. Opener \in Workers /\ "live" \in Statuses
      BY DEF Workers, Statuses
    <2>3. /\ Opening(c.window) \in Span \cup {Kept}
          /\ IF Opening(c.window) = Kept THEN Exists(c.sale) ELSE Legal(Opening(c.window))
      BY <1>1, <1>3, OpeningLegal DEF LegalInv
    <2> QED
      BY <1>1, <1>2, <2>1, <2>2, <2>3, LegalPrepare
  <1>4. CASE ~OpeningRules(c.sale, c.window)
    <2>1. UNCHANGED <<now, sale, withOrders, job, raced>>
      BY <1>4 DEF OpenerNext
    <2> QED
      BY <1>2, <2>1
      DEF LegalInv, SalesTypeOK, WindowIsLegal, PendingLegal, JobLegal, Exists
  <1> QED
    BY <1>3, <1>4

LEMMA LegalCloserNext ==
  ASSUME LegalInv, NEW s \in Sales, CloserNext(s)
  PROVE  LegalInv'
  <1>1. /\ s \in closing
        /\ closing' = closing \ {s}
        /\ sale' = [sale EXCEPT ![s].status = "closed"]
        /\ UNCHANGED <<now, withOrders, job, opening, raced>>
    BY DEF CloserNext
  <1>2. Exists(s)
    BY <1>1 DEF LegalInv, PendingLegal
  <1>3. sale[s] \in Row
    BY DEF LegalInv, SalesTypeOK
  <1>4. SalesTypeOK'
    BY <1>1, <1>3 DEF LegalInv, SalesTypeOK, Row, Statuses
  <1>5. \A t \in Sales : /\ sale'[t].window = sale[t].window
                         /\ Exists(t) => Exists(t)'
                         /\ Exists(t)' => Exists(t)
    BY <1>1, <1>2, <1>3 DEF LegalInv, SalesTypeOK, Exists, Row
  <1>6. WindowIsLegal'
    BY <1>5 DEF LegalInv, WindowIsLegal
  <1>7. \A g \in Workers : job[g] # NoJob => job[g].sale \in Sales
    BY JobOf DEF LegalInv, Job
  <1>8. opening \subseteq Copy /\ closing \subseteq Sales
    BY DEF LegalInv, SalesTypeOK
  <1>9. PendingLegal'
    BY <1>1, <1>5, <1>7, <1>8 DEF LegalInv, PendingLegal, JobLegal, Copy
  <1> QED
    BY <1>4, <1>6, <1>9 DEF LegalInv

LEMMA LegalRequest ==
  ASSUME LegalInv, NEW h \in Handlers, NEW s \in Sales,
         \/ OpenSale(h, s) \/ CloseSale(h, s) \/ CancelSale(h, s)
         \/ \E from \in Sales : Clone(h, s, from)
         \/ \E w \in Span : Create(h, s, w) \/ Update(h, s, w)
  PROVE  LegalInv'
  <1>1. h \in Workers /\ Statuses = {"scheduled", "live", "closed", "cancelled"}
    BY DEF Workers, Statuses
  <1>2. CASE OpenSale(h, s)
    <2>1. sale[s] \in Row /\ Exists(s)
      BY <1>2 DEF OpenSale, LegalInv, SalesTypeOK, Exists
    <2>2. sale[s].window \in Span /\ Legal(sale[s].window)
      BY <2>1 DEF Row, LegalInv, WindowIsLegal
    <2>3. /\ Opening(sale[s].window) \in Span \cup {Kept}
          /\ IF Opening(sale[s].window) = Kept THEN Exists(s) ELSE Legal(Opening(sale[s].window))
      BY <1>2, <2>1, <2>2, OpeningLegal DEF OpenSale, LegalInv
    <2> QED
      BY <1>1, <1>2, <2>3, LegalPrepare DEF OpenSale
  <1>3. CASE CloseSale(h, s)
    BY <1>1, <1>3, LegalPrepare DEF CloseSale
  <1>4. CASE CancelSale(h, s)
    <2>1. Exists(s)
      BY <1>4 DEF CancelSale, Exists
    <2> QED
      BY <1>1, <1>4, <2>1, LegalPrepare DEF CancelSale
  <1>5. ASSUME NEW from \in Sales, Clone(h, s, from) PROVE LegalInv'
    <2>1. Later \in Span /\ Legal(Later)
      BY <1>5, LaterSpan DEF Clone, CreationRules, LegalInv
    <2> QED
      BY <1>1, <1>5, <2>1, KeptIsNoSpan, LegalPrepare DEF Clone
  <1>6. ASSUME NEW w \in Span, Create(h, s, w) \/ Update(h, s, w) PROVE LegalInv'
    <2>1. Legal(w) /\ w # Kept
      BY <1>6, KeptIsNoSpan DEF Create, Update, CreationRules
    <2>2. WillSave(h, s, "scheduled", w) /\ opening' = opening /\ closing' = closing
      BY <1>6 DEF Create, Update
    <2> QED
      BY <1>1, <2>1, <2>2, LegalPrepare
  <1> QED
    BY <1>2, <1>3, <1>4, <1>5, <1>6

LEMMA LegalNext == LegalInv /\ [SalesNext]_salesVars => LegalInv'
  <1> SUFFICES ASSUME LegalInv, [SalesNext]_salesVars PROVE LegalInv'
    OBVIOUS
  <1>1. ASSUME NEW h \in Workers, Save(h) \/ Crash(h) PROVE LegalInv'
    BY <1>1, LegalSave, LegalCrash
  <1>2. CASE CloserRead
    BY <1>2 DEF CloserRead, Late, LegalInv, SalesTypeOK, WindowIsLegal, PendingLegal, JobLegal, Exists
  <1>3. CASE TasksCrash
    BY <1>3 DEF TasksCrash, LegalInv, SalesTypeOK, WindowIsLegal, PendingLegal, JobLegal, Exists
  <1>4. ASSUME NEW s \in Sales, PlaceOrder(s) PROVE LegalInv'
    BY <1>4 DEF PlaceOrder, LegalInv, SalesTypeOK, WindowIsLegal, PendingLegal, JobLegal, Exists
  <1>5. CASE Tick
    BY <1>5, SalesAssumption
    DEF Tick, Times, LegalInv, SalesTypeOK, WindowIsLegal, PendingLegal, JobLegal, Exists
  <1>6. CASE UNCHANGED salesVars
    BY <1>6 DEF salesVars, LegalInv, SalesTypeOK, WindowIsLegal, PendingLegal, JobLegal, Exists
  <1> QED
    BY <1>1, <1>2, <1>3, <1>4, <1>5, <1>6, LegalRequest, LegalOpenerRead, LegalOpenerNext,
       LegalCloserNext DEF SalesNext

(* Type correctness. *)
THEOREM SalesTypes == SalesSpec => []SalesTypeOK
  <1>1. SalesSpec => []LegalInv
    BY LegalInitial, LegalNext, PTL DEF SalesSpec
  <1>2. LegalInv => SalesTypeOK
    BY DEF LegalInv
  <1> QED
    BY <1>1, <1>2, PTL

(* Whatever the number of requests and tasks that save one over another,   *)
(* no sale has a window that the rules on duration forbid.                 *)
THEOREM SalesWindows == SalesSpec => []WindowIsLegal
  <1>1. SalesSpec => []LegalInv
    BY LegalInitial, LegalNext, PTL DEF SalesSpec
  <1>2. LegalInv => WindowIsLegal
    BY DEF LegalInv
  <1> QED
    BY <1>1, <1>2, PTL

(***************************************************************************)
(* What the sales that were never in flight twice can rely on.             *)
(***************************************************************************)
(* Two workers that have sales in flight race them.                        *)
RacesAreSeen ==
  \A g, h \in Workers : g # h => \A s \in InFlight(g), t \in InFlight(h) : {s, t} \in raced

(* Only saves that leave a sale to its customers write a window; what the  *)
(* task that opens has listed has begun, once, so it writes none.          *)
Shape ==
  /\ \A h \in Workers : job[h] # NoJob /\ job[h].window # Kept => job[h].status \in Orderable
  /\ job[Opener] # NoJob => job[Opener].window = Kept
  /\ \A c \in opening : /\ c.window.start <= now
                        /\ \A d \in opening : d.sale = c.sale => d = c
                        /\ job[Opener] # NoJob => job[Opener].sale # c.sale

(* The window that a save leaves to its sale. *)
Target(s, w) == IF w = Kept THEN sale[s].window ELSE w

(* A pending save of s, unless s was in flight twice: a sale about to be   *)
(* live has begun, and what is about to take orders was never opened.      *)
Sound(s, status, w) ==
  /\ status = "live" => Target(s, w).start <= now
  /\ status \in Orderable => sale[s].status \in {"absent", "scheduled"}

PendingSound ==
  \A h \in Workers :
    job[h] # NoJob => {job[h].sale} \in raced \/ Sound(job[h].sale, job[h].status, job[h].window)

(* The lists of the tasks, and the live sales, with the same exception. *)
ListsSound ==
  /\ \A c \in opening :
       {c.sale} \notin raced => sale[c.sale] = [status |-> "scheduled", window |-> c.window]
  /\ \A s \in closing : {s} \notin raced => sale[s].status \notin {"absent", "scheduled"}

TrackInv == RacesAreSeen /\ Shape /\ PendingSound /\ ListsSound /\ LiveHasStarted

LEMMA TrackInitial == SalesInit => TrackInv
  <1> SUFFICES ASSUME SalesInit PROVE TrackInv
    OBVIOUS
  <1>1. \A h \in Workers : job[h] = NoJob /\ InFlight(h) = {}
    BY DEF SalesInit, InFlight
  <1>2. Opener \in Workers
    BY DEF Workers
  <1> QED
    BY <1>1, <1>2
    DEF SalesInit, TrackInv, RacesAreSeen, Shape, PendingSound, ListsSound, LiveHasStarted, Absent

(* raced grows by what a worker takes in hand. *)
LEMMA RacesStep ==
  ASSUME RacesAreSeen, NEW h \in Workers, NEW A, Races(h, A),
         InFlight(h)' \subseteq InFlight(h) \cup A,
         \A g \in Workers \ {h} : InFlight(g)' \subseteq InFlight(g)
  PROVE  RacesAreSeen'
  <1>1. raced \subseteq raced' /\ \A s \in A, t \in Elsewhere(h) : {s, t} \in raced'
    BY DEF Races
  <1>2. ASSUME NEW g \in Workers \ {h}, NEW s \in InFlight(h)', NEW t \in InFlight(g)'
        PROVE  {s, t} \in raced'
    <2>1. t \in Elsewhere(h)
      BY <1>2 DEF Elsewhere
    <2> QED
      BY <1>1, <1>2, <2>1 DEF RacesAreSeen
  <1>3. ASSUME NEW g \in Workers, NEW k \in Workers, g # k,
               NEW s \in InFlight(g)', NEW t \in InFlight(k)'
        PROVE  {s, t} \in raced'
    <2>1. CASE g = h
      BY <1>2, <1>3, <2>1
    <2>2. CASE k = h
      <3>1. {t, s} \in raced'
        BY <1>2, <1>3, <2>2
      <3>2. {t, s} = {s, t}
        OBVIOUS
      <3> QED
        BY <3>1, <3>2
    <2>3. CASE g # h /\ k # h
      BY <1>1, <1>3, <2>3 DEF RacesAreSeen
    <2> QED
      BY <2>1, <2>2, <2>3
  <1> QED
    BY <1>3 DEF RacesAreSeen

LEMMA RacesFade ==
  ASSUME RacesAreSeen, raced' = raced, \A g \in Workers : InFlight(g)' \subseteq InFlight(g)
  PROVE  RacesAreSeen'
  BY DEF RacesAreSeen

LEMMA JobStep ==
  ASSUME SalesTypeOK, NEW h \in Workers, NEW j, job' = [job EXCEPT ![h] = j]
  PROVE  \A g \in Workers : job'[g] = IF g = h THEN j ELSE job[g]
  BY DEF SalesTypeOK

LEMMA TrackPrepare ==
  ASSUME LegalInv, TrackInv, NEW h \in Workers, NEW s \in Sales, NEW status, NEW w,
         WillSave(h, s, status, w),
         opening' \subseteq opening, closing' = closing,
         w # Kept => status \in Orderable,
         h = Opener => w = Kept /\ \A c \in opening' : c.sale # s,
         {s} \in raced \/ Sound(s, status, w)
  PROVE  TrackInv'
  <1> DEFINE j == [at |-> "save", sale |-> s, status |-> status, window |-> w]
  <1>1. j.sale = s /\ j.status = status /\ j.window = w /\ j # NoJob
    BY DEF NoJob
  <1>2. /\ job[h] = NoJob
        /\ job' = [job EXCEPT ![h] = j]
        /\ Races(h, {s}) /\ raced \subseteq raced'
        /\ UNCHANGED <<now, sale, withOrders>>
    BY DEF WillSave, Races
  <1>3. \A g \in Workers : job'[g] = IF g = h THEN j ELSE job[g]
    BY <1>2, JobStep DEF LegalInv
  <1> HIDE DEF j
  <1>4. RacesAreSeen'
    <2>1. InFlight(h)' \subseteq InFlight(h) \cup {s}
      BY <1>1, <1>3 DEF InFlight
    <2>2. \A g \in Workers \ {h} : InFlight(g)' \subseteq InFlight(g)
      BY <1>3 DEF InFlight
    <2> QED
      BY <1>2, <2>1, <2>2, RacesStep DEF TrackInv
  <1>5. Shape'
    <2>1. Opener \in Workers
      BY DEF Workers
    <2>2. \A g \in Workers : job'[g] # NoJob /\ job'[g].window # Kept => job'[g].status \in Orderable
      BY <1>1, <1>3 DEF TrackInv, Shape
    <2>3. job'[Opener] # NoJob => job'[Opener].window = Kept
      BY <1>1, <1>3, <2>1 DEF TrackInv, Shape
    <2>4. \A c \in opening' : job'[Opener] # NoJob => job'[Opener].sale # c.sale
      BY <1>1, <1>3, <2>1 DEF TrackInv, Shape
    <2>5. \A c \in opening' : c.window.start <= now' /\ \A d \in opening' : d.sale = c.sale => d = c
      BY <1>2 DEF TrackInv, Shape
    <2> QED
      BY <2>2, <2>3, <2>4, <2>5 DEF Shape
  <1>6. PendingSound'
    <2> SUFFICES ASSUME NEW g \in Workers, job'[g] # NoJob
                 PROVE  ({job[g].sale} \in raced \/ Sound(job[g].sale, job[g].status, job[g].window))'
      BY DEF PendingSound
    <2>1. CASE g = h
      BY <1>1, <1>2, <1>3, <2>1 DEF Sound, Target
    <2>2. CASE g # h
      BY <1>2, <1>3, <2>2 DEF TrackInv, PendingSound, Sound, Target
    <2> QED
      BY <2>1, <2>2
  <1>7. ListsSound' /\ LiveHasStarted'
    BY <1>2 DEF TrackInv, ListsSound, LiveHasStarted
  <1> QED
    BY <1>4, <1>5, <1>6, <1>7 DEF TrackInv

(* The window of a sale that is opened begins now at the latest. *)
LEMMA OpeningBegun ==
  ASSUME LegalInv, NEW s \in Sales, sale[s].status = "scheduled",
         OpeningRules(s, sale[s].window)
  PROVE  Sound(s, "live", Opening(sale[s].window))
  <1>1. sale[s].window \in Span /\ now \in Int
    BY DEF LegalInv, SalesTypeOK, Row, Times
  <1>2. CASE now < sale[s].window.start
    <2>1. Advanced(sale[s].window).start = now /\ Advanced(sale[s].window) # Kept
      <3>1. Legal(Advanced(sale[s].window))
        BY <1>2 DEF OpeningRules, CreationRules
      <3> QED
        BY <3>1 DEF Advanced, Legal, Kept
    <2> QED
      BY <1>1, <1>2, <2>1 DEF Sound, Target, Opening
  <1>3. CASE ~(now < sale[s].window.start)
    BY <1>1, <1>3 DEF Sound, Target, Opening, Span, Times
  <1> QED
    BY <1>2, <1>3

LEMMA TrackRequest ==
  ASSUME LegalInv, TrackInv, NEW h \in Handlers, NEW s \in Sales,
         \/ OpenSale(h, s) \/ CloseSale(h, s) \/ CancelSale(h, s)
         \/ \E from \in Sales : Clone(h, s, from)
         \/ \E w \in Span : Create(h, s, w) \/ Update(h, s, w)
  PROVE  TrackInv'
  <1>1. h \in Workers /\ h # Opener
    BY SalesAssumption DEF Workers
  <1>2. opening' = opening /\ closing' = closing
    BY DEF OpenSale, CloseSale, CancelSale, Clone, Create, Update
  <1>3. ASSUME NEW status, NEW w, WillSave(h, s, status, w), w # Kept => status \in Orderable,
               Sound(s, status, w)
        PROVE  TrackInv'
    BY <1>1, <1>2, <1>3, TrackPrepare
  <1>4. CASE OpenSale(h, s)
    BY <1>3, <1>4, OpeningBegun DEF OpenSale, Orderable
  <1>5. CASE CloseSale(h, s) \/ CancelSale(h, s)
    <2>1. Sound(s, "closed", Kept) /\ Sound(s, "cancelled", Kept)
      BY DEF Sound, Orderable
    <2> QED
      BY <1>3, <1>5, <2>1 DEF CloseSale, CancelSale
  <1>6. ASSUME NEW w, WillSave(h, s, "scheduled", w), sale[s].status \in {"absent", "scheduled"}
        PROVE  TrackInv'
    <2>1. Sound(s, "scheduled", w)
      BY <1>6 DEF Sound
    <2> QED
      BY <1>3, <1>6, <2>1 DEF Orderable
  <1>7. ASSUME NEW from \in Sales, Clone(h, s, from) PROVE TrackInv'
    BY <1>6, <1>7 DEF Clone, Fresh, Exists
  <1>8. ASSUME NEW w \in Span, Create(h, s, w) \/ Update(h, s, w) PROVE TrackInv'
    BY <1>6, <1>8 DEF Create, Fresh, Exists, Update
  <1> QED
    BY <1>4, <1>5, <1>7, <1>8

(* The steps that write no sale and prepare no save. *)
LEMMA TrackQuiet ==
  ASSUME LegalInv, TrackInv,
         UNCHANGED <<sale, raced>>, now <= now', now' \in Int,
         \A g \in Workers : job'[g] \in {job[g], NoJob},
         opening' \subseteq opening,
         closing' \subseteq closing \/ closing' = Late
  PROVE  TrackInv'
  <1>1. now \in Int /\ Opener \in Workers
    BY DEF LegalInv, SalesTypeOK, Times, Workers
  <1>2. \A s \in Sales : sale[s].status # "absent" => sale[s].window.start \in Int
    BY DEF LegalInv, SalesTypeOK, Row, Span, Times
  <1>3. RacesAreSeen'
    <2>1. \A g \in Workers : InFlight(g)' \subseteq InFlight(g)
      BY DEF InFlight
    <2> QED
      BY <2>1, RacesFade DEF TrackInv
  <1>4. Shape'
    <2>1. \A c \in opening : c.window.start \in Int
      BY DEF LegalInv, SalesTypeOK, Copy, Span, Times
    <2>2. \A g \in Workers : job'[g] # NoJob => job'[g] = job[g]
      OBVIOUS
    <2>3. \A c \in opening' : c.window.start <= now'
      BY <1>1, <2>1 DEF TrackInv, Shape
    <2> QED
      BY <1>1, <2>2, <2>3 DEF TrackInv, Shape
  <1>5. PendingSound'
    <2> SUFFICES ASSUME NEW g \in Workers, job'[g] # NoJob
                 PROVE  ({job[g].sale} \in raced \/ Sound(job[g].sale, job[g].status, job[g].window))'
      BY DEF PendingSound
    <2>1. job'[g] = job[g] /\ job[g] \in Job
      BY JobOf DEF LegalInv
    <2>2. Target(job[g].sale, job[g].window).start \in Int
      BY <2>1, KeptIsNoSpan DEF Job, Target, LegalInv, SalesTypeOK, Row, Span, Times
    <2>3. {job[g].sale} \in raced \/ Sound(job[g].sale, job[g].status, job[g].window)
      BY <2>1 DEF TrackInv, PendingSound
    <2> QED
      BY <1>1, <2>1, <2>2, <2>3 DEF Sound, Target
  <1>6. ListsSound'
    BY DEF TrackInv, ListsSound, Late
  <1>7. LiveHasStarted'
    BY <1>1, <1>2 DEF TrackInv, LiveHasStarted
  <1> QED
    BY <1>3, <1>4, <1>5, <1>6, <1>7 DEF TrackInv

LEMMA TrackOpenerNext ==
  ASSUME LegalInv, TrackInv, NEW c \in opening, OpenerNext(c)
  PROVE  TrackInv'
  <1>1. c.sale \in Sales /\ c.window \in Span /\ c.window.start <= now /\ now \in Int
    BY DEF LegalInv, SalesTypeOK, Copy, TrackInv, Shape, Times
  <1>2. Opening(c.window) = Kept
    BY <1>1 DEF Opening, Span, Times
  <1>3. opening' = opening \ {c} /\ closing' = closing
    BY DEF OpenerNext
  <1>4. CASE OpeningRules(c.sale, c.window)
    <2>1. WillSave(Opener, c.sale, "live", Kept) /\ Opener \in Workers
      BY <1>2, <1>4 DEF OpenerNext, Workers
    <2>2. {c.sale} \in raced \/ Sound(c.sale, "live", Kept)
      <3>1. {c.sale} \notin raced => sale[c.sale] = [status |-> "scheduled", window |-> c.window]
        BY DEF TrackInv, ListsSound
      <3>2. {c.sale} \notin raced => /\ sale[c.sale].status = "scheduled"
                                     /\ sale[c.sale].window = c.window
        BY <3>1
      <3> QED
        BY <1>1, <3>2 DEF Sound, Target
    <2>3. \A d \in opening' : d.sale # c.sale
      BY <1>3 DEF TrackInv, Shape
    <2>4. opening' \subseteq opening
      BY <1>3
    <2> QED
      BY <1>1, <1>3, <2>1, <2>2, <2>3, <2>4, TrackPrepare
  <1>5. CASE ~OpeningRules(c.sale, c.window)
    <2>1. UNCHANGED <<now, sale, job, raced>>
      BY <1>5 DEF OpenerNext
    <2> QED
      BY <1>1, <1>3, <2>1, TrackQuiet
  <1> QED
    BY <1>4, <1>5

LEMMA TrackOpenerRead ==
  ASSUME LegalInv, TrackInv, OpenerRead
  PROVE  TrackInv'
  <1>1. /\ opening = {} /\ job[Opener] = NoJob
        /\ Races(Opener, Due) /\ raced \subseteq raced'
        /\ UNCHANGED <<now, sale, withOrders, job, closing>>
    BY DEF OpenerRead, Races
  <1>2. \A c \in opening' : /\ c.sale \in Due
                            /\ c.window = sale[c.sale].window
                            /\ c = [sale |-> c.sale, window |-> sale[c.sale].window]
    BY DEF OpenerRead
  <1>3. \A s \in Due : /\ s \in Sales /\ sale[s].status = "scheduled"
                       /\ sale[s].window.start <= now
                       /\ sale[s] = [status |-> "scheduled", window |-> sale[s].window]
    BY DEF Due, LegalInv, SalesTypeOK, Row
  <1>4. RacesAreSeen'
    <2>1. InFlight(Opener)' \subseteq InFlight(Opener) \cup Due
      BY <1>1, <1>2 DEF InFlight
    <2>2. \A g \in Workers \ {Opener} : InFlight(g)' \subseteq InFlight(g)
      BY <1>1 DEF InFlight
    <2>3. Opener \in Workers
      BY DEF Workers
    <2> QED
      BY <1>1, <2>1, <2>2, <2>3, RacesStep DEF TrackInv
  <1>5. Shape'
    <2>1. \A c \in opening' : c.window = sale[c.sale].window /\ c.window.start <= now'
      BY <1>1, <1>2, <1>3
    <2>2. \A c, d \in opening' : d.sale = c.sale => d = c
      BY <1>2
    <2> QED
      BY <1>1, <2>1, <2>2 DEF TrackInv, Shape
  <1>6. PendingSound' /\ LiveHasStarted'
    BY <1>1 DEF TrackInv, PendingSound, Sound, Target, LiveHasStarted
  <1>7. ListsSound'
    <2>1. \A c \in opening' : sale'[c.sale] = [status |-> "scheduled", window |-> c.window]
      <3> SUFFICES ASSUME NEW c \in opening'
                   PROVE  sale[c.sale] = [status |-> "scheduled", window |-> c.window]
        BY <1>1
      <3>1. c.window = sale[c.sale].window
        BY <1>2
      <3> QED
        BY <1>2, <1>3, <3>1
    <2> QED
      BY <1>1, <2>1 DEF TrackInv, ListsSound
  <1> QED
    BY <1>4, <1>5, <1>6, <1>7 DEF TrackInv

LEMMA TrackCloserNext ==
  ASSUME LegalInv, TrackInv, NEW s \in Sales, CloserNext(s)
  PROVE  TrackInv'
  <1>1. /\ s \in closing /\ closing' \subseteq closing
        /\ sale' = [sale EXCEPT ![s].status = "closed"]
        /\ UNCHANGED <<now, withOrders, job, opening, raced>>
    BY DEF CloserNext
  <1>2. \A t \in Sales : /\ sale'[t].window = sale[t].window
                         /\ t # s => sale'[t] = sale[t]
    BY <1>1 DEF LegalInv, SalesTypeOK, Row
  <1>3. sale'[s].status = "closed"
    BY <1>1 DEF LegalInv, SalesTypeOK, Row
  <1>4. {s} \in raced \/ sale[s].status \notin {"absent", "scheduled"}
    BY <1>1 DEF TrackInv, ListsSound
  <1>5. RacesAreSeen' /\ Shape'
    BY <1>1 DEF TrackInv, RacesAreSeen, InFlight, Shape
  <1>6. PendingSound'
    <2> SUFFICES ASSUME NEW g \in Workers, job'[g] # NoJob
                 PROVE  ({job[g].sale} \in raced \/ Sound(job[g].sale, job[g].status, job[g].window))'
      BY DEF PendingSound
    <2>1. job[g] \in Job /\ job[g].sale \in Sales
      BY <1>1, JobOf DEF LegalInv, Job
    <2>2. {job[g].sale} \in raced \/ Sound(job[g].sale, job[g].status, job[g].window)
      BY <1>1 DEF TrackInv, PendingSound
    <2> QED
      BY <1>1, <1>2, <1>4, <2>1, <2>2 DEF Sound, Target, Orderable
  <1>7. ListsSound'
    <2>1. \A c \in opening : c.sale \in Sales
      BY DEF LegalInv, SalesTypeOK, Copy
    <2>2. ASSUME NEW c \in opening, {c.sale} \notin raced PROVE c.sale # s
      <3>1. sale[c.sale] = [status |-> "scheduled", window |-> c.window]
        BY <2>2 DEF TrackInv, ListsSound
      <3>2. sale[c.sale].status = "scheduled"
        BY <3>1
      <3> QED
        BY <1>4, <2>2, <3>2
    <2>3. closing \subseteq Sales
      BY DEF LegalInv, SalesTypeOK
    <2> QED
      BY <1>1, <1>2, <1>3, <2>1, <2>2, <2>3 DEF TrackInv, ListsSound
  <1>8. LiveHasStarted'
    BY <1>1, <1>2, <1>3 DEF TrackInv, LiveHasStarted
  <1> QED
    BY <1>5, <1>6, <1>7, <1>8 DEF TrackInv

(* What a save writes. *)
LEMMA SaveStep ==
  ASSUME LegalInv, NEW h \in Workers, Save(h)
  PROVE  /\ job[h] # NoJob /\ job[h] \in Job /\ job[h].sale \in Sales
         /\ \A g \in Workers : job'[g] = IF g = h THEN NoJob ELSE job[g]
         /\ \A t \in Sales :
              sale'[t] = IF t = job[h].sale
                           THEN [status |-> job[h].status,
                                 window |-> Target(job[h].sale, job[h].window)]
                           ELSE sale[t]
         /\ UNCHANGED <<now, withOrders, opening, closing, raced>>
  <1>1. job[h] # NoJob /\ job[h] \in Job /\ job[h].sale \in Sales
    BY JobOf DEF LegalInv, Save, Job
  <1>2. /\ sale' = [sale EXCEPT ![job[h].sale] = Saved(@, job[h])]
        /\ job' = [job EXCEPT ![h] = NoJob]
        /\ UNCHANGED <<now, withOrders, opening, closing, raced>>
    BY DEF Save
  <1>3. \A g \in Workers : job'[g] = IF g = h THEN NoJob ELSE job[g]
    BY <1>2, JobStep DEF LegalInv
  <1>4. Saved(sale[job[h].sale], job[h]) =
          [status |-> job[h].status, window |-> Target(job[h].sale, job[h].window)]
    BY DEF Saved, Target
  <1>5. \A t \in Sales :
          sale'[t] = IF t = job[h].sale THEN Saved(sale[job[h].sale], job[h]) ELSE sale[t]
    BY <1>1, <1>2 DEF LegalInv, SalesTypeOK
  <1> QED
    BY <1>1, <1>2, <1>3, <1>4, <1>5

(* No other worker has in hand a sale that is saved, unless it was raced. *)
LEMMA OnlyOneHolds ==
  ASSUME LegalInv, RacesAreSeen, NEW h \in Workers, job[h] # NoJob, job[h].sale \in Sales,
         NEW g \in Workers, g # h, NEW t \in InFlight(g)
  PROVE  {job[h].sale, t} \in raced
  <1>1. job[h].sale \in InFlight(h)
    BY DEF InFlight
  <1> QED
    BY <1>1 DEF RacesAreSeen

LEMMA TrackSave ==
  ASSUME LegalInv, TrackInv, NEW h \in Workers, Save(h)
  PROVE  TrackInv'
  <1> DEFINE s == job[h].sale
             row == [status |-> job[h].status, window |-> Target(s, job[h].window)]
  <1>1. /\ job[h] # NoJob /\ job[h] \in Job /\ s \in Sales
        /\ \A g \in Workers : job'[g] = IF g = h THEN NoJob ELSE job[g]
        /\ \A t \in Sales : sale'[t] = IF t = s THEN row ELSE sale[t]
        /\ UNCHANGED <<now, withOrders, opening, closing, raced>>
    BY SaveStep
  <1>2. row.status = job[h].status /\ row.window = Target(s, job[h].window)
    OBVIOUS
  <1>3. {s} \in raced \/ Sound(s, job[h].status, job[h].window)
    BY <1>1 DEF TrackInv, PendingSound
  <1>4. \A g \in Workers \ {h} : job[g] # NoJob /\ job[g].sale = s => {s} \in raced
    <2> SUFFICES ASSUME NEW g \in Workers \ {h}, job[g] # NoJob, job[g].sale = s
                 PROVE  {s} \in raced
      OBVIOUS
    <2>1. s \in InFlight(g)
      BY <1>1 DEF InFlight
    <2>2. {s, s} \in raced
      BY <1>1, <2>1, OnlyOneHolds DEF TrackInv
    <2>3. {s, s} = {s}
      OBVIOUS
    <2> QED
      BY <2>2, <2>3
  <1>5. \A c \in opening : c.sale = s => {s} \in raced
    <2> SUFFICES ASSUME NEW c \in opening, c.sale = s
                 PROVE  {s} \in raced
      OBVIOUS
    <2>1. Opener \in Workers /\ h # Opener
      BY <1>1 DEF Workers, TrackInv, Shape
    <2>2. s \in InFlight(Opener)
      BY <1>1 DEF InFlight
    <2>3. {s, s} \in raced
      BY <1>1, <2>1, <2>2, OnlyOneHolds DEF TrackInv
    <2>4. {s, s} = {s}
      OBVIOUS
    <2> QED
      BY <2>3, <2>4
  <1> HIDE DEF row, s
  <1>6. RacesAreSeen'
    <2>1. \A g \in Workers : InFlight(g)' \subseteq InFlight(g)
      BY <1>1 DEF InFlight
    <2> QED
      BY <1>1, <2>1, RacesFade DEF TrackInv
  <1>7. Shape'
    BY <1>1 DEF TrackInv, Shape, Workers
  <1>8. PendingSound'
    <2> SUFFICES ASSUME NEW g \in Workers, job'[g] # NoJob
                 PROVE  ({job[g].sale} \in raced \/ Sound(job[g].sale, job[g].status, job[g].window))'
      BY DEF PendingSound
    <2>1. g # h /\ job'[g] = job[g] /\ job[g] # NoJob
      BY <1>1
    <2>2. job[g] \in Job /\ job[g].sale \in Sales
      BY <2>1, JobOf DEF LegalInv, Job
    <2>3. {job[g].sale} \in raced \/ Sound(job[g].sale, job[g].status, job[g].window)
      BY <2>1 DEF TrackInv, PendingSound
    <2>4. CASE job[g].sale = s
      BY <1>1, <1>4, <2>1, <2>4
    <2>5. CASE job[g].sale # s
      BY <1>1, <2>1, <2>2, <2>3, <2>5 DEF Sound, Target
    <2> QED
      BY <2>4, <2>5
  <1>9. ListsSound'
    <2>1. \A c \in opening : c.sale \in Sales
      BY DEF LegalInv, SalesTypeOK, Copy
    <2>2. \A c \in opening' : {c.sale} \notin raced' => sale'[c.sale] = sale[c.sale]
      BY <1>1, <1>5, <2>1
    <2>3. closing \subseteq Sales
      BY DEF LegalInv, SalesTypeOK
    <2>4. s \in closing /\ {s} \notin raced => row.status \notin {"absent", "scheduled"}
      <3>1. job[h].status \in Statuses
        BY <1>1 DEF Job
      <3> QED
        BY <1>2, <1>3, <3>1 DEF Sound, TrackInv, ListsSound, Orderable, Statuses
    <2>5. \A t \in closing' : {t} \notin raced' => sale'[t].status \notin {"absent", "scheduled"}
      BY <1>1, <2>3, <2>4 DEF TrackInv, ListsSound
    <2>6. \A c \in opening' :
            {c.sale} \notin raced' => sale'[c.sale] = [status |-> "scheduled", window |-> c.window]
      BY <1>1, <2>2 DEF TrackInv, ListsSound
    <2> QED
      BY <2>5, <2>6 DEF ListsSound
  <1>10. LiveHasStarted'
    BY <1>1, <1>2, <1>3 DEF TrackInv, LiveHasStarted, Sound
  <1> QED
    BY <1>6, <1>7, <1>8, <1>9, <1>10 DEF TrackInv

LEMMA TrackNext == LegalInv /\ TrackInv /\ [SalesNext]_salesVars => TrackInv'
  <1> SUFFICES ASSUME LegalInv, TrackInv, [SalesNext]_salesVars PROVE TrackInv'
    OBVIOUS
  <1>1. now \in Int /\ now + 1 \in Int /\ now <= now + 1
    BY DEF LegalInv, SalesTypeOK, Times
  <1>2. ASSUME UNCHANGED <<sale, raced>>, now' = now \/ now' = now + 1, job' = job,
               opening' \subseteq opening,
               closing' \subseteq closing \/ closing' = Late
        PROVE  TrackInv'
    BY <1>1, <1>2, TrackQuiet
  <1>3. ASSUME NEW h \in Workers, Crash(h) PROVE TrackInv'
    <2>1. \A g \in Workers : job'[g] \in {job[g], NoJob}
      BY <1>3, JobStep DEF Crash, LegalInv
    <2> QED
      BY <1>1, <1>3, <2>1, TrackQuiet DEF Crash
  <1>4. CASE CloserRead \/ TasksCrash \/ Tick \/ UNCHANGED salesVars
    BY <1>2, <1>4 DEF CloserRead, TasksCrash, Tick, salesVars
  <1>5. ASSUME NEW s \in Sales, PlaceOrder(s) PROVE TrackInv'
    BY <1>2, <1>5 DEF PlaceOrder
  <1> QED
    BY <1>3, <1>4, <1>5, TrackRequest, TrackSave, TrackOpenerRead, TrackOpenerNext,
       TrackCloserNext DEF SalesNext

(* Whatever runs at the same time, a live sale has begun unless it was     *)
(* itself in flight twice, as when an edit moves a sale that the task is   *)
(* opening (tasks.py, crud.py).                                            *)
THEOREM SalesLiveStarted == SalesSpec => []LiveHasStarted
  <1> DEFINE Inv == LegalInv /\ TrackInv
  <1>1. SalesInit => Inv
    BY LegalInitial, TrackInitial
  <1>2. Inv /\ [SalesNext]_salesVars => Inv'
    BY LegalNext, TrackNext
  <1>3. Inv => LiveHasStarted
    BY DEF TrackInv
  <1> QED
    BY <1>1, <1>2, <1>3, PTL DEF SalesSpec

(* A step that takes a sale back to an earlier status saves what was read  *)
(* when another worker had that sale in flight.                            *)
LEMMA BackIsRaced ==
  ASSUME LegalInv, TrackInv, [SalesNext]_salesVars, NEW s \in Sales,
         sale'[s].status \in Earlier(sale[s].status)
  PROVE  {s} \in raced
  <1>1. /\ sale'[s].status \in Orderable
        /\ sale[s].status \notin {"absent", "scheduled"}
        /\ sale'[s].status # sale[s].status
    BY DEF Earlier, Orderable
  <1>2. ASSUME NEW h \in Workers, Save(h) PROVE {s} \in raced
    <2>0. /\ job[h] # NoJob
          /\ sale'[s] = IF s = job[h].sale
                          THEN [status |-> job[h].status,
                                window |-> Target(job[h].sale, job[h].window)]
                          ELSE sale[s]
      BY <1>2, SaveStep
    <2>1. s = job[h].sale /\ sale'[s].status = job[h].status /\ job[h] # NoJob
      BY <1>1, <2>0
    <2> QED
      BY <1>1, <2>1 DEF TrackInv, PendingSound, Sound
  <1>3. ASSUME NEW t \in Sales, CloserNext(t) PROVE FALSE
    <2>1. sale'[s] = IF s = t THEN [sale[s] EXCEPT !.status = "closed"] ELSE sale[s]
      BY <1>3 DEF CloserNext, LegalInv, SalesTypeOK
    <2>2. sale[s] \in Row
      BY DEF LegalInv, SalesTypeOK
    <2>3. s = t => sale'[s].status = "closed"
      BY <2>1, <2>2 DEF Row
    <2> QED
      BY <1>1, <2>1, <2>3 DEF Orderable
  <1>4. ASSUME sale' = sale PROVE FALSE
    BY <1>1, <1>4
  <1>5. ASSUME NEW h \in Handlers, NEW t \in Sales,
               \/ OpenSale(h, t) \/ CloseSale(h, t) \/ CancelSale(h, t)
               \/ \E from \in Sales : Clone(h, t, from)
               \/ \E w \in Span : Create(h, t, w) \/ Update(h, t, w)
        PROVE  FALSE
    BY <1>4, <1>5 DEF OpenSale, CloseSale, CancelSale, Clone, Create, Update, WillSave
  <1>6. ASSUME NEW c \in opening, OpenerNext(c) PROVE FALSE
    BY <1>4, <1>6 DEF OpenerNext, WillSave
  <1>7. ASSUME NEW h \in Workers, Crash(h) PROVE FALSE
    BY <1>4, <1>7 DEF Crash
  <1>8. CASE OpenerRead \/ CloserRead \/ TasksCrash \/ Tick \/ UNCHANGED salesVars
    BY <1>4, <1>8 DEF OpenerRead, CloserRead, TasksCrash, Tick, salesVars
  <1>9. ASSUME NEW t \in Sales, PlaceOrder(t) PROVE FALSE
    BY <1>4, <1>9 DEF PlaceOrder
  <1> QED
    BY <1>2, <1>3, <1>5, <1>6, <1>7, <1>8, <1>9 DEF SalesNext

(* A sale that was opened, closed or cancelled goes back only when it was  *)
(* itself in flight twice, for any number of requests and tasks.           *)
THEOREM SalesNeverBack == SalesSpec => NoWayBack
  <1> DEFINE Inv == LegalInv /\ TrackInv
             Back == \A s \in Sales : sale'[s].status \in Earlier(sale[s].status) => {s} \in raced
  <1>1. SalesInit => Inv
    BY LegalInitial, TrackInitial
  <1>2. Inv /\ [SalesNext]_salesVars => Inv'
    BY LegalNext, TrackNext
  <1>3. Inv /\ [SalesNext]_salesVars => [Back]_salesVars
    BY BackIsRaced
  <1> QED
    BY <1>1, <1>2, <1>3, PTL DEF SalesSpec, NoWayBack

(***************************************************************************)
(* The slots, the days and the quota.                                      *)
(***************************************************************************)
Mover(h)  == job[h] # NoJob /\ job[h].window # Kept
Claims(h) == job[h] # NoJob /\ job[h].status \in Orderable

(* Sales that take orders, or may by a save that leaves their window.      *)
Hold ==
  {s \in Sales : \/ s \in Open
                 \/ \E c \in opening : c.sale = s
                 \/ \E h \in Workers : Claims(h) /\ ~Mover(h) /\ job[h].sale = s}

(* Sales that take orders, or may by any save. *)
Claimed == {s \in Sales : s \in Hold \/ \E h \in Workers : Claims(h) /\ job[h].sale = s}

HoldDisjoint ==
  \A s, t \in Hold : s # t /\ {s, t} \notin raced => ~Overlap(sale[s].window, sale[t].window)

(* The window that h is about to save is free of the sales it did not race. *)
FreeFor(s, w) == \A t \in Hold \ {s} : {s, t} \notin raced => ~Overlap(w, sale[t].window)

WithinDay ==
  \A S \in SUBSET Hold : Unraced(S) => \A d \in Int : Cardinality(S \cap OfDay(d)) <= MaxDailySales

(* Its day has room next to any sales that were not raced. *)
RoomFor(s, w) ==
  \A S \in SUBSET (Hold \ {s}) :
    Unraced(S \cup {s}) => Cardinality(S \cap OfDay(DayOf(w))) < MaxDailySales

MoversFit ==
  \A h \in Workers :
    Mover(h) => FreeFor(job[h].sale, job[h].window) /\ RoomFor(job[h].sale, job[h].window)

WithinQuota == \A S \in SUBSET Claimed : Unraced(S) => Cardinality(S) <= Quota

RoomInv == HoldDisjoint /\ WithinDay /\ MoversFit /\ WithinQuota

LEMMA RoomInitial == SalesInit => RoomInv
  <1> SUFFICES ASSUME SalesInit PROVE RoomInv
    OBVIOUS
  <1>1. \A h \in Workers : job[h] = NoJob
    BY DEF SalesInit
  <1>2. Hold = {}
    BY <1>1 DEF SalesInit, Hold, Open, Orderable, Absent, Claims
  <1>3. Claimed = {}
    BY <1>1, <1>2 DEF Claimed, Claims
  <1>4. Cardinality({}) = 0 /\ Quota >= 0 /\ MaxDailySales >= 0
    BY FS_EmptySet, SalesAssumption
  <1>5. WithinQuota /\ WithinDay
    <2>1. ASSUME NEW S \in SUBSET Hold PROVE \A d \in Int : S \cap OfDay(d) = {}
      BY <1>2, <2>1
    <2> QED
      BY <1>3, <1>4, <2>1 DEF WithinQuota, WithinDay
  <1> QED
    BY <1>1, <1>2, <1>5 DEF RoomInv, HoldDisjoint, MoversFit, Mover

(* Subsets of the sales can be counted. *)
LEMMA SalesCount ==
  ASSUME NEW S \in SUBSET Sales, NEW T \in SUBSET S
  PROVE  /\ IsFiniteSet(S) /\ Cardinality(S) \in Nat
         /\ Cardinality(T) \in Nat /\ Cardinality(T) <= Cardinality(S)
  <1>1. IsFiniteSet(S)
    BY SalesAssumption, FS_Subset
  <1>2. IsFiniteSet(T) /\ Cardinality(T) <= Cardinality(S)
    BY <1>1, FS_Subset
  <1> QED
    BY <1>1, <1>2, FS_CardinalityType

(* A set with one sale more. *)
LEMMA OneMore ==
  ASSUME NEW S \in SUBSET Sales, NEW s \in Sales
  PROVE  Cardinality(S) <= Cardinality(S \ {s}) + 1
  <1>1. IsFiniteSet(S \ {s}) /\ Cardinality(S \ {s}) \in Nat
    BY SalesCount
  <1>2. Cardinality((S \ {s}) \cup {s}) = Cardinality(S \ {s}) + 1
    BY <1>1, FS_AddElement
  <1>3. S \subseteq (S \ {s}) \cup {s} /\ (S \ {s}) \cup {s} \in SUBSET Sales
    OBVIOUS
  <1>4. Cardinality(S) <= Cardinality((S \ {s}) \cup {s})
    BY <1>3, SalesCount
  <1> QED
    BY <1>2, <1>4

LEMMA UnracedBefore ==
  ASSUME raced \subseteq raced', NEW S, Unraced(S)'
  PROVE  Unraced(S)
  BY DEF Unraced

(* Fewer sales to look at, windows as before, and no new save that moves.  *)
LEMMA RoomKept ==
  ASSUME RoomInv, Hold' \subseteq Hold, Claimed' \subseteq Claimed, raced \subseteq raced',
         \A t \in Sales : sale'[t].window = sale[t].window,
         \A g \in Workers : Mover(g)' => Mover(g) /\ job'[g] = job[g]
  PROVE  RoomInv'
  <1>1. Hold \subseteq Sales /\ \A d : OfDay(d)' = OfDay(d)
    BY DEF Hold, OfDay, DayOf
  <1>2. HoldDisjoint'
    BY <1>1 DEF RoomInv, HoldDisjoint, Overlap
  <1>3. WithinDay'
    <2> SUFFICES ASSUME NEW S \in SUBSET Hold, Unraced(S)', NEW d \in Int
                 PROVE  Cardinality(S \cap OfDay(d)) <= MaxDailySales
      BY <1>1 DEF WithinDay
    <2>1. Unraced(S)
      BY UnracedBefore
    <2> QED
      BY <2>1 DEF RoomInv, WithinDay
  <1>4. MoversFit'
    <2> SUFFICES ASSUME NEW g \in Workers, Mover(g)'
                 PROVE  (FreeFor(job[g].sale, job[g].window) /\ RoomFor(job[g].sale, job[g].window))'
      BY DEF MoversFit
    <2>1. /\ Mover(g) /\ job'[g] = job[g]
          /\ FreeFor(job[g].sale, job[g].window) /\ RoomFor(job[g].sale, job[g].window)
      BY DEF RoomInv, MoversFit
    <2>2. FreeFor(job[g].sale, job[g].window)'
      BY <1>1, <2>1 DEF FreeFor, Overlap
    <2>3. RoomFor(job[g].sale, job[g].window)'
      <3> SUFFICES ASSUME NEW S \in SUBSET (Hold' \ {job[g].sale}), Unraced(S \cup {job[g].sale})'
                   PROVE  Cardinality(S \cap OfDay(DayOf(job[g].window))) < MaxDailySales
        BY <1>1, <2>1 DEF RoomFor, DayOf
      <3>1. Unraced(S \cup {job[g].sale})
        BY <2>1 DEF Unraced
      <3>2. S \in SUBSET (Hold \ {job[g].sale})
        BY <2>1
      <3> QED
        BY <2>1, <3>1, <3>2 DEF RoomFor
    <2> QED
      BY <2>2, <2>3
  <1>5. WithinQuota'
    BY UnracedBefore DEF RoomInv, WithinQuota
  <1> QED
    BY <1>2, <1>3, <1>4, <1>5 DEF RoomInv

LEMMA RoomQuiet ==
  ASSUME RoomInv, Open' \subseteq Open, raced \subseteq raced',
         \A t \in Sales : sale'[t].window = sale[t].window,
         \A c \in opening' : c \in opening \/ c.sale \in Open,
         \A g \in Workers : job'[g] \in {job[g], NoJob}
  PROVE  RoomInv'
  <1>1. \A g \in Workers : /\ Mover(g)' => Mover(g) /\ job'[g] = job[g]
                           /\ Claims(g)' => Claims(g) /\ job'[g] = job[g]
    BY DEF Mover, Claims
  <1>2. Hold' \subseteq Hold
    BY <1>1 DEF Hold, Mover, Claims
  <1>3. Claimed' \subseteq Claimed
    BY <1>1, <1>2 DEF Claimed
  <1> QED
    BY <1>1, <1>2, <1>3, RoomKept

(* A worker prepares a save that leaves the window of its sale. *)
LEMMA RoomPrepareKept ==
  ASSUME LegalInv, RoomInv, NEW h \in Workers, NEW s \in Sales, NEW status,
         WillSave(h, s, status, Kept), opening' \subseteq opening,
         status \in Orderable => s \in Hold
  PROVE  RoomInv'
  <1> DEFINE j == [at |-> "save", sale |-> s, status |-> status, window |-> Kept]
  <1>1. j.sale = s /\ j.status = status /\ j.window = Kept
    OBVIOUS
  <1>2. /\ job' = [job EXCEPT ![h] = j]
        /\ raced \subseteq raced'
        /\ UNCHANGED <<now, sale, withOrders>>
    BY DEF WillSave, Races
  <1>3. \A g \in Workers : job'[g] = IF g = h THEN j ELSE job[g]
    BY <1>2, JobStep DEF LegalInv
  <1> HIDE DEF j
  <1>4. \A g \in Workers : Mover(g)' => Mover(g) /\ job'[g] = job[g]
    BY <1>1, <1>3 DEF Mover
  <1>5. \A g \in Workers \ {h} : /\ Claims(g)' => Claims(g) /\ job'[g] = job[g]
                                 /\ ~Mover(g)' => ~Mover(g) \/ job'[g] # job[g]
    BY <1>3 DEF Claims, Mover
  <1>6. Claims(h)' => s \in Hold /\ job'[h].sale = s
    BY <1>1, <1>3 DEF Claims
  <1>7. Hold' \subseteq Hold
    <2> SUFFICES ASSUME NEW t \in Hold' PROVE t \in Hold
      OBVIOUS
    <2>1. CASE t \in Open' \/ \E c \in opening' : c.sale = t
      BY <1>2, <2>1 DEF Open, Hold
    <2>2. ASSUME NEW g \in Workers, Claims(g)', ~Mover(g)', job'[g].sale = t PROVE t \in Hold
      BY <1>5, <1>6, <2>2 DEF Hold
    <2> QED
      BY <2>1, <2>2 DEF Hold
  <1>8. Claimed' \subseteq Claimed
    BY <1>5, <1>6, <1>7 DEF Claimed
  <1> QED
    BY <1>2, <1>4, <1>7, <1>8, RoomKept

(* What a request does not see among the others is in the hands of another *)
(* worker.                                                                 *)
LEMMA SeenOrElsewhere ==
  ASSUME NEW h \in Handlers, job[h] = NoJob, NEW s \in Sales, NEW t \in Claimed \ {s}
  PROVE  t \in Others(s) \/ t \in Elsewhere(h)
  <1>1. h \in Workers /\ Opener \in Workers \ {h}
    BY SalesAssumption DEF Workers
  <1>2. CASE t \in Open
    BY <1>2 DEF Open, Orderable, Others
  <1>3. CASE \E c \in opening : c.sale = t
    <2>1. t \in InFlight(Opener)
      BY <1>3 DEF InFlight, Claimed
    <2> QED
      BY <1>1, <2>1 DEF Elsewhere
  <1>4. ASSUME NEW g \in Workers, Claims(g), job[g].sale = t PROVE t \in Elsewhere(h)
    <2>1. t \in InFlight(g) /\ g # h
      BY <1>4 DEF InFlight, Claimed, Claims
    <2> QED
      BY <2>1 DEF Elsewhere
  <1> QED
    BY <1>2, <1>3, <1>4 DEF Claimed, Hold

(* A request prepares a save of a window that it checked. *)
LEMMA RoomPrepareMove ==
  ASSUME LegalInv, RoomInv, NEW h \in Handlers, NEW s \in Sales, NEW status \in Orderable,
         NEW w \in Span,
         WillSave(h, s, status, w), opening' = opening,
         CreationRules(s, w), s \in Open \/ QuotaLeft(s)
  PROVE  RoomInv'
  <1> DEFINE j == [at |-> "save", sale |-> s, status |-> status, window |-> w]
  <1>1. j.sale = s /\ j.status = status /\ j.window = w /\ w # Kept /\ h \in Workers
    BY KeptIsNoSpan DEF Workers
  <1>2. /\ job[h] = NoJob
        /\ job' = [job EXCEPT ![h] = j]
        /\ raced \subseteq raced'
        /\ \A t \in Elsewhere(h) : {s, t} \in raced'
        /\ UNCHANGED <<now, sale, withOrders>>
    BY DEF WillSave, Races
  <1>3. \A g \in Workers : job'[g] = IF g = h THEN j ELSE job[g]
    BY <1>1, <1>2, JobStep DEF LegalInv
  <1> HIDE DEF j
  <1>4. \A g \in Workers \ {h} : /\ Claims(g)' <=> Claims(g)
                                 /\ Mover(g)' <=> Mover(g)
                                 /\ job'[g] = job[g]
    BY <1>3 DEF Claims, Mover
  <1>5. ~Claims(h) /\ job'[h] = j
    BY <1>1, <1>2, <1>3 DEF Claims
  <1>6. ~(Claims(h)' /\ ~Mover(h)')
    BY <1>1, <1>5 DEF Mover, Claims, NoJob
  <1>7. Hold' = Hold
    BY <1>2, <1>4, <1>5, <1>6 DEF Hold, Open
  <1>8. Claimed' \subseteq Claimed \cup {s}
    BY <1>1, <1>4, <1>5, <1>7 DEF Claimed
  <1>9. Hold \subseteq Claimed /\ Claimed \subseteq Sales /\ Others(s) \subseteq Sales
    BY DEF Hold, Claimed, Others
  <1>10. \A t \in Claimed \ {s} : {s, t} \notin raced' => t \in Others(s)
    BY <1>2, SeenOrElsewhere
  <1>11. \A d : OfDay(d)' = OfDay(d) /\ OfDay(d) \subseteq Sales
    BY <1>2 DEF OfDay
  <1>12. HoldDisjoint' /\ WithinDay'
    BY <1>2, <1>7, <1>11, UnracedBefore DEF RoomInv, HoldDisjoint, WithinDay
  <1>13. FreeFor(s, w)'
    BY <1>2, <1>7, <1>9, <1>10 DEF FreeFor, CreationRules, SlotFree, Overlap
  <1>14. RoomFor(s, w)'
    <2> SUFFICES ASSUME NEW S \in SUBSET (Hold \ {s}), Unraced(S \cup {s})'
                 PROVE  Cardinality(S \cap OfDay(DayOf(w))) < MaxDailySales
      BY <1>7, <1>11 DEF RoomFor, DayOf
    <2>1. \A t \in S : {s, t} \notin raced'
      BY DEF Unraced
    <2>2. S \subseteq Others(s)
      BY <1>9, <1>10, <2>1
    <2>3. /\ S \cap OfDay(DayOf(w)) \in SUBSET (Others(s) \cap OfDay(DayOf(w)))
          /\ Others(s) \cap OfDay(DayOf(w)) \in SUBSET Sales
      BY <1>9, <2>2
    <2>4. /\ Cardinality(S \cap OfDay(DayOf(w))) <= Cardinality(Others(s) \cap OfDay(DayOf(w)))
          /\ Cardinality(S \cap OfDay(DayOf(w))) \in Nat
          /\ Cardinality(Others(s) \cap OfDay(DayOf(w))) \in Nat
      BY <2>3, SalesCount
    <2> QED
      BY <2>4, SalesAssumption DEF CreationRules, DayFree
  <1>15. MoversFit'
    <2> SUFFICES ASSUME NEW g \in Workers, Mover(g)'
                 PROVE  (FreeFor(job[g].sale, job[g].window) /\ RoomFor(job[g].sale, job[g].window))'
      BY DEF MoversFit
    <2>1. CASE g = h
      BY <1>1, <1>5, <1>13, <1>14, <2>1 DEF FreeFor, RoomFor
    <2>2. CASE g # h
      <3>1. /\ job'[g] = job[g]
            /\ FreeFor(job[g].sale, job[g].window) /\ RoomFor(job[g].sale, job[g].window)
        BY <1>4, <2>2 DEF RoomInv, MoversFit
      <3>2. FreeFor(job[g].sale, job[g].window)'
        BY <1>2, <1>7, <3>1 DEF FreeFor
      <3>3. RoomFor(job[g].sale, job[g].window)'
        <4> SUFFICES ASSUME NEW S \in SUBSET (Hold \ {job[g].sale}),
                            Unraced(S \cup {job[g].sale})'
                     PROVE  Cardinality(S \cap OfDay(DayOf(job[g].window))) < MaxDailySales
          BY <1>7, <1>11, <3>1 DEF RoomFor, DayOf
        <4>1. Unraced(S \cup {job[g].sale})
          BY <1>2, <3>1 DEF Unraced
        <4> QED
          BY <3>1, <4>1 DEF RoomFor
      <3> QED
        BY <3>2, <3>3
    <2> QED
      BY <2>1, <2>2
  <1>16. WithinQuota'
    <2> SUFFICES ASSUME NEW S \in SUBSET Claimed', Unraced(S)' PROVE Cardinality(S) <= Quota
      BY DEF WithinQuota
    <2>1. Unraced(S)
      BY <1>2, UnracedBefore
    <2>2. CASE S \subseteq Claimed
      BY <2>1, <2>2 DEF RoomInv, WithinQuota
    <2>3. CASE ~(S \subseteq Claimed)
      <3>1. s \in S /\ s \notin Claimed
        BY <1>8, <2>3
      <3>2. QuotaLeft(s)
        BY <3>1 DEF Claimed, Hold
      <3>3. \A t \in S \ {s} : t \in Claimed \ {s} /\ {s, t} \notin raced'
        BY <1>8, <3>1 DEF Unraced
      <3>4. S \ {s} \in SUBSET Others(s) /\ S \in SUBSET Sales /\ Others(s) \in SUBSET Sales
        BY <1>8, <1>9, <1>10, <3>3
      <3>5. /\ Cardinality(S) <= Cardinality(S \ {s}) + 1
            /\ Cardinality(S \ {s}) <= Cardinality(Others(s))
            /\ {Cardinality(S), Cardinality(S \ {s}), Cardinality(Others(s))} \subseteq Nat
        BY <3>4, OneMore, SalesCount
      <3> QED
        BY <3>2, <3>5, SalesAssumption DEF QuotaLeft
    <2> QED
      BY <2>2, <2>3
  <1> QED
    BY <1>12, <1>15, <1>16 DEF RoomInv

LEMMA RoomSave ==
  ASSUME LegalInv, TrackInv, RoomInv, NEW h \in Workers, Save(h)
  PROVE  RoomInv'
  <1> DEFINE s == job[h].sale
             w == Target(s, job[h].window)
             row == [status |-> job[h].status, window |-> w]
  <1>1. /\ job[h] # NoJob /\ job[h] \in Job /\ s \in Sales
        /\ \A g \in Workers : job'[g] = IF g = h THEN NoJob ELSE job[g]
        /\ \A t \in Sales : sale'[t] = IF t = s THEN row ELSE sale[t]
        /\ UNCHANGED <<now, withOrders, opening, closing, raced>>
    BY SaveStep
  <1>2. row.status = job[h].status /\ row.window = w
    OBVIOUS
  <1>3. /\ Claims(h) <=> row.status \in Orderable
        /\ Mover(h) => Claims(h) /\ w = job[h].window
        /\ ~Mover(h) => w = sale[s].window
    BY <1>1, <1>2 DEF Claims, Mover, Target, TrackInv, Shape
  <1>4. Mover(h) => FreeFor(s, w) /\ RoomFor(s, w)
    BY <1>3 DEF RoomInv, MoversFit
  <1>5. \A g \in Workers \ {h} : job'[g] # NoJob => {s, job[g].sale} \in raced
    <2> SUFFICES ASSUME NEW g \in Workers \ {h}, job'[g] # NoJob
                 PROVE  {s, job[g].sale} \in raced
      OBVIOUS
    <2>1. job[g] # NoJob /\ job[g].sale \in Sales
      BY <1>1, JobOf DEF LegalInv, Job
    <2>2. job[g].sale \in InFlight(g)
      BY <2>1 DEF InFlight
    <2> QED
      BY <1>1, <2>2, OnlyOneHolds DEF TrackInv
  <1> HIDE DEF row, w, s
  <1>6. \A g \in Workers : /\ Claims(g)' => g # h /\ Claims(g) /\ job'[g] = job[g]
                           /\ Mover(g)' => g # h /\ Mover(g) /\ job'[g] = job[g]
    BY <1>1 DEF Claims, Mover
  <1>7. s \in Claimed \/ ~Claims(h)
    BY <1>1 DEF Claimed, s
  <1>8. s \in Hold \/ ~Claims(h) \/ Mover(h)
    BY <1>1 DEF Hold, s
  <1>9. \A t \in Open' : t \in Open \/ (t = s /\ Claims(h))
    BY <1>1, <1>3 DEF Open
  <1>10. Hold' \subseteq Hold \cup {s} /\ (~Mover(h) => Hold' \subseteq Hold)
    <2>1. ASSUME NEW t \in Hold' PROVE t \in Hold \/ (t = s /\ Mover(h))
      <3>1. CASE t \in Open'
        BY <1>8, <1>9, <3>1 DEF Hold, Open
      <3>2. CASE \E c \in opening' : c.sale = t
        BY <1>1, <3>2 DEF Hold
      <3>3. ASSUME NEW g \in Workers, Claims(g)', ~Mover(g)', job'[g].sale = t
            PROVE  t \in Hold
        <4>1. Claims(g) /\ job'[g] = job[g] /\ ~Mover(g)
          BY <1>6, <3>3 DEF Mover
        <4> QED
          BY <3>3, <4>1 DEF Hold
      <3> QED
        BY <3>1, <3>2, <3>3 DEF Hold
    <2> QED
      BY <2>1
  <1>11. Claimed' \subseteq Claimed
    <2>1. ASSUME NEW t \in Claimed' PROVE t \in Claimed
      <3>1. CASE t \in Hold'
        <4>1. t \in Hold \/ (t = s /\ Mover(h))
          BY <1>10, <3>1
        <4> QED
          BY <1>3, <1>7, <4>1 DEF Claimed, Hold
      <3>2. CASE \E g \in Workers : Claims(g)' /\ job'[g].sale = t
        BY <1>6, <3>2 DEF Claimed
      <3> QED
        BY <3>1, <3>2 DEF Claimed
    <2> QED
      BY <2>1
  <1>12. CASE ~Mover(h)
    <2>1. \A t \in Sales : sale'[t].window = sale[t].window
      BY <1>1, <1>2, <1>3, <1>12
    <2> QED
      BY <1>1, <1>6, <1>10, <1>11, <1>12, <2>1, RoomKept
  <1>13. CASE Mover(h)
    <2>1. /\ \A t \in Sales \ {s} : sale'[t].window = sale[t].window
          /\ sale'[s].window = w
          /\ Hold \subseteq Sales /\ Hold' \subseteq Sales
      BY <1>1, <1>2 DEF Hold
    <2>2. HoldDisjoint'
      <3> SUFFICES ASSUME NEW t \in Hold', NEW u \in Hold', t # u, {t, u} \notin raced
                   PROVE  ~Overlap(sale'[t].window, sale'[u].window)
        BY <1>1 DEF HoldDisjoint, Overlap
      <3>1. CASE t = s
        BY <1>4, <1>10, <1>13, <2>1, <3>1 DEF FreeFor, Overlap
      <3>2. CASE u = s
        <4>1. {u, t} \notin raced
          <5>1. {u, t} = {t, u}
            OBVIOUS
          <5> QED
            BY <5>1
        <4> QED
          BY <1>4, <1>10, <1>13, <2>1, <3>2, <4>1 DEF FreeFor, Overlap
      <3>3. CASE t # s /\ u # s
        BY <1>10, <2>1, <3>3 DEF RoomInv, HoldDisjoint, Overlap
      <3> QED
        BY <3>1, <3>2, <3>3
    <2>3. \A d : OfDay(d)' \ {s} = OfDay(d) \ {s} /\ OfDay(d)' \subseteq Sales
      BY <2>1 DEF OfDay, DayOf
    <2>4. WithinDay'
      <3> SUFFICES ASSUME NEW S \in SUBSET Hold', Unraced(S), NEW d \in Int
                   PROVE  Cardinality(S \cap OfDay(d)') <= MaxDailySales
        BY <1>1 DEF WithinDay, Unraced
      <3> DEFINE T == S \cap OfDay(d)'
                 O == S \ {s}
      <3>1. O \in SUBSET Hold /\ O \in SUBSET (Hold \ {s}) /\ Unraced(O)
        BY <1>10 DEF Unraced
      <3>2. T \ {s} = O \cap OfDay(d) /\ T \in SUBSET Sales
        BY <2>1, <2>3
      <3>3. /\ Cardinality(T) <= Cardinality(T \ {s}) + 1
            /\ Cardinality(T) \in Nat /\ Cardinality(T \ {s}) \in Nat
        BY <1>1, <3>2, OneMore, SalesCount
      <3>4. CASE s \in T
        <4>1. DayOf(w) = d
          BY <2>1, <3>4 DEF OfDay, DayOf
        <4>2. Unraced(O \cup {s})
          BY <3>4 DEF Unraced
        <4>3. Cardinality(O \cap OfDay(d)) < MaxDailySales
          BY <1>4, <1>13, <3>1, <4>1, <4>2 DEF RoomFor
        <4> QED
          BY <3>2, <3>3, <4>3, SalesAssumption
      <3>5. CASE s \notin T
        <4>1. T = O \cap OfDay(d)
          BY <3>2, <3>5
        <4>2. Cardinality(O \cap OfDay(d)) <= MaxDailySales
          BY <3>1 DEF RoomInv, WithinDay
        <4> QED
          BY <4>1, <4>2
      <3> QED
        BY <3>4, <3>5
    <2>5. MoversFit'
      <3> SUFFICES ASSUME NEW g \in Workers, Mover(g)'
                   PROVE  (FreeFor(job[g].sale, job[g].window) /\ RoomFor(job[g].sale, job[g].window))'
        BY DEF MoversFit
      <3>1. /\ g # h /\ job'[g] = job[g]
            /\ {s, job[g].sale} \in raced
            /\ FreeFor(job[g].sale, job[g].window) /\ RoomFor(job[g].sale, job[g].window)
        BY <1>5, <1>6 DEF RoomInv, MoversFit, Mover
      <3> DEFINE u == job[g].sale
                 v == job[g].window
      <3>2. {u, s} \in raced
        <4>1. {u, s} = {s, u}
          OBVIOUS
        <4> QED
          BY <3>1, <4>1
      <3> HIDE DEF u, v
      <3>3. FreeFor(u, v) /\ RoomFor(u, v) /\ job'[g].sale = u /\ job'[g].window = v
        BY <3>1 DEF u, v
      <3>4. \A t \in Hold' \ {u} : {u, t} \notin raced => ~Overlap(v, sale'[t].window)
        BY <1>10, <2>1, <3>2, <3>3 DEF FreeFor
      <3>5. ASSUME NEW S \in SUBSET (Hold' \ {u}), Unraced(S \cup {u}), NEW d, d = DayOf(v)
            PROVE  Cardinality(S \cap OfDay(d)') < MaxDailySales
        <4>1. s \notin S
          BY <3>2, <3>5 DEF Unraced
        <4>2. S \in SUBSET (Hold \ {u}) /\ S \cap OfDay(d)' = S \cap OfDay(d)
          BY <1>10, <2>3, <3>5, <4>1
        <4> QED
          BY <3>3, <3>5, <4>2 DEF RoomFor
      <3>6. FreeFor(job[g].sale, job[g].window)'
        BY <1>1, <3>3, <3>4 DEF FreeFor, Overlap
      <3>7. RoomFor(job[g].sale, job[g].window)'
        <4> SUFFICES ASSUME NEW S \in SUBSET (Hold' \ {u}), Unraced(S \cup {u}),
                            NEW d, d = DayOf(v)
                     PROVE  Cardinality(S \cap OfDay(d)') < MaxDailySales
          BY <1>1, <3>3 DEF RoomFor, DayOf, Unraced, OfDay
        <4> QED
          BY <3>5
      <3> QED
        BY <3>6, <3>7
    <2>6. WithinQuota'
      BY <1>1, <1>11 DEF RoomInv, WithinQuota, Unraced
    <2> QED
      BY <2>2, <2>4, <2>5, <2>6 DEF RoomInv
  <1> QED
    BY <1>12, <1>13

LEMMA RoomRequest ==
  ASSUME LegalInv, RoomInv, NEW h \in Handlers, NEW s \in Sales,
         \/ OpenSale(h, s) \/ CloseSale(h, s) \/ CancelSale(h, s)
         \/ \E from \in Sales : Clone(h, s, from)
         \/ \E w \in Span : Create(h, s, w) \/ Update(h, s, w)
  PROVE  RoomInv'
  <1>1. h \in Workers /\ "scheduled" \in Orderable /\ "live" \in Orderable
    BY DEF Workers, Orderable
  <1>2. opening' = opening /\ opening' \subseteq opening
    BY DEF OpenSale, CloseSale, CancelSale, Clone, Create, Update
  <1>3. sale[s].status = "scheduled" => s \in Open /\ s \in Hold /\ sale[s].window \in Span
    BY <1>1 DEF Open, Hold, LegalInv, SalesTypeOK, Row
  <1>4. ASSUME NEW w \in Span, NEW status \in Orderable, WillSave(h, s, status, w),
               CreationRules(s, w), s \in Open \/ QuotaLeft(s)
        PROVE  RoomInv'
    BY <1>2, <1>4, RoomPrepareMove
  <1>5. CASE OpenSale(h, s)
    <2> DEFINE v == sale[s].window
    <2>1. /\ s \in Open /\ s \in Hold /\ v \in Span /\ Legal(v)
          /\ OpeningRules(s, v) /\ WillSave(h, s, "live", Opening(v))
      BY <1>3, <1>5 DEF OpenSale, LegalInv, WindowIsLegal, Exists
    <2>2. CASE now < v.start
      <3>1. Advanced(v) \in Span
        BY <2>1, <2>2, AdvancedSpan DEF LegalInv
      <3> QED
        BY <1>1, <1>4, <2>1, <2>2, <3>1 DEF Opening, OpeningRules
    <2>3. CASE ~(now < v.start)
      BY <1>1, <1>2, <2>1, <2>3, RoomPrepareKept DEF Opening
    <2> QED
      BY <2>2, <2>3
  <1>6. CASE CloseSale(h, s) \/ CancelSale(h, s)
    <2>1. "closed" \notin Orderable /\ "cancelled" \notin Orderable
      BY DEF Orderable
    <2> QED
      BY <1>1, <1>2, <1>6, <2>1, RoomPrepareKept DEF CloseSale, CancelSale
  <1>7. ASSUME NEW from \in Sales, Clone(h, s, from) PROVE RoomInv'
    BY <1>1, <1>4, <1>7, LaterSpan DEF Clone, LegalInv
  <1>8. ASSUME NEW w \in Span, Create(h, s, w) PROVE RoomInv'
    BY <1>1, <1>4, <1>8 DEF Create
  <1>9. ASSUME NEW w \in Span, Update(h, s, w) PROVE RoomInv'
    BY <1>1, <1>3, <1>4, <1>9 DEF Update
  <1> QED
    BY <1>5, <1>6, <1>7, <1>8, <1>9

LEMMA RoomOpenerNext ==
  ASSUME LegalInv, TrackInv, RoomInv, NEW c \in opening, OpenerNext(c)
  PROVE  RoomInv'
  <1>1. c.sale \in Sales /\ c.window \in Span /\ c.window.start <= now /\ now \in Int
    BY DEF LegalInv, SalesTypeOK, Copy, TrackInv, Shape, Times
  <1>2. Opening(c.window) = Kept
    BY <1>1 DEF Opening, Span, Times
  <1>3. opening' \subseteq opening
    BY DEF OpenerNext
  <1>4. CASE OpeningRules(c.sale, c.window)
    <2>1. WillSave(Opener, c.sale, "live", Kept) /\ Opener \in Workers
      BY <1>2, <1>4 DEF OpenerNext, Workers
    <2>2. c.sale \in Hold
      BY <1>1 DEF Hold
    <2> QED
      BY <1>1, <1>3, <2>1, <2>2, RoomPrepareKept
  <1>5. CASE ~OpeningRules(c.sale, c.window)
    <2>1. UNCHANGED <<now, sale, job, raced>>
      BY <1>5 DEF OpenerNext
    <2>2. Open' = Open
      BY <2>1 DEF Open
    <2> QED
      BY <1>3, <2>1, <2>2, RoomQuiet
  <1> QED
    BY <1>4, <1>5

LEMMA RoomNext == LegalInv /\ TrackInv /\ RoomInv /\ [SalesNext]_salesVars => RoomInv'
  <1> SUFFICES ASSUME LegalInv, TrackInv, RoomInv, [SalesNext]_salesVars PROVE RoomInv'
    OBVIOUS
  <1>1. ASSUME UNCHANGED sale, raced \subseteq raced',
               \A c \in opening' : c \in opening \/ c.sale \in Open,
               \A g \in Workers : job'[g] \in {job[g], NoJob}
        PROVE  RoomInv'
    <2>1. Open' = Open
      BY <1>1 DEF Open
    <2> QED
      BY <1>1, <2>1, RoomQuiet
  <1>2. ASSUME NEW h \in Workers, Crash(h) PROVE RoomInv'
    <2>1. \A g \in Workers : job'[g] \in {job[g], NoJob}
      BY <1>2, JobStep DEF Crash, LegalInv
    <2> QED
      BY <1>1, <1>2, <2>1 DEF Crash
  <1>3. CASE OpenerRead
    <2>1. \A c \in opening' : c.sale \in Open
      BY <1>3 DEF OpenerRead, Due, Open, Orderable
    <2> QED
      BY <1>1, <1>3, <2>1 DEF OpenerRead, Races
  <1>4. ASSUME NEW s \in Sales, CloserNext(s) PROVE RoomInv'
    <2>1. /\ sale' = [sale EXCEPT ![s].status = "closed"]
          /\ UNCHANGED <<job, opening, raced>>
      BY <1>4 DEF CloserNext
    <2>2. \A t \in Sales : /\ sale'[t].window = sale[t].window
                           /\ sale'[t].status = IF t = s THEN "closed" ELSE sale[t].status
      BY <2>1 DEF LegalInv, SalesTypeOK, Row
    <2>3. Open' \subseteq Open
      BY <2>2 DEF Open, Orderable
    <2> QED
      BY <2>1, <2>2, <2>3, RoomQuiet
  <1>5. CASE CloserRead \/ TasksCrash \/ Tick \/ UNCHANGED salesVars
    BY <1>1, <1>5 DEF CloserRead, TasksCrash, Tick, salesVars
  <1>6. ASSUME NEW s \in Sales, PlaceOrder(s) PROVE RoomInv'
    BY <1>1, <1>6 DEF PlaceOrder
  <1> QED
    BY <1>2, <1>3, <1>4, <1>5, <1>6, RoomRequest, RoomSave, RoomOpenerNext DEF SalesNext

LEMMA RoomHolds == SalesSpec => [](LegalInv /\ RoomInv)
  <1> DEFINE Inv == LegalInv /\ TrackInv /\ RoomInv
  <1>1. SalesInit => Inv
    BY LegalInitial, TrackInitial, RoomInitial
  <1>2. Inv /\ [SalesNext]_salesVars => Inv'
    BY LegalNext, TrackNext, RoomNext
  <1> QED
    BY <1>1, <1>2, PTL DEF SalesSpec

(* Any number of requests and tasks at once leave two sales that take      *)
(* orders in windows that meet only if these two were in flight together.  *)
THEOREM SalesDisjoint == SalesSpec => []OrderableDisjoint
  <1>1. LegalInv /\ RoomInv => OrderableDisjoint
    <2> SUFFICES ASSUME RoomInv, NEW s \in Open, NEW t \in Open, Unraced({s, t}), s # t
                 PROVE  ~Overlap(sale[s].window, sale[t].window)
      BY DEF OrderableDisjoint
    <2>1. s \in Hold /\ t \in Hold /\ {s, t} \notin raced
      BY DEF Hold, Open, Unraced
    <2> QED
      BY <2>1 DEF RoomInv, HoldDisjoint
  <1> QED
    BY <1>1, RoomHolds, PTL

(* Sales that were not in flight together keep to the plan and, each day,  *)
(* to the limit of the day, whatever path led there: a creation, a clone,  *)
(* an edit that moves a sale to another day without a look at the plan, or *)
(* an opening that moves its window (rules.py).                            *)
THEOREM SalesLimits == SalesSpec => []SalesWithinLimits
  <1>1. LegalInv /\ RoomInv => SalesWithinLimits
    <2> SUFFICES ASSUME RoomInv, NEW S \in SUBSET Open, Unraced(S)
                 PROVE  /\ Cardinality(S) <= Quota
                        /\ \A d \in Times : Cardinality(S \cap OfDay(d)) <= MaxDailySales
      BY DEF SalesWithinLimits
    <2>1. S \in SUBSET Hold /\ S \in SUBSET Claimed
      BY DEF Hold, Claimed, Open
    <2>2. Times \subseteq Int
      BY DEF Times
    <2> QED
      BY <2>1, <2>2 DEF RoomInv, WithinDay, WithinQuota
  <1> QED
    BY <1>1, RoomHolds, PTL
=============================================================================
