---------------------------- MODULE LedgerProofs ----------------------------
(***************************************************************************)
(* The properties of the two device ledgers, proved.  SolarLedger's for    *)
(* every backlog, wrap and clock error the assumption allows: a day number *)
(* that comes round is told from the day it stands for by the dates, and   *)
(* the fold leaves one row a day.  RingLedger's for every ring, frame,     *)
(* overlap and cap: a run is placed by the bytes it shares with the        *)
(* ledger, and no placing but the right one survives an overlap longer     *)
(* than the pack's stretches of equal bytes.                               *)
(***************************************************************************)
EXTENDS SolarLedger, RingLedger, FiniteSetTheorems, WellFoundedInduction, TLAPS

-----------------------------------------------------------------------------
(* The solar ledger. *)

-----------------------------------------------------------------------------
(* The inductive invariant. *)

Rows == [seq : Nat, date : Int, day : Days, figure : 1 .. LastFigure]

Readings == [daysAgo : 0 .. Backlog - 1, day : Days, figure : 0 .. LastFigure]

Sweeps ==
  [stage : {"none", "totals", "days", "read"}, next : 0 .. Backlog, count : 0 .. Backlog,
   days : SUBSET Readings, whole : BOOLEAN, began : Nat]

Near(date, day) == date - day \in -MaxError .. MaxError + 1

\* One row a day, each near its date, numbered from the first.
Ledgers ==
  {ledger \in Seq(Rows) :
     /\ \A n \in DOMAIN ledger :
          ledger[n].seq = n - 1 /\ Near(ledger[n].date, ledger[n].day)
     /\ \A m, n \in DOMAIN ledger : ledger[m].day = ledger[n].day => m = n}

\* One answer a register, each of the day its register held when the sweep began or
\* of the day it holds now.
Answered(days, began, now) ==
  /\ \A one, other \in days : one.daysAgo = other.daysAgo => one = other
  /\ \A reading \in days : reading.day + reading.daysAgo \in {began, now}

\* A sweep outlives one midnight at most.
SweepIsRecent ==
  sweep.stage # "none" => sweep.began \in Days /\ sweep.began \in {today - 1, today}

\* What is yet to be asked for is of a day there has been.
AsksForDays ==
  sweep.stage = "days" =>
    /\ sweep.count <= today /\ sweep.next <= sweep.count
    /\ \A reading \in sweep.days : reading.daysAgo < sweep.next

NothingReadYet ==
  sweep.stage \in {"none", "totals"} => sweep.days = {} /\ sweep.next = 0

IInv ==
  /\ today \in Days /\ figures \in [Days -> 0 .. LastFigure] /\ sweeps \in 0 .. MaxSweeps
  /\ sweep \in Sweeps /\ rows \in Ledgers
  /\ Answered(sweep.days, sweep.began, today)
  /\ SweepIsRecent /\ AsksForDays /\ NothingReadYet

-----------------------------------------------------------------------------
(* Arithmetic. *)

LEMMA Constants ==
  /\ Backlog \in Nat \ {0} /\ Wrap \in Nat \ {0} /\ LastFigure \in Nat \ {0}
  /\ LastDay \in Nat \ {0} /\ MaxSweeps \in Nat \ {0} /\ MaxError \in Nat
  /\ Wrap > Backlog + 2 * MaxError + 1 /\ Backlog >= 2 * MaxError + 1
  BY SolarLedgerAssumption

LEMMA AtLeastOnce ==
  ASSUME NEW w \in Nat, NEW k \in Nat, k > 0
  PROVE  w * k >= w
  OBVIOUS

\* Two days less than a wrap apart have one number only if they are one.
LEMMA NumberTells ==
  ASSUME NEW a \in Nat, NEW b \in Nat, NEW w \in Nat, w > 0, a % w = b % w,
         a - b < w, b - a < w
  PROVE  a = b
<1>1. /\ a = w * (a \div w) + (a % w) /\ a \div w \in Nat
      /\ b = w * (b \div w) + (b % w) /\ b \div w \in Nat /\ a % w \in Nat
  OBVIOUS
<1> DEFINE p == a \div w
           q == b \div w
<1>2. CASE p = q
  BY <1>1, <1>2
<1>3. CASE p > q
  <2>1. p - q \in Nat /\ p - q > 0 /\ a - b = w * (p - q)
    BY <1>1, <1>3
  <2> QED BY <2>1, AtLeastOnce
<1>4. CASE q > p
  <2>1. q - p \in Nat /\ q - p > 0 /\ b - a = w * (q - p)
    BY <1>1, <1>4
  <2> QED BY <2>1, AtLeastOnce
<1> QED BY <1>1, <1>2, <1>3, <1>4

-----------------------------------------------------------------------------
(* The fold. *)

\* A later ledger: rows stay where they are, and keep their day and their date.
Kept(ledger, later) ==
  /\ later \in Ledgers /\ DOMAIN ledger \subseteq DOMAIN later
  /\ \A n \in DOMAIN ledger :
       later[n].day = ledger[n].day /\ later[n].date = ledger[n].date

Holds(ledger, reading) ==
  \E n \in DOMAIN ledger :
    ledger[n].day = reading.day /\ ledger[n].figure = reading.figure

LEMMA LedgerFacts ==
  ASSUME NEW ledger \in Ledgers
  PROVE  /\ ledger \in Seq(Rows) /\ DOMAIN ledger = 1 .. Len(ledger) /\ Len(ledger) \in Nat
         /\ \A n \in DOMAIN ledger :
              /\ ledger[n] \in Rows /\ ledger[n].seq = n - 1
              /\ ledger[n].day \in Nat /\ ledger[n].date \in Int
              /\ Near(ledger[n].date, ledger[n].day)
         /\ \A m, n \in DOMAIN ledger : ledger[m].day = ledger[n].day => m = n
<1>1. ledger \in Seq(Rows)
  BY DEF Ledgers
<1>2. DOMAIN ledger = 1 .. Len(ledger) /\ Len(ledger) \in Nat
  BY <1>1
<1>3. \A n \in DOMAIN ledger : ledger[n] \in Rows
  BY <1>1
<1>4. \A row \in Rows : row.day \in Nat /\ row.date \in Int
  BY Constants DEF Rows, Days
<1> QED BY <1>1, <1>2, <1>3, <1>4 DEF Ledgers

\* The rows the number and the date let through are the rows of the day itself.
LEMMA HeldIsTheDay ==
  ASSUME NEW ledger \in Ledgers, NEW reading \in Readings, NEW date \in Int,
         Near(date, reading.day)
  PROVE  SameDayIn(ledger, reading, date) =
           {n \in DOMAIN ledger : ledger[n].day = reading.day}
<1>1. reading.day \in Nat
  BY Constants DEF Readings, Days
<1>2. ASSUME NEW n \in DOMAIN ledger
      PROVE  (/\ Number(ledger[n].day) = Number(reading.day)
              /\ Apart(ledger[n].date, date) <= Backlog)
             <=> ledger[n].day = reading.day
  <2> DEFINE day == ledger[n].day
             own == ledger[n].date
  <2>1. day \in Nat /\ own \in Int /\ Near(own, day)
    BY LedgerFacts
  <2> HIDE DEF day, own
  <2>2. /\ own - day >= -MaxError /\ own - day <= MaxError + 1
        /\ date - reading.day >= -MaxError /\ date - reading.day <= MaxError + 1
    BY <1>1, <2>1, Constants DEF Near
  <2>3. ASSUME Number(day) = Number(reading.day), Apart(own, date) <= Backlog
        PROVE  day = reading.day
    <3>1. own - date <= Backlog /\ date - own <= Backlog
      BY <2>1, <2>3, Constants DEF Apart
    <3>2. day - reading.day < Wrap /\ reading.day - day < Wrap
      BY <1>1, <2>1, <2>2, <3>1, Constants
    <3>3. day % Wrap = reading.day % Wrap
      BY <2>3 DEF Number
    <3>4. Wrap \in Nat /\ Wrap > 0
      BY Constants
    <3> QED BY <1>1, <2>1, <3>2, <3>3, <3>4, NumberTells, Zenon
  <2>4. ASSUME day = reading.day
        PROVE  Number(day) = Number(reading.day) /\ Apart(own, date) <= Backlog
    BY <1>1, <2>1, <2>2, <2>4, Constants DEF Number, Apart
  <2> QED BY <2>3, <2>4 DEF day, own
<1> QED BY <1>2 DEF SameDayIn

LEMMA FoldReadingKeeps ==
  ASSUME NEW ledger \in Ledgers, NEW reading \in Readings, NEW readOnDate \in Int,
         Near(DateOf(reading, readOnDate), reading.day)
  PROVE  LET later == FoldReading(ledger, reading, readOnDate) IN
         /\ Kept(ledger, later)
         /\ reading.figure > 0 => Holds(later, reading)
         /\ \A n \in DOMAIN ledger :
              ledger[n].day # reading.day => later[n] = ledger[n]
<1> DEFINE later == FoldReading(ledger, reading, readOnDate)
           date == DateOf(reading, readOnDate)
           held == SameDayIn(ledger, reading, date)
<1>1. /\ reading.day \in Days /\ reading.daysAgo \in Int /\ reading.figure \in 0 .. LastFigure
      /\ reading.figure > 0 => reading.figure \in 1 .. LastFigure
      /\ date \in Int /\ Near(date, reading.day)
  BY Constants DEF Readings, DateOf
<1>2. held = {n \in DOMAIN ledger : ledger[n].day = reading.day}
  BY <1>1, HeldIsTheDay
<1>3. CASE reading.figure = 0
  BY <1>3 DEF FoldReading, Kept
<1>4. CASE reading.figure # 0 /\ held = {}
  <2> DEFINE row == NewRow(ledger, reading, date)
  <2>1. later = Append(ledger, row)
    BY <1>4 DEF FoldReading, FoldWritten
  <2>2. row.seq = Len(ledger) /\ row.date = date /\ row.day = reading.day
        /\ row.figure = reading.figure /\ row \in Rows
    <3>1. CASE ledger = <<>>
      BY <1>1, <1>4, <3>1, Constants DEF NewRow, Rows
    <3>2. CASE ledger # <<>>
      <4>1. Len(ledger) \in DOMAIN ledger /\ Len(ledger) \in Nat
        BY <3>2, LedgerFacts
      <4>2. Last(ledger).seq + 1 = Len(ledger)
        BY <4>1, LedgerFacts DEF Last
      <4> QED BY <1>1, <1>4, <3>2, <4>1, <4>2, Constants DEF NewRow, Rows
    <3> QED BY <3>1, <3>2
  <2> HIDE DEF row, later
  <2>3. /\ later \in Seq(Rows) /\ DOMAIN later = 1 .. Len(ledger) + 1
        /\ later[Len(ledger) + 1] = row
        /\ \A n \in DOMAIN ledger : later[n] = ledger[n] /\ n \in DOMAIN later
        /\ \A n \in DOMAIN later : n \in DOMAIN ledger \/ n = Len(ledger) + 1
    BY <2>1, <2>2, LedgerFacts
  <2>4. \A n \in DOMAIN ledger : ledger[n].day # reading.day
    BY <1>2, <1>4
  <2>5. \A n \in DOMAIN later : later[n].seq = n - 1 /\ Near(later[n].date, later[n].day)
    <3>1. ASSUME NEW n \in DOMAIN later
          PROVE  later[n].seq = n - 1 /\ Near(later[n].date, later[n].day)
      <4>1. CASE n \in DOMAIN ledger
        BY <2>3, <4>1, LedgerFacts
      <4>2. CASE n = Len(ledger) + 1
        BY <1>1, <2>2, <2>3, <4>2, LedgerFacts
      <4> QED BY <2>3, <4>1, <4>2
    <3> QED BY <3>1
  <2>6. \A m, n \in DOMAIN later : later[m].day = later[n].day => m = n
    BY <2>2, <2>3, <2>4, LedgerFacts
  <2>7. later \in Ledgers
    BY <2>3, <2>5, <2>6 DEF Ledgers
  <2>8. Len(ledger) + 1 \in DOMAIN later
    BY <2>3, LedgerFacts
  <2>9. Kept(ledger, later) /\ Holds(later, reading)
    BY <2>2, <2>3, <2>7, <2>8 DEF Kept, Holds
  <2> QED BY <2>3, <2>9 DEF later
<1>5. CASE reading.figure # 0 /\ held # {}
  <2>1. PICK i \in DOMAIN ledger : i \in held
    BY <1>2, <1>5
  <2>2. held = {i} /\ ledger[i].day = reading.day /\ i \in Nat
    BY <1>2, <2>1, LedgerFacts
  <2>3. Min(held) = i
    BY <2>2 DEF Min
  <2>4. later = [ledger EXCEPT ![i] = Revised(ledger[i], reading)]
    BY <1>5, <2>3 DEF FoldReading, FoldWritten
  <2> DEFINE row == Revised(ledger[i], reading)
  <2>5. /\ row \in Rows /\ row.seq = ledger[i].seq /\ row.date = ledger[i].date
        /\ row.day = reading.day /\ row.figure = reading.figure
    <3>1. ledger[i] \in Rows
      BY LedgerFacts
    <3>2. reading.figure \in 1 .. LastFigure
      BY <1>1, <1>5
    <3> QED BY <1>1, <3>1, <3>2 DEF Revised, Rows
  <2> HIDE DEF row, later
  <2>6. /\ DOMAIN later = DOMAIN ledger /\ later[i] = row
        /\ \A n \in DOMAIN ledger : n # i => later[n] = ledger[n]
    BY <2>4 DEF row
  <2>7. later \in Seq(Rows)
    BY <2>4, <2>5, LedgerFacts DEF row
  <2>8. \A n \in DOMAIN ledger : /\ later[n].seq = ledger[n].seq
                                /\ later[n].date = ledger[n].date
                                /\ later[n].day = ledger[n].day
    BY <2>2, <2>5, <2>6
  <2>9. later \in Ledgers
    BY <2>6, <2>7, <2>8, LedgerFacts DEF Ledgers
  <2> QED BY <2>2, <2>5, <2>6, <2>8, <2>9 DEF later, Kept, Holds
<1> QED BY <1>3, <1>4, <1>5

\* The register was not answered, or its answer is in the ledger and no other day's
\* row has changed.
RegisterFolded(ledger, days, daysAgo, later) ==
  \/ /\ later = ledger
     /\ \A reading \in days : reading.daysAgo # daysAgo
  \/ \E reading \in days :
       /\ reading.daysAgo = daysAgo
       /\ Kept(ledger, later)
       /\ reading.figure > 0 => Holds(later, reading)
       /\ \A n \in DOMAIN ledger :
            ledger[n].day # reading.day => later[n] = ledger[n]

LEMMA FoldRegisterKeeps ==
  ASSUME NEW ledger \in Ledgers, NEW days \in SUBSET Readings, NEW daysAgo,
         NEW readOnDate \in Int,
         \A reading \in days : Near(DateOf(reading, readOnDate), reading.day)
  PROVE  RegisterFolded(ledger, days, daysAgo, FoldRegister(ledger, days, daysAgo, readOnDate))
<1> DEFINE answers == {reading \in days : reading.daysAgo = daysAgo}
           first == CHOOSE reading \in answers : TRUE
<1>1. CASE answers = {}
  BY <1>1 DEF FoldRegister, RegisterFolded
<1>2. CASE answers # {}
  <2>1. first \in answers /\ first \in Readings
    BY <1>2
  <2>2. FoldRegister(ledger, days, daysAgo, readOnDate)
          = FoldReading(ledger, first, readOnDate)
    BY <1>2 DEF FoldRegister
  <2> HIDE DEF first
  <2> QED BY <2>1, <2>2, FoldReadingKeeps DEF RegisterFolded
<1> QED BY <1>1, <1>2

LEMMA LeastExists ==
  ASSUME NEW S \in SUBSET Nat, S # {}
  PROVE  \E x \in S : \A y \in S : x <= y
<1>1. PICK x \in S : \A y \in S : ~(<<y, x>> \in OpToRel(<, Nat))
  BY WFMin, NatLessThanWellFounded
<1>2. ASSUME NEW y \in S
      PROVE  x <= y
  <2>1. <<y, x>> \in Nat \X Nat /\ <<y, x>>[1] = y /\ <<y, x>>[2] = x
    OBVIOUS
  <2>2. ~(y < x)
    BY <1>1, <2>1 DEF OpToRel
  <2> QED BY <2>2
<1> QED BY <1>2

\* The function FoldSolarHistorySnapshot is defined by, as far as its n-th register.
IsFold(f, ledger, days, readOnDate, n) ==
  f = [k \in 0 .. n |->
         IF k = 0 THEN ledger ELSE FoldRegister(f[k - 1], days, Backlog - k, readOnDate)]

LEMMA FoldExists ==
  ASSUME NEW ledger, NEW days, NEW readOnDate, NEW n \in Nat
  PROVE  \E f : IsFold(f, ledger, days, readOnDate, n)
<1> DEFINE Next1(l, k) == FoldRegister(l, days, Backlog - k, readOnDate)
           Is(f, k) == f = [j \in 0 .. k |-> IF j = 0 THEN ledger ELSE Next1(f[j - 1], j)]
           Without == {k \in Nat : ~\E f : Is(f, k)}
<1> HIDE DEF Next1
<1>1. ASSUME Without # {}
      PROVE  FALSE
  <2>1. PICK k \in Without : \A j \in Without : k <= j
    BY <1>1, LeastExists
  <2>2. CASE k = 0
    <3> DEFINE f == [j \in 0 .. 0 |-> ledger]
    <3>1. Is(f, 0)
      OBVIOUS
    <3> QED BY <2>1, <2>2, <3>1
  <2>3. CASE k # 0
    <3>1. k - 1 \in Nat /\ k - 1 \notin Without
      BY <2>1, <2>3
    <3>2. PICK f : Is(f, k - 1)
      BY <3>1
    <3> DEFINE g == [j \in 0 .. k |-> IF j = k THEN Next1(f[k - 1], k) ELSE f[j]]
    <3>3. \A j \in 0 .. k - 1 : f[j] = IF j = 0 THEN ledger ELSE Next1(f[j - 1], j)
      BY <3>2
    <3>4. \A j \in 0 .. k : g[j] = IF j = 0 THEN ledger ELSE Next1(g[j - 1], j)
      <4>1. \A j \in 0 .. k : j # 0 => j - 1 \in 0 .. k /\ j - 1 # k
        BY <2>1
      <4>2. \A j \in 0 .. k : j # k => j \in 0 .. k - 1
        BY <2>1
      <4> QED BY <2>3, <3>3, <4>1, <4>2
    <3>5. Is(g, k)
      <4> DEFINE h == [j \in 0 .. k |-> IF j = 0 THEN ledger ELSE Next1(g[j - 1], j)]
      <4>1. \A j \in 0 .. k : g[j] = h[j]
        BY <3>4
      <4>2. g = [j \in 0 .. k |-> g[j]] /\ h = [j \in 0 .. k |-> h[j]]
        OBVIOUS
      <4> HIDE DEF g, h
      <4>3. g = h
        BY <4>1, <4>2
      <4> QED BY <4>3 DEF h
    <3> QED BY <2>1, <3>5
  <2> QED BY <2>2, <2>3
<1>2. \E f : Is(f, n)
  BY <1>1
<1> QED BY <1>2 DEF IsFold, Next1

\* What a whole sweep leaves in the ledger.
LEMMA SnapshotKeeps ==
  ASSUME NEW ledger \in Ledgers, NEW days \in SUBSET Readings, NEW readOnDate \in Int,
         NEW began, NEW now, Answered(days, began, now),
         \A reading \in days : Near(DateOf(reading, readOnDate), reading.day)
  PROVE  LET later == FoldSolarHistorySnapshot(ledger, days, readOnDate) IN
         /\ Kept(ledger, later)
         /\ began = now =>
              \A reading \in days : reading.figure > 0 => Holds(later, reading)
<1>1. PICK f : /\ IsFold(f, ledger, days, readOnDate, Backlog)
               /\ FoldSolarHistorySnapshot(ledger, days, readOnDate) = f[Backlog]
  <2>1. \E f : IsFold(f, ledger, days, readOnDate, Backlog)
    BY FoldExists, Constants
  <2> QED BY <2>1 DEF FoldSolarHistorySnapshot, IsFold
<1> DEFINE Done(k) ==
             /\ Kept(ledger, f[k])
             /\ began = now =>
                  \A reading \in days :
                    reading.figure > 0 /\ reading.daysAgo >= Backlog - k => Holds(f[k], reading)
           Undone == {k \in 0 .. Backlog : ~Done(k)}
<1>2. Backlog \in Nat
  BY Constants
<1>3. /\ f[0] = ledger
      /\ \A k \in 1 .. Backlog :
           f[k] = FoldRegister(f[k - 1], days, Backlog - k, readOnDate)
  BY <1>1, <1>2 DEF IsFold
<1>4. \A reading \in days : /\ reading.daysAgo \in Nat /\ reading.daysAgo < Backlog
                            /\ reading.day \in Nat
  BY Constants DEF Readings, Days
<1>5. Done(0)
  BY <1>2, <1>3, <1>4 DEF Kept
<1>6. ASSUME NEW k \in 1 .. Backlog, Done(k - 1)
      PROVE  Done(k)
  <2> DEFINE l == f[k - 1]
             later == f[k]
  <2>1. l \in Ledgers /\ later = FoldRegister(l, days, Backlog - k, readOnDate)
    BY <1>3, <1>6 DEF Kept
  <2>2. \A reading \in days :
          reading.daysAgo >= Backlog - k =>
            reading.daysAgo = Backlog - k \/ reading.daysAgo >= Backlog - (k - 1)
    BY <1>2, <1>4
  <2>3. CASE later = l /\ \A reading \in days : reading.daysAgo # Backlog - k
    BY <1>6, <2>2, <2>3
  <2>4. ASSUME NEW taken \in days, taken.daysAgo = Backlog - k, Kept(l, later),
               taken.figure > 0 => Holds(later, taken),
               \A n \in DOMAIN l : l[n].day # taken.day => later[n] = l[n]
        PROVE  Done(k)
    <3>1. Kept(ledger, later)
      BY <1>6, <2>4 DEF Kept
    <3>2. ASSUME began = now, NEW reading \in days, reading.figure > 0,
                 reading.daysAgo >= Backlog - k
          PROVE  Holds(later, reading)
      <4>1. CASE reading.daysAgo = Backlog - k
        <5>1. reading = taken
          BY <2>4, <4>1 DEF Answered
        <5> QED BY <2>4, <3>2, <5>1
      <4>2. CASE reading.daysAgo # Backlog - k
        <5>1. Holds(l, reading)
          BY <1>6, <2>2, <3>2, <4>2
        <5>2. PICK n \in DOMAIN l : l[n].day = reading.day /\ l[n].figure = reading.figure
          BY <5>1 DEF Holds
        <5>3. reading.day # taken.day
          <6>1. reading.day + reading.daysAgo = taken.day + taken.daysAgo
            BY <3>2 DEF Answered
          <6> QED BY <1>4, <2>4, <4>2, <6>1
        <5>4. later[n] = l[n] /\ n \in DOMAIN later
          BY <2>4, <5>2, <5>3 DEF Kept
        <5> QED BY <5>2, <5>4 DEF Holds
      <4> QED BY <4>1, <4>2
    <3> QED BY <3>1, <3>2
  <2>5. RegisterFolded(l, days, Backlog - k, later)
    BY <2>1, FoldRegisterKeeps
  <2> HIDE DEF Done, later, l
  <2> QED BY <2>3, <2>4, <2>5 DEF RegisterFolded
<1> HIDE DEF Done
<1>7. ASSUME Undone # {}
      PROVE  FALSE
  <2>0. Undone \in SUBSET Nat
    BY <1>2
  <2>1. PICK k \in Undone : \A j \in Undone : k <= j
    BY <1>7, <2>0, LeastExists
  <2>2. k \in 1 .. Backlog
    BY <1>2, <1>5, <2>1
  <2>3. k - 1 \in 0 .. Backlog /\ k - 1 \notin Undone
    BY <1>2, <2>1, <2>2
  <2> QED BY <1>6, <2>1, <2>2, <2>3
<1>8. Done(Backlog)
  BY <1>2, <1>7
<1> QED BY <1>1, <1>2, <1>4, <1>8 DEF Done

-----------------------------------------------------------------------------
(* What is filed is near its date. *)

LEMMA FiledNear ==
  ASSUME IInv, sweep.stage = "read", NEW error \in -MaxError .. MaxError
  PROVE  /\ today + error \in Int
         /\ \A reading \in sweep.days :
              Near(DateOf(reading, today + error), reading.day)
<1>1. today \in Nat /\ error \in Int /\ -MaxError <= error /\ error <= MaxError
  BY Constants DEF IInv, Days
<1>2. ASSUME NEW reading \in sweep.days
      PROVE  Near(DateOf(reading, today + error), reading.day)
  <2>1. reading \in Readings
    BY DEF IInv, Sweeps
  <2>2. reading.daysAgo \in Nat /\ reading.day \in Nat
    BY <2>1, Constants DEF Readings, Days
  <2>3. reading.day + reading.daysAgo \in {today - 1, today}
    BY DEF IInv, Answered, SweepIsRecent
  <2> QED BY <1>1, <2>2, <2>3, Constants DEF Near, DateOf
<1> QED BY <1>1, <1>2

LEMMA MergeKeeps ==
  ASSUME IInv, MergeSolarHistory
  PROVE  /\ Kept(rows, rows')
         /\ sweep.began = today =>
              \A reading \in sweep.days : reading.figure > 0 => Holds(rows', reading)
<1>1. PICK error \in -MaxError .. MaxError :
        rows' = FoldSolarHistorySnapshot(rows, sweep.days, today + error)
  BY DEF MergeSolarHistory
<1>2. /\ rows \in Ledgers /\ sweep.days \in SUBSET Readings
      /\ Answered(sweep.days, sweep.began, today)
  BY DEF IInv, Sweeps
<1>3. /\ today + error \in Int
      /\ \A reading \in sweep.days : Near(DateOf(reading, today + error), reading.day)
  BY FiledNear DEF MergeSolarHistory
<1> QED BY <1>1, <1>2, <1>3, SnapshotKeeps

-----------------------------------------------------------------------------
(* The invariant. *)

LEMMA NoSweepFits ==
  /\ NoSweep \in Sweeps /\ NoSweep.stage = "none" /\ NoSweep.days = {}
  /\ NoSweep.next = 0
  BY Constants DEF NoSweep, Sweeps

LEMMA InitInvariant == Init => IInv
<1> SUFFICES ASSUME Init
             PROVE  IInv
  OBVIOUS
<1>1. <<>> \in Ledgers
  BY DEF Ledgers
<1>2. today \in Days /\ figures \in [Days -> 0 .. LastFigure] /\ sweeps \in 0 .. MaxSweeps
  BY Constants DEF Init, Days
<1> QED BY <1>1, <1>2, NoSweepFits
        DEF Init, IInv, Answered, SweepIsRecent, AsksForDays, NothingReadYet

\* A sweep that has ended, or has not begun.
LEMMA SweepOver ==
  ASSUME IInv, sweep' = NoSweep, UNCHANGED <<today, figures, sweeps>>, rows' \in Ledgers
  PROVE  IInv'
  BY NoSweepFits DEF IInv, Answered, SweepIsRecent, AsksForDays, NothingReadYet

LEMMA ControllerKeeps ==
  ASSUME IInv, SunShines \/ Midnight
  PROVE  IInv'
<1>1. CASE SunShines
  <2>1. figures' \in [Days -> 0 .. LastFigure]
    BY <1>1, Constants DEF SunShines, IInv
  <2> QED BY <1>1, <2>1
          DEF SunShines, IInv, Answered, SweepIsRecent, AsksForDays, NothingReadYet
<1>2. CASE Midnight
  <2>1. today' \in Days /\ today \in Nat /\ today' = today + 1
    BY <1>2, Constants DEF Midnight, IInv, Days
  <2>2. figures' \in [Days -> 0 .. LastFigure]
    BY <1>2, Constants DEF Midnight, IInv
  <2>3. /\ UNCHANGED <<sweep, rows, sweeps>>
        /\ sweep.stage = "none" \/ sweep.began = today
    BY <1>2 DEF Midnight
  <2>4. Answered(sweep.days, sweep.began, today')
    <3>1. CASE sweep.stage = "none"
      BY <3>1 DEF IInv, Answered, NothingReadYet
    <3>2. CASE sweep.began = today
      BY <3>2 DEF IInv, Answered
    <3> QED BY <2>3, <3>1, <3>2
  <2>5. SweepIsRecent'
    BY <2>1, <2>3 DEF SweepIsRecent, IInv
  <2>6. AsksForDays'
    <3>1. sweep.count \in Nat
      BY Constants DEF IInv, Sweeps
    <3> QED BY <2>1, <2>3, <3>1 DEF AsksForDays, IInv
  <2>7. NothingReadYet'
    BY <2>3 DEF NothingReadYet, IInv
  <2> QED BY <2>1, <2>2, <2>3, <2>4, <2>5, <2>6, <2>7 DEF IInv
<1> QED BY <1>1, <1>2

LEMMA AskingKeeps ==
  ASSUME IInv, BeginSweep \/ TotalsAnswered \/ DayUnreadable \/ SweepEnds
  PROVE  IInv'
<1>0. /\ sweep \in Sweeps /\ today \in Days /\ today \in Nat /\ rows \in Ledgers
      /\ sweep.next \in 0 .. Backlog /\ sweep.count \in 0 .. Backlog /\ Backlog \in Nat
  BY Constants DEF IInv, Sweeps, Days
<1>1. CASE BeginSweep
  <2>1. sweep' = [NoSweep EXCEPT !.stage = "totals", !.began = today]
    BY <1>1 DEF BeginSweep
  <2>2. /\ sweep' \in Sweeps /\ sweep'.stage = "totals" /\ sweep'.began = today
        /\ sweep'.days = {} /\ sweep'.next = 0
    BY <1>0, <2>1, NoSweepFits DEF Sweeps
  <2>3. sweeps' \in 0 .. MaxSweeps
    BY <1>1, Constants DEF BeginSweep, IInv
  <2> QED BY <1>0, <1>1, <2>2, <2>3
          DEF BeginSweep, IInv, Answered, SweepIsRecent, AsksForDays, NothingReadYet
<1>2. CASE TotalsAnswered
  <2>1. DayCount \in 0 .. Backlog /\ DayCount <= today
    BY <1>0, Constants DEF DayCount, DaysAvailable, Days
  <2>2. /\ sweep' \in Sweeps /\ sweep'.stage = "days" /\ sweep'.count = DayCount
        /\ sweep'.days = sweep.days /\ sweep'.began = sweep.began /\ sweep'.next = sweep.next
    BY <1>0, <1>2, <2>1 DEF TotalsAnswered, Sweeps
  <2>3. sweep.days = {} /\ sweep.next = 0
    BY <1>2 DEF TotalsAnswered, IInv, NothingReadYet
  <2> QED BY <1>0, <1>2, <2>1, <2>2, <2>3
          DEF TotalsAnswered, IInv, Answered, SweepIsRecent, AsksForDays, NothingReadYet
<1>3. CASE DayUnreadable
  <2>1. /\ sweep' \in Sweeps /\ sweep'.stage = "days" /\ sweep'.count = sweep.count
        /\ sweep'.days = sweep.days /\ sweep'.began = sweep.began
        /\ sweep'.next = sweep.next + 1
    BY <1>0, <1>3 DEF DayUnreadable, Sweeps
  <2>2. \A reading \in sweep.days : reading.daysAgo \in Nat
    BY Constants DEF IInv, Sweeps, Readings
  <2> QED BY <1>0, <1>3, <2>1, <2>2
          DEF DayUnreadable, IInv, Answered, SweepIsRecent, AsksForDays, NothingReadYet
<1>4. CASE SweepEnds
  <2> DEFINE whole == sweep.stage = "days" /\ Cardinality(sweep.days) = sweep.count
  <2>0. whole \in BOOLEAN
    OBVIOUS
  <2>1. /\ sweep' \in Sweeps /\ sweep'.stage = "read"
        /\ sweep'.days = sweep.days /\ sweep'.began = sweep.began
    <3>1. sweep' = [sweep EXCEPT !.stage = "read", !.next = 0, !.count = 0, !.whole = whole]
      BY <1>4 DEF SweepEnds
    <3> DEFINE none == 0
    <3>2. none \in 0 .. Backlog /\ sweep \in Sweeps
      BY <1>0
    <3>3. sweep' = [sweep EXCEPT !.stage = "read", !.next = none, !.count = none, !.whole = whole]
      BY <3>1
    <3> HIDE DEF whole, none
    <3>4. sweep' \in Sweeps
      BY <2>0, <3>2, <3>3, Zenon DEF Sweeps
    <3>5. sweep'.stage = "read" /\ sweep'.days = sweep.days /\ sweep'.began = sweep.began
      BY <3>2, <3>3 DEF Sweeps
    <3> QED BY <3>4, <3>5
  <2> QED BY <1>0, <1>4, <2>1
          DEF SweepEnds, IInv, Answered, SweepIsRecent, AsksForDays, NothingReadYet
<1> QED BY <1>1, <1>2, <1>3, <1>4

LEMMA DayAnsweredKeeps ==
  ASSUME IInv, DayAnswered
  PROVE  IInv'
<1> DEFINE day == today - sweep.next
           fresh == [daysAgo |-> sweep.next, day |-> day, figure |-> figures[day]]
<1>1. /\ sweep.stage = "days" /\ sweep.next < sweep.count
      /\ sweep' = [sweep EXCEPT !.days = @ \cup {fresh}, !.next = @ + 1]
      /\ UNCHANGED <<today, figures, rows, sweeps>>
  BY DEF DayAnswered
<1>2. /\ sweep \in Sweeps /\ today \in Days /\ today \in Nat
      /\ sweep.next \in 0 .. Backlog /\ sweep.count \in 0 .. Backlog /\ Backlog \in Nat
      /\ sweep.count <= today /\ sweep.days \in SUBSET Readings
      /\ \A reading \in sweep.days : reading.daysAgo < sweep.next /\ reading.daysAgo \in Nat
  <2>1. sweep \in Sweeps /\ today \in Days /\ AsksForDays
    BY DEF IInv
  <2>2. Backlog \in Nat /\ today \in Nat
    BY <2>1, Constants DEF Days
  <2>3. /\ sweep.next \in 0 .. Backlog /\ sweep.count \in 0 .. Backlog
        /\ sweep.days \in SUBSET Readings
    BY <2>1 DEF Sweeps
  <2>4. sweep.count <= today /\ \A reading \in sweep.days : reading.daysAgo < sweep.next
    BY <1>1, <2>1 DEF AsksForDays
  <2>5. \A reading \in Readings : reading.daysAgo \in Nat
    BY <2>2 DEF Readings
  <2> QED BY <2>1, <2>2, <2>3, <2>4, <2>5
<1>3. day \in Days /\ figures[day] \in 0 .. LastFigure
  <2>1. day \in Days
    BY <1>1, <1>2, Constants DEF Days
  <2> QED BY <2>1 DEF IInv
<1>4. sweep.next \in 0 .. Backlog - 1
  BY <1>1, <1>2
<1> HIDE DEF day
<1>5. /\ fresh \in Readings /\ fresh.daysAgo = sweep.next /\ fresh.day = day
  BY <1>3, <1>4 DEF Readings
<1>6. fresh.day + fresh.daysAgo = today
  BY <1>2, <1>5 DEF day
<1> HIDE DEF fresh
<1>7. /\ sweep' \in Sweeps /\ sweep'.stage = "days" /\ sweep'.count = sweep.count
      /\ sweep'.days = sweep.days \cup {fresh} /\ sweep'.began = sweep.began
      /\ sweep'.next = sweep.next + 1
  <2>1. sweep.days \cup {fresh} \in SUBSET Readings /\ sweep.next + 1 \in 0 .. Backlog
    BY <1>1, <1>2, <1>5
  <2> DEFINE grown == sweep.days \cup {fresh}
             further == sweep.next + 1
  <2>2. sweep' = [sweep EXCEPT !.days = grown, !.next = further]
    BY <1>1
  <2> HIDE DEF grown, further
  <2>3. grown \in SUBSET Readings /\ further \in 0 .. Backlog
    BY <2>1 DEF grown, further
  <2>4. /\ sweep' \in Sweeps /\ sweep'.stage = "days" /\ sweep'.count = sweep.count
        /\ sweep'.days = grown /\ sweep'.began = sweep.began /\ sweep'.next = further
    BY <1>1, <1>2, <2>2, <2>3 DEF Sweeps
  <2> QED BY <2>4 DEF grown, further
<1>8. Answered(sweep'.days, sweep'.began, today)
  BY <1>2, <1>5, <1>6, <1>7 DEF IInv, Answered
<1>9. AsksForDays'
  BY <1>1, <1>2, <1>5, <1>7 DEF AsksForDays
<1> QED BY <1>1, <1>7, <1>8, <1>9 DEF IInv, SweepIsRecent, NothingReadYet

LEMMA NextInvariant == IInv /\ [Next]_vars => IInv'
<1> SUFFICES ASSUME IInv, [Next]_vars
             PROVE  IInv'
  OBVIOUS
<1>1. CASE UNCHANGED vars
  BY <1>1 DEF vars, IInv, Answered, SweepIsRecent, AsksForDays, NothingReadYet
<1>2. CASE MergeSolarHistory
  BY <1>2, MergeKeeps, SweepOver DEF MergeSolarHistory, Kept
<1>3. CASE IngestRefused
  BY <1>3, SweepOver DEF IngestRefused, IInv
<1>4. CASE DropLedger
  <2>1. <<>> \in Ledgers
    BY DEF Ledgers
  <2> QED BY <1>4, <2>1
          DEF DropLedger, IInv, Answered, SweepIsRecent, AsksForDays, NothingReadYet
<1> QED BY <1>1, <1>2, <1>3, <1>4, ControllerKeeps, AskingKeeps, DayAnsweredKeeps DEF Next

-----------------------------------------------------------------------------
(* The theorems. *)

\* Every row of the ledger is one day's, a sweep under way is of at most two days'
\* registers, and what it holds is one answer a register.
THEOREM SweepsAreOfTheirDays == Spec => []IInv
  BY InitInvariant, NextInvariant, PTL DEF Spec

\* The controller's day number comes round and this browser's clock is out, and yet
\* no day has two rows and none is dated further off than the clock was.
THEOREM EveryRowIsADay == Spec => []RowsAreDays
<1>1. IInv => RowsAreDays
  <2> SUFFICES ASSUME IInv
               PROVE  RowsAreDays
    OBVIOUS
  <2>1. TypeOK
    <3>1. /\ sweep.stage \in {"none", "totals", "days", "read"}
          /\ sweep.next \in 0 .. Backlog /\ sweep.count \in 0 .. Backlog
      BY DEF IInv, Sweeps
    <3>2. \A reading \in sweep.days : reading.day \in Days /\ reading.daysAgo < Backlog
      BY Constants DEF IInv, Sweeps, Readings
    <3>3. /\ rows \in Seq([seq : Nat, date : Int, day : Days, figure : 1 .. LastFigure])
          /\ \A n \in DOMAIN rows : rows[n].seq = n - 1
      BY DEF IInv, Ledgers, Rows
    <3> QED BY <3>1, <3>2, <3>3 DEF TypeOK, IInv
  <2>2. OneRowPerDay
    BY LedgerFacts DEF IInv, OneRowPerDay
  <2>3. DatedWithinTheError
    <3>1. \A row \in Range(rows) : \E n \in DOMAIN rows : row = rows[n]
      BY DEF Range
    <3> QED BY <3>1, LedgerFacts DEF IInv, DatedWithinTheError, Near
  <2> QED BY <2>1, <2>2, <2>3 DEF RowsAreDays
<1> QED BY <1>1, SweepsAreOfTheirDays, PTL

\* Whatever is filed over it, a row stays the row of its day, at its date.
THEOREM RowsKeepTheirDays == Spec => RowKeepsItsDay
<1> DEFINE Stands == \A n \in DOMAIN rows \cap DOMAIN rows' :
                       /\ rows'[n].day = rows[n].day
                       /\ rows'[n].date = rows[n].date
<1>1. IInv /\ [Next]_vars => [Stands]_vars
  <2> SUFFICES ASSUME IInv, Next
               PROVE  Stands
    OBVIOUS
  <2>1. CASE MergeSolarHistory
    BY <2>1, MergeKeeps DEF Kept
  <2>2. CASE DropLedger
    BY <2>2 DEF DropLedger
  <2>3. CASE UNCHANGED rows
    BY <2>3
  <2> QED BY <2>1, <2>2, <2>3 DEF Next, SunShines, Midnight, BeginSweep, TotalsAnswered,
             DayAnswered, DayUnreadable, SweepEnds, IngestRefused
<1> QED BY <1>1, SweepsAreOfTheirDays, PTL DEF Spec, RowKeepsItsDay

\* What a sweep that no midnight crossed read of a written day is in the ledger, with
\* the figures it read, once it is filed.
THEOREM SweepsAreFiled == Spec => WholeSweepIsHeld
<1> DEFINE Filed == MergeSolarHistory /\ sweep.whole /\ sweep.began = today =>
                      \A reading \in sweep.days : reading.figure > 0 =>
                        \E row \in Range(rows') :
                          row.day = reading.day /\ row.figure = reading.figure
<1>1. IInv => [Filed]_vars
  <2> SUFFICES ASSUME IInv, MergeSolarHistory, sweep.began = today,
                      NEW reading \in sweep.days, reading.figure > 0
               PROVE  \E row \in Range(rows') :
                        row.day = reading.day /\ row.figure = reading.figure
    OBVIOUS
  <2>1. PICK n \in DOMAIN rows' :
          rows'[n].day = reading.day /\ rows'[n].figure = reading.figure
    BY MergeKeeps DEF Holds
  <2>2. rows'[n] \in Range(rows')
    BY DEF Range
  <2> QED BY <2>1, <2>2
<1> QED BY <1>1, SweepsAreOfTheirDays, PTL DEF WholeSweepIsHeld

-----------------------------------------------------------------------------
(* The pack's log: what a sound ledger of it is. *)

LogRows == [record : Records, seq : Nat, followsGap : BOOLEAN]

\* No row of these declares a break.
Unheralded(ledger, after, to) == \A n \in after + 1 .. to : ~ledger[n].followsGap

\* Between two rows with no break the pack's own order runs on.
Joined(ledger) ==
  /\ ledger # <<>> => ledger[1].followsGap
  /\ \A m, n \in DOMAIN ledger :
       m <= n /\ Unheralded(ledger, m, n) => ledger[n].record = ledger[m].record + n - m

\* A stretch was long enough to be filed, so two breaks are that far apart: but for
\* the first, which a trim may have moved.
LongBlocks(ledger) ==
  /\ ledger # <<>> => /\ MinOverlap <= RingSize /\ Len(ledger) >= MinOverlap
                      /\ Unheralded(ledger, Len(ledger) - MinOverlap + 1, Len(ledger))
  /\ \A m, n \in DOMAIN ledger :
       1 < m /\ m < n /\ ledger[m].followsGap /\ ledger[n].followsGap => n >= m + MinOverlap

Sound(ledger) ==
  /\ ledger \in Seq(LogRows)
  /\ \A n \in 1 .. Len(ledger) - 1 : ledger[n + 1].seq = ledger[n].seq + 1
  /\ Joined(ledger) /\ LongBlocks(ledger)

\* Reads that lost no frame before their last all begin where the ring did: what they
\* filed begins no later than the ring does now, and goes back over little.
FromTheRing(ledger, oldest) ==
  /\ ledger # <<>> => ledger[1].record <= oldest \/ Len(ledger) >= KeptRows
  /\ \A n \in 2 .. Len(ledger) : ledger[n].followsGap =>
       ledger[n].record <= oldest /\ ledger[n - 1].record - ledger[n].record + 1 < MinOverlap
  /\ \A m, n \in 2 .. Len(ledger) :
       m < n /\ ledger[m].followsGap /\ ledger[n].followsGap => ledger[m].record <= ledger[n].record

LEMMA RingConstants ==
  /\ RingSize \in Nat \ {0} /\ FrameSize \in Nat \ {0} /\ MinOverlap \in Nat /\ MinOverlap > 2
  /\ TailLength \in Nat /\ MaxRows \in Nat /\ KeptRows \in Nat
  /\ LastRecord \in Nat \ {0} /\ MaxReads \in Nat
  /\ RingSize <= TailLength /\ TailLength <= KeptRows /\ KeptRows < MaxRows
  BY RingLedgerAssumption

\* Two records the pack wrote one after the other are known by their bytes.
LEMMA TwoTell ==
  ASSUME NEW x \in Int, NEW c \in Int,
         BytesOf(x) = BytesOf(c), BytesOf(x + 1) = BytesOf(c + 1)
  PROVE  x = c
<1>1. \A r \in Twins : r \in Int /\ r + 1 \notin Twins
  BY RingLedgerAssumption
<1>2. /\ BytesOf(x) = IF x - 1 \in Twins THEN x - 1 ELSE x
      /\ BytesOf(c) = IF c - 1 \in Twins THEN c - 1 ELSE c
      /\ BytesOf(x + 1) = IF x \in Twins THEN x ELSE x + 1
      /\ BytesOf(c + 1) = IF c \in Twins THEN c ELSE c + 1
  <2>1. (x + 1) - 1 = x /\ (c + 1) - 1 = c
    OBVIOUS
  <2> QED BY <2>1 DEF BytesOf
<1>3. CASE x - 1 \in Twins
  <2>1. BytesOf(x) = x - 1 /\ BytesOf(x + 1) = x + 1
    <3>1. (x - 1) + 1 = x
      OBVIOUS
    <3>2. x \notin Twins
      BY <1>1, <1>3, <3>1
    <3> QED BY <1>2, <1>3, <3>2
  <2>2. CASE c - 1 \in Twins
    BY <1>2, <2>1, <2>2
  <2>3. CASE c - 1 \notin Twins
    <3>1. c = x - 1
      BY <1>2, <2>1, <2>3
    <3>2. BytesOf(c + 1) = c
      BY <1>2, <1>3, <3>1
    <3> QED BY <2>1, <3>1, <3>2
  <2> QED BY <2>2, <2>3
<1>4. CASE c - 1 \in Twins
  <2>1. BytesOf(c) = c - 1 /\ BytesOf(c + 1) = c + 1
    <3>1. (c - 1) + 1 = c
      OBVIOUS
    <3>2. c \notin Twins
      BY <1>1, <1>4, <3>1
    <3> QED BY <1>2, <1>4, <3>2
  <2>2. CASE x - 1 \in Twins
    BY <1>2, <2>1, <2>2
  <2>3. CASE x - 1 \notin Twins
    <3>1. x = c - 1
      BY <1>2, <2>1, <2>3
    <3>2. BytesOf(x + 1) = x
      BY <1>2, <1>4, <3>1
    <3> QED BY <2>1, <3>1, <3>2
  <2> QED BY <2>2, <2>3
<1>5. CASE x - 1 \notin Twins /\ c - 1 \notin Twins
  BY <1>2, <1>5
<1> QED BY <1>3, <1>4, <1>5

\* One record is known to within its twin.
LEMMA OneTells ==
  ASSUME NEW x \in Int, NEW c \in Int, BytesOf(x) = BytesOf(c)
  PROVE  x \in c - 1 .. c + 1
  BY DEF BytesOf

LEMMA SoundFacts ==
  ASSUME NEW ledger, Sound(ledger)
  PROVE  /\ ledger \in Seq(LogRows) /\ Len(ledger) \in Nat /\ DOMAIN ledger = 1 .. Len(ledger)
         /\ ledger = <<>> <=> Len(ledger) = 0
         /\ \A n \in 1 .. Len(ledger) :
              /\ ledger[n] \in LogRows /\ ledger[n].record \in Records
              /\ ledger[n].record \in Nat /\ ledger[n].seq \in Nat
              /\ ledger[n].followsGap \in BOOLEAN
         /\ ledger # <<>> =>
              /\ ledger[1].followsGap /\ MinOverlap <= RingSize /\ Len(ledger) >= MinOverlap
              /\ \A n \in Len(ledger) - MinOverlap + 2 .. Len(ledger) : ~ledger[n].followsGap
<1>1. ledger \in Seq(LogRows)
  BY DEF Sound
<1>2. Len(ledger) \in Nat /\ DOMAIN ledger = 1 .. Len(ledger) /\ (ledger = <<>> <=> Len(ledger) = 0)
  BY <1>1
<1>3. \A n \in 1 .. Len(ledger) : ledger[n] \in LogRows
  BY <1>1
<1>4. \A row \in LogRows : /\ row.record \in Records /\ row.record \in Nat /\ row.seq \in Nat
                           /\ row.followsGap \in BOOLEAN
  BY RingConstants DEF LogRows, Records
<1>5. ledger # <<>> => /\ ledger[1].followsGap /\ MinOverlap <= RingSize
                       /\ Len(ledger) >= MinOverlap
  BY DEF Sound, Joined, LongBlocks
<1>6. ledger # <<>> => \A n \in Len(ledger) - MinOverlap + 2 .. Len(ledger) : ~ledger[n].followsGap
  <2>1. (Len(ledger) - MinOverlap + 1) + 1 = Len(ledger) - MinOverlap + 2
    BY <1>2, RingConstants
  <2> QED BY <2>1 DEF Sound, LongBlocks, Unheralded
<1> QED BY <1>1, <1>2, <1>3, <1>4, <1>5, <1>6

\* Rows with no break between them.
LEMMA RunsOn ==
  ASSUME NEW ledger, Sound(ledger), NEW m \in 1 .. Len(ledger), NEW n \in 1 .. Len(ledger),
         m <= n, \A i \in m + 1 .. n : ~ledger[i].followsGap
  PROVE  ledger[n].record = ledger[m].record + n - m
  BY SoundFacts DEF Sound, Joined, Unheralded

LEMMA FunctionIsSequence ==
  ASSUME NEW S, NEW k \in Nat, NEW f \in [1 .. k -> S]
  PROVE  f \in Seq(S) /\ Len(f) = k /\ DOMAIN f = 1 .. k
  OBVIOUS

-----------------------------------------------------------------------------
(* What one run adds. *)

\* The ledger with the records shift + 1, shift + 2 and so on of the pack's order
\* behind it, as far as its row at `to`.
Grown(ledger, later, shift, to, followsGap) ==
  /\ later \in Seq(LogRows) /\ Len(later) = to /\ to >= Len(ledger)
  /\ \A n \in 1 .. Len(ledger) : later[n] = ledger[n]
  /\ \A n \in Len(ledger) + 1 .. to :
       /\ later[n].record = n - shift
       /\ later[n].followsGap <=> followsGap /\ n = Len(ledger) + 1
       /\ n > 1 => later[n].seq = later[n - 1].seq + 1

LEMMA AppendedGrows ==
  ASSUME NEW ledger, Sound(ledger), NEW shift \in Int, NEW to \in Nat, to >= Len(ledger),
         NEW records, NEW followsGap \in BOOLEAN,
         records \in Seq(Records), Len(records) = to - Len(ledger),
         \A i \in 1 .. Len(records) : records[i] = Len(ledger) + i - shift
  PROVE  Grown(ledger, Appended(ledger, records, followsGap), shift, to, followsGap)
<1> DEFINE more == [n \in DOMAIN records |->
               [record |-> records[n], seq |-> NextSeq(ledger) + n - 1,
                followsGap |-> followsGap /\ n = 1]]
           later == Appended(ledger, records, followsGap)
           l == Len(ledger)
<1>1. l \in Nat /\ DOMAIN records = 1 .. to - l
  BY SoundFacts
<1>2. NextSeq(ledger) \in Nat /\ (ledger # <<>> => NextSeq(ledger) = ledger[l].seq + 1)
  <2>1. CASE ledger = <<>>
    BY <2>1 DEF NextSeq
  <2>2. CASE ledger # <<>>
    <3>1. Last(ledger) = ledger[l] /\ l \in 1 .. l
      BY <2>2, SoundFacts DEF Last
    <3> QED BY <2>2, <3>1, SoundFacts DEF NextSeq
  <2> QED BY <2>1, <2>2
<1>3. more \in Seq(LogRows) /\ Len(more) = to - l
  <2>1. ASSUME NEW n \in 1 .. to - l
        PROVE  more[n] \in LogRows
    <3>1. records[n] \in Records /\ NextSeq(ledger) + n - 1 \in Nat
      BY <1>1, <1>2
    <3> QED BY <1>1, <3>1 DEF LogRows
  <2>2. more = [n \in 1 .. to - l |-> more[n]] /\ to - l \in Nat
    BY <1>1
  <2> HIDE DEF more
  <2>3. more \in [1 .. to - l -> LogRows]
    BY <2>1, <2>2
  <2> QED BY <2>2, <2>3, FunctionIsSequence
<1>4. later = ledger \o more
  BY DEF Appended
<1>5. \A n \in 1 .. to - l : /\ more[n].record = l + n - shift
                             /\ more[n].seq = NextSeq(ledger) + n - 1
                             /\ more[n].followsGap <=> followsGap /\ n = 1
  BY <1>1
<1> HIDE DEF more, later
<1>6. later \in Seq(LogRows) /\ Len(later) = to
  BY <1>1, <1>3, <1>4, SoundFacts
<1>7. \A n \in 1 .. l : later[n] = ledger[n]
  BY <1>1, <1>3, <1>4, SoundFacts
<1>8. \A n \in l + 1 .. to : later[n] = more[n - l] /\ n - l \in 1 .. to - l
  BY <1>1, <1>3, <1>4, SoundFacts
<1>9. ASSUME NEW n \in l + 1 .. to
      PROVE  /\ later[n].record = n - shift
             /\ later[n].followsGap <=> followsGap /\ n = l + 1
             /\ n > 1 => later[n].seq = later[n - 1].seq + 1
  <2>0. n - l \in 1 .. to - l /\ l + (n - l) = n /\ (n - l = 1 <=> n = l + 1)
    BY <1>1
  <2>1. later[n].record = n - shift /\ (later[n].followsGap <=> followsGap /\ n = l + 1)
    <3>1. more[n - l].record = l + (n - l) - shift
      BY <1>5, <2>0
    <3>2. more[n - l].followsGap <=> followsGap /\ n - l = 1
      BY <1>5, <2>0
    <3>3. later[n] = more[n - l]
      BY <1>8
    <3>4. later[n].record = n - shift
      BY <1>1, <2>0, <3>1, <3>3
    <3> QED BY <2>0, <3>2, <3>3, <3>4
  <2>2. CASE n = l + 1 /\ n > 1
    <3>1. later[n - 1] = ledger[l] /\ ledger # <<>> /\ more[n - l].seq = NextSeq(ledger)
      BY <1>1, <1>2, <1>5, <1>7, <1>8, <2>2, SoundFacts
    <3> QED BY <1>2, <1>8, <2>1, <3>1
  <2>3. CASE n > l + 1
    <3>1. n - 1 \in l + 1 .. to /\ (n - 1) - l = (n - l) - 1
      BY <1>1, <2>3
    <3> DEFINE s == NextSeq(ledger)
               e == s + (n - 1 - l) - 1
    <3>2. later[n - 1].seq = e /\ later[n].seq = s + (n - l) - 1
      BY <1>1, <1>5, <1>8, <3>1
    <3>3. s \in Nat /\ l \in Nat /\ n \in Int
      BY <1>1, <1>2
    <3> HIDE DEF s, l
    <3>4. s + (n - l) - 1 = e + 1
      BY <3>3
    <3> HIDE DEF e
    <3> QED BY <2>1, <3>2, <3>4
  <2> QED BY <1>1, <2>1, <2>2, <2>3
<1> QED BY <1>1, <1>6, <1>7, <1>9 DEF Grown, later

\* Nothing more than a run's own records, and no row of the ledger is touched.
LEMMA GrownIsSound ==
  ASSUME NEW ledger, Sound(ledger), NEW later, NEW shift \in Int, NEW to \in Nat,
         NEW followsGap \in BOOLEAN, Grown(ledger, later, shift, to, followsGap),
         followsGap => to >= Len(ledger) + MinOverlap /\ MinOverlap <= RingSize,
         ~followsGap => ledger # <<>> /\ (to > Len(ledger) => ledger[Len(ledger)].record = Len(ledger) - shift)
  PROVE  Sound(later)
<1> DEFINE l == Len(ledger)
<1>1. /\ l \in Nat /\ later \in Seq(LogRows) /\ Len(later) = to /\ DOMAIN later = 1 .. to /\ to >= l
      /\ later = <<>> <=> to = 0
  BY SoundFacts DEF Grown
<1>2. \A n \in 1 .. l : later[n] = ledger[n]
  BY DEF Grown
<1>3. \A n \in l + 1 .. to : /\ later[n].record = n - shift
                             /\ later[n].followsGap <=> followsGap /\ n = l + 1
                             /\ n > 1 => later[n].seq = later[n - 1].seq + 1
  BY DEF Grown
<1>4. \A n \in 1 .. to : n \in 1 .. l \/ n \in l + 1 .. to
  BY <1>1
<1>5. ASSUME NEW n \in 1 .. Len(later) - 1
      PROVE  later[n + 1].seq = later[n].seq + 1
  <2>1. CASE n + 1 \in 1 .. l
    <3>1. n \in 1 .. l - 1
      BY <1>1, <2>1
    <3>2. ledger[n + 1].seq = ledger[n].seq + 1
      BY <3>1 DEF Sound
    <3> QED BY <1>1, <1>2, <2>1, <3>1, <3>2
  <2>2. CASE n + 1 \in l + 1 .. to
    <3>1. (n + 1) - 1 = n /\ n + 1 > 1
      BY <1>1
    <3> QED BY <1>3, <2>2, <3>1
  <2>3. n + 1 \in 1 .. to
    BY <1>1
  <2> QED BY <1>4, <2>1, <2>2, <2>3
<1>6. later # <<>> => later[1].followsGap
  <2>1. CASE l = 0 /\ to # 0
    <3>1. followsGap
      BY <2>1, SoundFacts
    <3>2. 1 \in l + 1 .. to /\ 1 = l + 1
      BY <1>1, <2>1
    <3> QED BY <1>3, <3>1, <3>2
  <2>2. CASE l # 0
    <3>1. 1 \in 1 .. l
      BY <1>1, <2>2
    <3> QED BY <1>2, <2>2, <3>1, SoundFacts
  <2> QED BY <1>1, <2>1, <2>2
<1>7. ASSUME NEW m \in 1 .. to, NEW n \in 1 .. to, m <= n, Unheralded(later, m, n)
      PROVE  later[n].record = later[m].record + n - m
  <2>1. CASE n \in 1 .. l
    <3>1. m \in 1 .. l /\ \A i \in m + 1 .. n : i \in 1 .. l
      BY <1>1, <1>7, <2>1
    <3>2. \A i \in m + 1 .. n : ~ledger[i].followsGap
      BY <1>2, <1>7, <3>1 DEF Unheralded
    <3>3. ledger[n].record = ledger[m].record + n - m
      BY <1>7, <2>1, <3>1, <3>2, RunsOn
    <3> QED BY <1>2, <2>1, <3>1, <3>3
  <2>2. CASE n \in l + 1 .. to /\ m \in l + 1 .. to
    <3>1. later[n].record = n - shift /\ later[m].record = m - shift
      BY <1>3, <2>2
    <3> QED BY <1>1, <3>1
  <2>3. CASE n \in l + 1 .. to /\ m \in 1 .. l
    <3>1. ~followsGap
      <4>1. l + 1 \in m + 1 .. n /\ l + 1 \in l + 1 .. to
        BY <1>1, <2>3
      <4>2. ~later[l + 1].followsGap
        BY <1>7, <4>1 DEF Unheralded
      <4> QED BY <1>3, <4>1, <4>2
    <3>2. to > l
      BY <1>1, <2>3
    <3>3. ledger[l].record = l - shift
      BY <3>1, <3>2
    <3>4. \A i \in m + 1 .. l : ~ledger[i].followsGap
      <4>1. \A i \in m + 1 .. l : i \in m + 1 .. n /\ i \in 1 .. l
        BY <1>1, <2>3
      <4> QED BY <1>2, <1>7, <4>1 DEF Unheralded
    <3>5. l \in 1 .. l /\ m <= l
      BY <1>1, <2>3
    <3>6. ledger[l].record = ledger[m].record + l - m
      BY <2>3, <3>4, <3>5, RunsOn
    <3>7. later[n].record = n - shift /\ later[m] = ledger[m] /\ ledger[m].record \in Nat
      BY <1>2, <1>3, <2>3, SoundFacts
    <3>8. n \in Int /\ m \in Int /\ l \in Int
      BY <1>1, <2>3
    <3> DEFINE b == ledger[m].record
    <3>9. l - shift = b + l - m /\ b \in Int
      BY <3>3, <3>6, <3>7
    <3> HIDE DEF b, l
    <3>10. n - shift = b + n - m
      BY <3>8, <3>9
    <3> QED BY <3>7, <3>10 DEF b
  <2> QED BY <1>4, <2>1, <2>2, <2>3, <1>7
<1>8. later # <<>> => /\ MinOverlap <= RingSize /\ Len(later) >= MinOverlap
                      /\ Unheralded(later, Len(later) - MinOverlap + 1, Len(later))
  <2>1. CASE followsGap
    <3>1. \A n \in (to - MinOverlap + 1) + 1 .. to : n \in l + 1 .. to /\ n # l + 1
      BY <1>1, <2>1, RingConstants
    <3>2. to >= MinOverlap /\ MinOverlap <= RingSize
      BY <1>1, <2>1, RingConstants
    <3> QED BY <1>1, <1>3, <3>1, <3>2 DEF Unheralded
  <2>2. CASE ~followsGap
    <3>1. MinOverlap <= RingSize /\ l >= MinOverlap
      BY <2>2, SoundFacts
    <3>2. ASSUME NEW n \in (to - MinOverlap + 1) + 1 .. to
          PROVE  ~later[n].followsGap
      <4>1. n \in 1 .. to
        BY <1>1, <3>1, RingConstants
      <4>2. CASE n \in l + 1 .. to
        BY <1>3, <2>2, <4>2
      <4>3. CASE n \in 1 .. l
        <5>1. n \in l - MinOverlap + 2 .. l
          BY <1>1, <3>1, <4>3, RingConstants
        <5>2. ~ledger[n].followsGap
          BY <2>2, <5>1, SoundFacts
        <5> QED BY <1>2, <4>3, <5>2
      <4> QED BY <1>4, <4>1, <4>2, <4>3
    <3>3. to >= MinOverlap
      BY <1>1, <3>1, RingConstants
    <3> QED BY <1>1, <3>1, <3>2, <3>3 DEF Unheralded
  <2> QED BY <2>1, <2>2
<1>9. ASSUME NEW m \in 1 .. to, NEW n \in 1 .. to, 1 < m, m < n,
             later[m].followsGap, later[n].followsGap
      PROVE  n >= m + MinOverlap
  <2>1. CASE n \in 1 .. l
    <3>1. m \in 1 .. l /\ m \in DOMAIN ledger /\ n \in DOMAIN ledger
      BY <1>1, <1>9, <2>1, SoundFacts
    <3>2. ledger[m].followsGap /\ ledger[n].followsGap
      BY <1>2, <1>9, <2>1, <3>1
    <3> QED BY <1>9, <3>1, <3>2 DEF Sound, LongBlocks
  <2>2. CASE n \in l + 1 .. to
    <3>1. n = l + 1 /\ m \in 1 .. l
      <4>1. n = l + 1
        BY <1>3, <1>9, <2>2
      <4> QED BY <1>1, <1>9, <4>1
    <3>2. ledger[m].followsGap /\ ledger # <<>>
      BY <1>1, <1>2, <1>9, <3>1, SoundFacts
    <3>3. m \notin l - MinOverlap + 2 .. l
      BY <3>2, SoundFacts
    <3> QED BY <1>1, <3>1, <3>3, RingConstants
  <2> QED BY <1>4, <2>1, <2>2
<1>10. Joined(later)
  BY <1>1, <1>6, <1>7 DEF Joined
<1>11. LongBlocks(later)
  BY <1>1, <1>8, <1>9 DEF LongBlocks
<1> QED BY <1>1, <1>5, <1>10, <1>11 DEF Sound

-----------------------------------------------------------------------------
(* Where a run belongs.  Record c of the run from .. to is laid beside row *)
(* offset + c of the ledger, of which the fold sees the rows from `first`. *)

Meets(ledger, first, from, to, offset) ==
  \E c \in from .. to : /\ c + MinOverlap - 1 <= to
                        /\ offset + c >= first
                        /\ offset + c + MinOverlap - 1 <= Len(ledger)

Agrees(ledger, first, from, to, offset) ==
  \A c \in from .. to : offset + c \in first .. Len(ledger) =>
    BytesOf(ledger[offset + c].record) = BytesOf(c)

Fits(ledger, first, from, to, offset) ==
  Meets(ledger, first, from, to, offset) /\ Agrees(ledger, first, from, to, offset)

OnlyFit(ledger, first, from, to, offset) ==
  /\ Fits(ledger, first, from, to, offset)
  /\ \A other \in Int : Fits(ledger, first, from, to, other) => other = offset

LEMMA StretchFacts ==
  ASSUME NEW from \in Records, NEW to \in Records, from <= to
  PROVE  LET run == Stretch(from, to) IN
         /\ run \in Seq(Records) /\ Len(run) = to - from + 1 /\ DOMAIN run = 1 .. to - from + 1
         /\ \A n \in 1 .. to - from + 1 : run[n] = from + n - 1
<1> DEFINE run == Stretch(from, to)
           k == to - from + 1
<1>1. from \in Nat /\ to \in Nat /\ LastRecord \in Nat /\ from >= 1 /\ to <= LastRecord
  BY RingConstants DEF Records
<1>2. k \in Nat /\ run = [n \in 1 .. k |-> from + n - 1]
  BY <1>1 DEF Stretch
<1>3. \A n \in 1 .. k : from + n - 1 \in Records
  BY <1>1 DEF Records
<1> HIDE DEF k, run
<1>4. run \in [1 .. k -> Records]
  BY <1>2, <1>3
<1>5. run \in Seq(Records) /\ Len(run) = k /\ DOMAIN run = 1 .. k
  BY <1>2, <1>4, FunctionIsSequence
<1>6. \A n \in 1 .. k : run[n] = from + n - 1
  BY <1>2
<1> QED BY <1>5, <1>6 DEF run, k

LEMMA SeenFacts ==
  ASSUME NEW ledger, Sound(ledger), NEW first \in 1 .. Len(ledger) + 1
  PROVE  LET known == SubSeq(ledger, first, Len(ledger)) IN
         /\ known \in Seq(LogRows) /\ Len(known) = Len(ledger) - first + 1
         /\ DOMAIN known = 1 .. Len(ledger) - first + 1
         /\ \A n \in 1 .. Len(ledger) - first + 1 : known[n] = ledger[first + n - 1]
<1> DEFINE known == SubSeq(ledger, first, Len(ledger))
           k == Len(ledger) - first + 1
<1>1. ledger \in Seq(LogRows) /\ Len(ledger) \in Nat /\ first \in Nat /\ k \in Nat
  BY SoundFacts
<1>2. \A i \in first .. Len(ledger) : ledger[i] \in LogRows
  BY <1>1, SoundFacts
<1>3. known = [n \in 1 .. k |-> ledger[n + first - 1]]
  BY <1>1
<1>4. \A n \in 1 .. k : n + first - 1 = first + n - 1 /\ ledger[first + n - 1] \in LogRows
  BY <1>1, <1>2
<1> HIDE DEF k, known
<1>5. known \in [1 .. k -> LogRows]
  BY <1>3, <1>4
<1>6. known \in Seq(LogRows) /\ Len(known) = k /\ DOMAIN known = 1 .. k
  BY <1>1, <1>5, FunctionIsSequence
<1>7. \A n \in 1 .. k : known[n] = ledger[first + n - 1]
  BY <1>3, <1>4
<1> QED BY <1>6, <1>7 DEF known, k

\* What the search of alignRun finds.
LEMMA ShiftsAreFits ==
  ASSUME NEW ledger, Sound(ledger), NEW first \in 1 .. Len(ledger) + 1,
         NEW from \in Records, NEW to \in Records, from <= to, NEW shift \in Int
  PROVE  shift \in Shifts(SubSeq(ledger, first, Len(ledger)), Stretch(from, to))
         <=> Fits(ledger, first, from, to, shift + first - from)
<1> DEFINE known == SubSeq(ledger, first, Len(ledger))
           run == Stretch(from, to)
           offset == shift + first - from
           l == Len(ledger)
           r == to - from + 1
           k == l - first + 1
           low == IF shift >= 0 THEN 1 ELSE 1 - shift
           high == IF r <= k - shift THEN r ELSE k - shift
<1>1. l \in Nat /\ first \in Nat /\ first >= 1 /\ from \in Nat /\ to \in Nat /\ k \in Nat /\ r \in Nat
  BY SoundFacts, RingConstants DEF Records
<1>2. DOMAIN run = 1 .. r /\ Len(run) = r /\ \A n \in 1 .. r : run[n] = from + n - 1
  BY StretchFacts
<1>3. DOMAIN known = 1 .. k /\ Len(known) = k /\ \A n \in 1 .. k : known[n] = ledger[first + n - 1]
  BY SeenFacts
<1> HIDE DEF known, run
<1>4. Overlap(known, run, shift) = low .. high
  <2>1. \A n : n \in Overlap(known, run, shift) <=> n \in 1 .. r /\ shift + n \in 1 .. k
    BY <1>2, <1>3 DEF Overlap
  <2>2. \A n : n \in 1 .. r /\ shift + n \in 1 .. k <=> n \in low .. high
    <3>1. low \in Int /\ high \in Int
      BY <1>1
    <3>2. ASSUME NEW n \in Int
          PROVE  n \in 1 .. r /\ shift + n \in 1 .. k <=> n \in low .. high
      <4>1. 1 <= n /\ 1 <= shift + n <=> low <= n
        BY <3>2
      <4>2. n <= r /\ shift + n <= k <=> n <= high
        BY <1>1, <3>2
      <4>3. /\ n \in 1 .. r <=> 1 <= n /\ n <= r
            /\ shift + n \in 1 .. k <=> 1 <= shift + n /\ shift + n <= k
        BY <1>1, <3>2
      <4> HIDE DEF low, high, r, k
      <4>4. n \in low .. high <=> low <= n /\ n <= high
        BY <3>1, <3>2
      <4> QED BY <4>1, <4>2, <4>3, <4>4
    <3> HIDE DEF low, high
    <3>3. \A n : n \in 1 .. r \/ n \in low .. high => n \in Int
      BY <1>1, <3>1
    <3> QED BY <3>2, <3>3
  <2> QED BY <2>1, <2>2
<1>5. Cardinality(Overlap(known, run, shift)) >= MinOverlap <=> high - low + 1 >= MinOverlap
  <2>1. low \in Int /\ high \in Int
    BY <1>1
  <2>2. Cardinality(low .. high) = IF low > high THEN 0 ELSE high - low + 1
    BY <2>1, FS_Interval
  <2> HIDE DEF low, high
  <2> QED BY <1>4, <2>1, <2>2, RingConstants
<1>6. high - low + 1 >= MinOverlap <=> Meets(ledger, first, from, to, offset)
  <2>1. ASSUME high - low + 1 >= MinOverlap
        PROVE  Meets(ledger, first, from, to, offset)
    <3> DEFINE c == from + low - 1
    <3>1. c \in from .. to /\ c + MinOverlap - 1 <= to
      BY <1>1, <2>1, RingConstants
    <3>2. offset + c >= first /\ offset + c + MinOverlap - 1 <= l
      BY <1>1, <2>1, RingConstants
    <3> HIDE DEF c, offset
    <3> QED BY <3>1, <3>2 DEF Meets
  <2>2. ASSUME Meets(ledger, first, from, to, offset)
        PROVE  high - low + 1 >= MinOverlap
    <3>1. PICK c \in from .. to : /\ c + MinOverlap - 1 <= to
                                  /\ offset + c >= first
                                  /\ offset + c + MinOverlap - 1 <= l
      BY <2>2 DEF Meets
    <3> QED BY <1>1, <3>1, RingConstants
  <2> QED BY <2>1, <2>2
<1>7. Agree(known, run, shift) <=> Agrees(ledger, first, from, to, offset)
  <2>1. ASSUME Agree(known, run, shift), NEW c \in from .. to, offset + c \in first .. l
        PROVE  BytesOf(ledger[offset + c].record) = BytesOf(c)
    <3> DEFINE n == c - from + 1
    <3>1. n \in 1 .. r /\ shift + n \in 1 .. k /\ from + n - 1 = c
          /\ first + (shift + n) - 1 = offset + c
      BY <1>1, <2>1
    <3> HIDE DEF n, offset
    <3>2. n \in Overlap(known, run, shift)
      BY <1>2, <1>3, <3>1 DEF Overlap
    <3>3. BytesOf(known[shift + n].record) = BytesOf(run[n])
      BY <2>1, <3>2 DEF Agree
    <3> QED BY <1>2, <1>3, <3>1, <3>3
  <2>2. ASSUME Agrees(ledger, first, from, to, offset), NEW n \in Overlap(known, run, shift)
        PROVE  BytesOf(known[shift + n].record) = BytesOf(run[n])
    <3> DEFINE c == from + n - 1
    <3>1. n \in 1 .. r /\ shift + n \in 1 .. k
      BY <1>2, <1>3 DEF Overlap
    <3>2. c \in from .. to /\ offset + c \in first .. l /\ first + (shift + n) - 1 = offset + c
      BY <1>1, <3>1
    <3> HIDE DEF offset
    <3>3. BytesOf(ledger[offset + c].record) = BytesOf(c)
      BY <2>2, <3>2 DEF Agrees
    <3> QED BY <1>2, <1>3, <3>1, <3>2, <3>3
  <2> QED BY <2>1, <2>2 DEF Agree, Agrees
<1>8. Meets(ledger, first, from, to, offset) =>
        shift \in MinOverlap - Len(run) .. Len(known) - MinOverlap
  <2> SUFFICES ASSUME Meets(ledger, first, from, to, offset)
               PROVE  shift \in MinOverlap - Len(run) .. Len(known) - MinOverlap
    OBVIOUS
  <2>0. MinOverlap \in Nat
    BY RingConstants
  <2>1. PICK c \in from .. to : /\ c + MinOverlap - 1 <= to
                                /\ offset + c >= first
                                /\ offset + c + MinOverlap - 1 <= l
    BY DEF Meets
  <2>2. MinOverlap - r <= shift /\ shift <= k - MinOverlap
    BY <1>1, <2>0, <2>1
  <2>3. MinOverlap - r \in Int /\ k - MinOverlap \in Int
    BY <1>1, <2>0
  <2>4. Len(run) = r /\ Len(known) = k
    BY <1>2, <1>3
  <2> HIDE DEF r, k
  <2> QED BY <2>2, <2>3, <2>4
<1> HIDE DEF offset
<1> QED BY <1>5, <1>6, <1>7, <1>8 DEF Shifts, Fits, known, run, offset

LEMMA AlignRunTells ==
  ASSUME NEW known, NEW run, Len(known) \in Int, Len(run) \in Int
  PROVE  /\ Shifts(known, run) \subseteq Int
         /\ AlignRun(known, run) # NoShift <=> \E s : Shifts(known, run) = {s}
         /\ AlignRun(known, run) # NoShift => AlignRun(known, run) = Shifts(known, run)
<1> DEFINE range == MinOverlap - Len(run) .. Len(known) - MinOverlap
<1>1. IsFiniteSet(range) /\ Shifts(known, run) \subseteq range
  <2>1. MinOverlap - Len(run) \in Int /\ Len(known) - MinOverlap \in Int
    BY RingConstants
  <2> QED BY <2>1, FS_Interval DEF Shifts
<1>2. IsFiniteSet(Shifts(known, run))
  BY <1>1, FS_Subset
<1>3. Cardinality(Shifts(known, run)) = 1 <=> \E s : Shifts(known, run) = {s}
  BY <1>2, FS_Singleton
<1>4. \A s : Shifts(known, run) = {s} => Shifts(known, run) # {}
  OBVIOUS
<1>5. Shifts(known, run) \subseteq Int
  BY <1>1
<1> QED BY <1>3, <1>4, <1>5 DEF AlignRun, NoShift

-----------------------------------------------------------------------------
(* One run folded. *)

LEMMA RestFacts ==
  ASSUME NEW S, NEW seq \in Seq(S), NEW p \in Nat, p >= 1, NEW k \in Nat,
         k = IF p > Len(seq) THEN 0 ELSE Len(seq) - p + 1
  PROVE  /\ SubSeq(seq, p, Len(seq)) \in Seq(S) /\ Len(SubSeq(seq, p, Len(seq))) = k
         /\ \A i \in 1 .. k : /\ SubSeq(seq, p, Len(seq))[i] = seq[i + p - 1]
                             /\ i + p - 1 \in 1 .. Len(seq)
<1> DEFINE rest == SubSeq(seq, p, Len(seq))
<1>1. Len(seq) \in Nat /\ \A i \in 1 .. Len(seq) : seq[i] \in S
  OBVIOUS
<1>2. rest = [i \in 1 .. Len(seq) - p + 1 |-> seq[i + p - 1]]
  BY <1>1
<1>3. 1 .. Len(seq) - p + 1 = 1 .. k
  BY <1>1
<1>4. \A i \in 1 .. k : i + p - 1 \in 1 .. Len(seq)
  BY <1>1
<1>5. rest = [i \in 1 .. k |-> seq[i + p - 1]]
  BY <1>2, <1>3
<1> HIDE DEF rest
<1>6. rest \in [1 .. k -> S]
  BY <1>1, <1>4, <1>5
<1>7. rest \in Seq(S) /\ Len(rest) = k
  BY <1>6, FunctionIsSequence
<1> QED BY <1>4, <1>5, <1>7 DEF rest

\* Beside the row it fits, behind the last row for want of a place, or not at all.
LEMMA FoldRunPlaces ==
  ASSUME NEW ledger, Sound(ledger), NEW first \in 1 .. Len(ledger) + 1,
         NEW from \in Records, NEW to \in Records, from <= to
  PROVE  LET later == FoldRun(ledger, Stretch(from, to), first)
             l == Len(ledger)
         IN
         \/ \E offset \in Int :
              /\ OnlyFit(ledger, first, from, to, offset)
              /\ Grown(ledger, later, offset, IF offset + to > l THEN offset + to ELSE l, FALSE)
         \/ /\ ~\E offset \in Int : OnlyFit(ledger, first, from, to, offset)
            /\ \/ to - from + 1 < MinOverlap /\ later = ledger
               \/ /\ to - from + 1 >= MinOverlap
                  /\ Grown(ledger, later, l - from + 1, l + to - from + 1, TRUE)
<1> DEFINE known == SubSeq(ledger, first, Len(ledger))
           run == Stretch(from, to)
           later == FoldRun(ledger, run, first)
           l == Len(ledger)
<1>1. l \in Nat /\ first \in Nat /\ first >= 1 /\ from \in Nat /\ to \in Nat
  BY SoundFacts, RingConstants DEF Records
<1>2. /\ run \in Seq(Records) /\ DOMAIN run = 1 .. to - from + 1 /\ Len(run) = to - from + 1
      /\ \A n \in 1 .. to - from + 1 : run[n] = from + n - 1
  BY StretchFacts
<1>0. Len(run) = to - from + 1
  BY <1>2
<1>3. Len(known) = l - first + 1
  BY SeenFacts
<1>4. \A shift \in Int : shift \in Shifts(known, run)
                         <=> Fits(ledger, first, from, to, shift + first - from)
  BY ShiftsAreFits
<1>5. /\ Shifts(known, run) \subseteq Int
      /\ AlignRun(known, run) # NoShift <=> \E s : Shifts(known, run) = {s}
      /\ AlignRun(known, run) # NoShift => AlignRun(known, run) = Shifts(known, run)
  <2>1. Len(known) \in Int /\ Len(run) \in Int
    BY <1>1, <1>2, <1>3
  <2> HIDE DEF known, run
  <2> QED BY <2>1, AlignRunTells
<1>6. later = IF AlignRun(known, run) # NoShift
              THEN Appended(ledger, SubSeq(run, Len(known) - (CHOOSE s \in AlignRun(known, run) : TRUE) + 1,
                                           Len(run)), FALSE)
              ELSE IF Len(run) < MinOverlap THEN ledger ELSE Appended(ledger, run, TRUE)
  BY DEF FoldRun
<1> HIDE DEF known, run, later
<1>7. CASE AlignRun(known, run) # NoShift
  <2>1. PICK shift \in Int : Shifts(known, run) = {shift}
    BY <1>5, <1>7
  <2> DEFINE offset == shift + first - from
             end == IF offset + to > l THEN offset + to ELSE l
             more == SubSeq(run, Len(known) - shift + 1, Len(run))
  <2>2. (CHOOSE s \in AlignRun(known, run) : TRUE) = shift
    BY <1>5, <1>7, <2>1
  <2>3. later = Appended(ledger, more, FALSE)
    BY <1>6, <1>7, <2>2
  <2>4. offset \in Int /\ Fits(ledger, first, from, to, offset)
    BY <1>1, <1>4, <2>1
  <2>5. ASSUME NEW other \in Int, Fits(ledger, first, from, to, other)
        PROVE  other = offset
    <3> DEFINE s == other - first + from
    <3>1. s \in Int /\ s + first - from = other
      BY <1>1
    <3> HIDE DEF s
    <3>2. s = shift
      BY <1>4, <2>1, <2>5, <3>1
    <3> QED BY <3>1, <3>2
  <2>6. OnlyFit(ledger, first, from, to, offset)
    BY <2>4, <2>5 DEF OnlyFit
  <2>7. PICK c \in from .. to : /\ c + MinOverlap - 1 <= to
                                /\ offset + c >= first
                                /\ offset + c + MinOverlap - 1 <= l
    BY <2>4 DEF Fits, Meets
  <2>8. more \in Seq(Records) /\ Len(more) = end - l
        /\ \A i \in 1 .. Len(more) : more[i] = l + i - offset
    <3> DEFINE p == Len(known) - shift + 1
               k == end - l
    <3>1. p = l - offset - from + 2 /\ p \in Nat /\ p >= 1 /\ k \in Nat /\ end \in Nat
      BY <1>1, <1>3, <2>7, RingConstants
    <3>2. k = IF p > Len(run) THEN 0 ELSE Len(run) - p + 1
      <4>1. k = IF offset + to > l THEN offset + to - l ELSE 0
        BY <1>1, <2>4
      <4>2. Len(run) - p + 1 = offset + to - l /\ (p > Len(run) <=> ~(offset + to > l))
        <5>1. Len(run) = to - from + 1
          BY <1>0
        <5> HIDE DEF p, offset, run
        <5> QED BY <1>1, <2>4, <3>1, <5>1
      <4> HIDE DEF p, k, offset, run
      <4>3. CASE offset + to > l
        BY <4>1, <4>2, <4>3
      <4>4. CASE ~(offset + to > l)
        BY <4>1, <4>2, <4>4
      <4> QED BY <4>3, <4>4
    <3> HIDE DEF p, k, offset, end
    <3>3. \A i \in 1 .. k : from + (i + p - 1) - 1 = l + i - offset
      <4> HIDE DEF l
      <4> QED BY <1>1, <2>4, <3>1
    <3>4. /\ SubSeq(run, p, Len(run)) \in Seq(Records) /\ Len(SubSeq(run, p, Len(run))) = k
          /\ \A i \in 1 .. k : /\ SubSeq(run, p, Len(run))[i] = run[i + p - 1]
                              /\ i + p - 1 \in 1 .. Len(run)
      <4>1. run \in Seq(Records) /\ p \in Nat /\ p >= 1 /\ k \in Nat
        BY <1>2, <3>1
      <4> HIDE DEF run
      <4> QED BY <3>2, <4>1, RestFacts
    <3>5. \A i \in 1 .. k : SubSeq(run, p, Len(run))[i] = l + i - offset
      BY <1>2, <1>0, <3>3, <3>4
    <3>6. more = SubSeq(run, p, Len(run))
      BY DEF p
    <3> QED BY <3>4, <3>5, <3>6 DEF k
  <2>9. end \in Nat /\ end >= l
    BY <1>1, <2>4
  <2> HIDE DEF offset, end, more
  <2>10. Grown(ledger, later, offset, end, FALSE)
    BY <2>3, <2>4, <2>8, <2>9, AppendedGrows
  <2> QED BY <2>4, <2>6, <2>10 DEF later, run, end
<1>8. CASE AlignRun(known, run) = NoShift
  <2>1. ASSUME NEW offset \in Int, OnlyFit(ledger, first, from, to, offset)
        PROVE  FALSE
    <3> DEFINE shift == offset - first + from
    <3>1. shift \in Int /\ shift + first - from = offset
      BY <1>1
    <3> HIDE DEF shift
    <3>2. shift \in Shifts(known, run)
      BY <1>4, <2>1, <3>1 DEF OnlyFit
    <3>3. ASSUME NEW s \in Shifts(known, run)
          PROVE  s = shift
      <4>1. s \in Int
        BY <1>5
      <4>2. s + first - from \in Int /\ Fits(ledger, first, from, to, s + first - from)
        BY <1>1, <1>4, <4>1
      <4>3. s + first - from = offset
        BY <2>1, <4>2 DEF OnlyFit
      <4> QED BY <1>1, <3>1, <4>1, <4>3
    <3>4. Shifts(known, run) = {shift}
      BY <3>2, <3>3
    <3> QED BY <1>5, <1>8, <3>4
  <2>2. CASE to - from + 1 < MinOverlap
    <3>1. later = ledger
      BY <1>0, <1>6, <1>8, <2>2
    <3> QED BY <2>1, <2>2, <3>1 DEF later, run
  <2>3. CASE to - from + 1 >= MinOverlap
    <3>0. ~(Len(run) < MinOverlap)
      BY <1>0, <1>1, <2>3, RingConstants
    <3>1. later = Appended(ledger, run, TRUE)
      BY <1>6, <1>8, <3>0
    <3> DEFINE shift == l - from + 1
               end == l + to - from + 1
    <3>2. shift \in Int /\ end \in Nat /\ end >= l /\ Len(run) = end - l
          /\ \A i \in 1 .. Len(run) : run[i] = l + i - shift
      BY <1>1, <1>2
    <3> HIDE DEF shift, end
    <3>3. Grown(ledger, later, shift, end, TRUE)
      BY <1>2, <3>1, <3>2, AppendedGrows
    <3> QED BY <2>1, <2>3, <3>3 DEF shift, end, later, run
  <2>4. to - from + 1 < MinOverlap \/ to - from + 1 >= MinOverlap
    BY <1>1, RingConstants
  <2> QED BY <2>2, <2>3, <2>4
<1> QED BY <1>7, <1>8

\* A run that goes on behind the last row goes on from it.
LEMMA FitGoesOn ==
  ASSUME NEW ledger, Sound(ledger), NEW first \in 1 .. Len(ledger) + 1,
         NEW from \in Records, NEW to \in Records, NEW offset \in Int,
         Fits(ledger, first, from, to, offset)
  PROVE  /\ ledger # <<>> /\ offset + from <= Len(ledger)
         /\ offset + to > Len(ledger) => ledger[Len(ledger)].record = Len(ledger) - offset
<1> DEFINE l == Len(ledger)
<1>1. l \in Nat /\ first \in Nat /\ first >= 1 /\ from \in Nat /\ to \in Nat
  BY SoundFacts, RingConstants DEF Records
<1>2. PICK c \in from .. to : /\ c + MinOverlap - 1 <= to
                              /\ offset + c >= first
                              /\ offset + c + MinOverlap - 1 <= l
  BY DEF Fits, Meets
<1>3. l >= 3 /\ ledger # <<>> /\ offset + from <= l
  BY <1>1, <1>2, RingConstants, SoundFacts
<1>4. ASSUME offset + to > l
      PROVE  ledger[l].record = l - offset
  <2> DEFINE d == l - offset - 1
  <2>1. d \in Int /\ d \in from .. to /\ d + 1 \in from .. to /\ offset + d = l - 1 /\ offset + (d + 1) = l
        /\ l - 1 \in first .. l /\ l \in first .. l
    BY <1>1, <1>2, <1>4, RingConstants
  <2> HIDE DEF d
  <2>2. BytesOf(ledger[l - 1].record) = BytesOf(d) /\ BytesOf(ledger[l].record) = BytesOf(d + 1)
    BY <2>1 DEF Fits, Agrees
  <2>3. ~ledger[l].followsGap
    <3>1. l \in l - MinOverlap + 2 .. l
      BY <1>1, RingConstants
    <3> QED BY <1>3, <3>1, SoundFacts
  <2>4. ledger[l].record = ledger[l - 1].record + 1 /\ ledger[l - 1].record \in Int
    <3>1. l - 1 \in 1 .. l /\ l \in 1 .. l /\ l - 1 <= l /\ \A i \in (l - 1) + 1 .. l : i = l
      BY <1>1, <1>3
    <3>2. ledger[l].record = ledger[l - 1].record + l - (l - 1)
      BY <2>3, <3>1, RunsOn
    <3>3. ledger[l - 1].record \in Nat
      BY <3>1, SoundFacts
    <3> DEFINE b == ledger[l - 1].record
    <3>4. b \in Nat /\ l \in Nat
      BY <1>1, <3>3
    <3>5. ledger[l].record = b + l - (l - 1)
      BY <3>2
    <3>6. b + l - (l - 1) = b + 1 /\ b \in Int
      <4> HIDE DEF b, l
      <4> QED BY <3>4
    <3>7. ledger[l].record = b + 1 /\ b \in Int
      <4> HIDE DEF b, l
      <4> QED BY <3>5, <3>6
    <3> QED BY <3>7
  <2>5. ledger[l - 1].record = d
    BY <2>1, <2>2, <2>4, TwoTell
  <2>6. ledger[l].record = d + 1
    BY <2>4, <2>5
  <2>7. d + 1 = l - offset
    <3> HIDE DEF l
    <3> QED BY <1>1, <2>1
  <2> QED BY <2>6, <2>7
<1> QED BY <1>3, <1>4

\* What the fold of a run keeps and what it makes sure of.
Extends(ledger, later) ==
  Len(later) >= Len(ledger) /\ \A n \in 1 .. Len(ledger) : later[n] = ledger[n]

\* The record's bytes are in the ledger, or it is older than what the fold sees.
Accounted(ledger, first, record) ==
  \/ \E n \in 1 .. Len(ledger) : BytesOf(ledger[n].record) = BytesOf(record)
  \/ first \in 1 .. Len(ledger) /\ record < ledger[first].record

LEMMA FoldRunKeeps ==
  ASSUME NEW ledger, Sound(ledger), NEW first \in 1 .. Len(ledger) + 1,
         NEW from \in Records, NEW to \in Records, from <= to, to - from < RingSize
  PROVE  LET later == FoldRun(ledger, Stretch(from, to), first) IN
         /\ Sound(later) /\ Extends(ledger, later)
         /\ Len(later) <= Len(ledger) + to - from + 1
         /\ \A n \in Len(ledger) + 1 .. Len(later) : later[n].record \in from .. to
         /\ to - from + 1 >= MinOverlap =>
              \A record \in from .. to : Accounted(later, first, record)
<1> DEFINE later == FoldRun(ledger, Stretch(from, to), first)
           l == Len(ledger)
<1>1. /\ l \in Nat /\ first \in Nat /\ first >= 1 /\ from \in Nat /\ to \in Nat /\ from >= 1
      /\ RingSize \in Nat
  BY SoundFacts, RingConstants DEF Records
<1>2. CASE \E offset \in Int :
              /\ OnlyFit(ledger, first, from, to, offset)
              /\ Grown(ledger, later, offset, IF offset + to > l THEN offset + to ELSE l, FALSE)
  <2>1. PICK offset \in Int :
              /\ OnlyFit(ledger, first, from, to, offset)
              /\ Grown(ledger, later, offset, IF offset + to > l THEN offset + to ELSE l, FALSE)
    BY <1>2
  <2> DEFINE end == IF offset + to > l THEN offset + to ELSE l
  <2>2. Fits(ledger, first, from, to, offset)
    BY <2>1 DEF OnlyFit
  <2>3. /\ ledger # <<>> /\ offset + from <= l
        /\ offset + to > l => ledger[l].record = l - offset
    BY <2>2, FitGoesOn
  <2>4. end \in Nat /\ end >= l /\ (end > l => ledger[l].record = l - offset)
    BY <1>1, <2>3
  <2> HIDE DEF later, end
  <2>5. Grown(ledger, later, offset, end, FALSE)
    BY <2>1 DEF end
  <2>6. Sound(later)
    BY <2>3, <2>4, <2>5, GrownIsSound
  <2>7. /\ Len(later) = end /\ \A n \in 1 .. l : later[n] = ledger[n]
        /\ \A n \in l + 1 .. end : later[n].record = n - offset
    BY <2>5 DEF Grown
  <2>8. Extends(ledger, later)
    BY <2>4, <2>7 DEF Extends
  <2>9. end <= l + to - from + 1
    BY <1>1, <2>3, <2>4 DEF end
  <2>10. \A n \in l + 1 .. end : later[n].record \in from .. to
    BY <1>1, <2>3, <2>7 DEF end
  <2>11. ASSUME NEW record \in from .. to
         PROVE  Accounted(later, first, record)
    <3>1. CASE offset + record \in first .. l
      <4>1. BytesOf(ledger[offset + record].record) = BytesOf(record)
        BY <2>2, <3>1 DEF Fits, Agrees
      <4>2. offset + record \in 1 .. l /\ offset + record \in 1 .. Len(later)
        BY <1>1, <2>4, <2>7, <3>1
      <4> QED BY <2>7, <4>1, <4>2 DEF Accounted
    <3>2. CASE offset + record > l
      <4>1. offset + record \in l + 1 .. end
        BY <1>1, <3>2 DEF end
      <4>2. later[offset + record].record = record /\ offset + record \in 1 .. Len(later)
        BY <1>1, <2>7, <4>1
      <4> QED BY <4>2 DEF Accounted
    <3>3. CASE offset + record < first
      <4>1. PICK c \in from .. to : /\ c + MinOverlap - 1 <= to
                                    /\ offset + c >= first
                                    /\ offset + c + MinOverlap - 1 <= l
        BY <2>2 DEF Fits, Meets
      <4> DEFINE d == first - offset
      <4>2. /\ d \in from .. to /\ d \in Int /\ offset + d = first /\ first \in first .. l
            /\ first \in 1 .. l /\ record < d
        BY <1>1, <3>3, <4>1, RingConstants
      <4> HIDE DEF d
      <4>3. BytesOf(ledger[first].record) = BytesOf(d)
        BY <2>2, <4>2 DEF Fits, Agrees
      <4>4. ledger[first].record \in Int /\ later[first] = ledger[first] /\ first \in 1 .. Len(later)
        BY <1>1, <2>4, <2>7, <4>2, SoundFacts
      <4>5. ledger[first].record >= d - 1
        BY <4>2, <4>3, <4>4, OneTells
      <4>6. CASE record = ledger[first].record
        BY <4>4, <4>6 DEF Accounted
      <4>7. CASE record # ledger[first].record
        <5>1. record < ledger[first].record
          BY <1>1, <4>2, <4>4, <4>5, <4>7
        <5> QED BY <4>4, <5>1 DEF Accounted
      <4> QED BY <4>6, <4>7
    <3> QED BY <1>1, <3>1, <3>2, <3>3
  <2> QED BY <2>6, <2>7, <2>8, <2>9, <2>10, <2>11 DEF later
<1>3. CASE to - from + 1 < MinOverlap /\ later = ledger
  <2>1. /\ Len(ledger) <= Len(ledger) + to - from + 1
        /\ \A n \in Len(ledger) + 1 .. Len(ledger) : FALSE
        /\ ~(to - from + 1 >= MinOverlap)
    BY <1>1, <1>3, RingConstants
  <2> HIDE DEF later
  <2> QED BY <1>1, <1>3, <2>1 DEF Extends, later
<1>4. CASE to - from + 1 >= MinOverlap /\ Grown(ledger, later, l - from + 1, l + to - from + 1, TRUE)
  <2> DEFINE shift == l - from + 1
             end == l + to - from + 1
  <2>1. shift \in Int /\ end \in Nat /\ end >= l + MinOverlap /\ MinOverlap <= RingSize
        /\ end >= l
    BY <1>1, <1>4, RingConstants
  <2>2. \A n \in l + 1 .. end : n - shift \in from .. to
    BY <1>1
  <2>3. \A record \in from .. to : record + shift \in l + 1 .. end /\ (record + shift) - shift = record
    BY <1>1
  <2>4. end <= l + to - from + 1
    BY <1>1
  <2> HIDE DEF later, shift, end
  <2>5. Grown(ledger, later, shift, end, TRUE)
    BY <1>4 DEF shift, end
  <2>6. Sound(later)
    BY <2>1, <2>5, GrownIsSound
  <2>7. /\ Len(later) = end /\ \A n \in 1 .. l : later[n] = ledger[n]
        /\ \A n \in l + 1 .. end : later[n].record = n - shift
    BY <2>5 DEF Grown
  <2>8. Extends(ledger, later)
    BY <2>1, <2>7 DEF Extends
  <2>9. ASSUME NEW record \in from .. to
        PROVE  Accounted(later, first, record)
    <3>1. later[record + shift].record = record /\ record + shift \in 1 .. Len(later)
      BY <1>1, <2>1, <2>3, <2>7
    <3> QED BY <3>1 DEF Accounted
  <2> QED BY <2>2, <2>4, <2>6, <2>7, <2>8, <2>9 DEF later
<1> QED BY <1>2, <1>3, <1>4, FoldRunPlaces

-----------------------------------------------------------------------------
(* Reads that lost no frame before their last.  *)

LEMMA LastBreak ==
  ASSUME NEW ledger, Sound(ledger), ledger # <<>>
  PROVE  \E g \in 1 .. Len(ledger) :
           ledger[g].followsGap /\ \A n \in g + 1 .. Len(ledger) : ~ledger[n].followsGap
<1> DEFINE l == Len(ledger)
           S == {d \in 0 .. l - 1 : ledger[l - d].followsGap}
<1>1. l \in Nat /\ l # 0 /\ ledger[1].followsGap
  BY SoundFacts
<1>2. l - 1 \in S /\ S \in SUBSET Nat
  <2>1. l - 1 \in 0 .. l - 1 /\ l - (l - 1) = 1
    BY <1>1
  <2> QED BY <1>1, <2>1
<1>3. PICK d \in S : \A e \in S : d <= e
  BY <1>2, LeastExists
<1>4. d \in 0 .. l - 1 /\ ledger[l - d].followsGap /\ l - d \in 1 .. l
  BY <1>1, <1>3
<1>5. ASSUME NEW n \in (l - d) + 1 .. l, ledger[n].followsGap
      PROVE  FALSE
  <2>1. l - n \in 0 .. l - 1 /\ l - (l - n) = n /\ l - n < d
    BY <1>1, <1>4
  <2>2. l - n \in S
    BY <1>5, <2>1
  <2> QED BY <1>1, <1>3, <1>4, <2>1, <2>2
<1> QED BY <1>4, <1>5

LEMMA NextBreak ==
  ASSUME NEW ledger, NEW p \in Nat, NEW g \in Nat, p < g, ledger[g].followsGap
  PROVE  \E h \in p + 1 .. g :
           ledger[h].followsGap /\ \A n \in p + 1 .. h - 1 : ~ledger[n].followsGap
<1> DEFINE S == {n \in p + 1 .. g : ledger[n].followsGap}
<1>1. g \in S /\ S \in SUBSET Nat
  OBVIOUS
<1>2. PICK h \in S : \A n \in S : h <= n
  BY <1>1, LeastExists
<1>3. ASSUME NEW n \in p + 1 .. h - 1, ledger[n].followsGap
      PROVE  FALSE
  <2>1. n \in S /\ n < h
    BY <1>1, <1>3
  <2> QED BY <1>1, <1>2, <2>1
<1> QED BY <1>2, <1>3

\* Two neighbours of the ledger that a run agrees with are the run's own records.
LEMMA NeighboursTell ==
  ASSUME NEW ledger, Sound(ledger), NEW first \in 1 .. Len(ledger) + 1,
         NEW from \in Records, NEW to \in Records, NEW offset \in Int,
         Agrees(ledger, first, from, to, offset),
         NEW c \in Nat, c \in from .. to, c + 1 \in from .. to,
         offset + c \in first .. Len(ledger), offset + (c + 1) \in first .. Len(ledger),
         ~ledger[offset + (c + 1)].followsGap
  PROVE  ledger[offset + c].record = c
<1> DEFINE p == offset + c
<1>0. Len(ledger) \in Nat
  BY SoundFacts
<1>1. /\ p \in 1 .. Len(ledger) /\ p + 1 \in 1 .. Len(ledger) /\ offset + (c + 1) = p + 1
      /\ \A i \in p + 1 .. p + 1 : i = p + 1
      /\ p \in Nat /\ p <= p + 1 /\ (p + 1) - p = 1
  BY <1>0
<1> HIDE DEF p
<1>2. ledger[p + 1].record = ledger[p].record + (p + 1) - p
  BY <1>1, RunsOn
<1>5. ledger[p].record \in Nat
  BY <1>1, SoundFacts
<1>3. ledger[p].record \in Int /\ ledger[p + 1].record = ledger[p].record + 1
  <2> DEFINE b == ledger[p].record
  <2>1. b \in Nat /\ p \in Nat
    BY <1>1, <1>5
  <2>2. ledger[p + 1].record = b + (p + 1) - p
    BY <1>2
  <2> HIDE DEF b
  <2>3. b + (p + 1) - p = b + 1 /\ b \in Int
    BY <2>1
  <2>4. ledger[p + 1].record = b + 1 /\ b \in Int
    BY <2>2, <2>3
  <2> QED BY <2>4 DEF b
<1>4. BytesOf(ledger[p].record) = BytesOf(c) /\ BytesOf(ledger[p + 1].record) = BytesOf(c + 1)
  BY <1>1 DEF Agrees, p
<1> DEFINE b == ledger[p].record
<1>6. b \in Int /\ BytesOf(b) = BytesOf(c) /\ BytesOf(b + 1) = BytesOf(c + 1)
  BY <1>3, <1>4
<1> HIDE DEF b
<1>7. b = c
  BY <1>6, TwoTell
<1> QED BY <1>7 DEF b, p

\* The first break behind row p: row h, between the records b and e.
BreaksAt(ledger, p, h, b, e) ==
  /\ p < h /\ h <= Len(ledger) /\ ledger[h].followsGap
  /\ \A n \in p + 1 .. h - 1 : ~ledger[n].followsGap
  /\ ledger[h - 1].record = b /\ ledger[h].record = e

\* A fit astride a break would have the ledger go back over more than it does.
LEMMA NoFitAstrideABreak ==
  ASSUME NEW ledger, Sound(ledger), NEW first \in 1 .. Len(ledger) + 1,
         NEW from \in Records, NEW to \in Records, NEW offset \in Int,
         Agrees(ledger, first, from, to, offset),
         NEW c \in Nat, NEW p \in Nat, NEW h \in Nat, NEW b \in Nat, NEW e \in Nat,
         BreaksAt(ledger, p, h, b, e), offset + c = p,
         c >= from, p >= first, c + MinOverlap - 1 <= to, p + MinOverlap - 1 <= Len(ledger),
         e <= from, b - e + 1 < MinOverlap
  PROVE  FALSE
<1> DEFINE l == Len(ledger)
<1>1. /\ MinOverlap \in Nat /\ MinOverlap >= 3 /\ first \in Nat /\ first >= 1
      /\ from \in Nat /\ to \in Nat /\ p >= 1 /\ l \in Nat
  <2>1. l \in Nat
    BY SoundFacts
  <2>2. from \in Nat /\ to \in Nat
    BY RingConstants DEF Records
  <2>3. MinOverlap \in Nat /\ MinOverlap >= 3
    BY RingConstants
  <2>4. first \in Nat /\ first >= 1
    BY <2>1
  <2> QED BY <2>1, <2>2, <2>3, <2>4
<1>4. p < h /\ h <= l
  BY DEF BreaksAt
<1>5. ledger[h].followsGap /\ \A n \in p + 1 .. h - 1 : ~ledger[n].followsGap
  BY DEF BreaksAt
<1>6. ledger[h - 1].record = b /\ ledger[h].record = e
  BY DEF BreaksAt
<1>7. DOMAIN ledger = 1 .. l
  BY SoundFacts
<1> HIDE DEF l
<1>8. p + MinOverlap - 1 <= l
  BY DEF l
<1>2. CASE h = p + 1
  <2>1. h + 1 <= l /\ 1 < h
    BY <1>1, <1>2, <1>8
  <2>2. ~ledger[h + 1].followsGap
    <3>1. h \in DOMAIN ledger /\ h + 1 \in DOMAIN ledger /\ h < h + 1
      BY <1>1, <1>7, <2>1
    <3>2. ledger[h + 1].followsGap => h + 1 >= h + MinOverlap
      BY <1>5, <2>1, <3>1 DEF Sound, LongBlocks
    <3>3. ~(h + 1 >= h + MinOverlap)
      BY <1>1
    <3> QED BY <3>2, <3>3
  <2>3. PICK d \in Nat : d = c + 1
    OBVIOUS
  <2>4. offset + d = h /\ offset + (d + 1) = h + 1
    BY <1>1, <1>2, <2>3
  <2>5. /\ d \in from .. to /\ d + 1 \in from .. to
        /\ h \in first .. l /\ h + 1 \in first .. l
    BY <1>1, <1>2, <2>1, <2>3
  <2>6. ledger[offset + d].record = d
    BY <2>2, <2>4, <2>5, NeighboursTell DEF l
  <2>7. e = d
    BY <1>6, <2>4, <2>6
  <2> QED BY <1>1, <2>3, <2>7
<1>3. CASE h > p + 1
  <2>1. /\ c \in from .. to /\ c + 1 \in from .. to /\ p \in first .. l /\ p + 1 \in first .. l
        /\ offset + (c + 1) = p + 1 /\ p + 1 \in p + 1 .. h - 1
    BY <1>1, <1>3, <1>4, <1>8
  <2>2. ledger[p].record = c
    <3>1. ~ledger[offset + (c + 1)].followsGap
      BY <1>5, <2>1
    <3> QED BY <2>1, <3>1, NeighboursTell DEF l
  <2>3. b = c + (h - 1) - p
    <3>1. p \in 1 .. l /\ h - 1 \in 1 .. l /\ p <= h - 1
      BY <1>1, <1>3, <1>4
    <3>2. ledger[h - 1].record = ledger[p].record + (h - 1) - p
      BY <1>5, <3>1, RunsOn DEF l
    <3> QED BY <1>6, <2>2, <3>2
  <2>4. PICK d \in Int : d = h - offset
    OBVIOUS
  <2>5. d \in from .. to /\ offset + d = h /\ h \in first .. l /\ d >= c + 2
    BY <1>1, <1>3, <1>4, <1>8, <2>3, <2>4
  <2>6. BytesOf(ledger[h].record) = BytesOf(d)
    BY <2>5 DEF Agrees, l
  <2>7. e >= d - 1
    BY <1>6, <2>6, OneTells
  <2> QED BY <1>1, <2>5, <2>7
<1> QED BY <1>2, <1>3, <1>4

\* The last row is at l and of record r, the last break at g.
EndsAt(ledger, l, r, g) ==
  /\ Len(ledger) = l /\ l >= 1 /\ ledger[l].record = r
  /\ g >= 1 /\ g <= l /\ ledger[g].followsGap
  /\ \A n \in g + 1 .. l : ~ledger[n].followsGap

LEMMA BehindTheLastBreak ==
  ASSUME NEW ledger, Sound(ledger), NEW l \in Nat, NEW r \in Nat, NEW g \in Nat,
         EndsAt(ledger, l, r, g), NEW p \in Nat, p >= g, p <= l
  PROVE  ledger[p].record = p - (l - r)
<1>1. p \in 1 .. Len(ledger) /\ l \in 1 .. Len(ledger)
  BY DEF EndsAt
<1>2. \A i \in p + 1 .. l : ~ledger[i].followsGap
  <2>1. \A i \in p + 1 .. l : i \in g + 1 .. l
    OBVIOUS
  <2> QED BY <2>1 DEF EndsAt
<1>3. ledger[l].record = ledger[p].record + l - p
  BY <1>1, <1>2, RunsOn
<1>4. r = ledger[p].record + l - p
  BY <1>3 DEF EndsAt
<1>5. ledger[p].record \in Nat
  BY <1>1, SoundFacts
<1>6. \A x \in Nat : r = x + l - p => x = p - (l - r)
  OBVIOUS
<1> QED BY <1>4, <1>5, <1>6

\* A read the ledger holds enough of fits where it belongs.
LEMMA TheRingFits ==
  ASSUME NEW ledger, Sound(ledger), NEW first \in 1 .. Len(ledger) + 1,
         NEW from \in Records, NEW to \in Records, FromTheRing(ledger, from),
         NEW l \in Nat, NEW r \in Nat, NEW g \in Nat, EndsAt(ledger, l, r, g),
         to - from + 1 >= MinOverlap, r - from < RingSize, r - from + 1 >= MinOverlap,
         first = 1 \/ first = l - TailLength + 1
  PROVE  Fits(ledger, first, from, to, l - r)
<1>0. /\ MinOverlap \in Nat /\ MinOverlap >= 3 /\ RingSize \in Nat /\ TailLength \in Nat
      /\ KeptRows \in Nat /\ RingSize <= TailLength /\ TailLength <= KeptRows
      /\ from \in Nat /\ to \in Nat /\ from >= 1
  BY RingConstants DEF Records
<1>1. l >= 1 /\ g >= 1 /\ g <= l
  BY DEF EndsAt
<1>2. (l - r) + from >= g
  <2>1. PICK x \in Nat : ledger[g].record = x
    <3>1. g \in 1 .. Len(ledger)
      BY DEF EndsAt
    <3> QED BY <3>1, SoundFacts
  <2>2. x = g - (l - r)
    <3>1. g >= g
      OBVIOUS
    <3>2. ledger[g].record = g - (l - r)
      BY <1>1, <3>1, BehindTheLastBreak
    <3> QED BY <2>1, <3>2
  <2>3. ledger # <<>> /\ (g # 1 => g \in 2 .. Len(ledger)) /\ ledger[g].followsGap /\ Len(ledger) = l
    BY <1>1, SoundFacts DEF EndsAt
  <2>4. x <= from \/ (g = 1 /\ l >= KeptRows)
    <3>1. CASE g = 1
      <4>1. ledger[1].record <= from \/ Len(ledger) >= KeptRows
        BY <2>3 DEF FromTheRing
      <4>2. ledger[1].record = x
        BY <2>1, <3>1
      <4>3. x <= from \/ Len(ledger) >= KeptRows
        BY <4>1, <4>2
      <4> QED BY <1>0, <2>3, <3>1, <4>3
    <3>2. CASE g # 1
      <4>1. g \in 2 .. Len(ledger) /\ ledger[g].followsGap
        BY <2>3, <3>2
      <4>2. ledger[g].record <= from
        BY <4>1 DEF FromTheRing
      <4>3. x <= from
        BY <2>1, <4>2
      <4> QED BY <1>0, <4>3
    <3> QED BY <3>1, <3>2
  <2>5. CASE x <= from
    BY <1>0, <2>2, <2>5
  <2>6. CASE g = 1 /\ l >= KeptRows
    BY <1>0, <2>6
  <2> QED BY <2>4, <2>5, <2>6
<1>3. (l - r) + from >= first
  BY <1>0, <1>1, <1>2
<1>4. Meets(ledger, first, from, to, l - r)
  <2>1. from \in from .. to /\ from + MinOverlap - 1 <= to
    BY <1>0
  <2>2. (l - r) + from + MinOverlap - 1 <= l
    BY <1>0
  <2>3. Len(ledger) = l
    BY DEF EndsAt
  <2> QED BY <1>3, <2>1, <2>2, <2>3 DEF Meets
<1>5. ASSUME NEW c \in from .. to, (l - r) + c \in first .. Len(ledger)
      PROVE  BytesOf(ledger[(l - r) + c].record) = BytesOf(c)
  <2>0. Len(ledger) = l /\ c \in Nat /\ c >= from /\ first \in Nat
    BY <1>0, <1>5 DEF EndsAt
  <2>1. PICK p \in Nat : p = (l - r) + c
    BY <1>0, <1>5, <2>0
  <2>2. p >= g /\ p <= l /\ p - (l - r) = c
    BY <1>0, <1>2, <1>5, <2>0, <2>1
  <2>3. ledger[p].record = p - (l - r)
    BY <2>2, BehindTheLastBreak
  <2> QED BY <2>1, <2>2, <2>3
<1>6. Agrees(ledger, first, from, to, l - r)
  BY <1>5 DEF Agrees
<1> QED BY <1>4, <1>6 DEF Fits

\* It fits nowhere else.
LEMMA TheRingFitsOnce ==
  ASSUME NEW ledger, Sound(ledger), NEW first \in 1 .. Len(ledger) + 1,
         NEW from \in Records, NEW to \in Records, FromTheRing(ledger, from),
         NEW l \in Nat, NEW r \in Nat, NEW g \in Nat, EndsAt(ledger, l, r, g),
         NEW offset \in Int, Fits(ledger, first, from, to, offset)
  PROVE  offset = l - r
<1>0. /\ MinOverlap \in Nat /\ MinOverlap >= 3 /\ first \in Nat /\ first >= 1
      /\ from \in Nat /\ to \in Nat
  BY RingConstants, SoundFacts DEF Records
<1>1. Agrees(ledger, first, from, to, offset)
  BY DEF Fits
<1>2. PICK c \in from .. to : /\ c + MinOverlap - 1 <= to
                              /\ offset + c >= first
                              /\ offset + c + MinOverlap - 1 <= Len(ledger)
  BY DEF Fits, Meets
<1>3. PICK p \in Nat : offset + c = p
  BY <1>0, <1>2
<1>7. /\ Len(ledger) = l /\ l >= 1 /\ g >= 1 /\ g <= l /\ ledger[g].followsGap
      /\ \A n \in g + 1 .. l : ~ledger[n].followsGap
  BY DEF EndsAt
<1>4. /\ c \in Nat /\ c >= from /\ p >= first /\ p + MinOverlap - 1 <= l /\ p >= 1
      /\ c + MinOverlap - 1 <= to /\ p + MinOverlap - 1 <= Len(ledger)
  BY <1>0, <1>2, <1>3, <1>7
<1>5. CASE p + MinOverlap - 2 >= g
  <2>1. PICK d \in Nat, q \in Nat : d = c + MinOverlap - 2 /\ q = p + MinOverlap - 2
    BY <1>0
  <2>2. /\ d \in from .. to /\ d + 1 \in from .. to /\ offset + d = q
        /\ offset + (d + 1) = q + 1 /\ q >= g /\ q <= l /\ q \in first .. l
        /\ q + 1 \in first .. l /\ q + 1 \in g + 1 .. l
    BY <1>0, <1>3, <1>4, <1>5, <2>1
  <2>3. ledger[offset + d].record = d
    BY <1>1, <1>7, <2>2, NeighboursTell
  <2>4. ledger[q].record = q - (l - r)
    <3>1. q \in Nat /\ q >= g /\ q <= l
      BY <2>1, <2>2
    <3>2. \A n \in Nat : n >= g /\ n <= l => ledger[n].record = n - (l - r)
      BY BehindTheLastBreak
    <3> QED BY <3>1, <3>2
  <2>5. d = q - (l - r)
    BY <2>2, <2>3, <2>4
  <2> QED BY <2>2, <2>5
<1>6. CASE p + MinOverlap - 2 < g
  <2>1. p < g
    BY <1>0, <1>4, <1>6
  <2>2. PICK h \in p + 1 .. g :
          ledger[h].followsGap /\ \A n \in p + 1 .. h - 1 : ~ledger[n].followsGap
    BY <1>7, <2>1, NextBreak
  <2>3. h \in Nat /\ p < h /\ h <= l /\ h \in 2 .. l /\ h \in 1 .. l /\ h - 1 \in 1 .. l
    BY <1>4, <1>7, <2>2
  <2>4. PICK b \in Nat, e \in Nat : ledger[h - 1].record = b /\ ledger[h].record = e
    BY <1>7, <2>3, SoundFacts
  <2>5. ledger[h].record <= from /\ ledger[h - 1].record - ledger[h].record + 1 < MinOverlap
    BY <1>7, <2>2, <2>3 DEF FromTheRing
  <2>6. e <= from /\ b - e + 1 < MinOverlap
    BY <2>4, <2>5
  <2>7. BreaksAt(ledger, p, h, b, e)
    BY <1>7, <2>2, <2>3, <2>4 DEF BreaksAt
  <2>8. FALSE
    BY <1>1, <1>3, <1>4, <2>3, <2>6, <2>7, NoFitAstrideABreak
  <2> QED BY <2>8
<1> QED BY <1>0, <1>4, <1>5, <1>6

LEMMA TheRingIsRecognised ==
  ASSUME NEW ledger, Sound(ledger), ledger # <<>>, NEW first \in 1 .. Len(ledger) + 1,
         NEW from \in Records, NEW to \in Records,
         from <= to, to - from + 1 >= MinOverlap, FromTheRing(ledger, from),
         ledger[Len(ledger)].record - from < RingSize,
         ledger[Len(ledger)].record - from + 1 >= MinOverlap,
         first = 1 \/ first = Len(ledger) - TailLength + 1
  PROVE  OnlyFit(ledger, first, from, to, Len(ledger) - ledger[Len(ledger)].record)
<1> DEFINE l == Len(ledger)
           r == ledger[l].record
<1>1. l \in Nat /\ l >= 1 /\ l \in 1 .. l
  BY SoundFacts
<1>2. r \in Nat
  BY <1>1, SoundFacts
<1>3. PICK g \in 1 .. l : ledger[g].followsGap /\ \A n \in g + 1 .. l : ~ledger[n].followsGap
  BY LastBreak
<1>4. g \in Nat /\ EndsAt(ledger, l, r, g)
  BY <1>1, <1>3 DEF EndsAt
<1>5. r - from < RingSize /\ r - from + 1 >= MinOverlap /\ (first = 1 \/ first = l - TailLength + 1)
      /\ first \in 1 .. Len(ledger) + 1
  OBVIOUS
<1> HIDE DEF l, r
<1>6. Fits(ledger, first, from, to, l - r)
  BY <1>1, <1>2, <1>4, <1>5, TheRingFits
<1>7. \A offset \in Int : Fits(ledger, first, from, to, offset) => offset = l - r
  BY <1>1, <1>2, <1>4, <1>5, TheRingFitsOnce
<1>8. OnlyFit(ledger, first, from, to, l - r)
  BY <1>6, <1>7 DEF OnlyFit
<1> QED BY <1>8 DEF l, r

\* What such a read leaves goes back over little.
LEMMA FoldRunStaysInOrder ==
  ASSUME NEW ledger, Sound(ledger), NEW first \in 1 .. Len(ledger) + 1,
         NEW from \in Records, NEW to \in Records, from <= to, FromTheRing(ledger, from),
         ledger # <<>> => ledger[Len(ledger)].record - from < RingSize,
         first = 1 \/ first = Len(ledger) - TailLength + 1
  PROVE  FromTheRing(FoldRun(ledger, Stretch(from, to), first), from)
<1> DEFINE later == FoldRun(ledger, Stretch(from, to), first)
           l == Len(ledger)
<1>1. l \in Nat /\ first \in Nat /\ first >= 1 /\ from \in Nat /\ to \in Nat
  BY SoundFacts, RingConstants DEF Records
<1>2. ASSUME NEW offset \in Int, OnlyFit(ledger, first, from, to, offset), NEW end \in Nat,
             Grown(ledger, later, offset, end, FALSE)
      PROVE  FromTheRing(later, from)
  <2> HIDE DEF later
  <2>1. ledger # <<>> /\ l >= 1
    BY <1>2, FitGoesOn, SoundFacts DEF OnlyFit
  <2>2. /\ later \in Seq(LogRows) /\ Len(later) = end /\ end >= l /\ later # <<>>
        /\ \A n \in 1 .. l : later[n] = ledger[n]
        /\ \A n \in l + 1 .. end : ~later[n].followsGap
    BY <1>1, <1>2, <2>1 DEF Grown
  <2>3. later[1].record <= from \/ Len(later) >= KeptRows
    BY <1>1, <2>1, <2>2, RingConstants DEF FromTheRing
  <2>4. \A n \in 2 .. end : later[n].followsGap =>
          n \in 2 .. l /\ ledger[n].followsGap /\ later[n] = ledger[n] /\ later[n - 1] = ledger[n - 1]
    BY <1>1, <2>1, <2>2
  <2>5. \A n \in 2 .. end : later[n].followsGap =>
          later[n].record <= from /\ later[n - 1].record - later[n].record + 1 < MinOverlap
    BY <2>4 DEF FromTheRing
  <2>6. \A m, n \in 2 .. end : m < n /\ later[m].followsGap /\ later[n].followsGap =>
          later[m].record <= later[n].record
    BY <2>4 DEF FromTheRing
  <2> QED BY <2>2, <2>3, <2>5, <2>6 DEF FromTheRing
<1>3. ASSUME ~\E offset \in Int : OnlyFit(ledger, first, from, to, offset),
             to - from + 1 >= MinOverlap,
             Grown(ledger, later, l - from + 1, l + to - from + 1, TRUE)
      PROVE  FromTheRing(later, from)
  <2> HIDE DEF later
  <2> DEFINE end == l + to - from + 1
  <2>1. /\ later \in Seq(LogRows) /\ Len(later) = end /\ end >= l + 1 /\ end \in Nat
        /\ \A n \in 1 .. l : later[n] = ledger[n]
        /\ \A n \in l + 1 .. end : later[n].followsGap <=> n = l + 1
        /\ later[l + 1].record = from
    <3>1. end >= l + 1 /\ end \in Nat /\ l + 1 \in l + 1 .. end /\ (l + 1) - (l - from + 1) = from
      BY <1>1
    <3> QED BY <1>1, <1>3, <3>1 DEF Grown
  <2> HIDE DEF end
  <2>2. ledger # <<>> => ledger[l].record - from + 1 < MinOverlap
    <3>1. ASSUME ledger # <<>>, ledger[l].record - from + 1 >= MinOverlap
          PROVE  FALSE
      <4>1. OnlyFit(ledger, first, from, to, l - ledger[l].record)
        BY <1>3, <3>1, TheRingIsRecognised
      <4>2. l - ledger[l].record \in Int
        <5>1. l \in 1 .. l
          BY <1>1, <3>1, SoundFacts
        <5> QED BY <1>1, <5>1, SoundFacts
      <4> QED BY <1>3, <4>1, <4>2
    <3>2. ledger # <<>> => ledger[l].record \in Nat
      <4>1. ledger # <<>> => l \in 1 .. l
        BY <1>1, SoundFacts
      <4> QED BY <4>1, SoundFacts
    <3> DEFINE b == ledger[l].record
    <3>3. \A n \in Nat : n - from + 1 < MinOverlap \/ n - from + 1 >= MinOverlap
      BY <1>1, RingConstants
    <3>4. ledger # <<>> => b \in Nat /\ ~(b - from + 1 >= MinOverlap)
      BY <3>1, <3>2
    <3> HIDE DEF b
    <3>5. ledger # <<>> => b - from + 1 < MinOverlap
      BY <3>3, <3>4
    <3> QED BY <3>5 DEF b
  <2>3. later # <<>> => later[1].record <= from \/ Len(later) >= KeptRows
    <3>1. CASE l = 0
      BY <1>1, <2>1, <3>1
    <3>2. CASE l # 0
      <4>1. 1 \in 1 .. l /\ ledger # <<>>
        BY <1>1, <3>2, SoundFacts
      <4> QED BY <1>1, <2>1, <4>1, RingConstants DEF FromTheRing
    <3> QED BY <3>1, <3>2
  <2>4. \A n \in 2 .. end : later[n].followsGap =>
          \/ n = l + 1 /\ n - 1 = l /\ l \in 1 .. l /\ later[l] = ledger[l] /\ ledger # <<>>
          \/ n \in 2 .. l /\ ledger[n].followsGap /\ later[n] = ledger[n] /\ later[n - 1] = ledger[n - 1]
    BY <1>1, <2>1, SoundFacts
  <2>5. ASSUME NEW n \in 2 .. end, later[n].followsGap
        PROVE  later[n].record <= from /\ later[n - 1].record - later[n].record + 1 < MinOverlap
    <3>1. CASE n = l + 1 /\ n - 1 = l /\ later[l] = ledger[l] /\ ledger # <<>>
      BY <1>1, <2>1, <2>2, <3>1
    <3>2. CASE n \in 2 .. l /\ ledger[n].followsGap /\ later[n] = ledger[n] /\ later[n - 1] = ledger[n - 1]
      BY <3>2 DEF FromTheRing
    <3> QED BY <2>4, <2>5, <3>1, <3>2
  <2>6. ASSUME NEW m \in 2 .. end, NEW n \in 2 .. end, m < n, later[m].followsGap, later[n].followsGap
        PROVE  later[m].record <= later[n].record
    <3>1. CASE n = l + 1
      BY <2>1, <2>5, <2>6, <3>1
    <3>2. CASE n \in 2 .. l /\ ledger[n].followsGap /\ later[n] = ledger[n]
      <4>1. m \in 2 .. l /\ ledger[m].followsGap /\ later[m] = ledger[m]
        BY <1>1, <2>4, <2>6, <3>2
      <4> QED BY <2>6, <3>2, <4>1 DEF FromTheRing
    <3> QED BY <2>4, <2>6, <3>1, <3>2
  <2> QED BY <2>1, <2>3, <2>5, <2>6 DEF FromTheRing
<1>4. CASE \E offset \in Int :
              /\ OnlyFit(ledger, first, from, to, offset)
              /\ Grown(ledger, later, offset, IF offset + to > l THEN offset + to ELSE l, FALSE)
  <2>1. PICK offset \in Int :
              /\ OnlyFit(ledger, first, from, to, offset)
              /\ Grown(ledger, later, offset, IF offset + to > l THEN offset + to ELSE l, FALSE)
    BY <1>4
  <2>2. (IF offset + to > l THEN offset + to ELSE l) \in Nat
    BY <1>1
  <2> HIDE DEF later
  <2>3. FromTheRing(later, from)
    BY <1>2, <2>1, <2>2
  <2> QED BY <2>3 DEF later
<1>5. CASE later = ledger
  <2> HIDE DEF later
  <2> QED BY <1>5 DEF later
<1> HIDE DEF later
<1> QED BY <1>3, <1>4, <1>5, FoldRunPlaces DEF later

-----------------------------------------------------------------------------
(* Run after run. *)

LEMMA RunFacts ==
  ASSUME NEW got \in SUBSET Records, NEW end \in RunEnds(got)
  PROVE  \E from \in got :
           /\ RunEndingAt(got, end) = Stretch(from, end)
           /\ from <= end /\ from .. end \subseteq got /\ from - 1 \notin got
<1> DEFINE S == {record \in got : record .. end \subseteq got}
<1>1. got \subseteq Nat /\ end \in got /\ end \in Nat
  BY RingConstants DEF Records, RunEnds
<1>2. end \in S /\ S \in SUBSET Nat
  <2>1. end .. end = {end}
    BY <1>1
  <2> QED BY <1>1, <2>1
<1>3. PICK from \in S : \A y \in S : from <= y
  BY <1>2, LeastExists
<1>4. Min(S) = from
  <2>1. Min(S) \in S /\ \A y \in S : Min(S) <= y
    BY <1>3 DEF Min
  <2> HIDE DEF S
  <2>2. Min(S) <= from /\ from <= Min(S) /\ Min(S) \in Nat /\ from \in Nat
    BY <1>2, <1>3, <2>1
  <2> QED BY <2>2
<1>5. from \in got /\ from .. end \subseteq got /\ from <= end
  BY <1>2, <1>3
<1>6. ASSUME from - 1 \in got
      PROVE  FALSE
  <2>1. from - 1 \in Nat /\ from \in Nat
    BY <1>1, <1>5, <1>6
  <2>2. \A i \in from - 1 .. end : i = from - 1 \/ i \in from .. end
    BY <1>1, <2>1
  <2>3. from - 1 \in S
    BY <1>5, <1>6, <2>2
  <2> QED BY <1>3, <2>1, <2>3
<1>7. RunEndingAt(got, end) = Stretch(from, end)
  BY <1>4 DEF RunEndingAt
<1> QED BY <1>5, <1>6, <1>7

\* The function FoldRingSnapshot is defined by, as far as record n.
IsRingFold(f, ledger, got, n) ==
  f = [end \in 0 .. n |->
         IF end = 0 THEN ledger
         ELSE FoldRunEndingAt(f[end - 1], got, end, FirstSeen(ledger))]

LEMMA RingFoldExists ==
  ASSUME NEW ledger, NEW got, NEW n \in Nat
  PROVE  \E f : IsRingFold(f, ledger, got, n)
<1> DEFINE Next1(l, k) == FoldRunEndingAt(l, got, k, FirstSeen(ledger))
           Is(f, k) == f = [j \in 0 .. k |-> IF j = 0 THEN ledger ELSE Next1(f[j - 1], j)]
           Without == {k \in Nat : ~\E f : Is(f, k)}
<1> HIDE DEF Next1
<1>1. ASSUME Without # {}
      PROVE  FALSE
  <2>1. PICK k \in Without : \A j \in Without : k <= j
    BY <1>1, LeastExists
  <2>2. CASE k = 0
    <3> DEFINE f == [j \in 0 .. 0 |-> ledger]
    <3>1. Is(f, 0)
      OBVIOUS
    <3> QED BY <2>1, <2>2, <3>1
  <2>3. CASE k # 0
    <3>1. k - 1 \in Nat /\ k - 1 \notin Without
      BY <2>1, <2>3
    <3>2. PICK f : Is(f, k - 1)
      BY <3>1
    <3> DEFINE g == [j \in 0 .. k |-> IF j = k THEN Next1(f[k - 1], k) ELSE f[j]]
    <3>3. \A j \in 0 .. k - 1 : f[j] = IF j = 0 THEN ledger ELSE Next1(f[j - 1], j)
      BY <3>2
    <3>4. \A j \in 0 .. k : g[j] = IF j = 0 THEN ledger ELSE Next1(g[j - 1], j)
      <4>1. \A j \in 0 .. k : j # 0 => j - 1 \in 0 .. k /\ j - 1 # k
        BY <2>1
      <4>2. \A j \in 0 .. k : j # k => j \in 0 .. k - 1
        BY <2>1
      <4> QED BY <2>3, <3>3, <4>1, <4>2
    <3>5. Is(g, k)
      <4> DEFINE h == [j \in 0 .. k |-> IF j = 0 THEN ledger ELSE Next1(g[j - 1], j)]
      <4>1. \A j \in 0 .. k : g[j] = h[j]
        BY <3>4
      <4>2. g = [j \in 0 .. k |-> g[j]] /\ h = [j \in 0 .. k |-> h[j]]
        OBVIOUS
      <4> HIDE DEF g, h
      <4>3. g = h
        BY <4>1, <4>2
      <4> QED BY <4>3 DEF h
    <3> QED BY <2>1, <3>5
  <2> QED BY <2>2, <2>3
<1>2. \E f : Is(f, n)
  BY <1>1
<1> QED BY <1>2 DEF IsRingFold, Next1

LEMMA RingFoldFacts ==
  ASSUME NEW ledger, NEW got
  PROVE  \E f : /\ FoldRingSnapshot(ledger, got) = f[LastRecord]
                /\ f[0] = ledger
                /\ \A end \in Records :
                     f[end] = FoldRunEndingAt(f[end - 1], got, end, FirstSeen(ledger))
<1>1. PICK f : /\ IsRingFold(f, ledger, got, LastRecord)
               /\ FoldRingSnapshot(ledger, got) = f[LastRecord]
  <2>1. \E f : IsRingFold(f, ledger, got, LastRecord)
    BY RingFoldExists, RingConstants
  <2> QED BY <2>1 DEF FoldRingSnapshot, IsRingFold
<1>2. /\ f[0] = ledger
      /\ \A end \in Records :
           f[end] = FoldRunEndingAt(f[end - 1], got, end, FirstSeen(ledger))
  <2>1. 0 \in 0 .. LastRecord /\ \A end \in Records : end \in 0 .. LastRecord /\ end # 0
    BY RingConstants DEF Records
  <2> QED BY <1>1, <2>1 DEF IsRingFold
<1> QED BY <1>1, <1>2

LEMMA FirstSeenFacts ==
  ASSUME NEW ledger, Sound(ledger)
  PROVE  /\ FirstSeen(ledger) \in 1 .. Len(ledger) + 1
         /\ FirstSeen(ledger) = 1 \/ FirstSeen(ledger) = Len(ledger) - TailLength + 1
         /\ ledger # <<>> => FirstSeen(ledger) \in 1 .. Len(ledger)
         /\ Len(ledger) <= TailLength => FirstSeen(ledger) = 1
<1>1. TailLength \in Nat /\ TailLength >= 1 /\ Len(ledger) \in Nat
      /\ (ledger # <<>> => Len(ledger) >= 1)
  BY SoundFacts, RingConstants
<1> QED BY <1>1 DEF FirstSeen

LEMMA StillAccounted ==
  ASSUME NEW ledger, NEW later, Len(ledger) \in Nat, Len(later) \in Nat,
         Extends(ledger, later), NEW first, NEW record, Accounted(ledger, first, record)
  PROVE  Accounted(later, first, record)
<1>1. \A n \in 1 .. Len(ledger) : n \in 1 .. Len(later) /\ later[n] = ledger[n]
  BY DEF Extends
<1> QED BY <1>1 DEF Accounted

\* A run of what arrived, of enough records to be filed.
LongRun(got, from, end) ==
  /\ from <= end /\ from .. end \subseteq got /\ from - 1 \notin got
  /\ end - from + 1 >= MinOverlap

\* What the fold has made of the ledger once it has folded the runs as far as record e.
Folded(ledger, later, got, lowest, e) ==
  /\ Sound(later) /\ Extends(ledger, later)
  /\ \A n \in Len(ledger) + 1 .. Len(later) : later[n].record \in got
  /\ \/ Len(later) <= Len(ledger)
     \/ \E x \in RunEnds(got) : x <= e /\ Len(later) <= Len(ledger) + x - lowest + 1
  /\ \A end \in RunEnds(got), from \in got :
       end <= e /\ LongRun(got, from, end) =>
         \A record \in from .. end : Accounted(later, FirstSeen(ledger), record)

LEMMA FoldRunEndingAtKeeps ==
  ASSUME NEW ledger, Sound(ledger), NEW got \in SUBSET Records, NEW lowest \in Records,
         NEW highest \in Records, \A record \in got : lowest <= record /\ record <= highest,
         highest - lowest < RingSize, NEW e \in Records, NEW sofar,
         Folded(ledger, sofar, got, lowest, e - 1)
  PROVE  Folded(ledger, FoldRunEndingAt(sofar, got, e, FirstSeen(ledger)), got, lowest, e)
<1> DEFINE first == FirstSeen(ledger)
           later == FoldRunEndingAt(sofar, got, e, first)
           l == Len(ledger)
           s == Len(sofar)
           k == Len(later)
<1>1. /\ e \in Nat /\ lowest \in Nat /\ highest \in Nat /\ RingSize \in Nat /\ got \subseteq Nat
      /\ l \in Nat /\ s \in Nat /\ Sound(sofar) /\ Extends(ledger, sofar) /\ s >= l
  BY SoundFacts, RingConstants DEF Records, Folded, Extends
<1>2. RunEnds(got) \subseteq got
  BY DEF RunEnds
<1>3. first \in 1 .. s + 1
  BY <1>1, FirstSeenFacts
<1>4. CASE e \notin RunEnds(got)
  <2>1. later = sofar
    BY <1>4 DEF FoldRunEndingAt
  <2>2. \A x \in RunEnds(got) : x <= e <=> x <= e - 1
    <3>1. \A x \in RunEnds(got) : x \in Nat /\ x # e
      BY <1>1, <1>2, <1>4
    <3> QED BY <1>1, <3>1
  <2>3. \A x \in RunEnds(got) : x <= e - 1 => x <= e
    BY <2>2
  <2> HIDE DEF later
  <2> QED BY <2>1, <2>2, <2>3 DEF Folded, later
<1>5. CASE e \in RunEnds(got)
  <2>1. PICK from \in got : /\ RunEndingAt(got, e) = Stretch(from, e)
                            /\ from <= e /\ from .. e \subseteq got /\ from - 1 \notin got
    BY <1>5, RunFacts
  <2>2. from \in Nat /\ from \in Records /\ lowest <= from /\ e - from < RingSize /\ e <= highest
    <3>1. e \in got
      BY <1>2, <1>5
    <3> QED BY <1>1, <2>1, <3>1
  <2>3. later = FoldRun(sofar, Stretch(from, e), first)
    BY <1>5, <2>1 DEF FoldRunEndingAt
  <2> HIDE DEF later, first
  <2>4. /\ Sound(later) /\ Extends(sofar, later)
        /\ Len(later) <= Len(sofar) + e - from + 1
        /\ \A n \in Len(sofar) + 1 .. Len(later) : later[n].record \in from .. e
        /\ e - from + 1 >= MinOverlap => \A record \in from .. e : Accounted(later, first, record)
    BY <1>1, <1>3, <2>1, <2>2, <2>3, FoldRunKeeps
  <2>5. k \in Nat /\ k >= s /\ \A n \in 1 .. s : later[n] = sofar[n]
    BY <2>4, SoundFacts DEF Extends
  <2>6. Extends(ledger, later)
    BY <1>1, <2>5 DEF Extends
  <2>7. ASSUME NEW n \in l + 1 .. k
        PROVE  later[n].record \in got
    <3>1. CASE n \in l + 1 .. s
      <4>1. sofar[n].record \in got
        BY <3>1 DEF Folded
      <4>2. n \in 1 .. s
        BY <1>1, <3>1
      <4> QED BY <2>5, <4>1, <4>2
    <3>2. CASE n \in s + 1 .. k
      BY <2>1, <2>4, <3>2
    <3> QED BY <1>1, <2>5, <3>1, <3>2
  <2>8. k <= l + e - lowest + 1
    <3>1. k <= s + e - from + 1
      BY <2>4
    <3>2. CASE s <= l
      BY <1>1, <2>2, <2>5, <3>1, <3>2
    <3>3. ASSUME NEW x \in RunEnds(got), x <= e - 1, s <= l + x - lowest + 1
          PROVE  k <= l + e - lowest + 1
      <4>1. x \in Nat /\ x + 1 \notin got
        BY <1>1, <1>2 DEF RunEnds
      <4>2. x + 1 \notin from .. e
        BY <2>1, <4>1
      <4>3. from >= x + 1
        BY <1>1, <2>2, <3>3, <4>1, <4>2
      <4> QED BY <1>1, <2>2, <2>5, <3>1, <3>3, <4>1, <4>3
    <3>4. s <= l \/ \E x \in RunEnds(got) : x <= e - 1 /\ s <= l + x - lowest + 1
      BY DEF Folded
    <3> QED BY <3>2, <3>3, <3>4
  <2>9. ASSUME NEW end \in RunEnds(got), NEW a \in got, end <= e, LongRun(got, a, end),
               NEW record \in a .. end
        PROVE  Accounted(later, first, record)
    <3>1. a \in Nat /\ end \in Nat
      BY <1>1, <1>2
    <3>2. CASE end = e
      <4>1. a = from
        <5>1. ASSUME a < from
              PROVE  FALSE
          <6>1. from - 1 \in a .. end
            BY <1>1, <2>1, <2>2, <3>1, <3>2, <5>1
          <6> QED BY <2>1, <2>9, <6>1 DEF LongRun
        <5>2. ASSUME from < a
              PROVE  FALSE
          <6>1. a - 1 \in from .. e
            BY <1>1, <2>2, <2>9, <3>1, <3>2, <5>2 DEF LongRun
          <6> QED BY <2>1, <2>9, <6>1 DEF LongRun
        <5> QED BY <2>2, <3>1, <5>1, <5>2
      <4>2. e - from + 1 >= MinOverlap
        BY <2>9, <3>2, <4>1 DEF LongRun
      <4> QED BY <2>4, <2>9, <3>2, <4>1, <4>2
    <3>3. CASE end # e
      <4>1. end <= e - 1
        BY <1>1, <2>9, <3>1, <3>3
      <4>2. Accounted(sofar, first, record)
        BY <2>9, <4>1 DEF Folded, first
      <4> QED BY <1>1, <2>4, <2>5, <4>2, StillAccounted
    <3> QED BY <3>2, <3>3
  <2>10. e <= e
    BY <1>1
  <2> HIDE DEF k, l
  <2>11. k <= l + e - lowest + 1 /\ e <= e
    BY <2>8, <2>10
  <2> QED BY <1>5, <2>4, <2>6, <2>7, <2>9, <2>11 DEF Folded, later, first, k, l
<1> QED BY <1>4, <1>5

LEMMA RingSnapshotKeeps ==
  ASSUME NEW ledger, Sound(ledger), NEW got \in SUBSET Records, NEW lowest \in Records,
         NEW highest \in Records, \A record \in got : lowest <= record /\ record <= highest,
         highest - lowest < RingSize
  PROVE  LET later == FoldRingSnapshot(ledger, got) IN
         /\ Sound(later) /\ Extends(ledger, later)
         /\ Len(later) <= Len(ledger) + RingSize
         /\ \A n \in Len(ledger) + 1 .. Len(later) : later[n].record \in got
         /\ \A end \in RunEnds(got), from \in got :
              LongRun(got, from, end) =>
                \A record \in from .. end : Accounted(later, FirstSeen(ledger), record)
<1>1. PICK f : /\ FoldRingSnapshot(ledger, got) = f[LastRecord]
               /\ f[0] = ledger
               /\ \A end \in Records :
                     f[end] = FoldRunEndingAt(f[end - 1], got, end, FirstSeen(ledger))
  BY RingFoldFacts
<1> DEFINE Done(e) == Folded(ledger, f[e], got, lowest, e)
           Undone == {e \in 0 .. LastRecord : ~Done(e)}
<1>2. LastRecord \in Nat /\ lowest \in Nat /\ highest \in Nat /\ RingSize \in Nat /\ got \subseteq Nat
      /\ Records \subseteq Nat /\ Len(ledger) \in Nat
  BY RingConstants, SoundFacts DEF Records
<1>3. Done(0)
  <2>1. \A end \in RunEnds(got) : ~(end <= 0)
    BY DEF Records, RunEnds
  <2>2. Extends(ledger, ledger) /\ Len(ledger) <= Len(ledger)
        /\ \A n \in Len(ledger) + 1 .. Len(ledger) : FALSE
    BY <1>2 DEF Extends
  <2> QED BY <1>1, <2>1, <2>2 DEF Folded
<1>4. ASSUME NEW e \in Records, Done(e - 1)
      PROVE  Done(e)
  BY <1>1, <1>4, FoldRunEndingAtKeeps
<1> HIDE DEF Done
<1>5. ASSUME Undone # {}
      PROVE  FALSE
  <2>1. Undone \in SUBSET Nat
    BY <1>2
  <2>2. PICK e \in Undone : \A j \in Undone : e <= j
    BY <1>5, <2>1, LeastExists
  <2>3. e # 0 /\ e \in Nat /\ e <= LastRecord
    BY <1>2, <1>3, <2>2
  <2>4. e - 1 \in 0 .. LastRecord /\ e - 1 \notin Undone /\ e \in Records
    BY <1>2, <2>2, <2>3 DEF Records
  <2>5. Done(e - 1)
    BY <2>4
  <2> QED BY <1>4, <2>2, <2>4, <2>5
<1>6. Folded(ledger, f[LastRecord], got, lowest, LastRecord)
  <2>1. LastRecord \in 0 .. LastRecord
    BY <1>2
  <2> QED BY <1>5, <2>1 DEF Done
<1> DEFINE later == f[LastRecord]
<1> HIDE DEF later
<1>7. Sound(later) /\ Extends(ledger, later)
      /\ \A n \in Len(ledger) + 1 .. Len(later) : later[n].record \in got
  BY <1>6 DEF Folded, later
<1>8. Len(later) <= Len(ledger) + RingSize
  <2>1. Len(later) \in Nat
    BY <1>7, SoundFacts
  <2>2. CASE Len(later) <= Len(ledger)
    BY <1>2, <2>1, <2>2
  <2>3. ASSUME NEW x \in RunEnds(got), Len(later) <= Len(ledger) + x - lowest + 1
        PROVE  Len(later) <= Len(ledger) + RingSize
    <3>1. x \in Nat /\ x <= highest
      BY <1>2 DEF RunEnds
    <3> QED BY <1>2, <2>1, <2>3, <3>1
  <2>4. Len(later) <= Len(ledger) \/ \E x \in RunEnds(got) : Len(later) <= Len(ledger) + x - lowest + 1
    BY <1>6 DEF Folded, later
  <2> QED BY <2>2, <2>3, <2>4
<1>9. \A end \in RunEnds(got), from \in got :
        LongRun(got, from, end) =>
          \A record \in from .. end : Accounted(later, FirstSeen(ledger), record)
  <2>1. \A end \in RunEnds(got) : end <= LastRecord
    BY <1>2 DEF RunEnds, Records
  <2> QED BY <1>6, <2>1 DEF Folded, later
<1> QED BY <1>1, <1>7, <1>8, <1>9 DEF later

\* A read that lost no frame before its last is one run, from the ring's oldest record on.
LEMMA OneRunFolds ==
  ASSUME NEW ledger, NEW from \in Records, NEW end \in Records, from <= end
  PROVE  FoldRingSnapshot(ledger, from .. end)
           = FoldRun(ledger, Stretch(from, end), FirstSeen(ledger))
<1> DEFINE got == from .. end
           once == FoldRun(ledger, Stretch(from, end), FirstSeen(ledger))
<1>0. from \in Nat /\ end \in Nat /\ LastRecord \in Nat /\ end <= LastRecord /\ from >= 1 /\ end >= 1
  BY RingConstants DEF Records
<1>1. PICK f : /\ FoldRingSnapshot(ledger, got) = f[LastRecord]
               /\ f[0] = ledger
               /\ \A e \in Records :
                     f[e] = FoldRunEndingAt(f[e - 1], got, e, FirstSeen(ledger))
  BY RingFoldFacts
<1>2. RunEnds(got) = {end}
  BY <1>0 DEF RunEnds
<1>3. RunEndingAt(got, end) = Stretch(from, end)
  <2>1. got \in SUBSET Records /\ end \in RunEnds(got)
    BY <1>0, <1>2 DEF Records
  <2>2. PICK a \in got : /\ RunEndingAt(got, end) = Stretch(a, end)
                         /\ a <= end /\ a - 1 \notin got
    BY <2>1, RunFacts
  <2>3. a = from
    BY <1>0, <2>2
  <2> QED BY <2>2, <2>3
<1> HIDE DEF got
<1> DEFINE Done(e) == f[e] = IF e < end THEN ledger ELSE once
           Undone == {e \in 0 .. LastRecord : ~Done(e)}
<1>4. Done(0)
  BY <1>0, <1>1
<1>5. ASSUME NEW e \in Records, Done(e - 1)
      PROVE  Done(e)
  <2>0. e \in Nat /\ e >= 1
    BY <1>0 DEF Records
  <2>1. f[e] = FoldRunEndingAt(f[e - 1], got, e, FirstSeen(ledger))
    BY <1>1
  <2>2. CASE e = end
    <3>1. f[e - 1] = ledger /\ e - 1 < end /\ ~(e < end)
      BY <1>5, <2>0, <2>2
    <3>2. f[e] = once
      BY <1>2, <1>3, <2>1, <2>2, <3>1 DEF FoldRunEndingAt
    <3> QED BY <3>1, <3>2
  <2>3. CASE e # end
    <3>1. f[e] = f[e - 1]
      BY <1>2, <2>1, <2>3 DEF FoldRunEndingAt
    <3>2. e < end <=> e - 1 < end
      BY <1>0, <2>0, <2>3
    <3> QED BY <1>5, <3>1, <3>2
  <2> QED BY <2>2, <2>3
<1> HIDE DEF Done
<1>6. ASSUME Undone # {}
      PROVE  FALSE
  <2>1. Undone \in SUBSET Nat
    BY <1>0
  <2>2. PICK e \in Undone : \A j \in Undone : e <= j
    BY <1>6, <2>1, LeastExists
  <2>3. e # 0 /\ e \in Nat /\ e <= LastRecord
    BY <1>0, <1>4, <2>2
  <2>4. e - 1 \in 0 .. LastRecord /\ e - 1 \notin Undone /\ e \in Records
    BY <1>0, <2>2, <2>3 DEF Records
  <2>5. Done(e - 1)
    BY <2>4
  <2> QED BY <1>5, <2>2, <2>4, <2>5
<1>7. Done(LastRecord)
  <2>1. LastRecord \in 0 .. LastRecord
    BY <1>0
  <2> QED BY <1>6, <2>1
<1>8. ~(LastRecord < end)
  BY <1>0
<1> QED BY <1>1, <1>7, <1>8 DEF Done, got

LEMMA NothingFolds ==
  ASSUME NEW ledger
  PROVE  FoldRingSnapshot(ledger, {}) = ledger
<1>0. LastRecord \in Nat
  BY RingConstants
<1>1. PICK f : /\ FoldRingSnapshot(ledger, {}) = f[LastRecord]
               /\ f[0] = ledger
               /\ \A e \in Records :
                     f[e] = FoldRunEndingAt(f[e - 1], {}, e, FirstSeen(ledger))
  BY RingFoldFacts
<1>2. \A e \in Records : f[e] = f[e - 1]
  BY <1>1 DEF FoldRunEndingAt, RunEnds
<1> DEFINE Undone == {e \in 0 .. LastRecord : f[e] # ledger}
<1>3. ASSUME Undone # {}
      PROVE  FALSE
  <2>1. Undone \in SUBSET Nat
    BY <1>0
  <2>2. PICK e \in Undone : \A j \in Undone : e <= j
    BY <1>3, <2>1, LeastExists
  <2>3. e # 0 /\ e \in Nat /\ e <= LastRecord
    BY <1>0, <1>1, <2>2
  <2>4. e - 1 \in 0 .. LastRecord /\ e - 1 \notin Undone /\ e \in Records
    BY <1>0, <2>2, <2>3 DEF Records
  <2> QED BY <1>2, <2>2, <2>4
<1> QED BY <1>0, <1>1, <1>3

-----------------------------------------------------------------------------
(* The trim. *)

LEMMA PruneFacts ==
  ASSUME NEW ledger, Sound(ledger)
  PROVE  LET later == PruneRing(ledger)
             cut == Len(ledger) - KeptRows
         IN
         \/ Len(ledger) <= MaxRows /\ later = ledger
         \/ /\ Len(ledger) > MaxRows /\ cut \in Nat /\ cut >= 1
            /\ later \in Seq(LogRows) /\ Len(later) = KeptRows /\ DOMAIN later = 1 .. KeptRows
            /\ later[1].followsGap
            /\ \A n \in 2 .. KeptRows : later[n] = ledger[cut + n]
            /\ \A n \in 1 .. KeptRows : /\ later[n].record = ledger[cut + n].record
                                        /\ later[n].seq = ledger[cut + n].seq
<1> DEFINE l == Len(ledger)
           cut == l - KeptRows
           kept == SubSeq(ledger, cut + 1, l)
           later == [kept EXCEPT ![1].followsGap = TRUE]
<1>1. /\ ledger \in Seq(LogRows) /\ l \in Nat /\ KeptRows \in Nat /\ MaxRows \in Nat
      /\ KeptRows < MaxRows /\ KeptRows >= 1
  BY SoundFacts, RingConstants
<1>2. CASE l <= MaxRows
  BY <1>2 DEF PruneRing
<1>3. CASE l > MaxRows
  <2>1. cut \in Nat /\ cut >= 1 /\ cut + 1 \in Nat /\ cut + 1 >= 1
        /\ KeptRows = IF cut + 1 > l THEN 0 ELSE l - (cut + 1) + 1
    BY <1>1, <1>3
  <2>2. PruneRing(ledger) = later
    <3>1. ~(Len(ledger) <= MaxRows)
      BY <1>1, <1>3
    <3> QED BY <3>1, Zenon DEF PruneRing
  <2>3. /\ kept \in Seq(LogRows) /\ Len(kept) = KeptRows
        /\ \A i \in 1 .. KeptRows : kept[i] = ledger[i + (cut + 1) - 1]
    BY <1>1, <2>1, RestFacts
  <2>4. \A i \in 1 .. KeptRows : i + (cut + 1) - 1 = cut + i
    BY <2>1
  <2> HIDE DEF kept, cut
  <2>5. /\ DOMAIN kept = 1 .. KeptRows /\ kept \in [1 .. KeptRows -> LogRows] /\ 1 \in 1 .. KeptRows
        /\ \A i \in 1 .. KeptRows : kept[i] = ledger[cut + i] /\ kept[i] \in LogRows
    BY <1>1, <2>3, <2>4
  <2>6. /\ later[1] = [kept[1] EXCEPT !.followsGap = TRUE]
        /\ \A n \in 1 .. KeptRows : n # 1 => later[n] = kept[n]
        /\ later = [n \in 1 .. KeptRows |-> later[n]]
    BY <2>5
  <2> HIDE DEF later
  <2>7. /\ later[1] \in LogRows /\ later[1].followsGap
        /\ later[1].record = kept[1].record /\ later[1].seq = kept[1].seq
    <3>1. kept[1] \in LogRows
      BY <2>5
    <3> QED BY <2>6, <3>1 DEF LogRows
  <2>8. \A n \in 1 .. KeptRows : later[n] \in LogRows /\ later[n].record = ledger[cut + n].record
                                 /\ later[n].seq = ledger[cut + n].seq
    <3>1. ASSUME NEW n \in 1 .. KeptRows
          PROVE  later[n] \in LogRows /\ later[n].record = kept[n].record /\ later[n].seq = kept[n].seq
      <4>1. CASE n = 1
        BY <2>7, <4>1
      <4>2. CASE n # 1
        BY <2>5, <2>6, <4>2
      <4> QED BY <4>1, <4>2
    <3> QED BY <2>5, <3>1
  <2>9. later \in [1 .. KeptRows -> LogRows]
    BY <2>6, <2>8
  <2>10. later \in Seq(LogRows) /\ Len(later) = KeptRows /\ DOMAIN later = 1 .. KeptRows
    BY <1>1, <2>9, FunctionIsSequence
  <2>11. \A n \in 2 .. KeptRows : later[n] = ledger[cut + n]
    <3>1. \A n \in 2 .. KeptRows : n \in 1 .. KeptRows /\ n # 1
      OBVIOUS
    <3> QED BY <2>5, <2>6, <3>1
  <2> QED BY <1>3, <2>1, <2>2, <2>7, <2>8, <2>10, <2>11 DEF cut, kept
<1> QED BY <1>1, <1>2, <1>3

LEMMA PruneIsSound ==
  ASSUME NEW ledger, Sound(ledger)
  PROVE  Sound(PruneRing(ledger)) /\ Len(PruneRing(ledger)) <= MaxRows
<1> DEFINE later == PruneRing(ledger)
           cut == Len(ledger) - KeptRows
<1>1. /\ KeptRows \in Nat /\ MaxRows \in Nat /\ KeptRows < MaxRows /\ MinOverlap \in Nat
      /\ MinOverlap > 2 /\ RingSize \in Nat /\ RingSize <= KeptRows /\ Len(ledger) \in Nat
      /\ DOMAIN ledger = 1 .. Len(ledger)
  BY RingConstants, SoundFacts
<1>2. CASE Len(ledger) <= MaxRows /\ later = ledger
  <2> HIDE DEF later
  <2> QED BY <1>2 DEF later
<1>3. CASE /\ Len(ledger) > MaxRows /\ cut \in Nat /\ cut >= 1
           /\ later \in Seq(LogRows) /\ Len(later) = KeptRows /\ DOMAIN later = 1 .. KeptRows
           /\ later[1].followsGap
           /\ \A n \in 2 .. KeptRows : later[n] = ledger[cut + n]
           /\ \A n \in 1 .. KeptRows : /\ later[n].record = ledger[cut + n].record
                                       /\ later[n].seq = ledger[cut + n].seq
  <2>0. Len(ledger) = cut + KeptRows
    BY <1>1
  <2> HIDE DEF later, cut
  <2>1. \A n \in 1 .. KeptRows : cut + n \in 1 .. Len(ledger)
    BY <1>1, <1>3, <2>0
  <2>2. ledger # <<>> /\ MinOverlap <= RingSize
    <3>1. ledger # <<>>
      BY <1>1, <1>3, SoundFacts
    <3> QED BY <3>1, SoundFacts
  <2>3. ASSUME NEW n \in 1 .. Len(later) - 1
        PROVE  later[n + 1].seq = later[n].seq + 1
    <3>1. n \in 1 .. KeptRows /\ n + 1 \in 1 .. KeptRows /\ cut + n \in 1 .. Len(ledger) - 1
          /\ cut + (n + 1) = (cut + n) + 1
      BY <1>1, <1>3, <2>0
    <3>2. ledger[(cut + n) + 1].seq = ledger[cut + n].seq + 1
      BY <3>1 DEF Sound
    <3> QED BY <1>3, <3>1, <3>2
  <2>4. ASSUME NEW m \in DOMAIN later, NEW n \in DOMAIN later, m <= n, Unheralded(later, m, n)
        PROVE  later[n].record = later[m].record + n - m
    <3>1. m \in 1 .. KeptRows /\ n \in 1 .. KeptRows
      BY <1>3
    <3>2. PICK a \in 1 .. Len(ledger), b \in 1 .. Len(ledger) : a = cut + m /\ b = cut + n
      BY <2>1, <3>1
    <3>3. a <= b /\ b - a = n - m
      BY <1>3, <2>4, <3>1, <3>2
    <3>4. \A i \in a + 1 .. b : ~ledger[i].followsGap
      <4>1. ASSUME NEW i \in a + 1 .. b
            PROVE  ~ledger[i].followsGap
        <5>1. PICK j \in m + 1 .. n : cut + j = i /\ j \in 2 .. KeptRows
          <6>1. /\ m \in Nat /\ m >= 1 /\ n \in Nat /\ n <= KeptRows /\ cut \in Int
                /\ KeptRows \in Int /\ i \in Int /\ cut + m + 1 <= i /\ i <= cut + n
            <7>1. KeptRows \in Nat /\ cut \in Nat
              BY <1>3, RingConstants
            <7>2. m \in Nat /\ m >= 1 /\ n \in Nat /\ n <= KeptRows
              BY <3>1, <7>1
            <7>3. i \in (cut + m) + 1 .. cut + n
              BY <3>2
            <7> QED BY <7>1, <7>2, <7>3
          <6>2. i - cut \in m + 1 .. n /\ cut + (i - cut) = i /\ i - cut \in 2 .. KeptRows
            BY <6>1
          <6> QED BY <6>2
        <5>2. later[j] = ledger[cut + j]
          BY <1>3, <5>1
        <5> QED BY <2>4, <5>1, <5>2 DEF Unheralded
      <4> QED BY <4>1
    <3>5. ledger[b].record = ledger[a].record + b - a
      BY <3>3, <3>4, RunsOn
    <3>6. later[n].record = ledger[b].record /\ later[m].record = ledger[a].record
      BY <1>3, <3>1, <3>2
    <3>7. ledger[a].record \in Nat /\ a \in Nat /\ b \in Nat
      BY <1>1, SoundFacts
    <3> QED BY <3>1, <3>3, <3>5, <3>6, <3>7
  <2>5. Joined(later)
    BY <1>3, <2>4 DEF Joined
  <2>6. Unheralded(later, Len(later) - MinOverlap + 1, Len(later))
    <3>1. ASSUME NEW n \in (Len(later) - MinOverlap + 1) + 1 .. Len(later)
          PROVE  ~later[n].followsGap
      <4>1. n \in 2 .. KeptRows /\ cut + n \in Len(ledger) - MinOverlap + 2 .. Len(ledger)
        BY <1>1, <1>3, <2>0, <2>2
      <4>2. ~ledger[cut + n].followsGap
        BY <2>2, <4>1, SoundFacts
      <4> QED BY <1>3, <4>1, <4>2
    <3> QED BY <3>1 DEF Unheralded
  <2>7. ASSUME NEW m \in DOMAIN later, NEW n \in DOMAIN later, 1 < m, m < n,
               later[m].followsGap, later[n].followsGap
        PROVE  n >= m + MinOverlap
    <3>1. m \in 2 .. KeptRows /\ n \in 2 .. KeptRows
      BY <1>1, <1>3, <2>7
    <3>2. ledger[cut + m].followsGap /\ ledger[cut + n].followsGap
      BY <1>3, <2>7, <3>1
    <3>3. cut + m \in DOMAIN ledger /\ cut + n \in DOMAIN ledger /\ 1 < cut + m /\ cut + m < cut + n
      BY <1>1, <1>3, <2>0, <2>7, <3>1
    <3>4. cut + n >= (cut + m) + MinOverlap
      BY <3>2, <3>3 DEF Sound, LongBlocks
    <3> QED BY <1>1, <1>3, <3>1, <3>4
  <2>8. LongBlocks(later)
    <3>1. MinOverlap <= RingSize /\ Len(later) >= MinOverlap
      BY <1>1, <1>3, <2>2
    <3> QED BY <2>6, <2>7, <3>1 DEF LongBlocks
  <2>9. Len(later) <= MaxRows
    BY <1>1, <1>3
  <2> QED BY <1>3, <2>3, <2>5, <2>8, <2>9 DEF Sound, later
<1> QED BY <1>2, <1>3, PruneFacts

LEMMA PruneStaysInOrder ==
  ASSUME NEW ledger, Sound(ledger), NEW oldest \in Nat, FromTheRing(ledger, oldest)
  PROVE  FromTheRing(PruneRing(ledger), oldest)
<1> DEFINE later == PruneRing(ledger)
           cut == Len(ledger) - KeptRows
<1>1. KeptRows \in Nat /\ KeptRows >= 1 /\ MinOverlap \in Nat /\ Len(ledger) \in Nat
  BY RingConstants, SoundFacts
<1>2. CASE Len(ledger) <= MaxRows /\ later = ledger
  <2> HIDE DEF later
  <2> QED BY <1>2 DEF later
<1>3. CASE /\ Len(ledger) > MaxRows /\ cut \in Nat /\ cut >= 1
           /\ later \in Seq(LogRows) /\ Len(later) = KeptRows /\ DOMAIN later = 1 .. KeptRows
           /\ later[1].followsGap
           /\ \A n \in 2 .. KeptRows : later[n] = ledger[cut + n]
           /\ \A n \in 1 .. KeptRows : /\ later[n].record = ledger[cut + n].record
                                       /\ later[n].seq = ledger[cut + n].seq
  <2>0. Len(ledger) = cut + KeptRows
    BY <1>1
  <2> HIDE DEF later, cut
  <2>1. ASSUME NEW n \in 2 .. KeptRows, later[n].followsGap
        PROVE  /\ cut + n \in 2 .. Len(ledger) /\ ledger[cut + n].followsGap
               /\ later[n].record = ledger[cut + n].record
               /\ later[n - 1].record = ledger[(cut + n) - 1].record
    <3>1. cut + n \in 2 .. Len(ledger) /\ n - 1 \in 1 .. KeptRows /\ cut + (n - 1) = (cut + n) - 1
      BY <1>1, <1>3, <2>0
    <3> QED BY <1>3, <2>1, <3>1
  <2>2. ASSUME NEW n \in 2 .. KeptRows, later[n].followsGap
        PROVE  later[n].record <= oldest /\ later[n - 1].record - later[n].record + 1 < MinOverlap
    BY <2>1, <2>2 DEF FromTheRing
  <2>3. ASSUME NEW m \in 2 .. KeptRows, NEW n \in 2 .. KeptRows, m < n,
               later[m].followsGap, later[n].followsGap
        PROVE  later[m].record <= later[n].record
    <3>1. cut + m < cut + n
      BY <1>3, <2>3
    <3> QED BY <2>1, <2>3, <3>1 DEF FromTheRing
  <2>4. Len(later) >= KeptRows
    BY <1>1, <1>3
  <2> QED BY <1>3, <2>2, <2>3, <2>4 DEF FromTheRing, later
<1> QED BY <1>2, <1>3, PruneFacts

-----------------------------------------------------------------------------
(* The invariant. *)

Reads == [stage : {"none", "burst", "arrived"}, from : Nat, to : Nat, at : Nat,
          got : SUBSET Records]

ReadIsOfTheRing ==
  /\ read \in Reads
  /\ read.stage = "none" => read = NoRead
  /\ read.stage # "none" =>
       /\ read.from = ring.oldest /\ read.to = ring.newest /\ read.from <= read.at
       /\ \A record \in read.got :
            read.from <= record /\ record <= read.to /\ record < read.at

\* A read that lost no frame before its last is a stretch from where the ring began.
ReadIsUnbroken ==
  read.got = {} \/ \E k \in read.from .. read.to : read.got = read.from .. k

RingIsARing ==
  /\ ring \in [oldest : Records, newest : Records]
  /\ ring.oldest <= ring.newest /\ ring.newest - ring.oldest < RingSize

LogIsOfTheRing ==
  /\ Sound(log) /\ Len(log) <= MaxRows
  /\ \A n \in 1 .. Len(log) : log[n].record <= ring.newest

RingInv ==
  /\ RingIsARing /\ ReadIsOfTheRing /\ LogIsOfTheRing
  /\ torn \in BOOLEAN /\ reads \in 0 .. MaxReads
  /\ ~torn => ReadIsUnbroken /\ FromTheRing(log, ring.oldest)

LEMMA NothingIsSound ==
  /\ Sound(<<>>) /\ Len(<<>>) = 0
  /\ \A oldest : FromTheRing(<<>>, oldest)
<1>1. <<>> \in Seq(LogRows) /\ Len(<<>>) = 0 /\ DOMAIN <<>> = {} /\ 1 .. Len(<<>>) - 1 = {}
      /\ 2 .. Len(<<>>) = {}
  OBVIOUS
<1> QED BY <1>1 DEF Sound, Joined, LongBlocks, FromTheRing

LEMMA NoReadIsARead == NoRead \in Reads /\ NoRead.got = {} /\ NoRead.stage = "none"
  BY DEF NoRead, Reads

LEMMA RingFacts ==
  ASSUME RingIsARing
  PROVE  /\ ring.oldest \in Records /\ ring.newest \in Records
         /\ ring.oldest \in Nat /\ ring.newest \in Nat /\ ring.oldest >= 1
         /\ ring.oldest <= ring.newest /\ ring.newest <= LastRecord
         /\ ring.newest - ring.oldest < RingSize
  BY RingConstants DEF RingIsARing, Records

LEMMA RingInitInvariant == RingInit => RingInv
<1> SUFFICES ASSUME RingInit
             PROVE  RingInv
  OBVIOUS
<1> USE DEF RingInit
<1>1. RingIsARing
  BY RingConstants DEF RingIsARing, Records
<1>2. ReadIsOfTheRing /\ ReadIsUnbroken
  BY NoReadIsARead DEF ReadIsOfTheRing, ReadIsUnbroken
<1>3. LogIsOfTheRing
  <2>1. 0 <= MaxRows /\ 1 .. 0 = {}
    BY RingConstants
  <2> QED BY <2>1, NothingIsSound DEF LogIsOfTheRing
<1>4. reads \in 0 .. MaxReads
  BY RingConstants
<1>5. torn \in BOOLEAN
  OBVIOUS
<1> QED BY <1>1, <1>2, <1>3, <1>4, <1>5, NothingIsSound DEF RingInv

LEMMA PackWritesKeeps ==
  ASSUME RingInv, PackWrites
  PROVE  RingInv'
<1> USE DEF PackWrites
<1>1. PICK dropped \in 0 .. 2 :
        /\ ring.oldest + dropped <= ring.newest
        /\ ring.newest + 2 - (ring.oldest + dropped) <= RingSize
        /\ ring' = [oldest |-> ring.oldest + dropped, newest |-> ring.newest + 1]
  OBVIOUS
<1>2. /\ ring.oldest \in Nat /\ ring.newest \in Nat /\ ring.oldest >= 1
      /\ ring.newest < LastRecord /\ LastRecord \in Nat /\ RingSize \in Nat
  BY RingFacts, RingConstants DEF RingInv
<1>3. ring'.oldest = ring.oldest + dropped /\ ring'.newest = ring.newest + 1
  BY <1>1
<1>4. RingIsARing'
  BY <1>1, <1>2, <1>3 DEF RingIsARing, Records
<1>5. ReadIsOfTheRing'
  BY DEF RingInv, ReadIsOfTheRing
<1>6. LogIsOfTheRing'
  <2>1. \A n \in 1 .. Len(log) : log[n].record \in Nat
    BY SoundFacts DEF RingInv, LogIsOfTheRing
  <2>2. \A n \in 1 .. Len(log) : log[n].record <= ring.newest + 1
    BY <1>2, <2>1 DEF RingInv, LogIsOfTheRing
  <2> QED BY <1>3, <2>2 DEF RingInv, LogIsOfTheRing
<1>7. ASSUME ~torn
      PROVE  FromTheRing(log, ring.oldest + dropped)
  <2>1. \A n \in 1 .. Len(log) : log[n].record \in Nat
    BY SoundFacts DEF RingInv, LogIsOfTheRing
  <2>2. Len(log) \in Nat /\ (log # <<>> => 1 \in 1 .. Len(log)) /\ Sound(log)
    BY SoundFacts DEF RingInv, LogIsOfTheRing
  <2>3. FromTheRing(log, ring.oldest)
    BY <1>7 DEF RingInv
  <2>4. \A n \in 1 .. Len(log) : log[n].record <= ring.oldest => log[n].record <= ring.oldest + dropped
    <3>1. \A record \in Nat : record <= ring.oldest => record <= ring.oldest + dropped
      BY <1>2
    <3> QED BY <2>1, <3>1
  <2>5. \A n \in 2 .. Len(log) : n \in 1 .. Len(log)
    BY <2>2
  <2>6. log # <<>> => log[1].record <= ring.oldest + dropped \/ Len(log) >= KeptRows
    BY <2>2, <2>3, <2>4 DEF FromTheRing
  <2>7. \A n \in 2 .. Len(log) : log[n].followsGap =>
          log[n].record <= ring.oldest + dropped /\ log[n - 1].record - log[n].record + 1 < MinOverlap
    BY <2>3, <2>4, <2>5 DEF FromTheRing
  <2> QED BY <2>3, <2>6, <2>7 DEF FromTheRing
<1>8. ~torn => ReadIsUnbroken'
  BY NoReadIsARead DEF RingInv, ReadIsOfTheRing, ReadIsUnbroken
<1> QED BY <1>3, <1>4, <1>5, <1>6, <1>7, <1>8 DEF RingInv

LEMMA AskForLogKeeps ==
  ASSUME RingInv, AskForLog
  PROVE  RingInv'
<1> USE DEF AskForLog
<1>1. ring.oldest \in Nat /\ ring.newest \in Nat
  BY RingFacts DEF RingInv
<1>2. /\ read' \in Reads /\ read'.stage = "burst" /\ read'.from = ring.oldest
      /\ read'.to = ring.newest /\ read'.at = ring.oldest /\ read'.got = {}
  BY <1>1 DEF Reads
<1>3. ReadIsOfTheRing' /\ ReadIsUnbroken'
  BY <1>1, <1>2 DEF ReadIsOfTheRing, ReadIsUnbroken
<1>4. reads' \in 0 .. MaxReads
  BY RingConstants DEF RingInv
<1> QED BY <1>3, <1>4 DEF RingInv, RingIsARing, LogIsOfTheRing

LEMMA FrameArrivesKeeps ==
  ASSUME RingInv, FrameArrives
  PROVE  RingInv'
<1> USE DEF FrameArrives
<1> DEFINE top == IF read.at + FrameSize - 1 <= read.to THEN read.at + FrameSize - 1 ELSE read.to
<1>1. /\ read \in Reads /\ read.from = ring.oldest /\ read.to = ring.newest /\ read.from <= read.at
      /\ \A record \in read.got :
            read.from <= record /\ record <= read.to /\ record < read.at
  BY DEF RingInv, ReadIsOfTheRing
<1>2. /\ read.from \in Nat /\ read.to \in Nat /\ read.at \in Nat /\ read.got \in SUBSET Records
      /\ FrameSize \in Nat /\ FrameSize >= 1 /\ LastRecord \in Nat
      /\ read.from >= 1 /\ read.to <= LastRecord /\ read.got \subseteq Nat
  BY <1>1, RingFacts, RingConstants DEF RingInv, Reads, Records
<1>3. NextFrame = read.at .. top /\ read.at <= top /\ top \in Nat /\ top <= read.to
  <2>1. PICK record \in read.at .. read.at + FrameSize - 1 : record <= read.to
    BY DEF NextFrame
  <2>2. read.at <= top /\ top \in Nat /\ top <= read.to
    BY <1>2, <2>1
  <2>3. \A r : r \in NextFrame <=> r \in read.at .. read.at + FrameSize - 1 /\ r <= read.to
    BY DEF NextFrame
  <2>4. \A r : r \in read.at .. read.at + FrameSize - 1 /\ r <= read.to <=> r \in read.at .. top
    BY <1>2
  <2> HIDE DEF top
  <2> QED BY <2>2, <2>3, <2>4
<1>4. /\ read'.stage = "burst" /\ read'.from = read.from /\ read'.to = read.to
      /\ read'.at = read.at + FrameSize /\ read'.got = read.got \cup read.at .. top
  BY <1>1, <1>3 DEF Reads
<1>9. top < read.at + FrameSize
  BY <1>2
<1> HIDE DEF top
<1>5. read' \in Reads
  <2>1. read.at .. top \subseteq Records
    BY <1>1, <1>2, <1>3 DEF Records
  <2>2. read.at + FrameSize \in Nat /\ read.got \cup (read.at .. top) \in SUBSET Records
    BY <1>2, <2>1
  <2> QED BY <1>1, <1>3, <2>2 DEF Reads
<1>6. ReadIsOfTheRing'
  <2>1. ASSUME NEW record \in read.got \cup (read.at .. top)
        PROVE  read.from <= record /\ record <= read.to /\ record < read.at + FrameSize
    <3>1. CASE record \in read.got
      BY <1>1, <1>2, <3>1
    <3>2. CASE record \in read.at .. top
      BY <1>1, <1>2, <1>3, <1>9, <3>2
    <3> QED BY <2>1, <3>1, <3>2
  <2>2. read.from <= read.at + FrameSize
    BY <1>1, <1>2
  <2> QED BY <1>1, <1>4, <1>5, <2>1, <2>2 DEF ReadIsOfTheRing
<1>7. ASSUME ~torn'
      PROVE  ReadIsUnbroken' /\ ~torn
  <2>1. ~torn /\ \A record \in read.from .. read.at - 1 : record \in read.got
    BY <1>7
  <2>2. ASSUME NEW r
        PROVE  r \in read.got \cup (read.at .. top) <=> r \in read.from .. top
    <3>1. ASSUME r \in read.got
          PROVE  r \in read.from .. top
      BY <1>1, <1>2, <1>3, <3>1
    <3>2. ASSUME r \in read.at .. top
          PROVE  r \in read.from .. top
      BY <1>1, <1>2, <1>3, <3>2
    <3>3. ASSUME r \in read.from .. top, r \notin read.at .. top
          PROVE  r \in read.got
      <4>1. r \in read.from .. read.at - 1
        BY <1>2, <1>3, <3>3
      <4> QED BY <2>1, <4>1
    <3> QED BY <3>1, <3>2, <3>3
  <2>3. read'.got = read.from .. top
    BY <1>4, <2>2
  <2>4. top \in read.from .. read.to
    BY <1>1, <1>2, <1>3
  <2> QED BY <1>4, <2>1, <2>3, <2>4 DEF ReadIsUnbroken
<1>8. torn' \in BOOLEAN
  OBVIOUS
<1> QED BY <1>6, <1>7, <1>8 DEF RingInv, RingIsARing, LogIsOfTheRing

LEMMA FrameTornKeeps ==
  ASSUME RingInv, FrameTorn
  PROVE  RingInv'
<1> USE DEF FrameTorn
<1>1. /\ read \in Reads /\ read.from = ring.oldest /\ read.to = ring.newest /\ read.from <= read.at
      /\ \A record \in read.got :
            read.from <= record /\ record <= read.to /\ record < read.at
  BY DEF RingInv, ReadIsOfTheRing
<1>2. /\ read.from \in Nat /\ read.to \in Nat /\ read.at \in Nat /\ read.got \in SUBSET Records
      /\ FrameSize \in Nat /\ read.got \subseteq Nat
  BY <1>1, RingConstants DEF Reads, Records
<1>3. /\ read'.stage = "burst" /\ read'.from = read.from /\ read'.to = read.to
      /\ read'.at = read.at + FrameSize /\ read'.got = read.got /\ read' \in Reads
  BY <1>1, <1>2 DEF Reads
<1>4. read.from <= read.at + FrameSize /\ \A record \in read.got : record < read.at + FrameSize
  BY <1>1, <1>2
<1>5. ReadIsOfTheRing'
  BY <1>1, <1>3, <1>4 DEF ReadIsOfTheRing
<1>6. ReadIsUnbroken => ReadIsUnbroken'
  BY <1>3 DEF ReadIsUnbroken
<1> QED BY <1>5, <1>6 DEF RingInv, RingIsARing, LogIsOfTheRing

LEMMA ReadEndsKeeps ==
  ASSUME RingInv, ReadEnds
  PROVE  RingInv'
<1> USE DEF ReadEnds
<1>1. read \in Reads
  BY DEF RingInv, ReadIsOfTheRing
<1>2. /\ read'.stage = "arrived" /\ read'.from = read.from /\ read'.to = read.to
      /\ read'.at = read.at /\ read'.got = read.got /\ read' \in Reads
  BY <1>1 DEF Reads
<1>3. ReadIsOfTheRing'
  BY <1>2 DEF RingInv, ReadIsOfTheRing
<1>4. ReadIsUnbroken => ReadIsUnbroken'
  BY <1>2 DEF ReadIsUnbroken
<1> QED BY <1>3, <1>4 DEF RingInv, RingIsARing, LogIsOfTheRing

LEMMA NoReadKeeps ==
  ASSUME read' = NoRead
  PROVE  ReadIsOfTheRing' /\ ReadIsUnbroken'
  BY NoReadIsARead DEF ReadIsOfTheRing, ReadIsUnbroken

\* What a read that has arrived makes of the log, before the trim.
LEMMA ArrivedFolds ==
  ASSUME RingInv, read.stage = "arrived"
  PROVE  LET later == FoldRingSnapshot(log, read.got) IN
         /\ Sound(later) /\ Extends(log, later)
         /\ Len(later) <= Len(log) + RingSize
         /\ \A n \in 1 .. Len(later) : later[n].record <= ring.newest
         /\ \A end \in RunEnds(read.got), from \in read.got :
              LongRun(read.got, from, end) =>
                \A record \in from .. end : Accounted(later, FirstSeen(log), record)
         /\ ~torn => FromTheRing(later, ring.oldest)
<1> DEFINE later == FoldRingSnapshot(log, read.got)
<1>1. /\ Sound(log) /\ read.got \in SUBSET Records
      /\ read.from = ring.oldest /\ read.to = ring.newest
      /\ \A record \in read.got : ring.oldest <= record /\ record <= ring.newest
      /\ \A n \in 1 .. Len(log) : log[n].record <= ring.newest
  BY DEF RingInv, ReadIsOfTheRing, LogIsOfTheRing, Reads
<1>2. /\ ring.oldest \in Records /\ ring.newest \in Records
      /\ ring.oldest \in Nat /\ ring.newest \in Nat /\ ring.oldest >= 1
      /\ ring.oldest <= ring.newest /\ ring.newest <= LastRecord
      /\ ring.newest - ring.oldest < RingSize
  BY RingFacts DEF RingInv
<1>3. /\ Sound(later) /\ Extends(log, later)
      /\ Len(later) <= Len(log) + RingSize
      /\ \A n \in Len(log) + 1 .. Len(later) : later[n].record \in read.got
      /\ \A end \in RunEnds(read.got), from \in read.got :
              LongRun(read.got, from, end) =>
                \A record \in from .. end : Accounted(later, FirstSeen(log), record)
  BY <1>1, <1>2, RingSnapshotKeeps
<1> HIDE DEF later
<1>4. \A n \in 1 .. Len(later) : later[n].record <= ring.newest
  <2>1. Len(log) \in Nat /\ Len(later) \in Nat
    BY <1>1, <1>3, SoundFacts
  <2>2. \A n \in 1 .. Len(later) : n \in 1 .. Len(log) \/ n \in Len(log) + 1 .. Len(later)
    BY <2>1
  <2> QED BY <1>1, <1>3, <2>2 DEF Extends
<1>5. ASSUME ~torn
      PROVE  FromTheRing(later, ring.oldest)
  <2>1. FromTheRing(log, ring.oldest) /\ ReadIsUnbroken
    BY <1>5 DEF RingInv
  <2>2. CASE read.got = {}
    BY <2>1, <2>2, NothingFolds DEF later
  <2>3. ASSUME NEW k \in ring.oldest .. ring.newest, read.got = ring.oldest .. k
        PROVE  FromTheRing(later, ring.oldest)
    <3>1. k \in Records /\ ring.oldest <= k
      BY <1>2, <2>3, RingConstants DEF Records
    <3>2. later = FoldRun(log, Stretch(ring.oldest, k), FirstSeen(log))
      BY <1>2, <2>3, <3>1, OneRunFolds DEF later
    <3>3. log # <<>> => log[Len(log)].record - ring.oldest < RingSize
      <4>1. log # <<>> => Len(log) \in 1 .. Len(log) /\ log[Len(log)].record \in Nat
        <5>1. log # <<>> => Len(log) \in 1 .. Len(log)
          BY <1>1, SoundFacts
        <5> QED BY <1>1, <5>1, SoundFacts
      <4>2. log # <<>> => log[Len(log)].record <= ring.newest
        BY <1>1, <4>1
      <4>3. \A n \in Nat : n <= ring.newest => n - ring.oldest < RingSize
        BY <1>2, RingConstants
      <4> QED BY <4>1, <4>2, <4>3
    <3>4. /\ FirstSeen(log) \in 1 .. Len(log) + 1
          /\ FirstSeen(log) = 1 \/ FirstSeen(log) = Len(log) - TailLength + 1
      BY <1>1, FirstSeenFacts
    <3> QED BY <1>1, <1>2, <2>1, <3>1, <3>2, <3>3, <3>4, FoldRunStaysInOrder
  <2> QED BY <1>1, <2>1, <2>2, <2>3 DEF ReadIsUnbroken
<1> QED BY <1>3, <1>4, <1>5 DEF later

LEMMA PruneKeepsRecords ==
  ASSUME NEW ledger, Sound(ledger), NEW newest,
         \A n \in 1 .. Len(ledger) : ledger[n].record <= newest
  PROVE  LET later == PruneRing(ledger) IN
         \A n \in 1 .. Len(later) : later[n].record <= newest
<1> DEFINE later == PruneRing(ledger)
           cut == Len(ledger) - KeptRows
<1>1. CASE later = ledger
  <2> HIDE DEF later
  <2> QED BY <1>1 DEF later
<1>2. CASE /\ cut \in Nat /\ Len(later) = KeptRows
           /\ \A n \in 1 .. KeptRows : later[n].record = ledger[cut + n].record
  <2>1. \A n \in 1 .. KeptRows : cut + n \in 1 .. Len(ledger)
    BY <1>2, RingConstants, SoundFacts
  <2> HIDE DEF later, cut
  <2> QED BY <1>2, <2>1 DEF later
<1> QED BY <1>1, <1>2, PruneFacts

LEMMA MergeRingKeeps ==
  ASSUME RingInv, MergeRing
  PROVE  RingInv'
<1> USE DEF MergeRing
<1> DEFINE later == FoldRingSnapshot(log, read.got)
<1>1. /\ Sound(later) /\ \A n \in 1 .. Len(later) : later[n].record <= ring.newest
      /\ ~torn => FromTheRing(later, ring.oldest)
  BY ArrivedFolds
<1>2. log' = PruneRing(later)
  OBVIOUS
<1> HIDE DEF later
<1>3. Sound(log') /\ Len(log') <= MaxRows
  BY <1>1, <1>2, PruneIsSound
<1>4. \A n \in 1 .. Len(log') : log'[n].record <= ring.newest
  BY <1>1, <1>2, PruneKeepsRecords
<1>5. ~torn => FromTheRing(log', ring.oldest)
  <2>1. ring.oldest \in Nat
    BY RingFacts DEF RingInv
  <2> QED BY <1>1, <1>2, <2>1, PruneStaysInOrder
<1> QED BY <1>3, <1>4, <1>5, NoReadKeeps DEF RingInv, RingIsARing, LogIsOfTheRing

LEMMA RingNextInvariant == RingInv /\ [RingNext]_ringVars => RingInv'
<1> SUFFICES ASSUME RingInv, [RingNext]_ringVars
             PROVE  RingInv'
  OBVIOUS
<1>1. CASE PackWrites
  BY <1>1, PackWritesKeeps
<1>2. CASE AskForLog
  BY <1>2, AskForLogKeeps
<1>3. CASE FrameArrives
  BY <1>3, FrameArrivesKeeps
<1>4. CASE FrameTorn
  BY <1>4, FrameTornKeeps
<1>5. CASE ReadEnds
  BY <1>5, ReadEndsKeeps
<1>6. CASE MergeRing
  BY <1>6, MergeRingKeeps
<1>7. CASE LogRefused
  BY <1>7, NoReadKeeps DEF LogRefused, RingInv, RingIsARing, LogIsOfTheRing
<1>8. CASE DropLog
  <2>1. LogIsOfTheRing'
    <3>1. 0 <= MaxRows /\ 1 .. 0 = {}
      BY RingConstants
    <3> QED BY <1>8, <3>1, NothingIsSound DEF DropLog, LogIsOfTheRing
  <2> QED BY <1>8, <2>1, NothingIsSound
          DEF DropLog, RingInv, RingIsARing, ReadIsOfTheRing, ReadIsUnbroken
<1>9. CASE UNCHANGED ringVars
  BY <1>9 DEF ringVars, RingInv, RingIsARing, ReadIsOfTheRing, ReadIsUnbroken, LogIsOfTheRing
<1> QED BY <1>1, <1>2, <1>3, <1>4, <1>5, <1>6, <1>7, <1>8, <1>9 DEF RingNext

\* The inductive invariant: the log is blocks of the pack's own records, each at least
\* an overlap long; and as long as no read lost a frame before its last, each block
\* begins no later than the ring does now and goes back over less than an overlap.
THEOREM LogIsBlocksOfTheRing == RingSpec => []RingInv
<1>1. RingInit => RingInv
  BY RingInitInvariant
<1>2. RingInv /\ [RingNext]_ringVars => RingInv'
  BY RingNextInvariant
<1> QED BY <1>1, <1>2, PTL DEF RingSpec

\* Two rows with no break between them are two records the pack wrote one after the
\* other, and no stretch the ledger can recognise is in it twice, whatever the pack's
\* bytes and however the reads that tore no frame before their last overlap.
THEOREM EveryRowIsOfTheRing == RingSpec => []RowsAreTheRing
<1>1. RingInv => RowsAreTheRing
  <2> SUFFICES ASSUME RingInv
               PROVE  RowsAreTheRing
    OBVIOUS
  <2>1. Sound(log) /\ Len(log) \in Nat /\ DOMAIN log = 1 .. Len(log)
    BY SoundFacts DEF RingInv, LogIsOfTheRing
  <2>2. RingTypeOK
    BY <2>1 DEF RingInv, RingIsARing, ReadIsOfTheRing, Reads, LogIsOfTheRing, Sound, LogRows, RingTypeOK
  <2>3. ASSUME NEW n \in 1 .. Len(log), ~log[n].followsGap
        PROVE  n \in 2 .. Len(log) /\ log[n].record = log[n - 1].record + 1
               /\ log[n - 1].record \in Nat
    <3>1. n # 1
      <4>1. log # <<>>
        BY <2>1, SoundFacts
      <4> QED BY <2>1, <2>3, <4>1, SoundFacts
    <3>2. /\ n \in 2 .. Len(log) /\ n - 1 \in 1 .. Len(log) /\ n - 1 <= n
          /\ \A i \in (n - 1) + 1 .. n : i = n
      BY <2>1, <3>1
    <3>3. log[n].record = log[n - 1].record + n - (n - 1)
      BY <2>1, <2>3, <3>2, RunsOn
    <3>4. log[n - 1].record \in Nat
      BY <2>1, <3>2, SoundFacts
    <3> QED BY <2>1, <3>2, <3>3, <3>4
  <2>4. MissingRowsAreDeclared
    BY <2>1, <2>3 DEF MissingRowsAreDeclared
  <2>5. ASSUME ~torn, NEW n \in 2 .. Len(log)
        PROVE  GoesBack(n) < MinOverlap
    <3>1. n \in 1 .. Len(log)
      BY <2>1
    <3>2. CASE log[n].followsGap
      BY <2>5, <3>2 DEF RingInv, FromTheRing, GoesBack
    <3>3. CASE ~log[n].followsGap
      <4>1. log[n].record = log[n - 1].record + 1 /\ log[n - 1].record \in Nat
        BY <2>3, <3>1, <3>3
      <4>2. log[n - 1].record - log[n].record + 1 = 0
        BY <4>1
      <4> QED BY <4>2, RingConstants DEF GoesBack
    <3> QED BY <3>2, <3>3
  <2>6. HeldIsRecognised
    BY <2>5 DEF HeldIsRecognised
  <2> QED BY <2>2, <2>4, <2>6 DEF RowsAreTheRing
<1> QED BY <1>1, LogIsBlocksOfTheRing, PTL

\* What a fold accounts for is in the log before it or after it, or is older than the
\* oldest row the fold, or the trim, left to see.
LEMMA FoldedIsHeld ==
  ASSUME RingInv, MergeRing, NEW run \in RingRunsOf(read.got), Len(run) >= MinOverlap,
         NEW record \in Range(run)
  PROVE  \/ \E row \in Range(log) \cup Range(log') : BytesOf(row.record) = BytesOf(record)
         \/ OlderThan(record, log) \/ OlderThan(record, log')
<1> DEFINE later == FoldRingSnapshot(log, read.got)
           l == Len(log)
           k == Len(later)
           first == FirstSeen(log)
<1>1. /\ Sound(later) /\ Extends(log, later) /\ k <= l + RingSize
      /\ \A end \in RunEnds(read.got), from \in read.got :
              LongRun(read.got, from, end) =>
                \A r \in from .. end : Accounted(later, first, r)
      /\ log' = PruneRing(later)
  BY ArrivedFolds DEF MergeRing
<1>2. Sound(log) /\ read.got \in SUBSET Records /\ l <= MaxRows
  BY DEF RingInv, LogIsOfTheRing, ReadIsOfTheRing, Reads
<1>3. PICK end \in RunEnds(read.got) : run = RunEndingAt(read.got, end)
  BY DEF RingRunsOf
<1>4. PICK from \in read.got : /\ run = Stretch(from, end)
                               /\ from <= end /\ from .. end \subseteq read.got
                               /\ from - 1 \notin read.got
  BY <1>2, <1>3, RunFacts
<1>5. from \in Records /\ end \in Records /\ from \in Nat /\ end \in Nat
  BY <1>2, RingConstants DEF RunEnds, Records
<1>6. /\ Len(run) = end - from + 1 /\ DOMAIN run = 1 .. end - from + 1
      /\ \A n \in 1 .. end - from + 1 : run[n] = from + n - 1
  BY <1>4, <1>5, StretchFacts
<1>7. record \in from .. end
  <2>1. PICK n \in 1 .. end - from + 1 : record = from + n - 1
    BY <1>6 DEF Range
  <2> QED BY <1>5, <2>1
<1>8. Accounted(later, first, record)
  <2>1. LongRun(read.got, from, end)
    BY <1>4, <1>6 DEF LongRun
  <2> QED BY <1>1, <1>7, <2>1
<1> HIDE DEF later
<1>9. /\ l \in Nat /\ k \in Nat /\ k >= l /\ \A n \in 1 .. l : later[n] = log[n]
      /\ DOMAIN log = 1 .. l /\ DOMAIN later = 1 .. k
      /\ KeptRows \in Nat /\ RingSize \in Nat /\ RingSize <= KeptRows /\ MaxRows \in Nat
      /\ KeptRows < MaxRows /\ RingSize <= TailLength /\ TailLength \in Nat
  BY <1>1, <1>2, SoundFacts, RingConstants DEF Extends
<1>10. CASE \E n \in 1 .. k : BytesOf(later[n].record) = BytesOf(record)
  <2>1. PICK n \in 1 .. k : BytesOf(later[n].record) = BytesOf(record)
    BY <1>10
  <2>2. CASE n \in 1 .. l
    <3>1. log[n] \in Range(log) /\ later[n] = log[n]
      BY <1>9, <2>2 DEF Range
    <3> QED BY <2>1, <3>1
  <2>3. CASE n \in l + 1 .. k
    <3>1. \E m \in DOMAIN log' : log'[m].record = later[n].record
      <4>1. CASE PruneRing(later) = later
        BY <1>1, <1>9, <2>3, <4>1
      <4>2. CASE /\ k > MaxRows /\ DOMAIN PruneRing(later) = 1 .. KeptRows
                 /\ \A i \in 1 .. KeptRows :
                      PruneRing(later)[i].record = later[(k - KeptRows) + i].record
        <5> DEFINE m == n - (k - KeptRows)
        <5>1. m \in 1 .. KeptRows /\ (k - KeptRows) + m = n
          BY <1>1, <1>9, <2>3, <4>2
        <5> HIDE DEF m
        <5> QED BY <1>1, <4>2, <5>1
      <4> QED BY <1>1, <4>1, <4>2, PruneFacts
    <3>2. PICK m \in DOMAIN log' : log'[m].record = later[n].record
      BY <3>1
    <3>3. log'[m] \in Range(log')
      BY DEF Range
    <3> QED BY <2>1, <3>2, <3>3
  <2> QED BY <1>9, <2>1, <2>2, <2>3
<1>11. CASE first \in 1 .. k /\ record < later[first].record
  <2>1. CASE log # <<>>
    <3>1. first \in 1 .. l
      BY <1>2, <2>1, FirstSeenFacts
    <3>2. record < log[FirstSeen(log)].record
      BY <1>9, <1>11, <3>1
    <3> QED BY <2>1, <3>2 DEF OlderThan, OldestSeen
  <2>2. CASE log = <<>>
    <3>1. l = 0 /\ first = 1
      BY <1>2, <1>9, <2>2, FirstSeenFacts, SoundFacts
    <3>2. k <= TailLength /\ k <= MaxRows /\ k >= 1
      BY <1>1, <1>9, <1>11, <3>1, RingConstants
    <3>3. log' = later
      BY <1>1, <1>9, <3>2 DEF PruneRing
    <3>4. FirstSeen(later) = 1 /\ later # <<>>
      BY <1>1, <1>9, <3>2, FirstSeenFacts, SoundFacts
    <3> QED BY <1>11, <3>1, <3>3, <3>4 DEF OlderThan, OldestSeen
  <2> QED BY <2>1, <2>2
<1> QED BY <1>8, <1>10, <1>11 DEF Accounted

\* Once a read is filed, the bytes of every stretch of it long enough to say where it
\* belongs are in the ledger, unless the trim took them or they are older than its
\* oldest row in view: torn frames, twins and an ambiguous place notwithstanding.
THEOREM ReadsAreHeld == RingSpec => ReadIsHeld
<1>1. RingInv /\ [RingNext]_ringVars =>
        [MergeRing =>
           \A run \in RingRunsOf(read.got) : Len(run) >= MinOverlap =>
             \A record \in Range(run) :
               \/ \E row \in Range(log) \cup Range(log') :
                    BytesOf(row.record) = BytesOf(record)
               \/ OlderThan(record, log) \/ OlderThan(record, log')]_ringVars
  BY FoldedIsHeld
<1> QED BY <1>1, LogIsBlocksOfTheRing, PTL DEF RingSpec, ReadIsHeld

=============================================================================
