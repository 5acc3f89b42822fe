----------------------------- MODULE SolarLedger ------------------------------
(***************************************************************************)
(* The charge controller's stored history and the ledger this browser      *)
(* keeps of it.  The controller rewrites today's record all day, moves     *)
(* every record one register back at midnight and forgets the oldest.  A   *)
(* sweep asks for one register after another, newest day first, and ends   *)
(* where an answer fails to come; midnight may pass under it.  What came   *)
(* back is dated from this browser's clock, which may be a day out, and    *)
(* matched to the ledger by the controller's own wrapping day number,      *)
(* among the rows dated within one backlog.                                *)
(*                                                                         *)
(* A day is named by its true place in the calendar, which neither the     *)
(* ledger nor the sweep ever sees.                                         *)
(***************************************************************************)
EXTENDS Integers, FiniteSetsExt, SequencesExt

CONSTANTS
  Backlog,       \* MAX_HISTORY_DAYS: the day registers
  Wrap,          \* where the controller's day number comes round
  MaxError,      \* by how many days this browser's clock may be out
  LastFigure,    \* bound: how often the controller rewrites a day
  LastDay,       \* bound: the days of a behaviour
  MaxSweeps      \* bound: the sweeps of a behaviour

ASSUME SolarLedgerAssumption ==
  /\ {Backlog, Wrap, LastFigure, LastDay, MaxSweeps} \subseteq Nat \ {0}
  /\ MaxError \in Nat
  \* The day number does not come round among the days a match looks at.
  /\ Wrap > Backlog + 2 * MaxError + 1
  \* A day keeps within the neighbourhood of its row.
  /\ Backlog >= 2 * MaxError + 1

VARIABLES
  today,     \* the day it is
  figures,   \* what the controller's record of each day says, 0 unwritten
  sweep,     \* the sweep under way
  rows,      \* the ledger, in the order of seq
  sweeps     \* how many of MaxSweeps have begun

vars == <<today, figures, sweep, rows, sweeps>>

Days == 1 .. LastDay

NoSweep == [stage |-> "none", next |-> 0, count |-> 0, days |-> {}, whole |-> FALSE,
            began |-> 0]

Init ==
  /\ today = 1
  /\ figures = [day \in Days |-> 0]
  /\ sweep = NoSweep
  /\ rows = <<>>
  /\ sweeps = 0

-----------------------------------------------------------------------------
(* The controller. *)

SunShines ==
  /\ figures[today] < LastFigure
  /\ figures' = [figures EXCEPT ![today] = @ + 1]
  /\ UNCHANGED <<today, sweep, rows, sweeps>>

\* CEILING_MS and the filing after it are far from two days long.
Midnight ==
  /\ today < LastDay
  /\ sweep.stage = "none" \/ sweep.began = today
  /\ today' = today + 1
  /\ figures' = [day \in Days |-> IF day + Backlog <= today + 1 THEN 0 ELSE figures[day]]
  /\ UNCHANGED <<sweep, rows, sweeps>>

\* The completed days behind today; the sweep reads one register more.
DaysAvailable == IF today > Backlog THEN Backlog - 1 ELSE today - 1

DayCount == IF DaysAvailable + 1 < Backlog THEN DaysAvailable + 1 ELSE Backlog

-----------------------------------------------------------------------------
(* The sweep. *)

BeginSweep ==
  /\ sweep.stage = "none"
  /\ sweeps < MaxSweeps
  /\ sweeps' = sweeps + 1
  /\ sweep' = [NoSweep EXCEPT !.stage = "totals", !.began = today]
  /\ UNCHANGED <<today, figures, rows>>

TotalsAnswered ==
  /\ sweep.stage = "totals"
  /\ sweep' = [sweep EXCEPT !.stage = "days", !.count = DayCount]
  /\ UNCHANGED <<today, figures, rows, sweeps>>

\* Whole until a register is skipped, refused or not answered.
DayAnswered ==
  /\ sweep.stage = "days"
  /\ sweep.next < sweep.count
  /\ LET day == today - sweep.next
         reading == [daysAgo |-> sweep.next, day |-> day, figure |-> figures[day]]
     IN  sweep' = [sweep EXCEPT !.days = @ \cup {reading}, !.next = @ + 1]
  /\ UNCHANGED <<today, figures, rows, sweeps>>

\* A reply that arrived whole and would not decode: the sweep goes on past it.
DayUnreadable ==
  /\ sweep.stage = "days"
  /\ sweep.next < sweep.count
  /\ sweep' = [sweep EXCEPT !.next = @ + 1]
  /\ UNCHANGED <<today, figures, rows, sweeps>>

\* Every register is answered, or one is refused, the controller goes silent,
\* the ceiling is reached or the link goes: the sweep has what it has.
SweepEnds ==
  /\ sweep.stage \in {"totals", "days"}
  /\ sweep' = [sweep EXCEPT !.stage = "read", !.next = 0, !.count = 0,
                            !.whole = /\ sweep.stage = "days"
                                      /\ Cardinality(sweep.days) = sweep.count]
  /\ UNCHANGED <<today, figures, rows, sweeps>>

-----------------------------------------------------------------------------
(* The fold. *)

Number(day) == day % Wrap

Apart(left, right) == IF left < right THEN right - left ELSE left - right

SameNumberAndDate(ledger, reading, date) ==                  \* mutant
  {n \in DOMAIN ledger : /\ Number(ledger[n].day) = Number(reading.day)
                         /\ ledger[n].date = date}

SameNumberAnyDate(ledger, reading, date) ==                  \* mutant
  {n \in DOMAIN ledger : Number(ledger[n].day) = Number(reading.day)}

\* The rows that may hold the day: its number, and a date within one backlog.
SameDayIn(ledger, reading, date) ==
  {n \in DOMAIN ledger : /\ Number(ledger[n].day) = Number(reading.day)
                         /\ Apart(ledger[n].date, date) <= Backlog}

NewRow(ledger, reading, date) ==
  [seq |-> IF ledger = <<>> THEN 0 ELSE Last(ledger).seq + 1,
   date |-> date, day |-> reading.day, figure |-> reading.figure]

RevisedNever(row, reading) == row                            \* mutant

\* Only what the controller said about the day changes.
Revised(row, reading) ==
  [row EXCEPT !.day = reading.day, !.figure = reading.figure]

DateOf(reading, readOnDate) == readOnDate - reading.daysAgo

FoldWritten(ledger, reading, date) ==
  LET held == SameDayIn(ledger, reading, date)
  IN  IF held = {} THEN Append(ledger, NewRow(ledger, reading, date))
      ELSE [ledger EXCEPT ![Min(held)] = Revised(@, reading)]

\* A register the controller has not written stores nothing.
FoldReading(ledger, reading, readOnDate) ==
  IF reading.figure = 0 THEN ledger
  ELSE FoldWritten(ledger, reading, DateOf(reading, readOnDate))

FoldRegister(ledger, days, daysAgo, readOnDate) ==
  LET answers == {reading \in days : reading.daysAgo = daysAgo}
  IN  IF answers = {} THEN ledger
      ELSE FoldReading(ledger, CHOOSE reading \in answers : TRUE, readOnDate)

\* The oldest register first.
FoldSolarHistorySnapshot(ledger, days, readOnDate) ==
  LET folded[k \in 0 .. Backlog] ==
        IF k = 0 THEN ledger
        ELSE FoldRegister(folded[k - 1], days, Backlog - k, readOnDate)
  IN  folded[Backlog]

\* One transaction, dated by the clock this browser has when it files.
MergeSolarHistory ==
  /\ sweep.stage = "read"
  /\ \E error \in -MaxError .. MaxError :
       rows' = FoldSolarHistorySnapshot(rows, sweep.days, today + error)
  /\ sweep' = NoSweep
  /\ UNCHANGED <<today, figures, sweeps>>

\* The archive refuses, or has stood down, or the controller has no name.
IngestRefused ==
  /\ sweep.stage = "read"
  /\ sweep' = NoSweep
  /\ UNCHANGED <<today, figures, rows, sweeps>>

\* The owner forgets the ledger, or it is the least recently read of too many.  A
\* sweep does not look at the ledger until it is filed: one dropped under it is as
\* well dropped before it.
DropLedger ==
  /\ sweep.stage = "none"
  /\ rows # <<>>
  /\ rows' = <<>>
  /\ UNCHANGED <<today, figures, sweep, sweeps>>

Next ==
  \/ SunShines \/ Midnight
  \/ BeginSweep \/ TotalsAnswered \/ DayAnswered \/ DayUnreadable \/ SweepEnds
  \/ MergeSolarHistory \/ IngestRefused \/ DropLedger

Spec == Init /\ [][Next]_vars

-----------------------------------------------------------------------------
(* Properties. *)

\* Every variable stays in its range, and seq counts up from the first row.
TypeOK ==
  /\ today \in Days
  /\ figures \in [Days -> 0 .. LastFigure]
  /\ sweep.stage \in {"none", "totals", "days", "read"}
  /\ sweep.next \in 0 .. Backlog /\ sweep.count \in 0 .. Backlog
  /\ \A reading \in sweep.days : reading.day \in Days /\ reading.daysAgo < Backlog
  /\ rows \in Seq([seq : Nat, date : Int, day : Days, figure : 1 .. LastFigure])
  /\ \A n \in DOMAIN rows : rows[n].seq = n - 1
  /\ sweeps \in 0 .. MaxSweeps

\* One day is never split into two rows, however the clock was out when either
\* was dated and wherever midnight fell.
OneRowPerDay ==
  \A m, n \in DOMAIN rows : rows[m].day = rows[n].day => m = n

\* A row is dated to its own day but for the error of the clock that first dated
\* it and one midnight that passed while the sweep was out.
DatedWithinTheError ==
  \A row \in Range(rows) :
    row.date - row.day \in -MaxError .. MaxError + 1

\* Every row is the row of one day, and near enough to it for the next sweep to tell.
RowsAreDays == TypeOK /\ OneRowPerDay /\ DatedWithinTheError

\* A row stays the row of its day, at its seq and its date: a day number that has
\* come round never writes a new day over an old one.
RowKeepsItsDay ==
  [][\A n \in DOMAIN rows \cap DOMAIN rows' :
       /\ rows'[n].day = rows[n].day
       /\ rows'[n].date = rows[n].date]_vars

\* A whole sweep that no midnight crossed is all in the ledger when it is filed,
\* each written day with the figures the controller gave.
WholeSweepIsHeld ==
  [][MergeSolarHistory /\ sweep.whole /\ sweep.began = today =>
       \A reading \in sweep.days : reading.figure > 0 =>
         \E row \in Range(rows') :
           row.day = reading.day /\ row.figure = reading.figure]_vars

=============================================================================
