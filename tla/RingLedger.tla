------------------------------ MODULE RingLedger ------------------------------
(***************************************************************************)
(* The pack's stored log and the ledger this browser keeps of it.  The     *)
(* pack writes records into a ring that drops its oldest; a read is a      *)
(* burst of frames, of which some are torn and the last may never come;    *)
(* what arrived is split into unbroken runs, and each run is placed        *)
(* against the ledger by the bytes on which the two agree, for nothing     *)
(* else about a record is unique.                                          *)
(*                                                                         *)
(* A record is named by its place in the order the pack wrote it.  The     *)
(* code never sees that name, only the bytes, and two records may have the *)
(* same.  A fold reads and writes the rows of one device key in one        *)
(* transaction, so one pack stands for all of them.                        *)
(***************************************************************************)
EXTENDS Integers, FiniteSetsExt, SequencesExt

CONSTANTS
  RingSize,      \* the most records the pack's ring holds
  FrameSize,     \* MAX_RECORDS_PER_FRAME
  MinOverlap,    \* MIN_ALIGNMENT_OVERLAP
  TailLength,    \* ALIGNMENT_TAIL_RECORDS
  MaxRows,       \* MAX_RING_RECORDS_PER_DEVICE
  KeptRows,      \* MaxRows times RING_PRUNE_TARGET_RATIO
  Twins,         \* the records whose successor has the same bytes
  LastRecord,    \* bound: the records the pack writes
  MaxReads       \* bound: the reads of a behaviour

ASSUME RingLedgerAssumption ==
  /\ {RingSize, FrameSize, MinOverlap, TailLength, MaxRows, KeptRows,
      LastRecord, MaxReads} \subseteq Nat \ {0}
  /\ RingSize <= TailLength /\ TailLength <= KeptRows /\ KeptRows < MaxRows
  /\ MinOverlap > 2             \* longer than any stretch of equal bytes
  /\ Twins \subseteq 1 .. LastRecord
  /\ \A record \in Twins : record + 1 \notin Twins

VARIABLES
  ring,     \* the records the pack holds, oldest to newest
  read,     \* the read under way, and what of it arrived
  log,      \* the pack's ledger, in the order of seq
  torn,     \* no state of the code: a burst so far lost a frame before its last
  reads     \* how many of MaxReads have begun

ringVars == <<ring, read, log, torn, reads>>

-----------------------------------------------------------------------------
NoRead == [stage |-> "none", from |-> 1, to |-> 0, at |-> 1, got |-> {}]

RingInit ==
  /\ ring = [oldest |-> 1, newest |-> 1]
  /\ read = NoRead
  /\ log = <<>>
  /\ torn = FALSE
  /\ reads = 0

BytesOf(record) == IF record - 1 \in Twins THEN record - 1 ELSE record

\* The ring is no fixed-length queue: now and then it drops more than it must.
\* A record written while an answer is under way is in no part of that answer, so
\* it is as well written after it.
PackWrites ==
  /\ read.stage = "none"
  /\ ring.newest < LastRecord
  /\ \E dropped \in 0 .. 2 :
       LET oldest == ring.oldest + dropped
       IN  /\ oldest <= ring.newest
           /\ ring.newest + 2 - oldest <= RingSize
           /\ ring' = [oldest |-> oldest, newest |-> ring.newest + 1]
  /\ UNCHANGED <<read, log, torn, reads>>

-----------------------------------------------------------------------------
(* The burst.  It carries the ring as it was when it was asked for. *)

AskForLog ==
  /\ read.stage = "none"
  /\ reads < MaxReads
  /\ reads' = reads + 1
  /\ read' = [stage |-> "burst", from |-> ring.oldest, to |-> ring.newest,
              at |-> ring.oldest, got |-> {}]
  /\ UNCHANGED <<ring, log, torn>>

NextFrame ==
  {record \in read.at .. read.at + FrameSize - 1 : record <= read.to}

FrameArrives ==
  /\ read.stage = "burst"
  /\ NextFrame # {}
  /\ read' = [read EXCEPT !.at = @ + FrameSize, !.got = @ \cup NextFrame]
  /\ torn' = (torn \/ \E record \in read.from .. read.at - 1 : record \notin read.got)
  /\ UNCHANGED <<ring, log, reads>>

\* A frame the assembler or the decoder would not have.
FrameTorn ==
  /\ read.stage = "burst"
  /\ NextFrame # {}
  /\ read' = [read EXCEPT !.at = @ + FrameSize]
  /\ UNCHANGED <<ring, log, torn, reads>>

\* The quiet gap, the ceiling, or the link going away.
ReadEnds ==
  /\ read.stage = "burst"
  /\ read' = [read EXCEPT !.stage = "arrived"]
  /\ UNCHANGED <<ring, log, torn, reads>>

-----------------------------------------------------------------------------
(* The fold. *)

Stretch(from, to) == [n \in 1 .. to - from + 1 |-> from + n - 1]

\* A maximal unbroken stretch of what arrived, named by the record it ends at.
RunEnds(got) == {record \in got : record + 1 \notin got}
RunEndingAt(got, end) == Stretch(Min({record \in got : record .. end \subseteq got}), end)
RingRunsOf(got) == {RunEndingAt(got, end) : end \in RunEnds(got)}

SuffixOverlap(known, run, shift) ==                          \* mutant
  IF shift + Len(run) < Len(known) THEN {} ELSE {n \in DOMAIN run : shift + n \in DOMAIN known}

Overlap(known, run, shift) ==
  {n \in DOMAIN run : shift + n \in DOMAIN known}

Agree(known, run, shift) ==
  \A n \in Overlap(known, run, shift) :
    BytesOf(known[shift + n].record) = BytesOf(run[n])

Shifts(known, run) ==
  {shift \in MinOverlap - Len(run) .. Len(known) - MinOverlap :
     /\ Cardinality(Overlap(known, run, shift)) >= MinOverlap
     /\ Agree(known, run, shift)}

NoShift == {}

\* The one shift at which everything both hold is the same; two are no answer.
AlignRun(known, run) ==
  IF Cardinality(Shifts(known, run)) = 1 THEN Shifts(known, run) ELSE NoShift

NextSeq(ledger) == IF ledger = <<>> THEN 0 ELSE Last(ledger).seq + 1

Appended(ledger, records, followsGap) ==
  ledger \o [n \in DOMAIN records |->
               [record |-> records[n], seq |-> NextSeq(ledger) + n - 1,
                followsGap |-> followsGap /\ n = 1]]

\* What the fold knows is the tail it was given and whatever it appended to it.
FoldRun(ledger, run, first) ==
  LET known == SubSeq(ledger, first, Len(ledger))
      aligned == AlignRun(known, run)
  IN  IF aligned # NoShift
      THEN LET shift == CHOOSE s \in aligned : TRUE
           IN  Appended(ledger, SubSeq(run, Len(known) - shift + 1, Len(run)), FALSE)
      ELSE IF Len(run) < MinOverlap THEN ledger
      ELSE Appended(ledger, run, TRUE)

\* The fold of the run that ends at this record, if one does.
FoldRunEndingAt(ledger, got, end, first) ==
  IF end \in RunEnds(got) THEN FoldRun(ledger, RunEndingAt(got, end), first) ELSE ledger

\* The first row of the tail.
FirstSeen(ledger) ==
  IF Len(ledger) > TailLength THEN Len(ledger) - TailLength + 1 ELSE 1

\* Run after run, in the order of the ring.
FoldRingSnapshot(ledger, got) ==
  LET folded[end \in 0 .. LastRecord] ==
        IF end = 0 THEN ledger
        ELSE FoldRunEndingAt(folded[end - 1], got, end, FirstSeen(ledger))
  IN  folded[LastRecord]

PruneFromTheHead(ledger) ==                                  \* mutant
  IF Len(ledger) <= MaxRows THEN ledger ELSE SubSeq(ledger, 1, KeptRows)

\* Past the cap the oldest rows go, and the survivor at the head says so.
PruneRing(ledger) ==
  IF Len(ledger) <= MaxRows THEN ledger
  ELSE LET kept == SubSeq(ledger, Len(ledger) - KeptRows + 1, Len(ledger))
       IN  [kept EXCEPT ![1].followsGap = TRUE]

\* One transaction: the tail, the fold, the prune.
MergeRing ==
  /\ read.stage = "arrived"
  /\ log' = PruneRing(FoldRingSnapshot(log, read.got))
  /\ read' = NoRead
  /\ UNCHANGED <<ring, torn, reads>>

\* The archive refuses, or has stood down.
LogRefused ==
  /\ read.stage = "arrived"
  /\ read' = NoRead
  /\ UNCHANGED <<ring, log, torn, reads>>

\* The owner forgets the ledger, or it is the least recently read of too many.
DropLog ==
  /\ log # <<>>
  /\ log' = <<>>
  /\ UNCHANGED <<ring, read, torn, reads>>

RingNext ==
  \/ PackWrites \/ AskForLog \/ FrameArrives \/ FrameTorn \/ ReadEnds
  \/ MergeRing \/ LogRefused \/ DropLog

RingSpec == RingInit /\ [][RingNext]_ringVars

-----------------------------------------------------------------------------
(* Properties. *)

Records == 1 .. LastRecord

\* Every variable stays in its range, the ledger under its cap, and seq dense.
RingTypeOK ==
  /\ ring \in [oldest : Records, newest : Records]
  /\ ring.newest - ring.oldest < RingSize
  /\ read.stage \in {"none", "burst", "arrived"} /\ read.got \subseteq Records
  /\ log \in Seq([record : Records, seq : Nat, followsGap : BOOLEAN])
  /\ Len(log) <= MaxRows
  /\ \A n \in 1 .. Len(log) - 1 : log[n + 1].seq = log[n].seq + 1
  /\ torn \in BOOLEAN
  /\ reads \in 0 .. MaxReads

\* "True when this row's predecessor is missing": two neighbours neither of which
\* declares a break are two records the pack wrote one after the other.
MissingRowsAreDeclared ==
  \A n \in DOMAIN log :
    \/ log[n].followsGap
    \/ n > 1 /\ log[n].record = log[n - 1].record + 1

\* A record the ledger holds is recognised and not filed again, but for the few
\* that are too short an overlap to say where a read belongs; as long as no read
\* has lost a frame from its middle.
GoesBack(n) == log[n - 1].record - log[n].record + 1
HeldIsRecognised ==
  torn \/ \A n \in 2 .. Len(log) : GoesBack(n) < MinOverlap

\* Reads that lose their head or tail, twins in the ring, trims and a moving ring
\* between them: the rows are the pack's records in order, breaks said and no stretch
\* filed twice.
RowsAreTheRing == RingTypeOK /\ MissingRowsAreDeclared /\ HeldIsRecognised

\* Does not hold: "a record the ledger already holds is recognised rather than duplicated."
TornReadIsRecognised == \A n \in 2 .. Len(log) : GoesBack(n) < MinOverlap

\* Nothing that was read is lost: once a read is filed, the bytes of every stretch
\* of it long enough to say where it belongs are in the ledger, unless a trim took
\* them or they are older than the oldest row the fold, or the trim, left to see.
OldestSeen(ledger) == ledger[FirstSeen(ledger)].record
OlderThan(record, ledger) == ledger # <<>> /\ record < OldestSeen(ledger)
ReadIsHeld ==
  [][MergeRing =>
       \A run \in RingRunsOf(read.got) : Len(run) >= MinOverlap =>
         \A record \in Range(run) :
           \/ \E row \in Range(log) \cup Range(log') :
                BytesOf(row.record) = BytesOf(record)
           \/ OlderThan(record, log) \/ OlderThan(record, log')]_ringVars

=============================================================================
