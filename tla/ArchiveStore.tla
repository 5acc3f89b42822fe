---------------------------- MODULE ArchiveStore ----------------------------
(***************************************************************************)
(* The recordings' half of the archive: what one IndexedDB transaction of  *)
(* IdbHistoryStore does to session rows, raw chunks, hourly summaries and  *)
(* the two cached totals, when a recorder writes, an owner deletes, looks, *)
(* copies and restores, and the store makes room.  Every action is one     *)
(* transaction; transactions of several tabs are serialised by the browser.*)
(*                                                                         *)
(* Sessions are numbers in the order they start.  A chunk's samples are    *)
(* the set of their instants; a summary holds the samples it accounts for, *)
(* and the span it claims.                                                 *)
(***************************************************************************)
EXTENDS Integers, FiniteSets, Sequences, SequencesExt, FiniteSetsExt

CONSTANTS
  Tabs,          \* pages of this browser, each with a store of its own
  MaxSession,    \* sessions are 1..MaxSession
  MaxTime,       \* the last instant of the clock
  HourSpan,      \* instants in an hour
  ChunkSize,     \* rows a chunk seals at (CHUNK_CAPACITY)
  Capacities,    \* raw allowances the owner may choose, in bytes
  MaxSessions,   \* MAX_SESSIONS
  MaxHours,      \* MAX_SESSION_HOURS
  Retention,     \* COMPACT_RETENTION_MS, in instants
  StaleAfter,    \* HEARTBEAT_STALE_MS, in instants
  Legacies,      \* the archives the first page may find: new, cut off, or with strays
  MaxHappenings  \* bound on the owner's and the browser's doings in one behaviour

ASSUME ArchiveAssumption ==
  /\ \A n \in {MaxSession, MaxTime, HourSpan, ChunkSize, MaxSessions, MaxHours,
               Retention, StaleAfter, MaxHappenings} : n \in Nat \ {0}
  /\ MaxSession >= 2 /\ MaxTime >= 3          \* what an older build left fits
  /\ Capacities \subseteq Nat /\ Capacities # {}
  /\ Legacies \subseteq {"fresh", "cut", "littered"}

VARIABLES
  now,           \* the wall clock
  db,            \* [rows, chunks, hours, total, raw]: what is committed
  opened,        \* tabs whose store is open
  viewed,        \* per tab, the session its Log has on screen
  capacity,      \* the allowance in localStorage
  pen,           \* the recorder at work, or NoPen
  copy,          \* the last archive taken out, or NoCopy
  happenings     \* how many of MaxHappenings are spent

archiveVars == <<now, db, opened, viewed, capacity, pen, copy, happenings>>

-----------------------------------------------------------------------------
(* Shapes *)

Sessions == 1 .. MaxSession
Streams == {"pack", "solar"}
Instants == 0 .. MaxTime

NoRow == 0
NoPen == [of |-> NoRow]
Fresh == [rows |-> <<>>, chunks |-> {}, hours |-> {}, total |-> 0, raw |-> 0]
Copy(a) == [held |-> TRUE, archive |-> a]
NoCopy == [held |-> FALSE, archive |-> Fresh]
Unknown == -1            \* meta.rawBytes is missing from an older archive

\* A sum over chunks counts their samples, or their samples' bytes, one by one.
SampleBytes(stream) == IF stream = "pack" THEN 1 .. 2 ELSE 1 .. 1
RawBytes(chunks) ==
  Cardinality(UNION {{c} \X (c.at \X SampleBytes(c.stream)) : c \in chunks})
SealedSamples(chunks) ==
  Cardinality(UNION {{c} \X c.at : c \in {d \in chunks : d.sealed}})

\* What the session rows say is sealed, in all.
SealedInRows(rows) == Cardinality(UNION {{s} \X (1 .. rows[s].sealed) : s \in DOMAIN rows})

AllClosed(a) == \A s \in DOMAIN a.rows : a.rows[s].state = "closed"

\* Chunks whose session has no row.
Strays(a) == {c \in a.chunks : c.of \notin DOMAIN a.rows}

Of(things, s) == {x \in things : x.of = s}
Samples(chunks) == UNION {{<<c.stream, t>> : t \in c.at} : c \in chunks}
HourOf(t) == t \div HourSpan

NewRow(at) == [state |-> "open", beat |-> at, ended |-> at, basis |-> "none",
               sealed |-> 0, retained |-> 0, seen |-> FALSE]

-----------------------------------------------------------------------------
(* Hourly summaries *)

\* The account of hour h an accumulator makes of the samples it took: a
\* neighbour outside the hour stretches the span to the hour's edge.
Summary(s, h, basis, taken) ==
  LET inside == {k[2] : k \in {j \in taken : HourOf(j[2]) = h}}
      before == \E k \in taken : HourOf(k[2]) < h
      after  == \E k \in taken : HourOf(k[2]) > h
  IN  [of |-> s, hour |-> h, basis |-> basis,
       from |-> IF before THEN h * HourSpan ELSE Min(inside),
       to |-> IF after THEN (h + 1) * HourSpan ELSE Max(inside),
       holds |-> {k \in taken : HourOf(k[2]) = h}]

\* A slip: an hour's first summary stays, and later rows of the hour have none.
PutHoursOnce(hours, made) ==
  hours \cup {y \in made : \A x \in hours : x.of # y.of \/ x.hour # y.hour}

\* Replaces the summaries of session s for the hours of `made`.
PutHours(hours, made) ==
  {x \in hours : \A y \in made : x.of # y.of \/ x.hour # y.hour} \cup made

\* A slip: what raw rows are left makes an hour's summary again, though some
\* of the hour's rows were cut.
CompactAgain(a, s) ==
  LET row == a.rows[s]
      raw == Samples(Of(a.chunks, s))
      Near(h) == {k \in raw : k[2] \in (h * HourSpan - 1) .. ((h + 1) * HourSpan)}
      made == {Summary(s, h, "reconstructed", Near(h)) : h \in {HourOf(k[2]) : k \in raw}}
  IN  IF row.basis = "recorded" \/ raw = {} THEN a
      ELSE [a EXCEPT !.hours = PutHours(@, made), !.rows[s].basis = "reconstructed"]

\* compactSessionInTransaction: summaries for raw rows no recorder summarised.
Compact(a, s) ==
  LET row == a.rows[s]
      raw == Samples(Of(a.chunks, s))
      Redone(h) == \A x \in Of(a.hours, s) :
                     x.hour = h => x.basis # "recorded" /\ h * HourSpan >= row.retained
      Near(h) == {k \in raw : k[2] \in (h * HourSpan - 1) .. ((h + 1) * HourSpan)}
      made == {Summary(s, h, "reconstructed", Near(h)) :
                 h \in {g \in {HourOf(k[2]) : k \in raw} : Redone(g)}}
  IN  IF \/ row.basis = "recorded"
         \/ row.state = "closed" /\ row.basis = "reconstructed"
         \/ raw = {}
      THEN a
      ELSE [a EXCEPT !.hours = PutHours(@, made), !.rows[s].basis = "reconstructed"]

\* One session's summaries are nothing to another's.
CompactAll(a, those) ==
  [a EXCEPT !.hours = {x \in @ : x.of \notin those}
                        \cup UNION {Of(Compact(a, s).hours, s) : s \in those},
            !.rows = [s \in DOMAIN @ |-> IF s \in those THEN Compact(a, s).rows[s]
                                         ELSE @[s]]]

\* chunkHasSummary: every row of the chunk lies in the span of a summary.
HasSummary(hours, c) ==
  \A t \in c.at : \E x \in Of(hours, c.of) :
    x.hour = HourOf(t) /\ x.from <= t /\ t <= x.to

-----------------------------------------------------------------------------
(* Making room *)

Older(c, d) ==
  LET i == Min(c.at)  j == Min(d.at)
  IN  \/ i < j
      \/ i = j /\ c.of < d.of
      \/ i = j /\ c.of = d.of /\ c.seq < d.seq
      \/ i = j /\ c.of = d.of /\ c.seq = d.seq /\ c.stream = "pack" /\ d.stream # "pack"

\* planRawPrune: sealed chunks, oldest first, until nine tenths remain.
PlanRawPrune(chunks, raw, allowed) ==
  LET sealed == {c \in chunks : c.sealed}
      Remaining(c) == raw - RawBytes({d \in sealed : Older(d, c)})
  IN  IF raw <= allowed THEN {}
      ELSE {c \in sealed : Remaining(c) > (allowed * 9) \div 10}

\* The raw part of prune: the planned chunks go, those a summary covers.
DropRaw(a, allowed) ==
  LET plan == PlanRawPrune(a.chunks, a.raw, allowed)
      cut == {c.of : c \in plan}
      summed == CompactAll(a, cut)
      dropped == {c \in plan : HasSummary(summed.hours, c)}
      left == a.chunks \ dropped
      Settled(s, row) ==
        [row EXCEPT !.sealed = SealedSamples(Of(left, s)),
                    !.retained = IF Of(left, s) = {} THEN row.ended
                                 ELSE Min({Min(c.at) : c \in Of(left, s)})]
  IN  [summed EXCEPT
        !.chunks = left,
        !.rows = [s \in DOMAIN @ |-> IF s \in cut THEN Settled(s, @[s]) ELSE @[s]],
        !.total = @ - SealedSamples(dropped),
        !.raw = @ - RawBytes(dropped)]

\* The summaries' part: too old or too many, oldest first, but none that raw
\* rows of its hour still stand beside.
DropHours(a) ==
  LET Earlier(x, y) == x.hour < y.hour \/ (x.hour = y.hour /\ x.of < y.of)
      RawStands(x) == \E c \in Of(a.chunks, x.of) :
        Min(c.at) < (x.hour + 1) * HourSpan /\ Max(c.at) >= x.hour * HourSpan
      Old(x) == x.hour * HourSpan < now - Retention
      TooMany(x) ==
        Cardinality(a.hours \ {y \in a.hours : Earlier(y, x) /\ ~RawStands(y)}) > MaxHours
  IN  [a EXCEPT !.hours = {x \in @ : RawStands(x) \/ ~(Old(x) \/ TooMany(x))}]

\* evictSession: the row and everything that belongs to it.
Evict(a, s) ==
  [rows   |-> [r \in DOMAIN a.rows \ {s} |-> a.rows[r]],
   chunks |-> a.chunks \ Of(a.chunks, s),
   hours  |-> a.hours \ Of(a.hours, s),
   total  |-> a.total - a.rows[s].sealed,
   raw    |-> a.raw - RawBytes(Of(a.chunks, s))]

\* The sessions' part: oldest first, passing over one that is open, on this
\* tab's screen, or still warm.
DropSessions(a, seen) ==
  LET Roomy(v) == Cardinality(DOMAIN v.rows) <= MaxSessions
      Spared(v, s) == \/ v.rows[s].state = "open" \/ s = seen
                      \/ now - v.rows[s].beat < StaleAfter
                      \/ Roomy(v) /\ Of(v.hours, s) = {}
      Enough(v) == Roomy(v) /\ Cardinality(v.hours) <= MaxHours
      Passing(v, s) == IF s \notin DOMAIN v.rows \/ Enough(v) \/ Spared(v, s) THEN v
                       ELSE Evict(v, s)
      left[s \in 0 .. MaxSession] == IF s = 0 THEN a ELSE Passing(left[s - 1], s)
  IN  left[MaxSession]

Prune(a, seen) == DropSessions(DropHours(DropRaw(a, capacity)), seen)

\* prune fails over a planned chunk that has no session row, and with it the
\* transaction it is in.
PruneFails(a) == PlanRawPrune(a.chunks, a.raw, capacity) \cap Strays(a) # {}

\* A slip: an archive with no count of bytes is taken to hold none.
CountedFromNothing(a) == IF a.raw = Unknown THEN [a EXCEPT !.raw = 0] ELSE a

\* rawBytesIn: the cached count, or a count of the chunks where there is none.
Counted(a) == IF a.raw = Unknown THEN [a EXCEPT !.raw = RawBytes(a.chunks)] ELSE a

-----------------------------------------------------------------------------
(* Transactions *)

SameKey(c, d) == c.of = d.of /\ c.stream = d.stream /\ c.seq = d.seq

\* writeChunk before its prune, for a session that is still open.
PutChunk(a, c, made) ==
  LET counted == Counted(a)
      existing == {x \in a.chunks : SameKey(x, c)}
      gain == IF c.sealed /\ \A x \in existing : ~x.sealed THEN Cardinality(c.at) ELSE 0
      row == a.rows[c.of]
      merged == [row EXCEPT
        !.beat = now, !.ended = now, !.seen = TRUE, !.sealed = @ + gain,
        !.basis = IF made # {} \/ @ = "recorded" THEN "recorded" ELSE "none"]
  IN  [rows |-> [a.rows EXCEPT ![c.of] = merged],
       chunks |-> (a.chunks \ existing) \cup {c},
       hours |-> PutHours(a.hours, made),
       total |-> a.total + gain,
       raw |-> counted.raw + RawBytes({c}) - RawBytes(existing)]

WriteChunk(a, c, made, seen) == Prune(PutChunk(a, c, made), seen)

\* sealOpenChunks
SealOpenChunks(chunks, those) ==
  {IF c.of \in those THEN [c EXCEPT !.sealed = TRUE] ELSE c : c \in chunks}

\* A session's row as it is closed, by its writer or by recovery.
Closed(a, s, at) ==
  LET sealed == SealOpenChunks(a.chunks, {s})
      folded == SealedSamples(sealed) - SealedSamples(a.chunks)
      row == a.rows[s]
  IN  [a EXCEPT !.chunks = sealed, !.total = @ + folded,
                !.rows[s] = [row EXCEPT !.state = "closed", !.ended = at,
                                        !.sealed = @ + folded]]

\* recover: abandoned sessions are closed, or dropped when nothing of theirs
\* was kept; strays go; both totals are made again; and room is made.
Recover(a) ==
  LET abandoned == {s \in DOMAIN a.rows :
                      a.rows[s].state = "open" /\ now - a.rows[s].beat >= StaleAfter}
      LastAt(s) == IF Of(a.chunks, s) = {} THEN a.rows[s].beat
                   ELSE Max(UNION {c.at : c \in Of(a.chunks, s)})
      Settled(s) == Closed(a, s, LastAt(s)).rows[s]
      empty == {s \in abandoned : Settled(s).sealed = 0 /\ ~a.rows[s].seen /\ Of(a.hours, s) = {}}
      rows == [s \in DOMAIN a.rows \ empty |->
                 IF s \in abandoned THEN Settled(s) ELSE a.rows[s]]
      owned == {c \in SealOpenChunks(a.chunks, abandoned) : c.of \in DOMAIN rows}
  IN  Prune([rows |-> rows, chunks |-> owned,
             hours |-> {x \in a.hours : x.of \in DOMAIN rows},
             total |-> SealedInRows(rows), raw |-> RawBytes(owned)], NoRow)

\* hourlyArchiveStores: a copy without raw rows.
Hourly(a) ==
  [rows |-> [s \in DOMAIN a.rows |-> [a.rows[s] EXCEPT !.sealed = 0]],
   chunks |-> {},
   hours |-> {x \in a.hours : x.hour * HourSpan >= now - Retention},
   total |-> 0, raw |-> 0]

-----------------------------------------------------------------------------
(* The recorder: one at work, as its lease has it *)

Chunk(s, stream, seq, at, sealed) ==
  [of |-> s, stream |-> stream, seq |-> seq, at |-> at, sealed |-> sealed]

Writing == pen # NoPen

\* One more of the doings the bound counts.
Happens == happenings < MaxHappenings /\ happenings' = happenings + 1

\* openSession
OpenSession(t, s) ==
  /\ ~Writing /\ s \notin DOMAIN db.rows /\ t \in opened
  /\ \A r \in Sessions : r >= s => r \notin DOMAIN db.rows
  /\ pen' = [of |-> s, tab |-> t, tail |-> [st \in Streams |-> {}],
             seq |-> [st \in Streams |-> 0], given |-> {}, dirty |-> {}]
  /\ db' = [db EXCEPT !.rows = [r \in DOMAIN @ \cup {s} |-> IF r = s THEN NewRow(now) ELSE @[r]]]
  /\ UNCHANGED <<now, opened, viewed, capacity, copy, happenings>>

Whole(st) == Cardinality(pen.tail[st]) = ChunkSize

\* A radio's row joins the tail chunk of its stream and its hour's account.
Hear(st) ==
  /\ Writing
  /\ ~Whole(st) /\ <<st, now>> \notin pen.given
  /\ LET earlier == {k[2] : k \in {j \in pen.given : j[2] < now}}
         before == IF earlier = {} THEN {} ELSE {HourOf(Max(earlier))}
     IN  pen' = [pen EXCEPT !.tail[st] = @ \cup {now},
                            !.given = @ \cup {<<st, now>>},
                            !.dirty = @ \cup before \cup {HourOf(now)}]
  /\ UNCHANGED <<now, db, opened, viewed, capacity, copy, happenings>>

\* Rows of a stream's tail that no committed chunk has yet.
Unwritten(st) ==
  {t \in pen.tail[st] : ~\E c \in Of(db.chunks, pen.of) :
                          c.stream = st /\ c.seq = pen.seq[st] /\ t \in c.at}

Emptied(st) == [pen EXCEPT !.tail[st] = {}, !.seq[st] = @ + 1]

\* commitChunk: the whole chunk once it is full, else the tails, the pack's
\* first.  A row that was closed or deleted underneath refuses it, a transaction
\* that fails is undone, and of either the recorder lets go.
CommitChunk(st) ==
  /\ Writing /\ pen.tail[st] # {}
  /\ st = "solar" /\ ~Whole(st) => ~Whole("pack") /\ Unwritten("pack") = {}
  /\ LET s == pen.of
         whole == Whole(st)
         c == Chunk(s, st, pen.seq[st], pen.tail[st], whole)
         made == {Summary(s, h, "recorded", pen.given) : h \in pen.dirty}
     IN  IF /\ s \in DOMAIN db.rows /\ db.rows[s].state = "open"
            /\ ~PruneFails(PutChunk(db, c, made))
         THEN /\ db' = WriteChunk(db, c, made, viewed[pen.tab])
              /\ pen' = [(IF whole THEN Emptied(st) ELSE pen) EXCEPT !.dirty = {}]
         ELSE /\ pen' = NoPen
              /\ db' = db
  /\ UNCHANGED <<now, opened, viewed, capacity, copy, happenings>>

\* pruneToBudget: what a commit does when the browser refuses it for room.
PruneToBudget ==
  /\ Happens
  /\ Writing
  /\ db' = IF PruneFails(Counted(db)) THEN db ELSE Prune(Counted(db), viewed[pen.tab])
  /\ UNCHANGED <<now, opened, viewed, capacity, pen, copy>>

\* A whole chunk the browser refused twice is given up.
GiveUp(st) ==
  /\ Happens
  /\ Writing /\ Whole(st)
  /\ pen' = Emptied(st)
  /\ UNCHANGED <<now, db, opened, viewed, capacity, copy>>

\* closeSession
CloseSession ==
  /\ Writing
  /\ db' = IF pen.of \in DOMAIN db.rows
           THEN LET shut == Closed(db, pen.of, now)
                IN  [shut EXCEPT !.rows[pen.of].beat = now]
           ELSE db
  /\ pen' = NoPen
  /\ UNCHANGED <<now, opened, viewed, capacity, copy, happenings>>

-----------------------------------------------------------------------------
(* The owner, the pages and the clock *)

\* openHistoryStore: a page comes, and recovers before it hands the store over.
\* A recovery that fails is passed over: the page starts on what there is.
Arrive(t) ==
  /\ t \notin opened
  /\ opened' = opened \cup {t}
  /\ \/ db' = Recover(db) /\ happenings' = happenings
     \/ Happens /\ db' = db
  /\ UNCHANGED <<now, viewed, capacity, pen, copy>>

\* A page goes, and a recorder on it with no word said.
Leave(t) ==
  /\ Happens
  /\ t \in opened
  /\ opened' = opened \ {t}
  /\ viewed' = [viewed EXCEPT ![t] = NoRow]
  /\ pen' = IF Writing /\ pen.tab = t THEN NoPen ELSE pen
  /\ UNCHANGED <<now, db, capacity, copy>>

\* noteViewing
NoteViewing(t, s) ==
  /\ Happens
  /\ t \in opened
  /\ s \in DOMAIN db.rows \cup {NoRow} /\ s # viewed[t]
  /\ viewed' = [viewed EXCEPT ![t] = s]
  /\ UNCHANGED <<now, db, opened, capacity, pen, copy>>

\* deleteSession
DeleteSession(s) ==
  /\ Happens
  /\ opened # {} /\ s \in DOMAIN db.rows
  /\ db' = Evict(Counted(db), s)
  /\ UNCHANGED <<now, opened, viewed, capacity, pen, copy>>

\* capture: every session is compacted, then the stores are read out.  A copy
\* with strays is refused; one with a session still open can never be restored,
\* and is not followed.
Capture(detail) ==
  /\ Happens
  /\ opened # {}
  /\ LET summed == CompactAll(db, DOMAIN db.rows)
         taken == IF detail = "hourly" THEN Hourly(summed) ELSE summed
     IN  /\ db' = summed
         /\ copy' = IF AllClosed(summed) /\ Strays(taken) = {} THEN Copy(taken) ELSE copy
  /\ UNCHANGED <<now, opened, viewed, capacity, pen>>

\* restoreLocal: refused while a session is open on either side.
Restore ==
  /\ Happens
  /\ copy # NoCopy /\ opened # {}
  /\ AllClosed(db)
  /\ db' = copy.archive
  /\ copy' = NoCopy
  /\ UNCHANGED <<now, opened, viewed, capacity, pen>>

\* saveLocalCapacityMiB
SaveCapacity(c) ==
  /\ Happens
  /\ c \in Capacities \ {capacity}
  /\ capacity' = c
  /\ UNCHANGED <<now, db, opened, viewed, pen, copy>>

\* Time does not run past a checkpoint: a row waits one instant at most for
\* its tail to be committed (CHECKPOINT_MS is far under an instant).
Tick ==
  /\ now < MaxTime
  /\ Writing => \A st \in Streams : Unwritten(st) \subseteq {now}
  /\ now' = now + 1
  /\ UNCHANGED <<db, opened, viewed, capacity, pen, copy, happenings>>

-----------------------------------------------------------------------------
(* What there may be already.  A build that kept no summaries and no count *)
(* of bytes may have left an archive whose session its page was closed     *)
(* over, perhaps with a chunk of no session beside it, or a backup of a    *)
(* session that was finished.                                              *)

OfOldBuild(state, chunks) ==
  [rows |-> [s \in {1} |-> [NewRow(3) EXCEPT !.state = state, !.seen = TRUE,
                                            !.sealed = SealedSamples(Of(chunks, 1))]],
   chunks |-> chunks, hours |-> {}, total |-> SealedSamples(Of(chunks, 1)), raw |-> Unknown]

CutOff == {Chunk(1, "pack", 0, {1, 2}, TRUE), Chunk(1, "pack", 1, {3}, FALSE),
           Chunk(1, "solar", 0, {3}, FALSE)}

Found(legacy) ==
  CASE legacy = "fresh" -> Fresh
    [] legacy = "cut" -> OfOldBuild("open", CutOff)
    [] legacy = "littered" -> OfOldBuild("open", CutOff \cup {Chunk(NoRow, "pack", 0, {1}, TRUE)})

OldBackup == OfOldBuild("closed", {Chunk(1, "pack", 0, {1, 2}, TRUE), Chunk(1, "solar", 0, {2}, TRUE)})

ArchiveInit ==
  /\ now = 3
  /\ \E l \in Legacies : /\ db = Found(l)
                         /\ copy = IF l = "fresh" THEN Copy(OldBackup) ELSE NoCopy
  /\ opened = {} /\ viewed = [t \in Tabs |-> NoRow]
  /\ capacity = Max(Capacities)
  /\ pen = NoPen /\ happenings = 0

ArchiveNext ==
  \/ Tick
  \/ \E t \in Tabs : Arrive(t) \/ Leave(t)
  \/ \E t \in Tabs, s \in Sessions : OpenSession(t, s)
  \/ \E t \in Tabs, s \in Sessions \cup {NoRow} : NoteViewing(t, s)
  \/ \E st \in Streams : Hear(st) \/ CommitChunk(st) \/ GiveUp(st)
  \/ PruneToBudget \/ CloseSession
  \/ \E s \in Sessions : DeleteSession(s)
  \/ \E d \in {"complete", "hourly"} : Capture(d)
  \/ Restore
  \/ \E c \in Capacities : SaveCapacity(c)

ArchiveSpec == ArchiveInit /\ [][ArchiveNext]_archiveVars

-----------------------------------------------------------------------------
(* Properties *)

Known(a, s) == Samples(Of(a.chunks, s)) \cup UNION {x.holds : x \in Of(a.hours, s)}

\* The cached totals are those of the rows, and nothing loses its session,
\* whatever was written, cut, evicted, recovered or restored: only what an older
\* build left without one is without.
TotalsAreTheRows ==
  /\ \A s \in DOMAIN db.rows : db.rows[s].sealed = SealedSamples(Of(db.chunks, s))
  /\ db.total = SealedSamples(db.chunks \ Strays(db))
  /\ db.raw \in {Unknown, RawBytes(db.chunks)}
  /\ \A x \in Strays(db) : x.of = NoRow
  /\ \A x \in db.hours : x.of \in DOMAIN db.rows

\* A copy put in the archive's place is the one step no history reaches over.
Continues == db' # db /\ ~(copy # NoCopy /\ copy' = NoCopy)

\* README: hourly summaries are saved before raw chunks can be removed.  A
\* sample the archive had of a session that stands is still in a raw row or in
\* a summary, unless its whole hour has gone for age or number.
SummariesOutliveRaw ==
  [][Continues =>
      \A s \in DOMAIN db.rows \cap DOMAIN db'.rows :
        \A k \in Known(db, s) \ Known(db', s) :
          HourOf(k[2]) \notin {x.hour : x \in Of(db'.hours, s)}]_archiveVars

\* A transaction that adds raw rows, and a recovery that does not fail, leave
\* no more than the allowance while a sealed chunk is left to cut: none is stuck
\* for want of a summary.
AllowanceIsKept ==
  [][\/ Continues /\ RawBytes(db'.chunks) > RawBytes(db.chunks)
     \/ opened' \ opened # {} /\ db' = Recover(db)
     => RawBytes(db'.chunks) <= capacity \/ \A c \in db'.chunks : ~c.sealed]_archiveVars
=============================================================================
