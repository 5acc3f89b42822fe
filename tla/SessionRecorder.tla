------------------------- MODULE SessionRecorder -------------------------
(***************************************************************************)
(* The recorders of every open tab of the dashboard, the Web Lock they     *)
(* share (the recording lease) and the archive they write to.              *)
(*                                                                         *)
(* A tab's observations are synchronous: notePack, noteWarnings, identify  *)
(* and finish change the recorder at once and leave their writes as jobs   *)
(* on the recorder's promise chain.  A job runs in steps, one per await,   *)
(* so the radios, the owner, the other tabs and the archive act between    *)
(* any two of them.                                                        *)
(*                                                                         *)
(* The pack and the solar stream are recorded by twin code; one stream     *)
(* stands for both.  A row is counted, not kept.                           *)
(***************************************************************************)
EXTENDS Naturals, Sequences

CONSTANTS
  Tabs,             \* the pages of this origin
  Sessions,         \* session ids; newId() hands out one nobody refers to
  NoTab, NoSession,
  Capacity,         \* CHUNK_CAPACITY: rows of a full chunk
  MinSamples,       \* MIN_SESSION_SAMPLES: a shorter session is deleted
  MaxWarnings,      \* MAX_SESSION_WARNINGS
  MaxAttempts,      \* MAX_COMMIT_ATTEMPTS
  Happenings,       \* bound: which of PossibleHappenings may happen
  MaxRows,          \* bound: rows of one session
  MaxMail,          \* bound: announcements a tab has not yet heard
  MaxMishaps        \* bound: faults, closed pages and deletions of a behaviour

\* What an instance of the model lets happen besides the recorders' own steps.
\* Misfortunes, of which a behaviour has at most MaxMishaps:
\*   "latching"  a full disk, after which the archive stays unusable
\*   "passing"   one refused commit of an archive that stays usable
\*   "aborted"   a commit that failed in any other way
\*   "throwing"  another write that failed
\*   "locks"     a lock request that failed
\*   "closing"   the connection to the archive stood down for a newer page
\*   "swapping"  an unusable store is put in front of the archive
\*   "leaving"   a page is disposed or closed
\*   "deleting"  the owner deletes a session from the Log
\* Ordinary calls of telemetry, unbounded:
\*   "holding"   sessions held open across a gap
\*   "naming"    packs that identify themselves, and packs that change
\*   "silence"   radios that stop reporting
\*   "ending"    watches the owner ends
\*   "hiding"    streams that end and pages that are put away
\*   "waiting"   refused tabs whose retry interval ends
\*   "pruning"   an archive above its allowances, which makes room for itself
PossibleHappenings ==
  {"latching", "passing", "aborted", "throwing", "locks", "closing",
   "swapping", "leaving", "deleting", "holding", "naming",
   "silence", "ending", "hiding", "waiting", "pruning"}

ASSUME SessionRecorderAssumption ==
  /\ NoTab \notin Tabs
  /\ NoSession \notin Sessions
  /\ Capacity \in Nat \ {0}
  /\ MaxAttempts \in Nat \ {0}
  /\ {MinSamples, MaxWarnings, MaxRows, MaxMail, MaxMishaps} \subseteq Nat
  /\ Happenings \subseteq PossibleHappenings

VARIABLES
  phase,      \* phase[t]: "gone" (no page), "live" or "disposed"
  feed,       \* feed[t]: a radio reports to tab t
  store,      \* store[t]: what tab t can do with the archive
  recorder,   \* recorder[t]: the SessionRecorder of tab t
  inflight,   \* inflight[t]: the commit tab t is waiting for
  memory,     \* memory[s]: the OpenSession object of session s
  lease,      \* the tab that holds the recording lease
  archive,    \* archive[s]: the session row and the chunks of s, as they were stored
  sealed,     \* sealed[s]: the chunks of s stored as sealed: they take no more rows
  cut,        \* cut[s]: the chunks of s deleted since, to make room
  warnings,   \* warnings[s]: the warning rows filed under s
  counted,    \* counted[s]: s is in its device row's session count
  mail,       \* mail[t]: announcements on their way to t
  mishaps     \* how many of MaxMishaps have happened

vars == <<phase, feed, store, recorder, inflight, memory, lease, archive,
          sealed, cut, warnings, counted, mail, mishaps>>

-----------------------------------------------------------------------------
(* State. *)

\* A chunk in memory or in flight; its rows stand for its columns.
Seqs == 0 .. MaxRows
Chunk(seq, rows) == [seq |-> seq, rows |-> rows]
Pending(chunk) == [chunk |-> chunk, attempts |-> 0]

\* The packBuilder is null exactly when the tail has no rows.
NewSession(leased, identified) ==
  [leased |-> leased, deviceCounted |-> identified, tail |-> 0,
   pending |-> <<>>, nextSeq |-> 0, samples |-> 0, dropped |-> 0,
   alerting |-> FALSE, warned |-> 0, writing |-> FALSE, requested |-> FALSE]

Absent == [state |-> "absent", samples |-> 0, dropped |-> 0,
           chunks |-> [q \in Seqs |-> 0]]

Job(kind, s, step) == [kind |-> kind, session |-> s, step |-> step]
OpenJob(s) == Job("open", s, "claim")
DeviceJob(s) == Job("device", s, "upsert")
WarningJob(s) == Job("warning", s, "append")
FlushJob(s) == Job("flush", s, "loop")
FinishJobUnwritten(s) == Job("finish", s, "close")           \* mutant
FinishJob(s) == Job("finish", s, "release")

NoCommit == [head |-> FALSE, chunk |-> Chunk(0, 0), samples |-> 0, dropped |-> 0]

IdleRecorder ==
  [session |-> NoSession, refusal |-> "none", announced |-> FALSE,
   failure |-> FALSE, archiveLost |-> FALSE, held |-> FALSE, chain |-> <<>>]

Init ==
  /\ phase = [t \in Tabs |-> "live"]
  /\ feed = [t \in Tabs |-> FALSE]
  /\ store = [t \in Tabs |-> "usable"]
  /\ recorder = [t \in Tabs |-> IdleRecorder]
  /\ inflight = [t \in Tabs |-> NoCommit]
  /\ memory = [s \in Sessions |-> NewSession(FALSE, FALSE)]
  /\ lease = NoTab
  /\ archive = [s \in Sessions |-> Absent]
  /\ sealed = [s \in Sessions |-> {}]
  /\ cut = [s \in Sessions |-> {}]
  /\ warnings = [s \in Sessions |-> 0]
  /\ counted = [s \in Sessions |-> FALSE]
  /\ mail = [t \in Tabs |-> 0]
  /\ mishaps = 0

\* Tab t or its unfinished jobs still refer to session s.
RefersTo(t, s) ==
  \/ recorder[t].session = s
  \/ \E i \in DOMAIN recorder[t].chain : recorder[t].chain[i].session = s

Unused(s) ==
  /\ \A t \in Tabs : ~RefersTo(t, s)
  /\ archive[s].state = "absent"
  /\ warnings[s] = 0

-----------------------------------------------------------------------------
(* What a recorder does to itself and to its session, as functions of both. *)

Enqueue(r, job) == [r EXCEPT !.chain = Append(@, job)]

SealAhead(m) ==                                              \* mutant
  IF m.tail = 0 THEN m
  ELSE [m EXCEPT !.tail = 0,
                 !.pending = Append(@, Pending(Chunk(m.nextSeq, m.tail)))]
Seal(m) ==
  IF m.tail = 0 THEN m
  ELSE [m EXCEPT !.tail = 0,
                 !.pending = Append(@, Pending(Chunk(m.nextSeq - 1, m.tail)))]

\* flush: one job at a time drains the session, however often it is asked.
RequestFlush(m) == [m EXCEPT !.requested = TRUE, !.writing = TRUE]
Flush(r, m) == IF m.writing THEN r ELSE Enqueue(r, FlushJob(r.session))

\* appendPack: a builder that cannot take the row, or is full, is sealed.
FullLate(m) == m.tail > Capacity                             \* mutant
Full(m) == m.tail >= Capacity
AppendRow(m, split) ==
  LET ready == IF split THEN Seal(m) ELSE m
      grown == [ready EXCEPT !.tail = @ + 1,
                             !.nextSeq = IF ready.tail = 0 THEN @ + 1 ELSE @,
                             !.samples = @ + 1]
  IN  IF Full(grown) THEN Seal(grown) ELSE grown
Sealed(m, split) == split \/ m.tail + 1 >= Capacity

Stop(r) == [r EXCEPT !.session = NoSession, !.held = FALSE]

FinishLeavingSession(r) ==                                   \* mutant
  IF r.session = NoSession THEN r ELSE Enqueue(r, FinishJob(r.session))
Finish(r) ==
  IF r.session = NoSession
  THEN [r EXCEPT !.refusal = "none", !.announced = FALSE]
  ELSE Stop(Enqueue(r, FinishJob(r.session)))

StandDown(r, s) ==
  IF r.session = s
  THEN [Stop(r) EXCEPT !.refusal = "recent", !.announced = FALSE] ELSE r

AbandonLostSession(r, s) == IF r.session = s THEN Stop(r) ELSE r

\* A session whose archive was lost is finished when the archive returns.
ArchiveReturned(t) ==
  /\ recorder[t].session # NoSession
  /\ store[t] = "usable"
  /\ recorder[t].archiveLost

FollowArchiveAbandoning(r, usable) ==                        \* mutant
  IF r.session # NoSession /\ usable /\ r.archiveLost THEN Stop(r)
  ELSE [r EXCEPT !.archiveLost = @ \/ (r.session # NoSession /\ ~usable)]
FollowArchive(r, usable) ==
  IF r.session = NoSession THEN r
  ELSE IF usable
  THEN IF r.archiveLost
       THEN Finish([r EXCEPT !.archiveLost = FALSE, !.failure = FALSE])
       ELSE r
  ELSE IF r.failure THEN r
  ELSE [r EXCEPT !.failure = TRUE, !.archiveLost = TRUE]

Followed(t) == FollowArchive(recorder[t], store[t] = "usable")

\* finish seals the chunk of the session it ends; nothing else is sealed here.
SealIfEnded(t, ended) ==
  IF ended THEN [memory EXCEPT ![recorder[t].session] = Seal(@)] ELSE memory

MayClaimUnasked(r) == r.refusal = "none" \/ r.announced      \* mutant
MayClaimLease(r) == r.refusal # "recent" \/ r.announced

-----------------------------------------------------------------------------
(* The calls telemetry makes.  Each is one synchronous turn of tab t. *)

Live(t) == phase[t] = "live"

\* releaseRecordingLease
ReleasedNever(t) == lease                                    \* mutant
Released(t) == IF lease = t THEN NoTab ELSE lease

\* A mishap is spent where the environment, not the recorder, misbehaves.
MayFail(fault) == fault \in Happenings /\ mishaps < MaxMishaps
Mishap(fault) == MayFail(fault) /\ mishaps' = mishaps + 1

\* The part of the state a synchronous call of the recorder never touches.
Elsewhere == <<phase, feed, store, inflight, lease, archive, sealed, cut,
               warnings, mishaps>>

\* ensureOpen, when no session stands and the lease may be asked for.
Opened(t, r, s, identified) ==
  LET open == Enqueue([r EXCEPT !.session = s, !.failure = FALSE,
                                !.archiveLost = FALSE], OpenJob(s))
  IN  IF identified THEN Enqueue(open, DeviceJob(s)) ELSE open
CanOpen(t, r, s) ==
  /\ r.session = NoSession
  /\ MayClaimLease(r)
  /\ store[t] = "usable"
  /\ Unused(s)

\* A frame: whether a row is due, whether the builder refuses it, and whether
\* a fault stands that is worth a warning.
Frames ==
  {frame \in [due : BOOLEAN, split : BOOLEAN, fault : BOOLEAN] :
     frame.fault => MaxWarnings > 0}

RowDue(r, m, frame) == frame.due /\ ~r.failure /\ m.samples < MaxRows
FilesWarning(r, m, frame) ==
  /\ frame.fault /\ ~m.alerting
  /\ ~r.failure
  /\ m.warned < MaxWarnings

\* notePack and noteWarnings, for the session m that stands in r.
NotedMemory(r, m, frame) ==
  LET row == RowDue(r, m, frame)
      written == IF row THEN AppendRow(m, frame.split) ELSE m
      flushed == IF row /\ Sealed(m, frame.split) THEN RequestFlush(written)
                                                  ELSE written
  IN  IF r.failure THEN flushed
      ELSE [flushed EXCEPT
              !.alerting = frame.fault,
              !.warned = IF FilesWarning(r, m, frame) THEN @ + 1 ELSE @]
NotedRecorder(r, m, frame) ==
  LET flushed == IF RowDue(r, m, frame) /\ Sealed(m, frame.split)
                 THEN Flush(r, m) ELSE r
  IN  IF FilesWarning(r, m, frame)
      THEN Enqueue(flushed, WarningJob(r.session)) ELSE flushed

\* applySnapshot: a frame of the pack reaches the recorder.
Observe(t) ==
  /\ Live(t) /\ feed[t]
  /\ LET after == Followed(t)
         ended == SealIfEnded(t, ArchiveReturned(t))
     IN  \/ /\ after.session # NoSession
            /\ \E frame \in Frames :
                 LET m == memory[after.session] IN
                 /\ frame.split => m.tail > 0 /\ RowDue(after, m, frame)
                 /\ recorder' = [recorder EXCEPT ![t] = NotedRecorder(after, m, frame)]
                 /\ memory' = [memory EXCEPT
                                 ![after.session] = NotedMemory(after, m, frame)]
                 /\ UNCHANGED counted
         \/ \E s \in Sessions, identified \in BOOLEAN, frame \in Frames :
              /\ CanOpen(t, after, s)
              /\ frame.due /\ ~frame.split
              /\ identified => "naming" \in Happenings
              /\ LET r == Opened(t, after, s, identified)
                     m == NewSession(lease = t, identified)
                 IN  /\ recorder' = [recorder EXCEPT ![t] = NotedRecorder(r, m, frame)]
                     /\ memory' = [ended EXCEPT ![s] = NotedMemory(r, m, frame)]
                     /\ counted' = [counted EXCEPT ![s] = FALSE]
         \/ /\ after.session = NoSession
            /\ ~\E s \in Sessions : CanOpen(t, after, s)
            /\ recorder' = [recorder EXCEPT ![t] = after]
            /\ memory' = ended
            /\ UNCHANGED counted
  /\ UNCHANGED <<mail, Elsewhere>>

\* endPackStream: the stream stops and its chunk is sealed and asked to disk.
EndStream(t) ==
  /\ "hiding" \in Happenings
  /\ Live(t)
  /\ LET r == recorder[t] IN
     /\ r.session # NoSession
     /\ recorder' = [recorder EXCEPT ![t] = Flush(r, memory[r.session])]
     /\ memory' = [memory EXCEPT ![r.session] = RequestFlush(Seal(@))]
  /\ UNCHANGED <<counted, mail, Elsewhere>>

\* checkpoint: the page is being hidden, or a radio changed hands.
Checkpoint(t) ==
  /\ "hiding" \in Happenings
  /\ Live(t)
  /\ LET r == recorder[t] IN
     /\ r.session # NoSession
     /\ recorder' = [recorder EXCEPT ![t] = Flush(r, memory[r.session])]
     /\ memory' = [memory EXCEPT ![r.session] = RequestFlush(@)]
  /\ UNCHANGED <<counted, mail, Elsewhere>>

\* tick: the recorder's own clock follows the archive, ends an idle session
\* nobody holds open, and flushes any other.
Tick(t) ==
  /\ Live(t)
  /\ recorder[t].session # NoSession
  /\ LET after == Followed(t)
         s == after.session
     IN  \/ /\ s = NoSession
            /\ recorder' = [recorder EXCEPT ![t] = after]
            /\ memory' = SealIfEnded(t, TRUE)
         \/ /\ s # NoSession /\ ~after.held /\ ~feed[t]
            /\ recorder' = [recorder EXCEPT ![t] = Finish(after)]
            /\ memory' = [memory EXCEPT ![s] = Seal(@)]
         \/ /\ s # NoSession /\ (after.held \/ feed[t])
            /\ recorder' = [recorder EXCEPT ![t] = Flush(after, memory[s])]
            /\ memory' = [memory EXCEPT ![s] = RequestFlush(@)]
  /\ UNCHANGED <<counted, mail, Elsewhere>>

\* finish: telemetry ends the watch, whether or not one is being recorded.
EndWatch(t) ==
  /\ "ending" \in Happenings
  /\ Live(t)
  /\ recorder' = [recorder EXCEPT ![t] = Finish(@)]
  /\ memory' = SealIfEnded(t, recorder[t].session # NoSession)
  /\ UNCHANGED <<counted, mail, Elsewhere>>

\* identify, with the first device information of the session.
Identify(t) ==
  /\ "naming" \in Happenings
  /\ Live(t) /\ feed[t]
  /\ LET r == recorder[t] IN
     /\ r.session # NoSession
     /\ ~memory[r.session].deviceCounted
     /\ recorder' = [recorder EXCEPT ![t] =
                       IF store[t] = "usable" THEN Enqueue(r, DeviceJob(r.session)) ELSE r]
     /\ memory' = [memory EXCEPT ![r.session].deviceCounted = TRUE]
  /\ UNCHANGED <<counted, mail, Elsewhere>>

\* identify, with another pack's: the session ends and the next one opens.
DeviceChanged(t) ==
  /\ Live(t) /\ feed[t]
  /\ recorder[t].session # NoSession
  /\ memory[recorder[t].session].deviceCounted
  /\ LET ended == SealIfEnded(t, TRUE)
         r == Finish(recorder[t])
     IN  \/ \E s \in Sessions :
              /\ CanOpen(t, r, s)
              /\ recorder' = [recorder EXCEPT ![t] = Opened(t, r, s, TRUE)]
              /\ memory' = [ended EXCEPT ![s] = NewSession(lease = t, TRUE)]
              /\ counted' = [counted EXCEPT ![s] = FALSE]
         \/ /\ ~\E s \in Sessions : CanOpen(t, r, s)
            /\ recorder' = [recorder EXCEPT ![t] = r]
            /\ memory' = ended
            /\ UNCHANGED counted
  /\ UNCHANGED <<mail, Elsewhere>>

\* holdOpenForRejoin: telemetry counts for the gap that begins, and the idle
\* guard stands aside until its window ends.
HoldOpenForRejoin(t) ==
  /\ "holding" \in Happenings
  /\ Live(t) /\ feed[t]
  /\ recorder[t].session # NoSession
  /\ recorder' = [recorder EXCEPT ![t].held = TRUE]
  /\ UNCHANGED <<memory, counted, mail, Elsewhere>>

ReleaseRejoinHold(t) ==
  /\ Live(t) /\ recorder[t].held
  /\ recorder' = [recorder EXCEPT ![t].held = FALSE]
  /\ UNCHANGED <<memory, counted, mail, Elsewhere>>

\* dispose: one last flush is asked for and the lease goes back at once.
Dispose(t) ==
  /\ Live(t)
  /\ Mishap("leaving")
  /\ phase' = [phase EXCEPT ![t] = "disposed"]
  /\ lease' = Released(t)
  /\ LET r == recorder[t] IN
     IF r.session = NoSession THEN UNCHANGED <<recorder, memory>>
     ELSE /\ recorder' = [recorder EXCEPT ![t] = Stop(Flush(r, memory[r.session]))]
          /\ memory' = [memory EXCEPT ![r.session] = RequestFlush(@)]
  /\ UNCHANGED <<feed, store, inflight, archive, sealed, cut, warnings, counted, mail>>

\* LEASE_RETRY_INTERVAL_MS has passed since the lease was refused.
RetryIntervalEnds(t) ==
  /\ "waiting" \in Happenings
  /\ Live(t)
  /\ recorder[t].refusal = "recent"
  /\ recorder' = [recorder EXCEPT ![t].refusal = "due"]
  /\ UNCHANGED <<memory, counted, mail, Elsewhere>>

\* archiveAnnounced: another tab said that something in the archive changed.
HearAnnouncement(t) ==
  /\ Live(t) /\ mail[t] > 0
  /\ mail' = [mail EXCEPT ![t] = @ - 1]
  /\ recorder' = [recorder EXCEPT ![t] =
                    FollowArchive([@ EXCEPT !.announced = TRUE], store[t] = "usable")]
  /\ memory' = SealIfEnded(t, ArchiveReturned(t))
  /\ UNCHANGED <<counted, Elsewhere>>

-----------------------------------------------------------------------------
(* The promise chain: the head job of a page takes one step at a time, also *)
(* after dispose, until the page is gone.                                   *)

AtStep(t, kind, step) ==
  /\ phase[t] # "gone"
  /\ recorder[t].chain # <<>>
  /\ Head(recorder[t].chain).kind = kind
  /\ Head(recorder[t].chain).step = step

JobSession(t) == Head(recorder[t].chain).session

Done(r) == [r EXCEPT !.chain = Tail(@)]
Step(r, step) == [r EXCEPT !.chain[1].step = step]

Connected(t) == store[t] # "closed"

\* A message reaches every other page that still watches the archive.
Posted(t) ==
  [u \in Tabs |->
     IF u # t /\ Live(u) /\ store[u] \in {"usable", "full"} /\ mail[u] < MaxMail
     THEN mail[u] + 1 ELSE mail[u]]

\* ifAvailable: the lock manager grants a lock nobody else holds.
LockFreeStolen(t) == TRUE                                    \* mutant
LockFree(t) == lease \in {NoTab, t}

\* The claim of the open job: the lock is asked for only if it is free, and
\* a lease this tab still holds is enough.
ClaimGranted(t) ==
  /\ AtStep(t, "open", "claim")
  /\ LockFree(t)
  /\ lease' = t
  /\ memory' = [memory EXCEPT ![JobSession(t)].leased = TRUE]
  /\ recorder' = [recorder EXCEPT ![t] =
                    [Step(@, "put") EXCEPT !.refusal = "none", !.announced = FALSE]]
  /\ UNCHANGED <<phase, feed, store, inflight, archive, sealed, cut, warnings, counted,
                 mail, mishaps>>

ClaimRefused(t) ==
  /\ AtStep(t, "open", "claim")
  /\ lease # t
  /\ lease = NoTab => MayFail("locks")     \* the request itself failed
  /\ mishaps' = IF lease = NoTab THEN mishaps + 1 ELSE mishaps
  /\ recorder' = [recorder EXCEPT ![t] = Done(StandDown(@, JobSession(t)))]
  /\ UNCHANGED <<phase, feed, store, inflight, memory, lease, archive, sealed, cut,
                 warnings, counted, mail>>

\* store.openSession, which a closed connection answers by doing nothing.
PutSession(t) ==
  /\ AtStep(t, "open", "put")
  /\ archive' = IF Connected(t)
                THEN [archive EXCEPT ![JobSession(t)] = [Absent EXCEPT !.state = "open"]]
                ELSE archive
  /\ mail' = IF Connected(t) THEN Posted(t) ELSE mail
  /\ lease' = IF phase[t] = "disposed" THEN Released(t) ELSE lease
  /\ recorder' = [recorder EXCEPT ![t] = Done(@)]
  /\ UNCHANGED <<phase, feed, store, inflight, memory, sealed, cut, warnings, counted,
                 mishaps>>

\* upsertDevice, for a session whose lease was granted.
UpsertDevice(t) ==
  /\ AtStep(t, "device", "upsert")
  /\ counted' = IF memory[JobSession(t)].leased /\ Connected(t)
                THEN [counted EXCEPT ![JobSession(t)] = TRUE] ELSE counted
  /\ recorder' = [recorder EXCEPT ![t] = Done(@)]
  /\ UNCHANGED <<phase, feed, store, inflight, memory, lease, archive, sealed, cut,
                 warnings, mail, mishaps>>

\* appendWarning: the row is filed and announced, to this tab's watcher too.
AppendWarning(t) ==
  /\ AtStep(t, "warning", "append")
  /\ IF store[t] = "usable"
     THEN /\ warnings' = [warnings EXCEPT ![JobSession(t)] = @ + 1]
          /\ mail' = Posted(t)
          /\ IF Live(t)
             THEN /\ recorder' = [recorder EXCEPT ![t] =
                       Done(FollowArchive([@ EXCEPT !.announced = TRUE], TRUE))]
                  /\ memory' = SealIfEnded(t, ArchiveReturned(t))
             ELSE /\ recorder' = [recorder EXCEPT ![t] = Done(@)]
                  /\ UNCHANGED memory
     ELSE /\ recorder' = [recorder EXCEPT ![t] = Done(@)]
          /\ UNCHANGED <<warnings, mail, memory>>
  /\ UNCHANGED <<phase, feed, store, inflight, lease, archive, sealed, cut, counted, mishaps>>

\* The job of flush: while somebody asked again, write what is pending.
\* writePending goes on to the next chunk, then to the tail, then it returns.
Commit(head, chunk, m) ==
  [head |-> head, chunk |-> chunk, samples |-> m.samples, dropped |-> m.dropped]

WriteOn(t, r, m) ==
  \/ /\ m.pending # <<>>
     /\ inflight' = [inflight EXCEPT ![t] = Commit(TRUE, Head(m.pending).chunk, m)]
     /\ recorder' = [recorder EXCEPT ![t] = Step(r, "commit")]
  \/ /\ m.pending = <<>> /\ m.tail > 0
     /\ inflight' = [inflight EXCEPT ![t] = Commit(FALSE, Chunk(m.nextSeq - 1, m.tail), m)]
     /\ recorder' = [recorder EXCEPT ![t] = Step(r, "commit")]

\* writePending has returned, to the flush loop or to finish.
WriteEnds(t, r) ==
  /\ inflight' = [inflight EXCEPT ![t] = NoCommit]
  /\ recorder' = [recorder EXCEPT ![t] =
       Step(r, IF Head(r.chain).kind = "flush" THEN "loop" ELSE "close")]

WritePending(t, r, m) ==
  \/ WriteOn(t, r, m)
  \/ /\ m.pending = <<>> /\ m.tail = 0
     /\ WriteEnds(t, r)

FlushPending(t) ==
  /\ AtStep(t, "flush", "loop")
  /\ LET s == JobSession(t)
         m == [memory[s] EXCEPT !.requested = FALSE]
     IN  /\ memory[s].requested
         /\ memory' = [memory EXCEPT ![s] = m]
         /\ IF m.leased /\ store[t] = "usable"
            THEN WritePending(t, recorder[t], m)
            ELSE WriteEnds(t, recorder[t])
  /\ UNCHANGED <<phase, feed, store, lease, archive, sealed, cut, warnings, counted, mail,
                 mishaps>>

FlushEndsWriting(t) ==                                       \* mutant
  /\ AtStep(t, "flush", "loop")
  /\ ~memory[JobSession(t)].requested
  /\ recorder' = [recorder EXCEPT ![t] = Done(@)]
  /\ UNCHANGED <<memory, counted, mail, Elsewhere>>
FlushEnds(t) ==
  /\ AtStep(t, "flush", "loop")
  /\ ~memory[JobSession(t)].requested
  /\ memory' = [memory EXCEPT ![JobSession(t)].writing = FALSE]
  /\ recorder' = [recorder EXCEPT ![t] = Done(@)]
  /\ UNCHANGED <<counted, mail, Elsewhere>>

\* pending.shift(), which leaves an empty array as it is.
Shift(pending) == SubSeq(pending, 2, Len(pending))

InCommit(t) == AtStep(t, "flush", "commit") \/ AtStep(t, "finish", "commit")

\* prune, the last thing a commit or a recovery does to the archive its own
\* writes left behind.  Above the raw allowance sealed chunks of any session are
\* cut, the one being recorded included; above the others settled sessions are
\* evicted.  Which ones, their ages and lengths decide.
Settled(row) == row.state \in {"closed", "abandoned"}

CuttableStored(full) ==                                      \* mutant
  {key \in Sessions \X Seqs : archive[key[1]].chunks[key[2]] > 0}
Cuttable(full) == {key \in Sessions \X Seqs : key[2] \in full[key[1]]}

Leaves(rows, full, less, filed) ==
  /\ archive' = rows
  /\ sealed' = full
  /\ cut' = less
  /\ warnings' = filed

LeavesPruned(rows, full, less, filed) ==
  /\ "pruning" \in Happenings
  /\ \E evicted \in SUBSET {s \in Sessions : Settled(rows[s])},
        taken \in SUBSET Cuttable(full) :
       Leaves([s \in Sessions |-> IF s \in evicted THEN Absent ELSE rows[s]],
              [s \in Sessions |-> IF s \in evicted THEN {} ELSE full[s]],
              [s \in Sessions |-> IF s \in evicted THEN {}
                                 ELSE less[s] \cup {q \in Seqs : <<s, q>> \in taken}],
              [s \in Sessions |-> IF s \in evicted THEN 0 ELSE filed[s]])

\* The archive takes the chunk and the session's figures and makes room for them
\* in one transaction; what it had to cut is announced, to other tabs only.
CommitStored(t) ==
  /\ InCommit(t) /\ Connected(t)
  /\ LET s == JobSession(t)
         c == inflight[t]
         q == c.chunk.seq
         m == IF c.head THEN [memory[s] EXCEPT !.pending = Shift(@)] ELSE memory[s]
         rows == [archive EXCEPT
                    ![s] = [@ EXCEPT !.samples = c.samples, !.dropped = c.dropped,
                                     !.chunks[q] = c.chunk.rows]]
         full == [sealed EXCEPT ![s] = IF c.head THEN @ \cup {q} ELSE @ \ {q}]
         less == [cut EXCEPT ![s] = @ \ {q}]
     IN  /\ archive[s].state = "open"
         /\ \/ Leaves(rows, full, less, warnings) /\ UNCHANGED mail
            \/ LeavesPruned(rows, full, less, warnings) /\ mail' = Posted(t)
         /\ memory' = [memory EXCEPT ![s] = m]
         /\ IF c.head THEN WritePending(t, recorder[t], m) ELSE WriteEnds(t, recorder[t])
  /\ UNCHANGED <<phase, feed, store, lease, counted, mishaps>>

\* A full disk refuses a commit once unanswered: the archive makes room in a
\* transaction of its own, which it does not announce, and tries again.
PruneToBudget(t) ==
  /\ InCommit(t) /\ Connected(t)
  /\ archive[JobSession(t)].state = "open"
  /\ LeavesPruned(archive, sealed, cut, warnings)
  /\ UNCHANGED <<phase, feed, store, recorder, inflight, memory, lease, counted,
                 mail, mishaps>>

\* The row is gone or closed underneath the tab - or the write failed in any
\* way that is not a full disk, which the archive answers with the same null.
CommitLost(t) ==
  /\ InCommit(t)
  /\ LET s == JobSession(t)
         gone == ~Connected(t) \/ archive[s].state # "open"
     IN  /\ gone \/ MayFail("aborted")
         /\ mishaps' = IF gone THEN mishaps ELSE mishaps + 1
         /\ WriteEnds(t, AbandonLostSession(recorder[t], s))
  /\ UNCHANGED <<phase, feed, store, memory, lease, archive, sealed, cut, warnings,
                 counted, mail>>

\* A refusal that says why.  The browser's archive latches itself unusable and
\* tells its watchers; the port lets one refuse and stay usable.
Latches(t) == Mishap("latching") /\ store[t] \in {"usable", "full"}
Passes(t) == Mishap("passing") /\ store[t] = "usable"

RefusedRecorder(t, latching) ==
  LET r == recorder[t]
      told == IF latching /\ store[t] = "usable" /\ Live(t)
              THEN FollowArchive([r EXCEPT !.announced = TRUE], FALSE) ELSE r
  IN  [told EXCEPT !.failure = TRUE]

CommitRefused(t) ==
  /\ InCommit(t) /\ Connected(t)
  /\ \E latching \in BOOLEAN :
     /\ IF latching THEN Latches(t) ELSE Passes(t)
     /\ store' = IF latching THEN [store EXCEPT ![t] = "full"] ELSE store
     /\ LET s == JobSession(t)
            c == inflight[t]
            m == memory[s]
            attempts == Head(m.pending).attempts + 1
            retried == [m EXCEPT !.pending[1].attempts = attempts]
            dropped == [m EXCEPT !.pending = Shift(@), !.dropped = @ + 1]
            r == RefusedRecorder(t, latching)
        IN  \/ /\ c.head /\ attempts < MaxAttempts
               /\ memory' = [memory EXCEPT ![s] = retried]
               /\ WriteEnds(t, r)
            \/ /\ c.head /\ attempts >= MaxAttempts
               /\ memory' = [memory EXCEPT ![s] = dropped]
               /\ WritePending(t, r, dropped)
            \/ /\ ~c.head
               /\ WriteEnds(t, r)
               /\ UNCHANGED memory
  /\ UNCHANGED <<phase, feed, lease, archive, sealed, cut, warnings, counted, mail>>

\* The job of finish: the lease goes back first, then the record is settled.
FinishRelease(t) ==
  /\ AtStep(t, "finish", "release")
  /\ lease' = Released(t)
  /\ LET m == memory[JobSession(t)]
         r == recorder[t]
     IN  \/ /\ store[t] # "usable"
            /\ recorder' = [recorder EXCEPT ![t] = Done(r)]
            /\ UNCHANGED inflight
         \/ /\ store[t] = "usable" /\ m.samples < MinSamples
            /\ recorder' = [recorder EXCEPT ![t] = Step(r, "delete")]
            /\ UNCHANGED inflight
         \/ /\ store[t] = "usable" /\ m.samples >= MinSamples
            /\ IF m.leased THEN WritePending(t, r, m) ELSE WriteEnds(t, r)
  /\ UNCHANGED <<phase, feed, store, memory, archive, sealed, cut, warnings, counted, mail,
                 mishaps>>

\* deleteSession: the row goes, with its chunks and its warnings.
Removed(s) ==
  Leaves([archive EXCEPT ![s] = Absent], [sealed EXCEPT ![s] = {}],
         [cut EXCEPT ![s] = {}], [warnings EXCEPT ![s] = 0])

DeleteShort(t) ==
  /\ AtStep(t, "finish", "delete")
  /\ recorder' = [recorder EXCEPT ![t] = Done(@)]
  /\ IF Connected(t)
     THEN /\ Removed(JobSession(t))
          /\ mail' = Posted(t)
     ELSE UNCHANGED <<archive, sealed, cut, warnings, mail>>
  /\ UNCHANGED <<phase, feed, store, inflight, memory, lease, counted, mishaps>>

\* sealOpenChunks
Stored(s) == {q \in Seqs : archive[s].chunks[q] > 0}

\* closeSession settles any row it finds, open or already closed by a sweep.
CloseSession(t) ==
  /\ AtStep(t, "finish", "close")
  /\ recorder' = [recorder EXCEPT ![t] = Done(@)]
  /\ LET s == JobSession(t) IN
     IF Connected(t)
     THEN /\ archive' = IF archive[s].state = "absent" THEN archive
                        ELSE [archive EXCEPT ![s] =
                                [@ EXCEPT !.state = "closed",
                                          !.samples = memory[s].samples,
                                          !.dropped = memory[s].dropped]]
          /\ sealed' = [sealed EXCEPT ![s] = Stored(s)]
          /\ mail' = Posted(t)
     ELSE UNCHANGED <<archive, sealed, mail>>
  /\ UNCHANGED <<phase, feed, store, inflight, memory, lease, cut, warnings, counted,
                 mishaps>>

\* A write other than a commit throws: the chain swallows it and goes on.
JobThrows(t) ==
  /\ \/ AtStep(t, "open", "put")
     \/ AtStep(t, "device", "upsert")
     \/ AtStep(t, "warning", "append")
     \/ AtStep(t, "finish", "delete")
     \/ AtStep(t, "finish", "close")
  /\ Connected(t)
  /\ Mishap("throwing")
  /\ recorder' = [recorder EXCEPT ![t] = Done(@)]
  /\ UNCHANGED <<phase, feed, store, inflight, memory, lease, archive, sealed, cut,
                 warnings, counted, mail>>

JobStep(t) ==
  \/ ClaimGranted(t) \/ ClaimRefused(t) \/ PutSession(t)
  \/ UpsertDevice(t) \/ AppendWarning(t)
  \/ FlushPending(t) \/ FlushEnds(t)
  \/ CommitStored(t) \/ CommitLost(t) \/ CommitRefused(t) \/ PruneToBudget(t)
  \/ FinishRelease(t) \/ DeleteShort(t) \/ CloseSession(t)
  \/ JobThrows(t)

-----------------------------------------------------------------------------
(* The environment: radios, the archive's connection, pages and the owner. *)

Resume(t) ==
  /\ Live(t) /\ ~feed[t]
  /\ feed' = [feed EXCEPT ![t] = TRUE]
  /\ UNCHANGED <<phase, store, recorder, inflight, memory, lease, archive,
                 sealed, cut, warnings, counted, mail, mishaps>>

Silence(t) ==
  /\ "silence" \in Happenings
  /\ feed[t]
  /\ feed' = [feed EXCEPT ![t] = FALSE]
  /\ UNCHANGED <<phase, store, recorder, inflight, memory, lease, archive,
                 sealed, cut, warnings, counted, mail, mishaps>>

\* onversionchange: a newer page wants the database; this one lets go for good.
StandDownStore(t) ==
  /\ Live(t) /\ Connected(t)
  /\ Mishap("closing")
  /\ store' = [store EXCEPT ![t] = "closed"]
  /\ recorder' = [recorder EXCEPT ![t] =
                    FollowArchive([@ EXCEPT !.announced = TRUE], FALSE)]
  /\ UNCHANGED <<phase, feed, inflight, memory, lease, archive, sealed, cut, warnings,
                 counted, mail>>

\* Another store, an unusable one, is put in front of the archive, and taken away.
SwapStore(t) ==
  /\ Live(t) /\ store[t] = "usable"
  /\ Mishap("swapping")
  /\ store' = [store EXCEPT ![t] = "swapped"]
  /\ UNCHANGED <<phase, feed, recorder, inflight, memory, lease, archive,
                 sealed, cut, warnings, counted, mail>>

SwapBack(t) ==
  /\ Live(t) /\ store[t] = "swapped"
  /\ store' = [store EXCEPT ![t] = "usable"]
  /\ UNCHANGED <<phase, feed, recorder, inflight, memory, lease, archive,
                 sealed, cut, warnings, counted, mail, mishaps>>

\* The page is closed, killed or crashes: its memory and its lock are gone.
ClosePage(t) ==
  /\ phase[t] # "gone"
  /\ IF Live(t) THEN Mishap("leaving") ELSE UNCHANGED mishaps
  /\ phase' = [phase EXCEPT ![t] = "gone"]
  /\ feed' = [feed EXCEPT ![t] = FALSE]
  /\ recorder' = [recorder EXCEPT ![t] = IdleRecorder]
  /\ inflight' = [inflight EXCEPT ![t] = NoCommit]
  /\ store' = [store EXCEPT ![t] = "usable"]
  /\ mail' = [mail EXCEPT ![t] = 0]
  /\ lease' = IF lease = t THEN NoTab ELSE lease
  /\ UNCHANGED <<memory, archive, sealed, cut, warnings, counted>>

\* recover() settles every open row whose heartbeat is stale, evicts those that
\* hold nothing, removes what belongs to no row and makes room.
Swept(stale) ==
  [s \in Sessions |->
     IF s \notin stale THEN archive[s]
     ELSE IF archive[s].samples = 0 THEN Absent
     ELSE [archive[s] EXCEPT !.state = "abandoned"]]

Recover(stale) ==
  LET gone == {s \in stale : archive[s].samples = 0}
      full == [s \in Sessions |-> IF s \in gone THEN {}
                                 ELSE IF s \in stale THEN Stored(s) ELSE sealed[s]]
      less == [s \in Sessions |-> IF s \in gone THEN {} ELSE cut[s]]
      filed == [s \in Sessions |->
                  IF Swept(stale)[s].state = "absent" THEN 0 ELSE warnings[s]]
  IN  \/ Leaves(Swept(stale), full, less, filed)
      \/ LeavesPruned(Swept(stale), full, less, filed)

\* openHistoryStore: a recovery that fails is not heard of, and the page starts
\* on the archive as it was.
OpenPage(t) ==
  /\ phase[t] = "gone"
  /\ phase' = [phase EXCEPT ![t] = "live"]
  /\ \/ \E stale \in SUBSET {s \in Sessions : archive[s].state = "open"} :
          /\ Recover(stale)
          /\ mail' = IF stale = {} THEN mail ELSE Posted(t)
     \/ UNCHANGED <<archive, sealed, cut, warnings, mail>>
  /\ UNCHANGED <<feed, store, recorder, inflight, memory, lease, counted, mishaps>>

\* The owner deletes a session from the Log of tab t.
DeleteSession(t, s) ==
  /\ Live(t) /\ Connected(t)
  /\ archive[s].state # "absent"
  /\ Mishap("deleting")
  /\ Removed(s)
  /\ mail' = Posted(t)
  /\ UNCHANGED <<phase, feed, store, recorder, inflight, memory, lease, counted>>

-----------------------------------------------------------------------------
TabStep(t) ==
  \/ Observe(t) \/ EndStream(t) \/ Checkpoint(t) \/ Tick(t) \/ EndWatch(t)
  \/ Identify(t) \/ DeviceChanged(t)
  \/ HoldOpenForRejoin(t) \/ ReleaseRejoinHold(t)
  \/ Dispose(t) \/ RetryIntervalEnds(t) \/ HearAnnouncement(t)
  \/ JobStep(t)

Environment(t) ==
  \/ Resume(t) \/ Silence(t)
  \/ StandDownStore(t) \/ SwapStore(t) \/ SwapBack(t)
  \/ ClosePage(t) \/ OpenPage(t)
  \/ \E s \in Sessions : DeleteSession(t, s)

Next == \E t \in Tabs : TabStep(t) \/ Environment(t)

Spec == Init /\ [][Next]_vars

\* What a live page does by itself: it takes the radios' frames and its own
\* timers, and its promise chain runs.  A hold ends with telemetry's window.
JobRuns(t) == JobStep(t) /\ ~JobThrows(t) /\ ~PruneToBudget(t)

PageRuns(t) ==
  /\ WF_vars(Observe(t))
  /\ WF_vars(Tick(t))
  /\ WF_vars(ReleaseRejoinHold(t))
  /\ WF_vars(JobRuns(t))

\* A refused tab asks again after the retry interval, whether or not it hears that
\* the archive changed.
RetrySpec == Spec /\ \A t \in Tabs : PageRuns(t) /\ WF_vars(RetryIntervalEnds(t))

-----------------------------------------------------------------------------
(* Properties. *)

Chunks == [seq : Nat, rows : Nat]
Jobs ==
  [kind : {"open", "device", "warning", "flush", "finish"},
   session : Sessions,
   step : {"claim", "put", "upsert", "append", "loop", "commit",
           "release", "delete", "close"}]
Recorders ==
  [session : Sessions \cup {NoSession},
   refusal : {"none", "recent", "due"}, announced : BOOLEAN,
   failure : BOOLEAN, archiveLost : BOOLEAN, held : BOOLEAN,
   chain : Seq(Jobs)]
PendingChunks == [chunk : Chunks, attempts : 0 .. MaxAttempts - 1]
MemoryRecords ==
  [leased : BOOLEAN, deviceCounted : BOOLEAN, tail : Nat,
   pending : Seq(PendingChunks), nextSeq : Nat, samples : 0 .. MaxRows,
   dropped : Nat, alerting : BOOLEAN, warned : 0 .. MaxWarnings,
   writing : BOOLEAN, requested : BOOLEAN]
Memories ==
  {m \in MemoryRecords : m.tail < Capacity /\ (m.tail > 0 => m.nextSeq > 0)}
Records ==
  [state : {"absent", "open", "closed", "abandoned"},
   samples : 0 .. MaxRows, dropped : Nat, chunks : [Seqs -> Nat]]
Commits == [head : BOOLEAN, chunk : Chunks, samples : 0 .. MaxRows, dropped : Nat]

\* The recorders, the session objects and the archive hold what their types say.
TypeOK ==
  /\ phase \in [Tabs -> {"gone", "live", "disposed"}]
  /\ feed \in [Tabs -> BOOLEAN]
  /\ store \in [Tabs -> {"usable", "full", "swapped", "closed"}]
  /\ recorder \in [Tabs -> Recorders]
  /\ inflight \in [Tabs -> Commits]
  /\ memory \in [Sessions -> Memories]
  /\ lease \in Tabs \cup {NoTab}
  /\ archive \in [Sessions -> Records]
  /\ sealed \in [Sessions -> SUBSET Nat]
  /\ cut \in [Sessions -> SUBSET Nat]
  /\ warnings \in [Sessions -> Nat]
  /\ counted \in [Sessions -> BOOLEAN]
  /\ mail \in [Tabs -> 0 .. MaxMail]
  /\ mishaps \in 0 .. MaxMishaps

\* Tab t is keeping the log: its session is an open row of the archive.
Recording(t) ==
  /\ Live(t)
  /\ recorder[t].session # NoSession
  /\ archive[recorder[t].session].state = "open"

\* One tab records at a time: whoever has a session open in the archive holds
\* the recording lease, through finishing, reopening, refusals and closed pages.
StandingSessionHoldsLease == \A t \in Tabs : Recording(t) => lease = t

\* The log as another tab's owner sees it has one keeper.
Keepers == {t \in Tabs : Recording(t)}
Log == INSTANCE OneRecorder WITH keepers <- Keepers
OneTabRecordsAtATime == Log!Spec

\* Why: a standing session without the lease still has its claim ahead of it,
\* and so has every session that stands while an older one's finish - which
\* gives the lease back - is still queued.  A queued claim's row is not in the
\* archive yet, and no two tabs, nor two open jobs, share a session.  A page
\* that is disposed of or gone has no session.
ClaimAhead(t, i) ==
  \E j \in DOMAIN recorder[t].chain :
    j > i /\ recorder[t].chain[j] = OpenJob(recorder[t].session)

LeaseOrClaimAhead ==
  \A t \in Tabs :
    recorder[t].session # NoSession => lease = t \/ ClaimAhead(t, 0)

FinishBeforeClaim ==
  \A t \in Tabs : \A i \in DOMAIN recorder[t].chain :
    recorder[t].chain[i].kind = "finish" /\ recorder[t].session # NoSession
      => ClaimAhead(t, i)

OpensFreshRow ==
  \A t \in Tabs : \A i \in DOMAIN recorder[t].chain :
    recorder[t].chain[i].kind = "open"
      => archive[recorder[t].chain[i].session].state = "absent"

OneOpenJob ==
  \A t \in Tabs : \A i, j \in DOMAIN recorder[t].chain :
    /\ recorder[t].chain[i].kind = "open"
    /\ recorder[t].chain[j].kind = "open"
    /\ recorder[t].chain[i].session = recorder[t].chain[j].session
    => i = j

OneOwner ==
  \A t, u \in Tabs, s \in Sessions : RefersTo(t, s) /\ RefersTo(u, s) => t = u

OnlyLiveTabsHaveSessions ==
  \A t \in Tabs : recorder[t].session # NoSession => Live(t)

LeaseDiscipline ==
  /\ OnlyLiveTabsHaveSessions
  /\ LeaseOrClaimAhead
  /\ FinishBeforeClaim
  /\ OpensFreshRow
  /\ OneOpenJob
  /\ OneOwner

\* Nobody hoards the lease: a page keeps it only while a session stands in it
\* or jobs are left on its chain.
IdleTabHoldsNoLease ==
  \A t \in Tabs : lease = t =>
    /\ phase[t] # "gone"
    /\ recorder[t].session # NoSession \/ recorder[t].chain # <<>>

\* What the archive still holds of a chunk, and what was cut from it.
Held(s, q) == IF q \in cut[s] THEN 0 ELSE archive[s].chunks[q]
TakenFrom(s, q) == IF q \in cut[s] THEN archive[s].chunks[q] ELSE 0

PendingOf(m, q) == {i \in DOMAIN m.pending : m.pending[i].chunk.seq = q}
RowsOf(m, chunks, q) ==
  IF m.tail > 0 /\ q = m.nextSeq - 1 THEN m.tail
  ELSE IF PendingOf(m, q) # {}
  THEN m.pending[CHOOSE i \in PendingOf(m, q) : TRUE].chunk.rows
  ELSE chunks[q]
SumRows(rows, n) ==
  LET total[k \in 0 .. n] == IF k = 0 THEN 0 ELSE total[k - 1] + rows[k - 1]
  IN  total[n]

\* Every row a recording session counts is in the tail, waiting to be written or
\* in the archive, or was in a chunk the archive cut to make room: in one of them
\* only, so what is still in hand is never cut - as long as no chunk was given up.
RowsAccounted ==
  \A t \in Tabs : LET s == recorder[t].session
                     m == memory[s]
                     held == [q \in Seqs |-> Held(s, q)]
                 IN
    Recording(t) /\ m.dropped = 0 =>
      m.samples = SumRows([q \in Seqs |-> RowsOf(m, held, q) + TakenFrom(s, q)], m.nextSeq)

\* Of a session its recorder closed without giving up a chunk every row it says it
\* has was stored, and is, unless its chunk was cut to make room.
ClosedSessionIsWhole ==
  \A s \in Sessions :
    archive[s].state = "closed" /\ archive[s].dropped = 0 =>
      archive[s].samples =
        SumRows([q \in Seqs |-> Held(s, q) + TakenFrom(s, q)], MaxRows + 1)

\* While a session stands a row once stored goes only with its whole chunk, sealed,
\* cut to make room: it is never overwritten by an older copy.  What was cut is not
\* written again, and a settled session takes no more rows.
StoredRowsStand ==
  [][\A s \in Sessions :
       archive[s].state # "absent" /\ archive'[s].state # "absent" =>
         \A q \in Seqs :
           /\ Held(s, q)' < Held(s, q) => q \in sealed'[s] \cap cut'[s]
           /\ q \in cut[s] => q \in cut'[s]
           /\ archive[s].state # "open" => Held(s, q)' <= Held(s, q)]_vars

\* A live tab leaves its open row behind only by queueing its closing: nothing
\* but the row's own disappearance makes the recorder drop a session.
OpenRowsAreFinished ==
  [][\A t \in Tabs : LET s == recorder[t].session IN
       /\ Recording(t) /\ phase'[t] = "live"
       /\ recorder'[t].session # s
       => \E i \in DOMAIN recorder'[t].chain : recorder'[t].chain[i] = FinishJob(s)]_vars

\* Does not hold: a tab whose claim was never granted leaves nothing in the archive.
WritesOnlyUnderLease ==
  \A s \in Sessions :
    ~memory[s].leased => warnings[s] = 0 /\ archive[s].state = "absent"

\* A tab that goes on hearing a radio takes the lease again and again, once no
\* other tab hears one; until the instance has no session left to give it.
Spent == \A s \in Sessions : archive[s].state # "absent"
WaitingTabTakesOver ==
  \A t \in Tabs :
    <>[](feed[t] /\ \A u \in Tabs \ {t} : ~feed[u]) => []<>(lease = t \/ Spent)

\* Whatever a session has counted reaches the archive, through refusals, retries
\* and rows that arrive while a flush is under way, as long as the session stands
\* on an archive that takes commits and no chunk of it was given up.
Flushing(s) ==
  \E t \in Tabs :
    /\ Recording(t) /\ recorder[t].session = s
    /\ store[t] = "usable"
    /\ memory[s].dropped = 0
CountedRowsReachTheArchive ==
  \A s \in Sessions, n \in 1 .. MaxRows :
    (Flushing(s) /\ memory[s].samples = n) ~> (archive[s].samples >= n \/ ~Flushing(s))

=============================================================================
