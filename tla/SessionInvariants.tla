--------------------------- MODULE SessionInvariants ---------------------------
(***************************************************************************)
(* What SessionRecorderProofs shows of SessionRecorder at all times and of *)
(* every step, by name: the rows in memory, on their way and in the        *)
(* archive, and how a session ends and its lease goes back.                *)
(***************************************************************************)
EXTENDS SessionRecorder

-----------------------------------------------------------------------------
(* The archive and the chain of jobs. *)

Steps == {"claim", "put", "upsert", "append", "loop", "commit",
          "release", "delete", "close"}

\* What a transaction leaves of a session it did not write: the row as it was, with
\* perhaps more of its sealed chunks cut, or nothing, if it was settled.
Spared(z) ==
  /\ archive'[z] = archive[z] /\ sealed'[z] = sealed[z]
  /\ cut[z] \subseteq cut'[z] /\ cut'[z] \subseteq cut[z] \cup sealed[z]
Evicted(z) ==
  Settled(archive[z]) /\ archive'[z] = Absent /\ sealed'[z] = {} /\ cut'[z] = {}

ArchiveTyped ==
  /\ archive \in [Sessions -> Records]
  /\ sealed \in [Sessions -> SUBSET Nat]
  /\ cut \in [Sessions -> SUBSET Nat]
  /\ warnings \in [Sessions -> Nat]

\* The row, the sealed chunks and the cut ones as a commit writes them.
WrittenRow(t) ==
  [archive[JobSession(t)] EXCEPT
     !.samples = inflight[t].samples, !.dropped = inflight[t].dropped,
     !.chunks[inflight[t].chunk.seq] = inflight[t].chunk.rows]
WrittenFull(t) ==
  IF inflight[t].head THEN sealed[JobSession(t)] \cup {inflight[t].chunk.seq}
                      ELSE sealed[JobSession(t)] \ {inflight[t].chunk.seq}
WrittenLess(t) == cut[JobSession(t)] \ {inflight[t].chunk.seq}

\* What recovery leaves of a session: it is spared or evicted, or it is settled
\* first and then spared or evicted.
SweptAway(z) ==
  /\ archive[z].state = "open"
  /\ \/ archive'[z] = Absent /\ sealed'[z] = {} /\ cut'[z] = {}
     \/ /\ archive'[z] = [archive[z] EXCEPT !.state = "abandoned"]
        /\ sealed'[z] = Stored(z)
        /\ cut[z] \subseteq cut'[z] /\ cut'[z] \subseteq cut[z] \cup Stored(z)

Kept(job, old) == job.kind = old.kind /\ job.session = old.session

Added(r, q, job) ==
  /\ job.kind # "open"
  /\ job.session = r.session
  /\ job.kind = "finish" => q.session = NoSession

Keeps(r, q, popped, touched) ==
  /\ q.session \in {r.session, NoSession}
  /\ \A i \in DOMAIN q.chain :
       \/ i + popped \in DOMAIN r.chain /\ Kept(q.chain[i], r.chain[i + popped])
       \/ Added(r, q, q.chain[i])
  /\ q.session # NoSession =>
       \A j \in DOMAIN r.chain :
         j > touched /\ r.chain[j] = OpenJob(r.session)
           => j - popped \in DOMAIN q.chain /\ q.chain[j - popped] = r.chain[j]

\* After a session s begins in recorder a, its claim is the first of the new
\* jobs, and none of them is another claim or a closing.
Begins(a, q, s) ==
  /\ q.session = s
  /\ Len(a.chain) + 1 \in DOMAIN q.chain
  /\ q.chain[Len(a.chain) + 1] = OpenJob(s)
  /\ \A i \in DOMAIN a.chain : i \in DOMAIN q.chain /\ q.chain[i] = a.chain[i]
  /\ \A i \in DOMAIN q.chain \ DOMAIN a.chain :
       /\ q.chain[i].session = s
       /\ q.chain[i].kind # "finish"
       /\ i # Len(a.chain) + 1 => q.chain[i].kind # "open"

-----------------------------------------------------------------------------
(* Rows: in memory, on their way, in the archive. *)

\* The function SumRows is defined by.
IsTotal(f, rows, n) ==
  f = [k \in 0 .. n |-> IF k = 0 THEN 0 ELSE f[k - 1] + rows[k - 1]]

\* The rows stored, waiting and in the tail make up what the session counts.
Tallied(m, chunks) ==
  m.samples = SumRows([q \in Seqs |-> RowsOf(m, chunks, q)], m.nextSeq)

\* The number of the first row group that is not pending: the tail's, if it has rows.
First(m) == IF m.tail > 0 THEN m.nextSeq - 1 ELSE m.nextSeq

Numbered(m) ==
  /\ \A i, j \in DOMAIN m.pending :
       i < j => m.pending[i].chunk.seq < m.pending[j].chunk.seq
  /\ \A i \in DOMAIN m.pending : m.pending[i].chunk.seq < First(m)
  /\ m.nextSeq <= m.samples

\* What is stored is never more than what waits to be stored under the number.
Fits(m, chunks) ==
  /\ Numbered(m)
  /\ \A i \in DOMAIN m.pending : chunks[m.pending[i].chunk.seq] <= m.pending[i].chunk.rows
  /\ m.tail > 0 => chunks[First(m)] <= m.tail
  /\ \A q \in Seqs : q >= m.nextSeq => chunks[q] = 0

\* The commit on its way is the head of the queue, or a copy of the tail that
\* has since grown or been sealed.
Writes(c, m, chunks) ==
  /\ c.chunk.seq \in Seqs
  /\ chunks[c.chunk.seq] <= c.chunk.rows
  /\ c.head => 1 \in DOMAIN m.pending /\ m.pending[1].chunk = c.chunk
  /\ ~c.head =>
       \/ m.tail > 0 /\ c.chunk.seq = First(m) /\ c.chunk.rows <= m.tail
       \/ \E i \in DOMAIN m.pending :
            m.pending[i].chunk.seq = c.chunk.seq /\ c.chunk.rows <= m.pending[i].chunk.rows

\* Every row counted is stored, waits or is in the tail, unless a chunk was given up.
Whole(m, chunks) == m.dropped = 0 => Tallied(m, chunks)

\* The open job of session s is still on the chain of tab t.
Opening(t, s) ==
  \E i \in DOMAIN recorder[t].chain :
    recorder[t].chain[i].kind = "open" /\ recorder[t].chain[i].session = s

\* A session that is being recorded, or is about to be.
Entered(t, s) ==
  \/ archive[s].state = "open"
  \/ archive[s].state = "absent" /\ Opening(t, s)

\* The numbers in S are past: nothing that waits or is to come has one of them.
Past(m, S) ==
  \A q \in S :
    /\ q \in Seqs /\ q < m.nextSeq
    /\ m.tail > 0 => q # First(m)
    /\ \A i \in DOMAIN m.pending : m.pending[i].chunk.seq # q

\* An absent row has nothing, and of an open one only sealed chunks were cut.
RowInOrder(s) ==
  /\ archive[s].state = "absent" => archive[s] = Absent /\ sealed[s] = {} /\ cut[s] = {}
  /\ archive[s].state = "open" => cut[s] \subseteq sealed[s]
ArchiveInOrder == \A s \in Sessions : RowInOrder(s)

SealedIsPast ==
  \A t \in Tabs, s \in Sessions :
    RefersTo(t, s) /\ archive[s].state = "open" => Past(memory[s], sealed[s])

MemoryFitsTheArchive ==
  \A t \in Tabs, s \in Sessions : RefersTo(t, s) => Fits(memory[s], archive[s].chunks)

CommitsAreCurrent ==
  \A t \in Tabs : \A i \in DOMAIN recorder[t].chain :
    recorder[t].chain[i].step = "commit" =>
      LET s == recorder[t].chain[i].session IN
      i = 1 /\ Writes(inflight[t], memory[s], archive[s].chunks)

EnteredIsWhole ==
  \A t \in Tabs, s \in Sessions :
    RefersTo(t, s) /\ Entered(t, s) => Whole(memory[s], archive[s].chunks)

RowsInv ==
  /\ ArchiveInOrder
  /\ SealedIsPast
  /\ MemoryFitsTheArchive
  /\ CommitsAreCurrent
  /\ EnteredIsWhole

StoredChunks == [Seqs -> Nat]

\* The number First gives the tail if it has rows, and what a queue lists are numbers.
Countable(m) ==
  /\ DOMAIN m.pending \subseteq Nat
  /\ \A i \in DOMAIN m.pending : m.pending[i].chunk.seq \in Nat
  /\ m.tail \in Nat /\ m.nextSeq \in Nat /\ First(m) \in Nat

\* Whatever the session object m fits, n fits; n is whole if m is, and a commit
\* on its way fits both.
Extends(m, n) ==
  \A chunks \in StoredChunks : Fits(m, chunks) =>
    /\ Fits(n, chunks)
    /\ Whole(m, chunks) => Whole(n, chunks)
    /\ \A c \in Commits : Writes(c, m, chunks) => Writes(c, n, chunks)

-----------------------------------------------------------------------------
(* What a step does to the chains and to the rows. *)

\* Chunks that lose rows, with the session they belong to.
Lower(less, chunks) == \A q \in Seqs : less[q] <= chunks[q]

Queues(r, q) ==
  \A i \in DOMAIN q.chain :
    \/ q.chain[i].step # "commit"
    \/ i \in DOMAIN r.chain /\ q.chain[i] = r.chain[i]

\* A session nobody but its recorder touches; one that tab t settles itself;
\* one that begins.
Stays(s) ==
  /\ Extends(memory[s], memory'[s])
  /\ Lower(archive'[s].chunks, archive[s].chunks)
  /\ archive'[s].state = "open" =>
       archive'[s].chunks = archive[s].chunks /\ sealed'[s] = sealed[s]
Settles(t, s) ==
  /\ RefersTo(t, s)
  /\ Fits(memory'[s], archive'[s].chunks)
  /\ Past(memory[s], sealed[s]) => Past(memory'[s], sealed'[s])
  /\ Whole(memory[s], archive[s].chunks) => Whole(memory'[s], archive'[s].chunks)
Starts(s) ==
  /\ Unused(s)
  /\ archive'[s].state = "absent"
  /\ Fits(memory'[s], archive'[s].chunks)
  /\ Whole(memory'[s], archive'[s].chunks)

\* A row is put by its own open job only.
PutByOpening(t) ==
  \A s \in Sessions :
    archive'[s].state = "open" => archive[s].state = "open" \/ Opening(t, s)

\* What is left of a session by a transaction that writes nothing of it.
Left(z) ==
  \/ Spared(z)
  \/ archive'[z] = Absent /\ sealed'[z] = {} /\ cut'[z] = {}
  \/ SweptAway(z)

\* What a step does to the rows of a session that stays in the archive.
RowsStand(s) ==
  archive[s].state # "absent" /\ archive'[s].state # "absent" =>
    \A q \in Seqs :
      /\ Held(s, q)' < Held(s, q) => q \in sealed'[s] \cap cut'[s]
      /\ q \in cut[s] => q \in cut'[s]
      /\ archive[s].state # "open" => Held(s, q)' <= Held(s, q)

NewJobs(s) == {OpenJob(s), DeviceJob(s), WarningJob(s), FlushJob(s), FinishJob(s)}

Adds(r, q, i) ==
  LET job == q.chain[i] IN
  /\ job.session \in Sessions
  /\ job \in NewJobs(job.session)
  /\ job.kind = "finish" =>
       /\ job.session = r.session /\ q.session # r.session
       /\ \A j \in DOMAIN q.chain \ DOMAIN r.chain : q.chain[j].kind = "finish" => j = i
  /\ job.kind = "open" =>
       /\ job.session = q.session /\ q.session # r.session
       /\ \A j \in DOMAIN q.chain : j < i => q.chain[j].session # job.session

Grows(r, q) ==
  /\ \A i \in DOMAIN r.chain : i \in DOMAIN q.chain /\ q.chain[i] = r.chain[i]
  /\ \A i \in DOMAIN q.chain \ DOMAIN r.chain : Adds(r, q, i)

\* A session that stops standing has its closing queued.
Closes(r, q) ==
  r.session # NoSession /\ q.session # r.session =>
    \E i \in DOMAIN q.chain \ DOMAIN r.chain : q.chain[i] = FinishJob(r.session)

\* The claim of session s is on the chain of r.
Opens(r, s) == \E i \in DOMAIN r.chain : r.chain[i].kind = "open" /\ r.chain[i].session = s

\* What happens to recorder a when it has come from r leaves to q what r stood for.
Follows(r, a, q) ==
  \/ q.session = a.session
  \/ /\ a.session \in {r.session, NoSession}
     /\ q.session = r.session => a.session = r.session

-----------------------------------------------------------------------------
(* What a call does, and how a session ends. *)

\* What is told of the session objects: a call keeps their leases, changes the
\* one that stands and no other, and seals the one it ends.
Seals(t) ==
  \A s \in Sessions : ~Unused(s) =>
    /\ memory'[s].leased = memory[s].leased
    /\ s # recorder[t].session => memory'[s] = memory[s]
    /\ s = recorder[t].session /\ recorder'[t].session # s => memory'[s].tail = 0

Called(t) ==
  /\ \A u \in Tabs \ {t} : recorder'[u] = recorder[u]
  /\ Grows(recorder[t], recorder'[t])
  /\ Closes(recorder[t], recorder'[t])
  /\ \/ recorder'[t].session \in {recorder[t].session, NoSession}
     \/ /\ recorder'[t].session \in Sessions /\ Unused(recorder'[t].session)
        /\ Opens(recorder'[t], recorder'[t].session)
  /\ Seals(t)
  /\ UNCHANGED <<phase, store, inflight, lease, archive>>

\* The connection to the archive is there as long as no newer page asks for it.
AllConnected == \A t \in Tabs : Connected(t)

\* Behind the head no job has begun.  A closing is of a session that stands no
\* more, and the only one of that session.
InOrder(r) ==
  /\ \A i \in DOMAIN r.chain : i # 1 => r.chain[i] \in NewJobs(r.chain[i].session)
  /\ \A i \in DOMAIN r.chain :
       r.chain[i].kind = "finish" => r.chain[i].session # r.session
  /\ \A i, j \in DOMAIN r.chain :
       /\ r.chain[i].kind = "finish" /\ r.chain[j].kind = "finish"
       /\ r.chain[i].session = r.chain[j].session
       => i = j

Finishes(r, s) ==
  \E i \in DOMAIN r.chain : r.chain[i].kind = "finish" /\ r.chain[i].session = s

\* The recorder has session s to settle, now or later.
Ends(r, s) == r.session = s \/ Finishes(r, s)

FinishesSealed ==
  \A t \in Tabs, s \in Sessions : Finishes(recorder[t], s) => memory[s].tail = 0

OpenRowIsLeased ==
  \A s \in Sessions : archive[s].state = "open" => memory[s].leased

EndingRowIsOpen ==
  \A t \in Tabs, s \in Sessions : Ends(recorder[t], s) => archive[s].state \in {"absent", "open"}

\* A chunk that was cut keeps its place in the sum.
ChunksWhole ==
  \A s \in Sessions :
    archive[s].state = "closed" /\ archive[s].dropped = 0 =>
      archive[s].samples = SumRows(archive[s].chunks, MaxRows + 1)

\* What the job at the head of the chain has come to.
HeadReady(t) ==
  recorder[t].chain # <<>> =>
    LET job == recorder[t].chain[1]
        s == job.session
    IN  /\ job.kind = "open" /\ job.step = "put" => memory[s].leased
        /\ job.kind = "finish" /\ job.step = "commit" => inflight[t].head
        /\ job.kind = "finish" /\ job.step = "close" =>
             \/ ~Connected(t)
             \/ archive[s].state # "open"
             \/ memory[s].pending = <<>>

\* A page that is left is the only one.
LeftAlone ==
  \A t \in Tabs : phase[t] # "live" =>
    /\ \A u \in Tabs : u = t
    /\ phase[t] = "gone" => recorder[t].chain = <<>>

EndingsInv ==
  /\ \A t \in Tabs : InOrder(recorder[t]) /\ HeadReady(t)
  /\ FinishesSealed
  /\ OpenRowIsLeased
  /\ EndingRowIsOpen
  /\ LeftAlone
  /\ ChunksWhole

Untouched(u) ==
  /\ recorder'[u] = recorder[u] /\ inflight'[u] = inflight[u] /\ store'[u] = store[u]
  /\ \A s \in Sessions : RefersTo(u, s) =>
       /\ memory'[s] = memory[s]
       /\ archive'[s] = archive[s] \/ archive'[s].state = "absent"

-----------------------------------------------------------------------------
(* How the lease goes back. *)

\* The closing of session s waits behind job i.
ClosesAfter(r, i, s) == \E j \in DOMAIN r.chain : j > i /\ r.chain[j] = FinishJob(s)

\* A session's claim comes before its other jobs.
OpensFirst(r) ==
  \A i, j \in DOMAIN r.chain :
    r.chain[i].kind = "open" /\ r.chain[j].session = r.chain[i].session => i <= j

OpensEnd(r) ==
  \A i \in DOMAIN r.chain : r.chain[i].kind = "open" =>
    r.session = r.chain[i].session \/ ClosesAfter(r, i, r.chain[i].session)

OpensEndBehind(r) ==
  \A i \in DOMAIN r.chain : i # 1 /\ r.chain[i].kind = "open" =>
    r.session = r.chain[i].session \/ ClosesAfter(r, i, r.chain[i].session)

Releases(r) ==
  \E i \in DOMAIN r.chain : r.chain[i].kind = "finish" /\ r.chain[i].step = "release"

\* A disposed page still puts the row it claimed the lease for, and gives it back.
AtPut(t) ==
  /\ phase[t] = "disposed" /\ recorder[t].chain # <<>>
  /\ recorder[t].chain[1].kind = "open" /\ recorder[t].chain[1].step = "put"

Lends(t) ==
  /\ InOrder(recorder[t]) /\ OpensFirst(recorder[t])
  /\ Live(t) => OpensEnd(recorder[t])
  /\ recorder[t].session # NoSession =>
       \/ archive[recorder[t].session].state = "open"
       \/ Opens(recorder[t], recorder[t].session)
  /\ lease = t => recorder[t].session # NoSession \/ Releases(recorder[t]) \/ AtPut(t)

LendingInv == LeftAlone /\ AllConnected /\ \A t \in Tabs : Lends(t)

=============================================================================
