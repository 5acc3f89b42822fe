----------------------- MODULE SessionRecorderProofs -----------------------
(***************************************************************************)
(* Proofs about SessionRecorder, for any number of tabs and sessions and   *)
(* any bounds.  First its types, then that one tab records at a time; then *)
(* the rows: however commits, retries, refusals, sweeps and deletions      *)
(* interleave, no commit lands on a longer copy of its chunk, and a        *)
(* recording session has every row it counts, once.  Last how a session    *)
(* ends: its tab queues its closing, a closed session is whole, and the    *)
(* lease goes back.  SessionInvariants has the invariants by name.         *)
(***************************************************************************)
EXTENDS SessionInvariants, WellFoundedInduction, TLAPS

-----------------------------------------------------------------------------
(* What the functions on recorders and sessions return. *)

LEMMA EnqueueType ==
  ASSUME NEW r \in Recorders, NEW job \in Jobs
  PROVE  Enqueue(r, job) \in Recorders
<1> DEFINE c == Append(r.chain, job)
<1>1. r.chain \in Seq(Jobs)
  BY DEF Recorders
<1>2. c \in Seq(Jobs)
  BY <1>1
<1>3. Enqueue(r, job) = [r EXCEPT !.chain = c]
  BY DEF Enqueue
<1> HIDE DEF c
<1>4. [r EXCEPT !.chain = c] \in Recorders
  BY <1>2 DEF Recorders
<1> QED BY <1>3, <1>4

LEMMA JobTypes ==
  ASSUME NEW s \in Sessions
  PROVE  {OpenJob(s), DeviceJob(s), WarningJob(s), FlushJob(s), FinishJob(s)}
           \subseteq Jobs
  BY DEF OpenJob, DeviceJob, WarningJob, FlushJob, FinishJob, Job, Jobs

LEMMA StopType ==
  ASSUME NEW r \in Recorders
  PROVE  Stop(r) \in Recorders
  BY DEF Stop, Recorders

LEMMA FinishType ==
  ASSUME NEW r \in Recorders
  PROVE  Finish(r) \in Recorders
<1>1. CASE r.session = NoSession
  BY <1>1 DEF Finish, Recorders
<1>2. CASE r.session # NoSession
  <2>1. r.session \in Sessions
    BY <1>2 DEF Recorders
  <2>2. Enqueue(r, FinishJob(r.session)) \in Recorders
    BY <2>1, JobTypes, EnqueueType
  <2> QED BY <1>2, <2>2, StopType DEF Finish
<1> QED BY <1>1, <1>2

LEMMA FollowArchiveType ==
  ASSUME NEW r \in Recorders, NEW usable \in BOOLEAN
  PROVE  FollowArchive(r, usable) \in Recorders
<1>1. [r EXCEPT !.archiveLost = FALSE, !.failure = FALSE] \in Recorders
  BY DEF Recorders
<1>2. [r EXCEPT !.failure = TRUE, !.archiveLost = TRUE] \in Recorders
  BY DEF Recorders
<1> QED BY <1>1, <1>2, FinishType DEF FollowArchive

LEMMA StandDownType ==
  ASSUME NEW r \in Recorders, NEW s \in Sessions
  PROVE  StandDown(r, s) \in Recorders
<1>1. Stop(r) \in Recorders
  BY StopType
<1> QED BY <1>1 DEF StandDown, Recorders

LEMMA AbandonType ==
  ASSUME NEW r \in Recorders, NEW s \in Sessions
  PROVE  AbandonLostSession(r, s) \in Recorders
  BY StopType DEF AbandonLostSession

LEMMA FlushType ==
  ASSUME NEW r \in Recorders, NEW m, r.session \in Sessions
  PROVE  Flush(r, m) \in Recorders
  BY JobTypes, EnqueueType DEF Flush

LEMMA DoneType ==
  ASSUME NEW r \in Recorders, r.chain # <<>>
  PROVE  Done(r) \in Recorders
<1> DEFINE c == Tail(r.chain)
<1>1. r.chain \in Seq(Jobs)
  BY DEF Recorders
<1>2. c \in Seq(Jobs)
  BY <1>1
<1>3. Done(r) = [r EXCEPT !.chain = c]
  BY DEF Done
<1> HIDE DEF c
<1>4. [r EXCEPT !.chain = c] \in Recorders
  BY <1>2 DEF Recorders
<1> QED BY <1>3, <1>4

LEMMA StepType ==
  ASSUME NEW r \in Recorders, r.chain # <<>>, NEW step \in Steps
  PROVE  /\ Step(r, step) \in Recorders
         /\ Step(r, step).chain # <<>>
<1>1. r.chain \in Seq(Jobs) /\ Len(r.chain) > 0
  BY DEF Recorders
<1>5. r.chain[1] \in Jobs
  BY <1>1
<1>2. [r.chain[1] EXCEPT !.step = step] \in Jobs
  BY <1>5 DEF Jobs, Steps
<1>3. [r.chain EXCEPT ![1] = [r.chain[1] EXCEPT !.step = step]] \in Seq(Jobs)
  BY <1>1, <1>2
<1>4. [r.chain EXCEPT ![1] = [r.chain[1] EXCEPT !.step = step]] # <<>>
  BY <1>1, <1>2
<1> QED BY <1>3, <1>4 DEF Step, Recorders

LEMMA NewSessionType ==
  ASSUME NEW leased \in BOOLEAN, NEW identified \in BOOLEAN
  PROVE  NewSession(leased, identified) \in Memories
<1>1. NewSession(leased, identified) \in MemoryRecords
  BY SessionRecorderAssumption DEF NewSession, MemoryRecords
<1>2. 0 < Capacity
  BY SessionRecorderAssumption
<1> QED BY <1>1, <1>2 DEF NewSession, Memories

LEMMA IsMemory ==
  ASSUME NEW m \in MemoryRecords, m.tail < Capacity, m.tail = 0 \/ m.nextSeq > 0
  PROVE  m \in Memories
  BY DEF Memories

LEMMA WithPending ==
  ASSUME NEW m \in MemoryRecords, NEW pending \in Seq(PendingChunks)
  PROVE  LET n == [m EXCEPT !.tail = 0, !.pending = pending]
         IN  n \in Memories /\ n.tail = 0 /\ n.samples = m.samples
<1> DEFINE n == [m EXCEPT !.tail = 0, !.pending = pending]
<1>1. n \in MemoryRecords
  BY DEF MemoryRecords
<1>2. n.tail = 0 /\ n.samples = m.samples
  BY DEF MemoryRecords
<1>3. n.tail < Capacity
  BY <1>2, SessionRecorderAssumption
<1> QED BY <1>1, <1>2, <1>3, IsMemory

\* A chunk that has just been filled may be as long as Capacity.
LEMMA SealType ==
  ASSUME NEW m \in MemoryRecords, m.tail = 0 \/ m.nextSeq > 0
  PROVE  Seal(m) \in Memories /\ Seal(m).tail = 0 /\ Seal(m).samples = m.samples
<1>1. CASE m.tail = 0
  <2>1. m.tail < Capacity
    BY <1>1, SessionRecorderAssumption
  <2> QED BY <1>1, <2>1, IsMemory DEF Seal
<1>2. CASE m.tail # 0
  <2> DEFINE pending == Append(m.pending, Pending(Chunk(m.nextSeq - 1, m.tail)))
  <2>1. m.nextSeq - 1 \in Nat /\ m.tail \in Nat
    BY <1>2 DEF MemoryRecords
  <2>2. Pending(Chunk(m.nextSeq - 1, m.tail)) \in PendingChunks
    BY <2>1, SessionRecorderAssumption DEF Pending, Chunk, Chunks, PendingChunks
  <2>3. pending \in Seq(PendingChunks)
    BY <2>2 DEF MemoryRecords
  <2>4. Seal(m) = [m EXCEPT !.tail = 0, !.pending = pending]
    BY <1>2 DEF Seal
  <2> HIDE DEF pending
  <2> QED BY <2>3, <2>4, WithPending
<1> QED BY <1>1, <1>2

LEMMA MemoryFields ==
  ASSUME NEW m \in Memories
  PROVE  /\ m \in MemoryRecords
         /\ m.tail = 0 \/ m.nextSeq > 0
         /\ m.tail \in Nat /\ m.tail < Capacity
         /\ m.nextSeq \in Nat
         /\ m.samples \in 0 .. MaxRows
  BY DEF Memories, MemoryRecords

LEMMA AppendRowType ==
  ASSUME NEW m \in Memories, NEW split \in BOOLEAN, m.samples < MaxRows
  PROVE  AppendRow(m, split) \in Memories
<1> DEFINE ready == IF split THEN Seal(m) ELSE m
           seq == IF ready.tail = 0 THEN ready.nextSeq + 1 ELSE ready.nextSeq
           grown == [ready EXCEPT !.tail = ready.tail + 1, !.nextSeq = seq,
                                  !.samples = ready.samples + 1]
<1>1. ready \in Memories /\ ready.samples = m.samples
  BY SealType, MemoryFields
<1>2. /\ ready \in MemoryRecords
      /\ ready.tail = 0 \/ ready.nextSeq > 0
      /\ ready.tail \in Nat /\ ready.nextSeq \in Nat
  BY <1>1, MemoryFields
<1>3. ready.samples + 1 \in 0 .. MaxRows
  BY <1>1, SessionRecorderAssumption, MemoryFields
<1>7. seq \in Nat /\ seq > 0 /\ ready.tail + 1 \in Nat
  BY <1>2
<1> HIDE DEF ready, seq
<1>8. grown \in MemoryRecords
  BY <1>2, <1>3, <1>7 DEF MemoryRecords
<1>9. grown.nextSeq = seq /\ grown.tail = ready.tail + 1
  BY <1>2 DEF MemoryRecords
<1>4. /\ grown \in MemoryRecords
      /\ grown.nextSeq > 0
      /\ grown.tail \in Nat
  BY <1>7, <1>8, <1>9
<1>10. AppendRow(m, split) = IF grown.tail >= Capacity THEN Seal(grown) ELSE grown
  BY DEF AppendRow, Full, ready, seq
<1> HIDE DEF grown
<1>5. CASE grown.tail >= Capacity
  BY <1>4, <1>5, <1>10, SealType
<1>6. CASE ~(grown.tail >= Capacity)
  <2>1. grown.tail < Capacity
    BY <1>4, <1>6, SessionRecorderAssumption
  <2> QED BY <1>4, <1>6, <1>10, <2>1, IsMemory
<1> QED BY <1>5, <1>6

LEMMA RequestFlushType ==
  ASSUME NEW m \in Memories
  PROVE  RequestFlush(m) \in Memories
  BY DEF RequestFlush, Memories, MemoryRecords

LEMMA NotedMemoryType ==
  ASSUME NEW r \in Recorders, NEW m \in Memories, NEW frame \in Frames,
         frame.split => RowDue(r, m, frame)
  PROVE  NotedMemory(r, m, frame) \in Memories
<1> DEFINE row == RowDue(r, m, frame)
           written == IF row THEN AppendRow(m, frame.split) ELSE m
           flushed == IF row /\ Sealed(m, frame.split) THEN RequestFlush(written)
                                                       ELSE written
           files == FilesWarning(r, m, frame)
           noted == [flushed EXCEPT !.alerting = frame.fault,
                                    !.warned = IF files THEN @ + 1 ELSE @]
<1>1. frame.split \in BOOLEAN /\ frame.fault \in BOOLEAN
  BY DEF Frames
<1>2. row => m.samples < MaxRows
  BY DEF RowDue
<1>3. written \in Memories
  BY <1>1, <1>2, AppendRowType
<1>4. written.warned = m.warned
  <2>1. \A x \in MemoryRecords : Seal(x).warned = x.warned
    BY DEF Seal, MemoryRecords
  <2>2. m \in MemoryRecords
    BY DEF Memories
  <2> QED BY <2>1, <2>2 DEF AppendRow, Seal, MemoryRecords
<1>5. flushed \in Memories /\ flushed.warned = m.warned
  <2>1. written \in MemoryRecords
    BY <1>3 DEF Memories
  <2> HIDE DEF written
  <2>2. RequestFlush(written) \in Memories
    BY <1>3, RequestFlushType
  <2>3. RequestFlush(written).warned = written.warned
    BY <2>1 DEF RequestFlush, MemoryRecords
  <2> QED BY <1>3, <1>4, <2>2, <2>3
<1>6. m.warned \in 0 .. MaxWarnings
  BY DEF Memories, MemoryRecords
<1>7. files => m.warned + 1 \in 0 .. MaxWarnings
  BY <1>6, SessionRecorderAssumption DEF FilesWarning
<1> HIDE DEF flushed, files
<1>8. noted \in Memories
  BY <1>1, <1>5, <1>6, <1>7 DEF Memories, MemoryRecords
<1> QED BY <1>5, <1>8 DEF NotedMemory, flushed, files

LEMMA NotedRecorderType ==
  ASSUME NEW r \in Recorders, NEW m, NEW frame, r.session \in Sessions
  PROVE  NotedRecorder(r, m, frame) \in Recorders
  BY FlushType, EnqueueType, JobTypes DEF NotedRecorder

LEMMA OpenedType ==
  ASSUME NEW t, NEW r \in Recorders, NEW s \in Sessions, NEW identified \in BOOLEAN
  PROVE  /\ Opened(t, r, s, identified) \in Recorders
         /\ Opened(t, r, s, identified).session = s
<1> DEFINE begun == [r EXCEPT !.session = s, !.failure = FALSE, !.archiveLost = FALSE]
<1>1. begun \in Recorders /\ begun.session = s
  BY DEF Recorders
<1> HIDE DEF begun
<1>2. ASSUME NEW q \in Recorders, q.session = s, NEW job \in Jobs
      PROVE  Enqueue(q, job) \in Recorders /\ Enqueue(q, job).session = s
  BY <1>2, EnqueueType DEF Enqueue, Recorders
<1>3. OpenJob(s) \in Jobs /\ DeviceJob(s) \in Jobs
  BY JobTypes
<1> DEFINE opened == Enqueue(begun, OpenJob(s))
<1>4. opened \in Recorders /\ opened.session = s
  BY <1>1, <1>2, <1>3
<1> HIDE DEF opened
<1>5. /\ Enqueue(opened, DeviceJob(s)) \in Recorders
      /\ Enqueue(opened, DeviceJob(s)).session = s
  BY <1>2, <1>3, <1>4
<1> QED BY <1>4, <1>5 DEF Opened, opened, begun

LEMMA SealIfEndedType ==
  ASSUME TypeOK, NEW t \in Tabs, NEW ended \in BOOLEAN,
         ended => recorder[t].session # NoSession
  PROVE  SealIfEnded(t, ended) \in [Sessions -> Memories]
<1>1. memory \in [Sessions -> Memories]
  BY DEF TypeOK
<1>2. CASE ended
  <2>1. recorder[t].session \in Sessions
    BY <1>2 DEF TypeOK, Recorders
  <2>2. Seal(memory[recorder[t].session]) \in Memories
    BY <1>1, <2>1, SealType, MemoryFields
  <2> QED BY <1>1, <1>2, <2>2 DEF SealIfEnded
<1> QED BY <1>1, <1>2 DEF SealIfEnded

LEMMA FollowedType ==
  ASSUME TypeOK, NEW t \in Tabs
  PROVE  /\ recorder[t] \in Recorders
         /\ Followed(t) \in Recorders
         /\ SealIfEnded(t, ArchiveReturned(t)) \in [Sessions -> Memories]
<1>1. recorder[t] \in Recorders
  BY DEF TypeOK
<1>2. Followed(t) \in Recorders
  BY <1>1, FollowArchiveType DEF Followed
<1>3. ArchiveReturned(t) \in BOOLEAN
  BY <1>1 DEF ArchiveReturned, Recorders
<1>4. ArchiveReturned(t) => recorder[t].session # NoSession
  BY DEF ArchiveReturned
<1> QED BY <1>1, <1>2, <1>3, <1>4, SealIfEndedType

LEMMA PostedType ==
  ASSUME TypeOK, NEW t \in Tabs
  PROVE  Posted(t) \in [Tabs -> 0 .. MaxMail]
  BY SessionRecorderAssumption DEF TypeOK, Posted

-----------------------------------------------------------------------------
(* Type correctness, action by action. *)

\* A synchronous call changes the recorder, its session and little else.
LEMMA CallType ==
  ASSUME TypeOK, UNCHANGED Elsewhere,
         recorder' \in [Tabs -> Recorders],
         memory' \in [Sessions -> Memories],
         counted' \in [Sessions -> BOOLEAN],
         mail' \in [Tabs -> 0 .. MaxMail]
  PROVE  TypeOK'
  BY DEF TypeOK, Elsewhere

LEMMA TypeFacts ==
  ASSUME TypeOK
  PROVE  /\ recorder \in [Tabs -> Recorders]
         /\ memory \in [Sessions -> Memories]
         /\ counted \in [Sessions -> BOOLEAN]
         /\ mail \in [Tabs -> 0 .. MaxMail]
         /\ \A t \in Tabs : recorder[t].session # NoSession
                              => recorder[t].session \in Sessions
  BY DEF TypeOK, Recorders

\* The function with one recorder or one session object replaced.
LEMMA ReplaceRecorder ==
  ASSUME NEW f \in [Tabs -> Recorders], NEW t \in Tabs, NEW r \in Recorders
  PROVE  [f EXCEPT ![t] = r] \in [Tabs -> Recorders]
  OBVIOUS

LEMMA ReplaceMemory ==
  ASSUME NEW f \in [Sessions -> Memories], NEW s \in Sessions, NEW m \in Memories
  PROVE  [f EXCEPT ![s] = m] \in [Sessions -> Memories]
  OBVIOUS

LEMMA ObserveType ==
  ASSUME TypeOK, NEW t \in Tabs, Observe(t)
  PROVE  TypeOK'
<1> DEFINE after == Followed(t)
           ended == SealIfEnded(t, ArchiveReturned(t))
<1>1. /\ after \in Recorders
      /\ ended \in [Sessions -> Memories]
  BY FollowedType
<1>2. UNCHANGED <<mail, Elsewhere>>
  BY DEF Observe
<1>3. ASSUME after.session # NoSession,
             NEW frame \in Frames,
             LET m == memory[after.session] IN
               /\ frame.split => m.tail > 0 /\ RowDue(after, m, frame)
               /\ recorder' = [recorder EXCEPT ![t] = NotedRecorder(after, m, frame)]
               /\ memory' = [memory EXCEPT
                               ![after.session] = NotedMemory(after, m, frame)],
             UNCHANGED counted
      PROVE  TypeOK'
  <2>1. after.session \in Sessions
    BY <1>1, <1>3 DEF Recorders
  <2>2. memory[after.session] \in Memories
    BY <2>1, TypeFacts
  <2>3. NotedMemory(after, memory[after.session], frame) \in Memories
    BY <1>1, <1>3, <2>2, NotedMemoryType
  <2>4. NotedRecorder(after, memory[after.session], frame) \in Recorders
    BY <1>1, <2>1, NotedRecorderType
  <2>5. recorder' \in [Tabs -> Recorders] /\ memory' \in [Sessions -> Memories]
    BY <1>3, <2>1, <2>3, <2>4, TypeFacts, ReplaceRecorder, ReplaceMemory
  <2> QED BY <1>2, <1>3, <2>5, TypeFacts, CallType
<1>4. ASSUME NEW s \in Sessions, NEW identified \in BOOLEAN, NEW frame \in Frames,
             frame.due /\ ~frame.split,
             LET r == Opened(t, after, s, identified)
                 m == NewSession(lease = t, identified)
             IN  /\ recorder' = [recorder EXCEPT ![t] = NotedRecorder(r, m, frame)]
                 /\ memory' = [ended EXCEPT ![s] = NotedMemory(r, m, frame)]
                 /\ counted' = [counted EXCEPT ![s] = FALSE]
      PROVE  TypeOK'
  <2> DEFINE r == Opened(t, after, s, identified)
             m == NewSession(lease = t, identified)
  <2>1. r \in Recorders /\ r.session = s
    BY <1>1, OpenedType
  <2>2. m \in Memories
    BY NewSessionType
  <2>3. NotedMemory(r, m, frame) \in Memories
    BY <1>4, <2>1, <2>2, NotedMemoryType
  <2>4. NotedRecorder(r, m, frame) \in Recorders
    BY <2>1, NotedRecorderType
  <2>5. recorder' \in [Tabs -> Recorders] /\ memory' \in [Sessions -> Memories]
    BY <1>1, <1>4, <2>3, <2>4, TypeFacts, ReplaceRecorder, ReplaceMemory
  <2>6. counted' \in [Sessions -> BOOLEAN]
    BY <1>4, TypeFacts
  <2> QED BY <1>2, <2>5, <2>6, TypeFacts, CallType
<1>5. ASSUME recorder' = [recorder EXCEPT ![t] = after],
             memory' = ended,
             UNCHANGED counted
      PROVE  TypeOK'
  <2>1. recorder' \in [Tabs -> Recorders]
    BY <1>1, <1>5, TypeFacts, ReplaceRecorder
  <2> QED BY <1>1, <1>2, <1>5, <2>1, TypeFacts, CallType
<1> QED BY <1>3, <1>4, <1>5 DEF Observe

\* endPackStream, checkpoint, and a tick that only flushes.
LEMMA FlushStepType ==
  ASSUME TypeOK, NEW t \in Tabs, NEW r \in Recorders, NEW m \in Memories,
         r.session \in Sessions,
         recorder' = [recorder EXCEPT ![t] = Flush(r, memory[r.session])],
         memory' = [memory EXCEPT ![r.session] = RequestFlush(m)],
         UNCHANGED <<counted, mail, Elsewhere>>
  PROVE  TypeOK'
<1>1. Flush(r, memory[r.session]) \in Recorders /\ RequestFlush(m) \in Memories
  BY FlushType, RequestFlushType
<1>2. recorder' \in [Tabs -> Recorders] /\ memory' \in [Sessions -> Memories]
  BY <1>1, TypeFacts, ReplaceRecorder, ReplaceMemory
<1> QED BY <1>2, TypeFacts, CallType

LEMMA EndStreamType ==
  ASSUME TypeOK, NEW t \in Tabs, EndStream(t)
  PROVE  TypeOK'
<1> DEFINE r == recorder[t]
<1>1. r \in Recorders /\ r.session \in Sessions /\ memory[r.session] \in Memories
  BY TypeFacts DEF EndStream
<1>2. Seal(memory[r.session]) \in Memories
  BY <1>1, SealType, MemoryFields
<1> QED BY <1>1, <1>2, FlushStepType DEF EndStream

LEMMA CheckpointType ==
  ASSUME TypeOK, NEW t \in Tabs, Checkpoint(t)
  PROVE  TypeOK'
<1>1. /\ recorder[t] \in Recorders /\ recorder[t].session \in Sessions
      /\ memory[recorder[t].session] \in Memories
  BY TypeFacts DEF Checkpoint
<1> QED BY <1>1, FlushStepType DEF Checkpoint

LEMMA TickType ==
  ASSUME TypeOK, NEW t \in Tabs, Tick(t)
  PROVE  TypeOK'
<1> DEFINE after == Followed(t)
           s == after.session
<1>1. after \in Recorders
  BY FollowedType
<1>2. UNCHANGED <<counted, mail, Elsewhere>> /\ recorder[t].session # NoSession
  BY DEF Tick
<1>3. CASE s = NoSession /\ recorder' = [recorder EXCEPT ![t] = after]
           /\ memory' = SealIfEnded(t, TRUE)
  <2>1. memory' \in [Sessions -> Memories]
    BY <1>2, <1>3, SealIfEndedType
  <2>2. recorder' \in [Tabs -> Recorders]
    BY <1>1, <1>3, TypeFacts, ReplaceRecorder
  <2> QED BY <1>2, <2>1, <2>2, TypeFacts, CallType
<1>4. CASE s # NoSession /\ recorder' = [recorder EXCEPT ![t] = Finish(after)]
           /\ memory' = [memory EXCEPT ![s] = Seal(@)]
  <2>1. s \in Sessions
    BY <1>1, <1>4 DEF Recorders
  <2>2. Seal(memory[s]) \in Memories
    BY <2>1, TypeFacts, SealType, MemoryFields
  <2>3. memory' \in [Sessions -> Memories]
    BY <1>4, <2>1, <2>2, TypeFacts, ReplaceMemory
  <2>4. recorder' \in [Tabs -> Recorders]
    BY <1>1, <1>4, FinishType, TypeFacts, ReplaceRecorder
  <2> QED BY <1>2, <2>3, <2>4, TypeFacts, CallType
<1>5. CASE s # NoSession /\ recorder' = [recorder EXCEPT ![t] = Flush(after, memory[s])]
           /\ memory' = [memory EXCEPT ![s] = RequestFlush(@)]
  <2>1. s \in Sessions
    BY <1>1, <1>5 DEF Recorders
  <2>2. memory[s] \in Memories
    BY <2>1, TypeFacts
  <2> QED BY <1>1, <1>2, <1>5, <2>1, <2>2, FlushStepType
<1> QED BY <1>3, <1>4, <1>5 DEF Tick

LEMMA EndWatchType ==
  ASSUME TypeOK, NEW t \in Tabs, EndWatch(t)
  PROVE  TypeOK'
<1>1. Finish(recorder[t]) \in Recorders
  BY TypeFacts, FinishType
<1>2. recorder' \in [Tabs -> Recorders]
  BY <1>1, TypeFacts, ReplaceRecorder DEF EndWatch
<1>3. memory' \in [Sessions -> Memories]
  BY SealIfEndedType DEF EndWatch
<1> QED BY <1>2, <1>3, TypeFacts, CallType DEF EndWatch

LEMMA IdentifyType ==
  ASSUME TypeOK, NEW t \in Tabs, Identify(t)
  PROVE  TypeOK'
<1> DEFINE r == recorder[t]
<1>1. r \in Recorders /\ r.session \in Sessions /\ memory[r.session] \in Memories
  BY TypeFacts DEF Identify
<1>2. Enqueue(r, DeviceJob(r.session)) \in Recorders
  BY <1>1, EnqueueType, JobTypes
<1>3. recorder' \in [Tabs -> Recorders]
  BY <1>1, <1>2, TypeFacts, ReplaceRecorder DEF Identify
<1>4. [memory[r.session] EXCEPT !.deviceCounted = TRUE] \in Memories
  BY <1>1 DEF Memories, MemoryRecords
<1>5. memory' \in [Sessions -> Memories]
  BY <1>1, <1>4, TypeFacts DEF Identify
<1> QED BY <1>3, <1>5, TypeFacts, CallType DEF Identify

LEMMA DeviceChangedType ==
  ASSUME TypeOK, NEW t \in Tabs, DeviceChanged(t)
  PROVE  TypeOK'
<1> DEFINE ended == SealIfEnded(t, TRUE)
           r == Finish(recorder[t])
<1>1. r \in Recorders /\ ended \in [Sessions -> Memories]
  BY TypeFacts, FinishType, SealIfEndedType DEF DeviceChanged
<1>2. UNCHANGED <<mail, Elsewhere>>
  BY DEF DeviceChanged
<1>3. ASSUME NEW s \in Sessions,
             recorder' = [recorder EXCEPT ![t] = Opened(t, r, s, TRUE)],
             memory' = [ended EXCEPT ![s] = NewSession(lease = t, TRUE)],
             counted' = [counted EXCEPT ![s] = FALSE]
      PROVE  TypeOK'
  <2>1. recorder' \in [Tabs -> Recorders]
    BY <1>1, <1>3, OpenedType, TypeFacts, ReplaceRecorder
  <2>2. NewSession(lease = t, TRUE) \in Memories
    BY NewSessionType
  <2>3. memory' \in [Sessions -> Memories]
    BY <1>1, <1>3, <2>2, ReplaceMemory
  <2>4. counted' \in [Sessions -> BOOLEAN]
    BY <1>3, TypeFacts
  <2> QED BY <1>2, <2>1, <2>3, <2>4, TypeFacts, CallType
<1>4. ASSUME recorder' = [recorder EXCEPT ![t] = r], memory' = ended,
             UNCHANGED counted
      PROVE  TypeOK'
  <2>1. recorder' \in [Tabs -> Recorders]
    BY <1>1, <1>4, TypeFacts, ReplaceRecorder
  <2> QED BY <1>1, <1>2, <1>4, <2>1, TypeFacts, CallType
<1> QED BY <1>3, <1>4 DEF DeviceChanged

LEMMA HoldType ==
  ASSUME TypeOK, NEW t \in Tabs, HoldOpenForRejoin(t) \/ ReleaseRejoinHold(t)
  PROVE  TypeOK'
<1> DEFINE r(held) == [recorder[t] EXCEPT !.held = held]
<1>1. \A held \in BOOLEAN : r(held) \in Recorders
  <2> DEFINE a == recorder[t]
  <2>1. a \in Recorders
    BY TypeFacts
  <2> HIDE DEF a
  <2>2. \A held \in BOOLEAN : [a EXCEPT !.held = held] \in Recorders
    BY <2>1 DEF Recorders
  <2> QED BY <2>2 DEF a
<1>2. recorder' = [recorder EXCEPT ![t] = r(TRUE)] \/ recorder' = [recorder EXCEPT ![t] = r(FALSE)]
  <2>1. CASE HoldOpenForRejoin(t)
    BY <2>1 DEF HoldOpenForRejoin
  <2>2. CASE ReleaseRejoinHold(t)
    BY <2>2 DEF ReleaseRejoinHold
  <2> QED BY <2>1, <2>2
<1> HIDE DEF r
<1>3. recorder' \in [Tabs -> Recorders]
  BY <1>1, <1>2, TypeFacts, ReplaceRecorder
<1> QED BY <1>3, TypeFacts, CallType DEF HoldOpenForRejoin, ReleaseRejoinHold

LEMMA RetryType ==
  ASSUME TypeOK, NEW t \in Tabs, RetryIntervalEnds(t)
  PROVE  TypeOK'
<1>1. [recorder[t] EXCEPT !.refusal = "due"] \in Recorders
  BY TypeFacts DEF Recorders
<1>2. recorder' \in [Tabs -> Recorders]
  BY <1>1, TypeFacts, ReplaceRecorder DEF RetryIntervalEnds
<1> QED BY <1>2, TypeFacts, CallType DEF RetryIntervalEnds

LEMMA AnnouncedType ==
  ASSUME NEW r \in Recorders
  PROVE  [r EXCEPT !.announced = TRUE] \in Recorders
  BY DEF Recorders

LEMMA HearType ==
  ASSUME TypeOK, NEW t \in Tabs, HearAnnouncement(t)
  PROVE  TypeOK'
<1> DEFINE told == [recorder[t] EXCEPT !.announced = TRUE]
<1>1. told \in Recorders
  BY TypeFacts, AnnouncedType
<1>2. FollowArchive(told, store[t] = "usable") \in Recorders
  BY <1>1, FollowArchiveType
<1>3. recorder' \in [Tabs -> Recorders]
  BY <1>2, TypeFacts, ReplaceRecorder DEF HearAnnouncement
<1>4. memory' \in [Sessions -> Memories]
  BY FollowedType DEF HearAnnouncement
<1>5. mail[t] - 1 \in 0 .. MaxMail
  BY SessionRecorderAssumption DEF TypeOK, HearAnnouncement
<1>6. mail' \in [Tabs -> 0 .. MaxMail]
  BY <1>5, TypeFacts DEF HearAnnouncement
<1> QED BY <1>3, <1>4, <1>6, TypeFacts, CallType DEF HearAnnouncement

LEMMA MishapType ==
  ASSUME TypeOK, NEW fault, Mishap(fault)
  PROVE  mishaps' \in 0 .. MaxMishaps
  BY SessionRecorderAssumption DEF TypeOK, Mishap, MayFail

LEMMA DisposeType ==
  ASSUME TypeOK, NEW t \in Tabs, Dispose(t)
  PROVE  TypeOK'
<1> DEFINE r == recorder[t]
<1>1. mishaps' \in 0 .. MaxMishaps
  BY MishapType DEF Dispose
<1>2. recorder' \in [Tabs -> Recorders] /\ memory' \in [Sessions -> Memories]
  <2>1. CASE r.session = NoSession
    BY <2>1, TypeFacts DEF Dispose
  <2>2. CASE r.session # NoSession
    <3>1. r \in Recorders /\ r.session \in Sessions /\ memory[r.session] \in Memories
      BY <2>2, TypeFacts
    <3>2. Stop(Flush(r, memory[r.session])) \in Recorders
      BY <3>1, FlushType, StopType
    <3>3. RequestFlush(memory[r.session]) \in Memories
      BY <3>1, RequestFlushType
    <3> QED BY <2>2, <3>1, <3>2, <3>3, TypeFacts, ReplaceRecorder, ReplaceMemory DEF Dispose
  <2> QED BY <2>1, <2>2
<1>3. phase' \in [Tabs -> {"gone", "live", "disposed"}] /\ lease' \in Tabs \cup {NoTab}
  BY DEF Dispose, Released, TypeOK
<1> QED BY <1>1, <1>2, <1>3 DEF Dispose, TypeOK

-----------------------------------------------------------------------------
(* The steps of the promise chain. *)

\* A job that runs has a recorder, a session and a session object.
LEMMA AtStepFacts ==
  ASSUME TypeOK, NEW t \in Tabs, NEW kind, NEW step, AtStep(t, kind, step)
  PROVE  /\ recorder[t] \in Recorders
         /\ recorder[t].chain # <<>>
         /\ JobSession(t) \in Sessions
         /\ memory[JobSession(t)] \in Memories
<1>1. recorder[t] \in Recorders /\ recorder[t].chain # <<>>
  BY TypeFacts DEF AtStep
<1>2. Head(recorder[t].chain) \in Jobs
  BY <1>1 DEF Recorders
<1>3. JobSession(t) \in Sessions
  BY <1>2 DEF JobSession, Jobs
<1> QED BY <1>1, <1>3, TypeFacts

\* What a commit holds of a session object.
LEMMA CommitType ==
  ASSUME NEW m \in Memories, NEW head \in BOOLEAN, NEW chunk \in Chunks
  PROVE  Commit(head, chunk, m) \in Commits
  BY DEF Commit, Commits, Memories, MemoryRecords

LEMMA ReplaceCommit ==
  ASSUME TypeOK, NEW t \in Tabs, NEW c \in Commits
  PROVE  [inflight EXCEPT ![t] = c] \in [Tabs -> Commits]
  BY DEF TypeOK

LEMMA NoCommitType == NoCommit \in Commits
  BY SessionRecorderAssumption DEF NoCommit, Commits, Chunk, Chunks

LEMMA WriteEndsType ==
  ASSUME TypeOK, NEW t \in Tabs, NEW r \in Recorders, r.chain # <<>>, WriteEnds(t, r)
  PROVE  recorder' \in [Tabs -> Recorders] /\ inflight' \in [Tabs -> Commits]
<1> DEFINE next == IF Head(r.chain).kind = "flush" THEN "loop" ELSE "close"
<1>1. next \in Steps
  BY DEF Steps
<1>2. recorder' = [recorder EXCEPT ![t] = Step(r, next)]
  BY DEF WriteEnds
<1> HIDE DEF next
<1>3. Step(r, next) \in Recorders
  BY <1>1, StepType
<1>4. inflight' \in [Tabs -> Commits]
  BY NoCommitType, ReplaceCommit DEF WriteEnds
<1> QED BY <1>2, <1>3, <1>4, TypeFacts, ReplaceRecorder

LEMMA WritePendingType ==
  ASSUME TypeOK, NEW t \in Tabs, NEW r \in Recorders, r.chain # <<>>,
         NEW m \in Memories, WritePending(t, r, m)
  PROVE  recorder' \in [Tabs -> Recorders] /\ inflight' \in [Tabs -> Commits]
<1>1. CASE WriteOn(t, r, m)
  <2>1. Step(r, "commit") \in Recorders
    BY StepType DEF Steps
  <2>2. recorder' \in [Tabs -> Recorders]
    BY <1>1, <2>1, TypeFacts, ReplaceRecorder DEF WriteOn
  <2>3. ASSUME m.pending # <<>>,
               inflight' = [inflight EXCEPT ![t] = Commit(TRUE, Head(m.pending).chunk, m)]
        PROVE  inflight' \in [Tabs -> Commits]
    <3>1. m.pending \in Seq(PendingChunks)
      BY DEF Memories, MemoryRecords
    <3>2. Head(m.pending) \in PendingChunks
      BY <2>3, <3>1
    <3>3. Head(m.pending).chunk \in Chunks
      BY <3>2 DEF PendingChunks
    <3> QED BY <2>3, <3>3, CommitType, ReplaceCommit
  <2>4. ASSUME m.tail > 0,
               inflight' = [inflight EXCEPT ![t] = Commit(FALSE, Chunk(m.nextSeq - 1, m.tail), m)]
        PROVE  inflight' \in [Tabs -> Commits]
    <3>1. Chunk(m.nextSeq - 1, m.tail) \in Chunks
      BY <2>4, MemoryFields DEF Chunk, Chunks
    <3> QED BY <2>4, <3>1, CommitType, ReplaceCommit
  <2> QED BY <1>1, <2>2, <2>3, <2>4 DEF WriteOn
<1>2. CASE WriteEnds(t, r)
  BY <1>2, WriteEndsType
<1> QED BY <1>1, <1>2 DEF WritePending

\* A job that ends and changes nothing else of the recorder.
LEMMA DoneStepType ==
  ASSUME TypeOK, NEW t \in Tabs, NEW kind, NEW step, AtStep(t, kind, step),
         recorder' = [recorder EXCEPT ![t] = Done(recorder[t])]
  PROVE  recorder' \in [Tabs -> Recorders]
  BY AtStepFacts, DoneType, TypeFacts, ReplaceRecorder

LEMMA ArchiveFacts ==
  ASSUME TypeOK
  PROVE  /\ archive \in [Sessions -> Records]
         /\ Absent \in Records
         /\ [Absent EXCEPT !.state = "open"] \in Records
         /\ \A s \in Sessions : [archive EXCEPT ![s] = Absent] \in [Sessions -> Records]
<1>1. archive \in [Sessions -> Records]
  BY DEF TypeOK
<1>2. Absent \in Records
  BY SessionRecorderAssumption DEF Absent, Records
<1>3. [Absent EXCEPT !.state = "open"] \in Records
  BY <1>2 DEF Records
<1> QED BY <1>1, <1>2, <1>3

LEMMA LeavesFacts ==
  ASSUME TypeOK, NEW rows \in [Sessions -> Records],
         NEW full \in [Sessions -> SUBSET Nat], NEW less \in [Sessions -> SUBSET Nat],
         NEW filed \in [Sessions -> Nat],
         Leaves(rows, full, less, filed) \/ LeavesPruned(rows, full, less, filed)
  PROVE  /\ ArchiveTyped'
         /\ \A z \in Sessions :
              \/ /\ archive'[z] = rows[z] /\ sealed'[z] = full[z]
                 /\ less[z] \subseteq cut'[z] /\ cut'[z] \subseteq less[z] \cup full[z]
              \/ /\ Settled(rows[z])
                 /\ archive'[z] = Absent /\ sealed'[z] = {} /\ cut'[z] = {}
<1>1. CASE Leaves(rows, full, less, filed)
  BY <1>1 DEF Leaves, ArchiveTyped
<1>2. CASE LeavesPruned(rows, full, less, filed)
  <2>1. PICK evicted \in SUBSET {s \in Sessions : Settled(rows[s])},
             taken \in SUBSET Cuttable(full) :
          /\ archive' = [s \in Sessions |-> IF s \in evicted THEN Absent ELSE rows[s]]
          /\ sealed' = [s \in Sessions |-> IF s \in evicted THEN {} ELSE full[s]]
          /\ cut' = [s \in Sessions |-> IF s \in evicted THEN {}
                       ELSE less[s] \cup {q \in Seqs : <<s, q>> \in taken}]
          /\ warnings' = [s \in Sessions |-> IF s \in evicted THEN 0 ELSE filed[s]]
    BY <1>2 DEF LeavesPruned, Leaves
  <2>2. \A s \in Sessions, q \in Seqs : <<s, q>> \in taken => q \in full[s]
    BY <2>1 DEF Cuttable
  <2>3. Absent \in Records
    BY ArchiveFacts
  <2>4. /\ archive' \in [Sessions -> Records] /\ sealed' \in [Sessions -> SUBSET Nat]
        /\ warnings' \in [Sessions -> Nat]
    BY <2>1, <2>3
  <2>5. \A z \in Sessions : {q \in Seqs : <<z, q>> \in taken} \subseteq full[z]
    BY <2>2
  <2>6. cut' \in [Sessions -> SUBSET Nat]
    BY <2>1, <2>5
  <2> QED BY <2>1, <2>4, <2>5, <2>6 DEF ArchiveTyped
<1> QED BY <1>1, <1>2

LEMMA ArchiveIsTyped ==
  ASSUME TypeOK
  PROVE  ArchiveTyped
  BY DEF TypeOK, ArchiveTyped

LEMMA RemovedFacts ==
  ASSUME TypeOK, NEW s \in Sessions, Removed(s)
  PROVE  /\ ArchiveTyped'
         /\ archive' = [archive EXCEPT ![s] = Absent]
         /\ archive'[s] = Absent /\ sealed'[s] = {} /\ cut'[s] = {}
         /\ \A z \in Sessions \ {s} : Spared(z)
<1>1. Absent \in Records /\ ArchiveTyped
  BY ArchiveFacts, ArchiveIsTyped
<1> QED BY <1>1 DEF Removed, Leaves, ArchiveTyped, Spared

LEMMA ClaimGrantedType ==
  ASSUME TypeOK, NEW t \in Tabs, ClaimGranted(t)
  PROVE  TypeOK'
<1> DEFINE r == recorder[t]
           s == JobSession(t)
<1>1. r \in Recorders /\ r.chain # <<>> /\ s \in Sessions /\ memory[s] \in Memories
  BY AtStepFacts DEF ClaimGranted
<1>2. Step(r, "put") \in Recorders
  BY <1>1, StepType DEF Steps
<1>3. [Step(r, "put") EXCEPT !.refusal = "none", !.announced = FALSE] \in Recorders
  BY <1>2 DEF Recorders
<1>4. recorder' \in [Tabs -> Recorders]
  BY <1>3, TypeFacts, ReplaceRecorder DEF ClaimGranted
<1>5. [memory[s] EXCEPT !.leased = TRUE] \in Memories
  BY <1>1 DEF Memories, MemoryRecords
<1>6. memory' \in [Sessions -> Memories]
  BY <1>1, <1>5, TypeFacts, ReplaceMemory DEF ClaimGranted
<1> QED BY <1>4, <1>6 DEF ClaimGranted, TypeOK

LEMMA ClaimRefusedType ==
  ASSUME TypeOK, NEW t \in Tabs, ClaimRefused(t)
  PROVE  TypeOK'
<1> DEFINE r == recorder[t]
           s == JobSession(t)
<1>1. r \in Recorders /\ r.chain # <<>> /\ s \in Sessions
  BY AtStepFacts DEF ClaimRefused
<1>2. StandDown(r, s) \in Recorders /\ StandDown(r, s).chain = r.chain
  BY <1>1, StandDownType DEF StandDown, Stop, Recorders
<1>3. Done(StandDown(r, s)) \in Recorders
  BY <1>1, <1>2, DoneType
<1>4. recorder' \in [Tabs -> Recorders]
  BY <1>3, TypeFacts, ReplaceRecorder DEF ClaimRefused
<1>5. mishaps' \in 0 .. MaxMishaps
  BY SessionRecorderAssumption DEF ClaimRefused, MayFail, TypeOK
<1> QED BY <1>4, <1>5 DEF ClaimRefused, TypeOK

LEMMA PutSessionType ==
  ASSUME TypeOK, NEW t \in Tabs, PutSession(t)
  PROVE  TypeOK'
<1>1. JobSession(t) \in Sessions
  BY AtStepFacts DEF PutSession
<1>2. recorder' \in [Tabs -> Recorders]
  BY DoneStepType DEF PutSession
<1>3. archive' \in [Sessions -> Records]
  BY <1>1, ArchiveFacts DEF PutSession
<1>4. mail' \in [Tabs -> 0 .. MaxMail]
  BY PostedType, TypeFacts DEF PutSession
<1>5. lease' \in Tabs \cup {NoTab}
  BY DEF PutSession, Released, TypeOK
<1> QED BY <1>2, <1>3, <1>4, <1>5 DEF PutSession, TypeOK

LEMMA UpsertDeviceType ==
  ASSUME TypeOK, NEW t \in Tabs, UpsertDevice(t)
  PROVE  TypeOK'
<1>1. recorder' \in [Tabs -> Recorders]
  BY DoneStepType DEF UpsertDevice
<1>2. counted' \in [Sessions -> BOOLEAN]
  BY TypeFacts DEF UpsertDevice
<1> QED BY <1>1, <1>2 DEF UpsertDevice, TypeOK

LEMMA AppendWarningType ==
  ASSUME TypeOK, NEW t \in Tabs, AppendWarning(t)
  PROVE  TypeOK'
<1> DEFINE r == recorder[t]
           told == [r EXCEPT !.announced = TRUE]
<1>1. r \in Recorders /\ r.chain # <<>> /\ JobSession(t) \in Sessions
  BY AtStepFacts DEF AppendWarning
<1>2. FollowArchive(told, TRUE) \in Recorders
  BY <1>1, AnnouncedType, FollowArchiveType
<1>3. FollowArchive(told, TRUE).chain # <<>>
  BY <1>1 DEF FollowArchive, Finish, Stop, Enqueue, Recorders
<1>4. Done(r) \in Recorders /\ Done(FollowArchive(told, TRUE)) \in Recorders
  BY <1>1, <1>2, <1>3, DoneType
<1>5. recorder' \in [Tabs -> Recorders]
  BY <1>4, TypeFacts, ReplaceRecorder DEF AppendWarning
<1>6. memory' \in [Sessions -> Memories]
  BY FollowedType, TypeFacts DEF AppendWarning
<1>7. mail' \in [Tabs -> 0 .. MaxMail]
  BY PostedType, TypeFacts DEF AppendWarning
<1>8. warnings' \in [Sessions -> Nat]
  <2>1. warnings \in [Sessions -> Nat]
    BY DEF TypeOK
  <2>2. warnings' = warnings
          \/ warnings' = [warnings EXCEPT ![JobSession(t)] = warnings[JobSession(t)] + 1]
    BY DEF AppendWarning
  <2> QED BY <1>1, <2>1, <2>2
<1> QED BY <1>5, <1>6, <1>7, <1>8 DEF AppendWarning, TypeOK

LEMMA FlushPendingType ==
  ASSUME TypeOK, NEW t \in Tabs, FlushPending(t)
  PROVE  TypeOK'
<1> DEFINE s == JobSession(t)
           m == [memory[s] EXCEPT !.requested = FALSE]
<1>1. recorder[t] \in Recorders /\ recorder[t].chain # <<>> /\ s \in Sessions
      /\ memory[s] \in Memories
  BY AtStepFacts DEF FlushPending
<1>2. m \in Memories
  BY <1>1 DEF Memories, MemoryRecords
<1>3. memory' \in [Sessions -> Memories]
  BY <1>1, <1>2, TypeFacts, ReplaceMemory DEF FlushPending
<1>4. WritePending(t, recorder[t], m) \/ WriteEnds(t, recorder[t])
  BY DEF FlushPending
<1> HIDE DEF m
<1>5. recorder' \in [Tabs -> Recorders] /\ inflight' \in [Tabs -> Commits]
  BY <1>1, <1>2, <1>4, WritePendingType, WriteEndsType
<1> QED BY <1>3, <1>5 DEF FlushPending, TypeOK

LEMMA FlushEndsType ==
  ASSUME TypeOK, NEW t \in Tabs, FlushEnds(t)
  PROVE  TypeOK'
<1> DEFINE s == JobSession(t)
<1>1. s \in Sessions /\ memory[s] \in Memories
  BY AtStepFacts DEF FlushEnds
<1>2. [memory[s] EXCEPT !.writing = FALSE] \in Memories
  BY <1>1 DEF Memories, MemoryRecords
<1>3. memory' \in [Sessions -> Memories]
  BY <1>1, <1>2, TypeFacts, ReplaceMemory DEF FlushEnds
<1>4. recorder' \in [Tabs -> Recorders]
  BY DoneStepType DEF FlushEnds
<1> QED BY <1>3, <1>4, TypeFacts, CallType DEF FlushEnds

\* A commit that leaves the chain's job where WritePending or WriteEnds puts it.
LEMMA InCommitFacts ==
  ASSUME TypeOK, NEW t \in Tabs, InCommit(t)
  PROVE  /\ recorder[t] \in Recorders
         /\ recorder[t].chain # <<>>
         /\ JobSession(t) \in Sessions
         /\ memory[JobSession(t)] \in Memories
         /\ inflight[t] \in Commits
<1>1. inflight[t] \in Commits
  BY DEF TypeOK
<1> QED BY <1>1, AtStepFacts DEF InCommit

\* A chunk leaves the head of the queue.
LEMMA ShiftType ==
  ASSUME NEW m \in Memories
  PROVE  /\ [m EXCEPT !.pending = Shift(@)] \in Memories
         /\ [m EXCEPT !.pending = Shift(@), !.dropped = @ + 1] \in Memories
<1>1. m.pending \in Seq(PendingChunks) /\ m.dropped + 1 \in Nat
  BY DEF Memories, MemoryRecords
<1>2. Shift(m.pending) \in Seq(PendingChunks)
  BY <1>1 DEF Shift
<1> QED BY <1>1, <1>2 DEF Memories, MemoryRecords

\* The head of a queue replaced; an empty queue stays empty.
LEMMA ReplaceHead ==
  ASSUME NEW q \in Seq(PendingChunks), NEW p, q # <<>> => p \in PendingChunks
  PROVE  [q EXCEPT ![1] = p] \in Seq(PendingChunks)
<1> DEFINE n == [q EXCEPT ![1] = p]
<1>1. q \in [1 .. Len(q) -> PendingChunks] /\ Len(q) \in Nat
  OBVIOUS
<1>2. 1 \in 1 .. Len(q) => q # <<>>
  BY <1>1
<1>3. n \in [1 .. Len(q) -> PendingChunks]
  BY <1>1, <1>2
<1> HIDE DEF n
<1>4. n \in Seq(PendingChunks)
  BY <1>1, <1>3
<1> QED BY <1>4 DEF n

\* A refused chunk counts its attempts while it may be tried again.
LEMMA RetriedType ==
  ASSUME NEW m \in Memories, Head(m.pending).attempts + 1 < MaxAttempts
  PROVE  [m EXCEPT !.pending[1].attempts = Head(m.pending).attempts + 1] \in Memories
<1> DEFINE head == [m.pending[1] EXCEPT !.attempts = Head(m.pending).attempts + 1]
           pending == [m.pending EXCEPT ![1] = head]
<1>1. m.pending \in Seq(PendingChunks)
  BY DEF Memories, MemoryRecords
<1>4. ASSUME m.pending # <<>>
      PROVE  head \in PendingChunks
  <2>1. m.pending[1] \in PendingChunks /\ Head(m.pending) = m.pending[1]
    BY <1>1, <1>4
  <2>2. m.pending[1].attempts + 1 \in 0 .. MaxAttempts - 1
    BY <2>1, SessionRecorderAssumption DEF PendingChunks
  <2> QED BY <2>1, <2>2 DEF PendingChunks
<1>2. pending \in Seq(PendingChunks)
  <2> HIDE DEF head
  <2> QED BY <1>1, <1>4, ReplaceHead
<1>3. [m EXCEPT !.pending[1].attempts = Head(m.pending).attempts + 1]
        = [m EXCEPT !.pending = pending]
  OBVIOUS
<1> HIDE DEF pending
<1> QED BY <1>2, <1>3 DEF Memories, MemoryRecords

LEMMA CommitStoredFacts ==
  ASSUME TypeOK, NEW t \in Tabs, CommitStored(t)
  PROVE  LET s == JobSession(t) IN
         /\ s \in Sessions /\ archive[s].state = "open"
         /\ WrittenRow(t) \in Records
         /\ ArchiveTyped'
         /\ archive'[s] = WrittenRow(t) /\ sealed'[s] = WrittenFull(t)
         /\ WrittenLess(t) \subseteq cut'[s]
         /\ cut'[s] \subseteq WrittenLess(t) \cup WrittenFull(t)
         /\ \A z \in Sessions \ {s} : Spared(z) \/ Evicted(z)
<1> DEFINE s == JobSession(t)
           c == inflight[t]
           row == WrittenRow(t)
           rows == [archive EXCEPT ![s] = row]
           full == [sealed EXCEPT ![s] = WrittenFull(t)]
           less == [cut EXCEPT ![s] = WrittenLess(t)]
           chunks == [archive[s].chunks EXCEPT ![c.chunk.seq] = c.chunk.rows]
<1>1. s \in Sessions /\ c \in Commits /\ archive[s].state = "open" /\ ArchiveTyped
  BY InCommitFacts, ArchiveIsTyped DEF CommitStored
<1>2. row \in Records /\ row.state = "open"
  <2>1. archive[s] \in Records
    BY <1>1, ArchiveFacts
  <2>2. c.chunk.rows \in Nat /\ c.samples \in 0 .. MaxRows /\ c.dropped \in Nat
    BY <1>1 DEF Commits, Chunks
  <2>3. chunks \in [Seqs -> Nat]
    BY <2>1, <2>2 DEF Records
  <2>4. row = [archive[s] EXCEPT !.samples = c.samples, !.dropped = c.dropped,
                                 !.chunks = chunks]
    BY DEF WrittenRow
  <2> HIDE DEF chunks, row
  <2> QED BY <1>1, <2>1, <2>2, <2>3, <2>4 DEF Records
<1>3. WrittenFull(t) \in SUBSET Nat /\ WrittenLess(t) \in SUBSET Nat
  <2>1. c.chunk.seq \in Nat /\ sealed[s] \in SUBSET Nat /\ cut[s] \in SUBSET Nat
    BY <1>1 DEF Commits, Chunks, ArchiveTyped
  <2> QED BY <2>1 DEF WrittenFull, WrittenLess
<1>4. \/ Leaves(rows, full, less, warnings)
      \/ LeavesPruned(rows, full, less, warnings)
  BY DEF CommitStored, WrittenRow, WrittenFull, WrittenLess
<1> HIDE DEF row
<1>5. /\ rows \in [Sessions -> Records] /\ full \in [Sessions -> SUBSET Nat]
      /\ less \in [Sessions -> SUBSET Nat] /\ warnings \in [Sessions -> Nat]
  BY <1>1, <1>2, <1>3 DEF ArchiveTyped
<1>6. /\ rows[s] = row /\ full[s] = WrittenFull(t) /\ less[s] = WrittenLess(t)
      /\ \A z \in Sessions \ {s} :
           rows[z] = archive[z] /\ full[z] = sealed[z] /\ less[z] = cut[z]
  BY <1>1 DEF ArchiveTyped
<1> HIDE DEF rows, full, less
<1>7. ~Settled(rows[s])
  BY <1>2, <1>6 DEF Settled
<1>8. /\ ArchiveTyped'
      /\ \A z \in Sessions :
           \/ /\ archive'[z] = rows[z] /\ sealed'[z] = full[z]
              /\ less[z] \subseteq cut'[z] /\ cut'[z] \subseteq less[z] \cup full[z]
           \/ /\ Settled(rows[z])
              /\ archive'[z] = Absent /\ sealed'[z] = {} /\ cut'[z] = {}
  BY <1>4, <1>5, LeavesFacts
<1>9. \A z \in Sessions \ {s} : Spared(z) \/ Evicted(z)
  BY <1>6, <1>8 DEF Spared, Evicted
<1> QED BY <1>1, <1>2, <1>6, <1>7, <1>8, <1>9 DEF row

LEMMA CommitStoredType ==
  ASSUME TypeOK, NEW t \in Tabs, CommitStored(t)
  PROVE  TypeOK'
<1> DEFINE s == JobSession(t)
           m == IF inflight[t].head THEN [memory[s] EXCEPT !.pending = Shift(@)] ELSE memory[s]
<1>1. /\ recorder[t] \in Recorders /\ recorder[t].chain # <<>> /\ s \in Sessions
      /\ memory[s] \in Memories
  BY InCommitFacts DEF CommitStored
<1>2. m \in Memories
  BY <1>1, ShiftType
<1>3. memory' \in [Sessions -> Memories]
  BY <1>1, <1>2, TypeFacts, ReplaceMemory DEF CommitStored
<1>4. ArchiveTyped'
  BY CommitStoredFacts
<1>5. mail' \in [Tabs -> 0 .. MaxMail]
  BY PostedType, TypeFacts DEF CommitStored
<1>6. WritePending(t, recorder[t], m) \/ WriteEnds(t, recorder[t])
  BY DEF CommitStored
<1>7. UNCHANGED <<phase, feed, store, lease, counted, mishaps>>
  BY DEF CommitStored
<1> HIDE DEF m
<1>8. recorder' \in [Tabs -> Recorders] /\ inflight' \in [Tabs -> Commits]
  BY <1>1, <1>2, <1>6, WritePendingType, WriteEndsType
<1> QED BY <1>3, <1>4, <1>5, <1>7, <1>8 DEF ArchiveTyped, TypeOK

LEMMA PruneFacts ==
  ASSUME TypeOK, NEW t \in Tabs, PruneToBudget(t)
  PROVE  /\ ArchiveTyped'
         /\ \A z \in Sessions : Spared(z) \/ Evicted(z)
  BY ArchiveIsTyped, LeavesFacts DEF PruneToBudget, ArchiveTyped, Spared, Evicted

LEMMA PruneType ==
  ASSUME TypeOK, NEW t \in Tabs, PruneToBudget(t)
  PROVE  TypeOK'
  BY PruneFacts DEF PruneToBudget, ArchiveTyped, TypeOK

LEMMA CommitLostType ==
  ASSUME TypeOK, NEW t \in Tabs, CommitLost(t)
  PROVE  TypeOK'
<1> DEFINE r == AbandonLostSession(recorder[t], JobSession(t))
<1>1. recorder[t] \in Recorders /\ recorder[t].chain # <<>> /\ JobSession(t) \in Sessions
  BY InCommitFacts DEF CommitLost
<1>2. r \in Recorders /\ r.chain # <<>>
  BY <1>1, AbandonType DEF AbandonLostSession, Stop, Recorders
<1>3. recorder' \in [Tabs -> Recorders] /\ inflight' \in [Tabs -> Commits]
  BY <1>2, WriteEndsType DEF CommitLost
<1>4. mishaps' \in 0 .. MaxMishaps
  BY SessionRecorderAssumption DEF CommitLost, MayFail, TypeOK
<1> QED BY <1>3, <1>4 DEF CommitLost, TypeOK

LEMMA RefusedRecorderType ==
  ASSUME NEW t \in Tabs, recorder[t] \in Recorders, recorder[t].chain # <<>>,
         NEW latching \in BOOLEAN
  PROVE  /\ RefusedRecorder(t, latching) \in Recorders
         /\ RefusedRecorder(t, latching).chain # <<>>
<1> DEFINE r == [recorder[t] EXCEPT !.announced = TRUE]
           told == FollowArchive(r, FALSE)
<1>1. told \in Recorders
  BY AnnouncedType, FollowArchiveType
<1>2. told.chain = recorder[t].chain
  BY DEF FollowArchive, Recorders
<1>3. \A q \in Recorders : q.chain # <<>> =>
        /\ [q EXCEPT !.failure = TRUE] \in Recorders
        /\ [q EXCEPT !.failure = TRUE].chain # <<>>
  BY DEF Recorders
<1> HIDE DEF told
<1> QED BY <1>1, <1>2, <1>3 DEF RefusedRecorder, told

LEMMA CommitRefusedType ==
  ASSUME TypeOK, NEW t \in Tabs, CommitRefused(t)
  PROVE  TypeOK'
<1> DEFINE s == JobSession(t)
           m == memory[s]
           attempts == Head(m.pending).attempts + 1
           retried == [m EXCEPT !.pending[1].attempts = attempts]
           dropped == [m EXCEPT !.pending = Shift(@), !.dropped = @ + 1]
<1>1. /\ recorder[t] \in Recorders /\ recorder[t].chain # <<>> /\ s \in Sessions
      /\ m \in Memories
  BY InCommitFacts DEF CommitRefused
<1>2. PICK latching \in BOOLEAN :
        /\ IF latching THEN Latches(t) ELSE Passes(t)
        /\ store' = IF latching THEN [store EXCEPT ![t] = "full"] ELSE store
        /\ \/ /\ attempts < MaxAttempts
              /\ memory' = [memory EXCEPT ![s] = retried]
              /\ WriteEnds(t, RefusedRecorder(t, latching))
           \/ /\ memory' = [memory EXCEPT ![s] = dropped]
              /\ WritePending(t, RefusedRecorder(t, latching), dropped)
           \/ /\ WriteEnds(t, RefusedRecorder(t, latching))
              /\ UNCHANGED memory
  BY DEF CommitRefused
<1>3. /\ RefusedRecorder(t, latching) \in Recorders
      /\ RefusedRecorder(t, latching).chain # <<>>
  BY <1>1, RefusedRecorderType
<1>4. dropped \in Memories /\ (attempts < MaxAttempts => retried \in Memories)
  BY <1>1, ShiftType, RetriedType
<1>5. mishaps' \in 0 .. MaxMishaps
  BY <1>2, MishapType DEF Latches, Passes
<1>6. store' \in [Tabs -> {"usable", "full", "swapped", "closed"}]
  BY <1>2 DEF TypeOK
<1>7. UNCHANGED <<phase, feed, lease, archive, sealed, cut, warnings, counted, mail>>
  BY DEF CommitRefused
<1> HIDE DEF retried, dropped
<1>8. memory' \in [Sessions -> Memories]
  BY <1>1, <1>2, <1>4, TypeFacts, ReplaceMemory
<1>9. recorder' \in [Tabs -> Recorders] /\ inflight' \in [Tabs -> Commits]
  BY <1>2, <1>3, <1>4, WriteEndsType, WritePendingType
<1> QED BY <1>5, <1>6, <1>7, <1>8, <1>9 DEF TypeOK

LEMMA FinishReleaseType ==
  ASSUME TypeOK, NEW t \in Tabs, FinishRelease(t)
  PROVE  TypeOK'
<1> DEFINE r == recorder[t]
<1>1. r \in Recorders /\ r.chain # <<>> /\ memory[JobSession(t)] \in Memories
  BY AtStepFacts DEF FinishRelease
<1>2. inflight \in [Tabs -> Commits]
  BY DEF TypeOK
<1>3. recorder' \in [Tabs -> Recorders] /\ inflight' \in [Tabs -> Commits]
  <2>1. Done(r) \in Recorders /\ Step(r, "delete") \in Recorders
    BY <1>1, DoneType, StepType DEF Steps
  <2>2. \/ recorder' = [recorder EXCEPT ![t] = Done(r)] /\ inflight' = inflight
        \/ recorder' = [recorder EXCEPT ![t] = Step(r, "delete")] /\ inflight' = inflight
        \/ WritePending(t, r, memory[JobSession(t)])
        \/ WriteEnds(t, r)
    BY DEF FinishRelease
  <2> QED BY <1>1, <1>2, <2>1, <2>2, TypeFacts, ReplaceRecorder,
             WritePendingType, WriteEndsType
<1>4. lease' \in Tabs \cup {NoTab}
  BY DEF FinishRelease, Released, TypeOK
<1> QED BY <1>3, <1>4 DEF FinishRelease, TypeOK

LEMMA DeleteShortType ==
  ASSUME TypeOK, NEW t \in Tabs, DeleteShort(t)
  PROVE  TypeOK'
<1>1. JobSession(t) \in Sessions
  BY AtStepFacts DEF DeleteShort
<1>2. recorder' \in [Tabs -> Recorders]
  BY DoneStepType DEF DeleteShort
<1>3. ArchiveTyped'
  BY <1>1, ArchiveIsTyped, RemovedFacts DEF DeleteShort, ArchiveTyped
<1>4. mail' \in [Tabs -> 0 .. MaxMail]
  BY PostedType, TypeFacts DEF DeleteShort
<1> QED BY <1>2, <1>3, <1>4 DEF DeleteShort, ArchiveTyped, TypeOK

LEMMA CloseSessionType ==
  ASSUME TypeOK, NEW t \in Tabs, CloseSession(t)
  PROVE  TypeOK'
<1> DEFINE s == JobSession(t)
           row == [archive[s] EXCEPT !.state = "closed", !.samples = memory[s].samples,
                                     !.dropped = memory[s].dropped]
<1>1. s \in Sessions /\ memory[s] \in Memories
  BY AtStepFacts DEF CloseSession
<1>2. recorder' \in [Tabs -> Recorders]
  BY DoneStepType DEF CloseSession
<1>3. row \in Records
  <2>1. memory[s].samples \in 0 .. MaxRows /\ memory[s].dropped \in Nat
    BY <1>1 DEF Memories, MemoryRecords
  <2>2. archive[s] \in Records
    BY <1>1, ArchiveFacts
  <2> QED BY <2>1, <2>2 DEF Records
<1>4. archive' = archive \/ archive' = [archive EXCEPT ![s] = row]
  BY DEF CloseSession
<1>5. mail' \in [Tabs -> 0 .. MaxMail]
  BY PostedType, TypeFacts DEF CloseSession
<1>6. UNCHANGED <<phase, feed, store, inflight, memory, lease, cut, warnings, counted,
                   mishaps>>
  BY DEF CloseSession
<1> HIDE DEF row
<1>7. archive' \in [Sessions -> Records]
  BY <1>1, <1>3, <1>4, ArchiveFacts
<1>8. sealed' \in [Sessions -> SUBSET Nat]
  BY SessionRecorderAssumption DEF CloseSession, Stored, Seqs, TypeOK
<1> QED BY <1>2, <1>5, <1>6, <1>7, <1>8 DEF TypeOK

LEMMA JobThrowsType ==
  ASSUME TypeOK, NEW t \in Tabs, JobThrows(t)
  PROVE  TypeOK'
<1>1. recorder' \in [Tabs -> Recorders]
  BY DoneStepType DEF JobThrows
<1>2. mishaps' \in 0 .. MaxMishaps
  BY MishapType DEF JobThrows
<1> QED BY <1>1, <1>2 DEF JobThrows, TypeOK

LEMMA JobStepType ==
  ASSUME TypeOK, NEW t \in Tabs, JobStep(t)
  PROVE  TypeOK'
  BY ClaimGrantedType, ClaimRefusedType, PutSessionType, UpsertDeviceType,
     AppendWarningType, FlushPendingType, FlushEndsType, CommitStoredType,
     CommitLostType, CommitRefusedType, FinishReleaseType, DeleteShortType,
     CloseSessionType, JobThrowsType, PruneType
  DEF JobStep

-----------------------------------------------------------------------------
(* The environment. *)

LEMMA RadioType ==
  ASSUME TypeOK, NEW t \in Tabs, Resume(t) \/ Silence(t)
  PROVE  TypeOK'
  BY DEF Resume, Silence, TypeOK

LEMMA StoreType ==
  ASSUME TypeOK, NEW t \in Tabs, StandDownStore(t) \/ SwapStore(t) \/ SwapBack(t)
  PROVE  TypeOK'
<1>1. CASE StandDownStore(t)
  <2>1. FollowArchive([recorder[t] EXCEPT !.announced = TRUE], FALSE) \in Recorders
    BY TypeFacts, AnnouncedType, FollowArchiveType
  <2>2. recorder' \in [Tabs -> Recorders]
    BY <1>1, <2>1, TypeFacts, ReplaceRecorder DEF StandDownStore
  <2>3. mishaps' \in 0 .. MaxMishaps
    BY <1>1, MishapType DEF StandDownStore
  <2> QED BY <1>1, <2>2, <2>3 DEF StandDownStore, TypeOK
<1>2. CASE SwapStore(t)
  <2>1. mishaps' \in 0 .. MaxMishaps
    BY <1>2, MishapType DEF SwapStore
  <2> QED BY <1>2, <2>1 DEF SwapStore, TypeOK
<1>3. CASE SwapBack(t)
  BY <1>3 DEF SwapBack, TypeOK
<1> QED BY <1>1, <1>2, <1>3

LEMMA ClosePageType ==
  ASSUME TypeOK, NEW t \in Tabs, ClosePage(t)
  PROVE  TypeOK'
<1>1. IdleRecorder \in Recorders
  BY DEF IdleRecorder, Recorders
<1>2. recorder' \in [Tabs -> Recorders]
  BY <1>1, TypeFacts, ReplaceRecorder DEF ClosePage
<1>3. inflight' \in [Tabs -> Commits]
  BY NoCommitType, ReplaceCommit DEF ClosePage
<1>4. mishaps' \in 0 .. MaxMishaps
  BY MishapType DEF ClosePage, TypeOK
<1>5. mail' \in [Tabs -> 0 .. MaxMail]
  BY SessionRecorderAssumption, TypeFacts DEF ClosePage
<1>6. /\ lease' \in Tabs \cup {NoTab}
      /\ phase' \in [Tabs -> {"gone", "live", "disposed"}]
      /\ feed' \in [Tabs -> BOOLEAN]
      /\ store' \in [Tabs -> {"usable", "full", "swapped", "closed"}]
      /\ UNCHANGED <<memory, archive, sealed, cut, warnings, counted>>
  BY DEF ClosePage, TypeOK
<1> QED BY <1>2, <1>3, <1>4, <1>5, <1>6 DEF TypeOK

LEMMA SweptType ==
  ASSUME TypeOK, NEW stale
  PROVE  Swept(stale) \in [Sessions -> Records]
<1>1. \A s \in Sessions : [archive[s] EXCEPT !.state = "abandoned"] \in Records
  BY ArchiveFacts DEF Records
<1> QED BY <1>1, ArchiveFacts DEF Swept

LEMMA OpenPageFacts ==
  ASSUME TypeOK, NEW t \in Tabs, OpenPage(t)
  PROVE  /\ ArchiveTyped'
         /\ mail' \in [Tabs -> 0 .. MaxMail]
         /\ \A z \in Sessions : Spared(z) \/ Evicted(z) \/ SweptAway(z)
<1>1. CASE UNCHANGED <<archive, sealed, cut, warnings, mail>>
  BY <1>1, ArchiveIsTyped, TypeFacts DEF ArchiveTyped, Spared
<1>2. ASSUME NEW stale \in SUBSET {s \in Sessions : archive[s].state = "open"},
             Recover(stale), mail' = IF stale = {} THEN mail ELSE Posted(t)
      PROVE  /\ ArchiveTyped'
             /\ mail' \in [Tabs -> 0 .. MaxMail]
             /\ \A z \in Sessions : Spared(z) \/ Evicted(z) \/ SweptAway(z)
  <2> DEFINE gone == {s \in stale : archive[s].samples = 0}
             rows == Swept(stale)
             full == [s \in Sessions |-> IF s \in gone THEN {}
                        ELSE IF s \in stale THEN Stored(s) ELSE sealed[s]]
             less == [s \in Sessions |-> IF s \in gone THEN {} ELSE cut[s]]
             filed == [s \in Sessions |->
                         IF Swept(stale)[s].state = "absent" THEN 0 ELSE warnings[s]]
  <2>1. ArchiveTyped
    BY ArchiveIsTyped
  <2>2. /\ rows \in [Sessions -> Records] /\ full \in [Sessions -> SUBSET Nat]
        /\ less \in [Sessions -> SUBSET Nat] /\ filed \in [Sessions -> Nat]
    <3>1. \A s \in Sessions : Stored(s) \in SUBSET Nat
      BY SessionRecorderAssumption DEF Stored, Seqs
    <3> QED BY <2>1, <3>1, SweptType DEF ArchiveTyped
  <2>3. Leaves(rows, full, less, filed) \/ LeavesPruned(rows, full, less, filed)
    BY <1>2 DEF Recover
  <2>4. \A z \in Sessions :
          /\ z \notin stale => rows[z] = archive[z] /\ full[z] = sealed[z] /\ less[z] = cut[z]
          /\ z \in gone => rows[z] = Absent /\ full[z] = {} /\ less[z] = {}
          /\ z \in stale \ gone => /\ rows[z] = [archive[z] EXCEPT !.state = "abandoned"]
                                   /\ full[z] = Stored(z) /\ less[z] = cut[z]
    BY DEF Swept
  <2>5. \A z \in stale : archive[z].state = "open"
    BY <1>2
  <2>6. gone \subseteq stale /\ ~Settled(Absent)
    BY DEF Settled, Absent
  <2> HIDE DEF gone, rows, full, less, filed
  <2>7. /\ ArchiveTyped'
        /\ \A z \in Sessions :
             \/ /\ archive'[z] = rows[z] /\ sealed'[z] = full[z]
                /\ less[z] \subseteq cut'[z] /\ cut'[z] \subseteq less[z] \cup full[z]
             \/ /\ Settled(rows[z])
                /\ archive'[z] = Absent /\ sealed'[z] = {} /\ cut'[z] = {}
    BY <2>2, <2>3, LeavesFacts
  <2>8. ASSUME NEW z \in Sessions
        PROVE  Spared(z) \/ Evicted(z) \/ SweptAway(z)
    <3>1. CASE z \notin stale
      BY <2>4, <2>7, <3>1 DEF Spared, Evicted
    <3>2. CASE z \in gone
      <4>1. cut'[z] = {}
        BY <2>4, <2>6, <2>7, <3>2
      <4> QED BY <2>4, <2>5, <2>6, <2>7, <3>2, <4>1 DEF SweptAway
    <3>3. CASE z \in stale \ gone
      BY <2>4, <2>5, <2>7, <3>3 DEF SweptAway
    <3> QED BY <3>1, <3>2, <3>3
  <2>9. mail' \in [Tabs -> 0 .. MaxMail]
    BY <1>2, PostedType, TypeFacts
  <2> QED BY <2>7, <2>8, <2>9
<1> QED BY <1>1, <1>2 DEF OpenPage

LEMMA OpenPageType ==
  ASSUME TypeOK, NEW t \in Tabs, OpenPage(t)
  PROVE  TypeOK'
<1>1. /\ phase' \in [Tabs -> {"gone", "live", "disposed"}]
      /\ UNCHANGED <<feed, store, recorder, inflight, memory, lease, counted, mishaps>>
  BY DEF OpenPage, TypeOK
<1> QED BY <1>1, OpenPageFacts DEF ArchiveTyped, TypeOK

LEMMA DeleteSessionType ==
  ASSUME TypeOK, NEW t \in Tabs, NEW s \in Sessions, DeleteSession(t, s)
  PROVE  TypeOK'
<1>1. ArchiveTyped'
  BY RemovedFacts DEF DeleteSession
<1>2. mail' \in [Tabs -> 0 .. MaxMail]
  BY PostedType DEF DeleteSession
<1>3. mishaps' \in 0 .. MaxMishaps
  BY MishapType DEF DeleteSession
<1> QED BY <1>1, <1>2, <1>3 DEF DeleteSession, ArchiveTyped, TypeOK

LEMMA InitType == Init => TypeOK
<1>1. IdleRecorder \in Recorders
  BY DEF IdleRecorder, Recorders
<1>3. Absent \in Records
  BY SessionRecorderAssumption DEF Absent, Records
<1>4. 0 \in 0 .. MaxMail /\ 0 \in 0 .. MaxMishaps
  BY SessionRecorderAssumption
<1>5. ASSUME Init
      PROVE  recorder \in [Tabs -> Recorders] /\ inflight \in [Tabs -> Commits]
  BY <1>1, <1>5, NoCommitType DEF Init
<1>6. ASSUME Init
      PROVE  memory \in [Sessions -> Memories]
  <2> DEFINE m == NewSession(FALSE, FALSE)
  <2>1. memory = [s \in Sessions |-> m]
    BY <1>6 DEF Init
  <2>2. m \in Memories
    BY NewSessionType
  <2> HIDE DEF m
  <2> QED BY <2>1, <2>2
<1>7. ASSUME Init
      PROVE  /\ archive \in [Sessions -> Records] /\ mail \in [Tabs -> 0 .. MaxMail]
             /\ sealed \in [Sessions -> SUBSET Nat] /\ cut \in [Sessions -> SUBSET Nat]
  BY <1>3, <1>4, <1>7 DEF Init
<1>8. ASSUME Init
      PROVE  /\ phase \in [Tabs -> {"gone", "live", "disposed"}]
             /\ feed \in [Tabs -> BOOLEAN]
             /\ store \in [Tabs -> {"usable", "full", "swapped", "closed"}]
             /\ lease \in Tabs \cup {NoTab}
             /\ warnings \in [Sessions -> Nat]
             /\ counted \in [Sessions -> BOOLEAN]
             /\ mishaps \in 0 .. MaxMishaps
  BY <1>4, <1>8 DEF Init
<1> QED BY <1>5, <1>6, <1>7, <1>8 DEF TypeOK

LEMMA NextType == TypeOK /\ [Next]_vars => TypeOK'
<1> SUFFICES ASSUME TypeOK, [Next]_vars
             PROVE  TypeOK'
  OBVIOUS
<1>1. CASE UNCHANGED vars
  BY <1>1 DEF vars, TypeOK
<1>2. ASSUME NEW t \in Tabs, TabStep(t)
      PROVE  TypeOK'
  BY <1>2, ObserveType, EndStreamType, CheckpointType, TickType, EndWatchType,
     IdentifyType, DeviceChangedType, HoldType, DisposeType, RetryType, HearType,
     JobStepType
  DEF TabStep
<1>3. ASSUME NEW t \in Tabs, Environment(t)
      PROVE  TypeOK'
  BY <1>3, RadioType, StoreType, ClosePageType, OpenPageType, DeleteSessionType
  DEF Environment
<1> QED BY <1>1, <1>2, <1>3 DEF Next

\* The recorders, the session objects and the archive keep their types in every
\* reachable state, whatever the pages, faults and interleavings.
THEOREM TypeCorrect == Spec => []TypeOK
  BY InitType, NextType, PTL DEF Spec

-----------------------------------------------------------------------------
(* What a step does to one recorder.  Its chain loses its first `popped`    *)
(* jobs, changes at most the steps of the first `touched` and is extended   *)
(* by jobs of the session that stands, which may end.                       *)

LEMMA ChainFacts ==
  ASSUME NEW r \in Recorders
  PROVE  /\ r.chain \in Seq(Jobs)
         /\ Len(r.chain) \in Nat
         /\ DOMAIN r.chain = 1 .. Len(r.chain)
         /\ \A i \in DOMAIN r.chain : r.chain[i] \in Jobs /\ r.chain[i].session \in Sessions
<1>1. r.chain \in Seq(Jobs)
  BY DEF Recorders
<1>2. \A i \in 1 .. Len(r.chain) : r.chain[i] \in Jobs
  BY <1>1
<1> QED BY <1>1, <1>2 DEF Jobs

LEMMA KeepsSame ==
  ASSUME NEW r \in Recorders, NEW q \in Recorders,
         q.session \in {r.session, NoSession}, q.chain = r.chain
  PROVE  Keeps(r, q, 0, 0)
  BY ChainFacts DEF Keeps, Kept

LEMMA KeepsAppend ==
  ASSUME NEW r \in Recorders, NEW q \in Recorders, NEW job \in Jobs,
         q.session \in {r.session, NoSession}, q.chain = Append(r.chain, job),
         Added(r, q, job)
  PROVE  Keeps(r, q, 0, 0)
<1>1. /\ DOMAIN q.chain = 1 .. Len(r.chain) + 1
      /\ DOMAIN r.chain = 1 .. Len(r.chain)
      /\ Len(r.chain) \in Nat
      /\ q.chain[Len(r.chain) + 1] = job
      /\ \A i \in 1 .. Len(r.chain) : q.chain[i] = r.chain[i]
  BY ChainFacts
<1> QED BY <1>1 DEF Keeps, Kept

\* One change after another.
LEMMA KeepsTwice ==
  ASSUME NEW r \in Recorders, NEW a \in Recorders, NEW q \in Recorders,
         NEW popped \in {0, 1}, NEW touched \in {0, 1},
         Keeps(r, a, 0, 0), Keeps(a, q, popped, touched)
  PROVE  Keeps(r, q, popped, touched)
<1>1. q.session \in {r.session, NoSession}
  BY DEF Keeps
<1>2. ASSUME NEW i \in DOMAIN q.chain
      PROVE  \/ i + popped \in DOMAIN r.chain /\ Kept(q.chain[i], r.chain[i + popped])
             \/ Added(r, q, q.chain[i])
  <2>1. CASE i + popped \in DOMAIN a.chain /\ Kept(q.chain[i], a.chain[i + popped])
    <3>1. i + popped + 0 = i + popped
      BY ChainFacts, <2>1
    <3>2. \/ i + popped \in DOMAIN r.chain /\ Kept(a.chain[i + popped], r.chain[i + popped])
          \/ Added(r, a, a.chain[i + popped])
      BY <2>1, <3>1 DEF Keeps
    <3> QED BY <2>1, <3>2 DEF Kept, Added, Keeps
  <2>2. CASE Added(a, q, q.chain[i])
    <3>1. q.chain[i].session \in Sessions
      BY ChainFacts
    <3>2. a.session = r.session
      BY <2>2, <3>1, SessionRecorderAssumption DEF Keeps, Added
    <3> QED BY <2>2, <3>2 DEF Added
  <2> QED BY <2>1, <2>2 DEF Keeps
<1>3. ASSUME q.session # NoSession, NEW j \in DOMAIN r.chain,
             j > touched, r.chain[j] = OpenJob(r.session)
      PROVE  j - popped \in DOMAIN q.chain /\ q.chain[j - popped] = r.chain[j]
  <2>1. j > 0 /\ j - 0 = j
    BY ChainFacts
  <2>2. a.session = r.session /\ a.session # NoSession
    BY <1>3 DEF Keeps
  <2>3. j \in DOMAIN a.chain /\ a.chain[j] = r.chain[j]
    BY <1>3, <2>1, <2>2 DEF Keeps
  <2> QED BY <1>3, <2>2, <2>3 DEF Keeps
<1> QED BY <1>1, <1>2, <1>3 DEF Keeps

LEMMA KeepsStep ==
  ASSUME NEW r \in Recorders, r.chain # <<>>, NEW step \in Steps
  PROVE  Keeps(r, Step(r, step), 0, 1)
<1> DEFINE q == Step(r, step)
<1>1. q.session = r.session /\ DOMAIN q.chain = DOMAIN r.chain
  BY ChainFacts DEF Step, Recorders
<1>2. \A i \in DOMAIN r.chain : i # 1 => q.chain[i] = r.chain[i]
  BY ChainFacts DEF Step, Recorders
<1>3. Kept(q.chain[1], r.chain[1])
  <2>1. 1 \in DOMAIN r.chain /\ r.chain[1] \in Jobs
    BY ChainFacts
  <2>2. q.chain[1] = [r.chain[1] EXCEPT !.step = step]
    BY <2>1 DEF Step, Recorders
  <2> QED BY <2>1, <2>2 DEF Kept, Jobs
<1> HIDE DEF q
<1>4. \A i \in DOMAIN r.chain : i \in Nat /\ i + 0 = i /\ i - 0 = i
  BY ChainFacts
<1>5. Keeps(r, q, 0, 1)
  BY <1>1, <1>2, <1>3, <1>4 DEF Keeps, Kept
<1> QED BY <1>5 DEF q

LEMMA KeepsDone ==
  ASSUME NEW r \in Recorders, r.chain # <<>>
  PROVE  Keeps(r, Done(r), 1, 1)
<1> DEFINE q == Done(r)
<1>1. q.session = r.session /\ q.chain = Tail(r.chain)
  BY DEF Done, Recorders
<1>2. Len(r.chain) \in Nat \ {0} /\ DOMAIN r.chain = 1 .. Len(r.chain)
  BY ChainFacts
<1>3. /\ DOMAIN q.chain = 1 .. Len(r.chain) - 1
      /\ \A i \in 1 .. Len(r.chain) - 1 : q.chain[i] = r.chain[i + 1]
  BY <1>1, <1>2, ChainFacts
<1> HIDE DEF q
<1>4. Keeps(r, q, 1, 1)
  BY <1>1, <1>2, <1>3 DEF Keeps, Kept
<1> QED BY <1>4 DEF q

-----------------------------------------------------------------------------
(* The functions on recorders keep the claim of a session that stands. *)

LEMMA JobFields ==
  ASSUME NEW s \in Sessions
  PROVE  /\ FlushJob(s).kind = "flush" /\ FlushJob(s).session = s
         /\ WarningJob(s).kind = "warning" /\ WarningJob(s).session = s
         /\ DeviceJob(s).kind = "device" /\ DeviceJob(s).session = s
         /\ FinishJob(s).kind = "finish" /\ FinishJob(s).session = s
         /\ OpenJob(s).kind = "open" /\ OpenJob(s).session = s
  BY DEF FlushJob, WarningJob, DeviceJob, FinishJob, OpenJob, Job

LEMMA EnqueueFields ==
  ASSUME NEW r \in Recorders, NEW job \in Jobs
  PROVE  /\ Enqueue(r, job).session = r.session
         /\ Enqueue(r, job).chain = Append(r.chain, job)
  BY DEF Enqueue, Recorders

LEMMA StopFields ==
  ASSUME NEW r \in Recorders
  PROVE  Stop(r).session = NoSession /\ Stop(r).chain = r.chain
  BY DEF Stop, Recorders

LEMMA StopKeeps ==
  ASSUME NEW r \in Recorders
  PROVE  Keeps(r, Stop(r), 0, 0)
  BY StopType, StopFields, KeepsSame

\* A job other than a claim or a closing.
LEMMA EnqueueKeeps ==
  ASSUME NEW r \in Recorders, NEW job \in Jobs,
         job.session = r.session, job.kind \notin {"open", "finish"}
  PROVE  Keeps(r, Enqueue(r, job), 0, 0)
  BY EnqueueType, EnqueueFields, KeepsAppend DEF Added

LEMMA FlushKeeps ==
  ASSUME NEW r \in Recorders, NEW m, r.session \in Sessions
  PROVE  Keeps(r, Flush(r, m), 0, 0)
<1>1. Keeps(r, r, 0, 0)
  BY KeepsSame
<1>2. Keeps(r, Enqueue(r, FlushJob(r.session)), 0, 0)
  BY JobTypes, JobFields, EnqueueKeeps
<1> QED BY <1>1, <1>2 DEF Flush

LEMMA FinishKeeps ==
  ASSUME NEW r \in Recorders
  PROVE  Keeps(r, Finish(r), 0, 0) /\ Finish(r).session = NoSession
<1>1. CASE r.session = NoSession
  <2>1. Finish(r).session = NoSession /\ Finish(r).chain = r.chain
    BY <1>1 DEF Finish, Recorders
  <2> QED BY <1>1, <2>1, FinishType, KeepsSame
<1>2. CASE r.session # NoSession
  <2> DEFINE s == r.session
             e == Enqueue(r, FinishJob(s))
  <2>1. s \in Sessions
    BY <1>2 DEF Recorders
  <2>2. FinishJob(s) \in Jobs /\ FinishJob(s).session = s /\ FinishJob(s).kind = "finish"
    BY <2>1, JobTypes, JobFields
  <2>3. e \in Recorders /\ e.chain = Append(r.chain, FinishJob(s))
    BY <2>2, EnqueueType, EnqueueFields
  <2>4. Finish(r) = Stop(e)
    BY <1>2 DEF Finish
  <2>5. Finish(r) \in Recorders /\ Finish(r).session = NoSession
        /\ Finish(r).chain = Append(r.chain, FinishJob(s))
    BY <2>3, <2>4, StopFields, FinishType
  <2> QED BY <2>2, <2>5, KeepsAppend DEF Added
<1> QED BY <1>1, <1>2

LEMMA FollowArchiveKeeps ==
  ASSUME NEW r \in Recorders, NEW usable \in BOOLEAN
  PROVE  Keeps(r, FollowArchive(r, usable), 0, 0)
<1> DEFINE back == [r EXCEPT !.archiveLost = FALSE, !.failure = FALSE]
           lost == [r EXCEPT !.failure = TRUE, !.archiveLost = TRUE]
<1>1. /\ back \in Recorders /\ back.session = r.session /\ back.chain = r.chain
      /\ lost \in Recorders /\ lost.session = r.session /\ lost.chain = r.chain
  BY DEF Recorders
<1>2. FollowArchive(r, usable) \in {r, lost, Finish(back)}
  BY DEF FollowArchive
<1> HIDE DEF back, lost
<1>3. Keeps(r, back, 0, 0) /\ Keeps(r, lost, 0, 0) /\ Keeps(r, r, 0, 0)
  BY <1>1, KeepsSame
<1>4. Keeps(r, Finish(back), 0, 0)
  BY <1>1, <1>3, FinishKeeps, FinishType, KeepsTwice
<1> QED BY <1>2, <1>3, <1>4

LEMMA AnnouncedKeeps ==
  ASSUME NEW r \in Recorders, NEW usable \in BOOLEAN
  PROVE  Keeps(r, FollowArchive([r EXCEPT !.announced = TRUE], usable), 0, 0)
<1> DEFINE told == [r EXCEPT !.announced = TRUE]
<1>1. told \in Recorders /\ told.session = r.session /\ told.chain = r.chain
  BY DEF Recorders
<1> HIDE DEF told
<1>2. Keeps(r, told, 0, 0)
  BY <1>1, KeepsSame
<1>3. Keeps(r, FollowArchive(told, usable), 0, 0)
  BY <1>1, <1>2, FollowArchiveKeeps, FollowArchiveType, KeepsTwice
<1> QED BY <1>3 DEF told

LEMMA NotedKeeps ==
  ASSUME NEW r \in Recorders, NEW m, NEW frame, r.session \in Sessions
  PROVE  Keeps(r, NotedRecorder(r, m, frame), 0, 0)
<1> DEFINE flushed == IF RowDue(r, m, frame) /\ Sealed(m, frame.split)
                      THEN Flush(r, m) ELSE r
<1>1. flushed \in Recorders /\ flushed.session = r.session
  BY FlushType, JobTypes, EnqueueFields DEF Flush
<1>2. Keeps(r, flushed, 0, 0)
  BY FlushKeeps, KeepsSame
<1>3. NotedRecorder(r, m, frame) \in {flushed, Enqueue(flushed, WarningJob(r.session))}
  BY DEF NotedRecorder
<1> HIDE DEF flushed
<1>4. Keeps(flushed, Enqueue(flushed, WarningJob(r.session)), 0, 0)
  BY <1>1, JobTypes, JobFields, EnqueueKeeps
<1>5. Enqueue(flushed, WarningJob(r.session)) \in Recorders
  BY <1>1, JobTypes, EnqueueType
<1>6. Keeps(r, Enqueue(flushed, WarningJob(r.session)), 0, 0)
  BY <1>1, <1>2, <1>4, <1>5, KeepsTwice
<1> QED BY <1>2, <1>3, <1>6

LEMMA StandDownKeeps ==
  ASSUME NEW r \in Recorders, NEW s \in Sessions
  PROVE  Keeps(r, StandDown(r, s), 0, 0)
<1>1. /\ StandDown(r, s).chain = r.chain
      /\ StandDown(r, s).session \in {r.session, NoSession}
  BY DEF StandDown, Stop, Recorders
<1> QED BY <1>1, StandDownType, KeepsSame

LEMMA AbandonKeeps ==
  ASSUME NEW r \in Recorders, NEW s \in Sessions
  PROVE  Keeps(r, AbandonLostSession(r, s), 0, 0)
  BY StopKeeps, KeepsSame DEF AbandonLostSession

-----------------------------------------------------------------------------
(* The discipline survives any step that keeps the claims. *)

LEMMA DisciplineKept ==
  ASSUME TypeOK, LeaseDiscipline, TypeOK', OpensFreshRow',
         NEW t \in Tabs, NEW popped \in {0, 1}, NEW touched \in {0, 1},
         Keeps(recorder[t], recorder'[t], popped, touched),
         popped <= touched,
         \A u \in Tabs \ {t} : recorder'[u] = recorder[u],
         \A u \in Tabs : Live(u) => phase'[u] = "live" \/ recorder'[u].session = NoSession,
         \A u \in Tabs \ {t} : lease = u => lease' = u,
         lease = t /\ recorder'[t].session # NoSession => lease' = t \/ ClaimAhead(t, 0)',
         touched = 1 /\ recorder[t].chain # <<>> /\ recorder'[t].session # NoSession
           /\ recorder[t].chain[1] = OpenJob(recorder[t].session) => lease' = t
  PROVE  LeaseDiscipline'
<1> DEFINE r == recorder[t]
           q == recorder'[t]
<1>1. r \in Recorders /\ q \in Recorders
  BY DEF TypeOK
<1>2. \A i \in DOMAIN r.chain : i \in Nat /\ i > 0
  BY <1>1, ChainFacts
<1>3. \A i \in DOMAIN q.chain : i \in Nat /\ i > 0 /\ q.chain[i].session \in Sessions
  BY <1>1, ChainFacts
<1>4. q.session # NoSession => q.session = r.session
  BY DEF Keeps
\* A claim behind the jobs touched is still there.
<1>5. ASSUME q.session # NoSession, NEW j \in DOMAIN r.chain, j > touched,
             r.chain[j] = OpenJob(r.session)
      PROVE  j - popped \in DOMAIN q.chain /\ q.chain[j - popped] = OpenJob(q.session)
  BY <1>4, <1>5 DEF Keeps
<1>6. LeaseOrClaimAhead'
  <2>1. ASSUME NEW u \in Tabs, recorder'[u].session # NoSession
        PROVE  (lease = u \/ ClaimAhead(u, 0))'
    <3>1. CASE u # t
      BY <2>1, <3>1 DEF LeaseDiscipline, LeaseOrClaimAhead, ClaimAhead
    <3>2. CASE u = t /\ lease = t
      BY <2>1, <3>2
    <3>3. CASE u = t /\ ClaimAhead(t, 0)
      <4>1. PICK j \in DOMAIN r.chain : r.chain[j] = OpenJob(r.session)
        BY <3>3 DEF ClaimAhead
      <4>2. CASE j > touched
        <5>1. j - popped \in DOMAIN q.chain /\ q.chain[j - popped] = OpenJob(q.session)
          BY <1>5, <2>1, <3>3, <4>1, <4>2
        <5>2. j - popped > 0
          BY <1>3, <5>1
        <5> QED BY <3>3, <5>1, <5>2 DEF ClaimAhead
      <4>3. CASE ~(j > touched)
        <5>1. j = 1 /\ touched = 1
          BY <1>2, <4>1, <4>3
        <5>2. r.chain # <<>>
          BY <4>1
        <5> QED BY <2>1, <3>3, <4>1, <5>1, <5>2
      <4> QED BY <4>2, <4>3
    <3> QED BY <1>4, <2>1, <3>1, <3>2, <3>3 DEF LeaseDiscipline, LeaseOrClaimAhead
  <2> QED BY <2>1 DEF LeaseOrClaimAhead
<1>7. FinishBeforeClaim'
  <2>1. ASSUME NEW u \in Tabs, NEW i \in DOMAIN recorder'[u].chain,
               recorder'[u].chain[i].kind = "finish", recorder'[u].session # NoSession
        PROVE  ClaimAhead(u, i)'
    <3>1. CASE u # t
      BY <2>1, <3>1 DEF LeaseDiscipline, FinishBeforeClaim, ClaimAhead
    <3>2. CASE u = t
      <4>1. i + popped \in DOMAIN r.chain /\ r.chain[i + popped].kind = "finish"
        BY <2>1, <3>2 DEF Keeps, Added, Kept
      <4>2. ClaimAhead(t, i + popped)
        BY <1>4, <2>1, <3>2, <4>1 DEF LeaseDiscipline, FinishBeforeClaim
      <4>3. PICK j \in DOMAIN r.chain : j > i + popped /\ r.chain[j] = OpenJob(r.session)
        BY <4>2 DEF ClaimAhead
      <4>4. i \in Nat /\ i > 0 /\ j \in Nat
        BY <1>2, <1>3, <2>1, <3>2
      <4>5. j > touched /\ j - popped > i
        BY <4>3, <4>4
      <4>6. j - popped \in DOMAIN q.chain /\ q.chain[j - popped] = OpenJob(q.session)
        BY <1>5, <2>1, <3>2, <4>3, <4>5
      <4> QED BY <3>2, <4>5, <4>6 DEF ClaimAhead
    <3> QED BY <3>1, <3>2
  <2> QED BY <2>1 DEF FinishBeforeClaim
<1>8. OneOpenJob'
  <2>1. ASSUME NEW u \in Tabs,
               NEW i \in DOMAIN recorder'[u].chain, NEW j \in DOMAIN recorder'[u].chain,
               recorder'[u].chain[i].kind = "open", recorder'[u].chain[j].kind = "open",
               recorder'[u].chain[i].session = recorder'[u].chain[j].session
        PROVE  i = j
    <3>1. CASE u # t
      BY <2>1, <3>1 DEF LeaseDiscipline, OneOpenJob
    <3>2. CASE u = t
      <4>1. /\ i + popped \in DOMAIN r.chain /\ Kept(q.chain[i], r.chain[i + popped])
            /\ j + popped \in DOMAIN r.chain /\ Kept(q.chain[j], r.chain[j + popped])
        BY <2>1, <3>2 DEF Keeps, Added
      <4>2. i + popped = j + popped
        BY <2>1, <3>2, <4>1 DEF LeaseDiscipline, OneOpenJob, Kept
      <4>3. i \in Nat /\ j \in Nat
        BY <1>3, <2>1, <3>2
      <4> QED BY <4>2, <4>3
    <3> QED BY <3>1, <3>2
  <2> QED BY <2>1 DEF OneOpenJob
<1>9. OneOwner'
  <2>1. ASSUME NEW u \in Tabs, NEW s \in Sessions, RefersTo(u, s)'
        PROVE  RefersTo(u, s)
    <3>1. CASE u # t
      BY <2>1, <3>1 DEF RefersTo
    <3>2. CASE u = t
      <4>1. q.session = s \/ \E i \in DOMAIN q.chain : q.chain[i].session = s
        BY <2>1, <3>2 DEF RefersTo
      <4>2. CASE q.session = s
        BY <3>2, <4>2, <1>4, SessionRecorderAssumption DEF RefersTo
      <4>3. ASSUME NEW i \in DOMAIN q.chain, q.chain[i].session = s
            PROVE  RefersTo(u, s)
        BY <3>2, <4>3 DEF Keeps, Kept, Added, RefersTo
      <4> QED BY <4>1, <4>2, <4>3
    <3> QED BY <3>1, <3>2
  <2> QED BY <2>1 DEF LeaseDiscipline, OneOwner
<1>10. OnlyLiveTabsHaveSessions'
  BY <1>4 DEF LeaseDiscipline, OnlyLiveTabsHaveSessions, Live
<1> QED BY <1>6, <1>7, <1>8, <1>9, <1>10 DEF LeaseDiscipline

\* No step but PutSession writes a row that was absent.
LEMMA FreshKept ==
  ASSUME TypeOK, LeaseDiscipline, TypeOK',
         NEW t \in Tabs, NEW popped \in {0, 1}, NEW touched \in {0, 1},
         Keeps(recorder[t], recorder'[t], popped, touched),
         \A u \in Tabs \ {t} : recorder'[u] = recorder[u],
         \A s \in Sessions : archive[s].state = "absent" => archive'[s].state = "absent"
  PROVE  OpensFreshRow'
<1>1. ASSUME NEW u \in Tabs, NEW i \in DOMAIN recorder'[u].chain,
             recorder'[u].chain[i].kind = "open"
      PROVE  archive'[recorder'[u].chain[i].session].state = "absent"
  <2>1. recorder'[u].chain[i].session \in Sessions
    BY <1>1, ChainFacts DEF TypeOK
  <2>2. archive[recorder'[u].chain[i].session].state = "absent"
    <3>1. CASE u # t
      BY <1>1, <3>1 DEF LeaseDiscipline, OpensFreshRow
    <3>2. CASE u = t
      BY <1>1, <3>2 DEF Keeps, Added, Kept, LeaseDiscipline, OpensFreshRow
    <3> QED BY <3>1, <3>2
  <2> QED BY <2>1, <2>2
<1> QED BY <1>1 DEF OpensFreshRow

\* A call of the recorder: nothing is popped, and the lease stays.
LEMMA CallDiscipline ==
  ASSUME TypeOK, LeaseDiscipline, TypeOK', NEW t \in Tabs, NEW q,
         recorder' = [recorder EXCEPT ![t] = q],
         Keeps(recorder[t], q, 0, 0),
         UNCHANGED <<phase, lease, archive>>
  PROVE  LeaseDiscipline'
<1>1. recorder'[t] = q /\ \A u \in Tabs \ {t} : recorder'[u] = recorder[u]
  BY DEF TypeOK
<1>2. OpensFreshRow'
  BY <1>1, FreshKept
<1>3. \A u \in Tabs : Live(u) => phase'[u] = "live"
  BY DEF Live
<1> QED BY <1>1, <1>2, <1>3, DisciplineKept

\* A step that leaves every recorder alone.
LEMMA ElsewhereDiscipline ==
  ASSUME LeaseDiscipline, TypeOK, UNCHANGED <<recorder, lease>>,
         \A u \in Tabs : Live(u) => phase'[u] = "live",
         \A s \in Sessions : archive[s].state = "absent" => archive'[s].state = "absent"
  PROVE  LeaseDiscipline'
<1>1. \A u \in Tabs : \A i \in DOMAIN recorder[u].chain :
        recorder[u].chain[i].session \in Sessions
  BY ChainFacts DEF TypeOK
<1>2. OpensFreshRow'
  BY <1>1 DEF LeaseDiscipline, OpensFreshRow
<1>3. /\ OnlyLiveTabsHaveSessions' /\ LeaseOrClaimAhead' /\ FinishBeforeClaim'
      /\ OneOpenJob' /\ OneOwner'
  BY DEF LeaseDiscipline, OnlyLiveTabsHaveSessions, Live, LeaseOrClaimAhead, FinishBeforeClaim, OneOpenJob, OneOwner,
         ClaimAhead, RefersTo
<1> QED BY <1>2, <1>3 DEF LeaseDiscipline

-----------------------------------------------------------------------------
(* Opening: a fresh session claims at the end of the chain. *)

LEMMA OpenedBegins ==
  ASSUME NEW t, NEW a \in Recorders, NEW s \in Sessions, NEW identified \in BOOLEAN
  PROVE  Begins(a, Opened(t, a, s, identified), s)
<1> DEFINE begun == [a EXCEPT !.session = s, !.failure = FALSE, !.archiveLost = FALSE]
           open == Enqueue(begun, OpenJob(s))
           both == Enqueue(open, DeviceJob(s))
<1>1. begun \in Recorders /\ begun.session = s /\ begun.chain = a.chain
  BY DEF Recorders
<1>2. OpenJob(s) \in Jobs /\ DeviceJob(s) \in Jobs
  BY JobTypes
<1> HIDE DEF begun
<1>3. open \in Recorders /\ open.session = s /\ open.chain = Append(a.chain, OpenJob(s))
  BY <1>1, <1>2, EnqueueType, EnqueueFields
<1> HIDE DEF open
<1>4. both.session = s /\ both.chain = Append(Append(a.chain, OpenJob(s)), DeviceJob(s))
  BY <1>2, <1>3, EnqueueFields
<1>5. Opened(t, a, s, identified) \in {open, both}
  BY DEF Opened, open, begun
<1>6. a.chain \in Seq(Jobs) /\ DOMAIN a.chain = 1 .. Len(a.chain) /\ Len(a.chain) \in Nat
  BY ChainFacts
<1> HIDE DEF both
<1>7. Begins(a, open, s)
  BY <1>2, <1>3, <1>6, JobFields DEF Begins
<1>8. Begins(a, both, s)
  BY <1>2, <1>4, <1>6, JobFields DEF Begins
<1> QED BY <1>5, <1>7, <1>8

\* Jobs a call adds to a session that has just begun.
LEMMA BeginsThenKeeps ==
  ASSUME NEW a \in Recorders, NEW b \in Recorders, NEW q \in Recorders,
         NEW s \in Sessions,
         Begins(a, b, s), q.session = s,
         \A i \in DOMAIN b.chain : i \in DOMAIN q.chain /\ q.chain[i] = b.chain[i],
         \A i \in DOMAIN q.chain \ DOMAIN b.chain :
           q.chain[i].session = s /\ q.chain[i].kind \notin {"open", "finish"}
  PROVE  Begins(a, q, s)
  BY ChainFacts DEF Begins

LEMMA NotedBegins ==
  ASSUME NEW a \in Recorders, NEW b \in Recorders, NEW s \in Sessions,
         Begins(a, b, s), NEW m, NEW frame
  PROVE  Begins(a, NotedRecorder(b, m, frame), s)
<1> DEFINE flushed == IF RowDue(b, m, frame) /\ Sealed(m, frame.split)
                      THEN Flush(b, m) ELSE b
           warned == Enqueue(flushed, WarningJob(s))
<1>1. b.session = s
  BY DEF Begins
<1>2. FlushJob(s) \in Jobs /\ WarningJob(s) \in Jobs
  BY JobTypes
\* One more job of the session.
<1>3. ASSUME NEW c \in Recorders, NEW job \in Jobs, Begins(a, c, s),
             job.session = s, job.kind \notin {"open", "finish"}
      PROVE  Begins(a, Enqueue(c, job), s)
  <2>1. Enqueue(c, job) \in Recorders /\ Enqueue(c, job).session = s
        /\ Enqueue(c, job).chain = Append(c.chain, job)
    BY <1>3, EnqueueType, EnqueueFields DEF Begins
  <2>2. c.chain \in Seq(Jobs) /\ DOMAIN c.chain = 1 .. Len(c.chain) /\ Len(c.chain) \in Nat
    BY ChainFacts
  <2> DEFINE k == Len(c.chain)
             d == Enqueue(c, job)
  <2>3. /\ DOMAIN d.chain = 1 .. k + 1 /\ d.chain[k + 1] = job
        /\ \A i \in 1 .. k : d.chain[i] = c.chain[i]
    <3> DEFINE seq == c.chain
               longer == Append(seq, job)
    <3>1. seq \in Seq(Jobs) /\ d.chain = longer
      BY <2>1, <2>2
    <3> HIDE DEF seq
    <3>2. /\ DOMAIN longer = 1 .. Len(seq) + 1 /\ longer[Len(seq) + 1] = job
          /\ \A i \in 1 .. Len(seq) : longer[i] = seq[i]
      BY <1>3, <3>1
    <3> QED BY <3>1, <3>2 DEF seq
  <2>4. k \in Nat /\ DOMAIN c.chain = 1 .. k /\ d \in Recorders /\ d.session = s
    BY <2>1, <2>2
  <2> HIDE DEF k, d
  <2>5. \A i \in DOMAIN c.chain : i \in DOMAIN d.chain /\ d.chain[i] = c.chain[i]
    BY <2>3, <2>4
  <2>6. \A i \in DOMAIN d.chain \ DOMAIN c.chain : i = k + 1
    BY <2>3, <2>4
  <2>7. \A i \in DOMAIN d.chain \ DOMAIN c.chain :
          d.chain[i].session = s /\ d.chain[i].kind \notin {"open", "finish"}
    BY <1>3, <2>3, <2>6
  <2>8. Begins(a, d, s)
    BY <1>3, <2>4, <2>5, <2>7, BeginsThenKeeps
  <2> QED BY <2>8 DEF d
<1>4. flushed \in Recorders /\ flushed.session = s /\ Begins(a, flushed, s)
  <2>1. Begins(a, Enqueue(b, FlushJob(s)), s)
    BY <1>2, <1>3, JobFields
  <2>2. Enqueue(b, FlushJob(s)) \in Recorders /\ Enqueue(b, FlushJob(s)).session = s
    BY <1>1, <1>2, EnqueueType, EnqueueFields
  <2> QED BY <1>1, <2>1, <2>2 DEF Flush
<1>5. NotedRecorder(b, m, frame) \in {flushed, warned}
  BY <1>1 DEF NotedRecorder
<1> HIDE DEF flushed
<1>6. Begins(a, warned, s)
  BY <1>2, <1>3, <1>4, JobFields
<1> QED BY <1>4, <1>5, <1>6

LEMMA OpenDiscipline ==
  ASSUME TypeOK, LeaseDiscipline, TypeOK', NEW t \in Tabs, Live(t), NEW a \in Recorders,
         NEW s \in Sessions, Unused(s), Keeps(recorder[t], a, 0, 0), NEW q,
         Begins(a, q, s), recorder' = [recorder EXCEPT ![t] = q],
         UNCHANGED <<phase, lease, archive>>
  PROVE  LeaseDiscipline'
<1> DEFINE r == recorder[t]
           n == Len(a.chain) + 1
<1>1. recorder'[t] = q /\ \A u \in Tabs \ {t} : recorder'[u] = recorder[u]
  BY DEF TypeOK
<1>2. r \in Recorders /\ q \in Recorders
  BY <1>1 DEF TypeOK
<1>3. q.session = s /\ s # NoSession
  BY SessionRecorderAssumption DEF Begins
<1>4. n \in DOMAIN q.chain /\ q.chain[n] = OpenJob(s) /\ n \in Nat /\ n > 0
  BY <1>2, ChainFacts DEF Begins
\* Jobs that are older than the session are the jobs of other sessions.
<1>5. ASSUME NEW i \in DOMAIN a.chain, q.chain[i].kind = "open"
      PROVE  /\ i \in DOMAIN r.chain /\ Kept(q.chain[i], r.chain[i])
             /\ q.chain[i].session # s
  <2>1. i + 0 = i /\ q.chain[i] = a.chain[i]
    BY <1>5, ChainFacts DEF Begins
  <2>2. i \in DOMAIN r.chain /\ Kept(q.chain[i], r.chain[i])
    BY <1>5, <2>1 DEF Keeps, Added
  <2>3. ~RefersTo(t, s)
    BY DEF Unused
  <2> QED BY <2>2, <2>3 DEF RefersTo, Kept
<1>6. ASSUME NEW i \in DOMAIN q.chain, q.chain[i].kind = "open", i \notin DOMAIN a.chain
      PROVE  i = n /\ q.chain[i].session = s
  BY <1>6 DEF Begins
<1>7. LeaseOrClaimAhead'
  <2>1. ClaimAhead(t, 0)'
    BY <1>1, <1>3, <1>4 DEF ClaimAhead
  <2> QED BY <1>1, <2>1 DEF LeaseDiscipline, LeaseOrClaimAhead, ClaimAhead
<1>8. FinishBeforeClaim'
  <2>1. ASSUME NEW u \in Tabs, NEW i \in DOMAIN recorder'[u].chain,
               recorder'[u].chain[i].kind = "finish", recorder'[u].session # NoSession
        PROVE  ClaimAhead(u, i)'
    <3>1. CASE u # t
      BY <1>1, <2>1, <3>1 DEF LeaseDiscipline, FinishBeforeClaim, ClaimAhead
    <3>2. CASE u = t
      <4>1. i \in DOMAIN a.chain
        BY <1>1, <2>1, <3>2 DEF Begins
      <4>2. n > i
        BY <4>1, ChainFacts
      <4> QED BY <1>1, <1>3, <1>4, <3>2, <4>2 DEF ClaimAhead
    <3> QED BY <3>1, <3>2
  <2> QED BY <2>1 DEF FinishBeforeClaim
<1>9. OpensFreshRow'
  <2>1. ASSUME NEW u \in Tabs, NEW i \in DOMAIN recorder'[u].chain,
               recorder'[u].chain[i].kind = "open"
        PROVE  archive'[recorder'[u].chain[i].session].state = "absent"
    <3>1. CASE u # t
      BY <1>1, <2>1, <3>1 DEF LeaseDiscipline, OpensFreshRow
    <3>2. CASE u = t /\ i \in DOMAIN a.chain
      BY <1>1, <1>5, <2>1, <3>2 DEF LeaseDiscipline, OpensFreshRow, Kept
    <3>3. CASE u = t /\ i \notin DOMAIN a.chain
      BY <1>1, <1>6, <2>1, <3>3 DEF Unused
    <3> QED BY <3>1, <3>2, <3>3
  <2> QED BY <2>1 DEF OpensFreshRow
<1>10. OneOpenJob'
  <2>1. ASSUME NEW u \in Tabs,
               NEW i \in DOMAIN recorder'[u].chain, NEW j \in DOMAIN recorder'[u].chain,
               recorder'[u].chain[i].kind = "open", recorder'[u].chain[j].kind = "open",
               recorder'[u].chain[i].session = recorder'[u].chain[j].session
        PROVE  i = j
    <3>1. CASE u # t
      BY <1>1, <2>1, <3>1 DEF LeaseDiscipline, OneOpenJob
    <3>2. CASE u = t /\ i \in DOMAIN a.chain /\ j \in DOMAIN a.chain
      BY <1>1, <1>5, <2>1, <3>2 DEF LeaseDiscipline, OneOpenJob, Kept
    <3>3. CASE u = t /\ (i \notin DOMAIN a.chain \/ j \notin DOMAIN a.chain)
      BY <1>1, <1>5, <1>6, <2>1, <3>3
    <3> QED BY <3>1, <3>2, <3>3
  <2> QED BY <2>1 DEF OneOpenJob
<1>11. OneOwner'
  <2>1. ASSUME NEW u \in Tabs, NEW z \in Sessions, RefersTo(u, z)'
        PROVE  (u = t /\ z = s) \/ (z # s /\ RefersTo(u, z))
    <3>1. CASE u # t
      <4>1. RefersTo(u, z)
        BY <1>1, <2>1, <3>1 DEF RefersTo
      <4> QED BY <4>1 DEF Unused
    <3>2. CASE u = t /\ z # s
      <4>1. PICK i \in DOMAIN q.chain : q.chain[i].session = z
        BY <1>1, <1>3, <2>1, <3>2 DEF RefersTo
      <4>2. i \in DOMAIN a.chain /\ q.chain[i] = a.chain[i] /\ i + 0 = i
        BY <3>2, <4>1, ChainFacts DEF Begins
      <4>3. \/ i \in DOMAIN r.chain /\ Kept(a.chain[i], r.chain[i])
            \/ Added(r, a, a.chain[i])
        BY <4>2 DEF Keeps
      <4> QED BY <3>2, <4>1, <4>2, <4>3 DEF Kept, Added, RefersTo
    <3> QED BY <3>1, <3>2
  <2> QED BY <2>1 DEF LeaseDiscipline, OneOwner
<1>12. OnlyLiveTabsHaveSessions'
  BY <1>1 DEF LeaseDiscipline, OnlyLiveTabsHaveSessions, Live
<1> QED BY <1>7, <1>8, <1>9, <1>10, <1>11, <1>12 DEF LeaseDiscipline

-----------------------------------------------------------------------------
(* The calls of telemetry. *)

LEMMA ObserveDiscipline ==
  ASSUME TypeOK, LeaseDiscipline, TypeOK', NEW t \in Tabs, Observe(t)
  PROVE  LeaseDiscipline'
<1> DEFINE after == Followed(t)
<1>1. after \in Recorders /\ recorder[t] \in Recorders
  BY FollowedType
<1>2. Keeps(recorder[t], after, 0, 0)
  BY <1>1, FollowArchiveKeeps DEF Followed
<1>3. Live(t) /\ UNCHANGED <<phase, lease, archive>>
  BY DEF Observe, Elsewhere
<1> HIDE DEF after
<1>4. ASSUME after.session # NoSession, NEW frame \in Frames,
             recorder' = [recorder EXCEPT
                            ![t] = NotedRecorder(after, memory[after.session], frame)]
      PROVE  LeaseDiscipline'
  <2> DEFINE q == NotedRecorder(after, memory[after.session], frame)
  <2>1. after.session \in Sessions
    BY <1>1, <1>4 DEF Recorders
  <2>2. q \in Recorders /\ Keeps(after, q, 0, 0)
    BY <1>1, <2>1, NotedKeeps, NotedRecorderType
  <2>3. Keeps(recorder[t], q, 0, 0)
    BY <1>1, <1>2, <2>2, KeepsTwice
  <2> HIDE DEF q
  <2>4. recorder' = [recorder EXCEPT ![t] = q]
    BY <1>4 DEF q
  <2> QED BY <1>3, <2>3, <2>4, CallDiscipline
<1>5. ASSUME NEW s \in Sessions, NEW identified \in BOOLEAN, NEW frame \in Frames,
             CanOpen(t, after, s), NEW m,
             recorder' = [recorder EXCEPT
               ![t] = NotedRecorder(Opened(t, after, s, identified), m, frame)]
      PROVE  LeaseDiscipline'
  <2> DEFINE b == Opened(t, after, s, identified)
  <2>1. b \in Recorders /\ Begins(after, b, s)
    BY <1>1, OpenedType, OpenedBegins
  <2>2. Begins(after, NotedRecorder(b, m, frame), s)
    BY <1>1, <2>1, NotedBegins
  <2>3. Unused(s)
    BY <1>5 DEF CanOpen
  <2> QED BY <1>1, <1>2, <1>3, <1>5, <2>2, <2>3, OpenDiscipline
<1>6. CASE recorder' = [recorder EXCEPT ![t] = after]
  BY <1>2, <1>3, <1>6, CallDiscipline
<1> QED BY <1>4, <1>5, <1>6 DEF Observe, after

LEMMA CallsDiscipline ==
  ASSUME TypeOK, LeaseDiscipline, TypeOK', NEW t \in Tabs,
         \/ EndStream(t) \/ Checkpoint(t) \/ EndWatch(t) \/ Identify(t)
         \/ HoldOpenForRejoin(t) \/ ReleaseRejoinHold(t)
         \/ RetryIntervalEnds(t) \/ HearAnnouncement(t)
  PROVE  LeaseDiscipline'
<1> DEFINE r == recorder[t]
<1>1. r \in Recorders /\ (r.session # NoSession => r.session \in Sessions)
  BY TypeFacts
<1>2. CASE EndStream(t) \/ Checkpoint(t)
  <2>1. Keeps(r, Flush(r, memory[r.session]), 0, 0)
    BY <1>1, <1>2, FlushKeeps DEF EndStream, Checkpoint
  <2> QED BY <1>2, <2>1, CallDiscipline DEF EndStream, Checkpoint, Elsewhere
<1>3. CASE EndWatch(t)
  BY <1>1, <1>3, FinishKeeps, CallDiscipline DEF EndWatch, Elsewhere
<1>4. CASE Identify(t)
  <2>1. Keeps(r, Enqueue(r, DeviceJob(r.session)), 0, 0) /\ Keeps(r, r, 0, 0)
    BY <1>1, <1>4, JobTypes, JobFields, EnqueueKeeps, KeepsSame DEF Identify
  <2> QED BY <1>4, <2>1, CallDiscipline DEF Identify, Elsewhere
<1>5. CASE HoldOpenForRejoin(t) \/ ReleaseRejoinHold(t)
  <2>1. \A held \in BOOLEAN : /\ [r EXCEPT !.held = held] \in Recorders
                              /\ Keeps(r, [r EXCEPT !.held = held], 0, 0)
    <3>1. \A held \in BOOLEAN : /\ [r EXCEPT !.held = held] \in Recorders
                                /\ [r EXCEPT !.held = held].session = r.session
                                /\ [r EXCEPT !.held = held].chain = r.chain
      BY <1>1 DEF Recorders
    <3> QED BY <1>1, <3>1, KeepsSame
  <2>2. PICK held \in BOOLEAN : recorder' = [recorder EXCEPT ![t] = [r EXCEPT !.held = held]]
    BY <1>5 DEF HoldOpenForRejoin, ReleaseRejoinHold
  <2>3. UNCHANGED <<phase, lease, archive>>
    BY <1>5 DEF HoldOpenForRejoin, ReleaseRejoinHold, Elsewhere
  <2> QED BY <2>1, <2>2, <2>3, CallDiscipline
<1>6. CASE RetryIntervalEnds(t)
  <2>1. /\ [r EXCEPT !.refusal = "due"] \in Recorders
        /\ [r EXCEPT !.refusal = "due"].session = r.session
        /\ [r EXCEPT !.refusal = "due"].chain = r.chain
    BY <1>1 DEF Recorders
  <2>2. Keeps(r, [r EXCEPT !.refusal = "due"], 0, 0)
    BY <1>1, <2>1, KeepsSame
  <2> QED BY <1>6, <2>2, CallDiscipline DEF RetryIntervalEnds, Elsewhere
<1>7. CASE HearAnnouncement(t)
  BY <1>1, <1>7, AnnouncedKeeps, CallDiscipline DEF HearAnnouncement, Elsewhere
<1> QED BY <1>2, <1>3, <1>4, <1>5, <1>6, <1>7

LEMMA TickDiscipline ==
  ASSUME TypeOK, LeaseDiscipline, TypeOK', NEW t \in Tabs, Tick(t)
  PROVE  LeaseDiscipline'
<1> DEFINE r == recorder[t]
           after == Followed(t)
<1>1. r \in Recorders /\ after \in Recorders
  BY FollowedType
<1>2. Keeps(r, after, 0, 0)
  BY <1>1, FollowArchiveKeeps DEF Followed
<1> HIDE DEF after
<1>3. Finish(after) \in Recorders /\ Keeps(r, Finish(after), 0, 0)
  BY <1>1, <1>2, FinishKeeps, FinishType, KeepsTwice
<1>4. ASSUME after.session # NoSession, NEW m
      PROVE  Keeps(r, Flush(after, m), 0, 0)
  <2>1. after.session \in Sessions
    BY <1>1, <1>4 DEF Recorders
  <2> QED BY <1>1, <1>2, <2>1, FlushKeeps, FlushType, KeepsTwice
<1>5. /\ \/ recorder' = [recorder EXCEPT ![t] = after]
         \/ recorder' = [recorder EXCEPT ![t] = Finish(after)]
         \/ /\ after.session # NoSession
            /\ recorder' = [recorder EXCEPT ![t] = Flush(after, memory[after.session])]
      /\ UNCHANGED <<phase, lease, archive>>
  BY DEF Tick, Elsewhere, after
<1> QED BY <1>2, <1>3, <1>4, <1>5, CallDiscipline

LEMMA DeviceChangedDiscipline ==
  ASSUME TypeOK, LeaseDiscipline, TypeOK', NEW t \in Tabs, DeviceChanged(t)
  PROVE  LeaseDiscipline'
<1> DEFINE r == Finish(recorder[t])
<1>1. r \in Recorders /\ Keeps(recorder[t], r, 0, 0)
  BY TypeFacts, FinishType, FinishKeeps
<1>2. Live(t) /\ UNCHANGED <<phase, lease, archive>>
  BY DEF DeviceChanged, Elsewhere
<1> HIDE DEF r
<1>3. ASSUME NEW s \in Sessions, CanOpen(t, r, s),
             recorder' = [recorder EXCEPT ![t] = Opened(t, r, s, TRUE)]
      PROVE  LeaseDiscipline'
  <2>1. Begins(r, Opened(t, r, s, TRUE), s)
    BY <1>1, OpenedBegins
  <2>2. Unused(s)
    BY <1>3 DEF CanOpen
  <2> QED BY <1>1, <1>2, <1>3, <2>1, <2>2, OpenDiscipline
<1>4. CASE recorder' = [recorder EXCEPT ![t] = r]
  BY <1>1, <1>2, <1>4, CallDiscipline
<1> QED BY <1>3, <1>4 DEF DeviceChanged, r

LEMMA DisposeDiscipline ==
  ASSUME TypeOK, LeaseDiscipline, TypeOK', NEW t \in Tabs, Dispose(t)
  PROVE  LeaseDiscipline'
<1> DEFINE r == recorder[t]
           f == Flush(r, memory[r.session])
<1>1. r \in Recorders
  BY TypeFacts
<1>2. /\ Keeps(r, recorder'[t], 0, 0) /\ recorder'[t].session = NoSession
      /\ \A u \in Tabs \ {t} : recorder'[u] = recorder[u]
  <2>1. CASE r.session = NoSession
    BY <1>1, <2>1, KeepsSame DEF Dispose
  <2>2. CASE r.session # NoSession
    <3>1. r.session \in Sessions
      BY <2>2, TypeFacts
    <3>2. f \in Recorders /\ Keeps(r, f, 0, 0)
      BY <1>1, <3>1, FlushType, FlushKeeps
    <3>3. Stop(f) \in Recorders /\ Keeps(r, Stop(f), 0, 0) /\ Stop(f).session = NoSession
      BY <1>1, <3>2, StopType, StopKeeps, StopFields, KeepsTwice
    <3>4. recorder' = [recorder EXCEPT ![t] = Stop(f)]
      BY <2>2 DEF Dispose, Released
    <3> QED BY <3>3, <3>4 DEF TypeOK
  <2> QED BY <2>1, <2>2
<1>3. archive' = archive /\ \A u \in Tabs \ {t} : lease = u => lease' = u
  BY DEF Dispose, Released
<1>5. \A u \in Tabs \ {t} : Live(u) => phase'[u] = "live"
  BY DEF Dispose, Live, TypeOK
<1>4. OpensFreshRow'
  BY <1>2, <1>3, FreshKept
<1> QED BY <1>2, <1>3, <1>4, <1>5, DisciplineKept

-----------------------------------------------------------------------------
(* The steps of the promise chain. *)

LEMMA KeepsLike ==
  ASSUME NEW r \in Recorders, NEW a \in Recorders, NEW q \in Recorders,
         NEW popped, NEW touched, Keeps(r, a, popped, touched),
         q.session = a.session, q.chain = a.chain
  PROVE  Keeps(r, q, popped, touched)
  BY DEF Keeps, Added

\* The head of a chain that is not about to claim, and the closing at the head
\* of a chain, leave the claim of the session that stands behind them.
LEMMA HeadFacts ==
  ASSUME TypeOK, NEW t \in Tabs, NEW kind, NEW step, AtStep(t, kind, step)
  PROVE  /\ 1 \in DOMAIN recorder[t].chain
         /\ recorder[t].chain[1].kind = kind
         /\ recorder[t].chain[1].step = step
         /\ recorder[t].chain[1].session = JobSession(t)
         /\ JobSession(t) \in Sessions
         /\ recorder[t] \in Recorders
         /\ recorder[t].chain # <<>>
<1>1. recorder[t] \in Recorders /\ recorder[t].chain # <<>> /\ JobSession(t) \in Sessions
  BY AtStepFacts
<1>2. 1 \in DOMAIN recorder[t].chain /\ Head(recorder[t].chain) = recorder[t].chain[1]
  BY <1>1, ChainFacts
<1> QED BY <1>1, <1>2 DEF AtStep, JobSession

LEMMA JobDiscipline ==
  ASSUME TypeOK, LeaseDiscipline, TypeOK', NEW t \in Tabs,
         NEW kind, NEW step, AtStep(t, kind, step), kind # "open" \/ step # "claim",
         NEW popped \in {0, 1}, Keeps(recorder[t], recorder'[t], popped, 1),
         \A u \in Tabs \ {t} : recorder'[u] = recorder[u],
         \A s \in Sessions : archive[s].state = "absent" => archive'[s].state = "absent",
         UNCHANGED <<phase, lease>>
  PROVE  LeaseDiscipline'
<1>1. recorder[t].chain[1] # OpenJob(recorder[t].session)
  BY HeadFacts DEF OpenJob, Job
<1>2. OpensFreshRow'
  BY FreshKept
<1>3. \A u \in Tabs : Live(u) => phase'[u] = "live"
  BY DEF Live
<1> QED BY <1>1, <1>2, <1>3, DisciplineKept

\* A job that ends.
LEMMA DoneDiscipline ==
  ASSUME TypeOK, LeaseDiscipline, TypeOK', NEW t \in Tabs,
         NEW kind, NEW step, AtStep(t, kind, step), kind # "open" \/ step # "claim",
         recorder' = [recorder EXCEPT ![t] = Done(recorder[t])],
         \A s \in Sessions : archive[s].state = "absent" => archive'[s].state = "absent",
         UNCHANGED <<phase, lease>>
  PROVE  LeaseDiscipline'
<1>1. recorder'[t] = Done(recorder[t]) /\ \A u \in Tabs \ {t} : recorder'[u] = recorder[u]
  BY DEF TypeOK
<1>2. Keeps(recorder[t], recorder'[t], 1, 1)
  BY <1>1, HeadFacts, KeepsDone
<1> QED BY <1>1, <1>2, JobDiscipline

\* A job whose writePending goes on or returns.
LEMMA WriteKeeps ==
  ASSUME TypeOK, NEW t \in Tabs, NEW r \in Recorders, r.chain # <<>>,
         Keeps(recorder[t], r, 0, 0),
         NEW m, WriteEnds(t, r) \/ WritePending(t, r, m)
  PROVE  /\ Keeps(recorder[t], recorder'[t], 0, 1)
         /\ \A u \in Tabs \ {t} : recorder'[u] = recorder[u]
<1>1. PICK step \in Steps : recorder' = [recorder EXCEPT ![t] = Step(r, step)]
  BY DEF WriteEnds, WritePending, WriteOn, Steps
<1>2. recorder'[t] = Step(r, step) /\ \A u \in Tabs \ {t} : recorder'[u] = recorder[u]
  BY <1>1 DEF TypeOK
<1>3. Step(r, step) \in Recorders /\ Keeps(r, Step(r, step), 0, 1)
  BY StepType, KeepsStep
<1>4. recorder[t] \in Recorders
  BY DEF TypeOK
<1> QED BY <1>2, <1>3, <1>4, KeepsTwice

LEMMA ClaimGrantedDiscipline ==
  ASSUME TypeOK, LeaseDiscipline, TypeOK', NEW t \in Tabs, ClaimGranted(t)
  PROVE  LeaseDiscipline'
<1> DEFINE r == recorder[t]
           a == Step(r, "put")
           q == [a EXCEPT !.refusal = "none", !.announced = FALSE]
<1>1. r \in Recorders /\ r.chain # <<>>
  BY HeadFacts DEF ClaimGranted
<1>2. a \in Recorders /\ Keeps(r, a, 0, 1)
  BY <1>1, StepType, KeepsStep DEF Steps
<1>3. recorder' = [recorder EXCEPT ![t] = q]
  BY DEF ClaimGranted
<1> HIDE DEF a
<1>4. q \in Recorders /\ q.session = a.session /\ q.chain = a.chain
  BY <1>2 DEF Recorders
<1> HIDE DEF q
<1>5. Keeps(r, q, 0, 1)
  BY <1>1, <1>2, <1>4, KeepsLike
<1>6. recorder'[t] = q /\ \A u \in Tabs \ {t} : recorder'[u] = recorder[u]
  BY <1>3 DEF TypeOK
<1>7. /\ lease' = t /\ lease \in {NoTab, t} /\ UNCHANGED <<phase, archive>>
      /\ \A u \in Tabs : Live(u) => phase'[u] = "live"
  BY DEF ClaimGranted, LockFree, Live
<1>8. OpensFreshRow'
  BY <1>5, <1>6, <1>7, FreshKept
<1> QED BY <1>5, <1>6, <1>7, <1>8, SessionRecorderAssumption, DisciplineKept

LEMMA ClaimRefusedDiscipline ==
  ASSUME TypeOK, LeaseDiscipline, TypeOK', NEW t \in Tabs, ClaimRefused(t)
  PROVE  LeaseDiscipline'
<1> DEFINE r == recorder[t]
           s == JobSession(t)
           a == StandDown(r, s)
<1>1. r \in Recorders /\ r.chain # <<>> /\ s \in Sessions /\ r.chain[1].session = s
  BY HeadFacts DEF ClaimRefused
<1>2. a \in Recorders /\ Keeps(r, a, 0, 0) /\ a.chain = r.chain
  BY <1>1, StandDownType, StandDownKeeps DEF StandDown, Stop, Recorders
<1>3. a.session # s
  BY <1>1, SessionRecorderAssumption DEF StandDown, Stop, Recorders
<1>4. recorder' = [recorder EXCEPT ![t] = Done(a)]
  BY DEF ClaimRefused
<1> HIDE DEF a
<1>5. /\ Done(a) \in Recorders /\ Done(a).session = a.session
      /\ Keeps(a, Done(a), 1, 1)
  BY <1>1, <1>2, DoneType, KeepsDone DEF Done, Recorders
<1>6. Keeps(r, Done(a), 1, 1)
  BY <1>1, <1>2, <1>5, KeepsTwice
<1>7. recorder'[t] = Done(a) /\ \A u \in Tabs \ {t} : recorder'[u] = recorder[u]
  BY <1>4 DEF TypeOK
<1>8. /\ lease # t /\ UNCHANGED <<phase, lease, archive>>
      /\ \A u \in Tabs : Live(u) => phase'[u] = "live"
  BY DEF ClaimRefused, Live
<1>9. OpensFreshRow'
  BY <1>6, <1>7, <1>8, FreshKept
\* The claim at the head was that of s, and s no longer stands.
<1>10. recorder'[t].session # NoSession => r.chain[1] # OpenJob(r.session)
  <2>1. recorder'[t].session \in {r.session, NoSession}
    BY <1>6, <1>7 DEF Keeps
  <2>2. recorder'[t].session # s
    BY <1>3, <1>5, <1>7
  <2>3. OpenJob(r.session).session = r.session
    BY DEF OpenJob, Job
  <2> QED BY <1>1, <2>1, <2>2, <2>3
<1> QED BY <1>6, <1>7, <1>8, <1>9, <1>10, DisciplineKept

LEMMA PutSessionDiscipline ==
  ASSUME TypeOK, LeaseDiscipline, TypeOK', NEW t \in Tabs, PutSession(t)
  PROVE  LeaseDiscipline'
<1> DEFINE r == recorder[t]
           s == JobSession(t)
<1>1. /\ r \in Recorders /\ r.chain # <<>> /\ s \in Sessions /\ 1 \in DOMAIN r.chain
      /\ r.chain[1].kind = "open" /\ r.chain[1].step = "put" /\ r.chain[1].session = s
  BY HeadFacts DEF PutSession
<1>2. recorder'[t] = Done(r) /\ \A u \in Tabs \ {t} : recorder'[u] = recorder[u]
  BY DEF PutSession, TypeOK
<1>3. Keeps(r, recorder'[t], 1, 1)
  BY <1>1, <1>2, KeepsDone
<1>4. r.chain[1] # OpenJob(r.session)
  BY <1>1 DEF OpenJob, Job
<1>5. /\ \A u \in Tabs \ {t} : lease = u => lease' = u
      /\ lease = t /\ recorder'[t].session # NoSession => lease' = t
      /\ \A u \in Tabs : Live(u) => phase'[u] = "live"
  <2>1. recorder'[t].session # NoSession => r.session # NoSession
    BY <1>3 DEF Keeps
  <2>2. recorder'[t].session # NoSession => Live(t)
    BY <2>1 DEF LeaseDiscipline, OnlyLiveTabsHaveSessions
  <2> QED BY <2>2 DEF PutSession, Released, Live
\* No other open job waits for the row that is written.
<1>6. OpensFreshRow'
  <2>1. ASSUME NEW u \in Tabs, NEW i \in DOMAIN recorder'[u].chain,
               recorder'[u].chain[i].kind = "open"
        PROVE  archive'[recorder'[u].chain[i].session].state = "absent"
    <3> DEFINE z == recorder'[u].chain[i].session
    <3>1. z \in Sessions
      BY <2>1, ChainFacts DEF TypeOK
    <3>2. archive[z].state = "absent" /\ z # s
      <4>1. CASE u # t
        <5>1. archive[z].state = "absent"
          BY <1>2, <2>1, <4>1 DEF LeaseDiscipline, OpensFreshRow
        <5>2. RefersTo(t, s) /\ RefersTo(u, z)
          BY <1>1, <1>2, <2>1, <4>1 DEF RefersTo
        <5> QED BY <3>1, <4>1, <5>1, <5>2 DEF LeaseDiscipline, OneOwner
      <4>2. CASE u = t
        <5>1. i + 1 \in DOMAIN r.chain /\ Kept(recorder'[t].chain[i], r.chain[i + 1])
          BY <1>3, <2>1, <4>2 DEF Keeps, Added
        <5>2. i + 1 # 1
          BY <2>1, ChainFacts DEF TypeOK
        <5> QED BY <1>1, <2>1, <4>2, <5>1, <5>2
                DEF Kept, LeaseDiscipline, OpensFreshRow, OneOpenJob
      <4> QED BY <4>1, <4>2
    <3>3. archive'[z] = archive[z]
      BY <1>1, <3>1, <3>2 DEF PutSession, TypeOK
    <3> QED BY <3>2, <3>3
  <2> QED BY <2>1 DEF OpensFreshRow
<1> QED BY <1>2, <1>3, <1>4, <1>5, <1>6, DisciplineKept

LEMMA FinishReleaseDiscipline ==
  ASSUME TypeOK, LeaseDiscipline, TypeOK', NEW t \in Tabs, FinishRelease(t)
  PROVE  LeaseDiscipline'
<1> DEFINE r == recorder[t]
           m == memory[JobSession(t)]
<1>1. /\ r \in Recorders /\ r.chain # <<>> /\ 1 \in DOMAIN r.chain
      /\ r.chain[1].kind = "finish"
  BY HeadFacts DEF FinishRelease
<1>2. PICK popped \in {0, 1} :
        /\ Keeps(r, recorder'[t], popped, 1)
        /\ \A u \in Tabs \ {t} : recorder'[u] = recorder[u]
  <2>1. CASE recorder' = [recorder EXCEPT ![t] = Done(r)]
    BY <1>1, <2>1, KeepsDone DEF TypeOK
  <2>2. CASE recorder' = [recorder EXCEPT ![t] = Step(r, "delete")]
    BY <1>1, <2>2, KeepsStep DEF TypeOK, Steps
  <2>3. CASE WritePending(t, r, m) \/ WriteEnds(t, r)
    <3>1. Keeps(r, r, 0, 0)
      BY <1>1, KeepsSame
    <3> QED BY <1>1, <2>3, <3>1, WriteKeeps
  <2> QED BY <2>1, <2>2, <2>3 DEF FinishRelease
<1>3. UNCHANGED <<phase, archive>> /\ \A u \in Tabs \ {t} : lease = u => lease' = u
  BY DEF FinishRelease, Released
<1>4. r.chain[1] # OpenJob(r.session)
  BY <1>1 DEF OpenJob, Job
\* A session that stands while this closing gives the lease back has its claim
\* behind it.
<1>5. recorder'[t].session # NoSession => ClaimAhead(t, 0)'
  <2>1. SUFFICES ASSUME recorder'[t].session # NoSession
                 PROVE  ClaimAhead(t, 0)'
    OBVIOUS
  <2>2. r.session # NoSession /\ recorder'[t].session = r.session
    BY <1>2, <2>1 DEF Keeps
  <2>3. PICK j \in DOMAIN r.chain : j > 1 /\ r.chain[j] = OpenJob(r.session)
    BY <1>1, <2>2 DEF LeaseDiscipline, FinishBeforeClaim, ClaimAhead
  <2>4. /\ j - popped \in DOMAIN recorder'[t].chain
        /\ recorder'[t].chain[j - popped] = OpenJob(r.session)
    BY <1>2, <2>1, <2>3 DEF Keeps
  <2>5. j - popped > 0
    BY <1>1, <2>3, ChainFacts
  <2> QED BY <2>2, <2>4, <2>5 DEF ClaimAhead
<1>6. OpensFreshRow'
  BY <1>2, <1>3, FreshKept
<1>7. \A u \in Tabs : Live(u) => phase'[u] = "live"
  BY <1>3 DEF Live
<1> QED BY <1>2, <1>3, <1>4, <1>5, <1>6, <1>7, DisciplineKept

LEMMA CommitDiscipline ==
  ASSUME TypeOK, LeaseDiscipline, TypeOK', NEW t \in Tabs,
         FlushPending(t) \/ CommitStored(t) \/ CommitLost(t) \/ CommitRefused(t)
  PROVE  LeaseDiscipline'
<1> DEFINE r == recorder[t]
           s == JobSession(t)
<1>1. PICK kind \in {"flush", "finish"}, step \in {"loop", "commit"} : AtStep(t, kind, step)
  BY DEF FlushPending, CommitStored, CommitLost, CommitRefused, InCommit
<1>2. r \in Recorders /\ r.chain # <<>> /\ s \in Sessions
  BY <1>1, HeadFacts
<1>3. PICK q, m :
        /\ q \in Recorders /\ q.chain # <<>> /\ Keeps(r, q, 0, 0)
        /\ WriteEnds(t, q) \/ WritePending(t, q, m)
  <2>1. Keeps(r, r, 0, 0)
    BY <1>2, KeepsSame
  <2>2. CASE FlushPending(t)
    BY <1>2, <2>1, <2>2 DEF FlushPending
  <2>3. CASE CommitStored(t)
    BY <1>2, <2>1, <2>3 DEF CommitStored
  <2>4. CASE CommitLost(t)
    <3>1. /\ AbandonLostSession(r, s) \in Recorders
          /\ AbandonLostSession(r, s).chain = r.chain
          /\ Keeps(r, AbandonLostSession(r, s), 0, 0)
      BY <1>2, AbandonType, AbandonKeeps DEF AbandonLostSession, Stop, Recorders
    <3> QED BY <1>2, <2>4, <3>1 DEF CommitLost
  <2>5. CASE CommitRefused(t)
    <3> DEFINE dropped == [memory[s] EXCEPT !.pending = Shift(@), !.dropped = @ + 1]
    <3>1. PICK latching \in BOOLEAN :
            \/ WriteEnds(t, RefusedRecorder(t, latching))
            \/ WritePending(t, RefusedRecorder(t, latching), dropped)
      BY <2>5 DEF CommitRefused
    <3> HIDE DEF dropped
    <3>2. /\ RefusedRecorder(t, latching) \in Recorders
          /\ RefusedRecorder(t, latching).chain # <<>>
      BY <1>2, <3>1, RefusedRecorderType
    <3>3. Keeps(r, RefusedRecorder(t, latching), 0, 0)
      <4> DEFINE a == FollowArchive([r EXCEPT !.announced = TRUE], FALSE)
                 failed(b) == [b EXCEPT !.failure = TRUE]
      <4>1. a \in Recorders /\ Keeps(r, a, 0, 0)
        BY <1>2, AnnouncedType, FollowArchiveType, AnnouncedKeeps
      <4>2. RefusedRecorder(t, latching) \in {failed(a), failed(r)}
        BY DEF RefusedRecorder
      <4> HIDE DEF a
      <4>3. \A b \in Recorders : /\ failed(b) \in Recorders
                                 /\ failed(b).session = b.session
                                 /\ failed(b).chain = b.chain
        BY DEF Recorders
      <4> HIDE DEF failed
      <4>4. Keeps(r, failed(a), 0, 0) /\ Keeps(r, failed(r), 0, 0)
        BY <1>2, <2>1, <4>1, <4>3, KeepsLike
      <4> QED BY <4>2, <4>4
    <3> QED BY <3>1, <3>2, <3>3
  <2> QED BY <2>2, <2>3, <2>4, <2>5
<1>4. /\ Keeps(r, recorder'[t], 0, 1)
      /\ \A u \in Tabs \ {t} : recorder'[u] = recorder[u]
  BY <1>3, WriteKeeps
<1>5. /\ UNCHANGED <<phase, lease>>
      /\ \A z \in Sessions : archive[z].state = "absent" => archive'[z].state = "absent"
  <2>1. CASE CommitStored(t)
    <3>1. /\ archive[s].state = "open"
          /\ \A z \in Sessions \ {s} : Spared(z) \/ Evicted(z)
          /\ UNCHANGED <<phase, lease>>
      BY <2>1, CommitStoredFacts DEF CommitStored
    <3> QED BY <3>1 DEF Spared, Evicted, Absent
  <2>2. CASE FlushPending(t) \/ CommitLost(t) \/ CommitRefused(t)
    BY <2>2 DEF FlushPending, CommitLost, CommitRefused
  <2> QED BY <2>1, <2>2
<1> QED BY <1>1, <1>4, <1>5, JobDiscipline

LEMMA JobEndsDiscipline ==
  ASSUME TypeOK, LeaseDiscipline, TypeOK', NEW t \in Tabs,
         \/ UpsertDevice(t) \/ FlushEnds(t) \/ DeleteShort(t) \/ CloseSession(t)
         \/ JobThrows(t)
  PROVE  LeaseDiscipline'
<1>1. PICK kind, step :
        /\ AtStep(t, kind, step) /\ (kind # "open" \/ step # "claim")
        /\ recorder' = [recorder EXCEPT ![t] = Done(recorder[t])]
        /\ UNCHANGED <<phase, lease>>
  <2>1. CASE UpsertDevice(t)
    BY <2>1 DEF UpsertDevice
  <2>2. CASE FlushEnds(t)
    BY <2>2 DEF FlushEnds, Elsewhere
  <2>3. CASE DeleteShort(t) \/ CloseSession(t)
    BY <2>3 DEF DeleteShort, CloseSession
  <2>4. CASE JobThrows(t)
    BY <2>4 DEF JobThrows
  <2> QED BY <2>1, <2>2, <2>3, <2>4
<1>2. \A z \in Sessions : archive[z].state = "absent" => archive'[z].state = "absent"
  <2>1. CASE DeleteShort(t)
    BY <2>1, AtStepFacts, RemovedFacts DEF DeleteShort, Absent, Spared
  <2>2. CASE CloseSession(t)
    BY <2>2, ArchiveFacts DEF CloseSession
  <2>3. CASE UpsertDevice(t) \/ FlushEnds(t) \/ JobThrows(t)
    BY <2>3 DEF UpsertDevice, FlushEnds, Elsewhere, JobThrows
  <2> QED BY <2>1, <2>2, <2>3
<1> QED BY <1>1, <1>2, DoneDiscipline

LEMMA AppendWarningDiscipline ==
  ASSUME TypeOK, LeaseDiscipline, TypeOK', NEW t \in Tabs, AppendWarning(t)
  PROVE  LeaseDiscipline'
<1> DEFINE r == recorder[t]
           a == FollowArchive([r EXCEPT !.announced = TRUE], TRUE)
<1>1. r \in Recorders /\ r.chain # <<>>
  BY HeadFacts DEF AppendWarning
<1>2. a \in Recorders /\ Keeps(r, a, 0, 0)
  BY <1>1, AnnouncedType, FollowArchiveType, AnnouncedKeeps
<1>3. a.chain # <<>>
  BY <1>1 DEF FollowArchive, Finish, Stop, Enqueue, Recorders
<1>4. recorder' = [recorder EXCEPT ![t] = Done(a)] \/ recorder' = [recorder EXCEPT ![t] = Done(r)]
  BY DEF AppendWarning
<1> HIDE DEF a
<1>5. Keeps(r, Done(a), 1, 1) /\ Keeps(r, Done(r), 1, 1)
  BY <1>1, <1>2, <1>3, DoneType, KeepsDone, KeepsTwice
<1>6. Keeps(r, recorder'[t], 1, 1) /\ \A u \in Tabs \ {t} : recorder'[u] = recorder[u]
  BY <1>4, <1>5 DEF TypeOK
<1> QED BY <1>6, JobDiscipline DEF AppendWarning

LEMMA PruneDiscipline ==
  ASSUME TypeOK, LeaseDiscipline, TypeOK', NEW t \in Tabs, PruneToBudget(t)
  PROVE  LeaseDiscipline'
<1>1. \A z \in Sessions : archive[z].state = "absent" => archive'[z].state = "absent"
  BY PruneFacts DEF Spared, Evicted, Absent
<1> QED BY <1>1, ElsewhereDiscipline DEF PruneToBudget, Live

LEMMA JobStepDiscipline ==
  ASSUME TypeOK, LeaseDiscipline, TypeOK', NEW t \in Tabs, JobStep(t)
  PROVE  LeaseDiscipline'
  BY ClaimGrantedDiscipline, ClaimRefusedDiscipline, PutSessionDiscipline,
     FinishReleaseDiscipline, CommitDiscipline, JobEndsDiscipline,
     AppendWarningDiscipline, PruneDiscipline
  DEF JobStep

-----------------------------------------------------------------------------
(* The environment. *)

LEMMA EnvironmentDiscipline ==
  ASSUME TypeOK, LeaseDiscipline, TypeOK', NEW t \in Tabs, Environment(t)
  PROVE  LeaseDiscipline'
<1>1. CASE Resume(t) \/ Silence(t) \/ SwapStore(t) \/ SwapBack(t)
  BY <1>1, ElsewhereDiscipline DEF Resume, Silence, SwapStore, SwapBack, Live
<1>2. CASE StandDownStore(t)
  <2>1. recorder[t] \in Recorders
    BY TypeFacts
  <2> QED BY <1>2, <2>1, AnnouncedKeeps, CallDiscipline DEF StandDownStore
<1>3. CASE ClosePage(t)
  <2>1. /\ recorder'[t] = IdleRecorder
        /\ \A u \in Tabs \ {t} : recorder'[u] = recorder[u]
        /\ archive' = archive
        /\ \A u \in Tabs \ {t} : (lease = u => lease' = u) /\ phase'[u] = phase[u]
    BY <1>3 DEF ClosePage, TypeOK
  <2>2. IdleRecorder.session = NoSession /\ IdleRecorder.chain = <<>>
    BY DEF IdleRecorder
  <2>3. Keeps(recorder[t], recorder'[t], 0, 0)
    BY <2>1, <2>2 DEF Keeps
  <2>4. OpensFreshRow'
    BY <2>1, <2>3, FreshKept
  <2>5. \A u \in Tabs : Live(u) => phase'[u] = "live" \/ recorder'[u].session = NoSession
    BY <2>1, <2>2 DEF Live
  <2> QED BY <2>1, <2>2, <2>3, <2>4, <2>5, DisciplineKept
<1>4. CASE OpenPage(t)
  <2>1. ASSUME NEW s \in Sessions, archive[s].state = "absent"
        PROVE  archive'[s].state = "absent"
    <3>1. Spared(s) \/ Evicted(s) \/ SweptAway(s)
      BY <1>4, OpenPageFacts
    <3> QED BY <2>1, <3>1 DEF Spared, Evicted, SweptAway, Absent
  <2>2. \A u \in Tabs : Live(u) => phase'[u] = "live"
    BY <1>4 DEF OpenPage, Live, TypeOK
  <2> QED BY <1>4, <2>1, <2>2, ElsewhereDiscipline DEF OpenPage
<1>5. ASSUME NEW s \in Sessions, DeleteSession(t, s)
      PROVE  LeaseDiscipline'
  <2>1. \A z \in Sessions : archive[z].state = "absent" => archive'[z].state = "absent"
    BY <1>5, RemovedFacts DEF DeleteSession, Absent, Spared
  <2> QED BY <1>5, <2>1, ElsewhereDiscipline DEF DeleteSession, Live
<1> QED BY <1>1, <1>2, <1>3, <1>4, <1>5 DEF Environment

-----------------------------------------------------------------------------
(* The theorems. *)

LEMMA InitDiscipline == Init => LeaseDiscipline
<1> SUFFICES ASSUME Init
             PROVE  LeaseDiscipline
  OBVIOUS
<1>1. \A t \in Tabs : recorder[t].session = NoSession /\ DOMAIN recorder[t].chain = {}
  <2>1. /\ IdleRecorder.session = NoSession /\ IdleRecorder.chain = <<>>
        /\ DOMAIN IdleRecorder.chain = {}
    BY DEF IdleRecorder
  <2>2. \A t \in Tabs : recorder[t] = IdleRecorder
    BY DEF Init
  <2> QED BY <2>1, <2>2
<1>2. \A t \in Tabs, s \in Sessions : ~RefersTo(t, s)
  BY <1>1, SessionRecorderAssumption DEF RefersTo
<1> QED BY <1>1, <1>2 DEF LeaseDiscipline, OnlyLiveTabsHaveSessions, LeaseOrClaimAhead,
             FinishBeforeClaim, OpensFreshRow, OneOpenJob, OneOwner

LEMMA NextDiscipline == TypeOK /\ LeaseDiscipline /\ [Next]_vars => LeaseDiscipline'
<1> SUFFICES ASSUME TypeOK, LeaseDiscipline, [Next]_vars
             PROVE  LeaseDiscipline'
  OBVIOUS
<1>1. TypeOK'
  BY NextType
<1>2. CASE UNCHANGED vars
  BY <1>2, ElsewhereDiscipline DEF vars, Live
<1>3. ASSUME NEW t \in Tabs, TabStep(t)
      PROVE  LeaseDiscipline'
  BY <1>1, <1>3, ObserveDiscipline, CallsDiscipline, TickDiscipline,
     DeviceChangedDiscipline, DisposeDiscipline, JobStepDiscipline
  DEF TabStep
<1>4. ASSUME NEW t \in Tabs, Environment(t)
      PROVE  LeaseDiscipline'
  BY <1>1, <1>4, EnvironmentDiscipline
<1> QED BY <1>2, <1>3, <1>4 DEF Next

\* A standing session holds the lease or is about to claim it behind every
\* closing that gives it back, in every reachable state.
THEOREM LeaseDisciplineHolds == Spec => []LeaseDiscipline
  BY InitType, NextType, InitDiscipline, NextDiscipline, PTL DEF Spec

LEMMA DisciplineSuffices ==
  ASSUME TypeOK, LeaseDiscipline
  PROVE  StandingSessionHoldsLease
<1> SUFFICES ASSUME NEW t \in Tabs, Recording(t), lease # t
             PROVE  FALSE
  BY DEF StandingSessionHoldsLease
<1>1. PICK j \in DOMAIN recorder[t].chain :
        recorder[t].chain[j] = OpenJob(recorder[t].session)
  BY DEF Recording, LeaseDiscipline, LeaseOrClaimAhead, ClaimAhead
<1>2. OpenJob(recorder[t].session).kind = "open"
      /\ OpenJob(recorder[t].session).session = recorder[t].session
  BY DEF OpenJob, Job
<1>3. archive[recorder[t].session].state = "absent"
  BY <1>1, <1>2 DEF LeaseDiscipline, OpensFreshRow
<1> QED BY <1>3 DEF Recording

\* A tab whose session is an open row of the archive holds the recording lease,
\* so two tabs never record at once: not while one finishes and reopens, not
\* after a refusal, a swept row, a failed write or a closed page.
THEOREM RecordingHoldsLease == Spec => []StandingSessionHoldsLease
  BY TypeCorrect, LeaseDisciplineHolds, DisciplineSuffices, PTL

-----------------------------------------------------------------------------
(* The recorders of all tabs implement OneRecorder. *)

\* The lease is handed over only through nobody's hands.
LEMMA LeaseStep ==
  ASSUME [Next]_vars
  PROVE  lease' = lease \/ lease = NoTab \/ lease' = NoTab
<1>1. ASSUME NEW t \in Tabs, TabStep(t)
      PROVE  lease' = lease \/ lease = NoTab \/ lease' = NoTab
  <2>1. ASSUME JobStep(t)
        PROVE  lease' = lease \/ lease = NoTab \/ lease' = NoTab
    <3>1. CASE ClaimGranted(t)
      BY <3>1, SessionRecorderAssumption DEF ClaimGranted, LockFree
    <3>2. CASE PutSession(t) \/ FinishRelease(t)
      BY <3>2 DEF PutSession, FinishRelease, Released
    <3>3. CASE ~ClaimGranted(t) /\ ~PutSession(t) /\ ~FinishRelease(t)
      BY <2>1, <3>3 DEF JobStep, ClaimRefused, UpsertDevice, AppendWarning, FlushPending,
                        FlushEnds, CommitStored, CommitLost, CommitRefused, DeleteShort,
                        CloseSession, PruneToBudget, JobThrows, Elsewhere
    <3> QED BY <3>1, <3>2, <3>3
  <2>2. ASSUME Dispose(t)
        PROVE  lease' = lease \/ lease = NoTab \/ lease' = NoTab
    BY <2>2 DEF Dispose, Released
  <2>3. ASSUME ~JobStep(t), ~Dispose(t)
        PROVE  lease' = lease
    BY <1>1, <2>3 DEF TabStep, Observe, EndStream, Checkpoint, Tick, EndWatch, Identify,
                      DeviceChanged, HoldOpenForRejoin, ReleaseRejoinHold,
                      RetryIntervalEnds, HearAnnouncement, Elsewhere
  <2> QED BY <2>1, <2>2, <2>3
<1>2. ASSUME NEW t \in Tabs, Environment(t)
      PROVE  lease' = lease \/ lease = NoTab \/ lease' = NoTab
  BY <1>2 DEF Environment, Resume, Silence, StandDownStore, SwapStore, SwapBack,
              ClosePage, OpenPage, DeleteSession
<1> QED BY <1>1, <1>2 DEF Next, vars

LEMMA KeeperHoldsLease ==
  ASSUME StandingSessionHoldsLease
  PROVE  Keepers \subseteq {lease} \cap Tabs
  BY DEF StandingSessionHoldsLease, Keepers

LEMMA InitKeeps == Init => Log!Init
  BY DEF Init, IdleRecorder, Log!Init, Keepers, Recording

LEMMA NextKeeps ==
  ASSUME StandingSessionHoldsLease, StandingSessionHoldsLease', [Next]_vars
  PROVE  [Log!Next]_Keepers
<1>1. Keepers \subseteq {lease} \cap Tabs
  BY KeeperHoldsLease
<1>2. Keepers' \subseteq {lease'} \cap Tabs
  BY DEF StandingSessionHoldsLease, Keepers
<1>3. lease' = lease \/ Keepers = {} \/ Keepers' = {}
  BY <1>1, <1>2, LeaseStep, SessionRecorderAssumption
<1>4. \/ Keepers' = Keepers
      \/ Keepers = {} /\ \E t \in Tabs : Keepers' = {t}
      \/ Keepers' = {} /\ \E t \in Tabs : Keepers = {t}
  BY <1>1, <1>2, <1>3
<1> QED BY <1>4 DEF Log!Next, Log!StartsKeeping, Log!StopsKeeping

\* Seen from outside, the log has one keeper, and another tab takes it over
\* only in a later step than the one in which its keeper stops.
THEOREM ImplementsOneRecorder == Spec => OneTabRecordsAtATime
<1>1. Init => Log!Init
  BY InitKeeps
<1>2. StandingSessionHoldsLease /\ StandingSessionHoldsLease' /\ [Next]_vars
        => [Log!Next]_Keepers
  BY NextKeeps
<1> QED BY <1>1, <1>2, RecordingHoldsLease, PTL DEF Spec, OneTabRecordsAtATime, Log!Spec

-----------------------------------------------------------------------------
(* Sums over the rows of chunks. *)

LEMMA LeastExists ==
  ASSUME NEW S \in SUBSET Nat, S # {}
  PROVE  \E x \in S : \A y \in S : x <= y
<1>1. PICK x \in S : \A y \in S : ~(<<y, x>> \in OpToRel(<, Nat))
  BY WFMin, NatLessThanWellFounded
<1>2. ASSUME NEW y \in S
      PROVE  x <= y
  <2>1. <<y, x>> \in Nat \X Nat /\ <<y, x>>[1] = y /\ <<y, x>>[2] = x
    OBVIOUS
  <2>2. ~(y < x)
    BY <1>1, <2>1 DEF OpToRel
  <2> QED BY <2>2
<1> QED BY <1>2

LEMMA TotalExists ==
  ASSUME NEW rows, NEW n \in Nat
  PROVE  \E f : IsTotal(f, rows, n)
<1> DEFINE Without == {k \in Nat : ~\E f : IsTotal(f, rows, k)}
<1>1. ASSUME Without # {}
      PROVE  FALSE
  <2>1. PICK k \in Without : \A j \in Without : k <= j
    BY <1>1, LeastExists
  <2>2. CASE k = 0
    <3> DEFINE f == [j \in 0 .. 0 |-> 0]
    <3>1. IsTotal(f, rows, 0)
      BY DEF IsTotal
    <3> QED BY <2>1, <2>2, <3>1
  <2>3. CASE k # 0
    <3>1. k - 1 \in Nat /\ k - 1 \notin Without
      BY <2>1, <2>3
    <3>2. PICK f : IsTotal(f, rows, k - 1)
      BY <3>1
    <3> DEFINE g == [j \in 0 .. k |-> IF j = k THEN f[k - 1] + rows[k - 1] ELSE f[j]]
    <3>3. \A j \in 0 .. k - 1 : f[j] = IF j = 0 THEN 0 ELSE f[j - 1] + rows[j - 1]
      BY <3>2 DEF IsTotal
    <3>4. \A j \in 0 .. k : g[j] = IF j = 0 THEN 0 ELSE g[j - 1] + rows[j - 1]
      <4>1. \A j \in 0 .. k : j # 0 => j - 1 \in 0 .. k /\ j - 1 # k
        BY <2>1
      <4>2. \A j \in 0 .. k : j # k => j \in 0 .. k - 1
        BY <2>1
      <4> QED BY <2>3, <3>3, <4>1, <4>2
    <3>5. g = [j \in 0 .. k |-> IF j = 0 THEN 0 ELSE g[j - 1] + rows[j - 1]]
      <4> DEFINE h == [j \in 0 .. k |-> IF j = 0 THEN 0 ELSE g[j - 1] + rows[j - 1]]
      <4>1. \A j \in 0 .. k : g[j] = h[j]
        BY <3>4
      <4>2. g = [j \in 0 .. k |-> g[j]] /\ h = [j \in 0 .. k |-> h[j]]
        OBVIOUS
      <4> HIDE DEF g, h
      <4>3. g = h
        BY <4>1, <4>2
      <4> QED BY <4>3 DEF h
    <3>6. IsTotal(g, rows, k)
      BY <3>5 DEF IsTotal
    <3> QED BY <2>1, <3>6
  <2> QED BY <2>2, <2>3
<1> QED BY <1>1

LEMMA SumIs ==
  ASSUME NEW rows, NEW n \in Nat
  PROVE  \E f : IsTotal(f, rows, n) /\ SumRows(rows, n) = f[n]
  BY TotalExists DEF SumRows, IsTotal

\* Rows that agree below n sum up to the same.
LEMMA TotalsAgree ==
  ASSUME NEW rows, NEW other, NEW f, NEW g, NEW a \in Nat, NEW b \in Nat,
         NEW n \in Nat, n <= a, n <= b, IsTotal(f, rows, a), IsTotal(g, other, b),
         \A q \in 0 .. n - 1 : rows[q] = other[q]
  PROVE  f[n] = g[n]
<1> DEFINE Apart == {k \in 0 .. n : f[k] # g[k]}
<1>1. ASSUME Apart # {}
      PROVE  FALSE
  <2>1. Apart \in SUBSET Nat
    OBVIOUS
  <2>2. PICK k \in Apart : \A j \in Apart : k <= j
    BY <1>1, <2>1, LeastExists
  <2>3. k \in 0 .. a /\ k \in 0 .. b /\ f[k] # g[k]
    BY <2>2
  <2>4. /\ f[k] = IF k = 0 THEN 0 ELSE f[k - 1] + rows[k - 1]
        /\ g[k] = IF k = 0 THEN 0 ELSE g[k - 1] + other[k - 1]
    BY <2>3 DEF IsTotal
  <2>5. CASE k = 0
    BY <2>3, <2>4, <2>5
  <2>6. CASE k # 0
    <3>1. k - 1 \in 0 .. n /\ k - 1 \in 0 .. n - 1 /\ k - 1 \notin Apart
      BY <2>2, <2>6
    <3>2. f[k - 1] = g[k - 1] /\ rows[k - 1] = other[k - 1]
      BY <3>1
    <3> QED BY <2>3, <2>4, <2>6, <3>2
  <2> QED BY <2>5, <2>6
<1> QED BY <1>1

LEMMA SumSame ==
  ASSUME NEW rows, NEW other, NEW n \in Nat,
         \A q \in 0 .. n - 1 : rows[q] = other[q]
  PROVE  SumRows(rows, n) = SumRows(other, n)
<1>1. PICK f : IsTotal(f, rows, n) /\ SumRows(rows, n) = f[n]
  BY SumIs
<1>2. PICK g : IsTotal(g, other, n) /\ SumRows(other, n) = g[n]
  BY SumIs
<1>3. f[n] = g[n]
  BY <1>1, <1>2, TotalsAgree
<1> QED BY <1>1, <1>2, <1>3

LEMMA SumZero ==
  ASSUME NEW rows
  PROVE  SumRows(rows, 0) = 0
<1>1. PICK f : IsTotal(f, rows, 0) /\ SumRows(rows, 0) = f[0]
  BY SumIs
<1> QED BY <1>1 DEF IsTotal

LEMMA SumTyped ==
  ASSUME NEW rows, NEW n \in Nat, \A q \in 0 .. n - 1 : rows[q] \in Nat
  PROVE  SumRows(rows, n) \in Nat
<1>1. PICK f : IsTotal(f, rows, n) /\ SumRows(rows, n) = f[n]
  BY SumIs
<1> DEFINE Odd == {k \in 0 .. n : f[k] \notin Nat}
<1>2. ASSUME Odd # {}
      PROVE  FALSE
  <2>1. Odd \in SUBSET Nat
    OBVIOUS
  <2>2. PICK k \in Odd : \A j \in Odd : k <= j
    BY <1>2, <2>1, LeastExists
  <2>3. f[k] = IF k = 0 THEN 0 ELSE f[k - 1] + rows[k - 1]
    BY <1>1, <2>2 DEF IsTotal
  <2>4. CASE k # 0
    <3>1. k - 1 \in 0 .. n /\ k - 1 \in 0 .. n - 1 /\ k - 1 \notin Odd
      BY <2>2, <2>4
    <3>2. f[k - 1] \in Nat /\ rows[k - 1] \in Nat
      BY <3>1
    <3> QED BY <2>2, <2>3, <2>4, <3>2
  <2> QED BY <2>2, <2>3, <2>4
<1>3. f[n] \in Nat
  BY <1>2
<1> QED BY <1>1, <1>3

LEMMA SumStep ==
  ASSUME NEW rows, NEW n \in Nat
  PROVE  SumRows(rows, n + 1) = SumRows(rows, n) + rows[n]
<1>1. PICK f : IsTotal(f, rows, n + 1) /\ SumRows(rows, n + 1) = f[n + 1]
  BY SumIs
<1>2. PICK g : IsTotal(g, rows, n) /\ SumRows(rows, n) = g[n]
  BY SumIs
<1>3. f[n] = g[n]
  <2>1. n + 1 \in Nat /\ n <= n + 1
    OBVIOUS
  <2> QED BY <1>1, <1>2, <2>1, TotalsAgree
<1>4. f[n + 1] = f[n] + rows[n]
  <2>1. n + 1 \in 0 .. n + 1 /\ n + 1 # 0 /\ (n + 1) - 1 = n
    OBVIOUS
  <2> QED BY <1>1, <2>1 DEF IsTotal
<1> QED BY <1>1, <1>2, <1>3, <1>4

-----------------------------------------------------------------------------
(* The inductive invariant: what waits in memory and what is stored agree. *)

-----------------------------------------------------------------------------
(* What a recorder does to a session object leaves it fitting the archive. *)

\* Under the numbers the queue and the tail have, their rows count.
LEMMA WaitingRows ==
  ASSUME NEW m, Countable(m), Numbered(m), NEW chunks
  PROVE  /\ \A i \in DOMAIN m.pending :
              RowsOf(m, chunks, m.pending[i].chunk.seq) = m.pending[i].chunk.rows
         /\ m.tail > 0 => RowsOf(m, chunks, First(m)) = m.tail
<1>1. ASSUME m.tail > 0
      PROVE  RowsOf(m, chunks, First(m)) = m.tail
  BY <1>1 DEF RowsOf, First
<1>2. ASSUME NEW i \in DOMAIN m.pending
      PROVE  RowsOf(m, chunks, m.pending[i].chunk.seq) = m.pending[i].chunk.rows
  <2> DEFINE q == m.pending[i].chunk.seq
  <2>1. ~(m.tail > 0 /\ q = m.nextSeq - 1)
    BY <1>2 DEF Countable, Numbered, First
  <2>2. ASSUME NEW j \in DOMAIN m.pending, m.pending[j].chunk.seq = q
        PROVE  j = i
    <3>1. i < j \/ j < i \/ i = j
      BY <1>2, <2>2 DEF Countable
    <3>2. q < q => FALSE
      BY <1>2 DEF Countable
    <3> QED BY <1>2, <2>2, <3>1, <3>2 DEF Numbered
  <2>3. PendingOf(m, q) = {i}
    BY <1>2, <2>2 DEF PendingOf
  <2>4. (CHOOSE j \in {i} : TRUE) = i
    OBVIOUS
  <2> HIDE DEF q
  <2>5. RowsOf(m, chunks, q) = m.pending[i].chunk.rows
    BY <2>1, <2>3, <2>4 DEF RowsOf
  <2> QED BY <2>5 DEF q
<1> QED BY <1>1, <1>2

\* Under every other number the archive's do.
LEMMA OtherRows ==
  ASSUME NEW m, NEW chunks, NEW q,
         \A i \in DOMAIN m.pending : m.pending[i].chunk.seq # q,
         m.tail > 0 => q # First(m)
  PROVE  RowsOf(m, chunks, q) = chunks[q]
<1>1. PendingOf(m, q) = {}
  BY DEF PendingOf
<1>2. ~(m.tail > 0 /\ q = m.nextSeq - 1)
  BY DEF First
<1> QED BY <1>1, <1>2 DEF RowsOf

LEMMA RowsAlike ==
  ASSUME NEW m, NEW n, NEW chunks, NEW q, n.tail = m.tail, n.nextSeq = m.nextSeq,
         DOMAIN n.pending = DOMAIN m.pending,
         \A i \in DOMAIN m.pending : n.pending[i].chunk = m.pending[i].chunk
  PROVE  RowsOf(n, chunks, q) = RowsOf(m, chunks, q)
<1>1. PendingOf(n, q) = PendingOf(m, q)
  BY DEF PendingOf
<1>2. PendingOf(m, q) # {} =>
        (CHOOSE i \in PendingOf(m, q) : TRUE) \in DOMAIN m.pending
  BY DEF PendingOf
<1> QED BY <1>1, <1>2 DEF RowsOf

\* What is stored or waits may move, as long as it counts the same.
LEMMA WholeStill ==
  ASSUME NEW m, NEW n, NEW chunks, NEW stored,
         m.nextSeq \in Nat, m.nextSeq <= MaxRows,
         n.nextSeq = m.nextSeq, n.samples = m.samples, n.dropped = 0 => m.dropped = 0,
         \A q \in 0 .. m.nextSeq - 1 : RowsOf(n, stored, q) = RowsOf(m, chunks, q),
         Whole(m, chunks)
  PROVE  Whole(n, stored)
<1> DEFINE before == [q \in Seqs |-> RowsOf(m, chunks, q)]
           after == [q \in Seqs |-> RowsOf(n, stored, q)]
<1>1. 0 .. m.nextSeq - 1 \subseteq Seqs
  BY SessionRecorderAssumption DEF Seqs
<1>2. \A q \in 0 .. m.nextSeq - 1 : before[q] = after[q]
  BY <1>1
<1>3. SumRows(before, m.nextSeq) = SumRows(after, m.nextSeq)
  BY <1>2, SumSame
<1>4. (Tallied(m, chunks) <=> m.samples = SumRows(before, m.nextSeq))
      /\ (Tallied(n, stored) <=> n.samples = SumRows(after, n.nextSeq))
  BY DEF Tallied
<1> HIDE DEF before, after
<1> QED BY <1>3, <1>4 DEF Whole

LEMMA SameExtends ==
  ASSUME NEW m
  PROVE  Extends(m, m)
  BY DEF Extends

LEMMA ExtendsTwice ==
  ASSUME NEW m, NEW n, NEW p, Extends(m, n), Extends(n, p)
  PROVE  Extends(m, p)
  BY DEF Extends

\* Fields that say nothing of rows.
LEMMA AlikeExtends ==
  ASSUME NEW m, NEW n, n.pending = m.pending, n.tail = m.tail,
         n.nextSeq = m.nextSeq, n.samples = m.samples, n.dropped = m.dropped
  PROVE  Extends(m, n)
<1>1. ASSUME NEW chunks, Whole(m, chunks)
      PROVE  Whole(n, chunks)
  <2>1. \A q : RowsOf(n, chunks, q) = RowsOf(m, chunks, q)
    BY RowsAlike
  <2> DEFINE before == [q \in Seqs |-> RowsOf(m, chunks, q)]
             after == [q \in Seqs |-> RowsOf(n, chunks, q)]
  <2>2. before = after
    BY <2>1
  <2>3. (Tallied(m, chunks) <=> m.samples = SumRows(before, m.nextSeq))
        /\ (Tallied(n, chunks) <=> n.samples = SumRows(after, n.nextSeq))
    BY DEF Tallied
  <2> HIDE DEF before, after
  <2> QED BY <1>1, <2>2, <2>3 DEF Whole
<1> QED BY <1>1 DEF Extends, Fits, Numbered, First, Writes

LEMMA PendingFacts ==
  ASSUME NEW m \in MemoryRecords
  PROVE  /\ m.pending \in Seq(PendingChunks)
         /\ Len(m.pending) \in Nat
         /\ DOMAIN m.pending = 1 .. Len(m.pending)
         /\ \A i \in DOMAIN m.pending :
              /\ m.pending[i] \in PendingChunks
              /\ m.pending[i].chunk.seq \in Nat
              /\ m.pending[i].chunk.rows \in Nat
         /\ m.tail \in Nat
         /\ m.nextSeq \in Nat
         /\ m.samples \in 0 .. MaxRows
<1>1. m.pending \in Seq(PendingChunks)
  BY DEF MemoryRecords
<1>2. \A i \in 1 .. Len(m.pending) : m.pending[i] \in PendingChunks
  BY <1>1
<1>3. \A p \in PendingChunks : p.chunk.seq \in Nat /\ p.chunk.rows \in Nat
  BY DEF PendingChunks, Chunks
<1> QED BY <1>1, <1>2, <1>3 DEF MemoryRecords

\* What is past stays past: chunks of any length stored there would still fit.
LEMMA PastExtends ==
  ASSUME NEW m \in Memories, NEW n \in Memories, NEW chunks \in StoredChunks,
         Fits(m, chunks), Extends(m, n), NEW S, Past(m, S)
  PROVE  Past(n, S)
<1> SUFFICES ASSUME NEW q \in S
             PROVE  /\ q \in Seqs /\ q < n.nextSeq
                    /\ n.tail > 0 => q # First(n)
                    /\ \A i \in DOMAIN n.pending : n.pending[i].chunk.seq # q
  BY DEF Past
<1>1. q \in Seqs /\ q \in Nat
  BY SessionRecorderAssumption DEF Past, Seqs
<1>2. ASSUME NEW rows \in Nat
      PROVE  Fits(n, [chunks EXCEPT ![q] = rows])
  <2> DEFINE raised == [chunks EXCEPT ![q] = rows]
  <2>1. raised \in StoredChunks /\ \A p : p # q => raised[p] = chunks[p]
    BY <1>1 DEF StoredChunks
  <2>2. \A p \in Seqs : p >= m.nextSeq => p # q
    BY <1>1, MemoryFields DEF Past, Seqs
  <2> HIDE DEF raised
  <2>3. Fits(m, raised)
    BY <2>1, <2>2 DEF Fits, Past
  <2> QED BY <2>1, <2>3 DEF Extends, raised
<1>3. \A rows \in Nat : [chunks EXCEPT ![q] = rows][q] = rows
  BY <1>1 DEF StoredChunks
<1>4. q < n.nextSeq
  BY <1>1, <1>2, <1>3, MemoryFields DEF Fits
<1>5. ASSUME n.tail > 0, q = First(n)
      PROVE  FALSE
  <2>1. n.tail \in Nat /\ n.tail + 1 \in Nat
    BY MemoryFields
  <2>2. [chunks EXCEPT ![q] = n.tail + 1][q] <= n.tail
    BY <1>2, <1>5, <2>1 DEF Fits
  <2> QED BY <1>3, <2>1, <2>2
<1>6. ASSUME NEW i \in DOMAIN n.pending, n.pending[i].chunk.seq = q
      PROVE  FALSE
  <2> DEFINE rows == n.pending[i].chunk.rows
  <2>1. rows \in Nat /\ rows + 1 \in Nat
    BY <1>6, MemoryFields, PendingFacts
  <2>2. [chunks EXCEPT ![q] = rows + 1][q] <= rows
    BY <1>2, <1>6, <2>1 DEF Fits
  <2> HIDE DEF rows
  <2> QED BY <1>3, <2>1, <2>2
<1> QED BY <1>1, <1>4, <1>5, <1>6

LEMMA RowsTyped ==
  ASSUME NEW m \in MemoryRecords, NEW chunks \in StoredChunks, NEW q \in Seqs
  PROVE  RowsOf(m, chunks, q) \in Nat
<1>1. PendingOf(m, q) # {} =>
        (CHOOSE i \in PendingOf(m, q) : TRUE) \in DOMAIN m.pending
  BY DEF PendingOf
<1>2. m.tail \in Nat /\ chunks[q] \in Nat
  BY PendingFacts DEF StoredChunks
<1> QED BY <1>1, <1>2, PendingFacts DEF RowsOf

\* What a session object that fits says of its numbers.
LEMMA FitsCountable ==
  ASSUME NEW m \in MemoryRecords, m.tail = 0 \/ m.nextSeq > 0
  PROVE  /\ Countable(m)
         /\ Numbered(m) => m.nextSeq <= MaxRows
<1>1. /\ DOMAIN m.pending = 1 .. Len(m.pending) /\ Len(m.pending) \in Nat
      /\ \A i \in DOMAIN m.pending : m.pending[i].chunk.seq \in Nat
      /\ m.tail \in Nat /\ m.nextSeq \in Nat /\ m.samples \in 0 .. MaxRows
      /\ MaxRows \in Nat
  BY PendingFacts, SessionRecorderAssumption
<1>2. First(m) \in Nat
  BY <1>1 DEF First
<1> QED BY <1>1, <1>2 DEF Countable, Numbered

\* The tail joins the queue under its own number.
LEMMA SealExtends ==
  ASSUME NEW m \in MemoryRecords, m.tail = 0 \/ m.nextSeq > 0
  PROVE  Extends(m, Seal(m))
<1>1. CASE m.tail = 0
  BY <1>1, SameExtends DEF Seal
<1>2. CASE m.tail # 0
  <2> DEFINE n == Seal(m)
             k == Len(m.pending) + 1
  <2>1. n = [m EXCEPT !.tail = 0,
                      !.pending = Append(m.pending, Pending(Chunk(m.nextSeq - 1, m.tail)))]
    BY <1>2 DEF Seal
  <2>2. /\ n.tail = 0 /\ n.nextSeq = m.nextSeq /\ n.samples = m.samples
        /\ n.pending = Append(m.pending, Pending(Chunk(m.nextSeq - 1, m.tail)))
    BY <2>1 DEF MemoryRecords
  <2>3. /\ m.tail > 0 /\ First(m) = m.nextSeq - 1 /\ First(n) = m.nextSeq
        /\ First(m) \in Nat
    BY <1>2, <2>2, PendingFacts DEF First
  <2>4. /\ DOMAIN n.pending = 1 .. k /\ k \in Nat
        /\ DOMAIN m.pending = 1 .. Len(m.pending)
        /\ \A i \in DOMAIN m.pending : i \in DOMAIN n.pending /\ n.pending[i] = m.pending[i]
        /\ k \in DOMAIN n.pending
        /\ \A i \in DOMAIN n.pending : i \in DOMAIN m.pending \/ i = k
        /\ n.pending[k].chunk.seq = First(m)
        /\ n.pending[k].chunk.rows = m.tail
    BY <2>2, <2>3, PendingFacts DEF Pending, Chunk
  <2> HIDE DEF n
  <2>5. ASSUME NEW chunks \in StoredChunks, Fits(m, chunks)
        PROVE  /\ Fits(n, chunks)
               /\ Whole(m, chunks) => Whole(n, chunks)
    <3>1. Numbered(m) /\ Countable(m) /\ m.nextSeq <= MaxRows
      BY <2>5, FitsCountable DEF Fits
    <3>2. \A i \in DOMAIN m.pending : i < k /\ i # k
      BY <2>4
    <3>3. \A i, j \in DOMAIN n.pending :
            i < j => n.pending[i].chunk.seq < n.pending[j].chunk.seq
      <4>1. ASSUME NEW i \in DOMAIN n.pending, NEW j \in DOMAIN n.pending, i < j
            PROVE  n.pending[i].chunk.seq < n.pending[j].chunk.seq
        <5>1. i \in DOMAIN m.pending /\ n.pending[i] = m.pending[i]
          BY <2>4, <4>1
        <5>2. CASE j = k
          BY <2>4, <3>1, <5>1, <5>2 DEF Numbered
        <5>3. CASE j \in DOMAIN m.pending
          BY <2>4, <3>1, <4>1, <5>1, <5>3 DEF Numbered
        <5> QED BY <2>4, <5>2, <5>3
      <4> QED BY <4>1
    <3>4. \A i \in DOMAIN n.pending : n.pending[i].chunk.seq < First(n)
      <4>1. First(m) < First(n) /\ First(m) \in Nat /\ First(n) \in Nat
        BY <2>3, PendingFacts
      <4>2. \A i \in DOMAIN m.pending : m.pending[i].chunk.seq < First(n)
        BY <3>1, <4>1 DEF Numbered, Countable
      <4> QED BY <2>4, <4>1, <4>2
    <3>5. Numbered(n)
      BY <2>2, <3>1, <3>3, <3>4 DEF Numbered
    <3>6. Fits(n, chunks)
      <4>1. \A i \in DOMAIN n.pending : chunks[n.pending[i].chunk.seq] <= n.pending[i].chunk.rows
        <5>1. \A i \in DOMAIN m.pending : chunks[m.pending[i].chunk.seq] <= m.pending[i].chunk.rows
          BY <2>5 DEF Fits
        <5>2. chunks[First(m)] <= m.tail
          BY <2>3, <2>5 DEF Fits
        <5> QED BY <2>4, <5>1, <5>2
      <4>2. ~(n.tail > 0)
        BY <2>2
      <4>3. \A q \in Seqs : q >= n.nextSeq => chunks[q] = 0
        BY <2>2, <2>5 DEF Fits
      <4>4. n.tail > 0 => chunks[First(n)] <= n.tail
        BY <4>2
      <4> QED BY <3>5, <4>1, <4>3, <4>4, Zenon DEF Fits
    <3>7. Countable(n)
      BY <2>2, <2>3, <2>4, <3>1, PendingFacts DEF Countable
    <3>8. ASSUME NEW q \in 0 .. m.nextSeq - 1
          PROVE  RowsOf(n, chunks, q) = RowsOf(m, chunks, q)
      <4>1. CASE q = First(m)
        <5>1. RowsOf(m, chunks, First(m)) = m.tail
          BY <2>3, <3>1, WaitingRows
        <5>2. RowsOf(n, chunks, n.pending[k].chunk.seq) = n.pending[k].chunk.rows
          BY <2>4, <3>5, <3>7, WaitingRows
        <5> QED BY <2>4, <4>1, <5>1, <5>2
      <4>2. ASSUME NEW i \in DOMAIN m.pending, q = m.pending[i].chunk.seq
            PROVE  RowsOf(n, chunks, q) = RowsOf(m, chunks, q)
        <5>1. RowsOf(m, chunks, m.pending[i].chunk.seq) = m.pending[i].chunk.rows
          BY <3>1, WaitingRows
        <5>2. i \in DOMAIN n.pending /\ n.pending[i] = m.pending[i]
          BY <2>4
        <5>3. RowsOf(n, chunks, n.pending[i].chunk.seq) = n.pending[i].chunk.rows
          BY <3>5, <3>7, <5>2, WaitingRows
        <5> QED BY <4>2, <5>1, <5>2, <5>3
      <4>3. ASSUME q # First(m), \A i \in DOMAIN m.pending : m.pending[i].chunk.seq # q
            PROVE  RowsOf(n, chunks, q) = RowsOf(m, chunks, q)
        <5>1. \A i \in DOMAIN n.pending : n.pending[i].chunk.seq # q
          BY <2>4, <4>3
        <5>2. n.tail > 0 => q # First(n)
          BY <2>2
        <5> QED BY <4>3, <5>1, <5>2, OtherRows
      <4> QED BY <4>1, <4>2, <4>3
    <3>9. n.dropped = m.dropped
      BY <2>1 DEF MemoryRecords, n
    <3> QED BY <2>2, <3>1, <3>6, <3>8, <3>9, PendingFacts, WholeStill
  <2>6. ASSUME NEW chunks \in StoredChunks, NEW c \in Commits, Writes(c, m, chunks)
        PROVE  Writes(c, n, chunks)
    <3>1. c.chunk.rows \in Nat
      BY DEF Commits, Chunks
    <3> QED BY <2>2, <2>3, <2>4, <2>6, <3>1, PendingFacts DEF Writes
  <2> QED BY <2>5, <2>6 DEF Extends, n
<1> QED BY <1>1, <1>2

\* One more row: the tail grows, or begins under a number nothing is stored under.
LEMMA RowExtends ==
  ASSUME NEW m \in MemoryRecords, m.tail = 0 \/ m.nextSeq > 0, m.samples < MaxRows,
         NEW n, n.pending = m.pending, n.tail = m.tail + 1, n.samples = m.samples + 1,
         n.nextSeq = IF m.tail = 0 THEN m.nextSeq + 1 ELSE m.nextSeq,
         n.dropped = m.dropped
  PROVE  Extends(m, n)
<1>1. /\ First(n) = First(m) /\ n.tail > 0
      /\ m.tail > 0 => n.nextSeq = m.nextSeq
      /\ m.tail = 0 => First(m) = m.nextSeq
  <2>1. m.tail \in Nat /\ m.nextSeq \in Nat
    BY PendingFacts
  <2>2. m.tail = 0 => n.nextSeq = m.nextSeq + 1
    OBVIOUS
  <2>3. m.tail > 0 => n.nextSeq = m.nextSeq
    BY <2>1
  <2> QED BY <2>1, <2>2, <2>3 DEF First
<1>2. ASSUME NEW chunks \in StoredChunks, Fits(m, chunks)
      PROVE  Fits(n, chunks)
  <2>1. Numbered(n)
    BY <1>1, <1>2, PendingFacts DEF Fits, Numbered
  <2>2. chunks[First(n)] <= n.tail
    <3>1. CASE m.tail > 0
      <4>1. First(m) \in Seqs
        <5>1. m.nextSeq \in Nat /\ m.nextSeq > 0 /\ m.nextSeq <= m.samples
          BY <1>2, <3>1, PendingFacts DEF Fits, Numbered
        <5>2. m.samples \in Nat /\ m.samples < MaxRows /\ MaxRows \in Nat
          BY PendingFacts, SessionRecorderAssumption
        <5> QED BY <3>1, <5>1, <5>2 DEF First, Seqs
      <4>2. chunks[First(m)] \in Nat
        BY <4>1 DEF StoredChunks
      <4> QED BY <1>1, <1>2, <3>1, <4>2, PendingFacts DEF Fits
    <3>2. CASE m.tail = 0
      <4>1. m.nextSeq \in Seqs
        BY <1>2, PendingFacts, SessionRecorderAssumption DEF Fits, Numbered, Seqs
      <4>2. chunks[m.nextSeq] = 0
        BY <1>2, <4>1, PendingFacts DEF Fits
      <4> QED BY <1>1, <3>2, <4>2
    <3> QED BY <3>1, <3>2, PendingFacts
  <2>3. \A q \in Seqs : q >= n.nextSeq => chunks[q] = 0
    <3>1. \A q \in Seqs : q >= n.nextSeq => q >= m.nextSeq
      BY PendingFacts DEF Seqs
    <3> QED BY <1>2, <3>1 DEF Fits
  <2>4. \A i \in DOMAIN n.pending :
          chunks[n.pending[i].chunk.seq] <= n.pending[i].chunk.rows
    BY <1>2 DEF Fits
  <2> QED BY <2>1, <2>2, <2>3, <2>4 DEF Fits
<1>3. ASSUME NEW chunks, NEW c \in Commits, Writes(c, m, chunks)
      PROVE  Writes(c, n, chunks)
  <2>1. c.chunk.rows \in Nat
    BY DEF Commits, Chunks
  <2> QED BY <1>1, <1>3, <2>1, PendingFacts DEF Writes
<1>4. ASSUME NEW chunks \in StoredChunks, Fits(m, chunks), Whole(m, chunks)
      PROVE  Whole(n, chunks)
  <2> DEFINE before == [q \in Seqs |-> RowsOf(m, chunks, q)]
             after == [q \in Seqs |-> RowsOf(n, chunks, q)]
             f == First(m)
  <2>1. /\ Numbered(m) /\ Countable(m) /\ m.nextSeq <= MaxRows /\ Numbered(n)
        /\ MaxRows \in Nat /\ m.nextSeq <= m.samples /\ m.samples \in Nat
    <3>1. Numbered(m) /\ Countable(m) /\ m.nextSeq <= MaxRows
      <4>1. m.samples <= MaxRows
        BY PendingFacts, SessionRecorderAssumption
      <4> QED BY <1>4, <4>1, FitsCountable DEF Fits
    <3>2. Numbered(n)
      BY <1>2, <1>4 DEF Fits
    <3> QED BY <3>1, <3>2, PendingFacts, SessionRecorderAssumption DEF Numbered
  <2>2. /\ m.tail \in Nat /\ m.nextSeq \in Nat /\ f \in Nat /\ n.nextSeq = f + 1
        /\ m.tail > 0 => m.nextSeq = f + 1
        /\ m.tail = 0 => m.nextSeq = f
    <3>1. m.tail \in Nat /\ m.nextSeq \in Nat /\ f \in Nat
      BY <2>1 DEF Countable
    <3> QED BY <3>1 DEF First
  <2>3. Countable(n)
    BY <1>1, <2>1, <2>2 DEF Countable
  <2> HIDE DEF f
  <2>4. f \in Seqs /\ 0 .. f - 1 \subseteq Seqs /\ f <= m.nextSeq
    BY <2>1, <2>2 DEF Seqs
  <2>5. ASSUME NEW q \in 0 .. f - 1
        PROVE  before[q] = after[q]
    <3>1. q # f /\ q \in Seqs
      BY <2>2, <2>4
    <3>2. ASSUME NEW i \in DOMAIN m.pending, m.pending[i].chunk.seq = q
          PROVE  before[q] = after[q]
      <4>1. RowsOf(m, chunks, m.pending[i].chunk.seq) = m.pending[i].chunk.rows
        BY <2>1, WaitingRows
      <4>2. RowsOf(n, chunks, n.pending[i].chunk.seq) = n.pending[i].chunk.rows
        <5>1. i \in DOMAIN n.pending
          BY <3>2
        <5>2. \A j \in DOMAIN n.pending :
                RowsOf(n, chunks, n.pending[j].chunk.seq) = n.pending[j].chunk.rows
          BY <2>1, <2>3, WaitingRows
        <5> QED BY <5>1, <5>2
      <4>3. before[q] = m.pending[i].chunk.rows
        BY <3>1, <3>2, <4>1
      <4>4. n.pending = m.pending /\ n.pending[i].chunk = m.pending[i].chunk
        BY <1>1
      <4>5. after[q] = n.pending[i].chunk.rows
        BY <3>1, <3>2, <4>2, <4>4
      <4> QED BY <4>3, <4>4, <4>5
    <3>3. CASE \A i \in DOMAIN m.pending : m.pending[i].chunk.seq # q
      BY <1>1, <3>1, <3>3, OtherRows DEF f
    <3> QED BY <3>2, <3>3
  <2>6. after[f] = m.tail + 1
    BY <1>1, <2>1, <2>3, <2>4, WaitingRows DEF f
  <2>7. m.tail > 0 => before[f] = m.tail
    BY <2>1, <2>4, WaitingRows DEF f
  <2>8. (Tallied(m, chunks) <=> m.samples = SumRows(before, m.nextSeq))
        /\ (Tallied(n, chunks) <=> n.samples = SumRows(after, n.nextSeq))
    BY DEF Tallied
  <2>9. \A q \in 0 .. f - 1 : before[q] \in Nat
    BY <2>4, RowsTyped
  <2> HIDE DEF before, after
  <2>10. SumRows(before, f) \in Nat
    BY <2>2, <2>9, SumTyped
  <2>11. SumRows(before, f) = SumRows(after, f)
    BY <2>2, <2>5, SumSame
  <2>12. SumRows(after, n.nextSeq) = SumRows(after, f) + (m.tail + 1)
    BY <2>2, <2>6, SumStep
  <2>13. ASSUME m.samples = SumRows(before, m.nextSeq)
         PROVE  n.samples = SumRows(after, n.nextSeq)
    <3>1. CASE m.tail = 0
      <4>1. m.samples = SumRows(after, f)
        BY <2>2, <2>11, <2>13, <3>1
      <4> QED BY <2>1, <2>12, <3>1, <4>1
    <3>2. CASE m.tail > 0
      <4>1. m.samples = SumRows(before, f) + m.tail
        BY <2>2, <2>7, <2>13, <3>2, SumStep
      <4> QED BY <2>2, <2>11, <2>12, <2>10, <3>2, <4>1
    <3> QED BY <2>2, <3>1, <3>2
  <2> QED BY <1>4, <2>8, <2>13 DEF Whole
<1> QED BY <1>2, <1>3, <1>4 DEF Extends

LEMMA AppendRowExtends ==
  ASSUME NEW m \in Memories, NEW split \in BOOLEAN, m.samples < MaxRows
  PROVE  Extends(m, AppendRow(m, split))
<1> DEFINE ready == IF split THEN Seal(m) ELSE m
           seq == IF ready.tail = 0 THEN ready.nextSeq + 1 ELSE ready.nextSeq
           grown == [ready EXCEPT !.tail = ready.tail + 1, !.nextSeq = seq,
                                  !.samples = ready.samples + 1]
<1>1. ready \in Memories /\ ready.samples = m.samples
  BY SealType, MemoryFields
<1>2. Extends(m, ready)
  BY SealExtends, SameExtends, MemoryFields
<1>3. /\ ready \in MemoryRecords
      /\ ready.tail = 0 \/ ready.nextSeq > 0
      /\ ready.tail \in Nat /\ ready.nextSeq \in Nat
      /\ ready.samples \in 0 .. MaxRows
  BY <1>1, MemoryFields
<1>4. AppendRow(m, split) = IF grown.tail >= Capacity THEN Seal(grown) ELSE grown
  BY DEF AppendRow, Full
<1>5. seq \in Nat /\ seq > 0 /\ (seq = IF ready.tail = 0 THEN ready.nextSeq + 1 ELSE ready.nextSeq)
  BY <1>3
<1> HIDE DEF ready, seq
<1>6. grown \in MemoryRecords
  <2>1. ready.samples + 1 \in 0 .. MaxRows
    BY <1>1, <1>3, SessionRecorderAssumption
  <2>2. ready.tail + 1 \in Nat
    BY <1>3
  <2> QED BY <1>3, <1>5, <2>1, <2>2 DEF MemoryRecords
<1>7. /\ grown.pending = ready.pending /\ grown.tail = ready.tail + 1
      /\ grown.nextSeq = seq /\ grown.samples = ready.samples + 1
      /\ grown.dropped = ready.dropped
  BY <1>3 DEF MemoryRecords
<1> HIDE DEF grown
<1>8. Extends(ready, grown)
  BY <1>1, <1>3, <1>5, <1>7, RowExtends
<1>9. Extends(grown, Seal(grown))
  BY <1>5, <1>6, <1>7, SealExtends
<1>10. Extends(m, grown)
  BY <1>2, <1>8, ExtendsTwice
<1>11. Extends(m, Seal(grown))
  BY <1>9, <1>10, ExtendsTwice
<1> QED BY <1>4, <1>10, <1>11

LEMMA RequestFlushExtends ==
  ASSUME NEW m \in Memories
  PROVE  Extends(m, RequestFlush(m))
<1>1. /\ RequestFlush(m).pending = m.pending /\ RequestFlush(m).tail = m.tail
      /\ RequestFlush(m).nextSeq = m.nextSeq /\ RequestFlush(m).samples = m.samples
      /\ RequestFlush(m).dropped = m.dropped
  BY DEF RequestFlush, Memories, MemoryRecords
<1> HIDE DEF RequestFlush
<1> QED BY <1>1, AlikeExtends

LEMMA NotedMemoryExtends ==
  ASSUME NEW r \in Recorders, NEW m \in Memories, NEW frame \in Frames
  PROVE  Extends(m, NotedMemory(r, m, frame))
<1> DEFINE row == RowDue(r, m, frame)
           written == IF row THEN AppendRow(m, frame.split) ELSE m
           flushed == IF row /\ Sealed(m, frame.split) THEN RequestFlush(written)
                                                       ELSE written
           warned == IF FilesWarning(r, m, frame) THEN flushed.warned + 1
                                                  ELSE flushed.warned
           noted == [flushed EXCEPT !.alerting = frame.fault, !.warned = warned]
<1>1. written \in Memories /\ Extends(m, written)
  BY AppendRowType, AppendRowExtends, SameExtends DEF RowDue, Frames
<1>2. Extends(written, RequestFlush(written))
  BY <1>1, RequestFlushExtends
<1>3. Extends(m, RequestFlush(written))
  BY <1>1, <1>2, ExtendsTwice
<1>4. flushed \in Memories /\ Extends(m, flushed)
  BY <1>1, <1>3, RequestFlushType
<1>5. NotedMemory(r, m, frame) \in {flushed, noted}
  BY DEF NotedMemory
<1> HIDE DEF flushed, warned
<1>6. /\ noted.pending = flushed.pending /\ noted.tail = flushed.tail
      /\ noted.nextSeq = flushed.nextSeq /\ noted.samples = flushed.samples
      /\ noted.dropped = flushed.dropped
  BY <1>4 DEF Memories, MemoryRecords
<1> HIDE DEF noted
<1>7. Extends(m, noted)
  BY <1>4, <1>6, AlikeExtends, ExtendsTwice
<1> QED BY <1>4, <1>5, <1>7

\* A refused chunk counts its attempts.
LEMMA RetriedExtends ==
  ASSUME NEW m \in Memories, NEW attempts
  PROVE  Extends(m, [m EXCEPT !.pending[1].attempts = attempts])
<1> DEFINE n == [m EXCEPT !.pending[1].attempts = attempts]
<1>1. /\ n.tail = m.tail /\ n.nextSeq = m.nextSeq /\ n.samples = m.samples
      /\ n.dropped = m.dropped /\ DOMAIN n.pending = DOMAIN m.pending
      /\ \A i \in DOMAIN m.pending : n.pending[i].chunk = m.pending[i].chunk
  <2>1. m \in MemoryRecords
    BY MemoryFields
  <2>2. n.pending = [m.pending EXCEPT ![1] = [m.pending[1] EXCEPT !.attempts = attempts]]
        /\ n.tail = m.tail /\ n.nextSeq = m.nextSeq /\ n.samples = m.samples
        /\ n.dropped = m.dropped
    BY <2>1 DEF MemoryRecords
  <2>3. \A i \in DOMAIN m.pending : m.pending[i] \in PendingChunks
    BY <2>1, PendingFacts
  <2>4. \A p \in PendingChunks : [p EXCEPT !.attempts = attempts].chunk = p.chunk
    BY DEF PendingChunks
  <2> HIDE DEF n
  <2> QED BY <2>2, <2>3, <2>4
<1> HIDE DEF n
<1>2. First(n) = First(m)
  BY <1>1 DEF First
<1>3. ASSUME NEW chunks, Fits(m, chunks)
      PROVE  Fits(n, chunks)
  BY <1>1, <1>2, <1>3 DEF Fits, Numbered
<1>4. ASSUME NEW c, NEW chunks, Writes(c, m, chunks)
      PROVE  Writes(c, n, chunks)
  BY <1>1, <1>2, <1>4 DEF Writes
<1>5. ASSUME NEW chunks, Fits(m, chunks), Whole(m, chunks)
      PROVE  Whole(n, chunks)
  <2>1. m.nextSeq \in Nat /\ m.nextSeq <= MaxRows
    BY <1>5, MemoryFields, FitsCountable DEF Fits, Countable
  <2>2. \A q \in 0 .. m.nextSeq - 1 : RowsOf(n, chunks, q) = RowsOf(m, chunks, q)
    BY <1>1, RowsAlike
  <2> QED BY <1>1, <1>5, <2>1, <2>2, WholeStill
<1>6. Extends(m, n)
  BY <1>3, <1>4, <1>5 DEF Extends
<1> QED BY <1>6 DEF n

-----------------------------------------------------------------------------
(* What the archive does to the chunks. *)

LEMMA FittingSeqs ==
  ASSUME NEW m \in Memories, Numbered(m)
  PROVE  /\ \A i \in DOMAIN m.pending : m.pending[i].chunk.seq \in Seqs
         /\ m.tail > 0 => First(m) \in Seqs
         /\ First(m) \in Nat /\ First(m) <= m.nextSeq
<1>1. /\ m \in MemoryRecords /\ (m.tail = 0 \/ m.nextSeq > 0)
      /\ m.tail \in Nat /\ m.nextSeq \in Nat /\ m.samples \in 0 .. MaxRows
      /\ MaxRows \in Nat
  BY MemoryFields, SessionRecorderAssumption
<1>2. First(m) \in Nat /\ First(m) <= m.nextSeq /\ (m.tail > 0 => First(m) <= MaxRows)
  BY <1>1 DEF First, Numbered
<1>3. ASSUME NEW i \in DOMAIN m.pending
      PROVE  m.pending[i].chunk.seq \in 0 .. MaxRows
  <2>1. m.pending[i].chunk.seq \in Nat /\ m.pending[i].chunk.seq < First(m)
    BY <1>1, <1>3, PendingFacts DEF Numbered
  <2> QED BY <1>1, <1>2, <2>1 DEF Numbered
<1> QED BY <1>2, <1>3 DEF Seqs

LEMMA LowerFits ==
  ASSUME NEW m \in Memories, NEW chunks \in StoredChunks, NEW less \in StoredChunks,
         Lower(less, chunks), Fits(m, chunks)
  PROVE  Fits(m, less)
<1>1. Numbered(m)
  BY DEF Fits
<1>2. \A q \in Seqs : less[q] \in Nat /\ chunks[q] \in Nat /\ less[q] <= chunks[q]
  BY DEF StoredChunks, Lower
<1>3. m \in MemoryRecords
  BY MemoryFields
<1>4. \A q \in Seqs : q >= m.nextSeq => less[q] = 0
  <2>1. \A q \in Seqs : q >= m.nextSeq => chunks[q] = 0
    BY DEF Fits
  <2> QED BY <1>2, <2>1
<1>5. ASSUME NEW i \in DOMAIN m.pending
      PROVE  less[m.pending[i].chunk.seq] <= m.pending[i].chunk.rows
  <2>1. m.pending[i].chunk.seq \in Seqs /\ m.pending[i].chunk.rows \in Nat
    BY <1>1, <1>3, <1>5, FittingSeqs, PendingFacts
  <2>2. chunks[m.pending[i].chunk.seq] <= m.pending[i].chunk.rows
    BY <1>5 DEF Fits
  <2> QED BY <1>2, <2>1, <2>2
<1>6. ASSUME m.tail > 0
      PROVE  less[First(m)] <= m.tail
  <2>1. First(m) \in Seqs /\ m.tail \in Nat /\ chunks[First(m)] <= m.tail
    BY <1>1, <1>3, <1>6, FittingSeqs, PendingFacts DEF Fits
  <2> QED BY <1>2, <2>1
<1> QED BY <1>1, <1>4, <1>5, <1>6 DEF Fits

LEMMA LowerWrites ==
  ASSUME NEW m, NEW c \in Commits, NEW chunks \in StoredChunks,
         NEW less \in StoredChunks, Lower(less, chunks), Writes(c, m, chunks)
  PROVE  Writes(c, m, less)
<1>1. c.chunk.seq \in Seqs /\ c.chunk.rows \in Nat
  BY DEF Writes, Commits, Chunks
<1>2. less[c.chunk.seq] \in Nat /\ chunks[c.chunk.seq] \in Nat
      /\ less[c.chunk.seq] <= chunks[c.chunk.seq]
  BY <1>1 DEF StoredChunks, Lower
<1>3. less[c.chunk.seq] <= c.chunk.rows
  BY <1>1, <1>2 DEF Writes
<1> QED BY <1>3 DEF Writes

\* The head leaves the queue.
LEMMA ShiftFacts ==
  ASSUME NEW m \in Memories
  PROVE  \A i \in DOMAIN Shift(m.pending) :
           /\ i + 1 \in DOMAIN m.pending
           /\ Shift(m.pending)[i] = m.pending[i + 1]
           /\ i \in Nat /\ i > 0
<1>1. /\ m.pending \in Seq(PendingChunks) /\ Len(m.pending) \in Nat
      /\ DOMAIN m.pending = 1 .. Len(m.pending)
  BY MemoryFields, PendingFacts
<1>2. /\ Shift(m.pending) \in Seq(PendingChunks)
      /\ Len(Shift(m.pending)) = IF Len(m.pending) = 0 THEN 0 ELSE Len(m.pending) - 1
  BY <1>1 DEF Shift
<1>3. DOMAIN Shift(m.pending) = 1 .. Len(Shift(m.pending))
  BY <1>2
<1>4. \A i \in 1 .. Len(m.pending) - 1 : Shift(m.pending)[i] = m.pending[i + 1]
  BY <1>1 DEF Shift
<1> QED BY <1>1, <1>2, <1>3, <1>4

LEMMA ShiftFits ==
  ASSUME NEW m \in Memories, NEW chunks, Fits(m, chunks),
         NEW n, n.pending = Shift(m.pending), n.tail = m.tail,
         n.nextSeq = m.nextSeq, n.samples = m.samples
  PROVE  Fits(n, chunks)
<1>1. \A i \in DOMAIN n.pending :
        /\ i + 1 \in DOMAIN m.pending /\ n.pending[i] = m.pending[i + 1]
        /\ i \in Nat
  BY ShiftFacts
<1>2. First(n) = First(m)
  BY DEF First
<1>3. \A i, j \in DOMAIN n.pending :
        i < j => n.pending[i].chunk.seq < n.pending[j].chunk.seq
  <2>1. \A i, j \in DOMAIN n.pending : i < j => i + 1 < j + 1
    BY <1>1
  <2> QED BY <1>1, <2>1 DEF Fits, Numbered
<1> QED BY <1>1, <1>2, <1>3 DEF Fits, Numbered

LEMMA ShiftPast ==
  ASSUME NEW m \in Memories, NEW n, n.pending = Shift(m.pending), n.tail = m.tail,
         n.nextSeq = m.nextSeq, NEW S, Past(m, S)
  PROVE  Past(n, S)
<1>1. First(n) = First(m)
  BY DEF First
<1>2. \A i \in DOMAIN n.pending :
        i + 1 \in DOMAIN m.pending /\ n.pending[i] = m.pending[i + 1]
  BY ShiftFacts
<1> QED BY <1>1, <1>2 DEF Past

\* The chunk at the head is stored.
LEMMA StoredHeadFits ==
  ASSUME NEW m \in Memories, NEW chunks \in StoredChunks, Fits(m, chunks),
         1 \in DOMAIN m.pending, NEW rows \in Nat,
         NEW n, n.pending = Shift(m.pending), n.tail = m.tail,
         n.nextSeq = m.nextSeq, n.samples = m.samples
  PROVE  /\ Fits(n, [chunks EXCEPT ![m.pending[1].chunk.seq] = rows])
         /\ \A S : Past(m, S) => Past(n, S \cup {m.pending[1].chunk.seq})
<1> DEFINE seq == m.pending[1].chunk.seq
           stored == [chunks EXCEPT ![seq] = rows]
<1>1. Fits(n, chunks)
  BY ShiftFits
<1>2. \A q : q # seq => stored[q] = chunks[q]
  BY DEF StoredChunks
<1>3. /\ seq \in Nat /\ seq < First(m)
      /\ First(n) = First(m) /\ First(m) \in Nat /\ First(m) <= m.nextSeq
      /\ m.nextSeq \in Nat
  BY FittingSeqs, MemoryFields, PendingFacts DEF Fits, Numbered, First
<1>4. \A i \in DOMAIN n.pending : n.pending[i].chunk.seq # seq
  <2>1. ASSUME NEW i \in DOMAIN n.pending
        PROVE  n.pending[i].chunk.seq # seq
    <3>1. i + 1 \in DOMAIN m.pending /\ n.pending[i] = m.pending[i + 1] /\ 1 < i + 1
      BY <2>1, ShiftFacts
    <3>2. seq < m.pending[i + 1].chunk.seq
      BY <3>1 DEF Fits, Numbered
    <3> QED BY <1>3, <3>1, <3>2
  <2> QED BY <2>1
<1>5. First(n) # seq
  BY <1>3
<1>6. \A q \in Seqs : q >= n.nextSeq => q # seq
  BY <1>3 DEF Seqs
<1> HIDE DEF stored
<1>7. Fits(n, stored)
  BY <1>1, <1>2, <1>4, <1>5, <1>6 DEF Fits
<1>8. \A S : Past(m, S) => Past(n, S)
  BY <1>3, ShiftPast
<1>9. Past(n, {seq})
  BY <1>1, <1>3, <1>4, <1>5, MemoryFields, FittingSeqs DEF Past, Fits
<1>10. \A S : Past(n, S) => Past(n, S \cup {seq})
  BY <1>9 DEF Past
<1> QED BY <1>7, <1>8, <1>10 DEF stored

LEMMA StoredHeadWhole ==
  ASSUME NEW m \in Memories, NEW chunks \in StoredChunks, Fits(m, chunks),
         1 \in DOMAIN m.pending,
         NEW n, n.pending = Shift(m.pending), n.tail = m.tail,
         n.nextSeq = m.nextSeq, n.samples = m.samples, n.dropped = m.dropped,
         Whole(m, chunks)
  PROVE  Whole(n, [chunks EXCEPT ![m.pending[1].chunk.seq] = m.pending[1].chunk.rows])
<1> DEFINE seq == m.pending[1].chunk.seq
           rows == m.pending[1].chunk.rows
           stored == [chunks EXCEPT ![seq] = rows]
<1>1. /\ Countable(m) /\ Numbered(m) /\ m.nextSeq \in Nat /\ m.nextSeq <= MaxRows
      /\ DOMAIN m.pending \subseteq Nat /\ DOMAIN m.pending = 1 .. Len(m.pending)
      /\ Len(m.pending) \in Nat
  BY MemoryFields, FitsCountable, PendingFacts DEF Fits, Countable
<1>2. /\ seq \in Seqs /\ rows \in Nat
      /\ \A q : q # seq => stored[q] = chunks[q]
      /\ stored[seq] = rows
  <2>1. seq \in Seqs /\ rows \in Nat
    BY <1>1, MemoryFields, FittingSeqs, PendingFacts
  <2> QED BY <2>1 DEF StoredChunks
<1>3. /\ First(n) = First(m) /\ Fits(n, chunks) /\ Numbered(n)
      /\ \A i \in DOMAIN n.pending :
           /\ i \in Nat /\ i > 0
           /\ i + 1 \in DOMAIN m.pending /\ n.pending[i] = m.pending[i + 1]
  BY ShiftFits, ShiftFacts DEF First, Fits
<1>4. \A i \in DOMAIN m.pending : i # 1 => i - 1 \in DOMAIN n.pending
  <2>1. /\ m.pending \in Seq(PendingChunks)
        /\ n.pending = SubSeq(m.pending, 2, Len(m.pending))
    BY MemoryFields, PendingFacts DEF Shift
  <2>2. DOMAIN n.pending = 1 .. Len(m.pending) - 1
    BY <1>1, <2>1
  <2> QED BY <1>1, <2>2
<1>5. Countable(n)
  BY <1>1, <1>3 DEF Countable
<1> HIDE DEF stored, seq, rows
<1>6. ASSUME NEW q \in 0 .. m.nextSeq - 1
      PROVE  RowsOf(n, stored, q) = RowsOf(m, chunks, q)
  <2>1. CASE q = seq
    <3>1. RowsOf(m, chunks, q) = rows
      BY <1>1, <2>1, WaitingRows DEF seq, rows
    <3>2. seq < First(m) /\ seq \in Nat
      BY <1>1 DEF Numbered, Countable, seq
    <3>3. ASSUME NEW i \in DOMAIN n.pending
          PROVE  n.pending[i].chunk.seq # q
      <4>1. 1 < i + 1 /\ i + 1 \in DOMAIN m.pending
        BY <1>3
      <4>2. seq < m.pending[i + 1].chunk.seq
        BY <1>1, <4>1 DEF Numbered, seq
      <4> QED BY <1>3, <2>1, <3>2, <4>2
    <3>4. RowsOf(n, stored, q) = stored[q]
      <4>1. q # First(n)
        BY <1>1, <1>3, <2>1, <3>2 DEF Countable
      <4> QED BY <3>3, <4>1, OtherRows
    <3> QED BY <1>2, <2>1, <3>1, <3>4
  <2>2. CASE q # seq /\ m.tail > 0 /\ q = First(m)
    BY <1>1, <1>3, <1>5, <2>2, WaitingRows
  <2>3. ASSUME q # seq, NEW i \in DOMAIN m.pending, m.pending[i].chunk.seq = q
        PROVE  RowsOf(n, stored, q) = RowsOf(m, chunks, q)
    <3>1. i # 1
      BY <2>3 DEF seq
    <3>2. i - 1 \in DOMAIN n.pending /\ n.pending[i - 1] = m.pending[i]
      <4>1. i \in Nat /\ (i - 1) + 1 = i
        BY <1>1
      <4> QED BY <1>3, <1>4, <3>1, <4>1
    <3>3. RowsOf(m, chunks, m.pending[i].chunk.seq) = m.pending[i].chunk.rows
      BY <1>1, WaitingRows
    <3>4. RowsOf(n, stored, n.pending[i - 1].chunk.seq) = n.pending[i - 1].chunk.rows
      BY <1>3, <1>5, <3>2, WaitingRows
    <3> QED BY <2>3, <3>2, <3>3, <3>4
  <2>4. ASSUME q # seq, ~(m.tail > 0 /\ q = First(m)),
               \A i \in DOMAIN m.pending : m.pending[i].chunk.seq # q
        PROVE  RowsOf(n, stored, q) = RowsOf(m, chunks, q)
    <3>1. \A i \in DOMAIN n.pending : n.pending[i].chunk.seq # q
      BY <1>3, <2>4
    <3>2. RowsOf(n, stored, q) = stored[q] /\ RowsOf(m, chunks, q) = chunks[q]
      BY <1>3, <2>4, <3>1, OtherRows
    <3> QED BY <1>2, <2>4, <3>2
  <2> QED BY <2>1, <2>2, <2>3, <2>4
<1>7. Whole(n, stored)
  BY <1>1, <1>6, WholeStill
<1> QED BY <1>7 DEF stored, seq, rows

\* A copy of the tail is stored, after the tail may have grown or been sealed.
LEMMA StoredTailFits ==
  ASSUME NEW m \in Memories, NEW chunks \in StoredChunks, Fits(m, chunks),
         NEW c \in Commits, ~c.head, Writes(c, m, chunks)
  PROVE  Fits(m, [chunks EXCEPT ![c.chunk.seq] = c.chunk.rows])
<1> DEFINE seq == c.chunk.seq
           stored == [chunks EXCEPT ![seq] = c.chunk.rows]
<1>1. Numbered(m)
  BY DEF Fits
<1>2. seq \in Seqs
  BY DEF Writes
<1>3. (\A q : q # seq => stored[q] = chunks[q]) /\ stored[seq] = c.chunk.rows
  BY <1>2 DEF StoredChunks
<1>4. /\ First(m) \in Nat /\ First(m) <= m.nextSeq /\ m.nextSeq \in Nat
      /\ m.tail \in Nat
      /\ m.tail > 0 => First(m) < m.nextSeq
      /\ \A i \in DOMAIN m.pending : i \in Nat /\ m.pending[i].chunk.seq \in Nat
      /\ \A i \in DOMAIN m.pending : m.pending[i].chunk.seq < First(m)
  BY <1>1, FittingSeqs, MemoryFields, PendingFacts DEF Numbered, First
<1> HIDE DEF stored
<1>5. CASE m.tail > 0 /\ seq = First(m) /\ c.chunk.rows <= m.tail
  <2>1. \A i \in DOMAIN m.pending : m.pending[i].chunk.seq # seq
    BY <1>4, <1>5
  <2>2. \A q \in Seqs : q >= m.nextSeq => q # seq
    BY <1>4, <1>5 DEF Seqs
  <2>3. Fits(m, stored)
    BY <1>3, <1>5, <2>1, <2>2 DEF Fits
  <2> QED BY <2>3 DEF stored
<1>6. ASSUME NEW i \in DOMAIN m.pending, m.pending[i].chunk.seq = seq,
             c.chunk.rows <= m.pending[i].chunk.rows
      PROVE  Fits(m, stored)
  <2>1. \A j \in DOMAIN m.pending : j # i => m.pending[j].chunk.seq # seq
    <3>1. \A j \in DOMAIN m.pending : j # i => i < j \/ j < i
      BY <1>4
    <3> QED BY <1>1, <1>4, <1>6, <3>1 DEF Numbered
  <2>2. First(m) # seq /\ \A q \in Seqs : q >= m.nextSeq => q # seq
    BY <1>4, <1>6 DEF Seqs
  <2>3. \A j \in DOMAIN m.pending :
          stored[m.pending[j].chunk.seq] <= m.pending[j].chunk.rows
    BY <1>3, <1>6, <2>1 DEF Fits
  <2> QED BY <1>3, <2>2, <2>3 DEF Fits
<1> QED BY <1>5, <1>6 DEF Writes, stored

LEMMA StoredTailWhole ==
  ASSUME NEW m \in Memories, NEW chunks \in StoredChunks, Fits(m, chunks),
         NEW c \in Commits, ~c.head, Writes(c, m, chunks), Whole(m, chunks)
  PROVE  Whole(m, [chunks EXCEPT ![c.chunk.seq] = c.chunk.rows])
<1> DEFINE stored == [chunks EXCEPT ![c.chunk.seq] = c.chunk.rows]
<1>1. Countable(m) /\ Numbered(m) /\ m.nextSeq \in Nat /\ m.nextSeq <= MaxRows
  BY MemoryFields, FitsCountable DEF Fits, Countable
<1>2. \A q : q # c.chunk.seq => stored[q] = chunks[q]
  BY DEF StoredChunks
<1> HIDE DEF stored
<1>3. ASSUME NEW q
      PROVE  RowsOf(m, stored, q) = RowsOf(m, chunks, q)
  <2>1. CASE m.tail > 0 /\ q = First(m)
    BY <1>1, <2>1, WaitingRows
  <2>2. ASSUME NEW i \in DOMAIN m.pending, m.pending[i].chunk.seq = q
        PROVE  RowsOf(m, stored, q) = RowsOf(m, chunks, q)
    BY <1>1, <2>2, WaitingRows
  <2>3. ASSUME ~(m.tail > 0 /\ q = First(m)),
               \A i \in DOMAIN m.pending : m.pending[i].chunk.seq # q
        PROVE  RowsOf(m, stored, q) = RowsOf(m, chunks, q)
    <3>1. q # c.chunk.seq
      BY <2>3 DEF Writes
    <3>2. RowsOf(m, stored, q) = stored[q] /\ RowsOf(m, chunks, q) = chunks[q]
      BY <2>3, OtherRows
    <3> QED BY <1>2, <3>1, <3>2
  <2> QED BY <2>1, <2>2, <2>3
<1>4. Whole(m, stored)
  BY <1>1, <1>3, WholeStill
<1> QED BY <1>4 DEF stored

-----------------------------------------------------------------------------
(* What a step does to the chain: no job but the head is ever at a commit.  *)

LEMMA QueuesSame ==
  ASSUME NEW r, NEW q, q.chain = r.chain
  PROVE  Queues(r, q)
  BY DEF Queues

LEMMA QueuesTwice ==
  ASSUME NEW r, NEW a, NEW q, Queues(r, a), Queues(a, q)
  PROVE  Queues(r, q)
  BY DEF Queues

LEMMA EnqueueQueues ==
  ASSUME NEW r \in Recorders, NEW job \in Jobs, job.step # "commit"
  PROVE  Queues(r, Enqueue(r, job))
<1>1. r.chain \in Seq(Jobs) /\ DOMAIN r.chain = 1 .. Len(r.chain) /\ Len(r.chain) \in Nat
  BY ChainFacts
<1>2. Enqueue(r, job).chain = Append(r.chain, job)
  BY EnqueueFields
<1>3. \A i \in DOMAIN Append(r.chain, job) :
        \/ i \in DOMAIN r.chain /\ Append(r.chain, job)[i] = r.chain[i]
        \/ Append(r.chain, job)[i] = job
  BY <1>1
<1> QED BY <1>2, <1>3 DEF Queues

LEMMA JobSteps ==
  ASSUME NEW s \in Sessions
  PROVE  \A job \in {OpenJob(s), DeviceJob(s), WarningJob(s), FlushJob(s), FinishJob(s)} :
           job \in Jobs /\ job.step # "commit"
<1>1. \A job \in {OpenJob(s), DeviceJob(s), WarningJob(s), FlushJob(s), FinishJob(s)} :
        job.step # "commit"
  BY DEF OpenJob, DeviceJob, WarningJob, FlushJob, FinishJob, Job
<1> QED BY <1>1, JobTypes

LEMMA StopQueues ==
  ASSUME NEW r \in Recorders, NEW q \in Recorders, Queues(r, q)
  PROVE  Queues(r, Stop(q))
<1>1. Stop(q).chain = q.chain
  BY StopFields
<1> QED BY <1>1, QueuesSame, QueuesTwice

LEMMA FlushQueues ==
  ASSUME NEW r \in Recorders, NEW m, r.session \in Sessions
  PROVE  Queues(r, Flush(r, m))
  BY JobSteps, EnqueueQueues, QueuesSame DEF Flush

LEMMA FinishQueues ==
  ASSUME NEW r \in Recorders
  PROVE  Queues(r, Finish(r))
<1>1. CASE r.session = NoSession
  <2>1. Finish(r).chain = r.chain
    BY <1>1 DEF Finish, Recorders
  <2> QED BY <2>1, QueuesSame
<1>2. CASE r.session # NoSession
  <2> DEFINE q == Enqueue(r, FinishJob(r.session))
  <2>1. r.session \in Sessions
    BY <1>2 DEF Recorders
  <2>2. q \in Recorders /\ Queues(r, q)
    BY <2>1, JobSteps, EnqueueType, EnqueueQueues
  <2>3. Finish(r) = Stop(q)
    BY <1>2 DEF Finish
  <2> HIDE DEF q
  <2> QED BY <2>2, <2>3, StopQueues
<1> QED BY <1>1, <1>2

LEMMA FollowQueues ==
  ASSUME NEW r \in Recorders, NEW usable \in BOOLEAN
  PROVE  Queues(r, FollowArchive(r, usable))
<1> DEFINE healed == [r EXCEPT !.archiveLost = FALSE, !.failure = FALSE]
           failed == [r EXCEPT !.failure = TRUE, !.archiveLost = TRUE]
<1>1. /\ healed \in Recorders /\ healed.chain = r.chain
      /\ failed \in Recorders /\ failed.chain = r.chain
  BY DEF Recorders
<1>2. FollowArchive(r, usable) \in {r, Finish(healed), failed}
  BY DEF FollowArchive
<1> HIDE DEF healed, failed
<1>3. Queues(r, Finish(healed)) /\ Queues(r, failed) /\ Queues(r, r)
  BY <1>1, FinishQueues, QueuesSame, QueuesTwice
<1> QED BY <1>2, <1>3

LEMMA AnnouncedQueues ==
  ASSUME NEW r \in Recorders, NEW usable \in BOOLEAN
  PROVE  Queues(r, FollowArchive([r EXCEPT !.announced = TRUE], usable))
<1> DEFINE told == [r EXCEPT !.announced = TRUE]
<1>1. told \in Recorders /\ told.chain = r.chain
  BY DEF Recorders
<1> HIDE DEF told
<1>2. Queues(r, FollowArchive(told, usable))
  BY <1>1, FollowQueues, QueuesSame, QueuesTwice
<1> QED BY <1>2 DEF told

LEMMA NotedQueues ==
  ASSUME NEW r \in Recorders, NEW m, NEW frame, r.session \in Sessions
  PROVE  Queues(r, NotedRecorder(r, m, frame))
<1> DEFINE s == r.session
           flushed == IF RowDue(r, m, frame) /\ Sealed(m, frame.split)
                      THEN Flush(r, m) ELSE r
<1>1. flushed \in Recorders /\ Queues(r, flushed)
  BY FlushType, FlushQueues, QueuesSame
<1>2. NotedRecorder(r, m, frame) \in {flushed, Enqueue(flushed, WarningJob(s))}
  BY DEF NotedRecorder
<1> HIDE DEF flushed
<1>3. Queues(flushed, Enqueue(flushed, WarningJob(s)))
  BY <1>1, JobSteps, EnqueueQueues
<1> QED BY <1>1, <1>2, <1>3, QueuesTwice

LEMMA OpenedQueues ==
  ASSUME NEW t, NEW r \in Recorders, NEW s \in Sessions, NEW identified \in BOOLEAN
  PROVE  Queues(r, Opened(t, r, s, identified))
<1> DEFINE begun == [r EXCEPT !.session = s, !.failure = FALSE, !.archiveLost = FALSE]
           open == Enqueue(begun, OpenJob(s))
           both == Enqueue(open, DeviceJob(s))
<1>1. begun \in Recorders /\ begun.chain = r.chain
  BY DEF Recorders
<1>2. Opened(t, r, s, identified) \in {open, both}
  BY DEF Opened
<1> HIDE DEF begun
<1>3. open \in Recorders /\ Queues(r, open)
  BY <1>1, JobSteps, EnqueueType, EnqueueQueues, QueuesSame, QueuesTwice
<1> HIDE DEF open
<1>4. Queues(r, both)
  BY <1>3, JobSteps, EnqueueQueues, QueuesTwice
<1> QED BY <1>2, <1>3, <1>4

-----------------------------------------------------------------------------
(* The invariant survives a step of one tab that accounts for each session. *)

LEMMA RowsTypes ==
  ASSUME TypeOK, NEW t \in Tabs, NEW s \in Sessions
  PROVE  /\ memory[s] \in Memories
         /\ archive[s] \in Records
         /\ archive[s].chunks \in StoredChunks
         /\ inflight[t] \in Commits
         /\ recorder[t] \in Recorders
  BY DEF TypeOK, Records, StoredChunks

LEMMA RowsKept ==
  ASSUME TypeOK, TypeOK', LeaseDiscipline, RowsInv, NEW t \in Tabs,
         \A u \in Tabs \ {t} : recorder'[u] = recorder[u] /\ inflight'[u] = inflight[u],
         \A s \in Sessions : Stays(s) \/ Settles(t, s) \/ Starts(s),
         \A s \in Sessions : RefersTo(t, s)' => RefersTo(t, s) \/ Starts(s),
         \A s \in Sessions : Opening(t, s)' => Opening(t, s) \/ Starts(s),
         \A s \in Sessions : recorder'[t].session = s =>
           recorder[t].session = s \/ Starts(s),
         PutByOpening(t),
         \A i \in DOMAIN recorder'[t].chain : recorder'[t].chain[i].step = "commit" =>
           LET s == recorder'[t].chain[i].session IN
           i = 1 /\ Writes(inflight'[t], memory'[s], archive'[s].chunks),
         ArchiveInOrder'
  PROVE  RowsInv'
<1>1. ASSUME NEW u \in Tabs, NEW s \in Sessions, RefersTo(u, s), Stays(s)
      PROVE  /\ Fits(memory'[s], archive'[s].chunks)
             /\ \A c \in Commits : Writes(c, memory[s], archive[s].chunks)
                                    => Writes(c, memory'[s], archive'[s].chunks)
  <2>1. Fits(memory[s], archive[s].chunks)
    BY <1>1 DEF RowsInv, MemoryFitsTheArchive
  <2>2. /\ archive[s].chunks \in StoredChunks /\ archive'[s].chunks \in StoredChunks
        /\ memory'[s] \in Memories
    BY RowsTypes DEF TypeOK, Records, StoredChunks
  <2>3. /\ Fits(memory'[s], archive[s].chunks)
        /\ \A c \in Commits : Writes(c, memory[s], archive[s].chunks)
                               => Writes(c, memory'[s], archive[s].chunks)
    BY <1>1, <2>1, <2>2 DEF Stays, Extends
  <2> QED BY <1>1, <2>2, <2>3, LowerFits, LowerWrites DEF Stays
\* Nobody else refers to a session that t settles or that begins.
<1>2. ASSUME NEW u \in Tabs, u # t, NEW s \in Sessions, RefersTo(u, s)
      PROVE  Stays(s)
  <2>1. ~RefersTo(t, s)
    BY <1>2 DEF LeaseDiscipline, OneOwner
  <2>2. ~Unused(s)
    BY <1>2 DEF Unused
  <2> QED BY <2>1, <2>2 DEF Settles, Starts
<1>3. MemoryFitsTheArchive'
  <2>1. ASSUME NEW u \in Tabs, NEW s \in Sessions, RefersTo(u, s)'
        PROVE  Fits(memory'[s], archive'[s].chunks)
    <3>1. CASE u # t
      <4>1. RefersTo(u, s)
        BY <2>1, <3>1 DEF RefersTo
      <4> QED BY <1>1, <1>2, <3>1, <4>1
    <3>2. CASE u = t
      BY <1>1, <2>1, <3>2 DEF Settles, Starts
    <3> QED BY <3>1, <3>2
  <2> QED BY <2>1 DEF MemoryFitsTheArchive
<1>4. CommitsAreCurrent'
  <2>1. ASSUME NEW u \in Tabs, NEW i \in DOMAIN recorder'[u].chain,
               recorder'[u].chain[i].step = "commit"
        PROVE  LET s == recorder'[u].chain[i].session IN
               i = 1 /\ Writes(inflight'[u], memory'[s], archive'[s].chunks)
    <3>1. CASE u = t
      BY <2>1, <3>1
    <3>2. CASE u # t
      <4> DEFINE s == recorder[u].chain[i].session
      <4>1. recorder'[u] = recorder[u] /\ inflight'[u] = inflight[u] /\ inflight[u] \in Commits
        BY <3>2 DEF TypeOK
      <4>2. i = 1 /\ Writes(inflight[u], memory[s], archive[s].chunks)
        BY <2>1, <4>1 DEF RowsInv, CommitsAreCurrent
      <4>3. s \in Sessions /\ RefersTo(u, s)
        BY <2>1, <4>1, ChainFacts DEF RefersTo, TypeOK
      <4> QED BY <1>1, <1>2, <3>2, <4>1, <4>2, <4>3
    <3> QED BY <3>1, <3>2
  <2> QED BY <2>1 DEF CommitsAreCurrent
<1>5. EnteredIsWhole'
  <2>1. ASSUME NEW u \in Tabs, NEW s \in Sessions, RefersTo(u, s)',
               Entered(u, s)', ~Starts(s)
        PROVE  Whole(memory'[s], archive'[s].chunks)
    <3>1. RefersTo(u, s)
      <4>1. u # t => recorder'[u] = recorder[u]
        OBVIOUS
      <4> QED BY <2>1, <4>1 DEF RefersTo
    <3>2. Opening(u, s)' => Opening(u, s)
      <4>1. u # t => recorder'[u] = recorder[u]
        OBVIOUS
      <4> QED BY <2>1, <4>1 DEF Opening
    <3>3. Opening(t, s) => u = t
      BY <3>1 DEF Opening, RefersTo, LeaseDiscipline, OneOwner
    <3>4. Opening(u, s) => archive[s].state = "absent"
      BY DEF Opening, LeaseDiscipline, OpensFreshRow
    <3>5. Entered(u, s)
      BY <2>1, <3>2, <3>3, <3>4 DEF Entered, PutByOpening
    <3>6. Whole(memory[s], archive[s].chunks)
      BY <3>1, <3>5 DEF RowsInv, EnteredIsWhole
    <3>7. CASE Settles(t, s)
      BY <3>6, <3>7 DEF Settles
    <3>8. CASE Stays(s)
      <4>1. archive'[s].chunks = archive[s].chunks
        <5>1. CASE archive'[s].state = "open"
          BY <3>8, <5>1 DEF Stays
        <5>2. CASE archive'[s].state # "open"
          <6>1. archive'[s].state = "absent" /\ archive[s].state = "absent"
            BY <2>1, <3>2, <3>4, <5>2 DEF Entered
          <6>2. archive'[s] = Absent /\ archive[s] = Absent
            BY <6>1 DEF RowsInv, ArchiveInOrder, RowInOrder
          <6> QED BY <6>2
        <5> QED BY <5>1, <5>2
      <4>2. Fits(memory[s], archive[s].chunks) /\ archive[s].chunks \in StoredChunks
        BY <3>1, RowsTypes DEF RowsInv, MemoryFitsTheArchive
      <4>3. Whole(memory'[s], archive[s].chunks)
        BY <3>6, <3>8, <4>2 DEF Stays, Extends
      <4> QED BY <4>1, <4>3
    <3> QED BY <2>1, <3>7, <3>8
  <2>2. ASSUME NEW s \in Sessions, Starts(s)
        PROVE  Whole(memory'[s], archive'[s].chunks)
    BY <2>2 DEF Starts
  <2> QED BY <2>1, <2>2 DEF EnteredIsWhole
<1>6. SealedIsPast'
  <2>1. ASSUME NEW u \in Tabs, NEW s \in Sessions, RefersTo(u, s)',
               archive'[s].state = "open"
        PROVE  Past(memory'[s], sealed'[s])
    <3>1. ~Starts(s)
      BY <2>1 DEF Starts
    <3>2. RefersTo(u, s)
      <4>1. u # t => recorder'[u] = recorder[u]
        OBVIOUS
      <4> QED BY <2>1, <3>1, <4>1 DEF RefersTo
    <3>3. archive[s].state = "open" \/ archive[s].state = "absent"
      BY <2>1 DEF PutByOpening, Opening, LeaseDiscipline, OpensFreshRow
    <3>4. Past(memory[s], sealed[s])
      BY <3>2, <3>3 DEF RowsInv, SealedIsPast, ArchiveInOrder, RowInOrder, Past
    <3>5. Fits(memory[s], archive[s].chunks)
      BY <3>2 DEF RowsInv, MemoryFitsTheArchive
    <3>6. memory'[s] \in Memories
      BY DEF TypeOK
    <3>7. Stays(s) => Past(memory'[s], sealed'[s])
      BY <2>1, <3>4, <3>5, <3>6, RowsTypes, PastExtends DEF Stays
    <3> QED BY <3>1, <3>4, <3>7 DEF Settles
  <2> QED BY <2>1 DEF SealedIsPast
<1> QED BY <1>3, <1>4, <1>5, <1>6 DEF RowsInv

\* What a chain refers to after a step it referred to before.
LEMMA KeepsRefers ==
  ASSUME NEW t \in Tabs, NEW s \in Sessions, NEW popped, NEW touched,
         Keeps(recorder[t], recorder'[t], popped, touched), RefersTo(t, s)'
  PROVE  RefersTo(t, s)
  BY SessionRecorderAssumption DEF Keeps, Kept, Added, RefersTo

\* No job that opens a session is added but where one begins.
LEMMA KeepsOpening ==
  ASSUME NEW t \in Tabs, NEW s \in Sessions, NEW popped, NEW touched,
         Keeps(recorder[t], recorder'[t], popped, touched)
  PROVE  /\ Opening(t, s)' => Opening(t, s)
         /\ recorder'[t].session = s => recorder[t].session = s
<1>1. Opening(t, s)' => Opening(t, s)
  BY DEF Keeps, Kept, Added, Opening
<1>2. recorder'[t].session = s => recorder[t].session = s
  BY SessionRecorderAssumption DEF Keeps
<1> QED BY <1>1, <1>2

\* A commit that goes on while its session stays.
LEMMA CommitStays ==
  ASSUME TypeOK, TypeOK', RowsInv, NEW t \in Tabs, inflight'[t] = inflight[t],
         Queues(recorder[t], recorder'[t]),
         \A s \in Sessions : RefersTo(t, s) => Stays(s),
         NEW i \in DOMAIN recorder'[t].chain, recorder'[t].chain[i].step = "commit"
  PROVE  LET s == recorder'[t].chain[i].session IN
         i = 1 /\ Writes(inflight'[t], memory'[s], archive'[s].chunks)
<1> DEFINE s == recorder[t].chain[i].session
<1>1. i \in DOMAIN recorder[t].chain /\ recorder'[t].chain[i] = recorder[t].chain[i]
  BY DEF Queues
<1>2. i = 1 /\ Writes(inflight[t], memory[s], archive[s].chunks)
  BY <1>1 DEF RowsInv, CommitsAreCurrent
<1>3. s \in Sessions /\ RefersTo(t, s)
  BY <1>1, ChainFacts DEF RefersTo, TypeOK
<1>4. Fits(memory[s], archive[s].chunks) /\ Stays(s)
  BY <1>3 DEF RowsInv, MemoryFitsTheArchive
<1>5. /\ archive[s].chunks \in StoredChunks /\ archive'[s].chunks \in StoredChunks
      /\ inflight[t] \in Commits
  BY <1>3 DEF TypeOK, Records, StoredChunks
<1>6. Writes(inflight[t], memory'[s], archive[s].chunks)
  BY <1>2, <1>4, <1>5 DEF Stays, Extends
<1>7. Writes(inflight[t], memory'[s], archive'[s].chunks)
  BY <1>4, <1>5, <1>6, LowerWrites DEF Stays
<1> QED BY <1>1, <1>2, <1>7

LEMMA LowerSame ==
  ASSUME NEW chunks \in StoredChunks
  PROVE  Lower(chunks, chunks)
<1>1. \A q \in Seqs : chunks[q] \in Nat
  BY DEF StoredChunks
<1> QED BY <1>1 DEF Lower

\* A step that writes no chunk, begins no session and takes none from the queue.
LEMMA StepRows ==
  ASSUME TypeOK, TypeOK', LeaseDiscipline, RowsInv, NEW t \in Tabs,
         \A u \in Tabs \ {t} : recorder'[u] = recorder[u],
         NEW popped, NEW touched, Keeps(recorder[t], recorder'[t], popped, touched),
         \A s \in Sessions : Extends(memory[s], memory'[s]),
         UNCHANGED <<archive, sealed, cut>>,
         \A u \in Tabs \ {t} : inflight'[u] = inflight[u],
         \/ Queues(recorder[t], recorder'[t]) /\ inflight'[t] = inflight[t]
         \/ \A i \in DOMAIN recorder'[t].chain : recorder'[t].chain[i].step = "commit" =>
              LET s == recorder'[t].chain[i].session IN
              i = 1 /\ Writes(inflight'[t], memory'[s], archive'[s].chunks)
  PROVE  RowsInv'
<1>1. \A s \in Sessions : Stays(s)
  BY RowsTypes, LowerSame DEF Stays
<1>2. \A s \in Sessions : RefersTo(t, s)' => RefersTo(t, s)
  BY KeepsRefers
<1>3. ArchiveInOrder'
  BY DEF RowsInv, ArchiveInOrder, RowInOrder
<1>4. /\ \A s \in Sessions : Opening(t, s)' => Opening(t, s)
      /\ \A s \in Sessions : recorder'[t].session = s => recorder[t].session = s
      /\ PutByOpening(t)
  BY KeepsOpening DEF PutByOpening
<1>5. \A i \in DOMAIN recorder'[t].chain : recorder'[t].chain[i].step = "commit" =>
        LET s == recorder'[t].chain[i].session IN
        i = 1 /\ Writes(inflight'[t], memory'[s], archive'[s].chunks)
  BY <1>1, CommitStays
<1> QED BY <1>1, <1>2, <1>3, <1>4, <1>5, RowsKept

LEMMA CallRows ==
  ASSUME TypeOK, TypeOK', LeaseDiscipline, RowsInv, NEW t \in Tabs, NEW q,
         recorder' = [recorder EXCEPT ![t] = q],
         Keeps(recorder[t], q, 0, 0), Queues(recorder[t], q),
         \A s \in Sessions : Extends(memory[s], memory'[s]),
         UNCHANGED <<inflight, archive, sealed, cut>>
  PROVE  RowsInv'
<1>1. recorder'[t] = q /\ \A u \in Tabs \ {t} : recorder'[u] = recorder[u]
  BY DEF TypeOK
<1>2. \A u \in Tabs : inflight'[u] = inflight[u]
  OBVIOUS
<1>3. UNCHANGED <<archive, sealed, cut>>
  OBVIOUS
<1> QED BY <1>1, <1>2, <1>3, StepRows

\* A session that begins has nothing in the archive.
LEMMA BegunFits ==
  ASSUME NEW leased \in BOOLEAN, NEW identified \in BOOLEAN, NEW n,
         Extends(NewSession(leased, identified), n)
  PROVE  Fits(n, Absent.chunks) /\ Whole(n, Absent.chunks)
<1> DEFINE m == NewSession(leased, identified)
<1>1. m.pending = <<>> /\ m.tail = 0 /\ m.nextSeq = 0 /\ m.samples = 0
  BY DEF NewSession
<1>2. Absent.chunks \in StoredChunks /\ \A q \in Seqs : Absent.chunks[q] = 0
  BY DEF Absent, StoredChunks
<1>3. DOMAIN m.pending = {}
  BY <1>1
<1> HIDE DEF m
<1>4. Fits(m, Absent.chunks)
  BY <1>1, <1>2, <1>3 DEF Fits, Numbered, First
<1>5. Whole(m, Absent.chunks)
  BY <1>1, SumZero DEF Whole, Tallied
<1> QED BY <1>2, <1>4, <1>5 DEF Extends, m

LEMMA OpenRows ==
  ASSUME TypeOK, TypeOK', LeaseDiscipline, RowsInv, NEW t \in Tabs, NEW a \in Recorders,
         NEW s \in Sessions, Unused(s), Keeps(recorder[t], a, 0, 0), NEW q,
         Begins(a, q, s), Queues(recorder[t], q),
         recorder' = [recorder EXCEPT ![t] = q],
         \A z \in Sessions : z # s => Extends(memory[z], memory'[z]),
         Fits(memory'[s], Absent.chunks), Whole(memory'[s], Absent.chunks),
         UNCHANGED <<inflight, archive, sealed, cut>>
  PROVE  RowsInv'
<1>1. recorder'[t] = q /\ \A u \in Tabs \ {t} : recorder'[u] = recorder[u]
  BY DEF TypeOK
<1>2. archive[s] = Absent
  BY DEF Unused, RowsInv, ArchiveInOrder, RowInOrder
<1>3. Starts(s) /\ ~RefersTo(t, s)
  BY <1>2 DEF Starts, Unused, Absent
<1>4. \A z \in Sessions : z # s => Stays(z)
  BY RowsTypes, LowerSame DEF Stays
<1>5. ASSUME NEW z \in Sessions, RefersTo(t, z)', z # s
      PROVE  RefersTo(t, z)
  <2>1. q.session = s
    BY DEF Begins
  <2>2. PICK i \in DOMAIN q.chain : q.chain[i].session = z
    BY <1>1, <1>5, <2>1 DEF RefersTo
  <2>3. i \in DOMAIN a.chain /\ q.chain[i] = a.chain[i] /\ i + 0 = i
    BY <1>5, <2>2, ChainFacts DEF Begins
  <2>4. \/ i \in DOMAIN recorder[t].chain /\ Kept(a.chain[i], recorder[t].chain[i])
        \/ Added(recorder[t], a, a.chain[i])
    BY <2>3 DEF Keeps
  <2> QED BY <2>2, <2>3, <2>4 DEF Kept, Added, RefersTo
<1>6. ArchiveInOrder'
  BY DEF RowsInv, ArchiveInOrder, RowInOrder
<1>7. \A z \in Sessions : RefersTo(t, z) => Stays(z)
  BY <1>3, <1>4
<1>8. \A i \in DOMAIN recorder'[t].chain : recorder'[t].chain[i].step = "commit" =>
        LET z == recorder'[t].chain[i].session IN
        i = 1 /\ Writes(inflight'[t], memory'[z], archive'[z].chunks)
  BY <1>1, <1>7, CommitStays
<1>9. /\ \A z \in Sessions : recorder'[t].session = z => z = s
      /\ PutByOpening(t)
  BY <1>1 DEF Begins, PutByOpening
<1>10. ASSUME NEW z \in Sessions, Opening(t, z)', z # s
       PROVE  Opening(t, z)
  <2>1. PICK i \in DOMAIN q.chain : q.chain[i].kind = "open" /\ q.chain[i].session = z
    BY <1>1, <1>10 DEF Opening
  <2>2. i \in DOMAIN a.chain /\ q.chain[i] = a.chain[i] /\ i + 0 = i
    BY <1>10, <2>1, ChainFacts DEF Begins
  <2>3. \/ i \in DOMAIN recorder[t].chain /\ Kept(a.chain[i], recorder[t].chain[i])
        \/ Added(recorder[t], a, a.chain[i])
    BY <2>2 DEF Keeps
  <2> QED BY <2>1, <2>2, <2>3 DEF Kept, Added, Opening
<1>11. \A z \in Sessions : Opening(t, z)' => Opening(t, z) \/ Starts(z)
  BY <1>3, <1>10
<1>12. \A z \in Sessions : Stays(z) \/ Settles(t, z) \/ Starts(z)
  BY <1>3, <1>4
<1>13. \A z \in Sessions : RefersTo(t, z)' => RefersTo(t, z) \/ Starts(z)
  BY <1>3, <1>5
<1> QED BY <1>1, <1>3, <1>6, <1>8, <1>9, <1>11, <1>12, <1>13, RowsKept

-----------------------------------------------------------------------------
(* The calls of telemetry. *)

\* One session object changed.
LEMMA ReplaceExtends ==
  ASSUME TypeOK, NEW s \in Sessions, NEW n, Extends(memory[s], n),
         memory' = [memory EXCEPT ![s] = n]
  PROVE  \A z \in Sessions : Extends(memory[z], memory'[z])
  BY SameExtends DEF TypeOK

LEMMA EndedExtends ==
  ASSUME TypeOK, NEW t \in Tabs, NEW ended \in BOOLEAN,
         ended => recorder[t].session # NoSession
  PROVE  \A z \in Sessions : Extends(memory[z], SealIfEnded(t, ended)[z])
<1>1. CASE ended
  <2>1. recorder[t].session \in Sessions
    BY <1>1, TypeFacts
  <2>2. Extends(memory[recorder[t].session], Seal(memory[recorder[t].session]))
    BY <2>1, RowsTypes, MemoryFields, SealExtends
  <2> QED BY <1>1, <2>1, <2>2, SameExtends DEF SealIfEnded, TypeOK
<1>2. CASE ~ended
  BY <1>2, SameExtends DEF SealIfEnded
<1> QED BY <1>1, <1>2

LEMMA ReturnedExtends ==
  ASSUME TypeOK, NEW t \in Tabs
  PROVE  \A z \in Sessions : Extends(memory[z], SealIfEnded(t, ArchiveReturned(t))[z])
<1>1. ArchiveReturned(t) \in BOOLEAN /\ (ArchiveReturned(t) => recorder[t].session # NoSession)
  BY TypeFacts DEF ArchiveReturned, Recorders
<1> QED BY <1>1, EndedExtends

LEMMA ObserveRows ==
  ASSUME TypeOK, TypeOK', LeaseDiscipline, RowsInv, NEW t \in Tabs, Observe(t)
  PROVE  RowsInv'
<1> DEFINE after == Followed(t)
           ended == SealIfEnded(t, ArchiveReturned(t))
<1>1. after \in Recorders /\ recorder[t] \in Recorders /\ ended \in [Sessions -> Memories]
  BY FollowedType
<1>2. Keeps(recorder[t], after, 0, 0) /\ Queues(recorder[t], after)
  BY <1>1, FollowArchiveKeeps, FollowQueues DEF Followed
<1>3. UNCHANGED <<inflight, archive, sealed, cut>>
  BY DEF Observe, Elsewhere
<1>4. \A z \in Sessions : Extends(memory[z], ended[z])
  BY ReturnedExtends
<1> HIDE DEF after, ended
<1>5. ASSUME after.session # NoSession, NEW frame \in Frames,
             recorder' = [recorder EXCEPT
                            ![t] = NotedRecorder(after, memory[after.session], frame)],
             memory' = [memory EXCEPT
                          ![after.session] = NotedMemory(after, memory[after.session], frame)]
      PROVE  RowsInv'
  <2> DEFINE m == memory[after.session]
             q == NotedRecorder(after, m, frame)
  <2>1. after.session \in Sessions /\ m \in Memories
    BY <1>1, <1>5, TypeFacts DEF Recorders
  <2>2. q \in Recorders /\ Keeps(after, q, 0, 0) /\ Queues(after, q)
    BY <1>1, <2>1, NotedKeeps, NotedQueues, NotedRecorderType
  <2>3. Keeps(recorder[t], q, 0, 0) /\ Queues(recorder[t], q)
    BY <1>1, <1>2, <2>2, KeepsTwice, QueuesTwice
  <2>4. \A z \in Sessions : Extends(memory[z], memory'[z])
    BY <1>1, <1>5, <2>1, NotedMemoryExtends, ReplaceExtends
  <2>5. recorder' = [recorder EXCEPT ![t] = q]
    BY <1>5
  <2> HIDE DEF q
  <2> QED BY <1>3, <2>3, <2>4, <2>5, CallRows
<1>6. ASSUME NEW s \in Sessions, NEW identified \in BOOLEAN, NEW frame \in Frames,
             CanOpen(t, after, s),
             LET r == Opened(t, after, s, identified)
                 m == NewSession(lease = t, identified)
             IN  /\ recorder' = [recorder EXCEPT ![t] = NotedRecorder(r, m, frame)]
                 /\ memory' = [ended EXCEPT ![s] = NotedMemory(r, m, frame)]
      PROVE  RowsInv'
  <2> DEFINE leased == (lease = t)
             b == Opened(t, after, s, identified)
             m == NewSession(leased, identified)
             q == NotedRecorder(b, m, frame)
             n == NotedMemory(b, m, frame)
  <2>1. /\ b \in Recorders /\ b.session = s /\ Begins(after, b, s)
        /\ Queues(after, b)
    BY <1>1, OpenedType, OpenedBegins, OpenedQueues
  <2>2. Unused(s)
    BY <1>6 DEF CanOpen
  <2>3. recorder' = [recorder EXCEPT ![t] = q] /\ memory' = [ended EXCEPT ![s] = n]
    BY <1>6
  <2>4. leased \in BOOLEAN
    OBVIOUS
  <2> HIDE DEF b, leased
  <2>5. Begins(after, q, s)
    BY <1>1, <2>1, NotedBegins
  <2>6. Queues(b, q)
    BY <2>1, NotedQueues
  <2>7. Queues(recorder[t], q)
    BY <1>2, <2>1, <2>6, QueuesTwice
  <2>8. m \in Memories
    BY <2>4, NewSessionType
  <2>9. Extends(m, n)
    BY <2>1, <2>8, NotedMemoryExtends
  <2>10. Fits(n, Absent.chunks) /\ Whole(n, Absent.chunks)
    BY <2>4, <2>9, BegunFits
  <2> HIDE DEF q, n
  <2>11. memory'[s] = n /\ \A z \in Sessions : z # s => memory'[z] = ended[z]
    BY <1>1, <2>3
  <2>12. Fits(memory'[s], Absent.chunks) /\ Whole(memory'[s], Absent.chunks)
    BY <2>10, <2>11
  <2>13. \A z \in Sessions : z # s => Extends(memory[z], memory'[z])
    BY <1>4, <2>11
  <2> QED BY <1>1, <1>2, <1>3, <2>2, <2>3, <2>5, <2>7, <2>12, <2>13, OpenRows
<1>7. ASSUME recorder' = [recorder EXCEPT ![t] = after], memory' = ended
      PROVE  RowsInv'
  BY <1>2, <1>3, <1>4, <1>7, CallRows
<1> QED BY <1>5, <1>6, <1>7 DEF Observe, after, ended

LEMMA CallsRows ==
  ASSUME TypeOK, TypeOK', LeaseDiscipline, RowsInv, NEW t \in Tabs,
         \/ EndStream(t) \/ Checkpoint(t) \/ EndWatch(t) \/ Identify(t)
         \/ HoldOpenForRejoin(t) \/ ReleaseRejoinHold(t)
         \/ RetryIntervalEnds(t) \/ HearAnnouncement(t)
  PROVE  RowsInv'
<1> DEFINE r == recorder[t]
           s == r.session
<1>1. r \in Recorders /\ (s # NoSession => s \in Sessions /\ memory[s] \in Memories)
  BY TypeFacts
<1>2. UNCHANGED <<inflight, archive, sealed, cut>>
  BY DEF EndStream, Checkpoint, EndWatch, Identify, HoldOpenForRejoin, ReleaseRejoinHold,
         RetryIntervalEnds, HearAnnouncement, Elsewhere
<1>3. CASE EndStream(t) \/ Checkpoint(t)
  <2>1. s # NoSession /\ recorder' = [recorder EXCEPT ![t] = Flush(r, memory[s])]
    BY <1>3 DEF EndStream, Checkpoint
  <2>2. Keeps(r, Flush(r, memory[s]), 0, 0) /\ Queues(r, Flush(r, memory[s]))
    BY <1>1, <2>1, FlushKeeps, FlushQueues
  <2>3. /\ Extends(memory[s], RequestFlush(memory[s]))
        /\ Extends(memory[s], RequestFlush(Seal(memory[s])))
    <3>1. Seal(memory[s]) \in Memories /\ Extends(memory[s], Seal(memory[s]))
      BY <1>1, <2>1, MemoryFields, SealType, SealExtends
    <3> QED BY <1>1, <2>1, <3>1, RequestFlushExtends, ExtendsTwice
  <2>4. \/ memory' = [memory EXCEPT ![s] = RequestFlush(Seal(memory[s]))]
        \/ memory' = [memory EXCEPT ![s] = RequestFlush(memory[s])]
    BY <1>3 DEF EndStream, Checkpoint
  <2>5. \A z \in Sessions : Extends(memory[z], memory'[z])
    BY <1>1, <2>1, <2>3, <2>4, ReplaceExtends
  <2> QED BY <1>2, <2>1, <2>2, <2>5, CallRows
<1>4. CASE EndWatch(t)
  <2> DEFINE ended == (s # NoSession)
  <2>1. ended \in BOOLEAN /\ memory' = SealIfEnded(t, ended)
    BY <1>4 DEF EndWatch
  <2>2. ended => recorder[t].session # NoSession
    OBVIOUS
  <2> HIDE DEF ended
  <2>3. \A z \in Sessions : Extends(memory[z], memory'[z])
    BY <2>1, <2>2, EndedExtends
  <2>4. recorder' = [recorder EXCEPT ![t] = Finish(r)]
    BY <1>4 DEF EndWatch
  <2> QED BY <1>1, <1>2, <2>3, <2>4, FinishKeeps, FinishQueues, CallRows
<1>5. CASE Identify(t)
  <2> DEFINE q == Enqueue(r, DeviceJob(s))
             n == [memory[s] EXCEPT !.deviceCounted = TRUE]
  <2>1. s \in Sessions /\ memory[s] \in Memories
    BY <1>1, <1>5 DEF Identify
  <2>2. /\ Keeps(r, q, 0, 0) /\ Keeps(r, r, 0, 0)
        /\ Queues(r, q) /\ Queues(r, r)
    BY <1>1, <2>1, JobTypes, JobFields, EnqueueKeeps, KeepsSame, JobSteps,
       EnqueueQueues, QueuesSame
  <2>3. /\ n.pending = memory[s].pending /\ n.tail = memory[s].tail
        /\ n.nextSeq = memory[s].nextSeq /\ n.samples = memory[s].samples
        /\ n.dropped = memory[s].dropped
    BY <2>1 DEF Memories, MemoryRecords
  <2>4. /\ memory' = [memory EXCEPT ![s] = n]
        /\ \/ recorder' = [recorder EXCEPT ![t] = q]
           \/ recorder' = [recorder EXCEPT ![t] = r]
    BY <1>5 DEF Identify
  <2> HIDE DEF n, q
  <2>5. Extends(memory[s], n)
    BY <2>3, AlikeExtends
  <2>6. \A z \in Sessions : Extends(memory[z], memory'[z])
    BY <2>1, <2>4, <2>5, ReplaceExtends
  <2> QED BY <1>2, <2>2, <2>4, <2>6, CallRows
<1>6. CASE HoldOpenForRejoin(t) \/ ReleaseRejoinHold(t) \/ RetryIntervalEnds(t)
  <2>1. PICK q \in Recorders : /\ recorder' = [recorder EXCEPT ![t] = q]
                               /\ q.session = r.session /\ q.chain = r.chain
    <3>1. \A held \in BOOLEAN : LET q == [r EXCEPT !.held = held] IN
            q \in Recorders /\ q.session = r.session /\ q.chain = r.chain
      BY <1>1 DEF Recorders
    <3>2. LET q == [r EXCEPT !.refusal = "due"] IN
            q \in Recorders /\ q.session = r.session /\ q.chain = r.chain
      BY <1>1 DEF Recorders
    <3>3. \/ \E held \in BOOLEAN : recorder' = [recorder EXCEPT ![t] = [r EXCEPT !.held = held]]
          \/ recorder' = [recorder EXCEPT ![t] = [r EXCEPT !.refusal = "due"]]
      BY <1>6 DEF HoldOpenForRejoin, ReleaseRejoinHold, RetryIntervalEnds
    <3> QED BY <3>1, <3>2, <3>3
  <2>2. memory' = memory
    BY <1>6 DEF HoldOpenForRejoin, ReleaseRejoinHold, RetryIntervalEnds
  <2> QED BY <1>1, <1>2, <2>1, <2>2, KeepsSame, QueuesSame, SameExtends, CallRows
<1>7. CASE HearAnnouncement(t)
  <2> DEFINE usable == (store[t] = "usable")
  <2>1. /\ recorder' = [recorder EXCEPT
                          ![t] = FollowArchive([r EXCEPT !.announced = TRUE], usable)]
        /\ memory' = SealIfEnded(t, ArchiveReturned(t))
        /\ usable \in BOOLEAN
    BY <1>7 DEF HearAnnouncement
  <2> HIDE DEF usable
  <2> QED BY <1>1, <1>2, <2>1, AnnouncedKeeps, AnnouncedQueues, ReturnedExtends, CallRows
<1> QED BY <1>3, <1>4, <1>5, <1>6, <1>7

LEMMA TickRows ==
  ASSUME TypeOK, TypeOK', LeaseDiscipline, RowsInv, NEW t \in Tabs, Tick(t)
  PROVE  RowsInv'
<1> DEFINE r == recorder[t]
           after == Followed(t)
           s == after.session
           usable == (store[t] = "usable")
<1>1. r \in Recorders /\ after \in Recorders /\ r.session # NoSession
  BY FollowedType DEF Tick
<1>2. Keeps(r, after, 0, 0) /\ Queues(r, after)
  BY <1>1, FollowArchiveKeeps, FollowQueues DEF Followed
<1>3. UNCHANGED <<inflight, archive, sealed, cut>>
  BY DEF Tick, Elsewhere
<1>4. \/ /\ s = NoSession
         /\ recorder' = [recorder EXCEPT ![t] = after]
         /\ memory' = SealIfEnded(t, TRUE)
      \/ /\ s # NoSession
         /\ recorder' = [recorder EXCEPT ![t] = Finish(after)]
         /\ memory' = [memory EXCEPT ![s] = Seal(memory[s])]
      \/ /\ s # NoSession
         /\ recorder' = [recorder EXCEPT ![t] = Flush(after, memory[s])]
         /\ memory' = [memory EXCEPT ![s] = RequestFlush(memory[s])]
  BY DEF Tick
<1> HIDE DEF after
<1>5. CASE recorder' = [recorder EXCEPT ![t] = after] /\ memory' = SealIfEnded(t, TRUE)
  <2> DEFINE ended == TRUE
  <2>1. ended \in BOOLEAN /\ memory' = SealIfEnded(t, ended)
    BY <1>5
  <2> HIDE DEF ended
  <2>2. \A z \in Sessions : Extends(memory[z], memory'[z])
    BY <1>1, <2>1, EndedExtends
  <2> QED BY <1>2, <1>3, <1>5, <2>2, CallRows
<1>6. ASSUME s # NoSession
      PROVE  s \in Sessions /\ memory[s] \in Memories
  BY <1>1, <1>6, TypeFacts DEF Recorders
<1>7. CASE /\ s # NoSession
           /\ recorder' = [recorder EXCEPT ![t] = Finish(after)]
           /\ memory' = [memory EXCEPT ![s] = Seal(memory[s])]
  <2>1. Keeps(r, Finish(after), 0, 0) /\ Queues(r, Finish(after))
    BY <1>1, <1>2, FinishType, FinishKeeps, KeepsTwice, FinishQueues, QueuesTwice
  <2>2. Extends(memory[s], Seal(memory[s]))
    BY <1>6, <1>7, MemoryFields, SealExtends
  <2>3. \A z \in Sessions : Extends(memory[z], memory'[z])
    BY <1>6, <1>7, <2>2, ReplaceExtends
  <2> QED BY <1>3, <1>7, <2>1, <2>3, CallRows
<1>8. CASE /\ s # NoSession
           /\ recorder' = [recorder EXCEPT ![t] = Flush(after, memory[s])]
           /\ memory' = [memory EXCEPT ![s] = RequestFlush(memory[s])]
  <2>1. Keeps(r, Flush(after, memory[s]), 0, 0) /\ Queues(r, Flush(after, memory[s]))
    BY <1>1, <1>2, <1>6, <1>8, FlushType, FlushKeeps, KeepsTwice, FlushQueues, QueuesTwice
  <2>2. \A z \in Sessions : Extends(memory[z], memory'[z])
    BY <1>6, <1>8, RequestFlushExtends, ReplaceExtends
  <2> QED BY <1>3, <1>8, <2>1, <2>2, CallRows
<1> QED BY <1>4, <1>5, <1>7, <1>8

LEMMA DeviceChangedRows ==
  ASSUME TypeOK, TypeOK', LeaseDiscipline, RowsInv, NEW t \in Tabs, DeviceChanged(t)
  PROVE  RowsInv'
<1> DEFINE ends == TRUE
           ended == SealIfEnded(t, ends)
           r == Finish(recorder[t])
           leased == (lease = t)
           identified == TRUE
<1>1. /\ r \in Recorders /\ Keeps(recorder[t], r, 0, 0) /\ Queues(recorder[t], r)
      /\ recorder[t].session # NoSession
  BY TypeFacts, FinishType, FinishKeeps, FinishQueues DEF DeviceChanged
<1>2. UNCHANGED <<inflight, archive, sealed, cut>>
  BY DEF DeviceChanged, Elsewhere
<1>3. \/ \E s \in Sessions :
           /\ CanOpen(t, r, s)
           /\ recorder' = [recorder EXCEPT ![t] = Opened(t, r, s, identified)]
           /\ memory' = [ended EXCEPT ![s] = NewSession(leased, identified)]
      \/ recorder' = [recorder EXCEPT ![t] = r] /\ memory' = ended
  BY DEF DeviceChanged
<1>4. leased \in BOOLEAN /\ identified \in BOOLEAN /\ ends \in BOOLEAN
  OBVIOUS
<1> HIDE DEF r, leased, identified, ends
<1>5. /\ ended \in [Sessions -> Memories]
      /\ \A z \in Sessions : Extends(memory[z], ended[z])
  BY <1>1, <1>4, SealIfEndedType, EndedExtends
<1> HIDE DEF ended
<1>6. ASSUME NEW s \in Sessions, CanOpen(t, r, s),
             recorder' = [recorder EXCEPT ![t] = Opened(t, r, s, identified)],
             memory' = [ended EXCEPT ![s] = NewSession(leased, identified)]
      PROVE  RowsInv'
  <2> DEFINE m == NewSession(leased, identified)
             q == Opened(t, r, s, identified)
  <2>1. Begins(r, q, s) /\ Queues(r, q)
    BY <1>1, <1>4, OpenedBegins, OpenedQueues
  <2>2. Unused(s)
    BY <1>6 DEF CanOpen
  <2>3. Fits(m, Absent.chunks) /\ Whole(m, Absent.chunks)
    BY <1>4, SameExtends, BegunFits
  <2>4. Queues(recorder[t], q)
    BY <1>1, <2>1, QueuesTwice
  <2> HIDE DEF m, q
  <2>5. memory'[s] = m /\ \A z \in Sessions : z # s => memory'[z] = ended[z]
    BY <1>5, <1>6 DEF m
  <2>6. Fits(memory'[s], Absent.chunks) /\ Whole(memory'[s], Absent.chunks)
    BY <2>3, <2>5
  <2>7. recorder' = [recorder EXCEPT ![t] = q]
    BY <1>6 DEF q
  <2>8. \A z \in Sessions : z # s => Extends(memory[z], memory'[z])
    BY <1>5, <2>5
  <2> QED BY <1>1, <1>2, <2>1, <2>2, <2>4, <2>6, <2>7, <2>8, OpenRows
<1>7. CASE recorder' = [recorder EXCEPT ![t] = r] /\ memory' = ended
  BY <1>1, <1>2, <1>5, <1>7, CallRows
<1> QED BY <1>3, <1>6, <1>7

LEMMA DisposeRows ==
  ASSUME TypeOK, TypeOK', LeaseDiscipline, RowsInv, NEW t \in Tabs, Dispose(t)
  PROVE  RowsInv'
<1> DEFINE r == recorder[t]
           s == r.session
           f == Flush(r, memory[s])
<1>1. r \in Recorders /\ UNCHANGED <<inflight, archive, sealed, cut>>
  BY TypeFacts DEF Dispose
<1>2. CASE s = NoSession
  <2>1. UNCHANGED <<recorder, memory>>
    BY <1>2 DEF Dispose
  <2>2. recorder' = [recorder EXCEPT ![t] = r]
    BY <2>1 DEF TypeOK
  <2> QED BY <1>1, <2>1, <2>2, KeepsSame, QueuesSame, SameExtends, CallRows
<1>3. CASE s # NoSession
  <2>1. s \in Sessions /\ memory[s] \in Memories
    BY <1>3, TypeFacts
  <2>2. f \in Recorders /\ Keeps(r, f, 0, 0) /\ Queues(r, f)
    BY <1>1, <2>1, FlushType, FlushKeeps, FlushQueues
  <2>3. /\ recorder' = [recorder EXCEPT ![t] = Stop(f)]
        /\ memory' = [memory EXCEPT ![s] = RequestFlush(memory[s])]
    BY <1>3 DEF Dispose
  <2> HIDE DEF f
  <2>4. Keeps(r, Stop(f), 0, 0) /\ Queues(r, Stop(f))
    BY <1>1, <2>2, StopType, StopKeeps, KeepsTwice, StopQueues
  <2>5. \A z \in Sessions : Extends(memory[z], memory'[z])
    BY <2>1, <2>3, RequestFlushExtends, ReplaceExtends
  <2> QED BY <1>1, <2>3, <2>4, <2>5, CallRows
<1> QED BY <1>2, <1>3

-----------------------------------------------------------------------------
(* The steps of the promise chain. *)

LEMMA JobRows ==
  ASSUME TypeOK, TypeOK', LeaseDiscipline, RowsInv, NEW t \in Tabs,
         \A u \in Tabs \ {t} : recorder'[u] = recorder[u] /\ inflight'[u] = inflight[u],
         NEW popped, NEW touched, Keeps(recorder[t], recorder'[t], popped, touched),
         \A s \in Sessions : Stays(s) \/ Settles(t, s), PutByOpening(t),
         \A i \in DOMAIN recorder'[t].chain : recorder'[t].chain[i].step = "commit" =>
           LET s == recorder'[t].chain[i].session IN
           i = 1 /\ Writes(inflight'[t], memory'[s], archive'[s].chunks),
         ArchiveInOrder'
  PROVE  RowsInv'
<1>1. \A s \in Sessions : RefersTo(t, s)' => RefersTo(t, s)
  BY KeepsRefers
<1>2. /\ \A s \in Sessions : Opening(t, s)' => Opening(t, s)
      /\ \A s \in Sessions : recorder'[t].session = s => recorder[t].session = s
  BY KeepsOpening
<1> QED BY <1>1, <1>2, RowsKept

\* A job that ends leaves no commit on the chain.
LEMMA DoneCommits ==
  ASSUME TypeOK, RowsInv, NEW t \in Tabs, NEW q \in Recorders, q.chain # <<>>,
         Queues(recorder[t], q)
  PROVE  \A i \in DOMAIN Done(q).chain : Done(q).chain[i].step # "commit"
<1>1. Done(q).chain = Tail(q.chain)
  BY DEF Done, Recorders
<1>2. /\ q.chain \in Seq(Jobs) /\ Len(q.chain) \in Nat \ {0}
      /\ DOMAIN q.chain = 1 .. Len(q.chain)
  BY ChainFacts
<1>3. /\ DOMAIN Tail(q.chain) = 1 .. Len(q.chain) - 1
      /\ \A i \in 1 .. Len(q.chain) - 1 : Tail(q.chain)[i] = q.chain[i + 1]
  BY <1>2
<1>4. \A i \in 1 .. Len(q.chain) - 1 : i + 1 \in DOMAIN q.chain /\ i + 1 # 1
  BY <1>2
<1>5. \A i \in DOMAIN q.chain : q.chain[i].step = "commit" => i = 1
  BY DEF Queues, RowsInv, CommitsAreCurrent
<1> QED BY <1>1, <1>3, <1>4, <1>5

\* A step of the head leaves the jobs behind it where they were.
LEMMA StepCommits ==
  ASSUME TypeOK, RowsInv, NEW t \in Tabs, NEW q \in Recorders, q.chain # <<>>,
         Queues(recorder[t], q), NEW step \in Steps
  PROVE  /\ \A i \in DOMAIN Step(q, step).chain :
              Step(q, step).chain[i].step = "commit" => i = 1 /\ step = "commit"
         /\ Step(q, step).chain[1].session = q.chain[1].session
<1>1. /\ DOMAIN Step(q, step).chain = DOMAIN q.chain /\ 1 \in DOMAIN q.chain
      /\ q.chain[1] \in Jobs
      /\ \A i \in DOMAIN q.chain : i # 1 => Step(q, step).chain[i] = q.chain[i]
      /\ Step(q, step).chain[1] = [q.chain[1] EXCEPT !.step = step]
  BY ChainFacts DEF Step, Recorders
<1>2. Step(q, step).chain[1].step = step /\ Step(q, step).chain[1].session = q.chain[1].session
  BY <1>1 DEF Jobs
<1>3. \A i \in DOMAIN q.chain : q.chain[i].step = "commit" => i = 1
  BY DEF Queues, RowsInv, CommitsAreCurrent
<1> QED BY <1>1, <1>2, <1>3

\* Where writePending goes on, it takes the head of the queue or the tail.
LEMMA WriteCommits ==
  ASSUME TypeOK, RowsInv, NEW t \in Tabs, NEW q \in Recorders, q.chain # <<>>,
         Queues(recorder[t], q), NEW s \in Sessions, q.chain[1].session = s,
         NEW m \in Memories, memory'[s] = m, Fits(m, archive'[s].chunks),
         WriteEnds(t, q) \/ WritePending(t, q, m)
  PROVE  /\ \A i \in DOMAIN recorder'[t].chain : recorder'[t].chain[i].step = "commit" =>
              LET z == recorder'[t].chain[i].session IN
              i = 1 /\ Writes(inflight'[t], memory'[z], archive'[z].chunks)
         /\ \A u \in Tabs \ {t} : inflight'[u] = inflight[u]
<1>1. m \in MemoryRecords /\ Numbered(m) /\ (m.tail = 0 \/ m.nextSeq > 0)
  BY MemoryFields DEF Fits
<1>2. CASE WriteEnds(t, q)
  <2> DEFINE step == IF Head(q.chain).kind = "flush" THEN "loop" ELSE "close"
  <2>1. /\ recorder' = [recorder EXCEPT ![t] = Step(q, step)]
        /\ inflight' = [inflight EXCEPT ![t] = NoCommit]
        /\ step \in Steps /\ step # "commit"
    BY <1>2 DEF WriteEnds, Steps
  <2> HIDE DEF step
  <2>2. recorder'[t] = Step(q, step) /\ \A u \in Tabs \ {t} : inflight'[u] = inflight[u]
    BY <2>1 DEF TypeOK
  <2> QED BY <2>1, <2>2, StepCommits
<1>3. ASSUME recorder' = [recorder EXCEPT ![t] = Step(q, "commit")], NEW c,
             inflight' = [inflight EXCEPT ![t] = c], Writes(c, m, archive'[s].chunks)
      PROVE  /\ \A i \in DOMAIN recorder'[t].chain : recorder'[t].chain[i].step = "commit" =>
                  LET z == recorder'[t].chain[i].session IN
                  i = 1 /\ Writes(inflight'[t], memory'[z], archive'[z].chunks)
             /\ \A u \in Tabs \ {t} : inflight'[u] = inflight[u]
  <2> DEFINE step == "commit"
  <2>1. /\ recorder'[t] = Step(q, step) /\ inflight'[t] = c /\ step \in Steps
        /\ \A u \in Tabs \ {t} : inflight'[u] = inflight[u]
    BY <1>3 DEF TypeOK, Steps
  <2> HIDE DEF step
  <2>2. /\ \A i \in DOMAIN recorder'[t].chain : recorder'[t].chain[i].step = "commit" => i = 1
        /\ recorder'[t].chain[1].session = s
    BY <2>1, StepCommits
  <2> QED BY <1>3, <2>1, <2>2
<1>4. CASE m.pending # <<>>
           /\ inflight' = [inflight EXCEPT ![t] = Commit(TRUE, Head(m.pending).chunk, m)]
           /\ recorder' = [recorder EXCEPT ![t] = Step(q, "commit")]
  <2> DEFINE c == Commit(TRUE, Head(m.pending).chunk, m)
  <2>1. 1 \in DOMAIN m.pending /\ Head(m.pending) = m.pending[1]
    BY <1>1, <1>4, PendingFacts
  <2>2. c.head = TRUE /\ c.chunk = m.pending[1].chunk
    BY <2>1 DEF Commit
  <2>3. c.chunk.seq \in Seqs
    BY <1>1, <2>1, <2>2, FittingSeqs
  <2> HIDE DEF c
  <2>4. Writes(c, m, archive'[s].chunks)
    BY <2>1, <2>2, <2>3 DEF Writes, Fits
  <2> QED BY <1>3, <1>4, <2>4 DEF c
<1>5. CASE m.tail > 0
           /\ inflight' = [inflight EXCEPT ![t] = Commit(FALSE, Chunk(m.nextSeq - 1, m.tail), m)]
           /\ recorder' = [recorder EXCEPT ![t] = Step(q, "commit")]
  <2> DEFINE c == Commit(FALSE, Chunk(m.nextSeq - 1, m.tail), m)
  <2>1. c.head = FALSE /\ c.chunk.seq = First(m) /\ c.chunk.rows = m.tail
    BY <1>5 DEF Commit, Chunk, First
  <2>2. c.chunk.seq \in Seqs /\ m.tail \in Nat
    BY <1>1, <1>5, <2>1, FittingSeqs, PendingFacts
  <2> HIDE DEF c
  <2>3. Writes(c, m, archive'[s].chunks)
    BY <1>5, <2>1, <2>2 DEF Writes, Fits
  <2> QED BY <1>3, <1>5, <2>3 DEF c
<1>6. CASE WritePending(t, q, m)
  BY <1>2, <1>4, <1>5, <1>6 DEF WritePending, WriteOn
<1> QED BY <1>2, <1>6

LEMMA NothingLower ==
  ASSUME NEW chunks \in StoredChunks
  PROVE  Lower(Absent.chunks, chunks) /\ Lower([Absent EXCEPT !.state = "open"].chunks, chunks)
<1>1. \A q \in Seqs : Absent.chunks[q] = 0 /\ [Absent EXCEPT !.state = "open"].chunks[q] = 0
  BY DEF Absent
<1>2. \A q \in Seqs : chunks[q] \in Nat
  BY DEF StoredChunks
<1> QED BY <1>1, <1>2 DEF Lower

LEMMA LeftRows ==
  ASSUME TypeOK, RowsInv, NEW z \in Sessions, Left(z)
  PROVE  /\ Lower(archive'[z].chunks, archive[z].chunks)
         /\ RowInOrder(z)'
         /\ archive'[z].state = "open" =>
              /\ archive[z].state = "open"
              /\ archive'[z].chunks = archive[z].chunks /\ sealed'[z] = sealed[z]
<1> DEFINE row == [archive[z] EXCEPT !.state = "abandoned"]
<1>1. row.state = "abandoned" /\ row.chunks = archive[z].chunks
  BY RowsTypes, ArchiveFacts DEF Records
<1>2. archive[z].chunks \in StoredChunks
  BY ArchiveFacts DEF Records, StoredChunks
<1>3. Lower(Absent.chunks, archive[z].chunks) /\ Lower(archive[z].chunks, archive[z].chunks)
  BY <1>2, LowerSame, NothingLower
<1>4. RowInOrder(z) /\ Absent.state = "absent"
  BY DEF RowsInv, ArchiveInOrder, Absent
<1>5. CASE Spared(z)
  BY <1>3, <1>4, <1>5 DEF Spared, RowInOrder
<1>6. CASE archive'[z] = Absent /\ sealed'[z] = {} /\ cut'[z] = {}
  BY <1>3, <1>4, <1>6 DEF RowInOrder
<1>7. CASE archive'[z] = row
  BY <1>1, <1>3, <1>7 DEF RowInOrder
<1> HIDE DEF row
<1> QED BY <1>5, <1>6, <1>7 DEF Left, SweptAway, row

LEMMA ClaimsRows ==
  ASSUME TypeOK, TypeOK', LeaseDiscipline, RowsInv, NEW t \in Tabs,
         ClaimGranted(t) \/ ClaimRefused(t)
  PROVE  RowsInv'
<1> DEFINE r == recorder[t]
           s == JobSession(t)
<1>1. r \in Recorders /\ r.chain # <<>> /\ s \in Sessions /\ memory[s] \in Memories
  BY AtStepFacts DEF ClaimGranted, ClaimRefused
<1>2. Keeps(r, r, 0, 0) /\ Queues(r, r)
  BY <1>1, KeepsSame, QueuesSame
<1>3. UNCHANGED <<archive, sealed, cut, inflight>>
  BY DEF ClaimGranted, ClaimRefused
<1>4. CASE ClaimGranted(t)
  <2> DEFINE step == "put"
             a == Step(r, step)
             q == [a EXCEPT !.refusal = "none", !.announced = FALSE]
             n == [memory[s] EXCEPT !.leased = TRUE]
  <2>1. step \in Steps /\ step # "commit"
    BY DEF Steps
  <2>2. recorder' = [recorder EXCEPT ![t] = q] /\ memory' = [memory EXCEPT ![s] = n]
    BY <1>4 DEF ClaimGranted
  <2> HIDE DEF step
  <2>3. /\ a \in Recorders /\ Keeps(r, a, 0, 1)
        /\ \A i \in DOMAIN a.chain : a.chain[i].step # "commit"
    BY <1>1, <1>2, <2>1, StepType, KeepsStep, StepCommits
  <2> HIDE DEF a
  <2>4. q \in Recorders /\ q.session = a.session /\ q.chain = a.chain
    BY <2>3 DEF Recorders
  <2>5. /\ n.pending = memory[s].pending /\ n.tail = memory[s].tail
        /\ n.nextSeq = memory[s].nextSeq /\ n.samples = memory[s].samples
        /\ n.dropped = memory[s].dropped
    BY <1>1 DEF Memories, MemoryRecords
  <2> HIDE DEF q, n
  <2>6. Keeps(r, q, 0, 1)
    BY <1>1, <2>3, <2>4, KeepsLike
  <2>7. Queues(r, q)
    BY <2>3, <2>4 DEF Queues
  <2>8. \A z \in Sessions : Extends(memory[z], memory'[z])
    BY <1>1, <2>2, <2>5, AlikeExtends, ReplaceExtends
  <2>9. recorder'[t] = q /\ \A u \in Tabs \ {t} : recorder'[u] = recorder[u]
    BY <2>2 DEF TypeOK
  <2> QED BY <1>3, <2>6, <2>7, <2>8, <2>9, StepRows
<1>5. CASE ClaimRefused(t)
  <2> DEFINE a == StandDown(r, s)
  <2>1. a \in Recorders /\ Keeps(r, a, 0, 0) /\ a.chain = r.chain
    BY <1>1, StandDownType, StandDownKeeps DEF StandDown, Stop, Recorders
  <2>2. recorder' = [recorder EXCEPT ![t] = Done(a)] /\ memory' = memory
    BY <1>5 DEF ClaimRefused
  <2> HIDE DEF a
  <2>3. Queues(r, a)
    BY <2>1, QueuesSame
  <2>4. Keeps(r, Done(a), 1, 1)
    BY <1>1, <2>1, DoneType, KeepsDone, KeepsTwice
  <2>5. Queues(r, Done(a))
    BY <1>1, <2>1, <2>3, DoneCommits DEF Queues
  <2>6. recorder'[t] = Done(a) /\ \A u \in Tabs \ {t} : recorder'[u] = recorder[u]
    BY <2>2 DEF TypeOK
  <2> QED BY <1>3, <2>2, <2>4, <2>5, <2>6, SameExtends, StepRows
<1> QED BY <1>4, <1>5

\* Jobs that end without a commit: the archive may lose chunks, never gain them.
LEMMA JobEndsRows ==
  ASSUME TypeOK, TypeOK', LeaseDiscipline, RowsInv, NEW t \in Tabs,
         \/ PutSession(t) \/ UpsertDevice(t) \/ FlushEnds(t) \/ DeleteShort(t)
         \/ CloseSession(t) \/ JobThrows(t)
  PROVE  RowsInv'
<1> DEFINE r == recorder[t]
           s == JobSession(t)
<1>1. r \in Recorders /\ r.chain # <<>> /\ s \in Sessions /\ memory[s] \in Memories
  BY AtStepFacts DEF PutSession, UpsertDevice, FlushEnds, DeleteShort, CloseSession, JobThrows
<1>2. recorder' = [recorder EXCEPT ![t] = Done(r)] /\ inflight' = inflight
  BY DEF PutSession, UpsertDevice, FlushEnds, DeleteShort, CloseSession, JobThrows, Elsewhere
<1>3. recorder'[t] = Done(r) /\ \A u \in Tabs \ {t} : recorder'[u] = recorder[u]
  BY <1>2 DEF TypeOK
<1>4. Queues(r, r) /\ Keeps(r, Done(r), 1, 1)
  BY <1>1, QueuesSame, KeepsDone
<1>5. \A z \in Sessions : Extends(memory[z], memory'[z])
  <2>1. CASE FlushEnds(t)
    <3> DEFINE n == [memory[s] EXCEPT !.writing = FALSE]
    <3>1. /\ n.pending = memory[s].pending /\ n.tail = memory[s].tail
          /\ n.nextSeq = memory[s].nextSeq /\ n.samples = memory[s].samples
          /\ n.dropped = memory[s].dropped
      BY <1>1 DEF Memories, MemoryRecords
    <3>2. memory' = [memory EXCEPT ![s] = n]
      BY <2>1 DEF FlushEnds
    <3> HIDE DEF n
    <3> QED BY <1>1, <3>1, <3>2, AlikeExtends, ReplaceExtends
  <2>2. CASE memory' = memory
    BY <2>2, SameExtends
  <2> QED BY <2>1, <2>2 DEF PutSession, UpsertDevice, DeleteShort, CloseSession, JobThrows
<1> DEFINE Agrees(z) ==
             /\ Lower(archive'[z].chunks, archive[z].chunks)
             /\ RowInOrder(z)'
             /\ archive'[z].state = "open" =>
                  /\ archive[z].state = "open" \/ Opening(t, z)
                  /\ archive'[z].chunks = archive[z].chunks /\ sealed'[z] = sealed[z]
<1>6. \A z \in Sessions : Agrees(z)
  <2> SUFFICES ASSUME NEW z \in Sessions
               PROVE  Agrees(z)
    OBVIOUS
  <2>1. ASSUME Left(z)
        PROVE  Agrees(z)
    BY <2>1, LeftRows
  <2>2. CASE PutSession(t) /\ archive' = [archive EXCEPT ![s] = [Absent EXCEPT !.state = "open"]]
    <3>1. /\ archive'[s] = [Absent EXCEPT !.state = "open"]
          /\ \A y \in Sessions : y # s => archive'[y] = archive[y]
          /\ UNCHANGED <<sealed, cut>>
      BY <1>1, <2>2, ArchiveFacts DEF PutSession
    <3>2. archive'[s].state # "absent" /\ archive'[s].chunks = Absent.chunks
      BY <3>1 DEF Absent
    <3>3. AtStep(t, "open", "put")
      BY <2>2 DEF PutSession
    <3>4. 1 \in DOMAIN r.chain /\ r.chain[1].kind = "open" /\ r.chain[1].session = s
      BY <3>3, HeadFacts
    <3>5. Opening(t, s) /\ archive[s].state = "absent"
      BY <3>4 DEF Opening, LeaseDiscipline, OpensFreshRow
    <3>6. archive[s] = Absent /\ cut[s] = {}
      BY <1>1, <3>5 DEF RowsInv, ArchiveInOrder, RowInOrder
    <3>7. CASE z = s
      BY <3>1, <3>2, <3>5, <3>6, <3>7, RowsTypes, LowerSame DEF RowInOrder
    <3>8. CASE z # s
      BY <2>1, <3>1, <3>8 DEF Left, Spared
    <3> QED BY <3>7, <3>8
  <2>3. CASE Removed(s)
    BY <1>1, <2>1, <2>3, RemovedFacts DEF Left
  <2>4. CASE CloseSession(t) /\ Connected(t) /\ archive[s].state # "absent"
    <3> DEFINE row == [archive[s] EXCEPT !.state = "closed", !.samples = memory[s].samples,
                                         !.dropped = memory[s].dropped]
    <3>1. /\ archive' = [archive EXCEPT ![s] = row]
          /\ sealed' = [sealed EXCEPT ![s] = Stored(s)] /\ cut' = cut
      BY <2>4 DEF CloseSession
    <3>2. archive[s] \in Records
      BY <1>1, RowsTypes
    <3>3. row.state = "closed" /\ row.chunks = archive[s].chunks
      BY <3>2 DEF Records
    <3> HIDE DEF row
    <3>4. /\ archive'[s] = row
          /\ \A y \in Sessions : y # s => archive'[y] = archive[y] /\ sealed'[y] = sealed[y]
      BY <1>1, <3>1, ArchiveFacts DEF TypeOK
    <3>5. CASE z = s
      BY <3>3, <3>4, <3>5, RowsTypes, LowerSame DEF RowInOrder
    <3>6. CASE z # s
      BY <2>1, <3>1, <3>4, <3>6 DEF Left, Spared
    <3> QED BY <3>5, <3>6
  <2>6. CASE CloseSession(t) /\ Connected(t) /\ archive[s].state = "absent"
    <3>1. UNCHANGED <<archive, cut>> /\ sealed' = [sealed EXCEPT ![s] = Stored(s)]
      BY <2>6 DEF CloseSession
    <3>2. archive[s] = Absent /\ sealed[s] = {}
      BY <1>1, <2>6 DEF RowsInv, ArchiveInOrder, RowInOrder
    <3>3. Stored(s) = {}
      BY <3>2 DEF Stored, Absent
    <3>4. UNCHANGED sealed
      BY <1>1, <3>1, <3>2, <3>3 DEF TypeOK
    <3> QED BY <2>1, <3>1, <3>4 DEF Left, Spared
  <2> HIDE DEF Agrees
  <2>5. CASE UNCHANGED <<archive, sealed, cut>>
    BY <2>1, <2>5 DEF Left, Spared
  <2> QED BY <2>2, <2>3, <2>4, <2>5, <2>6
          DEF PutSession, UpsertDevice, FlushEnds, DeleteShort, CloseSession, JobThrows,
              Elsewhere
<1>7. /\ \A z \in Sessions : Stays(z)
      /\ PutByOpening(t) /\ ArchiveInOrder'
  BY <1>5, <1>6 DEF Stays, PutByOpening, ArchiveInOrder
<1>8. \A i \in DOMAIN recorder'[t].chain : recorder'[t].chain[i].step # "commit"
  BY <1>1, <1>3, <1>4, DoneCommits
<1>9. \A u \in Tabs \ {t} : recorder'[u] = recorder[u] /\ inflight'[u] = inflight[u]
  BY <1>2, <1>3
<1> QED BY <1>3, <1>4, <1>6, <1>7, <1>8, <1>9, JobRows

LEMMA AppendWarningRows ==
  ASSUME TypeOK, TypeOK', LeaseDiscipline, RowsInv, NEW t \in Tabs, AppendWarning(t)
  PROVE  RowsInv'
<1> DEFINE r == recorder[t]
           usable == TRUE
           a == FollowArchive([r EXCEPT !.announced = TRUE], usable)
<1>1. r \in Recorders /\ r.chain # <<>>
  BY HeadFacts DEF AppendWarning
<1>2. usable \in BOOLEAN
  OBVIOUS
<1>3. a.chain # <<>>
  BY <1>1 DEF FollowArchive, Finish, Stop, Enqueue, Recorders
<1>4. recorder' = [recorder EXCEPT ![t] = Done(a)] \/ recorder' = [recorder EXCEPT ![t] = Done(r)]
  BY DEF AppendWarning
<1> HIDE DEF usable
<1>5. a \in Recorders /\ Keeps(r, a, 0, 0) /\ Queues(r, a) /\ Queues(r, r)
  BY <1>1, <1>2, AnnouncedType, FollowArchiveType, AnnouncedKeeps, AnnouncedQueues, QueuesSame
<1> HIDE DEF a
<1>6. Keeps(r, Done(a), 1, 1) /\ Keeps(r, Done(r), 1, 1)
  BY <1>1, <1>3, <1>5, DoneType, KeepsDone, KeepsTwice
<1>7. Queues(r, Done(a)) /\ Queues(r, Done(r))
  BY <1>1, <1>3, <1>5, DoneCommits DEF Queues
<1>8. /\ Keeps(r, recorder'[t], 1, 1) /\ Queues(r, recorder'[t])
      /\ \A u \in Tabs \ {t} : recorder'[u] = recorder[u]
  BY <1>4, <1>6, <1>7 DEF TypeOK
<1>9. \A z \in Sessions : Extends(memory[z], memory'[z])
  <2>1. memory' = memory \/ memory' = SealIfEnded(t, ArchiveReturned(t))
    BY DEF AppendWarning
  <2> QED BY <2>1, SameExtends, ReturnedExtends
<1>10. UNCHANGED <<inflight, archive, sealed, cut>>
  BY DEF AppendWarning
<1>11. UNCHANGED <<archive, sealed, cut>> /\ \A u \in Tabs : inflight'[u] = inflight[u]
  BY <1>10
<1> QED BY <1>8, <1>9, <1>11, StepRows

\* What the job at the head of a chain works on.
LEMMA HeadRows ==
  ASSUME TypeOK, RowsInv, NEW t \in Tabs, NEW kind, NEW step, AtStep(t, kind, step)
  PROVE  /\ RefersTo(t, JobSession(t))
         /\ Fits(memory[JobSession(t)], archive[JobSession(t)].chunks)
<1>1. RefersTo(t, JobSession(t)) /\ JobSession(t) \in Sessions
  BY HeadFacts DEF RefersTo
<1> QED BY <1>1 DEF RowsInv, MemoryFitsTheArchive

LEMMA FlushPendingRows ==
  ASSUME TypeOK, TypeOK', LeaseDiscipline, RowsInv, NEW t \in Tabs, FlushPending(t)
  PROVE  RowsInv'
<1> DEFINE r == recorder[t]
           s == JobSession(t)
           m == [memory[s] EXCEPT !.requested = FALSE]
<1>1. /\ r \in Recorders /\ r.chain # <<>> /\ s \in Sessions /\ memory[s] \in Memories
      /\ r.chain[1].session = s /\ Fits(memory[s], archive[s].chunks)
  BY HeadFacts, HeadRows, AtStepFacts DEF FlushPending
<1>2. /\ m.pending = memory[s].pending /\ m.tail = memory[s].tail
      /\ m.nextSeq = memory[s].nextSeq /\ m.samples = memory[s].samples
      /\ m.dropped = memory[s].dropped /\ m \in Memories
  BY <1>1 DEF Memories, MemoryRecords
<1>3. memory' = [memory EXCEPT ![s] = m] /\ UNCHANGED <<archive, sealed, cut>>
  BY DEF FlushPending
<1>4. WritePending(t, r, m) \/ WriteEnds(t, r)
  BY DEF FlushPending
<1> HIDE DEF m
<1>5. Extends(memory[s], m)
  BY <1>2, AlikeExtends
<1>6. archive[s].chunks \in StoredChunks
  BY <1>1, RowsTypes
<1>7. Fits(m, archive'[s].chunks) /\ memory'[s] = m
  BY <1>1, <1>3, <1>5, <1>6 DEF Extends, TypeOK
<1>8. Queues(r, r) /\ Keeps(r, r, 0, 0)
  BY <1>1, QueuesSame, KeepsSame
<1>9. \A z \in Sessions : Extends(memory[z], memory'[z])
  BY <1>1, <1>3, <1>5, ReplaceExtends
<1>10. Keeps(r, recorder'[t], 0, 1) /\ \A u \in Tabs \ {t} : recorder'[u] = recorder[u]
  BY <1>1, <1>4, <1>8, WriteKeeps
<1>11. /\ \A i \in DOMAIN recorder'[t].chain : recorder'[t].chain[i].step = "commit" =>
            LET z == recorder'[t].chain[i].session IN
            i = 1 /\ Writes(inflight'[t], memory'[z], archive'[z].chunks)
       /\ \A u \in Tabs \ {t} : inflight'[u] = inflight[u]
  BY <1>1, <1>2, <1>4, <1>7, <1>8, WriteCommits
<1> QED BY <1>3, <1>9, <1>10, <1>11, StepRows

LEMMA FinishReleaseRows ==
  ASSUME TypeOK, TypeOK', LeaseDiscipline, RowsInv, NEW t \in Tabs, FinishRelease(t)
  PROVE  RowsInv'
<1> DEFINE r == recorder[t]
           s == JobSession(t)
           m == memory[s]
           step == "delete"
<1>1. /\ r \in Recorders /\ r.chain # <<>> /\ s \in Sessions /\ m \in Memories
      /\ r.chain[1].session = s /\ Fits(m, archive[s].chunks)
  BY HeadFacts, HeadRows, AtStepFacts DEF FinishRelease
<1>2. UNCHANGED <<memory, archive, sealed, cut>>
  BY DEF FinishRelease
<1>3. Queues(r, r) /\ Keeps(r, r, 0, 0)
  BY <1>1, QueuesSame, KeepsSame
<1>4. \A z \in Sessions : Extends(memory[z], memory'[z])
  BY <1>2, SameExtends
<1>5. \/ recorder' = [recorder EXCEPT ![t] = Done(r)] /\ inflight' = inflight
      \/ recorder' = [recorder EXCEPT ![t] = Step(r, step)] /\ inflight' = inflight
      \/ WritePending(t, r, m) \/ WriteEnds(t, r)
  BY DEF FinishRelease
<1>6. step \in Steps /\ step # "commit"
  BY DEF Steps
<1>7. UNCHANGED <<archive, sealed, cut>>
  BY <1>2
<1> HIDE DEF step
<1>8. CASE recorder' = [recorder EXCEPT ![t] = Done(r)] /\ inflight' = inflight
  <2>1. Keeps(r, Done(r), 1, 1) /\ Queues(r, Done(r))
    BY <1>1, <1>3, KeepsDone, DoneCommits DEF Queues
  <2>2. recorder'[t] = Done(r) /\ \A u \in Tabs \ {t} : recorder'[u] = recorder[u]
    BY <1>8 DEF TypeOK
  <2> QED BY <1>4, <1>7, <1>8, <2>1, <2>2, StepRows
<1>9. CASE recorder' = [recorder EXCEPT ![t] = Step(r, step)] /\ inflight' = inflight
  <2>1. Keeps(r, Step(r, step), 0, 1) /\ Queues(r, Step(r, step))
    BY <1>1, <1>3, <1>6, KeepsStep, StepCommits DEF Queues
  <2>2. recorder'[t] = Step(r, step) /\ \A u \in Tabs \ {t} : recorder'[u] = recorder[u]
    BY <1>9 DEF TypeOK
  <2> QED BY <1>4, <1>7, <1>9, <2>1, <2>2, StepRows
<1>10. CASE WritePending(t, r, m) \/ WriteEnds(t, r)
  <2>1. Keeps(r, recorder'[t], 0, 1) /\ \A u \in Tabs \ {t} : recorder'[u] = recorder[u]
    BY <1>1, <1>3, <1>10, WriteKeeps
  <2>2. memory'[s] = m /\ Fits(m, archive'[s].chunks)
    BY <1>1, <1>2
  <2>3. /\ \A i \in DOMAIN recorder'[t].chain : recorder'[t].chain[i].step = "commit" =>
             LET z == recorder'[t].chain[i].session IN
             i = 1 /\ Writes(inflight'[t], memory'[z], archive'[z].chunks)
        /\ \A u \in Tabs \ {t} : inflight'[u] = inflight[u]
    BY <1>1, <1>3, <1>10, <2>2, WriteCommits
  <2> QED BY <1>4, <1>7, <2>1, <2>3, StepRows
<1> QED BY <1>5, <1>8, <1>9, <1>10

\* The commit a chain waits for is the one that was sent.
LEMMA InCommitRows ==
  ASSUME TypeOK, RowsInv, NEW t \in Tabs, InCommit(t)
  PROVE  /\ recorder[t] \in Recorders /\ recorder[t].chain # <<>>
         /\ JobSession(t) \in Sessions /\ memory[JobSession(t)] \in Memories
         /\ recorder[t].chain[1].session = JobSession(t)
         /\ RefersTo(t, JobSession(t))
         /\ Fits(memory[JobSession(t)], archive[JobSession(t)].chunks)
         /\ inflight[t] \in Commits
         /\ Writes(inflight[t], memory[JobSession(t)], archive[JobSession(t)].chunks)
<1>1. PICK kind \in {"flush", "finish"} : AtStep(t, kind, "commit")
  BY DEF InCommit
<1>2. /\ 1 \in DOMAIN recorder[t].chain /\ recorder[t].chain[1].step = "commit"
      /\ recorder[t].chain[1].session = JobSession(t)
  BY <1>1, HeadFacts
<1>3. Writes(inflight[t], memory[JobSession(t)], archive[JobSession(t)].chunks)
  BY <1>2 DEF RowsInv, CommitsAreCurrent
<1> QED BY <1>1, <1>2, <1>3, InCommitFacts, HeadRows

LEMMA CommitStoredRows ==
  ASSUME TypeOK, TypeOK', LeaseDiscipline, RowsInv, NEW t \in Tabs, CommitStored(t)
  PROVE  RowsInv'
<1> DEFINE r == recorder[t]
           s == JobSession(t)
           c == inflight[t]
           m == IF c.head THEN [memory[s] EXCEPT !.pending = Shift(@)] ELSE memory[s]
           chunks == [archive[s].chunks EXCEPT ![c.chunk.seq] = c.chunk.rows]
           row == WrittenRow(t)
<1>1. /\ r \in Recorders /\ r.chain # <<>> /\ s \in Sessions /\ memory[s] \in Memories
      /\ r.chain[1].session = s /\ RefersTo(t, s) /\ Fits(memory[s], archive[s].chunks)
      /\ c \in Commits /\ Writes(c, memory[s], archive[s].chunks)
  BY InCommitRows DEF CommitStored
<1>2. /\ archive[s].state = "open" /\ archive'[s] = row /\ sealed'[s] = WrittenFull(t)
      /\ WrittenLess(t) \subseteq cut'[s] /\ cut'[s] \subseteq WrittenLess(t) \cup WrittenFull(t)
      /\ \A z \in Sessions \ {s} : Spared(z) \/ Evicted(z)
      /\ memory' = [memory EXCEPT ![s] = m]
  BY CommitStoredFacts DEF CommitStored
<1>3. WritePending(t, r, m) \/ WriteEnds(t, r)
  BY DEF CommitStored
<1>4. row.chunks = chunks /\ row.state = "open"
  BY <1>1, <1>2, RowsTypes DEF Records, WrittenRow
<1>5. m \in Memories
  BY <1>1, ShiftType
<1>6. /\ Fits(m, chunks) /\ (Whole(memory[s], archive[s].chunks) => Whole(m, chunks))
      /\ Past(memory[s], sealed[s]) => Past(m, WrittenFull(t))
  <2>1. archive[s].chunks \in StoredChunks
    BY <1>1, RowsTypes
  <2>2. CASE c.head
    <3>1. 1 \in DOMAIN memory[s].pending /\ memory[s].pending[1].chunk = c.chunk
      BY <1>1, <2>2 DEF Writes
    <3>2. c.chunk.rows \in Nat
      BY <1>1 DEF Commits, Chunks
    <3>3. /\ m.pending = Shift(memory[s].pending) /\ m.tail = memory[s].tail
          /\ m.nextSeq = memory[s].nextSeq /\ m.samples = memory[s].samples
          /\ m.dropped = memory[s].dropped
      BY <1>1, <2>2 DEF Memories, MemoryRecords
    <3> HIDE DEF m
    <3> QED BY <1>1, <2>1, <2>2, <3>1, <3>2, <3>3, StoredHeadFits, StoredHeadWhole
            DEF WrittenFull
  <2>3. CASE ~c.head
    <3>1. Past(memory[s], sealed[s]) => Past(memory[s], WrittenFull(t))
      BY <2>3 DEF Past, WrittenFull
    <3> QED BY <1>1, <2>1, <2>3, <3>1, StoredTailFits, StoredTailWhole
  <2> QED BY <2>2, <2>3
<1> HIDE DEF m, row, chunks
<1>7. memory'[s] = m /\ \A z \in Sessions : z # s => memory'[z] = memory[z] /\ Left(z)
  BY <1>1, <1>2 DEF TypeOK, Left, Evicted
<1>8. Settles(t, s) /\ \A z \in Sessions : z # s => Stays(z)
  BY <1>1, <1>2, <1>4, <1>6, <1>7, LeftRows, SameExtends DEF Settles, Stays
<1>9. ArchiveInOrder' /\ PutByOpening(t)
  <2>1. cut[s] \subseteq sealed[s]
    BY <1>1, <1>2 DEF RowsInv, ArchiveInOrder, RowInOrder
  <2>2. ASSUME NEW z \in Sessions, z = s
        PROVE  RowInOrder(z)'
    BY <1>2, <1>4, <2>1, <2>2 DEF RowInOrder, WrittenLess, WrittenFull
  <2> QED BY <1>2, <1>7, <2>2, LeftRows DEF ArchiveInOrder, PutByOpening
<1>10. Queues(r, r) /\ Keeps(r, r, 0, 0)
  BY <1>1, QueuesSame, KeepsSame
<1>11. Keeps(r, recorder'[t], 0, 1) /\ \A u \in Tabs \ {t} : recorder'[u] = recorder[u]
  BY <1>1, <1>3, <1>10, WriteKeeps
<1>12. Fits(m, archive'[s].chunks)
  BY <1>2, <1>4, <1>6
<1>13. /\ \A i \in DOMAIN recorder'[t].chain : recorder'[t].chain[i].step = "commit" =>
            LET z == recorder'[t].chain[i].session IN
            i = 1 /\ Writes(inflight'[t], memory'[z], archive'[z].chunks)
       /\ \A u \in Tabs \ {t} : inflight'[u] = inflight[u]
  BY <1>1, <1>3, <1>5, <1>7, <1>10, <1>12, WriteCommits
<1> QED BY <1>8, <1>9, <1>11, <1>13, JobRows

LEMMA CommitLostRows ==
  ASSUME TypeOK, TypeOK', LeaseDiscipline, RowsInv, NEW t \in Tabs, CommitLost(t)
  PROVE  RowsInv'
<1> DEFINE r == recorder[t]
           s == JobSession(t)
           q == AbandonLostSession(r, s)
<1>1. /\ r \in Recorders /\ r.chain # <<>> /\ s \in Sessions /\ memory[s] \in Memories
      /\ r.chain[1].session = s /\ Fits(memory[s], archive[s].chunks)
  BY InCommitRows DEF CommitLost
<1>2. /\ q \in Recorders /\ q.chain = r.chain /\ Keeps(r, q, 0, 0)
  BY <1>1, AbandonType, AbandonKeeps DEF AbandonLostSession, Stop, Recorders
<1>3. UNCHANGED <<memory, archive, sealed, cut>> /\ WriteEnds(t, q)
  BY DEF CommitLost
<1> HIDE DEF q
<1>4. Queues(r, q)
  BY <1>2, QueuesSame
<1>5. Keeps(r, recorder'[t], 0, 1) /\ \A u \in Tabs \ {t} : recorder'[u] = recorder[u]
  BY <1>1, <1>2, <1>3, WriteKeeps
<1>6. memory'[s] = memory[s] /\ Fits(memory[s], archive'[s].chunks)
  BY <1>1, <1>3
<1>7. /\ \A i \in DOMAIN recorder'[t].chain : recorder'[t].chain[i].step = "commit" =>
            LET z == recorder'[t].chain[i].session IN
            i = 1 /\ Writes(inflight'[t], memory'[z], archive'[z].chunks)
      /\ \A u \in Tabs \ {t} : inflight'[u] = inflight[u]
  BY <1>1, <1>2, <1>3, <1>4, <1>6, WriteCommits
<1>8. UNCHANGED <<archive, sealed, cut>> /\ \A z \in Sessions : Extends(memory[z], memory'[z])
  BY <1>3, SameExtends
<1> QED BY <1>5, <1>7, <1>8, StepRows

LEMMA RefusedChain ==
  ASSUME NEW t \in Tabs, recorder[t] \in Recorders, NEW latching \in BOOLEAN
  PROVE  /\ RefusedRecorder(t, latching).chain = recorder[t].chain
         /\ RefusedRecorder(t, latching).session = recorder[t].session
<1> DEFINE a == [recorder[t] EXCEPT !.announced = TRUE]
           told == FollowArchive(a, FALSE)
<1>1. /\ told \in Recorders
      /\ told.chain = recorder[t].chain /\ told.session = recorder[t].session
  <2> DEFINE failed == [a EXCEPT !.failure = TRUE, !.archiveLost = TRUE]
  <2>1. a \in Recorders /\ a.chain = recorder[t].chain /\ a.session = recorder[t].session
    BY DEF Recorders
  <2>2. told = a \/ told = failed
    BY DEF FollowArchive
  <2> HIDE DEF a
  <2>3. failed \in Recorders /\ failed.chain = a.chain /\ failed.session = a.session
    BY <2>1 DEF Recorders
  <2> HIDE DEF failed, told
  <2> QED BY <2>1, <2>2, <2>3
<1>2. \A q \in Recorders : /\ [q EXCEPT !.failure = TRUE].chain = q.chain
                           /\ [q EXCEPT !.failure = TRUE].session = q.session
  BY DEF Recorders
<1> HIDE DEF told
<1> QED BY <1>1, <1>2 DEF RefusedRecorder, told

LEMMA CommitRefusedRows ==
  ASSUME TypeOK, TypeOK', LeaseDiscipline, RowsInv, NEW t \in Tabs, CommitRefused(t)
  PROVE  RowsInv'
<1> DEFINE r == recorder[t]
           s == JobSession(t)
           m == memory[s]
           attempts == Head(m.pending).attempts + 1
           retried == [m EXCEPT !.pending[1].attempts = attempts]
           dropped == [m EXCEPT !.pending = Shift(@), !.dropped = @ + 1]
<1>1. /\ r \in Recorders /\ r.chain # <<>> /\ s \in Sessions /\ m \in Memories
      /\ r.chain[1].session = s /\ RefersTo(t, s) /\ Fits(m, archive[s].chunks)
  BY InCommitRows DEF CommitRefused
<1>2. PICK latching \in BOOLEAN :
        \/ /\ attempts < MaxAttempts
           /\ memory' = [memory EXCEPT ![s] = retried]
           /\ WriteEnds(t, RefusedRecorder(t, latching))
        \/ /\ memory' = [memory EXCEPT ![s] = dropped]
           /\ WritePending(t, RefusedRecorder(t, latching), dropped)
        \/ /\ WriteEnds(t, RefusedRecorder(t, latching))
           /\ UNCHANGED memory
  BY DEF CommitRefused
<1> DEFINE q == RefusedRecorder(t, latching)
<1>3. /\ q \in Recorders /\ q.chain # <<>> /\ q.chain = r.chain /\ q.session = r.session
  BY <1>1, RefusedRecorderType, RefusedChain
<1>4. UNCHANGED <<archive, sealed, cut>>
  BY DEF CommitRefused
<1> HIDE DEF q
<1>5. Queues(r, q) /\ Keeps(r, q, 0, 0)
  BY <1>1, <1>3, QueuesSame, KeepsSame
\* The session object n after the refusal.
<1>6. ASSUME NEW n \in Memories, memory'[s] = n, Fits(n, archive[s].chunks),
             Whole(m, archive[s].chunks) => Whole(n, archive[s].chunks),
             Past(m, sealed[s]) => Past(n, sealed[s]),
             WriteEnds(t, q) \/ WritePending(t, q, n),
             \A z \in Sessions : z # s => memory'[z] = memory[z]
      PROVE  RowsInv'
  <2>1. Keeps(r, recorder'[t], 0, 1) /\ \A u \in Tabs \ {t} : recorder'[u] = recorder[u]
    BY <1>1, <1>3, <1>5, <1>6, WriteKeeps
  <2>2. Fits(n, archive'[s].chunks)
    BY <1>4, <1>6
  <2>3. /\ \A i \in DOMAIN recorder'[t].chain : recorder'[t].chain[i].step = "commit" =>
             LET z == recorder'[t].chain[i].session IN
             i = 1 /\ Writes(inflight'[t], memory'[z], archive'[z].chunks)
        /\ \A u \in Tabs \ {t} : inflight'[u] = inflight[u]
    BY <1>1, <1>3, <1>5, <1>6, <2>2, WriteCommits
  <2>4. Settles(t, s) /\ \A z \in Sessions : z # s => Stays(z)
    BY <1>1, <1>4, <1>6, <2>2, RowsTypes, LowerSame, SameExtends DEF Settles, Stays
  <2>5. ArchiveInOrder' /\ PutByOpening(t)
    BY <1>4 DEF RowsInv, ArchiveInOrder, RowInOrder, PutByOpening
  <2> QED BY <2>1, <2>3, <2>4, <2>5, JobRows
<1>7. CASE /\ attempts < MaxAttempts
           /\ memory' = [memory EXCEPT ![s] = retried]
           /\ WriteEnds(t, q)
  <2>1. retried \in Memories
    BY <1>1, <1>7, RetriedType
  <2>2. Extends(m, retried)
    BY <1>1, RetriedExtends
  <2>3. archive[s].chunks \in StoredChunks
    BY <1>1, RowsTypes
  <2> HIDE DEF retried
  <2>4. memory'[s] = retried /\ \A z \in Sessions : z # s => memory'[z] = memory[z]
    BY <1>1, <1>7 DEF TypeOK
  <2>5. /\ Fits(retried, archive[s].chunks)
        /\ Whole(m, archive[s].chunks) => Whole(retried, archive[s].chunks)
        /\ Past(m, sealed[s]) => Past(retried, sealed[s])
    BY <1>1, <2>1, <2>2, <2>3, PastExtends DEF Extends
  <2> QED BY <1>6, <1>7, <2>1, <2>4, <2>5
<1>8. CASE memory' = [memory EXCEPT ![s] = dropped] /\ WritePending(t, q, dropped)
  <2>1. dropped \in Memories
    BY <1>1, ShiftType
  <2>2. /\ dropped.pending = Shift(m.pending) /\ dropped.tail = m.tail
        /\ dropped.nextSeq = m.nextSeq /\ dropped.samples = m.samples
        /\ dropped.dropped = m.dropped + 1 /\ m.dropped \in Nat
    BY <1>1 DEF Memories, MemoryRecords
  <2> HIDE DEF dropped
  <2>3. /\ Fits(dropped, archive[s].chunks) /\ Whole(dropped, archive[s].chunks)
        /\ Past(m, sealed[s]) => Past(dropped, sealed[s])
    <3>1. dropped.dropped # 0
      BY <2>2
    <3> QED BY <1>1, <2>2, <3>1, ShiftFits, ShiftPast DEF Whole
  <2>4. memory'[s] = dropped /\ \A z \in Sessions : z # s => memory'[z] = memory[z]
    BY <1>1, <1>8 DEF TypeOK
  <2> QED BY <1>6, <1>8, <2>1, <2>3, <2>4
<1>9. CASE UNCHANGED memory /\ WriteEnds(t, q)
  BY <1>1, <1>6, <1>9
<1> QED BY <1>2, <1>7, <1>8, <1>9 DEF q

\* Rows of the archive go, and no recorder notices.
LEMMA ArchiveRows ==
  ASSUME TypeOK, TypeOK', LeaseDiscipline, RowsInv, NEW t \in Tabs,
         UNCHANGED <<recorder, inflight, memory>>,
         \A s \in Sessions : Left(s)
  PROVE  RowsInv'
<1>1. recorder[t] \in Recorders /\ recorder' = recorder
  BY TypeFacts
<1>2. Keeps(recorder[t], recorder'[t], 0, 0) /\ Queues(recorder[t], recorder'[t])
  BY <1>1, KeepsSame, QueuesSame
<1>3. PutByOpening(t) /\ ArchiveInOrder' /\ \A s \in Sessions : Stays(s)
  BY LeftRows, SameExtends DEF Stays, PutByOpening, ArchiveInOrder
<1>4. \A u \in Tabs : recorder'[u] = recorder[u] /\ inflight'[u] = inflight[u]
  OBVIOUS
<1>5. \A i \in DOMAIN recorder'[t].chain : recorder'[t].chain[i].step = "commit" =>
        LET s == recorder'[t].chain[i].session IN
        i = 1 /\ Writes(inflight'[t], memory'[s], archive'[s].chunks)
  BY <1>2, <1>3, <1>4, CommitStays
<1> QED BY <1>2, <1>3, <1>4, <1>5, JobRows

LEMMA PruneRows ==
  ASSUME TypeOK, TypeOK', LeaseDiscipline, RowsInv, NEW t \in Tabs, PruneToBudget(t)
  PROVE  RowsInv'
  BY PruneFacts, ArchiveRows DEF PruneToBudget, Left, Evicted

LEMMA JobStepRows ==
  ASSUME TypeOK, TypeOK', LeaseDiscipline, RowsInv, NEW t \in Tabs, JobStep(t)
  PROVE  RowsInv'
  BY ClaimsRows, JobEndsRows, AppendWarningRows, FlushPendingRows, FinishReleaseRows,
     CommitStoredRows, CommitLostRows, CommitRefusedRows, PruneRows
  DEF JobStep

-----------------------------------------------------------------------------
(* The environment. *)

LEMMA EnvironmentRows ==
  ASSUME TypeOK, TypeOK', LeaseDiscipline, RowsInv, NEW t \in Tabs, Environment(t)
  PROVE  RowsInv'
<1>1. CASE Resume(t) \/ Silence(t) \/ SwapStore(t) \/ SwapBack(t)
  <2>1. UNCHANGED <<recorder, inflight, memory, archive, sealed, cut>>
    BY <1>1 DEF Resume, Silence, SwapStore, SwapBack
  <2> QED BY <2>1, ArchiveRows DEF Left, Spared
<1>2. CASE StandDownStore(t)
  <2> DEFINE usable == FALSE
             q == FollowArchive([recorder[t] EXCEPT !.announced = TRUE], usable)
  <2>1. recorder[t] \in Recorders /\ usable \in BOOLEAN
    BY TypeFacts
  <2>2. recorder' = [recorder EXCEPT ![t] = q] /\ UNCHANGED <<inflight, memory, archive, sealed, cut>>
    BY <1>2 DEF StandDownStore
  <2> HIDE DEF usable
  <2>3. Keeps(recorder[t], q, 0, 0) /\ Queues(recorder[t], q)
    BY <2>1, AnnouncedKeeps, AnnouncedQueues
  <2> QED BY <2>2, <2>3, SameExtends, CallRows
<1>3. CASE ClosePage(t)
  <2>1. /\ recorder'[t] = IdleRecorder /\ UNCHANGED <<memory, archive, sealed, cut>>
        /\ \A u \in Tabs \ {t} : recorder'[u] = recorder[u] /\ inflight'[u] = inflight[u]
    BY <1>3 DEF ClosePage, TypeOK
  <2>2. IdleRecorder.session = NoSession /\ IdleRecorder.chain = <<>>
        /\ DOMAIN IdleRecorder.chain = {}
    BY DEF IdleRecorder
  <2>3. Keeps(recorder[t], recorder'[t], 0, 0)
    BY <2>1, <2>2 DEF Keeps
  <2>4. \A s \in Sessions : Stays(s)
    BY <2>1, RowsTypes, LowerSame, SameExtends DEF Stays
  <2>5. ArchiveInOrder' /\ PutByOpening(t)
    BY <2>1 DEF RowsInv, ArchiveInOrder, RowInOrder, PutByOpening
  <2> QED BY <2>1, <2>2, <2>3, <2>4, <2>5, JobRows
<1>4. CASE OpenPage(t)
  BY <1>4, OpenPageFacts, ArchiveRows DEF OpenPage, Left, Evicted
<1>5. ASSUME NEW s \in Sessions, DeleteSession(t, s)
      PROVE  RowsInv'
  BY <1>5, RemovedFacts, ArchiveRows DEF DeleteSession, Left
<1> QED BY <1>1, <1>2, <1>3, <1>4, <1>5 DEF Environment

-----------------------------------------------------------------------------
(* The theorems. *)

LEMMA InitRows == Init => RowsInv
<1> SUFFICES ASSUME Init
             PROVE  RowsInv
  OBVIOUS
<1>1. \A t \in Tabs : recorder[t].session = NoSession /\ DOMAIN recorder[t].chain = {}
  <2>1. /\ IdleRecorder.session = NoSession /\ IdleRecorder.chain = <<>>
        /\ DOMAIN IdleRecorder.chain = {}
    BY DEF IdleRecorder
  <2>2. \A t \in Tabs : recorder[t] = IdleRecorder
    BY DEF Init
  <2> QED BY <2>1, <2>2
<1>2. \A t \in Tabs, s \in Sessions : ~RefersTo(t, s)
  BY <1>1, SessionRecorderAssumption DEF RefersTo
<1>3. ArchiveInOrder
  BY DEF Init, ArchiveInOrder, RowInOrder, Absent
<1>4. EnteredIsWhole
  BY <1>2 DEF EnteredIsWhole
<1> QED BY <1>1, <1>2, <1>3, <1>4
        DEF RowsInv, SealedIsPast, MemoryFitsTheArchive, CommitsAreCurrent

LEMMA NextRows == TypeOK /\ LeaseDiscipline /\ RowsInv /\ [Next]_vars => RowsInv'
<1> SUFFICES ASSUME TypeOK, LeaseDiscipline, RowsInv, [Next]_vars
             PROVE  RowsInv'
  OBVIOUS
<1>1. TypeOK'
  BY NextType
<1>2. CASE UNCHANGED vars
  BY <1>2 DEF vars, RowsInv, ArchiveInOrder, RowInOrder, SealedIsPast, MemoryFitsTheArchive, CommitsAreCurrent,
              EnteredIsWhole, Entered, Opening, RefersTo
<1>3. ASSUME NEW t \in Tabs, TabStep(t)
      PROVE  RowsInv'
  BY <1>1, <1>3, ObserveRows, CallsRows, TickRows, DeviceChangedRows, DisposeRows,
     JobStepRows
  DEF TabStep
<1>4. ASSUME NEW t \in Tabs, Environment(t)
      PROVE  RowsInv'
  BY <1>1, <1>4, EnvironmentRows
<1> QED BY <1>2, <1>3, <1>4 DEF Next

\* What waits in a session object, what is on its way and what is stored under
\* the same number agree in every reachable state.
THEOREM MemoryAndArchiveAgree == Spec => []RowsInv
  BY InitType, NextType, InitDiscipline, NextDiscipline, InitRows, NextRows, PTL DEF Spec

\* Every row a recording session has counted is stored, waits to be written or is in
\* the tail, exactly once, or was in a chunk cut to make room, as long as no chunk was
\* given up.
THEOREM EveryRowIsAccountedFor == Spec => []RowsAccounted
<1>1. TypeOK /\ RowsInv => RowsAccounted
  <2> SUFFICES ASSUME TypeOK, RowsInv, NEW t \in Tabs, Recording(t)
               PROVE  LET s == recorder[t].session
                          m == memory[s]
                          held == [q \in Seqs |-> Held(s, q)]
                      IN  m.dropped = 0 =>
                            m.samples = SumRows([q \in Seqs |-> RowsOf(m, held, q)
                                                                + TakenFrom(s, q)], m.nextSeq)
    BY DEF RowsAccounted
  <2> DEFINE s == recorder[t].session
             m == memory[s]
             chunks == archive[s].chunks
             held == [q \in Seqs |-> Held(s, q)]
             hand == [q \in Seqs |-> RowsOf(m, held, q) + TakenFrom(s, q)]
             all == [q \in Seqs |-> RowsOf(m, chunks, q)]
  <2>1. s \in Sessions /\ RefersTo(t, s) /\ m \in Memories /\ chunks \in StoredChunks
    BY TypeFacts, RowsTypes DEF Recording, RefersTo
  <2>2. Past(m, sealed[s]) /\ cut[s] \subseteq sealed[s] /\ Fits(m, chunks)
    BY <2>1 DEF RowsInv, SealedIsPast, ArchiveInOrder, RowInOrder, MemoryFitsTheArchive, Recording
  <2>3. m.nextSeq \in Nat /\ m.nextSeq <= MaxRows /\ m \in MemoryRecords
    BY <2>1, <2>2, MemoryFields, FitsCountable DEF Fits
  <2>4. m.dropped = 0 => m.samples = SumRows(all, m.nextSeq)
    BY <2>1 DEF RowsInv, EnteredIsWhole, Recording, Entered, Whole, Tallied
  <2> HIDE DEF m, s
  <2>5. ASSUME NEW q \in Seqs
        PROVE  RowsOf(m, held, q) + TakenFrom(s, q) = RowsOf(m, chunks, q)
    <3>1. held[q] = Held(s, q) /\ chunks[q] \in Nat
      BY <2>1, <2>5 DEF StoredChunks
    <3>2. CASE q \in cut[s]
      <4>1. RowsOf(m, held, q) = held[q] /\ RowsOf(m, chunks, q) = chunks[q]
        BY <2>2, <3>2, OtherRows DEF Past
      <4> QED BY <3>1, <3>2, <4>1 DEF Held, TakenFrom
    <3>3. CASE q \notin cut[s]
      <4>1. held[q] = chunks[q] /\ TakenFrom(s, q) = 0
        BY <3>1, <3>3 DEF Held, TakenFrom
      <4> HIDE DEF held, chunks
      <4>2. RowsOf(m, held, q) = RowsOf(m, chunks, q)
        BY <4>1 DEF RowsOf
      <4>3. RowsOf(m, chunks, q) \in Nat
        BY <2>1, <2>3, RowsTyped
      <4> QED BY <4>1, <4>2, <4>3
    <3> QED BY <3>2, <3>3
  <2>6. 0 .. m.nextSeq - 1 \subseteq Seqs
    BY <2>3, SessionRecorderAssumption DEF Seqs
  <2>7. SumRows(hand, m.nextSeq) = SumRows(all, m.nextSeq)
    BY <2>3, <2>5, <2>6, SumSame
  <2> QED BY <2>4, <2>7 DEF m, s
<1> QED BY <1>1, TypeCorrect, MemoryAndArchiveAgree, PTL

\* What a step leaves of a session, unless it writes, puts or closes it.
LEMMA StepLeaves ==
  ASSUME TypeOK, [Next]_vars, NEW s \in Sessions
  PROVE  \/ Left(s)
         \/ \E t \in Tabs :
              /\ s = JobSession(t)
              /\ CommitStored(t) \/ PutSession(t) \/ CloseSession(t)
<1>1. UNCHANGED <<archive, sealed, cut>> => Left(s)
  BY DEF Left, Spared
<1>2. ASSUME NEW t \in Tabs, JobStep(t)
      PROVE  \/ Left(s)
             \/ s = JobSession(t) /\ (CommitStored(t) \/ PutSession(t) \/ CloseSession(t))
  <2>1. CASE CommitStored(t)
    BY <2>1, CommitStoredFacts DEF Left, Evicted
  <2>2. CASE PutSession(t) \/ CloseSession(t)
    BY <2>2, ArchiveIsTyped DEF PutSession, CloseSession, ArchiveTyped, Left, Spared
  <2>3. CASE DeleteShort(t)
    BY <1>1, <2>3, AtStepFacts, RemovedFacts DEF DeleteShort, Left
  <2>4. CASE PruneToBudget(t)
    BY <2>4, PruneFacts DEF Left, Evicted
  <2>5. CASE ~(\/ CommitStored(t) \/ PutSession(t) \/ CloseSession(t) \/ DeleteShort(t)
               \/ PruneToBudget(t))
    BY <1>1, <1>2, <2>5
       DEF JobStep, ClaimGranted, ClaimRefused, UpsertDevice, AppendWarning, FlushPending,
           FlushEnds, CommitLost, CommitRefused, FinishRelease, JobThrows, Elsewhere
  <2> QED BY <2>1, <2>2, <2>3, <2>4, <2>5
<1>3. ASSUME NEW t \in Tabs, TabStep(t), ~JobStep(t)
      PROVE  UNCHANGED <<archive, sealed, cut>>
  BY <1>3 DEF TabStep, Observe, EndStream, Checkpoint, Tick, EndWatch, Identify,
              DeviceChanged, HoldOpenForRejoin, ReleaseRejoinHold, Dispose,
              RetryIntervalEnds, HearAnnouncement, Elsewhere
<1>4. ASSUME NEW t \in Tabs, Environment(t)
      PROVE  Left(s)
  <2>1. CASE OpenPage(t)
    BY <2>1, OpenPageFacts DEF Left, Evicted
  <2>2. ASSUME NEW z \in Sessions, DeleteSession(t, z)
        PROVE  Left(s)
    BY <2>2, RemovedFacts DEF DeleteSession, Left
  <2>3. ASSUME ~OpenPage(t), \A z \in Sessions : ~DeleteSession(t, z)
        PROVE  UNCHANGED <<archive, sealed, cut>>
    BY <1>4, <2>3 DEF Environment, Resume, Silence, StandDownStore, SwapStore, SwapBack,
                      ClosePage
  <2> QED BY <1>1, <2>1, <2>2, <2>3
<1> QED BY <1>1, <1>2, <1>3, <1>4 DEF Next, vars

\* A chunk that keeps its length is held as it was or cut.
LEMMA CutRowsStand ==
  ASSUME TypeOK, TypeOK', NEW s \in Sessions, archive'[s].chunks = archive[s].chunks,
         cut[s] \subseteq cut'[s], cut'[s] \subseteq cut[s] \cup sealed'[s]
  PROVE  RowsStand(s)
<1>1. \A q \in Seqs : archive[s].chunks[q] \in Nat
  BY ArchiveFacts DEF Records
<1>2. ASSUME NEW q \in Seqs
      PROVE  \/ Held(s, q)' = Held(s, q)
             \/ q \in cut'[s] /\ q \in sealed'[s] /\ Held(s, q)' = 0
  BY DEF Held
<1>3. \A q \in Seqs : Held(s, q) \in Nat
  BY <1>1 DEF Held
<1> QED BY <1>2, <1>3 DEF RowsStand

LEMMA CommitRowsStand ==
  ASSUME TypeOK, TypeOK', RowsInv, NEW t \in Tabs, CommitStored(t),
         NEW s \in Sessions, s = JobSession(t)
  PROVE  RowsStand(s)
<1> DEFINE c == inflight[t]
<1>1. /\ RefersTo(t, s) /\ s \in Sessions /\ c \in Commits
      /\ Writes(c, memory[s], archive[s].chunks) /\ Fits(memory[s], archive[s].chunks)
      /\ memory[s] \in Memories
  BY InCommitRows DEF CommitStored
<1>2. /\ archive[s].state = "open" /\ archive'[s] = WrittenRow(t)
      /\ sealed'[s] = WrittenFull(t) /\ WrittenLess(t) \subseteq cut'[s]
      /\ cut'[s] \subseteq WrittenLess(t) \cup WrittenFull(t)
  BY CommitStoredFacts
<1>3. /\ archive[s].chunks \in StoredChunks
      /\ archive'[s].chunks = [archive[s].chunks EXCEPT ![c.chunk.seq] = c.chunk.rows]
  BY <1>1, <1>2, RowsTypes DEF WrittenRow, Records
<1>4. Past(memory[s], sealed[s]) /\ cut[s] \subseteq sealed[s]
  BY <1>1, <1>2 DEF RowsInv, SealedIsPast, ArchiveInOrder, RowInOrder
\* What is written was not cut: it waited or was the tail.
<1>5. c.chunk.seq \notin cut[s]
  <2>1. ASSUME c.chunk.seq \in sealed[s]
        PROVE  FALSE
    BY <1>1, <1>4, <2>1 DEF Past, Writes
  <2> QED BY <1>4, <2>1
<1>6. ASSUME NEW q \in Seqs
      PROVE  /\ Held(s, q)' < Held(s, q) => q \in sealed'[s] \cap cut'[s]
             /\ q \in cut[s] => q \in cut'[s]
  <2>1. archive[s].chunks[q] \in Nat /\ c.chunk.rows \in Nat
    BY <1>1, <1>3 DEF StoredChunks, Commits, Chunks
  <2>2. CASE q # c.chunk.seq
    <3>1. archive'[s].chunks[q] = archive[s].chunks[q]
      BY <1>3, <2>2 DEF StoredChunks
    <3>2. q \in cut'[s] => q \in cut[s] \/ q \in sealed'[s]
      BY <1>2 DEF WrittenLess
    <3>3. q \in cut[s] => q \in cut'[s]
      BY <1>2, <2>2 DEF WrittenLess
    <3> QED BY <2>1, <3>1, <3>2, <3>3 DEF Held
  <2>3. CASE q = c.chunk.seq
    <3>1. archive'[s].chunks[q] = c.chunk.rows /\ archive[s].chunks[q] <= c.chunk.rows
      BY <1>1, <1>3, <2>3 DEF StoredChunks, Writes
    <3>2. q \in cut'[s] => q \in sealed'[s]
      BY <1>2, <2>3 DEF WrittenLess
    <3> QED BY <1>5, <2>1, <2>3, <3>1, <3>2 DEF Held
  <2> QED BY <2>2, <2>3
<1> QED BY <1>2, <1>6 DEF RowsStand

LEMMA StepRowsStand ==
  ASSUME TypeOK, TypeOK', LeaseDiscipline, RowsInv, [Next]_vars, NEW s \in Sessions
  PROVE  RowsStand(s)
<1>1. ASSUME Left(s)
      PROVE  RowsStand(s)
  <2>1. CASE Spared(s)
    BY <2>1, CutRowsStand DEF Spared
  <2>2. CASE archive'[s] = Absent
    BY <2>2 DEF RowsStand, Absent
  <2>3. CASE SweptAway(s) /\ archive'[s] # Absent
    <3>1. [archive[s] EXCEPT !.state = "abandoned"].chunks = archive[s].chunks
      BY ArchiveFacts DEF Records
    <3> QED BY <2>3, <3>1, CutRowsStand DEF SweptAway
  <2> QED BY <1>1, <2>1, <2>2, <2>3 DEF Left
<1>2. ASSUME NEW t \in Tabs, s = JobSession(t), PutSession(t)
      PROVE  RowsStand(s)
  <2>1. AtStep(t, "open", "put")
    BY <1>2 DEF PutSession
  <2>2. archive[s].state = "absent"
    BY <1>2, <2>1, HeadFacts DEF LeaseDiscipline, OpensFreshRow
  <2> QED BY <2>2 DEF RowsStand
<1>3. ASSUME NEW t \in Tabs, s = JobSession(t), CloseSession(t)
      PROVE  RowsStand(s)
  <2> DEFINE row == [archive[s] EXCEPT !.state = "closed", !.samples = memory[s].samples,
                                       !.dropped = memory[s].dropped]
  <2>1. row.chunks = archive[s].chunks
    BY ArchiveFacts DEF Records
  <2>2. archive' = archive \/ archive' = [archive EXCEPT ![s] = row]
    BY <1>3 DEF CloseSession
  <2>3. cut' = cut
    BY <1>3 DEF CloseSession
  <2> HIDE DEF row
  <2>4. archive'[s].chunks = archive[s].chunks
    BY <2>1, <2>2, ArchiveFacts
  <2> QED BY <2>3, <2>4, CutRowsStand
<1> QED BY <1>1, <1>2, <1>3, StepLeaves, CommitRowsStand

\* While a session stands, a row once stored goes only with a whole sealed chunk cut
\* to make room: it is never overwritten by an older copy, what was cut is not written
\* again, and a settled session takes no more rows.
THEOREM StoredRowsAreKept == Spec => StoredRowsStand
<1>1. TypeOK /\ LeaseDiscipline /\ RowsInv /\ [Next]_vars =>
        [\A s \in Sessions :
           archive[s].state # "absent" /\ archive'[s].state # "absent" =>
             \A q \in Seqs :
               /\ Held(s, q)' < Held(s, q) => q \in sealed'[s] \cap cut'[s]
               /\ q \in cut[s] => q \in cut'[s]
               /\ archive[s].state # "open" => Held(s, q)' <= Held(s, q)]_vars
  BY NextType, StepRowsStand DEF RowsStand
<1> QED BY <1>1, TypeCorrect, LeaseDisciplineHolds, MemoryAndArchiveAgree, PTL
        DEF Spec, StoredRowsStand

-----------------------------------------------------------------------------
(* What a call adds to the chain: jobs that have not begun.  One closing is  *)
(* added for the session that stops standing, a claim for the one that       *)
(* begins, ahead of its other jobs.                                          *)

LEMMA NewJobFields ==
  ASSUME NEW s \in Sessions, NEW job \in NewJobs(s)
  PROVE  job \in Jobs /\ job.session = s /\ job.step \notin {"put", "commit", "close"}
<1>1. job \in Jobs /\ job.session = s
  BY JobTypes, JobFields DEF NewJobs
<1>2. job.step \notin {"put", "commit", "close"}
  BY DEF NewJobs, OpenJob, DeviceJob, WarningJob, FlushJob, FinishJob, Job
<1> QED BY <1>1, <1>2

LEMMA GrowsSame ==
  ASSUME NEW r, NEW q, q.chain = r.chain
  PROVE  Grows(r, q)
  BY DEF Grows

LEMMA GrowsTwice ==
  ASSUME NEW r \in Recorders, NEW a \in Recorders, NEW q \in Recorders,
         Grows(r, a), Grows(a, q), Follows(r, a, q)
  PROVE  Grows(r, q)
<1>1. \A i \in DOMAIN r.chain : i \in DOMAIN q.chain /\ q.chain[i] = r.chain[i]
  BY DEF Grows
<1>2. \A i \in DOMAIN a.chain : i \in DOMAIN q.chain /\ q.chain[i] = a.chain[i]
  BY DEF Grows
<1>3. ASSUME NEW i \in DOMAIN q.chain, i \notin DOMAIN r.chain
      PROVE  Adds(r, q, i)
  <2> DEFINE job == q.chain[i]
             s == job.session
  <2>1. CASE i \in DOMAIN a.chain
    <3>1. Adds(r, a, i) /\ job = a.chain[i]
      BY <1>2, <1>3, <2>1 DEF Grows
    <3>2. s \in Sessions /\ job \in NewJobs(s) /\ s # NoSession
      BY <3>1, SessionRecorderAssumption DEF Adds
    <3>3. ASSUME job.kind = "finish"
          PROVE  /\ s = r.session /\ q.session # r.session
                 /\ \A j \in DOMAIN q.chain \ DOMAIN r.chain : q.chain[j].kind = "finish" => j = i
      <4>1. /\ s = r.session /\ a.session # r.session
            /\ \A j \in DOMAIN a.chain \ DOMAIN r.chain : a.chain[j].kind = "finish" => j = i
        BY <3>1, <3>3 DEF Adds
      <4>2. q.session # r.session
        BY <4>1 DEF Follows
      <4>3. ASSUME NEW j \in DOMAIN q.chain, j \notin DOMAIN a.chain, q.chain[j].kind = "finish"
            PROVE  FALSE
        <5>1. a.session \in Sessions /\ q.session # a.session
          BY <4>3 DEF Grows, Adds
        <5> QED BY <4>1, <5>1, SessionRecorderAssumption DEF Follows
      <4> QED BY <1>2, <4>1, <4>2, <4>3
    <3>4. ASSUME job.kind = "open"
          PROVE  /\ s = q.session /\ q.session # r.session
                 /\ \A j \in DOMAIN q.chain : j < i => q.chain[j].session # s
      <4>1. /\ s = a.session /\ a.session # r.session
            /\ \A j \in DOMAIN a.chain : j < i => a.chain[j].session # s
        BY <3>1, <3>4 DEF Adds
      <4>2. q.session = a.session
        BY <3>2, <4>1 DEF Follows
      <4>3. ASSUME NEW j \in DOMAIN q.chain, j < i
            PROVE  j \in DOMAIN a.chain
        BY <2>1, <4>3, ChainFacts
      <4> QED BY <1>2, <4>1, <4>2, <4>3
    <3> QED BY <3>2, <3>3, <3>4 DEF Adds
  <2>2. CASE i \notin DOMAIN a.chain
    <3>1. Adds(a, q, i)
      BY <2>2 DEF Grows
    <3>2. s \in Sessions /\ job \in NewJobs(s) /\ s # NoSession
      BY <3>1, SessionRecorderAssumption DEF Adds
    <3>3. ASSUME job.kind = "finish"
          PROVE  /\ s = r.session /\ q.session # r.session
                 /\ \A j \in DOMAIN q.chain \ DOMAIN r.chain : q.chain[j].kind = "finish" => j = i
      <4>1. /\ s = a.session /\ q.session # a.session
            /\ \A j \in DOMAIN q.chain \ DOMAIN a.chain : q.chain[j].kind = "finish" => j = i
        BY <3>1, <3>3 DEF Adds
      <4>2. a.session = r.session
        BY <3>2, <4>1 DEF Follows
      <4>3. ASSUME NEW j \in DOMAIN a.chain, j \notin DOMAIN r.chain, a.chain[j].kind = "finish"
            PROVE  FALSE
        BY <4>2, <4>3 DEF Grows, Adds
      <4> QED BY <1>2, <4>1, <4>2, <4>3
    <3>4. ASSUME job.kind = "open"
          PROVE  /\ s = q.session /\ q.session # r.session
                 /\ \A j \in DOMAIN q.chain : j < i => q.chain[j].session # s
      BY <3>1, <3>2, <3>4 DEF Adds, Follows
    <3> QED BY <3>2, <3>3, <3>4 DEF Adds
  <2> QED BY <2>1, <2>2
<1> QED BY <1>1, <1>3 DEF Grows

LEMMA ClosesTwice ==
  ASSUME NEW r \in Recorders, NEW a \in Recorders, NEW q \in Recorders,
         Grows(r, a), Grows(a, q), Closes(r, a), Closes(a, q), Follows(r, a, q)
  PROVE  Closes(r, q)
<1>1. \A i \in DOMAIN a.chain : i \in DOMAIN q.chain /\ q.chain[i] = a.chain[i]
  BY DEF Grows
<1>2. \A i \in DOMAIN r.chain : i \in DOMAIN a.chain
  BY DEF Grows
<1>3. ASSUME r.session # NoSession, q.session # r.session
      PROVE  \E i \in DOMAIN q.chain \ DOMAIN r.chain : q.chain[i] = FinishJob(r.session)
  <2>1. CASE a.session # r.session
    <3>1. PICK i \in DOMAIN a.chain \ DOMAIN r.chain : a.chain[i] = FinishJob(r.session)
      BY <1>3, <2>1 DEF Closes
    <3> QED BY <1>1, <3>1
  <2>2. CASE a.session = r.session
    <3>1. PICK i \in DOMAIN q.chain \ DOMAIN a.chain : q.chain[i] = FinishJob(r.session)
      BY <1>3, <2>2 DEF Closes
    <3> QED BY <1>2, <3>1
  <2> QED BY <2>1, <2>2
<1> QED BY <1>3 DEF Closes

\* A job of the session that stands.
LEMMA EnqueueGrows ==
  ASSUME NEW r \in Recorders, r.session \in Sessions,
         NEW job \in NewJobs(r.session), job.kind \notin {"open", "finish"}
  PROVE  Grows(r, Enqueue(r, job)) /\ Closes(r, Enqueue(r, job))
<1> DEFINE q == Enqueue(r, job)
<1>1. job \in Jobs /\ job.session = r.session
  BY NewJobFields
<1>2. q.chain = Append(r.chain, job) /\ q.session = r.session
  BY <1>1, EnqueueFields
<1>3. r.chain \in Seq(Jobs) /\ DOMAIN r.chain = 1 .. Len(r.chain) /\ Len(r.chain) \in Nat
  BY ChainFacts
<1>4. /\ DOMAIN q.chain = 1 .. Len(r.chain) + 1
      /\ q.chain[Len(r.chain) + 1] = job
      /\ \A i \in 1 .. Len(r.chain) : q.chain[i] = r.chain[i]
  BY <1>2, <1>3
<1> HIDE DEF q
<1>5. Grows(r, q)
  BY <1>1, <1>3, <1>4 DEF Grows, Adds
<1>6. Closes(r, q)
  BY <1>2 DEF Closes
<1> QED BY <1>5, <1>6 DEF q

LEMMA FlushGrows ==
  ASSUME NEW r \in Recorders, NEW m, r.session \in Sessions
  PROVE  Grows(r, Flush(r, m)) /\ Closes(r, Flush(r, m)) /\ Flush(r, m).session = r.session
<1>1. FlushJob(r.session) \in NewJobs(r.session) /\ FlushJob(r.session).kind = "flush"
  BY JobFields DEF NewJobs
<1>2. Grows(r, r) /\ Closes(r, r)
  BY GrowsSame DEF Closes
<1>3. Enqueue(r, FlushJob(r.session)).session = r.session
  BY <1>1, NewJobFields, EnqueueFields
<1> QED BY <1>1, <1>2, <1>3, EnqueueGrows DEF Flush

LEMMA FinishGrows ==
  ASSUME NEW r \in Recorders
  PROVE  Grows(r, Finish(r)) /\ Closes(r, Finish(r))
<1>1. CASE r.session = NoSession
  <2>1. Finish(r).chain = r.chain
    BY <1>1 DEF Finish, Recorders
  <2> QED BY <1>1, <2>1, GrowsSame DEF Closes
<1>2. CASE r.session # NoSession
  <2> DEFINE s == r.session
             job == FinishJob(s)
             q == Finish(r)
  <2>1. s \in Sessions /\ s # NoSession
    BY <1>2 DEF Recorders
  <2>2. job \in NewJobs(s) /\ job \in Jobs /\ job.session = s /\ job.kind = "finish"
    BY <2>1, JobTypes, JobFields DEF NewJobs
  <2>3. Enqueue(r, job) \in Recorders /\ Enqueue(r, job).chain = Append(r.chain, job)
    BY <2>2, EnqueueType, EnqueueFields
  <2>4. q.chain = Append(r.chain, job) /\ q.session = NoSession
    BY <1>2, <2>3, StopFields DEF Finish
  <2>5. r.chain \in Seq(Jobs) /\ DOMAIN r.chain = 1 .. Len(r.chain) /\ Len(r.chain) \in Nat
    BY ChainFacts
  <2>6. /\ DOMAIN q.chain = 1 .. Len(r.chain) + 1
        /\ q.chain[Len(r.chain) + 1] = job
        /\ \A i \in 1 .. Len(r.chain) : q.chain[i] = r.chain[i]
    BY <2>2, <2>4, <2>5
  <2> HIDE DEF q, job
  <2>7. Grows(r, q)
    BY <2>1, <2>2, <2>4, <2>5, <2>6 DEF Grows, Adds
  <2>8. Closes(r, q)
    <3>1. Len(r.chain) + 1 \in DOMAIN q.chain \ DOMAIN r.chain
      BY <2>5, <2>6
    <3> QED BY <2>6, <3>1 DEF Closes, job
  <2> QED BY <2>7, <2>8 DEF q
<1> QED BY <1>1, <1>2

LEMMA FollowGrows ==
  ASSUME NEW r \in Recorders, NEW usable \in BOOLEAN
  PROVE  /\ Grows(r, FollowArchive(r, usable))
         /\ Closes(r, FollowArchive(r, usable))
         /\ FollowArchive(r, usable).session \in {r.session, NoSession}
<1> DEFINE back == [r EXCEPT !.archiveLost = FALSE, !.failure = FALSE]
           lost == [r EXCEPT !.failure = TRUE, !.archiveLost = TRUE]
<1>1. /\ back \in Recorders /\ back.session = r.session /\ back.chain = r.chain
      /\ lost \in Recorders /\ lost.session = r.session /\ lost.chain = r.chain
  BY DEF Recorders
<1>2. FollowArchive(r, usable) \in {r, lost, Finish(back)}
  BY DEF FollowArchive
<1> HIDE DEF back, lost
<1>3. /\ Grows(r, back) /\ Grows(r, lost) /\ Grows(r, r)
      /\ Closes(r, back) /\ Closes(r, lost) /\ Closes(r, r)
  BY <1>1, GrowsSame DEF Closes
<1>4. /\ Finish(back) \in Recorders /\ Finish(back).session = NoSession
      /\ Grows(back, Finish(back)) /\ Closes(back, Finish(back))
  BY <1>1, FinishType, FinishKeeps, FinishGrows
<1>5. Follows(r, back, Finish(back))
  BY <1>1 DEF Follows
<1>6. Grows(r, Finish(back)) /\ Closes(r, Finish(back))
  BY <1>1, <1>3, <1>4, <1>5, GrowsTwice, ClosesTwice
<1> QED BY <1>1, <1>2, <1>3, <1>4, <1>6

LEMMA AnnouncedGrows ==
  ASSUME NEW r \in Recorders, NEW usable \in BOOLEAN
  PROVE  LET q == FollowArchive([r EXCEPT !.announced = TRUE], usable) IN
         /\ q \in Recorders
         /\ Grows(r, q) /\ Closes(r, q) /\ q.session \in {r.session, NoSession}
<1> DEFINE told == [r EXCEPT !.announced = TRUE]
           q == FollowArchive(told, usable)
<1>1. told \in Recorders /\ told.session = r.session /\ told.chain = r.chain
  BY DEF Recorders
<1> HIDE DEF told
<1>2. /\ q \in Recorders /\ Grows(told, q) /\ Closes(told, q)
      /\ q.session \in {told.session, NoSession}
  BY <1>1, FollowGrows, FollowArchiveType
<1> HIDE DEF q
<1>3. Grows(r, told) /\ Closes(r, told) /\ Follows(r, told, q)
  BY <1>1, <1>2, GrowsSame DEF Closes, Follows
<1>4. Grows(r, q) /\ Closes(r, q)
  BY <1>1, <1>2, <1>3, GrowsTwice, ClosesTwice
<1> QED BY <1>1, <1>2, <1>4 DEF q, told

LEMMA NotedGrows ==
  ASSUME NEW r \in Recorders, NEW m, NEW frame, r.session \in Sessions
  PROVE  LET q == NotedRecorder(r, m, frame) IN
         Grows(r, q) /\ Closes(r, q) /\ q.session = r.session
<1> DEFINE flushed == IF RowDue(r, m, frame) /\ Sealed(m, frame.split)
                      THEN Flush(r, m) ELSE r
           warned == Enqueue(flushed, WarningJob(r.session))
<1>1. /\ flushed \in Recorders /\ flushed.session = r.session
      /\ Grows(r, flushed) /\ Closes(r, flushed)
  BY FlushType, FlushGrows, GrowsSame DEF Closes
<1>2. NotedRecorder(r, m, frame) \in {flushed, warned}
  BY DEF NotedRecorder
<1> HIDE DEF flushed
<1>3. WarningJob(r.session) \in NewJobs(r.session) /\ WarningJob(r.session).kind = "warning"
      /\ WarningJob(r.session) \in Jobs
  BY JobFields, JobTypes DEF NewJobs
<1>4. /\ warned \in Recorders /\ warned.session = r.session
      /\ Grows(flushed, warned) /\ Closes(flushed, warned)
  BY <1>1, <1>3, EnqueueType, EnqueueFields, EnqueueGrows
<1> HIDE DEF warned
<1>5. Follows(r, flushed, warned)
  BY <1>1, <1>4 DEF Follows
<1>6. Grows(r, warned) /\ Closes(r, warned)
  BY <1>1, <1>4, <1>5, GrowsTwice, ClosesTwice
<1> QED BY <1>1, <1>2, <1>4, <1>6

LEMMA GrowsOpens ==
  ASSUME NEW r, NEW q, Grows(r, q), NEW s, Opens(r, s)
  PROVE  Opens(q, s)
  BY DEF Grows, Opens

\* A session nobody refers to begins.
LEMMA OpenedGrows ==
  ASSUME NEW t, NEW r \in Recorders, r.session = NoSession, NEW s \in Sessions,
         \A i \in DOMAIN r.chain : r.chain[i].session # s, NEW identified \in BOOLEAN
  PROVE  LET q == Opened(t, r, s, identified) IN
         /\ q \in Recorders /\ q.session = s
         /\ Grows(r, q) /\ Closes(r, q) /\ Opens(q, s)
<1> DEFINE begun == [r EXCEPT !.session = s, !.failure = FALSE, !.archiveLost = FALSE]
           open == Enqueue(begun, OpenJob(s))
           both == Enqueue(open, DeviceJob(s))
<1>1. begun \in Recorders /\ begun.session = s /\ begun.chain = r.chain
  BY DEF Recorders
<1>2. Opened(t, r, s, identified) \in {open, both}
  BY DEF Opened
<1>3. /\ OpenJob(s) \in NewJobs(s) /\ OpenJob(s) \in Jobs
      /\ OpenJob(s).kind = "open" /\ OpenJob(s).session = s
      /\ DeviceJob(s) \in NewJobs(s) /\ DeviceJob(s) \in Jobs
      /\ DeviceJob(s).kind = "device" /\ DeviceJob(s).session = s
  BY JobTypes, JobFields DEF NewJobs
<1> HIDE DEF begun
<1>4. open \in Recorders /\ open.session = s /\ open.chain = Append(r.chain, OpenJob(s))
  BY <1>1, <1>3, EnqueueType, EnqueueFields
<1>5. r.chain \in Seq(Jobs) /\ DOMAIN r.chain = 1 .. Len(r.chain) /\ Len(r.chain) \in Nat
  BY ChainFacts
<1> HIDE DEF open
<1>6. /\ DOMAIN open.chain = 1 .. Len(r.chain) + 1
      /\ open.chain[Len(r.chain) + 1] = OpenJob(s)
      /\ \A i \in 1 .. Len(r.chain) : open.chain[i] = r.chain[i]
  BY <1>3, <1>4, <1>5
<1>7. s # NoSession
  BY SessionRecorderAssumption
<1>8. Grows(r, open) /\ Closes(r, open)
  BY <1>3, <1>4, <1>5, <1>6, <1>7 DEF Grows, Adds, Closes
<1>9. Opens(open, s)
  <2>1. Len(r.chain) + 1 \in DOMAIN open.chain
    BY <1>5, <1>6
  <2> QED BY <1>3, <1>6, <2>1 DEF Opens
<1>10. both \in Recorders /\ both.session = s /\ Grows(open, both) /\ Closes(open, both)
  BY <1>3, <1>4, EnqueueType, EnqueueFields, EnqueueGrows
<1> HIDE DEF both
<1>11. Follows(r, open, both)
  BY <1>4, <1>10 DEF Follows
<1>12. Grows(r, both) /\ Closes(r, both) /\ Opens(both, s)
  BY <1>4, <1>8, <1>9, <1>10, <1>11, GrowsTwice, ClosesTwice, GrowsOpens
<1> QED BY <1>2, <1>4, <1>8, <1>9, <1>10, <1>12

-----------------------------------------------------------------------------
(* What the calls of telemetry have in common.                              *)

LEMMA SealLease ==
  ASSUME NEW m \in MemoryRecords
  PROVE  Seal(m).leased = m.leased /\ Seal(m).tail = 0
<1> DEFINE pending == Append(m.pending, Pending(Chunk(m.nextSeq - 1, m.tail)))
<1>1. Seal(m) = IF m.tail = 0 THEN m ELSE [m EXCEPT !.tail = 0, !.pending = pending]
  BY DEF Seal
<1> HIDE DEF pending
<1> QED BY <1>1 DEF MemoryRecords

LEMMA RequestLease ==
  ASSUME NEW m \in MemoryRecords
  PROVE  RequestFlush(m).leased = m.leased
  BY DEF RequestFlush, MemoryRecords

LEMMA AppendRowLease ==
  ASSUME NEW m \in Memories, NEW split \in BOOLEAN, m.samples < MaxRows
  PROVE  AppendRow(m, split).leased = m.leased
<1> DEFINE ready == IF split THEN Seal(m) ELSE m
           seq == IF ready.tail = 0 THEN ready.nextSeq + 1 ELSE ready.nextSeq
           grown == [ready EXCEPT !.tail = ready.tail + 1, !.nextSeq = seq,
                                  !.samples = ready.samples + 1]
<1>1. ready \in Memories /\ ready.samples = m.samples /\ ready.leased = m.leased
  BY SealType, MemoryFields, SealLease
<1>2. ready \in MemoryRecords /\ ready.tail \in Nat /\ ready.nextSeq \in Nat
  BY <1>1, MemoryFields
<1>3. ready.samples + 1 \in 0 .. MaxRows
  BY <1>1, SessionRecorderAssumption, MemoryFields
<1>4. seq \in Nat /\ ready.tail + 1 \in Nat
  BY <1>2
<1> HIDE DEF ready, seq
<1>5. grown \in MemoryRecords /\ grown.leased = ready.leased
  BY <1>2, <1>3, <1>4 DEF MemoryRecords
<1>6. AppendRow(m, split) = IF grown.tail >= Capacity THEN Seal(grown) ELSE grown
  BY DEF AppendRow, Full, ready, seq
<1> HIDE DEF grown
<1> QED BY <1>1, <1>5, <1>6, SealLease

LEMMA NotedLease ==
  ASSUME NEW r \in Recorders, NEW m \in Memories, NEW frame \in Frames
  PROVE  NotedMemory(r, m, frame).leased = m.leased
<1> DEFINE row == RowDue(r, m, frame)
           written == IF row THEN AppendRow(m, frame.split) ELSE m
           flushed == IF row /\ Sealed(m, frame.split) THEN RequestFlush(written)
                                                       ELSE written
           files == FilesWarning(r, m, frame)
           noted == [flushed EXCEPT !.alerting = frame.fault,
                                    !.warned = IF files THEN @ + 1 ELSE @]
<1>1. frame.split \in BOOLEAN
  BY DEF Frames
<1>2. row => m.samples < MaxRows
  BY DEF RowDue
<1>3. written \in Memories /\ written.leased = m.leased
  BY <1>1, <1>2, AppendRowType, AppendRowLease
<1> HIDE DEF written
<1>4. flushed \in Memories /\ flushed.leased = m.leased
  BY <1>3, RequestFlushType, RequestLease, MemoryFields
<1> HIDE DEF flushed, files
<1>5. noted.leased = flushed.leased
  BY <1>4 DEF Memories, MemoryRecords
<1> QED BY <1>4, <1>5 DEF NotedMemory, written, flushed, files

LEMMA EndedSeals ==
  ASSUME TypeOK, NEW t \in Tabs, NEW ended \in BOOLEAN,
         ended => recorder[t].session # NoSession
  PROVE  \A s \in Sessions :
           LET n == SealIfEnded(t, ended)[s] IN
           /\ n.leased = memory[s].leased
           /\ s # recorder[t].session => n = memory[s]
           /\ ended /\ s = recorder[t].session => n.tail = 0
<1>1. CASE ended
  <2> DEFINE y == recorder[t].session
  <2>1. y \in Sessions /\ memory[y] \in MemoryRecords
    BY <1>1, TypeFacts, MemoryFields
  <2>2. SealIfEnded(t, ended) = [memory EXCEPT ![y] = Seal(memory[y])]
    BY <1>1 DEF SealIfEnded
  <2>3. Seal(memory[y]).leased = memory[y].leased /\ Seal(memory[y]).tail = 0
    BY <2>1, SealLease
  <2> QED BY <1>1, <2>1, <2>2, <2>3 DEF TypeOK
<1>2. CASE ~ended
  BY <1>2 DEF SealIfEnded
<1> QED BY <1>1, <1>2

\* Following the archive ends a session only when the archive has returned.
LEMMA FollowedEnds ==
  ASSUME NEW r \in Recorders, NEW usable \in BOOLEAN, r.session # NoSession,
         FollowArchive(r, usable).session # r.session
  PROVE  usable /\ r.archiveLost
<1>1. [r EXCEPT !.failure = TRUE, !.archiveLost = TRUE].session = r.session
  BY DEF Recorders
<1> QED BY <1>1 DEF FollowArchive

\* One session object replaced, that of the session that stands.
LEMMA ReplaceSeals ==
  ASSUME TypeOK, NEW t \in Tabs, recorder[t].session \in Sessions, NEW n,
         n.leased = memory[recorder[t].session].leased,
         n.tail = 0 \/ recorder'[t].session = recorder[t].session,
         memory' = [memory EXCEPT ![recorder[t].session] = n]
  PROVE  Seals(t)
  BY DEF Seals, TypeOK

LEMMA SimpleCalls ==
  ASSUME TypeOK, NEW t \in Tabs,
         \/ EndStream(t) \/ Checkpoint(t) \/ EndWatch(t) \/ Identify(t)
         \/ HoldOpenForRejoin(t) \/ ReleaseRejoinHold(t)
         \/ RetryIntervalEnds(t) \/ HearAnnouncement(t)
  PROVE  Called(t)
<1> DEFINE r == recorder[t]
           s == r.session
<1>1. r \in Recorders /\ (s # NoSession => s \in Sessions /\ memory[s] \in Memories)
  BY TypeFacts
<1>2. UNCHANGED <<phase, store, inflight, lease, archive>>
  BY DEF EndStream, Checkpoint, EndWatch, Identify, HoldOpenForRejoin, ReleaseRejoinHold,
         RetryIntervalEnds, HearAnnouncement, Elsewhere
\* The recorder becomes q.
<1>3. ASSUME NEW q, recorder' = [recorder EXCEPT ![t] = q], Grows(r, q), Closes(r, q),
             q.session \in {s, NoSession}, Seals(t)
      PROVE  Called(t)
  <2>1. recorder'[t] = q /\ \A u \in Tabs \ {t} : recorder'[u] = recorder[u]
    BY <1>3 DEF TypeOK
  <2> QED BY <1>2, <1>3, <2>1 DEF Called
<1>4. CASE EndStream(t) \/ Checkpoint(t)
  <2> DEFINE q == Flush(r, memory[s])
  <2>1. s \in Sessions /\ memory[s] \in Memories /\ recorder' = [recorder EXCEPT ![t] = q]
    BY <1>1, <1>4 DEF EndStream, Checkpoint
  <2>2. Grows(r, q) /\ Closes(r, q) /\ q.session = s
    BY <1>1, <2>1, FlushGrows
  <2> HIDE DEF q
  <2>3. recorder'[t] = q
    BY <2>1 DEF TypeOK
  <2>4. /\ RequestFlush(memory[s]).leased = memory[s].leased
        /\ RequestFlush(Seal(memory[s])).leased = memory[s].leased
    <3>1. memory[s] \in MemoryRecords /\ Seal(memory[s]) \in MemoryRecords
      BY <2>1, MemoryFields, SealType
    <3> QED BY <3>1, RequestLease, SealLease
  <2>5. \/ memory' = [memory EXCEPT ![s] = RequestFlush(Seal(memory[s]))]
        \/ memory' = [memory EXCEPT ![s] = RequestFlush(memory[s])]
    BY <1>4 DEF EndStream, Checkpoint
  <2>6. Seals(t)
    BY <2>1, <2>2, <2>3, <2>4, <2>5, ReplaceSeals
  <2> QED BY <1>3, <2>1, <2>2, <2>6
<1>5. CASE EndWatch(t)
  <2> DEFINE ended == (s # NoSession)
  <2>1. ended \in BOOLEAN /\ memory' = SealIfEnded(t, ended)
        /\ recorder' = [recorder EXCEPT ![t] = Finish(r)]
    BY <1>5 DEF EndWatch
  <2>2. \A y \in Sessions : /\ memory'[y].leased = memory[y].leased
                            /\ y # s => memory'[y] = memory[y]
                            /\ ended /\ y = s => memory'[y].tail = 0
    BY <2>1, EndedSeals
  <2>3. Seals(t)
    BY <2>2, SessionRecorderAssumption DEF Seals
  <2> QED BY <1>1, <1>3, <2>1, <2>3, FinishGrows, FinishKeeps
<1>6. CASE Identify(t)
  <2> DEFINE q == Enqueue(r, DeviceJob(s))
             n == [memory[s] EXCEPT !.deviceCounted = TRUE]
  <2>1. s \in Sessions /\ memory[s] \in Memories
    BY <1>1, <1>6 DEF Identify
  <2>2. /\ DeviceJob(s) \in NewJobs(s) /\ DeviceJob(s).kind = "device" /\ DeviceJob(s) \in Jobs
    BY <2>1, JobFields, JobTypes DEF NewJobs
  <2>3. /\ Grows(r, q) /\ Closes(r, q) /\ q.session = s
        /\ Grows(r, r) /\ Closes(r, r)
    BY <1>1, <2>1, <2>2, EnqueueGrows, EnqueueFields, GrowsSame DEF Closes
  <2>4. n.leased = memory[s].leased
    BY <2>1 DEF Memories, MemoryRecords
  <2>5. /\ memory' = [memory EXCEPT ![s] = n]
        /\ \/ recorder' = [recorder EXCEPT ![t] = q]
           \/ recorder' = [recorder EXCEPT ![t] = r]
    BY <1>6 DEF Identify
  <2> HIDE DEF q, n
  <2>6. recorder'[t] \in {q, r}
    BY <2>5 DEF TypeOK
  <2>7. Seals(t)
    BY <2>1, <2>3, <2>4, <2>5, <2>6, ReplaceSeals
  <2> QED BY <1>3, <2>3, <2>5, <2>7
<1>7. CASE HoldOpenForRejoin(t) \/ ReleaseRejoinHold(t) \/ RetryIntervalEnds(t)
  <2>1. PICK q : /\ recorder' = [recorder EXCEPT ![t] = q]
                 /\ q.session = r.session /\ q.chain = r.chain
    <3>1. \A held \in BOOLEAN : LET q == [r EXCEPT !.held = held] IN
            q.session = r.session /\ q.chain = r.chain
      BY <1>1 DEF Recorders
    <3>2. LET q == [r EXCEPT !.refusal = "due"] IN q.session = r.session /\ q.chain = r.chain
      BY <1>1 DEF Recorders
    <3>3. \/ \E held \in BOOLEAN : recorder' = [recorder EXCEPT ![t] = [r EXCEPT !.held = held]]
          \/ recorder' = [recorder EXCEPT ![t] = [r EXCEPT !.refusal = "due"]]
      BY <1>7 DEF HoldOpenForRejoin, ReleaseRejoinHold, RetryIntervalEnds
    <3> QED BY <3>1, <3>2, <3>3
  <2>2. memory' = memory /\ recorder'[t] = q
    BY <1>7, <2>1 DEF HoldOpenForRejoin, ReleaseRejoinHold, RetryIntervalEnds, TypeOK
  <2>3. Seals(t)
    BY <2>1, <2>2 DEF Seals
  <2> QED BY <1>3, <2>1, <2>3, GrowsSame DEF Closes
<1>8. CASE HearAnnouncement(t)
  <2> DEFINE usable == (store[t] = "usable")
             told == [r EXCEPT !.announced = TRUE]
             q == FollowArchive(told, usable)
             ended == ArchiveReturned(t)
  <2>1. /\ recorder' = [recorder EXCEPT ![t] = q]
        /\ memory' = SealIfEnded(t, ended)
        /\ usable \in BOOLEAN
    BY <1>8 DEF HearAnnouncement
  <2>2. told \in Recorders /\ told.session = s /\ told.archiveLost = r.archiveLost
    BY <1>1 DEF Recorders
  <2>3. q.session # s /\ s # NoSession => ended
    BY <2>1, <2>2, FollowedEnds DEF ArchiveReturned
  <2>4. ended \in BOOLEAN /\ (ended => s # NoSession)
    BY <1>1 DEF ArchiveReturned, Recorders
  <2> HIDE DEF ended, usable
  <2>5. Grows(r, q) /\ Closes(r, q) /\ q.session \in {s, NoSession}
    BY <1>1, <2>1, AnnouncedGrows
  <2> HIDE DEF q
  <2>6. recorder'[t] = q
    BY <2>1 DEF TypeOK
  <2>7. \A y \in Sessions : /\ memory'[y].leased = memory[y].leased
                            /\ y # s => memory'[y] = memory[y]
                            /\ ended /\ y = s => memory'[y].tail = 0
    BY <2>1, <2>4, EndedSeals
  <2>8. Seals(t)
    BY <2>3, <2>6, <2>7, SessionRecorderAssumption DEF Seals
  <2> QED BY <1>3, <2>1, <2>5, <2>8
<1> QED BY <1>4, <1>5, <1>6, <1>7, <1>8

LEMMA TickCalls ==
  ASSUME TypeOK, NEW t \in Tabs, Tick(t)
  PROVE  Called(t)
<1> DEFINE r == recorder[t]
           a == Followed(t)
           s == a.session
           usable == (store[t] = "usable")
<1>1. r \in Recorders /\ a \in Recorders /\ r.session # NoSession /\ usable \in BOOLEAN
  BY FollowedType DEF Tick
<1>2. Grows(r, a) /\ Closes(r, a) /\ s \in {r.session, NoSession}
  BY <1>1, FollowGrows DEF Followed
<1>3. UNCHANGED <<phase, store, inflight, lease, archive>>
  BY DEF Tick, Elsewhere
<1>4. \/ /\ s = NoSession
         /\ recorder' = [recorder EXCEPT ![t] = a]
         /\ memory' = SealIfEnded(t, TRUE)
      \/ /\ s # NoSession
         /\ recorder' = [recorder EXCEPT ![t] = Finish(a)]
         /\ memory' = [memory EXCEPT ![s] = Seal(memory[s])]
      \/ /\ s # NoSession
         /\ recorder' = [recorder EXCEPT ![t] = Flush(a, memory[s])]
         /\ memory' = [memory EXCEPT ![s] = RequestFlush(memory[s])]
  BY DEF Tick
<1> HIDE DEF a, usable
<1>5. ASSUME NEW q, recorder' = [recorder EXCEPT ![t] = q], Grows(r, q), Closes(r, q),
             q.session \in {r.session, NoSession}, Seals(t)
      PROVE  Called(t)
  <2>1. recorder'[t] = q /\ \A u \in Tabs \ {t} : recorder'[u] = recorder[u]
    BY <1>5 DEF TypeOK
  <2> QED BY <1>3, <1>5, <2>1 DEF Called
<1>6. CASE /\ s = NoSession
           /\ recorder' = [recorder EXCEPT ![t] = a]
           /\ memory' = SealIfEnded(t, TRUE)
  <2> DEFINE ended == TRUE
  <2>1. ended \in BOOLEAN /\ memory' = SealIfEnded(t, ended) /\ ended
    BY <1>6
  <2> HIDE DEF ended
  <2>2. \A y \in Sessions : /\ memory'[y].leased = memory[y].leased
                            /\ y # r.session => memory'[y] = memory[y]
                            /\ ended /\ y = r.session => memory'[y].tail = 0
    BY <1>1, <2>1, EndedSeals
  <2>3. Seals(t)
    BY <2>1, <2>2 DEF Seals
  <2> QED BY <1>2, <1>5, <1>6, <2>3
<1>7. ASSUME s # NoSession
      PROVE  s = r.session /\ s \in Sessions /\ memory[s] \in Memories
  BY <1>1, <1>2, <1>7, TypeFacts DEF Recorders
<1>8. CASE /\ s # NoSession
           /\ recorder' = [recorder EXCEPT ![t] = Finish(a)]
           /\ memory' = [memory EXCEPT ![s] = Seal(memory[s])]
  <2>1. /\ Finish(a) \in Recorders /\ Finish(a).session = NoSession
        /\ Grows(a, Finish(a)) /\ Closes(a, Finish(a))
    BY <1>1, FinishType, FinishKeeps, FinishGrows
  <2>2. Follows(r, a, Finish(a))
    BY <1>2, <2>1 DEF Follows
  <2>3. Grows(r, Finish(a)) /\ Closes(r, Finish(a))
    BY <1>1, <1>2, <2>1, <2>2, GrowsTwice, ClosesTwice
  <2>4. Seal(memory[s]).leased = memory[s].leased /\ Seal(memory[s]).tail = 0
    BY <1>7, <1>8, SealLease, MemoryFields
  <2>5. Seals(t)
    BY <1>7, <1>8, <2>4, ReplaceSeals
  <2> QED BY <1>5, <1>8, <2>1, <2>3, <2>5
<1>9. CASE /\ s # NoSession
           /\ recorder' = [recorder EXCEPT ![t] = Flush(a, memory[s])]
           /\ memory' = [memory EXCEPT ![s] = RequestFlush(memory[s])]
  <2> DEFINE q == Flush(a, memory[s])
  <2>1. /\ q \in Recorders /\ q.session = s /\ Grows(a, q) /\ Closes(a, q)
    BY <1>1, <1>7, <1>9, FlushType, FlushGrows
  <2> HIDE DEF q
  <2>2. Follows(r, a, q)
    BY <2>1 DEF Follows
  <2>3. Grows(r, q) /\ Closes(r, q)
    BY <1>1, <1>2, <2>1, <2>2, GrowsTwice, ClosesTwice
  <2>4. RequestFlush(memory[s]).leased = memory[s].leased
    BY <1>7, <1>9, RequestLease, MemoryFields
  <2>5. recorder' = [recorder EXCEPT ![t] = q]
    BY <1>9 DEF q
  <2>6. recorder'[t] = q
    BY <2>5 DEF TypeOK
  <2>7. Seals(t)
    BY <1>7, <1>9, <2>1, <2>4, <2>6, ReplaceSeals
  <2> QED BY <1>2, <1>5, <2>1, <2>3, <2>5, <2>7
<1> QED BY <1>4, <1>6, <1>8, <1>9

\* A session s begins, from a recorder in which none stands.
LEMMA OpeningCalls ==
  ASSUME TypeOK, NEW t \in Tabs, NEW a \in Recorders, a.session = NoSession,
         Grows(recorder[t], a), Closes(recorder[t], a),
         \A i \in DOMAIN a.chain : a.chain[i].session # NoSession,
         NEW s \in Sessions, Unused(s), NEW q \in Recorders, q.session = s, Opens(q, s),
         Grows(a, q), Closes(a, q), recorder' = [recorder EXCEPT ![t] = q],
         \A y \in Sessions : y # s =>
           /\ memory'[y].leased = memory[y].leased
           /\ y # recorder[t].session => memory'[y] = memory[y]
           /\ y = recorder[t].session => memory'[y].tail = 0,
         UNCHANGED <<phase, store, inflight, lease, archive>>
  PROVE  Called(t)
<1>1. recorder'[t] = q /\ \A u \in Tabs \ {t} : recorder'[u] = recorder[u]
  BY DEF TypeOK
<1>2. recorder[t] \in Recorders /\ ~RefersTo(t, s)
  BY TypeFacts DEF Unused
<1>3. Follows(recorder[t], a, q)
  BY <1>2 DEF Follows, RefersTo
<1>4. Grows(recorder[t], q) /\ Closes(recorder[t], q)
  BY <1>2, <1>3, GrowsTwice, ClosesTwice
<1>5. Seals(t)
  BY DEF Seals
<1> QED BY <1>1, <1>4, <1>5 DEF Called

\* The jobs queued by ending a session are not those of one nobody refers to.
LEMMA FreshInChain ==
  ASSUME TypeOK, NEW t \in Tabs, NEW a \in Recorders, Keeps(recorder[t], a, 0, 0),
         NEW s \in Sessions, Unused(s)
  PROVE  \A i \in DOMAIN a.chain : a.chain[i].session # s
<1>1. ~RefersTo(t, s)
  BY DEF Unused
<1>2. \A i \in DOMAIN a.chain : i + 0 = i
  BY ChainFacts
<1> QED BY <1>1, <1>2 DEF Keeps, Kept, Added, RefersTo

LEMMA DeviceChangedCalls ==
  ASSUME TypeOK, NEW t \in Tabs, DeviceChanged(t)
  PROVE  Called(t)
<1> DEFINE ends == TRUE
           ended == SealIfEnded(t, ends)
           a == Finish(recorder[t])
           leased == (lease = t)
           identified == TRUE
<1>1. /\ recorder[t] \in Recorders /\ a \in Recorders /\ a.session = NoSession
      /\ Grows(recorder[t], a) /\ Closes(recorder[t], a) /\ Keeps(recorder[t], a, 0, 0)
      /\ recorder[t].session # NoSession
  BY TypeFacts, FinishType, FinishKeeps, FinishGrows DEF DeviceChanged
<1>2. UNCHANGED <<phase, store, inflight, lease, archive>>
  BY DEF DeviceChanged, Elsewhere
<1>3. \/ \E s \in Sessions :
           /\ CanOpen(t, a, s)
           /\ recorder' = [recorder EXCEPT ![t] = Opened(t, a, s, identified)]
           /\ memory' = [ended EXCEPT ![s] = NewSession(leased, identified)]
      \/ recorder' = [recorder EXCEPT ![t] = a] /\ memory' = ended
  BY DEF DeviceChanged
<1>4. ends \in BOOLEAN /\ ends /\ identified \in BOOLEAN
  OBVIOUS
<1> HIDE DEF a, ends, leased, identified
<1>5. /\ ended \in [Sessions -> Memories]
      /\ \A y \in Sessions : /\ ended[y].leased = memory[y].leased
                             /\ y # recorder[t].session => ended[y] = memory[y]
                             /\ y = recorder[t].session => ended[y].tail = 0
  BY <1>1, <1>4, SealIfEndedType, EndedSeals
<1> HIDE DEF ended
<1>6. ASSUME NEW s \in Sessions, CanOpen(t, a, s),
             recorder' = [recorder EXCEPT ![t] = Opened(t, a, s, identified)],
             memory' = [ended EXCEPT ![s] = NewSession(leased, identified)]
      PROVE  Called(t)
  <2> DEFINE q == Opened(t, a, s, identified)
  <2>1. Unused(s)
    BY <1>6 DEF CanOpen
  <2>2. \A i \in DOMAIN a.chain : a.chain[i].session # s /\ a.chain[i].session # NoSession
    BY <1>1, <2>1, FreshInChain, ChainFacts, SessionRecorderAssumption
  <2>3. q \in Recorders /\ q.session = s /\ Grows(a, q) /\ Closes(a, q) /\ Opens(q, s)
    BY <1>1, <1>4, <2>2, OpenedGrows
  <2>4. recorder' = [recorder EXCEPT ![t] = q]
    BY <1>6
  <2> HIDE DEF q
  <2>5. \A y \in Sessions : y # s => memory'[y] = ended[y]
    BY <1>5, <1>6
  <2>6. \A y \in Sessions : y # s =>
          /\ memory'[y].leased = memory[y].leased
          /\ y # recorder[t].session => memory'[y] = memory[y]
          /\ y = recorder[t].session => memory'[y].tail = 0
    BY <1>5, <2>5
  <2>7. a.session = NoSession /\ Grows(recorder[t], a) /\ Closes(recorder[t], a)
    BY <1>1
  <2> QED BY <1>1, <1>2, <2>1, <2>2, <2>3, <2>4, <2>6, <2>7, OpeningCalls
<1>7. CASE recorder' = [recorder EXCEPT ![t] = a] /\ memory' = ended
  <2>1. recorder'[t] = a /\ \A u \in Tabs \ {t} : recorder'[u] = recorder[u]
    BY <1>7 DEF TypeOK
  <2>2. Seals(t)
    BY <1>5, <1>7, <2>1 DEF Seals
  <2> QED BY <1>1, <1>2, <2>1, <2>2 DEF Called
<1> QED BY <1>3, <1>6, <1>7

LEMMA ObserveCalls ==
  ASSUME TypeOK, NEW t \in Tabs, Observe(t)
  PROVE  Called(t)
<1> DEFINE r == recorder[t]
           a == Followed(t)
           usable == (store[t] = "usable")
           back == ArchiveReturned(t)
           ended == SealIfEnded(t, back)
<1>1. a \in Recorders /\ r \in Recorders /\ ended \in [Sessions -> Memories]
      /\ usable \in BOOLEAN
  BY FollowedType
<1>2. /\ Grows(r, a) /\ Closes(r, a) /\ a.session \in {r.session, NoSession}
      /\ Keeps(r, a, 0, 0)
  BY <1>1, FollowGrows, FollowArchiveKeeps DEF Followed
<1>3. UNCHANGED <<phase, store, inflight, lease, archive>>
  BY DEF Observe, Elsewhere
<1>4. back \in BOOLEAN /\ (back => r.session # NoSession)
  BY <1>1 DEF ArchiveReturned, Recorders
<1>5. r.session # NoSession /\ a.session # r.session => back
  BY <1>1, FollowedEnds DEF Followed, ArchiveReturned
<1> HIDE DEF back
<1>6. \A y \in Sessions : /\ ended[y].leased = memory[y].leased
                          /\ y # r.session => ended[y] = memory[y]
                          /\ back /\ y = r.session => ended[y].tail = 0
  BY <1>4, EndedSeals
<1> HIDE DEF a, ended
<1>7. ASSUME a.session # NoSession, NEW frame \in Frames,
             recorder' = [recorder EXCEPT ![t] = NotedRecorder(a, memory[a.session], frame)],
             memory' = [memory EXCEPT
                          ![a.session] = NotedMemory(a, memory[a.session], frame)]
      PROVE  Called(t)
  <2> DEFINE m == memory[a.session]
             n == NotedMemory(a, m, frame)
             q == NotedRecorder(a, m, frame)
  <2>1. a.session = r.session /\ r.session \in Sessions /\ m \in Memories
    BY <1>1, <1>2, <1>7, TypeFacts DEF Recorders
  <2>2. q \in Recorders /\ Grows(a, q) /\ Closes(a, q) /\ q.session = a.session
    BY <1>1, <2>1, NotedRecorderType, NotedGrows
  <2>3. n.leased = m.leased
    BY <1>1, <2>1, NotedLease
  <2>4. recorder' = [recorder EXCEPT ![t] = q] /\ memory' = [memory EXCEPT ![r.session] = n]
    BY <1>7, <2>1
  <2> HIDE DEF q, n
  <2>5. recorder'[t] = q /\ \A u \in Tabs \ {t} : recorder'[u] = recorder[u]
    BY <2>4 DEF TypeOK
  <2>6. Follows(r, a, q)
    BY <2>2 DEF Follows
  <2>7. Grows(r, q) /\ Closes(r, q)
    BY <1>1, <1>2, <2>2, <2>6, GrowsTwice, ClosesTwice
  <2>8. Seals(t)
    BY <2>1, <2>2, <2>3, <2>4, <2>5, ReplaceSeals
  <2> QED BY <1>3, <2>1, <2>2, <2>5, <2>7, <2>8 DEF Called
<1>8. ASSUME NEW s \in Sessions, NEW identified \in BOOLEAN, NEW frame \in Frames,
             CanOpen(t, a, s), NEW m, NEW n,
             LET b == Opened(t, a, s, identified) IN
               /\ recorder' = [recorder EXCEPT ![t] = NotedRecorder(b, m, frame)]
               /\ memory' = [ended EXCEPT ![s] = n]
      PROVE  Called(t)
  <2> DEFINE b == Opened(t, a, s, identified)
             q == NotedRecorder(b, m, frame)
  <2>1. Unused(s) /\ a.session = NoSession
    BY <1>8 DEF CanOpen
  <2>2. \A i \in DOMAIN a.chain : a.chain[i].session # s /\ a.chain[i].session # NoSession
    BY <1>1, <1>2, <2>1, FreshInChain, ChainFacts, SessionRecorderAssumption
  <2>3. b \in Recorders /\ b.session = s /\ Grows(a, b) /\ Closes(a, b) /\ Opens(b, s)
    BY <1>1, <2>1, <2>2, OpenedGrows
  <2>4. recorder' = [recorder EXCEPT ![t] = q]
    BY <1>8
  <2> HIDE DEF b
  <2>5. /\ q \in Recorders /\ q.session = s /\ Grows(b, q) /\ Closes(b, q)
        /\ Opens(q, s)
    BY <2>3, NotedRecorderType, NotedGrows, GrowsOpens
  <2> HIDE DEF q
  <2>6. Follows(a, b, q)
    BY <2>3, <2>5 DEF Follows
  <2>7. Grows(a, q) /\ Closes(a, q)
    BY <1>1, <2>3, <2>5, <2>6, GrowsTwice, ClosesTwice
  <2>8. \A y \in Sessions : y # s => memory'[y] = ended[y]
    BY <1>1, <1>8
  <2>9. \A y \in Sessions : y = r.session => back
    BY <1>5, <2>1, SessionRecorderAssumption
  <2>10. \A y \in Sessions : y # s =>
           /\ memory'[y].leased = memory[y].leased
           /\ y # r.session => memory'[y] = memory[y]
           /\ y = r.session => memory'[y].tail = 0
    BY <1>6, <2>8, <2>9
  <2> QED BY <1>1, <1>2, <1>3, <2>1, <2>2, <2>4, <2>5, <2>7, <2>10, OpeningCalls
<1>9. CASE recorder' = [recorder EXCEPT ![t] = a] /\ memory' = ended
  <2>1. recorder'[t] = a /\ \A u \in Tabs \ {t} : recorder'[u] = recorder[u]
    BY <1>9 DEF TypeOK
  <2>2. Seals(t)
    BY <1>5, <1>6, <1>9, <2>1, SessionRecorderAssumption DEF Seals
  <2> QED BY <1>2, <1>3, <2>1, <2>2 DEF Called
<1> QED BY <1>7, <1>8, <1>9 DEF Observe, a, ended, back

LEMMA CallsAreCalled ==
  ASSUME TypeOK, NEW t \in Tabs, TabStep(t), ~Dispose(t), ~JobStep(t)
  PROVE  Called(t)
  BY SimpleCalls, TickCalls, DeviceChangedCalls, ObserveCalls DEF TabStep

-----------------------------------------------------------------------------
(* Why an open row is left behind only with its closing queued.             *)

LEMMA StepFields ==
  ASSUME NEW r \in Recorders
  PROVE  /\ Done(r).session = r.session /\ Done(r).chain = Tail(r.chain)
         /\ \A step : Step(r, step).session = r.session
  BY DEF Done, Step, Recorders

LEMMA WriteSession ==
  ASSUME TypeOK, NEW t \in Tabs, NEW r \in Recorders, NEW m,
         WriteEnds(t, r) \/ WritePending(t, r, m)
  PROVE  /\ recorder'[t].session = r.session
         /\ \A u \in Tabs \ {t} : recorder'[u] = recorder[u]
<1>1. PICK step : recorder' = [recorder EXCEPT ![t] = Step(r, step)]
  BY DEF WriteEnds, WritePending, WriteOn
<1>2. recorder'[t] = Step(r, step) /\ \A u \in Tabs \ {t} : recorder'[u] = recorder[u]
  BY <1>1 DEF TypeOK
<1> QED BY <1>2, StepFields

\* A job may end the session that stands in three ways only.
LEMMA JobSessions ==
  ASSUME TypeOK, NEW t \in Tabs, JobStep(t)
  PROVE  /\ \A u \in Tabs \ {t} : recorder'[u] = recorder[u]
         /\ \/ recorder'[t].session = recorder[t].session
            \/ ClaimRefused(t) \/ CommitLost(t) \/ AppendWarning(t)
<1> DEFINE r == recorder[t]
           s == JobSession(t)
<1>1. r \in Recorders
  BY TypeFacts
<1>2. CASE ClaimRefused(t)
  BY <1>2 DEF ClaimRefused, TypeOK
<1>3. CASE AppendWarning(t)
  BY <1>3 DEF AppendWarning, TypeOK
<1>4. CASE CommitLost(t)
  <2> DEFINE q == AbandonLostSession(r, s)
  <2>1. q \in Recorders
    BY <1>1, StopType DEF AbandonLostSession
  <2>2. WriteEnds(t, q)
    BY <1>4 DEF CommitLost
  <2> HIDE DEF q
  <2> QED BY <1>4, <2>1, <2>2, WriteSession
<1>5. CASE ClaimGranted(t)
  <2> DEFINE a == Step(r, "put")
             q == [a EXCEPT !.refusal = "none", !.announced = FALSE]
  <2>1. recorder' = [recorder EXCEPT ![t] = q]
    BY <1>5 DEF ClaimGranted
  <2>2. a.session = r.session /\ "session" \in DOMAIN a
    BY <1>1 DEF Step, Recorders
  <2> HIDE DEF a
  <2>3. q.session = r.session
    BY <2>2
  <2> HIDE DEF q
  <2> QED BY <2>1, <2>3 DEF TypeOK
<1>6. CASE \/ PutSession(t) \/ UpsertDevice(t) \/ FlushEnds(t) \/ DeleteShort(t)
           \/ CloseSession(t) \/ JobThrows(t)
  <2>1. recorder' = [recorder EXCEPT ![t] = Done(r)]
    BY <1>6 DEF PutSession, UpsertDevice, FlushEnds, DeleteShort, CloseSession, JobThrows
  <2> QED BY <1>1, <2>1, StepFields DEF TypeOK
<1>7. CASE FlushPending(t)
  <2> DEFINE m == [memory[s] EXCEPT !.requested = FALSE]
  <2>1. WritePending(t, r, m) \/ WriteEnds(t, r)
    BY <1>7 DEF FlushPending
  <2> HIDE DEF m
  <2> QED BY <1>1, <2>1, WriteSession
<1>8. CASE CommitStored(t)
  <2> DEFINE m == IF inflight[t].head THEN [memory[s] EXCEPT !.pending = Shift(@)] ELSE memory[s]
  <2>1. WritePending(t, r, m) \/ WriteEnds(t, r)
    BY <1>8 DEF CommitStored
  <2> HIDE DEF m
  <2> QED BY <1>1, <2>1, WriteSession
<1>9. CASE CommitRefused(t)
  <2> DEFINE dropped == [memory[s] EXCEPT !.pending = Shift(@), !.dropped = @ + 1]
  <2>1. PICK latching \in BOOLEAN :
          \/ WriteEnds(t, RefusedRecorder(t, latching))
          \/ WritePending(t, RefusedRecorder(t, latching), dropped)
    BY <1>9 DEF CommitRefused
  <2> DEFINE q == RefusedRecorder(t, latching)
  <2>2. q \in Recorders /\ q.session = r.session
    BY <1>1, <1>9, AtStepFacts, RefusedRecorderType, RefusedChain DEF CommitRefused, InCommit
  <2> HIDE DEF q, dropped
  <2> QED BY <2>1, <2>2, WriteSession DEF q
<1>10. CASE FinishRelease(t)
  <2>1. \/ recorder' = [recorder EXCEPT ![t] = Done(r)]
        \/ recorder' = [recorder EXCEPT ![t] = Step(r, "delete")]
        \/ WritePending(t, r, memory[s]) \/ WriteEnds(t, r)
    BY <1>10 DEF FinishRelease
  <2>2. CASE WritePending(t, r, memory[s]) \/ WriteEnds(t, r)
    BY <1>1, <2>2, WriteSession
  <2>3. ASSUME NEW q \in {Done(r), Step(r, "delete")}, recorder' = [recorder EXCEPT ![t] = q]
        PROVE  /\ recorder'[t].session = r.session
               /\ \A u \in Tabs \ {t} : recorder'[u] = recorder[u]
    BY <1>1, <2>3, StepFields DEF TypeOK
  <2> QED BY <2>1, <2>2, <2>3
<1> QED BY <1>2, <1>3, <1>4, <1>5, <1>6, <1>7, <1>8, <1>9, <1>10 DEF JobStep, PruneToBudget

\* Announcing its own warning, a tab may find the archive back and end its session.
LEMMA WarningCloses ==
  ASSUME TypeOK, NEW t \in Tabs, AppendWarning(t), recorder[t].session # NoSession,
         recorder'[t].session # recorder[t].session
  PROVE  \E i \in DOMAIN recorder'[t].chain :
           recorder'[t].chain[i] = FinishJob(recorder[t].session)
<1> DEFINE r == recorder[t]
           s == r.session
           usable == TRUE
           q == FollowArchive([r EXCEPT !.announced = TRUE], usable)
<1>1. r \in Recorders /\ r.chain # <<>> /\ usable \in BOOLEAN
  BY HeadFacts DEF AppendWarning
<1>2. \/ recorder' = [recorder EXCEPT ![t] = Done(q)]
      \/ recorder' = [recorder EXCEPT ![t] = Done(r)]
  BY DEF AppendWarning
<1> HIDE DEF usable
<1>3. q \in Recorders /\ Grows(r, q) /\ Closes(r, q)
  BY <1>1, AnnouncedGrows
<1> HIDE DEF q
<1>4. recorder'[t] = Done(q) /\ q.session # s
  BY <1>1, <1>2, <1>3, StepFields DEF TypeOK
<1>5. PICK i \in DOMAIN q.chain \ DOMAIN r.chain : q.chain[i] = FinishJob(s)
  BY <1>3, <1>4 DEF Closes
<1>6. 1 \in DOMAIN r.chain /\ i # 1
  BY <1>1, <1>5, ChainFacts
<1>7. q.chain \in Seq(Jobs) /\ DOMAIN q.chain = 1 .. Len(q.chain) /\ Len(q.chain) \in Nat
  BY <1>3, ChainFacts
<1>8. i - 1 \in DOMAIN Tail(q.chain) /\ Tail(q.chain)[i - 1] = q.chain[i]
  <2> DEFINE c == q.chain
  <2>1. c \in Seq(Jobs) /\ Len(c) \in Nat /\ i \in 1 .. Len(c) /\ i # 1
    BY <1>5, <1>6, <1>7
  <2> HIDE DEF c
  <2>2. i - 1 \in 1 .. Len(c) - 1 /\ (i - 1) + 1 = i /\ c # <<>>
    BY <2>1
  <2>3. DOMAIN Tail(c) = 1 .. Len(c) - 1 /\ \A n \in 1 .. Len(c) - 1 : Tail(c)[n] = c[n + 1]
    BY <2>1, <2>2
  <2>4. i - 1 \in DOMAIN Tail(c) /\ Tail(c)[i - 1] = c[i]
    BY <2>2, <2>3
  <2> QED BY <2>4 DEF c
<1>9. recorder'[t].chain = Tail(q.chain)
  BY <1>3, <1>4, StepFields
<1>10. recorder'[t].chain[i - 1] = FinishJob(s) /\ i - 1 \in DOMAIN recorder'[t].chain
  BY <1>5, <1>8, <1>9
<1> QED BY <1>10

LEMMA ConnectedStays ==
  ASSUME "closing" \notin Happenings, TypeOK, AllConnected, [Next]_vars
  PROVE  AllConnected'
<1>1. CASE store' = store
  BY <1>1 DEF AllConnected, Connected
<1>2. ASSUME NEW t \in Tabs, TabStep(t)
      PROVE  store' = store \/ store' = [store EXCEPT ![t] = "full"]
  <2>1. CASE JobStep(t)
    BY <2>1 DEF JobStep, ClaimGranted, ClaimRefused, PutSession, UpsertDevice, AppendWarning,
                FlushPending, FlushEnds, Elsewhere, CommitStored, CommitLost, CommitRefused,
                PruneToBudget, FinishRelease, DeleteShort, CloseSession, JobThrows
  <2>2. CASE Dispose(t)
    BY <2>2 DEF Dispose
  <2>3. CASE ~JobStep(t) /\ ~Dispose(t)
    BY <1>2, <2>3, CallsAreCalled DEF Called
  <2> QED BY <2>1, <2>2, <2>3
<1>3. ASSUME NEW t \in Tabs, Environment(t)
      PROVE  \/ store' = store
             \/ \E state \in {"usable", "swapped"} : store' = [store EXCEPT ![t] = state]
  BY <1>3 DEF Environment, Resume, Silence, StandDownStore, Mishap, MayFail, SwapStore,
              SwapBack, ClosePage, OpenPage, DeleteSession
<1>4. ASSUME NEW t \in Tabs, NEW state \in {"usable", "swapped", "full"},
             store' = [store EXCEPT ![t] = state]
      PROVE  AllConnected'
  BY <1>4 DEF AllConnected, Connected, TypeOK
<1> QED BY <1>1, <1>2, <1>3, <1>4 DEF Next, vars

LEMMA OpenRowCloses ==
  ASSUME {"aborted", "closing"} \cap Happenings = {}, TypeOK, LeaseDiscipline, AllConnected,
         [Next]_vars, NEW t \in Tabs, Recording(t), phase'[t] = "live",
         recorder'[t].session # recorder[t].session
  PROVE  \E i \in DOMAIN recorder'[t].chain :
           recorder'[t].chain[i] = FinishJob(recorder[t].session)
<1> DEFINE r == recorder[t]
           s == r.session
<1>1. /\ r \in Recorders /\ s \in Sessions /\ s # NoSession /\ archive[s].state = "open"
  BY TypeFacts DEF Recording
<1>2. PICK u \in Tabs : TabStep(u) \/ Environment(u)
  BY DEF Next, vars
<1>3. CASE JobStep(u)
  <2>1. u = t /\ (ClaimRefused(t) \/ CommitLost(t) \/ AppendWarning(t))
    BY <1>3, JobSessions
  <2>2. CASE ClaimRefused(t)
    <3>1. AtStep(t, "open", "claim")
      BY <2>2 DEF ClaimRefused
    <3>2. archive[JobSession(t)].state = "absent"
      BY <3>1, HeadFacts DEF LeaseDiscipline, OpensFreshRow
    <3>3. StandDown(r, JobSession(t)) = r
      BY <1>1, <3>2 DEF StandDown
    <3>4. recorder'[t] = Done(r)
      BY <2>2, <3>3 DEF ClaimRefused, TypeOK
    <3> QED BY <1>1, <3>4, StepFields
  <2>3. CASE CommitLost(t)
    <3>1. archive[JobSession(t)].state # "open"
      BY <2>3 DEF CommitLost, AllConnected, MayFail
    <3>2. AbandonLostSession(r, JobSession(t)) = r
      BY <1>1, <3>1 DEF AbandonLostSession
    <3>3. WriteEnds(t, r)
      BY <2>3, <3>2 DEF CommitLost
    <3> QED BY <1>1, <3>3, WriteSession
  <2>4. CASE AppendWarning(t)
    BY <1>1, <2>4, WarningCloses
  <2> QED BY <2>1, <2>2, <2>3, <2>4
<1>4. CASE TabStep(u) /\ ~JobStep(u) /\ ~Dispose(u)
  <2>1. Called(u)
    BY <1>4, CallsAreCalled
  <2>2. u = t
    BY <2>1 DEF Called
  <2> QED BY <1>1, <2>1, <2>2 DEF Called, Closes
<1>5. CASE Dispose(u)
  <2>1. u # t
    BY <1>5 DEF Dispose, TypeOK
  <2> QED BY <1>5, <2>1 DEF Dispose, TypeOK
<1>6. CASE Environment(u)
  <2>1. recorder' = recorder \/ ClosePage(u)
    BY <1>6 DEF Environment, Resume, Silence, StandDownStore, Mishap, MayFail, SwapStore,
                SwapBack, OpenPage, DeleteSession
  <2>2. CASE ClosePage(u)
    BY <2>2 DEF ClosePage, TypeOK
  <2> QED BY <2>1, <2>2
<1> QED BY <1>2, <1>3, <1>4, <1>5, <1>6

\* Unless a commit fails for another reason than a refusal or a closed row
\* ("aborted"), or a newer page takes the connection ("closing"), a live tab
\* leaves its open row behind only by queueing its closing - through finishing,
\* reopening, refusals, full disks, deletions and closed pages.
THEOREM LeavingIsFinishing ==
  {"aborted", "closing"} \cap Happenings = {} => (Spec => OpenRowsAreFinished)
<1> SUFFICES ASSUME {"aborted", "closing"} \cap Happenings = {}
             PROVE  Spec => OpenRowsAreFinished
  OBVIOUS
<1>1. Init => AllConnected
  BY DEF Init, AllConnected, Connected
<1>2. TypeOK /\ AllConnected /\ [Next]_vars => AllConnected'
  BY ConnectedStays
<1>3. TypeOK /\ LeaseDiscipline /\ AllConnected /\ [Next]_vars =>
        [\A t \in Tabs : LET s == recorder[t].session IN
           /\ Recording(t) /\ phase'[t] = "live"
           /\ recorder'[t].session # s
           => \E i \in DOMAIN recorder'[t].chain : recorder'[t].chain[i] = FinishJob(s)]_vars
  BY OpenRowCloses
<1> QED BY <1>1, <1>2, <1>3, TypeCorrect, LeaseDisciplineHolds, PTL
        DEF Spec, OpenRowsAreFinished

-----------------------------------------------------------------------------
(* Why a closed session is whole.  A session ends once, with its tail sealed *)
(* and its row open or gone; its closing writes what waits, one chunk after  *)
(* another, and settles the row when nothing is left.                        *)

\* Rows summed on past the last one.
LEMMA SumOn ==
  ASSUME NEW rows, NEW n \in Nat, NEW k \in Nat, n <= k,
         \A q \in 0 .. n - 1 : rows[q] \in Nat,
         \A q \in n .. k - 1 : rows[q] = 0
  PROVE  SumRows(rows, k) = SumRows(rows, n)
<1> DEFINE Off == {j \in n .. k : SumRows(rows, j) # SumRows(rows, n)}
<1>1. ASSUME Off # {}
      PROVE  FALSE
  <2>1. Off \in SUBSET Nat
    OBVIOUS
  <2>2. PICK j \in Off : \A i \in Off : j <= i
    BY <1>1, <2>1, LeastExists
  <2>3. j \in n .. k /\ j # n /\ SumRows(rows, j) # SumRows(rows, n)
    BY <2>2
  <2>4. j - 1 \in n .. k /\ j - 1 \in n .. k - 1 /\ j - 1 \in Nat /\ j - 1 \notin Off
    BY <2>2, <2>3
  <2>5. SumRows(rows, j - 1) = SumRows(rows, n) /\ rows[j - 1] = 0
    BY <2>4
  <2>6. SumRows(rows, (j - 1) + 1) = SumRows(rows, j - 1) + rows[j - 1]
    BY <2>4, SumStep
  <2>7. SumRows(rows, n) \in Nat
    BY SumTyped
  <2>8. (j - 1) + 1 = j
    BY <2>3
  <2> QED BY <2>3, <2>5, <2>6, <2>7, <2>8
<1>2. k \in n .. k
  OBVIOUS
<1> QED BY <1>1, <1>2

\* What has nothing left to write is stored.
LEMMA WrittenIsWhole ==
  ASSUME NEW m \in Memories, NEW chunks \in StoredChunks, Fits(m, chunks), Tallied(m, chunks),
         m.pending = <<>>, m.tail = 0
  PROVE  m.samples = SumRows(chunks, MaxRows + 1)
<1> DEFINE rows == [q \in Seqs |-> RowsOf(m, chunks, q)]
<1>1. m \in MemoryRecords /\ m.nextSeq \in Nat /\ MaxRows \in Nat
  BY MemoryFields, PendingFacts, SessionRecorderAssumption
<1>2. m.nextSeq <= MaxRows
  BY <1>1, FitsCountable DEF Fits
<1>3. 0 .. m.nextSeq - 1 \subseteq Seqs
  BY <1>1, <1>2 DEF Seqs
<1>4. DOMAIN m.pending = {}
  OBVIOUS
<1>5. \A q \in 0 .. m.nextSeq - 1 : rows[q] = chunks[q]
  <2>1. \A q \in Seqs : RowsOf(m, chunks, q) = chunks[q]
    BY <1>4, OtherRows
  <2> QED BY <1>3, <2>1
<1>6. m.samples = SumRows(rows, m.nextSeq)
  BY DEF Tallied
<1> HIDE DEF rows
<1>7. SumRows(rows, m.nextSeq) = SumRows(chunks, m.nextSeq)
  BY <1>1, <1>5, SumSame
<1>8. /\ \A q \in 0 .. m.nextSeq - 1 : chunks[q] \in Nat
      /\ \A q \in m.nextSeq .. (MaxRows + 1) - 1 : chunks[q] = 0
  <2>1. \A q \in m.nextSeq .. (MaxRows + 1) - 1 : q \in Seqs /\ q >= m.nextSeq
    BY <1>1 DEF Seqs
  <2> QED BY <1>3, <2>1 DEF StoredChunks, Fits
<1>9. MaxRows + 1 \in Nat /\ m.nextSeq <= MaxRows + 1
  BY <1>1, <1>2
<1>10. SumRows(chunks, MaxRows + 1) = SumRows(chunks, m.nextSeq)
  BY <1>1, <1>8, <1>9, SumOn
<1> QED BY <1>6, <1>7, <1>10

-----------------------------------------------------------------------------
(* What a step does to the order of the chain. *)

LEMMA GrowsOrder ==
  ASSUME NEW r \in Recorders, NEW q \in Recorders, InOrder(r), Grows(r, q),
         q.session # r.session => \A i \in DOMAIN r.chain : r.chain[i].session # q.session
  PROVE  InOrder(q)
<1>1. \A i \in DOMAIN r.chain : i \in DOMAIN q.chain /\ q.chain[i] = r.chain[i]
  BY DEF Grows
<1>2. \A i \in DOMAIN q.chain \ DOMAIN r.chain : Adds(r, q, i)
  BY DEF Grows
<1>3. ASSUME NEW i \in DOMAIN q.chain, i # 1
      PROVE  q.chain[i] \in NewJobs(q.chain[i].session)
  BY <1>1, <1>2, <1>3 DEF InOrder, Adds
<1>4. ASSUME NEW i \in DOMAIN q.chain, q.chain[i].kind = "finish"
      PROVE  q.chain[i].session # q.session
  <2>1. CASE i \in DOMAIN r.chain
    BY <1>1, <1>4, <2>1 DEF InOrder
  <2>2. CASE i \notin DOMAIN r.chain
    BY <1>2, <1>4, <2>2 DEF Adds
  <2> QED BY <2>1, <2>2
<1>5. ASSUME NEW i \in DOMAIN q.chain, NEW j \in DOMAIN q.chain,
             q.chain[i].kind = "finish", q.chain[j].kind = "finish",
             q.chain[i].session = q.chain[j].session
      PROVE  i = j
  <2>1. CASE i \in DOMAIN r.chain /\ j \in DOMAIN r.chain
    BY <1>1, <1>5, <2>1 DEF InOrder
  <2>2. CASE i \notin DOMAIN r.chain /\ j \notin DOMAIN r.chain
    BY <1>2, <1>5, <2>2 DEF Adds
  <2>3. ASSUME NEW k \in DOMAIN r.chain, NEW l \in DOMAIN q.chain \ DOMAIN r.chain,
               q.chain[k].kind = "finish", q.chain[l].kind = "finish"
        PROVE  q.chain[k].session # q.chain[l].session
    <3>1. q.chain[l].session = r.session
      BY <1>2, <2>3 DEF Adds
    <3>2. q.chain[k].session # r.session
      BY <1>1, <2>3 DEF InOrder
    <3> QED BY <3>1, <3>2
  <2> QED BY <1>5, <2>1, <2>2, <2>3
<1> QED BY <1>3, <1>4, <1>5 DEF InOrder

\* The closings of a chain that grew.
LEMMA GrowsFinishes ==
  ASSUME NEW r, NEW q, Grows(r, q), NEW s, Finishes(q, s)
  PROVE  Finishes(r, s) \/ (s = r.session /\ q.session # s)
  BY DEF Grows, Adds, Finishes

\* Its head is the one it had, or a job that has not begun.
LEMMA GrowsHead ==
  ASSUME NEW r \in Recorders, NEW q \in Recorders, Grows(r, q), q.chain # <<>>
  PROVE  \/ r.chain # <<>> /\ q.chain[1] = r.chain[1]
         \/ q.chain[1] \in NewJobs(q.chain[1].session)
<1>1. 1 \in DOMAIN q.chain
  BY ChainFacts
<1>2. 1 \in DOMAIN r.chain => r.chain # <<>>
  OBVIOUS
<1> QED BY <1>1, <1>2 DEF Grows, Adds

LEMMA StopOrder ==
  ASSUME NEW r \in Recorders, NEW q, InOrder(r), q.chain = r.chain,
         q.session \in {r.session, NoSession}
  PROVE  InOrder(q) /\ \A s : Finishes(q, s) <=> Finishes(r, s)
<1>1. \A i \in DOMAIN r.chain : r.chain[i].session # NoSession
  BY ChainFacts, SessionRecorderAssumption
<1> QED BY <1>1 DEF InOrder, Finishes

\* The head goes, or takes a step.
LEMMA DoneOrder ==
  ASSUME NEW r \in Recorders, r.chain # <<>>, InOrder(r)
  PROVE  /\ InOrder(Done(r))
         /\ \A s : Finishes(Done(r), s) => Finishes(r, s)
         /\ r.chain[1].kind = "finish" => ~Finishes(Done(r), r.chain[1].session)
         /\ Done(r).chain # <<>> => Done(r).chain[1] \in NewJobs(Done(r).chain[1].session)
<1> DEFINE q == Done(r)
<1>1. q.session = r.session /\ q.chain = Tail(r.chain)
  BY StepFields
<1>2. /\ r.chain \in Seq(Jobs) /\ Len(r.chain) \in Nat \ {0}
      /\ DOMAIN r.chain = 1 .. Len(r.chain)
  BY ChainFacts
<1> HIDE DEF q
<1>3. /\ DOMAIN q.chain = 1 .. Len(r.chain) - 1
      /\ \A i \in 1 .. Len(r.chain) - 1 : q.chain[i] = r.chain[i + 1]
  BY <1>1, <1>2
<1>4. \A i \in DOMAIN q.chain : /\ i + 1 \in DOMAIN r.chain /\ i + 1 # 1 /\ i \in Nat
                                /\ q.chain[i] = r.chain[i + 1]
  BY <1>2, <1>3
<1>5. \A i, j \in DOMAIN q.chain : i + 1 = j + 1 => i = j
  BY <1>4
<1>6. 1 \in DOMAIN r.chain
  BY <1>2
<1>7. q.chain # <<>> => 1 \in DOMAIN q.chain
  <2>1. q.chain \in Seq(Jobs)
    BY <1>1, <1>2
  <2> QED BY <2>1
<1>8. InOrder(q)
  BY <1>1, <1>4, <1>5 DEF InOrder
<1>9. \A s : Finishes(q, s) => Finishes(r, s)
  BY <1>4 DEF Finishes
<1>10. r.chain[1].kind = "finish" => ~Finishes(q, r.chain[1].session)
  BY <1>4, <1>6 DEF InOrder, Finishes
<1>11. q.chain # <<>> => q.chain[1] \in NewJobs(q.chain[1].session)
  BY <1>4, <1>7 DEF InOrder
<1> QED BY <1>8, <1>9, <1>10, <1>11 DEF q

LEMMA StepOrder ==
  ASSUME NEW r \in Recorders, r.chain # <<>>, InOrder(r), NEW step \in Steps
  PROVE  LET q == Step(r, step) IN
         /\ InOrder(q)
         /\ \A s : Finishes(q, s) => Finishes(r, s)
         /\ q.chain[1] = [r.chain[1] EXCEPT !.step = step]
         /\ q.chain[1].kind = r.chain[1].kind
         /\ q.chain[1].session = r.chain[1].session
         /\ q.chain[1].step = step
<1> DEFINE q == Step(r, step)
<1>1. /\ DOMAIN q.chain = DOMAIN r.chain /\ 1 \in DOMAIN r.chain
      /\ r.chain[1] \in Jobs
      /\ \A i \in DOMAIN r.chain : i # 1 => q.chain[i] = r.chain[i]
      /\ q.chain[1] = [r.chain[1] EXCEPT !.step = step]
      /\ q.session = r.session
  BY ChainFacts DEF Step, Recorders
<1> HIDE DEF q
<1>2. /\ q.chain[1].step = step /\ q.chain[1].session = r.chain[1].session
      /\ q.chain[1].kind = r.chain[1].kind
  BY <1>1 DEF Jobs
<1>3. \A i \in DOMAIN q.chain : /\ i \in DOMAIN r.chain
                                /\ q.chain[i].session = r.chain[i].session
                                /\ q.chain[i].kind = r.chain[i].kind
                                /\ i # 1 => q.chain[i] = r.chain[i]
  BY <1>1, <1>2
<1>4. InOrder(q)
  BY <1>1, <1>3 DEF InOrder
<1>5. \A s : Finishes(q, s) => Finishes(r, s)
  BY <1>3 DEF Finishes
<1> QED BY <1>1, <1>2, <1>4, <1>5 DEF q

-----------------------------------------------------------------------------
(* The invariant survives a step that leaves other tabs' sessions alone.    *)

LEMMA EndsRefers ==
  ASSUME NEW t, NEW s, Ends(recorder[t], s)
  PROVE  RefersTo(t, s)
  BY DEF Ends, Finishes, RefersTo

LEMMA UntouchedReady ==
  ASSUME TypeOK, NEW u \in Tabs, Untouched(u), HeadReady(u)
  PROVE  HeadReady(u)'
<1>1. CASE recorder[u].chain = <<>>
  BY <1>1 DEF HeadReady, Untouched
<1>2. CASE recorder[u].chain # <<>>
  <2> DEFINE s == recorder[u].chain[1].session
  <2>1. s \in Sessions /\ RefersTo(u, s)
    <3>1. recorder[u] \in Recorders
      BY TypeFacts
    <3>2. 1 \in DOMAIN recorder[u].chain
      BY <1>2, <3>1, ChainFacts
    <3> QED BY <3>1, <3>2, ChainFacts DEF RefersTo
  <2>2. /\ recorder'[u] = recorder[u] /\ inflight'[u] = inflight[u] /\ store'[u] = store[u]
        /\ memory'[s] = memory[s]
        /\ archive'[s] = archive[s] \/ archive'[s].state = "absent"
    BY <2>1 DEF Untouched
  <2> QED BY <1>2, <2>2 DEF HeadReady, Connected
<1> QED BY <1>1, <1>2

LEMMA EndingsKept ==
  ASSUME TypeOK, EndingsInv, NEW t \in Tabs,
         \A u \in Tabs \ {t} : Untouched(u),
         InOrder(recorder'[t]), HeadReady(t)',
         \A s \in Sessions : Finishes(recorder'[t], s) => memory'[s].tail = 0,
         \A s \in Sessions : Ends(recorder'[t], s) => archive'[s].state \in {"absent", "open"},
         OpenRowIsLeased', LeftAlone', ChunksWhole'
  PROVE  EndingsInv'
<1>1. ASSUME NEW u \in Tabs
      PROVE  InOrder(recorder'[u]) /\ HeadReady(u)'
  <2>1. CASE u = t
    BY <2>1
  <2>2. CASE u # t
    BY <1>1, <2>2, UntouchedReady DEF EndingsInv, Untouched
  <2> QED BY <2>1, <2>2
<1>2. ASSUME NEW u \in Tabs, NEW s \in Sessions, Finishes(recorder'[u], s)
      PROVE  memory'[s].tail = 0
  <2>1. CASE u # t
    <3>1. Finishes(recorder[u], s) /\ RefersTo(u, s)
      BY <1>2, <2>1, EndsRefers DEF Untouched, Ends
    <3> QED BY <2>1, <3>1 DEF EndingsInv, FinishesSealed, Untouched
  <2> QED BY <1>2, <2>1
<1>3. ASSUME NEW u \in Tabs, NEW s \in Sessions, Ends(recorder'[u], s)
      PROVE  archive'[s].state \in {"absent", "open"}
  <2>1. CASE u # t
    <3>1. Ends(recorder[u], s) /\ RefersTo(u, s)
      BY <1>3, <2>1, EndsRefers DEF Untouched, Ends
    <3> QED BY <2>1, <3>1 DEF EndingsInv, EndingRowIsOpen, Untouched
  <2> QED BY <1>3, <2>1
<1>4. \A u \in Tabs : (InOrder(recorder[u]) /\ HeadReady(u))'
  BY <1>1
<1>5. FinishesSealed'
  BY <1>2 DEF FinishesSealed
<1>6. EndingRowIsOpen'
  BY <1>3 DEF EndingRowIsOpen
<1> QED BY <1>4, <1>5, <1>6 DEF EndingsInv

\* Closed rows that nothing touches stay whole.
LEMMA ClosedStays ==
  ASSUME ChunksWhole,
         \A s \in Sessions : archive'[s].state = "closed" => archive'[s] = archive[s]
  PROVE  ChunksWhole'
  BY DEF ChunksWhole

\* The sessions of one tab are not another's.
LEMMA OthersUntouched ==
  ASSUME LeaseDiscipline, NEW t \in Tabs,
         \A u \in Tabs \ {t} : /\ recorder'[u] = recorder[u] /\ inflight'[u] = inflight[u]
                               /\ store'[u] = store[u],
         \A s \in Sessions : ~RefersTo(t, s) /\ ~Unused(s) =>
           /\ memory'[s] = memory[s]
           /\ archive'[s] = archive[s] \/ archive'[s].state = "absent"
  PROVE  \A u \in Tabs \ {t} : Untouched(u)
<1>1. ASSUME NEW u \in Tabs \ {t}, NEW s \in Sessions, RefersTo(u, s)
      PROVE  ~RefersTo(t, s) /\ ~Unused(s)
  BY <1>1 DEF LeaseDiscipline, OneOwner, Unused
<1> QED BY <1>1 DEF Untouched

\* Nothing is read of the head of a chain that has not begun.
LEMMA FreshReady ==
  ASSUME NEW q, q.chain # <<>> => /\ q.chain[1].session \in Sessions
                                  /\ q.chain[1] \in NewJobs(q.chain[1].session),
         NEW t, recorder'[t] = q
  PROVE  HeadReady(t)'
<1>1. q.chain # <<>> => q.chain[1].step \notin {"put", "commit", "close"}
  BY NewJobFields
<1> QED BY <1>1 DEF HeadReady

LEMMA HeadSession ==
  ASSUME NEW r \in Recorders, r.chain # <<>>
  PROVE  1 \in DOMAIN r.chain /\ r.chain[1] \in Jobs /\ r.chain[1].session \in Sessions
  BY ChainFacts

-----------------------------------------------------------------------------
(* The calls of telemetry. *)

LEMMA CallsAreLive ==
  ASSUME NEW t \in Tabs, TabStep(t), ~JobStep(t)
  PROVE  Live(t)
  BY DEF TabStep, Observe, EndStream, Checkpoint, Tick, EndWatch, Identify, DeviceChanged,
         HoldOpenForRejoin, ReleaseRejoinHold, Dispose, RetryIntervalEnds, HearAnnouncement

LEMMA CalledEndings ==
  ASSUME TypeOK, TypeOK', LeaseDiscipline, EndingsInv, NEW t \in Tabs, Live(t), Called(t)
  PROVE  EndingsInv'
<1> DEFINE r == recorder[t]
           q == recorder'[t]
<1>1. /\ r \in Recorders /\ q \in Recorders
      /\ InOrder(r) /\ Grows(r, q) /\ Seals(t)
      /\ UNCHANGED <<phase, store, inflight, lease, archive>>
      /\ \A u \in Tabs \ {t} : recorder'[u] = recorder[u]
  BY DEF Called, TypeOK, EndingsInv
<1>2. ASSUME NEW s \in Sessions, RefersTo(t, s)
      PROVE  ~Unused(s)
  BY <1>2 DEF Unused
<1>3. ASSUME q.session # r.session, NEW i \in DOMAIN r.chain
      PROVE  r.chain[i].session # q.session
  <2>1. r.chain[i].session \in Sessions /\ RefersTo(t, r.chain[i].session)
    BY <1>1, <1>3, ChainFacts DEF RefersTo
  <2> QED BY <1>2, <1>3, <2>1, SessionRecorderAssumption DEF Called
<1>4. InOrder(q)
  BY <1>1, <1>3, GrowsOrder
<1>5. ASSUME NEW s \in Sessions, Finishes(r, s)
      PROVE  memory'[s] = memory[s] /\ memory[s].tail = 0
  <2>1. ~Unused(s)
    BY <1>2, <1>5, EndsRefers DEF Ends
  <2>2. s # r.session
    BY <1>1, <1>5 DEF InOrder, Finishes
  <2> QED BY <1>1, <1>5, <2>1, <2>2 DEF Seals, EndingsInv, FinishesSealed
<1>6. ASSUME NEW s \in Sessions, Finishes(q, s)
      PROVE  memory'[s].tail = 0
  <2>1. CASE s = r.session /\ q.session # s
    <3>1. ~Unused(s)
      BY <1>2, <2>1 DEF RefersTo
    <3> QED BY <1>1, <2>1, <3>1 DEF Seals
  <2> QED BY <1>1, <1>5, <1>6, <2>1, GrowsFinishes
<1>7. ASSUME NEW s \in Sessions, Ends(recorder'[t], s)
      PROVE  archive'[s].state \in {"absent", "open"}
  <2>1. Ends(recorder[t], s) \/ Unused(s)
    <3>1. CASE q.session = s
      BY <3>1, SessionRecorderAssumption DEF Called, Ends
    <3>2. CASE Finishes(q, s)
      BY <1>1, <3>2, GrowsFinishes DEF Ends
    <3> QED BY <1>7, <3>1, <3>2 DEF Ends
  <2> QED BY <1>1, <2>1 DEF EndingsInv, EndingRowIsOpen, Unused
<1>8. HeadReady(t)'
  <2>1. CASE q.chain # <<>> /\ q.chain[1] \notin NewJobs(q.chain[1].session)
    <3> DEFINE s == r.chain[1].session
    <3>1. r.chain # <<>> /\ q.chain[1] = r.chain[1]
      BY <1>1, <2>1, GrowsHead
    <3>2. 1 \in DOMAIN r.chain /\ s \in Sessions
      BY <1>1, <3>1, HeadSession
    <3>3. memory'[s].leased = memory[s].leased
      <4>1. ~Unused(s)
        BY <1>2, <3>2 DEF RefersTo
      <4> QED BY <1>1, <3>2, <4>1 DEF Seals
    <3>4. r.chain[1].kind = "finish" => memory'[s] = memory[s]
      BY <1>5, <3>2 DEF Finishes
    <3>5. inflight' = inflight /\ store' = store /\ archive' = archive
      BY <1>1
    <3>6. HeadReady(t)
      BY DEF EndingsInv
    <3> QED BY <3>1, <3>3, <3>4, <3>5, <3>6 DEF HeadReady, Connected
  <2>2. CASE ~(q.chain # <<>> /\ q.chain[1] \notin NewJobs(q.chain[1].session))
    <3>1. q.chain # <<>> => q.chain[1].session \in Sessions
      BY <1>1, HeadSession
    <3> QED BY <2>2, <3>1, FreshReady
  <2> QED BY <2>1, <2>2
<1>9. OpenRowIsLeased'
  <2>1. ASSUME NEW s \in Sessions, archive'[s].state = "open"
        PROVE  memory'[s].leased
    <3>1. archive[s].state = "open" /\ ~Unused(s)
      BY <1>1, <2>1 DEF Unused
    <3> QED BY <1>1, <3>1 DEF Seals, EndingsInv, OpenRowIsLeased
  <2> QED BY <2>1 DEF OpenRowIsLeased
<1>10. LeftAlone'
  <2>1. ASSUME NEW u \in Tabs, phase'[u] # "live"
        PROVE  /\ \A v \in Tabs : v = u
               /\ phase'[u] = "gone" => recorder'[u].chain = <<>>
    <3>1. phase[u] # "live" /\ u # t
      BY <1>1, <2>1 DEF Live
    <3> QED BY <1>1, <2>1, <3>1 DEF EndingsInv, LeftAlone
  <2> QED BY <2>1 DEF LeftAlone
<1>11. ChunksWhole'
  BY <1>1, ClosedStays DEF EndingsInv
<1>12. \A u \in Tabs \ {t} : Untouched(u)
  <2>1. \A s \in Sessions : ~RefersTo(t, s) /\ ~Unused(s) =>
          memory'[s] = memory[s] /\ archive'[s] = archive[s]
    BY <1>1 DEF Seals, RefersTo
  <2> QED BY <1>1, <2>1, OthersUntouched
<1> QED BY <1>4, <1>6, <1>7, <1>8, <1>9, <1>10, <1>11, <1>12, EndingsKept

LEMMA DisposeEndings ==
  ASSUME TypeOK, TypeOK', LeaseDiscipline, EndingsInv, NEW t \in Tabs, Dispose(t),
         "leaving" \in Happenings => \A u, v \in Tabs : u = v
  PROVE  EndingsInv'
<1> DEFINE r == recorder[t]
           q == recorder'[t]
           s == r.session
           f == Flush(r, memory[s])
<1>1. /\ r \in Recorders /\ q \in Recorders /\ InOrder(r)
      /\ UNCHANGED <<store, inflight, archive>>
      /\ phase'[t] = "disposed"
      /\ \A u, v \in Tabs : u = v
  BY DEF Dispose, Mishap, MayFail, TypeOK, EndingsInv
<1>2. CASE s = NoSession
  <2>1. recorder' = recorder /\ memory' = memory
    BY <1>2 DEF Dispose
  <2>2. HeadReady(t)'
    BY <1>1, <2>1 DEF EndingsInv, HeadReady, Connected
  <2>3. \A z \in Sessions : Finishes(q, z) => memory'[z].tail = 0
    BY <2>1 DEF EndingsInv, FinishesSealed
  <2>4. \A z \in Sessions : Ends(recorder'[t], z) => archive'[z].state \in {"absent", "open"}
    BY <1>1, <2>1 DEF EndingsInv, EndingRowIsOpen, Ends
  <2>5. OpenRowIsLeased'
    BY <1>1, <2>1 DEF EndingsInv, OpenRowIsLeased
  <2>6. LeftAlone'
    BY <1>1 DEF LeftAlone
  <2>7. ChunksWhole'
    BY <1>1, ClosedStays DEF EndingsInv
  <2>8. \A u \in Tabs \ {t} : Untouched(u)
    BY <1>1
  <2>9. InOrder(q)
    BY <1>1, <2>1
  <2> QED BY <2>2, <2>3, <2>4, <2>5, <2>6, <2>7, <2>8, <2>9, EndingsKept
<1>3. CASE s # NoSession
  <2>1. s \in Sessions /\ memory[s] \in Memories
    BY <1>3, TypeFacts
  <2>2. f \in Recorders /\ Grows(r, f) /\ f.session = s
    BY <1>1, <2>1, FlushType, FlushGrows
  <2>3. recorder' = [recorder EXCEPT ![t] = Stop(f)]
        /\ memory' = [memory EXCEPT ![s] = RequestFlush(memory[s])]
    BY <1>3 DEF Dispose
  <2> HIDE DEF f
  <2>4. q = Stop(f) /\ q.session = NoSession /\ q.chain = f.chain
    BY <2>2, <2>3, StopFields DEF TypeOK
  <2>5. InOrder(f) /\ InOrder(q) /\ \A z : Finishes(q, z) <=> Finishes(f, z)
    BY <1>1, <2>2, <2>4, GrowsOrder, StopOrder
  <2>6. \A z : Finishes(q, z) => Finishes(r, z)
    BY <2>2, <2>5, GrowsFinishes
  <2>7. /\ memory'[s] = RequestFlush(memory[s])
        /\ \A z \in Sessions : z # s => memory'[z] = memory[z]
    BY <2>1, <2>3 DEF TypeOK
  <2>8. ASSUME NEW z \in Sessions, Finishes(r, z)
        PROVE  z # s /\ memory'[z] = memory[z]
    BY <1>1, <2>7, <2>8 DEF InOrder, Finishes
  <2>9. \A z \in Sessions : memory'[z].leased = memory[z].leased
    BY <2>1, <2>7, RequestLease, MemoryFields
  <2>10. \A z \in Sessions : Finishes(q, z) => memory'[z].tail = 0
    BY <2>6, <2>8 DEF EndingsInv, FinishesSealed
  <2>11. \A z \in Sessions : Ends(recorder'[t], z) => archive'[z].state \in {"absent", "open"}
    BY <1>1, <2>4, <2>6, SessionRecorderAssumption DEF EndingsInv, EndingRowIsOpen, Ends
  <2>12. OpenRowIsLeased'
    BY <1>1, <2>9 DEF EndingsInv, OpenRowIsLeased
  <2>13. LeftAlone'
    BY <1>1 DEF LeftAlone
  <2>14. ChunksWhole'
    BY <1>1, ClosedStays DEF EndingsInv
  <2>15. \A u \in Tabs \ {t} : Untouched(u)
    BY <1>1
  <2>16. HeadReady(t)'
    <3>1. CASE q.chain # <<>> /\ q.chain[1] \notin NewJobs(q.chain[1].session)
      <4> DEFINE z == r.chain[1].session
      <4>1. r.chain # <<>> /\ q.chain[1] = r.chain[1]
        BY <1>1, <2>2, <2>4, <3>1, GrowsHead
      <4>2. 1 \in DOMAIN r.chain /\ z \in Sessions
        BY <1>1, <4>1, HeadSession
      <4>3. r.chain[1].kind = "finish" => memory'[z] = memory[z]
        BY <2>8, <4>2 DEF Finishes
      <4>4. memory'[z].leased = memory[z].leased
        BY <2>9, <4>2
      <4>5. HeadReady(t)
        BY DEF EndingsInv
      <4>6. inflight' = inflight /\ store' = store /\ archive' = archive
        BY <1>1
      <4> QED BY <4>1, <4>3, <4>4, <4>5, <4>6 DEF HeadReady, Connected
    <3>2. CASE ~(q.chain # <<>> /\ q.chain[1] \notin NewJobs(q.chain[1].session))
      <4>1. q.chain # <<>> => q.chain[1].session \in Sessions
        BY <1>1, HeadSession
      <4> QED BY <3>2, <4>1, FreshReady
    <3> QED BY <3>1, <3>2
  <2> QED BY <2>5, <2>10, <2>11, <2>12, <2>13, <2>14, <2>15, <2>16, EndingsKept
<1> QED BY <1>2, <1>3

-----------------------------------------------------------------------------
(* The jobs. *)

LEMMA StillAlone ==
  ASSUME LeftAlone, NEW t \in Tabs, phase[t] # "gone", UNCHANGED phase,
         \A u \in Tabs \ {t} : recorder'[u] = recorder[u]
  PROVE  LeftAlone'
  BY DEF LeftAlone

\* A job works on its own session.
LEMMA JobEndings ==
  ASSUME TypeOK, LeaseDiscipline, EndingsInv, NEW t \in Tabs,
         NEW kind, NEW step, AtStep(t, kind, step),
         \A u \in Tabs \ {t} : recorder'[u] = recorder[u] /\ inflight'[u] = inflight[u],
         UNCHANGED <<phase, store>>,
         InOrder(recorder'[t]), HeadReady(t)',
         recorder'[t].session \in {recorder[t].session, NoSession},
         \A s \in Sessions : Finishes(recorder'[t], s) => Finishes(recorder[t], s),
         \A s \in Sessions :
           /\ memory'[s].tail = memory[s].tail
           /\ memory[s].leased => memory'[s].leased
           /\ s # JobSession(t) =>
                /\ memory'[s] = memory[s]
                /\ archive'[s] = archive[s] \/ archive'[s].state = "absent",
         LET s == JobSession(t) IN
           /\ archive'[s].state = "open" => archive[s].state = "open" \/ memory[s].leased
           /\ Ends(recorder'[t], s) => archive'[s].state \in {"absent", "open"}
           /\ archive'[s].state = "closed" /\ archive'[s].dropped = 0 =>
                \/ archive'[s] = archive[s]
                \/ archive'[s].samples = SumRows(archive'[s].chunks, MaxRows + 1)
  PROVE  EndingsInv'
<1> DEFINE s == JobSession(t)
<1>1. /\ s \in Sessions /\ RefersTo(t, s) /\ phase[t] # "gone"
  BY HeadFacts DEF RefersTo, AtStep
<1>2. \A z \in Sessions : Finishes(recorder'[t], z) => memory'[z].tail = 0
  BY DEF EndingsInv, FinishesSealed
<1>3. ASSUME NEW z \in Sessions, Ends(recorder'[t], z)
      PROVE  archive'[z].state \in {"absent", "open"}
  <2>1. CASE z # s
    <3>1. Ends(recorder[t], z)
      BY <1>3, SessionRecorderAssumption DEF Ends
    <3> QED BY <2>1, <3>1 DEF EndingsInv, EndingRowIsOpen
  <2> QED BY <1>3, <2>1
<1>4. OpenRowIsLeased'
  <2>1. ASSUME NEW z \in Sessions, archive'[z].state = "open"
        PROVE  memory'[z].leased
    <3>1. archive[z].state = "open" \/ memory[z].leased
      BY <2>1
    <3> QED BY <3>1 DEF EndingsInv, OpenRowIsLeased
  <2> QED BY <2>1 DEF OpenRowIsLeased
<1>5. LeftAlone'
  BY <1>1, StillAlone DEF EndingsInv
<1>6. ChunksWhole'
  <2>1. ASSUME NEW z \in Sessions, archive'[z].state = "closed", archive'[z].dropped = 0
        PROVE  archive'[z].samples = SumRows(archive'[z].chunks, MaxRows + 1)
    <3>1. CASE archive'[z] = archive[z]
      BY <2>1, <3>1 DEF EndingsInv, ChunksWhole
    <3>2. CASE archive'[z] # archive[z]
      BY <2>1, <3>2
    <3> QED BY <3>1, <3>2
  <2> QED BY <2>1 DEF ChunksWhole
<1>7. \A u \in Tabs \ {t} : Untouched(u)
  BY <1>1, OthersUntouched
<1> QED BY <1>2, <1>3, <1>4, <1>5, <1>6, <1>7, EndingsKept

\* A job that leaves the archive as it was.
LEMMA QuietEndings ==
  ASSUME TypeOK, LeaseDiscipline, EndingsInv, NEW t \in Tabs,
         NEW kind, NEW step, AtStep(t, kind, step),
         \A u \in Tabs \ {t} : recorder'[u] = recorder[u] /\ inflight'[u] = inflight[u],
         UNCHANGED <<phase, store, archive>>,
         InOrder(recorder'[t]), HeadReady(t)',
         recorder'[t].session \in {recorder[t].session, NoSession},
         \A s \in Sessions : Finishes(recorder'[t], s) => Finishes(recorder[t], s),
         \A s \in Sessions :
           /\ memory'[s].tail = memory[s].tail
           /\ memory[s].leased => memory'[s].leased
           /\ s # JobSession(t) => memory'[s] = memory[s]
  PROVE  EndingsInv'
<1> DEFINE s == JobSession(t)
<1>1. s \in Sessions
  BY HeadFacts
<1>2. Ends(recorder'[t], s) => archive'[s].state \in {"absent", "open"}
  BY <1>1, SessionRecorderAssumption DEF EndingsInv, EndingRowIsOpen, Ends
<1>3. archive' = archive /\ UNCHANGED <<phase, store>>
  OBVIOUS
<1> QED BY <1>2, <1>3, JobEndings

\* What the end of a job leaves of the recorder b.
LEMMA DoneReady ==
  ASSUME TypeOK, EndingsInv, NEW t \in Tabs, NEW kind, NEW step, AtStep(t, kind, step),
         NEW b \in Recorders, b.chain = recorder[t].chain,
         b.session \in {recorder[t].session, NoSession},
         recorder' = [recorder EXCEPT ![t] = Done(b)]
  PROVE  /\ \A u \in Tabs \ {t} : recorder'[u] = recorder[u]
         /\ InOrder(recorder'[t]) /\ HeadReady(t)'
         /\ recorder'[t].session \in {recorder[t].session, NoSession}
         /\ \A s \in Sessions : Finishes(recorder'[t], s) => Finishes(recorder[t], s)
         /\ kind = "finish" => ~Finishes(recorder'[t], JobSession(t))
<1> DEFINE r == recorder[t]
           q == Done(b)
<1>1. /\ r \in Recorders /\ r.chain # <<>> /\ r.chain[1].kind = kind
      /\ r.chain[1].session = JobSession(t) /\ InOrder(r)
  BY HeadFacts DEF EndingsInv
<1>2. InOrder(b) /\ \A s : Finishes(b, s) <=> Finishes(r, s)
  BY <1>1, StopOrder
<1>3. /\ InOrder(q) /\ \A s : Finishes(q, s) => Finishes(b, s)
      /\ kind = "finish" => ~Finishes(q, JobSession(t))
      /\ q.chain # <<>> => q.chain[1] \in NewJobs(q.chain[1].session)
  BY <1>1, <1>2, DoneOrder
<1>4. q \in Recorders /\ q.session = b.session
  BY <1>1, DoneType, StepFields
<1> HIDE DEF q
<1>5. recorder'[t] = q /\ \A u \in Tabs \ {t} : recorder'[u] = recorder[u]
  BY DEF TypeOK, q
<1>6. q.chain # <<>> => q.chain[1].session \in Sessions
  BY <1>4, HeadSession
<1>7. HeadReady(t)'
  BY <1>3, <1>5, <1>6, FreshReady
<1> QED BY <1>2, <1>3, <1>4, <1>5, <1>7

LEMMA EndedJobEndings ==
  ASSUME TypeOK, LeaseDiscipline, EndingsInv, NEW t \in Tabs,
         UpsertDevice(t) \/ FlushEnds(t) \/ JobThrows(t) \/ ClaimRefused(t)
  PROVE  EndingsInv'
<1> DEFINE r == recorder[t]
           s == JobSession(t)
<1>1. PICK kind, step : AtStep(t, kind, step)
  BY DEF UpsertDevice, FlushEnds, JobThrows, ClaimRefused
<1>2. r \in Recorders /\ s \in Sessions /\ memory[s] \in Memories
  BY <1>1, AtStepFacts
<1>3. PICK b \in Recorders : /\ b.chain = r.chain /\ b.session \in {r.session, NoSession}
                             /\ recorder' = [recorder EXCEPT ![t] = Done(b)]
  <2>1. /\ StandDown(r, s) \in Recorders /\ StandDown(r, s).chain = r.chain
        /\ StandDown(r, s).session \in {r.session, NoSession}
    <3>1. StandDown(r, s) \in Recorders
      BY <1>2, StandDownType
    <3> QED BY <1>2, <3>1 DEF StandDown, Stop, Recorders
  <2>2. \/ recorder' = [recorder EXCEPT ![t] = Done(r)]
        \/ recorder' = [recorder EXCEPT ![t] = Done(StandDown(r, s))]
    BY DEF UpsertDevice, FlushEnds, JobThrows, ClaimRefused
  <2> QED BY <1>2, <2>1, <2>2
<1>4. /\ \A u \in Tabs \ {t} : recorder'[u] = recorder[u]
      /\ InOrder(recorder'[t]) /\ HeadReady(t)'
      /\ recorder'[t].session \in {recorder[t].session, NoSession}
      /\ \A z \in Sessions : Finishes(recorder'[t], z) => Finishes(recorder[t], z)
  BY <1>1, <1>3, DoneReady
<1>5. UNCHANGED <<phase, store, archive, inflight>>
  BY DEF UpsertDevice, FlushEnds, JobThrows, ClaimRefused, Elsewhere
<1>6. \A z \in Sessions : /\ memory'[z].tail = memory[z].tail
                          /\ memory'[z].leased = memory[z].leased
                          /\ z # s => memory'[z] = memory[z]
  <2> DEFINE m == [memory[s] EXCEPT !.writing = FALSE]
  <2>1. m.tail = memory[s].tail /\ m.leased = memory[s].leased
    BY <1>2 DEF Memories, MemoryRecords
  <2>2. memory' = memory \/ memory' = [memory EXCEPT ![s] = m]
    BY DEF UpsertDevice, FlushEnds, JobThrows, ClaimRefused
  <2> HIDE DEF m
  <2> QED BY <1>2, <2>1, <2>2 DEF TypeOK
<1>7. /\ UNCHANGED <<phase, store, archive>>
      /\ \A u \in Tabs \ {t} : inflight'[u] = inflight[u]
  BY <1>5
<1> QED BY <1>1, <1>4, <1>6, <1>7, QuietEndings

LEMMA ClaimGrantedEndings ==
  ASSUME TypeOK, LeaseDiscipline, EndingsInv, NEW t \in Tabs, ClaimGranted(t)
  PROVE  EndingsInv'
<1> DEFINE r == recorder[t]
           s == JobSession(t)
           step == "put"
           b == Step(r, step)
           q == [b EXCEPT !.refusal = "none", !.announced = FALSE]
           m == [memory[s] EXCEPT !.leased = TRUE]
<1>1. /\ AtStep(t, "open", "claim") /\ r \in Recorders /\ s \in Sessions
      /\ memory[s] \in Memories /\ r.chain # <<>> /\ r.chain[1].session = s
      /\ r.chain[1].kind = "open" /\ step \in Steps /\ InOrder(r)
  BY HeadFacts, AtStepFacts DEF ClaimGranted, Steps, EndingsInv
<1>2. /\ recorder' = [recorder EXCEPT ![t] = q]
      /\ memory' = [memory EXCEPT ![s] = m]
      /\ UNCHANGED <<phase, store, archive, inflight>>
  BY DEF ClaimGranted
<1> HIDE DEF step
<1>3. /\ b \in Recorders /\ b.session = r.session /\ InOrder(b)
      /\ \A z : Finishes(b, z) => Finishes(r, z)
      /\ b.chain[1].kind = "open" /\ b.chain[1].session = s
  BY <1>1, StepType, StepFields, StepOrder
<1> HIDE DEF b
<1>4. q.chain = b.chain /\ q.session = b.session
  BY <1>3 DEF Recorders
<1>5. InOrder(q) /\ \A z : Finishes(q, z) <=> Finishes(b, z)
  BY <1>3, <1>4, StopOrder
<1> HIDE DEF q
<1>6. recorder'[t] = q /\ \A u \in Tabs \ {t} : recorder'[u] = recorder[u]
  BY <1>2 DEF TypeOK
<1>7. m.leased = TRUE /\ m.tail = memory[s].tail
  BY <1>1 DEF Memories, MemoryRecords
<1> HIDE DEF m
<1>8. memory'[s] = m /\ \A z \in Sessions : z # s => memory'[z] = memory[z]
  BY <1>1, <1>2 DEF TypeOK
<1>9. HeadReady(t)'
  BY <1>3, <1>4, <1>6, <1>7, <1>8 DEF HeadReady
<1>10. \A z \in Sessions : /\ memory'[z].tail = memory[z].tail
                           /\ memory[z].leased => memory'[z].leased
                           /\ z # s => memory'[z] = memory[z]
  BY <1>7, <1>8
<1>11. /\ InOrder(recorder'[t]) /\ recorder'[t].session \in {r.session, NoSession}
       /\ \A z \in Sessions : Finishes(recorder'[t], z) => Finishes(r, z)
  BY <1>3, <1>4, <1>5, <1>6
<1>12. /\ UNCHANGED <<phase, store, archive>>
       /\ \A u \in Tabs \ {t} : inflight'[u] = inflight[u]
  BY <1>2
<1> QED BY <1>1, <1>6, <1>9, <1>10, <1>11, <1>12, QuietEndings

LEMMA PutSessionEndings ==
  ASSUME TypeOK, LeaseDiscipline, EndingsInv, NEW t \in Tabs, PutSession(t)
  PROVE  EndingsInv'
<1> DEFINE r == recorder[t]
           s == JobSession(t)
           row == [Absent EXCEPT !.state = "open"]
<1>1. /\ AtStep(t, "open", "put") /\ r \in Recorders /\ s \in Sessions
      /\ r.chain # <<>> /\ r.chain[1].session = s
      /\ r.chain[1].kind = "open" /\ r.chain[1].step = "put"
  BY HeadFacts DEF PutSession
<1>2. /\ recorder' = [recorder EXCEPT ![t] = Done(r)]
      /\ archive' = archive \/ archive' = [archive EXCEPT ![s] = row]
      /\ UNCHANGED <<phase, store, memory, inflight>>
  BY DEF PutSession
<1>3. memory[s].leased
  BY <1>1 DEF EndingsInv, HeadReady
<1>4. row.state = "open"
  BY DEF Absent
<1> HIDE DEF row
<1>5. /\ archive'[s] = archive[s] \/ archive'[s] = row
      /\ \A z \in Sessions : z # s => archive'[z] = archive[z]
  BY <1>1, <1>2, ArchiveFacts
<1>6. /\ \A u \in Tabs \ {t} : recorder'[u] = recorder[u]
      /\ InOrder(recorder'[t]) /\ HeadReady(t)'
      /\ recorder'[t].session \in {recorder[t].session, NoSession}
      /\ \A z \in Sessions : Finishes(recorder'[t], z) => Finishes(recorder[t], z)
  BY <1>1, <1>2, DoneReady
<1>7. Ends(recorder'[t], s) => archive'[s].state \in {"absent", "open"}
  <2>1. Ends(recorder'[t], s) => Ends(recorder[t], s)
    BY <1>1, <1>6, SessionRecorderAssumption DEF Ends
  <2> QED BY <1>1, <1>4, <1>5, <2>1 DEF EndingsInv, EndingRowIsOpen
<1>8. LET z == JobSession(t) IN
        /\ archive'[z].state = "open" => archive[z].state = "open" \/ memory[z].leased
        /\ Ends(recorder'[t], z) => archive'[z].state \in {"absent", "open"}
        /\ archive'[z].state = "closed" /\ archive'[z].dropped = 0 =>
             \/ archive'[z] = archive[z]
             \/ archive'[z].samples = SumRows(archive'[z].chunks, MaxRows + 1)
  BY <1>3, <1>4, <1>5, <1>7
<1>9. /\ UNCHANGED <<phase, store>>
      /\ \A u \in Tabs \ {t} : inflight'[u] = inflight[u]
      /\ memory' = memory
  BY <1>2
<1> QED BY <1>1, <1>5, <1>6, <1>8, <1>9, JobEndings

LEMMA DeleteShortEndings ==
  ASSUME TypeOK, LeaseDiscipline, EndingsInv, NEW t \in Tabs, DeleteShort(t)
  PROVE  EndingsInv'
<1> DEFINE r == recorder[t]
           s == JobSession(t)
<1>1. /\ AtStep(t, "finish", "delete") /\ r \in Recorders /\ s \in Sessions
  BY HeadFacts DEF DeleteShort
<1>2. /\ recorder' = [recorder EXCEPT ![t] = Done(r)]
      /\ archive' = archive \/ archive' = [archive EXCEPT ![s] = Absent]
      /\ UNCHANGED <<phase, store, memory, inflight>>
  BY DEF DeleteShort, Removed, Leaves
<1>3. Absent.state = "absent"
  BY DEF Absent
<1>4. /\ archive'[s] = archive[s] \/ archive'[s] = Absent
      /\ \A z \in Sessions : z # s => archive'[z] = archive[z]
  BY <1>1, <1>2, ArchiveFacts
<1>5. /\ \A u \in Tabs \ {t} : recorder'[u] = recorder[u]
      /\ InOrder(recorder'[t]) /\ HeadReady(t)'
      /\ recorder'[t].session \in {recorder[t].session, NoSession}
      /\ \A z \in Sessions : Finishes(recorder'[t], z) => Finishes(recorder[t], z)
  BY <1>1, <1>2, DoneReady
<1>6. Ends(recorder'[t], s) => archive'[s].state \in {"absent", "open"}
  <2>1. Ends(recorder'[t], s) => Ends(recorder[t], s)
    BY <1>1, <1>5, SessionRecorderAssumption DEF Ends
  <2> QED BY <1>1, <1>3, <1>4, <2>1 DEF EndingsInv, EndingRowIsOpen
<1>7. LET z == JobSession(t) IN
        /\ archive'[z].state = "open" => archive[z].state = "open" \/ memory[z].leased
        /\ Ends(recorder'[t], z) => archive'[z].state \in {"absent", "open"}
        /\ archive'[z].state = "closed" /\ archive'[z].dropped = 0 =>
             \/ archive'[z] = archive[z]
             \/ archive'[z].samples = SumRows(archive'[z].chunks, MaxRows + 1)
  BY <1>3, <1>4, <1>6
<1>8. /\ UNCHANGED <<phase, store>>
      /\ \A u \in Tabs \ {t} : inflight'[u] = inflight[u]
      /\ memory' = memory
  BY <1>2
<1> QED BY <1>1, <1>4, <1>5, <1>7, <1>8, JobEndings

\* The closing that finds its row open has written everything.
LEMMA CloseSessionEndings ==
  ASSUME TypeOK, LeaseDiscipline, RowsInv, EndingsInv, NEW t \in Tabs, CloseSession(t)
  PROVE  EndingsInv'
<1> DEFINE r == recorder[t]
           s == JobSession(t)
           m == memory[s]
           row == [archive[s] EXCEPT !.state = "closed", !.samples = m.samples,
                                     !.dropped = m.dropped]
<1>1. /\ AtStep(t, "finish", "close") /\ r \in Recorders /\ s \in Sessions
      /\ r.chain # <<>> /\ r.chain[1].session = s /\ m \in Memories
      /\ r.chain[1].kind = "finish" /\ r.chain[1].step = "close"
      /\ Finishes(r, s) /\ RefersTo(t, s) /\ Fits(m, archive[s].chunks)
  BY HeadFacts, AtStepFacts, HeadRows DEF CloseSession, Finishes
<1>2. /\ recorder' = [recorder EXCEPT ![t] = Done(r)]
      /\ \/ archive' = archive
         \/ /\ archive' = [archive EXCEPT ![s] = row]
            /\ Connected(t) /\ archive[s].state # "absent"
      /\ UNCHANGED <<phase, store, memory, inflight>>
  BY DEF CloseSession
<1>3. /\ row.state = "closed" /\ row.samples = m.samples /\ row.dropped = m.dropped
      /\ row.chunks = archive[s].chunks /\ archive[s].chunks \in StoredChunks
  BY <1>1, ArchiveFacts, RowsTypes DEF Records
<1> HIDE DEF row
<1>4. /\ archive'[s] = archive[s] \/ archive'[s] = row
      /\ \A z \in Sessions : z # s => archive'[z] = archive[z]
  BY <1>1, <1>2, ArchiveFacts
<1>5. /\ \A u \in Tabs \ {t} : recorder'[u] = recorder[u]
      /\ InOrder(recorder'[t]) /\ HeadReady(t)'
      /\ recorder'[t].session \in {recorder[t].session, NoSession}
      /\ \A z \in Sessions : Finishes(recorder'[t], z) => Finishes(recorder[t], z)
      /\ ~Finishes(recorder'[t], s)
  BY <1>1, <1>2, DoneReady
<1>6. ~Ends(recorder'[t], s)
  <2>1. recorder[t].session # s /\ s # NoSession
    BY <1>1, SessionRecorderAssumption DEF EndingsInv, InOrder, Finishes
  <2> QED BY <1>5, <2>1 DEF Ends
<1>7. ASSUME archive'[s] # archive[s], archive'[s].dropped = 0
      PROVE  archive'[s].samples = SumRows(archive'[s].chunks, MaxRows + 1)
  <2>1. archive'[s] = row /\ Connected(t) /\ archive[s].state # "absent"
    BY <1>2, <1>4, <1>7
  <2>2. archive[s].state = "open"
    BY <1>1, <2>1 DEF EndingsInv, EndingRowIsOpen, Ends
  <2>3. m.pending = <<>> /\ m.tail = 0
    BY <1>1, <2>1, <2>2 DEF EndingsInv, HeadReady, FinishesSealed
  <2>4. Whole(m, archive[s].chunks)
    BY <1>1, <2>2 DEF RowsInv, EnteredIsWhole, Entered
  <2>5. Tallied(m, archive[s].chunks)
    BY <1>3, <1>7, <2>1, <2>4 DEF Whole
  <2>6. m.samples = SumRows(archive[s].chunks, MaxRows + 1)
    BY <1>1, <1>3, <2>3, <2>5, WrittenIsWhole
  <2> QED BY <1>3, <2>1, <2>6
<1>8. LET z == JobSession(t) IN
        /\ archive'[z].state = "open" => archive[z].state = "open" \/ memory[z].leased
        /\ Ends(recorder'[t], z) => archive'[z].state \in {"absent", "open"}
        /\ archive'[z].state = "closed" /\ archive'[z].dropped = 0 =>
             \/ archive'[z] = archive[z]
             \/ archive'[z].samples = SumRows(archive'[z].chunks, MaxRows + 1)
  BY <1>3, <1>4, <1>6, <1>7
<1>9. /\ UNCHANGED <<phase, store>>
      /\ \A u \in Tabs \ {t} : inflight'[u] = inflight[u]
      /\ memory' = memory
  BY <1>2
<1> QED BY <1>1, <1>4, <1>5, <1>8, <1>9, JobEndings

\* A warning filed may end the session, if the tab hears that the archive is back.
LEMMA AppendWarningEndings ==
  ASSUME TypeOK, LeaseDiscipline, EndingsInv, NEW t \in Tabs, AppendWarning(t)
  PROVE  EndingsInv'
<1> DEFINE r == recorder[t]
           s == r.session
           usable == TRUE
           told == [r EXCEPT !.announced = TRUE]
           a == FollowArchive(told, usable)
           ended == ArchiveReturned(t)
<1>1. /\ AtStep(t, "warning", "append") /\ r \in Recorders /\ r.chain # <<>>
      /\ InOrder(r) /\ phase[t] # "gone"
  BY HeadFacts DEF AppendWarning, EndingsInv, AtStep
<1>2. \/ /\ store[t] = "usable"
         /\ recorder' = [recorder EXCEPT ![t] = Done(a)]
         /\ memory' = SealIfEnded(t, ended)
      \/ /\ recorder' = [recorder EXCEPT ![t] = Done(r)]
         /\ memory' = memory
  BY DEF AppendWarning
<1>3. UNCHANGED <<phase, store, inflight, archive>>
  BY DEF AppendWarning
<1>4. usable \in BOOLEAN /\ told \in Recorders /\ told.session = s
      /\ told.archiveLost = r.archiveLost
  BY <1>1 DEF Recorders
<1> HIDE DEF usable
<1>5. /\ a.session # s /\ s # NoSession => r.archiveLost
      /\ a \in Recorders /\ Grows(r, a) /\ a.session \in {s, NoSession}
  <2>1. a.session # s /\ s # NoSession => r.archiveLost
    BY <1>4, FollowedEnds
  <2>2. a \in Recorders /\ Grows(r, a) /\ a.session \in {s, NoSession}
    BY <1>1, <1>4, AnnouncedGrows
  <2> QED BY <2>1, <2>2
<1>6. ended \in BOOLEAN /\ (ended => s # NoSession)
  BY <1>1 DEF ArchiveReturned, Recorders
<1>7. store[t] = "usable" /\ a.session # s /\ s # NoSession => ended
  BY <1>5 DEF ArchiveReturned
<1> HIDE DEF a, ended, told
<1>8. ASSUME NEW z \in Sessions, Finishes(r, z)
      PROVE  memory[z].tail = 0 /\ z # s
  BY <1>1, <1>8 DEF EndingsInv, FinishesSealed, InOrder, Finishes
<1>9. PICK b \in Recorders :
        /\ recorder' = [recorder EXCEPT ![t] = Done(b)]
        /\ InOrder(b) /\ b.chain # <<>> /\ b.session \in {s, NoSession}
        /\ \A z \in Sessions : Finishes(b, z) => memory'[z].tail = 0 /\ Ends(r, z)
        /\ \A z \in Sessions : /\ memory'[z].leased = memory[z].leased
                               /\ z # s => memory'[z] = memory[z]
  <2>1. CASE /\ store[t] = "usable"
             /\ recorder' = [recorder EXCEPT ![t] = Done(a)]
             /\ memory' = SealIfEnded(t, ended)
    <3>1. \A z \in Sessions : /\ memory'[z].leased = memory[z].leased
                              /\ z # s => memory'[z] = memory[z]
                              /\ ended /\ z = s => memory'[z].tail = 0
      BY <1>6, <2>1, EndedSeals
    <3>2. InOrder(a)
      <4>1. a.session # s => \A i \in DOMAIN r.chain : r.chain[i].session # a.session
        BY <1>1, <1>5, ChainFacts, SessionRecorderAssumption
      <4> QED BY <1>1, <1>5, <4>1, GrowsOrder
    <3>3. a.chain # <<>>
      <4>1. 1 \in DOMAIN r.chain
        BY <1>1, HeadSession
      <4> QED BY <1>5, <4>1 DEF Grows
    <3>4. ASSUME NEW z \in Sessions, Finishes(a, z)
          PROVE  memory'[z].tail = 0 /\ Ends(r, z)
      <4>1. CASE Finishes(r, z)
        BY <1>8, <3>1, <4>1 DEF Ends
      <4>2. CASE z = s /\ a.session # z
        BY <1>7, <2>1, <3>1, <4>2, SessionRecorderAssumption DEF Ends
      <4> QED BY <1>5, <3>4, <4>1, <4>2, GrowsFinishes
    <3> QED BY <1>5, <2>1, <3>1, <3>2, <3>3, <3>4
  <2>2. CASE recorder' = [recorder EXCEPT ![t] = Done(r)] /\ memory' = memory
    BY <1>1, <1>8, <2>2 DEF Ends
  <2> QED BY <1>2, <2>1, <2>2
<1> DEFINE q == Done(b)
<1>10. /\ q \in Recorders /\ q.session = b.session /\ InOrder(q)
       /\ \A z : Finishes(q, z) => Finishes(b, z)
       /\ q.chain # <<>> => q.chain[1] \in NewJobs(q.chain[1].session)
  BY <1>9, DoneType, StepFields, DoneOrder
<1> HIDE DEF q
<1>11. recorder'[t] = q /\ \A u \in Tabs \ {t} : recorder'[u] = recorder[u]
  BY <1>9 DEF TypeOK, q
<1>12. HeadReady(t)'
  BY <1>10, <1>11, HeadSession, FreshReady
<1>13. \A z \in Sessions : Finishes(recorder'[t], z) => memory'[z].tail = 0
  BY <1>9, <1>10, <1>11
<1>14. ASSUME NEW z \in Sessions, Ends(recorder'[t], z)
       PROVE  archive'[z].state \in {"absent", "open"}
  <2>1. Ends(r, z)
    BY <1>9, <1>10, <1>11, <1>14, SessionRecorderAssumption DEF Ends
  <2> QED BY <1>3, <2>1 DEF EndingsInv, EndingRowIsOpen
<1>15. OpenRowIsLeased'
  BY <1>3, <1>9 DEF EndingsInv, OpenRowIsLeased
<1>16. LeftAlone'
  BY <1>1, <1>3, <1>11, StillAlone DEF EndingsInv
<1>17. ChunksWhole'
  BY <1>3, ClosedStays DEF EndingsInv
<1>18. \A u \in Tabs \ {t} : Untouched(u)
  <2>1. \A z \in Sessions : ~RefersTo(t, z) /\ ~Unused(z) =>
          memory'[z] = memory[z] /\ archive'[z] = archive[z]
    BY <1>3, <1>9 DEF RefersTo
  <2> QED BY <1>3, <1>11, <2>1, OthersUntouched
<1>19. InOrder(recorder'[t])
  BY <1>10, <1>11
<1> QED BY <1>12, <1>13, <1>14, <1>15, <1>16, <1>17, <1>18, <1>19, EndingsKept

-----------------------------------------------------------------------------
(* The jobs that write. *)

\* The head of the chain of b takes a step.
LEMMA StepReady ==
  ASSUME TypeOK, EndingsInv, NEW t \in Tabs, NEW kind \in {"flush", "finish"},
         NEW step, AtStep(t, kind, step),
         NEW b \in Recorders, b.chain = recorder[t].chain,
         b.session \in {recorder[t].session, NoSession}, NEW next \in Steps,
         recorder' = [recorder EXCEPT ![t] = Step(b, next)],
         kind = "finish" => LET s == recorder[t].chain[1].session IN
           /\ next = "commit" => inflight'[t].head
           /\ next = "close" =>
                ~Connected(t)' \/ archive'[s].state # "open" \/ memory'[s].pending = <<>>
  PROVE  /\ \A u \in Tabs \ {t} : recorder'[u] = recorder[u]
         /\ InOrder(recorder'[t]) /\ HeadReady(t)'
         /\ recorder'[t].session \in {recorder[t].session, NoSession}
         /\ \A s \in Sessions : Finishes(recorder'[t], s) => Finishes(recorder[t], s)
<1> DEFINE r == recorder[t]
           q == Step(b, next)
<1>1. /\ r \in Recorders /\ r.chain # <<>> /\ r.chain[1].kind = kind
      /\ InOrder(r)
  BY HeadFacts DEF EndingsInv
<1>2. InOrder(b) /\ \A s : Finishes(b, s) <=> Finishes(r, s)
  BY <1>1, StopOrder
<1>3. /\ InOrder(q) /\ \A s : Finishes(q, s) => Finishes(b, s)
      /\ q.chain[1].kind = kind /\ q.chain[1].session = r.chain[1].session
      /\ q.chain[1].step = next
  <2>1. b.chain # <<>> /\ InOrder(b) /\ b.chain[1] = r.chain[1]
    BY <1>1, <1>2
  <2>2. /\ InOrder(q) /\ \A s : Finishes(q, s) => Finishes(b, s)
        /\ q.chain[1].kind = b.chain[1].kind /\ q.chain[1].session = b.chain[1].session
        /\ q.chain[1].step = next
    BY <2>1, StepOrder
  <2> QED BY <1>1, <2>1, <2>2
<1>4. q.session = b.session
  BY StepFields
<1> HIDE DEF q
<1>5. recorder'[t] = q /\ \A u \in Tabs \ {t} : recorder'[u] = recorder[u]
  BY DEF TypeOK, q
<1>6. HeadReady(t)'
  <2>1. /\ recorder'[t].chain[1].kind = kind /\ recorder'[t].chain[1].step = next
        /\ recorder'[t].chain[1].session = r.chain[1].session
    BY <1>3, <1>5
  <2>2. kind = "finish" => /\ next = "commit" => inflight'[t].head
                           /\ next = "close" => \/ ~Connected(t)'
                                                \/ archive'[r.chain[1].session].state # "open"
                                                \/ memory'[r.chain[1].session].pending = <<>>
    OBVIOUS
  <2> HIDE DEF r
  <2> QED BY <2>1, <2>2 DEF HeadReady
<1> QED BY <1>2, <1>3, <1>4, <1>5, <1>6

\* writePending returns, having written everything or finding the row gone or closed.
LEMMA WriteEndsReady ==
  ASSUME TypeOK, EndingsInv, NEW t \in Tabs, NEW kind \in {"flush", "finish"},
         NEW step, AtStep(t, kind, step),
         NEW b \in Recorders, b.chain = recorder[t].chain,
         b.session \in {recorder[t].session, NoSession}, WriteEnds(t, b),
         kind = "finish" => LET s == recorder[t].chain[1].session IN
           ~Connected(t)' \/ archive'[s].state # "open" \/ memory'[s].pending = <<>>
  PROVE  /\ \A u \in Tabs \ {t} : recorder'[u] = recorder[u] /\ inflight'[u] = inflight[u]
         /\ InOrder(recorder'[t]) /\ HeadReady(t)'
         /\ recorder'[t].session \in {recorder[t].session, NoSession}
         /\ \A s \in Sessions : Finishes(recorder'[t], s) => Finishes(recorder[t], s)
<1> DEFINE next == IF Head(b.chain).kind = "flush" THEN "loop" ELSE "close"
<1>1. /\ recorder' = [recorder EXCEPT ![t] = Step(b, next)]
      /\ inflight' = [inflight EXCEPT ![t] = NoCommit]
      /\ next \in Steps /\ next # "commit"
  BY DEF WriteEnds, Steps
<1>2. \A u \in Tabs \ {t} : inflight'[u] = inflight[u]
  BY <1>1 DEF TypeOK
<1> HIDE DEF next
<1> QED BY <1>1, <1>2, StepReady

\* writePending goes on to the next chunk.
LEMMA WritePendingReady ==
  ASSUME TypeOK, EndingsInv, NEW t \in Tabs, NEW kind \in {"flush", "finish"},
         NEW step, AtStep(t, kind, step),
         NEW b \in Recorders, b.chain = recorder[t].chain,
         b.session \in {recorder[t].session, NoSession}, NEW m, WritePending(t, b, m),
         kind = "finish" =>
           m.tail = 0 /\ memory'[recorder[t].chain[1].session].pending = m.pending
  PROVE  /\ \A u \in Tabs \ {t} : recorder'[u] = recorder[u] /\ inflight'[u] = inflight[u]
         /\ InOrder(recorder'[t]) /\ HeadReady(t)'
         /\ recorder'[t].session \in {recorder[t].session, NoSession}
         /\ \A s \in Sessions : Finishes(recorder'[t], s) => Finishes(recorder[t], s)
<1>1. CASE m.pending = <<>> /\ WriteEnds(t, b)
  BY <1>1, WriteEndsReady
<1>2. ASSUME NEW c, NEW next \in Steps, next = "commit",
             recorder' = [recorder EXCEPT ![t] = Step(b, next)],
             inflight' = [inflight EXCEPT ![t] = c], kind = "finish" => c.head
      PROVE  /\ \A u \in Tabs \ {t} : recorder'[u] = recorder[u] /\ inflight'[u] = inflight[u]
             /\ InOrder(recorder'[t]) /\ HeadReady(t)'
             /\ recorder'[t].session \in {recorder[t].session, NoSession}
             /\ \A s \in Sessions : Finishes(recorder'[t], s) => Finishes(recorder[t], s)
  <2>1. inflight'[t] = c /\ \A u \in Tabs \ {t} : inflight'[u] = inflight[u]
    BY <1>2 DEF TypeOK
  <2> QED BY <1>2, <2>1, StepReady
<1>3. "commit" \in Steps
  BY DEF Steps
<1>4. CASE /\ inflight' = [inflight EXCEPT ![t] = Commit(TRUE, Head(m.pending).chunk, m)]
           /\ recorder' = [recorder EXCEPT ![t] = Step(b, "commit")]
  <2>1. Commit(TRUE, Head(m.pending).chunk, m).head
    BY DEF Commit
  <2> QED BY <1>2, <1>3, <1>4, <2>1
<1>5. CASE /\ m.tail > 0
           /\ inflight' = [inflight EXCEPT ![t] = Commit(FALSE, Chunk(m.nextSeq - 1, m.tail), m)]
           /\ recorder' = [recorder EXCEPT ![t] = Step(b, "commit")]
  <2>1. kind # "finish"
    BY <1>5
  <2> QED BY <1>2, <1>3, <1>5, <2>1
<1> QED BY <1>1, <1>4, <1>5 DEF WritePending, WriteOn

LEMMA FlushPendingEndings ==
  ASSUME TypeOK, LeaseDiscipline, EndingsInv, NEW t \in Tabs, FlushPending(t)
  PROVE  EndingsInv'
<1> DEFINE r == recorder[t]
           s == JobSession(t)
           m == [memory[s] EXCEPT !.requested = FALSE]
           kind == "flush"
           step == "loop"
<1>1. /\ AtStep(t, kind, step) /\ r \in Recorders /\ s \in Sessions
      /\ memory[s] \in Memories /\ kind \in {"flush", "finish"} /\ kind # "finish"
  BY AtStepFacts DEF FlushPending
<1>2. m.tail = memory[s].tail /\ m.leased = memory[s].leased
  BY <1>1 DEF Memories, MemoryRecords
<1>3. /\ memory' = [memory EXCEPT ![s] = m]
      /\ WritePending(t, r, m) \/ WriteEnds(t, r)
      /\ UNCHANGED <<phase, store, archive>>
  BY DEF FlushPending
<1> HIDE DEF m, kind, step
<1>4. \A z \in Sessions : /\ memory'[z].tail = memory[z].tail
                          /\ memory[z].leased => memory'[z].leased
                          /\ z # s => memory'[z] = memory[z]
  BY <1>1, <1>2, <1>3 DEF TypeOK
<1>5. /\ \A u \in Tabs \ {t} : recorder'[u] = recorder[u] /\ inflight'[u] = inflight[u]
      /\ InOrder(recorder'[t]) /\ HeadReady(t)'
      /\ recorder'[t].session \in {recorder[t].session, NoSession}
      /\ \A z \in Sessions : Finishes(recorder'[t], z) => Finishes(recorder[t], z)
  <2>1. CASE WritePending(t, r, m)
    BY <1>1, <2>1, WritePendingReady
  <2>2. CASE WriteEnds(t, r)
    BY <1>1, <2>2, WriteEndsReady
  <2> QED BY <1>3, <2>1, <2>2
<1> QED BY <1>1, <1>3, <1>4, <1>5, QuietEndings

\* The job of finish finds its tail sealed, and its row closed if it has no lease.
LEMMA FinishReleaseEndings ==
  ASSUME TypeOK, LeaseDiscipline, EndingsInv, NEW t \in Tabs, FinishRelease(t)
  PROVE  EndingsInv'
<1> DEFINE r == recorder[t]
           s == JobSession(t)
           m == memory[s]
           kind == "finish"
           step == "release"
           next == "delete"
<1>1. /\ AtStep(t, kind, step) /\ r \in Recorders /\ s \in Sessions
      /\ r.chain # <<>> /\ r.chain[1].session = s /\ Finishes(r, s)
      /\ kind \in {"flush", "finish"}
      /\ next \in Steps /\ next # "commit" /\ next # "close"
  BY HeadFacts DEF FinishRelease, Finishes, Steps
<1>2. UNCHANGED <<phase, store, memory, archive>>
  BY DEF FinishRelease
<1>3. \/ recorder' = [recorder EXCEPT ![t] = Done(r)] /\ inflight' = inflight
      \/ recorder' = [recorder EXCEPT ![t] = Step(r, next)] /\ inflight' = inflight
      \/ m.leased /\ WritePending(t, r, m)
      \/ ~m.leased /\ WriteEnds(t, r)
  BY DEF FinishRelease
<1>4. m.tail = 0 /\ (~m.leased => archive[s].state # "open")
  BY <1>1 DEF EndingsInv, FinishesSealed, OpenRowIsLeased
<1> HIDE DEF kind, step, next
<1>5. /\ \A u \in Tabs \ {t} : recorder'[u] = recorder[u] /\ inflight'[u] = inflight[u]
      /\ InOrder(recorder'[t]) /\ HeadReady(t)'
      /\ recorder'[t].session \in {recorder[t].session, NoSession}
      /\ \A z \in Sessions : Finishes(recorder'[t], z) => Finishes(recorder[t], z)
  <2>1. CASE recorder' = [recorder EXCEPT ![t] = Done(r)] /\ inflight' = inflight
    BY <1>1, <2>1, DoneReady
  <2>2. CASE recorder' = [recorder EXCEPT ![t] = Step(r, next)] /\ inflight' = inflight
    BY <1>1, <2>2, StepReady
  <2>3. CASE m.leased /\ WritePending(t, r, m)
    <3>1. memory'[r.chain[1].session].pending = m.pending
      BY <1>1, <1>2
    <3> QED BY <1>1, <1>4, <2>3, <3>1, WritePendingReady
  <2>4. CASE ~m.leased /\ WriteEnds(t, r)
    <3>1. archive'[r.chain[1].session].state # "open"
      BY <1>1, <1>2, <1>4, <2>4
    <3> QED BY <1>1, <2>4, <3>1, WriteEndsReady
  <2> QED BY <1>3, <2>1, <2>2, <2>3, <2>4
<1>6. memory' = memory /\ UNCHANGED <<phase, store, archive>>
  BY <1>2
<1> QED BY <1>1, <1>5, <1>6, QuietEndings

\* A commit leaves open what is open; what it evicts is settled.
LEMMA CommitStaysOpen ==
  ASSUME TypeOK, NEW t \in Tabs, CommitStored(t)
  PROVE  /\ JobSession(t) \in Sessions
         /\ archive[JobSession(t)].state = "open"
         /\ \A z \in Sessions : archive[z].state = "open" => archive'[z].state = "open"
         /\ \A z \in Sessions : z # JobSession(t) =>
              archive'[z] = archive[z] \/ archive'[z].state = "absent"
<1> DEFINE s == JobSession(t)
<1>1. /\ s \in Sessions /\ archive[s].state = "open" /\ archive'[s] = WrittenRow(t)
      /\ \A z \in Sessions \ {s} : Spared(z) \/ Evicted(z)
  BY CommitStoredFacts
<1>2. WrittenRow(t).state = "open"
  BY <1>1, ArchiveFacts DEF Records, WrittenRow
<1>3. Absent.state = "absent"
  BY DEF Absent
<1> HIDE DEF s
<1> QED BY <1>1, <1>2, <1>3 DEF Spared, Evicted, Settled, s

LEMMA CommitStoredEndings ==
  ASSUME TypeOK, LeaseDiscipline, EndingsInv, NEW t \in Tabs, CommitStored(t)
  PROVE  EndingsInv'
<1> DEFINE r == recorder[t]
           s == JobSession(t)
           c == inflight[t]
           m == IF c.head THEN [memory[s] EXCEPT !.pending = Shift(@)] ELSE memory[s]
           step == "commit"
<1>1. PICK kind \in {"flush", "finish"} : AtStep(t, kind, step)
  BY DEF CommitStored, InCommit
<1>2. /\ r \in Recorders /\ r.chain # <<>> /\ s \in Sessions /\ memory[s] \in Memories
      /\ r.chain[1].session = s /\ r.chain[1].kind = kind /\ r.chain[1].step = "commit"
      /\ kind = "finish" => Finishes(r, s)
  BY <1>1, HeadFacts, AtStepFacts DEF Finishes
<1>3. /\ memory' = [memory EXCEPT ![s] = m]
      /\ (c.head /\ WritePending(t, r, m)) \/ (~c.head /\ WriteEnds(t, r))
      /\ UNCHANGED <<phase, store>>
  BY DEF CommitStored
<1>4. /\ archive[s].state = "open" /\ archive'[s].state = "open"
      /\ \A z \in Sessions : z # s => archive'[z] = archive[z] \/ archive'[z].state = "absent"
  BY CommitStaysOpen
<1>5. m.tail = memory[s].tail /\ m.leased = memory[s].leased
  BY <1>2 DEF Memories, MemoryRecords
<1>6. kind = "finish" => c.head /\ m.tail = 0
  BY <1>2, <1>5 DEF EndingsInv, FinishesSealed, HeadReady
<1> HIDE DEF m, step
<1>7. memory'[s] = m /\ \A z \in Sessions : z # s => memory'[z] = memory[z]
  BY <1>2, <1>3 DEF TypeOK
<1>8. /\ \A u \in Tabs \ {t} : recorder'[u] = recorder[u] /\ inflight'[u] = inflight[u]
      /\ InOrder(recorder'[t]) /\ HeadReady(t)'
      /\ recorder'[t].session \in {recorder[t].session, NoSession}
      /\ \A z \in Sessions : Finishes(recorder'[t], z) => Finishes(recorder[t], z)
  <2>1. CASE c.head /\ WritePending(t, r, m)
    <3>1. memory'[r.chain[1].session].pending = m.pending
      BY <1>2, <1>7
    <3> QED BY <1>1, <1>2, <1>6, <2>1, <3>1, WritePendingReady
  <2>2. CASE ~c.head /\ WriteEnds(t, r)
    BY <1>1, <1>2, <1>6, <2>2, WriteEndsReady
  <2> QED BY <1>3, <2>1, <2>2
<1>9. \A z \in Sessions : /\ memory'[z].tail = memory[z].tail
                          /\ memory[z].leased => memory'[z].leased
                          /\ z # s =>
                               /\ memory'[z] = memory[z]
                               /\ archive'[z] = archive[z] \/ archive'[z].state = "absent"
  BY <1>4, <1>5, <1>7
<1>10. LET z == JobSession(t) IN
         /\ archive'[z].state = "open" => archive[z].state = "open" \/ memory[z].leased
         /\ Ends(recorder'[t], z) => archive'[z].state \in {"absent", "open"}
         /\ archive'[z].state = "closed" /\ archive'[z].dropped = 0 =>
              \/ archive'[z] = archive[z]
              \/ archive'[z].samples = SumRows(archive'[z].chunks, MaxRows + 1)
  BY <1>4
<1> QED BY <1>1, <1>3, <1>8, <1>9, <1>10, JobEndings

\* The row of a session whose commit is answered with null is gone.
LEMMA CommitLostEndings ==
  ASSUME TypeOK, LeaseDiscipline, EndingsInv, NEW t \in Tabs, CommitLost(t),
         "aborted" \notin Happenings
  PROVE  EndingsInv'
<1> DEFINE r == recorder[t]
           s == JobSession(t)
           b == AbandonLostSession(r, s)
           step == "commit"
<1>1. PICK kind \in {"flush", "finish"} : AtStep(t, kind, step)
  BY DEF CommitLost, InCommit
<1>2. /\ r \in Recorders /\ r.chain # <<>> /\ s \in Sessions /\ r.chain[1].session = s
  BY <1>1, HeadFacts
<1>3. /\ b \in Recorders /\ b.chain = r.chain /\ b.session \in {r.session, NoSession}
  BY <1>2, AbandonType DEF AbandonLostSession, Stop, Recorders
<1>4. /\ UNCHANGED <<phase, store, memory, archive>> /\ WriteEnds(t, b)
      /\ ~Connected(t) \/ archive[s].state # "open"
  BY DEF CommitLost, MayFail
<1> HIDE DEF b, step
<1>5. ~Connected(t)' \/ archive'[r.chain[1].session].state # "open"
  BY <1>2, <1>4 DEF Connected
<1>6. /\ \A u \in Tabs \ {t} : recorder'[u] = recorder[u] /\ inflight'[u] = inflight[u]
      /\ InOrder(recorder'[t]) /\ HeadReady(t)'
      /\ recorder'[t].session \in {recorder[t].session, NoSession}
      /\ \A z \in Sessions : Finishes(recorder'[t], z) => Finishes(recorder[t], z)
  BY <1>1, <1>3, <1>4, <1>5, WriteEndsReady
<1>7. memory' = memory /\ UNCHANGED <<phase, store, archive>>
  BY <1>4
<1> QED BY <1>1, <1>6, <1>7, QuietEndings

\* A step that leaves the sessions of every tab as they are,
\* but for rows that go.
LEMMA OutsideEndings ==
  ASSUME TypeOK, EndingsInv, NEW t \in Tabs,
         UNCHANGED <<phase, inflight, memory>>,
         \A u \in Tabs \ {t} : recorder'[u] = recorder[u] /\ store'[u] = store[u],
         recorder'[t].chain = recorder[t].chain,
         recorder'[t].session = recorder[t].session,
         ~Connected(t) => ~Connected(t)',
         \A s \in Sessions : archive'[s] = archive[s] \/ archive'[s].state = "absent"
  PROVE  EndingsInv'
<1>1. InOrder(recorder'[t])
  BY DEF EndingsInv, InOrder
<1>2. HeadReady(t)'
  <2>1. HeadReady(t)
    BY DEF EndingsInv
  <2>2. recorder[t].chain # <<>> => recorder[t].chain[1].session \in Sessions
    BY TypeFacts, HeadSession
  <2>3. inflight' = inflight /\ memory' = memory
    OBVIOUS
  <2> QED BY <2>1, <2>2, <2>3 DEF HeadReady
<1>3. \A s \in Sessions : Finishes(recorder'[t], s) => memory'[s].tail = 0
  BY DEF EndingsInv, FinishesSealed, Finishes
<1>4. ASSUME NEW s \in Sessions, Ends(recorder'[t], s)
      PROVE  archive'[s].state \in {"absent", "open"}
  <2>1. Ends(recorder[t], s)
    BY <1>4 DEF Ends, Finishes
  <2>2. archive[s].state \in {"absent", "open"}
    BY <2>1 DEF EndingsInv, EndingRowIsOpen
  <2> QED BY <2>2
<1>5. OpenRowIsLeased'
  <2>1. ASSUME NEW s \in Sessions, archive'[s].state = "open"
        PROVE  memory'[s].leased
    <3>1. archive'[s] = archive[s]
      BY <2>1
    <3> QED BY <2>1, <3>1 DEF EndingsInv, OpenRowIsLeased
  <2> QED BY <2>1 DEF OpenRowIsLeased
<1>6. LeftAlone'
  <2>1. ASSUME NEW u \in Tabs, phase'[u] # "live"
        PROVE  /\ \A v \in Tabs : v = u
               /\ phase'[u] = "gone" => recorder'[u].chain = <<>>
    <3>1. phase[u] # "live" /\ recorder'[u].chain = recorder[u].chain
      BY <2>1
    <3> QED BY <3>1 DEF EndingsInv, LeftAlone
  <2> QED BY <2>1 DEF LeftAlone
<1>7. ChunksWhole'
  <2>1. \A s \in Sessions : archive'[s].state = "closed" => archive'[s] = archive[s]
    OBVIOUS
  <2> QED BY <2>1, ClosedStays DEF EndingsInv
<1>8. \A u \in Tabs \ {t} : Untouched(u)
  BY DEF Untouched
<1> QED BY <1>1, <1>2, <1>3, <1>4, <1>5, <1>6, <1>7, <1>8, EndingsKept

LEMMA PruneEndings ==
  ASSUME TypeOK, EndingsInv, NEW t \in Tabs, PruneToBudget(t)
  PROVE  EndingsInv'
<1>1. UNCHANGED <<phase, store, recorder, inflight, memory>>
  BY DEF PruneToBudget
<1>2. \A s \in Sessions : archive'[s] = archive[s] \/ archive'[s].state = "absent"
  BY PruneFacts DEF Spared, Evicted, Absent
<1> QED BY <1>1, <1>2, OutsideEndings DEF Connected

LEMMA NothingRefused ==
  ASSUME NEW t \in Tabs, CommitRefused(t)
  PROVE  "latching" \in Happenings \/ "passing" \in Happenings
  BY DEF CommitRefused, Latches, Passes, Mishap, MayFail

LEMMA JobStepEndings ==
  ASSUME TypeOK, LeaseDiscipline, RowsInv, EndingsInv, NEW t \in Tabs, JobStep(t),
         {"latching", "passing", "aborted"} \cap Happenings = {}
  PROVE  EndingsInv'
<1>1. ~CommitRefused(t) /\ "aborted" \notin Happenings
  BY NothingRefused
<1> QED BY <1>1, ClaimGrantedEndings, PutSessionEndings, EndedJobEndings, AppendWarningEndings,
           FlushPendingEndings, FinishReleaseEndings, DeleteShortEndings, CloseSessionEndings,
           CommitStoredEndings, CommitLostEndings, PruneEndings
        DEF JobStep

-----------------------------------------------------------------------------
(* The environment. *)

LEMMA StandDownEndings ==
  ASSUME TypeOK, EndingsInv, NEW t \in Tabs, StandDownStore(t)
  PROVE  EndingsInv'
<1> DEFINE r == recorder[t]
           a == [r EXCEPT !.announced = TRUE]
           failed == [a EXCEPT !.failure = TRUE, !.archiveLost = TRUE]
           q == FollowArchive(a, FALSE)
<1>1. a \in Recorders /\ a.chain = r.chain /\ a.session = r.session
  BY TypeFacts DEF Recorders
<1>2. q = a \/ q = failed
  BY DEF FollowArchive
<1>3. recorder' = [recorder EXCEPT ![t] = q]
  BY DEF StandDownStore
<1> HIDE DEF a
<1>4. failed.chain = a.chain /\ failed.session = a.session
  BY <1>1 DEF Recorders
<1> HIDE DEF failed, q
<1>5. /\ recorder'[t].chain = r.chain /\ recorder'[t].session = r.session
      /\ \A u \in Tabs \ {t} : recorder'[u] = recorder[u]
  BY <1>1, <1>2, <1>3, <1>4 DEF TypeOK
<1>6. /\ UNCHANGED <<phase, inflight, memory>> /\ archive' = archive
      /\ \A u \in Tabs \ {t} : store'[u] = store[u]
      /\ Connected(t)
  BY DEF StandDownStore, TypeOK
<1> QED BY <1>5, <1>6, OutsideEndings

LEMMA ClosePageEndings ==
  ASSUME TypeOK, EndingsInv, NEW t \in Tabs, ClosePage(t),
         "leaving" \in Happenings => \A u, v \in Tabs : u = v
  PROVE  EndingsInv'
<1>1. \A u \in Tabs : u = t
  BY DEF ClosePage, Live, Mishap, MayFail, EndingsInv, LeftAlone
<1>2. /\ recorder'[t] = IdleRecorder /\ UNCHANGED <<memory, archive>>
  BY DEF ClosePage, TypeOK
<1>3. IdleRecorder.session = NoSession /\ IdleRecorder.chain = <<>>
      /\ DOMAIN IdleRecorder.chain = {}
  BY DEF IdleRecorder
<1>4. InOrder(recorder'[t]) /\ \A s : ~Finishes(recorder'[t], s)
  BY <1>2, <1>3 DEF InOrder, Finishes
<1>5. HeadReady(t)'
  BY <1>2, <1>3 DEF HeadReady
<1>6. \A s \in Sessions : ~Ends(recorder'[t], s)
  BY <1>2, <1>3, <1>4, SessionRecorderAssumption DEF Ends
<1>7. OpenRowIsLeased'
  BY <1>2 DEF EndingsInv, OpenRowIsLeased
<1>8. LeftAlone'
  BY <1>1, <1>2, <1>3 DEF LeftAlone
<1>9. ChunksWhole'
  BY <1>2, ClosedStays DEF EndingsInv
<1>10. \A u \in Tabs \ {t} : Untouched(u)
  BY <1>1
<1> QED BY <1>4, <1>5, <1>6, <1>7, <1>8, <1>9, <1>10, EndingsKept

\* A page that opens finds no other, and its sweep closes nothing.
LEMMA OpenPageEndings ==
  ASSUME TypeOK, LeaseDiscipline, RowsInv, EndingsInv, NEW t \in Tabs, OpenPage(t)
  PROVE  EndingsInv'
<1>1. phase[t] = "gone" /\ recorder[t].chain = <<>> /\ \A u \in Tabs : u = t
  BY DEF OpenPage, EndingsInv, LeftAlone
<1>2. recorder[t].session = NoSession /\ DOMAIN recorder[t].chain = {}
  BY <1>1 DEF LeaseDiscipline, OnlyLiveTabsHaveSessions, Live
<1>3. \A s \in Sessions :
        \/ archive'[s] = archive[s]
        \/ archive'[s].state \in {"absent", "abandoned"}
  <2>1. ASSUME NEW s \in Sessions, SweptAway(s)
        PROVE  archive'[s].state \in {"absent", "abandoned"}
    BY <2>1, ArchiveFacts DEF SweptAway, Records, Absent
  <2> QED BY <2>1, OpenPageFacts DEF Spared, Evicted, Absent
<1>5. UNCHANGED <<recorder, inflight, memory, store>> /\ phase'[t] = "live"
  BY DEF OpenPage, TypeOK
<1>6. InOrder(recorder'[t])
  BY <1>5 DEF EndingsInv
<1>7. HeadReady(t)'
  BY <1>1, <1>5 DEF HeadReady
<1>8. \A s \in Sessions : ~Ends(recorder'[t], s)
  BY <1>2, <1>5, SessionRecorderAssumption DEF Ends, Finishes
<1>9. OpenRowIsLeased'
  <2>1. \A s \in Sessions : archive'[s].state = "open" => archive'[s] = archive[s]
    BY <1>3
  <2> QED BY <1>5, <2>1 DEF EndingsInv, OpenRowIsLeased
<1>10. LeftAlone'
  BY <1>1, <1>5 DEF LeftAlone
<1>11. ChunksWhole'
  <2>1. \A s \in Sessions : archive'[s].state = "closed" => archive'[s] = archive[s]
    BY <1>3
  <2> QED BY <2>1, ClosedStays DEF EndingsInv
<1>12. \A u \in Tabs \ {t} : Untouched(u)
  BY <1>1
<1>13. \A s \in Sessions : Finishes(recorder'[t], s) => memory'[s].tail = 0
  BY <1>8 DEF Ends
<1> QED BY <1>6, <1>7, <1>8, <1>9, <1>10, <1>11, <1>12, <1>13, EndingsKept

LEMMA EnvironmentEndings ==
  ASSUME TypeOK, LeaseDiscipline, RowsInv, EndingsInv, NEW t \in Tabs, Environment(t),
         "leaving" \in Happenings => \A u, v \in Tabs : u = v
  PROVE  EndingsInv'
<1>1. CASE Resume(t) \/ Silence(t) \/ SwapStore(t) \/ SwapBack(t)
  <2>1. UNCHANGED <<phase, recorder, inflight, memory, archive>>
    BY <1>1 DEF Resume, Silence, SwapStore, SwapBack
  <2>2. /\ \A u \in Tabs \ {t} : store'[u] = store[u]
        /\ ~Connected(t) => ~Connected(t)'
    BY <1>1 DEF Resume, Silence, SwapStore, SwapBack, TypeOK, Connected
  <2>3. /\ UNCHANGED <<phase, inflight, memory>>
        /\ \A u \in Tabs \ {t} : recorder'[u] = recorder[u] /\ store'[u] = store[u]
        /\ recorder'[t].chain = recorder[t].chain
        /\ recorder'[t].session = recorder[t].session
        /\ \A s \in Sessions : archive'[s] = archive[s]
    BY <2>1, <2>2
  <2> QED BY <2>2, <2>3, OutsideEndings
<1>2. ASSUME NEW s \in Sessions, DeleteSession(t, s)
      PROVE  EndingsInv'
  <2>1. archive'[s] = Absent /\ \A z \in Sessions : z # s => archive'[z] = archive[z]
    BY <1>2, RemovedFacts DEF DeleteSession, Spared
  <2>2. Absent.state = "absent"
    BY DEF Absent
  <2>3. UNCHANGED <<phase, store, recorder, inflight, memory>>
    BY <1>2 DEF DeleteSession
  <2>4. /\ UNCHANGED <<phase, inflight, memory>>
        /\ \A u \in Tabs \ {t} : recorder'[u] = recorder[u] /\ store'[u] = store[u]
        /\ recorder'[t].chain = recorder[t].chain
        /\ recorder'[t].session = recorder[t].session
        /\ ~Connected(t) => ~Connected(t)'
        /\ \A z \in Sessions : archive'[z] = archive[z] \/ archive'[z].state = "absent"
    BY <2>1, <2>2, <2>3 DEF Connected
  <2> QED BY <2>4, OutsideEndings
<1> QED BY <1>1, <1>2, StandDownEndings, ClosePageEndings, OpenPageEndings DEF Environment

-----------------------------------------------------------------------------
(* The theorem. *)

LEMMA InitEndings == Init => EndingsInv
<1> SUFFICES ASSUME Init
             PROVE  EndingsInv
  OBVIOUS
<1>1. \A t \in Tabs : /\ recorder[t].session = NoSession /\ recorder[t].chain = <<>>
                      /\ DOMAIN recorder[t].chain = {}
  <2>1. /\ IdleRecorder.session = NoSession /\ IdleRecorder.chain = <<>>
        /\ DOMAIN IdleRecorder.chain = {}
    BY DEF IdleRecorder
  <2>2. \A t \in Tabs : recorder[t] = IdleRecorder
    BY DEF Init
  <2> QED BY <2>1, <2>2
<1>2. \A t \in Tabs : InOrder(recorder[t]) /\ HeadReady(t)
  BY <1>1 DEF InOrder, HeadReady
<1>3. \A t \in Tabs, s \in Sessions : ~Ends(recorder[t], s)
  BY <1>1, SessionRecorderAssumption DEF Ends, Finishes
<1>4. FinishesSealed /\ EndingRowIsOpen
  BY <1>3 DEF FinishesSealed, EndingRowIsOpen, Ends
<1>5. \A s \in Sessions : archive[s].state = "absent"
  BY DEF Init, Absent
<1>6. OpenRowIsLeased /\ ChunksWhole
  BY <1>5 DEF OpenRowIsLeased, ChunksWhole
<1>7. LeftAlone
  BY DEF Init, LeftAlone
<1> QED BY <1>2, <1>4, <1>6, <1>7 DEF EndingsInv

LEMMA NextEndings ==
  ASSUME TypeOK, LeaseDiscipline, RowsInv, EndingsInv, [Next]_vars,
         {"latching", "passing", "aborted"} \cap Happenings = {},
         "leaving" \in Happenings => \A t, u \in Tabs : t = u
  PROVE  EndingsInv'
<1>1. TypeOK'
  BY NextType
<1>2. CASE UNCHANGED vars
  <2>1. UNCHANGED <<phase, store, recorder, inflight, memory, archive>>
    BY <1>2 DEF vars
  <2>2. ASSUME NEW t \in Tabs
        PROVE  InOrder(recorder[t])' /\ HeadReady(t)'
    <3>1. InOrder(recorder[t]) /\ HeadReady(t)
      BY DEF EndingsInv
    <3>2. InOrder(recorder[t])'
      BY <2>1, <3>1 DEF InOrder
    <3>3. HeadReady(t)'
      BY <2>1, <3>1 DEF HeadReady, Connected
    <3> QED BY <3>2, <3>3
  <2>3. FinishesSealed' /\ EndingRowIsOpen'
    BY <2>1 DEF EndingsInv, FinishesSealed, EndingRowIsOpen, Finishes, Ends
  <2>4. OpenRowIsLeased' /\ ChunksWhole'
    BY <2>1 DEF EndingsInv, OpenRowIsLeased, ChunksWhole
  <2>5. LeftAlone'
    BY <2>1 DEF EndingsInv, LeftAlone
  <2> QED BY <2>2, <2>3, <2>4, <2>5 DEF EndingsInv
<1>3. ASSUME NEW t \in Tabs, TabStep(t)
      PROVE  EndingsInv'
  <2>1. CASE JobStep(t)
    BY <2>1, JobStepEndings
  <2>2. CASE Dispose(t)
    BY <1>1, <2>2, DisposeEndings
  <2>3. CASE ~JobStep(t) /\ ~Dispose(t)
    <3>1. Called(t) /\ Live(t)
      BY <1>1, <1>3, <2>3, CallsAreCalled, CallsAreLive
    <3> QED BY <1>1, <3>1, CalledEndings
  <2> QED BY <2>1, <2>2, <2>3
<1>4. ASSUME NEW t \in Tabs, Environment(t)
      PROVE  EndingsInv'
  BY <1>4, EnvironmentEndings
<1> QED BY <1>2, <1>3, <1>4 DEF Next

\* Unless the archive refuses a commit ("latching", "passing") or loses one for
\* another reason ("aborted"), and where a page may be left ("leaving") it is the
\* only one, of a session its recorder closed without giving up a chunk every row
\* it says it has was stored, and is, but for chunks cut to make room - through
\* flushes, warnings, deletions, throwing writes, prunes, evictions, stores put in
\* front of the archive and a closed connection.
THEOREM ClosedIsWhole ==
  /\ {"latching", "passing", "aborted"} \cap Happenings = {}
  /\ "leaving" \in Happenings => \A t, u \in Tabs : t = u
  => (Spec => []ClosedSessionIsWhole)
<1> SUFFICES ASSUME {"latching", "passing", "aborted"} \cap Happenings = {},
                    "leaving" \in Happenings => \A t, u \in Tabs : t = u
             PROVE  Spec => []ClosedSessionIsWhole
  OBVIOUS
<1>1. TypeOK /\ LeaseDiscipline /\ RowsInv /\ EndingsInv /\ [Next]_vars => EndingsInv'
  BY NextEndings
<1>2. TypeOK /\ EndingsInv => ClosedSessionIsWhole
  <2> SUFFICES ASSUME TypeOK, EndingsInv, NEW s \in Sessions,
                      archive[s].state = "closed", archive[s].dropped = 0
               PROVE  archive[s].samples =
                        SumRows([q \in Seqs |-> Held(s, q) + TakenFrom(s, q)], MaxRows + 1)
    BY DEF ClosedSessionIsWhole
  <2>1. archive[s].chunks \in StoredChunks
    BY ArchiveFacts DEF Records, StoredChunks
  <2>2. \A q \in Seqs : Held(s, q) + TakenFrom(s, q) = archive[s].chunks[q]
    BY <2>1 DEF StoredChunks, Held, TakenFrom
  <2>3. [q \in Seqs |-> Held(s, q) + TakenFrom(s, q)] = archive[s].chunks
    BY <2>1, <2>2 DEF StoredChunks
  <2>4. archive[s].samples = SumRows(archive[s].chunks, MaxRows + 1)
    BY DEF EndingsInv, ChunksWhole
  <2> QED BY <2>3, <2>4
<1> QED BY <1>1, <1>2, InitEndings, TypeCorrect, LeaseDisciplineHolds, MemoryAndArchiveAgree,
           PTL DEF Spec

-----------------------------------------------------------------------------
(* Why a lease goes back.  A tab keeps it for a session that stands, whose   *)
(* row is open or about to be put, or until a closing on its chain returns   *)
(* it; and no claim is left on a chain of a session without its closing.     *)

LEMMA FinishFields ==
  ASSUME NEW s
  PROVE  /\ FinishJob(s).kind = "finish" /\ FinishJob(s).step = "release"
         /\ FinishJob(s).session = s
  BY DEF FinishJob, Job

LEMMA GrowsLends ==
  ASSUME NEW r \in Recorders, NEW q \in Recorders, Grows(r, q), Closes(r, q), OpensFirst(r)
  PROVE  /\ OpensFirst(q)
         /\ OpensEnd(r) => OpensEnd(q)
         /\ Releases(r) => Releases(q)
         /\ \A s : Opens(r, s) => Opens(q, s)
<1>1. \A i \in DOMAIN r.chain : i \in DOMAIN q.chain /\ q.chain[i] = r.chain[i]
  BY DEF Grows
<1>2. \A i \in DOMAIN q.chain \ DOMAIN r.chain : Adds(r, q, i)
  BY DEF Grows
<1>3. /\ DOMAIN r.chain = 1 .. Len(r.chain) /\ Len(r.chain) \in Nat
      /\ DOMAIN q.chain = 1 .. Len(q.chain) /\ Len(q.chain) \in Nat
  BY ChainFacts
<1>4. \A i \in DOMAIN r.chain, j \in DOMAIN q.chain \ DOMAIN r.chain : i < j /\ ~(j < i)
  BY <1>3
<1>5. ASSUME NEW i \in DOMAIN q.chain, NEW j \in DOMAIN q.chain,
             q.chain[i].kind = "open", q.chain[j].session = q.chain[i].session
      PROVE  i <= j
  <2>1. i \in Int /\ j \in Int
    BY <1>3
  <2>2. CASE i \notin DOMAIN r.chain
    BY <1>2, <1>5, <2>1, <2>2 DEF Adds
  <2>3. CASE i \in DOMAIN r.chain /\ j \in DOMAIN r.chain
    BY <1>1, <1>5, <2>3 DEF OpensFirst
  <2>4. CASE i \in DOMAIN r.chain /\ j \notin DOMAIN r.chain
    BY <1>4, <2>1, <2>4
  <2> QED BY <2>2, <2>3, <2>4
<1>6. ASSUME OpensEnd(r), NEW i \in DOMAIN q.chain, q.chain[i].kind = "open"
      PROVE  q.session = q.chain[i].session \/ ClosesAfter(q, i, q.chain[i].session)
  <2> DEFINE s == q.chain[i].session
  <2>1. CASE i \notin DOMAIN r.chain
    BY <1>2, <1>6, <2>1 DEF Adds
  <2>2. CASE i \in DOMAIN r.chain /\ ClosesAfter(r, i, s)
    BY <1>1, <2>2 DEF ClosesAfter
  <2>3. CASE i \in DOMAIN r.chain /\ r.session = s /\ q.session # s
    <3>1. r.chain[i].session \in Sessions /\ r.chain[i].session = s
      BY <1>1, <2>3, ChainFacts
    <3>2. PICK j \in DOMAIN q.chain \ DOMAIN r.chain : q.chain[j] = FinishJob(s)
      BY <2>3, <3>1, SessionRecorderAssumption DEF Closes
    <3> QED BY <1>4, <2>3, <3>2 DEF ClosesAfter
  <2> QED BY <1>1, <1>6, <2>1, <2>2, <2>3 DEF OpensEnd
<1>7. Releases(r) => Releases(q)
  BY <1>1 DEF Releases
<1>8. \A s : Opens(r, s) => Opens(q, s)
  BY <1>1 DEF Opens
<1> QED BY <1>5, <1>6, <1>7, <1>8 DEF OpensFirst, OpensEnd

\* A session that stops standing has its closing wait.
LEMMA ClosesReleases ==
  ASSUME NEW r, NEW q, Closes(r, q), r.session # NoSession, q.session # r.session
  PROVE  Releases(q)
<1>1. PICK i \in DOMAIN q.chain : q.chain[i] = FinishJob(r.session)
  BY DEF Closes
<1> QED BY <1>1, FinishFields DEF Releases

\* The head of the chain goes.
LEMMA DoneLends ==
  ASSUME NEW r \in Recorders, r.chain # <<>>, OpensFirst(r)
  PROVE  LET q == Done(r) IN
         /\ OpensFirst(q)
         /\ OpensEndBehind(r) => OpensEnd(q)
         /\ ~(r.chain[1].kind = "finish" /\ r.chain[1].step = "release") /\ Releases(r) =>
              Releases(q)
         /\ \A s : ClosesAfter(r, 1, s) => Releases(q)
         /\ \A s : Opens(r, s) =>
              Opens(q, s) \/ (r.chain[1].kind = "open" /\ r.chain[1].session = s)
<1> DEFINE q == Done(r)
<1>1. q.session = r.session /\ q.chain = Tail(r.chain)
  BY StepFields
<1>2. /\ r.chain \in Seq(Jobs) /\ Len(r.chain) \in Nat \ {0}
      /\ DOMAIN r.chain = 1 .. Len(r.chain)
  BY ChainFacts
<1> HIDE DEF q
<1>3. /\ DOMAIN q.chain = 1 .. Len(r.chain) - 1
      /\ \A i \in 1 .. Len(r.chain) - 1 : q.chain[i] = r.chain[i + 1]
  BY <1>1, <1>2
<1>4. \A i \in DOMAIN q.chain : /\ i + 1 \in DOMAIN r.chain /\ i \in Int
                                /\ q.chain[i] = r.chain[i + 1]
  BY <1>2, <1>3
<1>5. \A i \in DOMAIN r.chain : i # 1 =>
        /\ i - 1 \in DOMAIN q.chain /\ i \in Int /\ q.chain[i - 1] = r.chain[i]
  <2>1. ASSUME NEW i \in DOMAIN r.chain, i # 1
        PROVE  i - 1 \in DOMAIN q.chain /\ i \in Int /\ q.chain[i - 1] = r.chain[i]
    <3>1. i \in Int /\ i - 1 \in 1 .. Len(r.chain) - 1 /\ (i - 1) + 1 = i
      BY <1>2, <2>1
    <3> QED BY <1>3, <3>1
  <2> QED BY <2>1
<1>6. ASSUME NEW i \in DOMAIN q.chain, NEW j \in DOMAIN q.chain,
             q.chain[i].kind = "open", q.chain[j].session = q.chain[i].session
      PROVE  i <= j
  <2>1. i + 1 <= j + 1
    BY <1>4, <1>6 DEF OpensFirst
  <2> QED BY <1>4, <2>1
<1>7. ASSUME OpensEndBehind(r), NEW i \in DOMAIN q.chain, q.chain[i].kind = "open"
      PROVE  q.session = q.chain[i].session \/ ClosesAfter(q, i, q.chain[i].session)
  <2> DEFINE s == q.chain[i].session
  <2>1. r.session = s \/ ClosesAfter(r, i + 1, s)
    <3>1. i + 1 # 1
      BY <1>2, <1>3
    <3> QED BY <1>4, <1>7, <3>1 DEF OpensEndBehind
  <2>2. ASSUME NEW j \in DOMAIN r.chain, j > i + 1, r.chain[j] = FinishJob(s)
        PROVE  ClosesAfter(q, i, s)
    <3>1. i \in Nat \ {0} /\ j \in Int /\ j # 1
      BY <1>2, <1>3, <2>2
    <3>2. j - 1 \in DOMAIN q.chain /\ q.chain[j - 1] = FinishJob(s) /\ j - 1 > i
      BY <1>5, <2>2, <3>1
    <3> QED BY <3>2 DEF ClosesAfter
  <2> QED BY <1>1, <2>1, <2>2 DEF ClosesAfter
<1>8. ASSUME ~(r.chain[1].kind = "finish" /\ r.chain[1].step = "release"), Releases(r)
      PROVE  Releases(q)
  <2>1. PICK i \in DOMAIN r.chain : r.chain[i].kind = "finish" /\ r.chain[i].step = "release"
    BY <1>8 DEF Releases
  <2> QED BY <1>5, <1>8, <2>1 DEF Releases
<1>9. ASSUME NEW s, ClosesAfter(r, 1, s)
      PROVE  Releases(q)
  <2>1. PICK j \in DOMAIN r.chain : j > 1 /\ r.chain[j] = FinishJob(s)
    BY <1>9 DEF ClosesAfter
  <2>2. j # 1
    BY <1>2, <2>1
  <2> QED BY <1>5, <2>1, <2>2, FinishFields DEF Releases
<1>10. ASSUME NEW s, Opens(r, s), ~(r.chain[1].kind = "open" /\ r.chain[1].session = s)
       PROVE  Opens(q, s)
  <2>1. PICK i \in DOMAIN r.chain : r.chain[i].kind = "open" /\ r.chain[i].session = s
    BY <1>10 DEF Opens
  <2> QED BY <1>5, <1>10, <2>1 DEF Opens
<1> QED BY <1>6, <1>7, <1>8, <1>9, <1>10 DEF OpensFirst, OpensEnd, q

\* The head of the chain takes a step.
LEMMA StepLends ==
  ASSUME NEW r \in Recorders, r.chain # <<>>, OpensFirst(r), InOrder(r), NEW step \in Steps
  PROVE  LET q == Step(r, step) IN
         /\ OpensFirst(q)
         /\ OpensEnd(r) => OpensEnd(q)
         /\ ~(r.chain[1].kind = "finish" /\ r.chain[1].step = "release") /\ Releases(r) =>
              Releases(q)
         /\ \A s : Opens(r, s) => Opens(q, s)
<1> DEFINE q == Step(r, step)
<1>1. /\ DOMAIN q.chain = DOMAIN r.chain /\ 1 \in DOMAIN r.chain
      /\ r.chain[1] \in Jobs
      /\ \A i \in DOMAIN r.chain : i # 1 => q.chain[i] = r.chain[i]
      /\ q.chain[1] = [r.chain[1] EXCEPT !.step = step]
      /\ q.session = r.session
  BY ChainFacts DEF Step, Recorders
<1> HIDE DEF q
<1>2. \A i \in DOMAIN q.chain : /\ i \in DOMAIN r.chain
                                /\ q.chain[i].session = r.chain[i].session
                                /\ q.chain[i].kind = r.chain[i].kind
                                /\ i # 1 => q.chain[i] = r.chain[i]
  BY <1>1 DEF Jobs
<1>3. OpensFirst(q)
  BY <1>2 DEF OpensFirst
<1>4. ASSUME OpensEnd(r), NEW i \in DOMAIN q.chain, q.chain[i].kind = "open"
      PROVE  q.session = q.chain[i].session \/ ClosesAfter(q, i, q.chain[i].session)
  <2> DEFINE s == q.chain[i].session
  <2>1. r.session = s \/ ClosesAfter(r, i, s)
    BY <1>2, <1>4 DEF OpensEnd
  <2>2. ASSUME NEW j \in DOMAIN r.chain, j > i, r.chain[j] = FinishJob(s)
        PROVE  ClosesAfter(q, i, s)
    <3>1. DOMAIN r.chain = 1 .. Len(r.chain) /\ Len(r.chain) \in Nat
      BY ChainFacts
    <3>2. j # 1
      BY <1>1, <2>2, <3>1
    <3> QED BY <1>1, <2>2, <3>2 DEF ClosesAfter
  <2> QED BY <1>1, <2>1, <2>2 DEF ClosesAfter
<1>5. ASSUME ~(r.chain[1].kind = "finish" /\ r.chain[1].step = "release"), Releases(r)
      PROVE  Releases(q)
  <2>1. PICK i \in DOMAIN r.chain : r.chain[i].kind = "finish" /\ r.chain[i].step = "release"
    BY <1>5 DEF Releases
  <2> QED BY <1>1, <1>5, <2>1 DEF Releases
<1>6. \A s : Opens(r, s) => Opens(q, s)
  BY <1>1, <1>2 DEF Opens
<1> QED BY <1>3, <1>4, <1>5, <1>6 DEF OpensEnd, q

-----------------------------------------------------------------------------
(* What a step does to the tabs it is not of. *)

LEMMA LendsKept ==
  ASSUME TypeOK, LendingInv, NEW t \in Tabs,
         \A u \in Tabs \ {t} : /\ recorder'[u] = recorder[u] /\ phase'[u] = phase[u]
                               /\ lease' = u => lease = u,
         \A u \in Tabs \ {t}, s \in Sessions :
           RefersTo(u, s) /\ archive[s].state = "open" => archive'[s].state = "open",
         Lends(t)', LeftAlone', AllConnected'
  PROVE  LendingInv'
<1>1. ASSUME NEW u \in Tabs \ {t}
      PROVE  Lends(u)'
  <2> DEFINE s == recorder[u].session
  <2>1. Lends(u) /\ recorder'[u] = recorder[u] /\ phase'[u] = phase[u]
    BY <1>1 DEF LendingInv
  <2>2. s # NoSession => s \in Sessions /\ RefersTo(u, s)
    BY TypeFacts DEF RefersTo
  <2>3. s # NoSession /\ archive[s].state = "open" => archive'[s].state = "open"
    BY <1>1, <2>2
  <2>4. lease' = u => lease = u
    BY <1>1
  <2> QED BY <2>1, <2>3, <2>4 DEF Lends, Live, AtPut
<1>2. \A u \in Tabs : Lends(u)'
  BY <1>1
<1> QED BY <1>2 DEF LendingInv

\* A job of tab t touches no other tab's session.
LEMMA JobLends ==
  ASSUME TypeOK, LeaseDiscipline, LendingInv, NEW t \in Tabs,
         NEW kind, NEW step, AtStep(t, kind, step),
         \A u \in Tabs \ {t} : recorder'[u] = recorder[u] /\ (lease' = u => lease = u),
         UNCHANGED phase,
         \A z \in Sessions :
           z # JobSession(t) /\ archive[z].state = "open" => archive'[z].state = "open",
         Lends(t)', AllConnected'
  PROVE  LendingInv'
<1>1. RefersTo(t, JobSession(t)) /\ phase[t] # "gone"
  BY HeadFacts DEF RefersTo, AtStep
<1>2. ASSUME NEW u \in Tabs \ {t}, NEW z \in Sessions, RefersTo(u, z),
             archive[z].state = "open"
      PROVE  archive'[z].state = "open"
  <2>1. z # JobSession(t)
    BY <1>1, <1>2 DEF LeaseDiscipline, OneOwner
  <2> QED BY <1>2, <2>1
<1>3. LeftAlone'
  BY <1>1, StillAlone DEF LendingInv
<1>4. \A u \in Tabs \ {t} : /\ recorder'[u] = recorder[u] /\ phase'[u] = phase[u]
                            /\ lease' = u => lease = u
  OBVIOUS
<1> QED BY <1>2, <1>3, <1>4, LendsKept

-----------------------------------------------------------------------------
(* The calls of telemetry. *)

LEMMA CalledLends ==
  ASSUME TypeOK, TypeOK', LendingInv, NEW t \in Tabs, Live(t), Called(t)
  PROVE  LendingInv'
<1> DEFINE r == recorder[t]
           q == recorder'[t]
<1>1. /\ r \in Recorders /\ q \in Recorders
      /\ Grows(r, q) /\ Closes(r, q) /\ Lends(t)
      /\ UNCHANGED <<phase, store, lease, archive>>
      /\ \A u \in Tabs \ {t} : recorder'[u] = recorder[u]
  BY DEF Called, TypeOK, LendingInv
<1>2. ASSUME q.session # r.session, NEW i \in DOMAIN r.chain
      PROVE  r.chain[i].session # q.session
  <2>1. r.chain[i].session \in Sessions /\ RefersTo(t, r.chain[i].session)
    BY <1>1, <1>2, ChainFacts DEF RefersTo
  <2> QED BY <1>2, <2>1, SessionRecorderAssumption DEF Called, Unused
<1>3. InOrder(q)
  BY <1>1, <1>2, GrowsOrder DEF Lends
<1>4. /\ OpensFirst(q) /\ OpensEnd(q)
      /\ Releases(r) => Releases(q)
      /\ \A s : Opens(r, s) => Opens(q, s)
  BY <1>1, GrowsLends DEF Lends
<1>5. ASSUME q.session # NoSession
      PROVE  archive'[q.session].state = "open" \/ Opens(q, q.session)
  <2>1. CASE q.session = r.session
    BY <1>1, <1>4, <1>5, <2>1 DEF Lends
  <2>2. CASE q.session # r.session
    BY <1>5, <2>2 DEF Called
  <2> QED BY <2>1, <2>2
<1>6. ASSUME lease' = t
      PROVE  q.session # NoSession \/ Releases(q)
  <2>1. r.session # NoSession \/ Releases(r)
    BY <1>1, <1>6 DEF Lends, AtPut, Live
  <2> QED BY <1>1, <1>4, <2>1, ClosesReleases
<1>7. Lends(t)'
  BY <1>3, <1>4, <1>5, <1>6 DEF Lends
<1>8. LeftAlone'
  <2>1. ASSUME NEW u \in Tabs, phase'[u] # "live"
        PROVE  /\ \A v \in Tabs : v = u
               /\ phase'[u] = "gone" => recorder'[u].chain = <<>>
    <3>1. phase[u] # "live" /\ u # t
      BY <1>1, <2>1 DEF Live
    <3> QED BY <1>1, <2>1, <3>1 DEF LendingInv, LeftAlone
  <2> QED BY <2>1 DEF LeftAlone
<1>9. AllConnected'
  BY <1>1 DEF LendingInv, AllConnected, Connected
<1>10. /\ \A u \in Tabs \ {t} : /\ recorder'[u] = recorder[u] /\ phase'[u] = phase[u]
                                /\ lease' = u => lease = u
       /\ archive' = archive
  BY <1>1
<1> QED BY <1>7, <1>8, <1>9, <1>10, LendsKept

LEMMA DisposeLends ==
  ASSUME TypeOK, TypeOK', LendingInv, NEW t \in Tabs, Dispose(t),
         "leaving" \in Happenings => \A u, v \in Tabs : u = v
  PROVE  LendingInv'
<1> DEFINE r == recorder[t]
           q == recorder'[t]
           s == r.session
           f == Flush(r, memory[s])
<1>1. /\ r \in Recorders /\ Lends(t)
      /\ UNCHANGED <<store, archive>>
      /\ phase'[t] = "disposed" /\ lease' # t
      /\ \A u, v \in Tabs : u = v
  BY SessionRecorderAssumption DEF Dispose, Mishap, MayFail, TypeOK, LendingInv, Released
<1>2. InOrder(q) /\ OpensFirst(q) /\ q.session = NoSession
  <2>1. CASE s = NoSession
    <3>1. recorder' = recorder
      BY <2>1 DEF Dispose
    <3> QED BY <1>1, <2>1, <3>1 DEF Lends
  <2>2. CASE s # NoSession
    <3>1. s \in Sessions /\ memory[s] \in Memories
      BY <2>2, TypeFacts
    <3>2. f \in Recorders /\ Grows(r, f) /\ Closes(r, f) /\ f.session = s
      BY <1>1, <3>1, FlushType, FlushGrows
    <3>3. recorder' = [recorder EXCEPT ![t] = Stop(f)]
      BY <2>2 DEF Dispose
    <3> HIDE DEF f
    <3>4. q = Stop(f) /\ q.session = NoSession /\ q.chain = f.chain
      BY <3>2, <3>3, StopFields DEF TypeOK
    <3>5. InOrder(f) /\ OpensFirst(f)
      BY <1>1, <3>2, GrowsOrder, GrowsLends DEF Lends
    <3>6. InOrder(q)
      BY <3>2, <3>4, <3>5, StopOrder
    <3> QED BY <3>4, <3>5, <3>6 DEF OpensFirst
  <2> QED BY <2>1, <2>2
<1>3. Lends(t)'
  BY <1>1, <1>2 DEF Lends, Live
<1>4. LeftAlone'
  BY <1>1 DEF LeftAlone
<1>5. AllConnected'
  BY <1>1 DEF LendingInv, AllConnected, Connected
<1>6. \A u \in Tabs \ {t} : u = t
  BY <1>1
<1> QED BY <1>3, <1>4, <1>5, <1>6, LendsKept

-----------------------------------------------------------------------------
(* The jobs. *)

\* A job that is not a claim ends; what it added to the chain leaves it as b.
LEMMA EndedLends ==
  ASSUME TypeOK, LeaseDiscipline, LendingInv, NEW t \in Tabs, AllConnected',
         NEW kind, NEW step, AtStep(t, kind, step), kind # "open",
         NEW b \in Recorders, Grows(recorder[t], b), Closes(recorder[t], b),
         b.session \in {recorder[t].session, NoSession},
         recorder' = [recorder EXCEPT ![t] = Done(b)],
         UNCHANGED phase,
         \A u \in Tabs \ {t} : lease' = u => lease = u,
         lease' = t => lease = t /\ ~(kind = "finish" /\ step = "release"),
         \A z \in Sessions : archive'[z] = archive[z] \/ (kind = "finish" /\ z = JobSession(t))
  PROVE  LendingInv'
<1> DEFINE r == recorder[t]
           q == Done(b)
<1>1. /\ r \in Recorders /\ r.chain # <<>> /\ 1 \in DOMAIN r.chain /\ JobSession(t) \in Sessions
      /\ r.chain[1].kind = kind /\ r.chain[1].step = step /\ r.chain[1].session = JobSession(t)
      /\ Lends(t) /\ phase[t] # "gone"
  BY HeadFacts DEF LendingInv, AtStep
<1>2. b.session # r.session => \A i \in DOMAIN r.chain : r.chain[i].session # b.session
  BY <1>1, ChainFacts, SessionRecorderAssumption
<1>3. InOrder(b)
  BY <1>1, <1>2, GrowsOrder DEF Lends
<1>4. /\ OpensFirst(b) /\ (Live(t) => OpensEnd(b))
      /\ Releases(r) => Releases(b)
      /\ \A s : Opens(r, s) => Opens(b, s)
  BY <1>1, GrowsLends DEF Lends
<1>5. b.chain # <<>> /\ b.chain[1] = r.chain[1]
  <2>1. 1 \in DOMAIN b.chain /\ b.chain[1] = r.chain[1]
    BY <1>1 DEF Grows
  <2> QED BY <2>1
<1>6. InOrder(q) /\ q.session = b.session
  BY <1>3, <1>5, DoneOrder, StepFields
<1>7. /\ OpensFirst(q) /\ (Live(t) => OpensEnd(q))
      /\ ~(kind = "finish" /\ step = "release") /\ Releases(b) => Releases(q)
      /\ \A s : Opens(b, s) => Opens(q, s)
  <2>1. OpensEnd(b) => OpensEndBehind(b)
    BY DEF OpensEnd, OpensEndBehind
  <2> QED BY <1>1, <1>4, <1>5, <2>1, DoneLends
<1> HIDE DEF q
<1>8. recorder'[t] = q /\ \A u \in Tabs \ {t} : recorder'[u] = recorder[u]
  BY DEF TypeOK, q
<1>9. ASSUME q.session # NoSession
      PROVE  archive'[q.session].state = "open" \/ Opens(q, q.session)
  <2> DEFINE s == q.session
  <2>1. s = r.session /\ s \in Sessions
    BY <1>6, <1>9, TypeFacts
  <2>2. kind = "finish" => JobSession(t) # s
    BY <1>1, <2>1 DEF Lends, InOrder
  <2>3. archive'[s] = archive[s]
    BY <2>1, <2>2
  <2> QED BY <1>1, <1>4, <1>7, <1>9, <2>1, <2>3 DEF Lends
<1>10. ASSUME lease' = t
       PROVE  q.session # NoSession \/ Releases(q)
  <2>1. r.session # NoSession \/ Releases(r)
    BY <1>1, <1>10 DEF Lends, AtPut
  <2>2. b.session # NoSession \/ Releases(b)
    BY <1>4, <2>1, ClosesReleases
  <2> QED BY <1>6, <1>7, <1>10, <2>2
<1>11. Lends(t)'
  BY <1>6, <1>7, <1>8, <1>9, <1>10 DEF Lends, Live
<1>12. /\ \A u \in Tabs \ {t} : recorder'[u] = recorder[u] /\ (lease' = u => lease = u)
       /\ \A z \in Sessions : z # JobSession(t) => archive'[z] = archive[z]
  BY <1>8
<1> QED BY <1>11, <1>12, JobLends

\* A job that is not a claim goes on.
LEMMA SteppedLends ==
  ASSUME TypeOK, LeaseDiscipline, LendingInv, NEW t \in Tabs, AllConnected',
         NEW kind, NEW step, AtStep(t, kind, step), kind # "open",
         NEW b \in Recorders, b.chain = recorder[t].chain, b.session = recorder[t].session,
         NEW next \in Steps, recorder' = [recorder EXCEPT ![t] = Step(b, next)],
         UNCHANGED phase,
         \A u \in Tabs \ {t} : lease' = u => lease = u,
         lease' = t => lease = t /\ ~(kind = "finish" /\ step = "release"),
         \A z \in Sessions : archive[z].state = "open" => archive'[z].state = "open"
  PROVE  LendingInv'
<1> DEFINE r == recorder[t]
           q == Step(b, next)
<1>1. /\ r \in Recorders /\ r.chain # <<>>
      /\ r.chain[1].kind = kind /\ r.chain[1].step = step
      /\ Lends(t) /\ phase[t] # "gone"
  BY HeadFacts DEF LendingInv, AtStep
<1>2. /\ b.chain # <<>> /\ b.chain[1] = r.chain[1]
      /\ InOrder(b) /\ OpensFirst(b) /\ (Live(t) => OpensEnd(b))
      /\ Releases(r) => Releases(b)
      /\ \A s : Opens(r, s) => Opens(b, s)
  <2>1. /\ InOrder(r) /\ OpensFirst(r) /\ (Live(t) => OpensEnd(r))
        /\ b.chain = r.chain /\ b.session = r.session
    BY <1>1 DEF Lends
  <2> HIDE DEF r
  <2>2. InOrder(b)
    BY <1>1, <2>1, StopOrder
  <2>3. OpensFirst(b)
    BY <2>1 DEF OpensFirst
  <2>4. Live(t) => OpensEnd(b)
    BY <2>1 DEF OpensEnd, ClosesAfter
  <2>5. (Releases(r) => Releases(b)) /\ \A s : Opens(r, s) => Opens(b, s)
    BY <2>1 DEF Releases, Opens
  <2> QED BY <1>1, <2>1, <2>2, <2>3, <2>4, <2>5
<1>3. InOrder(q) /\ q.session = b.session
  BY <1>2, StepOrder, StepFields
<1>4. /\ OpensFirst(q) /\ (Live(t) => OpensEnd(q))
      /\ ~(kind = "finish" /\ step = "release") /\ Releases(b) => Releases(q)
      /\ \A s : Opens(b, s) => Opens(q, s)
  BY <1>1, <1>2, StepLends
<1> HIDE DEF q
<1>5. recorder'[t] = q /\ \A u \in Tabs \ {t} : recorder'[u] = recorder[u]
  BY DEF TypeOK, q
<1>6. ASSUME q.session # NoSession
      PROVE  archive'[q.session].state = "open" \/ Opens(q, q.session)
  <2>1. q.session = r.session /\ q.session \in Sessions
    BY <1>3, <1>6, TypeFacts
  <2> QED BY <1>1, <1>2, <1>4, <1>6, <2>1 DEF Lends
<1>7. ASSUME lease' = t
      PROVE  q.session # NoSession \/ Releases(q)
  <2>1. r.session # NoSession \/ Releases(r)
    BY <1>1, <1>7 DEF Lends, AtPut
  <2> QED BY <1>2, <1>3, <1>4, <1>7, <2>1
<1>8. Lends(t)'
  BY <1>3, <1>4, <1>5, <1>6, <1>7 DEF Lends, Live
<1>9. \A u \in Tabs \ {t} : recorder'[u] = recorder[u] /\ (lease' = u => lease = u)
  BY <1>5
<1> QED BY <1>8, <1>9, JobLends

LEMMA WriteSteps ==
  ASSUME NEW t \in Tabs, NEW b, NEW m, WriteEnds(t, b) \/ WritePending(t, b, m)
  PROVE  \E next \in Steps : recorder' = [recorder EXCEPT ![t] = Step(b, next)]
<1>1. {"commit", "loop", "close"} \subseteq Steps
  BY DEF Steps
<1>2. \E next \in {"commit", "loop", "close"} : recorder' = [recorder EXCEPT ![t] = Step(b, next)]
  BY DEF WriteEnds, WritePending, WriteOn
<1> QED BY <1>1, <1>2

LEMMA EndedJobLends ==
  ASSUME TypeOK, LeaseDiscipline, LendingInv, NEW t \in Tabs, AllConnected',
         UpsertDevice(t) \/ FlushEnds(t) \/ DeleteShort(t) \/ CloseSession(t)
  PROVE  LendingInv'
<1> DEFINE r == recorder[t]
           s == JobSession(t)
<1>1. PICK kind, step : /\ AtStep(t, kind, step) /\ kind # "open" /\ step # "release"
                        /\ archive' = archive \/ kind = "finish"
  BY DEF UpsertDevice, FlushEnds, DeleteShort, CloseSession, Elsewhere
<1>2. r \in Recorders /\ s \in Sessions
  BY <1>1, HeadFacts
<1>3. /\ recorder' = [recorder EXCEPT ![t] = Done(r)]
      /\ UNCHANGED <<phase, lease>>
  BY DEF UpsertDevice, FlushEnds, DeleteShort, CloseSession, Elsewhere
<1>4. Grows(r, r) /\ Closes(r, r)
  BY GrowsSame DEF Closes
<1>5. \A z \in Sessions : z # s => archive'[z] = archive[z]
  BY <1>2, ArchiveFacts DEF UpsertDevice, FlushEnds, DeleteShort, Removed, Leaves, CloseSession, Elsewhere
<1>6. /\ \A z \in Sessions : archive'[z] = archive[z] \/ (kind = "finish" /\ z = s)
      /\ \A u \in Tabs \ {t} : lease' = u => lease = u
      /\ lease' = t => lease = t /\ ~(kind = "finish" /\ step = "release")
      /\ r.session \in {r.session, NoSession}
      /\ UNCHANGED phase
  BY <1>1, <1>3, <1>5
<1> QED BY <1>1, <1>2, <1>3, <1>4, <1>6, EndedLends

\* A warning filed may end the session, if the tab hears that the archive is back.
LEMMA AppendWarningLends ==
  ASSUME TypeOK, LeaseDiscipline, LendingInv, NEW t \in Tabs, AllConnected', AppendWarning(t)
  PROVE  LendingInv'
<1> DEFINE r == recorder[t]
           usable == TRUE
           a == FollowArchive([r EXCEPT !.announced = TRUE], usable)
           kind == "warning"
           step == "append"
<1>1. AtStep(t, kind, step) /\ r \in Recorders /\ kind # "open" /\ kind # "finish"
  BY HeadFacts DEF AppendWarning
<1>2. /\ \/ recorder' = [recorder EXCEPT ![t] = Done(a)]
         \/ recorder' = [recorder EXCEPT ![t] = Done(r)]
      /\ UNCHANGED <<phase, lease, archive>>
  BY DEF AppendWarning
<1>3. usable \in BOOLEAN
  OBVIOUS
<1> HIDE DEF usable, kind, step
<1>4. a \in Recorders /\ Grows(r, a) /\ Closes(r, a) /\ a.session \in {r.session, NoSession}
  BY <1>1, <1>3, AnnouncedGrows
<1> HIDE DEF a
<1>5. Grows(r, r) /\ Closes(r, r) /\ r.session \in {r.session, NoSession}
  BY GrowsSame DEF Closes
<1>6. PICK b \in Recorders :
        /\ Grows(r, b) /\ Closes(r, b) /\ b.session \in {r.session, NoSession}
        /\ recorder' = [recorder EXCEPT ![t] = Done(b)]
  BY <1>1, <1>2, <1>4, <1>5
<1>7. /\ \A z \in Sessions : archive'[z] = archive[z] \/ (kind = "finish" /\ z = JobSession(t))
      /\ \A u \in Tabs \ {t} : lease' = u => lease = u
      /\ lease' = t => lease = t /\ ~(kind = "finish" /\ step = "release")
      /\ UNCHANGED phase
  BY <1>1, <1>2
<1> QED BY <1>1, <1>6, <1>7, EndedLends

\* The job of finish gives the lease back, whatever comes of the rest.
LEMMA FinishReleaseLends ==
  ASSUME TypeOK, LeaseDiscipline, LendingInv, NEW t \in Tabs, AllConnected', FinishRelease(t)
  PROVE  LendingInv'
<1> DEFINE r == recorder[t]
           m == memory[JobSession(t)]
           kind == "finish"
           step == "release"
           after == "delete"
<1>1. AtStep(t, kind, step) /\ r \in Recorders /\ kind # "open" /\ after \in Steps
  BY HeadFacts DEF FinishRelease, Steps
<1>2. \/ recorder' = [recorder EXCEPT ![t] = Done(r)]
      \/ recorder' = [recorder EXCEPT ![t] = Step(r, after)]
      \/ WritePending(t, r, m) \/ WriteEnds(t, r)
  BY DEF FinishRelease
<1>3. UNCHANGED <<phase, archive>> /\ lease' # t /\ (lease' = lease \/ lease' = NoTab)
  BY SessionRecorderAssumption DEF FinishRelease, Released
<1> HIDE DEF kind, step, after, m
<1>4. /\ UNCHANGED phase
      /\ \A u \in Tabs \ {t} : lease' = u => lease = u
      /\ lease' = t => lease = t /\ ~(kind = "finish" /\ step = "release")
      /\ \A z \in Sessions : archive'[z] = archive[z]
  BY <1>3, SessionRecorderAssumption
<1>5. CASE recorder' = [recorder EXCEPT ![t] = Done(r)]
  <2>1. Grows(r, r) /\ Closes(r, r) /\ r.session \in {r.session, NoSession}
    BY GrowsSame DEF Closes
  <2> QED BY <1>1, <1>4, <1>5, <2>1, EndedLends
<1>6. ASSUME NEW next \in Steps, recorder' = [recorder EXCEPT ![t] = Step(r, next)]
      PROVE  LendingInv'
  <2>1. r.chain = recorder[t].chain /\ r.session = recorder[t].session
    OBVIOUS
  <2> QED BY <1>1, <1>4, <1>6, <2>1, SteppedLends
<1>7. CASE WritePending(t, r, m) \/ WriteEnds(t, r)
  BY <1>6, <1>7, WriteSteps
<1> QED BY <1>1, <1>2, <1>5, <1>6, <1>7

-----------------------------------------------------------------------------
(* The jobs that write. *)

LEMMA FlushPendingLends ==
  ASSUME TypeOK, LeaseDiscipline, LendingInv, NEW t \in Tabs, AllConnected', FlushPending(t)
  PROVE  LendingInv'
<1> DEFINE r == recorder[t]
           m == [memory[JobSession(t)] EXCEPT !.requested = FALSE]
           kind == "flush"
           step == "loop"
<1>1. AtStep(t, kind, step) /\ r \in Recorders /\ kind # "open" /\ kind # "finish"
  BY HeadFacts DEF FlushPending
<1>2. /\ WritePending(t, r, m) \/ WriteEnds(t, r)
      /\ UNCHANGED <<phase, lease, archive>>
  BY DEF FlushPending
<1> HIDE DEF kind, step, m
<1>3. PICK next \in Steps : recorder' = [recorder EXCEPT ![t] = Step(r, next)]
  BY <1>2, WriteSteps
<1>4. /\ UNCHANGED phase
      /\ \A u \in Tabs \ {t} : lease' = u => lease = u
      /\ lease' = t => lease = t /\ ~(kind = "finish" /\ step = "release")
      /\ \A z \in Sessions : archive'[z] = archive[z]
      /\ r.chain = recorder[t].chain /\ r.session = recorder[t].session
  BY <1>1, <1>2
<1> QED BY <1>1, <1>3, <1>4, SteppedLends

LEMMA CommitStoredLends ==
  ASSUME TypeOK, LeaseDiscipline, LendingInv, NEW t \in Tabs, AllConnected', CommitStored(t)
  PROVE  LendingInv'
<1> DEFINE r == recorder[t]
           s == JobSession(t)
           c == inflight[t]
           m == IF c.head THEN [memory[s] EXCEPT !.pending = Shift(@)] ELSE memory[s]
           step == "commit"
<1>1. PICK kind \in {"flush", "finish"} : AtStep(t, kind, step)
  BY DEF CommitStored, InCommit
<1>2. r \in Recorders /\ s \in Sessions /\ kind # "open" /\ step # "release"
  BY <1>1, HeadFacts
<1>3. /\ WritePending(t, r, m) \/ WriteEnds(t, r)
      /\ UNCHANGED <<phase, lease>>
  BY DEF CommitStored
<1>4. \A z \in Sessions : archive[z].state = "open" => archive'[z].state = "open"
  BY CommitStaysOpen
<1> HIDE DEF m, step
<1>5. PICK next \in Steps : recorder' = [recorder EXCEPT ![t] = Step(r, next)]
  BY <1>3, WriteSteps
<1>7. /\ UNCHANGED phase
      /\ \A u \in Tabs \ {t} : lease' = u => lease = u
      /\ lease' = t => lease = t /\ ~(kind = "finish" /\ step = "release")
      /\ r.chain = recorder[t].chain /\ r.session = recorder[t].session
  BY <1>2, <1>3
<1> QED BY <1>1, <1>2, <1>4, <1>5, <1>7, SteppedLends

LEMMA PruneLends ==
  ASSUME TypeOK, LendingInv, NEW t \in Tabs, AllConnected', PruneToBudget(t)
  PROVE  LendingInv'
<1>1. UNCHANGED <<phase, recorder, lease>>
  BY DEF PruneToBudget
<1>2. \A z \in Sessions : archive[z].state = "open" => archive'[z].state = "open"
  BY PruneFacts DEF Spared, Evicted, Settled
<1>3. LeftAlone'
  BY <1>1 DEF LendingInv, LeftAlone
<1>4. ASSUME NEW u \in Tabs
      PROVE  Lends(u)'
  <2>1. Lends(u) /\ (recorder[u].session # NoSession => recorder[u].session \in Sessions)
    BY TypeFacts DEF LendingInv
  <2> QED BY <1>1, <1>2, <2>1 DEF Lends, Live, AtPut
<1> QED BY <1>3, <1>4 DEF LendingInv

\* A session that stands has its row, or its claim is still ahead: the one whose
\* row is gone stands no more.
LEMMA CommitLostLends ==
  ASSUME TypeOK, LeaseDiscipline, LendingInv, NEW t \in Tabs, AllConnected', CommitLost(t),
         "aborted" \notin Happenings
  PROVE  LendingInv'
<1> DEFINE r == recorder[t]
           s == JobSession(t)
           step == "commit"
<1>1. PICK kind \in {"flush", "finish"} : AtStep(t, kind, step)
  BY DEF CommitLost, InCommit
<1>2. /\ r \in Recorders /\ s \in Sessions /\ s # NoSession
      /\ 1 \in DOMAIN r.chain /\ r.chain[1].session = s /\ r.chain[1].kind = kind
      /\ kind # "open" /\ step # "release" /\ Lends(t)
  BY <1>1, HeadFacts, SessionRecorderAssumption DEF LendingInv
<1>3. archive[s].state # "open"
  BY DEF CommitLost, MayFail, LendingInv, AllConnected
<1>4. r.session # s
  <2>1. SUFFICES ASSUME r.session = s
                 PROVE  FALSE
    OBVIOUS
  <2>2. Opens(r, s)
    BY <1>2, <1>3, <2>1 DEF Lends
  <2>3. PICK i \in DOMAIN r.chain : r.chain[i].kind = "open" /\ r.chain[i].session = s
    BY <2>2 DEF Opens
  <2>4. i <= 1 /\ i >= 1 /\ i \in Int
    BY <1>2, <2>3, ChainFacts DEF Lends, OpensFirst
  <2>5. i = 1
    BY <2>4
  <2> QED BY <1>2, <2>3, <2>5
<1>5. WriteEnds(t, r) /\ UNCHANGED <<phase, lease, archive>>
  BY <1>4 DEF CommitLost, AbandonLostSession
<1> HIDE DEF step
<1>6. PICK next \in Steps : recorder' = [recorder EXCEPT ![t] = Step(r, next)]
  BY <1>5, WriteSteps
<1>7. /\ UNCHANGED phase
      /\ \A u \in Tabs \ {t} : lease' = u => lease = u
      /\ lease' = t => lease = t /\ ~(kind = "finish" /\ step = "release")
      /\ \A z \in Sessions : archive'[z] = archive[z]
      /\ r.chain = recorder[t].chain /\ r.session = recorder[t].session
  BY <1>2, <1>5
<1> QED BY <1>1, <1>2, <1>6, <1>7, SteppedLends

LEMMA CommitRefusedLends ==
  ASSUME TypeOK, LeaseDiscipline, LendingInv, NEW t \in Tabs, AllConnected', CommitRefused(t)
  PROVE  LendingInv'
<1> DEFINE r == recorder[t]
           step == "commit"
<1>1. PICK kind \in {"flush", "finish"} : AtStep(t, kind, step)
  BY DEF CommitRefused, InCommit
<1>2. r \in Recorders /\ r.chain # <<>> /\ kind # "open" /\ step # "release"
  BY <1>1, HeadFacts
<1>3. PICK latching \in BOOLEAN :
        \E m : \/ WriteEnds(t, RefusedRecorder(t, latching))
               \/ WritePending(t, RefusedRecorder(t, latching), m)
  BY DEF CommitRefused
<1> DEFINE b == RefusedRecorder(t, latching)
<1>4. b \in Recorders /\ b.chain = r.chain /\ b.session = r.session
  BY <1>2, RefusedRecorderType, RefusedChain
<1> HIDE DEF b, step
<1>5. PICK next \in Steps : recorder' = [recorder EXCEPT ![t] = Step(b, next)]
  BY <1>3, WriteSteps DEF b
<1>6. UNCHANGED <<phase, lease, archive>>
  BY DEF CommitRefused
<1>7. /\ UNCHANGED phase
      /\ \A u \in Tabs \ {t} : lease' = u => lease = u
      /\ lease' = t => lease = t /\ ~(kind = "finish" /\ step = "release")
      /\ \A z \in Sessions : archive'[z] = archive[z]
  BY <1>2, <1>6
<1> QED BY <1>1, <1>2, <1>4, <1>5, <1>7, SteppedLends

-----------------------------------------------------------------------------
(* The claims. *)

\* Who takes the lease has a session that stands, or its closing to come - or
\* is left, and gives it back when the row is put.
LEMMA ClaimGrantedLends ==
  ASSUME TypeOK, LeaseDiscipline, LendingInv, NEW t \in Tabs, AllConnected', ClaimGranted(t)
  PROVE  LendingInv'
<1> DEFINE r == recorder[t]
           s == JobSession(t)
           step == "put"
           b == Step(r, step)
           q == [b EXCEPT !.refusal = "none", !.announced = FALSE]
<1>1. /\ AtStep(t, "open", "claim") /\ r \in Recorders /\ s \in Sessions /\ s # NoSession
      /\ r.chain # <<>> /\ 1 \in DOMAIN r.chain /\ r.chain[1].session = s
      /\ r.chain[1].kind = "open" /\ step \in Steps /\ Lends(t)
  BY HeadFacts, SessionRecorderAssumption DEF ClaimGranted, Steps, LendingInv
<1>2. /\ recorder' = [recorder EXCEPT ![t] = q]
      /\ lease' = t /\ UNCHANGED <<phase, archive>>
  BY DEF ClaimGranted
<1>3. step = "put"
  OBVIOUS
<1> HIDE DEF step
<1>4. /\ b \in Recorders /\ b.chain # <<>> /\ b.session = r.session /\ InOrder(b)
      /\ b.chain[1].kind = "open" /\ b.chain[1].step = step
  BY <1>1, StepType, StepFields, StepOrder DEF Lends
<1>5. /\ OpensFirst(b) /\ (Live(t) => OpensEnd(b))
      /\ Releases(r) => Releases(b)
      /\ \A z : Opens(r, z) => Opens(b, z)
  BY <1>1, StepLends DEF Lends
<1> HIDE DEF b
<1>6. q.chain = b.chain /\ q.session = b.session
  BY <1>4 DEF Recorders
<1> HIDE DEF q
<1>7. /\ InOrder(q) /\ OpensFirst(q) /\ (Live(t) => OpensEnd(q))
      /\ Releases(r) => Releases(q)
      /\ \A z : Opens(r, z) => Opens(q, z)
  BY <1>4, <1>5, <1>6, StopOrder DEF OpensFirst, OpensEnd, ClosesAfter, Releases, Opens
<1>8. recorder'[t] = q /\ \A u \in Tabs \ {t} : recorder'[u] = recorder[u]
  BY <1>2 DEF TypeOK
<1>9. q.session # NoSession \/ Releases(q) \/ AtPut(t)'
  <2>1. CASE Live(t)
    <3>1. r.session = s \/ ClosesAfter(r, 1, s)
      BY <1>1, <2>1 DEF Lends, OpensEnd
    <3>2. ClosesAfter(r, 1, s) => Releases(r)
      BY FinishFields DEF ClosesAfter, Releases
    <3> QED BY <1>1, <1>4, <1>6, <1>7, <3>1, <3>2
  <2>2. CASE ~Live(t)
    <3>1. phase'[t] = "disposed"
      BY <1>1, <1>2, <2>2 DEF AtStep, Live, TypeOK
    <3> QED BY <1>3, <1>4, <1>6, <1>8, <3>1 DEF AtPut
  <2> QED BY <2>1, <2>2
<1>10. q.session # NoSession => archive'[q.session].state = "open" \/ Opens(q, q.session)
  BY <1>1, <1>2, <1>4, <1>6, <1>7 DEF Lends
<1>11. Lends(t)'
  BY <1>2, <1>7, <1>8, <1>9, <1>10 DEF Lends, Live
<1>12. /\ \A u \in Tabs \ {t} : recorder'[u] = recorder[u] /\ (lease' = u => lease = u)
       /\ \A z \in Sessions : z # s => archive'[z] = archive[z]
       /\ UNCHANGED phase
  BY <1>2, <1>8
<1> QED BY <1>1, <1>11, <1>12, JobLends

\* Who is refused the lease does not have it.
LEMMA ClaimRefusedLends ==
  ASSUME TypeOK, LeaseDiscipline, LendingInv, NEW t \in Tabs, AllConnected', ClaimRefused(t)
  PROVE  LendingInv'
<1> DEFINE r == recorder[t]
           s == JobSession(t)
           b == StandDown(r, s)
           q == Done(b)
<1>1. /\ AtStep(t, "open", "claim") /\ r \in Recorders /\ s \in Sessions
      /\ r.chain # <<>> /\ 1 \in DOMAIN r.chain /\ r.chain[1].session = s
      /\ r.chain[1].kind = "open" /\ Lends(t)
  BY HeadFacts DEF ClaimRefused, LendingInv
<1>2. /\ recorder' = [recorder EXCEPT ![t] = q]
      /\ lease' = lease /\ lease # t /\ UNCHANGED <<phase, archive>>
  BY DEF ClaimRefused
<1>3. /\ b \in Recorders /\ b.chain = r.chain
      /\ b.session = IF r.session = s THEN NoSession ELSE r.session
  <2>1. b \in Recorders
    BY <1>1, StandDownType
  <2> QED BY <1>1, <2>1 DEF StandDown, Stop, Recorders
<1> HIDE DEF b
<1>4. /\ InOrder(b) /\ OpensFirst(b)
      /\ \A z : Opens(r, z) => Opens(b, z)
  <2>1. InOrder(b)
    BY <1>1, <1>3, StopOrder DEF Lends
  <2> QED BY <1>1, <1>3, <2>1 DEF Lends, OpensFirst, Opens
<1>5. ASSUME Live(t), NEW i \in DOMAIN b.chain, i # 1, b.chain[i].kind = "open"
      PROVE  b.session = b.chain[i].session \/ ClosesAfter(b, i, b.chain[i].session)
  <2>1. r.chain[i].session # s
    BY <1>1, <1>3, <1>5 DEF LeaseDiscipline, OneOpenJob
  <2>2. r.session = r.chain[i].session \/ ClosesAfter(r, i, r.chain[i].session)
    BY <1>1, <1>3, <1>5 DEF Lends, OpensEnd
  <2> QED BY <1>3, <2>1, <2>2 DEF ClosesAfter
<1>6. Live(t) => OpensEndBehind(b)
  BY <1>5 DEF OpensEndBehind
<1>7. b.chain # <<>> /\ b.chain[1].kind = "open" /\ b.chain[1].session = s
  BY <1>1, <1>3
<1>8. InOrder(q) /\ q.session = b.session
  BY <1>3, <1>4, <1>7, DoneOrder, StepFields
<1>9. /\ OpensFirst(q) /\ (Live(t) => OpensEnd(q))
      /\ \A z : Opens(b, z) => Opens(q, z) \/ z = s
  BY <1>3, <1>4, <1>6, <1>7, DoneLends
<1> HIDE DEF q
<1>10. recorder'[t] = q /\ \A u \in Tabs \ {t} : recorder'[u] = recorder[u]
  BY <1>2 DEF TypeOK
<1>11. ASSUME q.session # NoSession
       PROVE  archive'[q.session].state = "open" \/ Opens(q, q.session)
  <2>1. q.session = r.session /\ q.session # s
    BY <1>3, <1>8, <1>11
  <2> QED BY <1>1, <1>2, <1>4, <1>9, <1>11, <2>1 DEF Lends
<1>12. Lends(t)'
  BY <1>2, <1>8, <1>9, <1>10, <1>11 DEF Lends, Live
<1>13. /\ \A u \in Tabs \ {t} : recorder'[u] = recorder[u] /\ (lease' = u => lease = u)
       /\ \A z \in Sessions : z # s => archive'[z] = archive[z]
       /\ UNCHANGED phase
  BY <1>2, <1>10
<1> QED BY <1>1, <1>12, <1>13, JobLends

\* The row is put: the session stands, or its closing waits.
LEMMA PutSessionLends ==
  ASSUME TypeOK, LeaseDiscipline, LendingInv, NEW t \in Tabs, AllConnected', PutSession(t)
  PROVE  LendingInv'
<1> DEFINE r == recorder[t]
           s == JobSession(t)
           q == Done(r)
           row == [Absent EXCEPT !.state = "open"]
<1>1. /\ AtStep(t, "open", "put") /\ r \in Recorders /\ s \in Sessions /\ s # NoSession
      /\ r.chain # <<>> /\ 1 \in DOMAIN r.chain /\ r.chain[1].session = s
      /\ r.chain[1].kind = "open" /\ Lends(t) /\ Connected(t)
  BY HeadFacts, SessionRecorderAssumption DEF PutSession, LendingInv, AllConnected
<1>2. /\ recorder' = [recorder EXCEPT ![t] = q]
      /\ archive' = [archive EXCEPT ![s] = row]
      /\ lease' = t => lease = t /\ phase[t] # "disposed"
      /\ \A u \in Tabs \ {t} : lease' = u => lease = u
      /\ UNCHANGED phase
  BY <1>1, SessionRecorderAssumption DEF PutSession, Released
<1>3. row.state = "open"
  BY DEF Absent
<1> HIDE DEF row
<1>4. archive'[s] = row /\ \A z \in Sessions : z # s => archive'[z] = archive[z]
  BY <1>1, <1>2, ArchiveFacts
<1>5. InOrder(q) /\ q.session = r.session
  BY <1>1, DoneOrder, StepFields DEF Lends
<1>6. /\ OpensFirst(q) /\ (OpensEnd(r) => OpensEnd(q))
      /\ ClosesAfter(r, 1, s) => Releases(q)
      /\ \A z : Opens(r, z) => Opens(q, z) \/ z = s
  <2>1. OpensEnd(r) => OpensEndBehind(r)
    BY DEF OpensEnd, OpensEndBehind
  <2> QED BY <1>1, <2>1, DoneLends DEF Lends
<1> HIDE DEF q
<1>7. recorder'[t] = q /\ \A u \in Tabs \ {t} : recorder'[u] = recorder[u]
  BY <1>2 DEF TypeOK
<1>8. ASSUME q.session # NoSession
      PROVE  archive'[q.session].state = "open" \/ Opens(q, q.session)
  <2>1. q.session = r.session /\ q.session \in Sessions
    BY <1>5, <1>8, TypeFacts
  <2>2. CASE q.session = s
    BY <1>3, <1>4, <2>2
  <2>3. CASE q.session # s
    BY <1>1, <1>4, <1>6, <1>8, <2>1, <2>3 DEF Lends
  <2> QED BY <2>2, <2>3
<1>9. ASSUME lease' = t
      PROVE  q.session # NoSession \/ Releases(q)
  <2>1. Live(t)
    BY <1>1, <1>2, <1>9 DEF AtStep, Live, TypeOK
  <2>2. r.session = s \/ ClosesAfter(r, 1, s)
    BY <1>1, <2>1 DEF Lends, OpensEnd
  <2> QED BY <1>1, <1>5, <1>6, <2>2
<1>10. Lends(t)'
  BY <1>1, <1>2, <1>5, <1>6, <1>7, <1>8, <1>9 DEF Lends, Live
<1> QED BY <1>1, <1>2, <1>4, <1>7, <1>10, JobLends

LEMMA JobStepLends ==
  ASSUME TypeOK, LeaseDiscipline, LendingInv, NEW t \in Tabs, AllConnected', JobStep(t),
         {"aborted", "throwing"} \cap Happenings = {}
  PROVE  LendingInv'
<1>1. ~JobThrows(t) /\ "aborted" \notin Happenings
  BY DEF JobThrows, Mishap, MayFail
<1> QED BY <1>1, ClaimGrantedLends, ClaimRefusedLends, PutSessionLends, EndedJobLends,
           AppendWarningLends, FlushPendingLends, FinishReleaseLends, CommitStoredLends,
           CommitLostLends, CommitRefusedLends, PruneLends
        DEF JobStep

-----------------------------------------------------------------------------
(* The environment. *)

LEMMA EnvironmentLends ==
  ASSUME TypeOK, LeaseDiscipline, LendingInv, NEW t \in Tabs, AllConnected', Environment(t),
         {"closing", "deleting"} \cap Happenings = {},
         "leaving" \in Happenings => \A u, v \in Tabs : u = v
  PROVE  LendingInv'
<1>1. CASE Resume(t) \/ Silence(t) \/ SwapStore(t) \/ SwapBack(t)
  <2>1. UNCHANGED <<phase, recorder, lease, archive>>
    BY <1>1 DEF Resume, Silence, SwapStore, SwapBack
  <2> QED BY <2>1 DEF LendingInv, Lends, Live, AtPut, LeftAlone
<1>2. CASE ClosePage(t)
  <2>1. \A u \in Tabs : u = t
    BY <1>2 DEF ClosePage, Live, Mishap, MayFail, LendingInv, LeftAlone
  <2>2. recorder'[t] = IdleRecorder /\ lease' # t /\ phase'[t] = "gone"
    BY <1>2, SessionRecorderAssumption DEF ClosePage, TypeOK
  <2>3. IdleRecorder.session = NoSession /\ DOMAIN IdleRecorder.chain = {}
        /\ IdleRecorder.chain = <<>>
    BY DEF IdleRecorder
  <2>4. InOrder(recorder'[t]) /\ OpensFirst(recorder'[t])
    BY <2>2, <2>3 DEF InOrder, OpensFirst
  <2>5. Lends(t)'
    BY <2>2, <2>3, <2>4 DEF Lends, Live
  <2>6. LeftAlone'
    BY <2>1, <2>2, <2>3 DEF LeftAlone
  <2> QED BY <2>1, <2>5, <2>6 DEF LendingInv
<1>3. CASE OpenPage(t)
  <2>1. /\ phase[t] = "gone" /\ recorder[t].chain = <<>> /\ \A u \in Tabs : u = t
        /\ Lends(t)
    BY <1>3 DEF OpenPage, LendingInv, LeftAlone
  <2>2. recorder[t].session = NoSession /\ DOMAIN recorder[t].chain = {}
    BY <2>1 DEF LeaseDiscipline, OnlyLiveTabsHaveSessions, Live
  <2>3. lease # t
    BY <2>1, <2>2 DEF Lends, Releases, AtPut
  <2>4. UNCHANGED <<recorder, lease>> /\ phase'[t] = "live"
    BY <1>3 DEF OpenPage, TypeOK
  <2>5. OpensEnd(recorder'[t])
    BY <2>2, <2>4 DEF OpensEnd
  <2>6. Lends(t)'
    BY <2>1, <2>2, <2>3, <2>4, <2>5 DEF Lends
  <2>7. LeftAlone'
    BY <2>1, <2>4 DEF LeftAlone
  <2> QED BY <2>1, <2>6, <2>7 DEF LendingInv
<1>4. ~StandDownStore(t) /\ \A s \in Sessions : ~DeleteSession(t, s)
  BY DEF StandDownStore, DeleteSession, Mishap, MayFail
<1> QED BY <1>1, <1>2, <1>3, <1>4 DEF Environment

-----------------------------------------------------------------------------
(* The theorem. *)

LEMMA InitLending == Init => LendingInv
<1> SUFFICES ASSUME Init
             PROVE  LendingInv
  OBVIOUS
<1>1. \A t \in Tabs : recorder[t].session = NoSession /\ DOMAIN recorder[t].chain = {}
  <2>1. IdleRecorder.session = NoSession /\ DOMAIN IdleRecorder.chain = {}
    BY DEF IdleRecorder
  <2>2. \A t \in Tabs : recorder[t] = IdleRecorder
    BY DEF Init
  <2> QED BY <2>1, <2>2
<1>2. \A t \in Tabs : InOrder(recorder[t]) /\ OpensFirst(recorder[t]) /\ OpensEnd(recorder[t])
  BY <1>1 DEF InOrder, OpensFirst, OpensEnd
<1>3. \A t \in Tabs : Lends(t)
  BY <1>1, <1>2, SessionRecorderAssumption DEF Lends, Init
<1>4. LeftAlone /\ AllConnected
  BY DEF Init, LeftAlone, AllConnected, Connected
<1> QED BY <1>3, <1>4 DEF LendingInv

LEMMA NextLending ==
  ASSUME TypeOK, LeaseDiscipline, LendingInv, [Next]_vars,
         {"aborted", "throwing", "closing", "deleting"} \cap Happenings = {},
         "leaving" \in Happenings => \A t, u \in Tabs : t = u
  PROVE  LendingInv'
<1>1. TypeOK'
  BY NextType
<1>2. AllConnected'
  BY ConnectedStays DEF LendingInv
<1>3. CASE UNCHANGED vars
  BY <1>2, <1>3 DEF vars, LendingInv, Lends, Live, AtPut, LeftAlone
<1>4. ASSUME NEW t \in Tabs, TabStep(t)
      PROVE  LendingInv'
  <2>1. CASE JobStep(t)
    BY <1>2, <2>1, JobStepLends
  <2>2. CASE Dispose(t)
    BY <1>1, <2>2, DisposeLends
  <2>3. CASE ~JobStep(t) /\ ~Dispose(t)
    <3>1. Called(t) /\ Live(t)
      BY <1>4, <2>3, CallsAreCalled, CallsAreLive
    <3> QED BY <1>1, <3>1, CalledLends
  <2> QED BY <2>1, <2>2, <2>3
<1>5. ASSUME NEW t \in Tabs, Environment(t)
      PROVE  LendingInv'
  BY <1>2, <1>5, EnvironmentLends
<1> QED BY <1>3, <1>4, <1>5 DEF Next

LEMMA LentIsUsed ==
  ASSUME LendingInv, LeaseDiscipline
  PROVE  IdleTabHoldsNoLease
<1>1. ASSUME NEW t \in Tabs, lease = t
      PROVE  /\ phase[t] # "gone"
             /\ recorder[t].session # NoSession \/ recorder[t].chain # <<>>
  <2>1. recorder[t].session # NoSession \/ recorder[t].chain # <<>>
    BY <1>1 DEF LendingInv, Lends, Releases, AtPut
  <2>2. phase[t] # "gone"
    BY <2>1 DEF LendingInv, LeftAlone, LeaseDiscipline, OnlyLiveTabsHaveSessions, Live
  <2> QED BY <2>1, <2>2
<1> QED BY <1>1 DEF IdleTabHoldsNoLease

\* Unless the archive loses a write ("aborted", "throwing"), its connection
\* ("closing") or a row the owner deletes ("deleting"), and where a page may be
\* left ("leaving") it is the only one, nobody hoards the lease: a page keeps it
\* only while a session stands in it or jobs are left on its chain - through full
\* disks, refused commits and claims, and stores put in front of the archive.
THEOREM LeaseGoesBack ==
  /\ {"aborted", "throwing", "closing", "deleting"} \cap Happenings = {}
  /\ "leaving" \in Happenings => \A t, u \in Tabs : t = u
  => (Spec => []IdleTabHoldsNoLease)
<1> SUFFICES ASSUME {"aborted", "throwing", "closing", "deleting"} \cap Happenings = {},
                    "leaving" \in Happenings => \A t, u \in Tabs : t = u
             PROVE  Spec => []IdleTabHoldsNoLease
  OBVIOUS
<1>1. TypeOK /\ LeaseDiscipline /\ LendingInv /\ [Next]_vars => LendingInv'
  BY NextLending
<1>2. LendingInv /\ LeaseDiscipline => IdleTabHoldsNoLease
  BY LentIsUsed
<1> QED BY <1>1, <1>2, InitLending, TypeCorrect, LeaseDisciplineHolds, PTL DEF Spec
=============================================================================
