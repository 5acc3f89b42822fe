# Verification of the Shunt dashboard

TLA+ models of the browser dashboard under `src/` (a JK-BMS pack over Web
Bluetooth, a Victron solar controller over its advertisements, an IndexedDB
archive of both, and a folder on Google Drive shared between devices), the TLC
runs that check them on small instances, and TLAPS proofs of what matters most
for every size. Paths and line numbers below are those of the repository; the
application's code is `src/src/...`.

Ten components are modelled, each where several actors meet over awaits: the
**session recorder** with its recording lease, the **pack link** and the **solar
link** with their supervisors, the **hold** telemetry keeps over a session while a
radio is away, the **ring** and **solar ledgers**, the **archive store**, the
**history browser**, and the two halves of **Google sync** - publishing to a
folder without a lock, and shared settings.

- [The system](#the-system)
- [What is hard](#what-is-hard)
- [The modules](#the-modules)
- [The runs, their bounds and what they show](#the-runs-their-bounds-and-what-they-show)
- [Assumptions](#assumptions)
- [Fairness](#fairness)
- [What is proved](#what-is-proved)
- [Where the code and its documentation disagree](#where-the-code-and-its-documentation-disagree)
- [What is not modelled](#what-is-not-modelled)
- [The plan](#the-plan)

## The system

One page is one JavaScript thread: code between two awaits is atomic, and
everything else interleaves. Several pages (tabs) share one IndexedDB archive,
one Web Lock and one `BroadcastChannel`; one pack accepts one GATT link; several
devices share one Drive folder and nothing else.

| Component | State it keeps | Operations | Talks to | Correct when |
|---|---|---|---|---|
| Session recorder `application/history/SessionRecorder.ts` | the open session with its chunk builders, pending chunks and counters; refusal and announcement flags; the archive failure; a promise chain of jobs; the Web Lock it holds | `notePack`, `noteSolar`, `noteWarnings`, `identify`, `endPackStream`, `endSolarStream`, `checkpoint`, `finish`, `holdOpenForRejoin`, `dispose`; the interval's `tick`; `archiveAnnounced`; the jobs | called by telemetry; calls the archive store; asks for the lock; hears the channel | one tab records at a time; no row is lost but with its chunk, doubled or overwritten; a closed session is whole; a waiting tab takes over |
| Archive store `infrastructure/history/*` | sessions, chunks, hourly summaries, two cached totals, warnings, devices, the ledgers | `openSession`, `commitChunk`, `closeSession`, `deleteSession`, `evictSession`, `recover`, `compact`, `prune`, capture and restore, ledger merges | recorder, browser, backup; posts on the channel | each write is one transaction; totals are the rows'; nothing kept is cut before it is summarised; the allowance is kept |
| Pack link `infrastructure/ble/JkBmsClient.ts` | the device held, its characteristic, the attach token, the attempt in flight, the wait for a sighting, the stall count | `connect`, `reconnect`, `disconnect`, `readStoredLog`; `onDisconnect` | telemetry; Web Bluetooth | one link, none stray, no old attempt ends a newer link |
| Rejoin supervisor `application/rejoinSupervisor.ts` | running, the standing attempt, its timers, the last attempt's time, the blocker | `start`, `stop`, `reconsider`, `tryNow` | telemetry; page activity | never gives up, never sleeps without a reason, stops when disarmed |
| Telemetry `application/telemetry.ts` | link states of pack and controller, the last readings, the hold window, the remembered pack and the intent to rejoin | the owner's presses; frames and advertisements in; the hold | everything above | what is shown is what is so; a hold ends, once, and what it held with it |
| Solar link `infrastructure/ble/SolarWatchScanner.ts`, `application/solarRejoinSupervisor.ts` and the scanners | the watch, registrations in the last thirty seconds, the re-arm ladder, the resume in flight | scan, resume, re-arm, stop | telemetry; Web Bluetooth or the bridge's socket | the watch keeps the platform's budget, gives way to the tunnel and a hidden page, and comes back |
| Solar history sweep, pack stored log `VictronHistoryClient.ts`, `SolarHistoryRun.ts`, `TunnelReassembler.ts`, `DetailLogRun.ts` | one run's requests, windows, ceilings, what arrived | a run; bytes in | the link; the ledgers | a run ends, and files only what it read whole |
| Ring ledger `domain/history/ringLedger.ts`, `ringClock.ts`, `application/history/ringIngest.ts` | runs of records without wall-clock time, placed by the bytes they share | `alignRun`, `foldRingSnapshot`, the prune, the merge | the store | the ledger is the pack's ring in order, every break said |
| Solar ledger `domain/history/solarLedger.ts` | days, dated by this browser, matched by the controller's wrapping day number | `foldSolarHistorySnapshot`, the merge | the store | one row per day, and never another day's |
| Google sync `application/sync/*`, `infrastructure/google/*` | publications in a folder; settings revisions and heads; a baseline per device | sync, publish, clean up, import, resolve | Drive; preferences; the archive | nothing published is lost; no change is overwritten unseen |
| Backup `application/backup/*`, `infrastructure/backup/*` | a workspace under a busy flag and tokens; which archive is looked at | import, export, restore, choose | the archive; the browser | nothing half restored; one archive on screen |
| History browser `application/history/historyBrowser.ts` | lists, a session, a stretch, two ledger slots, an export, each under a token | show, load, refresh, delete, export | the archive, whichever is chosen | the last question's answer is the one shown |
| BMS protocol, columns and geometry, instruments, export document, service worker, views, fake radios, bridge scripts | see `PROJECT.json` | | | pure data, arithmetic, rendering, or tools |

How they interact. A frame reaches `JkBmsClient`, which hands a snapshot to
telemetry, which calls the recorder's `notePack` and `noteWarnings` in the same
turn. The recorder changes its memory at once and leaves its writes on a promise
chain; each write is one transaction of the store, which keeps its totals and
makes room within it. A drop goes the other way: the client tells telemetry,
which shows it, holds the session open for the gap and asks the supervisor to
reconsider; the supervisor calls `reconnect` under an abort signal. The solar
supervisor does the same for the watch, and lends its radio to a history sweep.
Another tab's writes are heard over the channel as announcements that carry
nothing but the fact. Pages that show the archive ask the history browser, whose
store the backup workspace may swap at any time. A device syncs by reading the
folder, importing what others recorded, publishing a copy and deleting what that
copy replaces.

## What is hard

`PROJECT.json` lists 40 hazards with their lines and the properties that would
catch each. In short:

- **Jobs against calls.** A session is open in memory before its claim on the
  lock runs. `finish` gives the lock back in a job, by which time a newer session
  of the same tab may stand (`SessionRecorder.ts:440`, `:486`, `:564`).
- **A tail that is copied, grows and is sealed while its copy is being written**
  (`:754`), and writes that are refused, retried and given up (`:749`).
- **Rows that disappear underneath a writer**: deleted in another tab, settled by
  another page's sweep, cut to make room by the very transaction that stores the next
  chunk (`IdbHistoryStore.ts:687`, `:733`), or behind a connection that stood down.
- **A recovery that fails unheard** (`openHistoryStore.ts:52`): the page starts on the
  archive as it was, strays, stale rows and excess included.
- **Links whose teardown outlives them.** `stopNotifications` is awaited before
  the handle is dropped, and by then the handle may carry a newer link
  (`JkBmsClient.ts:637`, `telemetry.ts:1268`).
- **Deadlines racing answers**, superseded handshakes unwinding late, stand-downs
  whose rejections have not been heard (`JkBmsClient.ts:568`,
  `rejoinSupervisor.ts:200`, `solarRejoinSupervisor.ts:177`).
- **A platform that throttles in silence**: four watch registrations in thirty
  seconds, from scanners that share one count (`SolarWatchScanner.ts:212`).
- **Wake-ups.** Nobody owes a supervisor a word; it must always have a look
  due, an attempt standing, or a reason it shows.
- **One window, several causes.** A session held open for a radio is outside the
  recorder's own guard; if the window is replaced or released carelessly nobody
  ends it (`telemetry.ts:948`, `:998`).
- **Records without a time.** The pack's ring and the controller's days are placed
  by what they repeat; twins, torn frames, midnights and a wrapping number all
  invite a wrong match (`ringLedger.ts:63`, `solarLedger.ts:131`).
- **Sums kept beside what they sum**, over chunks put twice, and archives an older
  build left without them (`IdbHistoryStore.ts:665`, `:831`).
- **Deleting what others wrote, without a lock** (`googleWorkspaceDocuments.ts:106`,
  `googleSyncController.ts:249`), with requests that take effect unheard (`:96`).
- **Answers that come late** to a page that has moved on (`historyBrowser.ts:589`,
  `:504`, `:614`).

Not in that list, since nothing here models what they are about: a database open
that another page blocks (`openHistoryStore.ts:85`), and bytes lost between the
tunnel's notifications (`TunnelReassembler.ts:66`).

## The modules

| Module | Models | Abstract specification, instances, proofs |
|---|---|---|
| `SessionRecorder` | the recorders of all tabs, the lease, what of the archive they touch | implements `OneRecorder`; `MCSessionRecorder`; `SessionInvariants` (the invariants its proofs use), `SessionRecorderProofs` |
| `PackLink` | the BLE client, its supervisor, telemetry between them | `PackLinkProofs` |
| `SolarLink` | the scanners, their supervisor, the sweep that borrows the radio | `SolarLinkProofs` |
| `SessionHold` | telemetry's window over a recording, both radios as it shows them | `SessionHoldProofs` |
| `RingLedger` | the pack's ring, a read of it, the ledger's fold and prune | `LedgerProofs` |
| `SolarLedger` | the controller's days, a sweep, the ledger's fold | `LedgerProofs` |
| `ArchiveStore` | transactions on sessions, chunks, summaries and totals | `MCArchiveStore`; `HistoryProofs` |
| `HistoryBrowser` | the browser's state, the address, the stores' late answers | `HistoryProofs` |
| `CloudPublication` | publishing to a Drive folder without a lock | implements `SharedCatalogue`; `MCCloudPublication`; `CloudPublicationProofs` |
| `SharedSettings` | settings revisions, heads, baselines, conflicts | `MCSharedSettings`; `SharedSettingsProofs` |

`map` in `PROJECT.json` gives the lines each definition stands for. A definition
commented *mutant*, or *a slip*, is a wrong version of the one that follows it and is used by no
action. A definition commented *Does not hold* is a property that was tried and
refuted; what it met is told
[below](#where-the-code-and-its-documentation-disagree).

How they compose. Where one component's promise is another's environment, the
module takes that promise in its simplest form: `SessionHold` has the radios as
`PackLink` and `SolarLink` leave them, and a recording as `SessionRecorder` keeps
it; `SessionRecorder` has of the archive what `ArchiveStore`'s transactions leave
of the session rows, the raw chunks and the warnings, with any choice of sealed
chunks cut and of settled sessions evicted where `ArchiveStore` computes them from
ages and lengths; `SharedSettings` has a workspace that only grows, which is
what `SharedCatalogue` promises and `CloudPublication` implements;
`HistoryBrowser` has stores that answer in any order, or not well.

### SessionRecorder

Each tab has a record of its synchronous state: `session` (the one standing),
`refusal` (whether the lease was refused, and how long ago), `announced` (an
announcement came since), `failure`, `archiveLost`, `held` (the
rejoin hold) and `chain`, the promise chain as a sequence of jobs. `memory[s]` is
the `OpenSession`: its tail (the pack builder's rows), the sealed chunks that wait
in `pending` with their attempts, `nextSeq`, the counters, and the two flush
flags. `inflight[t]` is the commit being awaited. `archive[s]` is the row with its
chunks as they were stored, `sealed[s]` which of them were stored as sealed and
`cut[s]` which have been deleted since to make room (so a chunk is in the archive when
it was stored and is not in `cut`), `lease` the Web Lock, `store[t]` what tab `t` can do with the database,
`mail[t]` announcements not yet heard.

One action per call telemetry makes (`Observe` is `notePack` with `noteWarnings`,
`Tick` the interval, `Identify`/`DeviceChanged` the two outcomes of `identify`,
`EndWatch` is `finish`), and one per await of each job: claim, put, upsert, append,
the flush loop, each commit with its three answers, release, delete, close. A commit
that is stored (`CommitStored`) ends as `writeChunk` does, with `prune` in the same
transaction, which announces what it cut or evicted; a full disk may prune in a
transaction of its own before the commit is answered (`PruneToBudget`). The
synchronous part of a call is written as an operator on records (`Seal`,
`AppendRow`, `Flush`, `Finish`, `FollowArchive`), composed in the order the code
calls them. The environment closes pages at any point, reopens them with
`recover()` - a sweep over any subset of open rows, and room made - or with a
recovery that failed and left the archive as it was, deletes sessions from the Log,
fills the disk, closes the connection for a newer page, and swaps an unusable store
in and out.

Abstracted: a row is counted, not kept; the solar stream has a builder of its own in
the code, a twin of the pack's, and one stream stands for both; a clock value becomes
"recent" or "due"; the sweep's stale set is any set of open rows, which includes
those of live tabs with a frozen heartbeat; what `prune` cuts is any set of sealed
chunks, of whatever session, and any set of settled sessions, which includes what the
allowance, the ages and the session on screen would choose.

- `RowsAccounted`: every row a recording session counts is in the tail, in the queue,
  in the archive or in a chunk the archive cut, in one of them only. So nothing that is
  still in hand is cut.
- `StoredRowsStand`: a row once stored goes, while its session stands, only with its
  whole sealed chunk, cut to make room; it is never overwritten by an older copy, what was
  cut is not written again, and a settled session takes no more rows.
- `ClosedSessionIsWhole`: of a closed session every row it counts was stored, and is,
  unless its chunk was cut.
- `CountedRowsReachTheArchive`: what a standing session has counted is in the end in the
  archive's count, by a first flush or by a later one.
- `OpenRowsAreFinished`, `StandingSessionHoldsLease`, `OneTabRecordsAtATime`,
  `IdleTabHoldsNoLease`, `WaitingTabTakesOver`: how sessions end, and the lease.

### PackLink

`client` is `JkBmsClient`: `device` (the handle held), `subscribed`, `wired` (the
stall timer runs over a finished handshake), `attempt` (the connect or reconnect in
flight, with the await it is at, the pack asked for, whether `attachToken` is still
its own, its deadline's kind, its caller's patience and signal) and `closing`, the
teardowns waiting for their unsubscribe, each with what its waiter does next. `app`
is what telemetry shows, the intent, the remembered pack and who waits for the
attempt. `loop` is the supervisor: running, the standing attempt, a look due, an
attempt made recently, the blocker shown. `page` is the browser's side, and `up` the
packs a link of this page reaches.

An operator on a world `w` is a synchronous stretch of code (`LetGo` is
`tearDownLink` down to its await, `StandDown`, `Look`, `TryNow`, `Succeed`, `Close`),
and each action composes them up to the next await, including the promise reactions
that run before the browser's next task.

- `LinkIsAccountedFor` is the state at every moment: with no attempt running, a
  device held is a link that answers and is the pack remembered (`reconnect` answers
  at once for a held device, so a leftover handle would be taken for a link); a link
  that is up is the one held or has a teardown coming; the badge says live only over
  a link or its teardown; a reconnect that runs has an attempt whose signal ends it.
- `SleepsOnlyWithReason`: with a link wanted and none held or in the making, an
  attempt stands, a look is due or the owner is told why not.
- `LinkEndsOnlyFromOutside`: no teardown, timer or late answer of an older attempt
  takes a working link down.
- `DisconnectSticks`, `NeverGivesUp`: the README's two sentences about rejoining.

### SolarLink

`scan` is the scanner: the await it is at, the times of recent registrations (all
scanners share one list), the re-arm ladder, whether the watch was asked for or
automatic. `sol` is the link as telemetry shows it and the sweep; `sup` the
supervisor, with the resume in flight; `page` the transport, the adapter, the key and
whether the page is in front. Time passes in ticks, since a budget is over a window
of time; other timers may fire whenever they run. The three transports - a watched
device, the browser's own scan, the bridge's socket - are an initial choice.

- `WatchIsRightful`: what is shown is held; a resume in flight is one the supervisor
  would still begin; while the tunnel of a sweep is open the only scan that may run is
  one the owner pressed for; a hidden page holds no watch that it could put back.
- `AutomaticKeepsBudget`: nothing the program does of itself registers over the
  platform's budget, whoever registered before it.
- `SleepsOnlyWithReason` and `WatchComesBack`: the same promises as the pack's, the
  first with one exception the code has (`missed`, below).

### SessionHold

`pack` and `solar` are the two radios, `app` the instruments' badge, the intent and
the remembered pack, `held` the window with its cause and what it waits for, `rec`
the recording: open, out of the recorder's guard (`exempt`), and whose rows it holds.
As in `PackLink` an operator on a world is a synchronous stretch of code.

- `GuardOrWindow`: a session the recorder's own guard leaves alone is open, has a
  window standing that was taken for it, and is not being fed by a pack - else
  nobody would end it, or somebody would end it while it records.
- `WaitingSessionIsOnePacks`: the rows of two packs are in one session only where
  nothing waited for the first when the second came up.
- `DisconnectEndsTheGap`: Disconnect over a session held open for a radio closes it,
  unless the controller is feeding it. `SilentSessionEnds`: a session no radio writes
  into any more is closed in the end.

### RingLedger and SolarLedger

Both have the device's memory, one read of it that can lose and tear what it carries,
and a fold of what arrived. A record (a day) is named by its true place, which the
code never sees: it has bytes, which two neighbours may share, or a number that
wraps and a date that may be a day out.

- `RowsAreTheRing`: a row missing between two is declared by `followsGap`, and what
  the ledger holds is recognised and not filed again, but for overlaps too short to
  place - as long as no read has lost a frame from its middle. `ReadIsHeld`: every
  stretch long enough to be placed is in the ledger once filed, save what a trim took
  and what is older than the rows the fold looks at.
- `RowsAreDays`, `RowKeepsItsDay`, `WholeSweepIsHeld`: one row per day, dated within the
  clock's error and one midnight; never another day's figures over it, though the number
  has come round; a whole sweep no midnight crossed is all in the ledger.

### ArchiveStore

`db` is the archive: rows, raw chunks (each a set of instants), hourly summaries
(each with the samples it accounts for and the span it claims) and the two cached
totals, of which an archive of an older build has none, or summaries without hours.
One recorder fills two streams, a second page looks, deletes, copies, restores and
changes the allowance. Every action is one transaction with all it calls:
`CommitChunk` writes the chunk, its summaries, the row and the totals and then makes
room in the same transaction, as the code does. A page arrives with a recovery, or
with one that failed and left everything as it was (`Arrive`). What is found may have
a chunk of no session (`Strays`), which only a recovery takes away: until then `prune`
throws over it once it is planned to go (`PruneFails`), the transaction is undone, the
recorder lets go of its session, and no copy of the archive validates.

- `TotalsAreTheRows`: the cached totals are the sums, over chunks put twice,
  recoveries that happen or fail, restores and archives that never had them.
- `SummariesOutliveRaw`: a sample the archive had of a session that stands is still in a
  raw row or in a summary, unless its whole hour has gone for age or number.
- `AllowanceIsKept`: no transaction that adds raw rows, and no recovery that does not
  fail, leaves more than the allowance while a sealed chunk is left to cut. (A page whose
  recovery failed may start above it, and stays there until its first commit.)

### HistoryBrowser

`b` is the browser's reactive state and the calls that are out. A token of the code
that one call bumps and another's answer compares is the mark `fresh` on the call.
Everything read carries the archive it came from, so an answer of the previous
archive shows if it lands. `told` and `route` are the address and what the view's
watcher has told the browser of it.

- `ScreenIsWhatWasAsked`: all on screen is of one archive, and the session, stretch
  and pack shown are those last asked for.
- `ViewingIsTold`: the archive in use knows the session being looked at, which is what
  keeps it from eviction.
- `FileIsOfTheSessionAsked`: a file handed over is of the session the page is on, out of
  the archive chosen.
- `ReadingEnds`: a session the address goes on naming is in the end shown, known to be
  missing or unread, and the page does not load for ever.

### CloudPublication and SharedCatalogue

`files` is the folder: slots, each a publication's first file with its remaining
parts and what it holds. `sync[d]` is what device `d` has read, means to publish and
means to take away. Each request to Drive is an action, and may fail, take effect
unheard (`CompletesUnheard`, `RetiresHead` with nobody waiting), find its file gone,
or be cut by a closed page.

`SharedCatalogue` knows only what is published and what each device brought home.
The mapping is, of each source, the newest version in any completed publication.
`ImplementsCatalogue` says that however cleanups interleave, none of these ever goes
back or is lost, and no sync brings home an older version of a source than the one
before. (The owner may open an older revision on request, `openRevision` at
`googleSyncController.ts:410`; that is not modelled.) `FolderMakesSense` adds that a reader never meets a
folder it must refuse.

### SharedSettings

A revision names those it replaces; heads are those no revision names. `here[d]` is
the device's own values and whether it shares the Victron key, `baseline[d]` what it
last agreed on, `op[d]` the sync or resolution under way. The owner edits between
any two steps.

- `EditsSurvive`: whatever the owner changes while a sync waits, settings that reached no
  revision are overwritten only by the owner's own choice.
- `ReplacesOnlyTheKnown`: the settings a revision replaces, its key apart, are such as its
  device has held or, when its owner was asked, as the owner was shown (values are compared,
  not revisions).
- `OptedOutLeavesTheKey`: a device that does not share its key publishes none of its own
  and leaves the workspace's where it was.

## The runs, their bounds and what they show

Every (run, property) pair has a mutant: a wrong version of one mapped definition
with which TLC finds that very property violated in that very run. Deadlock is checked
in the recorder runs; elsewhere the owner, the faults and the questions are counted
and spent, or a device has nothing more to write, and the system really may stop.

| Run | Instance | What it shows |
|---|---|---|
| `recorder_rows` | 1 tab, 1 session, chunks of 2, 3 rows, 1 warning, 2 mishaps, pruning | `TypeOK`; every counted row is in exactly one of archive, queue, tail and cut chunks (`RowsAccounted`); a stored row is never overwritten by an older copy, and goes only with its sealed chunk (`StoredRowsStand`); counted rows reach the archive, whenever the flush is asked for (`CountedRowsReachTheArchive`) |
| `recorder_whole` | 1 tab, 2 sessions, chunks of 2, 2 rows, 1 mishap, no refused writes, pruning | of a closed session every row it counts was stored and only whole chunks of it were cut (`ClosedSessionIsWhole`); a live tab leaves an open row only by queueing its closing (`OpenRowsAreFinished`) |
| `recorder_lives` | 2 tabs, 2 sessions, chunks of 1, 1 row, no mishaps | the lease is held by who records and hoarded by nobody; `OneTabRecordsAtATime`; the waiting tab takes over |
| `pack_link` | 2 packs, 5 happenings | `LinkIsAccountedFor`, `SleepsOnlyWithReason`, `LinkEndsOnlyFromOutside`, `DisconnectSticks`, `NeverGivesUp` |
| `solar_link` | 3 transports, budget 2 in a window of 4 ticks, ladder 1 to 3, 3 happenings | `WatchIsRightful`, `SleepsOnlyWithReason`, `AutomaticKeepsBudget`, `WatchComesBack` |
| `session_hold` | 2 packs, 6 happenings | `GuardOrWindow`, `WaitingSessionIsOnePacks`, `DisconnectEndsTheGap`, `SilentSessionEnds` |
| `ring_ledger` | ring of 9, frames of 3, overlap 3, 12 records, one pair of twins, 3 reads, at most 11 rows trimmed to 10 | `RowsAreTheRing`, `ReadIsHeld` |
| `solar_ledger` | backlog 3, numbers wrapping at 7, clock error 1, 8 days, 2 sweeps | `RowsAreDays`, `RowKeepsItsDay`, `WholeSweepIsHeld` |
| `archive_store` | 2 interchangeable pages, 2 sessions, 6 instants, 2 to the hour, chunks of 2, allowances 2 and 3, at most 1 session and 3 summaries kept, 2 happenings, new and older archives, one with a stray chunk | `TotalsAreTheRows`, `SummariesOutliveRaw`, `AllowanceIsKept` |
| `history_browser` | 2 archives, one of them imported, 2 sessions, 1 stretch, 1 pack, 4 questions | `ScreenIsWhatWasAsked`, `ViewingIsTold`, `FileIsOfTheSessionAsked`, `ReadingEnds` |
| `cloud_publication` | 2 interchangeable devices, 3 slots, 2 versions, 1 settings revision | `FolderMakesSense`, `ImplementsCatalogue` |
| `shared_settings` | 2 interchangeable devices, 1 key, 2 other values, 3 edits, 3 revisions | `OptedOutLeavesTheKey`, `EditsSurvive`, `ReplacesOnlyTheKnown` |

Why the bounds are enough to be of use.

- *Recorder.* `Capacity` 2 has a tail that is neither empty nor full, and three rows
  make a full chunk and a tail, or a split and a full one, so a shorter copy can be in
  flight with a longer one pending, a row can come and ask for a flush while one is
  running, and a sealed chunk can be cut under the session that goes on being written.
  `recorder_whole` needs two sessions, one queued to close behind the other, and two
  rows, which fill a chunk or leave a tail to be sealed at the end. `MaxAttempts` 2 is the
  code's. Two tabs and two sessions
  give every order of claim, refusal, finish and takeover; `recorder_lives` has them with
  sessions of one row and without closed pages, and what it checks of safety is proved
  for every size (`IdleTabHoldsNoLease`, of a page that is left, for one tab).
  `MaxMishaps` bounds only what the world does wrong.
- *Links.* Two packs give "another than the one asked for", "another than the one
  remembered" and an old teardown of one while the other connects. Happenings are
  presses, faults and turns; the attempts' own steps, timers and deadlines are free.
  `pack_link`'s safety was also run at seven, and is proved for any number. The run
  explores nothing past one situation, its constraint `NotOvertaken`: a link that comes
  up while a `disconnectBms` waits for its unsubscribe (see the observations). A budget of 2 in 4 ticks stands for 4 in 30
  seconds: enough for one scanner's registrations to be another's excess.
- *Hold.* Six happenings hold two causes in turn, a return, a swap and a stop.
- *Ledgers.* A ring of three frames has a first, a middle and a last to lose or tear,
  and twelve records turn it over; a clock a day out and a number wrapping at 7 are as
  close as the code's own margin lets them come (`Wrap > Backlog + 2 MaxError + 1`).
- *Archive.* Two instants an hour give an hour over two chunks, a chunk over two
  hours, and a tail after a cut; the limits on sessions and
  on hours (three; there are four at most) are reached,
  and so is a prune that throws over the stray.
- *Browser.* Two archives and two sessions give an answer of the wrong one of each;
  four questions are enough for each of the properties' mutants, and the safety ones
  are proved for any number.
- *Sync.* Two devices and three slots give a publication read, replaced and cleaned by
  the other. Three edits over three revisions give a change during a sync, a conflict
  and a change during its resolution. There is one key, which a device has or has not: two
  devices with different keys are in the proof of `NoKeyIsTakenAway` and not in the run.
  Both modules are proved for any number.

Symmetry is declared only in runs without liveness. Two runs have a `VIEW`, which leaves out
what no later step reads: in `recorder_whole` the memory of a session nobody refers to, in
`archive_store` a copy that can no longer be restored, the happenings being spent.

## Assumptions

- *Recorder*: IndexedDB transactions are serialised; the Web Lock is exclusive and
  freed with its page.
- *Pack link*: the chooser is modal; `gatt.disconnect()` cancels a pending connect;
  timers have no length; a handle that cannot be watched is a choice at `ListingEnds`.
- *Solar link*: the owner's presses need the page in front; a cancelled operation
  rejects in the same turn (`awaitSolarOperation`); a key that does not parse is not
  modelled.
- *Ring*: an overlap is longer than any run of records with equal bytes. *Days*: at
  most one midnight passes under a sweep.
- *Archive*: an instant does not pass before the checkpoint of the one before (ten
  seconds are far less than an instant); the limits on hours and age never reach an hour
  whose chunk is not committed yet; clocks do not step; one recorder at a time
  (proved of `SessionRecorder`); stored layouts are readable and a backup validates; a
  copy with a session still open is never restored, and not followed.
- *Browser*: the view's watcher of the address runs before the next press of a link.
- *Cloud*: a listing is of one moment; a slot is not used again while somebody remembers
  it. Nothing else is assumed: there is no lock between devices. One tab of a browser
  syncs at a time (`navigator.locks`, `shunt-google-sync`).
- *Settings*: read, capture and hash are one step, decide and write another (nothing in
  between depends on what could change); the secret is opted in and out of while no sync
  runs; one tab per device.

## Fairness

`SessionRecorder` assumes of a page that is not gone what its thread guarantees: its
promise chain runs (`JobRuns`: some job step that is not a thrown write), its interval
ticks, its radio's frames are delivered while the radio reports, and a hold ends with its
window. `RetrySpec` adds that the retry interval passes. A commit may answer in any of
its ways, as long as it answers.

`PackLink` assumes weak fairness of the chooser being answered, the list answering, a
handshake step answering or failing, a superseded handshake unwinding, an unsubscribe
settling, and the three timers; none of a sighting, of success as against failure, of
`TimesOut` or of any press. `SolarLink` likewise: of the permission prompt answering one
way or the other, the listing, a registration becoming free, the key, the arming, the
sweep's steps, the two timers, and time. `SessionHold`: of the window and of the idle
sweep (both are timers), of the unsubscribe, and of each attempt ending one way or the
other. `HistoryBrowser`: of the watcher, and of stores answering, well or not. Nowhere is
anything assumed of the owner or of faults.

`WatchComesBack` and `NeverGivesUp` therefore say that an attempt is made again and
again, or that the owner is told what holds it back; not that the radio answers.

## What is proved

For every value of the constants, from the named assumptions of each module alone
(that model values differ from the members of their sets, that counts are natural
numbers, that devices are finitely many):

| Theorem | Statement |
|---|---|
| `SessionRecorderProofs!TypeCorrect` | `Spec => []TypeOK` |
| `SessionRecorderProofs!LeaseDisciplineHolds` | `Spec => []LeaseDiscipline` |
| `SessionRecorderProofs!RecordingHoldsLease` | `Spec => []StandingSessionHoldsLease` |
| `SessionRecorderProofs!ImplementsOneRecorder` | `Spec => OneTabRecordsAtATime` |
| `SessionRecorderProofs!MemoryAndArchiveAgree` | `Spec => []RowsInv` |
| `SessionRecorderProofs!EveryRowIsAccountedFor` | `Spec => []RowsAccounted` |
| `SessionRecorderProofs!StoredRowsAreKept` | `Spec => StoredRowsStand` |
| `SessionRecorderProofs!LeavingIsFinishing` | `Spec => OpenRowsAreFinished`, without "aborted" and "closing" |
| `SessionRecorderProofs!ClosedIsWhole` | `Spec => []ClosedSessionIsWhole`, without "latching", "passing" and "aborted", and with "leaving" for one tab only |
| `SessionRecorderProofs!LeaseGoesBack` | `Spec => []IdleTabHoldsNoLease`, without "aborted", "throwing", "closing" and "deleting", and with "leaving" for one tab only |
| `LedgerProofs!SweepsAreOfTheirDays` | `Spec => []IInv` |
| `LedgerProofs!EveryRowIsADay` | `Spec => []RowsAreDays` |
| `LedgerProofs!RowsKeepTheirDays` | `Spec => RowKeepsItsDay` |
| `LedgerProofs!SweepsAreFiled` | `Spec => WholeSweepIsHeld` |
| `LedgerProofs!LogIsBlocksOfTheRing` | `RingSpec => []RingInv` |
| `LedgerProofs!EveryRowIsOfTheRing` | `RingSpec => []RowsAreTheRing` |
| `LedgerProofs!ReadsAreHeld` | `RingSpec => ReadIsHeld` |
| `HistoryProofs!SoundAlways` | `Spec => []IInv` |
| `HistoryProofs!ScreenFollowsTheOwner` | `Spec => []ScreenIsWhatWasAsked` |
| `HistoryProofs!StoresAreTold` | `Spec => []ViewingIsTold` |
| `HistoryProofs!FilesAreAsked` | `Spec => FileIsOfTheSessionAsked` |
| `HistoryProofs!ArchiveBalances` | `ArchiveSpec => []ArchiveInv`, found without strays, as the next three |
| `HistoryProofs!TotalsTellTheRows` | `ArchiveSpec => []TotalsAreTheRows` |
| `HistoryProofs!SummariesStandForTheRows` | `ArchiveSpec => [](ArchiveInv /\ AccountInv)` |
| `HistoryProofs!NoSampleGoesBeforeItsHour` | `ArchiveSpec => SummariesOutliveRaw` |
| `SessionHoldProofs!KeptAlways` | `Spec => []IInv` |
| `SessionHoldProofs!NobodyIsForgotten` | `Spec => []GuardOrWindow` |
| `SessionHoldProofs!WaitingIsForOnePack` | `Spec => []WaitingSessionIsOnePacks` |
| `SessionHoldProofs!StoppingIsNoGap` | `Spec => DisconnectEndsTheGap` |
| `PackLinkProofs!KeptAlways` | `Spec => []IInv` |
| `PackLinkProofs!EveryLinkIsAccountedFor` | `Spec => []LinkIsAccountedFor` |
| `PackLinkProofs!OnlyOutsideEndsALink` | `Spec => LinkEndsOnlyFromOutside` |
| `PackLinkProofs!NeverAsleepForNothing` | `Spec /\ []NotOvertaken => []SleepsOnlyWithReason` |
| `PackLinkProofs!AnsweringLinkIsShown` | `Spec /\ []NotOvertaken => []LinkIsShown` |
| `SolarLinkProofs!RightAlways` | `Spec => []IInv` |
| `SolarLinkProofs!TheWatchIsRightful` | `Spec => []WatchIsRightful` |
| `SolarLinkProofs!NeverAsleepForNothing` | `Spec => []SleepsOnlyWithReason` |
| `SolarLinkProofs!TheBudgetIsKept` | `Spec => AutomaticKeepsBudget` |
| `SharedSettingsProofs!SettledAlways` | `Spec => []IInv` |
| `SharedSettingsProofs!NoKeyIsTakenAway` | `Spec => []OptedOutLeavesTheKey` |
| `SharedSettingsProofs!NoEditIsLost` | `Spec => EditsSurvive` |
| `SharedSettingsProofs!OnlyTheKnownIsReplaced` | `Spec => ReplacesOnlyTheKnown` |
| `CloudPublicationProofs!FolderAlwaysMakesSense` | `Spec => []FolderMakesSense` |
| `CloudPublicationProofs!NothingPublishedIsLost` | `Spec => ImplementsCatalogue` |

**The recorder's types.** `TypeOK` is inductive with two facts in `Memories` that a
naive type would leave out: a tail is shorter than a chunk, and a session with a tail has
numbered it (`nextSeq - 1` would otherwise leave the naturals). The lemmas are about the
operators calls are built from - `Seal`, `AppendRow`, `Finish`, `FollowArchive`,
`Opened`, writing on after a commit - and each action's step cites them.

**The lease.** "Whoever has an open row holds the lease" is not inductive: a session
stands in memory long before its claim is answered, and an older session's finish, still
queued, will give the lease back under it. `LeaseDiscipline` says why that is harmless.
A standing session without the lease has its own claim ahead of it on the chain
(`LeaseOrClaimAhead`); so does one that stands while any finish is queued, and *behind*
that finish (`FinishBeforeClaim`); a row whose claim is queued is not in the archive yet
(`OpensFreshRow`), so such a session is not recording; and no session belongs to two tabs
or two open jobs (`OneOwner`, `OneOpenJob`). Without `FinishBeforeClaim` the release in
`FinishRelease` breaks the first; without `OneOwner` another tab's put would make this
one's row exist. Most actions rest on two lemmas: `DisciplineKept`, for a step of one tab
whose chain keeps its jobs in order, and `ElsewhereDiscipline`, for a step of the world
that touches no recorder. Opening, the claim and the put have lemmas of their own.

**One recorder.** `Keepers` is the set of recording tabs. A tab enters it only by putting
its row under a granted claim, and by then nobody else can be in it, since every recording
tab holds the one lease: that is `StartsKeeping`. Every other way the set changes - an
ending, a closed page, a sweep or a deletion in another tab - takes its only member out.

**Stored rows.** The definitions these invariants are made of, and those of the next three
paragraphs, are in `SessionInvariants`. A commit takes its copy of a chunk when it starts and writes it over
whatever is stored under that number when it ends; in between the tail grows, is sealed
into the queue, refused, retried, or its row is swept or deleted by another tab. `RowsInv`
says why the copy is nevertheless never the shorter one, and why what else the same
transaction cuts is never what is still to be written. *MemoryFitsTheArchive*: for a tab
that still refers to a session (it stands, or a job of it waits), the queue is in order of
number, the tail's number is the next after it, and under each of these numbers the archive
was given no more rows than wait to be written; past them it holds nothing. *CommitsAreCurrent*:
a commit on its way is the first job's, and its copy is the queue's head, or a copy of the
tail that has since only grown. *ArchiveInOrder*: a row put anew starts from nothing, and of
an open one only chunks stored as sealed are cut. *SealedIsPast*: of a chunk stored as sealed nothing is in hand any
more, since its copy left the queue with the commit; so no commit writes a cut chunk again,
and nothing in the tail or the queue is cut with it.
What the calls do to a session object is one relation, `Extends` - pending chunks stay,
rows go to the end, a number is never given twice - which composes, so that a call that
appends, seals and finishes needs no argument of its own. The rest is one lemma for a step
that leaves the archive alone (`CallRows`), one for a step of the job at the chain's head
(`JobRows`), and the commit's, which is where the two meet. That no tab refers to another
tab's session is `OneOwner` of the lease's invariant.

**Every row accounted for.** `RowsAccounted` speaks of recording sessions, and a session
starts recording when its row is put: by then rows have been counted in memory, so the
invariant has to hold of them before. *EnteredIsWhole* says it of a session that is
`Entered`: its row is open, or not there yet and its open job still on the chain. A
session whose claim was refused, or whose row was swept or deleted, has left that set for
good - a swept session's stored rows stop counting, and nothing says its memory still adds
up. A step moves rows between the three places of `RowsOf` and the cut: a row is appended to the tail,
the tail sealed into the queue, the queue's head committed to its number, a sealed chunk
cut. `archive[s].chunks` stays what was stored and `cut[s]` is kept beside it, so a cut
changes no total (`Held` and `TakenFrom` of a chunk are one number between them). The
sums' lemmas say when two lists of row groups have one total (`SumSame`) and what one more
group adds (`SumStep`); with `MemoryFitsTheArchive` no number is in two places, which is
what makes a commit change no total. `SumRows` is a recursive function, and that it has
the values its equation says is proved by taking the least number at which it would not
(`LeastExists`, from the library's `WFMin`), since induction itself is not available. TLC
checked `RowsInv` as an invariant, with and without refused writes, before it was proved.

**How a session ends.** Three properties of the recorder do not hold of every behaviour: the
observations below name the mishaps that refute them, and the theorems leave out those
mishaps and no other, whatever the instance. `OpenRowsAreFinished` says that nothing but an
ending makes a live tab drop its open row. Each call is shown to be `Called`: it adds to the
chain only jobs that have not begun, and when a session stops standing its closing is among
them (`Grows`, `Closes`). That composes, so a frame that follows the archive, opens a session and
files a warning is composed from lemmas about each (`GrowsTwice`). Of the jobs only a refused
claim, a lost commit and a warning may end a session; the first has no row yet, the second
no open one. `ClosedSessionIsWhole` is what is left when the closing has run, and its
invariant `EndingsInv` says how that comes about: a closing is of a session that stands no
more and the only one of it (`InOrder`), whose tail was sealed when it was queued
(`FinishesSealed`) and whose row is open or gone until it has run (`EndingRowIsOpen`); a
row is open only for a session that was granted the lease, so the closing has something to
write to (`OpenRowIsLeased`); and at its last step nothing waits any more, or the row is out
of reach (`HeadReady`). Then the rows of `RowsOf` have all been stored, cut since or not,
and with `EnteredIsWhole`
their sum is the count the closing writes (`WrittenIsWhole`). With a second page the third
part fails: its sweep settles a row that is not its own, and the closing then settles it
again with what was never written. `IdleTabHoldsNoLease` is about the same endings: a recorder
gives the lease back in the job of finish and, left by its page, when it puts a row, and
nowhere else, so whoever drops a session without queueing its closing keeps the lease for
good. `LendingInv` says that nobody does. A session stands over an open row or behind its
own claim, so a commit that finds its row gone is never the standing session's; no claim is
on the chain of a live page but the standing session's or one whose closing waits behind it
(`OpensEnd`), so a lease granted to a session that has ended meanwhile is still returned;
and the holder has a session, a closing that has not begun (`Releases`), or is left and
about to put (`AtPut`). That needs a claim to come before its session's other jobs
(`OpensFirst`), which opening provides. Each mishap left out takes a row, or the closing,
from under it: TLC refutes the property with any one of the five, a second page's sweep
included. It checked both invariants first, the second as far as its state space could be
explored in minutes on two instances.

**The solar ledger.** `SameDayIn` lets a row through whose number is the reading's and
whose date is within a backlog of it. `HeldIsTheDay` says these are exactly the rows of the
same day: a row's date and a reading's are each within the clock's error, and one midnight,
of their days, so two days that pass are less than a wrap apart and have one number only
if they are one (`NumberTells`, where `Wrap > Backlog + 2 MaxError + 1` is used), and a day's
own row is never too far off (`Backlog >= 2 MaxError + 1`). The invariant supplies what that
needs of a sweep: `Answered`, one answer a register and each of the day its register held
when the sweep began or of the day it holds now, and `SweepIsRecent`, that these are at
most one midnight apart. The fold's effect, register by register, is again proved by taking
the first register at which it would fail (`SnapshotKeeps`). A sweep need not be whole for
`WholeSweepIsHeld`: what it did read is filed.

**The ring ledger.** Nothing in a record says where it belongs, so the fold places a run by
its bytes alone. Two neighbours of the ledger that agree with two neighbours of a run are the
same two records, whatever twins they have (`TwoTell`, from "no two stretches of equal bytes
touch"). So a shift that agrees over `MinOverlap` rows, of which some two are neighbours with
no break between, is the run's own place; the only other fit there could be lies astride a
break. `Sound` keeps breaks at least `MinOverlap` apart (`LongBlocks`; the first row is
excepted, a trim makes it a break), so such a fit meets one break at most, and
`NoFitAstrideABreak` shows that the ledger would then go back at it by more than
`FromTheRing` lets it. That part of the invariant is what "no read has lost a frame before
its last" buys: all reads begin where the ring begins, which only moves forward, so blocks
begin in the ring's order and each goes back over less than an overlap. Hence
`TheRingIsRecognised`: a read the ledger holds enough of fits exactly where it belongs and
nowhere else, so the fold that appends a run behind a break did so because it shared less
than an overlap (`FoldRunStaysInOrder`). `Sound` itself needs no such condition, and with it
goes `ReadIsHeld`: a run that fits extends the ledger by the records that follow its last
row, and one that does not is appended whole; a record to the left of what the fold sees is
older than its oldest row, or that row's twin (`FoldRunKeeps`). The runs of one read never
overlap, so together they append no more than a ring's length, which the trim spares
(`RingSnapshotKeeps`, `FoldedIsHeld`). `RingInv` was checked by TLC on two instances, with
and without twins in the overlap, before it was proved.

**The archive.** A sum over chunks is modelled as the size of a set that has each sample, or
each of its bytes, with its chunk; so what a chunk adds when it is put, sealed or cut is
the size of the part that is its own (`SumsWithout`), and no sum has to be followed chunk
by chunk. `ArchiveInv` says of the archive at hand `Kept` (each row counts its sealed
samples, no two chunks have one key), and `Balanced` (nothing is without its session, both
totals are the sums, or the bytes are not counted yet), whether or not a page's recovery
succeeded; of the copy taken out that it is
balanced and closed. The theorems are of archives found without strays (`ASSUME "littered"
\notin Legacies`): with one, and no recovery, the totals leave its chunk out and a prune may
throw, and that TLC checks on the run's instance. `AheadIn` is the strengthening: a recorder
that may still write has
numbers past every sealed chunk of its session. Without it a commit would put a loose chunk
over a sealed one and the row's count would stay. Each of the three parts of making room is
a lemma of its own (`RawDropped`, `HoursDropped`, and the sessions one by one, by the least
number at which it would fail), and every transaction is composed from them as in the code.

**What a summary stands for.** `SummariesOutliveRaw` needs more: a chunk may be cut
because a summary covers the *span* of its rows, which does not say that the summary was
made of them. *Accounted* closes the gap: an hour has one summary at most, and it holds every
raw row of the hour. That has to survive a summary being made again from what raw rows are
left. For a recorder's own summaries *PenTold* does it: its accumulator was given every
row it wrote, and an hour whose summary is behind is marked dirty, so the next commit
replaces it with one that holds more. For reconstructed ones *LooseSound* does: an open session
of an older build has sealed chunks older than all its others, so a cut takes them in the
order of their rows, `retainedFrom` is where the raw rows begin, and a later hour's summary
holds nothing that is not still raw - which is just what `compactSession.ts:28` relies on,
and what fails for the archives named [below](#where-the-code-and-its-documentation-disagree),
whose tail is older than what was cut. `Leaner` says what room-making leaves of an open
session: fewer chunks and, if its recorder sums it, fewer summaries, never other ones. The
older build's archives themselves are those of `Found`; all else is arbitrary. Both
invariants were checked by TLC on the run's instance before they were proved.

**The browser.** What is on screen is right only because nothing wrong can still arrive.
The invariant adds to the screen what is still out: a call whose token stands was made of
the archive in use and about the session asked for (and, for a read, the stretch asked
for). Each operator that bumps a token is shown to leave only such calls standing, and
each answer then writes what the invariant wants on screen.

**The hold.** `Kept(w)` is said of a world, not of a state, so that the synchronous
stretches can be proved one at a time and composed as the code composes them: `Guarded`
(a session out of the guard is open, its window stands, was taken for it, and the pack is
not live) and `Owned` (the pack on the link is the one remembered; a session holds that
pack's rows and no others unless it was swapped). `Owned` is what makes the second
property inductive: the rows are compared with the remembered pack, which is what
`settleForChosenPack` compares, and not with each other.

**The pack's link.** `IInv` of `PackLinkProofs` says of a world, in the parts a stretch of
code disturbs separately, what `LinkIsAccountedFor` only hints at. *Handled*: a handle is
that of a handshake whose token still stands, or of a finished link that runs its stall
timer and is the pack remembered. *Loose*: a link up is the one held or one being let go;
while a link works or an attempt goes on no teardown is the last word; an attempt that
unwinds is the only one a teardown goes back to. *Keyed*: what an attempt may be at each
await. *Bounded*: a reconnect has the supervisor's attempt behind it, or its signal has
been given. *Badged*: live over a link, or over a teardown whose end will see to the badge.
Each operator is shown to keep the parts, whatever it is composed with, and each action
composes those lemmas as it composes the operators; so `tearDownLink` is argued once, for
all the places that call it. That no step but the outside's ends a link is read off the
same lemmas: while a link works, its handle's token is nobody else's.
`SleepsOnlyWithReason` and `LinkIsShown` need a second invariant, `Stirs`, and that needs
`NotOvertaken`: past a link that overtook a `disconnectBms` the page is idle over it and
nobody is awake, which is the observation below and no fault of the proof.

**The watch.** `IInv` of `SolarLinkProofs` has two layers, since the code has. *Sound* is
kept by every stretch: the badge is the scan's, what a resume left is a resume's and was
paced by the budget, the sweep's tunnel stands over no automatic watch, an attempt in
flight has a supervisor running. *Lawful* and *Seeking* are not: between a press and the
supervisor's answer to it an attempt may be forbidden, or nothing may be seeking a watch
that is wanted. They are what one look puts in order: `LookKeeps` shows that a look makes
any sound world right, whatever was done before it, and each action ends in a look or
disturbs neither. The budget is arithmetic over the list of registrations: it is ordered by
age (ageing drops a prefix, a registration goes at its end), so the time
`solarWatchResumeAvailableAt` gives is zero exactly while fewer than the budget are in the
window (`WaitIs`). This has induction in it, by the least counterexample
(`WFMin` of the library), which needs no operator as a parameter.

**The settings.** A sync decides from hashes of what it read, what it has and what it last
agreed on, and any of the three may be stale when it acts. `IInv` of `SharedSettingsProofs`
says what each of them still guarantees. *Rests*: the device's side of a baseline, or of
what a sync under way is about to agree on, has been published, its plain part and its key
each in some revision; and the workspace's side has been held by this device. So a sync that
finds its own side unchanged overwrites only what is published, whatever it found of the
workspace; and one that finds the workspace's side unchanged replaces only what was held.
*Answers*: a resolution about to be written replaces only heads its owner was shown, as
long as these are asked about. Every revision without a key to share leaves one of its
parents' keys where there is one. All of it refers to revisions that stand for good, since
the workspace only grows (`Grows`), so it survives whatever another device publishes
(`SoundStill`).

Each of these three was checked by TLC before it was proved: on the run's instance, as
an invariant of the states it reaches; and for the watch also as the initial states of one
step, from every typed state of a small instance that satisfies it, which is what being
inductive means.

**The folder.** Every device deletes what others wrote, and nothing is lost. The step that
could lose is a cleanup, and the argument has three parts. *Read*: what a device is to take
away is contained in what it means to publish, so its own completed document holds it.
*Superseded*: what a cleanup under way takes away is held by documents it leaves alone.
*Nested*: that document may itself be on another device's list, and two cleanups that each
spared what the other deletes would lose both; but of any two cleanups under way, one's
list contains the other's documents, so going up the lists ends at a document nobody is
to delete. `Structure` carries what the cuts between requests leave behind: a copy under
way is pending and holds its device's catalogue, only what was completed is cleaned, only
what was retired loses its files, and no slot has two uses. The refinement maps
`Completes` and `CompletesUnheard` to `Publish`, `Imports` to `BringHome`, and every
other step to a stutter; an import is shown no older than the one before.

**Not proved, only model-checked**: `AllowanceIsKept` of
`ArchiveStore`, which is no theorem of all constants: with a retention shorter than an hour,
or fewer summaries than hours with raw rows, a summary may go between a pack's commit and
the solar one's of the same hour, whose chunk then has none and is never cut (the code
keeps 20 000 of them, for two years); and
every liveness property, fairness and `ENABLED` being out of reach as well: `DisconnectSticks`
and `NeverGivesUp` of the pack's link, `WatchComesBack` of the watch, `SilentSessionEnds`,
and the recorder's two.

## Where the code and its documentation disagree

Met while modelling. None is a run; those with a definition commented *Does not hold* can
be checked by adding it to the component's `.cfg`. In `SessionRecorder.ts`:

- In the job of `finish`, `writePending` returns at the first refused write so that a
  later flush can retry it, and `closeSession` follows at once (`:448`, `:749`): the
  session is closed with a count the archive does not hold. `recorder_whole` has no
  refused writes for that reason.
- `commitChunk` answers a null failure for a vanished row and for every error that is
  not a full disk; the recorder reads both as "the row is gone" (`:782`) and drops a
  session whose row stays open.
- The warning job does not ask whether the claim queued before it was granted (`:346`),
  so a refused tab files warnings under a session that never existed, where
  `src/README.md:422` has one tab writing. `WritesOnlyUnderLease`.
- A tab whose session was deleted, or whose commit is answered with null for another
  reason, drops it and keeps the lease (`:587`); if its radio then falls silent, the other
  tab waits as long as that page stays open. `IdleTabHoldsNoLease` with "deleting".

In the links and telemetry:

- `disconnectBms` (`telemetry.ts:1268`) sets the page to idle and settles the session after
  its await without asking whether a newer link is up; `giveUp` guards the very same wait
  (`JkBmsClient.ts:765`). `LinkIsShown`.
- A watch lost before the resume that brought it up has its controller's name is sought by
  nobody until something else happens (`telemetry.ts:714`, `solarRejoinSupervisor.ts:80`).
  `LostWatchIsSoughtAgain`; it is `missed` in the properties that hold.
- The badge can stay live over two idle radios (`telemetry.ts:829`, `:859`, `:875`).
  `LiveBadgeIsFed`.
- A window may close a session that is not the one it was taken for (`telemetry.ts:966`).
  `WindowEndsItsOwn`. A session in which nothing waited takes another pack's rows
  (`:998`). `OnePackOneSession`.

In the ledgers:

- "A record the ledger already holds is recognised rather than duplicated"
  (`ringLedger.ts:12`) fails once a read loses a frame from its middle: the second run is
  placed only against the end (`:136`). `TornReadIsRecognised`. A torn read followed by a
  trim can lose records for good.
- `solarLedger.ts:50` has `seq` in the order of days; a sweep cut short and completed later
  appends older days behind newer ones. A midnight inside a sweep, or a page suspended in
  the middle of one, dates the rest of it a day wrong.

In the archive and its pages:

- An open session of an older build whose solar tail is older than pack chunks already cut
  keeps `retainedFrom` at that tail, so `compactSession.ts:28` does not hold back and a
  capture overwrites a whole hour's summary with what is left of it
  (`src/README.md:441`). `archive_store` has such archives with a tail that is not older.
- A chunk of no session, should there be one, is taken away by a recovery and by nothing
  else. If that recovery fails (`openHistoryStore.ts:52`, "reads and writes still work") and
  the archive is above its allowance with such a chunk among the oldest, every commit's prune
  throws over it (`record.coverage` of no row, `IdbHistoryStore.ts:756`-`:764`), and the
  recorder takes each for a vanished row and lets its session go, until a page recovers.
- `src/README.md:455` has "open and currently viewed sessions" protected from eviction; what
  is viewed is known to the page's own store only (`IdbHistoryStore.ts:638`, `:796`), so
  another tab's commit or recovery may evict it.
- In `historyBrowser.ts`, `refreshLedgerInto` and `deleteRingLedger` bump a slot's token
  without resetting `loading`; `loadSession` with a window bumps the token of a download,
  which then stays at "working"; a failed session read's message is cleared by a later
  successful refresh; filing a stored log sets the slot to the connected pack's key even
  while Stats shows another's; a failed deletion still goes to the Log; an export may say
  it is done after a read of a stretch failed and blanked the page.

In Google sync: a publication that took effect unheard, followed by an owner who goes back
to the old value, is read as agreement with neither side changed; followed by another edit,
as a conflict with the device's own revision; and two tabs of one browser keep a baseline
each (`syncPreferences.ts:47`).

## What is not modelled

`PROJECT.json` lists every component with its status. Of the modelled ones:

- *Recorder*: what a row holds (columns, coverage, hour totals, energy), the idle sweep's
  clock, the heartbeat's age, the solar stream as a second builder.
- *Pack link*: frames and their assembly, the stored-log read that shares the link, the
  length of any timer (so the retry ladder's growth is its presence).
- *Solar link*: decryption, what an advertisement says, a key that does not parse.
- *Hold*: the readings themselves, the length of the window.
- *Ledgers*: what a record says, clock segments (`ringClock.ts`) and the display budget
  (`ringBudget.ts`), which are arithmetic over rows.
- *Archive*: warnings, devices and ledgers as stores of their own, a blocked or upgraded
  open, unreadable rows. In `SessionRecorder`: hourly summaries and which
  row is old or viewed (`ArchiveStore` has these); a prune that throws is its "aborted".
- *Google sync*: opening an older revision on request (`openRevision`).
- *Browser*: the selected hour and stretch, labels, the second ledger slot (a twin of the
  first), `dispose` and `windowWarnings` (which nothing calls).
- *Sync*: the bytes of a publication, its parts' hashes, sign-in, the Drive requests'
  retries below one call.

Most of the repository's lines are outside the map, and would stay so in any model of it:
views and charts, number formatting, layouts, themes and tests; test doubles of the
radios and the capture scripts; codecs (frames, registers, columns) whose
correctness is a byte-for-byte matter that the unit tests settle with recorded data;
floating-point instruments (damping, reach, balance, day figures) without state that
another component depends on; the service worker, which is generated. The map counts the
lines where actors meet.

Backup (`application/backup/*`) is left out apart from capture, restore and the choice of
archive, which `ArchiveStore` and `HistoryBrowser` have: its workspace does one thing at a
time under a busy flag. The sweep's request protocol, the tunnel's reassembler and the
frame assembler are sequential; what a lost or torn answer leaves of them is in the two
ledgers' reads. A database open that another page blocks (`openHistoryStore.ts:85`) and bytes
lost between the tunnel's notifications (`TunnelReassembler.ts:66`) are named here since no
property covers them.

## The plan

The modules planned are written, and of the safety properties the runs check all are proved
but the one named under *Not proved*. What would come next: `AllowanceIsKept` from assumptions
on the retention and the number of summaries.
