------------------------------ MODULE PackLink ------------------------------
(***************************************************************************)
(* The one GATT link to the pack: JkBmsClient, which makes and ends it,    *)
(* the rejoin supervisor, which decides when to go back for it, and the    *)
(* part of telemetry between them, which shows it and takes the owner's    *)
(* presses.                                                                *)
(*                                                                         *)
(* Everything a call does before its next await is one step.  An operator  *)
(* on a world w is such a call, from the state w to the state it leaves;   *)
(* promise reactions run before the browser's next task, so they are part  *)
(* of the step that settles the promise.  Durations are left out: a timer  *)
(* that runs may fire at any time.                                         *)
(***************************************************************************)
EXTENDS FiniteSets, Naturals

CONSTANTS
  Packs,           \* the packs in reach of the boat's browser
  NoPack,
  MaxHappenings    \* bound: presses, faults and turns of a behaviour

ASSUME PackLinkAssumption ==
  NoPack \notin Packs /\ MaxHappenings \in Nat

VARIABLES
  client,    \* the JkBmsClient
  app,       \* telemetry: what is shown, what the owner asked for
  loop,      \* the rejoin supervisor
  page,      \* mounted or not, in front or not, radio on or not, packs the
             \* browser permits
  up,        \* the packs a GATT link of this page reaches
  spent      \* how many of MaxHappenings have happened

vars == <<client, app, loop, page, up, spent>>

\* connect and reconnect, while they run.  id is the pack asked for, NoPack for
\* a chooser; current says attachToken is still this attempt's; keeper, who can
\* abort it: nobody ("press"), the supervisor ("loop"), or one that already has
\* ("stale").
NoAttempt ==
  [stage |-> "none", id |-> NoPack, target |-> NoPack, current |-> FALSE,
   budget |-> "none", patience |-> "none", aborted |-> FALSE, keeper |-> "press"]

Init ==
  /\ client = [device |-> NoPack, subscribed |-> FALSE, wired |-> FALSE,
               attempt |-> NoAttempt, closing |-> {}]
  /\ \E pack \in Packs \cup {NoPack}, armed \in BOOLEAN :
       app = [shown |-> "idle", armed |-> armed, remembered |-> pack, waiting |-> {}]
  /\ loop = [running |-> FALSE, standing |-> "none", look |-> FALSE,
             recent |-> FALSE, blocker |-> "none"]
  /\ page = [view |-> "mounting", front |-> TRUE, adapterOn |-> TRUE,
             permitted |-> Packs]
  /\ up = {}
  /\ spent = 0

World == [client |-> client, app |-> app, loop |-> loop, page |-> page, up |-> up]

Become(w) ==
  /\ client' = w.client
  /\ app' = w.app
  /\ loop' = w.loop
  /\ page' = w.page
  /\ up' = w.up

Happens == spent < MaxHappenings /\ spent' = spent + 1

\* What the owner does, with the page's controls on screen.
Pressed == page.view = "mounted" /\ Happens

-----------------------------------------------------------------------------
(* JkBmsClient: letting go. *)

Handshaking == {"connect", "discover", "subscribe"}
Attaching == Handshaking \cup {"unwinding"}

\* attachToken moves on: whatever awaits under an older one is superseded.
Bump(w) ==
  [w EXCEPT !.client.attempt.current = FALSE,
            !.client.closing = {[c EXCEPT !.last = FALSE] : c \in @}]

LetGoHalfOpen(w, then) ==                                   \* mutant
  [Bump(w) EXCEPT !.client.device = NoPack, !.client.subscribed = FALSE,
                  !.client.wired = FALSE]

\* tearDownLink, down to its only await: the unsubscribe of a subscribed link.
\* Without one the handle is dropped at once.
LetGo(w, then) ==
  LET b == Bump(w)
      pack == w.client.device
      gone == [b EXCEPT !.client.device = NoPack, !.client.subscribed = FALSE,
                        !.client.wired = FALSE]
  IN  IF w.client.subscribed
      THEN [gone EXCEPT !.client.closing =
              @ \cup {[pack |-> pack, last |-> TRUE, then |-> then]}]
      ELSE [gone EXCEPT !.up = @ \ {pack}]

\* A teardown an attempt was waiting for, once that attempt has settled.
Orphaned(closing) ==
  {[c EXCEPT !.then = IF @ = "unwind" THEN "nobody" ELSE @] : c \in closing}

FailForGood(w, error) ==                                    \* mutant
  [w EXCEPT !.client.attempt = NoAttempt, !.client.closing = Orphaned(@),
            !.app.shown = "idle", !.app.waiting = {},
            !.loop.standing = "none"]

\* The attempt in flight rejects: everybody who waits for it puts the page back
\* to idle, and the supervisor prices the failure of its own.
Fail(w, error) ==
  LET failed == [w EXCEPT !.client.attempt = NoAttempt,
                          !.client.closing = Orphaned(@),
                          !.app.shown = "idle",
                          !.app.waiting = {}]
  IN  IF "loop" \notin w.app.waiting THEN failed
      ELSE IF error \in {"permission-gone", "browser-cannot-rejoin"}
      THEN [failed EXCEPT !.loop.standing = "none", !.loop.blocker = error]
      ELSE [failed EXCEPT !.loop.standing = "none",
                          !.loop.look = w.loop.running]

\* attach has failed: the probe falls through to the wait for a sighting.
AttachFails(w, error) ==
  IF w.client.attempt.budget = "probe" /\ error = "radio"
  THEN [w EXCEPT !.client.attempt.stage = "sighting",
                 !.client.attempt.budget = "none",
                 !.client.closing = Orphaned(@)]
  ELSE Fail(w, error)

\* The supervisor's signal aborts: nothing waits for the radio to agree.
Abort(w) ==
  LET attempt == w.client.attempt IN
  IF attempt.keeper # "loop" THEN w
  ELSE IF attempt.stage \in Attaching THEN Fail(LetGo(w, "nobody"), "abort")
  ELSE IF attempt.stage = "sighting" THEN Fail(w, "abort")
  ELSE [w EXCEPT !.client.attempt.aborted = TRUE]

-----------------------------------------------------------------------------
(* The rejoin supervisor. *)

StandDown(w) ==
  LET superseded == [w EXCEPT !.loop.look = FALSE, !.loop.standing = "none",
                       !.app.waiting = {IF x = "loop" THEN "stale" ELSE x : x \in @}]
      aborted == Abort(superseded)
  IN  [aborted EXCEPT !.client.attempt.keeper = IF @ = "loop" THEN "stale" ELSE @]

LinkBusy(w) == w.app.shown \in {"live", "connecting"}

MayTryUnasked(w) == w.page.adapterOn /\ w.app.remembered # NoPack   \* mutant

MayTry(w) == w.app.armed /\ w.page.adapterOn /\ w.app.remembered # NoPack

PatienceThePageAllows(w) ==
  IF w.page.front THEN "wait-for-a-sighting" ELSE "straight-in-only"

Stranded(w) == w.loop.standing = "wait-for-a-sighting" /\ ~w.page.front

ReportBlocker(w) ==
  [w EXCEPT !.loop.blocker =
     IF ~w.app.armed \/ w.app.remembered = NoPack \/ LinkBusy(w) THEN "none"
     ELSE IF ~w.page.adapterOn THEN "radio-off"
     ELSE IF @ = "permission-gone" THEN @ ELSE "none"]

\* The attempt just begun rejects without one of the client's behind it.
LoopFails(w) ==
  [w EXCEPT !.app.shown = "idle", !.app.waiting = @ \ {"loop"},
            !.loop.standing = "none", !.loop.look = w.loop.running]

LoopSucceeds(w) ==
  [w EXCEPT !.app.shown = "live", !.app.waiting = @ \ {"loop"},
            !.loop.standing = "none", !.loop.blocker = "none"]

\* beginAttempt, and reconnect under it: a running attempt for the same pack is
\* joined, a link already held answers at once.
BeginAttempt(w) ==
  LET pack == w.app.remembered
      begun == [w EXCEPT !.loop.standing = PatienceThePageAllows(w),
                         !.loop.recent = TRUE,
                         !.app.shown = "connecting",
                         !.app.waiting = @ \cup {"loop"}]
      attempt == w.client.attempt
  IN  IF attempt.stage # "none"
      THEN IF attempt.id = pack THEN begun ELSE LoopFails(begun)
      ELSE IF w.client.device # NoPack
      THEN IF w.client.device = pack THEN LoopSucceeds(begun) ELSE LoopFails(begun)
      ELSE [begun EXCEPT !.client.attempt =
              [NoAttempt EXCEPT !.stage = "listing", !.id = pack, !.target = pack,
                                !.patience = PatienceThePageAllows(w),
                                !.keeper = "loop"]]

LookWhileFree(w) ==                                         \* mutant
  IF ~w.loop.running \/ ~MayTry(w) \/ LinkBusy(w) \/ w.loop.standing # "none"
  THEN [w EXCEPT !.loop.look = FALSE]
  ELSE BeginAttempt([w EXCEPT !.loop.look = FALSE])

\* look.  A stand-down's rejections have not been heard yet when it goes on, so
\* it asks of the state before them whether the link is busy, and an attempt it
\* begins over a drop joins the one it has just aborted.
Look(w) ==
  LET asked == ReportBlocker([w EXCEPT !.loop.look = FALSE])
      standing == w.loop.standing # "none"
      free == IF standing THEN StandDown(asked) ELSE asked
  IN  IF ~w.loop.running THEN [w EXCEPT !.loop.look = FALSE]
      ELSE IF ~MayTry(w) THEN StandDown(asked)
      ELSE IF standing /\ ~Stranded(w) THEN asked
      ELSE IF LinkBusy(w) \/ w.loop.recent THEN [free EXCEPT !.loop.look = TRUE]
      ELSE IF standing /\ free.client.attempt.stage = "none"
      THEN [free EXCEPT !.loop.look = TRUE, !.loop.recent = TRUE]
      ELSE BeginAttempt(free)

TryNow(w) ==
  IF w.loop.standing # "none" THEN w
  ELSE LET asked == ReportBlocker([w EXCEPT !.loop.look = FALSE])
       IN  IF w.app.remembered = NoPack \/ LinkBusy(w) THEN asked
           ELSE BeginAttempt(asked)

-----------------------------------------------------------------------------
(* Telemetry. *)

ArmRejoin(w) == Look([w EXCEPT !.app.armed = TRUE])
DisarmRejoin(w) == Look([w EXCEPT !.app.armed = FALSE])

\* onDisconnect: the link went away on its own.
Dropped(w) == Look([w EXCEPT !.app.shown = "idle"])

\* What waits for a teardown, once the handle has been dropped.
Closed(w, then, last) ==
  CASE then = "owner" -> [w EXCEPT !.app.shown = "idle"]
    [] then = "stalled" -> IF last THEN Dropped(w) ELSE w
    [] then = "unwind" -> AttachFails(w, "radio")
    [] then = "nobody" -> w

\* disconnect, which also stands down a wait for a sighting.
Close(w, then) ==
  LET awake == IF w.client.attempt.stage = "sighting" THEN Fail(w, "abort") ELSE w
      gone == LetGo(awake, then)
  IN  IF awake.client.subscribed THEN gone ELSE Closed(gone, then, TRUE)

\* disconnectBms: disarmed before the link is let go, and not after.
DisconnectBms(w) == Close(DisarmRejoin(w), "owner")

\* The attempt in flight resolves: the link is up.  A press that joined it has
\* armed the intent by the time the supervisor asks whether the link is wanted.
Succeed(w) ==
  LET live == [w EXCEPT !.client.wired = TRUE,
                        !.client.attempt = NoAttempt,
                        !.app.shown = "live",
                        !.app.remembered = w.client.device]
      pressed == IF "press" \in w.app.waiting THEN ArmRejoin(live) ELSE live
      tried == pressed.app.waiting \cap {"loop", "stale"}
      heard == [pressed EXCEPT !.app.waiting = {}]
  IN  CASE tried # {} /\ ~heard.app.armed -> DisconnectBms(heard)
        [] "loop" \in tried /\ heard.app.armed -> LoopSucceeds(heard)
        [] OTHER -> heard

\* attach, down to its first await: what is still on the handle is dropped
\* before the drop listener goes on.
StartAttach(w, pack, budget) ==
  LET b == Bump(w) IN
  [b EXCEPT !.client.device = pack,
            !.client.attempt = [@ EXCEPT !.stage = "connect", !.target = pack,
                                         !.current = TRUE, !.budget = budget],
            !.up = @ \ {pack}]

-----------------------------------------------------------------------------
(* The owner's presses. *)

Attempt == client.attempt

\* Connect, offered while nothing is shown as up or coming up.
PressConnect ==
  /\ app.shown = "idle"
  /\ Pressed
  /\ LET pressed == [World EXCEPT !.app.shown = "connecting",
                                  !.app.waiting = @ \cup {"press"}]
     IN  CASE Attempt.stage # "none" -> Become(pressed)
           [] Attempt.stage = "none" /\ client.device # NoPack -> Become(World)
           [] Attempt.stage = "none" /\ client.device = NoPack ->
                Become([pressed EXCEPT !.client.attempt =
                          [NoAttempt EXCEPT !.stage = "choosing"]])

\* Choosing a pack is also what permits it.
ChooserPicks ==
  /\ Attempt.stage = "choosing"
  /\ \E pack \in Packs :
       Become(StartAttach([World EXCEPT !.page.permitted = @ \cup {pack}],
                          pack, "none"))
  /\ UNCHANGED spent

ChooserCancelled ==
  /\ Attempt.stage = "choosing"
  /\ Become(Fail(World, "abort"))
  /\ UNCHANGED spent

PressReconnect ==
  /\ app.shown = "idle"
  /\ app.remembered # NoPack
  /\ Pressed
  /\ Become(TryNow(ArmRejoin(World)))

\* Reconnect on the Bus view, and a Connect solar that succeeded.
PressRejoin ==
  /\ Pressed
  /\ Become(ArmRejoin(World))

\* Disconnect and Cancel.  The chooser covers the page while it is open.
PressDisconnect ==
  /\ app.shown # "idle"
  /\ Attempt.stage # "choosing"
  /\ Pressed
  /\ Become(DisconnectBms(World))

-----------------------------------------------------------------------------
(* One attempt, from await to await. *)

\* getDevices answers, or refuses to.  A handle that cannot be watched goes
\* straight in whatever the caller's patience.
ListingEnds ==
  /\ Attempt.stage = "listing"
  /\ IF Attempt.target \notin page.permitted
     THEN Become(Fail(World, "permission-gone"))
     ELSE IF Attempt.aborted
     THEN Become(Fail(World, "abort"))
     ELSE \E budget \in {"probe", "blind"} :
            /\ Attempt.patience = "straight-in-only" => budget = "blind"
            /\ Become(StartAttach(World, Attempt.target, budget))
  /\ UNCHANGED spent

ListingRefused ==
  /\ Attempt.stage = "listing"
  /\ Happens
  /\ Become(Fail(World, "browser-cannot-rejoin"))

Connects ==
  /\ Attempt.stage = "connect" /\ Attempt.current
  /\ page.adapterOn
  /\ Become([World EXCEPT !.client.attempt.stage = "discover",
                          !.up = @ \cup {Attempt.target}])
  /\ UNCHANGED spent

Discovers ==
  /\ Attempt.stage = "discover" /\ Attempt.current
  /\ Become([World EXCEPT !.client.attempt.stage = "subscribe",
                          !.client.subscribed = TRUE])
  /\ UNCHANGED spent

Subscribes ==
  /\ Attempt.stage = "subscribe" /\ Attempt.current
  /\ Become(Succeed(World))
  /\ UNCHANGED spent

\* A step of the handshake rejects.  The attempt lets go of its own link and
\* rejects when that is done.
HandshakeFails ==
  /\ Attempt.stage \in Handshaking /\ Attempt.current
  /\ LET gone == LetGo(World, "unwind")
     IN  IF client.subscribed
         THEN Become([gone EXCEPT !.client.attempt.stage = "unwinding"])
         ELSE Become(AttachFails(gone, "radio"))
  /\ UNCHANGED spent

\* A superseded handshake unwinds empty-handed: its request rejects, or answers
\* and finds the token moved on.
Unwinds ==
  /\ Attempt.stage \in Handshaking /\ ~Attempt.current
  /\ \E error \in {"radio", "abort"} : Become(AttachFails(World, error))
  /\ UNCHANGED spent

\* attachWithin's deadline.
TimesOut ==
  /\ Attempt.stage \in Attaching
  /\ Attempt.budget # "none"
  /\ Become(AttachFails(LetGo(World, "nobody"), "radio"))
  /\ UNCHANGED spent

\* The pack is heard from: only with the page in front is there a watch.
Sighted ==
  /\ Attempt.stage = "sighting"
  /\ page.front /\ page.adapterOn
  /\ Become(StartAttach(World, Attempt.target, "sighted"))
  /\ UNCHANGED spent

WatchRefused ==
  /\ Attempt.stage = "sighting"
  /\ Become(Fail(World, "radio"))
  /\ UNCHANGED spent

TearDownEndsAnyway ==                                       \* mutant
  /\ \E c \in client.closing :
       Become(Closed([World EXCEPT !.client.closing = @ \ {c},
                                   !.up = @ \ {c.pack}], c.then, c.last))
  /\ UNCHANGED spent

\* The unsubscribe of a torn-down link ends.  The handle is dropped unless a
\* newer attempt has adopted it.
TearDownEnds ==
  /\ \E c \in client.closing :
       LET ended == [World EXCEPT !.client.closing = @ \ {c},
                       !.up = IF client.device # c.pack THEN @ \ {c.pack} ELSE @]
       IN  Become(Closed(ended, c.then, c.last))
  /\ UNCHANGED spent

-----------------------------------------------------------------------------
(* The supervisor's timers. *)

Deadline ==
  /\ loop.standing # "none"
  /\ Become(Abort(World))
  /\ UNCHANGED spent

LookDue ==
  /\ loop.look
  /\ Become(Look(World))
  /\ UNCHANGED spent

GapEnds ==
  /\ loop.recent
  /\ Become([World EXCEPT !.loop.recent = FALSE])
  /\ UNCHANGED spent

-----------------------------------------------------------------------------
(* What happens to the page and the link. *)

\* The link goes away on its own.  Only the device held is listened to.
Drop ==
  /\ Happens
  /\ \E pack \in up :
       LET lost == [World EXCEPT !.up = @ \ {pack}]
           b == Bump(lost)
       IN  IF client.device # pack THEN Become(lost)
           ELSE Become(Dropped([b EXCEPT !.client.device = NoPack,
                                         !.client.subscribed = FALSE,
                                         !.client.wired = FALSE]))

\* Three silences running: checkStall gives up on a link still up.
Stall ==
  /\ client.wired
  /\ client.device \in up
  /\ Happens
  /\ Become(Close(World, "stalled"))

TurnPage ==
  /\ Happens
  /\ Become(Look([World EXCEPT !.page.front = ~@]))

TurnAdapter ==
  /\ Happens
  /\ Become(Look([World EXCEPT !.page.adapterOn = ~@]))

Revoke ==
  /\ Happens
  /\ \E pack \in page.permitted :
       Become([World EXCEPT !.page.permitted = @ \ {pack}])

\* The page's component mounts, and unmounts.
Start ==
  /\ page.view = "mounting"
  /\ Become(Look([World EXCEPT !.page.view = "mounted", !.loop.running = TRUE]))
  /\ UNCHANGED spent

Stop ==
  /\ page.view = "mounted"
  /\ Happens
  /\ Become([StandDown([World EXCEPT !.page.view = "gone", !.loop.running = FALSE])
               EXCEPT !.loop.blocker = "none"])

Press ==
  PressConnect \/ PressReconnect \/ PressRejoin \/ PressDisconnect

Settles ==
  \/ ChooserPicks \/ ChooserCancelled \/ ListingEnds \/ ListingRefused
  \/ Connects \/ Discovers \/ Subscribes \/ HandshakeFails \/ Unwinds
  \/ TimesOut \/ Sighted \/ WatchRefused \/ TearDownEnds

Ticks == Deadline \/ LookDue \/ GapEnds

Turns == Drop \/ Stall \/ TurnPage \/ TurnAdapter \/ Revoke \/ Start \/ Stop

Next == Press \/ Settles \/ Ticks \/ Turns

\* Every promise settles one way or the other, except a wait for a sighting,
\* which its deadline ends; and timers fire.
Fairness ==
  /\ WF_vars(ChooserPicks \/ ChooserCancelled)
  /\ WF_vars(ListingEnds)
  /\ WF_vars(Connects \/ Discovers \/ Subscribes \/ HandshakeFails)
  /\ WF_vars(Unwinds)
  /\ WF_vars(TearDownEnds)
  /\ WF_vars(Deadline)
  /\ WF_vars(LookDue)
  /\ WF_vars(GapEnds)

Spec == Init /\ [][Next]_vars /\ Fairness

-----------------------------------------------------------------------------
(* Properties. *)

PackOrNone == Packs \cup {NoPack}

Attempts ==
  [stage : {"none", "choosing", "listing", "sighting"} \cup Attaching,
   id : PackOrNone, target : PackOrNone, current : BOOLEAN,
   budget : {"none", "blind", "probe", "sighted"},
   patience : {"none", "wait-for-a-sighting", "straight-in-only"},
   aborted : BOOLEAN, keeper : {"press", "loop", "stale"}]

Closings ==
  [pack : Packs, last : BOOLEAN, then : {"nobody", "owner", "stalled", "unwind"}]

\* Every variable stays in its range; a blocker is one of the three the page
\* can show.
TypeOK ==
  /\ client \in [device : PackOrNone, subscribed : BOOLEAN, wired : BOOLEAN,
                 attempt : Attempts, closing : SUBSET Closings]
  /\ app \in [shown : {"idle", "connecting", "live"}, armed : BOOLEAN,
              remembered : PackOrNone, waiting : SUBSET {"press", "loop", "stale"}]
  /\ loop \in [running : BOOLEAN, look : BOOLEAN, recent : BOOLEAN,
               standing : {"none", "wait-for-a-sighting", "straight-in-only"},
               blocker : {"none", "permission-gone", "browser-cannot-rejoin",
                          "radio-off"}]
  /\ page \in [view : {"mounting", "mounted", "gone"}, front : BOOLEAN, adapterOn : BOOLEAN, permitted : SUBSET Packs]
  /\ up \in SUBSET Packs
  /\ spent \in 0 .. MaxHappenings

Linked == client.wired /\ client.device \in up

\* "Resolves immediately when this pack is the one already connected": with no
\* attempt running, the pack the client holds is one with a link, watched for
\* silence, and it is the pack the page remembers.  A handle left over from a
\* failed, superseded or dropped handshake would be taken for a link.
HeldPackAnswers ==
  Attempt.stage = "none" /\ client.device # NoPack =>
    Linked /\ app.remembered = client.device

\* The pack allows one link.  One that is up is the one held, or one whose
\* teardown has still to drop it: nothing half-open survives an attempt that
\* failed, ran out of time, was stood down or was superseded.
NoStrayLink ==
  \A pack \in up :
    pack = client.device \/ \E c \in client.closing : c.pack = pack

\* The badge says live over a link, or while the teardown that will take it
\* down is still unsubscribing.
LiveIsALink ==
  app.shown = "live" =>
    Linked \/ \E c \in client.closing : c.then \in {"owner", "stalled"}

\* "Every attempt is born here, so there is no way to be holding an attempt
\* that nothing bounds": a reconnect that runs has a standing supervisor attempt
\* whose signal ends it, or has been aborted and waits only for the list.
AttemptsAreBounded ==
  Attempt.stage # "none" /\ Attempt.id # NoPack =>
    \/ loop.standing # "none" /\ Attempt.keeper = "loop"
    \/ Attempt.stage = "listing" /\ Attempt.aborted

\* Whatever attempts, teardowns and timers are outstanding: one link, the one held or
\* one being let go, shown for what it is and made by an attempt something bounds.
LinkIsAccountedFor ==
  TypeOK /\ HeldPackAnswers /\ NoStrayLink /\ LiveIsALink /\ AttemptsAreBounded

\* Does not hold.  What giveUp says of a press that lands while an unsubscribe is outstanding: by
\* the time it resumes a fresh link can be up, and a link that is answering must
\* not be reported as gone.
LinkIsShown ==
  Linked => app.shown = "live"

Wanted ==
  /\ loop.running /\ app.armed /\ page.adapterOn
  /\ app.remembered # NoPack

\* No link has come up over a disconnectBms still waiting for its unsubscribe:
\* what that one does when it resumes is a question of its own, and what is
\* said of a link being shown or sought again is said short of it.
NotOvertaken ==
  client.wired => \A c \in client.closing : c.then = "owner" => c.last

\* The supervisor is never asleep for no reason: while a link is wanted, none is
\* held or being let go and no press is making one, an attempt stands, a look is due, or the
\* owner is told what holds it back.
SleepsOnlyWithReason ==
  Wanted /\ app.shown = "idle" /\ client.device = NoPack /\ client.closing = {} =>
    loop.standing # "none" \/ loop.look \/ loop.blocker # "none"

\* A link that carries the pack ends by a press, a drop, a stall or another
\* turn of the outside world: no teardown, timer or late answer of an attempt
\* gone before takes it down.
LinkEndsOnlyFromOutside ==
  [][Linked /\ spent' = spent => Linked']_vars

\* "Disconnect is the off switch, and it sticks": once the intent stays
\* disarmed, every link is let go in the end and no attempt runs.
DisconnectSticks ==
  <>[]~app.armed => <>[](up = {} /\ Attempt.stage = "none")

\* "It never gives up": a supervisor that is wanted for good goes on making
\* attempts, unless a link is held or it says what holds it back.
NeverGivesUp ==
  <>[]Wanted =>
    []<>(loop.standing # "none" \/ client.device # NoPack \/ loop.blocker # "none")

=============================================================================
