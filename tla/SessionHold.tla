----------------------------- MODULE SessionHold -----------------------------
(***************************************************************************)
(* What telemetry makes of the two radios: whether the instruments are     *)
(* live, which recording the rows go to, and the one window that stands    *)
(* over a recording while a radio is away.  PackLink and SolarLink have    *)
(* the radios in detail; here each is what telemetry shows of it.  The     *)
(* recording is what SessionRecorder keeps of its open session.            *)
(*                                                                         *)
(* An operator on a world w is a synchronous stretch of code.  A window    *)
(* has no length here: while it stands it may run out at any time.         *)
(***************************************************************************)
EXTENDS FiniteSets, Naturals

CONSTANTS
  Packs,           \* the packs a chooser offers
  NoPack,
  MaxHappenings    \* bound: presses, drops and turns of a behaviour

ASSUME SessionHoldAssumption ==
  NoPack \notin Packs /\ MaxHappenings \in Nat

VARIABLES
  pack,     \* the pack as telemetry shows it, and the pack behind it
  solar,    \* the controller, and whether a sweep has its radio
  app,      \* live: source is 'live'; armed, remembered; the page
  held,     \* heldOpen, and the word its window ends a session with
  rec,      \* the recorder's open session
  spent     \* how many of MaxHappenings have happened

vars == <<pack, solar, app, held, rec, spent>>

-----------------------------------------------------------------------------
NoHold == [awaiting |-> "none", reason |-> "none", own |-> FALSE]

\* key: the pack last identified, which a session is filed under.  No state of the
\* code are rows, the packs that have rows in the session, swapped, that another
\* pack came up into it while nothing waited for the first, and by, what ended
\* the session before.
Init ==
  /\ pack = [state |-> "idle", id |-> NoPack, by |-> "none"]
  /\ \E known \in BOOLEAN : solar = [state |-> "idle", known |-> known, lent |-> FALSE]
  /\ \E armed \in BOOLEAN, remembered \in Packs \cup {NoPack} :
       app = [live |-> FALSE, armed |-> armed, remembered |-> remembered,
              front |-> TRUE, gone |-> FALSE]
  /\ held = NoHold
  /\ rec = [open |-> FALSE, exempt |-> FALSE, key |-> NoPack, rows |-> {},
            swapped |-> FALSE, by |-> "none"]
  /\ spent = 0

World == [pack |-> pack, solar |-> solar, app |-> app, held |-> held, rec |-> rec]

Become(w) ==
  \E next \in {w} :
    /\ pack' = next.pack
    /\ solar' = next.solar
    /\ app' = next.app
    /\ held' = next.held
    /\ rec' = next.rec

Happens == ~app.gone /\ spent < MaxHappenings /\ spent' = spent + 1
Goes == ~app.gone /\ UNCHANGED spent
Pressed == app.front /\ Happens

-----------------------------------------------------------------------------
(* The recorder, as far as telemetry moves it. *)

Finish(w, reason) ==
  [w EXCEPT !.rec = [w.rec EXCEPT !.exempt = FALSE, !.open = FALSE, !.rows = {},
                       !.swapped = FALSE, !.by = IF w.rec.open THEN reason ELSE w.rec.by],
            !.held.own = FALSE]

\* ensureOpen: a new session is filed under the pack last identified.
Recorded(w, rows) == [w EXCEPT !.rec.open = TRUE, !.rec.rows = @ \cup rows]

-----------------------------------------------------------------------------
(* The window. *)

BothIdle(w) == w.pack.state = "idle" /\ w.solar.state = "idle"
Up == {"listening", "live"}
Reporting(w) == w.pack.state \in {"live", "leaving"} \/ w.solar.state \in Up
RejoinIsExpected(w) == w.app.armed /\ w.app.remembered # NoPack

ReleaseHoldOnly(w) ==                                        \* mutant
  [w EXCEPT !.held = NoHold]

ReleaseHold(w) ==
  IF w.held.awaiting = "none" THEN w
  ELSE [w EXCEPT !.held = NoHold, !.rec.exempt = FALSE]

\* own is no state of the code: the window was taken, or told again, over the
\* session that is open.
HoldSessionOpen(w, awaiting, reason) ==
  LET standing == IF w.held.awaiting = awaiting THEN w
                  ELSE [ReleaseHold(w) EXCEPT
                          !.held = [awaiting |-> awaiting, reason |-> reason,
                                    own |-> FALSE]]
  IN  [standing EXCEPT !.rec.exempt = w.rec.open, !.held.own = w.rec.open]

ReleasePageHold(w) == IF w.held.awaiting = "page" THEN ReleaseHold(w) ELSE w

\* settleView: remembered or nothing, but no longer live.
SettleView(w) == IF Reporting(w) THEN w ELSE [w EXCEPT !.app.live = FALSE]

SettleAfterLiveWaiting(w, reason) ==                         \* mutant
  IF w.held.awaiting = "pack" THEN SettleView(w)
  ELSE IF ~BothIdle(w) \/ (~w.app.live /\ w.held.awaiting = "none") THEN ReleaseHold(w)
  ELSE SettleView(Finish(ReleaseHold(w), reason))

\* A press about one radio is no answer about the other: while the pack is still
\* gone after, its window is what ends the session.
SettleAfterLive(w, reason) ==
  LET freed == ReleaseHold(w) IN
  IF w.held.awaiting = "pack" /\ RejoinIsExpected(w) THEN SettleView(w)
  ELSE IF ~BothIdle(w) \/ (~w.app.live /\ w.held.awaiting = "none") THEN freed
  ELSE SettleView(Finish(freed, reason))

SettleAfterDrop(w, reason) ==
  IF ~RejoinIsExpected(w) THEN SettleAfterLive(w, reason)
  ELSE LET standing == HoldSessionOpen(w, "pack", reason)
       IN  IF BothIdle(w) THEN SettleView(standing) ELSE standing

SettleForAnyPack(w, chosen) == ReleaseHold(w)                \* mutant

SettleForChosenPack(w, chosen) ==
  IF w.held.awaiting = "pack" /\ chosen # w.app.remembered
  THEN Finish(ReleaseHold(w), "device-changed") ELSE ReleaseHold(w)

-----------------------------------------------------------------------------
(* The pack. *)

\* attachToRememberedPack and connectBms both begin here; Connect also takes the
\* instruments off a remembered session.
PackTried ==
  /\ pack.state = "idle"
  /\ \/ /\ Pressed
        /\ Become([World EXCEPT !.pack = [state |-> "connecting", id |-> NoPack,
                                          by |-> "press"]])
     \/ /\ RejoinIsExpected(World)
        /\ Goes
        /\ Become([World EXCEPT !.pack = [state |-> "connecting", id |-> app.remembered,
                                          by |-> "loop"]])

PackComesUp ==
  /\ pack.state = "connecting"
  /\ Goes
  /\ \E chosen \in IF pack.by = "loop" THEN {pack.id} ELSE Packs :
       LET swaps == rec.rows \ {chosen} # {} /\ held.awaiting # "pack"
           over == [World EXCEPT !.rec.swapped = @ \/ swaps]
           settled == IF pack.by = "loop" THEN ReleaseHold(over)
                      ELSE SettleForChosenPack(over, chosen)
       IN  Become([settled EXCEPT !.pack.state = "live", !.pack.id = chosen,
                                  !.app.live = TRUE, !.app.remembered = chosen,
                                  !.app.armed = @ \/ pack.by = "press"])

PackFails ==
  /\ pack.state = "connecting"
  /\ Goes
  /\ Become([World EXCEPT !.pack = [state |-> "idle", id |-> NoPack, by |-> "none"]])

\* A cell frame.
Snapshot ==
  /\ pack.state = "live"
  /\ app.live
  /\ Goes
  /\ Become(Recorded(World, {pack.id}))

\* The frame that says which pack it is.
Identified ==
  /\ pack.state = "live"
  /\ Goes
  /\ LET contradicts == rec.open /\ rec.key \notin {NoPack, pack.id}
         filed == IF contradicts THEN Recorded(Finish(World, "device-changed"), {})
                  ELSE World
     IN  Become([filed EXCEPT !.rec.key = pack.id])

Drop(w) == [w EXCEPT !.pack = [state |-> "idle", id |-> NoPack, by |-> "none"]]

PackDrops ==
  /\ pack.state = "live"
  /\ Happens
  /\ \E reason \in {"link-lost", "stalled"} :
       Become(SettleAfterDrop(Drop(World), reason))

\* disarmRejoin, and the loops' answer to it: an attempt of theirs ends.
Disarm(w) ==
  [w EXCEPT !.app.armed = FALSE,
            !.solar.state = IF @ = "connecting" THEN "idle" ELSE @]

\* disconnectBms, down to the unsubscribe a live link waits for.
PressDisconnect ==
  /\ pack.state \in {"connecting", "live"}
  /\ Pressed
  /\ Become(IF pack.state = "live"
            THEN [Disarm(World) EXCEPT !.pack.state = "leaving"]
            ELSE SettleAfterLive(Drop(Disarm(World)), "user-disconnect"))

Unsubscribed ==
  /\ pack.state = "leaving"
  /\ Goes
  /\ Become(SettleAfterLive(Drop(World), "user-disconnect"))

PressRejoin ==
  /\ Pressed
  /\ Become([World EXCEPT !.app.armed = TRUE])

-----------------------------------------------------------------------------
(* The controller. *)

ClaimInstruments(w) == [w EXCEPT !.app.live = TRUE]

StopSolarLink(w) == [w EXCEPT !.solar.state = "idle"]

MayResume(w) == w.app.front /\ w.app.armed /\ w.solar.known /\ ~w.solar.lent

\* startSolar, and resumeSolar by the supervisor.
SolarTried ==
  /\ solar.state = "idle"
  /\ \/ Pressed
     \/ MayResume(World) /\ Goes
  /\ Become([World EXCEPT !.solar.state = "connecting"])

\* A watch the owner pressed for takes the instruments, one that resumed does not.
SolarComesUp ==
  /\ solar.state = "connecting"
  /\ Goes
  /\ LET up == [World EXCEPT !.solar.state = "listening"]
     IN  \/ Become([ClaimInstruments(up) EXCEPT !.app.armed = TRUE, !.solar.known = TRUE])
         \/ MayResume(World) /\ Become(up)

SolarFails ==
  /\ solar.state = "connecting"
  /\ Goes
  /\ Become(StopSolarLink(World))

\* onReading.
Reading ==
  /\ solar.state \in Up
  /\ Goes
  /\ LET heard == ClaimInstruments([World EXCEPT !.solar.state = "live"])
     IN  Become(Recorded(ReleasePageHold(heard), {}))

Stale ==
  /\ solar.state = "live"
  /\ Goes
  /\ Become([World EXCEPT !.solar.state = "listening"])

\* noteSolarWatchTornDown.
WatchTornDown ==
  /\ solar.state \in Up
  /\ Happens
  /\ Become(SettleView(StopSolarLink(World)))

PressStopSolar ==
  /\ solar.state # "idle"
  /\ Pressed
  /\ Become(SettleAfterLive(StopSolarLink([World EXCEPT !.solar.known = FALSE]),
                            "user-disconnect"))

\* handTheRadioToTheTunnel.
SweepClaims ==
  /\ ~solar.lent
  /\ Pressed
  /\ LET lent == StopSolarLink([World EXCEPT !.solar.lent = TRUE])
     IN  Become(IF solar.state \in Up THEN SettleView(lent) ELSE lent)

SweepEnds ==
  /\ solar.lent
  /\ Goes
  /\ Become([World EXCEPT !.solar.lent = FALSE])

\* standDownSolar: held only when this leaves nothing reporting.
StandDownSolar(w) ==
  LET down == StopSolarLink(w)
  IN  IF Reporting(down) THEN down
      ELSE SettleView(HoldSessionOpen(down, "page", "page-away"))

\* The supervisor looks while the page is behind another window.
LookedAway(w) ==
  IF w.app.armed /\ w.solar.known /\ (w.solar.state # "idle" \/ w.solar.lent)
  THEN StandDownSolar(w) ELSE w

TurnPage ==
  /\ Happens
  /\ LET turned == [World EXCEPT !.app.front = ~@]
     IN  Become(IF app.front THEN LookedAway(turned) ELSE turned)

LookWhileAway ==
  /\ ~app.front
  /\ Goes
  /\ Become(LookedAway(World))

-----------------------------------------------------------------------------
(* What ends a session by itself. *)

WindowKeepsExempt(w) ==                                      \* mutant
  IF w.pack.state \in {"live", "leaving"} \/ w.solar.state # "idle"
  THEN [w EXCEPT !.held = NoHold] ELSE Finish([w EXCEPT !.held = NoHold], w.held.reason)

\* finishAfterHold: an attempt in flight does not count.
WindowRunsOut(w) ==
  LET over == [w EXCEPT !.held = NoHold, !.rec.exempt = FALSE]
  IN  IF w.pack.state \in {"live", "leaving"} \/ w.solar.state # "idle" THEN over
      ELSE Finish(over, w.held.reason)

Window ==
  /\ held.awaiting # "none"
  /\ Goes
  /\ Become(WindowRunsOut(World))

\* The recorder's own guard, two minutes after the last row.
IdleSweep ==
  /\ rec.open /\ ~rec.exempt
  /\ pack.state \notin {"live", "leaving"} /\ solar.state # "live"
  /\ Goes
  /\ Become(Finish(World, "stalled"))

\* The archive is lost, or the lease refused: the recorder lets its session go
\* without a word to telemetry.
SessionLost ==
  /\ rec.open
  /\ Happens
  /\ Become(Finish(World, "archive-lost"))

\* dispose: the session is deliberately not closed.
Dispose ==
  /\ Happens
  /\ Become([ReleaseHold(World) EXCEPT !.app.gone = TRUE])

PackSteps ==
  \/ PackTried \/ PackComesUp \/ PackFails \/ Snapshot \/ Identified
  \/ PackDrops \/ PressDisconnect \/ Unsubscribed \/ PressRejoin

SolarSteps ==
  \/ SolarTried \/ SolarComesUp \/ SolarFails \/ Reading \/ Stale
  \/ WatchTornDown \/ PressStopSolar \/ SweepClaims \/ SweepEnds
  \/ TurnPage \/ LookWhileAway

Next == PackSteps \/ SolarSteps \/ Window \/ IdleSweep \/ SessionLost \/ Dispose

\* Timers fire, and an unsubscribe or an attempt comes to an end.
Fairness ==
  /\ WF_vars(Window)
  /\ WF_vars(IdleSweep)
  /\ WF_vars(Unsubscribed)
  /\ WF_vars(PackComesUp \/ PackFails)
  /\ WF_vars(SolarComesUp \/ SolarFails)

Spec == Init /\ [][Next]_vars /\ Fairness

-----------------------------------------------------------------------------
(* Properties. *)

PackStates == {"idle", "connecting", "live", "leaving"}
Reasons == {"none", "link-lost", "stalled", "page-away"}

\* Every variable stays in its range, and a window has the word it ends with.
TypeOK ==
  /\ pack \in [state : PackStates, id : Packs \cup {NoPack}, by : {"none", "press", "loop"}]
  /\ solar \in [state : {"idle", "connecting"} \cup Up, known : BOOLEAN, lent : BOOLEAN]
  /\ app \in [live : BOOLEAN, armed : BOOLEAN, remembered : Packs \cup {NoPack},
              front : BOOLEAN, gone : BOOLEAN]
  /\ held \in [awaiting : {"none", "pack", "page"}, reason : Reasons, own : BOOLEAN]
  /\ held.awaiting = "none" <=> held.reason = "none"
  /\ rec \in [open : BOOLEAN, exempt : BOOLEAN, key : Packs \cup {NoPack},
              rows : SUBSET Packs, swapped : BOOLEAN,
              by : Reasons \cup {"user-disconnect", "device-changed", "archive-lost"}]
  /\ spent \in 0 .. MaxHappenings

\* A session out of the recorder's own guard has a window counting for it.
ExemptIsCountedFor == rec.exempt => rec.open /\ held.awaiting # "none" /\ held.own

\* A session that a radio is writing into is in the recorder's guard.
FedIsNotExempt == rec.exempt => pack.state # "live"

\* However causes replace each other and radios come back inside their windows, a
\* session is left to a window exactly while something counts for it.
GuardOrWindow == TypeOK /\ ExemptIsCountedFor /\ FedIsNotExempt

\* A deliberate stop is not a gap: Disconnect over a session that stands open for
\* a radio closes it, unless the controller is feeding it.
Closed == rec.open /\ ~rec.open'
DisconnectEndsTheGap ==
  [][app.armed /\ ~app'.armed /\ rec.exempt => Closed \/ solar.state \in Up]_vars

\* Does not hold: "A stale window cannot end the next."
WindowEndsItsOwn == [][Closed /\ Window => held.own]_vars

\* Does not hold: no "live badge over a dashboard with no numbers."
LiveBadgeIsFed == app.live => ~BothIdle(World)

\* The rows of two packs are in one session only where nothing waited for the
\* first when the second came up.
WaitingSessionIsOnePacks == Cardinality(rec.rows) <= 1 \/ rec.swapped

\* Does not hold: "A session is one pack's outing: the rows and the closing figures are the bank
\* that recorded them, and none of the other bank's."
OnePackOneSession == Cardinality(rec.rows) <= 1

\* A session no radio writes into any more is closed.
Fed == pack.state = "live" \/ solar.state = "live"
SilentSessionEnds == <>[](~Fed /\ ~app.gone) => <>[](~rec.open)

=============================================================================
