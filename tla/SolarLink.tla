------------------------------ MODULE SolarLink ------------------------------
(***************************************************************************)
(* The link to the solar controller: the scan that listens for its          *)
(* advertisements (a watched device, the browser's own scan or the bridge's *)
(* socket), the supervisor that puts it back up, the sweep that borrows the *)
(* radio for the controller's stored history, and the part of telemetry     *)
(* between them.                                                            *)
(*                                                                          *)
(* As in PackLink, an operator on a world w is a synchronous stretch of     *)
(* code and an action runs up to the next await.  A watch registration is   *)
(* counted against a budget over a window of time, so time passes in ticks; *)
(* every other timer may fire at any time.  A cancelled operation rejects   *)
(* in the same turn (awaitSolarOperation), so nothing answers late.         *)
(***************************************************************************)
EXTENDS Integers, Sequences, FiniteSetsExt

CONSTANTS
  Transports,      \* among "watch", "scan" and "bridge"
  Window,          \* REARM_BUDGET_WINDOW_MS, in ticks
  Budget,          \* REARM_BUDGET
  FirstRearm,      \* FIRST_REARM_MS, in ticks
  RearmCeiling,    \* REARM_CEILING_MS, in ticks
  MaxHappenings    \* bound: presses, faults and turns of a behaviour

ASSUME SolarLinkAssumption ==
  /\ Transports \subseteq {"watch", "scan", "bridge"}
  /\ {Window, Budget, FirstRearm, RearmCeiling} \subseteq Nat \ {0}
  /\ FirstRearm <= RearmCeiling
  /\ MaxHappenings \in Nat

VARIABLES
  scan,     \* the scanner: its stage, its registrations, its re-arm ladder
  sol,      \* telemetry: what is shown, the intent, the sweep
  sup,      \* the solar rejoin supervisor
  page,     \* in front or not, radio on or not, controller permitted or not
  spent     \* how many of MaxHappenings have happened

vars == <<scan, sol, sup, page, spent>>

-----------------------------------------------------------------------------
\* stage is where start, resume and connect wait; auto tells a resume.  recent
\* holds the age of every registration not yet out of the window.
NoScan(recent) ==
  [stage |-> "off", auto |-> FALSE, recent |-> recent, gap |-> FirstRearm,
   due |-> 0, rearming |-> FALSE]

Init ==
  /\ scan = NoScan(<<>>)
  /\ \E armed, remembered, key \in BOOLEAN :
       sol = [state |-> "idle", naming |-> "none", armed |-> armed,
              remembered |-> remembered, key |-> key, sweep |-> "none",
              asked |-> FALSE, considered |-> FALSE, refused |-> FALSE,
              stoodDown |-> FALSE]
  /\ sup = [running |-> FALSE, look |-> FALSE, inFlight |-> FALSE,
            recent |-> FALSE, missed |-> FALSE, blocker |-> "none"]
  /\ \E transport \in Transports :
       page = [transport |-> transport, front |-> TRUE, adapterOn |-> TRUE,
               permitted |-> TRUE, view |-> "mounting"]
  /\ spent = 0

World == [scan |-> scan, sol |-> sol, sup |-> sup, page |-> page]

Stages == {"off", "asking", "listing", "budget", "key", "arming", "up"}
Up == {"listening", "live"}

\* A registration out of the window is not kept.
Worlds ==
  [scan : [stage : Stages, auto : BOOLEAN, recent : Seq(0 .. Window - 1),
           gap : Nat, due : Nat, rearming : BOOLEAN],
   sol  : [state : {"idle", "connecting"} \cup Up,
           naming : {"none", "start", "resume"}, armed : BOOLEAN,
           remembered : BOOLEAN, key : BOOLEAN, sweep : {"none", "reading"},
           asked : BOOLEAN, considered : BOOLEAN, refused : BOOLEAN,
           stoodDown : BOOLEAN],
   sup  : [running : BOOLEAN, look : BOOLEAN, inFlight : BOOLEAN, recent : BOOLEAN,
           missed : BOOLEAN,
           blocker : {"none", "permission-gone", "browser-cannot-rejoin", "radio-off"}],
   page : [transport : Transports, front : BOOLEAN, adapterOn : BOOLEAN,
           permitted : BOOLEAN, view : {"mounting", "mounted", "gone"}]]

Resuming(w) ==
  (w.scan.auto /\ w.scan.stage \notin {"off", "up"}) \/ w.sol.naming = "resume"

\* A resume that something else superseded returns without an error: to the
\* supervisor that is a success.
Settled[w \in Worlds] ==
  IF w.sup.inFlight /\ ~Resuming(w)
  THEN [w EXCEPT !.sup.inFlight = FALSE, !.sup.blocker = "none"] ELSE w

Become(w) ==
  \E next \in {Settled[w]} :
    scan' = next.scan /\ sol' = next.sol /\ sup' = next.sup /\ page' = next.page

Happens == spent < MaxHappenings /\ spent' = spent + 1
Pressed == page.view = "mounted" /\ page.front /\ Happens

-----------------------------------------------------------------------------
(* The scan. *)

\* solarWatchResumeAvailableAt: how many ticks until a registration is free.
WaitUnshared(recent) == 0                                    \* mutant
Wait(recent) ==
  LET n == Len(recent) IN
  IF n < Budget THEN 0 ELSE Window - recent[n - Budget + 1]

MayRegister(w) == w.page.transport # "watch" \/ Wait(w.scan.recent) = 0

Smaller(a, b) == IF a < b THEN a ELSE b

\* arm: the registration is counted when it is asked for, and the ladder grows.
Register(w) ==
  [w EXCEPT !.scan.recent = Append(@, 0),
            !.scan.due = w.scan.gap,
            !.scan.gap = Smaller(2 * @, RearmCeiling),
            !.scan.rearming = TRUE]

RestartLadder(w) == [w EXCEPT !.scan.gap = FirstRearm, !.scan.due = FirstRearm]

\* stop of the scan, and telemetry's stopSolarLink around it.  solarAttempt
\* moves on: what still waits for an archive read or a digest finds it gone.
StopSolarLink(w) ==
  [w EXCEPT !.scan = NoScan(@.recent), !.sol.state = "idle", !.sol.naming = "none",
            !.sol.asked = FALSE, !.sol.stoodDown = FALSE]

-----------------------------------------------------------------------------
(* The supervisor. *)

Busy(w) == w.sol.state # "idle"
Sweeping(w) == w.sol.sweep = "reading"
CanEverResume(w) == w.page.transport # "scan"

WhatItTakesToResume(w) ==
  /\ w.sol.armed
  /\ w.page.adapterOn
  /\ w.sol.key
  /\ w.sol.remembered
  /\ CanEverResume(w)

MayResume(w) == w.page.front /\ ~Sweeping(w) /\ WhatItTakesToResume(w)

CanRestoreTheWatch(w) == w.sup.running /\ WhatItTakesToResume(w)

ReportBlocker(w) ==
  [w EXCEPT !.sup.blocker =
     IF ~w.sol.armed \/ ~w.sol.key \/ Busy(w) THEN "none"
     ELSE IF ~CanEverResume(w) THEN "browser-cannot-rejoin"
     ELSE IF ~w.sol.remembered THEN "none"
     ELSE IF ~w.page.adapterOn THEN "radio-off"
     ELSE IF @ = "permission-gone" THEN @ ELSE "none"]

\* The abort reaches telemetry's listener, which takes down the attempt it was
\* registered for and no other.
StandDown(w) ==
  LET quiet == [w EXCEPT !.sup.look = FALSE, !.sup.inFlight = FALSE]
  IN  IF w.sup.inFlight /\ Resuming(w) THEN StopSolarLink(quiet) ELSE quiet

ReleaseNothing(w) == w                                       \* mutant

\* releaseWatchThePageCannotHold, and standDownSolar under it.
ReleaseWatch(w) ==
  IF ~w.page.front /\ WhatItTakesToResume(w) /\ (Busy(w) \/ Sweeping(w))
  THEN StopSolarLink(w) ELSE w

\* attemptResume, through resumeSolar, down to the scan's first await.
AttemptResume(w) ==
  LET asked == [w EXCEPT !.sup.inFlight = TRUE, !.sup.recent = TRUE,
                         !.sol.state = "connecting", !.sol.asked = FALSE]
  IN  [asked EXCEPT !.scan = [NoScan(@.recent) EXCEPT
         !.stage = IF w.page.transport = "watch" THEN "listing" ELSE "asking",
         !.auto = TRUE]]

\* missed is no state of the code: this look found an attempt in flight whose
\* watch is already gone, and nothing schedules another.
Look[w \in Worlds] ==
  LET asked == ReleaseWatch(ReportBlocker([w EXCEPT !.sup.look = FALSE,
                                                    !.sup.missed = FALSE]))
  IN  IF ~w.sup.running THEN [w EXCEPT !.sup.look = FALSE]
      ELSE IF ~MayResume(asked) THEN StandDown(asked)
      ELSE IF asked.sup.inFlight THEN [asked EXCEPT !.sup.missed = ~Busy(asked)]
      ELSE IF Busy(asked) \/ asked.sup.recent \/ ~MayRegister(asked)
      THEN [asked EXCEPT !.sup.look = TRUE]
      ELSE AttemptResume(asked)

\* The attempt rejects: telemetry takes its link down and the supervisor
\* retries, unless only the owner can mend what was refused.
Fails(w, error) ==
  LET down == StopSolarLink(w)
      over == [down EXCEPT !.sup.inFlight = FALSE]
  IN  IF ~w.scan.auto THEN down
      ELSE IF error = "radio" THEN [over EXCEPT !.sup.look = w.sup.running]
      ELSE [over EXCEPT !.sup.blocker = error]

-----------------------------------------------------------------------------
(* Telemetry. *)

\* claimRadioForSweep: the watch makes way for the tunnel and is marked as lent.
ClaimRadio(w) ==
  LET down == IF Busy(w) THEN StopSolarLink(w) ELSE w
  IN  Look[[down EXCEPT !.sol.sweep = "reading",
                        !.sol.stoodDown = w.sol.state \in Up]]

TornDownUnsaid(w) == StopSolarLink(w)                        \* mutant

\* noteSolarWatchTornDown: only over a watch that was up.
TornDown(w) == IF w.sol.state \in Up THEN Look[StopSolarLink(w)] ELSE w

\* The scan is up: a watched device is remembered, then whoever asked goes on.
ComesUp(w) ==
  LET told == IF w.page.transport = "watch"
              THEN Look[[w EXCEPT !.sol.remembered = TRUE]] ELSE w
      listening == [told EXCEPT !.scan.stage = "up", !.scan.rearming = FALSE,
                                !.sol.state = IF @ = "connecting" THEN "listening" ELSE @]
  IN  IF told.scan.stage = "off" THEN told
      ELSE IF w.scan.auto
      THEN [listening EXCEPT !.sol.naming = "resume",
                             !.sol.considered = @ /\ listening.sol.stoodDown,
                             !.sol.stoodDown = FALSE]
      ELSE Look[[listening EXCEPT !.sol.armed = TRUE, !.sol.considered = FALSE,
                                  !.sol.stoodDown = FALSE, !.sol.naming = "start"]]

\* considerAutoSolarHistorySweep, over an archive that has arrived.
ConsiderSweep(w) ==
  IF w.sol.considered \/ w.sol.refused \/ Sweeping(w) THEN w
  ELSE [w EXCEPT !.sol.considered = TRUE,
                 !.sol.asked = w.sol.remembered /\ CanRestoreTheWatch(w)]

-----------------------------------------------------------------------------
(* The owner's presses. *)

PressConnectSolar ==
  /\ sol.state = "idle"
  /\ Pressed
  /\ LET cleared == StopSolarLink(StandDown(World))
         shown == Look[[cleared EXCEPT !.sol.state = "connecting", !.sol.key = TRUE]]
     IN  Become([shown EXCEPT !.scan = [NoScan(@.recent) EXCEPT !.stage = "asking"]])

PressStopSolar ==
  /\ sol.state # "idle"
  /\ Pressed
  /\ Become(Look[StopSolarLink([World EXCEPT !.sol.remembered = FALSE])])

\* Disconnect of the pack is the off switch of both radios.
PressDisconnect ==
  /\ Pressed
  /\ LET disarmed == Look[[World EXCEPT !.sol.armed = FALSE]]
     IN  Become(IF disarmed.sol.state = "connecting"
                THEN StopSolarLink(disarmed) ELSE disarmed)

PressRejoin ==
  /\ Pressed
  /\ Become(Look[[World EXCEPT !.sol.armed = TRUE]])

PressReadHistory ==
  /\ page.adapterOn
  /\ ~Sweeping(World)
  /\ Pressed
  /\ Become([ClaimRadio(World) EXCEPT !.sol.refused = FALSE])

-----------------------------------------------------------------------------
(* The scan's awaits. *)

\* The chooser, the browser's prompt, or the bridge's socket opening.
Granted ==
  /\ scan.stage = "asking"
  /\ Become([World EXCEPT !.scan.stage = "key",
                          !.page.permitted = @ \/ page.transport = "watch"])
  /\ UNCHANGED spent

NotGranted ==
  /\ scan.stage = "asking"
  /\ Become(Fails(World, "radio"))
  /\ UNCHANGED spent

ListingEnds ==
  /\ scan.stage = "listing"
  /\ Become(IF page.permitted THEN [World EXCEPT !.scan.stage = "budget"]
            ELSE Fails(World, "permission-gone"))
  /\ UNCHANGED spent

ListingRefused ==
  /\ scan.stage = "listing"
  /\ Happens
  /\ Become(Fails(World, "browser-cannot-rejoin"))

\* waitForRegistration, which only an automatic watch goes through.
RegistrationFree ==
  /\ scan.stage = "budget"
  /\ Wait(scan.recent) = 0
  /\ Become([World EXCEPT !.scan.stage = "key"])
  /\ UNCHANGED spent

\* processor.begin: a watch registers next, the other transports are up.
KeyImported ==
  /\ scan.stage = "key"
  /\ Become(IF page.transport = "watch"
            THEN Register([World EXCEPT !.scan.stage = "arming"])
            ELSE ComesUp(World))
  /\ UNCHANGED spent

ArmEnds ==
  /\ scan.stage = "arming"
  /\ \/ Become(ComesUp(World))
     \/ Become(Fails(World, "radio"))
  /\ UNCHANGED spent

\* checkSilence, with the page in front: the ladder's next rung, if the budget
\* has room for it.
Rearms ==
  /\ page.transport = "watch"
  /\ scan.stage = "up"
  /\ page.front
  /\ scan.due = 0
  /\ Become(IF Wait(scan.recent) > 0
            THEN [World EXCEPT !.scan.due = Wait(scan.recent)]
            ELSE Register(World))
  /\ UNCHANGED spent

RearmEnds ==
  /\ scan.stage = "up" /\ scan.rearming
  /\ \/ Become([World EXCEPT !.scan.rearming = FALSE]) /\ UNCHANGED spent
     \/ Happens /\ Become(TornDown([World EXCEPT !.scan = NoScan(@.recent)]))

\* The bridge's socket closes: under a running scan telemetry is told, under one
\* still importing its key the attempt rejects.
SocketCloses ==
  /\ page.transport = "bridge"
  /\ \/ scan.stage = "up" /\ Become(TornDown([World EXCEPT !.scan = NoScan(@.recent)]))
     \/ scan.stage = "key" /\ Become(Fails(World, "radio"))
  /\ Happens

\* An advertisement that decodes.
Heard ==
  /\ scan.stage \in {"arming", "up"}
  /\ LET heard == [RestartLadder(World) EXCEPT !.sol.state = "live"]
     IN  Become(ConsiderSweep(heard))
  /\ UNCHANGED spent

Stale ==
  /\ sol.state = "live"
  /\ Become([World EXCEPT !.sol.state = "listening"])
  /\ UNCHANGED spent

\* nameableSolarDevice has its digest.
Named ==
  /\ sol.naming # "none"
  /\ Become([World EXCEPT !.sol.naming = "none"])
  /\ UNCHANGED spent

-----------------------------------------------------------------------------
(* The sweep. *)

\* sweepSolarHistoryIfStale has read the ledger: everything is asked again.
LedgerRead ==
  /\ sol.asked
  /\ LET w == [World EXCEPT !.sol.asked = FALSE] IN
     \/ Become(w)
     \/ /\ page.front
        /\ CanRestoreTheWatch(w)
        /\ w.sol.state \in Up
        /\ ~Sweeping(w)
        /\ Become(ClaimRadio(w))
  /\ UNCHANGED spent

SweepEndsQuietly ==                                          \* mutant
  /\ Sweeping(World)
  /\ Become([World EXCEPT !.sol.sweep = "none"])
  /\ UNCHANGED spent

SweepEnds ==
  /\ Sweeping(World)
  /\ \E refused \in {sol.refused, TRUE} :
       Become(Look[[World EXCEPT !.sol.sweep = "none", !.sol.refused = refused]])
  /\ UNCHANGED spent

-----------------------------------------------------------------------------
(* The supervisor's timers, time, and the page. *)

\* SOLAR_RESUME_TIMEOUT_MS.
Deadline ==
  /\ sup.inFlight
  /\ Become([StandDown(World) EXCEPT !.sup.look = TRUE])
  /\ UNCHANGED spent

LookDue ==
  /\ sup.look
  /\ Become(Look[World])
  /\ UNCHANGED spent

GapEnds ==
  /\ sup.recent
  /\ Become([World EXCEPT !.sup.recent = FALSE])
  /\ UNCHANGED spent

\* A tick of the clock: what is out of the window is dropped, from the oldest on.
Aged(recent) ==
  LET older == [i \in DOMAIN recent |-> recent[i] + 1]
      kept  == {i \in DOMAIN recent : older[i] < Window}
  IN  IF kept = {} THEN <<>> ELSE SubSeq(older, Min(kept), Len(recent))

Tick ==
  /\ scan.recent # <<>> \/ scan.due > 0
  /\ Become([World EXCEPT !.scan.recent = Aged(@),
                          !.scan.due = IF @ > 0 THEN @ - 1 ELSE 0])
  /\ UNCHANGED spent

\* The supervisor hears of the page first, then the scanner.
TurnPage ==
  /\ Happens
  /\ LET looked == Look[[World EXCEPT !.page.front = ~@]]
     IN  Become(IF looked.page.front /\ looked.scan.stage \in {"arming", "up"}
                THEN RestartLadder(looked) ELSE looked)

TurnAdapter ==
  /\ Happens
  /\ Become(Look[[World EXCEPT !.page.adapterOn = ~@]])

Revoke ==
  /\ page.permitted
  /\ Happens
  /\ Become([World EXCEPT !.page.permitted = FALSE])

Start ==
  /\ page.view = "mounting"
  /\ Become(Look[[World EXCEPT !.page.view = "mounted", !.sup.running = TRUE]])
  /\ UNCHANGED spent

Stop ==
  /\ page.view = "mounted"
  /\ Happens
  /\ LET stopped == StandDown([World EXCEPT !.page.view = "gone", !.sup.running = FALSE])
     IN  Become([stopped EXCEPT !.sup.blocker = "none"])

Press ==
  \/ PressConnectSolar \/ PressStopSolar \/ PressDisconnect \/ PressRejoin
  \/ PressReadHistory

Settles ==
  \/ Granted \/ NotGranted \/ ListingEnds \/ ListingRefused \/ RegistrationFree
  \/ KeyImported \/ ArmEnds \/ Rearms \/ RearmEnds \/ SocketCloses
  \/ Heard \/ Stale \/ Named \/ LedgerRead \/ SweepEnds

Turns ==
  \/ Deadline \/ LookDue \/ GapEnds \/ Tick
  \/ TurnPage \/ TurnAdapter \/ Revoke \/ Start \/ Stop

Next == Press \/ Settles \/ Turns

\* Promises settle and timers fire; whether a controller is heard, and how a
\* promise settles, is left open.
Fairness ==
  /\ WF_vars(Granted \/ NotGranted)
  /\ WF_vars(ListingEnds)
  /\ WF_vars(RegistrationFree)
  /\ WF_vars(KeyImported)
  /\ WF_vars(ArmEnds)
  /\ WF_vars(Named)
  /\ WF_vars(SweepEnds)
  /\ WF_vars(LookDue)
  /\ WF_vars(GapEnds)
  /\ WF_vars(Tick)

Spec == Init /\ [][Next]_vars /\ Fairness

-----------------------------------------------------------------------------
(* Properties. *)

\* Every variable stays in its range, the ladder under its ceiling, and no re-arm
\* is due later than the ladder or the window would have it.
TypeOK ==
  /\ World \in Worlds
  /\ scan.gap \in FirstRearm .. RearmCeiling
  /\ scan.due <= RearmCeiling \/ scan.due <= Window
  /\ spent \in 0 .. MaxHappenings

\* "Four registrations per thirty seconds": the browser throttles a page that
\* registers more without saying so.  A registration nobody pressed for never
\* takes the window over its budget, whichever scanner made the ones before it.
Registered == Len(scan'.recent) > Len(scan.recent)
Unasked == scan.auto \/ scan.stage = "up"
AutomaticKeepsBudget ==
  [][Registered /\ Unasked => Len(scan'.recent) <= Budget]_vars

\* What the page shows is what the scan does: idle over no scan, up over one
\* that runs, and connecting only while something is awaited.
ShownIsHeld ==
  /\ sol.state = "idle" <=> scan.stage = "off"
  /\ sol.state \in Up => scan.stage \in {"arming", "up"}
  /\ scan.stage = "up" => sol.state \in Up

\* Nothing goes on with a resume the supervisor would no longer begin: not over
\* a sweep, a hidden page, a radio that is off or an intent that was withdrawn.
AttemptStillAllowed ==
  sup.inFlight => page.front /\ ~Sweeping(World) /\ WhatItTakesToResume(World)

\* "The controller accepts a single BLE client": while the tunnel is open the only
\* scan that may run is one the owner pressed for.
TunnelHasTheRadio == Sweeping(World) /\ Busy(World) => ~scan.auto

\* A page behind another window holds no watch that it could put back.
HiddenPageHoldsNoWatch ==
  ~page.front /\ CanRestoreTheWatch(World) => sol.state = "idle"

\* Across all three transports, and in every order of presses, page turns, sweeps
\* and late answers: the watch is shown as what it is, kept by the right of those who
\* asked for it, and let go for the tunnel and for a hidden page.
WatchIsRightful ==
  TypeOK /\ ShownIsHeld /\ AttemptStillAllowed /\ TunnelHasTheRadio /\ HiddenPageHoldsNoWatch

Wanted == sup.running /\ MayResume(World) /\ ~Busy(World)
Astir == sup.inFlight \/ sup.look \/ sup.blocker # "none"

\* While nothing stands in the way and no scan runs, the supervisor has an attempt in
\* flight, a look due, or a blocker to show; but for a watch lost before the
\* resume that brought it up had its controller's name.
SleepsOnlyWithReason == Wanted => Astir \/ sup.missed

\* Does not hold: the same without the exception, as the comment over noteSolarWatchTornDown has it.
LostWatchIsSoughtAgain == Wanted => Astir

\* A watch that is wanted for good is put back up, or tried again for ever.
WatchComesBack ==
  <>[](sup.running /\ MayResume(World)) =>
    []<>(Busy(World) \/ sup.blocker # "none" \/ sup.missed)

=============================================================================
