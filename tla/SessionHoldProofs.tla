--------------------------- MODULE SessionHoldProofs ---------------------------
(***************************************************************************)
(* What telemetry's window does to a recording, for any set of packs and   *)
(* any number of happenings.  One invariant of worlds carries the session's *)
(* guard, and the pack whose rows it may hold; every synchronous stretch   *)
(* of code keeps it, whatever it is composed with.                         *)
(***************************************************************************)
EXTENDS SessionHold, FiniteSetTheorems, TLAPS

-----------------------------------------------------------------------------
(* The invariant, of a world *)

Words == Reasons \cup {"user-disconnect", "device-changed", "archive-lost"}

PackLinks == [state : PackStates, id : Packs \cup {NoPack}, by : {"none", "press", "loop"}]
SolarLinks == [state : {"idle", "connecting"} \cup Up, known : BOOLEAN, lent : BOOLEAN]
Apps == [live : BOOLEAN, armed : BOOLEAN, remembered : Packs \cup {NoPack},
         front : BOOLEAN, gone : BOOLEAN]
Holds == [awaiting : {"none", "pack", "page"}, reason : Reasons, own : BOOLEAN]
Recordings == [open : BOOLEAN, exempt : BOOLEAN, key : Packs \cup {NoPack},
               rows : SUBSET Packs, swapped : BOOLEAN, by : Words]

Worlds == [pack : PackLinks, solar : SolarLinks, app : Apps, held : Holds, rec : Recordings]

\* A session out of the recorder's guard has a window of its own, and no pack
\* writes into it.
Guarded(w) ==
  /\ w.held.awaiting = "none" <=> w.held.reason = "none"
  /\ w.rec.exempt => /\ w.rec.open /\ w.held.awaiting # "none" /\ w.held.own
                     /\ w.pack.state # "live"

\* The pack on the link is the one remembered, and so is the one with rows, but
\* where another came up unasked.
Owned(w) ==
  /\ w.pack.id \in {NoPack, w.app.remembered}
  /\ w.pack.state = "live" \/ w.pack.by = "loop" => w.pack.id \in Packs
  /\ w.rec.swapped \/ w.rec.rows \subseteq {w.app.remembered}

Kept(w) == w \in Worlds /\ Guarded(w) /\ Owned(w)

IInv == Kept(World) /\ spent \in 0 .. MaxHappenings

-----------------------------------------------------------------------------
(* The recorder and the window *)

LEMMA FinishKept ==
  ASSUME NEW w, Kept(w), NEW reason \in Words
  PROVE  /\ Kept(Finish(w, reason))
         /\ Finish(w, reason).pack = w.pack /\ Finish(w, reason).solar = w.solar
         /\ Finish(w, reason).app = w.app
         /\ Finish(w, reason).held.awaiting = w.held.awaiting
         /\ ~Finish(w, reason).rec.exempt /\ ~Finish(w, reason).rec.open
         /\ Finish(w, reason).rec.rows = {}
<1> DEFINE over == Finish(w, reason)
           window == [w.held EXCEPT !.own = FALSE]
           record == [w.rec EXCEPT !.exempt = FALSE, !.open = FALSE, !.rows = {}, !.swapped = FALSE,
                                !.by = IF w.rec.open THEN reason ELSE @]
<1>1. w \in Worlds /\ w.rec \in Recordings /\ w.held \in Holds
  BY DEF Kept, Worlds
<1>2. window \in Holds /\ window.awaiting = w.held.awaiting /\ window.reason = w.held.reason
  BY <1>1 DEF Holds
<1>3. /\ record \in Recordings /\ ~record.exempt /\ ~record.open /\ record.rows = {}
  BY <1>1 DEF Recordings, Words
<1>4. over = [w EXCEPT !.rec = record, !.held = window]
  BY <1>1 DEF Finish, Worlds
<1> HIDE DEF window, record, over
<1>5. /\ over \in Worlds /\ over.pack = w.pack /\ over.solar = w.solar /\ over.app = w.app
      /\ over.held = window /\ over.rec = record
  BY <1>1, <1>2, <1>3, <1>4 DEF Worlds
<1> QED BY <1>2, <1>3, <1>5 DEF Kept, Guarded, Owned, over

LEMMA RecordedKept ==
  ASSUME NEW w, Kept(w), NEW rows \in SUBSET Packs, rows \subseteq {w.app.remembered}
  PROVE  Kept(Recorded(w, rows)) /\ Recorded(w, rows).app = w.app
<1> DEFINE record == [w.rec EXCEPT !.open = TRUE, !.rows = @ \cup rows]
           over == Recorded(w, rows)
<1>1. w \in Worlds /\ w.rec \in Recordings
  BY DEF Kept, Worlds
<1>2. /\ record \in Recordings /\ record.open /\ record.exempt = w.rec.exempt
      /\ record.rows = w.rec.rows \cup rows /\ record.swapped = w.rec.swapped
  BY <1>1 DEF Recordings
<1>3. over = [w EXCEPT !.rec = record]
  BY <1>1 DEF Recorded, Worlds
<1> HIDE DEF record, over
<1>4. /\ over \in Worlds /\ over.pack = w.pack /\ over.app = w.app
      /\ over.held = w.held /\ over.rec = record
  BY <1>1, <1>2, <1>3 DEF Worlds
<1> QED BY <1>2, <1>4 DEF Kept, Guarded, Owned, over

LEMMA ReleaseKept ==
  ASSUME NEW w, Kept(w)
  PROVE  /\ Kept(ReleaseHold(w))
         /\ ReleaseHold(w).pack = w.pack /\ ReleaseHold(w).solar = w.solar
         /\ ReleaseHold(w).app = w.app
         /\ ReleaseHold(w).held.awaiting = "none" /\ ~ReleaseHold(w).rec.exempt
         /\ ReleaseHold(w).rec.open = w.rec.open /\ ReleaseHold(w).rec.rows = w.rec.rows
         /\ ReleaseHold(w).rec.swapped = w.rec.swapped
<1> DEFINE record == [w.rec EXCEPT !.exempt = FALSE]
           over == ReleaseHold(w)
<1>1. w \in Worlds /\ w.rec \in Recordings /\ NoHold \in Holds
  BY DEF Kept, Worlds, NoHold, Holds, Reasons
<1>2. CASE w.held.awaiting = "none"
  BY <1>1, <1>2 DEF ReleaseHold, Kept, Guarded, Recordings
<1>3. CASE w.held.awaiting # "none"
  <2>1. /\ record \in Recordings /\ ~record.exempt /\ record.open = w.rec.open
        /\ record.rows = w.rec.rows /\ record.swapped = w.rec.swapped
    BY <1>1 DEF Recordings
  <2>2. over = [w EXCEPT !.held = NoHold, !.rec = record]
    BY <1>1, <1>3 DEF ReleaseHold, Worlds
  <2> HIDE DEF record, over
  <2>3. /\ over \in Worlds /\ over.pack = w.pack /\ over.solar = w.solar /\ over.app = w.app
        /\ over.held = NoHold /\ over.rec = record
    BY <1>1, <2>1, <2>2 DEF Worlds
  <2>4. NoHold.awaiting = "none" /\ NoHold.reason = "none"
    BY DEF NoHold
  <2> QED BY <2>1, <2>3, <2>4 DEF Kept, Guarded, Owned, over
<1> QED BY <1>2, <1>3

\* A window is taken only with the pack's link gone.
LEMMA HoldKept ==
  ASSUME NEW w, Kept(w), w.pack.state # "live",
         NEW awaiting \in {"pack", "page"}, NEW reason \in Reasons \ {"none"}
  PROVE  /\ Kept(HoldSessionOpen(w, awaiting, reason))
         /\ HoldSessionOpen(w, awaiting, reason).pack = w.pack
         /\ HoldSessionOpen(w, awaiting, reason).solar = w.solar
         /\ HoldSessionOpen(w, awaiting, reason).app = w.app
<1> DEFINE freed == ReleaseHold(w)
           taken == [awaiting |-> awaiting, reason |-> reason, own |-> FALSE]
           standing == IF w.held.awaiting = awaiting THEN w ELSE [freed EXCEPT !.held = taken]
           window == [standing.held EXCEPT !.own = w.rec.open]
           record == [standing.rec EXCEPT !.exempt = w.rec.open]
           hold == HoldSessionOpen(w, awaiting, reason)
<1>1. /\ Kept(freed) /\ freed.pack = w.pack /\ freed.solar = w.solar /\ freed.app = w.app
      /\ ~freed.rec.exempt /\ freed.rec.open = w.rec.open
      /\ freed.rec.rows = w.rec.rows /\ freed.rec.swapped = w.rec.swapped
  BY ReleaseKept
<1>2. taken \in Holds /\ taken.awaiting = awaiting /\ taken.reason = reason
  BY DEF Holds
<1>3. hold = [standing EXCEPT !.rec.exempt = w.rec.open, !.held.own = w.rec.open]
  BY DEF HoldSessionOpen
<1> HIDE DEF freed, taken
<1>4. /\ standing \in Worlds /\ standing.pack = w.pack /\ standing.solar = w.solar
      /\ standing.app = w.app /\ standing.held.awaiting = awaiting
      /\ standing.held.reason # "none" /\ standing.rec.open = w.rec.open
      /\ standing.rec.rows = w.rec.rows /\ standing.rec.swapped = w.rec.swapped
  BY <1>1, <1>2 DEF Kept, Worlds, Guarded
<1> HIDE DEF standing
<1>5. w.rec.open \in BOOLEAN /\ standing.held \in Holds /\ standing.rec \in Recordings
  BY <1>4 DEF Kept, Worlds, Recordings
<1>6. /\ window \in Holds /\ window.awaiting = standing.held.awaiting
      /\ window.reason = standing.held.reason /\ window.own = w.rec.open
  BY <1>5 DEF Holds
<1>7. /\ record \in Recordings /\ record.open = standing.rec.open /\ record.exempt = w.rec.open
      /\ record.rows = standing.rec.rows /\ record.swapped = standing.rec.swapped
  BY <1>5 DEF Recordings
<1>8. hold = [standing EXCEPT !.rec = record, !.held = window]
  BY <1>3, <1>4 DEF Worlds
<1> HIDE DEF window, record, hold
<1>9. /\ hold \in Worlds /\ hold.pack = w.pack /\ hold.solar = w.solar /\ hold.app = w.app
      /\ hold.held = window /\ hold.rec = record
  BY <1>4, <1>6, <1>7, <1>8 DEF Worlds
<1> QED BY <1>4, <1>6, <1>7, <1>9 DEF Kept, Guarded, Owned, hold

LEMMA ViewKept ==
  ASSUME NEW w, Kept(w)
  PROVE  /\ Kept(SettleView(w))
         /\ SettleView(w).pack = w.pack /\ SettleView(w).solar = w.solar
         /\ SettleView(w).held = w.held /\ SettleView(w).rec = w.rec
         /\ SettleView(w).app.armed = w.app.armed
<1> DEFINE page == [w.app EXCEPT !.live = FALSE]
           over == SettleView(w)
<1>1. w \in Worlds /\ w.app \in Apps
  BY DEF Kept, Worlds
<1>2. page \in Apps /\ page.armed = w.app.armed /\ page.remembered = w.app.remembered
  BY <1>1 DEF Apps
<1>3. CASE Reporting(w)
  BY <1>3 DEF SettleView
<1>4. CASE ~Reporting(w)
  <2>1. over = [w EXCEPT !.app = page]
    BY <1>1, <1>4 DEF SettleView, Worlds
  <2> HIDE DEF page, over
  <2>2. /\ over \in Worlds /\ over.pack = w.pack /\ over.solar = w.solar /\ over.app = page
        /\ over.held = w.held /\ over.rec = w.rec
    BY <1>1, <1>2, <2>1 DEF Worlds
  <2> QED BY <1>2, <2>2 DEF Kept, Guarded, Owned, over
<1> QED BY <1>3, <1>4

-----------------------------------------------------------------------------
(* The settlings *)

\* With both radios idle and a session out of the guard, no rejoin expected, the
\* session is closed.
LEMMA LiveSettled ==
  ASSUME NEW w, Kept(w), NEW reason \in Words
  PROVE  /\ Kept(SettleAfterLive(w, reason))
         /\ SettleAfterLive(w, reason).app.armed = w.app.armed
         /\ w.rec.exempt /\ BothIdle(w) /\ ~RejoinIsExpected(w) =>
              ~SettleAfterLive(w, reason).rec.open
<1> DEFINE freed == ReleaseHold(w)
           ended == Finish(freed, reason)
<1>1. Kept(freed) /\ freed.app = w.app
  BY ReleaseKept
<1> HIDE DEF freed
<1>2. Kept(ended) /\ ended.app = freed.app /\ ~ended.rec.open
  BY <1>1, FinishKept
<1> HIDE DEF ended
<1>3. /\ Kept(SettleView(w)) /\ Kept(SettleView(ended)) /\ SettleView(ended).rec = ended.rec
      /\ SettleView(w).app.armed = w.app.armed /\ SettleView(ended).app.armed = ended.app.armed
  BY <1>2, ViewKept
<1>4. SettleAfterLive(w, reason) \in {SettleView(w), freed, SettleView(ended)}
  BY DEF SettleAfterLive, freed, ended
<1>5. w.rec.exempt => w.held.awaiting # "none"
  BY DEF Kept, Guarded
<1>6. w.rec.exempt /\ BothIdle(w) /\ ~RejoinIsExpected(w) =>
        SettleAfterLive(w, reason) = SettleView(ended)
  BY <1>5 DEF SettleAfterLive, freed, ended
<1> QED BY <1>1, <1>2, <1>3, <1>4, <1>6

LEMMA DropSettled ==
  ASSUME NEW w, Kept(w), w.pack.state = "idle", NEW reason \in {"link-lost", "stalled"}
  PROVE  /\ Kept(SettleAfterDrop(w, reason))
         /\ SettleAfterDrop(w, reason).app.armed = w.app.armed
<1> DEFINE standing == HoldSessionOpen(w, "pack", reason)
<1>1. reason \in Words /\ reason \in Reasons \ {"none"}
  BY DEF Words, Reasons
<1>2. /\ Kept(SettleAfterLive(w, reason)) /\ SettleAfterLive(w, reason).app.armed = w.app.armed
      /\ Kept(standing) /\ standing.app = w.app
  BY <1>1, LiveSettled, HoldKept
<1> HIDE DEF standing
<1>3. Kept(SettleView(standing)) /\ SettleView(standing).app.armed = standing.app.armed
  BY <1>2, ViewKept
<1> QED BY <1>2, <1>3 DEF SettleAfterDrop, standing

\* A pack that comes up by a press leaves the session to itself, unless nothing
\* waited for the first.
LEMMA ChosenSettled ==
  ASSUME NEW w, Kept(w), NEW chosen \in Packs
  PROVE  LET settled == SettleForChosenPack(w, chosen) IN
         /\ Kept(settled) /\ settled.pack = w.pack /\ settled.solar = w.solar
         /\ settled.app = w.app /\ ~settled.rec.exempt
         /\ \/ settled.rec.rows = {}
            \/ /\ settled.rec.rows = w.rec.rows /\ settled.rec.swapped = w.rec.swapped
               /\ w.held.awaiting = "pack" => chosen = w.app.remembered
<1> DEFINE freed == ReleaseHold(w)
           ended == Finish(freed, "device-changed")
<1>1. /\ Kept(freed) /\ freed.pack = w.pack /\ freed.solar = w.solar /\ freed.app = w.app
      /\ ~freed.rec.exempt /\ freed.rec.rows = w.rec.rows /\ freed.rec.swapped = w.rec.swapped
  BY ReleaseKept
<1> HIDE DEF freed
<1>2. "device-changed" \in Words
  BY DEF Words
<1>3. /\ Kept(ended) /\ ended.pack = freed.pack /\ ended.solar = freed.solar
      /\ ended.app = freed.app /\ ~ended.rec.exempt /\ ended.rec.rows = {}
  BY <1>1, <1>2, FinishKept
<1> QED BY <1>1, <1>3 DEF SettleForChosenPack, freed

-----------------------------------------------------------------------------
(* One part of a world replaced *)

LEMMA PackSet ==
  ASSUME NEW w, Kept(w), NEW link \in PackLinks, link.id \in {NoPack, w.app.remembered},
         link.state = "live" \/ link.by = "loop" => link.id \in Packs,
         w.rec.exempt => link.state # "live"
  PROVE  LET over == [w EXCEPT !.pack = link] IN
         /\ Kept(over) /\ over.pack = link /\ over.solar = w.solar /\ over.app = w.app
         /\ over.held = w.held /\ over.rec = w.rec
  BY DEF Kept, Worlds, Guarded, Owned

LEMMA SolarSet ==
  ASSUME NEW w, Kept(w), NEW link \in SolarLinks
  PROVE  LET over == [w EXCEPT !.solar = link] IN
         /\ Kept(over) /\ over.pack = w.pack /\ over.solar = link /\ over.app = w.app
         /\ over.held = w.held /\ over.rec = w.rec
  BY DEF Kept, Worlds, Guarded, Owned

LEMMA AppSet ==
  ASSUME NEW w, Kept(w), NEW page \in Apps, page.remembered = w.app.remembered
  PROVE  LET over == [w EXCEPT !.app = page] IN
         /\ Kept(over) /\ over.pack = w.pack /\ over.solar = w.solar /\ over.app = page
         /\ over.held = w.held /\ over.rec = w.rec
  BY DEF Kept, Worlds, Guarded, Owned

LEMMA Dropped ==
  ASSUME NEW w, Kept(w)
  PROVE  /\ Kept(Drop(w)) /\ Drop(w).pack.state = "idle" /\ Drop(w).solar = w.solar
         /\ Drop(w).app = w.app /\ Drop(w).held = w.held /\ Drop(w).rec = w.rec
<1> DEFINE link == [state |-> "idle", id |-> NoPack, by |-> "none"]
<1>1. link \in PackLinks /\ link.state = "idle" /\ link.id = NoPack /\ link.by = "none"
  BY DEF PackLinks, PackStates
<1>2. Drop(w) = [w EXCEPT !.pack = link]
  BY DEF Drop
<1> HIDE DEF link
<1> QED BY <1>1, <1>2, PackSet

\* An attempt of the supervisor's ends with the intent.
LEMMA Disarmed ==
  ASSUME NEW w, Kept(w)
  PROVE  /\ Kept(Disarm(w)) /\ Disarm(w).pack = w.pack /\ ~Disarm(w).app.armed
         /\ Disarm(w).app.remembered = w.app.remembered
         /\ w.solar.state \notin Up => Disarm(w).solar.state = "idle"
         /\ Disarm(w).held = w.held /\ Disarm(w).rec = w.rec
<1> DEFINE page == [w.app EXCEPT !.armed = FALSE]
           link == [w.solar EXCEPT !.state = IF @ = "connecting" THEN "idle" ELSE @]
           still == [w EXCEPT !.app = page]
<1>1. w \in Worlds /\ w.app \in Apps /\ w.solar \in SolarLinks
  BY DEF Kept, Worlds
<1>2. page \in Apps /\ ~page.armed /\ page.remembered = w.app.remembered
  BY <1>1 DEF Apps
<1>3. link \in SolarLinks /\ (w.solar.state \notin Up => link.state = "idle")
  BY <1>1 DEF SolarLinks, Up
<1>4. Disarm(w) = [still EXCEPT !.solar = link]
  BY <1>1 DEF Disarm, Worlds
<1> HIDE DEF page, link
<1>5. /\ Kept(still) /\ still.pack = w.pack /\ still.app = page
      /\ still.held = w.held /\ still.rec = w.rec
  BY <1>2, AppSet
<1> HIDE DEF still
<1>6. LET over == [still EXCEPT !.solar = link] IN
      /\ Kept(over) /\ over.pack = still.pack /\ over.solar = link /\ over.app = still.app
      /\ over.held = still.held /\ over.rec = still.rec
  BY <1>3, <1>5, SolarSet
<1> QED BY <1>2, <1>3, <1>4, <1>5, <1>6

LEMMA Stopped ==
  ASSUME NEW w, Kept(w)
  PROVE  /\ Kept(StopSolarLink(w)) /\ StopSolarLink(w).pack = w.pack
         /\ StopSolarLink(w).app = w.app /\ StopSolarLink(w).held = w.held
         /\ StopSolarLink(w).rec = w.rec
<1> DEFINE link == [w.solar EXCEPT !.state = "idle"]
<1>1. w \in Worlds /\ link \in SolarLinks
  BY DEF Kept, Worlds, SolarLinks
<1>2. StopSolarLink(w) = [w EXCEPT !.solar = link]
  BY <1>1 DEF StopSolarLink, Worlds
<1> HIDE DEF link
<1> QED BY <1>1, <1>2, SolarSet

LEMMA Claimed ==
  ASSUME NEW w, Kept(w)
  PROVE  /\ Kept(ClaimInstruments(w)) /\ ClaimInstruments(w).app.remembered = w.app.remembered
         /\ ClaimInstruments(w).app.armed = w.app.armed /\ ClaimInstruments(w).solar = w.solar
<1> DEFINE page == [w.app EXCEPT !.live = TRUE]
<1>1. /\ w \in Worlds /\ page \in Apps /\ page.remembered = w.app.remembered
      /\ page.armed = w.app.armed
  BY DEF Kept, Worlds, Apps
<1>2. ClaimInstruments(w) = [w EXCEPT !.app = page]
  BY <1>1 DEF ClaimInstruments, Worlds
<1> HIDE DEF page
<1> QED BY <1>1, <1>2, AppSet

\* A page's window is taken only once no radio reports.
LEMMA StoodDown ==
  ASSUME NEW w, Kept(w)
  PROVE  Kept(LookedAway(w)) /\ LookedAway(w).app.armed = w.app.armed
<1> DEFINE down == StopSolarLink(w)
           hold == HoldSessionOpen(down, "page", "page-away")
<1>1. Kept(down) /\ down.app = w.app
  BY Stopped
<1>2. ~Reporting(down) => down.pack.state # "live"
  BY DEF Reporting
<1>3. "page-away" \in Reasons \ {"none"}
  BY DEF Reasons
<1> HIDE DEF down
<1>4. ~Reporting(down) => Kept(hold) /\ hold.app = down.app
  BY <1>1, <1>2, <1>3, HoldKept
<1> HIDE DEF hold
<1>5. ~Reporting(down) => /\ Kept(SettleView(hold))
                          /\ SettleView(hold).app.armed = hold.app.armed
  BY <1>4, ViewKept
<1>6. Kept(StandDownSolar(w)) /\ StandDownSolar(w).app.armed = w.app.armed
  BY <1>1, <1>4, <1>5 DEF StandDownSolar, down, hold
<1> QED BY <1>6 DEF LookedAway

\* What is left of a window that ran out is closed, unless a radio is back.
LEMMA RanOut ==
  ASSUME NEW w, Kept(w)
  PROVE  Kept(WindowRunsOut(w)) /\ WindowRunsOut(w).app = w.app
<1> DEFINE record == [w.rec EXCEPT !.exempt = FALSE]
           over == [w EXCEPT !.held = NoHold, !.rec.exempt = FALSE]
<1>1. w \in Worlds /\ w.rec \in Recordings /\ NoHold \in Holds /\ w.held.reason \in Words
  BY DEF Kept, Worlds, NoHold, Holds, Reasons, Words
<1>2. record \in Recordings /\ ~record.exempt /\ record.rows = w.rec.rows /\ record.swapped = w.rec.swapped
  BY <1>1 DEF Recordings
<1>3. over = [w EXCEPT !.held = NoHold, !.rec = record]
  BY <1>1 DEF Worlds
<1>4. NoHold.awaiting = "none" /\ NoHold.reason = "none"
  BY DEF NoHold
<1> HIDE DEF record, over
<1>5. /\ over \in Worlds /\ over.pack = w.pack /\ over.app = w.app
      /\ over.held = NoHold /\ over.rec = record
  BY <1>1, <1>2, <1>3 DEF Worlds
<1>6. Kept(over)
  BY <1>2, <1>4, <1>5 DEF Kept, Guarded, Owned
<1>7. Kept(Finish(over, w.held.reason)) /\ Finish(over, w.held.reason).app = over.app
  BY <1>1, <1>6, FinishKept
<1> QED BY <1>5, <1>6, <1>7 DEF WindowRunsOut, over

-----------------------------------------------------------------------------
(* The steps *)

\* The world a step leaves, and that it forgets no intent to rejoin.
StillKept == Kept(World') /\ (app.armed => app'.armed)

LEMMA BecameWorld ==
  ASSUME NEW w, Kept(w), Become(w)
  PROVE  Kept(World') /\ app' = w.app /\ rec' = w.rec
<1>1. World' = [pack |-> w.pack, solar |-> w.solar, app |-> w.app, held |-> w.held, rec |-> w.rec]
  BY DEF Become, World
<1>2. w = [pack |-> w.pack, solar |-> w.solar, app |-> w.app, held |-> w.held, rec |-> w.rec]
  BY DEF Kept, Worlds
<1>3. app' = w.app /\ rec' = w.rec
  BY DEF Become
<1> QED BY <1>1, <1>2, <1>3

LEMMA Became ==
  ASSUME NEW w, Kept(w), Become(w), app.armed => w.app.armed
  PROVE  StillKept
  BY BecameWorld DEF StillKept

LEMMA WorldIs ==
  ASSUME Kept(World)
  PROVE  /\ pack = World.pack /\ solar = World.solar /\ app = World.app
         /\ held = World.held /\ rec = World.rec
         /\ pack \in PackLinks /\ solar \in SolarLinks /\ app \in Apps
         /\ held \in Holds /\ rec \in Recordings
         /\ Guarded(World) /\ Owned(World) /\ World \in Worlds
  BY DEF World, Kept, Worlds

LEMMA Tried == ASSUME Kept(World), PackTried PROVE StillKept
<1> DEFINE pressed == [state |-> "connecting", id |-> NoPack, by |-> "press"]
           sought == [state |-> "connecting", id |-> app.remembered, by |-> "loop"]
<1>1. pressed \in PackLinks /\ sought \in PackLinks
  BY WorldIs DEF PackLinks, PackStates, Apps
<1>2. CASE Become([World EXCEPT !.pack = pressed])
  <2>1. /\ Kept([World EXCEPT !.pack = pressed])
        /\ [World EXCEPT !.pack = pressed].app = World.app
    BY <1>1, PackSet
  <2> QED BY <1>2, <2>1, Became, WorldIs
<1>3. CASE RejoinIsExpected(World) /\ Become([World EXCEPT !.pack = sought])
  <2>1. app.remembered \in Packs
    BY <1>3, WorldIs DEF RejoinIsExpected, Apps
  <2>2. /\ Kept([World EXCEPT !.pack = sought])
        /\ [World EXCEPT !.pack = sought].app = World.app
    BY <1>1, <2>1, WorldIs, PackSet
  <2> QED BY <1>3, <2>2, Became, WorldIs
<1> QED BY <1>2, <1>3 DEF PackTried

\* The pack that comes up is remembered, and its rows are the session's alone
\* unless nothing waited for the rows there are.
LEMMA CameUp == ASSUME Kept(World), PackComesUp PROVE StillKept
<1>1. PICK chosen \in IF pack.by = "loop" THEN {pack.id} ELSE Packs :
        LET swaps == rec.rows \ {chosen} # {} /\ held.awaiting # "pack"
            over == [World EXCEPT !.rec.swapped = @ \/ swaps]
            settled == IF pack.by = "loop" THEN ReleaseHold(over)
                       ELSE SettleForChosenPack(over, chosen)
        IN  Become([settled EXCEPT !.pack.state = "live", !.pack.id = chosen,
                                   !.app.live = TRUE, !.app.remembered = chosen,
                                   !.app.armed = @ \/ pack.by = "press"])
  BY DEF PackComesUp
<1> DEFINE swaps == rec.rows \ {chosen} # {} /\ held.awaiting # "pack"
           marked == [rec EXCEPT !.swapped = @ \/ swaps]
           over == [World EXCEPT !.rec = marked]
           settled == IF pack.by = "loop" THEN ReleaseHold(over)
                      ELSE SettleForChosenPack(over, chosen)
           link == [pack EXCEPT !.state = "live", !.id = chosen]
           page == [app EXCEPT !.live = TRUE, !.remembered = chosen,
                               !.armed = @ \/ pack.by = "press"]
           up == [settled EXCEPT !.pack = link, !.app = page]
<1>2. chosen \in Packs /\ (pack.by = "loop" => chosen = app.remembered)
  BY WorldIs, SessionHoldAssumption DEF Owned, PackLinks
<1>3. /\ marked \in Recordings /\ marked.rows = rec.rows /\ marked.open = rec.open
      /\ marked.exempt = rec.exempt /\ marked.swapped = (rec.swapped \/ swaps)
  BY WorldIs DEF Recordings
<1>4. over = [World EXCEPT !.rec.swapped = @ \/ swaps]
  BY WorldIs DEF Worlds
<1> HIDE DEF marked
<1>5. /\ over \in Worlds /\ over.pack = pack /\ over.solar = solar /\ over.app = app
      /\ over.held = held /\ over.rec = marked
  BY <1>3, WorldIs DEF Worlds
<1>6. Kept(over)
  BY <1>3, <1>5, WorldIs DEF Kept, Guarded, Owned
<1> HIDE DEF over
<1>7. /\ Kept(settled) /\ settled.pack = pack /\ settled.app = app /\ ~settled.rec.exempt
      /\ \/ settled.rec.rows = {}
         \/ /\ settled.rec.rows = marked.rows /\ settled.rec.swapped = marked.swapped
            /\ held.awaiting = "pack" => chosen = app.remembered
  BY <1>2, <1>5, <1>6, ReleaseKept, ChosenSettled
<1> HIDE DEF settled
<1>8. settled.rec.swapped \/ settled.rec.rows \subseteq {chosen}
  BY <1>3, <1>7, WorldIs DEF Owned
<1>9. /\ link \in PackLinks /\ page \in Apps /\ link.id = chosen /\ page.remembered = chosen
      /\ app.armed => page.armed
  BY <1>2, WorldIs DEF PackLinks, PackStates, Apps
<1>10. Become(up)
  <2>1. /\ settled.pack = pack /\ settled.app = app /\ settled \in Worlds
    BY <1>7 DEF Kept
  <2>2. up = [settled EXCEPT !.pack.state = "live", !.pack.id = chosen,
                             !.app.live = TRUE, !.app.remembered = chosen,
                             !.app.armed = @ \/ pack.by = "press"]
    BY <2>1, WorldIs DEF Worlds, PackLinks, Apps
  <2>3. Become([settled EXCEPT !.pack.state = "live", !.pack.id = chosen,
                               !.app.live = TRUE, !.app.remembered = chosen,
                               !.app.armed = @ \/ pack.by = "press"])
    BY <1>1, <1>4 DEF settled
  <2> QED BY <2>2, <2>3
<1> HIDE DEF link, page
<1>11. /\ up \in Worlds /\ up.pack = link /\ up.app = page /\ up.held = settled.held
       /\ up.rec = settled.rec
  BY <1>7, <1>9 DEF Kept, Worlds
<1> HIDE DEF up
<1>12. Kept(up)
  BY <1>2, <1>7, <1>8, <1>9, <1>11 DEF Kept, Guarded, Owned
<1> QED BY <1>9, <1>10, <1>11, <1>12, Became

LEMMA Fails == ASSUME Kept(World), PackFails PROVE StillKept
<1>1. Become(Drop(World))
  BY DEF PackFails, Drop
<1> QED BY <1>1, Dropped, Became, WorldIs

LEMMA Snapped == ASSUME Kept(World), Snapshot PROVE StillKept
<1>1. pack.id \in Packs /\ pack.id = app.remembered
  BY WorldIs, SessionHoldAssumption DEF Snapshot, Owned
<1>2. Kept(Recorded(World, {pack.id})) /\ Recorded(World, {pack.id}).app = World.app
  BY <1>1, WorldIs, RecordedKept
<1> QED BY <1>2, Became, WorldIs DEF Snapshot

LEMMA Named == ASSUME Kept(World), Identified PROVE StillKept
<1> DEFINE ended == Finish(World, "device-changed")
           contradicts == rec.open /\ rec.key \notin {NoPack, pack.id}
           filed == IF contradicts THEN Recorded(ended, {}) ELSE World
           named == [filed.rec EXCEPT !.key = pack.id]
           over == [filed EXCEPT !.rec = named]
<1>1. pack.id \in Packs
  BY WorldIs DEF Identified, Owned
<1>2. "device-changed" \in Words
  BY DEF Words
<1>3. Kept(ended) /\ ended.app = World.app
  BY <1>2, FinishKept
<1> HIDE DEF ended
<1>4. Kept(Recorded(ended, {})) /\ Recorded(ended, {}).app = ended.app
  BY <1>3, RecordedKept
<1>5. Kept(filed) /\ filed.app = app
  BY <1>3, <1>4, WorldIs
<1>6. Become([filed EXCEPT !.rec.key = pack.id])
  BY DEF Identified, ended
<1> HIDE DEF filed
<1>7. filed \in Worlds /\ filed.rec \in Recordings
  BY <1>5 DEF Kept, Worlds
<1>8. Become(over)
  BY <1>6, <1>7 DEF Worlds
<1>9. /\ named \in Recordings /\ named.open = filed.rec.open /\ named.exempt = filed.rec.exempt
      /\ named.rows = filed.rec.rows /\ named.swapped = filed.rec.swapped
  BY <1>1, <1>7 DEF Recordings
<1> HIDE DEF named
<1>10. /\ over \in Worlds /\ over.pack = filed.pack /\ over.app = filed.app
       /\ over.held = filed.held /\ over.rec = named
  BY <1>7, <1>9 DEF Worlds
<1> HIDE DEF over
<1>11. Kept(over)
  BY <1>5, <1>9, <1>10 DEF Kept, Guarded, Owned
<1> QED BY <1>5, <1>8, <1>10, <1>11, Became

LEMMA Lost == ASSUME Kept(World), PackDrops PROVE StillKept
<1>1. PICK reason \in {"link-lost", "stalled"} : Become(SettleAfterDrop(Drop(World), reason))
  BY DEF PackDrops
<1>2. /\ Kept(SettleAfterDrop(Drop(World), reason))
      /\ SettleAfterDrop(Drop(World), reason).app.armed = Drop(World).app.armed
  BY Dropped, DropSettled
<1> QED BY <1>1, <1>2, Became, Dropped, WorldIs

\* Disconnect closes a session that stands open for a radio, unless the
\* controller is feeding it.
LEMMA Disconnected ==
  ASSUME Kept(World), PressDisconnect
  PROVE  Kept(World') /\ (rec.exempt => Closed \/ solar.state \in Up)
<1> DEFINE off == Disarm(World)
           link == [off.pack EXCEPT !.state = "leaving"]
<1>1. /\ Kept(off) /\ off.pack = pack /\ off.rec = rec /\ ~off.app.armed
      /\ solar.state \notin Up => off.solar.state = "idle"
  BY WorldIs, Disarmed
<1>2. off \in Worlds /\ off.pack \in PackLinks /\ Owned(off)
  BY <1>1 DEF Kept, Worlds
<1> HIDE DEF off
<1>3. CASE pack.state = "live"
  <2>1. /\ link \in PackLinks /\ link.state = "leaving" /\ link.id = off.pack.id
        /\ link.by = off.pack.by
    BY <1>2 DEF PackLinks, PackStates
  <2>2. [off EXCEPT !.pack.state = "leaving"] = [off EXCEPT !.pack = link]
    BY <1>2 DEF Worlds
  <2>3. Become([off EXCEPT !.pack = link])
    BY <1>3, <2>2 DEF PressDisconnect, off
  <2> HIDE DEF link
  <2>4. Kept([off EXCEPT !.pack = link])
    BY <1>1, <1>2, <2>1, PackSet DEF Owned
  <2>5. ~rec.exempt
    BY <1>3, WorldIs DEF Guarded
  <2> QED BY <2>3, <2>4, <2>5, BecameWorld
<1>4. CASE pack.state # "live"
  <2>1. "user-disconnect" \in Words
    BY DEF Words
  <2> DEFINE over == SettleAfterLive(Drop(off), "user-disconnect")
  <2>2. /\ Kept(Drop(off)) /\ Drop(off).pack.state = "idle" /\ Drop(off).solar = off.solar
        /\ Drop(off).app = off.app /\ Drop(off).rec = off.rec
    BY <1>1, Dropped
  <2>4. /\ Kept(over)
        /\ Drop(off).rec.exempt /\ BothIdle(Drop(off)) /\ ~RejoinIsExpected(Drop(off)) =>
             ~over.rec.open
    BY <2>1, <2>2, LiveSettled
  <2>3. Become(SettleAfterLive(Drop(off), "user-disconnect"))
    BY <1>4 DEF PressDisconnect, off
  <2> HIDE DEF over
  <2>5. Kept(World') /\ rec' = over.rec
    BY <2>3, <2>4, BecameWorld DEF over
  <2>6. rec.exempt => rec.open
    BY WorldIs DEF Guarded
  <2>7. rec.exempt /\ solar.state \notin Up => ~over.rec.open
    BY <1>1, <2>2, <2>4 DEF BothIdle, RejoinIsExpected
  <2> QED BY <2>5, <2>6, <2>7 DEF Closed
<1> QED BY <1>3, <1>4

LEMMA LetGo == ASSUME Kept(World), Unsubscribed PROVE StillKept
<1>1. "user-disconnect" \in Words
  BY DEF Words
<1>2. /\ Kept(SettleAfterLive(Drop(World), "user-disconnect"))
      /\ SettleAfterLive(Drop(World), "user-disconnect").app.armed = World.app.armed
  BY <1>1, Dropped, LiveSettled
<1> QED BY <1>2, Became, WorldIs DEF Unsubscribed

LEMMA RejoinPressed == ASSUME Kept(World), PressRejoin PROVE StillKept
<1> DEFINE page == [app EXCEPT !.armed = TRUE]
<1>1. page \in Apps /\ page.remembered = app.remembered /\ page.armed
  BY WorldIs DEF Apps
<1>2. [World EXCEPT !.app.armed = TRUE] = [World EXCEPT !.app = page]
  BY WorldIs DEF Worlds
<1> HIDE DEF page
<1>3. Kept([World EXCEPT !.app = page]) /\ [World EXCEPT !.app = page].app = page
  BY <1>1, WorldIs, AppSet
<1> QED BY <1>1, <1>2, <1>3, Became DEF PressRejoin

\* The controller shown as something else.
LEMMA SolarShown ==
  ASSUME NEW w, Kept(w), NEW state \in {"idle", "connecting"} \cup Up
  PROVE  LET over == [w EXCEPT !.solar.state = state] IN
         /\ Kept(over) /\ over.pack = w.pack /\ over.app = w.app
         /\ over.held = w.held /\ over.rec = w.rec
<1> DEFINE link == [w.solar EXCEPT !.state = state]
<1>1. w \in Worlds /\ link \in SolarLinks
  BY DEF Kept, Worlds, SolarLinks
<1>2. [w EXCEPT !.solar.state = state] = [w EXCEPT !.solar = link]
  BY <1>1 DEF Worlds
<1> HIDE DEF link
<1> QED BY <1>1, <1>2, SolarSet

LEMMA SolarKept ==
  ASSUME Kept(World), SolarTried \/ SolarFails \/ Stale
  PROVE  StillKept
<1>1. /\ Kept([World EXCEPT !.solar.state = "connecting"])
      /\ Kept([World EXCEPT !.solar.state = "listening"])
      /\ [World EXCEPT !.solar.state = "connecting"].app = World.app
      /\ [World EXCEPT !.solar.state = "listening"].app = World.app
  BY SolarShown DEF Up
<1>2. Kept(StopSolarLink(World)) /\ StopSolarLink(World).app = World.app
  BY Stopped
<1>3. \/ Become([World EXCEPT !.solar.state = "connecting"])
      \/ Become([World EXCEPT !.solar.state = "listening"])
      \/ Become(StopSolarLink(World))
  BY DEF SolarTried, SolarFails, Stale
<1> QED BY <1>1, <1>2, <1>3, Became, WorldIs

LEMMA SolarUp == ASSUME Kept(World), SolarComesUp PROVE StillKept
<1> DEFINE up == [World EXCEPT !.solar.state = "listening"]
           claimed == ClaimInstruments(up)
           page == [claimed.app EXCEPT !.armed = TRUE]
           link == [claimed.solar EXCEPT !.known = TRUE]
           still == [claimed EXCEPT !.app = page]
<1>1. Kept(up) /\ up.app = app
  BY SolarShown, WorldIs DEF Up
<1> HIDE DEF up
<1>2. Kept(claimed)
  BY <1>1, Claimed
<1>3. \/ Become([claimed EXCEPT !.app.armed = TRUE, !.solar.known = TRUE])
      \/ Become(up)
  BY DEF SolarComesUp, up
<1> HIDE DEF claimed
<1>4. claimed \in Worlds /\ claimed.app \in Apps /\ claimed.solar \in SolarLinks
  BY <1>2 DEF Kept, Worlds
<1>5. [claimed EXCEPT !.app.armed = TRUE, !.solar.known = TRUE] = [still EXCEPT !.solar = link]
  BY <1>4 DEF Worlds
<1>6. /\ page \in Apps /\ page.remembered = claimed.app.remembered /\ page.armed
      /\ link \in SolarLinks
  BY <1>4 DEF Apps, SolarLinks
<1> HIDE DEF page, link
<1>7. Kept(still) /\ still.app = page
  BY <1>2, <1>6, AppSet
<1> HIDE DEF still
<1>8. /\ Kept([still EXCEPT !.solar = link])
      /\ [still EXCEPT !.solar = link].app = still.app
  BY <1>6, <1>7, SolarSet
<1> QED BY <1>1, <1>3, <1>5, <1>6, <1>7, <1>8, Became

LEMMA ReadingKept == ASSUME Kept(World), Reading PROVE StillKept
<1> DEFINE up == [World EXCEPT !.solar.state = "live"]
           heard == ClaimInstruments(up)
           freed == ReleasePageHold(heard)
<1>1. Kept(up) /\ up.app = app
  BY SolarShown, WorldIs DEF Up
<1>2. Become(Recorded(freed, {}))
  BY DEF Reading
<1> HIDE DEF up
<1>3. Kept(heard) /\ heard.app.armed = up.app.armed
  BY <1>1, Claimed
<1> HIDE DEF heard
<1>4. Kept(freed) /\ freed.app = heard.app
  BY <1>3, ReleaseKept DEF ReleasePageHold
<1> HIDE DEF freed
<1>5. Kept(Recorded(freed, {})) /\ Recorded(freed, {}).app = freed.app
  BY <1>4, RecordedKept
<1> QED BY <1>1, <1>2, <1>3, <1>4, <1>5, Became

LEMMA TornDown == ASSUME Kept(World), WatchTornDown PROVE StillKept
<1>1. /\ Kept(SettleView(StopSolarLink(World)))
      /\ SettleView(StopSolarLink(World)).app.armed = World.app.armed
  BY Stopped, ViewKept
<1> QED BY <1>1, Became, WorldIs DEF WatchTornDown

LEMMA StopPressed == ASSUME Kept(World), PressStopSolar PROVE StillKept
<1> DEFINE link == [solar EXCEPT !.known = FALSE]
           forgotten == [World EXCEPT !.solar = link]
<1>1. link \in SolarLinks
  BY WorldIs DEF SolarLinks
<1>2. [World EXCEPT !.solar.known = FALSE] = forgotten
  BY WorldIs DEF Worlds
<1> HIDE DEF link
<1>3. Kept(forgotten) /\ forgotten.app = World.app
  BY <1>1, SolarSet
<1>4. Become(SettleAfterLive(StopSolarLink(forgotten), "user-disconnect"))
  BY <1>2 DEF PressStopSolar
<1> HIDE DEF forgotten
<1>5. "user-disconnect" \in Words
  BY DEF Words
<1>6. /\ Kept(SettleAfterLive(StopSolarLink(forgotten), "user-disconnect"))
      /\ SettleAfterLive(StopSolarLink(forgotten), "user-disconnect").app.armed = forgotten.app.armed
  BY <1>3, <1>5, Stopped, LiveSettled
<1> QED BY <1>3, <1>4, <1>6, Became, WorldIs

\* The sweep's loan of the controller's radio.
LEMMA Lent ==
  ASSUME Kept(World), NEW out \in BOOLEAN
  PROVE  /\ Kept([World EXCEPT !.solar.lent = out])
         /\ [World EXCEPT !.solar.lent = out].app = World.app
<1> DEFINE link == [solar EXCEPT !.lent = out]
<1>1. link \in SolarLinks
  BY WorldIs DEF SolarLinks
<1>2. [World EXCEPT !.solar.lent = out] = [World EXCEPT !.solar = link]
  BY WorldIs DEF Worlds
<1> HIDE DEF link
<1> QED BY <1>1, <1>2, SolarSet

LEMMA Swept == ASSUME Kept(World), SweepClaims \/ SweepEnds PROVE StillKept
<1> DEFINE away == StopSolarLink([World EXCEPT !.solar.lent = TRUE])
<1>1. /\ Kept(away) /\ Kept([World EXCEPT !.solar.lent = FALSE])
      /\ away.app = World.app /\ [World EXCEPT !.solar.lent = FALSE].app = World.app
  BY Lent, Stopped
<1>2. Become(away) \/ Become(SettleView(away)) \/ Become([World EXCEPT !.solar.lent = FALSE])
  BY DEF SweepClaims, SweepEnds
<1> HIDE DEF away
<1>3. Kept(SettleView(away)) /\ SettleView(away).app.armed = away.app.armed
  BY <1>1, ViewKept
<1> QED BY <1>1, <1>2, <1>3, Became, WorldIs

LEMMA PageTurned == ASSUME Kept(World), TurnPage PROVE StillKept
<1> DEFINE page == [app EXCEPT !.front = ~@]
           turned == [World EXCEPT !.app = page]
<1>1. page \in Apps /\ page.remembered = app.remembered /\ page.armed = app.armed
  BY WorldIs DEF Apps
<1>2. [World EXCEPT !.app.front = ~@] = turned
  BY WorldIs DEF Worlds
<1> HIDE DEF page
<1>3. Kept(turned) /\ turned.app = page
  BY <1>1, WorldIs, AppSet
<1>4. Become(turned) \/ Become(LookedAway(turned))
  BY <1>2 DEF TurnPage
<1> HIDE DEF turned
<1>5. Kept(LookedAway(turned)) /\ LookedAway(turned).app.armed = turned.app.armed
  BY <1>3, StoodDown
<1> QED BY <1>1, <1>3, <1>4, <1>5, Became

LEMMA Looked == ASSUME Kept(World), LookWhileAway PROVE StillKept
<1>1. Kept(LookedAway(World)) /\ LookedAway(World).app.armed = World.app.armed
  BY StoodDown
<1> QED BY <1>1, Became, WorldIs DEF LookWhileAway

LEMMA Ended ==
  ASSUME Kept(World), Window \/ IdleSweep \/ SessionLost
  PROVE  StillKept
<1>1. Kept(WindowRunsOut(World)) /\ WindowRunsOut(World).app = World.app
  BY RanOut
<1>2. /\ Kept(Finish(World, "stalled")) /\ Finish(World, "stalled").app = World.app
      /\ Kept(Finish(World, "archive-lost")) /\ Finish(World, "archive-lost").app = World.app
  BY FinishKept DEF Words, Reasons
<1>3. \/ Become(WindowRunsOut(World)) \/ Become(Finish(World, "stalled"))
      \/ Become(Finish(World, "archive-lost"))
  BY DEF Window, IdleSweep, SessionLost
<1> QED BY <1>1, <1>2, <1>3, Became, WorldIs

LEMMA Disposed == ASSUME Kept(World), Dispose PROVE StillKept
<1> DEFINE freed == ReleaseHold(World)
           page == [freed.app EXCEPT !.gone = TRUE]
<1>1. Kept(freed) /\ freed.app = World.app
  BY ReleaseKept
<1>2. Become([freed EXCEPT !.app.gone = TRUE])
  BY DEF Dispose
<1> HIDE DEF freed
<1>3. /\ freed \in Worlds /\ page \in Apps /\ page.remembered = freed.app.remembered
      /\ page.armed = freed.app.armed
  BY <1>1 DEF Kept, Worlds, Apps
<1>4. [freed EXCEPT !.app.gone = TRUE] = [freed EXCEPT !.app = page]
  BY <1>3 DEF Worlds
<1> HIDE DEF page
<1>5. Kept([freed EXCEPT !.app = page]) /\ [freed EXCEPT !.app = page].app = page
  BY <1>1, <1>3, AppSet
<1> QED BY <1>1, <1>2, <1>3, <1>4, <1>5, Became, WorldIs

LEMMA Started == Init => IInv
<1> SUFFICES ASSUME Init PROVE IInv
  OBVIOUS
<1>1. /\ pack \in PackLinks /\ solar \in SolarLinks /\ app \in Apps /\ held \in Holds
      /\ rec \in Recordings
  BY DEF Init, NoHold, PackLinks, PackStates, SolarLinks, Apps, Holds, Reasons, Recordings, Words
<1>2. World \in Worlds
  BY <1>1 DEF World, Worlds
<1>3. Guarded(World) /\ Owned(World)
  BY DEF Init, World, Guarded, Owned, NoHold
<1>4. spent \in 0 .. MaxHappenings
  BY SessionHoldAssumption DEF Init
<1> QED BY <1>2, <1>3, <1>4 DEF IInv, Kept

LEMMA Spending == ASSUME spent \in 0 .. MaxHappenings, Next PROVE spent' \in 0 .. MaxHappenings
<1>1. UNCHANGED spent \/ (spent < MaxHappenings /\ spent' = spent + 1)
  BY DEF Next, PackSteps, SolarSteps, Goes, Happens, Pressed, PackTried, PackComesUp, PackFails,
         Snapshot, Identified, PackDrops, PressDisconnect, Unsubscribed, PressRejoin, SolarTried,
         SolarComesUp, SolarFails, Reading, Stale, WatchTornDown, PressStopSolar, SweepClaims,
         SweepEnds, TurnPage, LookWhileAway, Window, IdleSweep, SessionLost, Dispose
<1> QED BY <1>1, SessionHoldAssumption

\* A step keeps the invariant, and only a Disconnect forgets the intent.
LEMMA Step ==
  ASSUME IInv, Next
  PROVE  /\ Kept(World')
         /\ app.armed /\ ~app'.armed /\ rec.exempt => Closed \/ solar.state \in Up
<1>0. Kept(World)
  BY DEF IInv
<1>1. CASE PressDisconnect
  BY <1>0, <1>1, Disconnected
<1>2. CASE PackSteps /\ ~PressDisconnect
  <2>1. StillKept
    BY <1>0, <1>2, Tried, CameUp, Fails, Snapped, Named, Lost, LetGo, RejoinPressed DEF PackSteps
  <2> QED BY <2>1 DEF StillKept
<1>3. CASE SolarSteps
  <2>1. StillKept
    BY <1>0, <1>3, SolarKept, SolarUp, ReadingKept, TornDown, StopPressed, Swept, PageTurned, Looked
    DEF SolarSteps
  <2> QED BY <2>1 DEF StillKept
<1>4. CASE Window \/ IdleSweep \/ SessionLost \/ Dispose
  <2>1. StillKept
    BY <1>0, <1>4, Ended, Disposed
  <2> QED BY <2>1 DEF StillKept
<1> QED BY <1>1, <1>2, <1>3, <1>4 DEF Next

LEMMA Preserved == ASSUME IInv, [Next]_vars PROVE IInv'
<1>1. CASE Next
  <2>1. spent' \in 0 .. MaxHappenings
    BY <1>1, Spending DEF IInv
  <2> QED BY <1>1, <2>1, Step DEF IInv
<1>2. CASE UNCHANGED vars
  <2>1. World' = World /\ spent' = spent
    BY <1>2 DEF vars, World
  <2> QED BY <2>1 DEF IInv
<1> QED BY <1>1, <1>2

-----------------------------------------------------------------------------
(* The theorems *)

\* In every world telemetry's code can make, a session out of the recorder's guard
\* has a window of its own, and the rows in it are the remembered pack's.
THEOREM KeptAlways == Spec => []IInv
<1>1. Init => IInv
  BY Started
<1>2. IInv /\ [Next]_vars => IInv'
  BY Preserved
<1> QED BY <1>1, <1>2, PTL DEF Spec

\* holdSessionOpen, releaseHold and finishAfterHold leave a session to a window
\* exactly while one counts for it, and never while a pack writes into it.
THEOREM NobodyIsForgotten == Spec => []GuardOrWindow
<1>1. ASSUME IInv PROVE GuardOrWindow
  <2>1. Kept(World) /\ spent \in 0 .. MaxHappenings
    BY <1>1 DEF IInv
  <2>2. TypeOK
    BY <2>1, WorldIs DEF TypeOK, PackLinks, SolarLinks, Apps, Holds, Recordings, Words, Guarded
  <2>3. ExemptIsCountedFor /\ FedIsNotExempt
    BY <2>1, WorldIs DEF ExemptIsCountedFor, FedIsNotExempt, Guarded
  <2> QED BY <2>2, <2>3 DEF GuardOrWindow
<1> QED BY <1>1, KeptAlways, PTL

\* A session that waits for its pack gets no other pack's rows: settleForChosenPack
\* closes it first.
THEOREM WaitingIsForOnePack == Spec => []WaitingSessionIsOnePacks
<1>1. ASSUME IInv PROVE WaitingSessionIsOnePacks
  <2>1. rec.swapped \/ rec.rows \subseteq {app.remembered}
    BY <1>1, WorldIs DEF IInv, Owned
  <2>2. rec.rows \subseteq {app.remembered} => rec.rows = {} \/ rec.rows = {app.remembered}
    OBVIOUS
  <2>3. Cardinality({}) = 0 /\ Cardinality({app.remembered}) = 1
    BY FS_EmptySet, FS_Singleton
  <2> QED BY <2>1, <2>2, <2>3 DEF WaitingSessionIsOnePacks
<1> QED BY <1>1, KeptAlways, PTL

\* disconnectBms forgets the intent, and with it the gap: a session that stood open
\* for a radio is closed in the same stretch, unless the controller feeds it.
THEOREM StoppingIsNoGap == Spec => DisconnectEndsTheGap
<1>1. IInv /\ [Next]_vars =>
        [app.armed /\ ~app'.armed /\ rec.exempt => Closed \/ solar.state \in Up]_vars
  BY Step
<1> QED BY <1>1, KeptAlways, PTL DEF Spec, DisconnectEndsTheGap
=============================================================================
