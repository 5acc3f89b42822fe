---------------------------- MODULE SolarLinkProofs ----------------------------
(***************************************************************************)
(* The watch over the solar controller, for any transports, window, budget  *)
(* and ladder and any number of happenings.  The invariant is one of        *)
(* worlds.  What makes a world Fit is kept by every stretch of code; what   *)
(* makes it Right - that an attempt is still allowed, that a hidden page    *)
(* holds nothing, that the supervisor is not asleep - is what a look puts   *)
(* in order again, whatever was done before it.                             *)
(***************************************************************************)
EXTENDS SolarLink, SequenceTheorems, WellFoundedInduction, TLAPS

-----------------------------------------------------------------------------
(* The invariant, of a world *)

Ages == Seq(0 .. Window - 1)
Scans == [stage : Stages, auto : BOOLEAN, recent : Ages, gap : Nat, due : Nat,
          rearming : BOOLEAN]
Sols == [state : {"idle", "connecting"} \cup Up,
         naming : {"none", "start", "resume"}, armed : BOOLEAN,
         remembered : BOOLEAN, key : BOOLEAN, sweep : {"none", "reading"},
         asked : BOOLEAN, considered : BOOLEAN, refused : BOOLEAN,
         stoodDown : BOOLEAN]
Blockers == {"none", "permission-gone", "browser-cannot-rejoin", "radio-off"}
Sups == [running : BOOLEAN, look : BOOLEAN, inFlight : BOOLEAN, recent : BOOLEAN,
         missed : BOOLEAN, blocker : Blockers]
Pages == [transport : Transports, front : BOOLEAN, adapterOn : BOOLEAN,
          permitted : BOOLEAN, view : {"mounting", "mounted", "gone"}]

\* The oldest registration comes first, and the ladder stays under its ceiling.
Ordered(recent) == \A i, j \in DOMAIN recent : i <= j => recent[j] <= recent[i]
Paced(s) ==
  /\ Ordered(s.recent)
  /\ s.gap \in FirstRearm .. RearmCeiling
  /\ s.due <= RearmCeiling \/ s.due <= Window

\* The badge is that of the scan.
Shown(w) ==
  /\ w.sol.state = "idle" <=> w.scan.stage = "off"
  /\ w.sol.state \in Up => w.scan.stage \in {"arming", "up"}
  /\ w.scan.stage = "up" => w.sol.state \in Up

\* What a resume leaves is a resume's, and the budget was asked before its watch
\* goes on to register.
Made(w) ==
  /\ w.sol.naming = "resume" => w.scan.auto /\ w.scan.stage = "up"
  /\ w.sup.inFlight /\ w.scan.stage # "off" => w.scan.auto
  /\ w.page.transport = "watch" /\ w.scan.auto =>
       w.scan.stage # "asking" /\ (w.scan.stage = "key" => Wait(w.scan.recent) = 0)

Yielded(w) == Sweeping(w) /\ Busy(w) => ~w.scan.auto

Fit(w) == w \in Worlds /\ Paced(w.scan) /\ Shown(w) /\ Made(w) /\ Yielded(w)

\* An attempt in flight would be begun again now, and a hidden page holds nothing.
Lawful(w) ==
  /\ w.sup.inFlight => MayResume(w)
  /\ ~w.page.front /\ CanRestoreTheWatch(w) => w.sol.state = "idle"

\* Short of a scan that runs, something is under way; and an attempt whose watch is
\* already gone was found so by a look.
Alert(w) == w.sup.look \/ w.sup.missed
Seeking(w) ==
  w.sup.running /\ MayResume(w) =>
    /\ w.scan.stage # "up" => w.sup.inFlight \/ w.sup.blocker # "none" \/ Alert(w)
    /\ w.scan.stage = "off" /\ w.sup.inFlight => Alert(w)

Sound(w) == Fit(w) /\ (w.sup.inFlight => w.sup.running)
Right(w) == Sound(w) /\ Lawful(w) /\ Seeking(w)

IInv ==
  /\ Right(World)
  /\ sup.inFlight => Resuming(World)
  /\ spent \in 0 .. MaxHappenings

-----------------------------------------------------------------------------
(* Registrations and their ages *)

LEMMA Bounds ==
  /\ Window \in Nat /\ Window > 0 /\ Budget \in Nat /\ Budget > 0
  /\ FirstRearm \in Nat /\ FirstRearm > 0 /\ RearmCeiling \in Nat
  /\ FirstRearm <= RearmCeiling /\ MaxHappenings \in Nat
  BY SolarLinkAssumption

LEMMA AgesAre ==
  ASSUME NEW recent \in Ages
  PROVE  /\ Len(recent) \in Nat /\ DOMAIN recent = 1 .. Len(recent)
         /\ \A i \in 1 .. Len(recent) : recent[i] \in 0 .. Window - 1
  BY LenProperties, ElementOfSeq DEF Ages

\* solarWatchResumeAvailableAt has a registration free now exactly while fewer
\* than the budget are in the window.
LEMMA WaitIs ==
  ASSUME NEW recent \in Ages
  PROVE  /\ Wait(recent) \in 0 .. Window
         /\ Wait(recent) = 0 <=> Len(recent) < Budget
<1>1. Len(recent) \in Nat /\ \A i \in 1 .. Len(recent) : recent[i] \in 0 .. Window - 1
  BY AgesAre
<1>2. CASE Len(recent) < Budget
  BY <1>1, <1>2, Bounds DEF Wait
<1>3. CASE ~(Len(recent) < Budget)
  <2> DEFINE first == Len(recent) - Budget + 1
  <2>1. first \in 1 .. Len(recent)
    BY <1>1, <1>3, Bounds
  <2>2. recent[first] \in 0 .. Window - 1
    BY <1>1, <2>1
  <2>3. Wait(recent) = Window - recent[first]
    BY <1>3 DEF Wait
  <2> HIDE DEF first
  <2> QED BY <1>3, <2>2, <2>3, Bounds
<1> QED BY <1>2, <1>3

LEMMA LeastIs ==
  ASSUME NEW S \in SUBSET Nat, S # {}
  PROVE  Min(S) \in S /\ \A y \in S : Min(S) <= y
<1>1. PICK x \in S : \A y \in S : ~(<<y, x>> \in OpToRel(<, Nat))
  BY WFMin, NatLessThanWellFounded
<1>2. ASSUME NEW y \in S PROVE x <= y
  <2>1. ~(y < x)
    <3>1. <<y, x>> \in Nat \X Nat /\ <<y, x>>[1] = y /\ <<y, x>>[2] = x
      OBVIOUS
    <3> QED BY <1>1, <3>1 DEF OpToRel
  <2> QED BY <2>1
<1> QED BY <1>2 DEF Min

\* What a tick drops is the oldest registrations, and no more than are out of the
\* window.
LEMMA AgedIs ==
  ASSUME NEW recent \in Ages, Ordered(recent)
  PROVE  /\ Aged(recent) \in Ages /\ Ordered(Aged(recent))
         /\ Len(Aged(recent)) <= Len(recent)
<1> DEFINE n == Len(recent)
           older == [i \in DOMAIN recent |-> recent[i] + 1]
           kept == {i \in DOMAIN recent : older[i] < Window}
<1>1. n \in Nat /\ DOMAIN recent = 1 .. n /\ \A i \in 1 .. n : recent[i] \in 0 .. Window - 1
  BY AgesAre
<1>2. CASE kept = {}
  <2>1. Aged(recent) = <<>>
    BY <1>2 DEF Aged
  <2>2. Aged(recent) \in Ages /\ Len(Aged(recent)) = 0 /\ DOMAIN Aged(recent) = {}
    BY <2>1 DEF Ages
  <2> QED BY <1>1, <2>2 DEF Ordered
<1>3. CASE kept # {}
  <2> DEFINE m == Min(kept)
             aged == SubSeq(older, m, n)
  <2>1. Aged(recent) = aged
    BY <1>3 DEF Aged
  <2>2. m \in kept
    <3>1. kept \in SUBSET Nat
      BY <1>1
    <3> HIDE DEF kept
    <3> QED BY <1>3, <3>1, LeastIs
  <2> HIDE DEF m
  <2>3. m \in 1 .. n /\ recent[m] + 1 < Window
    BY <1>1, <2>2
  <2>4. \A i \in m .. n : older[i] \in 0 .. Window - 1 /\ older[i] = recent[i] + 1
    <3> SUFFICES ASSUME NEW i \in m .. n
                 PROVE  older[i] \in 0 .. Window - 1 /\ older[i] = recent[i] + 1
      OBVIOUS
    <3>1. i \in 1 .. n /\ recent[i] <= recent[m]
      BY <1>1, <2>3 DEF Ordered
    <3>2. older[i] = recent[i] + 1 /\ recent[i] \in 0 .. Window - 1 /\ recent[m] \in 0 .. Window - 1
      BY <1>1, <2>3, <3>1
    <3> HIDE DEF older
    <3> QED BY <2>3, <3>1, <3>2, Bounds
  <2> HIDE DEF older
  <2>5. /\ aged \in Ages /\ Len(aged) = n - m + 1
        /\ \A i \in 1 .. n - m + 1 : aged[i] = older[m + i - 1]
    <3>1. m \in Int /\ n \in Int /\ m <= n
      BY <1>1, <2>3
    <3> HIDE DEF n
    <3> QED BY <2>4, <3>1, SubSeqProperties DEF Ages
  <2> HIDE DEF aged
  <2>6. DOMAIN aged = 1 .. n - m + 1
    BY <2>5 DEF Ages
  <2>7. Ordered(aged)
    <3> SUFFICES ASSUME NEW i \in 1 .. n - m + 1, NEW j \in 1 .. n - m + 1, i <= j
                 PROVE  aged[j] <= aged[i]
      BY <2>6 DEF Ordered
    <3>1. m + i - 1 \in m .. n /\ m + j - 1 \in m .. n /\ m + i - 1 <= m + j - 1
      BY <1>1, <2>3
    <3>2. m + i - 1 \in DOMAIN recent /\ m + j - 1 \in DOMAIN recent
      BY <1>1, <2>3, <3>1
    <3>3. recent[m + j - 1] <= recent[m + i - 1]
      BY <3>1, <3>2 DEF Ordered
    <3>4. recent[m + j - 1] \in Nat /\ recent[m + i - 1] \in Nat
      BY <1>1, <3>2, Bounds
    <3>5. aged[i] = recent[m + i - 1] + 1 /\ aged[j] = recent[m + j - 1] + 1
      BY <2>4, <2>5, <3>1
    <3> QED BY <3>3, <3>4, <3>5
  <2> QED BY <1>1, <2>1, <2>3, <2>5, <2>7
<1> QED BY <1>2, <1>3

-----------------------------------------------------------------------------
(* One part of a world replaced *)

LEMMA Parts ==
  ASSUME NEW w \in Worlds
  PROVE  w.scan \in Scans /\ w.sol \in Sols /\ w.sup \in Sups /\ w.page \in Pages
  BY DEF Worlds, Scans, Ages, Sols, Sups, Blockers, Pages

LEMMA ScanSet ==
  ASSUME NEW w \in Worlds, NEW s \in Scans
  PROVE  LET v == [w EXCEPT !.scan = s] IN
         v \in Worlds /\ v.scan = s /\ v.sol = w.sol /\ v.sup = w.sup /\ v.page = w.page
  BY DEF Worlds, Scans, Ages

LEMMA SolSet ==
  ASSUME NEW w \in Worlds, NEW s \in Sols
  PROVE  LET v == [w EXCEPT !.sol = s] IN
         v \in Worlds /\ v.scan = w.scan /\ v.sol = s /\ v.sup = w.sup /\ v.page = w.page
  BY DEF Worlds, Sols

LEMMA SupSet ==
  ASSUME NEW w \in Worlds, NEW s \in Sups
  PROVE  LET v == [w EXCEPT !.sup = s] IN
         v \in Worlds /\ v.scan = w.scan /\ v.sol = w.sol /\ v.sup = s /\ v.page = w.page
  BY DEF Worlds, Sups, Blockers

LEMMA PageSet ==
  ASSUME NEW w \in Worlds, NEW p \in Pages
  PROVE  LET v == [w EXCEPT !.page = p] IN
         v \in Worlds /\ v.scan = w.scan /\ v.sol = w.sol /\ v.sup = w.sup /\ v.page = p
  BY DEF Worlds, Pages

\* What mayResume asks of telemetry and the page.
SameWish(w, v) ==
  /\ v.sol.armed = w.sol.armed /\ v.sol.remembered = w.sol.remembered
  /\ v.sol.key = w.sol.key /\ v.sol.sweep = w.sol.sweep
  /\ v.page.front = w.page.front /\ v.page.adapterOn = w.page.adapterOn
  /\ v.page.transport = w.page.transport

LEMMA WishIs ==
  ASSUME NEW w, NEW v, SameWish(w, v)
  PROVE  /\ WhatItTakesToResume(v) <=> WhatItTakesToResume(w)
         /\ MayResume(v) <=> MayResume(w)
         /\ Sweeping(v) <=> Sweeping(w)
  BY DEF SameWish, WhatItTakesToResume, MayResume, Sweeping, CanEverResume

-----------------------------------------------------------------------------
(* A scan taken down *)

LEMMA NoScanIs ==
  ASSUME NEW recent \in Ages, Ordered(recent)
  PROVE  LET s == NoScan(recent) IN
         /\ s \in Scans /\ Paced(s) /\ s.stage = "off" /\ ~s.auto /\ s.recent = recent
<1>1. FirstRearm \in Nat /\ 0 \in Nat /\ FirstRearm \in FirstRearm .. RearmCeiling
      /\ 0 <= RearmCeiling
  BY Bounds
<1>2. "off" \in Stages
  BY DEF Stages
<1> QED BY <1>1, <1>2 DEF NoScan, Scans, Paced

\* What a stretch that takes the scan down leaves: nothing running or awaited,
\* and nothing else changed.
Downed(w, v) ==
  /\ v.scan = NoScan(w.scan.recent) /\ v.sol.state = "idle" /\ v.sol.naming = "none"
  /\ SameWish(w, v)

LEMMA DownedIsFit ==
  ASSUME NEW w \in Worlds, Paced(w.scan), NEW v \in Worlds, Downed(w, v)
  PROVE  /\ Fit(v) /\ v.scan.stage = "off" /\ ~v.scan.auto /\ ~Busy(v)
         /\ v.scan.recent = w.scan.recent
<1>1. w.scan.recent \in Ages /\ Ordered(w.scan.recent)
  BY Parts DEF Scans, Paced
<1>2. /\ Paced(v.scan) /\ v.scan.stage = "off" /\ ~v.scan.auto
      /\ v.scan.recent = w.scan.recent
  BY <1>1, NoScanIs DEF Downed
<1>3. v.sol.state = "idle" /\ v.sol.naming = "none"
  BY DEF Downed
<1> QED BY <1>2, <1>3 DEF Fit, Shown, Made, Yielded, Busy, Up

LEMMA StopIs ==
  ASSUME NEW w \in Worlds, Paced(w.scan)
  PROVE  LET v == StopSolarLink(w) IN
         /\ v \in Worlds /\ Downed(w, v) /\ v.sup = w.sup
         /\ v.sol.considered = w.sol.considered /\ v.sol.refused = w.sol.refused
         /\ v.sol.asked = FALSE /\ v.sol.stoodDown = FALSE
<1> DEFINE sc == NoScan(w.scan.recent)
           so == [w.sol EXCEPT !.state = "idle", !.naming = "none", !.asked = FALSE,
                               !.stoodDown = FALSE]
           u == [w EXCEPT !.scan = sc]
           v == [u EXCEPT !.sol = so]
<1>1. w.scan \in Scans /\ w.sol \in Sols /\ w.scan.recent \in Ages /\ Ordered(w.scan.recent)
  BY Parts DEF Scans, Paced
<1>2. sc \in Scans
  BY <1>1, NoScanIs
<1>3. /\ so \in Sols /\ so.state = "idle" /\ so.naming = "none" /\ so.armed = w.sol.armed
      /\ so.remembered = w.sol.remembered /\ so.key = w.sol.key /\ so.sweep = w.sol.sweep
      /\ so.considered = w.sol.considered /\ so.refused = w.sol.refused
      /\ so.asked = FALSE /\ so.stoodDown = FALSE
  BY <1>1 DEF Sols
<1>4. StopSolarLink(w) = v
  BY <1>1 DEF StopSolarLink, Worlds, Sols
<1> HIDE DEF so
<1>5. u \in Worlds /\ u.scan = sc /\ u.sol = w.sol /\ u.sup = w.sup /\ u.page = w.page
  BY <1>2, ScanSet
<1> HIDE DEF u
<1>6. v \in Worlds /\ v.scan = sc /\ v.sol = so /\ v.sup = w.sup /\ v.page = w.page
  BY <1>3, <1>5, SolSet
<1> HIDE DEF v
<1> QED BY <1>3, <1>4, <1>6 DEF Downed, SameWish

\* standDown of the supervisor.
LEMMA QuietIs ==
  ASSUME NEW w \in Worlds
  PROVE  LET v == [w EXCEPT !.sup.look = FALSE, !.sup.inFlight = FALSE] IN
         /\ v \in Worlds /\ v.scan = w.scan /\ v.sol = w.sol /\ v.page = w.page
         /\ v.sup.running = w.sup.running /\ v.sup.look = FALSE /\ v.sup.inFlight = FALSE
         /\ v.sup.missed = w.sup.missed /\ v.sup.blocker = w.sup.blocker
<1> DEFINE s == [w.sup EXCEPT !.look = FALSE, !.inFlight = FALSE]
           v == [w EXCEPT !.sup = s]
<1>1. w.sup \in Sups
  BY Parts
<1>2. /\ s \in Sups /\ s.running = w.sup.running /\ s.look = FALSE /\ s.inFlight = FALSE
      /\ s.missed = w.sup.missed /\ s.blocker = w.sup.blocker
  BY <1>1 DEF Sups
<1>3. [w EXCEPT !.sup.look = FALSE, !.sup.inFlight = FALSE] = v
  BY <1>1 DEF Worlds, Sups
<1> HIDE DEF s
<1>4. v \in Worlds /\ v.scan = w.scan /\ v.sol = w.sol /\ v.sup = s /\ v.page = w.page
  BY <1>2, SupSet
<1> HIDE DEF v
<1> QED BY <1>2, <1>3, <1>4

LEMMA StandDownIs ==
  ASSUME NEW w, Fit(w)
  PROVE  LET v == StandDown(w) IN
         /\ Sound(v) /\ SameWish(w, v)
         /\ v.sup.running = w.sup.running /\ ~v.sup.look /\ ~v.sup.inFlight
         /\ v.sup.missed = w.sup.missed /\ v.sup.blocker = w.sup.blocker
         /\ v.scan.recent = w.scan.recent
         /\ \/ v.scan = w.scan /\ v.sol = w.sol
            \/ v.scan.stage = "off" /\ v.sol.state = "idle"
         /\ w.sup.inFlight /\ Resuming(w) => v.sol.state = "idle"
<1> DEFINE quiet == [w EXCEPT !.sup.look = FALSE, !.sup.inFlight = FALSE]
           down == StopSolarLink(quiet)
<1>1. w \in Worlds /\ Paced(w.scan)
  BY DEF Fit
<1>2. StandDown(w) = IF w.sup.inFlight /\ Resuming(w) THEN down ELSE quiet
  BY DEF StandDown
<1>3. /\ quiet \in Worlds /\ quiet.scan = w.scan /\ quiet.sol = w.sol /\ quiet.page = w.page
      /\ quiet.sup.running = w.sup.running /\ quiet.sup.look = FALSE
      /\ quiet.sup.inFlight = FALSE
      /\ quiet.sup.missed = w.sup.missed /\ quiet.sup.blocker = w.sup.blocker
  BY <1>1, QuietIs
<1> HIDE DEF quiet
<1>4. down \in Worlds /\ Downed(quiet, down) /\ down.sup = quiet.sup
  BY <1>1, <1>3, StopIs
<1>5. Fit(down) /\ down.scan.stage = "off" /\ down.scan.recent = w.scan.recent
  BY <1>1, <1>3, <1>4, DownedIsFit
<1> HIDE DEF down
<1>6. Fit(quiet)
  BY <1>3 DEF Fit, Shown, Made, Yielded, Sweeping, Busy
<1>7. CASE w.sup.inFlight /\ Resuming(w)
  BY <1>2, <1>3, <1>4, <1>5, <1>7 DEF Sound, SameWish, Downed
<1>8. CASE ~(w.sup.inFlight /\ Resuming(w))
  BY <1>2, <1>3, <1>6, <1>8 DEF Sound, SameWish
<1> QED BY <1>7, <1>8
-----------------------------------------------------------------------------
(* A look *)

LEMMA ReportBlockerIs ==
  ASSUME NEW w \in Worlds
  PROVE  LET v == ReportBlocker(w) IN
         /\ v \in Worlds /\ v.scan = w.scan /\ v.sol = w.sol /\ v.page = w.page
         /\ v.sup.running = w.sup.running /\ v.sup.look = w.sup.look
         /\ v.sup.inFlight = w.sup.inFlight
<1> DEFINE b == IF ~w.sol.armed \/ ~w.sol.key \/ Busy(w) THEN "none"
                ELSE IF ~CanEverResume(w) THEN "browser-cannot-rejoin"
                ELSE IF ~w.sol.remembered THEN "none"
                ELSE IF ~w.page.adapterOn THEN "radio-off"
                ELSE IF w.sup.blocker = "permission-gone" THEN w.sup.blocker ELSE "none"
           s == [w.sup EXCEPT !.blocker = b]
           v == [w EXCEPT !.sup = s]
<1>1. w.sup \in Sups
  BY Parts
<1>2. b \in Blockers
  BY DEF Blockers
<1>3. ReportBlocker(w) = v
  BY <1>1 DEF ReportBlocker, Worlds, Sups
<1> HIDE DEF b
<1>4. /\ s \in Sups /\ s.running = w.sup.running /\ s.look = w.sup.look
      /\ s.inFlight = w.sup.inFlight
  BY <1>1, <1>2 DEF Sups
<1> HIDE DEF s
<1>5. v \in Worlds /\ v.scan = w.scan /\ v.sol = w.sol /\ v.sup = s /\ v.page = w.page
  BY <1>4, SupSet
<1> HIDE DEF v
<1> QED BY <1>3, <1>4, <1>5

Heeded(w) == ReportBlocker([w EXCEPT !.sup.look = FALSE, !.sup.missed = FALSE])
Asked(w) == ReleaseWatch(Heeded(w))

LEMMA HeededIs ==
  ASSUME NEW w \in Worlds
  PROVE  LET v == Heeded(w) IN
         /\ v \in Worlds /\ v.scan = w.scan /\ v.sol = w.sol /\ v.page = w.page
         /\ v.sup.running = w.sup.running /\ v.sup.inFlight = w.sup.inFlight
<1> DEFINE s == [w.sup EXCEPT !.look = FALSE, !.missed = FALSE]
           u == [w EXCEPT !.sup = s]
<1>1. w.sup \in Sups
  BY Parts
<1>2. s \in Sups /\ s.running = w.sup.running /\ s.inFlight = w.sup.inFlight
  BY <1>1 DEF Sups
<1>3. [w EXCEPT !.sup.look = FALSE, !.sup.missed = FALSE] = u
  BY <1>1 DEF Worlds, Sups
<1> HIDE DEF s
<1>4. u \in Worlds /\ u.scan = w.scan /\ u.sol = w.sol /\ u.sup = s /\ u.page = w.page
  BY <1>2, SupSet
<1> HIDE DEF u
<1> QED BY <1>2, <1>3, <1>4, ReportBlockerIs DEF Heeded

\* What look asks of before it decides: with the page in front nothing of the
\* scan, behind another window a watch that could be put back is let go.
LEMMA AskedIs ==
  ASSUME NEW w \in Worlds, Paced(w.scan)
  PROVE  LET v == Asked(w) IN
         /\ v \in Worlds /\ SameWish(w, v) /\ v.scan.recent = w.scan.recent
         /\ v.sup.running = w.sup.running /\ v.sup.inFlight = w.sup.inFlight
         /\ \/ v.scan = w.scan /\ v.sol = w.sol
            \/ Fit(v) /\ ~w.page.front /\ v.scan.stage = "off" /\ v.sol.state = "idle"
         /\ ~w.page.front /\ WhatItTakesToResume(w) => v.sol.state = "idle"
<1> DEFINE u == Heeded(w)
           down == StopSolarLink(u)
<1>1. /\ u \in Worlds /\ u.scan = w.scan /\ u.sol = w.sol /\ u.page = w.page
      /\ u.sup.running = w.sup.running /\ u.sup.inFlight = w.sup.inFlight
  BY HeededIs
<1>2. Asked(w) = IF ~u.page.front /\ WhatItTakesToResume(u) /\ (Busy(u) \/ Sweeping(u))
                 THEN down ELSE u
  BY DEF Asked, ReleaseWatch
<1> HIDE DEF u
<1>3. down \in Worlds /\ Downed(u, down) /\ down.sup = u.sup
  BY <1>1, StopIs
<1>4. Fit(down) /\ down.scan.stage = "off" /\ down.scan.recent = u.scan.recent
  BY <1>1, <1>3, DownedIsFit
<1> HIDE DEF down
<1>5. WhatItTakesToResume(u) <=> WhatItTakesToResume(w)
  BY <1>1, WishIs DEF SameWish
<1>6. CASE ~u.page.front /\ WhatItTakesToResume(u) /\ (Busy(u) \/ Sweeping(u))
  BY <1>1, <1>2, <1>3, <1>4, <1>6 DEF Downed, SameWish
<1>7. CASE ~(~u.page.front /\ WhatItTakesToResume(u) /\ (Busy(u) \/ Sweeping(u)))
  BY <1>1, <1>2, <1>5, <1>7 DEF SameWish, Busy
<1> QED BY <1>6, <1>7

LEMMA AttemptResumeIs ==
  ASSUME NEW w \in Worlds, Paced(w.scan)
  PROVE  LET v == AttemptResume(w) IN
         /\ v \in Worlds /\ SameWish(w, v) /\ v.sol.state = "connecting"
         /\ v.sol.naming = w.sol.naming /\ v.scan.recent = w.scan.recent
         /\ v.sup.running = w.sup.running /\ v.sup.inFlight
         /\ Paced(v.scan) /\ v.scan.auto
         /\ v.scan.stage = IF w.page.transport = "watch" THEN "listing" ELSE "asking"
<1> DEFINE stage == IF w.page.transport = "watch" THEN "listing" ELSE "asking"
           none == NoScan(w.scan.recent)
           sc == [none EXCEPT !.stage = stage, !.auto = TRUE]
           so == [w.sol EXCEPT !.state = "connecting", !.asked = FALSE]
           su == [w.sup EXCEPT !.inFlight = TRUE, !.recent = TRUE]
           a == [w EXCEPT !.sup = su]
           b == [a EXCEPT !.sol = so]
           v == [b EXCEPT !.scan = sc]
<1>1. /\ w.scan \in Scans /\ w.sol \in Sols /\ w.sup \in Sups
      /\ w.scan.recent \in Ages /\ Ordered(w.scan.recent)
  BY Parts DEF Scans, Paced
<1>2. none \in Scans /\ Paced(none) /\ none.recent = w.scan.recent
  BY <1>1, NoScanIs
<1>3. AttemptResume(w) = v
  <2>1. [w EXCEPT !.sup.inFlight = TRUE, !.sup.recent = TRUE,
                  !.sol.state = "connecting", !.sol.asked = FALSE] = b
    BY <1>1 DEF Worlds, Sols, Sups
  <2>2. b.scan = w.scan
    BY DEF Worlds
  <2> QED BY <2>1, <2>2 DEF AttemptResume
<1> HIDE DEF none
<1>4. stage \in Stages
  BY DEF Stages
<1> HIDE DEF stage
<1>5. sc \in Scans /\ Paced(sc) /\ sc.auto /\ sc.stage = stage /\ sc.recent = w.scan.recent
  BY <1>2, <1>4 DEF Scans, Paced
<1> HIDE DEF sc
<1>6. /\ so \in Sols /\ so.state = "connecting" /\ so.naming = w.sol.naming
      /\ so.armed = w.sol.armed /\ so.remembered = w.sol.remembered
      /\ so.key = w.sol.key /\ so.sweep = w.sol.sweep
  BY <1>1 DEF Sols
<1> HIDE DEF so
<1>7. su \in Sups /\ su.running = w.sup.running /\ su.inFlight = TRUE
  BY <1>1 DEF Sups
<1> HIDE DEF su
<1>8. a \in Worlds /\ a.scan = w.scan /\ a.sol = w.sol /\ a.sup = su /\ a.page = w.page
  BY <1>7, SupSet
<1> HIDE DEF a
<1>9. b \in Worlds /\ b.scan = w.scan /\ b.sol = so /\ b.sup = su /\ b.page = w.page
  BY <1>6, <1>8, SolSet
<1> HIDE DEF b
<1>10. v \in Worlds /\ v.scan = sc /\ v.sol = so /\ v.sup = su /\ v.page = w.page
  BY <1>5, <1>9, ScanSet
<1> HIDE DEF v
<1> QED BY <1>3, <1>5, <1>6, <1>7, <1>10 DEF SameWish, stage
LEMMA LookIs ==
  ASSUME NEW w \in Worlds
  PROVE  Look[w] =
           LET asked == Asked(w) IN
           IF ~w.sup.running THEN [w EXCEPT !.sup.look = FALSE]
           ELSE IF ~MayResume(asked) THEN StandDown(asked)
           ELSE IF asked.sup.inFlight THEN [asked EXCEPT !.sup.missed = ~Busy(asked)]
           ELSE IF Busy(asked) \/ asked.sup.recent \/ ~MayRegister(asked)
           THEN [asked EXCEPT !.sup.look = TRUE]
           ELSE AttemptResume(asked)
  BY DEF Look, Asked, Heeded

LEMMA LookSet ==
  ASSUME NEW w \in Worlds, NEW b \in BOOLEAN
  PROVE  LET v == [w EXCEPT !.sup.look = b] IN
         /\ v \in Worlds /\ v.scan = w.scan /\ v.sol = w.sol /\ v.page = w.page
         /\ v.sup.running = w.sup.running /\ v.sup.look = b
         /\ v.sup.inFlight = w.sup.inFlight /\ v.sup.missed = w.sup.missed
         /\ v.sup.blocker = w.sup.blocker
<1> DEFINE s == [w.sup EXCEPT !.look = b]
           v == [w EXCEPT !.sup = s]
<1>1. w.sup \in Sups
  BY Parts
<1>2. /\ s \in Sups /\ s.running = w.sup.running /\ s.look = b
      /\ s.inFlight = w.sup.inFlight /\ s.missed = w.sup.missed /\ s.blocker = w.sup.blocker
  BY <1>1 DEF Sups
<1>3. [w EXCEPT !.sup.look = b] = v
  BY <1>1 DEF Worlds, Sups
<1> HIDE DEF s
<1>4. v \in Worlds /\ v.scan = w.scan /\ v.sol = w.sol /\ v.sup = s /\ v.page = w.page
  BY <1>2, SupSet
<1> HIDE DEF v
<1> QED BY <1>2, <1>3, <1>4

LEMMA MissedSet ==
  ASSUME NEW w \in Worlds, NEW b \in BOOLEAN
  PROVE  LET v == [w EXCEPT !.sup.missed = b] IN
         /\ v \in Worlds /\ v.scan = w.scan /\ v.sol = w.sol /\ v.page = w.page
         /\ v.sup.running = w.sup.running /\ v.sup.inFlight = w.sup.inFlight
         /\ v.sup.missed = b
<1> DEFINE s == [w.sup EXCEPT !.missed = b]
           v == [w EXCEPT !.sup = s]
<1>1. w.sup \in Sups
  BY Parts
<1>2. /\ s \in Sups /\ s.running = w.sup.running
      /\ s.inFlight = w.sup.inFlight /\ s.missed = b
  BY <1>1 DEF Sups
<1>3. [w EXCEPT !.sup.missed = b] = v
  BY <1>1 DEF Worlds, Sups
<1> HIDE DEF s
<1>4. v \in Worlds /\ v.scan = w.scan /\ v.sol = w.sol /\ v.sup = s /\ v.page = w.page
  BY <1>2, SupSet
<1> HIDE DEF v
<1> QED BY <1>2, <1>3, <1>4

\* What a look leaves: everything right again, the owner's wish and the
\* registrations as they were, and a scan that ran either as it was or taken down.
Looked(w, v) ==
  /\ Right(v) /\ SameWish(w, v)
  /\ v.sup.running = w.sup.running /\ v.scan.recent = w.scan.recent
  /\ Busy(w) => \/ v.scan = w.scan /\ v.sol = w.sol
                \/ v.scan.stage = "off"

\* A world whose scan and badge are another's.
LEMMA FitAgain ==
  ASSUME NEW w, Fit(w), NEW v \in Worlds, v.scan = w.scan, v.sol.state = w.sol.state,
         v.sol.naming = w.sol.naming, v.page.transport = w.page.transport,
         v.sup.inFlight => w.sup.inFlight, Sweeping(v) => Sweeping(w) \/ ~Busy(w)
  PROVE  Fit(v)
  BY DEF Fit, Shown, Made, Yielded, Busy

LEMMA LookKeeps ==
  ASSUME NEW w, Sound(w)
  PROVE  Looked(w, Look[w])
<1> DEFINE asked == Asked(w)
           v == Look[w]
<1>1. w \in Worlds /\ Fit(w) /\ Paced(w.scan) /\ Shown(w) /\ (w.sup.inFlight => w.sup.running)
  BY DEF Sound, Fit
<1>2. v = IF ~w.sup.running THEN [w EXCEPT !.sup.look = FALSE]
          ELSE IF ~MayResume(asked) THEN StandDown(asked)
          ELSE IF asked.sup.inFlight THEN [asked EXCEPT !.sup.missed = ~Busy(asked)]
          ELSE IF Busy(asked) \/ asked.sup.recent \/ ~MayRegister(asked)
          THEN [asked EXCEPT !.sup.look = TRUE]
          ELSE AttemptResume(asked)
  BY <1>1, LookIs
<1>3. /\ asked \in Worlds /\ SameWish(w, asked) /\ asked.scan.recent = w.scan.recent
      /\ asked.sup.running = w.sup.running /\ asked.sup.inFlight = w.sup.inFlight
      /\ \/ asked.scan = w.scan /\ asked.sol = w.sol
         \/ Fit(asked) /\ ~w.page.front /\ asked.scan.stage = "off" /\ asked.sol.state = "idle"
      /\ ~w.page.front /\ WhatItTakesToResume(w) => asked.sol.state = "idle"
  BY <1>1, AskedIs
<1> HIDE DEF asked
<1> SUFFICES Looked(w, v)
  OBVIOUS
<1> HIDE DEF v
<1>4. Fit(asked)
  BY <1>1, <1>3, WishIs, FitAgain DEF SameWish
<1>5. MayResume(asked) => asked.page.front /\ asked.scan = w.scan /\ asked.sol = w.sol
  BY <1>3 DEF MayResume, SameWish
<1>6. CASE ~w.sup.running
  <2>1. /\ v \in Worlds /\ v.scan = w.scan /\ v.sol = w.sol /\ v.page = w.page
        /\ v.sup.running = w.sup.running /\ v.sup.inFlight = w.sup.inFlight
    BY <1>1, <1>2, <1>6, LookSet
  <2>2. Fit(v)
    BY <1>1, <2>1, FitAgain DEF Sweeping
  <2>3. Right(v)
    BY <1>1, <1>6, <2>1, <2>2 DEF Right, Sound, Lawful, Seeking, CanRestoreTheWatch
  <2>4. SameWish(w, v)
    BY <2>1 DEF SameWish
  <2> QED BY <2>1, <2>3, <2>4 DEF Looked
<1>7. CASE w.sup.running /\ ~MayResume(asked)
  <2>1. v = StandDown(asked)
    BY <1>2, <1>7
  <2>2. /\ Sound(v) /\ SameWish(asked, v)
        /\ v.sup.running = asked.sup.running /\ ~v.sup.inFlight
        /\ v.scan.recent = asked.scan.recent
        /\ \/ v.scan = asked.scan /\ v.sol = asked.sol
           \/ v.scan.stage = "off" /\ v.sol.state = "idle"
    BY <1>4, <2>1, StandDownIs
  <2>3. ~MayResume(v) /\ SameWish(w, v)
    BY <1>3, <1>7, <2>2, WishIs DEF SameWish
  <2>4. ~v.page.front /\ CanRestoreTheWatch(v) => v.sol.state = "idle"
    BY <1>3, <2>2, <2>3, WishIs DEF SameWish, CanRestoreTheWatch
  <2>5. Right(v)
    BY <2>2, <2>3, <2>4 DEF Right, Lawful, Seeking
  <2>6. (v.scan = w.scan /\ v.sol = w.sol) \/ v.scan.stage = "off"
    BY <1>3, <2>2
  <2>7. v.sup.running = w.sup.running /\ v.scan.recent = w.scan.recent
    BY <1>3, <2>2
  <2> QED BY <2>3, <2>5, <2>6, <2>7 DEF Looked
<1>8. CASE w.sup.running /\ MayResume(asked) /\ asked.sup.inFlight
  <2>1. v = [asked EXCEPT !.sup.missed = ~Busy(asked)]
    BY <1>2, <1>8
  <2>2. /\ v \in Worlds /\ v.scan = asked.scan /\ v.sol = asked.sol /\ v.page = asked.page
        /\ v.sup.running = asked.sup.running /\ v.sup.inFlight = asked.sup.inFlight
        /\ v.sup.missed = ~Busy(asked)
    <3>1. (~Busy(asked)) \in BOOLEAN
      BY DEF Busy
    <3> QED BY <1>3, <2>1, <3>1, MissedSet
  <2>3. Fit(v)
    BY <1>4, <2>2, FitAgain DEF Sweeping
  <2>4. SameWish(asked, v) /\ SameWish(w, v)
    BY <1>3, <2>2 DEF SameWish
  <2>5. MayResume(v)
    BY <1>8, <2>4, WishIs
  <2>6. v.scan.stage = "off" => v.sup.missed
    BY <2>2, <2>3 DEF Fit, Shown, Busy
  <2>7. Seeking(v)
    BY <1>8, <2>2, <2>6 DEF Seeking, Alert
  <2>8. v.page.front
    BY <2>5 DEF MayResume
  <2>9. Right(v)
    BY <1>3, <1>8, <2>2, <2>3, <2>5, <2>7, <2>8 DEF Right, Sound, Lawful
  <2>10. v.scan = w.scan /\ v.sol = w.sol /\ v.sup.running = w.sup.running
    BY <1>3, <1>5, <1>8, <2>2
  <2> QED BY <2>4, <2>9, <2>10 DEF Looked
<1>9. CASE /\ w.sup.running /\ MayResume(asked) /\ ~asked.sup.inFlight
           /\ Busy(asked) \/ asked.sup.recent \/ ~MayRegister(asked)
  <2>1. v = [asked EXCEPT !.sup.look = TRUE]
    BY <1>2, <1>9
  <2>2. /\ v \in Worlds /\ v.scan = asked.scan /\ v.sol = asked.sol /\ v.page = asked.page
        /\ v.sup.running = asked.sup.running /\ v.sup.inFlight = asked.sup.inFlight
        /\ v.sup.look = TRUE
    BY <1>3, <2>1, LookSet
  <2>3. Fit(v)
    BY <1>4, <2>2, FitAgain DEF Sweeping
  <2>4. SameWish(w, v)
    BY <1>3, <2>2 DEF SameWish
  <2>5. v.page.front
    BY <1>5, <1>9, <2>2
  <2>6. Right(v)
    BY <1>9, <2>2, <2>3, <2>5 DEF Right, Sound, Lawful, Seeking, Alert
  <2>7. v.scan = w.scan /\ v.sol = w.sol /\ v.sup.running = w.sup.running
    BY <1>3, <1>5, <1>9, <2>2
  <2> QED BY <2>4, <2>6, <2>7 DEF Looked
<1>10. CASE /\ w.sup.running /\ MayResume(asked) /\ ~asked.sup.inFlight
            /\ ~(Busy(asked) \/ asked.sup.recent \/ ~MayRegister(asked))
  <2>1. v = AttemptResume(asked)
    BY <1>2, <1>10
  <2>2. /\ v \in Worlds /\ SameWish(asked, v) /\ v.sol.state = "connecting"
        /\ v.sol.naming = asked.sol.naming /\ v.scan.recent = asked.scan.recent
        /\ v.sup.running = asked.sup.running /\ v.sup.inFlight
        /\ Paced(v.scan) /\ v.scan.auto
        /\ v.scan.stage = IF asked.page.transport = "watch" THEN "listing" ELSE "asking"
    BY <1>3, <1>4, <2>1, AttemptResumeIs DEF Fit
  <2>3. MayResume(v) /\ ~Sweeping(v) /\ SameWish(w, v)
    BY <1>3, <1>10, <2>2, WishIs DEF MayResume, SameWish
  <2>4. asked.sol.state = "idle" /\ asked.sol.naming # "resume" /\ ~Busy(w)
    BY <1>4, <1>5, <1>10 DEF Busy, Fit, Shown, Made
  <2>5. Fit(v)
    BY <2>2, <2>3, <2>4 DEF Fit, Shown, Made, Yielded, Up, SameWish
  <2>6. v.page.front /\ v.sup.running
    BY <1>3, <1>10, <2>2, <2>3 DEF MayResume
  <2>7. v.scan.stage # "off"
    BY <2>2
  <2>8. Right(v)
    BY <2>2, <2>3, <2>5, <2>6, <2>7 DEF Right, Sound, Lawful, Seeking
  <2>9. v.sup.running = w.sup.running /\ v.scan.recent = w.scan.recent
    BY <1>3, <2>2
  <2> QED BY <2>3, <2>4, <2>8, <2>9 DEF Looked
<1> QED BY <1>6, <1>7, <1>8, <1>9, <1>10
-----------------------------------------------------------------------------
(* What the operators of the scan and of telemetry leave *)

\* A world that differs from a right one where none of it is asked about.
LEMMA RightAgain ==
  ASSUME NEW w, Right(w), NEW v \in Worlds, SameWish(w, v),
         Paced(v.scan), v.scan.stage = w.scan.stage, v.scan.auto = w.scan.auto,
         w.scan.stage = "key" => Len(v.scan.recent) <= Len(w.scan.recent),
         Shown(v), v.sol.naming \in {w.sol.naming, "none"},
         v.sup.running = w.sup.running, v.sup.inFlight = w.sup.inFlight,
         v.sup.blocker = w.sup.blocker, Alert(w) => Alert(v)
  PROVE  Right(v)
<1>1. Sound(w) /\ Fit(w) /\ Shown(w) /\ Lawful(w) /\ Seeking(w) /\ w \in Worlds
  BY DEF Right, Sound, Fit
<1>2. /\ WhatItTakesToResume(v) <=> WhatItTakesToResume(w)
      /\ MayResume(v) <=> MayResume(w)
      /\ Sweeping(v) <=> Sweeping(w)
  BY WishIs
<1>3. v.sol.state = "idle" <=> w.sol.state = "idle"
  BY <1>1 DEF Shown
<1>4. w.scan.stage = "key" /\ Wait(w.scan.recent) = 0 => Wait(v.scan.recent) = 0
  <2>1. /\ w.scan.recent \in Ages /\ v.scan.recent \in Ages
        /\ Len(w.scan.recent) \in Nat /\ Len(v.scan.recent) \in Nat
    BY <1>1, Parts, AgesAre DEF Scans
  <2> QED BY <2>1, WaitIs, Bounds
<1>5. Made(v)
  BY <1>1, <1>4 DEF Fit, Made, SameWish
<1>6. Yielded(v)
  BY <1>1, <1>2, <1>3 DEF Fit, Yielded, Busy
<1>7. Sound(v)
  BY <1>1, <1>5, <1>6 DEF Sound, Fit
<1>8. CanRestoreTheWatch(v) <=> CanRestoreTheWatch(w)
  BY <1>2 DEF CanRestoreTheWatch
<1>9. Lawful(v)
  BY <1>1, <1>2, <1>3, <1>8 DEF Lawful, SameWish
<1>10. Seeking(v)
  BY <1>1, <1>2 DEF Seeking
<1> QED BY <1>7, <1>9, <1>10 DEF Right

Waiting(w) == w.scan.stage \notin {"off", "up"}

\* The scan goes on to its next await.
LEMMA GoesOn ==
  ASSUME NEW w, Right(w), Waiting(w), NEW s \in Scans, Paced(s), s.auto = w.scan.auto,
         s.stage \notin {"off", "up"}, w.sol.state \in Up => s.stage = "arming",
         NEW v \in Worlds, v.scan = s, v.sol = w.sol, v.sup = w.sup, SameWish(w, v),
         w.page.transport = "watch" /\ s.auto =>
           s.stage # "asking" /\ (s.stage = "key" => Wait(s.recent) = 0)
  PROVE  Right(v)
<1>1. Sound(w) /\ Fit(w) /\ Shown(w) /\ Made(w) /\ Yielded(w) /\ Lawful(w) /\ Seeking(w)
  BY DEF Right, Sound, Fit
<1>2. /\ WhatItTakesToResume(v) <=> WhatItTakesToResume(w)
      /\ MayResume(v) <=> MayResume(w)
      /\ Sweeping(v) <=> Sweeping(w)
  BY WishIs
<1>3. Shown(v)
  BY <1>1 DEF Shown, Waiting
<1>4. Made(v)
  BY <1>1 DEF Made, Waiting, SameWish
<1>5. Yielded(v)
  BY <1>1, <1>2 DEF Yielded, Busy
<1>6. Sound(v)
  BY <1>1, <1>3, <1>4, <1>5 DEF Sound, Fit
<1>7. Lawful(v)
  BY <1>1, <1>2 DEF Lawful, CanRestoreTheWatch, SameWish
<1>8. Seeking(v)
  BY <1>1, <1>2 DEF Seeking, Waiting, Alert
<1> QED BY <1>6, <1>7, <1>8 DEF Right

Refusals == {"permission-gone", "browser-cannot-rejoin"}

LEMMA FailsKeeps ==
  ASSUME NEW w, Right(w), Waiting(w), NEW error \in Refusals \cup {"radio"}
  PROVE  LET v == Fails(w, error) IN Right(v) /\ v.scan.recent = w.scan.recent
<1> DEFINE down == StopSolarLink(w)
           over == [down EXCEPT !.sup.inFlight = FALSE]
           v == Fails(w, error)
<1>1. v = IF ~w.scan.auto THEN down
          ELSE IF error = "radio" THEN [over EXCEPT !.sup.look = w.sup.running]
          ELSE [over EXCEPT !.sup.blocker = error]
  BY DEF Fails
<1> SUFFICES Right(v) /\ v.scan.recent = w.scan.recent
  OBVIOUS
<1> HIDE DEF v
<1>2. w \in Worlds /\ Paced(w.scan) /\ Made(w) /\ Seeking(w) /\ w.sup \in Sups
  BY Parts DEF Right, Sound, Fit
<1>3. down \in Worlds /\ Downed(w, down) /\ down.sup = w.sup
  BY <1>2, StopIs
<1>4. /\ Fit(down) /\ down.scan.stage = "off" /\ ~Busy(down)
      /\ down.scan.recent = w.scan.recent /\ SameWish(w, down)
  BY <1>2, <1>3, DownedIsFit DEF Downed
<1> HIDE DEF down
<1>5. CASE ~w.scan.auto
  <2>1. ~w.sup.inFlight
    BY <1>2, <1>5 DEF Made, Waiting
  <2>2. MayResume(down) <=> MayResume(w)
    BY <1>4, WishIs
  <2>3. Seeking(down)
    BY <1>2, <1>3, <2>1, <2>2 DEF Seeking, Waiting, Alert
  <2>4. Right(down)
    BY <1>3, <1>4, <2>1, <2>3 DEF Right, Sound, Lawful, Busy
  <2> QED BY <1>1, <1>4, <1>5, <2>4
<1>6. CASE w.scan.auto /\ error = "radio"
  <2> DEFINE s == [w.sup EXCEPT !.inFlight = FALSE, !.look = w.sup.running]
             u == [down EXCEPT !.sup = s]
  <2>1. s \in Sups /\ s.running = w.sup.running /\ s.inFlight = FALSE /\ s.look = w.sup.running
    BY <1>2 DEF Sups
  <2>2. v = u
    <3>1. [over EXCEPT !.sup.look = w.sup.running] = u
      BY <1>2, <1>3 DEF Worlds, Sups
    <3> QED BY <1>1, <1>6, <3>1
  <2> HIDE DEF s
  <2>3. u \in Worlds /\ u.scan = down.scan /\ u.sol = down.sol /\ u.sup = s /\ u.page = down.page
    BY <1>3, <2>1, SupSet
  <2> HIDE DEF u
  <2>4. Fit(u)
    BY <1>4, <2>1, <2>3, FitAgain DEF Sweeping
  <2>5. Right(u)
    BY <1>4, <2>1, <2>3, <2>4 DEF Right, Sound, Lawful, Seeking, Alert, Busy
  <2> QED BY <1>4, <2>2, <2>3, <2>5
<1>7. CASE w.scan.auto /\ error # "radio"
  <2> DEFINE s == [w.sup EXCEPT !.inFlight = FALSE, !.blocker = error]
             u == [down EXCEPT !.sup = s]
  <2>1. s \in Sups /\ s.inFlight = FALSE /\ s.blocker # "none"
    BY <1>2, <1>7 DEF Sups, Refusals, Blockers
  <2>2. v = u
    <3>1. [over EXCEPT !.sup.blocker = error] = u
      BY <1>2, <1>3 DEF Worlds, Sups
    <3> QED BY <1>1, <1>7, <3>1
  <2> HIDE DEF s
  <2>3. u \in Worlds /\ u.scan = down.scan /\ u.sol = down.sol /\ u.sup = s /\ u.page = down.page
    BY <1>3, <2>1, SupSet
  <2> HIDE DEF u
  <2>4. Fit(u)
    BY <1>4, <2>1, <2>3, FitAgain DEF Sweeping
  <2>5. Right(u)
    BY <1>4, <2>1, <2>3, <2>4 DEF Right, Sound, Lawful, Seeking, Alert, Busy
  <2> QED BY <1>4, <2>2, <2>3, <2>5
<1> QED BY <1>5, <1>6, <1>7
\* claimRadioForSweep.
LEMMA ClaimRadioKeeps ==
  ASSUME NEW w, Right(w)
  PROVE  LET v == ClaimRadio(w) IN Right(v) /\ v.scan.recent = w.scan.recent
<1> DEFINE down == IF Busy(w) THEN StopSolarLink(w) ELSE w
           lent == w.sol.state \in Up
           so == [down.sol EXCEPT !.sweep = "reading", !.stoodDown = lent]
           u == [down EXCEPT !.sol = so]
<1>1. w \in Worlds /\ Fit(w) /\ Paced(w.scan) /\ (w.sup.inFlight => w.sup.running)
  BY DEF Right, Sound, Fit
<1>2. /\ StopSolarLink(w) \in Worlds /\ Fit(StopSolarLink(w))
      /\ StopSolarLink(w).sup = w.sup /\ ~Busy(StopSolarLink(w))
      /\ StopSolarLink(w).scan.recent = w.scan.recent
  BY <1>1, StopIs, DownedIsFit
<1>3. /\ down \in Worlds /\ Fit(down) /\ down.sup = w.sup /\ ~Busy(down)
      /\ down.scan.recent = w.scan.recent
  BY <1>1, <1>2
<1> HIDE DEF down
<1>4. down.sol \in Sols
  BY <1>3, Parts
<1>5. [down EXCEPT !.sol.sweep = "reading", !.sol.stoodDown = lent] = u
  BY <1>3, <1>4 DEF Worlds, Sols
<1>6. ClaimRadio(w) = Look[u]
  BY <1>5 DEF ClaimRadio, down
<1>7. lent \in BOOLEAN
  OBVIOUS
<1> HIDE DEF lent
<1>8. /\ so \in Sols /\ so.state = down.sol.state /\ so.naming = down.sol.naming
  BY <1>4, <1>7 DEF Sols
<1> HIDE DEF so
<1>9. /\ u \in Worlds /\ u.scan = down.scan /\ u.sol = so /\ u.sup = down.sup
      /\ u.page = down.page
  BY <1>3, <1>8, SolSet
<1> HIDE DEF u
<1>10. Fit(u)
  BY <1>3, <1>8, <1>9, FitAgain
<1>11. Sound(u)
  BY <1>1, <1>3, <1>9, <1>10 DEF Sound
<1>12. Looked(u, Look[u])
  BY <1>11, LookKeeps
<1> QED BY <1>3, <1>6, <1>9, <1>12 DEF Looked

\* noteSolarWatchTornDown, over a scan that was up.
LEMMA TornDownKeeps ==
  ASSUME NEW w, Right(w), w.scan.stage = "up"
  PROVE  LET v == TornDown([w EXCEPT !.scan = NoScan(@.recent)]) IN
         Right(v) /\ v.scan.recent = w.scan.recent
<1> DEFINE sc == NoScan(w.scan.recent)
           u == [w EXCEPT !.scan = sc]
           down == StopSolarLink(u)
<1>1. /\ w \in Worlds /\ Paced(w.scan) /\ w.sol.state \in Up
      /\ (w.sup.inFlight => w.sup.running)
      /\ w.scan.recent \in Ages /\ Ordered(w.scan.recent)
  BY Parts DEF Right, Sound, Fit, Shown, Scans, Paced
<1>2. sc \in Scans /\ Paced(sc) /\ sc.recent = w.scan.recent
  BY <1>1, NoScanIs
<1>3. [w EXCEPT !.scan = NoScan(@.recent)] = u
  BY <1>1 DEF Worlds
<1> HIDE DEF sc
<1>4. u \in Worlds /\ u.scan = sc /\ u.sol = w.sol /\ u.sup = w.sup
  BY <1>1, <1>2, ScanSet
<1> HIDE DEF u
<1>5. TornDown(u) = Look[down]
  BY <1>1, <1>4 DEF TornDown
<1>6. /\ down \in Worlds /\ Fit(down) /\ down.sup = u.sup
      /\ down.scan.recent = u.scan.recent
  BY <1>2, <1>4, StopIs, DownedIsFit
<1> HIDE DEF down
<1>7. Sound(down)
  BY <1>1, <1>4, <1>6 DEF Sound
<1>8. Looked(down, Look[down])
  BY <1>7, LookKeeps
<1> QED BY <1>2, <1>3, <1>4, <1>5, <1>6, <1>8 DEF Looked

\* startSolar and resumeSolar, once the scan is up.
LEMMA ComesUpKeeps ==
  ASSUME NEW w, Right(w), Waiting(w)
  PROVE  LET v == ComesUp(w) IN Right(v) /\ v.scan.recent = w.scan.recent
<1> DEFINE told == IF w.page.transport = "watch"
                   THEN Look[[w EXCEPT !.sol.remembered = TRUE]] ELSE w
<1>1. /\ w \in Worlds /\ Sound(w) /\ Fit(w) /\ Shown(w) /\ w.scan.stage # "off"
      /\ w.sol \in Sols
  BY Parts DEF Right, Sound, Fit, Waiting
<1>2. /\ Right(told) /\ told.scan.recent = w.scan.recent
      /\ told.scan.stage = "off" \/ told.scan = w.scan
  <2> DEFINE s == [w.sol EXCEPT !.remembered = TRUE]
             u == [w EXCEPT !.sol = s]
  <2>1. [w EXCEPT !.sol.remembered = TRUE] = u
    BY <1>1 DEF Worlds, Sols
  <2>2. s \in Sols /\ s.state = w.sol.state /\ s.naming = w.sol.naming /\ s.sweep = w.sol.sweep
    BY <1>1 DEF Sols
  <2> HIDE DEF s
  <2>3. u \in Worlds /\ u.scan = w.scan /\ u.sol = s /\ u.sup = w.sup /\ u.page = w.page
    BY <1>1, <2>2, SolSet
  <2> HIDE DEF u
  <2>4. Fit(u)
    BY <1>1, <2>2, <2>3, FitAgain DEF Sweeping
  <2>5. Sound(u) /\ Busy(u)
    BY <1>1, <2>2, <2>3, <2>4 DEF Sound, Shown, Busy
  <2>6. Looked(u, Look[u])
    BY <2>5, LookKeeps
  <2> QED BY <2>1, <2>3, <2>5, <2>6 DEF Looked
<1> HIDE DEF told
<1>3. /\ told \in Worlds /\ Sound(told) /\ Fit(told) /\ Shown(told) /\ Made(told)
      /\ Yielded(told) /\ Lawful(told) /\ Seeking(told) /\ Paced(told.scan)
      /\ told.scan \in Scans /\ told.sol \in Sols
  BY <1>2, Parts DEF Right, Sound, Fit
<1>4. CASE told.scan.stage = "off"
  <2>1. ComesUp(w) = told
    BY <1>4 DEF ComesUp, told
  <2> QED BY <1>2, <2>1
<1> DEFINE sc == [told.scan EXCEPT !.stage = "up", !.rearming = FALSE]
           state == IF told.sol.state = "connecting" THEN "listening" ELSE told.sol.state
           so == [told.sol EXCEPT !.state = state]
           half == [told EXCEPT !.scan = sc]
           listening == [half EXCEPT !.sol = so]
<1>5. CASE told.scan.stage # "off"
  <2>1. told.scan = w.scan /\ told.sol.state # "idle"
    BY <1>2, <1>3, <1>5 DEF Shown
  <2>2. state \in Up
    BY <1>3, <2>1 DEF Sols, Up
  <2>3. /\ sc \in Scans /\ Paced(sc) /\ sc.stage = "up" /\ sc.auto = w.scan.auto
        /\ sc.recent = w.scan.recent
    BY <1>3, <2>1 DEF Scans, Stages, Paced
  <2>4. listening = [told EXCEPT !.scan.stage = "up", !.scan.rearming = FALSE,
                       !.sol.state = IF @ = "connecting" THEN "listening" ELSE @]
    BY <1>3 DEF Worlds, Scans, Sols
  <2> HIDE DEF state
  <2>5. /\ so \in Sols /\ so.state = state /\ so.armed = told.sol.armed
        /\ so.remembered = told.sol.remembered /\ so.key = told.sol.key
        /\ so.sweep = told.sol.sweep /\ so.stoodDown = told.sol.stoodDown
    BY <1>3, <2>2 DEF Sols
  <2> HIDE DEF so, sc
  <2>6. half \in Worlds /\ half.scan = sc /\ half.sol = told.sol /\ half.sup = told.sup
        /\ half.page = told.page
    BY <1>3, <2>3, ScanSet
  <2> HIDE DEF half
  <2>7. listening \in Worlds /\ listening.scan = sc /\ listening.sol = so
        /\ listening.sup = told.sup /\ listening.page = told.page
    BY <2>5, <2>6, SolSet
  <2>8. CASE w.scan.auto
    <3> DEFINE considered == so.considered /\ so.stoodDown
               s == [so EXCEPT !.naming = "resume", !.considered = considered,
                               !.stoodDown = FALSE]
               v == [listening EXCEPT !.sol = s]
    <3>1. ComesUp(w) = v
      <4>1. [listening EXCEPT !.sol.naming = "resume",
                              !.sol.considered = @ /\ listening.sol.stoodDown,
                              !.sol.stoodDown = FALSE] = v
        BY <2>5, <2>7 DEF Worlds, Sols
      <4> QED BY <1>5, <2>4, <2>8, <4>1 DEF ComesUp, told
    <3> HIDE DEF listening
    <3>2. considered \in BOOLEAN
      OBVIOUS
    <3> HIDE DEF considered
    <3>3. /\ s \in Sols /\ s.state = state /\ s.naming = "resume" /\ s.armed = told.sol.armed
          /\ s.remembered = told.sol.remembered /\ s.key = told.sol.key
          /\ s.sweep = told.sol.sweep
      BY <2>5, <3>2 DEF Sols
    <3> HIDE DEF s
    <3>4. v \in Worlds /\ v.scan = sc /\ v.sol = s /\ v.sup = told.sup /\ v.page = told.page
      BY <2>7, <3>3, SolSet
    <3> HIDE DEF v
    <3>5. SameWish(told, v)
      BY <3>3, <3>4 DEF SameWish
    <3>6. Shown(v)
      BY <2>2, <2>3, <3>3, <3>4 DEF Shown, Up
    <3>7. Made(v)
      BY <2>3, <2>8, <3>4 DEF Made
    <3>8. Yielded(v)
      BY <1>3, <2>1, <2>3, <3>4, <3>5, WishIs DEF Yielded, Busy
    <3>9. Fit(v)
      BY <2>3, <3>4, <3>6, <3>7, <3>8 DEF Fit
    <3>10. Sound(v)
      BY <1>3, <3>4, <3>9 DEF Sound
    <3>11. Lawful(v)
      BY <1>3, <2>1, <3>4, <3>5, WishIs DEF Lawful, CanRestoreTheWatch, SameWish
    <3>12. Seeking(v)
      BY <2>3, <3>4 DEF Seeking
    <3> QED BY <2>3, <3>1, <3>4, <3>10, <3>11, <3>12 DEF Right
  <2>9. CASE ~w.scan.auto
    <3> DEFINE s == [so EXCEPT !.armed = TRUE, !.considered = FALSE,
                               !.stoodDown = FALSE, !.naming = "start"]
               u == [listening EXCEPT !.sol = s]
    <3>1. ComesUp(w) = Look[u]
      <4>1. [listening EXCEPT !.sol.armed = TRUE, !.sol.considered = FALSE,
                              !.sol.stoodDown = FALSE, !.sol.naming = "start"] = u
        BY <2>5, <2>7 DEF Worlds, Sols
      <4>2. told = IF w.page.transport = "watch"
                   THEN Look[[w EXCEPT !.sol.remembered = TRUE]] ELSE w
        BY DEF told
      <4> DEFINE heard == [told EXCEPT !.scan.stage = "up", !.scan.rearming = FALSE,
                             !.sol.state = IF @ = "connecting" THEN "listening" ELSE @]
                 begun == [heard EXCEPT !.sol.armed = TRUE, !.sol.considered = FALSE,
                                        !.sol.stoodDown = FALSE, !.sol.naming = "start"]
      <4>3. ComesUp(w) = Look[begun]
        BY <1>5, <2>9, <4>2 DEF ComesUp
      <4>4. heard = listening
        BY <2>4
      <4>5. begun = u
        BY <4>1, <4>4
      <4> QED BY <4>3, <4>5
    <3> HIDE DEF listening
    <3>2. s \in Sols /\ s.state = state /\ s.naming = "start" /\ s.sweep = told.sol.sweep
      BY <2>5 DEF Sols
    <3> HIDE DEF s
    <3>3. u \in Worlds /\ u.scan = sc /\ u.sol = s /\ u.sup = told.sup /\ u.page = told.page
      BY <2>7, <3>2, SolSet
    <3> HIDE DEF u
    <3>4. ~told.sup.inFlight
      BY <1>3, <1>5, <2>1, <2>9 DEF Made
    <3>5. Sound(u)
      BY <2>2, <2>3, <2>9, <3>2, <3>3, <3>4 DEF Sound, Fit, Shown, Made, Yielded, Up
    <3>6. Looked(u, Look[u])
      BY <3>5, LookKeeps
    <3> QED BY <2>3, <3>1, <3>3, <3>6 DEF Looked
  <2> QED BY <2>8, <2>9
<1> QED BY <1>4, <1>5
\* The ladder grows, under its ceiling, and the registration is the youngest.
LEMMA RegisterIs ==
  ASSUME NEW w \in Worlds, Paced(w.scan)
  PROVE  LET v == Register(w) IN
         /\ v \in Worlds /\ v.sol = w.sol /\ v.sup = w.sup /\ v.page = w.page
         /\ v.scan.stage = w.scan.stage /\ v.scan.auto = w.scan.auto /\ Paced(v.scan)
         /\ Len(v.scan.recent) = Len(w.scan.recent) + 1
<1> DEFINE recent == Append(w.scan.recent, 0)
           gap == Smaller(2 * w.scan.gap, RearmCeiling)
           s == [w.scan EXCEPT !.recent = recent, !.due = w.scan.gap, !.gap = gap,
                               !.rearming = TRUE]
           v == [w EXCEPT !.scan = s]
<1>1. /\ w.scan \in Scans /\ w.scan.recent \in Ages /\ Ordered(w.scan.recent)
      /\ w.scan.gap \in FirstRearm .. RearmCeiling
  BY Parts DEF Scans, Paced
<1>2. Register(w) = v
  BY <1>1 DEF Register, Worlds, Scans
<1>3. gap \in FirstRearm .. RearmCeiling /\ gap \in Nat
  BY <1>1, Bounds DEF Smaller
<1>4. /\ Len(w.scan.recent) \in Nat /\ DOMAIN w.scan.recent = 1 .. Len(w.scan.recent)
      /\ \A i \in 1 .. Len(w.scan.recent) : w.scan.recent[i] \in 0 .. Window - 1
  BY <1>1, AgesAre
<1>5. /\ recent \in Ages /\ Len(recent) = Len(w.scan.recent) + 1
      /\ \A i \in 1 .. Len(w.scan.recent) : recent[i] = w.scan.recent[i]
      /\ recent[Len(w.scan.recent) + 1] = 0
  <2>1. 0 \in 0 .. Window - 1
    BY Bounds
  <2> QED BY <1>1, <2>1, AppendProperties DEF Ages
<1> HIDE DEF gap, recent
<1>6. DOMAIN recent = 1 .. Len(w.scan.recent) + 1
  BY <1>5, AgesAre
<1>7. Ordered(recent)
  <2> SUFFICES ASSUME NEW i \in 1 .. Len(w.scan.recent) + 1,
                      NEW j \in 1 .. Len(w.scan.recent) + 1, i <= j
               PROVE  recent[j] <= recent[i]
    BY <1>6 DEF Ordered
  <2>1. CASE j = Len(w.scan.recent) + 1
    <3>1. recent[j] = 0
      BY <1>5, <2>1
    <3>2. recent[i] \in Nat
      <4>1. \A n \in 1 .. Len(recent) : recent[n] \in 0 .. Window - 1
        BY <1>5, AgesAre
      <4>2. \A n \in 0 .. Window - 1 : n \in Nat
        BY Bounds
      <4>3. i \in 1 .. Len(recent)
        BY <1>5
      <4> QED BY <4>1, <4>2, <4>3
    <3> QED BY <3>1, <3>2
  <2>2. CASE j # Len(w.scan.recent) + 1
    <3>1. i \in 1 .. Len(w.scan.recent) /\ j \in 1 .. Len(w.scan.recent)
      BY <1>4, <2>2
    <3>2. w.scan.recent[j] <= w.scan.recent[i]
      BY <1>1, <1>4, <3>1 DEF Ordered
    <3> QED BY <1>5, <3>1, <3>2
  <2> QED BY <2>1, <2>2
<1>8. /\ s \in Scans /\ s.stage = w.scan.stage /\ s.auto = w.scan.auto
      /\ s.recent = recent /\ s.gap = gap /\ s.due = w.scan.gap
  BY <1>1, <1>3, <1>5 DEF Scans
<1>9. Paced(s)
  BY <1>1, <1>3, <1>7, <1>8, Bounds DEF Paced
<1> HIDE DEF s
<1>10. v \in Worlds /\ v.scan = s /\ v.sol = w.sol /\ v.sup = w.sup /\ v.page = w.page
  BY <1>8, ScanSet
<1> HIDE DEF v
<1> QED BY <1>2, <1>5, <1>8, <1>9, <1>10

LEMMA RestartLadderIs ==
  ASSUME NEW w \in Worlds, Paced(w.scan)
  PROVE  LET v == RestartLadder(w) IN
         /\ v \in Worlds /\ v.sol = w.sol /\ v.sup = w.sup /\ v.page = w.page
         /\ v.scan.stage = w.scan.stage /\ v.scan.auto = w.scan.auto /\ Paced(v.scan)
         /\ v.scan.recent = w.scan.recent
<1> DEFINE s == [w.scan EXCEPT !.gap = FirstRearm, !.due = FirstRearm]
           v == [w EXCEPT !.scan = s]
<1>1. w.scan \in Scans /\ Ordered(w.scan.recent)
  BY Parts DEF Paced
<1>2. RestartLadder(w) = v
  BY <1>1 DEF RestartLadder, Worlds, Scans
<1>3. /\ s \in Scans /\ s.stage = w.scan.stage /\ s.auto = w.scan.auto
      /\ s.recent = w.scan.recent /\ s.gap = FirstRearm /\ s.due = FirstRearm
  BY <1>1, Bounds DEF Scans
<1>4. Paced(s)
  BY <1>1, <1>3, Bounds DEF Paced
<1> HIDE DEF s
<1>5. v \in Worlds /\ v.scan = s /\ v.sol = w.sol /\ v.sup = w.sup /\ v.page = w.page
  BY <1>3, ScanSet
<1> HIDE DEF v
<1> QED BY <1>2, <1>3, <1>4, <1>5

\* A scan replaced by one that differs only in its ladder and its registrations.
LEMMA ScanAgain ==
  ASSUME NEW w, Right(w), NEW s \in Scans, Paced(s), s.stage = w.scan.stage,
         s.auto = w.scan.auto, w.scan.stage = "key" => Len(s.recent) <= Len(w.scan.recent)
  PROVE  LET v == [w EXCEPT !.scan = s] IN Right(v) /\ v.scan = s
<1> DEFINE v == [w EXCEPT !.scan = s]
<1>1. w \in Worlds /\ Shown(w)
  BY DEF Right, Sound, Fit
<1>2. v \in Worlds /\ v.scan = s /\ v.sol = w.sol /\ v.sup = w.sup /\ v.page = w.page
  BY <1>1, ScanSet
<1> HIDE DEF v
<1>3. Shown(v) /\ SameWish(w, v)
  BY <1>1, <1>2 DEF Shown, SameWish
<1>4. Right(v)
  BY <1>2, <1>3, RightAgain DEF Alert
<1> QED BY <1>2, <1>4 DEF v

\* The same of the record telemetry keeps.
LEMMA SolAgain ==
  ASSUME NEW w, Right(w), NEW s \in Sols, s.state = "idle" <=> w.sol.state = "idle",
         s.state \in Up => w.scan.stage \in {"arming", "up"},
         w.scan.stage = "up" => s.state \in Up, s.naming \in {w.sol.naming, "none"},
         s.armed = w.sol.armed, s.remembered = w.sol.remembered, s.key = w.sol.key,
         s.sweep = w.sol.sweep
  PROVE  LET v == [w EXCEPT !.sol = s] IN Right(v) /\ v.scan = w.scan
<1> DEFINE v == [w EXCEPT !.sol = s]
<1>1. w \in Worlds /\ Shown(w) /\ Paced(w.scan)
  BY DEF Right, Sound, Fit
<1>2. v \in Worlds /\ v.scan = w.scan /\ v.sol = s /\ v.sup = w.sup /\ v.page = w.page
  BY <1>1, SolSet
<1> HIDE DEF v
<1>3. Shown(v) /\ SameWish(w, v)
  BY <1>1, <1>2 DEF Shown, SameWish
<1>4. Len(w.scan.recent) <= Len(w.scan.recent)
  BY <1>1, Parts, AgesAre DEF Scans
<1>5. Right(v)
  BY <1>1, <1>2, <1>3, <1>4, RightAgain DEF Alert
<1> QED BY <1>2, <1>5 DEF v
LEMMA ConsiderSweepKeeps ==
  ASSUME NEW w, Right(w)
  PROVE  LET v == ConsiderSweep(w) IN Right(v) /\ v.scan = w.scan
<1> DEFINE asked == w.sol.remembered /\ CanRestoreTheWatch(w)
           s == [w.sol EXCEPT !.considered = TRUE, !.asked = asked]
           v == [w EXCEPT !.sol = s]
<1>1. w \in Worlds /\ w.sol \in Sols /\ Shown(w)
  BY Parts DEF Right, Sound, Fit
<1>2. ConsiderSweep(w) = w \/ ConsiderSweep(w) = v
  <2>1. [w EXCEPT !.sol.considered = TRUE, !.sol.asked = asked] = v
    BY <1>1 DEF Worlds, Sols
  <2> QED BY <2>1 DEF ConsiderSweep
<1>3. asked \in BOOLEAN
  OBVIOUS
<1> HIDE DEF asked
<1>4. /\ s \in Sols /\ s.state = w.sol.state /\ s.naming = w.sol.naming
      /\ s.armed = w.sol.armed /\ s.remembered = w.sol.remembered
      /\ s.key = w.sol.key /\ s.sweep = w.sol.sweep
  BY <1>1, <1>3 DEF Sols
<1> HIDE DEF s
<1>5. Right(v) /\ v.scan = w.scan
  BY <1>1, <1>4, SolAgain DEF Shown
<1> QED BY <1>2, <1>5

\* A change of what telemetry keeps that a look then takes account of.
LEMMA SolSound ==
  ASSUME NEW w, Sound(w), NEW s \in Sols, s.state = w.sol.state, s.naming = w.sol.naming,
         s.sweep \in {w.sol.sweep, "none"}
  PROVE  LET v == [w EXCEPT !.sol = s] IN
         Sound(v) /\ v.scan = w.scan /\ v.sol = s /\ v.sup = w.sup /\ v.page = w.page
<1> DEFINE v == [w EXCEPT !.sol = s]
<1>1. w \in Worlds /\ Fit(w)
  BY DEF Sound, Fit
<1>2. v \in Worlds /\ v.scan = w.scan /\ v.sol = s /\ v.sup = w.sup /\ v.page = w.page
  BY <1>1, SolSet
<1> HIDE DEF v
<1>3. Fit(v)
  BY <1>1, <1>2, FitAgain DEF Sweeping
<1> QED BY <1>2, <1>3 DEF Sound, v

\* A look over a press that is connecting and has no scan yet: the supervisor
\* leaves it be.
LEMMA LookBesidesPress ==
  ASSUME NEW w \in Worlds, Paced(w.scan), ~w.sup.inFlight, w.page.front,
         w.sol.state = "connecting"
  PROVE  LET v == Look[w] IN
         /\ v \in Worlds /\ v.scan = w.scan /\ v.sol = w.sol /\ SameWish(w, v)
         /\ v.sup.running = w.sup.running /\ ~v.sup.inFlight
         /\ v.sup.running /\ MayResume(v) => v.sup.look
<1> DEFINE asked == Asked(w)
           v == Look[w]
<1>1. v = IF ~w.sup.running THEN [w EXCEPT !.sup.look = FALSE]
          ELSE IF ~MayResume(asked) THEN StandDown(asked)
          ELSE IF asked.sup.inFlight THEN [asked EXCEPT !.sup.missed = ~Busy(asked)]
          ELSE IF Busy(asked) \/ asked.sup.recent \/ ~MayRegister(asked)
          THEN [asked EXCEPT !.sup.look = TRUE]
          ELSE AttemptResume(asked)
  BY LookIs
<1>2. /\ asked \in Worlds /\ SameWish(w, asked) /\ asked.scan = w.scan /\ asked.sol = w.sol
      /\ asked.sup.running = w.sup.running /\ ~asked.sup.inFlight
  BY AskedIs
<1> HIDE DEF asked
<1> SUFFICES /\ v \in Worlds /\ v.scan = w.scan /\ v.sol = w.sol /\ SameWish(w, v)
             /\ v.sup.running = w.sup.running /\ ~v.sup.inFlight
             /\ v.sup.running /\ MayResume(v) => v.sup.look
  OBVIOUS
<1> HIDE DEF v
<1>3. CASE ~w.sup.running
  <2>1. v = [w EXCEPT !.sup.look = FALSE]
    BY <1>1, <1>3
  <2>2. /\ v \in Worlds /\ v.scan = w.scan /\ v.sol = w.sol /\ v.page = w.page
        /\ v.sup.running = w.sup.running /\ v.sup.inFlight = w.sup.inFlight
    BY <2>1, LookSet
  <2> QED BY <1>3, <2>2 DEF SameWish
<1>4. CASE w.sup.running /\ ~MayResume(asked)
  <2>1. v = [asked EXCEPT !.sup.look = FALSE, !.sup.inFlight = FALSE]
    BY <1>1, <1>2, <1>4 DEF StandDown
  <2>2. /\ v \in Worlds /\ v.scan = asked.scan /\ v.sol = asked.sol /\ v.page = asked.page
        /\ v.sup.running = asked.sup.running /\ v.sup.inFlight = FALSE
    BY <1>2, <2>1, QuietIs
  <2>3. SameWish(asked, v) /\ SameWish(w, v)
    BY <1>2, <2>2 DEF SameWish
  <2>4. ~MayResume(v)
    BY <1>4, <2>3, WishIs
  <2> QED BY <1>2, <2>2, <2>3, <2>4
<1>5. CASE w.sup.running /\ MayResume(asked)
  <2>1. v = [asked EXCEPT !.sup.look = TRUE]
    BY <1>1, <1>2, <1>5 DEF Busy
  <2>2. /\ v \in Worlds /\ v.scan = asked.scan /\ v.sol = asked.sol /\ v.page = asked.page
        /\ v.sup.running = asked.sup.running /\ v.sup.look = TRUE
        /\ v.sup.inFlight = asked.sup.inFlight
    BY <1>2, <2>1, LookSet
  <2>3. SameWish(w, v)
    BY <1>2, <2>2 DEF SameWish
  <2> QED BY <1>2, <2>2, <2>3
<1> QED BY <1>3, <1>4, <1>5

-----------------------------------------------------------------------------
(* The steps *)

\* What every step leaves, before the world settles.
Follows(v) ==
  /\ Right(v)
  /\ Len(v.scan.recent) > Len(scan.recent) /\ Unasked => Len(v.scan.recent) <= Budget

LEMMA Here ==
  ASSUME Right(World)
  PROVE  /\ World.scan = scan /\ World.sol = sol /\ World.sup = sup /\ World.page = page
         /\ World \in Worlds /\ Sound(World) /\ Fit(World) /\ Paced(World.scan)
         /\ Shown(World) /\ Made(World) /\ Yielded(World) /\ Lawful(World) /\ Seeking(World)
         /\ scan \in Scans /\ sol \in Sols /\ sup \in Sups /\ page \in Pages
         /\ scan.recent \in Ages /\ Len(scan.recent) \in Nat
<1>1. World.scan = scan /\ World.sol = sol /\ World.sup = sup /\ World.page = page
  BY DEF World
<1>2. /\ World \in Worlds /\ Sound(World) /\ Fit(World) /\ Paced(World.scan)
      /\ Shown(World) /\ Made(World) /\ Yielded(World) /\ Lawful(World) /\ Seeking(World)
  BY DEF Right, Sound, Fit
<1>3. scan \in Scans /\ sol \in Sols /\ sup \in Sups /\ page \in Pages
  BY <1>1, <1>2, Parts
<1> QED BY <1>1, <1>2, <1>3, AgesAre DEF Scans

\* A step that registers nothing.
LEMMA Unregistered ==
  ASSUME Right(World), NEW v, Right(v), v.scan.recent = scan.recent
  PROVE  Follows(v)
  BY Here DEF Follows

LEMMA PressConnectSolarSteps ==
  ASSUME Right(World), PressConnectSolar
  PROVE  \E v : Become(v) /\ Follows(v)
<1> DEFINE stood == StandDown(World)
           cleared == StopSolarLink(stood)
           so == [cleared.sol EXCEPT !.state = "connecting", !.key = TRUE]
           u == [cleared EXCEPT !.sol = so]
           shown == Look[u]
           none == NoScan(shown.scan.recent)
           sc == [none EXCEPT !.stage = "asking"]
           v == [shown EXCEPT !.scan = sc]
<1>1. World.scan = scan /\ World.page = page /\ Fit(World) /\ page.front
  BY Here DEF PressConnectSolar, Pressed
<1>2. /\ stood \in Worlds /\ Paced(stood.scan) /\ stood.scan.recent = scan.recent
      /\ ~stood.sup.inFlight /\ stood.page.front
  BY <1>1, StandDownIs DEF Sound, Fit, SameWish
<1> HIDE DEF stood
<1>3. /\ cleared \in Worlds /\ Paced(cleared.scan) /\ cleared.scan.recent = scan.recent
      /\ ~cleared.sup.inFlight /\ cleared.page.front /\ cleared.sol.naming = "none"
      /\ cleared.sol \in Sols
  BY <1>2, StopIs, DownedIsFit, Parts DEF Fit, Downed, SameWish
<1>4. Become(v)
  <2>1. [cleared EXCEPT !.sol.state = "connecting", !.sol.key = TRUE] = u
    BY <1>3 DEF Worlds, Sols
  <2>2. Become([shown EXCEPT !.scan = [NoScan(@.recent) EXCEPT !.stage = "asking"]])
    BY <2>1 DEF PressConnectSolar, stood
  <2>3. [shown EXCEPT !.scan = [NoScan(@.recent) EXCEPT !.stage = "asking"]] = v
    OBVIOUS
  <2> QED BY <2>2, <2>3
<1> HIDE DEF cleared
<1>5. so \in Sols /\ so.state = "connecting" /\ so.naming = "none"
  BY <1>3 DEF Sols
<1> HIDE DEF so
<1>6. u \in Worlds /\ u.scan = cleared.scan /\ u.sol = so /\ u.sup = cleared.sup
      /\ u.page = cleared.page
  BY <1>3, <1>5, SolSet
<1> HIDE DEF u
<1>7. /\ shown \in Worlds /\ shown.scan = u.scan /\ shown.sol = so /\ SameWish(u, shown)
      /\ ~shown.sup.inFlight /\ (shown.sup.running /\ MayResume(shown) => shown.sup.look)
  BY <1>3, <1>5, <1>6, LookBesidesPress
<1> HIDE DEF shown
<1>8. none \in Scans /\ Paced(none) /\ ~none.auto /\ none.recent = scan.recent
  <2>1. scan.recent \in Ages /\ Ordered(scan.recent)
    BY <1>3, Parts DEF Scans, Paced
  <2> QED BY <1>3, <1>6, <1>7, <2>1, NoScanIs
<1> HIDE DEF none
<1>9. sc \in Scans /\ Paced(sc) /\ ~sc.auto /\ sc.stage = "asking" /\ sc.recent = scan.recent
  BY <1>8 DEF Scans, Stages, Paced
<1> HIDE DEF sc
<1>10. v \in Worlds /\ v.scan = sc /\ v.sol = so /\ v.sup = shown.sup /\ v.page = shown.page
  BY <1>7, <1>9, ScanSet
<1> HIDE DEF v
<1>11. v.page.front /\ SameWish(shown, v)
  BY <1>3, <1>6, <1>7, <1>10 DEF SameWish
<1>12. Fit(v)
  <2>1. Shown(v)
    BY <1>5, <1>9, <1>10 DEF Shown, Up
  <2>2. Made(v)
    BY <1>5, <1>7, <1>9, <1>10 DEF Made
  <2>3. Yielded(v)
    BY <1>9, <1>10 DEF Yielded
  <2> QED BY <1>9, <1>10, <2>1, <2>2, <2>3 DEF Fit
<1>13. Seeking(v)
  BY <1>7, <1>9, <1>10, <1>11, WishIs DEF Seeking, Alert
<1>14. Right(v)
  BY <1>7, <1>10, <1>11, <1>12, <1>13 DEF Right, Sound, Lawful
<1>15. Follows(v)
  BY <1>9, <1>10, <1>14, Unregistered
<1> QED BY <1>4, <1>15

LEMMA PressStopSolarSteps ==
  ASSUME Right(World), PressStopSolar
  PROVE  \E v : Become(v) /\ Follows(v)
<1> DEFINE s == [sol EXCEPT !.remembered = FALSE]
           u == [World EXCEPT !.sol = s]
           down == StopSolarLink(u)
           v == Look[down]
<1>1. /\ World.scan = scan /\ World.sol = sol /\ World.sup = sup
      /\ World \in Worlds /\ Sound(World) /\ sol \in Sols
      /\ (World.sup.inFlight => World.sup.running)
  BY Here DEF Sound
<1>2. Become(v)
  <2>1. [World EXCEPT !.sol.remembered = FALSE] = u
    BY <1>1 DEF Worlds, Sols
  <2> QED BY <2>1 DEF PressStopSolar
<1>3. s \in Sols /\ s.state = sol.state /\ s.naming = sol.naming /\ s.sweep = sol.sweep
  BY <1>1 DEF Sols
<1> HIDE DEF s
<1>4. Sound(u) /\ u.scan = scan /\ u.sup = sup
  BY <1>1, <1>3, SolSound
<1> HIDE DEF u
<1>5. Sound(down) /\ down.scan.recent = scan.recent
  <2>1. u \in Worlds /\ Paced(u.scan)
    BY <1>4 DEF Sound, Fit
  <2>2. /\ down \in Worlds /\ Fit(down) /\ down.sup = u.sup
        /\ down.scan.recent = u.scan.recent
    BY <2>1, StopIs, DownedIsFit
  <2> QED BY <1>1, <1>4, <2>2 DEF Sound
<1> HIDE DEF down
<1>6. Looked(down, v)
  BY <1>5, LookKeeps
<1> HIDE DEF v
<1>7. Follows(v)
  BY <1>5, <1>6, Unregistered DEF Looked
<1> QED BY <1>2, <1>7

LEMMA PressDisconnectSteps ==
  ASSUME Right(World), PressDisconnect
  PROVE  \E v : Become(v) /\ Follows(v)
<1> DEFINE s == [sol EXCEPT !.armed = FALSE]
           u == [World EXCEPT !.sol = s]
           disarmed == Look[u]
           down == StopSolarLink(disarmed)
           v == IF disarmed.sol.state = "connecting" THEN down ELSE disarmed
<1>1. World.scan = scan /\ World.sol = sol /\ World \in Worlds /\ Sound(World) /\ sol \in Sols
  BY Here
<1>2. Become(v)
  <2>1. [World EXCEPT !.sol.armed = FALSE] = u
    BY <1>1 DEF Worlds, Sols
  <2> QED BY <2>1 DEF PressDisconnect
<1>3. /\ s \in Sols /\ s.state = sol.state /\ s.naming = sol.naming /\ s.sweep = sol.sweep
      /\ s.armed = FALSE
  BY <1>1 DEF Sols
<1> HIDE DEF s
<1>4. Sound(u) /\ u.scan = scan /\ u.sol = s
  BY <1>1, <1>3, SolSound
<1> HIDE DEF u
<1>5. Right(disarmed) /\ disarmed.scan.recent = scan.recent /\ ~disarmed.sol.armed
  BY <1>3, <1>4, LookKeeps DEF Looked, SameWish
<1> HIDE DEF disarmed
<1>6. /\ disarmed \in Worlds /\ Paced(disarmed.scan) /\ ~MayResume(disarmed)
      /\ ~disarmed.sup.inFlight
  BY <1>5 DEF Right, Sound, Fit, Lawful, MayResume, WhatItTakesToResume
<1>7. /\ down \in Worlds /\ Downed(disarmed, down) /\ down.sup = disarmed.sup
      /\ Fit(down) /\ down.scan.recent = scan.recent /\ ~Busy(down)
  BY <1>5, <1>6, StopIs, DownedIsFit
<1> HIDE DEF down
<1>8. ~MayResume(down)
  BY <1>6, <1>7, WishIs DEF Downed
<1>9. Right(down)
  BY <1>6, <1>7, <1>8 DEF Right, Sound, Lawful, Seeking, Busy
<1>10. Follows(v)
  BY <1>5, <1>7, <1>9, Unregistered
<1> QED BY <1>2, <1>10

LEMMA PressRejoinSteps ==
  ASSUME Right(World), PressRejoin
  PROVE  \E v : Become(v) /\ Follows(v)
<1> DEFINE s == [sol EXCEPT !.armed = TRUE]
           u == [World EXCEPT !.sol = s]
           v == Look[u]
<1>1. World.scan = scan /\ World.sol = sol /\ World \in Worlds /\ Sound(World) /\ sol \in Sols
  BY Here
<1>2. Become(v)
  <2>1. [World EXCEPT !.sol.armed = TRUE] = u
    BY <1>1 DEF Worlds, Sols
  <2> QED BY <2>1 DEF PressRejoin
<1>3. s \in Sols /\ s.state = sol.state /\ s.naming = sol.naming /\ s.sweep = sol.sweep
  BY <1>1 DEF Sols
<1> HIDE DEF s
<1>4. Sound(u) /\ u.scan = scan
  BY <1>1, <1>3, SolSound
<1> HIDE DEF u
<1>5. Looked(u, v)
  BY <1>4, LookKeeps
<1> HIDE DEF v
<1>6. Follows(v)
  BY <1>4, <1>5, Unregistered DEF Looked
<1> QED BY <1>2, <1>6

LEMMA PressReadHistorySteps ==
  ASSUME Right(World), PressReadHistory
  PROVE  \E v : Become(v) /\ Follows(v)
<1> DEFINE u == ClaimRadio(World)
           s == [u.sol EXCEPT !.refused = FALSE]
           v == [u EXCEPT !.sol = s]
<1>1. Right(u) /\ u.scan.recent = scan.recent
  BY ClaimRadioKeeps, Here
<1>2. Become([u EXCEPT !.sol.refused = FALSE])
  BY DEF PressReadHistory
<1> HIDE DEF u
<1>3. u \in Worlds /\ u.sol \in Sols /\ Shown(u)
  BY <1>1, Parts DEF Right, Sound, Fit
<1>4. [u EXCEPT !.sol.refused = FALSE] = v
  BY <1>3 DEF Worlds, Sols
<1>5. /\ s \in Sols /\ s.state = u.sol.state /\ s.naming = u.sol.naming
      /\ s.armed = u.sol.armed /\ s.remembered = u.sol.remembered
      /\ s.key = u.sol.key /\ s.sweep = u.sol.sweep
  BY <1>3 DEF Sols
<1> HIDE DEF s
<1>6. Right(v) /\ v.scan = u.scan
  BY <1>1, <1>3, <1>5, SolAgain DEF Shown
<1> HIDE DEF v
<1>7. Follows(v)
  BY <1>1, <1>6, Unregistered
<1> QED BY <1>2, <1>4, <1>7

LEMMA GrantedSteps ==
  ASSUME Right(World), Granted
  PROVE  \E v : Become(v) /\ Follows(v)
<1> DEFINE sc == [scan EXCEPT !.stage = "key"]
           permitted == page.permitted \/ page.transport = "watch"
           pg == [page EXCEPT !.permitted = permitted]
           u == [World EXCEPT !.scan = sc]
           v == [u EXCEPT !.page = pg]
<1>1. /\ World.scan = scan /\ World.sol = sol /\ World.sup = sup /\ World.page = page
      /\ World \in Worlds /\ scan \in Scans /\ sol \in Sols /\ page \in Pages
      /\ Paced(World.scan) /\ Shown(World) /\ Made(World) /\ scan.stage = "asking"
  BY Here DEF Granted
<1>2. Become(v)
  <2>1. [World EXCEPT !.scan.stage = "key",
                      !.page.permitted = @ \/ page.transport = "watch"] = v
    BY <1>1 DEF Worlds, Scans, Pages
  <2> QED BY <2>1 DEF Granted
<1>3. sc \in Scans /\ Paced(sc) /\ sc.stage = "key" /\ sc.auto = scan.auto
      /\ sc.recent = scan.recent
  BY <1>1 DEF Scans, Stages, Paced
<1>4. permitted \in BOOLEAN
  OBVIOUS
<1> HIDE DEF sc, permitted
<1>5. /\ pg \in Pages /\ pg.front = page.front /\ pg.adapterOn = page.adapterOn
      /\ pg.transport = page.transport
  BY <1>1, <1>4 DEF Pages
<1> HIDE DEF pg
<1>6. u \in Worlds /\ u.scan = sc /\ u.sol = sol /\ u.sup = sup /\ u.page = page
  BY <1>1, <1>3, ScanSet
<1> HIDE DEF u
<1>7. v \in Worlds /\ v.scan = sc /\ v.sol = sol /\ v.sup = sup /\ v.page = pg
  BY <1>5, <1>6, PageSet
<1> HIDE DEF v
<1>8. SameWish(World, v)
  BY <1>1, <1>5, <1>7 DEF SameWish
<1>9. sol.state \notin Up /\ ~(page.transport = "watch" /\ scan.auto)
  BY <1>1 DEF Shown, Made
<1>10. Right(v)
  BY <1>1, <1>3, <1>7, <1>8, <1>9, GoesOn DEF Waiting
<1>11. Follows(v)
  BY <1>3, <1>7, <1>10, Unregistered
<1> QED BY <1>2, <1>11

\* An attempt that rejects where it stands.
LEMMA FailsSteps ==
  ASSUME Right(World), Waiting(World), NEW error \in Refusals \cup {"radio"}
  PROVE  Follows(Fails(World, error))
<1>1. Right(Fails(World, error)) /\ Fails(World, error).scan.recent = scan.recent
  BY FailsKeeps, Here
<1> QED BY <1>1, Unregistered

LEMMA NotGrantedSteps ==
  ASSUME Right(World), NotGranted
  PROVE  \E v : Become(v) /\ Follows(v)
<1>1. Become(Fails(World, "radio")) /\ Waiting(World)
  BY Here DEF NotGranted, Waiting
<1> QED BY <1>1, FailsSteps

LEMMA ListingEndsSteps ==
  ASSUME Right(World), ListingEnds
  PROVE  \E v : Become(v) /\ Follows(v)
<1> DEFINE sc == [scan EXCEPT !.stage = "budget"]
           v == [World EXCEPT !.scan = sc]
<1>1. /\ World.scan = scan /\ World.sol = sol /\ World.sup = sup /\ World.page = page
      /\ World \in Worlds /\ scan \in Scans /\ Paced(World.scan) /\ Shown(World)
      /\ scan.stage = "listing"
  BY Here DEF ListingEnds
<1>2. Waiting(World)
  BY <1>1 DEF Waiting
<1>3. CASE ~page.permitted
  <2>1. Become(Fails(World, "permission-gone")) /\ "permission-gone" \in Refusals
    BY <1>3 DEF ListingEnds, Refusals
  <2> QED BY <1>2, <2>1, FailsSteps
<1>4. CASE page.permitted
  <2>1. Become(v)
    <3>1. [World EXCEPT !.scan.stage = "budget"] = v
      BY <1>1 DEF Worlds, Scans
    <3> QED BY <1>4, <3>1 DEF ListingEnds
  <2>2. sc \in Scans /\ Paced(sc) /\ sc.stage = "budget" /\ sc.auto = scan.auto
        /\ sc.recent = scan.recent
    BY <1>1 DEF Scans, Stages, Paced
  <2> HIDE DEF sc
  <2>3. v \in Worlds /\ v.scan = sc /\ v.sol = sol /\ v.sup = sup /\ v.page = page
    BY <1>1, <2>2, ScanSet
  <2> HIDE DEF v
  <2>4. SameWish(World, v) /\ sol.state \notin Up
    BY <1>1, <2>3 DEF SameWish, Shown
  <2>5. Right(v)
    BY <1>1, <1>2, <2>2, <2>3, <2>4, GoesOn
  <2>6. Follows(v)
    BY <2>2, <2>3, <2>5, Unregistered
  <2> QED BY <2>1, <2>6
<1> QED BY <1>3, <1>4

LEMMA ListingRefusedSteps ==
  ASSUME Right(World), ListingRefused
  PROVE  \E v : Become(v) /\ Follows(v)
<1>1. /\ Become(Fails(World, "browser-cannot-rejoin")) /\ Waiting(World)
      /\ "browser-cannot-rejoin" \in Refusals
  BY Here DEF ListingRefused, Waiting, Refusals
<1> QED BY <1>1, FailsSteps

LEMMA RegistrationFreeSteps ==
  ASSUME Right(World), RegistrationFree
  PROVE  \E v : Become(v) /\ Follows(v)
<1> DEFINE sc == [scan EXCEPT !.stage = "key"]
           v == [World EXCEPT !.scan = sc]
<1>1. /\ World.scan = scan /\ World.sol = sol /\ World.sup = sup /\ World.page = page
      /\ World \in Worlds /\ scan \in Scans /\ Paced(World.scan) /\ Shown(World)
      /\ scan.stage = "budget" /\ Wait(scan.recent) = 0
  BY Here DEF RegistrationFree
<1>2. Become(v)
  <2>1. [World EXCEPT !.scan.stage = "key"] = v
    BY <1>1 DEF Worlds, Scans
  <2> QED BY <2>1 DEF RegistrationFree
<1>3. sc \in Scans /\ Paced(sc) /\ sc.stage = "key" /\ sc.auto = scan.auto
      /\ sc.recent = scan.recent
  BY <1>1 DEF Scans, Stages, Paced
<1> HIDE DEF sc
<1>4. v \in Worlds /\ v.scan = sc /\ v.sol = sol /\ v.sup = sup /\ v.page = page
  BY <1>1, <1>3, ScanSet
<1> HIDE DEF v
<1>5. SameWish(World, v) /\ sol.state \notin Up /\ Waiting(World)
  BY <1>1, <1>4 DEF SameWish, Shown, Waiting
<1>6. Right(v)
  BY <1>1, <1>3, <1>4, <1>5, GoesOn
<1>7. Follows(v)
  BY <1>3, <1>4, <1>6, Unregistered
<1> QED BY <1>2, <1>7

\* A watch that registers was asked for by a press, or found the budget with room.
LEMMA KeyImportedSteps ==
  ASSUME Right(World), KeyImported
  PROVE  \E v : Become(v) /\ Follows(v)
<1>1. /\ World.scan = scan /\ World.sol = sol /\ World.sup = sup /\ World.page = page
      /\ World \in Worlds /\ scan \in Scans /\ Paced(World.scan) /\ Shown(World)
      /\ Made(World) /\ scan.stage = "key" /\ Waiting(World)
      /\ scan.recent \in Ages /\ Len(scan.recent) \in Nat
  BY Here DEF KeyImported, Waiting
<1>2. CASE page.transport # "watch"
  <2>1. Become(ComesUp(World))
    BY <1>2 DEF KeyImported
  <2>2. Right(ComesUp(World)) /\ ComesUp(World).scan.recent = scan.recent
    BY <1>1, ComesUpKeeps
  <2> QED BY <2>1, <2>2, Unregistered
<1>3. CASE page.transport = "watch"
  <2> DEFINE sc == [scan EXCEPT !.stage = "arming"]
             u == [World EXCEPT !.scan = sc]
             v == Register(u)
  <2>1. Become(v)
    <3>1. [World EXCEPT !.scan.stage = "arming"] = u
      BY <1>1 DEF Worlds, Scans
    <3> QED BY <1>3, <3>1 DEF KeyImported
  <2>2. sc \in Scans /\ Paced(sc) /\ sc.stage = "arming" /\ sc.auto = scan.auto
        /\ sc.recent = scan.recent
    BY <1>1 DEF Scans, Stages, Paced
  <2> HIDE DEF sc
  <2>3. u \in Worlds /\ u.scan = sc /\ u.sol = sol /\ u.sup = sup /\ u.page = page
    BY <1>1, <2>2, ScanSet
  <2> HIDE DEF u
  <2>4. /\ v \in Worlds /\ v.sol = sol /\ v.sup = sup /\ v.page = page
        /\ v.scan.stage = "arming" /\ v.scan.auto = scan.auto /\ Paced(v.scan)
        /\ Len(v.scan.recent) = Len(scan.recent) + 1 /\ v.scan \in Scans
    BY <2>2, <2>3, RegisterIs, Parts
  <2> HIDE DEF v
  <2>5. SameWish(World, v)
    BY <1>1, <2>4 DEF SameWish
  <2>6. Right(v)
    BY <1>1, <2>4, <2>5, GoesOn
  <2>7. Unasked => Len(scan.recent) < Budget
    BY <1>1, <1>3, WaitIs DEF Unasked, Made
  <2>8. Follows(v)
    BY <1>1, <2>4, <2>6, <2>7, Bounds DEF Follows
  <2> QED BY <2>1, <2>8
<1> QED BY <1>2, <1>3

LEMMA ArmEndsSteps ==
  ASSUME Right(World), ArmEnds
  PROVE  \E v : Become(v) /\ Follows(v)
<1>1. World.scan = scan /\ Waiting(World)
  BY Here DEF ArmEnds, Waiting
<1>2. CASE Become(ComesUp(World))
  <2>1. Right(ComesUp(World)) /\ ComesUp(World).scan.recent = scan.recent
    BY <1>1, ComesUpKeeps
  <2> QED BY <1>2, <2>1, Unregistered
<1>3. CASE Become(Fails(World, "radio"))
  BY <1>1, <1>3, FailsSteps
<1> QED BY <1>2, <1>3 DEF ArmEnds

LEMMA RearmsSteps ==
  ASSUME Right(World), Rearms
  PROVE  \E v : Become(v) /\ Follows(v)
<1>1. /\ World.scan = scan /\ World.sol = sol /\ World.sup = sup /\ World.page = page
      /\ World \in Worlds /\ scan \in Scans /\ Paced(World.scan) /\ Shown(World)
      /\ scan.stage = "up" /\ scan.recent \in Ages /\ Len(scan.recent) \in Nat
  BY Here DEF Rearms
<1>2. Wait(scan.recent) \in 0 .. Window
  BY <1>1, WaitIs
<1>3. CASE Wait(scan.recent) > 0
  <2> DEFINE wait == Wait(scan.recent)
             s == [scan EXCEPT !.due = wait]
             v == [World EXCEPT !.scan = s]
  <2>1. Become(v)
    <3>1. [World EXCEPT !.scan.due = Wait(scan.recent)] = v
      BY <1>1 DEF Worlds, Scans
    <3> QED BY <1>3, <3>1 DEF Rearms
  <2>2. wait \in Nat /\ wait <= Window
    BY <1>2, Bounds
  <2> HIDE DEF wait
  <2>3. /\ s \in Scans /\ s.stage = scan.stage /\ s.auto = scan.auto
        /\ s.recent = scan.recent /\ Paced(s)
    BY <1>1, <2>2 DEF Scans, Paced
  <2> HIDE DEF s
  <2>4. Right(v) /\ v.scan = s
    BY <1>1, <2>3, ScanAgain
  <2> HIDE DEF v
  <2>5. Follows(v)
    BY <2>3, <2>4, Unregistered
  <2> QED BY <2>1, <2>5
<1>4. CASE ~(Wait(scan.recent) > 0)
  <2> DEFINE v == Register(World)
  <2>1. Become(v)
    BY <1>4 DEF Rearms
  <2>2. /\ v \in Worlds /\ v.sol = sol /\ v.sup = sup /\ v.page = page
        /\ v.scan.stage = "up" /\ v.scan.auto = scan.auto /\ Paced(v.scan)
        /\ Len(v.scan.recent) = Len(scan.recent) + 1
    BY <1>1, RegisterIs
  <2> HIDE DEF v
  <2>3. SameWish(World, v) /\ Shown(v)
    BY <1>1, <2>2 DEF SameWish, Shown
  <2>4. Right(v)
    BY <1>1, <2>2, <2>3, RightAgain DEF Alert
  <2>5. Len(scan.recent) < Budget
    BY <1>1, <1>2, <1>4, WaitIs, Bounds
  <2>6. Follows(v)
    BY <1>1, <2>2, <2>4, <2>5, Bounds DEF Follows
  <2> QED BY <2>1, <2>6
<1> QED BY <1>3, <1>4

\* A scan that was up and is not any more.
LEMMA LostSteps ==
  ASSUME Right(World), scan.stage = "up"
  PROVE  Follows(TornDown([World EXCEPT !.scan = NoScan(@.recent)]))
<1> DEFINE v == TornDown([World EXCEPT !.scan = NoScan(@.recent)])
<1>1. Right(v) /\ v.scan.recent = scan.recent
  BY TornDownKeeps, Here
<1> QED BY <1>1, Unregistered

LEMMA RearmEndsSteps ==
  ASSUME Right(World), RearmEnds
  PROVE  \E v : Become(v) /\ Follows(v)
<1> DEFINE s == [scan EXCEPT !.rearming = FALSE]
           v == [World EXCEPT !.scan = s]
<1>1. /\ World.scan = scan /\ World \in Worlds /\ scan \in Scans /\ Paced(World.scan)
      /\ scan.stage = "up"
  BY Here DEF RearmEnds
<1>2. CASE Become([World EXCEPT !.scan.rearming = FALSE])
  <2>1. [World EXCEPT !.scan.rearming = FALSE] = v
    BY <1>1 DEF Worlds, Scans
  <2>2. /\ s \in Scans /\ s.stage = scan.stage /\ s.auto = scan.auto
        /\ s.recent = scan.recent /\ Paced(s)
    BY <1>1 DEF Scans, Paced
  <2> HIDE DEF s
  <2>3. Right(v) /\ v.scan = s
    BY <1>1, <2>2, ScanAgain
  <2>4. Become(v)
    BY <1>2, <2>1
  <2> HIDE DEF v
  <2> QED BY <2>2, <2>3, <2>4, Unregistered
<1>3. CASE Become(TornDown([World EXCEPT !.scan = NoScan(@.recent)]))
  BY <1>1, <1>3, LostSteps
<1> QED BY <1>2, <1>3 DEF RearmEnds

LEMMA SocketClosesSteps ==
  ASSUME Right(World), SocketCloses
  PROVE  \E v : Become(v) /\ Follows(v)
<1>1. CASE scan.stage = "up" /\ Become(TornDown([World EXCEPT !.scan = NoScan(@.recent)]))
  BY <1>1, LostSteps
<1>2. CASE scan.stage = "key" /\ Become(Fails(World, "radio"))
  <2>1. Waiting(World)
    BY <1>2, Here DEF Waiting
  <2> QED BY <1>2, <2>1, FailsSteps
<1> QED BY <1>1, <1>2 DEF SocketCloses

LEMMA HeardSteps ==
  ASSUME Right(World), Heard
  PROVE  \E v : Become(v) /\ Follows(v)
<1> DEFINE u == RestartLadder(World)
           s == [u.sol EXCEPT !.state = "live"]
           heard == [u EXCEPT !.sol = s]
           v == ConsiderSweep(heard)
<1>1. /\ World.scan = scan /\ World.sol = sol /\ World.sup = sup /\ World.page = page
      /\ World \in Worlds /\ sol \in Sols /\ Paced(World.scan) /\ Shown(World)
      /\ scan.stage \in {"arming", "up"}
  BY Here DEF Heard
<1>2. Become(ConsiderSweep([u EXCEPT !.sol.state = "live"]))
  BY DEF Heard
<1>3. /\ u \in Worlds /\ u.sol = sol /\ u.sup = sup /\ u.page = page
      /\ u.scan.stage = scan.stage /\ u.scan.auto = scan.auto /\ Paced(u.scan)
      /\ u.scan.recent = scan.recent
  BY <1>1, RestartLadderIs
<1> HIDE DEF u
<1>4. [u EXCEPT !.sol.state = "live"] = heard
  BY <1>1, <1>3 DEF Worlds, Sols
<1>5. /\ s \in Sols /\ s.state = "live" /\ s.naming = sol.naming /\ s.armed = sol.armed
      /\ s.remembered = sol.remembered /\ s.key = sol.key /\ s.sweep = sol.sweep
  BY <1>1, <1>3 DEF Sols, Up
<1> HIDE DEF s
<1>6. /\ heard \in Worlds /\ heard.scan = u.scan /\ heard.sol = s /\ heard.sup = sup
      /\ heard.page = page
  BY <1>3, <1>5, SolSet
<1>7. Become(v)
  BY <1>2, <1>4
<1> HIDE DEF heard
<1>8. SameWish(World, heard) /\ Shown(heard)
  BY <1>1, <1>3, <1>5, <1>6 DEF SameWish, Shown, Up
<1>9. Right(heard)
  BY <1>1, <1>3, <1>5, <1>6, <1>8, RightAgain DEF Alert
<1>10. Right(v) /\ v.scan = heard.scan
  BY <1>9, ConsiderSweepKeeps
<1> HIDE DEF v
<1>11. Follows(v)
  BY <1>3, <1>6, <1>10, Unregistered
<1> QED BY <1>7, <1>11

LEMMA StaleSteps ==
  ASSUME Right(World), Stale
  PROVE  \E v : Become(v) /\ Follows(v)
<1> DEFINE s == [sol EXCEPT !.state = "listening"]
           v == [World EXCEPT !.sol = s]
<1>1. /\ World.scan = scan /\ World.sol = sol /\ World \in Worlds /\ sol \in Sols
      /\ Shown(World) /\ sol.state = "live"
  BY Here DEF Stale
<1>2. Become(v)
  <2>1. [World EXCEPT !.sol.state = "listening"] = v
    BY <1>1 DEF Worlds, Sols
  <2> QED BY <2>1 DEF Stale
<1>3. /\ s \in Sols /\ s.state = "listening" /\ s.naming = sol.naming /\ s.armed = sol.armed
      /\ s.remembered = sol.remembered /\ s.key = sol.key /\ s.sweep = sol.sweep
  BY <1>1 DEF Sols, Up
<1> HIDE DEF s
<1>4. Right(v) /\ v.scan = scan
  BY <1>1, <1>3, SolAgain DEF Shown, Up
<1> HIDE DEF v
<1>5. Follows(v)
  BY <1>4, Unregistered
<1> QED BY <1>2, <1>5

LEMMA NamedSteps ==
  ASSUME Right(World), Named
  PROVE  \E v : Become(v) /\ Follows(v)
<1> DEFINE s == [sol EXCEPT !.naming = "none"]
           v == [World EXCEPT !.sol = s]
<1>1. World.scan = scan /\ World.sol = sol /\ World \in Worlds /\ sol \in Sols /\ Shown(World)
  BY Here
<1>2. Become(v)
  <2>1. [World EXCEPT !.sol.naming = "none"] = v
    BY <1>1 DEF Worlds, Sols
  <2> QED BY <2>1 DEF Named
<1>3. /\ s \in Sols /\ s.state = sol.state /\ s.naming = "none" /\ s.armed = sol.armed
      /\ s.remembered = sol.remembered /\ s.key = sol.key /\ s.sweep = sol.sweep
  BY <1>1 DEF Sols
<1> HIDE DEF s
<1>4. Right(v) /\ v.scan = scan
  BY <1>1, <1>3, SolAgain DEF Shown
<1> HIDE DEF v
<1>5. Follows(v)
  BY <1>4, Unregistered
<1> QED BY <1>2, <1>5

LEMMA LedgerReadSteps ==
  ASSUME Right(World), LedgerRead
  PROVE  \E v : Become(v) /\ Follows(v)
<1> DEFINE s == [sol EXCEPT !.asked = FALSE]
           u == [World EXCEPT !.sol = s]
<1>1. World.scan = scan /\ World.sol = sol /\ World \in Worlds /\ sol \in Sols /\ Shown(World)
  BY Here
<1>2. [World EXCEPT !.sol.asked = FALSE] = u
  BY <1>1 DEF Worlds, Sols
<1>3. Become(u) \/ Become(ClaimRadio(u))
  BY <1>2 DEF LedgerRead
<1>4. /\ s \in Sols /\ s.state = sol.state /\ s.naming = sol.naming /\ s.armed = sol.armed
      /\ s.remembered = sol.remembered /\ s.key = sol.key /\ s.sweep = sol.sweep
  BY <1>1 DEF Sols
<1> HIDE DEF s
<1>5. Right(u) /\ u.scan = scan
  BY <1>1, <1>4, SolAgain DEF Shown
<1> HIDE DEF u
<1>6. Right(ClaimRadio(u)) /\ ClaimRadio(u).scan.recent = scan.recent
  BY <1>5, ClaimRadioKeeps
<1>7. Follows(u) /\ Follows(ClaimRadio(u))
  BY <1>5, <1>6, Unregistered
<1> QED BY <1>3, <1>7

LEMMA SweepEndsSteps ==
  ASSUME Right(World), SweepEnds
  PROVE  \E v : Become(v) /\ Follows(v)
<1>1. World.scan = scan /\ World.sol = sol /\ World \in Worlds /\ Sound(World) /\ sol \in Sols
  BY Here
<1>2. PICK refused \in {sol.refused, TRUE} :
        Become(Look[[World EXCEPT !.sol.sweep = "none", !.sol.refused = refused]])
  BY DEF SweepEnds
<1> DEFINE s == [sol EXCEPT !.sweep = "none", !.refused = refused]
           u == [World EXCEPT !.sol = s]
           v == Look[u]
<1>3. refused \in BOOLEAN
  BY <1>1 DEF Sols
<1>4. Become(v)
  <2>1. [World EXCEPT !.sol.sweep = "none", !.sol.refused = refused] = u
    BY <1>1 DEF Worlds, Sols
  <2> QED BY <1>2, <2>1
<1>5. s \in Sols /\ s.state = sol.state /\ s.naming = sol.naming /\ s.sweep = "none"
  BY <1>1, <1>3 DEF Sols
<1> HIDE DEF s
<1>6. Sound(u) /\ u.scan = scan
  BY <1>1, <1>5, SolSound
<1> HIDE DEF u
<1>7. Looked(u, v)
  BY <1>6, LookKeeps
<1> HIDE DEF v
<1>8. Follows(v)
  BY <1>6, <1>7, Unregistered DEF Looked
<1> QED BY <1>4, <1>8

\* SOLAR_RESUME_TIMEOUT_MS takes the attempt down, and a look is due.
LEMMA DeadlineSteps ==
  ASSUME Right(World), sup.inFlight => Resuming(World), Deadline
  PROVE  \E v : Become(v) /\ Follows(v)
<1> DEFINE stood == StandDown(World)
           v == [stood EXCEPT !.sup.look = TRUE]
<1>1. Become(v)
  BY DEF Deadline
<1>2. World.scan = scan /\ Fit(World) /\ World.sup.inFlight /\ Resuming(World)
  BY Here DEF Deadline
<1>3. /\ Sound(stood) /\ ~stood.sup.inFlight /\ stood.sol.state = "idle"
      /\ stood.scan.recent = scan.recent
  BY <1>2, StandDownIs
<1> HIDE DEF stood
<1>4. stood \in Worlds /\ Fit(stood)
  BY <1>3 DEF Sound, Fit
<1>5. /\ v \in Worlds /\ v.scan = stood.scan /\ v.sol = stood.sol /\ v.page = stood.page
      /\ v.sup.look = TRUE /\ v.sup.inFlight = stood.sup.inFlight
  BY <1>4, LookSet
<1> HIDE DEF v
<1>6. Fit(v)
  BY <1>4, <1>5, FitAgain DEF Sweeping
<1>7. Right(v)
  BY <1>3, <1>5, <1>6 DEF Right, Sound, Lawful, Seeking, Alert
<1>8. Follows(v)
  BY <1>3, <1>5, <1>7, Unregistered
<1> QED BY <1>1, <1>8

LEMMA LookDueSteps ==
  ASSUME Right(World), LookDue
  PROVE  \E v : Become(v) /\ Follows(v)
<1>1. Looked(World, Look[World]) /\ World.scan = scan
  BY Here, LookKeeps
<1>2. Follows(Look[World])
  BY <1>1, Unregistered DEF Looked
<1> QED BY <1>2 DEF LookDue

LEMMA GapEndsSteps ==
  ASSUME Right(World), GapEnds
  PROVE  \E v : Become(v) /\ Follows(v)
<1> DEFINE s == [sup EXCEPT !.recent = FALSE]
           v == [World EXCEPT !.sup = s]
<1>1. /\ World.scan = scan /\ World.sol = sol /\ World.sup = sup /\ World.page = page
      /\ World \in Worlds /\ sup \in Sups /\ Shown(World) /\ Paced(World.scan)
      /\ Len(scan.recent) \in Nat
  BY Here
<1>2. Become(v)
  <2>1. [World EXCEPT !.sup.recent = FALSE] = v
    BY <1>1 DEF Worlds, Sups
  <2> QED BY <2>1 DEF GapEnds
<1>3. /\ s \in Sups /\ s.running = sup.running /\ s.look = sup.look
      /\ s.inFlight = sup.inFlight /\ s.missed = sup.missed /\ s.blocker = sup.blocker
  BY <1>1 DEF Sups
<1> HIDE DEF s
<1>4. v \in Worlds /\ v.scan = scan /\ v.sol = sol /\ v.sup = s /\ v.page = page
  BY <1>1, <1>3, SupSet
<1> HIDE DEF v
<1>5. SameWish(World, v) /\ Shown(v)
  BY <1>1, <1>4 DEF SameWish, Shown
<1>6. Right(v)
  BY <1>1, <1>3, <1>4, <1>5, RightAgain DEF Alert
<1>7. Follows(v)
  BY <1>4, <1>6, Unregistered
<1> QED BY <1>2, <1>7

LEMMA TickSteps ==
  ASSUME Right(World), Tick
  PROVE  \E v : Become(v) /\ Follows(v)
<1> DEFINE recent == Aged(scan.recent)
           due == IF scan.due > 0 THEN scan.due - 1 ELSE 0
           s == [scan EXCEPT !.recent = recent, !.due = due]
           v == [World EXCEPT !.scan = s]
<1>1. /\ World.scan = scan /\ World \in Worlds /\ scan \in Scans /\ Paced(World.scan)
      /\ scan.recent \in Ages /\ Len(scan.recent) \in Nat
  BY Here
<1>2. Become(v)
  <2>1. [World EXCEPT !.scan.recent = Aged(@), !.scan.due = IF @ > 0 THEN @ - 1 ELSE 0] = v
    BY <1>1 DEF Worlds, Scans
  <2> QED BY <2>1 DEF Tick
<1>3. recent \in Ages /\ Ordered(recent) /\ Len(recent) <= Len(scan.recent)
  BY <1>1, AgedIs DEF Paced
<1>4. due \in Nat /\ due <= scan.due /\ scan.due \in Nat
  BY <1>1 DEF Scans
<1> HIDE DEF recent, due
<1>5. /\ s \in Scans /\ s.stage = scan.stage /\ s.auto = scan.auto /\ s.recent = recent
      /\ s.due = due /\ s.gap = scan.gap
  BY <1>1, <1>3, <1>4 DEF Scans
<1> HIDE DEF s
<1>6. Paced(s)
  BY <1>1, <1>3, <1>4, <1>5, Bounds DEF Paced
<1>7. Right(v) /\ v.scan = s
  BY <1>1, <1>3, <1>5, <1>6, ScanAgain
<1> HIDE DEF v
<1>8. Len(recent) \in Nat
  BY <1>3, AgesAre
<1>9. Follows(v)
  BY <1>1, <1>3, <1>5, <1>7, <1>8 DEF Follows
<1> QED BY <1>2, <1>9

\* A page that turns, or a radio that does, before the look that follows.
LEMMA PageSound ==
  ASSUME Right(World), NEW p \in Pages, p.transport = page.transport
  PROVE  LET v == [World EXCEPT !.page = p] IN
         Sound(v) /\ v.scan = scan /\ v.sol = sol /\ v.sup = sup /\ v.page = p
<1> DEFINE v == [World EXCEPT !.page = p]
<1>1. /\ World.scan = scan /\ World.sol = sol /\ World.sup = sup /\ World.page = page
      /\ World \in Worlds /\ Sound(World) /\ Fit(World)
  BY Here
<1>2. v \in Worlds /\ v.scan = scan /\ v.sol = sol /\ v.sup = sup /\ v.page = p
  BY <1>1, PageSet
<1> HIDE DEF v
<1>3. Fit(v)
  BY <1>1, <1>2, FitAgain DEF Sweeping
<1> QED BY <1>1, <1>2, <1>3 DEF Sound, v

LEMMA TurnPageSteps ==
  ASSUME Right(World), TurnPage
  PROVE  \E v : Become(v) /\ Follows(v)
<1> DEFINE front == ~page.front
           pg == [page EXCEPT !.front = front]
           u == [World EXCEPT !.page = pg]
           looked == Look[u]
           v == RestartLadder(looked)
<1>1. World.page = page /\ World \in Worlds /\ page \in Pages
  BY Here
<1>2. Become(v) \/ Become(looked)
  <2>1. [World EXCEPT !.page.front = ~@] = u
    BY <1>1 DEF Worlds, Pages
  <2> QED BY <2>1 DEF TurnPage
<1>3. front \in BOOLEAN
  OBVIOUS
<1> HIDE DEF front
<1>4. pg \in Pages /\ pg.transport = page.transport
  BY <1>1, <1>3 DEF Pages
<1> HIDE DEF pg
<1>5. Sound(u) /\ u.scan = scan
  BY <1>4, PageSound
<1> HIDE DEF u
<1>6. Right(looked) /\ looked.scan.recent = scan.recent
  BY <1>5, LookKeeps DEF Looked
<1> HIDE DEF looked
<1>7. looked \in Worlds /\ Paced(looked.scan) /\ Shown(looked) /\ looked.scan \in Scans
  BY <1>6, Parts DEF Right, Sound, Fit
<1>8. /\ v \in Worlds /\ v.sol = looked.sol /\ v.sup = looked.sup /\ v.page = looked.page
      /\ v.scan.stage = looked.scan.stage /\ v.scan.auto = looked.scan.auto
      /\ Paced(v.scan) /\ v.scan.recent = looked.scan.recent
  BY <1>7, RestartLadderIs
<1> HIDE DEF v
<1>9. SameWish(looked, v) /\ Shown(v) /\ Len(v.scan.recent) <= Len(looked.scan.recent)
  <2>1. Len(looked.scan.recent) \in Nat
    BY <1>7, AgesAre DEF Scans
  <2> QED BY <1>7, <1>8, <2>1 DEF SameWish, Shown
<1>10. Right(v)
  BY <1>6, <1>8, <1>9, RightAgain DEF Alert
<1>11. Follows(v) /\ Follows(looked)
  BY <1>6, <1>8, <1>10, Unregistered
<1> QED BY <1>2, <1>11

LEMMA TurnAdapterSteps ==
  ASSUME Right(World), TurnAdapter
  PROVE  \E v : Become(v) /\ Follows(v)
<1> DEFINE on == ~page.adapterOn
           pg == [page EXCEPT !.adapterOn = on]
           u == [World EXCEPT !.page = pg]
           v == Look[u]
<1>1. World.page = page /\ World \in Worlds /\ page \in Pages
  BY Here
<1>2. Become(v)
  <2>1. [World EXCEPT !.page.adapterOn = ~@] = u
    BY <1>1 DEF Worlds, Pages
  <2> QED BY <2>1 DEF TurnAdapter
<1>3. on \in BOOLEAN
  OBVIOUS
<1> HIDE DEF on
<1>4. pg \in Pages /\ pg.transport = page.transport
  BY <1>1, <1>3 DEF Pages
<1> HIDE DEF pg
<1>5. Sound(u) /\ u.scan = scan
  BY <1>4, PageSound
<1> HIDE DEF u
<1>6. Looked(u, v)
  BY <1>5, LookKeeps
<1> HIDE DEF v
<1>7. Follows(v)
  BY <1>5, <1>6, Unregistered DEF Looked
<1> QED BY <1>2, <1>7

LEMMA RevokeSteps ==
  ASSUME Right(World), Revoke
  PROVE  \E v : Become(v) /\ Follows(v)
<1> DEFINE pg == [page EXCEPT !.permitted = FALSE]
           v == [World EXCEPT !.page = pg]
<1>1. /\ World.scan = scan /\ World.sol = sol /\ World.sup = sup /\ World.page = page
      /\ World \in Worlds /\ page \in Pages /\ Shown(World) /\ Paced(World.scan)
      /\ Len(scan.recent) \in Nat
  BY Here
<1>2. Become(v)
  <2>1. [World EXCEPT !.page.permitted = FALSE] = v
    BY <1>1 DEF Worlds, Pages
  <2> QED BY <2>1 DEF Revoke
<1>3. /\ pg \in Pages /\ pg.transport = page.transport /\ pg.front = page.front
      /\ pg.adapterOn = page.adapterOn
  BY <1>1 DEF Pages
<1> HIDE DEF pg
<1>4. v \in Worlds /\ v.scan = scan /\ v.sol = sol /\ v.sup = sup /\ v.page = pg
  BY <1>1, <1>3, PageSet
<1> HIDE DEF v
<1>5. SameWish(World, v) /\ Shown(v)
  BY <1>1, <1>3, <1>4 DEF SameWish, Shown
<1>6. Right(v)
  BY <1>1, <1>4, <1>5, RightAgain DEF Alert
<1>7. Follows(v)
  BY <1>4, <1>6, Unregistered
<1> QED BY <1>2, <1>7

LEMMA StartSteps ==
  ASSUME Right(World), Start
  PROVE  \E v : Become(v) /\ Follows(v)
<1> DEFINE pg == [page EXCEPT !.view = "mounted"]
           s == [sup EXCEPT !.running = TRUE]
           t == [World EXCEPT !.page = pg]
           u == [t EXCEPT !.sup = s]
           v == Look[u]
<1>1. World.sup = sup /\ World.page = page /\ World \in Worlds /\ page \in Pages /\ sup \in Sups
  BY Here
<1>2. Become(v)
  <2>1. [World EXCEPT !.page.view = "mounted", !.sup.running = TRUE] = u
    BY <1>1 DEF Worlds, Pages, Sups
  <2> QED BY <2>1 DEF Start
<1>3. pg \in Pages /\ pg.transport = page.transport
  BY <1>1 DEF Pages
<1>4. s \in Sups /\ s.running = TRUE /\ s.inFlight = sup.inFlight
  BY <1>1 DEF Sups
<1> HIDE DEF pg, s
<1>5. Sound(t) /\ t.scan = scan /\ t.sol = sol /\ t.sup = sup /\ t.page = pg
  BY <1>3, PageSound
<1> HIDE DEF t
<1>6. t \in Worlds /\ Fit(t)
  BY <1>5 DEF Sound, Fit
<1>7. u \in Worlds /\ u.scan = scan /\ u.sol = sol /\ u.sup = s /\ u.page = pg
  BY <1>4, <1>5, <1>6, SupSet
<1> HIDE DEF u
<1>8. Fit(u)
  BY <1>4, <1>5, <1>6, <1>7, FitAgain DEF Sweeping
<1>9. Looked(u, v)
  BY <1>4, <1>7, <1>8, LookKeeps DEF Sound
<1> HIDE DEF v
<1>10. Follows(v)
  BY <1>7, <1>9, Unregistered DEF Looked
<1> QED BY <1>2, <1>10

LEMMA StopSteps ==
  ASSUME Right(World), Stop
  PROVE  \E v : Become(v) /\ Follows(v)
<1> DEFINE pg == [page EXCEPT !.view = "gone"]
           s == [sup EXCEPT !.running = FALSE]
           t == [World EXCEPT !.page = pg]
           u == [t EXCEPT !.sup = s]
           stopped == StandDown(u)
           q == [stopped.sup EXCEPT !.blocker = "none"]
           v == [stopped EXCEPT !.sup = q]
<1>1. World.sup = sup /\ World.page = page /\ World \in Worlds /\ page \in Pages /\ sup \in Sups
  BY Here
<1>2. Become([stopped EXCEPT !.sup.blocker = "none"])
  <2>1. [World EXCEPT !.page.view = "gone", !.sup.running = FALSE] = u
    BY <1>1 DEF Worlds, Pages, Sups
  <2> QED BY <2>1 DEF Stop
<1>3. pg \in Pages /\ pg.transport = page.transport
  BY <1>1 DEF Pages
<1>4. s \in Sups /\ s.running = FALSE /\ s.inFlight = sup.inFlight
  BY <1>1 DEF Sups
<1> HIDE DEF pg, s
<1>5. Sound(t) /\ t.scan = scan /\ t.sol = sol /\ t.sup = sup /\ t.page = pg
  BY <1>3, PageSound
<1> HIDE DEF t
<1>6. t \in Worlds /\ Fit(t)
  BY <1>5 DEF Sound, Fit
<1>7. u \in Worlds /\ u.scan = scan /\ u.sol = sol /\ u.sup = s /\ u.page = pg
  BY <1>4, <1>5, <1>6, SupSet
<1> HIDE DEF u
<1>8. Fit(u)
  BY <1>4, <1>5, <1>6, <1>7, FitAgain DEF Sweeping
<1>9. Sound(stopped) /\ ~stopped.sup.running /\ ~stopped.sup.inFlight
      /\ stopped.scan.recent = scan.recent
  BY <1>4, <1>7, <1>8, StandDownIs
<1> HIDE DEF stopped
<1>10. stopped \in Worlds /\ Fit(stopped) /\ stopped.sup \in Sups
  BY <1>9, Parts DEF Sound, Fit
<1>11. [stopped EXCEPT !.sup.blocker = "none"] = v
  BY <1>10 DEF Worlds, Sups
<1>12. q \in Sups /\ ~q.running /\ ~q.inFlight
  BY <1>9, <1>10 DEF Sups, Blockers
<1> HIDE DEF q
<1>13. /\ v \in Worlds /\ v.scan = stopped.scan /\ v.sol = stopped.sol /\ v.sup = q
       /\ v.page = stopped.page
  BY <1>10, <1>12, SupSet
<1>14. Become(v)
  BY <1>2, <1>11
<1> HIDE DEF v
<1>15. Fit(v)
  BY <1>10, <1>12, <1>13, FitAgain DEF Sweeping
<1>16. Right(v)
  BY <1>12, <1>13, <1>15 DEF Right, Sound, Lawful, Seeking, CanRestoreTheWatch
<1>17. Follows(v)
  BY <1>9, <1>13, <1>16, Unregistered
<1> QED BY <1>14, <1>17

-----------------------------------------------------------------------------
(* Settling, and the whole of a step *)

\* An attempt whose watch was superseded ends without an error.
LEMMA SettledKeeps ==
  ASSUME NEW w, Right(w)
  PROVE  LET v == Settled[w] IN
         Right(v) /\ (v.sup.inFlight => Resuming(v)) /\ v.scan = w.scan
<1> DEFINE s == [w.sup EXCEPT !.inFlight = FALSE, !.blocker = "none"]
           v == [w EXCEPT !.sup = s]
<1>1. /\ w \in Worlds /\ Sound(w) /\ Fit(w) /\ Shown(w) /\ Made(w) /\ Lawful(w) /\ Seeking(w)
      /\ w.sup \in Sups
  BY Parts DEF Right, Sound, Fit
<1>2. Settled[w] = IF w.sup.inFlight /\ ~Resuming(w) THEN v ELSE w
  <2>1. [w EXCEPT !.sup.inFlight = FALSE, !.sup.blocker = "none"] = v
    BY <1>1 DEF Worlds, Sups
  <2> QED BY <1>1, <2>1 DEF Settled
<1>3. CASE ~(w.sup.inFlight /\ ~Resuming(w))
  BY <1>2, <1>3
<1>4. CASE w.sup.inFlight /\ ~Resuming(w)
  <2>1. /\ s \in Sups /\ s.running = w.sup.running /\ ~s.inFlight
        /\ s.look = w.sup.look /\ s.missed = w.sup.missed
    BY <1>1 DEF Sups, Blockers
  <2> HIDE DEF s
  <2>2. v \in Worlds /\ v.scan = w.scan /\ v.sol = w.sol /\ v.sup = s /\ v.page = w.page
    BY <1>1, <2>1, SupSet
  <2> HIDE DEF v
  <2>3. SameWish(w, v)
    BY <2>2 DEF SameWish
  <2>4. Fit(v)
    BY <1>1, <2>1, <2>2, FitAgain DEF Sweeping
  <2>5. w.scan.stage \in {"off", "up"}
    BY <1>1, <1>4 DEF Made, Resuming
  <2>6. Seeking(v)
    BY <1>1, <1>4, <2>1, <2>2, <2>3, <2>5, WishIs DEF Seeking, Alert
  <2>7. Lawful(v)
    BY <1>1, <2>1, <2>2, <2>3, WishIs DEF Lawful, CanRestoreTheWatch
  <2> QED BY <1>2, <1>4, <2>1, <2>2, <2>4, <2>6, <2>7 DEF Right, Sound
<1> QED BY <1>3, <1>4

LEMMA Started ==
  ASSUME Init
  PROVE  IInv
<1>1. World.scan = scan /\ World.sol = sol /\ World.sup = sup /\ World.page = page
  BY DEF World
<1>2. <<>> \in Ages /\ Ordered(<<>>)
  BY EmptySeq DEF Ages, Ordered
<1>3. scan \in Scans /\ Paced(scan) /\ scan.stage = "off" /\ ~scan.auto
  BY <1>2, NoScanIs DEF Init
<1>4. sol \in Sols /\ sol.state = "idle" /\ sol.naming = "none"
  BY DEF Init, Sols
<1>5. sup \in Sups /\ ~sup.inFlight /\ ~sup.running
  BY DEF Init, Sups, Blockers
<1>6. page \in Pages
  BY DEF Init, Pages
<1>7. World \in Worlds
  BY <1>3, <1>4, <1>5, <1>6 DEF World, Worlds, Scans, Ages, Sols, Sups, Blockers, Pages
<1>8. Shown(World)
  BY <1>1, <1>3, <1>4 DEF Shown, Up
<1>9. Made(World) /\ Yielded(World)
  BY <1>1, <1>3, <1>4, <1>5 DEF Made, Yielded
<1>10. Lawful(World) /\ Seeking(World)
  BY <1>1, <1>5 DEF Lawful, Seeking, CanRestoreTheWatch
<1>11. Right(World)
  BY <1>1, <1>3, <1>5, <1>7, <1>8, <1>9, <1>10 DEF Right, Sound, Fit
<1>12. spent \in 0 .. MaxHappenings
  BY Bounds DEF Init
<1> QED BY <1>5, <1>11, <1>12 DEF IInv

LEMMA Spending ==
  ASSUME spent \in 0 .. MaxHappenings, Next
  PROVE  spent' \in 0 .. MaxHappenings
<1>1. Happens \/ UNCHANGED spent
  BY DEF Next, Press, Settles, Turns, PressConnectSolar, PressStopSolar, PressDisconnect,
         PressRejoin, PressReadHistory, Pressed, Granted, NotGranted, ListingEnds,
         ListingRefused, RegistrationFree, KeyImported, ArmEnds, Rearms, RearmEnds,
         SocketCloses, Heard, Stale, Named, LedgerRead, SweepEnds, Deadline, LookDue,
         GapEnds, Tick, TurnPage, TurnAdapter, Revoke, Start, Stop
<1> QED BY <1>1, Bounds DEF Happens

LEMMA Steps ==
  ASSUME IInv, Next
  PROVE  \E v : Become(v) /\ Follows(v)
<1>1. Right(World) /\ (sup.inFlight => Resuming(World))
  BY DEF IInv
<1>2. CASE Press
  BY <1>1, <1>2, PressConnectSolarSteps, PressStopSolarSteps, PressDisconnectSteps,
     PressRejoinSteps, PressReadHistorySteps DEF Press
<1>3. CASE Settles
  BY <1>1, <1>3, GrantedSteps, NotGrantedSteps, ListingEndsSteps, ListingRefusedSteps,
     RegistrationFreeSteps, KeyImportedSteps, ArmEndsSteps, RearmsSteps, RearmEndsSteps,
     SocketClosesSteps, HeardSteps, StaleSteps, NamedSteps, LedgerReadSteps, SweepEndsSteps
     DEF Settles
<1>4. CASE Turns
  BY <1>1, <1>4, DeadlineSteps, LookDueSteps, GapEndsSteps, TickSteps, TurnPageSteps,
     TurnAdapterSteps, RevokeSteps, StartSteps, StopSteps DEF Turns
<1> QED BY <1>2, <1>3, <1>4 DEF Next

LEMMA Preserved ==
  ASSUME IInv, [Next]_vars
  PROVE  /\ IInv'
         /\ Registered /\ Unasked => Len(scan'.recent) <= Budget
<1>1. CASE Next
  <2>1. PICK v : Become(v) /\ Follows(v)
    BY <1>1, Steps
  <2> DEFINE u == Settled[v]
  <2>2. scan' = u.scan /\ sol' = u.sol /\ sup' = u.sup /\ page' = u.page
    BY <2>1 DEF Become
  <2>3. Right(u) /\ (u.sup.inFlight => Resuming(u)) /\ u.scan = v.scan
    BY <2>1, SettledKeeps DEF Follows
  <2> HIDE DEF u
  <2>4. World' = u
    BY <2>2, <2>3 DEF World, Worlds, Right, Sound, Fit
  <2>5. spent' \in 0 .. MaxHappenings
    BY <1>1, Spending DEF IInv
  <2>6. Registered /\ Unasked => Len(scan'.recent) <= Budget
    BY <2>1, <2>2, <2>3 DEF Follows, Registered
  <2> QED BY <2>2, <2>3, <2>4, <2>5, <2>6 DEF IInv
<1>2. CASE UNCHANGED vars
  <2>1. /\ World' = World /\ spent' = spent /\ scan' = scan /\ sup' = sup
    BY <1>2 DEF vars, World
  <2>2. Len(scan.recent) \in Nat
    BY Here DEF IInv
  <2>3. ~Registered
    BY <2>1, <2>2 DEF Registered
  <2> QED BY <2>1, <2>3 DEF IInv
<1> QED BY <1>1, <1>2

-----------------------------------------------------------------------------
(* The theorems *)

\* In every state the scanner, its supervisor and telemetry can reach, over any
\* transport, the world is right: as they show it, as they may hold it, and sought
\* again when it is gone.
THEOREM RightAlways == Spec => []IInv
<1>1. Init => IInv
  BY Started
<1>2. IInv /\ [Next]_vars => IInv'
  BY Preserved
<1> QED BY <1>1, <1>2, PTL DEF Spec

\* solarConnectionState is that of the scan, a resume goes on only while mayResume
\* says so, and the tunnel and a hidden page take the watch down.
THEOREM TheWatchIsRightful == Spec => []WatchIsRightful
<1>1. ASSUME IInv PROVE WatchIsRightful
  <2>1. Right(World) /\ spent \in 0 .. MaxHappenings
    BY <1>1 DEF IInv
  <2>2. /\ World.scan = scan /\ World.sol = sol /\ World.sup = sup /\ World.page = page
        /\ World \in Worlds /\ Paced(World.scan) /\ Shown(World) /\ Yielded(World)
        /\ Lawful(World)
    BY <2>1, Here
  <2>3. TypeOK
    BY <2>1, <2>2 DEF TypeOK, Paced
  <2>4. ShownIsHeld
    BY <2>2 DEF ShownIsHeld, Shown
  <2>5. AttemptStillAllowed
    BY <2>2 DEF AttemptStillAllowed, Lawful, MayResume
  <2>6. TunnelHasTheRadio
    BY <2>2 DEF TunnelHasTheRadio, Yielded
  <2>7. HiddenPageHoldsNoWatch
    BY <2>2 DEF HiddenPageHoldsNoWatch, Lawful
  <2> QED BY <2>3, <2>4, <2>5, <2>6, <2>7 DEF WatchIsRightful
<1> QED BY <1>1, RightAlways, PTL

\* Every way a watch, an attempt or a sweep ends leaves the solar supervisor with an
\* attempt, a look or a blocker; but for the watch lost before its controller's name.
THEOREM NeverAsleepForNothing == Spec => []SleepsOnlyWithReason
<1>1. ASSUME IInv PROVE SleepsOnlyWithReason
  <2>1. /\ World.sol = sol /\ World.sup = sup /\ World.scan = scan
        /\ Shown(World) /\ Seeking(World)
    BY <1>1, Here DEF IInv
  <2>2. ~Busy(World) => scan.stage = "off"
    BY <2>1 DEF Shown, Busy
  <2> QED BY <2>1, <2>2 DEF SleepsOnlyWithReason, Wanted, Astir, Seeking, Alert
<1> QED BY <1>1, RightAlways, PTL

\* resume waits for a registration to be free and checkSilence asks for one: neither
\* ever takes the window over its budget, whatever the presses before them did.
THEOREM TheBudgetIsKept == Spec => AutomaticKeepsBudget
<1>1. IInv /\ [Next]_vars => [Registered /\ Unasked => Len(scan'.recent) <= Budget]_vars
  BY Preserved
<1> QED BY <1>1, RightAlways, PTL DEF Spec, AutomaticKeepsBudget
=============================================================================
