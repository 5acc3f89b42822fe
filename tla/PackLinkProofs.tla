---------------------------- MODULE PackLinkProofs ----------------------------
(***************************************************************************)
(* One link to the pack, for any set of packs and any number of            *)
(* happenings.  The invariant is one of worlds, in the parts a stretch of  *)
(* code disturbs separately: what the client's handle, its attempt and its *)
(* teardowns say of each other, who bounds the attempt, and what the badge *)
(* may say.  Each operator keeps them, whatever it is composed with.       *)
(***************************************************************************)
EXTENDS PackLink, TLAPS

-----------------------------------------------------------------------------
(* The invariant, of a world *)

Clients == [device : PackOrNone, subscribed : BOOLEAN, wired : BOOLEAN,
            attempt : Attempts, closing : SUBSET Closings]
Apps == [shown : {"idle", "connecting", "live"}, armed : BOOLEAN,
         remembered : PackOrNone, waiting : SUBSET {"press", "loop", "stale"}]
Loops == [running : BOOLEAN, look : BOOLEAN, recent : BOOLEAN,
          standing : {"none", "wait-for-a-sighting", "straight-in-only"},
          blocker : {"none", "permission-gone", "browser-cannot-rejoin", "radio-off"}]
Pages == [view : {"mounting", "mounted", "gone"}, front : BOOLEAN, adapterOn : BOOLEAN,
          permitted : SUBSET Packs]
Worlds == [client : Clients, app : Apps, loop : Loops, page : Pages, up : SUBSET Packs]

\* A handle is a handshake's that nothing has superseded, or a finished link's.
Handled(w) ==
  LET held == w.client
      attempt == held.attempt
  IN  /\ held.device # NoPack =>
           \/ attempt.current
           \/ attempt.stage = "none" /\ held.wired /\ w.app.remembered = held.device
      /\ attempt.current =>
           attempt.stage \in Handshaking /\ attempt.target = held.device /\ held.device # NoPack
      /\ held.wired => held.subscribed /\ held.device # NoPack /\ attempt.stage = "none"
      /\ held.subscribed =>
           held.device \in w.up /\ (held.wired \/ (attempt.stage = "subscribe" /\ attempt.current))
      /\ attempt.current /\ attempt.stage = "subscribe" => held.subscribed
      /\ attempt.current /\ attempt.stage = "discover" => held.device \in w.up

Let(w) == {c.pack : c \in w.client.closing}

\* A link up is the one held or one let go, and a teardown that an attempt waits
\* for is that of an attempt that waits for it.
Loose(w) ==
  /\ w.up \subseteq Let(w) \cup {w.client.device}
  /\ \A c \in w.client.closing : c.then = "unwind" => w.client.attempt.stage = "unwinding"
  /\ w.client.wired \/ w.client.attempt.current => \A c \in w.client.closing : ~c.last
  /\ \A c, d \in w.client.closing : c.last /\ d.last => c = d

\* What an attempt may be, by its stage.
Keyed(w) ==
  LET attempt == w.client.attempt
  IN  /\ attempt.stage = "none" => attempt = NoAttempt
      /\ attempt.stage \notin {"none", "choosing"} => attempt.target # NoPack
      /\ attempt.stage = "choosing" => attempt.id = NoPack
      /\ attempt.stage \in {"listing", "sighting"} => attempt.id # NoPack
      /\ attempt.budget # "none" => attempt.id # NoPack
      /\ attempt.keeper = "loop" => attempt.id # NoPack
      /\ attempt.aborted => attempt.stage = "listing"

Aborted(w) == w.client.attempt.stage = "listing" /\ w.client.attempt.aborted

\* A reconnect is the supervisor's, until it is told to end.
Bounded(w) ==
  w.client.attempt.stage # "none" /\ w.client.attempt.id # NoPack =>
    (w.loop.standing # "none" /\ w.client.attempt.keeper = "loop") \/ Aborted(w)

Ending(then, last) == then = "owner" \/ (then = "stalled" /\ last)

\* The badge is live over a link, or over a teardown that will see to it.
Lit(w) == w.client.wired \/ \E c \in w.client.closing : Ending(c.then, c.last)
Badged(w) ==
  /\ w.app.shown = "live" => Lit(w)
  /\ w.client.attempt.stage # "none" => w.app.shown # "live"

Sound(w) == w \in Worlds /\ Handled(w) /\ Loose(w) /\ Keyed(w)
Kept(w) == Sound(w) /\ Bounded(w) /\ Badged(w)

IInv == Kept(World) /\ spent \in 0 .. MaxHappenings

-----------------------------------------------------------------------------
(* One part of a world replaced *)

LEMMA ClientSet ==
  ASSUME NEW w \in Worlds, NEW c \in Clients
  PROVE  LET v == [w EXCEPT !.client = c] IN
         /\ v \in Worlds /\ v.client = c /\ v.app = w.app /\ v.loop = w.loop
         /\ v.page = w.page /\ v.up = w.up
  BY DEF Worlds

LEMMA AppSet ==
  ASSUME NEW w \in Worlds, NEW a \in Apps
  PROVE  LET v == [w EXCEPT !.app = a] IN
         /\ v \in Worlds /\ v.client = w.client /\ v.app = a /\ v.loop = w.loop
         /\ v.page = w.page /\ v.up = w.up
  BY DEF Worlds

LEMMA LoopSet ==
  ASSUME NEW w \in Worlds, NEW l \in Loops
  PROVE  LET v == [w EXCEPT !.loop = l] IN
         /\ v \in Worlds /\ v.client = w.client /\ v.app = w.app /\ v.loop = l
         /\ v.page = w.page /\ v.up = w.up
  BY DEF Worlds

LEMMA PageSet ==
  ASSUME NEW w \in Worlds, NEW p \in Pages
  PROVE  LET v == [w EXCEPT !.page = p] IN
         /\ v \in Worlds /\ v.client = w.client /\ v.app = w.app /\ v.loop = w.loop
         /\ v.page = p /\ v.up = w.up
  BY DEF Worlds

LEMMA UpSet ==
  ASSUME NEW w \in Worlds, NEW packs \in SUBSET Packs
  PROVE  LET v == [w EXCEPT !.up = packs] IN
         /\ v \in Worlds /\ v.client = w.client /\ v.app = w.app /\ v.loop = w.loop
         /\ v.page = w.page /\ v.up = packs
  BY DEF Worlds

-----------------------------------------------------------------------------
(* Teardowns *)

Forgotten(closing) == {[c EXCEPT !.last = FALSE] : c \in closing}

LEMMA ForgottenIs ==
  ASSUME NEW closing \in SUBSET Closings
  PROVE  /\ Forgotten(closing) \in SUBSET Closings
         /\ {c.pack : c \in Forgotten(closing)} = {c.pack : c \in closing}
         /\ \A c \in Forgotten(closing) :
              ~c.last /\ \E x \in closing : x.then = c.then /\ x.pack = c.pack
         /\ \A x \in closing : \E c \in Forgotten(closing) : x.then = c.then
<1>1. \A x \in closing : LET c == [x EXCEPT !.last = FALSE] IN
        c \in Closings /\ ~c.last /\ c.then = x.then /\ c.pack = x.pack
  BY DEF Closings
<1> QED BY <1>1 DEF Forgotten

LEMMA OrphanedIs ==
  ASSUME NEW closing \in SUBSET Closings
  PROVE  /\ Orphaned(closing) \in SUBSET Closings
         /\ {c.pack : c \in Orphaned(closing)} = {c.pack : c \in closing}
         /\ \A c \in Orphaned(closing) :
              /\ c.then # "unwind"
              /\ \E x \in closing : x.last = c.last /\ (x.then = c.then \/ c.then = "nobody")
         /\ \A x \in closing : x.then # "unwind" => x \in Orphaned(closing)
         /\ (\A x, y \in closing : x.last /\ y.last => x = y) =>
              \A c, d \in Orphaned(closing) : c.last /\ d.last => c = d
<1>1. \A x \in closing : LET c == [x EXCEPT !.then = IF @ = "unwind" THEN "nobody" ELSE @] IN
        /\ c \in Closings /\ c.then # "unwind" /\ c.pack = x.pack /\ c.last = x.last
        /\ c.then = x.then \/ c.then = "nobody"
        /\ x.then # "unwind" => c = x
  BY DEF Closings
<1> DEFINE f[x \in closing] == [x EXCEPT !.then = IF @ = "unwind" THEN "nobody" ELSE @]
<1>2. Orphaned(closing) = {f[x] : x \in closing}
  BY DEF Orphaned
<1>3. \A x \in closing : LET c == f[x] IN
        /\ c \in Closings /\ c.then # "unwind" /\ c.pack = x.pack /\ c.last = x.last
        /\ c.then = x.then \/ c.then = "nobody"
        /\ x.then # "unwind" => c = x
  BY <1>1
<1> HIDE DEF f
<1>4. Orphaned(closing) \in SUBSET Closings
  BY <1>2, <1>3
<1>5. {c.pack : c \in Orphaned(closing)} = {c.pack : c \in closing}
  BY <1>2, <1>3
<1>6. \A c \in Orphaned(closing) :
        /\ c.then # "unwind"
        /\ \E x \in closing : x.last = c.last /\ (x.then = c.then \/ c.then = "nobody")
  BY <1>2, <1>3
<1>7. \A x \in closing : x.then # "unwind" => x \in Orphaned(closing)
  BY <1>2, <1>3
<1>8. (\A x, y \in closing : x.last /\ y.last => x = y) =>
        \A c, d \in Orphaned(closing) : c.last /\ d.last => c = d
  BY <1>2, <1>3
<1> QED BY <1>4, <1>5, <1>6, <1>7, <1>8

-----------------------------------------------------------------------------
(* The client's operators, field by field *)

LEMMA BumpIs ==
  ASSUME NEW w \in Worlds
  PROVE  LET v == Bump(w) IN
         /\ v \in Worlds /\ v.app = w.app /\ v.loop = w.loop /\ v.page = w.page /\ v.up = w.up
         /\ v.client.device = w.client.device /\ v.client.subscribed = w.client.subscribed
         /\ v.client.wired = w.client.wired
         /\ v.client.attempt = [w.client.attempt EXCEPT !.current = FALSE]
         /\ v.client.closing = Forgotten(w.client.closing)
<1> DEFINE att == [w.client.attempt EXCEPT !.current = FALSE]
           cl == Forgotten(w.client.closing)
           c1 == [w.client EXCEPT !.attempt = att, !.closing = cl]
<1>1. w.client \in Clients /\ w.client.attempt \in Attempts
      /\ w.client.closing \in SUBSET Closings
  BY DEF Worlds, Clients
<1>2. att \in Attempts
  BY <1>1 DEF Attempts
<1>3. cl \in SUBSET Closings
  BY <1>1, ForgottenIs
<1>4. Bump(w) = [w EXCEPT !.client = c1]
  BY <1>1 DEF Bump, Forgotten, Worlds, Clients, Attempts
<1> HIDE DEF att, cl
<1>5. /\ c1 \in Clients /\ c1.device = w.client.device /\ c1.subscribed = w.client.subscribed
      /\ c1.wired = w.client.wired /\ c1.attempt = att /\ c1.closing = cl
  BY <1>1, <1>2, <1>3 DEF Clients
<1> HIDE DEF c1
<1> QED BY <1>4, <1>5, ClientSet DEF att, cl

LEMMA LetGoIs ==
  ASSUME NEW w \in Worlds, NEW then \in {"nobody", "owner", "stalled", "unwind"},
         w.client.subscribed => w.client.device \in Packs
  PROVE  LET v == LetGo(w, then) IN
         /\ v \in Worlds /\ v.app = w.app /\ v.loop = w.loop /\ v.page = w.page
         /\ v.client.device = NoPack /\ ~v.client.subscribed /\ ~v.client.wired
         /\ v.client.attempt = [w.client.attempt EXCEPT !.current = FALSE]
         /\ v.client.closing =
              IF w.client.subscribed
              THEN Forgotten(w.client.closing)
                     \cup {[pack |-> w.client.device, last |-> TRUE, then |-> then]}
              ELSE Forgotten(w.client.closing)
         /\ v.up = IF w.client.subscribed THEN w.up ELSE w.up \ {w.client.device}
<1> DEFINE b == Bump(w)
           cg == [b.client EXCEPT !.device = NoPack, !.subscribed = FALSE, !.wired = FALSE]
           cl == b.client.closing
                   \cup {[pack |-> w.client.device, last |-> TRUE, then |-> then]}
           cs == [cg EXCEPT !.closing = cl]
           gone == [b EXCEPT !.client = cg]
           u == b.up \ {w.client.device}
<1>1. /\ b \in Worlds /\ b.app = w.app /\ b.loop = w.loop /\ b.page = w.page /\ b.up = w.up
      /\ b.client.attempt = [w.client.attempt EXCEPT !.current = FALSE]
      /\ b.client.closing = Forgotten(w.client.closing)
  BY BumpIs
<1>2. b.client \in Clients /\ b.up \in SUBSET Packs
  BY <1>1 DEF Worlds
<1>3. /\ cg \in Clients /\ cg.device = NoPack /\ cg.subscribed = FALSE /\ cg.wired = FALSE
      /\ cg.attempt = b.client.attempt /\ cg.closing = b.client.closing
  BY <1>2 DEF Clients, PackOrNone
<1>4. b.client.closing \in SUBSET Closings
  BY <1>2 DEF Clients
<1>5. w.client.subscribed => cl \in SUBSET Closings
  <2>1. w.client.subscribed =>
          [pack |-> w.client.device, last |-> TRUE, then |-> then] \in Closings
    BY DEF Closings
  <2> QED BY <2>1, <1>4
<1> HIDE DEF cl
<1>6. w.client.subscribed =>
        /\ cs \in Clients /\ cs.device = NoPack /\ cs.subscribed = FALSE /\ cs.wired = FALSE
        /\ cs.attempt = b.client.attempt /\ cs.closing = cl
  BY <1>3, <1>5 DEF Clients
<1>7. LetGo(w, then) = IF w.client.subscribed THEN [gone EXCEPT !.client = cs]
                       ELSE [gone EXCEPT !.up = u]
  <2>1. [b EXCEPT !.client.device = NoPack, !.client.subscribed = FALSE,
                  !.client.wired = FALSE] = gone
    BY <1>1, <1>2 DEF Worlds, Clients
  <2>2. gone.client = cg /\ gone.up = b.up /\ gone \in Worlds
    BY <1>1, <1>3, ClientSet
  <2> HIDE DEF gone, cg
  <2>3. [gone EXCEPT !.client.closing = @ \cup {[pack |-> w.client.device, last |-> TRUE,
                                                 then |-> then]}]
          = [gone EXCEPT !.client = cs]
    BY <2>2, <1>3 DEF cl, cs, Worlds, Clients
  <2> DEFINE loosed == [b EXCEPT !.client.device = NoPack, !.client.subscribed = FALSE,
                                 !.client.wired = FALSE]
  <2>4. LetGo(w, then) =
          IF w.client.subscribed
          THEN [loosed EXCEPT !.client.closing = @ \cup {[pack |-> w.client.device, last |-> TRUE,
                                                         then |-> then]}]
          ELSE [loosed EXCEPT !.up = @ \ {w.client.device}]
    BY DEF LetGo
  <2>5. loosed = gone
    BY <2>1
  <2> HIDE DEF loosed, b
  <2> QED BY <2>2, <2>3, <2>4, <2>5
<1>8. gone \in Worlds /\ gone.client = cg /\ gone.app = b.app /\ gone.loop = b.loop
      /\ gone.page = b.page /\ gone.up = b.up
  BY <1>1, <1>3, ClientSet
<1>9. u \in SUBSET Packs
  BY <1>2
<1> HIDE DEF gone, cg, cs, b, u
<1>10. CASE w.client.subscribed
  <2>1. LetGo(w, then) = [gone EXCEPT !.client = cs]
    BY <1>7, <1>10
  <2> QED BY <2>1, <1>1, <1>3, <1>6, <1>8, <1>10, ClientSet DEF cl
<1>11. CASE ~w.client.subscribed
  <2>1. LetGo(w, then) = [gone EXCEPT !.up = u]
    BY <1>7, <1>11
  <2> QED BY <2>1, <1>1, <1>3, <1>8, <1>9, <1>11, UpSet DEF u
<1> QED BY <1>10, <1>11

Heard(l, m, error) ==
  /\ m.running = l.running /\ m.recent = l.recent /\ m.standing = "none"
  /\ IF error \in {"permission-gone", "browser-cannot-rejoin"}
     THEN m.blocker = error /\ m.look = l.look
     ELSE m.look = l.running /\ m.blocker = l.blocker

Errors == {"permission-gone", "browser-cannot-rejoin", "radio", "abort"}

LEMMA FailIs ==
  ASSUME NEW w \in Worlds, NEW error \in Errors
  PROVE  LET v == Fail(w, error) IN
         /\ v \in Worlds /\ v.page = w.page /\ v.up = w.up
         /\ v.client.device = w.client.device /\ v.client.subscribed = w.client.subscribed
         /\ v.client.wired = w.client.wired
         /\ v.client.attempt = NoAttempt
         /\ v.client.closing = Orphaned(w.client.closing)
         /\ v.app.shown = "idle" /\ v.app.waiting = {}
         /\ v.app.armed = w.app.armed /\ v.app.remembered = w.app.remembered
         /\ IF "loop" \in w.app.waiting THEN Heard(w.loop, v.loop, error)
            ELSE v.loop = w.loop
<1> DEFINE cl == Orphaned(w.client.closing)
           c1 == [w.client EXCEPT !.attempt = NoAttempt, !.closing = cl]
           a1 == [w.app EXCEPT !.shown = "idle", !.waiting = {}]
           w1 == [w EXCEPT !.client = c1]
           failed == [w1 EXCEPT !.app = a1]
           l1 == [w.loop EXCEPT !.standing = "none", !.blocker = error]
           l2 == [w.loop EXCEPT !.standing = "none", !.look = w.loop.running]
<1>1. w.client \in Clients /\ w.app \in Apps /\ w.loop \in Loops
      /\ w.client.closing \in SUBSET Closings
  BY DEF Worlds, Clients
<1>2. cl \in SUBSET Closings
  BY <1>1, OrphanedIs
<1>3. NoAttempt \in Attempts
  BY DEF NoAttempt, Attempts, PackOrNone
<1> HIDE DEF cl
<1>4. /\ c1 \in Clients /\ c1.device = w.client.device /\ c1.subscribed = w.client.subscribed
      /\ c1.wired = w.client.wired /\ c1.attempt = NoAttempt /\ c1.closing = cl
  BY <1>1, <1>2, <1>3 DEF Clients
<1>5. /\ a1 \in Apps /\ a1.shown = "idle" /\ a1.waiting = {} /\ a1.armed = w.app.armed
      /\ a1.remembered = w.app.remembered
  BY <1>1 DEF Apps
<1>6. /\ failed \in Worlds /\ failed.client = c1 /\ failed.app = a1
      /\ failed.loop = w.loop /\ failed.page = w.page /\ failed.up = w.up
  <2> HIDE DEF c1, a1
  <2>1. /\ w1 \in Worlds /\ w1.client = c1 /\ w1.loop = w.loop
        /\ w1.page = w.page /\ w1.up = w.up
    BY <1>4, ClientSet
  <2> HIDE DEF w1
  <2> QED BY <2>1, <1>5, AppSet
<1>7. [w EXCEPT !.client.attempt = NoAttempt, !.client.closing = Orphaned(@),
                !.app.shown = "idle", !.app.waiting = {}] = failed
  BY <1>1 DEF cl, Worlds, Clients, Apps
<1> HIDE DEF failed
<1>8. Fail(w, error) =
        IF "loop" \notin w.app.waiting THEN failed
        ELSE IF error \in {"permission-gone", "browser-cannot-rejoin"}
        THEN [failed EXCEPT !.loop = l1] ELSE [failed EXCEPT !.loop = l2]
  <2>1. [failed EXCEPT !.loop.standing = "none", !.loop.blocker = error]
          = [failed EXCEPT !.loop = l1]
    BY <1>6, <1>1 DEF Worlds, Loops
  <2>2. [failed EXCEPT !.loop.standing = "none", !.loop.look = w.loop.running]
          = [failed EXCEPT !.loop = l2]
    BY <1>6, <1>1 DEF Worlds, Loops
  <2> DEFINE raw == [w EXCEPT !.client.attempt = NoAttempt, !.client.closing = Orphaned(@),
                              !.app.shown = "idle", !.app.waiting = {}]
  <2>3. Fail(w, error) =
          IF "loop" \notin w.app.waiting THEN raw
          ELSE IF error \in {"permission-gone", "browser-cannot-rejoin"}
          THEN [raw EXCEPT !.loop.standing = "none", !.loop.blocker = error]
          ELSE [raw EXCEPT !.loop.standing = "none", !.loop.look = w.loop.running]
    BY DEF Fail
  <2>4. raw = failed
    BY <1>7
  <2> HIDE DEF l1, l2, raw
  <2> QED BY <2>1, <2>2, <2>3, <2>4
<1>9. /\ error \in {"permission-gone", "browser-cannot-rejoin"} =>
            l1 \in Loops /\ Heard(w.loop, l1, error)
      /\ error \notin {"permission-gone", "browser-cannot-rejoin"} =>
            l2 \in Loops /\ Heard(w.loop, l2, error)
  BY <1>1 DEF Loops, Heard
<1> HIDE DEF c1, a1, l1, l2
<1>10. CASE "loop" \notin w.app.waiting
  BY <1>10, <1>8, <1>6, <1>4, <1>5 DEF cl
<1>11. CASE "loop" \in w.app.waiting
           /\ error \in {"permission-gone", "browser-cannot-rejoin"}
  <2>1. Fail(w, error) = [failed EXCEPT !.loop = l1]
    BY <1>11, <1>8
  <2> QED BY <2>1, <1>11, <1>9, <1>6, <1>4, <1>5, LoopSet DEF cl
<1>12. CASE "loop" \in w.app.waiting
           /\ error \notin {"permission-gone", "browser-cannot-rejoin"}
  <2>1. Fail(w, error) = [failed EXCEPT !.loop = l2]
    BY <1>12, <1>8
  <2> QED BY <2>1, <1>12, <1>9, <1>6, <1>4, <1>5, LoopSet DEF cl
<1> QED BY <1>10, <1>11, <1>12

-----------------------------------------------------------------------------
(* What wakes the supervisor *)

Stalled(w) == \E c \in w.client.closing : c.then = "stalled" /\ c.last

Want(w) ==
  w.loop.running /\ w.app.armed /\ w.page.adapterOn /\ w.app.remembered # NoPack

Alert(w) == w.loop.standing # "none" \/ w.loop.look \/ w.loop.blocker # "none"

\* Who wants a link has one, or one whose teardown will say it is gone, or will
\* be asked again, or is told why not.
Awake(w) == Want(w) => Alert(w) \/ w.client.wired \/ Stalled(w)

\* What still says live of a link given up on is the teardown that will end it.
Honest(w) ==
  /\ Stalled(w) => /\ w.app.shown = "live" /\ w.client.attempt.stage = "none"
                   /\ \A c \in w.client.closing : c.then # "owner"
  /\ w.client.wired => w.app.shown = "live"

-----------------------------------------------------------------------------
(* The client's operators keep the invariant *)

LEMMA WorldFields ==
  ASSUME NEW w \in Worlds
  PROVE  /\ w.client \in Clients /\ w.app \in Apps /\ w.loop \in Loops /\ w.page \in Pages
         /\ w.up \in SUBSET Packs /\ NoPack \notin w.up
         /\ w.client.attempt \in Attempts /\ w.client.closing \in SUBSET Closings
         /\ w.client.device \in PackOrNone
         /\ w.client.subscribed \in BOOLEAN /\ w.client.wired \in BOOLEAN
  BY PackLinkAssumption DEF Worlds, Clients

LEMMA Superseded ==
  ASSUME NEW a \in Attempts
  PROVE  LET b == [a EXCEPT !.current = FALSE] IN
         /\ b \in Attempts /\ b.stage = a.stage /\ b.id = a.id /\ b.target = a.target
         /\ b.current = FALSE /\ b.budget = a.budget /\ b.patience = a.patience
         /\ b.aborted = a.aborted /\ b.keeper = a.keeper
  BY DEF Attempts

LEMMA Idle ==
  /\ NoAttempt \in Attempts /\ NoAttempt.stage = "none" /\ NoAttempt.id = NoPack
  /\ NoAttempt.target = NoPack /\ NoAttempt.current = FALSE /\ NoAttempt.budget = "none"
  /\ NoAttempt.aborted = FALSE /\ NoAttempt.keeper = "press"
  /\ [NoAttempt EXCEPT !.current = FALSE] = NoAttempt
<1>1. NoAttempt \in Attempts
  BY DEF NoAttempt, Attempts, PackOrNone
<1>2. \A a \in Attempts : a.current = FALSE => [a EXCEPT !.current = FALSE] = a
  BY DEF Attempts
<1>3. /\ NoAttempt.stage = "none" /\ NoAttempt.id = NoPack
      /\ NoAttempt.target = NoPack /\ NoAttempt.current = FALSE /\ NoAttempt.budget = "none"
      /\ NoAttempt.aborted = FALSE /\ NoAttempt.keeper = "press"
  BY DEF NoAttempt
<1> QED BY <1>1, <1>2, <1>3

LEMMA LetGoKeeps ==
  ASSUME NEW w, Sound(w), NEW then \in {"nobody", "owner", "stalled", "unwind"},
         then = "unwind" => ~w.client.subscribed
  PROVE  LET v == LetGo(w, then) IN
         /\ Sound(v) /\ v.app = w.app /\ v.loop = w.loop /\ v.page = w.page
         /\ v.client.device = NoPack /\ ~v.client.subscribed /\ ~v.client.wired
         /\ v.client.attempt = [w.client.attempt EXCEPT !.current = FALSE]
         /\ Stalled(v) <=> w.client.subscribed /\ then = "stalled"
         /\ w.client.subscribed /\ then \in {"owner", "stalled"} => Lit(v)
         /\ \A c \in v.client.closing : c.then = "owner" =>
              \/ w.client.subscribed /\ then = "owner"
              \/ \E x \in w.client.closing : x.then = "owner"
<1> DEFINE v == LetGo(w, then)
           new == [pack |-> w.client.device, last |-> TRUE, then |-> then]
<1>1. w \in Worlds /\ Handled(w) /\ Loose(w) /\ Keyed(w)
  BY DEF Sound
<1>2. w.client.subscribed => w.client.device \in Packs
  BY <1>1, WorldFields DEF Handled
<1>3. /\ v \in Worlds /\ v.app = w.app /\ v.loop = w.loop /\ v.page = w.page
      /\ v.client.device = NoPack /\ ~v.client.subscribed /\ ~v.client.wired
      /\ v.client.attempt = [w.client.attempt EXCEPT !.current = FALSE]
      /\ v.client.closing = IF w.client.subscribed
                            THEN Forgotten(w.client.closing) \cup {new}
                            ELSE Forgotten(w.client.closing)
      /\ v.up = IF w.client.subscribed THEN w.up ELSE w.up \ {w.client.device}
  BY <1>1, <1>2, LetGoIs
<1> HIDE DEF v
<1>4. /\ v.client.attempt.stage = w.client.attempt.stage
      /\ v.client.attempt.id = w.client.attempt.id
      /\ v.client.attempt.target = w.client.attempt.target
      /\ v.client.attempt.current = FALSE
      /\ v.client.attempt.budget = w.client.attempt.budget
      /\ v.client.attempt.aborted = w.client.attempt.aborted
      /\ v.client.attempt.keeper = w.client.attempt.keeper
  BY <1>1, <1>3, WorldFields, Superseded
<1>5. Handled(v)
  BY <1>3, <1>4 DEF Handled
<1>6. /\ {c.pack : c \in Forgotten(w.client.closing)} = {c.pack : c \in w.client.closing}
      /\ \A c \in Forgotten(w.client.closing) :
           ~c.last /\ \E x \in w.client.closing : x.then = c.then /\ x.pack = c.pack
  BY <1>1, WorldFields, ForgottenIs
<1>7. new.pack = w.client.device /\ new.last = TRUE /\ new.then = then
  OBVIOUS
<1> HIDE DEF new
<1>8. Let(w) \subseteq Let(v)
  BY <1>3, <1>6 DEF Let
<1>9. w.client.subscribed => w.client.device \in Let(v)
  BY <1>3, <1>7 DEF Let
<1>10. v.up \subseteq Let(v) \cup {v.client.device}
  BY <1>1, <1>3, <1>8, <1>9 DEF Loose
<1>11. \A c \in v.client.closing : c.then = "unwind" => v.client.attempt.stage = "unwinding"
  BY <1>1, <1>3, <1>4, <1>6, <1>7 DEF Loose
<1>12. Loose(v)
  <2>1. \A c, d \in v.client.closing : c.last /\ d.last => c = d
    BY <1>3, <1>6
  <2> QED BY <2>1, <1>10, <1>11, <1>3, <1>4 DEF Loose
<1>13. Keyed(v)
  <2>1. w.client.attempt = NoAttempt => v.client.attempt = NoAttempt
    BY <1>3, Idle
  <2> QED BY <1>1, <1>4, <2>1 DEF Keyed
<1>14. Sound(v)
  BY <1>3, <1>5, <1>12, <1>13 DEF Sound
<1>15. Stalled(v) <=> w.client.subscribed /\ then = "stalled"
  BY <1>3, <1>6, <1>7 DEF Stalled
<1>16. w.client.subscribed /\ then \in {"owner", "stalled"} => Lit(v)
  BY <1>3, <1>7 DEF Lit, Ending
<1>17. \A c \in v.client.closing : c.then = "owner" =>
         \/ w.client.subscribed /\ then = "owner"
         \/ \E x \in w.client.closing : x.then = "owner"
  BY <1>3, <1>6, <1>7
<1> QED BY <1>3, <1>14, <1>15, <1>16, <1>17 DEF v

LEMMA FailKeeps ==
  ASSUME NEW w, Sound(w), NEW error \in Errors,
         w.client.attempt.stage # "none", ~w.client.attempt.current
  PROVE  LET v == Fail(w, error) IN
         /\ Kept(v) /\ v.page = w.page /\ v.up = w.up
         /\ v.client.device = NoPack /\ ~v.client.wired /\ ~v.client.subscribed
         /\ v.client.attempt = NoAttempt
         /\ v.app.shown = "idle" /\ v.app.armed = w.app.armed
         /\ v.app.remembered = w.app.remembered
         /\ v.loop.running = w.loop.running /\ v.loop.recent = w.loop.recent
         /\ "loop" \notin w.app.waiting => v.loop = w.loop
         /\ w.loop.running /\ Alert(w) => Alert(v)
         /\ Stalled(v) => Stalled(w)
<1> DEFINE v == Fail(w, error)
<1>1. w \in Worlds /\ Handled(w) /\ Loose(w) /\ Keyed(w)
  BY DEF Sound
<1>2. /\ v \in Worlds /\ v.page = w.page /\ v.up = w.up
      /\ v.client.device = w.client.device /\ v.client.subscribed = w.client.subscribed
      /\ v.client.wired = w.client.wired
      /\ v.client.attempt = NoAttempt
      /\ v.client.closing = Orphaned(w.client.closing)
      /\ v.app.shown = "idle" /\ v.app.waiting = {}
      /\ v.app.armed = w.app.armed /\ v.app.remembered = w.app.remembered
      /\ IF "loop" \in w.app.waiting THEN Heard(w.loop, v.loop, error)
         ELSE v.loop = w.loop
  BY <1>1, FailIs
<1> HIDE DEF v
<1>3. w.client.device = NoPack /\ ~w.client.wired /\ ~w.client.subscribed
  BY <1>1 DEF Handled
<1>4. Handled(v)
  BY <1>2, <1>3, Idle DEF Handled
<1>5. /\ {c.pack : c \in Orphaned(w.client.closing)} = {c.pack : c \in w.client.closing}
      /\ \A c \in Orphaned(w.client.closing) :
           /\ c.then # "unwind"
           /\ \E x \in w.client.closing :
                x.last = c.last /\ (x.then = c.then \/ c.then = "nobody")
      /\ (\A x, y \in w.client.closing : x.last /\ y.last => x = y) =>
           \A c, d \in Orphaned(w.client.closing) : c.last /\ d.last => c = d
  BY <1>1, WorldFields, OrphanedIs
<1>6. Loose(v)
  <2>1. v.up \subseteq Let(v) \cup {v.client.device}
    BY <1>1, <1>2, <1>5 DEF Loose, Let
  <2> QED BY <2>1, <1>1, <1>2, <1>3, <1>5, Idle DEF Loose
<1>7. Keyed(v) /\ Bounded(v) /\ Badged(v)
  BY <1>2, Idle DEF Keyed, Bounded, Badged
<1>8. Kept(v)
  BY <1>2, <1>4, <1>6, <1>7 DEF Kept, Sound
<1>9. v.loop.running = w.loop.running /\ v.loop.recent = w.loop.recent
  BY <1>2 DEF Heard
<1>10. w.loop.running /\ Alert(w) => Alert(v)
  BY <1>2 DEF Heard, Alert
<1>11. Stalled(v) => Stalled(w)
  BY <1>2, <1>5 DEF Stalled
<1> QED BY <1>2, <1>3, <1>8, <1>9, <1>10, <1>11 DEF v

LEMMA AttachFailsKeeps ==
  ASSUME NEW w, Sound(w), Bounded(w), NEW error \in Errors,
         w.client.attempt.stage \in Attaching, ~w.client.attempt.current,
         w.app.shown # "live"
  PROVE  LET v == AttachFails(w, error) IN
         /\ Kept(v) /\ v.page = w.page /\ v.up = w.up
         /\ ~v.client.wired /\ v.app.shown # "live"
         /\ v.app.armed = w.app.armed /\ v.app.remembered = w.app.remembered
         /\ v.loop.running = w.loop.running
         /\ w.loop.running /\ Alert(w) => Alert(v)
         /\ Stalled(v) => Stalled(w)
<1>1. w \in Worlds /\ Handled(w) /\ Loose(w) /\ Keyed(w)
  BY DEF Sound
<1>2. w.client.attempt.stage # "none"
  BY DEF Attaching, Handshaking
<1>3. CASE w.client.attempt.budget = "probe" /\ error = "radio"
  <2> DEFINE a1 == [w.client.attempt EXCEPT !.stage = "sighting", !.budget = "none"]
             cl == Orphaned(w.client.closing)
             c1 == [w.client EXCEPT !.attempt = a1, !.closing = cl]
             v == [w EXCEPT !.client = c1]
  <2>1. AttachFails(w, error) = v
    <3>1. [w EXCEPT !.client.attempt.stage = "sighting", !.client.attempt.budget = "none",
                    !.client.closing = Orphaned(@)] = v
      BY <1>1 DEF Worlds, Clients, Attempts
    <3> HIDE DEF v
    <3> QED BY <1>3, <3>1 DEF AttachFails
  <2>2. cl \in SUBSET Closings
    BY <1>1, WorldFields, OrphanedIs
  <2>3. /\ a1 \in Attempts /\ a1.stage = "sighting" /\ a1.budget = "none"
        /\ a1.id = w.client.attempt.id /\ a1.target = w.client.attempt.target
        /\ a1.current = w.client.attempt.current /\ a1.aborted = w.client.attempt.aborted
        /\ a1.keeper = w.client.attempt.keeper
    BY <1>1, WorldFields DEF Attempts
  <2> HIDE DEF a1, cl
  <2>4. /\ c1 \in Clients /\ c1.device = w.client.device /\ c1.wired = w.client.wired
        /\ c1.subscribed = w.client.subscribed /\ c1.attempt = a1 /\ c1.closing = cl
    BY <1>1, WorldFields, <2>2, <2>3 DEF Clients
  <2> HIDE DEF c1
  <2>5. /\ v \in Worlds /\ v.client = c1 /\ v.app = w.app /\ v.loop = w.loop
        /\ v.page = w.page /\ v.up = w.up
    BY <1>1, <2>4, ClientSet
  <2> HIDE DEF v
  <2>6. w.client.device = NoPack /\ ~w.client.wired /\ ~w.client.subscribed
    BY <1>1, <1>2 DEF Handled
  <2>7. Handled(v)
    BY <2>3, <2>4, <2>5, <2>6 DEF Handled
  <2>8. /\ {c.pack : c \in cl} = {c.pack : c \in w.client.closing}
        /\ \A c \in cl :
             /\ c.then # "unwind"
             /\ \E x \in w.client.closing :
                  x.last = c.last /\ (x.then = c.then \/ c.then = "nobody")
        /\ (\A x, y \in w.client.closing : x.last /\ y.last => x = y) =>
             \A c, d \in cl : c.last /\ d.last => c = d
    BY <1>1, WorldFields, OrphanedIs DEF cl
  <2>9. Loose(v)
    <3>1. v.up \subseteq Let(v) \cup {v.client.device}
      BY <1>1, <2>4, <2>5, <2>8 DEF Loose, Let
    <3> QED BY <3>1, <1>1, <2>3, <2>4, <2>5, <2>6, <2>8 DEF Loose
  <2>10. Keyed(v)
    BY <1>1, <1>2, <1>3, <2>3, <2>4, <2>5 DEF Keyed, Attaching, Handshaking
  <2>11. Bounded(v)
    BY <1>1, <1>2, <1>3, <2>3, <2>4, <2>5 DEF Keyed, Bounded, Aborted, Attaching, Handshaking
  <2>12. Badged(v)
    BY <2>5 DEF Badged
  <2>13. Kept(v)
    BY <2>5, <2>7, <2>9, <2>10, <2>11, <2>12 DEF Kept, Sound
  <2>14. Stalled(v) => Stalled(w)
    BY <2>4, <2>5, <2>8 DEF Stalled
  <2>15. Alert(w) => Alert(v)
    BY <2>5 DEF Alert
  <2> QED BY <2>1, <2>4, <2>5, <2>6, <2>13, <2>14, <2>15
<1>4. CASE ~(w.client.attempt.budget = "probe" /\ error = "radio")
  <2>1. AttachFails(w, error) = Fail(w, error)
    BY <1>4 DEF AttachFails
  <2> QED BY <2>1, <1>2, FailKeeps
<1> QED BY <1>3, <1>4

\* A world that differs only in what the invariant does not look at.
LEMMA KeptAgain ==
  ASSUME NEW w, Kept(w), NEW v \in Worlds, v.client = w.client, v.up = w.up,
         v.app.remembered = w.app.remembered,
         w.loop.standing # "none" => v.loop.standing # "none",
         v.app.shown = "live" => Lit(w),
         w.client.attempt.stage # "none" => v.app.shown # "live"
  PROVE  Kept(v)
<1>1. Handled(v)
  BY DEF Kept, Sound, Handled
<1>2. Loose(v)
  BY DEF Kept, Sound, Loose, Let
<1>3. Keyed(v)
  BY DEF Kept, Sound, Keyed
<1>4. Bounded(v)
  BY DEF Kept, Bounded, Aborted
<1>5. Badged(v)
  BY DEF Kept, Badged, Lit
<1> QED BY <1>1, <1>2, <1>3, <1>4, <1>5 DEF Kept, Sound

LEMMA AbortKeeps ==
  ASSUME NEW w, Sound(w), Badged(w), w.client.attempt.keeper = "loop"
  PROVE  LET v == Abort(w) IN
         /\ Kept(v) /\ v.page = w.page
         /\ w.client.attempt.stage # "none" /\ ~w.client.wired /\ ~v.client.wired
         /\ v.client.attempt.stage = "none" \/ (Aborted(v) /\ v.loop = w.loop)
         /\ v.app.armed = w.app.armed /\ v.app.remembered = w.app.remembered
         /\ v.app.shown \in {w.app.shown, "idle"}
         /\ v.loop.running = w.loop.running /\ v.loop.recent = w.loop.recent
         /\ "loop" \notin w.app.waiting => v.loop = w.loop
         /\ w.loop.running /\ Alert(w) => Alert(v)
         /\ Stalled(v) => Stalled(w)
<1>1. w \in Worlds /\ Handled(w) /\ Loose(w) /\ Keyed(w)
  BY DEF Sound
<1>2. w.client.attempt.id # NoPack /\ w.client.attempt.stage # "none"
      /\ w.client.attempt.stage # "choosing"
  BY <1>1, Idle DEF Keyed
<1>3. ~w.client.wired
  BY <1>1, <1>2, WorldFields DEF Handled
<1>4. CASE w.client.attempt.stage \in Attaching
  <2> DEFINE g == LetGo(w, "nobody")
  <2>1. /\ Sound(g) /\ g.app = w.app /\ g.loop = w.loop /\ g.page = w.page
        /\ g.client.attempt = [w.client.attempt EXCEPT !.current = FALSE]
        /\ ~Stalled(g)
    BY LetGoKeeps
  <2>2. g.client.attempt.stage = w.client.attempt.stage /\ ~g.client.attempt.current
    BY <2>1, <1>1, WorldFields, Superseded
  <2>3. Abort(w) = Fail(g, "abort")
    BY <1>4 DEF Abort
  <2>4. Alert(g) <=> Alert(w)
    BY <2>1 DEF Alert
  <2>5. "abort" \in Errors
    BY DEF Errors
  <2> HIDE DEF g
  <2> DEFINE v == Fail(g, "abort")
  <2>6. /\ Kept(v) /\ v.page = g.page /\ v.client.attempt = NoAttempt /\ ~v.client.wired
        /\ v.app.shown = "idle" /\ v.app.armed = g.app.armed
        /\ v.app.remembered = g.app.remembered
        /\ v.loop.running = g.loop.running /\ v.loop.recent = g.loop.recent
        /\ "loop" \notin g.app.waiting => v.loop = g.loop
        /\ g.loop.running /\ Alert(g) => Alert(v)
        /\ Stalled(v) => Stalled(g)
    <3>1. Sound(g) /\ g.client.attempt.stage # "none" /\ ~g.client.attempt.current
      BY <2>1, <2>2, <1>2
    <3> HIDE DEF v
    <3>2. LET u == Fail(g, "abort") IN
          /\ Kept(u) /\ u.page = g.page /\ u.client.attempt = NoAttempt /\ ~u.client.wired
          /\ u.app.shown = "idle" /\ u.app.armed = g.app.armed
          /\ u.app.remembered = g.app.remembered
          /\ u.loop.running = g.loop.running /\ u.loop.recent = g.loop.recent
          /\ "loop" \notin g.app.waiting => u.loop = g.loop
          /\ g.loop.running /\ Alert(g) => Alert(u)
          /\ Stalled(u) => Stalled(g)
      BY <3>1, <2>5, FailKeeps
    <3> QED BY <3>2 DEF v
  <2> HIDE DEF v
  <2> QED BY <2>1, <2>3, <2>4, <2>6, <1>2, <1>3, Idle DEF v
<1>5. CASE w.client.attempt.stage = "sighting"
  <2>1. Abort(w) = Fail(w, "abort")
    BY <1>5 DEF Abort, Attaching, Handshaking
  <2>2. ~w.client.attempt.current
    BY <1>1, <1>5 DEF Handled, Handshaking
  <2>3. "abort" \in Errors
    BY DEF Errors
  <2> QED BY <2>1, <2>2, <2>3, <1>2, <1>3, FailKeeps, Idle
<1>6. CASE w.client.attempt.stage \notin Attaching \cup {"sighting"}
  <2> DEFINE a1 == [w.client.attempt EXCEPT !.aborted = TRUE]
             c1 == [w.client EXCEPT !.attempt = a1]
             v == [w EXCEPT !.client = c1]
  <2>1. w.client.attempt.stage = "listing"
    BY <1>1, <1>2, <1>6, WorldFields DEF Attempts
  <2>2. Abort(w) = v
    <3>1. [w EXCEPT !.client.attempt.aborted = TRUE] = v
      BY <1>1 DEF Worlds, Clients, Attempts
    <3> HIDE DEF v
    <3> QED BY <3>1, <1>6 DEF Abort
  <2>3. /\ a1 \in Attempts /\ a1.stage = w.client.attempt.stage
        /\ a1.budget = w.client.attempt.budget
        /\ a1.id = w.client.attempt.id /\ a1.target = w.client.attempt.target
        /\ a1.current = w.client.attempt.current /\ a1.aborted = TRUE
        /\ a1.keeper = w.client.attempt.keeper
    BY <1>1, WorldFields DEF Attempts
  <2> HIDE DEF a1
  <2>4. /\ c1 \in Clients /\ c1.device = w.client.device /\ c1.wired = w.client.wired
        /\ c1.subscribed = w.client.subscribed /\ c1.attempt = a1
        /\ c1.closing = w.client.closing
    BY <1>1, WorldFields, <2>3 DEF Clients
  <2> HIDE DEF c1
  <2>5. /\ v \in Worlds /\ v.client = c1 /\ v.app = w.app /\ v.loop = w.loop
        /\ v.page = w.page /\ v.up = w.up
    BY <1>1, <2>4, ClientSet
  <2> HIDE DEF v
  <2>6. Handled(v)
    BY <1>1, <2>3, <2>4, <2>5 DEF Handled
  <2>7. Loose(v)
    BY <1>1, <2>3, <2>4, <2>5 DEF Loose, Let
  <2>8. Keyed(v)
    BY <1>1, <2>1, <2>3, <2>4, <2>5 DEF Keyed
  <2>9. Aborted(v)
    BY <2>1, <2>3, <2>4, <2>5 DEF Aborted
  <2>10. Bounded(v)
    BY <2>9 DEF Bounded
  <2>11. Badged(v)
    BY <2>3, <2>4, <2>5, <1>2 DEF Badged
  <2>12. Kept(v)
    BY <2>5, <2>6, <2>7, <2>8, <2>10, <2>11 DEF Kept, Sound
  <2>13. Stalled(v) => Stalled(w)
    BY <2>4, <2>5 DEF Stalled
  <2>14. Alert(w) => Alert(v)
    BY <2>5 DEF Alert
  <2> QED BY <1>2, <1>3, <2>2, <2>4, <2>5, <2>9, <2>12, <2>13, <2>14
<1> QED BY <1>4, <1>5, <1>6

LEMMA AbortNot ==
  ASSUME NEW w, w.client.attempt.keeper # "loop"
  PROVE  Abort(w) = w
  BY DEF Abort

LEMMA StandDownKeeps ==
  ASSUME NEW w, Kept(w)
  PROVE  LET v == StandDown(w) IN
         /\ Kept(v) /\ v.page = w.page
         /\ v.loop.standing = "none" /\ v.loop.look = FALSE
         /\ v.loop.running = w.loop.running
         /\ v.app.armed = w.app.armed /\ v.app.remembered = w.app.remembered
         /\ v.app.shown \in {w.app.shown, "idle"}
         /\ w.client.attempt.stage = "none" =>
              v.client = w.client /\ v.up = w.up /\ v.app.shown = w.app.shown
         /\ Honest(w) => Honest(v)
<1> DEFINE l1 == [w.loop EXCEPT !.look = FALSE, !.standing = "none"]
           heard == {IF x = "loop" THEN "stale" ELSE x : x \in w.app.waiting}
           a1 == [w.app EXCEPT !.waiting = heard]
           wl == [w EXCEPT !.loop = l1]
           s == [wl EXCEPT !.app = a1]
           k == Abort(s)
           att == [k.client.attempt EXCEPT !.keeper = IF @ = "loop" THEN "stale" ELSE @]
           c1 == [k.client EXCEPT !.attempt = att]
           v == [k EXCEPT !.client = c1]
<1>1. w \in Worlds /\ Handled(w) /\ Loose(w) /\ Keyed(w) /\ Bounded(w) /\ Badged(w)
  BY DEF Kept, Sound
<1>2. w.app.waiting \in SUBSET {"press", "loop", "stale"}
  BY <1>1, WorldFields DEF Apps
<1>3. heard \in SUBSET {"press", "loop", "stale"} /\ "loop" \notin heard
  BY <1>2
<1> HIDE DEF heard
<1>4. /\ a1 \in Apps /\ a1.waiting = heard /\ a1.shown = w.app.shown
      /\ a1.armed = w.app.armed /\ a1.remembered = w.app.remembered
  BY <1>1, <1>3, WorldFields DEF Apps
<1>5. /\ l1 \in Loops /\ l1.look = FALSE /\ l1.standing = "none"
      /\ l1.running = w.loop.running
  BY <1>1, WorldFields DEF Loops
<1>6. [w EXCEPT !.loop.look = FALSE, !.loop.standing = "none",
                !.app.waiting = {IF x = "loop" THEN "stale" ELSE x : x \in @}] = s
  BY <1>1 DEF heard, Worlds, Loops, Apps
<1> HIDE DEF a1, l1
<1>7. /\ s \in Worlds /\ s.client = w.client /\ s.app = a1 /\ s.loop = l1
      /\ s.page = w.page /\ s.up = w.up
  <2>1. /\ wl \in Worlds /\ wl.client = w.client /\ wl.loop = l1
        /\ wl.page = w.page /\ wl.up = w.up
    BY <1>1, <1>5, LoopSet
  <2> HIDE DEF wl
  <2> QED BY <2>1, <1>4, AppSet
<1> HIDE DEF s
<1>8. Sound(s)
  BY <1>1, <1>4, <1>7 DEF Sound, Handled, Loose, Let, Keyed
<1>9. Badged(s)
  BY <1>1, <1>4, <1>7 DEF Badged, Lit
<1>10. /\ Sound(k) /\ Badged(k) /\ k.page = w.page /\ k.loop = l1
       /\ k.app.armed = w.app.armed /\ k.app.remembered = w.app.remembered
       /\ k.app.shown \in {w.app.shown, "idle"}
       /\ k.client.attempt.stage = "none" \/ k.client.attempt.id = NoPack \/ Aborted(k)
       /\ w.client.attempt.stage = "none" => k = s
       /\ w.client.attempt.stage # "none" => ~k.client.wired
       /\ Stalled(k) => Stalled(w)
  <2>1. CASE w.client.attempt.keeper # "loop"
    <3>1. k = s
      BY <2>1, <1>7, AbortNot
    <3>2. w.client.attempt.stage # "none" => ~w.client.wired
      BY <1>1, WorldFields DEF Handled
    <3> QED BY <2>1, <3>1, <3>2, <1>1, <1>4, <1>7, <1>8, <1>9
            DEF Bounded, Aborted, Stalled
  <2>2. CASE w.client.attempt.keeper = "loop"
    <3>1. s.client.attempt.keeper = "loop" /\ "loop" \notin s.app.waiting
      BY <2>2, <1>3, <1>4, <1>7
    <3>2. /\ Kept(k) /\ k.page = s.page
          /\ s.client.attempt.stage # "none" /\ ~k.client.wired
          /\ k.client.attempt.stage = "none" \/ Aborted(k)
          /\ k.app.armed = s.app.armed /\ k.app.remembered = s.app.remembered
          /\ k.app.shown \in {s.app.shown, "idle"}
          /\ k.loop = s.loop
          /\ Stalled(k) => Stalled(s)
      BY <3>1, <1>8, <1>9, AbortKeeps
    <3>3. Stalled(s) <=> Stalled(w)
      BY <1>7 DEF Stalled
    <3> QED BY <3>2, <3>3, <1>4, <1>7 DEF Kept
  <2> QED BY <2>1, <2>2
<1>11. StandDown(w) = v
  <2> DEFINE raw == [w EXCEPT !.loop.look = FALSE, !.loop.standing = "none",
                       !.app.waiting = {IF x = "loop" THEN "stale" ELSE x : x \in @}]
  <2>1. StandDown(w) = [Abort(raw) EXCEPT !.client.attempt.keeper =
                                            IF @ = "loop" THEN "stale" ELSE @]
    BY DEF StandDown
  <2>2. raw = s
    BY <1>6
  <2>3. k \in Worlds
    BY <1>10 DEF Sound
  <2> HIDE DEF raw
  <2>4. StandDown(w) = [k EXCEPT !.client.attempt.keeper = IF @ = "loop" THEN "stale" ELSE @]
    BY <2>1, <2>2
  <2> HIDE DEF k
  <2>5. [k EXCEPT !.client.attempt.keeper = IF @ = "loop" THEN "stale" ELSE @] = v
    BY <2>3 DEF Worlds, Clients, Attempts
  <2> QED BY <2>4, <2>5
<1> HIDE DEF k
<1>12. k \in Worlds
  BY <1>10 DEF Sound
<1>13. /\ att \in Attempts /\ att.stage = k.client.attempt.stage
       /\ att.budget = k.client.attempt.budget
       /\ att.id = k.client.attempt.id /\ att.target = k.client.attempt.target
       /\ att.current = k.client.attempt.current /\ att.aborted = k.client.attempt.aborted
       /\ att.keeper # "loop"
       /\ k.client.attempt.keeper # "loop" => att = k.client.attempt
  BY <1>12, WorldFields DEF Attempts
<1> HIDE DEF att
<1>14. /\ c1 \in Clients /\ c1.device = k.client.device /\ c1.wired = k.client.wired
       /\ c1.subscribed = k.client.subscribed /\ c1.attempt = att
       /\ c1.closing = k.client.closing
       /\ att = k.client.attempt => c1 = k.client
  BY <1>12, WorldFields, <1>13 DEF Clients
<1> HIDE DEF c1
<1>15. /\ v \in Worlds /\ v.client = c1 /\ v.app = k.app /\ v.loop = k.loop
       /\ v.page = k.page /\ v.up = k.up
  BY <1>12, <1>14, ClientSet
<1> HIDE DEF v
<1>16. Handled(v)
  BY <1>10, <1>13, <1>14, <1>15 DEF Sound, Handled
<1>17. Loose(v)
  BY <1>10, <1>13, <1>14, <1>15 DEF Sound, Loose, Let
<1>18. Keyed(v)
  <2>1. k.client.attempt.stage = "none" => att = k.client.attempt
    BY <1>10, <1>13, Idle DEF Sound, Keyed
  <2> QED BY <2>1, <1>10, <1>13, <1>14, <1>15 DEF Sound, Keyed
<1>19. Bounded(v)
  BY <1>10, <1>13, <1>14, <1>15 DEF Bounded, Aborted
<1>20. Badged(v)
  BY <1>10, <1>13, <1>14, <1>15 DEF Badged, Lit
<1>21. Kept(v)
  BY <1>15, <1>16, <1>17, <1>18, <1>19, <1>20 DEF Kept, Sound
<1>22. w.client.attempt.stage = "none" =>
         v.client = w.client /\ v.up = w.up /\ v.app.shown = w.app.shown
  <2> SUFFICES ASSUME w.client.attempt.stage = "none"
               PROVE  v.client = w.client /\ v.up = w.up /\ v.app.shown = w.app.shown
    OBVIOUS
  <2>1. k = s
    BY <1>10
  <2>2. k.client.attempt.keeper # "loop"
    BY <2>1, <1>1, <1>7, Idle DEF Keyed
  <2> QED BY <2>1, <2>2, <1>4, <1>7, <1>13, <1>14, <1>15
<1>23. Stalled(v) => Stalled(w)
  BY <1>10, <1>14, <1>15 DEF Stalled
<1>24. Honest(w) => Honest(v)
  <2>1. CASE w.client.attempt.stage = "none"
    BY <2>1, <1>22 DEF Honest, Stalled
  <2>2. CASE w.client.attempt.stage # "none"
    BY <2>2, <1>10, <1>14, <1>15, <1>23 DEF Honest
  <2> QED BY <2>1, <2>2
<1> QED BY <1>5, <1>10, <1>11, <1>15, <1>21, <1>22, <1>24

LEMMA ReportBlockerIs ==
  ASSUME NEW w \in Worlds
  PROVE  LET v == ReportBlocker(w) IN
         /\ v \in Worlds /\ v.client = w.client /\ v.app = w.app
         /\ v.page = w.page /\ v.up = w.up
         /\ v.loop.running = w.loop.running /\ v.loop.standing = w.loop.standing
         /\ v.loop.look = w.loop.look /\ v.loop.recent = w.loop.recent
<1> DEFINE b == IF ~w.app.armed \/ w.app.remembered = NoPack \/ LinkBusy(w) THEN "none"
                ELSE IF ~w.page.adapterOn THEN "radio-off"
                ELSE IF w.loop.blocker = "permission-gone" THEN w.loop.blocker ELSE "none"
           l1 == [w.loop EXCEPT !.blocker = b]
<1>1. w.loop \in Loops
  BY WorldFields
<1>2. b \in {"none", "permission-gone", "browser-cannot-rejoin", "radio-off"}
  OBVIOUS
<1>3. ReportBlocker(w) = [w EXCEPT !.loop = l1]
  BY <1>1 DEF ReportBlocker, Worlds, Loops
<1> HIDE DEF b
<1>4. /\ l1 \in Loops /\ l1.running = w.loop.running /\ l1.standing = w.loop.standing
      /\ l1.look = w.loop.look /\ l1.recent = w.loop.recent
  BY <1>1, <1>2 DEF Loops
<1> HIDE DEF l1
<1> QED BY <1>3, <1>4, LoopSet

\* What look and tryNow ask of before they decide: the pending look dropped, the
\* blocker made current.
Asked(w) == ReportBlocker([w EXCEPT !.loop.look = FALSE])

LEMMA AskedKeeps ==
  ASSUME NEW w, Kept(w)
  PROVE  LET v == Asked(w) IN
         /\ Kept(v) /\ v.client = w.client /\ v.app = w.app
         /\ v.page = w.page /\ v.up = w.up
         /\ v.loop.running = w.loop.running /\ v.loop.standing = w.loop.standing
         /\ Honest(w) => Honest(v)
<1> DEFINE l1 == [w.loop EXCEPT !.look = FALSE]
           u == [w EXCEPT !.loop = l1]
<1>1. w \in Worlds /\ w.loop \in Loops
  BY WorldFields DEF Kept, Sound
<1>2. [w EXCEPT !.loop.look = FALSE] = u
  BY <1>1 DEF Worlds, Loops
<1>3. l1 \in Loops /\ l1.running = w.loop.running /\ l1.standing = w.loop.standing
  BY <1>1 DEF Loops
<1> HIDE DEF l1
<1>4. /\ u \in Worlds /\ u.client = w.client /\ u.app = w.app /\ u.loop = l1
      /\ u.page = w.page /\ u.up = w.up
  BY <1>1, <1>3, LoopSet
<1> HIDE DEF u
<1> DEFINE v == ReportBlocker(u)
<1>5. Asked(w) = v
  BY <1>2 DEF Asked
<1>6. /\ v \in Worlds /\ v.client = w.client /\ v.app = w.app
      /\ v.page = w.page /\ v.up = w.up
      /\ v.loop.running = w.loop.running /\ v.loop.standing = w.loop.standing
  BY <1>3, <1>4, ReportBlockerIs
<1> HIDE DEF v
<1>7. Kept(v)
  <2>1. w.app.shown = "live" => Lit(w)
    BY DEF Kept, Badged
  <2>2. w.client.attempt.stage # "none" => w.app.shown # "live"
    BY DEF Kept, Badged
  <2> QED BY <2>1, <2>2, <1>6, KeptAgain
<1>8. Honest(w) => Honest(v)
  BY <1>6 DEF Honest, Stalled
<1> QED BY <1>5, <1>6, <1>7, <1>8

LEMMA LoopFailsIs ==
  ASSUME NEW w \in Worlds
  PROVE  LET v == LoopFails(w) IN
         /\ v \in Worlds /\ v.client = w.client /\ v.page = w.page /\ v.up = w.up
         /\ v.app.shown = "idle" /\ v.app.armed = w.app.armed
         /\ v.app.remembered = w.app.remembered
         /\ v.loop.running = w.loop.running /\ v.loop.standing = "none"
         /\ v.loop.look = w.loop.running /\ v.loop.blocker = w.loop.blocker
<1> DEFINE a1 == [w.app EXCEPT !.shown = "idle", !.waiting = @ \ {"loop"}]
           l1 == [w.loop EXCEPT !.standing = "none", !.look = w.loop.running]
           wa == [w EXCEPT !.app = a1]
<1>1. w.app \in Apps /\ w.loop \in Loops
  BY WorldFields
<1>2. /\ a1 \in Apps /\ a1.shown = "idle" /\ a1.armed = w.app.armed
      /\ a1.remembered = w.app.remembered
  BY <1>1 DEF Apps
<1>3. /\ l1 \in Loops /\ l1.running = w.loop.running /\ l1.standing = "none"
      /\ l1.look = w.loop.running /\ l1.blocker = w.loop.blocker
  BY <1>1 DEF Loops
<1>4. LoopFails(w) = [wa EXCEPT !.loop = l1]
  BY <1>1 DEF LoopFails, Worlds, Apps, Loops
<1> HIDE DEF a1, l1
<1>5. /\ wa \in Worlds /\ wa.client = w.client /\ wa.app = a1 /\ wa.loop = w.loop
      /\ wa.page = w.page /\ wa.up = w.up
  BY <1>2, AppSet
<1> HIDE DEF wa
<1> QED BY <1>2, <1>3, <1>4, <1>5, LoopSet

LEMMA LoopSucceedsIs ==
  ASSUME NEW w \in Worlds
  PROVE  LET v == LoopSucceeds(w) IN
         /\ v \in Worlds /\ v.client = w.client /\ v.page = w.page /\ v.up = w.up
         /\ v.app.shown = "live" /\ v.app.armed = w.app.armed
         /\ v.app.remembered = w.app.remembered
         /\ v.loop.running = w.loop.running /\ v.loop.standing = "none"
<1> DEFINE a1 == [w.app EXCEPT !.shown = "live", !.waiting = @ \ {"loop"}]
           l1 == [w.loop EXCEPT !.standing = "none", !.blocker = "none"]
           wa == [w EXCEPT !.app = a1]
<1>1. w.app \in Apps /\ w.loop \in Loops
  BY WorldFields
<1>2. /\ a1 \in Apps /\ a1.shown = "live" /\ a1.armed = w.app.armed
      /\ a1.remembered = w.app.remembered
  BY <1>1 DEF Apps
<1>3. l1 \in Loops /\ l1.running = w.loop.running /\ l1.standing = "none"
  BY <1>1 DEF Loops
<1>4. LoopSucceeds(w) = [wa EXCEPT !.loop = l1]
  BY <1>1 DEF LoopSucceeds, Worlds, Apps, Loops
<1> HIDE DEF a1, l1
<1>5. /\ wa \in Worlds /\ wa.client = w.client /\ wa.app = a1 /\ wa.loop = w.loop
      /\ wa.page = w.page /\ wa.up = w.up
  BY <1>2, AppSet
<1> HIDE DEF wa
<1> QED BY <1>2, <1>3, <1>4, <1>5, LoopSet

LEMMA BeginAttemptKeeps ==
  ASSUME NEW w, Kept(w), w.loop.standing = "none", w.app.shown = "idle",
         w.app.remembered # NoPack
  PROVE  LET v == BeginAttempt(w) IN
         /\ Kept(v) /\ v.page = w.page /\ v.up = w.up
         /\ v.client.closing = w.client.closing /\ v.client.wired = w.client.wired
         /\ w.client.wired => v.client = w.client
         /\ v.app.armed = w.app.armed /\ v.app.remembered = w.app.remembered
         /\ v.loop.running = w.loop.running
         /\ v.app.shown = "live" => v.client.wired
         /\ v.app.shown = "connecting" => v.loop.standing # "none"
         /\ v.loop.running => Alert(v) \/ v.client.wired
         /\ Honest(w) => Honest(v)
<1> DEFINE l1 == [w.loop EXCEPT !.standing = PatienceThePageAllows(w), !.recent = TRUE]
           a1 == [w.app EXCEPT !.shown = "connecting", !.waiting = @ \cup {"loop"}]
           wl == [w EXCEPT !.loop = l1]
           begun == [wl EXCEPT !.app = a1]
           att == [NoAttempt EXCEPT !.stage = "listing", !.id = w.app.remembered,
                                    !.target = w.app.remembered,
                                    !.patience = PatienceThePageAllows(w),
                                    !.keeper = "loop"]
           c1 == [w.client EXCEPT !.attempt = att]
           started == [begun EXCEPT !.client = c1]
           v == BeginAttempt(w)
<1>1. w \in Worlds /\ Handled(w) /\ Loose(w) /\ Keyed(w) /\ Bounded(w) /\ Badged(w)
  BY DEF Kept, Sound
<1>2. PatienceThePageAllows(w) \in {"wait-for-a-sighting", "straight-in-only"}
  BY DEF PatienceThePageAllows
<1>3. /\ l1 \in Loops /\ l1.running = w.loop.running /\ l1.standing # "none"
  BY <1>1, <1>2, WorldFields DEF Loops
<1>4. /\ a1 \in Apps /\ a1.shown = "connecting" /\ a1.armed = w.app.armed
      /\ a1.remembered = w.app.remembered
  BY <1>1, WorldFields DEF Apps
<1>5. w.app.remembered \in Packs
  BY <1>1, WorldFields DEF Apps, PackOrNone
<1>6. /\ att \in Attempts /\ att.stage = "listing" /\ att.id = w.app.remembered
      /\ att.target = w.app.remembered /\ att.keeper = "loop" /\ att.current = FALSE
      /\ att.budget = "none" /\ att.aborted = FALSE
  BY <1>2, <1>5 DEF NoAttempt, Attempts, PackOrNone
<1>7. BeginAttempt(w) =
        IF w.client.attempt.stage # "none"
        THEN IF w.client.attempt.id = w.app.remembered THEN begun ELSE LoopFails(begun)
        ELSE IF w.client.device # NoPack
        THEN IF w.client.device = w.app.remembered
             THEN LoopSucceeds(begun) ELSE LoopFails(begun)
        ELSE started
  <2> DEFINE raw == [w EXCEPT !.loop.standing = PatienceThePageAllows(w),
                              !.loop.recent = TRUE,
                              !.app.shown = "connecting",
                              !.app.waiting = @ \cup {"loop"}]
  <2>1. BeginAttempt(w) =
          IF w.client.attempt.stage # "none"
          THEN IF w.client.attempt.id = w.app.remembered THEN raw ELSE LoopFails(raw)
          ELSE IF w.client.device # NoPack
          THEN IF w.client.device = w.app.remembered
               THEN LoopSucceeds(raw) ELSE LoopFails(raw)
          ELSE [raw EXCEPT !.client.attempt = att]
    BY DEF BeginAttempt
  <2>2. raw = begun
    BY <1>1 DEF Worlds, Loops, Apps
  <2>3. begun.client = w.client /\ begun \in Worlds
    <3> HIDE DEF l1, a1
    <3>1. wl \in Worlds /\ wl.client = w.client
      BY <1>1, <1>3, LoopSet
    <3> HIDE DEF wl
    <3> QED BY <3>1, <1>4, AppSet
  <2> HIDE DEF raw, begun, att
  <2>4. [begun EXCEPT !.client.attempt = att] = started
    BY <2>3 DEF Worlds
  <2> HIDE DEF started
  <2> QED BY <2>1, <2>2, <2>4
<1> HIDE DEF v, l1, a1, att
<1>8. /\ begun \in Worlds /\ begun.client = w.client /\ begun.app = a1 /\ begun.loop = l1
      /\ begun.page = w.page /\ begun.up = w.up
  <2>1. /\ wl \in Worlds /\ wl.client = w.client /\ wl.loop = l1
        /\ wl.page = w.page /\ wl.up = w.up
    BY <1>1, <1>3, LoopSet
  <2> HIDE DEF wl
  <2> QED BY <2>1, <1>4, AppSet
<1>9. /\ c1 \in Clients /\ c1.device = w.client.device /\ c1.wired = w.client.wired
      /\ c1.subscribed = w.client.subscribed /\ c1.attempt = att
      /\ c1.closing = w.client.closing
  BY <1>1, WorldFields, <1>6 DEF Clients
<1> HIDE DEF begun, c1
<1>10. /\ started \in Worlds /\ started.client = c1 /\ started.app = a1
       /\ started.loop = l1 /\ started.page = w.page /\ started.up = w.up
  BY <1>8, <1>9, ClientSet
<1> HIDE DEF started
<1>11. CASE /\ w.client.attempt.stage # "none"
            /\ w.client.attempt.id = w.app.remembered
  <2>1. BeginAttempt(w) = begun
    BY <1>7, <1>11
  <2>2. Kept(begun)
    BY <1>3, <1>4, <1>8, KeptAgain
  <2>3. Honest(w) => Honest(begun)
    BY <1>4, <1>8 DEF Honest, Stalled
  <2> QED BY <2>1, <2>2, <2>3, <1>3, <1>4, <1>8 DEF Alert
<1>12. CASE /\ w.client.attempt.stage # "none" => w.client.attempt.id # w.app.remembered
            /\ w.client.attempt.stage = "none" =>
                 w.client.device \notin {NoPack, w.app.remembered}
  <2> DEFINE f == LoopFails(begun)
  <2>1. BeginAttempt(w) = f
    BY <1>7, <1>12
  <2>2. /\ f \in Worlds /\ f.client = w.client /\ f.page = w.page /\ f.up = w.up
        /\ f.app.shown = "idle" /\ f.app.armed = w.app.armed
        /\ f.app.remembered = w.app.remembered
        /\ f.loop.running = w.loop.running
        /\ f.loop.look = w.loop.running
    BY <1>3, <1>4, <1>8, LoopFailsIs
  <2> HIDE DEF f
  <2>3. Kept(f)
    BY <2>2, KeptAgain
  <2>4. Honest(w) => Honest(f)
    BY <2>2 DEF Honest, Stalled
  <2> QED BY <2>1, <2>2, <2>3, <2>4 DEF Alert
<1>13. CASE w.client.attempt.stage = "none" /\ w.client.device = w.app.remembered
  <2> DEFINE f == LoopSucceeds(begun)
  <2>1. BeginAttempt(w) = f
    BY <1>7, <1>13
  <2>2. /\ f \in Worlds /\ f.client = w.client /\ f.page = w.page /\ f.up = w.up
        /\ f.app.shown = "live" /\ f.app.armed = w.app.armed
        /\ f.app.remembered = w.app.remembered
        /\ f.loop.running = w.loop.running
    BY <1>3, <1>4, <1>8, LoopSucceedsIs
  <2> HIDE DEF f
  <2>3. w.client.wired
    BY <1>1, <1>13, Idle DEF Handled, Keyed
  <2>4. Kept(f)
    BY <2>2, <2>3, <1>13, KeptAgain DEF Lit
  <2>5. Honest(w) => Honest(f)
    BY <2>2 DEF Honest, Stalled
  <2> QED BY <2>1, <2>2, <2>3, <2>4, <2>5
<1>14. CASE w.client.attempt.stage = "none" /\ w.client.device = NoPack
  <2>1. BeginAttempt(w) = started
    BY <1>7, <1>14
  <2>2. ~w.client.wired /\ ~w.client.subscribed
    BY <1>1, <1>14, WorldFields, Idle DEF Handled, Keyed
  <2>3. Handled(started)
    BY <2>2, <1>6, <1>9, <1>10, <1>14 DEF Handled
  <2>4. Loose(started)
    BY <2>2, <1>1, <1>6, <1>9, <1>10, <1>14 DEF Loose, Let
  <2>5. Keyed(started)
    BY <1>6, <1>9, <1>10 DEF Keyed
  <2>6. Bounded(started)
    BY <1>3, <1>6, <1>9, <1>10 DEF Bounded
  <2>7. Badged(started)
    BY <1>4, <1>10 DEF Badged
  <2>8. Kept(started)
    BY <1>10, <2>3, <2>4, <2>5, <2>6, <2>7 DEF Kept, Sound
  <2>9. Honest(w) => Honest(started)
    BY <2>2, <1>9, <1>10 DEF Honest, Stalled
  <2> QED BY <2>1, <2>2, <2>8, <2>9, <1>3, <1>4, <1>9, <1>10 DEF Alert
<1> QED BY <1>11, <1>12, <1>13, <1>14

\* A world with a look due, and perhaps a gap to let pass first.
LEMMA LookSet ==
  ASSUME NEW w \in Worlds, NEW b \in BOOLEAN
  PROVE  LET v == [w EXCEPT !.loop.look = b] IN
         /\ v \in Worlds /\ v.client = w.client /\ v.app = w.app
         /\ v.page = w.page /\ v.up = w.up
         /\ v.loop.running = w.loop.running /\ v.loop.standing = w.loop.standing
         /\ v.loop.look = b
<1> DEFINE l1 == [w.loop EXCEPT !.look = b]
           u == [w EXCEPT !.loop = l1]
<1>1. w.loop \in Loops
  BY WorldFields
<1>2. [w EXCEPT !.loop.look = b] = u
  BY <1>1 DEF Worlds, Loops
<1>3. l1 \in Loops /\ l1.running = w.loop.running /\ l1.standing = w.loop.standing
      /\ l1.look = b
  BY <1>1 DEF Loops
<1> HIDE DEF l1
<1>4. /\ u \in Worlds /\ u.client = w.client /\ u.app = w.app /\ u.loop = l1
      /\ u.page = w.page /\ u.up = w.up
  BY <1>3, LoopSet
<1> HIDE DEF u
<1> QED BY <1>2, <1>3, <1>4

LEMMA LookLaterSet ==
  ASSUME NEW w \in Worlds
  PROVE  LET v == [w EXCEPT !.loop.look = TRUE, !.loop.recent = TRUE] IN
         /\ v \in Worlds /\ v.client = w.client /\ v.app = w.app
         /\ v.page = w.page /\ v.up = w.up
         /\ v.loop.running = w.loop.running /\ v.loop.standing = w.loop.standing
         /\ v.loop.look = TRUE
<1> DEFINE l1 == [w.loop EXCEPT !.look = TRUE, !.recent = TRUE]
           u == [w EXCEPT !.loop = l1]
<1>1. w.loop \in Loops
  BY WorldFields
<1>2. [w EXCEPT !.loop.look = TRUE, !.loop.recent = TRUE] = u
  BY <1>1 DEF Worlds, Loops
<1>3. l1 \in Loops /\ l1.running = w.loop.running /\ l1.standing = w.loop.standing
      /\ l1.look = TRUE
  BY <1>1 DEF Loops
<1> HIDE DEF l1
<1>4. /\ u \in Worlds /\ u.client = w.client /\ u.app = w.app /\ u.loop = l1
      /\ u.page = w.page /\ u.up = w.up
  BY <1>3, LoopSet
<1> HIDE DEF u
<1> QED BY <1>2, <1>3, <1>4

\* A world whose client, badge and wish are another's.
LEMMA LoopAgain ==
  ASSUME NEW w, Kept(w), NEW v \in Worlds, v.client = w.client, v.app = w.app,
         v.page = w.page, v.up = w.up, v.loop.standing = w.loop.standing,
         v.loop.running = w.loop.running
  PROVE  Kept(v) /\ (Honest(w) => Honest(v))
<1>1. w.app.shown = "live" => Lit(w)
  BY DEF Kept, Badged
<1>2. w.client.attempt.stage # "none" => w.app.shown # "live"
  BY DEF Kept, Badged
<1>3. Kept(v)
  BY <1>1, <1>2, KeptAgain
<1>4. Honest(w) => Honest(v)
  BY DEF Honest, Stalled
<1> QED BY <1>3, <1>4

\* What a look leaves: the invariant, and a supervisor that sleeps for a reason.
Looked(w, v) ==
  /\ Kept(v) /\ v.page = w.page
  /\ v.app.armed = w.app.armed /\ v.app.remembered = w.app.remembered
  /\ v.loop.running = w.loop.running
  /\ w.client.wired =>
       /\ v.client = w.client /\ v.up = w.up
       /\ w.app.shown = "live" => v.app.shown = "live"
  /\ w.app.shown = "idle" =>
       v.app.shown = "idle" \/ v.loop.standing # "none" \/ v.client.wired
  /\ Honest(w) => Honest(v)

LEMMA LookKeeps ==
  ASSUME NEW w, Kept(w)
  PROVE  Looked(w, Look(w)) /\ Awake(Look(w))
<1> DEFINE asked == Asked(w)
           standing == w.loop.standing # "none"
           free == IF standing THEN StandDown(asked) ELSE asked
<1>1. Look(w) =
        IF ~w.loop.running THEN [w EXCEPT !.loop.look = FALSE]
        ELSE IF ~MayTry(w) THEN StandDown(asked)
        ELSE IF standing /\ ~Stranded(w) THEN asked
        ELSE IF LinkBusy(w) \/ w.loop.recent THEN [free EXCEPT !.loop.look = TRUE]
        ELSE IF standing /\ free.client.attempt.stage = "none"
        THEN [free EXCEPT !.loop.look = TRUE, !.loop.recent = TRUE]
        ELSE BeginAttempt(free)
  BY DEF Look, Asked
<1>2. w \in Worlds /\ Handled(w)
  BY DEF Kept, Sound
<1>3. w.client.wired => w.client.attempt.stage = "none"
  BY <1>2 DEF Handled
<1>4. /\ Kept(asked) /\ asked.client = w.client /\ asked.app = w.app
      /\ asked.page = w.page /\ asked.up = w.up
      /\ asked.loop.running = w.loop.running /\ asked.loop.standing = w.loop.standing
      /\ Honest(w) => Honest(asked)
  BY AskedKeeps
<1> HIDE DEF asked
<1> DEFINE down == StandDown(asked)
<1>5. /\ Kept(down) /\ down.page = w.page
      /\ down.loop.standing = "none" /\ down.loop.running = w.loop.running
      /\ down.app.armed = w.app.armed /\ down.app.remembered = w.app.remembered
      /\ down.app.shown \in {w.app.shown, "idle"}
      /\ w.client.attempt.stage = "none" =>
           down.client = w.client /\ down.up = w.up /\ down.app.shown = w.app.shown
      /\ Honest(w) => Honest(down)
  <2>1. LET v == StandDown(asked) IN
        /\ Kept(v) /\ v.page = asked.page
        /\ v.loop.standing = "none" /\ v.loop.running = asked.loop.running
        /\ v.app.armed = asked.app.armed /\ v.app.remembered = asked.app.remembered
        /\ v.app.shown \in {asked.app.shown, "idle"}
        /\ asked.client.attempt.stage = "none" =>
             v.client = asked.client /\ v.up = asked.up /\ v.app.shown = asked.app.shown
        /\ Honest(asked) => Honest(v)
    BY <1>4, StandDownKeeps
  <2> HIDE DEF down
  <2>2. /\ Kept(down) /\ down.page = asked.page
        /\ down.loop.standing = "none" /\ down.loop.running = asked.loop.running
        /\ down.app.armed = asked.app.armed /\ down.app.remembered = asked.app.remembered
        /\ down.app.shown \in {asked.app.shown, "idle"}
        /\ asked.client.attempt.stage = "none" =>
             down.client = asked.client /\ down.up = asked.up /\ down.app.shown = asked.app.shown
        /\ Honest(asked) => Honest(down)
    BY <2>1 DEF down
  <2> QED BY <1>4, <2>2
<1> HIDE DEF down
<1>6. /\ Kept(free) /\ free.page = w.page
      /\ free.loop.standing = "none" /\ free.loop.running = w.loop.running
      /\ free.app.armed = w.app.armed /\ free.app.remembered = w.app.remembered
      /\ free.app.shown \in {w.app.shown, "idle"}
      /\ w.client.attempt.stage = "none" =>
           free.client = w.client /\ free.up = w.up /\ free.app.shown = w.app.shown
      /\ Honest(w) => Honest(free)
  BY <1>4, <1>5 DEF down
<1>7. CASE ~w.loop.running
  <2> DEFINE v == [w EXCEPT !.loop.look = FALSE]
  <2>1. Look(w) = v
    BY <1>1, <1>7
  <2>2. /\ v \in Worlds /\ v.client = w.client /\ v.app = w.app
        /\ v.page = w.page /\ v.up = w.up
        /\ v.loop.running = w.loop.running /\ v.loop.standing = w.loop.standing
    BY <1>2, LookSet
  <2> HIDE DEF v
  <2>3. Kept(v) /\ (Honest(w) => Honest(v))
    BY <2>2, LoopAgain
  <2> QED BY <2>1, <2>2, <2>3, <1>7 DEF Looked, Awake, Want
<1>8. CASE w.loop.running /\ ~MayTry(w)
  <2>1. Look(w) = down
    BY <1>1, <1>8 DEF down
  <2> QED BY <2>1, <1>3, <1>5, <1>8 DEF Looked, Awake, Want, MayTry
<1>9. CASE w.loop.running /\ MayTry(w) /\ standing /\ ~Stranded(w)
  <2>1. Look(w) = asked
    BY <1>1, <1>9
  <2> QED BY <2>1, <1>4, <1>9 DEF Looked, Awake, Alert
<1> HIDE DEF free
<1>10. CASE /\ w.loop.running /\ MayTry(w) /\ ~(standing /\ ~Stranded(w))
            /\ LinkBusy(w) \/ w.loop.recent
  <2> DEFINE v == [free EXCEPT !.loop.look = TRUE]
  <2>1. Look(w) = v
    BY <1>1, <1>10
  <2>2. /\ v \in Worlds /\ v.client = free.client /\ v.app = free.app
        /\ v.page = free.page /\ v.up = free.up
        /\ v.loop.running = free.loop.running /\ v.loop.standing = free.loop.standing
        /\ v.loop.look = TRUE
    BY <1>6, LookSet DEF Kept, Sound
  <2> HIDE DEF v
  <2>3. Kept(v) /\ (Honest(free) => Honest(v))
    BY <2>2, <1>6, LoopAgain
  <2> QED BY <2>1, <2>2, <2>3, <1>3, <1>6, <1>10 DEF Looked, Awake, Alert
<1>11. CASE /\ w.loop.running /\ MayTry(w) /\ ~(standing /\ ~Stranded(w))
            /\ ~(LinkBusy(w) \/ w.loop.recent)
            /\ standing /\ free.client.attempt.stage = "none"
  <2> DEFINE v == [free EXCEPT !.loop.look = TRUE, !.loop.recent = TRUE]
  <2>1. Look(w) = v
    BY <1>1, <1>11
  <2>2. /\ v \in Worlds /\ v.client = free.client /\ v.app = free.app
        /\ v.page = free.page /\ v.up = free.up
        /\ v.loop.running = free.loop.running /\ v.loop.standing = free.loop.standing
        /\ v.loop.look = TRUE
    BY <1>6, LookLaterSet DEF Kept, Sound
  <2> HIDE DEF v
  <2>3. Kept(v) /\ (Honest(free) => Honest(v))
    BY <2>2, <1>6, LoopAgain
  <2> QED BY <2>1, <2>2, <2>3, <1>3, <1>6, <1>11 DEF Looked, Awake, Alert
<1>12. CASE /\ w.loop.running /\ MayTry(w) /\ ~(standing /\ ~Stranded(w))
            /\ ~(LinkBusy(w) \/ w.loop.recent)
            /\ ~(standing /\ free.client.attempt.stage = "none")
  <2> DEFINE v == BeginAttempt(free)
  <2>1. Look(w) = v
    BY <1>1, <1>12
  <2>2. w.app.shown = "idle"
    BY <1>2, <1>12, WorldFields DEF LinkBusy, Apps
  <2>3. free.app.shown = "idle" /\ free.app.remembered # NoPack
    BY <2>2, <1>6, <1>12 DEF MayTry
  <2>4. /\ Kept(v) /\ v.page = free.page /\ v.up = free.up
        /\ free.client.wired => v.client = free.client
        /\ v.app.armed = free.app.armed /\ v.app.remembered = free.app.remembered
        /\ v.loop.running = free.loop.running
        /\ v.app.shown = "live" => v.client.wired
        /\ v.app.shown = "connecting" => v.loop.standing # "none"
        /\ v.loop.running => Alert(v) \/ v.client.wired
        /\ Honest(free) => Honest(v)
    BY <2>3, <1>6, BeginAttemptKeeps
  <2> HIDE DEF v
  <2>5. v.app.shown \in {"idle", "connecting", "live"}
    BY <2>4, WorldFields DEF Kept, Sound, Apps
  <2> QED BY <2>1, <2>2, <2>4, <2>5, <1>3, <1>6, <1>12 DEF Looked, Awake
<1> QED BY <1>7, <1>8, <1>9, <1>10, <1>11, <1>12

-----------------------------------------------------------------------------
(* Telemetry's operators keep the invariant *)

LEMMA ArmedSet ==
  ASSUME NEW w, Kept(w), NEW b \in BOOLEAN
  PROVE  LET v == [w EXCEPT !.app.armed = b] IN
         /\ Kept(v) /\ v.client = w.client /\ v.loop = w.loop /\ v.page = w.page
         /\ v.up = w.up /\ v.app.armed = b /\ v.app.shown = w.app.shown
         /\ v.app.remembered = w.app.remembered
         /\ Honest(w) => Honest(v)
<1> DEFINE a1 == [w.app EXCEPT !.armed = b]
           v == [w EXCEPT !.app = a1]
<1>1. w \in Worlds /\ w.app \in Apps
  BY WorldFields DEF Kept, Sound
<1>2. [w EXCEPT !.app.armed = b] = v
  BY <1>1 DEF Worlds, Apps
<1>3. /\ a1 \in Apps /\ a1.armed = b /\ a1.shown = w.app.shown
      /\ a1.remembered = w.app.remembered
  BY <1>1 DEF Apps
<1> HIDE DEF a1
<1>4. /\ v \in Worlds /\ v.client = w.client /\ v.app = a1 /\ v.loop = w.loop
      /\ v.page = w.page /\ v.up = w.up
  BY <1>1, <1>3, AppSet
<1> HIDE DEF v
<1>5. w.app.shown = "live" => Lit(w)
  BY DEF Kept, Badged
<1>6. w.client.attempt.stage # "none" => w.app.shown # "live"
  BY DEF Kept, Badged
<1>7. Kept(v)
  BY <1>3, <1>4, <1>5, <1>6, KeptAgain
<1>8. Honest(w) => Honest(v)
  BY <1>3, <1>4 DEF Honest, Stalled
<1> QED BY <1>2, <1>3, <1>4, <1>7, <1>8

LEMMA ArmingKeeps ==
  ASSUME NEW w, Kept(w), NEW b \in BOOLEAN
  PROVE  LET v == Look([w EXCEPT !.app.armed = b]) IN
         /\ Kept(v) /\ v.page = w.page
         /\ v.app.armed = b /\ v.app.remembered = w.app.remembered
         /\ v.loop.running = w.loop.running
         /\ w.client.wired =>
              /\ v.client = w.client /\ v.up = w.up
              /\ w.app.shown = "live" => v.app.shown = "live"
         /\ w.app.shown = "idle" =>
              v.app.shown = "idle" \/ v.loop.standing # "none" \/ v.client.wired
         /\ Awake(v) /\ (Honest(w) => Honest(v))
<1> DEFINE u == [w EXCEPT !.app.armed = b]
<1>1. /\ Kept(u) /\ u.client = w.client /\ u.loop = w.loop /\ u.page = w.page
      /\ u.up = w.up /\ u.app.armed = b /\ u.app.shown = w.app.shown
      /\ u.app.remembered = w.app.remembered
      /\ Honest(w) => Honest(u)
  BY ArmedSet
<1> HIDE DEF u
<1>2. Looked(u, Look(u)) /\ Awake(Look(u))
  BY <1>1, LookKeeps
<1> QED BY <1>1, <1>2 DEF Looked, u

LEMMA ShownIdle ==
  ASSUME NEW w \in Worlds, Sound(w), Bounded(w)
  PROVE  LET v == [w EXCEPT !.app.shown = "idle"] IN
         /\ Kept(v) /\ v.client = w.client /\ v.loop = w.loop /\ v.page = w.page
         /\ v.up = w.up /\ v.app.armed = w.app.armed /\ v.app.shown = "idle"
         /\ v.app.remembered = w.app.remembered
<1> DEFINE a1 == [w.app EXCEPT !.shown = "idle"]
           v == [w EXCEPT !.app = a1]
<1>1. w.app \in Apps
  BY WorldFields
<1>2. [w EXCEPT !.app.shown = "idle"] = v
  BY <1>1 DEF Worlds, Apps
<1>3. /\ a1 \in Apps /\ a1.armed = w.app.armed /\ a1.shown = "idle"
      /\ a1.remembered = w.app.remembered
  BY <1>1 DEF Apps
<1> HIDE DEF a1
<1>4. /\ v \in Worlds /\ v.client = w.client /\ v.app = a1 /\ v.loop = w.loop
      /\ v.page = w.page /\ v.up = w.up
  BY <1>3, AppSet
<1> HIDE DEF v
<1>5. Handled(v) /\ Keyed(v) /\ Bounded(v)
  BY <1>3, <1>4 DEF Sound, Handled, Keyed, Bounded, Aborted
<1>6. Loose(v)
  BY <1>4 DEF Sound, Loose, Let
<1>7. Badged(v)
  BY <1>3, <1>4 DEF Badged
<1> QED BY <1>2, <1>3, <1>4, <1>5, <1>6, <1>7 DEF Kept, Sound

\* A link whose handle is gone already: nothing is wired, and no teardown waits
\* to say so.
LEMMA DroppedKeeps ==
  ASSUME NEW w \in Worlds, Sound(w), Bounded(w)
  PROVE  LET v == Dropped(w) IN
         /\ Kept(v) /\ v.page = w.page
         /\ v.app.armed = w.app.armed /\ v.app.remembered = w.app.remembered
         /\ v.loop.running = w.loop.running
         /\ Awake(v) /\ (~w.client.wired /\ ~Stalled(w) => Honest(v))
<1> DEFINE u == [w EXCEPT !.app.shown = "idle"]
<1>1. /\ Kept(u) /\ u.client = w.client /\ u.loop = w.loop /\ u.page = w.page
      /\ u.up = w.up /\ u.app.armed = w.app.armed /\ u.app.shown = "idle"
      /\ u.app.remembered = w.app.remembered
  BY ShownIdle
<1>2. Dropped(w) = Look(u)
  BY DEF Dropped
<1> HIDE DEF u
<1>3. Looked(u, Look(u)) /\ Awake(Look(u))
  BY <1>1, LookKeeps
<1>4. ~w.client.wired /\ ~Stalled(w) => Honest(u)
  BY <1>1 DEF Honest, Stalled
<1> QED BY <1>1, <1>2, <1>3, <1>4 DEF Looked

LEMMA TryNowKeeps ==
  ASSUME NEW w, Kept(w), Awake(w),
         w.app.shown = "idle" \/ w.loop.standing # "none" \/ w.client.wired
  PROVE  LET v == TryNow(w) IN
         /\ Kept(v) /\ v.page = w.page
         /\ v.app.armed = w.app.armed /\ v.app.remembered = w.app.remembered
         /\ v.loop.running = w.loop.running
         /\ Awake(v) /\ (Honest(w) => Honest(v))
<1> DEFINE asked == Asked(w)
<1>1. TryNow(w) = IF w.loop.standing # "none" THEN w
                  ELSE IF w.app.remembered = NoPack \/ LinkBusy(w) THEN asked
                  ELSE BeginAttempt(asked)
  BY DEF TryNow, Asked
<1>2. /\ Kept(asked) /\ asked.client = w.client /\ asked.app = w.app
      /\ asked.page = w.page /\ asked.up = w.up
      /\ asked.loop.running = w.loop.running /\ asked.loop.standing = w.loop.standing
      /\ Honest(w) => Honest(asked)
  BY AskedKeeps
<1> HIDE DEF asked
<1>3. CASE w.loop.standing # "none"
  BY <1>1, <1>3
<1>4. CASE w.loop.standing = "none" /\ (w.app.remembered = NoPack \/ LinkBusy(w))
  <2>1. TryNow(w) = asked
    BY <1>1, <1>4
  <2>2. Awake(asked)
    BY <1>2, <1>4 DEF Awake, Want, LinkBusy
  <2> QED BY <2>1, <2>2, <1>2
<1>5. CASE w.loop.standing = "none" /\ w.app.remembered # NoPack /\ ~LinkBusy(w)
  <2>1. TryNow(w) = BeginAttempt(asked)
    BY <1>1, <1>5
  <2>2. w.app.shown = "idle"
    <3>1. w.app.shown \in {"idle", "connecting", "live"}
      BY WorldFields DEF Kept, Sound, Apps
    <3> QED BY <3>1, <1>5 DEF LinkBusy
  <2> DEFINE v == BeginAttempt(asked)
  <2>3. /\ Kept(v) /\ v.page = asked.page
        /\ v.app.armed = asked.app.armed /\ v.app.remembered = asked.app.remembered
        /\ v.loop.running = asked.loop.running
        /\ v.loop.running => Alert(v) \/ v.client.wired
        /\ Honest(asked) => Honest(v)
    BY <2>2, <1>2, <1>5, BeginAttemptKeeps
  <2> HIDE DEF v
  <2> QED BY <2>1, <2>3, <1>2 DEF v, Awake, Want
<1> QED BY <1>3, <1>4, <1>5

\* Letting go keeps what bounds an attempt, and a badge that a teardown will
\* see to.
LEMMA LetGoBounded ==
  ASSUME NEW w, Sound(w), Bounded(w), NEW then \in {"nobody", "owner", "stalled", "unwind"},
         then = "unwind" => ~w.client.subscribed
  PROVE  Bounded(LetGo(w, then))
<1> DEFINE v == LetGo(w, then)
<1>1. v.loop = w.loop /\ v.client.attempt = [w.client.attempt EXCEPT !.current = FALSE]
  BY LetGoKeeps
<1>2. w.client.attempt \in Attempts
  BY WorldFields DEF Sound
<1> HIDE DEF v
<1>3. /\ v.client.attempt.stage = w.client.attempt.stage
      /\ v.client.attempt.id = w.client.attempt.id
      /\ v.client.attempt.aborted = w.client.attempt.aborted
      /\ v.client.attempt.keeper = w.client.attempt.keeper
  BY <1>1, <1>2, Superseded
<1>4. Bounded(v)
  BY <1>1, <1>3 DEF Bounded, Aborted
<1> QED BY <1>4 DEF v

LEMMA OwnerCloseKeeps ==
  ASSUME NEW w, Kept(w)
  PROVE  LET v == Close(w, "owner") IN
         /\ Kept(v) /\ v.page = w.page
         /\ v.app.armed = w.app.armed /\ v.app.remembered = w.app.remembered
         /\ v.loop.running = w.loop.running
         /\ Honest(v)
<1> DEFINE awake == IF w.client.attempt.stage = "sighting" THEN Fail(w, "abort") ELSE w
           gone == LetGo(awake, "owner")
<1>1. w \in Worlds /\ Sound(w) /\ Handled(w)
  BY DEF Kept, Sound
<1>2. /\ Kept(awake) /\ awake.page = w.page
      /\ awake.app.armed = w.app.armed /\ awake.app.remembered = w.app.remembered
      /\ awake.loop.running = w.loop.running
  <2>1. CASE w.client.attempt.stage = "sighting"
    <3>1. ~w.client.attempt.current /\ "abort" \in Errors
      BY <1>1, <2>1 DEF Handled, Handshaking, Errors
    <3> QED BY <2>1, <3>1, <1>1, FailKeeps
  <2>2. CASE w.client.attempt.stage # "sighting"
    BY <2>2
  <2> QED BY <2>1, <2>2
<1>3. Close(w, "owner") = IF awake.client.subscribed THEN gone ELSE Closed(gone, "owner", TRUE)
  BY DEF Close
<1> HIDE DEF awake
<1>4. Sound(awake) /\ Bounded(awake) /\ Badged(awake) /\ awake \in Worlds
  BY <1>2 DEF Kept, Sound
<1>5. /\ Sound(gone) /\ gone.app = awake.app /\ gone.loop = awake.loop
      /\ gone.page = awake.page
      /\ gone.client.attempt = [awake.client.attempt EXCEPT !.current = FALSE]
      /\ ~gone.client.wired /\ ~Stalled(gone)
      /\ awake.client.subscribed => Lit(gone)
  BY <1>4, LetGoKeeps
<1>6. Bounded(gone)
  BY <1>4, LetGoBounded
<1> HIDE DEF gone
<1>7. CASE awake.client.subscribed
  <2>1. Close(w, "owner") = gone
    BY <1>3, <1>7
  <2>2. gone.client.attempt.stage = awake.client.attempt.stage
    BY <1>4, <1>5, WorldFields, Superseded
  <2>3. Badged(gone)
    BY <1>4, <1>5, <1>7, <2>2 DEF Badged
  <2>4. Honest(gone)
    BY <1>5 DEF Honest
  <2> QED BY <2>1, <2>3, <2>4, <1>2, <1>5, <1>6 DEF Kept
<1>8. CASE ~awake.client.subscribed
  <2> DEFINE v == [gone EXCEPT !.app.shown = "idle"]
  <2>1. Close(w, "owner") = v
    BY <1>3, <1>8 DEF Closed
  <2>2. /\ Kept(v) /\ v.client = gone.client /\ v.loop = gone.loop /\ v.page = gone.page
        /\ v.app.armed = gone.app.armed /\ v.app.remembered = gone.app.remembered
    BY <1>5, <1>6, ShownIdle DEF Sound
  <2> HIDE DEF v
  <2>3. Honest(v)
    BY <2>2, <1>5 DEF Honest, Stalled
  <2> QED BY <2>1, <2>2, <2>3, <1>2, <1>5
<1> QED BY <1>7, <1>8

LEMMA StalledCloseKeeps ==
  ASSUME NEW w, Kept(w), w.client.wired
  PROVE  LET v == Close(w, "stalled") IN
         /\ Kept(v) /\ Stalled(v)
         /\ Honest(w) /\ (\A c \in w.client.closing : c.then # "owner") => Honest(v)
<1> DEFINE v == LetGo(w, "stalled")
<1>1. Sound(w) /\ Bounded(w) /\ Badged(w) /\ Handled(w) /\ w \in Worlds
  BY DEF Kept, Sound
<1>2. w.client.subscribed /\ w.client.attempt.stage = "none"
  BY <1>1 DEF Handled
<1>3. Close(w, "stalled") = v
  BY <1>2 DEF Close
<1>4. /\ Sound(v) /\ v.app = w.app /\ v.loop = w.loop /\ v.page = w.page
      /\ v.client.attempt = [w.client.attempt EXCEPT !.current = FALSE]
      /\ ~v.client.wired /\ Stalled(v) /\ Lit(v)
      /\ \A c \in v.client.closing : c.then = "owner" =>
           \E x \in w.client.closing : x.then = "owner"
  BY <1>1, <1>2, LetGoKeeps
<1>5. Bounded(v)
  BY <1>1, LetGoBounded
<1> HIDE DEF v
<1>6. v.client.attempt.stage = "none"
  BY <1>1, <1>2, <1>4, WorldFields, Superseded
<1>7. Badged(v)
  BY <1>4, <1>6 DEF Badged
<1>8. Honest(w) /\ (\A c \in w.client.closing : c.then # "owner") => Honest(v)
  BY <1>4, <1>6 DEF Honest
<1> QED BY <1>3, <1>4, <1>5, <1>7, <1>8 DEF Kept

LEMMA DisconnectKeeps ==
  ASSUME NEW w, Kept(w)
  PROVE  LET v == DisconnectBms(w) IN
         /\ Kept(v) /\ v.page = w.page
         /\ v.app.remembered = w.app.remembered
         /\ v.loop.running = w.loop.running
         /\ Awake(v) /\ Honest(v)
<1> DEFINE u == DisarmRejoin(w)
           v == Close(u, "owner")
<1>1. /\ Kept(u) /\ u.page = w.page
      /\ u.app.armed = FALSE /\ u.app.remembered = w.app.remembered
      /\ u.loop.running = w.loop.running
  BY ArmingKeeps DEF DisarmRejoin
<1> HIDE DEF u
<1>2. /\ Kept(v) /\ v.page = u.page
      /\ v.app.armed = u.app.armed /\ v.app.remembered = u.app.remembered
      /\ v.loop.running = u.loop.running
      /\ Honest(v)
  BY <1>1, OwnerCloseKeeps
<1>3. DisconnectBms(w) = v
  BY DEF DisconnectBms, u
<1> HIDE DEF v
<1>4. Awake(v)
  BY <1>1, <1>2 DEF Awake, Want
<1> QED BY <1>1, <1>2, <1>3, <1>4

LEMMA HeardSet ==
  ASSUME NEW w, Kept(w)
  PROVE  LET v == [w EXCEPT !.app.waiting = {}] IN
         /\ Kept(v) /\ v.client = w.client /\ v.loop = w.loop /\ v.page = w.page
         /\ v.up = w.up /\ v.app.armed = w.app.armed /\ v.app.shown = w.app.shown
         /\ v.app.remembered = w.app.remembered
<1> DEFINE a1 == [w.app EXCEPT !.waiting = {}]
           v == [w EXCEPT !.app = a1]
<1>1. w \in Worlds /\ w.app \in Apps
  BY WorldFields DEF Kept, Sound
<1>2. [w EXCEPT !.app.waiting = {}] = v
  BY <1>1 DEF Worlds, Apps
<1>3. /\ a1 \in Apps /\ a1.armed = w.app.armed /\ a1.shown = w.app.shown
      /\ a1.remembered = w.app.remembered
  BY <1>1 DEF Apps
<1> HIDE DEF a1
<1>4. /\ v \in Worlds /\ v.client = w.client /\ v.app = a1 /\ v.loop = w.loop
      /\ v.page = w.page /\ v.up = w.up
  BY <1>1, <1>3, AppSet
<1> HIDE DEF v
<1>5. w.app.shown = "live" => Lit(w)
  BY DEF Kept, Badged
<1>6. w.client.attempt.stage # "none" => w.app.shown # "live"
  BY DEF Kept, Badged
<1>7. Kept(v)
  BY <1>3, <1>4, <1>5, <1>6, KeptAgain
<1> QED BY <1>2, <1>3, <1>4, <1>7

LEMMA SucceedKeeps ==
  ASSUME NEW w, Kept(w), w.client.attempt.stage = "subscribe", w.client.attempt.current
  PROVE  LET v == Succeed(w) IN Kept(v) /\ v.page = w.page /\ Awake(v) /\ Honest(v)
<1> DEFINE c1 == [w.client EXCEPT !.wired = TRUE, !.attempt = NoAttempt]
           a1 == [w.app EXCEPT !.shown = "live", !.remembered = w.client.device]
           wc == [w EXCEPT !.client = c1]
           live == [wc EXCEPT !.app = a1]
           pressed == IF "press" \in w.app.waiting THEN ArmRejoin(live) ELSE live
           tried == pressed.app.waiting \cap {"loop", "stale"}
           heard == [pressed EXCEPT !.app.waiting = {}]
<1>1. w \in Worlds /\ Handled(w) /\ Loose(w) /\ Keyed(w)
  BY DEF Kept, Sound
<1>2. w.client.subscribed /\ w.client.device # NoPack /\ w.client.device \in w.up
  BY <1>1 DEF Handled
<1>3. /\ c1 \in Clients /\ c1.device = w.client.device /\ c1.wired = TRUE
      /\ c1.subscribed = w.client.subscribed /\ c1.attempt = NoAttempt
      /\ c1.closing = w.client.closing
  BY <1>1, WorldFields, Idle DEF Clients
<1>4. a1 \in Apps /\ a1.shown = "live" /\ a1.remembered = w.client.device
  BY <1>1, WorldFields DEF Apps
<1>5. [w EXCEPT !.client.wired = TRUE, !.client.attempt = NoAttempt,
                !.app.shown = "live", !.app.remembered = w.client.device] = live
  BY <1>1 DEF Worlds, Clients, Apps
<1>6. Succeed(w) =
        CASE tried # {} /\ ~heard.app.armed -> DisconnectBms(heard)
          [] "loop" \in tried /\ heard.app.armed -> LoopSucceeds(heard)
          [] OTHER -> heard
  <2> DEFINE raw == [w EXCEPT !.client.wired = TRUE, !.client.attempt = NoAttempt,
                              !.app.shown = "live", !.app.remembered = w.client.device]
             p == IF "press" \in w.app.waiting THEN ArmRejoin(raw) ELSE raw
             t == p.app.waiting \cap {"loop", "stale"}
             h == [p EXCEPT !.app.waiting = {}]
  <2>1. Succeed(w) =
          CASE t # {} /\ ~h.app.armed -> DisconnectBms(h)
            [] "loop" \in t /\ h.app.armed -> LoopSucceeds(h)
            [] OTHER -> h
    BY DEF Succeed
  <2>2. raw = live
    BY <1>5
  <2> HIDE DEF raw, live
  <2>3. p = pressed
    BY <2>2
  <2> HIDE DEF p, pressed
  <2> QED BY <2>1, <2>3
<1> HIDE DEF c1, a1
<1>7. /\ live \in Worlds /\ live.client = c1 /\ live.app = a1 /\ live.loop = w.loop
      /\ live.page = w.page /\ live.up = w.up
  <2>1. /\ wc \in Worlds /\ wc.client = c1 /\ wc.loop = w.loop
        /\ wc.page = w.page /\ wc.up = w.up
    BY <1>1, <1>3, ClientSet
  <2> HIDE DEF wc
  <2> QED BY <2>1, <1>4, AppSet
<1> HIDE DEF live
<1>8. Kept(live)
  <2>1. Handled(live)
    BY <1>2, <1>3, <1>4, <1>7, Idle DEF Handled
  <2>2. Loose(live)
    BY <1>1, <1>3, <1>7, Idle DEF Loose, Let
  <2>3. Keyed(live) /\ Bounded(live)
    BY <1>3, <1>7, Idle DEF Keyed, Bounded
  <2>4. Badged(live)
    BY <1>3, <1>4, <1>7, Idle DEF Badged, Lit
  <2> QED BY <2>1, <2>2, <2>3, <2>4, <1>7 DEF Kept, Sound
<1>9. /\ Kept(pressed) /\ pressed.client.wired /\ pressed.page = w.page
      /\ pressed.app.shown = "live"
  <2>1. CASE "press" \in w.app.waiting
    <3> DEFINE armed == ArmRejoin(live)
    <3>1. pressed = armed
      BY <2>1
    <3>2. live.client.wired /\ live.app.shown = "live"
      BY <1>3, <1>4, <1>7
    <3>3. /\ Kept(armed) /\ armed.page = live.page
          /\ armed.client = live.client /\ armed.app.shown = "live"
      BY <3>2, <1>8, ArmingKeeps DEF ArmRejoin
    <3> HIDE DEF armed, pressed
    <3> QED BY <3>1, <3>2, <3>3, <1>7
  <2>2. CASE "press" \notin w.app.waiting
    BY <2>2, <1>3, <1>4, <1>7, <1>8
  <2> QED BY <2>1, <2>2
<1> HIDE DEF pressed
<1>10. /\ Kept(heard) /\ heard.client.wired /\ heard.page = w.page
       /\ heard.app.shown = "live"
  BY <1>9, HeardSet
<1> HIDE DEF heard
<1>11. ~Stalled(heard)
  BY <1>10 DEF Kept, Sound, Loose, Stalled
<1>12. CASE tried # {} /\ ~heard.app.armed
  <2>1. Succeed(w) = DisconnectBms(heard)
    BY <1>6, <1>12
  <2> QED BY <2>1, <1>10, DisconnectKeeps
<1>13. CASE "loop" \in tried /\ heard.app.armed
  <2> DEFINE v == LoopSucceeds(heard)
  <2>1. Succeed(w) = v
    BY <1>6, <1>13
  <2>2. /\ v \in Worlds /\ v.client = heard.client /\ v.page = heard.page
        /\ v.up = heard.up /\ v.app.shown = "live"
        /\ v.app.remembered = heard.app.remembered
    BY <1>10, LoopSucceedsIs DEF Kept, Sound
  <2> HIDE DEF v
  <2>3. heard.client.attempt.stage = "none"
    BY <1>10 DEF Kept, Sound, Handled
  <2>4. Handled(v) /\ Keyed(v) /\ Bounded(v)
    BY <2>2, <2>3, <1>10 DEF Kept, Sound, Handled, Keyed, Bounded
  <2>5. Loose(v)
    BY <2>2, <1>10 DEF Kept, Sound, Loose, Let
  <2>6. Badged(v)
    BY <2>2, <2>3, <1>10 DEF Badged, Lit
  <2>7. Kept(v)
    BY <2>2, <2>4, <2>5, <2>6 DEF Kept, Sound
  <2>8. Honest(v) /\ Awake(v)
    BY <2>2, <1>10, <1>11 DEF Honest, Awake, Stalled
  <2> QED BY <2>1, <2>2, <2>7, <2>8, <1>10
<1>14. CASE ~(tried # {} /\ ~heard.app.armed) /\ ~("loop" \in tried /\ heard.app.armed)
  <2>1. Succeed(w) = heard
    BY <1>6, <1>14
  <2>2. Honest(heard) /\ Awake(heard)
    BY <1>10, <1>11 DEF Honest, Awake
  <2> QED BY <2>1, <2>2, <1>10
<1> QED BY <1>12, <1>13, <1>14

LEMMA StartAttachKeeps ==
  ASSUME NEW w, Kept(w), w.client.attempt.stage \in {"choosing", "listing", "sighting"},
         ~w.client.attempt.aborted,
         NEW pack \in Packs, NEW budget \in {"none", "blind", "probe", "sighted"},
         budget # "none" => w.client.attempt.id # NoPack
  PROVE  LET v == StartAttach(w, pack, budget) IN
         /\ Kept(v) /\ v.app = w.app /\ v.loop = w.loop /\ v.page = w.page
         /\ ~v.client.wired /\ ~Stalled(v)
<1> DEFINE b == Bump(w)
           att == [b.client.attempt EXCEPT !.stage = "connect", !.target = pack,
                                           !.current = TRUE, !.budget = budget]
           c1 == [b.client EXCEPT !.device = pack, !.attempt = att]
           bc == [b EXCEPT !.client = c1]
           u == b.up \ {pack}
           v == [bc EXCEPT !.up = u]
<1>1. w \in Worlds /\ Handled(w) /\ Loose(w) /\ Keyed(w) /\ Bounded(w) /\ Badged(w)
  BY DEF Kept, Sound
<1>2. w.client.attempt \in Attempts /\ NoPack # pack
  BY <1>1, WorldFields, PackLinkAssumption
<1>3. /\ b \in Worlds /\ b.app = w.app /\ b.loop = w.loop /\ b.page = w.page /\ b.up = w.up
      /\ b.client.device = w.client.device /\ b.client.subscribed = w.client.subscribed
      /\ b.client.wired = w.client.wired
      /\ b.client.attempt = [w.client.attempt EXCEPT !.current = FALSE]
      /\ b.client.closing = Forgotten(w.client.closing)
  BY <1>1, BumpIs
<1>4. StartAttach(w, pack, budget) = v
  <2>1. b \in Worlds
    BY <1>3
  <2>2. StartAttach(w, pack, budget) =
          [b EXCEPT !.client.device = pack,
                    !.client.attempt = [@ EXCEPT !.stage = "connect", !.target = pack,
                                                 !.current = TRUE, !.budget = budget],
                    !.up = @ \ {pack}]
    BY DEF StartAttach
  <2> HIDE DEF b
  <2> QED BY <2>1, <2>2 DEF Worlds, Clients
<1> HIDE DEF b
<1>5. /\ b.client.attempt \in Attempts
      /\ b.client.attempt.id = w.client.attempt.id
      /\ b.client.attempt.aborted = w.client.attempt.aborted
      /\ b.client.attempt.keeper = w.client.attempt.keeper
  BY <1>2, <1>3, Superseded
<1>6. /\ att \in Attempts /\ att.stage = "connect" /\ att.target = pack
      /\ att.current = TRUE /\ att.budget = budget /\ att.id = w.client.attempt.id
      /\ att.aborted = w.client.attempt.aborted /\ att.keeper = w.client.attempt.keeper
  <2>1. pack \in PackOrNone /\ "connect" \in Attaching
    BY DEF PackOrNone, Attaching, Handshaking
  <2> DEFINE a == b.client.attempt
  <2>2. /\ a \in Attempts
        /\ att = [a EXCEPT !.stage = "connect", !.target = pack, !.current = TRUE, !.budget = budget]
    BY <1>5
  <2> HIDE DEF a, att
  <2>3. /\ att \in Attempts /\ att.stage = "connect" /\ att.target = pack
        /\ att.current = TRUE /\ att.budget = budget /\ att.id = a.id
        /\ att.aborted = a.aborted /\ att.keeper = a.keeper
    BY <2>1, <2>2 DEF Attempts
  <2> QED BY <1>5, <2>3 DEF a
<1> HIDE DEF att
<1>7. /\ c1 \in Clients /\ c1.device = pack /\ c1.subscribed = w.client.subscribed
      /\ c1.wired = w.client.wired /\ c1.attempt = att
      /\ c1.closing = Forgotten(w.client.closing)
  BY <1>3, <1>6, WorldFields DEF Clients, PackOrNone
<1> HIDE DEF c1
<1>8. u \in SUBSET Packs
  BY <1>3, WorldFields
<1> HIDE DEF u
<1>9. /\ v \in Worlds /\ v.client = c1 /\ v.app = w.app /\ v.loop = w.loop
      /\ v.page = w.page /\ v.up = u
  <2>1. /\ bc \in Worlds /\ bc.client = c1 /\ bc.app = w.app /\ bc.loop = w.loop
        /\ bc.page = w.page
    BY <1>3, <1>7, ClientSet
  <2> HIDE DEF bc
  <2> QED BY <2>1, <1>8, UpSet
<1> HIDE DEF v
<1>10. w.client.device = NoPack /\ ~w.client.subscribed /\ ~w.client.wired
  BY <1>1, WorldFields DEF Handled, Handshaking
<1>11. /\ {c.pack : c \in Forgotten(w.client.closing)} = {c.pack : c \in w.client.closing}
       /\ \A c \in Forgotten(w.client.closing) :
            ~c.last /\ \E x \in w.client.closing : x.then = c.then /\ x.pack = c.pack
  BY <1>1, WorldFields, ForgottenIs
<1>12. Handled(v)
  BY <1>2, <1>6, <1>7, <1>9, <1>10 DEF Handled, Handshaking
<1>13. Loose(v)
  <2>1. v.up \subseteq Let(v) \cup {v.client.device}
    BY <1>1, <1>3, <1>7, <1>9, <1>10, <1>11, WorldFields DEF Loose, Let, u
  <2>2. \A c \in v.client.closing : ~c.last /\ c.then # "unwind"
    BY <1>1, <1>7, <1>9, <1>11 DEF Loose
  <2> QED BY <2>1, <2>2 DEF Loose
<1>14. Keyed(v)
  BY <1>1, <1>2, <1>6, <1>7, <1>9 DEF Keyed
<1>15. Bounded(v)
  BY <1>1, <1>6, <1>7, <1>9 DEF Bounded, Aborted
<1>16. Badged(v)
  BY <1>1, <1>6, <1>7, <1>9 DEF Badged
<1>17. ~Stalled(v)
  BY <1>7, <1>9, <1>11 DEF Stalled
<1>18. Kept(v)
  BY <1>9, <1>12, <1>13, <1>14, <1>15, <1>16 DEF Kept, Sound
<1> QED BY <1>4, <1>7, <1>9, <1>10, <1>17, <1>18

-----------------------------------------------------------------------------
(* One step of the system *)

Stirs(w) == Awake(w) /\ Honest(w)

\* What a step makes of the world: the invariant, and the supervisor's reason to
\* sleep as long as no link has overtaken a press; a step of the client's or
\* the supervisor's own ends no link.
Follows(v) ==
  /\ Kept(v)
  /\ NotOvertaken /\ Stirs(World) => Stirs(v)
  /\ spent' = spent /\ client.wired => v.client.wired

LEMMA Here ==
  ASSUME Kept(World)
  PROVE  /\ World.client = client /\ World.app = app /\ World.loop = loop
         /\ World.page = page /\ World.up = up /\ World.client.attempt = Attempt
         /\ World \in Worlds /\ Sound(World) /\ Handled(World) /\ Loose(World)
         /\ Keyed(World) /\ Bounded(World) /\ Badged(World)
         /\ client \in Clients /\ app \in Apps /\ loop \in Loops /\ page \in Pages
         /\ Attempt \in Attempts /\ up \in SUBSET Packs /\ client.closing \in SUBSET Closings
<1>1. /\ World.client = client /\ World.app = app /\ World.loop = loop
      /\ World.page = page /\ World.up = up
  BY DEF World
<1>2. World.client.attempt = Attempt
  BY <1>1 DEF Attempt
<1>3. /\ World \in Worlds /\ Sound(World) /\ Handled(World) /\ Loose(World)
      /\ Keyed(World) /\ Bounded(World) /\ Badged(World)
  BY DEF Kept, Sound
<1> QED BY <1>1, <1>2, <1>3, WorldFields

LEMMA Spends ==
  ASSUME spent \in 0 .. MaxHappenings, Happens
  PROVE  spent' # spent /\ spent' \in 0 .. MaxHappenings
  BY PackLinkAssumption DEF Happens

\* An attempt that ends, or goes on to its next stage.
LEMMA AttemptStirs ==
  ASSUME NEW w, Kept(w), Stirs(w), w.client.attempt.stage # "none",
         NEW v, v.page = w.page, v.app.armed = w.app.armed,
         v.app.remembered = w.app.remembered, v.loop.running = w.loop.running,
         w.loop.running /\ Alert(w) => Alert(v),
         ~v.client.wired, Stalled(v) => Stalled(w)
  PROVE  Stirs(v)
<1>1. ~w.client.wired
  BY DEF Kept, Sound, Handled
<1>2. ~Stalled(w)
  BY DEF Stirs, Honest
<1>3. Want(w) => Alert(w)
  BY <1>1, <1>2 DEF Stirs, Awake
<1>4. Want(v) => Alert(v)
  BY <1>3 DEF Want
<1> QED BY <1>2, <1>4 DEF Stirs, Awake, Honest

\* A world that differs only where nobody looks.
LEMMA SameStirs ==
  ASSUME NEW w, Kept(w), NEW v \in Worlds, v.client = w.client, v.app = w.app,
         v.loop = w.loop, v.up = w.up, v.page.adapterOn = w.page.adapterOn
  PROVE  Kept(v) /\ (Stirs(w) => Stirs(v))
<1>1. w.app.shown = "live" => Lit(w)
  BY DEF Kept, Badged
<1>2. w.client.attempt.stage # "none" => w.app.shown # "live"
  BY DEF Kept, Badged
<1>3. Kept(v)
  BY <1>1, <1>2, KeptAgain
<1>4. Stirs(w) => Stirs(v)
  BY DEF Stirs, Awake, Honest, Want, Alert, Stalled
<1> QED BY <1>3, <1>4

LEMMA PressConnectSteps ==
  ASSUME Kept(World), spent \in 0 .. MaxHappenings, PressConnect
  PROVE  \E v : Become(v) /\ Follows(v)
<1> DEFINE a1 == [app EXCEPT !.shown = "connecting", !.waiting = @ \cup {"press"}]
           p == [World EXCEPT !.app = a1]
           att == [NoAttempt EXCEPT !.stage = "choosing"]
           c1 == [client EXCEPT !.attempt = att]
           opened == [p EXCEPT !.client = c1]
<1>1. /\ World.client = client /\ World.app = app /\ World.loop = loop
      /\ World.page = page /\ World.up = up /\ World.client.attempt = Attempt
      /\ World \in Worlds /\ Handled(World) /\ Loose(World) /\ Badged(World)
      /\ client \in Clients /\ app \in Apps /\ Attempt \in Attempts
  BY Here
<1>2. spent' # spent /\ app.shown = "idle"
  BY Spends DEF PressConnect, Pressed
<1>3. [World EXCEPT !.app.shown = "connecting", !.app.waiting = @ \cup {"press"}] = p
  BY <1>1 DEF Worlds, Apps
<1>4. /\ a1 \in Apps /\ a1.shown = "connecting" /\ a1.armed = app.armed
      /\ a1.remembered = app.remembered
  BY <1>1 DEF Apps
<1> HIDE DEF a1
<1>5. /\ p \in Worlds /\ p.client = client /\ p.app = a1 /\ p.loop = loop
      /\ p.page = page /\ p.up = up
  BY <1>1, <1>4, AppSet
<1>6. [p EXCEPT !.client.attempt = att] = opened
  BY <1>5 DEF Worlds, Clients
<1>7. \/ Attempt.stage # "none" /\ Become(p)
      \/ Become(World)
      \/ Attempt.stage = "none" /\ client.device = NoPack /\ Become(opened)
  <2> DEFINE raw == [World EXCEPT !.app.shown = "connecting",
                                  !.app.waiting = @ \cup {"press"}]
  <2>1. (CASE Attempt.stage # "none" -> Become(raw)
           [] Attempt.stage = "none" /\ client.device # NoPack -> Become(World)
           [] Attempt.stage = "none" /\ client.device = NoPack ->
                Become([raw EXCEPT !.client.attempt = att]))
    BY DEF PressConnect
  <2>2. raw = p
    BY <1>3
  <2> HIDE DEF raw, p, opened
  <2> QED BY <2>1, <2>2, <1>6
<1> HIDE DEF p
<1>8. Stirs(World) => ~Stalled(World) /\ ~client.wired
  BY <1>1, <1>2 DEF Stirs, Honest
<1>9. CASE Attempt.stage # "none" /\ Become(p)
  <2>1. Kept(p)
    BY <1>1, <1>4, <1>5, KeptAgain
  <2>2. Stirs(World) => Stirs(p)
    BY <1>1, <1>4, <1>5, <1>8 DEF Stirs, Awake, Honest, Want, Alert, Stalled
  <2>3. Follows(p)
    BY <2>1, <2>2, <1>2 DEF Follows
  <2> QED BY <2>3, <1>9
<1>10. CASE Become(World)
  <2>1. Follows(World)
    BY <1>2 DEF Follows
  <2> QED BY <2>1, <1>10
<1>11. CASE Attempt.stage = "none" /\ client.device = NoPack /\ Become(opened)
  <2>1. /\ att \in Attempts /\ att.stage = "choosing" /\ att.id = NoPack
        /\ att.target = NoPack /\ att.current = FALSE /\ att.budget = "none"
        /\ att.aborted = FALSE /\ att.keeper = "press"
    BY DEF NoAttempt, Attempts, PackOrNone
  <2> HIDE DEF att
  <2>2. /\ c1 \in Clients /\ c1.device = client.device /\ c1.wired = client.wired
        /\ c1.subscribed = client.subscribed /\ c1.attempt = att
        /\ c1.closing = client.closing
    BY <1>1, <2>1 DEF Clients
  <2> HIDE DEF c1
  <2>3. /\ opened \in Worlds /\ opened.client = c1 /\ opened.app = a1
        /\ opened.loop = loop /\ opened.page = page /\ opened.up = up
    BY <1>5, <2>2, ClientSet
  <2> HIDE DEF opened
  <2>4. ~client.wired /\ ~client.subscribed
    BY <1>1, <1>11, WorldFields DEF Handled
  <2>5. \A c \in client.closing : c.then # "unwind"
    BY <1>1, <1>11 DEF Loose
  <2>6. Handled(opened)
    BY <1>11, <2>1, <2>2, <2>3, <2>4 DEF Handled
  <2>7. Loose(opened)
    BY <1>1, <2>1, <2>2, <2>3, <2>4, <2>5 DEF Loose, Let
  <2>8. Keyed(opened) /\ Bounded(opened)
    BY <2>1, <2>2, <2>3 DEF Keyed, Bounded
  <2>9. Badged(opened)
    BY <1>4, <2>3 DEF Badged
  <2>10. Kept(opened)
    BY <2>3, <2>6, <2>7, <2>8, <2>9 DEF Kept, Sound
  <2>11. Stirs(World) => Stirs(opened)
    BY <1>1, <1>4, <1>8, <2>2, <2>3, <2>4
       DEF Stirs, Awake, Honest, Want, Alert, Stalled
  <2>12. Follows(opened)
    BY <2>10, <2>11, <1>2 DEF Follows
  <2> QED BY <2>12, <1>11
<1> QED BY <1>7, <1>9, <1>10, <1>11

LEMMA PressReconnectSteps ==
  ASSUME Kept(World), spent \in 0 .. MaxHappenings, PressReconnect
  PROVE  \E v : Become(v) /\ Follows(v)
<1> DEFINE u == ArmRejoin(World)
           v == TryNow(u)
<1>1. spent' # spent /\ World.app.shown = "idle" /\ Become(v)
  BY Spends, Here DEF PressReconnect, Pressed
<1>2. /\ Kept(u) /\ Awake(u) /\ (Honest(World) => Honest(u))
      /\ u.app.shown = "idle" \/ u.loop.standing # "none" \/ u.client.wired
  BY <1>1, ArmingKeeps DEF ArmRejoin
<1> HIDE DEF u
<1>3. Kept(v) /\ Awake(v) /\ (Honest(u) => Honest(v))
  BY <1>2, TryNowKeeps
<1> HIDE DEF v
<1>4. Follows(v)
  BY <1>1, <1>2, <1>3 DEF Follows, Stirs
<1> QED BY <1>1, <1>4

LEMMA PressRejoinSteps ==
  ASSUME Kept(World), spent \in 0 .. MaxHappenings, PressRejoin
  PROVE  \E v : Become(v) /\ Follows(v)
<1> DEFINE v == ArmRejoin(World)
<1>1. spent' # spent /\ Become(v)
  BY Spends DEF PressRejoin, Pressed
<1>2. Kept(v) /\ Awake(v) /\ (Honest(World) => Honest(v))
  BY ArmingKeeps DEF ArmRejoin
<1> HIDE DEF v
<1>3. Follows(v)
  BY <1>1, <1>2 DEF Follows, Stirs
<1> QED BY <1>1, <1>3

LEMMA PressDisconnectSteps ==
  ASSUME Kept(World), spent \in 0 .. MaxHappenings, PressDisconnect
  PROVE  \E v : Become(v) /\ Follows(v)
<1> DEFINE v == DisconnectBms(World)
<1>1. spent' # spent /\ Become(v)
  BY Spends DEF PressDisconnect, Pressed
<1>2. Kept(v) /\ Awake(v) /\ Honest(v)
  BY DisconnectKeeps
<1> HIDE DEF v
<1>3. Follows(v)
  BY <1>1, <1>2 DEF Follows, Stirs
<1> QED BY <1>1, <1>3

LEMMA ChooserPicksSteps ==
  ASSUME Kept(World), ChooserPicks
  PROVE  \E v : Become(v) /\ Follows(v)
<1>1. PICK pack \in Packs :
        Become(StartAttach([World EXCEPT !.page.permitted = @ \cup {pack}], pack, "none"))
  BY DEF ChooserPicks
<1> DEFINE pg == [page EXCEPT !.permitted = @ \cup {pack}]
           w == [World EXCEPT !.page = pg]
           v == StartAttach(w, pack, "none")
<1>2. /\ World \in Worlds /\ World.client = client /\ World.app = app
      /\ World.loop = loop /\ World.page = page /\ World.up = up
      /\ page \in Pages /\ Keyed(World) /\ World.client.attempt = Attempt
      /\ Attempt \in Attempts /\ Handled(World)
  BY Here
<1>3. [World EXCEPT !.page.permitted = @ \cup {pack}] = w
  BY <1>2 DEF Worlds, Pages
<1>4. pg \in Pages /\ pg.adapterOn = page.adapterOn
  BY <1>2 DEF Pages
<1> HIDE DEF pg
<1>5. /\ w \in Worlds /\ w.client = client /\ w.app = app /\ w.loop = loop
      /\ w.page = pg /\ w.up = up
  BY <1>2, <1>4, PageSet
<1> HIDE DEF w
<1>6. Kept(w) /\ (Stirs(World) => Stirs(w))
  BY <1>2, <1>4, <1>5, SameStirs
<1>7. Attempt.stage = "choosing" /\ ~Attempt.aborted
  BY <1>2 DEF ChooserPicks, Keyed
<1>8. w.client.attempt = Attempt
  BY <1>5 DEF Attempt
<1>9. /\ Kept(v) /\ v.app = w.app /\ v.loop = w.loop /\ v.page = w.page
      /\ ~v.client.wired /\ ~Stalled(v)
  BY <1>6, <1>7, <1>8, StartAttachKeeps
<1>10. Become(v)
  BY <1>1, <1>3
<1> HIDE DEF v
<1>11. Stirs(w) => Stirs(v)
  BY <1>6, <1>7, <1>8, <1>9, AttemptStirs DEF Alert
<1>12. ~client.wired
  BY <1>2, <1>7 DEF Handled
<1>13. Follows(v)
  BY <1>6, <1>9, <1>11, <1>12 DEF Follows
<1> QED BY <1>10, <1>13

\* An attempt that rejects where it stands.
LEMMA FailSteps ==
  ASSUME Kept(World), NEW error \in Errors,
         Attempt.stage # "none", ~Attempt.current, Become(Fail(World, error))
  PROVE  \E v : Become(v) /\ Follows(v)
<1> DEFINE v == Fail(World, error)
<1>1. Sound(World) /\ World.client.attempt = Attempt /\ World.client = client
      /\ Handled(World)
  BY Here
<1>2. /\ Kept(v) /\ v.page = World.page /\ ~v.client.wired
      /\ v.app.armed = World.app.armed /\ v.app.remembered = World.app.remembered
      /\ v.loop.running = World.loop.running
      /\ World.loop.running /\ Alert(World) => Alert(v)
      /\ Stalled(v) => Stalled(World)
  BY <1>1, FailKeeps
<1> HIDE DEF v
<1>3. Stirs(World) => Stirs(v)
  BY <1>1, <1>2, AttemptStirs
<1>4. ~client.wired
  BY <1>1 DEF Handled
<1>5. Follows(v)
  BY <1>2, <1>3, <1>4 DEF Follows
<1> QED BY <1>5 DEF v

\* Only a handshake is the client's current one.
LEMMA OnlyHandshakesAreCurrent ==
  ASSUME Kept(World), Attempt.stage \notin Handshaking
  PROVE  ~Attempt.current
  BY Here DEF Handled

LEMMA ChooserCancelledSteps ==
  ASSUME Kept(World), ChooserCancelled
  PROVE  \E v : Become(v) /\ Follows(v)
<1>1. Attempt.stage = "choosing" /\ Become(Fail(World, "abort")) /\ "abort" \in Errors
  BY DEF ChooserCancelled, Errors
<1>2. ~Attempt.current
  BY <1>1, OnlyHandshakesAreCurrent DEF Handshaking
<1> QED BY <1>1, <1>2, FailSteps

\* An attach begun on the world as it is.
LEMMA StartSteps ==
  ASSUME Kept(World), Attempt.stage \in {"listing", "sighting"}, ~Attempt.aborted,
         NEW budget \in {"blind", "probe", "sighted"},
         Become(StartAttach(World, Attempt.target, budget))
  PROVE  \E v : Become(v) /\ Follows(v)
<1> DEFINE v == StartAttach(World, Attempt.target, budget)
<1>1. /\ World.client.attempt = Attempt /\ World.client = client /\ Keyed(World)
      /\ Handled(World) /\ Attempt \in Attempts
  BY Here
<1>2. Attempt.target \in Packs /\ Attempt.id # NoPack
  BY <1>1 DEF Keyed, Attempts, PackOrNone
<1>3. /\ Kept(v) /\ v.app = World.app /\ v.loop = World.loop /\ v.page = World.page
      /\ ~v.client.wired /\ ~Stalled(v)
  BY <1>1, <1>2, StartAttachKeeps
<1> HIDE DEF v
<1>4. Stirs(World) => Stirs(v)
  BY <1>1, <1>3, AttemptStirs DEF Alert
<1>5. ~client.wired
  BY <1>1 DEF Handled
<1>6. Follows(v)
  BY <1>3, <1>4, <1>5 DEF Follows
<1> QED BY <1>6 DEF v

LEMMA ListingEndsSteps ==
  ASSUME Kept(World), ListingEnds
  PROVE  \E v : Become(v) /\ Follows(v)
<1>1. Attempt.stage = "listing" /\ ~Attempt.current
  BY OnlyHandshakesAreCurrent DEF ListingEnds, Handshaking
<1>2. "abort" \in Errors /\ "permission-gone" \in Errors
  BY DEF Errors
<1>3. \/ Become(Fail(World, "permission-gone"))
      \/ Become(Fail(World, "abort"))
      \/ ~Attempt.aborted /\ \E budget \in {"probe", "blind"} :
                               Become(StartAttach(World, Attempt.target, budget))
  BY DEF ListingEnds
<1>4. CASE Become(Fail(World, "permission-gone")) \/ Become(Fail(World, "abort"))
  BY <1>1, <1>2, <1>4, FailSteps
<1>5. CASE ~Attempt.aborted /\ \E budget \in {"probe", "blind"} :
                                 Become(StartAttach(World, Attempt.target, budget))
  BY <1>1, <1>5, StartSteps
<1> QED BY <1>3, <1>4, <1>5

LEMMA ListingRefusedSteps ==
  ASSUME Kept(World), ListingRefused
  PROVE  \E v : Become(v) /\ Follows(v)
<1>1. Attempt.stage = "listing" /\ ~Attempt.current
  BY OnlyHandshakesAreCurrent DEF ListingRefused, Handshaking
<1>2. Become(Fail(World, "browser-cannot-rejoin")) /\ "browser-cannot-rejoin" \in Errors
  BY DEF ListingRefused, Errors
<1> QED BY <1>1, <1>2, FailSteps

LEMMA SightedSteps ==
  ASSUME Kept(World), Sighted
  PROVE  \E v : Become(v) /\ Follows(v)
<1>1. Attempt.stage = "sighting" /\ Become(StartAttach(World, Attempt.target, "sighted"))
  BY DEF Sighted
<1>2. ~Attempt.aborted
  BY <1>1, Here DEF Keyed
<1> QED BY <1>1, <1>2, StartSteps

LEMMA WatchRefusedSteps ==
  ASSUME Kept(World), WatchRefused
  PROVE  \E v : Become(v) /\ Follows(v)
<1>1. Attempt.stage = "sighting" /\ ~Attempt.current
  BY OnlyHandshakesAreCurrent DEF WatchRefused, Handshaking
<1>2. Become(Fail(World, "radio")) /\ "radio" \in Errors
  BY DEF WatchRefused, Errors
<1> QED BY <1>1, <1>2, FailSteps

LEMMA ConnectsSteps ==
  ASSUME Kept(World), Connects
  PROVE  \E v : Become(v) /\ Follows(v)
<1> DEFINE att == [Attempt EXCEPT !.stage = "discover"]
           c1 == [client EXCEPT !.attempt = att]
           wc == [World EXCEPT !.client = c1]
           u == up \cup {Attempt.target}
           v == [wc EXCEPT !.up = u]
<1>1. /\ World.client = client /\ World.app = app /\ World.loop = loop
      /\ World.page = page /\ World.up = up /\ World.client.attempt = Attempt
      /\ World \in Worlds /\ Handled(World) /\ Loose(World) /\ Keyed(World)
      /\ Bounded(World) /\ Badged(World) /\ client \in Clients /\ Attempt \in Attempts
      /\ up \in SUBSET Packs
  BY Here
<1>2. Attempt.stage = "connect" /\ Attempt.current
  BY DEF Connects
<1>3. [World EXCEPT !.client.attempt.stage = "discover", !.up = @ \cup {Attempt.target}] = v
  BY <1>1 DEF Worlds, Clients, Attempts
<1>4. Become(v)
  BY <1>3 DEF Connects
<1>5. /\ att \in Attempts /\ att.stage = "discover" /\ att.id = Attempt.id
      /\ att.target = Attempt.target /\ att.current = Attempt.current
      /\ att.budget = Attempt.budget /\ att.aborted = Attempt.aborted
      /\ att.keeper = Attempt.keeper
  BY <1>1 DEF Attempts, Attaching, Handshaking
<1> HIDE DEF att
<1>6. /\ c1 \in Clients /\ c1.device = client.device /\ c1.wired = client.wired
      /\ c1.subscribed = client.subscribed /\ c1.attempt = att
      /\ c1.closing = client.closing
  BY <1>1, <1>5 DEF Clients
<1> HIDE DEF c1
<1>7. u \in SUBSET Packs
  BY <1>1, <1>2, PackLinkAssumption DEF Handled, Clients, PackOrNone
<1>8. /\ v \in Worlds /\ v.client = c1 /\ v.app = app /\ v.loop = loop
      /\ v.page = page /\ v.up = u
  <2>1. /\ wc \in Worlds /\ wc.client = c1 /\ wc.app = app /\ wc.loop = loop
        /\ wc.page = page
    BY <1>1, <1>6, ClientSet
  <2> HIDE DEF wc, u
  <2> QED BY <2>1, <1>7, UpSet
<1> HIDE DEF v
<1>9. Handled(v)
  BY <1>1, <1>2, <1>5, <1>6, <1>8 DEF Handled, Handshaking
<1>10. Loose(v)
  BY <1>1, <1>2, <1>5, <1>6, <1>8 DEF Loose, Let, Handled
<1>11. Keyed(v) /\ Bounded(v) /\ Badged(v)
  BY <1>1, <1>2, <1>5, <1>6, <1>8 DEF Keyed, Bounded, Aborted, Badged, Lit
<1>12. Kept(v)
  BY <1>8, <1>9, <1>10, <1>11 DEF Kept, Sound
<1>13. ~client.wired
  BY <1>1, <1>2 DEF Handled
<1>14. Stirs(World) => Stirs(v)
  BY <1>1, <1>2, <1>6, <1>8, <1>13, AttemptStirs DEF Alert, Stalled
<1>15. Follows(v)
  BY <1>12, <1>13, <1>14 DEF Follows
<1> QED BY <1>4, <1>15

LEMMA DiscoversSteps ==
  ASSUME Kept(World), Discovers
  PROVE  \E v : Become(v) /\ Follows(v)
<1> DEFINE att == [Attempt EXCEPT !.stage = "subscribe"]
           c1 == [client EXCEPT !.attempt = att, !.subscribed = TRUE]
           v == [World EXCEPT !.client = c1]
<1>1. /\ World.client = client /\ World.app = app /\ World.loop = loop
      /\ World.page = page /\ World.up = up /\ World.client.attempt = Attempt
      /\ World \in Worlds /\ Handled(World) /\ Loose(World) /\ Keyed(World)
      /\ Bounded(World) /\ Badged(World) /\ client \in Clients /\ Attempt \in Attempts
  BY Here
<1>2. Attempt.stage = "discover" /\ Attempt.current
  BY DEF Discovers
<1>3. [World EXCEPT !.client.attempt.stage = "subscribe", !.client.subscribed = TRUE] = v
  BY <1>1 DEF Worlds, Clients, Attempts
<1>4. Become(v)
  BY <1>3 DEF Discovers
<1>5. /\ att \in Attempts /\ att.stage = "subscribe" /\ att.id = Attempt.id
      /\ att.target = Attempt.target /\ att.current = Attempt.current
      /\ att.budget = Attempt.budget /\ att.aborted = Attempt.aborted
      /\ att.keeper = Attempt.keeper
  BY <1>1 DEF Attempts, Attaching, Handshaking
<1> HIDE DEF att
<1>6. /\ c1 \in Clients /\ c1.device = client.device /\ c1.wired = client.wired
      /\ c1.subscribed = TRUE /\ c1.attempt = att
      /\ c1.closing = client.closing
  BY <1>1, <1>5 DEF Clients
<1> HIDE DEF c1
<1>8. /\ v \in Worlds /\ v.client = c1 /\ v.app = app /\ v.loop = loop
      /\ v.page = page /\ v.up = up
  BY <1>1, <1>6, ClientSet
<1> HIDE DEF v
<1>9. Handled(v)
  BY <1>1, <1>2, <1>5, <1>6, <1>8 DEF Handled, Handshaking
<1>10. Loose(v)
  BY <1>1, <1>2, <1>5, <1>6, <1>8 DEF Loose, Let, Handled
<1>11. Keyed(v) /\ Bounded(v) /\ Badged(v)
  BY <1>1, <1>2, <1>5, <1>6, <1>8 DEF Keyed, Bounded, Aborted, Badged, Lit
<1>12. Kept(v)
  BY <1>8, <1>9, <1>10, <1>11 DEF Kept, Sound
<1>13. ~client.wired
  BY <1>1, <1>2 DEF Handled
<1>14. Stirs(World) => Stirs(v)
  BY <1>1, <1>2, <1>6, <1>8, <1>13, AttemptStirs DEF Alert, Stalled
<1>15. Follows(v)
  BY <1>12, <1>13, <1>14 DEF Follows
<1> QED BY <1>4, <1>15

LEMMA SubscribesSteps ==
  ASSUME Kept(World), Subscribes
  PROVE  \E v : Become(v) /\ Follows(v)
<1> DEFINE v == Succeed(World)
<1>1. World.client.attempt.stage = "subscribe" /\ World.client.attempt.current
      /\ Become(v) /\ World.client = client
  BY Here DEF Subscribes
<1>2. Kept(v) /\ Awake(v) /\ Honest(v)
  BY <1>1, SucceedKeeps
<1> HIDE DEF v
<1>3. ~client.wired
  BY <1>1, Here DEF Handled
<1>4. Follows(v)
  BY <1>2, <1>3 DEF Follows, Stirs
<1> QED BY <1>1, <1>4

\* attach has failed, with its link let go or nothing of it left.
LEMMA AttachSteps ==
  ASSUME Kept(World), Attempt.stage \in Attaching,
         NEW w, Sound(w), Bounded(w), w.client.attempt.stage \in Attaching,
         ~w.client.attempt.current, w.app = app, w.loop = loop, w.page = page,
         Stalled(w) => Stalled(World),
         NEW error \in Errors, Become(AttachFails(w, error))
  PROVE  \E v : Become(v) /\ Follows(v)
<1> DEFINE v == AttachFails(w, error)
<1>1. /\ World.client = client /\ World.app = app /\ World.loop = loop
      /\ World.page = page /\ World.client.attempt = Attempt
      /\ Handled(World) /\ Badged(World)
  BY Here
<1>2. Attempt.stage # "none"
  BY DEF Attaching, Handshaking
<1>3. w.app.shown # "live"
  BY <1>1, <1>2 DEF Badged
<1>4. /\ Kept(v) /\ v.page = w.page /\ ~v.client.wired
      /\ v.app.armed = w.app.armed /\ v.app.remembered = w.app.remembered
      /\ v.loop.running = w.loop.running
      /\ w.loop.running /\ Alert(w) => Alert(v)
      /\ Stalled(v) => Stalled(w)
  BY <1>3, AttachFailsKeeps
<1> HIDE DEF v
<1>5. ~client.wired
  BY <1>1, <1>2 DEF Handled
<1>6. Alert(World) <=> Alert(w)
  BY <1>1 DEF Alert
<1>7. Stirs(World) => Stirs(v)
  BY <1>1, <1>2, <1>4, <1>6, AttemptStirs
<1>8. Follows(v)
  BY <1>4, <1>5, <1>7 DEF Follows
<1> QED BY <1>8 DEF v

LEMMA TimesOutSteps ==
  ASSUME Kept(World), TimesOut
  PROVE  \E v : Become(v) /\ Follows(v)
<1> DEFINE g == LetGo(World, "nobody")
<1>1. Attempt.stage \in Attaching /\ Become(AttachFails(g, "radio")) /\ "radio" \in Errors
  BY DEF TimesOut, Errors
<1>2. Sound(World) /\ Bounded(World) /\ World.client.attempt = Attempt
      /\ World.app = app /\ World.loop = loop /\ World.page = page /\ Attempt \in Attempts
  BY Here
<1>3. /\ Sound(g) /\ g.app = World.app /\ g.loop = World.loop /\ g.page = World.page
      /\ g.client.attempt = [World.client.attempt EXCEPT !.current = FALSE]
      /\ ~Stalled(g)
  BY <1>2, LetGoKeeps
<1>4. Bounded(g)
  BY <1>2, LetGoBounded
<1> HIDE DEF g
<1>5. g.client.attempt.stage = Attempt.stage /\ ~g.client.attempt.current
  BY <1>2, <1>3, Superseded
<1> QED BY <1>1, <1>2, <1>3, <1>4, <1>5, AttachSteps

LEMMA UnwindsSteps ==
  ASSUME Kept(World), Unwinds
  PROVE  \E v : Become(v) /\ Follows(v)
<1>1. PICK error \in {"radio", "abort"} : Become(AttachFails(World, error))
  BY DEF Unwinds
<1>2. Attempt.stage \in Attaching /\ ~Attempt.current /\ error \in Errors
  BY DEF Unwinds, Attaching, Errors
<1>3. Sound(World) /\ Bounded(World) /\ World.client.attempt = Attempt
      /\ World.app = app /\ World.loop = loop /\ World.page = page
  BY Here
<1> QED BY <1>1, <1>2, <1>3, AttachSteps

LEMMA HandshakeFailsSteps ==
  ASSUME Kept(World), HandshakeFails
  PROVE  \E v : Become(v) /\ Follows(v)
<1> DEFINE g == LetGo(World, "unwind")
<1>1. Attempt.stage \in Handshaking /\ Attempt.current
  BY DEF HandshakeFails
<1>2. /\ World.client = client /\ World.app = app /\ World.loop = loop
      /\ World.page = page /\ World.up = up /\ World.client.attempt = Attempt
      /\ World \in Worlds /\ Sound(World) /\ Handled(World) /\ Loose(World) /\ Keyed(World)
      /\ Bounded(World) /\ Badged(World) /\ client \in Clients /\ Attempt \in Attempts
      /\ client.closing \in SUBSET Closings
  BY Here
<1>3. CASE ~client.subscribed
  <2>1. Become(AttachFails(g, "radio")) /\ "radio" \in Errors /\ Attempt.stage \in Attaching
    BY <1>1, <1>3 DEF HandshakeFails, Errors, Attaching
  <2>2. /\ Sound(g) /\ g.app = World.app /\ g.loop = World.loop /\ g.page = World.page
        /\ g.client.attempt = [World.client.attempt EXCEPT !.current = FALSE]
        /\ ~Stalled(g)
    BY <1>2, <1>3, LetGoKeeps
  <2>3. Bounded(g)
    BY <1>2, <1>3, LetGoBounded
  <2> HIDE DEF g
  <2>4. g.client.attempt.stage = Attempt.stage /\ ~g.client.attempt.current
    BY <1>2, <2>2, Superseded
  <2> QED BY <1>2, <2>1, <2>2, <2>3, <2>4, AttachSteps
<1>4. CASE client.subscribed
  <2> DEFINE att == [g.client.attempt EXCEPT !.stage = "unwinding"]
             c1 == [g.client EXCEPT !.attempt = att]
             v == [g EXCEPT !.client = c1]
             new == [pack |-> client.device, last |-> TRUE, then |-> "unwind"]
  <2>1. Become([g EXCEPT !.client.attempt.stage = "unwinding"])
    BY <1>4 DEF HandshakeFails
  <2>2. client.device \in Packs /\ client.device \in up
    BY <1>2, <1>4 DEF Handled, Worlds
  <2>3. /\ g \in Worlds /\ g.app = app /\ g.loop = loop /\ g.page = page
        /\ g.client.device = NoPack /\ ~g.client.subscribed /\ ~g.client.wired
        /\ g.client.attempt = [Attempt EXCEPT !.current = FALSE]
        /\ g.client.closing = Forgotten(client.closing) \cup {new}
        /\ g.up = up
    BY <1>2, <1>4, <2>2, LetGoIs
  <2> HIDE DEF g
  <2>4. [g EXCEPT !.client.attempt.stage = "unwinding"] = v
    BY <2>3 DEF Worlds, Clients, Attempts
  <2>5. /\ g.client.attempt \in Attempts /\ g.client.attempt.id = Attempt.id
        /\ g.client.attempt.target = Attempt.target /\ g.client.attempt.current = FALSE
        /\ g.client.attempt.budget = Attempt.budget
        /\ g.client.attempt.aborted = Attempt.aborted
        /\ g.client.attempt.keeper = Attempt.keeper
    BY <1>2, <2>3, Superseded
  <2>6. /\ att \in Attempts /\ att.stage = "unwinding" /\ att.id = Attempt.id
        /\ att.target = Attempt.target /\ att.current = FALSE
        /\ att.budget = Attempt.budget /\ att.aborted = Attempt.aborted
        /\ att.keeper = Attempt.keeper
    BY <2>5 DEF Attempts, Attaching
  <2> HIDE DEF att
  <2>7. /\ c1 \in Clients /\ c1.device = NoPack /\ ~c1.wired /\ ~c1.subscribed
        /\ c1.attempt = att /\ c1.closing = g.client.closing
    BY <2>3, <2>6, WorldFields DEF Clients
  <2> HIDE DEF c1
  <2>8. /\ v \in Worlds /\ v.client = c1 /\ v.app = app /\ v.loop = loop
        /\ v.page = page /\ v.up = up
    BY <2>3, <2>7, ClientSet
  <2> HIDE DEF v
  <2>9. /\ {c.pack : c \in Forgotten(client.closing)} = {c.pack : c \in client.closing}
        /\ \A c \in Forgotten(client.closing) :
             ~c.last /\ \E x \in client.closing : x.then = c.then /\ x.pack = c.pack
    BY <1>2, ForgottenIs
  <2>10. Handled(v)
    BY <2>6, <2>7, <2>8 DEF Handled
  <2>11. new.pack = client.device /\ new.last = TRUE /\ new.then = "unwind"
    OBVIOUS
  <2> HIDE DEF new
  <2>12. Loose(v)
    <3>1. Let(World) \cup {client.device} \subseteq Let(v)
      BY <1>2, <2>3, <2>7, <2>8, <2>9, <2>11 DEF Let
    <3>2. v.up \subseteq Let(v) \cup {v.client.device}
      BY <3>1, <1>2, <2>8 DEF Loose
    <3>3. \A c, d \in v.client.closing : c.last /\ d.last => c = d
      BY <2>3, <2>7, <2>8, <2>9
    <3> QED BY <3>2, <3>3, <2>6, <2>7, <2>8 DEF Loose
  <2>13. Keyed(v) /\ Bounded(v) /\ Badged(v)
    BY <1>1, <1>2, <2>6, <2>7, <2>8 DEF Keyed, Bounded, Aborted, Badged, Handshaking
  <2>14. Kept(v)
    BY <2>8, <2>10, <2>12, <2>13 DEF Kept, Sound
  <2>15. ~Stalled(v)
    BY <2>3, <2>7, <2>8, <2>9, <2>11 DEF Stalled
  <2>16. Attempt.stage # "none"
    BY <1>1 DEF Handshaking
  <2>17. Stirs(World) => Stirs(v)
    BY <1>2, <2>7, <2>8, <2>15, <2>16, AttemptStirs DEF Alert
  <2>18. ~client.wired
    BY <1>2, <2>16 DEF Handled
  <2>19. Follows(v)
    BY <2>14, <2>17, <2>18 DEF Follows
  <2> QED BY <2>1, <2>4, <2>19
<1> QED BY <1>3, <1>4

LEMMA TearDownEndsSteps ==
  ASSUME Kept(World), TearDownEnds
  PROVE  \E v : Become(v) /\ Follows(v)
<1>1. PICK c \in client.closing :
        Become(Closed([World EXCEPT !.client.closing = @ \ {c},
                         !.up = IF client.device # c.pack THEN @ \ {c.pack} ELSE @],
                      c.then, c.last))
  BY DEF TearDownEnds
<1> DEFINE cl == client.closing \ {c}
           c1 == [client EXCEPT !.closing = cl]
           wc == [World EXCEPT !.client = c1]
           u == IF client.device # c.pack THEN up \ {c.pack} ELSE up
           e == [wc EXCEPT !.up = u]
<1>2. /\ World.client = client /\ World.app = app /\ World.loop = loop
      /\ World.page = page /\ World.up = up /\ World.client.attempt = Attempt
      /\ World \in Worlds /\ Handled(World) /\ Loose(World) /\ Keyed(World)
      /\ Bounded(World) /\ Badged(World) /\ client \in Clients /\ up \in SUBSET Packs
      /\ client.closing \in SUBSET Closings
  BY Here
<1>3. [World EXCEPT !.client.closing = @ \ {c},
         !.up = IF client.device # c.pack THEN @ \ {c.pack} ELSE @] = e
  BY <1>2 DEF Worlds, Clients
<1>4. Become(Closed(e, c.then, c.last))
  BY <1>1, <1>3
<1>5. /\ c1 \in Clients /\ c1.device = client.device /\ c1.wired = client.wired
      /\ c1.subscribed = client.subscribed /\ c1.attempt = Attempt /\ c1.closing = cl
  BY <1>2 DEF Clients
<1> HIDE DEF c1
<1>6. u \in SUBSET Packs
  BY <1>2
<1>7. /\ e \in Worlds /\ e.client = c1 /\ e.app = app /\ e.loop = loop
      /\ e.page = page /\ e.up = u
  <2>1. /\ wc \in Worlds /\ wc.client = c1 /\ wc.app = app /\ wc.loop = loop
        /\ wc.page = page
    BY <1>2, <1>5, ClientSet
  <2> HIDE DEF wc, u
  <2> QED BY <2>1, <1>6, UpSet
<1> HIDE DEF e
<1>8. Handled(e)
  BY <1>2, <1>5, <1>7 DEF Handled
<1>9. Loose(e)
  <2>1. \A pack \in u : pack \in Let(e) \cup {client.device}
    <3> TAKE pack \in u
    <3>1. pack = client.device \/ \E x \in client.closing : x.pack = pack
      BY <1>2 DEF Loose, Let
    <3>2. c.pack = pack => pack = client.device
      OBVIOUS
    <3>3. pack = client.device \/ \E x \in cl : x.pack = pack
      BY <3>1, <3>2
    <3> QED BY <3>3, <1>5, <1>7 DEF Let
  <2> QED BY <2>1, <1>2, <1>5, <1>7 DEF Loose
<1>10. Keyed(e) /\ Bounded(e) /\ Sound(e)
  BY <1>2, <1>5, <1>7, <1>8, <1>9 DEF Keyed, Bounded, Aborted, Sound
<1>11. Stalled(e) => Stalled(World)
  BY <1>2, <1>5, <1>7 DEF Stalled
<1>12. ~Ending(c.then, c.last) => Kept(e)
  BY <1>2, <1>5, <1>7, <1>10 DEF Kept, Badged, Lit
<1>13. ~(c.then = "stalled" /\ c.last) => (Stalled(e) <=> Stalled(World))
  BY <1>2, <1>5, <1>7 DEF Stalled
<1>14. c.last => ~client.wired
  BY <1>2 DEF Loose
<1> HIDE DEF u, cl
<1>15. CASE ~Ending(c.then, c.last) /\ c.then # "unwind"
  <2>1. Become(e)
    <3>1. c.then \in {"nobody", "stalled"} /\ (c.then = "stalled" => ~c.last)
      BY <1>2, <1>15 DEF Ending, Closings
    <3> QED BY <3>1, <1>4 DEF Closed
  <2>2. Stirs(World) => Stirs(e)
    <3>1. Stalled(e) <=> Stalled(World)
      BY <1>13, <1>15 DEF Ending
    <3> QED BY <3>1, <1>2, <1>5, <1>7 DEF cl, Stirs, Awake, Honest, Want, Alert
  <2>3. Follows(e)
    BY <2>2, <1>5, <1>7, <1>12, <1>15 DEF Follows
  <2> QED BY <2>1, <2>3
<1>16. CASE c.then = "unwind"
  <2>1. Attempt.stage = "unwinding"
    BY <1>2, <1>16 DEF Loose
  <2>2. Attempt.stage \in Attaching /\ ~Attempt.current
    BY <1>2, <2>1 DEF Attaching, Handled, Handshaking
  <2>3. Become(AttachFails(e, "radio")) /\ "radio" \in Errors
    BY <1>4, <1>16 DEF Closed, Errors
  <2> QED BY <2>2, <2>3, <1>5, <1>7, <1>10, <1>11, AttachSteps
<1>17. CASE c.then = "owner"
  <2> DEFINE v == [e EXCEPT !.app.shown = "idle"]
  <2>1. Become(v)
    BY <1>4, <1>17 DEF Closed
  <2>2. /\ Kept(v) /\ v.client = e.client /\ v.loop = e.loop /\ v.page = e.page
        /\ v.app.armed = e.app.armed /\ v.app.remembered = e.app.remembered
    BY <1>7, <1>10, ShownIdle
  <2> HIDE DEF v
  <2>3. ASSUME NotOvertaken, Stirs(World)
        PROVE  Stirs(v)
    <3>1. ~client.wired
      BY <2>3, <1>14, <1>17 DEF NotOvertaken
    <3>2. ~Stalled(World)
      BY <2>3, <1>2, <1>17 DEF Stirs, Honest
    <3>3. Want(World) => Alert(World)
      BY <2>3, <3>1, <3>2, <1>2 DEF Stirs, Awake
    <3>4. ~Stalled(v) /\ ~v.client.wired
      BY <3>1, <3>2, <2>2, <1>5, <1>7, <1>11 DEF Stalled
    <3>5. Want(v) => Alert(v)
      BY <3>3, <2>2, <1>2, <1>7 DEF Want, Alert
    <3> QED BY <3>4, <3>5 DEF Stirs, Awake, Honest
  <2>4. Follows(v)
    BY <2>2, <2>3, <1>5, <1>7 DEF Follows
  <2> QED BY <2>1, <2>4
<1>18. CASE c.then = "stalled" /\ c.last
  <2> DEFINE v == Dropped(e)
  <2>1. Become(v)
    BY <1>4, <1>18 DEF Closed
  <2>2. ~e.client.wired /\ ~Stalled(e)
    BY <1>2, <1>5, <1>7, <1>14, <1>18 DEF Stalled, Loose, cl
  <2>3. Kept(v) /\ Awake(v) /\ Honest(v)
    BY <2>2, <1>7, <1>10, DroppedKeeps
  <2> HIDE DEF v
  <2>4. Follows(v)
    BY <2>3, <1>14, <1>18 DEF Follows, Stirs
  <2> QED BY <2>1, <2>4
<1> QED BY <1>15, <1>16, <1>17, <1>18 DEF Ending

LEMMA DeadlineSteps ==
  ASSUME Kept(World), Deadline
  PROVE  \E v : Become(v) /\ Follows(v)
<1> DEFINE v == Abort(World)
<1>1. Become(v)
  BY DEF Deadline
<1>2. World.client = client /\ World.client.attempt = Attempt /\ Sound(World)
      /\ Badged(World)
  BY Here
<1>3. CASE Attempt.keeper # "loop"
  <2>1. v = World
    BY <1>2, <1>3, AbortNot
  <2>2. Follows(v)
    BY <2>1, <1>2 DEF Follows
  <2> QED BY <1>1, <2>2
<1>4. CASE Attempt.keeper = "loop"
  <2>1. /\ Kept(v) /\ v.page = World.page
        /\ Attempt.stage # "none" /\ ~client.wired /\ ~v.client.wired
        /\ v.app.armed = World.app.armed /\ v.app.remembered = World.app.remembered
        /\ v.loop.running = World.loop.running
        /\ World.loop.running /\ Alert(World) => Alert(v)
        /\ Stalled(v) => Stalled(World)
    BY <1>2, <1>4, AbortKeeps
  <2> HIDE DEF v
  <2>2. Stirs(World) => Stirs(v)
    BY <2>1, <1>2, AttemptStirs
  <2>3. Follows(v)
    BY <2>1, <2>2 DEF Follows
  <2> QED BY <1>1, <2>3
<1> QED BY <1>3, <1>4

LEMMA LookDueSteps ==
  ASSUME Kept(World), LookDue
  PROVE  \E v : Become(v) /\ Follows(v)
<1> DEFINE v == Look(World)
<1>1. Become(v) /\ World.client = client
  BY Here DEF LookDue
<1>2. Looked(World, v) /\ Awake(v)
  BY LookKeeps
<1> HIDE DEF v
<1>3. Follows(v)
  BY <1>1, <1>2 DEF Looked, Follows, Stirs
<1> QED BY <1>1, <1>3

LEMMA GapEndsSteps ==
  ASSUME Kept(World), GapEnds
  PROVE  \E v : Become(v) /\ Follows(v)
<1> DEFINE l1 == [loop EXCEPT !.recent = FALSE]
           v == [World EXCEPT !.loop = l1]
<1>1. /\ World.client = client /\ World.app = app /\ World.loop = loop
      /\ World.page = page /\ World.up = up /\ World \in Worlds /\ loop \in Loops
  BY Here
<1>2. [World EXCEPT !.loop.recent = FALSE] = v
  BY <1>1 DEF Worlds, Loops
<1>3. Become(v)
  BY <1>2 DEF GapEnds
<1>4. /\ l1 \in Loops /\ l1.running = loop.running /\ l1.standing = loop.standing
      /\ l1.look = loop.look /\ l1.blocker = loop.blocker
  BY <1>1 DEF Loops
<1> HIDE DEF l1
<1>5. /\ v \in Worlds /\ v.client = client /\ v.app = app /\ v.loop = l1
      /\ v.page = page /\ v.up = up
  BY <1>1, <1>4, LoopSet
<1> HIDE DEF v
<1>6. Kept(v) /\ (Honest(World) => Honest(v))
  BY <1>1, <1>4, <1>5, LoopAgain
<1>7. Awake(World) => Awake(v)
  BY <1>1, <1>4, <1>5 DEF Awake, Want, Alert, Stalled
<1>8. Follows(v)
  BY <1>5, <1>6, <1>7 DEF Follows, Stirs
<1> QED BY <1>3, <1>8

LEMMA DropSteps ==
  ASSUME Kept(World), spent \in 0 .. MaxHappenings, Drop
  PROVE  \E v : Become(v) /\ Follows(v)
<1>1. PICK pack \in up :
        LET lost == [World EXCEPT !.up = @ \ {pack}]
            b == Bump(lost)
        IN  IF client.device # pack THEN Become(lost)
            ELSE Become(Dropped([b EXCEPT !.client.device = NoPack,
                                          !.client.subscribed = FALSE,
                                          !.client.wired = FALSE]))
  BY DEF Drop
<1> DEFINE u == up \ {pack}
           lost == [World EXCEPT !.up = u]
           b == Bump(lost)
           c1 == [b.client EXCEPT !.device = NoPack, !.subscribed = FALSE, !.wired = FALSE]
           d == [b EXCEPT !.client = c1]
           v == Dropped(d)
<1>2. /\ World.client = client /\ World.app = app /\ World.loop = loop
      /\ World.page = page /\ World.up = up /\ World.client.attempt = Attempt
      /\ World \in Worlds /\ Handled(World) /\ Loose(World) /\ Keyed(World)
      /\ Bounded(World) /\ Badged(World) /\ up \in SUBSET Packs
      /\ Attempt \in Attempts /\ client.closing \in SUBSET Closings
      /\ client \in Clients
  BY Here
<1>3. spent' # spent
  BY Spends DEF Drop
<1>4. [World EXCEPT !.up = @ \ {pack}] = lost
  BY <1>2 DEF Worlds
<1>5. u \in SUBSET Packs
  BY <1>2
<1> HIDE DEF u
<1>6. /\ lost \in Worlds /\ lost.client = client /\ lost.app = app /\ lost.loop = loop
      /\ lost.page = page /\ lost.up = u
  BY <1>2, <1>5, UpSet
<1>7. IF client.device # pack THEN Become(lost)
      ELSE Become(Dropped([b EXCEPT !.client.device = NoPack, !.client.subscribed = FALSE,
                                    !.client.wired = FALSE]))
  BY <1>1, <1>4
<1> HIDE DEF lost
<1>8. CASE client.device # pack
  <2>1. Handled(lost)
    BY <1>2, <1>6, <1>8 DEF Handled, u
  <2>2. Loose(lost)
    BY <1>2, <1>6 DEF Loose, Let, u
  <2>3. Keyed(lost) /\ Bounded(lost) /\ Badged(lost)
    BY <1>2, <1>6 DEF Keyed, Bounded, Aborted, Badged, Lit
  <2>4. Kept(lost)
    BY <1>6, <2>1, <2>2, <2>3 DEF Kept, Sound
  <2>5. Stirs(World) => Stirs(lost)
    BY <1>2, <1>6 DEF Stirs, Awake, Honest, Want, Alert, Stalled
  <2>6. Follows(lost)
    BY <2>4, <2>5, <1>3 DEF Follows
  <2> QED BY <2>6, <1>7, <1>8
<1>9. CASE client.device = pack
  <2>1. /\ b \in Worlds /\ b.app = app /\ b.loop = loop /\ b.page = page /\ b.up = u
        /\ b.client.attempt = [Attempt EXCEPT !.current = FALSE]
        /\ b.client.closing = Forgotten(client.closing)
    BY <1>2, <1>6, BumpIs DEF Attempt
  <2> HIDE DEF b
  <2>2. [b EXCEPT !.client.device = NoPack, !.client.subscribed = FALSE,
                  !.client.wired = FALSE] = d
    BY <2>1 DEF Worlds, Clients
  <2>3. Become(v)
    BY <2>2, <1>7, <1>9
  <2>4. /\ c1 \in Clients /\ c1.device = NoPack /\ ~c1.subscribed /\ ~c1.wired
        /\ c1.attempt = [Attempt EXCEPT !.current = FALSE]
        /\ c1.closing = Forgotten(client.closing)
    BY <2>1, WorldFields DEF Clients, PackOrNone
  <2> HIDE DEF c1
  <2>5. /\ d \in Worlds /\ d.client = c1 /\ d.app = app /\ d.loop = loop
        /\ d.page = page /\ d.up = u
    BY <2>1, <2>4, ClientSet
  <2> HIDE DEF d
  <2>6. /\ c1.attempt.stage = Attempt.stage /\ c1.attempt.id = Attempt.id
        /\ c1.attempt.target = Attempt.target /\ c1.attempt.current = FALSE
        /\ c1.attempt.budget = Attempt.budget /\ c1.attempt.aborted = Attempt.aborted
        /\ c1.attempt.keeper = Attempt.keeper
    BY <1>2, <2>4, Superseded
  <2>7. /\ {c.pack : c \in Forgotten(client.closing)} = {c.pack : c \in client.closing}
        /\ \A c \in Forgotten(client.closing) :
             ~c.last /\ \E x \in client.closing : x.then = c.then /\ x.pack = c.pack
    BY <1>2, ForgottenIs
  <2>8. Handled(d)
    BY <2>4, <2>5, <2>6 DEF Handled
  <2>9. Loose(d)
    <3>1. Let(d) = Let(World)
      BY <1>2, <2>4, <2>5, <2>7 DEF Let
    <3>2. d.up \subseteq Let(d) \cup {d.client.device}
      BY <3>1, <1>2, <1>9, <2>5 DEF Loose, u
    <3>3. \A c \in d.client.closing : ~c.last /\ (c.then = "unwind" =>
                                                    d.client.attempt.stage = "unwinding")
      <4>1. \A x \in client.closing : x.then = "unwind" => Attempt.stage = "unwinding"
        BY <1>2 DEF Loose
      <4>2. d.client.closing = Forgotten(client.closing) /\ d.client.attempt.stage = Attempt.stage
        BY <2>4, <2>5, <2>6
      <4> QED BY <4>1, <4>2, <2>7
    <3> QED BY <3>2, <3>3 DEF Loose
  <2>10. Keyed(d)
    <3>1. Attempt = NoAttempt => c1.attempt = NoAttempt
      BY <2>4, Idle
    <3> QED BY <3>1, <1>2, <2>5, <2>6 DEF Keyed
  <2>11. Bounded(d) /\ Sound(d)
    BY <1>2, <2>5, <2>6, <2>8, <2>9, <2>10 DEF Bounded, Aborted, Sound
  <2>12. ~d.client.wired /\ ~Stalled(d)
    BY <2>4, <2>5, <2>7 DEF Stalled
  <2>13. Kept(v) /\ Awake(v) /\ Honest(v)
    BY <2>5, <2>11, <2>12, DroppedKeeps
  <2> HIDE DEF v
  <2>14. Follows(v)
    BY <2>13, <1>3 DEF Follows, Stirs
  <2> QED BY <2>3, <2>14
<1> QED BY <1>8, <1>9

LEMMA StallSteps ==
  ASSUME Kept(World), spent \in 0 .. MaxHappenings, Stall
  PROVE  \E v : Become(v) /\ Follows(v)
<1> DEFINE v == Close(World, "stalled")
<1>1. Become(v) /\ World.client = client /\ client.wired /\ spent' # spent
      /\ Loose(World)
  BY Here, Spends DEF Stall
<1>2. /\ Kept(v) /\ Stalled(v)
      /\ Honest(World) /\ (\A c \in client.closing : c.then # "owner") => Honest(v)
  BY <1>1, StalledCloseKeeps
<1> HIDE DEF v
<1>3. NotOvertaken => \A c \in client.closing : c.then # "owner"
  BY <1>1 DEF NotOvertaken, Loose
<1>4. Follows(v)
  BY <1>1, <1>2, <1>3 DEF Follows, Stirs, Awake
<1> QED BY <1>1, <1>4

\* A turn of the page, and the look that follows it.
LEMMA TurnSteps ==
  ASSUME Kept(World), NEW p \in Pages, NEW l \in Loops, l.standing = loop.standing,
         Become(Look([[World EXCEPT !.page = p] EXCEPT !.loop = l]))
  PROVE  \E v : Become(v) /\ Follows(v)
<1> DEFINE t == [World EXCEPT !.page = p]
           u == [t EXCEPT !.loop = l]
           v == Look(u)
<1>1. /\ World.client = client /\ World.app = app /\ World.loop = loop
      /\ World.up = up /\ World \in Worlds /\ Badged(World)
  BY Here
<1>2. /\ t \in Worlds /\ t.client = client /\ t.app = app /\ t.loop = loop
      /\ t.page = p /\ t.up = up
  BY <1>1, PageSet
<1> HIDE DEF t
<1>3. /\ u \in Worlds /\ u.client = client /\ u.app = app /\ u.loop = l
      /\ u.page = p /\ u.up = up
  BY <1>2, LoopSet
<1> HIDE DEF u
<1>4. Kept(u)
  BY <1>1, <1>3, KeptAgain DEF Badged
<1>5. Honest(World) => Honest(u)
  BY <1>1, <1>3 DEF Honest, Stalled
<1>6. Looked(u, v) /\ Awake(v)
  BY <1>4, LookKeeps
<1>7. Become(v)
  BY DEF u, t
<1> HIDE DEF v
<1>8. Follows(v)
  BY <1>3, <1>5, <1>6 DEF Follows, Stirs, Looked
<1> QED BY <1>7, <1>8

LEMMA TurnPageSteps ==
  ASSUME Kept(World), TurnPage \/ TurnAdapter
  PROVE  \E v : Become(v) /\ Follows(v)
<1> DEFINE f == [page EXCEPT !.front = ~@]
           r == [page EXCEPT !.adapterOn = ~@]
<1>1. World \in Worlds /\ World.page = page /\ page \in Pages /\ loop \in Loops
      /\ World.loop = loop
  BY Here
<1>2. f \in Pages /\ r \in Pages
  BY <1>1 DEF Pages
<1>3. [World EXCEPT !.page.front = ~@] = [[World EXCEPT !.page = f] EXCEPT !.loop = loop]
  BY <1>1 DEF Worlds, Pages
<1>4. [World EXCEPT !.page.adapterOn = ~@] = [[World EXCEPT !.page = r] EXCEPT !.loop = loop]
  BY <1>1 DEF Worlds, Pages
<1>5. \/ Become(Look([[World EXCEPT !.page = f] EXCEPT !.loop = loop]))
      \/ Become(Look([[World EXCEPT !.page = r] EXCEPT !.loop = loop]))
  BY <1>3, <1>4 DEF TurnPage, TurnAdapter
<1> HIDE DEF f, r
<1> QED BY <1>1, <1>2, <1>5, TurnSteps

LEMMA RevokeSteps ==
  ASSUME Kept(World), Revoke
  PROVE  \E v : Become(v) /\ Follows(v)
<1>1. PICK pack \in page.permitted :
        Become([World EXCEPT !.page.permitted = @ \ {pack}])
  BY DEF Revoke
<1> DEFINE pg == [page EXCEPT !.permitted = @ \ {pack}]
           v == [World EXCEPT !.page = pg]
<1>2. /\ World.client = client /\ World.app = app /\ World.loop = loop
      /\ World.page = page /\ World.up = up /\ World \in Worlds /\ page \in Pages
  BY Here
<1>3. Become(v)
  <2>1. [World EXCEPT !.page.permitted = @ \ {pack}] = v
    BY <1>2 DEF Worlds, Pages
  <2> QED BY <2>1, <1>1
<1>4. pg \in Pages /\ pg.adapterOn = page.adapterOn
  BY <1>2 DEF Pages
<1> HIDE DEF pg
<1>5. /\ v \in Worlds /\ v.client = client /\ v.app = app /\ v.loop = loop
      /\ v.page = pg /\ v.up = up
  BY <1>2, <1>4, PageSet
<1> HIDE DEF v
<1>6. Kept(v) /\ (Stirs(World) => Stirs(v))
  BY <1>2, <1>4, <1>5, SameStirs
<1>7. Follows(v)
  BY <1>5, <1>6 DEF Follows
<1> QED BY <1>3, <1>7

LEMMA StartUpSteps ==
  ASSUME Kept(World), Start
  PROVE  \E v : Become(v) /\ Follows(v)
<1> DEFINE pg == [page EXCEPT !.view = "mounted"]
           l1 == [loop EXCEPT !.running = TRUE]
<1>1. World \in Worlds /\ World.page = page /\ page \in Pages /\ loop \in Loops
      /\ World.loop = loop
  BY Here
<1>2. pg \in Pages /\ l1 \in Loops /\ l1.standing = loop.standing
  BY <1>1 DEF Pages, Loops
<1>3. [World EXCEPT !.page.view = "mounted", !.loop.running = TRUE]
        = [[World EXCEPT !.page = pg] EXCEPT !.loop = l1]
  BY <1>1 DEF Worlds, Pages, Loops
<1>4. Become(Look([[World EXCEPT !.page = pg] EXCEPT !.loop = l1]))
  BY <1>3 DEF Start
<1> HIDE DEF pg, l1
<1> QED BY <1>2, <1>4, TurnSteps

LEMMA StopSteps ==
  ASSUME Kept(World), spent \in 0 .. MaxHappenings, Stop
  PROVE  \E v : Become(v) /\ Follows(v)
<1> DEFINE pg == [page EXCEPT !.view = "gone"]
           l1 == [loop EXCEPT !.running = FALSE]
           t == [World EXCEPT !.page = pg]
           u == [t EXCEPT !.loop = l1]
           s == StandDown(u)
           l2 == [s.loop EXCEPT !.blocker = "none"]
           v == [s EXCEPT !.loop = l2]
<1>1. /\ World.client = client /\ World.app = app /\ World.loop = loop
      /\ World.page = page /\ World.up = up /\ World \in Worlds /\ Badged(World)
      /\ page \in Pages /\ loop \in Loops
  BY Here
<1>2. spent' # spent
  BY Spends DEF Stop
<1>3. [World EXCEPT !.page.view = "gone", !.loop.running = FALSE] = u
  BY <1>1 DEF Worlds, Pages, Loops
<1>4. Become([s EXCEPT !.loop.blocker = "none"])
  <2> DEFINE raw == [World EXCEPT !.page.view = "gone", !.loop.running = FALSE]
  <2>1. Become([StandDown(raw) EXCEPT !.loop.blocker = "none"])
    BY DEF Stop
  <2>2. raw = u
    BY <1>3
  <2> HIDE DEF raw, u
  <2> QED BY <2>1, <2>2
<1>5. pg \in Pages /\ l1 \in Loops /\ l1.standing = loop.standing /\ l1.running = FALSE
  BY <1>1 DEF Pages, Loops
<1> HIDE DEF pg, l1
<1>6. /\ t \in Worlds /\ t.client = client /\ t.app = app /\ t.loop = loop
      /\ t.page = pg /\ t.up = up
  BY <1>1, <1>5, PageSet
<1> HIDE DEF t
<1>7. /\ u \in Worlds /\ u.client = client /\ u.app = app /\ u.loop = l1
      /\ u.page = pg /\ u.up = up
  BY <1>5, <1>6, LoopSet
<1> HIDE DEF u
<1>8. Kept(u)
  BY <1>1, <1>5, <1>7, KeptAgain DEF Badged
<1>9. Honest(World) => Honest(u)
  BY <1>1, <1>7 DEF Honest, Stalled
<1>10. Kept(s) /\ s.loop.running = FALSE /\ (Honest(u) => Honest(s))
  BY <1>5, <1>7, <1>8, StandDownKeeps
<1> HIDE DEF s
<1>11. s \in Worlds /\ s.loop \in Loops
  BY <1>10, WorldFields DEF Kept, Sound
<1>12. [s EXCEPT !.loop.blocker = "none"] = v
  BY <1>11 DEF Worlds, Loops
<1>13. /\ l2 \in Loops /\ l2.running = s.loop.running /\ l2.standing = s.loop.standing
  BY <1>11 DEF Loops
<1> HIDE DEF l2
<1>14. /\ v \in Worlds /\ v.client = s.client /\ v.app = s.app /\ v.loop = l2
       /\ v.page = s.page /\ v.up = s.up
  BY <1>11, <1>13, LoopSet
<1> HIDE DEF v
<1>15. Kept(v) /\ (Honest(s) => Honest(v))
  BY <1>10, <1>13, <1>14, LoopAgain
<1>16. Awake(v)
  BY <1>10, <1>13, <1>14 DEF Awake, Want
<1>17. Follows(v)
  BY <1>2, <1>9, <1>10, <1>15, <1>16 DEF Follows, Stirs
<1> QED BY <1>4, <1>12, <1>17

-----------------------------------------------------------------------------
(* The invariant *)

LEMMA Started ==
  ASSUME Init
  PROVE  IInv /\ Stirs(World)
<1>1. PICK pack \in Packs \cup {NoPack}, armed \in BOOLEAN :
        app = [shown |-> "idle", armed |-> armed, remembered |-> pack, waiting |-> {}]
  BY DEF Init
<1>2. client \in Clients /\ app \in Apps /\ loop \in Loops /\ page \in Pages /\ up = {}
  BY <1>1, Idle DEF Init, Clients, Apps, Loops, Pages, PackOrNone
<1>3. /\ client.device = NoPack /\ ~client.subscribed /\ ~client.wired
      /\ client.attempt = NoAttempt /\ client.closing = {}
      /\ app.shown = "idle" /\ ~loop.running
  BY <1>1 DEF Init
<1>4. /\ World.client = client /\ World.app = app /\ World.loop = loop
      /\ World.page = page /\ World.up = up
  BY DEF World
<1>5. World \in Worlds
  BY <1>2 DEF World, Worlds
<1>6. Handled(World) /\ Loose(World) /\ Keyed(World) /\ Bounded(World) /\ Badged(World)
  BY <1>2, <1>3, <1>4, Idle DEF Handled, Loose, Keyed, Bounded, Badged
<1>7. Stirs(World)
  BY <1>3, <1>4 DEF Stirs, Awake, Honest, Want, Stalled
<1>8. spent \in 0 .. MaxHappenings
  BY PackLinkAssumption DEF Init
<1> QED BY <1>5, <1>6, <1>7, <1>8 DEF IInv, Kept, Sound

LEMMA Spending ==
  ASSUME spent \in 0 .. MaxHappenings, Next
  PROVE  spent' \in 0 .. MaxHappenings
<1>1. Happens \/ UNCHANGED spent
  BY DEF Next, Press, Settles, Ticks, Turns, PressConnect, PressReconnect, PressRejoin,
         PressDisconnect, Pressed, ChooserPicks, ChooserCancelled, ListingEnds,
         ListingRefused, Connects, Discovers, Subscribes, HandshakeFails, Unwinds,
         TimesOut, Sighted, WatchRefused, TearDownEnds, Deadline, LookDue, GapEnds,
         Drop, Stall, TurnPage, TurnAdapter, Revoke, Start, Stop
<1> QED BY <1>1, Spends

LEMMA Steps ==
  ASSUME IInv, Next
  PROVE  \E v : Become(v) /\ Follows(v)
<1>1. Kept(World) /\ spent \in 0 .. MaxHappenings
  BY DEF IInv
<1>2. CASE Press
  BY <1>1, <1>2, PressConnectSteps, PressReconnectSteps, PressRejoinSteps,
     PressDisconnectSteps DEF Press
<1>3. CASE Settles
  BY <1>1, <1>3, ChooserPicksSteps, ChooserCancelledSteps, ListingEndsSteps,
     ListingRefusedSteps, ConnectsSteps, DiscoversSteps, SubscribesSteps,
     HandshakeFailsSteps, UnwindsSteps, TimesOutSteps, SightedSteps, WatchRefusedSteps,
     TearDownEndsSteps DEF Settles
<1>4. CASE Ticks
  BY <1>1, <1>4, DeadlineSteps, LookDueSteps, GapEndsSteps DEF Ticks
<1>5. CASE Turns
  BY <1>1, <1>5, DropSteps, StallSteps, TurnPageSteps, RevokeSteps, StartUpSteps, StopSteps
     DEF Turns
<1> QED BY <1>2, <1>3, <1>4, <1>5 DEF Next

LEMMA Preserved ==
  ASSUME IInv, [Next]_vars
  PROVE  /\ IInv'
         /\ NotOvertaken /\ Stirs(World) => Stirs(World')
         /\ spent' = spent /\ client.wired => client'.wired
<1>1. CASE Next
  <2>1. PICK v : Become(v) /\ Follows(v)
    BY <1>1, Steps
  <2>2. World' = v
    <3>1. v \in Worlds
      BY <2>1 DEF Follows, Kept, Sound
    <3> QED BY <2>1, <3>1 DEF Become, World, Worlds
  <2>3. spent' \in 0 .. MaxHappenings
    BY <1>1, Spending DEF IInv
  <2>4. client' = v.client
    BY <2>1 DEF Become
  <2> QED BY <2>1, <2>2, <2>3, <2>4 DEF Follows, IInv
<1>2. CASE UNCHANGED vars
  <2>1. World' = World /\ spent' = spent /\ client' = client
    BY <1>2 DEF vars, World
  <2> QED BY <2>1 DEF IInv
<1> QED BY <1>1, <1>2

-----------------------------------------------------------------------------
(* The theorems *)

\* In every state the client, the supervisor and telemetry can reach, the handle,
\* the attempt, the teardowns and the badge agree.
THEOREM KeptAlways == Spec => []IInv
<1>1. Init => IInv
  BY Started
<1>2. IInv /\ [Next]_vars => IInv'
  BY Preserved
<1> QED BY <1>1, <1>2, PTL DEF Spec

\* JkBmsClient's attempts and teardowns leave no link over, the supervisor bounds
\* every attempt it began, and connectionState says live of nothing else.
THEOREM EveryLinkIsAccountedFor == Spec => []LinkIsAccountedFor
<1>1. ASSUME IInv PROVE LinkIsAccountedFor
  <2>1. /\ Kept(World) /\ spent \in 0 .. MaxHappenings
        /\ World.client = client /\ World.app = app /\ World.loop = loop
        /\ World.page = page /\ World.up = up /\ World.client.attempt = Attempt
        /\ client \in Clients /\ app \in Apps /\ loop \in Loops /\ page \in Pages
        /\ up \in SUBSET Packs
        /\ Handled(World) /\ Loose(World) /\ Bounded(World) /\ Badged(World)
    BY <1>1, Here DEF IInv
  <2>2. TypeOK
    BY <2>1 DEF TypeOK, Clients, Apps, Loops, Pages
  <2>3. client.wired => Linked
    BY <2>1 DEF Handled, Linked
  <2>4. HeldPackAnswers
    BY <2>1, <2>3, Idle DEF HeldPackAnswers, Handled, Handshaking
  <2>5. NoStrayLink
    BY <2>1 DEF NoStrayLink, Loose, Let
  <2>6. LiveIsALink
    BY <2>1, <2>3 DEF LiveIsALink, Badged, Lit, Ending
  <2>7. AttemptsAreBounded
    BY <2>1 DEF AttemptsAreBounded, Bounded, Aborted
  <2> QED BY <2>2, <2>4, <2>5, <2>6, <2>7 DEF LinkIsAccountedFor
<1> QED BY <1>1, KeptAlways, PTL

LEMMA LinkedIsWired ==
  ASSUME IInv
  PROVE  Linked <=> client.wired
<1>1. World.client = client /\ World.up = up /\ Handled(World)
  BY Here DEF IInv
<1> QED BY <1>1 DEF Handled, Linked

\* tearDownLink, an attempt gone before, a deadline and a look leave a link that
\* carries the pack alone.
THEOREM OnlyOutsideEndsALink == Spec => LinkEndsOnlyFromOutside
<1>1. ASSUME IInv, IInv', [Next]_vars PROVE Linked /\ spent' = spent => Linked'
  <2>1. Linked <=> client.wired
    BY <1>1, LinkedIsWired
  <2>2. Linked' <=> client'.wired
    <3>1. World'.client = client' /\ World'.up = up' /\ Handled(World')
      BY <1>1 DEF IInv, Kept, Sound, World
    <3> QED BY <3>1 DEF Handled, Linked
  <2> QED BY <1>1, <2>1, <2>2, Preserved
<1> QED BY <1>1, KeptAlways, PTL DEF Spec, LinkEndsOnlyFromOutside

LEMMA StirsAlways == Spec /\ []NotOvertaken => []Stirs(World)
<1>1. Init => Stirs(World)
  BY Started
<1>2. IInv /\ NotOvertaken /\ Stirs(World) /\ [Next]_vars => Stirs(World)'
  BY Preserved
<1> QED BY <1>1, <1>2, KeptAlways, PTL DEF Spec

\* The rejoin supervisor's look always leaves an attempt, another look or a word
\* to the owner behind, as long as no link has overtaken a disconnectBms.
THEOREM NeverAsleepForNothing == Spec /\ []NotOvertaken => []SleepsOnlyWithReason
<1>1. ASSUME IInv, Stirs(World) PROVE SleepsOnlyWithReason
  <2>1. /\ World.client = client /\ World.app = app /\ World.loop = loop
        /\ World.page = page /\ Handled(World)
    BY <1>1, Here DEF IInv
  <2>2. client.device = NoPack => ~client.wired
    BY <2>1 DEF Handled
  <2>3. client.closing = {} => ~Stalled(World)
    BY <2>1 DEF Stalled
  <2>4. Wanted => Want(World)
    BY <2>1 DEF Wanted, Want
  <2> QED BY <1>1, <2>1, <2>2, <2>3, <2>4
          DEF SleepsOnlyWithReason, Stirs, Awake, Alert
<1> QED BY <1>1, KeptAlways, StirsAlways, PTL

\* The same for the badge: a link that carries the pack is shown as live.
THEOREM AnsweringLinkIsShown == Spec /\ []NotOvertaken => []LinkIsShown
<1>1. ASSUME IInv, Stirs(World) PROVE LinkIsShown
  <2>1. World.client = client /\ World.app = app
    BY <1>1, Here DEF IInv
  <2> QED BY <1>1, <2>1 DEF LinkIsShown, Linked, Stirs, Honest
<1> QED BY <1>1, KeptAlways, StirsAlways, PTL
=============================================================================
