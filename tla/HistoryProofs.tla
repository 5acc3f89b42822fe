--------------------------- MODULE HistoryProofs ---------------------------
(***************************************************************************)
(* What is proved of the recordings: of the browser that shows them, and   *)
(* of the archive that keeps them.  The two are machines of their own and  *)
(* share no variable.                                                      *)
(*                                                                         *)
(* The browser: what is on screen is what was asked for, for any archives, *)
(* sessions, stretches and packs, and any number of answers out at once.   *)
(* One invariant carries it: a call whose token still stands was made of   *)
(* the archive and about the session that are chosen now.                  *)
(*                                                                         *)
(* The archive: its totals are those of its rows, and no sample of a       *)
(* session that stands goes before the whole of its hour, for any pages,   *)
(* sessions, instants, hours, allowances and limits.  A sum over chunks is *)
(* the size of a set, so that a chunk put, sealed or cut adds or takes     *)
(* what it holds.  The second claim needs to know what a summary stands    *)
(* for: every raw row of its hour, and, while its session may be summarised*)
(* again, nothing that is not still raw.                                   *)
(***************************************************************************)
EXTENDS HistoryBrowser, ArchiveStore, FiniteSetTheorems, WellFoundedInduction, TLAPS

-----------------------------------------------------------------------------
(* The invariant, of a browser over the store in force *)

\* A call whose token stands is one whose answer may be shown: it was made of
\* the store in force, about the session last asked for, and that store knows.
CallSound(a, store, c) ==
  c.fresh =>
    /\ c.kind \in {"list"} \cup OfSession \cup OfLedger => c.on = store
    /\ c.kind \in OfSession => c.of = a.requested
    /\ c.kind = "read" => /\ c.window = a.window
                          /\ store \notin Imported => a.viewing[store] = c.of

ShownSound(a, store) ==
  /\ {a.listed, a.loaded.from, a.ledger.from} \subseteq {store, NoStore}
  /\ a.loaded.of # NoId =>
       /\ a.loaded.from # NoStore
       /\ a.loaded.of = a.requested
       /\ a.loading \/ a.loaded.window = a.window
       /\ store \notin Imported => a.viewing[store] = a.loaded.of

ToldSound(a, store) ==
  \A s \in Stores : a.viewing[s] # NoId => s = store /\ s \notin Imported /\ a.viewing[s] = a.requested

Sound(a, store) ==
  /\ a.subscribed = store
  /\ ShownSound(a, store)
  /\ ToldSound(a, store)
  /\ \A c \in a.calls : CallSound(a, store, c)

IInv == TypeOK /\ Sound(b, given)

-----------------------------------------------------------------------------
(* Calls and tokens *)

LEMMA CallTyped ==
  ASSUME NEW kind \in OfSession \cup OfLedger \cup {"list", "delete", "amend", "forget", "leave"},
         NEW on \in StoreOrNone, NEW of \in IdOrNone \cup Keys, NEW window \in WindowOrNone,
         NEW listing \in BOOLEAN,
         kind \in OfSession \cup {"delete"} => of \in Ids,
         kind \in OfLedger \cup {"forget"} => of \in Keys,
         kind # "leave" => on \in Stores
  PROVE  /\ Call(kind, on, of, window) \in Calls
         /\ [Call(kind, on, of, window) EXCEPT !.listing = listing] \in Calls
  BY DEF Call, Calls

LEMMA StaleTyped ==
  ASSUME NEW calls \in SUBSET Calls, NEW kinds
  PROVE  Stale(calls, kinds) \in SUBSET Calls
<1> SUFFICES ASSUME NEW c \in calls, c.kind \in kinds
             PROVE  [c EXCEPT !.fresh = FALSE] \in Calls
  BY DEF Stale
<1> QED BY DEF Calls

\* A call whose token is still good was not of a kind that was made stale.
LEMMA StaleFresh ==
  ASSUME NEW calls \in SUBSET Calls, NEW kinds, NEW c \in Stale(calls, kinds), c.fresh
  PROVE  c \in calls /\ c.kind \notin kinds
<1>1. PICK d \in calls : c = IF d.kind \in kinds THEN [d EXCEPT !.fresh = FALSE] ELSE d
  BY DEF Stale
<1>2. d \in [kind : OfSession \cup OfLedger \cup {"list", "delete", "amend", "forget", "leave"},
             on : StoreOrNone, of : IdOrNone \cup Keys, window : WindowOrNone,
             fresh : BOOLEAN, listing : BOOLEAN]
  BY DEF Calls
<1>3. d.kind \notin kinds
  BY <1>1, <1>2
<1> QED BY <1>1, <1>3

-----------------------------------------------------------------------------
(* The browser's own functions *)

\* Telling a store what is on screen changes nothing else.
LEMMA TellsTyped ==
  ASSUME NEW a \in Browsers, NEW store \in StoreOrNone, NEW id \in IdOrNone
  PROVE  /\ Tells(a, store, id) \in Browsers
         /\ Tells(a, store, id) = [a EXCEPT !.viewing = Tells(a, store, id).viewing]
         /\ \A s \in Stores : Tells(a, store, id).viewing[s] =
              IF s = store /\ s \notin Imported THEN id ELSE a.viewing[s]
  BY DEF Tells, Browsers

LEMMA NoneTyped ==
  /\ NoStore \in StoreOrNone /\ NoId \in IdOrNone /\ NoKey \in KeyOrNone
  /\ NoSession \in [of : IdOrNone, window : WindowOrNone, from : StoreOrNone]
  /\ NoLedger \in [of : KeyOrNone, from : StoreOrNone]
  BY DEF NoSession, NoLedger, StoreOrNone, IdOrNone, WindowOrNone, KeyOrNone

LEMMA ClearedTyped ==
  ASSUME NEW a \in Browsers
  PROVE  /\ Cleared(a) \in Browsers
         /\ Cleared(a).listed = NoStore /\ Cleared(a).loaded = NoSession
         /\ Cleared(a).ledger = NoLedger /\ Cleared(a).exported = "idle"
         /\ Cleared(a).viewing = a.viewing /\ Cleared(a).requested = a.requested
         /\ Cleared(a).calls = Stale(a.calls, {"list"} \cup OfSession \cup OfLedger)
<1>1. Stale(a.calls, {"list"} \cup OfSession \cup OfLedger) \in SUBSET Calls
  BY StaleTyped DEF Browsers
<1> QED BY <1>1, NoneTyped DEF Cleared, Browsers

LEMMA ActiveSound ==
  ASSUME NEW a \in Browsers, NEW old \in StoreOrNone, NEW store \in StoreOrNone, Sound(a, old)
  PROVE  /\ Active(a, store) \in Browsers
         /\ Sound(Active(a, store), store)
         /\ Active(a, store).requested = a.requested
         /\ old # store => Active(a, store).loaded.of = NoId /\ Active(a, store).exported = "idle"
         /\ old = store => Active(a, store) = a
<1> DEFINE at == Active(a, store)
<1>1. CASE store = old
  BY <1>1 DEF Active, Sound
<1>2. CASE store # old
  <2> DEFINE q == Tells(a, old, NoId)
             stale == Stale(q.calls, {"list"} \cup OfSession \cup OfLedger)
  <2>0. NoId \in IdOrNone
    BY DEF IdOrNone
  <2>1. /\ q \in Browsers
        /\ q = [a EXCEPT !.viewing = q.viewing]
        /\ \A s \in Stores : q.viewing[s] = IF s = old /\ s \notin Imported THEN NoId ELSE a.viewing[s]
    BY <2>0, TellsTyped
  <2>2. stale \in SUBSET Calls
    BY <2>1, StaleTyped DEF Browsers
  <2>3. at = [Cleared(q) EXCEPT !.deferred = a.requested, !.subscribed = store]
    BY <1>2 DEF Active, Sound
  <2>4. /\ at \in Browsers /\ at.calls = stale /\ at.viewing = q.viewing /\ at.requested = a.requested
        /\ at.subscribed = store /\ at.listed = NoStore /\ at.loaded = NoSession
        /\ at.ledger = NoLedger /\ at.exported = "idle"
    <3>1. q.requested = a.requested /\ a.requested \in IdOrNone
      BY <2>1 DEF Browsers
    <3>2. Cleared(q) \in Browsers
      BY <2>1, ClearedTyped
    <3>3. at \in Browsers
      BY <2>3, <3>1, <3>2 DEF Browsers
    <3>4. /\ at.subscribed = store
          /\ at.requested = Cleared(q).requested /\ at.calls = Cleared(q).calls
          /\ at.viewing = Cleared(q).viewing /\ at.listed = Cleared(q).listed
          /\ at.loaded = Cleared(q).loaded /\ at.ledger = Cleared(q).ledger
          /\ at.exported = Cleared(q).exported
      BY <2>3, <3>2 DEF Browsers
    <3> HIDE DEF at, q
    <3> QED BY <2>1, <3>1, <3>3, <3>4, ClearedTyped
  <2>5. \A s \in Stores : at.viewing[s] = NoId
    BY <2>1, <2>4 DEF Sound, ToldSound, StoreOrNone
  <2>6. \A c \in at.calls : c.fresh => c.kind \notin {"list"} \cup OfSession \cup OfLedger
    BY <2>1, <2>4, StaleFresh DEF Browsers
  <2>7. Sound(at, store)
    <3> HIDE DEF at
    <3>1. ShownSound(at, store)
      BY <2>4 DEF ShownSound, NoSession, NoLedger
    <3>2. ToldSound(at, store)
      BY <2>5 DEF ToldSound
    <3>3. \A c \in at.calls : CallSound(at, store, c)
      BY <2>6 DEF CallSound, OfSession
    <3> QED BY <2>4, <3>1, <3>2, <3>3 DEF Sound
  <2> QED BY <1>2, <2>4, <2>7 DEF NoSession
<1> QED BY <1>1, <1>2

LEMMA SoundKept ==
  ASSUME NEW a \in Browsers, NEW q \in Browsers, NEW store \in StoreOrNone, Sound(a, store),
         q.subscribed = a.subscribed, q.requested = a.requested,
         q.window = a.window, q.viewing = a.viewing, ShownSound(q, store),
         \A c \in q.calls : c.fresh => c \in a.calls \/ CallSound(q, store, c)
  PROVE  Sound(q, store)
<1>1. \A c \in q.calls : CallSound(q, store, c)
  BY DEF Sound, CallSound
<1> QED BY <1>1 DEF Sound, ToldSound

\* Half sound: what loadSession leaves to read to put right.
AskedSound(a, store) ==
  /\ a.subscribed = store
  /\ {a.listed, a.loaded.from, a.ledger.from} \subseteq {store, NoStore}
  /\ a.loaded.of # NoId => a.loaded.from # NoStore /\ a.loaded.of = a.requested
  /\ \A s \in Stores : a.viewing[s] # NoId => s = store /\ s \notin Imported
  /\ \A c \in a.calls : c.fresh /\ c.kind \in {"list"} \cup OfSession \cup OfLedger => c.on = store

LEMMA ReadsSound ==
  ASSUME NEW a \in Browsers, NEW store \in StoreOrNone, NEW listing \in BOOLEAN,
         AskedSound(a, store), a.requested # NoId
  PROVE  /\ Reads(a, store, listing) \in Browsers
         /\ Sound(Reads(a, store, listing), store)
         /\ Reads(a, store, listing).exported = a.exported
<1> DEFINE r == Reads(a, store, listing)
<1>0. Active(a, store) = a
  BY DEF Active, AskedSound
<1>1. CASE store = NoStore
  <2>1. r = [a EXCEPT !.deferred = a.requested]
    BY <1>0, <1>1 DEF Reads
  <2>2. /\ r \in Browsers /\ r.subscribed = a.subscribed /\ r.listed = a.listed
        /\ r.loaded = a.loaded /\ r.ledger = a.ledger /\ r.viewing = a.viewing
        /\ r.calls = a.calls /\ r.exported = a.exported /\ r.requested = a.requested
    BY <2>1 DEF Browsers
  <2>3. \A c \in a.calls : c.kind # "leave" => c.on \in Stores
    BY DEF Browsers, Calls
  <2>4. \A c \in r.calls : CallSound(r, store, c)
    BY <1>1, <2>2, <2>3, BrowserAssumption DEF AskedSound, CallSound, OfSession, OfLedger
  <2>5. r.loaded.of = NoId /\ \A s \in Stores : r.viewing[s] = NoId
    BY <1>1, <2>2, BrowserAssumption DEF AskedSound
  <2>6. ShownSound(r, store) /\ ToldSound(r, store)
    BY <2>2, <2>5 DEF ShownSound, ToldSound, AskedSound
  <2> QED BY <2>2, <2>4, <2>6 DEF Sound, AskedSound
<1>2. CASE store # NoStore
  <2> DEFINE q == Tells(a, store, a.requested)
             call == [Call("read", store, a.requested, a.window) EXCEPT !.listing = listing]
             calls == Stale(q.calls, OfSession) \cup {call}
  <2>0. store \in Stores /\ a.requested \in Ids /\ a.window \in WindowOrNone /\ a.calls \in SUBSET Calls
    BY <1>2 DEF Browsers, StoreOrNone, IdOrNone
  <2>1. /\ q \in Browsers /\ q = [a EXCEPT !.viewing = q.viewing]
        /\ \A s \in Stores : q.viewing[s] = IF s = store /\ s \notin Imported THEN a.requested
                                             ELSE a.viewing[s]
    BY <2>0, TellsTyped DEF IdOrNone
  <2>2. /\ q.subscribed = a.subscribed /\ q.requested = a.requested /\ q.window = a.window
        /\ q.listed = a.listed /\ q.loaded = a.loaded /\ q.ledger = a.ledger
        /\ q.calls = a.calls /\ q.exported = a.exported
    BY <2>1 DEF Browsers
  <2>3. call \in Calls /\ call.kind = "read" /\ call.on = store /\ call.of = a.requested
        /\ call.window = a.window
    <3>1. call \in Calls
      BY <2>0, CallTyped DEF OfSession, OfLedger, StoreOrNone, IdOrNone
    <3> QED BY <3>1 DEF Call
  <2>4. calls \in SUBSET Calls
    BY <2>0, <2>2, <2>3, StaleTyped
  <2>5. r = [q EXCEPT !.deferred = NoId, !.loading = TRUE, !.unread = NoId, !.calls = calls]
    BY <1>0, <1>2 DEF Reads
  <2>6. r \in Browsers
    <3> HIDE DEF q, calls, r
    <3> QED BY <2>1, <2>4, <2>5, NoneTyped DEF Browsers
  <2>7. /\ r.subscribed = a.subscribed /\ r.requested = a.requested /\ r.window = a.window
        /\ r.listed = a.listed /\ r.loaded = a.loaded /\ r.ledger = a.ledger
        /\ r.viewing = q.viewing /\ r.calls = calls /\ r.exported = a.exported /\ r.loading
    BY <2>1, <2>2, <2>5 DEF Browsers
  <2> HIDE DEF r, q, call
  <2>8. ASSUME NEW c \in r.calls PROVE CallSound(r, store, c)
    <3>1. CASE c = call
      BY <2>0, <2>1, <2>3, <2>7, <3>1 DEF CallSound
    <3>2. CASE c \in Stale(a.calls, OfSession)
      <4>1. c.fresh => c \in a.calls /\ c.kind \notin OfSession
        BY <2>0, <3>2, StaleFresh
      <4> QED BY <4>1 DEF CallSound, AskedSound, OfSession
    <3> QED BY <2>2, <2>7, <3>1, <3>2
  <2>9. ShownSound(r, store)
    BY <2>0, <2>1, <2>7 DEF ShownSound, AskedSound
  <2>10. ToldSound(r, store)
    BY <2>1, <2>7 DEF ToldSound, AskedSound
  <2> QED BY <2>6, <2>7, <2>8, <2>9, <2>10 DEF Sound, AskedSound, r
<1> QED BY <1>1, <1>2

LEMMA LoadsSound ==
  ASSUME NEW a \in Browsers, NEW store \in StoreOrNone, NEW id \in Ids, NEW window \in WindowOrNone,
         Sound(a, store)
  PROVE  /\ Loads(a, store, id, window) \in Browsers
         /\ Sound(Loads(a, store, id, window), store)
         /\ Loads(a, store, id, window).exported \in {a.exported, "idle"}
<1> DEFINE left == IF a.loaded.of = id THEN a
                   ELSE [a EXCEPT !.loaded = NoSession, !.exported = "idle"]
           asked == [left EXCEPT !.requested = id, !.window = window, !.missing = NoId]
<1>1. Active(a, store) = a
  BY DEF Active, Sound
<1>2. \/ Loads(a, store, id, window) = a
      \/ Loads(a, store, id, window) = Reads(asked, store, FALSE)
  BY <1>1 DEF Loads
<1>3. /\ left \in Browsers
      /\ left.loaded.of # NoId => left.loaded = a.loaded /\ left.loaded.of = id
      /\ left.loaded.from \in {store, NoStore}
      /\ left.exported \in {a.exported, "idle"}
      /\ left.subscribed = a.subscribed /\ left.listed = a.listed /\ left.ledger = a.ledger
      /\ left.viewing = a.viewing /\ left.calls = a.calls
  <2>1. a.loaded.of # NoId => a.loaded.from = store
    BY DEF Sound, ShownSound
  <2>2. CASE a.loaded.of = id
    BY <2>1, <2>2, BrowserAssumption DEF Browsers
  <2>3. CASE a.loaded.of # id
    <3>1. left = [a EXCEPT !.loaded = NoSession, !.exported = "idle"]
      BY <2>3
    <3> HIDE DEF left
    <3>2. left \in Browsers
      BY <3>1, NoneTyped DEF Browsers
    <3>3. /\ left.loaded = NoSession /\ left.exported = "idle"
          /\ left.subscribed = a.subscribed /\ left.listed = a.listed /\ left.ledger = a.ledger
          /\ left.viewing = a.viewing /\ left.calls = a.calls
      BY <3>1 DEF Browsers
    <3> QED BY <3>2, <3>3 DEF NoSession
  <2> QED BY <2>2, <2>3
<1>4. asked \in Browsers
  <2> HIDE DEF left
  <2>1. id \in IdOrNone
    BY DEF IdOrNone
  <2>2. left \in Browsers /\ asked = [left EXCEPT !.requested = id, !.window = window, !.missing = NoId]
    BY <1>3
  <2> HIDE DEF asked
  <2> QED BY <2>1, <2>2, NoneTyped DEF Browsers
<1>5. /\ asked.requested = id /\ asked.loaded = left.loaded /\ asked.exported = left.exported
      /\ asked.subscribed = left.subscribed /\ asked.listed = left.listed
      /\ asked.ledger = left.ledger /\ asked.viewing = left.viewing /\ asked.calls = left.calls
  BY <1>3 DEF Browsers
<1> HIDE DEF left, asked
<1>6. AskedSound(asked, store)
  BY <1>3, <1>5 DEF AskedSound, Sound, ShownSound, ToldSound, CallSound
<1>7. asked.requested # NoId
  BY <1>5, BrowserAssumption
<1>8. CASE Loads(a, store, id, window) = Reads(asked, store, FALSE)
  <2> DEFINE r == Reads(asked, store, FALSE)
  <2>1. r \in Browsers /\ Sound(r, store) /\ r.exported = asked.exported
    BY <1>4, <1>6, <1>7, ReadsSound
  <2> QED BY <1>3, <1>5, <1>8, <2>1
<1>9. CASE Loads(a, store, id, window) = a
  BY <1>9
<1> QED BY <1>2, <1>8, <1>9

LEMMA UnloadsSound ==
  ASSUME NEW a \in Browsers, NEW store \in StoreOrNone, Sound(a, store)
  PROVE  /\ Unloads(a, store) \in Browsers
         /\ Sound(Unloads(a, store), store)
         /\ Unloads(a, store).exported = "idle"
<1> DEFINE calls == Stale(a.calls, OfSession)
           q == [a EXCEPT !.requested = NoId, !.window = NoWindow, !.deferred = NoId,
                          !.loading = FALSE, !.loaded = NoSession, !.missing = NoId,
                          !.exported = "idle", !.calls = calls]
           r == Tells(q, store, NoId)
<1>1. a.calls \in SUBSET Calls /\ calls \in SUBSET Calls
  BY StaleTyped DEF Browsers
<1>2. q \in Browsers
  BY <1>1, NoneTyped DEF Browsers, WindowOrNone
<1>3. /\ q.subscribed = a.subscribed /\ q.listed = a.listed /\ q.ledger = a.ledger
      /\ q.viewing = a.viewing /\ q.calls = calls /\ q.loaded = NoSession
      /\ q.requested = NoId /\ q.exported = "idle"
  BY DEF Browsers
<1>4. Unloads(a, store) = r
  BY DEF Unloads
<1> HIDE DEF q
<1>5. /\ r \in Browsers /\ r = [q EXCEPT !.viewing = r.viewing]
      /\ \A s \in Stores : r.viewing[s] = IF s = store /\ s \notin Imported THEN NoId ELSE q.viewing[s]
  <2>1. r = Tells(q, store, NoId)
    OBVIOUS
  <2> HIDE DEF r
  <2>2. NoId \in IdOrNone
    BY NoneTyped
  <2> QED BY <1>2, <2>1, <2>2, TellsTyped
<1>6. /\ r.subscribed = q.subscribed /\ r.listed = q.listed /\ r.ledger = q.ledger
      /\ r.calls = q.calls /\ r.loaded = q.loaded
      /\ r.requested = q.requested /\ r.exported = q.exported
  BY <1>2, <1>5 DEF Browsers
<1> HIDE DEF r
<1>7. \A s \in Stores : r.viewing[s] = NoId
  BY <1>3, <1>5 DEF Sound, ToldSound
<1>8. \A c \in r.calls : c.fresh => c \in a.calls /\ c.kind \notin OfSession
  BY <1>1, <1>3, <1>6, StaleFresh
<1>9. \A c \in r.calls : CallSound(r, store, c)
  BY <1>8 DEF Sound, CallSound, OfSession
<1>10. ShownSound(r, store) /\ ToldSound(r, store)
  BY <1>3, <1>6, <1>7 DEF ShownSound, ToldSound, Sound, NoSession
<1> QED BY <1>3, <1>4, <1>5, <1>6, <1>9, <1>10 DEF Sound

LEMMA RefreshedLedgerSound ==
  ASSUME NEW a \in Browsers, NEW store \in StoreOrNone, NEW key \in Keys, Sound(a, store)
  PROVE  /\ RefreshedLedger(a, store, key) \in Browsers
         /\ Sound(RefreshedLedger(a, store, key), store)
         /\ RefreshedLedger(a, store, key).exported = a.exported
<1> DEFINE call == Call("ledgerAgain", store, key, NoWindow)
           calls == IF store = NoStore THEN a.calls ELSE Stale(a.calls, OfLedger) \cup {call}
           r == RefreshedLedger(a, store, key)
<1>1. r = [a EXCEPT !.key = key, !.calls = calls]
  <2>1. Active(a, store) = a /\ a.calls = [a EXCEPT !.key = key].calls
    BY DEF Active, Sound, Browsers
  <2>2. a = [a EXCEPT !.calls = a.calls]
    BY DEF Browsers
  <2> QED BY <2>1, <2>2 DEF RefreshedLedger, Browsers
<1>2. a.calls \in SUBSET Calls
  BY DEF Browsers
<1>3. store # NoStore => call \in Calls /\ call.kind = "ledgerAgain" /\ call.on = store
  <2> SUFFICES ASSUME store # NoStore
               PROVE  call \in Calls /\ call.kind = "ledgerAgain" /\ call.on = store
    OBVIOUS
  <2>1. call \in Calls
    BY CallTyped DEF OfSession, OfLedger, StoreOrNone, WindowOrNone
  <2> QED BY <2>1 DEF Call
<1>4. calls \in SUBSET Calls
  BY <1>2, <1>3, StaleTyped
<1>5. /\ r \in Browsers /\ r.calls = calls
      /\ r.subscribed = a.subscribed /\ r.requested = a.requested /\ r.window = a.window
      /\ r.viewing = a.viewing /\ r.listed = a.listed /\ r.loaded = a.loaded
      /\ r.loading = a.loading /\ r.ledger = a.ledger /\ r.exported = a.exported
  <2> HIDE DEF call, calls, r
  <2>1. key \in KeyOrNone
    BY DEF KeyOrNone
  <2>2. r \in Browsers
    BY <1>1, <1>4, <2>1 DEF Browsers
  <2> QED BY <1>1, <2>2 DEF Browsers
<1> HIDE DEF r, call
<1>6. \A c \in r.calls : c.fresh => c \in a.calls \/ CallSound(r, store, c)
  <2> SUFFICES ASSUME NEW c \in r.calls, c.fresh, c \notin a.calls PROVE CallSound(r, store, c)
    OBVIOUS
  <2>1. store # NoStore /\ c = call
    BY <1>2, <1>5, StaleFresh
  <2> QED BY <1>3, <2>1 DEF CallSound, OfSession
<1>7. ShownSound(r, store)
  BY <1>5 DEF Sound, ShownSound
<1> QED BY <1>5, <1>6, <1>7, SoundKept DEF r

LEMMA RefreshesSound ==
  ASSUME NEW a \in Browsers, NEW old \in StoreOrNone, NEW store \in StoreOrNone, Sound(a, old)
  PROVE  /\ Refreshes(a, store) \in Browsers
         /\ Sound(Refreshes(a, store), store)
         /\ Refreshes(a, store).exported \in {a.exported, "idle"}
         /\ Refreshes(a, store).requested = a.requested
<1> DEFINE at == Active(a, store)
           call == Call("list", store, NoId, NoWindow)
           calls == Stale(at.calls, {"list"}) \cup {call}
           r == Refreshes(a, store)
<1>1. /\ at \in Browsers /\ Sound(at, store) /\ at.requested = a.requested
      /\ at.exported \in {a.exported, "idle"}
  BY ActiveSound
<1> HIDE DEF at
<1>2. CASE store = NoStore
  BY <1>1, <1>2 DEF Refreshes, at
<1>3. CASE store # NoStore
  <2>1. r = [at EXCEPT !.refreshing = TRUE, !.calls = calls]
    BY <1>3 DEF Refreshes, at
  <2>2. at.calls \in SUBSET Calls
    BY <1>1 DEF Browsers
  <2>3. call \in Calls /\ call.kind = "list" /\ call.on = store
    <3>1. call \in Calls
      BY <1>3, CallTyped DEF OfSession, OfLedger, StoreOrNone, IdOrNone, WindowOrNone
    <3> QED BY <3>1 DEF Call
  <2>4. calls \in SUBSET Calls
    BY <2>2, <2>3, StaleTyped
  <2>5. /\ r \in Browsers /\ r.calls = calls
        /\ r.subscribed = at.subscribed /\ r.requested = at.requested /\ r.window = at.window
        /\ r.viewing = at.viewing /\ r.listed = at.listed /\ r.loaded = at.loaded
        /\ r.loading = at.loading /\ r.ledger = at.ledger /\ r.exported = at.exported
    BY <1>1, <2>1, <2>4 DEF Browsers
  <2> HIDE DEF r, call
  <2>6. \A c \in r.calls : c.fresh => c \in at.calls \/ CallSound(r, store, c)
    <3> SUFFICES ASSUME NEW c \in r.calls, c.fresh, c \notin at.calls PROVE CallSound(r, store, c)
      OBVIOUS
    <3>1. c = call
      BY <2>2, <2>5, StaleFresh
    <3> QED BY <2>3, <3>1 DEF CallSound, OfSession
  <2>7. ShownSound(r, store)
    BY <1>1, <2>5 DEF Sound, ShownSound
  <2> QED BY <1>1, <2>5, <2>6, <2>7, SoundKept DEF r
<1> QED BY <1>2, <1>3

LEMMA ListedSound ==
  ASSUME NEW a \in Browsers, NEW store \in StoreOrNone, Sound(a, store)
  PROVE  /\ LedgersAgain(a, store) \in Browsers
         /\ Sound(LedgersAgain(a, store), store)
         /\ LedgersAgain(a, store).exported = a.exported
         /\ Listed(a, store) \in Browsers
         /\ Sound(Listed(a, store), store)
         /\ Listed(a, store).exported = a.exported
<1>1. /\ LedgersAgain(a, store) \in Browsers
      /\ Sound(LedgersAgain(a, store), store)
      /\ LedgersAgain(a, store).exported = a.exported
  <2>1. a.key \in KeyOrNone
    BY DEF Browsers
  <2> QED BY <2>1, RefreshedLedgerSound DEF LedgersAgain, KeyOrNone
<1>2. /\ Reads(a, store, TRUE) \in Browsers
      /\ Sound(Reads(a, store, TRUE), store)
      /\ Reads(a, store, TRUE).exported = a.exported
  <2>1. CASE a.requested = NoId
    BY <2>1 DEF Reads
  <2>2. CASE a.requested # NoId
    <3>1. AskedSound(a, store)
      BY DEF Sound, ShownSound, ToldSound, CallSound, AskedSound
    <3> QED BY <2>2, <3>1, ReadsSound
  <2> QED BY <2>1, <2>2
<1> QED BY <1>1, <1>2 DEF Listed

-----------------------------------------------------------------------------
(* The steps.  Each leaves a sound browser over the store then in force, and *)
(* only a file handed over is one that is done.                              *)

StillSound ==
  /\ b' \in Browsers /\ Sound(b', given')
  /\ b'.exported = "done" => b.exported = "done"

LEMMA Start == Init => IInv
<1> SUFFICES ASSUME Init PROVE IInv
  OBVIOUS
<1>1. given = NoStore /\ given \in StoreOrNone /\ route \in IdOrNone /\ told \in IdOrNone
  BY DEF Init, StoreOrNone, IdOrNone
<1>2. sessions \in [Stores -> SUBSET Ids] /\ asks \in 0 .. MaxAsks
  BY BrowserAssumption DEF Init
<1>3. Blank \in Browsers
  BY NoneTyped DEF Blank, Browsers, WindowOrNone
<1>4. Sound(Blank, NoStore)
  BY BrowserAssumption DEF Blank, Sound, ShownSound, ToldSound, NoSession, NoLedger
<1>5. NoStore \in StoreOrNone /\ NoWindow \in WindowOrNone
  BY DEF StoreOrNone, WindowOrNone
<1>6. b \in Browsers /\ Sound(b, NoStore)
  <2>1. CASE route = NoId
    BY <1>3, <1>4, <2>1 DEF Init
  <2>2. CASE route # NoId
    BY <1>1, <1>3, <1>4, <1>5, <2>2, LoadsSound DEF Init, IdOrNone
  <2> QED BY <2>1, <2>2
<1> QED BY <1>1, <1>2, <1>6 DEF IInv, TypeOK

LEMMA Watched == ASSUME IInv, AddressWatched PROVE StillSound
<1>1. b \in Browsers /\ Sound(b, given) /\ given \in StoreOrNone /\ NoWindow \in WindowOrNone
  BY DEF IInv, TypeOK, WindowOrNone
<1>2. CASE route = NoId
  BY <1>1, <1>2, UnloadsSound DEF AddressWatched, StillSound
<1>3. CASE route # NoId
  BY <1>1, <1>3, LoadsSound DEF AddressWatched, StillSound, IInv, TypeOK, IdOrNone
<1> QED BY <1>2, <1>3

LEMMA Shifted ==
  ASSUME IInv, NEW window \in Windows, ShiftsWindow(window) PROVE StillSound
<1>1. b \in Browsers /\ Sound(b, given) /\ given \in StoreOrNone /\ route \in Ids
  BY DEF IInv, TypeOK, ShiftsWindow, IdOrNone
<1>2. window \in WindowOrNone
  BY DEF WindowOrNone
<1> QED BY <1>1, <1>2, LoadsSound DEF ShiftsWindow, StillSound

LEMMA Shown ==
  ASSUME IInv, NEW store \in Stores, ShowsHistory(store) PROVE StillSound
<1> DEFINE left == Unloads(b, given)
           listing == Refreshes(left, store)
<1>1. b \in Browsers /\ Sound(b, given) /\ given \in StoreOrNone /\ store \in StoreOrNone
      /\ NoWindow \in WindowOrNone
  BY DEF IInv, TypeOK, StoreOrNone, WindowOrNone
<1>2. left \in Browsers /\ Sound(left, given) /\ left.exported = "idle"
  BY <1>1, UnloadsSound
<1> HIDE DEF left
<1>3. listing \in Browsers /\ Sound(listing, store) /\ listing.exported = "idle"
  BY <1>1, <1>2, RefreshesSound
<1>4. given' = store /\ b' = IF route = NoId THEN listing ELSE Loads(listing, store, route, NoWindow)
  BY DEF ShowsHistory, left
<1> HIDE DEF listing
<1>5. CASE route = NoId
  BY <1>3, <1>4, <1>5 DEF StillSound
<1>6. CASE route # NoId
  <2>1. route \in Ids
    BY <1>6 DEF IInv, TypeOK, IdOrNone
  <2>2. /\ Loads(listing, store, route, NoWindow) \in Browsers
        /\ Sound(Loads(listing, store, route, NoWindow), store)
        /\ Loads(listing, store, route, NoWindow).exported \in {listing.exported, "idle"}
    BY <1>1, <1>3, <2>1, LoadsSound
  <2> QED BY <1>3, <1>4, <1>6, <2>2 DEF StillSound
<1> QED BY <1>5, <1>6

LEMMA Relisted == ASSUME IInv, Relists PROVE StillSound
<1>1. b \in Browsers /\ Sound(b, given) /\ given \in StoreOrNone
  BY DEF IInv, TypeOK
<1> QED BY <1>1, RefreshesSound DEF Relists, StillSound

LEMMA LedgerFiled ==
  ASSUME IInv, NEW key \in Keys, FilesLedger(key) PROVE StillSound
<1>1. b \in Browsers /\ Sound(b, given) /\ given \in StoreOrNone
  BY DEF IInv, TypeOK
<1> QED BY <1>1, RefreshedLedgerSound DEF FilesLedger, StillSound

\* A call that is added, and nothing changed that the invariant reads of, but
\* the ledger on screen, which may go.
LEMMA CallMade ==
  ASSUME IInv, given' = given, NEW call \in Calls, CallSound(b, given, call), b' \in Browsers,
         \A c \in b'.calls : c.fresh => c \in b.calls \cup {call},
         b'.subscribed = b.subscribed, b'.requested = b.requested, b'.window = b.window,
         b'.viewing = b.viewing, b'.listed = b.listed, b'.loaded = b.loaded,
         b'.loading = b.loading, b'.ledger \in {b.ledger, NoLedger},
         b'.exported \in {b.exported, "working"}
  PROVE  StillSound
<1>1. b \in Browsers /\ Sound(b, given) /\ given \in StoreOrNone
  BY DEF IInv, TypeOK
<1>2. \A c \in b'.calls : c.fresh => c \in b.calls \/ CallSound(b', given, c)
  BY DEF CallSound
<1>3. ShownSound(b', given)
  BY <1>1 DEF Sound, ShownSound, NoLedger
<1>4. Sound(b', given)
  BY <1>1, <1>2, <1>3, SoundKept
<1> QED BY <1>4 DEF StillSound

LEMMA LedgerLoaded ==
  ASSUME IInv, NEW key \in Keys, LoadsLedger(key) PROVE StillSound
<1> DEFINE call == Call("ledger", given, key, NoWindow)
           calls == IF given = NoStore THEN b.calls ELSE Stale(b.calls, OfLedger) \cup {call}
<1>1. b \in Browsers /\ Sound(b, given) /\ given \in StoreOrNone /\ b.calls \in SUBSET Calls
      /\ b.ledgerLoading \in BOOLEAN
  BY DEF IInv, TypeOK, Browsers
<1>2. Active(b, given) = b
  BY <1>1 DEF Active, Sound
<1>3. b' = [b EXCEPT !.key = key, !.ledger = NoLedger, !.calls = calls,
                     !.ledgerLoading = IF given = NoStore THEN @ ELSE TRUE]
  BY <1>1, <1>2 DEF LoadsLedger, Browsers
<1>4. given # NoStore => call \in Calls /\ call.kind = "ledger" /\ call.on = given
  <2> SUFFICES ASSUME given # NoStore
               PROVE  call \in Calls /\ call.kind = "ledger" /\ call.on = given
    OBVIOUS
  <2>1. call \in Calls
    BY <1>1, CallTyped DEF OfSession, OfLedger, StoreOrNone, WindowOrNone
  <2> QED BY <2>1 DEF Call
<1>5. calls \in SUBSET Calls
  BY <1>1, <1>4, StaleTyped
<1>6. /\ b' \in Browsers /\ b'.calls = calls /\ b'.ledger = NoLedger
      /\ b'.subscribed = b.subscribed /\ b'.requested = b.requested /\ b'.window = b.window
      /\ b'.viewing = b.viewing /\ b'.listed = b.listed /\ b'.loaded = b.loaded
      /\ b'.loading = b.loading /\ b'.exported = b.exported
  BY <1>1, <1>3, <1>5, NoneTyped DEF Browsers, KeyOrNone
<1>7. given' = given
  BY DEF LoadsLedger
<1> HIDE DEF call
<1>8. \A c \in b'.calls : c.fresh => c \in b.calls \/ CallSound(b', given, c)
  <2> SUFFICES ASSUME NEW c \in b'.calls, c.fresh, c \notin b.calls PROVE CallSound(b', given, c)
    OBVIOUS
  <2>1. given # NoStore /\ c = call
    BY <1>1, <1>6, StaleFresh
  <2> QED BY <1>4, <2>1 DEF CallSound, OfSession
<1>9. ShownSound(b', given)
  BY <1>1, <1>6 DEF Sound, ShownSound, NoLedger
<1> QED BY <1>1, <1>6, <1>7, <1>8, <1>9, SoundKept DEF StillSound

LEMMA Changed ==
  ASSUME IInv, NEW kind \in {"amend", "forget", "delete"}, NEW of \in IdOrNone \cup Keys,
         kind = "delete" => of \in Ids, kind = "forget" => of \in Keys, Changes(kind, of)
  PROVE  StillSound
<1> DEFINE call == Call(kind, given, of, NoWindow)
<1>1. b \in Browsers /\ Sound(b, given) /\ given \in Stores /\ b.calls \in SUBSET Calls
  BY DEF IInv, TypeOK, Browsers, Changes, StoreOrNone
<1>2. Active(b, given) = b
  BY <1>1 DEF Active, Sound
<1>3. call \in Calls /\ call.kind = kind
  <2>1. call \in Calls
    BY <1>1, CallTyped DEF OfSession, OfLedger, StoreOrNone, WindowOrNone
  <2> QED BY <2>1 DEF Call
<1>4. b' = [b EXCEPT !.calls = @ \cup {call}] /\ given' = given
  BY <1>2 DEF Changes
<1>5. /\ b' \in Browsers /\ b'.calls = b.calls \cup {call} /\ b'.ledger = b.ledger
      /\ b'.subscribed = b.subscribed /\ b'.requested = b.requested /\ b'.window = b.window
      /\ b'.viewing = b.viewing /\ b'.listed = b.listed /\ b'.loaded = b.loaded
      /\ b'.loading = b.loading /\ b'.exported = b.exported
  BY <1>1, <1>3, <1>4 DEF Browsers
<1> HIDE DEF call
<1>6. CallSound(b, given, call)
  BY <1>3 DEF CallSound, OfSession, OfLedger
<1> QED BY <1>3, <1>4, <1>5, <1>6, CallMade

LEMMA Downloaded == ASSUME IInv, Downloads PROVE StillSound
<1> DEFINE call == Call("export", given, b.loaded.of, NoWindow)
<1>1. b \in Browsers /\ Sound(b, given) /\ given \in Stores /\ b.calls \in SUBSET Calls
      /\ b.loaded.of \in Ids
  BY DEF IInv, TypeOK, Browsers, Downloads, StoreOrNone, IdOrNone
<1>2. call \in Calls /\ call.kind = "export" /\ call.of = b.loaded.of /\ call.on = given
  <2>1. call \in Calls
    BY <1>1, CallTyped DEF OfSession, OfLedger, StoreOrNone, WindowOrNone, IdOrNone
  <2> QED BY <2>1 DEF Call
<1>3. b' = [b EXCEPT !.exported = "working", !.calls = @ \cup {call}] /\ given' = given
  BY DEF Downloads
<1>4. /\ b' \in Browsers /\ b'.calls = b.calls \cup {call} /\ b'.ledger = b.ledger
      /\ b'.subscribed = b.subscribed /\ b'.requested = b.requested /\ b'.window = b.window
      /\ b'.viewing = b.viewing /\ b'.listed = b.listed /\ b'.loaded = b.loaded
      /\ b'.loading = b.loading /\ b'.exported = "working"
  BY <1>1, <1>2, <1>3 DEF Browsers
<1> HIDE DEF call
<1>5. CallSound(b, given, call)
  BY <1>1, <1>2, BrowserAssumption DEF CallSound, Sound, ShownSound
<1> QED BY <1>2, <1>3, <1>4, <1>5, CallMade

-----------------------------------------------------------------------------
(* The answers *)

LEMMA AnsweredSound ==
  ASSUME IInv, NEW c \in b.calls
  PROVE  /\ Answered(c) \in Browsers /\ Sound(Answered(c), given)
         /\ Answered(c).calls = b.calls \ {c}
         /\ Answered(c).exported = b.exported
         /\ Answered(c).requested = b.requested /\ Answered(c).window = b.window
         /\ c \in Calls /\ CallSound(b, given, c)
<1>1. b \in Browsers /\ Sound(b, given) /\ given \in StoreOrNone /\ b.calls \in SUBSET Calls
  BY DEF IInv, TypeOK, Browsers
<1> DEFINE r == Answered(c)
<1>2. /\ r \in Browsers /\ r.calls = b.calls \ {c}
      /\ r.subscribed = b.subscribed /\ r.requested = b.requested /\ r.window = b.window
      /\ r.viewing = b.viewing /\ r.listed = b.listed /\ r.loaded = b.loaded
      /\ r.loading = b.loading /\ r.ledger = b.ledger /\ r.exported = b.exported
  BY <1>1 DEF Answered, Browsers
<1> HIDE DEF r
<1>3. ShownSound(r, given)
  BY <1>1, <1>2 DEF Sound, ShownSound
<1>4. Sound(r, given)
  BY <1>1, <1>2, <1>3, SoundKept
<1> QED BY <1>1, <1>2, <1>4 DEF Sound, r

LEMMA ListsIn ==
  ASSUME IInv, NEW c \in b.calls, NEW ok \in BOOLEAN, ListsAnswered(c, ok) PROVE StillSound
<1> DEFINE a == Answered(c)
           q == [a EXCEPT !.refreshing = FALSE, !.failed = ~ok, !.listed = IF ok THEN c.on ELSE @]
<1>1. /\ a \in Browsers /\ Sound(a, given) /\ a.exported = b.exported
      /\ c \in Calls /\ CallSound(b, given, c) /\ given \in StoreOrNone
      /\ c.kind = "list" /\ given' = given
  BY AnsweredSound DEF IInv, TypeOK, ListsAnswered
<1>2. CASE ~c.fresh
  BY <1>1, <1>2 DEF ListsAnswered, StillSound
<1>3. CASE c.fresh
  <2>1. b' = Listed(q, given)
    BY <1>3 DEF ListsAnswered
  <2>2. c.on = given
    BY <1>1, <1>3 DEF CallSound
  <2> HIDE DEF a
  <2>3. /\ q \in Browsers /\ q.calls = a.calls /\ q.listed \in {a.listed, given}
        /\ q.subscribed = a.subscribed /\ q.requested = a.requested /\ q.window = a.window
        /\ q.viewing = a.viewing /\ q.loaded = a.loaded
        /\ q.loading = a.loading /\ q.ledger = a.ledger /\ q.exported = a.exported
    BY <1>1, <2>2 DEF Browsers
  <2> HIDE DEF q
  <2>4. ShownSound(q, given)
    BY <1>1, <2>3 DEF Sound, ShownSound
  <2>5. Sound(q, given)
    BY <1>1, <2>3, <2>4, SoundKept
  <2> QED BY <1>1, <2>1, <2>3, <2>5, ListedSound DEF StillSound
<1> QED BY <1>2, <1>3

LEMMA SessionIn ==
  ASSUME IInv, NEW c \in b.calls, NEW ok \in BOOLEAN, SessionAnswered(c, ok) PROVE StillSound
<1> DEFINE a == Answered(c)
           held == c.of \in sessions[c.on]
           got == IF ok /\ held THEN [of |-> c.of, window |-> c.window, from |-> c.on] ELSE NoSession
           read == [a EXCEPT !.loading = FALSE,
                    !.loaded = IF ok /\ held THEN [of |-> c.of, window |-> c.window, from |-> c.on]
                               ELSE NoSession,
                    !.unread = IF ok THEN NoId ELSE c.of,
                    !.missing = IF ~ok THEN @ ELSE IF held THEN NoId ELSE c.of,
                    !.failed = IF ~ok THEN TRUE ELSE IF held THEN FALSE ELSE @]
           after == IF c.fresh THEN read ELSE a
<1>1. /\ a \in Browsers /\ Sound(a, given) /\ a.exported = b.exported
      /\ a.requested = b.requested /\ a.window = b.window
      /\ c \in Calls /\ CallSound(b, given, c) /\ given \in StoreOrNone
      /\ c.kind = "read" /\ given' = given
  BY AnsweredSound DEF IInv, TypeOK, SessionAnswered
<1>2. b' = IF c.listing THEN LedgersAgain(after, given) ELSE after
  BY DEF SessionAnswered
<1>3. c.of \in Ids /\ c.window \in WindowOrNone /\ c.on \in Stores
  BY <1>1 DEF Calls, OfSession
<1>4. ASSUME c.fresh
      PROVE  read \in Browsers /\ Sound(read, given) /\ read.exported = b.exported
  <2>1. /\ c.on = given /\ c.of = a.requested /\ c.window = a.window
        /\ given \notin Imported => b.viewing[given] = c.of
    BY <1>1, <1>4 DEF CallSound, OfSession
  <2>2. a.viewing = b.viewing
    BY DEF IInv, TypeOK, Answered, Browsers
  <2>3. got \in [of : IdOrNone, window : WindowOrNone, from : StoreOrNone]
    BY <1>3, NoneTyped DEF IdOrNone, StoreOrNone
  <2> DEFINE unread == IF ok THEN NoId ELSE c.of
             missing == IF ~ok THEN a.missing ELSE IF held THEN NoId ELSE c.of
             failed == IF ~ok THEN TRUE ELSE IF held THEN FALSE ELSE a.failed
  <2> HIDE DEF a, got, held
  <2>5. unread \in IdOrNone /\ missing \in IdOrNone /\ failed \in BOOLEAN
    BY <1>1, <1>3, NoneTyped DEF Browsers, IdOrNone
  <2>4. read = [a EXCEPT !.loading = FALSE, !.loaded = got, !.unread = unread,
                         !.missing = missing, !.failed = failed]
    BY <1>1 DEF got, held, Browsers
  <2> HIDE DEF unread, missing, failed, read
  <2>6. read \in Browsers
    BY <1>1, <2>3, <2>4, <2>5 DEF Browsers
  <2>10. /\ read.calls = a.calls /\ read.loaded = got /\ read.viewing = a.viewing
         /\ read.subscribed = a.subscribed /\ read.requested = a.requested
         /\ read.window = a.window /\ read.listed = a.listed
         /\ read.ledger = a.ledger /\ read.exported = a.exported
    BY <1>1, <2>4 DEF Browsers
  <2>7. /\ got.from \in {given, NoStore}
        /\ got.of # NoId => /\ got.of = a.requested /\ got.window = a.window /\ got.from = given
    BY <2>1 DEF got, NoSession
  <2>8. ShownSound(read, given)
    <3>1. {read.listed, read.loaded.from, read.ledger.from} \subseteq {given, NoStore}
      BY <1>1, <2>10, <2>7 DEF Sound, ShownSound
    <3>2. ASSUME got.of # NoId
          PROVE  /\ got.from # NoStore /\ got.of = read.requested /\ got.window = read.window
                 /\ given \notin Imported => read.viewing[given] = got.of
      BY <1>3, <2>1, <2>2, <2>7, <2>10, <3>2, BrowserAssumption
    <3> QED BY <2>10, <3>1, <3>2 DEF ShownSound
  <2>9. Sound(read, given)
    BY <1>1, <2>6, <2>8, <2>10, SoundKept
  <2> QED BY <1>1, <2>6, <2>9, <2>10
<1> HIDE DEF a, read
<1>5. after \in Browsers /\ Sound(after, given) /\ after.exported = b.exported
  BY <1>1, <1>4
<1> HIDE DEF after
<1> QED BY <1>1, <1>2, <1>5, ListedSound DEF StillSound

LEMMA LedgerIn ==
  ASSUME IInv, NEW c \in b.calls, NEW ok \in BOOLEAN, LedgerAnswered(c, ok) PROVE StillSound
<1> DEFINE a == Answered(c)
           got == IF ok THEN [of |-> c.of, from |-> c.on]
                  ELSE IF c.kind = "ledger" THEN NoLedger ELSE a.ledger
           q == [a EXCEPT !.ledger = IF ok THEN [of |-> c.of, from |-> c.on]
                                     ELSE IF c.kind = "ledger" THEN NoLedger ELSE @,
                          !.ledgerLoading = IF c.kind = "ledger" THEN FALSE ELSE @]
<1>1. /\ a \in Browsers /\ Sound(a, given) /\ a.exported = b.exported
      /\ c \in Calls /\ CallSound(b, given, c) /\ given \in StoreOrNone
      /\ c.kind \in OfLedger /\ given' = given
  BY AnsweredSound DEF IInv, TypeOK, LedgerAnswered
<1>2. CASE ~c.fresh
  BY <1>1, <1>2 DEF LedgerAnswered, StillSound
<1>3. CASE c.fresh
  <2>1. b' = q
    BY <1>3 DEF LedgerAnswered
  <2>2. c.on = given
    BY <1>1, <1>3 DEF CallSound
  <2>3. c.of \in Keys
    BY <1>1 DEF Calls
  <2>4. got \in [of : KeyOrNone, from : StoreOrNone] /\ got.from \in {given, NoStore}
    BY <1>1, <2>2, <2>3, NoneTyped DEF Browsers, KeyOrNone, NoLedger, Sound, ShownSound
  <2> HIDE DEF a
  <2>5. q = [a EXCEPT !.ledger = got, !.ledgerLoading = IF c.kind = "ledger" THEN FALSE ELSE @]
    BY <1>1 DEF Browsers
  <2> HIDE DEF got
  <2>6. /\ q \in Browsers /\ q.calls = a.calls /\ q.ledger = got
        /\ q.subscribed = a.subscribed /\ q.requested = a.requested /\ q.window = a.window
        /\ q.viewing = a.viewing /\ q.loaded = a.loaded /\ q.listed = a.listed
        /\ q.loading = a.loading /\ q.exported = a.exported
    <3> DEFINE busy == IF c.kind = "ledger" THEN FALSE ELSE a.ledgerLoading
    <3>1. busy \in BOOLEAN
      BY <1>1 DEF Browsers
    <3>2. q = [a EXCEPT !.ledger = got, !.ledgerLoading = busy]
      BY <2>5
    <3> HIDE DEF q, busy
    <3>3. q \in Browsers
      BY <1>1, <2>4, <3>1, <3>2 DEF Browsers
    <3> QED BY <1>1, <3>2, <3>3 DEF Browsers
  <2> HIDE DEF q
  <2>7. ShownSound(q, given)
    BY <1>1, <2>4, <2>6 DEF Sound, ShownSound
  <2>8. Sound(q, given)
    BY <1>1, <2>6, <2>7, SoundKept
  <2> QED BY <1>1, <2>1, <2>6, <2>8 DEF StillSound
<1> QED BY <1>2, <1>3

LEMMA AfterSound ==
  ASSUME IInv, NEW c \in b.calls
  PROVE  /\ After(c) \in Browsers /\ Sound(After(c), given)
         /\ After(c).exported \in {b.exported, "idle"}
<1> DEFINE a == Answered(c)
           calls == Stale(a.calls, OfLedger)
           q == [a EXCEPT !.key = NoKey, !.ledger = NoLedger, !.calls = calls]
<1>1. /\ a \in Browsers /\ Sound(a, given) /\ a.exported = b.exported /\ given \in StoreOrNone
  BY AnsweredSound DEF IInv, TypeOK
<1>2. a.calls \in SUBSET Calls /\ calls \in SUBSET Calls
  BY <1>1, StaleTyped DEF Browsers
<1>3. After(c) \in {a, q, Unloads(a, given)}
  BY DEF After
<1> HIDE DEF a
<1>4. /\ q \in Browsers /\ q.calls = calls /\ q.ledger = NoLedger
      /\ q.subscribed = a.subscribed /\ q.requested = a.requested /\ q.window = a.window
      /\ q.viewing = a.viewing /\ q.loaded = a.loaded /\ q.listed = a.listed
      /\ q.loading = a.loading /\ q.exported = a.exported
  BY <1>1, <1>2, NoneTyped DEF Browsers
<1> HIDE DEF q
<1>5. ShownSound(q, given)
  BY <1>1, <1>4 DEF Sound, ShownSound, NoLedger
<1>6. \A k \in q.calls : k.fresh => k \in a.calls
  BY <1>2, <1>4, StaleFresh
<1>7. Sound(q, given)
  BY <1>1, <1>4, <1>5, <1>6, SoundKept
<1> QED BY <1>1, <1>3, <1>4, <1>7, UnloadsSound

LEMMA ChangeIn ==
  ASSUME IInv, NEW c \in b.calls, NEW ok \in BOOLEAN, ChangeAnswered(c, ok) PROVE StillSound
<1> DEFINE failed == [Answered(c) EXCEPT !.failed = TRUE]
           changed == IF c.on # given THEN Answered(c)
                      ELSE IF ~ok THEN failed ELSE Refreshes(After(c), given)
           leave == Call("leave", NoStore, NoId, NoWindow)
           left == [changed EXCEPT !.calls = @ \cup {leave}]
<1>1. given \in StoreOrNone /\ given' = given /\ b' = IF c.kind # "delete" THEN changed ELSE left
  BY DEF IInv, TypeOK, ChangeAnswered
<1>2. /\ Answered(c) \in Browsers /\ Sound(Answered(c), given)
      /\ Answered(c).exported = b.exported
  BY AnsweredSound
<1>3. failed \in Browsers /\ Sound(failed, given) /\ failed.exported = b.exported
  <2> DEFINE a == Answered(c)
  <2> HIDE DEF a
  <2>1. failed = [a EXCEPT !.failed = TRUE]
    BY DEF a
  <2>2. a \in Browsers /\ Sound(a, given) /\ a.exported = b.exported
    BY <1>2 DEF a
  <2> HIDE DEF failed
  <2>3. /\ failed \in Browsers /\ failed.calls = a.calls /\ failed.ledger = a.ledger
        /\ failed.subscribed = a.subscribed /\ failed.requested = a.requested
        /\ failed.window = a.window /\ failed.viewing = a.viewing /\ failed.loaded = a.loaded
        /\ failed.listed = a.listed /\ failed.loading = a.loading /\ failed.exported = a.exported
    BY <2>1, <2>2 DEF Browsers
  <2>4. ShownSound(failed, given)
    BY <2>2, <2>3 DEF Sound, ShownSound
  <2> QED BY <1>1, <2>2, <2>3, <2>4, SoundKept
<1>4. /\ Refreshes(After(c), given) \in Browsers /\ Sound(Refreshes(After(c), given), given)
      /\ Refreshes(After(c), given).exported \in {b.exported, "idle"}
  BY <1>1, AfterSound, RefreshesSound
<1> HIDE DEF failed
<1>5. changed \in Browsers /\ Sound(changed, given) /\ changed.exported \in {b.exported, "idle"}
  BY <1>2, <1>3, <1>4
<1> HIDE DEF changed
<1>6. leave \in Calls /\ leave.kind = "leave"
  <2>1. leave \in Calls
    BY CallTyped DEF StoreOrNone, IdOrNone, WindowOrNone, OfSession, OfLedger
  <2> QED BY <2>1 DEF Call
<1> HIDE DEF leave
<1>7. /\ left \in Browsers /\ left.calls = changed.calls \cup {leave}
      /\ left.ledger = changed.ledger
      /\ left.subscribed = changed.subscribed /\ left.requested = changed.requested
      /\ left.window = changed.window /\ left.viewing = changed.viewing
      /\ left.loaded = changed.loaded /\ left.listed = changed.listed
      /\ left.loading = changed.loading /\ left.exported = changed.exported
  BY <1>5, <1>6 DEF Browsers
<1> HIDE DEF left
<1>8. CallSound(left, given, leave)
  BY <1>6 DEF CallSound, OfSession, OfLedger
<1>9. ShownSound(left, given)
  BY <1>5, <1>7 DEF Sound, ShownSound
<1>10. Sound(left, given)
  BY <1>1, <1>5, <1>7, <1>8, <1>9, SoundKept
<1> QED BY <1>1, <1>5, <1>7, <1>10 DEF StillSound

LEMMA Left ==
  ASSUME IInv, NEW c \in b.calls, LeavesSession(c) PROVE StillSound
  BY AnsweredSound DEF LeavesSession, StillSound

\* A file handed over is of the session last asked for, from the store in force.
LEMMA ExportIn ==
  ASSUME IInv, NEW c \in b.calls, NEW ok \in BOOLEAN, ExportAnswered(c, ok)
  PROVE  /\ b' \in Browsers /\ Sound(b', given')
         /\ b'.exported = "done" /\ b.exported # "done" =>
              c.of = b.requested /\ c.on = given /\ b.calls \ b'.calls = {c}
<1> DEFINE a == Answered(c)
<1>1. /\ a \in Browsers /\ Sound(a, given) /\ a.calls = b.calls \ {c} /\ a.exported = b.exported
      /\ c \in Calls /\ CallSound(b, given, c) /\ given \in StoreOrNone /\ given' = given
      /\ c.kind = "export"
  BY AnsweredSound DEF IInv, TypeOK, ExportAnswered
<1>2. CASE ~c.fresh
  BY <1>1, <1>2 DEF ExportAnswered
<1>3. CASE c.fresh
  <2>1. b' = IF ok THEN [a EXCEPT !.exported = "done"]
             ELSE [a EXCEPT !.exported = "failed", !.failed = TRUE]
    BY <1>3 DEF ExportAnswered
  <2> HIDE DEF a
  <2>2. /\ b' \in Browsers /\ b'.calls = a.calls /\ b'.ledger = a.ledger
        /\ b'.subscribed = a.subscribed /\ b'.requested = a.requested
        /\ b'.window = a.window /\ b'.viewing = a.viewing /\ b'.loaded = a.loaded
        /\ b'.listed = a.listed /\ b'.loading = a.loading
    BY <1>1, <2>1 DEF Browsers
  <2>3. ShownSound(b', given)
    BY <1>1, <2>2 DEF Sound, ShownSound
  <2>4. Sound(b', given)
    BY <1>1, <2>2, <2>3, SoundKept
  <2>5. c.of = b.requested /\ c.on = given
    BY <1>1, <1>3 DEF CallSound, OfSession
  <2> QED BY <1>1, <2>2, <2>4, <2>5
<1> QED BY <1>2, <1>3

-----------------------------------------------------------------------------
(* Every step *)

\* What the steps leave of the rest of the state.
LEMMA RestTyped ==
  ASSUME IInv, Next
  PROVE  /\ sessions' \in [Stores -> SUBSET Ids] /\ route' \in IdOrNone
         /\ told' \in IdOrNone /\ asks' \in 0 .. MaxAsks
<1>1. /\ sessions \in [Stores -> SUBSET Ids] /\ route \in IdOrNone
      /\ told \in IdOrNone /\ asks \in 0 .. MaxAsks
  BY DEF IInv, TypeOK
<1>2. CASE Asked
  <2>1. Asks /\ sessions' = sessions /\ told' = told
    BY <1>2
    DEF Asked, Navigates, ShiftsWindow, ShowsHistory, LoadsLedger, FilesLedger,
        ForgetsLedger, Relists, Amends, Removes, Downloads, Changes
  <2>2. route' \in IdOrNone
    BY <1>1, <1>2
    DEF Asked, Navigates, ShiftsWindow, ShowsHistory, LoadsLedger, FilesLedger,
        ForgetsLedger, Relists, Amends, Removes, Downloads, Changes, IdOrNone
  <2>3. asks' \in 0 .. MaxAsks
    BY <1>1, <2>1, BrowserAssumption DEF Asks
  <2> QED BY <1>1, <2>1, <2>2, <2>3
<1>3. CASE AddressWatched
  BY <1>1, <1>3 DEF AddressWatched
<1>4. CASE Answers
  <2>1. route' = route /\ told' = told /\ asks' = asks
    BY <1>4 DEF Answers, ListsAnswered, SessionAnswered, LedgerAnswered, ChangeAnswered, ExportAnswered
  <2>2. sessions' \in [Stores -> SUBSET Ids]
    BY <1>1, <1>4 DEF Answers, ListsAnswered, SessionAnswered, LedgerAnswered, ChangeAnswered, ExportAnswered
  <2> QED BY <1>1, <2>1, <2>2
<1>5. CASE Leaves
  BY <1>1, <1>5 DEF Leaves, LeavesSession, IdOrNone
<1> QED BY <1>2, <1>3, <1>4, <1>5 DEF Next

\* Following a link changes the address alone.
LEMMA Navigated ==
  ASSUME IInv, NEW id \in Ids \cup {NoId}, Navigates(id) PROVE StillSound
  BY DEF IInv, TypeOK, Navigates, StillSound

LEMMA AskedIn == ASSUME IInv, Asked PROVE StillSound
<1>1. ASSUME NEW key \in Keys, ForgetsLedger(key) PROVE StillSound
  BY <1>1, Changed DEF ForgetsLedger
<1>2. CASE Amends
  BY <1>2, Changed, NoneTyped DEF Amends
<1>3. CASE Removes
  <2>1. route \in Ids
    BY <1>3 DEF IInv, TypeOK, Removes, IdOrNone
  <2> QED BY <1>3, <2>1, Changed DEF Removes, IdOrNone
<1> QED BY <1>1, <1>2, <1>3, Navigated, Shifted, Shown, LedgerLoaded, LedgerFiled, Relisted, Downloaded
        DEF Asked

LEMMA AnswersIn ==
  ASSUME IInv, NEW c \in b.calls, NEW ok \in BOOLEAN,
         \/ ListsAnswered(c, ok) \/ SessionAnswered(c, ok) \/ LedgerAnswered(c, ok)
         \/ ChangeAnswered(c, ok)
  PROVE  StillSound
  BY ListsIn, SessionIn, LedgerIn, ChangeIn

\* What a step does not hand over was handed over before, or is the file asked for.
LEMMA Step ==
  ASSUME IInv, Next
  PROVE  /\ b' \in Browsers /\ Sound(b', given')
         /\ b'.exported = "done" /\ b.exported # "done" =>
              \A c \in b.calls \ b'.calls : c.of = b.requested /\ c.on = given
<1>1. CASE Asked
  BY <1>1, AskedIn DEF StillSound
<1>2. CASE AddressWatched
  BY <1>2, Watched DEF StillSound
<1>3. CASE Answers
  <2>1. PICK c \in b.calls, ok \in BOOLEAN :
          \/ ListsAnswered(c, ok) \/ SessionAnswered(c, ok) \/ LedgerAnswered(c, ok)
          \/ ChangeAnswered(c, ok) \/ ExportAnswered(c, ok)
    BY <1>3 DEF Answers
  <2>2. CASE ExportAnswered(c, ok)
    BY <2>2, ExportIn
  <2>3. CASE ~ExportAnswered(c, ok)
    BY <2>1, <2>3, AnswersIn DEF StillSound
  <2> QED BY <2>2, <2>3
<1>4. CASE Leaves
  BY <1>4, Left DEF Leaves, StillSound
<1> QED BY <1>1, <1>2, <1>3, <1>4 DEF Next

LEMMA Preserved == ASSUME IInv, [Next]_vars PROVE IInv'
<1>1. CASE Next
  <2>1. b' \in Browsers /\ Sound(b', given')
    BY <1>1, Step
  <2>2. given' \in StoreOrNone
    BY <2>1 DEF Sound, Browsers
  <2> QED BY <1>1, <2>1, <2>2, RestTyped DEF IInv, TypeOK
<1>2. CASE UNCHANGED vars
  BY <1>2 DEF IInv, TypeOK, vars
<1> QED BY <1>1, <1>2

-----------------------------------------------------------------------------
(* The theorems *)

\* Every reachable browser is sound: whatever is asked for and however late the
\* stores answer, a call whose token stands was made of the archive and about the
\* session chosen now, so that its answer may be shown.
THEOREM SoundAlways == Spec => []IInv
<1>1. Init => IInv
  BY Start
<1>2. IInv /\ [Next]_vars => IInv'
  BY Preserved
<1> QED BY <1>1, <1>2, PTL DEF Spec

\* The lists, the session and the ledger on screen came from the archive chosen,
\* the session is the one last asked for and, once nothing loads, the stretch is
\* too: read, refresh and the ledger readers never apply a late answer.
THEOREM ScreenFollowsTheOwner == Spec => []ScreenIsWhatWasAsked
<1>1. IInv => ScreenIsWhatWasAsked
  BY DEF IInv, Sound, ShownSound, ScreenIsWhatWasAsked, ScreenIsOneArchive, ShownIsAsked
<1> QED BY <1>1, SoundAlways, PTL

\* noteViewing keeps up: the archive on screen was told which session is shown,
\* and no archive left behind still guards one.
THEOREM StoresAreTold == Spec => []ViewingIsTold
<1>1. IInv => ViewingIsTold
  BY DEF IInv, Sound, ShownSound, ToldSound, ViewingIsTold
<1> QED BY <1>1, SoundAlways, PTL

\* downloadSession never hands over a file of a session the page has left, nor
\* one out of an archive that is no longer shown.
THEOREM FilesAreAsked == Spec => FileIsOfTheSessionAsked
<1>1. IInv /\ [Next]_vars =>
        [b'.exported = "done" /\ b.exported # "done" =>
           \A c \in b.calls \ b'.calls : c.of = b.requested /\ c.on = given]_vars
  BY Step
<1> QED BY <1>1, SoundAlways, PTL DEF Spec, FileIsOfTheSessionAsked

-----------------------------------------------------------------------------
(* Sums, counted one by one. *)

\* The items of F[c], for each c of C.
Tally(F, C) == UNION {{c} \X F[c] : c \in C}

LEMMA InTally ==
  ASSUME NEW F, NEW C, NEW p
  PROVE  p \in Tally(F, C) <=> \E c \in C : \E i \in F[c] : p = <<c, i>>
  BY DEF Tally

LEMMA TallyFinite ==
  ASSUME NEW F, NEW C, IsFiniteSet(C), \A c \in C : IsFiniteSet(F[c])
  PROVE  IsFiniteSet(Tally(F, C)) /\ Cardinality(Tally(F, C)) \in Nat
<1> DEFINE parts == {{c} \X F[c] : c \in C}
<1>1. IsFiniteSet(parts)
  <2> DEFINE f == [c \in C |-> {c} \X F[c]]
  <2>1. f \in Surjection(C, parts)
    BY DEF Surjection
  <2> HIDE DEF f, parts
  <2> QED BY <2>1, FS_Surjection
<1>2. ASSUME NEW c \in C
      PROVE  IsFiniteSet({c} \X F[c])
  BY FS_Singleton, FS_Product
<1>3. \A T \in parts : IsFiniteSet(T)
  BY <1>2
<1>4. IsFiniteSet(UNION parts)
  BY <1>1, <1>3, FS_UNION
<1> QED BY <1>4, FS_CardinalityType DEF Tally

LEMMA TallyOfTwo ==
  ASSUME NEW F, NEW A, NEW B, IsFiniteSet(A), IsFiniteSet(B), A \cap B = {},
         \A c \in A \cup B : IsFiniteSet(F[c])
  PROVE  Cardinality(Tally(F, A \cup B))
           = Cardinality(Tally(F, A)) + Cardinality(Tally(F, B))
<1>1. Tally(F, A \cup B) = Tally(F, A) \cup Tally(F, B)
  BY DEF Tally
<1>2. ASSUME NEW p \in Tally(F, A) \cap Tally(F, B)
      PROVE  FALSE
  <2>1. PICK c \in A : \E i \in F[c] : p = <<c, i>>
    BY <1>2, InTally
  <2>2. PICK d \in B : \E i \in F[d] : p = <<d, i>>
    BY <1>2, InTally
  <2>3. p[1] = c /\ p[1] = d
    BY <2>1, <2>2
  <2> QED BY <2>3
<1>3. Tally(F, A) \cap Tally(F, B) = {}
  BY <1>2
<1>4. /\ IsFiniteSet(Tally(F, A)) /\ Cardinality(Tally(F, A)) \in Nat
      /\ IsFiniteSet(Tally(F, B)) /\ Cardinality(Tally(F, B)) \in Nat
  BY TallyFinite
<1>5. Cardinality(Tally(F, A) \cup Tally(F, B))
        = Cardinality(Tally(F, A)) + Cardinality(Tally(F, B))
          - Cardinality(Tally(F, A) \cap Tally(F, B))
  BY <1>4, FS_Union
<1>6. Cardinality({}) = 0
  BY FS_EmptySet
<1>7. Cardinality(Tally(F, A) \cap Tally(F, B)) = 0
  BY <1>3, <1>6
<1>8. Cardinality(Tally(F, A \cup B)) = Cardinality(Tally(F, A) \cup Tally(F, B))
  BY <1>1
<1> HIDE DEF Tally
<1> QED BY <1>4, <1>5, <1>7, <1>8

LEMMA TallyWithout ==
  ASSUME NEW F, NEW A, NEW B, IsFiniteSet(A), B \subseteq A,
         \A c \in A : IsFiniteSet(F[c])
  PROVE  /\ Cardinality(Tally(F, A \ B)) = Cardinality(Tally(F, A)) - Cardinality(Tally(F, B))
         /\ Cardinality(Tally(F, A)) \in Nat
         /\ Cardinality(Tally(F, B)) \in Nat
         /\ Cardinality(Tally(F, A \ B)) \in Nat
<1>1. IsFiniteSet(B) /\ IsFiniteSet(A \ B) /\ (A \ B) \cap B = {} /\ A = (A \ B) \cup B
  BY FS_Subset
<1>2. Cardinality(Tally(F, A)) = Cardinality(Tally(F, A \ B)) + Cardinality(Tally(F, B))
  <2>1. \A c \in (A \ B) \cup B : IsFiniteSet(F[c])
    BY <1>1
  <2>2. Cardinality(Tally(F, (A \ B) \cup B))
          = Cardinality(Tally(F, A \ B)) + Cardinality(Tally(F, B))
    BY <1>1, <2>1, TallyOfTwo
  <2> QED BY <1>1, <2>2
<1>3. /\ Cardinality(Tally(F, A \ B)) \in Nat /\ Cardinality(Tally(F, B)) \in Nat
      /\ Cardinality(Tally(F, A)) \in Nat
  BY <1>1, TallyFinite
<1> QED BY <1>2, <1>3

LEMMA TallyOfNone ==
  ASSUME NEW F, NEW C, \A c \in C : F[c] = {}
  PROVE  Cardinality(Tally(F, C)) = 0
<1>1. Tally(F, C) = {}
  BY InTally
<1> QED BY <1>1, FS_EmptySet

\* Each moved to another of as many items.
LEMMA TallyMoved ==
  ASSUME NEW F, NEW G, NEW C, NEW D, NEW h \in Bijection(C, D), IsFiniteSet(C),
         \A c \in C : IsFiniteSet(F[c]) /\ G[h[c]] = F[c]
  PROVE  Cardinality(Tally(G, D)) = Cardinality(Tally(F, C))
<1> DEFINE S == Tally(F, C)
           T == Tally(G, D)
           g == [p \in S |-> <<h[p[1]], p[2]>>]
<1>1. /\ \A c \in C : h[c] \in D
      /\ \A c, d \in C : h[c] = h[d] => c = d
      /\ \A e \in D : \E c \in C : h[c] = e
  BY DEF Bijection, Injection, Surjection, IsInjective
<1>2. IsFiniteSet(S)
  BY TallyFinite
<1>3. ASSUME NEW p \in S
      PROVE  p[1] \in C /\ p[2] \in F[p[1]] /\ p = <<p[1], p[2]>> /\ g[p] \in T
  <2>1. PICK c \in C : \E i \in F[c] : p = <<c, i>>
    BY <1>3, InTally
  <2>2. PICK i \in F[c] : p = <<c, i>>
    BY <2>1
  <2>3. p[1] = c /\ p[2] = i
    BY <2>2
  <2>4. h[c] \in D /\ i \in G[h[c]]
    BY <1>1, <2>2
  <2>5. <<h[c], i>> \in T
    BY <2>4, InTally
  <2> QED BY <2>2, <2>3, <2>5
<1>4. ASSUME NEW p \in S, NEW q \in S, g[p] = g[q]
      PROVE  p = q
  <2>1. h[p[1]] = h[q[1]] /\ p[2] = q[2]
    BY <1>4
  <2>2. p[1] = q[1]
    BY <1>1, <1>3, <2>1
  <2> QED BY <1>3, <2>1, <2>2
<1>5. ASSUME NEW q \in T
      PROVE  \E p \in S : g[p] = q
  <2>1. PICK e \in D : \E i \in G[e] : q = <<e, i>>
    BY <1>5, InTally
  <2>2. PICK i \in G[e] : q = <<e, i>>
    BY <2>1
  <2>3. PICK c \in C : h[c] = e
    BY <1>1
  <2>4. i \in F[c]
    BY <2>2, <2>3
  <2>5. <<c, i>> \in S
    BY <2>4, InTally
  <2>6. g[<<c, i>>] = q
    BY <2>2, <2>3, <2>5
  <2> QED BY <2>5, <2>6
<1>6. g \in Bijection(S, T)
  <2>1. g \in [S -> T]
    BY <1>3
  <2> HIDE DEF g, S, T
  <2> QED BY <1>4, <1>5, <2>1 DEF Bijection, Injection, Surjection, IsInjective
<1>7. ExistsBijection(S, T)
  BY <1>6 DEF ExistsBijection
<1> HIDE DEF S, T
<1>8. Cardinality(T) = Cardinality(S)
  BY <1>2, <1>7, FS_Bijection
<1> QED BY <1>8 DEF S, T

\* Group by group, each by its number.
LEMMA TallyOfGroups ==
  ASSUME NEW F, NEW C, IsFiniteSet(C), \A c \in C : IsFiniteSet(F[c]),
         NEW N, NEW D, \A c \in C : c.of \in D,
         \A s \in D : N[s] = 1 .. Cardinality(Tally(F, Of(C, s)))
  PROVE  Cardinality(Tally(N, D)) = Cardinality(Tally(F, C))
<1> DEFINE S == Tally(N, D)
           T == Tally(F, C)
           B(s) == Bijection(1 .. Cardinality(Tally(F, Of(C, s))), Tally(F, Of(C, s)))
           v == [s \in D |-> CHOOSE f : f \in B(s)]
           g == [p \in S |-> v[p[1]][p[2]]]
<1>1. ASSUME NEW s \in D
      PROVE  v[s] \in B(s)
  <2>1. IsFiniteSet(Of(C, s)) /\ \A c \in Of(C, s) : IsFiniteSet(F[c])
    BY FS_Subset DEF Of
  <2>2. IsFiniteSet(Tally(F, Of(C, s)))
    BY <2>1, TallyFinite
  <2>3. B(s) # {}
    BY <2>2, FS_CardinalityType DEF ExistsBijection
  <2> HIDE DEF B
  <2>4. (CHOOSE f : f \in B(s)) \in B(s)
    BY <2>3
  <2> QED BY <2>4
<1>2. ASSUME NEW s \in D
      PROVE  /\ \A i \in N[s] : v[s][i] \in Tally(F, Of(C, s))
             /\ \A i, j \in N[s] : v[s][i] = v[s][j] => i = j
             /\ \A q \in Tally(F, Of(C, s)) : \E i \in N[s] : v[s][i] = q
  <2>1. v[s] \in Bijection(N[s], Tally(F, Of(C, s)))
    BY <1>1
  <2> HIDE DEF v
  <2> QED BY <2>1 DEF Bijection, Injection, Surjection, IsInjective
<1> HIDE DEF v
<1>3. ASSUME NEW s \in D, NEW q \in Tally(F, Of(C, s))
      PROVE  q \in T /\ q[1].of = s
  <2>1. PICK c \in Of(C, s) : \E i \in F[c] : q = <<c, i>>
    BY <1>3, InTally
  <2>2. c \in C /\ c.of = s /\ q[1] = c
    BY <2>1 DEF Of
  <2>3. q \in Tally(F, C)
    BY <2>1, <2>2, InTally
  <2> QED BY <2>2, <2>3
<1>4. ASSUME NEW p \in S
      PROVE  p[1] \in D /\ p[2] \in N[p[1]] /\ p = <<p[1], p[2]>>
  <2>1. PICK s \in D : \E i \in N[s] : p = <<s, i>>
    BY <1>4, InTally
  <2> QED BY <2>1
<1>5. ASSUME NEW p \in S
      PROVE  g[p] \in T /\ g[p][1].of = p[1]
  <2>1. v[p[1]][p[2]] \in Tally(F, Of(C, p[1]))
    BY <1>2, <1>4
  <2>2. g[p] = v[p[1]][p[2]]
    BY <1>5
  <2> QED BY <1>3, <1>4, <2>1, <2>2
<1>6. ASSUME NEW p \in S, NEW q \in S, g[p] = g[q]
      PROVE  p = q
  <2>1. p[1] = q[1]
    BY <1>5, <1>6
  <2>2. v[p[1]][p[2]] = v[p[1]][q[2]]
    BY <1>6, <2>1
  <2>3. p[2] = q[2]
    BY <1>2, <1>4, <2>1, <2>2
  <2> QED BY <1>4, <2>1, <2>3
<1>7. ASSUME NEW q \in T
      PROVE  \E p \in S : g[p] = q
  <2>1. PICK c \in C : \E i \in F[c] : q = <<c, i>>
    BY <1>7, InTally
  <2>2. c.of \in D /\ c \in Of(C, c.of)
    BY DEF Of
  <2>3. q \in Tally(F, Of(C, c.of))
    BY <2>1, <2>2, InTally
  <2>4. PICK i \in N[c.of] : v[c.of][i] = q
    BY <1>2, <2>2, <2>3
  <2>5. <<c.of, i>> \in S
    BY <2>2, <2>4, InTally
  <2>6. g[<<c.of, i>>] = q
    BY <2>4, <2>5
  <2> QED BY <2>5, <2>6
<1>8. g \in Bijection(S, T)
  <2>1. g \in [S -> T]
    BY <1>5
  <2> HIDE DEF g, S, T
  <2> QED BY <1>6, <1>7, <2>1 DEF Bijection, Injection, Surjection, IsInjective
<1>9. ExistsBijection(S, T) /\ ExistsBijection(T, S)
  <2> HIDE DEF g, S, T
  <2>1. ExistsBijection(S, T)
    BY <1>8 DEF ExistsBijection
  <2>2. DEFINE k == [q \in T |-> CHOOSE p \in S : g[p] = q]
  <2>3. \A q \in T : k[q] \in S /\ g[k[q]] = q
    BY <1>7
  <2>4. \A q, r \in T : k[q] = k[r] => q = r
    BY <2>3
  <2>5. \A p \in S : g[p] \in T /\ k[g[p]] = p
    BY <1>6, <1>5, <2>3
  <2>6. k \in [T -> S]
    BY <2>3
  <2>7. \A p \in S : \E q \in T : k[q] = p
    BY <2>5
  <2> HIDE DEF k
  <2>8. k \in Bijection(T, S)
    BY <2>4, <2>6, <2>7 DEF Bijection, Injection, Surjection, IsInjective
  <2> QED BY <2>1, <2>8 DEF ExistsBijection
<1> HIDE DEF S, T
<1>10. IsFiniteSet(T)
  BY TallyFinite DEF T
<1>11. Cardinality(S) = Cardinality(T)
  BY <1>9, <1>10, FS_Bijection
<1> QED BY <1>11 DEF S, T

-----------------------------------------------------------------------------
(* What the archive is made of. *)

RowRecords ==
  [state : {"open", "closed"}, beat : Nat, ended : Nat,
   basis : {"none", "recorded", "reconstructed"}, sealed : Nat, retained : Nat,
   seen : BOOLEAN]

ChunkRecords ==
  [of : Sessions, stream : Streams, seq : Nat, at : (SUBSET Instants) \ {{}}, sealed : BOOLEAN]

HourRecords ==
  [of : Sessions, hour : Nat, basis : {"recorded", "reconstructed"}, from : Nat, to : Nat,
   holds : SUBSET (Streams \X Instants)]

Tables == UNION {[S -> RowRecords] : S \in SUBSET Sessions}

Archives ==
  [rows : Tables, chunks : SUBSET ChunkRecords, hours : SUBSET HourRecords,
   total : Int, raw : Int]

\* Each chunk under a key of its own.
KeysTell(chunks) == \A c, d \in chunks : SameKey(c, d) => c = d

\* What holds of every archive, whoever left it.
Kept(a) ==
  /\ a \in Archives /\ IsFiniteSet(a.chunks) /\ KeysTell(a.chunks)
  /\ \A s \in DOMAIN a.rows : a.rows[s].sealed = SealedSamples(Of(a.chunks, s))

Owned(a) == \A x \in a.chunks \cup a.hours : x.of \in DOMAIN a.rows

\* What every transaction leaves of it.
Balanced(a) ==
  /\ Kept(a) /\ Owned(a)
  /\ a.total = SealedSamples(a.chunks)
  /\ a.raw \in {Unknown, RawBytes(a.chunks)}

LEMMA ArchiveConstants ==
  /\ MaxSession \in Nat /\ MaxSession >= 2
  /\ MaxTime \in Nat /\ MaxTime >= 3
  /\ HourSpan \in Nat /\ HourSpan > 0
  /\ Capacities \subseteq Nat /\ Capacities # {}
  /\ Legacies \subseteq {"fresh", "cut", "littered"}
<1>1. \A n \in {MaxSession, MaxTime, HourSpan, ChunkSize, MaxSessions, MaxHours,
                Retention, StaleAfter, MaxHappenings} : n \in Nat \ {0}
  BY ArchiveAssumption
<1>2. MaxSession \in Nat \ {0} /\ MaxTime \in Nat \ {0} /\ HourSpan \in Nat \ {0}
  BY <1>1
<1> QED BY <1>2, ArchiveAssumption

-----------------------------------------------------------------------------
(* Sums over chunks. *)

SealedOf == [c \in ChunkRecords |-> IF c.sealed THEN c.at ELSE {}]
BytesOf == [c \in ChunkRecords |-> c.at \X SampleBytes(c.stream)]

LEMMA SumsAreTallies ==
  ASSUME NEW C \in SUBSET ChunkRecords
  PROVE  /\ SealedSamples(C) = Cardinality(Tally(SealedOf, C))
         /\ RawBytes(C) = Cardinality(Tally(BytesOf, C))
<1>1. UNION {{c} \X c.at : c \in {d \in C : d.sealed}} = Tally(SealedOf, C)
  <2> DEFINE A == UNION {{c} \X c.at : c \in {d \in C : d.sealed}}
  <2>1. ASSUME NEW p \in A
        PROVE  p \in Tally(SealedOf, C)
    <3>1. PICK c \in {d \in C : d.sealed} : p \in {c} \X c.at
      BY <2>1
    <3>2. SealedOf[c] = c.at
      BY <3>1 DEF SealedOf
    <3> QED BY <3>1, <3>2 DEF Tally
  <2>2. ASSUME NEW p \in Tally(SealedOf, C)
        PROVE  p \in A
    <3>1. PICK c \in C : p \in {c} \X SealedOf[c]
      BY <2>2 DEF Tally
    <3>2. SealedOf[c] # {}
      BY <3>1
    <3>3. c.sealed /\ SealedOf[c] = c.at
      BY <3>2 DEF SealedOf
    <3> QED BY <3>1, <3>3
  <2> HIDE DEF A
  <2>3. A = Tally(SealedOf, C)
    BY <2>1, <2>2
  <2> QED BY <2>3 DEF A
<1>2. UNION {{c} \X (c.at \X SampleBytes(c.stream)) : c \in C} = Tally(BytesOf, C)
  <2>1. \A c \in C : BytesOf[c] = c.at \X SampleBytes(c.stream)
    BY DEF BytesOf
  <2> QED BY <2>1 DEF Tally
<1> QED BY <1>1, <1>2 DEF SealedSamples, RawBytes

LEMMA InstantsFinite ==
  ASSUME NEW S \in SUBSET Instants
  PROVE  IsFiniteSet(S)
<1>1. 0 \in Int /\ MaxTime \in Int
  BY ArchiveConstants
<1>2. IsFiniteSet(Instants)
  BY <1>1, FS_Interval DEF Instants
<1> QED BY <1>2, FS_Subset

LEMMA ItemsFinite ==
  ASSUME NEW c \in ChunkRecords
  PROVE  IsFiniteSet(SealedOf[c]) /\ IsFiniteSet(BytesOf[c])
<1>1. IsFiniteSet(c.at)
  BY InstantsFinite DEF ChunkRecords
<1>2. IsFiniteSet(SampleBytes(c.stream))
  <2>1. 1 \in Int /\ 2 \in Int
    OBVIOUS
  <2>2. IsFiniteSet(1 .. 2) /\ IsFiniteSet(1 .. 1)
    BY <2>1, FS_Interval
  <2> QED BY <2>2 DEF SampleBytes
<1>3. IsFiniteSet(c.at \X SampleBytes(c.stream))
  BY <1>1, <1>2, FS_Product
<1> QED BY <1>1, <1>3, FS_EmptySet DEF SealedOf, BytesOf

LEMMA SumsWithout ==
  ASSUME NEW A \in SUBSET ChunkRecords, IsFiniteSet(A), NEW B \in SUBSET A
  PROVE  /\ SealedSamples(A \ B) = SealedSamples(A) - SealedSamples(B)
         /\ RawBytes(A \ B) = RawBytes(A) - RawBytes(B)
         /\ SealedSamples(A) \in Nat /\ SealedSamples(B) \in Nat /\ SealedSamples(A \ B) \in Nat
         /\ RawBytes(A) \in Nat /\ RawBytes(B) \in Nat /\ RawBytes(A \ B) \in Nat
<1>1. \A c \in A : IsFiniteSet(SealedOf[c]) /\ IsFiniteSet(BytesOf[c])
  BY ItemsFinite
<1>2. B \in SUBSET ChunkRecords /\ A \ B \in SUBSET ChunkRecords
  OBVIOUS
<1>3. /\ Cardinality(Tally(SealedOf, A \ B))
           = Cardinality(Tally(SealedOf, A)) - Cardinality(Tally(SealedOf, B))
      /\ Cardinality(Tally(SealedOf, A)) \in Nat /\ Cardinality(Tally(SealedOf, B)) \in Nat
      /\ Cardinality(Tally(SealedOf, A \ B)) \in Nat
  BY <1>1, TallyWithout
<1>4. /\ Cardinality(Tally(BytesOf, A \ B))
           = Cardinality(Tally(BytesOf, A)) - Cardinality(Tally(BytesOf, B))
      /\ Cardinality(Tally(BytesOf, A)) \in Nat /\ Cardinality(Tally(BytesOf, B)) \in Nat
      /\ Cardinality(Tally(BytesOf, A \ B)) \in Nat
  BY <1>1, TallyWithout
<1> QED BY <1>2, <1>3, <1>4, SumsAreTallies

LEMMA SumsOfTwo ==
  ASSUME NEW A \in SUBSET ChunkRecords, NEW B \in SUBSET ChunkRecords,
         IsFiniteSet(A), IsFiniteSet(B), A \cap B = {}
  PROVE  /\ SealedSamples(A \cup B) = SealedSamples(A) + SealedSamples(B)
         /\ RawBytes(A \cup B) = RawBytes(A) + RawBytes(B)
<1>1. IsFiniteSet(A \cup B) /\ A \cup B \in SUBSET ChunkRecords
  BY FS_Union
<1>2. (A \cup B) \ B = A /\ B \in SUBSET (A \cup B)
  OBVIOUS
<1> HIDE DEF SealedSamples, RawBytes
<1>3. /\ SealedSamples((A \cup B) \ B) = SealedSamples(A \cup B) - SealedSamples(B)
      /\ RawBytes((A \cup B) \ B) = RawBytes(A \cup B) - RawBytes(B)
      /\ SealedSamples(A \cup B) \in Nat /\ SealedSamples(B) \in Nat
      /\ RawBytes(A \cup B) \in Nat /\ RawBytes(B) \in Nat
  BY <1>1, <1>2, SumsWithout
<1>4. SealedSamples((A \cup B) \ B) = SealedSamples(A) /\ RawBytes((A \cup B) \ B) = RawBytes(A)
  BY <1>2
<1> QED BY <1>3, <1>4

LEMMA NoneSealed ==
  ASSUME NEW C \in SUBSET ChunkRecords, \A c \in C : ~c.sealed
  PROVE  SealedSamples(C) = 0
<1>1. \A c \in C : SealedOf[c] = {}
  BY DEF SealedOf
<1> QED BY <1>1, TallyOfNone, SumsAreTallies

LEMMA OneSealed ==
  ASSUME NEW c \in ChunkRecords, c.sealed
  PROVE  SealedSamples({c}) = Cardinality(c.at) /\ Cardinality(c.at) \in Nat
<1>1. SealedOf[c] = c.at /\ IsFiniteSet(c.at)
  BY InstantsFinite DEF SealedOf, ChunkRecords
<1>2. Tally(SealedOf, {c}) = {c} \X c.at
  BY <1>1 DEF Tally
<1>3. IsFiniteSet({c}) /\ Cardinality({c}) = 1
  BY FS_Singleton
<1>4. Cardinality({c} \X c.at) = 1 * Cardinality(c.at) /\ Cardinality(c.at) \in Nat
  BY <1>1, <1>3, FS_Product, FS_CardinalityType
<1>5. SealedSamples({c}) = Cardinality(Tally(SealedOf, {c}))
  BY SumsAreTallies
<1>6. SealedSamples({c}) = 1 * Cardinality(c.at)
  BY <1>2, <1>4, <1>5
<1> HIDE DEF SealedSamples
<1> QED BY <1>4, <1>6

Sealed(c, S) == IF c.of \in S THEN [c EXCEPT !.sealed = TRUE] ELSE c

LEMMA SealedChunk ==
  ASSUME NEW c \in ChunkRecords, NEW S
  PROVE  /\ Sealed(c, S) \in ChunkRecords
         /\ Sealed(c, S).of = c.of /\ Sealed(c, S).stream = c.stream
         /\ Sealed(c, S).seq = c.seq /\ Sealed(c, S).at = c.at
         /\ c.sealed => Sealed(c, S).sealed
         /\ BytesOf[Sealed(c, S)] = BytesOf[c]
<1>1. /\ Sealed(c, S) \in ChunkRecords
      /\ Sealed(c, S).of = c.of /\ Sealed(c, S).stream = c.stream
      /\ Sealed(c, S).seq = c.seq /\ Sealed(c, S).at = c.at
      /\ c.sealed => Sealed(c, S).sealed
  BY DEF Sealed, ChunkRecords
<1>2. BytesOf[Sealed(c, S)] = BytesOf[c]
  BY <1>1 DEF BytesOf
<1> QED BY <1>1, <1>2

LEMMA SealedAll ==
  ASSUME NEW C \in SUBSET ChunkRecords, IsFiniteSet(C), KeysTell(C), NEW S
  PROVE  /\ SealOpenChunks(C, S) \in SUBSET ChunkRecords
         /\ IsFiniteSet(SealOpenChunks(C, S))
         /\ KeysTell(SealOpenChunks(C, S))
         /\ RawBytes(SealOpenChunks(C, S)) = RawBytes(C)
         /\ \A s : Of(SealOpenChunks(C, S), s) = SealOpenChunks(Of(C, s), S)
         /\ \A s : s \notin S => Of(SealOpenChunks(C, S), s) = Of(C, s)
<1> DEFINE D == SealOpenChunks(C, S)
           h == [c \in C |-> Sealed(c, S)]
<1>1. D = {Sealed(c, S) : c \in C}
  BY DEF SealOpenChunks, Sealed
<1>2. \A c \in C : /\ Sealed(c, S) \in ChunkRecords /\ Sealed(c, S).of = c.of
                   /\ Sealed(c, S).stream = c.stream /\ Sealed(c, S).seq = c.seq
                   /\ BytesOf[Sealed(c, S)] = BytesOf[c]
  BY SealedChunk
<1>3. D \in SUBSET ChunkRecords
  BY <1>1, <1>2
<1>4. \A c, d \in C : SameKey(Sealed(c, S), Sealed(d, S)) => c = d
  BY <1>2 DEF KeysTell, SameKey
<1>5. KeysTell(D)
  BY <1>1, <1>4 DEF KeysTell
<1>6. h \in Bijection(C, D)
  <2>1. \A c \in C : h[c] = Sealed(c, S) /\ h[c] \in D
    BY <1>1
  <2>2. \A c, d \in C : h[c] = h[d] => c = d
    BY <1>4, <2>1 DEF SameKey
  <2>3. \A e \in D : \E c \in C : h[c] = e
    BY <1>1, <2>1
  <2>4. h \in [C -> D]
    BY <2>1
  <2> HIDE DEF h, D
  <2> QED BY <2>2, <2>3, <2>4 DEF Bijection, Injection, Surjection, IsInjective
<1>7. IsFiniteSet(D)
  <2> HIDE DEF h, D
  <2> QED BY <1>6, FS_Surjection DEF Bijection
<1>8. RawBytes(D) = RawBytes(C)
  <2>1. \A c \in C : IsFiniteSet(BytesOf[c]) /\ BytesOf[h[c]] = BytesOf[c]
    BY <1>2, ItemsFinite
  <2> HIDE DEF h, D
  <2>2. Cardinality(Tally(BytesOf, D)) = Cardinality(Tally(BytesOf, C))
    BY <1>6, <2>1, TallyMoved
  <2> QED BY <1>3, <2>2, SumsAreTallies
<1>9. \A s : Of(D, s) = SealOpenChunks(Of(C, s), S)
  <2>1. ASSUME NEW s
        PROVE  Of(D, s) = {Sealed(c, S) : c \in Of(C, s)}
    BY <1>1, <1>2 DEF Of
  <2> QED BY <2>1 DEF SealOpenChunks, Sealed
<1>10. \A s : s \notin S => Of(D, s) = Of(C, s)
  <2>1. ASSUME NEW s, s \notin S
        PROVE  SealOpenChunks(Of(C, s), S) = Of(C, s)
    BY <2>1 DEF SealOpenChunks, Of
  <2> QED BY <1>9, <2>1
<1> QED BY <1>3, <1>5, <1>7, <1>8, <1>9, <1>10

\* What the rows say is sealed is what is sealed.
LEMMA RowsTell ==
  ASSUME NEW C \in SUBSET ChunkRecords, IsFiniteSet(C), NEW rows,
         \A c \in C : c.of \in DOMAIN rows,
         \A s \in DOMAIN rows : rows[s].sealed = SealedSamples(Of(C, s))
  PROVE  SealedInRows(rows) = SealedSamples(C)
<1> DEFINE N == [s \in DOMAIN rows |-> 1 .. rows[s].sealed]
<1>1. \A s \in DOMAIN rows : N[s] = 1 .. Cardinality(Tally(SealedOf, Of(C, s)))
  <2>1. \A s : Of(C, s) \in SUBSET ChunkRecords
    BY DEF Of
  <2> QED BY <2>1, SumsAreTallies
<1>2. SealedInRows(rows) = Cardinality(Tally(N, DOMAIN rows))
  <2>1. UNION {{s} \X (1 .. rows[s].sealed) : s \in DOMAIN rows} = Tally(N, DOMAIN rows)
    BY DEF Tally
  <2> QED BY <2>1 DEF SealedInRows
<1>3. \A c \in C : IsFiniteSet(SealedOf[c])
  BY ItemsFinite
<1> HIDE DEF N
<1>4. Cardinality(Tally(N, DOMAIN rows)) = Cardinality(Tally(SealedOf, C))
  BY <1>1, <1>3, TallyOfGroups
<1> QED BY <1>2, <1>4, SumsAreTallies

-----------------------------------------------------------------------------
(* Hours and their summaries. *)

LEMMA MinOf ==
  ASSUME NEW S \in SUBSET Nat, S # {}
  PROVE  Min(S) \in S /\ \A y \in S : Min(S) <= y
<1>1. PICK x \in S : \A y \in S : ~(<<y, x>> \in OpToRel(<, Nat))
  BY WFMin, NatLessThanWellFounded
<1>2. ASSUME NEW y \in S
      PROVE  x <= y
  <2>1. <<y, x>> \in Nat \X Nat /\ <<y, x>>[1] = y /\ <<y, x>>[2] = x
    OBVIOUS
  <2>2. ~(y < x)
    BY <1>1, <2>1 DEF OpToRel
  <2> QED BY <2>2
<1> QED BY <1>2 DEF Min

LEMMA MaxOf ==
  ASSUME NEW S \in SUBSET Instants, S # {}
  PROVE  Max(S) \in S /\ \A y \in S : Max(S) >= y
<1> DEFINE T == {MaxTime - y : y \in S}
<1>1. S \subseteq Nat /\ MaxTime \in Nat /\ \A y \in S : y <= MaxTime /\ MaxTime - y \in Nat
  BY ArchiveConstants DEF Instants
<1>2. T \in SUBSET Nat /\ T # {}
  BY <1>1
<1> HIDE DEF T
<1>3. Min(T) \in T /\ \A z \in T : Min(T) <= z
  BY <1>2, MinOf
<1> USE DEF T
<1>4. PICK x \in S : Min(T) = MaxTime - x
  BY <1>3
<1>5. ASSUME NEW y \in S
      PROVE  x >= y
  <2>1. MaxTime - y \in T
    OBVIOUS
  <2>2. MaxTime - x <= MaxTime - y
    BY <1>3, <1>4, <2>1
  <2> QED BY <1>1, <2>2
<1> QED BY <1>5 DEF Max

LEMMA HourFacts ==
  ASSUME NEW t \in Nat
  PROVE  /\ HourOf(t) \in Nat
         /\ HourOf(t) * HourSpan \in Nat /\ (HourOf(t) + 1) * HourSpan \in Nat
         /\ HourOf(t) * HourSpan <= t /\ t < (HourOf(t) + 1) * HourSpan
<1>1. HourSpan \in Nat /\ HourSpan > 0
  BY ArchiveConstants
<1>2. ASSUME NEW w \in Nat, w > 0
      PROVE  /\ t \div w \in Nat /\ t = w * (t \div w) + (t % w)
             /\ t % w \in Nat /\ t % w < w
             /\ (t \div w) * w \in Nat
             /\ (t \div w + 1) * w = (t \div w) * w + w
             /\ (t \div w) * w = w * (t \div w)
    BY <1>2
<1>3. /\ t \div HourSpan \in Nat /\ t = HourSpan * (t \div HourSpan) + (t % HourSpan)
      /\ t % HourSpan \in Nat /\ t % HourSpan < HourSpan
      /\ (t \div HourSpan) * HourSpan \in Nat
      /\ (t \div HourSpan + 1) * HourSpan = (t \div HourSpan) * HourSpan + HourSpan
      /\ (t \div HourSpan) * HourSpan = HourSpan * (t \div HourSpan)
  BY <1>1, <1>2
<1> QED BY <1>1, <1>3 DEF HourOf

Given == SUBSET (Streams \X Instants)

LEMMA SummaryTyped ==
  ASSUME NEW s \in Sessions, NEW h \in Nat, NEW basis \in {"recorded", "reconstructed"},
         NEW taken \in Given, \E k \in taken : HourOf(k[2]) = h
  PROVE  /\ Summary(s, h, basis, taken) \in HourRecords
         /\ Summary(s, h, basis, taken).of = s
         /\ Summary(s, h, basis, taken).hour = h
         /\ Summary(s, h, basis, taken).basis = basis
         /\ Summary(s, h, basis, taken).holds = {k \in taken : HourOf(k[2]) = h}
<1> DEFINE inside == {k[2] : k \in {j \in taken : HourOf(j[2]) = h}}
           before == \E k \in taken : HourOf(k[2]) < h
           after == \E k \in taken : HourOf(k[2]) > h
           from == IF before THEN h * HourSpan ELSE Min(inside)
           to == IF after THEN (h + 1) * HourSpan ELSE Max(inside)
           holds == {k \in taken : HourOf(k[2]) = h}
<1>1. inside \in SUBSET Instants /\ inside # {} /\ inside \in SUBSET Nat
  BY DEF Given, Instants
<1>2. h * HourSpan \in Nat /\ (h + 1) * HourSpan \in Nat
  <2>1. HourSpan \in Nat
    BY ArchiveConstants
  <2>2. \A m, n \in Nat : m * n \in Nat
    OBVIOUS
  <2> QED BY <2>1, <2>2
<1> HIDE DEF inside
<1>3. Min(inside) \in Nat /\ Max(inside) \in Nat
  BY <1>1, MinOf, MaxOf
<1>4. from \in Nat /\ to \in Nat
  BY <1>2, <1>3
<1>5. holds \in SUBSET (Streams \X Instants)
  BY DEF Given
<1>6. Summary(s, h, basis, taken)
        = [of |-> s, hour |-> h, basis |-> basis, from |-> from, to |-> to, holds |-> holds]
  BY DEF Summary, inside
<1> HIDE DEF from, to, holds
<1>7. [of |-> s, hour |-> h, basis |-> basis, from |-> from, to |-> to, holds |-> holds]
        \in HourRecords
  BY <1>4, <1>5 DEF HourRecords
<1>8. Summary(s, h, basis, taken) \in HourRecords
  BY <1>6, <1>7
<1>9. Summary(s, h, basis, taken).holds = holds
  BY <1>6
<1> QED BY <1>6, <1>8, <1>9 DEF holds

LEMMA SamplesTyped ==
  ASSUME NEW C \in SUBSET ChunkRecords
  PROVE  Samples(C) \in Given
  BY DEF Samples, Given, ChunkRecords

-----------------------------------------------------------------------------
(* Compaction. *)

Raw(a, s) == Samples(Of(a.chunks, s))

Redone(a, s, h) ==
  \A x \in Of(a.hours, s) :
    x.hour = h => x.basis # "recorded" /\ h * HourSpan >= a.rows[s].retained

NearHour(a, s, h) ==
  {k \in Raw(a, s) : k[2] \in (h * HourSpan - 1) .. ((h + 1) * HourSpan)}

Made(a, s) ==
  {Summary(s, h, "reconstructed", NearHour(a, s, h)) :
     h \in {g \in {HourOf(k[2]) : k \in Raw(a, s)} : Redone(a, s, g)}}

Passed(a, s) ==
  \/ a.rows[s].basis = "recorded"
  \/ a.rows[s].state = "closed" /\ a.rows[s].basis = "reconstructed"
  \/ Raw(a, s) = {}

LEMMA CompactIs ==
  ASSUME NEW a, NEW s
  PROVE  Compact(a, s) =
           IF Passed(a, s) THEN a
           ELSE [a EXCEPT !.hours = PutHours(@, Made(a, s)),
                          !.rows[s].basis = "reconstructed"]
  BY DEF Compact, Passed, Made, NearHour, Redone, Raw

LEMMA RawTyped ==
  ASSUME NEW a \in Archives, NEW s
  PROVE  Raw(a, s) \in Given
<1>1. Of(a.chunks, s) \in SUBSET ChunkRecords
  BY DEF Archives, Of
<1> QED BY <1>1, SamplesTyped DEF Raw

\* What is made of an hour holds every raw row of it.
LEMMA MadeTyped ==
  ASSUME NEW a \in Archives, NEW s \in Sessions, NEW x \in Made(a, s)
  PROVE  /\ x \in HourRecords /\ x.of = s /\ x.basis = "reconstructed"
         /\ Redone(a, s, x.hour)
         /\ x.holds = {k \in Raw(a, s) : HourOf(k[2]) = x.hour}
<1>1. PICK h \in {HourOf(k[2]) : k \in Raw(a, s)} :
        Redone(a, s, h) /\ x = Summary(s, h, "reconstructed", NearHour(a, s, h))
  BY DEF Made
<1>2. PICK k \in Raw(a, s) : h = HourOf(k[2])
  BY <1>1
<1>3. Raw(a, s) \in Given
  BY RawTyped
<1>4. \A j \in Raw(a, s) : j[2] \in Nat
  BY <1>3 DEF Given, Instants
<1>5. h \in Nat
  BY <1>2, <1>4, HourFacts
<1>6. ASSUME NEW j \in Raw(a, s), HourOf(j[2]) = h
      PROVE  j \in NearHour(a, s, h)
  <2>1. /\ h * HourSpan \in Nat /\ (h + 1) * HourSpan \in Nat
        /\ h * HourSpan <= j[2] /\ j[2] < (h + 1) * HourSpan
    BY <1>4, <1>6, HourFacts
  <2>2. j[2] \in Nat
    BY <1>4
  <2>3. \A l, m, n \in Nat : l <= m /\ m < n => m \in l - 1 .. n
    OBVIOUS
  <2>4. j[2] \in (h * HourSpan - 1) .. ((h + 1) * HourSpan)
    BY <2>1, <2>2, <2>3
  <2> QED BY <2>4 DEF NearHour
<1>7. NearHour(a, s, h) \in Given /\ NearHour(a, s, h) \subseteq Raw(a, s)
  BY <1>3 DEF Given, NearHour
<1>8. \E j \in NearHour(a, s, h) : HourOf(j[2]) = h
  BY <1>2, <1>6
<1>9. /\ x \in HourRecords /\ x.of = s /\ x.hour = h /\ x.basis = "reconstructed"
      /\ x.holds = {j \in NearHour(a, s, h) : HourOf(j[2]) = h}
  BY <1>1, <1>5, <1>7, <1>8, SummaryTyped
<1>10. {j \in NearHour(a, s, h) : HourOf(j[2]) = h} = {j \in Raw(a, s) : HourOf(j[2]) = h}
  BY <1>6, <1>7
<1>11. x.holds = {j \in Raw(a, s) : HourOf(j[2]) = x.hour}
  BY <1>9, <1>10
<1> QED BY <1>1, <1>9, <1>11

\* A row but for how its summaries came to be.
SameRow(r, q) ==
  /\ r.state = q.state /\ r.beat = q.beat /\ r.ended = q.ended
  /\ r.sealed = q.sealed /\ r.retained = q.retained /\ r.seen = q.seen

LEMMA TableTyped ==
  ASSUME NEW a \in Archives
  PROVE  /\ DOMAIN a.rows \subseteq Sessions
         /\ a.rows \in [DOMAIN a.rows -> RowRecords]
         /\ \A s \in DOMAIN a.rows : a.rows[s] \in RowRecords
<1>1. PICK S \in SUBSET Sessions : a.rows \in [S -> RowRecords]
  BY DEF Archives, Tables
<1> QED BY <1>1

LEMMA InTables ==
  ASSUME NEW S \in SUBSET Sessions, NEW f \in [S -> RowRecords]
  PROVE  f \in Tables
  BY DEF Tables

LEMMA Compacted ==
  ASSUME NEW a \in Archives, NEW s \in DOMAIN a.rows
  PROVE  /\ Compact(a, s) \in Archives
         /\ Compact(a, s).hours =
              IF Passed(a, s) THEN a.hours ELSE PutHours(a.hours, Made(a, s))
         /\ DOMAIN Compact(a, s).rows = DOMAIN a.rows
         /\ SameRow(Compact(a, s).rows[s], a.rows[s])
         /\ Compact(a, s).rows[s].basis =
              IF Passed(a, s) THEN a.rows[s].basis ELSE "reconstructed"
<1>1. s \in Sessions /\ a.rows[s] \in RowRecords /\ a.rows \in [DOMAIN a.rows -> RowRecords]
  BY TableTyped
<1>2. CASE Passed(a, s)
  <2>1. Compact(a, s) = a
    BY <1>2, CompactIs
  <2> QED BY <1>2, <2>1 DEF SameRow
<1>3. CASE ~Passed(a, s)
  <2> DEFINE new == [a.rows[s] EXCEPT !.basis = "reconstructed"]
             rows == [a.rows EXCEPT ![s] = new]
             hours == PutHours(a.hours, Made(a, s))
  <2>1. Compact(a, s) = [a EXCEPT !.hours = hours, !.rows[s].basis = "reconstructed"]
    BY <1>3, CompactIs
  <2>2. [a EXCEPT !.hours = hours, !.rows[s].basis = "reconstructed"]
          = [a EXCEPT !.hours = hours, !.rows = rows]
    OBVIOUS
  <2>3. new \in RowRecords /\ SameRow(new, a.rows[s]) /\ new.basis = "reconstructed"
    BY <1>1 DEF RowRecords, SameRow
  <2>4. rows \in [DOMAIN a.rows -> RowRecords] /\ rows[s] = new /\ DOMAIN rows = DOMAIN a.rows
    BY <1>1, <2>3
  <2>5. rows \in Tables
    BY <2>4, InTables, TableTyped
  <2>6. hours \in SUBSET HourRecords
    BY <1>1, MadeTyped DEF PutHours, Archives
  <2> HIDE DEF new, rows, hours
  <2>7. /\ [a EXCEPT !.hours = hours, !.rows = rows] \in Archives
        /\ [a EXCEPT !.hours = hours, !.rows = rows].hours = hours
        /\ [a EXCEPT !.hours = hours, !.rows = rows].rows = rows
    BY <2>5, <2>6 DEF Archives
  <2>8. Compact(a, s) = [a EXCEPT !.hours = hours, !.rows = rows]
    BY <2>1, <2>2
  <2>9. /\ Compact(a, s) \in Archives /\ Compact(a, s).hours = hours
        /\ Compact(a, s).rows = rows
    BY <2>7, <2>8
  <2> QED BY <1>3, <2>3, <2>4, <2>9 DEF hours
<1> QED BY <1>2, <1>3

\* Every session's summaries made, and the rest as it was.
LEMMA CompactedAll ==
  ASSUME NEW a \in Archives, NEW S \in SUBSET DOMAIN a.rows
  PROVE  LET v == CompactAll(a, S) IN
         /\ v \in Archives
         /\ v.chunks = a.chunks /\ v.total = a.total /\ v.raw = a.raw
         /\ DOMAIN v.rows = DOMAIN a.rows
         /\ \A s \in DOMAIN a.rows : SameRow(v.rows[s], a.rows[s])
         /\ \A s \in DOMAIN a.rows :
              v.rows[s].basis = IF s \in S /\ ~Passed(a, s) THEN "reconstructed"
                                ELSE a.rows[s].basis
         /\ \A s : Of(v.hours, s) =
              IF s \in S /\ ~Passed(a, s) THEN Of(PutHours(a.hours, Made(a, s)), s)
              ELSE Of(a.hours, s)
<1> DEFINE v == CompactAll(a, S)
           hours == {x \in a.hours : x.of \notin S}
                      \cup UNION {Of(Compact(a, s).hours, s) : s \in S}
           rows == [s \in DOMAIN a.rows |-> IF s \in S THEN Compact(a, s).rows[s]
                                            ELSE a.rows[s]]
<1>1. v = [a EXCEPT !.hours = hours, !.rows = rows]
  BY DEF CompactAll
<1>2. \A s \in S : /\ Compact(a, s) \in Archives
                   /\ Compact(a, s).hours =
                        IF Passed(a, s) THEN a.hours ELSE PutHours(a.hours, Made(a, s))
                   /\ DOMAIN Compact(a, s).rows = DOMAIN a.rows
                   /\ SameRow(Compact(a, s).rows[s], a.rows[s])
                   /\ Compact(a, s).rows[s].basis =
                        IF Passed(a, s) THEN a.rows[s].basis ELSE "reconstructed"
  BY Compacted
<1>3. \A s \in S : Compact(a, s).rows[s] \in RowRecords
  <2>1. ASSUME NEW s \in S
        PROVE  Compact(a, s).rows[s] \in RowRecords
    <3>1. Compact(a, s) \in Archives /\ s \in DOMAIN Compact(a, s).rows
      BY <1>2
    <3> QED BY <3>1, TableTyped
  <2> QED BY <2>1
<1>4. rows \in [DOMAIN a.rows -> RowRecords]
  BY <1>3, TableTyped
<1>5. rows \in Tables /\ DOMAIN rows = DOMAIN a.rows
  BY <1>4, InTables, TableTyped
<1>6. hours \in SUBSET HourRecords
  <2>1. \A s \in S : Compact(a, s).hours \in SUBSET HourRecords
    BY <1>2 DEF Archives
  <2>2. a.hours \in SUBSET HourRecords
    BY DEF Archives
  <2> QED BY <2>1, <2>2 DEF Of
<1>7. \A s : Of(hours, s) = IF s \in S THEN Of(Compact(a, s).hours, s) ELSE Of(a.hours, s)
  BY DEF Of
<1>8. \A s : Of(hours, s) =
        IF s \in S /\ ~Passed(a, s) THEN Of(PutHours(a.hours, Made(a, s)), s)
        ELSE Of(a.hours, s)
  <2> HIDE DEF hours
  <2> QED BY <1>2, <1>7
<1>9. \A s \in DOMAIN a.rows :
        /\ SameRow(rows[s], a.rows[s])
        /\ rows[s].basis = IF s \in S /\ ~Passed(a, s) THEN "reconstructed" ELSE a.rows[s].basis
  <2>1. ASSUME NEW s \in DOMAIN a.rows
        PROVE  /\ SameRow(rows[s], a.rows[s])
               /\ rows[s].basis = IF s \in S /\ ~Passed(a, s) THEN "reconstructed"
                                  ELSE a.rows[s].basis
    <3>1. CASE s \in S
      <4>1. rows[s] = Compact(a, s).rows[s]
        BY <3>1
      <4> HIDE DEF rows
      <4> QED BY <1>2, <3>1, <4>1
    <3>2. CASE s \notin S
      <4>1. rows[s] = a.rows[s]
        BY <3>2
      <4> HIDE DEF rows
      <4> QED BY <3>2, <4>1 DEF SameRow
    <3> QED BY <3>1, <3>2
  <2> QED BY <2>1
<1> HIDE DEF hours, rows
<1>10. /\ v \in Archives /\ v.chunks = a.chunks /\ v.total = a.total /\ v.raw = a.raw
       /\ v.hours = hours /\ v.rows = rows
  BY <1>1, <1>5, <1>6 DEF Archives
<1> HIDE DEF v
<1>11. /\ v \in Archives
       /\ v.chunks = a.chunks /\ v.total = a.total /\ v.raw = a.raw
       /\ DOMAIN v.rows = DOMAIN a.rows
       /\ \A s \in DOMAIN a.rows : SameRow(v.rows[s], a.rows[s])
       /\ \A s \in DOMAIN a.rows :
            v.rows[s].basis = IF s \in S /\ ~Passed(a, s) THEN "reconstructed"
                              ELSE a.rows[s].basis
       /\ \A s : Of(v.hours, s) =
            IF s \in S /\ ~Passed(a, s) THEN Of(PutHours(a.hours, Made(a, s)), s)
            ELSE Of(a.hours, s)
  BY <1>5, <1>8, <1>9, <1>10
<1> QED BY <1>11 DEF v

-----------------------------------------------------------------------------
(* Making room. *)

\* The sums agree with what they count, and the count of bytes is there.
Exact(a) ==
  /\ Kept(a) /\ Owned(a)
  /\ a.total = SealedSamples(a.chunks) /\ a.raw = RawBytes(a.chunks)

\* A session's row, its chunks and its summaries, of one archive and another.
SameSession(v, a, s) ==
  /\ s \in DOMAIN a.rows /\ s \in DOMAIN v.rows /\ v.rows[s] = a.rows[s]
  /\ Of(v.chunks, s) = Of(a.chunks, s) /\ Of(v.hours, s) = Of(a.hours, s)

\* Some sessions are gone whole.
Thinned(v, a) == \A s \in DOMAIN v.rows : SameSession(v, a, s)

LEMMA EvictedIsExact ==
  ASSUME NEW a, Exact(a), NEW s \in DOMAIN a.rows
  PROVE  /\ Exact(Evict(a, s)) /\ Thinned(Evict(a, s), a)
         /\ DOMAIN Evict(a, s).rows = DOMAIN a.rows \ {s}
<1> DEFINE left == a.chunks \ Of(a.chunks, s)
           rows == [r \in DOMAIN a.rows \ {s} |-> a.rows[r]]
           hours == a.hours \ Of(a.hours, s)
           v == [rows |-> rows, chunks |-> left, hours |-> hours,
                 total |-> a.total - a.rows[s].sealed,
                 raw |-> a.raw - RawBytes(Of(a.chunks, s))]
<1>1. /\ a \in Archives /\ a.chunks \in SUBSET ChunkRecords /\ IsFiniteSet(a.chunks)
      /\ KeysTell(a.chunks) /\ a.hours \in SUBSET HourRecords
      /\ a.total \in Int /\ a.raw \in Int
  BY DEF Exact, Kept, Archives
<1>2. Of(a.chunks, s) \in SUBSET a.chunks
  BY DEF Of
<1>3. /\ SealedSamples(left) = SealedSamples(a.chunks) - SealedSamples(Of(a.chunks, s))
      /\ RawBytes(left) = RawBytes(a.chunks) - RawBytes(Of(a.chunks, s))
      /\ SealedSamples(Of(a.chunks, s)) \in Nat /\ RawBytes(Of(a.chunks, s)) \in Nat
  BY <1>1, <1>2, SumsWithout
<1>4. a.rows[s].sealed = SealedSamples(Of(a.chunks, s))
  BY DEF Exact, Kept
<1>5. \A r : r # s => Of(left, r) = Of(a.chunks, r) /\ Of(hours, r) = Of(a.hours, r)
  BY DEF Of
<1>6. rows \in Tables /\ DOMAIN rows = DOMAIN a.rows \ {s}
  <2>1. rows \in [DOMAIN a.rows \ {s} -> RowRecords] /\ DOMAIN a.rows \ {s} \in SUBSET Sessions
    BY <1>1, TableTyped
  <2> HIDE DEF rows
  <2> QED BY <2>1, InTables
<1>7. \A r \in DOMAIN rows : r # s /\ r \in DOMAIN a.rows /\ rows[r] = a.rows[r]
  OBVIOUS
<1>8. v.total = SealedSamples(left) /\ v.raw = RawBytes(left)
  BY <1>3, <1>4 DEF Exact
<1>9. left \in SUBSET ChunkRecords /\ IsFiniteSet(left) /\ KeysTell(left)
      /\ hours \in SUBSET HourRecords
  BY <1>1, FS_Subset DEF KeysTell
<1>10. \A x \in left \cup hours : x.of \in DOMAIN rows
  <2>1. \A x \in left \cup hours : x.of # s /\ x \in a.chunks \cup a.hours
    BY DEF Of
  <2>2. \A x \in a.chunks \cup a.hours : x.of \in DOMAIN a.rows
    BY DEF Exact, Owned
  <2> QED BY <1>6, <2>1, <2>2
<1>11. \A r \in DOMAIN rows : rows[r].sealed = SealedSamples(Of(left, r))
  <2>1. \A r \in DOMAIN a.rows : a.rows[r].sealed = SealedSamples(Of(a.chunks, r))
    BY DEF Exact, Kept
  <2> HIDE DEF rows, left
  <2> QED BY <1>5, <1>7, <2>1
<1>12. a.total - a.rows[s].sealed \in Int /\ a.raw - RawBytes(Of(a.chunks, s)) \in Int
  BY <1>1, <1>3, <1>4
<1> HIDE DEF rows, left, hours
<1>13. v \in Archives
  BY <1>6, <1>9, <1>12 DEF Archives
<1>14. v.rows = rows /\ v.chunks = left /\ v.hours = hours
  OBVIOUS
<1> HIDE DEF v
<1>15. Exact(v)
  BY <1>8, <1>9, <1>10, <1>11, <1>13, <1>14 DEF Exact, Kept, Owned
<1>16. Thinned(v, a)
  BY <1>5, <1>7, <1>14 DEF Thinned, SameSession
<1>17. v = Evict(a, s)
  BY DEF v, rows, left, hours, Evict
<1> QED BY <1>6, <1>14, <1>15, <1>16, <1>17

\* What becomes of the archive as DropSessions comes to session s.
DropStep(v, s, seen) ==
  IF \/ s \notin DOMAIN v.rows
     \/ Cardinality(DOMAIN v.rows) <= MaxSessions /\ Cardinality(v.hours) <= MaxHours
     \/ v.rows[s].state = "open" \/ s = seen
     \/ now - v.rows[s].beat < StaleAfter
     \/ Cardinality(DOMAIN v.rows) <= MaxSessions /\ Of(v.hours, s) = {}
  THEN v ELSE Evict(v, s)

\* The function DropSessions is defined by, as far as session n.
IsRoomFold(f, a, seen, n) ==
  f = [s \in 0 .. n |-> IF s = 0 THEN a ELSE DropStep(f[s - 1], s, seen)]

LEMMA RoomFoldExists ==
  ASSUME NEW a, NEW seen, NEW n \in Nat
  PROVE  \E f : IsRoomFold(f, a, seen, n)
<1> DEFINE Pass(v, k) == DropStep(v, k, seen)
           Is(f, k) == f = [j \in 0 .. k |-> IF j = 0 THEN a ELSE Pass(f[j - 1], j)]
           Without == {k \in Nat : ~\E f : Is(f, k)}
<1> HIDE DEF Pass
<1>1. ASSUME Without # {}
      PROVE  FALSE
  <2>1. PICK k \in Without : \A j \in Without : k <= j
    BY <1>1, MinOf
  <2>2. CASE k = 0
    <3> DEFINE f == [j \in 0 .. 0 |-> a]
    <3>1. Is(f, 0)
      OBVIOUS
    <3> QED BY <2>1, <2>2, <3>1
  <2>3. CASE k # 0
    <3>1. k - 1 \in Nat /\ k - 1 \notin Without
      BY <2>1, <2>3
    <3>2. PICK f : Is(f, k - 1)
      BY <3>1
    <3> DEFINE g == [j \in 0 .. k |-> IF j = k THEN Pass(f[k - 1], k) ELSE f[j]]
    <3>3. \A j \in 0 .. k - 1 : f[j] = IF j = 0 THEN a ELSE Pass(f[j - 1], j)
      BY <3>2
    <3>4. \A j \in 0 .. k : g[j] = IF j = 0 THEN a ELSE Pass(g[j - 1], j)
      <4>1. \A j \in 0 .. k : j # 0 => j - 1 \in 0 .. k /\ j - 1 # k
        BY <2>1
      <4>2. \A j \in 0 .. k : j # k => j \in 0 .. k - 1
        BY <2>1
      <4> QED BY <2>3, <3>3, <4>1, <4>2
    <3>5. Is(g, k)
      <4> DEFINE h == [j \in 0 .. k |-> IF j = 0 THEN a ELSE Pass(g[j - 1], j)]
      <4>1. \A j \in 0 .. k : g[j] = h[j]
        BY <3>4
      <4>2. g = [j \in 0 .. k |-> g[j]] /\ h = [j \in 0 .. k |-> h[j]]
        OBVIOUS
      <4> HIDE DEF g, h
      <4>3. g = h
        BY <4>1, <4>2
      <4> QED BY <4>3 DEF h
    <3> QED BY <2>1, <3>5
  <2> QED BY <2>2, <2>3
<1>2. \E f : Is(f, n)
  BY <1>1
<1> QED BY <1>2 DEF IsRoomFold, Pass

LEMMA RoomFoldFacts ==
  ASSUME NEW a, NEW seen
  PROVE  \E f : /\ DropSessions(a, seen) = f[MaxSession]
                /\ f[0] = a
                /\ \A s \in Sessions : f[s] = DropStep(f[s - 1], s, seen)
<1>1. PICK f : /\ IsRoomFold(f, a, seen, MaxSession)
               /\ DropSessions(a, seen) = f[MaxSession]
  <2> DEFINE Is(f) == IsRoomFold(f, a, seen, MaxSession)
             fold == CHOOSE f : Is(f)
  <2>1. \E f : Is(f)
    BY RoomFoldExists, ArchiveConstants
  <2>2. DropSessions(a, seen) = fold[MaxSession]
    BY DEF DropSessions, IsRoomFold, DropStep
  <2> HIDE DEF Is
  <2>3. Is(fold)
    BY <2>1
  <2> QED BY <2>2, <2>3 DEF Is
<1>2. f[0] = a /\ \A s \in Sessions : f[s] = DropStep(f[s - 1], s, seen)
  <2>1. /\ 0 \in 0 .. MaxSession
        /\ \A s \in Sessions : s \in 0 .. MaxSession /\ s # 0
    BY ArchiveConstants DEF Sessions
  <2>2. \A s \in 0 .. MaxSession : f[s] = IF s = 0 THEN a ELSE DropStep(f[s - 1], s, seen)
    BY <1>1 DEF IsRoomFold
  <2> QED BY <2>1, <2>2
<1> QED BY <1>1, <1>2

LEMMA ThinnedTwice ==
  ASSUME NEW a, NEW v, NEW c, Thinned(v, a), Thinned(c, v)
  PROVE  Thinned(c, a)
  BY DEF Thinned, SameSession

LEMMA SessionsDropped ==
  ASSUME NEW a, Exact(a), NEW seen
  PROVE  Exact(DropSessions(a, seen)) /\ Thinned(DropSessions(a, seen), a)
<1>1. PICK f : /\ DropSessions(a, seen) = f[MaxSession]
               /\ f[0] = a
               /\ \A s \in Sessions : f[s] = DropStep(f[s - 1], s, seen)
  BY RoomFoldFacts
<1> DEFINE Fine(v) == Exact(v) /\ Thinned(v, a)
           Undone == {s \in 0 .. MaxSession : ~Fine(f[s])}
<1>2. Fine(f[0])
  BY <1>1 DEF Thinned, SameSession
<1>3. ASSUME NEW v, Fine(v), NEW s
      PROVE  Fine(DropStep(v, s, seen))
  <2>1. CASE DropStep(v, s, seen) = v
    BY <1>3, <2>1
  <2>2. CASE s \in DOMAIN v.rows /\ DropStep(v, s, seen) = Evict(v, s)
    <3>1. Exact(Evict(v, s)) /\ Thinned(Evict(v, s), v)
      BY <1>3, <2>2, EvictedIsExact
    <3> QED BY <1>3, <2>2, <3>1, ThinnedTwice
  <2> QED BY <2>1, <2>2 DEF DropStep
<1>4. ASSUME Undone # {}
      PROVE  FALSE
  <2>1. Undone \in SUBSET Nat
    BY ArchiveConstants
  <2>2. PICK s \in Undone : \A r \in Undone : s <= r
    BY <1>4, <2>1, MinOf
  <2>3. s # 0
    BY <1>2, <2>2
  <2>4. s \in Sessions /\ s - 1 \in 0 .. MaxSession /\ ~(s <= s - 1)
    BY <2>2, <2>3, ArchiveConstants DEF Sessions
  <2>5. Fine(f[s - 1])
    BY <2>2, <2>4
  <2>6. Fine(f[s])
    BY <1>1, <1>3, <2>4, <2>5
  <2> QED BY <2>2, <2>6
<1>5. MaxSession \in 0 .. MaxSession
  BY ArchiveConstants
<1>6. Fine(f[MaxSession])
  BY <1>4, <1>5
<1> QED BY <1>1, <1>6

LEMMA HoursDropped ==
  ASSUME NEW a, Exact(a)
  PROVE  /\ Exact(DropHours(a))
         /\ DropHours(a).rows = a.rows /\ DropHours(a).chunks = a.chunks
         /\ DropHours(a).hours \subseteq a.hours
<1>1. PICK hours \in SUBSET a.hours : DropHours(a) = [a EXCEPT !.hours = hours]
  BY DEF DropHours
<1> DEFINE v == [a EXCEPT !.hours = hours]
<1>2. a \in Archives /\ hours \in SUBSET HourRecords
  BY DEF Exact, Kept, Archives
<1>3. /\ v \in Archives /\ v.rows = a.rows /\ v.chunks = a.chunks /\ v.hours = hours
      /\ v.total = a.total /\ v.raw = a.raw
  BY <1>2 DEF Archives
<1> HIDE DEF v
<1>4. Exact(v)
  BY <1>3 DEF Exact, Kept, Owned
<1> QED BY <1>1, <1>3, <1>4 DEF v

\* What is left of a session the raw prune cut.
LEMMA FirstOf ==
  ASSUME NEW C \in SUBSET ChunkRecords, C # {}
  PROVE  /\ Min({Min(c.at) : c \in C}) \in Nat
         /\ \E c \in C : Min({Min(d.at) : d \in C}) \in c.at
         /\ \A c \in C : \A t \in c.at : Min({Min(d.at) : d \in C}) <= t
<1> DEFINE firsts == {Min(c.at) : c \in C}
<1>1. \A c \in C : c.at \in SUBSET Nat /\ c.at # {}
  <2>1. ASSUME NEW c \in C
        PROVE  c.at \in SUBSET Instants /\ c.at # {}
    <3>1. c \in ChunkRecords
      OBVIOUS
    <3> QED BY <3>1 DEF ChunkRecords
  <2>2. Instants \subseteq Nat
    BY DEF Instants
  <2> QED BY <2>1, <2>2
<1>2. \A c \in C : Min(c.at) \in c.at /\ \A t \in c.at : Min(c.at) <= t
  BY <1>1, MinOf
<1>3. firsts \in SUBSET Nat /\ firsts # {}
  BY <1>1, <1>2
<1> HIDE DEF firsts
<1>4. Min(firsts) \in firsts /\ \A n \in firsts : Min(firsts) <= n
  BY <1>3, MinOf
<1>5. PICK c \in C : Min(firsts) = Min(c.at)
  BY <1>4 DEF firsts
<1>6. ASSUME NEW d \in C, NEW t \in d.at
      PROVE  Min(firsts) <= t
  <2>1. Min(d.at) \in firsts
    BY DEF firsts
  <2>2. Min(firsts) <= Min(d.at) /\ Min(d.at) <= t
    BY <1>2, <1>4, <2>1
  <2>3. Min(firsts) \in Nat /\ Min(d.at) \in Nat /\ t \in Nat
    BY <1>1, <1>2, <1>3, <1>4
  <2> QED BY <2>2, <2>3
<1>7. Min(firsts) \in Nat /\ Min(firsts) \in c.at
  BY <1>2, <1>3, <1>4, <1>5
<1> QED BY <1>6, <1>7 DEF firsts

\* The chunks DropRaw drops, and the sessions it cuts: every chunk dropped is a
\* sealed one of a session cut, with a summary for every row of it.
RawCut(v, a, cut) ==
  /\ cut \subseteq DOMAIN a.rows
  /\ v.chunks \subseteq a.chunks
  /\ \A c \in a.chunks \ v.chunks : c.sealed /\ c.of \in cut /\ HasSummary(v.hours, c)
  /\ v.hours = CompactAll(a, cut).hours
  /\ DOMAIN v.rows = DOMAIN a.rows
  /\ \A s \in DOMAIN a.rows :
       /\ v.rows[s].state = a.rows[s].state /\ v.rows[s].beat = a.rows[s].beat
       /\ v.rows[s].ended = a.rows[s].ended /\ v.rows[s].seen = a.rows[s].seen
       /\ v.rows[s].basis = CompactAll(a, cut).rows[s].basis
       /\ v.rows[s].retained =
            IF s \notin cut THEN a.rows[s].retained
            ELSE IF Of(v.chunks, s) = {} THEN a.rows[s].ended
            ELSE Min({Min(c.at) : c \in Of(v.chunks, s)})

LEMMA RawDropped ==
  ASSUME NEW a, Exact(a), NEW allowed
  PROVE  /\ Exact(DropRaw(a, allowed))
         /\ \E cut : RawCut(DropRaw(a, allowed), a, cut)
<1> DEFINE plan == PlanRawPrune(a.chunks, a.raw, allowed)
           cut == {c.of : c \in plan}
           summed == CompactAll(a, cut)
           dropped == {c \in plan : HasSummary(summed.hours, c)}
           left == a.chunks \ dropped
           Settled(s, row) ==
             [row EXCEPT !.sealed = SealedSamples(Of(left, s)),
                         !.retained = IF Of(left, s) = {} THEN row.ended
                                      ELSE Min({Min(c.at) : c \in Of(left, s)})]
           rows == [s \in DOMAIN summed.rows |->
                      IF s \in cut THEN Settled(s, summed.rows[s]) ELSE summed.rows[s]]
           total == summed.total - SealedSamples(dropped)
           raw == summed.raw - RawBytes(dropped)
           v == DropRaw(a, allowed)
<1>1. v = [summed EXCEPT !.chunks = left, !.rows = rows, !.total = total, !.raw = raw]
  BY DEF DropRaw
<1>2. /\ a \in Archives /\ a.chunks \in SUBSET ChunkRecords /\ IsFiniteSet(a.chunks)
      /\ KeysTell(a.chunks) /\ a.hours \in SUBSET HourRecords
      /\ a.total \in Int /\ a.raw \in Int
  BY DEF Exact, Kept, Archives
<1>3. plan \subseteq {c \in a.chunks : c.sealed}
  BY DEF PlanRawPrune
<1> HIDE DEF plan
<1>4. cut \in SUBSET DOMAIN a.rows
  BY <1>3 DEF Exact, Owned
<1> HIDE DEF cut
<1>5. /\ summed \in Archives
      /\ summed.chunks = a.chunks /\ summed.total = a.total /\ summed.raw = a.raw
      /\ DOMAIN summed.rows = DOMAIN a.rows
      /\ \A s \in DOMAIN a.rows : SameRow(summed.rows[s], a.rows[s])
  BY <1>2, <1>4, CompactedAll
<1> HIDE DEF summed
<1>6. dropped \in SUBSET a.chunks /\ \A c \in dropped : c.sealed /\ c.of \in cut
  BY <1>3 DEF cut
<1>7. \A c \in dropped : HasSummary(summed.hours, c)
  OBVIOUS
<1> HIDE DEF dropped
<1>8. /\ left \in SUBSET ChunkRecords /\ IsFiniteSet(left) /\ KeysTell(left)
      /\ SealedSamples(left) = SealedSamples(a.chunks) - SealedSamples(dropped)
      /\ RawBytes(left) = RawBytes(a.chunks) - RawBytes(dropped)
      /\ SealedSamples(dropped) \in Nat /\ RawBytes(dropped) \in Nat
  <2>1. left \in SUBSET ChunkRecords /\ IsFiniteSet(left) /\ KeysTell(left)
    BY <1>2, FS_Subset DEF KeysTell
  <2> QED BY <1>2, <1>6, <2>1, SumsWithout
<1>9. \A c \in a.chunks \ left : c.sealed /\ c.of \in cut /\ HasSummary(summed.hours, c)
  BY <1>6, <1>7
<1>10. \A s : s \notin cut => Of(left, s) = Of(a.chunks, s)
  BY <1>6 DEF Of
<1>11. left \subseteq a.chunks
  OBVIOUS
<1> HIDE DEF left
<1>12. \A s : /\ SealedSamples(Of(left, s)) \in Nat
              /\ Of(left, s) # {} => Min({Min(c.at) : c \in Of(left, s)}) \in Nat
  <2>1. \A s : Of(left, s) \in SUBSET left /\ Of(left, s) \in SUBSET ChunkRecords
    BY <1>8 DEF Of
  <2> QED BY <1>8, <2>1, SumsWithout, FirstOf
<1>13. \A s \in DOMAIN a.rows : a.rows[s] \in RowRecords /\ summed.rows[s] \in RowRecords
  BY <1>2, <1>5, TableTyped
<1>14. ASSUME NEW s \in DOMAIN a.rows
       PROVE  /\ rows[s] \in RowRecords
              /\ rows[s].state = a.rows[s].state /\ rows[s].beat = a.rows[s].beat
              /\ rows[s].ended = a.rows[s].ended /\ rows[s].seen = a.rows[s].seen
              /\ rows[s].basis = summed.rows[s].basis
              /\ rows[s].retained =
                   IF s \notin cut THEN a.rows[s].retained
                   ELSE IF Of(left, s) = {} THEN a.rows[s].ended
                   ELSE Min({Min(c.at) : c \in Of(left, s)})
              /\ rows[s].sealed = SealedSamples(Of(left, s))
  <2>1. SameRow(summed.rows[s], a.rows[s]) /\ summed.rows[s] \in RowRecords
    BY <1>5, <1>13
  <2>2. CASE s \in cut
    <3> DEFINE sealed == SealedSamples(Of(left, s))
               kept == IF Of(left, s) = {} THEN summed.rows[s].ended
                       ELSE Min({Min(c.at) : c \in Of(left, s)})
    <3>1. rows[s] = [summed.rows[s] EXCEPT !.sealed = sealed, !.retained = kept]
      BY <1>5, <2>2
    <3>2. sealed \in Nat /\ kept \in Nat
      BY <1>12, <2>1 DEF RowRecords
    <3> HIDE DEF sealed, kept, rows
    <3>3. /\ rows[s] \in RowRecords
          /\ rows[s].state = summed.rows[s].state /\ rows[s].beat = summed.rows[s].beat
          /\ rows[s].ended = summed.rows[s].ended /\ rows[s].seen = summed.rows[s].seen
          /\ rows[s].basis = summed.rows[s].basis
          /\ rows[s].sealed = sealed /\ rows[s].retained = kept
      BY <2>1, <3>1, <3>2 DEF RowRecords
    <3> QED BY <2>1, <2>2, <3>3 DEF SameRow, sealed, kept
  <2>3. CASE s \notin cut
    <3>1. rows[s] = summed.rows[s]
      BY <1>5, <2>3
    <3>2. a.rows[s].sealed = SealedSamples(Of(a.chunks, s))
      BY DEF Exact, Kept
    <3> HIDE DEF rows
    <3> QED BY <1>10, <2>1, <2>3, <3>1, <3>2 DEF SameRow
  <2> QED BY <2>2, <2>3
<1>15. rows \in Tables /\ DOMAIN rows = DOMAIN a.rows
  <2>1. DOMAIN rows = DOMAIN a.rows /\ rows = [s \in DOMAIN a.rows |-> rows[s]]
    BY <1>5
  <2> HIDE DEF rows
  <2>2. rows \in [DOMAIN a.rows -> RowRecords]
    BY <1>14, <2>1
  <2> QED BY <1>2, <2>1, <2>2, InTables, TableTyped
<1>16. total = SealedSamples(left) /\ raw = RawBytes(left) /\ total \in Int /\ raw \in Int
  <2>1. a.total = SealedSamples(a.chunks) /\ a.raw = RawBytes(a.chunks)
    BY DEF Exact
  <2> QED BY <1>2, <1>5, <1>8, <2>1
<1> HIDE DEF rows, total, raw
<1>17. /\ v \in Archives /\ v.chunks = left /\ v.rows = rows /\ v.hours = summed.hours
       /\ v.total = total /\ v.raw = raw
  BY <1>1, <1>5, <1>8, <1>15, <1>16 DEF Archives
<1> HIDE DEF v
<1>18. \A x \in left \cup summed.hours : x.of \in DOMAIN a.rows
  <2>1. \A x \in left : x.of \in DOMAIN a.rows
    BY <1>11 DEF Exact, Owned
  <2>2. ASSUME NEW x \in summed.hours
        PROVE  x.of \in DOMAIN a.rows
    <3>1. CASE x.of \in cut
      BY <1>4, <3>1
    <3>2. CASE x.of \notin cut
      <4>1. Of(summed.hours, x.of) = Of(a.hours, x.of)
        BY <1>2, <1>4, <3>2, CompactedAll DEF summed
      <4>2. x \in Of(summed.hours, x.of)
        BY DEF Of
      <4>3. x \in a.hours
        BY <4>1, <4>2 DEF Of
      <4> QED BY <4>3 DEF Exact, Owned
    <3> QED BY <3>1, <3>2
  <2> QED BY <2>1, <2>2
<1>19. Exact(v)
  BY <1>8, <1>14, <1>15, <1>16, <1>17, <1>18 DEF Exact, Kept, Owned
<1>20. RawCut(v, a, cut)
  BY <1>4, <1>9, <1>11, <1>14, <1>15, <1>17 DEF RawCut, summed
<1> QED BY <1>19, <1>20 DEF v

LEMMA PrunedIsExact ==
  ASSUME NEW a, Exact(a), NEW seen
  PROVE  Exact(Prune(a, seen))
<1>1. Exact(DropRaw(a, capacity))
  BY RawDropped
<1>2. Exact(DropHours(DropRaw(a, capacity)))
  BY <1>1, HoursDropped
<1>3. Exact(DropSessions(DropHours(DropRaw(a, capacity)), seen))
  BY <1>2, SessionsDropped
<1> QED BY <1>3 DEF Prune

-----------------------------------------------------------------------------
(* Transactions. *)

LEMMA CountedIsExact ==
  ASSUME NEW a, Balanced(a)
  PROVE  /\ Exact(Counted(a))
         /\ Counted(a).rows = a.rows /\ Counted(a).chunks = a.chunks
         /\ Counted(a).hours = a.hours /\ Counted(a).total = a.total
<1>1. a \in Archives /\ RawBytes(a.chunks) \in Int
  <2>1. /\ a \in Archives /\ a.chunks \in SUBSET ChunkRecords /\ IsFiniteSet(a.chunks)
        /\ a.chunks \in SUBSET a.chunks
    BY DEF Balanced, Kept, Archives
  <2>2. RawBytes(a.chunks) \in Nat
    BY <2>1, SumsWithout
  <2> QED BY <2>1, <2>2
<1>2. CASE a.raw = Unknown
  <2> DEFINE v == [a EXCEPT !.raw = RawBytes(a.chunks)]
  <2>1. Counted(a) = v
    BY <1>2 DEF Counted
  <2>2. /\ v \in Archives /\ v.rows = a.rows /\ v.chunks = a.chunks /\ v.hours = a.hours
        /\ v.total = a.total /\ v.raw = RawBytes(a.chunks)
    BY <1>1 DEF Archives
  <2> HIDE DEF v
  <2>3. Exact(v)
    BY <2>2 DEF Exact, Balanced, Kept, Owned
  <2> QED BY <2>1, <2>2, <2>3
<1>3. CASE a.raw # Unknown
  <2>1. Counted(a) = a
    BY <1>3 DEF Counted
  <2> QED BY <1>3, <2>1 DEF Exact, Balanced
<1> QED BY <1>2, <1>3

LEMMA ExactIsBalanced ==
  ASSUME NEW a, Exact(a)
  PROVE  Balanced(a)
  BY DEF Exact, Balanced

\* A chunk is written over an unsealed one, or none.
Writable(a, c) ==
  /\ c \in ChunkRecords /\ c.of \in DOMAIN a.rows
  /\ \A x \in a.chunks : SameKey(x, c) => ~x.sealed

LEMMA WriteIsPut ==
  ASSUME NEW a, NEW c, NEW made, NEW seen
  PROVE  WriteChunk(a, c, made, seen) = Prune(PutChunk(a, c, made), seen)
  BY DEF WriteChunk

LEMMA PutIsExact ==
  ASSUME NEW a, Balanced(a), NEW c, Writable(a, c), now \in Nat,
         NEW made \in SUBSET HourRecords, \A x \in made : x.of = c.of
  PROVE  LET v == PutChunk(a, c, made) IN
         /\ Exact(v)
         /\ DOMAIN v.rows = DOMAIN a.rows
         /\ \A s \in DOMAIN a.rows : s # c.of => v.rows[s] = a.rows[s]
         /\ v.rows[c.of].state = a.rows[c.of].state
         /\ v.rows[c.of].basis =
              IF made # {} \/ a.rows[c.of].basis = "recorded" THEN "recorded" ELSE "none"
         /\ v.rows[c.of].retained = a.rows[c.of].retained
         /\ v.chunks = (a.chunks \ {x \in a.chunks : SameKey(x, c)}) \cup {c}
         /\ v.hours = PutHours(a.hours, made)
<1> DEFINE s == c.of
           existing == {x \in a.chunks : SameKey(x, c)}
           gain == IF c.sealed /\ \A x \in existing : ~x.sealed THEN Cardinality(c.at) ELSE 0
           basis == IF made # {} \/ a.rows[s].basis = "recorded" THEN "recorded" ELSE "none"
           row == a.rows[s]
           merged == [row EXCEPT !.beat = now, !.ended = now, !.seen = TRUE,
                                 !.sealed = @ + gain, !.basis = basis]
           rows == [a.rows EXCEPT ![s] = merged]
           rest == a.chunks \ existing
           chunks == rest \cup {c}
           hours == PutHours(a.hours, made)
           total == a.total + gain
           raw == Counted(a).raw + RawBytes({c}) - RawBytes(existing)
           v == PutChunk(a, c, made)
<1>1. /\ a \in Archives /\ a.chunks \in SUBSET ChunkRecords /\ IsFiniteSet(a.chunks)
      /\ KeysTell(a.chunks) /\ a.hours \in SUBSET HourRecords
      /\ a.total \in Int /\ a.raw \in Int
      /\ s \in DOMAIN a.rows /\ c \in ChunkRecords /\ s \in Sessions
  BY DEF Balanced, Kept, Archives, Writable, ChunkRecords
<1>2. v = [rows |-> rows, chunks |-> chunks, hours |-> hours, total |-> total, raw |-> raw]
  BY DEF PutChunk
<1>3. existing \in SUBSET a.chunks /\ \A x \in existing : ~x.sealed
  BY DEF Writable
<1>4. gain = SealedSamples({c}) /\ gain \in Nat
  <2>1. CASE c.sealed
    BY <1>1, <1>3, <2>1, OneSealed
  <2>2. CASE ~c.sealed
    <3>1. SealedSamples({c}) = 0
      BY <1>1, <2>2, NoneSealed
    <3> QED BY <2>2, <3>1
  <2> QED BY <2>1, <2>2
<1>5. SealedSamples(existing) = 0 /\ existing \in SUBSET ChunkRecords
  BY <1>1, <1>3, NoneSealed
<1>6. /\ SealedSamples(rest) = SealedSamples(a.chunks) - SealedSamples(existing)
      /\ RawBytes(rest) = RawBytes(a.chunks) - RawBytes(existing)
      /\ SealedSamples(rest) \in Nat /\ RawBytes(rest) \in Nat
      /\ SealedSamples(a.chunks) \in Nat /\ RawBytes(a.chunks) \in Nat
      /\ RawBytes(existing) \in Nat
  BY <1>1, <1>3, SumsWithout
<1>7. /\ rest \in SUBSET ChunkRecords /\ IsFiniteSet(rest) /\ {c} \in SUBSET ChunkRecords
      /\ IsFiniteSet({c}) /\ rest \cap {c} = {}
  <2>1. c \notin rest
    BY DEF SameKey
  <2>2. IsFiniteSet(rest)
    BY <1>1, FS_Subset
  <2>3. IsFiniteSet({c})
    BY FS_Singleton
  <2> QED BY <1>1, <2>1, <2>2, <2>3
<1>8. /\ SealedSamples(chunks) = SealedSamples(rest) + SealedSamples({c})
      /\ RawBytes(chunks) = RawBytes(rest) + RawBytes({c})
  BY <1>7, SumsOfTwo
<1>9. RawBytes({c}) \in Nat
  <2>1. {c} \in SUBSET {c}
    OBVIOUS
  <2> QED BY <1>7, <2>1, SumsWithout
<1>10. Counted(a).raw = RawBytes(a.chunks) /\ a.total = SealedSamples(a.chunks)
  BY CountedIsExact DEF Exact, Balanced
<1>11. chunks \in SUBSET ChunkRecords /\ IsFiniteSet(chunks) /\ KeysTell(chunks)
  <2>1. chunks \in SUBSET ChunkRecords /\ IsFiniteSet(chunks)
    BY <1>7, FS_Union
  <2>2. ASSUME NEW x \in chunks, NEW y \in chunks, SameKey(x, y)
        PROVE  x = y
    <3>1. CASE x \in rest /\ y \in rest
      BY <1>1, <2>2, <3>1 DEF KeysTell
    <3>2. CASE x = c \/ y = c
      BY <2>2, <3>2 DEF SameKey
    <3> QED BY <3>1, <3>2
  <2> QED BY <2>1, <2>2 DEF KeysTell
<1>12. /\ Of(chunks, s) = (Of(a.chunks, s) \ existing) \cup {c}
       /\ \A r : r # s => Of(chunks, r) = Of(a.chunks, r)
  BY DEF Of, SameKey
<1>13. SealedSamples(Of(chunks, s)) = SealedSamples(Of(a.chunks, s)) + gain
  <2> DEFINE mine == Of(a.chunks, s)
  <2>1. /\ mine \in SUBSET ChunkRecords /\ IsFiniteSet(mine) /\ existing \in SUBSET mine
    BY <1>1, FS_Subset DEF Of, SameKey
  <2>2. SealedSamples(mine \ existing) = SealedSamples(mine) - SealedSamples(existing)
        /\ SealedSamples(mine) \in Nat
    BY <2>1, SumsWithout
  <2>3. /\ mine \ existing \in SUBSET ChunkRecords /\ IsFiniteSet(mine \ existing)
        /\ (mine \ existing) \cap {c} = {}
    <3>1. mine \ existing \in SUBSET mine /\ mine \ existing \subseteq rest
      BY <1>1 DEF Of
    <3>2. IsFiniteSet(mine \ existing)
      BY <2>1, <3>1, FS_Subset
    <3> QED BY <1>7, <2>1, <3>1, <3>2
  <2>4. SealedSamples((mine \ existing) \cup {c})
          = SealedSamples(mine \ existing) + SealedSamples({c})
    BY <1>7, <2>3, SumsOfTwo
  <2> HIDE DEF mine, existing, gain, chunks
  <2> QED BY <1>4, <1>5, <1>12, <2>2, <2>4 DEF mine
<1> HIDE DEF existing, gain, rest, chunks
<1>14. total = SealedSamples(chunks) /\ raw = RawBytes(chunks) /\ total \in Int /\ raw \in Int
  BY <1>4, <1>5, <1>6, <1>8, <1>9, <1>10
<1>15. /\ a.rows \in [DOMAIN a.rows -> RowRecords] /\ a.rows[s] \in RowRecords
       /\ DOMAIN a.rows \in SUBSET Sessions
  BY <1>1, TableTyped
<1>16. basis \in {"none", "recorded", "reconstructed"}
  OBVIOUS
<1>17. a.rows[s].sealed + gain \in Nat
  BY <1>4, <1>15 DEF RowRecords
<1> HIDE DEF basis
<1>18. /\ merged \in RowRecords /\ merged.state = a.rows[s].state /\ merged.basis = basis
       /\ merged.retained = a.rows[s].retained /\ merged.sealed = a.rows[s].sealed + gain
  BY <1>15, <1>16, <1>17 DEF RowRecords
<1> HIDE DEF merged
<1>19. /\ rows \in [DOMAIN a.rows -> RowRecords] /\ rows[s] = merged
       /\ DOMAIN rows = DOMAIN a.rows
       /\ \A r \in DOMAIN a.rows : r # s => rows[r] = a.rows[r]
  BY <1>1, <1>15, <1>18
<1>20. rows \in Tables
  <2> HIDE DEF rows
  <2> QED BY <1>15, <1>19, InTables
<1>21. hours \in SUBSET HourRecords
  BY <1>1 DEF PutHours
<1>22. \A x \in chunks \cup hours : x.of \in DOMAIN a.rows
  <2>1. \A x \in a.chunks \cup a.hours : x.of \in DOMAIN a.rows
    BY DEF Balanced, Owned
  <2>2. \A x \in hours : x \in a.hours \/ x \in made
    BY DEF PutHours
  <2>3. \A x \in chunks : x \in a.chunks \/ x = c
    BY DEF chunks, rest
  <2> QED BY <1>1, <2>1, <2>2, <2>3
<1>23. \A r \in DOMAIN a.rows : rows[r].sealed = SealedSamples(Of(chunks, r))
  <2>1. \A r \in DOMAIN a.rows : a.rows[r].sealed = SealedSamples(Of(a.chunks, r))
    BY DEF Balanced, Kept
  <2> HIDE DEF rows
  <2> QED BY <1>1, <1>12, <1>13, <1>18, <1>19, <2>1
<1> HIDE DEF rows, hours, total, raw
<1>24. /\ v \in Archives /\ v.rows = rows /\ v.chunks = chunks /\ v.hours = hours
       /\ v.total = total /\ v.raw = raw
  BY <1>2, <1>11, <1>14, <1>20, <1>21 DEF Archives
<1> HIDE DEF v
<1>25. Exact(v)
  BY <1>11, <1>14, <1>19, <1>22, <1>23, <1>24 DEF Exact, Kept, Owned
<1> QED BY <1>18, <1>19, <1>24, <1>25 DEF v, basis, chunks, rest, existing, hours

LEMMA WrittenIsExact ==
  ASSUME NEW a, Balanced(a), NEW c, Writable(a, c), now \in Nat, NEW seen,
         NEW made \in SUBSET HourRecords, \A x \in made : x.of = c.of
  PROVE  Exact(WriteChunk(a, c, made, seen))
  BY PutIsExact, PrunedIsExact, WriteIsPut

LEMMA ClosedIs ==
  ASSUME NEW a, Kept(a), NEW s \in DOMAIN a.rows, NEW at \in Nat
  PROVE  LET v == Closed(a, s, at) IN
         /\ Kept(v)
         /\ v.chunks = SealOpenChunks(a.chunks, {s}) /\ v.hours = a.hours
         /\ v.total = a.total + SealedSamples(v.chunks) - SealedSamples(a.chunks)
         /\ v.raw = a.raw /\ DOMAIN v.rows = DOMAIN a.rows
         /\ \A r \in DOMAIN a.rows : r # s => v.rows[r] = a.rows[r]
         /\ v.rows[s].state \in {"closed"} /\ v.rows[s].seen = a.rows[s].seen
         /\ v.rows[s].basis = a.rows[s].basis /\ v.rows[s].retained = a.rows[s].retained
<1> DEFINE C == a.chunks
           D == SealOpenChunks(C, {s})
           folded == SealedSamples(D) - SealedSamples(C)
           old == a.rows[s]
           row == [old EXCEPT !.state = "closed", !.ended = at, !.sealed = @ + folded]
           rows == [a.rows EXCEPT ![s] = row]
           v == Closed(a, s, at)
<1>1. /\ a \in Archives /\ C \in SUBSET ChunkRecords /\ IsFiniteSet(C) /\ KeysTell(C)
      /\ a.hours \in SUBSET HourRecords /\ a.total \in Int /\ a.raw \in Int
  BY DEF Kept, Archives
<1>2. v = [a EXCEPT !.chunks = D, !.total = @ + folded, !.rows = rows]
  <2>1. v = [a EXCEPT !.chunks = D, !.total = @ + folded, !.rows[s] = row]
    BY DEF Closed
  <2> HIDE DEF D, folded, row, v
  <2> QED BY <2>1
<1>3. /\ D \in SUBSET ChunkRecords /\ IsFiniteSet(D) /\ KeysTell(D)
      /\ \A r : r # s => Of(D, r) = Of(C, r)
  BY <1>1, SealedAll
<1>4. D \ Of(D, s) = C \ Of(C, s)
  <2>1. \A c : c \in D \ Of(D, s) <=> c.of # s /\ c \in Of(D, c.of)
    BY DEF Of
  <2>2. \A c : c \in C \ Of(C, s) <=> c.of # s /\ c \in Of(C, c.of)
    BY DEF Of
  <2> HIDE DEF D, C
  <2> QED BY <1>3, <2>1, <2>2
<1>5. /\ SealedSamples(D \ Of(D, s)) = SealedSamples(D) - SealedSamples(Of(D, s))
      /\ SealedSamples(D) \in Nat /\ SealedSamples(Of(D, s)) \in Nat
  <2>1. Of(D, s) \in SUBSET D
    BY DEF Of
  <2> HIDE DEF D
  <2> QED BY <1>3, <2>1, SumsWithout
<1>6. /\ SealedSamples(C \ Of(C, s)) = SealedSamples(C) - SealedSamples(Of(C, s))
      /\ SealedSamples(C) \in Nat /\ SealedSamples(Of(C, s)) \in Nat
  <2>1. Of(C, s) \in SUBSET C
    BY DEF Of
  <2> HIDE DEF C
  <2> QED BY <1>1, <2>1, SumsWithout
<1>7. a.rows[s].sealed = SealedSamples(Of(C, s))
  BY DEF Kept
<1> HIDE DEF C, D
<1>8. /\ a.rows[s].sealed + folded = SealedSamples(Of(D, s))
      /\ a.rows[s].sealed + folded \in Nat /\ folded \in Int
  <2>1. SealedSamples(D \ Of(D, s)) = SealedSamples(C \ Of(C, s))
    BY <1>4
  <2> QED BY <1>5, <1>6, <1>7, <2>1
<1> HIDE DEF folded
<1>9. /\ a.rows \in [DOMAIN a.rows -> RowRecords] /\ a.rows[s] \in RowRecords
      /\ DOMAIN a.rows \in SUBSET Sessions
  BY <1>1, TableTyped
<1>10. /\ row \in RowRecords /\ row.state = "closed" /\ row.seen = a.rows[s].seen
       /\ row.basis = a.rows[s].basis /\ row.retained = a.rows[s].retained
       /\ row.sealed = a.rows[s].sealed + folded
  BY <1>8, <1>9 DEF RowRecords
<1> HIDE DEF row
<1>11. /\ rows \in [DOMAIN a.rows -> RowRecords] /\ rows[s] = row
       /\ DOMAIN rows = DOMAIN a.rows
       /\ \A r \in DOMAIN a.rows : r # s => rows[r] = a.rows[r]
  BY <1>9, <1>10
<1>12. rows \in Tables
  <2> HIDE DEF rows
  <2> QED BY <1>9, <1>11, InTables
<1>13. \A r \in DOMAIN a.rows : rows[r].sealed = SealedSamples(Of(D, r))
  <2>1. \A r \in DOMAIN a.rows : a.rows[r].sealed = SealedSamples(Of(C, r))
    BY DEF Kept, C
  <2> HIDE DEF rows
  <2> QED BY <1>3, <1>8, <1>10, <1>11, <2>1
<1> HIDE DEF rows
<1>14. /\ v \in Archives /\ v.chunks = D /\ v.hours = a.hours /\ v.raw = a.raw
       /\ v.total = a.total + folded /\ v.rows = rows
  <2>1. a.total + folded \in Int
    BY <1>1, <1>8
  <2> QED BY <1>1, <1>2, <1>3, <1>12, <2>1 DEF Archives
<1> HIDE DEF v
<1>15. Kept(v)
  BY <1>3, <1>11, <1>13, <1>14 DEF Kept
<1>16. a.total + folded = a.total + SealedSamples(D) - SealedSamples(C)
  BY <1>1, <1>5, <1>6 DEF folded
<1> QED BY <1>10, <1>11, <1>14, <1>15, <1>16 DEF v, D, C

LEMMA ClosedIsBalanced ==
  ASSUME NEW a, Balanced(a), NEW s \in DOMAIN a.rows, NEW at \in Nat
  PROVE  Balanced(Closed(a, s, at))
<1> DEFINE v == Closed(a, s, at)
           D == SealOpenChunks(a.chunks, {s})
<1>1. Kept(a)
  BY DEF Balanced
<1>2. /\ Kept(v) /\ v.chunks = D /\ v.hours = a.hours
      /\ v.total = a.total + SealedSamples(v.chunks) - SealedSamples(a.chunks)
      /\ v.raw = a.raw /\ DOMAIN v.rows = DOMAIN a.rows
  BY <1>1, ClosedIs
<1>3. /\ a.chunks \in SUBSET ChunkRecords /\ IsFiniteSet(a.chunks) /\ KeysTell(a.chunks)
  BY <1>1 DEF Kept, Archives
<1>4. /\ D \in SUBSET ChunkRecords /\ IsFiniteSet(D) /\ RawBytes(D) = RawBytes(a.chunks)
      /\ \A r : Of(D, r) = SealOpenChunks(Of(a.chunks, r), {s})
  BY <1>3, SealedAll
<1>5. SealedSamples(D) \in Nat /\ SealedSamples(a.chunks) \in Nat
  <2>1. D \in SUBSET D /\ a.chunks \in SUBSET a.chunks
    OBVIOUS
  <2> HIDE DEF D
  <2> QED BY <1>3, <1>4, <2>1, SumsWithout
<1>6. \A x \in D : x.of \in DOMAIN a.rows
  <2>1. ASSUME NEW x \in D
        PROVE  x.of \in DOMAIN a.rows
    <3>1. x \in SealOpenChunks(Of(a.chunks, x.of), {s})
      BY <1>4 DEF Of
    <3>2. PICK c \in Of(a.chunks, x.of) : TRUE
      BY <3>1 DEF SealOpenChunks
    <3> QED BY <3>2 DEF Of, Balanced, Owned
  <2> QED BY <2>1
<1> HIDE DEF v, D
<1>7. v.total = SealedSamples(v.chunks)
  BY <1>2, <1>5 DEF Balanced
<1>8. Owned(v)
  BY <1>2, <1>6 DEF Balanced, Owned
<1>9. v.raw \in {Unknown, RawBytes(v.chunks)}
  BY <1>2, <1>4 DEF Balanced
<1>10. Balanced(v)
  BY <1>2, <1>7, <1>8, <1>9 DEF Balanced
<1> QED BY <1>10 DEF v

-----------------------------------------------------------------------------
(* Recovery. *)

Abandoned(a) ==
  {s \in DOMAIN a.rows : a.rows[s].state = "open" /\ now - a.rows[s].beat >= StaleAfter}

LastAt(a, s) ==
  IF Of(a.chunks, s) = {} THEN a.rows[s].beat ELSE Max(UNION {c.at : c \in Of(a.chunks, s)})

Settled(a, s) == Closed(a, s, LastAt(a, s)).rows[s]

Empty(a) ==
  {s \in Abandoned(a) :
     Settled(a, s).sealed = 0 /\ ~a.rows[s].seen /\ Of(a.hours, s) = {}}

SweptRows(a) ==
  [s \in DOMAIN a.rows \ Empty(a) |-> IF s \in Abandoned(a) THEN Settled(a, s) ELSE a.rows[s]]

SweptChunks(a) ==
  {c \in SealOpenChunks(a.chunks, Abandoned(a)) : c.of \in DOMAIN SweptRows(a)}

\* The archive Recover prunes.
Swept(a) ==
  [rows |-> SweptRows(a), chunks |-> SweptChunks(a),
   hours |-> {x \in a.hours : x.of \in DOMAIN SweptRows(a)},
   total |-> SealedInRows(SweptRows(a)), raw |-> RawBytes(SweptChunks(a))]

LEMMA RecoverIsSwept ==
  ASSUME NEW a
  PROVE  Recover(a) = Prune(Swept(a), NoRow)
  BY DEF Recover, Swept, SweptRows, SweptChunks, Empty, Settled, LastAt, Abandoned

LEMMA LastAtTyped ==
  ASSUME NEW a, Kept(a), NEW s \in DOMAIN a.rows
  PROVE  LastAt(a, s) \in Nat
<1>1. a.rows[s] \in RowRecords /\ a.chunks \in SUBSET ChunkRecords
  BY TableTyped DEF Kept, Archives
<1>2. CASE Of(a.chunks, s) = {}
  BY <1>1, <1>2 DEF LastAt, RowRecords
<1>3. CASE Of(a.chunks, s) # {}
  <2> DEFINE all == UNION {c.at : c \in Of(a.chunks, s)}
  <2>1. \A c \in Of(a.chunks, s) : c.at \in SUBSET Instants /\ c.at # {}
    <3>1. ASSUME NEW c \in Of(a.chunks, s)
          PROVE  c.at \in SUBSET Instants /\ c.at # {}
      <4>1. c \in ChunkRecords
        BY <1>1 DEF Of
      <4> QED BY <4>1 DEF ChunkRecords
    <3> QED BY <3>1
  <2>2. all \in SUBSET Instants /\ all # {}
    BY <1>3, <2>1
  <2> HIDE DEF all
  <2>3. Max(all) \in Instants
    BY <2>2, MaxOf
  <2> QED BY <1>3, <2>3 DEF LastAt, all, Instants
<1> QED BY <1>2, <1>3

LEMMA SettledIs ==
  ASSUME NEW a, Kept(a), NEW s \in DOMAIN a.rows
  PROVE  /\ Settled(a, s) \in RowRecords
         /\ Settled(a, s).sealed = SealedSamples(SealOpenChunks(Of(a.chunks, s), {s}))
         /\ Settled(a, s).state = "closed"
         /\ Settled(a, s).basis = a.rows[s].basis
         /\ Settled(a, s).retained = a.rows[s].retained
<1> DEFINE v == Closed(a, s, LastAt(a, s))
<1>1. /\ Kept(v) /\ v.chunks = SealOpenChunks(a.chunks, {s}) /\ DOMAIN v.rows = DOMAIN a.rows
      /\ v.rows[s].state \in {"closed"}
      /\ v.rows[s].basis = a.rows[s].basis /\ v.rows[s].retained = a.rows[s].retained
  <2>1. LastAt(a, s) \in Nat
    BY LastAtTyped
  <2>2. ASSUME NEW at \in Nat
        PROVE  /\ Kept(Closed(a, s, at))
               /\ Closed(a, s, at).chunks = SealOpenChunks(a.chunks, {s})
               /\ DOMAIN Closed(a, s, at).rows = DOMAIN a.rows
               /\ Closed(a, s, at).rows[s].state \in {"closed"}
               /\ Closed(a, s, at).rows[s].basis = a.rows[s].basis
               /\ Closed(a, s, at).rows[s].retained = a.rows[s].retained
    BY ClosedIs
  <2> QED BY <2>1, <2>2
<1>2. a.chunks \in SUBSET ChunkRecords /\ IsFiniteSet(a.chunks) /\ KeysTell(a.chunks)
  BY DEF Kept, Archives
<1>3. Of(SealOpenChunks(a.chunks, {s}), s) = SealOpenChunks(Of(a.chunks, s), {s})
  BY <1>2, SealedAll
<1> HIDE DEF v
<1>4. v.rows[s] \in RowRecords
  BY <1>1, TableTyped DEF Kept
<1>5. v.rows[s].sealed = SealedSamples(Of(v.chunks, s))
  BY <1>1 DEF Kept
<1> QED BY <1>1, <1>3, <1>4, <1>5 DEF Settled, v

LEMMA SweptIs ==
  ASSUME NEW a, Kept(a)
  PROVE  /\ Exact(Swept(a))
         /\ DOMAIN Swept(a).rows \subseteq DOMAIN a.rows
         /\ \A s \in DOMAIN Swept(a).rows :
              /\ Of(Swept(a).chunks, s) = SealOpenChunks(Of(a.chunks, s), Abandoned(a))
              /\ Of(Swept(a).hours, s) = Of(a.hours, s)
              /\ Swept(a).rows[s].basis = a.rows[s].basis
              /\ Swept(a).rows[s].retained = a.rows[s].retained
              /\ \/ Swept(a).rows[s] = a.rows[s] /\ s \notin Abandoned(a)
                 \/ Swept(a).rows[s].state = "closed"
<1> DEFINE C == a.chunks
           D == SealOpenChunks(C, Abandoned(a))
           rows == SweptRows(a)
           owned == SweptChunks(a)
           hours == {x \in a.hours : x.of \in DOMAIN rows}
           v == Swept(a)
<1>1. /\ a \in Archives /\ C \in SUBSET ChunkRecords /\ IsFiniteSet(C) /\ KeysTell(C)
      /\ a.hours \in SUBSET HourRecords
  BY DEF Kept, Archives
<1>2. /\ D \in SUBSET ChunkRecords /\ IsFiniteSet(D) /\ KeysTell(D)
      /\ \A s : Of(D, s) = SealOpenChunks(Of(C, s), Abandoned(a))
  BY <1>1, SealedAll
<1>3. /\ DOMAIN rows = DOMAIN a.rows \ Empty(a)
      /\ \A s \in DOMAIN rows : s \in DOMAIN a.rows
      /\ \A s \in DOMAIN rows :
           rows[s] = IF s \in Abandoned(a) THEN Settled(a, s) ELSE a.rows[s]
  BY DEF SweptRows
<1>4. /\ owned \in SUBSET D
      /\ \A s \in DOMAIN rows : Of(owned, s) = Of(D, s)
      /\ \A c \in owned : c.of \in DOMAIN rows
  BY DEF SweptChunks, Of
<1>5. \A s \in DOMAIN a.rows : a.rows[s] \in RowRecords /\ DOMAIN a.rows \in SUBSET Sessions
  BY <1>1, TableTyped
<1>6. \A s \in DOMAIN rows : rows[s] \in RowRecords
  <2>1. ASSUME NEW s \in DOMAIN rows
        PROVE  rows[s] \in RowRecords
    <3>1. s \in DOMAIN a.rows /\ rows[s] = IF s \in Abandoned(a) THEN Settled(a, s) ELSE a.rows[s]
      BY <1>3
    <3>2. Settled(a, s) \in RowRecords
      BY <3>1, SettledIs
    <3> HIDE DEF rows
    <3> QED BY <1>5, <3>1, <3>2
  <2> QED BY <2>1
<1>7. rows \in Tables
  <2>1. rows = [s \in DOMAIN rows |-> rows[s]]
    BY DEF SweptRows
  <2>2. rows \in [DOMAIN rows -> RowRecords]
    <3> HIDE DEF rows
    <3> QED BY <1>6, <2>1
  <2>3. DOMAIN rows \in SUBSET Sessions
    BY <1>3, <1>5
  <2> HIDE DEF rows
  <2> QED BY <2>2, <2>3, InTables
<1> HIDE DEF rows, owned
<1>8. ASSUME NEW s \in DOMAIN rows
      PROVE  rows[s].sealed = SealedSamples(Of(owned, s))
  <2>1. CASE s \in Abandoned(a)
    <3>1. SealOpenChunks(Of(C, s), Abandoned(a)) = SealOpenChunks(Of(C, s), {s})
      BY <2>1 DEF SealOpenChunks, Of
    <3>2. rows[s].sealed = SealedSamples(SealOpenChunks(Of(C, s), {s}))
      BY <1>3, <2>1, SettledIs
    <3>3. Of(owned, s) = SealOpenChunks(Of(C, s), {s})
      BY <1>2, <1>4, <3>1
    <3> QED BY <3>2, <3>3
  <2>2. CASE s \notin Abandoned(a)
    <3>1. SealOpenChunks(Of(C, s), Abandoned(a)) = Of(C, s)
      BY <2>2 DEF SealOpenChunks, Of
    <3>2. rows[s].sealed = SealedSamples(Of(C, s))
      BY <1>3, <2>2 DEF Kept
    <3>3. Of(owned, s) = Of(C, s)
      BY <1>2, <1>4, <3>1
    <3> QED BY <3>2, <3>3
  <2> QED BY <2>1, <2>2
<1>9. owned \in SUBSET ChunkRecords /\ IsFiniteSet(owned) /\ KeysTell(owned)
  <2> HIDE DEF D
  <2> QED BY <1>2, <1>4, FS_Subset DEF KeysTell
<1>10. SealedInRows(rows) = SealedSamples(owned)
  BY <1>4, <1>8, <1>9, RowsTell
<1>11. SealedSamples(owned) \in Nat /\ RawBytes(owned) \in Nat
  <2>1. owned \in SUBSET owned
    OBVIOUS
  <2> QED BY <1>9, <2>1, SumsWithout
<1>12. v = [rows |-> rows, chunks |-> owned, hours |-> hours,
            total |-> SealedInRows(rows), raw |-> RawBytes(owned)]
  BY DEF Swept, rows, owned
<1>13. hours \in SUBSET HourRecords /\ \A x \in hours : x.of \in DOMAIN rows
  BY <1>1
<1>14. \A s \in DOMAIN rows : Of(hours, s) = Of(a.hours, s)
  BY DEF Of
<1> HIDE DEF hours
<1>15. /\ v \in Archives /\ v.rows = rows /\ v.chunks = owned /\ v.hours = hours
       /\ v.total = SealedSamples(owned) /\ v.raw = RawBytes(owned)
  BY <1>7, <1>9, <1>10, <1>11, <1>12, <1>13 DEF Archives
<1> HIDE DEF v
<1>16. Exact(v)
  BY <1>4, <1>8, <1>9, <1>13, <1>15 DEF Exact, Kept, Owned
<1>17. \A s \in DOMAIN rows :
         /\ rows[s].basis = a.rows[s].basis /\ rows[s].retained = a.rows[s].retained
         /\ \/ rows[s] = a.rows[s] /\ s \notin Abandoned(a)
            \/ rows[s].state = "closed"
  <2>1. ASSUME NEW s \in DOMAIN rows
        PROVE  /\ rows[s].basis = a.rows[s].basis /\ rows[s].retained = a.rows[s].retained
               /\ \/ rows[s] = a.rows[s] /\ s \notin Abandoned(a)
                  \/ rows[s].state = "closed"
    <3>1. s \in DOMAIN a.rows /\ rows[s] = IF s \in Abandoned(a) THEN Settled(a, s) ELSE a.rows[s]
      BY <1>3
    <3>2. /\ Settled(a, s).state = "closed" /\ Settled(a, s).basis = a.rows[s].basis
          /\ Settled(a, s).retained = a.rows[s].retained
      BY <3>1, SettledIs
    <3> QED BY <3>1, <3>2
  <2> QED BY <2>1
<1>18. \A s \in DOMAIN rows : Of(owned, s) = SealOpenChunks(Of(C, s), Abandoned(a))
  BY <1>2, <1>4
<1> QED BY <1>3, <1>14, <1>15, <1>16, <1>17, <1>18 DEF v

LEMMA RecoveredIsExact ==
  ASSUME NEW a, Kept(a)
  PROVE  Exact(Recover(a))
  BY SweptIs, PrunedIsExact, RecoverIsSwept

-----------------------------------------------------------------------------
(* The invariant. *)

Pens ==
  [of : Sessions, tab : Tabs, tail : [Streams -> SUBSET Instants], seq : [Streams -> Nat],
   given : Given, dirty : SUBSET Nat]

\* A recorder is on a page that is there, and heard a row of each hour it owes.
PenSound ==
  pen # NoPen =>
    /\ pen \in Pens /\ pen.tab \in opened
    /\ \A h \in pen.dirty : \E k \in pen.given : HourOf(k[2]) = h

\* A recorder that may still write has its chunk numbers before it.
AheadIn(a, p) ==
  p # NoPen /\ p.of \in DOMAIN a.rows /\ a.rows[p.of].state = "open" =>
    \A c \in Of(a.chunks, p.of) : c.sealed => c.seq < p.seq[c.stream]

ArchiveTypeOK ==
  /\ now \in Instants /\ opened \in SUBSET Tabs /\ viewed \in [Tabs -> Sessions \cup {NoRow}]
  /\ happenings \in 0 .. MaxHappenings
  /\ copy \in [held : BOOLEAN, archive : Archives]

ArchiveInv ==
  /\ ArchiveTypeOK /\ PenSound
  /\ Kept(db) /\ Balanced(db)
  /\ Balanced(copy.archive) /\ AllClosed(copy.archive)
  /\ AheadIn(db, pen)

\* No session is opened, nor is a chunk of an open one sealed or added.
Fewer(v, a) ==
  /\ DOMAIN v.rows \subseteq DOMAIN a.rows
  /\ \A s \in DOMAIN v.rows :
       v.rows[s].state = "open" =>
         a.rows[s].state = "open" /\ Of(v.chunks, s) \subseteq Of(a.chunks, s)

LEMMA FewerAhead ==
  ASSUME NEW a, NEW v, NEW p, Fewer(v, a), AheadIn(a, p)
  PROVE  AheadIn(v, p)
  BY DEF Fewer, AheadIn

LEMMA FewerTwice ==
  ASSUME NEW a, NEW v, NEW c, Fewer(v, a), Fewer(c, v)
  PROVE  Fewer(c, a)
  BY DEF Fewer

LEMMA ThinnedIsFewer ==
  ASSUME NEW a, NEW v, Thinned(v, a)
  PROVE  Fewer(v, a)
  BY DEF Thinned, SameSession, Fewer

LEMMA PrunedIsFewer ==
  ASSUME NEW a, Exact(a), NEW seen
  PROVE  Fewer(Prune(a, seen), a)
<1> DEFINE v == DropRaw(a, capacity)
           c == DropHours(v)
           d == DropSessions(c, seen)
<1>1. PICK cut : RawCut(v, a, cut)
  BY RawDropped
<1>2. Exact(v)
  BY RawDropped
<1>3. Exact(c) /\ c.rows = v.rows /\ c.chunks = v.chunks
  BY <1>2, HoursDropped
<1>4. Thinned(d, c)
  BY <1>3, SessionsDropped
<1> HIDE DEF v
<1>5. Fewer(v, a)
  <2>1. \A s : Of(v.chunks, s) \subseteq Of(a.chunks, s)
    BY <1>1 DEF RawCut, Of
  <2>2. /\ DOMAIN v.rows = DOMAIN a.rows
        /\ \A s \in DOMAIN a.rows : v.rows[s].state = a.rows[s].state
    BY <1>1 DEF RawCut
  <2> QED BY <2>1, <2>2 DEF Fewer
<1> HIDE DEF c
<1>6. Fewer(c, v)
  BY <1>3 DEF Fewer
<1> HIDE DEF d
<1>7. Fewer(d, c)
  BY <1>4, ThinnedIsFewer
<1>8. Fewer(d, a)
  BY <1>5, <1>6, <1>7, FewerTwice
<1> QED BY <1>8 DEF d, c, v, Prune

LEMMA RecoveredIsFewer ==
  ASSUME NEW a, Kept(a)
  PROVE  Fewer(Recover(a), a)
<1> DEFINE v == Swept(a)
<1>1. Exact(v) /\ DOMAIN v.rows \subseteq DOMAIN a.rows
  BY SweptIs
<1>2. ASSUME NEW s \in DOMAIN v.rows, v.rows[s].state = "open"
      PROVE  a.rows[s].state = "open" /\ Of(v.chunks, s) \subseteq Of(a.chunks, s)
  <2>1. /\ Of(v.chunks, s) = SealOpenChunks(Of(a.chunks, s), Abandoned(a))
        /\ \/ v.rows[s] = a.rows[s] /\ s \notin Abandoned(a)
           \/ v.rows[s].state = "closed"
    BY SweptIs
  <2>2. v.rows[s] = a.rows[s] /\ s \notin Abandoned(a)
    BY <1>2, <2>1
  <2>3. SealOpenChunks(Of(a.chunks, s), Abandoned(a)) = Of(a.chunks, s)
    BY <2>2 DEF SealOpenChunks, Of
  <2> QED BY <1>2, <2>1, <2>2, <2>3
<1> HIDE DEF v
<1>3. Fewer(v, a)
  BY <1>1, <1>2 DEF Fewer
<1>4. Fewer(Prune(v, NoRow), v)
  BY <1>1, PrunedIsFewer
<1>5. Fewer(Prune(v, NoRow), a)
  BY <1>3, <1>4, FewerTwice
<1> QED BY <1>5, RecoverIsSwept DEF v

-----------------------------------------------------------------------------
(* What there may be already. *)

LEMMA FreshIsExact == Exact(Fresh) /\ AllClosed(Fresh)
<1>1. /\ Fresh.chunks = {} /\ Fresh.hours = {} /\ Fresh.total = 0 /\ Fresh.raw = 0
      /\ Fresh.rows = <<>>
  BY DEF Fresh
<1>2. DOMAIN Fresh.rows = {} /\ Fresh.rows \in [{} -> RowRecords]
  BY <1>1
<1>3. Fresh.rows \in Tables
  BY <1>2 DEF Tables
<1>4. Fresh \in Archives
  BY <1>3 DEF Archives, Fresh
<1>5. SealedSamples({}) = 0 /\ RawBytes({}) = 0
  <2>1. {} \in SUBSET ChunkRecords /\ (\A c \in {} : BytesOf[c] = {}) /\ (\A c \in {} : SealedOf[c] = {})
    OBVIOUS
  <2>2. Cardinality(Tally(BytesOf, {})) = 0 /\ Cardinality(Tally(SealedOf, {})) = 0
    BY <2>1, TallyOfNone
  <2> QED BY <2>1, <2>2, SumsAreTallies
<1>6. IsFiniteSet({})
  BY FS_EmptySet
<1> QED BY <1>1, <1>2, <1>4, <1>5, <1>6 DEF Exact, Kept, Owned, KeysTell, AllClosed

LEMMA OldBuildIsKept ==
  ASSUME NEW state \in {"open", "closed"}, NEW C \in SUBSET ChunkRecords, IsFiniteSet(C),
         KeysTell(C)
  PROVE  LET a == OfOldBuild(state, C) IN
         /\ Kept(a)
         /\ DOMAIN a.rows = {1} /\ a.rows[1].state = state /\ a.chunks = C /\ a.hours = {}
         /\ a.rows[1].basis = "none" /\ a.rows[1].retained = 0
         /\ (\A c \in C : c.of = 1) => Balanced(a)
<1> DEFINE n == SealedSamples(Of(C, 1))
           new == NewRow(3)
           row == [new EXCEPT !.state = state, !.seen = TRUE, !.sealed = n]
           rows == [s \in {1} |-> row]
           a == OfOldBuild(state, C)
<1>1. a = [rows |-> rows, chunks |-> C, hours |-> {}, total |-> n, raw |-> Unknown]
  BY DEF OfOldBuild
<1>2. n \in Nat
  <2>1. Of(C, 1) \in SUBSET C
    BY DEF Of
  <2> QED BY <2>1, SumsWithout
<1>3. new \in RowRecords /\ new.basis = "none" /\ new.retained = 0
  BY DEF NewRow, RowRecords
<1> HIDE DEF new, n
<1>4. /\ row \in RowRecords /\ row.state = state /\ row.basis = "none" /\ row.retained = 0
      /\ row.sealed = n
  BY <1>2, <1>3 DEF RowRecords
<1> HIDE DEF row
<1>5. DOMAIN rows = {1} /\ rows[1] = row /\ rows \in [{1} -> RowRecords]
  BY <1>4
<1>6. 1 \in Sessions
  BY ArchiveConstants DEF Sessions
<1> HIDE DEF rows
<1>7. rows \in Tables
  BY <1>5, <1>6, InTables
<1>8. Unknown \in Int
  BY DEF Unknown
<1>9. /\ a \in Archives /\ a.rows = rows /\ a.chunks = C /\ a.hours = {} /\ a.total = n
      /\ a.raw = Unknown
  BY <1>1, <1>2, <1>7, <1>8 DEF Archives
<1> HIDE DEF a
<1>10. Kept(a)
  BY <1>4, <1>5, <1>9 DEF Kept, n
<1>11. ASSUME \A c \in C : c.of = 1
       PROVE  Balanced(a)
  <2>1. Of(C, 1) = C
    BY <1>11 DEF Of
  <2>2. n = SealedSamples(C)
    BY <2>1 DEF n
  <2>3. Owned(a)
    BY <1>5, <1>9, <1>11 DEF Owned
  <2> QED BY <1>9, <1>10, <2>2, <2>3 DEF Balanced
<1> QED BY <1>4, <1>5, <1>9, <1>10, <1>11 DEF a

LEMMA ChunkTyped ==
  ASSUME NEW s \in Sessions, NEW st \in Streams, NEW n \in Nat, NEW at \in SUBSET Instants,
         at # {}, NEW sealed \in BOOLEAN
  PROVE  /\ Chunk(s, st, n, at, sealed) \in ChunkRecords
         /\ Chunk(s, st, n, at, sealed).of = s /\ Chunk(s, st, n, at, sealed).stream = st
         /\ Chunk(s, st, n, at, sealed).seq = n /\ Chunk(s, st, n, at, sealed).at = at
         /\ Chunk(s, st, n, at, sealed).sealed = sealed
  BY DEF Chunk, ChunkRecords

BackupChunks == {Chunk(1, "pack", 0, {1, 2}, TRUE), Chunk(1, "solar", 0, {2}, TRUE)}

LEMMA FewTyped ==
  /\ 1 \in Sessions /\ MaxSession \in Sessions /\ 1 # MaxSession
  /\ {1, 2} \in SUBSET Instants /\ {3} \in SUBSET Instants /\ {1} \in SUBSET Instants
  /\ {2} \in SUBSET Instants /\ "pack" \in Streams /\ "solar" \in Streams
  /\ {1, 2} # {} /\ {3} # {} /\ {1} # {} /\ {2} # {}
  /\ 0 \in Nat /\ 1 \in Nat /\ TRUE \in BOOLEAN /\ FALSE \in BOOLEAN
  BY ArchiveConstants DEF Sessions, Instants, Streams

LEMMA CutTyped ==
  /\ CutOff \in SUBSET ChunkRecords /\ IsFiniteSet(CutOff) /\ KeysTell(CutOff)
  /\ \A c \in CutOff : c.of = 1
<1> DEFINE c == Chunk(1, "pack", 0, {1, 2}, TRUE)
           d == Chunk(1, "pack", 1, {3}, FALSE)
           e == Chunk(1, "solar", 0, {3}, FALSE)
<1>1. c \in ChunkRecords /\ c.of = 1 /\ c.stream = "pack" /\ c.seq = 0
  BY FewTyped DEF Chunk, ChunkRecords
<1>2. d \in ChunkRecords /\ d.of = 1 /\ d.stream = "pack" /\ d.seq = 1
  BY FewTyped DEF Chunk, ChunkRecords
<1>3. e \in ChunkRecords /\ e.of = 1 /\ e.stream = "solar" /\ e.seq = 0
  BY FewTyped DEF Chunk, ChunkRecords
<1>4. CutOff = {c, d, e}
  BY DEF CutOff
<1> HIDE DEF c, d, e
<1>5. KeysTell({c, d, e})
  BY <1>1, <1>2, <1>3 DEF KeysTell, SameKey
<1>6. IsFiniteSet({c, d, e})
  <2>1. IsFiniteSet({c})
    BY FS_Singleton
  <2>2. IsFiniteSet({c} \cup {d})
    BY <2>1, FS_AddElement
  <2>3. IsFiniteSet(({c} \cup {d}) \cup {e})
    BY <2>2, FS_AddElement
  <2>4. ({c} \cup {d}) \cup {e} = {c, d, e}
    OBVIOUS
  <2> QED BY <2>3, <2>4
<1> QED BY <1>1, <1>2, <1>3, <1>4, <1>5, <1>6

LEMMA BackupTyped ==
  /\ BackupChunks \in SUBSET ChunkRecords /\ IsFiniteSet(BackupChunks)
  /\ KeysTell(BackupChunks) /\ \A c \in BackupChunks : c.of = 1
<1> DEFINE c == Chunk(1, "pack", 0, {1, 2}, TRUE)
           d == Chunk(1, "solar", 0, {2}, TRUE)
<1>1. c \in ChunkRecords /\ c.of = 1 /\ c.stream = "pack" /\ c.seq = 0
  BY FewTyped DEF Chunk, ChunkRecords
<1>2. d \in ChunkRecords /\ d.of = 1 /\ d.stream = "solar" /\ d.seq = 0
  BY FewTyped DEF Chunk, ChunkRecords
<1>3. BackupChunks = {c, d}
  BY DEF BackupChunks
<1> HIDE DEF c, d
<1>4. KeysTell({c, d})
  BY <1>1, <1>2 DEF KeysTell, SameKey
<1>5. IsFiniteSet({c, d})
  <2>1. IsFiniteSet({c})
    BY FS_Singleton
  <2>2. IsFiniteSet({c} \cup {d})
    BY <2>1, FS_AddElement
  <2>3. {c} \cup {d} = {c, d}
    OBVIOUS
  <2> QED BY <2>2, <2>3
<1> QED BY <1>1, <1>2, <1>3, <1>4, <1>5

LEMMA ArchiveStarts ==
  ASSUME "littered" \notin Legacies, ArchiveInit
  PROVE  ArchiveInv
<1>1. PICK l \in Legacies : /\ db = Found(l)
                            /\ copy = IF l = "fresh" THEN Copy(OldBackup) ELSE NoCopy
  BY DEF ArchiveInit
<1>2. OldBackup = OfOldBuild("closed", BackupChunks)
  BY DEF OldBackup, BackupChunks
<1>3. Balanced(OldBackup) /\ AllClosed(OldBackup)
  <2>1. /\ Balanced(OldBackup) /\ DOMAIN OldBackup.rows = {1}
        /\ OldBackup.rows[1].state = "closed"
    BY <1>2, BackupTyped, OldBuildIsKept
  <2> QED BY <2>1 DEF AllClosed
<1>4. Balanced(Fresh) /\ AllClosed(Fresh)
  BY FreshIsExact, ExactIsBalanced
<1>5. Kept(db) /\ Balanced(db)
  <2>1. l \in {"fresh", "cut"}
    BY ArchiveAssumption
  <2>2. CASE l = "fresh"
    BY <1>1, <1>4, <2>2 DEF Found, Balanced
  <2>3. CASE l = "cut"
    <3>1. db = OfOldBuild("open", CutOff)
      BY <1>1, <2>3 DEF Found
    <3> QED BY <3>1, CutTyped, OldBuildIsKept
  <2> QED BY <2>1, <2>2, <2>3
<1>6. Balanced(copy.archive) /\ AllClosed(copy.archive)
      /\ copy \in [held : BOOLEAN, archive : Archives]
  <2>1. Fresh \in Archives /\ OldBackup \in Archives
    BY <1>3, <1>4 DEF Balanced, Kept
  <2>2. \/ copy = [held |-> TRUE, archive |-> OldBackup]
        \/ copy = [held |-> FALSE, archive |-> Fresh]
    BY <1>1 DEF Copy, NoCopy
  <2>3. \A a : /\ [held |-> TRUE, archive |-> a].archive = a
                /\ [held |-> FALSE, archive |-> a].archive = a
    OBVIOUS
  <2> HIDE DEF OldBackup, Fresh
  <2>4. copy.archive = OldBackup \/ copy.archive = Fresh
    BY <2>2
  <2>5. copy \in [held : BOOLEAN, archive : Archives]
    <3>1. \A h \in BOOLEAN, a \in Archives :
            [held |-> h, archive |-> a] \in [held : BOOLEAN, archive : Archives]
      OBVIOUS
    <3>2. /\ [held |-> TRUE, archive |-> OldBackup] \in [held : BOOLEAN, archive : Archives]
          /\ [held |-> FALSE, archive |-> Fresh] \in [held : BOOLEAN, archive : Archives]
      BY <2>1, <3>1
    <3> QED BY <2>2, <3>2
  <2> QED BY <1>3, <1>4, <2>4, <2>5
<1>7. now \in Instants /\ opened = {} /\ viewed \in [Tabs -> Sessions \cup {NoRow}]
  <2>1. 3 \in Instants
    BY FewTyped
  <2> QED BY <2>1 DEF ArchiveInit
<1>9. happenings \in 0 .. MaxHappenings /\ pen = NoPen
  <2>1. \A n \in {MaxSession, MaxTime, HourSpan, ChunkSize, MaxSessions, MaxHours,
                  Retention, StaleAfter, MaxHappenings} : n \in Nat \ {0}
    BY ArchiveAssumption
  <2>2. MaxHappenings \in Nat
    BY <2>1
  <2> QED BY <2>2 DEF ArchiveInit
<1> QED BY <1>5, <1>6, <1>7, <1>9
        DEF ArchiveInv, ArchiveTypeOK, PenSound, AheadIn


-----------------------------------------------------------------------------
(* Every step keeps it: the recorder's. *)

LEMMA ArchiveInvMade ==
  ASSUME ArchiveTypeOK', PenSound', Kept(db'), Balanced(db'),
         Balanced(copy'.archive), AllClosed(copy'.archive), AheadIn(db', pen')
  PROVE  ArchiveInv'
  BY DEF ArchiveInv

\* The parts, each by its name.
LEMMA ArchiveInvParts ==
  ASSUME ArchiveInv
  PROVE  /\ ArchiveTypeOK /\ PenSound /\ Kept(db) /\ Balanced(db)
         /\ Balanced(copy.archive) /\ AllClosed(copy.archive) /\ AheadIn(db, pen)
         /\ now \in Nat /\ db \in Archives
         /\ (pen # NoPen => Balanced(db) /\ pen \in Pens /\ pen.tab \in opened)
<1>1. now \in Nat
  BY ArchiveConstants DEF ArchiveInv, ArchiveTypeOK, Instants
<1>2. db \in Archives
  BY DEF ArchiveInv, Kept
<1>3. pen # NoPen => Balanced(db) /\ pen \in Pens /\ pen.tab \in opened
  BY DEF ArchiveInv, PenSound
<1> QED BY <1>1, <1>2, <1>3 DEF ArchiveInv

LEMMA HappensTyped ==
  ASSUME ArchiveTypeOK, happenings < MaxHappenings, happenings' = happenings + 1
  PROVE  happenings' \in 0 .. MaxHappenings
<1>1. \A n \in {MaxSession, MaxTime, HourSpan, ChunkSize, MaxSessions, MaxHours,
                Retention, StaleAfter, MaxHappenings} : n \in Nat \ {0}
  BY ArchiveAssumption
<1>2. MaxHappenings \in Nat
  BY <1>1
<1> QED BY <1>2 DEF ArchiveTypeOK

LEMMA PenTyped ==
  ASSUME NEW p \in Pens
  PROVE  /\ p.of \in Sessions /\ p.tab \in Tabs /\ p.given \in Given /\ p.dirty \in SUBSET Nat
         /\ \A st \in Streams : p.tail[st] \in SUBSET Instants /\ p.seq[st] \in Nat
         /\ p.tail \in [Streams -> SUBSET Instants] /\ p.seq \in [Streams -> Nat]
  BY DEF Pens

LEMMA OpenedIsBalanced ==
  ASSUME NEW a, Balanced(a), NEW s \in Sessions, s \notin DOMAIN a.rows, NEW at \in Nat,
         NEW v, v = [a EXCEPT !.rows = [r \in DOMAIN @ \cup {s} |->
                                          IF r = s THEN NewRow(at) ELSE @[r]]]
  PROVE  Balanced(v) /\ Of(v.chunks, s) = {}
<1> DEFINE rows == [r \in DOMAIN a.rows \cup {s} |-> IF r = s THEN NewRow(at) ELSE a.rows[r]]
           C == a.chunks
<1>1. a \in Archives /\ C \in SUBSET ChunkRecords
  BY DEF Balanced, Kept, Archives
<1>2. /\ v.rows = rows /\ v.chunks = C /\ v.hours = a.hours /\ v.total = a.total
      /\ v.raw = a.raw
      /\ v = [rows |-> rows, chunks |-> C, hours |-> a.hours, total |-> a.total, raw |-> a.raw]
  BY <1>1 DEF Archives
<1>3. NewRow(at) \in RowRecords /\ NewRow(at).sealed = 0
  BY DEF NewRow, RowRecords
<1>4. rows \in Tables
  <2>1. \A r \in DOMAIN a.rows : a.rows[r] \in RowRecords
    BY <1>1, TableTyped
  <2>2. DOMAIN a.rows \cup {s} \in SUBSET Sessions
    BY <1>1, TableTyped
  <2>3. rows \in [DOMAIN a.rows \cup {s} -> RowRecords]
    BY <1>3, <2>1
  <2> HIDE DEF rows
  <2> QED BY <2>2, <2>3, InTables
<1>5. v \in Archives
  BY <1>1, <1>2, <1>4 DEF Archives
<1>6. DOMAIN rows = DOMAIN a.rows \cup {s} /\ rows[s] = NewRow(at)
      /\ \A r \in DOMAIN a.rows : rows[r] = a.rows[r]
  OBVIOUS
<1>7. Of(C, s) = {}
  BY DEF Balanced, Owned, Of
<1>8. SealedSamples(Of(C, s)) = 0
  <2>1. Of(C, s) \in SUBSET ChunkRecords /\ \A c \in Of(C, s) : ~c.sealed
    BY <1>7
  <2> QED BY <2>1, NoneSealed
<1> HIDE DEF rows
<1>9. ASSUME NEW r \in DOMAIN rows
      PROVE  rows[r].sealed = SealedSamples(Of(C, r))
  <2>1. CASE r = s
    BY <1>3, <1>6, <1>8, <2>1
  <2>2. CASE r # s
    BY <1>6, <2>2 DEF Balanced, Kept
  <2> QED BY <2>1, <2>2
<1>10. Kept(v)
  BY <1>2, <1>5, <1>9 DEF Balanced, Kept
<1>11. Owned(v)
  BY <1>2, <1>6 DEF Balanced, Owned
<1>12. v.total = SealedSamples(v.chunks) /\ v.raw \in {Unknown, RawBytes(v.chunks)}
  BY <1>2 DEF Balanced
<1> QED BY <1>2, <1>7, <1>10, <1>11, <1>12 DEF Balanced

LEMMA OpenSessionKeeps ==
  ASSUME ArchiveInv, NEW t \in Tabs, NEW s \in Sessions, OpenSession(t, s)
  PROVE  ArchiveInv'
<1> USE ArchiveInvParts
<1>1. s \notin DOMAIN db.rows /\ t \in opened /\ now \in Nat /\ Balanced(db)
  BY DEF OpenSession
<1>2. db' = [db EXCEPT !.rows = [r \in DOMAIN @ \cup {s} |-> IF r = s THEN NewRow(now) ELSE @[r]]]
  BY DEF OpenSession
<1>3. Balanced(db') /\ Of(db'.chunks, s) = {}
  BY <1>1, <1>2, OpenedIsBalanced
<1>4. pen' = [of |-> s, tab |-> t, tail |-> [st \in Streams |-> {}],
              seq |-> [st \in Streams |-> 0], given |-> {}, dirty |-> {}]
  BY DEF OpenSession
<1>5. pen' \in Pens /\ pen'.of = s /\ pen'.tab = t /\ pen'.dirty = {}
  BY <1>4 DEF Pens, Given
<1>6. UNCHANGED <<now, opened, viewed, capacity, copy, happenings>>
  BY DEF OpenSession
<1>7. ArchiveTypeOK'
  BY <1>6 DEF ArchiveTypeOK
<1>8. PenSound'
  BY <1>1, <1>5, <1>6 DEF PenSound
<1>9. AheadIn(db', pen')
  BY <1>3, <1>5 DEF AheadIn
<1>10. Kept(db')
  BY <1>3 DEF Balanced
<1> QED BY <1>3, <1>6, <1>7, <1>8, <1>9, <1>10, ArchiveInvMade

LEMMA HearKeeps ==
  ASSUME ArchiveInv, NEW st \in Streams, Hear(st)
  PROVE  ArchiveInv'
<1> DEFINE earlier == {k[2] : k \in {j \in pen.given : j[2] < now}}
           before == IF earlier = {} THEN {} ELSE {HourOf(Max(earlier))}
<1>1. /\ ArchiveTypeOK /\ PenSound /\ AheadIn(db, pen) /\ pen # NoPen /\ now \in Nat
      /\ pen \in Pens /\ pen.tab \in opened
  BY ArchiveInvParts DEF Hear, Writing
<1>2. now \in Instants
  BY <1>1 DEF ArchiveTypeOK
<1>3. pen' = [pen EXCEPT !.tail[st] = @ \cup {now}, !.given = @ \cup {<<st, now>>},
                         !.dirty = @ \cup before \cup {HourOf(now)}]
  BY DEF Hear
<1>4. /\ pen.given \in Given /\ pen.dirty \in SUBSET Nat
      /\ pen.tail \in [Streams -> SUBSET Instants]
  BY <1>1, PenTyped
<1>5. ASSUME NEW h \in before
      PROVE  h \in Nat /\ \E k \in pen.given : HourOf(k[2]) = h
  <2>1. earlier # {} /\ h = HourOf(Max(earlier))
    BY <1>5
  <2>2. earlier \in SUBSET Instants
    BY <1>4 DEF Given
  <2>3. Max(earlier) \in earlier
    <3> HIDE DEF earlier
    <3> QED BY <2>1, <2>2, MaxOf
  <2>4. PICK k \in pen.given : k[2] = Max(earlier)
    BY <2>3
  <2>5. Max(earlier) \in Nat
    BY <2>2, <2>3, ArchiveConstants DEF Instants
  <2> HIDE DEF earlier
  <2> QED BY <2>1, <2>4, <2>5, HourFacts
<1> HIDE DEF before
<1>6. HourOf(now) \in Nat
  BY <1>1, HourFacts
<1>7. /\ pen'.of = pen.of /\ pen'.tab = pen.tab /\ pen'.seq = pen.seq
      /\ pen'.given = pen.given \cup {<<st, now>>}
      /\ pen'.dirty = pen.dirty \cup before \cup {HourOf(now)}
      /\ pen' \in Pens
  <2>1. <<st, now>> \in Streams \X Instants
    BY <1>2
  <2>2. /\ pen.given \cup {<<st, now>>} \in Given
        /\ pen.dirty \cup before \cup {HourOf(now)} \in SUBSET Nat
        /\ [pen.tail EXCEPT ![st] = @ \cup {now}] \in [Streams -> SUBSET Instants]
    BY <1>2, <1>4, <1>5, <1>6, <2>1 DEF Given
  <2>3. pen' = [of |-> pen.of, tab |-> pen.tab, tail |-> [pen.tail EXCEPT ![st] = @ \cup {now}],
                seq |-> pen.seq, given |-> pen.given \cup {<<st, now>>},
                dirty |-> pen.dirty \cup before \cup {HourOf(now)}]
    BY <1>1, <1>3 DEF Pens
  <2> QED BY <1>1, <2>2, <2>3 DEF Pens
<1>8. UNCHANGED <<now, db, opened, viewed, capacity, copy, happenings>>
  BY DEF Hear
<1>9. ArchiveTypeOK'
  BY <1>1, <1>8 DEF ArchiveTypeOK
<1>10. ASSUME NEW h \in pen'.dirty
       PROVE  \E k \in pen'.given : HourOf(k[2]) = h
  <2>1. CASE h \in pen.dirty
    BY <1>1, <1>7, <2>1 DEF PenSound
  <2>2. CASE h \in before
    BY <1>5, <1>7, <2>2
  <2>3. CASE h = HourOf(now)
    <3>1. <<st, now>> \in pen'.given /\ <<st, now>>[2] = now
      BY <1>7
    <3> QED BY <2>3, <3>1
  <2> QED BY <1>7, <1>10, <2>1, <2>2, <2>3
<1>11. PenSound'
  BY <1>1, <1>7, <1>8, <1>10 DEF PenSound
<1>12. AheadIn(db', pen')
  BY <1>1, <1>7, <1>8 DEF AheadIn
<1> QED BY <1>8, <1>9, <1>11, <1>12, ArchiveInvMade, ArchiveInvParts

\* A chunk of tail rows, put where the recorder's numbers say.
LEMMA AheadOfPut ==
  ASSUME NEW a, Balanced(a), NEW p, NEW q, AheadIn(a, p), p # NoPen,
         p.of \in DOMAIN a.rows, a.rows[p.of].state \in {"open"},
         NEW c, Writable(a, c), c.of = p.of, now \in Nat,
         NEW made \in SUBSET HourRecords, \A x \in made : x.of = c.of,
         q.of = p.of, p.seq \in [Streams -> Nat], q.seq \in [Streams -> Nat],
         \A st \in Streams : p.seq[st] <= q.seq[st],
         c.sealed => c.seq < q.seq[c.stream]
  PROVE  AheadIn(PutChunk(a, c, made), q)
<1> DEFINE v == PutChunk(a, c, made)
<1>1. /\ v.chunks = (a.chunks \ {x \in a.chunks : SameKey(x, c)}) \cup {c}
      /\ DOMAIN v.rows = DOMAIN a.rows
  BY PutIsExact
<1>2. a.chunks \in SUBSET ChunkRecords
  BY DEF Balanced, Kept, Archives
<1> HIDE DEF v
<1>3. ASSUME NEW d \in Of(v.chunks, q.of), d.sealed
      PROVE  d.seq < q.seq[d.stream]
  <2>1. CASE d = c
    BY <1>3, <2>1
  <2>2. CASE d # c
    <3>1. d \in Of(a.chunks, p.of)
      BY <1>1, <2>2 DEF Of
    <3>2. d.seq < p.seq[d.stream]
      BY <1>3, <3>1 DEF AheadIn
    <3>3. d.stream \in Streams /\ d.seq \in Nat
      BY <1>2, <3>1 DEF ChunkRecords, Of
    <3>4. p.seq[d.stream] <= q.seq[d.stream] /\ p.seq[d.stream] \in Nat /\ q.seq[d.stream] \in Nat
      BY <3>3
    <3> QED BY <3>2, <3>3, <3>4
  <2> QED BY <2>1, <2>2
<1> QED BY <1>3 DEF AheadIn, v

\* The chunk and the summaries a recorder commits.
PenChunk(st) == Chunk(pen.of, st, pen.seq[st], pen.tail[st], Whole(st))
PenMade == {Summary(pen.of, h, "recorded", pen.given) : h \in pen.dirty}

LEMMA PenChunkIs ==
  ASSUME ArchiveInv, NEW st \in Streams, Writing, pen.tail[st] # {},
         pen.of \in DOMAIN db.rows, db.rows[pen.of].state = "open"
  PROVE  /\ Writable(db, PenChunk(st)) /\ PenChunk(st).of = pen.of
         /\ PenChunk(st).seq = pen.seq[st] /\ PenChunk(st).stream = st
         /\ PenChunk(st).at = pen.tail[st] /\ PenChunk(st).sealed = Whole(st)
<1> DEFINE c == PenChunk(st)
<1>1. pen # NoPen /\ pen \in Pens /\ AheadIn(db, pen)
  BY ArchiveInvParts DEF Writing
<1>2. pen.of \in Sessions /\ pen.tail[st] \in SUBSET Instants /\ pen.seq[st] \in Nat
  BY <1>1, PenTyped
<1>3. Whole(st) \in BOOLEAN
  BY DEF Whole
<1>4. /\ c \in ChunkRecords /\ c.of = pen.of /\ c.stream = st /\ c.seq = pen.seq[st]
      /\ c.at = pen.tail[st] /\ c.sealed = Whole(st)
  BY <1>2, <1>3, ChunkTyped DEF PenChunk
<1> HIDE DEF c
<1>5. ASSUME NEW x \in db.chunks, SameKey(x, c), x.sealed
      PROVE  FALSE
  <2>1. x \in Of(db.chunks, pen.of) /\ x.stream = st /\ x.seq = pen.seq[st]
    BY <1>4, <1>5 DEF SameKey, Of
  <2>2. x.seq < pen.seq[x.stream]
    BY <1>1, <1>5, <2>1 DEF AheadIn
  <2> QED BY <1>2, <2>1, <2>2
<1>6. Writable(db, c)
  BY <1>4, <1>5 DEF Writable
<1> QED BY <1>4, <1>6 DEF c

LEMMA PenMadeIs ==
  ASSUME ArchiveInv, Writing
  PROVE  /\ PenMade \in SUBSET HourRecords
         /\ \A x \in PenMade : /\ x.of = pen.of /\ x.hour \in pen.dirty
                               /\ x.holds = {k \in pen.given : HourOf(k[2]) = x.hour}
         /\ \A h \in pen.dirty : \E x \in PenMade : x.hour = h
<1>1. pen # NoPen /\ pen \in Pens /\ PenSound
  BY ArchiveInvParts DEF Writing
<1>2. pen.of \in Sessions /\ pen.given \in Given /\ pen.dirty \in SUBSET Nat
  BY <1>1, PenTyped
<1>3. ASSUME NEW h \in pen.dirty
      PROVE  LET x == Summary(pen.of, h, "recorded", pen.given) IN
             /\ x \in HourRecords /\ x.of = pen.of /\ x.hour = h
             /\ x.holds = {k \in pen.given : HourOf(k[2]) = h}
  <2>1. \E k \in pen.given : HourOf(k[2]) = h
    BY <1>1 DEF PenSound
  <2>2. h \in Nat /\ "recorded" \in {"recorded", "reconstructed"}
    BY <1>2
  <2> QED BY <1>2, <2>1, <2>2, SummaryTyped
<1> QED BY <1>3 DEF PenMade

LEMMA PenEmptied ==
  ASSUME NEW st \in Streams, pen \in Pens, NEW q, q = Emptied(st)
  PROVE  /\ q \in Pens /\ q.of = pen.of /\ q.tab = pen.tab /\ q.given = pen.given
         /\ q.dirty = pen.dirty /\ q.seq[st] = pen.seq[st] + 1
         /\ \A r \in Streams : pen.seq[r] <= q.seq[r]
<1>1. /\ pen.seq \in [Streams -> Nat] /\ pen.tail \in [Streams -> SUBSET Instants]
  BY PenTyped
<1> DEFINE n == [pen.seq EXCEPT ![st] = @ + 1]
           m == [pen.tail EXCEPT ![st] = {}]
<1>2. n \in [Streams -> Nat] /\ m \in [Streams -> SUBSET Instants]
  BY <1>1
<1>3. n[st] = pen.seq[st] + 1 /\ \A r \in Streams : pen.seq[r] <= n[r]
  BY <1>1
<1>4. q = [of |-> pen.of, tab |-> pen.tab, tail |-> m, seq |-> n, given |-> pen.given,
           dirty |-> pen.dirty]
  BY DEF Emptied, Pens
<1> HIDE DEF n, m
<1> QED BY <1>2, <1>3, <1>4 DEF Pens

LEMMA CommitChunkKeeps ==
  ASSUME ArchiveInv, NEW st \in Streams, CommitChunk(st)
  PROVE  ArchiveInv'
<1> DEFINE s == pen.of
           c == PenChunk(st)
           v == WriteChunk(db, c, PenMade, viewed[pen.tab])
           going == /\ s \in DOMAIN db.rows /\ db.rows[s].state = "open"
                    /\ ~PruneFails(PutChunk(db, c, PenMade))
<1>1. /\ ArchiveTypeOK /\ PenSound /\ AheadIn(db, pen) /\ pen # NoPen /\ now \in Nat
      /\ pen \in Pens /\ pen.tab \in opened /\ Balanced(db) /\ Writing /\ pen.tail[st] # {}
  BY ArchiveInvParts DEF CommitChunk, Writing
<1>2. UNCHANGED <<now, opened, viewed, capacity, copy, happenings>>
  BY DEF CommitChunk
<1>3. ArchiveTypeOK'
  BY <1>1, <1>2 DEF ArchiveTypeOK
<1>4. /\ going => /\ db' = v
                  /\ pen' = [(IF Whole(st) THEN Emptied(st) ELSE pen) EXCEPT !.dirty = {}]
      /\ ~going => pen' = NoPen /\ db' = db
  BY DEF CommitChunk, PenChunk, PenMade
<1>5. CASE ~going
  <2>1. PenSound' /\ AheadIn(db', pen')
    BY <1>4, <1>5 DEF PenSound, AheadIn
  <2> QED BY <1>2, <1>3, <1>4, <1>5, <2>1, ArchiveInvMade, ArchiveInvParts
<1>6. CASE going
  <2> DEFINE p == IF Whole(st) THEN Emptied(st) ELSE pen
             q == [p EXCEPT !.dirty = {}]
  <2>1. /\ Writable(db, c) /\ c.of = s /\ c.seq = pen.seq[st] /\ c.stream = st
        /\ c.sealed = Whole(st)
    BY <1>1, <1>6, PenChunkIs
  <2>2. PenMade \in SUBSET HourRecords /\ \A x \in PenMade : x.of = c.of
    BY <1>1, <2>1, PenMadeIs
  <2> HIDE DEF c
  <2>3. /\ p \in Pens /\ p.of = s /\ p.tab = pen.tab
        /\ \A r \in Streams : pen.seq[r] <= p.seq[r]
        /\ c.sealed => c.seq < p.seq[st]
    <3>1. \A r \in Streams : pen.seq[r] \in Nat
      BY <1>1, PenTyped
    <3>2. CASE Whole(st)
      <4>1. p = Emptied(st)
        BY <3>2
      <4> HIDE DEF p
      <4>2. /\ p \in Pens /\ p.of = s /\ p.tab = pen.tab /\ p.seq[st] = pen.seq[st] + 1
            /\ \A r \in Streams : pen.seq[r] <= p.seq[r]
        BY <1>1, <4>1, PenEmptied
      <4> QED BY <2>1, <3>1, <4>2
    <3>3. CASE ~Whole(st)
      <4>1. p = pen
        BY <3>3
      <4> HIDE DEF p
      <4> QED BY <1>1, <2>1, <3>1, <3>3, <4>1
    <3> QED BY <3>2, <3>3
  <2>4. pen' = q
    BY <1>4, <1>6
  <2> HIDE DEF p
  <2>5. /\ q \in Pens /\ q.of = s /\ q.tab = pen.tab /\ q.dirty = {} /\ q.seq = p.seq
    BY <2>3 DEF Pens
  <2> HIDE DEF q
  <2>6. PenSound'
    BY <1>1, <1>2, <2>4, <2>5 DEF PenSound
  <2>7. Exact(PutChunk(db, c, PenMade)) /\ v = Prune(PutChunk(db, c, PenMade), viewed[pen.tab])
    BY <1>1, <2>1, <2>2, PutIsExact, WriteIsPut
  <2>8. AheadIn(PutChunk(db, c, PenMade), q)
    <3>1. pen.seq \in [Streams -> Nat] /\ q.seq \in [Streams -> Nat]
      BY <1>1, <2>5, PenTyped
    <3>2. c.sealed => c.seq < q.seq[c.stream]
      BY <2>1, <2>3, <2>5
    <3>3. \A r \in Streams : pen.seq[r] <= q.seq[r]
      BY <2>3, <2>5
    <3>4. db.rows[pen.of].state \in {"open"} /\ pen.of \in DOMAIN db.rows
      BY <1>6
    <3>5. c.of = pen.of /\ q.of = pen.of
      BY <2>1, <2>5
    <3> QED BY <1>1, <2>1, <2>2, <3>1, <3>2, <3>3, <3>4, <3>5, AheadOfPut
  <2>9. Exact(v) /\ AheadIn(v, q)
    <3>1. Fewer(Prune(PutChunk(db, c, PenMade), viewed[pen.tab]), PutChunk(db, c, PenMade))
      BY <2>7, PrunedIsFewer
    <3>2. Exact(Prune(PutChunk(db, c, PenMade), viewed[pen.tab]))
      BY <2>7, PrunedIsExact
    <3> QED BY <2>7, <2>8, <3>1, <3>2, FewerAhead
  <2>10. db' = v
    BY <1>4, <1>6
  <2> HIDE DEF v
  <2>11. Balanced(db') /\ Kept(db') /\ AheadIn(db', pen')
    BY <2>4, <2>9, <2>10, ExactIsBalanced DEF Exact
  <2> QED BY <1>2, <1>3, <2>6, <2>11, ArchiveInvMade, ArchiveInvParts
<1> QED BY <1>5, <1>6

LEMMA PruneToBudgetKeeps ==
  ASSUME ArchiveInv, PruneToBudget
  PROVE  ArchiveInv'
<1> DEFINE a == Counted(db)
           v == Prune(a, viewed[pen.tab])
<1>1. /\ ArchiveTypeOK /\ PenSound /\ AheadIn(db, pen) /\ pen # NoPen /\ Balanced(db)
  BY ArchiveInvParts DEF PruneToBudget, Writing
<1>2. /\ happenings' = happenings + 1 /\ happenings < MaxHappenings
      /\ db' = db \/ db' = v
      /\ UNCHANGED <<now, opened, viewed, capacity, pen, copy>>
  BY DEF PruneToBudget, Happens
<1>3. ArchiveTypeOK'
  BY <1>1, <1>2, HappensTyped DEF ArchiveTypeOK
<1>4. PenSound'
  BY <1>1, <1>2 DEF PenSound
<1>5. Exact(a) /\ a.rows = db.rows /\ a.chunks = db.chunks
  BY <1>1, CountedIsExact
<1> HIDE DEF a
<1>6. AheadIn(a, pen)
  BY <1>1, <1>5 DEF AheadIn
<1>7. Exact(v) /\ Fewer(v, a)
  BY <1>5, PrunedIsExact, PrunedIsFewer
<1> HIDE DEF v
<1>8. CASE db' = db
  BY <1>1, <1>2, <1>3, <1>4, <1>8, ArchiveInvMade, ArchiveInvParts
<1>9. CASE db' = v
  <2>1. Balanced(db') /\ Kept(db') /\ AheadIn(db', pen')
    BY <1>2, <1>6, <1>7, <1>9, FewerAhead, ExactIsBalanced DEF Exact
  <2> QED BY <1>2, <1>3, <1>4, <2>1, ArchiveInvMade, ArchiveInvParts
<1> QED BY <1>2, <1>8, <1>9

LEMMA GiveUpKeeps ==
  ASSUME ArchiveInv, NEW st \in Streams, GiveUp(st)
  PROVE  ArchiveInv'
<1>1. /\ ArchiveTypeOK /\ PenSound /\ AheadIn(db, pen) /\ pen # NoPen /\ pen \in Pens
      /\ pen.tab \in opened /\ db \in Archives
  BY ArchiveInvParts DEF GiveUp, Writing
<1>2. /\ happenings' = happenings + 1 /\ happenings < MaxHappenings
      /\ pen' = Emptied(st) /\ UNCHANGED <<now, db, opened, viewed, capacity, copy>>
  BY DEF GiveUp, Happens
<1>3. ArchiveTypeOK'
  BY <1>1, <1>2, HappensTyped DEF ArchiveTypeOK
<1>4. /\ pen' \in Pens /\ pen'.of = pen.of /\ pen'.tab = pen.tab /\ pen'.given = pen.given
      /\ pen'.dirty = pen.dirty /\ \A r \in Streams : pen.seq[r] <= pen'.seq[r]
  BY <1>1, <1>2, PenEmptied
<1>5. PenSound'
  BY <1>1, <1>2, <1>4 DEF PenSound
<1>6. AheadIn(db, pen')
  <2>1. ASSUME NEW c \in Of(db.chunks, pen.of), c.sealed, pen.of \in DOMAIN db.rows,
               db.rows[pen.of].state = "open"
        PROVE  c.seq < pen'.seq[c.stream]
    <3>1. c.seq < pen.seq[c.stream]
      BY <1>1, <2>1 DEF AheadIn
    <3>2. c.stream \in Streams /\ c.seq \in Nat
      BY <1>1, <2>1 DEF Archives, Of, ChunkRecords
    <3>3. pen.seq[c.stream] \in Nat /\ pen'.seq[c.stream] \in Nat
      BY <1>1, <1>4, <3>2, PenTyped
    <3>4. pen.seq[c.stream] <= pen'.seq[c.stream]
      BY <1>4, <3>2
    <3> QED BY <3>1, <3>2, <3>3, <3>4
  <2> QED BY <1>4, <2>1 DEF AheadIn
<1> QED BY <1>2, <1>3, <1>5, <1>6, ArchiveInvMade, ArchiveInvParts

LEMMA BeatIsBalanced ==
  ASSUME NEW a, Balanced(a), NEW s \in DOMAIN a.rows, NEW at \in Nat
  PROVE  Balanced([a EXCEPT !.rows[s].beat = at])
<1> DEFINE v == [a EXCEPT !.rows[s].beat = at]
           rows == [a.rows EXCEPT ![s].beat = at]
           new == [a.rows[s] EXCEPT !.beat = at]
<1>1. a \in Archives /\ Kept(a) /\ Owned(a)
  BY DEF Balanced, Kept
<1>2. /\ DOMAIN a.rows \in SUBSET Sessions /\ a.rows \in [DOMAIN a.rows -> RowRecords]
      /\ a.rows[s] \in RowRecords
  BY <1>1, TableTyped
<1>3. new \in RowRecords /\ new.sealed = a.rows[s].sealed
  BY <1>2 DEF RowRecords
<1>4. rows = [a.rows EXCEPT ![s] = new]
  OBVIOUS
<1> HIDE DEF new
<1>5. /\ DOMAIN rows = DOMAIN a.rows /\ rows \in [DOMAIN a.rows -> RowRecords]
      /\ \A r \in DOMAIN a.rows : rows[r].sealed = a.rows[r].sealed
  BY <1>2, <1>3, <1>4
<1>6. /\ v.rows = rows /\ v.chunks = a.chunks /\ v.hours = a.hours /\ v.total = a.total
      /\ v.raw = a.raw
      /\ v = [rows |-> rows, chunks |-> a.chunks, hours |-> a.hours, total |-> a.total,
              raw |-> a.raw]
  BY <1>1 DEF Archives
<1> HIDE DEF rows
<1>7. rows \in Tables
  BY <1>2, <1>5, InTables
<1>8. v \in Archives
  BY <1>1, <1>6, <1>7 DEF Archives
<1> HIDE DEF v
<1>9. Kept(v)
  BY <1>1, <1>5, <1>6, <1>8 DEF Kept
<1>10. Owned(v)
  BY <1>1, <1>5, <1>6 DEF Owned
<1>11. v.total = SealedSamples(v.chunks) /\ v.raw \in {Unknown, RawBytes(v.chunks)}
  BY <1>6 DEF Balanced
<1>12. Balanced(v)
  BY <1>9, <1>10, <1>11 DEF Balanced
<1> QED BY <1>12 DEF v

LEMMA CloseSessionKeeps ==
  ASSUME ArchiveInv, CloseSession
  PROVE  ArchiveInv'
<1> DEFINE shut == Closed(db, pen.of, now)
<1>1. /\ ArchiveTypeOK /\ pen # NoPen /\ Balanced(db) /\ Kept(db) /\ now \in Nat
  BY ArchiveInvParts DEF CloseSession, Writing
<1>2. /\ pen' = NoPen /\ UNCHANGED <<now, opened, viewed, capacity, copy, happenings>>
      /\ db' = IF pen.of \in DOMAIN db.rows THEN [shut EXCEPT !.rows[pen.of].beat = now] ELSE db
  BY DEF CloseSession
<1>3. ArchiveTypeOK' /\ PenSound' /\ AheadIn(db', pen')
  BY <1>1, <1>2 DEF ArchiveTypeOK, PenSound, AheadIn
<1>4. Balanced(db')
  <2>1. CASE pen.of \in DOMAIN db.rows
    <3>1. Balanced(shut) /\ pen.of \in DOMAIN shut.rows
      BY <1>1, <2>1, ClosedIs, ClosedIsBalanced
    <3> HIDE DEF shut
    <3>2. Balanced([shut EXCEPT !.rows[pen.of].beat = now])
      BY <1>1, <3>1, BeatIsBalanced
    <3> QED BY <1>2, <2>1, <3>2
  <2>2. CASE pen.of \notin DOMAIN db.rows
    BY <1>1, <1>2, <2>2
  <2> QED BY <2>1, <2>2
<1>5. Kept(db')
  BY <1>4 DEF Balanced
<1> QED BY <1>2, <1>3, <1>4, <1>5, ArchiveInvMade, ArchiveInvParts

-----------------------------------------------------------------------------
(* Every step keeps it: the pages', the owner's and the clock's. *)

LEMMA ArriveKeeps ==
  ASSUME ArchiveInv, NEW t \in Tabs, Arrive(t)
  PROVE  ArchiveInv'
<1>1. /\ ArchiveTypeOK /\ PenSound /\ AheadIn(db, pen) /\ Kept(db) /\ Balanced(db)
  BY ArchiveInvParts
<1>2. /\ opened' = opened \cup {t} /\ (db' = Recover(db) \/ db' = db)
      /\ \/ happenings' = happenings
         \/ happenings < MaxHappenings /\ happenings' = happenings + 1
      /\ UNCHANGED <<now, viewed, capacity, pen, copy>>
  BY DEF Arrive, Happens
<1>3. ArchiveTypeOK' /\ PenSound'
  BY <1>1, <1>2, HappensTyped DEF ArchiveTypeOK, PenSound
<1>4. Exact(Recover(db)) /\ AheadIn(Recover(db), pen)
  BY <1>1, RecoveredIsExact, RecoveredIsFewer, FewerAhead
<1>5. Balanced(Recover(db)) /\ Kept(Recover(db))
  BY <1>4, ExactIsBalanced DEF Exact
<1>6. Balanced(db') /\ Kept(db') /\ AheadIn(db', pen')
  BY <1>1, <1>2, <1>4, <1>5
<1> QED BY <1>2, <1>3, <1>6, ArchiveInvMade, ArchiveInvParts

LEMMA LeaveKeeps ==
  ASSUME ArchiveInv, NEW t \in Tabs, Leave(t)
  PROVE  ArchiveInv'
<1>1. /\ ArchiveTypeOK /\ PenSound /\ AheadIn(db, pen) /\ Kept(db) /\ Balanced(db)
  BY ArchiveInvParts
<1>2. /\ happenings' = happenings + 1 /\ happenings < MaxHappenings
      /\ t \in opened /\ opened' = opened \ {t} /\ viewed' = [viewed EXCEPT ![t] = NoRow]
      /\ pen' = IF Writing /\ pen.tab = t THEN NoPen ELSE pen
      /\ UNCHANGED <<now, db, capacity, copy>>
  BY DEF Leave, Happens
<1>3. ArchiveTypeOK'
  BY <1>1, <1>2, HappensTyped DEF ArchiveTypeOK, NoRow
<1>4. PenSound' /\ AheadIn(db', pen')
  <2>1. CASE Writing /\ pen.tab = t
    BY <1>2, <2>1 DEF PenSound, AheadIn
  <2>2. CASE ~(Writing /\ pen.tab = t)
    BY <1>1, <1>2, <2>2 DEF PenSound, AheadIn, Writing
  <2> QED BY <2>1, <2>2
<1>5. Kept(db') /\ Balanced(db')
  BY <1>1, <1>2
<1> QED BY <1>2, <1>3, <1>4, <1>5, ArchiveInvMade, ArchiveInvParts

LEMMA NoteViewingKeeps ==
  ASSUME ArchiveInv, NEW t \in Tabs, NEW s \in Sessions \cup {NoRow}, NoteViewing(t, s)
  PROVE  ArchiveInv'
<1>1. /\ ArchiveTypeOK /\ PenSound /\ AheadIn(db, pen) /\ Kept(db) /\ Balanced(db)
  BY ArchiveInvParts
<1>2. /\ happenings' = happenings + 1 /\ happenings < MaxHappenings
      /\ viewed' = [viewed EXCEPT ![t] = s] /\ UNCHANGED <<now, db, opened, capacity, pen, copy>>
  BY DEF NoteViewing, Happens
<1>3. ArchiveTypeOK'
  BY <1>1, <1>2, HappensTyped DEF ArchiveTypeOK
<1>4. PenSound' /\ AheadIn(db', pen')
  BY <1>1, <1>2 DEF PenSound
<1> QED BY <1>1, <1>2, <1>3, <1>4, ArchiveInvMade, ArchiveInvParts

LEMMA SaveCapacityKeeps ==
  ASSUME ArchiveInv, NEW c \in Capacities, SaveCapacity(c)
  PROVE  ArchiveInv'
<1>1. /\ ArchiveTypeOK /\ PenSound /\ AheadIn(db, pen) /\ Kept(db) /\ Balanced(db)
  BY ArchiveInvParts
<1>2. /\ happenings' = happenings + 1 /\ happenings < MaxHappenings
      /\ UNCHANGED <<now, db, opened, viewed, pen, copy>>
  BY DEF SaveCapacity, Happens
<1>3. ArchiveTypeOK'
  BY <1>1, <1>2, HappensTyped DEF ArchiveTypeOK
<1>4. PenSound' /\ AheadIn(db', pen')
  BY <1>1, <1>2 DEF PenSound
<1> QED BY <1>1, <1>2, <1>3, <1>4, ArchiveInvMade, ArchiveInvParts

LEMMA TickKeeps ==
  ASSUME ArchiveInv, Tick
  PROVE  ArchiveInv'
<1>1. /\ ArchiveTypeOK /\ PenSound /\ AheadIn(db, pen) /\ Kept(db) /\ Balanced(db)
  BY ArchiveInvParts
<1>2. /\ now < MaxTime /\ now' = now + 1
      /\ UNCHANGED <<db, opened, viewed, capacity, pen, copy, happenings>>
  BY DEF Tick
<1>3. ArchiveTypeOK'
  BY <1>1, <1>2, ArchiveConstants DEF ArchiveTypeOK, Instants
<1>4. PenSound' /\ AheadIn(db', pen')
  BY <1>1, <1>2 DEF PenSound
<1> QED BY <1>1, <1>2, <1>3, <1>4, ArchiveInvMade, ArchiveInvParts

LEMMA EvictedIsFewer ==
  ASSUME NEW a, Exact(a), NEW s \in DOMAIN a.rows
  PROVE  Fewer(Evict(a, s), a)
  BY EvictedIsExact, ThinnedIsFewer

LEMMA DeleteSessionKeeps ==
  ASSUME ArchiveInv, NEW s \in Sessions, DeleteSession(s)
  PROVE  ArchiveInv'
<1> DEFINE a == Counted(db)
<1>1. /\ ArchiveTypeOK /\ PenSound /\ AheadIn(db, pen) /\ Balanced(db) /\ s \in DOMAIN db.rows
  BY ArchiveInvParts DEF DeleteSession
<1>2. /\ happenings' = happenings + 1 /\ happenings < MaxHappenings
      /\ db' = Evict(a, s) /\ UNCHANGED <<now, opened, viewed, capacity, pen, copy>>
  BY DEF DeleteSession, Happens
<1>3. ArchiveTypeOK' /\ PenSound'
  BY <1>1, <1>2, HappensTyped DEF ArchiveTypeOK, PenSound
<1>4. Exact(a) /\ a.rows = db.rows /\ a.chunks = db.chunks
  BY <1>1, CountedIsExact
<1> HIDE DEF a
<1>5. AheadIn(a, pen)
  BY <1>1, <1>4 DEF AheadIn
<1>6. Exact(Evict(a, s)) /\ Fewer(Evict(a, s), a)
  BY <1>1, <1>4, EvictedIsExact, EvictedIsFewer
<1>7. Balanced(db') /\ Kept(db') /\ AheadIn(db', pen')
  BY <1>2, <1>5, <1>6, FewerAhead, ExactIsBalanced DEF Exact
<1> QED BY <1>2, <1>3, <1>7, ArchiveInvMade, ArchiveInvParts

LEMMA SummedIsBalanced ==
  ASSUME NEW a, Balanced(a)
  PROVE  LET v == CompactAll(a, DOMAIN a.rows) IN
         Balanced(v) /\ Fewer(v, a) /\ (AllClosed(v) <=> AllClosed(a))
<1> DEFINE S == DOMAIN a.rows
           v == CompactAll(a, S)
<1>1. a \in Archives /\ Kept(a) /\ Owned(a)
  BY DEF Balanced, Kept
<1>2. /\ v \in Archives /\ v.chunks = a.chunks /\ v.total = a.total /\ v.raw = a.raw
      /\ DOMAIN v.rows = S
      /\ \A s \in S : SameRow(v.rows[s], a.rows[s])
      /\ \A s : Of(v.hours, s) =
           IF s \in S /\ ~Passed(a, s) THEN Of(PutHours(a.hours, Made(a, s)), s)
           ELSE Of(a.hours, s)
  BY <1>1, CompactedAll
<1> HIDE DEF v
<1>3. \A s \in S : v.rows[s].sealed = a.rows[s].sealed /\ v.rows[s].state = a.rows[s].state
  BY <1>2 DEF SameRow
<1>4. Kept(v)
  BY <1>1, <1>2, <1>3 DEF Kept
<1>5. ASSUME NEW x \in v.hours
      PROVE  x.of \in S
  <2>1. x \in Of(v.hours, x.of)
    BY DEF Of
  <2>2. CASE x.of \in S
    BY <2>2
  <2>3. CASE x.of \notin S
    <3>1. x \in Of(a.hours, x.of)
      BY <1>2, <2>1, <2>3
    <3> QED BY <1>1, <3>1 DEF Of, Owned
  <2> QED BY <2>2, <2>3
<1>6. Owned(v)
  BY <1>1, <1>2, <1>5 DEF Owned
<1>7. v.total = SealedSamples(v.chunks) /\ v.raw \in {Unknown, RawBytes(v.chunks)}
  BY <1>2 DEF Balanced
<1>8. Balanced(v)
  BY <1>4, <1>6, <1>7 DEF Balanced
<1>9. Fewer(v, a)
  BY <1>2, <1>3 DEF Fewer
<1>10. AllClosed(v) <=> AllClosed(a)
  BY <1>2, <1>3 DEF AllClosed
<1> QED BY <1>8, <1>9, <1>10 DEF v

LEMMA HourlyIsBalanced ==
  ASSUME NEW a, Balanced(a), AllClosed(a)
  PROVE  Balanced(Hourly(a)) /\ AllClosed(Hourly(a))
<1> DEFINE S == DOMAIN a.rows
           rows == [s \in S |-> [a.rows[s] EXCEPT !.sealed = 0]]
           hours == {x \in a.hours : x.hour * HourSpan >= now - Retention}
           v == Hourly(a)
<1>1. a \in Archives /\ Owned(a)
  BY DEF Balanced, Kept
<1>2. v = [rows |-> rows, chunks |-> {}, hours |-> hours, total |-> 0, raw |-> 0]
  BY DEF Hourly
<1>3. S \in SUBSET Sessions /\ \A s \in S : a.rows[s] \in RowRecords
  BY <1>1, TableTyped
<1>4. DOMAIN rows = S
  OBVIOUS
<1>5. ASSUME NEW s \in S
      PROVE  rows[s] \in RowRecords /\ rows[s].sealed = 0 /\ rows[s].state = a.rows[s].state
  BY <1>3 DEF RowRecords
<1>6. rows \in [S -> RowRecords]
  BY <1>5
<1> HIDE DEF rows
<1>7. rows \in Tables
  BY <1>3, <1>6, InTables
<1>8. hours \in SUBSET HourRecords /\ hours \subseteq a.hours
  BY <1>1 DEF Archives
<1> HIDE DEF hours
<1>9. /\ v \in Archives /\ v.rows = rows /\ v.chunks = {} /\ v.hours = hours
      /\ v.total = 0 /\ v.raw = 0
  BY <1>2, <1>7, <1>8 DEF Archives
<1> HIDE DEF v
<1>10. SealedSamples({}) = 0 /\ RawBytes({}) = 0
  BY FreshIsExact DEF Exact, Fresh
<1>11. \A s : Of(v.chunks, s) = {}
  BY <1>9 DEF Of
<1>12. Kept(v)
  <2>1. IsFiniteSet({})
    BY FS_EmptySet
  <2>2. KeysTell(v.chunks)
    BY <1>9 DEF KeysTell
  <2> QED BY <1>4, <1>5, <1>9, <1>10, <1>11, <2>1, <2>2 DEF Kept
<1>13. Owned(v)
  BY <1>1, <1>4, <1>8, <1>9 DEF Owned
<1>14. Balanced(v)
  BY <1>9, <1>10, <1>12, <1>13 DEF Balanced
<1>15. AllClosed(v)
  BY <1>4, <1>5, <1>9 DEF AllClosed
<1> QED BY <1>14, <1>15 DEF v

LEMMA CopyIs ==
  ASSUME NEW a \in Archives
  PROVE  /\ Copy(a).archive = a
         /\ Copy(a) \in [held : BOOLEAN, archive : Archives]
  BY DEF Copy

LEMMA CaptureKeeps ==
  ASSUME ArchiveInv, NEW d \in {"complete", "hourly"}, Capture(d)
  PROVE  ArchiveInv'
<1> DEFINE v == CompactAll(db, DOMAIN db.rows)
<1>1. /\ ArchiveTypeOK /\ PenSound /\ AheadIn(db, pen) /\ Balanced(db)
      /\ Balanced(copy.archive) /\ AllClosed(copy.archive)
  BY ArchiveInvParts DEF Capture
<1>2. /\ happenings' = happenings + 1 /\ happenings < MaxHappenings
      /\ db' = v /\ UNCHANGED <<now, opened, viewed, capacity, pen>>
  BY DEF Capture, Happens
<1>3. \/ copy' = copy
      \/ AllClosed(v) /\ (copy' = Copy(Hourly(v)) \/ copy' = Copy(v))
  BY DEF Capture
<1>4. Balanced(v) /\ Fewer(v, db)
  BY <1>1, SummedIsBalanced
<1> HIDE DEF v
<1>5. /\ Balanced(copy'.archive) /\ AllClosed(copy'.archive)
      /\ copy' \in [held : BOOLEAN, archive : Archives]
  <2>1. CASE copy' = copy
    BY <1>1, <2>1 DEF ArchiveTypeOK
  <2>2. CASE AllClosed(v) /\ (copy' = Copy(Hourly(v)) \/ copy' = Copy(v))
    <3>1. PICK a : copy' = Copy(a) /\ Balanced(a) /\ AllClosed(a)
      <4>1. Balanced(Hourly(v)) /\ AllClosed(Hourly(v))
        BY <1>4, <2>2, HourlyIsBalanced
      <4> QED BY <1>4, <2>2, <4>1
    <3>2. a \in Archives
      BY <3>1 DEF Balanced, Kept
    <3>3. Copy(a).archive = a /\ Copy(a) \in [held : BOOLEAN, archive : Archives]
      BY <3>2, CopyIs
    <3> QED BY <3>1, <3>3
  <2> QED BY <1>3, <2>1, <2>2
<1>6. ArchiveTypeOK' /\ PenSound'
  BY <1>1, <1>2, <1>5, HappensTyped DEF ArchiveTypeOK, PenSound
<1>7. Balanced(db') /\ Kept(db') /\ AheadIn(db', pen')
  BY <1>1, <1>2, <1>4, FewerAhead DEF Balanced
<1> QED BY <1>2, <1>5, <1>6, <1>7, ArchiveInvMade

LEMMA RestoreKeeps ==
  ASSUME ArchiveInv, Restore
  PROVE  ArchiveInv'
<1>1. /\ ArchiveTypeOK /\ PenSound /\ Balanced(copy.archive) /\ AllClosed(copy.archive)
  BY ArchiveInvParts
<1>2. /\ happenings' = happenings + 1 /\ happenings < MaxHappenings
      /\ db' = copy.archive /\ copy' = NoCopy
      /\ UNCHANGED <<now, opened, viewed, capacity, pen>>
  BY DEF Restore, Happens
<1>3. Balanced(Fresh) /\ AllClosed(Fresh) /\ Fresh \in Archives
  BY FreshIsExact, ExactIsBalanced DEF Exact, Kept
<1>4. /\ copy'.archive = Fresh /\ copy' \in [held : BOOLEAN, archive : Archives]
  BY <1>2, <1>3 DEF NoCopy
<1>5. ArchiveTypeOK' /\ PenSound'
  BY <1>1, <1>2, <1>4, HappensTyped DEF ArchiveTypeOK, PenSound
<1>6. Balanced(db') /\ Kept(db') /\ AheadIn(db', pen')
  BY <1>1, <1>2 DEF Balanced, AllClosed, AheadIn
<1> QED BY <1>3, <1>4, <1>5, <1>6, ArchiveInvMade

LEMMA ArchiveStepKeeps == ArchiveInv /\ [ArchiveNext]_archiveVars => ArchiveInv'
<1> SUFFICES ASSUME ArchiveInv, [ArchiveNext]_archiveVars PROVE ArchiveInv'
  OBVIOUS
<1>1. CASE Tick
  BY <1>1, TickKeeps
<1>2. CASE \E t \in Tabs : Arrive(t) \/ Leave(t)
  BY <1>2, ArriveKeeps, LeaveKeeps
<1>3. CASE \E t \in Tabs, s \in Sessions : OpenSession(t, s)
  BY <1>3, OpenSessionKeeps
<1>4. CASE \E t \in Tabs, s \in Sessions \cup {NoRow} : NoteViewing(t, s)
  BY <1>4, NoteViewingKeeps
<1>5. CASE \E st \in Streams : Hear(st) \/ CommitChunk(st) \/ GiveUp(st)
  BY <1>5, HearKeeps, CommitChunkKeeps, GiveUpKeeps
<1>6. CASE PruneToBudget \/ CloseSession
  BY <1>6, PruneToBudgetKeeps, CloseSessionKeeps
<1>7. CASE \E s \in Sessions : DeleteSession(s)
  BY <1>7, DeleteSessionKeeps
<1>8. CASE \E d \in {"complete", "hourly"} : Capture(d)
  BY <1>8, CaptureKeeps
<1>9. CASE Restore
  BY <1>9, RestoreKeeps
<1>10. CASE \E c \in Capacities : SaveCapacity(c)
  BY <1>10, SaveCapacityKeeps
<1>11. CASE UNCHANGED archiveVars
  <2>1. UNCHANGED <<now, db, opened, viewed, capacity, pen, copy, happenings>>
    BY <1>11 DEF archiveVars
  <2> QED BY <2>1 DEF ArchiveInv, ArchiveTypeOK, PenSound
<1> QED BY <1>1, <1>2, <1>3, <1>4, <1>5, <1>6, <1>7, <1>8, <1>9, <1>10, <1>11
        DEF ArchiveNext

\* Whatever the pages, the owner and the browser do, and whether or not a page's
\* recovery came to anything, the archive at hand is balanced, and so is every
\* copy of it; a recorder that may still write has its chunk numbers before it.
\* The archive found has no chunk without its session.
THEOREM ArchiveBalances ==
  ASSUME "littered" \notin Legacies
  PROVE  ArchiveSpec => []ArchiveInv
<1>1. ArchiveInit => ArchiveInv
  BY ArchiveStarts
<1> QED BY <1>1, ArchiveStepKeeps, PTL DEF ArchiveSpec

\* The totals the archive caches are sums over what it holds, and nothing in it
\* is without its session: TotalsAreTheRows.
THEOREM TotalsTellTheRows ==
  ASSUME "littered" \notin Legacies
  PROVE  ArchiveSpec => []TotalsAreTheRows
<1>1. ASSUME ArchiveInv
      PROVE  TotalsAreTheRows
  <2>1. Kept(db) /\ Owned(db) /\ db.total = SealedSamples(db.chunks)
        /\ db.raw \in {Unknown, RawBytes(db.chunks)}
    BY <1>1 DEF ArchiveInv, Balanced
  <2>2. Strays(db) = {} /\ db.chunks \ Strays(db) = db.chunks
    BY <2>1 DEF Owned, Strays
  <2> QED BY <2>1, <2>2 DEF Kept, Owned, TotalsAreTheRows
<1> QED BY <1>1, ArchiveBalances, PTL

-----------------------------------------------------------------------------
(* What a summary stands for.  Of one session: its row, its chunks C and   *)
(* its summaries H.                                                        *)

\* One account an hour, of rows of that hour, and of each that is still raw.
Accounted(C, H) ==
  /\ \A x, y \in H : x.hour = y.hour => x = y
  /\ \A x \in H : \A k \in x.holds : HourOf(k[2]) = x.hour
  /\ \A x \in H : \A k \in Samples(C) : HourOf(k[2]) = x.hour => k \in x.holds

\* A session that may yet be summarised again: what the raw rows stand for is
\* all its later summaries hold, since a cut takes its one sealed chunk at most.
LooseSound(row, C, H) ==
  /\ \A x \in H : x.basis # "recorded"
  /\ \A c \in C : \A t \in c.at : row.retained <= t
  /\ \A c, d \in C : c.sealed /\ c # d => \A t \in c.at, u \in d.at : t < u
  /\ \A x \in H : C # {} /\ row.retained <= x.hour * HourSpan => x.holds \subseteq Samples(C)

RowTidy(row, C, H) ==
  /\ Accounted(C, H)
  /\ row.basis = "none" => H = {}
  /\ row.state = "open" /\ row.basis # "recorded" => LooseSound(row, C, H)

Tidy(a) == \A s \in DOMAIN a.rows : RowTidy(a.rows[s], Of(a.chunks, s), Of(a.hours, s))

\* What a recorder's open session has is what the recorder was given.
PenTold(row, C, H, p) ==
  /\ \/ row.basis = "recorded"
     \/ row.basis = "none" /\ C = {} /\ \A k \in p.given : HourOf(k[2]) \in p.dirty
  /\ \A c \in C : /\ c.seq <= p.seq[c.stream]
                  /\ c.seq = p.seq[c.stream] => c.at \subseteq p.tail[c.stream]
  /\ Samples(C) \subseteq p.given
  /\ \A x \in H : /\ x.holds \subseteq p.given
                  /\ x.hour \notin p.dirty =>
                       \A k \in p.given : HourOf(k[2]) = x.hour => k \in x.holds

ToldIn(a, p) ==
  p # NoPen /\ p.of \in DOMAIN a.rows /\ a.rows[p.of].state = "open" =>
    PenTold(a.rows[p.of], Of(a.chunks, p.of), Of(a.hours, p.of), p)

TailsGiven(p) == p # NoPen => \A st \in Streams : \A t \in p.tail[st] : <<st, t>> \in p.given


LEMMA InSamples ==
  ASSUME NEW C, NEW k
  PROVE  k \in Samples(C) <=> \E c \in C : \E t \in c.at : k = <<c.stream, t>>
  BY DEF Samples

LEMMA InKnown ==
  ASSUME NEW a, NEW s, NEW k
  PROVE  k \in Known(a, s) <=> \/ k \in Samples(Of(a.chunks, s))
                               \/ \E x \in Of(a.hours, s) : k \in x.holds
  BY DEF Known

LEMMA SamplesOfFewer ==
  ASSUME NEW C, NEW D \in SUBSET C
  PROVE  Samples(D) \subseteq Samples(C)
  BY DEF Samples

LEMMA SealingKeepsSamples ==
  ASSUME NEW C \in SUBSET ChunkRecords, NEW S
  PROVE  Samples(SealOpenChunks(C, S)) = Samples(C)
<1> DEFINE f(c) == IF c.of \in S THEN [c EXCEPT !.sealed = TRUE] ELSE c
           D == SealOpenChunks(C, S)
<1>1. ASSUME NEW c \in C
      PROVE  f(c) \in D /\ f(c).stream = c.stream /\ f(c).at = c.at
  <2>1. c \in ChunkRecords
    OBVIOUS
  <2>2. f(c) \in D
    BY DEF SealOpenChunks
  <2> QED BY <2>1, <2>2 DEF ChunkRecords
<1>2. \A d \in D : \E c \in C : d = f(c)
  BY DEF SealOpenChunks
<1> HIDE DEF f, D
<1>3. ASSUME NEW k
      PROVE  k \in Samples(D) <=> k \in Samples(C)
  BY <1>1, <1>2, InSamples
<1> QED BY <1>3 DEF D

\* Of a row, three of its fields tell.
LEMMA TidyLike ==
  ASSUME NEW row, NEW C, NEW H, RowTidy(row, C, H), NEW q,
         q.state = row.state, q.basis = row.basis, q.retained = row.retained
  PROVE  RowTidy(q, C, H)
  BY DEF RowTidy, LooseSound

LEMMA TidyFewerHours ==
  ASSUME NEW row, NEW C, NEW H, RowTidy(row, C, H), NEW G \in SUBSET H
  PROVE  RowTidy(row, C, G)
<1>1. Accounted(C, G)
  BY DEF RowTidy, Accounted
<1>2. LooseSound(row, C, H) => LooseSound(row, C, G)
  BY DEF LooseSound
<1> QED BY <1>1, <1>2 DEF RowTidy

LEMMA TidyClosed ==
  ASSUME NEW row, NEW C, NEW H, RowTidy(row, C, H), NEW q, NEW D,
         q.state \in {"closed"}, q.basis = row.basis, Samples(D) = Samples(C)
  PROVE  RowTidy(q, D, H)
<1>1. Accounted(D, H)
  BY DEF RowTidy, Accounted
<1> QED BY <1>1 DEF RowTidy

\* With no raw rows, a row that is summed is one that has summaries.
LEMMA TidyEmpty ==
  ASSUME NEW row, NEW H, RowTidy(row, {}, H), NEW q, q.basis = row.basis,
         row.state = q.state
  PROVE  RowTidy(q, {}, H)
<1>1. LooseSound(row, {}, H) => LooseSound(q, {}, H)
  BY DEF LooseSound
<1> QED BY <1>1 DEF RowTidy

LEMMA MadeOnce ==
  ASSUME NEW a, NEW s, NEW x \in Made(a, s), NEW y \in Made(a, s), x.hour = y.hour
  PROVE  x = y
<1>1. PICK h : x = Summary(s, h, "reconstructed", NearHour(a, s, h))
  BY DEF Made
<1>2. PICK g : y = Summary(s, g, "reconstructed", NearHour(a, s, g))
  BY DEF Made
<1>3. x.hour = h
  BY <1>1 DEF Summary
<1>4. y.hour = g
  BY <1>2 DEF Summary
<1> QED BY <1>1, <1>2, <1>3, <1>4

\* Summaries made of what raw rows are left lose nothing the others held.
LEMMA TidySummed ==
  ASSUME NEW a \in Archives, NEW s \in DOMAIN a.rows, ~Passed(a, s),
         RowTidy(a.rows[s], Of(a.chunks, s), Of(a.hours, s)),
         NEW q, q.state = a.rows[s].state, q.retained = a.rows[s].retained,
         q.basis \in {"reconstructed"}
  PROVE  LET G == Of(PutHours(a.hours, Made(a, s)), s) IN
         /\ RowTidy(q, Of(a.chunks, s), G)
         /\ \A x \in Of(a.hours, s) : \A k \in x.holds :
              k \in Samples(Of(a.chunks, s)) \/ \E y \in G : k \in y.holds
<1> DEFINE row == a.rows[s]
           C == Of(a.chunks, s)
           H == Of(a.hours, s)
           M == Made(a, s)
           G == Of(PutHours(a.hours, M), s)
<1>1. s \in Sessions /\ row \in RowRecords
  BY TableTyped
<1>2. \A x \in M : /\ x.of = s /\ x.basis = "reconstructed" /\ Redone(a, s, x.hour)
                   /\ x.holds = {k \in Raw(a, s) : HourOf(k[2]) = x.hour}
  BY <1>1, MadeTyped
<1>3. \A x \in G : x \in M \/ (x \in H /\ \A y \in M : y.hour # x.hour)
  BY <1>2 DEF PutHours, Of
<1>4. M \subseteq G
  BY <1>2 DEF PutHours, Of
<1>5. \A x \in H : x \in G \/ \E y \in M : y.hour = x.hour
  BY <1>2 DEF PutHours, Of
<1>6. Raw(a, s) = Samples(C) /\ C # {}
  <2>1. Raw(a, s) = Samples(C) /\ Raw(a, s) # {}
    BY DEF Raw, Passed
  <2> QED BY <2>1 DEF Samples
<1>7. row.basis # "recorded" /\ (row.state = "closed" => row.basis # "reconstructed")
  BY DEF Passed
<1>8. row.state = "open" \/ H = {}
  <2>1. row.state \in {"open", "closed"} /\ row.basis \in {"none", "recorded", "reconstructed"}
    BY <1>1 DEF RowRecords
  <2> QED BY <1>7, <2>1 DEF RowTidy
<1>9. Accounted(C, H) /\ (row.state = "open" => LooseSound(row, C, H))
  BY <1>7 DEF RowTidy
<1>10. \A x, y \in M : x.hour = y.hour => x = y
  BY MadeOnce
<1> HIDE DEF M, G, H, C
<1>11. Accounted(C, G)
  <2>1. ASSUME NEW x \in G, NEW y \in G, x.hour = y.hour
        PROVE  x = y
    BY <1>3, <1>9, <1>10, <2>1 DEF Accounted
  <2>2. ASSUME NEW x \in G, NEW k \in x.holds
        PROVE  HourOf(k[2]) = x.hour
    BY <1>2, <1>3, <1>9, <2>2 DEF Accounted
  <2>3. ASSUME NEW x \in G, NEW k \in Samples(C), HourOf(k[2]) = x.hour
        PROVE  k \in x.holds
    BY <1>2, <1>3, <1>6, <1>9, <2>3 DEF Accounted
  <2> QED BY <2>1, <2>2, <2>3 DEF Accounted
<1>12. ASSUME row.state = "open"
       PROVE  LooseSound(q, C, G)
  <2>1. LooseSound(row, C, H) /\ q.retained = row.retained
    BY <1>9, <1>12
  <2>2. ASSUME NEW x \in G
        PROVE  x.basis # "recorded"
    BY <1>2, <1>3, <2>1 DEF LooseSound
  <2>3. ASSUME NEW x \in G, row.retained <= x.hour * HourSpan
        PROVE  x.holds \subseteq Samples(C)
    BY <1>2, <1>3, <1>6, <2>1, <2>3 DEF LooseSound
  <2> QED BY <2>1, <2>2, <2>3 DEF LooseSound
<1>13. RowTidy(q, C, G)
  BY <1>11, <1>12 DEF RowTidy
<1>14. ASSUME NEW x \in H, NEW k \in x.holds
       PROVE  k \in Samples(C) \/ \E y \in G : k \in y.holds
  <2>1. CASE x \in G
    BY <1>14, <2>1
  <2>2. CASE x \notin G
    <3>1. PICK y \in M : y.hour = x.hour
      BY <1>5, <2>2
    <3>2. Redone(a, s, y.hour)
      BY <1>2
    <3>3. y.hour * HourSpan >= row.retained
      BY <3>1, <3>2 DEF Redone, H
    <3>4. x.hour \in Nat /\ row.retained \in Nat
      <4>1. x \in HourRecords
        BY DEF H, Of, Archives
      <4> QED BY <1>1, <4>1 DEF HourRecords, RowRecords
    <3>5. row.retained <= x.hour * HourSpan
      BY <3>1, <3>3, <3>4, ArchiveConstants
    <3>6. LooseSound(row, C, H)
      BY <1>8, <1>9
    <3>7. x.holds \subseteq Samples(C)
      BY <1>6, <3>5, <3>6 DEF LooseSound
    <3> QED BY <1>14, <3>7
  <2> QED BY <2>1, <2>2
<1> QED BY <1>13, <1>14 DEF C, G, H, M

\* A cut takes sealed chunks with a summary for each row.
LEMMA TidyCut ==
  ASSUME NEW row \in RowRecords, NEW C \in SUBSET ChunkRecords, NEW H \in SUBSET HourRecords,
         RowTidy(row, C, H), NEW D \in SUBSET C,
         \A c \in C \ D : /\ c.sealed
                          /\ \A t \in c.at : \E x \in H : x.hour = HourOf(t),
         NEW q, q.state = row.state, q.basis = row.basis, q.retained \in Nat,
         D # {} => /\ \E d \in D : q.retained \in d.at
                   /\ \A d \in D : \A t \in d.at : q.retained <= t
  PROVE  /\ RowTidy(q, D, H)
         /\ \A k \in Samples(C) : k \in Samples(D) \/ \E x \in H : k \in x.holds
<1>1. Samples(D) \subseteq Samples(C)
  BY SamplesOfFewer
<1>2. Accounted(D, H)
  BY <1>1 DEF RowTidy, Accounted
<1>3. \A c \in C : c.at \in SUBSET Nat
  <2>1. Instants \subseteq Nat
    BY DEF Instants
  <2> QED BY <2>1 DEF ChunkRecords
<1>4. ASSUME LooseSound(row, C, H)
      PROVE  LooseSound(q, D, H)
  <2>1. \A x \in H : x.basis # "recorded"
    BY <1>4 DEF LooseSound
  <2>2. \A d \in D : \A t \in d.at : q.retained <= t
    OBVIOUS
  <2>3. \A c, d \in D : c.sealed /\ c # d => \A t \in c.at, u \in d.at : t < u
    BY <1>4 DEF LooseSound
  <2>4. ASSUME NEW x \in H, D # {}, q.retained <= x.hour * HourSpan, NEW k \in x.holds
        PROVE  k \in Samples(D)
    <3>1. PICK d \in D : q.retained \in d.at
      BY <2>4
    <3>2. row.retained <= q.retained
      BY <1>4, <3>1 DEF LooseSound
    <3>3. x.hour * HourSpan \in Nat /\ row.retained \in Nat
      <4>1. x.hour \in Nat
        BY DEF HourRecords
      <4>2. row.retained \in Nat
        BY DEF RowRecords
      <4> QED BY <4>1, <4>2, ArchiveConstants
    <3>4. row.retained <= x.hour * HourSpan
      BY <2>4, <3>2, <3>3
    <3>5. k \in Samples(C)
      BY <1>4, <2>4, <3>4 DEF LooseSound
    <3>6. PICK c \in C : \E t \in c.at : k = <<c.stream, t>>
      BY <3>5, InSamples
    <3>7. PICK t \in c.at : k = <<c.stream, t>>
      BY <3>6
    <3>8. t \in Nat /\ k[2] = t
      BY <1>3, <3>7
    <3>9. x.hour = HourOf(t)
      BY <2>4, <3>8 DEF RowTidy, Accounted
    <3>10. x.hour * HourSpan <= t
      BY <3>8, <3>9, HourFacts
    <3>11. CASE c \in D
      BY <3>7, <3>11, InSamples
    <3>12. CASE c \notin D
      <4>1. c.sealed /\ c # d /\ d \in C
        BY <3>1, <3>12
      <4>2. t < q.retained
        BY <1>4, <3>1, <3>7, <4>1 DEF LooseSound
      <4> QED BY <2>4, <3>3, <3>8, <3>10, <4>2
    <3> QED BY <3>11, <3>12
  <2> QED BY <2>1, <2>2, <2>3, <2>4 DEF LooseSound
<1>5. RowTidy(q, D, H)
  BY <1>2, <1>4 DEF RowTidy
<1>6. ASSUME NEW k \in Samples(C), k \notin Samples(D)
      PROVE  \E x \in H : k \in x.holds
  <2>1. PICK c \in C : \E t \in c.at : k = <<c.stream, t>>
    BY InSamples
  <2>2. PICK t \in c.at : k = <<c.stream, t>>
    BY <2>1
  <2>3. c \notin D
    BY <1>6, <2>2, InSamples
  <2>4. PICK x \in H : x.hour = HourOf(t)
    BY <2>2, <2>3
  <2>5. k[2] = t
    BY <2>2
  <2>6. k \in x.holds
    BY <2>4, <2>5 DEF RowTidy, Accounted
  <2> QED BY <2>6
<1> QED BY <1>5, <1>6

-----------------------------------------------------------------------------
(* What becomes of an archive's samples, from one archive to another. *)

\* Nothing known of a session that stands is lost.
Keeps(v, a) == \A s \in DOMAIN v.rows : s \in DOMAIN a.rows /\ Known(a, s) \subseteq Known(v, s)

\* What is lost of a session that stands is of hours it has no account of.
LosesHours(v, a) ==
  \A s \in DOMAIN v.rows :
    /\ s \in DOMAIN a.rows
    /\ \A k \in Known(a, s) \ Known(v, s) : HourOf(k[2]) \notin {x.hour : x \in Of(v.hours, s)}

\* An open session has no more than it had; one its recorder sums, or with no
\* raw rows to sum, is not summed by others.
Leaner(v, a) ==
  \A s \in DOMAIN v.rows : v.rows[s].state = "open" =>
    /\ s \in DOMAIN a.rows /\ a.rows[s].state = "open"
    /\ Of(v.chunks, s) \subseteq Of(a.chunks, s)
    /\ a.rows[s].basis = "recorded" \/ Of(a.chunks, s) = {} =>
         v.rows[s].basis = a.rows[s].basis /\ Of(v.hours, s) \subseteq Of(a.hours, s)

LEMMA LeanerTwice ==
  ASSUME NEW a, NEW v, NEW c, Leaner(v, a), Leaner(c, v)
  PROVE  Leaner(c, a)
<1> SUFFICES ASSUME NEW s \in DOMAIN c.rows, c.rows[s].state = "open"
             PROVE  /\ s \in DOMAIN a.rows /\ a.rows[s].state = "open"
                    /\ Of(c.chunks, s) \subseteq Of(a.chunks, s)
                    /\ a.rows[s].basis = "recorded" \/ Of(a.chunks, s) = {} =>
                         c.rows[s].basis = a.rows[s].basis /\ Of(c.hours, s) \subseteq Of(a.hours, s)
  BY DEF Leaner
<1>1. /\ s \in DOMAIN v.rows /\ v.rows[s].state = "open"
      /\ Of(c.chunks, s) \subseteq Of(v.chunks, s)
      /\ v.rows[s].basis = "recorded" \/ Of(v.chunks, s) = {} =>
           c.rows[s].basis = v.rows[s].basis /\ Of(c.hours, s) \subseteq Of(v.hours, s)
  BY DEF Leaner
<1>2. /\ s \in DOMAIN a.rows /\ a.rows[s].state = "open"
      /\ Of(v.chunks, s) \subseteq Of(a.chunks, s)
      /\ a.rows[s].basis = "recorded" \/ Of(a.chunks, s) = {} =>
           v.rows[s].basis = a.rows[s].basis /\ Of(v.hours, s) \subseteq Of(a.hours, s)
  BY <1>1 DEF Leaner
<1> QED BY <1>1, <1>2

LEMMA LeanerTold ==
  ASSUME NEW a, NEW v, NEW p, Leaner(v, a), ToldIn(a, p)
  PROVE  ToldIn(v, p)
<1> SUFFICES ASSUME p # NoPen, p.of \in DOMAIN v.rows, v.rows[p.of].state = "open"
             PROVE  PenTold(v.rows[p.of], Of(v.chunks, p.of), Of(v.hours, p.of), p)
  BY DEF ToldIn
<1> DEFINE s == p.of
           C == Of(a.chunks, s)
           D == Of(v.chunks, s)
           H == Of(a.hours, s)
           G == Of(v.hours, s)
<1>1. /\ s \in DOMAIN a.rows /\ a.rows[s].state = "open" /\ D \subseteq C
      /\ a.rows[s].basis = "recorded" \/ C = {} =>
           v.rows[s].basis = a.rows[s].basis /\ G \subseteq H
  BY DEF Leaner
<1>2. PenTold(a.rows[s], C, H, p)
  BY <1>1 DEF ToldIn
<1> HIDE DEF C, D, G, H
<1>3. v.rows[s].basis = a.rows[s].basis /\ G \subseteq H
  BY <1>1, <1>2 DEF PenTold
<1>4. Samples(D) \subseteq Samples(C)
  BY <1>1, SamplesOfFewer
<1>5. PenTold(v.rows[s], D, G, p)
  BY <1>1, <1>2, <1>3, <1>4 DEF PenTold
<1> QED BY <1>5 DEF C, D, G, H

LEMMA KeepsThenLosesHours ==
  ASSUME NEW a, NEW v, NEW c, Keeps(v, a), LosesHours(c, v)
  PROVE  LosesHours(c, a)
  BY DEF Keeps, LosesHours

LEMMA KeepsTwice ==
  ASSUME NEW a, NEW v, NEW c, Keeps(v, a), Keeps(c, v)
  PROVE  Keeps(c, a)
  BY DEF Keeps

LEMMA KeepsLosesNone ==
  ASSUME NEW a, NEW v, Keeps(v, a)
  PROVE  LosesHours(v, a)
  BY DEF Keeps, LosesHours

LEMMA SameIsKnown ==
  ASSUME NEW a, NEW v, NEW s, SameSession(v, a, s)
  PROVE  Known(v, s) = Known(a, s)
  BY DEF SameSession, Known

LEMMA ThinnedIsTidy ==
  ASSUME NEW a, NEW v, Thinned(v, a), Tidy(a)
  PROVE  Tidy(v) /\ Keeps(v, a) /\ Leaner(v, a)
<1>1. ASSUME NEW s \in DOMAIN v.rows
      PROVE  /\ s \in DOMAIN a.rows /\ v.rows[s] = a.rows[s] /\ Known(v, s) = Known(a, s)
             /\ Of(v.chunks, s) = Of(a.chunks, s) /\ Of(v.hours, s) = Of(a.hours, s)
  <2>1. SameSession(v, a, s)
    BY DEF Thinned
  <2> QED BY <2>1, SameIsKnown DEF SameSession
<1>2. Tidy(v)
  BY <1>1 DEF Tidy
<1>3. Keeps(v, a)
  BY <1>1 DEF Keeps
<1>4. Leaner(v, a)
  BY <1>1 DEF Leaner
<1> QED BY <1>2, <1>3, <1>4

\* A session's samples are known still if its raw rows are, or a summary has them.
LEMMA KnownStill ==
  ASSUME NEW a, NEW v, NEW s,
         \A k \in Samples(Of(a.chunks, s)) :
           k \in Samples(Of(v.chunks, s)) \/ \E x \in Of(v.hours, s) : k \in x.holds,
         \A x \in Of(a.hours, s) : \A k \in x.holds :
           k \in Samples(Of(v.chunks, s)) \/ \E y \in Of(v.hours, s) : k \in y.holds
  PROVE  Known(a, s) \subseteq Known(v, s)
<1>1. ASSUME NEW k \in Known(a, s)
      PROVE  k \in Known(v, s)
  <2>1. k \in Samples(Of(a.chunks, s)) \/ \E x \in Of(a.hours, s) : k \in x.holds
    BY InKnown
  <2> QED BY <2>1, InKnown
<1> QED BY <1>1

LEMMA CompactedIsTidy ==
  ASSUME NEW a \in Archives, NEW S \in SUBSET DOMAIN a.rows, Tidy(a)
  PROVE  LET v == CompactAll(a, S) IN Tidy(v) /\ Keeps(v, a) /\ Leaner(v, a)
<1> DEFINE v == CompactAll(a, S)
<1>1. /\ v.chunks = a.chunks /\ DOMAIN v.rows = DOMAIN a.rows
      /\ \A s \in DOMAIN a.rows : SameRow(v.rows[s], a.rows[s])
      /\ \A s \in DOMAIN a.rows :
           v.rows[s].basis = IF s \in S /\ ~Passed(a, s) THEN "reconstructed"
                             ELSE a.rows[s].basis
      /\ \A s : Of(v.hours, s) =
           IF s \in S /\ ~Passed(a, s) THEN Of(PutHours(a.hours, Made(a, s)), s)
           ELSE Of(a.hours, s)
  BY CompactedAll
<1> HIDE DEF v
<1>2. ASSUME NEW s \in DOMAIN a.rows
      PROVE  /\ RowTidy(v.rows[s], Of(v.chunks, s), Of(v.hours, s))
             /\ Known(a, s) \subseteq Known(v, s)
             /\ a.rows[s].basis = "recorded" \/ Of(a.chunks, s) = {} =>
                  v.rows[s].basis = a.rows[s].basis /\ Of(v.hours, s) \subseteq Of(a.hours, s)
  <2>1. RowTidy(a.rows[s], Of(a.chunks, s), Of(a.hours, s))
    BY DEF Tidy
  <2>2. v.rows[s].state = a.rows[s].state /\ v.rows[s].retained = a.rows[s].retained
    BY <1>1 DEF SameRow
  <2>3. CASE s \in S /\ ~Passed(a, s)
    <3>1. /\ v.rows[s].basis \in {"reconstructed"}
          /\ Of(v.hours, s) = Of(PutHours(a.hours, Made(a, s)), s)
      BY <1>1, <2>3
    <3>2. /\ RowTidy(v.rows[s], Of(a.chunks, s), Of(PutHours(a.hours, Made(a, s)), s))
          /\ \A x \in Of(a.hours, s) : \A k \in x.holds :
               \/ k \in Samples(Of(a.chunks, s))
               \/ \E y \in Of(PutHours(a.hours, Made(a, s)), s) : k \in y.holds
      BY <2>1, <2>2, <2>3, <3>1, TidySummed
    <3>3. Known(a, s) \subseteq Known(v, s)
      BY <1>1, <3>1, <3>2, KnownStill
    <3>4. a.rows[s].basis # "recorded" /\ Of(a.chunks, s) # {}
      BY <2>3 DEF Passed, Raw, Samples
    <3> QED BY <1>1, <3>1, <3>2, <3>3, <3>4
  <2>4. CASE ~(s \in S /\ ~Passed(a, s))
    <3>1. Of(v.hours, s) = Of(a.hours, s) /\ v.rows[s].basis = a.rows[s].basis
      BY <1>1, <2>4
    <3>2. RowTidy(v.rows[s], Of(a.chunks, s), Of(a.hours, s))
      BY <2>1, <2>2, <3>1, TidyLike
    <3>3. Known(a, s) = Known(v, s)
      BY <1>1, <3>1 DEF Known
    <3> QED BY <1>1, <3>1, <3>2, <3>3
  <2> QED BY <2>3, <2>4
<1>3. Tidy(v)
  BY <1>1, <1>2 DEF Tidy
<1>4. Keeps(v, a)
  BY <1>1, <1>2 DEF Keeps
<1>5. \A s \in DOMAIN a.rows : v.rows[s].state = a.rows[s].state
  BY <1>1 DEF SameRow
<1>6. Leaner(v, a)
  BY <1>1, <1>2, <1>5 DEF Leaner
<1> QED BY <1>3, <1>4, <1>6 DEF v

\* The chunks dropped are of sessions cut, and summed first.
LEMMA CutIsTidy ==
  ASSUME NEW a, Exact(a), Tidy(a), NEW cut, NEW v, Exact(v), RawCut(v, a, cut)
  PROVE  Tidy(v) /\ Keeps(v, a) /\ Leaner(v, a)
<1> DEFINE m == CompactAll(a, cut)
<1>1. /\ a \in Archives /\ a.chunks \in SUBSET ChunkRecords /\ v \in Archives
      /\ v.chunks \in SUBSET ChunkRecords /\ v.chunks \in SUBSET a.chunks
  BY DEF Exact, Kept, Archives, RawCut
<1>2. cut \in SUBSET DOMAIN a.rows
  BY DEF RawCut
<1>3. /\ m \in Archives /\ m.chunks = a.chunks /\ DOMAIN m.rows = DOMAIN a.rows
      /\ \A s \in DOMAIN a.rows : SameRow(m.rows[s], a.rows[s])
  BY <1>1, <1>2, CompactedAll
<1>4. Tidy(m) /\ Keeps(m, a) /\ Leaner(m, a)
  BY <1>1, <1>2, CompactedIsTidy
<1>5. v.hours = m.hours /\ DOMAIN v.rows = DOMAIN a.rows
  BY DEF RawCut
<1>6. \A s \in DOMAIN a.rows :
        /\ v.rows[s].state = a.rows[s].state /\ v.rows[s].basis = m.rows[s].basis
        /\ v.rows[s].retained =
             IF s \notin cut THEN a.rows[s].retained
             ELSE IF Of(v.chunks, s) = {} THEN a.rows[s].ended
             ELSE Min({Min(c.at) : c \in Of(v.chunks, s)})
  BY DEF RawCut
<1>7. \A c \in a.chunks \ v.chunks : c.sealed /\ c.of \in cut /\ HasSummary(v.hours, c)
  BY DEF RawCut
<1> HIDE DEF m
<1>8. ASSUME NEW s \in DOMAIN a.rows
      PROVE  /\ RowTidy(v.rows[s], Of(v.chunks, s), Of(v.hours, s))
             /\ \A k \in Samples(Of(m.chunks, s)) :
                  k \in Samples(Of(v.chunks, s)) \/ \E x \in Of(v.hours, s) : k \in x.holds
  <2> DEFINE C == Of(a.chunks, s)
             D == Of(v.chunks, s)
             H == Of(v.hours, s)
             q == v.rows[s]
             row == m.rows[s]
  <2>1. RowTidy(row, C, H)
    BY <1>3, <1>4, <1>5 DEF Tidy
  <2>2. /\ C \in SUBSET ChunkRecords /\ D \in SUBSET C /\ D \in SUBSET ChunkRecords
        /\ H \in SUBSET HourRecords
    BY <1>1 DEF Of, Archives
  <2>3. q.state = row.state /\ q.basis = row.basis
    BY <1>3, <1>6 DEF SameRow
  <2>4. row \in RowRecords /\ a.rows[s] \in RowRecords
    BY <1>1, <1>3, TableTyped
  <2>5. CASE s \in cut
    <3>1. \A c \in C \ D : c.sealed /\ HasSummary(v.hours, c) /\ c.of = s
      BY <1>7 DEF Of
    <3>2. \A c \in C \ D : /\ c.sealed
                           /\ \A t \in c.at : \E x \in H : x.hour = HourOf(t)
      BY <3>1 DEF HasSummary
    <3>3. /\ q.retained \in Nat
          /\ D # {} => /\ \E d \in D : q.retained \in d.at
                       /\ \A d \in D : \A t \in d.at : q.retained <= t
      <4>1. CASE D = {}
        <5>1. q.retained = a.rows[s].ended
          BY <1>6, <2>5, <4>1
        <5> QED BY <2>4, <4>1, <5>1 DEF RowRecords
      <4>2. CASE D # {}
        <5>1. q.retained = Min({Min(c.at) : c \in D})
          BY <1>6, <2>5, <4>2
        <5> HIDE DEF D, q
        <5>2. /\ Min({Min(c.at) : c \in D}) \in Nat
              /\ \E d \in D : Min({Min(c.at) : c \in D}) \in d.at
              /\ \A d \in D : \A t \in d.at : Min({Min(c.at) : c \in D}) <= t
          BY <2>2, <4>2, FirstOf
        <5> QED BY <5>1, <5>2
      <4> QED BY <4>1, <4>2
    <3> HIDE DEF C, D, H, q, row
    <3>4. /\ RowTidy(q, D, H)
          /\ \A k \in Samples(C) : k \in Samples(D) \/ \E x \in H : k \in x.holds
      BY <2>1, <2>2, <2>3, <2>4, <3>2, <3>3, TidyCut
    <3> QED BY <1>3, <3>4 DEF C, D, H, q, row
  <2>6. CASE s \notin cut
    <3>1. C = D
      BY <1>1, <1>7, <2>6 DEF Of
    <3>2. q.retained = row.retained
      BY <1>3, <1>6, <2>6 DEF SameRow
    <3>3. RowTidy(q, D, H)
      BY <2>1, <2>3, <3>1, <3>2, TidyLike
    <3> QED BY <1>3, <3>1, <3>3
  <2> QED BY <2>5, <2>6
<1>9. Tidy(v)
  BY <1>5, <1>8 DEF Tidy
<1>10. Keeps(v, m)
  <2>1. ASSUME NEW s \in DOMAIN a.rows
        PROVE  Known(m, s) \subseteq Known(v, s)
    <3>1. \A x \in Of(m.hours, s) : \A k \in x.holds :
            k \in Samples(Of(v.chunks, s)) \/ \E y \in Of(v.hours, s) : k \in y.holds
      BY <1>5
    <3> QED BY <1>8, <3>1, KnownStill
  <2> QED BY <1>3, <1>5, <2>1 DEF Keeps
<1>11. Leaner(v, m)
  <2>1. ASSUME NEW s \in DOMAIN a.rows
        PROVE  Of(v.chunks, s) \subseteq Of(m.chunks, s)
    BY <1>1, <1>3 DEF Of
  <2>2. \A s \in DOMAIN a.rows : m.rows[s].state = a.rows[s].state
    BY <1>3 DEF SameRow
  <2> QED BY <1>3, <1>5, <1>6, <2>1, <2>2 DEF Leaner
<1> QED BY <1>4, <1>9, <1>10, <1>11, KeepsTwice, LeanerTwice

LEMMA HoursDroppedIsTidy ==
  ASSUME NEW a, Exact(a), Tidy(a)
  PROVE  LET v == DropHours(a) IN Tidy(v) /\ LosesHours(v, a) /\ Leaner(v, a)
<1> DEFINE v == DropHours(a)
<1>1. v.rows = a.rows /\ v.chunks = a.chunks /\ v.hours \subseteq a.hours
  BY HoursDropped
<1> HIDE DEF v
<1>2. \A s : Of(v.hours, s) \in SUBSET Of(a.hours, s)
  BY <1>1 DEF Of
<1>3. ASSUME NEW s \in DOMAIN v.rows
      PROVE  RowTidy(v.rows[s], Of(v.chunks, s), Of(v.hours, s))
  <2>1. RowTidy(a.rows[s], Of(a.chunks, s), Of(a.hours, s))
    BY <1>1 DEF Tidy
  <2>2. RowTidy(a.rows[s], Of(a.chunks, s), Of(v.hours, s))
    BY <1>2, <2>1, TidyFewerHours
  <2> QED BY <1>1, <2>2
<1>4. ASSUME NEW s \in DOMAIN v.rows, NEW k \in Known(a, s), k \notin Known(v, s),
             NEW y \in Of(v.hours, s), HourOf(k[2]) = y.hour
      PROVE  FALSE
  <2>1. k \notin Samples(Of(a.chunks, s))
    BY <1>1, <1>4, InKnown
  <2>2. PICK x \in Of(a.hours, s) : k \in x.holds
    BY <1>4, <2>1, InKnown
  <2>3. Accounted(Of(a.chunks, s), Of(a.hours, s))
    BY <1>1 DEF Tidy, RowTidy
  <2>4. HourOf(k[2]) = x.hour
    BY <2>2, <2>3 DEF Accounted
  <2>5. y \in Of(a.hours, s)
    BY <1>2
  <2>6. x = y
    BY <1>4, <2>3, <2>4, <2>5 DEF Accounted
  <2> QED BY <1>4, <2>2, <2>6, InKnown
<1>5. LosesHours(v, a)
  BY <1>1, <1>4 DEF LosesHours
<1>6. Leaner(v, a)
  BY <1>1, <1>2 DEF Leaner
<1>7. Tidy(v)
  BY <1>3 DEF Tidy
<1> QED BY <1>5, <1>6, <1>7 DEF v

LEMMA ThinnedLosesHours ==
  ASSUME NEW a, NEW v, NEW c, LosesHours(v, a), Thinned(c, v)
  PROVE  LosesHours(c, a)
<1>1. ASSUME NEW s \in DOMAIN c.rows
      PROVE  /\ s \in DOMAIN v.rows /\ Known(c, s) = Known(v, s)
             /\ Of(c.hours, s) = Of(v.hours, s)
  <2>1. SameSession(c, v, s)
    BY DEF Thinned
  <2> QED BY <2>1, SameIsKnown DEF SameSession
<1> QED BY <1>1 DEF LosesHours

\* Making room loses samples by the hour only.
LEMMA PrunedIsTidy ==
  ASSUME NEW a, Exact(a), Tidy(a), NEW seen
  PROVE  LET v == Prune(a, seen) IN Tidy(v) /\ LosesHours(v, a) /\ Leaner(v, a)
<1> DEFINE c == DropRaw(a, capacity)
           d == DropHours(c)
           v == DropSessions(d, seen)
<1>1. Exact(c) /\ \E cut : RawCut(c, a, cut)
  BY RawDropped
<1> HIDE DEF c
<1>2. Tidy(c) /\ Keeps(c, a) /\ Leaner(c, a)
  BY <1>1, CutIsTidy
<1>3. Exact(d)
  BY <1>1, HoursDropped
<1>4. Tidy(d) /\ LosesHours(d, c) /\ Leaner(d, c)
  BY <1>1, <1>2, HoursDroppedIsTidy
<1> HIDE DEF d
<1>5. Thinned(v, d)
  BY <1>3, SessionsDropped
<1>6. Tidy(v) /\ Leaner(v, d)
  BY <1>4, <1>5, ThinnedIsTidy
<1> HIDE DEF v
<1>7. LosesHours(v, a)
  BY <1>2, <1>4, <1>5, KeepsThenLosesHours, ThinnedLosesHours
<1>8. Leaner(v, a)
  BY <1>2, <1>4, <1>6, LeanerTwice
<1> QED BY <1>6, <1>7, <1>8 DEF v, d, c, Prune

LEMMA ClosedIsTidy ==
  ASSUME NEW a, Kept(a), Tidy(a), NEW s \in DOMAIN a.rows, NEW at \in Nat
  PROVE  LET v == Closed(a, s, at) IN Tidy(v) /\ Keeps(v, a)
<1> DEFINE v == Closed(a, s, at)
<1>1. /\ v.chunks = SealOpenChunks(a.chunks, {s}) /\ v.hours = a.hours
      /\ DOMAIN v.rows = DOMAIN a.rows
      /\ \A r \in DOMAIN a.rows : r # s => v.rows[r] = a.rows[r]
      /\ v.rows[s].state \in {"closed"} /\ v.rows[s].basis = a.rows[s].basis
  BY ClosedIs
<1>2. a.chunks \in SUBSET ChunkRecords /\ IsFiniteSet(a.chunks) /\ KeysTell(a.chunks)
  BY DEF Kept, Archives
<1> HIDE DEF v
<1>3. ASSUME NEW r \in DOMAIN a.rows
      PROVE  /\ RowTidy(v.rows[r], Of(v.chunks, r), Of(v.hours, r))
             /\ Known(a, r) = Known(v, r)
  <2>1. RowTidy(a.rows[r], Of(a.chunks, r), Of(a.hours, r)) /\ Of(v.hours, r) = Of(a.hours, r)
    BY <1>1 DEF Tidy
  <2>2. Of(v.chunks, r) = SealOpenChunks(Of(a.chunks, r), {s})
    BY <1>1, <1>2, SealedAll
  <2>3. Of(a.chunks, r) \in SUBSET ChunkRecords
    BY <1>2 DEF Of
  <2>4. Samples(Of(v.chunks, r)) = Samples(Of(a.chunks, r))
    BY <2>2, <2>3, SealingKeepsSamples
  <2>5. Known(a, r) = Known(v, r)
    BY <2>1, <2>4 DEF Known
  <2>6. CASE r = s
    BY <1>1, <2>1, <2>4, <2>5, <2>6, TidyClosed
  <2>7. CASE r # s
    <3>1. Of(v.chunks, r) = Of(a.chunks, r)
      BY <1>1, <1>2, <2>7, SealedAll
    <3> QED BY <1>1, <2>1, <2>5, <2>7, <3>1
  <2> QED BY <2>6, <2>7
<1>4. Tidy(v)
  BY <1>1, <1>3 DEF Tidy
<1>5. Keeps(v, a)
  BY <1>1, <1>3 DEF Keeps
<1> QED BY <1>4, <1>5 DEF v

LEMMA SweptIsTidy ==
  ASSUME NEW a, Kept(a), Tidy(a)
  PROVE  LET v == Swept(a) IN Tidy(v) /\ Keeps(v, a) /\ Leaner(v, a)
<1> DEFINE v == Swept(a)
<1>1. /\ DOMAIN v.rows \subseteq DOMAIN a.rows
      /\ \A s \in DOMAIN v.rows :
           /\ Of(v.chunks, s) = SealOpenChunks(Of(a.chunks, s), Abandoned(a))
           /\ Of(v.hours, s) = Of(a.hours, s)
           /\ v.rows[s].basis = a.rows[s].basis
           /\ \/ v.rows[s] = a.rows[s] /\ s \notin Abandoned(a)
              \/ v.rows[s].state = "closed"
  BY SweptIs
<1>2. a.chunks \in SUBSET ChunkRecords
  BY DEF Kept, Archives
<1> HIDE DEF v
<1>3. ASSUME NEW s \in DOMAIN v.rows
      PROVE  /\ RowTidy(v.rows[s], Of(v.chunks, s), Of(v.hours, s))
             /\ Known(a, s) = Known(v, s)
             /\ \/ v.rows[s] = a.rows[s] /\ Of(v.chunks, s) = Of(a.chunks, s)
                \/ v.rows[s].state = "closed"
  <2>1. RowTidy(a.rows[s], Of(a.chunks, s), Of(a.hours, s)) /\ Of(v.hours, s) = Of(a.hours, s)
    BY <1>1 DEF Tidy
  <2>2. Of(a.chunks, s) \in SUBSET ChunkRecords
    BY <1>2 DEF Of
  <2>3. Samples(Of(v.chunks, s)) = Samples(Of(a.chunks, s))
    BY <1>1, <2>2, SealingKeepsSamples
  <2>4. Known(a, s) = Known(v, s)
    BY <2>1, <2>3 DEF Known
  <2>5. CASE v.rows[s] = a.rows[s] /\ s \notin Abandoned(a)
    <3>1. SealOpenChunks(Of(a.chunks, s), Abandoned(a)) = Of(a.chunks, s)
      BY <2>5 DEF SealOpenChunks, Of
    <3> QED BY <1>1, <2>1, <2>4, <2>5, <3>1
  <2>6. CASE v.rows[s].state = "closed"
    <3>1. v.rows[s].state \in {"closed"} /\ v.rows[s].basis = a.rows[s].basis
      BY <1>1, <2>6
    <3>2. RowTidy(v.rows[s], Of(v.chunks, s), Of(a.hours, s))
      BY <2>1, <2>3, <3>1, TidyClosed
    <3> QED BY <2>1, <2>4, <2>6, <3>2
  <2> QED BY <1>1, <2>5, <2>6
<1>4. Tidy(v)
  BY <1>3 DEF Tidy
<1>5. Keeps(v, a)
  BY <1>1, <1>3 DEF Keeps
<1>6. Leaner(v, a)
  BY <1>1, <1>3 DEF Leaner
<1> QED BY <1>4, <1>5, <1>6 DEF v

LEMMA RecoveredIsTidy ==
  ASSUME NEW a, Kept(a), Tidy(a)
  PROVE  LET v == Recover(a) IN Tidy(v) /\ LosesHours(v, a) /\ Leaner(v, a)
<1> DEFINE m == Swept(a)
           v == Prune(m, NoRow)
<1>1. Exact(m)
  BY SweptIs
<1>2. Tidy(m) /\ Keeps(m, a) /\ Leaner(m, a)
  BY SweptIsTidy
<1> HIDE DEF m
<1>3. Tidy(v) /\ LosesHours(v, m) /\ Leaner(v, m)
  BY <1>1, <1>2, PrunedIsTidy
<1> HIDE DEF v
<1>4. LosesHours(v, a) /\ Leaner(v, a)
  BY <1>2, <1>3, KeepsThenLosesHours, LeanerTwice
<1> QED BY <1>3, <1>4, RecoverIsSwept DEF v, m

LEMMA EvictedIsTidy ==
  ASSUME NEW a, Exact(a), Tidy(a), NEW s \in DOMAIN a.rows
  PROVE  LET v == Evict(a, s) IN Tidy(v) /\ Keeps(v, a) /\ Leaner(v, a)
<1>1. Thinned(Evict(a, s), a)
  BY EvictedIsExact
<1> QED BY <1>1, ThinnedIsTidy

LEMMA AlikeIsTidy ==
  ASSUME NEW a, NEW v, Tidy(a), v.rows = a.rows, v.chunks = a.chunks, v.hours = a.hours
  PROVE  Tidy(v) /\ Keeps(v, a) /\ Keeps(a, v) /\ Leaner(v, a)
<1>1. \A s : Known(v, s) = Known(a, s)
  BY DEF Known
<1>2. Tidy(v)
  BY DEF Tidy
<1>3. Keeps(v, a) /\ Keeps(a, v)
  BY <1>1 DEF Keeps
<1>4. Leaner(v, a)
  BY DEF Leaner
<1> QED BY <1>2, <1>3, <1>4

LEMMA HourlyIsTidy ==
  ASSUME NEW a, Balanced(a), AllClosed(a), Tidy(a)
  PROVE  Tidy(Hourly(a))
<1> DEFINE v == Hourly(a)
           hours == {x \in a.hours : x.hour * HourSpan >= now - Retention}
<1>1. /\ v.rows = [s \in DOMAIN a.rows |-> [a.rows[s] EXCEPT !.sealed = 0]]
      /\ v.chunks = {} /\ v.hours = hours
  BY DEF Hourly
<1>2. \A s \in DOMAIN a.rows : a.rows[s] \in RowRecords
  BY TableTyped DEF Balanced, Kept
<1> HIDE DEF v, hours
<1>3. ASSUME NEW s \in DOMAIN a.rows
      PROVE  RowTidy(v.rows[s], Of(v.chunks, s), Of(v.hours, s))
  <2>1. v.rows[s].state = a.rows[s].state /\ v.rows[s].basis = a.rows[s].basis
    <3>1. v.rows[s] = [a.rows[s] EXCEPT !.sealed = 0]
      BY <1>1
    <3> QED BY <1>2, <3>1 DEF RowRecords
  <2>2. a.rows[s].state = "closed"
    BY DEF AllClosed
  <2>3. RowTidy(a.rows[s], Of(a.chunks, s), Of(a.hours, s))
    BY DEF Tidy
  <2>4. Of(v.chunks, s) = {} /\ Of(v.hours, s) \subseteq Of(a.hours, s)
    BY <1>1 DEF Of, hours
  <2>5. Samples({}) = {}
    BY DEF Samples
  <2>6. Accounted({}, Of(v.hours, s))
    BY <2>3, <2>4, <2>5 DEF RowTidy, Accounted
  <2> QED BY <2>1, <2>2, <2>3, <2>4, <2>6 DEF RowTidy
<1>4. DOMAIN v.rows = DOMAIN a.rows
  BY <1>1
<1>5. Tidy(v)
  BY <1>3, <1>4 DEF Tidy
<1> QED BY <1>5 DEF v

-----------------------------------------------------------------------------
(* The recorder's chunk and summaries, put together, lose nothing. *)

\* What a recorder has left once a chunk of stream st is put.
Onward(q, p, st) ==
  /\ q.of = p.of /\ q.given = p.given /\ q.dirty = {}
  /\ \A r \in Streams : \/ q.seq[r] = p.seq[r] /\ q.tail[r] = p.tail[r]
                        \/ r = st /\ q.seq[r] = p.seq[r] + 1

LEMMA PutIsTidy ==
  ASSUME NEW a, Balanced(a), Tidy(a), NEW p \in Pens, p # NoPen, ToldIn(a, p), TailsGiven(p),
         p.of \in DOMAIN a.rows, a.rows[p.of].state \in {"open"},
         NEW st \in Streams, p.tail[st] # {}, now \in Nat,
         NEW c, Writable(a, c), c.of = p.of, c.stream = st, c.seq = p.seq[st],
         c.at = p.tail[st],
         NEW made \in SUBSET HourRecords,
         \A x \in made : /\ x.of = p.of /\ x.hour \in p.dirty
                         /\ x.holds = {k \in p.given : HourOf(k[2]) = x.hour},
         \A x, y \in made : x.hour = y.hour => x = y,
         \A h \in p.dirty : \E x \in made : x.hour = h,
         NEW q, Onward(q, p, st)
  PROVE  LET v == PutChunk(a, c, made) IN Tidy(v) /\ Keeps(v, a) /\ ToldIn(v, q)
<1> DEFINE s == p.of
           v == PutChunk(a, c, made)
           old == {x \in a.chunks : SameKey(x, c)}
           C == Of(a.chunks, s)
           D == Of(v.chunks, s)
           H == Of(a.hours, s)
           G == Of(v.hours, s)
<1>1. \A x \in made : x.of = c.of
  OBVIOUS
<1>2. /\ DOMAIN v.rows = DOMAIN a.rows
      /\ \A r \in DOMAIN a.rows : r # s => v.rows[r] = a.rows[r]
      /\ v.rows[s].basis =
           IF made # {} \/ a.rows[s].basis = "recorded" THEN "recorded" ELSE "none"
      /\ v.chunks = (a.chunks \ old) \cup {c}
      /\ v.hours = PutHours(a.hours, made)
  BY <1>1, PutIsExact
<1>3. a.chunks \in SUBSET ChunkRecords /\ a.hours \in SUBSET HourRecords
  BY DEF Balanced, Kept, Archives
<1> HIDE DEF v
<1>4. PenTold(a.rows[s], C, H, p) /\ Accounted(C, H)
  BY DEF ToldIn, Tidy, RowTidy
<1>5. \A t \in p.tail[st] : <<st, t>> \in p.given
  BY DEF TailsGiven
<1>6. v.rows[s].basis = "recorded"
  <2>1. CASE a.rows[s].basis = "recorded"
    BY <1>2, <2>1
  <2>2. CASE a.rows[s].basis # "recorded"
    <3>1. \A k \in p.given : HourOf(k[2]) \in p.dirty
      BY <1>4, <2>2 DEF PenTold
    <3>2. PICK t \in p.tail[st] : TRUE
      OBVIOUS
    <3>3. <<st, t>> \in p.given /\ <<st, t>>[2] = t
      BY <1>5, <3>2
    <3>4. HourOf(t) \in p.dirty
      BY <3>1, <3>3
    <3>5. made # {}
      BY <3>4
    <3> QED BY <1>2, <3>5
  <2> QED BY <2>1, <2>2
<1>7. D = {d \in C : ~SameKey(d, c)} \cup {c}
  BY <1>2 DEF Of
<1>8. /\ \A x \in G : x \in made \/ (x \in H /\ \A y \in made : y.hour # x.hour)
      /\ made \subseteq G
      /\ \A x \in H : x \in G \/ \E y \in made : y.hour = x.hour
  BY <1>2 DEF PutHours, Of
<1>9. \A d \in C : d.of = s /\ d \in ChunkRecords
  BY <1>3 DEF Of
<1> HIDE DEF C, D, H, G
<1>10. Samples(D) \subseteq p.given
  <2>1. ASSUME NEW k \in Samples(D)
        PROVE  k \in p.given
    <3>1. PICK d \in D : \E t \in d.at : k = <<d.stream, t>>
      BY InSamples
    <3>2. PICK t \in d.at : k = <<d.stream, t>>
      BY <3>1
    <3>3. CASE d = c
      BY <1>5, <3>2, <3>3
    <3>4. CASE d \in C
      <4>1. k \in Samples(C)
        BY <3>2, <3>4, InSamples
      <4> QED BY <1>4, <4>1 DEF PenTold
    <3> QED BY <1>7, <3>3, <3>4
  <2> QED BY <2>1
<1>11. ASSUME NEW x \in G, NEW k \in p.given, HourOf(k[2]) = x.hour
       PROVE  k \in x.holds
  <2>1. CASE x \in made
    BY <1>11, <2>1
  <2>2. CASE x \in H /\ \A y \in made : y.hour # x.hour
    <3>1. x.hour \notin p.dirty
      BY <2>2
    <3> QED BY <1>4, <1>11, <2>2, <3>1 DEF PenTold
  <2> QED BY <1>8, <2>1, <2>2
<1>12. \A x \in G : x.holds \subseteq p.given /\ \A k \in x.holds : HourOf(k[2]) = x.hour
  BY <1>4, <1>8 DEF PenTold, Accounted
<1>13. Accounted(D, G)
  <2>1. ASSUME NEW x \in G, NEW y \in G, x.hour = y.hour
        PROVE  x = y
    BY <1>4, <1>8, <2>1 DEF Accounted
  <2>2. ASSUME NEW x \in G, NEW k \in Samples(D), HourOf(k[2]) = x.hour
        PROVE  k \in x.holds
    BY <1>10, <1>11, <2>2
  <2> QED BY <1>12, <2>1, <2>2 DEF Accounted
<1>14. RowTidy(v.rows[s], D, G)
  BY <1>6, <1>13 DEF RowTidy
<1>15. Known(a, s) \subseteq Known(v, s)
  <2>1. ASSUME NEW k \in Samples(C)
        PROVE  k \in Samples(D)
    <3>1. PICK d \in C : \E t \in d.at : k = <<d.stream, t>>
      BY InSamples
    <3>2. PICK t \in d.at : k = <<d.stream, t>>
      BY <3>1
    <3>3. CASE SameKey(d, c)
      <4>1. d.stream = st /\ d.seq = p.seq[st]
        BY <3>3 DEF SameKey
      <4>2. d.at \subseteq p.tail[st]
        BY <1>4, <4>1 DEF PenTold
      <4>3. t \in c.at /\ k = <<c.stream, t>> /\ c \in D
        BY <1>7, <3>2, <4>1, <4>2
      <4> QED BY <4>3, InSamples
    <3>4. CASE ~SameKey(d, c)
      <4>1. d \in D
        BY <1>7, <3>4
      <4> QED BY <3>2, <4>1, InSamples
    <3> QED BY <3>3, <3>4
  <2>2. ASSUME NEW x \in H, NEW k \in x.holds
        PROVE  \E y \in G : k \in y.holds
    <3>1. CASE x \in G
      BY <2>2, <3>1
    <3>2. CASE x \notin G
      <4>1. PICK y \in made : y.hour = x.hour
        BY <1>8, <3>2
      <4>2. k \in p.given /\ HourOf(k[2]) = x.hour
        BY <1>4, <2>2 DEF PenTold, Accounted
      <4>3. y \in G
        BY <1>8
      <4> QED BY <1>11, <4>1, <4>2, <4>3
    <3> QED BY <3>1, <3>2
  <2> QED BY <2>1, <2>2, KnownStill DEF C, D, G, H
<1>16. ASSUME NEW r \in DOMAIN a.rows, r # s
       PROVE  /\ v.rows[r] = a.rows[r] /\ Of(v.chunks, r) = Of(a.chunks, r)
              /\ Of(v.hours, r) = Of(a.hours, r)
  <2>1. Of(v.chunks, r) = Of(a.chunks, r)
    <3>1. \A x \in old : x.of = s
      BY DEF SameKey
    <3> QED BY <1>2, <1>16, <3>1 DEF Of
  <2>2. Of(v.hours, r) = Of(a.hours, r)
    BY <1>2, <1>16 DEF PutHours, Of
  <2> QED BY <1>2, <1>16, <2>1, <2>2
<1>17. Tidy(v)
  <2>1. ASSUME NEW r \in DOMAIN v.rows
        PROVE  RowTidy(v.rows[r], Of(v.chunks, r), Of(v.hours, r))
    <3>1. CASE r = s
      BY <1>14, <3>1 DEF D, G
    <3>2. CASE r # s
      BY <1>2, <1>16, <3>2 DEF Tidy
    <3> QED BY <3>1, <3>2
  <2> QED BY <2>1 DEF Tidy
<1>18. Keeps(v, a)
  <2>1. ASSUME NEW r \in DOMAIN v.rows
        PROVE  r \in DOMAIN a.rows /\ Known(a, r) \subseteq Known(v, r)
    <3>1. CASE r = s
      BY <1>15, <3>1
    <3>2. CASE r # s
      BY <1>2, <1>16, <3>2 DEF Known
    <3> QED BY <3>1, <3>2
  <2> QED BY <2>1 DEF Keeps
<1>19. \A r \in Streams : p.seq[r] \in Nat
  BY PenTyped
<1>20. ASSUME NEW d \in D
       PROVE  d.seq <= q.seq[d.stream] /\ (d.seq = q.seq[d.stream] => d.at \subseteq q.tail[d.stream])
  <2>1. CASE d = c
    <3>1. \/ q.seq[st] = p.seq[st] /\ q.tail[st] = p.tail[st]
          \/ q.seq[st] = p.seq[st] + 1
      BY DEF Onward
    <3>2. p.seq[st] \in Nat /\ d.seq = p.seq[st] /\ d.stream = st /\ d.at = p.tail[st]
      BY <1>19, <2>1
    <3> QED BY <3>1, <3>2
  <2>2. CASE d # c
    <3>1. d \in C /\ ~SameKey(d, c) /\ d.of = c.of
      BY <1>7, <1>9, <2>2
    <3>2. /\ d.seq <= p.seq[d.stream]
          /\ d.seq = p.seq[d.stream] => d.at \subseteq p.tail[d.stream]
      BY <1>4, <3>1 DEF PenTold
    <3>3. d.stream = st => d.seq # p.seq[st]
      BY <3>1 DEF SameKey
    <3>4. d.stream \in Streams /\ d.seq \in Nat
      BY <1>9, <3>1 DEF ChunkRecords
    <3>5. \/ q.seq[d.stream] = p.seq[d.stream] /\ q.tail[d.stream] = p.tail[d.stream]
          \/ d.stream = st /\ q.seq[d.stream] = p.seq[d.stream] + 1
      BY <3>4 DEF Onward
    <3>6. p.seq[d.stream] \in Nat
      BY <1>19, <3>4
    <3> QED BY <3>2, <3>3, <3>4, <3>5, <3>6
  <2> QED BY <2>1, <2>2
<1>21. PenTold(v.rows[s], D, G, q)
  <2>1. q.given = p.given
    BY DEF Onward
  <2> QED BY <1>6, <1>10, <1>11, <1>12, <1>20, <2>1 DEF PenTold
<1>22. ToldIn(v, q)
  <2>1. q.of = s
    BY DEF Onward
  <2> QED BY <1>21, <2>1 DEF ToldIn, D, G
<1> QED BY <1>17, <1>18, <1>22 DEF v

LEMMA PenMadeOnce ==
  ASSUME NEW x \in PenMade, NEW y \in PenMade, x.hour = y.hour
  PROVE  x = y
<1>1. PICK h \in pen.dirty : x = Summary(pen.of, h, "recorded", pen.given)
  BY DEF PenMade
<1>2. PICK g \in pen.dirty : y = Summary(pen.of, g, "recorded", pen.given)
  BY DEF PenMade
<1>3. x.hour = h
  BY <1>1 DEF Summary
<1>4. y.hour = g
  BY <1>2 DEF Summary
<1> QED BY <1>1, <1>2, <1>3, <1>4

LEMMA BeatIsTidy ==
  ASSUME NEW a, Balanced(a), Tidy(a), NEW s \in DOMAIN a.rows, NEW at \in Nat,
         NEW v, v = [a EXCEPT !.rows[s].beat = at]
  PROVE  Tidy(v) /\ Keeps(v, a)
<1> DEFINE new == [a.rows[s] EXCEPT !.beat = at]
           rows == [a.rows EXCEPT ![s] = new]
<1>1. a \in Archives
  BY DEF Balanced, Kept
<1>2. a.rows \in [DOMAIN a.rows -> RowRecords] /\ a.rows[s] \in RowRecords
  BY <1>1, TableTyped
<1>3. v.rows = rows /\ v.chunks = a.chunks /\ v.hours = a.hours
  BY <1>1 DEF Archives
<1>4. /\ new.state = a.rows[s].state /\ new.basis = a.rows[s].basis
      /\ new.retained = a.rows[s].retained
  BY <1>2 DEF RowRecords
<1> HIDE DEF new
<1>5. /\ DOMAIN rows = DOMAIN a.rows /\ rows[s] = new
      /\ \A r \in DOMAIN a.rows : r # s => rows[r] = a.rows[r]
  BY <1>2
<1> HIDE DEF rows
<1>6. ASSUME NEW r \in DOMAIN rows
      PROVE  RowTidy(rows[r], Of(a.chunks, r), Of(a.hours, r))
  <2>1. RowTidy(a.rows[r], Of(a.chunks, r), Of(a.hours, r))
    BY <1>5 DEF Tidy
  <2>2. /\ rows[r].state = a.rows[r].state /\ rows[r].basis = a.rows[r].basis
        /\ rows[r].retained = a.rows[r].retained
    BY <1>4, <1>5
  <2> QED BY <2>1, <2>2, TidyLike
<1>7. Tidy(v)
  BY <1>3, <1>6 DEF Tidy
<1>8. \A r : Known(v, r) = Known(a, r)
  BY <1>3 DEF Known
<1> QED BY <1>3, <1>5, <1>7, <1>8 DEF Keeps

-----------------------------------------------------------------------------
(* Every step keeps the account, and loses samples by the hour at most. *)

AccountInv == Tidy(db) /\ Tidy(copy.archive) /\ ToldIn(db, pen) /\ TailsGiven(pen)

\* What the property says of a step from one archive to another.
Losing(v, a) ==
  \A s \in DOMAIN a.rows \cap DOMAIN v.rows :
    \A k \in Known(a, s) \ Known(v, s) : HourOf(k[2]) \notin {x.hour : x \in Of(v.hours, s)}

StepLoses == Continues => Losing(db', db)

LEMMA LosesHoursOnly ==
  ASSUME NEW a, NEW v, LosesHours(v, a)
  PROVE  Losing(v, a)
  BY DEF LosesHours, Losing

LEMMA AccountMade ==
  ASSUME Tidy(db'), Tidy(copy'.archive), ToldIn(db', pen'), TailsGiven(pen')
  PROVE  AccountInv'
  BY DEF AccountInv

LEMMA OpenSessionAccounts ==
  ASSUME ArchiveInv, AccountInv, NEW t \in Tabs, NEW s \in Sessions, OpenSession(t, s)
  PROVE  AccountInv' /\ StepLoses
<1>1. /\ s \notin DOMAIN db.rows /\ t \in opened
      /\ db' = [db EXCEPT !.rows = [r \in DOMAIN @ \cup {s} |->
                                      IF r = s THEN NewRow(now) ELSE @[r]]]
      /\ pen' = [of |-> s, tab |-> t, tail |-> [st \in Streams |-> {}],
                 seq |-> [st \in Streams |-> 0], given |-> {}, dirty |-> {}]
      /\ copy' = copy
  BY DEF OpenSession
<1>2. Balanced(db) /\ db \in Archives /\ Tidy(db) /\ Tidy(copy.archive)
  BY <1>1, ArchiveInvParts DEF AccountInv
<1> DEFINE rows == [r \in DOMAIN db.rows \cup {s} |-> IF r = s THEN NewRow(now) ELSE db.rows[r]]
<1>3. db'.rows = rows /\ db'.chunks = db.chunks /\ db'.hours = db.hours
  BY <1>1, <1>2 DEF Archives
<1>4. /\ DOMAIN rows = DOMAIN db.rows \cup {s} /\ rows[s] = NewRow(now)
      /\ \A r \in DOMAIN db.rows : rows[r] = db.rows[r]
  BY <1>1
<1> HIDE DEF rows
<1>5. Of(db.chunks, s) = {} /\ Of(db.hours, s) = {}
  BY <1>1, <1>2 DEF Balanced, Owned, Of
<1>6. Samples({}) = {}
  BY DEF Samples
<1>7. RowTidy(NewRow(now), {}, {})
  BY <1>6 DEF RowTidy, Accounted, LooseSound
<1>8. Tidy(db')
  <2>1. ASSUME NEW r \in DOMAIN rows
        PROVE  RowTidy(rows[r], Of(db.chunks, r), Of(db.hours, r))
    BY <1>2, <1>4, <1>5, <1>7 DEF Tidy
  <2> QED BY <1>3, <2>1 DEF Tidy
<1>9. /\ pen'.of = s /\ pen'.given = {} /\ pen'.dirty = {}
      /\ \A st \in Streams : pen'.tail[st] = {}
  BY <1>1
<1>10. NewRow(now).basis = "none"
  BY DEF NewRow
<1>11. PenTold(NewRow(now), {}, {}, pen')
  BY <1>6, <1>9, <1>10 DEF PenTold
<1>12. ToldIn(db', pen')
  BY <1>3, <1>4, <1>5, <1>9, <1>11 DEF ToldIn
<1>13. TailsGiven(pen')
  BY <1>9 DEF TailsGiven
<1>14. Losing(db', db)
  <2>1. \A r : Known(db', r) = Known(db, r)
    BY <1>3 DEF Known
  <2> QED BY <2>1 DEF Losing
<1> QED BY <1>1, <1>2, <1>8, <1>12, <1>13, <1>14, AccountMade DEF StepLoses

LEMMA HearAccounts ==
  ASSUME ArchiveInv, AccountInv, NEW st \in Streams, Hear(st)
  PROVE  AccountInv' /\ StepLoses
<1> DEFINE earlier == {k[2] : k \in {j \in pen.given : j[2] < now}}
           before == IF earlier = {} THEN {} ELSE {HourOf(Max(earlier))}
<1>1. /\ pen' = [pen EXCEPT !.tail[st] = @ \cup {now}, !.given = @ \cup {<<st, now>>},
                            !.dirty = @ \cup before \cup {HourOf(now)}]
      /\ db' = db /\ copy' = copy /\ pen # NoPen
  BY DEF Hear, Writing
<1> HIDE DEF before
<1>2. Tidy(db) /\ Tidy(copy.archive) /\ ToldIn(db, pen) /\ TailsGiven(pen) /\ pen \in Pens
  BY <1>1, ArchiveInvParts DEF AccountInv
<1>3. pen.tail \in [Streams -> SUBSET Instants] /\ pen.seq \in [Streams -> Nat]
  BY <1>2, PenTyped
<1> DEFINE tail == [pen.tail EXCEPT ![st] = @ \cup {now}]
<1>4. /\ \A r \in Streams : pen.tail[r] \subseteq tail[r]
      /\ \A r \in Streams : \A t \in tail[r] : t \in pen.tail[r] \/ (r = st /\ t = now)
  BY <1>3
<1>5. pen' = [of |-> pen.of, tab |-> pen.tab, tail |-> tail, seq |-> pen.seq,
              given |-> pen.given \cup {<<st, now>>},
              dirty |-> pen.dirty \cup before \cup {HourOf(now)}]
  BY <1>1, <1>2 DEF Pens
<1> HIDE DEF tail
<1>6. /\ pen'.of = pen.of /\ pen'.tail = tail /\ pen'.seq = pen.seq
      /\ pen'.given = pen.given \cup {<<st, now>>}
      /\ pen'.dirty = pen.dirty \cup before \cup {HourOf(now)}
  BY <1>5
<1>7. TailsGiven(pen')
  BY <1>1, <1>2, <1>4, <1>6 DEF TailsGiven
<1>8. ASSUME NEW row, NEW C \in SUBSET ChunkRecords, NEW H, PenTold(row, C, H, pen)
      PROVE  PenTold(row, C, H, pen')
  <2>1. <<st, now>>[2] = now
    OBVIOUS
  <2>2. \/ row.basis = "recorded"
        \/ row.basis = "none" /\ C = {} /\ \A k \in pen'.given : HourOf(k[2]) \in pen'.dirty
    BY <1>6, <1>8, <2>1 DEF PenTold
  <2>3. ASSUME NEW c \in C
        PROVE  /\ c.seq <= pen'.seq[c.stream]
               /\ c.seq = pen'.seq[c.stream] => c.at \subseteq pen'.tail[c.stream]
    <3>1. c.stream \in Streams
      BY <1>8 DEF ChunkRecords
    <3>2. pen.tail[c.stream] \subseteq pen'.tail[c.stream]
      BY <1>4, <1>6, <3>1
    <3> QED BY <1>6, <1>8, <3>2 DEF PenTold
  <2>4. Samples(C) \subseteq pen'.given
    BY <1>6, <1>8 DEF PenTold
  <2>5. ASSUME NEW x \in H
        PROVE  /\ x.holds \subseteq pen'.given
               /\ x.hour \notin pen'.dirty =>
                    \A k \in pen'.given : HourOf(k[2]) = x.hour => k \in x.holds
    <3>1. x.holds \subseteq pen'.given
      BY <1>6, <1>8 DEF PenTold
    <3>2. ASSUME x.hour \notin pen'.dirty, NEW k \in pen'.given, HourOf(k[2]) = x.hour
          PROVE  k \in x.holds
      <4>1. x.hour \notin pen.dirty /\ k \in pen.given
        BY <1>6, <2>1, <3>2
      <4> QED BY <1>8, <3>2, <4>1 DEF PenTold
    <3> QED BY <3>1, <3>2
  <2> QED BY <2>2, <2>3, <2>4, <2>5 DEF PenTold
<1>9. ToldIn(db, pen')
  <2>1. ASSUME pen.of \in DOMAIN db.rows, db.rows[pen.of].state = "open"
        PROVE  PenTold(db.rows[pen.of], Of(db.chunks, pen.of), Of(db.hours, pen.of), pen')
    <3>1. PenTold(db.rows[pen.of], Of(db.chunks, pen.of), Of(db.hours, pen.of), pen)
      BY <1>1, <1>2, <2>1 DEF ToldIn
    <3>2. Of(db.chunks, pen.of) \in SUBSET ChunkRecords
      BY ArchiveInvParts DEF Archives, Of
    <3> QED BY <1>8, <3>1, <3>2
  <2> QED BY <1>6, <2>1 DEF ToldIn
<1> QED BY <1>1, <1>2, <1>7, <1>9, AccountMade DEF StepLoses, Continues

LEMMA CommitChunkAccounts ==
  ASSUME ArchiveInv, AccountInv, NEW st \in Streams, CommitChunk(st)
  PROVE  AccountInv' /\ StepLoses
<1> DEFINE s == pen.of
           c == PenChunk(st)
           v == WriteChunk(db, c, PenMade, viewed[pen.tab])
           m == PutChunk(db, c, PenMade)
           going == /\ s \in DOMAIN db.rows /\ db.rows[s].state = "open"
                    /\ ~PruneFails(PutChunk(db, c, PenMade))
<1>1. /\ pen # NoPen /\ now \in Nat /\ pen \in Pens /\ Balanced(db) /\ Writing
      /\ pen.tail[st] # {}
  BY ArchiveInvParts DEF CommitChunk, Writing
<1>2. Tidy(db) /\ Tidy(copy.archive) /\ ToldIn(db, pen) /\ TailsGiven(pen)
  BY DEF AccountInv
<1>3. /\ copy' = copy
      /\ going => /\ db' = v
                  /\ pen' = [(IF Whole(st) THEN Emptied(st) ELSE pen) EXCEPT !.dirty = {}]
      /\ ~going => pen' = NoPen /\ db' = db
  BY DEF CommitChunk, PenChunk, PenMade
<1>4. CASE ~going
  <2>1. ToldIn(db', pen') /\ TailsGiven(pen')
    BY <1>3, <1>4 DEF ToldIn, TailsGiven
  <2> QED BY <1>2, <1>3, <1>4, <2>1, AccountMade DEF StepLoses, Continues
<1>5. CASE going
  <2> DEFINE p == IF Whole(st) THEN Emptied(st) ELSE pen
             q == [p EXCEPT !.dirty = {}]
  <2>1. /\ Writable(db, c) /\ c.of = s /\ c.seq = pen.seq[st] /\ c.stream = st
        /\ c.at = pen.tail[st]
    BY <1>1, <1>5, PenChunkIs
  <2>2. /\ PenMade \in SUBSET HourRecords
        /\ \A x \in PenMade : /\ x.of = s /\ x.hour \in pen.dirty
                              /\ x.holds = {k \in pen.given : HourOf(k[2]) = x.hour}
        /\ \A h \in pen.dirty : \E x \in PenMade : x.hour = h
    BY <1>1, PenMadeIs
  <2>3. \A x, y \in PenMade : x.hour = y.hour => x = y
    BY PenMadeOnce
  <2>4. pen.seq \in [Streams -> Nat] /\ pen.tail \in [Streams -> SUBSET Instants]
    BY <1>1, PenTyped
  <2>5. Onward(q, pen, st) /\ TailsGiven(q)
    <3>1. CASE Whole(st)
      <4> DEFINE n == [pen.seq EXCEPT ![st] = @ + 1]
                 w == [pen.tail EXCEPT ![st] = {}]
      <4>1. /\ \A r \in Streams : \/ n[r] = pen.seq[r] /\ w[r] = pen.tail[r]
                                  \/ r = st /\ n[r] = pen.seq[r] + 1
            /\ \A r \in Streams : w[r] \subseteq pen.tail[r]
        BY <2>4
      <4>2. p = [of |-> pen.of, tab |-> pen.tab, tail |-> w, seq |-> n, given |-> pen.given,
                 dirty |-> pen.dirty]
        <5>1. p = Emptied(st)
          BY <3>1
        <5> QED BY <1>1, <5>1 DEF Emptied, Pens
      <4> HIDE DEF n, w, p
      <4>4. q = [of |-> pen.of, tab |-> pen.tab, tail |-> w, seq |-> n, given |-> pen.given,
                 dirty |-> {}]
        BY <4>2
      <4> HIDE DEF q
      <4>3. q.of = pen.of /\ q.tail = w /\ q.seq = n /\ q.given = pen.given /\ q.dirty = {}
        BY <4>4
      <4> QED BY <1>1, <1>2, <4>1, <4>3 DEF Onward, TailsGiven
    <3>2. CASE ~Whole(st)
      <4>1. /\ q.of = pen.of /\ q.tail = pen.tail /\ q.seq = pen.seq /\ q.given = pen.given
            /\ q.dirty = {}
        BY <1>1, <3>2 DEF Pens
      <4> HIDE DEF q
      <4> QED BY <1>1, <1>2, <4>1 DEF Onward, TailsGiven
    <3> QED BY <3>1, <3>2
  <2>6. db' = v /\ pen' = q
    BY <1>3, <1>5
  <2> HIDE DEF c, q, p
  <2>7. db.rows[s].state \in {"open"} /\ s \in DOMAIN db.rows
    BY <1>5
  <2>8. Tidy(m) /\ Keeps(m, db) /\ ToldIn(m, q)
    BY <1>1, <1>2, <2>1, <2>2, <2>3, <2>5, <2>7, PutIsTidy
  <2>9. Exact(m)
    <3>1. \A x \in PenMade : x.of = c.of
      BY <2>1, <2>2
    <3> QED BY <1>1, <2>1, <2>2, <3>1, PutIsExact
  <2>10. v = Prune(m, viewed[pen.tab])
    BY WriteIsPut
  <2> HIDE DEF m, v
  <2>11. Tidy(v) /\ LosesHours(v, m) /\ Leaner(v, m)
    BY <2>8, <2>9, <2>10, PrunedIsTidy
  <2>12. ToldIn(v, q) /\ Losing(v, db)
    BY <2>8, <2>11, LeanerTold, KeepsThenLosesHours, LosesHoursOnly
  <2> QED BY <1>2, <1>3, <2>5, <2>6, <2>11, <2>12, AccountMade DEF StepLoses
<1> QED BY <1>4, <1>5

LEMMA PruneToBudgetAccounts ==
  ASSUME ArchiveInv, AccountInv, PruneToBudget
  PROVE  AccountInv' /\ StepLoses
<1> DEFINE a == Counted(db)
           v == Prune(a, viewed[pen.tab])
<1>1. Balanced(db)
  BY ArchiveInvParts DEF PruneToBudget, Writing
<1>2. Tidy(db) /\ Tidy(copy.archive) /\ ToldIn(db, pen) /\ TailsGiven(pen)
  BY DEF AccountInv
<1>3. (db' = db \/ db' = v) /\ pen' = pen /\ copy' = copy
  BY DEF PruneToBudget
<1>4. Exact(a) /\ a.rows = db.rows /\ a.chunks = db.chunks /\ a.hours = db.hours
  BY <1>1, CountedIsExact
<1> HIDE DEF a
<1>5. Tidy(a) /\ Keeps(a, db) /\ Leaner(a, db)
  BY <1>2, <1>4, AlikeIsTidy
<1>6. Tidy(v) /\ LosesHours(v, a) /\ Leaner(v, a)
  BY <1>4, <1>5, PrunedIsTidy
<1> HIDE DEF v
<1>7. ToldIn(v, pen) /\ Losing(v, db)
  BY <1>2, <1>5, <1>6, LeanerTwice, LeanerTold, KeepsThenLosesHours, LosesHoursOnly
<1>8. CASE db' = db
  BY <1>2, <1>3, <1>8, AccountMade DEF StepLoses, Continues
<1>9. CASE db' = v
  BY <1>2, <1>3, <1>6, <1>7, <1>9, AccountMade DEF StepLoses
<1> QED BY <1>3, <1>8, <1>9

LEMMA GiveUpAccounts ==
  ASSUME ArchiveInv, AccountInv, NEW st \in Streams, GiveUp(st)
  PROVE  AccountInv' /\ StepLoses
<1>1. pen # NoPen /\ pen \in Pens /\ db \in Archives
  BY ArchiveInvParts DEF GiveUp, Writing
<1>2. Tidy(db) /\ Tidy(copy.archive) /\ ToldIn(db, pen) /\ TailsGiven(pen)
  BY DEF AccountInv
<1>3. db' = db /\ pen' = Emptied(st) /\ copy' = copy
  BY DEF GiveUp
<1>4. pen.seq \in [Streams -> Nat] /\ pen.tail \in [Streams -> SUBSET Instants]
  BY <1>1, PenTyped
<1> DEFINE n == [pen.seq EXCEPT ![st] = @ + 1]
           w == [pen.tail EXCEPT ![st] = {}]
<1>5. /\ \A r \in Streams : \/ n[r] = pen.seq[r] /\ w[r] = pen.tail[r]
                            \/ n[r] = pen.seq[r] + 1
      /\ \A r \in Streams : w[r] \subseteq pen.tail[r] /\ pen.seq[r] \in Nat
  BY <1>4
<1>6. pen' = [of |-> pen.of, tab |-> pen.tab, tail |-> w, seq |-> n, given |-> pen.given,
              dirty |-> pen.dirty]
  BY <1>1, <1>3 DEF Emptied, Pens
<1> HIDE DEF n, w
<1>7. /\ pen'.of = pen.of /\ pen'.tail = w /\ pen'.seq = n /\ pen'.given = pen.given
      /\ pen'.dirty = pen.dirty
  BY <1>6
<1>8. TailsGiven(pen')
  BY <1>1, <1>2, <1>5, <1>7 DEF TailsGiven
<1>9. ToldIn(db, pen')
  <2>1. ASSUME pen.of \in DOMAIN db.rows, db.rows[pen.of].state = "open"
        PROVE  PenTold(db.rows[pen.of], Of(db.chunks, pen.of), Of(db.hours, pen.of), pen')
    <3>1. PenTold(db.rows[pen.of], Of(db.chunks, pen.of), Of(db.hours, pen.of), pen)
      BY <1>1, <1>2, <2>1 DEF ToldIn
    <3>2. ASSUME NEW c \in Of(db.chunks, pen.of)
          PROVE  /\ c.seq <= pen'.seq[c.stream]
                 /\ c.seq = pen'.seq[c.stream] => c.at \subseteq pen'.tail[c.stream]
      <4>1. c.stream \in Streams /\ c.seq \in Nat
        BY <1>1 DEF Archives, Of, ChunkRecords
      <4>2. /\ c.seq <= pen.seq[c.stream]
            /\ c.seq = pen.seq[c.stream] => c.at \subseteq pen.tail[c.stream]
        BY <3>1 DEF PenTold
      <4> QED BY <1>5, <1>7, <4>1, <4>2
    <3> QED BY <1>7, <3>1, <3>2 DEF PenTold
  <2> QED BY <1>7, <2>1 DEF ToldIn
<1> QED BY <1>2, <1>3, <1>8, <1>9, AccountMade DEF StepLoses, Continues

LEMMA CloseSessionAccounts ==
  ASSUME ArchiveInv, AccountInv, CloseSession
  PROVE  AccountInv' /\ StepLoses
<1> DEFINE shut == Closed(db, pen.of, now)
<1>1. Balanced(db) /\ Kept(db) /\ now \in Nat
  BY ArchiveInvParts DEF CloseSession, Writing
<1>2. Tidy(db) /\ Tidy(copy.archive)
  BY DEF AccountInv
<1>3. /\ pen' = NoPen /\ copy' = copy
      /\ db' = IF pen.of \in DOMAIN db.rows THEN [shut EXCEPT !.rows[pen.of].beat = now] ELSE db
  BY DEF CloseSession
<1>4. ToldIn(db', pen') /\ TailsGiven(pen')
  BY <1>3 DEF ToldIn, TailsGiven
<1>5. Tidy(db') /\ Keeps(db', db)
  <2>1. CASE pen.of \in DOMAIN db.rows
    <3>1. /\ Balanced(shut) /\ pen.of \in DOMAIN shut.rows
      BY <1>1, <2>1, ClosedIs, ClosedIsBalanced
    <3>2. Tidy(shut) /\ Keeps(shut, db)
      BY <1>1, <1>2, <2>1, ClosedIsTidy
    <3> HIDE DEF shut
    <3>4. db' = [shut EXCEPT !.rows[pen.of].beat = now] /\ now \in Nat
      BY <1>1, <1>3, <2>1
    <3>3. Tidy(db') /\ Keeps(db', shut)
      BY <3>1, <3>2, <3>4, BeatIsTidy
    <3> QED BY <3>2, <3>3, KeepsTwice
  <2>2. CASE pen.of \notin DOMAIN db.rows
    BY <1>2, <1>3, <2>2 DEF Keeps
  <2> QED BY <2>1, <2>2
<1>6. Losing(db', db)
  BY <1>5, KeepsLosesNone, LosesHoursOnly
<1> QED BY <1>2, <1>3, <1>4, <1>5, <1>6, AccountMade DEF StepLoses

\* A step that leaves the archive be, and the recorder as it was or gone.
LEMMA IdleAccounts ==
  ASSUME AccountInv, db' = db, copy' = copy, pen' = pen \/ pen' = NoPen
  PROVE  AccountInv' /\ StepLoses
<1>1. Tidy(db) /\ Tidy(copy.archive) /\ ToldIn(db, pen) /\ TailsGiven(pen)
  BY DEF AccountInv
<1>2. ToldIn(db', pen') /\ TailsGiven(pen')
  <2>1. CASE pen' = pen
    BY <1>1, <2>1
  <2>2. CASE pen' = NoPen
    BY <2>2 DEF ToldIn, TailsGiven
  <2> QED BY <2>1, <2>2
<1> QED BY <1>1, <1>2, AccountMade DEF StepLoses, Continues

LEMMA ArriveAccounts ==
  ASSUME ArchiveInv, AccountInv, NEW t \in Tabs, Arrive(t)
  PROVE  AccountInv' /\ StepLoses
<1> DEFINE v == Recover(db)
<1>1. (db' = v \/ db' = db) /\ pen' = pen /\ copy' = copy
  BY DEF Arrive
<1>2. Tidy(db) /\ Tidy(copy.archive) /\ ToldIn(db, pen) /\ TailsGiven(pen)
  BY DEF AccountInv
<1>3. Tidy(v) /\ LosesHours(v, db) /\ Leaner(v, db)
  BY <1>2, ArchiveInvParts, RecoveredIsTidy
<1> HIDE DEF v
<1>4. ToldIn(v, pen) /\ Losing(v, db)
  BY <1>2, <1>3, LeanerTold, LosesHoursOnly
<1>5. CASE db' = db
  BY <1>1, <1>2, <1>5, AccountMade DEF StepLoses, Continues
<1>6. CASE db' = v
  BY <1>1, <1>2, <1>3, <1>4, <1>6, AccountMade DEF StepLoses
<1> QED BY <1>1, <1>5, <1>6

LEMMA DeleteSessionAccounts ==
  ASSUME ArchiveInv, AccountInv, NEW s \in Sessions, DeleteSession(s)
  PROVE  AccountInv' /\ StepLoses
<1> DEFINE a == Counted(db)
           v == Evict(a, s)
<1>1. Balanced(db) /\ s \in DOMAIN db.rows
  BY ArchiveInvParts DEF DeleteSession
<1>2. Tidy(db) /\ Tidy(copy.archive) /\ ToldIn(db, pen) /\ TailsGiven(pen)
  BY DEF AccountInv
<1>3. db' = v /\ pen' = pen /\ copy' = copy
  BY DEF DeleteSession
<1>4. Exact(a) /\ a.rows = db.rows /\ a.chunks = db.chunks /\ a.hours = db.hours
  BY <1>1, CountedIsExact
<1> HIDE DEF a
<1>5. Tidy(a) /\ Keeps(a, db) /\ Leaner(a, db)
  BY <1>2, <1>4, AlikeIsTidy
<1>6. Tidy(v) /\ Keeps(v, a) /\ Leaner(v, a)
  BY <1>1, <1>4, <1>5, EvictedIsTidy
<1> HIDE DEF v
<1>7. ToldIn(v, pen) /\ Losing(v, db)
  BY <1>2, <1>5, <1>6, LeanerTwice, LeanerTold, KeepsTwice, KeepsLosesNone, LosesHoursOnly
<1> QED BY <1>2, <1>3, <1>6, <1>7, AccountMade DEF StepLoses

LEMMA CaptureAccounts ==
  ASSUME ArchiveInv, AccountInv, NEW d \in {"complete", "hourly"}, Capture(d)
  PROVE  AccountInv' /\ StepLoses
<1> DEFINE v == CompactAll(db, DOMAIN db.rows)
<1>1. Balanced(db) /\ db \in Archives
  BY ArchiveInvParts DEF Capture
<1>2. Tidy(db) /\ Tidy(copy.archive) /\ ToldIn(db, pen) /\ TailsGiven(pen)
  BY DEF AccountInv
<1>3. /\ db' = v /\ pen' = pen
      /\ \/ copy' = copy
         \/ AllClosed(v) /\ (copy' = Copy(Hourly(v)) \/ copy' = Copy(v))
  BY DEF Capture
<1>4. Balanced(v)
  BY <1>1, SummedIsBalanced
<1>5. Tidy(v) /\ Keeps(v, db) /\ Leaner(v, db)
  BY <1>1, <1>2, CompactedIsTidy
<1> HIDE DEF v
<1>6. Tidy(copy'.archive)
  <2>1. CASE copy' = copy
    BY <1>2, <2>1
  <2>2. CASE AllClosed(v) /\ (copy' = Copy(Hourly(v)) \/ copy' = Copy(v))
    <3>1. Tidy(Hourly(v)) /\ Balanced(Hourly(v))
      BY <1>4, <1>5, <2>2, HourlyIsTidy, HourlyIsBalanced
    <3>2. v \in Archives /\ Hourly(v) \in Archives
      BY <1>4, <3>1 DEF Balanced, Kept
    <3>3. Copy(v).archive = v /\ Copy(Hourly(v)).archive = Hourly(v)
      BY <3>2, CopyIs
    <3> QED BY <1>5, <2>2, <3>1, <3>3
  <2> QED BY <1>3, <2>1, <2>2
<1>7. ToldIn(v, pen) /\ Losing(v, db)
  BY <1>2, <1>5, LeanerTold, KeepsLosesNone, LosesHoursOnly
<1> QED BY <1>2, <1>3, <1>5, <1>6, <1>7, AccountMade DEF StepLoses

LEMMA FreshIsTidy == Tidy(Fresh)
<1>1. DOMAIN Fresh.rows = {}
  BY DEF Fresh
<1> QED BY <1>1 DEF Tidy

LEMMA RestoreAccounts ==
  ASSUME ArchiveInv, AccountInv, Restore
  PROVE  AccountInv' /\ StepLoses
<1>1. AllClosed(copy.archive)
  BY ArchiveInvParts
<1>2. Tidy(copy.archive) /\ TailsGiven(pen)
  BY DEF AccountInv
<1>3. db' = copy.archive /\ copy' = NoCopy /\ pen' = pen
  BY DEF Restore
<1>4. copy'.archive = Fresh
  BY <1>3 DEF NoCopy
<1>5. ToldIn(db', pen')
  BY <1>1, <1>3 DEF AllClosed, ToldIn
<1> QED BY <1>1, <1>2, <1>3, <1>4, <1>5, FreshIsTidy, AccountMade DEF StepLoses, Continues, Restore

-----------------------------------------------------------------------------
(* What an older build left has no summaries, and its cut-off session's    *)
(* sealed rows came before its loose ones.                                 *)

LEMMA BackupIsTidy == Tidy(OldBackup)
<1>1. OldBackup = OfOldBuild("closed", BackupChunks)
  BY DEF OldBackup, BackupChunks
<1>2. /\ DOMAIN OldBackup.rows = {1} /\ OldBackup.rows[1].state = "closed"
      /\ OldBackup.hours = {}
  BY <1>1, BackupTyped, OldBuildIsKept
<1> HIDE DEF OldBackup
<1>3. Of(OldBackup.hours, 1) = {}
  BY <1>2 DEF Of
<1>4. RowTidy(OldBackup.rows[1], Of(OldBackup.chunks, 1), Of(OldBackup.hours, 1))
  BY <1>2, <1>3 DEF RowTidy, Accounted
<1> QED BY <1>2, <1>4 DEF Tidy

LEMMA CutIsTidyToo == Tidy(OfOldBuild("open", CutOff))
<1> DEFINE a == OfOldBuild("open", CutOff)
           c == Chunk(1, "pack", 0, {1, 2}, TRUE)
           d == Chunk(1, "pack", 1, {3}, FALSE)
           e == Chunk(1, "solar", 0, {3}, FALSE)
<1>1. /\ DOMAIN a.rows = {1} /\ a.chunks = CutOff /\ a.hours = {}
      /\ a.rows[1].basis = "none" /\ a.rows[1].retained = 0
  BY CutTyped, OldBuildIsKept
<1> HIDE DEF a
<1>2. c.at = {1, 2} /\ ~d.sealed /\ d.at = {3} /\ ~e.sealed /\ e.at = {3}
  BY DEF Chunk
<1>4. CutOff = {c, d, e}
  BY DEF CutOff
<1> HIDE DEF c, d, e
<1>5. Of(CutOff, 1) \subseteq {c, d, e}
  BY <1>4 DEF Of
<1>6. Of(a.hours, 1) = {} /\ Of(a.chunks, 1) \subseteq {c, d, e}
  BY <1>1, <1>5 DEF Of
<1>7. \A x \in {c, d, e} : \A t \in x.at : 0 <= t
  BY <1>2
<1>8. \A x, y \in {c, d, e} : x.sealed /\ x # y => \A t \in x.at, u \in y.at : t < u
  <2>1. ASSUME NEW x \in {c, d, e}, NEW y \in {c, d, e}, x.sealed, x # y
        PROVE  \A t \in x.at, u \in y.at : t < u
    <3>1. x = c /\ (y = d \/ y = e)
      BY <1>2, <2>1
    <3> QED BY <1>2, <3>1
  <2> QED BY <2>1
<1>9. LooseSound(a.rows[1], Of(a.chunks, 1), Of(a.hours, 1))
  BY <1>1, <1>6, <1>7, <1>8 DEF LooseSound
<1>10. RowTidy(a.rows[1], Of(a.chunks, 1), Of(a.hours, 1))
  BY <1>6, <1>9 DEF RowTidy, Accounted
<1>11. Tidy(a)
  BY <1>1, <1>10 DEF Tidy
<1> QED BY <1>11 DEF a

LEMMA AccountStarts ==
  ASSUME "littered" \notin Legacies, ArchiveInit
  PROVE  AccountInv
<1>1. PICK l \in Legacies : /\ db = Found(l)
                            /\ copy = IF l = "fresh" THEN Copy(OldBackup) ELSE NoCopy
  BY DEF ArchiveInit
<1>2. Tidy(db)
  <2>1. l \in {"fresh", "cut"}
    BY ArchiveAssumption
  <2>2. CASE l = "fresh"
    BY <1>1, <2>2, FreshIsTidy DEF Found
  <2>3. CASE l = "cut"
    <3>1. db = OfOldBuild("open", CutOff)
      BY <1>1, <2>3 DEF Found
    <3> QED BY <3>1, CutIsTidyToo
  <2> QED BY <2>1, <2>2, <2>3
<1>3. Tidy(copy.archive)
  <2>1. Copy(OldBackup).archive = OldBackup /\ NoCopy.archive = Fresh
    BY DEF Copy, NoCopy
  <2> HIDE DEF OldBackup, Fresh
  <2>2. copy.archive = OldBackup \/ copy.archive = Fresh
    BY <1>1, <2>1
  <2> QED BY <2>2, BackupIsTidy, FreshIsTidy
<1>4. pen = NoPen
  BY DEF ArchiveInit
<1> QED BY <1>2, <1>3, <1>4 DEF AccountInv, ToldIn, TailsGiven

LEMMA AccountStepKeeps ==
  ASSUME ArchiveInv, AccountInv, [ArchiveNext]_archiveVars
  PROVE  AccountInv' /\ StepLoses
<1>1. CASE Tick
  BY <1>1, IdleAccounts DEF Tick
<1>2. CASE \E t \in Tabs : Arrive(t)
  BY <1>2, ArriveAccounts
<1>3. CASE \E t \in Tabs : Leave(t)
  <2>1. db' = db /\ copy' = copy /\ (pen' = pen \/ pen' = NoPen)
    BY <1>3 DEF Leave
  <2> QED BY <2>1, IdleAccounts
<1>4. CASE \E t \in Tabs, s \in Sessions : OpenSession(t, s)
  BY <1>4, OpenSessionAccounts
<1>5. CASE \E t \in Tabs, s \in Sessions \cup {NoRow} : NoteViewing(t, s)
  BY <1>5, IdleAccounts DEF NoteViewing
<1>6. CASE \E st \in Streams : Hear(st) \/ CommitChunk(st) \/ GiveUp(st)
  BY <1>6, HearAccounts, CommitChunkAccounts, GiveUpAccounts
<1>7. CASE PruneToBudget \/ CloseSession
  BY <1>7, PruneToBudgetAccounts, CloseSessionAccounts
<1>8. CASE \E s \in Sessions : DeleteSession(s)
  BY <1>8, DeleteSessionAccounts
<1>9. CASE \E d \in {"complete", "hourly"} : Capture(d)
  BY <1>9, CaptureAccounts
<1>10. CASE Restore
  BY <1>10, RestoreAccounts
<1>11. CASE \E c \in Capacities : SaveCapacity(c)
  BY <1>11, IdleAccounts DEF SaveCapacity
<1>12. CASE UNCHANGED archiveVars
  BY <1>12, IdleAccounts DEF archiveVars
<1> QED BY <1>1, <1>2, <1>3, <1>4, <1>5, <1>6, <1>7, <1>8, <1>9, <1>10, <1>11, <1>12
        DEF ArchiveNext

\* Whatever was cut, summed, recovered or restored, each hour has one account
\* at most, that account holds every raw row of the hour, and a session that
\* may be summarised again still has raw all its later accounts stand for.
THEOREM SummariesStandForTheRows ==
  ASSUME "littered" \notin Legacies
  PROVE  ArchiveSpec => [](ArchiveInv /\ AccountInv)
<1>1. ArchiveInit => ArchiveInv /\ AccountInv
  BY ArchiveStarts, AccountStarts
<1>2. AccountInv /\ ArchiveInv /\ [ArchiveNext]_archiveVars => AccountInv'
  BY AccountStepKeeps
<1> QED BY <1>1, <1>2, ArchiveStepKeeps, PTL DEF ArchiveSpec

\* A sample the archive had of a session that stands is still in a raw row or
\* in a summary, unless its whole hour has gone: SummariesOutliveRaw.
THEOREM NoSampleGoesBeforeItsHour ==
  ASSUME "littered" \notin Legacies
  PROVE  ArchiveSpec => SummariesOutliveRaw
<1> DEFINE Body == Continues =>
             \A s \in DOMAIN db.rows \cap DOMAIN db'.rows :
               \A k \in Known(db, s) \ Known(db', s) :
                 HourOf(k[2]) \notin {x.hour : x \in Of(db'.hours, s)}
<1>1. ArchiveInv /\ AccountInv /\ [ArchiveNext]_archiveVars => Body
  BY AccountStepKeeps DEF StepLoses, Losing
<1>2. ArchiveInv /\ AccountInv /\ [ArchiveNext]_archiveVars => [Body]_archiveVars
  BY <1>1
<1> HIDE DEF Body
<1>3. ArchiveSpec => [][Body]_archiveVars
  BY <1>2, SummariesStandForTheRows, PTL DEF ArchiveSpec
<1> QED BY <1>3 DEF SummariesOutliveRaw, Body
=============================================================================
