---------------------------- MODULE HistoryBrowser ----------------------------
(***************************************************************************)
(* What the Log, Stats and session pages read: historyBrowser.ts, with the *)
(* archive workspace that hands it one store after another, the address    *)
(* that asks for a session, and the stores whose answers come late, in any *)
(* order, or not well.                                                     *)
(*                                                                         *)
(* A token of the code that a call bumps and its answer compares is the    *)
(* mark `fresh` on the call: bumping the token takes it off the calls that *)
(* hold the token.  Everything read carries the archive it came from.      *)
(***************************************************************************)
EXTENDS Naturals, FiniteSets

CONSTANTS
  Stores,     \* archives that can be looked at: this browser's, imported ones
  Imported,   \* those that are read only
  Ids,        \* sessions
  Windows,    \* stretches of a session its page can ask for
  Keys,       \* packs a ledger is kept of
  NoStore, NoId, NoWindow, NoKey,
  MaxAsks     \* bound on what the owner and the recorder ask for

ASSUME BrowserAssumption ==
  /\ Imported \subseteq Stores
  /\ NoStore \notin Stores /\ NoId \notin Ids /\ NoWindow \notin Windows /\ NoKey \notin Keys
  /\ MaxAsks \in Nat

VARIABLES
  sessions,   \* per archive, the sessions it holds
  given,      \* the store of the history environment
  route,      \* the session the address names
  told,       \* the one the address watcher last acted on
  b,          \* the browser: what it shows and what it waits for
  asks        \* how many of MaxAsks are spent

vars == <<sessions, given, route, told, b, asks>>

-----------------------------------------------------------------------------
(* Shapes *)

NoSession == [of |-> NoId, window |-> NoWindow, from |-> NoStore]
NoLedger == [of |-> NoKey, from |-> NoStore]

Blank ==
  [subscribed |-> NoStore, requested |-> NoId, window |-> NoWindow, deferred |-> NoId,
   listed |-> NoStore, refreshing |-> FALSE, failed |-> FALSE,
   loaded |-> NoSession, loading |-> FALSE, missing |-> NoId, exported |-> "idle",
   key |-> NoKey, ledger |-> NoLedger, ledgerLoading |-> FALSE,
   unread |-> NoId,                        \* the session whose last read failed
   viewing |-> [s \in Stores |-> NoId],   \* what each store was last told is on screen
   calls |-> {}]

Call(kind, on, of, window) ==
  [kind |-> kind, on |-> on, of |-> of, window |-> window, fresh |-> TRUE, listing |-> FALSE]

\* A bumped token.  Reads and exports share one, the two ways to read a ledger another.
Stale(calls, kinds) == {IF c.kind \in kinds THEN [c EXCEPT !.fresh = FALSE] ELSE c : c \in calls}

\* A slip: an export has a token of its own, which another session leaves alone.
ReadsOnly == {"read"}

OfSession == {"read", "export"}
OfLedger == {"ledger", "ledgerAgain"}

-----------------------------------------------------------------------------
(* The browser.  An operator takes the browser and the store in force, and *)
(* gives the browser as the function of that name leaves it.               *)

\* noteViewing: a read-only store has none.
Tells(a, store, id) == IF store \in Stores \ Imported THEN [a EXCEPT !.viewing[store] = id] ELSE a

\* A slip: calls still out when the source is replaced keep their tokens.
ClearedButStillHeard(a) ==
  [a EXCEPT !.listed = NoStore, !.refreshing = FALSE, !.failed = FALSE,
            !.loaded = NoSession, !.loading = FALSE, !.missing = NoId, !.exported = "idle",
            !.key = NoKey, !.ledger = NoLedger, !.ledgerLoading = FALSE]

\* clearSourceState
Cleared(a) ==
  [a EXCEPT !.listed = NoStore, !.refreshing = FALSE, !.failed = FALSE,
            !.loaded = NoSession, !.loading = FALSE, !.missing = NoId, !.exported = "idle",
            !.key = NoKey, !.ledger = NoLedger, !.ledgerLoading = FALSE,
            !.calls = Stale(@, {"list"} \cup OfSession \cup OfLedger)]

\* activeStore: another store than the one followed takes its place.
Active(a, store) ==
  IF store = a.subscribed THEN a
  ELSE [Cleared(Tells(a, a.subscribed, NoId)) EXCEPT !.deferred = a.requested, !.subscribed = store]

\* read: its first half, up to the store's answer.
Reads(a, store, listing) ==
  LET at == Active(a, store)
  IN  IF a.requested = NoId THEN a
      ELSE IF store = NoStore THEN [at EXCEPT !.deferred = a.requested]
      ELSE [Tells(at, store, a.requested) EXCEPT !.deferred = NoId, !.loading = TRUE, !.unread = NoId,
              !.calls = Stale(@, OfSession) \cup
                {[Call("read", store, a.requested, a.window) EXCEPT !.listing = listing]}]

\* refreshLedgerInto
RefreshedLedger(a, store, key) ==
  LET at == [Active(a, store) EXCEPT !.key = key]
  IN  IF store = NoStore THEN at
      ELSE [at EXCEPT !.calls = Stale(@, OfLedger) \cup {Call("ledgerAgain", store, key, NoWindow)}]

\* refresh: its first half, up to the lists.
Refreshes(a, store) ==
  LET at == Active(a, store)
  IN  IF store = NoStore THEN at
      ELSE [at EXCEPT !.refreshing = TRUE,
              !.calls = Stale(@, {"list"}) \cup {Call("list", store, NoId, NoWindow)}]

\* refresh: its last part, over the ledger on screen.
LedgersAgain(a, store) == IF a.key = NoKey THEN a ELSE RefreshedLedger(a, store, a.key)

\* refresh: once the lists are in, or failed.
Listed(a, store) ==
  IF a.deferred # NoId THEN Reads(a, store, TRUE) ELSE LedgersAgain(a, store)

\* loadSession
Loads(a, store, id, window) ==
  LET at == Active(a, store)
      settled == at.loaded.of = id /\ ~at.loading
      left == IF at.loaded.of = id THEN at
              ELSE [at EXCEPT !.loaded = NoSession, !.exported = "idle"]
  IN  IF settled /\ window = NoWindow THEN at
      ELSE Reads([left EXCEPT !.requested = id, !.window = window, !.missing = NoId], store, FALSE)

\* A slip: the store goes on guarding a session nobody looks at.
UnloadsUntold(a, store) ==
  [a EXCEPT !.requested = NoId, !.window = NoWindow, !.deferred = NoId, !.loading = FALSE,
            !.loaded = NoSession, !.missing = NoId, !.exported = "idle",
            !.calls = Stale(@, OfSession)]

\* unloadSession
Unloads(a, store) ==
  Tells([a EXCEPT !.requested = NoId, !.window = NoWindow, !.deferred = NoId, !.loading = FALSE,
                  !.loaded = NoSession, !.missing = NoId, !.exported = "idle",
                  !.calls = Stale(@, OfSession)], store, NoId)

-----------------------------------------------------------------------------
(* What is asked of it *)

Asks == asks < MaxAsks /\ asks' = asks + 1

Init ==
  /\ sessions = [s \in Stores |-> Ids]
  /\ given = NoStore /\ route \in Ids \cup {NoId} /\ told = route
  /\ b = (IF route = NoId THEN Blank ELSE Loads(Blank, NoStore, route, NoWindow))
  /\ asks = 0

\* The owner follows a link, or goes back: the watcher of the address has run
\* by the time the page hears of another press.
Navigates(id) ==
  /\ Asks
  /\ route = told /\ id # route /\ route' = id
  /\ UNCHANGED <<sessions, given, told, b>>

\* The watcher of the address, once the page has settled.
AddressWatched ==
  /\ route # told /\ told' = route
  /\ b' = IF route = NoId THEN Unloads(b, given) ELSE Loads(b, given, route, NoWindow)
  /\ UNCHANGED <<sessions, given, route, asks>>

\* shiftWindow: the session's page asks for another stretch of it.
ShiftsWindow(window) ==
  /\ Asks
  /\ route # NoId /\ b.loaded.of # NoId /\ window # b.window
  /\ b' = Loads(b, given, route, window)
  /\ UNCHANGED <<sessions, given, route, told>>

\* A slip: the session the address names is not asked of the new archive.
ShowsHistoryOnly(store) ==
  /\ Asks
  /\ given' = store
  /\ b' = Refreshes(Unloads(b, given), store)
  /\ UNCHANGED <<sessions, route, told>>

\* showHistory: an archive is chosen, restored, or first opened.
ShowsHistory(store) ==
  /\ Asks
  /\ given' = store
  /\ LET listing == Refreshes(Unloads(b, given), store)
     IN  b' = IF route = NoId THEN listing ELSE Loads(listing, store, route, NoWindow)
  /\ UNCHANGED <<sessions, route, told>>

\* The store's watch, or a page that opens: the lists are read again.
Relists ==
  /\ Asks
  /\ b.subscribed # NoStore
  /\ b' = Refreshes(b, given)
  /\ UNCHANGED <<sessions, given, route, told>>

\* loadLedgerInto
LoadsLedger(key) ==
  /\ Asks
  /\ LET at == [Active(b, given) EXCEPT !.key = key, !.ledger = NoLedger]
     IN  b' = IF given = NoStore THEN at
              ELSE [at EXCEPT !.ledgerLoading = TRUE,
                      !.calls = Stale(@, OfLedger) \cup {Call("ledger", given, key, NoWindow)}]
  /\ UNCHANGED <<sessions, given, route, told>>

\* refreshRingLedger: telemetry has filed a read of this pack.
FilesLedger(key) ==
  /\ Asks
  /\ b' = RefreshedLedger(b, given, key)
  /\ UNCHANGED <<sessions, given, route, told>>

\* renameDevice, setPackClock, deleteRingLedger and deleteSession, up to the
\* store's answer.
Changes(kind, of) ==
  /\ Asks
  /\ given # NoStore /\ given \notin Imported
  /\ b' = LET at == Active(b, given)
          IN  [at EXCEPT !.calls = @ \cup {Call(kind, given, of, NoWindow)}]
  /\ UNCHANGED <<sessions, given, route, told>>

Amends == Changes("amend", NoId)
ForgetsLedger(key) == Changes("forget", key)
Removes == route # NoId /\ Changes("delete", route)

\* downloadSession, up to the first stream's end.
Downloads ==
  /\ Asks
  /\ given # NoStore /\ b.loaded.of # NoId /\ b.exported # "working"
  /\ b' = [b EXCEPT !.exported = "working",
             !.calls = @ \cup {Call("export", given, b.loaded.of, NoWindow)}]
  /\ UNCHANGED <<sessions, given, route, told>>

-----------------------------------------------------------------------------
(* What the stores answer *)

Answered(c) == [b EXCEPT !.calls = @ \ {c}]

\* refresh goes on.
ListsAnswered(c, ok) ==
  /\ c \in b.calls /\ c.kind = "list"
  /\ b' = IF ~c.fresh THEN Answered(c)
          ELSE Listed([Answered(c) EXCEPT !.refreshing = FALSE, !.failed = ~ok,
                                          !.listed = IF ok THEN c.on ELSE @], given)
  /\ UNCHANGED <<sessions, given, route, told, asks>>

\* read goes on.
SessionAnswered(c, ok) ==
  /\ c \in b.calls /\ c.kind = "read"
  /\ LET held == c.of \in sessions[c.on]
         read == [Answered(c) EXCEPT !.loading = FALSE,
                    !.loaded = IF ok /\ held THEN [of |-> c.of, window |-> c.window, from |-> c.on]
                               ELSE NoSession,
                    !.unread = IF ok THEN NoId ELSE c.of,
                    !.missing = IF ~ok THEN @ ELSE IF held THEN NoId ELSE c.of,
                    !.failed = IF ~ok THEN TRUE ELSE IF held THEN FALSE ELSE @]
         after == IF c.fresh THEN read ELSE Answered(c)
     IN  b' = IF c.listing THEN LedgersAgain(after, given) ELSE after
  /\ UNCHANGED <<sessions, given, route, told, asks>>

\* loadLedgerInto and refreshLedgerInto go on.
LedgerAnswered(c, ok) ==
  /\ c \in b.calls /\ c.kind \in OfLedger
  /\ b' = IF ~c.fresh THEN Answered(c)
          ELSE [Answered(c) EXCEPT
                  !.ledger = IF ok THEN [of |-> c.of, from |-> c.on]
                             ELSE IF c.kind = "ledger" THEN NoLedger ELSE @,
                  !.ledgerLoading = IF c.kind = "ledger" THEN FALSE ELSE @]
  /\ UNCHANGED <<sessions, given, route, told, asks>>

\* The browser once the store has made a change: deleteRingLedger forgets the
\* ledger on screen, deleteSession the session.
After(c) ==
  LET a == Answered(c)
  IN  CASE c.kind = "forget" /\ c.of = a.key ->
             [a EXCEPT !.key = NoKey, !.ledger = NoLedger, !.calls = Stale(@, OfLedger)]
        [] c.kind = "delete" /\ c.of \in {a.requested, a.loaded.of} -> Unloads(a, given)
        [] OTHER -> a

\* The change is made, or refused; its page then leaves a deleted session.
ChangeAnswered(c, ok) ==
  /\ c \in b.calls /\ c.kind \in {"amend", "forget", "delete"}
  /\ sessions' = IF ok /\ c.kind = "delete" THEN [sessions EXCEPT ![c.on] = @ \ {c.of}] ELSE sessions
  /\ LET changed == IF c.on # given THEN Answered(c)
                    ELSE IF ~ok THEN [Answered(c) EXCEPT !.failed = TRUE]
                    ELSE Refreshes(After(c), given)
     IN  b' = IF c.kind # "delete" THEN changed
              ELSE [changed EXCEPT !.calls = @ \cup {Call("leave", NoStore, NoId, NoWindow)}]
  /\ UNCHANGED <<given, route, told, asks>>

\* remove goes on, once deleteSession is over: back to the Log.
LeavesSession(c) ==
  /\ c \in b.calls /\ c.kind = "leave"
  /\ route' = NoId /\ b' = Answered(c)
  /\ UNCHANGED <<sessions, given, told, asks>>

\* downloadSession goes on: the file is handed over, or not.
ExportAnswered(c, ok) ==
  /\ c \in b.calls /\ c.kind = "export"
  /\ b' = IF ~c.fresh THEN Answered(c)
          ELSE IF ok THEN [Answered(c) EXCEPT !.exported = "done"]
          ELSE [Answered(c) EXCEPT !.exported = "failed", !.failed = TRUE]
  /\ UNCHANGED <<sessions, given, route, told, asks>>

Answers ==
  \E c \in b.calls, ok \in BOOLEAN :
    \/ ListsAnswered(c, ok) \/ SessionAnswered(c, ok) \/ LedgerAnswered(c, ok)
    \/ ChangeAnswered(c, ok) \/ ExportAnswered(c, ok)

Leaves == \E c \in b.calls : LeavesSession(c)

Asked ==
  \/ \E id \in Ids \cup {NoId} : Navigates(id)
  \/ \E w \in Windows : ShiftsWindow(w)
  \/ \E s \in Stores : ShowsHistory(s)
  \/ \E k \in Keys : LoadsLedger(k) \/ FilesLedger(k) \/ ForgetsLedger(k)
  \/ Relists \/ Amends \/ Removes \/ Downloads

Next == Asked \/ AddressWatched \/ Answers \/ Leaves

Fairness == WF_vars(AddressWatched) /\ WF_vars(Answers) /\ WF_vars(Leaves)

Spec == Init /\ [][Next]_vars /\ Fairness

-----------------------------------------------------------------------------
(* Properties *)

StoreOrNone == Stores \cup {NoStore}
IdOrNone == Ids \cup {NoId}
WindowOrNone == Windows \cup {NoWindow}
KeyOrNone == Keys \cup {NoKey}

Calls ==
  {c \in [kind : OfSession \cup OfLedger \cup {"list", "delete", "amend", "forget", "leave"},
          on : StoreOrNone, of : IdOrNone \cup Keys, window : WindowOrNone,
          fresh : BOOLEAN, listing : BOOLEAN] :
     /\ c.kind \in OfSession \cup {"delete"} => c.of \in Ids
     /\ c.kind \in OfLedger \cup {"forget"} => c.of \in Keys
     /\ c.kind # "leave" => c.on \in Stores}

Browsers ==
  [subscribed : StoreOrNone, requested : IdOrNone, window : WindowOrNone, deferred : IdOrNone,
   listed : StoreOrNone, refreshing : BOOLEAN, failed : BOOLEAN,
   loaded : [of : IdOrNone, window : WindowOrNone, from : StoreOrNone],
   loading : BOOLEAN, missing : IdOrNone, unread : IdOrNone,
   exported : {"idle", "working", "done", "failed"},
   key : KeyOrNone, ledger : [of : KeyOrNone, from : StoreOrNone], ledgerLoading : BOOLEAN,
   viewing : [Stores -> IdOrNone], calls : SUBSET Calls]

\* Every call is one the browser makes, and of a kind of thing that call is about.
TypeOK ==
  /\ sessions \in [Stores -> SUBSET Ids]
  /\ given \in StoreOrNone /\ route \in IdOrNone /\ told \in IdOrNone
  /\ b \in Browsers /\ asks \in 0 .. MaxAsks

ScreenIsOneArchive ==
  {b.listed, b.loaded.from, b.ledger.from} \subseteq {given, NoStore}
ShownIsAsked ==
  b.loaded.of # NoId => /\ b.loaded.of = b.requested
                        /\ b.loading \/ b.loaded.window = b.window

\* Whatever archive, session and stretch are chosen while answers are out: the
\* lists, the session and the ledger on screen came from the archive chosen, the
\* session is the one last asked for and, once nothing loads, the stretch is too.
ScreenIsWhatWasAsked == TypeOK /\ ScreenIsOneArchive /\ ShownIsAsked

\* The archive on screen knows which session is, and no other archive guards
\* one: room is made by what each was last told.
ViewingIsTold ==
  /\ \A s \in Stores : b.viewing[s] # NoId => s = given /\ b.viewing[s] = b.requested
  /\ b.loaded.of # NoId /\ given \notin Imported => b.viewing[given] = b.loaded.of

\* A file handed over is of the session the page is on, out of the archive chosen.
FileIsOfTheSessionAsked ==
  [][b'.exported = "done" /\ b.exported # "done" =>
       \A c \in b.calls \ b'.calls : c.of = b.requested /\ c.on = given]_vars

AddressIsAnswered ==
  \A id \in Ids : (route = id /\ given # NoStore) ~> (route # id \/ id \in {b.loaded.of, b.missing, b.unread})

LoadingEnds == (b.loading \/ b.refreshing) ~> (~b.loading /\ ~b.refreshing)

\* A session the address goes on naming is in the end shown, or known to be
\* missing, or its read has failed (which `failed` says, until lists that are
\* answered later take it back); and nothing there loads for ever.
ReadingEnds == AddressIsAnswered /\ LoadingEnds
=============================================================================
