--------------------------- MODULE CloudPublication ---------------------------
(***************************************************************************)
(* Several devices and one workspace folder on Google Drive, with no lock  *)
(* between them.  A publication is a complete copy of the workspace in one *)
(* or several files.  A device reads every completed publication, merges   *)
(* them, uploads a copy with its own news file by file, completes it by    *)
(* one change to its first file, and then takes away the very publications *)
(* it has read, one file at a time.  Any request may fail, be cancelled or *)
(* find its file gone, and a page may be closed between any two.           *)
(*                                                                         *)
(* Drive is external: a file is created, read, changed and deleted at one  *)
(* moment each, and a listing is of one moment.                            *)
(***************************************************************************)
EXTENDS Integers, FiniteSetsExt

CONSTANTS
  Devices,
  Copies,        \* CLOUD_SOURCE_COPIES: revisions kept of one device's history
  MaxVersion,    \* bound: how often two devices' histories change between them
  Settings,      \* the settings revisions that may be made
  Slots          \* bound: the publications there are at one time

ASSUME CloudPublicationAssumption ==
  Copies \in Nat \ {0} /\ MaxVersion \in Nat \ {0} /\ Slots \subseteq Nat

VARIABLES
  files,      \* the publications in the folder
  history,    \* which version each device's own history has come to
  sync,       \* the sync under way on each device
  imported    \* the version each device holds of every other one's history

vars == <<files, history, sync, imported>>

Versions == 0 .. MaxVersion
Revisions == [source : Devices, version : 1 .. MaxVersion]
Catalogues == [archives : SUBSET Revisions, settings : SUBSET Settings]

EmptyCatalogue == [archives |-> {}, settings |-> {}]

\* No file of it: "head" is the file of index 0, "rest" the others.
NoPublication == [role |-> "none", parts |-> {}, holds |-> EmptyCatalogue]

NoSync == [stage |-> "idle", seen |-> {}, catalogue |-> EmptyCatalogue,
           own |-> 0, cleaning |-> {}, at |-> 0]

Init ==
  /\ files = [p \in Slots |-> NoPublication]
  /\ history = [d \in Devices |-> 0]
  /\ sync = [d \in Devices |-> NoSync]
  /\ imported = [d \in Devices |-> [s \in Devices |-> 0]]

-----------------------------------------------------------------------------
(* Catalogues. *)

Of(role) == {p \in Slots : files[p].role = role}

VersionsOf(archives, source) == {r.version : r \in {a \in archives : a.source = source}}

Newest(archives, source) == Max({0} \cup VersionsOf(archives, source))

MergeFirst(catalogues) ==                                    \* mutant
  IF catalogues = {} THEN EmptyCatalogue ELSE CHOOSE c \in catalogues : TRUE

MergeCloudCatalogs(catalogues) ==
  [archives |-> UNION {c.archives : c \in catalogues},
   settings |-> UNION {c.settings : c \in catalogues}]

\* The latest copies of each source.
Trimmed(archives) ==
  {r \in archives :
     Cardinality({v \in VersionsOf(archives, r.source) : v > r.version}) < Copies}

\* What is to be published, given one settings revision or none.
Updated(d, catalogue, revision) ==
  LET own == IF history[d] > Newest(catalogue.archives, d)
             THEN {[source |-> d, version |-> history[d]]} ELSE {}
  IN  [archives |-> Trimmed(catalogue.archives \cup own),
       settings |-> catalogue.settings \cup revision]

-----------------------------------------------------------------------------
(* Reading. *)

Goes(d, next) == sync' = [sync EXCEPT ![d] = next]

HistoryGrows(d) ==
  /\ \A e \in Devices : history[d] + (IF e = d THEN 0 ELSE history[e]) < MaxVersion
  /\ history' = [history EXCEPT ![d] = @ + 1]
  /\ UNCHANGED <<files, sync, imported>>

\* What a cleanup will take away: what was read, and what was retired before.
Incorporated == Of("document") \cup Of("retired")

\* A listing is refused when it does not make sense; completed publications are
\* then downloaded, retired ones only remembered for the cleanup.
ListedWell ==
  /\ \A p \in Of("document") : files[p].parts = {"head", "rest"}
  /\ Of("retired") # {} => Of("document") # {}

Lists(d) ==
  /\ sync[d].stage = "idle"
  /\ ListedWell
  /\ Goes(d, [NoSync EXCEPT !.stage = "listed", !.seen = Of("document"),
                            !.cleaning = Incorporated,
                            !.catalogue = MergeCloudCatalogs({files[p].holds : p \in Of("document")})])
  /\ UNCHANGED <<files, history, imported>>

\* Every file of every completed publication is still there to be downloaded.
Downloads(d) ==
  /\ sync[d].stage = "listed"
  /\ \A p \in sync[d].seen : files[p].parts = {"head", "rest"}
  /\ Goes(d, [sync[d] EXCEPT !.stage = "read", !.seen = {}])
  /\ UNCHANGED <<files, history, imported>>

\* The catalogue is as it should be: there is nothing to write.
NothingToPublish(d) ==
  /\ sync[d].stage = "read"
  /\ Updated(d, sync[d].catalogue, {}) = sync[d].catalogue
  /\ Cardinality(sync[d].cleaning) <= 1
  /\ Goes(d, [sync[d] EXCEPT !.stage = "published", !.cleaning = {}])
  /\ UNCHANGED <<files, history, imported>>

-----------------------------------------------------------------------------
(* Writing. *)

\* A publication's identity is never used twice: neither is a slot some device
\* still has in mind.
Fresh ==
  Of("none") \ UNION {sync[d].seen \cup sync[d].cleaning \cup {sync[d].own, sync[d].at} :
                        d \in Devices}

StartsUpload(d) ==
  /\ sync[d].stage = "read"
  /\ \E revision \in {{}} \cup {{s} : s \in Settings} :
       LET updated == Updated(d, sync[d].catalogue, revision)
       IN  /\ \A p \in Slots, e \in Devices :
                revision \cap (files[p].holds.settings \cup sync[e].catalogue.settings) = {}
           /\ updated # sync[d].catalogue \/ Cardinality(sync[d].cleaning) > 1
           /\ \E p \in Fresh :
                /\ \A q \in Fresh : p <= q
                /\ files' = [files EXCEPT ![p] = [role |-> "pending", parts |-> {"head"},
                                                  holds |-> updated]]
                /\ Goes(d, [sync[d] EXCEPT !.stage = "uploading", !.own = p,
                                           !.catalogue = updated])
  /\ UNCHANGED <<history, imported>>

UploadsRest(d) ==
  /\ sync[d].stage = "uploading"
  /\ files' = [files EXCEPT ![sync[d].own].parts = {"head", "rest"}]
  /\ Goes(d, [sync[d] EXCEPT !.stage = "uploaded"])
  /\ UNCHANGED <<history, imported>>

\* Completed by the first file's role alone.
Completes(d) ==
  /\ sync[d].stage = "uploaded"
  /\ files' = [files EXCEPT ![sync[d].own].role = "document"]
  /\ Goes(d, [sync[d] EXCEPT !.stage = "cleaning", !.own = 0])
  /\ UNCHANGED <<history, imported>>

\* The change is made, and the answer never comes: the device takes it for failed.
CompletesUnheard(d) ==
  /\ sync[d].stage = "uploaded"
  /\ files' = [files EXCEPT ![sync[d].own].role = "document"]
  /\ Goes(d, NoSync)
  /\ UNCHANGED <<history, imported>>

-----------------------------------------------------------------------------
(* The cleanup: retire the first file, delete the others, delete the first. *)

\* The first file is looked at; a publication already gone is passed over.
LooksAtHead(d) ==
  /\ sync[d].stage = "cleaning"
  /\ \E p \in sync[d].cleaning :
       Goes(d, IF files[p].role = "none" THEN [sync[d] EXCEPT !.cleaning = @ \ {p}]
               ELSE [sync[d] EXCEPT !.stage = "retiring", !.at = p])
  /\ UNCHANGED <<files, history, imported>>

RetiresNothing(d) == UNCHANGED files                         \* mutant

RetiresHead(d) ==
  IF files[sync[d].at].role = "none" THEN UNCHANGED files
  ELSE files' = [files EXCEPT ![sync[d].at].role = "retired"]

\* Gone since it was looked at: not found, and the cleanup is over.
Retires(d) ==
  /\ sync[d].stage = "retiring"
  /\ RetiresHead(d)
  /\ Goes(d, IF files[sync[d].at].role = "none"
             THEN [sync[d] EXCEPT !.stage = "published", !.cleaning = {}, !.at = 0]
             ELSE [sync[d] EXCEPT !.stage = "deleting"])
  /\ UNCHANGED <<history, imported>>

DeletesRest(d) ==
  /\ sync[d].stage = "deleting"
  /\ files' = [files EXCEPT ![sync[d].at].parts = @ \ {"rest"}]
  /\ Goes(d, [sync[d] EXCEPT !.stage = "deleting head"])
  /\ UNCHANGED <<history, imported>>

DeletesHead(d) ==
  /\ sync[d].stage = "deleting head"
  /\ files' = [files EXCEPT ![sync[d].at] = NoPublication]
  /\ Goes(d, [sync[d] EXCEPT !.stage = "cleaning", !.cleaning = @ \ {sync[d].at}, !.at = 0])
  /\ UNCHANGED <<history, imported>>

\* Nothing is left to clean, or a request of the cleanup failed: the copy is
\* saved either way, and the sync goes on.
CleanupEnds(d) ==
  /\ sync[d].stage \in {"cleaning", "retiring", "deleting", "deleting head"}
  /\ Goes(d, [sync[d] EXCEPT !.stage = "published", !.cleaning = {}, !.at = 0])
  /\ UNCHANGED <<files, history, imported>>

-----------------------------------------------------------------------------
(* Bringing home. *)

\* Each source's latest, from the catalogue that was read and published.
Imports(d) ==
  /\ sync[d].stage = "published"
  /\ \E s \in Devices \ {d} :
       LET version == Newest(sync[d].catalogue.archives, s)
       IN  /\ version # 0 /\ version # imported[d][s]
           /\ imported' = [imported EXCEPT ![d][s] = version]
  /\ UNCHANGED <<files, history, sync>>

SyncEnds(d) ==
  /\ sync[d].stage = "published"
  /\ Goes(d, NoSync)
  /\ UNCHANGED <<files, history, imported>>

\* A request fails, the owner cancels or disconnects, the page is closed.
SyncFails(d) ==
  /\ sync[d].stage # "idle"
  /\ Goes(d, NoSync)
  /\ UNCHANGED <<files, history, imported>>

Next ==
  \E d \in Devices :
    \/ HistoryGrows(d) \/ Lists(d) \/ Downloads(d) \/ NothingToPublish(d)
    \/ StartsUpload(d) \/ UploadsRest(d) \/ Completes(d) \/ CompletesUnheard(d)
    \/ LooksAtHead(d) \/ Retires(d) \/ DeletesRest(d) \/ DeletesHead(d) \/ CleanupEnds(d)
    \/ Imports(d) \/ SyncEnds(d) \/ SyncFails(d)

Spec == Init /\ [][Next]_vars

-----------------------------------------------------------------------------
(* Properties. *)

TypeOK ==
  /\ \A p \in Slots :
       /\ files[p].role \in {"none", "pending", "document", "retired"}
       /\ files[p].parts \subseteq {"head", "rest"}
       /\ files[p].holds \in Catalogues
  /\ history \in [Devices -> Versions]
  /\ \A d \in Devices :
       /\ sync[d].stage \in {"idle", "listed", "read", "uploading", "uploaded", "cleaning",
                             "retiring", "deleting", "deleting head", "published"}
       /\ sync[d].seen \subseteq Slots /\ sync[d].cleaning \subseteq Slots
       /\ sync[d].catalogue \in Catalogues
       /\ sync[d].own \in Slots \cup {0} /\ sync[d].at \in Slots \cup {0}
  /\ imported \in [Devices -> [Devices -> Versions]]

\* However syncs overlap and wherever one is cut off, a reader never meets a
\* completed publication with files missing, nor retired history without its
\* replacement.
FolderMakesSense == TypeOK /\ ListedWell

\* "Each update uploads and verifies a new complete copy before retiring the exact
\* previous files it incorporated": nothing a device published is ever lost, and
\* nothing older is brought home over it.
PublishedArchives == UNION {files[p].holds.archives : p \in Of("document")}
PublishedSettings == UNION {files[p].holds.settings : p \in Of("document")}
Catalogue == INSTANCE SharedCatalogue WITH
  published <- [s \in Devices |-> Max({0} \cup VersionsOf(PublishedArchives, s))],
  settings <- PublishedSettings
ImplementsCatalogue == Catalogue!Spec

=============================================================================
