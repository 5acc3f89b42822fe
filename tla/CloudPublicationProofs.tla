------------------------ MODULE CloudPublicationProofs ------------------------
(***************************************************************************)
(* For any number of devices and publications: a reader never meets a      *)
(* folder that makes no sense, and nothing published is ever lost, though  *)
(* every device deletes what others wrote and no lock stands between them. *)
(***************************************************************************)
EXTENDS CloudPublication, FiniteSetTheorems, TLAPS

-----------------------------------------------------------------------------
(* The newest of a set of versions *)

\* Of the sets of greater members, one is the least: it is empty.
LEMMA GreatestExists ==
  ASSUME NEW n \in Nat, NEW S \in SUBSET (0 .. n), S # {}
  PROVE  \E m \in S : \A k \in S : m >= k
<1> DEFINE Above(k) == {j \in S : j > k}
           family == {Above(k) : k \in S}
           all == 0 .. n
<1>1. IsFiniteSet(all)
  BY FS_Interval
<1>2. IsWellFoundedOn(StrictSubsetOrdering(all), SUBSET all)
  BY <1>1, FS_StrictSubsetOrderingWellFounded, FS_FiniteSubsetsOfFinite
<1>3. family \subseteq SUBSET all /\ family # {}
  OBVIOUS
<1> HIDE DEF family
<1>4. PICK least \in family : \A other \in family : <<other, least>> \notin StrictSubsetOrdering(all)
  BY <1>2, <1>3, WFMin
<1>5. PICK m \in S : least = Above(m)
  BY DEF family
<1>6. ASSUME NEW j \in Above(m) PROVE FALSE
  <2>1. Above(j) \in family
    BY <1>6 DEF family
  <2>2. Above(j) \subseteq Above(m) /\ j \notin Above(j)
    <3>1. j \in Int /\ m \in Int /\ j > m /\ S \subseteq Int
      BY <1>6
    <3>2. ASSUME NEW i \in S, i > j PROVE i > m
      BY <3>1, <3>2
    <3>3. Above(j) \subseteq Above(m)
      BY <3>2
    <3> QED BY <3>1, <3>3
  <2>3. <<Above(j), Above(m)>> \in StrictSubsetOrdering(all)
    BY <1>3, <1>5, <1>6, <2>1, <2>2 DEF StrictSubsetOrdering
  <2> QED BY <1>4, <1>5, <2>1, <2>3
<1> QED BY <1>6

LEMMA MaxIs ==
  ASSUME NEW n \in Nat, NEW S \in SUBSET (0 .. n), S # {}
  PROVE  Max(S) \in S /\ \A k \in S : Max(S) >= k
  BY GreatestExists DEF Max

\* Newest is the newest version there is of a source, or none.
LEMMA NewestIs ==
  ASSUME NEW archives \in SUBSET Revisions, NEW s
  PROVE  /\ Newest(archives, s) \in Versions
         /\ Newest(archives, s) # 0 =>
              \E r \in archives : r.source = s /\ r.version = Newest(archives, s)
         /\ \A r \in archives : r.source = s => r.version <= Newest(archives, s)
<1> DEFINE all == {0} \cup VersionsOf(archives, s)
<1>1. all \subseteq 0 .. MaxVersion /\ MaxVersion \in Nat
  BY CloudPublicationAssumption DEF VersionsOf, Revisions
<1>2. Max(all) \in all /\ \A k \in all : Max(all) >= k
  <2> HIDE DEF all
  <2>1. all # {}
    BY DEF all
  <2> QED BY <1>1, <2>1, MaxIs
<1>3. Newest(archives, s) = Max(all)
  BY DEF Newest
<1>4. \A r \in archives : r.source = s => r.version \in all
  BY DEF VersionsOf
<1>5. \A k \in all : k # 0 => \E r \in archives : r.source = s /\ r.version = k
  BY DEF VersionsOf
<1> HIDE DEF all
<1> QED BY <1>1, <1>2, <1>3, <1>4, <1>5 DEF Versions

\* Every archive of a is in b, in that version or a newer one.
Keeps(a, b) == \A r \in a : \E t \in b : t.source = r.source /\ t.version >= r.version

\* Newest only looks at how far each source's archives go.
LEMMA NewestKept ==
  ASSUME NEW a \in SUBSET Revisions, NEW c \in SUBSET Revisions, Keeps(a, c), NEW s
  PROVE  Newest(a, s) <= Newest(c, s)
<1>1. /\ Newest(a, s) \in Nat /\ Newest(c, s) \in Nat
      /\ \A t \in c : t.source = s => t.version <= Newest(c, s)
      /\ \A t \in c : t.version \in Nat
  BY NewestIs, CloudPublicationAssumption DEF Versions, Revisions
<1>2. CASE Newest(a, s) = 0
  BY <1>1, <1>2
<1>3. CASE Newest(a, s) # 0
  <2>1. PICK r \in a : r.source = s /\ r.version = Newest(a, s)
    BY <1>3, NewestIs
  <2>2. PICK t \in c : t.source = s /\ t.version >= r.version
    BY <2>1 DEF Keeps
  <2> QED BY <1>1, <2>1, <2>2
<1> QED BY <1>2, <1>3

\* Trimming leaves the newest copy of every source.
LEMMA TrimmedKeeps ==
  ASSUME NEW a \in SUBSET Revisions
  PROVE  Trimmed(a) \subseteq a /\ Keeps(a, Trimmed(a))
<1>1. Trimmed(a) \subseteq a
  BY DEF Trimmed
<1>2. ASSUME NEW r \in a
      PROVE  \E t \in Trimmed(a) : t.source = r.source /\ t.version >= r.version
  <2>1. /\ Newest(a, r.source) \in Nat /\ r.version \in Nat \ {0}
        /\ r.version <= Newest(a, r.source)
    BY NewestIs, CloudPublicationAssumption DEF Versions, Revisions
  <2>2. PICK t \in a : t.source = r.source /\ t.version = Newest(a, r.source)
    BY <2>1, NewestIs
  <2>3. {v \in VersionsOf(a, t.source) : v > t.version} = {}
    <3> SUFFICES ASSUME NEW v \in VersionsOf(a, t.source), v > t.version PROVE FALSE
      OBVIOUS
    <3>1. PICK k \in a : k.source = t.source /\ k.version = v
      BY DEF VersionsOf
    <3>2. k.version <= Newest(a, r.source) /\ k.version \in Nat
      BY <2>2, <3>1, NewestIs, CloudPublicationAssumption DEF Revisions
    <3> QED BY <2>1, <2>2, <3>1, <3>2
  <2>4. t \in Trimmed(a)
    BY <2>3, FS_EmptySet, CloudPublicationAssumption DEF Trimmed
  <2> QED BY <2>1, <2>2, <2>4
<1> QED BY <1>1, <1>2 DEF Keeps

-----------------------------------------------------------------------------
(* Types *)

Roles == {"none", "pending", "document", "retired"}
Stages == {"idle", "listed", "read", "uploading", "uploaded", "cleaning",
           "retiring", "deleting", "deleting head", "published"}
Parts == SUBSET {"head", "rest"}
Publications == [role : Roles, parts : Parts, holds : Catalogues]
Syncs == [stage : Stages, seen : SUBSET Slots, catalogue : Catalogues,
          own : Slots \cup {0}, cleaning : SUBSET Slots, at : Slots \cup {0}]

Typed ==
  /\ files \in [Slots -> Publications]
  /\ sync \in [Devices -> Syncs]
  /\ history \in [Devices -> Versions]
  /\ imported \in [Devices -> [Devices -> Versions]]

LEMMA FieldsOfFiles ==
  ASSUME files \in [Slots -> Publications], NEW p \in Slots
  PROVE  /\ files[p].role \in Roles /\ files[p].parts \in Parts /\ files[p].holds \in Catalogues
         /\ files[p] = [role |-> files[p].role, parts |-> files[p].parts, holds |-> files[p].holds]
<1>1. files[p] \in Publications
  OBVIOUS
<1> QED BY <1>1 DEF Publications

LEMMA FieldsOfSync ==
  ASSUME sync \in [Devices -> Syncs], NEW d \in Devices
  PROVE  /\ sync[d].stage \in Stages /\ sync[d].catalogue \in Catalogues
         /\ sync[d].seen \subseteq Slots /\ sync[d].cleaning \subseteq Slots
         /\ sync[d].own \in Slots \cup {0} /\ sync[d].at \in Slots \cup {0}
         /\ sync[d] = [stage |-> sync[d].stage, seen |-> sync[d].seen,
                       catalogue |-> sync[d].catalogue, own |-> sync[d].own,
                       cleaning |-> sync[d].cleaning, at |-> sync[d].at]
<1>1. sync[d] \in Syncs
  OBVIOUS
<1> QED BY <1>1 DEF Syncs

LEMMA TypedIsTypeOK == Typed => TypeOK
<1> SUFFICES ASSUME Typed PROVE TypeOK
  OBVIOUS
<1>1. \A p \in Slots : files[p].role \in Roles /\ files[p].parts \in Parts /\ files[p].holds \in Catalogues
  BY FieldsOfFiles DEF Typed
<1>2. \A d \in Devices :
        /\ sync[d].stage \in Stages /\ sync[d].catalogue \in Catalogues
        /\ sync[d].seen \subseteq Slots /\ sync[d].cleaning \subseteq Slots
        /\ sync[d].own \in Slots \cup {0} /\ sync[d].at \in Slots \cup {0}
  BY FieldsOfSync DEF Typed
<1> QED BY <1>1, <1>2 DEF Typed, TypeOK, Roles, Stages, Parts

LEMMA CatalogueFields ==
  /\ \A c \in Catalogues : c.archives \in SUBSET Revisions /\ c.settings \in SUBSET Settings
  /\ EmptyCatalogue \in Catalogues
  BY DEF Catalogues, EmptyCatalogue

LEMMA PublishedIsTyped ==
  ASSUME files \in [Slots -> Publications]
  PROVE  /\ PublishedArchives \in SUBSET Revisions /\ PublishedSettings \in SUBSET Settings
         /\ [archives |-> PublishedArchives, settings |-> PublishedSettings] \in Catalogues
         /\ MergeCloudCatalogs({files[p].holds : p \in Of("document")})
              = [archives |-> PublishedArchives, settings |-> PublishedSettings]
<1>1. \A p \in Slots : files[p].holds \in Catalogues
  BY FieldsOfFiles
<1>2. \A p \in Slots : /\ files[p].holds.archives \in SUBSET Revisions
                       /\ files[p].holds.settings \in SUBSET Settings
  BY <1>1, CatalogueFields
<1>3. PublishedArchives \in SUBSET Revisions /\ PublishedSettings \in SUBSET Settings
  BY <1>2 DEF PublishedArchives, PublishedSettings, Of
<1>4. /\ UNION {c.archives : c \in {files[p].holds : p \in Of("document")}} = PublishedArchives
      /\ UNION {c.settings : c \in {files[p].holds : p \in Of("document")}} = PublishedSettings
  BY DEF PublishedArchives, PublishedSettings
<1> QED BY <1>3, <1>4 DEF Catalogues, MergeCloudCatalogs

\* An update keeps what was read, and adds the device's own news and one revision.
LEMMA UpdatedIs ==
  ASSUME Typed, NEW d \in Devices, NEW c \in Catalogues, NEW revision \in SUBSET Settings
  PROVE  /\ Updated(d, c, revision) \in Catalogues
         /\ Keeps(c.archives, Updated(d, c, revision).archives)
         /\ \A r \in Updated(d, c, revision).archives : r \in c.archives \/ r.source = d
         /\ Updated(d, c, revision).settings = c.settings \cup revision
<1> DEFINE own == IF history[d] > Newest(c.archives, d)
                  THEN {[source |-> d, version |-> history[d]]} ELSE {}
           all == c.archives \cup own
<1>1. c.archives \in SUBSET Revisions /\ c.settings \in SUBSET Settings
  BY CatalogueFields
<1>2. Newest(c.archives, d) \in Versions /\ history[d] \in Versions
  BY <1>1, NewestIs DEF Typed
<1>3. own \in SUBSET Revisions /\ \A r \in own : r.source = d
  <2>1. CASE history[d] > Newest(c.archives, d)
    <3>1. history[d] \in 1 .. MaxVersion
      BY <1>2, <2>1, CloudPublicationAssumption DEF Versions
    <3> QED BY <2>1, <3>1 DEF Revisions
  <2>2. CASE ~(history[d] > Newest(c.archives, d))
    BY <2>2
  <2> QED BY <2>1, <2>2
<1>4. Updated(d, c, revision) = [archives |-> Trimmed(all), settings |-> c.settings \cup revision]
  BY DEF Updated
<1> HIDE DEF own
<1>5. all \in SUBSET Revisions
  BY <1>1, <1>3
<1>6. Trimmed(all) \subseteq all /\ Keeps(all, Trimmed(all))
  <2> HIDE DEF all
  <2> QED BY <1>5, TrimmedKeeps
<1>7. Keeps(c.archives, Trimmed(all))
  BY <1>6 DEF Keeps
<1>8. \A r \in Trimmed(all) : r \in c.archives \/ r.source = d
  BY <1>3, <1>6
<1>9. Trimmed(all) \in SUBSET Revisions
  BY <1>5, <1>6
<1> HIDE DEF all
<1> QED BY <1>1, <1>4, <1>7, <1>8, <1>9 DEF Catalogues

-----------------------------------------------------------------------------
(* What the steps do *)

\* The sync of d, and no other, comes to these values.
Now(d, stage, catalogue, own, cleaning, at) ==
  /\ sync' \in [Devices -> Syncs]
  /\ \A e \in Devices \ {d} : sync'[e] = sync[e]
  /\ sync'[d].stage = stage /\ sync'[d].catalogue = catalogue /\ sync'[d].own = own
  /\ sync'[d].cleaning = cleaning /\ sync'[d].at = at

\* The publication p, and no other, comes to these values.
Becomes(p, role, parts, holds) ==
  /\ p \in Slots
  /\ files' \in [Slots -> Publications]
  /\ \A q \in Slots \ {p} : files'[q] = files[q]
  /\ files'[p].role = role /\ files'[p].parts = parts /\ files'[p].holds = holds

LEMMA GoesIsNow ==
  ASSUME sync \in [Devices -> Syncs], NEW d \in Devices, NEW next \in Syncs, Goes(d, next)
  PROVE  Now(d, next.stage, next.catalogue, next.own, next.cleaning, next.at)
  BY DEF Goes, Now

LEMMA WriteIsBecomes ==
  ASSUME files \in [Slots -> Publications], NEW p \in Slots,
         NEW role \in Roles, NEW parts \in Parts, NEW holds \in Catalogues,
         files' = [files EXCEPT ![p] = [role |-> role, parts |-> parts, holds |-> holds]]
  PROVE  Becomes(p, role, parts, holds)
<1> DEFINE next == [role |-> role, parts |-> parts, holds |-> holds]
<1>1. next \in Publications
  BY DEF Publications
<1>2. next.role = role /\ next.parts = parts /\ next.holds = holds
  OBVIOUS
<1>3. files' = [files EXCEPT ![p] = next]
  OBVIOUS
<1> HIDE DEF next
<1> QED BY <1>1, <1>2, <1>3 DEF Becomes

\* A change of one field is a write of the whole record.
LEMMA FieldWrites ==
  ASSUME files \in [Slots -> Publications], NEW p \in Slots
  PROVE  /\ \A role \in Roles :
              files' = [files EXCEPT ![p].role = role]
                => Becomes(p, role, files[p].parts, files[p].holds)
         /\ \A parts \in Parts :
              files' = [files EXCEPT ![p].parts = parts]
                => Becomes(p, files[p].role, parts, files[p].holds)
<1> DEFINE f == files[p]
<1>0. f.role \in Roles /\ f.parts \in Parts /\ f.holds \in Catalogues
  BY FieldsOfFiles
<1>1. f = [role |-> f.role, parts |-> f.parts, holds |-> f.holds]
  BY FieldsOfFiles
<1>2. \A role : [f EXCEPT !.role = role] = [role |-> role, parts |-> f.parts, holds |-> f.holds]
  BY <1>1
<1>3. \A parts : [f EXCEPT !.parts = parts] = [role |-> f.role, parts |-> parts, holds |-> f.holds]
  BY <1>1
<1>4. ASSUME NEW role \in Roles, files' = [files EXCEPT ![p].role = role]
      PROVE  Becomes(p, role, f.parts, f.holds)
  <2>1. files' = [files EXCEPT ![p] = [role |-> role, parts |-> f.parts, holds |-> f.holds]]
    BY <1>2, <1>4
  <2> HIDE DEF f
  <2> QED BY <1>0, <2>1, WriteIsBecomes
<1>5. ASSUME NEW parts \in Parts, files' = [files EXCEPT ![p].parts = parts]
      PROVE  Becomes(p, f.role, parts, f.holds)
  <2>1. files' = [files EXCEPT ![p] = [role |-> f.role, parts |-> parts, holds |-> f.holds]]
    BY <1>3, <1>5
  <2> HIDE DEF f
  <2> QED BY <1>0, <2>1, WriteIsBecomes
<1> QED BY <1>4, <1>5

\* What each of a device's steps does to its own sync and to the folder.
Look(d) ==
  \/ /\ Lists(d) /\ ListedWell
     /\ Now(d, "listed", [archives |-> PublishedArchives, settings |-> PublishedSettings],
            0, Incorporated, 0)
  \/ /\ Downloads(d) /\ sync[d].stage = "listed"
     /\ Now(d, "read", sync[d].catalogue, sync[d].own, sync[d].cleaning, sync[d].at)

\* The sync goes on to bring home or ends.
Rest(d) ==
  \/ /\ sync[d].stage \notin {"idle", "published"}
     /\ \E at \in Slots \cup {0} : Now(d, "published", sync[d].catalogue, sync[d].own, {}, at)
  \/ Now(d, "idle", EmptyCatalogue, 0, {}, 0)

Pass(d) ==
  /\ sync[d].stage = "cleaning"
  /\ \E p \in sync[d].cleaning :
       \/ /\ files[p].role = "none"
          /\ Now(d, "cleaning", sync[d].catalogue, sync[d].own, sync[d].cleaning \ {p}, sync[d].at)
       \/ Now(d, "retiring", sync[d].catalogue, sync[d].own, sync[d].cleaning, p)

Begin(d) ==
  \E revision \in SUBSET Settings, p \in Fresh :
    /\ revision = {} \/ \E s \in Settings : revision = {s}
    /\ Becomes(p, "pending", {"head"}, Updated(d, sync[d].catalogue, revision))
    /\ Now(d, "uploading", Updated(d, sync[d].catalogue, revision), p,
           sync[d].cleaning, sync[d].at)

Fill(d) ==
  /\ Becomes(sync[d].own, files[sync[d].own].role, {"head", "rest"}, files[sync[d].own].holds)
  /\ Now(d, "uploaded", sync[d].catalogue, sync[d].own, sync[d].cleaning, sync[d].at)

Complete(d) ==
  /\ Becomes(sync[d].own, "document", files[sync[d].own].parts, files[sync[d].own].holds)
  /\ \/ Now(d, "cleaning", sync[d].catalogue, 0, sync[d].cleaning, sync[d].at)
     \/ Now(d, "idle", EmptyCatalogue, 0, {}, 0)

Retire(d) ==
  /\ Becomes(sync[d].at, "retired", files[sync[d].at].parts, files[sync[d].at].holds)
  /\ Now(d, "deleting", sync[d].catalogue, sync[d].own, sync[d].cleaning, sync[d].at)

Trim(d) ==
  /\ Becomes(sync[d].at, files[sync[d].at].role, files[sync[d].at].parts \ {"rest"},
             files[sync[d].at].holds)
  /\ Now(d, "deleting head", sync[d].catalogue, sync[d].own, sync[d].cleaning, sync[d].at)

Clear(d) ==
  /\ Becomes(sync[d].at, "none", {}, EmptyCatalogue)
  /\ Now(d, "cleaning", sync[d].catalogue, sync[d].own, sync[d].cleaning \ {sync[d].at}, 0)

-----------------------------------------------------------------------------
(* The folder: who writes what *)

Uploading == {"uploading", "uploaded"}
Cleaning == {"cleaning", "retiring", "deleting", "deleting head"}

\* The copy under way is pending, and holds what the device means to publish.
Own(d) == sync[d].stage \in Uploading =>
  /\ sync[d].own \in Slots
  /\ files[sync[d].own].role = "pending"
  /\ files[sync[d].own].holds = sync[d].catalogue
  /\ sync[d].stage = "uploaded" => files[sync[d].own].parts = {"head", "rest"}

\* What is to be taken away was completed once.
Cleaned(d) == \A p \in sync[d].cleaning : files[p].role # "pending"

\* Only what was retired loses files.
At(d) == sync[d].stage \in {"retiring", "deleting", "deleting head"} =>
  /\ sync[d].at \in sync[d].cleaning
  /\ sync[d].stage # "retiring" => files[sync[d].at].role # "document"

Apart == \A d, e \in Devices :
  d # e /\ sync[d].stage \in Uploading /\ sync[e].stage \in Uploading
    => sync[d].own # sync[e].own

Whole == \A p \in Slots : files[p].role = "document" => files[p].parts = {"head", "rest"}

Structure ==
  /\ Typed
  /\ \A d \in Devices : Own(d) /\ Cleaned(d) /\ At(d)
  /\ Apart
  /\ Whole

\* One step of device d, by what it does to the folder.
Step(d) ==
  \/ HistoryGrows(d)
  \/ (Look(d) \/ Rest(d) \/ Pass(d)) /\ UNCHANGED <<files, history, imported>>
  \/ Begin(d) /\ sync[d].stage = "read" /\ UNCHANGED <<history, imported>>
  \/ Fill(d) /\ sync[d].stage = "uploading" /\ UNCHANGED <<history, imported>>
  \/ Complete(d) /\ sync[d].stage = "uploaded" /\ UNCHANGED <<history, imported>>
  \/ Retire(d) /\ sync[d].stage = "retiring" /\ UNCHANGED <<history, imported>>
  \/ Trim(d) /\ sync[d].stage = "deleting" /\ UNCHANGED <<history, imported>>
  \/ Clear(d) /\ sync[d].stage = "deleting head" /\ UNCHANGED <<history, imported>>
  \/ Imports(d)

LEMMA FreshIs ==
  ASSUME NEW p \in Fresh
  PROVE  /\ p \in Slots /\ files[p].role = "none"
         /\ \A d \in Devices : p \notin sync[d].cleaning /\ p # sync[d].own
  BY DEF Fresh, Of

LEMMA LookingSteps ==
  ASSUME Typed, NEW d \in Devices
  PROVE  /\ Lists(d) => Look(d)
         /\ Downloads(d) => Look(d)
         /\ NothingToPublish(d) \/ CleanupEnds(d) \/ SyncEnds(d) \/ SyncFails(d) => Rest(d)
         /\ LooksAtHead(d) => Pass(d)
<1> DEFINE s == sync[d]
<1>0. sync \in [Devices -> Syncs] /\ files \in [Slots -> Publications] /\ s \in Syncs
  BY DEF Typed
<1>1. s.cleaning \in SUBSET Slots /\ s.at \in Slots \cup {0}
  BY <1>0, FieldsOfSync
<1>3. ASSUME Lists(d) PROVE Look(d)
  <2> DEFINE read == [archives |-> PublishedArchives, settings |-> PublishedSettings]
             next == [NoSync EXCEPT !.stage = "listed", !.seen = Of("document"),
                                    !.cleaning = Incorporated, !.catalogue = read]
  <2>1. MergeCloudCatalogs({files[p].holds : p \in Of("document")}) = read /\ read \in Catalogues
    BY <1>0, PublishedIsTyped
  <2>2. Of("document") \in SUBSET Slots /\ Incorporated \in SUBSET Slots
    BY DEF Of, Incorporated
  <2>3. Goes(d, next) /\ ListedWell
    BY <1>3, <2>1 DEF Lists
  <2> HIDE DEF read
  <2>4. NoSync \in Syncs /\ NoSync.own = 0 /\ NoSync.at = 0
    BY CatalogueFields DEF NoSync, Syncs, Stages
  <2>5. next \in Syncs
    BY <2>1, <2>2, <2>4 DEF Syncs, Stages
  <2>6. /\ next.stage = "listed" /\ next.catalogue = read /\ next.own = 0
        /\ next.cleaning = Incorporated /\ next.at = 0
    BY <2>4 DEF Syncs
  <2> HIDE DEF next
  <2>7. Now(d, "listed", read, 0, Incorporated, 0)
    BY <1>0, <2>3, <2>5, <2>6, GoesIsNow
  <2> QED BY <1>3, <2>3, <2>7 DEF Look, read
<1>4. ASSUME Downloads(d) PROVE Look(d)
  <2> DEFINE next == [s EXCEPT !.stage = "read", !.seen = {}]
  <2>1. Goes(d, next)
    BY <1>4 DEF Downloads
  <2>2. next \in Syncs
    BY <1>0 DEF Syncs, Stages
  <2>3. /\ next.stage = "read" /\ next.catalogue = s.catalogue /\ next.own = s.own
        /\ next.cleaning = s.cleaning /\ next.at = s.at
    BY <1>0 DEF Syncs
  <2> HIDE DEF next
  <2>4. Now(d, "read", s.catalogue, s.own, s.cleaning, s.at)
    BY <1>0, <2>1, <2>2, <2>3, GoesIsNow
  <2> QED BY <1>4, <2>4 DEF Look, Downloads
<1>5. ASSUME NothingToPublish(d) PROVE Rest(d)
  <2> DEFINE next == [s EXCEPT !.stage = "published", !.cleaning = {}]
  <2>1. Goes(d, next) /\ s.stage = "read"
    BY <1>5 DEF NothingToPublish
  <2>2. next \in Syncs
    BY <1>0 DEF Syncs, Stages
  <2>3. /\ next.stage = "published" /\ next.catalogue = s.catalogue /\ next.own = s.own
        /\ next.cleaning = {} /\ next.at = s.at
    BY <1>0 DEF Syncs
  <2> HIDE DEF next
  <2>4. Now(d, "published", s.catalogue, s.own, {}, s.at)
    BY <1>0, <2>1, <2>2, <2>3, GoesIsNow
  <2> QED BY <1>1, <2>1, <2>4 DEF Rest
<1>6. ASSUME CleanupEnds(d) PROVE Rest(d)
  <2> DEFINE next == [s EXCEPT !.stage = "published", !.cleaning = {}, !.at = 0]
  <2>1. Goes(d, next) /\ s.stage \in Cleaning
    BY <1>6 DEF CleanupEnds, Cleaning
  <2>2. next \in Syncs
    BY <1>0 DEF Syncs, Stages
  <2>3. /\ next.stage = "published" /\ next.catalogue = s.catalogue /\ next.own = s.own
        /\ next.cleaning = {} /\ next.at = 0
    BY <1>0 DEF Syncs
  <2> HIDE DEF next
  <2>4. Now(d, "published", s.catalogue, s.own, {}, 0)
    BY <1>0, <2>1, <2>2, <2>3, GoesIsNow
  <2> QED BY <2>1, <2>4 DEF Rest, Cleaning
<1>7. ASSUME SyncEnds(d) \/ SyncFails(d) PROVE Rest(d)
  <2>1. Goes(d, NoSync)
    BY <1>7 DEF SyncEnds, SyncFails
  <2>2. /\ NoSync \in Syncs
        /\ NoSync.stage = "idle" /\ NoSync.catalogue = EmptyCatalogue /\ NoSync.own = 0
        /\ NoSync.cleaning = {} /\ NoSync.at = 0
    BY CatalogueFields DEF NoSync, Syncs, Stages
  <2>3. Now(d, "idle", EmptyCatalogue, 0, {}, 0)
    BY <1>0, <2>1, <2>2, GoesIsNow
  <2> QED BY <2>3 DEF Rest
<1>8. ASSUME LooksAtHead(d) PROVE Pass(d)
  <2>1. PICK p \in s.cleaning :
          Goes(d, IF files[p].role = "none" THEN [s EXCEPT !.cleaning = @ \ {p}]
                  ELSE [s EXCEPT !.stage = "retiring", !.at = p])
    BY <1>8 DEF LooksAtHead
  <2>2. s.stage = "cleaning" /\ s.cleaning \ {p} \in SUBSET Slots /\ p \in Slots
    BY <1>1, <1>8 DEF LooksAtHead
  <2>5. CASE files[p].role = "none"
    <3> DEFINE next == [s EXCEPT !.cleaning = @ \ {p}]
    <3>1. Goes(d, next)
      BY <2>1, <2>5
    <3>2. next \in Syncs
      BY <1>0, <2>2 DEF Syncs, Stages
    <3>3. /\ next.stage = "cleaning" /\ next.catalogue = s.catalogue /\ next.own = s.own
          /\ next.cleaning = s.cleaning \ {p} /\ next.at = s.at
      BY <1>0, <2>2 DEF Syncs
    <3> HIDE DEF next
    <3>4. Now(d, "cleaning", s.catalogue, s.own, s.cleaning \ {p}, s.at)
      BY <1>0, <3>1, <3>2, <3>3, GoesIsNow
    <3> QED BY <2>2, <2>5, <3>4 DEF Pass
  <2>6. CASE files[p].role # "none"
    <3> DEFINE next == [s EXCEPT !.stage = "retiring", !.at = p]
    <3>1. Goes(d, next)
      BY <2>1, <2>6
    <3>2. next \in Syncs
      BY <1>0, <2>2 DEF Syncs, Stages
    <3>3. /\ next.stage = "retiring" /\ next.catalogue = s.catalogue /\ next.own = s.own
          /\ next.cleaning = s.cleaning /\ next.at = p
      BY <1>0 DEF Syncs
    <3> HIDE DEF next
    <3>4. Now(d, "retiring", s.catalogue, s.own, s.cleaning, p)
      BY <1>0, <3>1, <3>2, <3>3, GoesIsNow
    <3> QED BY <2>2, <3>4 DEF Pass
  <2> QED BY <2>5, <2>6
<1> QED BY <1>3, <1>4, <1>5, <1>6, <1>7, <1>8

LEMMA WritingSteps ==
  ASSUME Structure, NEW d \in Devices
  PROVE  /\ StartsUpload(d) => Begin(d)
         /\ UploadsRest(d) => Fill(d)
         /\ Completes(d) \/ CompletesUnheard(d) => Complete(d)
         /\ Retires(d) => Retire(d) \/ (Rest(d) /\ UNCHANGED files)
         /\ DeletesRest(d) => Trim(d)
         /\ DeletesHead(d) => Clear(d)
<1> DEFINE s == sync[d]
<1>0. sync \in [Devices -> Syncs] /\ files \in [Slots -> Publications] /\ s \in Syncs /\ Typed
  BY DEF Structure, Typed
<1>1. s.cleaning \in SUBSET Slots /\ s.at \in Slots \cup {0} /\ s.catalogue \in Catalogues
  BY <1>0, FieldsOfSync
<1>2. s.stage \in Uploading => s.own \in Slots
  BY DEF Structure, Own
<1>3. s.stage \in {"retiring", "deleting", "deleting head"} => s.at \in s.cleaning /\ s.at \in Slots
  BY <1>1 DEF Structure, At
<1>4. ASSUME StartsUpload(d) PROVE Begin(d)
  <2>1. PICK revision \in {{}} \cup {{t} : t \in Settings}, p \in Fresh :
          /\ files' = [files EXCEPT ![p] = [role |-> "pending", parts |-> {"head"},
                                            holds |-> Updated(d, s.catalogue, revision)]]
          /\ Goes(d, [s EXCEPT !.stage = "uploading", !.own = p,
                               !.catalogue = Updated(d, s.catalogue, revision)])
    BY <1>4 DEF StartsUpload
  <2> DEFINE updated == Updated(d, s.catalogue, revision)
             next == [s EXCEPT !.stage = "uploading", !.own = p, !.catalogue = updated]
  <2>2. revision \in SUBSET Settings /\ (revision = {} \/ \E t \in Settings : revision = {t})
    BY <2>1
  <2>3. updated \in Catalogues /\ p \in Slots
    BY <1>0, <1>1, <2>2, UpdatedIs, FreshIs
  <2>4. Goes(d, next)
    BY <2>1
  <2> HIDE DEF updated
  <2>5. Becomes(p, "pending", {"head"}, updated)
    BY <1>0, <2>1, <2>3, WriteIsBecomes DEF updated, Roles, Parts
  <2>6. next \in Syncs
    BY <1>0, <2>3 DEF Syncs, Stages
  <2>7. /\ next.stage = "uploading" /\ next.catalogue = updated /\ next.own = p
        /\ next.cleaning = s.cleaning /\ next.at = s.at
    BY <1>0 DEF Syncs
  <2> HIDE DEF next
  <2>8. Now(d, "uploading", updated, p, s.cleaning, s.at)
    BY <1>0, <2>4, <2>6, <2>7, GoesIsNow
  <2> QED BY <2>2, <2>5, <2>8 DEF Begin, updated
<1>5. ASSUME UploadsRest(d) PROVE Fill(d)
  <2> DEFINE next == [s EXCEPT !.stage = "uploaded"]
  <2>1. Goes(d, next) /\ files' = [files EXCEPT ![s.own].parts = {"head", "rest"}] /\ s.own \in Slots
    BY <1>2, <1>5 DEF UploadsRest, Uploading
  <2>2. next \in Syncs
    BY <1>0 DEF Syncs, Stages
  <2>3. /\ next.stage = "uploaded" /\ next.catalogue = s.catalogue /\ next.own = s.own
        /\ next.cleaning = s.cleaning /\ next.at = s.at
    BY <1>0 DEF Syncs
  <2> HIDE DEF next
  <2>4. Now(d, "uploaded", s.catalogue, s.own, s.cleaning, s.at)
    BY <1>0, <2>1, <2>2, <2>3, GoesIsNow
  <2>5. Becomes(s.own, files[s.own].role, {"head", "rest"}, files[s.own].holds)
    BY <1>0, <2>1, FieldWrites DEF Parts
  <2> QED BY <2>4, <2>5 DEF Fill
<1>6. ASSUME Completes(d) \/ CompletesUnheard(d) PROVE Complete(d)
  <2>1. files' = [files EXCEPT ![s.own].role = "document"] /\ s.own \in Slots
    BY <1>2, <1>6 DEF Completes, CompletesUnheard, Uploading
  <2>2. Becomes(s.own, "document", files[s.own].parts, files[s.own].holds)
    BY <1>0, <2>1, FieldWrites DEF Roles
  <2>3. CASE Completes(d)
    <3> DEFINE next == [s EXCEPT !.stage = "cleaning", !.own = 0]
    <3>1. Goes(d, next)
      BY <2>3 DEF Completes
    <3>2. next \in Syncs
      BY <1>0 DEF Syncs, Stages
    <3>3. /\ next.stage = "cleaning" /\ next.catalogue = s.catalogue /\ next.own = 0
          /\ next.cleaning = s.cleaning /\ next.at = s.at
      BY <1>0 DEF Syncs
    <3> HIDE DEF next
    <3>4. Now(d, "cleaning", s.catalogue, 0, s.cleaning, s.at)
      BY <1>0, <3>1, <3>2, <3>3, GoesIsNow
    <3> QED BY <2>2, <3>4 DEF Complete
  <2>4. CASE CompletesUnheard(d)
    <3>1. Goes(d, NoSync)
      BY <2>4 DEF CompletesUnheard
    <3>2. /\ NoSync \in Syncs
          /\ NoSync.stage = "idle" /\ NoSync.catalogue = EmptyCatalogue /\ NoSync.own = 0
          /\ NoSync.cleaning = {} /\ NoSync.at = 0
      BY CatalogueFields DEF NoSync, Syncs, Stages
    <3>3. Now(d, "idle", EmptyCatalogue, 0, {}, 0)
      BY <1>0, <3>1, <3>2, GoesIsNow
    <3> QED BY <2>2, <3>3 DEF Complete
  <2> QED BY <1>6, <2>3, <2>4
<1>7. ASSUME Retires(d) PROVE Retire(d) \/ (Rest(d) /\ UNCHANGED files)
  <2>1. s.stage = "retiring" /\ s.at \in Slots
    BY <1>3, <1>7 DEF Retires
  <2>2. CASE files[s.at].role = "none"
    <3> DEFINE next == [s EXCEPT !.stage = "published", !.cleaning = {}, !.at = 0]
    <3>1. Goes(d, next) /\ UNCHANGED files
      BY <1>7, <2>2 DEF Retires, RetiresHead
    <3>2. next \in Syncs
      BY <1>0 DEF Syncs, Stages
    <3>3. /\ next.stage = "published" /\ next.catalogue = s.catalogue /\ next.own = s.own
          /\ next.cleaning = {} /\ next.at = 0
      BY <1>0 DEF Syncs
    <3> HIDE DEF next
    <3>4. Now(d, "published", s.catalogue, s.own, {}, 0)
      BY <1>0, <3>1, <3>2, <3>3, GoesIsNow
    <3> QED BY <2>1, <3>1, <3>4 DEF Rest
  <2>3. CASE files[s.at].role # "none"
    <3> DEFINE next == [s EXCEPT !.stage = "deleting"]
    <3>1. Goes(d, next) /\ files' = [files EXCEPT ![s.at].role = "retired"]
      BY <1>7, <2>3 DEF Retires, RetiresHead
    <3>2. next \in Syncs
      BY <1>0 DEF Syncs, Stages
    <3>3. /\ next.stage = "deleting" /\ next.catalogue = s.catalogue /\ next.own = s.own
          /\ next.cleaning = s.cleaning /\ next.at = s.at
      BY <1>0 DEF Syncs
    <3> HIDE DEF next
    <3>4. Now(d, "deleting", s.catalogue, s.own, s.cleaning, s.at)
      BY <1>0, <3>1, <3>2, <3>3, GoesIsNow
    <3>5. Becomes(s.at, "retired", files[s.at].parts, files[s.at].holds)
      BY <1>0, <2>1, <3>1, FieldWrites DEF Roles
    <3> QED BY <3>4, <3>5 DEF Retire
  <2> QED BY <2>2, <2>3
<1>8. ASSUME DeletesRest(d) PROVE Trim(d)
  <2> DEFINE next == [s EXCEPT !.stage = "deleting head"]
             parts == files[s.at].parts \ {"rest"}
  <2>1. /\ Goes(d, next) /\ s.at \in Slots
        /\ files' = [files EXCEPT ![s.at].parts = parts]
    BY <1>3, <1>8 DEF DeletesRest
  <2>2. next \in Syncs
    BY <1>0 DEF Syncs, Stages
  <2>3. /\ next.stage = "deleting head" /\ next.catalogue = s.catalogue /\ next.own = s.own
        /\ next.cleaning = s.cleaning /\ next.at = s.at
    BY <1>0 DEF Syncs
  <2> HIDE DEF next
  <2>4. Now(d, "deleting head", s.catalogue, s.own, s.cleaning, s.at)
    BY <1>0, <2>1, <2>2, <2>3, GoesIsNow
  <2>5. parts \in Parts
    BY <1>0, <2>1, FieldsOfFiles DEF Parts
  <2>6. Becomes(s.at, files[s.at].role, parts, files[s.at].holds)
    BY <1>0, <2>1, <2>5, FieldWrites
  <2> QED BY <2>4, <2>6 DEF Trim
<1>9. ASSUME DeletesHead(d) PROVE Clear(d)
  <2> DEFINE next == [s EXCEPT !.stage = "cleaning", !.cleaning = @ \ {s.at}, !.at = 0]
  <2>1. /\ Goes(d, next) /\ s.at \in Slots
        /\ files' = [files EXCEPT ![s.at] = NoPublication]
    BY <1>3, <1>9 DEF DeletesHead
  <2>2. next \in Syncs
    BY <1>0, <1>1 DEF Syncs, Stages
  <2>3. /\ next.stage = "cleaning" /\ next.catalogue = s.catalogue /\ next.own = s.own
        /\ next.cleaning = s.cleaning \ {s.at} /\ next.at = 0
    BY <1>0 DEF Syncs
  <2> HIDE DEF next
  <2>4. Now(d, "cleaning", s.catalogue, s.own, s.cleaning \ {s.at}, 0)
    BY <1>0, <2>1, <2>2, <2>3, GoesIsNow
  <2>5. Becomes(s.at, "none", {}, EmptyCatalogue)
    BY <1>0, <2>1, WriteIsBecomes, CatalogueFields DEF NoPublication, Roles, Parts
  <2> QED BY <2>4, <2>5 DEF Clear
<1> QED BY <1>4, <1>5, <1>6, <1>7, <1>8, <1>9

LEMMA NextIsStep ==
  ASSUME Structure, Next
  PROVE  \E d \in Devices : Step(d)
<1>1. PICK d \in Devices :
    \/ HistoryGrows(d) \/ Lists(d) \/ Downloads(d) \/ NothingToPublish(d)
    \/ StartsUpload(d) \/ UploadsRest(d) \/ Completes(d) \/ CompletesUnheard(d)
    \/ LooksAtHead(d) \/ Retires(d) \/ DeletesRest(d) \/ DeletesHead(d) \/ CleanupEnds(d)
    \/ Imports(d) \/ SyncEnds(d) \/ SyncFails(d)
  BY DEF Next
<1>2. CASE HistoryGrows(d) \/ Imports(d)
  BY <1>2 DEF Step
<1>3. CASE Lists(d) \/ Downloads(d) \/ NothingToPublish(d) \/ CleanupEnds(d) \/ SyncEnds(d)
           \/ SyncFails(d) \/ LooksAtHead(d)
  <2>1. Look(d) \/ Rest(d) \/ Pass(d)
    BY <1>3, LookingSteps DEF Structure
  <2>2. UNCHANGED <<files, history, imported>>
    BY <1>3 DEF Lists, Downloads, NothingToPublish, CleanupEnds, SyncEnds, SyncFails, LooksAtHead
  <2> QED BY <2>1, <2>2 DEF Step
<1>4. CASE StartsUpload(d) \/ UploadsRest(d)
  <2>1. (Begin(d) /\ sync[d].stage = "read") \/ (Fill(d) /\ sync[d].stage = "uploading")
    BY <1>4, WritingSteps DEF StartsUpload, UploadsRest
  <2>2. UNCHANGED <<history, imported>>
    BY <1>4 DEF StartsUpload, UploadsRest
  <2> QED BY <2>1, <2>2 DEF Step
<1>5. CASE Completes(d) \/ CompletesUnheard(d)
  BY <1>5, WritingSteps DEF Completes, CompletesUnheard, Step
<1>6. CASE Retires(d)
  BY <1>6, WritingSteps DEF Retires, Step
<1>7. CASE DeletesRest(d)
  BY <1>7, WritingSteps DEF DeletesRest, Step
<1>8. CASE DeletesHead(d)
  BY <1>8, WritingSteps DEF DeletesHead, Step
<1> QED BY <1>1, <1>2, <1>3, <1>4, <1>5, <1>6, <1>7, <1>8

-----------------------------------------------------------------------------
(* The folder is well written *)

LEMMA StructureInit == Init => Structure
<1> SUFFICES ASSUME Init PROVE Structure
  OBVIOUS
<1>1. NoPublication \in Publications /\ NoPublication.role = "none"
  BY CatalogueFields DEF NoPublication, Publications, Roles, Parts
<1>2. NoSync \in Syncs /\ NoSync.stage = "idle" /\ NoSync.cleaning = {}
  BY CatalogueFields DEF NoSync, Syncs, Stages
<1>3. 0 \in Versions
  BY CloudPublicationAssumption DEF Versions
<1>4. Typed
  BY <1>1, <1>2, <1>3 DEF Init, Typed
<1>5. /\ \A p \in Slots : files[p].role = "none"
      /\ \A d \in Devices : sync[d].stage = "idle" /\ sync[d].cleaning = {}
  BY <1>1, <1>2 DEF Init
<1> QED BY <1>4, <1>5 DEF Structure, Own, Cleaned, At, Apart, Whole, Uploading

LEMMA StructureQuiet ==
  ASSUME Structure, UNCHANGED <<files, sync>>,
         history' \in [Devices -> Versions], imported' \in [Devices -> [Devices -> Versions]]
  PROVE  Structure'
  BY DEF Structure, Typed, Own, Cleaned, At, Apart, Whole

LEMMA HistoryIsTyped ==
  ASSUME Structure, NEW d \in Devices, HistoryGrows(d)
  PROVE  history' \in [Devices -> Versions]
<1>1. history[d] \in Versions /\ history[d] < MaxVersion /\ history \in [Devices -> Versions]
  <2>1. history[d] + (IF d = d THEN 0 ELSE history[d]) < MaxVersion
    BY DEF HistoryGrows
  <2>2. history[d] \in Versions /\ history \in [Devices -> Versions]
    BY DEF Structure, Typed
  <2> QED BY <2>1, <2>2, CloudPublicationAssumption DEF Versions
<1>2. history[d] + 1 \in Versions
  BY <1>1, CloudPublicationAssumption DEF Versions
<1> QED BY <1>1, <1>2 DEF HistoryGrows

LEMMA ImportedIsTyped ==
  ASSUME Structure, NEW d \in Devices, Imports(d)
  PROVE  imported' \in [Devices -> [Devices -> Versions]]
<1>1. PICK s \in Devices \ {d} :
        imported' = [imported EXCEPT ![d][s] = Newest(sync[d].catalogue.archives, s)]
  BY DEF Imports
<1>2. sync[d].catalogue \in Catalogues /\ imported \in [Devices -> [Devices -> Versions]]
  BY FieldsOfSync DEF Structure, Typed
<1>3. Newest(sync[d].catalogue.archives, s) \in Versions
  BY <1>2, CatalogueFields, NewestIs
<1> QED BY <1>1, <1>2, <1>3

LEMMA StructureLooking ==
  ASSUME Structure, NEW d \in Devices, Look(d) \/ Rest(d) \/ Pass(d),
         UNCHANGED <<files, history, imported>>
  PROVE  Structure'
<1>1. /\ sync' \in [Devices -> Syncs]
      /\ \A e \in Devices \ {d} : sync'[e] = sync[e]
      /\ sync'[d].stage \in {"listed", "read", "published", "idle", "cleaning", "retiring"}
      /\ sync'[d].stage = "retiring" => sync'[d].at \in sync'[d].cleaning
      /\ sync'[d].cleaning \subseteq Incorporated \cup sync[d].cleaning
  BY DEF Look, Rest, Pass, Now
<1>2. \A p \in Incorporated : files[p].role # "pending"
  BY DEF Incorporated, Of
<1>3. Typed'
  BY <1>1 DEF Structure, Typed
<1>4. ASSUME NEW e \in Devices
      PROVE  Own(e)' /\ Cleaned(e)' /\ At(e)'
  <2>1. Own(e) /\ Cleaned(e) /\ At(e) /\ Cleaned(d)
    BY DEF Structure
  <2>2. CASE e = d
    <3>1. Own(d)' /\ At(d)'
      BY <1>1 DEF Own, At, Uploading
    <3>2. Cleaned(d)'
      BY <1>1, <1>2, <2>1 DEF Cleaned
    <3> QED BY <2>2, <3>1, <3>2
  <2>3. CASE e # d
    <3>1. sync'[e] = sync[e] /\ files' = files
      BY <1>1, <2>3
    <3> QED BY <2>1, <3>1 DEF Own, Cleaned, At, Uploading
  <2> QED BY <2>2, <2>3
<1>5. Apart' /\ Whole'
  BY <1>1 DEF Structure, Apart, Whole, Uploading
<1> QED BY <1>3, <1>4, <1>5 DEF Structure

LEMMA StructureBegin ==
  ASSUME Structure, NEW d \in Devices, Begin(d), UNCHANGED <<history, imported>>
  PROVE  Structure'
<1>0. PICK revision \in SUBSET Settings, p \in Fresh :
        /\ Becomes(p, "pending", {"head"}, Updated(d, sync[d].catalogue, revision))
        /\ Now(d, "uploading", Updated(d, sync[d].catalogue, revision), p,
               sync[d].cleaning, sync[d].at)
  BY DEF Begin
<1> DEFINE updated == Updated(d, sync[d].catalogue, revision)
<1> HIDE DEF updated
<1>1. /\ Becomes(p, "pending", {"head"}, updated)
      /\ Now(d, "uploading", updated, p, sync[d].cleaning, sync[d].at)
  BY <1>0 DEF updated
<1>2. /\ p \in Slots /\ files[p].role = "none"
      /\ \A e \in Devices : p \notin sync[e].cleaning /\ p # sync[e].own
  BY FreshIs
<1>3. Typed'
  BY <1>1 DEF Structure, Typed, Becomes, Now
<1>4. \A e \in Devices : Own(e)'
  BY <1>1, <1>2 DEF Structure, Own, Uploading, Becomes, Now
<1>5. \A e \in Devices : sync'[e].cleaning = sync[e].cleaning
  BY <1>1 DEF Now
<1>6. \A e \in Devices : Cleaned(e)'
  <2> SUFFICES ASSUME NEW e \in Devices, NEW q \in sync[e].cleaning PROVE files'[q].role # "pending"
    BY <1>5 DEF Cleaned
  <2>1. q \in Slots /\ files[q].role # "pending"
    BY FieldsOfSync DEF Structure, Typed, Cleaned
  <2> QED BY <1>1, <1>2, <2>1 DEF Becomes
<1>7. \A e \in Devices : At(e)'
  <2> SUFFICES ASSUME NEW e \in Devices,
                      sync'[e].stage \in {"retiring", "deleting", "deleting head"}
               PROVE  /\ sync'[e].at \in sync'[e].cleaning
                      /\ sync'[e].stage # "retiring" => files'[sync'[e].at].role # "document"
    BY DEF At
  <2>1. e # d /\ sync'[e] = sync[e]
    BY <1>1 DEF Now
  <2>2. sync[e].at \in sync[e].cleaning /\ sync[e].at \in Slots
        /\ (sync[e].stage # "retiring" => files[sync[e].at].role # "document")
    BY <2>1, FieldsOfSync DEF Structure, Typed, At
  <2> QED BY <1>1, <1>2, <2>1, <2>2 DEF Becomes
<1>8. Apart'
  BY <1>1, <1>2 DEF Structure, Apart, Now
<1>9. Whole'
  BY <1>1 DEF Structure, Whole, Becomes
<1> QED BY <1>3, <1>4, <1>6, <1>7, <1>8, <1>9 DEF Structure

LEMMA StructureFill ==
  ASSUME Structure, NEW d \in Devices, Fill(d), sync[d].stage = "uploading",
         UNCHANGED <<history, imported>>
  PROVE  Structure'
<1> DEFINE p == sync[d].own
<1>1. /\ p \in Slots /\ files[p].role = "pending" /\ files[p].holds = sync[d].catalogue
      /\ Becomes(p, "pending", {"head", "rest"}, files[p].holds)
      /\ Now(d, "uploaded", sync[d].catalogue, p, sync[d].cleaning, sync[d].at)
  BY DEF Structure, Own, Uploading, Fill
<1>2. \A e \in Devices : p \notin sync[e].cleaning
  BY <1>1 DEF Structure, Cleaned
<1>3. \A e \in Devices \ {d} : sync[e].stage \in Uploading => sync[e].own # p
  BY DEF Structure, Apart, Uploading
<1>4. \A q \in Slots : files'[q].role = files[q].role
  BY <1>1 DEF Becomes
<1>5. /\ sync' \in [Devices -> Syncs]
      /\ \A e \in Devices : sync'[e].own = sync[e].own /\ sync'[e].cleaning = sync[e].cleaning
                            /\ sync'[e].at = sync[e].at
      /\ \A e \in Devices \ {d} : sync'[e] = sync[e]
      /\ sync'[d].stage = "uploaded" /\ sync'[d].catalogue = sync[d].catalogue
  BY <1>1 DEF Now
<1> HIDE DEF p
<1>6. Typed'
  BY <1>1, <1>5 DEF Structure, Typed, Becomes
<1>7. \A e \in Devices : Own(e)'
  <2>1. Own(d)'
    BY <1>1, <1>5 DEF Own, Becomes, p
  <2>2. ASSUME NEW e \in Devices \ {d} PROVE Own(e)'
    BY <1>1, <1>3, <1>5 DEF Structure, Own, Becomes
  <2> QED BY <2>1, <2>2
<1>8. \A e \in Devices : sync[e].cleaning \subseteq Slots
  BY FieldsOfSync DEF Structure, Typed
<1>9. \A e \in Devices : Cleaned(e)'
  BY <1>4, <1>5, <1>8 DEF Structure, Cleaned
<1>10. \A e \in Devices : At(e)'
  BY <1>4, <1>5, <1>8 DEF Structure, At
<1>11. Apart'
  BY <1>5 DEF Structure, Apart, Uploading
<1>12. Whole'
  BY <1>1, <1>4 DEF Structure, Whole, Becomes
<1> QED BY <1>6, <1>7, <1>9, <1>10, <1>11, <1>12 DEF Structure

LEMMA StructureComplete ==
  ASSUME Structure, NEW d \in Devices, Complete(d), sync[d].stage = "uploaded",
         UNCHANGED <<history, imported>>
  PROVE  Structure'
<1> DEFINE p == sync[d].own
<1>1. /\ p \in Slots /\ files[p].role = "pending" /\ files[p].parts = {"head", "rest"}
      /\ Becomes(p, "document", {"head", "rest"}, files[p].holds)
  BY DEF Structure, Own, Uploading, Complete
<1>2. \A e \in Devices : p \notin sync[e].cleaning /\ sync[e].cleaning \subseteq Slots
  BY <1>1, FieldsOfSync DEF Structure, Typed, Cleaned
<1>3. \A e \in Devices \ {d} : sync[e].stage \in Uploading => sync[e].own # p
  BY DEF Structure, Apart, Uploading
<1>4. /\ sync' \in [Devices -> Syncs]
      /\ \A e \in Devices \ {d} : sync'[e] = sync[e]
      /\ sync'[d].stage \in {"cleaning", "idle"} /\ sync'[d].cleaning \subseteq sync[d].cleaning
  BY DEF Complete, Now
<1> HIDE DEF p
<1>5. Typed'
  BY <1>1, <1>4 DEF Structure, Typed, Becomes
<1>6. \A e \in Devices : Own(e)'
  BY <1>1, <1>3, <1>4 DEF Structure, Own, Uploading, Becomes
<1>7. \A e \in Devices, q \in Slots : q \in sync'[e].cleaning => q \in sync[e].cleaning /\ files'[q] = files[q]
  BY <1>1, <1>2, <1>4 DEF Becomes
<1>8. \A e \in Devices : Cleaned(e)'
  BY <1>2, <1>4, <1>7 DEF Structure, Cleaned
<1>9. \A e \in Devices : At(e)'
  <2>1. At(d)'
    BY <1>4 DEF At
  <2>2. ASSUME NEW e \in Devices \ {d} PROVE At(e)'
    <3>1. At(e) /\ sync'[e] = sync[e]
      BY <1>4 DEF Structure
    <3>2. \A q \in sync[e].cleaning : files'[q] = files[q]
      BY <1>2, <1>7, <3>1
    <3> QED BY <3>1, <3>2 DEF At
  <2> QED BY <2>1, <2>2
<1>10. Apart'
  BY <1>4 DEF Structure, Apart, Uploading
<1>11. Whole'
  BY <1>1 DEF Structure, Whole, Becomes
<1> QED BY <1>5, <1>6, <1>8, <1>9, <1>10, <1>11 DEF Structure

\* A step of the cleanup: one publication loses its role or its files.
LEMMA StructureCleanup ==
  ASSUME Structure, NEW d \in Devices, UNCHANGED <<history, imported>>,
         NEW p, NEW role \in {"retired", "none"}, NEW parts, NEW holds, NEW stage, NEW cleaning, NEW at,
         p \in sync[d].cleaning, sync[d].stage \in Cleaning, Becomes(p, role, parts, holds),
         Now(d, stage, sync[d].catalogue, sync[d].own, cleaning, at),
         cleaning \subseteq sync[d].cleaning,
         \/ stage \in {"deleting", "deleting head"} /\ at = p /\ cleaning = sync[d].cleaning
         \/ stage = "cleaning"
  PROVE  Structure'
<1>1. p \in Slots /\ files[p].role # "pending"
  BY DEF Structure, Cleaned, Becomes
<1>2. \A e \in Devices : sync[e].stage \in Uploading => sync[e].own # p
  BY <1>1 DEF Structure, Own
<1>3. /\ sync' \in [Devices -> Syncs]
      /\ \A e \in Devices \ {d} : sync'[e] = sync[e]
      /\ sync'[d].stage = stage /\ sync'[d].cleaning = cleaning /\ sync'[d].at = at
  BY DEF Now
<1>4. Typed'
  BY <1>3 DEF Structure, Typed, Becomes
<1>5. \A e \in Devices : Own(e)'
  <2>1. Own(d)'
    BY <1>3 DEF Own, Uploading
  <2>2. ASSUME NEW e \in Devices \ {d} PROVE Own(e)'
    <3>1. Own(e) /\ sync'[e] = sync[e]
      BY <1>3 DEF Structure
    <3>2. sync[e].stage \in Uploading => files'[sync[e].own] = files[sync[e].own]
      BY <1>2, <3>1 DEF Own, Becomes
    <3> QED BY <3>1, <3>2 DEF Own
  <2> QED BY <2>1, <2>2
<1>6. /\ \A e \in Devices : sync'[e].cleaning \subseteq sync[e].cleaning /\ sync[e].cleaning \subseteq Slots
      /\ \A q \in Slots : files'[q] = files[q] \/ files'[q].role \in {"retired", "none"}
  BY <1>3, FieldsOfSync DEF Structure, Typed, Becomes
<1>7. \A e \in Devices : Cleaned(e)'
  <2> SUFFICES ASSUME NEW e \in Devices, NEW q \in sync'[e].cleaning PROVE files'[q].role # "pending"
    BY DEF Cleaned
  <2>1. q \in Slots /\ files[q].role # "pending"
    BY <1>6 DEF Structure, Cleaned
  <2> QED BY <1>6, <2>1
<1>8. At(d)'
  BY <1>3 DEF At, Becomes
<1>9. \A e \in Devices \ {d} : At(e)'
  <2> SUFFICES ASSUME NEW e \in Devices \ {d},
                      sync[e].stage \in {"retiring", "deleting", "deleting head"}
               PROVE  /\ sync[e].at \in sync[e].cleaning
                      /\ sync[e].stage # "retiring" => files'[sync[e].at].role # "document"
    BY <1>3 DEF At
  <2>1. /\ sync[e].at \in sync[e].cleaning /\ sync[e].at \in Slots
        /\ sync[e].stage # "retiring" => files[sync[e].at].role # "document"
    BY <1>6 DEF Structure, At
  <2> QED BY <1>6, <2>1
<1>10. Apart'
  BY <1>3 DEF Structure, Apart, Uploading
<1>11. Whole'
  BY DEF Structure, Whole, Becomes
<1> QED BY <1>4, <1>5, <1>7, <1>8, <1>9, <1>10, <1>11 DEF Structure

\* Where a cleanup stands, and that what it deletes from was retired before.
LEMMA CleaningAt ==
  ASSUME Structure, NEW d \in Devices, sync[d].stage \in {"retiring", "deleting", "deleting head"}
  PROVE  /\ sync[d].at \in sync[d].cleaning /\ sync[d].at \in Slots
         /\ sync[d].stage # "retiring" => files[sync[d].at].role \in {"retired", "none"}
<1>1. sync[d].at \in sync[d].cleaning /\ sync[d].at \in Slots
  BY FieldsOfSync DEF Structure, Typed, At
<1>2. files[sync[d].at].role \in Roles /\ files[sync[d].at].role # "pending"
  BY <1>1, FieldsOfFiles DEF Structure, Typed, Cleaned
<1> QED BY <1>1, <1>2 DEF Structure, At, Roles

LEMMA StructureStep ==
  ASSUME Structure, [Next]_vars
  PROVE  Structure'
<1>1. CASE UNCHANGED vars
  BY <1>1, StructureQuiet DEF vars, Structure, Typed
<1>2. CASE Next
  <2>1. PICK d \in Devices : Step(d)
    BY <1>2, NextIsStep
  <2>2. CASE HistoryGrows(d)
    BY <2>2, HistoryIsTyped, StructureQuiet DEF HistoryGrows, Structure, Typed
  <2>3. CASE (Look(d) \/ Rest(d) \/ Pass(d)) /\ UNCHANGED <<files, history, imported>>
    BY <2>3, StructureLooking
  <2>4. CASE Begin(d) /\ UNCHANGED <<history, imported>>
    BY <2>4, StructureBegin
  <2>5. CASE Fill(d) /\ sync[d].stage = "uploading" /\ UNCHANGED <<history, imported>>
    BY <2>5, StructureFill
  <2>6. CASE Complete(d) /\ sync[d].stage = "uploaded" /\ UNCHANGED <<history, imported>>
    BY <2>6, StructureComplete
  <2>7. CASE Retire(d) /\ sync[d].stage = "retiring" /\ UNCHANGED <<history, imported>>
    BY <2>7, CleaningAt, StructureCleanup DEF Retire, Cleaning
  <2>8. CASE Trim(d) /\ sync[d].stage = "deleting" /\ UNCHANGED <<history, imported>>
    BY <2>8, CleaningAt, StructureCleanup DEF Trim, Cleaning
  <2>9. CASE Clear(d) /\ sync[d].stage = "deleting head" /\ UNCHANGED <<history, imported>>
    <3>1. sync[d].cleaning \ {sync[d].at} \subseteq sync[d].cleaning
      OBVIOUS
    <3> QED BY <2>9, <3>1, CleaningAt, StructureCleanup DEF Clear, Cleaning
  <2>10. CASE Imports(d)
    BY <2>10, ImportedIsTyped, StructureQuiet DEF Imports, Structure, Typed
  <2> QED BY <2>1, <2>2, <2>3, <2>4, <2>5, <2>6, <2>7, <2>8, <2>9, <2>10 DEF Step
<1> QED BY <1>1, <1>2

-----------------------------------------------------------------------------
(* What is taken away is held elsewhere *)

Reading == {"listed", "read", "uploading", "uploaded"}
Documents == Of("document")

\* Some publication of P has this archive, or a newer version of it.
Held(f, r, P) ==
  \E q \in P : \E t \in f[q].holds.archives : t.source = r.source /\ t.version >= r.version
HeldSetting(f, s, P) == \E q \in P : s \in f[q].holds.settings

\* What a device is to take away is in what it means to publish.
Read(d) == sync[d].stage \in Reading =>
  \A p \in sync[d].cleaning \cap Documents :
    /\ Keeps(files[p].holds.archives, sync[d].catalogue.archives)
    /\ files[p].holds.settings \subseteq sync[d].catalogue.settings

\* What a device takes away is in publications it leaves alone.
Superseded(d) == sync[d].stage \in Cleaning =>
  /\ Documents \ sync[d].cleaning # {}
  /\ \A p \in sync[d].cleaning \cap Documents :
       /\ \A r \in files[p].holds.archives : Held(files, r, Documents \ sync[d].cleaning)
       /\ \A s \in files[p].holds.settings : HeldSetting(files, s, Documents \ sync[d].cleaning)

\* Of two devices, the one takes nothing away that the other does not.  Two
\* cleanups that each spared what the other deletes would lose both.
Nested(d, e) ==
  \/ sync[d].cleaning \cap Documents \subseteq sync[e].cleaning
  \/ sync[e].cleaning \cap Documents \subseteq sync[d].cleaning

RetiredIsReplaced == Of("retired") # {} => Documents # {}

Kept ==
  /\ \A d \in Devices : Read(d) /\ Superseded(d)
  /\ \A d, e \in Devices : Nested(d, e)
  /\ RetiredIsReplaced

LEMMA KeepsTransitive ==
  ASSUME NEW a \in SUBSET Revisions, NEW b \in SUBSET Revisions, NEW c \in SUBSET Revisions,
         Keeps(a, b), Keeps(b, c)
  PROVE  Keeps(a, c)
<1>1. \A r \in Revisions : r.version \in Int
  BY CloudPublicationAssumption DEF Revisions
<1>2. ASSUME NEW r \in a PROVE \E t \in c : t.source = r.source /\ t.version >= r.version
  <2>1. PICK k \in b : k.source = r.source /\ k.version >= r.version
    BY DEF Keeps
  <2>2. PICK t \in c : t.source = k.source /\ t.version >= k.version
    BY DEF Keeps
  <2>3. r.version \in Int /\ k.version \in Int /\ t.version \in Int
    BY <1>1
  <2> QED BY <2>1, <2>2, <2>3
<1> QED BY <1>2 DEF Keeps

LEMMA KeptInit == Init => Kept
<1> SUFFICES ASSUME Init PROVE Kept
  OBVIOUS
<1>1. \A d \in Devices : sync[d].stage = "idle" /\ sync[d].cleaning = {}
  BY DEF Init, NoSync
<1>2. \A p \in Slots : files[p].role = "none"
  BY DEF Init, NoPublication
<1> QED BY <1>1, <1>2 DEF Kept, Read, Superseded, Nested, RetiredIsReplaced, Reading, Cleaning,
                          Documents, Of

LEMMA HoldsOfFiles ==
  ASSUME Structure
  PROVE  /\ \A p \in Slots : /\ files[p].holds.archives \in SUBSET Revisions
                             /\ files[p].holds.settings \in SUBSET Settings
         /\ \A d \in Devices : /\ sync[d].catalogue.archives \in SUBSET Revisions
                               /\ sync[d].catalogue.settings \in SUBSET Settings
                               /\ sync[d].catalogue \in Catalogues
<1>1. \A p \in Slots : files[p].holds \in Catalogues
  BY FieldsOfFiles DEF Structure, Typed
<1>2. \A d \in Devices : sync[d].catalogue \in Catalogues
  BY FieldsOfSync DEF Structure, Typed
<1> QED BY <1>1, <1>2, CatalogueFields

\* Steps that leave every completed publication as it is.
LEMMA KeptCalm ==
  ASSUME Structure, Kept, NEW d \in Devices,
         Documents' = Documents, \A q \in Documents : files'[q] = files[q],
         Of("retired")' \subseteq Of("retired"),
         \A e \in Devices \ {d} : sync'[e] = sync[e],
         \/ sync'[d].cleaning = {} /\ sync'[d].stage \notin Cleaning
         \/ /\ sync'[d].cleaning \cap Documents = sync[d].cleaning \cap Documents
            /\ sync[d].stage \in Cleaning /\ sync'[d].stage \in Cleaning
         \/ /\ sync'[d].cleaning \cap Documents = sync[d].cleaning \cap Documents
            /\ sync[d].stage \in Reading /\ sync'[d].stage \in Reading
            /\ sync'[d].catalogue.archives \in SUBSET Revisions
            /\ Keeps(sync[d].catalogue.archives, sync'[d].catalogue.archives)
            /\ sync[d].catalogue.settings \subseteq sync'[d].catalogue.settings
  PROVE  Kept'
<1>1. \A p \in Documents : p \in Slots
  BY DEF Documents, Of
<1>2. \A e \in Devices \ {d} : Read(e)' /\ Superseded(e)'
  BY DEF Kept, Read, Superseded, Held, HeldSetting
<1>3. Read(d)'
  <2> SUFFICES ASSUME sync'[d].stage \in Reading, NEW p \in sync'[d].cleaning \cap Documents
               PROVE  /\ Keeps(files[p].holds.archives, sync'[d].catalogue.archives)
                      /\ files[p].holds.settings \subseteq sync'[d].catalogue.settings
    BY DEF Read
  <2>1. /\ p \in sync[d].cleaning \cap Documents /\ sync[d].stage \in Reading
        /\ sync'[d].catalogue.archives \in SUBSET Revisions
        /\ Keeps(sync[d].catalogue.archives, sync'[d].catalogue.archives)
        /\ sync[d].catalogue.settings \subseteq sync'[d].catalogue.settings
    BY DEF Reading, Cleaning
  <2>2. /\ Keeps(files[p].holds.archives, sync[d].catalogue.archives)
        /\ files[p].holds.settings \subseteq sync[d].catalogue.settings
    BY <2>1 DEF Kept, Read
  <2>3. files[p].holds.archives \in SUBSET Revisions /\ sync[d].catalogue.archives \in SUBSET Revisions
    BY <1>1, <2>1, HoldsOfFiles
  <2> QED BY <2>1, <2>2, <2>3, KeepsTransitive
<1>4. Superseded(d)'
  <2> SUFFICES ASSUME sync'[d].stage \in Cleaning PROVE Superseded(d)'
    BY DEF Superseded
  <2>1. sync'[d].cleaning \cap Documents = sync[d].cleaning \cap Documents /\ sync[d].stage \in Cleaning
    BY DEF Reading, Cleaning
  <2>2. Documents \ sync'[d].cleaning = Documents \ sync[d].cleaning
    BY <2>1
  <2> QED BY <2>1, <2>2 DEF Kept, Superseded, Held, HeldSetting
<1>5. sync'[d].cleaning \cap Documents \subseteq sync[d].cleaning \cap Documents
  OBVIOUS
<1>6. \A e, f \in Devices : Nested(e, f)'
  <2>1. \A e \in Devices : Nested(d, e)' /\ Nested(e, d)'
    BY DEF Kept, Nested
  <2>2. \A e, f \in Devices \ {d} : Nested(e, f)'
    BY DEF Kept, Nested
  <2> QED BY <2>1, <2>2
<1>7. RetiredIsReplaced'
  BY DEF Kept, RetiredIsReplaced
<1> QED BY <1>2, <1>3, <1>4, <1>6, <1>7 DEF Kept

LEMMA KeptLists ==
  ASSUME Structure, Kept, NEW d \in Devices, UNCHANGED files,
         Now(d, "listed", [archives |-> PublishedArchives, settings |-> PublishedSettings],
             0, Incorporated, 0)
  PROVE  Kept'
<1>1. /\ \A e \in Devices \ {d} : sync'[e] = sync[e]
      /\ sync'[d].stage = "listed" /\ sync'[d].cleaning = Incorporated
      /\ sync'[d].catalogue.archives = PublishedArchives
      /\ sync'[d].catalogue.settings = PublishedSettings
  BY DEF Now
<1>2. Documents' = Documents /\ Of("retired")' = Of("retired")
  BY DEF Documents, Of
<1>3. \A e \in Devices \ {d} : Read(e)' /\ Superseded(e)'
  BY <1>1, <1>2 DEF Kept, Read, Superseded, Held, HeldSetting
<1>4. Read(d)'
  <2> SUFFICES ASSUME NEW p \in Documents
               PROVE  /\ Keeps(files[p].holds.archives, PublishedArchives)
                      /\ files[p].holds.settings \subseteq PublishedSettings
    BY <1>1, <1>2 DEF Read
  <2>1. /\ files[p].holds.archives \subseteq PublishedArchives
        /\ files[p].holds.settings \subseteq PublishedSettings
    BY DEF Documents, PublishedArchives, PublishedSettings
  <2>2. \A r \in files[p].holds.archives : r.version \in Int
    BY HoldsOfFiles, CloudPublicationAssumption DEF Documents, Of, Revisions
  <2>3. \A r \in files[p].holds.archives : r.version >= r.version
    BY <2>2
  <2> QED BY <2>1, <2>3 DEF Keeps
<1>5. Superseded(d)'
  BY <1>1 DEF Superseded, Cleaning
<1>6. \A e, f \in Devices : Nested(e, f)'
  <2>1. Documents \subseteq sync'[d].cleaning
    BY <1>1 DEF Documents, Incorporated
  <2>2. \A e, f \in Devices \ {d} : Nested(e, f)'
    BY <1>1, <1>2 DEF Kept, Nested
  <2>3. \A e \in Devices : Nested(d, e)' /\ Nested(e, d)'
    BY <1>2, <2>1 DEF Nested
  <2> QED BY <2>2, <2>3
<1>7. RetiredIsReplaced'
  BY <1>2 DEF Kept, RetiredIsReplaced
<1> QED BY <1>3, <1>4, <1>5, <1>6, <1>7 DEF Kept

\* What was held by publications that stay is held still.
LEMMA HeldStays ==
  ASSUME NEW P, NEW Q, P \subseteq Q, \A q \in P : files'[q] = files[q]
  PROVE  /\ \A r : Held(files, r, P) => Held(files', r, Q)
         /\ \A s : HeldSetting(files, s, P) => HeldSetting(files', s, Q)
  BY DEF Held, HeldSetting

LEMMA KeptComplete ==
  ASSUME Structure, Kept, NEW d \in Devices, Complete(d), sync[d].stage = "uploaded"
  PROVE  Kept'
<1> DEFINE p == sync[d].own
<1>1. /\ p \in Slots /\ files[p].role = "pending" /\ files[p].holds = sync[d].catalogue
      /\ Becomes(p, "document", files[p].parts, files[p].holds)
  BY DEF Structure, Own, Uploading, Complete
<1>2. /\ \A e \in Devices \ {d} : sync'[e] = sync[e]
      /\ \/ sync'[d].stage = "cleaning" /\ sync'[d].cleaning = sync[d].cleaning
         \/ sync'[d].stage = "idle" /\ sync'[d].cleaning = {}
  BY DEF Complete, Now
<1>3. \A e \in Devices : p \notin sync[e].cleaning /\ p \notin sync'[e].cleaning
  BY <1>1, <1>2 DEF Structure, Cleaned
<1> HIDE DEF p
<1>4. /\ Documents' = Documents \cup {p} /\ p \notin Documents
      /\ \A q \in Documents : files'[q] = files[q]
      /\ Of("retired")' = Of("retired")
      /\ files'[p].holds = sync[d].catalogue
  BY <1>1 DEF Becomes, Documents, Of
<1>5. \A e \in Devices : sync'[e].cleaning \cap Documents' = sync'[e].cleaning \cap Documents
  BY <1>3, <1>4
<1>6. \A e \in Devices \ {d} : Read(e)'
  BY <1>2, <1>4, <1>5 DEF Kept, Read
<1>7. \A e \in Devices \ {d} : Superseded(e)'
  <2> SUFFICES ASSUME NEW e \in Devices \ {d}, sync[e].stage \in Cleaning PROVE Superseded(e)'
    BY <1>2 DEF Superseded
  <2>1. Documents \ sync[e].cleaning \subseteq Documents' \ sync'[e].cleaning
    BY <1>2, <1>4
  <2>2. \A q \in Documents \ sync[e].cleaning : files'[q] = files[q]
    BY <1>4
  <2>3. /\ \A r : Held(files, r, Documents \ sync[e].cleaning)
                     => Held(files', r, Documents' \ sync'[e].cleaning)
        /\ \A s : HeldSetting(files, s, Documents \ sync[e].cleaning)
                     => HeldSetting(files', s, Documents' \ sync'[e].cleaning)
    BY <2>1, <2>2, HeldStays
  <2>4. \A q \in sync'[e].cleaning \cap Documents' : q \in sync[e].cleaning \cap Documents /\ files'[q] = files[q]
    BY <1>2, <1>4, <1>5
  <2> QED BY <2>1, <2>3, <2>4 DEF Kept, Superseded
<1>8. Read(d)'
  BY <1>2 DEF Read, Reading
<1>9. Superseded(d)'
  <2> SUFFICES ASSUME sync'[d].stage \in Cleaning PROVE Superseded(d)'
    BY DEF Superseded
  <2>1. sync'[d].cleaning = sync[d].cleaning /\ p \in Documents' \ sync'[d].cleaning
    BY <1>2, <1>3, <1>4 DEF Cleaning
  <2> SUFFICES ASSUME NEW q \in sync'[d].cleaning \cap Documents'
               PROVE  /\ \A r \in files'[q].holds.archives : Held(files', r, Documents' \ sync'[d].cleaning)
                      /\ \A s \in files'[q].holds.settings :
                            HeldSetting(files', s, Documents' \ sync'[d].cleaning)
    BY <2>1 DEF Superseded
  <2>2. q \in sync[d].cleaning \cap Documents /\ files'[q] = files[q]
    BY <1>4, <1>5, <2>1
  <2>3. /\ Keeps(files[q].holds.archives, sync[d].catalogue.archives)
        /\ files[q].holds.settings \subseteq sync[d].catalogue.settings
    BY <2>2 DEF Kept, Read, Reading
  <2> QED BY <1>4, <2>1, <2>2, <2>3 DEF Held, HeldSetting, Keeps
<1>10. \A e, f \in Devices : Nested(e, f)'
  <2>1. \A e \in Devices : sync'[e].cleaning = sync[e].cleaning \/ sync'[e].cleaning = {}
    BY <1>2
  <2> QED BY <1>5, <2>1 DEF Kept, Nested
<1>11. RetiredIsReplaced'
  BY <1>4 DEF RetiredIsReplaced
<1> QED BY <1>6, <1>7, <1>8, <1>9, <1>10, <1>11 DEF Kept

LEMMA KeptRetire ==
  ASSUME Structure, Kept, NEW d \in Devices, Retire(d), sync[d].stage = "retiring"
  PROVE  Kept'
<1> DEFINE p == sync[d].at
           Spared(e) == Documents \ sync[e].cleaning
<1>1. p \in Slots /\ p \in sync[d].cleaning
  BY CleaningAt
<1>2. Becomes(p, "retired", files[p].parts, files[p].holds)
  BY DEF Retire
<1>3. /\ \A e \in Devices \ {d} : sync'[e] = sync[e]
      /\ sync'[d].stage = "deleting"
      /\ \A e \in Devices : sync'[e].cleaning = sync[e].cleaning
  BY DEF Retire, Now
<1> HIDE DEF p
<1>4. /\ Documents' = Documents \ {p}
      /\ \A q \in Documents' : files'[q] = files[q]
  BY <1>2 DEF Becomes, Documents, Of
<1>5. \A e \in Devices \ {d} : Read(e)'
  BY <1>3, <1>4 DEF Kept, Read
<1>6. Read(d)'
  BY <1>3 DEF Read, Reading
<1>7. Superseded(d) /\ sync[d].stage \in Cleaning /\ Spared(d) # {} /\ Spared(d) \subseteq Documents'
  BY <1>1, <1>4 DEF Kept, Superseded, Cleaning
<1>8. ASSUME NEW e \in Devices, sync[e].stage \in Cleaning PROVE Superseded(e)'
  <2>1. CASE p \in Documents /\ p \notin sync[e].cleaning
    \* Then e takes nothing away that d does not, and what d spares e spares.
    <3>1. sync[e].cleaning \cap Documents \subseteq sync[d].cleaning
      BY <1>1, <2>1 DEF Kept, Nested
    <3>2. Spared(d) \subseteq Documents' \ sync'[e].cleaning
      BY <1>3, <1>7, <3>1
    <3>3. \A q \in Spared(d) : files'[q] = files[q]
      BY <1>4, <1>7
    <3> HIDE DEF Spared
    <3>4. /\ \A r : Held(files, r, Spared(d)) => Held(files', r, Documents' \ sync'[e].cleaning)
          /\ \A s : HeldSetting(files, s, Spared(d)) => HeldSetting(files', s, Documents' \ sync'[e].cleaning)
      BY <3>2, <3>3, HeldStays
    <3>5. \A q \in sync'[e].cleaning \cap Documents' :
            q \in sync[d].cleaning \cap Documents /\ files'[q] = files[q]
      BY <1>3, <1>4, <3>1
    <3>6. Documents' \ sync'[e].cleaning # {}
      BY <1>7, <3>2
    <3> QED BY <1>7, <3>4, <3>5, <3>6 DEF Superseded, Spared
  <2>2. CASE ~(p \in Documents /\ p \notin sync[e].cleaning)
    <3>1. Spared(e) = Documents' \ sync'[e].cleaning
      BY <1>3, <1>4, <2>2
    <3>2. \A q \in Spared(e) : files'[q] = files[q]
      BY <1>4, <3>1
    <3>3. \A q \in sync'[e].cleaning \cap Documents' :
            q \in sync[e].cleaning \cap Documents /\ files'[q] = files[q]
      BY <1>3, <1>4
    <3>4. Superseded(e)
      BY DEF Kept
    <3> HIDE DEF Spared
    <3>5. /\ \A r : Held(files, r, Spared(e)) => Held(files', r, Documents' \ sync'[e].cleaning)
          /\ \A s : HeldSetting(files, s, Spared(e)) => HeldSetting(files', s, Documents' \ sync'[e].cleaning)
      BY <3>1, <3>2, HeldStays
    <3> QED BY <1>8, <3>1, <3>3, <3>4, <3>5 DEF Superseded, Spared
  <2> QED BY <2>1, <2>2
<1>9. \A e \in Devices : Superseded(e)'
  <2>1. ASSUME NEW e \in Devices \ {d} PROVE Superseded(e)'
    <3>1. CASE sync[e].stage \in Cleaning
      BY <1>8, <3>1
    <3>2. CASE sync[e].stage \notin Cleaning
      BY <1>3, <3>2 DEF Superseded
    <3> QED BY <3>1, <3>2
  <2> QED BY <1>7, <1>8, <2>1
<1>10. \A e, f \in Devices : Nested(e, f)'
  BY <1>3, <1>4 DEF Kept, Nested
<1>11. RetiredIsReplaced'
  BY <1>7 DEF RetiredIsReplaced
<1> QED BY <1>5, <1>6, <1>9, <1>10, <1>11 DEF Kept

LEMMA SameDocuments ==
  ASSUME NEW p, NEW role, NEW parts, NEW holds, Becomes(p, role, parts, holds),
         files[p].role # "document", role # "document"
  PROVE  /\ Documents' = Documents
         /\ \A q \in Documents : files'[q] = files[q]
         /\ p \notin Documents
         /\ (role = "retired" => files[p].role = "retired") => Of("retired")' \subseteq Of("retired")
  BY DEF Becomes, Documents, Of

LEMMA KeepsItself ==
  ASSUME NEW a \in SUBSET Revisions
  PROVE  Keeps(a, a)
<1>1. \A r \in a : r.version \in Int
  BY CloudPublicationAssumption DEF Revisions
<1>2. \A r \in a : r.version >= r.version
  BY <1>1
<1> QED BY <1>2 DEF Keeps

LEMMA KeptStep ==
  ASSUME Structure, Kept, [Next]_vars
  PROVE  Kept'
<1> USE DEF Reading, Cleaning
<1>1. CASE UNCHANGED <<files, sync>>
  BY <1>1 DEF Kept, Read, Superseded, Nested, RetiredIsReplaced, Documents, Of
<1>2. CASE Next
  <2>1. PICK d \in Devices : Step(d)
    BY <1>2, NextIsStep
  <2>2. CASE HistoryGrows(d) \/ Imports(d)
    BY <1>1, <2>2 DEF HistoryGrows, Imports
  <2>3. CASE (Look(d) \/ Rest(d) \/ Pass(d)) /\ UNCHANGED <<files, history, imported>>
    <3>0. Documents' = Documents /\ Of("retired")' = Of("retired") /\ \A q \in Documents : files'[q] = files[q]
      BY <2>3 DEF Documents, Of
    <3>1. CASE Look(d)
      <4>1. CASE Now(d, "listed", [archives |-> PublishedArchives, settings |-> PublishedSettings],
                     0, Incorporated, 0)
        BY <2>3, <4>1, KeptLists
      <4>2. CASE /\ sync[d].stage = "listed"
                 /\ Now(d, "read", sync[d].catalogue, sync[d].own, sync[d].cleaning, sync[d].at)
        <5>1. sync[d].catalogue.archives \in SUBSET Revisions
          BY HoldsOfFiles
        <5>2. Keeps(sync[d].catalogue.archives, sync[d].catalogue.archives)
          BY <5>1, KeepsItself
        <5>3. /\ \A e \in Devices \ {d} : sync'[e] = sync[e]
              /\ sync'[d].stage = "read" /\ sync'[d].cleaning = sync[d].cleaning
              /\ sync'[d].catalogue = sync[d].catalogue
          BY <4>2 DEF Now
        <5> QED BY <3>0, <4>2, <5>1, <5>2, <5>3, KeptCalm
      <4> QED BY <3>1, <4>1, <4>2 DEF Look
    <3>2. CASE Rest(d)
      <4>1. /\ \A e \in Devices \ {d} : sync'[e] = sync[e]
            /\ sync'[d].stage \in {"published", "idle"} /\ sync'[d].cleaning = {}
        BY <3>2 DEF Rest, Now
      <4> QED BY <3>0, <4>1, KeptCalm
    <3>3. CASE Pass(d)
      <4>1. /\ \A e \in Devices \ {d} : sync'[e] = sync[e]
            /\ sync[d].stage = "cleaning" /\ sync'[d].stage \in {"cleaning", "retiring"}
            /\ sync'[d].cleaning \cap Documents = sync[d].cleaning \cap Documents
        BY <3>3 DEF Pass, Now, Documents, Of
      <4> QED BY <3>0, <4>1, KeptCalm
    <3> QED BY <2>3, <3>1, <3>2, <3>3
  <2>4. CASE Begin(d) /\ sync[d].stage = "read" /\ UNCHANGED <<history, imported>>
    <3>1. PICK revision \in SUBSET Settings, p \in Fresh :
            /\ Becomes(p, "pending", {"head"}, Updated(d, sync[d].catalogue, revision))
            /\ Now(d, "uploading", Updated(d, sync[d].catalogue, revision), p,
                   sync[d].cleaning, sync[d].at)
      BY <2>4 DEF Begin
    <3> DEFINE updated == Updated(d, sync[d].catalogue, revision)
    <3>2. /\ updated \in Catalogues /\ Keeps(sync[d].catalogue.archives, updated.archives)
          /\ updated.settings = sync[d].catalogue.settings \cup revision
      BY HoldsOfFiles, UpdatedIs DEF Structure
    <3> HIDE DEF updated
    <3>3. /\ Documents' = Documents /\ Of("retired")' \subseteq Of("retired")
          /\ \A q \in Documents : files'[q] = files[q]
      BY <3>1, FreshIs, SameDocuments
    <3>4. /\ \A e \in Devices \ {d} : sync'[e] = sync[e]
          /\ sync'[d].stage = "uploading" /\ sync'[d].catalogue = updated
          /\ sync'[d].cleaning = sync[d].cleaning
      BY <3>1 DEF Now, updated
    <3>5. updated.archives \in SUBSET Revisions
      BY <3>2, CatalogueFields
    <3> QED BY <2>4, <3>2, <3>3, <3>4, <3>5, KeptCalm
  <2>5. CASE Fill(d) /\ sync[d].stage = "uploading" /\ UNCHANGED <<history, imported>>
    <3>1. /\ files[sync[d].own].role = "pending"
          /\ Becomes(sync[d].own, "pending", {"head", "rest"}, files[sync[d].own].holds)
          /\ Now(d, "uploaded", sync[d].catalogue, sync[d].own, sync[d].cleaning, sync[d].at)
      BY <2>5 DEF Structure, Own, Uploading, Fill
    <3>2. /\ Documents' = Documents /\ Of("retired")' \subseteq Of("retired")
          /\ \A q \in Documents : files'[q] = files[q]
      BY <3>1, SameDocuments
    <3>3. sync[d].catalogue.archives \in SUBSET Revisions
      BY HoldsOfFiles
    <3>4. Keeps(sync[d].catalogue.archives, sync[d].catalogue.archives)
      BY <3>3, KeepsItself
    <3>5. /\ \A e \in Devices \ {d} : sync'[e] = sync[e]
          /\ sync'[d].stage = "uploaded" /\ sync'[d].catalogue = sync[d].catalogue
          /\ sync'[d].cleaning = sync[d].cleaning
      BY <3>1 DEF Now
    <3> QED BY <2>5, <3>2, <3>3, <3>4, <3>5, KeptCalm
  <2>6. CASE Complete(d) /\ sync[d].stage = "uploaded" /\ UNCHANGED <<history, imported>>
    BY <2>6, KeptComplete
  <2>7. CASE Retire(d) /\ sync[d].stage = "retiring" /\ UNCHANGED <<history, imported>>
    BY <2>7, KeptRetire
  <2>8. CASE Trim(d) /\ sync[d].stage = "deleting" /\ UNCHANGED <<history, imported>>
    <3>1. files[sync[d].at].role \in {"retired", "none"}
      BY <2>8, CleaningAt
    <3>2. /\ Documents' = Documents /\ Of("retired")' \subseteq Of("retired")
          /\ \A q \in Documents : files'[q] = files[q]
      <4> DEFINE role == files[sync[d].at].role
                 parts == files[sync[d].at].parts \ {"rest"}
                 holds == files[sync[d].at].holds
      <4>1. Becomes(sync[d].at, role, parts, holds) /\ role # "document"
        BY <2>8, <3>1 DEF Trim
      <4> HIDE DEF parts, holds
      <4> QED BY <4>1, SameDocuments
    <3>3. /\ \A e \in Devices \ {d} : sync'[e] = sync[e]
          /\ sync'[d].stage = "deleting head" /\ sync'[d].cleaning = sync[d].cleaning
      BY <2>8 DEF Trim, Now
    <3> QED BY <2>8, <3>2, <3>3, KeptCalm
  <2>9. CASE Clear(d) /\ sync[d].stage = "deleting head" /\ UNCHANGED <<history, imported>>
    <3>1. files[sync[d].at].role \in {"retired", "none"}
      BY <2>9, CleaningAt
    <3>2. /\ Documents' = Documents /\ Of("retired")' \subseteq Of("retired")
          /\ \A q \in Documents : files'[q] = files[q]
          /\ sync[d].at \notin Documents
      BY <2>9, <3>1, SameDocuments DEF Clear
    <3>3. /\ \A e \in Devices \ {d} : sync'[e] = sync[e]
          /\ sync'[d].stage = "cleaning"
          /\ sync'[d].cleaning \cap Documents = sync[d].cleaning \cap Documents
      BY <2>9, <3>2 DEF Clear, Now
    <3> QED BY <2>9, <3>2, <3>3, KeptCalm
  <2> QED BY <2>1, <2>2, <2>3, <2>4, <2>5, <2>6, <2>7, <2>8, <2>9 DEF Step
<1> QED BY <1>1, <1>2 DEF vars

\* A reader never meets a completed publication with files missing, nor retired
\* history without its replacement, however many devices write and clean up.
THEOREM FolderAlwaysMakesSense == Spec => []FolderMakesSense
<1>1. Init => Structure /\ Kept
  BY StructureInit, KeptInit
<1>2. Structure /\ Kept /\ [Next]_vars => (Structure /\ Kept)'
  BY StructureStep, KeptStep
<1>3. Structure /\ Kept => FolderMakesSense
  BY TypedIsTypeOK DEF Structure, Kept, Whole, RetiredIsReplaced, Documents, FolderMakesSense,
                       ListedWell, Of
<1> QED BY <1>1, <1>2, <1>3, PTL DEF Spec

-----------------------------------------------------------------------------
(* Nothing published is lost *)

LEMMA StepDocuments ==
  ASSUME Structure, NEW d \in Devices, Step(d)
  PROVE  \/ Documents' = Documents /\ \A q \in Documents : files'[q] = files[q]
         \/ Complete(d) /\ sync[d].stage = "uploaded" /\ UNCHANGED imported
         \/ Retire(d) /\ sync[d].stage = "retiring"
<1>1. CASE UNCHANGED files
  BY <1>1 DEF Documents, Of
<1>2. CASE Begin(d)
  <2>1. PICK revision \in SUBSET Settings, p \in Fresh :
          Becomes(p, "pending", {"head"}, Updated(d, sync[d].catalogue, revision))
    BY <1>2 DEF Begin
  <2> DEFINE updated == Updated(d, sync[d].catalogue, revision)
  <2> HIDE DEF updated
  <2>2. Becomes(p, "pending", {"head"}, updated)
    BY <2>1 DEF updated
  <2> QED BY <2>2, FreshIs, SameDocuments
<1>3. CASE Fill(d) /\ sync[d].stage = "uploading"
  <2>1. /\ files[sync[d].own].role = "pending"
        /\ Becomes(sync[d].own, "pending", {"head", "rest"}, files[sync[d].own].holds)
    BY <1>3 DEF Structure, Own, Uploading, Fill
  <2> QED BY <2>1, SameDocuments
<1>4. CASE Trim(d) /\ sync[d].stage = "deleting"
  <2> DEFINE role == files[sync[d].at].role
             parts == files[sync[d].at].parts \ {"rest"}
             holds == files[sync[d].at].holds
  <2>1. Becomes(sync[d].at, role, parts, holds) /\ role # "document"
    BY <1>4, CleaningAt DEF Trim
  <2> HIDE DEF parts, holds
  <2> QED BY <2>1, SameDocuments
<1>5. CASE Clear(d) /\ sync[d].stage = "deleting head"
  <2>1. files[sync[d].at].role \in {"retired", "none"} /\ Becomes(sync[d].at, "none", {}, EmptyCatalogue)
    BY <1>5, CleaningAt DEF Clear
  <2> QED BY <2>1, SameDocuments
<1> QED BY <1>1, <1>2, <1>3, <1>4, <1>5 DEF Step, HistoryGrows, Imports

LEMMA CompleteDocuments ==
  ASSUME Structure, NEW d \in Devices, Complete(d), sync[d].stage = "uploaded"
  PROVE  \E p \in Slots :
           /\ Documents' = Documents \cup {p} /\ p \notin Documents
           /\ \A q \in Documents : files'[q] = files[q]
           /\ files'[p].holds = sync[d].catalogue
<1> DEFINE p == sync[d].own
<1>1. /\ p \in Slots /\ files[p].role = "pending" /\ files[p].holds = sync[d].catalogue
      /\ Becomes(p, "document", files[p].parts, files[p].holds)
  BY DEF Structure, Own, Uploading, Complete
<1> HIDE DEF p
<1> QED BY <1>1 DEF Becomes, Documents, Of

LEMMA RetireDocuments ==
  ASSUME Structure, NEW d \in Devices, Retire(d), sync[d].stage = "retiring"
  PROVE  /\ Documents' = Documents \ {sync[d].at} /\ sync[d].at \in sync[d].cleaning
         /\ \A q \in Documents' : files'[q] = files[q]
<1>1. Becomes(sync[d].at, "retired", files[sync[d].at].parts, files[sync[d].at].holds)
  BY DEF Retire
<1>2. sync[d].at \in sync[d].cleaning
  BY CleaningAt
<1> QED BY <1>1, <1>2 DEF Becomes, Documents, Of

\* What the completed publications hold stays in them, in that version or a newer.
NothingLost ==
  /\ \A r \in Revisions : Held(files, r, Documents) => Held(files', r, Documents')
  /\ \A s : HeldSetting(files, s, Documents) => HeldSetting(files', s, Documents')

LEMMA NothingIsLost ==
  ASSUME Structure, Kept, NEW d \in Devices, Step(d)
  PROVE  NothingLost
<1>1. CASE Documents' = Documents /\ \A q \in Documents : files'[q] = files[q]
  <2>1. Documents \subseteq Documents'
    BY <1>1
  <2> QED BY <1>1, <2>1, HeldStays DEF NothingLost
<1>2. CASE Complete(d) /\ sync[d].stage = "uploaded"
  <2>1. Documents \subseteq Documents' /\ \A q \in Documents : files'[q] = files[q]
    BY <1>2, CompleteDocuments
  <2> QED BY <2>1, HeldStays DEF NothingLost
<1>3. CASE Retire(d) /\ sync[d].stage = "retiring"
  <2> DEFINE p == sync[d].at
             spared == Documents \ sync[d].cleaning
  <2>1. Documents' = Documents \ {p} /\ p \in sync[d].cleaning /\ \A q \in Documents' : files'[q] = files[q]
    BY <1>3, RetireDocuments
  <2>2. spared \subseteq Documents' /\ \A q \in spared : files'[q] = files[q]
    BY <2>1
  <2>3. p \in Documents =>
          /\ \A t \in files[p].holds.archives : Held(files, t, spared)
          /\ \A s \in files[p].holds.settings : HeldSetting(files, s, spared)
    BY <1>3, <2>1 DEF Kept, Superseded, Cleaning
  <2> HIDE DEF p, spared
  <2>4. /\ \A r : Held(files, r, spared) => Held(files', r, Documents')
        /\ \A s : HeldSetting(files, s, spared) => HeldSetting(files', s, Documents')
    BY <2>2, HeldStays
  <2>5. \A q \in Documents : \A t \in files[q].holds.archives : t \in Revisions
    BY HoldsOfFiles DEF Documents, Of
  <2>6. \A r \in Revisions : r.version \in Int
    BY CloudPublicationAssumption DEF Revisions
  <2>7. ASSUME NEW r \in Revisions, Held(files, r, Documents) PROVE Held(files', r, Documents')
    <3>1. PICK q \in Documents : \E t \in files[q].holds.archives : t.source = r.source /\ t.version >= r.version
      BY <2>7 DEF Held
    <3>2. PICK t \in files[q].holds.archives : t.source = r.source /\ t.version >= r.version
      BY <3>1
    <3>3. CASE q # p
      BY <2>1, <3>2, <3>3 DEF Held
    <3>4. CASE q = p
      <4>1. Held(files', t, Documents')
        BY <2>3, <2>4, <3>4
      <4>2. PICK k \in Documents' : \E u \in files'[k].holds.archives : u.source = t.source /\ u.version >= t.version
        BY <4>1 DEF Held
      <4>3. PICK u \in files'[k].holds.archives : u.source = t.source /\ u.version >= t.version
        BY <4>2
      <4>4. u \in Revisions /\ t \in Revisions
        BY <2>1, <2>5, <4>2, <4>3
      <4>5. u.version >= r.version
        BY <2>6, <3>2, <4>3, <4>4
      <4> QED BY <3>2, <4>3, <4>5 DEF Held
    <3> QED BY <3>3, <3>4
  <2>8. ASSUME NEW s, HeldSetting(files, s, Documents) PROVE HeldSetting(files', s, Documents')
    <3>1. PICK q \in Documents : s \in files[q].holds.settings
      BY <2>8 DEF HeldSetting
    <3>2. CASE q # p
      BY <2>1, <3>1, <3>2 DEF HeldSetting
    <3>3. CASE q = p
      BY <2>3, <2>4, <3>1, <3>3
    <3> QED BY <3>2, <3>3
  <2> QED BY <2>7, <2>8 DEF NothingLost
<1> QED BY <1>1, <1>2, <1>3, StepDocuments

\* The same of the versions and settings the folder comes to.
PublishedTyped ==
  PublishedArchives \in SUBSET Revisions /\ PublishedSettings \in SUBSET Settings

LEMMA TypedNext == Structure' => PublishedTyped'
<1>1. Structure => PublishedTyped
  BY PublishedIsTyped DEF Structure, Typed, PublishedTyped
<1> QED BY <1>1, PTL

LEMMA PublishedOnlyGrows ==
  ASSUME Structure, Structure', NothingLost
  PROVE  /\ Keeps(PublishedArchives, PublishedArchives')
         /\ PublishedSettings \subseteq PublishedSettings'
         /\ \A s : Newest(PublishedArchives, s) <= Newest(PublishedArchives', s)
<1>1. PublishedArchives \in SUBSET Revisions /\ PublishedArchives' \in SUBSET Revisions
  BY PublishedIsTyped, TypedNext DEF Structure, Typed, PublishedTyped
<1>2. Keeps(PublishedArchives, PublishedArchives')
  <2> SUFFICES ASSUME NEW r \in PublishedArchives
               PROVE  \E t \in PublishedArchives' : t.source = r.source /\ t.version >= r.version
    BY DEF Keeps
  <2>1. r \in Revisions
    BY <1>1
  <2>2. r.version >= r.version
    BY <2>1, CloudPublicationAssumption DEF Revisions
  <2>3. Held(files, r, Documents)
    BY <2>2 DEF Held, PublishedArchives, Documents
  <2>4. Held(files', r, Documents')
    BY <2>1, <2>3 DEF NothingLost
  <2> QED BY <2>4 DEF Held, PublishedArchives, Documents
<1>3. PublishedSettings \subseteq PublishedSettings'
  BY DEF NothingLost, HeldSetting, PublishedSettings, Documents
<1> HIDE DEF PublishedArchives
<1> DEFINE after == PublishedArchives'
<1>4. after \in SUBSET Revisions /\ Keeps(PublishedArchives, after)
  BY <1>1, <1>2
<1> HIDE DEF after
<1>5. \A s : Newest(PublishedArchives, s) <= Newest(after, s)
  BY <1>1, <1>4, NewestKept
<1>6. \A s : Newest(after, s) = Newest(PublishedArchives', s)
  BY DEF after
<1> QED BY <1>2, <1>3, <1>5, <1>6

-----------------------------------------------------------------------------
(* What a device knows is in the folder *)

\* What a device brought home is no newer than the folder, nor than what it read.
Brought(d) == \A s \in Devices :
  /\ imported[d][s] <= Newest(PublishedArchives, s)
  /\ sync[d].stage # "idle" => imported[d][s] <= Newest(sync[d].catalogue.archives, s)

\* All a device has in hand is in the folder, but for its own news: one version
\* of its history and one revision of the settings.
InHand(d) == sync[d].stage # "idle" =>
  /\ \A r \in sync[d].catalogue.archives : r.source # d => Held(files, r, Documents)
  /\ \A a, b \in sync[d].catalogue.settings : a = b \/ a \in PublishedSettings \/ b \in PublishedSettings
  /\ sync[d].stage \in {"listed", "read"} => sync[d].catalogue.settings \subseteq PublishedSettings

Mapped == \A d \in Devices : Brought(d) /\ InHand(d)

LEMMA MappedInit == Init => Mapped
<1> SUFFICES ASSUME Init PROVE Mapped
  OBVIOUS
<1>1. Structure
  BY StructureInit
<1>2. \A d, s \in Devices : sync[d].stage = "idle" /\ imported[d][s] = 0
  BY DEF Init, NoSync
<1>3. \A s : Newest(PublishedArchives, s) \in Nat
  <2>1. PublishedArchives \in SUBSET Revisions
    BY <1>1, PublishedIsTyped DEF Structure, Typed
  <2>2. \A a \in SUBSET Revisions : \A s : Newest(a, s) \in Nat
    BY NewestIs, CloudPublicationAssumption DEF Versions
  <2> QED BY <2>1, <2>2
<1>4. \A s : 0 <= Newest(PublishedArchives, s)
  BY <1>3
<1> QED BY <1>2, <1>4 DEF Mapped, Brought, InHand

\* A device that goes on with what it had in hand, or stops.
LEMMA MappedCalm ==
  ASSUME Structure, Structure', Mapped, NothingLost, NEW d \in Devices, UNCHANGED imported,
         \A e \in Devices \ {d} : sync'[e] = sync[e],
         \/ sync'[d].stage = "idle"
         \/ /\ sync[d].stage # "idle" /\ sync'[d].catalogue = sync[d].catalogue
            /\ sync'[d].stage \in {"listed", "read"} => sync[d].stage \in {"listed", "read"}
  PROVE  Mapped'
<1>1. /\ PublishedSettings \subseteq PublishedSettings'
      /\ \A s : Newest(PublishedArchives, s) <= Newest(PublishedArchives', s)
  BY PublishedOnlyGrows
<1>2. \A s : Newest(PublishedArchives, s) \in Int /\ Newest(PublishedArchives', s) \in Int
  <2>1. PublishedArchives \in SUBSET Revisions /\ PublishedArchives' \in SUBSET Revisions
    BY PublishedIsTyped, TypedNext DEF Structure, Typed, PublishedTyped
  <2>2. \A a \in SUBSET Revisions : \A s : Newest(a, s) \in Int
    BY NewestIs, CloudPublicationAssumption DEF Versions
  <2> QED BY <2>1, <2>2
<1>3. \A e, s \in Devices : imported[e][s] \in Int
  BY CloudPublicationAssumption DEF Structure, Typed, Versions
<1>4. \A e, s \in Devices : imported'[e][s] <= Newest(PublishedArchives', s)
  BY <1>1, <1>2, <1>3 DEF Mapped, Brought
<1>5. \A e \in Devices : Brought(e)'
  <2>1. \A e \in Devices, s \in Devices :
          sync'[e].stage # "idle" => imported'[e][s] <= Newest(sync'[e].catalogue.archives, s)
    BY DEF Mapped, Brought
  <2> QED BY <1>4, <2>1 DEF Brought
<1>6. \A e \in Devices : \A r \in sync[e].catalogue.archives : r \in Revisions
  BY HoldsOfFiles
<1>7. \A e \in Devices : InHand(e)'
  <2> SUFFICES ASSUME NEW e \in Devices, sync'[e].stage # "idle" PROVE InHand(e)'
    BY DEF InHand
  <2>1. /\ sync[e].stage # "idle" /\ sync'[e].catalogue = sync[e].catalogue
        /\ sync'[e].stage \in {"listed", "read"} => sync[e].stage \in {"listed", "read"}
    OBVIOUS
  <2>2. InHand(e)
    BY DEF Mapped
  <2>3. \A r \in sync[e].catalogue.archives : r.source # e => Held(files', r, Documents')
    BY <1>6, <2>1, <2>2 DEF InHand, NothingLost
  <2> QED BY <1>1, <2>1, <2>2, <2>3 DEF InHand
<1> QED BY <1>5, <1>7 DEF Mapped

LEMMA SameFolder ==
  ASSUME UNCHANGED files
  PROVE  /\ PublishedArchives' = PublishedArchives /\ PublishedSettings' = PublishedSettings
         /\ Documents' = Documents
  BY DEF PublishedArchives, PublishedSettings, Documents, Of

LEMMA MappedLists ==
  ASSUME Structure, Mapped, NEW d \in Devices, UNCHANGED <<files, imported>>,
         Now(d, "listed", [archives |-> PublishedArchives, settings |-> PublishedSettings],
             0, Incorporated, 0)
  PROVE  Mapped'
<1>1. /\ \A e \in Devices \ {d} : sync'[e] = sync[e]
      /\ sync'[d].stage = "listed"
      /\ sync'[d].catalogue.archives = PublishedArchives
      /\ sync'[d].catalogue.settings = PublishedSettings
  BY DEF Now
<1>2. /\ PublishedArchives' = PublishedArchives /\ PublishedSettings' = PublishedSettings
      /\ Documents' = Documents
  BY SameFolder
<1>3. \A r \in PublishedArchives : Held(files, r, Documents)
  <2>1. \A r \in PublishedArchives : r.version \in Int
    BY PublishedIsTyped, CloudPublicationAssumption DEF Structure, Typed, Revisions
  <2>2. \A r \in PublishedArchives : r.version >= r.version
    BY <2>1
  <2> QED BY <2>2 DEF PublishedArchives, Held, Documents
<1>4. \A e \in Devices \ {d} : Brought(e)' /\ InHand(e)'
  BY <1>1, <1>2 DEF Mapped, Brought, InHand
<1>5. Brought(d)'
  BY <1>1, <1>2 DEF Mapped, Brought
<1>6. InHand(d)'
  BY <1>1, <1>2, <1>3 DEF InHand
<1> QED BY <1>4, <1>5, <1>6 DEF Mapped

LEMMA MappedBegin ==
  ASSUME Structure, Structure', Mapped, NothingLost, NEW d \in Devices, UNCHANGED imported,
         Begin(d), sync[d].stage = "read"
  PROVE  Mapped'
<1>1. PICK revision \in SUBSET Settings, p \in Fresh :
        /\ revision = {} \/ \E s \in Settings : revision = {s}
        /\ Becomes(p, "pending", {"head"}, Updated(d, sync[d].catalogue, revision))
        /\ Now(d, "uploading", Updated(d, sync[d].catalogue, revision), p,
               sync[d].cleaning, sync[d].at)
  BY DEF Begin
<1> DEFINE updated == Updated(d, sync[d].catalogue, revision)
           read == sync[d].catalogue
<1>2. /\ updated \in Catalogues /\ read \in Catalogues
      /\ Keeps(read.archives, updated.archives)
      /\ \A r \in updated.archives : r \in read.archives \/ r.source = d
      /\ updated.settings = read.settings \cup revision
  BY HoldsOfFiles, UpdatedIs DEF Structure
<1> HIDE DEF updated
<1>3. /\ Documents' = Documents /\ \A q \in Documents : files'[q] = files[q]
  BY <1>1, FreshIs, SameDocuments
<1>4. PublishedArchives' = PublishedArchives /\ PublishedSettings' = PublishedSettings
  BY <1>3 DEF PublishedArchives, PublishedSettings, Documents
<1>5. /\ \A e \in Devices \ {d} : sync'[e] = sync[e]
      /\ sync'[d].stage = "uploading" /\ sync'[d].catalogue = updated
  BY <1>1 DEF Now, updated
<1>6. \A e \in Devices \ {d} : Brought(e)'
  BY <1>4, <1>5 DEF Mapped, Brought
<1>7. \A e \in Devices : \A r \in sync[e].catalogue.archives :
        Held(files, r, Documents) => Held(files', r, Documents')
  BY HoldsOfFiles DEF NothingLost
<1>8. \A e \in Devices \ {d} : InHand(e)'
  BY <1>4, <1>5, <1>7 DEF Mapped, InHand
<1>9. Brought(d)'
  <2>1. read.archives \in SUBSET Revisions /\ updated.archives \in SUBSET Revisions
    BY <1>2, CatalogueFields
  <2> DEFINE old == read.archives
             new == updated.archives
  <2>2. old \in SUBSET Revisions /\ new \in SUBSET Revisions /\ Keeps(old, new)
    BY <1>2, <2>1
  <2> HIDE DEF old, new
  <2>3. \A s : /\ Newest(old, s) <= Newest(new, s)
               /\ Newest(old, s) \in Int /\ Newest(new, s) \in Int
    BY <2>2, NewestKept, NewestIs, CloudPublicationAssumption DEF Versions
  <2>4. \A s \in Devices : imported[d][s] <= Newest(old, s) /\ imported[d][s] \in Int
    BY CloudPublicationAssumption DEF Structure, Typed, Versions, Mapped, Brought, old
  <2>5. \A s \in Devices : imported[d][s] <= Newest(new, s)
    BY <2>3, <2>4
  <2>6. \A s \in Devices : imported[d][s] <= Newest(PublishedArchives, s)
    BY DEF Mapped, Brought
  <2> QED BY <1>4, <1>5, <2>5, <2>6 DEF Brought, new
<1>10. InHand(d)'
  <2>1. read.settings \subseteq PublishedSettings
    BY DEF Mapped, InHand
  <2>2. \A a, b \in updated.settings : a = b \/ a \in PublishedSettings \/ b \in PublishedSettings
    BY <1>1, <1>2, <2>1
  <2>3. \A r \in updated.archives : r.source # d => Held(files', r, Documents')
    BY <1>2, <1>7 DEF Mapped, InHand
  <2> QED BY <1>4, <1>5, <2>2, <2>3 DEF InHand
<1> QED BY <1>6, <1>8, <1>9, <1>10 DEF Mapped

LEMMA MappedImports ==
  ASSUME Structure, Mapped, NEW d \in Devices, Imports(d)
  PROVE  Mapped'
<1> DEFINE archives == sync[d].catalogue.archives
<1>1. PICK s \in Devices \ {d} :
        /\ Newest(archives, s) # 0
        /\ imported' = [imported EXCEPT ![d][s] = Newest(archives, s)]
  BY DEF Imports
<1>2. UNCHANGED <<files, sync>> /\ sync[d].stage = "published"
  BY DEF Imports
<1>3. archives \in SUBSET Revisions /\ PublishedArchives \in SUBSET Revisions
  BY HoldsOfFiles, PublishedIsTyped DEF Structure, Typed
<1>4. PICK r \in archives : r.source = s /\ r.version = Newest(archives, s)
  BY <1>1, <1>3, NewestIs
<1>5. Held(files, r, Documents)
  BY <1>2, <1>4 DEF Mapped, InHand
<1>6. PICK t \in PublishedArchives : t.source = s /\ t.version >= r.version
  BY <1>4, <1>5 DEF Held, PublishedArchives, Documents
<1>7. Newest(archives, s) <= Newest(PublishedArchives, s) /\ Newest(archives, s) \in Int
  <2> HIDE DEF archives
  <2>1. t.version <= Newest(PublishedArchives, s) /\ Newest(PublishedArchives, s) \in Int /\ Newest(archives, s) \in Int
    BY <1>3, <1>6, NewestIs, CloudPublicationAssumption DEF Versions
  <2>2. t.version \in Int
    BY <1>3, <1>6, CloudPublicationAssumption DEF Revisions
  <2> QED BY <1>4, <1>6, <2>1, <2>2
<1>8. /\ PublishedArchives' = PublishedArchives /\ PublishedSettings' = PublishedSettings
      /\ Documents' = Documents
  BY <1>2, SameFolder
<1>9. \A e \in Devices : InHand(e)'
  BY <1>2, <1>8 DEF Mapped, InHand
<1>10. \A e, o \in Devices :
         imported'[e][o] = IF e = d /\ o = s THEN Newest(archives, s) ELSE imported[e][o]
  BY <1>1 DEF Structure, Typed
<1>11. Newest(archives, s) <= Newest(archives, s)
  BY <1>7
<1>12. \A e \in Devices : Brought(e)'
  BY <1>2, <1>7, <1>8, <1>10, <1>11 DEF Mapped, Brought
<1> QED BY <1>9, <1>12 DEF Mapped

LEMMA MappedStep ==
  ASSUME Structure, Structure', Kept, Mapped, [Next]_vars
  PROVE  Mapped'
<1>1. CASE UNCHANGED vars
  BY <1>1, SameFolder DEF vars, Mapped, Brought, InHand
<1>2. CASE Next
  <2>1. PICK d \in Devices : Step(d)
    BY <1>2, NextIsStep
  <2>2. NothingLost
    BY <2>1, NothingIsLost
  <2>3. CASE HistoryGrows(d)
    BY <2>3, SameFolder DEF HistoryGrows, Mapped, Brought, InHand
  <2>4. CASE Imports(d)
    BY <2>4, MappedImports
  <2>5. CASE Look(d) /\ UNCHANGED <<files, history, imported>>
    <3>1. CASE Now(d, "listed", [archives |-> PublishedArchives, settings |-> PublishedSettings],
                   0, Incorporated, 0)
      BY <2>5, <3>1, MappedLists
    <3>2. CASE /\ sync[d].stage = "listed"
               /\ Now(d, "read", sync[d].catalogue, sync[d].own, sync[d].cleaning, sync[d].at)
      <4>1. /\ \A e \in Devices \ {d} : sync'[e] = sync[e]
            /\ sync[d].stage \in {"listed", "read"} /\ sync[d].stage # "idle"
            /\ sync'[d].catalogue = sync[d].catalogue
        BY <3>2 DEF Now
      <4> QED BY <2>2, <2>5, <4>1, MappedCalm
    <3> QED BY <2>5, <3>1, <3>2 DEF Look
  <2>6. CASE Begin(d) /\ sync[d].stage = "read" /\ UNCHANGED <<history, imported>>
    BY <2>2, <2>6, MappedBegin
  <2>7. CASE \/ (Rest(d) \/ Pass(d)) /\ UNCHANGED <<files, history, imported>>
             \/ Fill(d) /\ sync[d].stage = "uploading" /\ UNCHANGED <<history, imported>>
             \/ Complete(d) /\ sync[d].stage = "uploaded" /\ UNCHANGED <<history, imported>>
             \/ Retire(d) /\ sync[d].stage = "retiring" /\ UNCHANGED <<history, imported>>
             \/ Trim(d) /\ sync[d].stage = "deleting" /\ UNCHANGED <<history, imported>>
             \/ Clear(d) /\ sync[d].stage = "deleting head" /\ UNCHANGED <<history, imported>>
    <3>1. /\ UNCHANGED imported
          /\ \A e \in Devices \ {d} : sync'[e] = sync[e]
      BY <2>7 DEF Rest, Pass, Fill, Complete, Retire, Trim, Clear, Now
    <3>2. \/ sync'[d].stage = "idle"
          \/ /\ sync[d].stage # "idle" /\ sync'[d].catalogue = sync[d].catalogue
             /\ sync'[d].stage \notin {"listed", "read"}
      BY <2>7 DEF Rest, Pass, Fill, Complete, Retire, Trim, Clear, Now
    <3> QED BY <2>2, <3>1, <3>2, MappedCalm
  <2> QED BY <2>1, <2>3, <2>4, <2>5, <2>6, <2>7 DEF Step
<1> QED BY <1>1, <1>2

-----------------------------------------------------------------------------
(* The folder implements the catalogue it promises *)

Latest == [s \in Devices |-> Max({0} \cup VersionsOf(PublishedArchives, s))]

LEMMA LatestIs ==
  /\ \A s \in Devices : Latest[s] = Newest(PublishedArchives, s)
  /\ \A s \in Devices : Latest'[s] = Newest(PublishedArchives', s)
  BY DEF Latest, Newest

LEMMA LatestTyped ==
  ASSUME Structure, Structure'
  PROVE  /\ PublishedArchives \in SUBSET Revisions /\ PublishedArchives' \in SUBSET Revisions
         /\ \A s : Newest(PublishedArchives, s) \in Versions /\ Newest(PublishedArchives', s) \in Versions
<1>1. PublishedArchives \in SUBSET Revisions /\ PublishedArchives' \in SUBSET Revisions
  BY PublishedIsTyped, TypedNext DEF Structure, Typed, PublishedTyped
<1>2. \A a \in SUBSET Revisions : \A s : Newest(a, s) \in Versions
  BY NewestIs
<1> QED BY <1>1, <1>2

\* Newest goes no further when every archive of a source is held already.
LEMMA NewestOf ==
  ASSUME NEW a \in SUBSET Revisions, NEW c \in SUBSET Revisions, NEW s,
         \A r \in c : r.source = s => \E t \in a : t.source = s /\ t.version >= r.version
  PROVE  Newest(c, s) <= Newest(a, s)
<1> DEFINE only == {r \in c : r.source = s}
<1>1. only \in SUBSET Revisions /\ Keeps(only, a)
  BY DEF Keeps
<1>2. Newest(only, s) <= Newest(a, s)
  <2> HIDE DEF only
  <2> QED BY <1>1, NewestKept
<1>3. VersionsOf(only, s) = VersionsOf(c, s)
  BY DEF VersionsOf
<1> QED BY <1>2, <1>3 DEF Newest

LEMMA LatestStays ==
  ASSUME Structure, Structure', NothingLost,
         Documents' \subseteq Documents, \A q \in Documents' : files'[q] = files[q]
  PROVE  Latest' = Latest /\ PublishedSettings' = PublishedSettings
<1>1. PublishedArchives' \subseteq PublishedArchives /\ PublishedSettings' \subseteq PublishedSettings
  BY DEF PublishedArchives, PublishedSettings, Documents
<1>2. /\ PublishedSettings \subseteq PublishedSettings'
      /\ \A s : Newest(PublishedArchives, s) <= Newest(PublishedArchives', s)
  BY PublishedOnlyGrows
<1> DEFINE before == PublishedArchives
           after == PublishedArchives'
<1>3. before \in SUBSET Revisions /\ after \in SUBSET Revisions /\ after \subseteq before
  BY <1>1, LatestTyped
<1> HIDE DEF before, after
<1>4. \A r \in after : r.version >= r.version
  <2>1. \A r \in after : r.version \in Int
    BY <1>3, CloudPublicationAssumption DEF Revisions
  <2> QED BY <2>1
<1>5. Keeps(after, before)
  BY <1>3, <1>4 DEF Keeps
<1>6. \A s : Newest(after, s) <= Newest(before, s)
  BY <1>3, <1>5, NewestKept
<1>7. \A s : Newest(PublishedArchives', s) = Newest(PublishedArchives, s)
  <2>1. \A s : Newest(PublishedArchives', s) <= Newest(PublishedArchives, s)
    BY <1>6 DEF before, after
  <2>2. \A s : Newest(PublishedArchives, s) \in Int /\ Newest(PublishedArchives', s) \in Int
    BY LatestTyped, CloudPublicationAssumption DEF Versions
  <2> QED BY <1>2, <2>1, <2>2
<1>8. Latest' = Latest
  BY <1>7 DEF Latest, Newest
<1> QED BY <1>1, <1>2, <1>8

\* Completing a copy publishes the device's own news and nothing else.
LEMMA LatestCompletes ==
  ASSUME Structure, Structure', Mapped, NothingLost, NEW d \in Devices,
         Complete(d), sync[d].stage = "uploaded"
  PROVE  /\ \E version \in Versions : version >= Latest[d] /\ Latest' = [Latest EXCEPT ![d] = version]
         /\ \/ PublishedSettings' = PublishedSettings
            \/ \E s \in Settings \ PublishedSettings : PublishedSettings' = PublishedSettings \cup {s}
<1> DEFINE c == sync[d].catalogue
<1>1. PICK p \in Slots : /\ Documents' = Documents \cup {p} /\ p \notin Documents
                         /\ \A q \in Documents : files'[q] = files[q]
                         /\ files'[p].holds = c
  BY CompleteDocuments
<1>2. /\ PublishedArchives' = PublishedArchives \cup c.archives
      /\ PublishedSettings' = PublishedSettings \cup c.settings
  BY <1>1 DEF PublishedArchives, PublishedSettings, Documents
<1>3. InHand(d) /\ c.settings \subseteq Settings
  BY HoldsOfFiles DEF Mapped
<1>4. /\ PublishedArchives \in SUBSET Revisions /\ PublishedArchives' \in SUBSET Revisions
      /\ \A s : Newest(PublishedArchives, s) \in Versions /\ Newest(PublishedArchives', s) \in Versions
      /\ \A s : Newest(PublishedArchives, s) <= Newest(PublishedArchives', s)
  BY LatestTyped, PublishedOnlyGrows
<1>5. ASSUME NEW s \in Devices \ {d} PROVE Newest(PublishedArchives', s) = Newest(PublishedArchives, s)
  <2>1. ASSUME NEW r \in PublishedArchives', r.source = s
        PROVE  \E t \in PublishedArchives : t.source = s /\ t.version >= r.version
    <3>1. CASE r \in PublishedArchives
      <4>1. r.version \in Int
        BY <1>4, CloudPublicationAssumption DEF Revisions
      <4>2. r.version >= r.version
        BY <4>1
      <4> QED BY <2>1, <3>1, <4>2
    <3>2. CASE r \in c.archives
      <4>1. Held(files, r, Documents)
        BY <1>3, <2>1, <3>2 DEF InHand
      <4> QED BY <2>1, <4>1 DEF Held, PublishedArchives, Documents
    <3> QED BY <1>2, <2>1, <3>1, <3>2
  <2> DEFINE before == PublishedArchives
             after == PublishedArchives'
  <2>2. /\ before \in SUBSET Revisions /\ after \in SUBSET Revisions
        /\ \A r \in after : r.source = s => \E t \in before : t.source = s /\ t.version >= r.version
    BY <1>4, <2>1
  <2> HIDE DEF before, after
  <2>3. Newest(after, s) <= Newest(before, s)
    BY <2>2, NewestOf
  <2>4. Newest(PublishedArchives', s) <= Newest(PublishedArchives, s)
    BY <2>3 DEF before, after
  <2> QED BY <1>4, <2>4, CloudPublicationAssumption DEF Versions
<1>6. \E version \in Versions : version >= Latest[d] /\ Latest' = [Latest EXCEPT ![d] = version]
  <2>1. Newest(PublishedArchives', d) \in Versions /\ Newest(PublishedArchives', d) >= Latest[d]
    BY <1>4, LatestIs, CloudPublicationAssumption DEF Versions
  <2>2. Latest' = [Latest EXCEPT ![d] = Newest(PublishedArchives', d)]
    BY <1>5 DEF Latest, Newest
  <2> QED BY <2>1, <2>2
<1>7. \/ PublishedSettings' = PublishedSettings
      \/ \E s \in Settings \ PublishedSettings : PublishedSettings' = PublishedSettings \cup {s}
  <2>1. CASE c.settings \subseteq PublishedSettings
    BY <1>2, <2>1
  <2>2. CASE ~(c.settings \subseteq PublishedSettings)
    <3>1. PICK s \in c.settings : s \notin PublishedSettings
      BY <2>2
    <3>2. \A a \in c.settings : a = s \/ a \in PublishedSettings
      BY <1>3, <3>1 DEF InHand
    <3>3. PublishedSettings' = PublishedSettings \cup {s}
      BY <1>2, <3>1, <3>2
    <3> QED BY <1>3, <3>1, <3>3
  <2> QED BY <2>1, <2>2
<1> QED BY <1>6, <1>7

LEMMA InitIsCatalogue == Init => Catalogue!Init
<1> SUFFICES ASSUME Init PROVE Catalogue!Init
  OBVIOUS
<1>1. PublishedArchives = {} /\ PublishedSettings = {}
  BY DEF Init, PublishedArchives, PublishedSettings, Of, NoPublication
<1>2. \A s \in Devices : Max({0} \cup VersionsOf(PublishedArchives, s)) = 0
  <2>1. \A s : {0} \cup VersionsOf(PublishedArchives, s) = {0}
    BY <1>1 DEF VersionsOf
  <2>2. {0} \in SUBSET (0 .. 0)
    OBVIOUS
  <2>3. Max({0}) = 0
    BY <2>2, MaxIs
  <2> QED BY <2>1, <2>3
<1>3. imported = [d \in Devices |-> [s \in Devices |-> 0]]
  BY DEF Init
<1> HIDE DEF PublishedArchives
<1> QED BY <1>1, <1>2, <1>3 DEF Catalogue!Init

LEMMA StepIsCatalogue ==
  ASSUME Structure, Structure', Kept, Mapped, [Next]_vars
  PROVE  [Catalogue!Next]_<<Latest, PublishedSettings, imported>>
<1>1. CASE UNCHANGED vars
  BY <1>1, SameFolder DEF vars, Latest
<1>2. CASE Next
  <2>1. PICK d \in Devices : Step(d)
    BY <1>2, NextIsStep
  <2>2. NothingLost
    BY <2>1, NothingIsLost
  <2>3. CASE Imports(d)
    <3>1. PICK s \in Devices \ {d} :
            LET version == Newest(sync[d].catalogue.archives, s)
            IN  /\ version # imported[d][s]
                /\ imported' = [imported EXCEPT ![d][s] = version]
      BY <2>3 DEF Imports
    <3>2. UNCHANGED <<files, sync>> /\ sync[d].stage = "published"
      BY <2>3 DEF Imports
    <3>3. Latest' = Latest /\ PublishedSettings' = PublishedSettings
      BY <3>2, SameFolder DEF Latest
    <3> DEFINE version == Newest(sync[d].catalogue.archives, s)
    <3>4. version \in Versions
      BY HoldsOfFiles, NewestIs
    <3>5. imported[d][s] <= version
      BY <3>2 DEF Mapped, Brought
    <3>6. Mapped' /\ imported'[d][s] = version /\ PublishedArchives' = PublishedArchives
      BY <2>3, <3>1, <3>2, MappedImports, SameFolder DEF Structure, Typed
    <3>7. version <= Latest[s]
      BY <3>6, LatestIs DEF Mapped, Brought
    <3>8. Latest[s] \in Versions /\ imported[d][s] \in Versions
      BY LatestTyped, LatestIs DEF Structure, Typed
    <3>9. version \in imported[d][s] + 1 .. Latest[s]
      BY <3>1, <3>4, <3>5, <3>7, <3>8, CloudPublicationAssumption DEF Versions
    <3>10. Catalogue!BringHome(d)
      BY <3>1, <3>3, <3>4, <3>9 DEF Catalogue!BringHome, Latest
    <3> QED BY <3>10 DEF Catalogue!Next
  <2>4. CASE Complete(d) /\ sync[d].stage = "uploaded" /\ UNCHANGED imported
    <3>1. Catalogue!Publish(d)
      BY <2>2, <2>4, LatestCompletes DEF Catalogue!Publish, Latest
    <3> QED BY <3>1 DEF Catalogue!Next
  <2>5. CASE ~Imports(d) /\ ~(Complete(d) /\ sync[d].stage = "uploaded" /\ UNCHANGED imported)
    <3>1. imported' = imported
      BY <2>1, <2>5 DEF Step, HistoryGrows
    <3>2. Documents' \subseteq Documents /\ \A q \in Documents' : files'[q] = files[q]
      BY <2>1, <2>5, StepDocuments, RetireDocuments
    <3>3. Latest' = Latest /\ PublishedSettings' = PublishedSettings
      BY <2>2, <3>2, LatestStays
    <3> QED BY <3>1, <3>3
  <2> QED BY <2>3, <2>4, <2>5
<1> QED BY <1>1, <1>2

\* Whatever syncs overlap and wherever one is cut off, nothing a device published
\* is lost, and nothing older is brought home over what there was.
THEOREM NothingPublishedIsLost == Spec => ImplementsCatalogue
<1>1. Init => Structure /\ Kept /\ Mapped /\ Catalogue!Init
  BY StructureInit, KeptInit, MappedInit, InitIsCatalogue
<1>2. Structure /\ Kept /\ [Next]_vars => Structure' /\ Kept'
  BY StructureStep, KeptStep
<1>3. Structure /\ Structure' /\ Kept /\ Mapped /\ [Next]_vars => Mapped'
  BY MappedStep
<1>4. Structure /\ Structure' /\ Kept /\ Mapped /\ [Next]_vars
        => [Catalogue!Next]_<<Latest, PublishedSettings, imported>>
  BY StepIsCatalogue
<1>5. Latest = [s \in Devices |-> Max({0} \cup VersionsOf(PublishedArchives, s))]
  BY DEF Latest
<1> QED BY <1>1, <1>2, <1>3, <1>4, <1>5, PTL DEF Spec, ImplementsCatalogue, Catalogue!Spec, Latest
=============================================================================
