---------------------------- MODULE SharedSettings ----------------------------
(***************************************************************************)
(* Shared settings: theme, sidebar and statistics preferences, and for a   *)
(* device that opted in the Victron key.  The workspace keeps a revision   *)
(* for every change, each naming the ones it replaces; what no revision    *)
(* names is a head.  A device syncs from what it holds, the heads, and the *)
(* baseline it last agreed on, and asks its owner when they do not tell    *)
(* which side changed.  Between any two steps the owner may change a       *)
(* setting, another device may publish, and the sync may come to an end.   *)
(*                                                                         *)
(* The workspace never loses a revision (see SharedCatalogue), so it is a  *)
(* sequence that grows by one whole revision at a time.                    *)
(***************************************************************************)
EXTENDS Integers, FiniteSets, Sequences

CONSTANTS
  Devices,
  Keys,          \* the Victron keys an owner may enter
  Plain,         \* what the plain preferences may be, when any are saved
  MaxEdits,      \* bound: changes owners make, to a setting, a key or the opt-in
  MaxRevisions   \* bound: revisions in the workspace

ASSUME SharedSettingsAssumption ==
  /\ 0 \notin Keys /\ 0 \notin Plain
  /\ {MaxEdits, MaxRevisions} \subseteq Nat

VARIABLES
  cloud,        \* the settings revisions, oldest first
  here,         \* each device's own settings, and whether it shares its key
  baseline,     \* what each device and the workspace held when they last agreed
  conflicts,    \* the heads each device asks its owner about
  op,           \* the sync or the resolution under way on each device
  edits,        \* how many changes owners have made
  held          \* history: all the plain preferences each device has held

vars == <<cloud, here, baseline, conflicts, op, edits, held>>

\* 0 is none saved.
Preferences == [plain : Plain \cup {0}, key : Keys \cup {0}]
NoPreferences == [plain |-> 0, key |-> 0]

NoBaseline == [local |-> NoPreferences, cloud |-> [plain |-> -1, key |-> 0]]
NoRevision == [preferences |-> NoPreferences, parents |-> {}, source |-> "none",
               secret |-> FALSE, asked |-> FALSE]
NoOp == [stage |-> "idle", heads |-> {}, local |-> NoPreferences, choice |-> 0,
         revision |-> NoRevision, agreed |-> NoBaseline]

Init ==
  /\ cloud = <<>>
  /\ here \in [Devices -> [own : {NoPreferences}, secret : {FALSE}]]
  /\ baseline = [d \in Devices |-> NoBaseline]
  /\ conflicts = [d \in Devices |-> {}]
  /\ op = [d \in Devices |-> NoOp]
  /\ edits = 0
  /\ held = [d \in Devices |-> {0}]

-----------------------------------------------------------------------------
(* Preferences and revisions. *)

SharedPreferences(preferences, secret) ==
  IF secret THEN preferences ELSE [preferences EXCEPT !.key = 0]

Local(d) == SharedPreferences(here[d].own, here[d].secret)

SettingsHeads == DOMAIN cloud \ UNION {cloud[r].parents : r \in DOMAIN cloud}

KeysOf(revisions) == {cloud[r].preferences.key : r \in revisions} \ {0}

PreservesNothing(preferences, keys) == preferences           \* mutant

\* A key the device does not share is carried over; "keys" has one at most.
PreserveCloudKey(preferences, keys) ==
  IF preferences.key # 0 \/ keys = {} THEN preferences
  ELSE [preferences EXCEPT !.key = CHOOSE k \in keys : TRUE]

CanPreserve(preferences, keys) == preferences.key # 0 \/ Cardinality(keys) <= 1

\* What this device would publish over these heads in place of what they hold.
ToPublish(d, local, heads) ==
  IF here[d].secret THEN local ELSE PreserveCloudKey(local, KeysOf(heads))

MayPublish(d, local, heads) == here[d].secret \/ CanPreserve(local, KeysOf(heads))

\* An absent key is left as it is.
Applied(d, preferences) ==
  [plain |-> preferences.plain,
   key |-> IF here[d].secret /\ preferences.key # 0 THEN preferences.key ELSE here[d].own.key]

Holds(d, preferences) ==
  /\ here' = [here EXCEPT ![d].own = preferences]
  /\ held' = [held EXCEPT ![d] = @ \cup {preferences.plain}]

Goes(d, next) == op' = [op EXCEPT ![d] = next]

-----------------------------------------------------------------------------
(* The owner. *)

Edited == edits < MaxEdits /\ edits' = edits + 1

ChangesASetting(d) ==
  /\ Edited
  /\ \E plain \in (Plain \cup {0}) \ {here[d].own.plain} :
       Holds(d, [here[d].own EXCEPT !.plain = plain])
  /\ UNCHANGED <<cloud, baseline, conflicts, op>>

ChangesTheKey(d) ==
  /\ Edited
  /\ \E key \in (Keys \cup {0}) \ {here[d].own.key} : Holds(d, [here[d].own EXCEPT !.key = key])
  /\ UNCHANGED <<cloud, baseline, conflicts, op>>

ForgetsTheBaseline(d) == baseline' = [baseline EXCEPT ![d] = NoBaseline]

\* Closed to the owner while a sync runs.
SetIncludeSecret(d) ==
  /\ op[d].stage = "idle"
  /\ Edited
  /\ here' = [here EXCEPT ![d].secret = ~@]
  /\ ForgetsTheBaseline(d)
  /\ UNCHANGED <<cloud, conflicts, op, held>>

-----------------------------------------------------------------------------
(* A sync. *)

\* The heads are read, the archive captured, then this device's settings taken and
\* hashed.  A change the owner makes in between is one made before the reading, and
\* one made to the workspace in between is one made after: so the two are one step.
ReadsCatalog(d) ==
  /\ op[d].stage = "idle"
  /\ Goes(d, [NoOp EXCEPT !.stage = "hashed", !.heads = SettingsHeads, !.local = Local(d)])
  /\ UNCHANGED <<cloud, here, baseline, conflicts, edits, held>>

CloudOf(d, head) == SharedPreferences(cloud[head].preferences, here[d].secret)
ShownOf(d) == {CloudOf(d, head) : head \in op[d].heads}
HasBaseline(d) == baseline[d] # NoBaseline

OneHead(d) == Cardinality(op[d].heads) = 1
Shown(d) == CHOOSE preferences \in ShownOf(d) : TRUE

Unchanged(d) ==
  baseline[d].local = op[d].local /\ baseline[d].cloud = Shown(d)

LeavesEverything(d) ==
  \/ op[d].heads = {} /\ op[d].local = NoPreferences
  \/ OneHead(d) /\ (Shown(d) = op[d].local \/ (HasBaseline(d) /\ Unchanged(d)))

PublishesOverAny(d) ==                                       \* mutant
  op[d].heads = {} \/ (OneHead(d) /\ HasBaseline(d))

\* Nothing is there yet, every head is what this device holds, the workspace's
\* settings are empty and new to it, or only this device has changed.
PublishesLocal(d) ==
  \/ op[d].heads = {}
  \/ ~OneHead(d) /\ ShownOf(d) = {op[d].local} /\ MayPublish(d, op[d].local, op[d].heads)
  \/ /\ OneHead(d)
     /\ \/ Shown(d) = NoPreferences /\ ~HasBaseline(d)
        \/ HasBaseline(d) /\ baseline[d].local # op[d].local /\ baseline[d].cloud = Shown(d)

AppliesCloud(d) ==
  OneHead(d) /\ HasBaseline(d) /\ baseline[d].local = op[d].local

PrepareSettings(d, preferences, heads, asked) ==
  [preferences |-> preferences, parents |-> heads, source |-> d,
   secret |-> here[d].secret, asked |-> asked]

Agrees(d, local, preferences) ==
  [local |-> local, cloud |-> SharedPreferences(preferences, here[d].secret)]

Writes(d, revision, agreed) ==
  /\ Len(cloud) < MaxRevisions
  /\ cloud' = Append(cloud, revision)
  /\ Goes(d, [NoOp EXCEPT !.stage = "written", !.agreed = agreed])

\* What it decides depends on what it read and hashed alone, so deciding and writing
\* are one step; what it applies is applied before the history is written.
FindsNothingToDo(d) ==
  /\ op[d].stage = "hashed" /\ LeavesEverything(d)
  /\ Goes(d, IF op[d].heads = {} THEN NoOp
             ELSE [NoOp EXCEPT !.stage = "written",
                               !.agreed = Agrees(d, op[d].local, Shown(d))])
  /\ UNCHANGED <<cloud, here, baseline, conflicts, edits, held>>

WritesLocal(d) ==
  /\ op[d].stage = "hashed" /\ ~LeavesEverything(d) /\ PublishesLocal(d)
  /\ LET preferences == ToPublish(d, op[d].local, op[d].heads)
     IN  Writes(d, PrepareSettings(d, preferences, op[d].heads, FALSE),
                Agrees(d, op[d].local, preferences))
  /\ UNCHANGED <<here, baseline, conflicts, edits, held>>

AsItWasAnyway(d) == TRUE                                     \* mutant

AsItWas(d) == Local(d) = op[d].local

\* The radios may be busy, and the owner may have changed a setting since.
ReceivesCloud(d) ==
  /\ op[d].stage = "hashed" /\ ~LeavesEverything(d) /\ ~PublishesLocal(d) /\ AppliesCloud(d)
  /\ AsItWas(d)
  /\ LET preferences == Applied(d, Shown(d))
     IN  /\ Holds(d, preferences)
         /\ Goes(d, [NoOp EXCEPT
              !.stage = "written",
              !.agreed = Agrees(d, SharedPreferences(preferences, here[d].secret), Shown(d))])
  /\ UNCHANGED <<cloud, baseline, conflicts, edits>>

\* The sync goes on with the history, and accepts no baseline.
AsksTheOwner(d) ==
  /\ op[d].stage = "hashed" /\ ~LeavesEverything(d) /\ ~PublishesLocal(d)
  /\ conflicts' = [conflicts EXCEPT ![d] = op[d].heads]
  /\ Goes(d, NoOp)
  /\ UNCHANGED <<cloud, here, baseline, edits, held>>

AcceptBaseline(d) ==
  /\ op[d].stage = "written"
  /\ baseline' = [baseline EXCEPT ![d] = op[d].agreed]
  /\ conflicts' = [conflicts EXCEPT ![d] = {}]
  /\ Goes(d, NoOp)
  /\ UNCHANGED <<cloud, here, edits, held>>

\* A request fails, the owner cancels, the page is closed: at any await, with what
\* was applied applied and what was written written.
Ends(d) ==
  /\ op[d].stage # "idle"
  /\ Goes(d, NoOp)
  /\ UNCHANGED <<cloud, here, baseline, conflicts, edits, held>>

\* Access ends, or the page goes and comes back: what was asked is asked no more.
Forgets(d) ==
  /\ conflicts[d] # {}
  /\ conflicts' = [conflicts EXCEPT ![d] = {}]
  /\ Goes(d, NoOp)
  /\ UNCHANGED <<cloud, here, baseline, edits, held>>

-----------------------------------------------------------------------------
(* A resolution: 0 chooses this device's settings, a head its own. *)

Chooses(d) ==
  /\ op[d].stage = "idle" /\ conflicts[d] # {}
  /\ \E choice \in conflicts[d] \cup {0} :
       Goes(d, [NoOp EXCEPT !.stage = "chosen", !.heads = SettingsHeads, !.choice = choice])
  /\ UNCHANGED <<cloud, here, baseline, conflicts, edits, held>>

HeadsAreThose(d) == op[d].heads = conflicts[d]

AsksAgain(d) ==
  /\ op[d].stage = "chosen" /\ ~HeadsAreThose(d)
  /\ conflicts' = [conflicts EXCEPT ![d] = op[d].heads]
  /\ Goes(d, NoOp)
  /\ UNCHANGED <<cloud, here, baseline, edits, held>>

Resolves(d, preferences, local) ==
  Goes(d, [NoOp EXCEPT !.stage = "writing",
                       !.revision = PrepareSettings(d, preferences, op[d].heads, TRUE),
                       !.agreed = Agrees(d, local, preferences)])

ResolvesWithLocal(d) ==
  /\ op[d].stage = "chosen" /\ HeadsAreThose(d) /\ op[d].choice = 0
  /\ MayPublish(d, Local(d), op[d].heads)
  /\ Resolves(d, ToPublish(d, Local(d), op[d].heads), Local(d))
  /\ UNCHANGED <<cloud, here, baseline, conflicts, edits, held>>

\* The key of the chosen head, of any head, or of this device if it shares its own.
ResolvesWithCloud(d) ==
  /\ op[d].stage = "chosen" /\ HeadsAreThose(d) /\ op[d].choice # 0
  /\ LET head == cloud[op[d].choice].preferences
         kept == PreserveCloudKey(head, KeysOf(op[d].heads))
         chosen == IF here[d].secret THEN PreserveCloudKey(kept, {here[d].own.key} \ {0}) ELSE kept
         mine == Applied(d, chosen)
     IN  /\ CanPreserve(head, KeysOf(op[d].heads))
         /\ Holds(d, mine)
         /\ Resolves(d, chosen, SharedPreferences(mine, here[d].secret))
  /\ UNCHANGED <<cloud, baseline, conflicts, edits>>

WritesChoice(d) ==
  /\ op[d].stage = "writing"
  /\ Writes(d, op[d].revision, op[d].agreed)
  /\ UNCHANGED <<here, baseline, conflicts, edits, held>>

Next ==
  \E d \in Devices :
    \/ ChangesASetting(d) \/ ChangesTheKey(d) \/ SetIncludeSecret(d)
    \/ ReadsCatalog(d)
    \/ FindsNothingToDo(d) \/ WritesLocal(d) \/ ReceivesCloud(d) \/ AsksTheOwner(d)
    \/ AcceptBaseline(d) \/ Ends(d) \/ Forgets(d)
    \/ Chooses(d) \/ AsksAgain(d) \/ ResolvesWithLocal(d) \/ ResolvesWithCloud(d)
    \/ WritesChoice(d)

Spec == Init /\ [][Next]_vars

-----------------------------------------------------------------------------
(* Properties. *)

TypeOK ==
  /\ \A r \in DOMAIN cloud :
       /\ cloud[r].preferences \in Preferences
       /\ cloud[r].parents \subseteq 1 .. r - 1
       /\ cloud[r].source \in Devices
  /\ here \in [Devices -> [own : Preferences, secret : BOOLEAN]]
  /\ \A d \in Devices :
       /\ baseline[d] # NoBaseline =>
            baseline[d].local \in Preferences /\ baseline[d].cloud \in Preferences
       /\ conflicts[d] \subseteq DOMAIN cloud
       /\ op[d].stage \in {"idle", "hashed", "writing", "written", "chosen"}
       /\ op[d].heads \subseteq DOMAIN cloud
       /\ op[d].stage = "chosen" =>
            conflicts[d] # {} /\ op[d].choice \in conflicts[d] \cup {0}

\* googleSyncController.ts: whatever the owner changes while a sync waits, and
\* wherever an earlier one was cut off, settings that reached no revision of the
\* workspace are overwritten only by the owner's own choice.
EditsSurvive ==
  [][\A d \in Devices : op[d].stage = "hashed" /\ op'[d].stage = "written" /\ here'[d] # here[d] =>
       /\ \E r \in DOMAIN cloud : cloud[r].preferences.plain = here[d].own.plain
       /\ here'[d].own.key # here[d].own.key /\ here[d].own.key # 0 =>
            \E r \in DOMAIN cloud : cloud[r].preferences.key = here[d].own.key]_vars

\* A revision replaces only what its device has held or, when its owner was asked,
\* what the owner was shown.
ReplacesOnlyTheKnown ==
  [][cloud' # cloud =>
       LET revision == cloud'[Len(cloud')]
       IN  \A r \in revision.parents :
             IF revision.asked THEN r \in conflicts[revision.source]
             ELSE cloud[r].preferences.plain \in held[revision.source]]_vars

\* A device that does not share its key publishes none of its own, and leaves the
\* workspace's key where it was.
LeavesTheKey(r) ==
  LET keys == KeysOf(cloud[r].parents)
  IN  IF keys = {} THEN cloud[r].preferences.key = 0 ELSE cloud[r].preferences.key \in keys
OptedOutLeavesTheKey == TypeOK /\ \A r \in DOMAIN cloud : cloud[r].secret \/ LeavesTheKey(r)

=============================================================================
