------------------------- MODULE SharedSettingsProofs -------------------------
(***************************************************************************)
(* Proofs about SharedSettings, for any devices, keys, preferences and     *)
(* bounds.  The inductive invariant says, of the workspace, that every     *)
(* revision replaces earlier ones and leaves a key its device does not     *)
(* share; and of each device, what its baseline and the sync or resolution *)
(* under way may rest on: that what was agreed has been published and that *)
(* the workspace's side of it has been held here.                          *)
(***************************************************************************)
EXTENDS SharedSettings, FiniteSetTheorems, SequenceTheorems, TLAPS

Revisions == [preferences : Preferences, parents : SUBSET Nat, source : Devices,
              secret : BOOLEAN, asked : BOOLEAN]
Baselines == [local : Preferences, cloud : Preferences]
Own == [own : Preferences, secret : BOOLEAN]
Ops == [stage : {"idle", "hashed", "writing", "written", "chosen"}, heads : SUBSET Nat,
        local : Preferences, choice : Nat, revision : Revisions \cup {NoRevision},
        agreed : Baselines \cup {NoBaseline}]

KeysIn(c, revisions) == {c[r].preferences.key : r \in revisions} \ {0}

LeavesItsKey(c, revision) ==
  \/ revision.secret
  \/ IF KeysIn(c, revision.parents) = {} THEN revision.preferences.key = 0
     ELSE revision.preferences.key \in KeysIn(c, revision.parents)

Workspaces ==
  {c \in Seq(Revisions) : \A r \in DOMAIN c :
     c[r].parents \subseteq 1 .. r - 1 /\ LeavesItsKey(c, c[r])}

\* Some revision has these plain preferences, and one this key.
Told(c, preferences) ==
  /\ \E r \in DOMAIN c : c[r].preferences.plain = preferences.plain
  /\ preferences.key # 0 => \E r \in DOMAIN c : c[r].preferences.key = preferences.key

Rests(c, agreed, ever) ==
  /\ agreed \in Baselines
  /\ Told(c, agreed.local)
  /\ agreed.cloud.plain \in ever

\* What a resolution is about to write.
Answers(d, c, asked, o, ever) ==
  /\ o.revision \in Revisions
  /\ o.revision.source = d /\ o.revision.asked
  /\ o.revision.parents \subseteq asked
  /\ LeavesItsKey(c, o.revision)
  /\ o.agreed \in Baselines
  /\ o.agreed.local.plain = o.revision.preferences.plain
  /\ o.agreed.local.key # 0 => o.agreed.local.key = o.revision.preferences.key
  /\ o.agreed.cloud.plain \in ever

\* One device: its settings h, its baseline b, the heads it asks about, its sync or
\* resolution o, and all it has ever held.
Sound(d, c, h, b, asked, o, ever) ==
  /\ {0, h.own.plain} \subseteq ever
  /\ b # NoBaseline => Rests(c, b, ever)
  /\ asked \subseteq DOMAIN c
  /\ o.heads \subseteq DOMAIN c
  /\ o.stage = "hashed" => o.local.plain \in ever /\ (h.secret \/ o.local.key = 0)
  /\ o.stage = "chosen" => asked # {} /\ o.choice \in asked \cup {0}
  /\ o.stage = "writing" => Answers(d, c, asked, o, ever)
  /\ o.stage = "written" => Rests(c, o.agreed, ever)

Shaped ==
  /\ here \in [Devices -> Own]
  /\ baseline \in [Devices -> Baselines \cup {NoBaseline}]
  /\ conflicts \in [Devices -> SUBSET Nat]
  /\ op \in [Devices -> Ops]
  /\ held \in [Devices -> SUBSET (Plain \cup {0})]

IInv ==
  /\ cloud \in Workspaces
  /\ Shaped
  /\ \A d \in Devices : Sound(d, cloud, here[d], baseline[d], conflicts[d], op[d], held[d])

-----------------------------------------------------------------------------
(* Preferences. *)

\* What a device shares is its settings, without the key if it keeps that.
LEMMA SharedIs ==
  ASSUME NEW preferences \in Preferences, NEW secret \in BOOLEAN
  PROVE  /\ SharedPreferences(preferences, secret) \in Preferences
         /\ SharedPreferences(preferences, secret).plain = preferences.plain
         /\ secret => SharedPreferences(preferences, secret) = preferences
         /\ ~secret => SharedPreferences(preferences, secret).key = 0
  BY DEF SharedPreferences, Preferences

\* A key there is stays; a missing one is any of those offered, if any are.
LEMMA PreservedIs ==
  ASSUME NEW preferences \in Preferences, NEW keys \in SUBSET Keys
  PROVE  /\ PreserveCloudKey(preferences, keys) \in Preferences
         /\ PreserveCloudKey(preferences, keys).plain = preferences.plain
         /\ preferences.key # 0 \/ keys = {} =>
              PreserveCloudKey(preferences, keys) = preferences
         /\ preferences.key = 0 /\ keys # {} =>
              PreserveCloudKey(preferences, keys).key \in keys
<1> DEFINE k == CHOOSE key \in keys : TRUE
<1>1. CASE preferences.key # 0 \/ keys = {}
  BY <1>1 DEF PreserveCloudKey
<1>2. CASE preferences.key = 0 /\ keys # {}
  <2>1. k \in keys
    BY <1>2
  <2>2. PreserveCloudKey(preferences, keys) = [preferences EXCEPT !.key = k]
    BY <1>2 DEF PreserveCloudKey
  <2> HIDE DEF k
  <2> QED  BY <1>2, <2>1, <2>2 DEF Preferences
<1> QED  BY <1>1, <1>2

LEMMA NoneIsTyped == NoPreferences \in Preferences
  BY DEF NoPreferences, Preferences

\* Workspaces are sequences of revisions.
LEMMA CloudIs ==
  ASSUME NEW c \in Workspaces
  PROVE  /\ c \in Seq(Revisions)
         /\ Len(c) \in Nat
         /\ DOMAIN c = 1 .. Len(c)
         /\ \A r \in DOMAIN c :
              /\ c[r] \in Revisions
              /\ c[r].preferences \in Preferences
              /\ c[r].parents \subseteq 1 .. r - 1
              /\ LeavesItsKey(c, c[r])
<1>1. c \in Seq(Revisions)
  BY DEF Workspaces
<1>2. \A r \in DOMAIN c : c[r] \in Revisions
  BY <1>1, ElementOfSeq
<1>3. \A r \in DOMAIN c : c[r].preferences \in Preferences
  BY <1>2 DEF Revisions
<1> QED  BY <1>1, <1>2, <1>3, LenProperties DEF Workspaces

\* The keys of some revisions are keys, and every key there is among them.
LEMMA KeysAre ==
  ASSUME NEW c \in Workspaces, NEW revisions \in SUBSET DOMAIN c
  PROVE  /\ KeysIn(c, revisions) \subseteq Keys
         /\ \A r \in revisions :
              c[r].preferences.key # 0 => c[r].preferences.key \in KeysIn(c, revisions)
         /\ \A key \in KeysIn(c, revisions) : \E r \in revisions : c[r].preferences.key = key
<1>1. \A r \in revisions : c[r].preferences.key \in Keys \cup {0}
  BY CloudIs DEF Preferences
<1> QED  BY <1>1 DEF KeysIn

-----------------------------------------------------------------------------
(* The workspace grows by whole revisions, and what rested on it rests. *)

Extends(n, c) ==
  /\ n \in Workspaces
  /\ DOMAIN c \subseteq DOMAIN n
  /\ \A r \in DOMAIN c : n[r] = c[r]

LEMMA KeysStay ==
  ASSUME NEW c, NEW n, NEW revisions \in SUBSET DOMAIN c, \A r \in DOMAIN c : n[r] = c[r]
  PROVE  KeysIn(n, revisions) = KeysIn(c, revisions)
  BY DEF KeysIn

LEMMA Grows ==
  ASSUME NEW c \in Workspaces, NEW revision \in Revisions,
         revision.parents \subseteq DOMAIN c, LeavesItsKey(c, revision)
  PROVE  LET n == Append(c, revision)
         IN  /\ Extends(n, c)
             /\ Len(n) = Len(c) + 1
             /\ Len(n) \in DOMAIN n
             /\ n[Len(n)] = revision
<1> DEFINE n == Append(c, revision)
<1>1. /\ n \in Seq(Revisions) /\ Len(n) = Len(c) + 1
      /\ \A r \in 1 .. Len(c) : n[r] = c[r]
      /\ n[Len(c) + 1] = revision
  BY CloudIs, AppendProperties
<1>2. DOMAIN n = 1 .. Len(n)
  BY <1>1, LenProperties
<1> HIDE DEF n
<1>3. /\ DOMAIN c = 1 .. Len(c) /\ Len(c) \in Nat
      /\ DOMAIN n = 1 .. Len(c) + 1
  BY <1>1, <1>2, CloudIs
<1>4. \A r \in DOMAIN c : n[r] = c[r]
  BY <1>1, <1>3
<1>5. ASSUME NEW r \in DOMAIN n
      PROVE  n[r].parents \subseteq 1 .. r - 1 /\ LeavesItsKey(n, n[r])
  <2>1. CASE r \in DOMAIN c
    <3>1. c[r].parents \subseteq DOMAIN c
      BY <2>1, <1>3, CloudIs
    <3>2. KeysIn(n, c[r].parents) = KeysIn(c, c[r].parents)
      BY <3>1, <1>4, KeysStay
    <3> QED  BY <2>1, <1>4, <3>2, CloudIs DEF LeavesItsKey
  <2>2. CASE r \notin DOMAIN c
    <3>1. r = Len(c) + 1 /\ n[r] = revision
      BY <2>2, <1>1, <1>3
    <3>2. KeysIn(n, revision.parents) = KeysIn(c, revision.parents)
      BY <1>4, KeysStay
    <3>3. LeavesItsKey(n, n[r])
      BY <3>1, <3>2 DEF LeavesItsKey
    <3>4. revision.parents \subseteq 1 .. r - 1
      BY <3>1, <1>3
    <3> QED  BY <3>1, <3>3, <3>4
  <2> QED  BY <2>1, <2>2
<1>6. n \in Workspaces
  BY <1>1, <1>5 DEF Workspaces
<1>7. Extends(n, c)
  BY <1>3, <1>4, <1>6 DEF Extends
<1>8. Len(n) \in DOMAIN n /\ n[Len(n)] = revision
  BY <1>1, <1>3
<1> QED  BY <1>1, <1>7, <1>8 DEF n

LEMMA ToldStill ==
  ASSUME NEW c, NEW n, Extends(n, c), NEW preferences, Told(c, preferences)
  PROVE  Told(n, preferences)
  BY DEF Extends, Told

LEMMA LeavesStill ==
  ASSUME NEW c, NEW n, Extends(n, c), NEW revision,
         revision.parents \subseteq DOMAIN c, LeavesItsKey(c, revision)
  PROVE  LeavesItsKey(n, revision)
<1>1. KeysIn(n, revision.parents) = KeysIn(c, revision.parents)
  BY KeysStay DEF Extends
<1> QED  BY <1>1 DEF LeavesItsKey

\* A revision of another device disturbs nothing a device rests on.
LEMMA SoundStill ==
  ASSUME NEW c, NEW n, Extends(n, c), NEW d, NEW h, NEW b, NEW asked, NEW o, NEW ever,
         Sound(d, c, h, b, asked, o, ever)
  PROVE  Sound(d, n, h, b, asked, o, ever)
<1>1. Rests(c, b, ever) => Rests(n, b, ever)
  BY ToldStill DEF Rests
<1>2. Rests(c, o.agreed, ever) => Rests(n, o.agreed, ever)
  BY ToldStill DEF Rests
<1>3. Answers(d, c, asked, o, ever) => Answers(d, n, asked, o, ever)
  BY LeavesStill DEF Answers, Sound
<1>4. asked \subseteq DOMAIN n /\ o.heads \subseteq DOMAIN n
  BY DEF Sound, Extends
<1> QED  BY <1>1, <1>2, <1>3, <1>4 DEF Sound
-----------------------------------------------------------------------------
(* A step changes one device, and may add to the workspace. *)

LEMMA Framed ==
  ASSUME IInv, NEW d \in Devices, cloud' = cloud \/ Extends(cloud', cloud),
         NEW h \in Own, here' = [here EXCEPT ![d] = h],
         NEW b \in Baselines \cup {NoBaseline}, baseline' = [baseline EXCEPT ![d] = b],
         NEW asked \in SUBSET Nat, conflicts' = [conflicts EXCEPT ![d] = asked],
         NEW o \in Ops, op' = [op EXCEPT ![d] = o],
         NEW ever \in SUBSET (Plain \cup {0}), held' = [held EXCEPT ![d] = ever],
         Sound(d, cloud', h, b, asked, o, ever)
  PROVE  IInv'
<1>1. cloud' \in Workspaces
  BY DEF IInv, Extends
<1>2. Shaped'
  BY DEF IInv, Shaped
<1>3. ASSUME NEW e \in Devices
      PROVE  Sound(e, cloud', here'[e], baseline'[e], conflicts'[e], op'[e], held'[e])
  <2>1. CASE e = d
    BY <2>1 DEF IInv, Shaped
  <2>2. CASE e # d
    <3>1. /\ here'[e] = here[e] /\ baseline'[e] = baseline[e]
          /\ conflicts'[e] = conflicts[e] /\ op'[e] = op[e] /\ held'[e] = held[e]
      BY <2>2
    <3>2. Sound(e, cloud, here[e], baseline[e], conflicts[e], op[e], held[e])
      BY DEF IInv
    <3> QED  BY <3>1, <3>2, SoundStill
  <2> QED  BY <2>1, <2>2
<1> QED  BY <1>1, <1>2, <1>3 DEF IInv

LEMMA Kept ==
  ASSUME NEW S, NEW f \in [Devices -> S], NEW d
  PROVE  f = [f EXCEPT ![d] = f[d]]
  OBVIOUS

\* What the invariant says of one device, with its types.
LEMMA Device ==
  ASSUME IInv, NEW d \in Devices
  PROVE  /\ here[d] \in Own /\ here[d].own \in Preferences /\ here[d].secret \in BOOLEAN
         /\ baseline[d] \in Baselines \cup {NoBaseline}
         /\ conflicts[d] \in SUBSET Nat
         /\ op[d] \in Ops /\ op[d].heads \in SUBSET Nat /\ op[d].local \in Preferences
         /\ op[d].agreed \in Baselines \cup {NoBaseline}
         /\ held[d] \in SUBSET (Plain \cup {0})
         /\ here = [here EXCEPT ![d] = here[d]]
         /\ baseline = [baseline EXCEPT ![d] = baseline[d]]
         /\ conflicts = [conflicts EXCEPT ![d] = conflicts[d]]
         /\ op = [op EXCEPT ![d] = op[d]]
         /\ held = [held EXCEPT ![d] = held[d]]
         /\ Sound(d, cloud, here[d], baseline[d], conflicts[d], op[d], held[d])
<1>1. here[d] \in Own /\ op[d] \in Ops
  BY DEF IInv, Shaped
<1>2. here[d].own \in Preferences /\ here[d].secret \in BOOLEAN
  BY <1>1 DEF Own
<1>3. /\ op[d].heads \in SUBSET Nat /\ op[d].local \in Preferences
      /\ op[d].agreed \in Baselines \cup {NoBaseline}
  BY <1>1 DEF Ops
<1> QED  BY <1>1, <1>2, <1>3, Kept DEF IInv, Shaped

LEMMA IdleIs ==
  /\ NoOp \in Ops
  /\ NoOp.stage = "idle" /\ NoOp.heads = {}
  BY NoneIsTyped DEF NoOp, Ops

\* A device that does nothing rests on its baseline alone.
LEMMA SoundIdle ==
  ASSUME NEW d, NEW c, NEW h, NEW b, NEW asked, NEW ever,
         {0, h.own.plain} \subseteq ever, b # NoBaseline => Rests(c, b, ever),
         asked \subseteq DOMAIN c
  PROVE  Sound(d, c, h, b, asked, NoOp, ever)
  BY IdleIs DEF Sound

\* The owner's changes are held, and disturb nothing.
LEMMA OwnSound ==
  ASSUME NEW d, NEW c, NEW h \in Own, NEW b, NEW asked, NEW o, NEW ever,
         Sound(d, c, h, b, asked, o, ever), NEW preferences \in Preferences
  PROVE  LET n == [h EXCEPT !.own = preferences]
         IN  /\ n \in Own /\ n.own = preferences /\ n.secret = h.secret
             /\ Sound(d, c, n, b, asked, o, ever \cup {preferences.plain})
<1> DEFINE n == [h EXCEPT !.own = preferences]
<1> DEFINE now == ever \cup {preferences.plain}
<1>1. n \in Own /\ n.own = preferences /\ n.secret = h.secret
  BY DEF Own
<1>2. ever \subseteq now /\ preferences.plain \in now
  OBVIOUS
<1> HIDE DEF n, now
<1>3. Rests(c, b, ever) => Rests(c, b, now)
  BY <1>2 DEF Rests
<1>4. Rests(c, o.agreed, ever) => Rests(c, o.agreed, now)
  BY <1>2 DEF Rests
<1>5. Answers(d, c, asked, o, ever) => Answers(d, c, asked, o, now)
  BY <1>2 DEF Answers
<1>6. Sound(d, c, n, b, asked, o, now)
  BY <1>1, <1>2, <1>3, <1>4, <1>5 DEF Sound
<1> QED  BY <1>1, <1>6 DEF n, now

LEMMA HoldsIs ==
  ASSUME IInv, NEW d \in Devices, NEW preferences \in Preferences, Holds(d, preferences)
  PROVE  /\ here' = [here EXCEPT ![d] = [here[d] EXCEPT !.own = preferences]]
         /\ held' = [held EXCEPT ![d] = held[d] \cup {preferences.plain}]
         /\ held[d] \cup {preferences.plain} \in SUBSET (Plain \cup {0})
  BY Device DEF Holds, Preferences

-----------------------------------------------------------------------------
(* The owner's changes. *)

LEMMA ChangesHold ==
  ASSUME IInv, NEW d \in Devices, NEW preferences \in Preferences, Holds(d, preferences),
         UNCHANGED <<cloud, baseline, conflicts, op>>
  PROVE  IInv'
<1> DEFINE h == [here[d] EXCEPT !.own = preferences]
<1> DEFINE ever == held[d] \cup {preferences.plain}
<1>1. Sound(d, cloud, h, baseline[d], conflicts[d], op[d], ever) /\ h \in Own
  BY Device, OwnSound
<1>2. /\ here' = [here EXCEPT ![d] = h] /\ held' = [held EXCEPT ![d] = ever]
      /\ ever \in SUBSET (Plain \cup {0})
  BY HoldsIs
<1> HIDE DEF h, ever
<1> QED  BY <1>1, <1>2, Device, Framed

LEMMA ChangesASettingKeeps ==
  ASSUME IInv, NEW d \in Devices, ChangesASetting(d)
  PROVE  IInv'
<1>1. PICK plain \in (Plain \cup {0}) \ {here[d].own.plain} :
        Holds(d, [here[d].own EXCEPT !.plain = plain])
  BY DEF ChangesASetting
<1>2. [here[d].own EXCEPT !.plain = plain] \in Preferences
  BY Device DEF Preferences
<1> QED  BY <1>1, <1>2, ChangesHold DEF ChangesASetting

LEMMA ChangesTheKeyKeeps ==
  ASSUME IInv, NEW d \in Devices, ChangesTheKey(d)
  PROVE  IInv'
<1>1. PICK key \in (Keys \cup {0}) \ {here[d].own.key} :
        Holds(d, [here[d].own EXCEPT !.key = key])
  BY DEF ChangesTheKey
<1>2. [here[d].own EXCEPT !.key = key] \in Preferences
  BY Device DEF Preferences
<1> QED  BY <1>1, <1>2, ChangesHold DEF ChangesTheKey

LEMMA SetIncludeSecretKeeps ==
  ASSUME IInv, NEW d \in Devices, SetIncludeSecret(d)
  PROVE  IInv'
<1> DEFINE h == [here[d] EXCEPT !.secret = ~@]
<1>1. h \in Own /\ h.own = here[d].own
  BY Device DEF Own
<1>2. here' = [here EXCEPT ![d] = h]
  BY DEF SetIncludeSecret
<1> HIDE DEF h
<1>3. baseline' = [baseline EXCEPT ![d] = NoBaseline]
  BY DEF SetIncludeSecret, ForgetsTheBaseline
<1>4. op[d].stage = "idle"
  BY DEF SetIncludeSecret
<1>5. Sound(d, cloud, h, NoBaseline, conflicts[d], op[d], held[d])
  BY <1>1, <1>4, Device DEF Sound
<1>6. UNCHANGED <<cloud, conflicts, op, held>>
  BY DEF SetIncludeSecret
<1>7. /\ conflicts' = [conflicts EXCEPT ![d] = conflicts[d]] /\ conflicts[d] \in SUBSET Nat
      /\ op' = [op EXCEPT ![d] = op[d]] /\ op[d] \in Ops
      /\ held' = [held EXCEPT ![d] = held[d]] /\ held[d] \in SUBSET (Plain \cup {0})
  BY <1>6, Device DEF IInv, Shaped
<1>8. cloud' = cloud /\ Sound(d, cloud', h, NoBaseline, conflicts[d], op[d], held[d])
  BY <1>5, <1>6
<1>9. NoBaseline \in Baselines \cup {NoBaseline}
  OBVIOUS
<1> QED  BY <1>1, <1>2, <1>3, <1>7, <1>8, <1>9, Framed
-----------------------------------------------------------------------------
(* A sync that reads, ends or asks. *)

\* The heads are revisions of the workspace.
LEMMA HeadsAre ==
  ASSUME IInv
  PROVE  SettingsHeads \subseteq DOMAIN cloud /\ SettingsHeads \in SUBSET Nat
<1>1. DOMAIN cloud \in SUBSET Nat
  BY CloudIs DEF IInv
<1> QED  BY <1>1 DEF SettingsHeads

LEMMA LocalIs ==
  ASSUME IInv, NEW d \in Devices
  PROVE  /\ Local(d) \in Preferences
         /\ Local(d).plain \in held[d]
         /\ Local(d).plain = here[d].own.plain
         /\ here[d].secret => Local(d) = here[d].own
         /\ ~here[d].secret => Local(d).key = 0
<1>1. /\ here[d].own \in Preferences /\ here[d].secret \in BOOLEAN
      /\ here[d].own.plain \in held[d]
  BY Device DEF Sound
<1> QED  BY <1>1, SharedIs DEF Local

LEMMA ReadsCatalogKeeps ==
  ASSUME IInv, NEW d \in Devices, ReadsCatalog(d)
  PROVE  IInv'
<1> DEFINE local == Local(d)
<1> DEFINE heads == SettingsHeads
<1> DEFINE o == [NoOp EXCEPT !.stage = "hashed", !.heads = heads, !.local = local]
<1>1. /\ local \in Preferences /\ local.plain \in held[d]
      /\ here[d].secret \/ local.key = 0
      /\ here[d].secret \in BOOLEAN
  BY LocalIs, Device
<1>2. heads \subseteq DOMAIN cloud /\ heads \in SUBSET Nat
  BY HeadsAre
<1>3. op' = [op EXCEPT ![d] = o]
  BY DEF ReadsCatalog, Goes
<1> HIDE DEF local, heads
<1>4. o \in Ops /\ o.stage = "hashed" /\ o.heads = heads /\ o.local = local
  BY <1>1, <1>2, IdleIs DEF NoOp, Ops
<1> HIDE DEF o
<1>5. Sound(d, cloud, here[d], baseline[d], conflicts[d], o, held[d])
  BY <1>1, <1>2, <1>4, Device DEF Sound
<1>6. UNCHANGED <<cloud, here, baseline, conflicts, held>>
  BY DEF ReadsCatalog
<1> QED  BY <1>3, <1>4, <1>5, <1>6, Device, Framed

\* A device stops, asking about these heads and resting on this baseline.
LEMMA StopsKeeps ==
  ASSUME IInv, NEW d \in Devices, op' = [op EXCEPT ![d] = NoOp],
         NEW b \in Baselines \cup {NoBaseline}, baseline' = [baseline EXCEPT ![d] = b],
         b # NoBaseline => Rests(cloud, b, held[d]),
         NEW asked \in SUBSET Nat, conflicts' = [conflicts EXCEPT ![d] = asked],
         asked \subseteq DOMAIN cloud,
         UNCHANGED <<cloud, here, held>>
  PROVE  IInv'
<1>1. {0, here[d].own.plain} \subseteq held[d]
  BY Device DEF Sound
<1>2. Sound(d, cloud, here[d], b, asked, NoOp, held[d])
  BY <1>1, SoundIdle
<1>3. NoOp \in Ops
  BY IdleIs
<1> QED  BY <1>2, <1>3, Device, Framed

LEMMA AsksTheOwnerKeeps ==
  ASSUME IInv, NEW d \in Devices, AsksTheOwner(d)
  PROVE  IInv'
<1>1. /\ op' = [op EXCEPT ![d] = NoOp]
      /\ conflicts' = [conflicts EXCEPT ![d] = op[d].heads]
      /\ UNCHANGED <<cloud, here, baseline, held>>
  BY DEF AsksTheOwner, Goes
<1>2. /\ op[d].heads \subseteq DOMAIN cloud
      /\ baseline[d] # NoBaseline => Rests(cloud, baseline[d], held[d])
  BY Device DEF Sound
<1> QED  BY <1>1, <1>2, Device, StopsKeeps

LEMMA AsksAgainKeeps ==
  ASSUME IInv, NEW d \in Devices, AsksAgain(d)
  PROVE  IInv'
<1>1. /\ op' = [op EXCEPT ![d] = NoOp]
      /\ conflicts' = [conflicts EXCEPT ![d] = op[d].heads]
      /\ UNCHANGED <<cloud, here, baseline, held>>
  BY DEF AsksAgain, Goes
<1>2. /\ op[d].heads \subseteq DOMAIN cloud
      /\ baseline[d] # NoBaseline => Rests(cloud, baseline[d], held[d])
  BY Device DEF Sound
<1> QED  BY <1>1, <1>2, Device, StopsKeeps

LEMMA EndsKeeps ==
  ASSUME IInv, NEW d \in Devices, Ends(d)
  PROVE  IInv'
<1>1. /\ op' = [op EXCEPT ![d] = NoOp]
      /\ UNCHANGED <<cloud, here, baseline, conflicts, held>>
  BY DEF Ends, Goes
<1>2. /\ conflicts[d] \subseteq DOMAIN cloud
      /\ baseline[d] # NoBaseline => Rests(cloud, baseline[d], held[d])
  BY Device DEF Sound
<1> QED  BY <1>1, <1>2, Device, StopsKeeps

LEMMA ForgetsKeeps ==
  ASSUME IInv, NEW d \in Devices, Forgets(d)
  PROVE  IInv'
<1>1. /\ op' = [op EXCEPT ![d] = NoOp]
      /\ conflicts' = [conflicts EXCEPT ![d] = {}]
      /\ UNCHANGED <<cloud, here, baseline, held>>
  BY DEF Forgets, Goes
<1>2. baseline[d] # NoBaseline => Rests(cloud, baseline[d], held[d])
  BY Device DEF Sound
<1>3. {} \in SUBSET Nat /\ {} \subseteq DOMAIN cloud
  OBVIOUS
<1> QED  BY <1>1, <1>2, <1>3, Device, StopsKeeps

LEMMA AcceptBaselineKeeps ==
  ASSUME IInv, NEW d \in Devices, AcceptBaseline(d)
  PROVE  IInv'
<1>1. /\ op' = [op EXCEPT ![d] = NoOp]
      /\ baseline' = [baseline EXCEPT ![d] = op[d].agreed]
      /\ conflicts' = [conflicts EXCEPT ![d] = {}]
      /\ UNCHANGED <<cloud, here, held>>
  BY DEF AcceptBaseline, Goes
<1>2. Rests(cloud, op[d].agreed, held[d])
  BY Device DEF Sound, AcceptBaseline
<1>3. {} \in SUBSET Nat /\ {} \subseteq DOMAIN cloud
  OBVIOUS
<1> QED  BY <1>1, <1>2, <1>3, Device, StopsKeeps

LEMMA ChoosesKeeps ==
  ASSUME IInv, NEW d \in Devices, Chooses(d)
  PROVE  IInv'
<1>1. PICK choice \in conflicts[d] \cup {0} :
        Goes(d, [NoOp EXCEPT !.stage = "chosen", !.heads = SettingsHeads, !.choice = choice])
  BY DEF Chooses
<1> DEFINE heads == SettingsHeads
<1> DEFINE o == [NoOp EXCEPT !.stage = "chosen", !.heads = heads, !.choice = choice]
<1>2. heads \subseteq DOMAIN cloud /\ heads \in SUBSET Nat
  BY HeadsAre
<1>3. op' = [op EXCEPT ![d] = o]
  BY <1>1 DEF Goes
<1> HIDE DEF heads
<1>4. choice \in Nat
  BY Device
<1>5. o \in Ops /\ o.stage = "chosen" /\ o.heads = heads /\ o.choice = choice
  BY <1>2, <1>4, IdleIs DEF NoOp, Ops
<1> HIDE DEF o
<1>6. conflicts[d] # {} /\ UNCHANGED <<cloud, here, baseline, conflicts, held>>
  BY DEF Chooses
<1>7. Sound(d, cloud, here[d], baseline[d], conflicts[d], o, held[d])
  BY <1>2, <1>5, <1>6, Device DEF Sound
<1> QED  BY <1>3, <1>5, <1>6, <1>7, Device, Framed
-----------------------------------------------------------------------------
(* What a sync sees of the heads it read, and what it agrees on. *)

LEMMA SeenIs ==
  ASSUME IInv, NEW d \in Devices, NEW head \in op[d].heads
  PROVE  /\ head \in DOMAIN cloud
         /\ cloud[head].preferences \in Preferences
         /\ CloudOf(d, head) \in Preferences
         /\ CloudOf(d, head).plain = cloud[head].preferences.plain
         /\ here[d].secret => CloudOf(d, head) = cloud[head].preferences
         /\ ~here[d].secret => CloudOf(d, head).key = 0
<1>1. head \in DOMAIN cloud /\ here[d].secret \in BOOLEAN
  BY Device DEF Sound
<1>2. cloud[head].preferences \in Preferences
  BY <1>1, CloudIs DEF IInv
<1> QED  BY <1>1, <1>2, SharedIs DEF CloudOf

\* Some settings were published, and a key among them: the key is a head's or none.
LEMMA SeenIsTold ==
  ASSUME IInv, NEW d \in Devices, NEW head \in op[d].heads
  PROVE  Told(cloud, CloudOf(d, head))
<1>1. here[d].secret \in BOOLEAN
  BY Device
<1> QED  BY <1>1, SeenIs DEF Told

LEMMA OneIsShown ==
  ASSUME IInv, NEW d \in Devices, OneHead(d)
  PROVE  \E head \in op[d].heads :
           /\ Shown(d) = CloudOf(d, head)
           /\ \A other \in op[d].heads : other = head
<1>1. IsFiniteSet(op[d].heads)
  <2>1. op[d].heads \subseteq 1 .. Len(cloud) /\ Len(cloud) \in Nat
    BY CloudIs, Device DEF Sound, IInv
  <2>2. IsFiniteSet(1 .. Len(cloud))
    BY <2>1, FS_Interval
  <2> QED  BY <2>1, <2>2, FS_Subset
<1>2. PICK head : op[d].heads = {head}
  BY <1>1, FS_Singleton DEF OneHead
<1>3. ShownOf(d) = {CloudOf(d, head)}
  BY <1>2 DEF ShownOf
<1>4. Shown(d) = CloudOf(d, head)
  BY <1>3 DEF Shown
<1> QED  BY <1>2, <1>4

LEMMA AgreesIs ==
  ASSUME IInv, NEW d \in Devices, NEW local \in Preferences, NEW preferences \in Preferences
  PROVE  /\ Agrees(d, local, preferences) \in Baselines
         /\ Agrees(d, local, preferences).local = local
         /\ Agrees(d, local, preferences).cloud.plain = preferences.plain
<1>1. here[d].secret \in BOOLEAN
  BY Device
<1> DEFINE p == SharedPreferences(preferences, here[d].secret)
<1>2. p \in Preferences /\ p.plain = preferences.plain
  BY <1>1, SharedIs
<1>3. Agrees(d, local, preferences) = [local |-> local, cloud |-> p]
  BY DEF Agrees
<1> HIDE DEF p
<1> QED  BY <1>2, <1>3 DEF Baselines

\* A device rests on what it shares and what it saw once both are known.
LEMMA RestsOn ==
  ASSUME IInv, NEW d \in Devices, NEW c, NEW local \in Preferences, Told(c, local),
         NEW preferences \in Preferences, NEW ever, preferences.plain \in ever
  PROVE  /\ Agrees(d, local, preferences) \in Baselines
         /\ Rests(c, Agrees(d, local, preferences), ever)
  BY AgreesIs DEF Rests

LEMMA WrittenIs ==
  ASSUME NEW agreed \in Baselines
  PROVE  LET o == [NoOp EXCEPT !.stage = "written", !.agreed = agreed]
         IN  o \in Ops /\ o.stage = "written" /\ o.heads = {} /\ o.agreed = agreed
  BY IdleIs DEF NoOp, Ops

\* A sync wrote what it wrote, and takes up the history.
LEMMA WrittenSound ==
  ASSUME NEW d, NEW c, NEW h, NEW b, NEW asked, NEW ever,
         {0, h.own.plain} \subseteq ever, b # NoBaseline => Rests(c, b, ever),
         asked \subseteq DOMAIN c, NEW agreed, Rests(c, agreed, ever)
  PROVE  Sound(d, c, h, b, asked, [NoOp EXCEPT !.stage = "written", !.agreed = agreed], ever)
<1> DEFINE o == [NoOp EXCEPT !.stage = "written", !.agreed = agreed]
<1>1. o.stage = "written" /\ o.heads = {} /\ o.agreed = agreed
  BY WrittenIs DEF Rests
<1> HIDE DEF o
<1>2. Sound(d, c, h, b, asked, o, ever)
  BY <1>1 DEF Sound
<1> QED  BY <1>2 DEF o
-----------------------------------------------------------------------------
(* A sync that applies or writes. *)

LEMMA FindsNothingToDoKeeps ==
  ASSUME IInv, NEW d \in Devices, FindsNothingToDo(d)
  PROVE  IInv'
<1>1. UNCHANGED <<cloud, here, baseline, conflicts, held>>
  BY DEF FindsNothingToDo
<1>2. /\ {0, here[d].own.plain} \subseteq held[d]
      /\ baseline[d] # NoBaseline => Rests(cloud, baseline[d], held[d])
      /\ conflicts[d] \subseteq DOMAIN cloud
      /\ op[d].local.plain \in held[d]
  BY Device DEF Sound, FindsNothingToDo
<1>3. CASE op[d].heads = {}
  <2>1. op' = [op EXCEPT ![d] = NoOp]
    BY <1>3 DEF FindsNothingToDo, Goes
  <2> QED  BY <1>1, <1>2, <2>1, Device, StopsKeeps
<1>4. CASE op[d].heads # {}
  <2> DEFINE agreed == Agrees(d, op[d].local, Shown(d))
  <2> DEFINE o == [NoOp EXCEPT !.stage = "written", !.agreed = agreed]
  <2>1. op' = [op EXCEPT ![d] = o]
    BY <1>4 DEF FindsNothingToDo, Goes
  <2>2. /\ OneHead(d)
        /\ \/ Shown(d) = op[d].local
           \/ HasBaseline(d) /\ Unchanged(d)
    BY <1>4 DEF FindsNothingToDo, LeavesEverything
  <2>3. Shown(d) \in Preferences /\ Told(cloud, Shown(d))
    BY <2>2, OneIsShown, SeenIs, SeenIsTold
  <2>4. Told(cloud, op[d].local) /\ Shown(d).plain \in held[d]
    BY <1>2, <2>2, <2>3 DEF HasBaseline, Unchanged, Rests
  <2>5. agreed \in Baselines /\ Rests(cloud, agreed, held[d])
    BY <2>3, <2>4, Device, RestsOn
  <2> HIDE DEF agreed
  <2>6. o \in Ops
    BY <2>5, WrittenIs
  <2>7. Sound(d, cloud, here[d], baseline[d], conflicts[d], o, held[d])
    BY <1>2, <2>5, WrittenSound
  <2> HIDE DEF o
  <2> QED  BY <1>1, <2>1, <2>6, <2>7, Device, Framed
<1> QED  BY <1>3, <1>4

\* A device that keeps its key to itself publishes one of the keys it replaces.
LEMMA PublishedIs ==
  ASSUME IInv, NEW d \in Devices, NEW heads \in SUBSET DOMAIN cloud,
         NEW local \in Preferences, here[d].secret \/ local.key = 0, NEW asked \in BOOLEAN
  PROVE  LET preferences == ToPublish(d, local, heads)
             revision == PrepareSettings(d, preferences, heads, asked)
         IN  /\ preferences \in Preferences
             /\ preferences.plain = local.plain
             /\ local.key # 0 => preferences.key = local.key
             /\ revision \in Revisions
             /\ revision.preferences = preferences /\ revision.parents = heads
             /\ revision.source = d /\ revision.asked = asked
             /\ LeavesItsKey(cloud, revision)
<1> DEFINE keys == KeysIn(cloud, heads)
<1> DEFINE preferences == ToPublish(d, local, heads)
<1> DEFINE revision == PrepareSettings(d, preferences, heads, asked)
<1>1. keys \in SUBSET Keys
  BY KeysAre DEF IInv
<1>2. KeysOf(heads) = keys
  BY DEF KeysOf, KeysIn
<1>3. here[d].secret \in BOOLEAN /\ heads \in SUBSET Nat
  BY Device, CloudIs DEF IInv
<1>4. preferences = IF here[d].secret THEN local ELSE PreserveCloudKey(local, keys)
  BY <1>2 DEF ToPublish
<1> HIDE DEF preferences, keys
<1>5. /\ preferences \in Preferences /\ preferences.plain = local.plain
      /\ local.key # 0 => preferences.key = local.key
      /\ here[d].secret \/ IF keys = {} THEN preferences.key = 0 ELSE preferences.key \in keys
  BY <1>1, <1>3, <1>4, PreservedIs
<1>6. /\ revision \in Revisions
      /\ revision.preferences = preferences /\ revision.parents = heads
      /\ revision.source = d /\ revision.asked = asked /\ revision.secret = here[d].secret
  BY <1>3, <1>5 DEF PrepareSettings, Revisions
<1> HIDE DEF revision
<1>7. LeavesItsKey(cloud, revision)
  BY <1>5, <1>6 DEF LeavesItsKey, keys
<1> QED  BY <1>5, <1>6, <1>7 DEF preferences, revision

\* A revision a device writes, and what it then rests on.
LEMMA WritesKeeps ==
  ASSUME IInv, NEW d \in Devices, NEW revision \in Revisions,
         revision.parents \subseteq DOMAIN cloud, LeavesItsKey(cloud, revision),
         NEW agreed \in Baselines, Writes(d, revision, agreed),
         agreed.local.plain = revision.preferences.plain,
         agreed.local.key # 0 => agreed.local.key = revision.preferences.key,
         agreed.cloud.plain \in held[d],
         UNCHANGED <<here, baseline, conflicts, held>>
  PROVE  IInv'
<1> DEFINE o == [NoOp EXCEPT !.stage = "written", !.agreed = agreed]
<1>1. cloud' = Append(cloud, revision) /\ op' = [op EXCEPT ![d] = o]
  BY DEF Writes, Goes
<1>2. /\ Extends(cloud', cloud)
      /\ Len(cloud') \in DOMAIN cloud' /\ cloud'[Len(cloud')] = revision
  BY <1>1, Grows DEF IInv
<1>3. Told(cloud', agreed.local)
  BY <1>2 DEF Told
<1>4. Rests(cloud', agreed, held[d])
  BY <1>3 DEF Rests
<1>5. Sound(d, cloud', here[d], baseline[d], conflicts[d], op[d], held[d])
  BY <1>2, Device, SoundStill
<1>6. /\ {0, here[d].own.plain} \subseteq held[d]
      /\ baseline[d] # NoBaseline => Rests(cloud', baseline[d], held[d])
      /\ conflicts[d] \subseteq DOMAIN cloud'
  BY <1>5 DEF Sound
<1>7. Sound(d, cloud', here[d], baseline[d], conflicts[d], o, held[d])
  BY <1>4, <1>6, WrittenSound
<1>8. o \in Ops
  BY WrittenIs
<1> HIDE DEF o
<1>9. /\ here' = [here EXCEPT ![d] = here[d]] /\ here[d] \in Own
      /\ baseline' = [baseline EXCEPT ![d] = baseline[d]] /\ baseline[d] \in Baselines \cup {NoBaseline}
      /\ conflicts' = [conflicts EXCEPT ![d] = conflicts[d]] /\ conflicts[d] \in SUBSET Nat
      /\ held' = [held EXCEPT ![d] = held[d]] /\ held[d] \in SUBSET (Plain \cup {0})
  BY Device DEF IInv, Shaped
<1>10. op' = [op EXCEPT ![d] = o] /\ Extends(cloud', cloud)
  BY <1>1, <1>2
<1> QED  BY <1>7, <1>8, <1>9, <1>10, Framed

LEMMA WritesLocalKeeps ==
  ASSUME IInv, NEW d \in Devices, WritesLocal(d)
  PROVE  IInv'
<1> DEFINE local == op[d].local
<1> DEFINE asked == FALSE
<1> DEFINE preferences == ToPublish(d, local, op[d].heads)
<1> DEFINE revision == PrepareSettings(d, preferences, op[d].heads, asked)
<1> DEFINE agreed == Agrees(d, local, preferences)
<1>1. Writes(d, revision, agreed) /\ UNCHANGED <<here, baseline, conflicts, held>>
  BY DEF WritesLocal
<1>2. /\ local \in Preferences
      /\ here[d].secret \/ local.key = 0
      /\ local.plain \in held[d]
      /\ op[d].heads \in SUBSET DOMAIN cloud
  BY Device DEF Sound, WritesLocal
<1>3. /\ preferences \in Preferences /\ preferences.plain = local.plain
      /\ local.key # 0 => preferences.key = local.key
      /\ revision \in Revisions /\ revision.preferences = preferences
      /\ revision.parents = op[d].heads /\ LeavesItsKey(cloud, revision)
  <2>1. asked \in BOOLEAN
    OBVIOUS
  <2> DEFINE heads == op[d].heads
  <2>2. heads \in SUBSET DOMAIN cloud
    BY <1>2
  <2>3. local \in Preferences
    BY <1>2
  <2>4. here[d].secret \/ local.key = 0
    BY <1>2
  <2> HIDE DEF local, asked, heads
  <2> QED  BY <2>1, <2>2, <2>3, <2>4, PublishedIs DEF heads
<1> HIDE DEF local, preferences, revision
<1>4. /\ agreed \in Baselines /\ agreed.local = local
      /\ agreed.cloud.plain = preferences.plain
  BY <1>2, <1>3, AgreesIs
<1> HIDE DEF agreed
<1> QED  BY <1>1, <1>2, <1>3, <1>4, WritesKeeps

LEMMA WritesChoiceKeeps ==
  ASSUME IInv, NEW d \in Devices, WritesChoice(d)
  PROVE  IInv'
<1>1. Answers(d, cloud, conflicts[d], op[d], held[d]) /\ conflicts[d] \subseteq DOMAIN cloud
  BY Device DEF Sound, WritesChoice
<1> DEFINE revision == op[d].revision
<1> DEFINE agreed == op[d].agreed
<1>2. /\ revision \in Revisions /\ revision.parents \subseteq DOMAIN cloud
      /\ LeavesItsKey(cloud, revision)
      /\ agreed \in Baselines
      /\ agreed.local.plain = revision.preferences.plain
      /\ agreed.local.key # 0 => agreed.local.key = revision.preferences.key
      /\ agreed.cloud.plain \in held[d]
  BY <1>1 DEF Answers
<1>3. Writes(d, revision, agreed) /\ UNCHANGED <<here, baseline, conflicts, held>>
  BY DEF WritesChoice
<1> HIDE DEF revision, agreed
<1> QED  BY <1>2, <1>3, WritesKeeps

LEMMA AppliedIs ==
  ASSUME IInv, NEW d \in Devices, NEW preferences \in Preferences
  PROVE  LET mine == Applied(d, preferences)
         IN  /\ mine \in Preferences
             /\ mine.plain = preferences.plain
             /\ mine.key = IF here[d].secret /\ preferences.key # 0 THEN preferences.key
                           ELSE here[d].own.key
<1>1. here[d].own \in Preferences
  BY Device
<1> QED  BY <1>1 DEF Applied, Preferences

\* What a device shares once it took these settings up.
LEMMA TakenIs ==
  ASSUME IInv, NEW d \in Devices, NEW preferences \in Preferences
  PROVE  LET local == SharedPreferences(Applied(d, preferences), here[d].secret)
         IN  /\ local \in Preferences
             /\ local.plain = preferences.plain
             /\ local.key # 0 =>
                  /\ here[d].secret
                  /\ local.key = IF preferences.key # 0 THEN preferences.key
                                 ELSE here[d].own.key
<1> DEFINE mine == Applied(d, preferences)
<1>1. /\ mine \in Preferences /\ mine.plain = preferences.plain
      /\ mine.key = IF here[d].secret /\ preferences.key # 0 THEN preferences.key
                    ELSE here[d].own.key
  BY AppliedIs
<1>2. here[d].secret \in BOOLEAN
  BY Device
<1> HIDE DEF mine
<1> DEFINE local == SharedPreferences(mine, here[d].secret)
<1>3. /\ local \in Preferences /\ local.plain = mine.plain
      /\ here[d].secret => local = mine
      /\ ~here[d].secret => local.key = 0
  BY <1>1, <1>2, SharedIs
<1> HIDE DEF local
<1>4. /\ local \in Preferences /\ local.plain = preferences.plain
      /\ local.key # 0 =>
           /\ here[d].secret
           /\ local.key = IF preferences.key # 0 THEN preferences.key ELSE here[d].own.key
  BY <1>1, <1>2, <1>3
<1> QED  BY <1>4 DEF local, mine

LEMMA ReceivesCloudKeeps ==
  ASSUME IInv, NEW d \in Devices, ReceivesCloud(d)
  PROVE  IInv'
<1> DEFINE mine == Applied(d, Shown(d))
<1> DEFINE local == SharedPreferences(mine, here[d].secret)
<1> DEFINE agreed == Agrees(d, local, Shown(d))
<1> DEFINE o == [NoOp EXCEPT !.stage = "written", !.agreed = agreed]
<1> DEFINE h == [here[d] EXCEPT !.own = mine]
<1> DEFINE ever == held[d] \cup {mine.plain}
<1>1. Holds(d, mine) /\ op' = [op EXCEPT ![d] = o]
  BY DEF ReceivesCloud, Goes
<1>2. UNCHANGED <<cloud, baseline, conflicts>>
  BY DEF ReceivesCloud
<1>3. /\ OneHead(d) /\ HasBaseline(d) /\ baseline[d].local = op[d].local
      /\ Local(d) = op[d].local
  BY DEF ReceivesCloud, AppliesCloud, AsItWas
<1>4. Shown(d) \in Preferences /\ Told(cloud, Shown(d))
  BY <1>3, OneIsShown, SeenIs, SeenIsTold
<1>5. mine \in Preferences /\ mine.plain = Shown(d).plain
  BY <1>4, AppliedIs
<1>6. /\ local \in Preferences /\ local.plain = Shown(d).plain
      /\ local.key # 0 =>
           /\ here[d].secret
           /\ local.key = IF Shown(d).key # 0 THEN Shown(d).key ELSE here[d].own.key
  BY <1>4, TakenIs
<1>7. /\ here' = [here EXCEPT ![d] = h] /\ held' = [held EXCEPT ![d] = ever]
      /\ ever \in SUBSET (Plain \cup {0})
  BY <1>1, <1>5, HoldsIs
<1>8. Sound(d, cloud, h, baseline[d], conflicts[d], op[d], ever) /\ h \in Own
  BY <1>5, Device, OwnSound
<1> HIDE DEF mine, local, h
<1>9. Told(cloud, local)
  <2>1. Told(cloud, Local(d))
    <3>1. Rests(cloud, baseline[d], held[d])
      BY <1>3, Device DEF Sound, HasBaseline
    <3> QED  BY <1>3, <3>1 DEF Rests
  <2>2. here[d].secret => Local(d).key = here[d].own.key
    BY LocalIs
  <2> QED  BY <1>4, <1>6, <2>1, <2>2 DEF Told
<1>10. agreed \in Baselines /\ Rests(cloud, agreed, ever)
  BY <1>4, <1>5, <1>6, <1>9, RestsOn
<1> HIDE DEF agreed, ever
<1>11. /\ {0, h.own.plain} \subseteq ever
       /\ baseline[d] # NoBaseline => Rests(cloud, baseline[d], ever)
       /\ conflicts[d] \subseteq DOMAIN cloud
  BY <1>8 DEF Sound
<1>12. Sound(d, cloud, h, baseline[d], conflicts[d], o, ever)
  BY <1>10, <1>11, WrittenSound
<1>13. o \in Ops
  BY <1>10, WrittenIs
<1> HIDE DEF o
<1> QED  BY <1>1, <1>2, <1>7, <1>8, <1>12, <1>13, Device, Framed

-----------------------------------------------------------------------------
(* A resolution. *)

LEMMA WritingIs ==
  ASSUME NEW revision \in Revisions, NEW agreed \in Baselines
  PROVE  LET o == [NoOp EXCEPT !.stage = "writing", !.revision = revision, !.agreed = agreed]
         IN  /\ o \in Ops /\ o.stage = "writing" /\ o.heads = {}
             /\ o.revision = revision /\ o.agreed = agreed
  BY IdleIs DEF NoOp, Ops

\* The owner answered over the heads that were asked about.
LEMMA ResolvesSound ==
  ASSUME IInv, NEW d \in Devices, NEW h, NEW ever, NEW preferences \in Preferences,
         NEW local \in Preferences, Resolves(d, preferences, local),
         HeadsAreThose(d),
         {0, h.own.plain} \subseteq ever, preferences.plain \in ever,
         baseline[d] # NoBaseline => Rests(cloud, baseline[d], ever),
         local.plain = preferences.plain, local.key # 0 => local.key = preferences.key,
         \/ here[d].secret
         \/ IF KeysIn(cloud, op[d].heads) = {} THEN preferences.key = 0
            ELSE preferences.key \in KeysIn(cloud, op[d].heads)
  PROVE  \E o \in Ops : /\ op' = [op EXCEPT ![d] = o]
                        /\ Sound(d, cloud, h, baseline[d], conflicts[d], o, ever)
<1> DEFINE heads == op[d].heads
<1> DEFINE revision == PrepareSettings(d, preferences, heads, TRUE)
<1> DEFINE agreed == Agrees(d, local, preferences)
<1> DEFINE o == [NoOp EXCEPT !.stage = "writing", !.revision = revision, !.agreed = agreed]
<1>1. op' = [op EXCEPT ![d] = o]
  BY DEF Resolves, Goes
<1>2. here[d].secret \in BOOLEAN /\ heads \in SUBSET Nat /\ conflicts[d] \subseteq DOMAIN cloud
  BY Device DEF Sound
<1>3. heads = conflicts[d]
  BY DEF HeadsAreThose
<1>4. /\ agreed \in Baselines /\ agreed.local = local
      /\ agreed.cloud.plain = preferences.plain
  BY AgreesIs
<1> HIDE DEF agreed, heads
<1>5. /\ revision \in Revisions
      /\ revision.preferences = preferences /\ revision.parents = heads
      /\ revision.source = d /\ revision.secret = here[d].secret
  BY <1>2 DEF PrepareSettings, Revisions
<1>6. revision.asked
  BY DEF PrepareSettings
<1> HIDE DEF revision
<1>7. LeavesItsKey(cloud, revision)
  BY <1>5 DEF LeavesItsKey, heads
<1>8. /\ o \in Ops /\ o.stage = "writing" /\ o.heads = {}
      /\ o.revision = revision /\ o.agreed = agreed
  BY <1>4, <1>5, WritingIs
<1> HIDE DEF o
<1>9. Answers(d, cloud, conflicts[d], o, ever)
  BY <1>3, <1>4, <1>5, <1>6, <1>7, <1>8 DEF Answers
<1>10. Sound(d, cloud, h, baseline[d], conflicts[d], o, ever)
  BY <1>2, <1>8, <1>9 DEF Sound
<1> QED  BY <1>1, <1>8, <1>10

LEMMA ResolvesWithLocalKeeps ==
  ASSUME IInv, NEW d \in Devices, ResolvesWithLocal(d)
  PROVE  IInv'
<1> DEFINE local == Local(d)
<1> DEFINE heads == op[d].heads
<1> DEFINE preferences == ToPublish(d, local, heads)
<1> DEFINE keys == KeysIn(cloud, heads)
<1>1. Resolves(d, preferences, local) /\ HeadsAreThose(d)
  BY DEF ResolvesWithLocal
<1>2. UNCHANGED <<cloud, here, baseline, conflicts, held>>
  BY DEF ResolvesWithLocal
<1>3. /\ local \in Preferences /\ local.plain \in held[d]
      /\ ~here[d].secret => local.key = 0
  BY LocalIs
<1>4. /\ here[d].secret \in BOOLEAN
      /\ heads \in SUBSET DOMAIN cloud
      /\ {0, here[d].own.plain} \subseteq held[d]
      /\ baseline[d] # NoBaseline => Rests(cloud, baseline[d], held[d])
  BY Device DEF Sound
<1>5. keys \in SUBSET Keys
  BY <1>4, KeysAre DEF IInv
<1>6. KeysOf(heads) = keys
  BY DEF KeysOf, KeysIn
<1>7. preferences = IF here[d].secret THEN local ELSE PreserveCloudKey(local, keys)
  BY <1>6 DEF ToPublish
<1> HIDE DEF local, keys, preferences
<1>8. /\ preferences \in Preferences /\ preferences.plain = local.plain
      /\ local.key # 0 => local.key = preferences.key
      /\ here[d].secret \/ IF keys = {} THEN preferences.key = 0 ELSE preferences.key \in keys
  BY <1>3, <1>4, <1>5, <1>7, PreservedIs
<1>9. PICK o \in Ops : /\ op' = [op EXCEPT ![d] = o]
                       /\ Sound(d, cloud, here[d], baseline[d], conflicts[d], o, held[d])
  BY <1>1, <1>3, <1>4, <1>8, ResolvesSound DEF keys
<1> QED  BY <1>2, <1>9, Device, Framed

\* The key of the settings an owner chose is theirs, a head's, or the device's own.
LEMMA ChosenIs ==
  ASSUME IInv, NEW d \in Devices, NEW head \in op[d].heads
  PROVE  LET keys == KeysOf(op[d].heads)
             kept == PreserveCloudKey(cloud[head].preferences, keys)
             chosen == IF here[d].secret THEN PreserveCloudKey(kept, {here[d].own.key} \ {0})
                       ELSE kept
         IN  /\ chosen \in Preferences
             /\ here[d].secret /\ chosen.key = 0 => here[d].own.key = 0
             /\ \/ here[d].secret
                \/ IF KeysIn(cloud, op[d].heads) = {} THEN chosen.key = 0
                   ELSE chosen.key \in KeysIn(cloud, op[d].heads)
<1> DEFINE keys == KeysIn(cloud, op[d].heads)
<1> DEFINE settings == cloud[head].preferences
<1> DEFINE kept == PreserveCloudKey(settings, keys)
<1> DEFINE mine == {here[d].own.key} \ {0}
<1> DEFINE again == PreserveCloudKey(kept, mine)
<1> DEFINE chosen == IF here[d].secret THEN again ELSE kept
<1>1. KeysOf(op[d].heads) = keys
  BY DEF KeysOf, KeysIn
<1>2. op[d].heads \in SUBSET DOMAIN cloud /\ here[d].secret \in BOOLEAN
  BY Device DEF Sound
<1>3. /\ keys \in SUBSET Keys
      /\ settings.key # 0 => settings.key \in keys
  BY <1>2, KeysAre DEF IInv
<1>4. settings \in Preferences
  BY SeenIs
<1>5. mine \in SUBSET Keys
  BY Device DEF Preferences
<1>6. mine = {} => here[d].own.key = 0
  OBVIOUS
<1>7. 0 \notin keys /\ 0 \notin mine
  BY DEF KeysIn
<1> HIDE DEF keys, settings, mine
<1>8. /\ kept \in Preferences
      /\ IF keys = {} THEN kept.key = 0 ELSE kept.key \in keys
  <2>1. CASE settings.key # 0
    BY <2>1, <1>3, <1>4, PreservedIs
  <2>2. CASE settings.key = 0 /\ keys = {}
    BY <2>2, <1>3, <1>4, PreservedIs
  <2>3. CASE settings.key = 0 /\ keys # {}
    BY <2>3, <1>3, <1>4, PreservedIs
  <2> QED  BY <2>1, <2>2, <2>3
<1> HIDE DEF kept
<1>9. again \in Preferences /\ (again.key = 0 => mine = {})
  <2>1. CASE kept.key # 0 \/ mine = {}
    BY <2>1, <1>5, <1>8, PreservedIs
  <2>2. CASE kept.key = 0 /\ mine # {}
    BY <2>2, <1>5, <1>7, <1>8, PreservedIs
  <2> QED  BY <2>1, <2>2
<1> HIDE DEF again
<1>10. /\ chosen \in Preferences
       /\ here[d].secret /\ chosen.key = 0 => here[d].own.key = 0
       /\ here[d].secret \/ IF keys = {} THEN chosen.key = 0 ELSE chosen.key \in keys
  BY <1>2, <1>6, <1>8, <1>9
<1> QED  BY <1>1, <1>10 DEF chosen, again, kept, mine, settings, keys

LEMMA ResolvesWithCloudKeeps ==
  ASSUME IInv, NEW d \in Devices, ResolvesWithCloud(d)
  PROVE  IInv'
<1> DEFINE head == op[d].choice
<1> DEFINE kept == PreserveCloudKey(cloud[head].preferences, KeysOf(op[d].heads))
<1> DEFINE chosen == IF here[d].secret THEN PreserveCloudKey(kept, {here[d].own.key} \ {0})
                     ELSE kept
<1> DEFINE mine == Applied(d, chosen)
<1> DEFINE local == SharedPreferences(mine, here[d].secret)
<1> DEFINE h == [here[d] EXCEPT !.own = mine]
<1> DEFINE ever == held[d] \cup {mine.plain}
<1>1. Holds(d, mine) /\ Resolves(d, chosen, local) /\ HeadsAreThose(d)
  BY DEF ResolvesWithCloud
<1>2. UNCHANGED <<cloud, baseline, conflicts>>
  BY DEF ResolvesWithCloud
<1>3. head \in op[d].heads
  BY Device DEF Sound, ResolvesWithCloud, HeadsAreThose
<1>4. /\ chosen \in Preferences
      /\ here[d].secret /\ chosen.key = 0 => here[d].own.key = 0
      /\ \/ here[d].secret
         \/ IF KeysIn(cloud, op[d].heads) = {} THEN chosen.key = 0
            ELSE chosen.key \in KeysIn(cloud, op[d].heads)
  BY <1>3, ChosenIs
<1> HIDE DEF chosen
<1>5. mine \in Preferences /\ mine.plain = chosen.plain
  BY <1>4, AppliedIs
<1>6. /\ local \in Preferences /\ local.plain = chosen.plain
      /\ local.key # 0 =>
           /\ here[d].secret
           /\ local.key = IF chosen.key # 0 THEN chosen.key ELSE here[d].own.key
  BY <1>4, TakenIs
<1>7. /\ here' = [here EXCEPT ![d] = h] /\ held' = [held EXCEPT ![d] = ever]
      /\ ever \in SUBSET (Plain \cup {0})
  BY <1>1, <1>5, HoldsIs
<1>8. Sound(d, cloud, h, baseline[d], conflicts[d], op[d], ever) /\ h \in Own
  BY <1>5, Device, OwnSound
<1>9. local.key # 0 => local.key = chosen.key
  BY <1>4, <1>6
<1> HIDE DEF mine, local, h, ever
<1>10. /\ {0, h.own.plain} \subseteq ever
       /\ baseline[d] # NoBaseline => Rests(cloud, baseline[d], ever)
  BY <1>8 DEF Sound
<1>11. chosen.plain \in ever
  BY <1>5 DEF ever
<1>12. PICK o \in Ops : /\ op' = [op EXCEPT ![d] = o]
                        /\ Sound(d, cloud, h, baseline[d], conflicts[d], o, ever)
  BY <1>1, <1>4, <1>6, <1>9, <1>10, <1>11, ResolvesSound
<1> QED  BY <1>2, <1>7, <1>8, <1>12, Device, Framed

-----------------------------------------------------------------------------
(* The invariant holds. *)

LEMMA NoneIsThere == <<>> \in Workspaces
<1>1. <<>> \in Seq(Revisions) /\ DOMAIN <<>> = {}
  BY EmptySeq, LenProperties
<1> QED  BY <1>1 DEF Workspaces

LEMMA Initial ==
  ASSUME Init
  PROVE  IInv
<1>1. cloud \in Workspaces
  BY NoneIsThere DEF Init
<1>2. Shaped
  <2>1. here \in [Devices -> Own]
    BY NoneIsTyped DEF Init, Own
  <2>2. op \in [Devices -> Ops]
    BY IdleIs DEF Init
  <2> QED  BY <2>1, <2>2 DEF Shaped, Init
<1>3. ASSUME NEW d \in Devices
      PROVE  Sound(d, cloud, here[d], baseline[d], conflicts[d], op[d], held[d])
  <2>1. /\ here[d].own.plain = 0 /\ held[d] = {0}
        /\ baseline[d] = NoBaseline /\ conflicts[d] = {} /\ op[d] = NoOp
    <3>1. here[d] \in [own : {NoPreferences}, secret : {FALSE}]
      BY DEF Init
    <3>2. here[d].own = NoPreferences
      BY <3>1
    <3>3. NoPreferences.plain = 0
      BY DEF NoPreferences
    <3> QED  BY <3>2, <3>3 DEF Init
  <2> QED  BY <2>1, SoundIdle
<1> QED  BY <1>1, <1>2, <1>3 DEF IInv

LEMMA Inductive ==
  ASSUME IInv, [Next]_vars
  PROVE  IInv'
<1>1. CASE UNCHANGED vars
  BY <1>1 DEF vars, IInv, Shaped
<1>2. ASSUME NEW d \in Devices, ChangesASetting(d) \/ ChangesTheKey(d) \/ SetIncludeSecret(d)
      PROVE  IInv'
  BY <1>2, ChangesASettingKeeps, ChangesTheKeyKeeps, SetIncludeSecretKeeps
<1>3. ASSUME NEW d \in Devices,
             \/ ReadsCatalog(d) \/ FindsNothingToDo(d) \/ WritesLocal(d)
             \/ ReceivesCloud(d) \/ AsksTheOwner(d)
      PROVE  IInv'
  BY <1>3, ReadsCatalogKeeps, FindsNothingToDoKeeps, WritesLocalKeeps, ReceivesCloudKeeps,
     AsksTheOwnerKeeps
<1>4. ASSUME NEW d \in Devices, AcceptBaseline(d) \/ Ends(d) \/ Forgets(d)
      PROVE  IInv'
  BY <1>4, AcceptBaselineKeeps, EndsKeeps, ForgetsKeeps
<1>5. ASSUME NEW d \in Devices,
             \/ Chooses(d) \/ AsksAgain(d) \/ ResolvesWithLocal(d) \/ ResolvesWithCloud(d)
             \/ WritesChoice(d)
      PROVE  IInv'
  BY <1>5, ChoosesKeeps, AsksAgainKeeps, ResolvesWithLocalKeeps, ResolvesWithCloudKeeps,
     WritesChoiceKeeps
<1> QED  BY <1>1, <1>2, <1>3, <1>4, <1>5 DEF Next

\* Every state a device and the workspace reach is one in which what was agreed has
\* been published, what is about to be published is what its owner was shown, and no
\* revision takes a key away: what googleSyncController.ts:287-408 decides by.
THEOREM SettledAlways == Spec => []IInv
<1>1. Init => IInv
  BY Initial
<1>2. IInv /\ [Next]_vars => IInv'
  BY Inductive
<1> QED  BY <1>1, <1>2, PTL DEF Spec

LEMMA SafetyOfIt == IInv => OptedOutLeavesTheKey
<1> SUFFICES ASSUME IInv PROVE OptedOutLeavesTheKey
  OBVIOUS
<1>1. \A r \in DOMAIN cloud :
        /\ cloud[r].preferences \in Preferences
        /\ cloud[r].parents \subseteq 1 .. r - 1
        /\ cloud[r].source \in Devices
  BY CloudIs DEF IInv, Revisions
<1>2. here \in [Devices -> [own : Preferences, secret : BOOLEAN]]
  BY DEF IInv, Shaped, Own
<1>3. ASSUME NEW d \in Devices
      PROVE  /\ baseline[d] # NoBaseline =>
                  baseline[d].local \in Preferences /\ baseline[d].cloud \in Preferences
             /\ conflicts[d] \subseteq DOMAIN cloud
             /\ op[d].stage \in {"idle", "hashed", "writing", "written", "chosen"}
             /\ op[d].heads \subseteq DOMAIN cloud
             /\ op[d].stage = "chosen" =>
                  conflicts[d] # {} /\ op[d].choice \in conflicts[d] \cup {0}
  <2>1. baseline[d] \in Baselines \cup {NoBaseline} /\ op[d] \in Ops
    BY Device
  <2>2. op[d].stage \in {"idle", "hashed", "writing", "written", "chosen"}
    BY <2>1 DEF Ops
  <2>3. baseline[d] # NoBaseline =>
          baseline[d].local \in Preferences /\ baseline[d].cloud \in Preferences
    BY <2>1 DEF Baselines
  <2> QED  BY <2>2, <2>3, Device DEF Sound
<1>4. ASSUME NEW r \in DOMAIN cloud
      PROVE  cloud[r].secret \/ LeavesTheKey(r)
  <2>1. KeysOf(cloud[r].parents) = KeysIn(cloud, cloud[r].parents)
    BY DEF KeysOf, KeysIn
  <2>2. LeavesItsKey(cloud, cloud[r])
    BY CloudIs DEF IInv
  <2> QED  BY <2>1, <2>2 DEF LeavesItsKey, LeavesTheKey
<1>5. TypeOK
  BY <1>1, <1>2, <1>3 DEF TypeOK
<1> QED  BY <1>4, <1>5 DEF OptedOutLeavesTheKey

\* googleSyncController.ts:341: however its syncs and its owner's answers fall between those of
\* other devices, a device that does not share its key publishes none of its own, and
\* each revision it writes carries a key of those it replaces whenever they have one.
THEOREM NoKeyIsTakenAway == Spec => []OptedOutLeavesTheKey
<1>1. IInv => OptedOutLeavesTheKey
  BY SafetyOfIt
<1> QED  BY <1>1, SettledAlways, PTL

-----------------------------------------------------------------------------
(* What a step may never do. *)

\* What another device does is nothing to this one's sync.
LEMMA OthersStay ==
  ASSUME NEW d, NEW e, d # e,
         \/ ChangesASetting(e) \/ ChangesTheKey(e) \/ SetIncludeSecret(e)
         \/ ReadsCatalog(e)
         \/ FindsNothingToDo(e) \/ WritesLocal(e) \/ ReceivesCloud(e) \/ AsksTheOwner(e)
         \/ AcceptBaseline(e) \/ Ends(e) \/ Forgets(e)
         \/ Chooses(e) \/ AsksAgain(e) \/ ResolvesWithLocal(e) \/ ResolvesWithCloud(e)
         \/ WritesChoice(e)
  PROVE  op'[d] = op[d]
<1>1. ASSUME NEW o, Goes(e, o)
      PROVE  op'[d] = op[d]
  BY <1>1 DEF Goes
<1>2. CASE ChangesASetting(e) \/ ChangesTheKey(e) \/ SetIncludeSecret(e)
  BY <1>2 DEF ChangesASetting, ChangesTheKey, SetIncludeSecret
<1>3. CASE ReadsCatalog(e) \/ FindsNothingToDo(e) \/ ReceivesCloud(e) \/ AsksTheOwner(e)
  BY <1>1, <1>3 DEF ReadsCatalog, FindsNothingToDo, ReceivesCloud, AsksTheOwner
<1>4. CASE AcceptBaseline(e) \/ Ends(e) \/ Forgets(e) \/ AsksAgain(e)
  BY <1>1, <1>4 DEF AcceptBaseline, Ends, Forgets, AsksAgain
<1>5. CASE Chooses(e)
  BY <1>1, <1>5 DEF Chooses
<1>6. CASE ResolvesWithLocal(e)
  BY <1>1, <1>6 DEF ResolvesWithLocal, Resolves
<1>7. CASE ResolvesWithCloud(e)
  BY <1>1, <1>7 DEF ResolvesWithCloud, Resolves
<1>8. CASE WritesLocal(e) \/ WritesChoice(e)
  BY <1>1, <1>8 DEF WritesLocal, WritesChoice, Writes
<1> QED  BY <1>2, <1>3, <1>4, <1>5, <1>6, <1>7, <1>8

\* Of a sync's steps only one changes settings and goes on.
LEMMA OnlyReceives ==
  ASSUME IInv, Next, NEW d \in Devices,
         op[d].stage = "hashed", op'[d].stage = "written", here'[d] # here[d]
  PROVE  ReceivesCloud(d)
<1>1. PICK e \in Devices :
        \/ ChangesASetting(e) \/ ChangesTheKey(e) \/ SetIncludeSecret(e)
        \/ ReadsCatalog(e)
        \/ FindsNothingToDo(e) \/ WritesLocal(e) \/ ReceivesCloud(e) \/ AsksTheOwner(e)
        \/ AcceptBaseline(e) \/ Ends(e) \/ Forgets(e)
        \/ Chooses(e) \/ AsksAgain(e) \/ ResolvesWithLocal(e) \/ ResolvesWithCloud(e)
        \/ WritesChoice(e)
  BY DEF Next
<1>2. e = d
  BY <1>1, OthersStay
<1>3. ~(ChangesASetting(d) \/ ChangesTheKey(d) \/ SetIncludeSecret(d))
  BY DEF ChangesASetting, ChangesTheKey, SetIncludeSecret
<1>4. ~(FindsNothingToDo(d) \/ WritesLocal(d) \/ AsksTheOwner(d) \/ Forgets(d) \/ Ends(d))
  BY DEF FindsNothingToDo, WritesLocal, AsksTheOwner, Forgets, Ends
<1>5. ~(ReadsCatalog(d) \/ AcceptBaseline(d) \/ Chooses(d) \/ AsksAgain(d))
  BY DEF ReadsCatalog, AcceptBaseline, Chooses, AsksAgain
<1>6. ~(ResolvesWithLocal(d) \/ ResolvesWithCloud(d) \/ WritesChoice(d))
  BY DEF ResolvesWithLocal, ResolvesWithCloud, WritesChoice
<1> QED  BY <1>1, <1>2, <1>3, <1>4, <1>5, <1>6

\* googleSyncController.ts:326-330: whatever its owner changes while a sync waits, and
\* wherever an earlier one was cut off, a sync overwrites only settings some revision
\* of the workspace holds.
THEOREM NoEditIsLost == Spec => EditsSurvive
<1>1. ASSUME IInv, Next, NEW d \in Devices,
             op[d].stage = "hashed", op'[d].stage = "written", here'[d] # here[d]
      PROVE  /\ \E r \in DOMAIN cloud : cloud[r].preferences.plain = here[d].own.plain
             /\ here'[d].own.key # here[d].own.key /\ here[d].own.key # 0 =>
                  \E r \in DOMAIN cloud : cloud[r].preferences.key = here[d].own.key
  <2>1. /\ OneHead(d) /\ HasBaseline(d) /\ baseline[d].local = op[d].local
        /\ Local(d) = op[d].local
        /\ Holds(d, Applied(d, Shown(d)))
    BY <1>1, OnlyReceives DEF ReceivesCloud, AppliesCloud, AsItWas
  <2>2. Told(cloud, Local(d))
    <3>1. Rests(cloud, baseline[d], held[d])
      BY <1>1, <2>1, Device DEF Sound, HasBaseline
    <3> QED  BY <2>1, <3>1 DEF Rests
  <2>3. Shown(d) \in Preferences
    BY <1>1, <2>1, OneIsShown, SeenIs
  <2> DEFINE mine == Applied(d, Shown(d))
  <2>4. /\ mine \in Preferences
        /\ mine.key # here[d].own.key => here[d].secret
    BY <1>1, <2>3, AppliedIs
  <2>5. here'[d].own = mine
    <3>1. here' = [here EXCEPT ![d] = [here[d] EXCEPT !.own = mine]]
      BY <1>1, <2>1, <2>4, HoldsIs
    <3>2. [here[d] EXCEPT !.own = mine].own = mine
      BY <1>1, Device DEF Own
    <3>3. here'[d] = [here[d] EXCEPT !.own = mine]
      BY <1>1, <3>1 DEF IInv, Shaped
    <3> QED  BY <3>2, <3>3
  <2> HIDE DEF mine
  <2>6. /\ Local(d).plain = here[d].own.plain
        /\ here[d].secret => Local(d) = here[d].own
    BY <1>1, LocalIs
  <2> QED  BY <2>2, <2>4, <2>5, <2>6 DEF Told
<1>2. IInv /\ [Next]_vars =>
        [\A d \in Devices : op[d].stage = "hashed" /\ op'[d].stage = "written" /\ here'[d] # here[d] =>
           /\ \E r \in DOMAIN cloud : cloud[r].preferences.plain = here[d].own.plain
           /\ here'[d].own.key # here[d].own.key /\ here[d].own.key # 0 =>
                \E r \in DOMAIN cloud : cloud[r].preferences.key = here[d].own.key]_vars
  BY <1>1
<1> QED  BY <1>2, SettledAlways, PTL DEF Spec, EditsSurvive

LEMMA OnlyWritersAdd ==
  ASSUME Next, cloud' # cloud
  PROVE  \E d \in Devices : WritesLocal(d) \/ WritesChoice(d)
<1>1. PICK e \in Devices :
        \/ ChangesASetting(e) \/ ChangesTheKey(e) \/ SetIncludeSecret(e)
        \/ ReadsCatalog(e)
        \/ FindsNothingToDo(e) \/ WritesLocal(e) \/ ReceivesCloud(e) \/ AsksTheOwner(e)
        \/ AcceptBaseline(e) \/ Ends(e) \/ Forgets(e)
        \/ Chooses(e) \/ AsksAgain(e) \/ ResolvesWithLocal(e) \/ ResolvesWithCloud(e)
        \/ WritesChoice(e)
  BY DEF Next
<1>2. ~(ChangesASetting(e) \/ ChangesTheKey(e) \/ SetIncludeSecret(e) \/ ReadsCatalog(e))
  BY DEF ChangesASetting, ChangesTheKey, SetIncludeSecret, ReadsCatalog
<1>3. ~(FindsNothingToDo(e) \/ ReceivesCloud(e) \/ AsksTheOwner(e) \/ AcceptBaseline(e))
  BY DEF FindsNothingToDo, ReceivesCloud, AsksTheOwner, AcceptBaseline
<1>4. ~(Ends(e) \/ Forgets(e) \/ Chooses(e) \/ AsksAgain(e))
  BY DEF Ends, Forgets, Chooses, AsksAgain
<1>5. ~(ResolvesWithLocal(e) \/ ResolvesWithCloud(e))
  BY DEF ResolvesWithLocal, ResolvesWithCloud
<1> QED  BY <1>1, <1>2, <1>3, <1>4, <1>5

\* The revision a step adds is the last.
LEMMA LastIs ==
  ASSUME IInv, NEW revision \in Revisions, cloud' = Append(cloud, revision)
  PROVE  cloud'[Len(cloud')] = revision
<1>1. cloud \in Seq(Revisions) /\ Len(cloud) \in Nat
  BY CloudIs DEF IInv
<1>2. Len(cloud') = Len(cloud) + 1 /\ cloud'[Len(cloud) + 1] = revision
  BY <1>1, AppendProperties
<1> QED  BY <1>2

\* What a sync replaces without asking, its device has held.
LEMMA ReplacedWasHeld ==
  ASSUME IInv, NEW d \in Devices, WritesLocal(d), NEW head \in op[d].heads
  PROVE  cloud[head].preferences.plain \in held[d]
<1>1. op[d].local.plain \in held[d] /\ 0 \in held[d]
  BY Device DEF Sound, WritesLocal
<1>2. CloudOf(d, head).plain = cloud[head].preferences.plain
  BY SeenIs
<1>3. CASE ShownOf(d) = {op[d].local}
  <2>1. CloudOf(d, head) = op[d].local
    BY <1>3 DEF ShownOf
  <2> QED  BY <1>1, <1>2, <2>1
<1>4. CASE OneHead(d) /\ (Shown(d) = NoPreferences \/ (HasBaseline(d) /\ baseline[d].cloud = Shown(d)))
  <2>1. Shown(d) = CloudOf(d, head)
    BY <1>4, OneIsShown
  <2>2. CASE Shown(d) = NoPreferences
    BY <1>1, <1>2, <2>1, <2>2 DEF NoPreferences
  <2>3. CASE HasBaseline(d) /\ baseline[d].cloud = Shown(d)
    <3>1. Rests(cloud, baseline[d], held[d])
      BY <2>3, Device DEF Sound, HasBaseline
    <3> QED  BY <1>2, <2>1, <2>3, <3>1 DEF Rests
  <2> QED  BY <1>4, <2>2, <2>3
<1> QED  BY <1>3, <1>4 DEF WritesLocal, PublishesLocal

\* googleSyncController.ts:287-338, 370-408: the heads a revision replaces without its owner
\* being asked held plain preferences its device has held as well; otherwise they are
\* the ones its owner was shown, and no head published since.
THEOREM OnlyTheKnownIsReplaced == Spec => ReplacesOnlyTheKnown
<1>1. ASSUME IInv, Next, cloud' # cloud
      PROVE  LET revision == cloud'[Len(cloud')]
             IN  \A r \in revision.parents :
                   IF revision.asked THEN r \in conflicts[revision.source]
                   ELSE cloud[r].preferences.plain \in held[revision.source]
  <2>1. PICK d \in Devices : WritesLocal(d) \/ WritesChoice(d)
    BY <1>1, OnlyWritersAdd
  <2>2. CASE WritesLocal(d)
    <3> DEFINE local == op[d].local
    <3> DEFINE heads == op[d].heads
    <3> DEFINE asked == FALSE
    <3> DEFINE revision == PrepareSettings(d, ToPublish(d, local, heads), heads, asked)
    <3>1. cloud' = Append(cloud, revision)
      BY <2>2 DEF WritesLocal, Writes
    <3>2. heads \in SUBSET DOMAIN cloud /\ local \in Preferences
      BY <1>1, Device DEF Sound
    <3>3. here[d].secret \/ local.key = 0
      BY <1>1, <2>2, Device DEF Sound, WritesLocal
    <3>4. asked \in BOOLEAN /\ ~asked
      OBVIOUS
    <3>5. \A r \in heads : cloud[r].preferences.plain \in held[d]
      BY <1>1, <2>2, ReplacedWasHeld
    <3> HIDE DEF local, heads, asked
    <3>6. /\ revision \in Revisions /\ revision.parents = heads
          /\ revision.source = d /\ revision.asked = asked
      BY <1>1, <3>2, <3>3, <3>4, PublishedIs
    <3> HIDE DEF revision
    <3>7. cloud'[Len(cloud')] = revision
      BY <1>1, <3>1, <3>6, LastIs
    <3> QED  BY <3>4, <3>5, <3>6, <3>7
  <2>3. CASE WritesChoice(d)
    <3> DEFINE revision == op[d].revision
    <3>1. /\ revision \in Revisions /\ revision.source = d /\ revision.asked
          /\ revision.parents \subseteq conflicts[d]
      BY <1>1, <2>3, Device DEF Sound, WritesChoice, Answers
    <3>2. cloud' = Append(cloud, revision)
      BY <2>3 DEF WritesChoice, Writes
    <3> HIDE DEF revision
    <3>3. cloud'[Len(cloud')] = revision
      BY <1>1, <3>1, <3>2, LastIs
    <3> QED  BY <3>1, <3>3
  <2> QED  BY <2>1, <2>2, <2>3
<1>2. IInv /\ [Next]_vars =>
        [cloud' # cloud =>
           LET revision == cloud'[Len(cloud')]
           IN  \A r \in revision.parents :
                 IF revision.asked THEN r \in conflicts[revision.source]
                 ELSE cloud[r].preferences.plain \in held[revision.source]]_vars
  BY <1>1
<1> QED  BY <1>2, SettledAlways, PTL DEF Spec, ReplacesOnlyTheKnown
=============================================================================
