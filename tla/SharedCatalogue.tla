--------------------------- MODULE SharedCatalogue ---------------------------
(***************************************************************************)
(* What Google sync promises about a workspace: what one device published  *)
(* stays published, a device that looks sees all of it, and what it then   *)
(* brings home is no older than what it had.                               *)
(***************************************************************************)
EXTENDS Integers

CONSTANTS Devices, Versions, Settings

VARIABLES
  published,   \* of each device, the newest version of its history in the cloud
  settings,    \* the settings revisions in the cloud
  imported     \* what each device holds of every other one's history

Init ==
  /\ published = [s \in Devices |-> 0]
  /\ settings = {}
  /\ imported = [d \in Devices |-> [s \in Devices |-> 0]]

\* One publication: its own device's history and one settings revision at most.
Publish(d) ==
  /\ \E version \in Versions : version >= published[d]
                            /\ published' = [published EXCEPT ![d] = version]
  /\ settings' = settings \/ \E s \in Settings \ settings : settings' = settings \cup {s}
  /\ UNCHANGED imported

BringHome(d) ==
  /\ \E s \in Devices \ {d}, version \in Versions :
       /\ version \in imported[d][s] + 1 .. published[s]
       /\ imported' = [imported EXCEPT ![d][s] = version]
  /\ UNCHANGED <<published, settings>>

Next == \E d \in Devices : Publish(d) \/ BringHome(d)

Spec == Init /\ [][Next]_<<published, settings, imported>>

=============================================================================
