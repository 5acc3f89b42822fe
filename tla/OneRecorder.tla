---------------------------- MODULE OneRecorder ----------------------------
(***************************************************************************)
(* What the dashboard promises about its log: any number of tabs may be    *)
(* open, one of them at a time keeps the log, and another takes it over    *)
(* only after that one has stopped.                                        *)
(***************************************************************************)
CONSTANT Tabs

VARIABLE keepers   \* the tabs that are keeping the log

Init == keepers = {}

StartsKeeping(t) == keepers = {} /\ keepers' = {t}
StopsKeeping(t) == keepers = {t} /\ keepers' = {}

Next == \E t \in Tabs : StartsKeeping(t) \/ StopsKeeping(t)

Spec == Init /\ [][Next]_keepers

=============================================================================
