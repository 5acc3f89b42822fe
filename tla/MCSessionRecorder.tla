------------------------- MODULE MCSessionRecorder -------------------------
(* Small instances of SessionRecorder for TLC. *)
EXTENDS SessionRecorder, TLC

\* No action tells one tab or one session from another.
Interchange == Permutations(Tabs) \cup Permutations(Sessions)

\* Memory of a session nobody refers to is garbage: no action reads it.
Reachable ==
  <<phase, feed, store, recorder, inflight,
    [s \in Sessions |-> IF \E t \in Tabs : RefersTo(t, s) THEN memory[s] ELSE <<>>],
    lease, archive, sealed, cut, warnings, counted, mail, mishaps>>

=============================================================================
