--------------------------- MODULE MCArchiveStore ---------------------------
(***************************************************************************)
(* TLC instance of ArchiveStore.  Which page is which does not matter: the *)
(* pages are interchangeable, and only safety is checked.                  *)
(***************************************************************************)
EXTENDS ArchiveStore, TLC

Symmetry == Permutations(Tabs)

\* A copy that can no longer be restored, the happenings being spent, does not
\* tell two states apart.
Reachable == <<now, db, opened, viewed, capacity, pen, happenings,
               IF happenings = MaxHappenings THEN NoCopy ELSE copy>>
=============================================================================
