----------------------------- MODULE MCTimeline -----------------------------
(***************************************************************************)
(* Timeline with two ids and two files: sanitised apart, or to one file.   *)
(***************************************************************************)
EXTENDS Timeline, TLC

CONSTANTS g1, g2, f1, f2

MCGoals == {g1, g2}
MCFiles == {f1, f2}
Symmetry == Permutations(MCGoals) \cup Permutations(MCFiles)
=============================================================================
