--------------------------- MODULE MCStatusCache ---------------------------
(* A group and its resource, which is absent or has one of two other        *)
(* statuses; a watcher and the next, a goroutine and one given up.          *)
EXTENDS StatusCache, TLC

CONSTANTS g1, r1, k1, h1, h2, c1, c2, inProgress, current

MCGK == r1 :> k1

MCSymmetry ==
  Permutations(Handlers) \cup Permutations(Computers) \cup Permutations({inProgress, current})
=============================================================================
