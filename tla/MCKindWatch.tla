---------------------------- MODULE MCKindWatch ----------------------------
(* Two kinds, so that one call of UpdateWatches succeeds for one of them   *)
(* and fails for the other.                                                *)
EXTENDS KindWatch

CONSTANTS k1, k2, inProgress, current

MCKinds == {k1, k2}
=============================================================================
