--------------------------- MODULE MCResourceMap ---------------------------
(* Two groups that can share resources; two resources of one kind, one of  *)
(* another, so that a kind can lose one of its resources or its last.      *)
EXTENDS ResourceMap, TLC

CONSTANTS g1, g2, r1, r2, r3, k1, k2

MCGroups == {g1, g2}
MCResources == {r1, r2, r3}
MCKinds == {k1, k2}
MCGK == r1 :> k1 @@ r2 :> k1 @@ r3 :> k2
=============================================================================
