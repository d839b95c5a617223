------------------------------ MODULE Watches ------------------------------
(***************************************************************************)
(* What the watch manager promises to those who take its mutex: a call of  *)
(* UpdateWatches is one step, after which the kinds that were asked for    *)
(* are watched, but for new ones whose watcher could not be made.  Between *)
(* calls a watch may fail, and that is flagged.  WatchManager implements   *)
(* this, KindWatch stands on it.                                           *)
(***************************************************************************)
CONSTANT GVKs

VARIABLES
  watched,
  needsUpdate

vars == <<watched, needsUpdate>>

Init == watched = {} /\ needsUpdate = FALSE

Update(gvkMap, failures) ==
  /\ failures \subseteq gvkMap \ watched
  /\ watched' = gvkMap \ failures
  /\ needsUpdate' = FALSE

\* g need not be watched: a watcher that has been stopped may fail late.
Fail(g) ==
  /\ watched' = watched \ {g}
  /\ needsUpdate' = TRUE

Next ==
  \/ \E gvkMap \in SUBSET GVKs : \E failures \in SUBSET gvkMap : Update(gvkMap, failures)
  \/ \E g \in GVKs : Fail(g)

Spec == Init /\ [][Next]_vars

=============================================================================
