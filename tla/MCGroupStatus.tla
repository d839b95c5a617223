--------------------------- MODULE MCGroupStatus ---------------------------
(* A resource that fails, progresses or is current, and an applier that    *)
(* has yet to act, has acted, or has seen the resource ready.              *)
EXTENDS GroupStatus

CONSTANT none

MCComputed == {"InProgress", "Failed"}
MCActuations ==
  {[actuation |-> "Pending", reconcile |-> "Pending"],
   [actuation |-> "Succeeded", reconcile |-> "Pending"],
   [actuation |-> "Succeeded", reconcile |-> "Succeeded"]}
=============================================================================
