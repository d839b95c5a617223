-------------------------- MODULE MCEndReconciling --------------------------
(* A resource that fails and is owned by another inventory, a Config       *)
(* Connector resource that is in progress, and a subgroup that no inventory*)
(* owns.  Each of them may be gone; the first is in the group only at times*)
EXTENDS EndReconciling, TLC

CONSTANTS r1, r2, sub

MCResources == {r1, r2, sub}
MCSpecs == {[resources |-> <<r1, r2>>, subgroups |-> <<sub>>],
            [resources |-> <<r2>>, subgroups |-> <<>>]}
Broken == NewCondition("Stalled", "True", "Broken")
Updating == NewCondition("Ready", "False", "Updating")
MCObjectConditions == {Broken, Updating}
Object(kstatus, inventory, cnrm) ==
  [kstatus |-> kstatus, inventory |-> inventory, cnrm |-> cnrm, readable |-> cnrm,
   conditions |-> <<Broken>>, ownConditions |-> <<Updating>>]
MCObjects == (r1 :> {Object("Failed", "other", FALSE)})
          @@ (r2 :> {Object("InProgress", "own", TRUE)})
          @@ (sub :> {Object("Current", "", FALSE)})
MCApplied == {[actuation |-> "Pending", reconcile |-> "Pending"]}
=============================================================================
