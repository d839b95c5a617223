---------------------------- MODULE StatusRules ----------------------------
(***************************************************************************)
(* The pure rules of controllers/resourcegroup and controllers/status:     *)
(* from what the controller observes and what the applier wrote to what    *)
(* the ResourceGroup says.  Messages, times, hashes and names are left     *)
(* out.  A resource status is a record that has the fields the rules read. *)
(***************************************************************************)
EXTENDS Naturals, Sequences

StatusValues == {"InProgress", "Failed", "Current", "Terminating", "NotFound", "Unknown"}
ActuationValues == {"", "Pending", "Skipped", "Succeeded", "Failed"}
ReconcileValues == {"", "Pending", "Succeeded", "Failed", "Skipped", "Timeout"}

ResourceStatus == [status : StatusValues, actuation : ActuationValues, reconcile : ReconcileValues]

-----------------------------------------------------------------------------
(* The legacy status of a resource.                                        *)

\* ActuationStatusToLegacy
Legacy(s) ==
  CASE s.status = "NotFound" -> "NotFound"
    [] s.status # "NotFound" /\ s.actuation \notin {"", "Succeeded"} -> "Unknown"
    [] s.status # "NotFound" /\ s.actuation = "Succeeded" /\ s.reconcile = "Succeeded" -> "Current"
    [] OTHER -> s.status

\* statusNeedsUpdate, for one resource
NeedsUpdate(s) == Legacy(s) # s.status

-----------------------------------------------------------------------------
(* Conditions.                                                             *)

ConditionTypes == {"Reconciling", "Stalled", "OwnershipOverlap"}
ConditionStatuses == {"True", "False", "Unknown"}
Reasons == {"", "StartReconciling", "FinishReconciling", "ComponentFailed", "ExceedTimeout",
            "Overlap", "Unknown"}
Conditions == [type : ConditionTypes, status : ConditionStatuses, reason : Reasons]
NewCondition(type, status, reason) == [type |-> type, status |-> status, reason |-> reason]

\* startReconcilingStatus, and the timeout of endReconcilingStatus
StartConditions ==
  <<NewCondition("Reconciling", "True", "StartReconciling"), NewCondition("Stalled", "False", "")>>
TimeoutConditions ==
  <<NewCondition("Reconciling", "False", "ExceedTimeout"),
    NewCondition("Stalled", "True", "ExceedTimeout")>>

\* aggregateResourceStatuses
Aggregate(statuses) ==
  IF \E i \in DOMAIN statuses : statuses[i].status = "Failed"
  THEN NewCondition("Stalled", "True", "ComponentFailed")
  ELSE NewCondition("Stalled", "False", "FinishReconciling")

FinishConditions(statuses) ==
  <<NewCondition("Reconciling", "False", "FinishReconciling"), Aggregate(statuses)>>

\* What adjustConditionOrder keeps of one type: the last, or Unknown.
Positions(conditions, type) == {i \in DOMAIN conditions : conditions[i].type = type}
LastOf(conditions, type) ==
  IF Positions(conditions, type) = {} THEN NewCondition(type, "Unknown", "")
  ELSE conditions[CHOOSE i \in Positions(conditions, type) :
                    \A j \in Positions(conditions, type) : j <= i]

\* adjustConditionOrder.  There is only one other type to sort.
Others(conditions) ==
  IF \A i \in DOMAIN conditions : conditions[i].type \in {"Reconciling", "Stalled"} THEN <<>>
  ELSE SelectSeq(conditions, LAMBDA c : c.type \notin {"Reconciling", "Stalled"})
AdjustConditionOrder(conditions) ==
  <<LastOf(conditions, "Reconciling"), LastOf(conditions, "Stalled")>> \o Others(conditions)

\* isConditionTrue: the first of the type decides.
IsConditionTrue(type, conditions) ==
  \E i \in Positions(conditions, type) :
    /\ \A j \in Positions(conditions, type) : i <= j
    /\ conditions[i].status = "True"

\* ownershipCondition: none, or who owns the resource instead.
OwnershipCondition(id, inventory) ==
  IF id = inventory THEN <<>>
  ELSE <<IF inventory # "" THEN NewCondition("OwnershipOverlap", "True", "Overlap")
         ELSE NewCondition("OwnershipOverlap", "Unknown", "Unknown")>>

-----------------------------------------------------------------------------
(* What is cached for a resource.                                          *)

\* ComputeStatus of controllers/status, for an object of which kstatus says
\* obj.kstatus (or fails) and obj.conditions; those of a Config Connector
\* object are its own if they can be read.
ComputeStatus(obj) ==
  IF obj.kstatus = "error"
  THEN [status |-> "Unknown", conditions |-> <<>>, inventory |-> ""]
  ELSE [status |-> obj.kstatus,
        conditions |->
          CASE obj.kstatus = "Failed" -> obj.conditions
            [] obj.kstatus # "Failed" /\ obj.cnrm /\ obj.kstatus # "Current" ->
                 IF obj.readable THEN obj.ownConditions ELSE obj.conditions
            [] OTHER -> <<>>,
        inventory |-> obj.inventory]

\* setResStatus, and the status without a cached one
SetResStatus(id, res, cached) ==
  [resource |-> res, status |-> cached.status, actuation |-> "", reconcile |-> "",
   conditions |-> cached.conditions \o OwnershipCondition(id, cached.inventory)]
BareStatus(res, status) ==
  [resource |-> res, status |-> status, actuation |-> "", reconcile |-> "", conditions |-> <<>>]

\* The check for the pipeline error, before the applier's fields count.
IsError(entry, cnrm) == entry.status = "Failed" \/ (cnrm /\ entry.status # "Current")

\* The applier's fields are those of the same resource in the old status,
\* of the last one that lists it.
WithActuation(entry, old) ==
  LET listed == {i \in DOMAIN old : old[i].resource = entry.resource}
      last == CHOOSE i \in listed : \A j \in listed : j <= i
      new == [entry EXCEPT !.actuation = old[last].actuation, !.reconcile = old[last].reconcile]
  IN IF listed = {} THEN entry ELSE [new EXCEPT !.status = Legacy(new)]

\* getReconcileTimeOut, in seconds
MaxTimeout == 300
ReconcileTimeOut(count) ==
  LET timeout == (count \div 500 + 1) * 30 IN IF timeout > MaxTimeout THEN MaxTimeout ELSE timeout

=============================================================================
