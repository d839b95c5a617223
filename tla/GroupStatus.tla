---------------------------- MODULE GroupStatus ----------------------------
(***************************************************************************)
(* One ResourceGroup object and the loop that keeps its status: the Root   *)
(* controller with its event filter (controllers/root), the ResourceGroup  *)
(* controller (controllers/resourcegroup), the informer cache both read    *)
(* from, and the writers outside the program.                              *)
(*                                                                         *)
(* Every write to the object is an event of the informer, which sees them  *)
(* in order and later.  A copy read from the cache can be written back     *)
(* only while the object is unchanged: the API server compares versions,   *)
(* and here a copy knows whether it is still fresh.  Events go to the Root *)
(* controller through its filter, Root sends the group to the ResourceGroup*)
(* controller, and so do the watchers when the resource changes.  What     *)
(* throttles and queues these requests is a request pending for any time.  *)
(*                                                                         *)
(* The group has one resource.  The object may be deleted, at once or when  *)
(* its finalizers have run, and made again under the same name.            *)
(***************************************************************************)
EXTENDS StatusRules

CONSTANTS
  Computed,       \* statuses that ComputeStatus can find for the resource
  Actuations,     \* [actuation, reconcile] records the applier writes
  NoEntry,        \* the status of a resource that .status does not list
  MaxChanges,     \* bound on what happens outside of the program
  MaxLag          \* bound on the events the informer is behind

ASSUME ComputedAssumption == Computed \subseteq StatusValues
ASSUME ActuationsAssumption ==
  Actuations \subseteq [actuation : ActuationValues, reconcile : ReconcileValues]
ASSUME NoEntryAssumption == NoEntry \notin ResourceStatus
ASSUME BoundsAssumption == MaxChanges \in Nat /\ MaxLag \in Nat

VARIABLES
  \* Outside of the program.
  api,          \* the object: generation, annotation and status
  events,       \* the versions of it that the informer has not seen, in order
  live,         \* the status of the resource
  changes,      \* changes so far, up to MaxChanges
  \* Inside.
  cache,        \* the informer's copy
  rootPending,  \* a request for Root
  rootPc,       \* "idle", or "clearing" between Get and Update
  rootObj, rootFresh,
  tracked,      \* the group is in the ResourceMap
  rgPending,    \* a request for the ResourceGroup controller
  rgPc,         \* "idle", "read", "started", "computed"
  rgObj, rgFresh,
  newStatus,    \* what endReconcilingStatus returned
  \* Only the properties read these.
  dropped,      \* the last update vanished in a conflict
  reenabled,    \* the annotation was removed and Root has not acted on that since
  replaced,     \* the object is another one since, and Root was not told
  actuated      \* the applier wrote to the status and neither controller has since

outside == <<api, events, live, changes>>
root == <<rootPending, rootPc, rootObj, rootFresh>>
rg == <<rgPending, rgPc, rgObj, rgFresh, newStatus>>
history == <<dropped, reenabled, replaced, actuated>>
vars == <<outside, cache, root, tracked, rg, history>>

-----------------------------------------------------------------------------
(* The object.  "none" stands for no conditions at all, the others for the *)
(* pair that startReconcilingStatus or endReconcilingStatus writes.        *)

ConditionPairs == {"none", "Reconciling", "Finished", "ComponentFailed", "ExceedTimeout"}
ReconcilingTrue(status) == status.conditions = "Reconciling"
StalledTrue(status) == status.conditions \in {"ComponentFailed", "ExceedTimeout"}

EmptyStatus == [observed |-> 0, resource |-> NoEntry, conditions |-> "none"]

Statuses == [observed : 0..MaxChanges + 1, resource : ResourceStatus \cup {NoEntry},
             conditions : ConditionPairs]
Objects == [phase : {"alive", "deleting", "gone"}, generation : 1..MaxChanges + 1,
            disabled : BOOLEAN, status : Statuses]

NewObject == [phase |-> "alive", generation |-> 1, disabled |-> FALSE, status |-> EmptyStatus]
NoObject == [NewObject EXCEPT !.phase = "gone"]

TypeOK ==
  /\ api \in Objects
  /\ events \in Seq(Objects)
  /\ live \in Computed
  /\ changes \in 0..MaxChanges
  /\ cache \in Objects
  /\ rootPc \in {"idle", "clearing"}
  /\ rootObj \in Objects
  /\ rgPc \in {"idle", "read", "started", "computed"}
  /\ rgObj \in Objects
  /\ newStatus \in Statuses
  /\ {rootPending, rootFresh, tracked, rgPending, rgFresh, dropped, reenabled, replaced,
      actuated} \subseteq BOOLEAN
  \* a copy that the API server will accept is the object as it is
  /\ rootPc # "idle" /\ rootFresh => rootObj = api
  /\ rgPc # "idle" /\ rgFresh => rgObj = api

\* The object has just been created and the program has just started.
Init ==
  /\ api = NewObject
  /\ events = <<>>
  /\ live \in Computed
  /\ changes = 0
  /\ cache = NewObject
  /\ rootPending = TRUE
  /\ rootPc = "idle"
  /\ rootObj = NewObject
  /\ rootFresh = FALSE
  /\ tracked = FALSE
  /\ rgPending = FALSE
  /\ rgPc = "idle"
  /\ rgObj = NewObject
  /\ rgFresh = FALSE
  /\ newStatus = EmptyStatus
  /\ dropped = FALSE
  /\ reenabled = FALSE
  /\ replaced = FALSE
  /\ actuated = FALSE

\* The API server has a new version; the copies of the others are stale.
Write(obj) ==
  /\ Len(events) < MaxLag
  /\ api' = obj
  /\ events' = Append(events, obj)

\* What is left of the locals of a Reconcile that has returned.
RootReturns == rootPc' = "idle" /\ rootObj' = NewObject /\ rootFresh' = FALSE
ControllerReturns == rgPc' = "idle" /\ rgObj' = NewObject /\ rgFresh' = FALSE

-----------------------------------------------------------------------------
(* Outside: the applier and the user, and a restart of the program.        *)

WriteOutside(obj) ==
  /\ Write(obj)
  /\ rootFresh' = FALSE
  /\ rgFresh' = FALSE
  /\ UNCHANGED <<live, cache, rootPending, rootPc, rootObj, tracked, rgPending, rgPc, rgObj,
                 newStatus, dropped, replaced>>

Outside(obj) ==
  /\ changes < MaxChanges
  /\ changes' = changes + 1
  /\ WriteOutside(obj)

ChangeSpec ==
  /\ api.phase # "gone"
  /\ Outside([api EXCEPT !.generation = @ + 1])
  /\ UNCHANGED <<reenabled, actuated>>

\* The annotation is metadata: the generation stays.
Disable ==
  /\ api.phase # "gone"
  /\ ~api.disabled
  /\ Outside([api EXCEPT !.disabled = TRUE])
  /\ reenabled' = FALSE
  /\ UNCHANGED actuated

Enable ==
  /\ api.disabled
  /\ Outside([api EXCEPT !.disabled = FALSE])
  /\ reenabled' = TRUE
  /\ UNCHANGED actuated

\* The applier records what it did with a resource.  If .status does not list
\* it, as in a new group or one that Root has cleared, then it adds an entry.
Entries(resource) ==
  IF resource # NoEntry THEN {resource}
  ELSE [status : Computed \cup {"Unknown"}, actuation : {""}, reconcile : {""}]

Actuate(a) ==
  /\ api.phase # "gone"
  /\ \E entry \in Entries(api.status.resource) :
       Outside([api EXCEPT !.status.resource =
                 [entry EXCEPT !.actuation = a.actuation, !.reconcile = a.reconcile]])
  /\ actuated' = TRUE
  /\ UNCHANGED reenabled

\* With finalizers the object stays; the API server counts its generation up.
Delete ==
  /\ api.phase = "alive"
  /\ Outside([api EXCEPT !.phase = "deleting", !.generation = @ + 1]) \/ Outside(NoObject)
  /\ UNCHANGED <<reenabled, actuated>>

Finalize ==
  /\ api.phase = "deleting"
  /\ WriteOutside(NoObject)
  /\ UNCHANGED <<changes, reenabled, actuated>>

Create ==
  /\ api.phase = "gone"
  /\ Outside(NewObject)
  /\ reenabled' = FALSE
  /\ actuated' = FALSE

\* The resource changes.  A watcher caches its status and sends the groups
\* that include it; without a group, nothing happens.
ChangeResource(s) ==
  /\ changes < MaxChanges
  /\ changes' = changes + 1
  /\ s # live
  /\ live' = s
  /\ rgPending' = (rgPending \/ tracked)
  /\ UNCHANGED <<api, events, cache, root, tracked, rgPc, rgObj, rgFresh, newStatus, history>>

\* Everything in memory is lost; the informer lists the object and sends a
\* Create event, which the filter lets through.
Restart ==
  /\ changes < MaxChanges
  /\ changes' = changes + 1
  /\ cache' = api
  /\ events' = <<>>
  /\ rootPending' = (api.phase # "gone")
  /\ tracked' = FALSE
  /\ rgPending' = FALSE
  /\ RootReturns
  /\ ControllerReturns
  /\ replaced' = FALSE
  /\ UNCHANGED <<api, live, newStatus, dropped, reenabled, actuated>>

-----------------------------------------------------------------------------
(* The informer and the filter of the Root controller.                     *)

\* Bugs: a stalled group is not tried again; the annotation is not looked at.
PassesUnstalled(old, new) ==
  \/ new.generation # old.generation
  \/ new.disabled /\ new.status.conditions # "none"
  \/ ~new.disabled /\ ~ReconcilingTrue(new.status) /\ new.status.resource # NoEntry
     /\ NeedsUpdate(new.status.resource)

PassesEnabled(old, new) ==
  \/ new.generation # old.generation
  \/ StalledTrue(new.status)
  \/ ~ReconcilingTrue(new.status) /\ new.status.resource # NoEntry
     /\ NeedsUpdate(new.status.resource)

\* ResourceGroupPredicate.Update
Passes(old, new) ==
  \/ new.generation # old.generation
  \/ StalledTrue(new.status)
  \/ new.disabled /\ new.status.conditions # "none"
  \/ /\ ~new.disabled
     /\ ~ReconcilingTrue(new.status)
     /\ new.status.resource # NoEntry
     /\ NeedsUpdate(new.status.resource)

\* The Create and the Delete of the predicate let everything through.
Noticed(old, new) == (old.phase = "gone") # (new.phase = "gone") \/ Passes(old, new)

Deliver ==
  /\ events # <<>>
  /\ cache' = Head(events)
  /\ events' = Tail(events)
  /\ rootPending' = (rootPending \/ Noticed(cache, Head(events)))
  /\ UNCHANGED <<api, live, changes, rootPc, rootObj, rootFresh, tracked, rg, history>>

\* The watch of the informer breaks and it lists again: what was in between
\* is lost, and another object under the same name is an update.
Relist ==
  /\ Len(events) > 1
  /\ cache' = api
  /\ events' = <<>>
  /\ rootPending' = (rootPending \/ Noticed(cache, api))
  /\ LET another == api.phase # "gone" /\ \E i \in 1..Len(events) : events[i].phase = "gone"
     IN replaced' = (replaced \/ (another /\ ~Noticed(cache, api)))
  /\ UNCHANGED <<api, live, changes, rootPc, rootObj, rootFresh, tracked, rg, dropped, reenabled,
                 actuated>>

-----------------------------------------------------------------------------
(* Root.  Updating the ResourceMap and the watches and sending the event   *)
(* are one step: no other step of this module can see them half done.      *)

RootReconcile ==
  /\ rootPc = "idle"
  /\ rootPending
  /\ ~cache.disabled
  /\ cache.phase = "alive"
  /\ rootPending' = FALSE
  /\ tracked' = TRUE
  /\ rgPending' = TRUE
  /\ reenabled' = (reenabled /\ \E i \in 1..Len(events) : events[i].disabled)
  /\ replaced' = FALSE
  /\ UNCHANGED <<outside, cache, rootPc, rootObj, rootFresh, rgPc, rgObj, rgFresh, newStatus,
                 dropped, actuated>>

\* Bug: the deletion timestamp is not looked at.
RootForgetGone ==
  /\ rootPc = "idle"
  /\ rootPending
  /\ ~cache.disabled
  /\ cache.phase # "alive"
  /\ rootPending' = FALSE
  /\ tracked' = (cache.phase # "gone")
  /\ rgPending' = (rgPending \/ cache.phase # "gone")
  /\ replaced' = FALSE
  /\ UNCHANGED <<outside, cache, rootPc, rootObj, rootFresh, rgPc, rgObj, rgFresh, newStatus,
                 dropped, reenabled, actuated>>

\* There is no object, or it has a deletion timestamp.  No event is sent.
RootForget ==
  /\ rootPc = "idle"
  /\ rootPending
  /\ ~cache.disabled
  /\ cache.phase # "alive"
  /\ rootPending' = FALSE
  /\ tracked' = FALSE
  /\ replaced' = FALSE
  /\ UNCHANGED <<outside, cache, rootPc, rootObj, rootFresh, rg, dropped, reenabled, actuated>>

RootReadDisabled ==
  /\ rootPc = "idle"
  /\ rootPending
  /\ cache.disabled
  /\ rootPending' = FALSE
  /\ rootPc' = "clearing"
  /\ rootObj' = cache
  /\ rootFresh' = (events = <<>>)
  /\ replaced' = FALSE
  /\ UNCHANGED <<outside, cache, tracked, rg, dropped, reenabled, actuated>>

\* reconcileDisabledResourceGroup: a stale copy is a conflict, and the
\* second try of RetryOnConflict finds the copy empty and returns nil.
RootClear ==
  /\ rootPc = "clearing"
  /\ api.phase # "gone" \/ rootObj.status = EmptyStatus
  /\ RootReturns
  /\ tracked' = FALSE
  /\ IF rootObj.status # EmptyStatus /\ rootFresh
     THEN Write([api EXCEPT !.status = EmptyStatus]) /\ rgFresh' = FALSE /\ actuated' = FALSE
     ELSE UNCHANGED <<api, events, rgFresh, actuated>>
  /\ UNCHANGED <<live, changes, cache, rootPending, rgPending, rgPc, rgObj, newStatus, dropped,
                 reenabled, replaced>>

\* Update returns another error, as it does if there is no object any more:
\* the request is queued again.
RootClearFails ==
  /\ rootPc = "clearing"
  /\ rootObj.status # EmptyStatus
  /\ RootReturns
  /\ rootPending' = TRUE
  /\ UNCHANGED <<outside, cache, tracked, rg, history>>

-----------------------------------------------------------------------------
(* The ResourceGroup controller: reconcileKpt.                             *)

Read ==
  /\ rgPc = "idle"
  /\ rgPending
  /\ cache.phase = "alive"
  /\ rgPending' = FALSE
  /\ rgPc' = "read"
  /\ rgObj' = cache
  /\ rgFresh' = (events = <<>>)
  /\ UNCHANGED <<outside, cache, root, tracked, newStatus, history>>

\* Bug: that the group is not found is an error, which is tried again.
ReadGoneFails ==
  /\ rgPc = "idle"
  /\ rgPending
  /\ cache.phase # "alive"
  /\ rgPending' = (cache.phase = "gone")
  /\ UNCHANGED <<outside, cache, root, tracked, rgPc, rgObj, rgFresh, newStatus, history>>

\* Not found, or a deletion timestamp: there is nothing to do.
ReadGone ==
  /\ rgPc = "idle"
  /\ rgPending
  /\ cache.phase # "alive"
  /\ rgPending' = FALSE
  /\ UNCHANGED <<outside, cache, root, tracked, rgPc, rgObj, rgFresh, newStatus, history>>

\* Bug: a conflict is answered with the version of the object as it is now.
UpdateStatusAnyway(status) ==
  /\ api.phase # "gone"
  /\ Write([api EXCEPT !.status = status])
  /\ rootFresh' = FALSE
  /\ dropped' = FALSE
  /\ UNCHANGED <<live, changes, cache, rootPending, rootPc, rootObj, tracked, rgPending,
                 reenabled, replaced>>

\* updateStatusKptGroup without an error from the server.  A conflict is
\* not an error: resgroup.Status was assigned before the failed Update, so
\* that the second try finds nothing to write and returns nil.
UpdateStatus(status) ==
  /\ api.phase # "gone"
  /\ IF rgFresh
     THEN Write([api EXCEPT !.status = status]) /\ rootFresh' = FALSE
     ELSE UNCHANGED <<api, events, rootFresh>>
  /\ dropped' = ~rgFresh
  /\ UNCHANGED <<live, changes, cache, rootPending, rootPc, rootObj, tracked, rgPending,
                 reenabled, replaced>>

\* startReconcilingStatus
StartingStatus == [rgObj.status EXCEPT !.conditions = "Reconciling"]

\* Bug: the copy that is updated is not the one that is read afterwards.
StartWithCopy ==
  /\ rgPc = "read"
  /\ rgPc' = "started"
  /\ UpdateStatus(StartingStatus)
  /\ UNCHANGED <<rgObj, rgFresh, newStatus, actuated>>

\* The status is assigned, whether the update is a conflict or not.
Start ==
  /\ rgPc = "read"
  /\ rgPc' = "started"
  /\ UpdateStatus(StartingStatus)
  /\ rgObj' = [rgObj EXCEPT !.status = StartingStatus]
  /\ UNCHANGED <<rgFresh, newStatus, actuated>>

\* computeStatus: what the applier wrote is kept and the rest is computed.
ComputedStatus ==
  LET old == rgObj.status.resource
      new == IF old = NoEntry THEN [status |-> live, actuation |-> "", reconcile |-> ""]
             ELSE [old EXCEPT !.status = live]
  IN [new EXCEPT !.status = Legacy(new)]

\* aggregateResourceStatuses
Aggregated(resource) == IF resource.status = "Failed" THEN "ComponentFailed" ELSE "Finished"

Finish ==
  /\ rgPc = "started"
  /\ rgPc' = "computed"
  /\ newStatus' = [observed |-> rgObj.generation, resource |-> ComputedStatus,
                   conditions |-> Aggregated(ComputedStatus)]
  /\ UNCHANGED <<outside, cache, root, tracked, rgPending, rgObj, rgFresh, history>>

\* The goroutine of line 211 goes on after the timeout.  It shares newStatus
\* without a lock: until line 235 copies it, it may replace the old statuses.
ExceedTimeout ==
  /\ rgPc = "started"
  /\ rgPc' = "computed"
  /\ \E resource \in {rgObj.status.resource, ComputedStatus} :
       newStatus' = [observed |-> rgObj.status.observed, resource |-> resource,
                     conditions |-> "ExceedTimeout"]
  /\ UNCHANGED <<outside, cache, root, tracked, rgPending, rgObj, rgFresh, history>>

Publish ==
  /\ rgPc = "computed"
  /\ UpdateStatus(newStatus)
  /\ ControllerReturns
  /\ actuated' = (actuated /\ ~rgFresh)
  /\ UNCHANGED newStatus

\* Bug: the error is logged and not returned.
UpdateFailsSilently ==
  /\ rgPc \in {"read", "computed"}
  /\ ControllerReturns
  /\ UNCHANGED <<outside, cache, root, tracked, rgPending, newStatus, history>>

\* Either Update returns an error that is not a conflict, as it does if there
\* is no object any more.
UpdateFails ==
  /\ rgPc \in {"read", "computed"}
  /\ ControllerReturns
  /\ rgPending' = TRUE
  /\ UNCHANGED <<outside, cache, root, tracked, newStatus, history>>

-----------------------------------------------------------------------------

Next ==
  \/ ChangeSpec \/ Disable \/ Enable \/ Delete \/ Finalize \/ Create \/ Restart
  \/ \E a \in Actuations : Actuate(a)
  \/ \E s \in Computed : ChangeResource(s)
  \/ Deliver \/ Relist
  \/ RootReconcile \/ RootForget \/ RootReadDisabled \/ RootClear \/ RootClearFails
  \/ Read \/ ReadGone \/ Start \/ Finish \/ ExceedTimeout \/ Publish \/ UpdateFails

Spec == Init /\ [][Next]_vars

(***************************************************************************)
(* The informer, the queues and the workers go on.  SF: the API server     *)
(* does not refuse every update, not every reconcile takes too long, and   *)
(* it is not the reconciles that finish whose updates are refused.         *)
(* Nothing outside has to happen.                                          *)
(***************************************************************************)
PublishFinished == newStatus.conditions # "ExceedTimeout" /\ Publish

Fairness ==
  /\ WF_vars(Deliver)
  /\ WF_vars(RootReconcile) /\ WF_vars(RootForget) /\ WF_vars(RootReadDisabled)
  /\ WF_vars(RootClearFails)
  /\ WF_vars(Read) /\ WF_vars(ReadGone) /\ WF_vars(UpdateFails)
  /\ SF_vars(RootClear) /\ SF_vars(Start) /\ SF_vars(Finish)
  /\ WF_vars(Publish) /\ SF_vars(PublishFinished)

FairSpec == Spec /\ Fairness

-----------------------------------------------------------------------------
(* Properties.                                                             *)

\* The status says what the spec, the applier and the resource say.
StatusIsCurrent ==
  LET r == api.status.resource IN r # NoEntry /\ r.status = Legacy([r EXCEPT !.status = live])

UpToDate ==
  /\ api.status.observed = api.generation
  /\ api.status.conditions \in {"Finished", "ComponentFailed"}
  /\ StatusIsCurrent

\* Nothing in the program will happen by itself any more.
Quiet == events = <<>> /\ ~rootPending /\ rootPc = "idle" /\ ~rgPending /\ rgPc = "idle"

\* The ways in which the code stops short of an up to date status.
StopsShort == dropped \/ reenabled \/ replaced

(***************************************************************************)
(* When the program has come to rest an enabled group is tracked and its   *)
(* status is published: no order of events, requests, failed updates,      *)
(* timeouts and restarts makes the filter swallow the last reason to       *)
(* reconcile, except for a vanished update, for a removed annotation and   *)
(* for an actuation that leaves the masked status as it is.                *)
(***************************************************************************)
RestMeansPublished ==
  Quiet /\ api.phase = "alive" /\ ~api.disabled /\ ~StopsShort =>
    /\ tracked
    /\ api.status.observed = api.generation
    /\ api.status.conditions = "Finished"
    /\ ~NeedsUpdate(api.status.resource)
    /\ StatusIsCurrent \/ actuated

(***************************************************************************)
(* When the program has come to rest a disabled group has nothing in its   *)
(* status that the program wrote and is not tracked, although neither      *)
(* reconcileKpt nor the requests that are under way look at the            *)
(* annotation, and a conflict makes Root's own update vanish too.  What    *)
(* the applier adds to a status without conditions stays, as the filter    *)
(* looks at nothing else (root_controller.go:263-265).                     *)
(***************************************************************************)
RestMeansCleared ==
  Quiet /\ api.disabled =>
    /\ [api.status EXCEPT !.resource = NoEntry] = EmptyStatus
    /\ api.status.resource = NoEntry \/ actuated
    /\ ~tracked \/ dropped \/ replaced

(***************************************************************************)
(* When the program has come to rest it does not track a group that is     *)
(* gone or being deleted, whatever reconciles and requests of the group    *)
(* the deletion has met (root_controller.go:105-120), but for an object    *)
(* that has replaced another unnoticed.                                    *)
(***************************************************************************)
RestMeansForgotten == Quiet /\ api.phase # "alive" => ~tracked \/ replaced

(***************************************************************************)
(* What the controller writes is true of the object it replaces: the       *)
(* generation it has observed is that of the object, and the applier's     *)
(* fields are as the applier left them.  It writes nothing to an object    *)
(* that is being deleted.  All this comes from a copy that may be a whole  *)
(* reconcile old (resourcegroup_controller.go:105-126).                    *)
(***************************************************************************)
WritesMatchObject ==
  [][(Start \/ Publish) /\ api' # api =>
       /\ api.phase = "alive"
       /\ api'.status.observed \in {api.status.observed, api.generation}
       /\ api'.status.conditions \in {"Finished", "ComponentFailed"}
            => api'.status.observed = api.generation
       /\ api.status.resource # NoEntry
            => api'.status.resource = [api.status.resource EXCEPT !.status =
                                         api'.status.resource.status]]_vars

(***************************************************************************)
(* Who reads the object sees what StatusProtocol says: however old the     *)
(* copies are that the two controllers write back, a reconcile ends only   *)
(* on the object, and for the generation, that it has begun with           *)
(* (resourcegroup_controller.go:118-126).                                  *)
(***************************************************************************)
Protocol ==
  INSTANCE StatusProtocol WITH
    generation <- api.generation,
    observed <- api.status.observed,
    conditions <- api.status.conditions

ImplementsProtocol == Protocol!Spec

(***************************************************************************)
(* An enabled group gets an up to date status in the end.                  *)
(***************************************************************************)
GetsUpToDate ==
  ~UpToDate ~> (UpToDate \/ api.phase # "alive" \/ api.disabled \/ StopsShort \/ actuated)

(***************************************************************************)
(* The filter "prevents the controller from generating an infinite loop of *)
(* reconcilers" (root_controller.go:243-244), although each reconcile      *)
(* writes the object twice: only a stalled group is tried again for ever.  *)
(***************************************************************************)
ComesToRest == []<>Quiet \/ []<>StalledTrue(newStatus)


(***************************************************************************)
(* The filter "ensure[s] the legacy status field aligns with the new       *)
(* actuation/reconcile status fields" (root_controller.go:277-278).  It    *)
(* compares them with the published status, which an earlier actuation has *)
(* replaced, and not with the one that was computed.                       *)
(***************************************************************************)
StatusAlignsWithActuation ==
  Quiet /\ api.phase = "alive" /\ ~api.disabled /\ ~StopsShort => StatusIsCurrent

=============================================================================
