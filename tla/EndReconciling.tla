--------------------------- MODULE EndReconciling ---------------------------
(***************************************************************************)
(* reconcileKpt of the ResourceGroup controller from the inside: a worker  *)
(* that starts one goroutine for each reconcile, waits for it or for the   *)
(* timeout, and writes what they made of newStatus.  A goroutine whose     *)
(* reconcile has timed out goes on by itself: it computes statuses, caches *)
(* them, records the pipeline error and stores into its newStatus.         *)
(*                                                                         *)
(* There is one ResourceGroup, its resources and its subgroups, which are  *)
(* resources of kind ResourceGroup.  The statuses of one resource take one *)
(* step (StatusCache looks inside), and so does the final update of the    *)
(* object, which vanishes if the object has changed since it was read; the *)
(* loop around the reconciles is that of GroupStatus.                      *)
(***************************************************************************)
EXTENDS StatusRules, FiniteSets, Functions

CONSTANTS
  Resources,      \* the resources and the subgroups
  CNRM,           \* those of Config Connector
  Specs,          \* .spec: [resources, subgroups]
  Id,             \* the inventory ID of the group
  Objects,        \* for each resource, what kstatus and the annotations may say of its object
  ObjectConditions,  \* the conditions that objects have
  Applied,        \* [actuation, reconcile] records that the applier writes
  MaxReconciles,  \* bound on the reconciles
  MaxChanges,     \* bound on the changes of the group, the objects and the cache
  None

ASSUME CNRMAssumption == CNRM \subseteq Resources
ASSUME SpecsAssumption == \A s \in Specs : s.resources \in Seq(Resources) /\ s.subgroups \in Seq(Resources)
\* What kstatus returns, and no condition of an object that is the controller's.
ASSUME ObjectsAssumption ==
  \A r \in Resources : \A o \in Objects[r] :
    /\ o.kstatus \in StatusValues \cup {"error"}
    /\ o.conditions \in Seq(ObjectConditions) /\ o.ownConditions \in Seq(ObjectConditions)
ASSUME ConditionsAssumption == \A c \in ObjectConditions : c.type # "OwnershipOverlap"
ASSUME AppliedAssumption == Applied \subseteq [actuation : ActuationValues, reconcile : ReconcileValues]
ASSUME BoundsAssumption == MaxReconciles \in Nat /\ MaxChanges \in Nat

VARIABLES
  group,        \* [generation, spec, status]
  history,      \* the spec of each generation; only the properties read it
  objects,      \* the object of each resource, or None
  cache,        \* resToStatus
  changes,
  goroutines,   \* of each reconcile so far, what it closes over and its own variables
  \* The worker and its reconcile, the last one.
  worker,       \* "idle", "waiting", "returning"
  copy,         \* the group as reconcileKpt read it
  fresh,        \* the group has not changed since
  newStatus,    \* of endReconcilingStatus: the worker and one goroutine share it
  \* Metrics.
  pipelineError,
  recorder      \* the reconcile whose goroutine recorded it; 0 for none

outside == <<group, history, objects, changes>>
reconcile == <<worker, copy, fresh, newStatus>>
metrics == <<pipelineError, recorder>>
vars == <<outside, cache, goroutines, reconcile, metrics>>

-----------------------------------------------------------------------------

EmptyStatus == [observed |-> 0, resources |-> <<>>, subgroups |-> <<>>, conditions |-> <<>>]

NoGroup == [generation |-> 0, spec |-> None, status |-> EmptyStatus]

CachedStatuses(r) == {ComputeStatus(o) : o \in Objects[r]}
Missing == [status |-> "NotFound", conditions |-> <<>>, inventory |-> ""]

\* ToGroupStatuses
GroupStatusOf(entry) ==
  [resource |-> entry.resource, status |-> entry.status, conditions |-> entry.conditions]
ToGroupStatuses(entries) == [i \in DOMAIN entries |-> GroupStatusOf(entries[i])]

Init ==
  /\ \E s \in Specs :
       /\ group = [generation |-> 1, spec |-> s, status |-> EmptyStatus]
       /\ history = <<s>>
  /\ objects \in {f \in [Resources -> UNION Range(Objects)] : \A r \in Resources : f[r] \in Objects[r]}
  /\ cache = [r \in Resources |-> None]
  /\ changes = 0
  /\ goroutines = <<>>
  /\ worker = "idle"
  /\ copy = NoGroup
  /\ fresh = FALSE
  /\ newStatus = EmptyStatus
  /\ pipelineError = FALSE
  /\ recorder = 0

-----------------------------------------------------------------------------
(* Outside.                                                                *)

Outside ==
  /\ changes < MaxChanges
  /\ changes' = changes + 1
  /\ UNCHANGED <<goroutines, worker, copy, newStatus, metrics>>

ChangeSpec ==
  /\ Outside
  /\ \E s \in Specs \ {group.spec} :
       /\ group' = [group EXCEPT !.generation = @ + 1, !.spec = s]
       /\ history' = Append(history, s)
  /\ fresh' = FALSE
  /\ UNCHANGED <<objects, cache>>

\* The applier records what it did with a resource.
Actuate ==
  /\ Outside
  /\ \E i \in DOMAIN group.status.resources, a \in Applied :
       group' = [group EXCEPT !.status.resources[i] =
                  [@ EXCEPT !.actuation = a.actuation, !.reconcile = a.reconcile]]
  /\ fresh' = FALSE
  /\ UNCHANGED <<history, objects, cache>>

\* An object changes and its watcher caches the status.
ChangeObject ==
  /\ Outside
  /\ \E r \in Resources : \E o \in Objects[r] \cup {None} :
       /\ o # objects[r]
       /\ objects' = [objects EXCEPT ![r] = o]
       /\ cache' = [cache EXCEPT ![r] = IF o = None THEN Missing ELSE ComputeStatus(o)]
  /\ UNCHANGED <<group, history, fresh>>

-----------------------------------------------------------------------------
(* The goroutines: g is one of them.                                       *)

count == Len(goroutines)
Started(spec, old) ==
  [pc |-> "resources", spec |-> spec, old |-> old, statuses |-> <<>>, hasErr |-> FALSE]
Closed == [pc |-> "closed", spec |-> None, old |-> <<>>, statuses |-> <<>>, hasErr |-> FALSE]

Metas(g) == IF g.pc = "resources" THEN g.spec.resources ELSE g.spec.subgroups
Computed(g) == g.pc # "closed" /\ Len(g.statuses) = Len(Metas(g))
Computing(g) == g.pc # "closed" /\ ~Computed(g)
NextMeta(g) == Metas(g)[Len(g.statuses) + 1]

\* computeStatus for one resource: the cached status, or that of the object.
CachedNow(r) ==
  IF cache[r] = None /\ objects[r] # None THEN ComputeStatus(objects[r]) ELSE cache[r]
Entry(r) ==
  IF CachedNow(r) = None THEN BareStatus(r, "NotFound") ELSE SetResStatus(Id, r, CachedNow(r))
AppendEntry(c, entry) ==
  /\ goroutines' = [goroutines EXCEPT
       ![c].statuses = Append(@, WithActuation(entry, goroutines[c].old)),
       ![c].hasErr = @ \/ IsError(entry, entry.resource \in CNRM)]
  /\ UNCHANGED <<outside, reconcile, metrics>>

\* Bug: the ownership is appended to the conditions in the cache.
ComputeNextInPlace(c) ==
  /\ Computing(goroutines[c])
  /\ LET r == NextMeta(goroutines[c])
     IN /\ AppendEntry(c, Entry(r))
        /\ cache' = [cache EXCEPT ![r] =
             IF CachedNow(r) = None THEN None
             ELSE [CachedNow(r) EXCEPT !.conditions = Entry(r).conditions]]

ComputeNext(c) ==
  /\ Computing(goroutines[c])
  /\ LET r == NextMeta(goroutines[c])
     IN AppendEntry(c, Entry(r)) /\ cache' = [cache EXCEPT ![r] = CachedNow(r)]

\* Get returns an error that is not NotFound.
ComputeNextFails(c) ==
  /\ Computing(goroutines[c])
  /\ LET r == NextMeta(goroutines[c])
     IN cache[r] = None /\ AppendEntry(c, BareStatus(r, "Unknown"))
  /\ UNCHANGED cache

\* Each reconcile has a newStatus of its own; when it has returned, nobody
\* reads it any more.
Store(c, status) ==
  newStatus' = IF c = count /\ worker # "idle" THEN status ELSE newStatus

\* The end of computeResourceStatuses, with its metric, and the assignment.
\* Bug: the reconciles share newStatus.
StoreResourcesShared(c) ==
  LET g == goroutines[c]
  IN /\ g.pc = "resources" /\ Computed(g)
     /\ goroutines' = [goroutines EXCEPT ![c] = [Started(g.spec, g.old) EXCEPT !.pc = "subgroups"]]
     /\ newStatus' = [newStatus EXCEPT !.resources = g.statuses]
     /\ pipelineError' = g.hasErr
     /\ recorder' = c
     /\ UNCHANGED <<outside, cache, worker, copy, fresh>>

StoreResources(c) ==
  LET g == goroutines[c]
  IN /\ g.pc = "resources" /\ Computed(g)
     /\ goroutines' = [goroutines EXCEPT ![c] = [Started(g.spec, g.old) EXCEPT !.pc = "subgroups"]]
     /\ Store(c, [newStatus EXCEPT !.resources = g.statuses])
     /\ pipelineError' = g.hasErr
     /\ recorder' = c
     /\ UNCHANGED <<outside, cache, worker, copy, fresh>>

\* Bugs: a channel that has to be received from instead of one that is
\* closed; the subgroups record the metric too.
StoreSubgroupsAndSend(c) ==
  LET g == goroutines[c]
  IN /\ g.pc = "subgroups" /\ Computed(g)
     /\ c = count /\ worker = "waiting"
     /\ goroutines' = [goroutines EXCEPT ![c] = Closed]
     /\ Store(c, [newStatus EXCEPT !.subgroups = ToGroupStatuses(g.statuses)])
     /\ UNCHANGED <<outside, cache, worker, copy, fresh, metrics>>

StoreSubgroupsRecording(c) ==
  LET g == goroutines[c]
  IN /\ g.pc = "subgroups" /\ Computed(g)
     /\ goroutines' = [goroutines EXCEPT ![c] = Closed]
     /\ Store(c, [newStatus EXCEPT !.subgroups = ToGroupStatuses(g.statuses)])
     /\ pipelineError' = g.hasErr
     /\ recorder' = c
     /\ UNCHANGED <<outside, cache, worker, copy, fresh>>

\* The end of computeSubGroupStatuses, the assignment and close(finish)
StoreSubgroups(c) ==
  LET g == goroutines[c]
  IN /\ g.pc = "subgroups" /\ Computed(g)
     /\ goroutines' = [goroutines EXCEPT ![c] = Closed]
     /\ Store(c, [newStatus EXCEPT !.subgroups = ToGroupStatuses(g.statuses)])
     /\ UNCHANGED <<outside, cache, worker, copy, fresh, metrics>>

-----------------------------------------------------------------------------
(* The worker: reconcileKpt and endReconcilingStatus.                      *)

\* startReconcilingStatus and its update, and the start of the goroutine
Begin ==
  /\ worker = "idle"
  /\ count < MaxReconciles
  /\ group' = [group EXCEPT !.status.conditions = AdjustConditionOrder(StartConditions)]
  /\ copy' = group'
  /\ fresh' = TRUE
  /\ newStatus' = EmptyStatus
  /\ goroutines' = Append(goroutines, Started(group.spec, group.status.resources))
  /\ worker' = "waiting"
  /\ UNCHANGED <<history, objects, changes, cache, metrics>>

Finish ==
  /\ worker = "waiting"
  /\ goroutines[count].pc = "closed"
  /\ worker' = "returning"
  /\ newStatus' = [newStatus EXCEPT !.observed = copy.generation,
                                    !.conditions = FinishConditions(newStatus.resources)]
  /\ UNCHANGED <<outside, cache, goroutines, copy, fresh, metrics>>

\* Bug: after the timeout the generation counts as observed.
ExceedTimeoutObserved ==
  /\ worker = "waiting"
  /\ worker' = "returning"
  /\ newStatus' = [copy.status EXCEPT !.observed = copy.generation,
                                     !.conditions = TimeoutConditions]
  /\ UNCHANGED <<outside, cache, goroutines, copy, fresh, metrics>>

\* The timer of line 222, whatever the goroutine has done.
ExceedTimeout ==
  /\ worker = "waiting"
  /\ worker' = "returning"
  /\ newStatus' = [copy.status EXCEPT !.conditions = TimeoutConditions]
  /\ UNCHANGED <<outside, cache, goroutines, copy, fresh, metrics>>

\* A slice is a pointer and a length: a copy made while the goroutine stores
\* one may have either of each, and past the end of the array anything.
Beyond == BareStatus(None, "Unknown")
Slice(s, length) == [i \in 1..length |-> IF i <= Len(s) THEN s[i] ELSE Beyond]
Copies(old, storing, new) ==
  IF storing THEN {Slice(s, Len(t)) : s \in {old, new}, t \in {old, new}} ELSE {old}

\* The return of the struct, and updateStatusKptGroup: a conflict is no error.
Return ==
  /\ worker = "returning"
  /\ worker' = "idle"
  /\ fresh' = FALSE
  /\ newStatus' = EmptyStatus
  /\ copy' = NoGroup
  /\ LET g == goroutines[count]
         Written(resources, subgroups) ==
           [observed |-> newStatus.observed, resources |-> resources, subgroups |-> subgroups,
            conditions |-> AdjustConditionOrder(newStatus.conditions)]
     IN \E resources \in Copies(newStatus.resources, g.pc = "resources" /\ Computed(g), g.statuses),
           subgroups \in Copies(newStatus.subgroups, g.pc = "subgroups" /\ Computed(g),
                                ToGroupStatuses(g.statuses)) :
          group' = IF fresh THEN [group EXCEPT !.status = Written(resources, subgroups)] ELSE group
  /\ UNCHANGED <<history, objects, changes, cache, goroutines, metrics>>

-----------------------------------------------------------------------------

Goroutine(c) ==
  ComputeNext(c) \/ ComputeNextFails(c) \/ StoreResources(c) \/ StoreSubgroups(c)

Next ==
  \/ ChangeSpec \/ Actuate \/ ChangeObject
  \/ Begin \/ Finish \/ ExceedTimeout \/ Return
  \/ \E c \in 1..count : Goroutine(c)

Spec == Init /\ [][Next]_vars

-----------------------------------------------------------------------------
(* Properties.                                                             *)

Entries == [resource : Resources \cup {None}, status : StatusValues,
            actuation : ActuationValues, reconcile : ReconcileValues,
            conditions : Seq(ObjectConditions \cup Conditions)]

TypeOK ==
  /\ group.generation = Len(history) /\ group.spec = history[Len(history)]
  /\ group.status.observed \in 0..group.generation
  /\ Range(group.status.resources) \subseteq Entries
  /\ \A r \in Resources : objects[r] \in Objects[r] \cup {None}
  /\ \A r \in Resources : cache[r] \in CachedStatuses(r) \cup {Missing, None}
  /\ count \in 0..MaxReconciles
  /\ \A c \in 1..count : Range(goroutines[c].statuses) \subseteq Entries
  /\ fresh /\ worker # "idle" => copy = group
  /\ worker \in {"idle", "waiting", "returning"}
  /\ recorder \in 0..count /\ pipelineError \in BOOLEAN

FinishedStatus(status) ==
  status.conditions # <<>> /\ status.conditions[1].reason = "FinishReconciling"
Ids(entries) == [i \in DOMAIN entries |-> entries[i].resource]

(***************************************************************************)
(* A status that says it is finished is whole: it lists the resources and  *)
(* the subgroups of the generation it has observed, in their order, and it *)
(* is stalled if and only if it shows a failed resource.  No goroutine of  *)
(* a reconcile that has timed out gets its results into a later one        *)
(* ("make sure the former setting of newStatus does not carry over",       *)
(* resourcegroup_controller.go:205).                                       *)
(***************************************************************************)
FinishedIsWhole ==
  FinishedStatus(group.status) =>
    /\ Ids(group.status.resources) = history[group.status.observed].resources
    /\ Ids(group.status.subgroups) = history[group.status.observed].subgroups
    /\ IsConditionTrue("Stalled", group.status.conditions) <=>
         \E i \in DOMAIN group.status.resources : group.status.resources[i].status = "Failed"

(***************************************************************************)
(* The ownership of a resource is said once, however often and for however *)
(* many statuses its cached conditions are used (setResStatus copies them: *)
(* the groups that include the resource have different inventory IDs).     *)
(***************************************************************************)
Owned(entries) ==
  \A i \in DOMAIN entries : Cardinality(Positions(entries[i].conditions, "OwnershipOverlap")) <= 1
OwnershipIsSaidOnce == Owned(group.status.resources) /\ Owned(group.status.subgroups)

(***************************************************************************)
(* A reconcile that shows a failed resource has recorded a pipeline error, *)
(* and nothing but the goroutine of another reconcile has overwritten it   *)
(* ("the subgroup is always 0 and can overwrite the resource status",      *)
(* resourcegroup_controller.go:349).                                       *)
(***************************************************************************)
FailureIsRecorded ==
  FinishedStatus(newStatus) /\ IsConditionTrue("Stalled", newStatus.conditions)
    /\ recorder = count => pipelineError

(***************************************************************************)
(* The reconcile does what StatusProtocol says, whatever its goroutine and *)
(* the earlier ones do: it ends what it has begun, and a generation whose  *)
(* reconcile has timed out does not count as observed, although the status *)
(* that is written may have the new statuses of it                         *)
(* (resourcegroup_controller.go:216-231).                                  *)
(***************************************************************************)
PairName(pair) ==
  CASE pair = <<>> -> "none"
    [] pair = StartConditions -> "Reconciling"
    [] pair = TimeoutConditions -> "ExceedTimeout"
    [] OTHER -> IF IsConditionTrue("Stalled", pair) THEN "ComponentFailed" ELSE "Finished"

Protocol ==
  INSTANCE StatusProtocol WITH
    generation <- group.generation,
    observed <- group.status.observed,
    conditions <- PairName(group.status.conditions)

ImplementsProtocol == Protocol!Spec

(***************************************************************************)
(* No goroutine waits for a worker that does not wait for it any more: it  *)
(* can go on by itself until it ends (finish is closed, not sent to, and   *)
(* the worker may have taken the timeout, resourcegroup_controller.go:210).*)
(***************************************************************************)
GoroutinesNeverWait ==
  \A c \in 1..count : goroutines[c].pc # "closed" => ENABLED Goroutine(c)

=============================================================================
