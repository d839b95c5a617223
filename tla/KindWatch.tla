----------------------------- MODULE KindWatch -----------------------------
(***************************************************************************)
(* Kinds that come and go, and what the program makes of it: the type      *)
(* resolver (controllers/typeresolver), the CRD event handler, the filter  *)
(* of Root's events, Root's updateWatches over the manager's UpdateWatches,*)
(* and computeStatus where no status is cached.                            *)
(*                                                                         *)
(* One CR includes one resource of each kind of its spec.  The resolver    *)
(* and Root have informers of CRDs of their own (one of unstructured, one  *)
(* of typed objects), and events come to them in any order.  UpdateWatches *)
(* is one step, as in Watches, which WatchManager implements; a reconcile  *)
(* of the ResourceGroup controller is one, too (its races with the         *)
(* watchers are in StatusCache).  A watcher that runs brings the last      *)
(* status of a changed object some time later or, as FilteredWatcher       *)
(* shows, never.                                                           *)
(***************************************************************************)
EXTENDS Naturals

CONSTANTS
  Kinds,
  Statuses,     \* of objects that exist
  NotFound,
  None,         \* no status cached or published
  MaxChanges    \* bound on what happens outside

ASSUME StatusAssumption == NotFound \notin Statuses /\ None \notin Statuses /\ None # NotFound
ASSUME ChangesAssumption == MaxChanges \in Nat

VARIABLES
  \* Outside.
  crd,            \* "absent", "created" or "established"
  discovery,      \* the kinds it lists, which follow the CRDs some time later
  object,
  reachable,      \* the discovery answers for all API groups
  spec,           \* the kinds of the CR
  changes,
  \* The type resolver.
  refreshPending,
  typeMapping,    \* the kinds in it
  unlearned,      \* kinds of which the last Refresh could not know, if no event is pending
                  \* (properties only)
  \* Root, the map and the manager.
  crdEvents,      \* CRDs whose creation or deletion Root's handler is to be told
  rootPending,
  rootPc,         \* "idle", or "watch" before UpdateWatches
  gvkMap,         \* what the last call of updateWatches asked for
  watcherMap,
  needsUpdate,
  unseen,         \* kinds of which a watcher has an event
  lost,           \* kinds of whose change no watcher will tell (properties only)
  \* The resource map.
  included,       \* the kinds of which it has a resource
  cached,
  \* The ResourceGroup controller.
  rgPending,
  published,
  unresolved      \* kinds published as NotFound as the resolver had none (properties only)

cluster == <<crd, discovery, object, reachable, spec, changes>>
resolver == <<refreshPending, typeMapping, unlearned>>
root == <<rootPending, rootPc, gvkMap>>
manager == <<watcherMap, needsUpdate, unseen, lost>>
resourceMap == <<included, cached>>
group == <<published, unresolved>>
vars == <<cluster, resolver, crdEvents, root, manager, resourceMap, rgPending, group>>

Manager == INSTANCE Watches WITH GVKs <- Kinds, watched <- watcherMap

Established == {k \in Kinds : crd[k] = "established"}

TypeOK ==
  /\ crd \in [Kinds -> {"absent", "created", "established"}]
  /\ discovery \subseteq Kinds
  /\ object \in [Kinds -> Statuses \cup {NotFound}]
  /\ changes \in 0..MaxChanges
  /\ rootPc \in {"idle", "watch"}
  /\ cached \in [Kinds -> Statuses \cup {NotFound, None}]
  /\ published \in [Kinds -> Statuses \cup {NotFound, None}]
  /\ spec \subseteq Kinds /\ typeMapping \subseteq Kinds /\ unlearned \subseteq Kinds
  /\ crdEvents \subseteq Kinds /\ gvkMap \subseteq Kinds /\ watcherMap \subseteq Kinds
  /\ unseen \subseteq watcherMap /\ lost \subseteq Kinds
  /\ included \subseteq Kinds /\ unresolved \subseteq Kinds
  /\ reachable \in BOOLEAN /\ refreshPending \in BOOLEAN
  /\ rootPending \in BOOLEAN /\ needsUpdate \in BOOLEAN /\ rgPending \in BOOLEAN
  /\ \A k \in Kinds : object[k] # NotFound => k \in Established \cap discovery

\* registerControllersForGroup refreshes the resolver before the controllers
\* start, and each informer begins with Create events.
Init ==
  /\ crd \in [Kinds -> {"absent", "established"}]
  /\ discovery = Established
  /\ object = [k \in Kinds |-> NotFound]
  /\ reachable \in BOOLEAN
  /\ spec \in SUBSET Kinds
  /\ changes = 0
  /\ refreshPending = (Established # {})
  /\ typeMapping = IF reachable THEN discovery ELSE {}
  /\ unlearned = {}
  /\ crdEvents = Established
  /\ rootPending = TRUE
  /\ rootPc = "idle"
  /\ gvkMap = {}
  /\ watcherMap = {}
  /\ needsUpdate = FALSE
  /\ unseen = {}
  /\ lost = {}
  /\ included = {}
  /\ cached = [k \in Kinds |-> None]
  /\ rgPending = FALSE
  /\ published = [k \in Kinds |-> None]
  /\ unresolved = {}

-----------------------------------------------------------------------------
(* Outside.                                                                *)

Change == changes < MaxChanges /\ changes' = changes + 1

\* What is told of the CRD of k.  Root's filter takes every update for one of
\* a ResourceGroup and drops this one: its handler never sees an update.
CRDEvent(k, type) ==
  /\ refreshPending' = TRUE
  /\ unlearned' = {}
  /\ crdEvents' = IF type = "Update" THEN crdEvents ELSE crdEvents \cup {k}

CreateCRD(k) ==
  /\ Change
  /\ crd[k] = "absent"
  /\ crd' = [crd EXCEPT ![k] = "created"]
  /\ CRDEvent(k, "Create")
  /\ UNCHANGED <<discovery, object, reachable, spec, typeMapping, root, manager, resourceMap,
                 rgPending, group>>

\* The condition Established is an update of the CRD.
Establish(k) ==
  /\ crd[k] = "created"
  /\ crd' = [crd EXCEPT ![k] = "established"]
  /\ CRDEvent(k, "Update")
  /\ UNCHANGED <<discovery, object, reachable, spec, changes, typeMapping, root, manager,
                 resourceMap, rgPending, group>>

\* The discovery has a new kind, or drops one that is gone, some time after
\* the CRD's event, and of that there is no event.
DiscoveryFollows(k) ==
  /\ (k \in discovery) # (k \in Established)
  /\ discovery' = IF k \in Established THEN discovery \cup {k} ELSE discovery \ {k}
  /\ UNCHANGED <<crd, object, reachable, spec, changes, resolver, crdEvents, root, manager,
                 resourceMap, rgPending, group>>

\* The object of k has the status s.
SetObject(k, s) ==
  /\ object' = [object EXCEPT ![k] = s]
  /\ IF k \in watcherMap
     THEN unseen' = unseen \cup {k} /\ UNCHANGED lost
     ELSE /\ lost' = IF s = NotFound THEN lost \cup {k} ELSE lost \ {k}
          /\ UNCHANGED unseen
  /\ UNCHANGED <<watcherMap, needsUpdate>>

\* The objects of a kind are deleted before its CRD.  The discovery still has it.
DeleteCRD(k) ==
  /\ Change
  /\ crd[k] # "absent"
  /\ crd' = [crd EXCEPT ![k] = "absent"]
  /\ IF object[k] = NotFound THEN UNCHANGED <<object, manager>> ELSE SetObject(k, NotFound)
  /\ CRDEvent(k, "Delete")
  /\ UNCHANGED <<discovery, reachable, spec, typeMapping, root, resourceMap,
                 rgPending, group>>

\* Objects are made of kinds that the discovery has.
ChangeObject(k, s) ==
  /\ Change
  /\ k \in Established \cap discovery
  /\ object[k] # s
  /\ SetObject(k, s)
  /\ UNCHANGED <<crd, discovery, reachable, spec, resolver, crdEvents, root, resourceMap, rgPending,
                 group>>

\* An API server behind the discovery fails, or is back.
ChangeDiscovery ==
  /\ Change
  /\ reachable' = ~reachable
  /\ UNCHANGED <<crd, discovery, object, spec, resolver, crdEvents, root, manager, resourceMap,
                 rgPending, group>>

\* Root gets a request for any update of the CR that its filter lets through.
Request ==
  /\ rootPending' = TRUE
  /\ UNCHANGED <<cluster, resolver, crdEvents, rootPc, gvkMap, manager, resourceMap, rgPending, group>>

ChangeSpec(S) ==
  /\ Change
  /\ S # spec
  /\ spec' = S
  /\ rootPending' = TRUE
  /\ UNCHANGED <<crd, discovery, object, reachable, resolver, crdEvents, rootPc, gvkMap, manager,
                 resourceMap, rgPending, group>>

-----------------------------------------------------------------------------
(* The type resolver.                                                      *)

\* The kinds in which the discovery has not followed the CRDs yet.
Behind == (Established \ discovery) \cup (discovery \ Established)

\* Bug: the new kinds are added to the old ones.
RefreshAdding ==
  /\ refreshPending
  /\ refreshPending' = FALSE
  /\ typeMapping' = IF reachable THEN typeMapping \cup discovery ELSE typeMapping
  /\ unlearned' = IF reachable THEN Behind ELSE Kinds
  /\ UNCHANGED <<cluster, crdEvents, root, manager, resourceMap, rgPending, group>>

\* It asks the discovery as it is by then.  A Refresh that fails returns no
\* error: it is not tried again.
Refresh ==
  /\ refreshPending
  /\ refreshPending' = FALSE
  /\ typeMapping' = IF reachable THEN discovery ELSE typeMapping
  /\ unlearned' = IF reachable THEN Behind ELSE Kinds
  /\ UNCHANGED <<cluster, crdEvents, root, manager, resourceMap, rgPending, group>>

-----------------------------------------------------------------------------
(* Root and the watches.                                                   *)

\* Bug: the map keeps the statuses of what has left the CR.
ReconcileKeepingStatuses ==
  LET gone == included \ spec IN
  /\ rootPc = "idle"
  /\ rootPending
  /\ rootPending' = FALSE
  /\ rootPc' = "watch"
  /\ gvkMap' = spec \cap typeMapping
  /\ included' = spec
  /\ lost' = lost \ gone
  /\ UNCHANGED <<cluster, resolver, crdEvents, watcherMap, needsUpdate, unseen, cached,
                 rgPending, group>>

\* Until here the map has what the CR listed the last time.
Reconcile ==
  LET gone == included \ spec IN
  /\ rootPc = "idle"
  /\ rootPending
  /\ rootPending' = FALSE
  /\ rootPc' = "watch"
  /\ gvkMap' = spec \cap typeMapping
  /\ included' = spec
  /\ cached' = [k \in Kinds |-> IF k \in gone THEN None ELSE cached[k]]
  /\ lost' = lost \ gone
  /\ UNCHANGED <<cluster, resolver, crdEvents, watcherMap, needsUpdate, unseen, rgPending, group>>

\* Bug: a new watcher begins with what changes next.
WatchKindsFromNow(failures) ==
  /\ Manager!Update(gvkMap, failures)
  /\ unseen' = unseen \cap gvkMap
  /\ lost' = lost \cup {k \in unseen \ gvkMap : object[k] = NotFound}

\* The watchers are those of gvkMap but for the failures.  A new one begins
\* with the objects that there are.
WatchKinds(failures) ==
  LET new == gvkMap \ (watcherMap \cup failures) IN
  /\ Manager!Update(gvkMap, failures)
  /\ unseen' = (unseen \cap gvkMap) \cup {k \in new : object[k] # NotFound}
  /\ lost' = lost \cup {k \in unseen \ gvkMap : object[k] = NotFound}

UpdateWatches ==
  /\ rootPc = "watch"
  /\ WatchKinds({})
  /\ rootPc' = "idle"
  /\ rgPending' = TRUE
  /\ UNCHANGED <<cluster, resolver, crdEvents, rootPending, gvkMap, resourceMap, group>>

\* Bugs: the error of a watcher that could not be made is not returned; it
\* only sets the flag.
UpdateWatchesQuietly ==
  /\ rootPc = "watch"
  /\ \E failures \in SUBSET gvkMap \ {{}} : WatchKinds(failures)
  /\ rootPc' = "idle"
  /\ rgPending' = TRUE
  /\ UNCHANGED <<cluster, resolver, crdEvents, rootPending, gvkMap, resourceMap, group>>

UpdateWatchesFlagging ==
  /\ rootPc = "watch"
  /\ watcherMap' = watcherMap \cap gvkMap
  /\ watcherMap' # gvkMap
  /\ needsUpdate' = TRUE
  /\ unseen' = unseen \cap gvkMap
  /\ rootPc' = "idle"
  /\ rgPending' = TRUE
  /\ UNCHANGED <<cluster, resolver, crdEvents, rootPending, gvkMap, lost, resourceMap, group>>

\* The error is returned: no event, and the request comes again.
UpdateWatchesFails ==
  /\ rootPc = "watch"
  /\ \E failures \in SUBSET gvkMap \ {{}} : WatchKinds(failures)
  /\ rootPc' = "idle"
  /\ rootPending' = TRUE
  /\ UNCHANGED <<cluster, resolver, crdEvents, gvkMap, resourceMap, rgPending, group>>

\* Bug: the events of a watcher that has ended are still handled.
WatcherEndsLate(k) ==
  /\ Manager!Fail(k)
  /\ UNCHANGED <<cluster, resolver, crdEvents, root, unseen, lost, resourceMap, rgPending, group>>

\* runWatcher.  A watcher of k that was stopped may end late: it takes the
\* place of another one with it, or only sets needsUpdate.
WatcherEnds(k) ==
  /\ Manager!Fail(k)
  /\ unseen' = unseen \ {k}
  /\ lost' = IF k \in unseen /\ object[k] = NotFound THEN lost \cup {k} ELSE lost
  /\ UNCHANGED <<cluster, resolver, crdEvents, root, resourceMap, rgPending, group>>

\* The status of k is cached, or forgotten, and the group is told.
SetStatus(k, s) ==
  /\ cached' = [cached EXCEPT ![k] = s]
  /\ rgPending' = TRUE
  /\ lost' = lost \ {k}

\* handle: an event of an object that is not in the map is ignored.
WatchEvent(k) ==
  /\ k \in unseen
  /\ unseen' = unseen \ {k}
  /\ IF k \in included THEN SetStatus(k, object[k])
     ELSE /\ lost' = IF object[k] = NotFound THEN lost \cup {k} ELSE lost
          /\ UNCHANGED <<cached, rgPending>>
  /\ UNCHANGED <<cluster, resolver, crdEvents, root, watcherMap, needsUpdate, included, group>>

\* Run begins anew and never has the event: the rest of the Added events of
\* a stream that ends, a deletion behind an expired version.
WatchLoses(k) ==
  /\ k \in unseen
  /\ unseen' = unseen \ {k}
  /\ lost' = lost \cup {k}
  /\ UNCHANGED <<cluster, resolver, crdEvents, root, watcherMap, needsUpdate, resourceMap, rgPending,
                 group>>

\* enqueueEvent, for the resources of the kind that are in the map
HandleCRD(k) ==
  /\ k \in crdEvents
  /\ crdEvents' = crdEvents \ {k}
  /\ IF k \in included THEN SetStatus(k, None) ELSE UNCHANGED <<cached, rgPending, lost>>
  /\ UNCHANGED <<cluster, resolver, root, watcherMap, needsUpdate, unseen, included, group>>

-----------------------------------------------------------------------------
(* The ResourceGroup controller.                                           *)

\* The kinds of the CR that have no cached status are published as found if
\* they are resolved, else as NotFound, which is not cached.
Publish ==
  /\ published' = [k \in Kinds |-> IF k \notin spec THEN None
                                   ELSE IF cached'[k] # None THEN cached'[k] ELSE NotFound]
  /\ unresolved' = {k \in spec : cached[k] = None /\ k \notin typeMapping}

ReconcileGroup ==
  /\ rgPending
  /\ rgPending' = FALSE
  /\ cached' = [k \in Kinds |->
                 IF k \in spec \cap typeMapping /\ cached[k] = None /\ object[k] # NotFound
                 THEN object[k] ELSE cached[k]]
  /\ Publish
  /\ UNCHANGED <<cluster, resolver, crdEvents, root, manager, included>>

-----------------------------------------------------------------------------

Next ==
  \/ \E k \in Kinds : \/ CreateCRD(k) \/ Establish(k) \/ DeleteCRD(k) \/ DiscoveryFollows(k)
                      \/ \E s \in Statuses \cup {NotFound} : ChangeObject(k, s)
                      \/ WatcherEnds(k) \/ WatchEvent(k) \/ WatchLoses(k) \/ HandleCRD(k)
  \/ ChangeDiscovery
  \/ \E S \in SUBSET Kinds : ChangeSpec(S)
  \/ Request
  \/ Refresh
  \/ Reconcile \/ UpdateWatches \/ UpdateWatchesFails
  \/ ReconcileGroup

Spec == Init /\ [][Next]_vars

\* A call of UpdateWatches makes the watcher of k, which the discovery has.
Makes(k) ==
  /\ rootPc = "watch" /\ k \in discovery \ watcherMap
  /\ UpdateWatches \/ UpdateWatchesFails
  /\ k \in watcherMap'

\* Root goes on, and such a watcher can be made in the end (SF).  The REST
\* mapping of a kind that is gone may fail for ever.
Fairness == WF_vars(Reconcile) /\ \A k \in Kinds : SF_vars(Makes(k))

FairSpec == Spec /\ Fairness

-----------------------------------------------------------------------------
(* Properties.                                                             *)

Quiet ==
  /\ ~refreshPending /\ crdEvents = {}
  /\ ~rootPending /\ rootPc = "idle"
  /\ unseen = {} /\ ~rgPending

(***************************************************************************)
(* The resolver follows the CRDs: once the events are handled it has the   *)
(* kinds that are established and no other, but for a failed Refresh and   *)
(* for a kind in which the discovery was behind its CRD when the last      *)
(* Refresh asked.  Such a kind may be missing for ever, or stay for ever   *)
(* although it is gone (typeresolver.go:41-45, 79-84).                     *)
(***************************************************************************)
MappingIsCurrent ==
  ~refreshPending => typeMapping \ unlearned = Established \ unlearned

(***************************************************************************)
(* Between reconciles the watched kinds are those that the last one has    *)
(* resolved.  If one of them is missing, then Root will try again or       *)
(* needsUpdate is set (manager.go:196), which nobody reads.                *)
(***************************************************************************)
MissingIsRetriedOrFlagged ==
  rootPc = "idle" =>
    watcherMap \subseteq gvkMap /\ (gvkMap \subseteq watcherMap \/ rootPending \/ needsUpdate)

(***************************************************************************)
(* At rest what is published of a watched kind is true, in whatever order  *)
(* CRDs, their events, discoveries, watchers and reconciles come, but for  *)
(* a change that no watcher has seen, and for a kind that was not resolved *)
(* when the group was last reconciled                                      *)
(* (resourcegroup_controller.go:296-305).                                  *)
(***************************************************************************)
WatchedIsTrue ==
  Quiet => \A k \in (spec \cap watcherMap) \ (lost \cup unresolved) : published[k] = object[k]

(***************************************************************************)
(* What Root has asked for gets watched although making a watcher fails,   *)
(* unless it is not served: Root asks on for a kind that is gone and that  *)
(* the resolver still has (root_controller.go:139-142, manager.go:137-153).*)
(***************************************************************************)
AskedGetsWatched ==
  \A k \in Kinds : (rootPc = "watch" /\ k \in gvkMap) ~>
                     (k \in watcherMap \/ k \notin spec \/ k \notin typeMapping \/ k \notin discovery)

=============================================================================
