-------------------------- MODULE KindWatchProofs --------------------------
(***************************************************************************)
(* The types of KindWatch, and what the resolver and the manager keep, for *)
(* any kinds, statuses and number of changes: each of these two is         *)
(* inductive, with the types and by itself.  That what is published is     *)
(* true is not: it needs to know where the status of each object is on its *)
(* way, from the watcher to the map and from the map to the CR.            *)
(***************************************************************************)
EXTENDS KindWatch, TLAPS

-----------------------------------------------------------------------------
(* The types.                                                              *)

LEMMA InitTypes == Init => TypeOK
<1> SUFFICES ASSUME Init PROVE TypeOK
  OBVIOUS
<1>1. Established \subseteq Kinds /\ discovery \subseteq Kinds /\ typeMapping \subseteq Kinds
  BY DEF Init, Established
<1>2. crd \in [Kinds -> {"absent", "created", "established"}]
  BY DEF Init
<1>3. \A k \in Kinds : object[k] = NotFound
  BY DEF Init
<1>4. object \in [Kinds -> Statuses \cup {NotFound}]
  BY DEF Init
<1>5. /\ cached \in [Kinds -> Statuses \cup {NotFound, None}]
      /\ published \in [Kinds -> Statuses \cup {NotFound, None}]
  BY DEF Init
<1>6. /\ spec \subseteq Kinds /\ unlearned = {} /\ crdEvents \subseteq Kinds /\ gvkMap = {} /\ watcherMap = {}
      /\ unseen = {} /\ lost = {} /\ included = {} /\ unresolved = {}
  BY <1>1 DEF Init
<1>7. /\ reachable \in BOOLEAN /\ refreshPending \in BOOLEAN
      /\ rootPending = TRUE /\ needsUpdate = FALSE /\ rgPending = FALSE
  BY DEF Init
<1>8. changes \in 0..MaxChanges /\ rootPc = "idle"
  BY ChangesAssumption DEF Init
<1> QED BY <1>1, <1>2, <1>3, <1>4, <1>5, <1>6, <1>7, <1>8 DEF TypeOK

\* The actions of the cluster that change an object or a CRD.
LEMMA SetObjectTypes ==
  ASSUME TypeOK, NEW k \in Kinds, NEW s \in Statuses \cup {NotFound}, SetObject(k, s)
  PROVE  /\ object' = [object EXCEPT ![k] = s]
         /\ unseen' \subseteq Kinds /\ lost' \subseteq Kinds
         /\ watcherMap' = watcherMap /\ needsUpdate' = needsUpdate
         /\ unseen' \subseteq watcherMap'
<1>1. CASE k \in watcherMap
  BY <1>1 DEF SetObject, TypeOK
<1>2. CASE k \notin watcherMap
  BY <1>2 DEF SetObject, TypeOK
<1> QED BY <1>1, <1>2

LEMMA WatchKindsTypes ==
  ASSUME TypeOK, NEW failures, WatchKinds(failures)
  PROVE  /\ watcherMap' = gvkMap \ failures
         /\ failures \subseteq gvkMap \ watcherMap
         /\ needsUpdate' = FALSE
         /\ watcherMap' \subseteq Kinds /\ unseen' \subseteq watcherMap' /\ lost' \subseteq Kinds
<1>1. /\ watcherMap' = gvkMap \ failures /\ failures \subseteq gvkMap \ watcherMap
      /\ needsUpdate' = FALSE
      /\ unseen' = (unseen \cap gvkMap)
                      \cup {k \in gvkMap \ (watcherMap \cup failures) : object[k] # NotFound}
      /\ lost' = lost \cup {k \in unseen \ gvkMap : object[k] = NotFound}
  BY DEF WatchKinds, Manager!Update
<1>2. gvkMap \subseteq Kinds /\ unseen \subseteq watcherMap /\ watcherMap \subseteq Kinds /\ lost \subseteq Kinds
  BY DEF TypeOK
<1> QED BY <1>1, <1>2

LEMMA SetStatusTypes ==
  ASSUME TypeOK, NEW k \in Kinds, NEW s \in Statuses \cup {NotFound, None}, SetStatus(k, s)
  PROVE  /\ cached' \in [Kinds -> Statuses \cup {NotFound, None}]
         /\ rgPending' = TRUE
         /\ lost' \subseteq Kinds
<1>1. /\ cached \in [Kinds -> Statuses \cup {NotFound, None}] /\ lost \subseteq Kinds
      /\ cached' = [cached EXCEPT ![k] = s] /\ rgPending' = TRUE /\ lost' = lost \ {k}
  BY DEF SetStatus, TypeOK
<1> QED BY <1>1

-----------------------------------------------------------------------------
(* The types hold part by part: the cluster, what the resolver and Root    *)
(* have, the manager's and the map's, and the CR.                          *)

ClusterTypes ==
  /\ crd \in [Kinds -> {"absent", "created", "established"}]
  /\ discovery \subseteq Kinds
  /\ object \in [Kinds -> Statuses \cup {NotFound}]
  /\ \A k \in Kinds : object[k] # NotFound => k \in Established \cap discovery
  /\ spec \subseteq Kinds /\ reachable \in BOOLEAN
  /\ changes \in 0..MaxChanges

ControlTypes ==
  /\ typeMapping \subseteq Kinds /\ unlearned \subseteq Kinds
  /\ refreshPending \in BOOLEAN
  /\ crdEvents \subseteq Kinds
  /\ gvkMap \subseteq Kinds /\ rootPc \in {"idle", "watch"} /\ rootPending \in BOOLEAN

StatusTypes ==
  /\ watcherMap \subseteq Kinds /\ unseen \subseteq watcherMap /\ lost \subseteq Kinds
  /\ needsUpdate \in BOOLEAN
  /\ included \subseteq Kinds /\ cached \in [Kinds -> Statuses \cup {NotFound, None}]
  /\ rgPending \in BOOLEAN

GroupTypes ==
  /\ published \in [Kinds -> Statuses \cup {NotFound, None}]
  /\ unresolved \subseteq Kinds

LEMMA TypesApart == TypeOK <=> ClusterTypes /\ ControlTypes /\ StatusTypes /\ GroupTypes
BY DEF TypeOK, ClusterTypes, ControlTypes, StatusTypes, GroupTypes

LEMMA ClusterKeeps ==
  ASSUME ClusterTypes, UNCHANGED cluster
  PROVE  ClusterTypes'
BY DEF ClusterTypes, cluster, Established

LEMMA ControlKeeps ==
  ASSUME ControlTypes, UNCHANGED <<resolver, crdEvents, root>>
  PROVE  ControlTypes'
BY DEF ControlTypes, resolver, root

LEMMA StatusKeeps ==
  ASSUME StatusTypes, UNCHANGED <<manager, resourceMap, rgPending>>
  PROVE  StatusTypes'
BY DEF StatusTypes, manager, resourceMap

LEMMA GroupKeeps ==
  ASSUME GroupTypes, UNCHANGED group
  PROVE  GroupTypes'
BY DEF GroupTypes, group

\* A CRD or an object changes.
LEMMA CRDEventTypes ==
  ASSUME ControlTypes, NEW k \in Kinds, NEW type, CRDEvent(k, type),
         UNCHANGED <<typeMapping, root>>
  PROVE  ControlTypes'
BY DEF ControlTypes, CRDEvent, root

LEMMA ChangeTypes ==
  ASSUME changes \in 0..MaxChanges, Change
  PROVE  changes' \in 0..MaxChanges
BY ChangesAssumption DEF Change

LEMMA NextTypes == TypeOK /\ [Next]_vars => TypeOK'
<1> SUFFICES ASSUME TypeOK, [Next]_vars
             PROVE  ClusterTypes' /\ ControlTypes' /\ StatusTypes' /\ GroupTypes'
  BY TypesApart, PTL
<1> DEFINE Types == ClusterTypes' /\ ControlTypes' /\ StatusTypes' /\ GroupTypes'
<1>0. ClusterTypes /\ ControlTypes /\ StatusTypes /\ GroupTypes
  BY TypesApart
<1>1. ASSUME NEW k \in Kinds, CreateCRD(k) PROVE Types
  <2>1. /\ CRDEvent(k, "Create") /\ Change /\ crd' = [crd EXCEPT ![k] = "created"] /\ crd[k] = "absent"
        /\ UNCHANGED <<discovery, object, reachable, spec, typeMapping, root, manager, resourceMap,
                       rgPending, group>>
    BY <1>1 DEF CreateCRD
  <2>2. ClusterTypes'
    BY <1>0, <2>1, ChangeTypes DEF ClusterTypes, Established
  <2> QED BY <1>0, <2>1, <2>2, CRDEventTypes, StatusKeeps, GroupKeeps
<1>2. ASSUME NEW k \in Kinds, Establish(k) PROVE Types
  <2>1. /\ CRDEvent(k, "Update") /\ crd' = [crd EXCEPT ![k] = "established"] /\ crd[k] = "created"
        /\ UNCHANGED <<discovery, object, reachable, spec, changes, typeMapping, root, manager,
                       resourceMap, rgPending, group>>
    BY <1>2 DEF Establish
  <2>2. ClusterTypes'
    BY <1>0, <2>1 DEF ClusterTypes, Established
  <2> QED BY <1>0, <2>1, <2>2, CRDEventTypes, StatusKeeps, GroupKeeps
<1>3. ASSUME NEW k \in Kinds, DiscoveryFollows(k) PROVE Types
  <2>1. /\ (k \in discovery) # (k \in Established)
        /\ discovery' = IF k \in Established THEN discovery \cup {k} ELSE discovery \ {k}
        /\ UNCHANGED <<crd, object, reachable, spec, changes, resolver, crdEvents, root, manager,
                       resourceMap, rgPending, group>>
    BY <1>3 DEF DiscoveryFollows
  <2>2. ClusterTypes'
    BY <1>0, <2>1 DEF ClusterTypes, Established
  <2> QED BY <1>0, <2>1, <2>2, ControlKeeps, StatusKeeps, GroupKeeps
<1>4. ASSUME NEW k \in Kinds, DeleteCRD(k) PROVE Types
  <2>1. /\ CRDEvent(k, "Delete") /\ Change /\ crd' = [crd EXCEPT ![k] = "absent"]
        /\ IF object[k] = NotFound THEN UNCHANGED <<object, manager>> ELSE SetObject(k, NotFound)
        /\ UNCHANGED <<discovery, reachable, spec, typeMapping, root, resourceMap, rgPending, group>>
    BY <1>4 DEF DeleteCRD
  <2>2. object' = [object EXCEPT ![k] = NotFound] /\ StatusTypes'
    <3>1. CASE object[k] = NotFound
      BY <1>0, <2>1, <3>1, StatusKeeps DEF ClusterTypes
    <3>2. CASE object[k] # NotFound
      BY <1>0, <2>1, <3>2, SetObjectTypes DEF StatusTypes, resourceMap
    <3> QED BY <3>1, <3>2
  <2>3. ClusterTypes'
    BY <1>0, <2>1, <2>2, ChangeTypes DEF ClusterTypes, Established
  <2> QED BY <1>0, <2>1, <2>2, <2>3, CRDEventTypes, GroupKeeps
<1>5. ASSUME NEW k \in Kinds, NEW s \in Statuses \cup {NotFound}, ChangeObject(k, s) PROVE Types
  <2>1. /\ SetObject(k, s) /\ Change /\ k \in Established \cap discovery
        /\ UNCHANGED <<crd, discovery, reachable, spec, resolver, crdEvents, root, resourceMap, rgPending, group>>
    BY <1>5 DEF ChangeObject
  <2>2. object' = [object EXCEPT ![k] = s] /\ StatusTypes'
    BY <1>0, <2>1, SetObjectTypes DEF StatusTypes, resourceMap
  <2>3. ClusterTypes'
    BY <1>0, <2>1, <2>2, ChangeTypes DEF ClusterTypes, Established
  <2> QED BY <1>0, <2>1, <2>2, <2>3, ControlKeeps, GroupKeeps
<1>6. ASSUME NEW k \in Kinds, WatcherEnds(k) \/ WatchLoses(k) PROVE Types
  <2>1. /\ watcherMap' \in {watcherMap, watcherMap \ {k}} /\ needsUpdate' \in {needsUpdate, TRUE}
        /\ unseen' = unseen \ {k} /\ lost' \in {lost, lost \cup {k}}
        /\ UNCHANGED <<cluster, resolver, crdEvents, root, resourceMap, rgPending, group>>
    BY <1>6 DEF WatcherEnds, WatchLoses, Manager!Fail
  <2>2. StatusTypes'
    BY <1>0, <2>1 DEF StatusTypes, resourceMap
  <2> QED BY <1>0, <2>1, <2>2, ClusterKeeps, ControlKeeps, GroupKeeps
<1>7. ASSUME NEW k \in Kinds, WatchEvent(k) PROVE Types
  <2>1. /\ unseen' = unseen \ {k}
        /\ SetStatus(k, object[k]) \/ (lost' \in {lost, lost \cup {k}} /\ UNCHANGED <<cached, rgPending>>)
        /\ UNCHANGED <<cluster, resolver, crdEvents, root, watcherMap, needsUpdate, included, group>>
    BY <1>7 DEF WatchEvent
  <2>2. object[k] \in Statuses \cup {NotFound, None}
    BY <1>0 DEF ClusterTypes
  <2>3. /\ cached' \in [Kinds -> Statuses \cup {NotFound, None}]
        /\ rgPending' \in BOOLEAN /\ lost' \subseteq Kinds
    BY <1>0, <2>1, <2>2, SetStatusTypes DEF StatusTypes
  <2>4. StatusTypes'
    BY <1>0, <2>1, <2>3 DEF StatusTypes
  <2> QED BY <1>0, <2>1, <2>4, ClusterKeeps, ControlKeeps, GroupKeeps
<1>8. ASSUME NEW k \in Kinds, HandleCRD(k) PROVE Types
  <2>1. /\ crdEvents' = crdEvents \ {k}
        /\ SetStatus(k, None) \/ UNCHANGED <<cached, rgPending, lost>>
        /\ UNCHANGED <<cluster, resolver, root, watcherMap, needsUpdate, unseen, included, group>>
    BY <1>8 DEF HandleCRD
  <2>2. /\ cached' \in [Kinds -> Statuses \cup {NotFound, None}]
        /\ rgPending' \in BOOLEAN /\ lost' \subseteq Kinds
    BY <1>0, <2>1, SetStatusTypes DEF StatusTypes
  <2>3. StatusTypes'
    BY <1>0, <2>1, <2>2 DEF StatusTypes
  <2>4. ControlTypes'
    BY <1>0, <2>1 DEF ControlTypes, resolver, root
  <2> QED BY <1>0, <2>1, <2>3, <2>4, ClusterKeeps, GroupKeeps
<1>9. ASSUME ChangeDiscovery PROVE Types
  <2>1. /\ Change /\ reachable' \in BOOLEAN
        /\ UNCHANGED <<crd, discovery, object, spec, resolver, crdEvents, root, manager, resourceMap, rgPending,
                       group>>
    BY <1>9 DEF ChangeDiscovery
  <2>2. ClusterTypes'
    BY <1>0, <2>1, ChangeTypes DEF ClusterTypes, Established
  <2> QED BY <1>0, <2>1, <2>2, ControlKeeps, StatusKeeps, GroupKeeps
<1>10. ASSUME NEW S \in SUBSET Kinds, ChangeSpec(S) PROVE Types
  <2>1. /\ Change /\ spec' = S /\ rootPending' = TRUE
        /\ UNCHANGED <<crd, discovery, object, reachable, resolver, crdEvents, rootPc, gvkMap, manager,
                       resourceMap, rgPending, group>>
    BY <1>10 DEF ChangeSpec
  <2>2. ClusterTypes'
    BY <1>0, <2>1, ChangeTypes DEF ClusterTypes, Established
  <2>3. ControlTypes'
    BY <1>0, <2>1 DEF ControlTypes, resolver
  <2> QED BY <1>0, <2>1, <2>2, <2>3, StatusKeeps, GroupKeeps
<1>11. ASSUME Request PROVE Types
  <2>1. /\ rootPending' = TRUE
        /\ UNCHANGED <<cluster, resolver, crdEvents, rootPc, gvkMap, manager, resourceMap, rgPending,
                       group>>
    BY <1>11 DEF Request
  <2>2. ControlTypes'
    BY <1>0, <2>1 DEF ControlTypes, resolver
  <2> QED BY <1>0, <2>1, <2>2, ClusterKeeps, StatusKeeps, GroupKeeps
<1>12. ASSUME Refresh PROVE Types
  <2>1. /\ refreshPending' = FALSE /\ typeMapping' \in {discovery, typeMapping}
        /\ unlearned' \in {Behind, Kinds}
        /\ UNCHANGED <<cluster, crdEvents, root, manager, resourceMap, rgPending, group>>
    BY <1>12 DEF Refresh
  <2>2. discovery \subseteq Kinds /\ Behind \subseteq Kinds
    BY <1>0 DEF ClusterTypes, Behind, Established
  <2>3. ControlTypes'
    BY <1>0, <2>1, <2>2 DEF ControlTypes, root
  <2> QED BY <1>0, <2>1, <2>3, ClusterKeeps, StatusKeeps, GroupKeeps
<1>13. ASSUME Reconcile PROVE Types
  <2>1. /\ rootPending' = FALSE /\ rootPc' = "watch" /\ gvkMap' = spec \cap typeMapping
        /\ included' = spec /\ lost' = lost \ (included \ spec)
        /\ cached' = [k \in Kinds |-> IF k \in included \ spec THEN None ELSE cached[k]]
        /\ UNCHANGED <<cluster, resolver, crdEvents, watcherMap, needsUpdate, unseen, rgPending, group>>
    BY <1>13 DEF Reconcile
  <2>2. ControlTypes'
    BY <1>0, <2>1 DEF ControlTypes, ClusterTypes, resolver
  <2>3. cached' \in [Kinds -> Statuses \cup {NotFound, None}]
    BY <1>0, <2>1 DEF StatusTypes
  <2>4. StatusTypes'
    BY <1>0, <2>1, <2>3 DEF StatusTypes, ClusterTypes
  <2> QED BY <1>0, <2>1, <2>2, <2>4, ClusterKeeps, GroupKeeps
<1>14. ASSUME UpdateWatches \/ UpdateWatchesFails PROVE Types
  <2>1. /\ \E failures : WatchKinds(failures)
        /\ rootPc' = "idle" /\ rootPending' \in {rootPending, TRUE} /\ rgPending' \in {rgPending, TRUE}
        /\ UNCHANGED <<cluster, resolver, crdEvents, gvkMap, resourceMap, group>>
    BY <1>14 DEF UpdateWatches, UpdateWatchesFails
  <2>2. /\ needsUpdate' = FALSE
        /\ watcherMap' \subseteq Kinds /\ unseen' \subseteq watcherMap' /\ lost' \subseteq Kinds
    BY <2>1, WatchKindsTypes
  <2>3. ControlTypes'
    BY <1>0, <2>1 DEF ControlTypes, resolver
  <2>4. StatusTypes'
    BY <1>0, <2>1, <2>2 DEF StatusTypes, resourceMap
  <2> QED BY <1>0, <2>1, <2>3, <2>4, ClusterKeeps, GroupKeeps
<1>15. ASSUME ReconcileGroup PROVE Types
  <2>1. /\ rgPending' = FALSE
        /\ cached' = [k \in Kinds |->
              IF k \in spec \cap typeMapping /\ cached[k] = None /\ object[k] # NotFound
              THEN object[k] ELSE cached[k]]
        /\ UNCHANGED <<cluster, resolver, crdEvents, root, manager, included>>
    BY <1>15 DEF ReconcileGroup
  <2>2. /\ published' = [k \in Kinds |-> IF k \notin spec THEN None
                                         ELSE IF cached'[k] # None THEN cached'[k] ELSE NotFound]
        /\ unresolved' = {k \in spec : cached[k] = None /\ k \notin typeMapping}
    BY <1>15 DEF ReconcileGroup, Publish
  <2>3. /\ object \in [Kinds -> Statuses \cup {NotFound}] /\ spec \subseteq Kinds
        /\ cached \in [Kinds -> Statuses \cup {NotFound, None}]
    BY <1>0 DEF ClusterTypes, StatusTypes
  <2>4. cached' \in [Kinds -> Statuses \cup {NotFound, None}]
    BY <2>1, <2>3
  <2>5. published' \in [Kinds -> Statuses \cup {NotFound, None}] /\ unresolved' \subseteq Kinds
    BY <2>2, <2>3, <2>4
  <2>6. StatusTypes'
    BY <1>0, <2>1, <2>4 DEF StatusTypes, manager
  <2>7. GroupTypes'
    BY <2>5 DEF GroupTypes
  <2> QED BY <1>0, <2>1, <2>6, <2>7, ClusterKeeps, ControlKeeps
<1>16. ASSUME UNCHANGED vars PROVE Types
  BY <1>0, <1>16, ClusterKeeps, ControlKeeps, StatusKeeps, GroupKeeps DEF vars
<1> QED BY <1>1, <1>2, <1>3, <1>4, <1>5, <1>6, <1>7, <1>8, <1>9, <1>10, <1>11, <1>12, <1>13,
           <1>14, <1>15, <1>16 DEF Next

\* The variables keep their types, and only a watcher has an event to bring.
THEOREM TypeCorrect == Spec => []TypeOK
BY InitTypes, NextTypes, PTL DEF Spec
-----------------------------------------------------------------------------
(* The resolver.                                                           *)

(***************************************************************************)
(* The resolver has the kinds that are established, but for those of which *)
(* the last Refresh could not know as it failed or the discovery was       *)
(* behind (typeresolver.go:41-84): each change of a CRD, and nothing that  *)
(* the discovery does, asks for a Refresh.                                 *)
(***************************************************************************)
THEOREM MappingFollows == Spec => []MappingIsCurrent
<1>1. Init => MappingIsCurrent
  BY DEF Init, MappingIsCurrent
<1>2. TypeOK /\ MappingIsCurrent /\ [Next]_vars => MappingIsCurrent'
  <2> SUFFICES ASSUME TypeOK, MappingIsCurrent, [Next]_vars PROVE MappingIsCurrent'
    OBVIOUS
  <2>1. ASSUME NEW k \in Kinds, CreateCRD(k) \/ Establish(k) \/ DeleteCRD(k)
        PROVE  MappingIsCurrent'
    BY <2>1 DEF CreateCRD, Establish, DeleteCRD, CRDEvent, MappingIsCurrent
  <2>2. ASSUME NEW k \in Kinds, DiscoveryFollows(k) PROVE UNCHANGED <<crd, resolver>>
    BY <2>2 DEF DiscoveryFollows
  <2>3. CASE Refresh
    <3>1. Established' = Established /\ Established \subseteq Kinds
      BY <2>3 DEF Refresh, Established, cluster
    <3>2. CASE reachable
      <4>1. typeMapping' = discovery /\ unlearned' = Behind
        BY <2>3, <3>2 DEF Refresh
      <4> QED BY <3>1, <4>1 DEF MappingIsCurrent, Behind
    <3>3. CASE ~reachable
      <4>1. typeMapping' = typeMapping /\ unlearned' = Kinds
        BY <2>3, <3>3 DEF Refresh
      <4> QED BY <3>1, <4>1 DEF MappingIsCurrent, TypeOK
    <3> QED BY <3>2, <3>3
  <2>4. CASE UNCHANGED <<crd, resolver>>
    BY <2>4 DEF MappingIsCurrent, Established, resolver
  <2>5. ASSUME NEW k \in Kinds, \/ \E s \in Statuses \cup {NotFound} : ChangeObject(k, s)
                                \/ WatcherEnds(k) \/ WatchEvent(k) \/ WatchLoses(k) \/ HandleCRD(k)
        PROVE  UNCHANGED <<crd, resolver>>
    BY <2>5 DEF ChangeObject, WatcherEnds, WatchEvent, WatchLoses, HandleCRD, cluster
  <2>6. ASSUME \/ ChangeDiscovery \/ \E S \in SUBSET Kinds : ChangeSpec(S)
               \/ Request \/ Reconcile \/ UpdateWatches \/ UpdateWatchesFails \/ ReconcileGroup
               \/ UNCHANGED vars
        PROVE  UNCHANGED <<crd, resolver>>
    BY <2>6 DEF ChangeDiscovery, ChangeSpec, Request, Reconcile, UpdateWatches,
                UpdateWatchesFails, ReconcileGroup, vars, cluster
  <2> QED BY <2>1, <2>2, <2>3, <2>4, <2>5, <2>6 DEF Next
<1> QED BY <1>1, <1>2, TypeCorrect, PTL DEF Spec

-----------------------------------------------------------------------------
(* The manager.                                                            *)

(***************************************************************************)
(* A kind that Root has asked for and that is not watched is asked for     *)
(* again, or its watcher has ended and set needsUpdate                     *)
(* (root_controller.go:136-143, manager.go:132-153, 189-199).              *)
(***************************************************************************)
THEOREM MissingIsKnown == Spec => []MissingIsRetriedOrFlagged
<1>1. Init => MissingIsRetriedOrFlagged
  BY DEF Init, MissingIsRetriedOrFlagged
<1>2. MissingIsRetriedOrFlagged /\ [Next]_vars => MissingIsRetriedOrFlagged'
  <2> SUFFICES ASSUME MissingIsRetriedOrFlagged, [Next]_vars PROVE MissingIsRetriedOrFlagged'
    OBVIOUS
  <2>1. CASE UpdateWatches
    BY <2>1 DEF UpdateWatches, WatchKinds, Manager!Update, MissingIsRetriedOrFlagged
  <2>2. CASE UpdateWatchesFails
    BY <2>2 DEF UpdateWatchesFails, WatchKinds, Manager!Update, MissingIsRetriedOrFlagged
  <2>3. ASSUME NEW k \in Kinds, WatcherEnds(k) PROVE MissingIsRetriedOrFlagged'
    BY <2>3 DEF WatcherEnds, Manager!Fail, root, MissingIsRetriedOrFlagged
  <2>4. CASE Reconcile
    BY <2>4 DEF Reconcile, MissingIsRetriedOrFlagged
  <2>5. ASSUME Request \/ \E S \in SUBSET Kinds : ChangeSpec(S)
        PROVE  MissingIsRetriedOrFlagged'
    BY <2>5 DEF Request, ChangeSpec, manager, resourceMap, MissingIsRetriedOrFlagged
  <2>6. CASE UNCHANGED <<root, watcherMap, needsUpdate>>
    BY <2>6 DEF MissingIsRetriedOrFlagged, root
  <2>7. ASSUME NEW k \in Kinds, \/ CreateCRD(k) \/ Establish(k) \/ DiscoveryFollows(k) \/ DeleteCRD(k)
                                \/ \E s \in Statuses \cup {NotFound} : ChangeObject(k, s)
                                \/ WatchEvent(k) \/ WatchLoses(k) \/ HandleCRD(k)
        PROVE  UNCHANGED <<root, watcherMap, needsUpdate>>
    BY <2>7 DEF CreateCRD, Establish, DiscoveryFollows, DeleteCRD, ChangeObject, WatchEvent, WatchLoses,
                HandleCRD, SetObject, manager
  <2>8. ASSUME ChangeDiscovery \/ Refresh \/ ReconcileGroup \/ UNCHANGED vars
        PROVE  UNCHANGED <<root, watcherMap, needsUpdate>>
    BY <2>8 DEF ChangeDiscovery, Refresh, ReconcileGroup, vars, manager
  <2> QED BY <2>1, <2>2, <2>3, <2>4, <2>5, <2>6, <2>7, <2>8 DEF Next
<1> QED BY <1>1, <1>2, PTL DEF Spec

-----------------------------------------------------------------------------
(* The statuses.                                                           *)

\* The map has what the CR lists, unless Root has to look at it.
IncludedFollows ==
  /\ gvkMap \subseteq included
  /\ ~rootPending => included = spec

\* Of a kind that is watched, or has no object, the cached status is true,
\* but for the events that are to come and the deletions that none tells of.
CacheIsTrue ==
  \A k \in Kinds \ (unseen \cup lost) :
    k \in watcherMap \cap included \/ object[k] = NotFound => cached[k] \in {None, object[k]}

\* What is published is true, or the group will be reconciled again.
PublishedOrPending ==
  rootPc = "idle" /\ ~rootPending /\ ~rgPending =>
    \A k \in (spec \cap watcherMap) \ (unseen \cup lost \cup unresolved) : published[k] = object[k]

IInv ==
  /\ TypeOK
  /\ MissingIsRetriedOrFlagged
  /\ IncludedFollows
  /\ CacheIsTrue
  /\ PublishedOrPending

\* No watcher, object or status of the map changes.
LEMMA StatusesKeep ==
  ASSUME CacheIsTrue, UNCHANGED <<object, watcherMap, unseen, lost, included, cached>>
  PROVE  CacheIsTrue'
BY DEF CacheIsTrue

LEMMA PublishedKeep ==
  ASSUME PublishedOrPending,
         UNCHANGED <<object, spec, rootPc, watcherMap, unseen, lost, published, unresolved>>,
         rootPending => rootPending', rgPending' = rgPending
  PROVE  PublishedOrPending'
BY DEF PublishedOrPending

\* The object of k changes.
LEMMA SetObjectIInv ==
  ASSUME IInv, NEW k \in Kinds, NEW s \in Statuses \cup {NotFound}, SetObject(k, s),
         UNCHANGED <<spec, root, resourceMap, rgPending, group>>
  PROVE  IncludedFollows' /\ CacheIsTrue' /\ PublishedOrPending'
<1>1. /\ object' = [object EXCEPT ![k] = s] /\ object \in [Kinds -> Statuses \cup {NotFound}]
      /\ UNCHANGED <<watcherMap, needsUpdate, spec, rootPending, rootPc, gvkMap, included, cached,
                     rgPending, published, unresolved>>
  BY DEF IInv, TypeOK, SetObject, root, resourceMap, group
<1>2. /\ object'[k] = s /\ \A j \in Kinds \ {k} : object'[j] = object[j]
      /\ k \in watcherMap => unseen' = unseen \cup {k} /\ lost' = lost
      /\ k \notin watcherMap => unseen' = unseen
      /\ k \notin watcherMap /\ s = NotFound => lost' = lost \cup {k}
      /\ k \notin watcherMap /\ s # NotFound => lost' = lost \ {k}
  BY <1>1 DEF SetObject
<1>3. IncludedFollows'
  BY <1>1 DEF IInv, IncludedFollows
<1>4. CacheIsTrue'
  <2> SUFFICES ASSUME NEW j \in Kinds, j \notin unseen', j \notin lost',
                      j \in watcherMap \cap included \/ object'[j] = NotFound
               PROVE  cached[j] \in {None, object'[j]}
    BY <1>1 DEF CacheIsTrue
  <2>1. j # k
    BY <1>2
  <2> QED BY <1>2, <2>1 DEF IInv, CacheIsTrue
<1>5. PublishedOrPending'
  <2> SUFFICES ASSUME rootPc = "idle", ~rootPending, ~rgPending, NEW j \in spec \cap watcherMap,
                      j \notin unseen', j \notin lost', j \notin unresolved
               PROVE  published[j] = object'[j]
    BY <1>1 DEF PublishedOrPending
  <2>1. j # k /\ j \in Kinds
    BY <1>2 DEF IInv, TypeOK
  <2> QED BY <1>2, <2>1 DEF IInv, PublishedOrPending
<1> QED BY <1>3, <1>4, <1>5

\* The manager has made the watchers that it could.
LEMMA WatchKindsIInv ==
  ASSUME IInv, NEW failures, WatchKinds(failures),
         UNCHANGED <<object, resourceMap>>
  PROVE  CacheIsTrue'
<1> DEFINE new == gvkMap \ (watcherMap \cup failures)
<1>1. /\ watcherMap' = gvkMap \ failures
      /\ unseen' = (unseen \cap gvkMap) \cup {k \in new : object[k] # NotFound}
      /\ lost' = lost \cup {k \in unseen \ gvkMap : object[k] = NotFound}
      /\ UNCHANGED <<object, included, cached>>
  BY DEF WatchKinds, Manager!Update, resourceMap
<1>2. unseen \subseteq watcherMap
  BY DEF IInv, TypeOK
<1> SUFFICES ASSUME NEW k \in Kinds, k \notin unseen', k \notin lost',
                    k \in watcherMap' \cap included \/ object[k] = NotFound
             PROVE  cached[k] \in {None, object[k]}
  BY <1>1 DEF CacheIsTrue
<1>3. k \notin lost
  BY <1>1
<1>4. k \notin unseen
  BY <1>1
<1>5. k \in watcherMap \cap included \/ object[k] = NotFound
  BY <1>1
<1> QED BY <1>3, <1>4, <1>5 DEF IInv, CacheIsTrue

LEMMA InitIInv ==
  ASSUME Init
  PROVE  IInv
<1>1. IncludedFollows /\ PublishedOrPending /\ MissingIsRetriedOrFlagged
  BY DEF Init, IncludedFollows, PublishedOrPending, MissingIsRetriedOrFlagged
<1>2. CacheIsTrue
  BY DEF Init, CacheIsTrue
<1> QED BY <1>1, <1>2, InitTypes DEF IInv

LEMMA NextStatuses ==
  ASSUME IInv, [Next]_vars
  PROVE  IncludedFollows' /\ CacheIsTrue' /\ PublishedOrPending'
<1> USE DEF IInv
<1>1. ASSUME NEW k \in Kinds, CreateCRD(k) \/ Establish(k) \/ DiscoveryFollows(k) \/ WatcherEnds(k)
                                \/ WatchEvent(k) \/ WatchLoses(k) \/ HandleCRD(k)
      PROVE  IncludedFollows'
  BY <1>1 DEF IncludedFollows, CreateCRD, Establish, DiscoveryFollows, WatcherEnds, WatchEvent, WatchLoses,
              HandleCRD, cluster, root, resourceMap
<1>2. ASSUME NEW k \in Kinds, CreateCRD(k) \/ Establish(k) \/ DiscoveryFollows(k)
      PROVE  CacheIsTrue' /\ PublishedOrPending'
  <2>1. UNCHANGED <<object, spec, rootPending, rootPc, watcherMap, unseen, lost, included, cached,
                    rgPending, published, unresolved>>
    BY <1>2 DEF CreateCRD, Establish, DiscoveryFollows, root, manager, resourceMap, group
  <2> QED BY <2>1, StatusesKeep, PublishedKeep
<1>3. ASSUME NEW k \in Kinds, DeleteCRD(k)
      PROVE  IncludedFollows' /\ CacheIsTrue' /\ PublishedOrPending'
  <2>1. CASE object[k] = NotFound
    <3>1. UNCHANGED <<object, spec, rootPending, rootPc, gvkMap, watcherMap, unseen, lost, included,
                      cached, rgPending, published, unresolved>>
      BY <1>3, <2>1 DEF DeleteCRD, root, manager, resourceMap, group
    <3>2. IncludedFollows'
      BY <3>1 DEF IncludedFollows
    <3> QED BY <3>1, <3>2, StatusesKeep, PublishedKeep
  <2>2. CASE object[k] # NotFound
    BY <1>3, <2>2, SetObjectIInv DEF DeleteCRD
  <2> QED BY <2>1, <2>2
<1>4. ASSUME NEW k \in Kinds, NEW s \in Statuses \cup {NotFound}, ChangeObject(k, s)
      PROVE  IncludedFollows' /\ CacheIsTrue' /\ PublishedOrPending'
  BY <1>4, SetObjectIInv DEF ChangeObject
<1>5. ASSUME NEW k \in Kinds, WatcherEnds(k) \/ WatchLoses(k)
      PROVE  CacheIsTrue' /\ PublishedOrPending'
  <2>1. /\ unseen' = unseen \ {k} /\ UNCHANGED <<object, spec, rootPending, rootPc, included, cached,
                                                 rgPending, published, unresolved>>
        /\ \/ /\ watcherMap' = watcherMap \ {k} /\ lost \subseteq lost'
              /\ k \in unseen /\ object[k] = NotFound => k \in lost'
           \/ watcherMap' = watcherMap /\ lost' = lost \cup {k}
    BY <1>5 DEF WatcherEnds, WatchLoses, Manager!Fail, cluster, root, resourceMap, group
  <2>2. \A j \in Kinds : j \notin unseen' /\ j \notin lost' =>
          /\ j \notin lost
          /\ j \in unseen => j \notin watcherMap' /\ object[j] # NotFound
          /\ j \in watcherMap' => j \in watcherMap
    BY <2>1
  <2>3. CacheIsTrue'
    <3> SUFFICES ASSUME NEW j \in Kinds, j \notin unseen', j \notin lost',
                        j \in watcherMap' \cap included \/ object[j] = NotFound
                 PROVE  cached[j] \in {None, object[j]}
      BY <2>1 DEF CacheIsTrue
    <3> QED BY <2>2 DEF CacheIsTrue
  <2>4. PublishedOrPending'
    <3> SUFFICES ASSUME rootPc = "idle", ~rootPending, ~rgPending, NEW j \in spec \cap watcherMap',
                        j \notin unseen', j \notin lost', j \notin unresolved
                 PROVE  published[j] = object[j]
      BY <2>1 DEF PublishedOrPending
    <3>1. j \in Kinds
      BY DEF TypeOK
    <3> QED BY <2>2, <3>1 DEF PublishedOrPending
  <2> QED BY <2>3, <2>4
<1>6. ASSUME NEW k \in Kinds, WatchEvent(k)
      PROVE  CacheIsTrue' /\ PublishedOrPending'
  <2>1. /\ unseen' = unseen \ {k}
        /\ UNCHANGED <<object, spec, rootPending, rootPc, gvkMap, watcherMap, included, published,
                       unresolved>>
        /\ cached \in [Kinds -> Statuses \cup {NotFound, None}]
    BY <1>6 DEF WatchEvent, cluster, root, group, TypeOK
  <2>2. CASE k \in included
    <3>1. cached' = [cached EXCEPT ![k] = object[k]] /\ rgPending' = TRUE /\ lost' = lost \ {k}
      BY <1>6, <2>2 DEF WatchEvent, SetStatus
    <3> QED BY <2>1, <3>1 DEF CacheIsTrue, PublishedOrPending
  <2>3. CASE k \notin included
    <3>1. /\ lost' = IF object[k] = NotFound THEN lost \cup {k} ELSE lost
          /\ UNCHANGED <<cached, rgPending>>
      BY <1>6, <2>3 DEF WatchEvent
    <3>2. CacheIsTrue'
      BY <2>1, <2>3, <3>1 DEF CacheIsTrue
    <3>3. PublishedOrPending'
      BY <2>1, <2>3, <3>1 DEF PublishedOrPending, IncludedFollows
    <3> QED BY <3>2, <3>3
  <2> QED BY <2>2, <2>3
<1>7. ASSUME NEW k \in Kinds, HandleCRD(k)
      PROVE  CacheIsTrue' /\ PublishedOrPending'
  <2>1. /\ UNCHANGED <<object, spec, rootPending, rootPc, gvkMap, watcherMap, unseen, included,
                       published, unresolved>>
        /\ cached \in [Kinds -> Statuses \cup {NotFound, None}]
    BY <1>7 DEF HandleCRD, cluster, root, group, TypeOK
  <2>2. CASE k \in included
    <3>1. cached' = [cached EXCEPT ![k] = None] /\ rgPending' = TRUE /\ lost' = lost \ {k}
      BY <1>7, <2>2 DEF HandleCRD, SetStatus
    <3> QED BY <2>1, <3>1 DEF CacheIsTrue, PublishedOrPending
  <2>3. CASE k \notin included
    <3>1. UNCHANGED <<cached, rgPending, lost>>
      BY <1>7, <2>3 DEF HandleCRD
    <3> QED BY <2>1, <3>1, StatusesKeep, PublishedKeep
  <2> QED BY <2>2, <2>3
<1>8. ASSUME ChangeDiscovery \/ Refresh \/ UNCHANGED vars
      PROVE  IncludedFollows' /\ CacheIsTrue' /\ PublishedOrPending'
  <2>1. UNCHANGED <<object, spec, rootPending, rootPc, gvkMap, watcherMap, unseen, lost, included,
                    cached, rgPending, published, unresolved>>
    BY <1>8 DEF ChangeDiscovery, Refresh, vars, cluster, root, manager, resourceMap, group
  <2>2. IncludedFollows'
    BY <2>1 DEF IncludedFollows
  <2> QED BY <2>1, <2>2, StatusesKeep, PublishedKeep
<1>9. ASSUME Request \/ \E S \in SUBSET Kinds : ChangeSpec(S)
      PROVE  IncludedFollows' /\ CacheIsTrue' /\ PublishedOrPending'
  <2>1. /\ UNCHANGED <<object, gvkMap, watcherMap, unseen, lost, included, cached>>
        /\ rootPending' = TRUE
    BY <1>9 DEF Request, ChangeSpec, cluster, manager, resourceMap
  <2>2. IncludedFollows' /\ PublishedOrPending'
    BY <2>1 DEF IncludedFollows, PublishedOrPending
  <2> QED BY <2>1, <2>2, StatusesKeep
<1>10. ASSUME Reconcile
       PROVE  IncludedFollows' /\ CacheIsTrue' /\ PublishedOrPending'
  <2>1. /\ rootPc = "idle" /\ rootPc' = "watch" /\ gvkMap' = spec \cap typeMapping
        /\ included' = spec /\ lost' = lost \ (included \ spec)
        /\ cached' = [k \in Kinds |-> IF k \in included \ spec THEN None ELSE cached[k]]
        /\ UNCHANGED <<object, spec, watcherMap, unseen>>
    BY <1>10 DEF Reconcile, cluster
  <2>2. watcherMap \subseteq included
    BY <2>1 DEF MissingIsRetriedOrFlagged, IncludedFollows
  <2>3. IncludedFollows' /\ PublishedOrPending'
    BY <2>1 DEF IncludedFollows, PublishedOrPending
  <2>4. CacheIsTrue'
    BY <2>1, <2>2 DEF CacheIsTrue
  <2> QED BY <2>3, <2>4
<1>11. ASSUME UpdateWatches
       PROVE  IncludedFollows' /\ CacheIsTrue' /\ PublishedOrPending'
  <2>1. /\ WatchKinds({}) /\ rgPending' = TRUE
        /\ UNCHANGED <<object, spec, rootPending, gvkMap, resourceMap>>
    BY <1>11 DEF UpdateWatches, cluster
  <2>2. IncludedFollows' /\ PublishedOrPending'
    BY <2>1 DEF IncludedFollows, PublishedOrPending, resourceMap
  <2> QED BY <2>1, <2>2, WatchKindsIInv
<1>12. ASSUME UpdateWatchesFails
       PROVE  IncludedFollows' /\ CacheIsTrue' /\ PublishedOrPending'
  <2>1. PICK failures : WatchKinds(failures)
    BY <1>12 DEF UpdateWatchesFails
  <2>2. /\ rootPending' = TRUE
        /\ UNCHANGED <<object, spec, gvkMap, resourceMap>>
    BY <1>12 DEF UpdateWatchesFails, cluster
  <2>3. IncludedFollows' /\ PublishedOrPending'
    BY <2>2 DEF IncludedFollows, PublishedOrPending, resourceMap
  <2> QED BY <2>1, <2>2, <2>3, WatchKindsIInv
<1>13. ASSUME ReconcileGroup
       PROVE  IncludedFollows' /\ CacheIsTrue' /\ PublishedOrPending'
  <2>1. /\ UNCHANGED <<object, spec, rootPending, rootPc, gvkMap, watcherMap, unseen, lost, included>>
        /\ cached' = [k \in Kinds |->
             IF k \in spec \cap typeMapping /\ cached[k] = None /\ object[k] # NotFound
             THEN object[k] ELSE cached[k]]
        /\ published' = [k \in Kinds |-> IF k \notin spec THEN None
                                         ELSE IF cached'[k] # None THEN cached'[k] ELSE NotFound]
        /\ unresolved' = {k \in spec : cached[k] = None /\ k \notin typeMapping}
    BY <1>13 DEF ReconcileGroup, Publish, cluster, root, manager
  <2>2. IncludedFollows'
    BY <2>1 DEF IncludedFollows
  <2>3. CacheIsTrue'
    BY <2>1 DEF CacheIsTrue
  <2>4. PublishedOrPending'
    <3> SUFFICES ASSUME rootPc = "idle", ~rootPending, NEW k \in spec \cap watcherMap,
                        k \notin unseen, k \notin lost, k \notin unresolved'
                 PROVE  published'[k] = object[k]
      BY <2>1 DEF PublishedOrPending
    <3>1. k \in Kinds /\ k \in included
      BY DEF TypeOK, IncludedFollows
    <3>2. cached[k] \in {None, object[k]} /\ object[k] # None
      BY <3>1, StatusAssumption DEF CacheIsTrue, TypeOK
    <3>3. published'[k] = IF cached'[k] # None THEN cached'[k] ELSE NotFound
      BY <2>1, <3>1
    <3>4. CASE cached[k] = None
      BY <2>1, <3>1, <3>2, <3>3, <3>4
    <3>5. CASE cached[k] = object[k]
      BY <2>1, <3>1, <3>2, <3>3, <3>5
    <3> QED BY <3>2, <3>4, <3>5
  <2> QED BY <2>2, <2>3, <2>4
<1> QED BY <1>1, <1>2, <1>3, <1>4, <1>5, <1>6, <1>7, <1>8, <1>9, <1>10, <1>11, <1>12, <1>13 DEF Next

THEOREM Invariance == Spec => []IInv
<1>1. TypeOK /\ MissingIsRetriedOrFlagged /\ TypeOK' /\ MissingIsRetriedOrFlagged'
        /\ IInv /\ [Next]_vars => IInv'
  BY NextStatuses DEF IInv
<1> QED BY <1>1, InitIInv, TypeCorrect, MissingIsKnown, PTL DEF Spec

(***************************************************************************)
(* Kinds leave the CR and come back, their CRDs come and go, watchers end  *)
(* and start anew; at rest what is published of a watched kind is the      *)
(* status of its object, because the map keeps a status no longer than the *)
(* CR is known to list the kind, and a new watch begins with the objects   *)
(* that there are (root_controller.go:120-150, filteredwatcher.go:290-325, *)
(* resourcegroup_controller.go:288-326).                                   *)
(***************************************************************************)
THEOREM WatchedStaysTrue == Spec => []WatchedIsTrue
<1>1. IInv => WatchedIsTrue
  BY DEF IInv, PublishedOrPending, WatchedIsTrue, Quiet
<1> QED BY <1>1, Invariance, PTL

=============================================================================
