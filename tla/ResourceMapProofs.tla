------------------------- MODULE ResourceMapProofs -------------------------
(***************************************************************************)
(* For any set of groups, resources, kinds and statuses: the maps of       *)
(* ResourceMap are one consistent index whenever the lock is free, the     *)
(* delete loop never meets a missing GroupKind, and every step of the code *)
(* is a step of ResourceIndex or leaves it unchanged.                      *)
(***************************************************************************)
EXTENDS ResourceMap, TLAPS

(***************************************************************************)
(* The resources that resToResgroups attributes to g: those of the last    *)
(* call, except that the loops of the call in progress have already        *)
(* applied a part of the difference.                                       *)
(***************************************************************************)
Applied(g) ==
  IF g # group THEN OldResources(g)
  ELSE (OldResources(g) \cap resources) \cup toDelete
         \cup (resources \ (OldResources(g) \cup toAdd))

Inverse == \A res \in Resources : Get(res) = {g \in ResourceGroups : res \in Applied(g)}

ByKind ==
  \A gk \in GroupKinds : GetResources(gk) = {res \in DOMAIN resToResgroups : GK[res] = gk}

\* The call in progress, and what is left of its difference.
CallOK ==
  /\ pc = "idle" => /\ group = None /\ resources = {} /\ deleteRG = FALSE
                    /\ toAdd = {} /\ toDelete = {}
  /\ pc # "idle" => group \in ResourceGroups
  /\ deleteRG => resources = {}
  /\ toAdd \subseteq resources \ OldResources(group)
  /\ toDelete \subseteq OldResources(group) \ resources
  /\ pc = "diffed" => /\ toAdd = resources \ OldResources(group)
                      /\ toDelete = OldResources(group) \ resources

IInv == TypeOK /\ Inverse /\ ByKind /\ CallOK

-----------------------------------------------------------------------------
(* The maps.                                                               *)

LEMMA MapsMembership ==
  ASSUME NEW K, NEW V, NEW m
  PROVE  m \in Maps(K, V) <=> DOMAIN m \in SUBSET K /\ m \in [DOMAIN m -> V]
BY DEF Maps

LEMMA PutMaps ==
  ASSUME NEW K, NEW V, NEW m \in Maps(K, V), NEW k \in K, NEW v \in V
  PROVE  Put(m, k, v) \in Maps(K, V)
<1>1. Put(m, k, v) \in [DOMAIN m \cup {k} -> V]
  BY MapsMembership DEF Put
<1>2. DOMAIN m \cup {k} \in SUBSET K
  BY MapsMembership
<1> QED BY <1>1, <1>2 DEF Maps

LEMMA DropAllMaps ==
  ASSUME NEW K, NEW V, NEW m \in Maps(K, V), NEW ks
  PROVE  DropAll(m, ks) \in Maps(K, V)
<1>1. DropAll(m, ks) \in [DOMAIN m \ ks -> V]
  BY MapsMembership DEF DropAll
<1>2. DOMAIN m \ ks \in SUBSET K
  BY MapsMembership
<1> QED BY <1>1, <1>2 DEF Maps

LEMMA EmptyMaps ==
  ASSUME NEW K, NEW V
  PROVE  EmptyMap \in Maps(K, V)
<1>1. EmptyMap \in [{} -> V]
  BY DEF EmptyMap
<1> QED BY <1>1 DEF Maps

-----------------------------------------------------------------------------
(* What the steps of the loops do to the two maps they update.             *)

LEMMA OldResourcesType ==
  ASSUME TypeOK, NEW g
  PROVE  OldResources(g) \subseteq Resources
BY MapsMembership DEF TypeOK, OldResources, HasResgroup

LEMMA GetType ==
  ASSUME TypeOK, NEW res
  PROVE  /\ Get(res) \subseteq ResourceGroups
         /\ HasResource(res) => res \in Resources /\ Get(res) # {}
BY MapsMembership DEF TypeOK, Get, HasResource

LEMMA GetResourcesType ==
  ASSUME TypeOK, NEW gk
  PROVE  /\ GetResources(gk) \subseteq Resources
         /\ gk \in DOMAIN gkToResources => GetResources(gk) # {}
BY MapsMembership DEF TypeOK, GetResources

\* A resource that the loop forgets is listed under its kind (line 188).
LEMMA KindOfTracked ==
  ASSUME TypeOK, ByKind, NEW res, HasResource(res)
  PROVE  /\ GK[res] \in GroupKinds
         /\ GK[res] \in DOMAIN gkToResources
         /\ res \in gkToResources[GK[res]]
         /\ gkToResources[GK[res]] = GetResources(GK[res])
<1>1. res \in Resources
  BY GetType
<1>2. GK[res] \in GroupKinds
  BY <1>1, GKAssumption
<1>3. res \in GetResources(GK[res])
  BY <1>2 DEF ByKind, HasResource
<1> QED BY <1>2, <1>3 DEF GetResources

LEMMA RemoveFromKindType ==
  ASSUME TypeOK, ByKind, NEW res, HasResource(res)
  PROVE  RemoveFromKind(res) \in Maps(GroupKinds, (SUBSET Resources) \ {{}})
<1> DEFINE rest == gkToResources[GK[res]] \ {res}
<1>1. gkToResources \in Maps(GroupKinds, (SUBSET Resources) \ {{}})
  BY DEF TypeOK
<1>2. CASE rest = {}
  BY <1>1, <1>2, DropAllMaps DEF RemoveFromKind, Drop
<1>3. CASE rest # {}
  <2>1. GK[res] \in GroupKinds /\ rest \in (SUBSET Resources) \ {{}}
    BY <1>3, KindOfTracked, GetResourcesType
  <2> HIDE DEF rest
  <2>2. Put(gkToResources, GK[res], rest) \in Maps(GroupKinds, (SUBSET Resources) \ {{}})
    BY <1>1, <2>1, PutMaps
  <2> QED BY <1>3, <2>2 DEF RemoveFromKind, rest
<1> QED BY <1>2, <1>3

-----------------------------------------------------------------------------

LEMMA InitIInv == Init => IInv
<1> SUFFICES ASSUME Init PROVE IInv
  OBVIOUS
<1>1. TypeOK
  BY EmptyMaps DEF Init, TypeOK
<1>2. Inverse
  BY DEF Init, Inverse, Get, HasResource, Applied, OldResources, HasResgroup, EmptyMap
<1>3. ByKind
  BY DEF Init, ByKind, GetResources, EmptyMap
<1>4. CallOK
  BY DEF Init, CallOK
<1> QED BY <1>1, <1>2, <1>3, <1>4 DEF IInv

LEMMA NextTypeOK == IInv /\ [Next]_vars => TypeOK'
<1> SUFFICES ASSUME IInv, [Next]_vars PROVE TypeOK'
  OBVIOUS
<1> USE DEF IInv
<1>1. CASE UNCHANGED vars
  BY <1>1 DEF vars, maps, call, TypeOK
<1>2. ASSUME NEW g \in ResourceGroups, NEW R \in SUBSET Resources, NEW del \in BOOLEAN, Diff(g, R, del)
      PROVE  TypeOK'
  BY <1>2, OldResourcesType DEF Diff, maps, TypeOK
<1>3. CASE Lock
  BY <1>3 DEF Lock, maps, call, TypeOK
<1>4. ASSUME NEW res \in Resources, RemoveGroup(res) PROVE TypeOK'
  <2>1. /\ pc' \in {"idle", "diffed", "locked"}
        /\ group' \in ResourceGroups \cup {None}
        /\ resources' \in SUBSET Resources
        /\ deleteRG' \in BOOLEAN
        /\ toAdd' \in SUBSET Resources
        /\ toDelete' \in SUBSET Resources
        /\ gks' \in SUBSET GroupKinds
        /\ resgroupToResources' \in Maps(ResourceGroups, SUBSET Resources)
    BY <1>4 DEF RemoveGroup, maps, call, TypeOK
  <2>2. CASE ~HasResource(res)
    BY <1>4, <2>1, <2>2 DEF RemoveGroup, maps, TypeOK
  <2>3. CASE HasResource(res) /\ LastGroupOf(res)
    <3>1. resToResgroups' \in Maps(Resources, (SUBSET ResourceGroups) \ {{}})
      BY <1>4, <2>3, DropAllMaps DEF RemoveGroup, TypeOK, Drop
    <3>2. resToStatus' \in Maps(Resources, Statuses \cup {NoStatus})
      BY <1>4, <2>3, DropAllMaps DEF RemoveGroup, TypeOK, Drop
    <3>3. gkToResources' \in Maps(GroupKinds, (SUBSET Resources) \ {{}})
      BY <1>4, <2>3, RemoveFromKindType DEF RemoveGroup
    <3> QED BY <2>1, <3>1, <3>2, <3>3 DEF TypeOK
  <2>4. CASE HasResource(res) /\ ~LastGroupOf(res)
    <3> DEFINE rest == resToResgroups[res] \ {group}
    <3>1. rest \in (SUBSET ResourceGroups) \ {{}}
      BY <2>4, GetType DEF LastGroupOf, Get
    <3> HIDE DEF rest
    <3>2. Put(resToResgroups, res, rest) \in Maps(Resources, (SUBSET ResourceGroups) \ {{}})
      BY <3>1, PutMaps DEF TypeOK
    <3>3. resToResgroups' = Put(resToResgroups, res, rest)
          /\ UNCHANGED <<resToStatus, gkToResources>>
      BY <1>4, <2>4 DEF RemoveGroup, rest
    <3> QED BY <2>1, <3>2, <3>3 DEF TypeOK
  <2> QED BY <2>2, <2>3, <2>4
<1>5. ASSUME NEW res \in Resources, AddGroup(res) PROVE TypeOK'
  <2>1. Get(res) \cup {group} \in (SUBSET ResourceGroups) \ {{}}
    BY <1>5, GetType DEF AddGroup, CallOK
  <2>2. resToResgroups' \in Maps(Resources, (SUBSET ResourceGroups) \ {{}})
    BY <1>5, <2>1, PutMaps DEF AddGroup, TypeOK
  <2>3. GK[res] \in GroupKinds /\ GetResources(GK[res]) \cup {res} \in (SUBSET Resources) \ {{}}
    BY GetResourcesType, GKAssumption
  <2>4. Put(gkToResources, GK[res], GetResources(GK[res]) \cup {res})
          \in Maps(GroupKinds, (SUBSET Resources) \ {{}})
    BY <2>3, PutMaps DEF TypeOK
  <2> QED BY <1>5, <2>2, <2>4 DEF AddGroup, call, TypeOK
<1>6. CASE Unlock
  <2>1. gks' \in SUBSET GroupKinds
    BY <1>6, GKAssumption, MapsMembership DEF Unlock, TypeOK
  <2>2. resgroupToResources' \in Maps(ResourceGroups, SUBSET Resources)
    BY <1>6, PutMaps, DropAllMaps DEF Unlock, TypeOK, CallOK, Drop
  <2> QED BY <1>6, <2>1, <2>2 DEF Unlock, TypeOK
<1>7. ASSUME NEW res \in Resources, NEW st \in Statuses \cup {NoStatus}, SetStatus(res, st)
      PROVE  TypeOK'
  <2>1. resToStatus' \in Maps(Resources, Statuses \cup {NoStatus})
    BY <1>7, PutMaps DEF SetStatus, TypeOK
  <2> QED BY <1>7, <2>1 DEF SetStatus, call, TypeOK
<1> QED BY <1>1, <1>2, <1>3, <1>4, <1>5, <1>6, <1>7 DEF Next

LEMMA NextCallOK == IInv /\ [Next]_vars => CallOK'
<1> SUFFICES ASSUME IInv, [Next]_vars PROVE CallOK'
  OBVIOUS
<1> USE DEF IInv
<1>1. CASE UNCHANGED vars
  BY <1>1 DEF vars, maps, call, CallOK, OldResources, HasResgroup
<1>2. ASSUME NEW g \in ResourceGroups, NEW R \in SUBSET Resources, NEW del \in BOOLEAN, Diff(g, R, del)
      PROVE  CallOK'
  BY <1>2 DEF Diff, maps, CallOK, OldResources, HasResgroup
<1>3. CASE Lock
  BY <1>3 DEF Lock, maps, call, CallOK, OldResources, HasResgroup
<1>4. ASSUME NEW res \in Resources, RemoveGroup(res) PROVE CallOK'
  BY <1>4 DEF RemoveGroup, maps, call, CallOK, OldResources, HasResgroup
<1>5. ASSUME NEW res \in Resources, AddGroup(res) PROVE CallOK'
  BY <1>5 DEF AddGroup, call, CallOK, OldResources, HasResgroup
<1>6. CASE Unlock
  BY <1>6 DEF Unlock, CallOK
<1>7. ASSUME NEW res \in Resources, NEW st \in Statuses \cup {NoStatus}, SetStatus(res, st)
      PROVE  CallOK'
  BY <1>7 DEF SetStatus, call, CallOK, OldResources, HasResgroup
<1> QED BY <1>1, <1>2, <1>3, <1>4, <1>5, <1>6, <1>7 DEF Next

LEMMA NextInverse == IInv /\ [Next]_vars => Inverse'
<1> SUFFICES ASSUME IInv, [Next]_vars, NEW r \in Resources
             PROVE  Get(r)' = {g \in ResourceGroups : r \in Applied(g)'}
  BY DEF Inverse
<1> USE DEF IInv
<1>0. Get(r) = {g \in ResourceGroups : r \in Applied(g)}
  BY DEF Inverse
<1>1. CASE UNCHANGED vars
  BY <1>0, <1>1 DEF vars, maps, call, Get, HasResource, Applied, OldResources, HasResgroup
<1>2. ASSUME NEW g \in ResourceGroups, NEW R \in SUBSET Resources, NEW del \in BOOLEAN, Diff(g, R, del)
      PROVE  Get(r)' = {h \in ResourceGroups : r \in Applied(h)'}
  <2>1. \A h \in ResourceGroups : r \in Applied(h)' <=> r \in Applied(h)
    BY <1>2, NoneAssumption DEF Diff, maps, CallOK, Applied, OldResources, HasResgroup
  <2>2. Get(r)' = Get(r)
    BY <1>2 DEF Diff, maps, Get, HasResource
  <2> QED BY <1>0, <2>1, <2>2
<1>3. CASE Lock
  BY <1>0, <1>3 DEF Lock, maps, call, Get, HasResource, Applied, OldResources, HasResgroup
<1>4. ASSUME NEW res \in Resources, RemoveGroup(res)
      PROVE  Get(r)' = {g \in ResourceGroups : r \in Applied(g)'}
  <2>1. group \in ResourceGroups
    BY <1>4 DEF RemoveGroup, CallOK
  <2>2. \A g \in ResourceGroups :
          r \in Applied(g)' <=> r \in Applied(g) /\ ~(r = res /\ g = group)
    BY <1>4 DEF RemoveGroup, call, maps, CallOK, Applied, OldResources, HasResgroup
  <2>3. Get(r)' = IF r = res THEN Get(r) \ {group} ELSE Get(r)
    <3>1. CASE ~HasResource(res)
      BY <1>4, <3>1 DEF RemoveGroup, maps, Get, HasResource
    <3>2. CASE HasResource(res) /\ LastGroupOf(res)
      BY <1>4, <3>2 DEF RemoveGroup, Get, HasResource, LastGroupOf, Drop, DropAll
    <3>3. CASE HasResource(res) /\ ~LastGroupOf(res)
      BY <1>4, <3>3 DEF RemoveGroup, Get, HasResource, LastGroupOf, Put
    <3> QED BY <3>1, <3>2, <3>3
  <2> QED BY <1>0, <2>2, <2>3
<1>5. ASSUME NEW res \in Resources, AddGroup(res)
      PROVE  Get(r)' = {g \in ResourceGroups : r \in Applied(g)'}
  <2>1. group \in ResourceGroups
    BY <1>5 DEF AddGroup, CallOK
  <2>2. \A g \in ResourceGroups :
          r \in Applied(g)' <=> r \in Applied(g) \/ (r = res /\ g = group)
    BY <1>5 DEF AddGroup, call, CallOK, Applied, OldResources, HasResgroup
  <2>3. Get(r)' = IF r = res THEN Get(r) \cup {group} ELSE Get(r)
    BY <1>5 DEF AddGroup, Get, HasResource, Put
  <2> QED BY <1>0, <2>1, <2>2, <2>3
<1>6. CASE Unlock
  <2>1. \A g \in ResourceGroups : r \in Applied(g)' <=> r \in Applied(g)
    BY <1>6, NoneAssumption
       DEF Unlock, CallOK, Applied, OldResources, HasResgroup, Put, Drop, DropAll
  <2>2. Get(r)' = Get(r)
    BY <1>6 DEF Unlock, Get, HasResource
  <2> QED BY <1>0, <2>1, <2>2
<1>7. ASSUME NEW res \in Resources, NEW st \in Statuses \cup {NoStatus}, SetStatus(res, st)
      PROVE  Get(r)' = {g \in ResourceGroups : r \in Applied(g)'}
  BY <1>0, <1>7 DEF SetStatus, call, Get, HasResource, Applied, OldResources, HasResgroup
<1> QED BY <1>1, <1>2, <1>3, <1>4, <1>5, <1>6, <1>7 DEF Next

LEMMA NextByKind == IInv /\ [Next]_vars => ByKind'
<1> SUFFICES ASSUME IInv, [Next]_vars, NEW gk \in GroupKinds
             PROVE  GetResources(gk)' = {r \in DOMAIN resToResgroups' : GK[r] = gk}
  BY DEF ByKind
<1> USE DEF IInv
<1>0. GetResources(gk) = {r \in DOMAIN resToResgroups : GK[r] = gk}
  BY DEF ByKind
<1>1. CASE UNCHANGED <<resToResgroups, gkToResources>>
  BY <1>0, <1>1 DEF GetResources
<1>2. ASSUME NEW res \in Resources, RemoveGroup(res), HasResource(res), LastGroupOf(res)
      PROVE  GetResources(gk)' = {r \in DOMAIN resToResgroups' : GK[r] = gk}
  <2>1. DOMAIN resToResgroups' = DOMAIN resToResgroups \ {res}
    BY <1>2 DEF RemoveGroup, Drop, DropAll
  <2>2. GetResources(gk)' = IF GK[res] = gk THEN GetResources(gk) \ {res} ELSE GetResources(gk)
    <3>1. gkToResources' = RemoveFromKind(res)
      BY <1>2 DEF RemoveGroup
    <3>2. GK[res] \in DOMAIN gkToResources
      BY <1>2, KindOfTracked
    <3>3. CASE gkToResources[GK[res]] \ {res} = {}
      BY <3>1, <3>2, <3>3 DEF RemoveFromKind, GetResources, Drop, DropAll
    <3>4. CASE gkToResources[GK[res]] \ {res} # {}
      BY <3>1, <3>2, <3>4 DEF RemoveFromKind, GetResources, Put
    <3> QED BY <3>3, <3>4
  <2> QED BY <1>0, <2>1, <2>2
<1>3. ASSUME NEW res \in Resources, RemoveGroup(res), HasResource(res), ~LastGroupOf(res)
      PROVE  GetResources(gk)' = {r \in DOMAIN resToResgroups' : GK[r] = gk}
  BY <1>0, <1>3 DEF RemoveGroup, GetResources, HasResource, Put
<1>4. ASSUME NEW res \in Resources, AddGroup(res)
      PROVE  GetResources(gk)' = {r \in DOMAIN resToResgroups' : GK[r] = gk}
  <2>1. DOMAIN resToResgroups' = DOMAIN resToResgroups \cup {res}
    BY <1>4 DEF AddGroup, Put
  <2>2. CASE HasResource(res)
    BY <1>0, <1>4, <2>1, <2>2 DEF AddGroup, GetResources, HasResource
  <2>3. CASE ~HasResource(res)
    <3>1. GetResources(gk)' = IF GK[res] = gk THEN GetResources(gk) \cup {res} ELSE GetResources(gk)
      BY <1>4, <2>3 DEF AddGroup, GetResources, Put
    <3> QED BY <1>0, <2>1, <3>1
  <2> QED BY <2>2, <2>3
<1>5. \/ UNCHANGED <<resToResgroups, gkToResources>>
      \/ \E res \in Resources : (RemoveGroup(res) /\ HasResource(res)) \/ AddGroup(res)
  BY DEF Next, vars, Diff, Lock, Unlock, SetStatus, RemoveGroup, maps
<1> QED BY <1>1, <1>2, <1>3, <1>4, <1>5

LEMMA NextIInv == IInv /\ [Next]_vars => IInv'
BY NextTypeOK, NextInverse, NextByKind, NextCallOK DEF IInv

THEOREM InductiveInvariant == Spec => []IInv
BY InitIInv, NextIInv, PTL DEF Spec

-----------------------------------------------------------------------------

(***************************************************************************)
(* Every map of the code keeps its type: in particular no key of           *)
(* resToResgroups or gkToResources is left with an empty set, whatever     *)
(* Reconcile is called with.                                               *)
(***************************************************************************)
THEOREM TypeCorrect == Spec => []TypeOK
BY InductiveInvariant, PTL DEF IInv

(***************************************************************************)
(* The reverse map, the GroupKind map and the groups' own entries agree    *)
(* whenever the lock of resourcemap.go:135 is free.                        *)
(***************************************************************************)
THEOREM Consistency == Spec => []IndexConsistent
<1>1. IInv => IndexConsistent
  <2> SUFFICES ASSUME IInv, LockFree PROVE IndexConsistent
    BY DEF IndexConsistent
  <2>1. \A g \in ResourceGroups : Applied(g) = OldResources(g)
    <3>1. CASE pc = "idle"
      BY <3>1, NoneAssumption DEF IInv, CallOK, Applied
    <3>2. CASE pc = "diffed"
      BY <3>2 DEF IInv, CallOK, Applied
    <3> QED BY <3>1, <3>2 DEF LockFree, IInv, TypeOK
  <2>2. \A res \in Resources : Get(res) = {g \in ResourceGroups : res \in OldResources(g)}
    BY <2>1 DEF IInv, Inverse
  <2>3. TypeOK /\ ByKind
    BY DEF IInv
  <2>4. \A res \in Resources : HasResource(res) => Get(res) # {}
    BY <2>3, GetType
  <2>5. \A gk \in GroupKinds : gk \in DOMAIN gkToResources => GetResources(gk) # {}
    BY <2>3, GetResourcesType
  <2> QED BY <2>2, <2>3, <2>4, <2>5 DEF IndexConsistent, ByKind
<1> QED BY <1>1, InductiveInvariant, PTL

(***************************************************************************)
(* resourcemap.go:188 never dereferences a nil set.                        *)
(***************************************************************************)
THEOREM NoPanic == Spec => []NoNilDereference
<1>1. IInv => NoNilDereference
  BY KindOfTracked DEF IInv, NoNilDereference
<1> QED BY <1>1, InductiveInvariant, PTL

(***************************************************************************)
(* What Reconcile returned at line 231 stays the key set of gkToResources  *)
(* until the next call takes the lock: the CRD event handler looks         *)
(* resources up by the kinds that Root watches.                            *)
(***************************************************************************)
WatchSetExact == LockFree => gks = DOMAIN gkToResources

THEOREM WatchSet == Spec => []WatchSetExact
<1>1. Init => WatchSetExact
  BY DEF Init, WatchSetExact, EmptyMap
<1>2. IInv /\ WatchSetExact /\ [Next]_vars => WatchSetExact'
  <2> SUFFICES ASSUME IInv, WatchSetExact, [Next]_vars PROVE WatchSetExact'
    OBVIOUS
  <2>1. CASE Unlock
    <3>1. DOMAIN gkToResources \subseteq GroupKinds
      BY MapsMembership DEF IInv, TypeOK
    <3>2. \A res \in DOMAIN resToResgroups : GK[res] \in DOMAIN gkToResources
      BY KindOfTracked DEF IInv, HasResource
    <3>3. \A gk \in DOMAIN gkToResources : \E res \in DOMAIN resToResgroups : GK[res] = gk
      BY <3>1, GetResourcesType DEF IInv, ByKind
    <3> QED BY <2>1, <3>2, <3>3 DEF Unlock, WatchSetExact
  <2>2. CASE UNCHANGED <<gks, gkToResources>> /\ (LockFree' => LockFree)
    BY <2>2 DEF WatchSetExact
  <2>3. CASE ~LockFree'
    BY <2>3 DEF WatchSetExact
  <2>4. \/ Unlock
        \/ UNCHANGED <<gks, gkToResources>> /\ (LockFree' => LockFree)
        \/ ~LockFree'
    BY DEF Next, vars, Diff, Lock, SetStatus, RemoveGroup, AddGroup, maps, call, LockFree
  <2> QED BY <2>1, <2>2, <2>3, <2>4
<1> QED BY <1>1, <1>2, InductiveInvariant, PTL DEF Spec

-----------------------------------------------------------------------------
(* ResourceMap implements ResourceIndex.                                   *)

\* What SetMembers and DeleteGroup of the index forget is what the delete
\* loop is about to forget when the call takes the lock.
LEMMA ForgottenAtLock ==
  ASSUME IInv, pc = "diffed"
  PROVE  Forgotten = (OldResources(group) \ resources)
                       \ UNION {resgroupToResources[h] : h \in DOMAIN resgroupToResources \ {group}}
<1> DEFINE others == UNION {resgroupToResources[h] : h \in DOMAIN resgroupToResources \ {group}}
<1>1. toDelete = OldResources(group) \ resources
  BY DEF IInv, CallOK
<1>2. ASSUME NEW res \in toDelete
      PROVE  HasResource(res) /\ (LastGroupOf(res) <=> res \notin others)
  <2>1. res \in Resources
    BY <1>2 DEF IInv, TypeOK
  <2>2. \A g \in ResourceGroups : Applied(g) = OldResources(g)
    BY DEF IInv, CallOK, Applied
  <2>3. Get(res) = {g \in ResourceGroups : res \in OldResources(g)}
    BY <2>1, <2>2 DEF IInv, Inverse
  <2>4. group \in Get(res)
    BY <1>1, <2>3 DEF IInv, CallOK
  <2>5. HasResource(res)
    BY <2>4 DEF Get
  <2>6. DOMAIN resgroupToResources \subseteq ResourceGroups
    BY MapsMembership DEF IInv, TypeOK
  <2>7. LastGroupOf(res) <=> ~\E h \in ResourceGroups \ {group} : res \in OldResources(h)
    BY <2>3, <2>5 DEF Get, LastGroupOf
  <2>8. res \in others <=> \E h \in ResourceGroups \ {group} : res \in OldResources(h)
    BY <2>6 DEF OldResources, HasResgroup
  <2> QED BY <2>5, <2>7, <2>8
<1> QED BY <1>1, <1>2 DEF Forgotten

\* When the loops are done, what is tracked is what the groups include.
LEMMA TrackedIsCommitted ==
  ASSUME IInv, pc = "locked", toDelete = {}, toAdd = {}
  PROVE  DOMAIN resToResgroups = UNION {Committed[g] : g \in DOMAIN Committed}
<1>1. TypeOK /\ Inverse /\ CallOK /\ group \in ResourceGroups /\ resources \subseteq Resources
  BY DEF IInv, CallOK, TypeOK
<1>2. DOMAIN resgroupToResources \subseteq ResourceGroups
  BY <1>1, MapsMembership DEF TypeOK
<1>3. \A g \in ResourceGroups : Applied(g) = IF g = group THEN resources ELSE OldResources(g)
  BY DEF Applied
<1>4. \A g \in ResourceGroups :
        Applied(g) = IF g \in DOMAIN Committed THEN Committed[g] ELSE {}
  BY <1>1, <1>3
     DEF Committed, AfterCall, LockFree, CallOK, Put, Drop, DropAll, OldResources, HasResgroup
<1>5. DOMAIN Committed \subseteq ResourceGroups
  BY <1>1, <1>2 DEF Committed, AfterCall, LockFree, Put, Drop, DropAll
<1>6. \A res : res \in DOMAIN resToResgroups <=> res \in Resources /\ Get(res) # {}
  BY <1>1, GetType DEF Get, HasResource
<1>7. \A res : res \in DOMAIN resToResgroups <=> \E g \in ResourceGroups : res \in Applied(g)
  <2>1. \A g \in ResourceGroups : Applied(g) \subseteq Resources
    BY <1>1, <1>3, OldResourcesType
  <2> QED BY <1>1, <1>6, <2>1 DEF Inverse
<1> QED BY <1>4, <1>5, <1>7

(***************************************************************************)
(* Every behaviour of the four maps under the lock is one of the index     *)
(* that has no maps, lock or loops: Lock is where the call takes effect,   *)
(* SetStatus is CacheStatus, and no other step can be seen.  The kinds that*)
(* Unlock collects are those of the groups (resourcemap.go:216-220).       *)
(***************************************************************************)
THEOREM Refinement == Spec => ImplementsIndex
<1>1. Init => Index!IndexInit
  BY DEF Init, Index!IndexInit, Committed, Returned, LockFree, EmptyMap, Index!EmptyMap
<1>2. IInv /\ [Next]_vars => [Index!IndexNext]_(Index!ivars)
  <2> SUFFICES ASSUME IInv, [Next]_vars PROVE [Index!IndexNext]_(Index!ivars)
    OBVIOUS
  <2>1. CASE UNCHANGED vars
    <3>1. Committed' = Committed
      BY <2>1 DEF vars, maps, call, Committed, AfterCall, LockFree
    <3> QED BY <2>1, <3>1
            DEF vars, maps, call, Index!ivars, Returned, LockFree, Forgotten, HasResource, LastGroupOf
  <2>2. ASSUME NEW g \in ResourceGroups, NEW R \in SUBSET Resources, NEW del \in BOOLEAN, Diff(g, R, del)
        PROVE  UNCHANGED Index!ivars
    <3>1. LockFree /\ LockFree' /\ UNCHANGED <<resgroupToResources, resToStatus, gks>>
      BY <2>2 DEF Diff, maps, LockFree
    <3> QED BY <3>1 DEF Index!ivars, Committed, Returned
  <2>3. CASE Lock
    <3>1. group \in ResourceGroups /\ resources \in SUBSET Resources
      BY <2>3 DEF Lock, IInv, CallOK, TypeOK
    <3>2. /\ LockFree /\ ~LockFree'
          /\ UNCHANGED <<resgroupToResources, resToStatus, deleteRG, group, resources>>
          /\ Forgotten' = Forgotten
      BY <2>3 DEF Lock, LockFree, maps, call, Forgotten, HasResource, LastGroupOf
    <3>3. Forgotten = (OldResources(group) \ resources)
                        \ UNION {resgroupToResources[h] : h \in DOMAIN resgroupToResources \ {group}}
      BY <2>3, ForgottenAtLock DEF Lock
    <3>4. Committed = resgroupToResources /\ Committed' = AfterCall
      BY <3>2 DEF Committed, AfterCall
    <3>5. Index!Members(group) = OldResources(group)
          /\ Index!HeldByOthers(group)
               = UNION {resgroupToResources[h] : h \in DOMAIN resgroupToResources \ {group}}
      BY <3>4 DEF Index!Members, Index!HeldByOthers, OldResources, HasResgroup
    <3>6. \A m : Index!KindsOf(m) = {GK[res] : res \in UNION {m[g] : g \in DOMAIN m}}
      BY DEF Index!KindsOf
    <3>7. Returned' = Index!KindsOf(Committed')
      BY <3>2, <3>6 DEF Returned
    <3>8. CASE deleteRG
      <4>1. resources = {}
        BY <3>8 DEF IInv, CallOK
      <4>2. Committed' = Index!Drop(Committed, group)
        BY <3>4, <3>8 DEF AfterCall, Drop, DropAll, Index!Drop, Index!DropAll
      <4>3. DropAll(resToStatus', Forgotten')
              = Index!DropAll(resToStatus, Index!Members(group) \ Index!HeldByOthers(group))
        BY <3>2, <3>3, <3>5, <4>1 DEF DropAll, Index!DropAll
      <4>4. Index!DeleteGroup(group)
        BY <3>2, <3>7, <4>2, <4>3 DEF Index!DeleteGroup
      <4>5. Index!IndexNext
        BY <3>1, <4>4 DEF Index!IndexNext
      <4> QED BY <4>5
    <3>9. CASE ~deleteRG
      <4>1. Committed' = Index!Put(Committed, group, resources)
        BY <3>4, <3>9 DEF AfterCall, Put, Index!Put
      <4>2. DropAll(resToStatus', Forgotten')
              = Index!DropAll(resToStatus,
                              (Index!Members(group) \ resources) \ Index!HeldByOthers(group))
        BY <3>2, <3>3, <3>5 DEF DropAll, Index!DropAll
      <4>3. Index!SetMembers(group, resources)
        BY <3>2, <3>7, <4>1, <4>2 DEF Index!SetMembers
      <4>4. Index!IndexNext
        BY <3>1, <4>3 DEF Index!IndexNext
      <4> QED BY <4>4
    <3> QED BY <3>8, <3>9
  <2>4. ASSUME ~LockFree, ~LockFree', UNCHANGED <<resgroupToResources, deleteRG, group, resources>>,
               DropAll(resToStatus', Forgotten') = DropAll(resToStatus, Forgotten)
        PROVE  UNCHANGED Index!ivars
    <3>1. Committed' = Committed
      BY <2>4 DEF Committed, AfterCall
    <3> QED BY <2>4, <3>1 DEF Index!ivars, Returned
  <2>5. ASSUME NEW res \in Resources, RemoveGroup(res) PROVE UNCHANGED Index!ivars
    <3>1. ~LockFree /\ ~LockFree' /\ UNCHANGED <<resgroupToResources, deleteRG, group, resources>>
      BY <2>5 DEF RemoveGroup, LockFree, maps, call
    <3>2. CASE ~HasResource(res)
      <4>1. Forgotten' = Forgotten /\ resToStatus' = resToStatus
        BY <2>5, <3>2 DEF RemoveGroup, Forgotten, HasResource, LastGroupOf, maps, call
      <4> QED BY <2>4, <3>1, <4>1
    <3>3. CASE HasResource(res) /\ LastGroupOf(res)
      <4>1. res \in Forgotten
        BY <2>5, <3>3 DEF RemoveGroup, Forgotten
      <4>2. Forgotten' = Forgotten \ {res}
        BY <2>5, <3>3 DEF RemoveGroup, Forgotten, HasResource, LastGroupOf, call, Drop, DropAll
      <4>3. resToStatus' = Drop(resToStatus, res)
        BY <2>5, <3>3 DEF RemoveGroup
      <4>4. DropAll(resToStatus', Forgotten') = DropAll(resToStatus, Forgotten)
        BY <4>1, <4>2, <4>3 DEF Drop, DropAll
      <4> QED BY <2>4, <3>1, <4>4
    <3>4. CASE HasResource(res) /\ ~LastGroupOf(res)
      <4>1. Forgotten' = Forgotten /\ resToStatus' = resToStatus
        BY <2>5, <3>4 DEF RemoveGroup, Forgotten, HasResource, LastGroupOf, call, Put
      <4> QED BY <2>4, <3>1, <4>1
    <3> QED BY <3>2, <3>3, <3>4
  <2>6. ASSUME NEW res \in Resources, AddGroup(res) PROVE UNCHANGED Index!ivars
    <3>1. /\ ~LockFree /\ ~LockFree' /\ Forgotten = {} /\ Forgotten' = {}
          /\ UNCHANGED <<resgroupToResources, resToStatus, deleteRG, group, resources>>
      BY <2>6 DEF AddGroup, call, LockFree, Forgotten
    <3> QED BY <2>4, <3>1
  <2>7. ASSUME Unlock PROVE UNCHANGED Index!ivars
    <3>1. /\ ~LockFree /\ LockFree' /\ resToStatus' = resToStatus /\ Forgotten = {}
          /\ gks' = {GK[res] : res \in DOMAIN resToResgroups}
      BY <2>7 DEF Unlock, LockFree, Forgotten
    <3>2. resToStatus = DropAll(resToStatus, {})
      <4>1. resToStatus = [x \in DOMAIN resToStatus |-> resToStatus[x]]
        BY MapsMembership DEF IInv, TypeOK
      <4> QED BY <4>1 DEF DropAll
    <3>3. resgroupToResources' = AfterCall
      BY <2>7 DEF Unlock, IInv, CallOK, AfterCall
    <3>4. Committed = AfterCall /\ Committed' = resgroupToResources'
      BY <3>1 DEF Committed
    <3>5. gks' = {GK[res] : res \in UNION {Committed[g] : g \in DOMAIN Committed}}
      BY <2>7, <3>1, TrackedIsCommitted DEF Unlock
    <3> QED BY <3>1, <3>2, <3>3, <3>4, <3>5 DEF Index!ivars, Returned
  <2>8. ASSUME NEW res \in Resources, NEW st \in Statuses \cup {NoStatus}, SetStatus(res, st)
        PROVE  Index!CacheStatus(res, st)
    <3>1. /\ LockFree /\ LockFree' /\ resToStatus' = Put(resToStatus, res, st)
          /\ UNCHANGED <<resgroupToResources, gks>>
      BY <2>8 DEF SetStatus, LockFree
    <3> QED BY <3>1 DEF Committed, Returned, Index!CacheStatus, Index!Put, Put
  <2> QED BY <2>1, <2>2, <2>3, <2>5, <2>6, <2>7, <2>8 DEF Next, Index!IndexNext
<1> QED BY <1>1, <1>2, InductiveInvariant, PTL DEF Spec, ImplementsIndex, Index!IndexSpec

=============================================================================
