---------------------------- MODULE ResourceMap ----------------------------
(***************************************************************************)
(* controllers/resourcemap: the index shared by the Root controller, the   *)
(* ResourceGroup controller, the watchers and the CRD event handler.       *)
(*                                                                         *)
(* Reconcile is the one operation that holds the lock over many steps: it  *)
(* computes the difference between the old and the new resources before it *)
(* takes the lock, then updates three maps resource by resource.  It is    *)
(* called by the single worker of the Root controller.  Every other        *)
(* operation is one read or one write under the lock, hence one step that  *)
(* can only happen while Reconcile is outside its critical section.        *)
(*                                                                         *)
(* The lists of resources of the code are sets here: adding or removing a  *)
(* resource twice is the same as doing it once, and the order in which a   *)
(* Go map is ranged over is not defined.                                   *)
(***************************************************************************)
EXTENDS GoMaps

CONSTANTS
  ResourceGroups, Resources, GroupKinds,
  GK,              \* the GroupKind of a resource (ObjMetadata.GK)
  Statuses, NoStatus,
  None             \* the group of no call

ASSUME GKAssumption == GK \in [Resources -> GroupKinds]
ASSUME NoneAssumption == None \notin ResourceGroups

VARIABLES
  resToResgroups,       \* resource -> the groups that include it
  resToStatus,          \* resource -> its cached status
  resgroupToResources,  \* group -> its resources
  gkToResources,        \* GroupKind -> the included resources of that kind
  \* The call of Reconcile in progress.
  pc,                   \* "idle", "diffed" (before Lock) or "locked"
  group, resources, deleteRG, toAdd, toDelete,
  gks                   \* what the last call of Reconcile returned

maps == <<resToResgroups, resToStatus, resgroupToResources, gkToResources>>
call == <<group, resources, deleteRG>>
vars == <<maps, pc, call, toAdd, toDelete, gks>>

TypeOK ==
  /\ resToResgroups \in Maps(Resources, (SUBSET ResourceGroups) \ {{}})
  /\ resToStatus \in Maps(Resources, Statuses \cup {NoStatus})
  /\ resgroupToResources \in Maps(ResourceGroups, SUBSET Resources)
  /\ gkToResources \in Maps(GroupKinds, (SUBSET Resources) \ {{}})
  /\ pc \in {"idle", "diffed", "locked"}
  /\ group \in ResourceGroups \cup {None}
  /\ resources \in SUBSET Resources
  /\ deleteRG \in BOOLEAN
  /\ toAdd \in SUBSET Resources
  /\ toDelete \in SUBSET Resources
  /\ gks \in SUBSET GroupKinds

-----------------------------------------------------------------------------
(* What the read operations return.                                        *)

LockFree == pc # "locked"

HasResource(res) == res \in DOMAIN resToResgroups
HasResgroup(g) == g \in DOMAIN resgroupToResources
Get(res) == IF HasResource(res) THEN resToResgroups[res] ELSE {}
GetStatus(res) == IF res \in DOMAIN resToStatus THEN resToStatus[res] ELSE NoStatus
GetResources(gk) == IF gk \in DOMAIN gkToResources THEN gkToResources[gk] ELSE {}

-----------------------------------------------------------------------------
(* Reconcile.                                                              *)

Init ==
  /\ resToResgroups = EmptyMap
  /\ resToStatus = EmptyMap
  /\ resgroupToResources = EmptyMap
  /\ gkToResources = EmptyMap
  /\ pc = "idle"
  /\ group = None
  /\ resources = {}
  /\ deleteRG = FALSE
  /\ toAdd = {}
  /\ toDelete = {}
  /\ gks = {}

OldResources(g) == IF HasResgroup(g) THEN resgroupToResources[g] ELSE {}

(***************************************************************************)
(* The call begins.  The old resources are read without the lock.          *)
(***************************************************************************)
Diff(g, R, del) ==
  LET new == IF del THEN {} ELSE R IN
  /\ pc = "idle"
  /\ pc' = "diffed"
  /\ group' = g
  /\ resources' = new
  /\ deleteRG' = del
  /\ toAdd' = new \ OldResources(g)
  /\ toDelete' = OldResources(g) \ new
  /\ UNCHANGED <<maps, gks>>

Lock ==
  /\ pc = "diffed"
  /\ pc' = "locked"
  /\ UNCHANGED <<maps, call, toAdd, toDelete, gks>>

\* groups.Len() == 0 once the group of the call has been removed
LastGroupOf(res) == resToResgroups[res] \ {group} = {}

\* Bugs: the key of a kind goes with any of its resources; it never goes.
RemoveKind(res) == Drop(gkToResources, GK[res])
RemoveFromSetOnly(res) == Put(gkToResources, GK[res], gkToResources[GK[res]] \ {res})

\* The set of gk without res; the key goes with the last resource.
RemoveFromKind(res) ==
  LET rest == gkToResources[GK[res]] \ {res} IN
  IF rest = {} THEN Drop(gkToResources, GK[res]) ELSE Put(gkToResources, GK[res], rest)

\* Bug: the status is forgotten although another group includes res.
RemoveGroupAndStatus(res) ==
  /\ pc = "locked"
  /\ res \in toDelete
  /\ toDelete' = toDelete \ {res}
  /\ resToStatus' = Drop(resToStatus, res)
  /\ IF LastGroupOf(res)
     THEN resToResgroups' = Drop(resToResgroups, res) /\ gkToResources' = RemoveFromKind(res)
     ELSE /\ resToResgroups' = Put(resToResgroups, res, resToResgroups[res] \ {group})
          /\ UNCHANGED gkToResources
  /\ UNCHANGED <<resgroupToResources, pc, call, toAdd, gks>>

(***************************************************************************)
(* One iteration over toDelete.                                            *)
(***************************************************************************)
RemoveGroup(res) ==
  /\ pc = "locked"
  /\ res \in toDelete
  /\ toDelete' = toDelete \ {res}
  /\ IF ~HasResource(res)
     THEN UNCHANGED maps
     ELSE IF LastGroupOf(res)
     THEN /\ resToResgroups' = Drop(resToResgroups, res)
          /\ resToStatus' = Drop(resToStatus, res)
          /\ gkToResources' = RemoveFromKind(res)
          /\ UNCHANGED resgroupToResources
     ELSE /\ resToResgroups' = Put(resToResgroups, res, resToResgroups[res] \ {group})
          /\ UNCHANGED <<resToStatus, gkToResources, resgroupToResources>>
  /\ UNCHANGED <<pc, call, toAdd, gks>>

\* Bug: no else branch at line 208, a kind that has a set is not extended.
AddGroupOfNewKind(res) ==
  /\ pc = "locked"
  /\ toDelete = {}
  /\ res \in toAdd
  /\ toAdd' = toAdd \ {res}
  /\ resToResgroups' = Put(resToResgroups, res, Get(res) \cup {group})
  /\ gkToResources' = IF GK[res] \in DOMAIN gkToResources THEN gkToResources
                      ELSE Put(gkToResources, GK[res], {res})
  /\ UNCHANGED <<resToStatus, resgroupToResources, pc, call, toDelete, gks>>

(***************************************************************************)
(* One iteration over toAdd, after every iteration over toDelete.          *)
(***************************************************************************)
AddGroup(res) ==
  /\ pc = "locked"
  /\ toDelete = {}
  /\ res \in toAdd
  /\ toAdd' = toAdd \ {res}
  /\ resToResgroups' = Put(resToResgroups, res, Get(res) \cup {group})
  /\ gkToResources' = IF HasResource(res) THEN gkToResources
                      ELSE Put(gkToResources, GK[res], GetResources(GK[res]) \cup {res})
  /\ UNCHANGED <<resToStatus, resgroupToResources, pc, call, toDelete, gks>>

\* Bug: only the kinds of this group are returned.
UnlockOwnKinds ==
  /\ pc = "locked"
  /\ toDelete = {}
  /\ toAdd = {}
  /\ gks' = {GK[res] : res \in resources}
  /\ resgroupToResources' = IF deleteRG THEN Drop(resgroupToResources, group)
                            ELSE Put(resgroupToResources, group, resources)
  /\ pc' = "idle"
  /\ group' = None
  /\ resources' = {}
  /\ deleteRG' = FALSE
  /\ UNCHANGED <<resToResgroups, resToStatus, gkToResources, toAdd, toDelete>>

(***************************************************************************)
(* The end of the critical section: the GroupKinds to watch are collected, *)
(* the group's own entry is written, and the lock is released.             *)
(***************************************************************************)
Unlock ==
  /\ pc = "locked"
  /\ toDelete = {}
  /\ toAdd = {}
  /\ gks' = {GK[res] : res \in DOMAIN resToResgroups}
  /\ resgroupToResources' = IF resources = {} /\ deleteRG
                            THEN Drop(resgroupToResources, group)
                            ELSE Put(resgroupToResources, group, resources)
  /\ pc' = "idle"
  /\ group' = None
  /\ resources' = {}
  /\ deleteRG' = FALSE
  /\ UNCHANGED <<resToResgroups, resToStatus, gkToResources, toAdd, toDelete>>

(***************************************************************************)
(* SetStatus: called by the watchers and the ResourceGroup controller with *)
(* a computed status, and by the CRD event handler with nil.  None of the  *)
(* callers holds the lock since it last looked res up.                     *)
(***************************************************************************)
SetStatus(res, s) ==
  /\ LockFree
  /\ resToStatus' = Put(resToStatus, res, s)
  /\ UNCHANGED <<resToResgroups, resgroupToResources, gkToResources, pc, call, toAdd, toDelete, gks>>

Next ==
  \/ \E g \in ResourceGroups, R \in SUBSET Resources : Diff(g, R, FALSE)
  \/ \E g \in ResourceGroups : Diff(g, {}, TRUE)
  \/ Lock
  \/ \E res \in Resources : RemoveGroup(res) \/ AddGroup(res)
  \/ Unlock
  \/ \E res \in Resources, s \in Statuses \cup {NoStatus} : SetStatus(res, s)

Spec == Init /\ [][Next]_vars

-----------------------------------------------------------------------------
(* Properties.                                                             *)

(***************************************************************************)
(* Whenever a reader can take the lock, resToResgroups is the inverse of   *)
(* resgroupToResources and gkToResources partitions its keys by GroupKind: *)
(* "the updates to these two maps should be atomic" (resourcemap.go:132).  *)
(* A resource or a GroupKind that nothing includes has no key: HasResource *)
(* and the watch set are computed from the keys.                           *)
(***************************************************************************)
IndexConsistent ==
  LockFree =>
    /\ \A res \in Resources :
         /\ Get(res) = {g \in ResourceGroups : res \in OldResources(g)}
         /\ HasResource(res) => Get(res) # {}
    /\ \A gk \in GroupKinds :
         /\ GetResources(gk) = {res \in DOMAIN resToResgroups : GK[res] = gk}
         /\ gk \in DOMAIN gkToResources => GetResources(gk) # {}

(***************************************************************************)
(* The delete loop calls gkToResources[gk].Remove(res) without looking gk  *)
(* up first (resourcemap.go:188): a missing key is a nil pointer and the   *)
(* process panics with the lock held.  The set is there whenever the loop  *)
(* gets to res, whatever its earlier iterations removed.                   *)
(***************************************************************************)
NoNilDereference ==
  pc = "locked" =>
    \A res \in toDelete :
      HasResource(res) /\ LastGroupOf(res) => res \in GetResources(GK[res])

(***************************************************************************)
(* The lock makes the four maps one index: every call of Reconcile takes   *)
(* effect at once, where it takes the lock.  From there on the status of   *)
(* every resource that no other group includes counts as forgotten,        *)
(* although the loop has not come to it yet.  What the call returns, from  *)
(* which Root computes the watches, are the kinds of all groups            *)
(* (resourcemap.go:216-232).                                               *)
(***************************************************************************)
Forgotten == {res \in toDelete : HasResource(res) /\ LastGroupOf(res)}
AfterCall ==
  IF deleteRG THEN Drop(resgroupToResources, group)
  ELSE Put(resgroupToResources, group, resources)
Committed == IF LockFree THEN resgroupToResources ELSE AfterCall
Returned ==
  IF LockFree THEN gks ELSE {GK[res] : res \in UNION {Committed[g] : g \in DOMAIN Committed}}

Index == INSTANCE ResourceIndex WITH
  members <- Committed,
  cache <- IF LockFree THEN resToStatus ELSE DropAll(resToStatus, Forgotten),
  kinds <- Returned

ImplementsIndex == Index!IndexSpec

=============================================================================
