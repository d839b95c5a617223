--------------------------- MODULE ResourceIndex ---------------------------
(***************************************************************************)
(* What resourcemap.ResourceMap promises its callers, without its four     *)
(* maps, its lock and its loops: the resources of each ResourceGroup and a *)
(* cached status per resource, each operation taking effect at once.  The  *)
(* reverse map and the map from GroupKinds are functions of the members,   *)
(* and so is what Reconcile returns: the GroupKinds to watch.              *)
(***************************************************************************)
EXTENDS GoMaps

CONSTANTS
  ResourceGroups,  \* names of ResourceGroup CRs (types.NamespacedName)
  Resources,       \* resources a CR can list (v1alpha1.ObjMetadata)
  GK,              \* the GroupKind of a resource
  Statuses,        \* computed statuses (*CachedStatus)
  NoStatus         \* the nil *CachedStatus

VARIABLES
  members,  \* ResourceGroup -> the resources it includes
  cache,    \* resource -> its cached status
  kinds     \* what the last change has returned

ivars == <<members, cache, kinds>>

\* The resources that some group other than g includes.
HeldByOthers(g) == UNION {members[h] : h \in DOMAIN members \ {g}}

Members(g) == IF g \in DOMAIN members THEN members[g] ELSE {}

KindsOf(m) == {GK[r] : r \in UNION {m[g] : g \in DOMAIN m}}

IndexInit ==
  /\ members = EmptyMap
  /\ cache = EmptyMap
  /\ kinds = {}

(***************************************************************************)
(* Group g now includes exactly R.  The cached status of a resource is     *)
(* forgotten when the last group that includes it lets it go, and only     *)
(* then.  The kinds of all groups are returned.                            *)
(***************************************************************************)
SetMembers(g, R) ==
  /\ members' = Put(members, g, R)
  /\ cache' = DropAll(cache, (Members(g) \ R) \ HeldByOthers(g))
  /\ kinds' = KindsOf(members')

DeleteGroup(g) ==
  /\ members' = Drop(members, g)
  /\ cache' = DropAll(cache, Members(g) \ HeldByOthers(g))
  /\ kinds' = KindsOf(members')

CacheStatus(r, s) ==
  /\ cache' = Put(cache, r, s)
  /\ UNCHANGED <<members, kinds>>

IndexNext ==
  \/ \E g \in ResourceGroups : DeleteGroup(g) \/ \E R \in SUBSET Resources : SetMembers(g, R)
  \/ \E r \in Resources, s \in Statuses \cup {NoStatus} : CacheStatus(r, s)

IndexSpec == IndexInit /\ [][IndexNext]_ivars

=============================================================================
