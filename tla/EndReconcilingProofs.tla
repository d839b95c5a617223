------------------------ MODULE EndReconcilingProofs ------------------------
(***************************************************************************)
(* What the rules of StatusRules promise for every status, and what        *)
(* EndReconciling promises for any specs, objects, inventory IDs and number*)
(* of reconciles: a finished status is whole and says each ownership once, *)
(* and a failure is recorded.                                              *)
(*                                                                         *)
(* The second part needs to know what the statuses of each goroutine are   *)
(* of, and what newStatus has when the worker takes it.                    *)
(***************************************************************************)
EXTENDS EndReconciling, FiniteSetTheorems, TLAPS

-----------------------------------------------------------------------------
(* The rules.                                                              *)

(***************************************************************************)
(* ActuationStatusToLegacy leaves what it has made as it is: a published   *)
(* status alone never passes the filter of Root (root_controller.go:279),  *)
(* and the controller does not start itself again.                         *)
(***************************************************************************)
THEOREM LegacyIsIdempotent ==
  ASSUME NEW s \in ResourceStatus
  PROVE  ~NeedsUpdate([s EXCEPT !.status = Legacy(s)])
<1> DEFINE t == [s EXCEPT !.status = Legacy(s)]
<1>1. /\ t.status = Legacy(s) /\ t.actuation = s.actuation /\ t.reconcile = s.reconcile
  BY DEF ResourceStatus
<1>2. CASE s.status = "NotFound"
  BY <1>1, <1>2 DEF Legacy, NeedsUpdate
<1>3. CASE s.status # "NotFound" /\ s.actuation \notin {"", "Succeeded"}
  BY <1>1, <1>3 DEF Legacy, NeedsUpdate
<1>4. CASE s.status # "NotFound" /\ s.actuation = "Succeeded" /\ s.reconcile = "Succeeded"
  BY <1>1, <1>4 DEF Legacy, NeedsUpdate
<1>5. CASE s.status # "NotFound" /\ s.actuation \in {"", "Succeeded"}
           /\ ~(s.actuation = "Succeeded" /\ s.reconcile = "Succeeded")
  <2>1. Legacy(s) = s.status
    BY <1>5 DEF Legacy
  <2>2. Legacy(t) = t.status
    BY <1>1, <1>5, <2>1 DEF Legacy
  <2> QED BY <2>2 DEF NeedsUpdate
<1> QED BY <1>2, <1>3, <1>4, <1>5

\* Only a failed resource is published as failed.
LEMMA LegacyNeverFails ==
  ASSUME NEW s, Legacy(s) = "Failed"
  PROVE  s.status = "Failed"
BY DEF Legacy

LEMMA LegacyIsAStatus ==
  ASSUME NEW s, s.status \in StatusValues
  PROVE  Legacy(s) \in StatusValues
BY DEF Legacy, StatusValues

(***************************************************************************)
(* getReconcileTimeOut is between 30 seconds and maxTimeout and does not   *)
(* shrink when a group grows; its integer division has no boundary at      *)
(* which a larger group gets less time.                                    *)
(***************************************************************************)
THEOREM TimeOutBounds ==
  ASSUME NEW c \in Nat
  PROVE  ReconcileTimeOut(c) \in 30..MaxTimeout
<1>1. c \div 500 \in Nat
  BY Z3
<1> QED BY <1>1, Z3 DEF ReconcileTimeOut, MaxTimeout

THEOREM TimeOutGrows ==
  ASSUME NEW c \in Nat, NEW d \in Nat, c <= d
  PROVE  ReconcileTimeOut(c) <= ReconcileTimeOut(d)
<1>1. c \div 500 \in Nat /\ d \div 500 \in Nat /\ c \div 500 <= d \div 500
  BY Z3
<1> QED BY <1>1, Z3 DEF ReconcileTimeOut, MaxTimeout

(***************************************************************************)
(* The pairs of conditions that the controller writes.                     *)
(***************************************************************************)
LEMMA PairOrder ==
  ASSUME NEW a, NEW b, a.type = "Reconciling", b.type = "Stalled"
  PROVE  /\ Positions(<<a, b>>, "Reconciling") = {1}
         /\ Positions(<<a, b>>, "Stalled") = {2}
         /\ AdjustConditionOrder(<<a, b>>) = <<a, b>>
<1> DEFINE pair == <<a, b>>
<1>1. DOMAIN pair = {1, 2} /\ pair[1] = a /\ pair[2] = b
  OBVIOUS
<1> HIDE DEF pair
<1>2. Positions(pair, "Reconciling") = {1} /\ Positions(pair, "Stalled") = {2}
  BY <1>1 DEF Positions
<1>3. LastOf(pair, "Reconciling") = a
  <2>1. (CHOOSE i \in {1} : \A j \in {1} : j <= i) = 1
    OBVIOUS
  <2> QED BY <1>1, <1>2, <2>1 DEF LastOf
<1>4. LastOf(pair, "Stalled") = b
  <2>1. (CHOOSE i \in {2} : \A j \in {2} : j <= i) = 2
    OBVIOUS
  <2> QED BY <1>1, <1>2, <2>1 DEF LastOf
<1>5. Others(pair) = <<>>
  BY <1>1 DEF Others
<1>6. <<a, b>> \o <<>> = <<a, b>>
  OBVIOUS
<1>7. AdjustConditionOrder(pair) = <<a, b>>
  BY <1>3, <1>4, <1>5, <1>6 DEF AdjustConditionOrder
<1> QED BY <1>2, <1>7 DEF pair

(***************************************************************************)
(* updateStatusKptGroup writes what endReconcilingStatus has made: the     *)
(* stalled condition is True if and only if a resource is published as     *)
(* failed, whatever else it shows.                                         *)
(***************************************************************************)
THEOREM StalledIffFailed ==
  ASSUME NEW statuses
  PROVE  /\ AdjustConditionOrder(FinishConditions(statuses)) = FinishConditions(statuses)
         /\ IsConditionTrue("Stalled", FinishConditions(statuses)) <=>
              \E i \in DOMAIN statuses : statuses[i].status = "Failed"
<1> DEFINE a == NewCondition("Reconciling", "False", "FinishReconciling")
           b == Aggregate(statuses)
<1>1. a.type = "Reconciling" /\ b.type = "Stalled"
  BY DEF NewCondition, Aggregate
<1>2. b.status = "True" <=> \E i \in DOMAIN statuses : statuses[i].status = "Failed"
  BY DEF NewCondition, Aggregate
<1>3. FinishConditions(statuses) = <<a, b>> /\ <<a, b>>[2] = b
  BY DEF FinishConditions
<1> HIDE DEF a, b
<1>4. Positions(<<a, b>>, "Stalled") = {2} /\ AdjustConditionOrder(<<a, b>>) = <<a, b>>
  BY <1>1, PairOrder
<1>5. IsConditionTrue("Stalled", <<a, b>>) <=> b.status = "True"
  BY <1>3, <1>4 DEF IsConditionTrue
<1> QED BY <1>2, <1>3, <1>4, <1>5

\* The conditions at the start and after a timeout stay as they are, too.
LEMMA StartAndTimeoutOrder ==
  /\ AdjustConditionOrder(StartConditions) = StartConditions
  /\ AdjustConditionOrder(TimeoutConditions) = TimeoutConditions
<1>1. NewCondition("Reconciling", "True", "StartReconciling").type = "Reconciling"
      /\ NewCondition("Stalled", "False", "").type = "Stalled"
      /\ NewCondition("Reconciling", "False", "ExceedTimeout").type = "Reconciling"
      /\ NewCondition("Stalled", "True", "ExceedTimeout").type = "Stalled"
  BY DEF NewCondition
<1> QED BY <1>1, PairOrder DEF StartConditions, TimeoutConditions
-----------------------------------------------------------------------------
(* The types.                                                              *)

Condition == ObjectConditions \cup Conditions

\* What an entry says, and says once.
OnceOwned(entry) == Cardinality(Positions(entry.conditions, "OwnershipOverlap")) <= 1
GoodEntries == {e \in Entries : OnceOwned(e)}
GroupEntries ==
  {e \in Entries \cup [resource : Resources \cup {None}, status : StatusValues,
                       conditions : Seq(Condition)] : OnceOwned(e)}

StatusRecords ==
  [observed : Nat, resources : Seq(GoodEntries), subgroups : Seq(GroupEntries),
   conditions : Seq(Condition)]
StatusOK(status) ==
  /\ status \in StatusRecords
  /\ status.observed \in 0..Len(history)
  /\ FinishedStatus(status) => status.observed # 0

Goroutines ==
  [pc : {"resources", "subgroups", "closed"}, spec : Specs \cup {None}, old : Seq(GoodEntries),
   statuses : Seq(GoodEntries), hasErr : BOOLEAN]

\* A goroutine has the statuses of the first resources of its spec, in their
\* order, and knows whether one of them has failed.
GoroutineOK(g) ==
  /\ g \in Goroutines
  /\ g.pc # "closed" =>
       /\ g.spec \in Specs
       /\ Len(g.statuses) <= Len(Metas(g))
       /\ \A i \in 1..Len(g.statuses) : g.statuses[i].resource = Metas(g)[i]
       /\ (\E i \in 1..Len(g.statuses) : g.statuses[i].status = "Failed") => g.hasErr

Groups == [generation : Nat, spec : Specs, status : StatusRecords]

GroupOK ==
  /\ history \in Seq(Specs) /\ Len(history) # 0
  /\ group \in Groups /\ StatusOK(group.status)
  /\ group.generation = Len(history) /\ group.spec = history[Len(history)]

ObjectsOK ==
  /\ DOMAIN objects = Resources /\ DOMAIN cache = Resources
  /\ \A r \in Resources : /\ objects[r] \in Objects[r] \cup {None}
                          /\ cache[r] \in CachedStatuses(r) \cup {Missing, None}

GoroutinesOK ==
  /\ goroutines \in Seq(Goroutines) /\ count \in 0..MaxReconciles
  /\ \A c \in 1..count : GoroutineOK(goroutines[c])
  /\ recorder \in 0..count /\ pipelineError \in BOOLEAN

\* The copy is a generation of the group.
WorkerOK ==
  /\ worker \in {"idle", "waiting", "returning"}
  /\ StatusOK(newStatus)
  /\ worker = "idle" => newStatus = EmptyStatus
  /\ worker # "idle" =>
       /\ count # 0
       /\ copy \in Groups /\ StatusOK(copy.status)
       /\ copy.generation \in 1..Len(history) /\ history[copy.generation] = copy.spec
       /\ fresh => copy = group

Types == GroupOK /\ ObjectsOK /\ GoroutinesOK /\ WorkerOK

-----------------------------------------------------------------------------
(* newStatus.                                                              *)

HasFailed(entries) == \E i \in DOMAIN entries : entries[i].status = "Failed"

\* The goroutine of this reconcile has stored the statuses of the resources,
\* and those of the subgroups.
ResourcesStored ==
  /\ Ids(newStatus.resources) = copy.spec.resources
  /\ recorder = count /\ HasFailed(newStatus.resources) => pipelineError
SubgroupsStored == Ids(newStatus.subgroups) = copy.spec.subgroups

WaitingStatus ==
  worker = "waiting" =>
    /\ newStatus.conditions = <<>>
    /\ goroutines[count].pc # "closed" => goroutines[count].spec = copy.spec
    /\ goroutines[count].pc # "resources" => ResourcesStored
    /\ goroutines[count].pc = "closed" => SubgroupsStored

ReturningStatus ==
  worker = "returning" =>
    \/ newStatus.conditions = TimeoutConditions
    \/ /\ newStatus.conditions = FinishConditions(newStatus.resources)
       /\ newStatus.observed = copy.generation
       /\ goroutines[count].pc = "closed"
       /\ ResourcesStored /\ SubgroupsStored

IInv ==
  /\ Types
  /\ WaitingStatus
  /\ ReturningStatus
  /\ FinishedIsWhole

-----------------------------------------------------------------------------
(* Entries and sequences of them.                                          *)

\* A bounded set of positions has a last one.
LEMMA LastExists ==
  ASSUME NEW n \in Nat, NEW S \in SUBSET (1..n), S # {}
  PROVE  \E m \in S : \A j \in S : j <= m
<1> DEFINE Up(i) == {j \in S : i <= j}
           T == {Up(i) : i \in S}
<1>1. IsFiniteSet(1..n)
  BY FS_Interval
<1>2. IsWellFoundedOn(StrictSubsetOrdering(1..n), FiniteSubsetsOf(1..n))
  BY <1>1, FS_StrictSubsetOrderingWellFounded
<1>3. T \subseteq FiniteSubsetsOf(1..n) /\ T # {}
  <2>1. T # {}
    OBVIOUS
  <2>2. ASSUME NEW i \in S PROVE Up(i) \in SUBSET (1..n) /\ IsFiniteSet(Up(i))
    <3>1. Up(i) \in SUBSET (1..n)
      OBVIOUS
    <3> QED BY <1>1, <3>1, FS_Subset
  <2>3. \A i \in S : Up(i) \in FiniteSubsetsOf(1..n)
    BY <2>2 DEF FiniteSubsetsOf
  <2> QED BY <2>1, <2>3
<1>4. PICK x \in T : \A y \in T : <<y, x>> \notin StrictSubsetOrdering(1..n)
  BY <1>2, <1>3, WFMin
<1>5. PICK m \in S : x = Up(m)
  BY <1>4
<1>6. ASSUME NEW j \in S, ~(j <= m) PROVE FALSE
  <2>1. Up(j) \in T /\ Up(j) \in SUBSET (1..n) /\ Up(m) \in SUBSET (1..n)
    OBVIOUS
  <2>2. S \subseteq Nat /\ m \in Nat /\ j \in Nat
    OBVIOUS
  <2>3. m < j
    BY <1>6, <2>2
  <2>4. Up(j) \subseteq Up(m)
    <3>1. ASSUME NEW k \in S, j <= k PROVE m <= k
      <4>1. k \in Nat
        BY <2>2
      <4> QED BY <2>2, <2>3, <3>1, <4>1
    <3> QED BY <3>1
  <2>5. m \in Up(m) /\ m \notin Up(j)
    BY <2>2, <2>3
  <2>6. <<Up(j), Up(m)>> \in StrictSubsetOrdering(1..n)
    BY <2>1, <2>4, <2>5 DEF StrictSubsetOrdering
  <2> QED BY <1>4, <1>5, <2>1, <2>6
<1> QED BY <1>6

LEMMA EmptyFacts ==
  /\ \A S : <<>> \in Seq(S)
  /\ DOMAIN <<>> = {} /\ Len(<<>>) = 0
OBVIOUS

\* Every status and every reason that the controller writes is one of these.
LEMMA ConditionFacts ==
  ASSUME NEW type \in ConditionTypes, NEW status \in ConditionStatuses, NEW reason \in Reasons
  PROVE  NewCondition(type, status, reason) \in Condition
BY DEF NewCondition, Condition, Conditions

\* What is cached for a resource, of an object or of a missing one.
LEMMA CachedFacts ==
  ASSUME NEW r \in Resources, NEW x \in CachedStatuses(r) \cup {Missing}
  PROVE  /\ x.status \in StatusValues
         /\ x.conditions \in Seq(ObjectConditions)
<1>1. CASE x = Missing
  BY <1>1, EmptyFacts DEF Missing, StatusValues
<1>2. CASE x \in CachedStatuses(r)
  <2>1. PICK o \in Objects[r] : x = ComputeStatus(o)
    BY <1>2 DEF CachedStatuses
  <2>2. o.kstatus = "error" => x.status = "Unknown" /\ x.conditions = <<>>
    BY <2>1 DEF ComputeStatus
  <2>3. o.kstatus # "error" =>
          x.status = o.kstatus /\ x.conditions \in {<<>>, o.conditions, o.ownConditions}
    BY <2>1 DEF ComputeStatus
  <2>4. o.kstatus \in StatusValues \cup {"error"}
    BY ObjectsAssumption
  <2>5. \A conditions \in {<<>>, o.conditions, o.ownConditions} : conditions \in Seq(ObjectConditions)
    BY ObjectsAssumption, EmptyFacts
  <2>6. x.status \in StatusValues
    BY <2>2, <2>3, <2>4 DEF StatusValues
  <2>7. x.conditions \in {<<>>, o.conditions, o.ownConditions}
    BY <2>2, <2>3
  <2> QED BY <2>5, <2>6, <2>7
<1> QED BY <1>1, <1>2

\* A set with at most one position.
LEMMA AtMostOne ==
  ASSUME NEW S, NEW x, S \subseteq {x}
  PROVE  Cardinality(S) <= 1
<1>1. S = {} \/ S = {x}
  OBVIOUS
<1>2. Cardinality({}) = 0 /\ Cardinality({x}) = 1
  BY FS_EmptySet, FS_Singleton
<1>3. CASE S = {}
  BY <1>2, <1>3
<1>4. CASE S = {x}
  BY <1>2, <1>4
<1> QED BY <1>1, <1>3, <1>4

\* ownershipCondition adds one condition at most, to conditions without one.
LEMMA OwnershipFacts ==
  ASSUME NEW id, NEW inventory, NEW conditions \in Seq(ObjectConditions)
  PROVE  LET owned == conditions \o OwnershipCondition(id, inventory)
         IN owned \in Seq(Condition) /\ Cardinality(Positions(owned, "OwnershipOverlap")) <= 1
<1> PICK owns : owns = OwnershipCondition(id, inventory)
  OBVIOUS
<1> DEFINE owned == conditions \o owns
<1>1. owns = <<>> \/ \E c \in Condition : owns = <<c>>
  <2>1. /\ NewCondition("OwnershipOverlap", "True", "Overlap") \in Condition
        /\ NewCondition("OwnershipOverlap", "Unknown", "Unknown") \in Condition
    BY ConditionFacts DEF ConditionTypes, ConditionStatuses, Reasons
  <2> QED BY <2>1 DEF OwnershipCondition
<1>2. owns \in Seq(Condition) /\ Len(owns) <= 1
  <2>1. CASE owns = <<>>
    BY <2>1, EmptyFacts
  <2>2. ASSUME NEW c \in Condition, owns = <<c>> PROVE owns \in Seq(Condition) /\ Len(owns) <= 1
    BY <2>2
  <2> QED BY <1>1, <2>1, <2>2
<1>3. /\ conditions \in Seq(Condition) /\ Len(conditions) \in Nat
      /\ \A i \in 1..Len(conditions) : conditions[i].type # "OwnershipOverlap"
  BY ConditionsAssumption DEF Condition
<1>4. /\ owned \in Seq(Condition) /\ Len(owned) = Len(conditions) + Len(owns)
      /\ \A i \in 1..Len(conditions) : owned[i] = conditions[i]
  BY <1>2, <1>3
<1>5. ASSUME NEW i \in Positions(owned, "OwnershipOverlap") PROVE i = Len(conditions) + 1
  <2>1. i \in 1..Len(owned) /\ owned[i].type = "OwnershipOverlap"
    BY <1>4, <1>5 DEF Positions
  <2>2. i \notin 1..Len(conditions)
    BY <1>3, <1>4, <2>1
  <2> QED BY <1>2, <1>3, <1>4, <2>1, <2>2
<1>6. Cardinality(Positions(owned, "OwnershipOverlap")) <= 1
  BY <1>5, AtMostOne
<1> QED BY <1>4, <1>6

LEMMA BareFacts ==
  ASSUME NEW r \in Resources \cup {None}, NEW s \in StatusValues
  PROVE  BareStatus(r, s) \in GoodEntries /\ BareStatus(r, s).resource = r
<1>1. Positions(<<>>, "OwnershipOverlap") = {}
  BY DEF Positions
<1>2. Cardinality(Positions(<<>>, "OwnershipOverlap")) <= 1
  BY <1>1, FS_EmptySet
<1> DEFINE entry == BareStatus(r, s)
<1>3. "" \in ActuationValues /\ "" \in ReconcileValues
  BY DEF ActuationValues, ReconcileValues
<1>4. entry \in Entries /\ entry.resource = r /\ entry.conditions = <<>>
  BY <1>3, EmptyFacts DEF BareStatus, Entries
<1> QED BY <1>2, <1>4 DEF GoodEntries, OnceOwned

LEMMA EntryFacts ==
  ASSUME ObjectsOK, NEW r \in Resources
  PROVE  /\ Entry(r) \in GoodEntries /\ Entry(r).resource = r
         /\ CachedNow(r) \in CachedStatuses(r) \cup {Missing, None}
<1> PICK x : x = CachedNow(r)
  OBVIOUS
<1>1. x \in CachedStatuses(r) \cup {Missing, None}
  BY DEF CachedNow, ObjectsOK, CachedStatuses
<1>2. CASE x = None
  <2>1. "NotFound" \in StatusValues
    BY DEF StatusValues
  <2> QED BY <1>1, <1>2, <2>1, BareFacts DEF Entry
<1>3. CASE x # None
  <2>1. x.status \in StatusValues /\ x.conditions \in Seq(ObjectConditions)
    BY <1>1, <1>3, CachedFacts
  <2> PICK owned : owned = x.conditions \o OwnershipCondition(Id, x.inventory)
    OBVIOUS
  <2>2. owned \in Seq(Condition) /\ Cardinality(Positions(owned, "OwnershipOverlap")) <= 1
    BY <2>1, OwnershipFacts
  <2>3. "" \in ActuationValues /\ "" \in ReconcileValues
    BY DEF ActuationValues, ReconcileValues
  <2> DEFINE entry == SetResStatus(Id, r, x)
  <2>4. entry \in Entries /\ entry.resource = r /\ entry.conditions = owned
    BY <2>1, <2>2, <2>3 DEF SetResStatus, Entries, Condition
  <2>5. Entry(r) = entry
    BY <1>3 DEF Entry
  <2>6. entry \in GoodEntries
    BY <2>2, <2>4 DEF GoodEntries, OnceOwned
  <2> QED BY <1>1, <2>4, <2>5, <2>6
<1> QED BY <1>2, <1>3

\* The applier's fields change neither the resource nor its conditions, and
\* make none fail.
LEMMA ActuationFacts ==
  ASSUME NEW entry \in GoodEntries, NEW old \in Seq(GoodEntries)
  PROVE  /\ WithActuation(entry, old) \in GoodEntries
         /\ WithActuation(entry, old).resource = entry.resource
         /\ WithActuation(entry, old).status = "Failed" => entry.status = "Failed"
<1> DEFINE listed == {i \in DOMAIN old : old[i].resource = entry.resource}
           last == CHOOSE i \in listed : \A j \in listed : j <= i
           new == [entry EXCEPT !.actuation = old[last].actuation, !.reconcile = old[last].reconcile]
<1>1. CASE listed = {}
  <2>1. WithActuation(entry, old) = entry
    BY <1>1 DEF WithActuation
  <2> QED BY <2>1
<1>2. CASE listed # {}
  <2>1. last \in listed
    <3>1. Len(old) \in Nat /\ listed \in SUBSET (1..Len(old))
      OBVIOUS
    <3>2. \E m \in listed : \A j \in listed : j <= m
      BY <1>2, <3>1, LastExists
    <3> QED BY <3>2
  <2>2. old[last] \in Entries
    BY <2>1 DEF GoodEntries
  <2>3. WithActuation(entry, old) = [new EXCEPT !.status = Legacy(new)]
    BY <1>2 DEF WithActuation
  <2> HIDE DEF last
  <2>4. /\ new \in Entries /\ new.status = entry.status /\ new.resource = entry.resource
        /\ new.conditions = entry.conditions
    BY <2>2 DEF GoodEntries, Entries
  <2> HIDE DEF new
  <2>5. Legacy(new) \in StatusValues
    BY <2>4, LegacyIsAStatus DEF Entries
  <2> DEFINE result == [new EXCEPT !.status = Legacy(new)]
  <2>6. /\ result \in Entries /\ result.resource = new.resource
        /\ result.conditions = new.conditions /\ result.status = Legacy(new)
    BY <2>4, <2>5 DEF Entries
  <2>7. result \in GoodEntries
    BY <2>4, <2>6 DEF GoodEntries, OnceOwned
  <2>8. result.status = "Failed" => entry.status = "Failed"
    BY <2>4, <2>6, LegacyNeverFails
  <2> QED BY <2>3, <2>4, <2>6, <2>7, <2>8
<1> QED BY <1>1, <1>2

LEMMA ToGroupFacts ==
  ASSUME NEW entries \in Seq(GoodEntries)
  PROVE  /\ ToGroupStatuses(entries) \in Seq(GroupEntries)
         /\ Ids(ToGroupStatuses(entries)) = Ids(entries)
<1>1. \A e \in GoodEntries : GroupStatusOf(e) \in GroupEntries /\ GroupStatusOf(e).resource = e.resource
  BY DEF GroupStatusOf, GoodEntries, GroupEntries, Entries, OnceOwned, Condition
<1>2. /\ DOMAIN ToGroupStatuses(entries) = DOMAIN entries
      /\ \A i \in DOMAIN entries : ToGroupStatuses(entries)[i] = GroupStatusOf(entries[i])
  BY DEF ToGroupStatuses
<1>3. \A i \in DOMAIN entries : entries[i] \in GoodEntries
  OBVIOUS
<1>4. ToGroupStatuses(entries) \in [1..Len(entries) -> GroupEntries]
  BY <1>1, <1>2, <1>3 DEF ToGroupStatuses
<1>5. ToGroupStatuses(entries) \in Seq(GroupEntries)
  BY <1>4
<1> QED BY <1>1, <1>2, <1>3, <1>5 DEF Ids

LEMMA IdsWhole ==
  ASSUME NEW S, NEW entries \in Seq(S), NEW metas \in Seq(Resources), Len(entries) = Len(metas),
         \A i \in 1..Len(entries) : entries[i].resource = metas[i]
  PROVE  Ids(entries) = metas
<1>1. Ids(entries) = [i \in 1..Len(metas) |-> metas[i]]
  BY DEF Ids
<1> QED BY <1>1

\* The copies of a slice have elements of it, or what is past its end.
LEMMA SliceFacts ==
  ASSUME NEW S, Beyond \in S, NEW s \in Seq(S), NEW n \in Nat
  PROVE  Slice(s, n) \in Seq(S)
<1>1. \A i \in 1..n : (IF i <= Len(s) THEN s[i] ELSE Beyond) \in S
  OBVIOUS
<1>2. Slice(s, n) \in [1..n -> S]
  BY <1>1 DEF Slice
<1> QED BY <1>2

\* The conditions that the controller writes.
LEMMA WrittenConditions ==
  /\ StartConditions \in Seq(Condition) /\ TimeoutConditions \in Seq(Condition)
  /\ \A entries : FinishConditions(entries) \in Seq(Condition)
  /\ StartConditions # <<>> /\ StartConditions[1].reason = "StartReconciling"
  /\ TimeoutConditions # <<>> /\ TimeoutConditions[1].reason = "ExceedTimeout"
<1>1. /\ NewCondition("Reconciling", "True", "StartReconciling") \in Condition
      /\ NewCondition("Stalled", "False", "") \in Condition
      /\ NewCondition("Reconciling", "False", "ExceedTimeout") \in Condition
      /\ NewCondition("Stalled", "True", "ExceedTimeout") \in Condition
      /\ NewCondition("Reconciling", "False", "FinishReconciling") \in Condition
      /\ NewCondition("Stalled", "True", "ComponentFailed") \in Condition
      /\ NewCondition("Stalled", "False", "FinishReconciling") \in Condition
  BY ConditionFacts DEF ConditionTypes, ConditionStatuses, Reasons
<1>2. \A a, b \in Condition : <<a, b>> \in Seq(Condition)
  OBVIOUS
<1>3. StartConditions \in Seq(Condition) /\ TimeoutConditions \in Seq(Condition)
  BY <1>1, <1>2 DEF StartConditions, TimeoutConditions
<1>4. ASSUME NEW entries PROVE FinishConditions(entries) \in Seq(Condition)
  <2>1. Aggregate(entries) \in Condition
    BY <1>1 DEF Aggregate
  <2> QED BY <1>1, <1>2, <2>1 DEF FinishConditions
<1>5. /\ StartConditions # <<>> /\ StartConditions[1].reason = "StartReconciling"
      /\ TimeoutConditions # <<>> /\ TimeoutConditions[1].reason = "ExceedTimeout"
  BY DEF StartConditions, TimeoutConditions, NewCondition
<1> QED BY <1>3, <1>4, <1>5

LEMMA EmptyStatusFacts ==
  EmptyStatus \in StatusRecords /\ EmptyStatus.observed = 0 /\ ~FinishedStatus(EmptyStatus)
BY EmptyFacts DEF EmptyStatus, StatusRecords, FinishedStatus

-----------------------------------------------------------------------------
(* The goroutines.                                                         *)

LEMMA MetasFacts ==
  ASSUME NEW g, GoroutineOK(g), g.pc # "closed"
  PROVE  Metas(g) \in Seq(Resources)
BY SpecsAssumption DEF GoroutineOK, Metas

LEMMA ComputedFacts ==
  ASSUME NEW g, GoroutineOK(g), Computed(g)
  PROVE  Ids(g.statuses) = Metas(g) /\ (HasFailed(g.statuses) => g.hasErr)
<1>1. Metas(g) \in Seq(Resources) /\ g.pc # "closed" /\ Len(g.statuses) = Len(Metas(g))
  BY MetasFacts DEF Computed
<1>2. g.statuses \in Seq(GoodEntries) /\ \A i \in 1..Len(g.statuses) : g.statuses[i].resource = Metas(g)[i]
  BY <1>1 DEF GoroutineOK, Goroutines
<1>3. Ids(g.statuses) = Metas(g)
  BY <1>1, <1>2, IdsWhole
<1>4. HasFailed(g.statuses) => g.hasErr
  BY <1>1, <1>2 DEF GoroutineOK, HasFailed
<1> QED BY <1>3, <1>4

-----------------------------------------------------------------------------
(* The actions of the goroutines.                                          *)

\* One more status: that of the next resource, with what the applier did.
LEMMA AppendFacts ==
  ASSUME NEW g, GoroutineOK(g), Computing(g),
         NEW entry \in GoodEntries, entry.resource = NextMeta(g)
  PROVE  GoroutineOK([g EXCEPT !.statuses = Append(@, WithActuation(entry, g.old)),
                               !.hasErr = @ \/ IsError(entry, entry.resource \in CNRM)])
<1> PICK new : new = WithActuation(entry, g.old)
  OBVIOUS
<1> PICK err \in BOOLEAN : err = (g.hasErr \/ IsError(entry, entry.resource \in CNRM))
  BY DEF GoroutineOK, Goroutines, IsError
<1> PICK statuses : statuses = Append(g.statuses, new)
  OBVIOUS
<1>1. g \in Goroutines /\ g.pc # "closed" /\ g.spec \in Specs
  BY DEF GoroutineOK, Computing
<1>2. new \in GoodEntries /\ new.resource = entry.resource
      /\ (new.status = "Failed" => entry.status = "Failed")
  BY <1>1, ActuationFacts DEF Goroutines
<1>3. Metas(g) \in Seq(Resources) /\ Len(g.statuses) + 1 <= Len(Metas(g))
  <2>1. Len(g.statuses) <= Len(Metas(g)) /\ Len(g.statuses) # Len(Metas(g))
    BY <1>1 DEF GoroutineOK, Computing, Computed
  <2>2. Metas(g) \in Seq(Resources) /\ g.statuses \in Seq(GoodEntries)
    BY <1>1, MetasFacts DEF Goroutines
  <2> QED BY <2>1, <2>2
<1>4. /\ statuses \in Seq(GoodEntries) /\ Len(statuses) = Len(g.statuses) + 1
      /\ \A i \in 1..Len(g.statuses) : statuses[i] = g.statuses[i]
      /\ statuses[Len(statuses)] = new
  BY <1>1, <1>2 DEF Goroutines
<1>5. Len(g.statuses) \in Nat
  BY <1>1 DEF Goroutines
<1> PICK h : h = [g EXCEPT !.statuses = statuses, !.hasErr = err]
  OBVIOUS
<1>6. /\ h \in Goroutines /\ h.pc = g.pc /\ h.spec = g.spec
      /\ h.statuses = statuses /\ h.hasErr = err
  BY <1>1, <1>4 DEF Goroutines
<1>7. Metas(h) = Metas(g)
  BY <1>6 DEF Metas
<1>8. ASSUME NEW i \in 1..Len(statuses) PROVE statuses[i].resource = Metas(g)[i]
  <2>1. CASE i \in 1..Len(g.statuses)
    BY <1>1, <1>4, <2>1 DEF GoroutineOK
  <2>2. CASE i = Len(g.statuses) + 1
    BY <1>2, <1>4, <2>2 DEF NextMeta
  <2> QED BY <1>4, <1>5, <2>1, <2>2
<1>9. ASSUME NEW i \in 1..Len(statuses), statuses[i].status = "Failed" PROVE err
  <2>1. CASE i \in 1..Len(g.statuses)
    BY <1>1, <1>4, <1>9, <2>1 DEF GoroutineOK
  <2>2. CASE i = Len(g.statuses) + 1
    BY <1>2, <1>4, <1>9, <2>2 DEF IsError
  <2> QED BY <1>4, <1>5, <2>1, <2>2
<1>10. GoroutineOK(h)
  BY <1>1, <1>3, <1>4, <1>6, <1>7, <1>8, <1>9 DEF GoroutineOK
<1>11. h = [g EXCEPT !.statuses = Append(@, WithActuation(entry, g.old)),
                     !.hasErr = @ \/ IsError(entry, entry.resource \in CNRM)]
  OBVIOUS
<1> QED BY <1>10, <1>11

\* A goroutine that has taken a step.
LEMMA StepFacts ==
  ASSUME GoroutinesOK, NEW c \in 1..count, NEW g, GoroutineOK(g),
         goroutines' = [goroutines EXCEPT ![c] = g]
  PROVE  /\ goroutines' \in Seq(Goroutines) /\ count' = count
         /\ \A d \in 1..count : GoroutineOK(goroutines'[d])
         /\ goroutines'[c] = g /\ \A d \in 1..count : d # c => goroutines'[d] = goroutines[d]
<1>1. g \in Goroutines
  BY DEF GoroutineOK
<1>2. /\ goroutines' \in Seq(Goroutines) /\ Len(goroutines') = Len(goroutines)
      /\ goroutines'[c] = g
      /\ \A d \in 1..Len(goroutines) : d # c => goroutines'[d] = goroutines[d]
  BY <1>1 DEF GoroutinesOK, count
<1> QED BY <1>2 DEF GoroutinesOK, count

\* A step that leaves the group alone.
LEMMA GroupStays ==
  ASSUME GroupOK, FinishedIsWhole, UNCHANGED <<group, history>>
  PROVE  GroupOK' /\ FinishedIsWhole'
BY DEF GroupOK, StatusOK, FinishedStatus, FinishedIsWhole

LEMMA AppendIInv ==
  ASSUME IInv, NEW c \in 1..count, Computing(goroutines[c]),
         NEW entry \in GoodEntries, entry.resource = NextMeta(goroutines[c]),
         AppendEntry(c, entry), ObjectsOK'
  PROVE  IInv'
<1> PICK g : g = goroutines[c]
  OBVIOUS
<1> PICK h : h = [g EXCEPT !.statuses = Append(@, WithActuation(entry, g.old)),
                          !.hasErr = @ \/ IsError(entry, entry.resource \in CNRM)]
  OBVIOUS
<1>1. GroupOK /\ GoroutinesOK /\ WorkerOK /\ GoroutineOK(g)
  BY DEF IInv, Types, GoroutinesOK
<1>2. GoroutineOK(h) /\ h.pc = g.pc /\ h.spec = g.spec
  <2>1. GoroutineOK(h)
    BY <1>1, AppendFacts
  <2>2. h.pc = g.pc /\ h.spec = g.spec
    BY <1>1 DEF GoroutineOK, Goroutines
  <2> QED BY <2>1, <2>2
<1>3. goroutines' = [goroutines EXCEPT ![c] = h]
  BY <1>1 DEF AppendEntry, GoroutinesOK, count, GoroutineOK, Goroutines
<1>4. /\ goroutines' \in Seq(Goroutines) /\ count' = count
      /\ \A d \in 1..count : GoroutineOK(goroutines'[d])
      /\ \A d \in 1..count : goroutines'[d].pc = goroutines[d].pc /\ goroutines'[d].spec = goroutines[d].spec
  <2>1. /\ goroutines' \in Seq(Goroutines) /\ count' = count
        /\ \A d \in 1..count : GoroutineOK(goroutines'[d])
        /\ goroutines'[c] = h /\ \A d \in 1..count : d # c => goroutines'[d] = goroutines[d]
    BY <1>1, <1>2, <1>3, StepFacts
  <2>2. ASSUME NEW d \in 1..count
        PROVE  goroutines'[d].pc = goroutines[d].pc /\ goroutines'[d].spec = goroutines[d].spec
    BY <1>2, <2>1
  <2> QED BY <2>1, <2>2
<1>5. UNCHANGED <<group, history, worker, copy, fresh, newStatus, pipelineError, recorder>>
  BY DEF AppendEntry, outside, reconcile, metrics
<1>6. GroupOK' /\ FinishedIsWhole'
  BY <1>1, <1>5, GroupStays DEF IInv
<1>7. GoroutinesOK'
  BY <1>1, <1>4, <1>5 DEF GoroutinesOK
<1>8. WorkerOK'
  BY <1>1, <1>4, <1>5 DEF WorkerOK, StatusOK, FinishedStatus
<1>9. worker # "idle" => count \in 1..count
  BY <1>1 DEF WorkerOK, GoroutinesOK
<1>10. WaitingStatus' /\ ReturningStatus'
  <2>1. WaitingStatus /\ ReturningStatus
    BY DEF IInv
  <2>2. (ResourcesStored' <=> ResourcesStored) /\ (SubgroupsStored' <=> SubgroupsStored)
    BY <1>4, <1>5 DEF ResourcesStored, SubgroupsStored
  <2>3. WaitingStatus'
    BY <1>4, <1>5, <1>9, <2>1, <2>2 DEF WaitingStatus
  <2>4. ReturningStatus'
    BY <1>4, <1>5, <1>9, <2>1, <2>2 DEF ReturningStatus
  <2> QED BY <2>3, <2>4
<1> QED BY <1>6, <1>7, <1>8, <1>10 DEF IInv, Types

LEMMA NextMetaFacts ==
  ASSUME NEW g, GoroutineOK(g), Computing(g)
  PROVE  NextMeta(g) \in Resources
<1>1. Metas(g) \in Seq(Resources)
  BY MetasFacts DEF Computing
<1>2. g.statuses \in Seq(GoodEntries) /\ Len(g.statuses) <= Len(Metas(g)) /\ Len(g.statuses) # Len(Metas(g))
  BY DEF GoroutineOK, Goroutines, Computing, Computed
<1> QED BY <1>1, <1>2 DEF NextMeta

LEMMA ComputeNextIInv ==
  ASSUME IInv, NEW c \in 1..count, ComputeNext(c)
  PROVE  IInv'
<1> PICK r : r = NextMeta(goroutines[c])
  OBVIOUS
<1>1. r \in Resources /\ ObjectsOK
  BY NextMetaFacts DEF IInv, Types, GoroutinesOK, ComputeNext
<1>2. /\ Computing(goroutines[c]) /\ AppendEntry(c, Entry(r))
      /\ cache' = [cache EXCEPT ![r] = CachedNow(r)]
  BY DEF ComputeNext
<1>3. /\ Entry(r) \in GoodEntries /\ Entry(r).resource = r
      /\ CachedNow(r) \in CachedStatuses(r) \cup {Missing, None}
  BY <1>1, EntryFacts
<1>4. ObjectsOK'
  <2>1. UNCHANGED objects
    BY <1>2 DEF AppendEntry, outside
  <2> QED BY <1>1, <1>2, <1>3, <2>1 DEF ObjectsOK, CachedStatuses
<1> QED BY <1>2, <1>3, <1>4, AppendIInv

LEMMA ComputeNextFailsIInv ==
  ASSUME IInv, NEW c \in 1..count, ComputeNextFails(c)
  PROVE  IInv'
<1> PICK r : r = NextMeta(goroutines[c])
  OBVIOUS
<1> PICK entry : entry = BareStatus(r, "Unknown")
  OBVIOUS
<1>1. r \in Resources /\ ObjectsOK
  BY NextMetaFacts DEF IInv, Types, GoroutinesOK, ComputeNextFails
<1>2. Computing(goroutines[c]) /\ AppendEntry(c, entry) /\ UNCHANGED cache
  BY DEF ComputeNextFails
<1>3. entry \in GoodEntries /\ entry.resource = r
  <2>1. "Unknown" \in StatusValues
    BY DEF StatusValues
  <2> QED BY <1>1, <2>1, BareFacts
<1>4. ObjectsOK'
  <2>1. UNCHANGED objects
    BY <1>2 DEF AppendEntry, outside
  <2> QED BY <1>1, <1>2, <2>1 DEF ObjectsOK, CachedStatuses
<1> QED BY <1>2, <1>3, <1>4, AppendIInv

LEMMA StartedFacts ==
  ASSUME NEW spec \in Specs, NEW old \in Seq(GoodEntries)
  PROVE  /\ GoroutineOK(Started(spec, old))
         /\ Started(spec, old).pc = "resources" /\ Started(spec, old).spec = spec
         /\ LET h == [Started(spec, old) EXCEPT !.pc = "subgroups"]
            IN GoroutineOK(h) /\ h.pc = "subgroups" /\ h.spec = spec
<1> PICK k : k = Started(spec, old)
  OBVIOUS
<1>1. k \in Goroutines /\ k.spec = spec /\ k.statuses = <<>> /\ k.pc = "resources"
  <2>1. <<>> \in Seq(GoodEntries)
    BY EmptyFacts
  <2>2. Started(spec, old) \in Goroutines
    BY <2>1 DEF Started, Goroutines
  <2>3. /\ Started(spec, old).spec = spec /\ Started(spec, old).statuses = <<>>
        /\ Started(spec, old).pc = "resources"
    BY DEF Started
  <2> QED BY <2>2, <2>3
<1> PICK h : h = [k EXCEPT !.pc = "subgroups"]
  OBVIOUS
<1>2. h \in Goroutines /\ h.pc = "subgroups" /\ h.spec = spec /\ h.statuses = <<>>
  BY <1>1 DEF Goroutines
<1>3. ASSUME NEW x \in {k, h} PROVE GoroutineOK(x)
  <2>1. x \in Goroutines /\ x.spec \in Specs /\ x.statuses = <<>>
    BY <1>1, <1>2
  <2>2. Metas(x) \in Seq(Resources)
    BY <2>1, SpecsAssumption DEF Metas
  <2>3. Len(Metas(x)) >= 0 /\ Len(x.statuses) = 0
    BY <2>1, <2>2
  <2> QED BY <2>1, <2>3 DEF GoroutineOK
<1> QED BY <1>1, <1>2, <1>3

LEMMA ClosedFacts == GoroutineOK(Closed) /\ Closed.pc = "closed"
BY EmptyFacts DEF GoroutineOK, Closed, Goroutines

\* The worker's own goroutine is the last one.
LEMMA LastFacts ==
  ASSUME GoroutinesOK, WorkerOK, worker # "idle"
  PROVE  count \in 1..count /\ count \in Nat
BY DEF WorkerOK, GoroutinesOK

LEMMA StoreResourcesIInv ==
  ASSUME IInv, NEW c \in 1..count, StoreResources(c)
  PROVE  IInv'
<1> PICK g : g = goroutines[c]
  OBVIOUS
<1> PICK h : h = [Started(g.spec, g.old) EXCEPT !.pc = "subgroups"]
  OBVIOUS
<1> PICK stored : stored = [newStatus EXCEPT !.resources = g.statuses]
  OBVIOUS
<1>1. /\ GroupOK /\ ObjectsOK /\ GoroutinesOK /\ WorkerOK /\ WaitingStatus /\ ReturningStatus
      /\ FinishedIsWhole /\ GoroutineOK(g)
  BY DEF IInv, Types, GoroutinesOK
<1>2. /\ g.pc = "resources" /\ Computed(g) /\ goroutines' = [goroutines EXCEPT ![c] = h]
      /\ newStatus' = IF c = count /\ worker # "idle" THEN stored ELSE newStatus
      /\ pipelineError' = g.hasErr /\ recorder' = c
  BY DEF StoreResources, Store
<1>3. UNCHANGED <<group, history, objects, changes, cache, worker, copy, fresh>>
  BY DEF StoreResources, outside
<1>4. /\ g.spec \in Specs /\ g.old \in Seq(GoodEntries)
      /\ g.statuses \in Seq(GoodEntries) /\ g.hasErr \in BOOLEAN
  BY <1>1, <1>2 DEF GoroutineOK, Goroutines
<1>5. GoroutineOK(h) /\ h.pc = "subgroups" /\ h.spec = g.spec
  BY <1>4, StartedFacts
<1>6. /\ goroutines' \in Seq(Goroutines) /\ count' = count
      /\ \A d \in 1..count : GoroutineOK(goroutines'[d])
      /\ goroutines'[c] = h /\ \A d \in 1..count : d # c => goroutines'[d] = goroutines[d]
  BY <1>1, <1>2, <1>5, StepFacts
<1>7. GroupOK' /\ FinishedIsWhole'
  BY <1>1, <1>3, GroupStays
<1>8. ObjectsOK'
  BY <1>1, <1>3 DEF ObjectsOK, CachedStatuses
<1>9. GoroutinesOK'
  <2>1. count \in 0..MaxReconciles /\ count \in Nat
    BY <1>1, BoundsAssumption DEF GoroutinesOK
  <2>2. pipelineError' \in BOOLEAN
    BY <1>2, <1>4, Zenon
  <2>3. recorder' \in 0..count /\ count' \in 0..MaxReconciles
    BY <1>2, <1>6, <2>1
  <2> QED BY <1>6, <2>2, <2>3 DEF GoroutinesOK
<1>10. /\ stored \in StatusRecords /\ stored.resources = g.statuses
       /\ stored.observed = newStatus.observed /\ stored.conditions = newStatus.conditions
  BY <1>1, <1>4 DEF WorkerOK, StatusOK, StatusRecords
<1>11. WorkerOK'
  <2>1. StatusOK(newStatus)'
    BY <1>1, <1>2, <1>3, <1>10 DEF WorkerOK, StatusOK, FinishedStatus
  <2>2. StatusOK(copy.status)' <=> StatusOK(copy.status)
    BY <1>3 DEF StatusOK, FinishedStatus
  <2> QED BY <1>1, <1>2, <1>3, <1>6, <2>1, <2>2 DEF WorkerOK
<1>12. Ids(g.statuses) = g.spec.resources /\ (HasFailed(g.statuses) => g.hasErr)
  BY <1>1, <1>2, ComputedFacts DEF Metas
<1>13. WaitingStatus'
  <2>1. SUFFICES ASSUME worker = "waiting" PROVE WaitingStatus'
    BY <1>3 DEF WaitingStatus
  <2>2. count \in 1..count
    BY <1>1, <2>1, LastFacts
  <2>3. CASE c = count
    <3>1. /\ newStatus'.conditions = <<>> /\ newStatus'.resources = g.statuses
          /\ g.spec = copy.spec
      BY <1>1, <1>2, <1>10, <2>1, <2>3 DEF WaitingStatus
    <3>2. ResourcesStored'
      BY <1>2, <1>3, <1>12, <3>1 DEF ResourcesStored
    <3> QED BY <1>3, <1>5, <1>6, <2>3, <3>1, <3>2 DEF WaitingStatus
  <2>4. CASE c # count
    <3>1. newStatus' = newStatus /\ goroutines'[count] = goroutines[count]
      BY <1>2, <1>6, <2>2, <2>4
    <3>2. (ResourcesStored => ResourcesStored') /\ (SubgroupsStored => SubgroupsStored')
      BY <1>2, <1>3, <1>6, <2>4, <3>1 DEF ResourcesStored, SubgroupsStored
    <3> QED BY <1>1, <1>3, <1>6, <3>1, <3>2 DEF WaitingStatus
  <2> QED BY <2>3, <2>4
<1>14. ReturningStatus'
  <2>1. SUFFICES ASSUME worker = "returning" PROVE ReturningStatus'
    BY <1>3 DEF ReturningStatus
  <2>2. count \in 1..count
    BY <1>1, <2>1, LastFacts
  <2>3. CASE c = count
    <3>1. newStatus.conditions = TimeoutConditions
      BY <1>1, <1>2, <2>1, <2>3 DEF ReturningStatus
    <3>2. newStatus'.conditions = TimeoutConditions
      BY <1>2, <1>10, <3>1
    <3> QED BY <3>2 DEF ReturningStatus
  <2>4. CASE c # count
    <3>1. newStatus' = newStatus /\ goroutines'[count] = goroutines[count]
      BY <1>2, <1>6, <2>2, <2>4
    <3>2. (ResourcesStored => ResourcesStored') /\ (SubgroupsStored => SubgroupsStored')
      BY <1>2, <1>3, <1>6, <2>4, <3>1 DEF ResourcesStored, SubgroupsStored
    <3> QED BY <1>1, <1>3, <1>6, <3>1, <3>2 DEF ReturningStatus
  <2> QED BY <2>3, <2>4
<1> QED BY <1>7, <1>8, <1>9, <1>11, <1>13, <1>14 DEF IInv, Types

LEMMA StoreSubgroupsIInv ==
  ASSUME IInv, NEW c \in 1..count, StoreSubgroups(c)
  PROVE  IInv'
<1> PICK g : g = goroutines[c]
  OBVIOUS
<1> PICK entries : entries = ToGroupStatuses(g.statuses)
  OBVIOUS
<1> PICK stored : stored = [newStatus EXCEPT !.subgroups = entries]
  OBVIOUS
<1>1. /\ GroupOK /\ ObjectsOK /\ GoroutinesOK /\ WorkerOK /\ WaitingStatus /\ ReturningStatus
      /\ FinishedIsWhole /\ GoroutineOK(g)
  BY DEF IInv, Types, GoroutinesOK
<1>2. /\ g.pc = "subgroups" /\ Computed(g) /\ goroutines' = [goroutines EXCEPT ![c] = Closed]
      /\ newStatus' = IF c = count /\ worker # "idle" THEN stored ELSE newStatus
  BY DEF StoreSubgroups, Store
<1>3. UNCHANGED <<group, history, objects, changes, cache, worker, copy, fresh, pipelineError, recorder>>
  BY DEF StoreSubgroups, outside, metrics
<1>4. g.statuses \in Seq(GoodEntries)
  BY <1>1 DEF GoroutineOK, Goroutines
<1>5. entries \in Seq(GroupEntries) /\ Ids(entries) = Ids(g.statuses)
  BY <1>4, ToGroupFacts
<1>6. /\ goroutines' \in Seq(Goroutines) /\ count' = count
      /\ \A d \in 1..count : GoroutineOK(goroutines'[d])
      /\ goroutines'[c].pc = "closed" /\ \A d \in 1..count : d # c => goroutines'[d] = goroutines[d]
  BY <1>1, <1>2, ClosedFacts, StepFacts
<1>7. GroupOK' /\ FinishedIsWhole'
  BY <1>1, <1>3, GroupStays
<1>8. ObjectsOK'
  BY <1>1, <1>3 DEF ObjectsOK, CachedStatuses
<1>9. GoroutinesOK'
  BY <1>1, <1>3, <1>6 DEF GoroutinesOK
<1>10. /\ stored \in StatusRecords /\ stored.subgroups = entries
       /\ stored.resources = newStatus.resources
       /\ stored.observed = newStatus.observed /\ stored.conditions = newStatus.conditions
  BY <1>1, <1>5 DEF WorkerOK, StatusOK, StatusRecords
<1>11. WorkerOK'
  <2>1. StatusOK(newStatus)'
    BY <1>1, <1>2, <1>3, <1>10 DEF WorkerOK, StatusOK, FinishedStatus
  <2>2. StatusOK(copy.status)' <=> StatusOK(copy.status)
    BY <1>3 DEF StatusOK, FinishedStatus
  <2> QED BY <1>1, <1>2, <1>3, <1>6, <2>1, <2>2 DEF WorkerOK
<1>12. Ids(g.statuses) = g.spec.subgroups
  BY <1>1, <1>2, ComputedFacts DEF Metas
<1>13. newStatus'.resources = newStatus.resources /\ newStatus'.conditions = newStatus.conditions
  BY <1>2, <1>10
<1>14. ResourcesStored => ResourcesStored'
  BY <1>3, <1>6, <1>13 DEF ResourcesStored
<1>15. WaitingStatus'
  <2>1. SUFFICES ASSUME worker = "waiting" PROVE WaitingStatus'
    BY <1>3 DEF WaitingStatus
  <2>2. count \in 1..count
    BY <1>1, <2>1, LastFacts
  <2>3. CASE c = count
    <3>1. newStatus' = stored /\ g.spec = copy.spec /\ ResourcesStored
      BY <1>1, <1>2, <2>1, <2>3 DEF WaitingStatus
    <3>2. SubgroupsStored'
      BY <1>3, <1>5, <1>10, <1>12, <3>1 DEF SubgroupsStored
    <3>3. newStatus'.conditions = <<>>
      BY <1>1, <1>13, <2>1 DEF WaitingStatus
    <3> QED BY <1>3, <1>6, <1>14, <2>3, <3>1, <3>2, <3>3 DEF WaitingStatus
  <2>4. CASE c # count
    <3>1. newStatus' = newStatus /\ goroutines'[count] = goroutines[count]
      BY <1>2, <1>6, <2>2, <2>4
    <3>2. SubgroupsStored => SubgroupsStored'
      BY <1>3, <3>1 DEF SubgroupsStored
    <3> QED BY <1>1, <1>3, <1>6, <1>14, <3>1, <3>2 DEF WaitingStatus
  <2> QED BY <2>3, <2>4
<1>16. ReturningStatus'
  <2>1. SUFFICES ASSUME worker = "returning" PROVE ReturningStatus'
    BY <1>3 DEF ReturningStatus
  <2>2. count \in 1..count
    BY <1>1, <2>1, LastFacts
  <2>3. CASE c = count
    <3>1. newStatus.conditions = TimeoutConditions
      BY <1>1, <1>2, <2>1, <2>3 DEF ReturningStatus
    <3> QED BY <1>13, <3>1 DEF ReturningStatus
  <2>4. CASE c # count
    <3>1. newStatus' = newStatus /\ goroutines'[count] = goroutines[count]
      BY <1>2, <1>6, <2>2, <2>4
    <3>2. SubgroupsStored => SubgroupsStored'
      BY <1>3, <3>1 DEF SubgroupsStored
    <3> QED BY <1>1, <1>3, <1>6, <1>14, <3>1, <3>2 DEF ReturningStatus
  <2> QED BY <2>3, <2>4
<1> QED BY <1>7, <1>8, <1>9, <1>11, <1>15, <1>16 DEF IInv, Types

-----------------------------------------------------------------------------
(* The actions of the worker.                                              *)

\* A status with other conditions.
LEMMA ConditionsFacts ==
  ASSUME NEW status \in StatusRecords, NEW conditions \in Seq(Condition)
  PROVE  LET new == [status EXCEPT !.conditions = conditions]
         IN /\ new \in StatusRecords /\ new.conditions = conditions
            /\ new.observed = status.observed
            /\ new.resources = status.resources /\ new.subgroups = status.subgroups
BY DEF StatusRecords

LEMMA BeginIInv ==
  ASSUME IInv, Begin
  PROVE  IInv'
<1> PICK status : status = [group.status EXCEPT !.conditions = StartConditions]
  OBVIOUS
<1> PICK h : h = Started(group.spec, group.status.resources)
  OBVIOUS
<1>1. /\ GroupOK /\ ObjectsOK /\ GoroutinesOK /\ WorkerOK /\ count \in Nat
      /\ group.status \in StatusRecords /\ group.status.observed \in 0..Len(history)
  BY BoundsAssumption DEF IInv, Types, GoroutinesOK, GroupOK, StatusOK
<1>2. /\ count < MaxReconciles
      /\ copy' = group' /\ fresh' = TRUE /\ newStatus' = EmptyStatus /\ worker' = "waiting"
      /\ goroutines' = Append(goroutines, h)
  BY DEF Begin
<1>3. UNCHANGED <<history, objects, changes, cache, pipelineError, recorder>>
  BY DEF Begin, metrics
<1>4. status \in StatusRecords /\ status.conditions = StartConditions /\ status.observed = group.status.observed
  BY <1>1, ConditionsFacts, WrittenConditions
<1>5. group' = [group EXCEPT !.status = status]
  <2>1. group' = [group EXCEPT !.status.conditions = StartConditions]
    BY StartAndTimeoutOrder DEF Begin
  <2> QED BY <2>1, <1>1 DEF GroupOK, Groups
<1>6. /\ group' \in Groups /\ group'.status = status
      /\ group'.spec = group.spec /\ group'.generation = group.generation
  BY <1>1, <1>4, <1>5 DEF GroupOK, Groups
<1>7. ~FinishedStatus(status)
  BY <1>4, WrittenConditions DEF FinishedStatus
<1>8. StatusOK(group.status)'
  <2>1. status.observed \in 0..Len(history)
    BY <1>1, <1>4
  <2> QED BY <1>3, <1>4, <1>6, <1>7, <2>1 DEF StatusOK, FinishedStatus
<1>9. GroupOK' /\ FinishedIsWhole'
  <2>1. GroupOK'
    BY <1>1, <1>3, <1>6, <1>8 DEF GroupOK
  <2>2. FinishedIsWhole'
    BY <1>6, <1>7 DEF FinishedIsWhole, FinishedStatus
  <2> QED BY <2>1, <2>2
<1>10. ObjectsOK'
  BY <1>1, <1>3 DEF ObjectsOK, CachedStatuses
<1>11. GoroutineOK(h) /\ h.pc = "resources" /\ h.spec = group.spec
  <2>1. group.spec \in Specs /\ group.status.resources \in Seq(GoodEntries)
    BY <1>1 DEF GroupOK, Groups, StatusRecords
  <2> QED BY <2>1, StartedFacts
<1>12. /\ goroutines' \in Seq(Goroutines) /\ count' = count + 1 /\ goroutines'[count + 1] = h
       /\ \A c \in 1..count : goroutines'[c] = goroutines[c]
  BY <1>1, <1>2, <1>11 DEF GoroutinesOK, GoroutineOK, count
<1>13. GoroutinesOK'
  <2>1. ASSUME NEW c \in 1..(count + 1) PROVE GoroutineOK(goroutines'[c])
    <3>1. c \in 1..count \/ c = count + 1
      BY <1>1
    <3> QED BY <1>1, <1>11, <1>12, <3>1 DEF GoroutinesOK
  <2>2. recorder' \in 0..(count + 1) /\ count + 1 \in 0..MaxReconciles
    BY <1>1, <1>2, <1>3, BoundsAssumption DEF GoroutinesOK
  <2>3. pipelineError' \in BOOLEAN
    BY <1>1, <1>3 DEF GoroutinesOK
  <2> QED BY <1>12, <2>1, <2>2, <2>3 DEF GoroutinesOK
<1>14. WorkerOK'
  <2>1. StatusOK(newStatus)'
    BY <1>1, <1>2, <1>3, EmptyStatusFacts DEF StatusOK, GroupOK, FinishedStatus
  <2>2. StatusOK(copy.status)'
    BY <1>2, <1>8 DEF StatusOK, FinishedStatus
  <2>3. count' # 0 /\ copy'.generation \in 1..Len(history') /\ history'[copy'.generation] = copy'.spec
    <3>1. Len(history) \in Nat /\ Len(history) # 0
      BY <1>1 DEF GroupOK
    <3>2. copy'.generation = Len(history) /\ copy'.spec = history[Len(history)]
      BY <1>1, <1>2, <1>6 DEF GroupOK
    <3>3. count + 1 # 0
      BY <1>1
    <3> QED BY <1>3, <1>12, <3>1, <3>2, <3>3
  <2> QED BY <1>2, <1>6, <2>1, <2>2, <2>3 DEF WorkerOK
<1>15. WaitingStatus'
  <2>1. goroutines'[count'].pc = "resources" /\ goroutines'[count'].spec = copy'.spec
    BY <1>2, <1>6, <1>11, <1>12
  <2>2. newStatus'.conditions = <<>>
    BY <1>2 DEF EmptyStatus
  <2> QED BY <2>1, <2>2 DEF WaitingStatus
<1>16. ReturningStatus'
  BY <1>2 DEF ReturningStatus
<1> QED BY <1>9, <1>10, <1>13, <1>14, <1>15, <1>16 DEF IInv, Types

LEMMA FinishIInv ==
  ASSUME IInv, Finish
  PROVE  IInv'
<1> PICK conditions : conditions = FinishConditions(newStatus.resources)
  OBVIOUS
<1> PICK status : status = [newStatus EXCEPT !.observed = copy.generation, !.conditions = conditions]
  OBVIOUS
<1>1. /\ GroupOK /\ ObjectsOK /\ GoroutinesOK /\ WorkerOK /\ WaitingStatus /\ FinishedIsWhole
      /\ newStatus \in StatusRecords /\ copy \in Groups
      /\ copy.generation \in 1..Len(history)
  BY DEF IInv, Types, WorkerOK, StatusOK, Finish
<1>2. /\ worker = "waiting" /\ worker' = "returning" /\ newStatus' = status
      /\ goroutines[count].pc = "closed"
  BY DEF Finish
<1>3. UNCHANGED <<group, history, objects, changes, cache, goroutines, copy, fresh, pipelineError, recorder>>
  BY DEF Finish, outside, metrics
<1>4. /\ status \in StatusRecords /\ status.observed = copy.generation
      /\ status.conditions = conditions
      /\ status.resources = newStatus.resources /\ status.subgroups = newStatus.subgroups
  BY <1>1, WrittenConditions DEF StatusRecords, Groups
<1>5. GroupOK' /\ FinishedIsWhole'
  BY <1>1, <1>3, GroupStays
<1>6. ObjectsOK' /\ GoroutinesOK'
  BY <1>1, <1>3 DEF ObjectsOK, CachedStatuses, GoroutinesOK, count
<1>7. WorkerOK'
  <2>1. Len(history) \in Nat
    BY <1>1 DEF GroupOK
  <2>2. status.observed \in 0..Len(history) /\ status.observed # 0
    BY <1>1, <1>4, <2>1
  <2>3. StatusOK(newStatus)'
    BY <1>2, <1>3, <1>4, <2>2 DEF StatusOK
  <2>4. StatusOK(copy.status)' <=> StatusOK(copy.status)
    BY <1>3 DEF StatusOK, FinishedStatus
  <2> QED BY <1>1, <1>2, <1>3, <2>3, <2>4 DEF WorkerOK, count
<1>8. WaitingStatus'
  BY <1>2 DEF WaitingStatus
<1>9. ReturningStatus'
  <2>1. ResourcesStored /\ SubgroupsStored
    BY <1>1, <1>2 DEF WaitingStatus
  <2>2. ResourcesStored' /\ SubgroupsStored'
    BY <1>2, <1>3, <1>4, <2>1 DEF ResourcesStored, SubgroupsStored, count
  <2>3. newStatus'.conditions = FinishConditions(newStatus.resources)' /\ newStatus'.observed = copy'.generation
    BY <1>2, <1>3, <1>4
  <2> QED BY <1>2, <1>3, <2>2, <2>3 DEF ReturningStatus, count
<1> QED BY <1>5, <1>6, <1>7, <1>8, <1>9 DEF IInv, Types

LEMMA ExceedTimeoutIInv ==
  ASSUME IInv, ExceedTimeout
  PROVE  IInv'
<1> PICK status : status = [copy.status EXCEPT !.conditions = TimeoutConditions]
  OBVIOUS
<1>1. /\ GroupOK /\ ObjectsOK /\ GoroutinesOK /\ WorkerOK /\ FinishedIsWhole
      /\ copy.status \in StatusRecords /\ copy.status.observed \in 0..Len(history)
  BY DEF IInv, Types, WorkerOK, StatusOK, ExceedTimeout
<1>2. worker = "waiting" /\ worker' = "returning" /\ newStatus' = status
  BY DEF ExceedTimeout
<1>3. UNCHANGED <<group, history, objects, changes, cache, goroutines, copy, fresh, pipelineError, recorder>>
  BY DEF ExceedTimeout, outside, metrics
<1>4. /\ status \in StatusRecords /\ status.conditions = TimeoutConditions
      /\ status.observed = copy.status.observed
  BY <1>1, ConditionsFacts, WrittenConditions
<1>5. GroupOK' /\ FinishedIsWhole'
  BY <1>1, <1>3, GroupStays
<1>6. ObjectsOK' /\ GoroutinesOK'
  BY <1>1, <1>3 DEF ObjectsOK, CachedStatuses, GoroutinesOK, count
<1>7. WorkerOK'
  <2>1. ~FinishedStatus(status)
    BY <1>4, WrittenConditions DEF FinishedStatus
  <2>2. StatusOK(newStatus)'
    BY <1>1, <1>2, <1>3, <1>4, <2>1 DEF StatusOK, FinishedStatus
  <2>3. StatusOK(copy.status)' <=> StatusOK(copy.status)
    BY <1>3 DEF StatusOK, FinishedStatus
  <2> QED BY <1>1, <1>2, <1>3, <2>2, <2>3 DEF WorkerOK, count
<1>8. WaitingStatus'
  BY <1>2 DEF WaitingStatus
<1>9. ReturningStatus'
  BY <1>2, <1>4 DEF ReturningStatus
<1> QED BY <1>5, <1>6, <1>7, <1>8, <1>9 DEF IInv, Types

\* What the worker writes: the conditions it has made, which are in order, and
\* slices that are whole when the goroutine has ended.
LEMMA ReturnFacts ==
  ASSUME IInv, Return, fresh
  PROVE  \E resources \in Seq(GoodEntries), subgroups \in Seq(GroupEntries) :
           /\ group' = [group EXCEPT !.status =
                [observed |-> newStatus.observed, resources |-> resources, subgroups |-> subgroups,
                 conditions |-> newStatus.conditions]]
           /\ goroutines[count].pc = "closed" =>
                resources = newStatus.resources /\ subgroups = newStatus.subgroups
<1> PICK g : g = goroutines[count]
  OBVIOUS
<1>1. GoroutinesOK /\ WorkerOK /\ ReturningStatus /\ worker = "returning"
  BY DEF IInv, Types, Return
<1>2. GoroutineOK(g)
  BY <1>1, LastFacts DEF GoroutinesOK
<1>3. /\ newStatus.resources \in Seq(GoodEntries) /\ newStatus.subgroups \in Seq(GroupEntries)
      /\ g.statuses \in Seq(GoodEntries) /\ ToGroupStatuses(g.statuses) \in Seq(GroupEntries)
  BY <1>1, <1>2, ToGroupFacts DEF WorkerOK, StatusOK, StatusRecords, GoroutineOK, Goroutines
<1>4. Beyond \in GoodEntries /\ Beyond \in GroupEntries
  <2>1. Beyond \in GoodEntries
    BY BareFacts DEF Beyond, StatusValues
  <2> QED BY <2>1 DEF GoodEntries, GroupEntries
<1>5. AdjustConditionOrder(newStatus.conditions) = newStatus.conditions
  BY <1>1, StalledIffFailed, StartAndTimeoutOrder DEF ReturningStatus
<1>6. PICK resources \in Copies(newStatus.resources, g.pc = "resources" /\ Computed(g), g.statuses),
           subgroups \in Copies(newStatus.subgroups, g.pc = "subgroups" /\ Computed(g),
                                ToGroupStatuses(g.statuses)) :
        group' = [group EXCEPT !.status =
          [observed |-> newStatus.observed, resources |-> resources, subgroups |-> subgroups,
           conditions |-> AdjustConditionOrder(newStatus.conditions)]]
  BY DEF Return
<1>7. ASSUME NEW S, Beyond \in S, NEW old \in Seq(S), NEW new \in Seq(S), NEW pc \in {"resources", "subgroups"},
             NEW x \in Copies(old, g.pc = pc /\ Computed(g), new)
      PROVE  x \in Seq(S) /\ (g.pc = "closed" => x = old)
  <2>1. CASE g.pc = pc /\ Computed(g)
    <3>1. PICK s \in {old, new}, t \in {old, new} : x = Slice(s, Len(t))
      BY <2>1 DEF Copies
    <3>2. s \in Seq(S) /\ Len(t) \in Nat
      OBVIOUS
    <3> QED BY <1>7, <2>1, <3>1, <3>2, SliceFacts
  <2>2. CASE ~(g.pc = pc /\ Computed(g))
    BY <2>2 DEF Copies
  <2> QED BY <2>1, <2>2
<1>8. /\ resources \in Seq(GoodEntries) /\ (g.pc = "closed" => resources = newStatus.resources)
      /\ subgroups \in Seq(GroupEntries) /\ (g.pc = "closed" => subgroups = newStatus.subgroups)
  BY <1>3, <1>4, <1>6, <1>7
<1> QED BY <1>5, <1>6, <1>8

LEMMA ReturnIInv ==
  ASSUME IInv, Return
  PROVE  IInv'
<1>1. /\ GroupOK /\ ObjectsOK /\ GoroutinesOK /\ WorkerOK /\ ReturningStatus /\ FinishedIsWhole
  BY DEF IInv, Types
<1>2. worker = "returning" /\ worker' = "idle" /\ newStatus' = EmptyStatus
  BY DEF Return
<1>3. UNCHANGED <<history, objects, changes, cache, goroutines, pipelineError, recorder>>
  BY DEF Return, metrics
<1>4. GroupOK' /\ FinishedIsWhole'
  <2>1. CASE ~fresh
    <3>1. UNCHANGED <<group, history>>
      BY <1>3, <2>1 DEF Return
    <3> QED BY <1>1, <3>1, GroupStays
  <2>2. CASE fresh
    <3>1. PICK resources \in Seq(GoodEntries), subgroups \in Seq(GroupEntries) :
            /\ group' = [group EXCEPT !.status =
                 [observed |-> newStatus.observed, resources |-> resources, subgroups |-> subgroups,
                  conditions |-> newStatus.conditions]]
            /\ goroutines[count].pc = "closed" =>
                 resources = newStatus.resources /\ subgroups = newStatus.subgroups
      BY <2>2, ReturnFacts
    <3> PICK status : status =
          [observed |-> newStatus.observed, resources |-> resources, subgroups |-> subgroups,
           conditions |-> newStatus.conditions]
      OBVIOUS
    <3>2. newStatus.observed \in 0..Len(history) /\ newStatus.observed \in Nat
          /\ newStatus.conditions \in Seq(Condition)
      BY <1>1 DEF WorkerOK, StatusOK, StatusRecords
    <3>3. /\ status \in StatusRecords /\ status.observed = newStatus.observed
          /\ status.resources = resources /\ status.subgroups = subgroups
          /\ status.conditions = newStatus.conditions
      BY <3>2 DEF StatusRecords
    <3>4. /\ group' \in Groups /\ group'.status = status
          /\ group'.generation = group.generation /\ group'.spec = group.spec
      BY <1>1, <3>1, <3>3 DEF GroupOK, Groups
    <3>5. FinishedStatus(status) <=> FinishedStatus(newStatus)
      BY <3>3 DEF FinishedStatus
    <3>6. StatusOK(group.status)'
      <4>1. FinishedStatus(status) => status.observed # 0
        BY <1>1, <3>3, <3>5 DEF WorkerOK, StatusOK
      <4> QED BY <1>3, <3>2, <3>3, <3>4, <4>1 DEF StatusOK, FinishedStatus
    <3>7. GroupOK'
      BY <1>1, <1>3, <3>4, <3>6 DEF GroupOK
    <3>8. FinishedIsWhole'
      <4>1. CASE ~FinishedStatus(status)
        BY <3>4, <4>1 DEF FinishedIsWhole, FinishedStatus
      <4>2. CASE FinishedStatus(status)
        <5>1. newStatus.conditions # TimeoutConditions
          BY <3>3, <4>2, WrittenConditions DEF FinishedStatus
        <5>2. /\ newStatus.conditions = FinishConditions(newStatus.resources)
              /\ newStatus.observed = copy.generation
              /\ goroutines[count].pc = "closed"
              /\ ResourcesStored /\ SubgroupsStored
          BY <1>1, <1>2, <5>1 DEF ReturningStatus
        <5>3. history[copy.generation] = copy.spec
          BY <1>1, <1>2 DEF WorkerOK
        <5>4. /\ status.resources = newStatus.resources /\ status.subgroups = newStatus.subgroups
              /\ status.observed = copy.generation
          BY <3>1, <3>3, <5>2
        <5>5. /\ Ids(status.resources) = history[status.observed].resources
              /\ Ids(status.subgroups) = history[status.observed].subgroups
          BY <5>2, <5>3, <5>4 DEF ResourcesStored, SubgroupsStored
        <5>6. IsConditionTrue("Stalled", status.conditions) <=>
                \E i \in DOMAIN status.resources : status.resources[i].status = "Failed"
          BY <3>3, <5>2, <5>4, StalledIffFailed
        <5> QED BY <1>3, <3>4, <5>5, <5>6 DEF FinishedIsWhole
      <4> QED BY <4>1, <4>2
    <3> QED BY <3>7, <3>8
  <2> QED BY <2>1, <2>2
<1>5. ObjectsOK' /\ GoroutinesOK'
  BY <1>1, <1>3 DEF ObjectsOK, CachedStatuses, GoroutinesOK, count
<1>6. WorkerOK'
  <2>1. StatusOK(newStatus)'
    BY <1>1, <1>2, <1>3, EmptyStatusFacts DEF StatusOK, GroupOK, FinishedStatus
  <2> QED BY <1>2, <2>1 DEF WorkerOK
<1>7. WaitingStatus' /\ ReturningStatus'
  BY <1>2 DEF WaitingStatus, ReturningStatus
<1> QED BY <1>4, <1>5, <1>6, <1>7 DEF IInv, Types

-----------------------------------------------------------------------------
(* The actions from outside.                                               *)

LEMMA OutsideFacts ==
  ASSUME GoroutinesOK, WaitingStatus, ReturningStatus,
         UNCHANGED <<goroutines, worker, copy, newStatus, pipelineError, recorder>>
  PROVE  GoroutinesOK' /\ WaitingStatus' /\ ReturningStatus'
<1>1. count' = count
  BY DEF count
<1>2. GoroutinesOK'
  BY <1>1 DEF GoroutinesOK
<1>3. (ResourcesStored' <=> ResourcesStored) /\ (SubgroupsStored' <=> SubgroupsStored)
  BY <1>1 DEF ResourcesStored, SubgroupsStored
<1>4. WaitingStatus' /\ ReturningStatus'
  BY <1>1, <1>3 DEF WaitingStatus, ReturningStatus
<1> QED BY <1>2, <1>4

LEMMA ChangeSpecIInv ==
  ASSUME IInv, ChangeSpec
  PROVE  IInv'
<1> PICK s \in Specs : /\ group' = [group EXCEPT !.generation = @ + 1, !.spec = s]
                       /\ history' = Append(history, s)
  BY DEF ChangeSpec
<1>1. /\ GroupOK /\ ObjectsOK /\ GoroutinesOK /\ WorkerOK /\ WaitingStatus /\ ReturningStatus
      /\ FinishedIsWhole
  BY DEF IInv, Types
<1>2. /\ UNCHANGED <<goroutines, worker, copy, newStatus, pipelineError, recorder>>
      /\ UNCHANGED <<objects, cache>> /\ fresh' = FALSE
  BY DEF ChangeSpec, Outside, metrics
<1>3. /\ history' \in Seq(Specs) /\ Len(history') = Len(history) + 1 /\ Len(history) \in Nat
      /\ history'[Len(history')] = s
      /\ \A i \in 1..Len(history) : history'[i] = history[i]
  BY <1>1 DEF GroupOK
<1>4. /\ group' \in Groups /\ group'.generation = group.generation + 1 /\ group'.spec = s
      /\ group'.status = group.status
  <2> PICK generation \in Nat : generation = group.generation + 1
    BY <1>1 DEF GroupOK
  <2>1. group' = [group EXCEPT !.generation = generation, !.spec = s]
    OBVIOUS
  <2> QED BY <1>1, <2>1 DEF GroupOK, Groups
<1>5. 0..Len(history) \subseteq 0..Len(history')
  BY <1>3
<1>6. \A status : StatusOK(status) =>
        status \in StatusRecords /\ status.observed \in 0..Len(history')
        /\ (FinishedStatus(status) => status.observed # 0)
  BY <1>5 DEF StatusOK
<1>7. StatusOK(group.status)'
  BY <1>1, <1>4, <1>6 DEF StatusOK, GroupOK, FinishedStatus
<1>8. GroupOK'
  <2>1. group'.generation = Len(history') /\ Len(history') # 0
    BY <1>1, <1>3, <1>4 DEF GroupOK
  <2> QED BY <1>3, <1>4, <1>7, <2>1 DEF GroupOK
<1>9. FinishedIsWhole'
  <2>1. CASE ~FinishedStatus(group.status)
    BY <1>4, <2>1 DEF FinishedIsWhole, FinishedStatus
  <2>2. CASE FinishedStatus(group.status)
    <3>1. group.status.observed \in 0..Len(history) /\ group.status.observed # 0
      BY <1>1, <2>2 DEF GroupOK, StatusOK
    <3>2. history'[group.status.observed] = history[group.status.observed]
      BY <1>3, <3>1
    <3> QED BY <1>1, <1>4, <2>2, <3>2 DEF FinishedIsWhole
  <2> QED BY <2>1, <2>2
<1>10. ObjectsOK'
  BY <1>1, <1>2 DEF ObjectsOK, CachedStatuses
<1>11. WorkerOK'
  <2>1. StatusOK(newStatus)'
    BY <1>1, <1>2, <1>6 DEF StatusOK, WorkerOK, FinishedStatus
  <2>2. worker # "idle" => StatusOK(copy.status)'
    BY <1>1, <1>2, <1>6 DEF StatusOK, WorkerOK, FinishedStatus
  <2>3. worker # "idle" => copy.generation \in 1..Len(history') /\ history'[copy.generation] = copy.spec
    BY <1>1, <1>3 DEF WorkerOK
  <2>4. count' = count
    BY <1>2 DEF count
  <2> QED BY <1>1, <1>2, <2>1, <2>2, <2>3, <2>4 DEF WorkerOK
<1>12. GoroutinesOK' /\ WaitingStatus' /\ ReturningStatus'
  BY <1>1, <1>2, OutsideFacts
<1> QED BY <1>8, <1>9, <1>10, <1>11, <1>12 DEF IInv, Types

LEMMA ChangeObjectIInv ==
  ASSUME IInv, ChangeObject
  PROVE  IInv'
<1> PICK r \in Resources :
      \E o \in Objects[r] \cup {None} :
        /\ objects' = [objects EXCEPT ![r] = o]
        /\ cache' = [cache EXCEPT ![r] = IF o = None THEN Missing ELSE ComputeStatus(o)]
  BY DEF ChangeObject
<1> PICK o \in Objects[r] \cup {None} :
      /\ objects' = [objects EXCEPT ![r] = o]
      /\ cache' = [cache EXCEPT ![r] = IF o = None THEN Missing ELSE ComputeStatus(o)]
  OBVIOUS
<1>1. /\ GroupOK /\ ObjectsOK /\ GoroutinesOK /\ WorkerOK /\ WaitingStatus /\ ReturningStatus
      /\ FinishedIsWhole
  BY DEF IInv, Types
<1>2. UNCHANGED <<goroutines, worker, copy, newStatus, pipelineError, recorder, group, history, fresh>>
  BY DEF ChangeObject, Outside, metrics
<1>3. ObjectsOK'
  BY <1>1 DEF ObjectsOK, CachedStatuses
<1>4. GroupOK' /\ FinishedIsWhole'
  BY <1>1, <1>2, GroupStays
<1>5. WorkerOK'
  BY <1>1, <1>2 DEF WorkerOK, StatusOK, FinishedStatus, count
<1>6. GoroutinesOK' /\ WaitingStatus' /\ ReturningStatus'
  BY <1>1, <1>2, OutsideFacts
<1> QED BY <1>3, <1>4, <1>5, <1>6 DEF IInv, Types

\* What the applier writes is neither a resource nor its status.
LEMMA ActuateIInv ==
  ASSUME IInv, Actuate
  PROVE  IInv'
<1>1. /\ GroupOK /\ ObjectsOK /\ GoroutinesOK /\ WorkerOK /\ WaitingStatus /\ ReturningStatus
      /\ FinishedIsWhole /\ group \in Groups /\ StatusOK(group.status)
      /\ group.status \in StatusRecords
  BY DEF IInv, Types, GroupOK, StatusOK
<1> PICK old \in Seq(GoodEntries) : old = group.status.resources
  BY <1>1 DEF StatusRecords
<1> PICK i \in DOMAIN old, a \in Applied :
      group' = [group EXCEPT !.status.resources[i] =
                 [@ EXCEPT !.actuation = a.actuation, !.reconcile = a.reconcile]]
  BY DEF Actuate
<1>2. /\ UNCHANGED <<goroutines, worker, copy, newStatus, pipelineError, recorder>>
      /\ UNCHANGED <<objects, cache, history>> /\ fresh' = FALSE
  BY DEF Actuate, Outside, metrics
<1> PICK entry : entry = [old[i] EXCEPT !.actuation = a.actuation, !.reconcile = a.reconcile]
  OBVIOUS
<1> PICK new : new = [old EXCEPT ![i] = entry]
  OBVIOUS
<1> PICK status : status = [group.status EXCEPT !.resources = new]
  OBVIOUS
<1>3. a.actuation \in ActuationValues /\ a.reconcile \in ReconcileValues
  BY AppliedAssumption
<1>4. old[i] \in GoodEntries /\ old[i] \in Entries
  BY DEF GoodEntries
<1>5. /\ entry \in GoodEntries /\ entry.resource = old[i].resource /\ entry.status = old[i].status
  <2>1. /\ entry \in Entries /\ entry.resource = old[i].resource /\ entry.status = old[i].status
        /\ entry.conditions = old[i].conditions
    BY <1>3, <1>4 DEF Entries
  <2> QED BY <1>4, <2>1 DEF GoodEntries, OnceOwned
<1>6. /\ new \in Seq(GoodEntries) /\ DOMAIN new = DOMAIN old
      /\ \A j \in DOMAIN old : new[j].resource = old[j].resource /\ new[j].status = old[j].status
  <2>1. new \in Seq(GoodEntries) /\ DOMAIN new = DOMAIN old
    BY <1>5
  <2>2. \A j \in DOMAIN old : new[j] = IF j = i THEN entry ELSE old[j]
    OBVIOUS
  <2> QED BY <1>5, <2>1, <2>2
<1>7. /\ status \in StatusRecords /\ status.resources = new
      /\ status.subgroups = group.status.subgroups
      /\ status.observed = group.status.observed /\ status.conditions = group.status.conditions
  BY <1>1, <1>6 DEF StatusRecords
<1>8. group' = [group EXCEPT !.status = status]
  BY <1>1 DEF Groups, StatusRecords
<1>9. /\ group' \in Groups /\ group'.status = status
      /\ group'.generation = group.generation /\ group'.spec = group.spec
  BY <1>1, <1>7, <1>8 DEF Groups
<1>10. FinishedStatus(status) <=> FinishedStatus(group.status)
  BY <1>7 DEF FinishedStatus
<1>11. GroupOK'
  <2>1. StatusOK(status)
    BY <1>1, <1>7, <1>10 DEF StatusOK
  <2>2. StatusOK(group.status)'
    BY <1>2, <1>9, <2>1 DEF StatusOK, FinishedStatus
  <2> QED BY <1>1, <1>2, <1>9, <2>2 DEF GroupOK
<1>12. FinishedIsWhole'
  <2>1. Ids(status.resources) = Ids(group.status.resources)
    BY <1>6, <1>7 DEF Ids
  <2>2. (\E j \in DOMAIN status.resources : status.resources[j].status = "Failed") <=>
        (\E j \in DOMAIN group.status.resources : group.status.resources[j].status = "Failed")
    BY <1>6, <1>7
  <2>3. CASE ~FinishedStatus(group.status)
    BY <1>9, <1>10, <2>3 DEF FinishedIsWhole, FinishedStatus
  <2>4. CASE FinishedStatus(group.status)
    <3>1. /\ Ids(group.status.resources) = history[group.status.observed].resources
          /\ Ids(group.status.subgroups) = history[group.status.observed].subgroups
          /\ IsConditionTrue("Stalled", group.status.conditions) <=>
               \E j \in DOMAIN group.status.resources : group.status.resources[j].status = "Failed"
      BY <1>1, <2>4 DEF FinishedIsWhole
    <3>2. /\ Ids(status.resources) = history[status.observed].resources
          /\ Ids(status.subgroups) = history[status.observed].subgroups
      BY <1>7, <2>1, <3>1
    <3>3. IsConditionTrue("Stalled", status.conditions) <=>
            \E j \in DOMAIN status.resources : status.resources[j].status = "Failed"
      BY <1>7, <2>2, <3>1
    <3>4. group'.status = status /\ history' = history
      BY <1>2, <1>9
    <3> QED BY <3>2, <3>3, <3>4 DEF FinishedIsWhole
  <2> QED BY <2>3, <2>4
<1>13. ObjectsOK'
  BY <1>1, <1>2 DEF ObjectsOK, CachedStatuses
<1>14. WorkerOK'
  BY <1>1, <1>2 DEF WorkerOK, StatusOK, FinishedStatus, count
<1>15. GoroutinesOK' /\ WaitingStatus' /\ ReturningStatus'
  BY <1>1, <1>2, OutsideFacts
<1> QED BY <1>11, <1>12, <1>13, <1>14, <1>15 DEF IInv, Types

-----------------------------------------------------------------------------
(* The theorems.                                                           *)

LEMMA InitIInv ==
  ASSUME Init
  PROVE  IInv
<1> PICK s \in Specs : group = [generation |-> 1, spec |-> s, status |-> EmptyStatus] /\ history = <<s>>
  BY DEF Init
<1>1. history \in Seq(Specs) /\ Len(history) = 1 /\ history[Len(history)] = s
  OBVIOUS
<1>2. /\ goroutines = <<>> /\ count = 0 /\ worker = "idle" /\ newStatus = EmptyStatus
      /\ pipelineError = FALSE /\ recorder = 0
  BY EmptyFacts DEF Init, count
<1>3. /\ group.status = EmptyStatus /\ group.generation = 1 /\ group.spec = s
  OBVIOUS
<1>4. group \in Groups
  BY EmptyStatusFacts DEF Groups
<1>5. StatusOK(EmptyStatus)
  BY <1>1, EmptyStatusFacts DEF StatusOK
<1>6. GroupOK
  BY <1>1, <1>3, <1>4, <1>5 DEF GroupOK
<1>7. ObjectsOK
  BY DEF Init, ObjectsOK
<1>8. GoroutinesOK
  <2>1. goroutines \in Seq(Goroutines)
    BY <1>2, EmptyFacts
  <2>2. count \in 0..MaxReconciles /\ recorder \in 0..count
    BY <1>2, BoundsAssumption
  <2>3. \A c \in 1..count : FALSE
    BY <1>2
  <2> QED BY <1>2, <2>1, <2>2, <2>3 DEF GoroutinesOK
<1>9. WorkerOK
  BY <1>2, <1>5 DEF WorkerOK
<1>10. WaitingStatus /\ ReturningStatus
  BY <1>2 DEF WaitingStatus, ReturningStatus
<1>11. FinishedIsWhole
  BY <1>3, EmptyStatusFacts DEF FinishedIsWhole
<1> QED BY <1>6, <1>7, <1>8, <1>9, <1>10, <1>11 DEF IInv, Types

LEMMA NextIInv ==
  ASSUME IInv, [Next]_vars
  PROVE  IInv'
<1>1. CASE ChangeSpec
  BY <1>1, ChangeSpecIInv
<1>2. CASE Actuate
  BY <1>2, ActuateIInv
<1>3. CASE ChangeObject
  BY <1>3, ChangeObjectIInv
<1>4. CASE Begin
  BY <1>4, BeginIInv
<1>5. CASE Finish
  BY <1>5, FinishIInv
<1>6. CASE ExceedTimeout
  BY <1>6, ExceedTimeoutIInv
<1>7. CASE Return
  BY <1>7, ReturnIInv
<1>8. ASSUME NEW c \in 1..count, Goroutine(c)
      PROVE  IInv'
  <2>1. CASE ComputeNext(c)
    BY <2>1, ComputeNextIInv
  <2>2. CASE ComputeNextFails(c)
    BY <2>2, ComputeNextFailsIInv
  <2>3. CASE StoreResources(c)
    BY <2>3, StoreResourcesIInv
  <2>4. CASE StoreSubgroups(c)
    BY <2>4, StoreSubgroupsIInv
  <2> QED BY <1>8, <2>1, <2>2, <2>3, <2>4 DEF Goroutine
<1>9. CASE UNCHANGED vars
  <2>1. /\ UNCHANGED <<goroutines, worker, copy, newStatus, pipelineError, recorder>>
        /\ UNCHANGED <<group, history, objects, cache, fresh>>
    BY <1>9 DEF vars, outside, reconcile, metrics
  <2>2. /\ GroupOK /\ ObjectsOK /\ GoroutinesOK /\ WorkerOK /\ WaitingStatus /\ ReturningStatus
        /\ FinishedIsWhole
    BY DEF IInv, Types
  <2>3. GroupOK' /\ FinishedIsWhole'
    BY <2>1, <2>2, GroupStays
  <2>4. ObjectsOK' /\ WorkerOK'
    BY <2>1, <2>2 DEF ObjectsOK, CachedStatuses, WorkerOK, StatusOK, FinishedStatus, count
  <2>5. GoroutinesOK' /\ WaitingStatus' /\ ReturningStatus'
    BY <2>1, <2>2, OutsideFacts
  <2> QED BY <2>3, <2>4, <2>5 DEF IInv, Types
<1> QED BY <1>1, <1>2, <1>3, <1>4, <1>5, <1>6, <1>7, <1>8, <1>9 DEF Next

(***************************************************************************)
(* The inductive invariant: whoever has taken the last step, a goroutine   *)
(* has the statuses of a prefix of its spec, and newStatus has what the    *)
(* goroutine of the same reconcile has stored so far.                      *)
(***************************************************************************)
THEOREM Invariance == Spec => []IInv
<1>1. Init => IInv
  BY InitIInv
<1>2. IInv /\ [Next]_vars => IInv'
  BY NextIInv
<1> QED BY <1>1, <1>2, PTL DEF Spec

(***************************************************************************)
(* The group, the cache, the statuses of every goroutine and the metric    *)
(* have their types, and the copy that reconcileKpt read is the group as   *)
(* long as an update with it would succeed.                                *)
(***************************************************************************)
THEOREM TypeCorrect == Spec => []TypeOK
<1>1. IInv => TypeOK
  <2> SUFFICES ASSUME IInv PROVE TypeOK
    OBVIOUS
  <2>1. GroupOK /\ ObjectsOK /\ GoroutinesOK /\ WorkerOK
    BY DEF IInv, Types
  <2>2. ASSUME NEW entries \in Seq(GoodEntries) PROVE Range(entries) \subseteq Entries
    BY DEF Range, GoodEntries
  <2>3. /\ group.generation = Len(history) /\ group.spec = history[Len(history)]
        /\ group.status.observed \in 0..group.generation
    BY <2>1 DEF GroupOK, StatusOK
  <2>4. Range(group.status.resources) \subseteq Entries
    BY <2>1, <2>2 DEF GroupOK, StatusOK, StatusRecords
  <2>5. \A c \in 1..count : Range(goroutines[c].statuses) \subseteq Entries
    BY <2>1, <2>2 DEF GoroutinesOK, GoroutineOK, Goroutines
  <2>6. /\ count \in 0..MaxReconciles /\ recorder \in 0..count /\ pipelineError \in BOOLEAN
        /\ worker \in {"idle", "waiting", "returning"}
        /\ fresh /\ worker # "idle" => copy = group
    BY <2>1 DEF GoroutinesOK, WorkerOK
  <2> QED BY <2>1, <2>3, <2>4, <2>5, <2>6 DEF TypeOK, ObjectsOK
<1> QED BY <1>1, Invariance, PTL

(***************************************************************************)
(* endReconcilingStatus and updateStatusKptGroup: a status that is finished*)
(* is whole, however many goroutines of reconciles that have timed out go  *)
(* on and whatever becomes of the spec in the meantime.                    *)
(***************************************************************************)
THEOREM FinishedStaysWhole == Spec => []FinishedIsWhole
<1>1. IInv => FinishedIsWhole
  BY DEF IInv
<1> QED BY <1>1, Invariance, PTL

(***************************************************************************)
(* setResStatus copies the cached conditions before it appends to them: no *)
(* published status says an ownership twice, whatever the objects say.     *)
(***************************************************************************)
THEOREM OwnershipStaysSingle == Spec => []OwnershipIsSaidOnce
<1>1. IInv => OwnershipIsSaidOnce
  <2> SUFFICES ASSUME IInv PROVE OwnershipIsSaidOnce
    OBVIOUS
  <2>1. /\ group.status.resources \in Seq(GoodEntries)
        /\ group.status.subgroups \in Seq(GroupEntries)
    BY DEF IInv, Types, GroupOK, StatusOK, StatusRecords
  <2>2. ASSUME NEW entries \in Seq(GoodEntries) \cup Seq(GroupEntries) PROVE Owned(entries)
    <3>1. \A i \in DOMAIN entries : OnceOwned(entries[i])
      <4>1. CASE entries \in Seq(GoodEntries)
        BY <4>1 DEF GoodEntries
      <4>2. CASE entries \in Seq(GroupEntries)
        BY <4>2 DEF GroupEntries
      <4> QED BY <4>1, <4>2
    <3> QED BY <3>1 DEF Owned, OnceOwned
  <2> QED BY <2>1, <2>2 DEF OwnershipIsSaidOnce
<1> QED BY <1>1, Invariance, PTL

(***************************************************************************)
(* computeResourceStatuses records the pipeline error of every failure that*)
(* its reconcile is about to publish, and computeSubGroupStatuses does not *)
(* take it back.                                                           *)
(***************************************************************************)
THEOREM FailureStaysRecorded == Spec => []FailureIsRecorded
<1>1. IInv => FailureIsRecorded
  <2> SUFFICES ASSUME IInv, FinishedStatus(newStatus), IsConditionTrue("Stalled", newStatus.conditions),
                      recorder = count
               PROVE  pipelineError
    BY DEF FailureIsRecorded
  <2>1. GoroutinesOK /\ WorkerOK /\ WaitingStatus /\ ReturningStatus
    BY DEF IInv, Types
  <2>2. newStatus.conditions # <<>> /\ newStatus.conditions # TimeoutConditions
    BY WrittenConditions DEF FinishedStatus
  <2>3. worker = "returning"
    BY <2>1, <2>2 DEF WorkerOK, WaitingStatus, EmptyStatus
  <2>4. newStatus.conditions = FinishConditions(newStatus.resources) /\ ResourcesStored
    BY <2>1, <2>2, <2>3 DEF ReturningStatus
  <2>5. HasFailed(newStatus.resources)
    BY <2>4, StalledIffFailed DEF HasFailed
  <2> QED BY <2>4, <2>5 DEF ResourcesStored
<1> QED BY <1>1, Invariance, PTL

-----------------------------------------------------------------------------
(* The reconcile implements StatusProtocol.                                *)

LEMMA PairNames ==
  /\ PairName(<<>>) = "none"
  /\ PairName(StartConditions) = "Reconciling"
  /\ PairName(TimeoutConditions) = "ExceedTimeout"
  /\ \A statuses : PairName(FinishConditions(statuses)) \in {"Finished", "ComponentFailed"}
<1>1. StartConditions # <<>> /\ TimeoutConditions # <<>> /\ StartConditions # TimeoutConditions
  BY WrittenConditions
<1>2. ASSUME NEW statuses
      PROVE  PairName(FinishConditions(statuses)) \in {"Finished", "ComponentFailed"}
  <2> PICK pair : pair = FinishConditions(statuses)
    OBVIOUS
  <2>1. pair # <<>> /\ pair[1].reason = "FinishReconciling"
    BY DEF FinishConditions, NewCondition
  <2>2. pair # <<>> /\ pair # StartConditions /\ pair # TimeoutConditions
    BY <2>1, WrittenConditions
  <2> QED BY <2>2 DEF PairName
<1> QED BY <1>1, <1>2 DEF PairName

(***************************************************************************)
(* A reconcile that has begun knows that the copy it will write back says  *)
(* so, and after a timeout it has the generation observed before.          *)
(***************************************************************************)
HandsOver ==
  /\ worker # "idle" => copy.status.conditions = StartConditions
  /\ worker = "returning" /\ newStatus.conditions = TimeoutConditions =>
       newStatus.observed = copy.status.observed

\* A goroutine stores statuses into newStatus and leaves the rest of it.
LEMMA StoredFacts ==
  ASSUME IInv, NEW c, Goroutine(c)
  PROVE  /\ UNCHANGED <<group, worker, copy>>
         /\ newStatus'.conditions = newStatus.conditions /\ newStatus'.observed = newStatus.observed
<1>1. newStatus \in StatusRecords
  BY DEF IInv, Types, WorkerOK, StatusOK
<1>2. ASSUME ComputeNext(c) \/ ComputeNextFails(c) PROVE UNCHANGED <<group, worker, copy, newStatus>>
  BY <1>2 DEF ComputeNext, ComputeNextFails, AppendEntry, outside, reconcile
<1>3. ASSUME NEW entries, \/ newStatus' = [newStatus EXCEPT !.resources = entries]
                          \/ newStatus' = [newStatus EXCEPT !.subgroups = entries]
      PROVE  newStatus'.conditions = newStatus.conditions /\ newStatus'.observed = newStatus.observed
  BY <1>1, <1>3 DEF StatusRecords
<1>4. CASE StoreResources(c)
  <2>1. UNCHANGED <<group, worker, copy>>
    BY <1>4 DEF StoreResources, outside
  <2>2. newStatus' = newStatus
        \/ newStatus' = [newStatus EXCEPT !.resources = goroutines[c].statuses]
    BY <1>4 DEF StoreResources, Store
  <2> QED BY <1>3, <2>1, <2>2
<1>5. CASE StoreSubgroups(c)
  <2>1. UNCHANGED <<group, worker, copy>>
    BY <1>5 DEF StoreSubgroups, outside
  <2>2. newStatus' = newStatus
        \/ newStatus' = [newStatus EXCEPT !.subgroups = ToGroupStatuses(goroutines[c].statuses)]
    BY <1>5 DEF StoreSubgroups, Store
  <2> QED BY <1>3, <2>1, <2>2
<1> QED BY <1>2, <1>4, <1>5 DEF Goroutine

\* The conditions that Begin writes, and the rest that it leaves.
LEMMA BegunFacts ==
  ASSUME IInv, Begin
  PROVE  /\ group'.status.conditions = StartConditions /\ copy' = group'
         /\ group'.status.observed = group.status.observed
         /\ group'.generation = group.generation
<1>1. group \in Groups /\ group.status \in StatusRecords
  BY DEF IInv, Types, GroupOK, StatusOK
<1> PICK status : status = [group.status EXCEPT !.conditions = StartConditions]
  OBVIOUS
<1>2. status.conditions = StartConditions /\ status.observed = group.status.observed
  BY <1>1, ConditionsFacts, WrittenConditions
<1>3. group' = [group EXCEPT !.status = status]
  <2>1. group' = [group EXCEPT !.status.conditions = StartConditions]
    BY StartAndTimeoutOrder DEF Begin
  <2> QED BY <1>1, <2>1 DEF Groups
<1>4. group'.status = status /\ group'.generation = group.generation
  BY <1>1, <1>3 DEF Groups
<1> QED BY <1>2, <1>4 DEF Begin

LEMMA HandsOverStep ==
  ASSUME IInv, HandsOver, [Next]_vars
  PROVE  HandsOver'
<1>1. CASE Begin
  <2>1. worker' = "waiting" /\ copy'.status.conditions = StartConditions
    BY <1>1, BegunFacts DEF Begin
  <2> QED BY <2>1 DEF HandsOver
<1>2. CASE Finish
  <2>1. worker = "waiting" /\ copy' = copy
    BY <1>2 DEF Finish
  <2>2. newStatus'.conditions = FinishConditions(newStatus.resources)
    <3>1. newStatus \in StatusRecords
      BY DEF IInv, Types, WorkerOK, StatusOK
    <3> QED BY <1>2, <3>1 DEF Finish, StatusRecords
  <2>3. newStatus'.conditions # TimeoutConditions
    BY <2>2, PairNames
  <2> QED BY <2>1, <2>3 DEF HandsOver
<1>3. CASE ExceedTimeout
  <2>1. worker = "waiting" /\ copy' = copy /\ copy.status \in StatusRecords
    BY <1>3 DEF ExceedTimeout, IInv, Types, WorkerOK, StatusOK
  <2>2. newStatus'.observed = copy.status.observed
    BY <1>3, <2>1, ConditionsFacts, WrittenConditions DEF ExceedTimeout
  <2> QED BY <2>1, <2>2 DEF HandsOver
<1>4. CASE Return
  BY <1>4 DEF Return, HandsOver
<1>5. ASSUME NEW c \in 1..count, Goroutine(c) PROVE HandsOver'
  BY <1>5, StoredFacts DEF HandsOver
<1>6. CASE ChangeSpec \/ Actuate \/ ChangeObject \/ UNCHANGED vars
  <2>1. UNCHANGED <<worker, copy, newStatus>>
    BY <1>6 DEF ChangeSpec, Actuate, ChangeObject, Outside, vars, reconcile
  <2> QED BY <2>1 DEF HandsOver
<1> QED BY <1>1, <1>2, <1>3, <1>4, <1>5, <1>6 DEF Next

LEMMA HandsOverAlways == Spec => []HandsOver
<1>1. Init => HandsOver
  BY DEF Init, HandsOver
<1>2. IInv /\ HandsOver /\ [Next]_vars => HandsOver'
  BY HandsOverStep
<1> QED BY <1>1, <1>2, Invariance, PTL DEF Spec

\* What the applier writes is none of what the conditions say.
LEMMA ActuateSeen ==
  ASSUME IInv, Actuate
  PROVE  UNCHANGED Protocol!vars
<1>1. group \in Groups /\ group.status \in StatusRecords
  BY DEF IInv, Types, GroupOK, StatusOK
<1> PICK i \in DOMAIN group.status.resources, a \in Applied :
      group' = [group EXCEPT !.status.resources[i] =
                 [@ EXCEPT !.actuation = a.actuation, !.reconcile = a.reconcile]]
  BY DEF Actuate
<1> PICK new : new = [group.status.resources EXCEPT ![i] =
                       [@ EXCEPT !.actuation = a.actuation, !.reconcile = a.reconcile]]
  OBVIOUS
<1>2. group' = [group EXCEPT !.status = [group.status EXCEPT !.resources = new]]
  OBVIOUS
<1>3. /\ group'.generation = group.generation
      /\ group'.status.observed = group.status.observed
      /\ group'.status.conditions = group.status.conditions
  BY <1>1, <1>2 DEF Groups, StatusRecords
<1> QED BY <1>3 DEF Protocol!vars

\* The status that is written comes from the copy, which is the group.
LEMMA ReturnSeen ==
  ASSUME IInv, HandsOver, Return
  PROVE  Protocol!End \/ Protocol!TimeOut \/ UNCHANGED Protocol!vars
<1>1. CASE ~fresh
  BY <1>1 DEF Return, Protocol!vars
<1>2. CASE fresh
  <2>1. /\ worker = "returning" /\ copy = group /\ group \in Groups
        /\ ReturningStatus
    BY <1>2 DEF IInv, Types, WorkerOK, GroupOK, Return
  <2>2. PairName(group.status.conditions) = "Reconciling"
    BY <2>1, PairNames DEF HandsOver
  <2>3. /\ group'.generation = group.generation
        /\ group'.status.observed = newStatus.observed
        /\ group'.status.conditions = newStatus.conditions
    BY <1>2, <2>1, ReturnFacts DEF Groups
  <2>4. CASE newStatus.conditions = TimeoutConditions
    <3>1. newStatus.observed = group.status.observed
      BY <2>1, <2>4 DEF HandsOver
    <3> QED BY <2>2, <2>3, <2>4, <3>1, PairNames DEF Protocol!TimeOut
  <2>5. CASE /\ newStatus.conditions = FinishConditions(newStatus.resources)
             /\ newStatus.observed = copy.generation
    BY <2>1, <2>2, <2>3, <2>5, PairNames DEF Protocol!End
  <2> QED BY <2>1, <2>4, <2>5 DEF ReturningStatus
<1> QED BY <1>1, <1>2

(***************************************************************************)
(* endReconcilingStatus does what StatusProtocol says: what it returns     *)
(* ends the reconcile that has begun, whatever goroutines of earlier ones  *)
(* still run, and a timeout leaves the generation that was observed        *)
(* (resourcegroup_controller.go:105-126, 216-231).                         *)
(***************************************************************************)
THEOREM Refinement == Spec => ImplementsProtocol
<1>1. Init => Protocol!Init
  BY PairNames DEF Init, Protocol!Init, EmptyStatus
<1>2. IInv /\ HandsOver /\ [Next]_vars => [Protocol!Next]_(Protocol!vars)
  <2> SUFFICES ASSUME IInv, HandsOver, [Next]_vars
               PROVE  Protocol!Next \/ UNCHANGED Protocol!vars
    OBVIOUS
  <2>1. CASE ChangeSpec
    <3>1. group \in Groups
      BY DEF IInv, Types, GroupOK
    <3>2. PICK s \in Specs : group' = [group EXCEPT !.generation = @ + 1, !.spec = s]
      BY <2>1 DEF ChangeSpec
    <3>3. group'.generation = group.generation + 1 /\ group'.status = group.status
      BY <3>1, <3>2 DEF Groups
    <3> QED BY <3>3 DEF Protocol!Next, Protocol!Edit
  <2>2. CASE Actuate
    BY <2>2, ActuateSeen
  <2>3. CASE Begin
    BY <2>3, BegunFacts, PairNames DEF Protocol!Next, Protocol!Begin
  <2>4. CASE Return
    BY <2>4, ReturnSeen DEF Protocol!Next
  <2>5. ASSUME NEW c \in 1..count, Goroutine(c) PROVE UNCHANGED Protocol!vars
    BY <2>5, StoredFacts DEF Protocol!vars
  <2>6. CASE ChangeObject \/ Finish \/ ExceedTimeout \/ UNCHANGED vars
    <3>1. group' = group
      BY <2>6 DEF ChangeObject, Finish, ExceedTimeout, outside, vars
    <3> QED BY <3>1 DEF Protocol!vars
  <2> QED BY <2>1, <2>2, <2>3, <2>4, <2>5, <2>6 DEF Next
<1> QED BY <1>1, <1>2, Invariance, HandsOverAlways, PTL
     DEF Spec, ImplementsProtocol, Protocol!Spec

=============================================================================
