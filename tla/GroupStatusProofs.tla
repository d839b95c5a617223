------------------------- MODULE GroupStatusProofs -------------------------
(***************************************************************************)
(* For any statuses, any number of outside changes and an informer that is *)
(* any number of versions behind: what the controller writes is true of    *)
(* the object, and when the program has come to rest the group is          *)
(* published, cleared or forgotten.                                        *)
(*                                                                         *)
(* The properties at rest need, for each reason to act, where it is while  *)
(* the program is not at rest: in a version that the informer has still to *)
(* deliver and that will pass the filter, in a request, or in a reconcile. *)
(***************************************************************************)
EXTENDS GroupStatus, TLAPS

-----------------------------------------------------------------------------
(* The versions of the object, from the one in the cache to the latest.    *)

Version(i) == IF i = 0 THEN cache ELSE events[i]
Versions == 0..Len(events)
NewestIsTheObject == Version(Len(events)) = api

\* No version after i, up to j, is that of a deleted object.
SameObject(i, j) == \A k \in i..j : Version(k).phase # "gone"

\* Between two versions of one object, what is being deleted stays so, the
\* generation does not fall, and a deletion raises it.
OneHistory ==
  \A i, j \in Versions : i < j /\ SameObject(i, j) =>
    /\ Version(i).generation <= Version(j).generation
    /\ Version(i).phase = "deleting" => Version(j).phase = "deleting"
    /\ Version(i).phase = "alive" /\ Version(j).phase = "deleting" =>
         Version(i).generation < Version(j).generation

\* Only a removed annotation, or another object, is enabled after a disabled one.
EnablingIsKnown ==
  \A i \in Versions : Version(i).disabled /\ ~api.disabled /\ ~reenabled =>
    \E j \in Versions : i < j /\ Version(j).phase = "gone"

WellFormed(obj) ==
  /\ obj.phase = "gone" => obj = NoObject
  /\ obj.status.conditions = "none" => obj.status.observed = 0
  /\ obj.status.conditions \in {"Finished", "ComponentFailed"} => obj.status.resource # NoEntry

VersionsOK ==
  /\ NewestIsTheObject
  /\ \A i \in Versions : WellFormed(Version(i))
  /\ api.generation <= changes + 1
  /\ OneHistory
  /\ EnablingIsKnown

\* An object that the informer does not know yet has no conditions.
UnknownIsUnset ==
  api.phase = "alive" /\ (\E i \in Versions : Version(i).phase # "alive") =>
    /\ api.status.conditions = "none"
    /\ rgPc = "idle" \/ ~rgFresh

-----------------------------------------------------------------------------
(* The locals of the two controllers.                                      *)

Ended(status) == status.conditions \in {"Finished", "ComponentFailed"}

\* What newStatus says of the copy it was made from.
ComputedFrom(obj, status) ==
  /\ status.conditions \in {"Finished", "ComponentFailed", "ExceedTimeout"}
  /\ status.observed \in {obj.status.observed, obj.generation}
  /\ Ended(status) => status.observed = obj.generation /\ status.resource # NoEntry
  /\ obj.status.resource # NoEntry =>
       status.resource = [obj.status.resource EXCEPT !.status = status.resource.status]

LocalsOK ==
  /\ rootPc = "clearing" => rootObj.disabled
  /\ rgPc # "idle" => rgObj.phase = "alive"
  /\ rgPc = "computed" => ComputedFrom(rgObj, newStatus)

\* What was computed is current, or a request has come since.
ComputedIsCurrent ==
  rgPc = "computed" /\ Ended(newStatus) /\ tracked =>
    newStatus.resource.status = Legacy([newStatus.resource EXCEPT !.status = live]) \/ rgPending

-----------------------------------------------------------------------------
(* Where the reasons to act are.                                           *)

RootBusy == rootPending \/ rootPc = "clearing"
ControllerBusy == rgPending \/ rgPc # "idle"

\* Root has still to forget a group that is not alive.
ToForget ==
  tracked /\ ~replaced /\ cache.phase # "alive" => RootBusy

\* Root has still to clear the status of a disabled group.
ToClear ==
  cache.disabled /\ cache.status.conditions # "none" =>
    \/ rootPending
    \/ events # <<>>
    \/ rootPc = "clearing" /\ rootFresh /\ rootObj.status # EmptyStatus

\* A tracked group has a status, or is about to get one: Root untracks what
\* it clears.
ToStart ==
  tracked /\ ~dropped /\ ~replaced =>
    \/ RootBusy
    \/ ControllerBusy
    \/ api.status.conditions # "none"
    \/ \E i \in Versions : Version(i).phase = "gone"

\* Root has still to track a group that is alive and enabled.
ToTrack ==
  /\ ~tracked \/ rootPc = "clearing"
  /\ cache.phase = "alive" /\ ~cache.disabled
  /\ ~reenabled /\ ~replaced
  => \/ rootPending
     \/ \E j \in Versions : j > 0 /\ (Version(j).disabled \/ Version(j).phase = "gone")

\* A status that the filter lets through for its own sake is tried again.
ToRetry ==
  /\ cache.phase = "alive" /\ ~cache.disabled
  /\ \/ StalledTrue(cache.status)
     \/ ~ReconcilingTrue(cache.status) /\ cache.status.resource # NoEntry
          /\ NeedsUpdate(cache.status.resource)
  => rootPending \/ ControllerBusy \/ events # <<>> \/ dropped

\* A group whose reconcile has not ended, or ended for an earlier generation,
\* is reconciled.
ToFinish ==
  /\ api.phase = "alive" /\ ~api.disabled
  /\ ~StopsShort
  /\ \/ api.status.conditions \in {"none", "Reconciling"}
     \/ api.status.conditions = "Finished" /\ api.status.observed # api.generation
  => \/ rootPending
     \/ ControllerBusy
     \/ cache.generation # api.generation
     \/ \E i \in Versions : Version(i).phase # "alive"

\* A resource that has changed since is looked at again.
ToCompute ==
  /\ tracked /\ api.phase = "alive"
  /\ api.status.conditions = "Finished"
  /\ ~dropped /\ ~actuated
  /\ ~StatusIsCurrent
  => ControllerBusy

IInv ==
  /\ TypeOK
  /\ VersionsOK
  /\ UnknownIsUnset
  /\ LocalsOK
  /\ ComputedIsCurrent
  /\ ToForget
  /\ ToClear
  /\ ToStart
  /\ ToTrack
  /\ ToRetry
  /\ ToFinish
  /\ ToCompute

-----------------------------------------------------------------------------
(* The types of what is written.                                           *)

LEMMA ObjectFacts ==
  ASSUME NEW o \in Objects
  PROVE  /\ o.phase \in {"alive", "deleting", "gone"}
         /\ o.generation \in 1..MaxChanges + 1
         /\ o.disabled \in BOOLEAN
         /\ o.status \in Statuses
BY DEF Objects

LEMMA StatusFacts ==
  ASSUME NEW s \in Statuses
  PROVE  /\ s.observed \in 0..MaxChanges + 1
         /\ s.resource \in ResourceStatus \cup {NoEntry}
         /\ s.conditions \in ConditionPairs
BY DEF Statuses

LEMMA EmptyStatusType == EmptyStatus \in Statuses
BY BoundsAssumption DEF EmptyStatus, Statuses, ConditionPairs

LEMMA NewObjectType ==
  /\ NewObject \in Objects
  /\ NewObject.phase = "alive" /\ NewObject.generation = 1 /\ ~NewObject.disabled
  /\ NewObject.status = EmptyStatus
BY EmptyStatusType, BoundsAssumption DEF NewObject, Objects

LEMMA NoObjectType ==
  /\ NoObject \in Objects
  /\ NoObject.phase = "gone" /\ NoObject.generation = 1 /\ ~NoObject.disabled
  /\ NoObject.status = EmptyStatus
<1> DEFINE o == [phase |-> "alive", generation |-> 1, disabled |-> FALSE, status |-> EmptyStatus]
<1>1. NoObject = [o EXCEPT !.phase = "gone"]
  BY DEF NoObject, NewObject
<1>2. NoObject = [phase |-> "gone", generation |-> 1, disabled |-> FALSE, status |-> EmptyStatus]
  BY <1>1
<1> QED BY <1>2, EmptyStatusType, BoundsAssumption DEF Objects

LEMMA EmptyStatusFacts ==
  EmptyStatus.conditions = "none" /\ EmptyStatus.resource = NoEntry /\ EmptyStatus.observed = 0
BY DEF EmptyStatus

LEMMA WithStatus ==
  ASSUME NEW o \in Objects, NEW s \in Statuses
  PROVE  /\ [o EXCEPT !.status = s] \in Objects
         /\ [o EXCEPT !.status = s].phase = o.phase
         /\ [o EXCEPT !.status = s].generation = o.generation
         /\ [o EXCEPT !.status = s].disabled = o.disabled
         /\ [o EXCEPT !.status = s].status = s
BY DEF Objects

LEMMA LegacyType ==
  ASSUME NEW s \in ResourceStatus
  PROVE  Legacy(s) \in StatusValues
BY DEF Legacy, ResourceStatus, StatusValues

-----------------------------------------------------------------------------
(* The versions after each kind of step.                                   *)

LEMMA VersionFacts ==
  ASSUME TypeOK
  PROVE  /\ Len(events) \in Nat
         /\ \A i \in Versions : Version(i) \in Objects
         /\ Version(0) = cache /\ 0 \in Versions /\ Len(events) \in Versions
         /\ events = <<>> <=> Len(events) = 0
BY DEF TypeOK, Version, Versions

\* A new version is the last one.
LEMMA Appended ==
  ASSUME TypeOK, NEW obj \in Objects, Write(obj), cache' = cache
  PROVE  /\ events' \in Seq(Objects) /\ events' # <<>> /\ api' = obj
         /\ Len(events') = Len(events) + 1
         /\ Versions' = 0..Len(events) + 1
         /\ \A i \in Versions : Version(i)' = Version(i)
         /\ \A i \in Nat : i = Len(events) + 1 => Version(i)' = obj
<1>1. events \in Seq(Objects) /\ events' = Append(events, obj) /\ api' = obj
  BY DEF TypeOK, Write
<1>2. /\ events' \in Seq(Objects) /\ events' # <<>>
      /\ Len(events') = Len(events) + 1 /\ Len(events) \in Nat
      /\ \A i \in 1..Len(events) : events'[i] = events[i]
      /\ events'[Len(events) + 1] = obj
  BY <1>1
<1> QED BY <1>1, <1>2 DEF Version, Versions

\* The first version that the informer has not seen becomes the one it has.
LEMMA Delivered ==
  ASSUME TypeOK, events # <<>>, cache' = Head(events), events' = Tail(events)
  PROVE  /\ events' \in Seq(Objects) /\ cache' \in Objects
         /\ Len(events) >= 1 /\ Len(events') = Len(events) - 1
         /\ Versions' = 0..Len(events) - 1
         /\ \A i \in 0..Len(events) - 1 : Version(i)' = Version(i + 1)
         /\ cache' = Version(1) /\ 1 \in Versions
<1>1. events \in Seq(Objects)
  BY DEF TypeOK
<1>2. /\ events' \in Seq(Objects) /\ Len(events) \in Nat /\ Len(events) >= 1
      /\ Len(events') = Len(events) - 1
      /\ \A i \in 1..Len(events) - 1 : events'[i] = events[i + 1]
      /\ cache' = events[1] /\ events[1] \in Objects
  BY <1>1
<1> QED BY <1>2 DEF Version, Versions

\* The object is the only version after a new list.
LEMMA Listed ==
  ASSUME TypeOK, cache' = api, events' = <<>>
  PROVE  /\ events' \in Seq(Objects) /\ cache' \in Objects
         /\ Len(events') = 0 /\ Versions' = {0} /\ Version(0)' = api
BY DEF TypeOK, Version, Versions

LEMMA ListedVersionsOK ==
  ASSUME TypeOK, VersionsOK, cache' = api, events' = <<>>, api' = api,
         changes' \in Nat, changes <= changes'
  PROVE  VersionsOK'
<1>1. Len(events') = 0 /\ Versions' = {0} /\ Version(0)' = api
  BY Listed
<1>2. NewestIsTheObject'
  BY <1>1 DEF NewestIsTheObject
<1>3. WellFormed(api)
  BY VersionFacts DEF VersionsOK, NewestIsTheObject
<1>4. \A i \in Versions' : WellFormed(Version(i))'
  BY <1>1, <1>3 DEF WellFormed
<1>5. OneHistory'
  BY <1>1 DEF OneHistory
<1>6. EnablingIsKnown'
  BY <1>1 DEF EnablingIsKnown
<1>7. (api.generation <= changes + 1)'
  <2>1. api.generation \in Nat /\ changes \in Nat
    BY ObjectFacts, BoundsAssumption DEF TypeOK
  <2> QED BY <2>1 DEF VersionsOK
<1> QED BY <1>2, <1>4, <1>5, <1>6, <1>7 DEF VersionsOK

LEMMA DeliveredVersionsOK ==
  ASSUME TypeOK, VersionsOK, events # <<>>, cache' = Head(events), events' = Tail(events),
         UNCHANGED <<api, changes, reenabled>>
  PROVE  VersionsOK'
<1>0. PICK n \in Nat : n = Len(events)
  BY VersionFacts
<1>1. /\ n >= 1 /\ Len(events') = n - 1
      /\ Versions' = 0..n - 1 /\ Versions = 0..n
      /\ \A i \in 0..n - 1 : Version(i)' = Version(i + 1)
  BY <1>0, Delivered, VersionFacts DEF Versions
<1>2. NewestIsTheObject'
  <2>1. Version(n - 1)' = Version(n)
    BY <1>1
  <2> QED BY <1>0, <1>1, <2>1 DEF VersionsOK, NewestIsTheObject
<1>3. \A i \in Versions' : WellFormed(Version(i))'
  BY <1>1 DEF VersionsOK, WellFormed
<1>4. \A i, j \in Versions' : i < j =>
        /\ i + 1 \in Versions /\ j + 1 \in Versions /\ i + 1 < j + 1
        /\ SameObject(i, j)' => SameObject(i + 1, j + 1)
  <2> SUFFICES ASSUME NEW i \in Versions', NEW j \in Versions', i < j, SameObject(i, j)'
               PROVE  SameObject(i + 1, j + 1)
    BY <1>1
  <2> SUFFICES ASSUME NEW k \in (i + 1)..(j + 1) PROVE Version(k).phase # "gone"
    BY DEF SameObject
  <2>1. k - 1 \in i..j /\ k - 1 \in 0..n - 1 /\ (k - 1) + 1 = k
    BY <1>1
  <2>2. Version(k - 1)' = Version(k)
    BY <1>1, <2>1
  <2> QED BY <2>1, <2>2 DEF SameObject
<1>5. OneHistory'
  BY <1>1, <1>4 DEF VersionsOK, OneHistory
<1>6. EnablingIsKnown'
  <2> SUFFICES ASSUME NEW i \in Versions', Version(i)'.disabled, ~api.disabled, ~reenabled
               PROVE  \E j \in Versions' : i < j /\ Version(j)'.phase = "gone"
    BY DEF EnablingIsKnown
  <2>1. i + 1 \in Versions /\ Version(i + 1).disabled
    BY <1>1
  <2>2. PICK j \in Versions : i + 1 < j /\ Version(j).phase = "gone"
    BY <2>1 DEF VersionsOK, EnablingIsKnown
  <2>3. j - 1 \in Versions' /\ i < j - 1 /\ (j - 1) + 1 = j
    BY <1>1, <2>2
  <2>4. Version(j - 1)' = Version(j)
    BY <1>1, <2>3
  <2> QED BY <2>2, <2>3, <2>4
<1> QED BY <1>2, <1>3, <1>5, <1>6 DEF VersionsOK

(***************************************************************************)
(* What the next version of the object may be: obj follows api.            *)
(***************************************************************************)
Follows(obj) ==
  /\ obj \in Objects
  /\ WellFormed(obj)
  /\ obj.generation <= changes' + 1
  /\ api.phase # "gone" /\ obj.phase # "gone" =>
       /\ api.generation <= obj.generation
       /\ api.phase = "deleting" => obj.phase = "deleting"
       /\ api.phase = "alive" /\ obj.phase = "deleting" => api.generation < obj.generation
  /\ obj.disabled \/ reenabled' \/ obj.phase = "gone" \/ api.phase = "gone"
       \/ (~api.disabled /\ ~reenabled)

LEMMA AppendedVersionsOK ==
  ASSUME TypeOK, VersionsOK, NEW obj, Write(obj), cache' = cache, Follows(obj)
  PROVE  VersionsOK'
<1>0. PICK n \in Nat : n = Len(events)
  BY VersionFacts
<1>1. obj \in Objects
  BY DEF Follows
<1>2. /\ Len(events') = n + 1 /\ api' = obj
      /\ Versions' = 0..n + 1 /\ Versions = 0..n
      /\ \A i \in 0..n : Version(i)' = Version(i)
      /\ Version(n + 1)' = obj
      /\ Version(n) = api
      /\ \A i \in 0..n : Version(i) \in Objects
  BY <1>0, <1>1, Appended, VersionFacts DEF Versions, VersionsOK, NewestIsTheObject
<1>3. NewestIsTheObject'
  BY <1>2 DEF NewestIsTheObject
<1>4. \A i \in Versions' : WellFormed(Version(i))'
  <2> SUFFICES ASSUME NEW i \in 0..n + 1 PROVE WellFormed(Version(i))'
    BY <1>2
  <2>1. CASE i = n + 1
    BY <1>2, <2>1 DEF Follows, WellFormed
  <2>2. CASE i \in 0..n
    BY <1>2, <2>2 DEF VersionsOK, WellFormed
  <2> QED BY <1>2, <2>1, <2>2
<1>5. OneHistory'
  <2> SUFFICES ASSUME NEW i \in 0..n + 1, NEW j \in 0..n + 1, i < j, SameObject(i, j)'
               PROVE  /\ Version(i)'.generation <= Version(j)'.generation
                      /\ Version(i)'.phase = "deleting" => Version(j)'.phase = "deleting"
                      /\ Version(i)'.phase = "alive" /\ Version(j)'.phase = "deleting" =>
                           Version(i)'.generation < Version(j)'.generation
    BY <1>2 DEF OneHistory
  <2>1. i \in 0..n /\ Version(i)' = Version(i)
    BY <1>2
  <2>2. \A k \in i..j : k \in 0..n => Version(k).phase # "gone"
    BY <1>2 DEF SameObject
  <2>3. CASE j \in 0..n
    <3>1. SameObject(i, j) /\ Version(j)' = Version(j)
      BY <1>2, <2>1, <2>2, <2>3 DEF SameObject
    <3> QED BY <1>2, <2>1, <2>3, <3>1 DEF VersionsOK, OneHistory
  <2>4. CASE j = n + 1
    <3>1. Version(j)' = obj
      BY <1>2, <2>4
    <3>2. obj.phase # "gone"
      BY <1>2, <2>4, <3>1 DEF SameObject
    <3>3. api.phase # "gone"
      BY <1>2, <2>1, <2>2, <2>4
    <3>4. /\ Version(i).generation <= api.generation
          /\ Version(i).phase = "deleting" => api.phase = "deleting"
          /\ Version(i).phase = "alive" /\ api.phase = "deleting" =>
               Version(i).generation < api.generation
      <4>1. CASE i = n
        BY <1>2, <4>1, ObjectFacts
      <4>2. CASE i < n
        <5>1. SameObject(i, n)
          BY <1>2, <2>1, <2>2, <2>4, <4>2 DEF SameObject
        <5> QED BY <1>2, <2>1, <4>2, <5>1 DEF VersionsOK, OneHistory
      <4> QED BY <1>2, <2>1, <4>1, <4>2
    <3>5. /\ Version(i).generation \in Nat /\ api.generation \in Nat /\ obj.generation \in Nat
          /\ Version(i).phase \in {"alive", "deleting", "gone"}
          /\ api.phase \in {"alive", "deleting", "gone"}
      BY <1>1, <1>2, <2>1, ObjectFacts, BoundsAssumption DEF TypeOK
    <3> QED BY <2>1, <3>1, <3>2, <3>3, <3>4, <3>5 DEF Follows
  <2> QED BY <1>2, <2>3, <2>4
<1>6. EnablingIsKnown'
  <2> SUFFICES ASSUME NEW i \in 0..n + 1, Version(i)'.disabled, ~obj.disabled, ~reenabled'
               PROVE  \E j \in 0..n + 1 : i < j /\ Version(j)'.phase = "gone"
    BY <1>2 DEF EnablingIsKnown
  <2>1. i \in 0..n /\ Version(i).disabled
    BY <1>2
  <2>2. CASE obj.phase = "gone"
    BY <1>2, <2>1, <2>2
  <2>3. CASE api.phase = "gone"
    <3>1. ~api.disabled
      BY <1>2, <2>3, NoObjectType DEF VersionsOK, WellFormed
    <3>2. i < n
      BY <1>2, <2>1, <3>1
    <3> QED BY <1>2, <2>3, <3>2
  <2>4. CASE ~api.disabled /\ ~reenabled
    <3>1. PICK j \in 0..n : i < j /\ Version(j).phase = "gone"
      BY <1>2, <2>1, <2>4 DEF VersionsOK, EnablingIsKnown
    <3> QED BY <1>2, <3>1
  <2> QED BY <2>2, <2>3, <2>4 DEF Follows
<1>7. (api.generation <= changes + 1)'
  BY <1>2 DEF Follows
<1> QED BY <1>3, <1>4, <1>5, <1>6, <1>7 DEF VersionsOK

\* Nothing is written or seen.
LEMMA KeptVersionsOK ==
  ASSUME TypeOK, VersionsOK, UNCHANGED <<api, events, cache>>,
         changes' \in Nat, changes <= changes',
         reenabled' = reenabled \/ \A i \in Versions : ~Version(i).disabled
  PROVE  /\ VersionsOK'
         /\ Versions' = Versions
         /\ \A i \in Versions : Version(i)' = Version(i)
<1>1. Versions' = Versions /\ \A i : Version(i)' = Version(i)
  BY DEF Version, Versions
<1>2. NewestIsTheObject' /\ \A i \in Versions' : WellFormed(Version(i))'
  BY <1>1 DEF VersionsOK, NewestIsTheObject, WellFormed
<1>3. OneHistory'
  BY <1>1 DEF VersionsOK, OneHistory, SameObject
<1>4. EnablingIsKnown'
  BY <1>1 DEF VersionsOK, EnablingIsKnown
<1>5. (api.generation <= changes + 1)'
  <2>1. api.generation \in Nat /\ changes \in Nat
    BY ObjectFacts, BoundsAssumption DEF TypeOK
  <2> QED BY <2>1 DEF VersionsOK
<1> QED BY <1>1, <1>2, <1>3, <1>4, <1>5 DEF VersionsOK

-----------------------------------------------------------------------------
(* Writes from outside: what they all have in common, and why it is enough.*)

OutsideStep(obj) ==
  /\ WriteOutside(obj)
  /\ Follows(obj)
  /\ changes' \in 0..MaxChanges /\ changes <= changes'
  /\ reenabled' \in BOOLEAN /\ actuated' \in BOOLEAN
  /\ reenabled /\ ~reenabled' => obj.disabled \/ api.phase = "gone"
  /\ api.phase # "gone" /\ obj.phase # "gone" =>
       /\ obj.status.conditions = api.status.conditions
       /\ obj.status.observed = api.status.observed
       /\ obj.status = api.status \/ actuated'
       /\ actuated => actuated'
  /\ api.phase = "gone" /\ obj.phase # "gone" => obj.status = EmptyStatus

LEMMA ObjectWellFormed ==
  ASSUME TypeOK, VersionsOK
  PROVE  WellFormed(api)
BY VersionFacts DEF VersionsOK, NewestIsTheObject

LEMMA ChangeSpecOutside ==
  ASSUME TypeOK, VersionsOK, ChangeSpec
  PROVE  \E obj : OutsideStep(obj)
<1> DEFINE obj == [api EXCEPT !.generation = @ + 1]
<1>1. /\ api.phase # "gone" /\ changes < MaxChanges /\ changes' = changes + 1
      /\ WriteOutside(obj) /\ reenabled' = reenabled /\ actuated' = actuated
  BY DEF ChangeSpec, Outside
<1>2. api.generation \in Nat /\ changes \in Nat /\ api.generation <= changes + 1
  BY ObjectFacts, BoundsAssumption DEF TypeOK, VersionsOK
<1>3. /\ obj \in Objects /\ obj.phase = api.phase /\ obj.generation = api.generation + 1
      /\ obj.disabled = api.disabled /\ obj.status = api.status
  BY <1>1, <1>2, BoundsAssumption DEF TypeOK, Objects
<1>4. WellFormed(obj)
  BY <1>1, <1>3, ObjectWellFormed DEF WellFormed
<1>5. Follows(obj)
  BY <1>1, <1>2, <1>3, <1>4 DEF Follows, TypeOK
<1>6. changes' \in 0..MaxChanges /\ changes <= changes'
  BY <1>1, BoundsAssumption DEF TypeOK
<1>7. reenabled' \in BOOLEAN /\ actuated' \in BOOLEAN
  BY <1>1 DEF TypeOK
<1> HIDE DEF obj
<1>8. OutsideStep(obj)
  BY <1>1, <1>3, <1>5, <1>6, <1>7 DEF OutsideStep
<1> QED BY <1>8

LEMMA AnnotationOutside ==
  ASSUME TypeOK, VersionsOK, Disable \/ Enable
  PROVE  \E obj : OutsideStep(obj)
<1> DEFINE obj == [api EXCEPT !.disabled = ~api.disabled]
<1>1. changes < MaxChanges /\ changes' = changes + 1 /\ WriteOutside(obj)
      /\ reenabled' = api.disabled /\ actuated' = actuated
  <2>1. CASE Disable
    <3>1. api.disabled = FALSE
      BY <2>1 DEF Disable, TypeOK, Objects
    <3> QED BY <2>1, <3>1 DEF Disable, Outside
  <2>2. CASE Enable
    <3>1. api.disabled = TRUE
      BY <2>2 DEF Enable, TypeOK, Objects
    <3> QED BY <2>2, <3>1 DEF Enable, Outside
  <2> QED BY <2>1, <2>2
<1>2. api.phase # "gone"
  BY ObjectWellFormed, NoObjectType DEF Disable, Enable, WellFormed
<1>3. api.generation \in Nat /\ changes \in Nat /\ api.generation <= changes + 1
      /\ api.disabled \in BOOLEAN
  BY ObjectFacts, BoundsAssumption DEF TypeOK, VersionsOK
<1>4. /\ obj \in Objects /\ obj.phase = api.phase /\ obj.generation = api.generation
      /\ obj.disabled = ~api.disabled /\ obj.status = api.status
  BY <1>3 DEF TypeOK, Objects
<1>5. WellFormed(obj)
  BY <1>2, <1>4, ObjectWellFormed DEF WellFormed
<1> HIDE DEF obj
<1>6. Follows(obj)
  <2>1. obj.disabled \/ reenabled'
    BY <1>1, <1>4, Zenon
  <2>2. api.generation <= changes' + 1 /\ api.generation <= api.generation
    BY <1>1, <1>3
  <2>3. api.phase \in {"alive", "deleting"}
    BY <1>2, ObjectFacts DEF TypeOK
  <2> QED BY <1>4, <1>5, <2>1, <2>2, <2>3 DEF Follows
<1>7. changes' \in 0..MaxChanges /\ changes <= changes'
  BY <1>1, BoundsAssumption DEF TypeOK
<1>8. reenabled' \in BOOLEAN /\ actuated' \in BOOLEAN
  BY <1>1, <1>3 DEF TypeOK
<1>9. reenabled /\ ~reenabled' => obj.disabled
  BY <1>1, <1>4
<1>10. OutsideStep(obj)
  BY <1>1, <1>2, <1>4, <1>6, <1>7, <1>8, <1>9 DEF OutsideStep
<1> QED BY <1>10

\* The applier writes its fields to an entry that is there or that it adds.
LEMMA EntryFacts ==
  ASSUME NEW resource \in ResourceStatus \cup {NoEntry}, NEW entry \in Entries(resource)
  PROVE  entry \in ResourceStatus
<1>1. CASE resource # NoEntry
  BY <1>1 DEF Entries
<1>2. CASE resource = NoEntry
  <2>1. entry \in [status : Computed \cup {"Unknown"}, actuation : {""}, reconcile : {""}]
    BY <1>2 DEF Entries
  <2>2. /\ Computed \cup {"Unknown"} \subseteq StatusValues
        /\ "" \in ActuationValues /\ "" \in ReconcileValues
    BY ComputedAssumption DEF StatusValues, ActuationValues, ReconcileValues
  <2> QED BY <2>1, <2>2 DEF ResourceStatus
<1> QED BY <1>1, <1>2

LEMMA Actuated ==
  ASSUME TypeOK, NEW a \in Actuations, Actuate(a)
  PROVE  \E st \in Statuses :
           /\ st.observed = api.status.observed /\ st.conditions = api.status.conditions
           /\ st.resource # NoEntry
           /\ Outside([api EXCEPT !.status = st])
<1>1. PICK entry \in Entries(api.status.resource) :
        Outside([api EXCEPT !.status.resource =
                   [entry EXCEPT !.actuation = a.actuation, !.reconcile = a.reconcile]])
  BY DEF Actuate
<1>2. /\ api.status \in Statuses /\ api.status.resource \in ResourceStatus \cup {NoEntry}
      /\ entry \in ResourceStatus
  BY ObjectFacts, StatusFacts, EntryFacts DEF TypeOK
<1>3. PICK new : new = [entry EXCEPT !.actuation = a.actuation, !.reconcile = a.reconcile]
  OBVIOUS
<1>4. new \in ResourceStatus
  BY <1>2, <1>3, ActuationsAssumption DEF ResourceStatus
<1>5. new # NoEntry
  BY <1>4, NoEntryAssumption
<1>6. PICK st : st = [api.status EXCEPT !.resource = new]
  OBVIOUS
<1>7. /\ st \in Statuses /\ st.observed = api.status.observed
      /\ st.conditions = api.status.conditions /\ st.resource = new
  BY <1>2, <1>4, <1>6 DEF Statuses
<1>8. Outside([api EXCEPT !.status = st])
  <2>1. [api EXCEPT !.status.resource = new] = [api EXCEPT !.status = st]
    BY <1>6
  <2> QED BY <1>1, <1>3, <2>1
<1> QED BY <1>5, <1>7, <1>8

LEMMA ActuateOutside ==
  ASSUME TypeOK, VersionsOK, NEW a \in Actuations, Actuate(a)
  PROVE  \E obj : OutsideStep(obj)
<1>1. PICK st \in Statuses :
        /\ st.observed = api.status.observed /\ st.conditions = api.status.conditions
        /\ st.resource # NoEntry
        /\ Outside([api EXCEPT !.status = st])
  BY Actuated
<1> DEFINE obj == [api EXCEPT !.status = st]
<1>2. /\ api.phase # "gone" /\ changes < MaxChanges /\ changes' = changes + 1
      /\ WriteOutside(obj) /\ reenabled' = reenabled /\ actuated' = TRUE
  BY <1>1 DEF Actuate, Outside
<1>3. /\ obj \in Objects /\ obj.phase = api.phase /\ obj.generation = api.generation
      /\ obj.disabled = api.disabled /\ obj.status = st
  BY <1>1, WithStatus DEF TypeOK
<1>4. WellFormed(obj)
  BY <1>1, <1>2, <1>3, ObjectWellFormed DEF WellFormed
<1>5. api.generation \in Nat /\ changes \in Nat /\ api.generation <= changes + 1
  BY ObjectFacts, BoundsAssumption DEF TypeOK, VersionsOK
<1> HIDE DEF obj
<1>6. Follows(obj)
  BY <1>2, <1>3, <1>4, <1>5 DEF Follows, TypeOK
<1>7. changes' \in 0..MaxChanges /\ changes <= changes'
  BY <1>2, BoundsAssumption DEF TypeOK
<1>8. reenabled' \in BOOLEAN /\ actuated' \in BOOLEAN
  BY <1>2 DEF TypeOK
<1>9. OutsideStep(obj)
  BY <1>1, <1>2, <1>3, <1>6, <1>7, <1>8 DEF OutsideStep
<1> QED BY <1>9

LEMMA DeleteOutside ==
  ASSUME TypeOK, VersionsOK, Delete \/ Finalize
  PROVE  \E obj : OutsideStep(obj)
<1>1. /\ changes' \in 0..MaxChanges /\ changes <= changes' /\ changes \in Nat /\ changes' \in Nat
      /\ reenabled' = reenabled /\ actuated' = actuated /\ api.phase # "gone"
  BY BoundsAssumption DEF Delete, Finalize, Outside, TypeOK
<1>2. reenabled' \in BOOLEAN /\ actuated' \in BOOLEAN /\ 1 <= changes' + 1
  <2>1. changes' = changes \/ changes' = changes + 1
    BY DEF Delete, Finalize, Outside
  <2>2. 1 <= changes' + 1
    <3>1. CASE changes' = changes
      BY <1>1, <3>1
    <3>2. CASE changes' = changes + 1
      BY <1>1, <3>2
    <3> QED BY <2>1, <3>1, <3>2
  <2>3. reenabled' \in BOOLEAN /\ actuated' \in BOOLEAN
    BY <1>1 DEF TypeOK
  <2> QED BY <2>2, <2>3
<1>3. ASSUME WriteOutside(NoObject) PROVE OutsideStep(NoObject)
  <2>1. NoObject.status.conditions = "none"
    BY NoObjectType, EmptyStatusFacts
  <2>2. WellFormed(NoObject)
    BY <2>1, NoObjectType, EmptyStatusFacts DEF WellFormed
  <2>3. Follows(NoObject)
    BY <1>2, <2>2, NoObjectType DEF Follows
  <2> QED BY <1>1, <1>2, <1>3, <2>3, NoObjectType DEF OutsideStep
<1>4. ASSUME WriteOutside([api EXCEPT !.phase = "deleting", !.generation = @ + 1]),
             changes' = changes + 1, api.phase = "alive"
      PROVE  \E obj : OutsideStep(obj)
  <2> DEFINE obj == [api EXCEPT !.phase = "deleting", !.generation = @ + 1]
  <2>1. api.generation \in Nat /\ api.generation <= changes + 1 /\ changes + 1 <= MaxChanges
    BY <1>1, <1>4, ObjectFacts, BoundsAssumption DEF TypeOK, VersionsOK
  <2>2. /\ obj \in Objects /\ obj.phase = "deleting" /\ obj.generation = api.generation + 1
        /\ obj.disabled = api.disabled /\ obj.status = api.status
    <3> DEFINE o == [api EXCEPT !.phase = "deleting"]
    <3>1. /\ o \in Objects /\ o.phase = "deleting" /\ o.generation = api.generation
          /\ o.disabled = api.disabled /\ o.status = api.status
      BY DEF TypeOK, Objects
    <3>2. obj = [o EXCEPT !.generation = @ + 1]
      OBVIOUS
    <3>3. api.generation + 1 \in 1..MaxChanges + 1
      <4>1. api.generation \in Nat /\ changes \in Nat /\ MaxChanges \in Nat
        BY <1>1, <2>1, BoundsAssumption
      <4> QED BY <2>1, <4>1
    <3> HIDE DEF o, obj
    <3> QED BY <3>1, <3>2, <3>3 DEF Objects
  <2>3. WellFormed(obj)
    BY <2>2, ObjectWellFormed DEF WellFormed
  <2>4. WriteOutside(obj)
    BY <1>4
  <2> HIDE DEF obj
  <2>5. Follows(obj)
    BY <1>1, <1>4, <2>1, <2>2, <2>3 DEF Follows, TypeOK
  <2>6. OutsideStep(obj)
    BY <1>1, <1>2, <2>2, <2>4, <2>5 DEF OutsideStep
  <2> QED BY <2>6
<1>5. CASE Delete
  BY <1>3, <1>4, <1>5 DEF Delete, Outside
<1>6. CASE Finalize
  BY <1>3, <1>6 DEF Finalize
<1> QED BY <1>5, <1>6

LEMMA CreateOutside ==
  ASSUME TypeOK, VersionsOK, Create
  PROVE  \E obj : OutsideStep(obj)
<1>1. /\ changes' = changes + 1 /\ changes < MaxChanges /\ api.phase = "gone"
      /\ WriteOutside(NewObject) /\ reenabled' = FALSE /\ actuated' = FALSE
  BY DEF Create, Outside
<1>2. changes' \in 0..MaxChanges /\ changes <= changes' /\ 1 <= changes' + 1
  BY <1>1, BoundsAssumption DEF TypeOK
<1>3. WellFormed(NewObject)
  BY NewObjectType, EmptyStatusFacts DEF WellFormed
<1>4. Follows(NewObject)
  BY <1>1, <1>2, <1>3, NewObjectType DEF Follows
<1>5. OutsideStep(NewObject)
  BY <1>1, <1>2, <1>4, NewObjectType DEF OutsideStep
<1> QED BY <1>5

LEMMA OutsideIInv ==
  ASSUME IInv, NEW obj, OutsideStep(obj)
  PROVE  IInv'
<1>0. PICK n \in Nat : n = Len(events)
  BY VersionFacts DEF IInv
<1>1. TypeOK /\ VersionsOK /\ Write(obj) /\ obj \in Objects /\ Follows(obj)
      /\ rootFresh' = FALSE /\ rgFresh' = FALSE
      /\ UNCHANGED <<live, cache, rootPending, rootPc, rootObj, tracked, rgPending, rgPc, rgObj,
                     newStatus, dropped, replaced>>
  BY DEF IInv, OutsideStep, WriteOutside, Follows
<1>2. /\ events' \in Seq(Objects) /\ events' # <<>> /\ api' = obj
      /\ Versions' = 0..n + 1 /\ Versions = 0..n
      /\ \A i \in 0..n : Version(i)' = Version(i)
      /\ Version(n + 1)' = obj /\ Version(n) = api /\ Version(0) = cache
      /\ \A i \in 0..n : Version(i) \in Objects
  BY <1>0, <1>1, Appended, VersionFacts DEF Versions, VersionsOK, NewestIsTheObject
<1>3. TypeOK'
  BY <1>1, <1>2 DEF TypeOK, OutsideStep
<1>4. VersionsOK'
  BY <1>1, AppendedVersionsOK
<1>5. UnknownIsUnset'
  <2> SUFFICES ASSUME obj.phase = "alive", NEW i \in 0..n + 1, Version(i)'.phase # "alive"
               PROVE  obj.status.conditions = "none"
    BY <1>1, <1>2 DEF UnknownIsUnset
  <2>1. i \in 0..n /\ Version(i).phase # "alive"
    BY <1>2
  <2>2. CASE api.phase = "gone"
    BY <2>2, EmptyStatusFacts DEF OutsideStep
  <2>3. CASE api.phase # "gone"
    <3>1. api.phase = "alive"
      BY <1>1, <2>3, ObjectFacts DEF Follows, TypeOK
    <3>2. api.status.conditions = "none"
      BY <1>2, <2>1, <3>1 DEF IInv, UnknownIsUnset
    <3> QED BY <2>3, <3>2 DEF OutsideStep
  <2> QED BY <2>2, <2>3
<1>6. LocalsOK' /\ ComputedIsCurrent' /\ ToForget'
  BY <1>1 DEF IInv, LocalsOK, ComputedIsCurrent, ToForget, RootBusy
<1>7. ToClear' /\ ToRetry'
  BY <1>2 DEF ToClear, ToRetry
<1>8. ToStart'
  <2> SUFFICES ASSUME tracked, ~dropped, ~replaced, ~RootBusy, ~ControllerBusy,
                      obj.status.conditions = "none"
               PROVE  \E i \in 0..n + 1 : Version(i)'.phase = "gone"
    BY <1>1, <1>2 DEF ToStart, RootBusy, ControllerBusy
  <2>1. CASE obj.phase = "gone"
    BY <1>2, <2>1
  <2>2. CASE api.phase = "gone"
    BY <1>2, <2>2
  <2>3. CASE api.phase # "gone" /\ obj.phase # "gone"
    <3>1. api.status.conditions = "none"
      BY <2>3 DEF OutsideStep
    <3>2. PICK i \in 0..n : Version(i).phase = "gone"
      BY <1>2, <3>1 DEF IInv, ToStart
    <3> QED BY <1>2, <3>2
  <2> QED BY <2>1, <2>2, <2>3
<1>9. ToTrack'
  <2> SUFFICES ASSUME ~tracked \/ rootPc = "clearing", cache.phase = "alive", ~cache.disabled,
                      ~reenabled', ~replaced, ~rootPending
               PROVE  \E j \in 0..n + 1 : j > 0 /\ (Version(j)'.disabled \/ Version(j)'.phase = "gone")
    BY <1>1, <1>2 DEF ToTrack
  <2>1. CASE ~reenabled
    <3>1. PICK j \in 0..n : j > 0 /\ (Version(j).disabled \/ Version(j).phase = "gone")
      BY <1>2, <2>1 DEF IInv, ToTrack
    <3> QED BY <1>2, <3>1
  <2>2. CASE obj.disabled
    BY <1>2, <2>2
  <2>3. CASE api.phase = "gone"
    <3>1. n > 0
      BY <1>2, <2>3
    <3> QED BY <1>2, <2>3, <3>1
  <2> QED BY <2>1, <2>2, <2>3 DEF OutsideStep
<1>10. ToFinish'
  <2> SUFFICES ASSUME obj.phase = "alive", ~obj.disabled, ~dropped, ~reenabled', ~replaced,
                      \/ obj.status.conditions \in {"none", "Reconciling"}
                      \/ obj.status.conditions = "Finished" /\ obj.status.observed # obj.generation,
                      ~rootPending, ~ControllerBusy, cache.generation = obj.generation,
                      \A i \in 0..n : Version(i).phase = "alive"
               PROVE  FALSE
    BY <1>1, <1>2 DEF ToFinish, StopsShort, ControllerBusy
  <2>1. api.phase = "alive" /\ ~reenabled /\ ~api.disabled
    BY <1>1, <1>2 DEF OutsideStep, Follows
  <2>2. obj.status.conditions = api.status.conditions /\ obj.status.observed = api.status.observed
    BY <2>1 DEF OutsideStep
  <2>3. cache.generation <= api.generation
    <3>1. CASE n = 0
      BY <1>1, <1>2, <3>1, ObjectFacts DEF TypeOK
    <3>2. CASE n > 0
      <4>1. SameObject(0, n)
        BY <1>2 DEF SameObject
      <4> QED BY <1>1, <1>2, <3>2, <4>1 DEF VersionsOK, OneHistory
    <3> QED BY <3>1, <3>2
  <2>4. api.generation <= obj.generation
    BY <1>1, <2>1 DEF Follows
  <2>5. cache.generation = api.generation /\ obj.generation = api.generation
    BY <1>1, <2>3, <2>4, ObjectFacts, BoundsAssumption DEF TypeOK
  <2> QED BY <1>2, <2>1, <2>2, <2>5 DEF IInv, ToFinish, StopsShort
<1>11. ToCompute'
  <2> SUFFICES ASSUME tracked, obj.phase = "alive", obj.status.conditions = "Finished",
                      ~dropped, ~actuated', ~StatusIsCurrent'
               PROVE  ControllerBusy
    BY <1>1, <1>2 DEF ToCompute, ControllerBusy
  <2>1. api.phase # "gone"
    BY EmptyStatusFacts DEF OutsideStep
  <2>2. api.phase = "alive" /\ obj.status = api.status /\ ~actuated
    BY <1>1, <2>1, ObjectFacts DEF OutsideStep, Follows, TypeOK
  <2>3. ~StatusIsCurrent
    BY <1>1, <1>2, <2>2 DEF StatusIsCurrent
  <2> QED BY <2>2, <2>3 DEF IInv, ToCompute
<1> QED BY <1>3, <1>4, <1>5, <1>6, <1>7, <1>8, <1>9, <1>10, <1>11 DEF IInv

-----------------------------------------------------------------------------
(* The other steps outside: the resource changes, the program restarts.    *)

LEMMA InitIInv == Init => IInv
<1> SUFFICES ASSUME Init PROVE IInv
  OBVIOUS
<1>1. TypeOK
  <2>1. 0 \in 0..MaxChanges
    BY BoundsAssumption
  <2>2. {FALSE, TRUE} \subseteq BOOLEAN
    OBVIOUS
  <2>3. <<>> \in Seq(Objects)
    OBVIOUS
  <2> QED BY <2>1, <2>2, <2>3, NewObjectType, EmptyStatusType DEF Init, TypeOK
<1>2. Versions = {0} /\ Version(0) = NewObject /\ Len(events) = 0
  BY DEF Init, Versions, Version
<1>3. WellFormed(NewObject)
  BY NewObjectType, EmptyStatusFacts DEF WellFormed
<1>4. VersionsOK
  BY <1>2, <1>3, NewObjectType
  DEF Init, VersionsOK, NewestIsTheObject, OneHistory, EnablingIsKnown
<1> QED
  BY <1>1, <1>2, <1>4, NewObjectType, EmptyStatusFacts
  DEF Init, IInv, UnknownIsUnset, LocalsOK, ComputedIsCurrent, ToForget, ToClear, ToStart, ToTrack,
      ToRetry, ToFinish, ToCompute, RootBusy

LEMMA ChangeResourceIInv ==
  ASSUME IInv, NEW s \in Computed, ChangeResource(s)
  PROVE  IInv'
<1>1. /\ TypeOK /\ VersionsOK /\ changes' = changes + 1 /\ changes < MaxChanges /\ live' = s
      /\ UNCHANGED <<api, events, cache, rootPending, rootPc, rootObj, rootFresh, tracked, rgPc,
                     rgObj, rgFresh, newStatus, dropped, reenabled, replaced, actuated>>
      /\ rgPending' = (rgPending \/ tracked)
  BY DEF IInv, ChangeResource, root, history
<1>2. changes' \in 0..MaxChanges /\ changes <= changes'
  BY <1>1, BoundsAssumption DEF TypeOK
<1>3. TypeOK'
  BY <1>1, <1>2 DEF TypeOK
<1>4. VersionsOK' /\ Versions' = Versions /\ \A i \in Versions : Version(i)' = Version(i)
  BY <1>1, <1>2, KeptVersionsOK
<1>5. UnknownIsUnset' /\ LocalsOK'
  BY <1>1, <1>4 DEF IInv, UnknownIsUnset, LocalsOK
<1>6. ComputedIsCurrent' /\ ToCompute'
  BY <1>1 DEF ComputedIsCurrent, ToCompute, ControllerBusy
<1>7. ToForget' /\ ToClear'
  BY <1>1 DEF IInv, ToForget, ToClear, RootBusy
<1>8. ToStart' /\ ToTrack'
  BY <1>1, <1>4 DEF IInv, ToStart, ToTrack, RootBusy, ControllerBusy
<1>9. ToRetry' /\ ToFinish'
  BY <1>1, <1>4 DEF IInv, ToRetry, ToFinish, StopsShort, ControllerBusy
<1> QED BY <1>3, <1>4, <1>5, <1>6, <1>7, <1>8, <1>9 DEF IInv

LEMMA RestartIInv ==
  ASSUME IInv, Restart
  PROVE  IInv'
<1>1. /\ TypeOK /\ VersionsOK /\ changes' = changes + 1 /\ changes < MaxChanges
      /\ cache' = api /\ events' = <<>> /\ api' = api
      /\ rootPending' = (api.phase # "gone") /\ ~tracked' /\ ~rgPending'
      /\ rootPc' = "idle" /\ rgPc' = "idle"
  BY DEF IInv, Restart, RootReturns, ControllerReturns
<1>2. changes' \in 0..MaxChanges /\ changes <= changes' /\ changes' \in Nat
  BY <1>1, BoundsAssumption DEF TypeOK
<1>3. VersionsOK'
  BY <1>1, <1>2, ListedVersionsOK
<1>4. events' \in Seq(Objects) /\ cache' \in Objects /\ Versions' = {0} /\ Version(0)' = api
  BY <1>1, Listed
<1>5. TypeOK'
  BY <1>1, <1>2, <1>4, NewObjectType DEF Restart, TypeOK, RootReturns, ControllerReturns
<1>6. api.phase = "gone" => ~api.disabled
  BY <1>1, ObjectWellFormed, NoObjectType DEF WellFormed
<1>7. ToClear' /\ ToTrack' /\ ToRetry' /\ ToFinish'
  BY <1>1, <1>6 DEF ToClear, ToTrack, ToRetry, ToFinish
<1>8. UnknownIsUnset'
  BY <1>1, <1>4 DEF UnknownIsUnset
<1>9. LocalsOK' /\ ComputedIsCurrent' /\ ToForget' /\ ToStart' /\ ToCompute'
  BY <1>1 DEF LocalsOK, ComputedIsCurrent, ToForget, ToStart, ToCompute
<1> QED BY <1>3, <1>5, <1>7, <1>8, <1>9 DEF IInv

-----------------------------------------------------------------------------
(* The informer.  Between two versions of one object the filter lets       *)
(* through whatever starts a deletion.                                     *)

LEMMA DeliverIInv ==
  ASSUME IInv, Deliver
  PROVE  IInv'
<1>0. PICK n \in Nat : n = Len(events)
  BY VersionFacts DEF IInv
<1> DEFINE new == Version(1)
<1>1. /\ TypeOK /\ VersionsOK /\ events # <<>> /\ cache' = Head(events) /\ events' = Tail(events)
      /\ rootPending' = (rootPending \/ Noticed(cache, Head(events)))
      /\ UNCHANGED <<api, live, changes, rootPc, rootObj, rootFresh, tracked, rgPending, rgPc,
                     rgObj, rgFresh, newStatus, dropped, reenabled, replaced, actuated>>
  BY DEF IInv, Deliver, rg, history
<1>2. /\ events' \in Seq(Objects) /\ cache' \in Objects /\ n >= 1
      /\ Versions' = 0..n - 1 /\ Versions = 0..n
      /\ \A i \in 0..n - 1 : Version(i)' = Version(i + 1)
      /\ cache' = new /\ 1 \in 0..n /\ Version(0) = cache /\ Version(n) = api
  BY <1>0, <1>1, Delivered, VersionFacts DEF Versions, VersionsOK, NewestIsTheObject
<1>3. \A j \in 1..n : j - 1 \in Versions' /\ Version(j - 1)' = Version(j)
  <2> SUFFICES ASSUME NEW j \in 1..n PROVE j - 1 \in Versions' /\ Version(j - 1)' = Version(j)
    OBVIOUS
  <2>1. j - 1 \in 0..n - 1 /\ (j - 1) + 1 = j
    BY <1>2
  <2> QED BY <1>2, <2>1
<1>4. /\ cache.phase \in {"alive", "deleting", "gone"} /\ new.phase \in {"alive", "deleting", "gone"}
      /\ cache.generation \in Nat /\ new.generation \in Nat
  BY <1>1, <1>2, ObjectFacts, BoundsAssumption DEF TypeOK
<1>5. Noticed(cache, Head(events)) = Noticed(cache, new)
  BY <1>1, <1>2
<1> HIDE DEF new
<1>6. ASSUME ~Noticed(cache, new)
      PROVE  /\ cache.phase = "gone" <=> new.phase = "gone"
             /\ cache.generation = new.generation
             /\ cache.phase = "alive" => new.phase = "alive"
             /\ cache.phase = "deleting" => new.phase = "deleting"
  <2>1. (cache.phase = "gone" <=> new.phase = "gone") /\ cache.generation = new.generation
    BY <1>6 DEF Noticed, Passes
  <2>2. CASE new.phase = "gone"
    BY <1>4, <2>1, <2>2
  <2>3. CASE new.phase # "gone"
    <3>1. SameObject(0, 1)
      BY <1>2, <2>1, <2>3 DEF SameObject, new
    <3> QED BY <1>1, <1>2, <1>4, <2>1, <2>3, <3>1 DEF VersionsOK, OneHistory, new
  <2> QED BY <2>2, <2>3
<1>7. TypeOK'
  <2>1. rootPending' \in BOOLEAN
    BY <1>1 DEF TypeOK, Noticed
  <2> QED BY <1>1, <1>2, <2>1 DEF TypeOK
<1>8. VersionsOK'
  BY <1>1, DeliveredVersionsOK
<1>9. UnknownIsUnset'
  <2> SUFFICES ASSUME api.phase = "alive", NEW i \in 0..n - 1, Version(i)'.phase # "alive"
               PROVE  api.status.conditions = "none" /\ (rgPc = "idle" \/ ~rgFresh)
    BY <1>1, <1>2 DEF UnknownIsUnset
  <2>1. i + 1 \in Versions /\ Version(i + 1).phase # "alive"
    BY <1>2
  <2> QED BY <2>1 DEF IInv, UnknownIsUnset
<1>10. LocalsOK' /\ ComputedIsCurrent' /\ ToCompute'
  BY <1>1
  DEF IInv, LocalsOK, ComputedIsCurrent, ToCompute, ControllerBusy, StatusIsCurrent
<1>11. ToForget'
  BY <1>1, <1>2, <1>5, <1>6 DEF IInv, ToForget, RootBusy
<1>12. ToClear' /\ ToRetry'
  BY <1>1, <1>2, <1>5 DEF ToClear, ToRetry, Noticed, Passes
<1>13. ToStart'
  <2> SUFFICES ASSUME tracked, ~dropped, ~replaced, ~rootPending', rootPc # "clearing",
                      ~ControllerBusy, api.status.conditions = "none"
               PROVE  \E i \in Versions' : Version(i)'.phase = "gone"
    BY <1>1 DEF ToStart, RootBusy, ControllerBusy
  <2>1. PICK i \in Versions : Version(i).phase = "gone"
    BY <1>1 DEF IInv, ToStart, RootBusy
  <2>2. CASE i = 0
    <3>1. new.phase = "gone"
      BY <1>1, <1>2, <1>5, <1>6, <2>1, <2>2
    <3>2. 0 \in Versions' /\ Version(0)' = new
      BY <1>2 DEF new
    <3> QED BY <3>1, <3>2
  <2>3. CASE i \in 1..n
    BY <1>3, <2>1, <2>3
  <2> QED BY <1>2, <2>2, <2>3
<1>14. ToTrack'
  <2> SUFFICES ASSUME ~tracked \/ rootPc = "clearing", new.phase = "alive", ~new.disabled,
                      ~reenabled, ~replaced, ~rootPending'
               PROVE  \E j \in Versions' : j > 0 /\ (Version(j)'.disabled \/ Version(j)'.phase = "gone")
    BY <1>1, <1>2 DEF ToTrack
  <2>1. cache.phase = "alive" /\ ~rootPending
    BY <1>1, <1>4, <1>5, <1>6
  <2>2. \E j \in 1..n : Version(j).disabled \/ Version(j).phase = "gone"
    <3>1. CASE ~cache.disabled
      BY <1>2, <2>1, <3>1 DEF IInv, ToTrack
    <3>2. CASE cache.disabled /\ api.disabled
      BY <1>2, <3>2
    <3>3. CASE cache.disabled /\ ~api.disabled
      <4>1. PICK j \in 0..n : 0 < j /\ Version(j).phase = "gone"
        BY <1>1, <1>2, <3>3 DEF VersionsOK, EnablingIsKnown
      <4> QED BY <4>1
    <3> QED BY <3>1, <3>2, <3>3
  <2>3. PICK j \in 1..n : Version(j).disabled \/ Version(j).phase = "gone"
    BY <2>2
  <2>4. j # 1
    BY <2>3 DEF new
  <2>5. j - 1 > 0 /\ j - 1 \in Versions' /\ Version(j - 1)' = Version(j)
    BY <1>3, <2>4
  <2> QED BY <2>3, <2>5
<1>15. ToFinish'
  <2> SUFFICES ASSUME api.phase = "alive", ~api.disabled, ~StopsShort,
                      \/ api.status.conditions \in {"none", "Reconciling"}
                      \/ api.status.conditions = "Finished" /\ api.status.observed # api.generation,
                      ~rootPending', ~ControllerBusy, new.generation = api.generation,
                      \A i \in Versions' : Version(i)'.phase = "alive"
               PROVE  FALSE
    BY <1>1, <1>2 DEF ToFinish, StopsShort, ControllerBusy
  <2>1. cache.generation = api.generation /\ ~rootPending
    BY <1>1, <1>5, <1>6
  <2>2. PICK i \in Versions : Version(i).phase # "alive"
    BY <2>1 DEF IInv, ToFinish
  <2>3. CASE i = 0
    <3>1. new.phase = "alive"
      BY <1>2 DEF new
    <3> QED BY <1>1, <1>2, <1>4, <1>5, <1>6, <2>2, <2>3, <3>1
  <2>4. CASE i \in 1..n
    BY <1>3, <2>2, <2>4
  <2> QED BY <1>2, <2>3, <2>4
<1> QED BY <1>7, <1>8, <1>9, <1>10, <1>11, <1>12, <1>13, <1>14, <1>15 DEF IInv

LEMMA RelistIInv ==
  ASSUME IInv, Relist
  PROVE  IInv'
<1>0. PICK n \in Nat : n = Len(events)
  BY VersionFacts DEF IInv
<1> DEFINE another == api.phase # "gone" /\ \E i \in 1..n : Version(i).phase = "gone"
<1>1. /\ TypeOK /\ VersionsOK /\ n > 1 /\ cache' = api /\ events' = <<>>
      /\ rootPending' = (rootPending \/ Noticed(cache, api))
      /\ replaced' = (replaced \/ (another /\ ~Noticed(cache, api)))
      /\ UNCHANGED <<api, live, changes, rootPc, rootObj, rootFresh, tracked, rgPending, rgPc,
                     rgObj, rgFresh, newStatus, dropped, reenabled, actuated>>
  BY <1>0 DEF IInv, Relist, rg, Version
<1>2. /\ events' \in Seq(Objects) /\ cache' \in Objects /\ Versions' = {0} /\ Version(0)' = api
      /\ Versions = 0..n /\ Version(0) = cache /\ Version(n) = api
  BY <1>0, <1>1, Listed, VersionFacts DEF Versions, VersionsOK, NewestIsTheObject
<1>3. /\ cache.phase \in {"alive", "deleting", "gone"} /\ api.phase \in {"alive", "deleting", "gone"}
      /\ cache.generation \in Nat /\ api.generation \in Nat /\ changes \in Nat
  BY <1>1, ObjectFacts, BoundsAssumption DEF TypeOK
<1>4. rootPending' \in BOOLEAN /\ replaced' \in BOOLEAN
  BY <1>1 DEF TypeOK, Noticed
<1> HIDE DEF another
<1>5. ASSUME ~Noticed(cache, api), ~replaced'
      PROVE  /\ cache.phase = "gone" <=> api.phase = "gone"
             /\ cache.generation = api.generation
             /\ cache.phase = "alive" => api.phase = "alive"
             /\ api.phase # "gone" => \A i \in 0..n : Version(i).phase # "gone"
             /\ api.phase = "alive" => \A i \in 0..n : Version(i).phase = "alive"
  <2>1. (cache.phase = "gone" <=> api.phase = "gone") /\ cache.generation = api.generation
    BY <1>5 DEF Noticed, Passes
  <2>2. CASE api.phase = "gone"
    BY <1>3, <2>1, <2>2
  <2>3. CASE api.phase # "gone"
    <3>1. \A i \in 0..n : Version(i).phase # "gone"
      <4>1. ~another
        BY <1>1, <1>5
      <4>2. \A i \in 1..n : Version(i).phase # "gone"
        BY <2>3, <4>1 DEF another
      <4>3. Version(0).phase # "gone"
        BY <1>2, <2>1, <2>3
      <4> QED BY <4>2, <4>3
    <3>2. \A i \in 0..n : SameObject(i, n)
      BY <3>1 DEF SameObject
    <3>3. cache.phase = "alive" => api.phase = "alive"
      BY <1>1, <1>2, <1>3, <2>1, <2>3, <3>2 DEF VersionsOK, OneHistory
    <3>4. ASSUME api.phase = "alive", NEW i \in 0..n PROVE Version(i).phase = "alive"
      <4>1. CASE i = n
        BY <1>2, <3>4, <4>1
      <4>2. CASE i < n
        <5>1. Version(i).phase # "deleting"
          BY <1>1, <1>2, <3>2, <3>4, <4>2 DEF VersionsOK, OneHistory
        <5>2. Version(i) \in Objects
          BY <1>1, <1>2, VersionFacts
        <5> QED BY <3>1, <5>1, <5>2, ObjectFacts
      <4> QED BY <4>1, <4>2
    <3> QED BY <2>1, <2>3, <3>1, <3>3, <3>4
  <2> QED BY <2>2, <2>3
<1>6. TypeOK'
  BY <1>1, <1>2, <1>4 DEF TypeOK
<1>7. VersionsOK'
  BY <1>1, <1>3, ListedVersionsOK
<1>8. UnknownIsUnset'
  BY <1>1, <1>2 DEF UnknownIsUnset
<1>9. LocalsOK' /\ ComputedIsCurrent' /\ ToCompute'
  BY <1>1
  DEF IInv, LocalsOK, ComputedIsCurrent, ToCompute, ControllerBusy, StatusIsCurrent
<1>10. replaced => replaced'
  BY <1>1
<1>11. ToForget'
  BY <1>1, <1>5, <1>10 DEF IInv, ToForget, RootBusy
<1>12. ToClear' /\ ToRetry'
  BY <1>1 DEF ToClear, ToRetry, Noticed, Passes
<1>13. ToStart'
  <2> SUFFICES ASSUME tracked, ~dropped, ~replaced', ~rootPending', rootPc # "clearing",
                      ~ControllerBusy, api.status.conditions = "none"
               PROVE  api.phase = "gone"
    BY <1>1, <1>2 DEF ToStart, RootBusy, ControllerBusy
  <2>1. PICK i \in Versions : Version(i).phase = "gone"
    BY <1>1, <1>10 DEF IInv, ToStart, RootBusy
  <2> QED BY <1>1, <1>2, <1>5, <2>1
<1>14. ToTrack'
  <2> SUFFICES ASSUME ~tracked \/ rootPc = "clearing", api.phase = "alive", ~api.disabled,
                      ~reenabled, ~replaced', ~rootPending'
               PROVE  FALSE
    BY <1>1 DEF ToTrack
  <2>1. \A i \in 0..n : Version(i).phase = "alive"
    BY <1>1, <1>5
  <2>2. \A i \in 0..n : ~Version(i).disabled
    BY <1>1, <1>2, <2>1 DEF VersionsOK, EnablingIsKnown
  <2>3. cache.phase = "alive" /\ ~cache.disabled /\ ~rootPending /\ ~replaced
    <3>1. 0 \in 0..n
      BY <1>0
    <3> QED BY <1>1, <1>2, <1>10, <2>1, <2>2, <3>1
  <2>4. PICK j \in Versions : Version(j).disabled \/ Version(j).phase = "gone"
    BY <2>3 DEF IInv, ToTrack
  <2> QED BY <1>2, <2>1, <2>2, <2>4
<1>15. ToFinish'
  <2> SUFFICES ASSUME api.phase = "alive", ~api.disabled, ~dropped, ~reenabled, ~replaced',
                      \/ api.status.conditions \in {"none", "Reconciling"}
                      \/ api.status.conditions = "Finished" /\ api.status.observed # api.generation,
                      ~rootPending', ~ControllerBusy
               PROVE  FALSE
    BY <1>1 DEF ToFinish, StopsShort, ControllerBusy
  <2>1. cache.generation = api.generation /\ ~rootPending /\ ~replaced
        /\ \A i \in Versions : Version(i).phase = "alive"
    BY <1>1, <1>2, <1>5, <1>10
  <2> QED BY <2>1 DEF IInv, ToFinish, StopsShort
<1> QED BY <1>6, <1>7, <1>8, <1>9, <1>11, <1>12, <1>13, <1>14, <1>15 DEF IInv
-----------------------------------------------------------------------------
(* The steps of Root.                                                      *)

LEMMA RootReconcileIInv ==
  ASSUME IInv, RootReconcile
  PROVE  IInv'
<1>1. /\ TypeOK /\ VersionsOK /\ rootPc = "idle" /\ ~cache.disabled /\ cache.phase = "alive"
      /\ tracked' = TRUE /\ rgPending' = TRUE /\ rootPending' = FALSE /\ replaced' = FALSE
      /\ reenabled' = (reenabled /\ \E i \in 1..Len(events) : events[i].disabled)
      /\ UNCHANGED <<api, events, live, changes, cache, rootPc, rootObj, rootFresh, rgPc, rgObj,
                     rgFresh, newStatus, dropped, actuated>>
  BY DEF IInv, RootReconcile, outside
<1>2. changes' \in Nat /\ changes <= changes'
  BY <1>1, BoundsAssumption DEF TypeOK
<1>3. reenabled' = reenabled \/ \A i \in Versions : ~Version(i).disabled
  <2>1. CASE reenabled /\ \A i \in 1..Len(events) : ~events[i].disabled
    <3> SUFFICES ASSUME NEW i \in Versions PROVE ~Version(i).disabled
      OBVIOUS
    <3>1. CASE i = 0
      BY <1>1, <3>1 DEF Version
    <3>2. CASE i # 0
      <4>1. i \in 1..Len(events)
        BY <1>1, <3>2, VersionFacts DEF Versions
      <4> QED BY <2>1, <3>2, <4>1 DEF Version
    <3> QED BY <3>1, <3>2
  <2>2. CASE ~reenabled \/ \E i \in 1..Len(events) : events[i].disabled
    BY <1>1, <2>2 DEF TypeOK
  <2> QED BY <2>1, <2>2
<1>4. VersionsOK' /\ Versions' = Versions /\ \A i \in Versions : Version(i)' = Version(i)
  BY <1>1, <1>2, <1>3, KeptVersionsOK
<1>5. TypeOK'
  <2>1. reenabled' \in BOOLEAN
    BY <1>1
  <2> QED BY <1>1, <2>1 DEF TypeOK
<1>6. UnknownIsUnset' /\ LocalsOK' /\ ComputedIsCurrent'
  BY <1>1, <1>4 DEF IInv, UnknownIsUnset, LocalsOK, ComputedIsCurrent
<1>7. ToForget' /\ ToClear' /\ ToTrack' /\ ToStart' /\ ToRetry' /\ ToFinish' /\ ToCompute'
  BY <1>1 DEF ToForget, ToClear, ToTrack, ToStart, ToRetry, ToFinish, ToCompute, ControllerBusy
<1> QED BY <1>4, <1>5, <1>6, <1>7 DEF IInv

LEMMA RootForgetIInv ==
  ASSUME IInv, RootForget
  PROVE  IInv'
<1>1. /\ TypeOK /\ VersionsOK /\ rootPc = "idle" /\ ~cache.disabled /\ cache.phase # "alive"
      /\ tracked' = FALSE /\ rootPending' = FALSE /\ replaced' = FALSE
      /\ UNCHANGED <<api, events, live, changes, cache, rootPc, rootObj, rootFresh, rgPending, rgPc,
                     rgObj, rgFresh, newStatus, dropped, reenabled, actuated>>
  BY DEF IInv, RootForget, outside, rg
<1>2. changes' \in Nat /\ changes <= changes'
  BY <1>1, BoundsAssumption DEF TypeOK
<1>3. VersionsOK' /\ Versions' = Versions /\ \A i \in Versions : Version(i)' = Version(i)
  BY <1>1, <1>2, KeptVersionsOK
<1>4. TypeOK'
  BY <1>1 DEF TypeOK
<1>5. UnknownIsUnset' /\ LocalsOK'
  BY <1>1, <1>3 DEF IInv, UnknownIsUnset, LocalsOK
<1>6. ComputedIsCurrent' /\ ToForget' /\ ToClear' /\ ToTrack' /\ ToStart' /\ ToRetry' /\ ToCompute'
  BY <1>1 DEF ComputedIsCurrent, ToForget, ToClear, ToTrack, ToStart, ToRetry, ToCompute
<1>7. ToFinish'
  BY <1>1, <1>3, VersionFacts DEF ToFinish
<1> QED BY <1>3, <1>4, <1>5, <1>6, <1>7 DEF IInv

LEMMA RootReadDisabledIInv ==
  ASSUME IInv, RootReadDisabled
  PROVE  IInv'
<1>1. /\ TypeOK /\ VersionsOK /\ cache.disabled /\ rootPending' = FALSE /\ rootPc' = "clearing"
      /\ rootObj' = cache /\ rootFresh' = (events = <<>>) /\ replaced' = FALSE
      /\ UNCHANGED <<api, events, live, changes, cache, tracked, rgPending, rgPc,
                     rgObj, rgFresh, newStatus, dropped, reenabled, actuated>>
  BY DEF IInv, RootReadDisabled, outside, rg
<1>2. changes' \in Nat /\ changes <= changes'
  BY <1>1, BoundsAssumption DEF TypeOK
<1>3. VersionsOK' /\ Versions' = Versions /\ \A i \in Versions : Version(i)' = Version(i)
  BY <1>1, <1>2, KeptVersionsOK
<1>4. TypeOK'
  <2>1. events = <<>> => cache = api
    BY <1>1, VersionFacts DEF VersionsOK, NewestIsTheObject
  <2>2. rootFresh' \in BOOLEAN
    BY <1>1
  <2> QED BY <1>1, <2>1, <2>2 DEF TypeOK
<1>5. UnknownIsUnset' /\ LocalsOK' /\ ComputedIsCurrent'
  BY <1>1, <1>3 DEF IInv, UnknownIsUnset, LocalsOK, ComputedIsCurrent
<1>6. ToForget' /\ ToStart' /\ ToTrack' /\ ToRetry'
  BY <1>1 DEF ToForget, ToStart, ToTrack, ToRetry, RootBusy
<1>7. ToClear'
  BY <1>1, EmptyStatusFacts DEF ToClear
<1>8. ToFinish'
  <2> SUFFICES ASSUME api.phase = "alive", ~api.disabled, ~reenabled
               PROVE  \E i \in Versions : Version(i).phase # "alive"
    BY <1>1, <1>3 DEF ToFinish, StopsShort
  <2>1. 0 \in Versions /\ Version(0).disabled
    BY <1>1, VersionFacts
  <2> QED BY <1>1, <2>1 DEF VersionsOK, EnablingIsKnown
<1>9. ToCompute'
  BY <1>1 DEF IInv, ToCompute, ControllerBusy, StatusIsCurrent
<1> QED BY <1>3, <1>4, <1>5, <1>6, <1>7, <1>8, <1>9 DEF IInv

LEMMA RootClearIInv ==
  ASSUME IInv, RootClear
  PROVE  IInv'
<1>1. /\ TypeOK /\ VersionsOK /\ rootPc = "clearing" /\ rootObj.disabled
      /\ rootPc' = "idle" /\ rootObj' = NewObject /\ rootFresh' = FALSE /\ tracked' = FALSE
      /\ UNCHANGED <<live, changes, cache, rootPending, rgPending, rgPc, rgObj, newStatus,
                     dropped, reenabled, replaced>>
      /\ actuated' \in BOOLEAN
  BY DEF IInv, TypeOK, RootClear, RootReturns, LocalsOK
<1>2. ComputedIsCurrent' /\ ToForget' /\ ToStart' /\ ToCompute'
  BY <1>1 DEF ComputedIsCurrent, ToForget, ToStart, ToCompute
<1>3. LocalsOK'
  BY <1>1 DEF IInv, LocalsOK
<1>4. CASE rootObj.status # EmptyStatus /\ rootFresh
  <2> DEFINE obj == [api EXCEPT !.status = EmptyStatus]
  <2>1. Write(obj) /\ rgFresh' = FALSE /\ rootObj = api
    BY <1>1, <1>4 DEF RootClear, TypeOK
  <2>2. /\ obj \in Objects /\ obj.phase = api.phase /\ obj.generation = api.generation
        /\ obj.disabled = api.disabled /\ obj.status = EmptyStatus
    BY <1>1, EmptyStatusType, WithStatus DEF TypeOK
  <2> HIDE DEF obj
  <2>3. api.disabled /\ api.phase # "gone"
    BY <1>1, <2>1, ObjectWellFormed, NoObjectType DEF WellFormed
  <2>4. WellFormed(obj)
    BY <2>2, <2>3, EmptyStatusFacts DEF WellFormed
  <2>5. api.generation <= changes' + 1 /\ api.generation <= api.generation
    BY <1>1, ObjectFacts, BoundsAssumption DEF TypeOK, VersionsOK
  <2>6. Follows(obj)
    BY <2>2, <2>3, <2>4, <2>5 DEF Follows
  <2>7. VersionsOK'
    BY <1>1, <2>1, <2>6, AppendedVersionsOK
  <2>8. /\ events' \in Seq(Objects) /\ events' # <<>> /\ api' = obj /\ Len(events) \in Nat
        /\ Versions' = 0..Len(events) + 1
        /\ \A i \in Nat : i = Len(events) + 1 => Version(i)' = obj
    BY <1>1, <2>1, <2>2, Appended, VersionFacts
  <2>9. TypeOK'
    BY <1>1, <2>1, <2>2, <2>8, NewObjectType DEF TypeOK
  <2>10. UnknownIsUnset' /\ ToClear' /\ ToRetry' /\ ToFinish'
    BY <2>1, <2>2, <2>3, <2>8, EmptyStatusFacts DEF UnknownIsUnset, ToClear, ToRetry, ToFinish
  <2>11. ToTrack'
    <3>1. \E j \in Versions' : j > 0 /\ Version(j)'.disabled
      <4>1. PICK m \in Nat : m = Len(events)
        BY <2>8
      <4>2. m + 1 \in Versions' /\ m + 1 > 0 /\ Version(m + 1)' = obj
        BY <2>8, <4>1
      <4> QED BY <2>2, <2>3, <4>2
    <3> QED BY <3>1 DEF ToTrack
  <2> QED BY <1>2, <1>3, <2>7, <2>9, <2>10, <2>11 DEF IInv
<1>5. CASE ~(rootObj.status # EmptyStatus /\ rootFresh)
  <2>1. UNCHANGED <<api, events, rgFresh>>
    BY <1>5 DEF RootClear
  <2>2. changes' \in Nat /\ changes <= changes'
    BY <1>1, BoundsAssumption DEF TypeOK
  <2>3. VersionsOK' /\ Versions' = Versions /\ \A i \in Versions : Version(i)' = Version(i)
    BY <1>1, <2>1, <2>2, KeptVersionsOK
  <2>4. TypeOK'
    BY <1>1, <2>1, NewObjectType DEF TypeOK
  <2>5. UnknownIsUnset'
    BY <1>1, <2>1, <2>3 DEF IInv, UnknownIsUnset
  <2>6. ToClear'
    BY <1>1, <1>5, <2>1 DEF IInv, ToClear
  <2>7. ToTrack' /\ ToRetry' /\ ToFinish'
    BY <1>1, <2>1, <2>3 DEF IInv, ToTrack, ToRetry, ToFinish, StopsShort, ControllerBusy
  <2> QED BY <1>2, <1>3, <2>3, <2>4, <2>5, <2>6, <2>7 DEF IInv
<1> QED BY <1>4, <1>5

LEMMA RootClearFailsIInv ==
  ASSUME IInv, RootClearFails
  PROVE  IInv'
<1>1. /\ TypeOK /\ VersionsOK /\ rootPending' = TRUE
      /\ rootPc' = "idle" /\ rootObj' = NewObject /\ rootFresh' = FALSE
      /\ UNCHANGED <<api, events, live, changes, cache, tracked, rgPending, rgPc, rgObj, rgFresh,
                     newStatus, dropped, reenabled, replaced, actuated>>
  BY DEF IInv, RootClearFails, RootReturns, outside, rg, history
<1>2. changes' \in Nat /\ changes <= changes'
  BY <1>1, BoundsAssumption DEF TypeOK
<1>3. VersionsOK' /\ Versions' = Versions /\ \A i \in Versions : Version(i)' = Version(i)
  BY <1>1, <1>2, KeptVersionsOK
<1>4. TypeOK'
  BY <1>1, NewObjectType DEF TypeOK
<1>5. UnknownIsUnset' /\ LocalsOK' /\ ComputedIsCurrent'
  BY <1>1, <1>3 DEF IInv, UnknownIsUnset, LocalsOK, ComputedIsCurrent
<1>6. ToForget' /\ ToClear' /\ ToStart' /\ ToTrack' /\ ToRetry' /\ ToFinish'
  BY <1>1 DEF ToForget, ToClear, ToStart, ToTrack, ToRetry, ToFinish, RootBusy
<1>7. ToCompute'
  BY <1>1 DEF IInv, ToCompute, ControllerBusy, StatusIsCurrent
<1> QED BY <1>3, <1>4, <1>5, <1>6, <1>7 DEF IInv

-----------------------------------------------------------------------------
(* The steps of the ResourceGroup controller.                              *)

LEMMA ReadIInv ==
  ASSUME IInv, Read
  PROVE  IInv'
<1>1. /\ TypeOK /\ VersionsOK /\ rgPc = "idle" /\ cache.phase = "alive" /\ rgPending' = FALSE
      /\ rgPc' = "read" /\ rgObj' = cache /\ rgFresh' = (events = <<>>)
      /\ UNCHANGED <<api, events, live, changes, cache, rootPending, rootPc, rootObj, rootFresh,
                     tracked, newStatus, dropped, reenabled, replaced, actuated>>
  BY DEF IInv, Read, outside, root, history
<1>2. changes' \in Nat /\ changes <= changes'
  BY <1>1, BoundsAssumption DEF TypeOK
<1>3. VersionsOK' /\ Versions' = Versions /\ \A i \in Versions : Version(i)' = Version(i)
  BY <1>1, <1>2, KeptVersionsOK
<1>4. TypeOK'
  <2>1. events = <<>> => cache = api
    BY <1>1, VersionFacts DEF VersionsOK, NewestIsTheObject
  <2>2. rgFresh' \in BOOLEAN
    BY <1>1
  <2> QED BY <1>1, <2>1, <2>2 DEF TypeOK
<1>5. UnknownIsUnset'
  <2>1. events = <<>> => \A i \in Versions : Version(i).phase = "alive"
    BY <1>1, VersionFacts DEF Versions
  <2> QED BY <1>1, <1>3, <2>1 DEF IInv, UnknownIsUnset
<1>6. LocalsOK' /\ ComputedIsCurrent'
  BY <1>1 DEF IInv, LocalsOK, ComputedIsCurrent
<1>7. ToForget' /\ ToClear' /\ ToTrack'
  BY <1>1, <1>3 DEF IInv, ToForget, ToClear, ToTrack, RootBusy
<1>8. ToStart' /\ ToRetry' /\ ToFinish' /\ ToCompute'
  BY <1>1 DEF ToStart, ToRetry, ToFinish, ToCompute, ControllerBusy
<1> QED BY <1>3, <1>4, <1>5, <1>6, <1>7, <1>8 DEF IInv

LEMMA ReadGoneIInv ==
  ASSUME IInv, ReadGone
  PROVE  IInv'
<1>1. /\ TypeOK /\ VersionsOK /\ rgPc = "idle" /\ cache.phase # "alive" /\ rgPending' = FALSE
      /\ UNCHANGED <<api, events, live, changes, cache, rootPending, rootPc, rootObj, rootFresh,
                     tracked, rgPc, rgObj, rgFresh, newStatus, dropped, reenabled, replaced,
                     actuated>>
  BY DEF IInv, ReadGone, outside, root, history
<1>2. changes' \in Nat /\ changes <= changes'
  BY <1>1, BoundsAssumption DEF TypeOK
<1>3. VersionsOK' /\ Versions' = Versions /\ \A i \in Versions : Version(i)' = Version(i)
  BY <1>1, <1>2, KeptVersionsOK
<1>4. TypeOK'
  BY <1>1 DEF TypeOK
<1>5. UnknownIsUnset' /\ LocalsOK' /\ ComputedIsCurrent'
  BY <1>1, <1>3 DEF IInv, UnknownIsUnset, LocalsOK, ComputedIsCurrent
<1>6. ToForget' /\ ToClear' /\ ToTrack' /\ ToRetry'
  BY <1>1, <1>3 DEF IInv, ToForget, ToClear, ToTrack, ToRetry, RootBusy
<1>7. ToStart'
  BY <1>1 DEF IInv, ToForget, ToStart, RootBusy
<1>8. 0 \in Versions /\ Version(0).phase # "alive"
  BY <1>1, VersionFacts
<1>9. ToFinish'
  BY <1>1, <1>3, <1>8 DEF ToFinish
<1>10. ToCompute'
  BY <1>1, <1>8, EmptyStatusFacts DEF IInv, UnknownIsUnset, ToCompute
<1> QED BY <1>3, <1>4, <1>5, <1>6, <1>7, <1>9, <1>10 DEF IInv

(***************************************************************************)
(* What both writes of the controller share.  The copy is fresh, so that   *)
(* no version is that of another object, and none is being deleted.        *)
(***************************************************************************)
LEMMA Written ==
  ASSUME IInv, NEW st \in Statuses, rgPc # "idle", rgFresh, UpdateStatus(st),
         st.conditions # "none", Ended(st) => st.resource # NoEntry
  PROVE  /\ rgObj = api /\ api.phase = "alive"
         /\ api' = [api EXCEPT !.status = st] /\ api' \in Objects
         /\ api'.phase = "alive" /\ api'.generation = api.generation
         /\ api'.disabled = api.disabled /\ api'.status = st
         /\ events' \in Seq(Objects) /\ events' # <<>>
         /\ VersionsOK' /\ UnknownIsUnset' /\ ToTrack'
<1>0. PICK n \in Nat : n = Len(events)
  BY VersionFacts DEF IInv
<1> DEFINE obj == [api EXCEPT !.status = st]
<1>1. /\ TypeOK /\ VersionsOK /\ rgObj = api /\ api.phase = "alive" /\ Write(obj)
      /\ UNCHANGED <<live, changes, cache, rootPending, rootPc, rootObj, tracked, rgPending,
                     reenabled, replaced>>
  BY DEF IInv, TypeOK, LocalsOK, UpdateStatus
<1>2. /\ obj \in Objects /\ obj.phase = "alive" /\ obj.generation = api.generation
      /\ obj.disabled = api.disabled /\ obj.status = st
  BY <1>1, WithStatus DEF TypeOK
<1>3. api' = obj
  BY <1>1 DEF Write
<1> HIDE DEF obj
<1>4. WellFormed(obj)
  BY <1>2 DEF WellFormed, Ended
<1>5. api.generation <= changes' + 1 /\ api.generation <= api.generation
  BY <1>1, ObjectFacts, BoundsAssumption DEF TypeOK, VersionsOK
<1>6. reenabled' = reenabled /\ obj.disabled \in BOOLEAN
  BY <1>1, <1>2, ObjectFacts
<1>7. Follows(obj)
  BY <1>1, <1>2, <1>4, <1>5, <1>6 DEF Follows, TypeOK
<1>8. VersionsOK'
  BY <1>1, <1>7, AppendedVersionsOK
<1>9. /\ events' \in Seq(Objects) /\ events' # <<>>
      /\ Versions' = 0..n + 1 /\ Versions = 0..n
      /\ \A i \in 0..n : Version(i)' = Version(i)
      /\ Version(n + 1)' = obj
  BY <1>0, <1>1, <1>2, Appended DEF Versions
<1>10. \A i \in 0..n : Version(i).phase = "alive"
  BY <1>1, <1>9 DEF IInv, UnknownIsUnset
<1>11. UnknownIsUnset'
  <2>1. \A i \in 0..n + 1 : Version(i)'.phase = "alive"
    <3> SUFFICES ASSUME NEW i \in 0..n + 1 PROVE Version(i)'.phase = "alive"
      OBVIOUS
    <3>1. CASE i = n + 1
      BY <1>2, <1>9, <3>1
    <3>2. CASE i \in 0..n
      BY <1>9, <1>10, <3>2
    <3> QED BY <3>1, <3>2
  <2> QED BY <1>9, <2>1 DEF UnknownIsUnset
<1>12. ToTrack'
  <2>1. \A j \in Versions : j \in Versions' /\ Version(j)' = Version(j)
    BY <1>9
  <2> QED BY <1>1, <2>1 DEF IInv, ToTrack
<1> QED BY <1>1, <1>2, <1>3, <1>8, <1>9, <1>11, <1>12 DEF obj

LEMMA StartingStatusType ==
  ASSUME TypeOK
  PROVE  /\ StartingStatus \in Statuses /\ StartingStatus.conditions = "Reconciling"
         /\ StartingStatus.observed = rgObj.status.observed
         /\ StartingStatus.resource = rgObj.status.resource
BY DEF TypeOK, StartingStatus, Objects, Statuses, ConditionPairs
LEMMA StartIInv ==
  ASSUME IInv, Start
  PROVE  IInv'
<1>1. /\ TypeOK /\ VersionsOK /\ rgPc = "read" /\ rgPc' = "started"
      /\ UpdateStatus(StartingStatus) /\ rgObj' = [rgObj EXCEPT !.status = StartingStatus]
      /\ dropped' = ~rgFresh
      /\ UNCHANGED <<live, changes, cache, rootPending, rootPc, rootObj, tracked, rgPending,
                     rgFresh, newStatus, reenabled, replaced, actuated>>
  BY DEF IInv, Start, UpdateStatus
<1>2. StartingStatus \in Statuses /\ StartingStatus.conditions = "Reconciling"
  BY <1>1, StartingStatusType
<1>3. rgObj' \in Objects /\ rgObj'.phase = rgObj.phase /\ rgObj.phase = "alive"
  BY <1>1, <1>2, WithStatus DEF IInv, LocalsOK, TypeOK
<1>4. LocalsOK' /\ ComputedIsCurrent'
  BY <1>1, <1>3 DEF IInv, LocalsOK, ComputedIsCurrent
<1>5. ToForget' /\ ToStart' /\ ToRetry' /\ ToFinish' /\ ToCompute'
  BY <1>1 DEF IInv, ToForget, ToStart, ToRetry, ToFinish, ToCompute, RootBusy, ControllerBusy
<1>6. dropped' \in BOOLEAN
  BY <1>1
<1>7. CASE rgFresh
  <2>1. /\ rgObj = api /\ api' = [api EXCEPT !.status = StartingStatus] /\ api' \in Objects
        /\ events' \in Seq(Objects) /\ events' # <<>>
        /\ VersionsOK' /\ UnknownIsUnset' /\ ToTrack'
    BY <1>1, <1>2, <1>7, Written DEF Ended
  <2>2. rootFresh' = FALSE
    BY <1>1, <1>7 DEF UpdateStatus
  <2>3. TypeOK'
    BY <1>1, <1>3, <1>6, <2>1, <2>2 DEF TypeOK
  <2>4. ToClear'
    BY <2>1 DEF ToClear
  <2> QED BY <1>4, <1>5, <2>1, <2>3, <2>4 DEF IInv
<1>8. CASE ~rgFresh
  <2>1. UNCHANGED <<api, events, rootFresh>>
    BY <1>1, <1>8 DEF UpdateStatus
  <2>2. changes' \in Nat /\ changes <= changes'
    BY <1>1, BoundsAssumption DEF TypeOK
  <2>3. VersionsOK' /\ Versions' = Versions /\ \A i \in Versions : Version(i)' = Version(i)
    BY <1>1, <2>1, <2>2, KeptVersionsOK
  <2>4. TypeOK'
    BY <1>1, <1>3, <1>6, <1>8, <2>1 DEF TypeOK
  <2>5. UnknownIsUnset' /\ ToClear' /\ ToTrack'
    BY <1>1, <1>8, <2>1, <2>3 DEF IInv, UnknownIsUnset, ToClear, ToTrack
  <2> QED BY <1>4, <1>5, <2>3, <2>4, <2>5 DEF IInv
<1> QED BY <1>7, <1>8

\* What is computed keeps what the applier wrote, and is current.
LEMMA ComputedStatusFacts ==
  ASSUME TypeOK
  PROVE  /\ ComputedStatus \in ResourceStatus
         /\ ComputedStatus.status = Legacy([ComputedStatus EXCEPT !.status = live])
         /\ rgObj.status.resource # NoEntry =>
              ComputedStatus = [rgObj.status.resource EXCEPT !.status = ComputedStatus.status]
<1> DEFINE old == rgObj.status.resource
           new == IF old = NoEntry THEN [status |-> live, actuation |-> "", reconcile |-> ""]
                  ELSE [old EXCEPT !.status = live]
<1>1. live \in StatusValues /\ old \in ResourceStatus \cup {NoEntry}
  BY ComputedAssumption, ObjectFacts, StatusFacts DEF TypeOK
<1>2. "" \in ActuationValues /\ "" \in ReconcileValues
  BY DEF ActuationValues, ReconcileValues
<1>3. new \in ResourceStatus /\ new.status = live
  BY <1>1, <1>2 DEF ResourceStatus
<1>4. ComputedStatus = [new EXCEPT !.status = Legacy(new)]
  BY DEF ComputedStatus
<1>5. Legacy(new) \in StatusValues
  BY <1>3, LegacyType
<1>6. ComputedStatus \in ResourceStatus /\ ComputedStatus.status = Legacy(new)
  BY <1>3, <1>4, <1>5 DEF ResourceStatus
<1>7. [ComputedStatus EXCEPT !.status = live] = new
  BY <1>3, <1>4 DEF ResourceStatus
<1>8. old # NoEntry => ComputedStatus = [old EXCEPT !.status = ComputedStatus.status]
  BY <1>1, <1>4, <1>6 DEF ResourceStatus
<1> QED BY <1>6, <1>7, <1>8

\* The reconcile of a copy that has ended, either way.
LEMMA ComputedStep ==
  ASSUME IInv, rgPc = "started", rgPc' = "computed",
         UNCHANGED <<outside, cache, root, tracked, rgPending, rgObj, rgFresh, history>>,
         newStatus' \in Statuses, ComputedFrom(rgObj, newStatus'),
         Ended(newStatus') =>
           newStatus'.resource.status = Legacy([newStatus'.resource EXCEPT !.status = live])
  PROVE  IInv'
<1>1. /\ TypeOK /\ VersionsOK /\ rgPc # "idle" /\ rgPc' # "idle"
      /\ UNCHANGED <<api, events, live, changes, cache, rootPending, rootPc, rootObj, rootFresh,
                     tracked, rgPending, rgObj, rgFresh, dropped, reenabled, replaced, actuated>>
  BY DEF IInv, outside, root, history
<1>2. changes' \in Nat /\ changes <= changes'
  BY <1>1, BoundsAssumption DEF TypeOK
<1>3. VersionsOK' /\ Versions' = Versions /\ \A i \in Versions : Version(i)' = Version(i)
  BY <1>1, <1>2, KeptVersionsOK
<1>4. TypeOK'
  BY <1>1 DEF TypeOK
<1>5. UnknownIsUnset'
  BY <1>1, <1>3 DEF IInv, UnknownIsUnset
<1>6. LocalsOK'
  BY <1>1 DEF IInv, LocalsOK, ComputedFrom, Ended
<1>7. ComputedIsCurrent'
  BY <1>1 DEF ComputedIsCurrent, Ended
<1>8. ToForget' /\ ToClear' /\ ToTrack'
  BY <1>1, <1>3 DEF IInv, ToForget, ToClear, ToTrack, RootBusy
<1>9. ToStart' /\ ToRetry' /\ ToFinish' /\ ToCompute'
  BY <1>1 DEF ToStart, ToRetry, ToFinish, ToCompute, ControllerBusy
<1> QED BY <1>3, <1>4, <1>5, <1>6, <1>7, <1>8, <1>9 DEF IInv

LEMMA FinishIInv ==
  ASSUME IInv, Finish
  PROVE  IInv'
<1>1. rgObj.generation \in 0..MaxChanges + 1 /\ Aggregated(ComputedStatus) \in ConditionPairs
  <2>1. rgObj.generation \in 1..MaxChanges + 1
    BY ObjectFacts DEF IInv, TypeOK
  <2> QED BY <2>1, BoundsAssumption DEF Aggregated, ConditionPairs
<1>2. /\ newStatus' \in Statuses /\ newStatus'.observed = rgObj.generation
      /\ newStatus'.resource = ComputedStatus
      /\ newStatus'.conditions \in {"Finished", "ComponentFailed"}
  BY <1>1, ComputedStatusFacts DEF Finish, IInv, Statuses, Aggregated
<1>3. newStatus'.resource # NoEntry
  BY <1>2, ComputedStatusFacts, NoEntryAssumption DEF IInv
<1>4. ComputedFrom(rgObj, newStatus')
  BY <1>2, <1>3, ComputedStatusFacts DEF IInv, ComputedFrom, Ended
<1>5. newStatus'.resource.status = Legacy([newStatus'.resource EXCEPT !.status = live])
  BY <1>2, ComputedStatusFacts DEF IInv
<1> QED BY <1>2, <1>4, <1>5, ComputedStep DEF Finish

LEMMA ExceedTimeoutIInv ==
  ASSUME IInv, ExceedTimeout
  PROVE  IInv'
<1>1. PICK resource \in {rgObj.status.resource, ComputedStatus} :
        newStatus' = [observed |-> rgObj.status.observed, resource |-> resource,
                      conditions |-> "ExceedTimeout"]
  BY DEF ExceedTimeout
<1>2. /\ rgObj.status.observed \in 0..MaxChanges + 1
      /\ rgObj.status.resource \in ResourceStatus \cup {NoEntry}
  BY ObjectFacts, StatusFacts DEF IInv, TypeOK
<1>3. /\ resource \in ResourceStatus \cup {NoEntry}
      /\ rgObj.status.resource # NoEntry =>
           resource = [rgObj.status.resource EXCEPT !.status = resource.status]
  <2>1. CASE resource = ComputedStatus
    BY <2>1, ComputedStatusFacts DEF IInv
  <2>2. CASE resource = rgObj.status.resource
    BY <1>2, <2>2 DEF ResourceStatus
  <2> QED BY <1>1, <2>1, <2>2
<1>4. /\ newStatus' \in Statuses /\ newStatus'.observed = rgObj.status.observed
      /\ newStatus'.resource = resource /\ newStatus'.conditions = "ExceedTimeout"
  BY <1>1, <1>2, <1>3 DEF Statuses, ConditionPairs
<1>5. ComputedFrom(rgObj, newStatus') /\ ~Ended(newStatus')
  BY <1>3, <1>4 DEF ComputedFrom, Ended
<1> QED BY <1>4, <1>5, ComputedStep DEF ExceedTimeout

LEMMA PublishIInv ==
  ASSUME IInv, Publish
  PROVE  IInv'
<1>1. /\ TypeOK /\ VersionsOK /\ rgPc = "computed" /\ rgPc' = "idle" /\ rgObj' = NewObject
      /\ rgFresh' = FALSE /\ UpdateStatus(newStatus) /\ dropped' = ~rgFresh
      /\ actuated' = (actuated /\ ~rgFresh)
      /\ UNCHANGED <<live, changes, cache, rootPending, rootPc, rootObj, tracked, rgPending,
                     newStatus, reenabled, replaced>>
  BY DEF IInv, Publish, UpdateStatus, ControllerReturns
<1>2. newStatus \in Statuses /\ ComputedFrom(rgObj, newStatus)
  BY <1>1 DEF IInv, LocalsOK, TypeOK
<1>3. LocalsOK' /\ ComputedIsCurrent' /\ ToForget'
  BY <1>1 DEF IInv, LocalsOK, ComputedIsCurrent, ToForget, RootBusy
<1>4. dropped' \in BOOLEAN /\ actuated' \in BOOLEAN
  BY <1>1
<1>5. CASE rgFresh
  <2>1. /\ rgObj = api /\ api.phase = "alive" /\ api' \in Objects
        /\ api'.phase = "alive" /\ api'.generation = api.generation /\ api'.status = newStatus
        /\ events' \in Seq(Objects) /\ events' # <<>>
        /\ VersionsOK' /\ UnknownIsUnset' /\ ToTrack'
    BY <1>1, <1>2, <1>5, Written DEF ComputedFrom, Ended
  <2>2. rootFresh' = FALSE
    BY <1>1, <1>5 DEF UpdateStatus
  <2>3. TypeOK'
    BY <1>1, <1>4, <2>1, <2>2, NewObjectType DEF TypeOK
  <2>4. ToClear' /\ ToRetry'
    BY <2>1 DEF ToClear, ToRetry
  <2>5. ToStart' /\ ToFinish'
    BY <1>2, <2>1 DEF ToStart, ToFinish, ComputedFrom, Ended
  <2>6. ToCompute'
    BY <1>1, <1>2, <2>1
    DEF IInv, ToCompute, StatusIsCurrent, ControllerBusy, ComputedIsCurrent, ComputedFrom, Ended
  <2> QED BY <1>3, <2>1, <2>3, <2>4, <2>5, <2>6 DEF IInv
<1>6. CASE ~rgFresh
  <2>1. UNCHANGED <<api, events, rootFresh>> /\ dropped'
    BY <1>1, <1>6 DEF UpdateStatus
  <2>2. changes' \in Nat /\ changes <= changes'
    BY <1>1, BoundsAssumption DEF TypeOK
  <2>3. VersionsOK' /\ Versions' = Versions /\ \A i \in Versions : Version(i)' = Version(i)
    BY <1>1, <2>1, <2>2, KeptVersionsOK
  <2>4. TypeOK'
    BY <1>1, <1>4, <2>1, NewObjectType DEF TypeOK
  <2>5. UnknownIsUnset' /\ ToClear' /\ ToTrack'
    BY <1>1, <2>1, <2>3 DEF IInv, UnknownIsUnset, ToClear, ToTrack
  <2>6. ToStart' /\ ToRetry' /\ ToFinish' /\ ToCompute'
    BY <2>1 DEF ToStart, ToRetry, ToFinish, ToCompute, StopsShort
  <2> QED BY <1>3, <2>3, <2>4, <2>5, <2>6 DEF IInv
<1> QED BY <1>5, <1>6

LEMMA UpdateFailsIInv ==
  ASSUME IInv, UpdateFails
  PROVE  IInv'
<1>1. /\ TypeOK /\ VersionsOK /\ rgPc' = "idle" /\ rgObj' = NewObject /\ rgFresh' = FALSE
      /\ rgPending' = TRUE
      /\ UNCHANGED <<api, events, live, changes, cache, rootPending, rootPc, rootObj, rootFresh,
                     tracked, newStatus, dropped, reenabled, replaced, actuated>>
  BY DEF IInv, UpdateFails, ControllerReturns, outside, root, history
<1>2. changes' \in Nat /\ changes <= changes'
  BY <1>1, BoundsAssumption DEF TypeOK
<1>3. VersionsOK' /\ Versions' = Versions /\ \A i \in Versions : Version(i)' = Version(i)
  BY <1>1, <1>2, KeptVersionsOK
<1>4. TypeOK'
  BY <1>1, NewObjectType DEF TypeOK
<1>5. UnknownIsUnset' /\ LocalsOK' /\ ComputedIsCurrent'
  BY <1>1, <1>3 DEF IInv, UnknownIsUnset, LocalsOK, ComputedIsCurrent
<1>6. ToForget' /\ ToClear' /\ ToTrack'
  BY <1>1, <1>3 DEF IInv, ToForget, ToClear, ToTrack, RootBusy
<1>7. ToStart' /\ ToRetry' /\ ToFinish' /\ ToCompute'
  BY <1>1 DEF ToStart, ToRetry, ToFinish, ToCompute, ControllerBusy
<1> QED BY <1>3, <1>4, <1>5, <1>6, <1>7 DEF IInv

LEMMA NothingIInv ==
  ASSUME IInv, UNCHANGED vars
  PROVE  IInv'
<1>1. /\ TypeOK /\ VersionsOK
      /\ UNCHANGED <<api, events, live, changes, cache, rootPending, rootPc, rootObj, rootFresh,
                     tracked, rgPending, rgPc, rgObj, rgFresh, newStatus, dropped, reenabled,
                     replaced, actuated>>
  BY DEF IInv, vars, outside, root, rg, history
<1>2. changes' \in Nat /\ changes <= changes'
  BY <1>1, BoundsAssumption DEF TypeOK
<1>3. VersionsOK' /\ Versions' = Versions /\ \A i \in Versions : Version(i)' = Version(i)
  BY <1>1, <1>2, KeptVersionsOK
<1>4. TypeOK' /\ LocalsOK' /\ ComputedIsCurrent'
  BY <1>1 DEF IInv, TypeOK, LocalsOK, ComputedIsCurrent
<1>5. UnknownIsUnset' /\ ToForget' /\ ToClear' /\ ToTrack'
  BY <1>1, <1>3 DEF IInv, UnknownIsUnset, ToForget, ToClear, ToTrack, RootBusy
<1>6. ToStart' /\ ToRetry' /\ ToFinish' /\ ToCompute'
  BY <1>1, <1>3 DEF IInv, ToStart, ToRetry, ToFinish, ToCompute, RootBusy, ControllerBusy,
                    StopsShort, StatusIsCurrent
<1> QED BY <1>3, <1>4, <1>5, <1>6 DEF IInv

LEMMA NextIInv == IInv /\ [Next]_vars => IInv'
<1> SUFFICES ASSUME IInv, [Next]_vars PROVE IInv'
  OBVIOUS
<1>1. ASSUME \E obj : OutsideStep(obj) PROVE IInv'
  BY <1>1, OutsideIInv
<1>2. CASE ChangeSpec \/ Disable \/ Enable \/ Delete \/ Finalize \/ Create
  BY <1>1, <1>2, ChangeSpecOutside, AnnotationOutside, DeleteOutside, CreateOutside DEF IInv
<1>3. ASSUME NEW a \in Actuations, Actuate(a) PROVE IInv'
  BY <1>1, <1>3, ActuateOutside DEF IInv
<1>4. ASSUME NEW s \in Computed, ChangeResource(s) PROVE IInv'
  BY <1>4, ChangeResourceIInv
<1>5. CASE Restart \/ Deliver \/ Relist
  BY <1>5, RestartIInv, DeliverIInv, RelistIInv
<1>6. CASE RootReconcile \/ RootForget \/ RootReadDisabled \/ RootClear \/ RootClearFails
  BY <1>6, RootReconcileIInv, RootForgetIInv, RootReadDisabledIInv, RootClearIInv,
     RootClearFailsIInv
<1>7. CASE Read \/ ReadGone \/ Start \/ Finish \/ ExceedTimeout \/ Publish \/ UpdateFails
  BY <1>7, ReadIInv, ReadGoneIInv, StartIInv, FinishIInv, ExceedTimeoutIInv, PublishIInv,
     UpdateFailsIInv
<1>8. CASE UNCHANGED vars
  BY <1>8, NothingIInv
<1> QED BY <1>2, <1>3, <1>4, <1>5, <1>6, <1>7, <1>8 DEF Next

LEMMA Invariance == Spec => []IInv
BY InitIInv, NextIInv, PTL DEF Spec

-----------------------------------------------------------------------------
(* The properties.                                                         *)

(***************************************************************************)
(* Every copy, event and status is of its type, and a copy that the API    *)
(* server will accept is the object as it is: the versions that the server *)
(* compares in Update (root_controller.go:166, resourcegroup_controller.go *)
(* :281) protect both controllers from writing back a stale copy.          *)
(***************************************************************************)
THEOREM TypeCorrect == Spec => []TypeOK
<1>1. IInv => TypeOK
  BY DEF IInv
<1> QED BY <1>1, Invariance, PTL

LEMMA RestFacts ==
  ASSUME IInv, Quiet
  PROVE  Versions = {0} /\ Version(0) = api /\ cache = api
BY VersionFacts DEF IInv, Quiet, VersionsOK, NewestIsTheObject, Versions

(***************************************************************************)
(* What a status without conditions lists, the applier wrote since the     *)
(* object was made or cleared: the controller writes conditions first.     *)
(***************************************************************************)
OnlyTheApplierIsUnset ==
  api.status.conditions = "none" /\ ~actuated => api.status.resource = NoEntry

LEMMA OnlyTheApplierStep ==
  ASSUME IInv, OnlyTheApplierIsUnset, [Next]_vars
  PROVE  OnlyTheApplierIsUnset'
<1>1. CASE UNCHANGED <<api, actuated>>
  BY <1>1 DEF OnlyTheApplierIsUnset
<1>2. ASSUME NEW obj, api' = obj, obj.status = EmptyStatus \/ obj.status.conditions # "none"
      PROVE  OnlyTheApplierIsUnset'
  BY <1>2, EmptyStatusFacts DEF OnlyTheApplierIsUnset
<1>3. ASSUME NEW a \in Actuations, Actuate(a) PROVE OnlyTheApplierIsUnset'
  BY <1>3 DEF Actuate, OnlyTheApplierIsUnset
<1>4. CASE ChangeSpec \/ Disable \/ Enable \/ Delete \/ Finalize
  <2>1. actuated' = actuated
    BY <1>4 DEF ChangeSpec, Disable, Enable, Delete, Finalize
  <2>2. api'.status = api.status \/ api' = NoObject
    BY <1>4
    DEF IInv, TypeOK, Objects, ChangeSpec, Disable, Enable, Delete, Finalize, Outside,
        WriteOutside, Write
  <2> QED BY <2>1, <2>2, NoObjectType, EmptyStatusFacts DEF OnlyTheApplierIsUnset
<1>5. CASE Create
  <2>1. api' = NewObject
    BY <1>5 DEF Create, Outside, WriteOutside, Write
  <2> QED BY <1>2, <2>1, NewObjectType
<1>6. CASE RootClear
  <2>1. CASE rootObj.status # EmptyStatus /\ rootFresh
    <3>1. api' = [api EXCEPT !.status = EmptyStatus]
      BY <1>6, <2>1 DEF RootClear, Write
    <3>2. api'.status = EmptyStatus
      BY <3>1, EmptyStatusType, WithStatus DEF IInv, TypeOK
    <3> QED BY <1>2, <3>2
  <2>2. CASE ~(rootObj.status # EmptyStatus /\ rootFresh)
    BY <1>1, <1>6, <2>2 DEF RootClear
  <2> QED BY <2>1, <2>2
<1>7. ASSUME NEW st \in Statuses, UpdateStatus(st), st.conditions # "none",
             ~rgFresh => actuated' = actuated
      PROVE  OnlyTheApplierIsUnset'
  <2>1. CASE rgFresh
    <3>1. api' = [api EXCEPT !.status = st]
      BY <1>7, <2>1 DEF UpdateStatus, Write
    <3>2. api'.status = st
      BY <3>1, WithStatus DEF IInv, TypeOK
    <3> QED BY <1>2, <1>7, <3>2
  <2>2. CASE ~rgFresh
    BY <1>1, <1>7, <2>2 DEF UpdateStatus
  <2> QED BY <2>1, <2>2
<1>8. CASE Start
  <2>1. StartingStatus \in Statuses /\ StartingStatus.conditions = "Reconciling"
    BY StartingStatusType DEF IInv
  <2>2. UpdateStatus(StartingStatus) /\ actuated' = actuated
    BY <1>8 DEF Start
  <2> QED BY <1>7, <2>1, <2>2
<1>9. CASE Publish
  <2>1. newStatus \in Statuses /\ newStatus.conditions # "none"
    BY <1>9 DEF Publish, IInv, TypeOK, LocalsOK, ComputedFrom
  <2>2. UpdateStatus(newStatus) /\ (~rgFresh => actuated' = actuated)
    BY <1>9 DEF Publish, IInv, TypeOK
  <2> QED BY <1>7, <2>1, <2>2
<1>10. ASSUME \/ Restart \/ Deliver \/ Relist \/ \E s \in Computed : ChangeResource(s)
              \/ RootReconcile \/ RootForget \/ RootReadDisabled \/ RootClearFails
              \/ Read \/ ReadGone \/ Finish \/ ExceedTimeout \/ UpdateFails \/ UNCHANGED vars
       PROVE  UNCHANGED <<api, actuated>>
  BY <1>10 DEF Restart, Deliver, Relist, ChangeResource, RootReconcile, RootForget,
               RootReadDisabled, RootClearFails, Read, ReadGone, Finish, ExceedTimeout,
               UpdateFails, outside, history, vars
<1> QED BY <1>1, <1>3, <1>4, <1>5, <1>6, <1>8, <1>9, <1>10 DEF Next

LEMMA OnlyTheApplier == Spec => []OnlyTheApplierIsUnset
<1>1. Init => OnlyTheApplierIsUnset
  BY NewObjectType, EmptyStatusFacts DEF Init, OnlyTheApplierIsUnset
<1>2. IInv /\ OnlyTheApplierIsUnset /\ [Next]_vars => OnlyTheApplierIsUnset'
  BY OnlyTheApplierStep
<1> QED BY <1>1, <1>2, Invariance, PTL DEF Spec

(***************************************************************************)
(* At rest a disabled group has nothing in its status but what the applier *)
(* added after Root had cleared it, and is not tracked: of the two writers *)
(* that may put conditions back, each one leaves an event that the filter  *)
(* lets through (root_controller.go:264).                                  *)
(***************************************************************************)
THEOREM RestIsCleared == Spec => []RestMeansCleared
<1>1. ASSUME IInv, OnlyTheApplierIsUnset, Quiet, api.disabled
      PROVE  /\ [api.status EXCEPT !.resource = NoEntry] = EmptyStatus
             /\ api.status.resource = NoEntry \/ actuated
             /\ ~tracked \/ dropped \/ replaced
  <2>1. WellFormed(api) /\ api.phase # "gone" /\ api.status \in Statuses
    BY <1>1, ObjectWellFormed, NoObjectType, ObjectFacts DEF IInv, TypeOK, WellFormed
  <2>2. api.status.conditions = "none"
    BY <1>1, RestFacts DEF IInv, ToClear, Quiet
  <2>3. [api.status EXCEPT !.resource = NoEntry] = EmptyStatus
    <3>1. api.status.observed = 0
      BY <2>1, <2>2 DEF WellFormed
    <3> QED BY <2>1, <2>2, <3>1 DEF Statuses, EmptyStatus
  <2>4. api.status.resource = NoEntry \/ actuated
    BY <1>1, <2>2 DEF OnlyTheApplierIsUnset
  <2>5. ~tracked \/ dropped \/ replaced
    BY <1>1, <2>1, <2>2, RestFacts DEF IInv, ToStart, Quiet, RootBusy, ControllerBusy
  <2> QED BY <2>3, <2>4, <2>5
<1>2. IInv /\ OnlyTheApplierIsUnset => RestMeansCleared
  BY <1>1 DEF RestMeansCleared
<1> QED BY <1>2, Invariance, OnlyTheApplier, PTL

(***************************************************************************)
(* At rest a group that is gone or being deleted is not tracked, unless it *)
(* has replaced another one unnoticed (root_controller.go:105-120).        *)
(***************************************************************************)
THEOREM RestIsForgotten == Spec => []RestMeansForgotten
<1>1. IInv => RestMeansForgotten
  BY RestFacts DEF IInv, RestMeansForgotten, ToForget, Quiet, RootBusy
<1> QED BY <1>1, Invariance, PTL

(***************************************************************************)
(* At rest an enabled group is tracked and its status is published, but    *)
(* for a vanished update, a removed annotation or an unnoticed replacement:*)
(* the filter (root_controller.go:246-288) never swallows the last reason  *)
(* to reconcile.                                                           *)
(***************************************************************************)
THEOREM RestIsPublished == Spec => []RestMeansPublished
<1>1. ASSUME IInv, Quiet, api.phase = "alive", ~api.disabled, ~StopsShort
      PROVE  /\ tracked
             /\ api.status.observed = api.generation
             /\ api.status.conditions = "Finished"
             /\ ~NeedsUpdate(api.status.resource)
             /\ StatusIsCurrent \/ actuated
  <2>1. cache = api /\ events = <<>> /\ Versions = {0} /\ Version(0) = api
        /\ ~rootPending /\ rootPc = "idle" /\ ~rgPending /\ rgPc = "idle"
        /\ ~dropped /\ ~reenabled /\ ~replaced
    BY <1>1, RestFacts DEF Quiet, StopsShort
  <2>2. tracked
    BY <1>1, <2>1 DEF IInv, ToTrack
  <2>3. ~(api.status.conditions \in {"none", "Reconciling"})
    BY <1>1, <2>1 DEF IInv, ToFinish, ControllerBusy
  <2>4. ~StalledTrue(api.status)
    BY <1>1, <2>1 DEF IInv, ToRetry, ControllerBusy
  <2>5. api.status.conditions = "Finished"
    <3>1. api.status.conditions \in ConditionPairs
      BY <1>1, ObjectFacts, StatusFacts DEF IInv, TypeOK
    <3> QED BY <2>3, <2>4, <3>1 DEF ConditionPairs, StalledTrue
  <2>6. api.status.observed = api.generation
    BY <1>1, <2>1, <2>5 DEF IInv, ToFinish, ControllerBusy
  <2>7. api.status.resource # NoEntry
    BY <1>1, <2>5, ObjectWellFormed DEF IInv, WellFormed
  <2>8. ~NeedsUpdate(api.status.resource)
    BY <1>1, <2>1, <2>5, <2>7 DEF IInv, ToRetry, ControllerBusy, ReconcilingTrue
  <2>9. StatusIsCurrent \/ actuated
    BY <1>1, <2>1, <2>2, <2>5 DEF IInv, ToCompute, ControllerBusy
  <2> QED BY <2>2, <2>5, <2>6, <2>8, <2>9
<1>2. IInv => RestMeansPublished
  BY <1>1 DEF RestMeansPublished
<1> QED BY <1>2, Invariance, PTL

(***************************************************************************)
(* What the controller writes is true of the object it replaces, although  *)
(* it comes from a copy that may be a whole reconcile old                  *)
(* (resourcegroup_controller.go:105-126).                                  *)
(***************************************************************************)
THEOREM WritesAreOfTheObject == Spec => WritesMatchObject
<1> DEFINE Matches ==
      /\ api.phase = "alive"
      /\ api'.status.observed \in {api.status.observed, api.generation}
      /\ api'.status.conditions \in {"Finished", "ComponentFailed"}
           => api'.status.observed = api.generation
      /\ api.status.resource # NoEntry
           => api'.status.resource = [api.status.resource EXCEPT !.status =
                                        api'.status.resource.status]
<1>1. ASSUME IInv, Start, api' # api PROVE Matches
  <2>1. rgPc = "read" /\ UpdateStatus(StartingStatus) /\ rgFresh
    BY <1>1 DEF Start, UpdateStatus
  <2>2. /\ StartingStatus \in Statuses /\ StartingStatus.conditions = "Reconciling"
        /\ StartingStatus.observed = rgObj.status.observed
        /\ StartingStatus.resource = rgObj.status.resource
    BY <1>1, StartingStatusType DEF IInv
  <2>3. rgObj = api /\ api.phase = "alive" /\ api'.status = StartingStatus
    BY <1>1, <2>1, <2>2, Written DEF Ended
  <2>4. api.status.resource # NoEntry =>
          api.status.resource = [api.status.resource EXCEPT !.status = api.status.resource.status]
    <3>1. api.status.resource \in ResourceStatus \cup {NoEntry}
      BY <1>1, ObjectFacts, StatusFacts DEF IInv, TypeOK
    <3> QED BY <3>1 DEF ResourceStatus
  <2> QED BY <2>2, <2>3, <2>4
<1>2. ASSUME IInv, Publish, api' # api PROVE Matches
  <2>1. rgPc = "computed" /\ UpdateStatus(newStatus) /\ rgFresh
    BY <1>2 DEF Publish, UpdateStatus
  <2>2. newStatus \in Statuses /\ ComputedFrom(rgObj, newStatus)
    BY <1>2, <2>1 DEF IInv, LocalsOK, TypeOK
  <2>3. rgObj = api /\ api.phase = "alive" /\ api'.status = newStatus
    BY <1>2, <2>1, <2>2, Written DEF ComputedFrom, Ended
  <2> QED BY <2>2, <2>3 DEF ComputedFrom, Ended
<1>3. IInv /\ [Next]_vars => [(Start \/ Publish) /\ api' # api => Matches]_vars
  BY <1>1, <1>2
<1> QED BY <1>3, Invariance, PTL DEF Spec, WritesMatchObject

-----------------------------------------------------------------------------
(* The controller implements StatusProtocol.                               *)

(***************************************************************************)
(* A reconcile that has begun knows that the copy it will write back says  *)
(* so, and after a timeout it has the generation observed before.          *)
(***************************************************************************)
HandsOver ==
  /\ rgPc \in {"started", "computed"} => rgObj.status.conditions = "Reconciling"
  /\ rgPc = "computed" /\ newStatus.conditions = "ExceedTimeout" =>
       newStatus.observed = rgObj.status.observed

LEMMA HandsOverStep ==
  ASSUME IInv, HandsOver, [Next]_vars
  PROVE  HandsOver'
<1>1. CASE UNCHANGED <<rgPc, rgObj, newStatus>>
  BY <1>1 DEF HandsOver
<1>2. CASE rgPc' \in {"idle", "read"}
  BY <1>2 DEF HandsOver
<1>3. CASE Start
  <2>1. rgPc' = "started" /\ rgObj' = [rgObj EXCEPT !.status = StartingStatus]
    BY <1>3 DEF Start
  <2>2. rgObj'.status = StartingStatus /\ StartingStatus.conditions = "Reconciling"
    BY <2>1, StartingStatusType, WithStatus DEF IInv, TypeOK
  <2> QED BY <2>1, <2>2 DEF HandsOver
<1>4. CASE Finish
  <2>1. rgPc = "started" /\ rgObj' = rgObj
        /\ newStatus'.conditions \in {"Finished", "ComponentFailed"}
    BY <1>4 DEF Finish, Aggregated
  <2> QED BY <2>1 DEF HandsOver
<1>5. CASE ExceedTimeout
  <2>1. rgPc = "started" /\ rgObj' = rgObj /\ newStatus'.observed = rgObj.status.observed
    BY <1>5 DEF ExceedTimeout
  <2> QED BY <2>1 DEF HandsOver
<1>6. ASSUME ChangeSpec \/ Disable \/ Enable \/ Delete \/ Finalize \/ Create
             \/ \E a \in Actuations : Actuate(a)
      PROVE  UNCHANGED <<rgPc, rgObj, newStatus>>
  BY <1>6 DEF ChangeSpec, Disable, Enable, Delete, Finalize, Create, Actuate, Outside, WriteOutside
<1>7. ASSUME Deliver \/ Relist \/ RootReconcile \/ RootForget \/ RootReadDisabled \/ RootClear
             \/ RootClearFails \/ ReadGone \/ \E s \in Computed : ChangeResource(s)
      PROVE  UNCHANGED <<rgPc, rgObj, newStatus>>
  BY <1>7 DEF Deliver, Relist, RootReconcile, RootForget, RootReadDisabled, RootClear,
              RootClearFails, ReadGone, ChangeResource, rg
<1>8. ASSUME Restart \/ Read \/ Publish \/ UpdateFails PROVE rgPc' \in {"idle", "read"}
  BY <1>8 DEF Restart, Read, Publish, UpdateFails, ControllerReturns
<1>9. ASSUME UNCHANGED vars PROVE UNCHANGED <<rgPc, rgObj, newStatus>>
  BY <1>9 DEF vars, rg
<1> QED BY <1>1, <1>2, <1>3, <1>4, <1>5, <1>6, <1>7, <1>8, <1>9 DEF Next

LEMMA HandsOverAlways == Spec => []HandsOver
<1>1. Init => HandsOver
  BY DEF Init, HandsOver
<1>2. IInv /\ HandsOver /\ [Next]_vars => HandsOver'
  BY HandsOverStep
<1> QED BY <1>1, <1>2, Invariance, PTL DEF Spec

\* A write that is accepted is seen as one of these steps, whoever makes it.
LEMMA SeenWrite ==
  ASSUME TypeOK, NEW st, st \in Statuses, api' = [api EXCEPT !.status = st]
  PROVE  /\ api'.generation = api.generation
         /\ api'.status.observed = st.observed
         /\ api'.status.conditions = st.conditions
BY WithStatus DEF TypeOK

\* What happens outside of the program.
LEMMA OutsideSeen ==
  ASSUME IInv,
         ChangeSpec \/ Disable \/ Enable \/ Delete \/ Finalize \/ Create
           \/ \E a \in Actuations : Actuate(a)
  PROVE  Protocol!Edit \/ Protocol!Remove \/ UNCHANGED Protocol!vars
<1> USE DEF Protocol!vars
<1>1. api \in Objects /\ api.generation \in Nat /\ api.status \in Statuses
  BY ObjectFacts DEF IInv, TypeOK
<1>2. ASSUME api' = [api EXCEPT !.generation = @ + 1] PROVE Protocol!Edit
  BY <1>1, <1>2 DEF Protocol!Edit, Objects
<1>3. ASSUME api' = [api EXCEPT !.phase = "deleting", !.generation = @ + 1] PROVE Protocol!Edit
  BY <1>1, <1>3 DEF Protocol!Edit, Objects
<1>4. ASSUME api' = NoObject \/ api' = NewObject PROVE Protocol!Remove
  BY <1>4, NoObjectType, NewObjectType, EmptyStatusFacts DEF Protocol!Remove
<1>5. ASSUME NEW b \in BOOLEAN, api' = [api EXCEPT !.disabled = b] PROVE UNCHANGED Protocol!vars
  BY <1>1, <1>5 DEF Objects
<1>6. ASSUME NEW a \in Actuations, Actuate(a) PROVE UNCHANGED Protocol!vars
  <2>1. PICK st \in Statuses :
          /\ st.observed = api.status.observed /\ st.conditions = api.status.conditions
          /\ Outside([api EXCEPT !.status = st])
    BY <1>6, Actuated DEF IInv
  <2>2. api' = [api EXCEPT !.status = st]
    BY <2>1 DEF Outside, WriteOutside, Write
  <2>3. api'.generation = api.generation /\ api'.status = st
    BY <1>1, <2>2, WithStatus
  <2> QED BY <2>1, <2>3
<1>7. CASE ChangeSpec
  BY <1>2, <1>7 DEF ChangeSpec, Outside, WriteOutside, Write
<1>8. CASE Disable \/ Enable
  BY <1>5, <1>8 DEF Disable, Enable, Outside, WriteOutside, Write
<1>9. CASE Delete \/ Finalize
  BY <1>3, <1>4, <1>9 DEF Delete, Finalize, Outside, WriteOutside, Write
<1>10. CASE Create
  BY <1>4, <1>10 DEF Create, Outside, WriteOutside, Write
<1> HIDE DEF Protocol!vars
<1> QED BY <1>6, <1>7, <1>8, <1>9, <1>10

\* What the two controllers write: the copies they write back are the object.
LEMMA RootClearSeen ==
  ASSUME IInv, RootClear
  PROVE  Protocol!Clear \/ UNCHANGED Protocol!vars
<1>1. CASE api' = [api EXCEPT !.status = EmptyStatus]
  BY <1>1, SeenWrite, EmptyStatusType, EmptyStatusFacts DEF IInv, Protocol!Clear
<1>2. CASE api' = api
  BY <1>2 DEF Protocol!vars
<1> QED BY <1>1, <1>2 DEF RootClear, Write

LEMMA StartSeen ==
  ASSUME IInv, Start
  PROVE  Protocol!Begin \/ UNCHANGED Protocol!vars
<1>1. CASE rgFresh
  <2>1. rgPc = "read" /\ rgObj = api /\ api' = [api EXCEPT !.status = StartingStatus]
    BY <1>1 DEF IInv, TypeOK, Start, UpdateStatus, Write
  <2>2. /\ StartingStatus \in Statuses /\ StartingStatus.conditions = "Reconciling"
        /\ StartingStatus.observed = api.status.observed
    BY <2>1, StartingStatusType DEF IInv
  <2> QED BY <2>1, <2>2, SeenWrite DEF IInv, Protocol!Begin
<1>2. CASE ~rgFresh
  BY <1>2 DEF Start, UpdateStatus, Protocol!vars
<1> QED BY <1>1, <1>2

LEMMA PublishSeen ==
  ASSUME IInv, HandsOver, Publish
  PROVE  Protocol!End \/ Protocol!TimeOut \/ UNCHANGED Protocol!vars
<1>1. CASE rgFresh
  <2>1. rgPc = "computed" /\ rgObj = api /\ api' = [api EXCEPT !.status = newStatus]
    BY <1>1 DEF IInv, TypeOK, Publish, UpdateStatus, Write
  <2>2. /\ api'.generation = api.generation
        /\ api'.status.observed = newStatus.observed
        /\ api'.status.conditions = newStatus.conditions
    BY <2>1, SeenWrite DEF IInv, TypeOK
  <2>3. ComputedFrom(api, newStatus)
    BY <2>1 DEF IInv, LocalsOK
  <2>4. api.status.conditions = "Reconciling"
        /\ (newStatus.conditions = "ExceedTimeout" => newStatus.observed = api.status.observed)
    BY <2>1 DEF HandsOver
  <2>5. CASE Ended(newStatus)
    BY <2>2, <2>3, <2>4, <2>5 DEF ComputedFrom, Ended, Protocol!End
  <2>6. CASE newStatus.conditions = "ExceedTimeout"
    BY <2>2, <2>4, <2>6 DEF Protocol!TimeOut
  <2> QED BY <2>3, <2>5, <2>6 DEF ComputedFrom, Ended
<1>2. CASE ~rgFresh
  BY <1>2 DEF Publish, UpdateStatus, Protocol!vars
<1> QED BY <1>1, <1>2

LEMMA OthersUnseen ==
  ASSUME \/ Restart \/ Deliver \/ Relist \/ \E s \in Computed : ChangeResource(s)
         \/ RootReconcile \/ RootForget \/ RootReadDisabled \/ RootClearFails
         \/ Read \/ ReadGone \/ Finish \/ ExceedTimeout \/ UpdateFails \/ UNCHANGED vars
  PROVE  UNCHANGED Protocol!vars
<1>1. api' = api
  BY DEF Restart, Deliver, Relist, ChangeResource, RootReconcile, RootForget, RootReadDisabled,
         RootClearFails, Read, ReadGone, Finish, ExceedTimeout, UpdateFails, outside, vars
<1> QED BY <1>1 DEF Protocol!vars

(***************************************************************************)
(* The group that a reader sees follows StatusProtocol: although each      *)
(* reconcile writes back a copy that it has read before, past conflicts,   *)
(* deletions and Root, it ends only on the object and for the generation   *)
(* that it has begun with (resourcegroup_controller.go:118-126,            *)
(* root_controller.go:158-169).                                            *)
(***************************************************************************)
THEOREM Refinement == Spec => ImplementsProtocol
<1>1. Init => Protocol!Init
  BY NewObjectType, EmptyStatusFacts DEF Init, Protocol!Init
<1>2. IInv /\ HandsOver /\ [Next]_vars => [Protocol!Next]_(Protocol!vars)
  <2> SUFFICES ASSUME IInv, HandsOver, [Next]_vars
               PROVE  Protocol!Next \/ UNCHANGED Protocol!vars
    OBVIOUS
  <2> QED BY OutsideSeen, RootClearSeen, StartSeen, PublishSeen, OthersUnseen
          DEF Next, Protocol!Next
<1> QED BY <1>1, <1>2, Invariance, HandsOverAlways, PTL
     DEF Spec, ImplementsProtocol, Protocol!Spec

=============================================================================
