------------------------- MODULE StatusCacheProofs -------------------------
(***************************************************************************)
(* For any groups, resources, watchers, goroutines and number of changes:  *)
(* at rest what is published is current, but for the exceptions that the   *)
(* property names, and the status cached of a resource that no group       *)
(* includes was cached too late by a watcher or by a computing goroutine.  *)
(*                                                                         *)
(* The first needs to know, while the program is not at rest, where the    *)
(* last status of each object is on its way to the cache, and where each   *)
(* group is on its way to being published.                                 *)
(***************************************************************************)
EXTENDS StatusCache, TLAPS

-----------------------------------------------------------------------------
(* What the operations of the index do to one resource.                    *)

LEMMA CacheStatusEffect ==
  ASSUME NEW r, NEW s, CacheStatus(r, s)
  PROVE  /\ \A q : Included(q)' <=> Included(q)
         /\ Cached(r)' = s
         /\ \A q : q # r => Cached(q)' = Cached(q)
BY DEF CacheStatus, Included, GroupsOf, Cached, Put

(***************************************************************************)
(* A status that is still cached was cached before.                        *)
(***************************************************************************)
LEMMA ForgettingCachesNothing ==
  ASSUME NEW R, cache' = DropAll(cache, R), NEW q, Cached(q)' # NoStatus
  PROVE  Cached(q)' = Cached(q) /\ q \notin R
BY DEF DropAll, Cached

(***************************************************************************)
(* A resource that the last group lets go loses its status.                *)
(***************************************************************************)
LEMMA SetMembersForgets ==
  ASSUME NEW g, NEW R, SetMembers(g, R), NEW q, Included(q), ~Included(q)'
  PROVE  Cached(q)' = NoStatus
<1>1. PICK h \in DOMAIN members : q \in members[h]
  BY DEF Included, GroupsOf
<1>2. \A k \in DOMAIN members \cup {g} : q \notin (IF k = g THEN R ELSE members[k])
  BY DEF SetMembers, Put, Included, GroupsOf
<1>3. q \notin R /\ q \notin HeldByOthers(g) /\ h = g
  BY <1>1, <1>2 DEF HeldByOthers
<1>4. q \in Members(g)
  BY <1>1, <1>3 DEF Members
<1>5. q \in (Members(g) \ R) \ HeldByOthers(g)
  BY <1>3, <1>4
<1> QED BY <1>5, ForgettingCachesNothing DEF SetMembers

LEMMA DeleteGroupForgets ==
  ASSUME NEW g, DeleteGroup(g), NEW q, Included(q), ~Included(q)'
  PROVE  Cached(q)' = NoStatus
<1>1. PICK h \in DOMAIN members : q \in members[h]
  BY DEF Included, GroupsOf
<1>2. \A k \in DOMAIN members \ {g} : q \notin members[k]
  BY DEF DeleteGroup, Drop, DropAll, Included, GroupsOf
<1>3. q \notin HeldByOthers(g) /\ h = g
  BY <1>1, <1>2 DEF HeldByOthers
<1>4. q \in Members(g) \ HeldByOthers(g)
  BY <1>1, <1>3 DEF Members
<1> QED BY <1>4, ForgettingCachesNothing DEF DeleteGroup

-----------------------------------------------------------------------------
(* The steps that write the cache, the membership, or dirty.               *)

LEMMA CacheKeeps ==
  ASSUME LeftoversAreDirty, NEW h \in Handlers, Cache(h)
  PROVE  LeftoversAreDirty'
<1> DEFINE r == handler[h].res
           s == handler[h].status
<1>1. CacheStatus(r, s)
  BY DEF Cache
<1>2. /\ Included(r) \/ r \in dirty'
      /\ \A q : q # r /\ q \in dirty => q \in dirty'
  BY DEF Cache
<1> HIDE DEF r, s
<1>3. \A q : Included(q)' <=> Included(q)
  BY <1>1, CacheStatusEffect
<1>4. \A q : q # r => Cached(q)' = Cached(q)
  BY <1>1, CacheStatusEffect
<1> QED BY <1>2, <1>3, <1>4 DEF LeftoversAreDirty

LEMMA StoreKeeps ==
  ASSUME LeftoversAreDirty, NEW c \in Computers, Store(c)
  PROVE  LeftoversAreDirty'
<1> DEFINE r == computer[c].res
           s == computer[c].status
<1>1. CacheStatus(r, s)
  BY DEF Store
<1>2. /\ Included(r) \/ r \in dirty'
      /\ dirty \subseteq dirty'
  BY DEF Store
<1> HIDE DEF r, s
<1>3. \A q : Included(q)' <=> Included(q)
  BY <1>1, CacheStatusEffect
<1>4. \A q : q # r => Cached(q)' = Cached(q)
  BY <1>1, CacheStatusEffect
<1> QED BY <1>2, <1>3, <1>4 DEF LeftoversAreDirty

LEMMA ResetKeeps ==
  ASSUME LeftoversAreDirty, NEW r \in Resources, ResetStatus(r)
  PROVE  LeftoversAreDirty'
<1>1. CacheStatus(r, NoStatus) /\ dirty' = dirty \ {r}
  BY DEF ResetStatus
<1>2. /\ \A q : Included(q)' <=> Included(q)
      /\ Cached(r)' = NoStatus
      /\ \A q : q # r => Cached(q)' = Cached(q)
  BY <1>1, CacheStatusEffect
<1> QED BY <1>1, <1>2 DEF LeftoversAreDirty

LEMMA ReconcileKeeps ==
  ASSUME LeftoversAreDirty, NEW g \in ResourceGroups, Reconcile(g)
  PROVE  LeftoversAreDirty'
<1>1. DeleteGroup(g) \/ SetMembers(g, spec[g])
  BY DEF Reconcile
<1>2. \A q \in Resources : q \in dirty /\ ~(Included(q) /\ ~Included(q)') => q \in dirty'
  BY DEF Reconcile
<1>3. PICK R : cache' = DropAll(cache, R)
  BY <1>1 DEF DeleteGroup, SetMembers
<1>4. ASSUME NEW q \in Resources, ~Included(q)', Cached(q)' # NoStatus
      PROVE  q \in dirty'
  <2>1. Cached(q) # NoStatus
    BY <1>3, <1>4, ForgettingCachesNothing
  <2>2. ~Included(q)
    BY <1>1, <1>4, DeleteGroupForgets, SetMembersForgets
  <2> QED BY <1>2, <2>1, <2>2 DEF LeftoversAreDirty
<1> QED BY <1>4 DEF LeftoversAreDirty

LEMMA OthersKeep ==
  ASSUME LeftoversAreDirty, UNCHANGED <<members, cache, dirty>>
  PROVE  LeftoversAreDirty'
BY DEF LeftoversAreDirty, Included, GroupsOf, Cached

(***************************************************************************)
(* The statuses left in ResourceMap when their last group is gone are      *)
(* those that a watcher (filteredwatcher.go:314) or a computing goroutine  *)
(* (resourcegroup_controller.go:325) has cached too late.                  *)
(***************************************************************************)
THEOREM Leftovers == Spec => []LeftoversAreDirty
<1>1. Init => LeftoversAreDirty
  BY DEF Init, IndexInit, EmptyMap, LeftoversAreDirty, Cached
<1>2. LeftoversAreDirty /\ [Next]_vars => LeftoversAreDirty'
  <2> SUFFICES ASSUME LeftoversAreDirty, [Next]_vars PROVE LeftoversAreDirty'
    OBVIOUS
  <2>1. CASE \E r \in Resources, s \in Statuses : ChangeObject(r, s)
    BY <2>1, OthersKeep DEF ChangeObject, ivars
  <2>2. CASE \E g \in ResourceGroups, R \in (SUBSET Resources) \cup {None} : ChangeSpec(g, R)
    BY <2>2, OthersKeep DEF ChangeSpec, ivars
  <2>3. CASE Expire \/ Die \/ CRDEvent \/ NotifyReset \/ WatchFails \/ Watch
    BY <2>3, OthersKeep DEF Expire, Die, CRDEvent, NotifyReset, WatchFails, Watch, ivars
  <2>4. CASE \E r \in Resources : Receive(r)
    BY <2>4, OthersKeep DEF Receive, ivars
  <2>5. CASE \E r \in Resources : ResetStatus(r)
    BY <2>5, ResetKeeps
  <2>6. CASE \E h \in Handlers : Cache(h)
    BY <2>6, CacheKeeps
  <2>7. CASE \E h \in Handlers : Notify(h)
    BY <2>7, OthersKeep DEF Notify, ivars
  <2>8. CASE \E g \in ResourceGroups : Reconcile(g)
    BY <2>8, ReconcileKeeps
  <2>9. CASE \E g \in ResourceGroups, c \in Computers : Begin(c, g)
    BY <2>9, OthersKeep DEF Begin, ivars
  <2>10. CASE \E c \in Computers : Fetch(c) \/ FetchFails(c) \/ Publish(c) \/ Abandon(c)
    BY <2>10, OthersKeep DEF Fetch, FetchFails, Publish, Abandon, ivars
  <2>11. CASE \E c \in Computers : Store(c)
    BY <2>11, StoreKeeps
  <2>12. CASE \E c \in Computers, r \in Resources : Lookup(c, r)
    BY <2>12, OthersKeep DEF Lookup, ivars
  <2>13. CASE UNCHANGED vars
    BY <2>13, OthersKeep DEF vars, ivars
  <2> QED BY <2>1, <2>2, <2>3, <2>4, <2>5, <2>6, <2>7, <2>8, <2>9, <2>10, <2>11, <2>12, <2>13
          DEF Next
<1> QED BY <1>1, <1>2, PTL DEF Spec

-----------------------------------------------------------------------------
(* The types that the proofs need: TypeOK does not give the whole of the   *)
(* streams and of what the goroutines have.                                *)

Works == [pc : {"free", "next", "missing", "fetched"}, group : ResourceGroups \cup {None},
          todo : SUBSET Resources, res : Resources \cup {None}, status : Statuses \cup {NoStatus},
          found : Maps(Resources, Statuses \cup {Unknown}), raced : BOOLEAN, abandoned : BOOLEAN]
WorkOK(w) ==
  /\ w.pc = "free" => w = Free
  /\ w.pc # "free" => w.group \in ResourceGroups
  /\ w.pc \in {"missing", "fetched"} => w.res \in w.todo
  /\ w.pc = "fetched" => w.status \in Statuses

Types ==
  /\ TypeOK
  /\ stream \in [Resources -> Seq(Statuses)]
  /\ computer \in [Computers -> Works]
  /\ \A c \in Computers : WorkOK(computer[c])

-----------------------------------------------------------------------------
(* Where the last status of an object is.                                  *)

\* The members of a group that Root has not to look at are those of its CR.
MembersFollow ==
  \A g \in ResourceGroups : g \notin rootPending =>
    IF spec[g] = None THEN g \notin DOMAIN members
    ELSE g \in DOMAIN members /\ members[g] = spec[g]

\* The watcher that is in the watch manager has read an event of r.
Handled(r) == handler[watcher].phase = "checked" /\ handler[watcher].res = r

\* The watcher has not cached the last status of r, or there will be another.
Coming(r) ==
  IF watcher = None THEN object[r] # NotFound ELSE stream[r] # <<>> \/ Handled(r)

\* The last event is of the object as it is.
LastEventIsCurrent ==
  watcher # None => \A r \in Resources :
    /\ stream[r] # <<>> => stream[r][Len(stream[r])] = object[r]
    /\ stream[r] = <<>> /\ Handled(r) => handler[watcher].status = object[r]

CacheIsCurrent ==
  \A r \in Resources : Included(r) /\ r \notin dirty \cup lost /\ ~Coming(r) =>
    Cached(r) \in {NoStatus, object[r]}

\* A goroutine that is not too late has read the object as it is.
FetchedIsCurrent ==
  \A c \in Computers, r \in Resources :
    /\ computer[c].pc = "fetched" /\ ~computer[c].raced /\ computer[c].res = r
    /\ Included(r) /\ r \notin lost /\ ~Coming(r)
    => computer[c].status = object[r]

-----------------------------------------------------------------------------
(* Where the reasons to publish a status are.                              *)

Pending(g) == g \in rgPending \/ g \in rootPending \/ root = g

\* The groups of r will be sent to the ResourceGroup controller.
Told(r) ==
  \/ Coming(r)
  \/ \E h \in Handlers : handler[h].phase = "cached" /\ handler[h].res = r
  \/ crdReset = r

Correct(statuses, r) == r \in DOMAIN statuses /\ statuses[r] \in {object[r], Unknown}

\* The goroutine whose results will be published for g.
WorksFor(c, g) ==
  computer[c].pc # "free" /\ ~computer[c].abandoned /\ computer[c].group = g

\* What is published, or will be, says of r what its object is.
Shown(g, r) ==
  IF \E c \in Computers : WorksFor(c, g)
  THEN \A c \in Computers :
         WorksFor(c, g) => r \in computer[c].todo \/ Correct(computer[c].found, r)
  ELSE Correct(published[g], r)

PublishedOrPending ==
  \A g \in ResourceGroups : spec[g] # None =>
    \A r \in spec[g] \ (dirty \cup lost) : Pending(g) \/ Told(r) \/ Shown(g, r)

IInv ==
  /\ Types
  /\ MembersFollow
  /\ LeftoversAreDirty
  /\ LastEventIsCurrent
  /\ CacheIsCurrent
  /\ FetchedIsCurrent
  /\ PublishedOrPending

-----------------------------------------------------------------------------
(* Maps, and what the goroutines have.                                     *)

LEMMA PutInMaps ==
  ASSUME NEW K, NEW V, NEW m \in Maps(K, V), NEW k \in K, NEW v \in V
  PROVE  Put(m, k, v) \in Maps(K, V)
<1>1. PICK D \in SUBSET K : m \in [D -> V]
  BY DEF Maps
<1>2. Put(m, k, v) \in [D \cup {k} -> V]
  BY <1>1 DEF Put
<1>3. D \cup {k} \in SUBSET K
  BY <1>1
<1> QED BY <1>2, <1>3 DEF Maps

LEMMA DropAllInMaps ==
  ASSUME NEW K, NEW V, NEW m \in Maps(K, V), NEW R
  PROVE  DropAll(m, R) \in Maps(K, V)
<1>1. PICK D \in SUBSET K : m \in [D -> V]
  BY DEF Maps
<1>2. DropAll(m, R) \in [D \ R -> V]
  BY <1>1 DEF DropAll
<1>3. D \ R \in SUBSET K
  BY <1>1
<1> QED BY <1>2, <1>3 DEF Maps

LEMMA EmptyMapInMaps ==
  ASSUME NEW K, NEW V
  PROVE  EmptyMap \in Maps(K, V)
<1>1. EmptyMap \in [{} -> V] /\ {} \in SUBSET K
  BY DEF EmptyMap
<1> QED BY <1>1 DEF Maps

LEMMA WorkFacts ==
  ASSUME NEW w \in Works, WorkOK(w)
  PROVE  /\ w = Free \/ (/\ w.pc \in {"next", "missing", "fetched"}
                         /\ w.group \in ResourceGroups /\ w.todo \in SUBSET Resources
                         /\ w.found \in Maps(Resources, Statuses \cup {Unknown}))
         /\ w.pc = "free" <=> w = Free
BY DEF Works, WorkOK, Free

LEMMA FreeFacts ==
  /\ Free \in Works /\ WorkOK(Free)
  /\ Free.pc = "free" /\ Free.todo = {} /\ ~Free.abandoned /\ ~Free.raced
BY EmptyMapInMaps DEF Free, Works, WorkOK

\* The goroutines that are too late are the same otherwise.
SameWork(w, v) ==
  /\ v.pc = w.pc /\ v.group = w.group /\ v.todo = w.todo /\ v.res = w.res
  /\ v.status = w.status /\ v.found = w.found /\ v.abandoned = w.abandoned

LEMMA RaceFacts ==
  ASSUME Types, NEW R
  PROVE  /\ Race(R) \in [Computers -> Works]
         /\ \A c \in Computers :
              /\ WorkOK(Race(R)[c])
              /\ SameWork(computer[c], Race(R)[c])
              /\ Race(R)[c].raced = (computer[c].raced \/ (computer[c].pc = "fetched" /\ computer[c].res \in R))
<1> SUFFICES ASSUME NEW c \in Computers
             PROVE  /\ Race(R)[c] \in Works
                    /\ WorkOK(Race(R)[c])
                    /\ SameWork(computer[c], Race(R)[c])
                    /\ Race(R)[c].raced =
                         (computer[c].raced \/ (computer[c].pc = "fetched" /\ computer[c].res \in R))
  BY DEF Race
<1>1. computer[c] \in Works /\ WorkOK(computer[c])
  BY DEF Types
<1>2. CASE computer[c].pc = "fetched" /\ computer[c].res \in R
  <2>1. Race(R)[c] = [computer[c] EXCEPT !.raced = TRUE]
    BY <1>2 DEF Race
  <2> QED BY <1>1, <1>2, <2>1 DEF Works, WorkOK, SameWork
<1>3. CASE ~(computer[c].pc = "fetched" /\ computer[c].res \in R)
  <2>1. Race(R)[c] = computer[c]
    BY <1>3 DEF Race
  <2>2. computer[c].raced \in BOOLEAN
    BY <1>1 DEF Works
  <2> QED BY <1>1, <1>3, <2>1, <2>2 DEF SameWork
<1> QED BY <1>2, <1>3

\* The goroutine that goes on to the next resource.
LEMMA FoundFacts ==
  ASSUME Types, NEW c \in Computers, NEW q \in Resources, NEW s \in Statuses \cup {Unknown},
         computer[c].pc # "free"
  PROVE  LET w == Found(c, q, s)[c]
         IN /\ w \in Works /\ WorkOK(w)
            /\ w.pc = "next" /\ w.group = computer[c].group
            /\ w.abandoned = computer[c].abandoned /\ w.todo = computer[c].todo \ {q}
            /\ ~computer[c].abandoned => w.found = Put(computer[c].found, q, s)
            /\ Found(c, q, s) = [computer EXCEPT ![c] = w]
<1> DEFINE w == Found(c, q, s)[c]
           f == IF computer[c].abandoned THEN computer[c].found ELSE Put(computer[c].found, q, s)
<1>1. computer[c] \in Works /\ WorkOK(computer[c]) /\ computer \in [Computers -> Works]
  BY DEF Types
<1>2. f \in Maps(Resources, Statuses \cup {Unknown})
  BY <1>1, PutInMaps DEF Works
<1> HIDE DEF f
<1>3. w = [computer[c] EXCEPT !.pc = "next", !.res = None, !.status = NoStatus, !.raced = FALSE,
                              !.todo = computer[c].todo \ {q}, !.found = f]
  <2> DEFINE v == [computer[c] EXCEPT !.pc = "next", !.res = None, !.status = NoStatus,
                                      !.raced = FALSE, !.todo = computer[c].todo \ {q},
                                      !.found = f]
  <2>1. Found(c, q, s) = [computer EXCEPT ![c] = v]
    BY DEF Found, f
  <2> HIDE DEF v
  <2>2. Found(c, q, s)[c] = v
    BY <1>1, <2>1
  <2> QED BY <2>2 DEF v
<1>4. w = [pc |-> "next", group |-> computer[c].group, todo |-> computer[c].todo \ {q},
           res |-> None, status |-> NoStatus, found |-> f, raced |-> FALSE,
           abandoned |-> computer[c].abandoned]
  BY <1>1, <1>3 DEF Works
<1>5. Found(c, q, s) = [computer EXCEPT ![c] = w]
  BY <1>1 DEF Found
<1> HIDE DEF w
<1>6. /\ w.pc = "next" /\ w.group = computer[c].group /\ w.abandoned = computer[c].abandoned
      /\ w.todo = computer[c].todo \ {q} /\ w.found = f
  BY <1>4
<1>7. w \in Works
  BY <1>1, <1>2, <1>4 DEF Works
<1>8. WorkOK(w)
  BY <1>1, <1>6 DEF WorkOK
<1> QED BY <1>5, <1>6, <1>7, <1>8 DEF f, w

-----------------------------------------------------------------------------
(* Consequences of the invariant, and what most steps leave as it is.      *)

\* A group that includes a resource, or Root has to look at it.
LEMMA Listed ==
  ASSUME MembersFollow, NEW g \in ResourceGroups, spec[g] # None, NEW r \in spec[g],
         g \notin rootPending
  PROVE  g \in GroupsOf(r) /\ Included(r)
BY DEF MembersFollow, GroupsOf, Included

LEMMA SeenKeeps ==
  ASSUME UNCHANGED <<object, watcher, stream, handler>>
  PROVE  /\ \A r : Coming(r)' = Coming(r)
         /\ LastEventIsCurrent => LastEventIsCurrent'
         /\ UNCHANGED <<members, cache, dirty, lost>> /\ CacheIsCurrent => CacheIsCurrent'
<1>1. \A r : Coming(r)' = Coming(r) /\ Handled(r)' = Handled(r)
  BY DEF Coming, Handled
<1>2. LastEventIsCurrent => LastEventIsCurrent'
  BY <1>1 DEF LastEventIsCurrent
<1>3. ASSUME UNCHANGED <<members, cache, dirty, lost>>, CacheIsCurrent PROVE CacheIsCurrent'
  <2>1. \A r : Included(r)' = Included(r) /\ Cached(r)' = Cached(r)
    BY <1>3 DEF Included, GroupsOf, Cached
  <2> QED BY <1>1, <1>3, <2>1 DEF CacheIsCurrent
<1> QED BY <1>1, <1>2, <1>3

LEMMA ShownKeeps ==
  ASSUME NEW g, NEW r, Shown(g, r), object'[r] = object[r], published'[g] = published[g],
         \A c \in Computers : SameWork(computer[c], computer'[c])
  PROVE  Shown(g, r)'
<1>1. \A c \in Computers : WorksFor(c, g)' <=> WorksFor(c, g)
  BY DEF WorksFor, SameWork
<1> QED BY <1>1 DEF Shown, SameWork, Correct

\* A goroutine has found the status of q.
LEMMA ShownFound ==
  ASSUME Types, NEW c \in Computers, NEW q \in Resources, NEW s \in Statuses \cup {Unknown},
         computer[c].pc # "free", computer'[c] = Found(c, q, s)[c],
         \A d \in Computers \ {c} : SameWork(computer[d], computer'[d]),
         object' = object, published' = published,
         NEW g, NEW r, Shown(g, r), r # q \/ s \in {object[r], Unknown}
  PROVE  Shown(g, r)'
<1>1. /\ computer'[c].pc = "next" /\ computer'[c].group = computer[c].group
      /\ computer'[c].abandoned = computer[c].abandoned
      /\ computer'[c].todo = computer[c].todo \ {q}
      /\ ~computer[c].abandoned => computer'[c].found = Put(computer[c].found, q, s)
  BY FoundFacts
<1>2. \A d \in Computers : WorksFor(d, g)' <=> WorksFor(d, g)
  BY <1>1 DEF WorksFor, SameWork
<1>3. ASSUME WorksFor(c, g), r \in computer[c].todo \/ Correct(computer[c].found, r)
      PROVE  r \in computer'[c].todo \/ Correct(computer[c].found, r)'
  BY <1>1, <1>3 DEF WorksFor, Correct, Put
<1>4. ASSUME NEW d \in Computers \ {c}, r \in computer[d].todo \/ Correct(computer[d].found, r)
      PROVE  r \in computer'[d].todo \/ Correct(computer[d].found, r)'
  BY <1>4 DEF SameWork, Correct
<1>5. Correct(published[g], r) => Correct(published[g], r)'
  BY DEF Correct
<1> QED BY <1>2, <1>3, <1>4, <1>5 DEF Shown

-----------------------------------------------------------------------------
(* The steps outside.                                                      *)

LEMMA TypesFacts ==
  ASSUME Types
  PROVE  /\ \A r \in Resources : stream[r] \in Seq(Statuses) /\ object[r] \in Statuses
         /\ \A c \in Computers : computer[c] \in Works /\ WorkOK(computer[c])
         /\ \A h \in Handlers : handler[h].phase # "idle" =>
              handler[h].res \in Resources /\ handler[h].status \in Statuses
BY DEF Types, TypeOK, Idle

LEMMA ChangeObjectIInv ==
  ASSUME IInv, NEW q \in Resources, NEW s \in Statuses, ChangeObject(q, s)
  PROVE  IInv'
<1>1. /\ Types /\ changes < MaxChanges /\ changes' = changes + 1
      /\ object' = [object EXCEPT ![q] = s]
      /\ stream' = IF watcher = None THEN stream ELSE [stream EXCEPT ![q] = Append(@, s)]
      /\ lost' = IF s = NotFound /\ watcher = None THEN lost \cup {q} ELSE lost \ {q}
      /\ UNCHANGED <<members, cache, spec, watcher, handler, rootPending, root, crdTodo, crdReset,
                     rgPending, computer, published, dirty>>
  BY DEF IInv, ChangeObject, ivars, controllers, rg
<1>2. /\ changes' \in 0..MaxChanges /\ object' \in [Resources -> Statuses]
      /\ stream' \in [Resources -> Seq(Statuses)]
      /\ watcher = None => \A r \in Resources : stream'[r] = <<>>
  BY <1>1, MaxChangesAssumption DEF Types, TypeOK
<1>3. Types'
  BY <1>1, <1>2 DEF Types, TypeOK
<1>4. \A r \in Resources \ {q} :
        /\ object'[r] = object[r] /\ stream'[r] = stream[r] /\ (r \in lost' <=> r \in lost)
        /\ Coming(r)' = Coming(r) /\ Handled(r)' = Handled(r)
  BY <1>1 DEF Types, TypeOK, Coming, Handled
<1>5. /\ object'[q] = s
      /\ watcher # None => stream'[q] # <<>> /\ stream'[q][Len(stream'[q])] = s
      /\ Coming(q)' \/ q \in lost'
  <2>1. object'[q] = s
    BY <1>1 DEF Types, TypeOK
  <2>2. CASE watcher = None
    BY <1>1, <2>1, <2>2 DEF Coming
  <2>3. CASE watcher # None
    <3>1. stream'[q] = Append(stream[q], s) /\ stream[q] \in Seq(Statuses)
      BY <1>1, <2>3 DEF Types
    <3>2. stream'[q] # <<>> /\ stream'[q][Len(stream'[q])] = s
      BY <3>1
    <3> QED BY <1>1, <2>1, <2>3, <3>2 DEF Coming
  <2> QED BY <2>2, <2>3
<1>6. MembersFollow' /\ LeftoversAreDirty'
  BY <1>1, OthersKeep DEF IInv, MembersFollow
<1>7. LastEventIsCurrent'
  BY <1>1, <1>4, <1>5 DEF IInv, LastEventIsCurrent
<1>8. \A r : Included(r)' = Included(r) /\ Cached(r)' = Cached(r)
  BY <1>1 DEF Included, GroupsOf, Cached
<1>9. CacheIsCurrent'
  BY <1>1, <1>4, <1>5, <1>8 DEF IInv, CacheIsCurrent
<1>10. FetchedIsCurrent'
  BY <1>1, <1>4, <1>5, <1>8 DEF IInv, FetchedIsCurrent
<1>11. PublishedOrPending'
  <2> SUFFICES ASSUME NEW g \in ResourceGroups, spec[g] # None, NEW r \in spec[g],
                      r \notin dirty, r \notin lost', ~Pending(g), ~Told(r)'
               PROVE  Shown(g, r)'
    BY <1>1 DEF PublishedOrPending, Pending
  <2>1. r \in Resources \ {q} /\ r \notin lost
    BY <1>1, <1>4, <1>5 DEF Told, Types, TypeOK
  <2>2. ~Told(r)
    BY <1>1, <1>4, <2>1 DEF Told
  <2>3. Shown(g, r)
    BY <2>1, <2>2 DEF IInv, PublishedOrPending
  <2>4. \A c \in Computers : SameWork(computer[c], computer'[c])
    BY <1>1 DEF SameWork
  <2> QED BY <1>1, <1>4, <2>1, <2>3, <2>4, ShownKeeps
<1> QED BY <1>3, <1>6, <1>7, <1>9, <1>10, <1>11 DEF IInv

LEMMA ChangeSpecIInv ==
  ASSUME IInv, NEW g \in ResourceGroups, NEW R \in (SUBSET Resources) \cup {None}, ChangeSpec(g, R)
  PROVE  IInv'
<1>1. /\ Types /\ changes < MaxChanges /\ changes' = changes + 1
      /\ spec' = [spec EXCEPT ![g] = R] /\ rootPending' = rootPending \cup {g}
      /\ published' = IF R = None THEN [published EXCEPT ![g] = EmptyMap] ELSE published
      /\ UNCHANGED <<members, cache, object, watcher, stream, handler, root, crdTodo, crdReset,
                     rgPending, computer, dirty, lost>>
  BY DEF IInv, ChangeSpec, ivars, watch
<1>2. /\ changes' \in 0..MaxChanges /\ spec' \in [ResourceGroups -> (SUBSET Resources) \cup {None}]
      /\ published' \in [ResourceGroups -> Maps(Resources, Statuses \cup {Unknown})]
      /\ rootPending' \in SUBSET ResourceGroups
  <2>1. changes' \in 0..MaxChanges /\ rootPending' \in SUBSET ResourceGroups
    BY <1>1, MaxChangesAssumption DEF Types, TypeOK
  <2>2. spec' \in [ResourceGroups -> (SUBSET Resources) \cup {None}]
    BY <1>1 DEF Types, TypeOK
  <2>3. EmptyMap \in Maps(Resources, Statuses \cup {Unknown})
    BY EmptyMapInMaps
  <2>4. published' \in [ResourceGroups -> Maps(Resources, Statuses \cup {Unknown})]
    BY <1>1, <2>3 DEF Types, TypeOK
  <2> QED BY <2>1, <2>2, <2>4
<1>3. Types'
  BY <1>1, <1>2 DEF Types, TypeOK
<1>4. \A h \in ResourceGroups \ {g} : spec'[h] = spec[h] /\ published'[h] = published[h]
  BY <1>1 DEF Types, TypeOK
<1>5. MembersFollow' /\ LeftoversAreDirty'
  BY <1>1, <1>4, OthersKeep DEF IInv, MembersFollow
<1>6. (\A r : Coming(r)' = Coming(r)) /\ LastEventIsCurrent' /\ CacheIsCurrent'
  BY <1>1, SeenKeeps DEF IInv
<1>7. FetchedIsCurrent'
  BY <1>1, <1>6 DEF IInv, FetchedIsCurrent, Included, GroupsOf
<1>8. PublishedOrPending'
  <2> SUFFICES ASSUME NEW h \in ResourceGroups, spec'[h] # None, NEW r \in spec'[h],
                      r \notin dirty, r \notin lost, ~Pending(h)', ~Told(r)'
               PROVE  Shown(h, r)'
    BY <1>1 DEF PublishedOrPending
  <2>1. h # g /\ ~Pending(h)
    BY <1>1 DEF Pending
  <2>2. ~Told(r)
    BY <1>1, <1>6 DEF Told
  <2>3. Shown(h, r)
    BY <1>4, <2>1, <2>2 DEF IInv, PublishedOrPending
  <2>4. \A c \in Computers : SameWork(computer[c], computer'[c])
    BY <1>1 DEF SameWork
  <2> QED BY <1>1, <1>4, <2>1, <2>3, <2>4, ShownKeeps
<1> QED BY <1>3, <1>5, <1>6, <1>7, <1>8 DEF IInv

LEMMA CRDEventIInv ==
  ASSUME IInv, CRDEvent
  PROVE  IInv'
<1>1. /\ Types /\ changes < MaxChanges /\ changes' = changes + 1
      /\ crdTodo' = {r \in Resources : Included(r)}
      /\ UNCHANGED <<members, cache, object, spec, watcher, stream, handler, rootPending, root,
                     crdReset, rgPending, computer, published, dirty, lost>>
  BY DEF IInv, CRDEvent, ivars, watch, rg
<1>2. changes' \in 0..MaxChanges /\ crdTodo' \in SUBSET Resources
  BY <1>1, MaxChangesAssumption DEF Types, TypeOK
<1>3. Types'
  BY <1>1, <1>2 DEF Types, TypeOK
<1>4. MembersFollow' /\ LeftoversAreDirty'
  BY <1>1, OthersKeep DEF IInv, MembersFollow
<1>5. (\A r : Coming(r)' = Coming(r)) /\ LastEventIsCurrent' /\ CacheIsCurrent'
  BY <1>1, SeenKeeps DEF IInv
<1>6. FetchedIsCurrent'
  BY <1>1, <1>5 DEF IInv, FetchedIsCurrent, Included, GroupsOf
<1>7. PublishedOrPending'
  BY <1>1, <1>5 DEF IInv, PublishedOrPending, Pending, Told, Shown, WorksFor, Correct
<1> QED BY <1>3, <1>4, <1>5, <1>6, <1>7 DEF IInv

-----------------------------------------------------------------------------
(* The watcher.                                                            *)

(***************************************************************************)
(* A watch ends or begins, and no event that it has lost is a deletion     *)
(* that nobody knows of.                                                   *)
(***************************************************************************)
LEMMA RewatchedIInv ==
  ASSUME IInv, Types',
         UNCHANGED <<members, cache, object, spec, handler, computer, published, dirty>>,
         MembersFollow', LastEventIsCurrent', lost \subseteq lost',
         \A r \in Resources : r \notin lost' /\ ~Coming(r)' => ~Coming(r),
         \A g \in ResourceGroups : spec[g] # None /\ Pending(g) => Pending(g)',
         crdReset' = crdReset
  PROVE  IInv'
<1>1. \A r : Included(r)' = Included(r) /\ Cached(r)' = Cached(r)
  BY DEF Included, GroupsOf, Cached
<1>2. LeftoversAreDirty'
  BY OthersKeep DEF IInv
<1>3. CacheIsCurrent'
  BY <1>1 DEF IInv, CacheIsCurrent
<1>4. FetchedIsCurrent'
  BY <1>1 DEF IInv, FetchedIsCurrent
<1>5. PublishedOrPending'
  <2> SUFFICES ASSUME NEW g \in ResourceGroups, spec[g] # None, NEW r \in spec[g],
                      r \notin dirty, r \notin lost', ~Pending(g), ~Told(r)'
               PROVE  Shown(g, r)'
    BY DEF PublishedOrPending
  <2>1. r \in Resources
    BY DEF IInv, Types, TypeOK
  <2>2. ~Told(r)
    BY <2>1 DEF Told
  <2>3. Shown(g, r)
    BY <2>2 DEF IInv, PublishedOrPending
  <2>4. \A c \in Computers : SameWork(computer[c], computer'[c])
    BY DEF SameWork
  <2> QED BY <2>3, <2>4, ShownKeeps
<1> QED BY <1>2, <1>3, <1>4, <1>5 DEF IInv

LEMMA AddedFacts ==
  ASSUME Types
  PROVE  /\ Added \in [Resources -> Seq(Statuses)]
         /\ \A r \in Resources :
              /\ Added[r] # <<>> <=> object[r] # NotFound
              /\ Added[r] # <<>> => Added[r][Len(Added[r])] = object[r]
<1>1. \A r \in Resources : object[r] \in Statuses
  BY TypesFacts
<1> QED BY <1>1 DEF Added

LEMMA ExpireIInv ==
  ASSUME IInv, Expire
  PROVE  IInv'
<1>1. /\ Types /\ watcher # None /\ handler[watcher] = Idle /\ changes < MaxChanges
      /\ changes' = changes + 1 /\ stream' = Added /\ lost' = lost \cup Unseen
      /\ UNCHANGED <<members, cache, object, spec, watcher, handler, rootPending, root, crdTodo,
                     crdReset, rgPending, computer, published, dirty>>
  BY DEF IInv, Expire, ivars, controllers, rg
<1>2. changes' \in 0..MaxChanges /\ Unseen \subseteq Resources
  BY <1>1, MaxChangesAssumption DEF Types, TypeOK, Unseen
<1>3. Types'
  BY <1>1, <1>2, AddedFacts DEF Types, TypeOK
<1>4. \A r : ~Handled(r) /\ ~Handled(r)'
  BY <1>1 DEF Handled, Idle
<1>5. LastEventIsCurrent'
  BY <1>1, <1>4, AddedFacts DEF LastEventIsCurrent
<1>6. \A r \in Resources : r \notin lost' /\ ~Coming(r)' => ~Coming(r)
  BY <1>1, <1>4, AddedFacts DEF Coming, Unseen
<1>7. MembersFollow' /\ \A g \in ResourceGroups : Pending(g) => Pending(g)'
  BY <1>1 DEF IInv, MembersFollow, Pending
<1> QED BY <1>1, <1>3, <1>5, <1>6, <1>7, RewatchedIInv

LEMMA DieIInv ==
  ASSUME IInv, Die
  PROVE  IInv'
<1>1. /\ Types /\ watcher # None /\ handler[watcher] = Idle /\ changes < MaxChanges
      /\ changes' = changes + 1 /\ watcher' = None
      /\ stream' = [r \in Resources |-> <<>>] /\ lost' = lost \cup Unseen
      /\ UNCHANGED <<members, cache, object, spec, handler, rootPending, root, crdTodo,
                     crdReset, rgPending, computer, published, dirty>>
  BY DEF IInv, Die, ivars, controllers, rg
<1>2. changes' \in 0..MaxChanges /\ Unseen \subseteq Resources
  BY <1>1, MaxChangesAssumption DEF Types, TypeOK, Unseen
<1>3. stream' \in [Resources -> Seq(Statuses)] /\ \A r \in Resources : stream'[r] = <<>>
  BY <1>1
<1>4. Types'
  BY <1>1, <1>2, <1>3 DEF Types, TypeOK
<1>5. \A r : ~Handled(r)
  BY <1>1 DEF Handled, Idle
<1>6. LastEventIsCurrent'
  BY <1>1 DEF LastEventIsCurrent
<1>7. \A r \in Resources : r \notin lost' /\ ~Coming(r)' => ~Coming(r)
  BY <1>1, <1>5 DEF Coming, Unseen
<1>8. MembersFollow' /\ \A g \in ResourceGroups : Pending(g) => Pending(g)'
  BY <1>1 DEF IInv, MembersFollow, Pending
<1> QED BY <1>1, <1>4, <1>6, <1>7, <1>8, RewatchedIInv

LEMMA TailFacts ==
  ASSUME NEW S, NEW s \in Seq(S), s # <<>>
  PROVE  /\ Head(s) \in S
         /\ Tail(s) # <<>> => Tail(s)[Len(Tail(s))] = s[Len(s)]
         /\ Tail(s) = <<>> => Head(s) = s[Len(s)]
<1>1. Len(s) \in Nat /\ Len(s) >= 1 /\ Len(Tail(s)) = Len(s) - 1 /\ Head(s) = s[1] /\ s[1] \in S
  OBVIOUS
<1>2. \A i \in 1..Len(s) - 1 : Tail(s)[i] = s[i + 1]
  OBVIOUS
<1>3. CASE Tail(s) = <<>>
  <2>1. Len(s) = 1
    BY <1>1, <1>3
  <2> QED BY <1>1, <1>3, <2>1
<1>4. CASE Tail(s) # <<>>
  <2>1. Len(s) - 1 \in 1..Len(s) - 1 /\ (Len(s) - 1) + 1 = Len(s)
    BY <1>1, <1>4
  <2> QED BY <1>1, <1>2, <1>4, <2>1
<1> QED BY <1>3, <1>4

LEMMA ReceiveIInv ==
  ASSUME IInv, NEW q \in Resources, Receive(q)
  PROVE  IInv'
<1> DEFINE event == [phase |-> "checked", res |-> q, status |-> Head(stream[q])]
<1>1. /\ Types /\ watcher # None /\ watcher \in Handlers /\ handler[watcher] = Idle /\ stream[q] # <<>>
      /\ stream' = [stream EXCEPT ![q] = Tail(@)]
      /\ Included(q) => handler' = [handler EXCEPT ![watcher] = event]
      /\ ~Included(q) => handler' = handler
      /\ UNCHANGED <<members, cache, object, spec, changes, watcher, rootPending, root, crdTodo,
                     crdReset, rgPending, computer, published, dirty, lost>>
  BY DEF IInv, Types, TypeOK, Receive, ivars, outside, controllers, rg
<1>2. /\ stream[q] \in Seq(Statuses) /\ stream'[q] = Tail(stream[q])
      /\ \A r \in Resources \ {q} : stream'[r] = stream[r]
      /\ stream' \in [Resources -> Seq(Statuses)]
  BY <1>1 DEF Types
<1>3. /\ Head(stream[q]) \in Statuses
      /\ stream'[q] # <<>> => stream'[q][Len(stream'[q])] = stream[q][Len(stream[q])]
      /\ stream'[q] = <<>> => Head(stream[q]) = stream[q][Len(stream[q])]
  BY <1>1, <1>2, TailFacts
<1>4. /\ event \in [phase : {"checked", "cached"}, res : Resources, status : Statuses]
      /\ event.phase = "checked" /\ event.res = q /\ event.status = Head(stream[q])
  BY <1>3
<1> HIDE DEF event
<1>5. handler' \in [Handlers -> {Idle} \cup [phase : {"checked", "cached"}, res : Resources,
                                             status : Statuses]]
  BY <1>1, <1>4 DEF Types, TypeOK
<1>6. Types'
  BY <1>1, <1>2, <1>5 DEF Types, TypeOK
<1>7. /\ \A r : ~Handled(r)
      /\ Included(q) => handler'[watcher] = event /\ \A r : Handled(r)' <=> r = q
      /\ ~Included(q) => \A r : ~Handled(r)'
      /\ \A h \in Handlers : h # watcher => handler'[h] = handler[h]
      /\ handler[watcher].phase # "cached"
  BY <1>1, <1>4 DEF Types, TypeOK, Handled, Idle
<1>8. MembersFollow' /\ LeftoversAreDirty'
  BY <1>1, OthersKeep DEF IInv, MembersFollow
<1>9. LastEventIsCurrent'
  <2> SUFFICES ASSUME NEW r \in Resources
               PROVE  /\ stream'[r] # <<>> => stream'[r][Len(stream'[r])] = object[r]
                      /\ stream'[r] = <<>> /\ Handled(r)' => handler'[watcher].status = object[r]
    BY <1>1 DEF LastEventIsCurrent
  <2>1. stream[r] # <<>> => stream[r][Len(stream[r])] = object[r]
    BY <1>1 DEF IInv, LastEventIsCurrent
  <2>2. CASE r = q
    BY <1>1, <1>3, <1>4, <1>7, <2>1, <2>2
  <2>3. CASE r # q
    BY <1>2, <1>7, <2>1, <2>3
  <2> QED BY <2>2, <2>3
<1>10. \A r \in Resources : Included(r) => Coming(r)' = Coming(r)
  <2> SUFFICES ASSUME NEW r \in Resources, Included(r) PROVE Coming(r)' = Coming(r)
    OBVIOUS
  <2>1. CASE r = q
    BY <1>1, <1>7, <2>1 DEF Coming
  <2>2. CASE r # q
    BY <1>1, <1>2, <1>7, <2>2 DEF Coming
  <2> QED BY <2>1, <2>2
<1>11. \A r : Included(r)' = Included(r) /\ Cached(r)' = Cached(r)
  BY <1>1 DEF Included, GroupsOf, Cached
<1>12. CacheIsCurrent'
  BY <1>1, <1>10, <1>11 DEF IInv, CacheIsCurrent
<1>13. FetchedIsCurrent'
  BY <1>1, <1>10, <1>11 DEF IInv, FetchedIsCurrent
<1>14. PublishedOrPending'
  <2> SUFFICES ASSUME NEW g \in ResourceGroups, spec[g] # None, NEW r \in spec[g],
                      r \notin dirty, r \notin lost, ~Pending(g), ~Told(r)'
               PROVE  Shown(g, r)'
    BY <1>1 DEF PublishedOrPending, Pending
  <2>1. r \in Resources /\ Included(r)
    BY <1>1, Listed DEF IInv, Pending, Types, TypeOK
  <2>2. ~Told(r)
    BY <1>1, <1>7, <1>10, <2>1 DEF Told
  <2>3. Shown(g, r)
    BY <2>2 DEF IInv, PublishedOrPending
  <2>4. \A c \in Computers : SameWork(computer[c], computer'[c])
    BY <1>1 DEF SameWork
  <2> QED BY <1>1, <2>3, <2>4, ShownKeeps
<1> QED BY <1>6, <1>8, <1>9, <1>12, <1>13, <1>14 DEF IInv

LEMMA CacheIInv ==
  ASSUME IInv, NEW h \in Handlers, Cache(h)
  PROVE  IInv'
<1>0. PICK q \in Resources, s \in Statuses : q = handler[h].res /\ s = handler[h].status
  BY TypesFacts DEF IInv, Cache
<1>1. /\ Types /\ handler[h].phase = "checked"
      /\ handler' = [handler EXCEPT ![h].phase = "cached"]
      /\ CacheStatus(q, s) /\ computer' = Race({q})
      /\ dirty' = IF h = watcher /\ Included(q) THEN dirty \ {q} ELSE dirty \cup {q}
      /\ lost' = lost \ {q}
      /\ UNCHANGED <<object, spec, changes, watcher, stream, rootPending, root, crdTodo, crdReset,
                     rgPending, published>>
  BY <1>0 DEF IInv, Cache, outside, controllers
<1>3. handler'[h].phase = "cached" /\ handler'[h].res = q
      /\ \A k \in Handlers \ {h} : handler'[k] = handler[k]
  BY <1>0, <1>1 DEF Types, TypeOK, Idle
<1>4. handler' \in [Handlers -> {Idle} \cup [phase : {"checked", "cached"}, res : Resources,
                                             status : Statuses]]
  <2>1. handler[h] \in [phase : {"checked", "cached"}, res : Resources, status : Statuses]
    BY <1>1 DEF Types, TypeOK, Idle
  <2>2. [handler[h] EXCEPT !.phase = "cached"] \in [phase : {"checked", "cached"},
                                                    res : Resources, status : Statuses]
    BY <2>1
  <2> QED BY <1>1, <2>2 DEF Types, TypeOK
<1>5. LeftoversAreDirty'
  BY CacheKeeps DEF IInv
<1>6. h = watcher /\ Handled(q) /\ stream[q] = <<>> => s = object[q]
  BY <1>0, <1>1, NoneAssumption DEF IInv, LastEventIsCurrent
<1>7. h = watcher => Handled(q)
  BY <1>0, <1>1 DEF Handled
<1>8. /\ cache' = Put(cache, q, s) /\ members' = members
      /\ \A r : Included(r)' <=> Included(r)
      /\ Cached(q)' = s
      /\ \A r : r # q => Cached(r)' = Cached(r)
  <2>1. CacheStatus(q, s)
    BY <1>1
  <2> QED BY <2>1, CacheStatusEffect DEF CacheStatus
<1>9. computer' \in [Computers -> Works] /\ \A c \in Computers :
        /\ WorkOK(computer'[c])
        /\ SameWork(computer[c], computer'[c])
        /\ computer'[c].raced = (computer[c].raced \/ (computer[c].pc = "fetched" /\ computer[c].res \in {q}))
  BY <1>1, RaceFacts
<1>10. Types'
  <2>1. cache' \in Maps(Resources, Statuses \cup {NoStatus})
    BY <1>1, <1>8, PutInMaps DEF Types, TypeOK
  <2>2. dirty' \in SUBSET Resources /\ lost' \in SUBSET Resources
    BY <1>1 DEF Types, TypeOK
  <2> QED BY <1>1, <1>4, <1>8, <1>9, <2>1, <2>2, WorkFacts DEF Types, TypeOK
<1>11. MembersFollow'
  BY <1>1, <1>8 DEF IInv, MembersFollow
<1>12. \A r : Handled(r)' => Handled(r) /\ watcher # h
  BY <1>1, <1>3 DEF Types, TypeOK, Handled
<1>13. \A r : r # q \/ watcher # h => Coming(r)' = Coming(r)
  BY <1>0, <1>1, <1>3 DEF Types, TypeOK, Coming, Handled
<1>14. LastEventIsCurrent'
  <2> SUFFICES ASSUME watcher # None, NEW r \in Resources
               PROVE  /\ stream[r] # <<>> => stream[r][Len(stream[r])] = object[r]
                      /\ stream[r] = <<>> /\ Handled(r)' => handler'[watcher].status = object[r]
    BY <1>1 DEF LastEventIsCurrent
  <2>1. watcher \in Handlers
    BY <1>1 DEF Types, TypeOK
  <2> QED BY <1>3, <1>12, <2>1 DEF IInv, LastEventIsCurrent
<1>15. CacheIsCurrent'
  <2> SUFFICES ASSUME NEW r \in Resources, Included(r), r \notin dirty', r \notin lost', ~Coming(r)'
               PROVE  Cached(r)' \in {NoStatus, object[r]}
    BY <1>1, <1>8 DEF CacheIsCurrent
  <2>1. CASE r = q
    <3>1. h = watcher /\ watcher # None
      BY <1>1, <2>1, NoneAssumption
    <3>2. stream[q] = <<>>
      BY <1>1, <2>1, <3>1 DEF Coming
    <3> QED BY <1>6, <1>7, <1>8, <2>1, <3>1, <3>2
  <2>2. CASE r # q
    BY <1>1, <1>8, <1>13, <2>2 DEF IInv, CacheIsCurrent
  <2> QED BY <2>1, <2>2
<1>16. FetchedIsCurrent'
  <2> SUFFICES ASSUME NEW c \in Computers, NEW r \in Resources, computer'[c].pc = "fetched",
                      ~computer'[c].raced, computer'[c].res = r, Included(r), r \notin lost',
                      ~Coming(r)'
               PROVE  computer'[c].status = object[r]
    BY <1>1, <1>8 DEF FetchedIsCurrent
  <2>1. /\ computer[c].pc = "fetched" /\ computer[c].res = r /\ ~computer[c].raced /\ r # q
        /\ computer'[c].status = computer[c].status
    BY <1>9 DEF SameWork
  <2>2. r \notin lost /\ ~Coming(r)
    BY <1>1, <1>13, <2>1
  <2> QED BY <2>1, <2>2 DEF IInv, FetchedIsCurrent
<1>17. PublishedOrPending'
  <2> SUFFICES ASSUME NEW g \in ResourceGroups, spec[g] # None, NEW r \in spec[g],
                      r \notin dirty', r \notin lost', ~Pending(g), ~Told(r)'
               PROVE  Shown(g, r)'
    BY <1>1 DEF PublishedOrPending, Pending
  <2>1. r # q
    BY <1>1, <1>3 DEF Told
  <2>2. r \notin dirty /\ r \notin lost
    BY <1>1, <2>1
  <2>3. ~Told(r)
    BY <1>1, <1>3, <1>13, <2>1 DEF Told
  <2>4. Shown(g, r)
    BY <2>2, <2>3 DEF IInv, PublishedOrPending
  <2> QED BY <1>1, <1>9, <2>4, ShownKeeps
<1> QED BY <1>5, <1>10, <1>11, <1>14, <1>15, <1>16, <1>17 DEF IInv

LEMMA NotifyIInv ==
  ASSUME IInv, NEW h \in Handlers, Notify(h)
  PROVE  IInv'
<1>1. /\ Types /\ handler[h].phase = "cached" /\ handler' = [handler EXCEPT ![h] = Idle]
      /\ rgPending' = rgPending \cup GroupsOf(handler[h].res)
      /\ UNCHANGED <<members, cache, object, spec, changes, watcher, stream, rootPending, root,
                     crdTodo, crdReset, computer, published, dirty, lost>>
  BY DEF IInv, Notify, ivars, outside, controllers
<1>2. /\ rgPending' \in SUBSET ResourceGroups
      /\ handler' \in [Handlers -> {Idle} \cup [phase : {"checked", "cached"}, res : Resources,
                                                status : Statuses]]
  <2>1. \A r : GroupsOf(r) \subseteq ResourceGroups
    BY <1>1 DEF Types, TypeOK, GroupsOf, Maps
  <2> QED BY <1>1, <2>1 DEF Types, TypeOK
<1>3. Types'
  BY <1>1, <1>2 DEF Types, TypeOK
<1>4. (\A k \in Handlers \ {h} : handler'[k] = handler[k]) /\ handler'[h] = Idle
  BY <1>1 DEF Types, TypeOK
<1>5. \A r : Coming(r)' = Coming(r) /\ (watcher # None => Handled(r)' = Handled(r))
  BY <1>1, <1>4 DEF Types, TypeOK, Coming, Handled, Idle
<1>6. MembersFollow' /\ LeftoversAreDirty'
  BY <1>1, OthersKeep DEF IInv, MembersFollow
<1>7. \A r : Included(r)' = Included(r) /\ Cached(r)' = Cached(r)
  BY <1>1 DEF Included, GroupsOf, Cached
<1>8. LastEventIsCurrent'
  <2>1. \A r : watcher # None /\ Handled(r)' => handler'[watcher] = handler[watcher]
    BY <1>1, <1>4 DEF Types, TypeOK, Handled, Idle
  <2> QED BY <1>1, <1>5, <2>1 DEF IInv, LastEventIsCurrent
<1>9. CacheIsCurrent' /\ FetchedIsCurrent'
  BY <1>1, <1>5, <1>7 DEF IInv, CacheIsCurrent, FetchedIsCurrent
<1>10. PublishedOrPending'
  <2> SUFFICES ASSUME NEW g \in ResourceGroups, spec[g] # None, NEW r \in spec[g],
                      r \notin dirty, r \notin lost, ~Pending(g)', ~Told(r)'
               PROVE  Shown(g, r)'
    BY <1>1 DEF PublishedOrPending
  <2>1. ~Pending(g) /\ g \notin rootPending
    BY <1>1 DEF Pending
  <2>2. handler[h].res # r
    BY <1>1, <2>1, Listed DEF IInv, Pending
  <2>3. ~Told(r)
    BY <1>1, <1>4, <1>5, <2>2 DEF Told
  <2>4. Shown(g, r)
    BY <2>1, <2>3 DEF IInv, PublishedOrPending
  <2>5. \A c \in Computers : SameWork(computer[c], computer'[c])
    BY <1>1 DEF SameWork
  <2> QED BY <1>1, <2>4, <2>5, ShownKeeps
<1> QED BY <1>3, <1>6, <1>8, <1>9, <1>10 DEF IInv

-----------------------------------------------------------------------------
(* Root and the CRD event handler.                                         *)

LEMMA ReconcileIInv ==
  ASSUME IInv, NEW g \in ResourceGroups, Reconcile(g)
  PROVE  IInv'
<1> DEFINE gone == {r \in Resources : Included(r) /\ ~Included(r)'}
           come == {r \in Resources : ~Included(r) /\ Included(r)'}
<1>1. /\ Types /\ root = None /\ rootPending' = rootPending \ {g} /\ root' = g
      /\ spec[g] = None => DeleteGroup(g)
      /\ spec[g] # None => SetMembers(g, spec[g])
      /\ computer' = Race(gone \cup come) /\ dirty' = dirty \ gone /\ lost' = lost \ gone
      /\ UNCHANGED <<object, spec, changes, watcher, stream, handler, crdTodo, crdReset,
                     rgPending, published>>
  BY DEF IInv, Reconcile, outside, watch
<1>2. \A r \in Resources : (r \in gone <=> Included(r) /\ ~Included(r)')
                           /\ (r \in come <=> ~Included(r) /\ Included(r)')
  OBVIOUS
<1>3. gone \subseteq Resources
  OBVIOUS
<1> HIDE DEF gone, come
<1>4. PICK R : cache' = DropAll(cache, R)
  BY <1>1 DEF DeleteGroup, SetMembers
<1>5. \A r : Cached(r)' # NoStatus => Cached(r)' = Cached(r)
  BY <1>4, ForgettingCachesNothing
<1>6. /\ \A h \in ResourceGroups \ {g} :
           (h \in DOMAIN members' <=> h \in DOMAIN members) /\
           (h \in DOMAIN members => members'[h] = members[h])
      /\ IF spec[g] = None THEN g \notin DOMAIN members'
         ELSE g \in DOMAIN members' /\ members'[g] = spec[g]
  <2>1. CASE spec[g] = None
    BY <1>1, <2>1 DEF DeleteGroup, Drop, DropAll
  <2>2. CASE spec[g] # None
    BY <1>1, <2>2 DEF SetMembers, Put
  <2> QED BY <2>1, <2>2
<1>7. MembersFollow'
  BY <1>1, <1>6 DEF IInv, MembersFollow
<1>8. computer' \in [Computers -> Works] /\ \A c \in Computers :
        /\ WorkOK(computer'[c])
        /\ SameWork(computer[c], computer'[c])
        /\ computer'[c].raced =
             (computer[c].raced \/ (computer[c].pc = "fetched" /\ computer[c].res \in gone \cup come))
  BY <1>1, RaceFacts
<1>9. Types'
  <2>1. cache' \in Maps(Resources, Statuses \cup {NoStatus})
    BY <1>1, <1>4, DropAllInMaps DEF Types, TypeOK
  <2>2. members' \in Maps(ResourceGroups, SUBSET Resources)
    <3>1. CASE spec[g] = None
      BY <1>1, <3>1, DropAllInMaps DEF Types, TypeOK, DeleteGroup, Drop
    <3>2. CASE spec[g] # None
      <4>1. spec[g] \in SUBSET Resources
        BY <1>1, <3>2 DEF Types, TypeOK
      <4> QED BY <1>1, <3>2, <4>1, PutInMaps DEF Types, TypeOK, SetMembers
    <3> QED BY <3>1, <3>2
  <2>3. /\ dirty' \in SUBSET Resources /\ lost' \in SUBSET Resources
        /\ rootPending' \in SUBSET ResourceGroups /\ root' \in ResourceGroups \cup {None}
    BY <1>1 DEF Types, TypeOK
  <2> QED BY <1>1, <1>8, <2>1, <2>2, <2>3, WorkFacts DEF Types, TypeOK
<1>10. LeftoversAreDirty'
  BY ReconcileKeeps DEF IInv
<1>11. (\A r : Coming(r)' = Coming(r)) /\ LastEventIsCurrent'
  BY <1>1, SeenKeeps DEF IInv
<1>12. CacheIsCurrent'
  <2> SUFFICES ASSUME NEW r \in Resources, Included(r)', r \notin dirty', r \notin lost', ~Coming(r),
                      Cached(r)' # NoStatus
               PROVE  Cached(r)' = object[r]
    BY <1>1, <1>11 DEF CacheIsCurrent
  <2>1. r \notin dirty /\ r \notin lost
    BY <1>1, <1>2
  <2>2. Cached(r)' = Cached(r) /\ Cached(r) # NoStatus
    BY <1>5
  <2>3. Included(r)
    BY <2>1, <2>2 DEF IInv, LeftoversAreDirty
  <2> QED BY <2>1, <2>2, <2>3 DEF IInv, CacheIsCurrent
<1>13. FetchedIsCurrent'
  <2> SUFFICES ASSUME NEW c \in Computers, NEW r \in Resources, computer'[c].pc = "fetched",
                      ~computer'[c].raced, computer'[c].res = r, Included(r)', r \notin lost',
                      ~Coming(r)
               PROVE  computer'[c].status = object[r]
    BY <1>1, <1>11 DEF FetchedIsCurrent
  <2>1. /\ computer[c].pc = "fetched" /\ computer[c].res = r /\ ~computer[c].raced
        /\ computer'[c].status = computer[c].status /\ r \notin gone /\ r \notin come
    BY <1>8 DEF SameWork
  <2>2. Included(r) /\ r \notin lost
    BY <1>1, <1>2, <2>1
  <2> QED BY <2>1, <2>2 DEF IInv, FetchedIsCurrent
<1>14. PublishedOrPending'
  <2> SUFFICES ASSUME NEW h \in ResourceGroups, spec[h] # None, NEW r \in spec[h],
                      r \notin dirty', r \notin lost', ~Pending(h)', ~Told(r)'
               PROVE  Shown(h, r)'
    BY <1>1 DEF PublishedOrPending
  <2>1. r \in Resources
    BY <1>1 DEF Types, TypeOK
  <2>2. Included(r)'
    BY <1>1, <1>7 DEF MembersFollow, Pending, Included, GroupsOf
  <2>3. r \notin dirty /\ r \notin lost
    BY <1>1, <1>2, <2>1, <2>2
  <2>4. ~Pending(h)
    BY <1>1, NoneAssumption DEF Pending
  <2>5. ~Told(r)
    BY <1>1, <1>11 DEF Told
  <2>6. Shown(h, r)
    BY <2>3, <2>4, <2>5 DEF IInv, PublishedOrPending
  <2> QED BY <1>1, <1>8, <2>6, ShownKeeps
<1> QED BY <1>7, <1>9, <1>10, <1>11, <1>12, <1>13, <1>14 DEF IInv

LEMMA WatchIInv ==
  ASSUME IInv, Watch
  PROVE  IInv'
<1>1. /\ Types /\ root # None /\ root \in ResourceGroups /\ UpdateWatches /\ root' = None
      /\ rgPending' = IF spec[root] = None THEN rgPending ELSE rgPending \cup {root}
      /\ UNCHANGED <<members, cache, object, spec, changes, handler, rootPending, crdTodo,
                     crdReset, computer, published, dirty>>
  BY DEF IInv, Watch, ivars, outside, Types, TypeOK
<1>2. rgPending' \in SUBSET ResourceGroups
  BY <1>1 DEF Types, TypeOK
<1>3. MembersFollow' /\ \A g \in ResourceGroups : spec[g] # None /\ Pending(g) => Pending(g)'
  BY <1>1 DEF IInv, MembersFollow, Pending
<1>4. CASE \A r \in Resources : ~Included(r)
  <2>1. watcher' = None /\ stream' = [r \in Resources |-> <<>>] /\ lost' = lost \cup Unseen
    BY <1>1, <1>4 DEF UpdateWatches
  <2>2. Unseen \subseteq Resources
    BY DEF Unseen
  <2> stream' \in [Resources -> Seq(Statuses)] /\ \A r \in Resources : stream'[r] = <<>>
    BY <2>1
  <2>3. Types'
    BY <1>1, <1>2, <2>1, <2>2 DEF Types, TypeOK
  <2>4. \A r \in Resources : ~Included(r)'
    BY <1>1, <1>4 DEF Included, GroupsOf
  <2>5. LeftoversAreDirty' /\ LastEventIsCurrent' /\ CacheIsCurrent' /\ FetchedIsCurrent'
    BY <1>1, <2>1, <2>4, OthersKeep
    DEF IInv, LastEventIsCurrent, CacheIsCurrent, FetchedIsCurrent
  <2>6. PublishedOrPending'
    <3> SUFFICES ASSUME NEW g \in ResourceGroups, spec[g] # None, NEW r \in spec[g]
                 PROVE  Pending(g)'
      BY <1>1 DEF PublishedOrPending
    <3>1. r \in Resources
      BY <1>1 DEF Types, TypeOK
    <3>2. g \in rootPending
      BY <1>4, <3>1, Listed DEF IInv
    <3> QED BY <1>1, <3>2 DEF Pending
  <2> QED BY <1>3, <2>3, <2>5, <2>6 DEF IInv
<1>5. CASE watcher = None /\ ~\A r \in Resources : ~Included(r)
  <2>1. PICK h \in Handlers : handler[h] = Idle /\ watcher' = h
    BY <1>1, <1>5 DEF UpdateWatches
  <2>2. stream' = Added /\ lost' = lost /\ watcher' # None
    BY <1>1, <1>5, <2>1, NoneAssumption DEF UpdateWatches
  <2>3. Types'
    BY <1>1, <1>2, <2>1, <2>2, AddedFacts DEF Types, TypeOK
  <2>4. \A r : ~Handled(r)'
    BY <1>1, <2>1 DEF Handled, Idle
  <2>5. LastEventIsCurrent'
    BY <1>1, <2>2, <2>4, AddedFacts DEF LastEventIsCurrent
  <2>6. \A r \in Resources : r \notin lost' /\ ~Coming(r)' => ~Coming(r)
    BY <1>1, <1>5, <2>2, <2>4, AddedFacts DEF Coming
  <2> QED BY <1>1, <1>3, <2>2, <2>3, <2>5, <2>6, RewatchedIInv
<1>6. CASE watcher # None /\ ~\A r \in Resources : ~Included(r)
  <2>1. UNCHANGED <<watcher, stream, lost>>
    BY <1>1, <1>6 DEF UpdateWatches
  <2>2. Types'
    BY <1>1, <1>2, <2>1 DEF Types, TypeOK
  <2>3. (\A r : Coming(r)' = Coming(r)) /\ LastEventIsCurrent'
    BY <1>1, <2>1, SeenKeeps DEF IInv
  <2> QED BY <1>1, <1>3, <2>1, <2>2, <2>3, RewatchedIInv
<1> QED BY <1>4, <1>5, <1>6

LEMMA WatchFailsIInv ==
  ASSUME IInv, WatchFails
  PROVE  IInv'
<1>1. /\ Types /\ root # None /\ root \in ResourceGroups /\ root' = None
      /\ rootPending' = rootPending \cup {root}
      /\ UNCHANGED <<members, cache, object, spec, changes, watcher, stream, handler, crdTodo,
                     crdReset, rgPending, computer, published, dirty, lost>>
  BY DEF IInv, WatchFails, ivars, outside, watch, rg, Types, TypeOK
<1>2. rootPending' \in SUBSET ResourceGroups
  BY <1>1 DEF Types, TypeOK
<1>3. Types'
  BY <1>1, <1>2 DEF Types, TypeOK
<1>4. MembersFollow' /\ \A g \in ResourceGroups : Pending(g) => Pending(g)'
  BY <1>1 DEF IInv, MembersFollow, Pending
<1>5. (\A r : Coming(r)' = Coming(r)) /\ LastEventIsCurrent'
  BY <1>1, SeenKeeps DEF IInv
<1> QED BY <1>1, <1>3, <1>4, <1>5, RewatchedIInv

LEMMA ResetStatusIInv ==
  ASSUME IInv, NEW q \in Resources, ResetStatus(q)
  PROVE  IInv'
<1>1. /\ Types /\ crdReset = None /\ crdTodo' = crdTodo \ {q} /\ crdReset' = q
      /\ CacheStatus(q, NoStatus) /\ computer' = Race({q})
      /\ dirty' = dirty \ {q} /\ lost' = lost \ {q}
      /\ UNCHANGED <<object, spec, changes, watcher, stream, handler, rootPending, root, rgPending,
                     published>>
  BY DEF IInv, ResetStatus, outside, watch
<1>2. /\ cache' = Put(cache, q, NoStatus) /\ members' = members
      /\ \A r : Included(r)' <=> Included(r)
      /\ Cached(q)' = NoStatus
      /\ \A r : r # q => Cached(r)' = Cached(r)
  BY <1>1, CacheStatusEffect DEF CacheStatus
<1>3. computer' \in [Computers -> Works] /\ \A c \in Computers :
        /\ WorkOK(computer'[c])
        /\ SameWork(computer[c], computer'[c])
        /\ computer'[c].raced =
             (computer[c].raced \/ (computer[c].pc = "fetched" /\ computer[c].res \in {q}))
  BY <1>1, RaceFacts
<1>4. Types'
  <2>1. cache' \in Maps(Resources, Statuses \cup {NoStatus})
    BY <1>1, <1>2, PutInMaps DEF Types, TypeOK
  <2>2. dirty' \in SUBSET Resources /\ lost' \in SUBSET Resources /\ crdTodo' \in SUBSET Resources
    BY <1>1 DEF Types, TypeOK
  <2> QED BY <1>1, <1>2, <1>3, <2>1, <2>2, WorkFacts DEF Types, TypeOK
<1>5. MembersFollow' /\ LeftoversAreDirty'
  BY <1>1, <1>2, ResetKeeps DEF IInv, MembersFollow
<1>6. (\A r : Coming(r)' = Coming(r)) /\ LastEventIsCurrent'
  BY <1>1, SeenKeeps DEF IInv
<1>7. CacheIsCurrent'
  BY <1>1, <1>2, <1>6 DEF IInv, CacheIsCurrent
<1>8. FetchedIsCurrent'
  <2> SUFFICES ASSUME NEW c \in Computers, NEW r \in Resources, computer'[c].pc = "fetched",
                      ~computer'[c].raced, computer'[c].res = r, Included(r), r \notin lost',
                      ~Coming(r)
               PROVE  computer'[c].status = object[r]
    BY <1>1, <1>2, <1>6 DEF FetchedIsCurrent
  <2>1. /\ computer[c].pc = "fetched" /\ computer[c].res = r /\ ~computer[c].raced /\ r # q
        /\ computer'[c].status = computer[c].status
    BY <1>3 DEF SameWork
  <2>2. r \notin lost
    BY <1>1, <2>1
  <2> QED BY <2>1, <2>2 DEF IInv, FetchedIsCurrent
<1>9. PublishedOrPending'
  <2> SUFFICES ASSUME NEW g \in ResourceGroups, spec[g] # None, NEW r \in spec[g],
                      r \notin dirty', r \notin lost', ~Pending(g), ~Told(r)'
               PROVE  Shown(g, r)'
    BY <1>1 DEF PublishedOrPending, Pending
  <2>1. r # q /\ r \in Resources
    BY <1>1 DEF Told, Types, TypeOK
  <2>2. r \notin dirty /\ r \notin lost
    BY <1>1, <2>1
  <2>3. ~Told(r)
    BY <1>1, <1>6, <2>1, NoneAssumption DEF Told
  <2>4. Shown(g, r)
    BY <2>2, <2>3 DEF IInv, PublishedOrPending
  <2> QED BY <1>1, <1>3, <2>4, ShownKeeps
<1> QED BY <1>4, <1>5, <1>6, <1>7, <1>8, <1>9 DEF IInv

LEMMA NotifyResetIInv ==
  ASSUME IInv, NotifyReset
  PROVE  IInv'
<1>1. /\ Types /\ crdReset # None /\ crdReset' = None
      /\ rgPending' = rgPending \cup GroupsOf(crdReset)
      /\ UNCHANGED <<members, cache, object, spec, changes, watcher, stream, handler, rootPending,
                     root, crdTodo, computer, published, dirty, lost>>
  BY DEF IInv, NotifyReset, ivars, outside, watch
<1>2. rgPending' \in SUBSET ResourceGroups
  <2>1. \A r : GroupsOf(r) \subseteq ResourceGroups
    BY <1>1 DEF Types, TypeOK, GroupsOf, Maps
  <2> QED BY <1>1, <2>1 DEF Types, TypeOK
<1>3. Types'
  BY <1>1, <1>2 DEF Types, TypeOK
<1>4. MembersFollow' /\ LeftoversAreDirty'
  BY <1>1, OthersKeep DEF IInv, MembersFollow
<1>5. (\A r : Coming(r)' = Coming(r)) /\ LastEventIsCurrent' /\ CacheIsCurrent'
  BY <1>1, SeenKeeps DEF IInv
<1>6. FetchedIsCurrent'
  BY <1>1, <1>5 DEF IInv, FetchedIsCurrent, Included, GroupsOf
<1>7. PublishedOrPending'
  <2> SUFFICES ASSUME NEW g \in ResourceGroups, spec[g] # None, NEW r \in spec[g],
                      r \notin dirty, r \notin lost, ~Pending(g)', ~Told(r)'
               PROVE  Shown(g, r)'
    BY <1>1 DEF PublishedOrPending
  <2>1. ~Pending(g) /\ g \notin rootPending
    BY <1>1 DEF Pending
  <2>2. crdReset # r
    BY <1>1, <2>1, Listed DEF IInv, Pending
  <2>3. ~Told(r)
    BY <1>1, <1>5, <2>2 DEF Told
  <2>4. Shown(g, r)
    BY <2>1, <2>3 DEF IInv, PublishedOrPending
  <2>5. \A c \in Computers : SameWork(computer[c], computer'[c])
    BY <1>1 DEF SameWork
  <2> QED BY <1>1, <2>4, <2>5, ShownKeeps
<1> QED BY <1>3, <1>4, <1>5, <1>6, <1>7 DEF IInv

-----------------------------------------------------------------------------
(* The goroutines that compute statuses.                                   *)

(***************************************************************************)
(* One goroutine goes on; nothing that the watchers and Root have changes. *)
(***************************************************************************)
LEMMA WorkedIInv ==
  ASSUME IInv,
         UNCHANGED <<members, cache, object, spec, changes, watcher, stream, handler, rootPending,
                     root, crdTodo, crdReset, dirty, lost>>,
         rgPending' \in SUBSET ResourceGroups,
         published' \in [ResourceGroups -> Maps(Resources, Statuses \cup {Unknown})],
         NEW c \in Computers, NEW w \in Works, WorkOK(w), computer' = [computer EXCEPT ![c] = w],
         w.pc = "fetched" =>
           w = computer[c] \/ w.raced \/ w.res \in lost \/ w.status = object[w.res]
             \/ (computer[c].pc = "fetched" /\ w.res = computer[c].res
                 /\ w.status = computer[c].status /\ w.raced = computer[c].raced),
         PublishedOrPending'
  PROVE  IInv'
<1>1. /\ Types /\ computer' \in [Computers -> Works] /\ computer'[c] = w
      /\ \A d \in Computers \ {c} : computer'[d] = computer[d]
      /\ \A d \in Computers : WorkOK(computer'[d])
  BY DEF IInv, Types
<1>2. Types'
  BY <1>1, WorkFacts DEF Types, TypeOK
<1>3. MembersFollow' /\ LeftoversAreDirty'
  BY OthersKeep DEF IInv, MembersFollow
<1>4. (\A r : Coming(r)' = Coming(r)) /\ LastEventIsCurrent' /\ CacheIsCurrent'
  BY SeenKeeps DEF IInv
<1>5. FetchedIsCurrent'
  <2>1. \A r : Included(r)' = Included(r)
    BY DEF Included, GroupsOf
  <2> SUFFICES ASSUME NEW d \in Computers, NEW r \in Resources, computer'[d].pc = "fetched",
                      ~computer'[d].raced, computer'[d].res = r, Included(r), r \notin lost,
                      ~Coming(r)
               PROVE  computer'[d].status = object[r]
    BY <1>4, <2>1 DEF FetchedIsCurrent
  <2>2. CASE d = c
    BY <1>1, <2>2 DEF IInv, FetchedIsCurrent
  <2>3. CASE d # c
    BY <1>1, <2>3 DEF IInv, FetchedIsCurrent
  <2> QED BY <2>2, <2>3
<1> QED BY <1>2, <1>3, <1>4, <1>5 DEF IInv

\* A step of a goroutine after which its group is shown the same.
LEMMA SameShownIInv ==
  ASSUME IInv,
         UNCHANGED <<object, spec, watcher, stream, handler, rootPending, root, crdReset, dirty,
                     lost, rgPending>>,
         \A g \in ResourceGroups : spec[g] # None =>
           \A r \in spec[g] \ (dirty \cup lost) :
             Shown(g, r) /\ ~Pending(g) /\ ~Told(r) => Shown(g, r)'
  PROVE  PublishedOrPending'
<1>1. \A r : Coming(r)' = Coming(r)
  BY SeenKeeps
<1>2. (\A g : Pending(g)' = Pending(g)) /\ (\A r : Told(r)' = Told(r))
  BY <1>1 DEF Pending, Told
<1> QED BY <1>2 DEF IInv, PublishedOrPending

LEMMA BeginIInv ==
  ASSUME IInv, NEW c \in Computers, NEW g \in ResourceGroups, Begin(c, g)
  PROVE  IInv'
<1> DEFINE w == IF spec[g] = None THEN computer[c]
                ELSE [Free EXCEPT !.pc = "next", !.group = g, !.todo = spec[g]]
<1>1. /\ Types /\ \A d \in Computers : computer[d] = Free \/ computer[d].abandoned
      /\ computer[c] = Free /\ rgPending' = rgPending \ {g}
      /\ computer' = [computer EXCEPT ![c] = w]
      /\ UNCHANGED <<members, cache, object, spec, changes, watcher, stream, handler, rootPending,
                     root, crdTodo, crdReset, published, dirty, lost>>
  BY DEF IInv, Types, Begin, ivars, outside, watch, controllers
<1>2. /\ w \in Works /\ WorkOK(w) /\ w.pc # "fetched"
      /\ spec[g] = None => w = Free
      /\ spec[g] # None => w.pc = "next" /\ w.group = g /\ w.todo = spec[g] /\ ~w.abandoned
  <2>1. CASE spec[g] = None
    BY <1>1, <2>1, FreeFacts
  <2>2. CASE spec[g] # None
    <3>1. spec[g] \in SUBSET Resources
      BY <1>1, <2>2 DEF Types, TypeOK
    <3>2. EmptyMap \in Maps(Resources, Statuses \cup {Unknown})
      BY EmptyMapInMaps
    <3>3. w = [pc |-> "next", group |-> g, todo |-> spec[g], res |-> None, status |-> NoStatus,
               found |-> EmptyMap, raced |-> FALSE, abandoned |-> FALSE]
      BY <2>2 DEF Free
    <3> HIDE DEF w
    <3> QED BY <2>2, <3>1, <3>2, <3>3 DEF Works, WorkOK
  <2> QED BY <2>1, <2>2
<1> HIDE DEF w
<1>3. /\ computer'[c] = w /\ \A d \in Computers \ {c} : computer'[d] = computer[d]
      /\ rgPending' \in SUBSET ResourceGroups
  BY <1>1 DEF Types, TypeOK
<1>4. \A h \in ResourceGroups : \A d \in Computers : ~WorksFor(d, h)
  BY <1>1, FreeFacts DEF WorksFor
<1>5. PublishedOrPending'
  <2> SUFFICES ASSUME NEW h \in ResourceGroups, spec[h] # None, NEW r \in spec[h],
                      r \notin dirty, r \notin lost, ~Pending(h)', ~Told(r)'
               PROVE  Shown(h, r)'
    BY <1>1 DEF PublishedOrPending
  <2>1. CASE h = g
    <3>1. WorksFor(c, g)' /\ r \in computer'[c].todo
      BY <1>2, <1>3, <2>1 DEF WorksFor
    <3>2. \A d \in Computers \ {c} : ~WorksFor(d, g)'
      BY <1>3, <1>4 DEF WorksFor
    <3> QED BY <2>1, <3>1, <3>2 DEF Shown
  <2>2. CASE h # g
    <3>1. ~Pending(h)
      BY <1>1, <2>2 DEF Pending
    <3>2. ~Told(r)
      BY <1>1, SeenKeeps DEF Told
    <3>3. Correct(published[h], r)
      BY <1>4, <3>1, <3>2 DEF IInv, PublishedOrPending, Shown
    <3>4. \A d \in Computers : ~WorksFor(d, h)'
      BY <1>2, <1>3, <1>4, <2>2, FreeFacts DEF WorksFor
    <3>5. Correct(published[h], r)'
      BY <1>1, <3>3 DEF Correct
    <3> QED BY <3>4, <3>5 DEF Shown
  <2> QED BY <2>1, <2>2
<1> QED BY <1>1, <1>2, <1>3, <1>5, WorkedIInv DEF Types, TypeOK

LEMMA LookupIInv ==
  ASSUME IInv, NEW c \in Computers, NEW q \in Resources, Lookup(c, q)
  PROVE  IInv'
<1>1. /\ Types /\ computer[c].pc = "next" /\ q \in computer[c].todo
      /\ computer' = IF Cached(q) # NoStatus THEN Found(c, q, Cached(q))
                     ELSE [computer EXCEPT ![c].pc = "missing", ![c].res = q]
      /\ UNCHANGED <<members, cache, object, spec, changes, watcher, stream, handler, rootPending,
                     root, crdTodo, crdReset, rgPending, published, dirty, lost>>
  BY DEF IInv, Lookup, ivars, outside, watch, controllers
<1>2. /\ rgPending' \in SUBSET ResourceGroups
      /\ published' \in [ResourceGroups -> Maps(Resources, Statuses \cup {Unknown})]
      /\ computer \in [Computers -> Works] /\ computer[c] \in Works /\ WorkOK(computer[c])
  BY <1>1 DEF Types, TypeOK
<1>3. CASE Cached(q) # NoStatus
  <2> PICK s : s = Cached(q)
    OBVIOUS
  <2> DEFINE w == Found(c, q, s)[c]
  <2>1. s \in Statuses
    BY <1>1, <1>3 DEF Types, TypeOK, Cached, Maps
  <2>2. /\ w \in Works /\ WorkOK(w) /\ w.pc = "next"
        /\ Found(c, q, s) = [computer EXCEPT ![c] = w]
    BY <1>1, <2>1, FoundFacts
  <2>3. computer' = [computer EXCEPT ![c] = w] /\ computer'[c] = Found(c, q, s)[c]
    BY <1>1, <1>2, <1>3, <2>2
  <2>4. \A d \in Computers \ {c} : SameWork(computer[d], computer'[d])
    BY <1>2, <2>3 DEF SameWork
  <2>5. ASSUME NEW g \in ResourceGroups, spec[g] # None, NEW r \in spec[g] \ (dirty \cup lost),
               Shown(g, r), ~Pending(g), ~Told(r)
        PROVE  Shown(g, r)'
    <3>1. Included(r) /\ r \in Resources
      BY <1>1, <2>5, Listed DEF IInv, Pending, Types, TypeOK
    <3>2. r # q \/ s \in {object[r], Unknown}
      BY <1>3, <2>5, <3>1 DEF IInv, CacheIsCurrent, Told
    <3>3. computer[c].pc # "free" /\ s \in Statuses \cup {Unknown}
      BY <1>1, <2>1
    <3>4. computer'[c] = Found(c, q, s)[c]
      BY <2>3
    <3>5. object' = object /\ published' = published /\ Types
      BY <1>1
    <3> HIDE DEF w
    <3> QED BY <2>4, <2>5, <3>2, <3>3, <3>4, <3>5, ShownFound
  <2> HIDE DEF w
  <2>6. PublishedOrPending'
    BY <1>1, <2>5, SameShownIInv
  <2> QED BY <1>1, <1>2, <2>2, <2>3, <2>6, WorkedIInv
<1>4. CASE Cached(q) = NoStatus
  <2> DEFINE w == [computer[c] EXCEPT !.pc = "missing", !.res = q]
  <2>1. computer' = [computer EXCEPT ![c] = w]
    BY <1>1, <1>2, <1>4
  <2>2. w \in Works
    BY <1>2 DEF Works
  <2>3. /\ w.pc = "missing" /\ w.group = computer[c].group /\ w.todo = computer[c].todo
        /\ w.found = computer[c].found /\ w.abandoned = computer[c].abandoned /\ w.res = q
    BY <1>2 DEF Works
  <2> HIDE DEF w
  <2>5. WorkOK(w)
    BY <1>1, <1>2, <2>3 DEF WorkOK
  <2>6. computer'[c] = w /\ \A d \in Computers \ {c} : computer'[d] = computer[d]
    BY <1>2, <2>1
  <2>7. ASSUME NEW g, NEW r, Shown(g, r) PROVE Shown(g, r)'
    <3>1. \A d \in Computers : WorksFor(d, g)' <=> WorksFor(d, g)
      BY <1>1, <2>3, <2>6 DEF WorksFor
    <3>2. \A d \in Computers :
            /\ computer'[d].todo = computer[d].todo /\ computer'[d].found = computer[d].found
      BY <2>3, <2>6
    <3> QED BY <1>1, <2>7, <3>1, <3>2 DEF Shown, Correct
  <2>8. PublishedOrPending'
    BY <1>1, <2>7, SameShownIInv
  <2> QED BY <1>1, <1>2, <2>1, <2>2, <2>3, <2>5, <2>8, WorkedIInv
<1> QED BY <1>3, <1>4

\* The object is read, or cannot be.
LEMMA FoundIInv ==
  ASSUME IInv, NEW c \in Computers, computer[c].pc = "missing",
         NEW s \in Statuses \cup {Unknown}, s \in {object[computer[c].res], Unknown},
         computer' = Found(c, computer[c].res, s),
         UNCHANGED <<members, cache, object, spec, changes, watcher, stream, handler, rootPending,
                     root, crdTodo, crdReset, rgPending, published, dirty, lost>>
  PROVE  IInv'
<1> PICK q : q = computer[c].res
  OBVIOUS
<1> DEFINE w == Found(c, q, s)[c]
<1>1. /\ Types /\ q \in Resources
      /\ rgPending' \in SUBSET ResourceGroups
      /\ published' \in [ResourceGroups -> Maps(Resources, Statuses \cup {Unknown})]
      /\ computer \in [Computers -> Works]
  BY DEF IInv, Types, TypeOK, Works, WorkOK
<1>2. /\ w \in Works /\ WorkOK(w) /\ w.pc = "next"
      /\ Found(c, q, s) = [computer EXCEPT ![c] = w]
  <2>1. computer[c].pc # "free"
    OBVIOUS
  <2>2. Types /\ q \in Resources
    BY <1>1
  <2> HIDE DEF w
  <2>3. LET v == Found(c, q, s)[c]
        IN /\ v \in Works /\ WorkOK(v) /\ v.pc = "next"
           /\ Found(c, q, s) = [computer EXCEPT ![c] = v]
    BY <2>1, <2>2, FoundFacts
  <2> QED BY <2>3 DEF w
<1>3. computer' = [computer EXCEPT ![c] = w] /\ computer'[c] = Found(c, q, s)[c]
  BY <1>1, <1>2
<1>4. \A d \in Computers \ {c} : SameWork(computer[d], computer'[d])
  BY <1>1, <1>3 DEF SameWork
<1>5. ASSUME NEW g, NEW r, Shown(g, r) PROVE Shown(g, r)'
  BY <1>1, <1>3, <1>4, <1>5, ShownFound
<1> HIDE DEF w
<1>6. PublishedOrPending'
  BY <1>5, SameShownIInv
<1> QED BY <1>1, <1>2, <1>3, <1>6, WorkedIInv

LEMMA FetchIInv ==
  ASSUME IInv, NEW c \in Computers, Fetch(c)
  PROVE  IInv'
<1> PICK q : q = computer[c].res
  OBVIOUS
<1>1. /\ Types /\ computer[c].pc = "missing"
      /\ computer' = IF object[q] = NotFound THEN Found(c, q, NotFound)
                     ELSE [computer EXCEPT ![c].pc = "fetched", ![c].status = object[q]]
      /\ UNCHANGED <<members, cache, object, spec, changes, watcher, stream, handler, rootPending,
                     root, crdTodo, crdReset, rgPending, published, dirty, lost>>
  BY DEF IInv, Fetch, ivars, outside, watch, controllers
<1>2. /\ rgPending' \in SUBSET ResourceGroups
      /\ published' \in [ResourceGroups -> Maps(Resources, Statuses \cup {Unknown})]
      /\ computer \in [Computers -> Works] /\ computer[c] \in Works /\ WorkOK(computer[c])
      /\ q \in computer[c].todo /\ q \in Resources /\ object[q] \in Statuses
  BY <1>1 DEF Types, TypeOK, Works, WorkOK
<1>3. CASE object[q] = NotFound
  <2>1. NotFound \in {object[q], Unknown} /\ NotFound \in Statuses \cup {Unknown}
    BY <1>2, <1>3
  <2> QED BY <1>1, <1>3, <2>1, FoundIInv
<1>4. CASE object[q] # NotFound
  <2> DEFINE w == [computer[c] EXCEPT !.pc = "fetched", !.status = object[q]]
  <2>1. computer' = [computer EXCEPT ![c] = w]
    BY <1>1, <1>2, <1>4
  <2>2. w \in Works
    BY <1>2 DEF Works
  <2>3. /\ w.pc = "fetched" /\ w.group = computer[c].group /\ w.todo = computer[c].todo
        /\ w.found = computer[c].found /\ w.abandoned = computer[c].abandoned /\ w.res = q
        /\ w.status = object[q]
    BY <1>2 DEF Works
  <2> HIDE DEF w
  <2>5. WorkOK(w)
    BY <1>1, <1>2, <2>3 DEF WorkOK
  <2>6. computer'[c] = w /\ \A d \in Computers \ {c} : computer'[d] = computer[d]
    BY <1>2, <2>1
  <2>7. ASSUME NEW g, NEW r, Shown(g, r) PROVE Shown(g, r)'
    <3>1. \A d \in Computers : WorksFor(d, g)' <=> WorksFor(d, g)
      BY <1>1, <2>3, <2>6 DEF WorksFor
    <3>2. \A d \in Computers :
            /\ computer'[d].todo = computer[d].todo /\ computer'[d].found = computer[d].found
      BY <2>3, <2>6
    <3> QED BY <1>1, <2>7, <3>1, <3>2 DEF Shown, Correct
  <2>8. PublishedOrPending'
    BY <1>1, <2>7, SameShownIInv
  <2> QED BY <1>1, <1>2, <2>1, <2>2, <2>3, <2>5, <2>8, WorkedIInv
<1> QED BY <1>3, <1>4

LEMMA FetchFailsIInv ==
  ASSUME IInv, NEW c \in Computers, FetchFails(c)
  PROVE  IInv'
BY FoundIInv DEF FetchFails, ivars, outside, watch, controllers

LEMMA StoreIInv ==
  ASSUME IInv, NEW c \in Computers, Store(c)
  PROVE  IInv'
<1> PICK q, s : q = computer[c].res /\ s = computer[c].status
  OBVIOUS
<1>1. /\ Types /\ computer[c].pc = "fetched" /\ CacheStatus(q, s)
      /\ computer' = [d \in Computers |-> IF d = c THEN Found(c, q, s)[c] ELSE Race({q})[d]]
      /\ dirty' = IF computer[c].raced \/ ~Included(q) THEN dirty \cup {q} ELSE dirty
      /\ UNCHANGED <<object, spec, changes, watcher, stream, handler, rootPending, root, crdTodo,
                     crdReset, rgPending, published, lost>>
  BY DEF IInv, Store, outside, watch, controllers
<1>2. q \in Resources /\ s \in Statuses
  BY <1>1 DEF Types, Works, WorkOK
<1>3. /\ cache' = Put(cache, q, s) /\ members' = members
      /\ \A r : Included(r)' <=> Included(r)
      /\ Cached(q)' = s
      /\ \A r : r # q => Cached(r)' = Cached(r)
  BY <1>1, CacheStatusEffect DEF CacheStatus
<1>4. /\ computer'[c] = Found(c, q, s)[c] /\ computer'[c] \in Works /\ WorkOK(computer'[c])
      /\ computer'[c].pc = "next"
  BY <1>1, <1>2, FoundFacts
<1>5. \A d \in Computers \ {c} :
        /\ computer'[d] \in Works /\ WorkOK(computer'[d])
        /\ SameWork(computer[d], computer'[d])
        /\ computer'[d].raced =
             (computer[d].raced \/ (computer[d].pc = "fetched" /\ computer[d].res \in {q}))
  BY <1>1, RaceFacts
<1>6. computer' \in [Computers -> Works] /\ \A d \in Computers : WorkOK(computer'[d])
  BY <1>1, <1>4, <1>5
<1>7. Types'
  <2>1. cache' \in Maps(Resources, Statuses \cup {NoStatus})
    BY <1>1, <1>2, <1>3, PutInMaps DEF Types, TypeOK
  <2>2. dirty' \in SUBSET Resources
    BY <1>1, <1>2 DEF Types, TypeOK
  <2> QED BY <1>1, <1>3, <1>6, <2>1, <2>2, WorkFacts DEF Types, TypeOK
<1>8. MembersFollow'
  BY <1>1, <1>3 DEF IInv, MembersFollow
<1>9. LeftoversAreDirty'
  BY StoreKeeps DEF IInv
<1>10. (\A r : Coming(r)' = Coming(r)) /\ LastEventIsCurrent'
  BY <1>1, SeenKeeps DEF IInv
<1>11. ASSUME Included(q), q \notin dirty', q \notin lost, ~Coming(q)
       PROVE  s = object[q]
  BY <1>1, <1>2, <1>11 DEF IInv, FetchedIsCurrent
<1>12. CacheIsCurrent'
  <2> SUFFICES ASSUME NEW r \in Resources, Included(r), r \notin dirty', r \notin lost, ~Coming(r)
               PROVE  Cached(r)' \in {NoStatus, object[r]}
    BY <1>1, <1>3, <1>10 DEF CacheIsCurrent
  <2>1. CASE r = q
    BY <1>3, <1>11, <2>1
  <2>2. CASE r # q
    BY <1>1, <1>3, <2>2 DEF IInv, CacheIsCurrent
  <2> QED BY <2>1, <2>2
<1>13. FetchedIsCurrent'
  <2> SUFFICES ASSUME NEW d \in Computers, NEW r \in Resources, computer'[d].pc = "fetched",
                      ~computer'[d].raced, computer'[d].res = r, Included(r), r \notin lost,
                      ~Coming(r)
               PROVE  computer'[d].status = object[r]
    BY <1>1, <1>3, <1>10 DEF FetchedIsCurrent
  <2>1. d # c
    BY <1>4
  <2>2. /\ computer[d].pc = "fetched" /\ computer[d].res = r /\ ~computer[d].raced
        /\ computer'[d].status = computer[d].status
    BY <1>5, <2>1 DEF SameWork
  <2> QED BY <2>2 DEF IInv, FetchedIsCurrent
<1>14. PublishedOrPending'
  <2> SUFFICES ASSUME NEW g \in ResourceGroups, spec[g] # None, NEW r \in spec[g],
                      r \notin dirty', r \notin lost, ~Pending(g), ~Told(r)'
               PROVE  Shown(g, r)'
    BY <1>1 DEF PublishedOrPending, Pending
  <2>1. ~Told(r) /\ r \notin dirty
    BY <1>1, <1>10 DEF Told
  <2>2. Shown(g, r)
    BY <2>1 DEF IInv, PublishedOrPending
  <2>3. Included(r) /\ ~Coming(r)
    BY <2>1, Listed DEF IInv, Pending, Told
  <2>4. r # q \/ s \in {object[r], Unknown}
    BY <1>11, <2>3
  <2>5. /\ Types /\ computer[c].pc # "free" /\ s \in Statuses \cup {Unknown}
        /\ \A d \in Computers \ {c} : SameWork(computer[d], computer'[d])
        /\ object' = object /\ published' = published
    BY <1>1, <1>2, <1>5
  <2>6. computer'[c] = Found(c, q, s)[c]
    BY <1>4
  <2> QED BY <1>2, <2>2, <2>4, <2>5, <2>6, ShownFound
<1> QED BY <1>7, <1>8, <1>9, <1>10, <1>12, <1>13, <1>14 DEF IInv

LEMMA PublishIInv ==
  ASSUME IInv, NEW c \in Computers, Publish(c)
  PROVE  IInv'
<1> PICK g : g = computer[c].group
  OBVIOUS
<1>1. /\ Types /\ computer[c].pc = "next" /\ computer[c].todo = {}
      /\ computer' = [computer EXCEPT ![c] = Free]
      /\ published' = IF computer[c].abandoned \/ spec[g] = None THEN published
                      ELSE [published EXCEPT ![g] = computer[c].found]
      /\ UNCHANGED <<members, cache, object, spec, changes, watcher, stream, handler, rootPending,
                     root, crdTodo, crdReset, rgPending, dirty, lost>>
  BY DEF IInv, Publish, ivars, outside, watch, controllers
<1>2. /\ computer \in [Computers -> Works] /\ computer[c] \in Works /\ WorkOK(computer[c])
      /\ g \in ResourceGroups /\ rgPending' \in SUBSET ResourceGroups
      /\ computer[c].found \in Maps(Resources, Statuses \cup {Unknown})
  BY <1>1 DEF Types, TypeOK, Works, WorkOK
<1>3. published' \in [ResourceGroups -> Maps(Resources, Statuses \cup {Unknown})]
  BY <1>1, <1>2 DEF Types, TypeOK
<1>4. computer'[c] = Free /\ \A d \in Computers \ {c} : computer'[d] = computer[d]
  BY <1>1, <1>2
<1>5. /\ \A h : ~WorksFor(c, h)'
      /\ \A h : \A d \in Computers \ {c} : WorksFor(d, h)' <=> WorksFor(d, h)
  BY <1>4, FreeFacts DEF WorksFor
<1>6. ASSUME NEW h \in ResourceGroups, spec[h] # None, NEW r \in spec[h] \ (dirty \cup lost),
             Shown(h, r)
      PROVE  Shown(h, r)'
  <2>1. \A d \in Computers \ {c} : r \in computer[d].todo \/ Correct(computer[d].found, r)
          => r \in computer'[d].todo \/ Correct(computer[d].found, r)'
    BY <1>1, <1>4 DEF Correct
  <2>2. CASE WorksFor(c, h)
    <3>1. h = g /\ published'[h] = computer[c].found
      BY <1>1, <1>2, <1>6, <2>2 DEF WorksFor, Types, TypeOK
    <3>2. Correct(computer[c].found, r)
      BY <1>1, <1>6, <2>2 DEF Shown
    <3>3. Correct(published[h], r)'
      BY <1>1, <3>1, <3>2 DEF Correct
    <3> QED BY <1>5, <1>6, <2>1, <2>2, <3>3 DEF Shown
  <2>3. CASE ~WorksFor(c, h)
    <3>1. published'[h] = published[h]
      BY <1>1, <1>2, <1>6, <2>3 DEF WorksFor, Types, TypeOK
    <3>2. Correct(published[h], r) => Correct(published[h], r)'
      BY <1>1, <3>1 DEF Correct
    <3> QED BY <1>5, <1>6, <2>1, <2>3, <3>2 DEF Shown
  <2> QED BY <2>2, <2>3
<1>7. PublishedOrPending'
  BY <1>1, <1>6, SameShownIInv
<1> QED BY <1>1, <1>2, <1>3, <1>7, FreeFacts, WorkedIInv

LEMMA AbandonIInv ==
  ASSUME IInv, NEW c \in Computers, Abandon(c)
  PROVE  IInv'
<1>1. /\ Types /\ computer[c] # Free /\ ~computer[c].abandoned
      /\ computer' = [computer EXCEPT ![c].abandoned = TRUE, ![c].found = EmptyMap]
      /\ rgPending' = rgPending \cup {computer[c].group}
      /\ UNCHANGED <<members, cache, object, spec, changes, watcher, stream, handler, rootPending,
                     root, crdTodo, crdReset, published, dirty, lost>>
  BY DEF IInv, Abandon, ivars, outside, watch, controllers
<1>2. /\ computer \in [Computers -> Works] /\ computer[c] \in Works /\ WorkOK(computer[c])
      /\ published' \in [ResourceGroups -> Maps(Resources, Statuses \cup {Unknown})]
  BY <1>1 DEF Types, TypeOK
<1>3. rgPending' \in SUBSET ResourceGroups /\ computer[c].pc # "free"
  BY <1>1, <1>2, WorkFacts DEF Types, TypeOK, WorkOK
<1> DEFINE w == [computer[c] EXCEPT !.abandoned = TRUE, !.found = EmptyMap]
<1>4. computer' = [computer EXCEPT ![c] = w]
  BY <1>1, <1>2
<1>5. EmptyMap \in Maps(Resources, Statuses \cup {Unknown})
  BY EmptyMapInMaps
<1>6. /\ w.pc = computer[c].pc /\ w.group = computer[c].group /\ w.todo = computer[c].todo
      /\ w.res = computer[c].res /\ w.status = computer[c].status
      /\ w.raced = computer[c].raced /\ w.abandoned
  BY <1>2 DEF Works
<1>7. w \in Works
  BY <1>2, <1>5 DEF Works
<1> HIDE DEF w
<1>8. WorkOK(w)
  BY <1>2, <1>3, <1>6 DEF WorkOK
<1>9. computer'[c] = w /\ \A d \in Computers \ {c} : computer'[d] = computer[d]
  BY <1>2, <1>4
<1>10. PublishedOrPending'
  <2> SUFFICES ASSUME NEW h \in ResourceGroups, spec[h] # None, NEW r \in spec[h],
                      r \notin dirty, r \notin lost, ~Pending(h)', ~Told(r)'
               PROVE  Shown(h, r)'
    BY <1>1 DEF PublishedOrPending
  <2>1. ~Pending(h) /\ h # computer[c].group
    BY <1>1 DEF Pending
  <2>2. ~Told(r)
    BY <1>1, SeenKeeps DEF Told
  <2>3. Shown(h, r)
    BY <2>1, <2>2 DEF IInv, PublishedOrPending
  <2>4. ~WorksFor(c, h) /\ ~WorksFor(c, h)'
    BY <1>6, <1>9, <2>1 DEF WorksFor
  <2>5. \A d \in Computers : WorksFor(d, h)' <=> WorksFor(d, h)
    BY <1>9, <2>4 DEF WorksFor
  <2>6. \A d \in Computers \ {c} : r \in computer[d].todo \/ Correct(computer[d].found, r)
          => r \in computer'[d].todo \/ Correct(computer[d].found, r)'
    BY <1>1, <1>9 DEF Correct
  <2>7. Correct(published[h], r) => Correct(published[h], r)'
    BY <1>1 DEF Correct
  <2> QED BY <2>3, <2>4, <2>5, <2>6, <2>7 DEF Shown
<1> QED BY <1>1, <1>2, <1>3, <1>4, <1>6, <1>7, <1>8, <1>10, WorkedIInv

-----------------------------------------------------------------------------
(* The whole.                                                              *)

LEMMA InitIInv ==
  ASSUME Init
  PROVE  IInv
<1>1. /\ members = EmptyMap /\ cache = EmptyMap /\ object \in [Resources -> Statuses]
      /\ spec \in [ResourceGroups -> (SUBSET Resources) \cup {None}] /\ changes = 0
      /\ watcher = None /\ stream = [r \in Resources |-> <<>>]
      /\ handler = [h \in Handlers |-> Idle]
      /\ rootPending = {g \in ResourceGroups : spec[g] # None} /\ root = None
      /\ crdTodo = {} /\ crdReset = None /\ rgPending = {}
      /\ computer = [c \in Computers |-> Free]
      /\ published = [g \in ResourceGroups |-> EmptyMap] /\ dirty = {} /\ lost = {}
  BY DEF Init, IndexInit
<1>2. /\ members \in Maps(ResourceGroups, SUBSET Resources)
      /\ cache \in Maps(Resources, Statuses \cup {NoStatus})
      /\ published \in [ResourceGroups -> Maps(Resources, Statuses \cup {Unknown})]
  BY <1>1, EmptyMapInMaps
<1>3. /\ computer \in [Computers -> Works]
      /\ \A c \in Computers : computer[c] = Free /\ WorkOK(computer[c])
  BY <1>1, FreeFacts
<1>4. /\ stream \in [Resources -> Seq(Statuses)] /\ \A r \in Resources : stream[r] = <<>>
      /\ changes \in 0..MaxChanges
      /\ handler \in [Handlers -> {Idle} \cup [phase : {"checked", "cached"}, res : Resources,
                                               status : Statuses]]
  BY <1>1, MaxChangesAssumption
<1>5. Types
  BY <1>1, <1>2, <1>3, <1>4 DEF Types, TypeOK
<1>6. \A r : ~Included(r) /\ Cached(r) = NoStatus
  BY <1>1 DEF EmptyMap, Included, GroupsOf, Cached
<1>7. MembersFollow
  BY <1>1 DEF MembersFollow, EmptyMap
<1>8. LeftoversAreDirty /\ LastEventIsCurrent /\ CacheIsCurrent /\ FetchedIsCurrent
  BY <1>1, <1>6 DEF LeftoversAreDirty, LastEventIsCurrent, CacheIsCurrent, FetchedIsCurrent
<1>9. PublishedOrPending
  BY <1>1 DEF PublishedOrPending, Pending
<1> QED BY <1>5, <1>7, <1>8, <1>9 DEF IInv

LEMMA NothingIInv ==
  ASSUME IInv, UNCHANGED vars
  PROVE  IInv'
<1>1. UNCHANGED <<members, cache, object, spec, changes, watcher, stream, handler, rootPending, root,
                  crdTodo, crdReset, rgPending, computer, published, dirty, lost>>
  BY DEF vars, ivars, outside, watch, controllers, rg
<1>2. Types'
  BY <1>1 DEF IInv, Types, TypeOK
<1>3. MembersFollow' /\ \A g \in ResourceGroups : Pending(g) => Pending(g)'
  BY <1>1 DEF IInv, MembersFollow, Pending
<1>4. (\A r : Coming(r)' = Coming(r)) /\ LastEventIsCurrent'
  BY <1>1, SeenKeeps DEF IInv
<1> QED BY <1>1, <1>2, <1>3, <1>4, RewatchedIInv

LEMMA NextIInv ==
  ASSUME IInv, [Next]_vars
  PROVE  IInv'
<1>1. CASE \E r \in Resources, s \in Statuses : ChangeObject(r, s)
  BY <1>1, ChangeObjectIInv
<1>2. CASE \E g \in ResourceGroups, R \in (SUBSET Resources) \cup {None} : ChangeSpec(g, R)
  BY <1>2, ChangeSpecIInv
<1>3. CASE Expire \/ Die
  BY <1>3, ExpireIInv, DieIInv
<1>4. CASE \E r \in Resources : Receive(r) \/ ResetStatus(r)
  BY <1>4, ReceiveIInv, ResetStatusIInv
<1>5. CASE \E h \in Handlers : Cache(h) \/ Notify(h)
  BY <1>5, CacheIInv, NotifyIInv
<1>6. CASE \E g \in ResourceGroups : Reconcile(g) \/ \E c \in Computers : Begin(c, g)
  BY <1>6, ReconcileIInv, BeginIInv
<1>7. CASE Watch \/ WatchFails
  BY <1>7, WatchIInv, WatchFailsIInv
<1>8. CASE CRDEvent \/ NotifyReset
  BY <1>8, CRDEventIInv, NotifyResetIInv
<1>9. CASE \E c \in Computers : Fetch(c) \/ FetchFails(c) \/ Store(c) \/ Publish(c) \/ Abandon(c)
  BY <1>9, FetchIInv, FetchFailsIInv, StoreIInv, PublishIInv, AbandonIInv
<1>10. CASE \E c \in Computers, r \in Resources : Lookup(c, r)
  BY <1>10, LookupIInv
<1>11. CASE UNCHANGED vars
  BY <1>11, NothingIInv
<1> QED BY <1>1, <1>2, <1>3, <1>4, <1>5, <1>6, <1>7, <1>8, <1>9, <1>10, <1>11 DEF Next

THEOREM Invariance == Spec => []IInv
BY InitIInv, NextIInv, PTL DEF Spec

(***************************************************************************)
(* The map, the watches, the requests, the goroutines and what they        *)
(* publish have their types; a goroutine that publishes has a status for   *)
(* resources only (resourcegroup_controller.go:281-336).                   *)
(***************************************************************************)
THEOREM TypeCorrect == Spec => []TypeOK
<1>1. IInv => TypeOK
  BY DEF IInv, Types
<1> QED BY <1>1, Invariance, PTL

(***************************************************************************)
(* Whatever the order of the watch events (filteredwatcher.go:306-325),    *)
(* the reconciles of Root, the CRD resets and the goroutines that compute  *)
(* statuses (resourcegroup_controller.go:281-336), at rest what the CR of  *)
(* a group says of a resource is the status of the object, or Unknown      *)
(* after a failed read; the exceptions are the late writes (dirty), the    *)
(* deletions that no watch has seen (lost), and a kind without a watcher.  *)
(***************************************************************************)
THEOREM PublishedStaysCurrent == Spec => []PublishedIsCurrent
<1>1. IInv => PublishedIsCurrent
  <2> SUFFICES ASSUME IInv, Quiet, watcher # None, NEW g \in ResourceGroups, spec[g] # None,
                      NEW r \in spec[g] \ (dirty \cup lost)
               PROVE  Correct(published[g], r)
    BY DEF PublishedIsCurrent, Correct
  <2>1. r \in Resources /\ watcher \in Handlers
    BY DEF IInv, Types, TypeOK
  <2>2. ~Pending(g)
    BY NoneAssumption DEF Quiet, Pending
  <2>3. ~Handled(r) /\ stream[r] = <<>>
    BY <2>1 DEF Quiet, Handled, Idle
  <2>4. r # None
    BY <2>1, NoneAssumption
  <2>5. ~Told(r)
    BY <2>3, <2>4 DEF Quiet, Told, Coming, Idle
  <2>6. \A c \in Computers : ~WorksFor(c, g)
    BY DEF Quiet, WorksFor, Free
  <2> QED BY <2>2, <2>5, <2>6 DEF IInv, PublishedOrPending, Shown
<1> QED BY <1>1, Invariance, PTL
=============================================================================
