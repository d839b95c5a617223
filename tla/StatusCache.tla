---------------------------- MODULE StatusCache ----------------------------
(***************************************************************************)
(* The cached statuses and those who write them: the watcher of a kind     *)
(* (handle of controllers/watch/filteredwatcher.go), the goroutines that   *)
(* compute the statuses of a group (computeStatus of                       *)
(* controllers/resourcegroup), the CRD event handler, and the Root         *)
(* controller that decides which resources are included.                   *)
(*                                                                         *)
(* ResourceMap is used as ResourceIndex promises.  Everybody reads, then   *)
(* computes, then calls SetStatus, and nobody holds a lock from the read   *)
(* to the write.  All resources are of one kind, so that there is one      *)
(* watcher or none; one that has been stopped finishes the event it has.   *)
(* A status stands for the objects that ComputeStatus gives that status,   *)
(* and NotFound for no object.                                             *)
(*                                                                         *)
(* Requests are pending for any time (see Throttler and GroupStatus for    *)
(* what may happen to them), and every status computed is published.       *)
(***************************************************************************)
EXTENDS ResourceIndex, Naturals, Sequences

CONSTANTS
  NotFound, Unknown,  \* the statuses the program makes up itself
  None,               \* no CR, no watcher, no group, no resource
  Handlers,           \* identities of watchers
  Computers,          \* identities of the goroutines that compute statuses
  MaxChanges          \* bound on the changes outside of the program

ASSUME StatusesAssumption == NotFound \in Statuses /\ {Unknown, NoStatus} \cap Statuses = {}
ASSUME NoneAssumption == None \notin ResourceGroups \cup Resources \cup Handlers
ASSUME MaxChangesAssumption == MaxChanges \in Nat

VARIABLES
  \* Outside of the program.
  object,       \* resource -> the status of its object
  spec,         \* group -> the resources its CR lists, or None
  changes,
  \* The watcher.
  watcher,      \* the one that is in the watch manager, or None
  stream,       \* resource -> its events that the watcher has not received
  handler,      \* watcher -> the event it handles
  \* Root and the CRD event handler.
  rootPending,
  root,         \* the group between Reconcile and the event of lines 140 and 128
  crdTodo,      \* resources whose cached status the CRD handler is to reset
  crdReset,     \* the resource it has reset and not sent events for
  \* The ResourceGroup controller.
  rgPending,
  computer,     \* goroutine -> its work
  published,    \* group -> the statuses in its CR
  \* Only the properties read these.
  dirty,        \* resources cached by a write that came too late
  lost          \* resources whose deletion no watcher has seen

outside == <<object, spec, changes>>
watch == <<watcher, stream, handler>>
controllers == <<rootPending, root, crdTodo, crdReset>>
rg == <<rgPending, computer, published>>
vars == <<ivars, outside, watch, controllers, rg, dirty, lost>>

Idle == [phase |-> "idle", res |-> None, status |-> NoStatus]
Free == [pc |-> "free", group |-> None, todo |-> {}, res |-> None, status |-> NoStatus,
         found |-> EmptyMap, raced |-> FALSE, abandoned |-> FALSE]

TypeOK ==
  /\ members \in Maps(ResourceGroups, SUBSET Resources)
  /\ cache \in Maps(Resources, Statuses \cup {NoStatus})
  /\ object \in [Resources -> Statuses]
  /\ spec \in [ResourceGroups -> (SUBSET Resources) \cup {None}]
  /\ changes \in 0..MaxChanges
  /\ watcher \in Handlers \cup {None}
  /\ \A r \in Resources : stream[r] \in Seq(Statuses) /\ (watcher = None => stream[r] = <<>>)
  /\ handler \in [Handlers -> {Idle} \cup [phase : {"checked", "cached"}, res : Resources,
                                           status : Statuses]]
  /\ rootPending \in SUBSET ResourceGroups
  /\ root \in ResourceGroups \cup {None}
  /\ crdTodo \in SUBSET Resources
  /\ crdReset \in Resources \cup {None}
  /\ rgPending \in SUBSET ResourceGroups
  /\ \A c \in Computers : computer[c] = Free \/
       /\ computer[c].pc \in {"next", "missing", "fetched"}
       /\ computer[c].group \in ResourceGroups
       /\ computer[c].todo \in SUBSET Resources
       /\ computer[c].found \in Maps(Resources, Statuses \cup {Unknown})
  /\ published \in [ResourceGroups -> Maps(Resources, Statuses \cup {Unknown})]
  /\ dirty \in SUBSET Resources
  /\ lost \in SUBSET Resources

\* The process starts, with any objects and CRs.
Init ==
  /\ IndexInit
  /\ object \in [Resources -> Statuses]
  /\ spec \in [ResourceGroups -> (SUBSET Resources) \cup {None}]
  /\ changes = 0
  /\ watcher = None
  /\ stream = [r \in Resources |-> <<>>]
  /\ handler = [h \in Handlers |-> Idle]
  /\ rootPending = {g \in ResourceGroups : spec[g] # None}
  /\ root = None
  /\ crdTodo = {}
  /\ crdReset = None
  /\ rgPending = {}
  /\ computer = [c \in Computers |-> Free]
  /\ published = [g \in ResourceGroups |-> EmptyMap]
  /\ dirty = {}
  /\ lost = {}

\* ResourceMap.Get
GroupsOf(r) == {g \in DOMAIN members : r \in members[g]}
Included(r) == GroupsOf(r) # {}
Cached(r) == IF r \in DOMAIN cache THEN cache[r] ELSE NoStatus

\* A goroutine that has read the object of r and not cached its status yet
\* is too late once somebody else writes the status or the membership.
Race(R) ==
  [c \in Computers |-> IF computer[c].pc = "fetched" /\ computer[c].res \in R
                       THEN [computer[c] EXCEPT !.raced = TRUE] ELSE computer[c]]

-----------------------------------------------------------------------------
(* Outside.                                                                *)

ChangeObject(r, s) ==
  /\ changes < MaxChanges
  /\ changes' = changes + 1
  /\ s # object[r]
  /\ object' = [object EXCEPT ![r] = s]
  /\ stream' = IF watcher = None THEN stream ELSE [stream EXCEPT ![r] = Append(@, s)]
  /\ lost' = IF s = NotFound /\ watcher = None THEN lost \cup {r} ELSE lost \ {r}
  /\ UNCHANGED <<ivars, spec, watcher, handler, controllers, rg, dirty>>

\* The CR is created, changed or deleted; Root is told.
ChangeSpec(g, R) ==
  /\ changes < MaxChanges
  /\ changes' = changes + 1
  /\ R # spec[g]
  /\ spec' = [spec EXCEPT ![g] = R]
  /\ rootPending' = rootPending \cup {g}
  /\ published' = IF R = None THEN [published EXCEPT ![g] = EmptyMap] ELSE published
  /\ UNCHANGED <<ivars, object, watch, root, crdTodo, crdReset, rgPending, computer, dirty, lost>>

-----------------------------------------------------------------------------
(* The watcher.                                                            *)

\* A watch at resource version "" begins with the objects that there are.
\* What was deleted since the last watch is not in it.
Added == [r \in Resources |-> IF object[r] = NotFound THEN <<>> ELSE <<object[r]>>]
Unseen == {r \in Resources : stream[r] # <<>> /\ object[r] = NotFound}

\* The version is expired (lines 180-186) and the watch starts anew.
Expire ==
  /\ watcher # None
  /\ handler[watcher] = Idle
  /\ changes < MaxChanges
  /\ changes' = changes + 1
  /\ stream' = Added
  /\ lost' = lost \cup Unseen
  /\ UNCHANGED <<ivars, object, spec, watcher, handler, controllers, rg, dirty>>

\* Bug: the entry is deleted, but the watch goes on.
DieStreaming ==
  /\ watcher # None
  /\ handler[watcher] = Idle
  /\ changes < MaxChanges
  /\ changes' = changes + 1
  /\ watcher' = None
  /\ lost' = lost \cup Unseen
  /\ UNCHANGED <<ivars, object, spec, stream, handler, controllers, rg, dirty>>

\* The watch cannot be started again, and runWatcher deletes the watcher.
Die ==
  /\ watcher # None
  /\ handler[watcher] = Idle
  /\ changes < MaxChanges
  /\ changes' = changes + 1
  /\ watcher' = None
  /\ stream' = [r \in Resources |-> <<>>]
  /\ lost' = lost \cup Unseen
  /\ UNCHANGED <<ivars, object, spec, handler, controllers, rg, dirty>>

\* Bug: an object whose status is cached is ignored.
ReceiveUncached(r) ==
  /\ watcher # None
  /\ handler[watcher] = Idle
  /\ stream[r] # <<>>
  /\ stream' = [stream EXCEPT ![r] = Tail(@)]
  /\ IF Included(r) /\ Cached(r) = NoStatus
     THEN handler' = [handler EXCEPT ![watcher] =
                        [phase |-> "checked", res |-> r, status |-> Head(stream[r])]]
     ELSE UNCHANGED handler
  /\ UNCHANGED <<ivars, outside, watcher, controllers, rg, dirty, lost>>

\* handle, up to shouldProcess: an object that is not included is ignored.
Receive(r) ==
  /\ watcher # None
  /\ handler[watcher] = Idle
  /\ stream[r] # <<>>
  /\ stream' = [stream EXCEPT ![r] = Tail(@)]
  /\ IF Included(r)
     THEN handler' = [handler EXCEPT ![watcher] =
                        [phase |-> "checked", res |-> r, status |-> Head(stream[r])]]
     ELSE UNCHANGED handler
  /\ UNCHANGED <<ivars, outside, watcher, controllers, rg, dirty, lost>>

\* Lines 306-316.
Cache(h) ==
  LET r == handler[h].res IN
  /\ handler[h].phase = "checked"
  /\ handler' = [handler EXCEPT ![h].phase = "cached"]
  /\ CacheStatus(r, handler[h].status)
  /\ computer' = Race({r})
  /\ dirty' = IF h = watcher /\ Included(r) THEN dirty \ {r} ELSE dirty \cup {r}
  /\ lost' = lost \ {r}
  /\ UNCHANGED <<outside, watcher, stream, controllers, rgPending, published>>

\* Lines 318-325.
Notify(h) ==
  /\ handler[h].phase = "cached"
  /\ handler' = [handler EXCEPT ![h] = Idle]
  /\ rgPending' = rgPending \cup GroupsOf(handler[h].res)
  /\ UNCHANGED <<ivars, outside, watcher, stream, controllers, computer, published, dirty, lost>>

-----------------------------------------------------------------------------
(* The Root controller: the map, then the watches and the event.           *)

\* Bug: the statuses of the resources that are gone stay.
ReconcileKeepingStatuses(g) ==
  /\ root = None
  /\ g \in rootPending
  /\ rootPending' = rootPending \ {g}
  /\ root' = g
  /\ members' = IF spec[g] = None THEN Drop(members, g) ELSE Put(members, g, spec[g])
  /\ kinds' = KindsOf(members')
  /\ UNCHANGED <<cache, outside, watch, crdTodo, crdReset, rg, dirty, lost>>

Reconcile(g) ==
  /\ root = None
  /\ g \in rootPending
  /\ rootPending' = rootPending \ {g}
  /\ root' = g
  /\ IF spec[g] = None THEN DeleteGroup(g) ELSE SetMembers(g, spec[g])
  /\ LET gone == {r \in Resources : Included(r) /\ ~Included(r)'}
         come == {r \in Resources : ~Included(r) /\ Included(r)'}
     IN /\ computer' = Race(gone \cup come)
        /\ dirty' = dirty \ gone
        /\ lost' = lost \ gone
  /\ UNCHANGED <<outside, watch, crdTodo, crdReset, rgPending, published>>

\* updateWatches
UpdateWatches ==
  IF \A r \in Resources : ~Included(r)
  THEN /\ watcher' = None
       /\ stream' = [r \in Resources |-> <<>>]
       /\ lost' = lost \cup Unseen
  ELSE IF watcher = None
  THEN /\ \E h \in Handlers : handler[h] = Idle /\ watcher' = h
       /\ stream' = Added
       /\ UNCHANGED lost
  ELSE UNCHANGED <<watcher, stream, lost>>

Watch ==
  /\ root # None
  /\ UpdateWatches
  /\ root' = None
  /\ rgPending' = IF spec[root] = None THEN rgPending ELSE rgPending \cup {root}
  /\ UNCHANGED <<ivars, outside, handler, rootPending, crdTodo, crdReset, computer, published, dirty>>

\* UpdateWatches returns an error: no event is sent, the request comes again.
WatchFails ==
  /\ root # None
  /\ watcher = None
  /\ \E r \in Resources : Included(r)
  /\ root' = None
  /\ rootPending' = rootPending \cup {root}
  /\ UNCHANGED <<ivars, outside, watch, crdTodo, crdReset, rg, dirty, lost>>

-----------------------------------------------------------------------------
(* The CRD event handler.                                                  *)

CRDEvent ==
  /\ crdTodo = {}
  /\ crdReset = None
  /\ changes < MaxChanges
  /\ changes' = changes + 1
  /\ crdTodo' = {r \in Resources : Included(r)}
  /\ UNCHANGED <<ivars, object, spec, watch, rootPending, root, crdReset, rg, dirty, lost>>

ResetStatus(r) ==
  /\ crdReset = None
  /\ r \in crdTodo
  /\ crdTodo' = crdTodo \ {r}
  /\ crdReset' = r
  /\ CacheStatus(r, NoStatus)
  /\ computer' = Race({r})
  /\ dirty' = dirty \ {r}
  /\ lost' = lost \ {r}
  /\ UNCHANGED <<outside, watch, rootPending, root, rgPending, published>>

NotifyReset ==
  /\ crdReset # None
  /\ crdReset' = None
  /\ rgPending' = rgPending \cup GroupsOf(crdReset)
  /\ UNCHANGED <<ivars, outside, watch, rootPending, root, crdTodo, computer, published, dirty, lost>>

-----------------------------------------------------------------------------
(* The ResourceGroup controller: endReconcilingStatus and computeStatus.   *)

\* The single worker waits for a goroutine that it has not given up.
Begin(c, g) ==
  /\ \A d \in Computers : computer[d] = Free \/ computer[d].abandoned
  /\ computer[c] = Free
  /\ g \in rgPending
  /\ rgPending' = rgPending \ {g}
  /\ computer' = IF spec[g] = None THEN computer
                 ELSE [computer EXCEPT ![c] = [Free EXCEPT !.pc = "next", !.group = g,
                                                           !.todo = spec[g]]]
  /\ UNCHANGED <<ivars, outside, watch, controllers, published, dirty, lost>>

\* The status of r is s: on to the next resource.
Found(c, r, s) ==
  LET w == computer[c]
  IN [computer EXCEPT ![c] =
       [w EXCEPT !.pc = "next", !.res = None, !.status = NoStatus, !.raced = FALSE,
                 !.todo = w.todo \ {r},
                 !.found = IF w.abandoned THEN w.found ELSE Put(w.found, r, s)]]

Lookup(c, r) ==
  /\ computer[c].pc = "next"
  /\ r \in computer[c].todo
  /\ computer' = IF Cached(r) # NoStatus THEN Found(c, r, Cached(r))
                 ELSE [computer EXCEPT ![c].pc = "missing", ![c].res = r]
  /\ UNCHANGED <<ivars, outside, watch, controllers, rgPending, published, dirty, lost>>

\* The object is read from the API server (the client does not cache
\* unstructured objects); that there is none, or no such kind, is not cached.
Fetch(c) ==
  /\ computer[c].pc = "missing"
  /\ computer' = LET r == computer[c].res IN
                 IF object[r] = NotFound THEN Found(c, r, NotFound)
                 ELSE [computer EXCEPT ![c].pc = "fetched", ![c].status = object[r]]
  /\ UNCHANGED <<ivars, outside, watch, controllers, rgPending, published, dirty, lost>>

\* Another error: Unknown is published, nothing is cached, nobody tries again.
FetchFails(c) ==
  /\ computer[c].pc = "missing"
  /\ computer' = Found(c, computer[c].res, Unknown)
  /\ UNCHANGED <<ivars, outside, watch, controllers, rgPending, published, dirty, lost>>

\* Line 325.
Store(c) ==
  LET r == computer[c].res IN
  /\ computer[c].pc = "fetched"
  /\ CacheStatus(r, computer[c].status)
  /\ computer' = [d \in Computers |-> IF d = c THEN Found(c, r, computer[c].status)[c]
                                      ELSE Race({r})[d]]
  /\ dirty' = IF computer[c].raced \/ ~Included(r) THEN dirty \cup {r} ELSE dirty
  /\ UNCHANGED <<outside, watch, controllers, rgPending, published, lost>>

Publish(c) ==
  /\ computer[c].pc = "next"
  /\ computer[c].todo = {}
  /\ computer' = [computer EXCEPT ![c] = Free]
  /\ LET g == computer[c].group IN
     published' = IF computer[c].abandoned \/ spec[g] = None THEN published
                  ELSE [published EXCEPT ![g] = computer[c].found]
  /\ UNCHANGED <<ivars, outside, watch, controllers, rgPending, dirty, lost>>

\* The timeout: the goroutine goes on, and the group is tried again.
Abandon(c) ==
  /\ computer[c] # Free
  /\ ~computer[c].abandoned
  /\ \E d \in Computers : computer[d] = Free
  /\ computer' = [computer EXCEPT ![c].abandoned = TRUE, ![c].found = EmptyMap]
  /\ rgPending' = rgPending \cup {computer[c].group}
  /\ UNCHANGED <<ivars, outside, watch, controllers, published, dirty, lost>>

-----------------------------------------------------------------------------

Next ==
  \/ \E r \in Resources, s \in Statuses : ChangeObject(r, s)
  \/ \E g \in ResourceGroups, R \in (SUBSET Resources) \cup {None} : ChangeSpec(g, R)
  \/ Expire \/ Die
  \/ \E r \in Resources : Receive(r) \/ ResetStatus(r)
  \/ \E h \in Handlers : Cache(h) \/ Notify(h)
  \/ \E g \in ResourceGroups : Reconcile(g) \/ \E c \in Computers : Begin(c, g)
  \/ Watch \/ WatchFails
  \/ CRDEvent \/ NotifyReset
  \/ \E c \in Computers : Fetch(c) \/ FetchFails(c) \/ Store(c) \/ Publish(c) \/ Abandon(c)
  \/ \E c \in Computers, r \in Resources : Lookup(c, r)

Spec == Init /\ [][Next]_vars

-----------------------------------------------------------------------------
(* Properties.                                                             *)

Quiet ==
  /\ \A r \in Resources : stream[r] = <<>>
  /\ \A h \in Handlers : handler[h] = Idle
  /\ \A c \in Computers : computer[c] = Free
  /\ rootPending = {} /\ root = None
  /\ crdTodo = {} /\ crdReset = None
  /\ rgPending = {}

(***************************************************************************)
(* At rest what a CR says of a resource is true of the object.  Any order  *)
(* of events, reconciles, computing goroutines and CRD changes leaves the  *)
(* last status both cached and published, but for a write that came too    *)
(* late, a deletion that no watcher saw, a failed read and a dead watcher. *)
(***************************************************************************)
PublishedIsCurrent ==
  Quiet /\ watcher # None =>
    \A g \in ResourceGroups : spec[g] # None =>
      \A r \in spec[g] \ (dirty \cup lost) :
        r \in DOMAIN published[g] /\ published[g][r] \in {object[r], Unknown}

(***************************************************************************)
(* What is cached of a resource that no group includes came too late: the  *)
(* map itself forgets every status with its last group.                    *)
(***************************************************************************)
LeftoversAreDirty ==
  \A r \in Resources : ~Included(r) /\ Cached(r) # NoStatus => r \in dirty

(***************************************************************************)
(* Deleting a group is to "clean up the cache for this ResourceGroup"      *)
(* (root_controller.go:117), so that no status is left when the last one   *)
(* is gone (resourcemap_test.go:150-151).  A status that was computed      *)
(* before that and is cached after it stays.                               *)
(***************************************************************************)
EmptyMeansNoStatus ==
  Quiet /\ members = EmptyMap => \A r \in Resources : Cached(r) = NoStatus

=============================================================================
