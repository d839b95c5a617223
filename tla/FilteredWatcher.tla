-------------------------- MODULE FilteredWatcher --------------------------
(***************************************************************************)
(* controllers/watch/filteredwatcher.go: the watcher of one kind, and how  *)
(* Run uses resource versions to go on after a stream has ended.           *)
(*                                                                         *)
(* The API server numbers all writes.  A watch at version v sends what was *)
(* written after v, unless v is so old that it is expired; a watch at ""   *)
(* begins with an Added event for each object that there is, in no         *)
(* particular order, and sends no event for what has been deleted.  A      *)
(* status is the number of the write that it was computed from, so that an *)
(* old status never looks like a new one.                                  *)
(*                                                                         *)
(* The steps of the events to the groups, and those of others who write    *)
(* statuses, are in StatusCache; Stop and the mutexes are in WatchManager. *)
(* Run's delay after an error is the time that any step may take.          *)
(***************************************************************************)
EXTENDS Naturals, Sequences

CONSTANTS
  Objects,      \* of the kind
  Other,        \* an object of another kind
  NotFound,     \* the status of what does not exist
  None,         \* no status
  MaxWrites     \* bound on the writes

ASSUME WritesAssumption == MaxWrites \in Nat
ASSUME OtherAssumption == Other \notin Objects
ASSUME StatusAssumption == NotFound # None /\ NotFound \notin Nat /\ None \notin Nat

VARIABLES
  \* The API server.
  writes,       \* the object of each write and whether it was deleted
  latest,       \* the last write of each object, 0 if there is none
  compacted,    \* the versions before this one are expired
  \* The resource map.
  included,     \* the objects that groups include
  cached,
  \* Run.
  pc,           \* "start", "streaming" or, when Run has returned, "ended"
  resourceVersion,  \* 0 is ""
  initial,      \* writes whose objects the Added events of a new watch are still to bring
  position,     \* the stream has brought everything else up to this write
  missed        \* objects about which an event will not come (properties only)

server == <<writes, latest, compacted>>
map == <<included, cached>>
run == <<pc, resourceVersion, initial, position>>
vars == <<server, map, run, missed>>

Versions == 0..Len(writes)
Exists(o) == latest[o] # 0 /\ ~writes[latest[o]].deleted
StatusOf(n) == IF writes[n].deleted THEN NotFound ELSE n
Truth(o) == IF Exists(o) THEN latest[o] ELSE NotFound

TypeOK ==
  /\ writes \in Seq([object : Objects \cup {Other}, deleted : BOOLEAN])
  /\ Len(writes) <= MaxWrites
  /\ latest \in [Objects -> Versions]
  /\ compacted \in Versions
  /\ included \in SUBSET Objects
  /\ cached \in [Objects -> (1..MaxWrites) \cup {NotFound, None}]
  /\ pc \in {"start", "streaming", "ended"}
  /\ resourceVersion \in Versions
  /\ initial \in SUBSET Versions
  /\ position \in Versions
  /\ missed \in SUBSET included

Init ==
  /\ writes = <<>>
  /\ latest = [o \in Objects |-> 0]
  /\ compacted = 0
  /\ included = {}
  /\ cached = [o \in Objects |-> None]
  /\ pc = "start"
  /\ resourceVersion = 0
  /\ initial = {}
  /\ position = 0
  /\ missed = {}

-----------------------------------------------------------------------------
(* Outside: the API server, and what others do with the map.               *)

Write(o, deleted) ==
  /\ Len(writes) < MaxWrites
  /\ deleted => Exists(o)
  /\ writes' = Append(writes, [object |-> o, deleted |-> deleted])
  /\ latest' = [latest EXCEPT ![o] = Len(writes) + 1]
  /\ UNCHANGED <<compacted, map, run, missed>>

WriteOther ==
  /\ Len(writes) < MaxWrites
  /\ writes' = Append(writes, [object |-> Other, deleted |-> FALSE])
  /\ UNCHANGED <<latest, compacted, map, run, missed>>

Compact ==
  /\ compacted' \in (compacted + 1)..Len(writes)
  /\ UNCHANGED <<writes, latest, map, run, missed>>

Include(o) ==
  /\ o \notin included
  /\ included' = included \cup {o}
  /\ UNCHANGED <<server, cached, run, missed>>

\* The map forgets the status with the last group.
Exclude(o) ==
  /\ o \in included
  /\ included' = included \ {o}
  /\ cached' = [cached EXCEPT ![o] = None]
  /\ missed' = missed \ {o}
  /\ UNCHANGED <<server, run>>

\* computeStatus reads and caches what has no cached status.
Compute(o) ==
  /\ o \in included
  /\ cached[o] = None
  /\ Exists(o)
  /\ cached' = [cached EXCEPT ![o] = Truth(o)]
  /\ UNCHANGED <<server, included, run, missed>>

-----------------------------------------------------------------------------
(* Run.                                                                    *)

\* start at "".  What was deleted in the meantime is not among the objects.
StartAnew ==
  /\ pc = "start"
  /\ resourceVersion = 0
  /\ pc' = "streaming"
  /\ initial' = {latest[o] : o \in {p \in Objects : Exists(p)}}
  /\ position' = Len(writes)
  /\ missed' = missed \cup
       {o \in included : ~Exists(o) /\ cached[o] \notin {None, NotFound}}
  /\ UNCHANGED <<server, map, resourceVersion>>

StartAt ==
  /\ pc = "start"
  /\ resourceVersion # 0
  /\ resourceVersion >= compacted
  /\ pc' = "streaming"
  /\ initial' = {}
  /\ position' = resourceVersion
  /\ UNCHANGED <<server, map, resourceVersion, missed>>

\* Bugs: the watch goes on at the newest version; at the expired one.
ExpireToNewest ==
  /\ pc = "start"
  /\ resourceVersion # 0
  /\ resourceVersion < compacted
  /\ resourceVersion' = Len(writes)
  /\ UNCHANGED <<server, map, pc, initial, position, missed>>

ExpireAgain ==
  /\ pc = "start"
  /\ resourceVersion # 0
  /\ resourceVersion < compacted
  /\ UNCHANGED vars

\* The first event of a watch at an expired version is an error that says
\* so (lines 180-186).
Expire ==
  /\ pc = "start"
  /\ resourceVersion # 0
  /\ resourceVersion < compacted
  /\ resourceVersion' = 0
  /\ UNCHANGED <<server, map, pc, initial, position, missed>>

\* start returns an error, and so does Run.
StartFails ==
  /\ pc = "start"
  /\ pc' = "ended"
  /\ UNCHANGED <<server, map, resourceVersion, initial, position, missed>>

\* The next UpdateWatches makes a new watcher.
NewFiltered ==
  /\ pc = "ended"
  /\ pc' = "start"
  /\ resourceVersion' = 0
  /\ UNCHANGED <<server, map, initial, position, missed>>

\* The channel is closed by a timeout or by the server, or an event reports
\* an error other than expiry.  Not all of the Added events may have come,
\* and the version of one that has may be newer than those of the rest.
StreamEnds ==
  /\ pc = "streaming"
  /\ pc' = "start"
  /\ missed' = missed \cup
       {o \in included : latest[o] \in initial /\ latest[o] <= resourceVersion
                         /\ cached[o] \notin {None, Truth(o)}}
  /\ UNCHANGED <<server, map, resourceVersion, initial, position>>

\* handle: an object that is not included is ignored.
Handle(n) ==
  LET o == writes[n].object IN
  IF o \in included
  THEN cached' = [cached EXCEPT ![o] = StatusOf(n)] /\ missed' = missed \ {o}
  ELSE UNCHANGED <<cached, missed>>

ReceiveAdded(n) ==
  /\ pc = "streaming"
  /\ n \in initial
  /\ initial' = initial \ {n}
  /\ resourceVersion' = n
  /\ Handle(n)
  /\ UNCHANGED <<server, included, pc, position>>

\* An Added, Modified or Deleted event: the next write of the kind.
Receive(n) ==
  /\ pc = "streaming"
  /\ initial = {}
  /\ n \in (position + 1)..Len(writes)
  /\ \A i \in (position + 1)..n : writes[i].object # Other <=> i = n
  /\ position' = n
  /\ resourceVersion' = n
  /\ Handle(n)
  /\ UNCHANGED <<server, included, pc, initial>>

\* Bug: a bookmark is taken for one write more.
BookmarkNext ==
  /\ pc = "streaming"
  /\ initial = {}
  /\ \E n \in position..Len(writes) :
       /\ \A i \in (position + 1)..n : writes[i].object = Other
       /\ position' = n
       /\ resourceVersion' = n + 1
  /\ UNCHANGED <<server, map, pc, initial, missed>>

\* A bookmark brings a version before which nothing of the kind is to come.
Bookmark ==
  /\ pc = "streaming"
  /\ initial = {}
  /\ \E n \in position..Len(writes) :
       /\ \A i \in (position + 1)..n : writes[i].object = Other
       /\ position' = n
       /\ resourceVersion' = n
  /\ UNCHANGED <<server, map, pc, initial, missed>>

-----------------------------------------------------------------------------

Next ==
  \/ \E o \in Objects : \/ \E deleted \in BOOLEAN : Write(o, deleted)
                        \/ Include(o) \/ Exclude(o) \/ Compute(o)
  \/ WriteOther \/ Compact
  \/ StartAnew \/ StartAt \/ Expire \/ StartFails \/ NewFiltered \/ StreamEnds \/ Bookmark
  \/ \E n \in 1..MaxWrites : ReceiveAdded(n) \/ Receive(n)

Spec == Init /\ [][Next]_vars

(***************************************************************************)
(* Run goes on, computeStatus runs in the end, and an event that the API   *)
(* server has to send again and again is received once (SF): not every     *)
(* stream is closed before it.  A watcher that has ended need not be       *)
(* replaced.                                                               *)
(***************************************************************************)
Fairness ==
  /\ WF_vars(StartAnew) /\ WF_vars(StartAt) /\ WF_vars(Expire)
  /\ \A n \in 1..MaxWrites : SF_vars(ReceiveAdded(n)) /\ SF_vars(Receive(n))
  /\ \A o \in Objects : WF_vars(Compute(o))

FairSpec == Spec /\ Fairness

-----------------------------------------------------------------------------
(* Properties.                                                             *)

(***************************************************************************)
(* When a stream has brought everything, each cached status is that of the *)
(* object: Run's version is never past a write of an included object that  *)
(* handle has not seen, however streams end, versions expire and Added     *)
(* events are ordered.  The exceptions are named: what was deleted behind  *)
(* an expired version, and the rest of the Added events of a watch that    *)
(* ended among them (filteredwatcher.go:180-197).                          *)
(***************************************************************************)
CachedIsCurrent ==
  pc = "streaming" /\ initial = {} /\ position = Len(writes) =>
    \A o \in included \ missed : cached[o] \in {None, Truth(o)}

(***************************************************************************)
(* In the end the status of an included object is current (or it is one of *)
(* the missed, or Run has returned an error), even if no stream lives long *)
(* and versions expire: an expired version is not tried for ever           *)
(* (filteredwatcher.go:182-185).                                           *)
(***************************************************************************)
Settled(o) ==
  o \notin included \/ cached[o] = Truth(o) \/ (cached[o] = None /\ ~Exists(o))

CatchesUp == \A o \in Objects : ~Settled(o) ~> (Settled(o) \/ o \in missed \/ pc = "ended")

=============================================================================
