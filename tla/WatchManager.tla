---------------------------- MODULE WatchManager ----------------------------
(***************************************************************************)
(* controllers/watch/manager.go and the life of the watchers it starts     *)
(* (Run, start and Stop of filteredwatcher.go; what a watcher does with an *)
(* event is not in this module).                                           *)
(*                                                                         *)
(* The Root controller's single worker calls UpdateWatches, which holds    *)
(* m.mux to its end.  Every watcher has a goroutine, runWatcher, and a     *)
(* mutex, w.mux, that start holds while it connects to the API server and  *)
(* that Stop takes.  A goroutine whose watcher could not connect takes     *)
(* m.mux to delete the entry of its GroupVersionKind from the map,         *)
(* whichever watcher the entry holds by then.                              *)
(***************************************************************************)
EXTENDS GoMaps, Naturals, FiniteSets

CONSTANTS
  GVKs,
  Watchers,   \* identities of filteredWatchers, used again when Run is over
  None        \* no GVK

ASSUME NoneAssumption == None \notin GVKs

VARIABLES
  watcherMap,   \* GVK -> its watcher (guarded by m.mux, like needsUpdate)
  needsUpdate,
  \* The call of UpdateWatches; it holds m.mux unless it is "idle".
  upc,          \* "idle", "stopping" (lines 123-130) or "starting" (134-142)
  desired,      \* gvkMap of this call or, when "idle", of the last one
  toStart,      \* GVKs the second loop has not come to
  failed,       \* GVKs for which createWatcherFunc returned an error
  before,       \* what was watched and flagged when the call began (properties only)
  \* The watchers and their goroutines.
  wpc,          \* "free", "start", "connecting" (holds w.mux), "streaming", "failed"
  gvk,
  stopped,
  evicted       \* watchers whose entry another one has deleted (properties only)

manager == <<watcherMap, needsUpdate>>
update == <<upc, desired, toStart, failed, before>>
watchers == <<wpc, gvk, stopped>>
vars == <<manager, update, watchers, evicted>>

TypeOK ==
  /\ watcherMap \in Maps(GVKs, Watchers)
  /\ needsUpdate \in BOOLEAN
  /\ upc \in {"idle", "stopping", "starting"}
  /\ desired \in SUBSET GVKs
  /\ toStart \in SUBSET desired
  /\ failed \in SUBSET desired
  /\ before \in [watched : SUBSET GVKs, needsUpdate : BOOLEAN]
  /\ wpc \in [Watchers -> {"free", "start", "connecting", "streaming", "failed"}]
  /\ gvk \in [Watchers -> GVKs \cup {None}]
  /\ stopped \in [Watchers -> BOOLEAN]
  /\ evicted \in SUBSET Watchers

NoCall == [watched |-> {}, needsUpdate |-> FALSE]

Init ==
  /\ watcherMap = EmptyMap
  /\ needsUpdate = FALSE
  /\ upc = "idle"
  /\ desired = {}
  /\ toStart = {}
  /\ failed = {}
  /\ before = NoCall
  /\ wpc = [w \in Watchers |-> "free"]
  /\ gvk = [w \in Watchers |-> None]
  /\ stopped = [w \in Watchers |-> FALSE]
  /\ evicted = {}

Watched(g) == g \in DOMAIN watcherMap
Unused == {w \in Watchers : wpc[w] = "free" /\ \A g \in DOMAIN watcherMap : watcherMap[g] # w}

\* The mutexes.
ManagerLocked == upc # "idle"
\* Bug: the error path of start returns with w.mux locked.
LockedAfterFailure(w) == wpc[w] \in {"connecting", "failed"}

WatcherLocked(w) == wpc[w] = "connecting"

-----------------------------------------------------------------------------
(* UpdateWatches.                                                          *)

\* Bug: the errors of the last call are kept.
BeginWithErrors(gvkMap) ==
  /\ ~ManagerLocked
  /\ Cardinality(gvkMap \ DOMAIN watcherMap) <= Cardinality(Unused)
  /\ upc' = "stopping"
  /\ desired' = gvkMap
  /\ needsUpdate' = FALSE
  /\ before' = [watched |-> DOMAIN watcherMap, needsUpdate |-> needsUpdate]
  /\ UNCHANGED <<watcherMap, toStart, failed, watchers, evicted>>

\* The bound is on the identities: there is one for every watcher to start.
Begin(gvkMap) ==
  /\ ~ManagerLocked
  /\ Cardinality(gvkMap \ DOMAIN watcherMap) <= Cardinality(Unused)
  /\ upc' = "stopping"
  /\ desired' = gvkMap
  /\ needsUpdate' = FALSE
  /\ before' = [watched |-> DOMAIN watcherMap, needsUpdate |-> needsUpdate]
  /\ failed' = {}
  /\ UNCHANGED <<watcherMap, toStart, watchers, evicted>>

\* Bug: the entry goes but Stop is not called.
ForgetWatcher(g) ==
  /\ upc = "stopping"
  /\ Watched(g)
  /\ g \notin desired
  /\ watcherMap' = Drop(watcherMap, g)
  /\ UNCHANGED <<needsUpdate, update, watchers, evicted>>

\* Bug: the watchers of what stays are stopped as well, to be made anew.
RestartWatcher(g) ==
  /\ upc = "stopping"
  /\ Watched(g)
  /\ ~WatcherLocked(watcherMap[g])
  /\ stopped' = [stopped EXCEPT ![watcherMap[g]] = TRUE]
  /\ watcherMap' = Drop(watcherMap, g)
  /\ UNCHANGED <<needsUpdate, update, wpc, gvk, evicted>>

\* stopWatcher: Stop waits for w.mux with m.mux held, then the entry goes.
StopWatcher(g) ==
  /\ upc = "stopping"
  /\ Watched(g)
  /\ g \notin desired
  /\ ~WatcherLocked(watcherMap[g])
  /\ stopped' = [stopped EXCEPT ![watcherMap[g]] = TRUE]
  /\ watcherMap' = Drop(watcherMap, g)
  /\ UNCHANGED <<needsUpdate, update, wpc, gvk, evicted>>

StartLoop ==
  /\ upc = "stopping"
  /\ DOMAIN watcherMap \subseteq desired
  /\ upc' = "starting"
  /\ toStart' = desired \ DOMAIN watcherMap
  /\ UNCHANGED <<manager, desired, failed, before, watchers, evicted>>

\* startWatcher, and its goroutine.
StartWatcher(g, w) ==
  /\ upc = "starting"
  /\ g \in toStart
  /\ w \in Unused
  /\ toStart' = toStart \ {g}
  /\ watcherMap' = Put(watcherMap, g, w)
  /\ wpc' = [wpc EXCEPT ![w] = "start"]
  /\ gvk' = [gvk EXCEPT ![w] = g]
  /\ UNCHANGED <<needsUpdate, upc, desired, failed, before, stopped, evicted>>

\* No REST mapping for g: the error is returned at the end of the loop.
CreateFails(g) ==
  /\ upc = "starting"
  /\ g \in toStart
  /\ toStart' = toStart \ {g}
  /\ failed' = failed \cup {g}
  /\ UNCHANGED <<manager, upc, desired, before, watchers, evicted>>

Return ==
  /\ upc = "starting"
  /\ toStart = {}
  /\ upc' = "idle"
  /\ before' = NoCall
  /\ UNCHANGED <<manager, desired, toStart, failed, watchers, evicted>>

-----------------------------------------------------------------------------
(* Run of a watcher, and runWatcher.                                       *)

\* The goroutine is over and the watcher is garbage.
Freed(w) ==
  /\ wpc' = [wpc EXCEPT ![w] = "free"]
  /\ gvk' = [gvk EXCEPT ![w] = None]
  /\ stopped' = [stopped EXCEPT ![w] = FALSE]

\* Bug: start does not look at stopped.
Restart(w) ==
  /\ wpc[w] = "start"
  /\ wpc' = [wpc EXCEPT ![w] = "connecting"]
  /\ UNCHANGED <<manager, update, gvk, stopped, evicted>>

\* start, up to the call of startWatch; a stopped watcher ends Run.
Start(w) ==
  /\ wpc[w] = "start"
  /\ IF stopped[w]
     THEN Freed(w) /\ evicted' = evicted \ {w}
     ELSE wpc' = [wpc EXCEPT ![w] = "connecting"] /\ UNCHANGED <<gvk, stopped, evicted>>
  /\ UNCHANGED <<manager, update>>

Connected(w) ==
  /\ wpc[w] = "connecting"
  /\ wpc' = [wpc EXCEPT ![w] = "streaming"]
  /\ UNCHANGED <<manager, update, gvk, stopped, evicted>>

ConnectFails(w) ==
  /\ wpc[w] = "connecting"
  /\ wpc' = [wpc EXCEPT ![w] = "failed"]
  /\ UNCHANGED <<manager, update, gvk, stopped, evicted>>

\* The result channel is closed: by Stop, by the server, by a timeout, or
\* the loop is left after an error event.  Run goes back to start.
StreamEnds(w) ==
  /\ wpc[w] = "streaming"
  /\ wpc' = [wpc EXCEPT ![w] = "start"]
  /\ UNCHANGED <<manager, update, gvk, stopped, evicted>>

\* Bugs: the failure only deletes the entry; it only sets the flag.
RemoveSilently(w) ==
  /\ wpc[w] = "failed"
  /\ ~ManagerLocked
  /\ watcherMap' = Drop(watcherMap, gvk[w])
  /\ evicted' = evicted \ {w}
  /\ Freed(w)
  /\ UNCHANGED <<needsUpdate, update>>

FlagFailed(w) ==
  /\ wpc[w] = "failed"
  /\ ~ManagerLocked
  /\ needsUpdate' = TRUE
  /\ evicted' = evicted \ {w}
  /\ Freed(w)
  /\ UNCHANGED <<watcherMap, update>>

\* Lines 194-197.
RemoveFailed(w) ==
  /\ wpc[w] = "failed"
  /\ ~ManagerLocked
  /\ watcherMap' = Drop(watcherMap, gvk[w])
  /\ needsUpdate' = TRUE
  /\ evicted' = (evicted \ {w}) \cup
                  {v \in Watchers \ {w} : Watched(gvk[w]) /\ watcherMap[gvk[w]] = v}
  /\ Freed(w)
  /\ UNCHANGED update

-----------------------------------------------------------------------------

Next ==
  \/ \E gvkMap \in SUBSET GVKs : Begin(gvkMap)
  \/ \E g \in GVKs : StopWatcher(g) \/ CreateFails(g) \/ \E w \in Watchers : StartWatcher(g, w)
  \/ StartLoop
  \/ Return
  \/ \E w \in Watchers :
       Start(w) \/ Connected(w) \/ ConnectFails(w) \/ StreamEnds(w) \/ RemoveFailed(w)

Spec == Init /\ [][Next]_vars

(***************************************************************************)
(* UpdateWatches goes on, the API server answers a connecting watcher, and *)
(* the channel of a stopped watch is closed.  The mutexes of Go hand over  *)
(* to a waiter that has been passed over: hence SF where a mutex is taken. *)
(* Nothing closes the stream of a watcher that is not stopped.             *)
(***************************************************************************)
Fairness ==
  /\ WF_vars(StartLoop) /\ WF_vars(Return)
  /\ \A g \in GVKs : SF_vars(StopWatcher(g))
                     /\ WF_vars(CreateFails(g) \/ \E w \in Watchers : StartWatcher(g, w))
  /\ \A w \in Watchers :
       /\ WF_vars(Start(w)) /\ WF_vars(Connected(w) \/ ConnectFails(w))
       /\ WF_vars(stopped[w] /\ StreamEnds(w))
       /\ SF_vars(RemoveFailed(w))

FairSpec == Spec /\ Fairness

-----------------------------------------------------------------------------
(* Properties.                                                             *)

Running(w) == wpc[w] \in {"start", "connecting", "streaming"} /\ ~stopped[w]

(***************************************************************************)
(* An entry of the map is a watcher of that GVK which runs, or whose       *)
(* failure is about to delete the entry: IsWatched and the second loop of  *)
(* UpdateWatches believe the map.  A watcher is in one entry at most.      *)
(***************************************************************************)
EntriesAreAlive ==
  \A g \in DOMAIN watcherMap :
    LET w == watcherMap[g] IN
    gvk[w] = g /\ (Running(w) \/ (wpc[w] = "failed" /\ ~stopped[w]))

(***************************************************************************)
(* A watcher that runs is in the map, unless the late failure of an older  *)
(* watcher of its GVK has deleted its entry: no other interleaving of      *)
(* UpdateWatches, Stop and runWatcher leaves one that nobody can stop.     *)
(***************************************************************************)
OnlyEvictedAreOrphans ==
  \A w \in Watchers : Running(w) =>
    (Watched(gvk[w]) /\ watcherMap[gvk[w]] = w) \/ w \in evicted

(***************************************************************************)
(* To those who take m.mux a call of UpdateWatches is one step, in which   *)
(* the call returns, and else a watch only fails (manager.go:115-153,      *)
(* 189-199).                                                               *)
(***************************************************************************)
Promised ==
  INSTANCE Watches WITH
    watched <- IF ManagerLocked THEN before.watched ELSE DOMAIN watcherMap,
    needsUpdate <- IF ManagerLocked THEN before.needsUpdate ELSE needsUpdate

ImplementsWatches == Promised!Spec

(***************************************************************************)
(* Which steps those are.  A call that returns watches what was asked for  *)
(* and could be made, has given up nothing that was asked for and watched  *)
(* before, and returns an error only of this call (manager.go:120-152).  A *)
(* watch is not lost in any other way without needsUpdate being set        *)
(* (manager.go:194-197).                                                   *)
(***************************************************************************)
ReturnIsUpdate ==
  [][/\ Return => Promised!Update(desired, failed)
     /\ Return \/ UNCHANGED Promised!vars \/ \E g \in GVKs : Promised!Fail(g)]_vars

(***************************************************************************)
(* UpdateWatches returns, although Stop waits for w.mux with m.mux held,   *)
(* start holds w.mux during a call to the server, and runWatcher waits for *)
(* m.mux.                                                                  *)
(***************************************************************************)
UpdateReturns == ManagerLocked ~> ~ManagerLocked

(***************************************************************************)
(* Stop "prevents the filteredWatcher from restarting" (filteredwatcher.go *)
(* lines 128-130): Run ends, wherever it was when Stop came.               *)
(***************************************************************************)
StoppedWatchersEnd == \A w \in Watchers : stopped[w] ~> wpc[w] = "free"

(***************************************************************************)
(* UpdateWatches will "stop watchers for any GroupVersionKind that is not  *)
(* present in the given map" (manager.go:111).  An evicted watcher runs    *)
(* on.                                                                     *)
(***************************************************************************)
OnlyDesiredAreRunning ==
  ~ManagerLocked => \A w \in Watchers : Running(w) => gvk[w] \in desired

=============================================================================
