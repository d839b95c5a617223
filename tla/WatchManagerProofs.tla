------------------------- MODULE WatchManagerProofs -------------------------
(***************************************************************************)
(* For any GVKs and any number of watchers: the entries of the manager's   *)
(* map are alive, only an evicted watcher is an orphan, what is not        *)
(* watched is known, and a call is one step of Watches.                    *)
(***************************************************************************)
EXTENDS WatchManager, TLAPS

\* A call has GVKs to start only in its second loop, and none of them is in
\* the map: nothing deletes or overwrites an entry of another watcher there.
CallOK ==
  /\ upc # "starting" => toStart = {}
  /\ toStart \cap DOMAIN watcherMap = {}

\* An identity that is free is as good as new, and an evicted one is not free.
FreeOK ==
  \A w \in Watchers : wpc[w] = "free" => ~stopped[w] /\ w \notin evicted

\* Whose goroutine runs has a GVK.
KnowsItsGVK ==
  \A w \in Watchers : wpc[w] # "free" => gvk[w] \in GVKs

\* What was asked for and is not watched is known: it is still to start, in
\* the error of the call, or has set needsUpdate.
Accounted ==
  /\ upc # "stopping" => DOMAIN watcherMap \subseteq desired
  /\ upc = "starting" => desired \ DOMAIN watcherMap \subseteq failed \cup toStart
  /\ upc = "idle" => desired \ DOMAIN watcherMap \subseteq failed \/ needsUpdate

\* How far the call has come: what it will still stop was watched before and
\* is not asked for, what it starts or could not make was not watched before.
CallKeeps ==
  /\ upc # "idle" => needsUpdate = FALSE
  /\ upc = "stopping" => /\ failed = {}
                         /\ DOMAIN watcherMap \subseteq before.watched
                         /\ desired \cap before.watched \subseteq DOMAIN watcherMap
  /\ upc = "starting" => /\ DOMAIN watcherMap = desired \ (failed \cup toStart)
                         /\ failed \cap toStart = {}
                         /\ (failed \cup toStart) \cap before.watched = {}

IInv ==
  /\ TypeOK
  /\ CallOK
  /\ FreeOK
  /\ EntriesAreAlive
  /\ OnlyEvictedAreOrphans
  /\ Accounted
  /\ CallKeeps
  /\ KnowsItsGVK

-----------------------------------------------------------------------------
(* The map.                                                                *)

LEMMA MapType ==
  ASSUME TypeOK
  PROVE  /\ DOMAIN watcherMap \subseteq GVKs
         /\ \A g \in DOMAIN watcherMap : watcherMap[g] \in Watchers
BY DEF TypeOK, Maps

LEMMA PutEntry ==
  ASSUME TypeOK, NEW g \in GVKs, NEW w \in Watchers
  PROVE  /\ Put(watcherMap, g, w) \in Maps(GVKs, Watchers)
         /\ DOMAIN Put(watcherMap, g, w) = DOMAIN watcherMap \cup {g}
         /\ Put(watcherMap, g, w)[g] = w
         /\ \A h \in DOMAIN watcherMap \ {g} : Put(watcherMap, g, w)[h] = watcherMap[h]
<1>1. Put(watcherMap, g, w) \in [DOMAIN watcherMap \cup {g} -> Watchers]
  BY MapType DEF Put
<1>2. DOMAIN watcherMap \cup {g} \in SUBSET GVKs
  BY MapType
<1>3. Put(watcherMap, g, w) \in Maps(GVKs, Watchers)
  BY <1>1, <1>2 DEF Maps
<1> QED BY <1>3 DEF Put

LEMMA DropEntry ==
  ASSUME TypeOK, NEW g
  PROVE  /\ Drop(watcherMap, g) \in Maps(GVKs, Watchers)
         /\ DOMAIN Drop(watcherMap, g) = DOMAIN watcherMap \ {g}
         /\ \A h \in DOMAIN watcherMap \ {g} : Drop(watcherMap, g)[h] = watcherMap[h]
<1>1. Drop(watcherMap, g) \in [DOMAIN watcherMap \ {g} -> Watchers]
  BY MapType DEF Drop, DropAll
<1>2. DOMAIN watcherMap \ {g} \in SUBSET GVKs
  BY MapType
<1>3. Drop(watcherMap, g) \in Maps(GVKs, Watchers)
  BY <1>1, <1>2 DEF Maps
<1> QED BY <1>3 DEF Drop, DropAll

-----------------------------------------------------------------------------
(* Init.                                                                   *)

LEMMA InitIInv == Init => IInv
<1> SUFFICES ASSUME Init PROVE IInv
  OBVIOUS
<1>1. watcherMap \in Maps(GVKs, Watchers) /\ DOMAIN watcherMap = {}
  <2>1. EmptyMap \in [{} -> Watchers]
    BY DEF EmptyMap
  <2> QED BY <2>1 DEF Init, Maps
<1>2. TypeOK
  BY <1>1 DEF Init, TypeOK, NoCall
<1> QED BY <1>1, <1>2 DEF Init, IInv, CallOK, FreeOK, EntriesAreAlive, OnlyEvictedAreOrphans,
          Running, Accounted, CallKeeps, KnowsItsGVK

-----------------------------------------------------------------------------
(* UpdateWatches.                                                          *)

LEMMA BeginIInv ==
  ASSUME IInv, NEW gvkMap \in SUBSET GVKs, Begin(gvkMap)
  PROVE  IInv'
<1>1. /\ upc = "idle" /\ upc' = "stopping"
      /\ desired' = gvkMap /\ failed' = {} /\ needsUpdate' = FALSE
      /\ before' = [watched |-> DOMAIN watcherMap, needsUpdate |-> needsUpdate]
      /\ UNCHANGED <<watcherMap, toStart, wpc, gvk, stopped, evicted>>
  BY DEF Begin, ManagerLocked, watchers
<1>2. TypeOK'
  BY <1>1, MapType DEF IInv, TypeOK, CallOK
<1> QED BY <1>1, <1>2 DEF IInv, CallOK, FreeOK, EntriesAreAlive, OnlyEvictedAreOrphans,
          Running, Watched, Accounted, CallKeeps, KnowsItsGVK

LEMMA StopWatcherIInv ==
  ASSUME IInv, NEW g \in GVKs, StopWatcher(g)
  PROVE  IInv'
<1> DEFINE s == watcherMap[g]
<1>1. /\ upc = "stopping" /\ g \in DOMAIN watcherMap
      /\ stopped' = [stopped EXCEPT ![s] = TRUE]
      /\ watcherMap' = Drop(watcherMap, g)
      /\ UNCHANGED <<needsUpdate, upc, desired, toStart, failed, before, wpc, gvk, evicted>>
  BY DEF StopWatcher, Watched, update
<1>2. s \in Watchers /\ gvk[s] = g /\ wpc[s] # "free"
  BY <1>1, MapType DEF IInv, EntriesAreAlive, Running
<1>3. /\ watcherMap' \in Maps(GVKs, Watchers)
      /\ DOMAIN watcherMap' = DOMAIN watcherMap \ {g}
      /\ \A h \in DOMAIN watcherMap' : watcherMap'[h] = watcherMap[h]
  BY <1>1, DropEntry DEF IInv
<1>4. TypeOK'
  BY <1>1, <1>3 DEF IInv, TypeOK
<1>5. \A w \in Watchers \ {s} : stopped'[w] = stopped[w]
  BY <1>1 DEF IInv, TypeOK
<1>6. stopped'[s] = TRUE
  BY <1>1, <1>2 DEF IInv, TypeOK
<1>7. EntriesAreAlive'
  <2> SUFFICES ASSUME NEW h \in DOMAIN watcherMap'
               PROVE  /\ gvk'[watcherMap'[h]] = h /\ ~stopped'[watcherMap'[h]]
                      /\ wpc'[watcherMap'[h]] \in {"start", "connecting", "streaming", "failed"}
    BY DEF EntriesAreAlive, Running
  <2>1. watcherMap'[h] = watcherMap[h] /\ watcherMap[h] \in Watchers /\ gvk[watcherMap[h]] = h
    BY <1>3, MapType DEF IInv, EntriesAreAlive
  <2>2. watcherMap[h] # s
    BY <1>2, <1>3, <2>1
  <2> QED BY <1>1, <1>3, <1>5, <2>1, <2>2 DEF IInv, EntriesAreAlive, Running
<1>8. OnlyEvictedAreOrphans'
  BY <1>1, <1>2, <1>3, <1>5, <1>6 DEF IInv, OnlyEvictedAreOrphans, Running, Watched
<1>9. CallOK' /\ FreeOK' /\ Accounted' /\ KnowsItsGVK'
  BY <1>1, <1>2, <1>3, <1>5 DEF IInv, CallOK, FreeOK, Accounted, KnowsItsGVK
<1>10. CallKeeps'
  <2>1. /\ needsUpdate' = FALSE /\ failed' = {} /\ upc' = "stopping"
        /\ DOMAIN watcherMap \subseteq before.watched
        /\ desired \cap before.watched \subseteq DOMAIN watcherMap
    BY <1>1 DEF IInv, CallKeeps
  <2>2. g \notin desired
    BY DEF StopWatcher
  <2>3. /\ DOMAIN watcherMap' \subseteq before'.watched
        /\ desired' \cap before'.watched \subseteq DOMAIN watcherMap'
    BY <1>1, <1>3, <2>1, <2>2
  <2> QED BY <2>1, <2>3 DEF CallKeeps
<1> QED BY <1>4, <1>7, <1>8, <1>9, <1>10 DEF IInv

LEMMA StartLoopIInv ==
  ASSUME IInv, StartLoop
  PROVE  IInv'
<1>1. /\ upc = "stopping" /\ upc' = "starting" /\ DOMAIN watcherMap \subseteq desired
      /\ toStart' = desired \ DOMAIN watcherMap
      /\ UNCHANGED <<watcherMap, needsUpdate, desired, failed, before, wpc, gvk, stopped, evicted>>
  BY DEF StartLoop, manager, watchers
<1>2. TypeOK'
  BY <1>1 DEF IInv, TypeOK
<1>3. CallKeeps'
  <2>1. /\ needsUpdate = FALSE /\ failed = {}
        /\ desired \cap before.watched \subseteq DOMAIN watcherMap
    BY <1>1 DEF IInv, CallKeeps
  <2>2. /\ needsUpdate' = FALSE /\ failed' = {} /\ toStart' = desired' \ DOMAIN watcherMap'
        /\ DOMAIN watcherMap' \subseteq desired'
        /\ toStart' \cap before'.watched = {}
    BY <1>1, <2>1
  <2> QED BY <1>1, <2>2 DEF CallKeeps
<1>4. CallOK' /\ FreeOK' /\ Accounted' /\ KnowsItsGVK'
  BY <1>1 DEF IInv, CallOK, FreeOK, Accounted, KnowsItsGVK
<1>5. EntriesAreAlive' /\ OnlyEvictedAreOrphans'
  BY <1>1 DEF IInv, EntriesAreAlive, OnlyEvictedAreOrphans, Running, Watched
<1> QED BY <1>2, <1>3, <1>4, <1>5 DEF IInv

LEMMA StartWatcherIInv ==
  ASSUME IInv, NEW g \in GVKs, NEW w \in Watchers, StartWatcher(g, w)
  PROVE  IInv'
<1>1. /\ upc = "starting" /\ g \in toStart
      /\ toStart' = toStart \ {g}
      /\ watcherMap' = Put(watcherMap, g, w)
      /\ wpc' = [wpc EXCEPT ![w] = "start"]
      /\ gvk' = [gvk EXCEPT ![w] = g]
      /\ UNCHANGED <<needsUpdate, upc, desired, failed, before, stopped, evicted>>
  BY DEF StartWatcher
<1>2. wpc[w] = "free" /\ \A h \in DOMAIN watcherMap : watcherMap[h] # w
  BY DEF StartWatcher, Unused
<1>3. ~stopped[w] /\ w \notin evicted /\ g \notin DOMAIN watcherMap
  BY <1>1, <1>2 DEF IInv, FreeOK, CallOK
<1>4. /\ watcherMap' \in Maps(GVKs, Watchers)
      /\ DOMAIN watcherMap' = DOMAIN watcherMap \cup {g}
      /\ watcherMap'[g] = w
      /\ \A h \in DOMAIN watcherMap : watcherMap'[h] = watcherMap[h]
  BY <1>1, <1>3, PutEntry DEF IInv
<1>5. TypeOK'
  BY <1>1, <1>4 DEF IInv, TypeOK
<1>6. /\ wpc'[w] = "start" /\ gvk'[w] = g
      /\ \A v \in Watchers \ {w} : wpc'[v] = wpc[v] /\ gvk'[v] = gvk[v]
  BY <1>1 DEF IInv, TypeOK
<1>7. EntriesAreAlive'
  <2> SUFFICES ASSUME NEW h \in DOMAIN watcherMap'
               PROVE  /\ gvk'[watcherMap'[h]] = h /\ ~stopped'[watcherMap'[h]]
                      /\ wpc'[watcherMap'[h]] \in {"start", "connecting", "streaming", "failed"}
    BY DEF EntriesAreAlive, Running
  <2>1. CASE h = g
    BY <1>1, <1>3, <1>4, <1>6, <2>1 DEF Running
  <2>2. CASE h \in DOMAIN watcherMap
    <3>1. watcherMap'[h] = watcherMap[h] /\ watcherMap[h] \in Watchers \ {w}
      BY <1>2, <1>4, <2>2, MapType DEF IInv
    <3> QED BY <1>1, <1>6, <2>2, <3>1 DEF IInv, EntriesAreAlive, Running
  <2> QED BY <1>4, <2>1, <2>2
<1>8. OnlyEvictedAreOrphans'
  <2> SUFFICES ASSUME NEW v \in Watchers, Running(v)'
               PROVE  (gvk'[v] \in DOMAIN watcherMap' /\ watcherMap'[gvk'[v]] = v) \/ v \in evicted'
    BY DEF OnlyEvictedAreOrphans, Watched
  <2>1. CASE v = w
    BY <1>4, <1>6, <2>1
  <2>2. CASE v # w
    BY <1>1, <1>4, <1>6, <2>2 DEF IInv, OnlyEvictedAreOrphans, Running, Watched
  <2> QED BY <2>1, <2>2
<1>9. CallOK' /\ FreeOK' /\ Accounted' /\ CallKeeps' /\ KnowsItsGVK'
  BY <1>1, <1>4, <1>6 DEF IInv, TypeOK, CallOK, FreeOK, Accounted, CallKeeps, KnowsItsGVK
<1> QED BY <1>5, <1>7, <1>8, <1>9 DEF IInv

LEMMA CreateFailsIInv ==
  ASSUME IInv, NEW g \in GVKs, CreateFails(g)
  PROVE  IInv'
<1>1. /\ upc = "starting" /\ g \in toStart
      /\ toStart' = toStart \ {g} /\ failed' = failed \cup {g}
      /\ UNCHANGED <<watcherMap, needsUpdate, upc, desired, before, wpc, gvk, stopped, evicted>>
  BY DEF CreateFails, manager, watchers
<1>2. TypeOK'
  BY <1>1 DEF IInv, TypeOK
<1> QED BY <1>1, <1>2 DEF IInv, CallOK, FreeOK, EntriesAreAlive, OnlyEvictedAreOrphans,
          Running, Watched, Accounted, CallKeeps, KnowsItsGVK

LEMMA ReturnIInv ==
  ASSUME IInv, Return
  PROVE  IInv'
<1>1. /\ upc = "starting" /\ toStart = {} /\ upc' = "idle" /\ before' = NoCall
      /\ UNCHANGED <<watcherMap, needsUpdate, desired, toStart, failed, wpc, gvk, stopped, evicted>>
  BY DEF Return, manager, watchers
<1>2. TypeOK'
  BY <1>1 DEF IInv, TypeOK, NoCall
<1> QED BY <1>1, <1>2 DEF IInv, CallOK, FreeOK, EntriesAreAlive, OnlyEvictedAreOrphans,
          Running, Watched, Accounted, CallKeeps, KnowsItsGVK

-----------------------------------------------------------------------------
(* The watchers.                                                           *)

\* A watcher moves on without ending: it stays what the map takes it for.
LEMMA MovesIInv ==
  ASSUME IInv, NEW w \in Watchers, NEW pc \in {"start", "connecting", "streaming", "failed"},
         wpc[w] # "free", wpc[w] # "failed",
         wpc' = [wpc EXCEPT ![w] = pc],
         UNCHANGED <<manager, update, gvk, stopped, evicted>>
  PROVE  IInv'
<1>1. UNCHANGED <<watcherMap, needsUpdate, upc, desired, toStart, failed, before, gvk, stopped, evicted>>
  BY DEF manager, update
<1>2. TypeOK'
  BY <1>1 DEF IInv, TypeOK
<1>3. wpc'[w] = pc /\ \A v \in Watchers \ {w} : wpc'[v] = wpc[v]
  BY DEF IInv, TypeOK
<1>4. EntriesAreAlive'
  BY <1>1, <1>3, MapType DEF IInv, EntriesAreAlive, Running, TypeOK
<1>5. OnlyEvictedAreOrphans'
  BY <1>1, <1>3 DEF IInv, OnlyEvictedAreOrphans, Running, Watched, TypeOK
<1>6. CallOK' /\ FreeOK' /\ Accounted' /\ CallKeeps' /\ KnowsItsGVK'
  BY <1>1, <1>3 DEF IInv, CallOK, FreeOK, Accounted, CallKeeps, KnowsItsGVK
<1> QED BY <1>2, <1>4, <1>5, <1>6 DEF IInv

LEMMA FreedFacts ==
  ASSUME TypeOK, NEW w \in Watchers, Freed(w)
  PROVE  /\ wpc' \in [Watchers -> {"free", "start", "connecting", "streaming", "failed"}]
         /\ gvk' \in [Watchers -> GVKs \cup {None}]
         /\ stopped' \in [Watchers -> BOOLEAN]
         /\ wpc'[w] = "free" /\ ~stopped'[w]
         /\ \A v \in Watchers \ {w} : wpc'[v] = wpc[v] /\ gvk'[v] = gvk[v] /\ stopped'[v] = stopped[v]
BY DEF TypeOK, Freed

LEMMA StartIInv ==
  ASSUME IInv, NEW w \in Watchers, Start(w)
  PROVE  IInv'
<1>1. CASE ~stopped[w]
  BY <1>1, MovesIInv DEF Start
<1>2. CASE stopped[w]
  <2>1. /\ Freed(w) /\ wpc[w] = "start" /\ evicted' = evicted \ {w}
        /\ UNCHANGED <<watcherMap, needsUpdate, upc, desired, toStart, failed, before>>
    BY <1>2 DEF Start, manager, update
  <2>2. /\ wpc'[w] = "free" /\ ~stopped'[w]
        /\ \A v \in Watchers \ {w} : wpc'[v] = wpc[v] /\ gvk'[v] = gvk[v] /\ stopped'[v] = stopped[v]
    BY <2>1, FreedFacts DEF IInv
  <2>3. TypeOK'
    BY <2>1, FreedFacts DEF IInv, TypeOK
  <2>4. \A g \in DOMAIN watcherMap : watcherMap[g] \in Watchers \ {w}
    BY <1>2, MapType DEF IInv, EntriesAreAlive, Running
  <2>5. EntriesAreAlive'
    BY <2>1, <2>2, <2>4 DEF IInv, EntriesAreAlive, Running
  <2>6. OnlyEvictedAreOrphans'
    BY <2>1, <2>2 DEF IInv, OnlyEvictedAreOrphans, Running, Watched
  <2>7. CallOK' /\ FreeOK' /\ Accounted' /\ CallKeeps' /\ KnowsItsGVK'
    BY <2>1, <2>2 DEF IInv, CallOK, FreeOK, Accounted, CallKeeps, KnowsItsGVK
  <2> QED BY <2>3, <2>5, <2>6, <2>7 DEF IInv
<1> QED BY <1>1, <1>2

LEMMA RemoveFailedIInv ==
  ASSUME IInv, NEW w \in Watchers, RemoveFailed(w)
  PROVE  IInv'
<1> DEFINE k == gvk[w]
<1>1. /\ wpc[w] = "failed" /\ upc = "idle"
      /\ watcherMap' = Drop(watcherMap, k) /\ needsUpdate' = TRUE
      /\ Freed(w)
      /\ UNCHANGED <<upc, desired, toStart, failed, before>>
  BY DEF RemoveFailed, ManagerLocked, update
<1>2. evicted' = (evicted \ {w}) \cup
                   {v \in Watchers \ {w} : k \in DOMAIN watcherMap /\ watcherMap[k] = v}
  BY DEF RemoveFailed, Watched
<1>3. /\ watcherMap' \in Maps(GVKs, Watchers)
      /\ DOMAIN watcherMap' = DOMAIN watcherMap \ {k}
      /\ \A h \in DOMAIN watcherMap' : watcherMap'[h] = watcherMap[h]
  BY <1>1, DropEntry DEF IInv
<1>4. /\ wpc'[w] = "free" /\ ~stopped'[w]
      /\ \A v \in Watchers \ {w} : wpc'[v] = wpc[v] /\ gvk'[v] = gvk[v] /\ stopped'[v] = stopped[v]
  BY <1>1, FreedFacts DEF IInv
<1>5. TypeOK'
  BY <1>1, <1>2, <1>3, FreedFacts DEF IInv, TypeOK
<1>6. \A h \in DOMAIN watcherMap' : watcherMap[h] \in Watchers \ {w} /\ gvk[watcherMap[h]] = h
  BY <1>3, MapType DEF IInv, EntriesAreAlive
<1>7. EntriesAreAlive'
  BY <1>3, <1>4, <1>6 DEF IInv, EntriesAreAlive, Running
<1>8. OnlyEvictedAreOrphans'
  <2> SUFFICES ASSUME NEW v \in Watchers, Running(v)'
               PROVE  (gvk'[v] \in DOMAIN watcherMap' /\ watcherMap'[gvk'[v]] = v) \/ v \in evicted'
    BY DEF OnlyEvictedAreOrphans, Watched
  <2>1. v # w /\ Running(v) /\ gvk'[v] = gvk[v]
    BY <1>4 DEF Running
  <2>2. CASE v \in evicted
    BY <1>2, <2>1, <2>2
  <2>3. CASE gvk[v] \in DOMAIN watcherMap /\ watcherMap[gvk[v]] = v
    <3>1. CASE gvk[v] = k
      BY <1>2, <2>1, <2>3, <3>1
    <3>2. CASE gvk[v] # k
      BY <1>3, <2>1, <2>3, <3>2
    <3> QED BY <3>1, <3>2
  <2> QED BY <2>1, <2>2, <2>3 DEF IInv, OnlyEvictedAreOrphans, Watched
<1>9. CallOK' /\ Accounted' /\ CallKeeps'
  BY <1>1, <1>3 DEF IInv, CallOK, Accounted, CallKeeps
<1>11. KnowsItsGVK'
  BY <1>4 DEF IInv, KnowsItsGVK
<1>10. FreeOK'
  <2> SUFFICES ASSUME NEW v \in Watchers, wpc'[v] = "free"
               PROVE  ~stopped'[v] /\ v \notin evicted'
    BY DEF FreeOK
  <2>1. CASE v = w
    BY <1>2, <1>4, <2>1
  <2>2. CASE v # w
    <3>1. wpc[v] = "free" /\ ~stopped'[v] /\ v \notin evicted
      BY <1>4, <2>2 DEF IInv, FreeOK
    <3>2. ~(k \in DOMAIN watcherMap /\ watcherMap[k] = v)
      BY <3>1 DEF IInv, EntriesAreAlive, Running
    <3> QED BY <1>2, <3>1, <3>2
  <2> QED BY <2>1, <2>2
<1> QED BY <1>5, <1>7, <1>8, <1>9, <1>10, <1>11 DEF IInv

-----------------------------------------------------------------------------

LEMMA NextIInv == IInv /\ [Next]_vars => IInv'
<1> SUFFICES ASSUME IInv, [Next]_vars PROVE IInv'
  OBVIOUS
<1>1. ASSUME NEW gvkMap \in SUBSET GVKs, Begin(gvkMap) PROVE IInv'
  BY <1>1, BeginIInv
<1>2. ASSUME NEW g \in GVKs, StopWatcher(g) PROVE IInv'
  BY <1>2, StopWatcherIInv
<1>3. ASSUME NEW g \in GVKs, CreateFails(g) PROVE IInv'
  BY <1>3, CreateFailsIInv
<1>4. ASSUME NEW g \in GVKs, NEW w \in Watchers, StartWatcher(g, w) PROVE IInv'
  BY <1>4, StartWatcherIInv
<1>5. CASE StartLoop
  BY <1>5, StartLoopIInv
<1>6. CASE Return
  BY <1>6, ReturnIInv
<1>7. ASSUME NEW w \in Watchers, Start(w) PROVE IInv'
  BY <1>7, StartIInv
<1>8. ASSUME NEW w \in Watchers, Connected(w) PROVE IInv'
  BY <1>8, MovesIInv DEF Connected
<1>9. ASSUME NEW w \in Watchers, ConnectFails(w) PROVE IInv'
  BY <1>9, MovesIInv DEF ConnectFails
<1>10. ASSUME NEW w \in Watchers, StreamEnds(w) PROVE IInv'
  BY <1>10, MovesIInv DEF StreamEnds
<1>11. ASSUME NEW w \in Watchers, RemoveFailed(w) PROVE IInv'
  BY <1>11, RemoveFailedIInv
<1>12. CASE UNCHANGED vars
  <2>1. UNCHANGED <<watcherMap, needsUpdate, upc, desired, toStart, failed, before, wpc, gvk, stopped,
                    evicted>>
    BY <1>12 DEF vars, manager, update, watchers
  <2>2. TypeOK'
    BY <2>1 DEF IInv, TypeOK
  <2> QED BY <2>1, <2>2 DEF IInv, CallOK, FreeOK, EntriesAreAlive, OnlyEvictedAreOrphans,
            Running, Watched, Accounted, CallKeeps, KnowsItsGVK
<1> QED BY <1>1, <1>2, <1>3, <1>4, <1>5, <1>6, <1>7, <1>8, <1>9, <1>10, <1>11, <1>12 DEF Next

LEMMA Invariance == Spec => []IInv
BY InitIInv, NextIInv, PTL DEF Spec

\* The types, for any watchers and GVKs.
THEOREM TypeCorrect == Spec => []TypeOK
<1>1. IInv => TypeOK
  BY DEF IInv
<1> QED BY <1>1, Invariance, PTL

(***************************************************************************)
(* UpdateWatches, Stop and runWatcher interleave in any order and with any *)
(* number of watchers of one GVK, and an entry of the map is a watcher of  *)
(* its GVK that runs or is about to delete it (manager.go:115-197).        *)
(***************************************************************************)
THEOREM EntriesStayAlive == Spec => []EntriesAreAlive
<1>1. IInv => EntriesAreAlive
  BY DEF IInv
<1> QED BY <1>1, Invariance, PTL

(***************************************************************************)
(* The only way to a running watcher that is not in the map is line 195 of *)
(* manager.go, which deletes the entry of another watcher than its own.    *)
(***************************************************************************)
THEOREM OrphansAreEvicted == Spec => []OnlyEvictedAreOrphans
<1>1. IInv => OnlyEvictedAreOrphans
  BY DEF IInv
<1> QED BY <1>1, Invariance, PTL

(***************************************************************************)
(* Between two calls of UpdateWatches a GVK that was asked for and is not  *)
(* watched is in the error that the last call returned, or needsUpdate is  *)
(* set (manager.go:132-153, 194-197).                                      *)
(***************************************************************************)
MissingIsKnown ==
  ~ManagerLocked =>
    /\ DOMAIN watcherMap \subseteq desired
    /\ desired \ DOMAIN watcherMap \subseteq failed \/ needsUpdate

THEOREM MissingStaysKnown == Spec => []MissingIsKnown
<1>1. IInv => MissingIsKnown
  BY DEF IInv, CallOK, Accounted, MissingIsKnown, ManagerLocked, TypeOK
<1> QED BY <1>1, Invariance, PTL

-----------------------------------------------------------------------------
(* The promise.                                                            *)

\* What the steps of a call before its last, and those of a watcher that goes
\* on, leave alone.
LEMMA StepsUnseen ==
  ASSUME IInv, [Next]_vars, ~Return, \A w \in Watchers : ~RemoveFailed(w)
  PROVE  UNCHANGED Promised!vars
<1> USE DEF Promised!vars
<1>1. ASSUME NEW gvkMap \in SUBSET GVKs, Begin(gvkMap) PROVE UNCHANGED Promised!vars
  <2>1. /\ ~ManagerLocked /\ ManagerLocked'
        /\ before' = [watched |-> DOMAIN watcherMap, needsUpdate |-> needsUpdate]
    BY <1>1 DEF Begin, ManagerLocked
  <2> QED BY <2>1
<1>2. CASE ManagerLocked /\ ManagerLocked' /\ before' = before
  BY <1>2
<1>3. CASE UNCHANGED <<watcherMap, needsUpdate, upc, before>>
  BY <1>3 DEF ManagerLocked
<1>4. ASSUME NEW g \in GVKs,
             StopWatcher(g) \/ CreateFails(g) \/ \E w \in Watchers : StartWatcher(g, w)
      PROVE  ManagerLocked /\ ManagerLocked' /\ before' = before
  BY <1>4 DEF StopWatcher, CreateFails, StartWatcher, update, ManagerLocked
<1>5. ASSUME StartLoop PROVE ManagerLocked /\ ManagerLocked' /\ before' = before
  BY <1>5 DEF StartLoop, ManagerLocked
<1>6. ASSUME NEW w \in Watchers, Start(w) \/ Connected(w) \/ ConnectFails(w) \/ StreamEnds(w)
      PROVE  UNCHANGED <<watcherMap, needsUpdate, upc, before>>
  BY <1>6 DEF Start, Connected, ConnectFails, StreamEnds, manager, update
<1>7. ASSUME UNCHANGED vars PROVE UNCHANGED <<watcherMap, needsUpdate, upc, before>>
  BY <1>7 DEF vars, manager, update
<1> HIDE DEF Promised!vars
<1> QED BY <1>1, <1>2, <1>3, <1>4, <1>5, <1>6, <1>7 DEF Next

LEMMA FailureSeen ==
  ASSUME IInv, NEW w \in Watchers, RemoveFailed(w)
  PROVE  \E g \in GVKs : Promised!Fail(g)
<1>1. /\ ~ManagerLocked /\ ~ManagerLocked'
      /\ watcherMap' = Drop(watcherMap, gvk[w]) /\ needsUpdate' = TRUE
  BY DEF RemoveFailed, ManagerLocked, update
<1>2. DOMAIN watcherMap' = DOMAIN watcherMap \ {gvk[w]}
  BY <1>1, DropEntry DEF IInv
<1>3. gvk[w] \in GVKs
  BY DEF IInv, KnowsItsGVK, RemoveFailed
<1>4. Promised!Fail(gvk[w])
  BY <1>1, <1>2 DEF Promised!Fail
<1> QED BY <1>3, <1>4

(***************************************************************************)
(* A call that returns watches what it was asked for but for the failures  *)
(* that it returns, nothing that it failed to make was watched before      *)
(* (manager.go:120-152), and a watch is lost in no other way without       *)
(* needsUpdate being set (manager.go:194-197).                             *)
(***************************************************************************)
THEOREM CallsUpdate == Spec => ReturnIsUpdate
<1>1. IInv /\ Return => Promised!Update(desired, failed)
  <2> SUFFICES ASSUME IInv, Return PROVE Promised!Update(desired, failed)
    OBVIOUS
  <2>1. /\ upc = "starting" /\ upc' = "idle" /\ toStart = {}
        /\ UNCHANGED <<watcherMap, needsUpdate, desired, failed>>
    BY DEF Return, manager
  <2>2. /\ DOMAIN watcherMap = desired \ failed
        /\ failed \subseteq desired \ before.watched
        /\ needsUpdate = FALSE
    BY <2>1 DEF IInv, CallKeeps, TypeOK
  <2>3. ManagerLocked /\ ~ManagerLocked'
    BY <2>1 DEF ManagerLocked
  <2> QED BY <2>1, <2>2, <2>3 DEF Promised!Update
<1>2. IInv /\ [Next]_vars =>
        Return \/ UNCHANGED Promised!vars \/ \E g \in GVKs : Promised!Fail(g)
  BY StepsUnseen, FailureSeen
<1> QED BY <1>1, <1>2, Invariance, PTL DEF Spec, ReturnIsUpdate

(***************************************************************************)
(* The manager implements Watches: to those who wait for m.mux a call is   *)
(* the step in which it returns, the failure of a watcher, late or not, is *)
(* a Fail, and nothing else is seen (manager.go:115-153, 189-199).         *)
(***************************************************************************)
THEOREM Refinement == Spec => ImplementsWatches
<1>1. Init => Promised!Init
  BY DEF Init, Promised!Init, ManagerLocked, EmptyMap
<1> DEFINE Step == /\ Return => Promised!Update(desired, failed)
                   /\ Return \/ UNCHANGED Promised!vars \/ \E g \in GVKs : Promised!Fail(g)
<1>2. IInv /\ Step => [Promised!Next]_(Promised!vars)
  <2> SUFFICES ASSUME IInv, Step PROVE Promised!Next \/ UNCHANGED Promised!vars
    OBVIOUS
  <2>1. CASE Return
    <3>1. desired \in SUBSET GVKs /\ failed \in SUBSET desired
      BY DEF IInv, TypeOK
    <3> QED BY <2>1, <3>1 DEF Promised!Next
  <2>2. CASE ~Return
    BY <2>2 DEF Promised!Next
  <2> QED BY <2>1, <2>2
<1>3. UNCHANGED vars => UNCHANGED Promised!vars
  BY DEF vars, manager, update, Promised!vars, ManagerLocked
<1> QED BY <1>1, <1>2, <1>3, Invariance, CallsUpdate, PTL
     DEF Spec, ReturnIsUpdate, ImplementsWatches, Promised!Spec

=============================================================================
