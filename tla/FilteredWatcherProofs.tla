----------------------- MODULE FilteredWatcherProofs -----------------------
(***************************************************************************)
(* The versions that Run goes on from lose no event of an included object, *)
(* for any objects and any number of writes.                               *)
(***************************************************************************)
EXTENDS FilteredWatcher, TLAPS

LatestIsLast ==
  \A o \in Objects :
    /\ latest[o] # 0 => writes[latest[o]].object = o
    /\ \A n \in 1..Len(writes) : writes[n].object = o => n <= latest[o]

InitialIsBehind ==
  \A n \in initial :
    /\ n \in 1..position
    /\ writes[n].object \in Objects
    /\ latest[writes[n].object] = n \/ latest[writes[n].object] > position

VersionIsBehind == pc = "streaming" => resourceVersion <= position

OnlyIncludedAreCached == \A o \in Objects \ included : cached[o] = None

\* What brings the last write of an object whose cached status is old.
StillToCome(o) ==
  \/ pc = "streaming" /\ (latest[o] > position \/ latest[o] \in initial)
  \/ pc = "start" /\ (resourceVersion = 0 \/ latest[o] > resourceVersion)
  \/ pc = "ended"

OldIsStillToCome ==
  \A o \in included \ missed : cached[o] \in {None, Truth(o)} \/ StillToCome(o)

IInv ==
  /\ TypeOK
  /\ LatestIsLast
  /\ InitialIsBehind
  /\ VersionIsBehind
  /\ OnlyIncludedAreCached
  /\ OldIsStillToCome
LEMMA InitInv == Init => IInv
BY WritesAssumption, OtherAssumption, StatusAssumption
   DEF Init, IInv, TypeOK, LatestIsLast, InitialIsBehind, VersionIsBehind,
       OnlyIncludedAreCached, OldIsStillToCome, Versions

-----------------------------------------------------------------------------
(* The API server.                                                         *)

\* A write changes neither an earlier one nor what is known of others.
LEMMA WriteInv ==
  ASSUME IInv, NEW w \in Objects, NEW deleted \in BOOLEAN, Write(w, deleted)
  PROVE  IInv'
<1> DEFINE len == Len(writes)
<1>1. /\ writes \in Seq([object : Objects \cup {Other}, deleted : BOOLEAN])
      /\ len \in Nat /\ position \in 0..len /\ resourceVersion \in 0..len
      /\ latest \in [Objects -> 0..len]
  BY DEF IInv, TypeOK, Versions
<1>2. /\ Len(writes') = len + 1
      /\ \A n \in 1..len : writes'[n] = writes[n]
      /\ writes'[len + 1].object = w
      /\ latest' = [latest EXCEPT ![w] = len + 1]
      /\ len < MaxWrites
      /\ UNCHANGED <<compacted, included, cached, pc, resourceVersion, initial, position, missed>>
  BY <1>1 DEF Write, map, run
<1>3. writes' \in Seq([object : Objects \cup {Other}, deleted : BOOLEAN])
  BY <1>1 DEF Write
<1>4. TypeOK'
  <2>1. Len(writes') \in Nat /\ Len(writes') <= MaxWrites
    BY <1>1, <1>2, WritesAssumption
  <2>2. 0..len \subseteq 0..Len(writes')
    BY <1>1, <1>2
  <2>3. latest' \in [Objects -> 0..Len(writes')]
    BY <1>1, <1>2, <2>2
  <2>4. /\ compacted \in 0..len /\ initial \subseteq 0..len /\ included \in SUBSET Objects
        /\ cached \in [Objects -> (1..MaxWrites) \cup {NotFound, None}]
        /\ pc \in {"start", "streaming", "ended"} /\ missed \in SUBSET included
    BY DEF IInv, TypeOK, Versions
  <2>5. /\ compacted' \in 0..Len(writes') /\ position' \in 0..Len(writes')
        /\ resourceVersion' \in 0..Len(writes') /\ initial' \subseteq 0..Len(writes')
    BY <1>1, <1>2, <2>2, <2>4
  <2> QED BY <1>2, <1>3, <2>1, <2>3, <2>4, <2>5 DEF TypeOK, Versions
<1>5. LatestIsLast'
  BY <1>1, <1>2 DEF IInv, LatestIsLast
<1>6. InitialIsBehind'
  BY <1>1, <1>2 DEF IInv, InitialIsBehind
<1>7. VersionIsBehind' /\ OnlyIncludedAreCached'
  BY <1>2 DEF IInv, VersionIsBehind, OnlyIncludedAreCached
<1>8. OldIsStillToCome'
  <2> SUFFICES ASSUME NEW o \in included \ missed
               PROVE  cached[o] \in {None, Truth(o)'} \/ StillToCome(o)'
    BY <1>2 DEF OldIsStillToCome
  <2>1. o \in Objects /\ pc \in {"start", "streaming", "ended"}
    BY DEF IInv, TypeOK
  <2>2. cached[o] \in {None, Truth(o)} \/ StillToCome(o)
    BY DEF IInv, OldIsStillToCome
  <2>3. CASE o = w
    <3>1. latest'[o] = len + 1 /\ len + 1 > position /\ len + 1 > resourceVersion
      BY <1>1, <1>2, <2>3
    <3> QED BY <1>2, <2>1, <3>1 DEF StillToCome
  <2>4. CASE o # w
    <3>1. latest'[o] = latest[o] /\ latest[o] \in 0..len
      BY <1>1, <1>2, <2>1, <2>4
    <3>2. latest[o] # 0 => writes'[latest[o]] = writes[latest[o]]
      BY <1>2, <3>1
    <3>3. Truth(o)' = Truth(o)
      BY <3>1, <3>2 DEF Truth, Exists
    <3>4. StillToCome(o)' <=> StillToCome(o)
      BY <1>2, <3>1 DEF StillToCome
    <3> QED BY <2>2, <3>3, <3>4
  <2> QED BY <2>3, <2>4
<1> QED BY <1>4, <1>5, <1>6, <1>7, <1>8 DEF IInv

LEMMA WriteOtherInv == ASSUME IInv, WriteOther PROVE IInv'
<1> DEFINE len == Len(writes)
<1>1. /\ writes \in Seq([object : Objects \cup {Other}, deleted : BOOLEAN])
      /\ len \in Nat /\ position \in 0..len /\ resourceVersion \in 0..len
      /\ latest \in [Objects -> 0..len]
  BY DEF IInv, TypeOK, Versions
<1>2. /\ Len(writes') = len + 1
      /\ \A n \in 1..len : writes'[n] = writes[n]
      /\ writes'[len + 1].object = Other
      /\ len < MaxWrites
      /\ UNCHANGED <<latest, compacted, included, cached, pc, resourceVersion, initial,
                     position, missed>>
  BY <1>1 DEF WriteOther, map, run
<1>3. writes' \in Seq([object : Objects \cup {Other}, deleted : BOOLEAN])
  BY <1>1 DEF WriteOther
<1>4. TypeOK'
  BY <1>1, <1>2, <1>3, WritesAssumption DEF IInv, TypeOK, Versions
<1>5. LatestIsLast' /\ InitialIsBehind'
  BY <1>1, <1>2, OtherAssumption DEF IInv, LatestIsLast, InitialIsBehind
<1>6. VersionIsBehind' /\ OnlyIncludedAreCached'
  BY <1>2 DEF IInv, VersionIsBehind, OnlyIncludedAreCached
<1>7. OldIsStillToCome'
  <2> SUFFICES ASSUME NEW o \in included \ missed
               PROVE  cached[o] \in {None, Truth(o)'} \/ StillToCome(o)'
    BY <1>2 DEF OldIsStillToCome
  <2>1. o \in Objects
    BY DEF IInv, TypeOK
  <2>2. cached[o] \in {None, Truth(o)} \/ StillToCome(o)
    BY DEF IInv, OldIsStillToCome
  <2>3. Truth(o)' = Truth(o)
    <3>1. latest[o] # 0 => writes'[latest[o]] = writes[latest[o]]
      BY <1>1, <1>2, <2>1
    <3> QED BY <1>2, <3>1 DEF Truth, Exists
  <2>4. StillToCome(o)' <=> StillToCome(o)
    BY <1>2 DEF StillToCome
  <2> QED BY <2>2, <2>3, <2>4
<1> QED BY <1>4, <1>5, <1>6, <1>7 DEF IInv

LEMMA CompactInv == ASSUME IInv, Compact PROVE IInv'
<1>1. /\ compacted' \in Versions
      /\ UNCHANGED <<writes, latest, included, cached, pc, resourceVersion, initial, position,
                     missed>>
  BY DEF Compact, map, run, IInv, TypeOK, Versions
<1> QED BY <1>1 DEF IInv, TypeOK, Versions, LatestIsLast, InitialIsBehind, VersionIsBehind,
                    OnlyIncludedAreCached, OldIsStillToCome, StillToCome, Truth, Exists
-----------------------------------------------------------------------------
(* The map.                                                                *)

LEMMA IncludeInv == ASSUME IInv, NEW w \in Objects, Include(w) PROVE IInv'
<1>1. /\ included' = included \cup {w} /\ w \notin included
      /\ UNCHANGED <<writes, latest, compacted, cached, pc, resourceVersion, initial, position,
                     missed>>
  BY DEF Include, server, run
<1>2. TypeOK'
  BY <1>1 DEF IInv, TypeOK, Versions
<1>3. LatestIsLast' /\ InitialIsBehind' /\ VersionIsBehind' /\ OnlyIncludedAreCached'
  BY <1>1 DEF IInv, LatestIsLast, InitialIsBehind, VersionIsBehind, OnlyIncludedAreCached
<1>4. OldIsStillToCome'
  <2>1. cached[w] = None
    BY <1>1 DEF IInv, OnlyIncludedAreCached
  <2> QED BY <1>1, <2>1 DEF IInv, OldIsStillToCome, StillToCome, Truth, Exists
<1> QED BY <1>2, <1>3, <1>4 DEF IInv

LEMMA ExcludeInv == ASSUME IInv, NEW w \in Objects, Exclude(w) PROVE IInv'
<1>1. /\ included' = included \ {w} /\ missed' = missed \ {w}
      /\ cached' = [cached EXCEPT ![w] = None]
      /\ UNCHANGED <<writes, latest, compacted, pc, resourceVersion, initial, position>>
  BY DEF Exclude, server, run
<1>2. TypeOK'
  BY <1>1 DEF IInv, TypeOK, Versions
<1>3. LatestIsLast' /\ InitialIsBehind' /\ VersionIsBehind'
  BY <1>1 DEF IInv, LatestIsLast, InitialIsBehind, VersionIsBehind
<1>4. OnlyIncludedAreCached'
  BY <1>1 DEF IInv, TypeOK, OnlyIncludedAreCached
<1>5. OldIsStillToCome'
  BY <1>1 DEF IInv, TypeOK, OldIsStillToCome, StillToCome, Truth, Exists
<1> QED BY <1>2, <1>3, <1>4, <1>5 DEF IInv

LEMMA ComputeInv == ASSUME IInv, NEW w \in Objects, Compute(w) PROVE IInv'
<1>1. /\ w \in included /\ cached' = [cached EXCEPT ![w] = Truth(w)]
      /\ latest[w] # 0 /\ Truth(w) = latest[w]
      /\ UNCHANGED <<writes, latest, compacted, included, pc, resourceVersion, initial, position,
                     missed>>
  BY DEF Compute, server, run, Truth, Exists
<1>2. TypeOK'
  BY <1>1, WritesAssumption DEF IInv, TypeOK, Versions
<1>3. LatestIsLast' /\ InitialIsBehind' /\ VersionIsBehind'
  BY <1>1 DEF IInv, LatestIsLast, InitialIsBehind, VersionIsBehind
<1>4. OnlyIncludedAreCached'
  BY <1>1 DEF IInv, TypeOK, OnlyIncludedAreCached
<1>5. OldIsStillToCome'
  <2> SUFFICES ASSUME NEW o \in included \ missed
               PROVE  cached'[o] \in {None, Truth(o)'} \/ StillToCome(o)'
    BY <1>1 DEF OldIsStillToCome
  <2>1. Truth(o)' = Truth(o) /\ (StillToCome(o)' <=> StillToCome(o))
    BY <1>1 DEF Truth, Exists, StillToCome
  <2>2. cached[o] \in {None, Truth(o)} \/ StillToCome(o)
    BY DEF IInv, OldIsStillToCome
  <2>3. cached'[o] = IF o = w THEN Truth(w) ELSE cached[o]
    BY <1>1 DEF IInv, TypeOK
  <2> QED BY <2>1, <2>2, <2>3
<1> QED BY <1>2, <1>3, <1>4, <1>5 DEF IInv

-----------------------------------------------------------------------------
(* Run, between streams.                                                   *)

LEMMA StartAnewInv == ASSUME IInv, StartAnew PROVE IInv'
<1>1. /\ pc' = "streaming" /\ resourceVersion = 0 /\ position' = Len(writes)
      /\ initial' = {latest[o] : o \in {p \in Objects : Exists(p)}}
      /\ missed' = missed \cup
           {o \in included : ~Exists(o) /\ cached[o] \notin {None, NotFound}}
      /\ UNCHANGED <<writes, latest, compacted, included, cached, resourceVersion>>
  BY DEF StartAnew, server, map
<1>2. TypeOK'
  BY <1>1 DEF IInv, TypeOK, Versions
<1>3. LatestIsLast' /\ OnlyIncludedAreCached'
  BY <1>1 DEF IInv, LatestIsLast, OnlyIncludedAreCached
<1>4. InitialIsBehind'
  <2> SUFFICES ASSUME NEW o \in Objects, Exists(o)
               PROVE  /\ latest[o] \in 1..Len(writes)
                      /\ writes[latest[o]].object = o
    BY <1>1 DEF InitialIsBehind
  <2> QED BY DEF Exists, IInv, TypeOK, Versions, LatestIsLast
<1>5. VersionIsBehind'
  BY <1>1 DEF IInv, TypeOK, VersionIsBehind
<1>6. OldIsStillToCome'
  <2> SUFFICES ASSUME NEW o \in included \ missed'
               PROVE  cached[o] \in {None, Truth(o)'} \/ StillToCome(o)'
    BY <1>1 DEF OldIsStillToCome
  <2>1. CASE Exists(o)
    <3>1. o \in Objects
      BY DEF IInv, TypeOK
    <3> QED BY <1>1, <2>1, <3>1 DEF StillToCome
  <2>2. CASE ~Exists(o)
    <3>1. cached[o] \in {None, NotFound}
      BY <1>1, <2>2
    <3>2. Truth(o)' = NotFound
      BY <1>1, <2>2 DEF Truth, Exists
    <3> QED BY <3>1, <3>2
  <2> QED BY <2>1, <2>2
<1> QED BY <1>2, <1>3, <1>4, <1>5, <1>6 DEF IInv

LEMMA StartAtInv == ASSUME IInv, StartAt PROVE IInv'
<1>1. /\ pc = "start" /\ resourceVersion # 0
      /\ pc' = "streaming" /\ initial' = {} /\ position' = resourceVersion
      /\ UNCHANGED <<writes, latest, compacted, included, cached, resourceVersion, missed>>
  BY DEF StartAt, server, map
<1>2. TypeOK'
  BY <1>1 DEF IInv, TypeOK, Versions
<1>3. LatestIsLast' /\ InitialIsBehind' /\ VersionIsBehind' /\ OnlyIncludedAreCached'
  BY <1>1 DEF IInv, TypeOK, Versions, LatestIsLast, InitialIsBehind, VersionIsBehind,
              OnlyIncludedAreCached
<1>4. OldIsStillToCome'
  BY <1>1 DEF IInv, OldIsStillToCome, StillToCome, Truth, Exists
<1> QED BY <1>2, <1>3, <1>4 DEF IInv

\* Expire, StartFails and NewFiltered forget the version or end Run.
LEMMA NoStreamInv ==
  ASSUME IInv, Expire \/ StartFails \/ NewFiltered
  PROVE  IInv'
<1>1. /\ \/ pc' = "start" /\ resourceVersion' = 0
         \/ pc' = "ended" /\ resourceVersion' = resourceVersion
      /\ UNCHANGED <<writes, latest, compacted, included, cached, initial, position, missed>>
  BY DEF Expire, StartFails, NewFiltered, server, map
<1>2. TypeOK'
  BY <1>1 DEF IInv, TypeOK, Versions
<1>3. LatestIsLast' /\ InitialIsBehind' /\ VersionIsBehind' /\ OnlyIncludedAreCached'
  BY <1>1 DEF IInv, LatestIsLast, InitialIsBehind, VersionIsBehind, OnlyIncludedAreCached
<1>4. OldIsStillToCome'
  BY <1>1 DEF OldIsStillToCome, StillToCome
<1> QED BY <1>2, <1>3, <1>4 DEF IInv

\* What a stream has not brought is newer than Run's version, or missed.
LEMMA StreamEndsInv == ASSUME IInv, StreamEnds PROVE IInv'
<1>1. /\ pc = "streaming" /\ pc' = "start"
      /\ missed' = missed \cup
           {o \in included : latest[o] \in initial /\ latest[o] <= resourceVersion
                             /\ cached[o] \notin {None, Truth(o)}}
      /\ UNCHANGED <<writes, latest, compacted, included, cached, resourceVersion, initial,
                     position>>
  BY DEF StreamEnds, server, map
<1>2. TypeOK'
  BY <1>1 DEF IInv, TypeOK, Versions
<1>3. LatestIsLast' /\ InitialIsBehind' /\ VersionIsBehind' /\ OnlyIncludedAreCached'
  BY <1>1 DEF IInv, LatestIsLast, InitialIsBehind, VersionIsBehind, OnlyIncludedAreCached
<1>4. OldIsStillToCome'
  <2> SUFFICES ASSUME NEW o \in included \ missed', cached[o] \notin {None, Truth(o)}
               PROVE  latest[o] > resourceVersion
    BY <1>1 DEF OldIsStillToCome, StillToCome, Truth, Exists
  <2>1. /\ latest[o] \in Nat /\ position \in Nat /\ resourceVersion \in Nat
        /\ resourceVersion <= position
    BY <1>1 DEF IInv, TypeOK, Versions, VersionIsBehind
  <2>2. latest[o] > position \/ latest[o] \in initial
    BY <1>1 DEF IInv, OldIsStillToCome, StillToCome
  <2>3. latest[o] \in initial => ~(latest[o] <= resourceVersion)
    BY <1>1
  <2> QED BY <2>1, <2>2, <2>3
<1> QED BY <1>2, <1>3, <1>4 DEF IInv
-----------------------------------------------------------------------------
(* Run, on a stream.                                                       *)

\* handle caches the last write of the object, unless that is to come.
LEMMA HandleOne ==
  ASSUME IInv, pc = "streaming", NEW n \in 1..Len(writes), NEW w \in Objects,
         writes[n].object = w, latest[w] = n \/ latest'[w] > position', latest'[w] = latest[w],
         Handle(n), UNCHANGED <<writes, included, pc>>
  PROVE  /\ cached' \in [Objects -> (1..MaxWrites) \cup {NotFound, None}]
         /\ missed' \in SUBSET included
         /\ \A o \in Objects \ {w} : cached'[o] = cached[o] /\ (o \in missed' <=> o \in missed)
         /\ w \notin included => cached'[w] = cached[w]
         /\ w \in included => cached'[w] = Truth(w) \/ latest'[w] > position'
<1>1. /\ cached \in [Objects -> (1..MaxWrites) \cup {NotFound, None}]
      /\ missed \in SUBSET included
      /\ StatusOf(n) \in (1..MaxWrites) \cup {NotFound, None}
  BY WritesAssumption DEF IInv, TypeOK, StatusOf
<1>2. CASE w \in included
  <2>1. cached' = [cached EXCEPT ![w] = StatusOf(n)] /\ missed' = missed \ {w}
    BY <1>2 DEF Handle
  <2>2. latest[w] = n => StatusOf(n) = Truth(w)
    BY DEF StatusOf, Truth, Exists
  <2> QED BY <1>1, <1>2, <2>1, <2>2
<1>3. CASE w \notin included
  <2>1. cached' = cached /\ missed' = missed
    BY <1>3 DEF Handle
  <2> QED BY <1>1, <1>3, <2>1
<1> QED BY <1>2, <1>3

LEMMA ReceiveAddedInv ==
  ASSUME IInv, NEW n \in 1..MaxWrites, ReceiveAdded(n)
  PROVE  IInv'
<1> DEFINE w == writes[n].object
<1>1. /\ pc = "streaming" /\ n \in initial
      /\ initial' = initial \ {n} /\ resourceVersion' = n
      /\ Handle(n)
      /\ UNCHANGED <<writes, latest, compacted, included, pc, position>>
  BY DEF ReceiveAdded, server
<1>2. /\ n \in 1..position /\ w \in Objects /\ position \in 0..Len(writes)
      /\ Len(writes) \in Nat
      /\ latest[w] = n \/ latest[w] > position
  BY <1>1 DEF IInv, TypeOK, Versions, InitialIsBehind
<1>3. n \in 1..Len(writes)
  BY <1>2
<1>4. /\ cached' \in [Objects -> (1..MaxWrites) \cup {NotFound, None}]
      /\ missed' \in SUBSET included
      /\ \A o \in Objects \ {w} : cached'[o] = cached[o] /\ (o \in missed' <=> o \in missed)
      /\ w \notin included => cached'[w] = cached[w]
      /\ w \in included => cached'[w] = Truth(w) \/ latest[w] > position
  BY <1>1, <1>2, <1>3, HandleOne
<1> HIDE DEF w
<1>5. TypeOK'
  BY <1>1, <1>3, <1>4 DEF IInv, TypeOK, Versions
<1>6. LatestIsLast' /\ InitialIsBehind'
  BY <1>1 DEF IInv, LatestIsLast, InitialIsBehind
<1>7. VersionIsBehind'
  BY <1>1, <1>2 DEF VersionIsBehind
<1>8. OnlyIncludedAreCached'
  BY <1>1, <1>2, <1>4 DEF IInv, OnlyIncludedAreCached
<1>9. OldIsStillToCome'
  <2> SUFFICES ASSUME NEW o \in included \ missed'
               PROVE  cached'[o] \in {None, Truth(o)'} \/ StillToCome(o)'
    BY <1>1 DEF OldIsStillToCome
  <2>1. o \in Objects /\ Truth(o)' = Truth(o)
    BY <1>1 DEF IInv, TypeOK, Truth, Exists
  <2>2. CASE o = w
    BY <1>1, <1>4, <2>1, <2>2 DEF StillToCome
  <2>3. CASE o # w
    <3>1. latest[o] # n
      BY <1>2, <2>1, <2>3 DEF w, IInv, LatestIsLast
    <3>2. cached[o] \in {None, Truth(o)} \/ StillToCome(o)
      BY <1>4, <2>1, <2>3 DEF IInv, OldIsStillToCome
    <3> QED BY <1>1, <1>4, <2>1, <2>3, <3>1, <3>2 DEF StillToCome
  <2> QED BY <2>2, <2>3
<1> QED BY <1>5, <1>6, <1>7, <1>8, <1>9 DEF IInv

\* Of the writes that are still to come, Receive brings the first.
LEMMA ReceiveInv ==
  ASSUME IInv, NEW n \in 1..MaxWrites, Receive(n)
  PROVE  IInv'
<1> DEFINE w == writes[n].object
<1>1. /\ pc = "streaming" /\ initial = {} /\ n \in (position + 1)..Len(writes)
      /\ \A i \in (position + 1)..n : writes[i].object # Other <=> i = n
      /\ position' = n /\ resourceVersion' = n
      /\ Handle(n)
      /\ UNCHANGED <<writes, latest, compacted, included, pc, initial>>
  BY DEF Receive, server
<1>2. /\ writes \in Seq([object : Objects \cup {Other}, deleted : BOOLEAN])
      /\ Len(writes) \in Nat /\ position \in 0..Len(writes)
      /\ latest \in [Objects -> 0..Len(writes)]
  BY DEF IInv, TypeOK, Versions
<1>3. n \in 1..Len(writes) /\ n \in (position + 1)..n
  BY <1>1, <1>2
<1>4. w \in Objects
  <2>1. writes[n].object # Other
    BY <1>1, <1>3
  <2>2. writes[n] \in [object : Objects \cup {Other}, deleted : BOOLEAN]
    <3> DEFINE Entry == [object : Objects \cup {Other}, deleted : BOOLEAN]
    <3>1. writes \in Seq(Entry)
      BY <1>2
    <3> HIDE DEF Entry
    <3>2. writes[n] \in Entry
      BY <1>3, <3>1
    <3> QED BY <3>2 DEF Entry
  <2> QED BY <2>1, <2>2
<1>5. latest[w] = n \/ latest[w] > n
  <2>1. n <= latest[w]
    BY <1>3, <1>4 DEF IInv, LatestIsLast
  <2> QED BY <1>2, <1>3, <1>4, <2>1
<1>6. /\ cached' \in [Objects -> (1..MaxWrites) \cup {NotFound, None}]
      /\ missed' \in SUBSET included
      /\ \A o \in Objects \ {w} : cached'[o] = cached[o] /\ (o \in missed' <=> o \in missed)
      /\ w \notin included => cached'[w] = cached[w]
      /\ w \in included => cached'[w] = Truth(w) \/ latest[w] > n
  BY <1>1, <1>3, <1>4, <1>5, HandleOne
<1>7. TypeOK'
  BY <1>1, <1>3, <1>6 DEF IInv, TypeOK, Versions
<1>8. LatestIsLast' /\ InitialIsBehind' /\ VersionIsBehind'
  BY <1>1, <1>3 DEF IInv, LatestIsLast, InitialIsBehind, VersionIsBehind
<1>9. OnlyIncludedAreCached'
  BY <1>1, <1>4, <1>6 DEF IInv, OnlyIncludedAreCached
<1>10. OldIsStillToCome'
  <2> SUFFICES ASSUME NEW o \in included \ missed'
               PROVE  cached'[o] \in {None, Truth(o)'} \/ StillToCome(o)'
    BY <1>1 DEF OldIsStillToCome
  <2>1. o \in Objects /\ Truth(o)' = Truth(o)
    BY <1>1 DEF IInv, TypeOK, Truth, Exists
  <2>2. CASE o = w
    BY <1>1, <1>6, <2>1, <2>2 DEF StillToCome
  <2>3. CASE o # w
    <3>1. latest[o] > position => latest[o] > n
      <4> SUFFICES ASSUME latest[o] \in (position + 1)..n PROVE FALSE
        BY <1>2, <1>3, <2>1
      <4>1. writes[latest[o]].object = o /\ o # Other
        BY <1>2, <2>1, OtherAssumption DEF IInv, LatestIsLast
      <4>2. latest[o] = n
        BY <1>1, <4>1
      <4> QED BY <2>3, <4>1, <4>2
    <3>2. cached[o] \in {None, Truth(o)} \/ StillToCome(o)
      BY <1>6, <2>1, <2>3 DEF IInv, OldIsStillToCome
    <3> QED BY <1>1, <1>6, <2>1, <2>3, <3>1, <3>2 DEF StillToCome
  <2> QED BY <2>2, <2>3
<1> QED BY <1>7, <1>8, <1>9, <1>10 DEF IInv

\* A bookmark passes no write of an object.
LEMMA BookmarkInv == ASSUME IInv, Bookmark PROVE IInv'
<1>1. PICK n \in position..Len(writes) :
        /\ \A i \in (position + 1)..n : writes[i].object = Other
        /\ position' = n /\ resourceVersion' = n
  BY DEF Bookmark
<1>2. /\ pc = "streaming" /\ initial = {}
      /\ UNCHANGED <<writes, latest, compacted, included, cached, pc, initial, missed>>
  BY DEF Bookmark, server, map
<1>3. /\ Len(writes) \in Nat /\ position \in 0..Len(writes)
      /\ latest \in [Objects -> 0..Len(writes)]
  BY DEF IInv, TypeOK, Versions
<1>4. TypeOK'
  BY <1>1, <1>2, <1>3 DEF IInv, TypeOK, Versions
<1>5. LatestIsLast' /\ InitialIsBehind' /\ VersionIsBehind' /\ OnlyIncludedAreCached'
  BY <1>1, <1>2, <1>3 DEF IInv, LatestIsLast, InitialIsBehind, VersionIsBehind,
                          OnlyIncludedAreCached
<1>6. OldIsStillToCome'
  <2> SUFFICES ASSUME NEW o \in included \ missed
               PROVE  cached[o] \in {None, Truth(o)'} \/ StillToCome(o)'
    BY <1>2 DEF OldIsStillToCome
  <2>1. o \in Objects /\ Truth(o)' = Truth(o)
    BY <1>2 DEF IInv, TypeOK, Truth, Exists
  <2>2. latest[o] > position => latest[o] > n
    <3> SUFFICES ASSUME latest[o] \in (position + 1)..n PROVE FALSE
      BY <1>1, <1>3, <2>1
    <3>1. writes[latest[o]].object = o /\ o # Other
      BY <1>3, <2>1, OtherAssumption DEF IInv, LatestIsLast
    <3> QED BY <1>1, <3>1
  <2> QED BY <1>1, <1>2, <2>1, <2>2 DEF IInv, OldIsStillToCome, StillToCome
<1> QED BY <1>4, <1>5, <1>6 DEF IInv

-----------------------------------------------------------------------------
(* The theorems.                                                           *)

LEMMA StutterInv == ASSUME IInv, UNCHANGED vars PROVE IInv'
BY DEF vars, server, map, run, IInv, TypeOK, Versions, LatestIsLast, InitialIsBehind,
       VersionIsBehind, OnlyIncludedAreCached, OldIsStillToCome, StillToCome, Truth, Exists

LEMMA NextInv == IInv /\ [Next]_vars => IInv'
BY WriteInv, IncludeInv, ExcludeInv, ComputeInv, WriteOtherInv, CompactInv, StartAnewInv,
   StartAtInv, NoStreamInv, StreamEndsInv, BookmarkInv, ReceiveAddedInv, ReceiveInv, StutterInv
   DEF Next

\* Every reachable state of the watcher has IInv.
THEOREM Invariance == Spec => []IInv
BY InitInv, NextInv, PTL DEF Spec

\* The watcher's variables keep their types (newFiltered, Run, start).
THEOREM TypeCorrect == Spec => []TypeOK
<1>1. IInv => TypeOK
  BY DEF IInv
<1> QED BY <1>1, Invariance, PTL

(***************************************************************************)
(* When a stream has brought everything, the cached statuses are current   *)
(* but for the named exceptions: Run's version never passes a write of an  *)
(* included object that handle has not seen (filteredwatcher.go:123-259).  *)
(***************************************************************************)
THEOREM CachedStaysCurrent == Spec => []CachedIsCurrent
<1>1. IInv => CachedIsCurrent
  <2> SUFFICES ASSUME IInv, pc = "streaming", initial = {}, position = Len(writes),
                      NEW o \in included \ missed
               PROVE  cached[o] \in {None, Truth(o)}
    BY DEF CachedIsCurrent
  <2>1. latest[o] \in 0..Len(writes) /\ Len(writes) \in Nat
    BY DEF IInv, TypeOK, Versions
  <2>2. ~StillToCome(o)
    BY <2>1 DEF StillToCome
  <2> QED BY <2>2 DEF IInv, OldIsStillToCome
<1> QED BY <1>1, Invariance, PTL

=============================================================================
