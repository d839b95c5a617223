-------------------------- MODULE ThrottlerProofs --------------------------
(***************************************************************************)
(* For any groups, any number of goroutines, any duration and any capacity *)
(* of the channel: the throttler's mapping is exactly the goroutines it    *)
(* has started, pushes of one group are at least a duration apart, and no  *)
(* change is lost but in the window that lateSkipped records.              *)
(***************************************************************************)
EXTENDS Throttler, TLAPS

(***************************************************************************)
(* A group is in mapping exactly while one goroutine holds it, and never   *)
(* two.  The check and the write of Generic are in two critical sections   *)
(* (lines 76 and 92) and the delete in a third.                            *)
(***************************************************************************)
MappingIsTheTimers ==
  /\ mapping = {timer[t].group : t \in {u \in Timers : timer[u] # Free}}
  /\ \A t, u \in Timers : timer[t] # Free /\ timer[u] # Free /\ timer[t].group = timer[u].group
                            => t = u

\* Generic goes on with a group that no goroutine holds.
HandledIsNew == handling \notin mapping

\* A sleeping goroutine has not slept for longer than ago the last push was.
SleepsSinceThePush ==
  \A t \in Timers : timer[t].phase = "asleep" =>
    since[timer[t].group] + timer[t].left >= Duration

IInv == TypeOK /\ MappingIsTheTimers /\ HandledIsNew /\ SleepsSinceThePush

-----------------------------------------------------------------------------
(* The goroutines.                                                         *)

LEMMA TimerCases ==
  ASSUME TypeOK, NEW t \in Timers
  PROVE  /\ timer[t] = Free \/ timer[t].phase \in {"asleep", "added"}
         /\ timer[t].phase \in {"asleep", "added"} => timer[t] # Free
         /\ timer[t].phase # "free" => timer[t].group \in ResourceGroups
         /\ timer[t].phase \in {"free", "asleep", "added"}
         /\ timer[t] = Free <=> timer[t].phase = "free"
         /\ timer[t].left \in 0..Duration
         /\ timer[t] # Free =>
              timer[t] = [phase |-> timer[t].phase, group |-> timer[t].group, left |-> timer[t].left]
BY DurationAssumption DEF TypeOK, Free

(***************************************************************************)
(* MappingIsTheTimers, group by group.                                     *)
(***************************************************************************)
LEMMA MappingMembers ==
  MappingIsTheTimers <=>
    /\ \A r : r \in mapping <=> \E t \in Timers : timer[t] # Free /\ timer[t].group = r
    /\ \A t, u \in Timers : timer[t] # Free /\ timer[u] # Free /\ timer[t].group = timer[u].group
                              => t = u
BY DEF MappingIsTheTimers

-----------------------------------------------------------------------------
(* The invariant holds at first, and every step keeps it.                  *)

LEMMA InitHolds == Init => IInv
<1> SUFFICES ASSUME Init PROVE IInv
  OBVIOUS
<1>1. TypeOK
  <2>1. timer \in [Timers -> {Free} \cup [phase : {"asleep", "added"}, group : ResourceGroups,
                                          left : 0..Duration]]
    BY DEF Init
  <2>2. since \in [ResourceGroups -> 0..Duration]
    BY DurationAssumption DEF Init
  <2>3. <<>> \in Seq(ResourceGroups)
    OBVIOUS
  <2> QED BY <2>1, <2>2, <2>3 DEF Init, TypeOK
<1>2. MappingIsTheTimers
  BY DEF Init, MappingIsTheTimers
<1>3. HandledIsNew /\ SleepsSinceThePush
  BY DEF Init, HandledIsNew, SleepsSinceThePush, Free
<1> QED BY <1>1, <1>2, <1>3 DEF IInv

LEMMA EnqueueType ==
  ASSUME TypeOK, NEW r \in ResourceGroups
  PROVE  Enqueue(r) \in Seq(ResourceGroups)
BY DEF TypeOK, Enqueue

(***************************************************************************)
(* Every step keeps the types.                                             *)
(***************************************************************************)
LEMMA TypeKept == TypeOK /\ [Next]_vars => TypeOK'
<1> SUFFICES ASSUME TypeOK, [Next]_vars PROVE TypeOK'
  OBVIOUS
<1>1. CASE \E r \in ResourceGroups : Change(r)
  BY <1>1 DEF TypeOK, Change, throttler, controller
<1>2. CASE \E r \in ResourceGroups : Read(r)
  BY <1>2 DEF TypeOK, Read, throttler
<1>3. CASE \E r \in ResourceGroups : Finish(r)
  BY <1>3 DEF TypeOK, Finish, throttler
<1>4. CASE \E r \in ResourceGroups : Retry(r)
  BY <1>4, EnqueueType DEF TypeOK, Retry, throttler
<1>5. ASSUME NEW t \in Timers, Mark(t) PROVE TypeOK'
  <2>1. handling \in ResourceGroups
    BY <1>5 DEF TypeOK, Mark
  <2>2. mapping' \in SUBSET ResourceGroups /\ handling' = None
    BY <1>5, <2>1 DEF TypeOK, Mark
  <2>3. [phase |-> "asleep", group |-> handling, left |-> Duration]
          \in [phase : {"asleep", "added"}, group : ResourceGroups, left : 0..Duration]
    BY <2>1, DurationAssumption
  <2>4. timer' \in [Timers -> {Free} \cup [phase : {"asleep", "added"}, group : ResourceGroups,
                                           left : 0..Duration]]
    BY <1>5, <2>3 DEF TypeOK, Mark
  <2> QED BY <1>5, <2>2, <2>4 DEF TypeOK, Mark, controller
<1>6. ASSUME NEW t \in Timers, Push(t) PROVE TypeOK'
  <2>1. timer[t] # Free /\ timer[t].group \in ResourceGroups
    BY <1>6, TimerCases DEF Push
  <2>2. [timer[t] EXCEPT !.phase = "added"]
          \in [phase : {"asleep", "added"}, group : ResourceGroups, left : 0..Duration]
    BY <2>1 DEF TypeOK
  <2>3. timer' \in [Timers -> {Free} \cup [phase : {"asleep", "added"}, group : ResourceGroups,
                                           left : 0..Duration]]
    BY <1>6, <2>2 DEF TypeOK, Push
  <2>4. queue' \in Seq(ResourceGroups)
    BY <1>6, <2>1, EnqueueType DEF Push
  <2>5. since' \in [ResourceGroups -> 0..Duration]
    BY <1>6, <2>1, DurationAssumption DEF TypeOK, Push
  <2> QED BY <1>6, <2>3, <2>4, <2>5 DEF TypeOK, Push
<1>7. CASE \E t \in Timers : Unmark(t)
  BY <1>7 DEF TypeOK, Unmark, controller
<1>8. CASE Receive
  <2>1. channel # <<>> /\ channel' = Tail(channel) /\ Head(channel) \in ResourceGroups
    BY <1>8 DEF TypeOK, Receive
  <2>2. channel' \in Seq(ResourceGroups)
    BY <2>1 DEF TypeOK
  <2>3. handling' \in ResourceGroups \cup {None} /\ lateSkipped' \in SUBSET ResourceGroups
    BY <1>8, <2>1 DEF TypeOK, Receive
  <2> QED BY <1>8, <2>2, <2>3 DEF TypeOK, Receive, controller
<1>9. CASE Tick
  <2>1. ASSUME NEW t \in Timers
        PROVE  timer'[t] \in {Free} \cup [phase : {"asleep", "added"}, group : ResourceGroups,
                                          left : 0..Duration]
    <3>1. CASE timer[t].left > 0
      <4>1. timer[t] # Free
        BY <3>1 DEF Free
      <4>2. timer[t] \in [phase : {"asleep", "added"}, group : ResourceGroups, left : 0..Duration]
        BY <4>1 DEF TypeOK
      <4>3. timer[t].left - 1 \in 0..Duration
        BY <3>1, <4>2, DurationAssumption
      <4>4. [timer[t] EXCEPT !.left = @ - 1]
              \in [phase : {"asleep", "added"}, group : ResourceGroups, left : 0..Duration]
        BY <4>2, <4>3
      <4> QED BY <1>9, <3>1, <4>4 DEF Tick
    <3>2. CASE ~(timer[t].left > 0)
      BY <1>9, <3>2 DEF Tick, TypeOK
    <3> QED BY <3>1, <3>2
  <2>2. since' \in [ResourceGroups -> 0..Duration]
    BY <1>9, DurationAssumption DEF TypeOK, Tick
  <2>3. timer' \in [Timers -> {Free} \cup [phase : {"asleep", "added"}, group : ResourceGroups,
                                           left : 0..Duration]]
    BY <1>9, <2>1 DEF Tick
  <2> QED BY <1>9, <2>2, <2>3 DEF TypeOK, Tick, controller
<1>10. CASE Take
  <2>1. Head(queue) \in ResourceGroups /\ Tail(queue) \in Seq(ResourceGroups)
    BY <1>10 DEF TypeOK, Take
  <2> QED BY <1>10, <2>1 DEF TypeOK, Take, throttler
<1>11. CASE Fail
  BY <1>11 DEF TypeOK, Fail, throttler
<1>12. CASE UNCHANGED vars
  BY <1>12 DEF TypeOK, vars, throttler, controller
<1> QED BY <1>1, <1>2, <1>3, <1>4, <1>5, <1>6, <1>7, <1>8, <1>9, <1>10, <1>11, <1>12 DEF Next

(***************************************************************************)
(* Only Receive, Mark, Tick, Push and Unmark change what the rest of the   *)
(* invariant is about.                                                     *)
(***************************************************************************)
LEMMA Others ==
  ASSUME IInv, UNCHANGED <<handling, mapping, timer, since>>
  PROVE  MappingIsTheTimers' /\ HandledIsNew' /\ SleepsSinceThePush'
BY DEF IInv, MappingIsTheTimers, HandledIsNew, SleepsSinceThePush

LEMMA MarkKeeps ==
  ASSUME IInv, NEW t \in Timers, Mark(t)
  PROVE  MappingIsTheTimers' /\ HandledIsNew' /\ SleepsSinceThePush'
<1>1. /\ handling \in ResourceGroups
      /\ timer[t] = Free
      /\ mapping' = mapping \cup {handling}
      /\ handling' = None
      /\ since' = since
      /\ timer'[t] = [phase |-> "asleep", group |-> handling, left |-> Duration]
      /\ \A u \in Timers \ {t} : timer'[u] = timer[u]
  BY DEF IInv, TypeOK, Mark
<1>2. timer'[t] # Free /\ timer'[t].group = handling /\ timer'[t].left = Duration
  BY <1>1 DEF Free
<1>3. \A u \in Timers : timer[u] # Free => timer[u].group # handling
  BY <1>1, MappingMembers DEF IInv, HandledIsNew
<1>4. \A r : r \in mapping' <=> \E u \in Timers : timer'[u] # Free /\ timer'[u].group = r
  BY <1>1, <1>2, MappingMembers DEF IInv
<1>5. \A u, v \in Timers : timer'[u] # Free /\ timer'[v] # Free /\ timer'[u].group = timer'[v].group
                             => u = v
  BY <1>1, <1>2, <1>3, MappingMembers DEF IInv
<1>6. MappingIsTheTimers'
  BY <1>4, <1>5 DEF MappingIsTheTimers
<1>7. HandledIsNew'
  BY <1>1, NoneAssumption DEF IInv, TypeOK, HandledIsNew
<1>8. since[handling] + Duration >= Duration
  BY <1>1, DurationAssumption DEF IInv, TypeOK
<1>9. SleepsSinceThePush'
  BY <1>1, <1>2, <1>8 DEF IInv, SleepsSinceThePush
<1> QED BY <1>6, <1>7, <1>9

LEMMA TickKeeps ==
  ASSUME IInv, Tick
  PROVE  MappingIsTheTimers' /\ HandledIsNew' /\ SleepsSinceThePush'
<1>1. ASSUME NEW t \in Timers
      PROVE  /\ timer'[t].phase = timer[t].phase
             /\ timer'[t].group = timer[t].group
             /\ timer'[t].left \in Nat
             /\ timer'[t].left >= timer[t].left - 1
             /\ timer[t].left = 0 => timer'[t].left = 0
             /\ timer'[t] = Free <=> timer[t] = Free
  <2>1. timer[t].left \in 0..Duration
    BY TimerCases DEF IInv
  <2>2. CASE timer[t].left > 0
    <3>0. timer[t] # Free
      BY <2>2 DEF Free
    <3>1. timer[t] # Free /\ timer[t].phase # "free"
      BY <3>0, TimerCases DEF IInv
    <3>2. timer'[t] = [timer[t] EXCEPT !.left = @ - 1]
      BY <2>2 DEF Tick
    <3>3. timer'[t].phase = timer[t].phase /\ timer'[t].group = timer[t].group
          /\ timer'[t].left = timer[t].left - 1
      BY <3>2, <3>1, TimerCases DEF IInv
    <3>4. timer'[t] # Free
      BY <3>1, <3>3 DEF Free
    <3> QED BY <2>1, <2>2, <3>1, <3>3, <3>4, DurationAssumption
  <2>3. CASE ~(timer[t].left > 0)
    BY <2>1, <2>3, DurationAssumption DEF Tick
  <2> QED BY <2>2, <2>3
<1>2. mapping' = mapping /\ handling' = handling
  BY DEF Tick
<1>3. MappingIsTheTimers'
  BY <1>1, <1>2 DEF IInv, MappingIsTheTimers
<1>4. HandledIsNew'
  BY <1>2 DEF IInv, HandledIsNew
<1>5. ASSUME NEW t \in Timers, timer'[t].phase = "asleep"
      PROVE  since'[timer'[t].group] + timer'[t].left >= Duration
  <2>1. timer[t].phase = "asleep" /\ timer[t].group \in ResourceGroups
    BY <1>1, <1>5, TimerCases DEF IInv
  <2>2. since[timer[t].group] + timer[t].left >= Duration
    BY <2>1 DEF IInv, SleepsSinceThePush
  <2>3. since'[timer[t].group] = IF since[timer[t].group] < Duration
                                 THEN since[timer[t].group] + 1 ELSE Duration
    BY <2>1 DEF Tick
  <2>4. since[timer[t].group] \in 0..Duration /\ timer[t].left \in 0..Duration
    BY <2>1, TimerCases DEF IInv, TypeOK
  <2> QED BY <1>1, <2>2, <2>3, <2>4, DurationAssumption
<1> QED BY <1>3, <1>4, <1>5 DEF SleepsSinceThePush

LEMMA PushKeeps ==
  ASSUME IInv, NEW t \in Timers, Push(t)
  PROVE  MappingIsTheTimers' /\ HandledIsNew' /\ SleepsSinceThePush'
<1>1. timer[t] # Free /\ timer[t].group \in ResourceGroups
  BY TimerCases DEF IInv, Push
<1>2. timer'[t].phase = "added" /\ timer'[t].group = timer[t].group /\ timer'[t] # Free
  BY <1>1, TimerCases DEF IInv, TypeOK, Push, Free
<1>3. \A u \in Timers \ {t} : timer'[u] = timer[u]
  BY DEF IInv, TypeOK, Push
<1>4. mapping' = mapping /\ handling' = handling
  BY DEF Push
<1>5. MappingIsTheTimers'
  BY <1>1, <1>2, <1>3, <1>4 DEF IInv, MappingIsTheTimers
<1>6. HandledIsNew'
  BY <1>4 DEF IInv, HandledIsNew
<1>7. ASSUME NEW u \in Timers, timer'[u].phase = "asleep"
      PROVE  since'[timer'[u].group] + timer'[u].left >= Duration
  <2>1. u # t /\ timer'[u] = timer[u]
    BY <1>2, <1>3, <1>7
  <2>2. timer[u] # Free /\ timer[u].group \in ResourceGroups
    BY <1>7, <2>1, TimerCases DEF IInv
  <2>3. timer[u].group # timer[t].group
    BY <1>1, <2>1, <2>2 DEF IInv, MappingIsTheTimers
  <2>4. since'[timer[u].group] = since[timer[u].group]
    BY <2>2, <2>3 DEF IInv, TypeOK, Push
  <2> QED BY <1>7, <2>1, <2>4 DEF IInv, SleepsSinceThePush
<1> QED BY <1>5, <1>6, <1>7 DEF SleepsSinceThePush

LEMMA UnmarkKeeps ==
  ASSUME IInv, NEW t \in Timers, Unmark(t)
  PROVE  MappingIsTheTimers' /\ HandledIsNew' /\ SleepsSinceThePush'
<1>1. /\ timer[t] # Free
      /\ timer'[t] = Free
      /\ \A u \in Timers \ {t} : timer'[u] = timer[u]
      /\ mapping' = mapping \ {timer[t].group}
      /\ handling' = handling
      /\ since' = since
  BY TimerCases DEF IInv, TypeOK, Unmark
<1>2. \A r : r \in mapping' <=> \E u \in Timers : timer'[u] # Free /\ timer'[u].group = r
  BY <1>1, MappingMembers DEF IInv
<1>3. MappingIsTheTimers'
  BY <1>1, <1>2, MappingMembers DEF IInv, MappingIsTheTimers
<1>4. HandledIsNew'
  BY <1>1 DEF IInv, HandledIsNew
<1>5. SleepsSinceThePush'
  BY <1>1 DEF IInv, SleepsSinceThePush, Free
<1> QED BY <1>3, <1>4, <1>5

LEMMA ReceiveKeeps ==
  ASSUME IInv, Receive
  PROVE  MappingIsTheTimers' /\ HandledIsNew' /\ SleepsSinceThePush'
<1>1. mapping' = mapping /\ timer' = timer /\ since' = since
  BY DEF Receive
<1>2. handling' = handling \/ handling' \notin mapping
  BY DEF Receive, Skips
<1> QED BY <1>1, <1>2 DEF IInv, MappingIsTheTimers, HandledIsNew, SleepsSinceThePush

LEMMA StepHolds == IInv /\ [Next]_vars => IInv'
<1> SUFFICES ASSUME IInv, [Next]_vars PROVE IInv'
  OBVIOUS
<1>1. TypeOK'
  BY TypeKept DEF IInv
<1>2. CASE \E r \in ResourceGroups : Change(r) \/ Read(r) \/ Finish(r) \/ Retry(r)
  BY <1>1, <1>2, Others DEF IInv, Change, Read, Finish, Retry, throttler
<1>3. CASE \E t \in Timers : Mark(t)
  BY <1>1, <1>3, MarkKeeps DEF IInv
<1>4. CASE \E t \in Timers : Push(t)
  BY <1>1, <1>4, PushKeeps DEF IInv
<1>5. CASE \E t \in Timers : Unmark(t)
  BY <1>1, <1>5, UnmarkKeeps DEF IInv
<1>6. CASE Receive
  BY <1>1, <1>6, ReceiveKeeps DEF IInv
<1>7. CASE Tick
  BY <1>1, <1>7, TickKeeps DEF IInv
<1>8. CASE Take \/ Fail
  BY <1>1, <1>8, Others DEF IInv, Take, Fail, throttler
<1>9. CASE UNCHANGED vars
  BY <1>1, <1>9, Others DEF IInv, vars, throttler
<1> QED BY <1>2, <1>3, <1>4, <1>5, <1>6, <1>7, <1>8, <1>9 DEF Next

(***************************************************************************)
(* The invariant holds in every reachable state.                           *)
(***************************************************************************)
THEOREM InductiveInvariant == Spec => []IInv
<1>1. Init => IInv
  BY InitHolds
<1>2. IInv /\ [Next]_vars => IInv'
  BY StepHolds
<1> QED BY <1>1, <1>2, PTL DEF Spec

(***************************************************************************)
(* The variables of the throttler, the queue and the worker have their     *)
(* types.                                                                  *)
(***************************************************************************)
THEOREM TypeCorrect == Spec => []TypeOK
<1>1. IInv => TypeOK
  BY DEF IInv
<1> QED BY <1>1, InductiveInvariant, PTL

(***************************************************************************)
(* A group is in Throttler.mapping exactly while one goroutine of line 96  *)
(* holds it, for any number of goroutines and groups.                      *)
(***************************************************************************)
THEOREM OneTimerPerGroup == Spec => []MappingIsTheTimers
<1>1. IInv => MappingIsTheTimers
  BY DEF IInv
<1> QED BY <1>1, InductiveInvariant, PTL

(***************************************************************************)
(* Line 98 never pushes a group twice within any duration, however late    *)
(* the goroutines are.                                                     *)
(***************************************************************************)
THEOREM PushesAreApart == Spec => AtMostOnePerDuration
<1>1. ASSUME IInv, NEW t \in Timers, Push(t) PROVE since[timer[t].group] = Duration
  <2>1. timer[t].phase = "asleep" /\ timer[t].left = 0
    BY <1>1 DEF Push
  <2>2. timer[t].group \in ResourceGroups
    BY <1>1, <2>1, TimerCases DEF IInv
  <2>3. since[timer[t].group] \in 0..Duration
    BY <1>1, <2>2 DEF IInv, TypeOK
  <2>4. since[timer[t].group] + timer[t].left >= Duration
    BY <1>1, <2>1 DEF IInv, SleepsSinceThePush
  <2> QED BY <2>1, <2>3, <2>4, DurationAssumption
<1>2. IInv => \A t \in Timers : Push(t) => since[timer[t].group] = Duration
  BY <1>1
<1>3. IInv /\ [Next]_vars => [\A t \in Timers : Push(t) => since[timer[t].group] = Duration]_vars
  BY <1>2
<1> QED BY <1>3, InductiveInvariant, PTL DEF Spec, AtMostOnePerDuration

-----------------------------------------------------------------------------
(* No change is lost.                                                      *)

LEMMA EnqueueQueues ==
  ASSUME TypeOK, NEW r \in ResourceGroups, queue' = Enqueue(r)
  PROVE  Queued(r)' /\ \A q : Queued(q) => Queued(q)'
<1>1. CASE Queued(r)
  BY <1>1 DEF Enqueue, Queued
<1>2. CASE ~Queued(r)
  <2>1. queue' = Append(queue, r) /\ queue \in Seq(ResourceGroups)
    BY <1>2 DEF Enqueue, TypeOK
  <2>2. /\ Len(queue') = Len(queue) + 1
        /\ queue'[Len(queue) + 1] = r
        /\ \A i \in 1..Len(queue) : queue'[i] = queue[i]
    BY <2>1
  <2>3. Len(queue) \in Nat
    BY <2>1
  <2> QED BY <2>2, <2>3 DEF Queued
<1> QED BY <1>1, <1>2

(***************************************************************************)
(* What is behind the head of a sequence is in its tail.                   *)
(***************************************************************************)
LEMMA InTheTail ==
  ASSUME NEW S, NEW s \in Seq(S), s # <<>>, NEW i \in 1..Len(s), s[i] # Head(s)
  PROVE  \E j \in 1..Len(Tail(s)) : Tail(s)[j] = s[i]
<1>1. i # 1 /\ i - 1 \in 1..Len(Tail(s)) /\ Tail(s)[i - 1] = s[i]
  OBVIOUS
<1> QED BY <1>1

\* The change of r is still going to be published.
OnItsWay(r) == Sent(r) \/ handling = r \/ Coming(r)

LEMMA ReceiveLosesNothing ==
  ASSUME IInv, NothingLost, Receive
  PROVE  NothingLost'
<1> DEFINE head == Head(channel)
<1>1. channel \in Seq(ResourceGroups) /\ channel # <<>> /\ channel' = Tail(channel)
      /\ head \in ResourceGroups
  BY DEF IInv, TypeOK, Receive
<1>2. UNCHANGED <<mapping, timer, queue, active, hasRead, retrying, unseen, since>>
      /\ handling = None /\ lateSkipped \subseteq lateSkipped'
  BY DEF Receive, controller
<1>3. \A q : Coming(q) => Coming(q)'
  BY <1>2 DEF Coming, Asleep, Queued
<1>4. ASSUME NEW r \in unseen' \ lateSkipped', r # head
      PROVE  OnItsWay(r)'
  <2>1. Sent(r) \/ handling = r \/ Coming(r)
    BY <1>2, <1>4 DEF NothingLost
  <2>2. handling # r
    BY <1>2, <1>4, NoneAssumption DEF IInv, TypeOK
  <2>3. CASE Sent(r)
    BY <1>1, <1>4, <2>3, InTheTail DEF Sent, OnItsWay
  <2> QED BY <1>3, <2>1, <2>2, <2>3 DEF OnItsWay
<1>5. ASSUME NEW r \in unseen' \ lateSkipped', r = head
      PROVE  OnItsWay(r)'
  <2>1. CASE ~Skips(r)
    BY <1>5, <2>1 DEF Receive, OnItsWay
  <2>2. CASE Skips(r) /\ ~Late(r)
    <3>1. PICK t \in Timers : timer[t] # Free /\ timer[t].group = r
      BY <2>2, MappingMembers DEF IInv, Skips
    <3>2. timer[t].phase \in {"asleep", "added"}
      BY <3>1, TimerCases DEF IInv
    <3>3. Coming(r)
      BY <2>2, <3>1, <3>2 DEF Late, Coming, Asleep
    <3> QED BY <1>3, <3>3 DEF OnItsWay
  <2>3. CASE Skips(r) /\ Late(r)
    BY <1>5, <2>3 DEF Receive
  <2> QED BY <2>1, <2>2, <2>3
<1> QED BY <1>4, <1>5 DEF NothingLost, OnItsWay

LEMMA MarkLosesNothing ==
  ASSUME IInv, NothingLost, NEW t \in Timers, Mark(t)
  PROVE  NothingLost'
<1>1. /\ UNCHANGED <<channel, queue, active, hasRead, retrying, unseen, lateSkipped>>
      /\ timer[t] = Free
      /\ timer'[t].phase = "asleep" /\ timer'[t].group = handling
      /\ \A u \in Timers \ {t} : timer'[u] = timer[u]
  BY DEF IInv, TypeOK, Mark, controller
<1>2. \A r : Asleep(r) => Asleep(r)'
  BY <1>1 DEF Asleep, Free
<1>3. ASSUME NEW r, handling = r
      PROVE  Asleep(r)'
  BY <1>1, <1>3 DEF Asleep
<1> QED BY <1>1, <1>2, <1>3 DEF NothingLost, Sent, Coming, Queued

LEMMA PushLosesNothing ==
  ASSUME IInv, NothingLost, NEW t \in Timers, Push(t)
  PROVE  NothingLost'
<1>1. timer[t] # Free /\ timer[t].group \in ResourceGroups
  BY TimerCases DEF IInv, Push
<1>2. \A u \in Timers \ {t} : timer'[u] = timer[u]
  BY DEF IInv, TypeOK, Push
<1>3. \A r : Queued(r) \/ r = timer[t].group => Queued(r)'
  BY <1>1, EnqueueQueues DEF IInv, Push
<1>4. \A r : Asleep(r) => Asleep(r)' \/ r = timer[t].group
  BY <1>2 DEF Asleep
<1>5. UNCHANGED <<channel, handling, active, hasRead, retrying, unseen, lateSkipped>>
  BY DEF Push
<1> QED BY <1>3, <1>4, <1>5 DEF NothingLost, Sent, Coming

LEMMA TimersLoseNothing ==
  ASSUME IInv, NothingLost, Tick \/ \E t \in Timers : Unmark(t)
  PROVE  NothingLost'
<1>1. UNCHANGED <<channel, handling, queue, active, hasRead, retrying, unseen, lateSkipped>>
  BY DEF Tick, Unmark, controller
<1>2. ASSUME NEW t \in Timers, timer[t].phase = "asleep"
      PROVE  timer'[t].phase = "asleep" /\ timer'[t].group = timer[t].group
  <2>1. CASE \E u \in Timers : Unmark(u)
    BY <1>2, <2>1 DEF IInv, TypeOK, Unmark
  <2>2. CASE Tick
    <3>1. timer[t] = [phase |-> timer[t].phase, group |-> timer[t].group, left |-> timer[t].left]
      BY <1>2, TimerCases DEF IInv
    <3>2. CASE timer[t].left > 0
      <4>1. timer'[t] = [timer[t] EXCEPT !.left = @ - 1]
        BY <2>2, <3>2 DEF Tick
      <4> QED BY <1>2, <3>1, <4>1
    <3>3. CASE ~(timer[t].left > 0)
      BY <1>2, <2>2, <3>3 DEF Tick
    <3> QED BY <3>2, <3>3
  <2> QED BY <2>1, <2>2
<1>3. \A r : Asleep(r) => Asleep(r)'
  BY <1>2 DEF Asleep
<1> QED BY <1>1, <1>3 DEF NothingLost, Sent, Coming, Queued

LEMMA WorkerLosesNothing ==
  ASSUME IInv, NothingLost, \/ Take \/ Fail
                            \/ \E r \in ResourceGroups : Read(r) \/ Finish(r) \/ Retry(r)
  PROVE  NothingLost'
<1>1. UNCHANGED <<channel, throttler>>
  BY DEF Take, Fail, Read, Finish, Retry
<1>2. \A r : (Sent(r) => Sent(r)') /\ (Asleep(r) => Asleep(r)') /\ (handling = r => handling' = r)
  BY <1>1 DEF throttler, Sent, Asleep
<1>3. CASE Take
  <2>1. queue \in Seq(ResourceGroups) /\ queue # <<>> /\ queue' = Tail(queue)
        /\ active = None /\ active' = Head(queue) /\ hasRead' = FALSE
        /\ UNCHANGED <<retrying, unseen, lateSkipped>>
    BY <1>3 DEF IInv, TypeOK, Take
  <2>2. \A r : Queued(r) => Queued(r)' \/ active' = r
    BY <2>1, InTheTail DEF Queued
  <2>3. \A r \in ResourceGroups : Coming(r) => Coming(r)'
    BY <1>2, <2>1, <2>2, NoneAssumption DEF Coming
  <2>4. unseen \subseteq ResourceGroups
    BY DEF IInv, TypeOK
  <2> QED BY <1>2, <2>1, <2>3, <2>4 DEF NothingLost
<1>4. CASE Fail
  <2>1. /\ UNCHANGED <<queue, lateSkipped>>
        /\ retrying' = retrying \cup {active}
        /\ unseen' \subseteq unseen \cup {active}
    BY <1>4 DEF Fail
  <2>2. \A r : Coming(r) => Coming(r)'
    BY <1>2, <2>1 DEF Coming, Queued
  <2>3. \A r : r = active => Coming(r)'
    BY <2>1 DEF Coming
  <2> QED BY <1>2, <2>1, <2>2, <2>3 DEF NothingLost
<1>5. ASSUME NEW r \in ResourceGroups, Read(r)
      PROVE  NothingLost'
  <2>1. /\ UNCHANGED <<queue, active, retrying>> /\ active = r
        /\ unseen' \ lateSkipped' \subseteq (unseen \ lateSkipped) \ {r}
    BY <1>5 DEF Read
  <2>2. \A q : q # r /\ Coming(q) => Coming(q)'
    BY <1>2, <2>1 DEF Coming, Queued
  <2> QED BY <1>2, <2>1, <2>2 DEF NothingLost
<1>6. ASSUME NEW r \in ResourceGroups, Finish(r)
      PROVE  NothingLost'
  <2>1. UNCHANGED <<queue, retrying, unseen, lateSkipped>> /\ active = r /\ hasRead
    BY <1>6 DEF Finish
  <2>2. \A q : Coming(q) => Coming(q)'
    BY <1>2, <2>1 DEF Coming, Queued
  <2> QED BY <1>2, <2>1, <2>2 DEF NothingLost
<1>7. ASSUME NEW r \in ResourceGroups, Retry(r)
      PROVE  NothingLost'
  <2>1. UNCHANGED <<active, hasRead, unseen, lateSkipped>> /\ retrying' = retrying \ {r}
    BY <1>7 DEF Retry
  <2>2. Queued(r)' /\ \A q : Queued(q) => Queued(q)'
    BY <1>7, EnqueueQueues DEF IInv, Retry
  <2>3. \A q : Coming(q) => Coming(q)'
    BY <1>2, <2>1, <2>2 DEF Coming
  <2> QED BY <1>2, <2>1, <2>3 DEF NothingLost
<1> QED BY <1>3, <1>4, <1>5, <1>6, <1>7

LEMMA ChangeLosesNothing ==
  ASSUME IInv, NothingLost, NEW r \in ResourceGroups, Change(r)
  PROVE  NothingLost'
<1>1. /\ channel \in Seq(ResourceGroups) /\ channel' = Append(channel, r)
      /\ unseen' = unseen \cup {r}
      /\ UNCHANGED <<handling, timer, queue, active, hasRead, retrying, lateSkipped>>
  BY DEF IInv, TypeOK, Change, throttler, controller
<1>2. /\ Len(channel) \in Nat /\ Len(channel') = Len(channel) + 1
      /\ channel'[Len(channel) + 1] = r
      /\ \A i \in 1..Len(channel) : channel'[i] = channel[i]
  BY <1>1
<1>3. Sent(r)' /\ \A q : Sent(q) => Sent(q)'
  BY <1>2 DEF Sent
<1>4. \A q : Coming(q) => Coming(q)'
  BY <1>1 DEF Coming, Asleep, Queued
<1> QED BY <1>1, <1>3, <1>4 DEF NothingLost

(***************************************************************************)
(* Every change that no published status has read is in the channel, in    *)
(* Generic, or ahead of a reconcile, except for the skips of lateSkipped.  *)
(***************************************************************************)
THEOREM NoChangeIsLost == Spec => []NothingLost
<1>1. Init => NothingLost
  BY DEF Init, NothingLost
<1>2. IInv /\ NothingLost /\ [Next]_vars => NothingLost'
  <2> SUFFICES ASSUME IInv, NothingLost, [Next]_vars PROVE NothingLost'
    OBVIOUS
  <2>1. CASE \E r \in ResourceGroups : Change(r)
    BY <2>1, ChangeLosesNothing
  <2>2. CASE \/ Take \/ Fail \/ \E r \in ResourceGroups : Read(r) \/ Finish(r) \/ Retry(r)
    BY <2>2, WorkerLosesNothing
  <2>3. CASE \E t \in Timers : Mark(t)
    BY <2>3, MarkLosesNothing
  <2>4. CASE \E t \in Timers : Push(t)
    BY <2>4, PushLosesNothing
  <2>5. CASE Tick \/ \E t \in Timers : Unmark(t)
    BY <2>5, TimersLoseNothing
  <2>6. CASE Receive
    BY <2>6, ReceiveLosesNothing
  <2>7. CASE UNCHANGED vars
    BY <2>7 DEF NothingLost, Sent, Coming, Asleep, Queued, vars, throttler, controller
  <2> QED BY <2>1, <2>2, <2>3, <2>4, <2>5, <2>6, <2>7 DEF Next
<1> QED BY <1>1, <1>2, InductiveInvariant, PTL DEF Spec

=============================================================================
