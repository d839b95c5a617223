----------------------------- MODULE Throttler -----------------------------
(***************************************************************************)
(* controllers/handler/throttler.go: the event handler between the channel *)
(* of generic events and the work queue of the ResourceGroup controller.   *)
(*                                                                         *)
(* The watchers, the CRD event handler and the Root controller cache a     *)
(* status (or change the CR) and then send an event for the group.  One    *)
(* goroutine of source.Channel calls Generic for the events in order.      *)
(* Generic skips an event whose group is in mapping; otherwise it starts a *)
(* goroutine that sleeps, adds the request and deletes the mapping, in     *)
(* that order and without one lock around the last two.  The controller's  *)
(* single worker takes requests from the queue, reads the cache and writes *)
(* the status; a reconcile that fails is queued again later.               *)
(*                                                                         *)
(* The channel and the work queue are library code, modelled as this code  *)
(* uses them: a bounded buffer whose senders wait, and a queue without     *)
(* duplicates.  Time passes in ticks, Duration of them to a throttle.      *)
(***************************************************************************)
EXTENDS Naturals, Sequences

CONSTANTS
  ResourceGroups,
  Timers,      \* goroutines that Generic can have started at once
  None,        \* no group
  Duration,    \* Throttler.duration in ticks
  Capacity     \* events that the channel can hold

ASSUME NoneAssumption == None \notin ResourceGroups
ASSUME DurationAssumption == Duration \in Nat

VARIABLES
  channel,      \* events sent and not yet handled: sequence of groups
  handling,     \* the group that Generic did not find in mapping (line 81)
  mapping,      \* Throttler.mapping
  timer,        \* the goroutines of line 96
  queue,        \* the requests in the work queue, in order
  active,       \* the request the worker is reconciling
  hasRead,      \* that reconcile has read the cached statuses
  retrying,     \* requests to be added again after a failed reconcile
  \* Only the properties read these.
  unseen,       \* groups with a change that no published status has read
  lateSkipped,  \* groups with an event skipped between lines 98 and 101 while no
                \* reconcile was coming
  since         \* ticks since the last push of the group, up to Duration

throttler == <<handling, mapping, timer>>
controller == <<queue, active, hasRead, retrying>>
vars == <<channel, throttler, controller, unseen, lateSkipped, since>>

Free == [phase |-> "free", group |-> None, left |-> 0]

TypeOK ==
  /\ channel \in Seq(ResourceGroups)
  /\ handling \in ResourceGroups \cup {None}
  /\ mapping \in SUBSET ResourceGroups
  /\ timer \in [Timers -> {Free} \cup [phase : {"asleep", "added"}, group : ResourceGroups,
                                       left : 0..Duration]]
  /\ queue \in Seq(ResourceGroups)
  /\ active \in ResourceGroups \cup {None}
  /\ hasRead \in BOOLEAN
  /\ retrying \in SUBSET ResourceGroups
  /\ unseen \in SUBSET ResourceGroups
  /\ lateSkipped \in SUBSET ResourceGroups
  /\ since \in [ResourceGroups -> 0..Duration]

Init ==
  /\ channel = <<>>
  /\ handling = None
  /\ mapping = {}
  /\ timer = [t \in Timers |-> Free]
  /\ queue = <<>>
  /\ active = None
  /\ hasRead = FALSE
  /\ retrying = {}
  /\ unseen = {}
  /\ lateSkipped = {}
  /\ since = [r \in ResourceGroups |-> Duration]

Queued(r) == \E i \in 1..Len(queue) : queue[i] = r
Sent(r) == \E i \in 1..Len(channel) : channel[i] = r
Asleep(r) == \E t \in Timers : timer[t].phase = "asleep" /\ timer[t].group = r

\* Some reconcile of r that has not read the cache yet is on its way.
Coming(r) == Asleep(r) \/ Queued(r) \/ r \in retrying \/ (active = r /\ ~hasRead)

Late(r) ==
  /\ \E t \in Timers : timer[t].phase = "added" /\ timer[t].group = r
  /\ ~Coming(r)

\* workqueue.Add
Enqueue(r) == IF Queued(r) THEN queue ELSE Append(queue, r)

-----------------------------------------------------------------------------
(* The sender of an event: the change comes before it.                     *)

Change(r) ==
  /\ Len(channel) < Capacity
  /\ channel' = Append(channel, r)
  /\ unseen' = unseen \cup {r}
  /\ UNCHANGED <<throttler, controller, lateSkipped, since>>

-----------------------------------------------------------------------------
(* Generic.  Only one goroutine calls it, so that the check under RLock    *)
(* and the write under Lock can be separate.                               *)

\* Bugs: the mapping is not looked up; a group being reconciled is skipped.
SkipsNothing(r) == FALSE
SkipsActive(r) == r \in mapping \/ active = r

\* Lines 76-84: the event is skipped when its group is in mapping.
Skips(r) == r \in mapping

Receive ==
  /\ handling = None
  /\ channel # <<>>
  /\ channel' = Tail(channel)
  /\ LET r == Head(channel) IN
     IF Skips(r)
     THEN /\ lateSkipped' = IF Late(r) THEN lateSkipped \cup {r} ELSE lateSkipped
          /\ UNCHANGED handling
     ELSE handling' = r /\ UNCHANGED lateSkipped
  /\ UNCHANGED <<mapping, timer, controller, unseen, since>>

\* Bug: the sleep is jittered and may be longer than the duration.
MarkJittered(t) ==
  /\ handling # None
  /\ timer[t] = Free
  /\ mapping' = mapping \cup {handling}
  /\ \E left \in {Duration, Duration + 1} :
       timer' = [timer EXCEPT ![t] = [phase |-> "asleep", group |-> handling, left |-> left]]
  /\ handling' = None
  /\ UNCHANGED <<channel, controller, unseen, lateSkipped, since>>

\* Lines 92-96: the group is marked and the goroutine starts.
Mark(t) ==
  /\ handling # None
  /\ timer[t] = Free
  /\ mapping' = mapping \cup {handling}
  /\ timer' = [timer EXCEPT ![t] = [phase |-> "asleep", group |-> handling, left |-> Duration]]
  /\ handling' = None
  /\ UNCHANGED <<channel, controller, unseen, lateSkipped, since>>

-----------------------------------------------------------------------------
(* The goroutine of line 96.                                               *)

Tick ==
  /\ \/ \E t \in Timers : timer[t].left > 0
     \/ \E r \in ResourceGroups : since[r] < Duration
  /\ timer' = [t \in Timers |->
                IF timer[t].left > 0 THEN [timer[t] EXCEPT !.left = @ - 1] ELSE timer[t]]
  /\ since' = [r \in ResourceGroups |-> IF since[r] < Duration THEN since[r] + 1 ELSE Duration]
  /\ UNCHANGED <<channel, handling, mapping, controller, unseen, lateSkipped>>

\* Line 98, at any time after the sleep.
Push(t) ==
  /\ timer[t].phase = "asleep"
  /\ timer[t].left = 0
  /\ timer' = [timer EXCEPT ![t].phase = "added"]
  /\ queue' = Enqueue(timer[t].group)
  /\ since' = [since EXCEPT ![timer[t].group] = 0]
  /\ UNCHANGED <<channel, handling, mapping, active, hasRead, retrying, unseen, lateSkipped>>

\* Bug: the goroutine ends without the delete.
UnmarkNothing(t) ==
  /\ timer[t].phase = "added"
  /\ timer' = [timer EXCEPT ![t] = Free]
  /\ UNCHANGED <<channel, handling, mapping, controller, unseen, lateSkipped, since>>

\* Lines 100-102.
Unmark(t) ==
  /\ timer[t].phase = "added"
  /\ mapping' = mapping \ {timer[t].group}
  /\ timer' = [timer EXCEPT ![t] = Free]
  /\ UNCHANGED <<channel, handling, controller, unseen, lateSkipped, since>>

-----------------------------------------------------------------------------
(* The worker of the ResourceGroup controller.                             *)

Take ==
  /\ active = None
  /\ queue # <<>>
  /\ active' = Head(queue)
  /\ queue' = Tail(queue)
  /\ hasRead' = FALSE
  /\ UNCHANGED <<channel, throttler, retrying, unseen, lateSkipped, since>>

Read(r) ==
  /\ active = r
  /\ ~hasRead
  /\ hasRead' = TRUE
  /\ unseen' = unseen \ {r}
  /\ lateSkipped' = lateSkipped \ {r}
  /\ UNCHANGED <<channel, throttler, queue, active, retrying, since>>

Finish(r) ==
  /\ active = r
  /\ hasRead
  /\ active' = None
  /\ hasRead' = FALSE
  /\ UNCHANGED <<channel, throttler, queue, retrying, unseen, lateSkipped, since>>

\* Reconcile returns an error: what it read was not published.
Fail ==
  /\ active # None
  /\ retrying' = retrying \cup {active}
  /\ unseen' = IF hasRead THEN unseen \cup {active} ELSE unseen
  /\ active' = None
  /\ hasRead' = FALSE
  /\ UNCHANGED <<channel, throttler, queue, lateSkipped, since>>

Retry(r) ==
  /\ r \in retrying
  /\ retrying' = retrying \ {r}
  /\ queue' = Enqueue(r)
  /\ UNCHANGED <<channel, throttler, active, hasRead, unseen, lateSkipped, since>>

-----------------------------------------------------------------------------

Next ==
  \/ \E r \in ResourceGroups : Change(r) \/ Read(r) \/ Finish(r) \/ Retry(r)
  \/ \E t \in Timers : Mark(t) \/ Push(t) \/ Unmark(t)
  \/ Receive \/ Tick \/ Take \/ Fail

Spec == Init /\ [][Next]_vars

(***************************************************************************)
(* Goroutines are scheduled, time passes, the queue hands its requests     *)
(* out, and the API server does not fail every reconcile of a group (hence *)
(* SF for Read and Finish, which Fail disables).  Nothing makes a change   *)
(* happen.                                                                 *)
(***************************************************************************)
Fairness ==
  /\ WF_vars(Receive) /\ WF_vars(Tick) /\ WF_vars(Take)
  /\ \A t \in Timers : WF_vars(Mark(t)) /\ WF_vars(Push(t)) /\ WF_vars(Unmark(t))
  /\ \A r \in ResourceGroups : SF_vars(Read(r)) /\ SF_vars(Finish(r)) /\ WF_vars(Retry(r))

FairSpec == Spec /\ Fairness

-----------------------------------------------------------------------------
(* Properties.                                                             *)

(***************************************************************************)
(* "It pushes at most one event for the same object to the queue during    *)
(* duration" (throttler.go:66), whatever the lag of the goroutines.        *)
(***************************************************************************)
AtMostOnePerDuration ==
  [][\A t \in Timers : Push(t) => since[timer[t].group] = Duration]_vars

(***************************************************************************)
(* No change is forgotten between the event and the published status,      *)
(* through throttling, queueing, failures and retries, unless its event    *)
(* was skipped in the window after line 98 with nothing on its way.        *)
(***************************************************************************)
NothingLost ==
  \A r \in unseen \ lateSkipped : Sent(r) \/ handling = r \/ Coming(r)

(***************************************************************************)
(* Every change is in the end in a published status, or its event was      *)
(* skipped in that window.                                                 *)
(***************************************************************************)
ChangesArePublished ==
  \A r \in ResourceGroups : r \in unseen ~> (r \notin unseen \/ r \in lateSkipped)

=============================================================================
