---------------------------- MODULE MCThrottler ----------------------------
(* Two groups that share the handler, the queue and the worker; two        *)
(* timers, so that both could be for one group.                            *)
EXTENDS Throttler

CONSTANTS g1, g2, t1, t2

MCGroups == {g1, g2}
MCTimers == {t1, t2}
=============================================================================
