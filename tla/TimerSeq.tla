------------------------------- MODULE TimerSeq -------------------------------
(***************************************************************************)
(* The timer list of timer.cpp as its callers see it: a sequence of        *)
(* timers, a clock and the callbacks that a tick runs.  TimerList is shown *)
(* to implement it with its links.                                         *)
(***************************************************************************)
EXTENDS TimerOps

CONSTANTS
    Timers,         \* the UtilTimer objects
    Delay,          \* 3 * TIMESLOT
    MaxNow          \* bound on the clock, for TLC

------------------------------------------------------------------------------
(* The state machine: the event loop adds, adjusts, deletes and ticks.     *)

VARIABLES
    list,
    expire,     \* expire of each timer, 0 for one that is not in the list
    now,        \* what time() returns
    fired       \* the callbacks run by the last Tick, in order

tsVars == <<list, expire, now, fired>>

TSInit ==
    /\ list = <<>>
    /\ expire = [t \in Timers |-> 0]
    /\ now = 0
    /\ fired = <<>>

\* timer->expire = cur + 3 * TIMESLOT.
Deadline == now + Delay

TSAdd(t) ==
    /\ ~Contains(list, t)
    /\ expire' = [expire EXCEPT ![t] = Deadline]
    /\ list' = AddTimer(list, t, expire')
    /\ fired' = <<>>
    /\ UNCHANGED now

TSAdjust(t) ==
    /\ Contains(list, t)
    /\ expire' = [expire EXCEPT ![t] = Deadline]
    /\ list' = AdjustTimer(list, t, expire')
    /\ fired' = <<>>
    /\ UNCHANGED now

TSDel(t) ==
    /\ Contains(list, t)
    /\ list' = DelTimer(list, t)
    /\ expire' = [expire EXCEPT ![t] = 0]
    /\ fired' = <<>>
    /\ UNCHANGED now

TSTick ==
    LET n == ExpiredPrefix(list, expire, now) IN
    /\ fired' = SubSeq(list, 1, n)
    /\ list' = SubSeq(list, n + 1, Len(list))
    /\ expire' = [t \in Timers |-> IF Contains(list', t) THEN expire[t] ELSE 0]
    /\ UNCHANGED now

TSClock ==
    /\ now' \in 0..MaxNow
    /\ fired' = <<>>
    /\ UNCHANGED <<list, expire>>

TSNext ==
    \/ \E t \in Timers : TSAdd(t) \/ TSAdjust(t) \/ TSDel(t)
    \/ TSTick
    \/ TSClock

TSSpec == TSInit /\ [][TSNext]_tsVars
===============================================================================
