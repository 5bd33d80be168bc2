------------------------------- MODULE TimerOps ------------------------------
(***************************************************************************)
(* What the operations of SortTimerLst (timer.cpp) do to the order of the  *)
(* timers, as operators on sequences: no links, no state.  `when` maps     *)
(* each timer to its expire.                                               *)
(***************************************************************************)
EXTENDS Integers, Sequences, SequencesExt

\* The place of a timer that is in the list.
IndexOf(list, t) == CHOOSE i \in DOMAIN list : list[i] = t

\* Where the walk of the private AddTimer stops when it starts at `from`: the
\* first place whose timer expires strictly later, or the end.
PlaceFrom(list, from, when, e) ==
    CHOOSE i \in from..(Len(list) + 1) :
        /\ i <= Len(list) => e < when[list[i]]
        /\ \A j \in from..(i - 1) : when[list[j]] <= e

AddTimer(list, t, when) ==
    InsertAt(list, PlaceFrom(list, 1, when, when[t]), t)

\* The timer stays where it is unless the next one now expires no later; then
\* it is moved towards the tail.  It never moves towards the head.
AdjustTimer(list, t, when) ==
    LET i == IndexOf(list, t)
        rest == RemoveAt(list, i)
    IN  IF i = Len(list) \/ when[t] < when[list[i + 1]]
        THEN list
        ELSE InsertAt(rest, PlaceFrom(rest, i + 1, when, when[t]), t)

DelTimer(list, t) == RemoveAt(list, IndexOf(list, t))

\* How many timers Tick runs: it stops at the first that has not expired.
ExpiredPrefix(list, when, cur) ==
    CHOOSE n \in 0..Len(list) :
        /\ \A i \in 1..n : when[list[i]] <= cur
        /\ n < Len(list) => cur < when[list[n + 1]]
===============================================================================
