---------------------------- MODULE ConnAllocator -----------------------------
(***************************************************************************)
(* What the database connection pool promises: a connection is free or it  *)
(* belongs to one thread; a thread that asks gets a free one, and is told  *)
(* that there is none only when there is none.  Destroying the pool closes *)
(* what is free at that moment.                                            *)
(***************************************************************************)
CONSTANTS Threads, Conns, None

VARIABLES
    free,       \* connections nobody has
    held,       \* the connection of each thread, or None
    closed      \* connections the pool has closed

caVars == <<free, held, closed>>

CAInit ==
    /\ free = {}
    /\ held = [t \in Threads |-> None]
    /\ closed = {}

\* Start-up opens the connections one by one.
Open(c) ==
    /\ c \notin free \cup closed
    /\ \A t \in Threads : held[t] # c
    /\ free' = free \cup {c}
    /\ UNCHANGED <<held, closed>>

Acquire(t, c) ==
    /\ held[t] = None
    /\ c \in free
    /\ free' = free \ {c}
    /\ held' = [held EXCEPT ![t] = c]
    /\ UNCHANGED closed

Release(t) ==
    /\ held[t] # None
    /\ free' = free \cup {held[t]}
    /\ held' = [held EXCEPT ![t] = None]
    /\ UNCHANGED closed

Destroy ==
    /\ closed' = closed \cup free
    /\ free' = {}
    /\ UNCHANGED held

CANext ==
    \/ \E c \in Conns : Open(c) \/ \E t \in Threads : Acquire(t, c)
    \/ \E t \in Threads : Release(t)
    \/ Destroy

CASpec == CAInit /\ [][CANext]_caVars
===============================================================================
