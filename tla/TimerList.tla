------------------------------- MODULE TimerList ------------------------------
(***************************************************************************)
(* SortTimerLst of src/mywebserver/timer: a doubly linked list of timers   *)
(* with a head and a tail, on a heap of nodes.  Only the event loop calls  *)
(* it, so each operation is one step.  Deleting a node blanks its fields:   *)
(* nothing may look at them, and WellLinked says that nothing does.        *)
(***************************************************************************)
EXTENDS Integers, Sequences, FiniteSets

CONSTANTS
    Timers, Delay,
    NULL,       \* the null pointer
    MaxNow      \* bound on the clock, for TLC

ASSUME TimerListAssumption ==
    /\ IsFiniteSet(Timers)
    /\ NULL \notin Timers
    /\ Delay \in Nat \ {0}
    /\ MaxNow \in Nat

VARIABLES
    heap,       \* head and tail, and the two links of every node
    live,       \* the nodes allocated and not deleted
    expire,
    now,
    fired,      \* the callbacks run by the last Tick, in order
    stepped     \* history: the clock has stepped back

vars == <<heap, live, expire, now, fired, stepped>>

Init ==
    /\ heap = [head |-> NULL, tail |-> NULL,
               next |-> [t \in Timers |-> NULL], prev |-> [t \in Timers |-> NULL]]
    /\ live = {}
    /\ expire = [t \in Timers |-> 0]
    /\ now = 0
    /\ fired = <<>>
    /\ stepped = FALSE

------------------------------------------------------------------------------
(* Reading and writing links.                                              *)

\* p->field = q, for a p that may be null only where the code tests it.
Set(links, p, q) == IF p = NULL THEN links ELSE [links EXCEPT ![p] = q]

\* The walk with <= for <: ties before, not after: a mutant.
InsertPointTies(next, when, e, start) ==
    LET Walk[p \in Timers] ==
            IF next[p] = NULL THEN p
            ELSE IF e <= when[next[p]] THEN p
            ELSE Walk[next[p]]
    IN  Walk[start]

\* The walk of the private AddTimer: the last node, from start on, after which
\* a timer with this expire goes.
InsertPoint(next, when, e, start) ==
    LET Walk[p \in Timers] ==
            IF next[p] = NULL THEN p
            ELSE IF e < when[next[p]] THEN p
            ELSE Walk[next[p]]
    IN  Walk[start]

\* The tail forgotten: a mutant.
InsertFromNoTail(h, t, when, start) ==
    LET p == InsertPoint(h.next, when, when[t], start)
        n == h.next[p]
    IN  [h EXCEPT !.next = [@ EXCEPT ![p] = t, ![t] = n],
                  !.prev = Set([@ EXCEPT ![t] = p], n, t)]

\* AddTimer(timer, lst_head).
InsertFrom(h, t, when, start) ==
    LET p == InsertPoint(h.next, when, when[t], start)
        n == h.next[p]
    IN  [h EXCEPT !.next = [@ EXCEPT ![p] = t, ![t] = n],
                  !.prev = Set([@ EXCEPT ![t] = p], n, t),
                  !.tail = IF n = NULL THEN t ELSE @]

------------------------------------------------------------------------------
(* The operations.                                                         *)

\* `-` for `+`: a mutant.
DeadlineBefore == now - Delay
\* timer->expire = cur + 3 * TIMESLOT.
Deadline == now + Delay

\* new UtilTimer, its expire, and AddTimer.
Add(t) ==
    LET when == [expire EXCEPT ![t] = Deadline]
    IN
    /\ t \notin live
    /\ live' = live \cup {t}
    /\ expire' = when
    /\ heap' = IF heap.head = NULL
               THEN [heap EXCEPT !.head = t, !.tail = t]
               ELSE IF when[t] < when[heap.head]
               THEN [heap EXCEPT !.next[t] = heap.head,
                                 !.prev[heap.head] = t,
                                 !.head = t]
               ELSE InsertFrom(heap, t, when, heap.head)
    /\ fired' = <<>>
    /\ UNCHANGED <<now, stepped>>

\* The timer gets its new expire and is not moved: a mutant.
AdjustInPlace(t) ==
    /\ t \in live
    /\ expire' = [expire EXCEPT ![t] = Deadline]
    /\ fired' = <<>>
    /\ UNCHANGED <<heap, live, now, stepped>>

\* WebServer::AdjustTimer and SortTimerLst::AdjustTimer: a new expire, then the
\* node is unlinked and the walk starts at the node that followed it.
Adjust(t) ==
    LET when == [expire EXCEPT ![t] = Deadline]
        tmp == heap.next[t]
        unlinked ==
            IF t = heap.head
            THEN [heap EXCEPT !.head = tmp, !.prev[tmp] = NULL, !.next[t] = NULL]
            ELSE [heap EXCEPT !.next[heap.prev[t]] = tmp,
                              !.prev[tmp] = heap.prev[t]]
    IN
    /\ t \in live
    /\ expire' = when
    /\ heap' = IF tmp = NULL THEN heap
               ELSE IF when[t] < when[tmp] THEN heap
               ELSE InsertFrom(unlinked, t, when, tmp)
    /\ fired' = <<>>
    /\ UNCHANGED <<live, now, stepped>>

\* delete of the nodes in dead.
Blank(h, dead) ==
    [h EXCEPT !.next = [t \in Timers |-> IF t \in dead THEN NULL ELSE @[t]],
              !.prev = [t \in Timers |-> IF t \in dead THEN NULL ELSE @[t]]]
Delete(dead) ==
    /\ live' = live \ dead
    /\ expire' = [t \in Timers |-> IF t \in dead THEN 0 ELSE expire[t]]

Unlink(t) ==
    IF t = heap.head /\ t = heap.tail
    THEN [heap EXCEPT !.head = NULL, !.tail = NULL]
    ELSE IF t = heap.head
    THEN [heap EXCEPT !.head = heap.next[t], !.prev[heap.next[t]] = NULL]
    ELSE IF t = heap.tail
    THEN [heap EXCEPT !.tail = heap.prev[t], !.next[heap.prev[t]] = NULL]
    ELSE [heap EXCEPT !.next[heap.prev[t]] = heap.next[t],
                      !.prev[heap.next[t]] = heap.prev[t]]

Del(t) ==
    /\ t \in live
    /\ heap' = Blank(Unlink(t), {t})
    /\ Delete({t})
    /\ fired' = <<>>
    /\ UNCHANGED <<now, stepped>>

\* The nodes from the head, and NULL from the end on.
NodeAt[i \in 1..(Cardinality(Timers) + 1)] ==
    IF i = 1 THEN heap.head
    ELSE LET p == NodeAt[i - 1] IN IF p = NULL THEN NULL ELSE heap.next[p]

\* `<=` for `<` in the test that ends the loop: a mutant.
TickStopsEarlyAt(i) == NodeAt[i] = NULL \/ now <= expire[NodeAt[i]]

TickStopsAt(i) == NodeAt[i] = NULL \/ now < expire[NodeAt[i]]

\* Callback, new head, delete, until a timer that has not expired.  The tail is
\* not reset when the list runs empty.
Tick ==
    LET stop == CHOOSE i \in DOMAIN NodeAt :
                    TickStopsAt(i) /\ \A j \in 1..(i - 1) : ~TickStopsAt(j)
        dead == {NodeAt[i] : i \in 1..(stop - 1)}
    IN
    /\ fired' = [i \in 1..(stop - 1) |-> NodeAt[i]]
    /\ heap' = Blank([heap EXCEPT !.head = NodeAt[stop],
                                  !.prev = IF stop = 1 THEN @
                                           ELSE Set(@, NodeAt[stop], NULL)],
                     dead)
    /\ Delete(dead)
    /\ UNCHANGED <<now, stepped>>

\* time() goes on, or steps back.
Clock ==
    /\ now' \in 0..MaxNow
    /\ now' # now
    /\ stepped' = (stepped \/ now' < now)
    /\ fired' = <<>>
    /\ UNCHANGED <<heap, live, expire>>

Next ==
    \/ \E t \in Timers : Add(t) \/ Adjust(t) \/ Del(t)
    \/ Tick
    \/ Clock

Spec == Init /\ [][Next]_vars

------------------------------------------------------------------------------
(* What the list must satisfy.                                             *)

\* The timers in the order of the list.
Size == Cardinality({i \in DOMAIN NodeAt : NodeAt[i] # NULL})
List == [i \in 1..Size |-> NodeAt[i]]

TypeOK ==
    /\ heap \in [head : Timers \cup {NULL}, tail : Timers \cup {NULL},
                 next : [Timers -> Timers \cup {NULL}],
                 prev : [Timers -> Timers \cup {NULL}]]
    /\ live \subseteq Timers
    /\ expire \in [Timers -> Nat]
    /\ now \in 0..MaxNow
    /\ Len(fired) <= Cardinality(Timers)
    /\ stepped \in BOOLEAN

\* The list is well linked: from the head it visits the live timers and no
\* other, each once; the back links mirror the forward ones; the tail is its
\* end.  A node that is deleted is never reached (a use after free).
WellLinked ==
    /\ {List[i] : i \in 1..Size} = live
    /\ Size = Cardinality(live)
    /\ \A i \in 1..Size :
        heap.prev[List[i]] = IF i = 1 THEN NULL ELSE List[i - 1]
    /\ Size > 0 => heap.tail = List[Size]

\* The list is ascending (README1.md:142 calls it that), which Tick counts on
\* when it stops at the first timer that has not expired: so it is as long
\* as the clock has not stepped back, although AdjustTimer only ever moves a timer towards
\* the tail (timer.cpp:46).
AscendingWithClock ==
    stepped \/ \A i, j \in 1..Size : i < j => expire[List[i]] <= expire[List[j]]

\* A tick runs and deletes all the timers that have expired, whatever was added,
\* adjusted and deleted before: none hides behind one that has not expired, as
\* long as the clock has not stepped back (timer.cpp:106-108).
TickLeavesNoExpired ==
    [][Tick => stepped \/ \A t \in live' : now < expire[t]]_vars

\* The links implement the operations on sequences, for any clock.
TS == INSTANCE TimerSeq WITH list <- List
ImplementsTimerSeq == TS!TSSpec
===============================================================================
