----------------------------- MODULE ThreadPool ------------------------------
(***************************************************************************)
(* ThreadPool<T> of src/mywebserver/threadpool/threadpool.h: one producer, *)
(* the event loop, puts requests in a bounded list under m_queuelocker and *)
(* posts m_queuestat; the workers wait on the semaphore, take the lock,    *)
(* read the front and pop it.  Every access to the list is a step of its   *)
(* own, so that it is the lock that keeps them apart.                      *)
(***************************************************************************)
EXTENDS Naturals, Sequences, FiniteSets

CONSTANTS
    Workers,        \* the threads of the pool: m_thread_num of them
    Requests,       \* the http_conn objects handed in (users + sockfd)
    MaxRequests,    \* m_max_requests
    Main,           \* the thread of the event loop
    None            \* not a request, and nobody's name

\* The constructor throws unless both numbers are positive.
ASSUME PoolAssumption ==
    /\ IsFiniteSet(Workers) /\ Workers # {}
    /\ MaxRequests \in Nat \ {0}
    /\ Main \notin Workers
    /\ None \notin Requests \cup Workers \cup {Main}

VARIABLES
    workerqueue,    \* m_workerqueue
    queuelocker,    \* the owner of m_queuelocker, or None
    queuestat,      \* the value of m_queuestat
    mainpc,         \* where the event loop is in AppendProactor
    submitting,     \* its argument
    pc,             \* where each worker is in Run
    request         \* the local variable of Run

vars == <<workerqueue, queuelocker, queuestat, mainpc, submitting, pc, request>>
mainVars == <<mainpc, submitting>>
workerVars == <<pc, request>>

Init ==
    /\ workerqueue = <<>>
    /\ queuelocker = None
    /\ queuestat = 0
    /\ mainpc = "idle"
    /\ submitting = None
    /\ pc = [w \in Workers |-> "wait"]
    /\ request = [w \in Workers |-> None]

------------------------------------------------------------------------------
(* AppendProactor, called by the event loop.                               *)

AppendLock(r) ==
    /\ mainpc = "idle"
    /\ queuelocker = None
    /\ queuelocker' = Main
    /\ submitting' = r
    /\ mainpc' = "check"
    /\ UNCHANGED <<workerqueue, queuestat, workerVars>>

\* `>` for `>=`: a mutant.
QueueFullOffByOne == Len(workerqueue) > MaxRequests
QueueFull == Len(workerqueue) >= MaxRequests

AppendFull ==
    /\ mainpc = "check"
    /\ QueueFull
    /\ queuelocker' = None
    /\ mainpc' = "idle"
    /\ submitting' = None
    /\ UNCHANGED <<workerqueue, queuestat, workerVars>>

AppendRoom ==
    /\ mainpc = "check"
    /\ ~QueueFull
    /\ mainpc' = "push"
    /\ UNCHANGED <<workerqueue, queuelocker, queuestat, submitting, workerVars>>

AppendPush ==
    /\ mainpc = "push"
    /\ workerqueue' = Append(workerqueue, submitting)
    /\ queuelocker' = None
    /\ mainpc' = "post"
    /\ UNCHANGED <<queuestat, submitting, workerVars>>

\* The post forgotten: a mutant.
AppendPostForgotten ==
    /\ mainpc = "post"
    /\ mainpc' = "idle"
    /\ submitting' = None
    /\ UNCHANGED <<workerqueue, queuelocker, queuestat, workerVars>>

AppendPost ==
    /\ mainpc = "post"
    /\ queuestat' = queuestat + 1
    /\ mainpc' = "idle"
    /\ submitting' = None
    /\ UNCHANGED <<workerqueue, queuelocker, workerVars>>

------------------------------------------------------------------------------
(* Run, the loop of every worker.                                          *)

Wait(w) ==
    /\ pc[w] = "wait"
    /\ queuestat > 0
    /\ queuestat' = queuestat - 1
    /\ pc' = [pc EXCEPT ![w] = "lock"]
    /\ UNCHANGED <<workerqueue, queuelocker, request, mainVars>>

\* The front read without the lock: a mutant.
LockForgotten(w) ==
    /\ pc[w] = "lock"
    /\ queuelocker' = w
    /\ pc' = [pc EXCEPT ![w] = "front"]
    /\ UNCHANGED <<workerqueue, queuestat, request, mainVars>>

Lock(w) ==
    /\ pc[w] = "lock"
    /\ queuelocker = None
    /\ queuelocker' = w
    /\ pc' = [pc EXCEPT ![w] = "front"]
    /\ UNCHANGED <<workerqueue, queuestat, request, mainVars>>

\* back() for front(): a mutant.
FrontLast(w) ==
    /\ pc[w] = "front"
    /\ request' = [request EXCEPT ![w] = workerqueue[Len(workerqueue)]]
    /\ pc' = [pc EXCEPT ![w] = "pop"]
    /\ UNCHANGED <<workerqueue, queuestat, queuelocker, mainVars>>

\* The test for an empty list is in the code; FrontIsThere shows that it never
\* fires.
Front(w) ==
    /\ pc[w] = "front"
    /\ IF workerqueue = <<>>
       THEN /\ queuelocker' = None
            /\ pc' = [pc EXCEPT ![w] = "wait"]
            /\ UNCHANGED request
       ELSE /\ request' = [request EXCEPT ![w] = Head(workerqueue)]
            /\ pc' = [pc EXCEPT ![w] = "pop"]
            /\ UNCHANGED queuelocker
    /\ UNCHANGED <<workerqueue, queuestat, mainVars>>

PopFront(w) ==
    /\ pc[w] = "pop"
    /\ workerqueue' = Tail(workerqueue)
    /\ queuelocker' = None
    /\ pc' = [pc EXCEPT ![w] = "run"]
    /\ UNCHANGED <<queuestat, request, mainVars>>

\* The work itself (Process and the database connection around it) is the
\* business of other modules; here it only takes time and ends.
FinishRequest(w) ==
    /\ pc[w] = "run"
    /\ request' = [request EXCEPT ![w] = None]
    /\ pc' = [pc EXCEPT ![w] = "wait"]
    /\ UNCHANGED <<workerqueue, queuelocker, queuestat, mainVars>>

------------------------------------------------------------------------------
Worker(w) ==
    Wait(w) \/ Lock(w) \/ Front(w) \/ PopFront(w) \/ FinishRequest(w)

Next ==
    \/ \E r \in Requests : AppendLock(r)
    \/ AppendFull
    \/ AppendRoom
    \/ AppendPush
    \/ AppendPost
    \/ \E w \in Workers : Worker(w)

(***************************************************************************)
(* A thread that can run is run; a semaphore that stays positive lets some *)
(* waiter through; a mutex that is free again and again is got by some     *)
(* worker that wants it (nothing says which); a request ends.  The event   *)
(* loop need not submit anything.                                          *)
(***************************************************************************)
Fairness ==
    /\ WF_vars(AppendFull \/ AppendRoom \/ AppendPush \/ AppendPost)
    /\ WF_vars(\E w \in Workers : Wait(w))
    /\ SF_vars(\E w \in Workers : Lock(w))
    /\ \A w \in Workers :
        WF_vars(Front(w) \/ PopFront(w)) /\ WF_vars(FinishRequest(w))

SafeSpec == Init /\ [][Next]_vars
Spec == SafeSpec /\ Fairness

------------------------------------------------------------------------------
(* What the pool must satisfy.                                             *)

\* The types; among them, that the list never exceeds m_max_requests
\* (threadpool.h:75, 92).
TypeOK ==
    /\ workerqueue \in Seq(Requests) /\ Len(workerqueue) <= MaxRequests
    /\ queuelocker \in Workers \cup {Main, None}
    /\ queuestat \in Nat
    /\ mainpc \in {"idle", "check", "push", "post"}
    /\ submitting \in Requests \cup {None}
    /\ pc \in [Workers -> {"wait", "lock", "front", "pop", "run"}]
    /\ request \in [Workers -> Requests \cup {None}]

Awake == {w \in Workers : pc[w] \in {"lock", "front", "pop"}}
ToPost == IF mainpc = "post" THEN 1 ELSE 0

\* The list has as many tasks as there are posts not consumed, workers woken
\* that have not popped yet, and the post the event loop is about to make.
\* List and semaphore are not updated under one lock (threadpool.h:97-99 and
\* 116-125), so the equality spans steps of several threads.
SemCountsTasks ==
    Len(workerqueue) = queuestat + Cardinality(Awake) + ToPost

\* A worker that was woken finds a task, whatever the others did between its
\* sem_wait and its lock: the empty() branch (threadpool.h:119-122) is dead.
FrontIsThere == \A w \in Workers : pc[w] = "front" => workerqueue # <<>>

\* The task a worker has read is still the front when it pops it
\* (threadpool.h:124-125): no task is run twice and none is dropped unread.
PopsWhatItRead ==
    \A w \in Workers :
        pc[w] = "pop" => workerqueue # <<>> /\ request[w] = Head(workerqueue)

\* The pool implements the FIFO that the server relies on, its liveness
\* included: no task waits for ever while a worker is idle.
running == [w \in Workers |-> IF pc[w] = "run" THEN request[w] ELSE None]
TQ == INSTANCE TaskQueue WITH queue <- workerqueue, running <- running
ImplementsTaskQueue == TQ!TQSpec

\* Every request submitted is eventually worked on (threadpool.h:97).
Served ==
    \A r \in Requests :
        (\E i \in DOMAIN workerqueue : workerqueue[i] = r)
            ~> (\E w \in Workers : running[w] = r)
==============================================================================
