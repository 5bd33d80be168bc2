------------------------------ MODULE TaskQueue ------------------------------
(***************************************************************************)
(* What the thread pool of threadpool.h promises the rest of the server:   *)
(* a bounded FIFO of tasks, each one handed to exactly one worker, in the  *)
(* order of submission.  No lock, no semaphore: those are ThreadPool's.    *)
(***************************************************************************)
EXTENDS Naturals, Sequences

CONSTANTS
    Workers,        \* the threads of the pool
    Requests,       \* what a task points at (http_conn objects)
    MaxRequests,    \* m_max_requests
    None            \* not a request

VARIABLES
    queue,          \* tasks submitted and not yet started
    running         \* the task of each worker, or None

tqVars == <<queue, running>>

TQInit ==
    /\ queue = <<>>
    /\ running = [w \in Workers |-> None]

\* A task is accepted while there is room (a refused one leaves no trace).
Enqueue(r) ==
    /\ Len(queue) < MaxRequests
    /\ queue' = Append(queue, r)
    /\ UNCHANGED running

\* An idle worker starts the oldest task.
Start(w) ==
    /\ running[w] = None
    /\ queue # <<>>
    /\ running' = [running EXCEPT ![w] = Head(queue)]
    /\ queue' = Tail(queue)

Finish(w) ==
    /\ running[w] # None
    /\ running' = [running EXCEPT ![w] = None]
    /\ UNCHANGED queue

TQNext ==
    \/ \E r \in Requests : Enqueue(r)
    \/ \E w \in Workers : Start(w) \/ Finish(w)

TQSafe == TQInit /\ [][TQNext]_tqVars

\* Tasks do not wait while a worker is idle, and tasks end.
TQSpec ==
    /\ TQSafe
    /\ WF_tqVars(\E w \in Workers : Start(w))
    /\ \A w \in Workers : WF_tqVars(Finish(w))
==============================================================================
