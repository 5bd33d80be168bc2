------------------------------- MODULE SqlPool --------------------------------
(***************************************************************************)
(* ConnectionPool and ConnectionRAII of src/mywebserver/CGIMysql: a list   *)
(* of connections under a mutex, a semaphore that counts the free ones,    *)
(* two counters.  A thread looks at the size of the list without the lock, *)
(* then waits, locks, reads the front and pops it; the destructor of the   *)
(* RAII object pushes it back and posts.  DestroyPool runs when main       *)
(* returns, while the detached workers are still alive.                    *)
(***************************************************************************)
EXTENDS Integers, Sequences, FiniteSets

CONSTANTS
    Threads,    \* the threads that make ConnectionRAII objects
    Conns,      \* the MYSQL handles: maxConn of them
    Main,       \* the thread that starts and ends the pool
    None,       \* the NULL connection, and nobody
    Shutdown    \* whether main ever returns

ASSUME SqlPoolAssumption ==
    /\ IsFiniteSet(Threads) /\ IsFiniteSet(Conns)
    /\ Main \notin Threads
    /\ None \notin Threads \cup Conns \cup {Main}
    /\ Shutdown \in BOOLEAN

VARIABLES
    stage,      \* of the pool: init, serving, destroying, destroyed; the
                \* process may also have exited or crashed
    connList,
    lock,       \* the owner of the mutex, or None
    sem,
    m_freeConn,
    m_currConn,
    closed,     \* connections given to mysql_close
    pc,         \* where each thread is in the constructor or destructor
    conn        \* connRAII of each thread

vars == <<stage, connList, lock, sem, m_freeConn, m_currConn, closed, pc, conn>>
poolVars == <<connList, m_freeConn, m_currConn, closed>>
threadVars == <<pc, conn>>

Init ==
    /\ stage = "init"
    /\ connList = <<>>
    /\ lock = None
    /\ sem = 0
    /\ m_freeConn = 0
    /\ m_currConn = 0
    /\ closed = {}
    /\ pc = [t \in Threads |-> "idle"]
    /\ conn = [t \in Threads |-> None]

Listed == {connList[i] : i \in DOMAIN connList}

------------------------------------------------------------------------------
(* ConnectionPool::Init, before there are threads.                         *)

Connect(c) ==
    /\ stage = "init"
    /\ c \notin Listed
    /\ connList' = Append(connList, c)
    /\ m_freeConn' = m_freeConn + 1
    /\ UNCHANGED <<stage, lock, sem, m_currConn, closed, threadVars>>

\* mysql_init or mysql_real_connect fails: exit(1).
ConnectFails ==
    /\ stage = "init"
    /\ Listed # Conns
    /\ stage' = "exited"
    /\ UNCHANGED <<lock, sem, poolVars, threadVars>>

Start ==
    /\ stage = "init"
    /\ Listed = Conns
    /\ sem' = m_freeConn
    /\ stage' = "serving"
    /\ UNCHANGED <<lock, poolVars, threadVars>>

------------------------------------------------------------------------------
(* GetConnection, from the constructor of ConnectionRAII.                  *)

Alive == stage \in {"serving", "destroying", "destroyed"}

\* `<= 1` for `== 0`: a mutant.
LooksEmptyTooSoon == Len(connList) <= 1
LooksEmpty == Len(connList) = 0

\* The size is read without the lock: by the time the thread acts on it, the
\* list may be another.
CheckSize(t) ==
    /\ Alive
    /\ pc[t] = "idle"
    /\ pc' = [pc EXCEPT ![t] = IF LooksEmpty THEN "using" ELSE "wait"]
    /\ UNCHANGED <<stage, lock, sem, conn, poolVars>>

Wait(t) ==
    /\ Alive
    /\ pc[t] = "wait"
    /\ sem > 0
    /\ sem' = sem - 1
    /\ pc' = [pc EXCEPT ![t] = "lock"]
    /\ UNCHANGED <<stage, lock, conn, poolVars>>

\* A mutex that does not keep the threads apart: a mutant.
LockShared(t) ==
    /\ Alive
    /\ pc[t] = "lock"
    /\ lock # Main
    /\ lock' = t
    /\ pc' = [pc EXCEPT ![t] = "front"]
    /\ UNCHANGED <<stage, sem, conn, poolVars>>

Lock(t) ==
    /\ Alive
    /\ pc[t] = "lock"
    /\ lock = None
    /\ lock' = t
    /\ pc' = [pc EXCEPT ![t] = "front"]
    /\ UNCHANGED <<stage, sem, conn, poolVars>>

\* front() and pop_front() of an empty list: pop_front frees the sentinel node,
\* which is not on the heap, and the process aborts.
Front(t) ==
    /\ Alive
    /\ pc[t] = "front"
    /\ IF connList = <<>>
       THEN stage' = "crashed" /\ UNCHANGED threadVars
       ELSE /\ conn' = [conn EXCEPT ![t] = Head(connList)]
            /\ pc' = [pc EXCEPT ![t] = "pop"]
            /\ UNCHANGED stage
    /\ UNCHANGED <<lock, sem, poolVars>>

PopFront(t) ==
    /\ Alive
    /\ pc[t] = "pop"
    /\ connList' = Tail(connList)
    /\ m_freeConn' = m_freeConn - 1
    /\ m_currConn' = m_currConn + 1
    /\ lock' = None
    /\ pc' = [pc EXCEPT ![t] = "using"]
    /\ UNCHANGED <<stage, sem, closed, conn>>

------------------------------------------------------------------------------
(* ReleaseConnection, from the destructor of ConnectionRAII.               *)

\* The request is done: the object goes out of scope, with NULL or a connection.
Leave(t) ==
    /\ Alive
    /\ pc[t] = "using"
    /\ pc' = [pc EXCEPT ![t] = IF conn[t] = None THEN "idle" ELSE "relock"]
    /\ UNCHANGED <<stage, lock, sem, conn, poolVars>>

Relock(t) ==
    /\ Alive
    /\ pc[t] = "relock"
    /\ lock = None
    /\ lock' = t
    /\ pc' = [pc EXCEPT ![t] = "push"]
    /\ UNCHANGED <<stage, sem, conn, poolVars>>

\* The connection back in the list and no post: a mutant.
PushNoPost(t) ==
    /\ Alive
    /\ pc[t] = "push"
    /\ connList' = Append(connList, conn[t])
    /\ m_freeConn' = m_freeConn + 1
    /\ m_currConn' = m_currConn - 1
    /\ lock' = None
    /\ conn' = [conn EXCEPT ![t] = None]
    /\ pc' = [pc EXCEPT ![t] = "idle"]
    /\ UNCHANGED <<stage, sem, closed>>

Push(t) ==
    /\ Alive
    /\ pc[t] = "push"
    /\ connList' = Append(connList, conn[t])
    /\ m_freeConn' = m_freeConn + 1
    /\ m_currConn' = m_currConn - 1
    /\ lock' = None
    /\ conn' = [conn EXCEPT ![t] = None]
    /\ pc' = [pc EXCEPT ![t] = "post"]
    /\ UNCHANGED <<stage, sem, closed>>

Post(t) ==
    /\ Alive
    /\ pc[t] = "post"
    /\ sem' = sem + 1
    /\ pc' = [pc EXCEPT ![t] = "idle"]
    /\ UNCHANGED <<stage, lock, conn, poolVars>>

------------------------------------------------------------------------------
(* DestroyPool, from the destructor of the singleton.                      *)

DestroyLock ==
    /\ Shutdown
    /\ stage = "serving"
    /\ lock = None
    /\ lock' = Main
    /\ stage' = "destroying"
    /\ UNCHANGED <<sem, poolVars, threadVars>>

\* The list not cleared: a mutant.
DestroyKeepsList ==
    /\ stage = "destroying"
    /\ closed' = closed \cup Listed
    /\ lock' = None
    /\ stage' = "destroyed"
    /\ UNCHANGED <<sem, connList, m_freeConn, m_currConn, threadVars>>

\* The counters are reset only when the list is not empty; the semaphore is
\* never reset.
DestroyClose ==
    /\ stage = "destroying"
    /\ IF connList = <<>>
       THEN UNCHANGED poolVars
       ELSE /\ closed' = closed \cup Listed
            /\ connList' = <<>>
            /\ m_freeConn' = 0
            /\ m_currConn' = 0
    /\ lock' = None
    /\ stage' = "destroyed"
    /\ UNCHANGED <<sem, threadVars>>

------------------------------------------------------------------------------
Acquiring(t) == CheckSize(t) \/ Wait(t) \/ Lock(t) \/ Front(t) \/ PopFront(t)
Releasing(t) == Leave(t) \/ Relock(t) \/ Push(t) \/ Post(t)

\* The process is gone, or main has destroyed the pool and will end it.
Stopped ==
    /\ stage \in {"exited", "crashed", "destroyed"}
    /\ UNCHANGED vars

Next ==
    \/ \E c \in Conns : Connect(c)
    \/ ConnectFails
    \/ Start
    \/ \E t \in Threads : Acquiring(t) \/ Releasing(t)
    \/ DestroyLock
    \/ DestroyClose
    \/ Stopped

(***************************************************************************)
(* Threads run; a request that has a connection ends; a positive semaphore *)
(* lets some waiter through; a mutex that is free again and again is got   *)
(* by some thread that wants it.  Nothing is assumed of a given waiter.    *)
(***************************************************************************)
Fairness ==
    /\ WF_vars(\E t \in Threads : Wait(t))
    /\ SF_vars(\E t \in Threads : Lock(t))
    /\ SF_vars(\E t \in Threads : Relock(t))
    /\ \A t \in Threads :
        WF_vars(Front(t) \/ PopFront(t) \/ Leave(t) \/ Push(t) \/ Post(t))

SafeSpec == Init /\ [][Next]_vars
Spec == SafeSpec /\ Fairness

------------------------------------------------------------------------------
(* What the pool must satisfy.                                             *)

\* The types; the counter of the free connections never goes below zero.
TypeOK ==
    /\ stage \in {"init", "serving", "destroying", "destroyed", "exited", "crashed"}
    /\ connList \in Seq(Conns)
    /\ lock \in Threads \cup {Main, None}
    /\ sem \in Nat
    /\ m_freeConn \in Nat
    /\ m_currConn \in Int
    /\ closed \subseteq Conns
    /\ pc \in [Threads -> {"idle", "wait", "lock", "front", "pop", "using",
                           "relock", "push", "post"}]
    /\ conn \in [Threads -> Conns \cup {None}]

\* Threads that have taken a unit of the semaphore and no connection yet, and
\* threads that have put a connection back and not posted.
Reserving == {t \in Threads : pc[t] \in {"lock", "front", "pop"}}
Posting == {t \in Threads : pc[t] = "post"}
\* Threads that own a connection (one at "pop" still shares it with the list).
Owning == {t \in Threads : pc[t] \in {"using", "relock", "push"} /\ conn[t] # None}

\* A thread past sem.Wait() finds a connection, though the size it looked at
\* (sql_connection_pool.cpp:11) was read without the lock.
FrontIsThere ==
    stage = "serving" =>
        \A t \in Threads : pc[t] = "front" => connList # <<>>

\* A connection is used by one thread, is not in the list meanwhile and is in
\* the list once: no two requests talk over one MYSQL handle.
ExclusiveConnection ==
    /\ \A t, u \in Owning : t # u => conn[t] # conn[u]
    /\ \A t \in Owning : conn[t] \notin Listed
    /\ \A i, j \in DOMAIN connList : i # j => connList[i] # connList[j]

\* While the pool serves, the list has what the semaphore counts plus what has been
\* reserved or not posted yet, the counters say what the list and the threads
\* say, and together they count every connection that was opened: semaphore,
\* list and counters change in different steps (sql_connection_pool.cpp:15-25,
\* 34-43).
CountsAgree ==
    stage = "serving" =>
        /\ Len(connList) = sem + Cardinality(Reserving) + Cardinality(Posting)
        /\ m_freeConn = Len(connList)
        /\ m_currConn = Cardinality(Owning)
        /\ m_freeConn + m_currConn = Cardinality(Conns)

\* The unlocked look at the size (sql_connection_pool.cpp:11) gives a thread NULL
\* only when every connection is in the hands of another thread: with as many
\* connections as threads, the default (config.cpp:16,19), nobody gets NULL.
NullOnlyWhenAllTaken ==
    [][\A t \in Threads :
         stage = "serving" /\ pc[t] = "idle" /\ pc'[t] = "using"
            => Conns = {conn[u] : u \in Owning \ {t}}]_vars

\* No request is served over a connection the pool has closed, whenever main
\* returns.
NotUsedAfterClose == \A t \in Owning : conn[t] \notin closed

\* The pool is the abstract allocator, with its list as the free set.
held == [t \in Threads |-> IF t \in Owning THEN conn[t] ELSE None]
CA == INSTANCE ConnAllocator WITH free <- Listed, held <- held
ImplementsAllocator == CA!CASpec

\* Threads that want a connection do not all wait on each other: some thread
\* gets one, or is told there is none, or the process ends.
NoGridlock ==
    (\E t \in Threads : pc[t] \in {"wait", "lock"})
        ~> ((\E t \in Threads : pc[t] = "using") \/ stage # "serving")
===============================================================================
