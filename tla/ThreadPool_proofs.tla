-------------------------- MODULE ThreadPool_proofs ---------------------------
(***************************************************************************)
(* Proofs about ThreadPool, for every number of workers, every set of      *)
(* requests and every m_max_requests.  None of SemCountsTasks,             *)
(* FrontIsThere and PopsWhatItRead is inductive alone: IInv adds who holds *)
(* the lock at which point of the code, and what the event loop has        *)
(* checked or been given by then.                                          *)
(***************************************************************************)
EXTENDS ThreadPool, FiniteSetTheorems, TLAPS

\* The lock is held exactly where the code is between Lock and Unlock.
LockOwner ==
    /\ \A w \in Workers : pc[w] \in {"front", "pop"} <=> queuelocker = w
    /\ mainpc \in {"check", "push"} <=> queuelocker = Main

\* What the event loop holds while it submits.
Submission ==
    /\ mainpc # "idle" => submitting \in Requests
    /\ mainpc = "push" => Len(workerqueue) < MaxRequests

\* What a worker holds after it has read the front.
TaskTaken == \A w \in Workers : pc[w] \in {"pop", "run"} => request[w] \in Requests

IInv ==
    /\ TypeOK
    /\ LockOwner
    /\ Submission
    /\ TaskTaken
    /\ PopsWhatItRead
    /\ SemCountsTasks

------------------------------------------------------------------------------
(* How the set of woken workers changes.                                   *)

\* A worker that the semaphore lets through is one more awake
\* (threadpool.h:116).
LEMMA AwakeGrows ==
    ASSUME TypeOK, NEW w \in Workers, pc[w] = "wait",
           pc' = [pc EXCEPT ![w] = "lock"]
    PROVE  /\ Awake' = Awake \cup {w}
           /\ Cardinality(Awake') = Cardinality(Awake) + 1
           /\ Cardinality(Awake) \in Nat
<1>1. IsFiniteSet(Awake) /\ w \notin Awake
  BY PoolAssumption, FS_Subset DEF Awake
<1>2. Awake' = Awake \cup {w}
  BY DEF TypeOK, Awake
<1> QED
  BY <1>1, <1>2, FS_AddElement, FS_CardinalityType

\* A worker that leaves the critical section with its task is one less
\* (threadpool.h:125-126).
LEMMA AwakeShrinks ==
    ASSUME TypeOK, NEW w \in Workers, pc[w] = "pop",
           pc' = [pc EXCEPT ![w] = "run"]
    PROVE  /\ Awake' = Awake \ {w}
           /\ Cardinality(Awake') = Cardinality(Awake) - 1
           /\ Cardinality(Awake) \in Nat /\ Cardinality(Awake') \in Nat
<1>1. IsFiniteSet(Awake) /\ w \in Awake
  BY PoolAssumption, FS_Subset DEF Awake
<1>2. Awake' = Awake \ {w}
  BY DEF TypeOK, Awake
<1>3. IsFiniteSet(Awake')
  BY <1>1, <1>2, FS_RemoveElement
<1> QED
  BY <1>1, <1>2, <1>3, FS_RemoveElement, FS_CardinalityType

\* The number of woken workers is a natural number, and positive when a
\* worker is about to read the front.
LEMMA AwakeCount ==
    /\ Cardinality(Awake) \in Nat
    /\ \A w \in Workers : pc[w] = "front" => Cardinality(Awake) > 0
<1>1. IsFiniteSet(Awake)
  BY PoolAssumption, FS_Subset DEF Awake
<1>2. ASSUME NEW w \in Workers, pc[w] = "front"
      PROVE  Cardinality(Awake) > 0
  <2>1. Awake # {}
    BY <1>2 DEF Awake
  <2> QED
    BY <1>1, <2>1, FS_EmptySet, FS_CardinalityType
<1> QED
  BY <1>1, <1>2, FS_CardinalityType

\* A worker about to read the front finds one (threadpool.h:119).
LEMMA NotEmpty == TypeOK /\ SemCountsTasks => FrontIsThere
<1> SUFFICES ASSUME TypeOK, SemCountsTasks, NEW w \in Workers, pc[w] = "front"
             PROVE  workerqueue # <<>>
  BY DEF FrontIsThere
<1>1. Len(workerqueue) > 0
  BY AwakeCount DEF SemCountsTasks, ToPost, TypeOK
<1> QED
  BY <1>1

------------------------------------------------------------------------------
(* The steps of the proof that IInv is inductive, one lemma per thread.    *)

\* Every step of AppendProactor preserves the invariant.
LEMMA MainStep ==
    ASSUME IInv,
           \/ \E r \in Requests : AppendLock(r)
           \/ AppendFull \/ AppendRoom \/ AppendPush \/ AppendPost
    PROVE  IInv'
<1> USE PoolAssumption DEF IInv, TypeOK, workerVars
<1>1. Cardinality(Awake) \in Nat
  BY AwakeCount
<1>2. CASE \E r \in Requests : AppendLock(r)
  BY <1>1, <1>2 DEF AppendLock, LockOwner, Submission, TaskTaken,
                    PopsWhatItRead, SemCountsTasks, Awake, ToPost
<1>3. CASE AppendFull
  BY <1>1, <1>3 DEF AppendFull, LockOwner, Submission, TaskTaken,
                    PopsWhatItRead, SemCountsTasks, Awake, ToPost
<1>4. CASE AppendRoom
  BY <1>1, <1>4 DEF AppendRoom, QueueFull, LockOwner, Submission, TaskTaken,
                    PopsWhatItRead, SemCountsTasks, Awake, ToPost
<1>5. CASE AppendPush
  <2> USE <1>5 DEF AppendPush
  <2>1. /\ submitting \in Requests
        /\ workerqueue' \in Seq(Requests)
        /\ Len(workerqueue') = Len(workerqueue) + 1
        /\ Len(workerqueue) < MaxRequests
    BY DEF Submission
  <2>2. \A w \in Workers : pc[w] # "pop"
    BY DEF LockOwner
  <2>3. SemCountsTasks'
    BY <1>1, <2>1 DEF SemCountsTasks, Awake, ToPost
  <2>4. TypeOK' /\ LockOwner' /\ Submission' /\ TaskTaken'
    BY <2>1 DEF LockOwner, Submission, TaskTaken
  <2>5. PopsWhatItRead'
    BY <2>2 DEF PopsWhatItRead
  <2> QED
    BY <2>3, <2>4, <2>5
<1>6. CASE AppendPost
  BY <1>1, <1>6 DEF AppendPost, LockOwner, Submission, TaskTaken,
                    PopsWhatItRead, SemCountsTasks, Awake, ToPost
<1> QED
  BY <1>2, <1>3, <1>4, <1>5, <1>6

\* Every step of Run preserves the invariant.
LEMMA WorkerStep ==
    ASSUME IInv, NEW w \in Workers, Worker(w)
    PROVE  IInv'
<1> USE PoolAssumption DEF IInv, TypeOK, mainVars
<1>1. CASE Wait(w)
  <2> USE <1>1 DEF Wait
  <2>1. Cardinality(Awake') = Cardinality(Awake) + 1 /\ Cardinality(Awake) \in Nat
    BY AwakeGrows
  <2>2. SemCountsTasks'
    BY <2>1 DEF SemCountsTasks, ToPost
  <2>3. TypeOK' /\ LockOwner' /\ Submission' /\ TaskTaken' /\ PopsWhatItRead'
    BY DEF LockOwner, Submission, TaskTaken, PopsWhatItRead
  <2> QED
    BY <2>2, <2>3
<1>2. CASE Lock(w)
  <2> USE <1>2 DEF Lock
  <2>1. Awake' = Awake
    BY DEF Awake
  <2>2. TypeOK' /\ LockOwner' /\ Submission' /\ TaskTaken' /\ PopsWhatItRead'
    BY DEF LockOwner, Submission, TaskTaken, PopsWhatItRead
  <2> QED
    BY <2>1, <2>2 DEF SemCountsTasks, ToPost
<1>3. CASE Front(w)
  <2> USE <1>3 DEF Front
  <2>1. workerqueue # <<>>
    BY NotEmpty DEF FrontIsThere
  <2>2. Awake' = Awake
    BY <2>1 DEF Awake
  <2>3. Head(workerqueue) \in Requests
    BY <2>1
  <2>4. TypeOK' /\ LockOwner' /\ Submission' /\ TaskTaken' /\ PopsWhatItRead'
    BY <2>1, <2>3 DEF LockOwner, Submission, TaskTaken, PopsWhatItRead
  <2> QED
    BY <2>1, <2>2, <2>4 DEF SemCountsTasks, ToPost
<1>4. CASE PopFront(w)
  <2> USE <1>4 DEF PopFront
  <2>1. /\ workerqueue # <<>>
        /\ workerqueue' \in Seq(Requests)
        /\ Len(workerqueue') = Len(workerqueue) - 1
    BY DEF PopsWhatItRead
  <2>2. /\ Cardinality(Awake') = Cardinality(Awake) - 1
        /\ Cardinality(Awake) \in Nat /\ Cardinality(Awake') \in Nat
    BY AwakeShrinks
  <2>3. SemCountsTasks'
    BY <2>1, <2>2 DEF SemCountsTasks, ToPost
  <2>4. \A v \in Workers \ {w} : pc[v] # "pop"
    BY DEF LockOwner
  <2>5. mainpc # "push"
    BY DEF LockOwner
  <2>6. PopsWhatItRead'
    BY <2>4 DEF PopsWhatItRead
  <2>7. TypeOK' /\ LockOwner' /\ Submission' /\ TaskTaken'
    BY <2>1, <2>5 DEF LockOwner, Submission, TaskTaken
  <2> QED
    BY <2>3, <2>6, <2>7
<1>5. CASE FinishRequest(w)
  <2> USE <1>5 DEF FinishRequest
  <2>1. Awake' = Awake
    BY DEF Awake
  <2>2. TypeOK' /\ LockOwner' /\ Submission' /\ TaskTaken' /\ PopsWhatItRead'
    BY DEF LockOwner, Submission, TaskTaken, PopsWhatItRead
  <2> QED
    BY <2>1, <2>2 DEF SemCountsTasks, ToPost
<1> QED
  BY <1>1, <1>2, <1>3, <1>4, <1>5 DEF Worker

\* The constructor establishes the invariant (threadpool.h:38-64).
LEMMA InitInv == Init => IInv
<1> SUFFICES ASSUME Init PROVE IInv
  OBVIOUS
<1> USE PoolAssumption DEF Init
<1>1. Awake = {}
  BY DEF Awake
<1>2. Cardinality(Awake) = 0
  BY <1>1, FS_EmptySet
<1>3. SemCountsTasks
  BY <1>2 DEF SemCountsTasks, ToPost
<1>4. TypeOK /\ LockOwner /\ Submission /\ TaskTaken /\ PopsWhatItRead
  BY DEF TypeOK, LockOwner, Submission, TaskTaken, PopsWhatItRead
<1> QED
  BY <1>3, <1>4 DEF IInv

\* IInv holds in every state the pool reaches.
LEMMA Invariance == SafeSpec => []IInv
<1>1. IInv /\ [Next]_vars => IInv'
  <2> SUFFICES ASSUME IInv, [Next]_vars PROVE IInv'
    OBVIOUS
  <2>1. CASE \/ \E r \in Requests : AppendLock(r)
             \/ AppendFull \/ AppendRoom \/ AppendPush \/ AppendPost
    BY <2>1, MainStep
  <2>2. CASE \E w \in Workers : Worker(w)
    BY <2>2, WorkerStep
  <2>3. CASE UNCHANGED vars
    BY <2>3 DEF vars, mainVars, workerVars, IInv, TypeOK, LockOwner, Submission,
                TaskTaken, PopsWhatItRead, SemCountsTasks, Awake, ToPost
  <2> QED
    BY <2>1, <2>2, <2>3 DEF Next
<1> QED
  BY <1>1, InitInv, PTL DEF SafeSpec

------------------------------------------------------------------------------
(* The theorems.                                                           *)

\* The types hold, and the list never has more than m_max_requests tasks.
THEOREM TypeCorrect == SafeSpec => []TypeOK
<1>1. IInv => TypeOK
  BY DEF IInv
<1> QED
  BY <1>1, Invariance, PTL

\* List and semaphore agree, up to the steps in progress, whatever the
\* interleaving of the event loop and the workers.
THEOREM SemaphoreCounts == SafeSpec => []SemCountsTasks
<1>1. IInv => SemCountsTasks
  BY DEF IInv
<1> QED
  BY <1>1, Invariance, PTL

\* A woken worker never meets an empty list: no worker calls front() on one.
THEOREM NeverEmptyHanded == SafeSpec => []FrontIsThere
<1>1. IInv => FrontIsThere
  BY NotEmpty DEF IInv
<1> QED
  BY <1>1, Invariance, PTL

\* The task a worker pops is the one it read.
THEOREM EachTaskOnce == SafeSpec => []PopsWhatItRead
<1>1. IInv => PopsWhatItRead
  BY DEF IInv
<1> QED
  BY <1>1, Invariance, PTL

\* The steps of the pool are steps of the abstract queue: tasks are accepted
\* within the bound and started in the order of submission, each by one
\* worker.
THEOREM RefinesTaskQueue == SafeSpec => TQ!TQSafe
<1> USE PoolAssumption
<1>1. Init => TQ!TQInit
  BY DEF Init, TQ!TQInit, running
<1>2. IInv /\ [Next]_vars => [TQ!TQNext]_(TQ!tqVars)
  <2> SUFFICES ASSUME IInv, [Next]_vars
               PROVE  TQ!TQNext \/ UNCHANGED <<workerqueue, running>>
    BY DEF TQ!tqVars
  <2> USE DEF IInv, TypeOK
  <2>1. CASE \E r \in Requests : AppendLock(r)
    BY <2>1 DEF AppendLock, workerVars, running
  <2>2. CASE AppendFull \/ AppendRoom \/ AppendPost
    BY <2>2 DEF AppendFull, AppendRoom, AppendPost, workerVars, running
  <2>3. CASE AppendPush
    <3>1. submitting \in Requests /\ Len(workerqueue) < MaxRequests
      BY <2>3 DEF AppendPush, Submission
    <3>2. TQ!Enqueue(submitting)
      BY <2>3, <3>1 DEF AppendPush, workerVars, running, TQ!Enqueue
    <3> QED
      BY <3>1, <3>2 DEF TQ!TQNext
  <2>4. ASSUME NEW w \in Workers, Wait(w) \/ Lock(w)
        PROVE  UNCHANGED <<workerqueue, running>>
    BY <2>4 DEF Wait, Lock, running
  <2>5. ASSUME NEW w \in Workers, Front(w)
        PROVE  UNCHANGED <<workerqueue, running>>
    <3>1. workerqueue # <<>>
      BY <2>5, NotEmpty DEF Front, FrontIsThere
    <3> QED
      BY <2>5, <3>1 DEF Front, running
  <2>6. ASSUME NEW w \in Workers, PopFront(w)
        PROVE  TQ!Start(w)
    <3>1. /\ workerqueue # <<>>
          /\ request[w] = Head(workerqueue)
          /\ running[w] = None
      BY <2>6 DEF PopFront, PopsWhatItRead, running
    <3>2. running' = [running EXCEPT ![w] = Head(workerqueue)]
      BY <2>6, <3>1 DEF PopFront, running
    <3> QED
      BY <2>6, <3>1, <3>2 DEF PopFront, TQ!Start
  <2>7. ASSUME NEW w \in Workers, FinishRequest(w)
        PROVE  TQ!Finish(w)
    <3>1. running[w] # None
      BY <2>7 DEF FinishRequest, TaskTaken, running
    <3>2. running' = [running EXCEPT ![w] = None]
      BY <2>7 DEF FinishRequest, running
    <3> QED
      BY <2>7, <3>1, <3>2 DEF FinishRequest, TQ!Finish
  <2>8. CASE UNCHANGED vars
    BY <2>8 DEF vars, workerVars, running
  <2> QED
    BY <2>1, <2>2, <2>3, <2>4, <2>5, <2>6, <2>7, <2>8
       DEF Next, Worker, TQ!TQNext
<1> QED
  BY <1>1, <1>2, Invariance, PTL DEF SafeSpec, TQ!TQSafe
==============================================================================
