----------------------------- MODULE SqlPool_proofs ----------------------------
(***************************************************************************)
(* Proofs about SqlPool, for every set of threads, every number of         *)
(* connections and a shutdown at any moment.  IInv adds to the properties  *)
(* who holds the lock where, where in the code a thread has a connection,  *)
(* that closed ones are out of the list, and that no connection is lost    *)
(* while the pool serves.                                                  *)
(***************************************************************************)
EXTENDS SqlPool, FiniteSetTheorems, TLAPS

\* The mutex is held exactly where the code is between Lock and Unlock.
LockOwner ==
    /\ \A t \in Threads : pc[t] \in {"front", "pop", "push"} <=> lock = t
    /\ stage = "destroying" <=> lock = Main

\* No thread uses the pool before it serves.
BeforeStart ==
    stage \in {"init", "exited"} =>
        sem = 0 /\ closed = {} /\ \A t \in Threads : pc[t] = "idle"

\* Where a thread has a connection, and that the one at "pop" is the front.
HasConn ==
    \A t \in Threads :
        /\ conn[t] # None => pc[t] \in {"pop", "using", "relock", "push"}
        /\ pc[t] \in {"pop", "relock", "push"} => conn[t] # None
        /\ pc[t] = "pop" => connList # <<>> /\ conn[t] = Head(connList)

\* What is in the list is open.
ListedOpen == Listed \cap closed = {}

\* Until the pool is destroyed each connection is in the list or with a thread.
AllThere ==
    stage \in {"serving", "destroying"} =>
        Conns = Listed \cup {conn[u] : u \in Owning}

\* The counts while connections are opened.
Opening ==
    stage = "init" =>
        /\ m_freeConn = Len(connList)
        /\ m_currConn = 0
        /\ Len(connList) = Cardinality(Listed)

FreeIsListed == m_freeConn = Len(connList)

Safe == ExclusiveConnection /\ NotUsedAfterClose /\ ListedOpen
IInv ==
    /\ TypeOK /\ LockOwner /\ BeforeStart /\ HasConn
    /\ Safe /\ AllThere
    /\ Opening /\ FreeIsListed /\ CountsAgree

------------------------------------------------------------------------------
(* Lists of connections.                                                   *)

Elems(s) == {s[i] : i \in DOMAIN s}
Distinct(s) == \A i, j \in DOMAIN s : i # j => s[i] # s[j]

\* push_back of a connection that is not in the list.
LEMMA AppendNew ==
    ASSUME NEW S, NEW s \in Seq(S), NEW c \in S, Distinct(s), c \notin Elems(s)
    PROVE  /\ Append(s, c) \in Seq(S) /\ Len(Append(s, c)) = Len(s) + 1
           /\ Elems(Append(s, c)) = Elems(s) \cup {c}
           /\ Distinct(Append(s, c))
<1> DEFINE a == Append(s, c)
<1>1. /\ a \in Seq(S) /\ Len(a) = Len(s) + 1 /\ DOMAIN a = 1..(Len(s) + 1)
      /\ DOMAIN s = 1..Len(s) /\ Len(s) \in Nat
  OBVIOUS
<1>2. \A i \in DOMAIN a : a[i] = IF i = Len(s) + 1 THEN c ELSE s[i]
  OBVIOUS
<1>3. \A i \in DOMAIN s : i \in DOMAIN a /\ a[i] = s[i]
  BY <1>1, <1>2
<1>4. Len(s) + 1 \in DOMAIN a /\ a[Len(s) + 1] = c
  BY <1>1, <1>2
<1>5. \A i \in DOMAIN a : i = Len(s) + 1 \/ i \in DOMAIN s
  BY <1>1
<1>6. Elems(a) = Elems(s) \cup {c}
  BY <1>2, <1>3, <1>4, <1>5 DEF Elems
<1>7. Distinct(a)
  BY <1>3, <1>4, <1>5 DEF Distinct, Elems
<1> QED
  BY <1>1, <1>6, <1>7

\* pop_front of a list without repetitions.
LEMMA TailRemoves ==
    ASSUME NEW S, NEW s \in Seq(S), s # <<>>, Distinct(s)
    PROVE  /\ Tail(s) \in Seq(S) /\ Len(Tail(s)) = Len(s) - 1
           /\ Elems(Tail(s)) = Elems(s) \ {Head(s)} /\ Head(s) \in Elems(s)
           /\ Distinct(Tail(s))
<1>1. /\ Tail(s) \in Seq(S) /\ Len(Tail(s)) = Len(s) - 1
      /\ Len(s) \in Nat /\ Len(s) > 0
      /\ DOMAIN s = 1..Len(s) /\ DOMAIN Tail(s) = 1..(Len(s) - 1)
      /\ Head(s) = s[1]
  OBVIOUS
<1>2. \A i \in DOMAIN Tail(s) : i + 1 \in DOMAIN s /\ Tail(s)[i] = s[i + 1]
  BY <1>1
<1>3. \A i \in DOMAIN s : i # 1 => i - 1 \in DOMAIN Tail(s) /\ Tail(s)[i - 1] = s[i]
  <2> SUFFICES ASSUME NEW i \in DOMAIN s, i # 1
               PROVE  i - 1 \in DOMAIN Tail(s) /\ Tail(s)[i - 1] = s[i]
    OBVIOUS
  <2>1. i - 1 \in DOMAIN Tail(s) /\ (i - 1) + 1 = i
    BY <1>1
  <2> QED
    BY <2>1, <1>2
<1>4. 1 \in DOMAIN s /\ \A i \in DOMAIN Tail(s) : i + 1 # 1
  BY <1>1
<1>5. \A i \in DOMAIN s : i # 1 => s[i] # s[1]
  BY <1>4 DEF Distinct
<1>6. Elems(Tail(s)) = Elems(s) \ {Head(s)}
  <2>1. \A x \in Elems(Tail(s)) : x \in Elems(s) \ {Head(s)}
    BY <1>1, <1>2, <1>4, <1>5 DEF Elems
  <2>2. \A x \in Elems(s) \ {Head(s)} : x \in Elems(Tail(s))
    BY <1>1, <1>3 DEF Elems
  <2> QED
    BY <2>1, <2>2
<1>7. Distinct(Tail(s))
  <2> SUFFICES ASSUME NEW i \in DOMAIN Tail(s), NEW j \in DOMAIN Tail(s), i # j
               PROVE  Tail(s)[i] # Tail(s)[j]
    BY DEF Distinct
  <2>1. i + 1 # j + 1
    BY <1>1
  <2> QED
    BY <2>1, <1>2 DEF Distinct
<1> QED
  BY <1>1, <1>4, <1>6, <1>7 DEF Elems

------------------------------------------------------------------------------
(* The counted sets are finite.                                            *)

\* Adding or removing one thread changes a count by one.
LEMMA CountOne ==
    ASSUME NEW S, S \subseteq Threads, NEW t \in Threads
    PROVE  /\ Cardinality(S) \in Nat
           /\ t \notin S => Cardinality(S \cup {t}) = Cardinality(S) + 1
           /\ t \in S => /\ Cardinality(S \ {t}) = Cardinality(S) - 1
                         /\ Cardinality(S) > 0
<1>1. IsFiniteSet(S)
  BY SqlPoolAssumption, FS_Subset
<1>2. Cardinality(S) \in Nat
  BY <1>1, FS_CardinalityType
<1>3. t \notin S => Cardinality(S \cup {t}) = Cardinality(S) + 1
  BY <1>1, FS_AddElement
<1>4. ASSUME t \in S
      PROVE  Cardinality(S \ {t}) = Cardinality(S) - 1
  BY <1>1, <1>4, FS_RemoveElement
<1>5. ASSUME t \in S
      PROVE  Cardinality(S) > 0
  BY <1>1, <1>2, <1>5, FS_EmptySet
<1> QED
  BY <1>2, <1>3, <1>4, <1>5

------------------------------------------------------------------------------
(* Every step preserves IInv: one lemma for each group of actions.         *)

\* Before it serves nobody has anything.
LEMMA NobodyHas ==
    ASSUME IInv, stage \in {"init", "exited"}
    PROVE  /\ Owning = {} /\ Reserving = {} /\ Posting = {}
           /\ \A t \in Threads : conn[t] = None
BY DEF IInv, BeforeStart, HasConn, Owning, Reserving, Posting

\* ConnectionPool::Init.
LEMMA StartupStep ==
    ASSUME IInv, (\E c \in Conns : Connect(c)) \/ ConnectFails \/ Start
    PROVE  IInv'
<1> USE SqlPoolAssumption DEF IInv, TypeOK, threadVars, poolVars, Safe
<1>1. ASSUME NEW c \in Conns, Connect(c)
      PROVE  IInv'
  <2> USE <1>1 DEF Connect
  <2>1. /\ Owning = {} /\ Reserving = {} /\ Posting = {}
        /\ \A t \in Threads : conn[t] = None /\ pc[t] = "idle"
    BY NobodyHas DEF BeforeStart
  <2>2. Owning' = {} /\ Reserving' = {} /\ Posting' = {}
    BY <2>1 DEF Owning, Reserving, Posting
  <2>3. Distinct(connList) /\ Elems(connList) = Listed /\ Elems(connList') = Listed'
    BY DEF ExclusiveConnection, Distinct, Elems, Listed
  <2>4. /\ connList' \in Seq(Conns) /\ Len(connList') = Len(connList) + 1
        /\ Listed' = Listed \cup {c} /\ Distinct(connList')
    BY <2>3, AppendNew
  <2>5. TypeOK' /\ LockOwner' /\ BeforeStart' /\ HasConn' /\ AllThere'
    BY <2>1, <2>4 DEF LockOwner, BeforeStart, HasConn, AllThere
  <2>6. Safe'
    BY <2>1, <2>2, <2>4 DEF ExclusiveConnection, NotUsedAfterClose, ListedOpen,
                            BeforeStart, Distinct
  <2>7. Cardinality(Listed') = Cardinality(Listed) + 1
    <3>1. IsFiniteSet(Listed)
      BY FS_Subset DEF Listed
    <3> QED
      BY <3>1, <2>4, FS_AddElement
  <2>8. Opening' /\ FreeIsListed' /\ CountsAgree'
    BY <2>4, <2>7 DEF Opening, FreeIsListed, CountsAgree
  <2> QED
    BY <2>5, <2>6, <2>8
<1>2. CASE ConnectFails
  <2> USE <1>2 DEF ConnectFails
  <2>1. UNCHANGED <<Owning, Listed>>
    BY DEF Owning, Listed
  <2>2. TypeOK' /\ LockOwner' /\ BeforeStart' /\ HasConn' /\ AllThere'
    BY <2>1 DEF LockOwner, BeforeStart, HasConn, AllThere
  <2>3. Safe' /\ Opening' /\ FreeIsListed' /\ CountsAgree'
    BY <2>1 DEF ExclusiveConnection, NotUsedAfterClose, ListedOpen, Opening,
                FreeIsListed, CountsAgree
  <2> QED
    BY <2>2, <2>3
<1>3. CASE Start
  <2> USE <1>3 DEF Start
  <2>1. Owning = {} /\ Reserving = {} /\ Posting = {}
    BY NobodyHas
  <2>2. UNCHANGED <<Owning, Reserving, Posting, Listed>>
    BY DEF Owning, Reserving, Posting, Listed
  <2>3. Cardinality({}) = 0
    BY FS_EmptySet
  <2>4. TypeOK' /\ LockOwner' /\ BeforeStart' /\ HasConn' /\ AllThere'
    BY <2>1, <2>2 DEF LockOwner, BeforeStart, HasConn, AllThere
  <2>5. Safe'
    BY <2>2 DEF ExclusiveConnection, NotUsedAfterClose, ListedOpen
  <2>6. Opening' /\ FreeIsListed' /\ CountsAgree'
    BY <2>1, <2>2, <2>3 DEF Opening, FreeIsListed, CountsAgree
  <2> QED
    BY <2>4, <2>5, <2>6
<1> QED
  BY <1>1, <1>2, <1>3

\* GetConnection.
LEMMA AcquiringStep ==
    ASSUME IInv, NEW t \in Threads, Acquiring(t)
    PROVE  IInv'
<1> USE SqlPoolAssumption DEF IInv, TypeOK, threadVars, poolVars, Safe, Alive
<1>1. CASE CheckSize(t)
  <2> USE <1>1 DEF CheckSize
  <2>1. conn[t] = None
    BY DEF HasConn
  <2>2. UNCHANGED <<Owning, Reserving, Posting, Listed>>
    BY <2>1 DEF Owning, Reserving, Posting, Listed
  <2>3. TypeOK' /\ LockOwner' /\ BeforeStart' /\ HasConn' /\ AllThere'
    BY <2>1, <2>2 DEF LockOwner, BeforeStart, HasConn, AllThere
  <2>4. Safe' /\ Opening' /\ FreeIsListed' /\ CountsAgree'
    BY <2>2 DEF ExclusiveConnection, NotUsedAfterClose, ListedOpen, Opening,
                FreeIsListed, CountsAgree
  <2> QED
    BY <2>3, <2>4
<1>2. CASE Wait(t)
  <2> USE <1>2 DEF Wait
  <2>1. t \notin Reserving /\ Reserving' = Reserving \cup {t}
    BY DEF Reserving
  <2>2. UNCHANGED <<Owning, Posting, Listed>>
    BY DEF Owning, Posting, Listed
  <2>3. /\ Cardinality(Reserving) \in Nat /\ Cardinality(Posting) \in Nat
        /\ Cardinality(Reserving') = Cardinality(Reserving) + 1
    BY <2>1, CountOne DEF Reserving, Posting
  <2>4. TypeOK' /\ LockOwner' /\ BeforeStart' /\ HasConn' /\ AllThere'
    BY <2>2 DEF LockOwner, BeforeStart, HasConn, AllThere
  <2>5. Safe'
    BY <2>2 DEF ExclusiveConnection, NotUsedAfterClose, ListedOpen
  <2>6. Opening' /\ FreeIsListed' /\ CountsAgree'
    BY <2>2, <2>3 DEF Opening, FreeIsListed, CountsAgree
  <2> QED
    BY <2>4, <2>5, <2>6
<1>3. CASE Lock(t)
  <2> USE <1>3 DEF Lock
  <2>1. UNCHANGED <<Owning, Reserving, Posting, Listed>>
    BY DEF Owning, Reserving, Posting, Listed
  <2>2. TypeOK' /\ LockOwner' /\ BeforeStart' /\ HasConn' /\ AllThere'
    BY <2>1 DEF LockOwner, BeforeStart, HasConn, AllThere
  <2>3. Safe' /\ Opening' /\ FreeIsListed' /\ CountsAgree'
    BY <2>1 DEF ExclusiveConnection, NotUsedAfterClose, ListedOpen, Opening,
                FreeIsListed, CountsAgree
  <2> QED
    BY <2>2, <2>3
<1>4. CASE Front(t)
  <2> USE <1>4 DEF Front
  <2>1. UNCHANGED <<Owning, Reserving, Posting, Listed>>
    BY DEF Owning, Reserving, Posting, Listed
  <2>2. connList # <<>> => Head(connList) \in Conns
    OBVIOUS
  <2>3. stage' \in {stage, "crashed"}
    OBVIOUS
  <2>4. stage # "destroying"
    BY DEF LockOwner
  <2>5. TypeOK' /\ LockOwner' /\ BeforeStart' /\ HasConn'
    BY <2>2, <2>4 DEF LockOwner, BeforeStart, HasConn
  <2>6. \A u \in Owning : conn'[u] = conn[u]
    BY DEF Owning
  <2>7. AllThere'
    BY <2>1, <2>3, <2>4, <2>6 DEF AllThere
  <2>8. Safe'
    BY <2>1, <2>6 DEF ExclusiveConnection, NotUsedAfterClose, ListedOpen
  <2>9. Opening' /\ FreeIsListed' /\ CountsAgree'
    BY <2>1, <2>3 DEF Opening, FreeIsListed, CountsAgree
  <2> QED
    BY <2>5, <2>7, <2>8, <2>9
<1>5. CASE PopFront(t)
  <2> USE <1>5 DEF PopFront
  <2>1. /\ t \notin Owning /\ Owning' = Owning \cup {t}
        /\ t \in Reserving /\ Reserving' = Reserving \ {t}
        /\ Posting' = Posting
    BY DEF Owning, Reserving, Posting, HasConn
  <2>2. connList # <<>> /\ conn[t] = Head(connList) /\ conn[t] # None
    BY DEF HasConn
  <2>3. Distinct(connList) /\ Elems(connList) = Listed /\ Elems(connList') = Listed'
    BY DEF ExclusiveConnection, Distinct, Elems, Listed
  <2>4. /\ connList' \in Seq(Conns) /\ Len(connList') = Len(connList) - 1
        /\ Listed' = Listed \ {conn[t]} /\ conn[t] \in Listed
        /\ Distinct(connList')
    BY <2>2, <2>3, TailRemoves
  <2>5. /\ Cardinality(Reserving') = Cardinality(Reserving) - 1
        /\ Cardinality(Owning') = Cardinality(Owning) + 1
        /\ Cardinality(Reserving) \in Nat /\ Cardinality(Posting) \in Nat
        /\ Cardinality(Owning) \in Nat
    <3>1. Owning \subseteq Threads /\ Reserving \subseteq Threads
          /\ Posting \subseteq Threads
      BY DEF Owning, Reserving, Posting
    <3> QED
      BY <3>1, <2>1, CountOne
  <2>6. \A u \in Threads \ {t} : pc[u] \notin {"front", "pop", "push"}
    BY DEF LockOwner
  <2>7. Len(connList) \in Nat /\ Len(connList) > 0
    BY <2>2
  <2>8. TypeOK'
    BY <2>4, <2>7 DEF FreeIsListed
  <2>9. LockOwner' /\ BeforeStart' /\ HasConn'
    BY <2>2, <2>6 DEF LockOwner, BeforeStart, HasConn
  <2>10. Safe'
    <3>1. \A u \in Owning : conn[u] \notin Listed /\ conn[u] # conn[t]
      BY <2>4 DEF ExclusiveConnection
    <3>2. ExclusiveConnection'
      BY <2>1, <2>4, <3>1 DEF ExclusiveConnection, Distinct
    <3>3. NotUsedAfterClose' /\ ListedOpen'
      BY <2>1, <2>4 DEF NotUsedAfterClose, ListedOpen
    <3> QED
      BY <3>2, <3>3
  <2>11. AllThere'
    BY <2>1, <2>4 DEF AllThere
  <2>12. Opening' /\ FreeIsListed' /\ CountsAgree'
    BY <2>1, <2>4, <2>5, <2>7 DEF Opening, FreeIsListed, CountsAgree, BeforeStart
  <2> QED
    BY <2>8, <2>9, <2>10, <2>11, <2>12
<1> QED
  BY <1>1, <1>2, <1>3, <1>4, <1>5 DEF Acquiring

\* ReleaseConnection.
LEMMA ReleasingStep ==
    ASSUME IInv, NEW t \in Threads, Releasing(t)
    PROVE  IInv'
<1> USE SqlPoolAssumption DEF IInv, TypeOK, threadVars, poolVars, Safe, Alive
<1>1. CASE Leave(t) \/ Relock(t)
  <2> USE <1>1 DEF Leave, Relock
  <2>1. UNCHANGED <<Owning, Reserving, Posting, Listed>>
    BY DEF Owning, Reserving, Posting, Listed
  <2>2. TypeOK' /\ LockOwner' /\ BeforeStart' /\ HasConn' /\ AllThere'
    BY <2>1 DEF LockOwner, BeforeStart, HasConn, AllThere
  <2>3. Safe' /\ Opening' /\ FreeIsListed' /\ CountsAgree'
    BY <2>1 DEF ExclusiveConnection, NotUsedAfterClose, ListedOpen, Opening,
                FreeIsListed, CountsAgree
  <2> QED
    BY <2>2, <2>3
<1>2. CASE Push(t)
  <2> USE <1>2 DEF Push
  <2>1. conn[t] # None /\ conn[t] \in Conns /\ t \in Owning
    BY DEF HasConn, Owning
  <2>2. /\ Owning' = Owning \ {t} /\ Reserving' = Reserving
        /\ t \notin Posting /\ Posting' = Posting \cup {t}
    BY DEF Owning, Reserving, Posting
  <2>3. /\ Distinct(connList) /\ Elems(connList) = Listed /\ Elems(connList') = Listed'
        /\ conn[t] \notin Listed
    BY <2>1 DEF ExclusiveConnection, Distinct, Elems, Listed
  <2>4. /\ connList' \in Seq(Conns) /\ Len(connList') = Len(connList) + 1
        /\ Listed' = Listed \cup {conn[t]} /\ Distinct(connList')
    BY <2>1, <2>3, AppendNew
  <2>5. /\ Cardinality(Owning') = Cardinality(Owning) - 1
        /\ Cardinality(Posting') = Cardinality(Posting) + 1
        /\ Cardinality(Reserving) \in Nat /\ Cardinality(Posting) \in Nat
        /\ Cardinality(Owning) \in Nat
    <3>1. Owning \subseteq Threads /\ Reserving \subseteq Threads
          /\ Posting \subseteq Threads
      BY DEF Owning, Reserving, Posting
    <3> QED
      BY <3>1, <2>1, <2>2, CountOne
  <2>6. \A u \in Threads \ {t} : pc[u] \notin {"front", "pop", "push"}
    BY DEF LockOwner
  <2>7. TypeOK'
    BY <2>4
  <2>8. LockOwner' /\ BeforeStart' /\ HasConn'
    BY <2>6 DEF LockOwner, BeforeStart, HasConn
  <2>9. \A u \in Owning' : u # t /\ u \in Owning /\ conn'[u] = conn[u]
    BY <2>2 DEF Owning
  <2>10. Safe'
    <3>1. \A u \in Owning' : conn[u] \notin Listed /\ conn[u] # conn[t]
      BY <2>1, <2>9 DEF ExclusiveConnection
    <3>2. ExclusiveConnection'
      BY <2>9, <2>4, <3>1 DEF ExclusiveConnection, Distinct
    <3>3. NotUsedAfterClose' /\ ListedOpen'
      BY <2>1, <2>9, <2>4 DEF NotUsedAfterClose, ListedOpen
    <3> QED
      BY <3>2, <3>3
  <2>11. AllThere'
    BY <2>1, <2>2, <2>4, <2>9 DEF AllThere
  <2>12. Opening' /\ FreeIsListed' /\ CountsAgree'
    BY <2>2, <2>4, <2>5 DEF Opening, FreeIsListed, CountsAgree, BeforeStart
  <2> QED
    BY <2>7, <2>8, <2>10, <2>11, <2>12
<1>3. CASE Post(t)
  <2> USE <1>3 DEF Post
  <2>1. t \in Posting /\ Posting' = Posting \ {t}
    BY DEF Posting
  <2>2. UNCHANGED <<Owning, Reserving, Listed>>
    BY DEF Owning, Reserving, Listed
  <2>3. /\ Cardinality(Reserving) \in Nat /\ Cardinality(Posting) \in Nat
        /\ Cardinality(Posting') = Cardinality(Posting) - 1
    BY <2>1, CountOne DEF Reserving, Posting
  <2>4. TypeOK' /\ LockOwner' /\ BeforeStart' /\ HasConn' /\ AllThere'
    BY <2>2 DEF LockOwner, BeforeStart, HasConn, AllThere
  <2>5. Safe'
    BY <2>2 DEF ExclusiveConnection, NotUsedAfterClose, ListedOpen
  <2>6. Opening' /\ FreeIsListed' /\ CountsAgree'
    BY <2>2, <2>3 DEF Opening, FreeIsListed, CountsAgree
  <2> QED
    BY <2>4, <2>5, <2>6
<1> QED
  BY <1>1, <1>2, <1>3 DEF Releasing

\* DestroyPool.
LEMMA DestroyStep ==
    ASSUME IInv, DestroyLock \/ DestroyClose
    PROVE  IInv'
<1> USE SqlPoolAssumption DEF IInv, TypeOK, threadVars, poolVars, Safe
<1>1. CASE DestroyLock
  <2> USE <1>1 DEF DestroyLock
  <2>1. UNCHANGED <<Owning, Listed>>
    BY DEF Owning, Listed
  <2>2. TypeOK' /\ LockOwner' /\ BeforeStart' /\ HasConn' /\ AllThere'
    BY <2>1 DEF LockOwner, BeforeStart, HasConn, AllThere
  <2>3. Safe' /\ Opening' /\ FreeIsListed' /\ CountsAgree'
    BY <2>1 DEF ExclusiveConnection, NotUsedAfterClose, ListedOpen, Opening,
                FreeIsListed, CountsAgree
  <2> QED
    BY <2>2, <2>3
<1>2. CASE DestroyClose
  <2> USE <1>2 DEF DestroyClose
  <2>1. Owning' = Owning
    BY DEF Owning
  <2>2. \A t \in Threads : pc[t] \notin {"front", "pop", "push"}
    BY DEF LockOwner
  <2>3. connList' = <<>> /\ closed' \in SUBSET Conns /\ Listed' = {}
    BY DEF Listed
  <2>4. /\ closed' = closed \cup Listed
        /\ connList' \in Seq(Conns) /\ m_freeConn' = 0 /\ m_currConn' \in Int
    BY <2>3 DEF Listed, FreeIsListed
  <2>5. TypeOK' /\ LockOwner' /\ BeforeStart' /\ HasConn' /\ AllThere'
    BY <2>2, <2>3, <2>4 DEF LockOwner, BeforeStart, HasConn, AllThere
  <2>6. Safe'
    BY <2>1, <2>3, <2>4 DEF ExclusiveConnection, NotUsedAfterClose, ListedOpen
  <2>7. Opening' /\ FreeIsListed' /\ CountsAgree'
    BY <2>3, <2>4 DEF Opening, FreeIsListed, CountsAgree
  <2> QED
    BY <2>5, <2>6, <2>7
<1> QED
  BY <1>1, <1>2

\* The constructor of the pool establishes IInv.
LEMMA InitInv == Init => IInv
<1> SUFFICES ASSUME Init PROVE IInv
  OBVIOUS
<1> USE SqlPoolAssumption DEF Init
<1>1. Listed = {} /\ Owning = {}
  BY DEF Listed, Owning
<1>2. Cardinality({}) = 0
  BY FS_EmptySet
<1>3. TypeOK /\ LockOwner /\ BeforeStart /\ HasConn /\ AllThere
  BY DEF TypeOK, LockOwner, BeforeStart, HasConn, AllThere
<1>4. Safe
  BY <1>1 DEF Safe, ExclusiveConnection, NotUsedAfterClose, ListedOpen
<1>5. Opening /\ FreeIsListed /\ CountsAgree
  BY <1>1, <1>2 DEF Opening, FreeIsListed, CountsAgree
<1> QED
  BY <1>3, <1>4, <1>5 DEF IInv

\* A step that changes nothing.
LEMMA Stutter == IInv /\ UNCHANGED vars => IInv'
BY DEF vars, IInv, TypeOK, LockOwner, BeforeStart, HasConn, AllThere, Safe,
       ExclusiveConnection, NotUsedAfterClose, ListedOpen, Opening, FreeIsListed,
       CountsAgree, Listed, Owning, Reserving, Posting

\* IInv holds in every state the pool reaches.
LEMMA Invariance == SafeSpec => []IInv
<1>1. IInv /\ [Next]_vars => IInv'
  <2> SUFFICES ASSUME IInv, [Next]_vars PROVE IInv'
    OBVIOUS
  <2>1. CASE (\E c \in Conns : Connect(c)) \/ ConnectFails \/ Start
    BY <2>1, StartupStep
  <2>2. CASE \E t \in Threads : Acquiring(t) \/ Releasing(t)
    BY <2>2, AcquiringStep, ReleasingStep
  <2>3. CASE DestroyLock \/ DestroyClose
    BY <2>3, DestroyStep
  <2>4. CASE Stopped \/ UNCHANGED vars
    BY <2>4, Stutter DEF Stopped
  <2> QED
    BY <2>1, <2>2, <2>3, <2>4 DEF Next
<1> QED
  BY <1>1, InitInv, PTL DEF SafeSpec

------------------------------------------------------------------------------
(* The theorems.                                                           *)

\* The types hold; the counter of the free connections never falls below zero,
\* also after the pool was destroyed (sql_connection_pool.cpp:21, 37, 62).
THEOREM TypeCorrect == SafeSpec => []TypeOK
<1>1. IInv => TypeOK
  BY DEF IInv
<1> QED
  BY <1>1, Invariance, PTL

\* Semaphore, list and counters agree, up to the steps in progress, whatever the
\* interleaving of the threads (sql_connection_pool.cpp:15-25, 34-43).
THEOREM CountersAgree == SafeSpec => []CountsAgree
<1>1. IInv => CountsAgree
  BY DEF IInv
<1> QED
  BY <1>1, Invariance, PTL

\* While the pool serves, a thread past the semaphore finds a connection: front()
\* is never called on an empty list (sql_connection_pool.cpp:18).
THEOREM ListIsNotEmpty == SafeSpec => []FrontIsThere
<1>1. IInv => FrontIsThere
  <2> SUFFICES ASSUME IInv, stage = "serving", NEW t \in Threads, pc[t] = "front"
               PROVE  connList # <<>>
    BY DEF FrontIsThere
  <2>1. t \in Reserving /\ Reserving \subseteq Threads /\ Posting \subseteq Threads
    BY DEF Reserving, Posting
  <2>2. /\ Cardinality(Reserving) \in Nat /\ Cardinality(Reserving) > 0
        /\ Cardinality(Posting) \in Nat
    BY <2>1, CountOne
  <2>3. Len(connList) > 0
    BY <2>2 DEF IInv, CountsAgree, TypeOK
  <2> QED
    BY <2>3
<1> QED
  BY <1>1, Invariance, PTL

\* No two threads use one connection, and no connection in use is in the list
\* (sql_connection_pool.cpp:16-25, 34-40).
THEOREM ConnectionsAreExclusive == SafeSpec => []ExclusiveConnection
<1>1. IInv => ExclusiveConnection
  BY DEF IInv, Safe
<1> QED
  BY <1>1, Invariance, PTL

\* Whenever main returns, no thread uses a connection the pool has closed
\* (sql_connection_pool.cpp:50-66).
THEOREM ClosedAreNotUsed == SafeSpec => []NotUsedAfterClose
<1>1. IInv => NotUsedAfterClose
  BY DEF IInv, Safe
<1> QED
  BY <1>1, Invariance, PTL

\* A thread is told that there is no connection only when other threads have them
\* all (sql_connection_pool.cpp:11).
THEOREM NullMeansAllTaken == SafeSpec => NullOnlyWhenAllTaken
<1>1. IInv /\ [Next]_vars =>
        [\A t \in Threads :
           stage = "serving" /\ pc[t] = "idle" /\ pc'[t] = "using"
             => Conns = {conn[u] : u \in Owning \ {t}}]_vars
  <2> SUFFICES ASSUME IInv, Next, NEW t \in Threads, stage = "serving",
                      pc[t] = "idle", pc'[t] = "using"
               PROVE  Conns = {conn[u] : u \in Owning \ {t}}
    OBVIOUS
  <2> USE DEF IInv, TypeOK
  <2>1. CheckSize(t)
    <3>1. ~(\E c \in Conns : Connect(c)) /\ ~ConnectFails /\ ~Start
      BY DEF Connect, ConnectFails, Start
    <3>2. ~DestroyLock /\ ~DestroyClose /\ ~Stopped
      BY DEF DestroyLock, DestroyClose, Stopped, threadVars
    <3>3. ASSUME NEW u \in Threads, Acquiring(u) PROVE CheckSize(t)
      BY <3>3 DEF Acquiring, CheckSize, Wait, Lock, Front, PopFront, threadVars
    <3>4. ASSUME NEW u \in Threads PROVE ~Releasing(u)
      BY <3>4 DEF Releasing, Leave, Relock, Push, Post
    <3> QED
      BY <3>1, <3>2, <3>3, <3>4 DEF Next
  <2>2. connList = <<>>
    BY <2>1 DEF CheckSize, LooksEmpty
  <2>3. Listed = {} /\ t \notin Owning
    BY <2>2 DEF Listed, Owning
  <2> QED
    BY <2>3 DEF AllThere
<1> QED
  BY <1>1, Invariance, PTL DEF SafeSpec, NullOnlyWhenAllTaken

------------------------------------------------------------------------------
(* The pool implements the allocator.                                      *)

\* Every step of a thread is one of the allocator, or none of its business.
LEMMA ThreadRefines ==
    ASSUME IInv, NEW t \in Threads, Acquiring(t) \/ Releasing(t)
    PROVE  CA!CANext \/ UNCHANGED <<Listed, held, closed>>
<1> USE SqlPoolAssumption DEF IInv, TypeOK, threadVars, poolVars
<1>1. CASE CheckSize(t) \/ Wait(t) \/ Lock(t)
  <2>1. UNCHANGED <<Listed, Owning, conn, closed>>
    BY <1>1 DEF CheckSize, Wait, Lock, Listed, Owning, HasConn
  <2> QED
    BY <2>1 DEF held
<1>2. CASE Front(t)
  <2>1. UNCHANGED <<Listed, Owning, closed>> /\ t \notin Owning
    BY <1>2 DEF Front, Listed, Owning
  <2>2. \A u \in Owning : conn'[u] = conn[u]
    BY <1>2, <2>1 DEF Front, Owning
  <2>3. held' = held
    BY <2>1, <2>2 DEF held
  <2> QED
    BY <2>1, <2>3
<1>3. CASE PopFront(t)
  <2> USE <1>3 DEF PopFront
  <2>1. connList # <<>> /\ conn[t] = Head(connList) /\ conn[t] \in Conns
        /\ conn[t] # None
    BY DEF HasConn
  <2>2. t \notin Owning /\ Owning' = Owning \cup {t}
    BY <2>1 DEF Owning
  <2>3. Distinct(connList) /\ Elems(connList) = Listed /\ Elems(connList') = Listed'
    BY DEF Safe, ExclusiveConnection, Distinct, Elems, Listed
  <2>4. Listed' = Listed \ {conn[t]} /\ conn[t] \in Listed
    BY <2>1, <2>3, TailRemoves
  <2>5. held[t] = None /\ held' = [held EXCEPT ![t] = conn[t]]
    BY <2>2 DEF held
  <2>6. CA!Acquire(t, conn[t])
    BY <2>4, <2>5 DEF CA!Acquire
  <2> QED
    BY <2>1, <2>6 DEF CA!CANext
<1>4. CASE Leave(t) \/ Relock(t) \/ Post(t)
  <2>1. UNCHANGED <<Listed, Owning, conn, closed>>
    BY <1>4 DEF Leave, Relock, Post, Listed, Owning
  <2> QED
    BY <2>1 DEF held
<1>5. CASE Push(t)
  <2> USE <1>5 DEF Push
  <2>1. conn[t] # None /\ conn[t] \in Conns /\ t \in Owning
    BY DEF HasConn, Owning
  <2>2. Owning' = Owning \ {t}
    BY DEF Owning
  <2>3. /\ Distinct(connList) /\ Elems(connList) = Listed /\ Elems(connList') = Listed'
        /\ conn[t] \notin Listed
    BY <2>1 DEF Safe, ExclusiveConnection, Distinct, Elems, Listed
  <2>4. Listed' = Listed \cup {conn[t]}
    BY <2>1, <2>3, AppendNew
  <2>5. held[t] = conn[t]
    BY <2>1 DEF held
  <2>6. held' = [held EXCEPT ![t] = None]
    BY <2>2 DEF held
  <2>7. CA!Release(t)
    BY <2>1, <2>4, <2>5, <2>6 DEF CA!Release
  <2> QED
    BY <2>7 DEF CA!CANext
<1> QED
  BY <1>1, <1>2, <1>3, <1>4, <1>5 DEF Acquiring, Releasing

\* The pool, its unlocked look at the size, its two-step changes and its destruction
\* under running threads included, never does what the allocator does not.
THEOREM RefinesAllocator == SafeSpec => ImplementsAllocator
<1> USE SqlPoolAssumption DEF threadVars, poolVars
<1>1. Init => CA!CAInit
  BY DEF Init, CA!CAInit, Listed, held, Owning
<1>2. IInv /\ [Next]_vars => [CA!CANext]_(CA!caVars)
  <2> SUFFICES ASSUME IInv, [Next]_vars
               PROVE  CA!CANext \/ UNCHANGED <<Listed, held, closed>>
    BY DEF CA!caVars
  <2> USE DEF IInv, TypeOK
  <2>1. ASSUME NEW c \in Conns, Connect(c)
        PROVE  CA!Open(c)
    <3>1. closed = {} /\ Owning = {}
      BY <2>1, NobodyHas DEF Connect, BeforeStart
    <3>2. held = [t \in Threads |-> None] /\ c # None
      BY <3>1 DEF held
    <3>3. Owning' = Owning /\ held' = held
      BY <2>1 DEF Connect, Owning, held
    <3>4. /\ Distinct(connList) /\ Elems(connList) = Listed
          /\ Elems(connList') = Listed'
      BY DEF Safe, ExclusiveConnection, Distinct, Elems, Listed
    <3>5. Listed' = Listed \cup {c}
      BY <2>1, <3>4, AppendNew DEF Connect
    <3> QED
      BY <2>1, <3>1, <3>2, <3>3, <3>5 DEF Connect, CA!Open
  <2>2. CASE ConnectFails \/ Start \/ DestroyLock
    <3>1. UNCHANGED <<Listed, Owning, conn, closed>>
      BY <2>2 DEF ConnectFails, Start, DestroyLock, Listed, Owning
    <3> QED
      BY <3>1 DEF held
  <2>3. CASE DestroyClose
    <3>1. Owning' = Owning /\ held' = held
      BY <2>3 DEF DestroyClose, Owning, held
    <3>2. Listed' = {} /\ closed' = closed \cup Listed
      BY <2>3 DEF DestroyClose, Listed
    <3> QED
      BY <3>1, <3>2 DEF CA!Destroy, CA!CANext
  <2>4. CASE \E t \in Threads : Acquiring(t) \/ Releasing(t)
    BY <2>4, ThreadRefines
  <2>5. CASE Stopped \/ UNCHANGED vars
    BY <2>5 DEF Stopped, vars, Listed, held, Owning
  <2> QED
    BY <2>1, <2>2, <2>3, <2>4, <2>5 DEF Next, CA!CANext
<1> QED
  BY <1>1, <1>2, Invariance, PTL DEF SafeSpec, ImplementsAllocator, CA!CASpec
================================================================================
