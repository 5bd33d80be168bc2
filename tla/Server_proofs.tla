------------------------------ MODULE Server_proofs -----------------------------
(***************************************************************************)
(* Proofs about the server, for any clients, descriptors, timers and       *)
(* workers and any list of the pool.                                       *)
(*   Proactor, without empty files: connections are counted and timed      *)
(* (IInv), and slots are in one thread's hands and belong to the client    *)
(* that is served unless a tick has closed the connection (SInv).          *)
(*   Reactor: the event loop and the worker it spins for hand a slot to    *)
(* and fro without losing it or getting hold of another (RInv).            *)
(*   Both, with empty files: no timer dangles (TInv).                      *)
(***************************************************************************)
EXTENDS Reactor, FiniteSetTheorems, SequenceTheorems, WellFoundedInduction, TLAPS

Elems(s) == {s[i] : i \in DOMAIN s}
Distinct(s) == \A i, j \in DOMAIN s : i # j => s[i] # s[j]

\* The slots that are queued or processed, and the timers in use.
Held == Queued \cup Processing
Used == {t \in TimerIds : data[t] # 0}
Free == {t \in TimerIds : data[t] = 0}

Stages == {"idle", "process", "close", "forget", "count", "arm", "io", "flag"}

\* The types of all but the histories.
Types ==
    /\ ServerTypeOK
    /\ queue \in Seq([fd : Fds, client : Clients]) /\ Len(queue) <= MaxRequests
    /\ stage \in [Workers -> Stages]
    /\ task \in [Workers -> [fd : Fds, client : Clients] \cup {NoTask}]

\* An open descriptor is registered and its slot knows it; the slot of a closed one
\* knows no other.
Descriptors ==
    \A fd \in Fds :
        /\ sock[fd] \in {fd, -1}
        /\ IF fd \in Open THEN sock[fd] = fd /\ interest[fd] # "none"
           ELSE interest[fd] = "none"

\* Every client is behind one descriptor or in one place of the backlog.
Peers ==
    /\ Distinct(backlog)
    /\ Waiting \cap Connected = {}
    /\ \A c, d \in Open : conn[c] = conn[d] => c = d

\* The timers in use are those of the open descriptors, and are in the list once.
Timers ==
    /\ \A fd \in Open : usersTimer[fd] \in TimerIds /\ data[usersTimer[fd]] = fd
    /\ \A t \in Used : data[t] \in Open /\ usersTimer[data[t]] = t
    /\ Distinct(timerLst)
    /\ Elems(timerLst) = Used

\* There is a timer for whoever waits to be accepted.
Room == Len(backlog) <= Cardinality(Free)

\* The events still to be handled: one for a descriptor, which is open.
Batch ==
    /\ mainpc # "loop" => batch = {}
    /\ \A e \in batch : e \in {<<"listen", 0>>, <<"signal", 0>>} \/ e[2] \in Open
    /\ \A e, f \in batch : e[2] = f[2] /\ e[2] # 0 => e = f
    /\ <<"listen", 0>> \in batch => backlog # <<>>

\* A worker that is at work has a slot.
Handled == \A w \in Busy : stage[w] \in {"process", "arm"} /\ task[w] # NoTask

\* A timer has run as long as its connection has been idle.
Idleness ==
    /\ \A fd \in Open : idle[conn[fd]] + left[usersTimer[fd]] = Slots
    /\ \A c \in Clients \ Connected : idle[c] = 0

IInv ==
    /\ Types /\ Descriptors /\ Peers /\ Timers /\ CountMatches /\ Room
    /\ Batch /\ Handled /\ Idleness

\* Each slot that is queued or processed is so once and is its client's, and the event
\* loop has no event of it; but for one whose connection a tick has closed.
Slot(fd) == fd \in Open /\ interest[fd] = "off"
SInv ==
    /\ \A i \in DOMAIN queue :
        \/ queue[i].fd \in stale
        \/ Slot(queue[i].fd) /\ conn[queue[i].fd] = queue[i].client
    /\ \A w \in Busy :
        \/ task[w].fd \in stale
        \/ Slot(task[w].fd) /\ conn[task[w].fd] = task[w].client
    /\ \A i, j \in DOMAIN queue : i # j /\ queue[i].fd = queue[j].fd => queue[i].fd \in stale
    /\ \A w, u \in Busy : w # u /\ task[w].fd = task[u].fd => task[w].fd \in stale
    /\ \A i \in DOMAIN queue : \A w \in Busy :
            queue[i].fd = task[w].fd => queue[i].fd \in stale
    /\ \A fd \in Reported \ {0} :
        fd \in stale \/ (fd \notin Held /\ interest[fd] = "off")

------------------------------------------------------------------------------
(* Sequences: what insertion, removal and the end of a list keep.          *)

LEMMA ConcatElems ==
    ASSUME NEW S, NEW s \in Seq(S), NEW t \in Seq(S)
    PROVE  /\ Elems(s \o t) = Elems(s) \cup Elems(t)
           /\ Distinct(s \o t) <=>
                Distinct(s) /\ Distinct(t) /\ Elems(s) \cap Elems(t) = {}
<1> DEFINE c == s \o t
<1>1. /\ Len(s) \in Nat /\ Len(t) \in Nat
      /\ DOMAIN s = 1..Len(s) /\ DOMAIN t = 1..Len(t)
      /\ DOMAIN c = 1..(Len(s) + Len(t))
      /\ \A i \in 1..(Len(s) + Len(t)) :
            c[i] = IF i <= Len(s) THEN s[i] ELSE t[i - Len(s)]
  BY ConcatProperties, LenProperties
<1> HIDE DEF c
<1>2. \A i \in DOMAIN s : i \in DOMAIN c /\ c[i] = s[i]
  BY <1>1
<1>3. \A i \in DOMAIN t : i + Len(s) \in DOMAIN c /\ c[i + Len(s)] = t[i]
  BY <1>1
<1>4. \A i \in DOMAIN c :
        \/ i \in DOMAIN s
        \/ i > Len(s) /\ i - Len(s) \in DOMAIN t /\ c[i] = t[i - Len(s)]
  BY <1>1
<1>5. Elems(c) = Elems(s) \cup Elems(t)
  BY <1>2, <1>3, <1>4 DEF Elems
<1>6. ASSUME Distinct(c)
      PROVE  Distinct(s) /\ Distinct(t) /\ Elems(s) \cap Elems(t) = {}
  <2>1. Distinct(s)
    BY <1>2, <1>6 DEF Distinct
  <2>2. Distinct(t)
    BY <1>1, <1>3, <1>6 DEF Distinct
  <2>3. \A i \in DOMAIN s, j \in DOMAIN t : s[i] # t[j]
    BY <1>1, <1>2, <1>3, <1>6 DEF Distinct
  <2> QED
    BY <2>1, <2>2, <2>3 DEF Elems
<1>7. ASSUME Distinct(s), Distinct(t), Elems(s) \cap Elems(t) = {},
             NEW i \in DOMAIN c, NEW j \in DOMAIN c, i # j
      PROVE  c[i] # c[j]
  <2>1. CASE i \in DOMAIN s /\ j \in DOMAIN s
    BY <1>2, <1>7, <2>1 DEF Distinct
  <2>2. CASE i \notin DOMAIN s /\ j \notin DOMAIN s
    BY <1>1, <1>4, <1>7, <2>2 DEF Distinct
  <2>3. CASE (i \in DOMAIN s) # (j \in DOMAIN s)
    BY <1>2, <1>4, <1>7, <2>3 DEF Elems
  <2> QED
    BY <2>1, <2>2, <2>3
<1>8. Distinct(c) <=> Distinct(s) /\ Distinct(t) /\ Elems(s) \cap Elems(t) = {}
  BY <1>6, <1>7 DEF Distinct
<1> QED
  BY <1>5, <1>8 DEF c

LEMMA SplitAt ==
    ASSUME NEW S, NEW s \in Seq(S), NEW i \in 0..Len(s)
    PROVE  /\ SubSeq(s, 1, i) \in Seq(S) /\ SubSeq(s, i + 1, Len(s)) \in Seq(S)
           /\ Len(SubSeq(s, 1, i)) = i /\ Len(SubSeq(s, i + 1, Len(s))) = Len(s) - i
           /\ \A j \in 1..i : SubSeq(s, 1, i)[j] = s[j]
           /\ s = SubSeq(s, 1, i) \o SubSeq(s, i + 1, Len(s))
<1> DEFINE a == SubSeq(s, 1, i)
           b == SubSeq(s, i + 1, Len(s))
<1>0. Len(s) \in Nat /\ \A j \in 1..Len(s) : s[j] \in S
  BY ElementOfSeq, LenProperties
<1>1. /\ a \in Seq(S) /\ Len(a) = i
      /\ \A j \in 1..i : a[j] = s[j]
  BY <1>0, SubSeqProperties
<1>2. /\ b \in Seq(S) /\ Len(b) = Len(s) - i
      /\ \A j \in 1..(Len(s) - i) : b[j] = s[i + j]
  BY <1>0, SubSeqProperties
<1> HIDE DEF a, b
<1>3. /\ a \o b \in Seq(S) /\ Len(a \o b) = Len(s)
      /\ \A j \in 1..Len(s) : (a \o b)[j] = IF j <= i THEN a[j] ELSE b[j - i]
  BY <1>0, <1>1, <1>2, ConcatProperties
<1>4. ASSUME NEW j \in 1..Len(s)
      PROVE  (a \o b)[j] = s[j]
  <2>1. CASE j <= i
    BY <1>0, <1>1, <1>3, <2>1
  <2>2. CASE j > i
    <3>1. j - i \in 1..(Len(s) - i) /\ i + (j - i) = j
      BY <1>0, <2>2
    <3> QED
      BY <1>0, <1>2, <1>3, <2>2, <3>1
  <2>3. j <= i \/ j > i
    BY <1>0
  <2> QED
    BY <2>1, <2>2, <2>3
<1>5. s = a \o b
  BY <1>3, <1>4, SeqEqual
<1> QED
  BY <1>1, <1>2, <1>5 DEF a, b

LEMMA OneElem ==
    ASSUME NEW S, NEW e \in S
    PROVE  <<e>> \in Seq(S) /\ Len(<<e>>) = 1 /\ Elems(<<e>>) = {e} /\ Distinct(<<e>>)
BY DEF Elems, Distinct

LEMMA InsertKeeps ==
    ASSUME NEW S, NEW s \in Seq(S), Distinct(s), NEW e \in S, e \notin Elems(s),
           NEW i \in 1..(Len(s) + 1)
    PROVE  /\ TL!InsertAt(s, i, e) \in Seq(S)
           /\ Elems(TL!InsertAt(s, i, e)) = Elems(s) \cup {e}
           /\ Distinct(TL!InsertAt(s, i, e))
<1> DEFINE a == SubSeq(s, 1, i - 1)
           b == SubSeq(s, i, Len(s))
<1>1. i - 1 \in 0..Len(s) /\ (i - 1) + 1 = i
  BY LenProperties
<1>2. a \in Seq(S) /\ b \in Seq(S) /\ s = a \o b
  BY <1>1, SplitAt
<1>3. TL!InsertAt(s, i, e) = (a \o <<e>>) \o b
  BY DEF TL!InsertAt
<1> HIDE DEF a, b
<1>4. /\ Elems(s) = Elems(a) \cup Elems(b)
      /\ Distinct(a) /\ Distinct(b) /\ Elems(a) \cap Elems(b) = {}
  BY <1>2, ConcatElems
<1>5. /\ a \o <<e>> \in Seq(S) /\ Elems(a \o <<e>>) = Elems(a) \cup {e}
      /\ Distinct(a \o <<e>>)
  <2>1. <<e>> \in Seq(S) /\ Elems(<<e>>) = {e} /\ Distinct(<<e>>)
    BY OneElem
  <2>2. a \o <<e>> \in Seq(S)
    BY <1>2, <2>1, ConcatProperties
  <2>3. /\ Elems(a \o <<e>>) = Elems(a) \cup Elems(<<e>>)
        /\ Distinct(a \o <<e>>) <=>
             Distinct(a) /\ Distinct(<<e>>) /\ Elems(a) \cap Elems(<<e>>) = {}
    BY <1>2, <2>1, ConcatElems
  <2> QED
    BY <1>4, <2>1, <2>2, <2>3
<1>6. /\ (a \o <<e>>) \o b \in Seq(S)
      /\ Elems((a \o <<e>>) \o b) = Elems(s) \cup {e}
      /\ Distinct((a \o <<e>>) \o b)
  <2>1. (a \o <<e>>) \o b \in Seq(S)
    BY <1>2, <1>5, ConcatProperties
  <2> DEFINE d == a \o <<e>>
  <2>2. d \in Seq(S) /\ Elems(d) = Elems(a) \cup {e} /\ Distinct(d)
    BY <1>5
  <2> HIDE DEF d
  <2>3. /\ Elems(d \o b) = Elems(d) \cup Elems(b)
        /\ Distinct(d \o b) <=> Distinct(d) /\ Distinct(b) /\ Elems(d) \cap Elems(b) = {}
    BY <1>2, <2>2, ConcatElems
  <2>4. Elems(d \o b) = Elems(s) \cup {e} /\ Distinct(d \o b)
    BY <1>4, <2>2, <2>3
  <2> QED
    BY <2>1, <2>4 DEF d
<1> QED
  BY <1>3, <1>6

LEMMA RemoveKeeps ==
    ASSUME NEW S, NEW s \in Seq(S), Distinct(s), NEW i \in 1..Len(s)
    PROVE  /\ TL!RemoveAt(s, i) \in Seq(S) /\ Len(TL!RemoveAt(s, i)) = Len(s) - 1
           /\ Elems(TL!RemoveAt(s, i)) = Elems(s) \ {s[i]}
           /\ Distinct(TL!RemoveAt(s, i))
<1> DEFINE a == SubSeq(s, 1, i - 1)
           e == s[i]
           b == SubSeq(s, i + 1, Len(s))
           c == SubSeq(s, 1, i)
<1>0. Len(s) \in Nat /\ e \in S
  BY ElementOfSeq, LenProperties
<1>1. /\ c \in Seq(S) /\ b \in Seq(S) /\ s = c \o b /\ Len(c) = i
      /\ Len(b) = Len(s) - i /\ \A j \in 1..i : c[j] = s[j]
  <2>1. i \in 0..Len(s)
    BY <1>0
  <2> QED
    BY <2>1, SplitAt, ZenonT(40)
<1>2. a \in Seq(S) /\ Len(a) = i - 1 /\ \A j \in 1..(i - 1) : a[j] = s[j]
  BY <1>0, SubSeqProperties
<1>3. TL!RemoveAt(s, i) = a \o b
  BY DEF TL!RemoveAt
<1> HIDE DEF a, b, c, e
<1>4. c = a \o <<e>>
  <2>1. /\ a \o <<e>> \in Seq(S) /\ Len(a \o <<e>>) = i
        /\ \A j \in 1..i : (a \o <<e>>)[j] = IF j <= i - 1 THEN a[j] ELSE e
    BY <1>0, <1>2, OneElem, ConcatProperties
  <2>2. \A j \in 1..i : (a \o <<e>>)[j] = c[j]
    BY <1>0, <1>1, <1>2, <2>1 DEF e
  <2> QED
    BY <1>1, <2>1, <2>2, SeqEqual
<1>5. /\ Elems(s) = Elems(a) \cup {e} \cup Elems(b)
      /\ Distinct(a) /\ Distinct(b) /\ Elems(a) \cap Elems(b) = {}
      /\ e \notin Elems(a) \cup Elems(b)
  <2>1. /\ Elems(s) = Elems(c) \cup Elems(b)
        /\ Distinct(c) /\ Distinct(b) /\ Elems(c) \cap Elems(b) = {}
    BY <1>1, ConcatElems
  <2>2. <<e>> \in Seq(S) /\ Elems(<<e>>) = {e} /\ Distinct(<<e>>)
    BY <1>0, OneElem
  <2>3. /\ Elems(a \o <<e>>) = Elems(a) \cup Elems(<<e>>)
        /\ Distinct(a \o <<e>>) <=>
             Distinct(a) /\ Distinct(<<e>>) /\ Elems(a) \cap Elems(<<e>>) = {}
    BY <1>2, <2>2, ConcatElems
  <2>4. Elems(c) = Elems(a) \cup {e} /\ Distinct(a) /\ e \notin Elems(a)
    BY <1>4, <2>1, <2>2, <2>3
  <2> QED
    BY <2>1, <2>4
<1>6. /\ a \o b \in Seq(S) /\ Len(a \o b) = Len(s) - 1
      /\ Elems(a \o b) = Elems(a) \cup Elems(b) /\ Distinct(a \o b)
  <2>1. a \o b \in Seq(S) /\ Len(a \o b) = Len(s) - 1
    <3>1. a \o b \in Seq(S) /\ Len(a \o b) = Len(a) + Len(b)
      BY <1>1, <1>2, ConcatProperties
    <3> QED
      BY <1>0, <1>1, <1>2, <3>1
  <2>2. /\ Elems(a \o b) = Elems(a) \cup Elems(b)
        /\ Distinct(a \o b) <=>
             Distinct(a) /\ Distinct(b) /\ Elems(a) \cap Elems(b) = {}
    BY <1>1, <1>2, ConcatElems
  <2> QED
    BY <1>5, <2>1, <2>2
<1> QED
  BY <1>3, <1>5, <1>6 DEF e

\* The least number of a set, which the walks over the list look for.
LEMMA LeastNumber ==
    ASSUME NEW S \in SUBSET Nat, S # {}
    PROVE  \E m \in S : \A k \in S : m <= k
<1> DEFINE R == {ss \in Nat \X Nat : ss[1] < ss[2]}
<1>1. OpToRel(<, Nat) = R
  BY DEF OpToRel
<1>2. IsWellFoundedOn(R, Nat)
  BY <1>1, NatLessThanWellFounded, Zenon
<1> HIDE DEF R
<1>3. PICK m \in S : \A k \in S : ~(<<k, m>> \in R)
  BY <1>2, WFMin
<1>4. ASSUME NEW k \in S
      PROVE  m <= k
  <2>1. k \in Nat /\ m \in Nat
    OBVIOUS
  <2>2. ~(k < m)
    BY <1>3, <2>1 DEF R
  <2> QED
    BY <2>1, <2>2
<1> QED
  BY <1>4

------------------------------------------------------------------------------
(* The operations on the timers.                                           *)

\* The walk of the private AddTimer ends at a place of the list.
LEMMA PlaceIs ==
    ASSUME NEW S, NEW list \in Seq(S), NEW from \in 1..(Len(list) + 1),
           NEW when \in [S -> Nat], NEW e \in Nat
    PROVE  TL!PlaceFrom(list, from, when, e) \in from..(Len(list) + 1)
<1>0. Len(list) \in Nat /\ DOMAIN list = 1..Len(list) /\ \A i \in 1..Len(list) : list[i] \in S
  BY ElementOfSeq, LenProperties
<1> DEFINE Q == {i \in from..(Len(list) + 1) : i <= Len(list) => e < when[list[i]]}
<1>1. Q \in SUBSET Nat /\ Len(list) + 1 \in Q
  BY <1>0
<1>2. PICK m \in Q : \A k \in Q : m <= k
  BY <1>1, LeastNumber
<1>3. ASSUME NEW j \in from..(m - 1)
      PROVE  when[list[j]] <= e
  <2>1. j \in from..(Len(list) + 1) /\ j \notin Q
    BY <1>0, <1>1, <1>2
  <2>2. j <= Len(list) /\ ~(e < when[list[j]])
    BY <2>1
  <2>3. when[list[j]] \in Nat
    BY <1>0, <2>1, <2>2
  <2> QED
    BY <2>2, <2>3
<1>4. /\ m \in from..(Len(list) + 1)
      /\ m <= Len(list) => e < when[list[m]]
      /\ \A j \in from..(m - 1) : when[list[j]] <= e
  BY <1>2, <1>3
<1> QED
  BY <1>4 DEF TL!PlaceFrom

\* Tick runs timers from the front of the list, each of which has expired.
LEMMA ExpiredIs ==
    ASSUME NEW S, NEW list \in Seq(S), NEW when \in [S -> Nat]
    PROVE  /\ TL!ExpiredPrefix(list, when, 0) \in 0..Len(list)
           /\ \A i \in 1..TL!ExpiredPrefix(list, when, 0) : when[list[i]] = 0
<1>0. Len(list) \in Nat /\ DOMAIN list = 1..Len(list) /\ \A i \in 1..Len(list) : list[i] \in S
  BY ElementOfSeq, LenProperties
<1> DEFINE Q == {n \in 0..Len(list) : n < Len(list) => 0 < when[list[n + 1]]}
<1>1. Q \in SUBSET Nat /\ Len(list) \in Q
  BY <1>0
<1>2. PICK m \in Q : \A k \in Q : m <= k
  BY <1>1, LeastNumber
<1>3. ASSUME NEW i \in 1..m
      PROVE  when[list[i]] <= 0
  <2>0. m \in 0..Len(list) /\ i \in Nat /\ 1 <= i /\ i <= m
    BY <1>0, <1>2
  <2>1. i - 1 \in 0..Len(list) /\ ~(m <= i - 1)
    BY <1>0, <2>0
  <2>2. (i - 1) + 1 = i /\ i - 1 \notin Q
    <3> HIDE DEF Q
    <3> QED
      BY <1>2, <2>0, <2>1
  <2>3. i - 1 < Len(list) /\ ~(0 < when[list[(i - 1) + 1]])
    BY <2>1, <2>2
  <2>4. i - 1 < Len(list) /\ ~(0 < when[list[i]])
    BY <2>2, <2>3
  <2>5. when[list[i]] \in Nat
    BY <1>0, <2>0, <2>4
  <2> QED
    BY <2>4, <2>5
<1>4. /\ m \in 0..Len(list)
      /\ \A i \in 1..m : when[list[i]] <= 0
      /\ m < Len(list) => 0 < when[list[m + 1]]
  BY <1>2, <1>3
<1>5. /\ TL!ExpiredPrefix(list, when, 0) \in 0..Len(list)
      /\ \A i \in 1..TL!ExpiredPrefix(list, when, 0) : when[list[i]] <= 0
  BY <1>4 DEF TL!ExpiredPrefix
<1>6. ASSUME NEW i \in 1..TL!ExpiredPrefix(list, when, 0)
      PROVE  when[list[i]] = 0
  <2>1. i \in 1..Len(list) /\ when[list[i]] <= 0
    BY <1>0, <1>5
  <2>2. when[list[i]] \in Nat
    BY <1>0, <2>1
  <2> QED
    BY <2>1, <2>2
<1> QED
  BY <1>5, <1>6

LEMMA AddIs ==
    ASSUME NEW S, NEW list \in Seq(S), Distinct(list), NEW when \in [S -> Nat],
           NEW t \in S, t \notin Elems(list)
    PROVE  /\ TL!AddTimer(list, t, when) \in Seq(S)
           /\ Elems(TL!AddTimer(list, t, when)) = Elems(list) \cup {t}
           /\ Distinct(TL!AddTimer(list, t, when))
<1>1. 1 \in 1..(Len(list) + 1) /\ when[t] \in Nat
  BY LenProperties
<1>2. TL!PlaceFrom(list, 1, when, when[t]) \in 1..(Len(list) + 1)
  BY <1>1, PlaceIs
<1> QED
  BY <1>2, InsertKeeps DEF TL!AddTimer

LEMMA IndexIs ==
    ASSUME NEW list, NEW t \in Elems(list)
    PROVE  TL!IndexOf(list, t) \in DOMAIN list /\ list[TL!IndexOf(list, t)] = t
BY DEF Elems, TL!IndexOf

LEMMA DelIs ==
    ASSUME NEW S, NEW list \in Seq(S), Distinct(list), NEW t \in Elems(list)
    PROVE  /\ TL!DelTimer(list, t) \in Seq(S)
           /\ Elems(TL!DelTimer(list, t)) = Elems(list) \ {t}
           /\ Distinct(TL!DelTimer(list, t))
<1> DEFINE i == TL!IndexOf(list, t)
<1>1. i \in 1..Len(list) /\ list[i] = t
  BY IndexIs, LenProperties
<1> HIDE DEF i
<1>2. /\ TL!RemoveAt(list, i) \in Seq(S)
      /\ Elems(TL!RemoveAt(list, i)) = Elems(list) \ {list[i]}
      /\ Distinct(TL!RemoveAt(list, i))
  BY <1>1, RemoveKeeps
<1> QED
  BY <1>1, <1>2 DEF TL!DelTimer, i

LEMMA AdjustIs ==
    ASSUME NEW S, NEW list \in Seq(S), Distinct(list), NEW when \in [S -> Nat],
           NEW t \in Elems(list)
    PROVE  /\ TL!AdjustTimer(list, t, when) \in Seq(S)
           /\ Elems(TL!AdjustTimer(list, t, when)) = Elems(list)
           /\ Distinct(TL!AdjustTimer(list, t, when))
<1> DEFINE i == TL!IndexOf(list, t)
           rest == TL!RemoveAt(list, i)
           place == TL!PlaceFrom(rest, i + 1, when, when[t])
<1>0. Len(list) \in Nat /\ DOMAIN list = 1..Len(list) /\ \A j \in 1..Len(list) : list[j] \in S
  BY ElementOfSeq, LenProperties
<1>1. i \in 1..Len(list) /\ list[i] = t
  BY <1>0, IndexIs
<1>2. /\ rest \in Seq(S) /\ Len(rest) = Len(list) - 1
      /\ Elems(rest) = Elems(list) \ {t} /\ Distinct(rest)
  <2> HIDE DEF i
  <2> QED
    BY <1>1, RemoveKeeps
<1>3. CASE i = Len(list) \/ when[t] < when[list[i + 1]]
  <2>1. TL!AdjustTimer(list, t, when) = list
    BY <1>3 DEF TL!AdjustTimer
  <2> QED
    BY <2>1
<1>4. CASE ~(i = Len(list) \/ when[t] < when[list[i + 1]])
  <2>1. TL!AdjustTimer(list, t, when) = TL!InsertAt(rest, place, t)
    BY <1>4 DEF TL!AdjustTimer
  <2>2. i + 1 \in 1..(Len(rest) + 1) /\ t \in S /\ when[t] \in Nat
    BY <1>0, <1>1, <1>2, <1>4
  <2> HIDE DEF i, rest
  <2>3. place \in (i + 1)..(Len(rest) + 1)
    BY <1>2, <2>2, PlaceIs
  <2>4. place \in 1..(Len(rest) + 1)
    BY <2>2, <2>3, <1>2, LenProperties
  <2> HIDE DEF place
  <2>5. t \notin Elems(rest) /\ Elems(list) = Elems(rest) \cup {t}
    BY <1>2
  <2>6. /\ TL!InsertAt(rest, place, t) \in Seq(S)
        /\ Elems(TL!InsertAt(rest, place, t)) = Elems(rest) \cup {t}
        /\ Distinct(TL!InsertAt(rest, place, t))
    BY <1>2, <2>2, <2>4, <2>5, InsertKeeps
  <2> QED
    BY <2>1, <2>5, <2>6
<1> QED
  BY <1>3, <1>4

\* A list without repetition is as long as the set of its elements is large.
LEMMA ListCount ==
    ASSUME NEW S, NEW list \in Seq(S), Distinct(list)
    PROVE  IsFiniteSet(Elems(list)) /\ Cardinality(Elems(list)) = Len(list)
<1>0. Len(list) \in Nat /\ DOMAIN list = 1..Len(list) /\ list \in [1..Len(list) -> S]
  BY LenProperties
<1>1. list \in Bijection(1..Len(list), Elems(list))
  BY <1>0 DEF Bijection, Injection, Surjection, Elems, Distinct, IsInjective
<1>2. IsFiniteSet(1..Len(list)) /\ Cardinality(1..Len(list)) = Len(list)
  BY <1>0, FS_Interval
<1>3. ExistsBijection(1..Len(list), Elems(list))
  BY <1>1 DEF ExistsBijection
<1> QED
  BY <1>2, <1>3, FS_Bijection

------------------------------------------------------------------------------
(* What each conjunct of the invariant rests on.                           *)

LEMMA Constants ==
    /\ 0 \notin Fds /\ -1 \notin Fds /\ Fds \in SUBSET Nat /\ IsFiniteSet(Fds)
    /\ 0 \notin TimerIds /\ TimerIds \in SUBSET Nat /\ IsFiniteSet(TimerIds)
    /\ None \notin Clients /\ IsFiniteSet(Clients)
    /\ Slots \in Nat /\ Slots > 0 /\ BufSize \in Nat /\ BufSize > 0
    /\ MaxRequests \in Nat /\ MaxRequests > 0
BY WebServerAssumption, ProactorAssumption

LEMMA Frame ==
    /\ Descriptors /\ UNCHANGED <<conn, interest, sock>> => Descriptors'
    /\ Peers /\ UNCHANGED <<backlog, conn>> => Peers'
    /\ Timers /\ UNCHANGED <<conn, usersTimer, data, timerLst>> => Timers'
    /\ CountMatches /\ UNCHANGED <<userCount, conn>> => CountMatches'
    /\ Room /\ UNCHANGED <<backlog, data>> => Room'
    /\ Handled /\ UNCHANGED <<stage, task>> => Handled'
    /\ Batch /\ UNCHANGED <<mainpc, batch, backlog, conn>> => Batch'
    /\ Idleness /\ UNCHANGED <<conn, idle, left, usersTimer>> => Idleness'
<1>1. Descriptors /\ UNCHANGED <<conn, interest, sock>> => Descriptors'
  BY DEF Descriptors, Open
<1>2. Peers /\ UNCHANGED <<backlog, conn>> => Peers'
  BY DEF Peers, Waiting, Connected, Open
<1>3. Timers /\ UNCHANGED <<conn, usersTimer, data, timerLst>> => Timers'
  BY DEF Timers, Open, Used
<1>4. CountMatches /\ UNCHANGED <<userCount, conn>> => CountMatches'
  BY DEF CountMatches, Open
<1>5. Room /\ UNCHANGED <<backlog, data>> => Room'
  BY DEF Room, Free
<1>6. Handled /\ UNCHANGED <<stage, task>> => Handled'
  BY DEF Handled, Busy
<1>7. Batch /\ UNCHANGED <<mainpc, batch, backlog, conn>> => Batch'
  BY DEF Batch, Open
<1>8. Idleness /\ UNCHANGED <<conn, idle, left, usersTimer>> => Idleness'
  BY DEF Idleness, Connected, Open
<1> QED
  BY <1>1, <1>2, <1>3, <1>4, <1>5, <1>6, <1>7, <1>8

\* The descriptor of an event is open, and no other event of it is left.
LEMMA EventIs ==
    ASSUME IInv, NEW kind \in {"hup", "in", "out"}, NEW fd \in Fds, Handle(<<kind, fd>>)
    PROVE  /\ fd \in Open /\ sock[fd] = fd /\ interest[fd] # "none"
           /\ \A e \in batch' : e \in batch /\ e[2] # fd
           /\ mainpc = "loop"
<1>1. /\ <<kind, fd>> \in batch /\ batch' = batch \ {<<kind, fd>>}
      /\ mainpc = "loop"
  BY DEF Handle
<1>2. fd # 0 /\ <<kind, fd>> \notin {<<"listen", 0>>, <<"signal", 0>>}
  BY Constants
<1>3. fd \in Open
  BY <1>1, <1>2 DEF IInv, Batch
<1>4. \A e \in batch' : e \in batch /\ e[2] # fd
  BY <1>1, <1>2 DEF IInv, Batch
<1> QED
  BY <1>1, <1>3, <1>4 DEF IInv, Descriptors

------------------------------------------------------------------------------
(* Steps that leave connections, timers and slots alone.                   *)

LEMMA QuietStep ==
    ASSUME IInv, Types', Batch',
           UNCHANGED <<backlog, idle, kernelVars, sock, userCount, timerVars, poolVars>>
    PROVE  IInv'
BY Frame DEF IInv, kernelVars, timerVars, poolVars

\* A client connects to the backlog.
LEMMA ConnectStep ==
    ASSUME IInv, NEW c \in Clients, Connect(c), UNCHANGED poolVars
    PROVE  IInv'
<1>1. /\ backlog \in Seq(Clients)
      /\ c \notin Connected /\ c \notin Elems(backlog)
      /\ backlog' = Append(backlog, c)
      /\ Len(backlog) < Cardinality(Free)
      /\ UNCHANGED <<kernelVars, sock, userCount, timerVars, poolVars, idle, mainpc, batch>>
  BY DEF IInv, Types, ServerTypeOK, Connect, Waiting, Elems, Free, userVars
<1>2. backlog' = backlog \o <<c>> /\ <<c>> \in Seq(Clients)
      /\ Elems(<<c>>) = {c} /\ Distinct(<<c>>)
  BY <1>1, OneElem, AppendIsConcat
<1>3. /\ Elems(backlog \o <<c>>) = Elems(backlog) \cup Elems(<<c>>)
      /\ Distinct(backlog \o <<c>>) <=>
            Distinct(backlog) /\ Distinct(<<c>>) /\ Elems(backlog) \cap Elems(<<c>>) = {}
  BY <1>1, <1>2, ConcatElems
<1>4. Types'
  BY <1>1 DEF IInv, Types, ServerTypeOK, Connect, kernelVars, userVars, timerVars,
              signalVars, poolVars
<1>5. Distinct(backlog') /\ Elems(backlog') \cap Connected = {}
  BY <1>1, <1>2, <1>3 DEF IInv, Peers, Waiting, Elems
<1>6. Peers'
  BY <1>1, <1>5 DEF IInv, Peers, Waiting, Elems, Distinct, Connected, Open, kernelVars
<1>7. Len(backlog') = Len(backlog) + 1 /\ Len(backlog) \in Nat /\ Cardinality(Free) \in Nat
  <2>1. IsFiniteSet(Free)
    BY Constants, FS_Subset DEF Free
  <2> QED
    BY <1>1, <2>1, FS_CardinalityType, AppendProperties, LenProperties
<1>8. Room'
  BY <1>1, <1>7 DEF Room, Free, timerVars
<1>9. Batch'
  BY <1>1, <1>2 DEF IInv, Batch, Open, kernelVars
<1> QED
  BY <1>1, <1>4, <1>6, <1>8, <1>9, Frame DEF IInv, kernelVars, timerVars, poolVars

LEMMA EpollStep ==
    ASSUME IInv, EpollWait, UNCHANGED poolVars
    PROVE  IInv'
<1> DEFINE Ready(fd) == \E kind \in {"hup", "in", "out"} : <<kind, fd>> \in Events
<1>1. /\ mainpc = "wait" /\ mainpc' = "loop" /\ batch' = Events
      /\ interest' = [fd \in Fds |-> IF Ready(fd) THEN "off" ELSE interest[fd]]
      /\ interest \in [Fds -> {"none", "off", "in", "out"}]
      /\ UNCHANGED <<clientVars, conn, userVars, userCount, timerVars, signalVars, poolVars>>
  BY DEF EpollWait, IInv, Types, ServerTypeOK
<1>2. ASSUME NEW e \in Events
      PROVE  \/ e = <<"listen", 0>> /\ backlog # <<>>
             \/ e = <<"signal", 0>>
             \/ \E fd \in Fds : \/ e = <<"hup", fd>> /\ Hup(fd)
                                \/ e = <<"in", fd>> /\ Readable(fd)
                                \/ e = <<"out", fd>> /\ Writable(fd)
  BY DEF Events
<1>3. ASSUME NEW fd \in Fds
      PROVE  /\ ~(Hup(fd) /\ Readable(fd)) /\ ~(Hup(fd) /\ Writable(fd))
             /\ ~(Readable(fd) /\ Writable(fd))
             /\ Hup(fd) \/ Readable(fd) \/ Writable(fd) => interest[fd] \in {"in", "out"}
  BY DEF Hup, Readable, Writable
<1>4. ASSUME NEW fd \in Fds
      PROVE  /\ Ready(fd) => interest[fd] \in {"in", "out"}
             /\ Ready(fd) => fd \in Open /\ interest'[fd] = "off"
             /\ ~Ready(fd) => interest'[fd] = interest[fd]
  <2>1. Ready(fd) => interest[fd] \in {"in", "out"}
    BY <1>2, <1>3, Constants
  <2>2. Ready(fd) => interest'[fd] = "off"
    BY <1>1
  <2>3. interest[fd] \in {"in", "out"} => fd \in Open
    BY DEF IInv, Descriptors
  <2> QED
    BY <1>1, <2>1, <2>2, <2>3
<1>5. ASSUME NEW e \in Events
      PROVE  \/ e = <<"listen", 0>> /\ backlog # <<>>
             \/ e = <<"signal", 0>>
             \/ e[2] \in Fds /\ Ready(e[2])
  BY <1>2
<1> HIDE DEF Ready
<1>6. UNCHANGED Open
  BY <1>1 DEF Open
<1>7. \A e \in batch' : e \in {<<"listen", 0>>, <<"signal", 0>>} \/ e[2] \in Open'
  BY <1>1, <1>4, <1>5, <1>6
<1>8. ASSUME NEW e \in Events, NEW f \in Events, e[2] = f[2], e[2] # 0
      PROVE  e = f
  <2>1. PICK fd \in Fds : \/ e = <<"hup", fd>> /\ Hup(fd)
                          \/ e = <<"in", fd>> /\ Readable(fd)
                          \/ e = <<"out", fd>> /\ Writable(fd)
    BY <1>2, <1>8
  <2>2. PICK gd \in Fds : \/ f = <<"hup", gd>> /\ Hup(gd)
                          \/ f = <<"in", gd>> /\ Readable(gd)
                          \/ f = <<"out", gd>> /\ Writable(gd)
    BY <1>2, <1>8
  <2>3. fd = gd
    BY <1>8, <2>1, <2>2
  <2> QED
    BY <1>3, <2>1, <2>2, <2>3
<1>9. <<"listen", 0>> \in batch' => backlog' # <<>>
  BY <1>1, <1>2, Constants DEF clientVars
<1>10. Batch'
  BY <1>1, <1>7, <1>8, <1>9 DEF Batch
<1>11. Descriptors'
  BY <1>1, <1>4, <1>6 DEF IInv, Descriptors, userVars
<1>12. Events \subseteq {"hup", "in", "out", "listen", "signal"} \X (Fds \cup {0})
  BY DEF Events
<1>13. Types'
  BY <1>1, <1>12 DEF IInv, Types, ServerTypeOK, clientVars, userVars, timerVars,
                     signalVars, poolVars
<1> QED
  BY <1>1, <1>10, <1>11, <1>13, Frame
     DEF IInv, clientVars, timerVars, poolVars

\* The first of the backlog leaves it.
LEMMA TailKeeps ==
    ASSUME NEW S, NEW s \in Seq(S), s # <<>>, Distinct(s)
    PROVE  /\ Head(s) \in S /\ Tail(s) \in Seq(S) /\ Len(Tail(s)) = Len(s) - 1
           /\ Len(s) \in Nat /\ Len(s) > 0
           /\ Elems(s) = Elems(Tail(s)) \cup {Head(s)}
           /\ Distinct(Tail(s)) /\ Head(s) \notin Elems(Tail(s))
<1>1. /\ Head(s) \in S /\ Tail(s) \in Seq(S) /\ Len(Tail(s)) = Len(s) - 1
      /\ Len(s) \in Nat /\ Len(s) > 0 /\ Head(s) = s[1]
      /\ DOMAIN s = 1..Len(s) /\ DOMAIN Tail(s) = 1..(Len(s) - 1)
  BY HeadTailProperties, LenProperties, EmptySeq
<1>2. \A i \in 1..(Len(s) - 1) : Tail(s)[i] = s[i + 1]
  BY <1>1, HeadTailProperties
<1>3. \A i \in 1..(Len(s) - 1) : i + 1 \in 1..Len(s) /\ i + 1 # 1
  BY <1>1
<1>4. \A i \in 1..Len(s) : i = 1 \/ i - 1 \in 1..(Len(s) - 1)
  BY <1>1
<1>5. \A i \in 1..Len(s) : i = 1 \/ Tail(s)[i - 1] = s[i]
  <2> TAKE i \in 1..Len(s)
  <2>1. CASE i # 1
    <3>1. i - 1 \in 1..(Len(s) - 1) /\ (i - 1) + 1 = i
      BY <1>4, <2>1
    <3>2. Tail(s)[i - 1] = s[(i - 1) + 1]
      BY <1>2, <3>1
    <3> QED
      BY <3>1, <3>2
  <2> QED
    BY <2>1
<1>6. Elems(s) = Elems(Tail(s)) \cup {Head(s)}
  <2>1. Elems(Tail(s)) \cup {Head(s)} \subseteq Elems(s)
    BY <1>1, <1>2, <1>3 DEF Elems
  <2>2. Elems(s) \subseteq Elems(Tail(s)) \cup {Head(s)}
    BY <1>1, <1>4, <1>5, ZenonT(40) DEF Elems
  <2> QED
    BY <2>1, <2>2
<1>7. Distinct(Tail(s))
  BY <1>1, <1>2, <1>3 DEF Distinct
<1>8. Head(s) \notin Elems(Tail(s))
  BY <1>1, <1>2, <1>3 DEF Distinct, Elems
<1> QED
  BY <1>1, <1>6, <1>7, <1>8

LEMMA RefuseStep ==
    ASSUME IInv, Refuse, UNCHANGED poolVars
    PROVE  IInv'
<1>1. /\ backlog \in Seq(Clients) /\ backlog # <<>> /\ Distinct(backlog)
      /\ backlog' = Tail(backlog) /\ batch' = batch \ {<<"listen", 0>>}
      /\ inbox' \subseteq inbox /\ fin' \subseteq fin /\ mainpc = "loop"
      /\ UNCHANGED <<full, idle, kernelVars, userVars, userCount, timerVars, signalVars,
                     mainpc, poolVars>>
  BY DEF IInv, Types, ServerTypeOK, Refuse, Handle, Batch, Peers
<1>2. /\ Tail(backlog) \in Seq(Clients) /\ Len(Tail(backlog)) = Len(backlog) - 1
      /\ Elems(Tail(backlog)) \subseteq Elems(backlog) /\ Distinct(Tail(backlog))
      /\ Len(backlog) \in Nat
  BY <1>1, TailKeeps
<1>3. Types'
  BY <1>1, <1>2 DEF IInv, Types, ServerTypeOK, kernelVars, userVars, timerVars,
                    signalVars, poolVars
<1>4. Distinct(backlog') /\ Elems(backlog') \cap Connected = {}
  BY <1>1, <1>2 DEF IInv, Peers, Waiting, Elems
<1>5. Peers'
  BY <1>1, <1>4 DEF IInv, Peers, Waiting, Elems, Distinct, Connected, Open, kernelVars
<1>6. Cardinality(Free) \in Nat
  <2>1. IsFiniteSet(Free)
    BY Constants, FS_Subset DEF Free
  <2> QED
    BY <2>1, FS_CardinalityType
<1>7. Len(backlog') <= Cardinality(Free)
  BY <1>1, <1>2, <1>6 DEF IInv, Room
<1>8. Room'
  BY <1>1, <1>7 DEF Room, Free, timerVars
<1>9. Batch'
  BY <1>1 DEF IInv, Batch, Open, kernelVars
<1> QED
  BY <1>1, <1>3, <1>5, <1>8, <1>9, Frame DEF IInv, kernelVars, userVars, timerVars, poolVars

------------------------------------------------------------------------------
(* accept: there are a descriptor and a timer for whoever waits.           *)

\* Connections are as many as descriptors open, and a client that waits has none.
LEMMA DescriptorLeft ==
    ASSUME conn \in [Fds -> Clients \cup {None}], backlog \in Seq(Clients), Peers,
           backlog # <<>>
    PROVE  \E fd \in Fds \ Open : \A d \in Fds \ Open : fd <= d
<1>1. /\ conn \in [Fds -> Clients \cup {None}] /\ backlog \in Seq(Clients)
      /\ Waiting \cap Connected = {}
      /\ \A c, d \in Open : conn[c] = conn[d] => c = d
  BY DEF Peers
<1>2. Head(backlog) \in Clients /\ Head(backlog) \in Waiting
  BY <1>1, HeadTailProperties, EmptySeq, LenProperties DEF Waiting
<1>3. Connected \in SUBSET Clients /\ Head(backlog) \notin Connected
  BY <1>1, <1>2 DEF Connected, Open
<1>4. IsFiniteSet(Open) /\ IsFiniteSet(Connected)
  BY <1>3, Constants, FS_Subset DEF Open
<1>5. Cardinality(Connected) = Cardinality(Open)
  <2> DEFINE f == [fd \in Open |-> conn[fd]]
  <2>1. f \in Bijection(Open, Connected)
    BY <1>1 DEF Bijection, Injection, Surjection, Connected, IsInjective
  <2>2. ExistsBijection(Open, Connected)
    BY <2>1 DEF ExistsBijection
  <2> QED
    BY <1>4, <2>2, FS_Bijection
<1>6. Cardinality(Connected) < Cardinality(Clients)
  <2>1. Cardinality(Connected) <= Cardinality(Clients)
    BY <1>3, Constants, FS_Subset
  <2>2. Cardinality(Connected) # Cardinality(Clients)
    BY <1>2, <1>3, Constants, FS_Subset
  <2>3. Cardinality(Connected) \in Nat /\ Cardinality(Clients) \in Nat
    BY <1>4, Constants, FS_CardinalityType
  <2> QED
    BY <2>1, <2>2, <2>3
<1>7. Fds # Open
  <2>1. Cardinality(Clients) <= Cardinality(Fds)
    BY WebServerAssumption
  <2>2. /\ Cardinality(Open) \in Nat /\ Cardinality(Clients) \in Nat
        /\ Cardinality(Fds) \in Nat
    BY <1>4, Constants, FS_CardinalityType
  <2> QED
    BY <1>5, <1>6, <2>1, <2>2
<1>8. Fds \ Open \in SUBSET Nat /\ Fds \ Open # {}
  BY <1>7, Constants DEF Open
<1> QED
  BY <1>8, LeastNumber

LEMMA TimerLeft ==
    ASSUME backlog \in Seq(Clients), Peers, Room, backlog # <<>>
    PROVE  \E t \in Free : \A u \in Free : t <= u
<1>1. Free \in SUBSET Nat
  BY Constants DEF Free
<1>2. Len(backlog) \in Nat /\ Len(backlog) > 0
  BY TailKeeps DEF Peers
<1>3. Free # {}
  <2>1. Len(backlog) <= Cardinality(Free)
    BY DEF Room
  <2> QED
    BY <1>2, <2>1, FS_EmptySet
<1> QED
  BY <1>1, <1>3, LeastNumber

LEMMA AcceptStep ==
    ASSUME IInv, Accept, UNCHANGED poolVars
    PROVE  IInv'
<1> DEFINE fd == Lowest(Fds \ Open)
           timer == Lowest({t \in TimerIds : data[t] = 0})
           c == Head(backlog)
<1>1. /\ <<"listen", 0>> \in batch /\ batch' = batch \ {<<"listen", 0>>} /\ mainpc = "loop"
      /\ backlog' = Tail(backlog)
      /\ conn' = [conn EXCEPT ![fd] = c]
      /\ interest' = [interest EXCEPT ![fd] = "in"]
      /\ sock' = [sock EXCEPT ![fd] = fd]
      /\ got' = [got EXCEPT ![fd] = 0]
      /\ toSend' = [toSend EXCEPT ![fd] = FALSE]
      /\ userCount' = userCount + 1
      /\ data' = [data EXCEPT ![timer] = fd]
      /\ left' = [left EXCEPT ![timer] = Slots]
      /\ timerLst' = TL!AddTimer(timerLst, timer, left')
      /\ usersTimer' = [usersTimer EXCEPT ![fd] = timer]
      /\ UNCHANGED <<inbox, fin, full, idle, signalVars, mainpc, poolVars>>
  BY DEF Accept, Handle
<1>2. backlog \in Seq(Clients) /\ backlog # <<>> /\ Distinct(backlog)
  BY <1>1 DEF IInv, Types, ServerTypeOK, Batch, Peers
<1>3. fd \in Fds \ Open
  BY <1>2, DescriptorLeft DEF Lowest, IInv, Types, ServerTypeOK
<1>4. timer \in Free
  <2>1. \E t \in {u \in TimerIds : data[u] = 0} :
            \A u \in {u \in TimerIds : data[u] = 0} : t <= u
    BY <1>2, TimerLeft DEF Free, IInv
  <2>2. timer \in {u \in TimerIds : data[u] = 0}
    BY <2>1 DEF Lowest
  <2> QED
    BY <2>2 DEF Free
<1>5. /\ c \in Clients /\ Tail(backlog) \in Seq(Clients)
      /\ Len(Tail(backlog)) = Len(backlog) - 1 /\ Len(backlog) \in Nat
      /\ Elems(backlog) = Elems(Tail(backlog)) \cup {c}
      /\ Distinct(Tail(backlog)) /\ c \notin Elems(Tail(backlog))
  BY <1>2, TailKeeps
<1> HIDE DEF fd, timer, c
<1>6. /\ conn \in [Fds -> Clients \cup {None}]
      /\ interest \in [Fds -> {"none", "off", "in", "out"}]
      /\ sock \in [Fds -> Fds \cup {-1}]
      /\ usersTimer \in [Fds -> TimerIds \cup {0}]
      /\ left \in [TimerIds -> 0..Slots] /\ data \in [TimerIds -> Fds \cup {0}]
      /\ timerLst \in Seq(TimerIds) /\ userCount \in Int
      /\ idle \in [Clients -> 0..Slots]
      /\ c \in Clients /\ c # None /\ timer \in TimerIds /\ fd \in Fds /\ fd # 0
      /\ Slots \in Nat
  BY <1>3, <1>4, <1>5, Constants DEF IInv, Types, ServerTypeOK, Free
<1>7. /\ Open' = Open \cup {fd} /\ conn'[fd] = c
      /\ \A d \in Open : d # fd /\ conn'[d] = conn[d]
  BY <1>1, <1>3, <1>6 DEF Open
<1>8. /\ Connected' = Connected \cup {c}
      /\ c \in Waiting /\ c \notin Connected
  <2>1. Connected' = Connected \cup {c}
    BY <1>7 DEF Connected
  <2>2. c \in Elems(backlog)
    BY <1>5
  <2> QED
    BY <2>1, <2>2 DEF IInv, Peers, Waiting, Elems
<1>9. Descriptors'
  <2>1. ASSUME NEW d \in Fds
        PROVE  /\ sock'[d] \in {d, -1}
               /\ IF d \in Open' THEN sock'[d] = d /\ interest'[d] # "none"
                  ELSE interest'[d] = "none"
    <3>1. CASE d = fd
      BY <1>1, <1>6, <1>7, <3>1
    <3>2. CASE d # fd
      BY <1>1, <1>6, <1>7, <3>2 DEF IInv, Descriptors
    <3> QED
      BY <3>1, <3>2
  <2> QED
    BY <2>1 DEF Descriptors
<1>10. Peers'
  <2>1. Distinct(backlog')
    BY <1>1, <1>5
  <2>2. Elems(backlog') \cap Connected' = {}
    BY <1>1, <1>5, <1>8 DEF IInv, Peers, Waiting, Elems
  <2>3. \A d, e \in Open' : conn'[d] = conn'[e] => d = e
    <3>1. \A d \in Open : conn[d] \in Connected
      BY DEF Connected
    <3> QED
      BY <1>7, <1>8, <3>1 DEF IInv, Peers
  <2> QED
    BY <2>1, <2>2, <2>3 DEF Peers, Waiting, Elems, Distinct
<1>11. /\ Used' = Used \cup {timer} /\ Free' = Free \ {timer}
       /\ timer \notin Used /\ data'[timer] = fd
       /\ \A t \in Used : data'[t] = data[t]
  BY <1>1, <1>4, <1>6 DEF Used, Free
<1>12. /\ left' \in [TimerIds -> Nat] /\ left' \in [TimerIds -> 0..Slots]
       /\ left'[timer] = Slots
       /\ \A t \in Used : left'[t] = left[t]
  BY <1>1, <1>6, <1>11
<1>13. /\ timerLst' \in Seq(TimerIds) /\ Distinct(timerLst')
       /\ Elems(timerLst') = Elems(timerLst) \cup {timer}
  <2>1. Distinct(timerLst) /\ timer \notin Elems(timerLst)
    BY <1>11 DEF IInv, Timers
  <2> DEFINE added == TL!AddTimer(timerLst, timer, left')
  <2>2. /\ added \in Seq(TimerIds) /\ Distinct(added)
        /\ Elems(added) = Elems(timerLst) \cup {timer}
    BY <1>6, <1>12, <2>1, AddIs
  <2>3. timerLst' = added
    BY <1>1
  <2> HIDE DEF added
  <2> QED
    BY <2>2, <2>3
<1>14. /\ usersTimer'[fd] = timer
       /\ \A d \in Open : usersTimer'[d] = usersTimer[d] /\ usersTimer[d] \in Used
  <2>1. usersTimer'[fd] = timer /\ \A d \in Open : usersTimer'[d] = usersTimer[d]
    BY <1>1, <1>6, <1>7 DEF Open
  <2>2. \A d \in Open : d # 0
    BY Constants DEF Open
  <2>3. \A d \in Open : usersTimer[d] \in Used
    BY <2>2 DEF IInv, Timers, Used
  <2> QED
    BY <2>1, <2>3
<1>15. Timers'
  <2>1. \A d \in Open' : usersTimer'[d] \in TimerIds /\ data'[usersTimer'[d]] = d
    <3>1. \A d \in Open : usersTimer[d] \in TimerIds /\ data[usersTimer[d]] = d
      BY DEF IInv, Timers
    <3> QED
      BY <1>6, <1>7, <1>11, <1>14, <3>1
  <2>2. \A t \in Used' : data'[t] \in Open' /\ usersTimer'[data'[t]] = t
    <3>1. \A t \in Used : data[t] \in Open /\ usersTimer[data[t]] = t
      BY DEF IInv, Timers
    <3> QED
      BY <1>6, <1>7, <1>11, <1>14, <3>1
  <2>3. Elems(timerLst') = Used'
    BY <1>11, <1>13 DEF IInv, Timers
  <2> QED
    BY <1>13, <2>1, <2>2, <2>3 DEF Timers, Elems, Distinct
<1>16. CountMatches'
  <2>1. IsFiniteSet(Open)
    BY Constants, FS_Subset DEF Open
  <2>2. Cardinality(Open \cup {fd}) = Cardinality(Open) + 1
    BY <1>3, <2>1, FS_AddElement
  <2> QED
    BY <1>1, <1>7, <2>2 DEF IInv, CountMatches
<1>17. Room'
  <2>1. IsFiniteSet(Free)
    BY Constants, FS_Subset DEF Free
  <2>2. Cardinality(Free \ {timer}) = Cardinality(Free) - 1 /\ Cardinality(Free) \in Nat
    BY <1>4, <2>1, FS_RemoveElement, FS_CardinalityType
  <2>3. Len(backlog') <= Cardinality(Free')
    BY <1>1, <1>5, <1>11, <2>2 DEF IInv, Room
  <2> QED
    BY <2>3 DEF Room
<1>18. Batch'
  <2>1. mainpc' = "loop" /\ batch' \subseteq batch /\ <<"listen", 0>> \notin batch'
    BY <1>1
  <2>2. \A e \in batch' : e \in {<<"listen", 0>>, <<"signal", 0>>} \/ e[2] \in Open'
    BY <1>7, <2>1 DEF IInv, Batch
  <2>3. \A e, f \in batch' : e[2] = f[2] /\ e[2] # 0 => e = f
    BY <2>1 DEF IInv, Batch
  <2> QED
    BY <2>1, <2>2, <2>3 DEF Batch
<1>19. Handled'
  BY <1>1, Frame DEF IInv, poolVars
<1>20. Idleness'
  <2>1. idle'[conn'[fd]] + left'[usersTimer'[fd]] = Slots
    BY <1>1, <1>6, <1>7, <1>8, <1>12, <1>14 DEF IInv, Idleness
  <2>2. \A d \in Open : idle'[conn'[d]] + left'[usersTimer'[d]] = Slots
    BY <1>1, <1>7, <1>12, <1>14 DEF IInv, Idleness
  <2>3. \A b \in Clients \ Connected' : idle'[b] = 0
    BY <1>1, <1>8 DEF IInv, Idleness
  <2> QED
    BY <1>7, <2>1, <2>2, <2>3 DEF Idleness
<1>21. Types'
  <2>1. /\ conn' \in [Fds -> Clients \cup {None}]
        /\ interest' \in [Fds -> {"none", "off", "in", "out"}]
        /\ sock' \in [Fds -> Fds \cup {-1}]
        /\ usersTimer' \in [Fds -> TimerIds \cup {0}]
        /\ data' \in [TimerIds -> Fds \cup {0}]
        /\ userCount' \in Int /\ backlog' \in Seq(Clients)
    BY <1>1, <1>5, <1>6
  <2>2. got' \in [Fds -> 0..BufSize] /\ toSend' \in [Fds -> BOOLEAN]
    BY <1>1, <1>6, Constants DEF IInv, Types, ServerTypeOK
  <2> QED
    <3>1. batch' \subseteq batch
      BY <1>1
    <3>2. /\ timerLst' \in Seq(TimerIds) /\ left' \in [TimerIds -> 0..Slots]
          /\ idle' \in [Clients -> 0..Slots]
      BY <1>1, <1>12, <1>13 DEF IInv, Types, ServerTypeOK
    <3>3. /\ {alarm', timeout', stop_server'} \subseteq BOOLEAN
          /\ pipe' \subseteq {"ALRM", "TERM"}
          /\ mainpc' \in {"wait", "loop", "stopped"}
          /\ batch' \subseteq {"hup", "in", "out", "listen", "signal"} \X (Fds \cup {0})
          /\ inbox' \subseteq Clients /\ fin' \subseteq Clients /\ full' \subseteq Clients
      BY <1>1, <3>1 DEF IInv, Types, ServerTypeOK, signalVars
    <3>4. ServerTypeOK'
      BY <1>1, <2>1, <2>2, <3>2, <3>3 DEF ServerTypeOK
    <3> QED
      BY <1>1, <3>4 DEF IInv, Types, poolVars
<1> QED
  BY <1>9, <1>10, <1>15, <1>16, <1>17, <1>18, <1>19, <1>20, <1>21 DEF IInv

------------------------------------------------------------------------------
(* Closing.                                                                *)

\* Each open descriptor has a timer of its own.
LEMMA TimerOf ==
    ASSUME IInv
    PROVE  /\ \A fd \in Open : usersTimer[fd] \in Used /\ data[usersTimer[fd]] = fd
           /\ \A t \in Used : data[t] \in Open /\ usersTimer[data[t]] = t
<1>1. \A fd \in Open : fd # 0
  BY Constants DEF Open
<1> QED
  BY <1>1 DEF IInv, Timers, Used

LEMMA CloseTypes ==
    ASSUME IInv, NEW S, NEW T, CloseFds(S), FreeTimers(T),
           timerLst' \in Seq(TimerIds), userCount' \in Int, batch' \subseteq batch,
           alarm' \in BOOLEAN, timeout' \in BOOLEAN,
           mainpc' \in {"wait", "loop", "stopped"},
           UNCHANGED <<usersTimer, userVars, pipe, stop_server, poolVars>>
    PROVE  Types'
<1>1. /\ conn' \in [Fds -> Clients \cup {None}]
      /\ interest' \in [Fds -> {"none", "off", "in", "out"}]
  BY DEF CloseFds, IInv, Types, ServerTypeOK
<1>2. idle' \in [Clients -> 0..Slots]
  BY Constants DEF CloseFds, IInv, Types, ServerTypeOK
<1>3. inbox' \subseteq Clients /\ fin' \subseteq Clients /\ full' \subseteq Clients
      /\ backlog' = backlog
  BY DEF CloseFds, IInv, Types, ServerTypeOK
<1>4. left' \in [TimerIds -> 0..Slots] /\ data' \in [TimerIds -> Fds \cup {0}]
  BY Constants DEF FreeTimers, IInv, Types, ServerTypeOK
<1> QED
  BY <1>1, <1>2, <1>3, <1>4 DEF IInv, Types, ServerTypeOK, userVars, poolVars

\* Connections are closed, with their timers.
LEMMA CloseKeeps ==
    ASSUME IInv, NEW S \in SUBSET Open, NEW T,
           T = {usersTimer[fd] : fd \in S},
           CloseFds(S), FreeTimers(T), userCount' = userCount - Cardinality(S),
           Distinct(timerLst'), Elems(timerLst') = Elems(timerLst) \ T,
           batch' \subseteq batch, \A e \in batch' : e[2] \notin S,
           mainpc' # "loop" => batch' = {},
           Types', UNCHANGED <<usersTimer, sock, poolVars>>
    PROVE  IInv'
<1>1. /\ conn' = [fd \in Fds |-> IF fd \in S THEN None ELSE conn[fd]]
      /\ interest' = [fd \in Fds |-> IF fd \in S THEN "none" ELSE interest[fd]]
      /\ idle' = [c \in Clients |->
                    IF c \in {conn[fd] : fd \in S \cap Open} THEN 0 ELSE idle[c]]
      /\ backlog' = backlog
      /\ data' = [t \in TimerIds |-> IF t \in T THEN 0 ELSE data[t]]
      /\ left' = [t \in TimerIds |-> IF t \in T THEN 0 ELSE left[t]]
  BY DEF CloseFds, FreeTimers
<1>2. /\ Open' = Open \ S /\ Open \in SUBSET Fds
      /\ \A fd \in Open' : conn'[fd] = conn[fd] /\ interest'[fd] = interest[fd]
  BY <1>1 DEF Open
<1>3. Connected' \subseteq Connected /\ \A fd \in Open : conn[fd] \in Clients
  <2>1. Connected' \subseteq Connected
    BY <1>2 DEF Connected
  <2> QED
    BY <2>1 DEF IInv, Types, ServerTypeOK, Open
<1>4. \A fd \in Open' : usersTimer[fd] \in Used \ T /\ data[usersTimer[fd]] = fd
  <2> TAKE fd \in Open'
  <2>1. fd \in Open /\ fd \notin S
    BY <1>2
  <2>2. usersTimer[fd] \in Used /\ data[usersTimer[fd]] = fd
    BY <2>1, TimerOf
  <2>3. usersTimer[fd] \notin T
    BY <2>1, <2>2, TimerOf
  <2> QED
    BY <2>2, <2>3
<1>5. \A t \in Used \ T : data[t] \in Open' /\ usersTimer[data[t]] = t
  <2> TAKE t \in Used \ T
  <2>1. data[t] \in Open /\ usersTimer[data[t]] = t
    BY TimerOf
  <2> QED
    BY <1>2, <2>1
<1>6. /\ Used' = Used \ T /\ Free \subseteq Free'
      /\ \A t \in Used \ T : data'[t] = data[t] /\ left'[t] = left[t]
  BY <1>1 DEF Used, Free
<1>7. Descriptors'
  BY <1>1, <1>2 DEF IInv, Descriptors
<1>8. Peers'
  <2>1. Waiting' \cap Connected' = {}
    BY <1>1, <1>3 DEF IInv, Peers, Waiting
  <2>2. \A c, d \in Open' : conn'[c] = conn'[d] => c = d
    BY <1>2 DEF IInv, Peers
  <2> QED
    BY <1>1, <2>1, <2>2 DEF IInv, Peers
<1>9. Timers'
  <2>1. \A fd \in Open' : usersTimer'[fd] \in TimerIds /\ data'[usersTimer'[fd]] = fd
    BY <1>4, <1>6 DEF Used
  <2>2. \A t \in Used' : data'[t] \in Open' /\ usersTimer'[data'[t]] = t
    BY <1>5, <1>6
  <2>3. Elems(timerLst') = Used'
    BY <1>6 DEF IInv, Timers
  <2> QED
    BY <2>1, <2>2, <2>3 DEF Timers, Elems, Distinct
<1>10. CountMatches'
  <2>1. IsFiniteSet(Open) /\ IsFiniteSet(S)
    BY <1>2, Constants, FS_Subset
  <2>2. Cardinality(Open \ S) = Cardinality(Open) - Cardinality(S)
    <3>1. Open \cap S = S
      OBVIOUS
    <3>2. Cardinality(Open \ S) = Cardinality(Open) - Cardinality(Open \cap S)
      BY <2>1, FS_Difference
    <3> QED
      BY <3>1, <3>2
  <2> QED
    BY <1>2, <2>2 DEF IInv, CountMatches
<1>11. Room'
  <2>1. IsFiniteSet(Free')
    BY Constants, FS_Subset DEF Free
  <2>2. IsFiniteSet(Free) /\ Cardinality(Free) <= Cardinality(Free')
    BY <1>6, <2>1, FS_Subset
  <2>3. /\ Cardinality(Free) \in Nat /\ Cardinality(Free') \in Nat
        /\ Len(backlog) \in Nat /\ Len(backlog) <= Cardinality(Free)
    BY <2>1, <2>2, FS_CardinalityType, LenProperties DEF IInv, Room, Types, ServerTypeOK
  <2>4. Len(backlog) <= Cardinality(Free')
    BY <2>2, <2>3
  <2> QED
    BY <1>1, <2>4 DEF Room
<1>12. Batch'
  BY <1>1, <1>2 DEF IInv, Batch
<1>13. Handled'
  BY Frame DEF IInv, poolVars
<1>14. Idleness'
  <2>1. \A fd \in Open' : idle'[conn'[fd]] + left'[usersTimer'[fd]] = Slots
    <3> TAKE fd \in Open'
    <3>1. fd \in Open /\ fd \notin S /\ conn'[fd] = conn[fd] /\ conn[fd] \in Clients
      BY <1>2, <1>3
    <3>2. \A d \in S : conn[d] # conn[fd]
      BY <3>1 DEF IInv, Peers
    <3>3. idle'[conn'[fd]] = idle[conn[fd]]
      BY <1>1, <3>1, <3>2
    <3>4. left'[usersTimer'[fd]] = left[usersTimer[fd]]
      BY <1>4, <1>6
    <3>5. idle[conn[fd]] + left[usersTimer[fd]] = Slots
      BY <3>1 DEF IInv, Idleness
    <3> QED
      BY <3>3, <3>4, <3>5
  <2>2. \A c \in Clients \ Connected' : idle'[c] = 0
    <3> TAKE c \in Clients \ Connected'
    <3>1. CASE c \in Connected
      <4>1. PICK fd \in Open : conn[fd] = c
        BY <3>1 DEF Connected
      <4>2. fd \in S
        BY <1>2, <4>1 DEF Connected
      <4> QED
        BY <1>1, <4>1, <4>2
    <3>2. CASE c \notin Connected
      BY <1>1, <3>2 DEF IInv, Idleness
    <3> QED
      BY <3>1, <3>2
  <2> QED
    BY <2>1, <2>2 DEF Idleness
<1> QED
  BY <1>7, <1>8, <1>9, <1>10, <1>11, <1>12, <1>13, <1>14 DEF IInv

\* One connection is closed by its event.
LEMMA CloseStep ==
    ASSUME IInv, NEW kind \in {"hup", "in", "out"}, NEW fd \in Fds,
           Handle(<<kind, fd>>), DealTimer(fd),
           UNCHANGED <<userVars, signalVars, mainpc, poolVars>>
    PROVE  IInv'
<1>1. /\ fd \in Open /\ mainpc = "loop"
      /\ \A e \in batch' : e \in batch /\ e[2] # fd
  BY EventIs
<1> DEFINE timer == usersTimer[fd]
<1>2. /\ CloseFds({fd}) /\ FreeTimers({timer}) /\ userCount' = userCount - 1
      /\ timerLst' = TL!DelTimer(timerLst, timer) /\ usersTimer' = usersTimer
  BY DEF DealTimer
<1>3. timer \in Elems(timerLst) /\ Distinct(timerLst) /\ timerLst \in Seq(TimerIds)
  BY <1>1, TimerOf DEF IInv, Timers, Types, ServerTypeOK
<1> HIDE DEF timer
<1>4. /\ timerLst' \in Seq(TimerIds) /\ Distinct(timerLst')
      /\ Elems(timerLst') = Elems(timerLst) \ {timer}
  <2> DEFINE shorter == TL!DelTimer(timerLst, timer)
  <2>1. /\ shorter \in Seq(TimerIds) /\ Distinct(shorter)
        /\ Elems(shorter) = Elems(timerLst) \ {timer}
    BY <1>3, DelIs
  <2>2. timerLst' = shorter
    BY <1>2
  <2> HIDE DEF shorter
  <2> QED
    BY <2>1, <2>2
<1>5. Cardinality({fd}) = 1 /\ {timer} = {usersTimer[d] : d \in {fd}} /\ {fd} \in SUBSET Open
  BY <1>1, FS_Singleton DEF timer
<1>6. Types'
  <2>1. /\ userCount' \in Int /\ batch' \subseteq batch
        /\ alarm' \in BOOLEAN /\ timeout' \in BOOLEAN
        /\ mainpc' \in {"wait", "loop", "stopped"}
        /\ UNCHANGED <<usersTimer, userVars, pipe, stop_server, poolVars>>
    BY <1>1, <1>2 DEF IInv, Types, ServerTypeOK, signalVars
  <2> QED
    BY <1>2, <1>4, <2>1, CloseTypes
<1>7. /\ batch' \subseteq batch /\ \A e \in batch' : e[2] \notin {fd}
      /\ mainpc' # "loop" => batch' = {}
      /\ userCount' = userCount - Cardinality({fd})
      /\ UNCHANGED <<usersTimer, sock, poolVars>>
  BY <1>1, <1>2, <1>5 DEF userVars
<1> QED
  BY <1>2, <1>4, <1>5, <1>6, <1>7, CloseKeeps

\* The first n timers, the descriptors behind them, and the timers that stay.
Dead(n) == {timerLst[i] : i \in 1..n}
Behind(n) == {data[t] : t \in Dead(n)}
Rest(n) == SubSeq(timerLst, n + 1, Len(timerLst))

\* What a tick closes: as many connections as timers that have run out, each of which
\* has been idle for as long as a timer runs.
LEMMA TickCloses ==
    ASSUME IInv, NEW n \in 0..Len(timerLst), \A i \in 1..n : left[timerLst[i]] = 0
    PROVE  /\ Behind(n) \in SUBSET Open
           /\ Dead(n) = {usersTimer[fd] : fd \in Behind(n)} /\ Cardinality(Behind(n)) = n
           /\ \A fd \in Behind(n) : idle[conn[fd]] = Slots
           /\ Rest(n) \in Seq(TimerIds) /\ Distinct(Rest(n))
           /\ Elems(Rest(n)) = Elems(timerLst) \ Dead(n)
<1> DEFINE a == SubSeq(timerLst, 1, n)
           b == SubSeq(timerLst, n + 1, Len(timerLst))
           T == Dead(n)
           S == Behind(n)
<1>1. /\ timerLst \in Seq(TimerIds) /\ Distinct(timerLst) /\ Elems(timerLst) = Used
      /\ Len(timerLst) \in Nat
  BY LenProperties DEF IInv, Timers, Types, ServerTypeOK
<1>2. /\ a \in Seq(TimerIds) /\ b \in Seq(TimerIds) /\ timerLst = a \o b
      /\ Len(a) = n /\ \A j \in 1..n : a[j] = timerLst[j]
  BY <1>1, SplitAt, ZenonT(40)
<1> HIDE DEF a, b
<1>3. /\ Elems(timerLst) = Elems(a) \cup Elems(b)
      /\ Distinct(a) /\ Distinct(b) /\ Elems(a) \cap Elems(b) = {}
  BY <1>1, <1>2, ConcatElems
<1>4. Elems(a) = T /\ S = {data[t] : t \in T}
  <2>1. DOMAIN a = 1..n
    BY <1>2, LenProperties
  <2> QED
    BY <1>2, <2>1 DEF Elems, Dead, Behind
<1> HIDE DEF S, T
<1>5. Distinct(b) /\ Elems(b) = Elems(timerLst) \ T
  BY <1>3, <1>4
<1>6. T \in SUBSET Used /\ \A t \in T : left[t] = 0
  <2>1. \A t \in T : \E i \in 1..n : t = timerLst[i]
    BY DEF T, Dead
  <2>2. T \in SUBSET Used
    BY <1>1, <1>3, <1>4
  <2> QED
    BY <2>1, <2>2
<1>7. S \in SUBSET Open /\ \A t \in T : usersTimer[data[t]] = t
  BY <1>4, <1>6, TimerOf
<1>8. T = {usersTimer[fd] : fd \in S}
  <2>1. \A t \in T : data[t] \in S /\ usersTimer[data[t]] = t
    BY <1>4, <1>7
  <2>2. \A fd \in S : \E t \in T : fd = data[t]
    BY <1>4
  <2>3. \A fd \in S : usersTimer[fd] \in T
    BY <2>1, <2>2
  <2>4. \A t \in T : \E fd \in S : t = usersTimer[fd]
    BY <2>1
  <2> QED
    BY <2>3, <2>4
<1>9. \A fd \in S : left[usersTimer[fd]] = 0
  BY <1>6, <1>8
<1>10. Cardinality(S) = n
  <2>1. IsFiniteSet(T) /\ Cardinality(T) = n
    BY <1>2, <1>3, <1>4, ListCount
  <2> DEFINE f == [t \in T |-> data[t]]
  <2>2. f \in Bijection(T, S)
    BY <1>4, <1>7 DEF Bijection, Injection, Surjection, IsInjective
  <2>3. ExistsBijection(T, S)
    BY <2>2 DEF ExistsBijection
  <2> QED
    BY <2>1, <2>3, FS_Bijection
<1>11. \A fd \in S : idle[conn[fd]] = Slots
  <2> TAKE fd \in S
  <2>1. fd \in Open /\ left[usersTimer[fd]] = 0 /\ conn[fd] \in Clients
    BY <1>7, <1>9 DEF IInv, Types, ServerTypeOK, Open
  <2>2. idle[conn[fd]] + left[usersTimer[fd]] = Slots /\ idle[conn[fd]] \in Nat
    BY <2>1, Constants DEF IInv, Idleness, Types, ServerTypeOK
  <2> QED
    BY <2>1, <2>2
<1> QED
  BY <1>2, <1>5, <1>7, <1>8, <1>10, <1>11 DEF b, S, T, Rest

LEMMA TickStep ==
    ASSUME IInv, TimerHandler, UNCHANGED poolVars
    PROVE  IInv' /\ \A c \in Connected \ Connected' : idle[c] = Slots
<1> DEFINE n == TL!ExpiredPrefix(timerLst, left, 0)
           dead == Dead(n)
           closed == Behind(n)
<1>1. /\ CloseFds(closed) /\ FreeTimers(dead) /\ userCount' = userCount - n
      /\ timerLst' = Rest(n)
      /\ UNCHANGED usersTimer
  BY DEF TimerHandler, Tick, Dead, Behind, Rest
<1>2. /\ batch = {} /\ batch' = {} /\ alarm' = TRUE /\ timeout' = FALSE
      /\ mainpc' \in {"wait", "stopped"}
      /\ UNCHANGED <<userVars, pipe, stop_server>>
  BY DEF TimerHandler, NextRound
<1>3. timerLst \in Seq(TimerIds) /\ left \in [TimerIds -> Nat]
  BY Constants DEF IInv, Types, ServerTypeOK
<1>4. n \in 0..Len(timerLst) /\ \A i \in 1..n : left[timerLst[i]] = 0
  BY <1>3, ExpiredIs
<1> HIDE DEF n
<1>5. /\ closed \in SUBSET Open
      /\ dead = {usersTimer[fd] : fd \in closed} /\ Cardinality(closed) = n
      /\ \A fd \in closed : idle[conn[fd]] = Slots
      /\ timerLst' \in Seq(TimerIds) /\ Distinct(timerLst')
      /\ Elems(timerLst') = Elems(timerLst) \ dead
  BY <1>1, <1>4, TickCloses
<1> HIDE DEF dead, closed
<1>6. Types'
  <2>1. userCount' \in Int
    BY <1>1, <1>4 DEF IInv, Types, ServerTypeOK
  <2> QED
    BY <1>1, <1>2, <1>5, <2>1, CloseTypes
<1>7. IInv'
  <2>1. /\ userCount' = userCount - Cardinality(closed)
        /\ batch' \subseteq batch /\ \A e \in batch' : e[2] \notin closed
        /\ mainpc' # "loop" => batch' = {}
        /\ UNCHANGED <<usersTimer, sock, poolVars>>
    BY <1>1, <1>2, <1>5 DEF userVars
  <2> QED
    BY <1>1, <1>5, <1>6, <2>1, CloseKeeps
<1>8. ASSUME NEW c \in Connected \ Connected'
      PROVE  idle[c] = Slots
  <2>1. PICK fd \in Open : conn[fd] = c
    BY DEF Connected
  <2>2. conn' = [d \in Fds |-> IF d \in closed THEN None ELSE conn[d]]
    BY <1>1 DEF CloseFds
  <2>3. fd \in closed
    BY <1>8, <2>1, <2>2 DEF Connected, Open
  <2> QED
    BY <1>5, <2>1, <2>3
<1> QED
  BY <1>7, <1>8

------------------------------------------------------------------------------
(* Time and activity.                                                      *)

LEMMA ClockKeeps ==
    ASSUME IInv, Clock, UNCHANGED poolVars
    PROVE  IInv'
<1>1. /\ left' = [t \in TimerIds |-> Tick1(left[t])]
      /\ idle' = [c \in Clients |->
                    IF c \in Connected /\ idle[c] < Slots THEN idle[c] + 1 ELSE idle[c]]
      /\ pipe' \in {pipe, pipe \cup {"ALRM"}} /\ alarm' = FALSE
      /\ UNCHANGED <<backlog, inbox, fin, full, kernelVars, userVars, userCount, timerLst,
                     data, usersTimer, timeout, stop_server, mainpc, batch, queue, stage,
                     task>>
  BY DEF Clock, poolVars
<1>2. /\ idle \in [Clients -> 0..Slots] /\ left \in [TimerIds -> 0..Slots]
      /\ Slots \in Nat
  BY Constants DEF IInv, Types, ServerTypeOK
<1>3. /\ Open' = Open /\ Connected' = Connected 
      /\ \A fd \in Open : usersTimer[fd] \in TimerIds /\ conn[fd] \in Clients
  <2>1. \A fd \in Open : usersTimer[fd] \in TimerIds /\ conn[fd] \in Clients
    BY DEF IInv, Timers, Types, ServerTypeOK, Open
  <2> QED
    BY <1>1, <2>1 DEF Open, Connected, kernelVars
<1>4. Types'
  <2>1. idle' \in [Clients -> 0..Slots] /\ left' \in [TimerIds -> 0..Slots]
    BY <1>1, <1>2 DEF Tick1
  <2>2. pipe' \subseteq {"ALRM", "TERM"}
    BY <1>1 DEF IInv, Types, ServerTypeOK, Open
  <2> QED
    BY <1>1, <2>1, <2>2 DEF IInv, Types, ServerTypeOK, kernelVars, userVars
<1>5. Idleness'
  <2>1. \A fd \in Open : idle'[conn[fd]] + left'[usersTimer[fd]] = Slots
    <3> TAKE fd \in Open
    <3>1. /\ usersTimer[fd] \in TimerIds /\ conn[fd] \in Clients /\ conn[fd] \in Connected
          /\ idle[conn[fd]] + left[usersTimer[fd]] = Slots
      BY <1>3 DEF IInv, Idleness, Connected
    <3>2. idle'[conn[fd]] = IF idle[conn[fd]] < Slots THEN idle[conn[fd]] + 1
                            ELSE idle[conn[fd]]
      BY <1>1, <3>1
    <3>3. left'[usersTimer[fd]] = Tick1(left[usersTimer[fd]])
      BY <1>1, <3>1
    <3>4. idle[conn[fd]] \in 0..Slots /\ left[usersTimer[fd]] \in 0..Slots
      BY <1>2, <3>1
    <3> QED
      BY <1>2, <3>1, <3>2, <3>3, <3>4 DEF Tick1
  <2>2. \A c \in Clients \ Connected : idle'[c] = 0
    BY <1>1 DEF IInv, Idleness
  <2> QED
    BY <1>1, <1>3, <2>1, <2>2 DEF Idleness, kernelVars
<1> QED
  BY <1>1, <1>4, <1>5, Frame DEF IInv, kernelVars, userVars

\* A connection that was read or written has its whole time again.
LEMMA RefreshKeeps ==
    ASSUME IInv, NEW fd \in Open, Active(conn[fd]), AdjustTimer(fd), UNCHANGED conn
    PROVE  /\ Timers' /\ Idleness' /\ UNCHANGED data
           /\ idle' \in [Clients -> 0..Slots] /\ left' \in [TimerIds -> 0..Slots]
           /\ timerLst' \in Seq(TimerIds) /\ usersTimer' = usersTimer
<1> DEFINE timer == usersTimer[fd]
           adjusted == TL!AdjustTimer(timerLst, timer, left')
<1>1. /\ left' = [left EXCEPT ![timer] = Slots]
      /\ timerLst' = adjusted
      /\ UNCHANGED <<data, usersTimer>>
      /\ idle' = [d \in Clients |-> IF d = conn[fd] THEN 0 ELSE idle[d]]
  BY DEF AdjustTimer, Active
<1>2. /\ \A d \in Open : /\ usersTimer[d] \in TimerIds /\ conn[d] \in Clients
                         /\ data[usersTimer[d]] = d
      /\ timer \in Elems(timerLst) /\ Distinct(timerLst) /\ timerLst \in Seq(TimerIds)
      /\ left \in [TimerIds -> 0..Slots] /\ idle \in [Clients -> 0..Slots]
      /\ Slots \in Nat
  <2>1. \A d \in Open : /\ usersTimer[d] \in TimerIds /\ data[usersTimer[d]] = d
                        /\ usersTimer[d] \in Used
    BY TimerOf DEF Used
  <2>2. \A d \in Open : conn[d] \in Clients
    BY DEF IInv, Types, ServerTypeOK, Open
  <2>3. Elems(timerLst) = Used /\ Distinct(timerLst) /\ timerLst \in Seq(TimerIds)
    BY DEF IInv, Timers, Types, ServerTypeOK
  <2>4. /\ left \in [TimerIds -> 0..Slots] /\ idle \in [Clients -> 0..Slots]
        /\ Slots \in Nat
    BY Constants DEF IInv, Types, ServerTypeOK
  <2> QED
    BY <2>1, <2>2, <2>3, <2>4
<1>3. Open' = Open /\ Connected' = Connected
  BY DEF Open, Connected
<1>4. /\ left' \in [TimerIds -> 0..Slots] /\ left' \in [TimerIds -> Nat]
      /\ idle' \in [Clients -> 0..Slots]
  BY <1>1, <1>2
<1>5. \A d \in Open : left'[usersTimer[d]] = IF d = fd THEN Slots ELSE left[usersTimer[d]]
  BY <1>1, <1>2
<1> HIDE DEF timer
<1>6. adjusted \in Seq(TimerIds) /\ Elems(adjusted) = Elems(timerLst) /\ Distinct(adjusted)
  BY <1>2, <1>4, AdjustIs
<1> HIDE DEF adjusted
<1>7. Timers'
  <2>1. Used' = Used /\ Elems(timerLst') = Used /\ Distinct(timerLst')
    BY <1>1, <1>6 DEF IInv, Timers, Used
  <2>2. /\ \A d \in Open' : usersTimer'[d] \in TimerIds /\ data'[usersTimer'[d]] = d
        /\ \A t \in Used' : data'[t] \in Open' /\ usersTimer'[data'[t]] = t
    BY <1>1, <1>3, <2>1 DEF IInv, Timers
  <2> QED
    BY <2>1, <2>2 DEF Timers, Elems, Distinct
<1>8. Idleness'
  <2>1. \A d \in Open : idle'[conn[d]] + left'[usersTimer[d]] = Slots
    <3> TAKE d \in Open
    <3>1. CASE d = fd
      <4>1. idle'[conn[d]] = 0 /\ left'[usersTimer[d]] = Slots
        BY <1>1, <1>2, <1>5, <3>1
      <4> QED
        BY <1>2, <4>1
    <3>2. CASE d # fd
      <4>1. conn[d] # conn[fd]
        BY <3>2 DEF IInv, Peers
      <4>2. idle'[conn[d]] = idle[conn[d]] /\ left'[usersTimer[d]] = left[usersTimer[d]]
        BY <1>1, <1>2, <1>5, <3>2, <4>1
      <4> QED
        BY <4>2 DEF IInv, Idleness
    <3> QED
      BY <3>1, <3>2
  <2>2. \A c \in Clients \ Connected : idle'[c] = 0
    BY <1>1 DEF IInv, Idleness
  <2> QED
    BY <1>1, <1>3, <2>1, <2>2 DEF Idleness
<1> QED
  BY <1>1, <1>4, <1>5, <1>6, <1>7, <1>8

\* The list after AppendProactor.
LEMMA EnqueueIs ==
    ASSUME IInv, NEW fd \in Open, Enqueue(fd), UNCHANGED <<stage, task>>
    PROVE  /\ queue' \in Seq([fd : Fds, client : Clients]) /\ Len(queue') <= MaxRequests
           /\ \A i \in DOMAIN queue : i \in DOMAIN queue' /\ queue'[i] = queue[i]
           /\ \A i \in DOMAIN queue' :
                \/ i \in DOMAIN queue /\ queue'[i] = queue[i]
                \/ /\ i = Len(queue) + 1 /\ i \notin DOMAIN queue
                   /\ queue'[i].fd = fd /\ queue'[i].client = conn[fd]
           /\ Held \subseteq Held' /\ Held' \subseteq Held \cup {fd}
           /\ Len(queue) < MaxRequests => fd \in Held'
<1> DEFINE item == [fd |-> fd, client |-> conn[fd]]
<1>1. /\ queue \in Seq([fd : Fds, client : Clients])
      /\ item \in [fd : Fds, client : Clients] /\ item.fd = fd /\ item.client = conn[fd]
      /\ Len(queue) \in Nat /\ Len(queue) <= MaxRequests /\ MaxRequests \in Nat
  BY Constants, LenProperties DEF IInv, Types, ServerTypeOK, Open
<1>2. /\ \/ queue' = queue
         \/ queue' = Append(queue, item) /\ Len(queue) < MaxRequests
      /\ Len(queue) < MaxRequests => queue' = Append(queue, item)
  BY <1>1 DEF Enqueue
<1> HIDE DEF item
<1>3. /\ DOMAIN queue = 1..Len(queue)
      /\ Len(Append(queue, item)) = Len(queue) + 1
      /\ Append(queue, item) \in Seq([fd : Fds, client : Clients])
      /\ DOMAIN Append(queue, item) = 1..(Len(queue) + 1)
      /\ \A i \in 1..Len(queue) : Append(queue, item)[i] = queue[i]
      /\ Append(queue, item)[Len(queue) + 1] = item
  BY <1>1, AppendProperties, LenProperties
<1>4. queue' \in Seq([fd : Fds, client : Clients]) /\ Len(queue') <= MaxRequests
  <2>1. CASE queue' = queue
    BY <1>1, <2>1
  <2>2. CASE queue' = Append(queue, item) /\ Len(queue) < MaxRequests
    BY <1>1, <1>3, <2>2
  <2> QED
    BY <1>2, <2>1, <2>2
<1>5. \A i \in DOMAIN queue : i \in DOMAIN queue' /\ queue'[i] = queue[i]
  BY <1>1, <1>2, <1>3
<1>6. \A i \in DOMAIN queue' :
        \/ i \in DOMAIN queue /\ queue'[i] = queue[i]
        \/ i = Len(queue) + 1 /\ i \notin DOMAIN queue /\ queue'[i] = item
  BY <1>1, <1>2, <1>3
<1>7. Held \subseteq Held' /\ Held' \subseteq Held \cup {fd}
  <2>1. Processing' = Processing
    BY DEF Processing, Busy
  <2>2. Queued \subseteq Queued'
    BY <1>5 DEF Queued
  <2>3. Queued' \subseteq Queued \cup {fd}
    BY <1>1, <1>6 DEF Queued
  <2> QED
    BY <2>1, <2>2, <2>3 DEF Held
<1>8. ASSUME Len(queue) < MaxRequests
      PROVE  fd \in Held'
  <2>1. Len(queue) + 1 \in DOMAIN queue' /\ queue'[Len(queue) + 1] = item
    BY <1>1, <1>2, <1>3, <1>8
  <2> QED
    BY <1>1, <2>1 DEF Held, Queued
<1> QED
  BY <1>1, <1>4, <1>5, <1>6, <1>7, <1>8

LEMMA ReadStep ==
    ASSUME IInv, NEW fd \in Fds, DealRead(fd)
    PROVE  IInv'
<1>1. /\ Handle(<<"in", fd>>) /\ Active(conn[fd]) /\ AdjustTimer(fd) /\ Enqueue(fd)
      /\ got[fd] < BufSize /\ got' = [got EXCEPT ![fd] = @ + 1]
      /\ inbox' \subseteq inbox
      /\ UNCHANGED <<backlog, fin, full, conn, interest, sock, toSend, userCount, alarm, pipe,
                     timeout, stop_server, mainpc, stage, task>>
  BY DEF DealRead, kernelVars, signalVars
<1>2. /\ fd \in Open /\ mainpc = "loop"
      /\ \A e \in batch' : e \in batch /\ e[2] # fd
  BY <1>1, EventIs
<1>3. /\ Timers' /\ Idleness' /\ UNCHANGED data
      /\ idle' \in [Clients -> 0..Slots] /\ left' \in [TimerIds -> 0..Slots]
      /\ timerLst' \in Seq(TimerIds) /\ usersTimer' = usersTimer
  BY <1>1, <1>2, RefreshKeeps
<1>4. Types'
  <2>1. queue' \in Seq([fd : Fds, client : Clients]) /\ Len(queue') <= MaxRequests
    BY <1>1, <1>2, EnqueueIs
  <2>2. got' \in [Fds -> 0..BufSize]
    BY <1>1, Constants DEF IInv, Types, ServerTypeOK
  <2>3. batch' \subseteq batch
    BY <1>2
  <2> QED
    BY <1>1, <1>3, <2>1, <2>2, <2>3 DEF IInv, Types, ServerTypeOK
<1>5. Batch'
  BY <1>1, <1>2 DEF IInv, Batch, Open
<1> QED
  BY <1>1, <1>3, <1>4, <1>5, Frame DEF IInv

\* A descriptor is armed, or nothing is where nothing is registered.
LEMMA ArmedStep ==
    ASSUME IInv, NEW fd \in Fds, NEW ev \in {"in", "out"}, Modfd(sock[fd], ev),
           UNCHANGED <<conn, sock>>
    PROVE  /\ interest' \in [Fds -> {"none", "off", "in", "out"}] /\ Descriptors'
           /\ \A d \in Fds \ {fd} : interest'[d] = interest[d]
           /\ fd \in Open => interest'[fd] # "off"
           /\ Open' = Open
<1>1. /\ interest \in [Fds -> {"none", "off", "in", "out"}]
      /\ sock[fd] \in {fd, -1} /\ -1 \notin Fds
      /\ fd \in Open => sock[fd] = fd /\ interest[fd] # "none"
      /\ fd \notin Open => interest[fd] = "none"
  BY Constants DEF IInv, Types, ServerTypeOK, Descriptors
<1>2. IF fd \in Open THEN interest' = [interest EXCEPT ![fd] = ev]
      ELSE interest' = interest
  BY <1>1 DEF Modfd
<1>3. Open' = Open
  BY DEF Open
<1>4. Descriptors'
  BY <1>1, <1>2, <1>3 DEF IInv, Descriptors
<1> QED
  BY <1>1, <1>2, <1>3, <1>4

\* The event loop has written, or had nothing to write.
LEMMA WriteStep ==
    ASSUME IInv, NEW fd \in Fds, DealWriteKeep(fd) \/ DealWritePart(fd)
    PROVE  IInv'
<1>1. /\ Handle(<<"out", fd>>) /\ Active(conn[fd]) /\ AdjustTimer(fd)
      /\ Modfd(sock[fd], "in") \/ Modfd(sock[fd], "out")
      /\ UNCHANGED <<backlog, inbox, fin, conn, sock, userCount, alarm, pipe, timeout,
                     stop_server, mainpc, poolVars>>
  BY DEF DealWriteKeep, DealWritePart, InitSlot, signalVars, userVars
<1>2. /\ fd \in Open /\ mainpc = "loop"
      /\ \A e \in batch' : e \in batch /\ e[2] # fd
  BY <1>1, EventIs
<1>3. /\ Timers' /\ Idleness' /\ UNCHANGED data
      /\ idle' \in [Clients -> 0..Slots] /\ left' \in [TimerIds -> 0..Slots]
      /\ timerLst' \in Seq(TimerIds) /\ usersTimer' = usersTimer
  BY <1>1, <1>2, RefreshKeeps
<1>4. interest' \in [Fds -> {"none", "off", "in", "out"}] /\ Descriptors'
  BY <1>1, ArmedStep
<1>5. got' \in [Fds -> 0..BufSize] /\ toSend' \in [Fds -> BOOLEAN] /\ full' \subseteq Clients
  <2>1. conn[fd] # None => conn[fd] \in Clients
    BY DEF IInv, Types, ServerTypeOK
  <2>2. /\ got \in [Fds -> 0..BufSize] /\ toSend \in [Fds -> BOOLEAN]
        /\ full \subseteq Clients /\ 0 \in 0..BufSize
    BY Constants DEF IInv, Types, ServerTypeOK
  <2>3. CASE DealWriteKeep(fd)
    BY <2>2, <2>3 DEF DealWriteKeep, InitSlot
  <2>4. CASE DealWritePart(fd)
    BY <2>1, <2>2, <2>4 DEF DealWritePart, userVars
  <2> QED
    BY <2>3, <2>4
<1>6. Types'
  <2>1. batch' \subseteq batch
    BY <1>2
  <2> QED
    BY <1>1, <1>3, <1>4, <1>5, <2>1 DEF IInv, Types, ServerTypeOK, poolVars
<1>7. Batch'
  BY <1>1, <1>2 DEF IInv, Batch, Open
<1> QED
  BY <1>1, <1>3, <1>4, <1>6, <1>7, Frame DEF IInv, poolVars

------------------------------------------------------------------------------
(* The workers.                                                            *)

\* A slot goes from the queue to a worker: it stays in one place.
LEMMA StartIs ==
    ASSUME IInv, NEW w \in Workers, Start(w)
    PROVE  /\ 1 \in DOMAIN queue /\ task'[w] = queue[1] /\ stage'[w] = "process"
           /\ queue[1] \in [fd : Fds, client : Clients]
           /\ queue' \in Seq([fd : Fds, client : Clients]) /\ Len(queue') <= MaxRequests
           /\ \A i \in DOMAIN queue' :
                i \in Nat /\ i + 1 \in DOMAIN queue /\ i + 1 # 1 /\ queue'[i] = queue[i + 1]
           /\ Busy' = Busy \cup {w} /\ w \notin Busy
           /\ \A u \in Busy : u # w /\ task'[u] = task[u] /\ stage'[u] = stage[u]
           /\ Held' = Held
<1> DEFINE item == Head(queue)
           Items == [fd : Fds, client : Clients]
<1>1. /\ stage[w] = "idle" /\ queue # <<>>
      /\ task' = [task EXCEPT ![w] = item] /\ queue' = Tail(queue)
      /\ stage' = [stage EXCEPT ![w] = "process"]
  BY DEF Start, Take
<1>2. /\ queue \in Seq(Items) /\ Len(queue) <= MaxRequests /\ MaxRequests \in Nat
      /\ stage \in [Workers -> Stages]
      /\ task \in [Workers -> Items \cup {NoTask}]
  BY Constants DEF IInv, Types
<1>3. /\ item \in Items /\ queue' \in Seq(Items) /\ Len(queue') = Len(queue) - 1
      /\ item = queue[1] /\ Len(queue) \in Nat /\ Len(queue) > 0
      /\ DOMAIN queue = 1..Len(queue) /\ DOMAIN queue' = 1..(Len(queue) - 1)
      /\ \A i \in 1..(Len(queue) - 1) : queue'[i] = queue[i + 1]
  <2>1. /\ Head(queue) \in Items /\ Tail(queue) \in Seq(Items)
        /\ Len(Tail(queue)) = Len(queue) - 1
        /\ \A i \in 1..Len(Tail(queue)) : Tail(queue)[i] = queue[i + 1]
    BY <1>1, <1>2, HeadTailProperties, Zenon
  <2>2. Head(queue) = queue[1]
    BY <1>1, <1>2
  <2>3. Len(queue) \in Nat /\ Len(queue) > 0 /\ DOMAIN queue = 1..Len(queue)
    BY <1>1, <1>2, LenProperties, EmptySeq
  <2>4. DOMAIN Tail(queue) = 1..Len(Tail(queue))
    BY <2>1, LenProperties, Zenon
  <2> QED
    BY <1>1, <2>1, <2>2, <2>3, <2>4
<1> HIDE DEF item
<1>4. /\ 1 \in DOMAIN queue /\ Len(queue') <= MaxRequests
      /\ \A i \in DOMAIN queue' : /\ i \in Nat /\ i + 1 \in DOMAIN queue /\ i + 1 # 1
                                  /\ queue'[i] = queue[i + 1]
      /\ \A i \in DOMAIN queue : i = 1 \/ (i - 1 \in DOMAIN queue' /\ (i - 1) + 1 = i)
  BY <1>2, <1>3
<1>5. /\ Busy' = Busy \cup {w} /\ w \notin Busy
      /\ task'[w] = item /\ stage'[w] = "process"
      /\ \A u \in Busy : u # w /\ task'[u] = task[u] /\ stage'[u] = stage[u]
  BY <1>1, <1>2 DEF Busy
<1>6. Held' = Held
  <2>1. Queued = Queued' \cup {item.fd}
    <3>1. \A i \in DOMAIN queue : queue[i].fd \in Queued' \cup {item.fd}
      <4> TAKE i \in DOMAIN queue
      <4>1. CASE i = 1
        BY <1>3, <4>1
      <4>2. CASE i # 1
        <5>1. i - 1 \in DOMAIN queue' /\ (i - 1) + 1 = i
          BY <1>4, <4>2
        <5>2. queue'[i - 1] = queue[(i - 1) + 1]
          BY <1>4, <5>1
        <5>3. queue'[i - 1] = queue[i]
          BY <5>1, <5>2
        <5> QED
          BY <5>1, <5>3 DEF Queued
      <4> QED
        BY <4>1, <4>2
    <3>2. \A i \in DOMAIN queue' : queue'[i].fd \in Queued
      BY <1>4 DEF Queued
    <3>3. item.fd \in Queued
      BY <1>3, <1>4 DEF Queued
    <3> QED
      BY <3>1, <3>2, <3>3 DEF Queued
  <2>2. Processing' = Processing \cup {item.fd}
    BY <1>5 DEF Processing
  <2> QED
    BY <2>1, <2>2 DEF Held
<1> QED
  BY <1>3, <1>4, <1>5, <1>6

LEMMA StartStep ==
    ASSUME IInv, NEW w \in Workers, Start(w)
    PROVE  IInv'
<1>1. /\ task' = [task EXCEPT ![w] = queue[1]] /\ stage' = [stage EXCEPT ![w] = "process"]
      /\ queue[1] \in [fd : Fds, client : Clients]
      /\ queue' \in Seq([fd : Fds, client : Clients]) /\ Len(queue') <= MaxRequests
      /\ Busy' = Busy \cup {w} /\ w \notin Busy
      /\ \A u \in Busy : u # w /\ task'[u] = task[u] /\ stage'[u] = stage[u]
      /\ UNCHANGED <<backlog, inbox, fin, full, idle, conn, interest, sock, got, toSend,
                     userCount, timerLst, left, data, usersTimer, alarm, pipe, timeout,
                     stop_server, mainpc, batch>>
  <2>1. task' = [task EXCEPT ![w] = Head(queue)] /\ task \in [Workers -> [fd : Fds, client : Clients] \cup {NoTask}]
    BY DEF Start, Take, IInv, Types
  <2>2. task'[w] = Head(queue)
    BY <2>1
  <2> QED
    BY <2>1, <2>2, StartIs
       DEF Start, Take, serverVars, clientVars, kernelVars, userVars, timerVars, signalVars
<1>2. Types'
  <2>1. /\ stage' \in [Workers -> Stages]
        /\ task' \in [Workers -> [fd : Fds, client : Clients] \cup {NoTask}]
    BY <1>1 DEF IInv, Types, Stages
  <2> QED
    BY <1>1, <2>1 DEF IInv, Types, ServerTypeOK
<1>3. Handled'
  <2>1. task'[w] # NoTask /\ stage'[w] = "process"
    <3>1. queue[1].fd # 0
      BY <1>1, Constants
    <3>2. NoTask.fd = 0
      BY DEF NoTask
    <3> QED
      BY <1>1, <3>1, <3>2 DEF IInv, Types
  <2> QED
    BY <1>1, <2>1 DEF IInv, Handled
<1> QED
  BY <1>1, <1>2, <1>3, Frame DEF IInv

LEMMA RespondStep ==
    ASSUME IInv, NEW w \in Workers, Respond(w)
    PROVE  IInv' /\ Busy' = Busy
<1>1. /\ stage[w] = "process"
      /\ stage' = [stage EXCEPT ![w] = "arm"]
      /\ toSend' = [toSend EXCEPT ![task[w].fd] = TRUE]
      /\ UNCHANGED <<backlog, inbox, fin, full, idle, conn, interest, sock, got, userCount,
                     timerLst, left, data, usersTimer, alarm, pipe, timeout, stop_server,
                     mainpc, batch, queue, task>>
  BY DEF Respond, clientVars, kernelVars, timerVars, signalVars
<1>2. stage \in [Workers -> Stages]
  BY DEF IInv, Types
<1>3. Busy' = Busy /\ \A u \in Busy : stage'[u] = stage[u] \/ stage'[u] = "arm"
  BY <1>1, <1>2 DEF Busy
<1>4. Types'
  <2>1. toSend' \in [Fds -> BOOLEAN] /\ stage' \in [Workers -> Stages]
    BY <1>1, <1>2 DEF IInv, Types, ServerTypeOK, Stages
  <2> QED
    BY <1>1, <2>1 DEF IInv, Types, ServerTypeOK
<1>5. Handled'
  BY <1>1, <1>3 DEF IInv, Handled
<1> QED
  BY <1>1, <1>3, <1>4, <1>5, Frame DEF IInv

\* The worker arms the connection and leaves the slot.
LEMMA LeaveIs ==
    ASSUME IInv, NEW w \in Workers, NoRequest(w) \/ Arm(w)
    PROVE  /\ w \in Busy /\ task[w].fd \in Fds
           /\ Busy' = Busy \ {w}
           /\ \A u \in Busy \ {w} : task'[u] = task[u] /\ stage'[u] = stage[u]
           /\ Held' \subseteq Held /\ Held \ {task[w].fd} \subseteq Held'
           /\ interest' \in [Fds -> {"none", "off", "in", "out"}] /\ Descriptors'
           /\ \A d \in Fds \ {task[w].fd} : interest'[d] = interest[d]
           /\ task[w].fd \in Open => interest'[task[w].fd] # "off"
           /\ Open' = Open
<1>1. /\ stage[w] \in {"process", "arm"}
      /\ Modfd(sock[task[w].fd], "in") \/ Modfd(sock[task[w].fd], "out")
      /\ stage' = [stage EXCEPT ![w] = "idle"] /\ task' = [task EXCEPT ![w] = NoTask]
      /\ UNCHANGED <<conn, sock, queue>>
  BY DEF NoRequest, Arm, Leave, userVars
<1>2. /\ stage \in [Workers -> Stages]
      /\ task \in [Workers -> [fd : Fds, client : Clients] \cup {NoTask}]
  BY DEF IInv, Types
<1>3. w \in Busy
  BY <1>1 DEF Busy
<1>4. task[w].fd \in Fds
  BY <1>2, <1>3 DEF IInv, Handled
<1>5. /\ Busy' = Busy \ {w}
      /\ \A u \in Busy \ {w} : task'[u] = task[u] /\ stage'[u] = stage[u]
  BY <1>1, <1>2 DEF Busy
<1>6. Held' \subseteq Held /\ Held \ {task[w].fd} \subseteq Held'
  <2>1. Queued' = Queued
    BY <1>1 DEF Queued
  <2>2. Processing' \subseteq Processing /\ Processing \ {task[w].fd} \subseteq Processing'
    BY <1>5 DEF Processing
  <2> QED
    BY <2>1, <2>2 DEF Held
<1> QED
  BY <1>1, <1>3, <1>4, <1>5, <1>6, ArmedStep

LEMMA LeaveStep ==
    ASSUME IInv, NEW w \in Workers, NoRequest(w) \/ Arm(w)
    PROVE  IInv'
<1>1. /\ stage' = [stage EXCEPT ![w] = "idle"] /\ task' = [task EXCEPT ![w] = NoTask]
      /\ UNCHANGED <<backlog, inbox, fin, full, idle, conn, sock, got, toSend, userCount,
                     timerLst, left, data, usersTimer, alarm, pipe, timeout, stop_server,
                     mainpc, batch, queue>>
  BY DEF NoRequest, Arm, Leave, clientVars, userVars, timerVars, signalVars
<1>2. /\ Busy' = Busy \ {w}
      /\ \A u \in Busy \ {w} : task'[u] = task[u] /\ stage'[u] = stage[u]
      /\ interest' \in [Fds -> {"none", "off", "in", "out"}] /\ Descriptors'
  BY LeaveIs
<1>3. Types'
  <2>1. /\ stage' \in [Workers -> Stages]
        /\ task' \in [Workers -> [fd : Fds, client : Clients] \cup {NoTask}]
    BY <1>1 DEF IInv, Types, Stages
  <2> QED
    BY <1>1, <1>2, <2>1 DEF IInv, Types, ServerTypeOK
<1>4. Handled'
  BY <1>2 DEF IInv, Handled
<1> QED
  BY <1>1, <1>2, <1>3, <1>4, Frame DEF IInv

\* Without empty files no worker closes a connection.
LEMMA NoneCloses ==
    ASSUME IInv, MaxEmpty = 0, NEW w \in Workers
    PROVE  ~NoResponse(w) /\ ~CloseConn(w) /\ ~ForgetSocket(w) /\ ~CountDown(w)
<1>1. Cardinality(Open) - userCount = 0
  <2>1. userCount = Cardinality(Open) /\ userCount \in Int
    BY DEF IInv, CountMatches, Types, ServerTypeOK
  <2> QED
    BY <2>1
<1>2. ~NoResponse(w)
  BY <1>1 DEF NoResponse
<1>3. stage[w] \notin {"close", "forget", "count"}
  BY DEF IInv, Handled, Busy
<1> QED
  BY <1>2, <1>3 DEF CloseConn, ForgetSocket, CountDown

------------------------------------------------------------------------------
(* All the steps together.                                                 *)

LEMMA InitInv == Init => IInv
<1> SUFFICES ASSUME Init
             PROVE  IInv
  OBVIOUS
<1>1. /\ backlog = <<>> /\ inbox = {} /\ fin = {} /\ full = {}
      /\ idle = [c \in Clients |-> 0] /\ conn = [fd \in Fds |-> None]
      /\ interest = [fd \in Fds |-> "none"] /\ sock = [fd \in Fds |-> -1]
      /\ got = [fd \in Fds |-> 0] /\ toSend = [fd \in Fds |-> FALSE]
      /\ userCount = 0 /\ timerLst = <<>>
      /\ left = [t \in TimerIds |-> 0] /\ data = [t \in TimerIds |-> 0]
      /\ usersTimer = [fd \in Fds |-> 0]
      /\ alarm = TRUE /\ pipe = {} /\ timeout = FALSE /\ stop_server = FALSE
      /\ mainpc = "wait" /\ batch = {}
      /\ queue = <<>> /\ stage = [w \in Workers |-> "idle"]
      /\ task = [w \in Workers |-> NoTask]
  BY DEF Init, ServerInit
<1>2. /\ \A S : <<>> \in Seq(S)
      /\ Len(backlog) = 0 /\ Len(queue) = 0 /\ DOMAIN backlog = {} /\ DOMAIN queue = {}
      /\ DOMAIN timerLst = {}
  BY <1>1
<1>3. Open = {} /\ Connected = {} /\ Busy = {} /\ Used = {}
  BY <1>1 DEF Open, Connected, Busy, Used
<1>4. Types
  <2>1. ServerTypeOK
    <3>1. 0 \in 0..Slots /\ 0 \in 0..BufSize
      BY Constants
    <3>2. /\ idle \in [Clients -> 0..Slots] /\ left \in [TimerIds -> 0..Slots]
          /\ got \in [Fds -> 0..BufSize]
      BY <1>1, <3>1
    <3>3. /\ conn \in [Fds -> Clients \cup {None}]
          /\ interest \in [Fds -> {"none", "off", "in", "out"}]
          /\ sock \in [Fds -> Fds \cup {-1}] /\ toSend \in [Fds -> BOOLEAN]
          /\ data \in [TimerIds -> Fds \cup {0}] /\ usersTimer \in [Fds -> TimerIds \cup {0}]
      BY <1>1
    <3>4. backlog \in Seq(Clients) /\ timerLst \in Seq(TimerIds) /\ userCount \in Int
      BY <1>1, <1>2
    <3> QED
      BY <1>1, <3>2, <3>3, <3>4 DEF ServerTypeOK
  <2> QED
    BY <1>1, <1>2, <2>1, Constants DEF Types, NoTask, Stages
<1>5. Descriptors
  BY <1>1, <1>3 DEF Descriptors
<1>6. Peers
  BY <1>2, <1>3 DEF Peers, Distinct, Waiting
<1>7. Timers
  BY <1>2, <1>3 DEF Timers, Distinct, Elems
<1>8. CountMatches
  BY <1>1, <1>3, FS_EmptySet DEF CountMatches
<1>9. Room
  <2>1. Cardinality(Free) \in Nat
    BY Constants, FS_Subset, FS_CardinalityType DEF Free
  <2> QED
    BY <1>2, <2>1 DEF Room
<1>10. Batch
  BY <1>1 DEF Batch
<1>11. Handled
  BY <1>2, <1>3 DEF Handled
<1>12. Idleness
  BY <1>1, <1>3 DEF Idleness
<1> QED
  BY <1>4, <1>5, <1>6, <1>7, <1>8, <1>9, <1>10, <1>11, <1>12 DEF IInv

\* Nothing of what belongs to a connection is touched by these.
LEMMA EnvironmentKeeps ==
    ASSUME IInv, Environment, UNCHANGED poolVars
    PROVE  IInv'
<1>1. ASSUME NEW c \in Clients, Send(c) \/ Hangup(c) \/ Drain(c)
      PROVE  IInv'
  <2>1. /\ inbox' \subseteq Clients /\ fin' \subseteq Clients /\ full' \subseteq Clients
        /\ UNCHANGED <<backlog, idle, kernelVars, userVars, userCount, timerVars,
                       signalVars, mainpc, batch>>
    BY <1>1 DEF IInv, Types, ServerTypeOK, Send, Hangup, Drain
  <2>2. Types'
    BY <2>1 DEF IInv, Types, ServerTypeOK, kernelVars, userVars, timerVars, signalVars,
                poolVars
  <2>3. Batch'
    BY <2>1, Frame DEF IInv, kernelVars
  <2> QED
    BY <2>1, <2>2, <2>3, QuietStep DEF userVars
<1>2. CASE SigTerm
  <2>1. /\ pipe' = pipe \cup {"TERM"}
        /\ UNCHANGED <<clientVars, kernelVars, userVars, userCount, timerVars, alarm,
                       timeout, stop_server, mainpc, batch>>
    BY <1>2 DEF SigTerm
  <2>2. Types'
    BY <2>1 DEF IInv, Types, ServerTypeOK, clientVars, kernelVars, userVars, timerVars,
                poolVars
  <2>3. Batch'
    BY <2>1, Frame DEF IInv, clientVars, kernelVars
  <2> QED
    BY <2>1, <2>2, <2>3, QuietStep DEF userVars, clientVars
<1> QED
  BY <1>1, <1>2, ConnectStep DEF Environment

LEMMA SignalStep ==
    ASSUME IInv, DealSignal, UNCHANGED poolVars
    PROVE  IInv'
<1>1. /\ pipe' = {} /\ timeout' \in BOOLEAN /\ stop_server' \in BOOLEAN
      /\ batch' \subseteq batch /\ mainpc = "loop"
      /\ UNCHANGED <<clientVars, kernelVars, userVars, userCount, timerVars, alarm, mainpc>>
  BY DEF IInv, Types, ServerTypeOK, DealSignal, Handle
<1>2. Types'
  BY <1>1 DEF IInv, Types, ServerTypeOK, clientVars, kernelVars, userVars, timerVars,
              poolVars
<1>3. Batch'
  BY <1>1 DEF IInv, Batch, Open, clientVars, kernelVars
<1> QED
  BY <1>1, <1>2, <1>3, QuietStep DEF userVars, clientVars

LEMMA NoTimeoutStep ==
    ASSUME IInv, NoTimeout, UNCHANGED poolVars
    PROVE  IInv'
<1>1. /\ mainpc' \in {"wait", "stopped"} /\ batch = {} /\ batch' = {}
      /\ UNCHANGED <<clientVars, kernelVars, userVars, userCount, timerVars, signalVars>>
  BY DEF NoTimeout, NextRound
<1>2. Types'
  BY <1>1 DEF IInv, Types, ServerTypeOK, clientVars, kernelVars, userVars, timerVars,
              signalVars, poolVars
<1>3. Batch'
  BY <1>1 DEF IInv, Batch
<1> QED
  BY <1>1, <1>2, <1>3, QuietStep DEF userVars, clientVars

LEMMA MainKeeps ==
    ASSUME IInv, Main
    PROVE  IInv'
<1>1. CASE MainLoop /\ UNCHANGED poolVars
  <2>1. ASSUME NEW fd \in Fds, DealHup(fd)
        PROVE  IInv'
    BY <1>1, <2>1, CloseStep DEF DealHup
  <2> QED
    BY <1>1, <2>1, EpollStep, RefuseStep, AcceptStep, SignalStep, TickStep, NoTimeoutStep
       DEF MainLoop
<1>2. ASSUME NEW fd \in Fds, DealReadFails(fd) \/ DealWriteEnd(fd)
      PROVE  IInv'
  BY <1>2, CloseStep DEF DealReadFails, DealWriteEnd
<1> QED
  BY <1>1, <1>2, ReadStep, WriteStep DEF Main

LEMMA WorkerKeeps ==
    ASSUME IInv, MaxEmpty = 0, NEW w \in Workers, Worker(w)
    PROVE  IInv'
BY StartStep, RespondStep, LeaveStep, NoneCloses DEF Worker, Process

LEMMA StepKeeps == MaxEmpty = 0 /\ IInv /\ [Next]_vars => IInv'
<1> SUFFICES ASSUME MaxEmpty = 0, IInv, [Next]_vars
             PROVE  IInv'
  OBVIOUS
<1>1. CASE Environment /\ UNCHANGED poolVars
  BY <1>1, EnvironmentKeeps
<1>2. CASE ClockStep
  BY <1>2, ClockKeeps DEF ClockStep
<1>3. CASE Main
  BY <1>3, MainKeeps
<1>4. ASSUME NEW w \in Workers, Worker(w)
      PROVE  IInv'
  BY <1>4, WorkerKeeps
<1>5. CASE UNCHANGED vars
  <2>1. Types'
    BY <1>5 DEF IInv, Types, ServerTypeOK, vars, serverVars, clientVars, kernelVars,
                userVars, timerVars, signalVars, poolVars
  <2>2. Batch'
    BY <1>5, Frame DEF IInv, vars, serverVars, clientVars, kernelVars
  <2> QED
    BY <1>5, <2>1, <2>2, QuietStep DEF vars, serverVars, clientVars, userVars
<1> QED
  BY <1>1, <1>2, <1>3, <1>4, <1>5 DEF Next, Stopped

LEMMA Invariance ==
    ASSUME MaxEmpty = 0
    PROVE  Spec => []IInv
<1>1. IInv /\ [Next]_vars => IInv'
  BY StepKeeps
<1> QED
  BY <1>1, InitInv, PTL DEF Spec

------------------------------------------------------------------------------
(* One thread for a slot.                                                  *)

\* A stale descriptor is so for as long as a thread or the batch has it.
NextSlot(fd) == fd \in Open' /\ interest'[fd] = "off"
StaleStays == \A fd \in (Held \cup Reported)' : fd \in stale => fd \in stale'

LEMMA HistoryIs ==
    ASSUME History
    PROVE  StaleStays
BY DEF History, StaleStays, Held

LEMMA SlotsStay ==
    ASSUME SInv, StaleStays, Busy' = Busy, UNCHANGED <<queue, task>>,
           \A fd \in Held \ (stale \cup stale') :
               Slot(fd) => NextSlot(fd) /\ conn'[fd] = conn[fd],
           \A fd \in Reported' \ {0} :
               \/ fd \in stale'
               \/ fd \in Reported /\ interest'[fd] = interest[fd]
               \/ fd \notin Held /\ interest'[fd] = "off"
    PROVE  SInv'
<1>1. Held' = Held
  BY DEF Held, Queued, Processing
<1>2. /\ \A i \in DOMAIN queue : queue[i].fd \in Held
      /\ \A w \in Busy : task[w].fd \in Held
  BY DEF Held, Queued, Processing
<1>3. \A fd \in Held : fd \in stale => fd \in stale'
  BY <1>1 DEF StaleStays
<1>4. /\ \A i \in DOMAIN queue' :
            \/ queue'[i].fd \in stale'
            \/ NextSlot(queue'[i].fd) /\ conn'[queue'[i].fd] = queue'[i].client
      /\ \A w \in Busy' :
            \/ task'[w].fd \in stale'
            \/ NextSlot(task'[w].fd) /\ conn'[task'[w].fd] = task'[w].client
  BY <1>2, <1>3 DEF SInv
<1>5. /\ \A i, j \in DOMAIN queue' :
            i # j /\ queue'[i].fd = queue'[j].fd => queue'[i].fd \in stale'
      /\ \A w, u \in Busy' : w # u /\ task'[w].fd = task'[u].fd => task'[w].fd \in stale'
      /\ \A i \in DOMAIN queue' : \A w \in Busy' :
            queue'[i].fd = task'[w].fd => queue'[i].fd \in stale'
  BY <1>2, <1>3 DEF SInv
<1>6. \A fd \in Reported' \ {0} : fd \in stale' \/ (fd \notin Held' /\ interest'[fd] = "off")
  BY <1>1 DEF SInv, StaleStays
<1> QED
  BY <1>4, <1>5, <1>6 DEF SInv, Slot, NextSlot

\* The slot whose event is handled may change: nobody has it, or it is stale.
LEMMA OneSlotChanges ==
    ASSUME IInv, SInv, StaleStays, NEW kind \in {"hup", "in", "out"}, NEW fd \in Fds,
           Handle(<<kind, fd>>), UNCHANGED poolVars,
           \A d \in Fds \ {fd} : conn'[d] = conn[d] /\ interest'[d] = interest[d]
    PROVE  SInv'
<1>1. fd \in Reported /\ fd # 0
  BY Constants DEF Handle, Reported
<1>2. fd \notin Reported' /\ Reported' \subseteq Reported
  BY EventIs DEF Reported
<1>3. Reported \subseteq Fds \cup {0}
  BY DEF IInv, Types, ServerTypeOK, Reported
<1>4. \A d \in Held \ (stale \cup stale') :
          Slot(d) => NextSlot(d) /\ conn'[d] = conn[d]
  <2> SUFFICES ASSUME NEW d \in Held, d \notin stale, Slot(d)
               PROVE  NextSlot(d) /\ conn'[d] = conn[d]
    OBVIOUS
  <2>1. d # fd
    BY <1>1 DEF SInv
  <2> QED
    BY <2>1 DEF Slot, NextSlot, Open
<1>5. Busy' = Busy /\ UNCHANGED <<queue, task>>
  BY DEF Busy, poolVars
<1> QED
  BY <1>2, <1>3, <1>4, <1>5, SlotsStay

LEMMA EpollSlots ==
    ASSUME IInv, SInv, StaleStays, EpollWait, UNCHANGED poolVars
    PROVE  SInv'
<1>1. /\ batch' = Events /\ UNCHANGED conn
      /\ interest' = [fd \in Fds |->
                        IF \E kind \in {"hup", "in", "out"} : <<kind, fd>> \in Events
                        THEN "off" ELSE interest[fd]]
  BY DEF EpollWait
<1>2. Busy' = Busy /\ Held' = Held /\ Open' = Open /\ UNCHANGED <<queue, task>>
  BY <1>1 DEF Busy, Open, Held, Queued, Processing, poolVars
<1>3. ASSUME NEW fd \in Reported' \ {0}
      PROVE  fd \in Fds /\ interest[fd] \in {"in", "out"} /\ interest'[fd] = "off"
  <2>1. PICK e \in Events : e[2] = fd
    BY <1>1 DEF Reported
  <2>2. \E d \in Fds : \/ e = <<"hup", d>> /\ Hup(d)
                       \/ e = <<"in", d>> /\ Readable(d)
                       \/ e = <<"out", d>> /\ Writable(d)
    BY <2>1 DEF Events
  <2>3. /\ fd \in Fds /\ interest[fd] \in {"in", "out"}
        /\ \E kind \in {"hup", "in", "out"} : <<kind, fd>> \in Events
    BY <2>1, <2>2 DEF Hup, Readable, Writable
  <2> QED
    BY <1>1, <2>3
<1>4. ASSUME NEW fd \in Reported' \ {0}, fd \in Held
      PROVE  fd \in stale'
  <2>1. fd \in stale
    BY <1>3, <1>4 DEF SInv, Held, Queued, Processing, Slot, NextSlot
  <2> QED
    BY <2>1 DEF StaleStays
<1>5. ASSUME NEW fd, Slot(fd)
      PROVE  NextSlot(fd)
  BY <1>1, <1>2, <1>5 DEF Slot, NextSlot, Open
<1> QED
  BY <1>1, <1>2, <1>3, <1>4, <1>5, SlotsStay

LEMMA AcceptSlots ==
    ASSUME IInv, SInv, StaleStays, Accept, UNCHANGED poolVars
    PROVE  SInv'
<1> DEFINE new == Lowest(Fds \ Open)
<1>1. /\ conn' = [conn EXCEPT ![new] = Head(backlog)]
      /\ interest' = [interest EXCEPT ![new] = "in"]
      /\ batch' \subseteq batch /\ <<"listen", 0>> \in batch
  BY DEF Accept, Handle
<1>2. new \in Fds \ Open
  <2>1. backlog \in Seq(Clients) /\ backlog # <<>>
    BY <1>1 DEF IInv, Types, ServerTypeOK, Batch
  <2> QED
    BY <2>1, DescriptorLeft DEF Lowest, IInv, Types, ServerTypeOK
<1> HIDE DEF new
<1>3. /\ conn \in [Fds -> Clients \cup {None}]
      /\ interest \in [Fds -> {"none", "off", "in", "out"}]
  BY DEF IInv, Types, ServerTypeOK
<1>4. \A d \in Open : d \in Open' /\ conn'[d] = conn[d] /\ interest'[d] = interest[d]
  BY <1>1, <1>2, <1>3 DEF Open
<1>5. Reported' \subseteq Reported /\ \A d \in Reported \ {0} : d \in Open
  BY <1>1 DEF IInv, Batch, Reported
<1>6. Busy' = Busy /\ UNCHANGED <<queue, task>>
  BY DEF Busy, poolVars
<1>7. \A d \in Held \ (stale \cup stale') :
          Slot(d) => NextSlot(d) /\ conn'[d] = conn[d]
  BY <1>4 DEF Slot, NextSlot
<1> QED
  BY <1>4, <1>5, <1>6, <1>7, SlotsStay

\* A connection that a tick closes while a thread has its slot is stale from then on.
LEMMA TickSlots ==
    ASSUME IInv, SInv, TimerHandler, UNCHANGED poolVars, History
    PROVE  SInv'
<1>1. PICK S : /\ conn' = [fd \in Fds |-> IF fd \in S THEN None ELSE conn[fd]]
               /\ interest' = [fd \in Fds |-> IF fd \in S THEN "none" ELSE interest[fd]]
  BY DEF TimerHandler, Tick, CloseFds
<1>2. batch' = {} /\ timeout /\ ~timeout'
  BY DEF TimerHandler
<1>3. Busy' = Busy /\ Held' = Held /\ UNCHANGED <<queue, task>>
  BY DEF Busy, Held, Queued, Processing, poolVars
<1>4. \A fd \in Held : fd \in Open \ Open' => fd \in stale'
  BY <1>2, <1>3 DEF History, Held
<1>5. \A fd \in Held \ (stale \cup stale') :
          Slot(fd) => NextSlot(fd) /\ conn'[fd] = conn[fd]
  <2> SUFFICES ASSUME NEW fd \in Held, fd \notin stale', Slot(fd)
               PROVE  NextSlot(fd) /\ conn'[fd] = conn[fd]
    OBVIOUS
  <2>1. fd \in Open /\ fd \in Open' /\ fd \in Fds
    BY <1>4 DEF Slot, NextSlot, Open
  <2>2. conn'[fd] = conn[fd] /\ interest'[fd] = interest[fd]
    BY <1>1, <2>1 DEF Open
  <2> QED
    BY <2>1, <2>2 DEF Slot, NextSlot
<1>6. Reported' = {}
  BY <1>2 DEF Reported
<1> QED
  BY <1>3, <1>5, <1>6, HistoryIs, SlotsStay

LEMMA ReadSlots ==
    ASSUME IInv, SInv, StaleStays, NEW fd \in Fds, DealRead(fd)
    PROVE  SInv'
<1>1. /\ Handle(<<"in", fd>>) /\ Enqueue(fd)
      /\ UNCHANGED <<conn, interest, stage, task>>
  BY DEF DealRead, kernelVars
<1>2. /\ fd \in Open /\ fd # 0 /\ fd \in Reported
      /\ fd \notin Reported' /\ Reported' \subseteq Reported
  BY <1>1, EventIs, Constants DEF Handle, Reported
<1>3. /\ \A i \in DOMAIN queue : i \in DOMAIN queue' /\ queue'[i] = queue[i]
      /\ \A i \in DOMAIN queue' :
            \/ i \in DOMAIN queue /\ queue'[i] = queue[i]
            \/ /\ i = Len(queue) + 1 /\ i \notin DOMAIN queue
               /\ queue'[i].fd = fd /\ queue'[i].client = conn[fd]
      /\ Held \subseteq Held' /\ Held' \subseteq Held \cup {fd}
  BY <1>1, <1>2, EnqueueIs
<1>4. fd \in stale \/ (fd \notin Held /\ Slot(fd))
  BY <1>2 DEF SInv, Slot, NextSlot
<1>5. Busy' = Busy /\ \A d : NextSlot(d) <=> Slot(d)
  BY <1>1 DEF Busy, Slot, NextSlot, Open
<1>6. /\ \A i \in DOMAIN queue : queue[i].fd \in Held
      /\ \A w \in Busy : task[w].fd \in Held
      /\ \A i \in DOMAIN queue' : queue'[i].fd \in Held'
      /\ \A d \in Held' : d \in stale => d \in stale'
  BY DEF Held, Queued, Processing, StaleStays
<1>7. \A i \in DOMAIN queue' :
        \/ queue'[i].fd \in stale'
        \/ Slot(queue'[i].fd) /\ conn[queue'[i].fd] = queue'[i].client
  BY <1>3, <1>4, <1>6 DEF SInv
<1>8. \A w \in Busy :
        \/ task[w].fd \in stale'
        \/ Slot(task[w].fd) /\ conn[task[w].fd] = task[w].client
  BY <1>3, <1>6 DEF SInv
<1>9. \A i, j \in DOMAIN queue' :
        i # j /\ queue'[i].fd = queue'[j].fd => queue'[i].fd \in stale'
  BY <1>3, <1>4, <1>6 DEF SInv
<1>10. \A w, u \in Busy : w # u /\ task[w].fd = task[u].fd => task[w].fd \in stale'
  BY <1>3, <1>6 DEF SInv
<1>11. \A i \in DOMAIN queue' : \A w \in Busy :
         queue'[i].fd = task[w].fd => queue'[i].fd \in stale'
  BY <1>3, <1>4, <1>6 DEF SInv
<1>12. \A d \in Reported' \ {0} : d \in stale' \/ (d \notin Held' /\ interest[d] = "off")
  BY <1>2, <1>3 DEF SInv, StaleStays
<1> QED
  BY <1>1, <1>5, <1>7, <1>8, <1>9, <1>10, <1>11, <1>12 DEF SInv, Slot, NextSlot

LEMMA StartSlots ==
    ASSUME IInv, SInv, StaleStays, NEW w \in Workers, Start(w)
    PROVE  SInv'
<1>1. /\ 1 \in DOMAIN queue /\ task'[w] = queue[1]
      /\ \A i \in DOMAIN queue' :
            i \in Nat /\ i + 1 \in DOMAIN queue /\ i + 1 # 1 /\ queue'[i] = queue[i + 1]
      /\ Busy' = Busy \cup {w} /\ w \notin Busy
      /\ \A u \in Busy : u # w /\ task'[u] = task[u]
      /\ Held' = Held
  BY StartIs
<1>2. UNCHANGED <<conn, interest, batch>>
  BY DEF Start, Take, serverVars, kernelVars
<1>3. (\A d : NextSlot(d) <=> Slot(d)) /\ Reported' = Reported
  BY <1>2 DEF Slot, NextSlot, Open, Reported
<1>4. /\ \A i \in DOMAIN queue : queue[i].fd \in stale => queue[i].fd \in stale'
      /\ \A u \in Busy : task[u].fd \in stale => task[u].fd \in stale'
      /\ \A d \in Reported : d \in stale => d \in stale'
  BY <1>1, <1>3 DEF Held, Queued, Processing, StaleStays
<1>5. \A i \in DOMAIN queue' :
        \/ queue'[i].fd \in stale'
        \/ Slot(queue'[i].fd) /\ conn[queue'[i].fd] = queue'[i].client
  BY <1>1, <1>4 DEF SInv
<1>6. \A u \in Busy' :
        \/ task'[u].fd \in stale'
        \/ Slot(task'[u].fd) /\ conn[task'[u].fd] = task'[u].client
  BY <1>1, <1>4 DEF SInv
<1>7. \A i, j \in DOMAIN queue' :
        i # j /\ queue'[i].fd = queue'[j].fd => queue'[i].fd \in stale'
  <2> SUFFICES ASSUME NEW i \in DOMAIN queue', NEW j \in DOMAIN queue', i # j,
                      queue'[i].fd = queue'[j].fd
               PROVE  queue'[i].fd \in stale'
    OBVIOUS
  <2>1. /\ i + 1 # j + 1 /\ i + 1 \in DOMAIN queue /\ j + 1 \in DOMAIN queue
        /\ queue'[i] = queue[i + 1] /\ queue'[j] = queue[j + 1]
    BY <1>1
  <2> QED
    BY <1>4, <2>1 DEF SInv
<1>8. \A i \in DOMAIN queue' : queue'[i].fd = queue[1].fd => queue'[i].fd \in stale'
  BY <1>1, <1>4 DEF SInv
<1>9. \A u, v \in Busy' : u # v /\ task'[u].fd = task'[v].fd => task'[u].fd \in stale'
  BY <1>1, <1>4 DEF SInv
<1>10. \A i \in DOMAIN queue' : \A u \in Busy' :
         queue'[i].fd = task'[u].fd => queue'[i].fd \in stale'
  BY <1>1, <1>4, <1>8 DEF SInv
<1>11. \A d \in Reported \ {0} : d \in stale' \/ (d \notin Held /\ interest[d] = "off")
  BY <1>4 DEF SInv
<1> QED
  BY <1>1, <1>2, <1>3, <1>5, <1>6, <1>7, <1>9, <1>10, <1>11 DEF SInv, Slot, NextSlot

LEMMA LeaveSlots ==
    ASSUME IInv, SInv, StaleStays, NEW w \in Workers, NoRequest(w) \/ Arm(w)
    PROVE  SInv'
<1> DEFINE fd == task[w].fd
<1>1. /\ w \in Busy /\ fd \in Fds /\ Busy' = Busy \ {w}
      /\ \A u \in Busy \ {w} : task'[u] = task[u]
      /\ Held' \subseteq Held /\ Open' = Open
      /\ \A d \in Fds \ {fd} : interest'[d] = interest[d]
  BY LeaveIs
<1>2. UNCHANGED <<queue, conn, batch>>
  BY DEF NoRequest, Arm, Leave
<1>3. Reported' = Reported /\ Reported \subseteq Fds \cup {0}
  BY <1>2 DEF Reported, IInv, Types, ServerTypeOK
<1>4. /\ \A i \in DOMAIN queue : queue[i].fd \in Held'
      /\ \A u \in Busy' : task'[u].fd \in Held'
      /\ \A d \in Held' \cup Reported : d \in stale => d \in stale'
  BY <1>2, <1>3 DEF Held, Queued, Processing, StaleStays
<1>5. ASSUME fd \in Held' \cup Reported
      PROVE  fd \in stale'
  <2>1. fd \in Held' => (\E i \in DOMAIN queue : queue[i].fd = fd)
                        \/ (\E u \in Busy \ {w} : task[u].fd = fd)
    BY <1>1, <1>2 DEF Held, Queued, Processing
  <2>2. fd \in Held /\ fd # 0
    BY <1>1, Constants DEF Held, Processing
  <2>3. fd \in stale
    <3> HIDE DEF fd
    <3>1. task[w].fd = fd
      BY DEF fd
    <3> QED
      BY <1>1, <1>5, <2>1, <2>2, <3>1 DEF SInv
  <2> QED
    BY <1>4, <1>5, <2>3
<1> HIDE DEF fd
<1>6. ASSUME NEW d, Slot(d), d # fd
      PROVE  NextSlot(d)
  BY <1>1, <1>6 DEF Slot, NextSlot, Open
<1>7. \A i \in DOMAIN queue :
        \/ queue[i].fd \in stale'
        \/ NextSlot(queue[i].fd) /\ conn[queue[i].fd] = queue[i].client
  BY <1>4, <1>5, <1>6 DEF SInv
<1>8. \A u \in Busy' :
        \/ task'[u].fd \in stale'
        \/ NextSlot(task'[u].fd) /\ conn[task'[u].fd] = task'[u].client
  BY <1>1, <1>4, <1>5, <1>6 DEF SInv
<1>9. /\ \A i, j \in DOMAIN queue : i # j /\ queue[i].fd = queue[j].fd => queue[i].fd \in stale'
      /\ \A u, v \in Busy' : u # v /\ task'[u].fd = task'[v].fd => task'[u].fd \in stale'
      /\ \A i \in DOMAIN queue : \A u \in Busy' :
            queue[i].fd = task'[u].fd => queue[i].fd \in stale'
  BY <1>1, <1>4 DEF SInv
<1>10. \A d \in Reported \ {0} : d \in stale' \/ (d \notin Held' /\ interest'[d] = "off")
  BY <1>1, <1>3, <1>4, <1>5 DEF SInv
<1> QED
  BY <1>2, <1>3, <1>7, <1>8, <1>9, <1>10 DEF SInv, Slot, NextSlot

LEMMA MainSlots ==
    ASSUME IInv, SInv, Main
    PROVE  SInv'
<1>0. History /\ StaleStays
  BY HistoryIs DEF Main
<1>1. CASE (Refuse \/ DealSignal \/ NoTimeout) /\ UNCHANGED poolVars
  <2>1. UNCHANGED <<conn, interest>> /\ batch' \subseteq batch
    BY <1>1 DEF Refuse, DealSignal, NoTimeout, Handle, kernelVars
  <2>2. /\ Busy' = Busy /\ UNCHANGED <<queue, task>> /\ Reported' \subseteq Reported
        /\ \A d : NextSlot(d) <=> Slot(d)
    BY <1>1, <2>1 DEF Busy, Slot, NextSlot, Open, Reported, poolVars
  <2> QED
    BY <1>0, <2>1, <2>2, SlotsStay
<1>2. ASSUME NEW kind \in {"hup", "in", "out"}, NEW fd \in Fds, Handle(<<kind, fd>>),
             DealTimer(fd), UNCHANGED poolVars
      PROVE  SInv'
  <2>1. \A d \in Fds \ {fd} : conn'[d] = conn[d] /\ interest'[d] = interest[d]
    BY <1>2 DEF DealTimer, CloseFds
  <2> QED
    BY <1>0, <1>2, <2>1, OneSlotChanges
<1>3. ASSUME NEW fd \in Fds, DealWriteKeep(fd) \/ DealWritePart(fd)
      PROVE  SInv'
  <2>1. /\ Handle(<<"out", fd>>) /\ UNCHANGED <<conn, sock, poolVars>>
        /\ Modfd(sock[fd], "in") \/ Modfd(sock[fd], "out")
    BY <1>3 DEF DealWriteKeep, DealWritePart, InitSlot, userVars
  <2>2. \A d \in Fds \ {fd} : conn'[d] = conn[d] /\ interest'[d] = interest[d]
    BY <2>1, ArmedStep
  <2> QED
    BY <1>0, <2>1, <2>2, OneSlotChanges
<1>4. ASSUME NEW fd \in Fds, DealHup(fd), UNCHANGED poolVars
      PROVE  SInv'
  BY <1>2, <1>4 DEF DealHup
<1>5. ASSUME NEW fd \in Fds, DealReadFails(fd) \/ DealWriteEnd(fd)
      PROVE  SInv'
  BY <1>2, <1>5 DEF DealReadFails, DealWriteEnd
<1> QED
  BY <1>0, <1>1, <1>3, <1>4, <1>5, EpollSlots, AcceptSlots, TickSlots, ReadSlots
     DEF Main, MainLoop

LEMMA SlotKeeps == MaxEmpty = 0 /\ IInv /\ SInv /\ [Next]_vars => SInv'
<1> SUFFICES ASSUME MaxEmpty = 0, IInv, SInv, [Next]_vars
             PROVE  SInv'
  OBVIOUS
<1>1. CASE (Environment /\ UNCHANGED <<poolVars, historyVars>>) \/ ClockStep \/ UNCHANGED vars
  <2>1. UNCHANGED <<conn, interest, batch, queue, stage, task, stale>>
    BY <1>1 DEF Environment, Connect, Send, Hangup, Drain, SigTerm, ClockStep, Clock,
                vars, serverVars, poolVars, historyVars, kernelVars
  <2> QED
    BY <2>1 DEF SInv, Slot, NextSlot, Open, Held, Queued, Processing, Busy, Reported
<1>2. CASE Main
  BY <1>2, MainSlots
<1>3. ASSUME NEW w \in Workers, Worker(w)
      PROVE  SInv'
  <2>0. StaleStays
    BY <1>3, HistoryIs DEF Worker
  <2>1. CASE Respond(w)
    <3>1. Busy' = Busy /\ UNCHANGED <<queue, task, conn, interest, batch>>
      BY <2>1, RespondStep DEF Respond, kernelVars
    <3>2. Reported' = Reported /\ \A d : NextSlot(d) <=> Slot(d)
      BY <3>1 DEF Reported, Slot, NextSlot, Open
    <3> QED
      BY <2>0, <3>1, <3>2, SlotsStay
  <2> QED
    BY <1>3, <2>0, <2>1, StartSlots, LeaveSlots, NoneCloses DEF Worker, Process
<1> QED
  BY <1>1, <1>2, <1>3 DEF Next, Stopped

LEMMA SlotInvariance ==
    ASSUME MaxEmpty = 0
    PROVE  Spec => []SInv
<1>1. Init => SInv
  BY DEF Init, ServerInit, SInv, Busy, Reported
<1>2. IInv /\ SInv /\ [Next]_vars => SInv'
  BY SlotKeeps
<1> QED
  BY <1>1, <1>2, Invariance, PTL DEF Spec

------------------------------------------------------------------------------
(* The limit, and connections left to nobody.                              *)

Limit == userCount <= MaxUsers

LEMMA LimitKeeps == IInv /\ Limit /\ [Next]_vars => Limit'
<1> SUFFICES ASSUME IInv, Limit, [Next]_vars
             PROVE  Limit'
  OBVIOUS
<1>1. userCount \in Int /\ MaxUsers \in Nat
  BY WebServerAssumption DEF IInv, Types, ServerTypeOK
<1>2. CASE TimerHandler
  <2>1. userCount' = userCount - TL!ExpiredPrefix(timerLst, left, 0)
    BY <1>2 DEF TimerHandler, Tick
  <2>2. TL!ExpiredPrefix(timerLst, left, 0) \in 0..Len(timerLst)
    <3>1. timerLst \in Seq(TimerIds) /\ left \in [TimerIds -> Nat]
      BY Constants DEF IInv, Types, ServerTypeOK
    <3> QED
      BY <3>1, ExpiredIs
  <2> QED
    BY <1>1, <2>1, <2>2, LenProperties DEF Limit
<1>3. CASE Accept
  BY <1>1, <1>3 DEF Accept, ServerBusy, Limit
<1>4. ASSUME NEW w \in Workers, CountDown(w)
      PROVE  Limit'
  BY <1>1, <1>4 DEF CountDown, Limit
<1>5. ASSUME NEW fd \in Fds,
             DealHup(fd) \/ DealReadFails(fd) \/ DealWriteEnd(fd)
      PROVE  Limit'
  BY <1>1, <1>5 DEF DealHup, DealReadFails, DealWriteEnd, DealTimer, Limit
<1>6. CASE UNCHANGED userCount
  BY <1>6 DEF Limit
<1> QED
  BY <1>2, <1>3, <1>4, <1>5, <1>6
     DEF Next, Environment, Connect, Send, Hangup, Drain, SigTerm, ClockStep, Clock, Main,
         MainLoop, EpollWait, Refuse, DealSignal, NoTimeout, DealRead, DealWriteKeep,
         DealWritePart, Worker, Process, Start, Take, NoRequest, Respond, NoResponse,
         CloseConn, ForgetSocket, Arm, Stopped, vars, serverVars

\* Whoever takes a connection out of somebody's hands, puts it into another's, arms it
\* or closes it; or the list has no room for it, which is remembered.
LEMMA StillAttended ==
    ASSUME Attended, NEW S,
           \A fd \in refused \cap Open' : interest'[fd] = "off" => fd \in refused',
           \A fd \in Open' \ S :
               /\ fd \in Open
               /\ interest'[fd] = "off" => interest[fd] = "off"
               /\ fd \in Held \cup Reported => fd \in Held' \cup Reported',
           \A fd \in Open' \cap S :
               interest'[fd] = "off" => fd \in Held' \cup Reported' \cup refused'
    PROVE  Attended'
BY DEF Attended, Held

LEMMA OneAttended ==
    ASSUME Attended, NEW fd,
           \A d \in refused \cap Open' : interest'[d] = "off" => d \in refused',
           \A d \in Open' \ {fd} :
               /\ d \in Open
               /\ interest'[d] = "off" => interest[d] = "off"
               /\ d \in Held \cup Reported => d \in Held' \cup Reported',
           fd \in Open' /\ interest'[fd] = "off" => fd \in Held' \cup Reported' \cup refused'
    PROVE  Attended'
<1>1. /\ \A d \in Open' \ {fd} :
            /\ d \in Open
            /\ interest'[d] = "off" => interest[d] = "off"
            /\ d \in Held \cup Reported => d \in Held' \cup Reported'
      /\ \A d \in Open' \cap {fd} :
            interest'[d] = "off" => d \in Held' \cup Reported' \cup refused'
  OBVIOUS
<1> QED
  BY <1>1, StillAttended

LEMMA HandledOne ==
    ASSUME NEW kind, NEW fd, Handle(<<kind, fd>>)
    PROVE  Reported \ {fd} \subseteq Reported'
BY DEF Handle, Reported

LEMMA ClosedAttended ==
    ASSUME IInv, Attended, NEW kind \in {"hup", "in", "out"}, NEW fd \in Fds,
           Handle(<<kind, fd>>), DealTimer(fd), UNCHANGED poolVars, History
    PROVE  Attended'
<1>1. /\ conn' = [d \in Fds |-> IF d = fd THEN None ELSE conn[d]]
      /\ interest' = [d \in Fds |-> IF d = fd THEN "none" ELSE interest[d]]
  BY DEF DealTimer, CloseFds
<1>2. fd \notin Open' /\ \A d \in Open' : d \in Open /\ interest'[d] = interest[d]
  BY <1>1 DEF Open
<1>3. Held' = Held
  BY DEF Held, Queued, Processing, Busy, poolVars
<1>4. \A d \in refused \cap Open' : interest'[d] = "off" => d \in refused'
  BY DEF History, Open
<1> QED
  BY <1>2, <1>3, <1>4, HandledOne, OneAttended

LEMMA MainAttends ==
    ASSUME IInv, Attended, Main
    PROVE  Attended'
<1>0. /\ \A fd \in Open : fd \in Fds /\ fd # 0
      /\ History
      /\ \A fd \in refused \cap Open' : interest'[fd] = "off" => fd \in refused'
  BY Constants DEF Open, Main, History
<1>1. CASE EpollWait /\ UNCHANGED poolVars
  <2>1. /\ batch = {} /\ batch' = Events /\ conn' = conn
        /\ interest' = [fd \in Fds |->
                          IF \E kind \in {"hup", "in", "out"} : <<kind, fd>> \in Events
                          THEN "off" ELSE interest[fd]]
    BY <1>1 DEF EpollWait, IInv, Batch
  <2>2. Open' = Open /\ Held' = Held /\ Reported = {}
    BY <1>1, <2>1 DEF Open, Held, Queued, Processing, Busy, Reported, poolVars
  <2> DEFINE S == {fd \in Fds : \E kind \in {"hup", "in", "out"} : <<kind, fd>> \in Events}
  <2>3. S \subseteq Reported'
    BY <2>1 DEF Reported
  <2>4. \A fd \in Open' \ S : interest'[fd] = interest[fd]
    BY <1>0, <2>1, <2>2
  <2> HIDE DEF S
  <2> QED
    BY <1>0, <2>2, <2>3, <2>4, StillAttended
<1>2. CASE (Refuse \/ DealSignal \/ NoTimeout) /\ UNCHANGED poolVars
  <2>1. conn' = conn /\ interest' = interest /\ Reported \ {0} \subseteq Reported'
    BY <1>2, HandledOne DEF Refuse, DealSignal, NoTimeout, Reported, kernelVars
  <2>2. Open' = Open /\ Held' = Held
    BY <1>2, <2>1 DEF Open, Held, Queued, Processing, Busy, poolVars
  <2> QED
    BY <1>0, <2>1, <2>2, StillAttended
<1>3. CASE Accept /\ UNCHANGED poolVars
  <2> DEFINE new == Lowest(Fds \ Open)
  <2>1. /\ conn' = [conn EXCEPT ![new] = Head(backlog)]
        /\ interest' = [interest EXCEPT ![new] = "in"]
        /\ Reported \ {0} \subseteq Reported'
    BY <1>3, HandledOne DEF Accept
  <2> HIDE DEF new
  <2>2. /\ conn \in [Fds -> Clients \cup {None}]
        /\ interest \in [Fds -> {"none", "off", "in", "out"}]
    BY DEF IInv, Types, ServerTypeOK
  <2>3. /\ \A d \in Open' \ {new} : d \in Open /\ interest'[d] = interest[d]
        /\ interest'[new] # "off" \/ new \notin Open'
    BY <2>1, <2>2 DEF Open
  <2>4. Held' = Held
    BY <1>3 DEF Held, Queued, Processing, Busy, poolVars
  <2> QED
    BY <1>0, <2>1, <2>3, <2>4, OneAttended
<1>4. CASE TimerHandler /\ UNCHANGED poolVars
  <2>1. PICK S : /\ conn' = [fd \in Fds |-> IF fd \in S THEN None ELSE conn[fd]]
                 /\ interest' = [fd \in Fds |-> IF fd \in S THEN "none" ELSE interest[fd]]
    BY <1>4 DEF TimerHandler, Tick, CloseFds
  <2>2. Reported = {} /\ Held' = Held
    BY <1>4 DEF TimerHandler, Reported, Held, Queued, Processing, Busy, poolVars
  <2>3. \A d \in Open' : d \in Open /\ interest'[d] = interest[d]
    BY <2>1 DEF Open
  <2> QED
    BY <1>0, <2>2, <2>3, StillAttended
<1>5. ASSUME NEW fd \in Fds, DealHup(fd), UNCHANGED poolVars
      PROVE  Attended'
  BY <1>0, <1>5, ClosedAttended DEF DealHup
<1>6. ASSUME NEW fd \in Fds, DealReadFails(fd) \/ DealWriteEnd(fd)
      PROVE  Attended'
  BY <1>0, <1>6, ClosedAttended DEF DealReadFails, DealWriteEnd
<1>7. ASSUME NEW fd \in Fds, DealRead(fd)
      PROVE  Attended'
  <2>1. /\ Handle(<<"in", fd>>) /\ Enqueue(fd)
        /\ UNCHANGED <<conn, interest, stage, task>>
    BY <1>7 DEF DealRead, kernelVars
  <2>2. fd \in Open
    BY <2>1, EventIs
  <2>3. Held \subseteq Held' /\ (Len(queue) < MaxRequests => fd \in Held')
    BY <2>1, <2>2, EnqueueIs
  <2>4. Len(queue) >= MaxRequests /\ interest'[fd] = "off" => fd \in refused'
    BY <1>0, <2>1 DEF History, Handle
  <2>5. Len(queue) < MaxRequests \/ Len(queue) >= MaxRequests
    BY Constants, LenProperties DEF IInv, Types
  <2>6. Open' = Open /\ Reported \ {fd} \subseteq Reported'
    BY <2>1, HandledOne DEF Open
  <2>7. /\ \A d \in Open' \ {fd} :
            /\ d \in Open /\ interest'[d] = interest[d]
            /\ d \in Held \cup Reported => d \in Held' \cup Reported'
        /\ interest'[fd] = "off" => fd \in Held' \cup refused'
    BY <2>1, <2>3, <2>4, <2>5, <2>6
  <2> QED
    BY <1>0, <2>7, OneAttended
<1>8. ASSUME NEW fd \in Fds, DealWriteKeep(fd) \/ DealWritePart(fd)
      PROVE  Attended'
  <2>1. /\ Handle(<<"out", fd>>) /\ UNCHANGED <<conn, sock, poolVars>>
        /\ Modfd(sock[fd], "in") \/ Modfd(sock[fd], "out")
    BY <1>8 DEF DealWriteKeep, DealWritePart, InitSlot, userVars
  <2>2. /\ \A d \in Fds \ {fd} : interest'[d] = interest[d]
        /\ fd \in Open => interest'[fd] # "off"
        /\ Open' = Open
    BY <2>1, ArmedStep
  <2>3. Held' = Held /\ Reported \ {fd} \subseteq Reported'
    BY <2>1, HandledOne DEF Held, Queued, Processing, Busy, poolVars
  <2>4. /\ \A d \in Open' \ {fd} :
            /\ d \in Open /\ interest'[d] = interest[d]
            /\ d \in Held \cup Reported => d \in Held' \cup Reported'
        /\ fd \in Open' => interest'[fd] # "off"
    BY <1>0, <2>2, <2>3
  <2> QED
    BY <1>0, <2>4, OneAttended
<1> QED
  BY <1>1, <1>2, <1>3, <1>4, <1>5, <1>6, <1>7, <1>8 DEF Main, MainLoop

LEMMA WorkerAttends ==
    ASSUME IInv, Attended, MaxEmpty = 0, NEW w \in Workers, Worker(w)
    PROVE  Attended'
<1>0. /\ \A fd \in Open : fd \in Fds
      /\ \A fd \in refused \cap Open' : interest'[fd] = "off" => fd \in refused'
  BY DEF Open, Worker, History
<1>1. CASE Start(w) \/ Respond(w)
  <2>1. Held' = Held
    <3>1. CASE Start(w)
      BY <3>1, StartIs
    <3>2. CASE Respond(w)
      BY <3>2, RespondStep DEF Respond, Held, Queued, Processing
    <3> QED
      BY <1>1, <3>1, <3>2
  <2>2. conn' = conn /\ interest' = interest /\ batch' = batch
    BY <1>1 DEF Start, Take, Respond, serverVars, kernelVars
  <2>3. Open' = Open /\ Reported' = Reported
    BY <2>2 DEF Open, Reported
  <2> QED
    BY <1>0, <2>1, <2>2, <2>3, StillAttended
<1>2. CASE NoRequest(w) \/ Arm(w)
  <2> DEFINE fd == task[w].fd
  <2>1. /\ Held \ {fd} \subseteq Held' /\ Open' = Open
        /\ \A d \in Fds \ {fd} : interest'[d] = interest[d]
        /\ fd \in Open => interest'[fd] # "off"
    BY <1>2, LeaveIs
  <2>2. Reported' = Reported
    BY <1>2 DEF NoRequest, Arm, Reported
  <2> HIDE DEF fd
  <2>3. /\ \A d \in Open' \ {fd} :
            /\ d \in Open /\ interest'[d] = interest[d]
            /\ d \in Held \cup Reported => d \in Held' \cup Reported'
        /\ fd \in Open' => interest'[fd] # "off"
    BY <1>0, <2>1, <2>2
  <2> QED
    BY <1>0, <2>3, OneAttended
<1> QED
  BY <1>1, <1>2, NoneCloses DEF Worker, Process

LEMMA AttendedKeeps == MaxEmpty = 0 /\ IInv /\ Attended /\ [Next]_vars => Attended'
<1> SUFFICES ASSUME MaxEmpty = 0, IInv, Attended, [Next]_vars
             PROVE  Attended'
  OBVIOUS
<1>1. CASE (Environment /\ UNCHANGED <<poolVars, historyVars>>) \/ ClockStep \/ UNCHANGED vars
  <2>1. UNCHANGED <<conn, interest, batch, queue, stage, task, refused>>
    BY <1>1 DEF Environment, Connect, Send, Hangup, Drain, SigTerm, ClockStep, Clock,
                vars, serverVars, poolVars, historyVars, kernelVars
  <2> QED
    BY <2>1 DEF Attended, Open, Queued, Processing, Busy, Reported
<1>2. CASE Main
  BY <1>2, MainAttends
<1>3. ASSUME NEW w \in Workers, Worker(w)
      PROVE  Attended'
  BY <1>3, WorkerAttends
<1> QED
  BY <1>1, <1>2, <1>3 DEF Next, Stopped

------------------------------------------------------------------------------
(* What the invariants say to a reader of the code.                        *)

\* The types are kept, the places of the pool's list included.
THEOREM TypeCorrect ==
    ASSUME MaxEmpty = 0
    PROVE  Spec => []TypeOK
<1> DEFINE Histories == stale \cup refused \subseteq Fds
<1>1. Init => Histories
  BY DEF Init
<1>2. Histories /\ [Next]_vars => Histories'
  BY DEF Next, ClockStep, Main, Worker, History, Stopped, vars, historyVars, Open
<1>3. IInv /\ Histories => TypeOK
  BY DEF IInv, Types, Stages, TypeOK
<1> QED
  BY <1>1, <1>2, <1>3, Invariance, PTL DEF Spec

\* A slot is queued or processed once at most, and then the event loop has no event of
\* it nor can get one: EPOLLONESHOT is what keeps m_readBuf and the rest, which no lock
\* protects, in one thread's hands (http_conn.cpp:86-96, webserver.cpp:319-326).  It
\* does so until a tick closes the connection under the worker (timer.cpp:111).
THEOREM SlotHandledOnce ==
    ASSUME MaxEmpty = 0
    PROVE  Spec => []HandledOnce
<1>1. ASSUME SInv
      PROVE  HandledOnce
  <2> SUFFICES ASSUME NEW fd \in Fds \ stale
               PROVE  /\ Holders(fd) <= 1
                      /\ Holders(fd) = 1 => interest[fd] = "off" /\ fd \notin Reported
    BY DEF HandledOnce
  <2> DEFINE Q == {i \in DOMAIN queue : queue[i].fd = fd}
             P == {w \in Busy : task[w].fd = fd}
  <2>1. /\ \A i, j \in Q : i = j
        /\ \A w, u \in P : w = u
        /\ Q = {} \/ P = {}
        /\ Q # {} => fd \in Queued
        /\ P # {} => fd \in Processing
    BY <1>1 DEF SInv, Queued, Processing
  <2>2. \A S : (\A a, b \in S : a = b) => S = {} \/ \E a : S = {a}
    OBVIOUS
  <2>3. Q # {} \/ P # {} => interest[fd] = "off"
    BY <1>1 DEF SInv, Slot
  <2> HIDE DEF Q, P
  <2>4. Cardinality({}) = 0 /\ \A a : Cardinality({a}) = 1
    BY FS_EmptySet, FS_Singleton
  <2>5. Q = {} \/ \E a : Q = {a}
    BY <2>1, <2>2
  <2>6. P = {} \/ \E a : P = {a}
    BY <2>1, <2>2
  <2>7. Cardinality(Q) = IF Q = {} THEN 0 ELSE 1
    BY <2>4, <2>5
  <2>8. Cardinality(P) = IF P = {} THEN 0 ELSE 1
    BY <2>4, <2>6
  <2>9. Holders(fd) = Cardinality(Q) + Cardinality(P)
    BY DEF Holders, Q, P
  <2>10. Holders(fd) <= 1 /\ (Holders(fd) = 1 => fd \in Held /\ interest[fd] = "off")
    BY <2>1, <2>3, <2>7, <2>8, <2>9 DEF Held
  <2>11. fd \in Held => fd \notin Reported
    BY <1>1, Constants DEF SInv
  <2> QED
    BY <2>10, <2>11
<1> QED
  BY <1>1, SlotInvariance, PTL

\* The slot that a worker processes is that of the client whose bytes are in it, though
\* connections come and go, unless a tick has closed the connection meanwhile: only the
\* timers close one that a thread has in hand, an event never does (webserver.cpp:293,
\* 319-325, timer.cpp:111).
THEOREM WorkerServesOwner ==
    ASSUME MaxEmpty = 0
    PROVE  Spec => []ServesOwner
<1>1. SInv => ServesOwner
  BY DEF SInv, ServesOwner
<1> QED
  BY <1>1, SlotInvariance, PTL

\* As many timers as connections, each with its own: no timer outlives its connection
\* (webserver.cpp:180-186, 249-256).
THEOREM OneTimerEach ==
    ASSUME MaxEmpty = 0
    PROVE  Spec => [](TimerPerConnection /\ NoDanglingTimer)
<1>1. ASSUME IInv
      PROVE  TimerPerConnection /\ NoDanglingTimer
  <2>1. /\ \A fd \in Open : usersTimer[fd] \in Used /\ data[usersTimer[fd]] = fd
        /\ \A t \in Used : data[t] \in Open /\ usersTimer[data[t]] = t
    BY <1>1, TimerOf
  <2>2. Elems(timerLst) = Used /\ Distinct(timerLst) /\ timerLst \in Seq(TimerIds)
    BY <1>1 DEF IInv, Timers, Types, ServerTypeOK
  <2>3. \A fd \in Open : \E i \in DOMAIN timerLst : timerLst[i] = usersTimer[fd]
    BY <2>1, <2>2 DEF Elems
  <2>4. Len(timerLst) = Cardinality(Open)
    <3>1. Len(timerLst) = Cardinality(Used)
      BY <2>2, ListCount
    <3>2. IsFiniteSet(Used) /\ IsFiniteSet(Open)
      BY Constants, FS_Subset DEF Used, Open
    <3>3. Cardinality(Open) = Cardinality(Used)
      <4> DEFINE f == [fd \in Open |-> usersTimer[fd]]
      <4>1. f \in Bijection(Open, Used)
        BY <2>1 DEF Bijection, Injection, Surjection, IsInjective
      <4> QED
        BY <4>1, <3>2, FS_Bijection DEF ExistsBijection
    <3> QED
      BY <3>1, <3>3
  <2> QED
    BY <2>1, <2>3, <2>4 DEF TimerPerConnection, NoDanglingTimer
<1> QED
  BY <1>1, Invariance, PTL

\* The count on which the limit of DealClientSituations rests is that of the open
\* descriptors (http_conn.cpp:117, timer.cpp:238).
THEOREM UsersAreCounted ==
    ASSUME MaxEmpty = 0
    PROVE  Spec => []CountMatches
<1>1. IInv => CountMatches
  BY DEF IInv
<1> QED
  BY <1>1, Invariance, PTL

\* The signal handler's tick closes a connection only if nothing of it was read or
\* written for 3 * TIMESLOT (README.md:110, timer.cpp:95-119).
THEOREM IdleAreClosed ==
    ASSUME MaxEmpty = 0
    PROVE  Spec => TickClosesIdleOnly
<1>1. ASSUME IInv, [Next]_vars, timeout, ~timeout'
      PROVE  \A c \in Connected \ Connected' : idle[c] = Slots
  <2>1. CASE TimerHandler /\ UNCHANGED poolVars
    BY <1>1, <2>1, TickStep
  <2>2. TimerHandler /\ UNCHANGED poolVars
    BY <1>1
       DEF Next, Environment, Connect, Send, Hangup, Drain, SigTerm, ClockStep, Clock, Main,
           MainLoop, EpollWait, Refuse, Accept, DealHup, DealSignal, NoTimeout, DealRead,
           DealReadFails, DealWriteKeep, DealWritePart, DealWriteEnd, Worker, Process, Start,
           Take, NoRequest, Respond, NoResponse, CloseConn, ForgetSocket, CountDown, Arm,
           Stopped, vars, serverVars, signalVars
  <2> QED
    BY <2>1, <2>2
<1>2. IInv /\ [Next]_vars =>
        [timeout /\ ~timeout' =>
            \A c \in Connected \ Connected' : idle[c] = Slots]_vars
  BY <1>1
<1> QED
  BY <1>2, Invariance, PTL DEF Spec, TickClosesIdleOnly

\* No connection is left to nobody: one that epoll will not report has an event in the
\* batch, or is queued or processed; or it is one for whose request the list had no room,
\* since DealRead does not look at what AppendProactor returns (webserver.cpp:319-326,
\* threadpool.h:88-102).
THEOREM NobodyIsLeft ==
    ASSUME MaxEmpty = 0
    PROVE  Spec => []Attended
<1>1. Init => Attended
  BY DEF Init, ServerInit, Attended, Open
<1>2. IInv /\ Attended /\ [Next]_vars => Attended'
  BY AttendedKeeps
<1> QED
  BY <1>1, <1>2, Invariance, PTL DEF Spec

\* No more than MaxUsers connections are ever open (webserver.cpp:203, 223).
THEOREM WithinTheLimit ==
    ASSUME MaxEmpty = 0
    PROVE  Spec => [](Cardinality(Open) <= MaxUsers)
<1>1. Init => Limit
  BY WebServerAssumption DEF Init, ServerInit, Limit
<1>2. IInv /\ Limit /\ [Next]_vars => Limit'
  BY LimitKeeps
<1>3. IInv /\ Limit => Cardinality(Open) <= MaxUsers
  BY DEF IInv, CountMatches, Limit
<1> QED
  BY <1>1, <1>2, <1>3, Invariance, PTL DEF Spec

------------------------------------------------------------------------------
(* The reactor: the event loop and the worker it spins for hand a slot to and   *)
(* fro.  RInv says in which of three places the slot is.                        *)

Doing == {w \in Workers : stage[w] = "io"}

\* Where the slot is that the event loop spins on.
InQueue ==
    /\ \E item : queue = <<item>> /\ item.fd = spin
    /\ Doing = {} /\ improv[spin] = 0
WithWorker ==
    /\ queue = <<>>
    /\ \E w \in Workers : Doing = {w} /\ task[w].fd = spin
    /\ improv[spin] = 0
HandedBack == queue = <<>> /\ Doing = {} /\ improv[spin] = 1

FlagTypes ==
    /\ actorModel \in {0, 1} /\ poolModel \in {0, 1}
    /\ spin \in Fds \cup {0}
    /\ improv \in [Fds -> {0, 1}]
    /\ stage \in [Workers -> Stages]
    /\ task = [w \in Workers |-> task[w]]

Handover ==
    /\ \A fd \in Fds \ {spin} : improv[fd] = 0
    /\ IF spin = 0 THEN queue = <<>> /\ Doing = {}
       ELSE InQueue \/ WithWorker \/ HandedBack

BothReactor == actorModel = 1 /\ poolModel = 1
RInv == FlagTypes /\ (BothReactor => Handover)

------------------------------------------------------------------------------
\* Steps that leave the handover alone.
LEMMA ApartStep ==
    ASSUME RInv, UNCHANGED <<queue, task, stage, actorModel, poolModel, spin, improv>>
    PROVE  RInv'
BY DEF RInv, FlagTypes, BothReactor, Handover, InQueue, WithWorker, HandedBack, Doing

\* What both models of the event loop do (webserver.cpp:366-421): improv is reset in the
\* slot of a new connection only, and nobody waits for it then.
LEMMA LoopKeeps ==
    ASSUME RInv, spin = 0, LoopStep
    PROVE  RInv'
<1>1. UNCHANGED <<queue, task, stage, actorModel, poolModel, spin>>
  BY DEF LoopStep, poolVars
<1>2. improv' \in [Fds -> {0, 1}]
      /\ \A fd \in Fds : improv[fd] = 0 => improv'[fd] = 0
  BY DEF LoopStep, InitFlags, RInv, FlagTypes
<1>3. FlagTypes'
  BY <1>1, <1>2 DEF RInv, FlagTypes
<1>4. ASSUME BothReactor
      PROVE  Handover'
  BY <1>1, <1>2, <1>4 DEF RInv, Handover, Doing
<1> QED
  BY <1>1, <1>3, <1>4 DEF RInv, BothReactor

\* The event loop deals with its events by itself: not as a reactor.
LEMMA ProactorKeeps ==
    ASSUME RInv, NEW fd \in Fds, ProactorStep(fd)
    PROVE  RInv'
<1>1. actorModel = 0 /\ UNCHANGED <<actorModel, poolModel, spin, stage, task>>
  BY DEF ProactorStep, DealRead, DealReadFails, DealWritePart, DealWriteEnd,
         DealWriteKeep, poolVars
<1>2. improv' \in [Fds -> {0, 1}]
  BY DEF ProactorStep, flagVars, InitFlags, RInv, FlagTypes
<1> QED
  BY <1>1, <1>2 DEF RInv, FlagTypes, BothReactor

\* DealRead and DealWrite: Append finds room, for nothing else is queued
\* (webserver.cpp:293-303, 337-345).
LEMMA DealHandsOver ==
    ASSUME RInv, spin = 0, NEW fd \in Fds, NEW kind \in {"in", "out"}, Deal(fd, kind)
    PROVE  RInv'
<1>1. /\ UNCHANGED <<task, stage, actorModel, poolModel, improv>>
      /\ spin' = fd /\ Enqueue(fd)
  BY DEF Deal, AppendReactor
<1>2. FlagTypes'
  BY <1>1 DEF RInv, FlagTypes
<1>3. ASSUME BothReactor
      PROVE  Handover'
  <2>1. queue = <<>> /\ Doing = {} /\ \A d \in Fds : improv[d] = 0
    BY <1>3, Constants DEF RInv, Handover
  <2>2. queue' = <<[fd |-> fd, client |-> conn[fd]]>>
    BY <1>1, <2>1, Constants DEF Enqueue
  <2>3. InQueue'
    BY <1>1, <2>1, <2>2 DEF InQueue, Doing
  <2> QED
    BY <1>1, <2>1, <2>3, Constants DEF Handover
<1> QED
  BY <1>1, <1>2, <1>3 DEF RInv, BothReactor

\* The event loop is let go (webserver.cpp:305-313, 347-354).
LEMMA SpinEndKeeps ==
    ASSUME RInv, SpinEnd
    PROVE  RInv'
<1>1. /\ spin # 0 /\ improv[spin] = 1 /\ spin' = 0
      /\ improv' = [improv EXCEPT ![spin] = 0]
      /\ UNCHANGED <<queue, task, stage, actorModel, poolModel>>
  BY DEF SpinEnd, poolVars
<1>2. FlagTypes'
  BY <1>1 DEF RInv, FlagTypes
<1>3. ASSUME BothReactor
      PROVE  Handover'
  <2>1. HandedBack
    BY <1>1, <1>3 DEF RInv, Handover, InQueue, WithWorker
  <2>2. \A fd \in Fds : improv'[fd] = 0
    BY <1>1, <1>3 DEF RInv, Handover, FlagTypes
  <2> QED
    BY <1>1, <2>1, <2>2 DEF Handover, HandedBack, Doing
<1> QED
  BY <1>1, <1>2, <1>3 DEF RInv, BothReactor

\* A worker takes the slot that is queued (threadpool.h:116-126).
LEMMA RStartKeeps ==
    ASSUME RInv, NEW w \in Workers, RStart(w)
    PROVE  RInv'
<1>1. /\ stage[w] = "idle" /\ queue # <<>> /\ queue' = Tail(queue)
      /\ task' = [task EXCEPT ![w] = Head(queue)]
      /\ stage' = [stage EXCEPT ![w] = IF poolModel = 1 THEN "io" ELSE "process"]
      /\ UNCHANGED <<actorModel, poolModel, spin, improv>>
  BY DEF RStart, Take, reactorVars, flagVars
<1>2. FlagTypes'
  <2>1. stage' \in [Workers -> Stages]
    BY <1>1 DEF RInv, FlagTypes, Stages
  <2>2. task' = [u \in Workers |-> task'[u]]
    <3>1. PICK item : item = Head(queue)
      OBVIOUS
    <3> QED
      BY <1>1, <3>1 DEF RInv, FlagTypes
  <2> QED
    BY <1>1, <2>1, <2>2 DEF RInv, FlagTypes
<1>3. ASSUME BothReactor
      PROVE  Handover'
  <2>1. spin # 0 /\ InQueue
    BY <1>1, <1>3 DEF RInv, Handover, WithWorker, HandedBack
  <2>2. PICK item : queue = <<item>> /\ item.fd = spin
    BY <2>1 DEF InQueue
  <2>3. queue' = <<>> /\ task'[w].fd = spin
    BY <1>1, <2>2 DEF RInv, FlagTypes
  <2>4. Doing' = {w}
    BY <1>1, <1>3, <2>1 DEF Doing, InQueue, BothReactor, RInv, FlagTypes
  <2>5. WithWorker'
    BY <1>1, <2>1, <2>3, <2>4 DEF WithWorker, InQueue
  <2> QED
    BY <1>1, <1>3, <2>1, <2>5 DEF RInv, Handover
<1> QED
  BY <1>1, <1>2, <1>3 DEF RInv, BothReactor

\* A worker has read or written: it sets improv, and has nothing more to do with the
\* handover (threadpool.h:136-162).
LEMMA ImproveKeeps ==
    ASSUME RInv, NEW w \in Workers, stage[w] = "io", Improve(w),
           NEW place \in {"idle", "process", "flag"},
           stage' = [stage EXCEPT ![w] = place],
           task' \in {task, [task EXCEPT ![w] = NoTask]},
           UNCHANGED <<queue, actorModel, poolModel, spin>>
    PROVE  RInv'
<1>1. task' = [u \in Workers |-> task'[u]]
  <2>1. \A v : [task EXCEPT ![w] = v] = [u \in Workers |-> [task EXCEPT ![w] = v][u]]
    BY DEF RInv, FlagTypes
  <2> QED
    BY <2>1 DEF RInv, FlagTypes
<1>2. FlagTypes'
  <2>1. improv' \in [Fds -> {0, 1}]
    BY DEF RInv, FlagTypes, Improve
  <2>2. stage' \in [Workers -> Stages]
    BY DEF RInv, FlagTypes, Stages
  <2> QED
    BY <1>1, <2>1, <2>2 DEF RInv, FlagTypes
<1>3. ASSUME BothReactor
      PROVE  Handover'
  <2>1. w \in Doing
    BY DEF Doing
  <2>2. spin # 0 /\ queue = <<>> /\ Doing = {w} /\ task[w].fd = spin
    BY <1>3, <2>1 DEF RInv, Handover, InQueue, WithWorker, HandedBack
  <2>3. /\ improv'[spin] = 1
        /\ \A fd \in Fds \ {spin} : improv'[fd] = 0
    BY <1>3, <2>2 DEF Improve, RInv, FlagTypes, Handover
  <2>4. Doing' = {}
    BY <2>2 DEF Doing, RInv, FlagTypes
  <2> QED
    BY <2>2, <2>3, <2>4 DEF Handover, HandedBack
<1> QED
  BY <1>2, <1>3 DEF RInv, BothReactor

\* What a worker does in Process, and when it sets timerFlag after improv.
LEMMA LaterKeeps ==
    ASSUME RInv, NEW w \in Workers, stage[w] # "io",
           NEW place \in {"idle", "close", "forget", "count", "arm"},
           stage' = [stage EXCEPT ![w] = place],
           task' \in {task, [task EXCEPT ![w] = NoTask]},
           UNCHANGED <<queue, actorModel, poolModel, spin, improv>>
    PROVE  RInv'
<1>1. task' = [u \in Workers |-> task'[u]]
  <2>1. \A v : [task EXCEPT ![w] = v] = [u \in Workers |-> [task EXCEPT ![w] = v][u]]
    BY DEF RInv, FlagTypes
  <2> QED
    BY <2>1 DEF RInv, FlagTypes
<1>2. FlagTypes'
  <2>1. stage' \in [Workers -> Stages]
    BY DEF RInv, FlagTypes, Stages
  <2> QED
    BY <1>1, <2>1 DEF RInv, FlagTypes
<1>3. Doing' = Doing /\ \A u \in Doing : task'[u] = task[u]
  BY DEF Doing, RInv, FlagTypes
<1>4. ASSUME BothReactor
      PROVE  Handover'
  BY <1>3, <1>4 DEF RInv, Handover, InQueue, WithWorker, HandedBack
<1> QED
  BY <1>2, <1>4 DEF RInv, BothReactor

LEMMA RWorkerKeeps ==
    ASSUME RInv, NEW w \in Workers, RWorker(w)
    PROVE  RInv'
<1>1. CASE RStart(w)
  BY <1>1, RStartKeeps
<1>2. CASE ReadOk(w) \/ ReadFails(w) \/ WriteKeep(w) \/ WritePart(w) \/ WriteEnd(w)
             \/ WriteFails(w)
  <2>1. /\ stage[w] = "io" /\ Improve(w)
        /\ UNCHANGED <<queue, actorModel, poolModel, spin>>
    BY <1>2 DEF ReadOk, ReadFails, WriteKeep, WritePart, WriteEnd, WriteFails, Reads,
                Writes, Fail, Leave
  <2>2. \E place \in {"idle", "process", "flag"} : stage' = [stage EXCEPT ![w] = place]
    BY <1>2 DEF ReadOk, ReadFails, WriteKeep, WritePart, WriteEnd, WriteFails, Fail, Leave
  <2>3. task' \in {task, [task EXCEPT ![w] = NoTask]}
    BY <1>2 DEF ReadOk, ReadFails, WriteKeep, WritePart, WriteEnd, WriteFails, Fail, Leave
  <2> QED
    BY <2>1, <2>2, <2>3, ImproveKeeps
<1>3. CASE SetTimerFlag(w) \/ (Process(w) /\ UNCHANGED reactorVars)
  <2>1. /\ stage[w] # "io"
        /\ UNCHANGED <<queue, actorModel, poolModel, spin, improv>>
    BY <1>3 DEF SetTimerFlag, Process, NoRequest, Respond, NoResponse, CloseConn,
                ForgetSocket, CountDown, Arm, Leave, reactorVars, flagVars
  <2>2. \E place \in {"idle", "close", "forget", "count", "arm"} :
            stage' = [stage EXCEPT ![w] = place]
    BY <1>3 DEF SetTimerFlag, Process, NoRequest, Respond, NoResponse, CloseConn,
                ForgetSocket, CountDown, Arm, Leave
  <2>3. task' \in {task, [task EXCEPT ![w] = NoTask]}
    BY <1>3 DEF SetTimerFlag, Process, NoRequest, Respond, NoResponse, CloseConn,
                ForgetSocket, CountDown, Arm, Leave
  <2> QED
    BY <2>1, <2>2, <2>3, LaterKeeps
<1> QED
  BY <1>1, <1>2, <1>3 DEF RWorker

LEMMA RInitInv == RInit => RInv
<1> SUFFICES ASSUME RInit
             PROVE  RInv
  OBVIOUS
<1>1. FlagTypes
  BY DEF RInit, Init, FlagTypes, Stages
<1>2. Handover
  BY DEF RInit, Init, Handover, Doing
<1> QED
  BY <1>1, <1>2 DEF RInv

LEMMA RInvariance == RSpec => []RInv
<1>1. RInv /\ [RNext]_rvars => RInv'
  <2> SUFFICES ASSUME RInv, [RNext]_rvars
               PROVE  RInv'
    OBVIOUS
  <2>1. CASE Environment /\ UNCHANGED <<poolVars, historyVars, reactorVars>>
    BY <2>1, ApartStep DEF poolVars, reactorVars, flagVars
  <2>2. CASE RClock
    BY <2>2, ApartStep DEF RClock, ClockStep, poolVars, reactorVars, flagVars
  <2>3. CASE RMain
    <3>1. CASE spin = 0 /\ LoopStep
      BY <3>1, LoopKeeps
    <3>2. CASE \E fd \in Fds : ProactorStep(fd)
      BY <3>2, ProactorKeeps
    <3>3. CASE spin = 0 /\ \E fd \in Fds : Deal(fd, "in") \/ Deal(fd, "out")
      BY <3>3, DealHandsOver
    <3>4. CASE SpinEnd
      BY <3>4, SpinEndKeeps
    <3> QED
      BY <2>3, <3>1, <3>2, <3>3, <3>4 DEF RMain
  <2>4. CASE \E w \in Workers : RWorker(w)
    BY <2>4, RWorkerKeeps
  <2>5. CASE UNCHANGED rvars
    BY <2>5, ApartStep DEF rvars, vars, poolVars, reactorVars, flagVars
  <2> QED
    BY <2>1, <2>2, <2>3, <2>4, <2>5 DEF RNext
<1> QED
  BY <1>1, RInitInv, PTL DEF RSpec

\* For any number of workers, descriptors and places in the list: while the event loop
\* of a reactor spins, exactly one thread has its slot, and no other slot is in anybody's
\* hands to be read or written (webserver.cpp:301-314, 343-354, threadpool.h:132-163).
THEOREM SlotIsHandedOver == RSpec => []HandedOver
<1>1. ASSUME RInv
      PROVE  HandedOver
  <2> SUFFICES ASSUME BothReactor
               PROVE  /\ \A fd \in Fds \ {spin} : improv[fd] = 0
                      /\ \A i \in DOMAIN queue : queue[i].fd = spin
                      /\ \A w \in Workers : stage[w] = "io" => task[w].fd = spin
                      /\ spin # 0 =>
                          improv[spin] + Len(queue) + Cardinality(Doing) = 1
    BY DEF HandedOver, BothReactor, Doing
  <2>1. Handover
    BY <1>1 DEF RInv
  <2>2. /\ Cardinality({}) = 0
        /\ \A w \in Workers : Doing = {w} => Cardinality(Doing) = 1
    BY FS_EmptySet, FS_Singleton
  <2>3. CASE spin = 0
    BY <2>1, <2>3 DEF Handover, Doing
  <2>4. CASE spin # 0 /\ InQueue
    <3>1. Doing = {} /\ Cardinality(Doing) = 0 /\ improv[spin] = 0
      BY <2>2, <2>4 DEF InQueue
    <3>2. PICK item : queue = <<item>> /\ item.fd = spin
      BY <2>4 DEF InQueue
    <3>3. Len(queue) = 1 /\ DOMAIN queue = {1} /\ queue[1].fd = spin
      BY <3>2
    <3>4. \A w \in Workers : stage[w] # "io"
      BY <3>1 DEF Doing
    <3> QED
      BY <2>1, <3>1, <3>3, <3>4 DEF Handover
  <2>5. CASE spin # 0 /\ WithWorker
    <3>1. PICK w \in Workers : Doing = {w} /\ task[w].fd = spin
      BY <2>5 DEF WithWorker
    <3>2. \A u \in Workers : stage[u] = "io" => u = w
      BY <3>1 DEF Doing
    <3>3. /\ Len(queue) = 0 /\ DOMAIN queue = {} /\ improv[spin] = 0
          /\ Cardinality(Doing) = 1
      <4>1. Cardinality(Doing) = 1
        BY <2>2, <3>1, Zenon
      <4> QED
        BY <2>5, <4>1 DEF WithWorker
    <3>4. \A u \in Workers : stage[u] = "io" => task[u].fd = spin
      BY <3>1, <3>2
    <3>5. improv[spin] + Len(queue) + Cardinality(Doing) = 1
      BY <3>3
    <3> QED
      BY <2>1, <3>3, <3>4, <3>5 DEF Handover
  <2>6. CASE spin # 0 /\ HandedBack
    <3>1. /\ Len(queue) = 0 /\ DOMAIN queue = {} /\ improv[spin] = 1
          /\ Doing = {} /\ Cardinality(Doing) = 0
      BY <2>2, <2>6 DEF HandedBack
    <3>2. \A w \in Workers : stage[w] # "io"
      BY <3>1 DEF Doing
    <3> QED
      BY <2>1, <3>1, <3>2 DEF Handover
  <2> QED
    BY <2>1, <2>3, <2>4, <2>5, <2>6 DEF Handover
<1> QED
  BY <1>1, RInvariance, PTL

------------------------------------------------------------------------------
(* Both models, with empty files among the pages: whoever may close a          *)
(* connection while another thread has its slot, its timer can be refreshed.   *)
(* TInv leaves out the slots, the counter and the clients of timers, which an  *)
(* empty file spoils.                                                          *)

\* The descriptors for whose timer the event loop may still go.
Reachable == Open \cup {fd \in Fds : fd = spin \/ \E e \in batch : e[2] = fd}
Refreshable ==
    \A fd \in Reachable : usersTimer[fd] \in TimerIds /\ data[usersTimer[fd]] = fd

Listed == Distinct(timerLst) /\ Elems(timerLst) = Used
Registered == \A fd \in Fds \ Open : interest[fd] = "none"

\* A descriptor has one event to handle at most, and none if the loop spins on it.
Turns ==
    /\ mainpc # "loop" => batch = {}
    /\ \A e, f \in batch : e[2] = f[2] /\ e[2] # 0 => e = f
    /\ <<"listen", 0>> \in batch => backlog # <<>>
    /\ spin # 0 => \A e \in batch : e[2] # spin

TTypes ==
    /\ backlog \in Seq(Clients)
    /\ conn \in [Fds -> Clients \cup {None}]
    /\ interest \in [Fds -> {"none", "off", "in", "out"}]
    /\ timerLst \in Seq(TimerIds)
    /\ left \in [TimerIds -> Nat]
    /\ data \in [TimerIds -> Fds \cup {0}]
    /\ usersTimer \in [Fds -> TimerIds \cup {0}]
    /\ spin \in Fds \cup {0}

TInv == TTypes /\ Registered /\ Peers /\ Room /\ Listed /\ Turns /\ Refreshable

\* A timer that can be refreshed is in the list.
LEMMA ReachableUsed ==
    ASSUME TInv, NEW fd \in Reachable
    PROVE  fd \in Fds /\ fd # 0 /\ usersTimer[fd] \in Used
<1>1. fd \in Fds /\ fd # 0
  BY Constants DEF Reachable, Open
<1> QED
  BY <1>1 DEF TInv, Refreshable, Used

\* The descriptor of an event, of which no other is left.
LEMMA EventLeft ==
    ASSUME TInv, NEW kind \in {"hup", "in", "out"}, NEW fd \in Fds, Handle(<<kind, fd>>)
    PROVE  /\ fd \in Reachable /\ mainpc = "loop"
           /\ batch' \subseteq batch /\ \A e \in batch' : e[2] # fd
<1>1. /\ <<kind, fd>> \in batch /\ batch' = batch \ {<<kind, fd>>}
      /\ mainpc = "loop" /\ fd # 0
  BY Constants DEF Handle
<1>2. \A e \in batch : e[2] = fd => e = <<kind, fd>>
  BY <1>1 DEF TInv, Turns
<1> QED
  BY <1>1, <1>2 DEF Reachable


\* What a step does to the registrations that neither opens nor closes a connection.
OnlyArms ==
    /\ interest' \in [Fds -> {"none", "off", "in", "out"}]
    /\ \A fd \in Fds : interest[fd] = "none" => interest'[fd] = "none"

LEMMA ModArms ==
    ASSUME TInv, NEW fd, NEW ev \in {"in", "out"}, Modfd(fd, ev)
    PROVE  OnlyArms
BY DEF Modfd, OnlyArms, TInv, TTypes

LEMMA SameArms ==
    ASSUME TInv, UNCHANGED interest
    PROVE  OnlyArms
BY DEF OnlyArms, TInv, TTypes

\* Steps that leave the connections and the timers in the list, whatever their age and
\* their order.
LEMMA TimersStay ==
    ASSUME TInv, OnlyArms, left' \in [TimerIds -> Nat], timerLst' \in Seq(TimerIds),
           Distinct(timerLst'), Elems(timerLst') = Elems(timerLst),
           UNCHANGED <<backlog, conn, data, usersTimer, mainpc>>,
           batch' \subseteq batch, spin' \in Reachable \cup {0},
           spin' # 0 => \A e \in batch' : e[2] # spin'
    PROVE  TInv'
<1>1. Open' = Open /\ Used' = Used /\ Free' = Free
  BY DEF Open, Used, Free
<1>2. TTypes'
  BY DEF TInv, TTypes, OnlyArms, Reachable, Open
<1>3. Registered'
  BY <1>1 DEF TInv, Registered, OnlyArms
<1>4. Peers' /\ Room'
  BY <1>1, Frame DEF TInv, Room
<1>5. Listed'
  BY <1>1 DEF TInv, Listed, Elems, Distinct
<1>6. Turns'
  BY DEF TInv, Turns
<1>7. Refreshable'
  <2>1. Reachable' \subseteq Reachable
    BY <1>1, Constants DEF Reachable
  <2> QED
    BY <2>1 DEF TInv, Refreshable
<1> QED
  BY <1>2, <1>3, <1>4, <1>5, <1>6, <1>7 DEF TInv

\* The timers are left as they are.
LEMMA ArmKeeps ==
    ASSUME TInv, OnlyArms, left' \in [TimerIds -> Nat],
           UNCHANGED <<backlog, conn, timerLst, data, usersTimer, mainpc, spin>>,
           batch' \subseteq batch
    PROVE  TInv'
<1>1. /\ timerLst' \in Seq(TimerIds)
      /\ Distinct(timerLst') /\ Elems(timerLst') = Elems(timerLst)
  BY DEF TInv, TTypes, Listed
<1>2. /\ spin' \in Reachable \cup {0}
      /\ spin' # 0 => \A e \in batch' : e[2] # spin'
  BY DEF TInv, TTypes, Turns, Reachable
<1> QED
  BY <1>1, <1>2, TimersStay

\* The timer of a descriptor that was read or written, or is to be, starts again.
LEMMA AdjustKeeps ==
    ASSUME TInv, OnlyArms, NEW fd \in Reachable, AdjustTimer(fd),
           UNCHANGED <<backlog, conn, mainpc>>, batch' \subseteq batch,
           spin' \in {0, fd}, \A e \in batch' : e[2] # fd
    PROVE  TInv'
<1> DEFINE timer == usersTimer[fd]
           longer == [left EXCEPT ![timer] = Slots]
           moved == TL!AdjustTimer(timerLst, timer, longer)
<1>1. timer \in Used /\ timer \in Elems(timerLst)
  BY ReachableUsed DEF TInv, Listed
<1>2. longer \in [TimerIds -> Nat]
  BY <1>1, Constants DEF TInv, TTypes
<1>3. left' = longer /\ timerLst' = moved /\ UNCHANGED <<data, usersTimer>>
  BY DEF AdjustTimer
<1>4. timerLst \in Seq(TimerIds) /\ Distinct(timerLst)
  BY DEF TInv, TTypes, Listed
<1> HIDE DEF timer, longer
<1>5. moved \in Seq(TimerIds) /\ Elems(moved) = Elems(timerLst) /\ Distinct(moved)
  BY <1>1, <1>2, <1>4, AdjustIs
<1> HIDE DEF moved
<1>6. /\ left' \in [TimerIds -> Nat] /\ timerLst' \in Seq(TimerIds)
      /\ Distinct(timerLst') /\ Elems(timerLst') = Elems(timerLst)
      /\ spin' \in Reachable \cup {0}
      /\ spin' # 0 => \A e \in batch' : e[2] # spin'
      /\ UNCHANGED <<backlog, conn, data, usersTimer, mainpc>>
  BY <1>2, <1>3, <1>5
<1> QED
  BY <1>6, TimersStay

\* Connections are closed, some with their timers and some without: no descriptor that
\* can still be reached loses its timer.
LEMMA CloseLeaves ==
    ASSUME TInv, NEW S, NEW T \in SUBSET TimerIds, CloseFds(S), FreeTimers(T),
           timerLst' \in Seq(TimerIds), Distinct(timerLst'),
           Elems(timerLst') = Elems(timerLst) \ T,
           \A fd \in Reachable' : fd \in Reachable /\ usersTimer[fd] \notin T,
           Turns', spin' \in Fds \cup {0}, UNCHANGED usersTimer
    PROVE  TInv'
<1>1. /\ conn' = [fd \in Fds |-> IF fd \in S THEN None ELSE conn[fd]]
      /\ interest' = [fd \in Fds |-> IF fd \in S THEN "none" ELSE interest[fd]]
      /\ backlog' = backlog
      /\ data' = [t \in TimerIds |-> IF t \in T THEN 0 ELSE data[t]]
      /\ left' = [t \in TimerIds |-> IF t \in T THEN 0 ELSE left[t]]
  BY DEF CloseFds, FreeTimers
<1>2. Open' = Open \ S /\ \A fd \in Open' : conn'[fd] = conn[fd]
  BY <1>1 DEF Open
<1>3. /\ Used' = Used \ T /\ Free \subseteq Free'
      /\ \A t \in Used \ T : data'[t] = data[t]
  BY <1>1 DEF Used, Free
<1>4. TTypes'
  BY <1>1 DEF TInv, TTypes
<1>5. Registered'
  BY <1>1, <1>2 DEF TInv, Registered
<1>6. Peers'
  <2>1. Connected' \subseteq Connected
    BY <1>2 DEF Connected
  <2>2. Waiting' \cap Connected' = {}
    BY <1>1, <2>1 DEF TInv, Peers, Waiting
  <2>3. \A c, d \in Open' : conn'[c] = conn'[d] => c = d
    BY <1>2 DEF TInv, Peers
  <2> QED
    BY <1>1, <2>2, <2>3 DEF TInv, Peers
<1>7. Room'
  <2>1. IsFiniteSet(Free')
    BY Constants, FS_Subset DEF Free
  <2>2. IsFiniteSet(Free) /\ Cardinality(Free) <= Cardinality(Free')
    BY <1>3, <2>1, FS_Subset
  <2>3. /\ Cardinality(Free) \in Nat /\ Cardinality(Free') \in Nat
        /\ Len(backlog) \in Nat /\ Len(backlog) <= Cardinality(Free)
    BY <2>1, <2>2, FS_CardinalityType, LenProperties DEF TInv, Room, TTypes
  <2>4. Len(backlog) <= Cardinality(Free')
    BY <2>2, <2>3
  <2> QED
    BY <1>1, <2>4 DEF Room
<1>8. Listed'
  <2>1. Elems(timerLst') = Used'
    BY <1>3 DEF TInv, Listed
  <2> QED
    BY <2>1 DEF Listed, Elems, Distinct
<1>9. Refreshable'
  <2> SUFFICES ASSUME NEW fd \in Reachable'
               PROVE  usersTimer'[fd] \in TimerIds /\ data'[usersTimer'[fd]] = fd
    BY DEF Refreshable
  <2>1. usersTimer[fd] \in Used \ T /\ data[usersTimer[fd]] = fd
    BY ReachableUsed DEF TInv, Refreshable
  <2> QED
    BY <1>3, <2>1 DEF Used
<1> QED
  BY <1>4, <1>5, <1>6, <1>7, <1>8, <1>9 DEF TInv

\* DealTimer, for an event or when the loop has seen timerFlag.
LEMMA DealTimerKeeps ==
    ASSUME TInv, NEW fd \in Reachable, DealTimer(fd), UNCHANGED mainpc,
           batch' \subseteq batch, spin' = 0, \A e \in batch' : e[2] # fd
    PROVE  TInv'
<1> DEFINE timer == usersTimer[fd]
           shorter == TL!DelTimer(timerLst, timer)
<1>1. /\ CloseFds({fd}) /\ FreeTimers({timer})
      /\ timerLst' = shorter /\ usersTimer' = usersTimer
  BY DEF DealTimer
<1>2. timer \in Used /\ timer \in Elems(timerLst)
  BY ReachableUsed DEF TInv, Listed
<1>3. timerLst \in Seq(TimerIds) /\ Distinct(timerLst)
  BY DEF TInv, TTypes, Listed
<1>4. data[timer] = fd /\ fd # 0
  BY ReachableUsed DEF TInv, Refreshable
<1> HIDE DEF timer
<1>5. /\ shorter \in Seq(TimerIds) /\ Distinct(shorter)
      /\ Elems(shorter) = Elems(timerLst) \ {timer}
  BY <1>2, <1>3, DelIs
<1> HIDE DEF shorter
<1>6. Open' = Open \ {fd} /\ backlog' = backlog
  BY <1>1, Constants DEF CloseFds, Open
<1>7. \A d \in Reachable' : d \in Reachable /\ d # fd
  BY <1>6, Constants DEF Reachable
<1>8. \A d \in Reachable' : d \in Reachable /\ usersTimer[d] \notin {timer}
  BY <1>4, <1>7 DEF TInv, Refreshable
<1>9. Turns'
  BY <1>6 DEF TInv, Turns
<1>10. {timer} \in SUBSET TimerIds
  BY <1>2 DEF Used
<1> QED
  BY <1>1, <1>5, <1>8, <1>9, <1>10, CloseLeaves

\* CloseConn, by a worker: the timer stays, to close the descriptor again.
LEMMA WorkerCloseKeeps ==
    ASSUME TInv, NEW S, CloseFds(S), UNCHANGED <<timerVars, mainpc, batch, spin>>
    PROVE  TInv'
<1>1. FreeTimers({})
  BY DEF FreeTimers, TInv, TTypes, timerVars
<1>2. /\ timerLst' \in Seq(TimerIds) /\ Distinct(timerLst')
      /\ Elems(timerLst') = Elems(timerLst) \ {} /\ usersTimer' = usersTimer
      /\ spin' \in Fds \cup {0} /\ {} \in SUBSET TimerIds
  BY DEF TInv, TTypes, Listed, timerVars
<1>3. Open' \subseteq Open /\ backlog' = backlog
  BY DEF CloseFds, Open
<1>4. \A fd \in Reachable' : fd \in Reachable /\ usersTimer[fd] \notin {}
  BY <1>3 DEF Reachable
<1>5. Turns'
  BY <1>3 DEF TInv, Turns
<1> QED
  BY <1>1, <1>2, <1>4, <1>5, CloseLeaves

\* A tick, after the events: the descriptors it closes are those of the timers it runs,
\* among them perhaps a descriptor that has another timer by now.
LEMMA TTickKeeps ==
    ASSUME TInv, Tick, batch = {}, batch' = {}, spin = 0, spin' = 0
    PROVE  TInv'
<1> DEFINE n == TL!ExpiredPrefix(timerLst, left, 0)
           a == SubSeq(timerLst, 1, n)
           b == SubSeq(timerLst, n + 1, Len(timerLst))
           dead == {timerLst[i] : i \in 1..n}
           S == {data[t] : t \in dead}
<1>1. /\ CloseFds(S) /\ FreeTimers(dead)
      /\ timerLst' = b /\ usersTimer' = usersTimer
  BY DEF Tick
<1>2. timerLst \in Seq(TimerIds) /\ Distinct(timerLst) /\ left \in [TimerIds -> Nat]
  BY DEF TInv, TTypes, Listed
<1>3. n \in 0..Len(timerLst)
  BY <1>2, ExpiredIs
<1> HIDE DEF n
<1>4. /\ a \in Seq(TimerIds) /\ b \in Seq(TimerIds) /\ timerLst = a \o b
      /\ Len(a) = n /\ \A j \in 1..n : a[j] = timerLst[j]
  BY <1>2, <1>3, SplitAt, ZenonT(40)
<1>5. Elems(a) = dead
  <2> HIDE DEF a
  <2>1. DOMAIN a = 1..n
    BY <1>4, LenProperties
  <2> QED
    BY <1>4, <2>1 DEF Elems
<1> HIDE DEF a, b
<1>6. /\ Elems(timerLst) = Elems(a) \cup Elems(b)
      /\ Distinct(b) /\ Elems(a) \cap Elems(b) = {}
  BY <1>2, <1>4, ConcatElems
<1> HIDE DEF dead
<1>7. /\ Distinct(timerLst') /\ timerLst' \in Seq(TimerIds)
      /\ Elems(timerLst') = Elems(timerLst) \ dead
      /\ dead \in SUBSET TimerIds
  <2>1. Elems(timerLst) \in SUBSET TimerIds
    BY DEF TInv, Listed, Used
  <2> QED
    BY <1>1, <1>4, <1>5, <1>6, <2>1
<1>8. Open' = Open \ S /\ backlog' = backlog
  BY <1>1 DEF CloseFds, Open
<1>9. Reachable' = Open' /\ Reachable = Open
  BY Constants DEF Reachable
<1>10. \A fd \in Reachable' : fd \in Reachable /\ usersTimer[fd] \notin dead
  BY <1>8, <1>9 DEF TInv, Refreshable
<1>11. Turns'
  BY DEF Turns
<1> HIDE DEF S
<1> QED
  BY <1>1, <1>7, <1>10, <1>11, CloseLeaves

LEMMA TConnectKeeps ==
    ASSUME TInv, NEW c \in Clients, Connect(c), UNCHANGED spin
    PROVE  TInv'
<1>1. /\ backlog \in Seq(Clients)
      /\ c \notin Connected /\ c \notin Elems(backlog)
      /\ backlog' = Append(backlog, c)
      /\ Len(backlog) < Cardinality(Free)
      /\ UNCHANGED <<kernelVars, timerVars, mainpc, batch>>
  BY DEF TInv, TTypes, Connect, Waiting, Elems, Free
<1>2. backlog' = backlog \o <<c>> /\ <<c>> \in Seq(Clients)
      /\ Elems(<<c>>) = {c} /\ Distinct(<<c>>)
  BY <1>1, OneElem, AppendIsConcat
<1>3. /\ Elems(backlog \o <<c>>) = Elems(backlog) \cup Elems(<<c>>)
      /\ Distinct(backlog \o <<c>>) <=>
           Distinct(backlog) /\ Distinct(<<c>>) /\ Elems(backlog) \cap Elems(<<c>>) = {}
  BY <1>1, <1>2, ConcatElems
<1>4. Elems(backlog') = Elems(backlog) \cup {c} /\ Distinct(backlog')
  <2>1. Distinct(backlog) /\ Elems(backlog) \cap {c} = {}
    BY <1>1 DEF TInv, Peers
  <2> QED
    BY <1>2, <1>3, <2>1
<1>5. /\ Open' = Open /\ Connected' = Connected /\ Reachable' = Reachable
      /\ Used' = Used /\ Free' = Free
  BY <1>1 DEF Open, Connected, Reachable, Used, Free, kernelVars, timerVars
<1>6. backlog' \in Seq(Clients) /\ backlog' # <<>> /\ Len(backlog') = Len(backlog) + 1
  BY <1>1, AppendProperties
<1>7. TTypes'
  BY <1>1, <1>6 DEF TInv, TTypes, kernelVars, timerVars
<1>8. Peers'
  <2>1. Elems(backlog') \cap Connected' = {}
    BY <1>1, <1>4, <1>5 DEF TInv, Peers, Waiting, Elems
  <2>2. Waiting' \cap Connected' = {}
    BY <2>1 DEF Waiting, Elems
  <2>3. \A d, e \in Open' : conn'[d] = conn'[e] => d = e
    BY <1>1, <1>5 DEF TInv, Peers, kernelVars
  <2> QED
    BY <1>4, <2>2, <2>3 DEF Peers, Distinct
<1>9. Room'
  <2>1. IsFiniteSet(Free)
    BY Constants, FS_Subset DEF Free
  <2>2. Cardinality(Free) \in Nat /\ Len(backlog) \in Nat
    BY <1>1, <2>1, FS_CardinalityType, LenProperties
  <2>3. Len(backlog') <= Cardinality(Free')
    BY <1>1, <1>5, <1>6, <2>2
  <2> QED
    BY <2>3 DEF Room
<1>10. Registered' /\ Listed' /\ Turns' /\ Refreshable'
  BY <1>1, <1>5, <1>6 DEF TInv, Registered, Listed, Turns, Refreshable, Elems, Distinct,
                          kernelVars, timerVars
<1> QED
  BY <1>7, <1>8, <1>9, <1>10 DEF TInv

LEMMA TEpollKeeps ==
    ASSUME TInv, spin = 0, EpollWait, UNCHANGED spin
    PROVE  TInv'
<1>1. /\ batch' = Events /\ mainpc' = "loop"
      /\ interest' = [fd \in Fds |->
                        IF \E kind \in {"hup", "in", "out"} : <<kind, fd>> \in Events
                        THEN "off" ELSE interest[fd]]
      /\ UNCHANGED <<backlog, conn, timerVars>>
  BY DEF EpollWait, clientVars
<1>2. /\ \A e \in Events :
            \/ e = <<"listen", 0>> /\ backlog # <<>>
            \/ e = <<"signal", 0>>
            \/ \E fd \in Fds : e = <<"hup", fd>> /\ Hup(fd)
            \/ \E fd \in Fds : e = <<"in", fd>> /\ Readable(fd)
            \/ \E fd \in Fds : e = <<"out", fd>> /\ Writable(fd)
  BY DEF Events
<1>3. /\ Open' = Open /\ Used' = Used /\ Free' = Free
  BY <1>1 DEF Open, Used, Free, timerVars
<1>4. \A e \in Events : e[2] # 0 => e[2] \in Open
  <2>1. \A fd \in Fds : Hup(fd) \/ Readable(fd) \/ Writable(fd) => fd \in Open
    BY DEF TInv, Registered, Hup, Readable, Writable
  <2> QED
    BY <1>2, <2>1
<1>5. \A fd \in Fds : fd \notin Open => interest'[fd] = "none"
  <2>1. \A fd \in Fds : fd # 0
    BY Constants
  <2>2. \A fd \in Fds \ Open : \A kind \in {"hup", "in", "out"} : <<kind, fd>> \notin Events
    BY <1>4, <2>1
  <2> QED
    BY <1>1, <2>2 DEF TInv, Registered
<1>6. TTypes'
  BY <1>1 DEF TInv, TTypes, timerVars
<1>7. Registered'
  BY <1>3, <1>5 DEF Registered
<1>8. Peers' /\ Room'
  BY <1>1, <1>3, Frame DEF TInv, Room
<1>9. Listed'
  BY <1>1, <1>3 DEF TInv, Listed, Elems, Distinct, timerVars
<1>10. \A e, f \in Events : e[2] = f[2] /\ e[2] # 0 => e = f
  <2>1. \A fd \in Fds : /\ ~(Hup(fd) /\ Readable(fd)) /\ ~(Hup(fd) /\ Writable(fd))
                        /\ ~(Readable(fd) /\ Writable(fd))
    BY DEF Hup, Readable, Writable
  <2> TAKE e, f \in Events
  <2> HAVE e[2] = f[2] /\ e[2] # 0
  <2>2. \/ e = <<"hup", e[2]>> /\ e[2] \in Fds /\ Hup(e[2])
        \/ e = <<"in", e[2]>> /\ e[2] \in Fds /\ Readable(e[2])
        \/ e = <<"out", e[2]>> /\ e[2] \in Fds /\ Writable(e[2])
    BY <1>2
  <2>3. \/ f = <<"hup", f[2]>> /\ f[2] \in Fds /\ Hup(f[2])
        \/ f = <<"in", f[2]>> /\ f[2] \in Fds /\ Readable(f[2])
        \/ f = <<"out", f[2]>> /\ f[2] \in Fds /\ Writable(f[2])
    BY <1>2
  <2> QED
    BY <2>1, <2>2, <2>3
<1>11. <<"listen", 0>> \in Events => backlog # <<>>
  <2>1. \A fd \in Fds : fd # 0
    BY Constants
  <2> QED
    BY <1>2, <2>1
<1>12. Turns'
  BY <1>1, <1>10, <1>11 DEF Turns
<1>13. Refreshable'
  <2>1. Reachable' \subseteq Open
    BY <1>1, <1>3, <1>4, Constants DEF Reachable
  <2>2. \A fd \in Open : usersTimer[fd] \in TimerIds /\ data[usersTimer[fd]] = fd
    BY DEF TInv, Refreshable, Reachable
  <2> QED
    BY <1>1, <2>1, <2>2 DEF Refreshable, timerVars
<1> QED
  BY <1>6, <1>7, <1>8, <1>9, <1>12, <1>13 DEF TInv

\* One leaves the backlog.
LEMMA TRefuseKeeps ==
    ASSUME TInv, spin = 0, Refuse, UNCHANGED spin
    PROVE  TInv'
<1>1. /\ backlog \in Seq(Clients) /\ backlog # <<>> /\ Distinct(backlog)
      /\ backlog' = Tail(backlog) /\ batch' = batch \ {<<"listen", 0>>}
      /\ mainpc = "loop" /\ UNCHANGED <<kernelVars, timerVars, mainpc>>
  BY DEF TInv, TTypes, Refuse, Handle, Turns, Peers
<1>2. /\ Tail(backlog) \in Seq(Clients) /\ Len(Tail(backlog)) = Len(backlog) - 1
      /\ Elems(Tail(backlog)) \subseteq Elems(backlog) /\ Distinct(Tail(backlog))
      /\ Len(backlog) \in Nat
  BY <1>1, TailKeeps
<1>3. /\ Open' = Open /\ Connected' = Connected /\ Reachable' \subseteq Reachable
      /\ Used' = Used /\ Free' = Free
  BY <1>1 DEF Open, Connected, Reachable, Used, Free, kernelVars, timerVars
<1>4. TTypes'
  BY <1>1, <1>2 DEF TInv, TTypes, kernelVars, timerVars
<1>5. Peers'
  <2>1. Elems(backlog') \cap Connected' = {}
    BY <1>1, <1>2, <1>3 DEF TInv, Peers, Waiting, Elems
  <2>2. Waiting' \cap Connected' = {}
    BY <2>1 DEF Waiting, Elems
  <2>3. \A d, e \in Open' : conn'[d] = conn'[e] => d = e
    BY <1>1, <1>3 DEF TInv, Peers, kernelVars
  <2>4. Distinct(backlog')
    BY <1>1, <1>2
  <2> QED
    BY <2>2, <2>3, <2>4 DEF Peers, Distinct
<1>6. Room'
  <2>1. IsFiniteSet(Free)
    BY Constants, FS_Subset DEF Free
  <2>2. Cardinality(Free) \in Nat
    BY <2>1, FS_CardinalityType
  <2>3. Len(backlog') <= Cardinality(Free')
    BY <1>1, <1>2, <1>3, <2>2 DEF TInv, Room
  <2> QED
    BY <2>3 DEF Room
<1>7. Registered' /\ Listed' /\ Turns' /\ Refreshable'
  BY <1>1, <1>3 DEF TInv, Registered, Listed, Turns, Refreshable, Elems, Distinct,
                    kernelVars, timerVars
<1> QED
  BY <1>4, <1>5, <1>6, <1>7 DEF TInv

\* A new connection, perhaps behind a descriptor that an older timer still has.
LEMMA TAcceptKeeps ==
    ASSUME TInv, spin = 0, Accept, UNCHANGED spin
    PROVE  TInv'
<1> DEFINE fd == Lowest(Fds \ Open)
           timer == Lowest({t \in TimerIds : data[t] = 0})
           c == Head(backlog)
           longer == [left EXCEPT ![timer] = Slots]
           added == TL!AddTimer(timerLst, timer, longer)
<1>1. /\ <<"listen", 0>> \in batch /\ batch' = batch \ {<<"listen", 0>>} /\ mainpc = "loop"
      /\ backlog' = Tail(backlog)
      /\ conn' = [conn EXCEPT ![fd] = c]
      /\ interest' = [interest EXCEPT ![fd] = "in"]
      /\ data' = [data EXCEPT ![timer] = fd]
      /\ left' = longer
      /\ timerLst' = added
      /\ usersTimer' = [usersTimer EXCEPT ![fd] = timer]
      /\ UNCHANGED mainpc
  BY DEF Accept, Handle
<1>2. backlog \in Seq(Clients) /\ backlog # <<>> /\ Distinct(backlog)
  BY <1>1 DEF TInv, TTypes, Turns, Peers
<1>3. fd \in Fds \ Open
  BY <1>2, DescriptorLeft DEF Lowest, TInv, TTypes
<1>4. timer \in Free
  <2>1. \E t \in {u \in TimerIds : data[u] = 0} :
            \A u \in {u \in TimerIds : data[u] = 0} : t <= u
    BY <1>2, TimerLeft DEF Free, TInv
  <2>2. timer \in {u \in TimerIds : data[u] = 0}
    BY <2>1 DEF Lowest
  <2> QED
    BY <2>2 DEF Free
<1>5. /\ c \in Clients /\ Tail(backlog) \in Seq(Clients)
      /\ Len(Tail(backlog)) = Len(backlog) - 1 /\ Len(backlog) \in Nat
      /\ Elems(backlog) = Elems(Tail(backlog)) \cup {c}
      /\ Distinct(Tail(backlog)) /\ c \notin Elems(Tail(backlog))
  BY <1>2, TailKeeps
<1> HIDE DEF fd, timer, c
<1>6. /\ c # None /\ timer \in TimerIds /\ fd \in Fds /\ fd # 0
      /\ longer \in [TimerIds -> Nat]
  BY <1>3, <1>4, <1>5, Constants DEF TInv, TTypes, Free
<1>7. /\ Open' = Open \cup {fd} /\ conn'[fd] = c
      /\ \A d \in Open : d # fd /\ conn'[d] = conn[d]
  BY <1>1, <1>3, <1>6 DEF Open, TInv, TTypes
<1>8. c \notin Connected /\ Connected' = Connected \cup {c}
  <2>1. Connected' = Connected \cup {c}
    BY <1>7 DEF Connected
  <2>2. c \in Elems(backlog)
    BY <1>5
  <2> QED
    BY <2>1, <2>2 DEF TInv, Peers, Waiting, Elems
<1>9. /\ Used' = Used \cup {timer} /\ Free' = Free \ {timer}
      /\ timer \notin Used /\ data'[timer] = fd
      /\ \A t \in Used : data'[t] = data[t]
  BY <1>1, <1>4, <1>6 DEF Used, Free, TInv, TTypes
<1> HIDE DEF longer
<1>10. /\ added \in Seq(TimerIds) /\ Distinct(added)
       /\ Elems(added) = Elems(timerLst) \cup {timer}
  <2>1. timerLst \in Seq(TimerIds) /\ Distinct(timerLst) /\ timer \notin Elems(timerLst)
    BY <1>9 DEF TInv, TTypes, Listed
  <2> QED
    BY <1>6, <2>1, AddIs
<1> HIDE DEF added
<1>11. TTypes'
  BY <1>1, <1>5, <1>6, <1>10 DEF TInv, TTypes
<1>12. Registered'
  BY <1>1, <1>7 DEF TInv, Registered, TTypes
<1>13. Peers'
  <2>1. Distinct(backlog')
    BY <1>1, <1>5
  <2>2. Elems(backlog') \cap Connected' = {}
    BY <1>1, <1>5, <1>8 DEF TInv, Peers, Waiting, Elems
  <2>3. \A d, e \in Open' : conn'[d] = conn'[e] => d = e
    <3>1. \A d \in Open : conn[d] \in Connected
      BY DEF Connected
    <3> QED
      BY <1>7, <1>8, <3>1 DEF TInv, Peers
  <2> QED
    BY <2>1, <2>2, <2>3 DEF Peers, Waiting, Elems, Distinct
<1>14. Room'
  <2>1. IsFiniteSet(Free)
    BY Constants, FS_Subset DEF Free
  <2>2. Cardinality(Free \ {timer}) = Cardinality(Free) - 1 /\ Cardinality(Free) \in Nat
    BY <1>4, <2>1, FS_RemoveElement, FS_CardinalityType
  <2>3. Len(backlog') <= Cardinality(Free')
    BY <1>1, <1>5, <1>9, <2>2 DEF TInv, Room
  <2> QED
    BY <2>3 DEF Room
<1>15. Listed'
  <2>1. Elems(timerLst') = Used' /\ Distinct(timerLst')
    BY <1>1, <1>9, <1>10 DEF TInv, Listed
  <2> QED
    BY <2>1 DEF Listed, Elems, Distinct
<1>16. Turns'
  <2>1. <<"listen", 0>> \notin batch'
    BY <1>1
  <2> QED
    BY <1>1, <2>1 DEF TInv, Turns
<1>17. Refreshable'
  <2>1. Reachable' \subseteq Reachable \cup {fd}
    BY <1>1, <1>7, Constants DEF Reachable
  <2>2. usersTimer'[fd] = timer /\ \A d \in Reachable : d # fd => usersTimer'[d] = usersTimer[d]
    BY <1>1, <1>6, ReachableUsed DEF TInv, TTypes
  <2>3. \A d \in Reachable : usersTimer[d] \in Used /\ data[usersTimer[d]] = d
    BY ReachableUsed DEF TInv, Refreshable
  <2>4. usersTimer'[fd] \in TimerIds /\ data'[usersTimer'[fd]] = fd
    BY <1>6, <1>9, <2>2
  <2>5. \A d \in Reachable : d # fd =>
            usersTimer'[d] \in TimerIds /\ data'[usersTimer'[d]] = d
    BY <1>9, <2>2, <2>3 DEF Used
  <2> QED
    BY <2>1, <2>4, <2>5 DEF Refreshable
<1> QED
  BY <1>11, <1>12, <1>13, <1>14, <1>15, <1>16, <1>17 DEF TInv

\* What the event loop does in both models.
LEMMA TLoopKeeps ==
    ASSUME TInv, spin = 0, LoopStep
    PROVE  TInv'
<1>1. MainLoop /\ spin' = 0
  BY DEF LoopStep
<1>2. CASE EpollWait
  BY <1>1, <1>2, TEpollKeeps
<1>3. CASE Refuse
  BY <1>1, <1>3, TRefuseKeeps
<1>4. CASE Accept
  BY <1>1, <1>4, TAcceptKeeps
<1>5. CASE \E fd \in Fds : DealHup(fd)
  <2>1. PICK fd \in Fds : DealHup(fd)
    BY <1>5
  <2>2. Handle(<<"hup", fd>>) /\ DealTimer(fd) /\ UNCHANGED mainpc
    BY <2>1 DEF DealHup
  <2>3. fd \in Reachable /\ batch' \subseteq batch /\ \A e \in batch' : e[2] # fd
    BY <2>2, EventLeft
  <2> QED
    BY <1>1, <2>2, <2>3, DealTimerKeeps
<1>6. CASE DealSignal
  <2>1. /\ batch' \subseteq batch
        /\ UNCHANGED <<backlog, conn, interest, timerLst, left, data, usersTimer, mainpc>>
    BY <1>6 DEF DealSignal, Handle, clientVars, kernelVars, timerVars
  <2>2. OnlyArms /\ left' \in [TimerIds -> Nat]
    BY <2>1, SameArms DEF TInv, TTypes
  <2> QED
    BY <1>1, <2>1, <2>2, ArmKeeps
<1>7. CASE TimerHandler
  <2>1. Tick /\ batch = {} /\ batch' = {}
    BY <1>7 DEF TimerHandler
  <2> QED
    BY <1>1, <2>1, TTickKeeps
<1>8. CASE NoTimeout
  <2>1. /\ batch = {} /\ batch' = {}
        /\ UNCHANGED <<backlog, conn, interest, timerLst, left, data, usersTimer>>
    BY <1>8 DEF NoTimeout, clientVars, kernelVars, timerVars
  <2>2. Open' = Open /\ Used' = Used /\ Free' = Free
    BY <2>1 DEF Open, Used, Free
  <2>3. Reachable' = Reachable
    BY <1>1, <2>1, <2>2 DEF Reachable
  <2>4. TTypes' /\ Registered' /\ Listed' /\ Turns' /\ Refreshable'
    BY <1>1, <2>1, <2>2, <2>3
       DEF TInv, TTypes, Registered, Listed, Turns, Refreshable, Elems, Distinct
  <2>5. Peers' /\ Room'
    BY <2>1, Frame DEF TInv
  <2> QED
    BY <2>4, <2>5 DEF TInv
<1> QED
  BY <1>1, <1>2, <1>3, <1>4, <1>5, <1>6, <1>7, <1>8 DEF MainLoop

\* The event loop reads or writes by itself.
LEMMA TProactorKeeps ==
    ASSUME TInv, spin = 0, NEW fd \in Fds, ProactorStep(fd)
    PROVE  TInv'
<1>1. spin' = 0
  BY DEF ProactorStep
<1>2. CASE DealRead(fd)
  <2>1. Handle(<<"in", fd>>) /\ AdjustTimer(fd) /\ UNCHANGED <<backlog, conn, interest, mainpc>>
    BY <1>2 DEF DealRead, kernelVars
  <2>2. fd \in Reachable /\ batch' \subseteq batch /\ \A e \in batch' : e[2] # fd
    BY <2>1, EventLeft
  <2>3. OnlyArms
    BY <2>1, SameArms
  <2> QED
    BY <1>1, <2>1, <2>2, <2>3, AdjustKeeps
<1>3. CASE DealReadFails(fd) \/ DealWriteEnd(fd)
  <2>1. PICK kind \in {"in", "out"} : Handle(<<kind, fd>>) /\ DealTimer(fd) /\ UNCHANGED mainpc
    BY <1>3 DEF DealReadFails, DealWriteEnd
  <2>2. fd \in Reachable /\ batch' \subseteq batch /\ \A e \in batch' : e[2] # fd
    BY <2>1, EventLeft
  <2> QED
    BY <1>1, <2>1, <2>2, DealTimerKeeps
<1>4. CASE DealWriteKeep(fd) \/ DealWritePart(fd)
  <2>1. /\ Handle(<<"out", fd>>) /\ AdjustTimer(fd) /\ UNCHANGED <<backlog, conn, mainpc>>
        /\ \E d, ev \in {"in", "out"} : Modfd(d, ev) \/ \E s : Modfd(s, ev)
    BY <1>4 DEF DealWriteKeep, DealWritePart
  <2>2. fd \in Reachable /\ batch' \subseteq batch /\ \A e \in batch' : e[2] # fd
    BY <2>1, EventLeft
  <2>3. OnlyArms
    BY <2>1, ModArms
  <2> QED
    BY <1>1, <2>1, <2>2, <2>3, AdjustKeeps
<1> QED
  BY <1>2, <1>3, <1>4 DEF ProactorStep

\* It gives the slot to a worker instead, and spins.
LEMMA TDealKeeps ==
    ASSUME TInv, NEW fd \in Fds, NEW kind \in {"in", "out"}, Deal(fd, kind)
    PROVE  TInv'
<1>1. /\ Handle(<<kind, fd>>) /\ AdjustTimer(fd) /\ spin' = fd
      /\ UNCHANGED <<backlog, conn, interest, mainpc>>
  BY DEF Deal, clientVars, kernelVars
<1>2. fd \in Reachable /\ batch' \subseteq batch /\ \A e \in batch' : e[2] # fd
  BY <1>1, EventLeft
<1>3. OnlyArms
  BY <1>1, SameArms
<1> QED
  BY <1>1, <1>2, <1>3, AdjustKeeps

LEMMA TSpinEndKeeps ==
    ASSUME TInv, SpinEnd
    PROVE  TInv'
<1>1. /\ spin # 0 /\ spin' = 0 /\ UNCHANGED <<mainpc, batch>>
      /\ \/ DealTimer(spin)
         \/ UNCHANGED <<clientVars, kernelVars, timerVars>>
  BY DEF SpinEnd
<1>2. spin \in Reachable /\ \A e \in batch' : e[2] # spin
  BY <1>1 DEF TInv, TTypes, Turns, Reachable
<1>3. CASE DealTimer(spin)
  BY <1>1, <1>2, <1>3, DealTimerKeeps
<1>4. CASE UNCHANGED <<clientVars, kernelVars, timerVars>>
  <2>1. OnlyArms
    BY <1>4, SameArms DEF kernelVars
  <2>2. /\ left' \in [TimerIds -> Nat] /\ timerLst' \in Seq(TimerIds)
        /\ Distinct(timerLst') /\ Elems(timerLst') = Elems(timerLst)
        /\ UNCHANGED <<backlog, conn, data, usersTimer, mainpc>>
    BY <1>1, <1>4 DEF TInv, TTypes, Listed, clientVars, kernelVars, timerVars
  <2>3. /\ spin' \in Reachable \cup {0} /\ batch' \subseteq batch
        /\ spin' # 0 => \A e \in batch' : e[2] # spin'
    BY <1>1
  <2> QED
    BY <2>1, <2>2, <2>3, TimersStay
<1> QED
  BY <1>1, <1>3, <1>4

LEMMA TWorkerKeeps ==
    ASSUME TInv, NEW w \in Workers, RWorker(w)
    PROVE  TInv'
<1>1. UNCHANGED <<timerVars, mainpc, batch, spin>>
  BY DEF RWorker, RStart, Take, ReadOk, ReadFails, WriteKeep, WritePart, WriteEnd, WriteFails,
         SetTimerFlag, Process, NoRequest, Respond, NoResponse, CloseConn, ForgetSocket,
         CountDown, Arm, Fail, serverVars, reactorVars
<1>2. CASE \E S : CloseFds(S)
  BY <1>1, <1>2, WorkerCloseKeeps
<1>3. CASE /\ UNCHANGED <<backlog, conn>>
           /\ UNCHANGED interest \/ \E fd : \E ev \in {"in", "out"} : Modfd(fd, ev)
  <2>1. OnlyArms
    BY <1>3, SameArms, ModArms
  <2>2. /\ left' \in [TimerIds -> Nat]
        /\ UNCHANGED <<backlog, conn, timerLst, data, usersTimer, mainpc, spin>>
        /\ batch' \subseteq batch
    BY <1>1, <1>3 DEF TInv, TTypes, timerVars
  <2> QED
    BY <2>1, <2>2, ArmKeeps
<1>4. CASE CloseConn(w)
  <2>1. CASE sock[task[w].fd] = -1
    BY <1>3, <1>4, <2>1 DEF CloseConn, clientVars, kernelVars
  <2>2. CASE sock[task[w].fd] # -1
    BY <1>2, <1>4, <2>2 DEF CloseConn
  <2> QED
    BY <2>1, <2>2
<1>5. CASE RStart(w) \/ ReadFails(w) \/ WriteFails(w) \/ SetTimerFlag(w) \/ NoResponse(w)
  <2>1. UNCHANGED serverVars
    BY <1>5 DEF RStart, Take, ReadFails, WriteFails, SetTimerFlag, NoResponse
  <2> QED
    BY <1>3, <2>1 DEF serverVars, clientVars, kernelVars
<1>6. CASE ReadOk(w) \/ Respond(w) \/ ForgetSocket(w) \/ CountDown(w)
  BY <1>3, <1>6 DEF ReadOk, Respond, ForgetSocket, CountDown, clientVars, kernelVars
<1>7. CASE WriteKeep(w) \/ WritePart(w) \/ WriteEnd(w)
  BY <1>3, <1>7 DEF WriteKeep, WritePart, WriteEnd
<1>8. CASE NoRequest(w) \/ Arm(w)
  BY <1>3, <1>8 DEF NoRequest, Arm, clientVars
<1> QED
  BY <1>4, <1>5, <1>6, <1>7, <1>8 DEF RWorker, Process

LEMMA TEnvironmentKeeps ==
    ASSUME TInv, Environment, UNCHANGED spin
    PROVE  TInv'
<1>1. CASE \E c \in Clients : Connect(c)
  BY <1>1, TConnectKeeps
<1>2. CASE \/ \E c \in Clients : Send(c) \/ Hangup(c) \/ Drain(c)
           \/ SigTerm
  <2>1. UNCHANGED <<backlog, conn, interest, timerLst, left, data, usersTimer, mainpc, batch>>
    BY <1>2 DEF Send, Hangup, Drain, SigTerm, clientVars, kernelVars, timerVars
  <2>2. OnlyArms /\ left' \in [TimerIds -> Nat]
    BY <2>1, SameArms DEF TInv, TTypes
  <2> QED
    BY <2>1, <2>2, ArmKeeps
<1> QED
  BY <1>1, <1>2 DEF Environment

LEMMA TClockKeeps ==
    ASSUME TInv, RClock
    PROVE  TInv'
<1>1. /\ UNCHANGED <<backlog, conn, interest, timerLst, data, usersTimer, mainpc, batch, spin>>
      /\ left' = [t \in TimerIds |-> Tick1(left[t])]
  BY DEF RClock, ClockStep, Clock, reactorVars, kernelVars
<1>2. OnlyArms /\ left' \in [TimerIds -> Nat]
  BY <1>1, SameArms DEF TInv, TTypes, Tick1
<1> QED
  BY <1>1, <1>2, ArmKeeps

LEMMA TInitInv == RInit => TInv
<1> SUFFICES ASSUME RInit
             PROVE  TInv
  OBVIOUS
<1>1. /\ backlog = <<>> /\ timerLst = <<>> /\ batch = {} /\ mainpc = "wait" /\ spin = 0
      /\ conn = [fd \in Fds |-> None] /\ interest = [fd \in Fds |-> "none"]
      /\ left = [t \in TimerIds |-> 0] /\ data = [t \in TimerIds |-> 0]
      /\ usersTimer = [fd \in Fds |-> 0]
  BY DEF RInit, Init, ServerInit
<1>2. Open = {} /\ Used = {} /\ Reachable = {}
  BY <1>1, Constants DEF Open, Used, Reachable
<1>3. TTypes
  BY <1>1 DEF TTypes
<1>4. Registered /\ Listed /\ Turns /\ Refreshable
  BY <1>1, <1>2 DEF Registered, Listed, Turns, Refreshable, Elems, Distinct
<1>5. Peers
  BY <1>1, <1>2 DEF Peers, Distinct, Waiting, Connected
<1>6. Room
  <2>1. IsFiniteSet(Free)
    BY Constants, FS_Subset DEF Free
  <2> QED
    BY <1>1, <2>1, FS_CardinalityType DEF Room
<1> QED
  BY <1>3, <1>4, <1>5, <1>6 DEF TInv

LEMMA TInvariance == RSpec => []TInv
<1>1. TInv /\ [RNext]_rvars => TInv'
  <2> SUFFICES ASSUME TInv, [RNext]_rvars
               PROVE  TInv'
    OBVIOUS
  <2>1. CASE Environment /\ UNCHANGED <<poolVars, historyVars, reactorVars>>
    BY <2>1, TEnvironmentKeeps DEF reactorVars
  <2>2. CASE RClock
    BY <2>2, TClockKeeps
  <2>3. CASE RMain
    <3>1. CASE spin = 0 /\ LoopStep
      BY <3>1, TLoopKeeps
    <3>2. CASE spin = 0 /\ \E fd \in Fds : ProactorStep(fd)
      BY <3>2, TProactorKeeps
    <3>3. CASE spin = 0 /\ \E fd \in Fds : Deal(fd, "in") \/ Deal(fd, "out")
      BY <3>3, TDealKeeps
    <3>4. CASE SpinEnd
      BY <3>4, TSpinEndKeeps
    <3> QED
      BY <2>3, <3>1, <3>2, <3>3, <3>4 DEF RMain
  <2>4. CASE \E w \in Workers : RWorker(w)
    BY <2>4, TWorkerKeeps
  <2>5. CASE UNCHANGED rvars
    <3>1. /\ UNCHANGED <<backlog, conn, interest, timerLst, left, data, usersTimer, mainpc,
                         batch, spin>>
      BY <2>5 DEF rvars, vars, serverVars, clientVars, kernelVars, timerVars, reactorVars
    <3>2. OnlyArms /\ left' \in [TimerIds -> Nat]
      BY <3>1, SameArms DEF TInv, TTypes
    <3> QED
      BY <3>1, <3>2, ArmKeeps
  <2> QED
    BY <2>1, <2>2, <2>3, <2>4, <2>5 DEF RNext
<1> QED
  BY <1>1, TInitInv, PTL DEF RSpec

\* In both models, for any clients, descriptors, workers and timers, with empty files,
\* however long the workers take: the timer of an open connection is in the list, so that no read, write or
\* hang-up goes to one that was deleted (webserver.cpp:293, 337, 397).
THEOREM NoTimerDangles == RSpec => []NoDanglingTimer
<1>1. ASSUME TInv
      PROVE  NoDanglingTimer
  <2> SUFFICES ASSUME NEW fd \in Open
               PROVE  \E i \in DOMAIN timerLst : timerLst[i] = usersTimer[fd]
    BY DEF NoDanglingTimer
  <2>1. usersTimer[fd] \in Elems(timerLst)
    BY <1>1, ReachableUsed DEF TInv, Listed, Reachable
  <2> QED
    BY <2>1 DEF Elems
<1> QED
  BY <1>1, TInvariance, PTL

\* The same of every timer that the event loop does go to, also for a descriptor that a
\* worker has closed meanwhile: one with an event to handle, and the one it spins on.
THEOREM TimersAreReached == RSpec => [](\A fd \in Reachable : usersTimer[fd] \in Elems(timerLst))
<1>1. TInv => \A fd \in Reachable : usersTimer[fd] \in Elems(timerLst)
  BY ReachableUsed DEF TInv, Listed
<1> QED
  BY <1>1, TInvariance, PTL
================================================================================
