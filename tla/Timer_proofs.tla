------------------------------ MODULE Timer_proofs ------------------------------
(***************************************************************************)
(* Proofs about the timer list, for any finite set of timers, any delay    *)
(* and any bound on the clock: its links, that they implement TimerSeq,    *)
(* and its order.                                                          *)
(*                                                                         *)
(* The links are right because the heap always follows some sequence of    *)
(* timers (Follows), and each operation on the pointers does to that       *)
(* sequence what TimerOps says.  The order is not inductive alone: what    *)
(* keeps it is that no timer expires later than one that is given a full   *)
(* delay now, so that such a timer always goes to the end (Order).         *)
(***************************************************************************)
EXTENDS TimerList, TimerOps, FiniteSetTheorems, SequenceTheorems, WellFoundedInduction, TLAPS

------------------------------------------------------------------------------
(* The least number of a set, which the walks over the list look for.      *)

LEMMA LessIsWellFounded ==
    IsWellFoundedOn({ss \in Nat \X Nat : ss[1] < ss[2]}, Nat)
<1>1. OpToRel(<, Nat) = {ss \in Nat \X Nat : ss[1] < ss[2]}
  BY DEF OpToRel
<1> QED
  BY <1>1, NatLessThanWellFounded, Zenon

LEMMA LeastOne ==
    ASSUME NEW S \in SUBSET Nat, S # {}
    PROVE  \E m \in S : \A k \in S : m <= k
<1> DEFINE R == {ss \in Nat \X Nat : ss[1] < ss[2]}
<1>1. IsWellFoundedOn(R, Nat)
  BY LessIsWellFounded
<1> HIDE DEF R
<1>2. PICK m \in S : \A k \in S : ~(<<k, m>> \in R)
  BY <1>1, WFMin
<1>3. ASSUME NEW k \in S PROVE m <= k
  <2>1. k \in Nat /\ m \in Nat
    OBVIOUS
  <2>2. <<k, m>> \notin R
    BY <1>2
  <2>3. k < m => <<k, m>> \in R
    BY <2>1 DEF R
  <2> QED
    BY <2>1, <2>2, <2>3
<1> QED
  BY <1>3

------------------------------------------------------------------------------
(* What the operations on the list return.                                 *)

\* InsertAt shifts what follows (the relinking of timer.cpp:127-144).
LEMMA InsertAtIs ==
    ASSUME NEW T, NEW s \in Seq(T), NEW i \in 1..(Len(s) + 1), NEW e \in T
    PROVE  /\ InsertAt(s, i, e) \in Seq(T)
           /\ Len(InsertAt(s, i, e)) = Len(s) + 1
           /\ \A j \in 1..(Len(s) + 1) :
                InsertAt(s, i, e)[j] = IF j < i THEN s[j]
                                       ELSE IF j = i THEN e
                                       ELSE s[j - 1]
<1> DEFINE a == SubSeq(s, 1, i - 1)
           b == SubSeq(s, i, Len(s))
<1>0. Len(s) \in Nat /\ \A j \in 1..Len(s) : s[j] \in T
  BY ElementOfSeq, LenProperties
<1>1. /\ a \in Seq(T) /\ Len(a) = i - 1
      /\ \A j \in 1..(i - 1) : a[j] = s[j]
  BY <1>0, SubSeqProperties
<1>2. /\ b \in Seq(T) /\ Len(b) = Len(s) - i + 1
      /\ \A j \in 1..(Len(s) - i + 1) : b[j] = s[i + j - 1]
  BY <1>0, SubSeqProperties
<1> HIDE DEF a, b
<1>3. <<e>> \in Seq(T) /\ Len(<<e>>) = 1 /\ <<e>>[1] = e
  OBVIOUS
<1>4. /\ a \o <<e>> \in Seq(T) /\ Len(a \o <<e>>) = i
      /\ \A j \in 1..i : (a \o <<e>>)[j] = IF j <= i - 1 THEN a[j] ELSE e
  BY <1>0, <1>1, <1>3, ConcatProperties
<1> DEFINE c == a \o <<e>>
<1> HIDE DEF c
<1>5. /\ c \in Seq(T) /\ Len(c) = i
      /\ \A j \in 1..i : c[j] = IF j < i THEN s[j] ELSE e
  BY <1>0, <1>1, <1>4 DEF c
<1> DEFINE d == c \o b
<1>6. /\ d \in Seq(T) /\ Len(d) = Len(c) + Len(b)
      /\ \A j \in 1..(Len(c) + Len(b)) :
            d[j] = IF j <= Len(c) THEN c[j] ELSE b[j - Len(c)]
  BY <1>2, <1>5, ConcatProperties
<1>7. InsertAt(s, i, e) = d
  BY DEF InsertAt, a, b, c
<1> HIDE DEF d
<1>8. Len(c) + Len(b) = Len(s) + 1
  BY <1>0, <1>2, <1>5
<1>9. ASSUME NEW j \in 1..(Len(s) + 1)
      PROVE  d[j] = IF j < i THEN s[j] ELSE IF j = i THEN e ELSE s[j - 1]
  <2>1. CASE j <= i
    BY <1>0, <1>5, <1>6, <1>8, <2>1
  <2>2. CASE j > i
    <3>1. j - i \in 1..(Len(s) - i + 1) /\ i + (j - i) - 1 = j - 1
      BY <1>0, <2>2
    <3>2. b[j - i] = s[j - 1]
      BY <1>2, <3>1
    <3> QED
      BY <1>0, <1>5, <1>6, <1>8, <2>2, <3>2
  <2> QED
    BY <1>0, <2>1, <2>2
<1> QED
  BY <1>6, <1>7, <1>8, <1>9

\* RemoveAt closes the gap (timer.cpp:64-94).
LEMMA RemoveAtIs ==
    ASSUME NEW T, NEW s \in Seq(T), NEW i \in 1..Len(s)
    PROVE  /\ RemoveAt(s, i) \in Seq(T)
           /\ Len(RemoveAt(s, i)) = Len(s) - 1
           /\ \A j \in 1..(Len(s) - 1) :
                RemoveAt(s, i)[j] = IF j < i THEN s[j] ELSE s[j + 1]
<1> DEFINE a == SubSeq(s, 1, i - 1)
           b == SubSeq(s, i + 1, Len(s))
<1>0. Len(s) \in Nat /\ \A j \in 1..Len(s) : s[j] \in T
  BY ElementOfSeq, LenProperties
<1>1. /\ a \in Seq(T) /\ Len(a) = i - 1
      /\ \A j \in 1..(i - 1) : a[j] = s[j]
  BY <1>0, SubSeqProperties
<1>2. /\ b \in Seq(T) /\ Len(b) = Len(s) - i
      /\ \A j \in 1..(Len(s) - i) : b[j] = s[i + j]
  BY <1>0, SubSeqProperties
<1> HIDE DEF a, b
<1> DEFINE d == a \o b
<1>3. /\ d \in Seq(T) /\ Len(d) = Len(a) + Len(b)
      /\ \A j \in 1..(Len(a) + Len(b)) :
            d[j] = IF j <= Len(a) THEN a[j] ELSE b[j - Len(a)]
  BY <1>1, <1>2, ConcatProperties
<1>4. RemoveAt(s, i) = d
  BY DEF RemoveAt, a, b
<1> HIDE DEF d
<1>5. Len(a) + Len(b) = Len(s) - 1
  BY <1>0, <1>1, <1>2
<1>6. ASSUME NEW j \in 1..(Len(s) - 1)
      PROVE  d[j] = IF j < i THEN s[j] ELSE s[j + 1]
  <2>1. CASE j < i
    BY <1>0, <1>1, <1>3, <1>5, <2>1
  <2>2. CASE j >= i
    <3>1. j - (i - 1) \in 1..(Len(s) - i) /\ i + (j - (i - 1)) = j + 1
      BY <1>0, <2>2
    <3>2. b[j - (i - 1)] = s[j + 1]
      BY <1>2, <3>1
    <3> QED
      BY <1>0, <1>1, <1>3, <1>5, <2>2, <3>2
  <2> QED
    BY <1>0, <2>1, <2>2
<1> QED
  BY <1>3, <1>4, <1>5, <1>6

\* What is left behind the first m (timer.cpp:111-117).
LEMMA SuffixIs ==
    ASSUME NEW s \in Seq(Timers), NEW m \in 0..Len(s)
    PROVE  /\ SubSeq(s, m + 1, Len(s)) \in Seq(Timers)
           /\ Len(SubSeq(s, m + 1, Len(s))) = Len(s) - m
           /\ \A j \in 1..(Len(s) - m) : SubSeq(s, m + 1, Len(s))[j] = s[m + j]
<1> DEFINE n == Len(s)
           r == SubSeq(s, m + 1, n)
<1>1. n \in Nat /\ m \in 0..n /\ m + 1 \in Int /\ n \in Int
  BY LenProperties
<1>2. \A j \in (m + 1)..n : s[j] \in Timers
  <2>1. \A j \in (m + 1)..n : j \in 1..n
    BY <1>1
  <2> QED
    BY <2>1, ElementOfSeq
<1>3. /\ r \in Seq(Timers) /\ Len(r) = IF m + 1 <= n THEN n - (m + 1) + 1 ELSE 0
      /\ \A j \in 1..(n - (m + 1) + 1) : r[j] = s[m + 1 + j - 1]
  BY <1>1, <1>2, SubSeqProperties
<1> HIDE DEF r, n
<1>4. /\ n - (m + 1) + 1 = n - m /\ (~(m + 1 <= n) => n - m = 0)
      /\ \A j \in 1..(n - m) : m + 1 + j - 1 = m + j
  BY <1>1
<1>5. \A j \in 1..(n - m) : r[j] = s[m + 1 + j - 1]
  BY <1>3, <1>4
<1>6. /\ r \in Seq(Timers) /\ Len(r) = n - m
      /\ \A j \in 1..(n - m) : r[j] = s[m + j]
  BY <1>3, <1>4, <1>5
<1> QED
  BY <1>6 DEF r, n

\* The walk of the private AddTimer ends, at the first timer that expires later
\* or at the end (timer.cpp:125-144).
LEMMA PlaceFromIs ==
    ASSUME NEW s \in Seq(Timers), NEW from \in 1..(Len(s) + 1),
           NEW when \in [Timers -> Nat], NEW e \in Nat
    PROVE  LET p == PlaceFrom(s, from, when, e) IN
           /\ p \in from..(Len(s) + 1)
           /\ p <= Len(s) => e < when[s[p]]
           /\ \A j \in from..(p - 1) : when[s[j]] <= e
<1> DEFINE Stops == {i \in from..(Len(s) + 1) : i <= Len(s) => e < when[s[i]]}
<1>1. Len(s) \in Nat /\ \A j \in 1..Len(s) : s[j] \in Timers /\ when[s[j]] \in Nat
  BY ElementOfSeq, LenProperties
<1>2. Stops \in SUBSET Nat /\ Len(s) + 1 \in Stops
  BY <1>1
<1>3. PICK m \in Stops : \A k \in Stops : m <= k
  <2> HIDE DEF Stops
  <2> QED
    BY <1>2, LeastOne
<1>4. /\ m \in from..(Len(s) + 1)
      /\ m <= Len(s) => e < when[s[m]]
      /\ \A j \in from..(m - 1) : when[s[j]] <= e
  BY <1>1, <1>3
<1> QED
  BY <1>4 DEF PlaceFrom

\* The loop of Tick ends, at the first timer that has not expired or with the
\* list (timer.cpp:102-118).
LEMMA ExpiredPrefixIs ==
    ASSUME NEW s \in Seq(Timers), NEW when \in [Timers -> Nat], NEW cur \in Nat
    PROVE  LET n == ExpiredPrefix(s, when, cur) IN
           /\ n \in 0..Len(s)
           /\ \A i \in 1..n : when[s[i]] <= cur
           /\ n < Len(s) => cur < when[s[n + 1]]
<1> DEFINE Stops == {n \in 0..Len(s) : n < Len(s) => cur < when[s[n + 1]]}
<1>1. Len(s) \in Nat /\ \A j \in 1..Len(s) : s[j] \in Timers /\ when[s[j]] \in Nat
  BY ElementOfSeq, LenProperties
<1>2. Stops \in SUBSET Nat /\ Len(s) \in Stops
  BY <1>1
<1>3. PICK m \in Stops : \A k \in Stops : m <= k
  <2> HIDE DEF Stops
  <2> QED
    BY <1>2, LeastOne
<1>4. ASSUME NEW i \in 1..m PROVE when[s[i]] <= cur
  <2>1. i - 1 \notin Stops
    <3>1. m \in Int /\ ~(m <= i - 1)
      BY <1>1, <1>3
    <3> HIDE DEF Stops
    <3> QED
      BY <1>3, <3>1
  <2>2. i - 1 \in 0..Len(s) /\ i - 1 < Len(s) /\ (i - 1) + 1 = i
    BY <1>1, <1>3
  <2>3. ~(cur < when[s[i]])
    BY <2>1, <2>2
  <2> QED
    BY <1>1, <2>2, <2>3
<1>5. /\ m \in 0..Len(s)
      /\ \A i \in 1..m : when[s[i]] <= cur
      /\ m < Len(s) => cur < when[s[m + 1]]
  BY <1>3, <1>4
<1> QED
  BY <1>5 DEF ExpiredPrefix

------------------------------------------------------------------------------
(* What the operations keep: no timer twice, the order, a bound on expire.  *)

Sorted(s, when) == \A i, j \in 1..Len(s) : i < j => when[s[i]] <= when[s[j]]
Bounded(s, when, e) == \A i \in 1..Len(s) : when[s[i]] <= e

\* A timer in the list has a place there (the list of timer.cpp:64 is given the
\* node itself).
LEMMA IndexOfIs ==
    ASSUME NEW s \in Seq(Timers), NEW t, Contains(s, t)
    PROVE  IndexOf(s, t) \in 1..Len(s) /\ s[IndexOf(s, t)] = t
BY LenProperties DEF Contains, IndexOf

\* A new timer leaves every timer in the list once.
LEMMA InsertOnce ==
    ASSUME NEW s \in Seq(Timers), IsInjective(s), NEW t \in Timers, ~Contains(s, t),
           NEW i \in 1..(Len(s) + 1)
    PROVE  IsInjective(InsertAt(s, i, t))
<1> DEFINE l == InsertAt(s, i, t)
<1>0. Len(s) \in Nat /\ DOMAIN s = 1..Len(s)
  BY LenProperties
<1>1. /\ l \in Seq(Timers) /\ Len(l) = Len(s) + 1
      /\ \A j \in 1..(Len(s) + 1) :
            l[j] = IF j < i THEN s[j] ELSE IF j = i THEN t ELSE s[j - 1]
  <2>1. /\ InsertAt(s, i, t) \in Seq(Timers)
        /\ Len(InsertAt(s, i, t)) = Len(s) + 1
        /\ \A j \in 1..(Len(s) + 1) :
              InsertAt(s, i, t)[j] = IF j < i THEN s[j]
                                     ELSE IF j = i THEN t
                                     ELSE s[j - 1]
    BY InsertAtIs
  <2> QED
    BY <2>1
<1>2. DOMAIN l = 1..(Len(s) + 1)
  BY <1>1, LenProperties
<1> HIDE DEF l
<1>3. ASSUME NEW a \in 1..(Len(s) + 1), NEW b \in 1..(Len(s) + 1), l[a] = l[b]
      PROVE  a = b
  <2>1. \A j \in 1..Len(s) : s[j] # t
    BY DEF Contains
  <2>2. \A j, k \in 1..Len(s) : s[j] = s[k] => j = k
    BY <1>0 DEF IsInjective
  <2> DEFINE old(j) == IF j < i THEN j ELSE j - 1
  <2>3. \A j \in 1..(Len(s) + 1) :
            IF j = i THEN l[j] = t
            ELSE old(j) \in 1..Len(s) /\ l[j] = s[old(j)]
    BY <1>0, <1>1
  <2>4. CASE a = i \/ b = i
    BY <1>3, <2>1, <2>3, <2>4
  <2>5. CASE a # i /\ b # i
    <3>1. old(a) = old(b)
      BY <1>3, <2>2, <2>3, <2>5
    <3> QED
      BY <1>0, <2>5, <3>1
  <2> QED
    BY <2>4, <2>5
<1> QED
  BY <1>2, <1>3 DEF IsInjective, l

\* Removing a timer leaves the others once and the timer out.
LEMMA RemoveOnce ==
    ASSUME NEW s \in Seq(Timers), IsInjective(s), NEW i \in 1..Len(s)
    PROVE  IsInjective(RemoveAt(s, i)) /\ ~Contains(RemoveAt(s, i), s[i])
<1> DEFINE l == RemoveAt(s, i)
<1>1. /\ Len(s) \in Nat /\ DOMAIN s = 1..Len(s)
      /\ l \in Seq(Timers) /\ Len(l) = Len(s) - 1
      /\ \A j \in 1..(Len(s) - 1) : l[j] = IF j < i THEN s[j] ELSE s[j + 1]
  BY RemoveAtIs, LenProperties
<1>2. DOMAIN l = 1..(Len(s) - 1)
  BY <1>1, LenProperties
<1> HIDE DEF l
<1>3. \A j, k \in 1..Len(s) : s[j] = s[k] => j = k
  BY <1>1 DEF IsInjective
<1>4. ASSUME NEW a \in 1..(Len(s) - 1), NEW b \in 1..(Len(s) - 1), l[a] = l[b]
      PROVE  a = b
  BY <1>1, <1>3, <1>4
<1>5. ASSUME NEW a \in 1..(Len(s) - 1) PROVE l[a] # s[i]
  BY <1>1, <1>3
<1> QED
  BY <1>1, <1>2, <1>4, <1>5 DEF IsInjective, Contains, l

\* Removing a timer keeps the order.
LEMMA RemoveSorted ==
    ASSUME NEW s \in Seq(Timers), NEW when \in [Timers -> Nat], NEW e \in Nat,
           Sorted(s, when), Bounded(s, when, e), NEW i \in 1..Len(s)
    PROVE  Sorted(RemoveAt(s, i), when) /\ Bounded(RemoveAt(s, i), when, e)
<1> DEFINE l == RemoveAt(s, i)
<1>1. /\ Len(s) \in Nat /\ Len(l) = Len(s) - 1
      /\ \A j \in 1..(Len(s) - 1) : l[j] = IF j < i THEN s[j] ELSE s[j + 1]
  BY RemoveAtIs, LenProperties
<1> HIDE DEF l
<1>2. ASSUME NEW a \in 1..Len(l), NEW b \in 1..Len(l), a < b
      PROVE  when[l[a]] <= when[l[b]]
  <2> DEFINE x == IF a < i THEN a ELSE a + 1
             y == IF b < i THEN b ELSE b + 1
  <2>1. l[a] = s[x] /\ l[b] = s[y]
    BY <1>1
  <2>2. x \in 1..Len(s) /\ y \in 1..Len(s) /\ x < y
    BY <1>1, <1>2
  <2> QED
    BY <2>1, <2>2 DEF Sorted
<1>3. ASSUME NEW a \in 1..Len(l) PROVE when[l[a]] <= e
  BY <1>1 DEF Bounded
<1> QED
  BY <1>2, <1>3 DEF Sorted, Bounded, l

\* A timer that expires no earlier than any other goes to the end, wherever the
\* walk starts, and the order is kept (timer.cpp:125-144).
LEMMA PlaceLast ==
    ASSUME NEW s \in Seq(Timers), NEW when \in [Timers -> Nat], NEW t \in Timers,
           Sorted(s, when), Bounded(s, when, when[t]), NEW from \in 1..(Len(s) + 1)
    PROVE  LET l == InsertAt(s, PlaceFrom(s, from, when, when[t]), t) IN
           Sorted(l, when) /\ Bounded(l, when, when[t])
<1> DEFINE p == PlaceFrom(s, from, when, when[t])
<1>0. Len(s) \in Nat /\ \A j \in 1..Len(s) : s[j] \in Timers
  BY ElementOfSeq, LenProperties
<1>1. p \in from..(Len(s) + 1) /\ (p <= Len(s) => when[t] < when[s[p]])
  BY PlaceFromIs
<1> HIDE DEF p
<1>2. p = Len(s) + 1
  <2>1. ASSUME p <= Len(s) PROVE FALSE
    <3>1. p \in 1..Len(s) /\ s[p] \in Timers
      BY <1>0, <1>1, <2>1
    <3>2. when[s[p]] <= when[t]
      BY <3>1 DEF Bounded
    <3> QED
      BY <1>1, <2>1, <3>1, <3>2
  <2> QED
    BY <1>0, <1>1, <2>1
<1> DEFINE l == InsertAt(s, p, t)
<1>a. p \in 1..(Len(s) + 1)
  BY <1>0, <1>2
<1>3. /\ Len(l) = Len(s) + 1
      /\ \A j \in 1..(Len(s) + 1) :
            l[j] = IF j < p THEN s[j] ELSE IF j = p THEN t ELSE s[j - 1]
  BY <1>a, InsertAtIs
<1> HIDE DEF l
<1>4. /\ \A j \in 1..Len(s) : l[j] = s[j]
      /\ l[Len(s) + 1] = t
  BY <1>0, <1>2, <1>3
<1>5. ASSUME NEW a \in 1..Len(l), NEW b \in 1..Len(l), a < b
      PROVE  when[l[a]] <= when[l[b]]
  <2>1. CASE b <= Len(s)
    <3>1. a \in 1..Len(s) /\ b \in 1..Len(s)
      BY <1>0, <1>3, <1>5, <2>1
    <3> QED
      BY <1>4, <1>5, <3>1 DEF Sorted
  <2>2. CASE b = Len(s) + 1
    BY <1>0, <1>3, <1>4, <1>5, <2>2 DEF Bounded
  <2>3. b \in 1..(Len(s) + 1) /\ Len(s) \in Nat
    BY <1>0, <1>3, <1>5
  <2>4. b <= Len(s) \/ b = Len(s) + 1
    BY <2>3
  <2> QED
    BY <2>1, <2>2, <2>4
<1>6. ASSUME NEW a \in 1..Len(l) PROVE when[l[a]] <= when[t]
  <2>1. CASE a <= Len(s)
    BY <1>0, <1>4, <2>1 DEF Bounded
  <2>2. CASE a = Len(s) + 1
    BY <1>4, <2>2
  <2> QED
    BY <1>0, <1>3, <2>1, <2>2
<1> QED
  BY <1>5, <1>6 DEF Sorted, Bounded, l, p

\* Sorted and Bounded look only at the timers of the list.
LEMMA SameExpires ==
    ASSUME NEW s \in Seq(Timers), NEW when, NEW other, NEW e,
           \A i \in 1..Len(s) : other[s[i]] = when[s[i]],
           Sorted(s, when), Bounded(s, when, e)
    PROVE  Sorted(s, other) /\ Bounded(s, other, e)
BY DEF Sorted, Bounded

\* A timer that is given the latest expire and added leaves the order
\* (timer.cpp:16-38, webserver.cpp:184).
LEMMA AddSorted ==
    ASSUME NEW s \in Seq(Timers), NEW t \in Timers, ~Contains(s, t),
           NEW when \in [Timers -> Nat], NEW e \in Nat, Sorted(s, when), Bounded(s, when, e)
    PROVE  /\ Sorted(AddTimer(s, t, [when EXCEPT ![t] = e]), [when EXCEPT ![t] = e])
           /\ Bounded(AddTimer(s, t, [when EXCEPT ![t] = e]), [when EXCEPT ![t] = e], e)
<1> DEFINE w == [when EXCEPT ![t] = e]
           p == PlaceFrom(s, 1, w, w[t])
<1>1. w \in [Timers -> Nat] /\ w[t] = e /\ \A u \in Timers : u # t => w[u] = when[u]
  OBVIOUS
<1>2. Len(s) \in Nat /\ 1 \in 1..(Len(s) + 1)
  BY LenProperties
<1>3. AddTimer(s, t, w) = InsertAt(s, p, t)
  BY DEF AddTimer
<1> HIDE DEF w
<1>4. \A i \in 1..Len(s) : w[s[i]] = when[s[i]]
  BY <1>1, ElementOfSeq, LenProperties DEF Contains
<1>5. Sorted(s, w) /\ Bounded(s, w, w[t])
  BY <1>1, <1>4, SameExpires
<1>6. Sorted(InsertAt(s, p, t), w) /\ Bounded(InsertAt(s, p, t), w, w[t])
  BY <1>1, <1>2, <1>5, PlaceLast
<1> QED
  BY <1>1, <1>3, <1>6 DEF w

\* So does one that is adjusted: it is at the end, or it moves there
\* (timer.cpp:39-63, webserver.cpp:242).
LEMMA AdjustSorted ==
    ASSUME NEW s \in Seq(Timers), IsInjective(s), NEW t \in Timers, Contains(s, t),
           NEW when \in [Timers -> Nat], NEW e \in Nat, Sorted(s, when), Bounded(s, when, e)
    PROVE  /\ Sorted(AdjustTimer(s, t, [when EXCEPT ![t] = e]), [when EXCEPT ![t] = e])
           /\ Bounded(AdjustTimer(s, t, [when EXCEPT ![t] = e]), [when EXCEPT ![t] = e], e)
<1> DEFINE w == [when EXCEPT ![t] = e]
           i == IndexOf(s, t)
           rest == RemoveAt(s, i)
           p == PlaceFrom(rest, i + 1, w, w[t])
           r == AdjustTimer(s, t, w)
<1>1. w \in [Timers -> Nat] /\ w[t] = e /\ \A u \in Timers : u # t => w[u] = when[u]
  OBVIOUS
<1>2. i \in 1..Len(s) /\ s[i] = t
  BY IndexOfIs
<1>3. /\ Len(s) \in Nat
      /\ \A j \in 1..Len(s) : s[j] \in Timers /\ when[s[j]] \in Nat
      /\ \A j \in 1..Len(s) : w[s[j]] = IF j = i THEN e ELSE when[s[j]]
      /\ \A j \in 1..Len(s) : when[s[j]] <= e
  <2>1. /\ Len(s) \in Nat /\ \A j \in 1..Len(s) : s[j] \in Timers
        /\ \A j, k \in 1..Len(s) : s[j] = s[k] => j = k
    BY LenProperties, ElementOfSeq DEF IsInjective
  <2> HIDE DEF w, i
  <2>2. \A j \in 1..Len(s) : w[s[j]] = IF j = i THEN e ELSE when[s[j]]
    BY <1>1, <1>2, <2>1
  <2> QED
    BY <2>1, <2>2 DEF Bounded
<1>4. r = IF i = Len(s) \/ w[t] < w[s[i + 1]] THEN s ELSE InsertAt(rest, p, t)
  BY DEF AdjustTimer
<1> HIDE DEF w, i, r
<1>5. CASE i = Len(s)
  <2>1. ASSUME NEW a \in 1..Len(s), NEW b \in 1..Len(s), a < b
        PROVE  w[s[a]] <= w[s[b]]
    <3>1. a # i /\ when[s[a]] <= e /\ when[s[a]] <= when[s[b]]
      BY <1>3, <1>5, <2>1 DEF Sorted
    <3> QED
      BY <1>3, <3>1
  <2>2. \A a \in 1..Len(s) : w[s[a]] <= e
    BY <1>3
  <2> QED
    BY <1>4, <1>5, <2>1, <2>2 DEF Sorted, Bounded, r, w
<1>6. CASE i # Len(s)
  <2>1. i + 1 \in 1..Len(s) /\ i + 1 # i /\ i + 1 \in 1..(Len(s) - 1 + 1)
    BY <1>2, <1>3, <1>6
  <2>2. ~(w[t] < w[s[i + 1]])
    <3> DEFINE j == i + 1
    <3>1. j \in 1..Len(s) /\ j # i
      BY <2>1
    <3> HIDE DEF j
    <3>2. w[s[j]] = when[s[j]] /\ when[s[j]] <= e /\ when[s[j]] \in Nat
      BY <1>3, <3>1
    <3> QED
      BY <1>1, <3>2 DEF j
  <2>3. rest \in Seq(Timers) /\ Len(rest) = Len(s) - 1 /\ ~Contains(rest, t)
    BY <1>2, RemoveAtIs, RemoveOnce
  <2>4. Sorted(rest, when) /\ Bounded(rest, when, e)
    BY <1>2, RemoveSorted
  <2> HIDE DEF rest
  <2>5. \A j \in 1..Len(rest) : w[rest[j]] = when[rest[j]]
    BY <1>1, <2>3, ElementOfSeq, LenProperties DEF Contains
  <2>6. Sorted(rest, w) /\ Bounded(rest, w, w[t])
    BY <1>1, <2>3, <2>4, <2>5, SameExpires
  <2>7. Sorted(InsertAt(rest, p, t), w) /\ Bounded(InsertAt(rest, p, t), w, w[t])
    <3> DEFINE from == i + 1
    <3>1. from \in 1..(Len(rest) + 1)
      BY <1>3, <2>1, <2>3
    <3> HIDE DEF from
    <3>2. /\ Sorted(InsertAt(rest, PlaceFrom(rest, from, w, w[t]), t), w)
          /\ Bounded(InsertAt(rest, PlaceFrom(rest, from, w, w[t]), t), w, w[t])
      BY <1>1, <2>3, <2>6, <3>1, PlaceLast
    <3> QED
      BY <3>2 DEF from
  <2> QED
    BY <1>1, <1>4, <1>6, <2>2, <2>7 DEF r, w
<1> QED
  BY <1>5, <1>6

\* What a deletion leaves is in order.
LEMMA DelSorted ==
    ASSUME NEW s \in Seq(Timers), IsInjective(s), NEW t \in Timers, Contains(s, t),
           NEW when \in [Timers -> Nat], NEW e \in Nat, Sorted(s, when), Bounded(s, when, e)
    PROVE  /\ Sorted(DelTimer(s, t), [when EXCEPT ![t] = 0])
           /\ Bounded(DelTimer(s, t), [when EXCEPT ![t] = 0], e)
<1> DEFINE i == IndexOf(s, t)
           r == RemoveAt(s, i)
           w == [when EXCEPT ![t] = 0]
<1>1. i \in 1..Len(s) /\ s[i] = t
  BY IndexOfIs
<1>2. r \in Seq(Timers) /\ ~Contains(r, t)
  BY <1>1, RemoveAtIs, RemoveOnce
<1>3. Sorted(r, when) /\ Bounded(r, when, e)
  BY <1>1, RemoveSorted
<1>4. DelTimer(s, t) = r
  BY DEF DelTimer
<1> HIDE DEF r
<1>5. \A j \in 1..Len(r) : w[r[j]] = when[r[j]]
  BY <1>2, ElementOfSeq, LenProperties DEF Contains
<1> HIDE DEF w
<1>6. Sorted(r, w) /\ Bounded(r, w, e)
  BY <1>2, <1>3, <1>5, SameExpires
<1> QED
  BY <1>4, <1>6 DEF w

\* So is what a tick leaves, and none of it has expired (timer.cpp:95-119).
LEMMA TickSorted ==
    ASSUME NEW s \in Seq(Timers), NEW when \in [Timers -> Nat], NEW e \in Nat,
           Sorted(s, when), Bounded(s, when, e), NEW cur \in Nat,
           NEW m, m = ExpiredPrefix(s, when, cur)
    PROVE  LET r == SubSeq(s, m + 1, Len(s)) IN
           /\ r \in Seq(Timers)
           /\ Sorted(r, when) /\ Bounded(r, when, e)
           /\ \A i \in 1..Len(r) : cur < when[r[i]]
<1> DEFINE n == Len(s)
           r == SubSeq(s, m + 1, n)
<1>1. /\ n \in Nat /\ \A j \in 1..n : s[j] \in Timers /\ when[s[j]] \in Nat
      /\ \A i, j \in 1..n : i < j => when[s[i]] <= when[s[j]]
      /\ \A i \in 1..n : when[s[i]] <= e
  BY LenProperties, ElementOfSeq DEF Sorted, Bounded
<1>2. m \in 0..n /\ (m < n => cur < when[s[m + 1]])
  BY ExpiredPrefixIs
<1>3. /\ r \in Seq(Timers) /\ Len(r) = n - m
      /\ \A j \in 1..(n - m) : r[j] = s[m + j]
  <2>1. /\ SubSeq(s, m + 1, Len(s)) \in Seq(Timers)
        /\ Len(SubSeq(s, m + 1, Len(s))) = Len(s) - m
        /\ \A j \in 1..(Len(s) - m) : SubSeq(s, m + 1, Len(s))[j] = s[m + j]
    BY <1>2, SuffixIs
  <2> QED
    BY <2>1
<1> HIDE DEF r, n
<1>4. \A j \in 1..(n - m) : m + j \in 1..n /\ j \in Nat /\ m + 1 \in 1..n /\ m < n
  BY <1>1, <1>2
<1>5. ASSUME NEW i \in 1..(n - m), NEW j \in 1..(n - m), i < j
      PROVE  when[r[i]] <= when[r[j]]
  <2>1. m + i < m + j
    BY <1>2, <1>4, <1>5
  <2> QED
    BY <1>1, <1>3, <1>4, <2>1
<1>6. ASSUME NEW i \in 1..(n - m)
      PROVE  cur < when[r[i]] /\ when[r[i]] <= e
  <2>1. when[s[m + 1]] <= when[s[m + i]]
    <3>1. CASE i = 1
      BY <1>1, <1>4, <3>1
    <3>2. CASE i # 1
      <4>1. m + 1 < m + i
        BY <1>2, <1>4, <3>2
      <4> QED
        BY <1>1, <1>4, <4>1
    <3> QED
      BY <3>1, <3>2
  <2>2. /\ r[i] = s[m + i] /\ when[s[m + 1]] \in Nat /\ when[s[m + i]] \in Nat
        /\ cur < when[s[m + 1]] /\ when[s[m + i]] <= e
    BY <1>1, <1>2, <1>3, <1>4
  <2> QED
    BY <2>1, <2>2
<1> QED
  BY <1>3, <1>5, <1>6 DEF Sorted, Bounded, r, n

------------------------------------------------------------------------------
(* TimerSeq has the operators of TimerOps under its own name.               *)

LEMMA SameOperators ==
    /\ \A s, t : TS!Contains(s, t) <=> Contains(s, t)
    /\ \A s, t, w : TS!AddTimer(s, t, w) = AddTimer(s, t, w)
    /\ \A s, t, w : TS!AdjustTimer(s, t, w) = AdjustTimer(s, t, w)
    /\ \A s, t : TS!DelTimer(s, t) = DelTimer(s, t)
    /\ \A s, w, c : TS!ExpiredPrefix(s, w, c) = ExpiredPrefix(s, w, c)
<1>1. \A s, i, e : TS!InsertAt(s, i, e) = InsertAt(s, i, e)
  BY DEF TS!InsertAt, InsertAt
<1>2. \A s, i : TS!RemoveAt(s, i) = RemoveAt(s, i)
  BY DEF TS!RemoveAt, RemoveAt
<1>3. \A s, f, w, e : TS!PlaceFrom(s, f, w, e) = PlaceFrom(s, f, w, e)
  BY DEF TS!PlaceFrom, PlaceFrom
<1>4. \A s, t : TS!IndexOf(s, t) = IndexOf(s, t)
  BY DEF TS!IndexOf, IndexOf
<1>5. \A s, t : TS!Contains(s, t) <=> Contains(s, t)
  BY DEF TS!Contains, Contains
<1>6. \A s, t, w : TS!AddTimer(s, t, w) = AddTimer(s, t, w)
  BY <1>1, <1>3 DEF TS!AddTimer, AddTimer
<1>7. \A s, t, w : TS!AdjustTimer(s, t, w) = AdjustTimer(s, t, w)
  BY <1>1, <1>2, <1>3, <1>4 DEF TS!AdjustTimer, AdjustTimer
<1>8. \A s, t : TS!DelTimer(s, t) = DelTimer(s, t)
  BY <1>2, <1>4 DEF TS!DelTimer, DelTimer
<1>9. \A s, w, c : TS!ExpiredPrefix(s, w, c) = ExpiredPrefix(s, w, c)
  BY DEF TS!ExpiredPrefix, ExpiredPrefix
<1> QED
  BY <1>5, <1>6, <1>7, <1>8, <1>9

------------------------------------------------------------------------------
(* A heap whose links follow a sequence.                                   *)

Links == Timers \cup {NULL}
Heaps == [head : Links, tail : Links, next : [Timers -> Links], prev : [Timers -> Links]]

After(s, i) == IF i = Len(s) THEN NULL ELSE s[i + 1]
Before(s, i) == IF i = 1 THEN NULL ELSE s[i - 1]
Linked(next, prev, s) ==
    \A i \in 1..Len(s) : next[s[i]] = After(s, i) /\ prev[s[i]] = Before(s, i)

Follows(h, s) ==
    /\ h \in Heaps
    /\ s \in Seq(Timers) /\ IsInjective(s)
    /\ h.head = IF Len(s) = 0 THEN NULL ELSE s[1]
    /\ Len(s) > 0 => h.tail = s[Len(s)]
    /\ Linked(h.next, h.prev, s)

\* What a sequence without repetition is.
LEMMA SeqIs ==
    ASSUME NEW s \in Seq(Timers), IsInjective(s)
    PROVE  /\ Len(s) \in Nat /\ DOMAIN s = 1..Len(s)
           /\ \A i \in 1..Len(s) : s[i] \in Timers
           /\ \A i, j \in 1..Len(s) : s[i] = s[j] => i = j
BY LenProperties, ElementOfSeq DEF IsInjective

\* Its length is the number of timers in it.
LEMMA CountOnce ==
    ASSUME NEW s \in Seq(Timers), IsInjective(s), IsFiniteSet(Timers), NEW S \in SUBSET Timers,
           \A t \in Timers : t \in S <=> Contains(s, t)
    PROVE  Cardinality(S) \in Nat /\ Len(s) = Cardinality(S)
<1>1. /\ Len(s) \in Nat /\ DOMAIN s = 1..Len(s) /\ s \in [1..Len(s) -> Timers]
      /\ \A i \in 1..Len(s) : s[i] \in Timers
      /\ \A i, j \in 1..Len(s) : s[i] = s[j] => i = j
  BY SeqIs, LenProperties
<1>2. IsFiniteSet(S)
  BY FS_Subset
<1>3. s \in [1..Len(s) -> S]
  <2>1. \A i \in 1..Len(s) : s[i] \in S
    BY <1>1 DEF Contains
  <2> QED
    BY <1>1, <2>1
<1>4. s \in Injection(1..Len(s), S)
  BY <1>1, <1>3 DEF Injection, IsInjective
<1>5. s \in Surjection(1..Len(s), S)
  <2>1. \A t \in S : \E i \in 1..Len(s) : s[i] = t
    BY DEF Contains
  <2> QED
    BY <1>3, <2>1 DEF Surjection
<1>6. Cardinality(1..Len(s)) = Cardinality(S)
  BY <1>2, <1>4, <1>5, FS_Injection
<1>7. Cardinality(1..Len(s)) = Len(s)
  <2>1. 1 \in Int /\ Len(s) \in Int /\ (1 > Len(s) => Len(s) = 0) /\ Len(s) - 1 + 1 = Len(s)
    BY <1>1
  <2>2. Cardinality(1..Len(s)) = IF 1 > Len(s) THEN 0 ELSE Len(s) - 1 + 1
    BY <2>1, FS_Interval
  <2> QED
    BY <2>1, <2>2
<1> QED
  BY <1>1, <1>6, <1>7

\* It has no more elements than there are timers.
LEMMA LengthBound ==
    ASSUME NEW s \in Seq(Timers), IsInjective(s), IsFiniteSet(Timers)
    PROVE  Cardinality(Timers) \in Nat /\ Len(s) <= Cardinality(Timers)
<1> DEFINE S == {t \in Timers : Contains(s, t)}
<1>1. S \in SUBSET Timers /\ \A t \in Timers : t \in S <=> Contains(s, t)
  OBVIOUS
<1> HIDE DEF S
<1>2. Len(s) = Cardinality(S) /\ Cardinality(S) \in Nat
  BY <1>1, CountOnce
<1>3. Cardinality(S) <= Cardinality(Timers)
  BY <1>1, FS_Subset
<1>4. Cardinality(Timers) \in Nat
  BY FS_CardinalityType
<1> QED
  BY <1>2, <1>3, <1>4

\* The walk from the head, as TimerList makes it.
Walk(f, h) ==
    f = [i \in 1..(Cardinality(Timers) + 1) |->
            IF i = 1 THEN h.head
            ELSE LET p == f[i - 1] IN IF p = NULL THEN NULL ELSE h.next[p]]
WalkOf(h) == CHOOSE f : Walk(f, h)

LEMMA NodeAtIs == NodeAt = WalkOf(heap) /\ NodeAt' = WalkOf(heap')
BY DEF NodeAt, WalkOf, Walk

\* It visits what the links follow, and then NULL.
LEMMA WalkIs ==
    ASSUME NEW h, NEW s, Follows(h, s)
    PROVE  WalkOf(h) = [i \in 1..(Cardinality(Timers) + 1) |->
                            IF i <= Len(s) THEN s[i] ELSE NULL]
<1> DEFINE c == Cardinality(Timers) + 1
           g == [i \in 1..c |-> IF i <= Len(s) THEN s[i] ELSE NULL]
           n == Len(s)
<1>1. s \in Seq(Timers) /\ IsInjective(s) /\ IsFiniteSet(Timers) /\ NULL \notin Timers
  BY TimerListAssumption DEF Follows
<1>2. /\ n \in Nat /\ c \in Nat /\ n < c /\ c >= 1
      /\ \A i \in 1..n : s[i] \in Timers
  <2>1. Cardinality(Timers) \in Nat /\ n <= Cardinality(Timers)
    BY <1>1, LengthBound
  <2>2. n \in Nat /\ \A i \in 1..n : s[i] \in Timers
    BY <1>1, SeqIs
  <2> QED
    BY <2>1, <2>2
<1>4. /\ h.head = IF n = 0 THEN NULL ELSE s[1]
      /\ \A i \in 1..n : h.next[s[i]] = IF i = n THEN NULL ELSE s[i + 1]
  BY DEF Follows, Linked, After
<1> HIDE DEF c, n
<1> DEFINE Val(f, i) == IF i = 1 THEN h.head
                        ELSE LET p == f[i - 1] IN IF p = NULL THEN NULL ELSE h.next[p]
<1>5. \A f : Walk(f, h) <=> f = [i \in 1..c |-> Val(f, i)]
  BY DEF Walk, c
<1>g. \A i \in 1..c : g[i] = IF i <= n THEN s[i] ELSE NULL
  BY DEF n
<1>6. ASSUME NEW i \in 1..c, NEW f, i # 1 => f[i - 1] = g[i - 1]
      PROVE  Val(f, i) = g[i]
  <2>1. CASE i = 1
    <3>1. g[1] = IF n = 0 THEN NULL ELSE s[1]
      BY <1>2, <1>g
    <3> QED
      BY <1>4, <2>1, <3>1
  <2>2. CASE i # 1
    <3>1. i - 1 \in 1..c
      BY <1>2, <2>2
    <3>2. CASE i - 1 <= n
      <4>1. i - 1 \in 1..n /\ (i - 1 = n <=> ~(i <= n)) /\ (i - 1) + 1 = i
        BY <1>2, <2>2, <3>2
      <4>2. f[i - 1] = s[i - 1] /\ s[i - 1] # NULL
        BY <1>1, <1>2, <1>6, <1>g, <2>2, <3>1, <3>2, <4>1
      <4>3. h.next[s[i - 1]] = IF i - 1 = n THEN NULL ELSE s[i]
        BY <1>4, <4>1
      <4> HIDE DEF g
      <4> QED
        BY <1>g, <2>2, <4>1, <4>2, <4>3
    <3>3. CASE ~(i - 1 <= n)
      <4>1. ~(i <= n)
        BY <1>2, <3>3
      <4>2. g[i - 1] = NULL /\ g[i] = NULL
        BY <1>g, <3>1, <3>3, <4>1
      <4> HIDE DEF g
      <4> QED
        BY <1>6, <2>2, <4>2
    <3> QED
      BY <3>2, <3>3
  <2> QED
    BY <2>1, <2>2
<1> HIDE DEF Val
<1>7. Walk(g, h)
  <2>1. \A i \in 1..c : Val(g, i) = g[i]
    BY <1>6
  <2>2. g = [i \in 1..c |-> g[i]]
    BY DEF g
  <2> HIDE DEF g
  <2> QED
    BY <1>5, <2>1, <2>2
<1> DEFINE f == WalkOf(h)
<1>8. Walk(f, h)
  BY <1>7 DEF WalkOf
<1>9. f = [i \in 1..c |-> Val(f, i)]
  BY <1>5, <1>8
<1> HIDE DEF f, g
<1> DEFINE Bad == {i \in 1..c : f[i] # g[i]}
<1>10. ASSUME Bad # {}
       PROVE  FALSE
  <2>1. PICK m \in Bad : \A k \in Bad : m <= k
    <3>1. Bad \in SUBSET Nat
      BY <1>2
    <3> HIDE DEF Bad
    <3> QED
      BY <1>10, <3>1, LeastOne
  <2>2. m \in 1..c /\ f[m] # g[m]
    OBVIOUS
  <2>3. m # 1 => m - 1 \in 1..c /\ ~(m <= m - 1)
    BY <1>2, <2>2
  <2>4. m # 1 => f[m - 1] = g[m - 1]
    BY <2>1, <2>3
  <2>5. Val(f, m) = g[m]
    BY <1>6, <2>2, <2>4
  <2>6. f[m] = Val(f, m)
    BY <1>9, <2>2
  <2> QED
    BY <2>2, <2>5, <2>6
<1>11. f = g
  <2>1. \A i \in 1..c : f[i] = g[i]
    BY <1>10
  <2>2. f = [i \in 1..c |-> f[i]]
    BY <1>9
  <2>3. g = [i \in 1..c |-> g[i]]
    BY DEF g
  <2> QED
    BY <2>1, <2>2, <2>3
<1> QED
  BY <1>11 DEF f, g, c, n

\* The list of the heap, which is the sequence that its links follow.
SizeOf(h) == Cardinality({i \in DOMAIN WalkOf(h) : WalkOf(h)[i] # NULL})
ListOf(h) == [i \in 1..SizeOf(h) |-> WalkOf(h)[i]]

LEMMA ListIs == /\ List = ListOf(heap) /\ List' = ListOf(heap')
                /\ Size = SizeOf(heap)
<1>1. NodeAt = WalkOf(heap) /\ NodeAt' = WalkOf(heap')
  BY NodeAtIs
<1>2. Size = SizeOf(heap) /\ Size' = SizeOf(heap')
  BY <1>1 DEF Size, SizeOf
<1> QED
  BY <1>1, <1>2 DEF List, ListOf

LEMMA ListOfIs ==
    ASSUME NEW h, NEW s, Follows(h, s)
    PROVE  ListOf(h) = s /\ SizeOf(h) = Len(s)
<1> DEFINE c == Cardinality(Timers)
           w == WalkOf(h)
           n == Len(s)
<1>1. s \in Seq(Timers) /\ IsInjective(s) /\ IsFiniteSet(Timers) /\ NULL \notin Timers
  BY TimerListAssumption DEF Follows
<1>2. n \in Nat /\ c \in Nat /\ n <= c /\ \A i \in 1..n : s[i] \in Timers
  BY <1>1, SeqIs, LengthBound
<1>3. w = [i \in 1..(c + 1) |-> IF i <= n THEN s[i] ELSE NULL]
  BY WalkIs
<1> HIDE DEF w, c, n
<1>4. DOMAIN w = 1..(c + 1) /\ \A i \in 1..(c + 1) : w[i] = IF i <= n THEN s[i] ELSE NULL
  BY <1>3
<1>5. {i \in DOMAIN w : w[i] # NULL} = 1..n
  <2>1. ASSUME NEW i \in 1..(c + 1), w[i] # NULL
        PROVE  i \in 1..n
    <3>1. i <= n
      BY <1>4, <2>1
    <3> QED
      BY <1>2, <3>1
  <2>2. ASSUME NEW i \in 1..n
        PROVE  i \in 1..(c + 1) /\ w[i] # NULL
    <3>1. i \in 1..(c + 1) /\ i <= n /\ s[i] \in Timers
      BY <1>2
    <3> QED
      BY <1>1, <1>4, <3>1
  <2> QED
    BY <1>4, <2>1, <2>2
<1>6. SizeOf(h) = n
  <2>1. SizeOf(h) = Cardinality(1..n)
    BY <1>5 DEF SizeOf, w
  <2>2. 1 \in Int /\ n \in Int /\ (1 > n => n = 0) /\ n - 1 + 1 = n
    BY <1>2
  <2>3. Cardinality(1..n) = IF 1 > n THEN 0 ELSE n - 1 + 1
    BY <2>2, FS_Interval
  <2> QED
    BY <2>1, <2>2, <2>3
<1>7. ListOf(h) = [i \in 1..n |-> w[i]]
  BY <1>6 DEF ListOf, w
<1>8. \A i \in 1..n : w[i] = s[i]
  <2>1. \A i \in 1..n : i \in 1..(c + 1) /\ i <= n
    BY <1>2
  <2> QED
    BY <1>4, <2>1
<1>9. s = [i \in 1..n |-> s[i]]
  BY <1>1 DEF n
<1> QED
  BY <1>6, <1>7, <1>8, <1>9 DEF n

------------------------------------------------------------------------------
(* The walk of the private AddTimer.                                       *)

Seek(f, next, when, e) ==
    f = [p \in Timers |-> IF next[p] = NULL THEN p
                          ELSE IF e < when[next[p]] THEN p
                          ELSE f[next[p]]]

LEMMA InsertPointIsSeek ==
    ASSUME NEW next, NEW when, NEW e, NEW start
    PROVE  InsertPoint(next, when, e, start) = (CHOOSE f : Seek(f, next, when, e))[start]
BY DEF InsertPoint, Seek

\* From a timer of the list it gets to the one before the place, even when other
\* timers point into the list (timer.cpp:120-126).
LEMMA InsertPointIs ==
    ASSUME NEW s \in Seq(Timers), IsInjective(s),
           NEW next, \A i \in 1..Len(s) : next[s[i]] = After(s, i),
           \A p \in Timers : Contains(s, p) \/ next[p] = NULL \/ Contains(s, next[p]),
           NEW when \in [Timers -> Nat], NEW e \in Nat, NEW k \in 1..Len(s)
    PROVE  /\ PlaceFrom(s, k + 1, when, e) \in (k + 1)..(Len(s) + 1)
           /\ InsertPoint(next, when, e, s[k]) = s[PlaceFrom(s, k + 1, when, e) - 1]
<1> DEFINE n == Len(s)
           P(i) == PlaceFrom(s, i + 1, when, e)
           goal(i) == s[P(i) - 1]
<1>1. /\ n \in Nat /\ DOMAIN s = 1..n /\ \A i \in 1..n : s[i] \in Timers
      /\ \A i, j \in 1..n : s[i] = s[j] => i = j
      /\ NULL \notin Timers
  BY SeqIs, TimerListAssumption
<1>5. \A i \in 1..n : next[s[i]] = IF i = n THEN NULL ELSE s[i + 1]
  BY DEF After
<1>k. k \in 1..n
  OBVIOUS
<1> HIDE DEF n
<1>s. \A i \in 1..n : i # n => i + 1 \in 1..n /\ s[i + 1] \in Timers /\ s[i + 1] # NULL
  <2>1. \A i \in 1..n : i # n => i + 1 \in 1..n
    BY <1>1
  <2> QED
    BY <1>1, <2>1
<1>2. ASSUME NEW i \in 1..n
      PROVE  /\ P(i) \in (i + 1)..(n + 1)
             /\ P(i) <= n => e < when[s[P(i)]]
             /\ \A j \in (i + 1)..(P(i) - 1) : when[s[j]] <= e
  <2>1. i + 1 \in 1..(n + 1)
    BY <1>1
  <2> DEFINE from == i + 1
  <2> HIDE DEF from
  <2>2. /\ PlaceFrom(s, from, when, e) \in from..(n + 1)
        /\ PlaceFrom(s, from, when, e) <= n => e < when[s[PlaceFrom(s, from, when, e)]]
        /\ \A j \in from..(PlaceFrom(s, from, when, e) - 1) : when[s[j]] <= e
    BY <2>1, PlaceFromIs DEF from, n
  <2> QED
    BY <2>2 DEF from
<1> HIDE DEF P
<1>3. ASSUME NEW i \in 1..n, i = n \/ e < when[s[i + 1]]
      PROVE  P(i) = i + 1
  <2>1. CASE i = n
    <3>1. P(i) \in (i + 1)..(n + 1)
      BY <1>2
    <3> QED
      BY <1>1, <2>1, <3>1
  <2>2. CASE i # n
    <3>1. i + 1 \in 1..n /\ s[i + 1] \in Timers /\ when[s[i + 1]] \in Nat
      BY <1>1, <2>2
    <3>2. ~(when[s[i + 1]] <= e)
      BY <1>3, <2>2, <3>1
    <3>3. i + 1 \notin (i + 1)..(P(i) - 1)
      BY <1>2, <3>2
    <3>4. P(i) \in (i + 1)..(n + 1) /\ i \in Nat /\ n \in Nat
      BY <1>1, <1>2
    <3> QED
      BY <3>3, <3>4
  <2> QED
    BY <2>1, <2>2
<1>4. ASSUME NEW i \in 1..n, i # n, ~(e < when[s[i + 1]])
      PROVE  i + 1 \in 1..n /\ P(i) = P(i + 1)
  <2> DEFINE j == i + 1
             a == P(i)
             b == P(j)
  <2>1. j \in 1..n /\ when[s[j]] \in Nat /\ i \in Nat /\ j \in Nat
    BY <1>1, <1>4
  <2>2. /\ a \in j..(n + 1) /\ (a <= n => e < when[s[a]])
        /\ \A x \in j..(a - 1) : when[s[x]] <= e
    BY <1>2
  <2>3. /\ b \in (j + 1)..(n + 1) /\ (b <= n => e < when[s[b]])
        /\ \A x \in (j + 1)..(b - 1) : when[s[x]] <= e
    BY <1>2, <2>1
  <2>4. ~(e < when[s[j]])
    BY <1>4
  <2> HIDE DEF j, a, b
  <2>5. a # j
    <3>1. j <= n
      BY <1>1, <2>1
    <3> QED
      BY <2>2, <2>4, <3>1
  <2>6. ~(a < b)
    <3> SUFFICES ASSUME a < b
                 PROVE  FALSE
      OBVIOUS
    <3>1. a \in (j + 1)..(b - 1) /\ a <= n /\ a \in 1..n
      BY <1>1, <2>1, <2>2, <2>3, <2>5
    <3>2. when[s[a]] \in Nat
      BY <1>1, <3>1
    <3> QED
      BY <2>2, <2>3, <3>1, <3>2
  <2>7. ~(b < a)
    <3> SUFFICES ASSUME b < a
                 PROVE  FALSE
      OBVIOUS
    <3>1. b \in j..(a - 1) /\ b <= n /\ b \in 1..n
      BY <1>1, <2>1, <2>2, <2>3
    <3>2. when[s[b]] \in Nat
      BY <1>1, <3>1
    <3> QED
      BY <2>2, <2>3, <3>1, <3>2
  <2>8. a = b
    BY <1>1, <2>1, <2>2, <2>3, <2>6, <2>7
  <2> QED
    BY <2>1, <2>8 DEF a, b, j
<1> DEFINE Val(f, p) == IF next[p] = NULL THEN p
                        ELSE IF e < when[next[p]] THEN p
                        ELSE f[next[p]]
           Pos(p) == CHOOSE i \in 1..n : s[i] = p
           g == [p \in Timers |->
                    IF Contains(s, p) THEN goal(Pos(p))
                    ELSE IF next[p] = NULL THEN p
                    ELSE IF e < when[next[p]] THEN p
                    ELSE goal(Pos(next[p]))]
<1>6. \A f : Seek(f, next, when, e) <=> f = [p \in Timers |-> Val(f, p)]
  BY DEF Seek
<1>7. ASSUME NEW f, NEW i \in 1..n, i # n => f[s[i + 1]] = goal(i + 1)
      PROVE  Val(f, s[i]) = goal(i)
  <2>1. CASE i = n
    <3>1. Val(f, s[i]) = s[i] /\ P(i) = i + 1
      BY <1>3, <1>5, <2>1
    <3>2. P(i) - 1 = i
      BY <1>1, <3>1
    <3> QED
      BY <3>1, <3>2
  <2>2. CASE i # n
    <3>1. next[s[i]] = s[i + 1] /\ s[i + 1] # NULL /\ i + 1 \in 1..n
      BY <1>5, <1>s, <2>2
    <3>2. CASE e < when[s[i + 1]]
      <4>1. Val(f, s[i]) = s[i] /\ P(i) = i + 1
        BY <1>3, <3>1, <3>2
      <4>2. P(i) - 1 = i
        BY <1>1, <4>1
      <4> QED
        BY <4>1, <4>2
    <3>3. CASE ~(e < when[s[i + 1]])
      <4>1. Val(f, s[i]) = f[s[i + 1]]
        BY <3>1, <3>3
      <4>2. P(i) = P(i + 1)
        BY <1>4, <2>2, <3>3
      <4> QED
        BY <1>7, <2>2, <4>1, <4>2
    <3> QED
      BY <3>2, <3>3
  <2> QED
    BY <2>1, <2>2
<1>8. \A i \in 1..n : Pos(s[i]) = i
  BY <1>1
<1>9. \A p : Contains(s, p) <=> \E i \in 1..n : s[i] = p
  BY DEF Contains, n
<1> HIDE DEF Pos
<1>10. \A i \in 1..n : g[s[i]] = goal(i)
  <2>1. \A i \in 1..n : Contains(s, s[i]) /\ s[i] \in Timers
    BY <1>1, <1>9
  <2> HIDE DEF goal
  <2> QED
    BY <1>8, <2>1
<1>11. Seek(g, next, when, e)
  <2>1. ASSUME NEW p \in Timers
        PROVE  g[p] = Val(g, p)
    <3>1. CASE Contains(s, p)
      <4>1. PICK i \in 1..n : s[i] = p
        BY <1>9, <3>1
      <4>2. i # n => i + 1 \in 1..n
        BY <1>1
      <4>3. g[s[i]] = goal(i) /\ (i # n => g[s[i + 1]] = goal(i + 1))
        BY <1>10, <4>2
      <4> HIDE DEF g, goal, Val
      <4>4. Val(g, s[i]) = goal(i)
        BY <1>7, <4>3
      <4> QED
        BY <4>1, <4>3, <4>4
    <3>2. CASE ~Contains(s, p)
      <4>1. g[p] = IF next[p] = NULL THEN p
                   ELSE IF e < when[next[p]] THEN p
                   ELSE goal(Pos(next[p]))
        BY <3>2
      <4>2. next[p] # NULL => g[next[p]] = goal(Pos(next[p]))
        <5> SUFFICES ASSUME next[p] # NULL
                     PROVE  g[next[p]] = goal(Pos(next[p]))
          OBVIOUS
        <5>1. PICK i \in 1..n : s[i] = next[p]
          BY <1>9, <3>2
        <5> HIDE DEF g, goal
        <5> QED
          BY <1>8, <1>10, <5>1
      <4> HIDE DEF g, goal
      <4> QED
        BY <4>1, <4>2
    <3> QED
      BY <3>1, <3>2
  <2>2. g = [p \in Timers |-> g[p]]
    OBVIOUS
  <2> HIDE DEF g, Val, goal
  <2> QED
    BY <1>6, <2>1, <2>2
<1> HIDE DEF g
<1> DEFINE f == CHOOSE w : Seek(w, next, when, e)
<1>12. Seek(f, next, when, e)
  BY <1>11
<1> HIDE DEF f, Val, goal
<1>13. \A p \in Timers : f[p] = Val(f, p)
  BY <1>6, <1>12
<1> DEFINE Bad == {m \in 0..n : m < n /\ f[s[n - m]] # goal(n - m)}
<1>14. ASSUME Bad # {}
       PROVE  FALSE
  <2>1. PICK m \in Bad : \A x \in Bad : m <= x
    <3>1. Bad \in SUBSET Nat
      BY <1>1
    <3> HIDE DEF Bad
    <3> QED
      BY <1>14, <3>1, LeastOne
  <2>2. m \in 0..n /\ m < n /\ f[s[n - m]] # goal(n - m)
    OBVIOUS
  <2> DEFINE i == n - m
  <2>3. i \in 1..n /\ s[i] \in Timers /\ (i # n => m - 1 \in 0..n /\ m - 1 < n
          /\ n - (m - 1) = i + 1 /\ ~(m <= m - 1))
    BY <1>1, <2>2
  <2>4. i # n => f[s[i + 1]] = goal(i + 1)
    <3> SUFFICES ASSUME i # n
                 PROVE  f[s[i + 1]] = goal(i + 1)
      OBVIOUS
    <3>1. m - 1 \notin Bad
      BY <2>1, <2>3
    <3>2. f[s[n - (m - 1)]] = goal(n - (m - 1))
      BY <2>3, <3>1
    <3> HIDE DEF i
    <3> QED
      BY <2>3, <3>2
  <2> HIDE DEF i
  <2>5. Val(f, s[i]) = goal(i)
    BY <1>7, <2>3, <2>4
  <2>6. f[s[i]] = goal(i)
    BY <1>13, <2>3, <2>5
  <2> QED
    BY <2>2, <2>6 DEF i
<1>15. f[s[k]] = goal(k)
  <2> DEFINE m == n - k
  <2>1. m \in 0..n /\ m < n /\ n - m = k
    BY <1>1, <1>k
  <2>2. m \notin Bad
    BY <1>14
  <2> HIDE DEF m
  <2> QED
    BY <2>1, <2>2
<1>16. InsertPoint(next, when, e, s[k]) = f[s[k]]
  BY InsertPointIsSeek DEF f
<1>17. P(k) \in (k + 1)..(n + 1)
  BY <1>2, <1>k
<1> QED
  BY <1>15, <1>16, <1>17 DEF P, goal, n

------------------------------------------------------------------------------
(* What relinking does.                                                    *)

\* A node is linked in before the q-th, or behind the last.
LEMMA InsertLinks ==
    ASSUME NEW s \in Seq(Timers), NEW t \in Timers, NEW q \in 1..(Len(s) + 1),
           NEW next, NEW prev, NEW next2, NEW prev2, Linked(next, prev, s),
           next2[t] = IF q = Len(s) + 1 THEN NULL ELSE s[q],
           prev2[t] = IF q = 1 THEN NULL ELSE s[q - 1],
           \A i \in 1..Len(s) : /\ next2[s[i]] = IF i = q - 1 THEN t ELSE next[s[i]]
                                /\ prev2[s[i]] = IF i = q THEN t ELSE prev[s[i]]
    PROVE  Linked(next2, prev2, InsertAt(s, q, t))
<1> DEFINE n == Len(s)
           r == InsertAt(s, q, t)
<1>1. n \in Nat
  BY LenProperties
<1>2. /\ Len(r) = n + 1
      /\ \A j \in 1..(n + 1) : r[j] = IF j < q THEN s[j] ELSE IF j = q THEN t ELSE s[j - 1]
  <2>1. /\ Len(InsertAt(s, q, t)) = Len(s) + 1
        /\ \A j \in 1..(Len(s) + 1) :
              InsertAt(s, q, t)[j] = IF j < q THEN s[j] ELSE IF j = q THEN t ELSE s[j - 1]
    <3>1. s \in Seq(Timers) /\ t \in Timers /\ q \in 1..(Len(s) + 1)
      OBVIOUS
    <3> QED
      BY <3>1, InsertAtIs
  <2> QED
    BY <2>1
<1>3. \A i \in 1..n : /\ next[s[i]] = IF i = n THEN NULL ELSE s[i + 1]
                      /\ prev[s[i]] = IF i = 1 THEN NULL ELSE s[i - 1]
  BY DEF Linked, After, Before
<1>q. q \in 1..(n + 1)
  OBVIOUS
<1>t. /\ next2[t] = IF q = n + 1 THEN NULL ELSE s[q]
      /\ prev2[t] = IF q = 1 THEN NULL ELSE s[q - 1]
      /\ \A i \in 1..n : /\ next2[s[i]] = IF i = q - 1 THEN t ELSE next[s[i]]
                         /\ prev2[s[i]] = IF i = q THEN t ELSE prev[s[i]]
  OBVIOUS
<1> HIDE DEF n, r
<1>4. ASSUME NEW j \in 1..(n + 1)
      PROVE  /\ next2[r[j]] = IF j = n + 1 THEN NULL ELSE r[j + 1]
             /\ prev2[r[j]] = IF j = 1 THEN NULL ELSE r[j - 1]
  <2>1. CASE j < q
    <3>1. j \in 1..n /\ r[j] = s[j] /\ j # n + 1 /\ j + 1 \in 1..(n + 1) /\ j # q
      BY <1>1, <1>2, <1>q, <2>1
    <3>2. next2[s[j]] = r[j + 1]
      <4>1. CASE j = q - 1
        <5>1. j + 1 = q
          BY <1>1, <1>q, <4>1
        <5> QED
          BY <1>2, <1>t, <3>1, <4>1, <5>1
      <4>2. CASE j # q - 1
        <5>1. j + 1 < q /\ j # n
          BY <1>1, <1>q, <2>1, <4>2
        <5> QED
          BY <1>2, <1>3, <1>t, <3>1, <4>2, <5>1
      <4> QED
        BY <4>1, <4>2
    <3>3. prev2[s[j]] = IF j = 1 THEN NULL ELSE r[j - 1]
      <4>1. j # 1 => j - 1 \in 1..(n + 1) /\ j - 1 < q
        BY <1>1, <1>q, <2>1
      <4> QED
        BY <1>2, <1>3, <1>t, <3>1, <4>1
    <3> QED
      BY <3>1, <3>2, <3>3
  <2>2. CASE j = q
    <3>1. r[j] = t
      BY <1>1, <1>2, <2>2
    <3>2. next2[t] = IF j = n + 1 THEN NULL ELSE r[j + 1]
      <4>1. j # n + 1 => j + 1 \in 1..(n + 1) /\ ~(j + 1 < q) /\ j + 1 # q /\ j + 1 - 1 = q
        BY <1>1, <1>q, <2>2
      <4> QED
        BY <1>2, <1>t, <2>2, <4>1
    <3>3. prev2[t] = IF j = 1 THEN NULL ELSE r[j - 1]
      <4>1. j # 1 => j - 1 \in 1..(n + 1) /\ j - 1 < q
        BY <1>1, <1>q, <2>2
      <4> QED
        BY <1>2, <1>t, <2>2, <4>1
    <3> QED
      BY <3>1, <3>2, <3>3
  <2>3. CASE j > q
    <3> DEFINE i == j - 1
    <3>1. i \in 1..n /\ r[j] = s[i] /\ j # 1 /\ i # q - 1
      BY <1>1, <1>2, <1>q, <2>3
    <3>2. next2[s[i]] = IF j = n + 1 THEN NULL ELSE r[j + 1]
      <4>1. /\ i = n <=> j = n + 1
            /\ j # n + 1 => j + 1 \in 1..(n + 1) /\ ~(j + 1 < q) /\ j + 1 # q
                            /\ j + 1 - 1 = i + 1
        BY <1>1, <1>q, <2>3
      <4>2. j # n + 1 => r[j + 1] = s[i + 1]
        <5> HIDE DEF i
        <5> QED
          BY <1>2, <4>1
      <4>3. next2[s[i]] = IF i = n THEN NULL ELSE s[i + 1]
        <5> HIDE DEF i
        <5> QED
          BY <1>3, <1>t, <3>1
      <4> HIDE DEF i
      <4> QED
        BY <4>1, <4>2, <4>3
    <3>3. prev2[s[i]] = r[j - 1]
      <4>1. i \in 1..(n + 1) /\ ~(i < q) /\ (i # q => i - 1 \in 1..n /\ i # 1)
        BY <1>1, <1>q, <2>3
      <4>2. r[i] = IF i = q THEN t ELSE s[i - 1]
        <5> HIDE DEF i
        <5> QED
          BY <1>2, <4>1
      <4>3. prev2[s[i]] = r[i]
        <5> HIDE DEF i
        <5> QED
          BY <1>3, <1>t, <3>1, <4>1, <4>2
      <4> QED
        BY <4>3
    <3> QED
      BY <3>1, <3>2, <3>3
  <2> QED
    BY <1>1, <1>q, <2>1, <2>2, <2>3
<1> QED
  BY <1>2, <1>4 DEF Linked, After, Before, r

\* The i-th node is taken out.
LEMMA RemoveLinks ==
    ASSUME NEW s \in Seq(Timers), NEW i \in 1..Len(s),
           NEW next, NEW prev, NEW next2, NEW prev2, Linked(next, prev, s),
           \A j \in 1..Len(s) : j # i =>
                /\ next2[s[j]] = IF j = i - 1 THEN After(s, i) ELSE next[s[j]]
                /\ prev2[s[j]] = IF j = i + 1 THEN Before(s, i) ELSE prev[s[j]]
    PROVE  Linked(next2, prev2, RemoveAt(s, i))
<1> DEFINE n == Len(s)
           r == RemoveAt(s, i)
<1>1. n \in Nat
  BY LenProperties
<1>2. /\ Len(r) = n - 1
      /\ \A j \in 1..(n - 1) : r[j] = IF j < i THEN s[j] ELSE s[j + 1]
  BY RemoveAtIs
<1>3. \A j \in 1..n : /\ next[s[j]] = IF j = n THEN NULL ELSE s[j + 1]
                      /\ prev[s[j]] = IF j = 1 THEN NULL ELSE s[j - 1]
  BY DEF Linked, After, Before
<1>i. i \in 1..n
  OBVIOUS
<1>t. \A j \in 1..n : j # i =>
        /\ next2[s[j]] = IF j = i - 1 THEN (IF i = n THEN NULL ELSE s[i + 1]) ELSE next[s[j]]
        /\ prev2[s[j]] = IF j = i + 1 THEN (IF i = 1 THEN NULL ELSE s[i - 1]) ELSE prev[s[j]]
  BY DEF After, Before
<1> HIDE DEF n, r
<1>4. ASSUME NEW j \in 1..(n - 1)
      PROVE  /\ next2[r[j]] = IF j = n - 1 THEN NULL ELSE r[j + 1]
             /\ prev2[r[j]] = IF j = 1 THEN NULL ELSE r[j - 1]
  <2>1. CASE j < i
    <3>1. j \in 1..n /\ r[j] = s[j] /\ j # i /\ j # i + 1 /\ j # n
      BY <1>1, <1>2, <1>i, <2>1
    <3>2. next2[s[j]] = IF j = n - 1 THEN NULL ELSE r[j + 1]
      <4>1. CASE j = i - 1
        <5>1. /\ i = n <=> j = n - 1
              /\ j # n - 1 => j + 1 \in 1..(n - 1) /\ ~(j + 1 < i) /\ j + 1 + 1 = i + 1
          BY <1>1, <1>i, <4>1
        <5>2. j # n - 1 => r[j + 1] = s[i + 1]
          BY <1>2, <5>1
        <5> QED
          BY <1>t, <3>1, <4>1, <5>1, <5>2
      <4>2. CASE j # i - 1
        <5>1. j # n - 1 /\ j + 1 \in 1..(n - 1) /\ j + 1 < i
          BY <1>1, <1>i, <2>1, <4>2
        <5> QED
          BY <1>2, <1>3, <1>t, <3>1, <4>2, <5>1
      <4> QED
        BY <4>1, <4>2
    <3>3. prev2[s[j]] = IF j = 1 THEN NULL ELSE r[j - 1]
      <4>1. j # 1 => j - 1 \in 1..(n - 1) /\ j - 1 < i
        BY <1>1, <1>i, <2>1
      <4> QED
        BY <1>2, <1>3, <1>t, <3>1, <4>1
    <3> QED
      BY <3>1, <3>2, <3>3
  <2>2. CASE ~(j < i)
    <3> DEFINE k == j + 1
    <3>1. k \in 1..n /\ r[j] = s[k] /\ k # i /\ k # i - 1 /\ k # 1
      BY <1>1, <1>2, <1>i, <2>2
    <3>2. next2[s[k]] = IF j = n - 1 THEN NULL ELSE r[j + 1]
      <4>1. /\ k = n <=> j = n - 1
            /\ j # n - 1 => k \in 1..(n - 1) /\ ~(k < i)
        BY <1>1, <1>i, <2>2
      <4>2. j # n - 1 => r[k] = s[k + 1]
        <5> HIDE DEF k
        <5> QED
          BY <1>2, <4>1
      <4>3. next2[s[k]] = IF k = n THEN NULL ELSE s[k + 1]
        <5> HIDE DEF k
        <5> QED
          BY <1>3, <1>t, <3>1
      <4>4. next2[s[k]] = IF j = n - 1 THEN NULL ELSE r[k]
        <5> HIDE DEF k
        <5> QED
          BY <4>1, <4>2, <4>3
      <4> QED
        BY <4>4
    <3>3. prev2[s[k]] = IF j = 1 THEN NULL ELSE r[j - 1]
      <4>1. CASE j = i
        <5>1. k = i + 1 /\ (j # 1 => j - 1 \in 1..(n - 1) /\ j - 1 < i /\ j - 1 = i - 1)
          BY <1>1, <1>i, <4>1
        <5>2. j # 1 => r[j - 1] = s[i - 1]
          BY <1>2, <5>1
        <5>3. prev2[s[k]] = IF i = 1 THEN NULL ELSE s[i - 1]
          <6> HIDE DEF k
          <6> QED
            BY <1>t, <3>1, <5>1
        <5> HIDE DEF k
        <5> QED
          BY <4>1, <5>2, <5>3
      <4>2. CASE j # i
        <5>1. k # i + 1 /\ j # 1 /\ j - 1 \in 1..(n - 1) /\ ~(j - 1 < i) /\ j - 1 + 1 = k - 1
          BY <1>1, <1>i, <2>2, <4>2
        <5>2. r[j - 1] = s[k - 1]
          <6> HIDE DEF k
          <6> QED
            BY <1>2, <5>1
        <5>3. prev2[s[k]] = s[k - 1]
          <6> HIDE DEF k
          <6> QED
            BY <1>3, <1>t, <3>1, <5>1
        <5> HIDE DEF k
        <5> QED
          BY <5>1, <5>2, <5>3
      <4> QED
        BY <4>1, <4>2
    <3> QED
      BY <3>1, <3>2, <3>3
  <2> QED
    BY <2>1, <2>2
<1> QED
  BY <1>2, <1>4 DEF Linked, After, Before, r

\* The first m nodes are taken off.
LEMMA SuffixLinks ==
    ASSUME NEW s \in Seq(Timers), NEW m \in 0..Len(s),
           NEW next, NEW prev, NEW next2, NEW prev2, Linked(next, prev, s),
           \A j \in (m + 1)..Len(s) :
                /\ next2[s[j]] = next[s[j]]
                /\ prev2[s[j]] = IF j = m + 1 THEN NULL ELSE prev[s[j]]
    PROVE  /\ SubSeq(s, m + 1, Len(s)) \in Seq(Timers)
           /\ Len(SubSeq(s, m + 1, Len(s))) = Len(s) - m
           /\ \A j \in 1..(Len(s) - m) : SubSeq(s, m + 1, Len(s))[j] = s[m + j]
           /\ Linked(next2, prev2, SubSeq(s, m + 1, Len(s)))
<1> DEFINE n == Len(s)
           r == SubSeq(s, m + 1, n)
<1>1. n \in Nat /\ m \in 0..n
  BY LenProperties
<1>2. /\ r \in Seq(Timers) /\ Len(r) = n - m
      /\ \A j \in 1..(n - m) : r[j] = s[m + j]
  <2>1. /\ SubSeq(s, m + 1, Len(s)) \in Seq(Timers)
        /\ Len(SubSeq(s, m + 1, Len(s))) = Len(s) - m
        /\ \A j \in 1..(Len(s) - m) : SubSeq(s, m + 1, Len(s))[j] = s[m + j]
    BY SuffixIs
  <2> QED
    BY <2>1
<1>3. \A j \in 1..n : /\ next[s[j]] = IF j = n THEN NULL ELSE s[j + 1]
                      /\ prev[s[j]] = IF j = 1 THEN NULL ELSE s[j - 1]
  BY DEF Linked, After, Before
<1>t. \A j \in (m + 1)..n : /\ next2[s[j]] = next[s[j]]
                            /\ prev2[s[j]] = IF j = m + 1 THEN NULL ELSE prev[s[j]]
  OBVIOUS
<1> HIDE DEF n, r
<1>4. ASSUME NEW j \in 1..(n - m)
      PROVE  /\ next2[r[j]] = IF j = n - m THEN NULL ELSE r[j + 1]
             /\ prev2[r[j]] = IF j = 1 THEN NULL ELSE r[j - 1]
  <2> DEFINE k == m + j
  <2>1. /\ k \in 1..n /\ k \in (m + 1)..n /\ r[j] = s[k] /\ (k = n <=> j = n - m)
        /\ (k = m + 1 <=> j = 1) /\ (j # 1 => k # 1)
        /\ (j # n - m => j + 1 \in 1..(n - m) /\ m + (j + 1) = k + 1)
        /\ (j # 1 => j - 1 \in 1..(n - m) /\ m + (j - 1) = k - 1)
    BY <1>1, <1>2
  <2> HIDE DEF k
  <2>2. (j # n - m => r[j + 1] = s[k + 1]) /\ (j # 1 => r[j - 1] = s[k - 1])
    BY <1>2, <2>1
  <2> QED
    BY <1>3, <1>t, <2>1, <2>2
<1>5. Linked(next2, prev2, r)
  BY <1>2, <1>4 DEF Linked, After, Before
<1> QED
  BY <1>2, <1>5 DEF r, n

\* A list has the timer linked in, and no other more.
LEMMA InsertContains ==
    ASSUME NEW s \in Seq(Timers), NEW t \in Timers, NEW q \in 1..(Len(s) + 1), NEW u
    PROVE  Contains(InsertAt(s, q, t), u) <=> u = t \/ Contains(s, u)
<1> DEFINE n == Len(s)
           r == InsertAt(s, q, t)
<1>1. n \in Nat /\ q \in 1..(n + 1)
  BY LenProperties
<1>2. /\ Len(r) = n + 1
      /\ \A j \in 1..(n + 1) : r[j] = IF j < q THEN s[j] ELSE IF j = q THEN t ELSE s[j - 1]
  <2>1. /\ Len(InsertAt(s, q, t)) = Len(s) + 1
        /\ \A j \in 1..(Len(s) + 1) :
              InsertAt(s, q, t)[j] = IF j < q THEN s[j] ELSE IF j = q THEN t ELSE s[j - 1]
    <3>1. s \in Seq(Timers) /\ t \in Timers /\ q \in 1..(Len(s) + 1)
      OBVIOUS
    <3> QED
      BY <3>1, InsertAtIs
  <2> QED
    BY <2>1
<1>c. /\ Contains(r, u) <=> \E j \in 1..(n + 1) : r[j] = u
      /\ Contains(s, u) <=> \E j \in 1..n : s[j] = u
  BY <1>2 DEF Contains
<1> HIDE DEF n, r
<1>3. ASSUME NEW j \in 1..n
      PROVE  \E x \in 1..(n + 1) : r[x] = s[j]
  <2>1. CASE j < q
    <3>1. j \in 1..(n + 1)
      BY <1>1
    <3> QED
      BY <1>2, <2>1, <3>1
  <2>2. CASE ~(j < q)
    <3> DEFINE x == j + 1
    <3>1. x \in 1..(n + 1) /\ ~(x < q) /\ x # q /\ x - 1 = j
      BY <1>1, <2>2
    <3> HIDE DEF x
    <3> QED
      BY <1>2, <3>1
  <2> QED
    BY <2>1, <2>2
<1>4. r[q] = t
  BY <1>1, <1>2
<1>5. ASSUME NEW j \in 1..(n + 1), j # q
      PROVE  \E x \in 1..n : r[j] = s[x]
  <2>1. CASE j < q
    <3>1. j \in 1..n
      BY <1>1, <2>1
    <3> QED
      BY <1>2, <2>1, <3>1
  <2>2. CASE ~(j < q)
    <3>1. j - 1 \in 1..n
      BY <1>1, <1>5, <2>2
    <3> QED
      BY <1>2, <1>5, <2>2, <3>1
  <2> QED
    BY <2>1, <2>2
<1> QED
  BY <1>1, <1>3, <1>4, <1>5, <1>c DEF r

\* A list without repetition has lost the timer taken out, and no other.
LEMMA RemoveContains ==
    ASSUME NEW s \in Seq(Timers), IsInjective(s), NEW i \in 1..Len(s), NEW u
    PROVE  Contains(RemoveAt(s, i), u) <=> u # s[i] /\ Contains(s, u)
<1> DEFINE n == Len(s)
           r == RemoveAt(s, i)
<1>1. n \in Nat /\ i \in 1..n /\ \A j, k \in 1..n : s[j] = s[k] => j = k
  BY SeqIs
<1>2. /\ Len(r) = n - 1
      /\ \A j \in 1..(n - 1) : r[j] = IF j < i THEN s[j] ELSE s[j + 1]
  BY RemoveAtIs
<1>c. /\ Contains(r, u) <=> \E j \in 1..(n - 1) : r[j] = u
      /\ Contains(s, u) <=> \E j \in 1..n : s[j] = u
  BY <1>2 DEF Contains
<1> HIDE DEF n, r
<1>3. ASSUME NEW j \in 1..n, j # i
      PROVE  \E x \in 1..(n - 1) : r[x] = s[j]
  <2>1. CASE j < i
    <3>1. j \in 1..(n - 1)
      BY <1>1, <2>1
    <3> QED
      BY <1>2, <2>1, <3>1
  <2>2. CASE ~(j < i)
    <3> DEFINE x == j - 1
    <3>1. x \in 1..(n - 1) /\ ~(x < i) /\ x + 1 = j
      BY <1>1, <1>3, <2>2
    <3> HIDE DEF x
    <3> QED
      BY <1>2, <3>1
  <2> QED
    BY <2>1, <2>2
<1>4. ASSUME NEW j \in 1..(n - 1)
      PROVE  \E x \in 1..n : x # i /\ r[j] = s[x]
  <2>1. CASE j < i
    <3>1. j \in 1..n /\ j # i
      BY <1>1, <2>1
    <3> QED
      BY <1>2, <2>1, <3>1
  <2>2. CASE ~(j < i)
    <3>1. j + 1 \in 1..n /\ j + 1 # i
      BY <1>1, <2>2
    <3> QED
      BY <1>2, <2>2, <3>1
  <2> QED
    BY <2>1, <2>2
<1>5. Contains(r, u) => \E x \in 1..n : x # i /\ s[x] = u
  BY <1>4, <1>c
<1>6. (\E x \in 1..n : x # i /\ s[x] = u) => Contains(r, u)
  BY <1>3, <1>c
<1>7. (\E x \in 1..n : x # i /\ s[x] = u) <=> u # s[i] /\ Contains(s, u)
  BY <1>1, <1>c
<1> QED
  BY <1>5, <1>6, <1>7 DEF r

\* A heap with a node more (timer.cpp:16-38, 120-144).
LEMMA InsertFollows ==
    ASSUME NEW h, NEW s, Follows(h, s), NEW t \in Timers, ~Contains(s, t),
           NEW q \in 1..(Len(s) + 1), NEW g \in Heaps,
           g.head = IF q = 1 THEN t ELSE h.head,
           g.tail = IF q = Len(s) + 1 THEN t ELSE h.tail,
           g.next[t] = IF q = Len(s) + 1 THEN NULL ELSE s[q],
           g.prev[t] = IF q = 1 THEN NULL ELSE s[q - 1],
           \A i \in 1..Len(s) : /\ g.next[s[i]] = IF i = q - 1 THEN t ELSE h.next[s[i]]
                                /\ g.prev[s[i]] = IF i = q THEN t ELSE h.prev[s[i]]
    PROVE  Follows(g, InsertAt(s, q, t))
<1> DEFINE n == Len(s)
           r == InsertAt(s, q, t)
<1>1. /\ s \in Seq(Timers) /\ IsInjective(s) /\ Linked(h.next, h.prev, s)
      /\ h.head = IF n = 0 THEN NULL ELSE s[1]
      /\ n > 0 => h.tail = s[n]
  BY DEF Follows
<1>2. n \in Nat /\ q \in 1..(n + 1)
  BY <1>1, LenProperties
<1>3. /\ r \in Seq(Timers) /\ Len(r) = n + 1
      /\ \A j \in 1..(n + 1) : r[j] = IF j < q THEN s[j] ELSE IF j = q THEN t ELSE s[j - 1]
  <2>1. /\ InsertAt(s, q, t) \in Seq(Timers) /\ Len(InsertAt(s, q, t)) = Len(s) + 1
        /\ \A j \in 1..(Len(s) + 1) :
              InsertAt(s, q, t)[j] = IF j < q THEN s[j] ELSE IF j = q THEN t ELSE s[j - 1]
    BY <1>1, InsertAtIs
  <2> QED
    BY <2>1
<1>4. IsInjective(r)
  BY <1>1, InsertOnce
<1>5. Linked(g.next, g.prev, r)
  <2> DEFINE next == h.next
             prev == h.prev
             next2 == g.next
             prev2 == g.prev
  <2>1. /\ Linked(next, prev, s)
        /\ next2[t] = IF q = Len(s) + 1 THEN NULL ELSE s[q]
        /\ prev2[t] = IF q = 1 THEN NULL ELSE s[q - 1]
        /\ \A i \in 1..Len(s) : /\ next2[s[i]] = IF i = q - 1 THEN t ELSE next[s[i]]
                                /\ prev2[s[i]] = IF i = q THEN t ELSE prev[s[i]]
    BY <1>1
  <2> HIDE DEF next, prev, next2, prev2
  <2>2. Linked(next2, prev2, InsertAt(s, q, t))
    BY <1>1, <2>1, InsertLinks
  <2> QED
    BY <2>2 DEF next2, prev2
<1>t. g.head = (IF q = 1 THEN t ELSE h.head) /\ g.tail = (IF q = n + 1 THEN t ELSE h.tail)
  OBVIOUS
<1> HIDE DEF n, r
<1>6. g.head = r[1] /\ Len(r) # 0
  <2>1. 1 \in 1..(n + 1) /\ n + 1 # 0 /\ (q # 1 => 1 < q /\ n # 0)
    BY <1>2
  <2> QED
    BY <1>1, <1>3, <1>t, <2>1
<1>7. g.tail = r[Len(r)]
  <2>1. CASE q = n + 1
    <3>1. r[q] = t /\ Len(r) = q
      BY <1>2, <1>3, <2>1
    <3> QED
      BY <1>t, <2>1, <3>1
  <2>2. CASE q # n + 1
    <3>1. n > 0
      BY <1>2, <2>2
    <3> DEFINE j == n + 1
    <3>2. j \in 1..(n + 1) /\ ~(j < q) /\ j # q /\ j - 1 = n
      BY <1>2, <2>2
    <3> HIDE DEF j
    <3>3. r[j] = s[n]
      BY <1>3, <3>2
    <3>4. r[n + 1] = s[n]
      BY <3>3 DEF j
    <3> QED
      BY <1>1, <1>3, <1>t, <2>2, <3>1, <3>4
  <2> QED
    BY <2>1, <2>2
<1> QED
  BY <1>3, <1>4, <1>5, <1>6, <1>7 DEF Follows, r

\* A heap with a node less (timer.cpp:47-94).
LEMMA RemoveFollows ==
    ASSUME NEW h, NEW s, Follows(h, s), NEW i \in 1..Len(s), NEW g \in Heaps,
           g.head = IF i = 1 THEN After(s, i) ELSE h.head,
           Len(s) # 1 => g.tail = IF i = Len(s) THEN Before(s, i) ELSE h.tail,
           \A j \in 1..Len(s) : j # i =>
                /\ g.next[s[j]] = IF j = i - 1 THEN After(s, i) ELSE h.next[s[j]]
                /\ g.prev[s[j]] = IF j = i + 1 THEN Before(s, i) ELSE h.prev[s[j]]
    PROVE  Follows(g, RemoveAt(s, i))
<1> DEFINE n == Len(s)
           r == RemoveAt(s, i)
<1>1. /\ s \in Seq(Timers) /\ IsInjective(s) /\ Linked(h.next, h.prev, s)
      /\ h.head = IF n = 0 THEN NULL ELSE s[1]
      /\ n > 0 => h.tail = s[n]
  BY DEF Follows
<1>2. n \in Nat /\ i \in 1..n
  BY <1>1, LenProperties
<1>3. /\ r \in Seq(Timers) /\ Len(r) = n - 1
      /\ \A j \in 1..(n - 1) : r[j] = IF j < i THEN s[j] ELSE s[j + 1]
  <2>1. /\ RemoveAt(s, i) \in Seq(Timers) /\ Len(RemoveAt(s, i)) = Len(s) - 1
        /\ \A j \in 1..(Len(s) - 1) : RemoveAt(s, i)[j] = IF j < i THEN s[j] ELSE s[j + 1]
    BY <1>1, RemoveAtIs
  <2> QED
    BY <2>1
<1>4. IsInjective(r)
  BY <1>1, RemoveOnce
<1>5. Linked(g.next, g.prev, r)
  <2> DEFINE next == h.next
             prev == h.prev
             next2 == g.next
             prev2 == g.prev
  <2>1. /\ Linked(next, prev, s)
        /\ \A j \in 1..Len(s) : j # i =>
                /\ next2[s[j]] = IF j = i - 1 THEN After(s, i) ELSE next[s[j]]
                /\ prev2[s[j]] = IF j = i + 1 THEN Before(s, i) ELSE prev[s[j]]
    BY <1>1
  <2> HIDE DEF next, prev, next2, prev2
  <2>2. Linked(next2, prev2, RemoveAt(s, i))
    BY <1>1, <2>1, RemoveLinks
  <2> QED
    BY <2>2 DEF next2, prev2
<1>t. /\ g.head = IF i = 1 THEN (IF i = n THEN NULL ELSE s[i + 1]) ELSE h.head
      /\ n # 1 => g.tail = IF i = n THEN (IF i = 1 THEN NULL ELSE s[i - 1]) ELSE h.tail
  BY DEF After, Before
<1> HIDE DEF n, r
<1>6. g.head = IF Len(r) = 0 THEN NULL ELSE r[1]
  <2>1. CASE n = 1
    <3>1. i = n /\ i = 1 /\ Len(r) = 0
      BY <1>2, <1>3, <2>1
    <3> QED
      BY <1>t, <3>1
  <2>2. CASE n # 1
    <3>1. 1 \in 1..(n - 1) /\ n - 1 # 0 /\ n # 0 /\ (i # 1 => 1 < i) /\ (i = 1 => ~(1 < i) /\ i # n)
      BY <1>2, <2>2
    <3> QED
      BY <1>1, <1>3, <1>t, <3>1
  <2> QED
    BY <2>1, <2>2
<1>7. Len(r) > 0 => g.tail = r[Len(r)]
  <2> SUFFICES ASSUME Len(r) > 0
               PROVE  g.tail = r[n - 1]
    BY <1>3
  <2>1. /\ n - 1 \in 1..(n - 1) /\ n # 1 /\ n > 0 /\ (i = n => n - 1 < i /\ i # 1)
        /\ (i # n => ~(n - 1 < i)) /\ n - 1 + 1 = n
    BY <1>2, <1>3
  <2> QED
    BY <1>1, <1>3, <1>t, <2>1
<1> QED
  BY <1>3, <1>4, <1>5, <1>6, <1>7 DEF Follows, r

\* The fields of a heap.
LEMMA HeapIs ==
    ASSUME NEW h \in Heaps
    PROVE  /\ h.head \in Links /\ h.tail \in Links
           /\ h.next \in [Timers -> Links] /\ h.prev \in [Timers -> Links]
           /\ \A u \in Timers : h.next[u] \in Links /\ h.prev[u] \in Links
BY DEF Heaps

\* The private AddTimer links the timer in behind the node where its walk ends
\* (timer.cpp:120-144).
LEMMA InsertFromIs ==
    ASSUME NEW h, NEW s, Follows(h, s), NEW t \in Timers, ~Contains(s, t),
           NEW when \in [Timers -> Nat], NEW k \in 1..Len(s),
           \A p \in Timers : Contains(s, p) \/ h.next[p] = NULL \/ Contains(s, h.next[p])
    PROVE  /\ PlaceFrom(s, k + 1, when, when[t]) \in (k + 1)..(Len(s) + 1)
           /\ Follows(InsertFrom(h, t, when, s[k]),
                      InsertAt(s, PlaceFrom(s, k + 1, when, when[t]), t))
           /\ \A u \in Timers : u # t /\ ~Contains(s, u) =>
                /\ InsertFrom(h, t, when, s[k]).next[u] = h.next[u]
                /\ InsertFrom(h, t, when, s[k]).prev[u] = h.prev[u]
<1> DEFINE n == Len(s)
           e == when[t]
           q == PlaceFrom(s, k + 1, when, e)
           p == InsertPoint(h.next, when, e, s[k])
           x == h.next[p]
           g == InsertFrom(h, t, when, s[k])
<1>1. /\ s \in Seq(Timers) /\ IsInjective(s) /\ h \in Heaps
      /\ \A i \in 1..n : h.next[s[i]] = After(s, i)
      /\ e \in Nat
  BY DEF Follows, Linked
<1>2. /\ n \in Nat /\ k \in 1..n
      /\ \A i \in 1..n : s[i] \in Timers
      /\ \A i, j \in 1..n : s[i] = s[j] => i = j
  BY <1>1, SeqIs
<1>3. q \in (k + 1)..(n + 1) /\ p = s[q - 1]
  <2> DEFINE next == h.next
  <2>1. /\ \A i \in 1..Len(s) : next[s[i]] = After(s, i)
        /\ \A u \in Timers : Contains(s, u) \/ next[u] = NULL \/ Contains(s, next[u])
    BY <1>1
  <2> HIDE DEF next, e
  <2>2. /\ PlaceFrom(s, k + 1, when, e) \in (k + 1)..(Len(s) + 1)
        /\ InsertPoint(next, when, e, s[k]) = s[PlaceFrom(s, k + 1, when, e) - 1]
    BY <1>1, <2>1, InsertPointIs
  <2> QED
    BY <2>2 DEF next
<1>4. g = [h EXCEPT !.next = [h.next EXCEPT ![p] = t, ![t] = x],
                    !.prev = Set([h.prev EXCEPT ![t] = p], x, t),
                    !.tail = IF x = NULL THEN t ELSE h.tail]
  BY DEF InsertFrom
<1>5. Set([h.prev EXCEPT ![t] = p], x, t) =
        IF x = NULL THEN [h.prev EXCEPT ![t] = p]
        ELSE [[h.prev EXCEPT ![t] = p] EXCEPT ![x] = t]
  BY DEF Set
<1>c. \A i \in 1..n : Contains(s, s[i]) /\ s[i] # t
  BY <1>1, LenProperties DEF Contains
<1> HIDE DEF g, p, q, e, n
<1>6. /\ q - 1 \in 1..n /\ q \in 1..(n + 1) /\ q # 1 /\ q - 1 # q
      /\ (q - 1 = n <=> q = n + 1) /\ q - 1 + 1 = q /\ (q # n + 1 => q \in 1..n)
  BY <1>2, <1>3
<1>7. p \in Timers /\ p # t
  BY <1>2, <1>3, <1>6, <1>c
<1>8. x = IF q = n + 1 THEN NULL ELSE s[q]
  <2>1. h.next[s[q - 1]] = After(s, q - 1)
    BY <1>1, <1>6
  <2> QED
    BY <1>3, <1>6, <2>1 DEF After, n
<1>9. x \in Links /\ x # t /\ (x = NULL <=> q = n + 1) /\ NULL \notin Timers /\ t \in Timers
  BY <1>2, <1>6, <1>8, <1>c, TimerListAssumption DEF Links
<1>10. /\ h.next \in [Timers -> Links] /\ h.prev \in [Timers -> Links]
       /\ h.head \in Links /\ h.tail \in Links
       /\ h = [head |-> h.head, tail |-> h.tail, next |-> h.next, prev |-> h.prev]
  BY <1>1 DEF Heaps
<1> HIDE DEF x
<1> DEFINE next2 == [h.next EXCEPT ![p] = t, ![t] = x]
           prev2 == IF x = NULL THEN [h.prev EXCEPT ![t] = p]
                    ELSE [[h.prev EXCEPT ![t] = p] EXCEPT ![x] = t]
           tail2 == IF x = NULL THEN t ELSE h.tail
<1>11. next2 \in [Timers -> Links] /\ prev2 \in [Timers -> Links] /\ tail2 \in Links
  BY <1>7, <1>9, <1>10 DEF Links
<1>12. \A u \in Timers :
        /\ next2[u] = IF u = t THEN x ELSE IF u = p THEN t ELSE h.next[u]
        /\ prev2[u] = IF u = x THEN t ELSE IF u = t THEN p ELSE h.prev[u]
  BY <1>7, <1>9, <1>10
<1> HIDE DEF next2, prev2, tail2
<1>13. g = [h EXCEPT !.next = next2, !.prev = prev2, !.tail = tail2]
  BY <1>4, <1>5 DEF next2, prev2, tail2
<1>14. /\ g.head = h.head /\ g.tail = tail2 /\ g.next = next2 /\ g.prev = prev2
       /\ g = [head |-> h.head, tail |-> tail2, next |-> next2, prev |-> prev2]
  BY <1>10, <1>13
<1>15. g \in Heaps
  BY <1>10, <1>11, <1>14 DEF Heaps
<1>16. /\ g.head = IF q = 1 THEN t ELSE h.head
       /\ g.tail = IF q = n + 1 THEN t ELSE h.tail
       /\ g.next[t] = IF q = n + 1 THEN NULL ELSE s[q]
       /\ g.prev[t] = IF q = 1 THEN NULL ELSE s[q - 1]
  BY <1>3, <1>6, <1>8, <1>9, <1>12, <1>14 DEF tail2
<1>17. ASSUME NEW i \in 1..n
       PROVE  /\ g.next[s[i]] = IF i = q - 1 THEN t ELSE h.next[s[i]]
              /\ g.prev[s[i]] = IF i = q THEN t ELSE h.prev[s[i]]
  <2>1. s[i] \in Timers /\ s[i] # t /\ (s[i] = p <=> i = q - 1)
    BY <1>2, <1>3, <1>6, <1>c
  <2>2. s[i] = x <=> i = q
    <3>1. CASE q = n + 1
      <4>1. i # q /\ x = NULL
        BY <1>2, <1>9, <3>1
      <4> QED
        BY <1>9, <2>1, <4>1
    <3>2. CASE q # n + 1
      <4>1. q \in 1..n /\ x = s[q]
        BY <1>6, <1>8, <3>2
      <4> QED
        BY <1>2, <4>1
    <3> QED
      BY <3>1, <3>2
  <2> QED
    BY <1>12, <1>14, <2>1, <2>2
<1>18. Follows(g, InsertAt(s, q, t))
  BY <1>6, <1>15, <1>16, <1>17, InsertFollows DEF n
<1>19. ASSUME NEW u \in Timers, u # t, ~Contains(s, u)
       PROVE  g.next[u] = h.next[u] /\ g.prev[u] = h.prev[u]
  <2>1. u # p
    BY <1>3, <1>6, <1>19, <1>c
  <2>2. u # x
    <3>1. q # n + 1 => Contains(s, x)
      BY <1>6, <1>8, <1>c
    <3>2. q = n + 1 => x \notin Timers
      BY <1>9
    <3> QED
      BY <1>19, <3>1, <3>2
  <2> QED
    BY <1>12, <1>14, <1>19, <2>1, <2>2
<1> QED
  BY <1>3, <1>18, <1>19 DEF g, q, e, n

------------------------------------------------------------------------------
(* The operations on the heap.                                             *)

\* The timers out of the list have no links.
Others(h, s) == \A u \in Timers : ~Contains(s, u) => h.next[u] = NULL /\ h.prev[u] = NULL

\* What the operations make of a heap h.
AddTo(h, t, when) ==
    IF h.head = NULL THEN [h EXCEPT !.head = t, !.tail = t]
    ELSE IF when[t] < when[h.head]
    THEN [h EXCEPT !.next[t] = h.head, !.prev[h.head] = t, !.head = t]
    ELSE InsertFrom(h, t, when, h.head)

Unlinked(h, t) ==
    IF t = h.head
    THEN [h EXCEPT !.head = h.next[t], !.prev[h.next[t]] = NULL, !.next[t] = NULL]
    ELSE [h EXCEPT !.next[h.prev[t]] = h.next[t], !.prev[h.next[t]] = h.prev[t]]
AdjustTo(h, t, when) ==
    IF h.next[t] = NULL THEN h
    ELSE IF when[t] < when[h.next[t]] THEN h
    ELSE InsertFrom(Unlinked(h, t), t, when, h.next[t])

UnlinkTo(h, t) ==
    IF t = h.head /\ t = h.tail THEN [h EXCEPT !.head = NULL, !.tail = NULL]
    ELSE IF t = h.head THEN [h EXCEPT !.head = h.next[t], !.prev[h.next[t]] = NULL]
    ELSE IF t = h.tail THEN [h EXCEPT !.tail = h.prev[t], !.next[h.prev[t]] = NULL]
    ELSE [h EXCEPT !.next[h.prev[t]] = h.next[t], !.prev[h.next[t]] = h.prev[t]]

\* The walk does not stop at a timer that expires no later.
LEMMA PlaceNext ==
    ASSUME NEW s \in Seq(Timers), NEW when \in [Timers -> Nat], NEW e \in Nat,
           NEW k \in 1..Len(s), ~(e < when[s[k]])
    PROVE  PlaceFrom(s, k, when, e) = PlaceFrom(s, k + 1, when, e)
<1> DEFINE n == Len(s)
           j == k + 1
           a == PlaceFrom(s, k, when, e)
           b == PlaceFrom(s, j, when, e)
<1>1. /\ n \in Nat /\ k \in 1..n /\ k \in 1..(n + 1) /\ j \in 1..(n + 1) /\ j = k + 1
      /\ \A i \in 1..n : s[i] \in Timers /\ when[s[i]] \in Nat
  BY LenProperties, ElementOfSeq
<1> HIDE DEF j
<1>2. /\ a \in k..(n + 1) /\ (a <= n => e < when[s[a]])
      /\ \A x \in k..(a - 1) : when[s[x]] <= e
  BY <1>1, PlaceFromIs
<1>3. /\ b \in j..(n + 1) /\ (b <= n => e < when[s[b]])
      /\ \A x \in j..(b - 1) : when[s[x]] <= e
  BY <1>1, PlaceFromIs
<1> HIDE DEF n, a, b
<1>4. a # k
  <2>1. k <= n
    BY <1>1
  <2> QED
    BY <1>2, <2>1
<1>5. ~(a < b)
  <2> SUFFICES ASSUME a < b
               PROVE  FALSE
    OBVIOUS
  <2>1. a \in j..(b - 1) /\ a <= n /\ a \in 1..n
    BY <1>1, <1>2, <1>3, <1>4
  <2>2. when[s[a]] \in Nat
    BY <1>1, <2>1
  <2> QED
    BY <1>2, <1>3, <2>1, <2>2
<1>6. ~(b < a)
  <2> SUFFICES ASSUME b < a
               PROVE  FALSE
    OBVIOUS
  <2>1. b \in k..(a - 1) /\ b <= n /\ b \in 1..n
    BY <1>1, <1>2, <1>3
  <2>2. when[s[b]] \in Nat
    BY <1>1, <2>1
  <2> QED
    BY <1>2, <1>3, <2>1, <2>2
<1>7. a = b
  BY <1>1, <1>2, <1>3, <1>5, <1>6
<1> QED
  BY <1>7 DEF a, b, j

\* The public AddTimer (timer.cpp:16-38).
LEMMA AddToIs ==
    ASSUME NEW h, NEW s, Follows(h, s), Others(h, s), NEW t \in Timers,
           ~Contains(s, t), NEW when \in [Timers -> Nat]
    PROVE  /\ PlaceFrom(s, 1, when, when[t]) \in 1..(Len(s) + 1)
           /\ Follows(AddTo(h, t, when), AddTimer(s, t, when))
           /\ Others(AddTo(h, t, when), AddTimer(s, t, when))
<1> DEFINE n == Len(s)
           e == when[t]
           q == PlaceFrom(s, 1, when, e)
           g == AddTo(h, t, when)
<1>1. /\ s \in Seq(Timers) /\ IsInjective(s) /\ h \in Heaps
      /\ h.head = (IF n = 0 THEN NULL ELSE s[1])
      /\ e \in Nat
  BY DEF Follows
<1>2. /\ n \in Nat
      /\ \A i \in 1..n : s[i] \in Timers
      /\ \A i, j \in 1..n : s[i] = s[j] => i = j
      /\ NULL \notin Timers /\ t # NULL
  BY <1>1, SeqIs, TimerListAssumption
<1>3. /\ q \in 1..(n + 1)
      /\ \A j \in 1..(q - 1) : when[s[j]] <= e
  <2>1. 1 \in 1..(n + 1)
    BY <1>2
  <2> HIDE DEF e
  <2> QED
    BY <1>1, <2>1, PlaceFromIs
<1>4. AddTimer(s, t, when) = InsertAt(s, q, t)
  BY DEF AddTimer
<1>5. /\ h.next \in [Timers -> Links] /\ h.prev \in [Timers -> Links]
      /\ h.head \in Links /\ h.tail \in Links
      /\ h = [head |-> h.head, tail |-> h.tail, next |-> h.next, prev |-> h.prev]
  BY <1>1 DEF Heaps
<1>6. h.next[t] = NULL /\ h.prev[t] = NULL
  BY DEF Others
<1>7. t \in Links /\ NULL \in Links /\ \A i \in 1..n : s[i] \in Links /\ s[i] # t
  BY <1>1, <1>2, LenProperties DEF Contains, Links
<1>g. g = IF h.head = NULL THEN [h EXCEPT !.head = t, !.tail = t]
          ELSE IF e < when[h.head]
          THEN [h EXCEPT !.next[t] = h.head, !.prev[h.head] = t, !.head = t]
          ELSE InsertFrom(h, t, when, h.head)
  BY DEF AddTo
<1> HIDE DEF n, q, g, e
<1> DEFINE Goal == /\ Follows(g, InsertAt(s, q, t))
                   /\ \A u \in Timers : u # t /\ ~Contains(s, u) =>
                        g.next[u] = h.next[u] /\ g.prev[u] = h.prev[u]
<1>8. ASSUME n = 0
      PROVE  Goal
  <2>1. q = 1 /\ q = n + 1 /\ h.head = NULL
    BY <1>1, <1>3, <1>8
  <2>2. g = [h EXCEPT !.head = t, !.tail = t]
    BY <1>g, <2>1
  <2>3. /\ g.head = t /\ g.tail = t /\ g.next = h.next /\ g.prev = h.prev
        /\ g = [head |-> t, tail |-> t, next |-> h.next, prev |-> h.prev]
    BY <1>5, <2>2
  <2>4. g \in Heaps
    BY <1>5, <1>7, <2>3 DEF Heaps
  <2>5. \A i \in 1..n : FALSE
    BY <1>8
  <2>6. Follows(g, InsertAt(s, q, t))
    BY <1>6, <2>1, <2>3, <2>4, <2>5, InsertFollows DEF n
  <2> QED
    BY <2>3, <2>6
<1>9. ASSUME n # 0 /\ e < when[s[1]]
      PROVE  Goal
  <2>0. 1 \in 1..n /\ h.head = s[1] /\ s[1] \in Timers /\ s[1] # NULL /\ s[1] # t /\ when[s[1]] \in Nat
    BY <1>1, <1>2, <1>7, <1>9
  <2>1. q = 1 /\ q # n + 1 /\ q \in 1..(n + 1)
    <3>1. 1 \notin 1..(q - 1)
      BY <1>1, <1>3, <1>9, <2>0 DEF e
    <3> QED
      BY <1>2, <1>3, <1>9, <3>1
  <2> DEFINE next2 == [h.next EXCEPT ![t] = s[1]]
             prev2 == [h.prev EXCEPT ![s[1]] = t]
  <2>2. g = [h EXCEPT !.head = t, !.next = next2, !.prev = prev2]
    BY <1>5, <1>9, <1>g, <2>0
  <2>3. next2 \in [Timers -> Links] /\ prev2 \in [Timers -> Links]
    BY <1>5, <1>7, <2>0
  <2>4. \A u \in Timers : /\ next2[u] = IF u = t THEN s[1] ELSE h.next[u]
                          /\ prev2[u] = IF u = s[1] THEN t ELSE h.prev[u]
    BY <1>5
  <2> HIDE DEF next2, prev2
  <2>5. /\ g.head = t /\ g.tail = h.tail /\ g.next = next2 /\ g.prev = prev2
        /\ g = [head |-> t, tail |-> h.tail, next |-> next2, prev |-> prev2]
    BY <1>5, <2>2
  <2>6. g \in Heaps
    BY <1>5, <1>7, <2>3, <2>5 DEF Heaps
  <2>7. ASSUME NEW i \in 1..n
        PROVE  /\ g.next[s[i]] = IF i = q - 1 THEN t ELSE h.next[s[i]]
               /\ g.prev[s[i]] = IF i = q THEN t ELSE h.prev[s[i]]
    <3>1. i # q - 1 /\ s[i] \in Timers /\ s[i] # t /\ (s[i] = s[1] <=> i = q)
      BY <1>2, <1>7, <2>0, <2>1
    <3> QED
      BY <2>4, <2>5, <3>1
  <2>8. g.next[t] = s[q] /\ g.prev[t] = NULL
    BY <1>6, <2>0, <2>1, <2>4, <2>5
  <2>9. Follows(g, InsertAt(s, q, t))
    BY <2>1, <2>5, <2>6, <2>7, <2>8, InsertFollows DEF n
  <2>10. ASSUME NEW u \in Timers, u # t, ~Contains(s, u)
         PROVE  g.next[u] = h.next[u] /\ g.prev[u] = h.prev[u]
    <3>1. u # s[1]
      BY <1>1, <2>0, <2>10, LenProperties DEF Contains, n
    <3> QED
      BY <2>4, <2>5, <2>10, <3>1
  <2> QED
    BY <2>9, <2>10
<1>10. ASSUME n # 0 /\ ~(e < when[s[1]])
      PROVE  Goal
  <2> DEFINE k == 1
  <2>1. k \in 1..n /\ h.head = s[k] /\ s[k] # NULL /\ ~(e < when[s[k]])
    BY <1>1, <1>2, <1>10
  <2>2. g = InsertFrom(h, t, when, s[k])
    BY <1>g, <2>1
  <2>q. q = PlaceFrom(s, k, when, e)
    BY DEF q
  <2> HIDE DEF k
  <2>3. q = PlaceFrom(s, k + 1, when, e)
    BY <1>1, <2>1, <2>q, PlaceNext DEF n
  <2>4. \A p \in Timers : Contains(s, p) \/ h.next[p] = NULL \/ Contains(s, h.next[p])
    BY DEF Others
  <2>5. /\ Follows(InsertFrom(h, t, when, s[k]),
                   InsertAt(s, PlaceFrom(s, k + 1, when, when[t]), t))
        /\ \A u \in Timers : u # t /\ ~Contains(s, u) =>
                /\ InsertFrom(h, t, when, s[k]).next[u] = h.next[u]
                /\ InsertFrom(h, t, when, s[k]).prev[u] = h.prev[u]
    BY <2>1, <2>4, InsertFromIs DEF n
  <2> QED
    BY <2>2, <2>3, <2>5 DEF e
<1>11. Goal
  BY <1>8, <1>9, <1>10
<1>12. Others(g, InsertAt(s, q, t))
  <2> SUFFICES ASSUME NEW u \in Timers, ~Contains(InsertAt(s, q, t), u)
               PROVE  g.next[u] = NULL /\ g.prev[u] = NULL
    BY DEF Others
  <2>1. u # t /\ ~Contains(s, u)
    BY <1>1, <1>3, InsertContains DEF n
  <2> QED
    BY <1>11, <2>1 DEF Others
<1> QED
  BY <1>3, <1>4, <1>11, <1>12 DEF g, q, n, e

\* The neighbours of a node are those of its timer in the list.
LEMMA PlaceIs ==
    ASSUME NEW h, NEW s, Follows(h, s), NEW i \in 1..Len(s)
    PROVE  /\ s[i] \in Timers /\ s[i] # NULL /\ Len(s) \in Nat
           /\ h.next[s[i]] = After(s, i) /\ h.prev[s[i]] = Before(s, i)
           /\ s[i] = h.head <=> i = 1
           /\ s[i] = h.tail <=> i = Len(s)
           /\ i = Len(s) => After(s, i) = NULL
           /\ i # Len(s) => i + 1 \in 1..Len(s) /\ After(s, i) = s[i + 1] /\ s[i + 1] \in Timers
                            /\ s[i + 1] # s[i]
           /\ i = 1 => Before(s, i) = NULL
           /\ i # 1 => i - 1 \in 1..Len(s) /\ Before(s, i) = s[i - 1] /\ s[i - 1] \in Timers
                       /\ s[i - 1] # s[i]
<1> DEFINE n == Len(s)
<1>1. /\ s \in Seq(Timers) /\ IsInjective(s) /\ Linked(h.next, h.prev, s) /\ i \in 1..n
      /\ h.head = IF n = 0 THEN NULL ELSE s[1]
      /\ n > 0 => h.tail = s[n]
  BY DEF Follows
<1>2. /\ n \in Nat
      /\ \A j \in 1..n : s[j] \in Timers
      /\ \A j, k \in 1..n : s[j] = s[k] => j = k
      /\ NULL \notin Timers
  BY <1>1, SeqIs, TimerListAssumption
<1>3. h.next[s[i]] = After(s, i) /\ h.prev[s[i]] = Before(s, i)
  BY <1>1 DEF Linked
<1>4. /\ After(s, i) = IF i = n THEN NULL ELSE s[i + 1]
      /\ Before(s, i) = IF i = 1 THEN NULL ELSE s[i - 1]
  BY DEF After, Before
<1> HIDE DEF n
<1>5. 1 \in 1..n /\ n \in 1..n /\ n # 0 /\ n > 0
  BY <1>1, <1>2
<1>6. i # n => i + 1 \in 1..n /\ i + 1 # i
  BY <1>1, <1>2
<1>7. i # 1 => i - 1 \in 1..n /\ i - 1 # i
  BY <1>1, <1>2
<1>8. /\ s[i] = h.head <=> i = 1
      /\ s[i] = h.tail <=> i = n
  BY <1>1, <1>2, <1>5
<1>9. /\ i # n => s[i + 1] \in Timers /\ s[i + 1] # s[i]
      /\ i # 1 => s[i - 1] \in Timers /\ s[i - 1] # s[i]
  BY <1>1, <1>2, <1>6, <1>7
<1>10. s[i] \in Timers /\ s[i] # NULL
  BY <1>1, <1>2
<1> QED
  BY <1>2, <1>3, <1>4, <1>6, <1>7, <1>8, <1>9, <1>10 DEF n

\* Timers out of the list are none of its nodes.
LEMMA OutsideIs ==
    ASSUME NEW s \in Seq(Timers), NEW u, ~Contains(s, u), NEW i \in 1..Len(s)
    PROVE  u # s[i]
BY LenProperties DEF Contains

\* A node whose neighbours are linked to each other, and the rest as it was, is out.
LEMMA BridgeFollows ==
    ASSUME NEW h, NEW s, Follows(h, s), NEW i \in 1..Len(s), NEW g \in Heaps,
           g.head = IF i = 1 THEN After(s, i) ELSE h.head,
           Len(s) # 1 => g.tail = IF i = Len(s) THEN Before(s, i) ELSE h.tail,
           \A u \in Timers \ {s[i]} :
                /\ g.next[u] = IF u = Before(s, i) THEN After(s, i) ELSE h.next[u]
                /\ g.prev[u] = IF u = After(s, i) THEN Before(s, i) ELSE h.prev[u]
    PROVE  /\ Follows(g, RemoveAt(s, i))
           /\ \A u \in Timers : ~Contains(s, u) => /\ g.next[u] = h.next[u]
                                                   /\ g.prev[u] = h.prev[u]
<1> DEFINE n == Len(s)
<1>1. s \in Seq(Timers) /\ IsInjective(s)
  BY DEF Follows
<1>2. /\ n \in Nat /\ i \in 1..n
      /\ \A j \in 1..n : s[j] \in Timers
      /\ \A j, k \in 1..n : s[j] = s[k] => j = k
      /\ NULL \notin Timers
  BY <1>1, SeqIs, TimerListAssumption
<1>3. /\ i = n => After(s, i) = NULL
      /\ i # n => i + 1 \in 1..n /\ After(s, i) = s[i + 1]
      /\ i = 1 => Before(s, i) = NULL
      /\ i # 1 => i - 1 \in 1..n /\ Before(s, i) = s[i - 1]
  BY PlaceIs
<1>4. \A u \in Timers \ {s[i]} :
                /\ g.next[u] = IF u = Before(s, i) THEN After(s, i) ELSE h.next[u]
                /\ g.prev[u] = IF u = After(s, i) THEN Before(s, i) ELSE h.prev[u]
  OBVIOUS
<1> HIDE DEF n
<1>5. ASSUME NEW j \in 1..n, j # i
      PROVE  /\ g.next[s[j]] = IF j = i - 1 THEN After(s, i) ELSE h.next[s[j]]
             /\ g.prev[s[j]] = IF j = i + 1 THEN Before(s, i) ELSE h.prev[s[j]]
  <2>1. s[j] \in Timers \ {s[i]} /\ s[j] # NULL
    BY <1>2, <1>5
  <2>2. s[j] = Before(s, i) <=> j = i - 1
    <3>1. CASE i = 1
      <4>1. j # i - 1
        BY <1>2, <3>1
      <4> QED
        BY <1>3, <2>1, <3>1, <4>1
    <3>2. CASE i # 1
      BY <1>2, <1>3, <3>2
    <3> QED
      BY <3>1, <3>2
  <2>3. s[j] = After(s, i) <=> j = i + 1
    <3>1. CASE i = n
      <4>1. j # i + 1
        BY <1>2, <3>1
      <4> QED
        BY <1>3, <2>1, <3>1, <4>1
    <3>2. CASE i # n
      BY <1>2, <1>3, <3>2
    <3> QED
      BY <3>1, <3>2
  <2> QED
    BY <1>4, <2>1, <2>2, <2>3
<1>6. Follows(g, RemoveAt(s, i))
  BY <1>5, RemoveFollows DEF n
<1>7. ASSUME NEW u \in Timers, ~Contains(s, u)
      PROVE  g.next[u] = h.next[u] /\ g.prev[u] = h.prev[u]
  <2>1. \A j \in 1..n : u # s[j]
    BY <1>1, <1>7, OutsideIs DEF n
  <2>2. u # Before(s, i) /\ u # After(s, i) /\ u # s[i]
    BY <1>2, <1>3, <2>1
  <2> QED
    BY <1>4, <2>2
<1> QED
  BY <1>6, <1>7

\* The node that AdjustTimer takes out (timer.cpp:47-62).
LEMMA UnlinkedIs ==
    ASSUME NEW h, NEW s, Follows(h, s), NEW i \in 1..Len(s), i # Len(s)
    PROVE  /\ Follows(Unlinked(h, s[i]), RemoveAt(s, i))
           /\ Unlinked(h, s[i]).next[s[i]] \in {NULL, s[i + 1]}
           /\ \A u \in Timers : ~Contains(s, u) => /\ Unlinked(h, s[i]).next[u] = h.next[u]
                                                   /\ Unlinked(h, s[i]).prev[u] = h.prev[u]
<1> DEFINE t == s[i]
           y == s[i + 1]
           x == Before(s, i)
           g == Unlinked(h, t)
<1>1. /\ t \in Timers /\ t # NULL /\ Len(s) \in Nat
      /\ h.next[t] = y /\ h.prev[t] = x
      /\ t = h.head <=> i = 1
      /\ After(s, i) = y /\ y \in Timers /\ y # t
      /\ i = 1 => x = NULL
      /\ i # 1 => x \in Timers /\ x # t
  BY PlaceIs
<1>2. /\ h.next \in [Timers -> Links] /\ h.prev \in [Timers -> Links]
      /\ h.head \in Links /\ h.tail \in Links /\ NULL \in Links /\ NULL \notin Timers
      /\ h = [head |-> h.head, tail |-> h.tail, next |-> h.next, prev |-> h.prev]
  BY TimerListAssumption DEF Follows, Heaps, Links
<1>g. g = IF t = h.head
          THEN [h EXCEPT !.head = h.next[t], !.prev[h.next[t]] = NULL, !.next[t] = NULL]
          ELSE [h EXCEPT !.next[h.prev[t]] = h.next[t], !.prev[h.next[t]] = h.prev[t]]
  BY DEF Unlinked
<1>n. Len(s) # 1 /\ i # Len(s)
  BY <1>1
<1> HIDE DEF t, y, x, g
<1>3. /\ g \in Heaps
      /\ g.head = IF i = 1 THEN y ELSE h.head
      /\ g.tail = h.tail
      /\ \A u \in Timers \ {t} : /\ g.next[u] = IF u = x THEN y ELSE h.next[u]
                                 /\ g.prev[u] = IF u = y THEN x ELSE h.prev[u]
      /\ g.next[t] \in {NULL, y}
  <2>1. CASE i = 1
    <3> DEFINE next2 == [h.next EXCEPT ![t] = NULL]
               prev2 == [h.prev EXCEPT ![y] = NULL]
    <3>1. g = [h EXCEPT !.head = y, !.prev = prev2, !.next = next2]
      BY <1>1, <1>2, <1>g, <2>1
    <3>2. next2 \in [Timers -> Links] /\ prev2 \in [Timers -> Links]
      BY <1>1, <1>2
    <3>3. \A u \in Timers : /\ next2[u] = IF u = t THEN NULL ELSE h.next[u]
                            /\ prev2[u] = IF u = y THEN NULL ELSE h.prev[u]
      BY <1>2
    <3> HIDE DEF next2, prev2
    <3>4. /\ g.head = y /\ g.tail = h.tail /\ g.next = next2 /\ g.prev = prev2
          /\ g = [head |-> y, tail |-> h.tail, next |-> next2, prev |-> prev2]
      BY <1>2, <3>1
    <3>5. g \in Heaps
      BY <1>1, <1>2, <3>2, <3>4 DEF Heaps, Links
    <3> QED
      BY <1>1, <1>2, <2>1, <3>3, <3>4, <3>5
  <2>2. CASE i # 1
    <3> DEFINE next2 == [h.next EXCEPT ![x] = y]
               prev2 == [h.prev EXCEPT ![y] = x]
    <3>1. g = [h EXCEPT !.next = next2, !.prev = prev2]
      BY <1>1, <1>2, <1>g, <2>2
    <3>2. next2 \in [Timers -> Links] /\ prev2 \in [Timers -> Links]
      BY <1>1, <1>2, <2>2 DEF Links
    <3>3. \A u \in Timers : /\ next2[u] = IF u = x THEN y ELSE h.next[u]
                            /\ prev2[u] = IF u = y THEN x ELSE h.prev[u]
      BY <1>2
    <3> HIDE DEF next2, prev2
    <3>4. /\ g.head = h.head /\ g.tail = h.tail /\ g.next = next2 /\ g.prev = prev2
          /\ g = [head |-> h.head, tail |-> h.tail, next |-> next2, prev |-> prev2]
      BY <1>2, <3>1
    <3>5. g \in Heaps
      BY <1>1, <1>2, <3>2, <3>4 DEF Heaps, Links
    <3>6. g.next[t] = y
      BY <1>1, <2>2, <3>3, <3>4
    <3> QED
      BY <2>2, <3>3, <3>4, <3>5, <3>6
  <2> QED
    BY <2>1, <2>2
<1>4. /\ g.head = IF i = 1 THEN After(s, i) ELSE h.head
      /\ Len(s) # 1 => g.tail = IF i = Len(s) THEN Before(s, i) ELSE h.tail
      /\ \A u \in Timers \ {s[i]} :
            /\ g.next[u] = IF u = Before(s, i) THEN After(s, i) ELSE h.next[u]
            /\ g.prev[u] = IF u = After(s, i) THEN Before(s, i) ELSE h.prev[u]
  BY <1>1, <1>3, <1>n DEF t, x
<1>5. /\ Follows(g, RemoveAt(s, i))
      /\ \A u \in Timers : ~Contains(s, u) => /\ g.next[u] = h.next[u]
                                              /\ g.prev[u] = h.prev[u]
  BY <1>3, <1>4, BridgeFollows
<1> QED
  BY <1>3, <1>5 DEF g, t, y

\* AdjustTimer (timer.cpp:39-62).
LEMMA AdjustToIs ==
    ASSUME NEW h, NEW s, Follows(h, s), Others(h, s), NEW t \in Timers,
           Contains(s, t), NEW when \in [Timers -> Nat]
    PROVE  /\ Follows(AdjustTo(h, t, when), AdjustTimer(s, t, when))
           /\ Others(AdjustTo(h, t, when), AdjustTimer(s, t, when))
           /\ \A u \in Timers : Contains(AdjustTimer(s, t, when), u) <=> Contains(s, u)
<1> DEFINE i == IndexOf(s, t)
           rest == RemoveAt(s, i)
           e == when[t]
           q == PlaceFrom(rest, i + 1, when, e)
           g == AdjustTo(h, t, when)
           f == Unlinked(h, t)
<1>1. s \in Seq(Timers) /\ IsInjective(s)
  BY DEF Follows
<1>2. i \in 1..Len(s) /\ s[i] = t
  BY <1>1, IndexOfIs
<1>3. AdjustTimer(s, t, when) = IF i = Len(s) \/ when[t] < when[s[i + 1]] THEN s
                                ELSE InsertAt(rest, q, t)
  BY DEF AdjustTimer
<1>4. g = IF h.next[t] = NULL THEN h
          ELSE IF when[t] < when[h.next[t]] THEN h
          ELSE InsertFrom(f, t, when, h.next[t])
  BY DEF AdjustTo
<1> HIDE DEF i, g, f
<1>5. /\ h.next[t] = NULL <=> i = Len(s)
      /\ i # Len(s) => h.next[t] = s[i + 1] /\ i + 1 \in 1..Len(s)
      /\ Len(s) \in Nat
  BY <1>2, PlaceIs, TimerListAssumption
<1>6. CASE i = Len(s) \/ when[t] < when[s[i + 1]]
  <2>1. AdjustTimer(s, t, when) = s /\ g = h
    BY <1>3, <1>4, <1>5, <1>6
  <2> QED
    BY <2>1 DEF g
<1>7. CASE ~(i = Len(s) \/ when[t] < when[s[i + 1]])
  <2>1. AdjustTimer(s, t, when) = InsertAt(rest, q, t)
    BY <1>3, <1>7
  <2>2. g = InsertFrom(f, t, when, s[i + 1])
    BY <1>4, <1>5, <1>7
  <2>3. /\ Follows(f, rest)
        /\ f.next[t] \in {NULL, s[i + 1]}
        /\ \A u \in Timers : ~Contains(s, u) => f.next[u] = h.next[u] /\ f.prev[u] = h.prev[u]
    BY <1>2, <1>7, UnlinkedIs DEF f
  <2>4. /\ rest \in Seq(Timers) /\ Len(rest) = Len(s) - 1
        /\ \A j \in 1..(Len(s) - 1) : rest[j] = IF j < i THEN s[j] ELSE s[j + 1]
    BY <1>1, <1>2, RemoveAtIs
  <2>5. \A u : Contains(rest, u) <=> u # t /\ Contains(s, u)
    BY <1>1, <1>2, RemoveContains
  <2> HIDE DEF rest
  <2>6. i \in 1..Len(rest) /\ i \in 1..(Len(s) - 1) /\ ~(i < i)
    BY <1>2, <1>5, <1>7, <2>4
  <2>7. rest[i] = s[i + 1] /\ Contains(rest, s[i + 1])
    <3>1. rest[i] = s[i + 1]
      BY <2>4, <2>6
    <3> QED
      BY <2>4, <2>6, <3>1, LenProperties DEF Contains
  <2>8. \A p \in Timers : Contains(rest, p) \/ f.next[p] = NULL \/ Contains(rest, f.next[p])
    <3> SUFFICES ASSUME NEW p \in Timers, ~Contains(rest, p)
                 PROVE  f.next[p] = NULL \/ Contains(rest, f.next[p])
      OBVIOUS
    <3>1. CASE p = t
      BY <2>3, <2>7, <3>1
    <3>2. CASE p # t
      <4>1. ~Contains(s, p)
        BY <2>5, <3>2
      <4> QED
        BY <2>3, <4>1 DEF Others
    <3> QED
      BY <3>1, <3>2
  <2>9. ~Contains(rest, t)
    BY <2>5
  <2>10. /\ PlaceFrom(rest, i + 1, when, when[t]) \in (i + 1)..(Len(rest) + 1)
         /\ Follows(InsertFrom(f, t, when, rest[i]),
                    InsertAt(rest, PlaceFrom(rest, i + 1, when, when[t]), t))
         /\ \A u \in Timers : u # t /\ ~Contains(rest, u) =>
                /\ InsertFrom(f, t, when, rest[i]).next[u] = f.next[u]
                /\ InsertFrom(f, t, when, rest[i]).prev[u] = f.prev[u]
    BY <2>3, <2>6, <2>8, <2>9, InsertFromIs
  <2>11. /\ q \in (i + 1)..(Len(rest) + 1) /\ Follows(g, InsertAt(rest, q, t))
         /\ \A u \in Timers : u # t /\ ~Contains(rest, u) =>
                g.next[u] = f.next[u] /\ g.prev[u] = f.prev[u]
    BY <2>2, <2>7, <2>10
  <2> HIDE DEF q
  <2>12. q \in 1..(Len(rest) + 1)
    BY <1>5, <2>4, <2>6, <2>11
  <2>13. \A u : Contains(InsertAt(rest, q, t), u) <=> u = t \/ Contains(rest, u)
    BY <2>4, <2>12, InsertContains
  <2>14. \A u \in Timers : Contains(InsertAt(rest, q, t), u) <=> Contains(s, u)
    BY <2>5, <2>13
  <2>15. Others(g, InsertAt(rest, q, t))
    <3> SUFFICES ASSUME NEW u \in Timers, ~Contains(InsertAt(rest, q, t), u)
                 PROVE  g.next[u] = NULL /\ g.prev[u] = NULL
      BY DEF Others
    <3>1. u # t /\ ~Contains(rest, u) /\ ~Contains(s, u)
      BY <2>13, <2>14
    <3>2. h.next[u] = NULL /\ h.prev[u] = NULL
      BY <3>1 DEF Others
    <3> QED
      BY <2>3, <2>11, <3>1, <3>2
  <2> QED
    BY <2>1, <2>11, <2>14, <2>15 DEF g
<1> QED
  BY <1>6, <1>7

\* The node that DelTimer takes out (timer.cpp:64-94).
LEMMA UnlinkToIs ==
    ASSUME NEW h, NEW s, Follows(h, s), NEW i \in 1..Len(s)
    PROVE  /\ Follows(UnlinkTo(h, s[i]), RemoveAt(s, i))
           /\ \A u \in Timers : ~Contains(s, u) => /\ UnlinkTo(h, s[i]).next[u] = h.next[u]
                                                   /\ UnlinkTo(h, s[i]).prev[u] = h.prev[u]
<1> DEFINE t == s[i]
           n == Len(s)
           y == After(s, i)
           x == Before(s, i)
           g == UnlinkTo(h, t)
<1>1. /\ t \in Timers /\ t # NULL /\ n \in Nat
      /\ h.next[t] = y /\ h.prev[t] = x
      /\ t = h.head <=> i = 1
      /\ t = h.tail <=> i = n
      /\ i = n => y = NULL
      /\ i # n => y \in Timers /\ y # t
      /\ i = 1 => x = NULL
      /\ i # 1 => x \in Timers /\ x # t
  BY PlaceIs
<1>2. /\ h.next \in [Timers -> Links] /\ h.prev \in [Timers -> Links]
      /\ h.head \in Links /\ h.tail \in Links /\ NULL \in Links /\ NULL \notin Timers
      /\ h = [head |-> h.head, tail |-> h.tail, next |-> h.next, prev |-> h.prev]
      /\ x \in Links /\ y \in Links
  BY <1>1, TimerListAssumption DEF Follows, Heaps, Links
<1>g. g = IF t = h.head /\ t = h.tail THEN [h EXCEPT !.head = NULL, !.tail = NULL]
          ELSE IF t = h.head
          THEN [h EXCEPT !.head = h.next[t], !.prev[h.next[t]] = NULL]
          ELSE IF t = h.tail
          THEN [h EXCEPT !.tail = h.prev[t], !.next[h.prev[t]] = NULL]
          ELSE [h EXCEPT !.next[h.prev[t]] = h.next[t], !.prev[h.next[t]] = h.prev[t]]
  BY DEF UnlinkTo
<1> HIDE DEF t, y, x, g, n
<1> DEFINE head2 == IF i = 1 THEN y ELSE h.head
           next2 == IF i = 1 THEN h.next ELSE [h.next EXCEPT ![x] = y]
           prev2 == IF i = n THEN h.prev ELSE [h.prev EXCEPT ![y] = x]
<1>3. PICK tail2 \in Links :
        /\ g = [head |-> head2, tail |-> tail2, next |-> next2, prev |-> prev2]
        /\ n # 1 => tail2 = IF i = n THEN x ELSE h.tail
  <2>1. CASE i = 1 /\ i = n
    <3>1. g = [h EXCEPT !.head = NULL, !.tail = NULL]
      BY <1>1, <1>g, <2>1
    <3>2. g = [head |-> NULL, tail |-> NULL, next |-> h.next, prev |-> h.prev]
      BY <1>2, <3>1
    <3> QED
      BY <1>1, <1>2, <2>1, <3>2
  <2>2. CASE i = 1 /\ i # n
    <3>1. g = [h EXCEPT !.head = y, !.prev[y] = NULL]
      BY <1>1, <1>g, <2>2
    <3>2. g = [head |-> y, tail |-> h.tail, next |-> h.next, prev |-> [h.prev EXCEPT ![y] = NULL]]
      BY <1>2, <3>1
    <3> QED
      BY <1>1, <1>2, <2>2, <3>2
  <2>3. CASE i # 1 /\ i = n
    <3>1. g = [h EXCEPT !.tail = x, !.next[x] = NULL]
      BY <1>1, <1>g, <2>3
    <3>2. g = [head |-> h.head, tail |-> x, next |-> [h.next EXCEPT ![x] = NULL], prev |-> h.prev]
      BY <1>2, <3>1
    <3> QED
      BY <1>1, <1>2, <2>3, <3>2
  <2>4. CASE i # 1 /\ i # n
    <3>1. g = [h EXCEPT !.next[x] = y, !.prev[y] = x]
      BY <1>1, <1>g, <2>4
    <3>2. g = [head |-> h.head, tail |-> h.tail, next |-> [h.next EXCEPT ![x] = y],
               prev |-> [h.prev EXCEPT ![y] = x]]
      BY <1>2, <3>1
    <3> QED
      BY <1>2, <2>4, <3>2
  <2> QED
    BY <2>1, <2>2, <2>3, <2>4
<1>4. next2 \in [Timers -> Links] /\ prev2 \in [Timers -> Links] /\ head2 \in Links
  BY <1>1, <1>2
<1>5. \A u \in Timers : /\ next2[u] = IF u = x THEN y ELSE h.next[u]
                        /\ prev2[u] = IF u = y THEN x ELSE h.prev[u]
  BY <1>1, <1>2
<1> HIDE DEF next2, prev2
<1>6. /\ g \in Heaps /\ g.head = head2 /\ g.tail = tail2 /\ g.next = next2 /\ g.prev = prev2
  BY <1>3, <1>4 DEF Heaps
<1>7. /\ g.head = IF i = 1 THEN After(s, i) ELSE h.head
      /\ Len(s) # 1 => g.tail = IF i = Len(s) THEN Before(s, i) ELSE h.tail
      /\ \A u \in Timers \ {s[i]} :
            /\ g.next[u] = IF u = Before(s, i) THEN After(s, i) ELSE h.next[u]
            /\ g.prev[u] = IF u = After(s, i) THEN Before(s, i) ELSE h.prev[u]
  BY <1>3, <1>5, <1>6 DEF x, y, n
<1>8. /\ Follows(g, RemoveAt(s, i))
      /\ \A u \in Timers : ~Contains(s, u) => /\ g.next[u] = h.next[u]
                                              /\ g.prev[u] = h.prev[u]
  BY <1>6, <1>7, BridgeFollows
<1> QED
  BY <1>8 DEF g, t

\* delete of nodes that the list has lost leaves its links, and no others.
LEMMA BlankIs ==
    ASSUME NEW h, NEW s, Follows(h, s), NEW dead,
           \A u \in dead : ~Contains(s, u),
           \A u \in Timers : ~Contains(s, u) /\ u \notin dead =>
                h.next[u] = NULL /\ h.prev[u] = NULL
    PROVE  Follows(Blank(h, dead), s) /\ Others(Blank(h, dead), s)
<1> DEFINE next2 == [u \in Timers |-> IF u \in dead THEN NULL ELSE h.next[u]]
           prev2 == [u \in Timers |-> IF u \in dead THEN NULL ELSE h.prev[u]]
           g == Blank(h, dead)
<1>1. g = [h EXCEPT !.next = next2, !.prev = prev2]
  BY DEF Blank
<1>2. /\ h.next \in [Timers -> Links] /\ h.prev \in [Timers -> Links]
      /\ h.head \in Links /\ h.tail \in Links /\ NULL \in Links
      /\ h = [head |-> h.head, tail |-> h.tail, next |-> h.next, prev |-> h.prev]
  BY DEF Follows, Heaps, Links
<1>3. next2 \in [Timers -> Links] /\ prev2 \in [Timers -> Links]
  BY <1>2
<1>4. \A u \in Timers : /\ next2[u] = IF u \in dead THEN NULL ELSE h.next[u]
                        /\ prev2[u] = IF u \in dead THEN NULL ELSE h.prev[u]
  OBVIOUS
<1> HIDE DEF next2, prev2, g
<1>5. /\ g.head = h.head /\ g.tail = h.tail /\ g.next = next2 /\ g.prev = prev2
      /\ g = [head |-> h.head, tail |-> h.tail, next |-> next2, prev |-> prev2]
  BY <1>1, <1>2
<1>6. g \in Heaps
  BY <1>2, <1>3, <1>5 DEF Heaps
<1>7. /\ s \in Seq(Timers) /\ IsInjective(s) /\ Linked(h.next, h.prev, s)
      /\ h.head = IF Len(s) = 0 THEN NULL ELSE s[1]
      /\ Len(s) > 0 => h.tail = s[Len(s)]
  BY DEF Follows
<1>8. Linked(g.next, g.prev, s)
  <2> SUFFICES ASSUME NEW i \in 1..Len(s)
               PROVE  g.next[s[i]] = After(s, i) /\ g.prev[s[i]] = Before(s, i)
    BY DEF Linked
  <2>1. s[i] \in Timers /\ s[i] \notin dead
    BY <1>7, SeqIs, OutsideIs
  <2>2. h.next[s[i]] = After(s, i) /\ h.prev[s[i]] = Before(s, i)
    BY <1>7 DEF Linked
  <2> QED
    BY <1>4, <1>5, <2>1, <2>2
<1>9. Follows(g, s)
  BY <1>5, <1>6, <1>7, <1>8 DEF Follows
<1>10. Others(g, s)
  BY <1>4, <1>5 DEF Others
<1> QED
  BY <1>9, <1>10 DEF g

\* DelTimer and the delete in it.
LEMMA DelToIs ==
    ASSUME NEW h, NEW s, Follows(h, s), Others(h, s), NEW t \in Timers, Contains(s, t)
    PROVE  /\ Follows(Blank(UnlinkTo(h, t), {t}), DelTimer(s, t))
           /\ Others(Blank(UnlinkTo(h, t), {t}), DelTimer(s, t))
           /\ \A u : Contains(DelTimer(s, t), u) <=> u # t /\ Contains(s, u)
<1> DEFINE i == IndexOf(s, t)
           r == RemoveAt(s, i)
           f == UnlinkTo(h, t)
<1>1. s \in Seq(Timers) /\ IsInjective(s)
  BY DEF Follows
<1>2. i \in 1..Len(s) /\ s[i] = t
  BY <1>1, IndexOfIs
<1>3. DelTimer(s, t) = r
  BY DEF DelTimer
<1> HIDE DEF i, f
<1>4. /\ Follows(f, r)
      /\ \A u \in Timers : ~Contains(s, u) => f.next[u] = h.next[u] /\ f.prev[u] = h.prev[u]
  BY <1>2, UnlinkToIs DEF f
<1>5. \A u : Contains(r, u) <=> u # t /\ Contains(s, u)
  BY <1>1, <1>2, RemoveContains
<1> HIDE DEF r
<1>6. \A u \in Timers : ~Contains(r, u) /\ u \notin {t} => f.next[u] = NULL /\ f.prev[u] = NULL
  BY <1>4, <1>5 DEF Others
<1>7. \A u \in {t} : ~Contains(r, u)
  BY <1>5
<1>8. Follows(Blank(f, {t}), r) /\ Others(Blank(f, {t}), r)
  BY <1>4, <1>6, <1>7, BlankIs
<1> QED
  BY <1>3, <1>5, <1>8 DEF f

\* The loop of Tick leaves the rest of the list (timer.cpp:95-119).
TickTo(h, s, m) ==
    [h EXCEPT !.head = IF m = Len(s) THEN NULL ELSE s[m + 1],
              !.prev = IF m = 0 THEN h.prev
                       ELSE Set(h.prev, IF m = Len(s) THEN NULL ELSE s[m + 1], NULL)]
Firsts(s, m) == {s[i] : i \in 1..m}

LEMMA TickToIs ==
    ASSUME NEW h, NEW s, Follows(h, s), Others(h, s), NEW m \in 0..Len(s)
    PROVE  /\ Follows(Blank(TickTo(h, s, m), Firsts(s, m)), SubSeq(s, m + 1, Len(s)))
           /\ Others(Blank(TickTo(h, s, m), Firsts(s, m)), SubSeq(s, m + 1, Len(s)))
           /\ \A u : Contains(SubSeq(s, m + 1, Len(s)), u)
                        <=> Contains(s, u) /\ u \notin Firsts(s, m)
<1> DEFINE n == Len(s)
           r == SubSeq(s, m + 1, Len(s))
           y == IF m = n THEN NULL ELSE s[m + 1]
           g == TickTo(h, s, m)
           dead == Firsts(s, m)
           prev2 == IF m = 0 \/ m = n THEN h.prev ELSE [h.prev EXCEPT ![y] = NULL]
<1>1. /\ s \in Seq(Timers) /\ IsInjective(s) /\ Linked(h.next, h.prev, s)
      /\ h.head = IF n = 0 THEN NULL ELSE s[1]
      /\ n > 0 => h.tail = s[n]
  BY DEF Follows
<1>2. /\ n \in Nat /\ m \in 0..n
      /\ \A i \in 1..n : s[i] \in Timers
      /\ \A i, j \in 1..n : s[i] = s[j] => i = j
      /\ NULL \notin Timers
  BY <1>1, SeqIs, TimerListAssumption
<1>3. /\ h.next \in [Timers -> Links] /\ h.prev \in [Timers -> Links]
      /\ h.head \in Links /\ h.tail \in Links /\ NULL \in Links
      /\ h = [head |-> h.head, tail |-> h.tail, next |-> h.next, prev |-> h.prev]
  BY DEF Follows, Heaps, Links
<1>m. /\ m # n => m + 1 \in 1..n
      /\ \A j \in (m + 1)..n : j \in 1..n /\ m # n
      /\ m = n /\ n > 0 => m # 0
  BY <1>2
<1>4. y \in Links /\ (m # n => y \in Timers /\ y # NULL /\ y = s[m + 1]) /\ (m = n => y = NULL)
  BY <1>2, <1>m DEF Links
<1>5. g = [h EXCEPT !.head = y, !.prev = prev2]
  <2>1. Set(h.prev, y, NULL) = IF y = NULL THEN h.prev ELSE [h.prev EXCEPT ![y] = NULL]
    BY DEF Set
  <2>2. g = [h EXCEPT !.head = y, !.prev = IF m = 0 THEN h.prev ELSE Set(h.prev, y, NULL)]
    BY DEF TickTo
  <2>3. prev2 = IF m = 0 THEN h.prev ELSE Set(h.prev, y, NULL)
    <3> HIDE DEF y
    <3> QED
      BY <1>4, <2>1
  <2> HIDE DEF g, prev2, y
  <2> QED
    BY <2>2, <2>3
<1> HIDE DEF y, g, n
<1>6. prev2 \in [Timers -> Links]
  BY <1>3, <1>4
<1>7. \A u \in Timers :
        prev2[u] = IF m # 0 /\ m # n /\ u = y THEN NULL ELSE h.prev[u]
  BY <1>3
<1> HIDE DEF prev2
<1>8. /\ g.head = y /\ g.tail = h.tail /\ g.next = h.next /\ g.prev = prev2
      /\ g = [head |-> y, tail |-> h.tail, next |-> h.next, prev |-> prev2]
  BY <1>3, <1>5
<1>9. g \in Heaps
  BY <1>3, <1>4, <1>6, <1>8 DEF Heaps
<1>10. ASSUME NEW j \in (m + 1)..n
       PROVE  /\ g.next[s[j]] = h.next[s[j]]
              /\ g.prev[s[j]] = IF j = m + 1 THEN NULL ELSE h.prev[s[j]]
  <2>1. j \in 1..n /\ m # n /\ s[j] \in Timers /\ m + 1 \in 1..n /\ y = s[m + 1]
    BY <1>2, <1>4, <1>m
  <2>2. s[j] = y <=> j = m + 1
    BY <1>2, <2>1
  <2>3. m = 0 /\ j = m + 1 => h.prev[s[j]] = NULL
    <3>1. h.prev[s[j]] = Before(s, j)
      BY <1>1, <2>1 DEF Linked, n
    <3>2. m = 0 /\ j = m + 1 => j = 1
      BY <2>1
    <3> QED
      BY <3>1, <3>2 DEF Before
  <2> QED
    BY <1>7, <1>8, <2>1, <2>2, <2>3
<1>11. /\ r \in Seq(Timers) /\ Len(r) = n - m
       /\ \A j \in 1..(n - m) : r[j] = s[m + j]
       /\ Linked(g.next, g.prev, r)
  <2> DEFINE next == h.next
             prev == h.prev
             next2 == g.next
             prev3 == g.prev
  <2>1. /\ Linked(next, prev, s) /\ m \in 0..Len(s)
        /\ \A j \in (m + 1)..Len(s) :
                /\ next2[s[j]] = next[s[j]]
                /\ prev3[s[j]] = IF j = m + 1 THEN NULL ELSE prev[s[j]]
    BY <1>1, <1>2, <1>10 DEF n
  <2> HIDE DEF next, prev, next2, prev3
  <2>2. /\ SubSeq(s, m + 1, Len(s)) \in Seq(Timers)
        /\ Len(SubSeq(s, m + 1, Len(s))) = Len(s) - m
        /\ \A j \in 1..(Len(s) - m) : SubSeq(s, m + 1, Len(s))[j] = s[m + j]
        /\ Linked(next2, prev3, SubSeq(s, m + 1, Len(s)))
    BY <1>1, <2>1, SuffixLinks
  <2> QED
    BY <2>2 DEF next2, prev3, n
<1> HIDE DEF r
<1>12. \A j \in 1..(n - m) : m + j \in 1..n /\ m + j \notin 1..m /\ j \in Nat
  BY <1>2
<1>13. IsInjective(r)
  <2>1. DOMAIN r = 1..(n - m)
    BY <1>11, LenProperties
  <2>2. ASSUME NEW a \in 1..(n - m), NEW b \in 1..(n - m), r[a] = r[b]
        PROVE  a = b
    <3>1. m + a = m + b
      BY <1>2, <1>11, <1>12, <2>2
    <3> QED
      BY <1>2, <1>12, <3>1
  <2> QED
    BY <2>1, <2>2 DEF IsInjective
<1>14. g.head = IF Len(r) = 0 THEN NULL ELSE r[1]
  <2>1. CASE m = n
    <3>1. Len(r) = 0
      BY <1>2, <1>11, <2>1
    <3> QED
      BY <1>4, <1>8, <2>1, <3>1
  <2>2. CASE m # n
    <3>1. Len(r) # 0 /\ 1 \in 1..(n - m)
      BY <1>2, <1>11, <2>2
    <3>2. r[1] = s[m + 1]
      BY <1>11, <3>1
    <3> QED
      BY <1>4, <1>8, <2>2, <3>1, <3>2
  <2> QED
    BY <2>1, <2>2
<1>15. Len(r) > 0 => g.tail = r[Len(r)]
  <2> SUFFICES ASSUME Len(r) > 0
               PROVE  g.tail = r[n - m]
    BY <1>11
  <2> DEFINE k == n - m
  <2>1. k \in 1..(n - m) /\ m + k = n /\ n > 0
    BY <1>2, <1>11
  <2> HIDE DEF k
  <2>2. r[k] = s[n]
    BY <1>11, <2>1
  <2> QED
    BY <1>1, <1>8, <2>1, <2>2 DEF k
<1>16. Follows(g, r)
  BY <1>9, <1>11, <1>13, <1>14, <1>15 DEF Follows
<1>17. ASSUME NEW u
       PROVE  Contains(r, u) <=> Contains(s, u) /\ u \notin dead
  <2>1. /\ Contains(r, u) <=> \E j \in 1..(n - m) : r[j] = u
        /\ Contains(s, u) <=> \E j \in 1..n : s[j] = u
        /\ u \in dead <=> \E j \in 1..m : s[j] = u
    BY <1>1, <1>11, LenProperties DEF Contains, Firsts, n
  <2>2. ASSUME NEW j \in 1..(n - m)
        PROVE  \E k \in 1..n : k \notin 1..m /\ r[j] = s[k]
    BY <1>11, <1>12
  <2>3. ASSUME NEW k \in 1..n, k \notin 1..m
        PROVE  \E j \in 1..(n - m) : r[j] = s[k]
    <3> DEFINE j == k - m
    <3>1. j \in 1..(n - m) /\ m + j = k
      BY <1>2, <2>3
    <3> HIDE DEF j
    <3> QED
      BY <1>11, <3>1
  <2>4. \A k \in 1..m : k \in 1..n
    BY <1>2
  <2>5. Contains(r, u) => \E k \in 1..n : k \notin 1..m /\ s[k] = u
    BY <2>1, <2>2
  <2>6. (\E k \in 1..n : k \notin 1..m /\ s[k] = u) => Contains(r, u)
    BY <2>1, <2>3
  <2>7. (\E k \in 1..n : k \notin 1..m /\ s[k] = u) <=> Contains(s, u) /\ u \notin dead
    BY <1>2, <2>1, <2>4
  <2> QED
    BY <2>5, <2>6, <2>7
<1>18. \A u \in dead : ~Contains(r, u)
  BY <1>17
<1>19. ASSUME NEW u \in Timers, ~Contains(r, u), u \notin dead
       PROVE  g.next[u] = NULL /\ g.prev[u] = NULL
  <2>1. ~Contains(s, u)
    BY <1>17, <1>19
  <2>2. h.next[u] = NULL /\ h.prev[u] = NULL
    BY <2>1 DEF Others
  <2> QED
    BY <1>7, <1>8, <2>2
<1> HIDE DEF dead
<1>20. Follows(Blank(g, dead), r) /\ Others(Blank(g, dead), r)
  BY <1>16, <1>18, <1>19, BlankIs
<1> QED
  BY <1>17, <1>20 DEF g, r, dead

------------------------------------------------------------------------------
(* The invariant of the links: they follow the list, which has the live     *)
(* timers and no other, and what is not live is blank.                     *)

Sound ==
    /\ Follows(heap, ListOf(heap))
    /\ Others(heap, ListOf(heap))
    /\ live \subseteq Timers
    /\ \A t \in Timers : t \in live <=> Contains(ListOf(heap), t)
    /\ expire \in [Timers -> Nat]
    /\ \A t \in Timers : t \notin live => expire[t] = 0
    /\ now \in 0..MaxNow
    /\ Len(fired) <= Cardinality(Timers)

\* A step to a heap that follows r makes r the list.
LEMMA Becomes ==
    ASSUME NEW r, Follows(heap', r), Others(heap', r), live' \subseteq Timers,
           \A t \in Timers : t \in live' <=> Contains(r, t),
           expire' \in [Timers -> Nat], \A t \in Timers : t \notin live' => expire'[t] = 0,
           now' \in 0..MaxNow, Len(fired') <= Cardinality(Timers)
    PROVE  Sound' /\ List' = r
<1>1. ListOf(heap') = r
  BY ListOfIs
<1>2. List' = ListOf(heap')
  BY ListIs
<1> QED
  BY <1>1, <1>2 DEF Sound

LEMMA NoneFired ==
    ASSUME fired' = <<>>
    PROVE  Len(fired') <= Cardinality(Timers)
<1>1. Cardinality(Timers) \in Nat
  BY FS_CardinalityType, TimerListAssumption
<1> QED
  BY <1>1

\* The empty list.
LEMMA LinksInit == ASSUME Init PROVE Sound /\ TS!TSInit
<1>1. Follows(heap, <<>>)
  <2>1. heap \in Heaps
    BY DEF Init, Heaps, Links
  <2>2. <<>> \in Seq(Timers) /\ IsInjective(<<>>) /\ Len(<<>>) = 0
    BY DEF IsInjective
  <2>3. Linked(heap.next, heap.prev, <<>>)
    BY DEF Linked
  <2> QED
    BY <2>1, <2>2, <2>3 DEF Init, Follows
<1>2. ListOf(heap) = <<>>
  BY <1>1, ListOfIs
<1>3. Others(heap, <<>>) /\ \A t : ~Contains(<<>>, t)
  BY DEF Init, Others, Contains
<1>4. Cardinality(Timers) \in Nat
  BY FS_CardinalityType, TimerListAssumption
<1>5. expire \in [Timers -> Nat] /\ now \in 0..MaxNow /\ Len(fired) <= Cardinality(Timers)
  BY <1>4, TimerListAssumption DEF Init
<1>6. Sound
  BY <1>1, <1>2, <1>3, <1>5 DEF Sound, Init
<1>7. List = <<>>
  BY <1>2, ListIs
<1> QED
  BY <1>6, <1>7 DEF Init, TS!TSInit

\* Each operation on the heap is one on the list.
LEMMA LinksAdd ==
    ASSUME Sound, NEW t \in Timers, Add(t)
    PROVE  Sound' /\ TS!TSAdd(t)
<1> DEFINE s == ListOf(heap)
           e == now + Delay
           when == [expire EXCEPT ![t] = e]
           r == AddTimer(s, t, when)
<1>1. /\ Follows(heap, s) /\ Others(heap, s) /\ live \subseteq Timers
      /\ \A u \in Timers : u \in live <=> Contains(s, u)
      /\ expire \in [Timers -> Nat] /\ now \in Nat /\ now \in 0..MaxNow
      /\ \A u \in Timers : u \notin live => expire[u] = 0
  BY TimerListAssumption DEF Sound
<1>2. /\ t \notin live /\ live' = live \cup {t} /\ expire' = when
      /\ fired' = <<>> /\ now' = now
  BY DEF Add, Deadline
<1>3. heap' = AddTo(heap, t, when)
  BY DEF Add, Deadline, AddTo
<1>4. when \in [Timers -> Nat] /\ \A u \in Timers : u # t => when[u] = expire[u]
  <2>1. e \in Nat
    BY <1>1, TimerListAssumption
  <2> HIDE DEF e
  <2> QED
    BY <1>1, <2>1
<1> HIDE DEF when, s, e
<1>5. ~Contains(s, t)
  BY <1>1, <1>2
<1>6. /\ PlaceFrom(s, 1, when, when[t]) \in 1..(Len(s) + 1)
      /\ Follows(heap', r) /\ Others(heap', r)
  BY <1>1, <1>3, <1>4, <1>5, AddToIs
<1>7. \A u : Contains(r, u) <=> u = t \/ Contains(s, u)
  <2>1. s \in Seq(Timers)
    BY <1>1 DEF Follows
  <2> QED
    BY <1>6, <2>1, InsertContains DEF AddTimer
<1> HIDE DEF r
<1>8. Len(fired') <= Cardinality(Timers)
  BY <1>2, NoneFired
<1>9. /\ live' \subseteq Timers /\ \A u \in Timers : u \in live' <=> Contains(r, u)
      /\ expire' \in [Timers -> Nat] /\ \A u \in Timers : u \notin live' => expire'[u] = 0
      /\ now' \in 0..MaxNow
  BY <1>1, <1>2, <1>4, <1>7
<1>10. Sound' /\ List' = r
  BY <1>6, <1>8, <1>9, Becomes
<1>11. TS!TSAdd(t)
  <2>1. List = s
    BY ListIs DEF s
  <2>2. ~TS!Contains(List, t)
    BY <1>5, <2>1, SameOperators
  <2>3. List' = TS!AddTimer(List, t, expire')
    BY <1>2, <1>10, <2>1, SameOperators DEF r
  <2>4. expire' = [expire EXCEPT ![t] = TS!Deadline]
    BY <1>2 DEF when, e, TS!Deadline
  <2> QED
    BY <1>2, <2>2, <2>3, <2>4 DEF TS!TSAdd
<1> QED
  BY <1>10, <1>11

LEMMA LinksAdjust ==
    ASSUME Sound, NEW t \in Timers, Adjust(t)
    PROVE  Sound' /\ TS!TSAdjust(t)
<1> DEFINE s == ListOf(heap)
           e == now + Delay
           when == [expire EXCEPT ![t] = e]
           r == AdjustTimer(s, t, when)
<1>1. /\ Follows(heap, s) /\ Others(heap, s) /\ live \subseteq Timers
      /\ \A u \in Timers : u \in live <=> Contains(s, u)
      /\ expire \in [Timers -> Nat] /\ now \in Nat /\ now \in 0..MaxNow
      /\ \A u \in Timers : u \notin live => expire[u] = 0
  BY TimerListAssumption DEF Sound
<1>2. /\ t \in live /\ live' = live /\ expire' = when
      /\ fired' = <<>> /\ now' = now
  BY DEF Adjust, Deadline
<1>3. heap' = AdjustTo(heap, t, when)
  BY DEF Adjust, Deadline, AdjustTo, Unlinked
<1>4. when \in [Timers -> Nat] /\ \A u \in Timers : u # t => when[u] = expire[u]
  <2>1. e \in Nat
    BY <1>1, TimerListAssumption
  <2> HIDE DEF e
  <2> QED
    BY <1>1, <2>1
<1> HIDE DEF when, s, e
<1>5. Contains(s, t)
  BY <1>1, <1>2
<1>6. /\ Follows(heap', r) /\ Others(heap', r)
      /\ \A u \in Timers : Contains(r, u) <=> Contains(s, u)
  BY <1>1, <1>3, <1>4, <1>5, AdjustToIs
<1> HIDE DEF r
<1>7. Len(fired') <= Cardinality(Timers)
  BY <1>2, NoneFired
<1>8. /\ live' \subseteq Timers /\ \A u \in Timers : u \in live' <=> Contains(r, u)
      /\ expire' \in [Timers -> Nat] /\ \A u \in Timers : u \notin live' => expire'[u] = 0
      /\ now' \in 0..MaxNow
  BY <1>1, <1>2, <1>4, <1>6
<1>9. Sound' /\ List' = r
  BY <1>6, <1>7, <1>8, Becomes
<1>10. TS!TSAdjust(t)
  <2>1. List = s
    BY ListIs DEF s
  <2>2. TS!Contains(List, t)
    BY <1>5, <2>1, SameOperators
  <2>3. List' = TS!AdjustTimer(List, t, expire')
    BY <1>2, <1>9, <2>1, SameOperators DEF r
  <2>4. expire' = [expire EXCEPT ![t] = TS!Deadline]
    BY <1>2 DEF when, e, TS!Deadline
  <2> QED
    BY <1>2, <2>2, <2>3, <2>4 DEF TS!TSAdjust
<1> QED
  BY <1>9, <1>10

LEMMA LinksDel ==
    ASSUME Sound, NEW t \in Timers, Del(t)
    PROVE  Sound' /\ TS!TSDel(t)
<1> DEFINE s == ListOf(heap)
           r == DelTimer(s, t)
<1>1. /\ Follows(heap, s) /\ Others(heap, s) /\ live \subseteq Timers
      /\ \A u \in Timers : u \in live <=> Contains(s, u)
      /\ expire \in [Timers -> Nat] /\ now \in 0..MaxNow
      /\ \A u \in Timers : u \notin live => expire[u] = 0
  BY DEF Sound
<1>2. /\ t \in live /\ live' = live \ {t}
      /\ expire' = [u \in Timers |-> IF u \in {t} THEN 0 ELSE expire[u]]
      /\ fired' = <<>> /\ now' = now
  BY DEF Del, Delete
<1>3. heap' = Blank(UnlinkTo(heap, t), {t})
  BY DEF Del, Unlink, UnlinkTo
<1>4. expire' \in [Timers -> Nat] /\ \A u \in Timers : expire'[u] = IF u = t THEN 0 ELSE expire[u]
  BY <1>1, <1>2
<1> HIDE DEF s
<1>5. Contains(s, t)
  BY <1>1, <1>2
<1>6. /\ Follows(heap', r) /\ Others(heap', r)
      /\ \A u : Contains(r, u) <=> u # t /\ Contains(s, u)
  BY <1>1, <1>3, <1>5, DelToIs
<1> HIDE DEF r
<1>7. Len(fired') <= Cardinality(Timers)
  BY <1>2, NoneFired
<1>8. /\ live' \subseteq Timers /\ \A u \in Timers : u \in live' <=> Contains(r, u)
      /\ \A u \in Timers : u \notin live' => expire'[u] = 0
      /\ now' \in 0..MaxNow
  BY <1>1, <1>2, <1>4, <1>6
<1>9. Sound' /\ List' = r
  BY <1>4, <1>6, <1>7, <1>8, Becomes
<1>10. TS!TSDel(t)
  <2>1. List = s
    BY ListIs DEF s
  <2>2. TS!Contains(List, t)
    BY <1>5, <2>1, SameOperators
  <2>3. List' = TS!DelTimer(List, t)
    BY <1>9, <2>1, SameOperators DEF r
  <2>4. expire' = [expire EXCEPT ![t] = 0]
    BY <1>1, <1>2
  <2> QED
    BY <1>2, <2>2, <2>3, <2>4 DEF TS!TSDel
<1> QED
  BY <1>9, <1>10

\* Tick stops behind the timers that have expired.
LEMMA TickIs ==
    ASSUME NEW s, Follows(heap, s), expire \in [Timers -> Nat], now \in Nat, Tick
    PROVE  \E m \in 0..Len(s) :
           /\ m = ExpiredPrefix(s, expire, now)
           /\ fired' = [i \in 1..m |-> s[i]]
           /\ heap' = Blank(TickTo(heap, s, m), Firsts(s, m))
           /\ Delete(Firsts(s, m))
           /\ now' = now
<1> DEFINE n == Len(s)
           c == Cardinality(Timers)
           w == NodeAt
           m == ExpiredPrefix(s, expire, now)
           Stops(i) == w[i] = NULL \/ now < expire[w[i]]
           stop == CHOOSE i \in DOMAIN w : Stops(i) /\ \A j \in 1..(i - 1) : ~Stops(j)
           dead == {w[i] : i \in 1..(stop - 1)}
<1>1. s \in Seq(Timers) /\ IsInjective(s) /\ IsFiniteSet(Timers) /\ NULL \notin Timers
  BY TimerListAssumption DEF Follows
<1>2. /\ n \in Nat /\ c \in Nat /\ n <= c
      /\ \A i \in 1..n : s[i] \in Timers /\ s[i] # NULL /\ expire[s[i]] \in Nat
  BY <1>1, SeqIs, LengthBound
<1>3. w = [i \in 1..(c + 1) |-> IF i <= n THEN s[i] ELSE NULL]
  BY WalkIs, NodeAtIs
<1>4. /\ m \in 0..n
      /\ \A i \in 1..m : expire[s[i]] <= now
      /\ m < n => now < expire[s[m + 1]]
  BY <1>1, ExpiredPrefixIs
<1>6. /\ fired' = [i \in 1..(stop - 1) |-> w[i]]
      /\ heap' = Blank([heap EXCEPT !.head = w[stop],
                                      !.prev = IF stop = 1 THEN heap.prev
                                               ELSE Set(heap.prev, w[stop], NULL)],
                         dead)
      /\ Delete(dead)
      /\ now' = now
  BY DEF Tick, TickStopsAt
<1> HIDE DEF w, n, c, m
<1>7. DOMAIN w = 1..(c + 1) /\ \A i \in 1..(c + 1) : w[i] = IF i <= n THEN s[i] ELSE NULL
  BY <1>3
<1> DEFINE k == m + 1
<1>8. /\ k \in 1..(c + 1) /\ k - 1 = m /\ (k = 1 <=> m = 0) /\ (k <= n <=> m # n)
      /\ (m # n => k \in 1..n /\ m < n)
      /\ \A j \in 1..m : j \in 1..n /\ j <= n /\ j \in 1..(c + 1) /\ j < k
  BY <1>2, <1>4
<1>9. w[k] = IF m = n THEN NULL ELSE s[m + 1]
  <2> HIDE DEF k
  <2>1. w[k] = IF m = n THEN NULL ELSE s[k]
    BY <1>7, <1>8
  <2> QED
    BY <2>1 DEF k
<1>10. Stops(k)
  BY <1>4, <1>8, <1>9
<1>11. \A j \in 1..m : ~Stops(j)
  <2> SUFFICES ASSUME NEW j \in 1..m
               PROVE  ~Stops(j)
    OBVIOUS
  <2>1. w[j] = s[j] /\ s[j] # NULL /\ expire[s[j]] \in Nat /\ expire[s[j]] <= now
    BY <1>2, <1>4, <1>7, <1>8
  <2> QED
    BY <2>1
<1> HIDE DEF Stops, k
<1>12. stop = k
  <2>1. k \in DOMAIN w /\ Stops(k) /\ \A j \in 1..(k - 1) : ~Stops(j)
    BY <1>7, <1>8, <1>10, <1>11
  <2>2. ASSUME NEW i \in DOMAIN w, Stops(i), \A j \in 1..(i - 1) : ~Stops(j)
        PROVE  i = k
    <3>1. i \in 1..(c + 1)
      BY <1>7
    <3>2. ~(i < k)
      <4> SUFFICES ASSUME i < k
                   PROVE  FALSE
        OBVIOUS
      <4>1. i \in 1..(k - 1)
        BY <1>2, <1>8, <3>1
      <4> QED
        BY <2>1, <2>2, <4>1
    <3>3. ~(k < i)
      <4> SUFFICES ASSUME k < i
                   PROVE  FALSE
        OBVIOUS
      <4>1. k \in 1..(i - 1)
        BY <1>2, <1>8, <3>1
      <4> QED
        BY <2>1, <2>2, <4>1
    <3> QED
      BY <1>2, <1>8, <3>1, <3>2, <3>3
  <2> QED
    BY <2>1, <2>2
<1> HIDE DEF stop
<1>13. stop - 1 = m /\ (stop = 1 <=> m = 0) /\ w[stop] = IF m = n THEN NULL ELSE s[m + 1]
  BY <1>8, <1>9, <1>12
<1>14. \A i \in 1..m : w[i] = s[i]
  BY <1>7, <1>8
<1>15. dead = Firsts(s, m)
  BY <1>13, <1>14 DEF Firsts
<1> HIDE DEF dead
<1>16. fired' = [i \in 1..m |-> s[i]]
  BY <1>6, <1>13, <1>14
<1>17. heap' = Blank(TickTo(heap, s, m), Firsts(s, m))
  BY <1>6, <1>13, <1>15 DEF TickTo, n
<1> QED
  BY <1>4, <1>6, <1>15, <1>16, <1>17 DEF n, m

LEMMA LinksTick ==
    ASSUME Sound, Tick
    PROVE  Sound' /\ TS!TSTick
<1> DEFINE s == ListOf(heap)
<1>1. /\ Follows(heap, s) /\ Others(heap, s) /\ live \subseteq Timers
      /\ \A u \in Timers : u \in live <=> Contains(s, u)
      /\ expire \in [Timers -> Nat] /\ now \in Nat /\ now \in 0..MaxNow
      /\ \A u \in Timers : u \notin live => expire[u] = 0
  BY TimerListAssumption DEF Sound
<1> HIDE DEF s
<1>2. PICK m \in 0..Len(s) :
           /\ m = ExpiredPrefix(s, expire, now)
           /\ fired' = [i \in 1..m |-> s[i]]
           /\ heap' = Blank(TickTo(heap, s, m), Firsts(s, m))
           /\ Delete(Firsts(s, m))
           /\ now' = now
  BY <1>1, TickIs
<1> DEFINE r == SubSeq(s, m + 1, Len(s))
<1>3. /\ Follows(heap', r) /\ Others(heap', r)
      /\ \A u : Contains(r, u) <=> Contains(s, u) /\ u \notin Firsts(s, m)
  BY <1>1, <1>2, TickToIs
<1>4. /\ s \in Seq(Timers) /\ Len(s) \in Nat /\ Len(s) <= Cardinality(Timers)
      /\ Cardinality(Timers) \in Nat /\ \A i \in 1..Len(s) : s[i] \in Timers
  BY <1>1, SeqIs, LengthBound, TimerListAssumption DEF Follows
<1>5. /\ live' = live \ Firsts(s, m)
      /\ expire' = [u \in Timers |-> IF u \in Firsts(s, m) THEN 0 ELSE expire[u]]
  BY <1>2 DEF Delete
<1>6. expire' \in [Timers -> Nat]
  BY <1>1, <1>5
<1>7. fired' = SubSeq(s, 1, m) /\ Len(fired') = m
  <2>1. \A i \in 1..m : s[i] \in Timers
    BY <1>4
  <2>2. 1 \in Int /\ m \in Int /\ m - 1 + 1 = m /\ (~(1 <= m) => m = 0)
        /\ \A i \in 1..m : 1 + i - 1 = i
    BY <1>4
  <2>3. /\ SubSeq(s, 1, m) \in Seq(Timers)
        /\ Len(SubSeq(s, 1, m)) = IF 1 <= m THEN m - 1 + 1 ELSE 0
        /\ \A i \in 1..(m - 1 + 1) : SubSeq(s, 1, m)[i] = s[1 + i - 1]
    BY <1>4, <2>1, <2>2, SubSeqProperties
  <2> DEFINE a == SubSeq(s, 1, m)
  <2> HIDE DEF a
  <2>4. a \in Seq(Timers) /\ Len(a) = m /\ \A i \in 1..m : a[i] = s[i]
    BY <2>2, <2>3 DEF a
  <2>5. a = [i \in 1..m |-> a[i]]
    BY <2>4, LenProperties
  <2>6. a = fired'
    BY <1>2, <2>4, <2>5
  <2> QED
    BY <2>4, <2>6 DEF a
<1> HIDE DEF r
<1>8. Len(fired') <= Cardinality(Timers)
  BY <1>4, <1>7
<1>9. /\ live' \subseteq Timers /\ \A u \in Timers : u \in live' <=> Contains(r, u)
      /\ \A u \in Timers : u \notin live' => expire'[u] = 0
      /\ now' \in 0..MaxNow
  BY <1>1, <1>2, <1>3, <1>5
<1>10. Sound' /\ List' = r
  BY <1>3, <1>6, <1>8, <1>9, Becomes
<1>11. TS!TSTick
  <2>1. List = s
    BY ListIs DEF s
  <2>2. TS!ExpiredPrefix(List, expire, now) = m
    BY <1>2, <2>1, SameOperators
  <2>3. fired' = SubSeq(List, 1, m) /\ List' = SubSeq(List, m + 1, Len(List))
    BY <1>7, <1>10, <2>1 DEF r
  <2>4. expire' = [u \in Timers |-> IF TS!Contains(List', u) THEN expire[u] ELSE 0]
    <3>1. ASSUME NEW u \in Timers
          PROVE  expire'[u] = IF TS!Contains(List', u) THEN expire[u] ELSE 0
      <4>1. TS!Contains(List', u) <=> u \in live'
        BY <1>9, <1>10, SameOperators
      <4> QED
        BY <1>1, <1>5, <4>1
    <3> QED
      BY <1>5, <3>1
  <2> QED
    BY <1>2, <2>2, <2>3, <2>4 DEF TS!TSTick
<1> QED
  BY <1>10, <1>11

LEMMA LinksClock ==
    ASSUME Sound, Clock
    PROVE  Sound' /\ TS!TSClock
<1>1. heap' = heap /\ live' = live /\ expire' = expire /\ fired' = <<>> /\ now' \in 0..MaxNow
  BY DEF Clock
<1>2. Len(fired') <= Cardinality(Timers)
  BY <1>1, NoneFired
<1>3. Sound' /\ List' = ListOf(heap)
  BY <1>1, <1>2, Becomes DEF Sound
<1>4. List' = List
  BY <1>3, ListIs
<1> QED
  BY <1>1, <1>3, <1>4 DEF Clock, TS!TSClock

LEMMA LinksStutter ==
    ASSUME Sound, UNCHANGED vars
    PROVE  Sound' /\ UNCHANGED TS!tsVars
<1>1. heap' = heap /\ live' = live /\ expire' = expire /\ fired' = fired /\ now' = now
  BY DEF vars
<1>2. Sound' /\ List' = ListOf(heap)
  BY <1>1, Becomes DEF Sound
<1>3. List' = List
  BY <1>2, ListIs
<1> QED
  BY <1>1, <1>2, <1>3 DEF TS!tsVars

LEMMA LinksNext ==
    ASSUME Sound, [Next]_vars
    PROVE  Sound' /\ [TS!TSNext]_(TS!tsVars)
<1>1. CASE \E t \in Timers : Add(t) \/ Adjust(t) \/ Del(t)
  <2>1. PICK t \in Timers : Add(t) \/ Adjust(t) \/ Del(t)
    BY <1>1
  <2>2. Sound' /\ (TS!TSAdd(t) \/ TS!TSAdjust(t) \/ TS!TSDel(t))
    BY <2>1, LinksAdd, LinksAdjust, LinksDel
  <2> QED
    BY <2>2 DEF TS!TSNext
<1>2. CASE Tick
  BY <1>2, LinksTick DEF TS!TSNext
<1>3. CASE Clock
  BY <1>3, LinksClock DEF TS!TSNext
<1>4. CASE UNCHANGED vars
  BY <1>4, LinksStutter
<1> QED
  BY <1>1, <1>2, <1>3, <1>4 DEF Next

------------------------------------------------------------------------------
(* The order of the list.                                                  *)

\* As long as the clock has not stepped back the list is sorted, and a full delay
\* from now is no earlier than any expire in it.
Order ==
    stepped \/ (Sorted(List, expire) /\ Bounded(List, expire, now + Delay))

\* The steps of TimerSeq, with the operators of TimerOps.
LEMMA SeqSteps ==
    /\ \A t : TS!TSAdd(t) =>
            /\ ~Contains(List, t) /\ now' = now
            /\ expire' = [expire EXCEPT ![t] = now + Delay]
            /\ List' = AddTimer(List, t, expire')
    /\ \A t : TS!TSAdjust(t) =>
            /\ Contains(List, t) /\ now' = now
            /\ expire' = [expire EXCEPT ![t] = now + Delay]
            /\ List' = AdjustTimer(List, t, expire')
    /\ \A t : TS!TSDel(t) =>
            /\ Contains(List, t) /\ now' = now
            /\ expire' = [expire EXCEPT ![t] = 0]
            /\ List' = DelTimer(List, t)
    /\ TS!TSTick =>
            /\ now' = now
            /\ List' = SubSeq(List, ExpiredPrefix(List, expire, now) + 1, Len(List))
            /\ expire' = [t \in Timers |-> IF Contains(List', t) THEN expire[t] ELSE 0]
<1>1. \A t : TS!TSAdd(t) =>
            /\ ~Contains(List, t) /\ now' = now
            /\ expire' = [expire EXCEPT ![t] = now + Delay]
            /\ List' = AddTimer(List, t, expire')
  BY SameOperators DEF TS!TSAdd, TS!Deadline
<1>2. \A t : TS!TSAdjust(t) =>
            /\ Contains(List, t) /\ now' = now
            /\ expire' = [expire EXCEPT ![t] = now + Delay]
            /\ List' = AdjustTimer(List, t, expire')
  BY SameOperators DEF TS!TSAdjust, TS!Deadline
<1>3. \A t : TS!TSDel(t) =>
            /\ Contains(List, t) /\ now' = now
            /\ expire' = [expire EXCEPT ![t] = 0]
            /\ List' = DelTimer(List, t)
  BY SameOperators DEF TS!TSDel
<1>4. TS!TSTick =>
            /\ now' = now
            /\ List' = SubSeq(List, ExpiredPrefix(List, expire, now) + 1, Len(List))
            /\ expire' = [t \in Timers |-> IF Contains(List', t) THEN expire[t] ELSE 0]
  <2>1. ASSUME TS!TSTick
        PROVE  expire' = [t \in Timers |-> IF Contains(List', t) THEN expire[t] ELSE 0]
    BY <2>1, SameOperators DEF TS!TSTick
  <2> QED
    BY <2>1, SameOperators DEF TS!TSTick
<1> QED
  BY <1>1, <1>2, <1>3, <1>4

\* What the invariant of the links says of the list.
LEMMA SoundList ==
    ASSUME Sound
    PROVE  /\ List \in Seq(Timers) /\ IsInjective(List)
           /\ expire \in [Timers -> Nat] /\ now \in Nat /\ now + Delay \in Nat
           /\ live \subseteq Timers /\ \A t \in Timers : t \in live <=> Contains(List, t)
<1>1. List = ListOf(heap)
  BY ListIs
<1> QED
  BY <1>1, TimerListAssumption DEF Sound, Follows

\* Only the clock can change stepped.
LEMMA SteppedKept ==
    [Next]_vars => Clock \/ stepped' = stepped
<1>1. \A t \in Timers : Add(t) \/ Adjust(t) \/ Del(t) => stepped' = stepped
  BY DEF Add, Adjust, Del
<1>2. Tick => stepped' = stepped
  BY DEF Tick
<1> QED
  BY <1>1, <1>2 DEF Next, vars

SteppedType == stepped \in BOOLEAN

LEMMA SteppedIsBoolean ==
    /\ Init => SteppedType
    /\ SteppedType /\ [Next]_vars => SteppedType'
<1>1. Init => SteppedType
  BY DEF Init, SteppedType
<1>2. Clock => SteppedType'
  BY DEF Clock, SteppedType
<1>3. SteppedType /\ stepped' = stepped => SteppedType'
  BY DEF SteppedType
<1> QED
  BY <1>1, <1>2, <1>3, SteppedKept

\* What a tick leaves has not expired, as long as the clock has not stepped back.
LEMMA TickOrder ==
    ASSUME Sound, Order, TS!TSTick, stepped' = stepped
    PROVE  /\ Order'
           /\ stepped \/ \A i \in 1..Len(List') : now < expire[List'[i]]
<1>1. CASE stepped
  BY <1>1 DEF Order
<1>2. CASE ~stepped
  <2> DEFINE m == ExpiredPrefix(List, expire, now)
             e == now + Delay
  <2>1. /\ List \in Seq(Timers) /\ expire \in [Timers -> Nat] /\ now \in Nat /\ e \in Nat
        /\ Sorted(List, expire) /\ Bounded(List, expire, e)
    BY <1>2, SoundList DEF Order
  <2>2. /\ now' = now
        /\ List' = SubSeq(List, m + 1, Len(List))
        /\ expire' = [t \in Timers |-> IF Contains(List', t) THEN expire[t] ELSE 0]
    BY SeqSteps
  <2>m. m = ExpiredPrefix(List, expire, now)
    OBVIOUS
  <2> HIDE DEF m, e
  <2>3. /\ List' \in Seq(Timers)
        /\ Sorted(List', expire) /\ Bounded(List', expire, e)
        /\ \A i \in 1..Len(List') : now < expire[List'[i]]
    BY <2>1, <2>2, <2>m, TickSorted
  <2>4. \A i \in 1..Len(List') : expire'[List'[i]] = expire[List'[i]]
    BY <2>2, <2>3, ElementOfSeq, LenProperties DEF Contains
  <2>5. Sorted(List', expire') /\ Bounded(List', expire', e)
    BY <2>3, <2>4, SameExpires
  <2> QED
    BY <2>2, <2>3, <2>5 DEF Order, e
<1> QED
  BY <1>1, <1>2

\* A deadline moves on with the clock.
LEMMA DeadlineMoves ==
    ASSUME NEW m \in Nat, NEW n \in Nat, n > m, NEW d \in Nat
    PROVE  m + d <= n + d /\ m + d \in Nat /\ n + d \in Nat
  OBVIOUS

\* Every step keeps the order.
LEMMA OrderNext ==
    ASSUME Sound, Order, [Next]_vars
    PROVE  Order'
<1>1. CASE stepped'
  BY <1>1 DEF Order
<1>2. CASE ~stepped'
  <2> DEFINE e == now + Delay
             Done == Sorted(List', expire') /\ Bounded(List', expire', e)
  <2>s. ~stepped
    <3>1. CASE Clock
      BY <1>2, <3>1 DEF Clock
    <3>2. CASE stepped' = stepped
      BY <1>2, <3>2
    <3> QED
      BY <3>1, <3>2, SteppedKept
  <2>1. /\ List \in Seq(Timers) /\ IsInjective(List) /\ expire \in [Timers -> Nat] /\ e \in Nat
        /\ now \in Nat /\ Sorted(List, expire) /\ Bounded(List, expire, e)
    BY <2>s, SoundList DEF Order
  <2>2. now' = now /\ Done => Order'
    BY DEF Order
  <2>3. ASSUME NEW t \in Timers, TS!TSAdd(t)
        PROVE  now' = now /\ Done
    <3>1. /\ ~Contains(List, t) /\ now' = now
          /\ expire' = [expire EXCEPT ![t] = e]
          /\ List' = AddTimer(List, t, expire')
      BY <2>3, SeqSteps
    <3> HIDE DEF e
    <3> QED
      BY <2>1, <3>1, AddSorted
  <2>4. ASSUME NEW t \in Timers, TS!TSAdjust(t)
        PROVE  now' = now /\ Done
    <3>1. /\ Contains(List, t) /\ now' = now
          /\ expire' = [expire EXCEPT ![t] = e]
          /\ List' = AdjustTimer(List, t, expire')
      BY <2>4, SeqSteps
    <3> HIDE DEF e
    <3> QED
      BY <2>1, <3>1, AdjustSorted
  <2>5. ASSUME NEW t \in Timers, TS!TSDel(t)
        PROVE  now' = now /\ Done
    <3>1. /\ Contains(List, t) /\ now' = now
          /\ expire' = [expire EXCEPT ![t] = 0]
          /\ List' = DelTimer(List, t)
      BY <2>5, SeqSteps
    <3> HIDE DEF e
    <3> QED
      BY <2>1, <3>1, DelSorted
  <2>6. CASE \E t \in Timers : TS!TSAdd(t) \/ TS!TSAdjust(t) \/ TS!TSDel(t)
    BY <2>2, <2>3, <2>4, <2>5, <2>6
  <2>7. CASE Tick
    <3>1. TS!TSTick
      BY <2>7, LinksTick
    <3>2. stepped' = stepped
      BY <2>7 DEF Tick
    <3> QED
      BY <3>1, <3>2, TickOrder
  <2>8. CASE Clock
    <3>1. List' = List /\ expire' = expire /\ now' \in Nat /\ now' > now
      <4>1. heap' = heap
        BY <2>8 DEF Clock
      <4>2. List' = List
        BY <4>1, ListIs
      <4>3. now' \in 0..MaxNow /\ now' # now /\ ~(now' < now) /\ expire' = expire
        BY <1>2, <2>8 DEF Clock
      <4>4. now' \in Nat
        BY <4>3, TimerListAssumption
      <4> QED
        BY <2>1, <4>2, <4>3, <4>4
    <3>2. \A i \in 1..Len(List) : expire[List[i]] \in Nat
      BY <2>1, ElementOfSeq
    <3>3. now + Delay <= now' + Delay /\ now + Delay \in Nat /\ now' + Delay \in Nat
      <4>1. now \in Nat /\ now' \in Nat
        BY <2>1, <3>1
      <4>2. now' > now
        BY <3>1
      <4>3. Delay \in Nat
        BY TimerListAssumption
      <4> QED
        BY <4>1, <4>2, <4>3, DeadlineMoves
    <3>4. Bounded(List, expire, now' + Delay)
      BY <2>1, <3>2, <3>3 DEF Bounded
    <3> QED
      BY <2>1, <3>1, <3>4 DEF Order
  <2>9. CASE UNCHANGED vars
    <3>1. List' = List
      BY <2>9, ListIs DEF vars
    <3> QED
      BY <2>1, <2>9, <3>1 DEF Order, vars
  <2>10. \/ \E t \in Timers : TS!TSAdd(t) \/ TS!TSAdjust(t) \/ TS!TSDel(t)
         \/ Tick \/ Clock \/ UNCHANGED vars
    BY LinksAdd, LinksAdjust, LinksDel DEF Next
  <2> QED
    BY <2>6, <2>7, <2>8, <2>9, <2>10
<1> QED
  BY <1>1, <1>2

\* The empty list is in order.
LEMMA OrderInit == Init => Order
<1> SUFFICES ASSUME Init
             PROVE  Order
  OBVIOUS
<1>1. List = <<>>
  BY LinksInit DEF TS!TSInit
<1>2. Len(List) = 0
  BY <1>1
<1> QED
  BY <1>2 DEF Order, Sorted, Bounded
------------------------------------------------------------------------------
(* The theorems.                                                           *)

\* The heap, the set of live nodes and the callbacks of a tick keep their types:
\* a tick runs no more callbacks than there are timers (timer.cpp:95-119).
THEOREM HeapTypeCorrect == Spec => []TypeOK
<1>1. Init => Sound /\ SteppedType
  BY LinksInit, SteppedIsBoolean
<1>2. Sound /\ SteppedType /\ [Next]_vars => Sound' /\ SteppedType'
  BY LinksNext, SteppedIsBoolean
<1>3. Sound /\ SteppedType => TypeOK
  BY DEF SteppedType, Sound, Follows, Heaps, Links, TypeOK
<1> QED
  BY <1>1, <1>2, <1>3, PTL DEF Spec

\* From the head the links visit the live timers and no other, each once, the
\* back links mirror them, and the tail is their end: no operation of timer.cpp
\* leaves a link to a deleted node where the list can reach it
\* (timer.cpp:16-144).
THEOREM LinksAreRight == Spec => []WellLinked
<1>1. Init => Sound
  BY LinksInit
<1>2. Sound /\ [Next]_vars => Sound'
  BY LinksNext
<1>3. Sound => WellLinked
  <2> SUFFICES ASSUME Sound
               PROVE  WellLinked
    OBVIOUS
  <2> DEFINE s == List
             n == Size
  <2>1. Follows(heap, s) /\ live \subseteq Timers /\ \A t \in Timers : t \in live <=> Contains(s, t)
    BY ListIs DEF Sound
  <2>2. n = Len(s)
    BY <2>1, ListIs, ListOfIs
  <2> HIDE DEF s, n
  <2>3. /\ s \in Seq(Timers) /\ IsInjective(s) /\ Linked(heap.next, heap.prev, s)
        /\ Len(s) > 0 => heap.tail = s[Len(s)]
        /\ \A i \in 1..Len(s) : s[i] \in Timers
    BY <2>1, SeqIs DEF Follows
  <2>4. {s[i] : i \in 1..n} = live
    <3>1. \A t \in live : \E i \in 1..n : s[i] = t
      BY <2>1, <2>2, <2>3, LenProperties DEF Contains
    <3>2. \A i \in 1..n : s[i] \in live
      BY <2>1, <2>2, <2>3, LenProperties DEF Contains
    <3> QED
      BY <3>1, <3>2
  <2>5. n = Cardinality(live)
    <3>1. Len(s) = Cardinality(live)
      BY <2>1, <2>3, CountOnce, TimerListAssumption
    <3> QED
      BY <2>2, <3>1
  <2>6. \A i \in 1..n : heap.prev[s[i]] = IF i = 1 THEN NULL ELSE s[i - 1]
    BY <2>2, <2>3 DEF Linked, Before
  <2>7. n > 0 => heap.tail = s[n]
    BY <2>2, <2>3
  <2> QED
    BY <2>4, <2>5, <2>6, <2>7 DEF WellLinked, s, n
<1> QED
  BY <1>1, <1>2, <1>3, PTL DEF Spec

\* The links implement the operations on sequences, whatever the clock does: the
\* pointers of timer.cpp:16-144 do to the order what TimerSeq says of them.
THEOREM LinksImplementSeq == Spec => ImplementsTimerSeq
<1>1. Init => Sound /\ TS!TSInit
  BY LinksInit
<1>2. Sound /\ [Next]_vars => Sound' /\ [TS!TSNext]_(TS!tsVars)
  BY LinksNext
<1> QED
  BY <1>1, <1>2, PTL DEF Spec, ImplementsTimerSeq, TS!TSSpec

\* As long as the clock has not stepped back the list is ascending, although AdjustTimer
\* only ever moves a timer towards the tail (timer.cpp:46).
THEOREM StaysAscending == Spec => []AscendingWithClock
<1>1. Init => Sound /\ Order
  BY LinksInit, OrderInit
<1>2. Sound /\ Order /\ [Next]_vars => Sound' /\ Order'
  BY LinksNext, OrderNext
<1>3. Sound /\ Order => AscendingWithClock
  <2>1. Sound => Size = Len(List)
    BY ListIs, ListOfIs DEF Sound
  <2> QED
    BY <2>1 DEF Order, Sorted, AscendingWithClock
<1> QED
  BY <1>1, <1>2, <1>3, PTL DEF Spec

\* A tick leaves no timer that has expired, as long as the clock has not stepped back
\* (timer.cpp:106-108).
THEOREM TickIsThorough == Spec => TickLeavesNoExpired
<1> DEFINE Thorough == Tick => stepped \/ \A t \in live' : now < expire[t]
<1>1. Init => Sound /\ Order
  BY LinksInit, OrderInit
<1>2. Sound /\ Order /\ [Next]_vars => Sound' /\ Order'
  BY LinksNext, OrderNext
<1>3. Sound /\ Order /\ [Next]_vars => [Thorough]_vars
  <2> SUFFICES ASSUME Sound, Order, Tick, ~stepped, NEW t \in live'
               PROVE  now < expire[t]
    OBVIOUS
  <2>1. Sound' /\ TS!TSTick
    BY LinksTick
  <2>t. stepped' = stepped
    BY DEF Tick
  <2>2. \A i \in 1..Len(List') : now < expire[List'[i]]
    BY <2>1, <2>t, TickOrder
  <2>3. List' \in Seq(Timers) /\ Contains(List', t)
    BY <2>1, ListIs DEF Sound, Follows
  <2> QED
    BY <2>2, <2>3, LenProperties DEF Contains
<1> QED
  BY <1>1, <1>2, <1>3, PTL DEF Spec, TickLeavesNoExpired
===============================================================================
