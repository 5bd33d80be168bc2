---------------------------- MODULE HttpParse_proofs ----------------------------
(***************************************************************************)
(* Proofs about HttpParse, for any requests, however their bytes are cut   *)
(* into pieces.  A request is three tokens for each line of its head, two  *)
(* for the empty line, and its body (WireIs); IInv says which lines have   *)
(* been consumed and what has been made of them.                           *)
(***************************************************************************)
EXTENDS HttpParse, SequenceTheorems, WellFoundedInduction, TLAPS

Byte == Line \cup Header \cup {"byte", "CR", "LF", "NUL"}

\* The request that is read: its headers, the length of its head, where its lines begin.
Headers == request.headers
HeadLen == 3 * Len(Headers) + 5
Among(h, i) == \E j \in 1..i : Headers[j] = h

\* What is not cut into lines yet is as it was sent.
Unread == \A p \in (m_startLine + 1)..Len(m_readBuf) : m_readBuf[p] = Wire(request)[p]

\* k lines are consumed, the request line among them, and none of them is stray.
Consumed(k) ==
    /\ m_check_state = IF k = 0 THEN "REQUESTLINE" ELSE "HEADER"
    /\ m_startLine = 3 * k
    /\ k > 0 => request.line = "request" /\ m_readBuf[m_startLine] = "NUL"
    /\ \A i \in 1..(k - 1) : Headers[i] \in Header
    /\ m_linger <=> Among("keep", k - 1)
    /\ m_contentLength = IF Among("length", k - 1) THEN Len(request.body) ELSE 0
    /\ m_checkIndex \in {3 * k, 3 * k + 1}
    /\ m_checkIndex = 3 * k + 1 => k <= Len(Headers) /\ (k > 0 => Headers[k] \in Header)
    /\ Unread

InHead == \E k \in 0..(Len(Headers) + 1) : Consumed(k)

\* The head is read and a body is to follow; if it comes in one piece, it is not scanned.
InBodyOf ==
    /\ m_check_state = "CONTENT"
    /\ request.line = "request"
    /\ \A i \in 1..Len(Headers) : Headers[i] \in Header
    /\ m_linger <=> Among("keep", Len(Headers))
    /\ m_contentLength = Len(request.body) /\ request.body # <<>>
    /\ HeadLen <= m_startLine
    /\ m_startLine = HeadLen => Unread
    /\ Whole => m_startLine = HeadLen /\ m_checkIndex = HeadLen
    /\ Whole /\ line_status # "LINE_OK" => sent = HeadLen

Received ==
    /\ sent <= Len(Wire(request))
    /\ Whole => sent <= HeadLen \/ sent = Len(Wire(request))

IInv ==
    /\ TypeOK /\ Received
    /\ pc = "answering" => answer = Meaning(request)
    /\ pc # "answering" => InHead \/ InBodyOf
    /\ Whole => Answered

------------------------------------------------------------------------------
(* What is on the wire.                                                    *)

\* The least number of a set.
LEMMA LeastNumber ==
    ASSUME NEW S \in SUBSET Nat, S # {}
    PROVE  \E m \in S : \A k \in S : m <= k
<1> DEFINE R == {ss \in Nat \X Nat : ss[1] < ss[2]}
<1>1. OpToRel(<, Nat) = R
  BY DEF OpToRel
<1>2. IsWellFoundedOn(R, Nat)
  BY <1>1, NatLessThanWellFounded, Zenon
<1> HIDE DEF R
<1>3. PICK m \in S : \A k \in S : ~(<<k, m>> \in R)
  BY <1>2, WFMin
<1>4. ASSUME NEW k \in S
      PROVE  m <= k
  <2>1. k \in Nat /\ m \in Nat
    OBVIOUS
  <2>2. ~(k < m)
    BY <1>3, <2>1 DEF R
  <2> QED
    BY <2>1, <2>2
<1> QED
  BY <1>4

\* A concatenation step by step, as FlattenSeq makes it, exists.
Step(seqs, f, m) == f = [i \in 1..m |-> IF i = 1 THEN seqs[i] ELSE f[i - 1] \o seqs[i]]

LEMMA StepsExist ==
    ASSUME NEW seqs, NEW n \in Nat, n > 0
    PROVE  \E f : Step(seqs, f, n)
<1> DEFINE Bad == {m \in 1..n : ~\E f : Step(seqs, f, m)}
<1> SUFFICES ASSUME Bad # {}
             PROVE  FALSE
  OBVIOUS
<1>1. PICK m \in Bad : \A k \in Bad : m <= k
  <2>1. Bad \in SUBSET Nat
    OBVIOUS
  <2> HIDE DEF Bad
  <2> QED
    BY <2>1, LeastNumber
<1>2. m \in 1..n /\ ~\E f : Step(seqs, f, m)
  OBVIOUS
<1>3. CASE m = 1
  <2> DEFINE f == [i \in 1..1 |-> seqs[i]]
  <2>1. \A i \in 1..1 : i = 1
    OBVIOUS
  <2>2. Step(seqs, f, 1)
    BY <2>1 DEF Step
  <2> QED
    BY <1>2, <1>3, <2>2
<1>4. CASE m # 1
  <2>1. m - 1 \in 1..n /\ ~(m <= m - 1)
    BY <1>2, <1>4
  <2>2. m - 1 \notin Bad
    BY <1>1, <2>1
  <2>3. PICK f : Step(seqs, f, m - 1)
    BY <2>1, <2>2
  <2> DEFINE g == [i \in 1..m |-> IF i = m THEN f[m - 1] \o seqs[m] ELSE f[i]]
  <2>4. \A i \in 1..(m - 1) : f[i] = IF i = 1 THEN seqs[i] ELSE f[i - 1] \o seqs[i]
    BY <2>3 DEF Step
  <2>5. \A i \in 1..m : g[i] = IF i = 1 THEN seqs[i] ELSE g[i - 1] \o seqs[i]
    <3> TAKE i \in 1..m
    <3>1. CASE i = m
      <4>1. m \in 1..m /\ m - 1 \in 1..m /\ m - 1 # m
        BY <1>2, <1>4
      <4>2. g[m] = f[m - 1] \o seqs[m] /\ g[m - 1] = f[m - 1]
        BY <4>1
      <4> HIDE DEF g
      <4> QED
        BY <1>4, <3>1, <4>2
    <3>2. CASE i # m
      <4>1. i \in 1..(m - 1) /\ g[i] = f[i]
        BY <1>2, <3>2
      <4>2. i # 1 => i - 1 \in 1..m /\ i - 1 # m
        BY <1>2, <3>2
      <4>3. i # 1 => g[i - 1] = f[i - 1]
        BY <4>2
      <4> QED
        BY <2>4, <4>1, <4>3
    <3> QED
      BY <3>1, <3>2
  <2>6. g = [i \in 1..m |-> g[i]]
    OBVIOUS
  <2> HIDE DEF g
  <2>7. Step(seqs, g, m)
    BY <2>5, <2>6 DEF Step
  <2> QED
    BY <1>2, <2>7
<1> QED
  BY <1>3, <1>4

\* Lines of three tokens one after the other.
Lines(s) == [i \in DOMAIN s |-> <<s[i]>> \o CRLF]

LEMMA LineIs ==
    ASSUME NEW e \in Byte
    PROVE  /\ <<e>> \o CRLF \in Seq(Byte) /\ Len(<<e>> \o CRLF) = 3
           /\ (<<e>> \o CRLF)[1] = e /\ (<<e>> \o CRLF)[2] = "CR"
           /\ (<<e>> \o CRLF)[3] = "LF"
BY DEF CRLF, Byte

LEMMA LinesAre ==
    ASSUME NEW s \in Seq(Byte)
    PROVE  /\ FlattenSeq(Lines(s)) \in Seq(Byte)
           /\ Len(FlattenSeq(Lines(s))) = 3 * Len(s)
           /\ \A k \in 1..Len(s) :
                /\ FlattenSeq(Lines(s))[3 * k - 2] = s[k]
                /\ FlattenSeq(Lines(s))[3 * k - 1] = "CR"
                /\ FlattenSeq(Lines(s))[3 * k] = "LF"
<1> DEFINE b == Lines(s)
           n == Len(s)
<1>1. n \in Nat /\ DOMAIN s = 1..n /\ \A k \in 1..n : s[k] \in Byte
  BY LenProperties, ElementOfSeq
<1>2. /\ Len(b) = n
      /\ \A k \in 1..n : /\ b[k] \in Seq(Byte) /\ Len(b[k]) = 3
                         /\ b[k][1] = s[k] /\ b[k][2] = "CR" /\ b[k][3] = "LF"
  <2>1. b \in Seq(Seq(Byte)) /\ Len(b) = n /\ \A k \in 1..n : b[k] = <<s[k]>> \o CRLF
    BY <1>1, LineIs DEF Lines
  <2>2. ASSUME NEW k \in 1..n
        PROVE  /\ b[k] \in Seq(Byte) /\ Len(b[k]) = 3
               /\ b[k][1] = s[k] /\ b[k][2] = "CR" /\ b[k][3] = "LF"
    <3> DEFINE c == <<s[k]>> \o CRLF
    <3>1. /\ c \in Seq(Byte) /\ Len(c) = 3
          /\ c[1] = s[k] /\ c[2] = "CR" /\ c[3] = "LF"
      BY <1>1, LineIs
    <3>2. b[k] = c
      BY <2>1
    <3> HIDE DEF c
    <3> QED
      BY <3>1, <3>2
  <2> QED
    BY <2>1, <2>2
<1> HIDE DEF b
<1>3. CASE n = 0
  <2>1. b = <<>>
    BY <1>1, <1>3 DEF b, Lines
  <2>2. FlattenSeq(b) = <<>>
    BY <1>2, <1>3, <2>1 DEF FlattenSeq
  <2> QED
    BY <1>3, <2>2 DEF b
<1>4. CASE n # 0
  <2> DEFINE f == CHOOSE g : Step(b, g, n)
  <2>1. FlattenSeq(b) = f[n]
    BY <1>2, <1>4 DEF FlattenSeq, Step
  <2>2. Step(b, f, n)
    <3>1. \E g : Step(b, g, n)
      <4>1. n \in Nat /\ n > 0
        BY <1>1, <1>4
      <4> HIDE DEF n
      <4> QED
        BY <4>1, StepsExist
    <3> QED
      BY <3>1
  <2> HIDE DEF f
  <2> DEFINE Good(i) == /\ f[i] \in Seq(Byte) /\ Len(f[i]) = 3 * i
                        /\ \A k \in 1..i : /\ f[i][3 * k - 2] = s[k]
                                           /\ f[i][3 * k - 1] = "CR"
                                           /\ f[i][3 * k] = "LF"
             Bad == {i \in 1..n : ~Good(i)}
  <2>3. ASSUME NEW i \in 1..n, i # 1 => Good(i - 1)
        PROVE  Good(i)
    <3>1. f[i] = IF i = 1 THEN b[i] ELSE f[i - 1] \o b[i]
      BY <2>2 DEF Step
    <3>2. CASE i = 1
      <4>1. f[i] = b[1] /\ \A k \in 1..i : k = 1
        BY <3>1, <3>2
      <4> QED
        BY <1>1, <1>2, <3>2, <4>1
    <3>3. CASE i # 1
      <4> DEFINE a == f[i - 1]
                 c == b[i]
      <4>1. /\ a \in Seq(Byte) /\ Len(a) = 3 * (i - 1)
            /\ \A k \in 1..(i - 1) : /\ a[3 * k - 2] = s[k]
                                     /\ a[3 * k - 1] = "CR"
                                     /\ a[3 * k] = "LF"
        BY <2>3, <3>3
      <4>2. /\ c \in Seq(Byte) /\ Len(c) = 3
            /\ c[1] = s[i] /\ c[2] = "CR" /\ c[3] = "LF"
        BY <1>2
      <4>3. f[i] = a \o c
        BY <3>1, <3>3
      <4> HIDE DEF a, c
      <4>4. /\ a \o c \in Seq(Byte) /\ Len(a \o c) = 3 * i
            /\ \A p \in 1..(3 * i) :
                (a \o c)[p] = IF p <= 3 * (i - 1) THEN a[p] ELSE c[p - 3 * (i - 1)]
        <5>1. /\ a \o c \in Seq(Byte) /\ Len(a \o c) = Len(a) + Len(c)
              /\ \A p \in 1..(Len(a) + Len(c)) :
                    (a \o c)[p] = IF p <= Len(a) THEN a[p] ELSE c[p - Len(a)]
          <6>1. a \in Seq(Byte) /\ c \in Seq(Byte)
            BY <4>1, <4>2
          <6> QED
            BY <6>1, ConcatProperties
        <5>2. 3 * (i - 1) + 3 = 3 * i
          BY <1>1
        <5> QED
          BY <4>1, <4>2, <5>1, <5>2
      <4>5. ASSUME NEW k \in 1..i
            PROVE  /\ (a \o c)[3 * k - 2] = s[k] /\ (a \o c)[3 * k - 1] = "CR"
                   /\ (a \o c)[3 * k] = "LF"
        <5>1. CASE k = i
          <6>1. /\ 3 * i - 2 \in 1..(3 * i) /\ ~(3 * i - 2 <= 3 * (i - 1))
                /\ 3 * i - 1 \in 1..(3 * i) /\ ~(3 * i - 1 <= 3 * (i - 1))
                /\ 3 * i \in 1..(3 * i) /\ ~(3 * i <= 3 * (i - 1))
                /\ 3 * i - 2 - 3 * (i - 1) = 1 /\ 3 * i - 1 - 3 * (i - 1) = 2
                /\ 3 * i - 3 * (i - 1) = 3
            BY <1>1
          <6>2. /\ (a \o c)[3 * i - 2] = c[1] /\ (a \o c)[3 * i - 1] = c[2]
                /\ (a \o c)[3 * i] = c[3]
            BY <4>4, <6>1
          <6> QED
            BY <4>2, <5>1, <6>2
        <5>2. CASE k # i
          <6>1. /\ k \in 1..(i - 1)
                /\ 3 * k - 2 \in 1..(3 * i) /\ 3 * k - 2 <= 3 * (i - 1)
                /\ 3 * k - 1 \in 1..(3 * i) /\ 3 * k - 1 <= 3 * (i - 1)
                /\ 3 * k \in 1..(3 * i) /\ 3 * k <= 3 * (i - 1)
            BY <1>1, <5>2
          <6> QED
            BY <4>1, <4>4, <6>1
        <5> QED
          BY <5>1, <5>2
      <4> QED
        BY <4>3, <4>4, <4>5
    <3> QED
      BY <3>2, <3>3
  <2>4. ASSUME Bad # {}
        PROVE  FALSE
    <3>1. PICK m \in Bad : \A k \in Bad : m <= k
      <4>1. Bad \in SUBSET Nat
        BY <1>1
      <4> HIDE DEF Bad
      <4> QED
        BY <2>4, <4>1, LeastNumber
    <3>2. m \in 1..n /\ ~Good(m)
      OBVIOUS
    <3> HIDE DEF Good
    <3>3. m # 1 => m - 1 \in 1..n /\ ~(m <= m - 1)
      BY <1>1, <3>2
    <3>4. m # 1 => Good(m - 1)
      BY <3>1, <3>3
    <3> QED
      BY <2>3, <3>2, <3>4
  <2>5. Good(n)
    <3> HIDE DEF Good
    <3>1. n \in 1..n
      BY <1>1, <1>4
    <3> QED
      BY <2>4, <3>1
  <2> QED
    BY <2>1, <2>5 DEF b
<1> QED
  BY <1>3, <1>4

LEMMA SeqGrows ==
    ASSUME NEW S, NEW T, S \subseteq T, NEW s \in Seq(S)
    PROVE  s \in Seq(T)
<1>1. Len(s) \in Nat /\ s \in [1..Len(s) -> S]
  BY LenProperties
<1>2. s \in [1..Len(s) -> T]
  BY <1>1
<1> QED
  BY <1>1, <1>2, SeqDef

\* The bytes of a request, and where each of them is.
LEMMA WireIs ==
    ASSUME NEW r \in Requests
    PROVE  /\ Len(r.headers) \in Nat /\ Len(r.body) \in Nat
           /\ r.headers \in Seq(Header \cup Stray) /\ r.line \in Line
           /\ r.body \in Seq({"byte", "CR", "LF"})
           /\ Len(HeadOf(r)) = 3 * Len(r.headers) + 5
           /\ Wire(r) \in Seq(Byte)
           /\ Len(Wire(r)) = 3 * Len(r.headers) + 5 + Len(r.body)
           /\ Wire(r)[1] = r.line
           /\ \A k \in 1..Len(r.headers) : Wire(r)[3 * k + 1] = r.headers[k]
           /\ \A k \in 0..Len(r.headers) :
                Wire(r)[3 * k + 2] = "CR" /\ Wire(r)[3 * k + 3] = "LF"
           /\ Wire(r)[3 * Len(r.headers) + 4] = "CR"
           /\ Wire(r)[3 * Len(r.headers) + 5] = "LF"
           /\ \A j \in 1..Len(r.body) : Wire(r)[3 * Len(r.headers) + 5 + j] = r.body[j]
<1> DEFINE h == r.headers
           n == Len(h)
           body == r.body
           m == Len(body)
           a == <<r.line>> \o CRLF
           f == FlattenSeq(Lines(h))
           c == a \o f
           d == c \o CRLF
           w == d \o body
<1>1. /\ h \in Seq(Header \cup Stray) /\ r.line \in Line
      /\ body \in Seq({"byte", "CR", "LF"})
  BY HttpParseAssumption
<1>2. /\ n \in Nat /\ m \in Nat /\ h \in Seq(Byte) /\ body \in Seq(Byte)
      /\ r.line \in Byte
  <2>1. Header \cup Stray \subseteq Byte /\ {"byte", "CR", "LF"} \subseteq Byte
    BY DEF Byte, Stray
  <2> QED
    BY <1>1, <2>1, SeqGrows, LenProperties DEF Byte
<1>3. /\ a \in Seq(Byte) /\ Len(a) = 3 /\ a[1] = r.line /\ a[2] = "CR" /\ a[3] = "LF"
  BY <1>2, LineIs
<1>4. /\ f \in Seq(Byte) /\ Len(f) = 3 * n
      /\ \A k \in 1..n : f[3 * k - 2] = h[k] /\ f[3 * k - 1] = "CR" /\ f[3 * k] = "LF"
  BY <1>2, LinesAre
<1>5. HeadOf(r) = d
  BY DEF HeadOf, Lines
<1>6. CRLF \in Seq(Byte) /\ Len(CRLF) = 2 /\ CRLF[1] = "CR" /\ CRLF[2] = "LF"
  BY DEF CRLF, Byte
<1>0. n \in Nat
  BY <1>2
<1>b. m \in Nat
  BY <1>2
<1> HIDE DEF a, f, h, n, body, m, w
<1>7. /\ c \in Seq(Byte) /\ Len(c) = 3 + 3 * n
      /\ \A p \in 1..3 : c[p] = a[p]
      /\ \A p \in 1..(3 * n) : c[3 + p] = f[p]
  <2>1. /\ c \in Seq(Byte) /\ Len(c) = Len(a) + Len(f)
        /\ \A p \in 1..(Len(a) + Len(f)) : c[p] = IF p <= Len(a) THEN a[p] ELSE f[p - Len(a)]
    <3>1. a \in Seq(Byte) /\ f \in Seq(Byte)
      BY <1>3, <1>4
    <3> QED
      BY <3>1, ConcatProperties
  <2>2. \A p \in 1..(3 * n) : 3 + p \in 1..(3 + 3 * n) /\ ~(3 + p <= 3) /\ 3 + p - 3 = p
    BY <1>0, <1>b
  <2>3. \A p \in 1..3 : p \in 1..(3 + 3 * n) /\ p <= 3
    BY <1>0, <1>b
  <2> HIDE DEF c
  <2>4. \A p \in 1..(3 + 3 * n) : c[p] = IF p <= 3 THEN a[p] ELSE f[p - 3]
    BY <1>3, <1>4, <2>1
  <2>5. ASSUME NEW p \in 1..(3 * n)
        PROVE  c[3 + p] = f[p]
    BY <2>2, <2>4
  <2> QED
    BY <1>3, <1>4, <2>1, <2>3, <2>4, <2>5
<1> HIDE DEF c
<1>8. /\ d \in Seq(Byte) /\ Len(d) = 5 + 3 * n
      /\ \A p \in 1..(3 + 3 * n) : d[p] = c[p]
      /\ d[3 * n + 4] = "CR" /\ d[3 * n + 5] = "LF"
  <2>1. /\ d \in Seq(Byte) /\ Len(d) = Len(c) + Len(CRLF)
        /\ \A p \in 1..(Len(c) + Len(CRLF)) :
              d[p] = IF p <= Len(c) THEN c[p] ELSE CRLF[p - Len(c)]
    <3>1. c \in Seq(Byte) /\ CRLF \in Seq(Byte)
      BY <1>6, <1>7
    <3> QED
      BY <3>1, ConcatProperties, Zenon
  <2> HIDE DEF d
  <2>2. \A p \in 1..(5 + 3 * n) : d[p] = IF p <= 3 + 3 * n THEN c[p] ELSE CRLF[p - (3 + 3 * n)]
    <3>1. Len(c) + Len(CRLF) = 5 + 3 * n
      BY <1>0, <1>6, <1>7
    <3> QED
      BY <1>7, <2>1, <3>1
  <2>3. /\ 3 * n + 4 \in 1..(5 + 3 * n) /\ ~(3 * n + 4 <= 3 + 3 * n)
        /\ 3 * n + 5 \in 1..(5 + 3 * n) /\ ~(3 * n + 5 <= 3 + 3 * n)
        /\ 3 * n + 4 - (3 + 3 * n) = 1 /\ 3 * n + 5 - (3 + 3 * n) = 2
    BY <1>0, <1>b
  <2>4. d[3 * n + 4] = CRLF[1] /\ d[3 * n + 5] = CRLF[2]
    <3> DEFINE x == 3 * n + 4
               y == 3 * n + 5
    <3>1. d[x] = CRLF[x - (3 + 3 * n)] /\ d[y] = CRLF[y - (3 + 3 * n)]
      <4> HIDE DEF x, y
      <4>1. /\ x \in 1..(5 + 3 * n) /\ ~(x <= 3 + 3 * n)
            /\ y \in 1..(5 + 3 * n) /\ ~(y <= 3 + 3 * n)
        BY <2>3 DEF x, y
      <4> QED
        BY <2>2, <4>1
    <3>2. x - (3 + 3 * n) = 1 /\ y - (3 + 3 * n) = 2
      BY <1>0
    <3> HIDE DEF x, y
    <3>3. d[x] = CRLF[1] /\ d[y] = CRLF[2]
      BY <3>1, <3>2
    <3> QED
      BY <3>3 DEF x, y
  <2>5. Len(d) = 5 + 3 * n
    BY <1>0, <1>6, <1>7, <2>1
  <2>6. \A p \in 1..(3 + 3 * n) : p \in 1..(5 + 3 * n) /\ p <= 3 + 3 * n
    BY <1>0, <1>b
  <2> QED
    BY <1>6, <2>1, <2>2, <2>4, <2>5, <2>6
<1> HIDE DEF d
<1>9. /\ w \in Seq(Byte) /\ Len(w) = 5 + 3 * n + m
      /\ \A p \in 1..(5 + 3 * n) : w[p] = d[p]
      /\ \A j \in 1..m : w[3 * n + 5 + j] = body[j]
  <2>1. /\ w \in Seq(Byte) /\ Len(w) = Len(d) + m
        /\ \A p \in 1..(Len(d) + m) :
              w[p] = IF p <= Len(d) THEN d[p] ELSE body[p - Len(d)]
    BY <1>2, <1>8, ConcatProperties DEF w, m
  <2>3. \A p \in 1..(5 + 3 * n) : p \in 1..(5 + 3 * n + m) /\ p <= 5 + 3 * n
    BY <1>0, <1>b
  <2>4. \A p \in 1..(5 + 3 * n + m) :
            w[p] = IF p <= 5 + 3 * n THEN d[p] ELSE body[p - (5 + 3 * n)]
    BY <1>8, <2>1
  <2>5. ASSUME NEW j \in 1..m
        PROVE  w[3 * n + 5 + j] = body[j]
    <3> DEFINE x == 3 * n + 5 + j
    <3>1. x \in 1..(5 + 3 * n + m) /\ ~(x <= 5 + 3 * n) /\ x - (5 + 3 * n) = j
      BY <1>0, <1>b
    <3> HIDE DEF x
    <3>2. w[x] = body[j]
      BY <2>4, <3>1
    <3> QED
      BY <3>2 DEF x
  <2> QED
    BY <1>8, <2>1, <2>3, <2>4, <2>5
<1>10. Wire(r) = w
  BY <1>5 DEF Wire, w, body
<1>11. \A p \in 1..(3 + 3 * n) : w[p] = c[p]
  <2>1. \A p \in 1..(3 + 3 * n) : p \in 1..(5 + 3 * n)
    BY <1>0, <1>b
  <2> QED
    BY <1>8, <1>9, <2>1
<1>12. w[1] = r.line /\ w[2] = "CR" /\ w[3] = "LF"
  <2>1. 1 \in 1..(3 + 3 * n) /\ 2 \in 1..(3 + 3 * n) /\ 3 \in 1..(3 + 3 * n)
    BY <1>0, <1>b
  <2> QED
    BY <1>3, <1>7, <1>11, <2>1
<1>13. ASSUME NEW k \in 1..n
       PROVE  w[3 * k + 1] = h[k] /\ w[3 * k + 2] = "CR" /\ w[3 * k + 3] = "LF"
  <2>1. /\ 3 * k - 2 \in 1..(3 * n) /\ 3 + (3 * k - 2) = 3 * k + 1
        /\ 3 * k - 1 \in 1..(3 * n) /\ 3 + (3 * k - 1) = 3 * k + 2
        /\ 3 * k \in 1..(3 * n) /\ 3 + 3 * k = 3 * k + 3
        /\ 3 * k + 1 \in 1..(3 + 3 * n) /\ 3 * k + 2 \in 1..(3 + 3 * n)
        /\ 3 * k + 3 \in 1..(3 + 3 * n)
    BY <1>0, <1>b
  <2>2. c[3 * k + 1] = f[3 * k - 2] /\ c[3 * k + 2] = f[3 * k - 1] /\ c[3 * k + 3] = f[3 * k]
    BY <1>7, <2>1
  <2> QED
    BY <1>4, <1>11, <2>1, <2>2
<1>14. w[3 * n + 4] = "CR" /\ w[3 * n + 5] = "LF"
  <2>1. 3 * n + 4 \in 1..(5 + 3 * n) /\ 3 * n + 5 \in 1..(5 + 3 * n)
    BY <1>0, <1>b
  <2> QED
    BY <1>8, <1>9, <2>1
<1>15. ASSUME NEW k \in 0..n
       PROVE  w[3 * k + 2] = "CR" /\ w[3 * k + 3] = "LF"
  <2>1. CASE k = 0
    BY <1>12, <2>1
  <2>2. CASE k # 0
    <3>1. k \in 1..n
      BY <1>0, <2>2
    <3> QED
      BY <1>13, <3>1
  <2> QED
    BY <2>1, <2>2
<1>16. Len(d) = 3 * n + 5 /\ Len(w) = 3 * n + 5 + m
  <2>1. Len(d) = 5 + 3 * n /\ Len(w) = 5 + 3 * n + m
    BY <1>8, <1>9
  <2> QED
    BY <1>0, <1>b, <2>1
<1> QED
  BY <1>1, <1>2, <1>5, <1>9, <1>10, <1>12, <1>13, <1>14, <1>15, <1>16 DEF h, n, body, m

\* Line k: the request line, or a header.
Token(k) == IF k = 0 THEN request.line ELSE Headers[k]

LEMMA Bytes ==
    ASSUME request \in Requests
    PROVE  /\ Len(Headers) \in Nat /\ Len(request.body) \in Nat
           /\ Headers \in Seq(Header \cup Stray) /\ request.line \in Line
           /\ request.body \in Seq({"byte", "CR", "LF"})
           /\ Len(HeadOf(request)) = HeadLen
           /\ Wire(request) \in Seq(Byte)
           /\ Len(Wire(request)) = HeadLen + Len(request.body)
           /\ \A k \in 0..Len(Headers) :
                /\ Wire(request)[3 * k + 1] = Token(k)
                /\ Wire(request)[3 * k + 2] = "CR"
                /\ Wire(request)[3 * k + 3] = "LF"
           /\ Wire(request)[3 * Len(Headers) + 4] = "CR"
           /\ Wire(request)[3 * Len(Headers) + 5] = "LF"
           /\ \A j \in 1..Len(request.body) : Wire(request)[HeadLen + j] = request.body[j]
<1> DEFINE w == Wire(request)
           h == request.headers
           n == Len(h)
<1>1. /\ n \in Nat /\ Len(request.body) \in Nat
      /\ h \in Seq(Header \cup Stray) /\ request.line \in Line
      /\ request.body \in Seq({"byte", "CR", "LF"})
      /\ Len(HeadOf(request)) = 3 * n + 5
      /\ w \in Seq(Byte) /\ Len(w) = 3 * n + 5 + Len(request.body)
      /\ w[1] = request.line
      /\ \A k \in 1..n : w[3 * k + 1] = h[k]
      /\ \A k \in 0..n : w[3 * k + 2] = "CR" /\ w[3 * k + 3] = "LF"
      /\ w[3 * n + 4] = "CR" /\ w[3 * n + 5] = "LF"
      /\ \A j \in 1..Len(request.body) : w[3 * n + 5 + j] = request.body[j]
  BY WireIs
<1> HIDE DEF w, n
<1>2. ASSUME NEW k \in 0..n
      PROVE  w[3 * k + 1] = Token(k)
  <2>1. CASE k = 0
    <3>1. 3 * k + 1 = 1
      BY <2>1
    <3> QED
      BY <1>1, <2>1, <3>1 DEF Token
  <2>2. CASE k # 0
    <3>1. k \in 1..n
      BY <1>1, <2>2
    <3> QED
      BY <1>1, <2>2, <3>1 DEF Token, Headers
  <2> QED
    BY <2>1, <2>2
<1> QED
  BY <1>1, <1>2 DEF w, n, Headers, HeadLen

------------------------------------------------------------------------------
(* ParseLine and GetLine.                                                  *)

\* The scan stops at the first CR or LF, and nowhere if there is none.
LEMMA StopIs ==
    ASSUME TypeOK
    PROVE  \/ /\ Stop = 0
              /\ \A p \in (m_checkIndex + 1)..Len(m_readBuf) : m_readBuf[p] \notin Stray
           \/ /\ Stop \in (m_checkIndex + 1)..Len(m_readBuf)
              /\ m_readBuf[Stop] \in Stray
              /\ \A p \in (m_checkIndex + 1)..(Stop - 1) : m_readBuf[p] \notin Stray
<1> DEFINE c == m_checkIndex
           l == Len(m_readBuf)
           I == {i \in (c + 1)..l : m_readBuf[i] \in {"CR", "LF"}}
<1>1. c \in Nat /\ l \in Nat
  BY LenProperties DEF TypeOK
<1>2. Stop = IF I # {} THEN Min(I) ELSE 0
  BY DEF Stop, SelectInSubSeq
<1>3. CASE I = {}
  BY <1>2, <1>3 DEF Stray
<1>4. CASE I # {}
  <2>1. PICK m \in I : \A k \in I : m <= k
    <3>1. I \in SUBSET Nat
      BY <1>1
    <3> HIDE DEF I
    <3> QED
      BY <1>4, <3>1, LeastNumber
  <2>2. Min(I) \in I /\ \A k \in I : Min(I) <= k
    BY <2>1 DEF Min
  <2>3. Stop \in I /\ \A k \in I : Stop <= k
    BY <1>2, <1>4, <2>2
  <2>4. ASSUME NEW p \in (c + 1)..(Stop - 1)
        PROVE  m_readBuf[p] \notin Stray
    <3>1. Stop \in (c + 1)..l
      BY <2>3
    <3>2. p \in (c + 1)..l /\ ~(Stop <= p)
      BY <1>1, <3>1
    <3> QED
      BY <2>3, <3>2 DEF Stray
  <2> QED
    BY <2>3, <2>4 DEF Stray
<1> QED
  BY <1>3, <1>4

LEMMA StopAt ==
    ASSUME TypeOK, NEW x \in (m_checkIndex + 1)..Len(m_readBuf), m_readBuf[x] \in Stray,
           \A p \in (m_checkIndex + 1)..(x - 1) : m_readBuf[p] \notin Stray
    PROVE  Stop = x
<1> DEFINE c == m_checkIndex
           l == Len(m_readBuf)
<1>1. c \in Nat /\ l \in Nat
  BY LenProperties DEF TypeOK
<1>2. /\ Stop \in (c + 1)..l /\ m_readBuf[Stop] \in Stray
      /\ \A p \in (c + 1)..(Stop - 1) : m_readBuf[p] \notin Stray
  BY StopIs
<1>3. ~(x <= Stop - 1) /\ ~(Stop <= x - 1)
  <2>1. x <= Stop - 1 => x \in (c + 1)..(Stop - 1)
    BY <1>1, <1>2
  <2>2. Stop <= x - 1 => Stop \in (c + 1)..(x - 1)
    BY <1>1, <1>2
  <2> QED
    BY <1>2, <2>1, <2>2
<1> QED
  BY <1>1, <1>2, <1>3

\* What ParseLine does to a buffer at the end of a line.
LEMMA EndedIs ==
    ASSUME TypeOK, NEW i \in 2..Len(m_readBuf)
    PROVE  /\ Ended(i).status = "LINE_OK" /\ Ended(i).check = i
           /\ Ended(i).buf \in Seq(Byte) /\ Len(Ended(i).buf) = Len(m_readBuf)
           /\ Ended(i).buf[i - 1] = "NUL" /\ Ended(i).buf[i] = "NUL"
           /\ \A p \in 1..Len(m_readBuf) :
                p \notin {i - 1, i} => Ended(i).buf[p] = m_readBuf[p]
<1> DEFINE b == m_readBuf
           e == [b EXCEPT ![i - 1] = "NUL", ![i] = "NUL"]
           l == Len(b)
<1>1. /\ b \in Seq(Byte) /\ l \in Nat
      /\ b \in [1..l -> Byte]
  BY LenProperties DEF TypeOK, Byte
<1>2. i - 1 \in 1..l /\ i \in 1..l /\ i # i - 1
  BY <1>1
<1> HIDE DEF b, l
<1>3. /\ e \in [1..l -> Byte] /\ e[i - 1] = "NUL" /\ e[i] = "NUL"
      /\ \A p \in 1..l : p \notin {i - 1, i} => e[p] = b[p]
  BY <1>1, <1>2 DEF Byte
<1> HIDE DEF e
<1>4. e \in Seq(Byte) /\ Len(e) = l
  BY <1>1, <1>3, SeqDef, LenProperties
<1>5. Ended(i) = [status |-> "LINE_OK", check |-> i, buf |-> e]
  BY DEF Ended, e, b
<1> QED
  BY <1>3, <1>4, <1>5 DEF b, l

\* Whatever ParseLine finds, the cursors stay in order; a line takes the scan further.
LEMMA ParseLineIs ==
    ASSUME TypeOK
    PROVE  /\ ParseLine.status \in {"LINE_OK", "LINE_OPEN", "LINE_BAD"}
           /\ ParseLine.check \in Nat
           /\ m_checkIndex <= ParseLine.check /\ ParseLine.check <= Len(m_readBuf)
           /\ ParseLine.buf \in Seq(Byte) /\ Len(ParseLine.buf) = Len(m_readBuf)
           /\ ParseLine.status = "LINE_OK" => m_checkIndex < ParseLine.check
           /\ ParseLine.status # "LINE_OK" => ParseLine.buf = m_readBuf
<1> DEFINE c == m_checkIndex
           b == m_readBuf
           l == Len(b)
           Fine(s) == /\ s.status \in {"LINE_OK", "LINE_OPEN", "LINE_BAD"}
                      /\ s.check \in Nat /\ c <= s.check /\ s.check <= l
                      /\ s.buf \in Seq(Byte) /\ Len(s.buf) = l
                      /\ s.status = "LINE_OK" => c < s.check
                      /\ s.status # "LINE_OK" => s.buf = b
<1>1. c \in Nat /\ l \in Nat /\ c <= l /\ b \in Seq(Byte)
  BY LenProperties DEF TypeOK, Byte
<1>2. \/ Stop = 0
      \/ Stop \in (c + 1)..l /\ b[Stop] \in {"CR", "LF"}
  BY StopIs DEF Stray
<1>3. ASSUME NEW st \in {"LINE_OPEN", "LINE_BAD"}, NEW i \in Nat, c <= i, i <= l
      PROVE  Fine(NotEnded(st, i))
  BY <1>1, <1>3 DEF NotEnded
<1>4. ASSUME NEW i \in 2..l, c < i
      PROVE  Fine(Ended(i))
  <2>1. /\ Ended(i).status = "LINE_OK" /\ Ended(i).check = i
        /\ Ended(i).buf \in Seq(Byte) /\ Len(Ended(i).buf) = l
    BY EndedIs
  <2>2. i \in Nat /\ c <= i /\ i <= l
    BY <1>1, <1>4
  <2> QED
    BY <1>4, <2>1, <2>2
<1> HIDE DEF Fine
<1>5. CASE Stop = 0
  BY <1>1, <1>3, <1>5 DEF ParseLine, Fine
<1>6. CASE Stop # 0
  <2>1. Stop \in (c + 1)..l /\ Stop \in Nat /\ c <= Stop - 1 /\ Stop - 1 <= l /\ Stop - 1 \in Nat
    BY <1>1, <1>2, <1>6
  <2>2. Stop # l => Stop + 1 \in 2..l /\ c < Stop + 1
    BY <1>1, <2>1
  <2>3. Stop > 2 => Stop \in 2..l /\ c < Stop
    BY <1>1, <2>1
  <2>4. /\ Fine(NotEnded("LINE_OPEN", Stop - 1)) /\ Fine(NotEnded("LINE_BAD", Stop - 1))
        /\ Stop # l => Fine(Ended(Stop + 1))
        /\ Stop > 2 => Fine(Ended(Stop))
    BY <1>3, <1>4, <2>1, <2>2, <2>3
  <2>5. Fine(ParseLine)
    BY <1>6, <2>4 DEF ParseLine
  <2> QED
    BY <2>5 DEF Fine
<1> QED
  BY <1>5, <1>6

\* A line is what comes before its '\0'.
LEMMA TextIs ==
    ASSUME NEW buf \in Seq(Byte), m_startLine \in Nat,
           NEW x \in (m_startLine + 1)..Len(buf), buf[x] = "NUL",
           \A p \in (m_startLine + 1)..(x - 1) : buf[p] # "NUL"
    PROVE  TextOf(buf) = SubSeq(buf, m_startLine + 1, x - 1)
<1> DEFINE s == m_startLine
           l == Len(buf)
           rest == SubSeq(buf, s + 1, l)
           I == {i \in 1..Len(rest) : rest[i] = "NUL"}
           end == x - s
<1>1. l \in Nat /\ s \in Nat
  BY LenProperties
<1>2. /\ rest \in Seq(Byte) /\ Len(rest) = l - s
      /\ \A i \in 1..(l - s) : rest[i] = buf[s + i]
  <2>1. \A i \in (s + 1)..l : buf[i] \in Byte
    <3>1. \A i \in (s + 1)..l : i \in 1..l
      BY <1>1
    <3> QED
      BY <3>1, ElementOfSeq
  <2>2. /\ rest \in Seq(Byte) /\ Len(rest) = IF s + 1 <= l THEN l - (s + 1) + 1 ELSE 0
        /\ \A i \in 1..(l - (s + 1) + 1) : rest[i] = buf[s + 1 + i - 1]
    BY <1>1, <2>1, SubSeqProperties
  <2>3. s + 1 <= l /\ l - (s + 1) + 1 = l - s /\ \A i \in 1..(l - s) : s + 1 + i - 1 = s + i
    BY <1>1
  <2> HIDE DEF rest
  <2> QED
    BY <2>2, <2>3
<1>3. end \in 1..(l - s) /\ s + end = x /\ end \in Nat
  BY <1>1
<1> HIDE DEF rest
<1>4. end \in I
  <2> HIDE DEF end
  <2> QED
    BY <1>2, <1>3
<1>5. ASSUME NEW i \in I
      PROVE  end <= i
  <2>1. i \in 1..(l - s) /\ buf[s + i] = "NUL"
    BY <1>2
  <2>2. ~(i < end)
    <3>1. i < end => s + i \in (s + 1)..(x - 1)
      BY <1>1, <2>1
    <3> QED
      BY <2>1, <3>1
  <2> QED
    BY <1>1, <2>1, <2>2
<1>6. Min(I) = end
  <2>1. \A i \in I : i \in Nat
    BY <1>1, <1>2
  <2> HIDE DEF I, end
  <2>2. Min(I) \in I /\ \A k \in I : Min(I) <= k
    BY <1>4, <1>5 DEF Min
  <2>3. end <= Min(I) /\ Min(I) <= end /\ Min(I) \in Nat
    BY <1>4, <1>5, <2>1, <2>2
  <2> QED
    BY <1>3, <2>3
<1>7. SelectInSeq(rest, LAMBDA c : c = "NUL") = end
  <2>1. I # {}
    BY <1>4
  <2> QED
    BY <1>6, <2>1 DEF SelectInSeq
<1>8. TextOf(buf) = SubSeq(rest, 1, end - 1)
  <2>1. end # 0
    BY <1>3
  <2> HIDE DEF end
  <2> QED
    BY <1>7, <2>1 DEF TextOf, rest
<1>9. SubSeq(rest, 1, end - 1) = SubSeq(buf, s + 1, x - 1)
  <2>1. SubSeq(rest, 1, end - 1) = [i \in 1..(end - 1) |-> rest[i]]
    <3>1. end - 1 \in Int
      BY <1>3
    <3> HIDE DEF end
    <3> QED
      BY <3>1
  <2>2. SubSeq(buf, s + 1, x - 1) = [i \in 1..(end - 1) |-> buf[s + i]]
    BY <1>1
  <2>3. \A i \in 1..(end - 1) : i \in 1..(l - s)
    BY <1>1
  <2> QED
    BY <1>2, <2>1, <2>2, <2>3
<1> QED
  BY <1>8, <1>9

LEMMA OneElement ==
    ASSUME NEW S, NEW s \in Seq(S), NEW m \in 1..Len(s)
    PROVE  SubSeq(s, m, m) = <<s[m]>>
<1> DEFINE t == SubSeq(s, m, m)
<1>1. m \in Int /\ m - m + 1 = 1 /\ m + 1 - 1 = m /\ m <= m
  BY LenProperties
<1>2. \A i \in m..m : s[i] \in S
  <2>1. \A i \in m..m : i = m
    BY <1>1
  <2>2. s[m] \in S
    BY ElementOfSeq
  <2> QED
    BY <2>1, <2>2
<1>3. /\ t \in Seq(S)
      /\ Len(t) = IF m <= m THEN m - m + 1 ELSE 0
      /\ \A i \in 1..(m - m + 1) : t[i] = s[m + i - 1]
  <2>1. m \in Int
    BY <1>1
  <2> QED
    BY <1>2, <2>1, SubSeqProperties, SMTT(30)
<1> HIDE DEF t
<1>4. t \in Seq(S) /\ Len(t) = 1 /\ t[1] = s[m]
  BY <1>1, <1>3
<1>5. t = <<s[m]>>
  BY <1>4
<1> QED
  BY <1>5 DEF t

\* The text of a line of one token, and of an empty one.
LEMMA TokenText ==
    ASSUME TypeOK, m_startLine + 3 <= Len(m_readBuf), m_readBuf[m_startLine + 1] # "NUL"
    PROVE  TextOf(Ended(m_startLine + 3).buf) = <<m_readBuf[m_startLine + 1]>>
<1> DEFINE s == m_startLine
           l == Len(m_readBuf)
           e == Ended(s + 3).buf
<1>1. s \in Nat /\ l \in Nat
  BY LenProperties DEF TypeOK
<1>2. /\ e \in Seq(Byte) /\ Len(e) = l /\ e[s + 2] = "NUL"
      /\ e[s + 1] = m_readBuf[s + 1]
  <2> DEFINE i == s + 3
  <2>1. i \in 2..l /\ i - 1 = s + 2 /\ s + 1 \in 1..l /\ s + 1 # i /\ s + 1 # i - 1
    BY <1>1
  <2>2. /\ e \in Seq(Byte) /\ Len(e) = l /\ Ended(i).buf[i - 1] = "NUL"
        /\ \A p \in 1..l : p \notin {i - 1, i} => Ended(i).buf[p] = m_readBuf[p]
    <3> HIDE DEF i
    <3> QED
      BY <2>1, EndedIs DEF i
  <2> HIDE DEF i
  <2> QED
    BY <2>1, <2>2 DEF i
<1> HIDE DEF e
<1>3. TextOf(e) = SubSeq(e, s + 1, s + 1)
  <2> DEFINE x == s + 2
  <2>1. x \in (s + 1)..Len(e) /\ e[x] = "NUL" /\ x - 1 = s + 1
    BY <1>1, <1>2
  <2>2. \A p \in (s + 1)..(x - 1) : e[p] # "NUL"
    <3>1. \A p \in (s + 1)..(x - 1) : p = s + 1
      BY <1>1
    <3> QED
      BY <1>2, <3>1
  <2> HIDE DEF x
  <2>3. TextOf(e) = SubSeq(e, s + 1, x - 1)
    BY <1>1, <1>2, <2>1, <2>2, TextIs
  <2> QED
    BY <2>1, <2>3
<1>4. SubSeq(e, s + 1, s + 1) = <<e[s + 1]>>
  <2> DEFINE m == s + 1
  <2>1. m \in 1..Len(e)
    BY <1>1, <1>2
  <2> HIDE DEF m
  <2>2. SubSeq(e, m, m) = <<e[m]>>
    BY <1>2, <2>1, OneElement
  <2> QED
    BY <2>2 DEF m
<1> QED
  BY <1>2, <1>3, <1>4 DEF e

LEMMA EmptyText ==
    ASSUME TypeOK, m_startLine + 2 <= Len(m_readBuf)
    PROVE  TextOf(Ended(m_startLine + 2).buf) = <<>>
<1> DEFINE s == m_startLine
           l == Len(m_readBuf)
           i == s + 2
           x == s + 1
           e == Ended(i).buf
<1>1. s \in Nat /\ l \in Nat
  BY LenProperties DEF TypeOK
<1>2. i \in 2..l /\ i - 1 = x /\ x - 1 = s
  BY <1>1
<1>3. e \in Seq(Byte) /\ Len(e) = l /\ e[i - 1] = "NUL"
  <2> HIDE DEF i
  <2> QED
    BY <1>2, EndedIs
<1> HIDE DEF e
<1>4. x \in (s + 1)..Len(e) /\ e[x] = "NUL" /\ \A p \in (s + 1)..(x - 1) : e[p] # "NUL"
  BY <1>1, <1>2, <1>3
<1> HIDE DEF x
<1>5. TextOf(e) = SubSeq(e, s + 1, x - 1)
  BY <1>1, <1>3, <1>4, TextIs
<1>6. SubSeq(e, s + 1, s) = <<>>
  BY <1>1, SubSeqEmpty
<1> QED
  BY <1>2, <1>5, <1>6 DEF e

\* What ParseLine finds where line k begins, unless a header is a stray CR or LF.
LEMMA AtLine ==
    ASSUME TypeOK, NEW k \in 0..Len(Headers), Consumed(k), Token(k) \notin Stray
    PROVE  /\ Len(m_readBuf) < 3 * k + 3 =>
                ParseLine.status = "LINE_OPEN" /\ ParseLine.check \in {3 * k, 3 * k + 1}
           /\ 3 * k + 3 <= Len(m_readBuf) =>
                ParseLine = Ended(3 * k + 3) /\ TextOf(ParseLine.buf) = <<Token(k)>>
<1> DEFINE s == 3 * k
           b == m_readBuf
           l == Len(b)
           w == Wire(request)
<1>1. /\ k \in Nat /\ s \in Nat /\ l \in Nat /\ m_startLine = s
      /\ m_checkIndex \in {s, s + 1} /\ m_checkIndex \in Nat
      /\ s <= m_checkIndex /\ m_checkIndex <= l
  BY Bytes, LenProperties DEF TypeOK, Consumed
<1>2. \A p \in (s + 1)..l : b[p] = w[p]
  BY <1>1 DEF Consumed, Unread
<1>3. w[s + 1] = Token(k) /\ w[s + 2] = "CR" /\ w[s + 3] = "LF"
  BY Bytes DEF TypeOK
<1> HIDE DEF w, s
<1>4. /\ s + 1 <= l => b[s + 1] = Token(k)
      /\ s + 2 <= l => b[s + 2] = "CR"
      /\ s + 3 <= l => b[s + 3] = "LF"
  <2>1. /\ s + 1 <= l => s + 1 \in (s + 1)..l
        /\ s + 2 <= l => s + 2 \in (s + 1)..l
        /\ s + 3 <= l => s + 3 \in (s + 1)..l
    BY <1>1
  <2> QED
    BY <1>2, <1>3, <2>1
<1> HIDE DEF b, l
<1>5. ASSUME l < s + 2
      PROVE  Stop = 0
  <2>1. \A p \in (m_checkIndex + 1)..l : p = s + 1 /\ s + 1 <= l
    BY <1>1, <1>5
  <2>2. \A p \in (m_checkIndex + 1)..l : b[p] \notin Stray
    BY <1>4, <2>1
  <2> QED
    BY <2>2, StopIs DEF b, l
<1>6. ASSUME s + 2 <= l
      PROVE  Stop = s + 2
  <2> DEFINE x == s + 2
  <2>1. x \in (m_checkIndex + 1)..l
    BY <1>1, <1>6
  <2>2. b[x] \in Stray
    BY <1>4, <1>6 DEF Stray
  <2>3. \A p \in (m_checkIndex + 1)..(x - 1) : b[p] \notin Stray
    <3>1. \A p \in (m_checkIndex + 1)..(x - 1) : p = s + 1 /\ s + 1 <= l
      BY <1>1, <1>6
    <3> QED
      BY <1>4, <3>1
  <2> HIDE DEF x
  <2>4. Stop = x
    BY <2>1, <2>2, <2>3, StopAt DEF b, l
  <2> QED
    BY <2>4 DEF x
<1>7. ASSUME l < s + 3
      PROVE  ParseLine.status = "LINE_OPEN" /\ ParseLine.check \in {s, s + 1}
  <2>1. CASE l < s + 2
    <3>1. ParseLine = NotEnded("LINE_OPEN", l)
      BY <1>5, <2>1 DEF ParseLine, l, b
    <3>2. l \in {s, s + 1}
      BY <1>1, <2>1
    <3> QED
      BY <3>1, <3>2 DEF NotEnded
  <2>2. CASE l = s + 2
    <3>1. Stop = s + 2 /\ b[s + 2] = "CR" /\ Stop # 0 /\ Stop = l /\ Stop - 1 = s + 1
      BY <1>1, <1>4, <1>6, <2>2
    <3>2. ParseLine = NotEnded("LINE_OPEN", Stop - 1)
      BY <3>1 DEF ParseLine, At, l, b
    <3> QED
      BY <3>1, <3>2 DEF NotEnded
  <2> QED
    BY <1>1, <1>7, <2>1, <2>2
<1>8. ASSUME s + 3 <= l
      PROVE  ParseLine = Ended(s + 3) /\ TextOf(ParseLine.buf) = <<Token(k)>>
  <2>1. /\ Stop = s + 2 /\ b[Stop] = "CR" /\ b[Stop + 1] = "LF" /\ Stop + 1 = s + 3
        /\ Stop # 0 /\ Stop # l
    <3>1. Stop = s + 2 /\ b[s + 2] = "CR" /\ b[s + 3] = "LF"
      BY <1>1, <1>4, <1>6, <1>8
    <3>2. s + 2 + 1 = s + 3 /\ s + 2 # 0 /\ s + 2 # l
      BY <1>1, <1>8
    <3> QED
      BY <3>1, <3>2
  <2>2. ParseLine = Ended(s + 3)
    BY <2>1 DEF ParseLine, At, l, b
  <2>3. b[s + 1] = Token(k) /\ b[s + 1] # "NUL"
    <3>1. Token(k) \in Byte \ {"NUL"}
      <4>1. Headers \in Seq(Header \cup Stray) /\ request.line \in Line
        BY Bytes DEF TypeOK
      <4>2. k # 0 => Headers[k] \in Header \cup Stray
        <5>1. k # 0 => k \in 1..Len(Headers)
          BY <1>1
        <5> QED
          BY <4>1, <5>1, ElementOfSeq
      <4>3. Token(k) \in Line \cup Header \cup Stray
        BY <4>1, <4>2 DEF Token
      <4> QED
        BY <4>3 DEF Byte, Line, Header, Stray
    <3> QED
      BY <1>1, <1>4, <1>8, <3>1
  <2>4. TextOf(Ended(s + 3).buf) = <<Token(k)>>
    BY <1>1, <1>8, <2>3, TokenText DEF b, l
  <2> QED
    BY <2>2, <2>4
<1> QED
  BY <1>7, <1>8 DEF s, l, b

\* The same at the empty line.
LEMMA AtEnd ==
    ASSUME TypeOK, Consumed(Len(Headers) + 1)
    PROVE  /\ Len(m_readBuf) < HeadLen =>
                /\ ParseLine.status = "LINE_OPEN"
                /\ ParseLine.check = 3 * (Len(Headers) + 1)
           /\ HeadLen <= Len(m_readBuf) =>
                ParseLine = Ended(HeadLen) /\ TextOf(ParseLine.buf) = <<>>
<1> DEFINE n == Len(Headers)
           s == 3 * (n + 1)
           b == m_readBuf
           l == Len(b)
           w == Wire(request)
<1>0. n \in Nat
  BY Bytes DEF TypeOK
<1>1. /\ s \in Nat /\ l \in Nat /\ m_startLine = s /\ HeadLen = s + 2
      /\ m_checkIndex = s /\ m_checkIndex <= l
  <2>1. /\ l \in Nat /\ m_startLine = s /\ m_checkIndex \in {s, s + 1} /\ m_checkIndex <= l
        /\ m_checkIndex = s + 1 => n + 1 <= n
    BY LenProperties DEF TypeOK, Consumed
  <2>2. s \in Nat /\ 3 * n + 5 = s + 2 /\ ~(n + 1 <= n)
    BY <1>0
  <2> HIDE DEF s
  <2> QED
    BY <2>1, <2>2 DEF HeadLen
<1>2. \A p \in (s + 1)..l : b[p] = w[p]
  BY <1>1 DEF Consumed, Unread
<1>3. w[s + 1] = "CR" /\ w[s + 2] = "LF"
  <2>1. w[3 * n + 4] = "CR" /\ w[3 * n + 5] = "LF"
    BY Bytes DEF TypeOK
  <2>2. s + 1 = 3 * n + 4 /\ s + 2 = 3 * n + 5
    BY <1>0
  <2> QED
    BY <2>1, <2>2
<1> HIDE DEF w, s
<1>4. /\ s + 1 <= l => b[s + 1] = "CR"
      /\ s + 2 <= l => b[s + 2] = "LF"
  <2>1. /\ s + 1 <= l => s + 1 \in (s + 1)..l
        /\ s + 2 <= l => s + 2 \in (s + 1)..l
    BY <1>1
  <2> QED
    BY <1>2, <1>3, <2>1
<1> HIDE DEF b, l
<1>5. ASSUME l = s
      PROVE  Stop = 0
  <2>1. \A p \in (m_checkIndex + 1)..l : FALSE
    BY <1>1, <1>5
  <2> QED
    BY <2>1, <1>1, StopIs DEF b, l
<1>6. ASSUME s + 1 <= l
      PROVE  Stop = s + 1
  <2> DEFINE x == s + 1
  <2>1. x \in (m_checkIndex + 1)..l
    BY <1>1, <1>6
  <2>2. b[x] \in Stray
    BY <1>4, <1>6 DEF Stray
  <2>3. \A p \in (m_checkIndex + 1)..(x - 1) : b[p] \notin Stray
    BY <1>1
  <2> HIDE DEF x
  <2>4. Stop = x
    BY <2>1, <2>2, <2>3, StopAt DEF b, l
  <2> QED
    BY <2>4 DEF x
<1>7. ASSUME l < s + 2
      PROVE  ParseLine.status = "LINE_OPEN" /\ ParseLine.check = s
  <2>1. CASE l = s
    <3>1. ParseLine = NotEnded("LINE_OPEN", l)
      BY <1>5, <2>1 DEF ParseLine, l, b
    <3> QED
      BY <2>1, <3>1 DEF NotEnded
  <2>2. CASE l = s + 1
    <3>1. Stop = s + 1 /\ b[s + 1] = "CR" /\ Stop # 0 /\ Stop = l /\ Stop - 1 = s
      BY <1>1, <1>4, <1>6, <2>2
    <3>2. ParseLine = NotEnded("LINE_OPEN", Stop - 1)
      BY <3>1 DEF ParseLine, At, l, b
    <3> QED
      BY <3>1, <3>2 DEF NotEnded
  <2> QED
    BY <1>1, <1>7, <2>1, <2>2
<1>8. ASSUME s + 2 <= l
      PROVE  ParseLine = Ended(s + 2) /\ TextOf(ParseLine.buf) = <<>>
  <2>1. /\ Stop = s + 1 /\ b[Stop] = "CR" /\ b[Stop + 1] = "LF" /\ Stop + 1 = s + 2
        /\ Stop # 0 /\ Stop # l
    <3>1. Stop = s + 1 /\ b[s + 1] = "CR" /\ b[s + 2] = "LF"
      BY <1>1, <1>4, <1>6, <1>8
    <3>2. s + 1 + 1 = s + 2 /\ s + 1 # 0 /\ s + 1 # l
      BY <1>1, <1>8
    <3> QED
      BY <3>1, <3>2
  <2>2. ParseLine = Ended(s + 2)
    BY <2>1 DEF ParseLine, At, l, b
  <2>3. TextOf(Ended(s + 2).buf) = <<>>
    BY <1>1, <1>8, EmptyText DEF b, l
  <2> QED
    BY <2>2, <2>3
<1> QED
  BY <1>1, <1>7, <1>8 DEF s, l, b

\* A stray CR or LF is never the end of a line, and the scan does not pass it.
LEMMA AtStray ==
    ASSUME TypeOK, NEW k \in 1..Len(Headers), Consumed(k), Headers[k] \in Stray
    PROVE  ParseLine.status # "LINE_OK" /\ ParseLine.check = 3 * k
<1> DEFINE s == 3 * k
           b == m_readBuf
           l == Len(b)
           w == Wire(request)
<1>1. /\ k \in Nat /\ k > 0 /\ s \in Nat /\ s > 0 /\ l \in Nat /\ m_startLine = s
      /\ m_checkIndex = s /\ m_checkIndex <= l /\ b[s] = "NUL"
  <2>1. k \in Nat /\ k > 0 /\ s \in Nat /\ s > 0
    BY Bytes DEF TypeOK
  <2>2. Headers[k] \notin Header
    BY DEF Header, Stray
  <2> QED
    BY <2>1, <2>2, LenProperties DEF TypeOK, Consumed
<1>2. \A p \in (s + 1)..l : b[p] = w[p]
  BY <1>1 DEF Consumed, Unread
<1>3. w[s + 1] = Headers[k] /\ w[s + 2] = "CR"
  <2>1. k \in 0..Len(Headers)
    BY Bytes DEF TypeOK
  <2> QED
    BY <1>1, <2>1, Bytes DEF TypeOK, Token
<1> HIDE DEF w, s
<1>4. /\ s + 1 <= l => b[s + 1] = Headers[k]
      /\ s + 2 <= l => b[s + 2] = "CR"
  <2>1. /\ s + 1 <= l => s + 1 \in (s + 1)..l
        /\ s + 2 <= l => s + 2 \in (s + 1)..l
    BY <1>1
  <2> QED
    BY <1>2, <1>3, <2>1
<1> HIDE DEF b, l
<1>5. CASE l = s
  <2>1. \A p \in (m_checkIndex + 1)..l : FALSE
    BY <1>1, <1>5
  <2>2. Stop = 0
    BY <1>1, <2>1, StopIs DEF b, l
  <2>3. ParseLine = NotEnded("LINE_OPEN", l)
    BY <2>2 DEF ParseLine, l, b
  <2> QED
    BY <1>5, <2>3 DEF NotEnded, s
<1>6. CASE l # s
  <2> DEFINE x == s + 1
  <2>1. x \in (m_checkIndex + 1)..l
    BY <1>1, <1>6
  <2>2. b[x] = Headers[k]
    BY <1>1, <1>4, <1>6
  <2>3. \A p \in (m_checkIndex + 1)..(x - 1) : b[p] \notin Stray
    BY <1>1
  <2>4. x # 0 /\ x - 1 = s /\ (x # l => x + 1 = s + 2 /\ s + 2 <= l)
    BY <1>1, <2>1
  <2>5. x # l => b[x + 1] = "CR"
    <3>1. x # l => b[s + 2] = "CR"
      BY <1>4, <2>4
    <3> QED
      BY <2>4, <3>1
  <2>6. b[x - 1] = "NUL"
    BY <1>1, <2>4
  <2> HIDE DEF x
  <2>7. Stop = x
    BY <2>1, <2>2, <2>3, StopAt DEF b, l
  <2>8. ParseLine \in {NotEnded("LINE_OPEN", Stop - 1), NotEnded("LINE_BAD", Stop - 1)}
    <3>1. b[Stop] \in {"CR", "LF"} /\ b[Stop - 1] = "NUL" /\ Stop # 0
      BY <2>2, <2>4, <2>6, <2>7 DEF Stray
    <3>2. Stop # l => b[Stop + 1] = "CR"
      BY <2>5, <2>7
    <3> QED
      BY <3>1, <3>2 DEF ParseLine, At, l, b
  <2> QED
    BY <2>4, <2>7, <2>8 DEF NotEnded, s
<1> QED
  BY <1>5, <1>6

------------------------------------------------------------------------------
(* A turn of the loop.                                                     *)

\* What a scan of the master machine's finds.
LEMMA ScanIs ==
    ASSUME TypeOK
    PROVE  /\ Scan.status \in {"LINE_OK", "LINE_OPEN", "LINE_BAD"}
           /\ Scan.check \in Nat
           /\ m_checkIndex <= Scan.check /\ Scan.check <= Len(m_readBuf)
           /\ Scan.buf \in Seq(Byte) /\ Len(Scan.buf) = Len(m_readBuf)
           /\ InBody => Scan.status = "LINE_OK" /\ Scan.check = m_checkIndex
                        /\ Scan.buf = m_readBuf
           /\ ~InBody => Scan = ParseLine
<1>1. CASE InBody
  <2>1. Scan = NotEnded("LINE_OK", m_checkIndex)
    BY <1>1 DEF Scan
  <2> QED
    BY <1>1, <2>1 DEF NotEnded, TypeOK, Byte
<1>2. CASE ~InBody
  <2>1. Scan = ParseLine
    BY <1>2 DEF Scan
  <2> QED
    BY <1>2, <2>1, ParseLineIs
<1> QED
  BY <1>1, <1>2

\* A line that is found in the head is line k, or the empty one.
LEMMA FoundLine ==
    ASSUME TypeOK, NEW k \in 0..Len(Headers), Consumed(k), Scan.status = "LINE_OK"
    PROVE  /\ k > 0 => Headers[k] \in Header
           /\ 3 * k + 3 <= Len(m_readBuf)
           /\ Scan = Ended(3 * k + 3) /\ TextOf(Scan.buf) = <<Token(k)>>
<1>1. Scan = ParseLine
  BY ScanIs DEF Consumed, InBody
<1>2. /\ k \in Nat /\ Len(m_readBuf) \in Nat
      /\ Headers \in Seq(Header \cup Stray) /\ request.line \in Line
  BY Bytes, LenProperties DEF TypeOK
<1>3. k > 0 => Headers[k] \in Header
  <2>1. ASSUME k > 0
        PROVE  k \in 1..Len(Headers) /\ Headers[k] \in Header \cup Stray
    <3>1. k \in 1..Len(Headers)
      BY <1>2, <2>1
    <3> QED
      BY <1>2, <3>1, ElementOfSeq
  <2>2. ASSUME k > 0
        PROVE  Headers[k] \notin Stray
    BY <1>1, <2>1, <2>2, AtStray
  <2> QED
    BY <2>1, <2>2
<1>4. Token(k) \notin Stray
  BY <1>2, <1>3 DEF Token, Line, Header, Stray
<1>5. 3 * k + 3 <= Len(m_readBuf)
  BY <1>1, <1>2, <1>4, AtLine
<1> QED
  BY <1>1, <1>3, <1>4, <1>5, AtLine

LEMMA FoundEmpty ==
    ASSUME TypeOK, Consumed(Len(Headers) + 1), Scan.status = "LINE_OK"
    PROVE  /\ HeadLen <= Len(m_readBuf)
           /\ Scan = Ended(HeadLen) /\ TextOf(Scan.buf) = <<>>
<1>1. Scan = ParseLine
  BY ScanIs DEF Consumed, InBody
<1>2. Len(Headers) \in Nat /\ Len(m_readBuf) \in Nat
  BY Bytes, LenProperties DEF TypeOK
<1>3. HeadLen \in Nat
  BY <1>2 DEF HeadLen
<1>4. HeadLen <= Len(m_readBuf)
  BY <1>1, <1>2, <1>3, AtEnd
<1> QED
  BY <1>1, <1>4, AtEnd

\* Line k is consumed.
LEMMA Consume ==
    ASSUME TypeOK, NEW k \in 0..Len(Headers), Consumed(k),
           k > 0 => Headers[k] \in Header, request.line = "request",
           3 * k + 3 <= Len(m_readBuf), m_readBuf' = Ended(3 * k + 3).buf,
           m_checkIndex' = 3 * k + 3, m_startLine' = 3 * k + 3, request' = request,
           m_check_state' = "HEADER",
           m_linger' <=> m_linger \/ (k > 0 /\ Headers[k] = "keep"),
           m_contentLength' = IF k > 0 /\ Headers[k] = "length" THEN Len(request.body)
                              ELSE m_contentLength
    PROVE  Consumed(k + 1)'
<1> DEFINE x == 3 * k + 3
           l == Len(m_readBuf)
           w == Wire(request)
<1>1. /\ k \in Nat /\ x \in 2..l /\ x > 0 /\ l \in Nat /\ 3 * (k + 1) = x
      /\ k + 1 # 0 /\ k + 1 - 1 = k /\ x # x + 1
  BY Bytes, LenProperties DEF TypeOK
<1>2. Headers' = Headers /\ Wire(request)' = w
  BY DEF Headers, Wire, HeadOf
<1>3. /\ m_readBuf'[x] = "NUL" /\ Len(m_readBuf') = l
      /\ \A p \in 1..l : p \notin {x - 1, x} => m_readBuf'[p] = m_readBuf[p]
  <2> HIDE DEF x
  <2> QED
    BY <1>1, EndedIs DEF x
<1>4. Unread'
  <2>1. \A p \in (x + 1)..l : p \in 1..l /\ p \notin {x - 1, x} /\ p \in (3 * k + 1)..l
    BY <1>1
  <2>2. \A p \in (3 * k + 1)..l : m_readBuf[p] = w[p]
    BY DEF Consumed, Unread
  <2> HIDE DEF x, l
  <2>3. \A p \in (x + 1)..l : m_readBuf'[p] = w[p]
    BY <1>3, <2>1, <2>2
  <2> QED
    BY <1>2, <1>3, <2>3 DEF Unread, x
<1>5. ASSUME NEW h
      PROVE  Among(h, k) <=> Among(h, k - 1) \/ (k > 0 /\ Headers[k] = h)
  <2>1. \A j : j \in 1..k <=> j \in 1..(k - 1) \/ (k > 0 /\ j = k)
    BY <1>1
  <2> QED
    BY <2>1 DEF Among
<1>6. \A h : Among(h, k)' <=> Among(h, k)
  BY <1>2 DEF Among
<1>7. \A i \in 1..k : Headers[i] \in Header
  <2>1. \A i \in 1..k : i \in 1..(k - 1) \/ (k > 0 /\ i = k)
    BY <1>1
  <2> QED
    BY <2>1 DEF Consumed
<1>8. /\ m_linger <=> Among("keep", k - 1)
      /\ m_contentLength = IF Among("length", k - 1) THEN Len(request.body) ELSE 0
  BY DEF Consumed
<1>9. m_linger' <=> Among("keep", k)'
  BY <1>5, <1>6, <1>8
<1>10. m_contentLength' = IF Among("length", k)' THEN Len(request.body) ELSE 0
  BY <1>5, <1>6, <1>8
<1> DEFINE j == k + 1
<1>11. Consumed(j)'
  <2>1. j - 1 = k /\ j # 0 /\ 3 * j = x
    BY <1>1
  <2>2. /\ m_startLine' = x /\ m_checkIndex' = x /\ x # x + 1
    BY <1>1
  <2> HIDE DEF j, x, l, w
  <2>3. Among("keep", j - 1)' <=> Among("keep", k)'
    BY <2>1
  <2>4. Among("length", j - 1)' <=> Among("length", k)'
    BY <2>1
  <2>5. \A i \in 1..(j - 1) : Headers'[i] \in Header
    BY <1>2, <1>7, <2>1
  <2> QED
    BY <1>2, <1>3, <1>4, <1>9, <1>10, <2>1, <2>2, <2>3, <2>4, <2>5 DEF Consumed
<1> QED
  BY <1>11

------------------------------------------------------------------------------
(* Every step preserves the invariant.                                     *)

\* TypeOK in two: the cursors in the buffer, and the rest.
Cursors ==
    /\ request \in Requests
    /\ m_readBuf \in Seq(Byte) /\ sent = Len(m_readBuf)
    /\ m_startLine \in Nat /\ m_checkIndex \in Nat
    /\ m_startLine <= m_checkIndex /\ m_checkIndex <= Len(m_readBuf)

Codes == {"NO_REQUEST", "GET_REQUEST", "BAD_REQUEST"}
Machine ==
    /\ m_check_state \in {"REQUESTLINE", "HEADER", "CONTENT"}
    /\ m_contentLength \in Nat
    /\ m_linger \in BOOLEAN
    /\ line_status \in {"LINE_OK", "LINE_OPEN", "LINE_BAD"}
    /\ pc \in {"reading", "parsing", "answering"}
    /\ answer \in [code : Codes, linger : BOOLEAN, body : Seq({"byte", "CR", "LF"})]

LEMMA Types == TypeOK <=> Cursors /\ Machine
BY DEF TypeOK, Cursors, Machine, Byte, Codes

LEMMA TypesNext == TypeOK' <=> Cursors' /\ Machine'
BY DEF TypeOK, Cursors, Machine, Byte, Codes

\* What a request means is what its headers say, and it has a body if they say so.
LEMMA MeaningIs ==
    ASSUME request \in Requests
    PROVE  /\ request.line # "request" =>
                Meaning(request) = [code |-> "BAD_REQUEST", linger |-> FALSE, body |-> <<>>]
           /\ request.line = "request" =>
                Meaning(request) = [code |-> "GET_REQUEST",
                                    linger |-> Among("keep", Len(Headers)),
                                    body |-> request.body]
           /\ ~Among("length", Len(Headers)) => request.body = <<>>
           /\ Len(request.body) = 0 => request.body = <<>>
<1>1. request.line \in Line /\ request.body \in Seq({"byte", "CR", "LF"})
  BY Bytes
<1>2. \A h : Contains(request.headers, h) = Among(h, Len(Headers))
  BY Zenon DEF Among, Contains, Headers
<1>3. request.body # <<>> => Contains(request.headers, "length")
  BY HttpParseAssumption
<1>4. Len(request.body) = 0 => request.body = <<>>
  BY <1>1, EmptySeq
<1>5. request.line # "request" <=> request.line = "bad"
  BY <1>1 DEF Line
<1>6. Contains(request.headers, "keep") = Among("keep", Len(Headers))
  BY <1>2
<1>7. Meaning(request) =
        IF request.line = "bad"
        THEN [code |-> "BAD_REQUEST", linger |-> FALSE, body |-> <<>>]
        ELSE [code |-> "GET_REQUEST", linger |-> Among("keep", Len(Headers)),
              body |-> request.body]
  BY <1>6, Zenon DEF Meaning
<1>8. ~Among("length", Len(Headers)) => request.body = <<>>
  BY <1>2, <1>3, Zenon
<1> QED
  BY <1>4, <1>5, <1>7, <1>8, Zenon

\* What a turn that finds a line leaves in order.
LEMMA TurnKeeps ==
    ASSUME IInv, NEW state, Turn(state), pc' # "reading"
    PROVE  /\ Cursors' /\ Received' /\ (Whole => Answered')
           /\ Headers' = Headers /\ HeadLen' = HeadLen /\ Wire(request)' = Wire(request)
<1>1. /\ Scan.check \in Nat /\ Scan.check <= Len(m_readBuf)
      /\ Scan.buf \in Seq(Byte) /\ Len(Scan.buf) = Len(m_readBuf)
  BY ScanIs DEF IInv
<1>2. request' = request /\ sent' = sent /\ m_readBuf' = Scan.buf
      /\ m_checkIndex' = Scan.check /\ m_startLine' = Scan.check
  BY DEF Turn
<1>3. Cursors
  BY Types DEF IInv
<1>4. Cursors'
  <2>1. \A x \in Nat : x <= x
    OBVIOUS
  <2> QED
    BY <1>1, <1>2, <1>3, <2>1 DEF Cursors
<1>5. Headers' = Headers /\ HeadLen' = HeadLen /\ Wire(request)' = Wire(request)
  BY <1>2 DEF Headers, HeadLen, Wire, HeadOf
<1>6. Received'
  BY <1>2, <1>5 DEF Received, IInv
<1>7. Answered'
  BY DEF Answered
<1> QED
  BY <1>4, <1>5, <1>6, <1>7

LEMMA RequestLineStep ==
    ASSUME IInv, ParseRequestLine
    PROVE  IInv'
<1>1. /\ Turn("REQUESTLINE") /\ TypeOK /\ Machine /\ Scan.status = "LINE_OK"
      /\ m_check_state = "REQUESTLINE" /\ pc = "parsing" /\ request' = request
      /\ m_checkIndex' = Scan.check /\ m_startLine' = Scan.check /\ m_readBuf' = Scan.buf
  BY Types DEF IInv, ParseRequestLine, Turn
<1>2. Consumed(0)
  <2>1. PICK k \in 0..(Len(Headers) + 1) : Consumed(k)
    BY <1>1 DEF IInv, InHead, InBodyOf
  <2>2. k = 0
    BY <1>1, <2>1 DEF Consumed
  <2> QED
    BY <2>1, <2>2
<1>3. 0 \in 0..Len(Headers) /\ 1 \in 0..(Len(Headers) + 1)
  BY Bytes DEF IInv, TypeOK
<1>4. /\ 3 * 0 + 3 <= Len(m_readBuf)
      /\ Scan = Ended(3 * 0 + 3) /\ TextOf(Scan.buf) = <<request.line>>
  BY <1>1, <1>2, <1>3, FoundLine DEF Token
<1>5. Scan.check = 3 * 0 + 3
  BY <1>4 DEF Ended
<1>6. m_contentLength = 0 /\ m_linger = FALSE
  <2>1. \A h : ~Among(h, 0 - 1)
    BY DEF Among
  <2> QED
    BY <1>1, <1>2, <2>1 DEF Consumed, Machine
<1>7. CASE request.line = "request"
  <2>1. /\ m_check_state' = "HEADER" /\ line_status' = "LINE_OK"
        /\ UNCHANGED <<pc, answer, m_contentLength, m_linger>>
    BY <1>4, <1>7 DEF ParseRequestLine, Continue
  <2>2. Consumed(0 + 1)'
    BY <1>1, <1>2, <1>3, <1>4, <1>5, <1>7, <2>1, Consume
  <2>3. /\ Cursors' /\ Received' /\ (Whole => Answered') /\ Headers' = Headers
    BY <1>1, <2>1, TurnKeeps
  <2>4. InHead'
    <3>1. 0 + 1 = 1
      OBVIOUS
    <3> QED
      BY <1>3, <2>2, <2>3, <3>1 DEF InHead
  <2>5. Machine'
    BY <1>1, <2>1 DEF Machine
  <2>6. pc' # "answering"
    BY <1>1, <2>1
  <2> QED
    BY <2>3, <2>4, <2>5, <2>6, TypesNext DEF IInv
<1>8. CASE request.line # "request"
  <2>1. Answer("BAD_REQUEST", <<>>)
    <3>1. <<request.line>> # <<"request">>
      BY <1>8
    <3> QED
      BY <1>4, <3>1 DEF ParseRequestLine
  <2>2. /\ answer' = [code |-> "BAD_REQUEST", linger |-> FALSE, body |-> <<>>]
        /\ pc' = "answering"
        /\ UNCHANGED <<m_check_state, m_contentLength, m_linger, line_status>>
    BY <1>6, <2>1 DEF Answer
  <2>3. /\ Cursors' /\ Received' /\ (Whole => Answered')
    BY <1>1, <2>2, TurnKeeps
  <2>4. answer' = Meaning(request)'
    BY <1>1, <1>8, <2>2, MeaningIs DEF TypeOK
  <2>5. Machine'
    BY <1>1, <2>2 DEF Machine, Codes
  <2> QED
    BY <2>2, <2>3, <2>4, <2>5, TypesNext DEF IInv
<1> QED
  BY <1>7, <1>8

\* In the head the loop is at line k >= 1, or at the empty line.
LEMMA HeaderTurn ==
    ASSUME IInv, Turn("HEADER")
    PROVE  /\ TypeOK /\ Machine /\ Scan.status = "LINE_OK"
           /\ \E k \in 1..(Len(Headers) + 1) : Consumed(k)
<1>1. /\ TypeOK /\ Machine /\ Scan.status = "LINE_OK"
      /\ m_check_state = "HEADER" /\ pc = "parsing"
  BY Types DEF IInv, Turn
<1>2. PICK k \in 0..(Len(Headers) + 1) : Consumed(k)
  BY <1>1 DEF IInv, InHead, InBodyOf
<1>3. k # 0
  BY <1>1, <1>2 DEF Consumed
<1>4. k \in 1..(Len(Headers) + 1)
  <2>1. Len(Headers) \in Nat
    BY <1>1, Bytes DEF TypeOK
  <2> QED
    BY <1>2, <1>3, <2>1
<1> QED
  BY <1>1, <1>2, <1>4

LEMMA HeaderLineStep ==
    ASSUME IInv, HeaderLine
    PROVE  IInv'
<1>1. Turn("HEADER") /\ TextOf(Scan.buf) # <<>>
  BY DEF HeaderLine
<1>2. TypeOK /\ Machine /\ Scan.status = "LINE_OK"
  BY <1>1, HeaderTurn
<1>3. PICK k \in 1..(Len(Headers) + 1) : Consumed(k)
  BY <1>1, HeaderTurn
<1>4. Len(Headers) \in Nat
  BY <1>2, Bytes DEF TypeOK
<1>5. k # Len(Headers) + 1
  BY <1>1, <1>2, <1>3, FoundEmpty
<1>6. /\ k \in 0..Len(Headers) /\ k > 0 /\ k # 0 /\ k + 1 \in 0..(Len(Headers) + 1)
  BY <1>3, <1>4, <1>5
<1>7. /\ Headers[k] \in Header /\ 3 * k + 3 <= Len(m_readBuf)
      /\ Scan = Ended(3 * k + 3) /\ TextOf(Scan.buf) = <<Headers[k]>>
  BY <1>2, <1>3, <1>6, FoundLine DEF Token
<1>8. Scan.check = 3 * k + 3
  BY <1>7 DEF Ended
<1>9. /\ m_contentLength' = IF Headers[k] = "length" THEN Len(request.body)
                            ELSE m_contentLength
      /\ m_linger' = (m_linger \/ Headers[k] = "keep")
      /\ line_status' = "LINE_OK" /\ pc' = pc /\ answer' = answer
      /\ m_check_state' = m_check_state
  <2>1. \A h : <<Headers[k]>> = <<h>> <=> Headers[k] = h
    OBVIOUS
  <2> QED
    BY <1>7, <2>1 DEF HeaderLine, Continue
<1>10. /\ request' = request /\ m_checkIndex' = Scan.check /\ m_startLine' = Scan.check
       /\ m_readBuf' = Scan.buf /\ m_check_state = "HEADER" /\ pc = "parsing"
  BY <1>1 DEF Turn
<1>11. request.line = "request"
  BY <1>3, <1>6 DEF Consumed
<1>12. Consumed(k + 1)'
  <2>1. m_linger' <=> m_linger \/ (k > 0 /\ Headers[k] = "keep")
    BY <1>6, <1>9
  <2>2. m_contentLength' = IF k > 0 /\ Headers[k] = "length" THEN Len(request.body)
                           ELSE m_contentLength
    BY <1>6, <1>9
  <2>3. m_check_state' = "HEADER" /\ m_readBuf' = Ended(3 * k + 3).buf
    BY <1>7, <1>9, <1>10
  <2>4. m_checkIndex' = 3 * k + 3 /\ m_startLine' = 3 * k + 3
    BY <1>8, <1>10
  <2> QED
    BY <1>2, <1>3, <1>6, <1>7, <1>10, <1>11, <2>1, <2>2, <2>3, <2>4, Consume
<1>13. pc' = "parsing"
  BY <1>9, <1>10
<1>14. /\ Cursors' /\ Received' /\ (Whole => Answered') /\ Headers' = Headers
  BY <1>1, <1>13, TurnKeeps
<1>15. InHead'
  BY <1>6, <1>12, <1>14 DEF InHead
<1>16. Machine'
  <2>1. Len(request.body) \in Nat
    BY <1>2, Bytes DEF TypeOK
  <2> QED
    BY <1>2, <1>9, <2>1 DEF Machine
<1> QED
  BY <1>13, <1>14, <1>15, <1>16, TypesNext DEF IInv

LEMMA BlankLineStep ==
    ASSUME IInv, BlankLine
    PROVE  IInv'
<1>1. Turn("HEADER") /\ TextOf(Scan.buf) = <<>>
  BY DEF BlankLine
<1>2. TypeOK /\ Machine /\ Scan.status = "LINE_OK"
  BY <1>1, HeaderTurn
<1>3. PICK k \in 1..(Len(Headers) + 1) : Consumed(k)
  BY <1>1, HeaderTurn
<1>4. Len(Headers) \in Nat
  BY <1>2, Bytes DEF TypeOK
<1>5. k = Len(Headers) + 1
  <2>1. k # Len(Headers) + 1 => k \in 0..Len(Headers)
    BY <1>3, <1>4
  <2> QED
    BY <1>1, <1>2, <1>3, <2>1, FoundLine
<1>6. Consumed(Len(Headers) + 1)
  BY <1>3, <1>5
<1>7. HeadLen <= Len(m_readBuf) /\ Scan = Ended(HeadLen)
  BY <1>2, <1>6, FoundEmpty
<1>8. Scan.check = HeadLen
  BY <1>7 DEF Ended
<1>9. /\ request.line = "request"
      /\ \A i \in 1..Len(Headers) : Headers[i] \in Header
      /\ m_linger <=> Among("keep", Len(Headers))
      /\ m_contentLength = IF Among("length", Len(Headers)) THEN Len(request.body) ELSE 0
      /\ m_startLine = 3 * (Len(Headers) + 1) /\ Unread
  <2>1. Len(Headers) + 1 - 1 = Len(Headers) /\ Len(Headers) + 1 > 0
    BY <1>4
  <2> DEFINE j == Len(Headers) + 1
  <2>2. j - 1 = Len(Headers) /\ j > 0 /\ Consumed(j)
    BY <1>6, <2>1
  <2>3. /\ request.line = "request"
        /\ \A i \in 1..(j - 1) : Headers[i] \in Header
        /\ m_linger <=> Among("keep", j - 1)
        /\ m_contentLength = IF Among("length", j - 1) THEN Len(request.body) ELSE 0
        /\ m_startLine = 3 * j /\ Unread
    <3> HIDE DEF j
    <3> QED
      BY <2>2 DEF Consumed
  <2> HIDE DEF j
  <2>4. m_startLine = 3 * j
    BY <2>3
  <2> QED
    BY <2>2, <2>3, <2>4 DEF j
<1>10. /\ request' = request /\ m_checkIndex' = Scan.check /\ m_startLine' = Scan.check
       /\ m_readBuf' = Scan.buf /\ m_check_state = "HEADER" /\ pc = "parsing"
       /\ sent' = sent
  BY <1>1 DEF Turn
<1>11. request \in Requests
  BY <1>2 DEF TypeOK
<1>12. CASE m_contentLength = 0
  <2>1. Answer("GET_REQUEST", <<>>)
    BY <1>12 DEF BlankLine
  <2>2. /\ answer' = [code |-> "GET_REQUEST", linger |-> m_linger, body |-> <<>>]
        /\ pc' = "answering"
        /\ UNCHANGED <<m_check_state, m_contentLength, m_linger, line_status>>
    BY <2>1 DEF Answer
  <2>3. request.body = <<>>
    BY <1>9, <1>11, <1>12, MeaningIs
  <2>4. m_linger = Among("keep", Len(Headers))
    <3>1. m_linger \in BOOLEAN /\ Among("keep", Len(Headers)) \in BOOLEAN
      BY <1>2 DEF Machine, Among
    <3> QED
      BY <1>9, <3>1
  <2>5. answer' = Meaning(request)'
    BY <1>9, <1>10, <1>11, <2>2, <2>3, <2>4, MeaningIs
  <2>6. /\ Cursors' /\ Received' /\ (Whole => Answered')
    BY <1>1, <2>2, TurnKeeps
  <2>7. Machine'
    BY <1>2, <2>2 DEF Machine, Codes
  <2> QED
    BY <2>2, <2>5, <2>6, <2>7, TypesNext DEF IInv
<1>13. CASE m_contentLength # 0
  <2>1. /\ m_check_state' = "CONTENT" /\ line_status' = "LINE_OK"
        /\ UNCHANGED <<pc, answer, m_contentLength, m_linger>>
    BY <1>13 DEF BlankLine, Continue
  <2>2. pc' = "parsing"
    BY <1>10, <2>1
  <2>3. /\ Cursors' /\ Received' /\ (Whole => Answered') /\ Headers' = Headers
        /\ HeadLen' = HeadLen /\ Wire(request)' = Wire(request)
    BY <1>1, <2>2, TurnKeeps
  <2>4. Machine'
    BY <1>2, <2>1 DEF Machine
  <2>5. m_contentLength = Len(request.body) /\ request.body # <<>>
    <3>1. m_contentLength = Len(request.body)
      BY <1>9, <1>13
    <3>2. request.body # <<>>
      BY <1>13, <3>1
    <3> QED
      BY <3>1, <3>2
  <2>6. Unread'
    <3>1. /\ Len(m_readBuf') = Len(m_readBuf) /\ m_readBuf' = Ended(HeadLen).buf
      BY <1>2, <1>7, <1>10, ScanIs
    <3>2. HeadLen \in 2..Len(m_readBuf) /\ Len(m_readBuf) \in Nat
      BY <1>2, <1>4, <1>7, LenProperties DEF HeadLen, TypeOK
    <3>3. \A p \in 1..Len(m_readBuf) :
            p \notin {HeadLen - 1, HeadLen} => m_readBuf'[p] = m_readBuf[p]
      BY <1>2, <3>1, <3>2, EndedIs
    <3>4. \A p \in (HeadLen + 1)..Len(m_readBuf) :
            /\ p \in 1..Len(m_readBuf) /\ p \notin {HeadLen - 1, HeadLen}
            /\ p \in (m_startLine + 1)..Len(m_readBuf)
      <4>1. m_startLine \in Nat /\ m_startLine <= HeadLen
        BY <1>4, <1>9 DEF HeadLen
      <4> QED
        BY <3>2, <4>1
    <3>5. \A p \in (HeadLen + 1)..Len(m_readBuf) : m_readBuf'[p] = Wire(request)[p]
      BY <1>9, <3>3, <3>4 DEF Unread
    <3>6. m_startLine' = HeadLen /\ Wire(request') = Wire(request)
      BY <1>8, <1>10
    <3> QED
      BY <3>1, <3>5, <3>6 DEF Unread
  <2>7. m_startLine' = HeadLen' /\ m_checkIndex' = HeadLen'
    BY <1>8, <1>10, <2>3
  <2>8. HeadLen' \in Nat
    BY <1>4, <2>3 DEF HeadLen
  <2>9. m_linger' <=> Among("keep", Len(Headers))'
    BY <1>9, <2>1, <2>3 DEF Among
  <2>10. HeadLen' <= m_startLine'
    BY <2>7, <2>8
  <2>11. m_contentLength' = Len(request'.body) /\ request'.body # <<>>
    BY <1>10, <2>1, <2>5
  <2>12. request'.line = "request" /\ \A i \in 1..Len(Headers') : Headers'[i] \in Header
    BY <1>9, <1>10, <2>3
  <2>13. InBodyOf'
    BY <2>1, <2>6, <2>7, <2>9, <2>10, <2>11, <2>12 DEF InBodyOf
  <2> QED
    BY <2>2, <2>3, <2>4, <2>13, TypesNext DEF IInv
<1> QED
  BY <1>12, <1>13

\* No line: the scan stops before the next line is there, or does not pass a stray.
LEMMA NoLineStep ==
    ASSUME IInv, NoLine
    PROVE  IInv'
<1>1. /\ TypeOK /\ Cursors /\ Machine /\ Received /\ pc = "parsing" /\ (InHead \/ InBodyOf)
  BY Types DEF IInv, NoLine
<1>2. /\ m_checkIndex' = Scan.check /\ line_status' = Scan.status /\ pc' = "reading"
      /\ UNCHANGED <<request, sent, m_readBuf, m_startLine, m_check_state,
                     m_contentLength, m_linger, answer>>
      /\ Scan.status # "LINE_OK"
  BY DEF NoLine
<1>3. /\ Scan.check \in Nat /\ m_checkIndex <= Scan.check /\ Scan.check <= Len(m_readBuf)
      /\ Scan.status \in {"LINE_OK", "LINE_OPEN", "LINE_BAD"}
      /\ ~InBody /\ Scan = ParseLine
  BY <1>1, <1>2, ScanIs
<1>4. Headers' = Headers /\ HeadLen' = HeadLen /\ Wire(request)' = Wire(request)
  BY <1>2 DEF Headers, HeadLen, Wire, HeadOf
<1>5. Cursors'
  <2>1. \A x, y, z \in Nat : x <= y /\ y <= z => x <= z
    OBVIOUS
  <2>2. m_startLine <= Scan.check
    BY <1>1, <1>3, <2>1 DEF Cursors
  <2> QED
    BY <1>1, <1>2, <1>3, <2>2 DEF Cursors
<1>6. Machine' /\ Received'
  BY <1>1, <1>2, <1>3, <1>4 DEF Machine, Received
<1>7. /\ Len(Headers) \in Nat /\ Len(request.body) \in Nat
      /\ Headers \in Seq(Header \cup Stray) /\ request.line \in Line
      /\ Len(Wire(request)) = HeadLen + Len(request.body)
      /\ sent = Len(m_readBuf) /\ sent \in Nat /\ HeadLen \in Nat
  <2>1. request \in Requests
    BY <1>1 DEF TypeOK
  <2>2. Len(Headers) \in Nat
    BY <2>1, Bytes
  <2>3. HeadLen \in Nat
    BY <2>2 DEF HeadLen
  <2>4. sent = Len(m_readBuf) /\ sent \in Nat
    BY <1>1, LenProperties DEF TypeOK
  <2> QED
    BY <2>1, <2>3, <2>4, Bytes
<1>8. \A h, j : Among(h, j)' <=> Among(h, j)
  BY <1>4 DEF Among
<1>9. Unread' <=> Unread
  BY <1>2, <1>4 DEF Unread
<1>10. CASE InHead
  <2>1. PICK k \in 0..(Len(Headers) + 1) : Consumed(k)
    BY <1>10 DEF InHead
  <2>2. ASSUME Scan.check \in {3 * k, 3 * k + 1},
               Scan.check = 3 * k + 1 => k <= Len(Headers) /\ (k > 0 => Headers[k] \in Header)
        PROVE  Consumed(k)'
    BY <1>2, <1>4, <1>8, <1>9, <2>1, <2>2 DEF Consumed
  <2>3. CASE k \in 0..Len(Headers) /\ Token(k) \notin Stray
    <3>1. ~(3 * k + 3 <= Len(m_readBuf))
      <4>1. ASSUME 3 * k + 3 <= Len(m_readBuf)
            PROVE  FALSE
        <5>1. ParseLine = Ended(3 * k + 3)
          BY <1>1, <2>1, <2>3, <4>1, AtLine
        <5> QED
          BY <1>2, <1>3, <5>1 DEF Ended
      <4> QED
        BY <4>1
    <3>2. Len(m_readBuf) < 3 * k + 3
      BY <1>7, <2>3, <3>1
    <3>3. Scan.check \in {3 * k, 3 * k + 1}
      BY <1>1, <1>3, <2>1, <2>3, <3>2, AtLine
    <3>4. k <= Len(Headers) /\ (k > 0 => Headers[k] \in Header)
      <4>1. k > 0 => k \in 1..Len(Headers) /\ k # 0
        BY <1>7, <2>3
      <4>2. k > 0 => Headers[k] \in Header \cup Stray
        BY <1>7, <4>1, ElementOfSeq
      <4>3. k <= Len(Headers)
        BY <1>7, <2>3
      <4> QED
        BY <2>3, <4>1, <4>2, <4>3 DEF Token
    <3>5. InHead'
      BY <1>4, <2>1, <2>2, <3>3, <3>4 DEF InHead
    <3>6. sent < Len(Wire(request))
      <4>1. 3 * k + 3 <= HeadLen
        BY <1>7, <2>3 DEF HeadLen
      <4> QED
        BY <1>7, <2>3, <3>2, <4>1
    <3>7. Answered'
      BY <1>2, <1>4, <3>6 DEF Answered
    <3> QED
      BY <1>2, <1>5, <1>6, <3>5, <3>7, TypesNext DEF IInv
  <2>4. CASE k = Len(Headers) + 1
    <3>1. Consumed(Len(Headers) + 1)
      BY <2>1, <2>4
    <3>2. ~(HeadLen <= Len(m_readBuf))
      <4>1. ASSUME HeadLen <= Len(m_readBuf)
            PROVE  FALSE
        <5>1. ParseLine = Ended(HeadLen)
          BY <1>1, <3>1, <4>1, AtEnd
        <5> QED
          BY <1>2, <1>3, <5>1 DEF Ended
      <4> QED
        BY <4>1
    <3>3. Len(m_readBuf) < HeadLen
      BY <1>7, <3>2
    <3>4. Scan.check = 3 * k /\ 3 * k # 3 * k + 1
      BY <1>1, <1>3, <1>7, <2>4, <3>1, <3>3, AtEnd
    <3>5. InHead'
      BY <1>4, <2>1, <2>2, <3>4 DEF InHead
    <3>6. sent < Len(Wire(request))
      BY <1>7, <3>3
    <3>7. Answered'
      BY <1>2, <1>4, <3>6 DEF Answered
    <3> QED
      BY <1>2, <1>5, <1>6, <3>5, <3>7, TypesNext DEF IInv
  <2>5. CASE k \in 0..Len(Headers) /\ Token(k) \in Stray
    <3>1. k \in 1..Len(Headers) /\ Headers[k] \in Stray
      <4>1. request.line \notin Stray
        BY <1>7 DEF Line, Stray
      <4>2. k # 0 /\ Headers[k] \in Stray
        BY <2>5, <4>1 DEF Token
      <4> QED
        BY <1>7, <2>5, <4>2
    <3>2. Scan.check = 3 * k /\ 3 * k # 3 * k + 1
      BY <1>1, <1>3, <1>7, <2>1, <3>1, AtStray
    <3>3. InHead'
      BY <1>4, <2>1, <2>2, <3>2 DEF InHead
    <3>4. \E c \in Stray : Contains(request.headers, c)
      BY <3>1 DEF Contains, Headers
    <3>5. Answered'
      BY <1>2, <3>4 DEF Answered
    <3> QED
      BY <1>2, <1>5, <1>6, <3>3, <3>5, TypesNext DEF IInv
  <2> QED
    BY <1>7, <2>1, <2>3, <2>4, <2>5
<1>11. CASE InBodyOf
  <2>1. /\ m_check_state = "CONTENT" /\ line_status # "LINE_OK"
        /\ m_contentLength = Len(request.body) /\ request.body # <<>>
    BY <1>3, <1>11 DEF InBody, InBodyOf
  <2>2. ASSUME Whole
        PROVE  m_checkIndex = HeadLen /\ sent = HeadLen /\ Scan.check = HeadLen
               /\ m_startLine = HeadLen
    <3>1. m_checkIndex = HeadLen /\ sent = HeadLen /\ m_startLine = HeadLen
      BY <1>11, <2>1, <2>2 DEF InBodyOf
    <3> QED
      BY <1>3, <1>7, <3>1
  <2>3. InBodyOf'
    <3>1. Whole => m_checkIndex' = HeadLen' /\ m_startLine' = HeadLen' /\ sent' = HeadLen'
      BY <1>2, <1>4, <2>2
    <3> HIDE DEF HeadLen
    <3> QED
      BY <1>2, <1>4, <1>8, <1>9, <1>11, <3>1 DEF InBodyOf
  <2>4. Whole => Answered'
    <3>1. Len(request.body) > 0
      BY <1>7, <2>1, MeaningIs, <1>1 DEF TypeOK
    <3>2. Whole => sent < Len(Wire(request))
      BY <1>7, <2>2, <3>1
    <3> QED
      BY <1>2, <1>4, <3>2 DEF Answered
  <2> QED
    BY <1>2, <1>5, <1>6, <2>3, <2>4, TypesNext DEF IInv
<1> QED
  BY <1>1, <1>10, <1>11

\* The body is taken when all of it follows the head; nothing that a scan of its bytes
\* takes for a line is.
LEMMA ContentStep ==
    ASSUME IInv, ParseContent
    PROVE  IInv'
<1>1. /\ TypeOK /\ Machine /\ Received /\ Turn("CONTENT") /\ m_check_state = "CONTENT"
      /\ pc = "parsing" /\ Scan.status = "LINE_OK"
      /\ request' = request /\ sent' = sent /\ m_readBuf' = Scan.buf
      /\ m_checkIndex' = Scan.check /\ m_startLine' = Scan.check
  BY Types DEF IInv, ParseContent, Turn
<1>2. InBodyOf
  <2>1. \A k : ~Consumed(k)
    BY <1>1 DEF Consumed
  <2> QED
    BY <1>1, <2>1 DEF IInv, InHead
<1> DEFINE m == Len(request.body)
           l == Len(m_readBuf)
           w == Wire(request)
<1>3. /\ Len(Headers) \in Nat /\ m \in Nat /\ HeadLen \in Nat
      /\ Len(w) = HeadLen + m /\ w \in Seq(Byte)
      /\ request.body \in Seq({"byte", "CR", "LF"})
      /\ \A j \in 1..m : w[HeadLen + j] = request.body[j]
  <2>1. request \in Requests
    BY <1>1 DEF TypeOK
  <2>2. Len(Headers) \in Nat
    BY <2>1, Bytes
  <2>3. HeadLen \in Nat
    BY <2>2 DEF HeadLen
  <2> QED
    BY <2>1, <2>3, Bytes
<1>4. /\ l \in Nat /\ m_startLine \in Nat /\ m_checkIndex \in Nat
      /\ HeadLen <= m_startLine /\ m_startLine <= m_checkIndex /\ m_checkIndex <= l
      /\ sent = l /\ l <= HeadLen + m /\ m_contentLength = m
      /\ m_readBuf \in Seq(Byte)
  BY <1>1, <1>2, <1>3, LenProperties DEF TypeOK, InBodyOf, Received, Byte
<1>5. /\ Scan.check \in Nat /\ m_checkIndex <= Scan.check /\ Scan.check <= l
      /\ Len(Scan.buf) = l
      /\ InBody => Scan.check = m_checkIndex /\ Scan.buf = m_readBuf
      /\ ~InBody => m_checkIndex < Scan.check
  <2>1. ~InBody => Scan = ParseLine
    BY <1>1, ScanIs
  <2>2. ParseLine.status = "LINE_OK" => m_checkIndex < ParseLine.check
    BY <1>1, ParseLineIs
  <2> QED
    BY <1>1, <2>1, <2>2, ScanIs
<1>6. request \in Requests
  BY <1>1 DEF TypeOK
<1>7. CASE Len(m_readBuf) >= m_contentLength + Scan.check
  <2>1. /\ Scan.check = HeadLen /\ m_startLine = HeadLen /\ l = HeadLen + m
        /\ ~(m_checkIndex < Scan.check)
    <3> HIDE DEF m, l
    <3> QED
      BY <1>3, <1>4, <1>5, <1>7 DEF l
  <2>2. Scan.buf = m_readBuf
    BY <1>5, <2>1
  <2>3. \A p \in (HeadLen + 1)..l : m_readBuf[p] = w[p]
    BY <1>2, <2>1 DEF InBodyOf, Unread
  <2>4. \A j \in 1..m : m_readBuf[HeadLen + j] = request.body[j]
    <3>1. \A j \in 1..m : HeadLen + j \in (HeadLen + 1)..l
      BY <1>3, <2>1
    <3> QED
      BY <1>3, <2>3, <3>1
  <2> DEFINE h == HeadLen
             rest == SubSeq(m_readBuf, h + 1, l)
  <2>5. h \in Nat /\ l = h + m /\ m_startLine = h
    BY <1>3, <2>1
  <2> HIDE DEF h
  <2>6. rest \in Seq(Byte) /\ Len(rest) = m /\ \A i \in 1..m : rest[i] = request.body[i]
    <3>1. \A i \in (h + 1)..l : m_readBuf[i] \in Byte
      <4>1. \A i \in (h + 1)..l : i \in 1..l
        BY <1>4, <2>5
      <4> QED
        BY <1>4, <4>1, ElementOfSeq
    <3>2. h + 1 \in Int /\ l \in Int
      BY <1>4, <2>5
    <3>3. /\ rest \in Seq(Byte)
          /\ Len(rest) = IF h + 1 <= l THEN l - (h + 1) + 1 ELSE 0
          /\ \A i \in 1..(l - (h + 1) + 1) : rest[i] = m_readBuf[h + 1 + i - 1]
      BY <3>1, <3>2, SubSeqProperties
    <3> HIDE DEF rest, l, m
    <3>4. /\ (h + 1 <= l) = (m > 0) /\ l - (h + 1) + 1 = m
          /\ \A i \in 1..m : h + 1 + i - 1 = h + i
      BY <1>3, <2>5 DEF m
    <3>5. Len(rest) = m
      BY <1>3, <3>3, <3>4 DEF m
    <3>6. \A i \in 1..m : rest[i] = m_readBuf[h + i]
      BY <3>3, <3>4
    <3> QED
      BY <2>4, <3>3, <3>5, <3>6 DEF h, m
  <2> HIDE DEF rest
  <2>7. rest = request.body
    <3>1. \A i \in 1..Len(request.body) : rest[i] = request.body[i]
      BY <2>6
    <3>2. request.body \in Seq(Byte)
      <4>1. {"byte", "CR", "LF"} \subseteq Byte
        BY DEF Byte
      <4> QED
        BY <1>3, <4>1, SeqGrows
    <3> QED
      BY <2>6, <3>1, <3>2, SeqEqual
  <2>8. TextOf(m_readBuf) = rest
    <3> DEFINE I == {i \in 1..Len(rest) : rest[i] = "NUL"}
    <3>1. I = {}
      <4>1. \A i \in 1..Len(request.body) : request.body[i] # "NUL"
        <5>1. \A i \in 1..Len(request.body) : request.body[i] \in {"byte", "CR", "LF"}
          BY <1>3, ElementOfSeq
        <5> QED
          BY <5>1
      <4> QED
        BY <2>7, <4>1
    <3> HIDE DEF I
    <3>2. SelectInSeq(rest, LAMBDA c : c = "NUL") = 0
      BY <3>1 DEF SelectInSeq, I
    <3>3. SubSeq(m_readBuf, m_startLine + 1, Len(m_readBuf)) = rest
      BY <2>5 DEF rest
    <3> QED
      BY <3>2, <3>3 DEF TextOf
  <2>9. SubSeq(rest, 1, m) = rest
    <3>1. \A b \in Seq({"byte", "CR", "LF"}) : SubSeq(b, 1, Len(b)) = b
      OBVIOUS
    <3> QED
      BY <1>3, <2>7, <3>1
  <2>10. Answer("GET_REQUEST", request.body)
    <3>1. SubSeq(TextOf(Scan.buf), 1, m_contentLength) = request.body
      BY <1>4, <2>2, <2>7, <2>8, <2>9
    <3> QED
      BY <1>7, <3>1 DEF ParseContent
  <2>11. /\ answer' = [code |-> "GET_REQUEST", linger |-> m_linger, body |-> request.body]
         /\ pc' = "answering"
         /\ UNCHANGED <<m_check_state, m_contentLength, m_linger, line_status>>
    BY <2>10 DEF Answer
  <2>12. m_linger = Among("keep", Len(Headers))
    <3>1. m_linger \in BOOLEAN /\ Among("keep", Len(Headers)) \in BOOLEAN
      BY <1>1 DEF Machine, Among
    <3>2. m_linger <=> Among("keep", Len(Headers))
      BY <1>2 DEF InBodyOf
    <3> QED
      BY <3>1, <3>2
  <2>13. answer' = Meaning(request)'
    <3>1. request.line = "request"
      BY <1>2 DEF InBodyOf
    <3> QED
      BY <1>1, <1>6, <2>11, <2>12, <3>1, MeaningIs
  <2>14. /\ Cursors' /\ Received' /\ (Whole => Answered')
    BY <1>1, <2>11, TurnKeeps
  <2>15. Machine'
    BY <1>1, <1>3, <2>11 DEF Machine, Codes
  <2> QED
    BY <2>11, <2>13, <2>14, <2>15, TypesNext DEF IInv
<1>8. CASE ~(Len(m_readBuf) >= m_contentLength + Scan.check)
  <2>1. /\ line_status' = "LINE_OPEN"
        /\ UNCHANGED <<m_check_state, m_contentLength, m_linger, pc, answer>>
    BY <1>8 DEF ParseContent
  <2>2. pc' = "parsing"
    BY <1>1, <2>1
  <2>3. /\ Cursors' /\ Received' /\ (Whole => Answered') /\ Headers' = Headers
        /\ HeadLen' = HeadLen /\ Wire(request)' = Wire(request)
    BY <1>1, <2>2, TurnKeeps
  <2>4. Machine'
    BY <1>1, <2>1 DEF Machine
  <2>5. HeadLen <= Scan.check
    BY <1>3, <1>4, <1>5
  <2>6. ASSUME Scan.check = HeadLen
        PROVE  Unread'
    <3>1. m_startLine = HeadLen /\ ~(m_checkIndex < Scan.check)
      BY <1>3, <1>4, <1>5, <2>6
    <3>2. m_readBuf' = m_readBuf
      BY <1>1, <1>5, <3>1
    <3>3. Unread /\ m_startLine' = m_startLine
      BY <1>1, <1>2, <2>6, <3>1 DEF InBodyOf
    <3> QED
      BY <2>3, <3>2, <3>3 DEF Unread
  <2>7. ASSUME Whole
        PROVE  Scan.check = HeadLen /\ sent = HeadLen
    <3>1. m_startLine = HeadLen /\ m_checkIndex = HeadLen
      BY <1>2, <2>7 DEF InBodyOf
    <3>2. sent <= HeadLen \/ sent = HeadLen + m
      BY <1>1, <1>3, <2>7 DEF Received
    <3>3. ~InBody => sent = HeadLen
      BY <1>1, <1>2, <2>7 DEF InBody, InBodyOf
    <3>4. CASE InBody
      <4>1. Scan.check = HeadLen /\ ~(l >= m + HeadLen)
        BY <1>4, <1>5, <1>8, <3>1, <3>4
      <4> HIDE DEF l, m
      <4> QED
        BY <1>3, <1>4, <3>1, <3>2, <4>1 DEF m
    <3>5. CASE ~InBody
      BY <1>3, <1>4, <1>5, <3>1, <3>3, <3>5
    <3> QED
      BY <3>4, <3>5
  <2>8. InBodyOf'
    <3>1. \A h, j : Among(h, j)' <=> Among(h, j)
      BY <2>3 DEF Among
    <3>2. m_startLine' = HeadLen' => Unread'
      BY <1>1, <2>3, <2>6
    <3>3. Whole => m_startLine' = HeadLen' /\ m_checkIndex' = HeadLen' /\ sent' = HeadLen'
      BY <1>1, <2>3, <2>7
    <3>4. HeadLen' <= m_startLine'
      BY <1>1, <2>3, <2>5
    <3>5. /\ m_check_state' = "CONTENT" /\ request'.line = "request"
          /\ \A i \in 1..Len(Headers') : Headers'[i] \in Header
          /\ m_linger' <=> Among("keep", Len(Headers))
          /\ m_contentLength' = Len(request'.body) /\ request'.body # <<>>
      BY <1>1, <1>2, <2>1, <2>3 DEF InBodyOf
    <3>6. m_linger' <=> Among("keep", Len(Headers))'
      BY <2>3, <3>1, <3>5
    <3> QED
      BY <3>2, <3>3, <3>4, <3>5, <3>6 DEF InBodyOf
  <2> QED
    BY <2>2, <2>3, <2>4, <2>8, TypesNext DEF IInv
<1> QED
  BY <1>7, <1>8

\* Init() on the slot: nothing is read of the request.
LEMMA InitInv == Init => IInv
<1> SUFFICES ASSUME Init
             PROVE  IInv
  OBVIOUS
<1>1. /\ request \in Requests /\ sent = 0 /\ m_readBuf = <<>> /\ m_checkIndex = 0
      /\ m_startLine = 0 /\ m_check_state = "REQUESTLINE" /\ m_contentLength = 0
      /\ m_linger = FALSE /\ line_status = "LINE_OK" /\ pc = "reading"
      /\ answer = [code |-> "NO_REQUEST", linger |-> FALSE, body |-> <<>>]
  BY DEF Init, NoAnswer
<1>2. m_readBuf \in Seq(Byte) /\ Len(m_readBuf) = 0
  BY <1>1
<1>3. Cursors /\ Machine
  <2>1. Cursors
    BY <1>1, <1>2 DEF Cursors
  <2>2. <<>> \in Seq({"byte", "CR", "LF"})
    OBVIOUS
  <2>3. answer \in [code : Codes, linger : BOOLEAN, body : Seq({"byte", "CR", "LF"})]
    BY <1>1, <2>2 DEF Codes
  <2> QED
    BY <1>1, <2>1, <2>3 DEF Machine
<1>4. /\ Len(Headers) \in Nat /\ Len(request.body) \in Nat
      /\ Len(Wire(request)) = HeadLen + Len(request.body)
  BY <1>1, Bytes
<1>5. HeadLen \in Nat /\ HeadLen > 0
  BY <1>4 DEF HeadLen
<1>6. Received
  BY <1>1, <1>4, <1>5 DEF Received
<1>7. Answered
  BY <1>1, <1>4, <1>5 DEF Answered
<1>8. Consumed(0)
  <2>1. \A h : ~Among(h, 0 - 1)
    BY DEF Among
  <2>2. \A p \in (m_startLine + 1)..Len(m_readBuf) : FALSE
    BY <1>1, <1>2
  <2>3. 3 * 0 = 0 /\ 0 # 3 * 0 + 1
    OBVIOUS
  <2>4. Unread
    BY <2>2 DEF Unread
  <2>5. \A i \in 1..(0 - 1) : FALSE
    OBVIOUS
  <2> QED
    BY <1>1, <2>1, <2>3, <2>4, <2>5 DEF Consumed
<1>9. InHead
  <2>1. 0 \in 0..(Len(Headers) + 1)
    BY <1>4
  <2> QED
    BY <1>8, <2>1 DEF InHead
<1> QED
  BY <1>1, <1>3, <1>6, <1>7, <1>9, Types DEF IInv

LEMMA ResetInits ==
    ASSUME NEW r \in Requests, Reset(r)
    PROVE  Init'
BY DEF Reset, Init, NoAnswer

\* Bytes are added behind those that are there.
LEMMA ReceiveStep ==
    ASSUME IInv, NEW n \in 1..(Len(Wire(request)) - sent), Receive(n)
    PROVE  IInv'
<1> DEFINE w == Wire(request)
           now == sent + n
           l == Len(m_readBuf)
           piece == SubSeq(w, sent + 1, now)
           b == m_readBuf \o piece
<1>1. /\ TypeOK /\ Cursors /\ Machine /\ Received /\ pc = "reading"
      /\ InHead \/ InBodyOf
  BY Types DEF IInv, Receive
<1>2. /\ now <= Len(w) /\ (Whole => now <= Len(HeadOf(request)) \/ now = Len(w))
      /\ sent' = now /\ m_readBuf' = b /\ line_status' = "LINE_OK" /\ pc' = "parsing"
      /\ UNCHANGED <<request, m_checkIndex, m_startLine, m_check_state,
                     m_contentLength, m_linger, answer>>
  BY DEF Receive
<1>3. /\ Len(HeadOf(request)) = HeadLen /\ w \in Seq(Byte) /\ Len(w) \in Nat
  <2>1. request \in Requests
    BY <1>1 DEF TypeOK
  <2> QED
    BY <2>1, Bytes, LenProperties
<1>4. /\ sent = l /\ l \in Nat /\ sent \in Nat /\ n \in Nat /\ n >= 1 /\ now \in Nat
      /\ m_readBuf \in Seq(Byte)
  BY <1>1, <1>3, LenProperties DEF Cursors
<1> HIDE DEF w
<1>5. /\ piece \in Seq(Byte) /\ Len(piece) = n
      /\ \A i \in 1..n : piece[i] = w[sent + i]
  <2>1. \A i \in (sent + 1)..now : w[i] \in Byte
    <3>1. \A i \in (sent + 1)..now : i \in 1..Len(w)
      BY <1>2, <1>3, <1>4
    <3> QED
      BY <1>3, <3>1, ElementOfSeq
  <2>2. /\ piece \in Seq(Byte)
        /\ Len(piece) = IF sent + 1 <= now THEN now - (sent + 1) + 1 ELSE 0
        /\ \A i \in 1..(now - (sent + 1) + 1) : piece[i] = w[sent + 1 + i - 1]
    BY <1>4, <2>1, SubSeqProperties
  <2> HIDE DEF piece
  <2>3. /\ sent + 1 <= now /\ now - (sent + 1) + 1 = n
        /\ \A i \in 1..n : sent + 1 + i - 1 = sent + i
    BY <1>4
  <2>4. \A i \in 1..n : piece[i] = w[sent + 1 + i - 1]
    BY <2>2, <2>3
  <2> QED
    BY <2>2, <2>3, <2>4
<1> HIDE DEF piece
<1>6. /\ b \in Seq(Byte) /\ Len(b) = now
      /\ \A p \in 1..l : b[p] = m_readBuf[p]
      /\ \A p \in (l + 1)..now : b[p] = w[p]
  <2>1. /\ b \in Seq(Byte) /\ Len(b) = l + Len(piece)
        /\ \A p \in 1..(l + Len(piece)) :
              b[p] = IF p <= l THEN m_readBuf[p] ELSE piece[p - l]
    <3>1. m_readBuf \in Seq(Byte) /\ piece \in Seq(Byte)
      BY <1>4, <1>5
    <3> QED
      BY <3>1, ConcatProperties, Zenon
  <2> HIDE DEF b
  <2>2. ASSUME NEW p \in (l + 1)..now
        PROVE  b[p] = w[p]
    <3> DEFINE i == p - l
    <3>1. p \in 1..(l + n) /\ ~(p <= l) /\ i \in 1..n /\ sent + i = p
      BY <1>4
    <3> HIDE DEF i
    <3>2. piece[i] = w[p]
      BY <1>5, <3>1
    <3> QED
      BY <1>5, <2>1, <3>1, <3>2 DEF i
  <2>3. \A p \in 1..l : p \in 1..(l + n) /\ p <= l
    BY <1>4
  <2>4. Len(b) = now
    BY <1>4, <1>5, <2>1
  <2> QED
    BY <1>5, <2>1, <2>2, <2>3, <2>4
<1> HIDE DEF b
<1>7. Headers' = Headers /\ HeadLen' = HeadLen /\ Wire(request)' = w
  BY <1>2 DEF Headers, HeadLen, Wire, HeadOf, w
<1>8. Cursors'
  <2>1. /\ m_startLine \in Nat /\ m_checkIndex \in Nat /\ m_startLine <= m_checkIndex
        /\ m_checkIndex <= l
    BY <1>1 DEF Cursors
  <2>2. m_checkIndex <= now
    BY <1>4, <2>1
  <2> QED
    BY <1>1, <1>2, <1>6, <2>1, <2>2 DEF Cursors
<1>9. Machine' /\ Received' /\ Answered'
  BY <1>1, <1>2, <1>3, <1>7 DEF Machine, Received, Answered, w
<1>10. Unread => Unread'
  <2>1. ASSUME Unread, NEW p \in (m_startLine + 1)..now
        PROVE  b[p] = w[p]
    <3>1. m_startLine \in Nat /\ m_startLine <= l
      BY <1>1, <1>4 DEF Cursors
    <3>2. CASE p <= l
      <4>1. p \in (m_startLine + 1)..l /\ p \in 1..l
        BY <1>4, <3>1, <3>2
      <4> QED
        BY <1>6, <2>1, <4>1 DEF Unread, w
    <3>3. CASE ~(p <= l)
      <4>1. p \in (l + 1)..now
        BY <1>4, <3>1, <3>3
      <4> QED
        BY <1>6, <4>1
    <3> QED
      BY <3>2, <3>3
  <2> QED
    BY <1>2, <1>6, <1>7, <2>1 DEF Unread
<1>11. \A h, j : Among(h, j)' <=> Among(h, j)
  BY <1>7 DEF Among
<1>12. CASE InHead
  <2>1. PICK k \in 0..(Len(Headers) + 1) : Consumed(k)
    BY <1>12 DEF InHead
  <2>2. k > 0 => m_readBuf'[m_startLine] = "NUL"
    <3>1. k > 0 => m_startLine \in 1..l
      <4>1. k \in Nat /\ m_startLine = 3 * k /\ m_startLine <= l
        <5>1. Len(Headers) \in Nat
          BY <1>1, Bytes DEF TypeOK
        <5>2. m_startLine \in Nat /\ m_checkIndex \in Nat /\ m_startLine <= m_checkIndex
              /\ m_checkIndex <= l
          BY <1>1 DEF Cursors
        <5> QED
          BY <1>4, <2>1, <5>1, <5>2 DEF Consumed
      <4> QED
        BY <1>4, <4>1
    <3> QED
      BY <1>2, <1>6, <2>1, <3>1 DEF Consumed
  <2>3. Consumed(k)'
    BY <1>2, <1>7, <1>10, <1>11, <2>1, <2>2 DEF Consumed
  <2>4. InHead'
    BY <1>7, <2>1, <2>3 DEF InHead
  <2> QED
    BY <1>2, <1>8, <1>9, <2>4, TypesNext DEF IInv
<1>13. CASE InBodyOf
  <2>1. InBodyOf'
    <3> HIDE DEF HeadLen
    <3> QED
      BY <1>2, <1>7, <1>10, <1>11, <1>13 DEF InBodyOf
  <2> QED
    BY <1>2, <1>8, <1>9, <2>1, TypesNext DEF IInv
<1> QED
  BY <1>1, <1>12, <1>13

LEMMA StutterStep ==
    ASSUME IInv, UNCHANGED vars
    PROVE  IInv'
<1>1. /\ UNCHANGED <<request, sent, m_readBuf, m_checkIndex, m_startLine, m_check_state>>
      /\ UNCHANGED <<m_contentLength, m_linger, line_status, pc, answer>>
  BY DEF vars
<1>2. Headers' = Headers /\ HeadLen' = HeadLen /\ Wire(request)' = Wire(request)
      /\ Meaning(request)' = Meaning(request)
  BY <1>1 DEF Headers, HeadLen, Wire, HeadOf, Meaning
<1>3. \A h, j : Among(h, j)' <=> Among(h, j)
  BY <1>2 DEF Among
<1>4. Unread' <=> Unread
  BY <1>1, <1>2 DEF Unread
<1>5. InHead => InHead'
  <2>1. ASSUME NEW k \in 0..(Len(Headers) + 1), Consumed(k)
        PROVE  Consumed(k)'
    BY <1>1, <1>2, <1>3, <1>4, <2>1 DEF Consumed
  <2> QED
    BY <1>2, <2>1 DEF InHead
<1>6. InBodyOf => InBodyOf'
  BY <1>1, <1>2, <1>3, <1>4 DEF InBodyOf
<1>7. TypeOK' /\ Received' /\ (Whole => Answered')
  BY <1>1, <1>2 DEF IInv, TypeOK, Received, Answered
<1> QED
  BY <1>1, <1>2, <1>5, <1>6, <1>7 DEF IInv

------------------------------------------------------------------------------
(* The theorems.                                                           *)

\* IInv is an invariant.
THEOREM Invariance == SafeSpec => []IInv
<1>1. ASSUME IInv, [Next]_vars
      PROVE  IInv'
  <2>1. CASE \E n \in 1..(Len(Wire(request)) - sent) : Receive(n)
    BY <1>1, <2>1, ReceiveStep
  <2>2. CASE ParseRequestLine
    BY <1>1, <2>2, RequestLineStep
  <2>3. CASE BlankLine
    BY <1>1, <2>3, BlankLineStep
  <2>4. CASE HeaderLine
    BY <1>1, <2>4, HeaderLineStep
  <2>5. CASE ParseContent
    BY <1>1, <2>5, ContentStep
  <2>6. CASE NoLine
    BY <1>1, <2>6, NoLineStep
  <2>7. CASE \E r \in Requests : Reset(r)
    <3>1. Init'
      BY <2>7, ResetInits
    <3>2. Init' => IInv'
      BY InitInv, PTL
    <3> QED
      BY <3>1, <3>2
  <2>8. CASE UNCHANGED vars
    BY <1>1, <2>8, StutterStep
  <2> QED
    BY <1>1, <2>1, <2>2, <2>3, <2>4, <2>5, <2>6, <2>7, <2>8 DEF Next, ProcessRead
<1> QED
  BY <1>1, InitInv, PTL DEF SafeSpec

\* The types hold, and however a request is cut into pieces, and whatever of a body is
\* scanned for lines, the cursors of the slave and of the master machine never
\* overtake one another nor leave what is read (http_conn.cpp:310-357, 523-580).
THEOREM TypeCorrect == SafeSpec => []TypeOK
<1>1. IInv => TypeOK
  BY DEF IInv
<1> QED
  BY <1>1, Invariance, PTL

\* For any requests, cut into any pieces, sent one after the other over one slot: an
\* answer is what its request says, read at once, and nothing of an earlier one is in
\* it (http_conn.cpp:523-580).
THEOREM AnswersAreRight == SafeSpec => []AnswerIsRight
<1>1. IInv => AnswerIsRight
  BY DEF IInv, AnswerIsRight
<1> QED
  BY <1>1, Invariance, PTL

\* As long as bodies come in one piece, the parser never waits for bytes when it has
\* the whole of a request without a stray CR or LF (http_conn.cpp:273, 523-580).
THEOREM AllAnswered ==
    ASSUME Whole
    PROVE  SafeSpec => []Answered
<1>1. IInv => Answered
  BY DEF IInv
<1> QED
  BY <1>1, Invariance, PTL
================================================================================
