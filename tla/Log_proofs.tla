------------------------------- MODULE Log_proofs -------------------------------
(***************************************************************************)
(* Proofs about Log, for any number of threads, lines and days and any     *)
(* length of file.  IInv adds to the properties what a call has done at    *)
(* each point, that a stream that is open is the current one of its kind,  *)
(* and that streams hold just the lines that have been put, each once.     *)
(***************************************************************************)
EXTENDS Log, SequenceTheorems, TLAPS

Idle(t) == pc[t] = "idle"

\* What a call has done, and that it has a line of its own.
Calls ==
    \A t \in Threads :
        /\ ~Idle(t) => line[t] \in DOMAIN lines /\ level[t] = lines[line[t]]
        /\ \A u \in Threads \ {t} : ~Idle(t) /\ ~Idle(u) => line[t] # line[u]
        /\ pc[t] = "put" => logStr[t] = line[t]
        /\ pc[t] \in {"choose", "push"} => m_isAsync /\ logStr[t] = line[t]

\* While calls are all of one kind m_level is that kind, and so is every rotation.
OneKind == ~mixed => ~torn /\ \A t \in Threads : ~Idle(t) => level[t] = m_level

\* The streams: the open ones are the current ones, the closed ones are written.
Sound ==
    ~m_isAsync /\ ~torn =>
        /\ \A kind \in Kinds : streams[fp[kind]].kind = kind /\ streams[fp[kind]].open
        /\ \A s \in DOMAIN streams :
            IF streams[s].open THEN s = fp[streams[s].kind]
            ELSE streams[s].buffered = {}

\* The streams hold the lines that have been put, each in one of its kind.
Placed ==
    ~m_isAsync /\ ~torn =>
        /\ \A s \in DOMAIN streams : \A n \in Held(s) :
            n \in DOMAIN lines /\ ~ToPut(n) /\ streams[s].kind = lines[n]
        /\ \A n \in DOMAIN lines : ~ToPut(n) => \E s \in DOMAIN streams : n \in Held(s)
        /\ \A r, s \in DOMAIN streams : r # s => Held(r) \cap Held(s) = {}

IInv ==
    /\ TypeOK /\ Calls /\ OneKind
    /\ Sound /\ Placed /\ FlushedWhenOver

------------------------------------------------------------------------------
(* Streams.                                                                *)

NameType == [tail : [day : -1..MaxDay, error : BOOLEAN], part : Nat]
StreamType == [kind : Kinds, name : NameType, open : BOOLEAN, buffered : SUBSET Nat,
               flushed : SUBSET Nat]

LEMMA DivInNat ==
    ASSUME NEW a \in Nat, NEW b \in Nat \ {0}
    PROVE  a \div b \in Nat
OBVIOUS

\* What fflush and fclose leave of a stream.
LEMMA FlushedIs ==
    ASSUME NEW s \in StreamType
    PROVE  /\ Flushed(s) \in StreamType /\ Closed(s) \in StreamType
           /\ Flushed(s).kind = s.kind /\ Closed(s).kind = s.kind
           /\ Flushed(s).open = s.open /\ Closed(s).open = FALSE
           /\ Flushed(s).buffered = {} /\ Closed(s).buffered = {}
           /\ Flushed(s).flushed = s.flushed \cup s.buffered
           /\ Closed(s).flushed = s.flushed \cup s.buffered
BY DEF Flushed, Closed, StreamType

\* One stream replaced by another.
LEMMA Replaced ==
    ASSUME NEW seq \in Seq(StreamType), NEW i \in DOMAIN seq, NEW e \in StreamType
    PROVE  /\ [seq EXCEPT ![i] = e] \in Seq(StreamType)
           /\ Len([seq EXCEPT ![i] = e]) = Len(seq)
           /\ DOMAIN [seq EXCEPT ![i] = e] = DOMAIN seq
           /\ \A j \in DOMAIN seq : [seq EXCEPT ![i] = e][j] = IF j = i THEN e ELSE seq[j]
<1> DEFINE new == [seq EXCEPT ![i] = e]
<1>1. DOMAIN seq = 1..Len(seq)
  BY LenProperties
<1>2. /\ new \in Seq(StreamType) /\ Len(new) = Len(seq)
      /\ \A j \in 1..Len(seq) : new[j] = IF j = i THEN e ELSE seq[j]
  BY <1>1, ExceptSeq
<1> QED
  BY <1>1, <1>2

\* A line stays where it is when it is flushed.
LEMMA FlushKeeps ==
    ASSUME TypeOK, NEW i \in DOMAIN streams,
           streams' = [streams EXCEPT ![i] = Flushed(@)]
    PROVE  /\ streams' \in Seq(StreamType) /\ DOMAIN streams' = DOMAIN streams
           /\ \A s \in DOMAIN streams :
                /\ streams'[s].kind = streams[s].kind
                /\ streams'[s].open = streams[s].open
                /\ Held(s)' = Held(s)
                /\ streams[s].flushed \subseteq streams'[s].flushed
                /\ streams[s].buffered = {} => streams'[s].buffered = {}
           /\ streams'[i].buffered = {}
<1>a. streams \in Seq(StreamType)
  BY DEF TypeOK, StreamType, NameType
<1>1. streams \in Seq(StreamType) /\ streams[i] \in StreamType
  BY <1>a
<1> DEFINE e == Flushed(streams[i])
<1>2. e \in StreamType /\ streams' = [streams EXCEPT ![i] = e]
  BY <1>1, FlushedIs
<1> HIDE DEF e
<1>3. /\ streams' \in Seq(StreamType) /\ DOMAIN streams' = DOMAIN streams
      /\ \A s \in DOMAIN streams : streams'[s] = IF s = i THEN e ELSE streams[s]
  BY <1>1, <1>2, Replaced
<1>4. streams'[i] = Flushed(streams[i])
  BY <1>3 DEF e
<1>5. /\ streams'[i].kind = streams[i].kind
      /\ streams'[i].open = streams[i].open
      /\ streams'[i].buffered = {}
      /\ streams'[i].flushed = streams[i].flushed \cup streams[i].buffered
  BY <1>1, <1>4, FlushedIs
<1>6. ASSUME NEW s \in DOMAIN streams
      PROVE  /\ streams'[s].kind = streams[s].kind
             /\ streams'[s].open = streams[s].open
             /\ Held(s)' = Held(s)
             /\ streams[s].flushed \subseteq streams'[s].flushed
             /\ streams[s].buffered = {} => streams'[s].buffered = {}
  <2>1. CASE s = i
    BY <2>1, <1>5 DEF Held
  <2>2. CASE s # i
    BY <2>2, <1>3 DEF Held
  <2> QED
    BY <2>1, <2>2
<1> QED
  BY <1>3, <1>5, <1>6

\* A new file: the old stream keeps its lines, all flushed, and the new one is empty.
LEMMA SwitchKeeps ==
    ASSUME TypeOK, NEW kind \in Kinds, NEW day \in 0..MaxDay, NEW part \in Nat,
           Switch(kind, day, part)
    PROVE  /\ streams' \in Seq(StreamType)
           /\ DOMAIN streams' = DOMAIN streams \cup {Len(streams) + 1}
           /\ Len(streams) + 1 \notin DOMAIN streams
           /\ fp' \in [Kinds -> DOMAIN streams']
           /\ \A s \in DOMAIN streams :
                /\ streams'[s].kind = streams[s].kind
                /\ Held(s)' = Held(s)
                /\ streams[s].flushed \subseteq streams'[s].flushed
                /\ IF s = fp[m_level]
                   THEN streams'[s].open = FALSE /\ streams'[s].buffered = {}
                   ELSE streams'[s] = streams[s]
           /\ \E name : streams'[Len(streams) + 1] = Stream(kind, name)
<1>0. PICK name \in NameType :
        /\ streams' = Append([streams EXCEPT ![fp[m_level]] = Closed(@)], Stream(kind, name))
        /\ fp' = [fp EXCEPT ![kind] = Len(streams) + 1]
  <2> DEFINE new == [tail |-> Blank, part |-> part]
  <2>1. new \in NameType
    BY LogAssumption DEF NameType, Blank
  <2> QED
    BY <2>1 DEF Switch
<1> DEFINE i == fp[m_level]
           closed == [streams EXCEPT ![i] = Closed(@)]
<1>a. streams \in Seq(StreamType) /\ i \in DOMAIN streams
  BY DEF TypeOK, StreamType, NameType
<1>1. /\ streams \in Seq(StreamType) /\ i \in DOMAIN streams
      /\ streams[i] \in StreamType
  BY <1>a
<1> DEFINE e == Closed(streams[i])
<1>2. e \in StreamType /\ closed = [streams EXCEPT ![i] = e]
  BY <1>1, FlushedIs
<1> HIDE DEF e
<1>3. /\ closed \in Seq(StreamType) /\ DOMAIN closed = DOMAIN streams
      /\ Len(closed) = Len(streams)
      /\ \A s \in DOMAIN streams : closed[s] = IF s = i THEN e ELSE streams[s]
  BY <1>1, <1>2, Replaced
<1>4. closed[i] = Closed(streams[i])
      /\ \A s \in DOMAIN streams : s # i => closed[s] = streams[s]
  BY <1>1, <1>3 DEF e
<1>5. Stream(kind, name) \in StreamType
  BY DEF Stream, StreamType
<1>6. streams' = Append(closed, Stream(kind, name))
  BY <1>0
<1> HIDE DEF closed
<1>7. /\ streams' \in Seq(StreamType)
      /\ DOMAIN streams' = DOMAIN streams \cup {Len(streams) + 1}
      /\ Len(streams) + 1 \notin DOMAIN streams
      /\ \A s \in DOMAIN streams : streams'[s] = closed[s]
      /\ streams'[Len(streams) + 1] = Stream(kind, name)
  BY <1>1, <1>3, <1>5, <1>6
<1>8. fp' \in [Kinds -> DOMAIN streams']
  BY <1>0, <1>7 DEF TypeOK
<1>9. /\ streams'[i].kind = streams[i].kind
      /\ streams'[i].open = FALSE
      /\ streams'[i].buffered = {}
      /\ streams'[i].flushed = streams[i].flushed \cup streams[i].buffered
  <2>1. streams'[i] = Closed(streams[i])
    BY <1>1, <1>4, <1>7
  <2>2. streams[i] \in StreamType
    BY <1>1
  <2> HIDE DEF i, closed
  <2>3. /\ Closed(streams[i]).kind = streams[i].kind
        /\ Closed(streams[i]).open = FALSE
        /\ Closed(streams[i]).buffered = {}
        /\ Closed(streams[i]).flushed = streams[i].flushed \cup streams[i].buffered
    BY <2>2, FlushedIs, Zenon
  <2> QED
    BY <2>1, <2>3, Zenon
<1>10. ASSUME NEW s \in DOMAIN streams
       PROVE  /\ streams'[s].kind = streams[s].kind
              /\ Held(s)' = Held(s)
              /\ streams[s].flushed \subseteq streams'[s].flushed
              /\ IF s = i THEN streams'[s].open = FALSE /\ streams'[s].buffered = {}
                 ELSE streams'[s] = streams[s]
  <2>1. CASE s = i
    BY <2>1, <1>9 DEF Held
  <2>2. CASE s # i
    BY <2>2, <1>4, <1>7 DEF Held
  <2> QED
    BY <2>1, <2>2
<1> QED
  BY <1>7, <1>8, <1>10

------------------------------------------------------------------------------
(* Every step preserves IInv.                                              *)

\* A call that goes on, and has not put its line.
LEMMA GoesOn ==
    ASSUME TypeOK, NEW t \in Threads, NEW place \in {"format", "choose", "push", "put"},
           pc[t] \notin {"idle", "flush"}, Go(t, place), line' = line
    PROVE  /\ \A n : (InCall(n)' <=> InCall(n)) /\ (ToPut(n)' <=> ToPut(n))
           /\ \A u \in Threads : Idle(u)' <=> Idle(u)
<1> USE DEF Go
<1>1. /\ pc'[t] = place /\ place \notin {"idle", "flush"}
      /\ \A u \in Threads \ {t} : pc'[u] = pc[u]
  BY DEF TypeOK
<1>2. \A u \in Threads : /\ pc'[u] # "idle" <=> pc[u] # "idle"
                        /\ pc'[u] \notin {"idle", "flush"} <=> pc[u] \notin {"idle", "flush"}
  BY <1>1
<1> QED
  BY <1>2 DEF InCall, ToPut, Idle

\* A call begins (log.cpp:91-117).
LEMMA WriteLogStep ==
    ASSUME IInv, NEW t \in Threads, NEW kind \in Kinds, WriteLog(t, kind)
    PROVE  IInv'
<1> USE LogAssumption DEF IInv, WriteLog, At, Go, fileVars, queueVars
<1>a. lines \in Seq(Kinds) /\ lines' = Append(lines, kind) /\ Len(lines) \in Nat
  BY DEF TypeOK
<1>b. PICK new \in Nat : new = Len(lines) + 1
  BY <1>a
<1>1. /\ lines' \in Seq(Kinds) /\ new \in Nat /\ new \notin DOMAIN lines
      /\ DOMAIN lines' = DOMAIN lines \cup {new} /\ lines'[new] = kind
      /\ \A n \in DOMAIN lines : lines'[n] = lines[n]
  <2> HIDE DEF IInv, WriteLog
  <2> QED
    BY <1>a, <1>b
<1>2. /\ pc[t] = "idle" /\ pc'[t] = "rotate" /\ line'[t] = new /\ level'[t] = kind
      /\ \A u \in Threads \ {t} : pc'[u] = pc[u] /\ line'[u] = line[u]
                                /\ level'[u] = level[u]
  BY <1>b DEF TypeOK
<1>3. \A n \in DOMAIN lines : (InCall(n)' <=> InCall(n)) /\ (ToPut(n)' <=> ToPut(n))
  BY <1>1, <1>2 DEF InCall, ToPut
<1>4. InCall(new)' /\ ToPut(new)'
  BY <1>2 DEF InCall, ToPut
<1>5. TypeOK'
  BY <1>1, <1>b DEF TypeOK
<1>6. Calls'
  BY <1>1, <1>2 DEF Calls, Idle
<1>7. OneKind'
  BY <1>2 DEF OneKind, Idle
<1>8. Sound'
  BY DEF Sound
<1>9. Placed'
  <2>1. \A s \in DOMAIN streams : Held(s)' = Held(s)
    BY DEF Held
  <2> QED
    BY <2>1, <1>1, <1>3, <1>4 DEF Placed
<1>10. FlushedWhenOver'
  BY <1>1, <1>3, <1>4 DEF FlushedWhenOver
<1> QED
  BY <1>5, <1>6, <1>7, <1>8, <1>9, <1>10

\* The switch of files (log.cpp:118-178).
LEMMA RotateStep ==
    ASSUME IInv, NEW t \in Threads, Rotate(t)
    PROVE  IInv'
<1> USE LogAssumption DEF IInv
<1>1. /\ pc[t] = "rotate" /\ Go(t, "format")
      /\ UNCHANGED <<up, m_isAsync, today, m_level, m_buf, queueVars, level,
                     my_tm, line, logStr, lines, mixed>>
  BY DEF Rotate, At
<1>0. PICK part \in Nat : Switch(level[t], my_tm[t], part) \/ UNCHANGED <<fp, streams, torn>>
  <2>a. m_count \in Nat
    BY DEF TypeOK
  <2> HIDE DEF IInv
  <2>1. m_count + 1 \in Nat /\ m_splitLines \in Nat \ {0}
    BY <2>a
  <2>2. (m_count + 1) \div m_splitLines \in Nat /\ 0 \in Nat
    BY <2>1, DivInNat
  <2> QED
    BY <2>2, Zenon DEF Rotate
<1>2. m_count' \in Nat /\ m_today' \in 0..MaxDay
  BY DEF Rotate, TypeOK
<1>3. /\ \A n : (InCall(n)' <=> InCall(n)) /\ (ToPut(n)' <=> ToPut(n))
      /\ \A u \in Threads : Idle(u)' <=> Idle(u)
  BY <1>1, GoesOn
<1>4. level[t] \in Kinds /\ ~Idle(t)
  BY <1>1 DEF TypeOK, Idle
<1>5. Calls'
  BY <1>1, <1>3 DEF Calls, Go, TypeOK
<1>6. CASE UNCHANGED <<fp, streams, torn>>
  <2>1. \A s : Held(s)' = Held(s)
    BY <1>6 DEF Held
  <2>2. TypeOK'
    BY <1>1, <1>2, <1>6 DEF TypeOK, Go, queueVars
  <2>3. OneKind' /\ Sound'
    BY <1>1, <1>3, <1>6 DEF OneKind, Sound
  <2>4. Placed' /\ FlushedWhenOver'
    BY <1>1, <1>3, <1>6, <2>1 DEF Placed, FlushedWhenOver
  <2> QED
    BY <1>5, <2>2, <2>3, <2>4
<1>7. CASE Switch(level[t], my_tm[t], part)
  <2> DEFINE i == fp[m_level]
  <2>a. streams \in Seq(StreamType)
    BY DEF TypeOK, StreamType, NameType
  <2>b. \A s \in DOMAIN streams : streams[s].kind \in Kinds
    <3>1. \A s \in DOMAIN streams : streams[s] \in StreamType
      BY <2>a
    <3> QED
      BY <3>1 DEF StreamType
  <2>c. PICK new \in Nat : new = Len(streams) + 1
    BY <2>a
  <2>1. /\ streams' \in Seq(StreamType)
        /\ DOMAIN streams' = DOMAIN streams \cup {new} /\ new \notin DOMAIN streams
        /\ fp' \in [Kinds -> DOMAIN streams']
        /\ \A s \in DOMAIN streams :
             /\ streams'[s].kind = streams[s].kind
             /\ Held(s)' = Held(s)
             /\ streams[s].flushed \subseteq streams'[s].flushed
             /\ IF s = i THEN streams'[s].open = FALSE /\ streams'[s].buffered = {}
                ELSE streams'[s] = streams[s]
        /\ \E name : streams'[new] = Stream(level[t], name)
    <3>1. my_tm[t] \in 0..MaxDay
      BY DEF TypeOK
    <3> QED
      BY <1>4, <1>7, <2>c, <3>1, SwitchKeeps
  <2>2. /\ streams'[new].kind = level[t] /\ streams'[new].open
        /\ streams'[new].buffered = {} /\ streams'[new].flushed = {}
        /\ Held(new)' = {}
    BY <2>1 DEF Stream, Held
  <2>3. torn' = (torn \/ m_level # level[t]) /\ fp' = [fp EXCEPT ![level[t]] = new]
    BY <1>7, <2>c DEF Switch
  <2>4. /\ fp'[level[t]] = new /\ \A k \in Kinds \ {level[t]} : fp'[k] = fp[k]
        /\ \A k \in Kinds : fp[k] \in DOMAIN streams
    BY <1>4, <2>3 DEF TypeOK
  <2>5. TypeOK'
    <3>1. torn' \in BOOLEAN
      BY <2>3 DEF TypeOK
    <3> QED
      BY <1>1, <1>2, <2>1, <3>1 DEF TypeOK, Go, StreamType, NameType, queueVars
  <2>6. OneKind'
    BY <1>1, <1>3, <1>4, <2>3 DEF OneKind
  <2>7. ~torn' => ~torn /\ m_level = level[t]
    BY <2>3
  <2>8. Sound'
    <3> SUFFICES ASSUME ~m_isAsync, ~torn'
                 PROVE  /\ \A k \in Kinds : streams'[fp'[k]].kind = k
                                           /\ streams'[fp'[k]].open
                        /\ \A s \in DOMAIN streams' :
                             IF streams'[s].open THEN s = fp'[streams'[s].kind]
                             ELSE streams'[s].buffered = {}
      BY <1>1 DEF Sound
    <3>1. /\ \A k \in Kinds : streams[fp[k]].kind = k /\ streams[fp[k]].open
          /\ \A s \in DOMAIN streams :
               IF streams[s].open THEN s = fp[streams[s].kind]
               ELSE streams[s].buffered = {}
      BY <2>7 DEF Sound
    <3>2. ASSUME NEW k \in Kinds
          PROVE  streams'[fp'[k]].kind = k /\ streams'[fp'[k]].open
      <4>1. CASE k = level[t]
        BY <4>1, <2>2, <2>4
      <4>2. CASE k # level[t]
        <5>1. fp[k] # i
          BY <1>4, <2>7, <3>1, <4>2
        <5> QED
          BY <5>1, <2>1, <2>4, <3>1, <4>2
      <4> QED
        BY <4>1, <4>2
    <3>3. ASSUME NEW s \in DOMAIN streams'
          PROVE  IF streams'[s].open THEN s = fp'[streams'[s].kind]
                 ELSE streams'[s].buffered = {}
      <4>1. CASE s = new
        BY <4>1, <2>2, <2>4
      <4>2. CASE s = i
        BY <4>2, <1>4, <2>1, <2>4, <2>7
      <4>3. CASE s \in DOMAIN streams /\ s # i
        <5>1. streams'[s] = streams[s] /\ streams[s].kind \in Kinds
          BY <4>3, <2>1, <2>b
        <5>2. streams[s].open => streams[s].kind # level[t]
          BY <4>3, <2>7, <3>1
        <5> QED
          BY <5>1, <5>2, <4>3, <2>4, <3>1
      <4> QED
        BY <4>1, <4>2, <4>3, <2>1
    <3> QED
      BY <3>2, <3>3
  <2>9. Placed'
    BY <1>1, <1>3, <2>1, <2>2, <2>7 DEF Placed
  <2>10. FlushedWhenOver'
    BY <1>1, <1>3, <2>1 DEF FlushedWhenOver
  <2> QED
    BY <1>5, <2>5, <2>6, <2>8, <2>9, <2>10
<1> QED
  BY <1>0, <1>6, <1>7

\* Steps of a call, of the log thread and of the clock that write no file and change
\* neither the lines nor what is to be put.
LEMMA QuietStep ==
    ASSUME IInv, TypeOK', Calls',
           UNCHANGED <<m_isAsync, m_level, fp, streams, lines, level, torn, mixed>>,
           \A n : (InCall(n)' <=> InCall(n)) /\ (ToPut(n)' <=> ToPut(n)),
           \A u \in Threads : Idle(u)' <=> Idle(u)
    PROVE  IInv'
<1> USE DEF IInv
<1>1. \A s : Held(s)' = Held(s)
  BY DEF Held
<1>2. OneKind' /\ Sound'
  BY DEF OneKind, Sound
<1>3. Placed' /\ FlushedWhenOver'
  BY <1>1 DEF Placed, FlushedWhenOver
<1> QED
  BY <1>2, <1>3

\* The line is made and copied (log.cpp:183-196), or a thread has found the queue not
\* full (block_queue.h:44-52).
LEMMA FormatStep ==
    ASSUME IInv, NEW t \in Threads, Format(t) \/ Choose(t)
    PROVE  IInv'
<1> USE DEF IInv
<1>1. PICK place \in {"choose", "push", "put"} :
        /\ Go(t, place) /\ pc[t] \in {"format", "choose"}
        /\ logStr'[t] = line[t] /\ (place # "put" => m_isAsync)
  BY DEF Format, Choose, At, TypeOK, Calls
<1>2. UNCHANGED <<up, m_isAsync, today, m_level, fileVars, queueVars, level, my_tm,
                  line, history>>
  BY DEF Format, Choose, fileVars, queueVars, history
<1>3. /\ \A n : (InCall(n)' <=> InCall(n)) /\ (ToPut(n)' <=> ToPut(n))
      /\ \A u \in Threads : Idle(u)' <=> Idle(u)
  BY <1>1, <1>2, GoesOn
<1>4. /\ pc'[t] = place
      /\ \A u \in Threads \ {t} : pc'[u] = pc[u] /\ logStr'[u] = logStr[u]
  BY <1>1 DEF Go, TypeOK, Format, Choose
<1>5. m_buf' \in Nat /\ logStr' \in [Threads -> Nat]
  BY DEF Format, Choose, TypeOK
<1>6. TypeOK'
  BY <1>1, <1>2, <1>5 DEF TypeOK, Go, fileVars, queueVars, history
<1>7. Calls'
  BY <1>1, <1>2, <1>3, <1>4 DEF Calls, history
<1> QED
  BY <1>2, <1>3, <1>6, <1>7, QuietStep DEF fileVars, history

\* The process ends, the log thread pops or stops in Cond::Wait, a day passes.
LEMMA OtherStep ==
    ASSUME IInv, (\E t \in Threads : At(t, "push") /\ Dies(t)) \/ Pop \/ NextDay
    PROVE  IInv'
<1> USE LogAssumption DEF IInv
<1>1. UNCHANGED <<m_isAsync, m_level, fp, streams, lines, level, torn, mixed, pc, line,
                  logStr>>
  BY DEF Dies, Pop, NextDay, fileVars, history
<1>2. /\ \A n : (InCall(n)' <=> InCall(n)) /\ (ToPut(n)' <=> ToPut(n))
      /\ \A u \in Threads : Idle(u)' <=> Idle(u)
  BY <1>1 DEF InCall, ToPut, Idle
<1>3. TypeOK'
  <2>1. up' \in BOOLEAN /\ UNCHANGED <<my_tm, m_count, m_today, m_buf>>
    BY DEF TypeOK, Dies, Pop, NextDay, fileVars
  <2>2. /\ q_mutex' \in {none, "log"} /\ logpc' \in {"pop", "wait", "put"}
        /\ m_size' \in 0..m_maxSize /\ m_array' \subseteq Nat /\ singleLog' \in Nat
    <3>1. CASE Pop
      <4>1. CASE UNCHANGED queueVars
        BY <4>1 DEF TypeOK, queueVars
      <4>2. CASE CondWait
        BY <4>2 DEF TypeOK, CondWait
      <4>3. CASE m_size > 0 /\ \E n \in m_array \cup {0} : PopItem(n)
        <5>1. PICK n \in m_array \cup {0} : PopItem(n)
          BY <4>3
        <5>2. m_size \in 0..m_maxSize /\ m_array \subseteq Nat /\ q_mutex \in {none, "log"}
          BY DEF TypeOK
        <5>3. m_size - 1 \in 0..m_maxSize /\ n \in Nat
          BY <4>3, <5>2
        <5> QED
          BY <5>1, <5>2, <5>3 DEF PopItem
      <4> QED
        BY <3>1, <4>1, <4>2, <4>3 DEF Pop
    <3>2. CASE UNCHANGED queueVars
      BY <3>2 DEF TypeOK, queueVars
    <3> QED
      BY <3>1, <3>2 DEF Dies, NextDay
  <2>3. today' \in 0..MaxDay
    <3>1. CASE NextDay
      BY <3>1 DEF TypeOK, NextDay
    <3>2. CASE today' = today
      BY <3>2 DEF TypeOK
    <3> QED
      BY <3>1, <3>2 DEF Dies, Pop
  <2> QED
    BY <1>1, <2>1, <2>2, <2>3 DEF TypeOK
<1>4. Calls'
  BY <1>1, <1>2 DEF Calls
<1> QED
  BY <1>1, <1>2, <1>3, <1>4, QuietStep

\* A line is stored in the queue, or lost (block_queue.h:88-101).
LEMMA PushStep ==
    ASSUME IInv, NEW t \in Threads, Push(t), ~Dies(t)
    PROVE  IInv'
<1> USE LogAssumption DEF IInv
<1>1. /\ pc[t] = "push" /\ Go(t, "flush") /\ m_isAsync
      /\ UNCHANGED <<up, m_isAsync, today, m_level, fileVars, m_buf, q_mutex, logpc,
                     singleLog, level, my_tm, line, logStr, history>>
  BY DEF Push, At, Calls
<1>2. /\ pc'[t] = "flush" /\ \A u \in Threads \ {t} : pc'[u] = pc[u]
  BY <1>1 DEF Go, TypeOK
<1>3. m_size' \in 0..m_maxSize /\ m_array' \subseteq Nat
  <2>1. /\ m_size \in 0..m_maxSize /\ m_array \subseteq Nat /\ logStr[t] \in Nat
        /\ m_maxSize \in Nat
    BY DEF TypeOK
  <2>2. \/ m_size < m_maxSize /\ m_size' = m_size + 1 /\ m_array' = m_array \cup {logStr[t]}
        \/ UNCHANGED <<m_size, m_array>>
    BY DEF Push
  <2>3. m_size' \in 0..m_maxSize
    BY <2>1, <2>2
  <2>4. m_array' \subseteq Nat
    <3>1. CASE m_array' = m_array \cup {logStr[t]}
      BY <2>1, <3>1
    <3> QED
      BY <2>1, <2>2, <3>1
  <2> QED
    BY <2>3, <2>4
<1>4. TypeOK'
  BY <1>1, <1>3 DEF TypeOK, Go, fileVars, history
<1>5. Calls'
  BY <1>1, <1>2 DEF Calls, Idle, history
<1>6. OneKind'
  BY <1>1, <1>2 DEF OneKind, Idle, history
<1>7. Sound' /\ Placed' /\ FlushedWhenOver'
  BY <1>1 DEF Sound, Placed, FlushedWhenOver
<1> QED
  BY <1>4, <1>5, <1>6, <1>7

\* The log thread writes what it has popped (log.h:51-61).
LEMMA PutSingleStep ==
    ASSUME IInv, PutSingle
    PROVE  IInv'
<1> USE LogAssumption DEF IInv
<1>1. m_isAsync /\ UNCHANGED <<up, m_isAsync, today, m_level, m_count, m_today, fp, m_buf, q_mutex,
                  m_size, m_array, singleLog, pc, level, my_tm, line, logStr, history>>
  BY DEF PutSingle
<1> DEFINE i == fp[m_level]
           e == [streams[i] EXCEPT !.buffered = @ \cup ({singleLog} \ {0})]
<1>2. streams \in Seq(StreamType) /\ i \in DOMAIN streams
  BY DEF TypeOK, StreamType, NameType
<1>3. e \in StreamType
  <2>1. streams[i] \in StreamType /\ singleLog \in Nat
    BY <1>2 DEF TypeOK
  <2> QED
    BY <2>1 DEF StreamType
<1>4. streams' = [streams EXCEPT ![i] = e] /\ logpc' = "pop"
  BY DEF PutSingle
<1> HIDE DEF e
<1>5. streams' \in Seq(StreamType) /\ DOMAIN streams' = DOMAIN streams
  BY <1>2, <1>3, <1>4, Replaced
<1>6. TypeOK'
  BY <1>1, <1>4, <1>5 DEF TypeOK, StreamType, NameType, history
<1>7. Calls' /\ OneKind'
  BY <1>1 DEF Calls, OneKind, Idle, history
<1>8. Sound' /\ Placed' /\ FlushedWhenOver'
  BY <1>1 DEF Sound, Placed, FlushedWhenOver
<1> QED
  BY <1>6, <1>7, <1>8

\* A line is written (log.cpp:204-211).
LEMMA PutStep ==
    ASSUME IInv, NEW t \in Threads, Put(t)
    PROVE  IInv'
<1> USE LogAssumption DEF IInv
<1> DEFINE i == fp[level[t]]
<1>1. /\ pc[t] = "put" /\ logStr[t] = line[t] /\ line[t] \in DOMAIN lines
      /\ level[t] = lines[line[t]] /\ level[t] \in Kinds
      /\ pc' = [pc EXCEPT ![t] = "flush"]
      /\ UNCHANGED <<up, m_isAsync, today, m_level, m_count, m_today, fp, m_buf, queueVars,
                     level, my_tm, line, logStr, history>>
  BY DEF Put, At, Go, Calls, Idle, TypeOK
<1>2. streams \in Seq(StreamType) /\ i \in DOMAIN streams
  BY <1>1 DEF TypeOK, StreamType, NameType
<1>3. PICK e : e = [streams[i] EXCEPT !.buffered = @ \cup {logStr[t]}]
  OBVIOUS
<1>4. streams' = [streams EXCEPT ![i] = e]
  BY <1>3 DEF Put
<1>5. /\ e \in StreamType /\ e.kind = streams[i].kind /\ e.open = streams[i].open
      /\ e.buffered = streams[i].buffered \cup {line[t]}
      /\ e.flushed = streams[i].flushed
  <2>1. streams[i] \in StreamType /\ line[t] \in Nat
    BY <1>2 DEF TypeOK
  <2> QED
    BY <1>1, <1>3, <2>1 DEF StreamType
<1>6. /\ streams' \in Seq(StreamType) /\ DOMAIN streams' = DOMAIN streams
      /\ \A s \in DOMAIN streams : streams'[s] = IF s = i THEN e ELSE streams[s]
  BY <1>2, <1>4, <1>5, Replaced
<1>7. \A s \in DOMAIN streams :
        /\ streams'[s].kind = streams[s].kind
        /\ streams'[s].open = streams[s].open
        /\ streams'[s].flushed = streams[s].flushed
        /\ s # i => streams'[s] = streams[s]
        /\ Held(s)' = IF s = i THEN Held(s) \cup {line[t]} ELSE Held(s)
  BY <1>5, <1>6 DEF Held
<1>8. /\ pc'[t] = "flush" /\ \A u \in Threads \ {t} : pc'[u] = pc[u]
  BY <1>1 DEF TypeOK
<1>9. /\ \A n : InCall(n)' <=> InCall(n)
      /\ \A u \in Threads : Idle(u)' <=> Idle(u)
  BY <1>1, <1>8 DEF InCall, Idle
<1>10. ToPut(line[t]) /\ \A n : ToPut(n)' <=> ToPut(n) /\ n # line[t]
  <2>1. \A u \in Threads \ {t} : pc[u] \notin {"idle", "flush"} => line[u] # line[t]
    BY <1>1 DEF Calls, Idle
  <2> QED
    BY <1>1, <1>8, <2>1 DEF ToPut
<1>11. TypeOK'
  BY <1>1, <1>6 DEF TypeOK, StreamType, NameType, queueVars, history
<1>12. Calls'
  BY <1>1, <1>8, <1>9 DEF Calls, history
<1>13. OneKind'
  BY <1>1, <1>9 DEF OneKind, history
<1>14. Sound'
  <2> SUFFICES ASSUME ~torn, ~m_isAsync
               PROVE  /\ \A k \in Kinds : streams'[fp[k]].kind = k /\ streams'[fp[k]].open
                      /\ \A s \in DOMAIN streams' :
                           IF streams'[s].open THEN s = fp[streams'[s].kind]
                           ELSE streams'[s].buffered = {}
    BY <1>1 DEF Sound, history
  <2>1. /\ \A k \in Kinds : streams[fp[k]].kind = k /\ streams[fp[k]].open
        /\ \A s \in DOMAIN streams :
             IF streams[s].open THEN s = fp[streams[s].kind]
             ELSE streams[s].buffered = {}
    BY <1>1 DEF Sound
  <2>2. \A k \in Kinds : fp[k] \in DOMAIN streams
    BY DEF TypeOK
  <2>3. DOMAIN streams' = DOMAIN streams
    BY <1>6
  <2>4. \A k \in Kinds : streams'[fp[k]].kind = k /\ streams'[fp[k]].open
    BY <1>7, <2>1, <2>2
  <2>5. ASSUME NEW s \in DOMAIN streams
        PROVE  IF streams'[s].open THEN s = fp[streams'[s].kind]
               ELSE streams'[s].buffered = {}
    <3>1. CASE s = i
      BY <3>1, <1>1, <1>7, <2>1
    <3>2. CASE s # i
      BY <3>2, <1>7, <2>1
    <3> QED
      BY <3>1, <3>2
  <2> QED
    BY <2>3, <2>4, <2>5
<1>15. Placed'
  <2> SUFFICES ASSUME ~torn, ~m_isAsync
               PROVE  /\ \A s \in DOMAIN streams : \A n \in Held(s)' :
                           n \in DOMAIN lines /\ ~ToPut(n)' /\ streams'[s].kind = lines[n]
                      /\ \A n \in DOMAIN lines :
                           ~ToPut(n)' => \E s \in DOMAIN streams : n \in Held(s)'
                      /\ \A r, s \in DOMAIN streams : r # s => Held(r)' \cap Held(s)' = {}
    BY <1>1, <1>6 DEF Placed, history
  <2>1. streams[i].kind = level[t]
    BY <1>1 DEF Sound
  <2>2. \A s \in DOMAIN streams : line[t] \notin Held(s)
    BY <1>1, <1>10 DEF Placed
  <2>3. \A s \in DOMAIN streams : \A n \in Held(s) :
            n \in DOMAIN lines /\ ~ToPut(n) /\ streams[s].kind = lines[n]
    BY <1>1 DEF Placed
  <2>4. \A n \in DOMAIN lines : ~ToPut(n) => \E s \in DOMAIN streams : n \in Held(s)
    BY <1>1 DEF Placed
  <2>5. \A r, s \in DOMAIN streams : r # s => Held(r) \cap Held(s) = {}
    BY <1>1 DEF Placed
  <2>6. \A s \in DOMAIN streams : \A n \in Held(s)' :
            n \in DOMAIN lines /\ ~ToPut(n)' /\ streams'[s].kind = lines[n]
    BY <1>1, <1>7, <1>10, <2>1, <2>3
  <2>7. \A n \in DOMAIN lines : ~ToPut(n)' => \E s \in DOMAIN streams : n \in Held(s)'
    BY <1>2, <1>7, <1>10, <2>4
  <2>8. \A r, s \in DOMAIN streams : r # s => Held(r)' \cap Held(s)' = {}
    BY <1>7, <2>2, <2>5
  <2> QED
    BY <2>6, <2>7, <2>8
<1>16. FlushedWhenOver'
  BY <1>1, <1>6, <1>7, <1>9 DEF FlushedWhenOver, history
<1> QED
  BY <1>11, <1>12, <1>13, <1>14, <1>15, <1>16

\* The stream of m_level is flushed, and the call ends (log.cpp:217-229).
LEMMA FlushStep ==
    ASSUME IInv, NEW t \in Threads, Flush(t)
    PROVE  IInv'
<1> USE LogAssumption DEF IInv
<1> DEFINE i == fp[m_level]
<1>1. /\ pc[t] = "flush" /\ line[t] \in DOMAIN lines
      /\ level[t] = lines[line[t]] /\ level[t] \in Kinds
      /\ pc' = [pc EXCEPT ![t] = "idle"]
      /\ streams' = [streams EXCEPT ![i] = Flushed(@)]
      /\ i \in DOMAIN streams
      /\ UNCHANGED <<up, m_isAsync, today, m_level, m_count, m_today, fp, m_buf, queueVars,
                     history>>
  BY DEF Flush, Return, At, Go, Calls, Idle, TypeOK
<1>0. /\ level' \in [Threads -> Kinds] /\ my_tm' \in [Threads -> 0..MaxDay]
      /\ line' \in [Threads -> Nat] /\ logStr' \in [Threads -> Nat]
      /\ \A u \in Threads \ {t} : /\ level'[u] = level[u] /\ line'[u] = line[u]
                                   /\ logStr'[u] = logStr[u]
  <2>1. "info" \in Kinds /\ 0 \in Nat /\ 0 \in 0..MaxDay
    BY DEF Kinds
  <2>2. /\ level \in [Threads -> Kinds] /\ my_tm \in [Threads -> 0..MaxDay]
        /\ line \in [Threads -> Nat] /\ logStr \in [Threads -> Nat]
    BY DEF TypeOK
  <2>3. Return(t)
    BY DEF Flush
  <2> QED
    BY <2>1, <2>2, <2>3 DEF Return
<1>2. /\ streams' \in Seq(StreamType) /\ DOMAIN streams' = DOMAIN streams
      /\ \A s \in DOMAIN streams :
           /\ streams'[s].kind = streams[s].kind
           /\ streams'[s].open = streams[s].open
           /\ Held(s)' = Held(s)
           /\ streams[s].flushed \subseteq streams'[s].flushed
           /\ streams[s].buffered = {} => streams'[s].buffered = {}
      /\ streams'[i].buffered = {}
  BY <1>1, FlushKeeps
<1>3. /\ pc'[t] = "idle" /\ \A u \in Threads \ {t} : pc'[u] = pc[u]
  BY <1>1 DEF TypeOK
<1>4. /\ \A n : ToPut(n)' <=> ToPut(n)
      /\ \A n : InCall(n) => InCall(n)' \/ n = line[t]
      /\ \A u \in Threads : ~Idle(u)' => ~Idle(u)
  BY <1>0, <1>1, <1>3 DEF InCall, ToPut, Idle
<1>5. ~ToPut(line[t])
  <2>1. \A u \in Threads \ {t} : pc[u] \notin {"idle", "flush"} => line[u] # line[t]
    BY <1>1 DEF Calls, Idle
  <2> QED
    BY <1>1, <2>1 DEF ToPut
<1>6. TypeOK'
  BY <1>0, <1>1, <1>2 DEF TypeOK, StreamType, NameType, queueVars, history
<1>7. Calls'
  BY <1>0, <1>1, <1>3, <1>4 DEF Calls, Idle, history
<1>8. OneKind'
  BY <1>0, <1>1, <1>3, <1>4 DEF OneKind, Idle, history
<1>9. Sound'
  <2>1. \A k \in Kinds : fp[k] \in DOMAIN streams
    BY DEF TypeOK
  <2> QED
    BY <1>1, <1>2, <2>1 DEF Sound, history
<1>10. Placed'
  BY <1>1, <1>2, <1>4 DEF Placed, history
<1>11. FlushedWhenOver'
  <2> SUFFICES ASSUME ~mixed, ~m_isAsync, NEW n \in DOMAIN lines, ~InCall(n)'
               PROVE  \E s \in DOMAIN streams : n \in streams'[s].flushed
    BY <1>1, <1>2 DEF FlushedWhenOver, history
  <2>1. CASE ~InCall(n)
    BY <1>1, <1>2, <2>1 DEF FlushedWhenOver
  <2>2. CASE InCall(n)
    <3>1. n = line[t] /\ ~torn /\ lines[n] = m_level
      BY <1>1, <1>4, <2>2 DEF OneKind, Idle
    <3>2. PICK s \in DOMAIN streams : n \in Held(s) /\ streams[s].kind = m_level
      BY <1>1, <1>5, <3>1 DEF Placed
    <3>3. n \in streams'[s].buffered \cup streams'[s].flushed
      BY <1>2, <3>2 DEF Held
    <3>4. streams'[s].buffered = {}
      <4>1. CASE streams[s].open
        BY <4>1, <1>1, <1>2, <3>1, <3>2 DEF Sound
      <4>2. CASE ~streams[s].open
        BY <4>2, <1>1, <1>2, <3>1 DEF Sound
      <4> QED
        BY <4>1, <4>2
    <3> QED
      BY <3>3, <3>4
  <2> QED
    BY <2>1, <2>2
<1> QED
  BY <1>6, <1>7, <1>8, <1>9, <1>10, <1>11

------------------------------------------------------------------------------
(* The theorems.                                                           *)

LEMMA InitInv == Init => IInv
<1> SUFFICES ASSUME Init
             PROVE  IInv
  OBVIOUS
<1> USE LogAssumption DEF Init
<1>1. /\ streams \in Seq(StreamType) /\ DOMAIN streams = {1, 2}
      /\ \E name : streams[1] = Stream("info", name)
      /\ \E name : streams[2] = Stream("error", name)
  <2> DEFINE name1 == [tail |-> Dated(0), part |-> 0]
             name2 == [tail |-> DatedError(0), part |-> 0]
  <2>1. name1 \in NameType /\ name2 \in NameType
    BY DEF NameType, Dated, DatedError
  <2>2. streams = <<Stream("info", name1), Stream("error", name2)>>
    BY Zenon
  <2> HIDE DEF name1, name2
  <2>3. Stream("info", name1) \in StreamType /\ Stream("error", name2) \in StreamType
    BY <2>1 DEF Stream, StreamType, Kinds
  <2>4. PICK s1 \in StreamType, s2 \in StreamType :
          s1 = Stream("info", name1) /\ s2 = Stream("error", name2)
    BY <2>3
  <2>5. streams = <<s1, s2>>
    BY <2>2, <2>4
  <2>6. streams \in Seq(StreamType) /\ DOMAIN streams = {1, 2}
        /\ streams[1] = s1 /\ streams[2] = s2
    <3> HIDE DEF Init
    <3> QED
      BY <2>5
  <2>7. (\E name : streams[1] = Stream("info", name))
        /\ \E name : streams[2] = Stream("error", name)
    BY <2>4, <2>6, Zenon
  <2> QED
    BY <2>6, <2>7
<1>2. lines \in Seq(Kinds) /\ DOMAIN lines = {}
  OBVIOUS
<1>3. \A s \in DOMAIN streams : Held(s) = {} /\ streams[s].buffered = {}
  BY <1>1 DEF Held, Stream
<1>4. TypeOK
  <2>1. streams \in Seq([kind : Kinds,
                        name : [tail : [day : -1..MaxDay, error : BOOLEAN], part : Nat],
                        open : BOOLEAN, buffered : SUBSET Nat, flushed : SUBSET Nat])
    BY <1>1 DEF StreamType, NameType
  <2>2. fp \in [Kinds -> DOMAIN streams]
    BY <1>1 DEF Kinds
  <2>3. 0 \in 0..MaxDay /\ "info" \in Kinds
    BY DEF Kinds
  <2>4. {up, m_isAsync, torn, mixed} \subseteq BOOLEAN
    <3>1. up \in BOOLEAN /\ m_isAsync \in BOOLEAN /\ torn \in BOOLEAN /\ mixed \in BOOLEAN
      OBVIOUS
    <3> QED
      BY <3>1, Zenon
  <2>5. m_size \in 0..m_maxSize /\ m_array \subseteq Nat /\ singleLog \in Nat
    OBVIOUS
  <2> QED
    BY <1>2, <2>1, <2>2, <2>3, <2>4, <2>5 DEF TypeOK
<1>5. Calls /\ OneKind
  BY DEF Calls, OneKind, Idle
<1>6. Sound
  <2>1. /\ streams[1].kind = "info" /\ streams[1].open
        /\ streams[2].kind = "error" /\ streams[2].open
        /\ fp["info"] = 1 /\ fp["error"] = 2
    BY <1>1 DEF Stream
  <2>2. \A kind \in Kinds : kind = "info" \/ kind = "error"
    BY DEF Kinds
  <2> QED
    BY <1>1, <2>1, <2>2 DEF Sound
<1>7. Placed /\ FlushedWhenOver
  BY <1>2, <1>3 DEF Placed, FlushedWhenOver
<1> QED
  BY <1>4, <1>5, <1>6, <1>7 DEF IInv

LEMMA Invariance == Spec => []IInv
<1>1. IInv /\ [Next]_vars => IInv'
  <2> SUFFICES ASSUME IInv, [Next]_vars
               PROVE  IInv'
    OBVIOUS
  <2>1. CASE \E t \in Threads : Thread(t)
    <3>1. ASSUME NEW t \in Threads, Push(t)
          PROVE  IInv'
      BY <3>1, PushStep, OtherStep DEF Push
    <3> QED
      BY <2>1, <3>1, WriteLogStep, RotateStep, FormatStep, PutStep, FlushStep
         DEF Thread, InCallStep
  <2>2. CASE Pop \/ NextDay
    BY <2>2, OtherStep
  <2>4. CASE PutSingle
    BY <2>4, PutSingleStep
  <2>3. CASE UNCHANGED vars
    <3>1. UNCHANGED <<up, m_isAsync, today, m_level, m_count, m_today, fp, streams,
                      m_buf, q_mutex, m_size, m_array, logpc, singleLog, pc, level,
                      my_tm, line, logStr, lines, torn, mixed>>
      BY <2>3 DEF vars, fileVars, queueVars, history
    <3>2. TypeOK' /\ Calls'
      BY <3>1 DEF IInv, TypeOK, Calls, Idle
    <3>3. /\ \A n : (InCall(n)' <=> InCall(n)) /\ (ToPut(n)' <=> ToPut(n))
          /\ \A u \in Threads : Idle(u)' <=> Idle(u)
      BY <3>1 DEF InCall, ToPut, Idle
    <3> QED
      BY <3>1, <3>2, <3>3, QuietStep
  <2> QED
    BY <2>1, <2>2, <2>3, <2>4 DEF Next, LogThread
<1> QED
  BY <1>1, InitInv, PTL DEF Spec

\* Every variable of the log keeps its type (log.h:60-86).
THEOREM LogType == Spec => []TypeOK
<1>1. IInv => TypeOK
  BY DEF IInv
<1> QED
  BY <1>1, Invariance, PTL

\* However calls and changes of files interleave, no line is lost, torn, doubled, put
\* into the stream of the other kind or one that is closed, as long as no rotation
\* went by the m_level of another call (log.cpp:99, 118-211).
THEOREM LinesAreKept == Spec => []LinesKept
<1>1. ASSUME IInv
      PROVE  LinesKept
  <2> SUFFICES ASSUME ~m_isAsync, ~torn
               PROVE  LinesKept
    BY DEF LinesKept
  <2>1. /\ \A kind \in Kinds : streams[fp[kind]].kind = kind /\ streams[fp[kind]].open
        /\ \A s \in DOMAIN streams : ~streams[s].open => streams[s].buffered = {}
    BY <1>1 DEF IInv, Sound
  <2>2. ASSUME NEW n \in DOMAIN lines, ~ToPut(n)
        PROVE  \E s \in DOMAIN streams :
                 /\ n \in Held(s) /\ streams[s].kind = lines[n]
                 /\ \A r \in DOMAIN streams \ {s} : n \notin Held(r)
    <3>1. PICK s \in DOMAIN streams : n \in Held(s)
      BY <1>1, <2>2 DEF IInv, Placed
    <3>2. streams[s].kind = lines[n]
      BY <1>1, <3>1 DEF IInv, Placed
    <3>3. \A r \in DOMAIN streams \ {s} : n \notin Held(r)
      BY <1>1, <3>1 DEF IInv, Placed
    <3> QED
      BY <3>1, <3>2, <3>3
  <2> QED
    BY <2>1, <2>2 DEF LinesKept
<1> QED
  BY <1>1, Invariance, PTL

\* A line whose call has returned has left the process, however many threads log, while
\* all calls at one time are for one kind of line (log.cpp:217-229).
THEOREM OverMeansFlushed == Spec => []FlushedWhenOver
<1>1. IInv => FlushedWhenOver
  BY DEF IInv
<1> QED
  BY <1>1, Invariance, PTL
================================================================================
