----------------------------------- MODULE Log ----------------------------------
(***************************************************************************)
(* The log: WriteLog and Flush, called one after the other by the LOG_     *)
(* macros of all threads, the two files, and the queue and the thread of   *)
(* asynchronous logging (log.cpp, log.h, block_queue.h, Cond of locker.h). *)
(*                                                                         *)
(* What WriteLog does under m_mutex at one time is one step.  A line is a  *)
(* number; a stream is what one fopen returned.                            *)
(***************************************************************************)
EXTENDS Integers, Sequences, FiniteSets

CONSTANTS
    Workers,        \* threads that log information only
    loop,           \* the event loop, which logs errors too
    none,
    m_splitLines,
    m_maxSize,      \* of the queue
    MaxLines,       \* bound: lines that are logged
    MaxAsync,       \* and if asynchronously
    MaxDay          \* bound: days that pass

Threads == Workers \cup {loop}
Kinds == {"info", "error"}      \* debug and info; warn and error

ASSUME LogAssumption ==
    /\ loop \notin Workers
    /\ none \notin Threads
    /\ m_splitLines \in Nat \ {0} /\ m_maxSize \in Nat \ {0}
    /\ MaxLines \in Nat /\ MaxAsync \in Nat /\ MaxDay \in Nat

VARIABLES
    up,             \* whether the process runs
    m_isAsync,
    today,          \* the clock
    m_level,        \* the kind of the line begun last
    m_count,
    m_today,
    fp,             \* m_fp (info) and m_errorFp (error), as indices of
    streams,        \* all streams ever opened: for which kind, the name of the
                    \* file, open, and the lines buffered and flushed
    m_buf,
    q_mutex,        \* who holds the mutex of the queue, "log" for its thread
    m_size,
    m_array,        \* lines stored where m_array points to
    logpc,          \* the log thread: pop, wait, put
    singleLog,      \* what it has popped
    pc,             \* idle, rotate, format, choose, push, put, flush
    level,          \* the kind of each thread's line
    my_tm,          \* the day each thread has read
    line,           \* each thread's line
    logStr,         \* and what it has copied of m_buf
    lines,          \* history: the kinds of the lines begun
    torn,           \* history: a rotation for another kind than m_level says
    mixed           \* history: calls for lines of both kinds have overlapped

fileVars == <<m_count, m_today, fp, streams>>
queueVars == <<q_mutex, m_size, m_array, logpc, singleLog>>
history == <<lines, torn, mixed>>
vars == <<up, m_isAsync, today, m_level, fileVars, m_buf, queueVars, pc, level,
          my_tm, line, logStr, history>>

Stream(kind, name) ==
    [kind |-> kind, name |-> name, open |-> TRUE, buffered |-> {}, flushed |-> {}]

\* What comes before ServerLog in a name: a date, a date and "error_", or nothing.
Dated(day) == [day |-> day, error |-> FALSE]
DatedError(day) == [day |-> day, error |-> TRUE]
Blank == [day |-> -1, error |-> FALSE]

\* After Log::Init.
Init ==
    /\ up = TRUE
    /\ m_isAsync \in BOOLEAN
    /\ today = 0
    /\ m_level = "info"
    /\ m_count = 0
    /\ m_today = 0
    /\ fp = [info |-> 1, error |-> 2]
    /\ streams = <<Stream("info", [tail |-> Dated(0), part |-> 0]),
                   Stream("error", [tail |-> DatedError(0), part |-> 0])>>
    /\ m_buf = 0
    /\ q_mutex = none
    /\ m_size = 0
    /\ m_array = {}
    /\ logpc = "pop"
    /\ singleLog = 0
    /\ pc = [t \in Threads |-> "idle"]
    /\ level = [t \in Threads |-> "info"]
    /\ my_tm = [t \in Threads |-> 0]
    /\ line = [t \in Threads |-> 0]
    /\ logStr = [t \in Threads |-> 0]
    /\ lines = <<>>
    /\ torn = FALSE /\ mixed = FALSE

------------------------------------------------------------------------------
At(t, place) == up /\ pc[t] = place
Go(t, place) == pc' = [pc EXCEPT ![t] = place]

\* The time is read and m_level set before any lock is taken.
WriteLog(t, kind) ==
    /\ At(t, "idle")
    /\ Len(lines) < IF m_isAsync THEN MaxAsync ELSE MaxLines
    /\ kind = "error" => t = loop
    /\ m_level' = kind
    /\ level' = [level EXCEPT ![t] = kind]
    /\ my_tm' = [my_tm EXCEPT ![t] = today]
    /\ line' = [line EXCEPT ![t] = Len(lines) + 1]
    /\ lines' = Append(lines, kind)
    /\ mixed' = (mixed \/ \E u \in Threads : pc[u] # "idle" /\ level[u] # kind)
    /\ Go(t, "rotate")
    /\ UNCHANGED <<up, m_isAsync, today, fileVars, m_buf, queueVars, logStr, torn>>

\* fflush of a stream, and fclose.  What becomes of a stream that is used after it
\* was closed is undefined: that only happens once torn, when no property
\* speaks of the files any more.
Flushed(s) == [s EXCEPT !.buffered = {}, !.flushed = @ \cup s.buffered]
Closed(s) == [Flushed(s) EXCEPT !.open = FALSE]

\* The stream of m_level is closed, and one opened for the line's own kind.  Of the
\* two tails, a line sets the one that the name of its file is not made with.
Switch(kind, day, part) ==
    LET tail == IF kind = "error" THEN Dated(day) ELSE Blank
        error_tail == IF kind = "error" THEN Blank ELSE DatedError(day)
        name == [tail |-> IF kind = "error" THEN error_tail ELSE tail, part |-> part]
    IN
    /\ streams' = Append([streams EXCEPT ![fp[m_level]] = Closed(@)], Stream(kind, name))
    /\ fp' = [fp EXCEPT ![kind] = Len(streams) + 1]
    /\ torn' = (torn \/ m_level # kind)

\* Under m_mutex: the line is counted; another day, before or after, or every
\* m_splitLines-th line begins a new file; only the latter are numbered.
Rotate(t) ==
    LET count == m_count + 1
        newDay == m_today # my_tm[t]
    IN
    /\ At(t, "rotate")
    /\ m_count' = IF newDay THEN 0 ELSE count
    /\ m_today' = my_tm[t]
    /\ IF newDay \/ count % m_splitLines = 0
       THEN Switch(level[t], my_tm[t], IF newDay THEN 0 ELSE count \div m_splitLines)
       ELSE UNCHANGED <<fp, streams, torn>>
    /\ Go(t, "format")
    /\ UNCHANGED <<up, m_isAsync, today, m_level, m_buf, queueVars, level, my_tm,
                   line, logStr, lines, mixed>>

\* m_buf copied before it is written: a mutant.
FormatLate(t) ==
    /\ At(t, "format")
    /\ m_buf' = line[t]
    /\ logStr' = [logStr EXCEPT ![t] = m_buf]
    /\ Go(t, IF m_isAsync THEN "choose" ELSE "put")
    /\ UNCHANGED <<up, m_isAsync, today, m_level, fileVars, queueVars, level, my_tm,
                   line, history>>

\* Under m_mutex: the line is made in m_buf, which all threads share, and copied.
Format(t) ==
    /\ At(t, "format")
    /\ m_buf' = line[t]
    /\ logStr' = [logStr EXCEPT ![t] = line[t]]
    /\ Go(t, IF m_isAsync THEN "choose" ELSE "put")
    /\ UNCHANGED <<up, m_isAsync, today, m_level, fileVars, queueVars, level, my_tm,
                   line, history>>

\* Under m_mutex: fputs into the stream of the line's own kind.
Put(t) ==
    /\ At(t, "put")
    /\ streams' = [streams EXCEPT ![fp[level[t]]].buffered = @ \cup {logStr[t]}]
    /\ Go(t, "flush")
    /\ UNCHANGED <<up, m_isAsync, today, m_level, m_count, m_today, fp, m_buf,
                   queueVars, level, my_tm, line, logStr, history>>

\* A call ends, and with it what it had on its stack.
Return(t) ==
    /\ Go(t, "idle")
    /\ level' = [level EXCEPT ![t] = "info"]
    /\ my_tm' = [my_tm EXCEPT ![t] = 0]
    /\ line' = [line EXCEPT ![t] = 0]
    /\ logStr' = [logStr EXCEPT ![t] = 0]

\* The normal file only: a mutant.
FlushNormal(t) ==
    /\ At(t, "flush")
    /\ streams' = [streams EXCEPT ![fp["info"]] = Flushed(@)]
    /\ Return(t)
    /\ UNCHANGED <<up, m_isAsync, today, m_level, m_count, m_today, fp, m_buf,
                   queueVars, history>>

\* Under m_mutex: fflush of the stream of m_level, and the call is over.
Flush(t) ==
    /\ At(t, "flush")
    /\ streams' = [streams EXCEPT ![fp[m_level]] = Flushed(@)]
    /\ Return(t)
    /\ UNCHANGED <<up, m_isAsync, today, m_level, m_count, m_today, fp, m_buf,
                   queueVars, history>>

------------------------------------------------------------------------------
(* Asynchronous logging.  m_array, m_front and m_back are never given a    *)
(* value: an access to an element of m_array ends the process, or it       *)
(* stores, or finds, something somewhere.                                  *)

Dies(t) ==
    /\ up' = FALSE
    /\ UNCHANGED <<m_isAsync, today, m_level, fileVars, m_buf, queueVars, pc, level,
                   my_tm, line, logStr, history>>

\* BlockQueue::Full: the line of a thread that finds it full is put at once.
Choose(t) ==
    /\ At(t, "choose")
    /\ q_mutex = none
    /\ Go(t, IF m_size >= m_maxSize THEN "put" ELSE "push")
    /\ UNCHANGED <<up, m_isAsync, today, m_level, fileVars, m_buf, queueVars, level,
                   my_tm, line, logStr, history>>

\* BlockQueue::Push, whose result is not looked at: a queue that has become full
\* since takes nothing.  Nobody is ever in the condition it broadcasts.
Push(t) ==
    /\ At(t, "push")
    /\ q_mutex = none
    /\ \/ Dies(t) /\ m_size < m_maxSize
       \/ /\ IF m_size < m_maxSize
             THEN m_size' = m_size + 1 /\ m_array' = m_array \cup {logStr[t]}
             ELSE UNCHANGED <<m_size, m_array>>
          /\ Go(t, "flush")
          /\ UNCHANGED <<up, m_isAsync, today, m_level, fileVars, m_buf, q_mutex, logpc,
                         singleLog, level, my_tm, line, logStr, history>>

\* Cond::Wait locks the mutex that its own thread holds, and never returns.
CondWait ==
    /\ q_mutex' = "log"
    /\ logpc' = "wait"
    /\ UNCHANGED <<m_size, m_array, singleLog>>

\* BlockQueue::Pop, called by AsyncWriteLog: what is at m_front is a line that was
\* stored, or none.
PopItem(n) ==
    /\ m_size' = m_size - 1
    /\ singleLog' = n
    /\ logpc' = "put"
    /\ UNCHANGED <<q_mutex, m_array>>

Pop ==
    /\ up /\ m_isAsync
    /\ logpc = "pop"
    /\ q_mutex = none
    /\ \/ m_size = 0 /\ CondWait /\ UNCHANGED up
       \/ m_size > 0 /\ (\E n \in m_array \cup {0} : PopItem(n)) /\ UNCHANGED up
       \/ m_size > 0 /\ up' = FALSE /\ UNCHANGED queueVars
    /\ UNCHANGED <<m_isAsync, today, m_level, fileVars, m_buf, pc, level, my_tm,
                   line, logStr, history>>

\* AsyncWriteLog, under m_mutex: into the stream of m_level, whatever the line's kind.
PutSingle ==
    /\ up /\ m_isAsync
    /\ logpc = "put"
    /\ streams' = [streams EXCEPT ![fp[m_level]].buffered = @ \cup ({singleLog} \ {0})]
    /\ logpc' = "pop"
    /\ UNCHANGED <<up, m_isAsync, today, m_level, m_count, m_today, fp, m_buf, q_mutex,
                   m_size, m_array, singleLog, pc, level, my_tm, line, logStr, history>>

\* Midnight.
NextDay ==
    /\ up
    /\ today < MaxDay
    /\ today' = today + 1
    /\ UNCHANGED <<up, m_isAsync, m_level, fileVars, m_buf, queueVars, pc, level,
                   my_tm, line, logStr, history>>

InCallStep(t) ==
    \/ Rotate(t) \/ Format(t) \/ Put(t) \/ Flush(t)
    \/ Choose(t) \/ Push(t)

Thread(t) == (\E kind \in Kinds : WriteLog(t, kind)) \/ InCallStep(t)

LogThread == Pop \/ PutSingle

Next == (\E t \in Threads : Thread(t)) \/ LogThread \/ NextDay

Spec == Init /\ [][Next]_vars

\* A call that has begun goes on, and the log thread runs; nobody need log.
FairSpec ==
    /\ Spec
    /\ \A t \in Threads : WF_vars(InCallStep(t))
    /\ WF_vars(LogThread)

------------------------------------------------------------------------------
(* What the log must satisfy.                                              *)

TypeOK ==
    /\ {up, m_isAsync, torn, mixed} \subseteq BOOLEAN
    /\ today \in 0..MaxDay /\ m_today \in 0..MaxDay
    /\ m_level \in Kinds
    /\ m_count \in Nat
    /\ streams \in Seq([kind : Kinds,
                        name : [tail : [day : -1..MaxDay, error : BOOLEAN], part : Nat],
                        open : BOOLEAN, buffered : SUBSET Nat, flushed : SUBSET Nat])
    /\ fp \in [Kinds -> DOMAIN streams]
    /\ m_buf \in Nat
    /\ q_mutex \in {none, "log"}
    /\ m_size \in 0..m_maxSize /\ m_array \subseteq Nat
    /\ logpc \in {"pop", "wait", "put"} /\ singleLog \in Nat
    /\ pc \in [Threads -> {"idle", "rotate", "format", "choose", "push", "put",
                           "flush"}]
    /\ level \in [Threads -> Kinds]
    /\ my_tm \in [Threads -> 0..MaxDay]
    /\ line \in [Threads -> Nat] /\ logStr \in [Threads -> Nat]
    /\ lines \in Seq(Kinds)

\* What has been put into a stream; lines in a call, and those not put by it yet.
Held(s) == streams[s].buffered \cup streams[s].flushed
InCall(n) == \E t \in Threads : line[t] = n /\ pc[t] # "idle"
ToPut(n) == \E t \in Threads : line[t] = n /\ pc[t] \notin {"idle", "flush"}

\* However calls interleave with each other and with the change of files, a line is
\* written as it was logged, once, to a stream that was opened for its kind, and
\* never to one that is closed; as long as no file was changed for a line of one
\* kind when m_level, which has no lock, was that of another (log.cpp:99, 128-175).
\* Which file a stream is of is the matter of KindsApart.
LinesKept ==
    ~m_isAsync /\ ~torn =>
        /\ \A kind \in Kinds : streams[fp[kind]].kind = kind /\ streams[fp[kind]].open
        /\ \A s \in DOMAIN streams : ~streams[s].open => streams[s].buffered = {}
        /\ \A n \in DOMAIN lines :
            ~ToPut(n) => \E s \in DOMAIN streams :
                /\ n \in Held(s) /\ streams[s].kind = lines[n]
                /\ \A r \in DOMAIN streams \ {s} : n \notin Held(r)

\* A line whose call is over would survive a crash: it has been flushed, by its own
\* thread or with the file it was in, as long as calls for lines of both kinds have
\* not overlapped (log.cpp:217-229 flushes by m_level, not by the line).
FlushedWhenOver ==
    ~m_isAsync /\ ~mixed =>
        \A n \in DOMAIN lines : ~InCall(n) =>
            \E s \in DOMAIN streams : n \in streams[s].flushed

\* "Error and warning lines are put into the error file, the others into another
\* one" (src/README.md:107, log.cpp:21, 167): no file has lines of both kinds.
KindsApart ==
    ~m_isAsync =>
        \A r, s \in DOMAIN streams :
            streams[r].name = streams[s].name =>
                \A m \in Held(r), n \in Held(s) : lines[m] = lines[n]

\* What is logged is written in the end, also asynchronously (src/README.md:6, 106,
\* block_queue.h:85-103), unless the process ends before.
AsyncWritten ==
    \A n \in 1..MaxAsync :
        m_isAsync /\ n \in DOMAIN lines
            ~> ~up \/ \E s \in DOMAIN streams : n \in Held(s)
================================================================================
