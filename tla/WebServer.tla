------------------------------ MODULE WebServer -------------------------------
(***************************************************************************)
(* The event loop of src/mywebserver/webserver with the kernel objects and *)
(* the connection slots it drives, in the trigger mode the program runs in *)
(* (level-triggered listener and connections, EPOLLONESHOT connections).   *)
(* What reads, writes and processes a connection depends on the            *)
(* concurrency model and is in the modules that extend this one.           *)
(*                                                                         *)
(* Each event of a batch is handled in one step of the event loop.  The    *)
(* workers share a slot with it only while they serve its connection.      *)
(***************************************************************************)
EXTENDS Integers, Sequences, FiniteSets

TL == INSTANCE TimerOps

CONSTANTS
    Clients,    \* the peers; each has at most one connection at a time
    Fds,        \* descriptors accept can return, numbers above 0
    TimerIds,   \* UtilTimer objects, numbers above 0 (a bound, for TLC)
    MaxUsers,   \* MAX_FD, as the test in DealClientSituations uses it
    BufSize,    \* READ_BUF_SIZE, in pieces of request
    Slots,      \* the 3 of 3 * TIMESLOT; time is counted in TIMESLOTs
    Terminates, \* whether SIGTERM is sent
    None        \* no client

ASSUME WebServerAssumption ==
    /\ IsFiniteSet(Clients) /\ None \notin Clients
    /\ IsFiniteSet(Fds) /\ Fds \subseteq Nat \ {0}
    /\ Cardinality(Clients) <= Cardinality(Fds)    \* accept finds a descriptor
    /\ IsFiniteSet(TimerIds) /\ TimerIds \subseteq Nat \ {0}
    /\ {MaxUsers, BufSize, Slots} \subseteq Nat \ {0}
    /\ Terminates \in BOOLEAN

VARIABLES
    \* The clients and what the kernel holds for them.
    backlog,        \* connections not accepted yet, in order
    inbox,          \* clients with bytes the server has not read
    fin,            \* clients that have closed or reset their side
    full,           \* clients whose socket has no room to write
    idle,           \* history: TIMESLOTs since a connection was accepted, read
                    \* or written, up to Slots
    \* The descriptors.
    conn,           \* the client behind each descriptor, or None
    interest,       \* its registration in epoll: none, off, in, out
    \* users: the http_conn of each descriptor.
    sock,           \* m_socketfd, -1 for none
    got,            \* m_readIndex, in pieces
    toSend,         \* whether bytesToSend > 0
    userCount,      \* m_userCount
    \* The timers.
    timerLst,       \* m_timer_lst, as a sequence
    left,           \* TIMESLOTs to the expire of each timer
    data,           \* user_data->sockfd of each timer, 0 for a free object
    usersTimer,     \* users_timer[fd].timer, 0 before the first use
    \* The event loop.
    alarm,          \* whether an alarm is set
    pipe,           \* signals in the pipe
    timeout,
    stop_server,
    mainpc,         \* wait (in epoll_wait), loop (in the batch), stopped
    batch           \* events of the last epoll_wait not handled yet

clientVars == <<backlog, inbox, fin, full, idle>>
kernelVars == <<conn, interest>>
userVars == <<sock, got, toSend>>
timerVars == <<timerLst, left, data, usersTimer>>
signalVars == <<alarm, pipe, timeout, stop_server>>
serverVars == <<clientVars, kernelVars, userVars, userCount, timerVars,
                signalVars, mainpc, batch>>

Open == {fd \in Fds : conn[fd] # None}
Connected == {conn[fd] : fd \in Open}
Waiting == {backlog[i] : i \in DOMAIN backlog}
Lowest(S) == CHOOSE x \in S : \A y \in S : x <= y

\* The server after EventListen: listening, the first alarm set.
ServerInit ==
    /\ backlog = <<>>
    /\ inbox = {} /\ fin = {} /\ full = {}
    /\ idle = [c \in Clients |-> 0]
    /\ conn = [fd \in Fds |-> None]
    /\ interest = [fd \in Fds |-> "none"]
    /\ sock = [fd \in Fds |-> -1]
    /\ got = [fd \in Fds |-> 0]
    /\ toSend = [fd \in Fds |-> FALSE]
    /\ userCount = 0
    /\ timerLst = <<>>
    /\ left = [t \in TimerIds |-> 0]
    /\ data = [t \in TimerIds |-> 0]
    /\ usersTimer = [fd \in Fds |-> 0]
    /\ alarm = TRUE
    /\ pipe = {}
    /\ timeout = FALSE
    /\ stop_server = FALSE
    /\ mainpc = "wait"
    /\ batch = {}

------------------------------------------------------------------------------
(* The clients, the network and the clock.                                 *)

\* TimerIds bounds how many timers there are at once: nobody connects who could
\* not be given one.
Connect(c) ==
    /\ c \notin Connected \cup Waiting
    /\ Len(backlog) < Cardinality({t \in TimerIds : data[t] = 0})
    /\ backlog' = Append(backlog, c)
    /\ UNCHANGED <<inbox, fin, full, idle, kernelVars, userVars, userCount,
                   timerVars, signalVars, mainpc, batch>>

\* Some bytes of a request; whether they end it is for the parser to say.
Send(c) ==
    /\ c \in Connected \cup Waiting
    /\ c \notin inbox \cup fin
    /\ inbox' = inbox \cup {c}
    /\ UNCHANGED <<backlog, fin, full, idle, kernelVars, userVars, userCount,
                   timerVars, signalVars, mainpc, batch>>

Hangup(c) ==
    /\ c \in Connected \cup Waiting
    /\ c \notin fin
    /\ fin' = fin \cup {c}
    /\ UNCHANGED <<backlog, inbox, full, idle, kernelVars, userVars, userCount,
                   timerVars, signalVars, mainpc, batch>>

\* The client takes in what was written: there is room again.
Drain(c) ==
    /\ c \in full
    /\ full' = full \ {c}
    /\ UNCHANGED <<backlog, inbox, fin, idle, kernelVars, userVars, userCount,
                   timerVars, signalVars, mainpc, batch>>

\* One TIMESLOT goes by: an alarm that was set is delivered, and SigHandler
\* writes it to the pipe.
Tick1(n) == IF n > 0 THEN n - 1 ELSE 0
Clock ==
    /\ mainpc # "stopped"
    /\ left' = [t \in TimerIds |-> Tick1(left[t])]
    /\ idle' = [c \in Clients |->
                  IF c \in Connected /\ idle[c] < Slots THEN idle[c] + 1 ELSE idle[c]]
    /\ pipe' = IF alarm THEN pipe \cup {"ALRM"} ELSE pipe
    /\ alarm' = FALSE
    /\ UNCHANGED <<backlog, inbox, fin, full, kernelVars, userVars, userCount,
                   timerLst, data, usersTimer, timeout, stop_server, mainpc, batch>>

\* Only epoll_wait looks at the pipe, so that a signal that comes while a batch is
\* handled is as good as one that comes right after it.
SigTerm ==
    /\ Terminates
    /\ mainpc = "wait"
    /\ "TERM" \notin pipe
    /\ pipe' = pipe \cup {"TERM"}
    /\ UNCHANGED <<clientVars, kernelVars, userVars, userCount, timerVars, alarm,
                   timeout, stop_server, mainpc, batch>>

------------------------------------------------------------------------------
(* epoll.                                                                  *)

\* What epoll reports: nothing of a descriptor disarmed by EPOLLONESHOT.
Hup(fd) == interest[fd] \in {"in", "out"} /\ conn[fd] \in fin
Readable(fd) == interest[fd] = "in" /\ conn[fd] \in inbox \ fin
Writable(fd) == interest[fd] = "out" /\ conn[fd] \notin full \cup fin

Events ==
    {<<"hup", fd>> : fd \in {d \in Fds : Hup(d)}}
        \cup {<<"in", fd>> : fd \in {d \in Fds : Readable(d)}}
        \cup {<<"out", fd>> : fd \in {d \in Fds : Writable(d)}}
        \cup (IF backlog # <<>> THEN {<<"listen", 0>>} ELSE {})
        \cup (IF pipe # {} THEN {<<"signal", 0>>} ELSE {})

\* A connection registered without EPOLLONESHOT: a mutant.
EpollWaitKeepsArmed ==
    /\ mainpc = "wait"
    /\ Events # {}
    /\ batch' = Events
    /\ mainpc' = "loop"
    /\ UNCHANGED <<clientVars, kernelVars, userVars, userCount, timerVars, signalVars>>

\* Everything that is ready is in the batch, in any order.
EpollWait ==
    /\ mainpc = "wait"
    /\ Events # {}
    /\ batch' = Events
    /\ interest' = [fd \in Fds |->
                      IF \E kind \in {"hup", "in", "out"} : <<kind, fd>> \in Events
                      THEN "off" ELSE interest[fd]]
    /\ mainpc' = "loop"
    /\ UNCHANGED <<clientVars, conn, userVars, userCount, timerVars, signalVars>>

\* epoll_ctl(EPOLL_CTL_MOD): fails on a descriptor that is not registered.
Modfd(fd, ev) ==
    interest' = IF fd \in Fds /\ interest[fd] # "none"
                THEN [interest EXCEPT ![fd] = ev]
                ELSE interest

Handle(event) ==
    /\ mainpc = "loop"
    /\ event \in batch
    /\ batch' = batch \ {event}

------------------------------------------------------------------------------
(* Closing and timers.                                                     *)

\* EPOLL_CTL_DEL and close on the descriptors in S; closing one that is not
\* open does nothing.  The client is cut off and may connect again.
CloseFds(S) ==
    LET gone == {conn[fd] : fd \in S \cap Open} IN
    /\ conn' = [fd \in Fds |-> IF fd \in S THEN None ELSE conn[fd]]
    /\ interest' = [fd \in Fds |-> IF fd \in S THEN "none" ELSE interest[fd]]
    /\ inbox' = inbox \ gone
    /\ fin' = fin \ gone
    /\ full' = full \ gone
    /\ idle' = [c \in Clients |-> IF c \in gone THEN 0 ELSE idle[c]]
    /\ UNCHANGED backlog

\* A connection was read or written.
Active(c) == idle' = [d \in Clients |-> IF d = c THEN 0 ELSE idle[d]]

\* delete of the timers in T.
FreeTimers(T) ==
    /\ data' = [t \in TimerIds |-> IF t \in T THEN 0 ELSE data[t]]
    /\ left' = [t \in TimerIds |-> IF t \in T THEN 0 ELSE left[t]]

\* WebServer::DealTimer: CbFunc, then the timer out of the list.
DealTimer(fd) ==
    LET timer == usersTimer[fd] IN
    /\ CloseFds({fd})
    /\ userCount' = userCount - 1
    /\ timerLst' = TL!DelTimer(timerLst, timer)
    /\ FreeTimers({timer})
    /\ UNCHANGED usersTimer

\* The timer not refreshed: a mutant.
AdjustTimerForgotten(fd) == UNCHANGED timerVars

\* WebServer::AdjustTimer: a full delay again, and the list in order.
AdjustTimer(fd) ==
    LET timer == usersTimer[fd] IN
    /\ left' = [left EXCEPT ![timer] = Slots]
    /\ timerLst' = TL!AdjustTimer(timerLst, timer, left')
    /\ UNCHANGED <<data, usersTimer>>

------------------------------------------------------------------------------
(* The handlers that the concurrency models share.                         *)

ServerBusy == userCount >= MaxUsers

\* Too many users: the client is told and closed.
Refuse ==
    /\ Handle(<<"listen", 0>>)
    /\ ServerBusy
    /\ backlog' = Tail(backlog)
    /\ inbox' = inbox \ {Head(backlog)}
    /\ fin' = fin \ {Head(backlog)}
    /\ UNCHANGED <<full, idle, kernelVars, userVars, userCount, timerVars,
                   signalVars, mainpc>>

\* accept gives the lowest free descriptor; WebServer::Timer initialises its
\* slot, registers it and gives it a timer.
Accept ==
    LET fd == Lowest(Fds \ Open)
        timer == Lowest({t \in TimerIds : data[t] = 0})
    IN
    /\ Handle(<<"listen", 0>>)
    /\ ~ServerBusy
    /\ backlog' = Tail(backlog)
    /\ conn' = [conn EXCEPT ![fd] = Head(backlog)]
    /\ interest' = [interest EXCEPT ![fd] = "in"]
    /\ sock' = [sock EXCEPT ![fd] = fd]
    /\ got' = [got EXCEPT ![fd] = 0]
    /\ toSend' = [toSend EXCEPT ![fd] = FALSE]
    /\ userCount' = userCount + 1
    /\ data' = [data EXCEPT ![timer] = fd]
    /\ left' = [left EXCEPT ![timer] = Slots]
    /\ timerLst' = TL!AddTimer(timerLst, timer, left')
    /\ usersTimer' = [usersTimer EXCEPT ![fd] = timer]
    /\ UNCHANGED <<inbox, fin, full, idle, signalVars, mainpc>>

\* EPOLLRDHUP, EPOLLHUP or EPOLLERR: the connection is closed, whatever bytes
\* of it are still unread.
DealHup(fd) ==
    /\ Handle(<<"hup", fd>>)
    /\ DealTimer(fd)
    /\ UNCHANGED <<userVars, signalVars, mainpc>>

DealSignal ==
    /\ Handle(<<"signal", 0>>)
    /\ pipe' = {}
    /\ timeout' = (timeout \/ "ALRM" \in pipe)
    /\ stop_server' = (stop_server \/ "TERM" \in pipe)
    /\ UNCHANGED <<clientVars, kernelVars, userVars, userCount, timerVars, alarm, mainpc>>

\* The end of a round of EventLoop: the timers, if the alarm went off, and the
\* test of stop_server.
NextRound == mainpc' = IF stop_server THEN "stopped" ELSE "wait"

\* The callback not called: a mutant.
TickNoCallback ==
    LET n == TL!ExpiredPrefix(timerLst, left, 0)
        dead == {timerLst[i] : i \in 1..n}
    IN
    /\ timerLst' = SubSeq(timerLst, n + 1, Len(timerLst))
    /\ FreeTimers(dead)
    /\ UNCHANGED <<clientVars, kernelVars, userCount, usersTimer>>

\* The counter left as it is: a mutant.
TickNoCount ==
    LET n == TL!ExpiredPrefix(timerLst, left, 0)
        dead == {timerLst[i] : i \in 1..n}
    IN
    /\ CloseFds({data[t] : t \in dead})
    /\ timerLst' = SubSeq(timerLst, n + 1, Len(timerLst))
    /\ FreeTimers(dead)
    /\ UNCHANGED <<userCount, usersTimer>>

\* SortTimerLst::Tick: the callback of every expired timer.
Tick ==
    LET n == TL!ExpiredPrefix(timerLst, left, 0)
        dead == {timerLst[i] : i \in 1..n}
    IN
    /\ CloseFds({data[t] : t \in dead})
    /\ userCount' = userCount - n
    /\ timerLst' = SubSeq(timerLst, n + 1, Len(timerLst))
    /\ FreeTimers(dead)
    /\ UNCHANGED usersTimer

\* The alarm not set again: a mutant.
TimerHandlerOnce ==
    /\ mainpc = "loop" /\ batch = {}
    /\ timeout
    /\ Tick
    /\ timeout' = FALSE
    /\ NextRound
    /\ UNCHANGED <<userVars, alarm, pipe, stop_server, batch>>

TimerHandler ==
    /\ mainpc = "loop" /\ batch = {}
    /\ timeout
    /\ Tick
    /\ alarm' = TRUE
    /\ timeout' = FALSE
    /\ NextRound
    /\ UNCHANGED <<userVars, pipe, stop_server, batch>>

NoTimeout ==
    /\ mainpc = "loop" /\ batch = {}
    /\ ~timeout
    /\ NextRound
    /\ UNCHANGED <<clientVars, kernelVars, userVars, userCount, timerVars,
                   signalVars, batch>>

------------------------------------------------------------------------------
\* What all these actions are to the modules that extend this one.
Environment ==
    \/ \E c \in Clients : Connect(c) \/ Send(c) \/ Hangup(c) \/ Drain(c)
    \/ SigTerm

MainLoop ==
    \/ EpollWait
    \/ Refuse \/ Accept
    \/ \E fd \in Fds : DealHup(fd)
    \/ DealSignal
    \/ TimerHandler \/ NoTimeout

ServerTypeOK ==
    /\ backlog \in Seq(Clients)
    /\ inbox \subseteq Clients /\ fin \subseteq Clients /\ full \subseteq Clients
    /\ idle \in [Clients -> 0..Slots]
    /\ conn \in [Fds -> Clients \cup {None}]
    /\ interest \in [Fds -> {"none", "off", "in", "out"}]
    /\ sock \in [Fds -> Fds \cup {-1}]
    /\ got \in [Fds -> 0..BufSize]
    /\ toSend \in [Fds -> BOOLEAN]
    /\ userCount \in Int
    /\ timerLst \in Seq(TimerIds)
    /\ left \in [TimerIds -> 0..Slots]
    /\ data \in [TimerIds -> Fds \cup {0}]
    /\ usersTimer \in [Fds -> TimerIds \cup {0}]
    /\ {alarm, timeout, stop_server} \subseteq BOOLEAN
    /\ pipe \subseteq {"ALRM", "TERM"}
    /\ mainpc \in {"wait", "loop", "stopped"}
    /\ batch \subseteq {"hup", "in", "out", "listen", "signal"} \X (Fds \cup {0})
===============================================================================
