------------------------------- MODULE Proactor -------------------------------
(***************************************************************************)
(* The server in its default, simulated Proactor mode (-a 0): the event    *)
(* loop reads and writes the sockets, the workers of the pool run          *)
(* http_conn::Process on the slot of a connection.  EPOLLONESHOT is what   *)
(* keeps the two apart: a connection is disarmed from the event that puts  *)
(* it in the queue until the worker arms it again.                         *)
(***************************************************************************)
EXTENDS WebServer

CONSTANTS
    Workers,        \* the threads of the pool
    MaxRequests,    \* m_max_requests
    MaxEmpty,       \* 0: no file under the document root is empty; otherwise
                    \* one is asked for only while m_userCount is wrong by
                    \* less than this (a bound, for TLC)
    MaxStale        \* the clock stands still while more descriptors than these
                    \* are stale (a bound, for TLC)

ASSUME ProactorAssumption ==
    /\ IsFiniteSet(Workers)
    /\ MaxRequests \in Nat \ {0}
    /\ {MaxEmpty, MaxStale} \subseteq Nat

VARIABLES
    queue,      \* m_workerqueue: slots, with the client each was queued for
    stage,      \* where each worker is in Process
    task,       \* its slot: what the worker has and for whom
    stale,      \* history: descriptors that a tick closed while their slot was
                \* queued or processed, until that is over
    refused     \* history: descriptors disarmed since the list had no room

poolVars == <<queue, stage, task>>
historyVars == <<stale, refused>>
vars == <<serverVars, poolVars, historyVars>>

NoTask == [fd |-> 0, client |-> None]

Init ==
    /\ ServerInit
    /\ queue = <<>>
    /\ stage = [w \in Workers |-> "idle"]
    /\ task = [w \in Workers |-> NoTask]
    /\ stale = {}
    /\ refused = {}

Busy == {w \in Workers : stage[w] # "idle"}
Queued == {queue[i].fd : i \in DOMAIN queue}
Processing == {task[w].fd : w \in Busy}
Reported == {event[2] : event \in batch}

------------------------------------------------------------------------------
(* The event loop: http_conn::Read and Write, and what follows them.       *)

\* AppendProactor; DealRead does not look at what it returns.
Enqueue(fd) ==
    queue' = IF Len(queue) >= MaxRequests THEN queue
             ELSE Append(queue, [fd |-> fd, client |-> conn[fd]])

\* Read gets bytes: the slot goes to the pool, its timer starts again.
DealRead(fd) ==
    /\ Handle(<<"in", fd>>)
    /\ conn[fd] \in inbox
    /\ got[fd] < BufSize
    /\ got' = [got EXCEPT ![fd] = @ + 1]
    /\ inbox' = inbox \ {conn[fd]}
    /\ Active(conn[fd])
    /\ Enqueue(fd)
    /\ AdjustTimer(fd)
    /\ UNCHANGED <<backlog, fin, full, kernelVars, sock, toSend, userCount,
                   signalVars, mainpc, stage, task>>

\* Read returns false: the buffer is full, or there is nothing to receive.
DealReadFails(fd) ==
    /\ Handle(<<"in", fd>>)
    /\ conn[fd] \notin inbox \/ got[fd] >= BufSize
    /\ DealTimer(fd)
    /\ UNCHANGED <<userVars, signalVars, mainpc, poolVars>>

\* http_conn::Init(): ready for the next request.
InitSlot(fd) ==
    /\ got' = [got EXCEPT ![fd] = 0]
    /\ toSend' = [toSend EXCEPT ![fd] = FALSE]
    /\ UNCHANGED sock

\* The connection not armed again after a response: a mutant.
WriteNotRearmed(fd) ==
    /\ Handle(<<"out", fd>>)
    /\ conn[fd] # None \/ ~toSend[fd]
    /\ InitSlot(fd)
    /\ UNCHANGED interest
    /\ Active(conn[fd])
    /\ AdjustTimer(fd)
    /\ UNCHANGED <<backlog, inbox, fin, full, conn, userCount, signalVars, mainpc,
                   poolVars>>

\* Write has nothing to send (and does not look at the descriptor), or sends the
\* rest to a client that asked for keep-alive: the connection waits for the next
\* request.
DealWriteKeep(fd) ==
    /\ Handle(<<"out", fd>>)
    /\ conn[fd] # None \/ ~toSend[fd]
    /\ InitSlot(fd)
    /\ Modfd(sock[fd], "in")
    /\ Active(conn[fd])
    /\ AdjustTimer(fd)
    /\ UNCHANGED <<backlog, inbox, fin, full, conn, userCount, signalVars, mainpc,
                   poolVars>>

\* Part of the response fits: the rest waits for room.
DealWritePart(fd) ==
    /\ Handle(<<"out", fd>>)
    /\ conn[fd] # None /\ toSend[fd]
    /\ full' = full \cup {conn[fd]}
    /\ Modfd(sock[fd], "out")
    /\ Active(conn[fd])
    /\ AdjustTimer(fd)
    /\ UNCHANGED <<backlog, inbox, fin, conn, userVars, userCount, signalVars,
                   mainpc, poolVars>>

\* The connection closed and its timer left in the list: a mutant.
WriteEndKeepsTimer(fd) ==
    /\ Handle(<<"out", fd>>)
    /\ toSend[fd]
    /\ CloseFds({fd})
    /\ userCount' = userCount - 1
    /\ UNCHANGED <<timerVars, userVars, signalVars, mainpc, poolVars>>

\* The response is sent to a client that did not ask for keep-alive, or the
\* write fails: the connection is closed.
DealWriteEnd(fd) ==
    /\ Handle(<<"out", fd>>)
    /\ toSend[fd]
    /\ DealTimer(fd)
    /\ UNCHANGED <<userVars, signalVars, mainpc, poolVars>>

------------------------------------------------------------------------------
(* A worker: Run takes a slot, then http_conn::Process.                    *)

\* Run takes the front of the list and goes on at the given stage.
Take(w, next) ==
    /\ stage[w] = "idle"
    /\ queue # <<>>
    /\ task' = [task EXCEPT ![w] = Head(queue)]
    /\ queue' = Tail(queue)
    /\ stage' = [stage EXCEPT ![w] = next]
    /\ UNCHANGED serverVars

Start(w) == Take(w, "process")

Leave(w) ==
    /\ stage' = [stage EXCEPT ![w] = "idle"]
    /\ task' = [task EXCEPT ![w] = NoTask]
    /\ UNCHANGED queue

\* ProcessRead wants more bytes: the worker arms the connection for reading.
NoRequest(w) ==
    /\ stage[w] = "process"
    /\ Modfd(sock[task[w].fd], "in")
    /\ Leave(w)
    /\ UNCHANGED <<clientVars, conn, userVars, userCount, timerVars, signalVars,
                   mainpc, batch>>

\* Armed for writing before the slot is left: a mutant.
RespondArmsToo(w) ==
    /\ stage[w] = "process"
    /\ got[task[w].fd] > 0
    /\ toSend' = [toSend EXCEPT ![task[w].fd] = TRUE]
    /\ Modfd(sock[task[w].fd], "out")
    /\ stage' = [stage EXCEPT ![w] = "arm"]
    /\ UNCHANGED <<clientVars, conn, sock, got, userCount, timerVars, signalVars,
                   mainpc, batch, queue, task>>

\* The request is complete and ProcessWrite has a response.
Respond(w) ==
    /\ stage[w] = "process"
    /\ got[task[w].fd] > 0
    /\ toSend' = [toSend EXCEPT ![task[w].fd] = TRUE]
    /\ stage' = [stage EXCEPT ![w] = "arm"]
    /\ UNCHANGED <<clientVars, kernelVars, sock, got, userCount, timerVars,
                   signalVars, mainpc, batch, queue, task>>

\* ProcessWrite returns false for an empty file: its case falls through to the
\* default one.
NoResponse(w) ==
    /\ stage[w] = "process"
    /\ Cardinality(Open) - userCount < MaxEmpty
    /\ got[task[w].fd] > 0
    /\ stage' = [stage EXCEPT ![w] = "close"]
    /\ UNCHANGED <<serverVars, queue, task>>

\* http_conn::CloseConn, on the worker's thread, in three steps: the descriptor
\* can be given out again before m_socketfd is reset.  The timer is not touched.
CloseConn(w) ==
    LET fd == sock[task[w].fd] IN
    /\ stage[w] = "close"
    /\ IF fd = -1
       THEN /\ stage' = [stage EXCEPT ![w] = "arm"]
            /\ UNCHANGED <<clientVars, kernelVars>>
       ELSE /\ CloseFds({fd})
            /\ stage' = [stage EXCEPT ![w] = "forget"]
    /\ UNCHANGED <<userVars, userCount, timerVars, signalVars, mainpc, batch,
                   queue, task>>

ForgetSocket(w) ==
    /\ stage[w] = "forget"
    /\ sock' = [sock EXCEPT ![task[w].fd] = -1]
    /\ stage' = [stage EXCEPT ![w] = "count"]
    /\ UNCHANGED <<clientVars, kernelVars, got, toSend, userCount, timerVars,
                   signalVars, mainpc, batch, queue, task>>

CountDown(w) ==
    /\ stage[w] = "count"
    /\ userCount' = userCount - 1
    /\ stage' = [stage EXCEPT ![w] = "arm"]
    /\ UNCHANGED <<clientVars, kernelVars, userVars, timerVars, signalVars, mainpc,
                   batch, queue, task>>

\* The modfd that ends Process, also after CloseConn.
Arm(w) ==
    /\ stage[w] = "arm"
    /\ Modfd(sock[task[w].fd], "out")
    /\ Leave(w)
    /\ UNCHANGED <<clientVars, conn, userVars, userCount, timerVars, signalVars,
                   mainpc, batch>>

Process(w) ==
    \/ NoRequest(w) \/ Respond(w) \/ NoResponse(w)
    \/ CloseConn(w) \/ ForgetSocket(w) \/ CountDown(w)
    \/ Arm(w)

------------------------------------------------------------------------------
(* What the properties remember, and the whole server.                     *)

\* A tick may close a connection whose slot is queued or processed: its
\* descriptor is stale as long as a thread has the slot or an event of it is to
\* be handled.  A request for which the list has no room leaves its connection
\* disarmed.
History ==
    /\ stale' = {fd \in (Queued \cup Processing \cup Reported)' :
                    \/ fd \in stale
                    \/ /\ timeout /\ ~timeout'
                       /\ fd \in (Open \ Open') \cap (Queued \cup Processing)}
    /\ refused' = {fd \in Fds :
                      /\ interest'[fd] = "off"
                      /\ \/ fd \in refused
                         \/ /\ Len(queue) >= MaxRequests
                            /\ <<"in", fd>> \in batch \ batch'}

Worker(w) == (Start(w) \/ Process(w)) /\ History

ClockStep ==
    /\ Cardinality(stale) <= MaxStale
    /\ Clock
    /\ UNCHANGED <<poolVars, historyVars>>

Main ==
    /\ \/ MainLoop /\ UNCHANGED poolVars
       \/ \E fd \in Fds :
            \/ DealRead(fd) \/ DealReadFails(fd)
            \/ DealWriteKeep(fd) \/ DealWritePart(fd) \/ DealWriteEnd(fd)
    /\ History

\* main has returned: the process is over.
Stopped == mainpc = "stopped" /\ UNCHANGED vars

Next ==
    \/ /\ mainpc # "stopped" /\ Environment
       /\ UNCHANGED <<poolVars, historyVars>>
    \/ ClockStep
    \/ Main
    \/ \E w \in Workers : mainpc # "stopped" /\ Worker(w)
    \/ Stopped

Spec == Init /\ [][Next]_vars

------------------------------------------------------------------------------
(* What the server must satisfy.                                           *)

\* The types; m_readIndex never goes past the buffer.  The stages "io" and "flag"
\* are of the reactor mode.
TypeOK ==
    /\ ServerTypeOK
    /\ queue \in Seq([fd : Fds, client : Clients]) /\ Len(queue) <= MaxRequests
    /\ stage \in [Workers -> {"idle", "process", "close", "forget", "count", "arm",
                             "io", "flag"}]
    /\ task \in [Workers -> [fd : Fds, client : Clients] \cup {NoTask}]
    /\ stale \cup refused \subseteq Fds

Holders(fd) ==
    Cardinality({i \in DOMAIN queue : queue[i].fd = fd})
        + Cardinality({w \in Busy : task[w].fd = fd})

\* A slot is in the hands of one thread: it is queued or processed at most once,
\* and then the event loop has no event of it to handle nor can get one, so that
\* buffers without a lock are safe (http_conn.cpp:86-96, webserver.cpp:319-325).
\* Only a tick that closes the connection meanwhile breaks it (timer.cpp:111).
HandledOnce ==
    \A fd \in Fds \ stale :
        /\ Holders(fd) <= 1
        /\ Holders(fd) = 1 => interest[fd] = "off" /\ fd \notin Reported

\* The slot a worker processes still belongs to the client whose bytes were
\* read into it: no client gets what another one asked for, whoever hangs up and
\* connects meanwhile, unless a tick has closed the connection (timer.cpp:111).
ServesOwner ==
    \A w \in Busy : task[w].fd \in stale \/ conn[task[w].fd] = task[w].client

\* A connection that epoll will not report is in somebody's hands: an event of
\* it is being handled, or it is queued or processed.  Only a request for which
\* the list had no room leaves it waiting for its timer (webserver.cpp:322).
Attended ==
    \A fd \in Open :
        interest[fd] = "off" => fd \in Queued \cup Processing \cup Reported \cup refused

\* Every open connection has its own timer in the list, and no timer is left of
\* one that is closed (webserver.cpp:248: a connection goes with its timer).
TimerPerConnection ==
    /\ \A fd \in Open :
        /\ \E i \in DOMAIN timerLst : timerLst[i] = usersTimer[fd]
        /\ data[usersTimer[fd]] = fd
    /\ Len(timerLst) = Cardinality(Open)

\* m_userCount is the number of connections, on which the limit of
\* DealClientSituations rests (http_conn.cpp:117, timer.cpp:238).
CountMatches == userCount = Cardinality(Open)

\* A tick closes a connection only after Slots TIMESLOTs without a read or a
\* write of it (README.md:110), whatever was in the batch before the tick.
TickClosesIdleOnly ==
    [][timeout /\ ~timeout' =>
         \A c \in Connected \ Connected' : idle[c] = Slots]_vars

\* Every connection that the event loop may still hear of has a timer it can
\* refresh: DealRead and DealWrite never follow a dangling pointer
\* (webserver.cpp:293, 337).
NoDanglingTimer ==
    \A fd \in Open : \E i \in DOMAIN timerLst : timerLst[i] = usersTimer[fd]

\* A connection does not stay open for ever without activity: it is closed, or
\* read or written again, as long as the server runs (webserver.cpp:417).
\* Whatever state it is in, the alarm comes back.
SilentClosed ==
    \A c \in Clients :
        []<>(c \notin Connected \/ idle[c] = 0 \/ mainpc = "stopped")
===============================================================================
