-------------------------------- MODULE Reactor --------------------------------
(***************************************************************************)
(* The server in both of its concurrency models.  WebServer::m_actorModel  *)
(* (-a) decides what the event loop does; the pool has an m_actor_model of *)
(* its own, which its constructor never sets, so that it starts with any   *)
(* value.  In reactor mode a worker reads and writes the socket while the  *)
(* event loop, which waits for it, spins on the slot's improv.  Neither    *)
(* improv nor timerFlag is protected by a lock: each access is a step.     *)
(***************************************************************************)
EXTENDS Proactor

\* SIGTERM, which is handled in the same way in both models, is left to Proactor,
\* and so are the histories.
ASSUME ReactorAssumption == ~Terminates

VARIABLES
    actorModel, \* WebServer::m_actorModel: 1 is the reactor
    poolModel,  \* ThreadPool::m_actor_model; all that is not 1 acts as 0
    spin,       \* the slot the event loop spins on, 0 if it does not
    state,      \* m_state of each slot: 0 to read, 1 to write
    improv,     \* the worker has read or written
    timerFlag   \* and it failed: the connection is to be closed

flagVars == <<state, improv, timerFlag>>
reactorVars == <<actorModel, poolModel, spin, flagVars>>
rvars == <<vars, reactorVars>>

RInit ==
    /\ Init
    /\ actorModel \in {0, 1}
    /\ poolModel \in {0, 1}
    /\ spin = 0
    /\ state = [fd \in Fds |-> 0]
    /\ improv = [fd \in Fds |-> 0]
    /\ timerFlag = [fd \in Fds |-> 0]

\* What http_conn::Init does to the flags of the slots in S.
InitFlags(S) ==
    /\ state' = [fd \in Fds |-> IF fd \in S THEN 0 ELSE state[fd]]
    /\ improv' = [fd \in Fds |-> IF fd \in S THEN 0 ELSE improv[fd]]
    /\ timerFlag' = [fd \in Fds |-> IF fd \in S THEN 0 ELSE timerFlag[fd]]

------------------------------------------------------------------------------
(* The event loop.                                                         *)

\* What both models share; a slot just accepted is initialised.
LoopStep ==
    /\ MainLoop
    /\ InitFlags({fd \in Fds : conn[fd] = None /\ conn'[fd] # None})
    /\ UNCHANGED <<poolVars, actorModel, poolModel, spin>>

\* The handlers of the Proactor model.
ProactorStep(fd) ==
    /\ actorModel = 0
    /\ \/ (DealRead(fd) \/ DealReadFails(fd) \/ DealWritePart(fd) \/ DealWriteEnd(fd))
          /\ UNCHANGED flagVars
       \/ DealWriteKeep(fd) /\ InitFlags({fd})
    /\ UNCHANGED <<actorModel, poolModel, spin>>

\* ThreadPool::Append: m_state is set under the lock of the list, if there is room.
AppendReactor(fd, st) ==
    /\ Enqueue(fd)
    /\ state' = IF Len(queue) < MaxRequests THEN [state EXCEPT ![fd] = st] ELSE state

\* DealRead and DealWrite up to the loop on improv: the timer starts again, and
\* the slot goes to the pool; nobody looks at what Append returns.
Deal(fd, kind) ==
    /\ actorModel = 1
    /\ Handle(<<kind, fd>>)
    /\ AdjustTimer(fd)
    /\ AppendReactor(fd, IF kind = "in" THEN 0 ELSE 1)
    /\ spin' = fd
    /\ UNCHANGED <<clientVars, kernelVars, userVars, userCount, signalVars, mainpc,
                   stage, task, actorModel, poolModel, improv, timerFlag>>

\* improv not reset: a mutant.
SpinEndKeepsImprov ==
    /\ spin # 0
    /\ improv[spin] = 1
    /\ timerFlag' = [timerFlag EXCEPT ![spin] = 0]
    /\ IF timerFlag[spin] = 1
       THEN DealTimer(spin)
       ELSE UNCHANGED <<clientVars, kernelVars, userCount, timerVars>>
    /\ spin' = 0
    /\ UNCHANGED <<userVars, signalVars, mainpc, batch, poolVars, actorModel,
                   poolModel, state, improv>>

\* The loop sees improv, then looks at timerFlag.
SpinEnd ==
    /\ spin # 0
    /\ improv[spin] = 1
    /\ improv' = [improv EXCEPT ![spin] = 0]
    /\ timerFlag' = [timerFlag EXCEPT ![spin] = 0]
    /\ IF timerFlag[spin] = 1
       THEN DealTimer(spin)
       ELSE UNCHANGED <<clientVars, kernelVars, userCount, timerVars>>
    /\ spin' = 0
    /\ UNCHANGED <<userVars, signalVars, mainpc, batch, poolVars, actorModel,
                   poolModel, state>>

RMain ==
    /\ \/ spin = 0 /\ (LoopStep \/ \E fd \in Fds : ProactorStep(fd)
                                \/ Deal(fd, "in") \/ Deal(fd, "out"))
       \/ SpinEnd
    /\ UNCHANGED historyVars

------------------------------------------------------------------------------
(* A worker: Run in reactor mode.                                          *)

RStart(w) ==
    /\ Take(w, IF poolModel = 1 THEN "io" ELSE "process")
    /\ UNCHANGED reactorVars

Reads(w) == stage[w] = "io" /\ state[task[w].fd] = 0
Writes(w) == stage[w] = "io" /\ state[task[w].fd] = 1
Improve(w) == improv' = [improv EXCEPT ![task[w].fd] = 1]

\* Read fails: improv first, timerFlag in a later step, after waiting for a
\* database connection even.
Fail(w) ==
    /\ Improve(w)
    /\ stage' = [stage EXCEPT ![w] = "flag"]
    /\ UNCHANGED <<queue, task, actorModel, poolModel, spin, state, timerFlag>>

\* improv set only when a read fails: a mutant.
ReadOkSilent(w) ==
    LET fd == task[w].fd IN
    /\ Reads(w)
    /\ conn[fd] \in inbox /\ got[fd] < BufSize
    /\ got' = [got EXCEPT ![fd] = @ + 1]
    /\ inbox' = inbox \ {conn[fd]}
    /\ Active(conn[fd])
    /\ stage' = [stage EXCEPT ![w] = "process"]
    /\ UNCHANGED <<backlog, fin, full, kernelVars, sock, toSend, userCount, timerVars,
                   signalVars, mainpc, batch, queue, task, reactorVars>>

\* Read gets bytes: the event loop is let go, the worker goes on to Process.
ReadOk(w) ==
    LET fd == task[w].fd IN
    /\ Reads(w)
    /\ conn[fd] \in inbox /\ got[fd] < BufSize
    /\ got' = [got EXCEPT ![fd] = @ + 1]
    /\ inbox' = inbox \ {conn[fd]}
    /\ Active(conn[fd])
    /\ Improve(w)
    /\ stage' = [stage EXCEPT ![w] = "process"]
    /\ UNCHANGED <<backlog, fin, full, kernelVars, sock, toSend, userCount, timerVars,
                   signalVars, mainpc, batch, queue, task, actorModel,
                   poolModel, spin, state, timerFlag>>

ReadFails(w) ==
    /\ Reads(w)
    /\ conn[task[w].fd] \notin inbox \/ got[task[w].fd] >= BufSize
    /\ Fail(w)
    /\ UNCHANGED serverVars

\* Write has nothing to send, or sends the rest to a keep-alive client.
WriteKeep(w) ==
    LET fd == task[w].fd IN
    /\ Writes(w)
    /\ conn[fd] # None \/ ~toSend[fd]
    /\ InitSlot(fd)
    /\ Modfd(sock[fd], "in")
    /\ Active(conn[fd])
    /\ Improve(w)
    /\ state' = [state EXCEPT ![fd] = 0]
    /\ timerFlag' = [timerFlag EXCEPT ![fd] = 0]
    /\ Leave(w)
    /\ UNCHANGED <<backlog, inbox, fin, full, conn, userCount, timerVars, signalVars,
                   mainpc, batch, actorModel, poolModel, spin>>

WritePart(w) ==
    LET fd == task[w].fd IN
    /\ Writes(w)
    /\ conn[fd] # None /\ toSend[fd]
    /\ full' = full \cup {conn[fd]}
    /\ Modfd(sock[fd], "out")
    /\ Active(conn[fd])
    /\ Improve(w)
    /\ Leave(w)
    /\ UNCHANGED <<backlog, inbox, fin, conn, userVars, userCount, timerVars, signalVars,
                   mainpc, batch, actorModel, poolModel, spin, state, timerFlag>>

\* Write has sent the rest to a client without keep-alive: it returns false with
\* the connection armed for reading, which is no harm if it is closed now.
WriteEnd(w) ==
    LET fd == task[w].fd IN
    /\ Writes(w)
    /\ conn[fd] # None /\ toSend[fd]
    /\ toSend' = [toSend EXCEPT ![fd] = FALSE]
    /\ Modfd(sock[fd], "in")
    /\ Active(conn[fd])
    /\ Fail(w)
    /\ UNCHANGED <<backlog, inbox, fin, full, conn, sock, got, userCount, timerVars,
                   signalVars, mainpc, batch>>

WriteFails(w) ==
    /\ Writes(w)
    /\ toSend[task[w].fd]
    /\ Fail(w)
    /\ UNCHANGED serverVars

SetTimerFlag(w) ==
    /\ stage[w] = "flag"
    /\ timerFlag' = [timerFlag EXCEPT ![task[w].fd] = 1]
    /\ Leave(w)
    /\ UNCHANGED <<serverVars, actorModel, poolModel, spin, state, improv>>

RWorker(w) ==
    /\ \/ RStart(w)
       \/ ReadOk(w) \/ ReadFails(w)
       \/ WriteKeep(w) \/ WritePart(w) \/ WriteEnd(w) \/ WriteFails(w)
       \/ SetTimerFlag(w)
       \/ Process(w) /\ UNCHANGED reactorVars
    /\ UNCHANGED historyVars

RClock == ClockStep /\ UNCHANGED reactorVars

RNext ==
    \/ Environment /\ UNCHANGED <<poolVars, historyVars, reactorVars>>
    \/ RClock
    \/ RMain
    \/ \E w \in Workers : RWorker(w)

\* Time passes, the event loop goes on with its batch, is woken by events and sees
\* a flag it spins on, and the workers run: spinning, the event loop keeps a
\* processor and no lock.  Nothing is assumed of the clients, nor of the order of
\* the events in a batch.
RSpec ==
    /\ RInit /\ [][RNext]_rvars
    /\ WF_rvars(RClock)
    /\ WF_rvars(RMain)
    /\ \A w \in Workers : WF_rvars(RWorker(w))

------------------------------------------------------------------------------
(* What the server must satisfy.                                           *)

\* The event loop of a reactor can be let go: there is a worker for it.
Served == actorModel = 1 => poolModel = 1

\* While the event loop of a reactor spins on a slot, one thread has it: it is the
\* only one queued, or a worker reads or writes it, or improv is set; otherwise
\* the queue is empty and no slot has an improv that nobody waited for, which
\* would let the loop go too early the next time.  Append, whose result is not
\* looked at, is therefore never refused (webserver.cpp:301-314, 343-354).
HandedOver ==
    actorModel = 1 /\ poolModel = 1 =>
        /\ \A fd \in Fds \ {spin} : improv[fd] = 0
        /\ \A i \in DOMAIN queue : queue[i].fd = spin
        /\ \A w \in Workers : stage[w] = "io" => task[w].fd = spin
        /\ spin # 0 =>
            improv[spin] + Len(queue)
                + Cardinality({w \in Workers : stage[w] = "io"}) = 1

\* The event loop does not spin for ever, provided that the uninitialised
\* m_actor_model happens to be 1 in reactor mode (webserver.cpp:303, 345); with
\* any other value the first request leaves the server spinning.
SpinEnds == Served => (spin # 0 ~> spin = 0)

\* Also the connection whose failed read the loop has not seen, improv being set
\* before timerFlag, is closed by its timer (threadpool.h:142-144).
IdleClosed == Served => SilentClosed
================================================================================
