# A verification project for linux-webserver

TLA+ models of the web server under `src/mywebserver`, the TLC runs that check
them on small instances, and TLAPS proofs for every size. Paths below are under
`src/mywebserver` unless they say otherwise.

## 1. The system

One process. The main thread runs an event loop over epoll; a pool of detached
threads runs the requests; two more shared objects, the log and a pool of MySQL
connections, are used by all of them.

| Component | State | Operations | Talks to |
|---|---|---|---|
| Thread pool (`threadpool/threadpool.h`, `lock/locker.h`) | `m_workerqueue`, `m_queuelocker`, `m_queuestat` | `AppendProactor`, `Append` (event loop); `Run` (workers) | event loop, `http_conn`, connection pool |
| Connection pool (`CGIMysql`) | `connList`, `lock`, `sem`, `m_freeConn`, `m_currConn` | `Init`, `GetConnection`, `ReleaseConnection`, `DestroyPool` | workers, main |
| Timer list (`timer`) | doubly linked `UtilTimer`s, `expire` | `AddTimer`, `AdjustTimer`, `DelTimer`, `Tick` | event loop only |
| Event loop (`webserver`, `Utils` in `timer`) | epoll set, `timeout`, `stop_server`, alarm, pipe of signals, `users_timer` | `EventLoop`, `DealClientSituations`, `DealSignal`, `DealTimer`, `TimerHandler` | everything |
| Connection slot, I/O (`http/http_conn`) | `m_socketfd`, `m_readIndex`, `bytesToSend`, static `m_userCount` | `Read`, `Write`, `Process`, `CloseConn`, `Init` | event loop and workers |
| Reactor mode (`-a 1`) | `m_state`, `improv`, `timerFlag`, `m_actor_model` | `DealRead`/`DealWrite` and `Run`, first branch | event loop spins on a worker |
| HTTP parser | `m_check_state`, `m_checkIndex`, `m_startLine` | `ProcessRead`, `ParseLine`, ... | slot |
| HTTP response | `m_iv`, `bytesHaveSend`, `m_fileAddress` | `ProcessWrite`, `Write`, `UnMap` | slot |
| Registration, login | `users` map, table `user`, `m_lock` | `DoRequest`, `InitMysqlResult` | connection pool |
| Log and block queue (`log`) | two files, `m_level`, `m_count`, `m_today`, circular queue, condition variable | `WriteLog`, `Flush`, `AsyncWriteLog`, `Push`, `Pop` | everybody |
| Start-up (`main.cpp`, `config`) | options | `Init`, `LogStart`, `SqlPool`, ... | once |

Hard behaviours: the list and the semaphore of each pool are changed in
different critical sections; slots are shared by the event loop and the workers
without any lock, kept apart only by EPOLLONESHOT; timers, descriptors, slots and
the user counter are four records of one fact, the connection, updated by three
pieces of code on two kinds of thread; descriptors are reused; timers race
with late work; queues fill up. `PROJECT.json` lists each hazard at its line.

What makes each component correct:

* thread pool: every accepted task is run once, in order, by one worker, and in
  the end; nothing is lost between list and semaphore;
* connection pool: a connection has one owner; counters, list and semaphore agree;
  nobody waits for ever, nobody uses a closed connection;
* timer list: sound links, ascending order, a tick misses nothing;
* server: a slot is in one thread's hands, serves the client it belongs to, and is
  never forgotten; timers, counter and limit follow the connections; idle
  connections, and only they, are closed by a tick;
* reactor mode: the slot that the event loop gives to a worker comes back to it, and
  no flag of one handover is taken for that of another;
* parser: a request is answered once it has been received, and for what it says,
  however it was cut;
* response: its bytes go out once each and in order through any short writes, and its
  file is unmapped;
* accounts: a name belongs to one client, in the map and in the table, over restarts;
* log: a line is written whole, once, to the file of its kind, and flushed, in both modes.

## 2. The modules

| Module | Models | Kind |
|---|---|---|
| `TaskQueue` | the promise of the thread pool: a bounded FIFO, one worker per task | abstract |
| `ThreadPool` | `AppendProactor` and `Run`, every access to the list a step | detailed, implements `TaskQueue` |
| `ConnAllocator` | the promise of the connection pool | abstract |
| `SqlPool` | the connection pool, step by step, with start-up and shutdown | detailed, implements `ConnAllocator` |
| `TimerOps` | what the timer operations do to the order, as operators on sequences | operators |
| `TimerSeq` | a state machine over `TimerOps` with a clock | abstract |
| `TimerList` | head, tail, next, prev, deleted nodes | detailed, implements `TimerSeq` |
| `WebServer` | kernel, clients, epoll, timers, signals, acceptance: what both concurrency models share | base |
| `Proactor` | `WebServer` with the I/O and the workers of the default mode | composition |
| `Reactor` | `Proactor` with the reactor branches of event loop and pool, flag by flag | composition |
| `HttpParse` | `ProcessRead` over bytes that arrive in pieces | detailed |
| `Response` | the mapped file, the two iovecs and `Write`, over the requests of one slot | detailed |
| `Accounts` | the map `users` and the table `user` under concurrent requests and restarts | detailed |
| `Log` | `WriteLog`, `Flush`, the change of files, the queue of asynchronous logging | detailed |
| `Server_proofs` | theorems about `WebServer`, `Proactor` and `Reactor` | proofs |
| `Timer_proofs` | theorems about `TimerList`, and that it implements `TimerSeq` | proofs |
| other `*_proofs` | theorems about the module they are named after | proofs |
| `MC*` | instances for TLC | |

`WebServer` uses `TimerOps` for its timer list, `Proactor` a FIFO for the thread
pool: what the detailed modules are shown to implement.

### How state and actions correspond to the code

*ThreadPool.* `workerqueue`, `queuelocker` and `queuestat` are the members of the
same name; `pc[w]` says where a worker is in `Run`: `wait` (line 116), `lock`
(117), `front` (119-124), `pop` (125-126), `run` (128-164). The event loop is in
`AppendProactor`: `check` (92), `push` (97), `post` (99). `front()` and
`pop_front()` are two steps: only the lock keeps them together. The test for an
empty list is modelled and shown never to fire. Requests are names: their work
belongs to `Proactor`.

*SqlPool.* A thread looks at `connList.size()` without the lock (`CheckSize`), then
waits, locks, reads, pops; with NULL it goes on without a connection, as
`ConnectionRAII` does. `Front` on an empty list is a crash. `DestroyPool` may run at
any moment (`Shutdown`), because the workers are detached and `main` does not
join them. Its two steps are the lock and the body.

*TimerList.* One step per operation, since only the event loop calls them. `heap`
holds the four link fields; a deleted node's links are blanked, so that a list
that still reaches it shows. `expire` is `now + Delay` whenever it is written
(`webserver.cpp` 184, 242). `now` is `time()` and may step back; `stepped` is a history that
remembers it.

*WebServer, Proactor.* Time is counted in TIMESLOTs; `left[t]` is what remains to
the expire of a timer, and the list is a sequence of timer objects. `conn` and
`interest` are the kernel's: the client behind a descriptor and its registration
(`off` is the state EPOLLONESHOT leaves behind). `sock`, `got` and `toSend` are
`m_socketfd`, `m_readIndex` (in pieces of request) and `bytesToSend > 0` of the slot.
`batch` is what the last `epoll_wait` returned; each event of it is one step of the
event loop, in any order, and events may be stale by the time they are handled.
A worker goes through `Process` in up to six steps: the answer of `ProcessRead` and
`ProcessWrite`, the three of `http_conn::CloseConn` (`CloseConn`, `ForgetSocket`, `CountDown`),
the final `modfd`. Between them the event loop runs and may give the descriptor out again.
What a request says is left to `HttpParse`: whether it is complete, and whether the
response can be built, is a choice. `idle`, the client in a task, `stale` and `refused` are
histories: no guard of the code's actions reads them. `stale` has the descriptors of
connections that a tick closed while their slot was queued or processed, until no thread has
that slot any more; `refused` those that were disarmed for a request the list had no room
for. Only the bound `MaxStale` on the clock reads `stale`.

*Reactor.* `actorModel` is the event loop's mode, `poolModel` the pool's own
`m_actor_model`, which no constructor sets: both values are tried. `Deal` is `DealRead` or
`DealWrite` up to the loop on `improv`, `spin` the slot it spins on, `SpinEnd` the
end of the loop with what follows. A worker in the stage `io` is in the first branch of
`Run`; a failed read or write sets `improv` in one step and `timerFlag` in a later one
(stage `flag`), as the code does (`threadpool.h` 142-144). `http_conn::Init` resets all
three flags of a slot, wherever it is called.

*HttpParse.* The buffer is a sequence of tokens: `"CR"` and `"LF"`, one for the text of a
line, one for each byte of a body. A step is one turn of the loop of `ProcessRead`
(line 531): `ParseLine` or, in the body, no line, then the case of `m_check_state`.
`Scan` is the condition of the loop, `NoLine` its end. The variables are the members;
an index counts tokens from 0. `Reset` is `http_conn::Init()`, after an answer or
when the connection has ended half-way. Requests are records (line, headers, body) that
`Wire` turns into bytes; `Meaning` says what they ask without parsing. A request may
have a CR or an LF alone where a header should be. Content-Length is that of the body.

*Response.* A byte is the place it is read from: an offset in the write buffer or in the
file. `Taken(i)` is what `writev` takes from the iovecs, `Byte(k)` what the response is;
`Advance` is lines 616-627 of `http_conn.cpp`, arithmetic included. `Write(n)` is one turn
of the loop with n bytes taken. `InitConn` leaves what `Init` leaves: the iovecs,
`m_fileStat` and `m_fileAddress`. `m_fileAddress` is the length of the mapping it points
to, so that a `munmap` with the size of another file shows.

*Accounts.* `ask` is the lookup, which takes no lock: beside an insert of another worker
it may miss what is there (`Finds`). `insert` waits for `m_lock`; the table's primary key
decides; `store` puts the name into the map whatever came of the INSERT
(`http_conn.cpp` 422). `Stop` and `Start` are the end of the process at any point and
`InitMysqlResult` after it. In reactor mode `mysql` is the NULL that `Init` left: a
registration ends the process (`InsertByNull`).

*Log.* Each section under `m_mutex` is a step (`Rotate`, `Format`, `Put`, `Flush`); `m_level`
is set before (`WriteLog`). A stream is what one `fopen` returned, with the kind of line it
was opened for, the name of its file and the lines it has buffered and flushed. `Switch` closes
the stream of `m_level` and opens one for the line's own kind; the name has the tail that
lines 139-174 put there. `Choose`, `Push`, `Pop` with `CondWait` and `PutSingle` are the
asynchronous queue and the thread that empties it: `Cond::Wait` locks the mutex that `Pop`
holds, and an access to `m_array`, which is never allocated, ends the process or stores, or
finds, something somewhere.

## 3. The runs

| Run | Instance | Question |
|---|---|---|
| `pool` | 3 workers, list of 3 | list, semaphore and workers agree; each task is popped by who read it; `TaskQueue` is implemented; every accepted request is served |
| `sql` | 4 threads, 2 connections, destruction at any moment | counters and list agree; exclusive connections, none used after it is closed; NULL only when all are taken; no gridlock; `ConnAllocator` is implemented |
| `timer_list` | 4 timers, clock may step back | types, sound links, `TimerSeq` implemented; until the clock steps back, ascending order and thorough ticks |
| `server` | 2 clients, 2 descriptors, MAX_FD 2, 2 workers of any speed, list of 1, SIGTERM | the slot's safety properties, timers, counter, and the tick's |
| `reactor` | 1 client, 1 descriptor, 2 timers, 1 worker, list of 1, both modes on both sides, empty files | the handover of a slot, no pointer to a freed timer, the spin ends, silent connections are closed |
| `parse` | requests of up to 2 headers and 3 bytes of body, body in one piece | each is answered, for what it says; the loop ends |
| `parse_split` | the same, cut anywhere | **violated**: a request received to its end is answered |
| `response` | header of 4 bytes, form of 2, files of 0, 2 and 3 | bytes in order and once, mappings end |
| `accounts` | 2 names, 2 passwords, 3 workers, restarts, both modes | one owner, who can log in, and nobody else |
| `log` | event loop and 2 workers, 4 lines, 2 lines to a file, 1 midnight, both modes | lines kept and flushed |
| `log_names` | event loop, 2 lines, 2 midnights | **violated**: no file has lines of both kinds |
| `log_async` | event loop and a worker, 1 line | **violated**: a line logged asynchronously is written in the end |

The violated runs are disagreements between the code and what its comments and documents
say; `PROJECT.json` quotes both sides under `findings`.

### Bounds, and why they are enough

* `Workers`, `Threads`: two are needed for a race between workers, three for one
  that overtakes two others, four threads over two connections for two that wait while
  two hold; list lengths of 1 to 3 give empty, partly full and full.
* `Timers`: four let a timer be unlinked from the middle and put back in the middle.
  `MaxNow` is three delays, so timers expire, are freed and are used again.
* `Clients`, `Fds`: two clients, so that a descriptor is used by one while something of the
  other is in flight, and the list, which has one place, may be full. A client that
  is closed connects again. In `reactor` one client is all of that by itself: an empty file
  leaves it a descriptor, a timer and a count while it connects anew, and it is refused at a
  limit of one. `TimerIds` bounds the timers alive at once, `Connect` waits when none is left.
* `Slots`: 2 TIMESLOTs where the code has 3: a connection passes through fresh, half-way
  and expired; 1 in `reactor`, for its size.
* `MaxStale` is 0: the clock stands still while a descriptor that a tick has closed under a
  thread is still in that thread's hands. So one tick may do this to any number of them, and
  the events and the workers go on as they like; the next tick comes after.
  The theorems are for any `MaxStale`.
* `BufSize`: 1 piece of a request makes every second piece overflow. A request in several
  pieces is the subject of `parse`.
* `MaxEmpty`: 0 says there is no empty file under the document root; n lets workers
  ask for one only while the counter is off by less than n, since it would
  otherwise fall without bound. `reactor` has 2.
* Requests: two headers are enough for one to hide, repeat or follow another; bodies of
  0 to 3 bytes for none, one piece, a cut inside, and a line break in the body. Every cut
  into pieces is tried.
* `response`: lengths for which a write can end at, before and after every boundary, and
  files shorter and longer than the form; the number of requests is not bounded.
* `accounts`: two names and two passwords, so that two clients want one name with
  different passwords; three workers for two registrations and a lookup at once.
* `log`: `MaxLines` 4 and `m_splitLines` 2 fill a file twice, one day passes; asynchronous
  logging has `MaxAsync` 2 lines and a queue of one. `log_names` has the number of lines to a
  file and the size of the queue that `webserver.cpp` passes.
* Symmetry is used for clients, workers, threads, timers, names and passwords in runs
  without liveness; numbers (`Fds`, `TimerIds`) are not permuted.

### What the models show besides

* With the clock stepping back (`timer_list`) the links stay sound, but `AdjustTimer` moves a
  timer towards the tail only, so that the list need not be ascending any more; that it is,
  and that a tick misses nothing, is stated until the clock steps back (`stepped`).
* `DestroyPool` closes what is in `connList`; a connection that a worker has out at that
  moment is pushed back later and never closed.
* With a list shorter than the number of connections, `AppendProactor` refuses a request that
  was read and `DealRead` does not notice: the connection stays disarmed (`Attended` fails
  without `refused`) until its timer closes it (`IdleClosed`).
* A tick closes a connection that is queued or processed for longer than its timer runs; its
  slot is then finished for whoever gets the descriptor next, by two threads at once perhaps
  (`HandledOnce` and `ServesOwner` fail without `stale`). Nothing in the code prevents it. What
  the two properties say is that there is no other way to it, whatever the workers' speed.
* A worker that closes a connection gives up the descriptor before it resets `m_socketfd` and
  the counter (`http_conn.cpp` 115-117). A connection accepted in between gets -1 for its
  `m_socketfd`: the `modfd` after its first request does nothing, and it waits for its timer.
* An empty file is closed twice: `m_userCount` goes down twice for one connection
  (`CountMatches` fails with `MaxEmpty` 1), and the timer that is left in the list closes the
  next connection with that descriptor before it is idle (`TickClosesIdleOnly` fails).
* `-a 1` spins for ever at the first request unless the pool's `m_actor_model`, which nobody
  initialises, happens to be 1 (`Served` in `Reactor` is that case).
* A CR or an LF alone in a request leaves it unanswered, where the code of `ParseLine` calls
  it a syntax error (`Answered` leaves these requests out).
* A second short write within the header sends bytes again and others not: `BytesInOrder`
  is stated for at most one (`shorts`). A connection closed in the middle of a download
  leaves its file mapped, and the next `munmap` of the slot may have the wrong length
  (`cut`).
* A registration whose INSERT fails leaves the name, with its password, in the map until the
  next start: it can log in, and nobody can register it (`refused`). The page for a name
  that is taken is called `registerError.html` without the slash, which does not exist.
* A file is changed for the stream of `m_level` and not of the line: a rotation while
  `m_level` is of the other kind closes the file that goes on being written (`torn`). Only one
  of the two files is changed at midnight, and a line that read the clock before midnight
  changes back. `Flush` flushes the stream of `m_level`, so that a line may wait in its buffer
  for the next of its kind (`mixed`).
* After the first change of each, the files of both kinds of line have one name (`log_names`):
  `LinesKept` speaks of streams and the kind they were opened for, not of files.
* Asynchronous logging loses lines in every way there is: the log thread locks itself out as
  soon as it finds the queue empty, and everybody who logs with it (`log_async`); before that a
  `Push` ends the process or stores the line in memory that is not the queue's.

### Assumptions the safety runs make

No file is empty in `server` (`MaxEmpty` 0); `reactor` has empty ones. `Whole` in run `parse`
says that a body is received in one piece; `parse_split` shows what happens otherwise. Names and
passwords in `Accounts` have no character that means something to SQL: the INSERT stores
the two values that go into the map, or it is refused. `stepped`, `stale`, `shorts`, `cut`,
`torn`, `mixed`, and `refused` in `Proactor` and in `Accounts`, are histories: they record that
one of the cases listed above has happened, and the properties that name them hold in all
others.

### Fairness

* ThreadPool, SqlPool: a thread that can step is scheduled (weak fairness); a
  positive semaphore lets some waiter through; a mutex that is free again and again
  is taken by some thread that wants it (strong fairness, of the set of threads, not of
  each: POSIX promises no more). The event loop need never submit; clients need do
  nothing; a request that is run ends.
* Proactor: none; its properties are safety. What must happen in the end is checked in
  `reactor`, whose event loop may be of either mode.
* Reactor: time passes (`RClock`), the event loop goes on with its batch, is woken by
  events and leaves its spin when it may (`RMain`), each worker runs (`RWorker`). Nothing is
  assumed of clients, nor that the event loop prefers any event of a batch. The spinning event
  loop holds no lock, so that it cannot keep a worker from running.
* HttpParse: a worker that is in `ProcessRead` goes on. Nothing is assumed of the client.
* Log (`FairSpec`, for `log_async`): a call that has begun goes on when it can, and the log
  thread runs; nobody need log.

## 4. The proofs

All of them are for any values of the constants that satisfy the named assumptions of
the modules (`PoolAssumption`, `SqlPoolAssumption`, `TimerListAssumption`,
`WebServerAssumption` and so on), which TLC evaluates on its runs. In each module `IInv`
(or a named invariant beside it) is the inductive strengthening; one lemma per action, or
per group of actions that leave the same parts alone, shows that a step keeps it.

`ThreadPool_proofs`. None of the three safety invariants is inductive. `IInv` adds who owns
the lock at which program point (`LockOwner`), what the event loop knows once it has tested
the size (`Submission`) and that a worker past the front holds a task (`TaskTaken`). The
count `SemCountsTasks` moves with the set of awake workers, whose cardinality changes
by one: `AwakeGrows` and `AwakeShrinks`. From `IInv` follow the type invariant with the bound
on the list (`TypeCorrect`), `SemaphoreCounts`, `NeverEmptyHanded` (the `empty()` branch of
`Run` is dead code), `EachTaskOnce`, and, step by step, `RefinesTaskQueue`, the safety part of
`ImplementsTaskQueue`.

`SqlPool_proofs`. `IInv` adds who holds the lock where (`LockOwner`), at which points a thread
has a connection (`HasConn`), that the list is open (`ListedOpen`), and that while the pool
serves no connection is lost (`AllThere`). `AppendNew` and `TailRemoves` say what the two
operations on the list do to the set of its connections and to its being without repetition;
`CountOne` is the step of the counters; `NobodyHas` the pigeonhole. Proved:
`TypeCorrect`, `CountersAgree`, `ListIsNotEmpty`, `ConnectionsAreExclusive`, `ClosedAreNotUsed`,
`NullMeansAllTaken` (an action property) and the whole of `ImplementsAllocator`
(`RefinesAllocator`).

`Timer_proofs`, the links. `Follows(h, s)` says that the links of the heap h
are those of the sequence s, head, tail, forwards and back. The model walks the list by
recursive functions; what such a walk finds in a heap that follows s is shown by the least
place where it would find something else (`LeastOne`, `WalkIs`, `InsertPointIs`), so that no
induction is needed and `List` is s (`ListOfIs`). Then each operation on the pointers is shown
to take a heap that follows s to one that follows what `TimerOps` makes of s: `InsertLinks` and
`InsertFollows` for a node linked in, `BridgeFollows` for one taken out, `TickToIs` for those
that a tick takes off. The invariant is `Sound`: the heap follows its list, the list has the
live timers and no other, and a timer that is not live has no links. The last part is what
lets `AddTimer` leave the links of a new node alone where it becomes the head; while
`AdjustTimer` walks, the unlinked node may still point into the list, which the walk
never notices (`InsertPointIs`). The tail may be stale when a tick empties the list. Proved
for any finite set of timers without the null pointer, and for any clock: `HeapTypeCorrect`,
`LinksAreRight` (each live timer once, and no deleted one) and the whole of
`ImplementsTimerSeq` (`LinksImplementSeq`).

`Timer_proofs`, the order. What the links do is now what `TimerSeq` does to a sequence
(`SeqSteps`), and the order is shown there. That the list is ascending is not inductive alone:
`Order` adds that no timer in it expires later than `now + Delay`, so that a timer given a
full delay always goes to the end (`PlaceLast`), which `AdjustTimer` counts on when it only
ever moves a timer towards the tail. `AddSorted`, `AdjustSorted`, `DelSorted` and `TickSorted`
are the four operations; `TickOrder` adds that no expired timer is
left behind the first one that has not expired. Proved as long as the clock has not stepped back: `StaysAscending` and
`TickIsThorough` (an action property).

`Server_proofs`, first part. Its theorems are about the Proactor server when no file is empty
(`MaxEmpty = 0`: with one the worker itself closes the connection, and `TimerPerConnection` and
`CountMatches` are lost). Nothing else is assumed, neither of the workers' speed nor of the
length of the list. No property of the run is inductive alone. `IInv` says all that belongs to a
connection: its descriptor is registered and its slot knows it (`Descriptors`), no other
descriptor has the client (`Peers`), it has a timer that is in the list once (`Timers`), an
event to be handled is the only one of its descriptor, which is open (`Batch`), workers have a
task and close nothing (`Handled`). Why a tick closes only idle ones: what is left and what it has been idle add up to
`Slots` (`Idleness`). `CloseKeeps` is the step that closes any set of connections with
their timers, used for one (`CloseStep`) and for a tick (`TickStep`). `SInv`, beside it, is about
the slots: one that is not stale is queued or processed at most once, and then it is disarmed,
its client's, and without an event (`Slot`). It is kept apart since a tick breaks it for the
descriptors it closes: `TickSlots` shows that these become stale, `StaleStays` that they remain so
while any thread, or the batch, has them, and `OneSlotChanges` that every other step touches the
slot it is about and no other. Proved: `TypeCorrect`, `SlotHandledOnce`, `WorkerServesOwner`,
`OneTimerEach`, `UsersAreCounted`, `IdleAreClosed` (an action property), `NobodyIsLeft`,
`WithinTheLimit`.

`Server_proofs`, second part: the reactor. `Handover` says in which of three places the slot
of a spinning event loop is: alone in the queue, with one worker in the stage `io`, or handed
back with `improv` set. `SlotIsHandedOver` follows; the count in `HandedOver` is the
cardinality of at most one worker.

`Server_proofs`, third part: both models, with empty files, where most of
`IInv` is lost: a worker closes a connection whose timer stays in the list, the descriptor is
given out again with another timer, two workers can have its slot. What is left is `TInv`:
the list is exactly the timers in use, each once (`Listed`), and every descriptor the event
loop may still go to, for being open, for an event to handle or for the spin (`Reachable`),
has a timer whose `sockfd` is that descriptor (`Refreshable`), so that freeing another
descriptor's timer cannot free this one. That no second event of a descriptor is left once
its timer is deleted is `Turns`, for which a descriptor that is not open must be out of epoll
(`Registered`). `CloseLeaves` is the step of all three ways of closing. Proved, for every
`RSpec`: `NoTimerDangles` and the stronger `TimersAreReached`.

`Response_proofs`. The two iovecs are determined by how far the response has gone
(`AvailableInHeader`, `AvailableInFile`): while it has not passed the header and no write was
short, the first is the header from its start; after one short write, the rest of it; later it
is empty and the second is what is left of the file. `NextBytes` turns this into what the next
`writev` takes, `WriteAdvances` into what the next state is. Proved: `ResponseType`,
`BytesGoInOrder`, `MappingsEnd`.

`Accounts_proofs`. Beside the types: who holds `m_lock` is in `store` and nobody else is; what
the table, the map and the histories say of each name, with the worker between INSERT and map
as the exception. Proved: `AccountsType`, `NamesHaveOneOwner`, `RegisteredStay`,
`WelcomesAreBacked`.

`Log_proofs`. `Calls` says that each call has a line of its own and how far it is; `Sound`
that the open streams are the current ones and closed ones are written; `Placed` that streams
hold just the lines that were put, each in one of its kind; `OneKind` that while calls are of
one kind `m_level` is that kind, so that no rotation is torn. Proved, for synchronous logging:
`LinesAreKept`, `OverMeansFlushed`; and `LogType`.

`HttpParse_proofs`. Where everything is on the wire comes first: a line of a head is three
tokens, the empty one two (`LinesAre`, `WireIs`; that the concatenation `FlattenSeq` chooses
exists is an argument by the least counterexample, `StepsExist`). Then what one call of
`ParseLine` finds where line k begins: nothing yet, exactly that line, or, at a stray CR or
LF, never a line (`AtLine`, `AtEnd`, `AtStray`). `IInv` says which lines have been consumed:
in the head, that m_startLine is where line k begins, that m_linger and m_contentLength are
what the first k - 1 headers say and that what is unread is as it was sent (`Consumed`); in
the body, that the cursors are behind the head and, if m_startLine is still at its end, that
nothing of the body has been touched (`InBodyOf`). So lines that the scan finds in a body that
comes in pieces, and the '\0's it writes there, cannot become an answer: only a turn that
starts at the end of the head can find Content-Length bytes behind m_checkIndex. Proved:
`TypeCorrect` and `AnswersAreRight` however requests are cut, and `AllAnswered` for bodies in
one piece; without that condition the run `parse_split` refutes it.

Only model-checked: liveness, that is `SpinEnds`, `IdleClosed`, `Served`, `NoGridlock`,
`LoopEnds` and the fair part of `ImplementsTaskQueue` (TLAPS does not do
fairness arguments here, nor ENABLED).

## 5. Not modelled, and the plan

Left out for good: web pages, webbench, option parsing and start-up (straight-line code), the
edge-triggered branches (`TrigMode` is never called), the destructors that run when the
process ends, the operations of `BlockQueue` that nobody calls, the static buffer of `localtime`, the choice of a page by the
digit in the URL (`http_conn.cpp` 453-500) and the characters of the form, among them the
`m_string` of an earlier request that a POST without a body reads. Logging calls inside the
modelled handlers are left out of them.
A step of the models reads and writes several fields of a slot at once where only one
thread has the slot (`HandledOnce`); `m_userCount`, a plain int changed on two kinds of
thread, is also changed in one step, which hides a lost update (listed as a hazard).

Next:

* The loads and stores of `m_userCount` split, with a bound on how far it may be off.
