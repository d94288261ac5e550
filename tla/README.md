# Verification of betterpig/fight

TLA+ models of the programs in this repository, the TLC runs that check them on
small instances, and TLAPS proofs of what holds for every instance. Paths below
are relative to `src/`; `linux_server/` is left out where it is clear.

Run a model with `tlc -workers 2 -config X.cfg M`, a proof with `tlapm M.tla`.
`PROJECT.json` lists the runs, the lines each definition stands for, the mutants
each property is known to catch, the hazards, the findings and the theorems.

## 1. Inventory

The repository is a collection of study programs. Most of them are about Linux
servers, and the later chapters build on the earlier ones; two larger exercises
(a bank, a string vector) and two pattern files are separate.

### 1.1 The thread-pool web server (modelled)

`15-6_threadpool_webserver.cc`, `15-6_http_conn.{h,cc}`, `15-5_thread_pool.h`,
`14-7_locker.h`.

| Part | State | Operations | Talks to |
|---|---|---|---|
| `Locker`, `Sem` | a mutex, a counter | `Lock`, `Unlock`, `Wait`, `Post` | the pool |
| `ThreadPool<T>` | `m_work_queue`, `m_stop`, threads | `Append`, `Run`, destructor | `main` appends, `Run` calls `Process` |
| `main` | the event batch | accept, dispatch of hang-up, readable, writable | epoll, `users[]`, the pool |
| `HttpConn` (ownership) | `m_sockfd`, `m_user_count` | `Init`, `CloseConn`, `Process` | `main` and the workers share it without a lock; `EPOLLONESHOT` decides whose it is |
| `HttpConn` (parser) | read buffer, three indices, check state | `Read`, `ProcessRead`, `Parse*` | the network cuts requests anywhere |
| `HttpConn` (writer) | write buffer, io vector, mapped file | `DoRequest`, `ProcessWrite`, `Write`, `Unmap` | the kernel takes part of a vector |

Hard: every interleaving of the pool; a failed `sem_wait` whose result is
ignored; descriptors that are closed by one thread and reused by another;
one-shot registrations that every path has to renew; requests in pieces; partial
writes; a mapping that outlives its reply; the destructor.
Correct means: nothing accepted is lost or served twice; a connection has one
user at a time and is never forgotten; the answer does not depend on how the
bytes were cut; what was mapped is unmapped.

### 1.2 Timers and the server that uses them (modelled)

`11-2_lst_timer.h` (ascending list), `11-2_clear_dead_connection.cc` (server that
closes silent clients), `11-4_time_wheel..h`.

State: a linked list with `head`, `tail`, `prev`, `next`; a wheel of slots with
rotations; the signal pipe, the flags `timeout` and `stop_server`, the timer
pointer of each connection. Operations: add, adjust, delete, tick; accept, data,
departure, SIGALRM, SIGTERM. Hard: long sequences of legal list operations; a
chain of alarms in which each sets the next; edge-triggered events with one `recv`
each; pointers nobody resets. Correct means: a timer fires exactly once, when it
is due; a connection has exactly one live timer; silent clients are closed and no
others.

### 1.3 The other servers (modelled)

| Component | State and operations | Hard | Correct means |
|---|---|---|---|
| `11-4_time_heap.h` TimeHeap | array of timer pointers; two constructors, add, resize, lazy delete, pop, tick | `Pop` moves `array[cur_size--]`, one past the last, to the top | every timer is in the heap once, the earliest on top |
| `13-6_shared_memory_chat_server.cc` | `users`, `sub_process`, `user_count`; a child, a pipe and a block of shared memory per client | removal from the table in any order; coalesced signals; edge-triggered pipes with one `recv` per event; ends of pipes that children inherit | `user_count` is the number of children; SIGTERM ends with the last of them; a message reaches the others |
| `15-3_process_pool.h`, `15-4_processpool_CGI.cc` | children, dispatch pipes, signal pipes, connections and CGI programs | a child reads its signals from the wrong pipe; the loop over the children tests the wrong variable; one `accept` per event | no death of a child goes unannounced; an announced client is accepted; the first line is the program that is run |
| `9-6_chat_server.cc` | the poll array, a write pointer per client | an entry is removed inside the loop by moving the last one; `events` or-ed with complements; a reset between `poll` and `recv` | no entry is lost or doubled; departed clients go; who is to be written to is |
| `8-6_manage_http_request.cc` | buffer, two indices, a state | requests in pieces | one answer, the one the stream deserves |
| `9-3_epoll.cc` | a batch of events; LT and ET | what comes in while ET reads | nothing is left unread and unreported |
| `9-3_epoll_one_shot.cc` | a thread per event, the argument handed over by address | the argument is overwritten; data between EAGAIN and the reset | one thread per connection, none forgotten |

### 1.4 Not modelled

| Component | Why |
|---|---|
| `10-4_united_event.cc` | its loop, pipe and signals are those of `11-2_clear_dead_connection.cc` and `13-6`, which are modelled with all it does and more |
| `14-5_dead_lock.cc`, `14-8_*.cc`, `13-5_IPC_private.cc` | they demonstrate a deadlock, a fork with a mutex held and a semaphore in a dozen lines each; what can go wrong is what they print |
| `9-5_unblock_connect.cc`, `11-1_connect_timeout.cc`, `16-4_stress_test.cc`, `9-6_chat_client.cc` | clients; in the models of the servers clients do anything |
| `design_patern/singleton.h` | one pointer; candidates for a later model, as are the next two |
| `C++Primer/bank` | balances, accumulator, dates, `Array`: sequential value classes |
| `C++Primer/string` | `StrVec`, `StrBlob`, `Blob`: memory that one thread owns |

The socket and file API demos (`5-*`, `6-*`, `7-*`, `10-5`, `9-1`), descriptor
passing, the echo server `9-7`, the fragment `11-3`, the factories, `SalesData`
and `person.h` are straight-line programs around one system call or plain
values: there is no state over which anything could go wrong in time.

## 2. The modules

| Module | Models |
|---|---|
| `TaskQueue` | what the pool promises: a bounded FIFO (abstract) |
| `ThreadPool` | `Append`, `Run`, destructor, mutex and semaphore, statement by statement |
| `ThreadPool_proofs` | theorems about it |
| `WebServer`, `WebServer_proofs` | `main` and the ownership of `HttpConn` objects; the pool appears as `TaskQueue`; theorems about it |
| `HttpParser` | `Read` and `ProcessRead` on streams cut anywhere |
| `HttpWrite` | `DoRequest`, `ProcessWrite`, `Write`, `Unmap` and the object's reuse |
| `Http_proofs` | theorems about `HttpParser`, `HttpWrite`, `RequestReader` and `CgiConn` |
| `SortTimerList` | the list's member functions as operators on nodes and links |
| `TimerService` | what a timer container promises (abstract) |
| `TimerList` | `SortTimerList` under any sequence of calls |
| `TimeWheel` | the wheel |
| `ClearDeadConnection` | the 11-2 server on top of `SortTimerList` |
| `SortTimerList_proofs` | theorems about the list, the 11-2 server and `TimerList` |
| `TimeHeap` | the array of pointers and every member function |
| `Timers_proofs` | theorems about the wheel, the heap, the list as `TimersMC` has it, and the types of all timer modules |
| `TriggerModes` | `9-3_epoll.cc`, in either mode |
| `OneShotServer` | `9-3_epoll_one_shot.cc`, main and its threads |
| `SmallEpoll_proofs` | theorems about these two, and the types of what `ClearDeadMC` runs |
| `RequestReader` | the server of 8-6 |
| `CgiConn` | `Process` of a CGI connection |
| `ProcessPool` | the parent and the children of the pool |
| `SharedMemoryChat`, `SharedMemoryChat_proofs` | the parent and the children of the 13-6 server, theorems about it |
| `PollChat` | the 9-6 server |
| `Chats_proofs` | theorems about `PollChat` and `ProcessPool`, and the types of the three chat modules |
| `*MC` | what one run puts together, with its constants left open; `Http_proofs`, `Timers_proofs`, `SmallEpoll_proofs` and `Chats_proofs` extend theirs, so that the theorems state the very properties the runs check |

```
TaskQueue <--implements-- ThreadPool        TimerService <--implements-- TimerList --> SortTimerList
    ^                                            ^                                        ^
    +--- uses --- WebServer                      +--implements-- TimeWheel                +--- ClearDeadConnection
```

`HttpMC` (`HttpParser`, `HttpWrite`, `RequestReader`, `CgiConn`), `TimersMC`
(`TimeWheel`, `TimerList`, `TimeHeap`, and `ClearDeadConnection` with fairness),
`ClearDeadMC` (`ClearDeadConnection`, `TriggerModes`, `OneShotServer`) and `ChatsMC`
(`PollChat`, `SharedMemoryChat`, `ProcessPool`) put independent components into one
run: the initial state picks one, the others never move (in `TimersMC` they are called `Wheel`,
`List` and `Server`, and the heap is the module itself). The state space is the sum, and so is what the run
shows; fairness is stated for each server by itself.

### 2.1 ThreadPool

One step per statement that touches shared state; `pc` names the statement a
thread executes next. `sem` and `lock` are the semaphore and the mutex. A producer
is any thread that calls `Append` (the web server has one, `main`); the number of
producers is a parameter because nothing in the pool depends on there being one.
`sem_wait` may fail (`RunWaitInterrupted`), and `Run` goes on as if it had
succeeded (line 93). The destructor is `SetStop`, then `FreeMembers`; a thread
that touches the pool afterwards becomes `undefined`.

### 2.2 WebServer

`users[fd]` serves descriptor `fd`; its `m_sockfd` is `sockfd[fd]`. `kern[fd]` is
what the kernel knows: open, armed for `in` or `out` or disarmed (`off`), data
waiting, the peer gone, the socket buffer full. `CloseConn` and `Init` are split
into their statements (`m_user_count` is loaded and stored in two steps), because
main and workers run them at the same time. A number may be closed while main still
uses it: then `recv`, `writev` and `epoll_ctl` fail (`HandleIn`, `HandleOut`, `Addfd`).
HTTP is abstracted to the outcomes
`no_request`, `reply` and `empty_file`, the last being the one path on which
`ProcessWrite` returns false and a worker closes.
Merged, because nothing else can happen in between that either side can see:
`Read` with `Append`; `epoll_ctl` and `close` in `Removefd`; the last `Modfd` of
a worker with its return to the pool.
Left out: `epoll_wait` failing (the loop ends and the pool is destroyed: see
`pool_shutdown` for that part); descriptors from 10000 on, for which `users` has no
object although `MAX_FD` admits them.

### 2.3 HttpParser

A line's text is one symbol (a request line, keep-alive, a length, anything
else); CR and LF are symbols of their own, and the three indices move over
symbols as they move over bytes. What is not abstracted: `ParseLine` with its
look-ahead and look-behind, the loop of `ProcessRead` and its condition, the
state that survives between calls, and the reset between requests.
`Verdict` is the reference: what the whole stream deserves, defined without
indices or states. A stream in which `ParseLine` reports `LINE_BAD` is never
answered (`ProcessRead` treats it like `LINE_OPEN`); the reference says so too.

### 2.4 HttpWrite

A byte of a reply is its offset. `writev` may take any part of what it is given,
return EAGAIN, or fail; the vector is handed over from its beginning each time,
as on line 321. `bytes_to_send` is the head's length, as on line 312. The
document's mapping is its size, 0, or -1 for a failed `mmap`. Error pages are
assumed to fit the write buffer; `"%S"` on line 376 is taken to format something.

### 2.5 Timers

`SortTimerList` keeps every pointer: `Walk` follows `next` as the loops do, and
the operators assign what the branches assign, `tail` included, which `Tick` leaves
dangling. Times are relative to now, so that a run can go on for ever; the clock
never goes back (the code's `time(nullptr)` may, see the hazards).
In `TimeWheel` a slot is the set of timers its list holds, since the order in a slot
only orders callbacks within one `Tick`.
In `ClearDeadConnection` a batch of events is a set (epoll may report in any
order), an event is reported once (edge-triggered), `recv` takes one piece although
more may wait, and the pipe is the set of signals in it, because handling SIGALRM
twice and once is the same. `timer[fd]` is never reset, as in the code.

`TimeHeap` keeps the array of pointers with its capacity. Sifting is stated by the
path it takes: every hole on it gets what the next one held. A pointer that is
null, behind the array, or of a deleted timer makes the next read `undefined`,
and nothing is said of what follows; so `HeapIsSound` speaks of heaps that `Pop`
has not ruined, and covers growth, heapify, lazy deletion and `Tick`.

### 2.6 Small epoll servers

`TriggerModes` has both modes, chosen in the initial state, because main calls ET
and the call of LT is commented out. `Reported` is what epoll tells: the level for
LT, the edge for ET. Each `recv` is a step of its own, so that data and hang-ups
come in anywhere between.
In `OneShotServer` `argument` is the local struct of main's loop. A thread reads it
at any time after it was created; `overwritten` records that main has written it
again before that, after which the code guarantees nothing. Thread creation is
taken to succeed.

### 2.7 RequestReader and CgiConn

Symbols as in `HttpParser`. `Verdict` and the first CRLF of all that was sent are
the references. The buffers are small (`SmallBuffer`, `NameBuffer`), so that
they get full.

### 2.8 PollChat

`fds` holds the entries 1 to `user_counter`; `listenIn` is the `revents` of entry 0.
An entry that is removed is replaced by the last one together with its `revents`,
and the loop looks at the same index again. `write_buf` is the descriptor whose
buffer it points to, as users are indexed by descriptor. What text is sent is not
modelled: a write pointer into somebody's buffer sends what is there at that time.

### 2.9 SharedMemoryChat

A connection is named by the pid of its child. `users` and `sub_process` are the
parent's arrays, with every stale, doubled or empty entry the code leaves in them;
pid 0 and descriptor 0 are what an entry never written contains. `holders` says
which processes have the parent's end of a pipe open, since later children inherit
it and a child is only told of the end of its pipe when all have gone. SIGCHLD and
SIGTERM are sets, for handling one twice is like handling it once. SIGTERM may find
a child before it has set its handler, or between the test of `stop_child` and
`epoll_wait`; then it is lost until the next event. A failed `fork` leaks its pipe.
Left out: the close of descriptor 0 for an entry never written.

### 2.10 ProcessPool

The notifications are counted, the signals of the parent's pipe keep their order
because the loop tests the number of the byte. `HandleSignals` does what the code
does: nothing is ever crossed off, and a small number makes the loop run off the
array (`parent` becomes "undefined"). A child looks for its signals in the pipe to
the parent: notifications are read and thrown away, and the signals stay.
`users[connection_fd]` lies outside the array of five in practice: the child may go
on or die. `Serve` is all of `CgiConn::Process`, which `CgiConn` has in detail.

## 3. The runs

| Run | Instance | Shows |
|---|---|---|
| `pool` | 2 workers, 2 producers, 1 request, `max_requests` 1, 1 failed wait | checks of `Append` and `Run` still hold when acted on; the semaphore covers the queue and promises no more than failed waits allow; refinement of `TaskQueue`, with the queue's real bound; every accepted request is served |
| `pool_shutdown` | 2 workers, 1 producer | finding: the workers do not exit |
| `server` | 3 descriptors, 2 workers, 3 connections, no empty files | one user per connection; none forgotten; descriptors and objects match; hang-ups are closed and bytes read |
| `worker_closes` | 2 descriptors, 2 workers, 3 connections, empty files and incomplete requests, refused clients | workers close while main accepts: a client that hung up is closed in the end, unless a late `m_sockfd = -1` has erased its object |
| `server_user_count` | 2 descriptors, 2 workers, 3 connections, empty files | finding: `m_user_count` loses an update |
| `server_write_armed` | as above | finding: EPOLLOUT armed on another client's descriptor |
| `http` | streams of the shapes in `HttpMC`, pieces of 1 and 2; heads of 2 and 3, documents of 0, 1 and 4 bytes; requests of up to 8 symbols (8-6), names with up to 6 (15-4) | the answer is the stream's and no complete head waits; `ProcessRead` returns; a pending document is mapped, mappings and unmappings balance, a whole `writev` sends a whole reply; 8-6 answers what the stream deserves; 15-4 runs what the first line names |
| `http_body` | same | finding: a body in two pieces is never complete |
| `http_sent` | same | finding: a partial write counts as sent |
| `clear_dead` | 2 connections, expiry after 3 periods, 2 threads | one live timer per connection; the alarm chain never breaks; exactly the silent are closed; LT and ET leave nothing behind; one thread per one-shot connection until an argument is overwritten |
| `timers` | 3 timers; 3 slots, timeouts up to two turns; heaps of capacity 1 and 3; `ClearDeadConnection` with 1 connection, fair | the list is sound after any calls; list and wheel are timer services; the heap is a heap of all timers; a departed client is closed in the end; SIGTERM stops the server |
| `chats` | `PollChat`: 2 connections; `SharedMemoryChat`: 2 clients that come and go with SIGTERM, 3 that talk; `ProcessPool`: 2 children, 2 clients, 1 signal | the poll array is sound, the departed are removed, pending writes happen; `user_count` counts the children and the last one stops the server; a lone message is heard by all; a dead child is announced to the parent; a lone client is accepted |

Every property of a passing run has a mutant in `PROJECT.json`, a plausible bug in
the code, that the run catches.

### Bounds, and why they are enough

* `MaxInterrupts = 1`: one failed wait already separates the semaphore from the
  queue; the theorems cover any number.
* Two workers, two producers: every pair of roles meets; the theorems cover any
  number.
* `MaxConns = 3`, `Backlog` 1 or 2, `Fds` 2 or 3: three connections on two
  descriptors force reuse of a number while its old owner may still be at work.
* `Fds` against `MaxRequests`: `PoolIsLargeEnough` says that the pool's queue
  holds as many requests as there are descriptors, which is so in the code (10000
  both); then `Append` never refuses a connection.
* `MaxRequests = 4` in `worker_closes`. There a closing worker can arm a connection that
  another thread has in hand, so that one connection may be queued twice. A queue of
  two would then refuse another connection, which the 10001 places of the code do
  not; five places are enough for the three connections of the run.
* `MaxChunk = 2`, `BufferSize = 13`, streams as in `SomeStream`: every cut of every
  CR LF pair, an empty line, a keep-alive line, a body, a full buffer.
* `MaxReceived = 10`, `MaxMappings = 2`: a reply of at most seven bytes, sent one
  and a half times; a second mapping is what the property forbids.
* `MaxUnread = 2`: one piece more than a `recv` takes. `MaxLate = 1`: the loop may
  be a period late. `Lifetime = 3` is the code's.
* `SmallBuffer = 8`, `NameBuffer = 5`, `MaxSent = 6`: a request line, a header and
  the empty line; a buffer that fills up before a line is complete.
* `Pids` three, `MaxPipes = 4`: two clients at a time and a third that takes a place
  that was given up; one pipe may leak. With three talkers a message has two
  readers, and `P1`, `P2` stand for any two pids because nothing tells pids apart.
* `Processes = 2`, `MaxBacklog = 2`, `MaxConns = 2`, `MaxSignals = 1`: round robin
  turns, two clients fall into one event, a signal meets a notification.
* `UserLimit = 2`, `MaxUnread = 1` (`PollChat`): the first entry is removed while
  the last is about to be looked at; too many clients; a reply while one is pending.
* `N = 3` slots, timeouts 0, 1, 2, 3, 7 and -1: below and above one turn, whole
  turns, two turns; the theorem covers any number. `MaxOverdue = 1`: `Tick` late.

### Fairness, and why it is justified

* Pool: weak fairness of every thread's next step (the scheduler runs every
  thread), strong fairness of taking the mutex (its holders keep it for a few
  instructions; a thread that finds it free again and again gets it in the end).
  Nothing is assumed of failing waits, of callers or of the destructor.
* Server: weak fairness of main and of every worker. Clients owe nothing.
* Parser: weak fairness of the loop of `ProcessRead`.
* Dead-connection server: weak fairness of main and of time.
* Chat servers and process pool: weak fairness of the server's loop and of every
  child. Clients, programs and the operator owe nothing.

## 4. What is proved

`ThreadPool_proofs`, for any numbers of workers, producers and requests, any
`max_requests` and any number of failed waits; from the assumptions in
`ThreadPool` (threads are distinct and finitely many, the bound is positive):

* `TypeCorrect`, `QueueIsGuarded`, `ChecksHold`, `QueueIsBounded` from the
  inductive invariant `IInv`. It has five parts because they need one another: the
  bound follows from the size test being still true at the push
  (`CheckedStateHolds`), that from the mutex (`QueueGuarded`), that from what the
  program counters can be (`TypeOK`), and the pushed value from `RequestHeld`.
* `NoLostWakeup`, `NoInventedToken`, `EmptyBranch` from `Accounting`, a balance of
  the semaphore with the workers that claim and the producers that post. Each step
  moves a thread in or out of a set by one (`CardinalityOfMove`), so both sides
  change together; the failed waits are the only difference between them.
* `PoolImplementsTaskQueue`: each step maps to a step of the FIFO or to none.

`Timers_proofs`, for any number of slots, timers, timeouts, delays and capacities:

* `WheelTypes` and `SlotsAreNamed` from `TypeOK /\ LinkedWhereNamed`: the slot
  arithmetic stays in range and `DeleteTimer` looks in the right list.
* `WheelIsTimerService`: the wheel implements `TimerService`. The mapping is
  `Remaining`, rotation times N plus the distance from `cur_slot`; `AddTimer` makes
  it the number of ticks (`DivMod`, `Around`), and `Tick` takes one off all of them
  and fires those at zero, whichever slot they are in.
* `HeapStaysSound`, from `HeapInv`: the heap is ruined (`undefined`), or one timer is left
  under a pointer `Pop` took from behind the last place (`TopLost`), or it is sound
  (`HeapSound`): every place below `size` has a timer, none has it twice, they are the live
  ones, no timer is earlier than its parent, and nothing behind the last place is a timer.
  The last part is what makes `Pop` say so little: `PopOfManyIsUndefined` shows that with
  more than two timers it reads a bad pointer in every execution, so that no proof
  about sifting down after a `Pop` is needed. Sifting is a path. The paths are recursive functions
  on the places of the heap, and there is no induction to unfold them with: that
  there is a function that satisfies the recursion (`PathExists`, `PathsAre`), and that its
  paths go from parent to child (`PathDescends`), is shown by a smallest place where it would
  fail (`LeastIsOne`). Then `ShiftPermutes` says that moving along a path without
  repetition neither loses nor doubles a pointer, `SinkOrders` and `RiseOrders` that it
  restores the order above or below, and `HeapifyOrders` that sinking every inner node, the last
  first, makes a heap of any array.
* `TimerTypesStayRight`: the types of the wheel, the heap and the 11-2 server.

`Chats_proofs`, for any finite set of descriptors, any `USER_LIMIT` and any amount of data;
any number of children, clients, programs and signals:

* `TypeCorrect` and `ArrayStaysSound` from `TypeOK /\ ArrayIsSound`, which is
  inductive: removal keeps the entries distinct because the one that is moved goes
  from its old place (`RemovalIsSound`), and what the kernel holds for a number is
  empty when `accept` returns it, because it was emptied when the entry went.
* `DeathsAreAnnounced` (`ProcessPool`), from `PoolInv`. It is not inductive by itself: that
  epoll has an event for a SIGCHLD needs that it has one whenever the pipe is not empty
  (`Heeded`). When the parent reads all signals at once, either its loop runs off the array, or
  a SIGCHLD was among them and every dead child is waited for, or there was no dead child; and
  children killed by the SIGTERM it passes on announce themselves anew.
* `ServersStayTyped`: the types of the three servers. That a child never has more
  connections and programs than the bound of the model needs a sum over all children
  (`RoomForAll`). `MapThenSumSet` is a recursive function over the subsets of a set; `SumsExist`
  unfolds it and `SumChanges` follows it when one summand changes, by a smallest subset
  that would fail (`RestInduction`).

`WebServer_proofs`, for any numbers of descriptors, workers and connections. Every
theorem has the hypothesis `NoEmptyFiles`: no reply is for a file without bytes. It
cannot be dropped, since with such files the code violates what is stated (findings 2
and 3), and it is the instance of the run `server`:

* `TypeCorrect`, `WorkersAreExclusive`, `NoneIsForgotten`, `ObjectsMatchDescriptors` from
  the inductive invariant `IInv`. Its heart is `OneHolder`: an open connection is in
  exactly one of four places (armed, in the batch, in main's hands, in the pool). Each
  handler moves one connection from one place to the next; what it needs for that
  is that the pool has nothing twice (`PoolHasOnce`), that a batch has one event per
  connection (`OneEvent`), that a free descriptor is blank (`FreeIsBlank`), and where
  main is in `Init` or `CloseConn` (`Registered`, `SockMatches`).
* `PoolHasRoom`: because the pool has no connection twice, and its queue is as long as
  there are descriptors (`PoolIsLargeEnough`), `Append` never refuses one. The
  code ignores the result of `Append`, so that a refusal would strand the connection.
* `WriteArmedWithReply` and `CountIsExact` from the additional invariants `RepliesReady`
  and `CountBalance`. `CountBalance` counts the objects in use, which change at the two
  statements where main sets `m_sockfd`; `SockMatches` says that they are the
  open descriptors elsewhere. The two theorems state what findings 2 and 3 refute, and show that the failed
  `ProcessWrite` is the only cause of both.

`SmallEpoll_proofs`, for any finite set of connections, any number of threads and any
amount of data:

* `ModesLeaveNothingBehind`: neither mode leaves data or a hang-up unreported; in ET the
  edge that comes in while the loop reads is what saves it.
* `ServerTypesStayRight`: the types of both and of the 11-2 server. `accept` returns the lowest
  free descriptor, so there must be one whenever a client waits (`Fits`).
* `OneShotGivesOneThread`: as long as no argument has been overwritten, each open
  connection has one holder (`OneHolderEach`); a thread that has not read its argument
  yet counts as a holder of what the argument names.

`Http_proofs`, for documents, heads and streams of any size, cut into pieces anywhere, and
any number of replies, requests and clients one after the other:

* `RepliesAreSent`, from the conjunction of the properties with what a pending
  reply holds (`Mapped`, `Unsent`). `left` excepts the client that leaves while a reply is
  pending, whose mapping the code leaks.
* `PiecesDoNotMatter` (`HttpParser`), `AnswersAreVerdicts` (`RequestReader`): the answer is the
  one the whole stream deserves. The verdicts are stated by the first place in the stream
  where something ends (`Min` of a set of positions), not by a second parser, so
  the proofs need no induction over streams. The invariants say what the
  indices and the state stand for: up to the start of the current line all lines are
  closed and none is empty (`LinesTo`), from there to `checked` there is neither CR nor LF
  (`Scanned`, `Plain`), and the state, `m_linger` and `m_content_length` are what the lines so
  far ask for (`Remembered`, `Parsed`). When a turn of the loop finds an empty line it is
  therefore the first (`HeadIs`); while the loop waits there is none that is complete
  (`NothingToAnswer`, `NothingDecided`).
* `FirstLineDecides` (`CgiConn`): what has been received and what waits make up what was
  sent (`TakenAndRest`), and lines end where they end whatever follows (`EndsOfPrefix`).
* `TypesStayRight`: the types of the four modules, among them that no index leaves its buffer.

`SharedMemoryChat_proofs`, for any `USER_LIMIT` and any finite set of pids:
`ChildrenAreCounted` and `ServerOutlivesNoChild`, which `Chats_proofs` states of the instance the
run checks. `users` loses and doubles entries, so the
argument goes by `sub_process`: it has a place for every child (`Listed`), hence
the parent counts down exactly once for each it waits for. `TypeCorrect`, from the same invariant
and `AllTypes`: the numbers that travel through the pipes are blocks of the shared memory,
because a child is forked with `user_count` below `USER_LIMIT`.

`SortTimerList_proofs`, for any finite set of timers, with all the pointers of the list:

* The list. `Holds` says that the list consists of the nodes of a sequence, linked in both
  directions and in order of expiry, and that they are a given set. One lemma per
  member function says what it does to the sequence (`AddTimerHolds`,
  `AdjustTimerHolds`, `DeleteTimerHolds`, `TickHolds`). `Walk` is a recursive function and
  there is no induction to unfold it with; `WalkIs` gives the function it chooses a
  witness, built from the sequence, and shows by a smallest counterexample (the
  library's `WFMin` for numbers) that no other function satisfies the recursion.
* The 11-2 server, on this list: `TypeCorrect`, `TimersBelongToConnections`, `AlarmsGoOn` and
  the action property `SilentAreClosed`, from an inductive invariant `IInv`. `Owned` and
  `InList` make timers, nodes and open connections three views of one set;
  `Clocks` (expiry plus silence is `Lifetime`) turns the list's order into the statement
  about silent clients.
* `TimerList`: `ListStaysSound` and `ListIsTimerService` (stated of the list of `TimersMC` by
  `Timers_proofs`), the refinement of `TimerService`, for any
  set of whole numbers as expiries; the second also takes `None`, the null pointer, for
  something that is not a number. Each call is shown to be one step of the service:
  `Tick`, which stops at the first timer that has not expired, fires all that are due
  because the list is in order.

Assumptions on the constants are in the modules that declare them, and those of modules
reached through INSTANCE in the MC module that instantiates them (`ConstantsAssumption` of
`TimersMC`, which has the wheel's `WheelAssumption`, and of `ChatsMC`): TLC evaluates them in
every run. What a proof needs beyond them is a hypothesis of its theorem (`PidsAssumption`,
`LimitsAssumption`, `ConnsAssumption`, `NoneAssumption`, `PoolAssumption`, in `Http_proofs` `ParserAssumption`,
`CgiAssumption`, `TypesAssumption`, and the assumptions of `ClearDeadConnection` where `Timers_proofs`
has it for the server): descriptors are numbers, sets are finite, pid 0 is nobody's, limits
are positive, a Content-Length is a whole number, buffers have room for a byte, and clients send the
symbols `HttpParser` knows.

### Model-checked only

* Every liveness property: `EveryRequestServed`, `HangupIsClosed`, `BytesAreRead`, `HangupClosedUnlessErased`,
  `ProcessReadReturns`, `DepartedAreClosed`, `TermStops`, `DepartedAreRemoved`, `TurnsToWrite`,
  `LoneMessageIsHeard` and `LoneClientIsAccepted`. The prover does not reach fairness and ENABLED.
* The findings: each is a counterexample of TLC's.

Every invariant, every safety property over steps and every refinement that a passing run checks is stated by
a theorem; what the runs add is liveness, and evidence that the properties can fail
(the mutants).

## 5. Findings

Each has a run that ends in a counterexample.

1. `pool_shutdown` (15-5_thread_pool.h:59). The comment relies on the threads
   exiting by themselves; a worker in `sem_wait` is never woken, and one that runs
   touches members that have been destroyed.
2. `server_user_count` (15-6_http_conn.cc:57). `m_user_count` is changed by main and
   by workers with plain `++` and `--`. In the trace main and a worker both load 1; main
   stores 2, the worker then stores 0, and one connection is open. No thread
   has a change left to make: a state in which one has, from `accept` to the store of
   `++` or from `close` to the store of `--`, is not held against the code.
3. `server_write_armed` (15-6_http_conn.cc:461). `Process` goes on after
   `CloseConn`, and arms EPOLLOUT on the client that got the descriptor meanwhile.
4. `http_body` (15-6_http_conn.cc:264). After an incomplete body the loop runs
   `ParseLine` over it; the body is then never complete.
5. `http_sent` (15-6_http_conn.cc:335). `Write` takes the reply for sent when half of
   the head has gone out.

Seen while modelling, without a run of their own:

* `Pop` of the heap puts `array[cur_size--]` on top, one past the last element
  (11-4_time_heap.h:116, where the comment says the last element): with two timers
  the other one is lost. `PopKeepsTheRest` of `TimeHeap` states the comment, and TLC
  refutes it.
* A departed client's entry is overwritten with `users[user_count--]`, one behind the
  last (13-6_shared_memory_chat_server.cc:307), so that a client that stays is told of
  no message any more. `EveryChildIsListed` of `SharedMemoryChat` states the comment
  (lines 308 and 309), and TLC refutes it; what survives is `CountIsChildren`.
* A child of the process pool receives its signals from `pipefd` instead of
  `sig_pipefd[0]` (15-3_process_pool.h:195): SIGTERM never stops it, and its finished
  programs stay zombies. The parent's loop over the children tests `i` (line 302) and
  crosses off `m_sub_process[i]` (line 308).
* `events |= ~POLLIN` and `events |= ~POLLOUT` (9-6_chat_server.cc:157 and 171) set
  bits instead of clearing them: once written to, an entry asks for POLLOUT for ever,
  and the loop around `poll` never sleeps again.
* The thread of the one-shot server is handed the address of a local variable
  (9-3_epoll_one_shot.cc:143): two events in one batch can give one connection two
  threads, and leave the other without any.
* ET of 9-3_epoll.cc serves a client as long as it keeps sending (line 89), and calls
  `recv` and `close` again on the descriptor it has just closed (line 104).
* The queue holds `max_requests + 1` requests: line 68 of 15-5 tests `>`.
  `QueueBound` of `ThreadPool` is the real bound, `QueueWithinMaxRequests` the
  documented one.
* The terminator of a body is written at the wrong place (15-6_http_conn.cc:225).
* A worker closes the descriptor before it sets `m_sockfd` to -1
  (15-6_http_conn.cc:55 and 56). If main accepts the same number in between, the new
  connection's object is erased: `CloseConn` then returns at once and `Modfd` has
  no number, so that this client is neither heard nor closed any more. This is the exception in
  `HangupClosedUnlessErased`, which also says that it is the only one.
* `listenfd` is edge-triggered with one `accept` per event, so that of two clients
  that arrive together one waits for the next (15-6_threadpool_webserver.cc:105).
* `cb_func` of 11-2 uses a static `epollfd` that is always 0, hidden by a local of
  the same name (11-2_clear_dead_connection.cc:102).

## 6. What is not modelled of the modelled parts

* Pool: its destruction while the constructor fails (15-5_thread_pool.h:43);
  `ConditionalPara`, which nothing in the modelled programs uses.
* Web server: `epoll_wait` failing; the wording of replies; the path and the file
  status in `DoRequest` beyond the kind of reply they lead to.
* 11-2: failed `accept` (it writes `users[-1]`); a wall clock that is set back.
* `TimeHeap`: what is read through a pointer that is null, dangling or behind the
  array; memory that cannot be allocated.
* One-shot server: failed creation of a thread; connections refused by the system.
* 13-6: the close of descriptor 0 for an entry never written, and that 0 is free from then
  on; what the text says; the hang-up that the pipe of a child reports to the parent when
  the child exits (the parent's `recv` then returns nothing).
* 15-3: a signal that arrives between the parent's `recv` and its `waitpid` (the two are
  one step); what the code does once it has left an array; failed `fork` in the
  constructor (an assertion ends the program).
* 15-4: a failed `fork` or `execl`, after which the connection is given up.
* 9-6: what text a write pointer sends; a failed `accept`; SIGPIPE, which the server does not
  ignore, so that a `send` to a client that has gone may end it (in the model the `send`
  fails, and leaves the socket's error for `POLLERR`).
* `HttpWrite`: `Write` with nothing to send, which no reply leads to.

## 7. Plan

Modules that may follow: the unified event source, if the loop of
`ClearDeadConnection` is factored out of it; `Singleton` (one object whatever the
threads do); the bank (its total is the sum of the balances) and its `Array`;
`StrVec` (construction, reallocation and destruction balance).

Properties that are worth more than what is there: that a message of the 13-6
server reaches everyone when the numbers in a pipe do not exceed the events, with
more than one under way; that the parent of the process pool hands successive
connections to successive children.

The runs stay few: small components share an MC module, and a new finding takes
the place of an older, weaker one.

Proofs that would say more:

1. That the calls of `TimeHeap` implement `TimerService` as long as the program is defined, as the
   list and the wheel do.
2. That `ProcessPool` keeps a connection with one child, as a safety property of its own.
3. A balance of connections and mappings for `WebServer` and `HttpWrite` together, which now meet
   only in the outcomes of `Process`.
