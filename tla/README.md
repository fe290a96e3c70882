# HPLinuxServer in TLA+

A model of the server building blocks of HPLinuxServer: the thread pool, the
process pool, the timer containers, the servers that use them, two chat rooms and
the demonstration of EPOLLONESHOT. The modules are model-checked with TLC on small
instances. Every safety property these runs check, invariants, action properties
and refinements, is also proved with TLAPS for every value of the constants; what
must eventually happen is model-checked only. `PROJECT.json` maps every definition
to the lines it models.

Run from this directory: `tlc -config <cfg> <module>`, `tlapm <module>.tla`.

## Inventory

| Component | State | Operations | Interacts through | What is hard | Correct when |
|---|---|---|---|---|---|
| thread pool (`include/thread_pool.hpp`, `include/locker.h`) | request queue, mutex, semaphore, limit | construct, `append`, `run`, destroy | called by the web server, calls `process()` | push/post and wait/pop are two steps each; interrupted waits; uninitialised limit | every accepted request is processed exactly once, none is left behind |
| sorted timer list (`include/lst_timer.h`) | doubly linked list in order of expiry | `add_timer`, `adjust_timer`, `del_timer`, `tick` | owned by the timeout server, calls back `cb_func` | head/tail/middle cases, stale tail after `tick` | pointers sound, order kept, `tick` fires just what has expired |
| timeout server (`execution/timeout_server.cpp`) | epoll set, signal pipe, alarm, `users[]`, list | accept, read, signals, tick | kernel events, signals | reuse of descriptors, SIGALRM between events, one `recv` per edge | timers match connections, idle ones are closed, the alarm goes on |
| time wheel (`include/time_wheel_timer.h`) | N slots of lists, current slot | `add_timer`, `del_timer`, `tick` | library | quotient/remainder at a turn, unlinking while walking | a timer fires at the promised tick |
| process pool (`include/process_pool.hpp`) with the echo server (`execution/echo_processpool_server.cpp`) | children, their pipes, used flags, signal pipes | assign, refuse, reap, release, kill; accept, echo, report | two pipes per child, the shared listening socket, signals | a shared accept queue, crashes, blocking `wait`, pipes nobody reads, stale `events[]` | somebody told to accept finds a connection, no orphans, SIGTERM ends all |
| HTTP connection (`httpConn/http_conn.*`) | read buffer and parser state, write buffer, mapped file | `init`, `read`, `process`, `write`, `close_conn` | main thread and workers hand it over by EPOLLONESHOT | hand-over, close against reuse, short writes, buffer limits | one thread at a time, each request answered once and whole |
| web server (`httpConn/web_server.cpp`) | epoll set, `users[]`, pool | accept, dispatch of events | all of the above | refused requests, registration | every accepted connection is served |
| chat room on poll (`execution/chatroom_server.c`) | `fds[]`, `users[]` by descriptor, `write_buf` as a pointer into a sender's buffer | accept, refuse, leave, receive, send, fetch an error | clients | the last element moves while the loop runs, descriptors used again, a pending pointer into another user's buffer, SIGPIPE | the table is the open connections, no event is skipped, nobody gets a text twice or out of order, leavers are dropped |
| chat room on processes (`execution/subprocess_chat_room.cpp`) | shared memory, one handler process per user, pipes, signal pipe | accept, receive, forward, deliver, leave, terminate | pipes, shared memory, signals | the fork test is inverted, so the main role is handed on; one `recv` per edge; segments cleared under their readers; SIGTERM between test and wait; ends of processes seen through pipes | texts go to the others, handlers end when their client, main or SIGTERM says so |
| EPOLLONESHOT demonstration (`execution/epoll_oneshot.c`) | epoll set, one thread per event, one argument they share | accept, create a thread, `recv`, `reset_oneshot` | the address of a local variable of main | the argument is overwritten before its thread reads it; `pthread_create` unchecked; data between EAGAIN and re-arming | one thread per socket, no socket forgotten |
| time heap (`include/time_heap.h`) | – | – | – | does not compile | – |
| LT/ET demonstration, chat client (`execution/LT_ET_in_epoll.c`, `chatroom_client.c`) | none between events | read and print, copy | – | – | – |
| socket demonstrations (the other files of `execution/`) | none | one socket call each | – | – | – |

The hazards, each at its line and with the properties that watch it, are in
`PROJECT.json`. Where the code really does go wrong there, no property watches it:
the entry has a note that says so.

## Modules

| Module | Models | Uses |
|---|---|---|
| `ThreadPool` | `threadpool<T>`, `sem`, `locker` | – |
| `ThreadPoolProofs` | theorems about `ThreadPool` | `ThreadPool` |
| `SortTimerLst` | `sort_timer_lst` as operators on its pointers | – |
| `TimerQueue` | abstract: what a timer container promises | – |
| `TimerList` | the list used in every order | `SortTimerLst`, implements `TimerQueue` |
| `TimeoutServer` | `timeout_server.cpp` | `SortTimerLst` |
| `TimerProofs` | theorems about `TimeoutServer` and `TimerList` | `TimeoutServer`, `TimerList` |
| `WheelArith` | the arithmetic of `time_wheel_timer` | – |
| `TimeWheel` | the wheel with sets for slots | `WheelArith` |
| `TimeWheelList` | the wheel with the lists it has | `WheelArith`, implements `TimeWheel` |
| `TimeWheelProofs` | theorems about `TimeWheelList` and `TimeWheel` | `TimeWheelList` |
| `ProcessPool` | `processpool<T>` with `echo_conn` | – |
| `ProcessPoolProofs` | theorems about `ProcessPool` | `ProcessPool` |
| `HttpParser` | `parse_line`, `parse_*`, the loop of `process_read` as operators | – |
| `HttpConn` | `http_conn` between main thread and workers | `HttpParser` |
| `MCHttpConn` | the requests clients send, for TLC | `HttpConn` |
| `HttpConnProofs` | theorems about `HttpConn` | `HttpConn` |
| `WebServer` | the branch of `main()` for new connections | – |
| `ChatRoom` | `chatroom_server.c` | – |
| `ChatRoomProofs` | theorems about `ChatRoom` | `ChatRoom` |
| `SubprocessChat` | `subprocess_chat_room.cpp` | – |
| `SubprocessChatProofs` | theorems about `SubprocessChat` | `SubprocessChat` |
| `EpollOneshot` | `epoll_oneshot.c` | – |
| `EpollOneshotProofs` | theorems about `EpollOneshot` | `EpollOneshot` |

### How state and actions correspond to the code

*ThreadPool.* The variables have the names of the members. `pc` says where each
thread is in `append()` (`idle`, `lock`, `check`, `push`, `post`) or `run()`
(`wait`, `lock`, `front`, `pop`, `process`). A step ends where another thread can
get in; `WaitInterrupted` is a `sem_wait` that fails with EINTR, whose result
`run()` ignores. `pushed`, `done` and `interrupted` are history variables. A
request is the number of its `append()`. `m_max_requests(m_max_requests)` in the
constructor reads an uninitialised member, so `m_max_requests` starts with any
value of `Garbage`.

*SortTimerLst, TimerList.* The list is a record of pointers; each method is an
operator with the same case distinctions. A loop along the list becomes the
number of steps until its exit condition (`StepsUntil`). `TimerList` applies the
methods in any order with any times; `adjust_timer()` is called, as in the server,
only after `expire` was moved to a later time.

*TimeoutServer.* `EpollWait` takes the descriptors with a new edge into `batch`,
one action handles each kind of event, in any order, and `EndBatch` is the code
behind the loop over the events. Time is relative (`ttl`), which keeps the state
space finite without a last second. The world (clients, clock, SIGTERM) runs at
any time.

*TimeWheel, TimeWheelList.* `left` is a history variable with the number of
ticks that `add_timer()` promises: a timer fires at the `offset + 1`-th tick
after it was added, since the first tick looks at the slot the wheel stands on.

*ProcessPool.* `ready` is the parent's list of edges in their order, `batch` the
events still to be handled, and `events` the array itself with what earlier calls
left in it: the loop that frees a child looks at positions of that array
(`Release`). `epoll_wait()` reports the ready descriptors in the order of their
edges (`Places`, `InOrder`). The children have `cready` and `cbatch` likewise. `p2c` and
`c2p` count messages in the pipes; `Messages` names those of `p2c` one by one, so
that they can be counted against the backlog. The parent calls `wait()` in stage `reap`, where it
handles nothing else.

*HttpConn.* One descriptor, its element of `users[]`, and the connections that get
the descriptor one after another. `armed` is what the epoll set waits for,
`main` the event the main thread has in hand, `pool` how often the element is in
the pool's queue, and `pc` where each worker is in `process()`. One turn of the
parser's loop is one step, so a loop that never ends is a step that changes
nothing (`Spins`). `close_conn()` in a worker is split where the descriptor is
already free and `m_sockfd` not yet -1. Bytes are pieces the parser tells apart
(see `HttpParser`, whose `Parser` is the record of the members the parser uses);
lengths are counted in pieces and units. `mapped` is `m_file_address`: null, a
mapped file, or `failed`, the MAP_FAILED of an `open()` or `mmap()` nobody looked at;
a `writev()` given that address fails with EFAULT and sends nothing (`BadAddress`).
A `recv()` for 0 bytes, which `read()` calls when the buffer is full, returns 0 when
there is more to read or the stream has ended, and fails with EAGAIN otherwise
(`ReadSucceeds`). The branch of `write()` for keep-alive is in `Writev`, but in no
behaviour of the runs is `m_linger` ever set, because the parser's loop ends at the
first complete line.
`web_server.cpp` passes the listening descriptor to `init()`; `HttpConn` models the
class as it is meant to be used, with the accepted one, and `WebServer` models
what the server really does.

*ChatRoom.* `fds` is `fds[1..user_counter]`; `i` is the loop's position, 0 at the
listening socket and behind the last element when `poll()` is next, and each body
of the loop is one action chosen by the first test that holds (`FirstTest`). `users`
is indexed by descriptor, and `write_buf` names the descriptor whose buffer it
points at, so a buffer filled again changes what a pending pointer sends, and
`Drop` copies a record over another as the code does. `peer` is what the kernel
knows of a client: an error that is fetched (`getsockopt`, `send`) leaves a dead
socket, and `send()` to one raises SIGPIPE, which ends the server. History: `todo`
(events of this turn not yet handled), `got` (texts sent to each client) and
`stale` (a buffer pointed at was overwritten because its owner left).

*SubprocessChat.* After `fork()` the parent becomes the handler and the child goes
on as main (`else if (pid)`), so "main" is a role: `mstage`, `mready`, `mbatch` and
`user_count` belong to whichever process has it. Main has therefore no children,
its SIGCHLD branch cannot be reached, and `user_count` never goes down. `hstage`
is where a handler is: `start` (before its handler for SIGTERM), `tested` (between
the test of `stop_child` and `epoll_wait`), `wait`, `handle`, `recv` (between
`memset` and `recv`), `stop`, `exited`. A handler inherits main's ends of all
earlier pipes, so the end of a process is seen by an earlier handler only when
every later one has ended too (`Hung`). `kill(0, SIGTERM)` also reaches main, which
reads it and signals again. `behind` names the channels in which the single
`recv()` per edge has left something no edge will announce.

*EpollOneshot.* `arg` is the one variable whose address every thread gets;
`ReadArg` reads whatever it holds by then, and the other branch of main's loop may
leave any value in that place. A socket is reported while it is armed and has
something to read. `overwritten` and `lost` are history: an argument changed before
its thread had read it, and sockets whose event reached no thread.

## Runs

| Run | Instance | Shows |
|---|---|---|
| `thread_pool` | 2 workers, 2 callers, limits 0..2, 3 pushes | `TokensMatchQueue` (no lost wakeup), `ExactlyOnce`, `QueueBound`, `EveryRequestServed` |
| `timer_list` | 3 timers, times 0..2 | `ListIntact` (pointers and order), refinement `ListImplementsQueue` |
| `timeout_server` | 2 descriptors, 2 timers, 1 s slots | `TimersMatchConnections`, `AlarmChain`, `TickExact`, `GoneClientReleased`, `TermStops` |
| `time_wheel` | 3 slots of 2 s, 3 timers, timeouts up to two turns | `SlotListsIntact`, `WheelExact`, `FiresOnTime`, refinement `ListsImplementSets` |
| `process_pool` | 2 children, 2 clients, 1 crash, pipes of 1 message | `EveryMessageHasConnection`, `NoOrphans`, `ShutdownCompletes` |
| `process_pool_release` (violation) | the same without crashes | `ReportFreesChild` fails: shadowed loop index |
| `http_conn` | 2 workers, 2 connections on one descriptor, 4 kinds of requests, a buffer of 6 pieces | `OneHolder`, `FileMappedWhileSent`, `GoneReleased` |
| `http_answer` (violation) | 1 worker, one complete request | `RequestAnswered` fails: the loop's condition is inverted |
| `web_server` (violation) | 2 descriptors | `ConnectionRegistered` fails: the wrong descriptor is registered |
| `chat_room` | room for 2 users, 3 clients on 3 descriptors, 3 texts, a buffer of 1 piece | `TableExact`, `TurnComplete`, `TextsInOrder`, `GoneDropped` |
| `subprocess_chat` | room for 2 users, 2 inputs from clients, operators and faults | `NoOwnText`, `AnnouncedTextThere`, `MessagesForwarded`, `LeaverStopsHandler`, `HandlersFollowMain`, `TermStopsHandlers` |
| `epoll_oneshot` | 2 sockets, 2 threads, 2 waiting clients | `OneReader`, `NobodyForgotten`, `ClientsServed` |

Each property of a passing run is violated by a mutant of the code's model: the
operators marked as a bug (`PostWhenFirst`, `del_timer_keeps_tail`, ...) stand
next to the definitions they replace.

Several properties name the cases in which the code does not do what one would
wish, so that everything else is still checked. What they except they do not catch:

- `ShutdownCompletes`: SIGTERM does not end the pool when a child is blocked in
  `send()` on the pipe nobody reads, or when a SIGCHLD came first and the parent
  waits for children nobody has told to stop. Because of the second case the
  system can really hang, and the run does not check for deadlock.
- `OneHolder`, `FileMappedWhileSent`: hold until a worker that closes a connection
  is overtaken by the main thread, which accepts the next one
  with the same descriptor (`late`). A connection whose request `append()` refused
  counts as held (`refused`), although nobody will look at it again.
- `EveryMessageHasConnection` bounds the messages from above. It does not say that a
  child marked as used serves anybody: `m_used_process` starts with whatever the
  heap held, a message to a dead child is lost, and `Release` frees the wrong child
  or none.
- `GoneReleased`: a client that left is not released when `append()` refused its
  request, when a worker is caught in the parser's loop, or after `late`.
- `TextsInOrder` holds until a user leaves while another's `write_buf` points at
  his buffer (`stale`); then texts may come twice or go to the one who sent them.
  Texts may be missing in any case: a pending `write_buf` is simply replaced.
- `GoneDropped` excepts the end of the server, which SIGPIPE brings about.
- The properties of `SubprocessChat` except what is `behind`, and
  `AnnouncedTextThere` the time in which a segment is cleared under its readers.
- `OneReader` holds until an argument is overwritten, `NobodyForgotten` and
  `ClientsServed` except the sockets whose event was `lost` that way or by a failed
  `pthread_create()`.

Four further defects are in the models without a run of their own. The constructor
of the thread pool initialises `m_max_requests` with itself
(`thread_pool.hpp:33`), so `QueueBound` is about whatever limit that leaves. And
`write()` starts from the first byte again after a short `writev()`
(`http_conn.cpp:404`), so that answers are torn or repeated: `Writev` does the
same, and no property says that an answer is whole. A client that leaves while its
response waits for room is closed without `unmap()` (`web_server.cpp:114`), so the
mapping is never given back. And a request that fills the read buffer exactly is read
with success, because the test at the head of `read()` is made before `recv()` only:
the parser then runs with no `'\0'` of its own behind the data (`http_conn.cpp:150`),
and no property says that it has one.

### Bounds

Two actors of each kind are enough for every race between two of them; the third
timer gives lists with an element in the middle; the timeouts of the wheel
include 0, both sides of one turn and more than two turns (`Timeouts`). Queues
and pipes are small so that they are full (`QueueBound`, `PipeCap`). The read
buffer of 6 pieces is shorter than the longest request, exactly filled by prefixes
of it (what `ReadSucceeds` is about), and longer than the others. A header of 3
units is the shortest for which `write()` goes on after a short `writev()`.
`MaxCalls`, `MaxTime`, `MaxData`,
`MaxBacklog`, `MaxCrashes`, `Talkers` and `MaxConns` only limit how often the
environment acts, and so do `MaxSends`, `MaxInputs` and `MaxWaiting` in the three
last modules. In the chat rooms `USER_LIMIT` is 2: two users are what an exchange
needs, the last one moves to the place of the first, a third client is refused, and
in `ChatRoom` a third descriptor lets one be used again while another is open. A
buffer of one piece makes `recv()` take a message in two parts. In `SubprocessChat`
one client waits at a time, so several connections in one edge of the listening
socket, of which `accept()` takes one, do not occur; `epoll_oneshot` has two and
says nothing about those who wait. Its `Threads` are those that can run at one
time: with both in use `CreateFails` is the only way on, which is the limit of
threads.

`thread_pool`, `timer_list`, `timeout_server` and `time_wheel` check for deadlock. The
others do not: when the bounded number
of clients is used up the server waits for ever.

### Fairness

Weak fairness says that a thread or process that can go on does: the scheduler
gives that. In the thread pool `Lock` has strong fairness: the mutex is released
again and again and a thread that waits for it gets it in the end. Clients,
signals and crashes have no fairness. In `TimeoutServer` the clock goes on, since
the release of connections rests on the alarm. In the three last modules each
process or thread has weak fairness of its own; `poll()` and `epoll_wait()` are not
assumed to fail, and clients, operators and the loss of main owe nothing.

## Proofs

`ThreadPoolProofs`, for any finite sets of workers and callers and any limit:

- `BaseInv` is the inductive invariant: types, `LockInv` (the mutex names the one
  thread between lock and unlock), `PopInv` (a worker about to pop holds the head
  of a queue that is not empty) and `PushInv` (a caller about to push has seen
  a queue within the limit). `TypeOK` alone is not inductive: `Pop` takes the
  `Tail` of the queue, which needs `PopInv`, which needs mutual exclusion.
- `TypeCorrect`, `Exclusion`, `Bounded` follow; `NoLostWakeup` adds the balance
  between queue, semaphore and threads on their way, by the cardinalities of the
  sets of takers and posters; `ServedOnce` follows each request through queue and
  hands.

`TimeWheelProofs`, for every N, SI and timeout and any finite set of timers:

- The wheel of sets: `left = rotation * N + slots ahead + 1` is inductive together
  with the types. `SlotEncodesOffset` proves it for `add_timer()` (from division
  with remainder), `HandMoves` for a tick that moves the hand; from that a timer is
  due exactly when one tick is left (`DueIsOneLeft`).
- The wheel of lists: `ListsInv` says that for every slot there is a sequence of its
  timers whose neighbours the pointers link (`Holds`). `SlotListsIntact` alone is no
  induction hypothesis: it speaks of what the pointers reach, and to unlink a timer
  one must know where in the list it is. `FrontHolds` and `UnlinkFacts` say what
  `add_timer()` and the unlinking lines do to the sequence, `FrameHolds` that the
  other slots do not notice.
- `Turned` is the invariant of the loop in `tick()`: what has fired, what has lost a
  rotation, and that the part of the list still ahead is as it was, though timers
  behind have been unlinked. `TurnStep` takes it one timer further.
- `TypeCorrect`, `ListsStayIntact` and `ListsRefineSets` follow, and by the
  refinement `EncodingExact` and `FiringExact` for the lists.

`TimerProofs`, for any finite sets of timers and connections:

- The list: `Listed` says again that there is a sequence of the timers, here in order
  of expiry, that head, tail, next and prev link. There is a lemma for each method:
  `AddListed`, `AdjustListed`, `DelListed`, `TickListed`; `StepsFacts` finds where
  their loops end.
- The server: `IInv` consists of `TypeOK`, `Matched` (one timer for each open
  connection, in the list, and its time left and the idle time of the connection add
  up to the lifetime), `Waiting` (what is in the batch can be handled) and `Chain`
  (alarm, pipe and flag). `TimersMatchConnections` needs `Waiting`, or an event of a
  closed connection would touch its deleted timer; `TickExact` needs the sum in
  `Matched`. `ListMatchesConnections`, `AlarmNeverLost` and `TickClosesIdle` follow.
- Any program: `ListInv` says that the list is `Listed` with the allocated timers,
  which the four lemmas on the methods keep. `ListStaysIntact` and `ListRefinesQueue`
  follow, for any bound `MaxTime`. The two specifications share the operators of
  `SortTimerLst` and no variable, which is why those of `TimerList` have names of
  their own (`ListSpec`, `list`, `allocated`, ...).

`ProcessPoolProofs`, for any number of children, clients and crashes and any size of
the pipes:

- `IInv` adds to `TypeOK` and `EveryMessageHasConnection`: `MessageThere` (a child
  about to read its pipe finds a message, so `p2c` stays a natural number), `Once`
  (news of the listening socket is at one place of `ready` and of `batch`, so one
  connection is not given away twice), `Unjoined` (`m_pid` is what the parent has not
  waited for). The count of messages and connections is done with cardinalities.
- `TypeCorrect`, `AcceptFindsConnection` and `ParentEndsLast` follow.

`HttpConnProofs`, for any finite set of workers, any size of the read buffer, any
requests and any length of header and file:

- The operators of `HttpParser` keep the parser's record within its type: no index
  goes beyond what was read (`TypeCorrect`).
- `Held` says in whose one hand an open connection is (epoll set, main thread, queue,
  a worker, or dropped by a refused `append()`) and that a closed one is in nobody's;
  `OneHolder` alone does not say that the descriptor handed over is open.
  `FileMappedWhileSent` rests on it: only the holder of the connection touches what
  it speaks of. That nothing is sent of a file that could not be mapped rests on the
  EFAULT of `writev()`.
- `ConnectionHasOneHolder` and `FileStaysMapped` follow.

`ChatRoomProofs`, for any number of users, descriptors, clients and messages and any
size of the buffers:

- `TableInv`: no descriptor is twice in `fds`, the table is the open connections, and
  what is still to be handled is at or behind the loop's position (`Ahead`), which is
  what the moved last element could break. `TableStaysExact` and
  `EveryEventHandled` follow.
- `TextInv`: every text in a buffer or sent to a client is older than what its sender
  has not been read (`BufOK`, `GotOK`), and the buffer a `write_buf` points at is
  another user's and newer than what was sent (`Pointed`). `MessagesInOrder` follows.

`SubprocessChatProofs`, for any number of users and inputs:

- `IInv`: `TypeOK`, `Flow` (indices in the pipes and texts unread are no more than
  the inputs), `Counted` (the users main counts are those that ever had a handler),
  `Others` (main's pipe to a handler never holds the handler's own number) and
  `AnnouncedTextThere`. `OwnTextNeverBack` and `TextThereWhenAnnounced` follow.

`EpollOneshotProofs`, for any sets of sockets and threads:

- `IInv` is the inductive invariant: `TypeOK`, `ClientWaits` (main handles the
  listening socket only when a client waits, so `backlog` stays a natural number),
  `NobodyForgotten`, and, as long as nothing was overwritten, `HandOver`: what main
  has in its batch is open and not armed, a thread that has not read `arg` yet will
  find its own socket there, no two threads have the same socket, and a socket in a
  thread's hands is open, not armed and not in the batch. `OneReader` alone is not inductive: it
  says neither that `ReadArg` leaves a thread with the socket it was meant for, nor
  that the socket main hands to a new thread is disarmed.
- `TypeCorrect`, `OneReaderPerSocket` and `NoSocketForgotten` follow from it.

The assumptions are only those on constants, stated in the modules that declare
them and evaluated by TLC in every run: finite sets of actors and of addresses
(`PoolAssumption` of `ThreadPool` and of `ProcessPool`, `OneshotAssumption`,
`HttpAssumption`, `ListAssumption`, `SlotAssumption`), sizes and bounds that are natural
numbers, positive where the program's are (`WheelAssumption`, `ChatAssumption`,
`SubprocessAssumption`, `TimeAssumption`), an address for the timer of every connection (`ServerAssumption`) and more descriptors
than users (`ChatAssumption`), as in the programs.

How loops and chains of pointers are proved about: a recursive function is fixed by
giving a function that satisfies its equation (`PathFacts`, `WalkFacts`) or by
building one turn by turn (`TurnsExist`), and facts about all its values by taking
the least one that would fail (`LeastOf`, `UpTo`). This needs no rule of induction
with an operator as its parameter.

Only model-checked: all liveness properties (`EveryRequestServed`,
`GoneClientReleased`, `TermStops`, `ShutdownCompletes`, `GoneReleased`, `GoneDropped`,
`MessagesForwarded`, `LeaverStopsHandler`, `HandlersFollowMain`,
`TermStopsHandlers`, `ClientsServed`): they need fairness, which is out of the
prover's reach. The three violations are counterexamples of TLC.

## Not modelled

- `cond` (no user in the repository), the destructors of the timer containers (they
  run at exit), printing, addresses and ports.
- The start of the process pool: `ProcessPool` begins when every process has been
  through `setup_sig_pipe()`. Between `fork()` (`process_pool.hpp:143`) and that call
  a signal has its default effect: a SIGTERM would kill the parent and leave its
  children behind, and the SIGCHLD of a child that dies would be lost. `NoOrphans`
  and `ShutdownCompletes` say nothing of that window. A child that is killed in it
  without the parent is like one that crashes later.
- An `accept()` that fails for want of descriptors, in `ProcessPool`; for want of a
  connection none does (`EveryMessageHasConnection`).
- A file that is truncated while it is mapped, in `HttpConn`.
- The bytes behind a full read buffer, in `HttpParser`: there the string functions
  read on into `m_read_idx`, whose first byte is zero in the build (2048, little
  endian), so what they find is as modelled.
- `arg.epollfd` in `EpollOneshot`, which always has the same value.
- `m_user_count` in `HttpConn`, which is only compared with 65536.
- The buffer of `echo_conn`: `m_read_idx` grows with every message while `recv()`
  writes at the start of the buffer (`echo_processpool_server.cpp:67`, `:84`). What
  is echoed is no part of any property here.
- `time_heap.h` does not compile (it names members that do not exist), so it has no
  behaviour.
- `LT_ET_in_epoll.c`: one thread that prints what it reads; its sockets are
  blocking, so `et()` stays in `recv()` of the first client. `chatroom_client.c`
  copies between terminal and socket. The socket demonstrations keep no state.
- A wall clock that is set back: the list relies on times that grow.
- The SIGCHLD branch of `subprocess_chat_room.cpp`, which cannot be reached.

## Plan

Done: all components with state of their own, and the proofs above.

Next, in this order:

1. The safety half of the liveness arguments, as invariants for any size: that a
   process which has something to do is awake or will be woken (no descriptor with
   unread data outside `ready`, `batch` and the named leftovers) in `TimeoutServer`,
   `ProcessPool` and `SubprocessChat`.
2. The list lemmas that `TimerProofs` and `TimeWheelProofs` have in common, in one
   place.
