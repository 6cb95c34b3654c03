# A TLA+ specification of Linux-Cpp-FileServer

The program is a C++ HTTP file server in the style of muduo: one main event loop
accepts connections, a pool of sub loops serves them, and an asynchronous logger
writes to a file. This directory holds TLA+ modules for its core, TLC
configurations that check them on small instances, and proofs for TLAPS of what
matters most about the event loop, the life of a connection, its output and the byte
buffer, the timers, the logger, the file server and the thread pool.

Source paths are relative to `src/`.

```
tlc  -workers 2 -config EventLoop.cfg MCEventLoop.tla     # one run (table below)
tlapm EventLoopProofs.tla                                 # one proof module
```

## 1. The system

### Components

| component | source | state | operations | what makes it correct |
|---|---|---|---|---|
| Event loop | `tcp/EventLoop`, `tcp/Epoller`, `tcp/Channel` | `to_do_list_` (mutex), `calling_functors_`, an eventfd, the list of active channels | `Loop`, `Poll`, `HandleRead`, `RunOneFunc`, `QueueOneFunc`, `DoToDoList` | work queued from another thread is never slept on; each functor runs once, in order; the assertion in `HandleRead` holds; functors do not starve I/O |
| Connections | `tcp/TcpServer`, `tcp/Acceptor`, `tcp/TcpConnection`, `tcp/EventLoopThreadPool` | `connectionsMap_`, `state_`, the descriptor, `loop_`, the channel's registration, shared pointers in functors | accept, `ConnectionEstablished`, `HandleMessage`, `HandleClose`, `HandleCloseInLoop`, `ConnectionDestructor`, `~TcpConnection`, `GetNextLoop` | no freed channel is reachable from epoll or an active list; closing finds its own entry although descriptors are reused; a descriptor is closed after it left epoll; a closed connection is released |
| HTTP parser | `http/HttpContext`, `http/HttpRequest` | `buffer_`, `complete_headers_`, `complete_request_`, `content_length_`, the request | `ParseRequest`, `ParseChunkedBody`, `Reset` | the requests found do not depend on how the stream is cut |
| HTTP server | `http/HttpServer`, `http/HttpResponse`, and reading and writing in `tcp/TcpConnection` | the context, `send_buf_`, interest in EPOLLOUT | `onMessage`, `onRequest`, `Send`, `HandleWrite`, `HandleActiveClose` | each request is answered; answers arrive whole and in order; output never gets stuck and does not keep the loop busy |
| Byte buffer | `utils/Buffer` | a vector and two indices | `Append`, `EnsureWritableBytes`, `Retrieve`, `RetrieveAll` | it is a queue of bytes |
| Timer queue | `utils/TimerQueue`, `utils/Timer`, `utils/TimerStamp` | the set of entries, `active_timers_`, a timerfd | `AddTimer`, `HandleRead`, `ResetTimers`, `ResetTimerFd` | the timerfd is armed in time for the first timer; every timer runs; no deleted timer is used |
| Asynchronous logger | `utils/AsyncLogger`, `utils/LogFile`, `utils/Logger` | `buffer_`, `buffers_`, the backend's `active_buffers`, `running_`, the file | `Append`, `Flush`, `ThreadFunc`, `Stop`; `~Logger` of a FATAL line | no line is lost or written out of order; everything is written in the end and when the logger stops |
| Thread pool start-up | `tcp/EventLoopThread(Pool)` | `loops_`, `next_`, the loop pointer a new thread publishes, its mutex and condition variable | `SetThreadNum`, `Start`, `StartLoop`, `ThreadFunc`, `GetNextLoop` | the pool holds only loops that exist; start-up does not hang; connections are shared evenly |
| File server, file handler | `http/FileServer`, `utils/FileHandler` | files on disk, shared by all loops without a lock | `AnalyzeRequest` and the handlers of download, range, upload, delete and list | a stored file is what was uploaded and stays so; what is sent is whole |
| Log formatting | `utils/LogStream`, `utils/Logger` | a fixed buffer, a cached time per thread, the log level | `Logger`, `<<`, `append`, `formatInteger`, `Finish` | no line runs over its buffer; a line that fits is whole, with its own second's text and its numbers |
| Thread identity | `utils/CurrentThread` | a cached thread id | `tid` | |
| Programs and tests | `http_server.cpp`, `echo_server.cpp`, `client.cpp`, `test_*.cpp` | | wiring | |

### How they interact

The main loop and every sub loop is one thread running `EventLoop::Loop`:
`epoll_wait`, then the handlers of the active channels, then the functors that
other threads queued. The only locks are those of `to_do_list_` and of the
logger; everything else relies on being touched by one loop's thread. The
exceptions are what is interesting:

* The main loop constructs a connection for a sub loop, registers it there and
  runs its callback (`TcpServer::HandleNewConnection`), so the sub loop may get
  its first event before the main loop has finished.
* Closing goes from the sub loop to the main loop (`HandleCloseInLoop`, which
  erases the entry of `connectionsMap_`) and back (`ConnectionDestructor`, which
  removes the channel from epoll). The object stays alive because its
  `shared_ptr` is bound in the functors; the last one to go closes the
  descriptor, and the kernel may give the same number to the next connection.
* Handlers of HTTP requests run on the sub loops and share the file system:
  `FileServer` takes no lock, so everything between two of its system calls may be
  another loop's. An exception in a handler is caught nowhere and ends the process.
* The connection callback arms an idle timer with a `weak_ptr`; the timer
  closes the connection or arms itself again.

### What is hard

The order of the two threads' steps in queueing and waking up; the snapshot of
active channels, which is stale as soon as the first handler runs; reuse of
descriptors; events that epoll reports until their handler did what they wait for,
which may be a functor of a later moment; requests and answers cut at arbitrary places; a timerfd that stands for many timers; buffers
that change hands between threads; what is still unwritten when a connection
closes, the logger stops or the process aborts; files that other loops create, fill
and read between an `Exists` and an `open`; a process that dies during an upload. `PROJECT.json` lists the hazards
line by line with the properties that cover them.

## 2. Modules

| module | models | for TLC | proofs |
|---|---|---|---|
| `TaskQueue` | what callers rely on from the loop: a FIFO of functors, each run once | through `EventLoop` | |
| `EventLoop` | one loop: queueing, eventfd, poll, dispatch, `DoToDoList` | `MCEventLoop` | `EventLoopProofs` |
| `ConnectionLife` | what the server promises of a connection: five phases, each once and in order, and a descriptor of its own | through `TcpServer` | |
| `TcpServer` | all loops together: accept, establish, close, erase, deregister, release | `MCTcpServer` | `TcpServerProofs` |
| `HttpContext` | the parser, as operators on a context | through `HttpConnection` | `HttpConnectionProofs` |
| `Buffer` | the byte buffer, as operators on a buffer | through `HttpConnection` | `HttpConnectionProofs` |
| `HttpConnection` | a connection on its loop: kernel buffers, reported events, parsing, answering, writing | `MCHttpConnection` | `HttpConnectionProofs` |
| `TimerQueue` | the timers of one loop | itself | `TimerQueueProofs` |
| `AsyncLogger` | frontend, backend and file of the logger | itself | `AsyncLoggerProofs` |
| `ThreadPool` | the main thread that starts the sub loops' threads and waits for each | itself | `ThreadPoolProofs` |
| `FileServer` | the handlers of several loops over one disk, with restarts of the process | `MCFileServer` | `FileServerProofs` |
| `LogStream` | one thread that writes log lines piece by piece | itself | `LogStreamProofs` |

The composition is by what each module leaves to another. `TcpServer` takes
from `EventLoop` that a loop with queued functors does not sleep
(`NoLostWakeup`) and runs each once (`ImplementsTaskQueue`); it has functor
lists as sets, because the functors of one list concern different connections
and commute. It takes from `TimerQueue` only that timers become due at any time.
It begins where `ThreadPool` ends: with a pool of built loops, none when
`thread_nums_` is 0, and a `next_` that indexes it. `HttpConnection` extends
`HttpContext` and `Buffer`, leaves what happens after `HandleClose` to `TcpServer`,
and has for an answer any message: what `FileServer` puts into it is that module's.
`LogStream` makes the lines that `AsyncLogger` has as numbers.

`EventLoop` implements `TaskQueue` and `TcpServer` implements `ConnectionLife`
(`ImplementsTaskQueue`, `ImplementsConnectionLife`). The latter's mapping reads the
phase off a connection: `deregistered` when it is disconnected and out of epoll,
`released` when nothing refers to it any more. The destructor's `close` happens
there, so that a connection released before it is deregistered, or a descriptor
given out while it is held, is no step of `ConnectionLife`.

### State and actions against the code

Variables keep the names of the members they stand for; those without an
underscore are the kernel's state, locals of a running handler, or a program
counter. An action is one stretch of a handler that no other thread can see the
inside of: `QueueOneFunc` has two (the push under the mutex, the write to the
eventfd), `DoToDoList` four (the flag, the swap, each functor, the flag again),
`HandleNewConnection` three (registration and map, `EnableRead`, the callback).

* **EventLoop.** `pc` walks through `Loop` (`poll`, `handle`, `io`, `swap`,
  `run`, `func`). Handlers of other channels and functors are modelled by what
  they may do to the loop: call `QueueOneFunc`. `eventfd` is the kernel's counter.
* **TcpServer.** A `Conn` is one `TcpConnection` object. `Live(c)` is its
  reference count being positive: the map, the accepting frame, functors queued,
  swapped out (`functors`) or run but not yet destroyed with their vector
  (`spent`). A destroyed connection's descriptor is in `FreeFd` again. `AcceptFails` is `accept4` returning -1.
  Connections are level-triggered, in this module and in `HttpConnection`: the comments
  at `TcpConnection.cpp:31` and `Channel.h:21` say edge-triggered, but `EnableET` sets
  `EPOLLET` (bit 31) in `listen_events_`, a `short` (`Channel.h:42`, `Channel.cpp:66`),
  where it is lost before `Epoller.cpp:42` registers the mask. The constructor's
  `EnableET` therefore registers an empty mask, and from `EnableRead` on every
  `epoll_wait` returns what is still to be read, an end of file included until
  `ConnectionDestructor` (`Ready`, `Listening`; `Reported` in `HttpConnection`). Left out
  is EPOLLHUP of a connection reset before `EnableRead`, which epoll reports unasked.
* **HttpContext.** The stream is a sequence of tokens: the header block of a
  request, the blank line, body bytes, chunk sizes, line ends. This is what the
  parser looks for, so a cut between any two tokens reaches every branch of
  `ParseRequest`; a cut inside a line is like the line not having come.
* **HttpConnection.** `wire`, `rcvbuf`, `sndbuf` and `received` are the network
  and the kernel. `OnMessage` is the whole of `onMessage`: one `ParseRequest` per
  read, then nothing, `onRequest`, or a 400. The answer to the i-th request is
  `ResponseSize` units `<<i, 1>>`, `<<i, 2>>`, ..., a 400 is the unit `<<0, 1>>`, so
  that a lost, repeated or moved unit shows.
* **TimerQueue.** An expiry is the number of ticks that remain, so time needs no
  bound. One tick is 100 microseconds, the shortest time `ResetTimerFd` arms.
* **AsyncLogger.** A line is its number in the order of `Append`, a buffer the
  sequence of its lines. `flushed` is how much of the current file has left stdio's
  buffer; `rolled` is what the files before it hold. `Append` does not ask for
  `running_`, so threads may log on after `Stop`, while the backend finishes its
  round and after it has ended; only while it drains the buffers, which it does
  without the mutex (`AsyncLogger.cpp:122-130`), is an `Append` left out
  (`BuffersAreLocked`), as a data race. `stopped` is a history variable: how many
  lines came before `Stop`.
* **ThreadPool.** `pc` is the main thread in `StartLoop`, `tpc` each thread in
  `ThreadFunc`. A wait gives the mutex up and enters the wait set in one step,
  a notification empties the set, and `WakeSpuriously` empties it without one.
  `given` counts what `GetNextLoop` returned.
* **FileServer.** `pc[l]` is the next system call of loop l's handler. A path
  is a directory and a name, because `HandleDelete` looks into one directory and
  removes from another. Writing is in pieces of any size at the
  writer's own position; reading is one step, since no property speaks of a file
  that is being written meanwhile. `Terminate` is an exception that nobody
  catches, `Crash` any other end of the process; `Restart` finds the disk as it was.
  `settledAtOpen` and `raced` are history variables: they say for which
  requests a property is claimed, and no step of the server depends on them.
* **LogStream.** Characters are numbers, pieces what one `operator<<` gets. `said`
  is the list of pieces a line was to have; `Numeral` is what the text of a number
  should be, defined by its value and not by division. `second` is the clock of
  `TimerStamp::Now`, CLOCK_MONOTONIC, whose seconds `FormatTime` hands to `localtime_r`
  (`TimerStamp.h:40`, `Logger.cpp:31-40`): the text looks like a date and is not the
  calendar's. That a line has the text of its own second is what is checked, and the
  first second after the machine was started, for which no text is made, is left out.

## 3. Runs

| run | instance | shows |
|---|---|---|
| `EventLoop` | 2 other threads, 3 functors, eventfd counted to `MaxWake` = 3 | `NoLostWakeup`, `WakeupReadSucceeds`, `IoNotStarved`, and that the loop implements `TaskQueue` |
| `TcpServer` | 2 connections over 2 descriptors; 0 and 1 sub loop | `NoDanglingChannel`, `CloseFindsItsConnection`, `MapIsExact`, that the server implements `ConnectionLife`, `PeerCloseReleases`, `CloseReleases` |
| `ThreadPool` | 0 to 4 sub loops, at most 3 connections for each | `LoopsAreBuilt`, `BalancedLoops`, `PoolStarts` |
| `HttpConnection` | 2 requests out of 6 kinds, every cut, waiting and pipelining clients, answers of 3 units through a kernel buffer of 1 | `RequestsAreWhole`, `AnswersInOrder`, `OutputIsWatched`, `LoopRests`, `EveryRequestAnswered`, `AnswersArrive` |
| `TimerQueue` | 3 timers, one-shot and repeating, 0 to 2 ticks | `NoDanglingEntry`, `ArmedInTime`, `EveryTimerRuns`, `HandleReadReturns` |
| `AsyncLogger` | 7 lines, buffers of 2, files exchanged above 2 lines, lines appended before and after `Stop` | `NoLineLost`, `WrittenInOrder`, `StopFlushesAll`, `EventuallyWritten`, `StopReturns` |
| `FileServer` | 2 loops, 1 name in two directories, uploads of 0 to 2 bytes, ranges inside, beyond, empty, upside down and unreadable, 2 starts of the process | `SettledIsNeverOverwritten`, `UploadIsStored`, `DownloadIsWhole` |
| `LogStream` | lines of up to 3 pieces beside the fixed ones, numbers of 1 to 3 digits, a buffer of 19 that must keep 4 for a number | no overflow (`TypeOK`), `ShortLinesAreWhole` |

### Why the bounds are enough

* *EventLoop.* Two threads race each other and the loop; three functors let one
  be running, one swapped out and one queued. Of the counter only
  zero or not matters and a read resets it, so counting no further than 3 changes
  no other step; no step is disabled by the bound.
* *TcpServer.* Two connections and two descriptors are the least in which one
  descriptor is reused while the other connection is alive or in the middle of
  its own close. A connection's path crosses two threads at most, its own loop's
  and the main one, which are the same without sub loops: so no sub loop and one
  are the two cases. What more of them add, closes on several loops at once, is
  covered by the proofs, which hold for all pools (section 4).
* *HttpConnection.* Two requests are the least that can be mixed up, or leave
  something behind in the context. The request kinds cover each branch of
  `ParseBody`, a malformed header block and a `Content-Length` that is no number.
  A room of one unit for an answer of three makes every write a short one, and
  with `kPrePendIndex` = 1 the buffer grows and compacts (8 in the code: the
  arithmetic is the same). Bodies are of 2 bytes, and of 3 in chunks of 2 and 1,
  the least that a cut can go through.
* *TimerQueue.* Three timers: one running, one due in the same pass, one added by
  the callback. Two ticks tell "due", "in the minimum" and "later" apart.
  Objects are allocated again after they were deleted, so there is no bound on how
  many timers there ever are.
* *AsyncLogger.* With buffers of two, seven lines fill three buffers and start a
  fourth, more than the two the backend recycles; the file is exchanged more than once.
* *ThreadPool.* Threads are started one after the other; four go round twice with
  different neighbours. The proofs are for any number.
* *FileServer.* Two loops race each other on one name, which is all a file knows
  of other loops; a third would be a second upload in a race that is
  already marked (`raced`). Two bytes are the least that a write can be
  interrupted in, two starts the least with a restart.
* *LogStream.* Three pieces fill the buffer so that each of the last ones, the
  line number and the newline too, is the one that does not fit; `NumSize` 4 for
  at most three digits stands for 48 and at most twenty.

A run with `CHECK_DEADLOCK FALSE` models a system that may stop: its peers are
silent for ever, the process was aborted, or all bounded inputs are used up.

### Fairness

* *Threads.* Every loop and the logger's backend gets to run when it is not
  blocked (weak fairness of its steps): the scheduler is fair, and nothing in the
  code holds a lock while it waits. Callbacks and functors return.
* *`epoll_wait`* returns when something is ready for the loop; it may stay for
  ever otherwise. Nothing is assumed of EINTR.
* *`HttpConnection`*: the network delivers what is under way, and the peer reads
  its answers. What the peer sends, whether it ends, the idle timer and the
  release are unconstrained.
* *`TimerQueue`*: time goes on, and the loop comes back to `epoll_wait`, which is
  `IoNotStarved` of `EventLoop`.
* *`AsyncLogger`*: the timed wait ends by its timeout.
* *`ThreadPool`*: weak fairness of the main thread and of every thread, and strong
  fairness of `Publish`, which takes a mutex: the main thread may wake without a
  notification and take it again and again, and a mutex that is free infinitely
  often is got at last. Without spurious wakeups weak fairness would do.
* `FileServer` and `LogStream` claim nothing that needs fairness.

### Disagreements between the code and what it says

These runs end in a counterexample; each property is a statement the repository
makes about the program.

| run | property | the code |
|---|---|---|
| `HttpConnection_flag` | `RequestsAreWhole` | `complete_headers_` is not initialised by the constructor; in recycled memory it may be true, and the first read is taken for the body of an empty request |
| `HttpConnection_body` | `RequestsAreWhole` | with `Connection: close` or HTTP/1.0 the body is what came with the headers, whatever `Content-Length` says (`HttpContext.cpp:92-94`); later segments are lost |
| `HttpConnection_close` | `WrittenBeforeClosed`: the comment at `TcpConnection.cpp:190` | `HandleClose` directly after `Send` does not wait for `send_buf_`; an answer larger than the kernel's buffer is cut off |
| `AsyncLogger_swap` | `ActiveBuffersEmptyAtSwap`: the comment at `AsyncLogger.cpp:56` | when the backend takes three buffers or more, written ones stay in its list, are swapped back into `buffers_` and written again |

The passing run of `HttpConnection` therefore fixes the flag to FALSE
(`HeapFlag`) and has no request with a body that asks to close, and that of
`AsyncLogger` states `WrittenInOrder` of the first copies of lines.

More are visible in the models without a run of their own:

* `LearningNote.md:447` says that the connection callback runs on the sub thread;
  `OnConnect` of `TcpServer` runs on the main one, as in `TcpServer.cpp:63`, and so
  `RunAfter` of `HttpServer.cpp:50` changes another loop's timer set without a lock.
* A failed `accept4` is printed and passed on as -1, and the assertion of
  `TcpServer.cpp:45` ends the process with all its connections (`AcceptFails`).
* `Logger.cpp:79` says that a flush outputs at once. The FATAL line is in the
  asynchronous buffer when `AsyncLogger::Flush` flushes the FILE and the process
  aborts (`FatalFlushAndAbort`).
* `onMessage` parses once per read, so the second of two pipelined requests in
  one segment waits for more input: `EveryRequestAnswered` is about clients that
  wait for their answers, which is all the source speaks of.
* Ranges: `readme.md:33` and `LearningNote.md:530` say that range requests and resumed
  downloads are supported. Every answer to one announces end - start + 1 bytes
  (`FileServer.cpp:75`) and carries end - start (`FileHandler.cpp:157`), so a client that
  goes by Content-Length waits for a byte that never comes; past the end of the file it gets
  zeros. `ReadRange` has both lengths as they are, and no property is stated of a range.
* `FileServer`: a download of a file that is not there ends the process
  (`OpenForRead`), as do the ranges `bytes=5-` and `bytes=-5`, which `readme.md:33`
  would have supported (`CheckDownload`). `DELETE` removes the name from the process's
  directory, not from `root_path_`, and is answered with status 1 (`DeleteFile`).
  Neither an upload's answer nor a delete's has a Content-Length. Two uploads of one
  name that pass `Exists` together are both answered 201, and the file may be a
  mixture (`raced`); an upload that is cut off leaves a file that blocks the next.
* `LogStream.h:107-114` writes a negative number with characters below '0' and
  without its sign (`RemainingDigits`). A line that is too long loses whole pieces,
  its newline among them (`append`).

## 4. Proofs

For all values of the constants, under the assumptions named in the modules
(for `EventLoop`: `None` is not a functor and `MaxWake` is not 0; for `TcpServer`,
`LoopAssumption`: the main loop is a loop and the pools are sequences of sub
loops; `ConnAssumption`: `None` is no connection, descriptor or loop, and connections
are not the two other channels; for `TimerQueue`: `None` is no timer and delays are
bounded by some number; for `AsyncLogger`: a buffer holds a line; for `FileServer`: the
names are finitely many, a body is a sequence of bytes, and a range that `std::stoi` can
read has a start that is not negative; for `HttpConnection`: an answer has a unit and the
kernel's buffer room for one; for `Buffer`: nothing but that `kPrePendIndex` is a number;
for `LogStream`: `NumSize` is more than the digits of any integer, as `kMaxNumSize` is).
One theorem, `ParsingIsIncremental` of `HttpConnectionProofs`, has hypotheses on the constants besides; see there.

**EventLoopProofs**

* `TypeCorrect`: `Spec => []TypeOK`.
* `NoWakeupIsLost`, `WakeupReadIsSafe`: `NoLostWakeup` and `WakeupReadSucceeds`.
  Neither is inductive. The invariant has three parts: `PhaseInv` says which part
  of the state each place of the loop allows (the flag is up exactly from
  `EnterDoToDoList` to `LeaveDoToDoList`; swapped-out functors exist only in
  between; no channel is active at `poll`); `WakeupReadSucceeds` itself; and
  `WakeupPending`, which extends `NoLostWakeup` to the time a batch
  runs: what is queued after the swap is announced (the eventfd is readable, or a
  thread is about to write it) before the loop is back at `poll`. The flag is why `Announced`
  may skip the write on the loop's own thread, and the proof of `QueueInLoop` is
  where that is used.
* `LoopImplementsQueue`: the initial state maps to the initial state of
  `TaskQueue` and every step to a step of it or a stutter, with `pending` as what
  is swapped out followed by what is queued. The fairness of `TaskQueue` (what is
  queued starts, what started finishes) is checked by TLC only.

**TcpServerProofs**

* `TypeCorrect`, from `TypeInv` (the callback's place needs its connection).
* `ChannelsAreSafe`, `CloseIsExact`, `MapHoldsOpenConnections`, `ReleaseIsClean`:
  `NoDanglingChannel`, `CloseFindsItsConnection`, `MapIsExact` and the action
  property `ReleasedIsDeregistered`. The invariant says that each connection is in
  one of five phases: `Unborn`, `Open`, `Closing` (disconnected, in the map,
  `HandleCloseInLoop` queued exactly once on the main loop), `Leaving` (out of the
  map, still in epoll, `ConnectionDestructor` queued exactly once on its own loop)
  and `Gone`. With that go `MapInv` (the map's keys are its connections'
  descriptors, so a reused descriptor never leads to a foreign entry), `ReportInv`
  (epoll reports only registered, started connections, each to its own loop) and
  `PlaceInv` (what each place of a thread allows). There is one lemma for each
  group of actions, and the properties follow from the phase of the connection
  concerned.
* `ServerImplementsLife` (`Spec => ImplementsConnectionLife`): under the invariant
  every step of the server is a step of `ConnectionLife` or a stutter. The phases
  `Open`, `Closing`, `Leaving` and `Gone` give the phase a connection is mapped to;
  the lemma `PhaseFollows` says which facts of the server's state decide it.
* `DescriptorsAreSafe`: from the refinement, two connections that hold a
  descriptor at the same time hold different ones.

**ThreadPoolProofs**

* `TypeCorrect`, `OnlyBuiltLoops` and `ConnectionsAreShared` (`TypeOK`,
  `LoopsAreBuilt`, `BalancedLoops`), for any number of threads. `LoopsAreBuilt` needs
  that a published pointer is the thread's own (`PublishedAreBuilt`), that a thread whose
  turn has not come does nothing (`NotStarted`) and that the pointer is not null when it is
  taken (`StartsInOrder`). `BalancedLoops` is not inductive: `RoundRobin` says
  exactly which loops have one connection more, those before `next_`.

**TimerQueueProofs**

* `TypeCorrect`, `EntriesAreLive` (`NoDanglingEntry`, which is inductive once types are
  known) and `TimerfdIsInTime` (`ArmedInTime`). The last is proved as `WatchInv`, which
  says of every entry what `ArmedInTime` says of the first: the minimum is hard to carry
  through a step, and a bound on each entry is not (`WatchIsArmed` shows that they are the
  same). The three steps that matter: `AddTimer` arms for a new first entry and may
  leave the timerfd alone for any other, `ResetTimers` arms for what is first after the
  pass, and `Tick` takes the same from the timerfd and from every entry.

**AsyncLoggerProofs**

* `TypeCorrect`, `NoLineIsLost`, `FilesAreInOrder` and `StopFlushes` (`NoLineLost`,
  `WrittenInOrder`, `StopFlushesAll`), for buffers, files and lines of any number. Along
  files, the backend's list, the full buffers and the current one a line comes after all
  the lines before it (`InOrder`), which only the places a line has yet to go through can
  keep: so `WrittenInOrder` needs the order of everything that is unwritten.
  `RestIsStale` is what makes the code right although it swaps written buffers back into
  `buffers_`: whatever the backend leaves in its list is in the files already, so that
  writing it again loses nothing and puts nothing before its turn. `EndsWritten` keeps
  what the end of the backend achieved true while others go on appending.

**FileServerProofs**

* `TypeCorrect`, `SettledIsKept` (the action property `SettledIsNeverOverwritten`),
  `UploadsAreStored` and `DownloadsAreWhole` (`UploadIsStored`,
  `DownloadIsWhole`), for any number of loops, names and
  bytes and with restarts at any time. The invariant has for each loop what its place
  says of its request and its answer (`PlaceOK`, `AnswerOK`) and of the file it works on:
  an upload no other raced for is `Alone` and the file is the bytes of its body up to its
  position (`UploadOK`); a download of a settled file finds it settled until it is
  answered (`DownloadOK`). That a writer never meets a settled file rests on
  `CheckUpload`: whoever is writing saw that the name was free, and a second one that saw
  it too has marked it `raced`.
* The attempt changed the model: `WriteAt` was a CASE whose arms overlapped, so that its
  value was the prover's and TLC's to choose; it now says which bytes win.

**HttpConnectionProofs** (`Buffer`, `HttpContext` and `HttpConnection`)

* `NewBufferIsEmpty`, `AppendIsAtTheEnd`, `RetrieveIsFromTheFront`: a `Buffer` is a queue
  of bytes. `Append` adds at the end whether the bytes fit, the readable ones
  move to the front first (`CompactKeeps`) or the vector grows (`GrowKeeps`), and
  `EnsureKeeps` shows that the move makes enough room. They hold for cells of any set of
  values (`BufferOf(S, b)`), and are what the output's proof cites.
* `AnswersKeepTheirOrder` and `UnsentIsWatched` (`AnswersInOrder`, `OutputIsWatched`), for
  answers and a kernel buffer of any size, any number of requests and a parser that returns
  anything: in these two `ParseRequest` is never expanded, so they do not depend on which
  requests it finds. `UnsentIsWatched` is what the code's pairing of `EnableWrite` and
  `DisableWrite` amounts to with a level-triggered socket: what is left is watched. That
  nothing is watched for ever when nothing is left (`LoopRests`) is liveness, and TLC's.
  `OutInv` adds to the two that `send_buf_` is a buffer, that the
  kernel never holds more than fits, and `GoneIsQuiet`: a closed descriptor has no events
  left to handle. `WriteKeeps` is the heart: a write moves bytes
  from the front of the buffer behind those of the kernel, and leaves some only when the
  kernel is full.
* `ParsingIsIncremental` (`RequestsAreWhole`), for requests, bodies and chunks of any
  length, any number of them and any cut of their bytes into segments and reads. It has
  three hypotheses:
  `HeapIsZero`, that fresh memory has `complete_headers_` false (otherwise run
  `HttpConnection_flag`); `ClosingBodiesAreEmpty`, that a request which closes the
  connection or is HTTP/1.0 has no body with a `Content-Length` (otherwise the parser takes
  for the body what the read that completes the headers happens to bring, run
  `HttpConnection_body`); and `BodiesAreDelimited`, that no body is sent whose end the
  headers do not give, by a number or by chunks. The first two are what findings take away,
  the third is on the client. The constants of the run `HttpConnection` satisfy the three.
  The invariant is `InputInv`.
  `RequestsAreWhole` is not inductive, because it says nothing of the request that is half
  parsed. `StreamContinues` does: the context has the parsed part of the next request, and
  what is left in its `buffer_`, on the wire and in the kernel is the rest of that
  request and the requests behind it, unless the connection is about to close. `Framed` keeps out
  of the stream what is sent behind a request whose body is all there is.
  The step that matters is `RequestParsed`: one `ParseRequest` of a stream cut
  anywhere takes the next request whole, or stops at a place from which the rest can be
  taken (`AtHand`), or refuses a request that is malformed. Chunks are the hard part:
  `TakeChunks` recurs over the tokens, so what it does is proved
  for the shortest stream on which it would fail.
* `TypeCorrect` (`TypeOK`), from `OutInv` and without any of these hypotheses: whatever
  memory held and whatever bodies are sent, the parser cuts off no more than it has,
  `onMessage` leaves no complete request in the context, and a `content_length_` is that of
  the request being read (`Held`, `OwnLength`; `Sound` says it of what a parse returns).
  A body may then hold what was sent as something else, which `Text` allows for.
* `Answers` is made with `FlattenSeq`, which is recursive. That one more answer adds its
  units at the end (`FlattenOneMore`) is proved from the existence and uniqueness of
  the function the recursion defines (`FlattensExists`, `FlattensAgree`), each
  by a least counterexample (`LeastNatural`) instead of an induction theorem.
* The attempt changed the model: `WholeChunk` looked for a chunk without asking that the
  stream is at a chunk's size, so that its recursion was not over shorter streams for every argument.

**LogStreamProofs**

* `TypeCorrect` (`TypeOK`): no line reaches the end of its buffer. `formatInteger` writes
  in place after asking for `kMaxNumSize` bytes, so the proof is that every integer has
  fewer digits than that (`DigitsAreFew`): one that is less than a power of ten has no
  more digits than the power, by a least counterexample over the powers (`TenTo`).
  `LineInv` adds the pieces' types and that `t_time` is the text of `t_lastsecond`, a
  second of the monotonic clock.
* `ShortLines` (`ShortLinesAreWhole`). The property compares the line with numerals that
  are chosen by their value (`Numeral`), not made by division. So `DigitsAreNumeral` shows
  that the loop's digits have the value of the number and no leading zero, and
  `NumeralIsDigits` that nothing else has, by the value of each prefix. The invariant is
  `Fits`: the buffer is the text of its pieces as long as that leaves room for a number;
  `PutFits` shows that one more piece keeps it, and `PutAllFits` that several do.
* Every recursive function here (`RemainingDigits`, `PutAll`, `ValueOf`, `Text`, `TenTo`)
  needs a proof that it exists before it can be unfolded: `IterationExists` gives it for
  those that go along a sequence, `TurnsExist` for the loop over quotients.
* The attempt changed the model: folds became functions over the indices, and `TenTo` took
  the place of `^`, of which the provers know nothing.

Only model-checked, and why:

* every liveness property (fairness and ENABLED are out of the prover's reach), and with
  them the fair half of `ImplementsTaskQueue`.

Every invariant that a run checks is also proved. What the hypotheses
of `ParsingIsIncremental` leave out, the violation runs show.

## 5. Not modelled

* **Calls of `AddTimer` from another thread**, which the program makes
  (`HttpServer.cpp:50`, on the main thread): a data race on a `std::set`, of whose
  outcomes no state of the queue is a bound. `TimerQueue` is the queue on its own thread.
* **The end of the server**: the loops never quit, so what follows `Loop` in
  `ThreadFunc` and the destructors of the pool are not reached.
* **Write errors.** The first write to a reset connection fails with ECONNRESET and
  `Retrieve(-1)` moves the buffer back by a byte; a later one raises SIGPIPE, which
  ends the process. `HttpConnection` has neither.
* **Exceptions of the parser** on malformed chunk sizes and header lines, and
  `HttpContext::ClearBuffer`, which nothing calls.
* **The logger's spare buffers**, which are reset before use, and two data races:
  `AsyncLogger::Flush` of a FATAL line on one thread while the backend replaces
  `logFile_`, and an `Append` after `Stop` while the backend drains the buffers.
* **The stream variants of `Buffer::Append`, `RetrieveUtil`**: not on this path.
* **FileServer**: names that are not regular files (an empty name is the directory
  itself), disks that fail or are full (`FileHandler.cpp:209` does not look), the
  page's text, and the functions of `FileHandler` and `PathUtils` that nothing calls.
  `FileServer.cpp` does not compile at this commit: line 70 names a class
  `Fileserver`, line 63 passes one argument too many, and `http_server.cpp` includes a file
  that is not there. The model reads the function as the header declares it.
* **LogStream**: the characters of `Fmt` and of doubles.
* **Thread identity, the programs and tests**: no protocol of their own.

## 6. Plan

1. The stream and `Util` variants of `Buffer`, write errors of a connection, and a disk
   that is full.
2. A context that is reset where the code forgets it (the runs `HttpConnection_flag` and
   `HttpConnection_body`), when the code is, and `ParsingIsIncremental` without its hypotheses.
