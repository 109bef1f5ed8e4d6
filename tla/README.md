# TLA+ models of expert-spoon

A key-value store with two servers and several clients. `src/mtcp_kvstore` is the
multi-core server over mTCP, `src/server-5204` a single-threaded epoll server grown
out of SSDB's network code, `src/kvstorelib` the store both use, `src/client` and
`src/testclient` the clients. This directory holds TLA+ modules translated from that
code, configurations that check them with TLC, and proofs that TLAPS checks.

## 1. Inventory

| component | state it keeps | operations | interacts with | what is hard | what makes it correct |
|---|---|---|---|---|---|
| key-value library (`kvstorelib/`) | one libcuckoo table behind `ptr_KVStore` | `kvstore_create`, `kvstore_destroy`, `kvstore_process_packet` (GET, PUT, DELETE, UPDATE, `exit(1)` for another opcode) | called by every server thread | calls of several threads on one table; destruction while threads live | each request takes effect once and at one instant; nobody uses a deleted table |
| mTCP server threads (`mtcp_kvstore/kvstore.c`) | per thread: events[], the handler's locals, errno; per connection: two byte streams | `RunServerThread`, `HandleReadEvent`, `AcceptConnection`, `CloseConnection` | mTCP sockets, library | partial reads and writes, spinning on EAGAIN, errno tested when nothing set it, closing twice, socket ids running out | message framing, replies in order and never ahead of requests, close only after the reply, nobody starves |
| mTCP server process (`kvstore.c`: `main`, `SignalHandler`) | `app_thread[]`, `done[]`, packet counters | create, join, destroy, SIGINT on any thread | all threads | a signal between a test and a sleep; threads that fail; unsynchronised counters | SIGINT ends the process; the store outlives its users |
| server-5204 event loop (`net.cpp`, `msg.cpp`, message path of `link.cpp`) | connections, their `omsg_q`, `error_`, `conn_count` | `main_loop`, `accept_conn`, `recv`, `send`, `req_recv`, `rsp_send`, `msg_read`, `msg_write` | Fdevents, library | reads that end inside a message, full send buffers, errors in the middle of a batch | answers in order, none stranded, errors final |
| Fdevents (`fde.cpp`, `fde_epoll.cpp`, `fde_select.cpp`) | `s_flags`, the kernel's registrations | `set`, `clr`, `del`, `wait` | event loop | the operation for `epoll_ctl` is chosen from `s_flags` alone | the two agree |
| Link's record protocol, Buffer (`link.cpp`, `util/bytes.*`) | input and output Buffer of each Link | `send`, `flush`, `write`, `read`, `parse`, `response`, `request` | a peer Link | packets cut anywhere, buffers compacted and grown | what goes in comes out; no overrun; the end of the stream is recognised |
| work queues (`util/thread.h`) | two queues with mutexes, a condition variable, a pipe | `push`, `pop`, `start`, `stop` | producers, workers, one reader | wake-ups, a full pipe, cancellation | jobs are neither lost, repeated, overtaken nor stranded |
| application, pid file, daemon (`util/app.*`, `daemon.h`, `file.h`) | the pid file | start, stop, restart, daemonize | other processes, the log | commands at once, crashes, the pid of a dead server in the file and given to another program | one server at a time, whose pid the file holds; a command ends |
| log (`util/log.*`) | the file, its size, a mutex | `open`, `logv`, `rotate` | all threads of a process; later processes | writes that fail unnoticed, rename or open that fails inside a rotation, a crash in the middle of one, two within one second | no written message lost, nothing written to a closed file, the size never counted too small |
| sorted set (`util/sorted_set.*`) | two indexes, one by iterators into the other | `add`, `del`, `front`, `back`, `max_score`, `pop_front`, `pop_back` | – | a change has to reach both | it is a map from keys to scores |
| configuration, lines, strings, lists, filter (`util/`) | parsed text | load, get, set | – | sequential | – |
| benchmark client (`client/`) | processes and pipes | `run_benchmark` | server | requests sent ahead of answers | – |
| libev client (`testclient/libevclient.cpp`) | per connection: lines sent and received, timers | `send_cb`, `recv_cb`, time-out | server | sends past the request that closes | – (a load generator that compares nothing) |
| test client and its tools (`testclient/`) | a file of requests, the generator's `keymap`, the checker's map | generate, send, join strace's output, replay and compare | a server, each other | the server and strace see the clients in different orders; calls printed in two pieces | generated requests succeed; a response is judged by what the library answers |

`PROJECT.json` lists these with their sources, and, under `hazards`, each thing in the
code that is hard to test, at its line, with the properties that speak about it.

## 2. Modules

| module | models | uses |
|---|---|---|
| `KVStoreLib` | the packets and the operations on the table | |
| `AtomicKV` | abstract: what the service promises its clients | `KVStoreLib` |
| `KVServer` | the mTCP server's threads | `KVStoreLib`; implements `AtomicKV` |
| `ServerLifecycle` | the mTCP server's process | |
| `FdeEpoll` | Fdevents over epoll | |
| `NetServer` | server-5204's event loop | `FdeEpoll` |
| `JobPool` | abstract: what a worker pool promises | |
| `WorkerPool` | `Queue`, `SelectableQueue`, `WorkerPool` | implements `JobPool` |
| `ByteBuffer` | `Buffer` | |
| `RecordLink` | the record protocol between two `Link`s | `ByteBuffer` |
| `PidFile` | the processes that start, stop and restart a server, and their pid file | |
| `LogFile` | the log of several processes, with rotation | |
| `Application` | the two together: a process that logs while it serves | `PidFile`, `LogFile` |
| `CreateTest` | the generator of test files | `KVStoreLib` |
| `CheckOutput` | redooutput's joining and checkoutput's replay | `KVStoreLib` |
| `TestRun` | a test: clients, a server, the checker | `CreateTest`, `CheckOutput` |
| `ScoreMap` | abstract: what a sorted set promises | |
| `SortedSet` | `SortedSet` | implements `ScoreMap` |
| `FdeInterest` | abstract: what Fdevents promises, whatever is below it | |
| `FdeSelect` | Fdevents over select | implements `FdeInterest` |
| `KVServer_proofs`, `ServerLifecycle_proofs`, `NetServer_proofs`, `WorkerPool_proofs`, `RecordLink_proofs`, `Application_proofs` | theorems | the module each is named after |
| `Tools_proofs` | theorems | `TestRun`, `SortedSet`, `FdeSelect`, as `MCTools` |
| `NatInduction` | induction over the numbers as two lemmas about sets | |
| `MCKVServer`, `MCNetServer`, `MCRecordLink` | values for TLC | |
| `MCTools` | `TestRun`, `SortedSet` and `FdeSelect` in one run: an initial state chooses which of the three takes all steps | |

Names are the code's where TLA+ allows them. A definition that begins with the comment
*Variant* is not part of a model: it is the form a definition would take with a
plausible mistake in the code, and the property that notices it is in `PROJECT.json`
under `mutants`.

### KVServer

A thread is at `pc[t]`; between two system calls of `HandleReadEvent` other threads and
clients run. `ReadSome`, `ReadAgain`, `ReadEof`, `NotConnected` and `UnexpectedError`
are the outcomes of one `mtcp_read` and what the code does about each (kvstore.c:97-115);
the write actions the same for `mtcp_write`; `Process` is the call of
`kvstore_process_packet`; `Finish` the return, the keepalive test and the caller's second
close. The accept loop runs after the batch, when `do_accept` is set.

Byte streams are the requests begun (`reqs`), the replies computed (`answered`) and four
counters of chunks. A message has `MsgLen` chunks, so every division of a message
between calls is there without naming bytes. `Process` takes the message that
the chunks read make up; if they are not one message of the stream it takes any, so a
framing mistake is visible as an answer to a request that was never sent.

Assumptions about what is not in the repository: each libcuckoo operation is atomic;
mTCP reports one entry for each ready socket, delivers streams in order and sets errno
only for failures; a socket number is as unique as its connection (numbers come back
only from `mtcp_accept`, which a thread calls between batches, and `InvBatch` shows that
no entry of a closed socket is left in a batch then).

### ServerLifecycle

`main()` creates `CoreLimit` threads, joins them, deletes the store and returns. SIGINT for
the process is taken by any of its threads that does not block it; the thread then runs
`SignalHandler` on top of what it was doing (`hpos`). The look at `done[i]` and `pthread_kill`
are two steps, so that threads may end, or not exist yet, in between, and what `pthread_kill`
sends is taken by the thread it is for (`pending`). `num_pkts_recvd++` is a load and a store. A
thread's service is one packet a batch.

`mtcp_epoll_wait` without a timeout may sleep for ever. Three things end it: a signal
(`EpollInterrupted`), events, or an error (both `EpollWakes`). Only the first is something a
thread can count on, and only it is under fairness: with a handler that tells nobody, `Stops`
fails. Assumption: an `mtcp_epoll_wait` that begins after the signal was handled still returns
with EINTR, because mTCP keeps the signal for the thread (`intr`). `Stops` speaks of a handler
that begins when all threads exist, or has not looked at the first of them by then: one that
ran before does not reach threads created later, and the process goes on until the next SIGINT.
It further assumes, as the model's clients do, that a handler does not spin for ever on a client
that sends half a message: `KVServer` has that behaviour, and this model leaves it out.

### FdeEpoll and NetServer

`main_loop` waits, then handles the entries of the batch in any order. A read is
`RecvMsgs`, any number of `ReadSome` (until the buffer is full, the socket is empty, or
it is closed), and one of `ReadNull`, `Answer`, `BadOpcode`. A write is `SendMsg`,
`WriteSome` for each system call, and one of `WriteEnds`, `WriteFails`, `BrokenPipe`.
Clients act between any two of these.

Request units are numbered, and the answer to unit *i* is written as *i*: the order and
completeness of answers is what the properties speak about, not their contents.
`msg.cpp` calls `kvstore_process_packet` with two arguments and `kvstorelib.h` declares
three, so the contents of an answer cannot be derived from this pair of sources.
No descriptor is reused, because the loop never closes one. A `wait` that times out or is
interrupted changes nothing. `epoll_ctl` fails only for a wrong operation. The code drops data
in three places: a piece of a message (msg.cpp:24), what was read before the end of the stream
(link.cpp:265), and answers that do not fit (link.cpp:327). `cut[c]` records it, and `InvAnswers`
and `AnsweredUnlessCut` speak of the connections to which it has not happened, beside others to which it has.

### JobPool and WorkerPool

Taking a mutex, the look at the queue, `front()`, `pop()`, the unlock with the wait,
the signal after the unlock, the push of a result and the write of its byte are separate
steps. `pthread_cond_wait` may return without a signal. `Cancel` is `stop()`:
a worker in `pthread_cond_wait` takes the mutex once more before it dies (`Unwind`,
`DieWaiting`) and one in `write()` or in the job dies where it is; no mutex is unlocked.
No code in the repository creates a pool, so producers, reader and jobs are parameters.

### ByteBuffer and RecordLink

A buffer is the offset of `data_`, the bytes in use and the total size. The sizes 16,
1024, 8 K and 512 K are parameters. `Parsed` is `parse()` up to the point where it
changes the buffer; its loop over records is `Fronts`, a recursive function over positions,
each of whose steps is `FrontAt`. `Records` and `Totals` are the loops of `send()` over the
records of a packet and of `grow()` over sizes. `HeaderRoom` is at least 2: in `append_record()` a
length takes a digit and its line an end, and the code reserves 16 bytes for the two (bytes.cpp:116).
Lengths have one digit, so that `HeaderRoom` is the exact length of the longest header,
and `\r\n` in place of `\n` is left out: `send()` never writes it. Both links are blocking.

### PidFile, LogFile and Application

A process of `PidFile` is its pid. `pc` follows `Application::main()`: `exists` and `read`
to `wait` are `restart` and `kill_process()`, `check` is `check_pidfile()`, then come
`log_open`, `daemonize`, the two halves of `file_put_contents` (`create` empties the file,
`write` fills it at `fclose`), `run()` and `remove_pidfile()`. Each look at the file, `kill`,
`fork` and write is a step, any of them may fail where the system call may, and any process
may be killed between two. A pid that is free may be given to another program (`BeginOther`),
so a stale file can name somebody who never was a server. `run()` is the subclass's: it
returns after SIGTERM or when it likes. The parsing of the arguments and a configuration
that cannot be loaded, which ends a process before it touches anything, are left out.

In `LogFile`, a file is an inode with its size and the set of its messages, and the
directory maps names to inodes, so that renaming over a file and writing to one
that has no name are visible. `logv()` writes a message whole (`WriteAll`), or on a full disk a
part of it or nothing (`WritePart`), does not look at the result, and adds its length to `w_curr`
in either case. `rotate()` is three steps (`fclose` with the choice of the
name, `rename`, `fopen`) with the mutex held. The first message to a closed `FILE` moves the
thread to `broken`; what happens after that is undefined, and the model follows that
process's log no further. Levels, formats and the statistics are left out.

`Application` joins each step of a process with what becomes of its log: `log_open()` opens it,
a `fork` hands it to the child, an `exit` or a crash closes it, wherever its threads are.
Five history variables name what the properties except: `overlap` (a command began while
another was in `init()`), `crashed` (somebody died without removing the pid file), `clash` (a
rotation replaced an earlier one's file), and, of a process and until it ends, `short[p]` (a write
to the file it has open failed) and `failed[p]` (a rename or an open in its rotation did).

### CreateTest, CheckOutput and TestRun

`CreateTest` gives the lines that may follow for a given `keymap` and random key, with the
chances left open; a line that is let fail on purpose is marked. `CheckOutput` has what the
two checkers do to one line. `TestRun` puts them around a server that runs
`kvstore_process_packet` and may get a value wrong: a client sends a line, waits for the answer,
and goes on; the lines that strace prints go through `redooutput` and `checkoutput` as they
appear, and these two see a request where the call ends, not where the server serves it. A call
that another one interrupts is printed in two pieces. Since each tool reads its input once from
its start to its end, going through a line as it is printed is the same as after the test. The
server's answer is compared in `key` and `value`; a value is the pair of its 16 byte halves,
because `checkoutput.c:228` copies 16 of the 32 bytes of a value. A right answer to a GET of a longer value,
which `createTest` writes unless told otherwise, is therefore called incorrect: that is `InvJudged`, which
the run `tools_verdict` violates, and `InvVerdict` speaks of all other answers. Line 252 erases a
key only when it is not there: a key that was deleted stays in the checker's map. That does no
harm in the first pass over files without intended failures, as no read of an absent key is
generated there, and no property goes further.

### SortedSet and FdeSelect

An iterator of `existed` is the item it points to, which is unique in the set; an iterator to
an item that is gone would be an item that is not in `sorted_set`. `FdeSelect` keeps the
subscriptions in the two sets, the flags and `maxfd`, as the code does; `Lowered` is the loop that
lowers `maxfd`, and `wait` looks at descriptors up to it. Its user is the event loop of `NetServer`,
under whose calls the listener stays subscribed.

## 3. Runs

| run | checks | bounds |
|---|---|---|
| `kv_safety` | `TypeOK InvBatch InvFraming InvStreams CloseIsAnswered Implements` | 2 threads, 2 connections, messages of 2 chunks, 2 requests each, one socket id served and one refused, closes, resets, other errors, a bad opcode |
| `kv_live` | `Answered Accepted ClosedOnRequest` | 1 thread, 2 connections, 2 requests each, no faults |
| `kv_remote_close` | `RemoteCloseHandled`, **violated** | as above, with a client that closes |
| `lifecycle` | `TypeOK InvStore InvDone InvCounts Stops`, deadlock | 2 cores, 2 SIGINTs, 1 packet a thread; set-up and `mtcp_epoll_wait` may fail, or never do |
| `net` | `TypeOK InvSubscribed InvAnswers ErrorIsFinal AnsweredUnlessCut Deleted` | 2 clients with 2 messages of 2 units that do not wait for answers, a buffer of 3, a send buffer of 3; one of them sends in pieces, closes and resets; failures |
| `net_pipelined` | `Answered`, **violated** | the same without pieces, resets and failures |
| `pool` | `TypeOK InvBytes InvWake Implements Delivered` | 2 producers, 2 workers, 2 jobs, a pipe of 1 byte, 1 spurious wake-up, failing `pthread_create`, `stop()` |
| `pool_full` | `Delivered`, **violated** | 3 jobs, a pipe of 1 byte, no failures |
| `application` | `TypeOK InvOneServer InvLog InvOpen Ends` | 2 pids, 3 programs started, 2 logging threads, `rotate_size_` 1, 2 messages of 2 bytes, 1 second; crashes, failing system calls, writes of a part |
| `tools` | `InvSucceeds InvVerdict SetImplements SelectImplements` | 2 clients with 2 and 1 keys, 3 requests each, files of 3 lines and 1 line, right and wrong answers; 3 names with 3 scores; descriptors 0 to 3 with an `FD_SETSIZE` of 3, 2 pointers |
| `tools_verdict` | `InvJudged`, **violated** | as `tools`, with right answers only |
| `link` | `TypeOK InvRoom InvPackets InvEnd Delivered` | 3 packets out of 5 kinds, a wire of 3 bytes, buffers of 3, 5, 40, … bytes |

Why the bounds are enough. *Two of everything*: what two threads, connections, workers
or producers can do to each other needs two. *A message of two chunks* is cut inside
or not; together with receive and send buffers that are no multiple of it, both ends of
each stream stop inside a message. *Two requests* show what the end of one handler
leaves for the next. In `net` a buffer of 3 units and messages of 2 stand for
8192 and 50 bytes: the end of the buffer falls inside a message. *A pipe of one byte*
makes the pipe fill. In `link` the records contain line ends and digits in the places
where a parser that looked at contents would be deceived, one packet makes a buffer grow
in each of its ways, one exceeds `MAX_PACKET_SIZE`, and one is empty. In `application`, three
programs are a server, its successor, and a command between or after them, or another
program with the pid of a dead server; a message of two bytes, of which one byte or none may be
written, makes the log outgrow a `rotate_size_` of one, so that the second rotation follows
in the same second as the first; two threads are what a mutex is about. (Rotations of different
seconds are left to the theorems, which hold for any.) In `lifecycle`, two SIGINTs are the one
that stops the process and another that is handled before, beside or after it. In `tools`, one client reads its
file once and sees its keys come, change and go, the other opens its file again twice; the values
are one that ends within 16 bytes, one that does not, and its first half. Three names are
a first, a middle and a last item, and two of them may have one score; descriptor 3 is
beyond the limit, and 1 and 2 may be cleared in either order above the listener 0. SYMMETRY is
used in `kv_safety`, where clients and threads are interchangeable, and in `tools`
for the two keys of one client; neither checks liveness. In `net`, one client does all
that clients may do and the other is well-behaved, so that the run shows what the second may rely
on. `CHECK_DEADLOCK FALSE` where the system may rest: clients that have nothing more to send, a process that has exited.

Fairness. Server threads, workers and `main()` are scheduled (weak fairness of each
thread's step): they are POSIX threads or a loop of their own, and no step of theirs is
enabled and disabled for ever by others within the bounds. In `lifecycle` that excludes the return
of `mtcp_epoll_wait` with events or an error, which need not come. In `net`, a failing
`wait()`, which would end the loop, is outside fairness for the same reason. Clients of `kv_live` finish a
message they began and fetch replies, and those of `net` fetch answers; the servers
spin or wait for exactly that, and without it nothing they do would help. A client
need not begin a request. In `link`, flushing and reading go on, as `request()` does
both. Pushing a job is not fair: only what was pushed must come out. In `application` each process is
scheduled through `main()`, and after SIGTERM `run()` with its threads comes to an end, as the
signal is there for; commands, crashes and a server that returns by itself are not fair.

### What the violated runs show

* `kv_remote_close`: an orderly close makes `mtcp_read` return 0, and the code then
  judges by an errno that this call did not set (kvstore.c:99). With a stale EAGAIN the
  thread spins for ever, otherwise the process exits. The comment at line 364 says this
  case is a connection closed by the remote host.
* `net_pipelined`: `req_recv` answers the whole messages in its buffer and drops the
  piece at the end, although its comment says that it gets all sent messages
  (msg.cpp:21-24).
* `pool_full`: with `PipeCap + 2` results outstanding, a worker waits in `write()` with
  the mutex that the reader, who has just read a byte, waits for (thread.h:260, 283-293).
* `tools_verdict`: a PUT of a value longer than 16 bytes, a GET of it, and the server's right
  answer, which `checkoutput` calls incorrect: it expects 16 bytes of the value and zeros
  behind them (checkoutput.c:228), and compares all 32 (checkoutput.c:41-44). Its comments say that it
  checks that the proper responses were sent (checkoutput.c:177).

## 4. Proofs

Every safety invariant, every refinement and every action property of a passing run is a theorem. Each
holds for all values of the constants that satisfy the named assumptions of the
module (`ServerAssumption`, `AbsentAssumption`, `LifecycleAssumption`, `NetAssumption`, `PoolAssumption`,
`BufferAssumption`, `LinkAssumption`, `PidAssumption`, `LogAssumption`, `SameProcesses`,
`GeneratorAssumption`, `HalvesAssumption`, `RunAssumption`, `SetAssumption`, `SelectAssumption`). They ask for finite sets in two places: of
the pool's threads, which `InvWake` counts, and of the descriptors.

**KVServer_proofs.** `TypeCorrect`, `BatchCorrect`, `FramingCorrect`, `StreamsCorrect`,
`CloseCorrect`, `Refinement`. The inductive invariant is
`TypeOK /\ InvConnected /\ InvBatch /\ InvFraming /\ InvStreams /\ InvKeepalive`.
`InvFraming` is not inductive alone: a step of one thread keeps the frame of another
thread's connection only because no two threads handle one socket, which is `InvBatch`;
and `InvBatch` needs that sockets belong to connections that exist (`InvConnected`).
`CloseCorrect` follows from the invariant once the local `keepalive` is tied to the
request just answered (`InvKeepalive`). `Refinement` maps the initial states, and shows
that `BeginRequest` is `Submit`, `Process` is `Apply`, because framing makes the message
read the oldest one without an answer, and that all other steps stutter.

**ServerLifecycle_proofs.** `TypeCorrect`, `StoreCorrect`, `DoneCorrect`, `CountsCorrect`. The invariant
adds `InvMain` (threads are created and joined in order, so all are joined when the
store goes), `InvHandler` (a thread inside the handler has been interrupted) and `InvAim`
(`pthread_kill` is aimed at the thread the loop is at). For `CountsCorrect` the two counters are
treated alike: what a thread has loaded is at most the total of what was counted when it did, and
totals only grow, so the store that follows cannot exceed the new total; and while a thread serves
alone, what it has loaded is its own count. That a total grows by one with a thread's count
(`TotalOfOneMore`) is an induction over the threads.

**NetServer_proofs.** `TypeCorrect`, `SubscribedCorrect`, `ErrorCorrect`,
`AnswersCorrect`. The invariant is `TypeOK /\ InvOpen /\ InvFirst /\ InvSubscribed`:
only accepted connections have subscriptions, events and answers, and the current one
is not in error (`InvOpen`), so `set()` and `clr()` always choose an operation that
succeeds. `AnswersCorrect` adds `InvCur` (no connection is current between events) and
rests on three lemmas about sequences of buffers that continue each other:
appending what was just read, writing a part of the first, and removing an empty first.

**WorkerPool_proofs.** `PoolTypeCorrect`, `BytesCorrect`, `WakeCorrect`, `PoolRefinement`. The invariant
`PoolInv` says where each sort of thread may be (`InvPlaces`), at which places it has a job
(`InvJob`) and where it holds a mutex (`InvMutex`; a dead worker may hold one for ever). `BytesCorrect` adds
`InvBytes`, in which a byte not yet written belongs to the holder of the mutex. `WakeCorrect` counts:
each step changes `items`, the signals to come and the workers on their way by one at most, and
the two sides of `InvWake` together. For `PoolRefinement` no two threads hold one job
(`OneHolder`), jobs held and jobs in the queues are apart, except that the worker inside
`pop()` holds the front of the queue (`Apart`, `AtFront`), and no job is queued twice
(`Distinct`); a step maps to `Push`, `Start`, `Finish`, `Deliver` or a stutter, and `Deliver` is
possible because of `InvBytes`.

**Application_proofs.** `OneServerCorrect`, `AppTypeCorrect`, `LogCorrect`, `OpenCorrect`.
`InvOneServer` is not inductive: it needs that one command at a time is on its way to `run()`
(`OneStarting`), that a command past `check_pidfile()` or a failed probe has no server beside it
(`NoServer`), that the pid read is the server's (`TargetKnown`), and that the file stays empty between
`fopen` and `fclose` (`OwnFile`). `InvLog` needs that one thread of a process is in `rotate()`
(`OneRotates`), that the new name is not the log's own (`NewName`), and that open files have names
(`OpenIsLinked`). `OpenCorrect` rests on both: processes with an open log are past `log_open()`
(`UsersOpen`), of which `PidInv` allows one, so the file under the log's name is the one it has
open, or has just renamed, unless its rotation failed (`HasFile`, `InDir`, both of one process and its
`failed[p]`). What it counts is what it found when it opened the file and all it tried to write
since, so the size of the file is at most that, and exactly that while no write failed.

**RecordLink_proofs.** `TypeCorrect`, `RoomCorrect`, `PacketsCorrect`, `EndCorrect`. The invariant
`LinkInv` says that there is a stream `S` (`InvStream`), the bytes of all packets sent, with the
positions where each begins, of which a number *k* has been taken: the input buffer, the wire
and the output buffer hold, one behind the other, exactly the bytes of `S` from the next packet on,
and `received` is what the first *k* packets are without the empty ones. `S` and the positions are not variables of the code, they
are the witness that the invariant asserts and each step extends. `Sound` says that a buffer's bytes
lie inside its memory, and that they always did; `InvResponse` what `response()` knows when it
reads or returns. The proof has three parts. *Buffers*: what `append_record()`, `decr`, `nice()` and
`grow()` do to the bytes and to the room, among them that the doubling of `grow()` reaches any size
needed (`Totals` outgrows its index). *The parser*: on a window of `S` that starts with a packet, `Parsed`
returns that packet if all of it is there, and "not ready" or "error" otherwise (`ParsedPacket`,
`ParsedEmpty`), whatever bytes the records contain; this is an induction over the records from the last one back,
since `FrontAt` takes the result behind a record. *The steps*: each moves a boundary between the three parts.
`EndCorrect` follows from `InvResponse`: at the end of the stream nothing is on the wire, and what the
input buffer holds does not parse, so by the lemmas about the parser it is no whole packet.

**Tools_proofs.** *TestRun*: `SucceedsCorrect`, `VerdictCorrect`. The server sees the clients' requests in an order the
generator does not know, so the invariant speaks of each client's own keys (`InvOwn`), and says
that `keymap` is what the table will have of them once the request under way is served
(`InvKeymap`); a request of another client leaves those keys alone. For `VerdictCorrect`, `checkoutput`
sees the requests in a third order. `InvChecked` compares the map that it will have once the request
under way was printed (`MapThen`) with the table there will be once it was served (`TableThen`): on the
client's own keys the map has what the table has, and maybe keys that were deleted. So it can be
kept through either event first. It also says that the library's value is what
the map has (`Answer`) from the time the request is served, and that `checkmap` has what `Seen` leaves of it:
16 bytes for a GET, which is all of it for the values that `VerdictCorrect` speaks of. `InvPieces` says what
`redooutput` holds of a call that is printed in two pieces, so that the line it puts together is the call.
*SortedSet* and *FdeSelect*: `SetRefinement` and `SelectRefinement`. The first
rests on `InvIndexes`: `sorted_set` is the range of `existed`, and each key is mapped to an item with
that key. The second rests on `InvSets`: the sets agree with the flags, and no descriptor with
events is beyond `maxfd`; that the loops find the highest one left needs the least number
principle.

**NatInduction.** The provers cannot instantiate an induction theorem that takes an operator. With the
induction hypothesis as a set of numbers the principle is first-order, and follows from the library's theorem that `<` is
well-founded on the numbers; a proof defines the set of the numbers for which its claim holds. What a recursive
function computes is proved in three steps: by induction, a function that satisfies its equation
exists; so the one that `CHOOSE` picks satisfies it; and the claim about it follows by another induction.

Only model-checked: all liveness (`Answered`, `AnsweredUnlessCut`, `Accepted`, `ClosedOnRequest`, `Stops`,
`Deleted`, `Delivered`, `Ends`), since fairness and ENABLED are out of the prover's reach; and what
`violation` runs show, which are counterexamples of an instance.

## 5. Not modelled

* Text: argv, `config`, `line`, `strings`, `list`, `ip_filter`, printing. One thread parses it,
  and nothing in the repository changes a `Config` after it was loaded.
* `libevclient.cpp` and `client/`: generators of load. They send, count and print; no line of
  them says what the answers should be. Their requests are among those of the clients of
  `KVServer`. `send_cb` sends past the request that has the server close, which no property excludes.
* Of the test client: several messages in one request (in which the parser of `checkoutput`
  loses its place), UDP, the limit file, `pyclient.py`.
* libcuckoo, mTCP, epoll, select, pthreads and TCP beyond what the code sees of them. A failing
  `malloc` or `realloc`, and `epoll_ctl` for want of memory.
* `Buffer::read_record`, `Fdevents::isset` and `Response`: they have no caller, or no state
  that matters to one.
* What the code does not promise is modelled and left without a property, or excepted
  by name: a bad opcode or SIGPIPE ends a server for everyone; a connection in error is never
  closed; `pthread_kill` may hit a thread that is gone; `stop()` leaves mutexes locked; two commands
  at the same time may both become servers, or one waits for a file that stays; a crashed
  server's file stays, and `kill_process()` waits for it; a second rotation within one second
  replaces the file of the first; after a failed rotation a process goes on writing to its closed
  log; what a full disk does not take of a message is lost, and counted; a SIGINT during the
  start-up does not stop the threads created after it; `checkoutput` calls a right answer
  to a GET of a long value incorrect, and expects deleted keys to be there.

## 6. Plan

Done, in this order: KVServer with its abstract store, the process around it, the epoll
server, the worker pool, the record protocol; then the application with its log, the test tools,
the sorted set and select, and the proofs about the pool and each of these; then the proofs about the
counters, the record protocol and the checker's verdict.

What would come next:

1. Safety of the two servers together with their tools: the pid file and log of `Application` under the
   event loop of `NetServer`, whose `run()` is the one that SIGTERM ends.
2. Requests of several messages in `TestRun`, once the checker's parser can read them.
3. An abstract channel of packets that `RecordLink` implements: `LinkInv` has what that takes, since
   what is still on its way is the part of `sent` behind the first *k*.
