# cpp_server_base in TLA+

The repository is a set of C programs about processes, threads, System V IPC
and sockets: small examples, and a few servers built on a common transport
(`socket/utils`, `socket/multforkframe`, `socket/multpthreadframe`). This
directory holds TLA+ models of the parts that keep state and interact, TLC
configurations for them, and TLAPS proofs of their main properties.

1. [The system](#1-the-system)
2. [Modules](#2-modules)
3. [From the code to the models](#3-from-the-code-to-the-models)
4. [Runs: what is checked](#4-runs-what-is-checked)
5. [Fairness](#5-fairness)
6. [Proofs](#6-proofs)
7. [What the code does not do](#7-what-the-code-does-not-do)
8. [Not modelled, and the plan](#8-not-modelled-and-the-plan)

## 1. The system

| Component | State | Operations | Interaction | What is hard | What makes it correct |
|---|---|---|---|---|---|
| Frame server, one process per connection (`socket/multforkframe/server.c`, `socket/utils/server.c`) | descriptors of each process, children, pending SIGCHLD | accept, fork, receive, send, close, collect children | parent and children by `fork`, descriptors and SIGCHLD; clients by TCP | signals merge, descriptors are inherited, any child may be killed, `accept` and `fork` fail | one owner per connection, no zombie forgotten, a closed connection is closed here too |
| Frame transport (`sockSrv.c`, `sockClt.c`, `sockUtil.c`) | buffer, pointers, bytes left | `readn`, `writen`, `sockSrvRecv`, `sockSrvSend`, time limits | called by servers and clients on a TCP stream | short reads, a stream that ends in a frame, time limits | frames come out whole, once, in order |
| Line transport (`readline` of tcp8/tcp9, another one in `sockUtil`) | buffer, room left, bytes peeked at | `recv_peek`, `readn`, `readline` | the same | fragments of a line, a line that fills the buffer | lines come out whole, once, in order; the buffer is never overrun |
| Event servers (`socket/select`, `poll`, `epoll`, `kqueue`) | table of connections, readiness | wait, accept, scan, read a line, echo | clients by TCP; `readline` of `sockUtil.h` | readiness that is stale or edge-triggered, one client that stops all | data goes back to its sender, nobody waits for ever |
| Thread-per-connection server (`socket/multpthreadframe/server.c`) | threads, one table of descriptors, semaphore, counter in shared memory | accept, create a thread, receive, P, count, V, send, close | frame transport; `semUtil.h`, `shmUtil.h`; the semaphore outlives the process | descriptor numbers are used again at once, `accept` and `pthread_create` fail, crashes and second starts | each thread serves its own connection, permits are kept, no increment is lost |
| Producers and consumers (`pthread/demo07`) | mutex, condition variable, `nready` | lock, wait, signal, unlock | threads | lost and spurious wake-ups | what is ready is consumed |
| Shared counter with a semaphore (`fork/sem/mulfork.c`) | semaphore, undo records, counter | create, set, fork, P, V | processes over `semUtil.h`, `shmUtil.h` | a process killed with the semaphore in its hands | permits are conserved, no increment is lost |
| Echo on a message queue (`fork/msg/echo`) | one queue for both directions | `msgsnd`, `msgrcv` by type | clients and a server that may be killed | a full queue, leftovers of the dead | every client gets its own answer |
| Chat (`socket/tcp5` to `tcp9`) | a reading and a writing process at each end | read, write, SIGUSR1 to the partner | fork, signals, TCP | who ends first, which process the error of a reset is returned to | both ends stop, nobody is signalled who is not a partner, the end means that everything was read |
| Echo servers and clients (`tcp1` to `tcp4`, `echo_*.c` of `tcp7` to `tcp9`) | connections, children, the port | bind, accept, fork, echo, round after round in `tcp4` | TCP | a line cut in two, TIME_WAIT, a child that goes on in the accept loop, a backlog that is reset | a client gets back its own lines in order, the port can be bound again, nobody waits for ever |
| UDP echo (`udp1`), broadcast receiver (`udp2`) | one datagram each way | send, receive | datagrams | loss, duplication, order | an answer belongs to its question |
| Client API (`socket/*/client.c` on `sockClt.c`) | connection, request under way | connect, send, resend, reconnect, receive | the frame servers | time limits race answers, a connection that is lost | a request is performed at most once, its answer or the end of the connection reaches the client |
| Pipes and FIFOs, signals, process lifecycle (`fork/*`, `fork/pipe`) | ends of pipes, pending signals, children | straight-line programs | kernel | who holds which end, which signals are queued | ends are seen, children collected |
| Semaphore and shared-memory tools (`fork/sem/semtool.c`) | the kernel's semaphore | one system call per command | by hand | values set while workers hold permits | — |
| Demonstrations, library, makefile and shell tutorials | none | one call each | none | nothing | — |

How the parts meet: the servers sit on the transports. A frame is one unit in
`ForkServer` because `FrameReader` shows that the transport delivers whole
frames; a line is one record in the chat programs because `LineReader` shows
it for their `readline` — and `PeekLine` shows under which condition it is so
for the other one. `ThreadServer` composes its server with the clients of the
transport's interface; the counter behind its semaphore is the one of
`SemLock`. `fork/sem`, `pthread/demo08`, `demo09` and the thread
server use the same `semUtil.h` and `shmUtil.h`.

Several files exist in identical copies (`sockUtil.c`, `sockClt.c`,
`sockSrv.c` in `utils`, `multforkframe`, `multpthreadframe`; `sockUtil.h` in
the four event servers; `semUtil.h` and `shmUtil.h` in four directories; the
line helpers in both ends of tcp8 and tcp9). The map in `PROJECT.json` names
one copy for each definition; which copy is no statement about the others.

## 2. Modules

| Module | Subject | Proofs | Instance for TLC |
|---|---|---|---|
| `ProdCons` | demo07: mutex, condition variable, counter | `Sharing_proofs` | `MCProdCons` |
| `ForkServer` | the forking frame server with its clients, children and signals | `ForkServer_proofs` | `MCForkServer` |
| `SemLock` | the semaphore with undo and the counter it guards | `Sharing_proofs` | `MCSemLock` |
| `RecordStream` | abstract: records come out of a byte stream whole, once, in order | — | (used by the three readers) |
| `LineStream` | what the two `readline`s share: stream, buffer, lines | — | (extended by the next two) |
| `LineReader` | `readline` of tcp8 and tcp9; implements `RecordStream` | `LineReader_proofs` | `MCLineReader` |
| `PeekLine` | `readline` of `sockUtil.c`; delivers `RecordStream`'s records when lines arrive whole | `LineReader_proofs` | `MCPeekLine` |
| `FrameReader` | `sockSrvRecv`; implements `RecordStream` | `FrameReader_proofs` | `MCFrameReader` |
| `MsgEcho` | the echo service on one message queue | `Sharing_proofs` | `MCMsgEcho` |
| `EventServer` | the select, poll, epoll and kqueue servers with their clients | `EventServer_proofs` | `MCEventServer` |
| `Chat` | the ten chat programs of tcp5 to tcp9, both processes of both ends | `Chat_proofs` | `MCChat` |
| `TcpEcho` | the seven pairs of echo programs of tcp1 to tcp4 and tcp7 to tcp9 | `TcpEcho_proofs` | `MCTcpEcho` |
| `ThreadServer` | the thread-per-connection server and the clients with time limits | `ThreadServer_proofs` | `MCThreadServer` |

Models about which one module proves theorems are extended by it together, so
that their names must differ: what `ProdCons`, `SemLock`, `MsgEcho` and
`PeekLine` have in common with another one there (`Init`, `Next`, `TypeOK`,
...) begins with `PC`, `SL`, `ME` and `PL`.

Operators commented `Mutant:` are faulty variants of the action that follows
them. They are in no next-state relation; `PROJECT.json` says which property
each one breaks.

## 3. From the code to the models

**ProdCons.** One action per library call of `consume()` and `produce()`, and
two for `--nready` and `++nready`: `LoadReady`, and a store of what was loaded
(`register`), so that a forgotten lock would show as a stale count.
`pthread_cond_wait` is `CondWait` (give up the mutex and join the wait set, in
one step), a wake-up by `Signal` or `SpuriousWakeup`, and `Relock`; the `while`
leads back to the test. `nready` is bounded by `MaxReady` in the guard of
`ProducerLock`, where the code has no bound.

**ForkServer.** `main` is the parent's place in its loop, `current` the
session in its hands, `fds` what each process has open, `child` the state of
each session's child. A session is one turn of the loop: an accepted
connection, or an `accept` that failed for another reason than time — the code
then goes on with `connfd = 0`. `Fork` copies the parent's descriptors,
`ChildStart` closes the listening socket, `ParentClose` the connection.
SIGCHLD is one bit (`chld`), set again by each child that ends, and the
handler runs as steps of its own between which children go on. The parent does
nothing while the handler runs. An `accept` that is over time leaves every
variable as it is and is a stutter; `accept_timeout` with its `EINTR` loop is
such a stutter too. `read_timeout` returns 0 in every case, so receiving has
no limit; `write_timeout` works and is in `ChildSendFails`. SIGPIPE is
ignored, so a write to a closed peer fails and the child ends. When the parent exits, its children are
inherited by init, which collects them.

**SemLock.** The kernel's semaphore (`semval`), its undo records (`semadj`),
one starter per execution of `main()`, and workers. `*addr += 1` is a load and
a store. `Exit` and `Killed` share `Ends`, the kernel's treatment of a process
that ends. `SETVAL` clears the undo records of all processes, as Linux does.

**LineStream, LineReader, FrameReader, PeekLine.** A byte is its position in
the stream, so that a buffer says exactly which bytes it holds, and in which
order. Where lines or frames end is chosen in `Init` from `Layouts`. `arrived` moves on by
any amount: that is every segmentation. The peer may close or reset at any
moment; after a reset a read may still return what had arrived, or the error at
once. `readn` is split into the reads it needs; a read returns any number of
bytes between 1 and what is there. `recv` returns 0 at the end of the stream,
and also when asked for 0 bytes. In `FrameReader` the header is four memory
cells; `Decode` needs them to be the header of some frame, in order, and finds
the length there. In `PeekLine` a peek that would leave the buffer leads to
`overrun`, where nothing is said any more.

**MsgEcho.** The queue is a sequence of messages with type, author and line
number. `Oldest` is `msgrcv`'s choice by type. A client keeps the type of the
message it received last in its buffer (`mtype`), which is the type its next
request will carry. A message in the hands of a server that is killed is lost;
the queue stays. A client is its pid: that the kernel gives the pid of a client
that is gone to a new one, which would then receive the answers left in the
queue, is not modelled.

**EventServer.** One specification for four servers that differ in how they
wait and in how they go through what was reported; `server` (kind and size of
the pool) is chosen in `Init`. `pc` is the place in the loop: `wait` (select,
poll, epoll_wait, kevent), `dispatch` (the branch for the listening socket,
and the loop over events of epoll and kqueue), `scan` (the loop over the pool
of select and poll), `read` (`readline(conn)`) and `write` (`writen(conn)`).
Lines are units: `inbox` counts the complete lines that have arrived on a
connection, and `part` says that the beginning of another has, at which
`readline` peeks until it leaves its buffer (`ReadOverruns`; the inside of it
is `PeekLine`). `edge` is the kernel's ready list for EPOLLET, `bad` the
events with EPOLLERR, `num` the number of connections kqueue reports. While
`link` is `reset` an error is pending: a read returns it once, a write too on
Linux, where none of the servers looks at what `writen` returns (`WriteFails`);
then the connection is `down`, a read returns 0 and a write raises SIGPIPE. A
client that closes with replies unread resets at once; a reply that comes after
its FIN is answered by a reset, of which Linux tells a reader nothing but the
end.
`table`, `maxi`, `allset`, `nready`, `i` and `conn` are the code's variables.
`EpollEvent` chooses an event and reads from `conn`, whatever connection that
is, as epoll/server.c:101 does. The ways a server ends are values of `pc`
(`Endings`): the pool is full, `accept` failed, an error was reported or
returned, SIGPIPE, the overrun. select/client.c is the client; the clients of
the other three servers only open connections and are not followed.

**Chat.** One module for ten programs: `Programs` says for each which signals
`main()` handles, what its reader does when `read` returns 0 (exit, go on,
signal the partner) and what its writer does when `write` returns -1 (exit, or
nothing). `pc` is the place of each of the four processes, from `boot` to
`zombie` and `gone`. `Becomes` is the kernel's part when processes end: the
last holder of an end sends a FIN, or a reset if lines lie unread there; the
error of a reset (`err`) is returned once, to whichever process of the end
calls first. `SignalPartner` is `kill(pid)` at the server and
`kill(getppid())` at the client. Lines are counted: `wrote` by the writer,
`seen` when a reader has received them. What a reader prints is not followed
(the `fputs` of tcp5 and tcp6 prints the bytes of one `read` up to the first
zero). The variables after "what the properties ask for" are history.

**TcpEcho.** Three things tell the programs apart: whether `SO_REUSEADDR` is
set, how connections are served (one, one child each, ten rounds), and whether
lines are put together before they are answered. A line is two units, so that
TCP can cut it once. `waits` is a connection of the port in TIME_WAIT. tcp4
answers with a text of its own (`Other`) and opens its socket anew each round,
which resets what waits in the backlog. From `Fork` on parent and child both hold
the two sockets: `copies` are the children that have not closed the listening one
yet (`ChildCloses`), `kept` is the connection the parent has still open
(`ParentCloses`). While there is such a copy the socket listens, whatever became
of the parent, and no `bind` succeeds. A child of tcp3 or tcp9 whose client
has closed goes back to `accept` on a socket it does not have and ends there:
`Leave`. Zombies are left out, as nobody waits for what they hold.

**ThreadServer.** `table` is the process's table of descriptors and
`LowestFree` the kernel's choice in it; 0 is the standard input (`Stdin`). A
thread has the name of its connection; the threads of `Junk` are those that a
failed `accept`, whatever its error, creates on `connfd`, which is still 0. A read looks its
descriptor up once (`BeginRead`) and keeps the file whoever closes the number
meanwhile; `SendAnswer` and `Close` look it up when they run. The semaphore is
set by `InitSrv` at every start, the second one included, whose `bind` fails
afterwards. A crash closes everything and resets the backlog. A frame is one
message. A client follows client.c: `connect_timeout`, send, a second attempt
after a timeout, a second connection after an error (without sending again),
receive. `Crowded` says whether a send may find no room for its whole time
limit: never for one small request on a new connection, but the interface is
checked for it too. test_mutex in server.c is called by nobody.

## 4. Runs: what is checked

| Run | Bounds | Shows |
|---|---|---|
| `prodcons` | 3 consumers, 2 producers, `nready` ≤ 3 | `NoStaleCount`: what is stored comes from the count of the moment, and a consumer that has seen a product takes one that is there; `NoLostWakeup`: all asleep with something ready only while a signal is on its way; `ReadyIsConsumed`; no deadlock |
| `forkserver` | 2 connections (2 and 1 frames), 1 failed accept, 1 reply in the socket buffers | `NoStrayDescriptor`, `ZombieNoticed`, `PortFreed`, `ClosedIsReleased`, `ReplyGivenUp` |
| `semlock` | 3 workers, 2 rounds, value 2 as in `main()` | `Conservation`, `EveryWorkerEnds` with kills anywhere |
| `linereader` | 7 bytes, buffer of 4, all 128 placements of newlines | `ImplementsStream`, `FittingEndsAtClose`, `AllDelivered` |
| `framereader` | 14 bytes, header of 2, buffer of 3, all framings | `ImplementsStream`, `FramingKept`, `AllDelivered` |
| `peekline` | 6 bytes, buffer of 4, all 64 placements | `EndsWithTheLine` in every case; `WholeLinesDelivered`, `PLAllDelivered` when segments end with lines |
| `msgecho` | 3 clients, 2 lines each, queue of 3, one kill of the server | `AnswerIsOwn`, `NeverFullForAnswer`, `Answered` |
| `eventserver` | 2 connections, 2 lines each, 1 reply in the socket buffers; pools of 2 (select), 2 and 3 (poll) | `PoolSound`, `NreadyExact` (select), `NeverWaitsForOne` (not epoll), `FailsOnResetOnly` (select, kqueue), `Answered` (not epoll) |
| `chat` | all five pairs, 2 lines each way, 1 kill besides interrupts | `ZeroMeansAll`, `SignalsStayHome`, `StopsAfterReset`, `PartnerFollows`, `EndReachesPeer` |
| `tcpecho` | all seven pairs, 2 clients, 2 lines each in halves, 2 rounds of tcp4, 1 restart | `EchoesItsLines`, `InStep`, `BindsAgain` (tcp1 excepted, and the moment before a child has closed its copy of the listening socket), `NobodyForgotten` |
| `threadserver` | 2 clients, 2 failed accepts, 2 descriptors, value 2, 1 crash or second start, crowded sends | `OwnConnection`, `PerformedOnce`, `PermitsKept`, `AnsweredOrTold` |
| `threadserver_limit` | the same with 3 descriptors and room for every send | violated on purpose: `ReceiveEnds` (section 7) |

The type invariant `TypeOK` of each module is a theorem (section 6), and can be
added to any configuration as an INVARIANT.

Why the bounds are enough. *prodcons*: a lost wake-up needs one sleeper and
one other consumer that takes the product, a third one gives the signal a
choice; the program itself has such numbers. *forkserver*: two children are
what it takes for two SIGCHLDs to merge and for a descriptor to reach the
wrong child; a window of one reply makes a client that does not read block its
child. *semlock*: value and number of workers are the program's; the third
worker waits for two holders, either of which may be killed. *linereader*: the
buffer holds less than the stream, so that lines fit, fill the buffer exactly,
or overflow it; a line can arrive in up to four pieces. *framereader*: a
header of two bytes can be cut; three frames follow each other, the second
read into a buffer that still holds the first. *msgecho*: a queue filled by
every client is in the bounds, and a client's second request carries the type
left by its first answer. *eventserver*: with two connections one can arrive,
end or be reset while the other is scanned, and slot 0 is used again behind
`maxi`; a second line waits while the first is echoed; the smaller pool of
poll, which keeps one slot for the listening socket, is full with one
connection. *chat*: two lines each way are enough for one to be unread when
the other end closes, one to be lost on its way, and for a writer to go on
after the reset; one killed process, where interrupts kill pairs, leaves every
mixture of survivors. *tcpecho*: a client falls behind with its second line;
the other client sits in the backlog, is served by another child, or is reset
when tcp4 opens its socket anew; the fork for the second client may fail while
the child of the first still holds the listening socket, and the one restart is
then refused; the second of two rounds is the last, as the tenth is in the code. *threadserver*: with two descriptors, 0 among them, a
second connection needs the number of the first or of the standard input, both
clients may each make a second connection, and two failed accepts are what it
takes for two threads to share descriptor 0.

Deadlock is checked for `prodcons`, whose threads never end. In all other runs
processes do end, so that a final state is right, and liveness properties say
that they do not stop too early.

One run ends in a violation, on purpose: it checks what a comment of the code
says, and section 7 tells what it shows.

## 5. Fairness

Nothing is assumed of clients, peers, users, failures, kills or the network.
Processes and threads that can take their next step do so in the end (weak
fairness), which is the kernel's scheduling. Strong fairness is assumed where a
step is enabled only now and then and the kernel queues who waits: locking a
mutex (with a second of sleep after each unlock in demo07), the P operation
(sleepers of a System V semaphore are woken in turn), `msgsnd` on a full
queue. In `ForkServer` the handler, the parent's loop and the child of each
connection have weak fairness; children forked for a failed `accept` have none.
In `EventServer` the server is scheduled, clients read what is sent to them
(select/client.c does, whatever its user does) and the kernel resets a
connection that is closed with replies unread. kqueue's server takes no notice
of an `accept` that failed and meets the listening socket again; strong
fairness of `KqueueAccept` says that `accept` does not fail for ever. In
`Chat` and `TcpEcho` processes run, signals and resets arrive; users type,
stop and start programs when they like, kills and failed forks have no
fairness. In `ThreadServer` threads and clients run, an accept that can
succeed is made, and resets arrive; starts, crashes, failures of `accept` and
`pthread_create` happen or not, and a thread that reads from the terminal need
never go on. Its P has weak fairness only: each request is
performed once, so that a thread is overtaken a limited number of times.

## 6. Proofs

`*_proofs.tla` prove for every value of the constants, under the assumptions
named in the modules, what the runs show on small instances. Each proof goes
through an inductive invariant `IInv` with three facts: `InitIInv`, one lemma
per group of actions (one step per action under it), and `SpecIInv`.

| Module | Theorems | The invariant, and why the property alone is not inductive |
|---|---|---|
| `Sharing_proofs`, demo07 | `PCTypeOKHolds`, `MutualExclusionHolds`, `NoStaleCountHolds`, `NoLostWakeupHolds`, `OneAtATimeHolds` | A wait set that is exactly the set of threads at `waiting` is needed to see that a thread taken out of it goes on. `MutualExclusion` is what keeps a loaded count fresh. |
| `ForkServer_proofs` | `TypeOKHolds`, `NoStrayDescriptorHolds`, `ZombieNoticedHolds`, `PortFreedHolds`, `NothingInventedHolds` | What a child inherits depends on what the parent has open at `fork`: `ParentFds` ties that to the place in the loop, `ChildFds` bounds each child's descriptors. |
| `Sharing_proofs`, mulfork | `SLTypeOKHolds`, `ConservationHolds`, `AdjustmentIsHoldingHolds`, `UndoneAtExitHolds`, `NoLostUpdateHolds` | The undo record of a worker is 1 exactly while it is inside; without it a kill could do anything to the value. Assumed: one starter. `NoLostUpdateHolds` also assumes the value 1 and adds that what a worker has loaded is still in the counter. |
| `Sharing_proofs`, message queue | `METypeOKHolds`, `AnswerIsOwnHolds`, `NeverFullForAnswerHolds` | Every client has at most one message under way (`Single`), and that message is of the round the client is in (`Underway`). The room for an answer then follows by counting: authors of queued messages and the author of the one in hand are different clients. |
| `LineReader_proofs`, tcp8 and tcp9 | `TypeOKHolds`, `NoOverrunHolds`, `NeverAbortsHolds`, `FittingEndsAtCloseHolds`, `Implementation` | `Pointers` (room, filled, wanted and arrived agree), `Boundaries` (the buffer begins where a line begins and holds no newline), `Contents` (it holds the bytes after that place, in order). |
| `LineReader_proofs`, event servers | `PLTypeOKHolds`, `AtLineStartHolds`, `EndsWithTheLineHolds`, `WholeLinesDeliveredHolds` | `PLFound`: between peek and read the bytes to be read end with the next newline and are in the buffer already, where the read will put them. `Unsplit`: if no segment ends within a line and the lines fit, every peek that sees something sees a newline (`NewlineInSight`), so that `count` stays 0; the copies of fragments need a fragment. |
| `FrameReader_proofs` | `TypeOKHolds`, `FramingKeptHolds`, `Implementation` | `Progress`, `Boundaries`, `Contents` in the same way; `HeaderIsUnique`: a header in memory names one frame. |
| `EventServer_proofs` | `TypeOKHolds`, `PoolSoundHolds`, `NreadyExactHolds`, `NeverWaitsForOneHolds`, `FailsOnResetOnlyHolds` | `AtPlace` says what the loop knows at each place, `StillReadable` that what was reported can be read until its turn comes, `Count` that `nready` is the number of flagged slots ahead (one more while the listening socket is dispatched). `FlaggedCount`: by `PoolSound` slots and reported connections are in bijection, so that the kernel's count of descriptors is one of slots. |
| `ThreadServer_proofs` | `TypeOKHolds`, `PermitsKeptHolds`, `PerformedOnceHolds`, `OwnConnectionHolds` | Four layers. `Types`: also that a client that sends is on its first connection, and that a free descriptor has a lowest one (`LowestFreeType`, from the well-foundedness of finite sets). `Permitted`: a server that is down has no live thread, a thread's name is new when its connection is accepted (`Fresh`). `OncePlaced`: a request is with its client, on the first connection, with one thread before its P, or performed, and in one of these places only. `Own`: what a live thread has at its number, `AtZero`: descriptor 0 is the standard input until the thread of a failed `accept` has closed it, `OwnFrames`: what a thread reads, holds and sends; the last two only while no two threads share descriptor 0. |
| `TcpEcho_proofs` | `TypeOKHolds`, `EchoesItsLinesHolds`, `InStepHolds`, `BindsAgainHolds`, `OneByOneHolds` | `InOrder`: the units of a client are in four places, `got`, `toClient`, `hand`, `toServer`, each going on where the one before it ends, and all of them are there while nobody has closed. `RunConcat` and `RunCut` say how runs join and split, the lemmas `Order...` what a read, a write or a new line does to the four places; each step is then one of these. `Owed`: how far a client may be behind when it types and when it waits. `OneByOne`: which connections a server that does not fork may be busy with. `CopyHeld`: a copy of the listening socket is in the hands of a child that has just been forked. |
| `Chat_proofs` | `TypeOKHolds`, `ZeroMeansAllHolds`, `SignalsStayHomeHolds`, `StopsAfterResetHolds` | One invariant for each end, `Sane`: what it may know of the other one (`PeerClosed`, `OneEnding`, `Heard`), its two processes (`Parents`: a parent that lives keeps its child's number in use), where the peer's lines are (`Accounted`: read, waiting, or lost to a reset whose error is still to be told or was told), and that this error comes once (`Once`). Most steps only make processes end: `Quieter` and `Calm` say what all of these have in common, so that it is proved once. |

The two `Implementation` theorems are refinements: the step that completes a
record is `RecordStream`'s `Deliver`, every other step a stutter.
`EndsWithTheLineHolds` and `WholeLinesDeliveredHolds` are about steps: from
the invariant, a step that returns a buffer is a `PLReadLine`, whose effect is
then compared with what the property asks for.

`IInv` of `ThreadServer_proofs` is the conjunction of its layers (`Known` and
`Own`), each proved inductive on top of the one before.

Every invariant and every safety property of a step that a run checks is stated
by a theorem, but for `ReceiveEnds`, which is false. Only model-checked is
liveness under fairness (`ReadyIsConsumed`, `ClosedIsReleased`,
`ReplyGivenUp`, `EveryWorkerEnds`, `AllDelivered`, `PLAllDelivered`,
`Answered`, `PartnerFollows`, `EndReachesPeer`, `NobodyForgotten`,
`AnsweredOrTold`), which is out of the prover's reach, as ENABLED is.

Assumptions on the constants: the sets of processes do not overlap and do not
contain the values that mean "none"; finite sets where they are counted;
`FrameReader` assumes that senders keep to the header and to the receiver's
buffer size, which is what every sender in the repository does.

## 7. What the code does not do

| Run | Property | What it shows |
|---|---|---|
| `threadserver_limit` | `ReceiveEnds` | The limit of a receive is without effect: `read_timeout` returns 0 when the time is over. A client whose thread could not be created waits for ever. |

Five more statements of the code's comments are false. Each is defined in its
module beside the property of the passing run that holds because it leaves the
case out, or in spite of it:

| Run | Property that holds | Statement that does not |
|---|---|---|
| `threadserver` | `OwnConnection`, but for `Shared` | Only accepted connections are served (`ServesAcceptedOnly` of `ForkServer`): an `accept` that fails for another reason than time makes both servers go on with descriptor 0. After two of these, two threads have it, and the second one uses and closes a stranger's connection. |
| `semlock` | `Conservation` | `NoLostUpdate`: the semaphore is set to 2, so that an increment can be lost. With 1 it is a theorem that none is. |
| `linereader` | `FittingEndsAtClose` | `EndsOnlyAtClose`, without the condition that the line fits: a line that fills the buffer makes the `readline` of tcp8 and tcp9 return 0, "the peer has closed". |
| `peekline` | `EndsWithTheLine` | `ReturnsBytesRead`: after a fragment `readline` returns the fragment twice and counts it twice. |
| `msgecho` | `AnswerIsOwn` | `SentToServer`: from its second line on a client sends its request to itself: `msgrcv` has overwritten the type. |

Also seen while modelling:

- The epoll server reads from the connection accepted last instead of the one
  reported, and one line only of an edge-triggered connection: there
  `NeverWaitsForOne`, `FailsOnResetOnly` and `Answered` fail.
- The poll server scans slot 0, its listening socket: when a connection and
  data arrive together it calls `readline` on that socket and exits. There
  `FailsOnResetOnly` and `NreadyExact` fail.
- None of the four ignores SIGPIPE (`WriteKilled`) or survives the error of a
  read but kqueue's: one client that resets can end the service of all; any of them can run
  over its buffer at half a line (`ReadOverruns`).
- The reading child of a chat client signals `getppid()`: when the user has
  ended the input before, that is another process. `SignalsStayHome` excludes
  exactly this case.
- In tcp9 SIGPIPE is handled and the result of `writen` ignored: a writer goes
  on for ever into a connection that was reset, and if it takes the error of
  the reset its reader reports a clean end although lines were lost.
- The reader of tcp5/client.c takes no notice of 0 and reads 0 for ever.
- Raw echo clients (tcp1 to tcp4, tcp9) take one `read` for the answer and fall
  behind when it was cut; tcp1 cannot be started again while a connection is
  in TIME_WAIT; tcp4 ends when a client closes without a line.
- A server of tcp3 or tcp9 whose `fork` fails exits. If the child forked before
  has not come to its `close(sockfd)` by then, the port still listens, a start
  is refused in spite of `SO_REUSEADDR`, and clients that connect are reset.
- A second start of the thread server sets the semaphore before its `bind`
  fails, and thereby adds permits while threads are inside. A client that has
  connected anew sends nothing there, and waits for an answer to nothing.

Smaller ones: a second execution of `mulfork` sets the semaphore again and
thereby clears the undo records of the first one's workers, after which
`Conservation` and `UndoneAtExit` fail (the theorems assume one starter);
`sockSrvSend` and `sockCltSend` free their copy of the data only when they
fail.

## 8. Not modelled, and the plan

Left out for good: the single-step demonstrations, library, makefile and shell
tutorials (no state), the wording of what is printed, addresses and ports.
Bytes of the network order of a header are not followed: a header stands for
the length it encodes.

Not modelled, and why:

- **UDP** (`udp1`, `udp2`): client and server exchange single datagrams. A
  lost one blocks the client, a late one is taken for the next answer; no
  property about either holds, and a module would only restate that.
- **Pipes and FIFOs**: two processes, one end of file each. What can go wrong,
  an end left open, is the subject of `ForkServer` and `Chat`.
- **Signals and process lifecycle** (`signal_reliable.c`, `sigaction.c`,
  `wait_child_exit.c`, `exit_proc.c`): each waits for one thing; the case worth
  a property (merged SIGCHLDs) is in `ForkServer`.
- **semtool**: one system call per command, by hand.
- The SIGCHLD handler of `mulfork`, which spins when no child is left; the
  threads of demo08, which use the semaphore as the workers of `SemLock` do.
- The clients of the poll, epoll and kqueue servers, which open connections
  until one fails and send nothing.
- A frame left half written by a sender whose connection fails.

Next:

1. The composition of `ThreadServer` with `SemLock`'s load and store of the
   counter, for the value 1 that both programs should have set.
2. A datagram channel that loses, duplicates and reorders, with the client
   that udp1 would need, to say precisely what udp1 lacks.
