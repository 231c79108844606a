# A verification project for JTCP

JTCP is a small C++17 library: a TCP server built on one `epoll` thread
(`JTCP::Server::TCPServer` and the `TCPPeerClient` objects it hands out) and a
blocking TCP client (`JTCP::Client::TCPClient`). This directory holds TLA+
modules translated from its source, the TLC runs that check them on small
instances, and proofs that TLAPS checks for every instance. File names below
are relative to the repository; `server.cpp` is `src/server/server.cpp`.

## 1. Inventory

| Component | State | Operations |
|---|---|---|
| Epoll thread (`TCPServer::acceptThreadFunc`) | `m_epollfd`, `event_list`, `ready_event_num`, the local `peer_client` | `initEpoll`, the loop, `handleNewClientConnect`, `handleClientMsg`, the release of the map at the end |
| Client map | `m_client_mgr`, guarded by `m_client_mgr_mutex` | insertion in `handleNewClientConnect`, lookup in `handleClientMsg`, `delClient`, `clear` at the end of the thread |
| Start and stop | `m_server_listen_fd`, `m_run_flag`, the future `m_accept_thread` | `start`, `stop` |
| `TCPPeerClient` | `m_fd` (a `shared_ptr`), the two callbacks, the peer's address | `readData`, `sendData`, `onRecvData`, `onDisconnect` |
| `FileDescribe` | a descriptor number | closes it in its destructor |
| `TCPClient` | `m_fd` (blocking) | `createNew`, `sendData`, `recvData` |
| The application (`example/`, `ut/`) | the `shared_ptr`s it keeps, its threads | the three callbacks, `readData` and `sendData` from any thread |
| Operating system (not in the repository) | listen backlog, send and receive buffers, epoll's interest and ready lists | modelled from the calls the code makes |
| `JResult` (an external submodule) | - | a result is success or failure |

**How they interact.** `start()` creates the listening socket and launches the
epoll thread with `std::async`; it returns when the thread has set
`m_run_flag` or ended. The epoll thread waits at most one second per round,
accepts *one* connection per event of the (edge-triggered, blocking) listening
socket, and calls the application's callbacks itself. `TCPPeerClient::readData`
may be called by the callbacks or by any thread that holds the `shared_ptr`;
when `read(2)` returns -1 or 0 it calls `TCPServer::delClient` with the
*number* of its descriptor. `delClient` is three steps: `EPOLL_CTL_DEL`, find
and erase under the mutex, and `onDisconnect` outside of it. A descriptor is
closed when the last `shared_ptr` to its peer goes, which may be the map's, the
application's, or a local variable's of a call that is under way.

**What is hard in it.** Descriptor numbers stand for clients in `event_list`, in
the map and in `delClient`, and the kernel reuses them. Edge-triggered epoll
says a thing once. The listening socket blocks. Three kinds of threads share
the map. A system call that fails ends the epoll thread and leaves the map and
the run flag behind. `PROJECT.json` lists each hazard at its line.

**What makes it correct.**

* map: an entry is the peer that owns that number; nobody's entry is
  overwritten; a mapped client is registered with the epoll instance in use;
* `delClient`: it hits the client whose read failed and nobody else; the
  disconnect callback runs once, and after the client can no longer be reached;
* epoll thread: it never sleeps in `accept`; no event is lost between the
  kernel and the receive callback; an event still designates its client when
  its turn comes; it returns after `stop()`;
* descriptors: a number is not reused while anything refers to the old peer,
  and nothing keeps a disconnected peer's descriptor open but its users;
* `start()` and `stop()`: what they return is true of the epoll thread, there is
  one such thread at a time, and they return;
* the bytes: what an echo server returns is in order and, unless a send was cut
  short, complete; no call of the client waits for ever.

## 2. Modules

```
Kernel ── ServerState ── TCPServer ─┬─ ServerContract ── MCServer  (runs)
                                    └─ TCPServerInv ── TCPServerProofs
ServerContract, TCPServerProofs ── ServerContractProofs ── WakeupProofs ── SurvivalProofs

Lifecycle ── LifecycleContract ─┬─ MCLifecycle  (runs)
                                └─ LifecycleProofs

Stream ── Echo ─┬─ EchoContract ── MCEcho  (runs)
                └─ EchoProofs
EchoContract, EchoProofs ── EchoContractProofs
```

Each module EXTENDS the ones on its left. Three more modules, which extend none
of these, are abstract specifications, and a detailed module is shown to
implement them with `INSTANCE ... WITH`:

| Abstract | Implemented by | Mapping in |
|---|---|---|
| `PeerContract`: what is promised of a client's callbacks | `TCPServer` | `ServerContract` |
| `ThreadContract`: the epoll thread's life and `m_run_flag` | `Lifecycle` | `LifecycleContract` |
| `ReplyContract`: what a program gets back from the echo server | `Echo` | `EchoContract` |

**`Kernel`** models what is not in the repository: the listen backlog, a count
of unread units per connection, and an edge-triggered epoll instance. An arrival
puts a registered item on the ready list (`Edge`); registration looks at the
item at once (`EpollAdd`); `epoll_wait` takes items off the list and drops
those that are no longer readable (`EpollReport`). Data is counted, not spelt
out.

**`ServerState`** holds the server's state. A connection `c` stands for the
accepted socket, its `FileDescribe` and its `TCPPeerClient`, which live and die
together.

| Variable | Code |
|---|---|
| `runFlag` | `m_run_flag` |
| `pc`, `batch`, `evcap`, `cur` | the epoll thread: where it is, the events of `event_list` not handled yet, `event_list.size()`, the local `peer_client` |
| `mgr` | `m_client_mgr` (`None`: no entry) |
| `fdOf` | the number inside each peer's `m_fd` |
| `app` | the peers whose `shared_ptr` the application keeps |
| `self`, `dpc`, `victim` | per thread: the peer whose `readData` failed, where that call is in `delClient`, and `delClient`'s local `client` |
| `starts`, `told`, `fresh` | history: calls of `start()`, calls of each `onDisconnect`, arrivals no receive callback has followed |

`Alive(c)` says that some `shared_ptr` reaches the peer: the map's, the
application's, or a local's. `accept` hands out a number that no live peer has.
That is the whole of `FileDescribe`: RAII makes "open" and "reachable" one
thing, and the properties below depend on it (two of the mutants weaken it).

**`TCPServer`** has one action per step. Epoll thread: `InitEpoll`,
`CheckRunFlag`, `EpollWait`, `EpollTimeout`, `ListenEvent`, `Accept`, `Config`
(`setFileDiscribeBlock`), `AddToEpoll`, `InsertClient`, `HandleClientMsg`,
`OnRecvData`, `CallbackReturn`, `BatchDone`, `Shutdown`, and for every early
return or exception an action that ends the thread (`...Fails`,
`UnknownClient`, `CallbackThrows`). Application: `Keep`, `Release`, and
`ReadData` or `ReadFails` for any thread, the epoll thread in a callback
included. `delClient`: `DelFromEpoll`, `DelNotRegistered`, `EraseClient`,
`OnDisconnect`. Owner: `Start`, `Stop`. Every critical section of
`m_client_mgr_mutex` is one action; between two of them anything may happen.

Operators marked *Faulty* (`DelFromEpoll_NoDel`, ...) are variants of the action
or operator below them, one per plausible mistake. No specification uses them;
substituted for what they vary, each makes a property fail, which shows that
the property depends on the code.

**`PeerContract`** is what an application may rely on, with no sockets, no epoll
and no descriptors: a client is announced first, gets receive callbacks one at a
time, and is told of its disconnection at most once; the server decides whom to call
next (`Choose`) only among clients that have not been told, and calls that one or
nobody (`Receive`); so no receive callback follows the disconnect callback, except,
when other threads read too (`Racy`), the one that had been decided on before; the
server lets go of a client without a word only when its epoll thread ends, and never
between a decision and its callback. `TCPServer` implements it
(`ServerContract`, property `KeepsContract`) under this mapping:

| `PeerContract` | `TCPServer` |
|---|---|
| `up` | the epoll thread is past `initEpoll` and has not ended |
| `phase[c] = "unknown"` | no descriptor yet, or still between `accept` and the map (`InSetup`) |
| `"announced"` | in the map, or in `delClient`'s local variable on its way to the callback (`Held`) |
| `"gone"` | its disconnect callback has been called |
| `"left"` | none of these: dropped by a thread that failed half-way, or by `clear` |
| `chosen` | the local `peer_client` of `handleClientMsg`, between the lookup under the mutex and the call of `onRecvData` (`pc = "found"`) |
| `serving` | the local `peer_client` while a callback runs |

**`ThreadContract`** is what the owner and the epoll thread agree on: a thread is
launched only when the last one is over; only a thread that is ready sets the
flag; one that has not been told to stop does not end well; one that ends well
leaves the flag clear, one that fails does not touch it. In `Lifecycle` each of
these depends on several statements of two threads:

| `ThreadContract` | `Lifecycle` |
|---|---|
| `flag` | `flag` |
| `life = "none"` | `loop = "none"` |
| `"starting"` | `loop` is `"init"` or `"list"` |
| `"serving"` | `loop` is `"check"`, `"wait"` or `"clear"` |
| `"stopped"`, `"failed"` | ended, with that `outcome` |

`TCPServer` has one action each for `Start` and `Stop`, and takes one thing as given:
`Start` finds no thread at work. That is the contract's first promise, and what
`Lifecycle` shows of the two calls (`KeepsThreadContract`, `NoSecondThread`) is the
reason to believe it; `TCPServer` shows nothing about it. The rest of the two guards
is the well-behaved owner of section 4.

**`Lifecycle`** takes `start()` and `stop()` apart (section 4); **`Stream`** and **`Echo`**
carry the bytes between a `TCPClient` and a `TCPPeerClient` (section 5).

The three models are cuts through one program. `TCPServer` has many clients and
the map, and counts data; `Echo` has one connection, and every byte in both
directions; `Lifecycle` has the owner and the thread, and no clients.

## 3. Runs of `MCServer`

| Run | Instance | Question |
|---|---|---|
| `threads` | 2 clients, 2 threads | threads racing the epoll thread and each other through `readData` and `delClient` |
| `failures` | 2 clients, 1 thread, all faults, 2 starts, callbacks that read from each other's clients | ownership and numbers when any call fails and the server restarts with what a failed thread left behind; `PeerContract` is kept through all of it |
| `single` | 3 clients, no other thread, 2 starts | with callbacks that read from their own client only, no event of a batch is ever stale, the epoll thread never fails (`LoopSurvives`), a mapped client is always registered with the epoll instance in use, no event is lost though `event_list` may be too small for what is ready, no receive callback follows the disconnect callback, and `PeerContract` is kept with `Racy` false |
| `live` | 2 clients, draining callbacks, fairness | wakeups are delivered, closes are noticed, `stop()` completes |
| `stranded`, `eagain`, `unknown` | the smallest that shows it | a statement of the repository that the code does not keep (section 7) |

**Bounds.** `MaxMsgs` caps what a client sends, `MaxStarts` the calls of
`start()`; both are guards, nothing else is bounded. Two clients and two numbers
are enough for a number to be reused while an old event, an old call of
`delClient` or an old `shared_ptr` is around, because each client connects once
and may take any free number; `single` uses three so that a batch can hold the
event of one client, the deletion of a second and a newcomer, and in exchange
sends no data: closes and empty sockets make the events and the failing reads
it is about (`MaxMsgs = 0`). `threads` lets the application pass
`expect_len = 0`, which reads nothing and is taken for end of file. Two threads are
enough for two concurrent `delClient` on one peer next to the epoll thread's own.
`ListenMax` is both the size `event_list` starts with and the number of connections
that can wait. With 2, the list of `single` can be too small: the listening socket
and two clients, or three clients, are ready, the third item is reported by a
later `epoll_wait`, and the list doubles. `threads` has too few connections for that
(the first round finds the listening socket alone, and with 1 the list has already
doubled when two clients are ready); it is about the deletions by other threads. One unit per client is enough for "data, then end of file",
since only zero against non-zero matters to the code; longer streams are
`Echo`'s subject. Symmetry is used in the runs without liveness only.

`CHECK_DEADLOCK FALSE`: after `stop()` with every client gone and every peer
released there is nothing left to do, and that is a legal end.

**Fairness** (`FairSpec`). The epoll thread and `delClient` are straight-line
code whose calls return: `epoll_wait` has a timeout of one second, the mutex is
held for a bounded time; hence weak fairness of `LoopStep` and of each thread's
`DelStep`. `accept` on an empty backlog would not return: it has no action there,
so fairness does not wake it, and `AcceptNeverBlocks` shows it never happens.
`SF(CallbackReturn)` and `WF(Drains /\ ReadStep(Loop))` are assumptions about
the application: callbacks return and, in `Drains` mode, read until `readData`
fails first, as the one of `ut/JTCP/ut_server.cpp` does. Strong fairness of the
return is needed because a callback may enter and leave `delClient`, in which it
cannot return. Nothing is assumed of the remote clients or of other threads.

## 4. `Lifecycle`: start() and stop()

`TCPServer` has one action for `start()` and one for `stop()`. `Lifecycle`
translates them statement by statement, with the future and the plain bool the
owner and the epoll thread share, and reduces the epoll thread to: initialise,
allocate `event_list`, loop, end.

| Action | Code |
|---|---|
| `StartCall`, `BindCall`, `ListenCall` | `socket`, `bind`, `listen`, each with its early return |
| `Launch` | `std::async`; `m_accept_thread` becomes valid |
| `PollFlag`, `WaitTimesOut`, `ThreadEnded` | `while (m_run_flag == false)`, `wait_for`, `return m_accept_thread.get()` |
| `StopCall`, `Join` | `m_run_flag = false`, then `get()`, which throws on an invalid future (`owner = "threw"`) |
| `InitEpoll`, `EnterLoop`, `CheckRunFlag`, `EpollWait`, `Clear` | `acceptThreadFunc`; `EnterLoop` allocates `event_list(listen_max_num)`, which throws for a negative number, then sets the flag |
| `Destroy` | the destructor |

`m_run_flag` is written and read by two threads without synchronisation. The
model takes its accesses as atomic and adds the one freedom a compiler has that
matters to the control: the first test of the loop may be answered by the value
just stored (`EnterLoop` and `TCPServer!InitEpoll` choose). Builds that hoist
the read out of the loops altogether are not modelled; every loop calls a
function the compiler cannot see into.

The owner is one thread. With `ChecksResult` it looks at what `start()` returns:
it stops a server that has started and starts one that has not. Without, it calls
`stop()` after every `start()`, as `ut/JTCP/ut_server.cpp` does.

| Run | Instance | Question |
|---|---|---|
| `faults` | every call may fail, in the loop too, `listen_max_num` -1, 0 and 1 | never two epoll threads, never `get()` on an invalid future; what `start()` returns is true; when `stop()` has returned no thread is left and the flag is clear (`StopLeavesClean`); every call returns; `ThreadContract` is kept |
| `unchecked` | an owner that does not check, `bind` may fail | finding: `stop()` throws |
| `staleflag` | `epoll_wait` may fail | finding: `stop()` waits for ever |

The history variable `stale` says that the last `start()` was called with the flag
still set, by a thread that has failed. It is the one way to mislead `start()`,
and the only exception `StartTellsTruth`, `StopLeavesClean` and `CallsReturn` make; `staleflag`
shows what comes of it.

`TCPServer` takes the well-behaved owner: `Start` after `Stop`, or first of all, and
never on a flag that is still set, which is what the run `staleflag` is about.

`MaxStarts` 3 lets a start follow a stop and a failed start; nothing else grows.
`FairSpec` assumes weak fairness of the owner *within* a call and of the epoll
thread: each is straight-line code whose calls return (100 ms, one second).
Nothing makes the owner call anything. Deadlock checking is off because a
destroyed server, and an exception that nobody catches, are ends.

## 5. `Stream` and `Echo`: the bytes

**`Stream`** is one TCP connection as Linux shows it to the programs at its ends. An
end's outgoing stream is the sequence of all bytes it has written (`wire`), with
two offsets: delivered to the other end's receive buffer (`dlv`), and read there
(`rcv`). `Deliver` moves a byte, if the receive buffer has room. Closing with
unread data, or delivery to a closed end, answers with a reset: `err` goes to
`"reset"`, is reported by one call as -1, and is then `"pipe"`, where `read`
returns 0 and `send` raises SIGPIPE; an end that had seen the FIN before goes to
`"pipe"` at once. A reset overtakes what is still on its way.

**`Echo`** puts a program with a `TCPClient` at one end and the new-client callback of
`example/server.cpp` at the other. Byte *i* is the *i*-th the program passes to
`sendData`, so order, loss and duplication can be told.

| Action | Code |
|---|---|
| `CreateNew`, `CreateNewFails` | `TCPClient::createNew`, `socket` and `connect` with their early returns |
| `SendData`, `SendWrites` | `TCPClient::sendData`: one blocking `send`, which writes as room appears |
| `SendCutShort`, `SendInterrupted` (`SendStops`) | the same `send`, cut short by a reset or by a signal: it returns what it has written, which `sendData` reports as success, or -1 if that is nothing |
| `RecvData`, `RecvReads`, `RecvEndOfFile` | `TCPClient::recvData`: one blocking `recv`; a 0 is a success |
| `RecvFails`, `RecvInterrupted` | the same `recv`, ended by a reset or by a signal |
| `Destroy` | the last `shared_ptr` goes, `FileDescribe` closes |
| `Accept` | the epoll thread comes to the connection and calls the callback |
| `ReadData`, `ReadFails` | `TCPPeerClient::readData`; -1 (EAGAIN included) or 0 calls `delClient`, the callback returns and the peer is closed |
| `SendBack`, `SendBackFails`, `SendBackKills` | `TCPPeerClient::sendData` on a non-blocking socket: writes what there is room for, fails with EAGAIN or a reset, or raises SIGPIPE; after a failure the callback returns and leaves the client in the map (`sv = "quit"`) |

`ReadRefused` and `SendRefused` say when `read` and `send` of the server's socket return
without having moved a byte. On the non-blocking socket `setFileDiscribeBlock` makes
that is whenever they would otherwise wait. Their variants `ReadRefused_Blocks` and
`SendRefused_Blocks` are a socket left blocking: with the one, a callback waits in
`readData` and the program in `recvData` (`ClientCallsReturn` fails); with the other,
the program and the callback wait for each other in `send`, with all four buffers
full (`NobodyIsStuck` fails).

**`ReplyContract`** is what the program may rely on, whatever is cut short or fails: the
bytes that come back are some of those it has sent, in order and once; they are
the first it has sent, without a gap, as long as no `sendData` of either end has
been cut short (`intact`), and what is lost is lost for good; nothing comes back
after an end of file. `EchoContract` maps `asked` to `pos`, `back` to the read part
of the server's stream (`Back`), and `intact` to "everything passed to `sendData`
and not in work is in the client's stream, and the server's sends were whole".
So an interrupted `sendData` of the client counts against `intact` too, whether it
reported a success or a failure.

The history variable `short` names the ends whose `sendData` has reported a
success with bytes left over. `TCPClient::sendData` does not say so at all;
`TCPPeerClient::sendData` returns the length, which the example does not look at.

| Run | Instance | Question |
|---|---|---|
| `echo` | buffers of 2 bytes, chunks of 2, 10 bytes passed 2 or 8 at a time, signals and failing calls | what comes back was read, is in order and never doubled; complete while no send of the server is short; complete when the client meets end of file; `ReplyContract` is kept; the ends never wait for each other with nothing under way (`NobodyIsStuck`); no call of the client waits for ever and the server's end is closed, unless the callback has given up |
| `sigpipe` | buffers of 2 bytes, chunks of 1, 2 bytes passed 1 or 2 at a time | finding: the second reply to a client that has gone kills the server |

**Bounds.** `MaxBytes` 10 is what it takes for both ends to be in `send` with all four
buffers full, which is the situation `NobodyIsStuck` is about: two bytes in each of the four
buffers, one in the callback's chunk, and one that `sendData` has still to write. The
program gets there with a `sendData` of 2 and one of 8, and no `recvData` between. Sends of 2 between reads give the short exchanges. A chunk of 2 against
room of 0, 1 or 2 makes the server's sends fail, short by one, or whole. Nothing else grows.

**Fairness.** A call that can go on does, the callback is straight-line code, the
network delivers. A signal may end a wait and never has to: `Signal` is not in
`ClientStep`, so a blocked call returns only because of what the server and the
network do. That `Accept` happens at all is an assumption: this connection
is the only one, so its edge is its own (`HeadAnnounced` in section 3; what happens
with several is the run `stranded`). The program may stop calling at any time,
hence no fairness of `ClientCalls` and `CHECK_DEADLOCK FALSE`.

## 6. Proofs

All for every set of connections, descriptors and threads, every subset of
failing calls, every number of starts, every buffer size and number of bytes. The
assumptions are those the modules name (`KernelAssumption`, `ServerAssumption`,
`LifecycleAssumption`, `StreamAssumption`, `EchoAssumption`): the constants are of
their types, the sets disjoint, the buffers not empty. Where a theorem has more hypotheses
they are named below. Every invariant that a passing run checks is proved, and
so is every refinement.

**`TCPServerProofs`.** `IInv` (`TCPServerInv`) is inductive; theorem `Invariance`.
None of the safety invariants is inductive alone. Its parts and why they are
needed:

* `AliveHasFD`, `DistinctFDs`, `MapKeys`: live peers own distinct descriptors,
  and the map files each under its own. This is what makes a *number* good
  enough for `delClient`, and it holds because a caller of `readData` has a
  `shared_ptr` for as long as `delClient` works on the number.
* `CurIsPrivate`: nobody else knows a peer that is not in the map yet, so nobody
  can delete it between `epoll_ctl` and the insertion.
* `DelClientInv`, `ToldInv`: a client moves from the map to one caller's local
  variable, and then to "told", and never back; what is deregistered stays so.
* `PendingIsNew`, `BatchInv`: a connection that waits has no peer; the listening
  socket is in a batch once and then somebody waits, so `accept` returns.

From `IInv` follow `TypeCorrect`, `AcceptReturns`, `RegistryIsConsistent`,
`DelClientIsPrecise`, `ToldOnce`, `ToldLast` and `NoDescriptorLeak`.

**`ServerContractProofs`.** `ServerKeepsContract`: `Spec => KeepsContract`, with `CInv`
(`IInv`, the epoll thread is in `delClient` only within a callback, the client of
a pending receive callback has been announced). Each action is shown to be a
step of the contract or to leave its variables alone; lemmas `HeldFrame` and
`PhaseFrame` dispose of most of them, and `EraseKeepsHeld` shows that the removal
from the map loses nobody. `HandleClientMsgChooses` is the step that needs most: the
client found in the map is one whose disconnect callback has not been called. `NoLateReceive`: without other threads
(`Thread = {}`), `NoRecvAfterDisconnect`.

**`WakeupProofs`.** Three theorems about edge-triggered notification.

* `NothingIsLost`: `Spec => []NoLostWakeup`. `Wake` strengthens it from "in the map"
  to "in the map or about to be inserted", because the client is registered with
  epoll first, and `Sources` says that the number in an event is still its
  connection's: so `handleClientMsg`, which looks the number up, finds the client
  the event was for, and not another one.
* `ClientsAreServed`: `Spec /\ []LoopSurvives => []MappedIsServed`. As long as the
  epoll thread has not failed, the map is empty whenever the thread is not in its
  loop (`Served`), so a new epoll instance misses nobody. After a failure the
  statement is false: the map outlives the thread (hazard at `server.cpp:66`).
* `NoStaleEvent`: with no other threads and callbacks that read from their own client
  only, `Spec => []EventsAreCurrent`. `Current` adds that what is registered is in the
  map, that no other event of the batch is for the client being served, and that
  the epoll thread deletes no other. The run `unknown` shows that the first
  assumption is needed.

**`SurvivalProofs`.** When the epoll thread does not fail.

* `ThreadSurvives`: `Spec => []LoopSurvives` if no system call fails
  (`Faults = {}`), no other thread reads (`Thread = {}`), callbacks read from their
  own client only (`~Nosy`), and there are at least as many descriptor numbers as
  clients. Two things could still end the thread. `accept` could find no free
  number: `NumbersSuffice` shows that it does not, since while a connection waits
  to be accepted the live peers are others, and if they had all the numbers there
  would be an injection from the numbers into a smaller set. `handleClientMsg`
  could fail to find its client: `LookupSucceeds` shows that it does not, from
  `EventsAreCurrent`, which is where the hypotheses on threads and callbacks are
  needed: the run `unknown` is the counterexample without the first, and a callback
  that reads from another client can delete one whose event waits just as a thread
  can. `Faults` includes callbacks that throw.
* `SurvivorServes`: under the same hypotheses `ClientsAreServed` holds without its
  premise, `Spec => []MappedIsServed`.

**`LifecycleProofs`.** `IInv` ties the future to the owner's place (`FutureInv`) and says
that while `start()` waits the flag of its thread is not cleared (`WaitingInv`);
`FlagInv` says that a flag `start()` finds set is its own thread's or was set
before it began. From these follow `LifecycleTypes`, `OneThread`, `StartIsTruthful`
and, for an owner that checks results, `GetReturns`. Two invariants carry the rest.
`CleanInv` says that a thread that has served sets the flag no more, that a thread on
its way out of the loop, or one that has ended well, leaves it clear, and that it
stays clear while `stop()` waits, unless an old flag had misled the `start()` before
and the thread has yet to set it; `EndInv` adds `StopLeavesClean` itself. They give
`StopIsClean`, and `LifecycleKeepsContract`:
`Spec => KeepsThreadContract`, where `Clear` is a `Finish` because of `CleanInv` and
`Launch` a `Launch` because of `FutureInv` (no thread is at work when `start()` comes to it).

**`EchoProofs`.** `EchoTypes` comes first. For `EchoOrder`, `Sent` says that the client's
stream is numbered in the order of its calls, and `Returned` that all that has come
back is in order and lies before what the callback has not handed to `sendData`
yet (`Base`); `Origin` that the callback has read all of it. For `EchoWhole`,
`Complete` says that without a short send the reply is exactly the program's stream
up to `Base`. `EchoEnds` adds what an end of file means on a sound connection
(`AtEnd`): the server has closed and everything it wrote has been read; with
`Complete`, that is everything it had read.

**`EchoContractProofs`.** `ContractInv` is the conjunction of the parts above with
`Places` (bytes are in work only in `send`; no server side only before `connect`),
`Written` (what is written is at most what is not in work, and numbered from 1
without a gap while it is all of it), `Buffered` (the server never has more under
way than its buffer holds), `Resets` (only a server that has closed breaks the
client's end, the mirror of `Breaks`) and `Ended` (after an end of file nothing
arrives: the server has closed, what was delivered is read, and on a sound
connection everything was delivered).

* `EchoKeepsContract`: `Spec => KeepsReplyContract`. `SendData` is an `Ask`, `RecvReads`
  an `Answer`, `RecvEndOfFile` an `EndOfFile`. Every other step leaves the reply alone
  (`BackStays`: the server's stream only grows) and either loses bytes for good or
  leaves `intact` as it was (`IntactBefore`: what is intact afterwards was before).
* `NoDeadlock`: `Spec => []NobodyIsStuck`. When the callback has gone its end is
  closed and, by `Breaks`, sound: a client in `send` with no room then has bytes
  under way, which will be answered with a reset, and a client in `recv` has bytes
  coming, or a reset, or an end of file. While the callback is at work it can always
  go on, because `SendRefused` and `ReadRefused` cover what `send` and `read` would wait
  for; `Buffered` gives that no room is `Room = 0`.

**Model-checked only.** Every liveness property (`HeadAnnounced`, `WakeupDelivered`,
`CloseNoticed`, `StopCompletes`, `CallsReturn`, `ClientCallsReturn`, `PeerReleased`):
liveness under fairness and ENABLED are outside what TLAPS proves. `NoDeadlock` is
stated with guards instead of ENABLED for that reason, and goes half the way to
`ClientCallsReturn`: that somebody can always go on is proved, that it comes to an
end is checked.

## 7. Findings

Each is a run whose counterexample is a behaviour of the code; PROJECT.json
quotes the statement it contradicts.

| Run | What happens |
|---|---|
| `stranded` | One `accept` per edge: two clients that connect before the epoll thread wakes are one event; the second waits until a third connects. `HeadAnnounced` is what does hold. |
| `eagain` | `readData` takes EAGAIN for a disconnection, so a callback that drains its socket, as edge-triggering demands, deletes a client that is connected. |
| `unknown` | A `readData` of another thread deletes a client between `epoll_wait` and its turn: `m_client_mgr.at` throws, the epoll thread ends, `stop()` rethrows it. |
| `unchecked` | `stop()` after a failed `start()` throws `std::future_error`. |
| `staleflag` | A thread that sets the flag and fails before `start()` looks leaves it true. The next `start()` returns at once, `stop()` clears the flag before that thread sets it, and waits for a server that goes on. |
| `sigpipe` | `send` without MSG_NOSIGNAL: a client that sends twice and leaves without reading has the first reply answered with a reset, and the second raises SIGPIPE, which ends the server process. |

Two more disagreements need no run, since a line shows them:

* `server.h:60` says of `stop` "停止监听" (stop listening), but neither `stop()` nor the
  end of `acceptThreadFunc` touches `m_server_listen_fd`: it stays open and
  listening, and clients go on connecting (`Kernel!Connect` looks at `listening`,
  which `Stop` and `Shutdown` leave alone).
* `server.cpp:225` discards the success that the comment of line 223 promises when
  `F_GETFL` fails. `ConfigFails` models what happens instead: the epoll thread ends.

## 8. Not modelled

* `src/ut/include/doctest.h`, which is nine tenths of the repository's lines
  (7106 of 7951), is a vendored test framework. Of JTCP's own 845 lines, 412
  are mapped; the rest are includes, comments, declarations, getters and printing.
* An `onDisconnect` callback that itself calls `readData`. It is called from
  `delClient` with the client already removed: such a call ends in
  `DelNotRegistered`.
* `setOnRecvDataCB` from another thread while the epoll thread calls the callback
  (a race on a `std::function`), and `setOnNewClient` on a running server.
* Two owners, a second `start()` on a running server, `stop()` from a callback, and
  a server destroyed while it runs or before its peers (`m_server` is a bare
  pointer). Each is a misuse that no document speaks of: the second `start()` waits
  in the assignment of the future for a thread that has no reason to end, the
  `stop()` waits for itself.
* `std::async` failing to create a thread; `listen_max_num <= 0` in `TCPServer`
  (it is in `Lifecycle`).
* The epoll instance's own descriptor: `m_epollfd` is a number that no code closes, so
  every `start()` leaves one open for good (`server.cpp:110`). In the model the new
  instance starts empty, as the code's does, and the numbers are those of the peers.
* A remote client's reset (RST) in `TCPServer`: `read` reports it as -1 instead of 0,
  which takes the same path; that it discards unread data is left out. `Stream` has
  resets.
* In `Echo`: other clients, and a server that is stopped while its callback runs
  (`stop()` waits for the callback). `recvData`'s `len` is the size of the buffer
  and is not changed, as in the code.
* `TCPClient::createNew` on a server that refuses is a failing `connect`; what
  `inet_addr` makes of a malformed address is left out, as are the getters
  `getPeerIP` and `getPeerPort`.

## 9. Plan

The plan of the first inventory is done: `Stream` and `Echo`, the proofs of
`WakeupProofs`, `SurvivalProofs`, and `Lifecycle` without an assumption on the loop, with
`ThreadContract` as what it promises the other models. What could follow, if the code
comes to handle it:

1. a second owner and `stop()` from a callback in `Lifecycle`, once it is decided
   what they should do;
2. the order in which a server and its peers are destroyed, once `m_server` is more
   than a bare pointer.
