# ASockLib in TLA+

ASockLib is a header-only C++ socket library: servers and clients for TCP, UDP
and UNIX-domain (IPC) sockets, on Linux (epoll), macOS (kqueue) and Windows
(completion ports).  It frames messages on a byte stream, collects what arrives
in a ring buffer, calls the user back with whole messages and queues what the
socket would not take.  This directory holds TLA+ models of its core, the TLC
runs that check them on small instances, and TLAPS proofs for every instance.

Paths below are relative to `src/include/asock/internal/` unless they say
otherwise.

## 1. The system

### Components

| component | source | state | operations |
|---|---|---|---|
| ring buffer | `asock_buffer.hpp` | `buffer_ptr_`, `buffer_len_`, `cumulated_len_`, `cur_read_`, `cur_write_`, `is_infinite_buffer_` | `Init`, `InitAutoGrowing`, `Append`, `PeekData`, `ConsumeData`, `GetData`, `GetLinearFreeSpace`, `GetLinearAppendPtr`, `IncreaseData`, `IncreaseBufferAndCopyExisting`, `ReSet` |
| receiving on a stream | `asock_nix_base.hpp:167-230, 378-455` | `Context::recv_buffer`, `is_packet_len_calculated`, `complete_packet_len`; `max_data_len_` of the endpoint | `RecvData`, `OnCalculateDataLen`, the callback `recv_cb_` |
| sending on a stream | `asock_nix_base.hpp:60-166, 294-376` | `Context::ctx_lock`, `pending_send_deque`, `is_sent_pending`; the events epoll watches for | `SendData` (any thread), `SendPendingData` (the loop), `ControlEpoll` |
| datagrams | `asock_nix_base.hpp:60-166, 459-513`, `asock_nix_server.hpp:317-373` | as above, one context for all peers, its `udp_remote_addr` | `RecvfromData`, UDP branches of `SendData` and `SendPendingData` |
| POSIX server | `asock_nix_server.hpp`, cache in `asock_nix_base.hpp:549-613` | `map_sock_ctx_`, `queue_ctx_cache_`, `client_cnt_`, `is_need_server_run_`, `is_server_running_`, one thread | `RunServer`, `AcceptNewClient`, `TerminateClient`, `ServerThreadRoutine`, `StopServer`, `ClearServer` |
| POSIX client | `asock_nix_client.hpp` | `is_connected_`, `is_client_thread_running_`, `is_server_disconnted_cb_invoked_`, one context, one thread | `ConnectToServer`, `RunClientThread`, `ClientThreadRoutine`, `Disconnect` |
| kqueue variant | `#ifdef __APPLE__` branches of the three above | same | `ControlKq` |
| Windows | `asock_win_base.hpp`, `asock_win_server.hpp`, `asock_win_client.hpp` | contexts with a count of outstanding I/O, two caches, worker threads, a completion port | accept and worker threads, `IssueRecv`, `SendData`, `TerminateClient`, ... |
| shared types | `asock_comm.hpp` | - | header layout, `PENDING_SENT`, `Context` |
| public wrappers | `src/include/asock/asock_*_{server,client}.hpp` | parameters | set up a socket, then `RunServer` / `ConnectToServer` |

### How they interact

* A **user thread** calls `SendData` on a context.  It adds the header
  (`asock_nix_base.hpp:67-72`), takes `ctx_lock`, and either queues the frame
  behind what is already pending or calls `send()` until everything is out or
  the socket is full; then the rest is queued and epoll is told to watch for
  `EPOLLOUT`.
* The **loop thread** (one for a server, one for a client) waits in
  `epoll_wait`, and for each reported socket receives (`RecvData`), *or else*
  sends what is pending (`SendPendingData`, under `ctx_lock`).  An error or the
  end of the stream closes the connection.
* `RecvData` receives straight into the free part of the ring that lies in one
  piece, then takes out as many whole frames as there are and gives each to the
  user's **callback**, on the loop's thread.  Callbacks call `SendData`.
* A server's contexts are **reused**: `TerminateClient` resets a context into
  the cache, `AcceptNewClient` takes one out.  A client reuses its only one.
* Shared between threads: the pending queue and its flags (under `ctx_lock`),
  the life of the context and the run flags (atomics or nothing).

### What is hard here, and what makes each part correct

| component | hard | correct if |
|---|---|---|
| ring buffer | wrap-around, split appends, growing a wrapped ring, full against empty when both positions are equal | it is a bounded FIFO queue of bytes, whatever the calls |
| receiving | frames cut anywhere; several per `recv()`; growing in the middle; reuse of the context | each message is delivered whole, in order, once; nothing complete is left waiting; never a `recv()` for 0 bytes |
| sending | several threads and the loop on one socket, partial writes, three variables that must agree, the socket ending at any moment | frames leave in order, unmixed, complete; `SendData` returns; what is queued is sent |
| datagrams | short datagrams, the address of a queued one | one callback per datagram; an answer goes to the peer it is for |
| server | context reset while a user's thread uses it, reuse of contexts, stop from a callback | a context belongs to one client; a client's failure does not touch the others; stop ends |
| client | flags written by two threads, reconnect racing the old thread | connected implies a thread that receives; `Disconnect` ends the old thread |
| Windows server | completions in any order on several workers, count of outstanding I/O | a context is reused only with nothing outstanding; each client ends once |

`PROJECT.json` lists these hazards one by one under `hazards`, with the line
where each bites and the properties that cover it.

## 2. The modules

```
  ByteFifo  <------ CumBufferSpec ------> CumBuffer <------ RecvData ----> MessageChannel
  (abstract)  IsFifo     |                (operators)          |  IsChannel   (abstract)
                    MCCumBuffer                           RecvDataProofs
                    CumBufferProofs --> CumBufferLemmas <------'

  NixSend <---- NixSendProofs        NixClient <---- NixClientProofs
     ^                ^
  StreamLink <---- RecvDataProofs    UdpServer <---- UdpServerProofs
     v
  RecvData

  NixServer <---- NixServerProofs    WinServer <---- WinServerProofs
     |                                  |
     '---> ClientCallbacks (abstract) <-'  IsCallbacks
```

### CumBuffer, CumBufferSpec, ByteFifo

`CumBuffer` has the ring as a record and one operator for each thing the class
computes: `AppendResult` / `Appended` (with the AUTO GROW branches
`asock_buffer.hpp:112-231` as `AppendGrows`, `Straightened`), `ReadResult`,
`Peeked`, `Consumed`, `GetLinearFreeSpace`, `LinearAppendPtr`,
`DirectlyWritten` (`GetLinearAppendPtr` and `IncreaseData`),
`IncreaseBufferAndCopyExisting`, `ReSet`.  A block that has been allocated and
not written holds `Junk`, so that reading one is visible.

`CumBufferSpec` makes them actions on one object.  The calls on a buffer never
overlap in the library (a buffer belongs to the loop's thread), so that a call is
one step.  Two methods have a precondition that the class does not test and the
actions have: `DirectWrite` needs a buffer that is not full,
`IncreaseBufferAndCopyExisting` unread bytes that do not wrap (`IsStraight`).
`RecvData` has neither as a guard: there they must follow, or not
(`recv_grow` below).

`ByteFifo` is what a user of the class expects: a queue with a capacity, the
bytes in order, and the result codes.  `IsFifo` is the refinement.

### RecvData, MessageChannel

`RecvData` composes the ring with the framing.  A byte is its position in the
stream, a frame is an interval of positions.  The actions follow
`RecvData` (`asock_nix_base.hpp:378-455`): `RecvSome(k)` is `recv()` returning
any `k` that the linear space and the stream allow; `RecvNothing` is
`EWOULDBLOCK`; then the `while` loop, one round a step: `MoreToCome`,
`CalculateLen` (with `OnCalculateDataLen`, which may grow the ring),
`NeedMore`, `DeliverPacket`, `PacketFails`, `LoopEnd`.  `Close` is what happens to
the context when `RecvData` returns false: a server resets it whole
(`PushClientContextToCache`, `:571-588`), a client leaves it as it is.  `PacketFails` is a failed
allocation (`:414-417`), the only way out of a round that gives up; `GetData` (`:419-425`) cannot fail there.
`Reconnect` is what the next connection starts with: for `Role = "server"` a context that was reset,
or a new one (`PopClientContextFromCache`, `:549-568`), for `Role = "client"` the same context with its
buffer reset and nothing else (`ConnectToServer`, `asock_nix_client.hpp:280-283`).
`MemorySpec` is `Spec` without `PacketFails`; the run `recv_reconnect` takes it, so that its connection
ends only by the peer's doing.
If the bytes in the place of a header are no header, `HeaderValue` lets `atoi`
return any length that is sent at all.

`MessageChannel` has only `sent` and `delivered`; `IsChannel` is the refinement.

### NixSend

Threads, `ctx_lock`, the queue, epoll and the kernel's send buffer.  A frame is
given the interval of the stream it should occupy when its thread gets the lock;
the wire is right if it counts 0, 1, 2, ...  `SendData` takes the lock and is
then a sequence of steps (`SendSome(k)`, `SendWouldBlock`, `SendFails`,
`ControlEpollOut`, `ControlEpollFails`) among which the peer, the loop and the
other threads take theirs; `SendPendingData` and the `Pending...` actions are the
loop's part, also under the lock.  The other loop actions are the `else if` chain
of `ServerThreadRoutine` (`asock_nix_server.hpp:283-309`) and
`ClientThreadRoutine` (`asock_nix_client.hpp:174-226`): first errors, then
`EPOLLIN`, then `EPOLLOUT`.  `ready` is the array `ep_events_`; the client also
goes by it after a timeout (`EpollWaitTimeout`).  The connection may be ended or
reset by the peer at any moment; the model follows it until the loop has closed it (`CloseSocket`) and, if
`role` is `"server"`, has gone on to `PushClientContextToCache`, which clears `is_sent_pending` and empties the queue.
It does so without `ctx_lock` (which the loop holds only where it comes from `SendPendingData`), and therefore also
while another thread is between queueing its frame and `ControlEpoll`; that thread's `pop_back()` is then undefined, and
followed no further than that the queue stays empty.

`send()` is assumed to fail for good only on a connection that is reset or closed: on one that is up it is interrupted
and tried again, or would block.  An error on a connection that is up, for want of kernel memory perhaps, would have
`SendData` return false after part of a frame has gone (`asock_nix_base.hpp:153-158`) and the next frame go
behind that part; the properties of `NixSend` hold under this assumption.

### StreamLink

One direction of one connection: `NixSend` (as the instance `Sender`) at one end, `RecvData` at
the other, both with all their steps.  They share `start`, the frames that `SendData` has begun, and the
bytes: `RecvSent(k)` is `RecvData`'s `recv()` given the next `k` bytes of `wire`, what the kernel has
taken from `send()`, whatever they are.  What each module takes for granted of its peer is thereby what
the other does: in `RecvData` alone the stream is right by definition, here only if the sender makes it so.
`QuietMeansDelivered` can be said of the whole only: with no call, queue, byte in a socket or unread byte
about, every message has reached the callback.

### NixClient

The life of a client, two threads over three flags.  The user's thread (`main`)
is in `InitTcpClient` / `ConnectToServer` (`InitClient`, `ConnectToServer`,
`RunClientThread`, `SetClientThreadRunning`), in `Disconnect` (`DisconnectClose`,
`DisconnectFlag`, `DisconnectWait`, `DisconnectReturn`) or outside; the client thread
(`thread`) goes round `ClientThreadRoutine`.  Each flag is read and written in a
step of its own, because both threads do.  Sockets are numbered as they are made;
`socket` is `client_ctx_.socket`, which every connection overwrites, `watched`
the socket epoll was told of, and `queued` whose bytes are in the pending queue.
`ep_events_` keeps what epoll wrote last and is handled again after a timeout.
A callback may call `Disconnect`.

### NixServer

A server's clients and contexts.  `thread` goes round `ServerThreadRoutine`: a batch of
at most `max_event_` events, each for the listening socket (`HandleListener`,
`AcceptNewClient`, ...) or a client; `TerminateClient`, `OnClientDisconnected`
and `PushClientContextToCache` are the three parts of `TerminateClient`, between
which users' threads take steps.  They are in `SendData` (`GetLock`, `SendSome`,
`Queue`, `ControlEpollOut`, ...) with a context they were given for a client; what
they send is known only by the client it is meant for, and `misled` collects the clients that
are sent anything meant for another.  Users are well-behaved: no call begins on a context
after `OnClientDisconnected` has told of its client's end (`known`).  A call that has begun
before is the user's no more, and the library resets the context under it
without taking `ctx_lock`; the variable `overlapped` says that this has happened.

### ClientCallbacks

What a user of a server may rely on in `OnClientConnected` and `OnClientDisconnected`: each at most
once for a client, in this order, and between them a context that no other client has.  It knows nothing
of threads, caches, events or completions; both servers implement it.  `Silent` is what sets them
apart: on Windows a client whose next receive cannot be issued loses its context without a word.
The refinement mapping of `NixServer` is `known` and `Told` (who is not known any more has been
closed, if ever accepted), that of `WinServer` `told` and the contexts in use.

### UdpServer

`ServerThreadUdpRoutine` (`asock_nix_server.hpp:317-373`) and the UDP branches of
`SendData` and `SendPendingData`.  One context serves all peers: `RecvfromData` writes
`udp_remote_addr` without `ctx_lock`, `SendTo` and `SendWouldBlock` read it while the loop may be receiving
the next datagram.  A datagram is the number of its `SendData` call with the address it is to go to;
`meant` is the set of peers that were the last to have sent at some moment of the call, the only peers
a caller could have had in mind.  `SendTo`, `SendWouldBlock`, `ControlEpollOut` and `ControlEpollFails`
are the steps under the lock, as in `NixSend`; a datagram goes whole or not at all, so that nothing is partly sent.
`PendingFails` is `DoSendPendingFailed`: the "client" it terminates is the server's own
context, whose socket is closed, and the thread ends.
`StopServer` closes the socket and then clears `is_need_server_run_`, in two steps (`StopServer`, `StopServerFlag`).

### WinServer

The TCP and IPC server on Windows (`asock_win_server.hpp`).  `acceptor` goes round
`AcceptThreadRoutine`, each `worker` round `WorkerThreadRoutine`, `sender` are users'
threads in `SendData`, and `main` runs and stops the server.  The completion port is what
is outstanding: `receiving` on each client, `sending`, and the contexts in the `IO_QUIT` packets,
`quits`; a worker takes any of it (`TakeData`, `TakeEnd`, `TakeSent`, `TakeQuit`).
The accept thread tests `is_need_accept_` as it comes back to its loop (`Loops`, `:677`) and calls `WSAAccept` in a
later step (`Accept`, `AcceptFails`, `AcceptThreadEnds`), by when `StopServer` may have cleared it: a client
is accepted all the same, and a failed accept calls `exit()` (`:689-691`), after which no thread takes a step (`Exited`).
A worker that takes an `IO_QUIT` packet counts itself among those that have quit (`TakeQuit`, up to `:933`)
and compares the count in a step of its own (`QuitCompare`, `:934-938`).  A failed `WSASend` gives its record back
(`WSASendFails`) and then closes whatever socket the context has by then (`CloseFailed`, `:123-128`).
`PeerEnds` is a close or a reset of the peer's: the calls on a connection that has ended may fail or not.
`IssueRecv` is two steps (`AcceptIssue` and `AcceptCount`, `WorkerIssue` and
`WorkerCount`), because `recv_ref_cnt` is increased only after `WSARecv` has been issued
(`:490`), between which another worker may take the completion.  `TakeEnd` with a count
that is not zero leaves the client to a receive that may not exist (`:778`, `:831`);
such clients are collected in `excused`, together with those whose next receive could
not be issued and whose contexts are freed without a callback (`:724-729`, `:844-853`).
`PopClientContextFromCache` and `PopPerIoDataFromCache` are the two caches with their growth.

## 3. What TLC checks

| run | properties | what it shows |
|---|---|---|
| `cumbuffer` | `TypeOK`, `IsFifo` | the ring is a bounded FIFO |
| `recv` | `TypeOK`, `AssertFreeSpace`, `NothingHeldBack`, `IsChannel` (of which `InOrder` is a part), `AllDelivered` | a server receives every message whole, in order, at once; nothing leaks through the reuse of a context |
| `send` | `TypeOK`, `WireInOrder`, `NothingLost`, `WillBeWoken`, `SendReturns`, `SentLater` | two user threads and the loop of a client or a server share a socket without mixing, losing or forgetting anything |
| `client` | `TypeOK`, `Served`, `WaitsForThread`, `DisconnectReturns`, `HearsOfEnd` | a connected client has a thread that receives on its socket and hears of its end; `Disconnect` returns and ends the thread |
| `server` | `TypeOK`, `Exclusive`, `OwnBytes`, `CountOfClients`, `IsCallbacks`, `HearsOfEnd`, `StopReturns` | contexts go from client to client without mixing them; the callbacks come once each and in order; ends are reported; `StopServer` returns |
| `udp` | `TypeOK`, `RightPeer`, `DatagramsInOrder`, `NothingLost`, `WillBeWoken`, `SentLater` | datagrams for several peers over one context go to the right peer, in order; none is lost or forgotten in the queue |
| `win_server` | `TypeOK`, `Exclusive`, `CountsReceives`, `CountOfClients`, `RecordsAccounted`, `NoThreadAtWork`, `IsCallbacks`, `HearsOfEnd`, `StopReturns` | whatever order completions are taken in, contexts belong to one client, the callbacks come once each and in order, the counts are right, ends are reported, `StopServer` returns (or the accept thread exits the program) and leaves no thread that handles a client |
| `recv_grow` | `InOrder`, violated | growing a wrapped ring tears the frame apart |
| `recv_reconnect` | `InOrder`, violated | the length of a frame that a client has read in part lives on into the next connection |
| `send_starved` | `SentLater`, violated | a peer that keeps sending keeps the queue from being sent |
| `client_disconnect` | `DisconnectWaits`, violated | `Disconnect` returns before the thread has ended |
| `server_serves_on` | `ServesOn`, violated | a failed send to one client ends the server's thread |

**Bounds.**  `cumbuffer`: initial lengths 3 and 4, growth to at most 6 (once),
chunks of 1, 2, 3 and 7 bytes, so that a chunk fits, fits split, needs growth,
or is longer than the block; every position of `cur_read` and `cur_write`
occurs.  `recv`: header of 2, buffer of 5, payloads 0 (header only) and 3
(exactly the buffer), first payload 1 or 5 (longer than the buffer: it grows to
14), 3 frames, 2 connections: frames wrap at every offset, `recv()` returns parts of
headers and several frames, the context is reused after every kind of end.
`send`: frames of 1 and 3 bytes, a socket for 2: one frame fits, one cannot
go at once; 3 frames among 3 threads: one partly sent, one queued behind it, one
sent from a callback; both roles, so that the context is reset under a call too.  `client`: three connections, so that one is made after
a `Disconnect`, after the server has left, and over a connection that still stands; a signal may end
the thread at any `epoll_wait`.  `server`: two clients and two contexts, so that both are there at
once or the second gets the context of the first; two events a batch of up to
three ready; two calls of `SendData`, the second finding `is_sent_pending` set by the first.
`udp`: two peers, two users' threads and the loop's callbacks, three calls
and three datagrams received, a send buffer for one: one datagram goes, one is queued after
`EWOULDBLOCK`, one behind it, while the address changes to and fro.  `win_server`: two
workers, the least for which one takes a receive the other has not counted; two clients
and `max_event_` of 1, so that a context is reused or another one is built; one send outstanding, and one more
being made; every interleaving of the accept thread's and the workers' ends with `StopServer`.  No client connects or ends once `StopServer` has been called (workers may still
handle what came before), and the two `IO_QUIT` packets are posted in one step; both
only cut down the states.  With these bounds the cache of send records never grows.
`StreamLink.cfg` is a small instance of the link (two messages, a ring of 3, a send buffer of 2, one user's
thread) for `TypeOK`, `InOrder`, `AssertFreeSpace`, `NothingHeldBack`, `QuietMeansDelivered` and `IsChannel`, kept
beside the proofs; it is not among the runs of `PROJECT.json`, because its properties are proved for every instance.
`MaxCalls`, `MaxSends`, `MaxFrames`, `MaxConnections`, `MaxInbound` and `MaxLen` only
bound the state space.

**Deadlock** is not checked where the system may stop: all frames sent and the
connection closed.  `cumbuffer` checks it.

**Fairness.**  Receiving: weak fairness of `RecvSome` and of the rounds of the
loop.  epoll is used level-triggered, so a socket with data is reported until it
is read, and `RecvData` runs to its end.  The peer and `recv()` owe nothing
else: it may return one byte at a time.  Sending: weak fairness of the loop and of each
thread *inside* `SendData`.  Nobody must call and the peer need not
read.  Getting the lock needs no more than weak fairness because the calls are
bounded, so that the lock becomes free for good; of users who call without end
nothing is claimed (`std::mutex` lets them keep the loop out).  Client and server: weak
fairness of the loop and of the calls in progress (`connect`, `epoll_wait` and the waits in
`Disconnect` and `StopServer` all have timeouts; callbacks return), and, for the server,
strong fairness of each socket's being reported (`Reports`): epoll takes the ready sockets in
turn when there are more than `max_event_`.  `SentLater` has the peer's reading as its premise.
UDP server: weak fairness of the loop, of threads inside `SendData` and of the network's taking what
is in the send buffer; a signal may end the thread and need not.  Windows server: weak
fairness of what a thread does with the packet it has taken and of `StopServer`'s steps; strong fairness of
some worker's taking an ended receive or an `IO_QUIT` packet (`TakesLast`), which stands for the completion
port's being a queue: such a packet may wait while workers are busy with others, but not for ever.  One condition for
all of them is weaker than the queue and enough: there is one packet for each client's end and one for each worker, so
that they cannot keep one another waiting for ever.

**Mutants.**  Each property has a mutated action beside the action it mutates
(comment `Mutant:`), the bug that property is there to catch: a dropped
lock, an `if` for a `while`, a forgotten reset.  They are not part of any
specification.

### Disagreements with the documentation

The violated properties are statements of the repository's own documents:

* `recv_grow` - "if it exceeds the buffer, dynamic memory allocation occurs
  internally" (`asock_tcp_server.hpp:17-18`).  It does, but
  `IncreaseBufferAndCopyExisting` copies the block as it lies: if the unread bytes
  wrap, cells that were never received are taken for part of the frame.
* `recv_reconnect` - "When all user data is received, the user-specified callback
  is called" (`src/README.md:9`).  A client whose connection was cut in the middle of a frame and that reconnects calls
  it with the first bytes of the new connection cut to the old frame's length.
* `send_starved` - "added to the queue and sent later" (`src/README.md:10-11`).
  Not while the peer has always something for us to receive.
* `client_disconnect` - "Disconnects from the server and waits for the client thread
  to terminate" (`asock_nix_client.hpp:95`).  Once the server has left, on this or an
  earlier connection, it does not wait.
* `server_serves_on` - "the server keeps running" (`asock_nix_server.hpp:202`, in
  Korean; `asock_nix_base.hpp:365`: "only the client is ended").  `SendPendingData`
  returns false all the same and the loop returns.

Some behaviours that look wrong contradict no document; the models have them, and the properties are
stated so as to say what holds nevertheless:

* A signal that interrupts `epoll_wait` ends a client's thread (`asock_nix_client.hpp:176`) with no
  callback and `is_connected_` still true (`Served` and `HearsOfEnd` are about threads that were not
  interrupted).  If it comes before `RunClientThread` sets `is_client_thread_running_`
  (`:157`), the flag stays true with no thread, and a `Disconnect` that waits for it waits for
  ever; `DisconnectReturns` leaves that case out.
* A datagram the kernel refuses after it was queued closes the UDP server's socket (`PendingFails`).
* On Windows a client's end is not reported if the completion that brings it is taken before the receive was
  counted (`excused`), nor if the next receive cannot be issued; an accept thread that starts late may
  set `is_server_running_` again and keep `StopServer` waiting (`StopReturns` takes it for started); a connection reset
  before it is accepted ends the accept thread, and the whole program if `StopServer` has cleared `is_need_accept_`
  since the loop's test of it (`asock_win_server.hpp:689-691`; `StopReturns` is stated up to this).
* On Windows `StopServer` may return while a worker is between counting itself among those that have quit and comparing
  the count (`asock_win_server.hpp:933-934`), and so still reads the object the caller may now destroy.
  `NoThreadAtWork` says what is true: every worker has taken its packet and none handles a client.
* A server resets a context without taking `ctx_lock`: a `SendData` that has queued its frame and finds that `ControlEpoll`
  fails meets an empty deque with `pop_back()` (`asock_nix_base.hpp:87-99`).  A client's never does
  (`TakesBackItsOwn`).

## 4. What is proved

TLAPS, for every value of the constants that satisfies the modules' named
assumptions.

**Ring buffer** (`CumBufferLemmas`, `CumBufferProofs`): `Spec => []TypeOK`,
`Spec => []NoJunk` (no cell that was never written is among the unread bytes), `Spec => IsFifo`.  The inductive invariant is
`TypeOK /\ NoJunk`.  The lemmas reduce each method to what it does to `Content`,
the unread bytes in order: it `Extends` them by a chunk, `Drops` a prefix, or
keeps them; the arithmetic of positions stays in those lemmas.

**Receiving** (`RecvDataProofs`): for every header length, buffer length, set
of payloads, number of frames and connections, any way of cutting the stream, and a server's or a client's
context.  There are two ways for `RecvData` to go wrong, the two violated runs', and the proofs say
that there are no others.  `TakesCare` excludes just these two, as properties of steps:

* `GrowsStraight`: when `OnCalculateDataLen` enlarges the ring its bytes do not wrap;
* `StartsAfresh`: a connection does not begin with a length calculated on the last one.

`CarefulIsChannel` is `Spec /\ TakesCare => IsChannel` and `CarefulIsSafe` the same for `TypeOK`,
`InOrder`, `AssertFreeSpace` and `NothingHeldBack`; both assume only that a header fits the initial buffer.  When is care
taken?  `FittingTakesCare`: `GrowsStraight` holds if every frame but the first of a connection fits the
initial buffer (`FramesFit`), for both roles; its invariant `Fit` says that as long as nothing has been
delivered the ring has never been read and so does not wrap.  `ServerTakesCare`: a server resets the rest,
so that `FramesFit` and `Role = "server"` suffice for all five properties, as the run `recv` has them: not for
all lengths, but for frames that fit, a connection's first excepted.  Of longer later ones `recv_grow` shows the contrary.

`InOrder` alone is not inductive.  `IInv` adds: the frames lie one behind the other
(`StreamOK`); the ring holds exactly the bytes from the current frame's start to
`net` (`BufferHolds`); a calculated length is the current frame's
(`LengthOK`); a waiting receiver has less than it needs (`WaitsForMore`, from
which `AssertFreeSpace` follows).

**Sending** (`NixSendProofs`): `TypeOK`, `WireInOrder`, `NothingLost` and
`WillBeWoken` hold of `Spec` for any number of threads and frames, any frame
lengths, any send buffer and both roles, from `ThreadAssumption`,
`FrameLenAssumption` and `SockCapAssumption` alone.  `IInv` adds what holds
*inside* the critical sections, where the properties say nothing: `LockOK`, a
thread is at one of the four places under the lock exactly if `ctx_lock` is
its own; `RestOK`, the frame in hand starts where the wire ends and nothing is
queued; `FlagsOK`, the queue, `is_sent_pending` and epoll's events agree except
between queueing the rest of a frame and telling epoll.  `StreamOK` is
`NothingLost` in the form the queue lemmas (`AppendFollows`, `TailFollows`,
`PrependFollows`) need.

Those are about a connection that is up.  `MoreInductive` is about every state, also when `ControlEpoll` fails
because the loop has closed the socket under a call, and bytes are lost: a thread that is to take
back what it has queued finds its own entry last, or, in a server whose loop has reset the context meanwhile, an empty
queue, never another's entry (`TakesBackItsOwn`); no byte goes out or waits that
no call was given (`SendsNothingElse`).  `ClosingOK` adds that the loop is between closing and
resetting only in a server, and that the connection is then closed.  Two theorems are about `ctx_lock` itself: only who
holds it writes to the socket (`HolderSends`), and who holds it has a step of its own to take
(`LockIsGivenBack`), from the room in the socket: `send()` takes something, would block or fails,
and none of the three waits for the peer.  This is the safety half of `SendReturns`.

**A whole connection** (`RecvDataProofs`, about `StreamLink`): `LinkIsChannel` and `LinkIsSafe`, from
`FramesFit` and what `NixSend` assumes of its constants (`SenderAssumptions`), for any roles at the two ends.
No condition on the peer is left, and none on `Role`, because there is one connection.  First, a step of
the link is one of `NixSend` or leaves it alone, so that `NixSendProofs`' theorems hold of it (`LinkSender`).
By `WireInOrder` the bytes `recv()` is given are the next ones of the stream, by
`SendsNothingElse` they are of frames that have been begun: so a step of the link is one of `RecvData`'s (`LinkIsRecvData`),
and its theorems hold as well.  `LinkLosesNothing` is `QuietMeansDelivered`, from `NothingLost` at the one
end and `NothingHeldBack` at the other.

**Client** (`NixClientProofs`): `TypeOK` and `WaitsForThread` hold for any number of
connections, `Served` too (it is about threads that no signal has ended).  The inductive
invariant `FlagsInv` adds `ThreadIsFlagged`, a thread runs without
`is_client_thread_running_` only until `RunClientThread` has set it, and
`UndisturbedOK`: until the server first leaves, the user is outside a connection only with the flag
cleared, and inside one only with `is_connected_` set.  `ThreadServes` is `Served` from
the start of the thread on.  All of it has the first leaving of the server as its
limit, because nothing resets `is_server_disconnted_cb_invoked_` afterwards.  Without that limit:
`OneThreadAtATime`, `RunClientThread` never starts a second client thread beside the first, with
which it would share the context and `ep_events_`.

**Datagrams** (`UdpServerProofs`): `TypeOK`, `RightPeer`, `DatagramsInOrder`, `NothingLost` and
`WillBeWoken` for any number of peers, threads and datagrams and any send buffer, from
`UdpAssumption` alone.  `IInv` adds: a thread is under the lock exactly if it has it
(`LockOK`); what was reported to be received is still there, because only the loop receives
(`ReadyOK`); the call under the lock has the highest number and the context's address is one of those meant
(`CallOK`); `OrderOK` is `DatagramsInOrder` with bounds on the numbers; `FlagsOK` as in `NixSend`.
`TakesBackItsOwn` and `HolderSends` are as for `NixSend`.

**POSIX server** (`NixServerProofs`): `TypeOK`, `Exclusive`, `OwnBytes` and `CountOfClients` for any set of
contexts and of users' threads and any number of clients and calls, from `NixServerAssumption` alone.
`IInv` adds to `Exclusive` what keeps it: a context nobody has names no socket (`MapOK`); who waits to be
accepted has no context yet (`BacklogOK`); only contexts in use have events, and the one being terminated is in use
and has none left, or the loop would handle an event of a context in the cache (`LoopOK`);
users know only clients in the map, and no longer the one whose context is pushed (`KnownOK`);
`client_cnt_` is one behind between `TerminateClient`'s count and the map's erasure (`CountOK`).
`OwnBytes` follows from `OwnOK`: until a context is reset under a call, every call has the context of the client
it is for (`CallsOK`) and what is pending is for the context's client (`PendingOK`).

`ImplementsCallbacks` is `Spec => IsCallbacks`, step by step: `AcceptNewClient` maps to
`OnClientConnected`, the step `OnClientDisconnected` to its namesake, all others to stutters; it needs
that a client is closed only as the loop terminates it and is still known then (`ToldOK`).
`LocksHeldByRunners` is `HoldersRun`, that nobody waits in a circle: a held `ctx_lock` is either
a call's that is past `GetLock`, on that context, or the loop's while it terminates the context's client,
and neither needs another lock.  It holds also where a context has been reset under a call, because
`Reset` leaves a user's lock alone.  It is the safety half of `StopReturns`.

**Windows server** (`WinServerProofs`): `TypeOK`, `Exclusive`, `CountsReceives`, `CountOfClients`,
`RecordsAccounted` and `NoThreadAtWork` for any number of workers, users' threads and clients, from
`WinServerAssumption` alone.  `IInv` adds, client by client (`TokenOK`): a receive or one thread stands for the
client, `recv_ref_cnt` is the receives less the threads that have yet to count, a thread that ends a
client (`Final`) means nobody has still to count, and without a receive not all threads are about to count, which
bounds `recv_ref_cnt` from below.  `PoolOK`: every context built is in the cache, in an `IO_QUIT` packet or with a
client, and one that nobody has is blank.  `StopOK`: the workers that have taken
their `IO_QUIT` packet, gone or about to compare, are `cur_quit_cnt_`, and `is_server_running_` is cleared only when all have.
`ImplementsCallbacks` is `Spec => IsCallbacks`: `Accept` maps to `OnClientConnected`, `TerminateClient` to
`OnClientDisconnected`, a failed `IssueRecv` that frees the context to `Dropped`.
`PostsForEachWorker` is `PacketForEach`: once `StopServer` has posted there are as many `IO_QUIT` packets as
workers that have not taken theirs, so that none waits for a packet that will not come and none is left over.

**Only model-checked**: liveness (`AllDelivered`, `SendReturns`,
`SentLater`, `DisconnectReturns`, `HearsOfEnd`, `StopReturns`), which needs fairness and `ENABLED`,
out of this prover's reach; of the waiting in them, the theorems above on locks and packets prove
that it is for a thread that can go on.  All other properties of the passing runs are proved.
The violated runs are counterexamples and need no proof.

## 5. What is not modelled

* The failure of the second allocation inside a growing `Append`
  (`asock_buffer.hpp:114-131`), after which the object has no block at all.
* The text of the header: the models take it for the number it stands for, so a
  length of more digits than the header holds is out of reach.
* Malformed headers sent by a peer, datagrams shorter than a header; `exit()` when the ring cannot grow.
* `SIGPIPE`: the models let `send()` return an error.  A `send()` that fails on a connection that is up (see `NixSend`).
* kqueue: the same functions with one event per filter.
* Of the client: its destructor, several user threads calling `Disconnect`, descriptors
  that something else in the process reuses.  A second `InitTcpClient` after the server has left
  (which returns true without connecting) is modelled, and what is left in the pending queue for the
  next connection too, but no document says what should happen.
* Of the server: the failures of `RunServer`, a second `RunServer` or `StopServer`,
  the destructor, `StopServer` or `SendData` from a callback (a frame sent from a
  callback is `NixSend`'s).
* Of datagrams: the client, whose loop is that of `NixClient` and whose address never changes; UDP on
  Windows; `StopServer` beyond its wait: if the loop has closed the socket itself, the context is deleted
  twice (`asock_nix_server.hpp:129`), which is undefined.
* Of the Windows server: partial sends (`asock_win_server.hpp:890-912`), whose record is deleted through a pointer
  that `new` did not return; a completion without an `OVERLAPPED`; failed allocations and a failed
  `CreateIoCompletionPort`, which call `exit()`; the second `StopServer`,
  which could not return because `cur_quit_cnt_` is never reset; UDP; what is sent and received, and to
  whom it goes if a context is reused under a `SendData`.
* `win_base`'s framing, the POSIX algorithm on completed reads; the Windows client (see the plan).
* Wrappers, samples, build files: straight-line setup or users of the library.

## 6. Plan

In this order, each with its runs before its proofs:

1. **done** `CumBuffer`, `ByteFifo`, `CumBufferSpec` and their proofs.
2. **done** `RecvData`, `MessageChannel` and their proofs.
3. **done** `NixSend` and its proofs.
4. **done** `NixServer`, `ClientCallbacks` and their proofs.  Left: a second run of the server.
5. **done** `NixClient` and its proofs.
6. **done** `UdpServer` and its proofs.
7. **done** `WinServer` and its proofs.  Left: `WinClient`, the `WSAEventSelect` thread with its own pending queue.
8. **done** `StreamLink`: a connection end to end, and its proofs.  Left: both directions at once, with
   replies sent from callbacks.
9. An abstract specification of what `SendData` promises (accepted frames leave in order or the connection ends)
   for `NixSend` to implement, and of a client's life for `NixClient`.
