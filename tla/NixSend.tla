------------------------------- MODULE NixSend -------------------------------
(***************************************************************************)
(* The sending half of a TCP or IPC endpoint on Linux: ASockBase::SendData *)
(* called by any thread, SendPendingData called by the thread that runs    *)
(* the epoll loop (ClientThreadRoutine, ServerThreadRoutine), and the      *)
(* socket between them and the peer (asock_nix_base.hpp).                  *)
(*                                                                         *)
(* A frame is the interval of positions it has in the stream that results  *)
(* from putting the frames one behind the other in the order in which      *)
(* their SendData calls got ctx_lock: wire is right if it counts 0, 1, ... *)
(*                                                                         *)
(* The connection is followed until the loop has closed it and, in a       *)
(* server, reset its context.  send() is taken to fail for good only on a  *)
(* connection that is reset or closed: on one that is up it gives EINTR,   *)
(* after which the code tries again, or EWOULDBLOCK.                       *)
(***************************************************************************)
EXTENDS Integers, Sequences, FiniteSets

CONSTANTS
  User,         \* threads that call SendData, besides the loop's callbacks
  Loop,         \* the thread of the epoll loop
  NoThread,
  FrameLen,     \* lengths of the frames that are sent
  SockCap,      \* what the socket's send buffer holds
  MaxFrames,    \* bound on the calls of SendData
  MaxInbound,   \* bound on the times the peer sends something
  Chatty,       \* TRUE: the peer sends without that bound
  Roles         \* which endpoints are looked at, of "server" and "client"

ASSUME ThreadAssumption == Loop \notin User /\ NoThread \notin User \cup {Loop}
ASSUME FrameLenAssumption == FrameLen \subseteq Nat \ {0}
ASSUME SockCapAssumption == SockCap \in Nat \ {0}
ASSUME RolesAssumption == Roles \subseteq {"server", "client"} /\ Chatty \in BOOLEAN

Thread == User \cup {Loop}

VARIABLES
  ctx_lock,     \* the thread that holds the mutex, or NoThread
  pc,
  rest,         \* what the thread in SendData has still to send of its frame
  is_sent_pending,
  pending_send_deque,
  interest,     \* the events epoll watches the socket for
  ready,        \* those it has reported to the loop
  conn,         \* "open", "ended" and "reset" by the peer, "closed" by the loop
  start,        \* where each frame starts in the stream; last, where the next will
  wire,         \* the bytes the kernel has taken
  role,         \* which endpoint this is
  drained,      \* how many of them the peer's side has taken from the send buffer
  inbound,      \* TRUE: there is something to receive
  arrived       \* how often there has been

lock    == <<ctx_lock, pc>>
pending == <<is_sent_pending, pending_send_deque>>
epoll   == <<interest, ready>>
stream  == <<start, wire>>
peer    == <<role, drained, inbound, arrived>>
vars == <<ctx_lock, pc, rest, is_sent_pending, pending_send_deque, interest, ready,
          conn, start, wire, role, drained, inbound, arrived>>

Bytes(from, n) == [i \in 1 .. n |-> from + i - 1]
Nothing == [at |-> 0, n |-> 0]

SentEnd == start[Len(start)]

\* Where a thread is while it is not in SendData: the loop sends from callbacks.
Home(t) == IF t = Loop THEN "callback" ELSE "idle"

Init ==
  /\ ctx_lock = NoThread
  /\ pc = [t \in Thread |-> IF t = Loop THEN "wait" ELSE "idle"]
  /\ rest = Nothing
  /\ is_sent_pending = FALSE /\ pending_send_deque = <<>>
  /\ interest = {"IN"} /\ ready = {}
  /\ conn = "open"
  /\ start = <<0>> /\ wire = <<>>
  /\ role \in Roles
  /\ drained = 0 /\ inbound = FALSE /\ arrived = 0

-----------------------------------------------------------------------------
(* The socket.                                                             *)

Room == SockCap - (Len(wire) - drained)

SendWorks == conn \in {"open", "ended"}

\* What epoll_wait reports.
Events ==
  {e \in {"IN"}  : inbound \/ conn # "open"} \cup
  {e \in {"OUT"} : e \in interest /\ (Room > 0 \/ conn = "reset")} \cup
  {e \in {"ERR"} : conn = "reset"}

\* send() takes the first k bytes of x, as many as it has room for or fewer.
Takes(x, k) ==
  /\ SendWorks
  /\ k \in 1 .. x.n /\ k <= Room
  /\ wire' = wire \o Bytes(x.at, k)

\* EWOULDBLOCK
WouldBlock == SendWorks /\ Room = 0

Acquire(t, at) == ctx_lock = NoThread /\ ctx_lock' = t /\ pc' = [pc EXCEPT ![t] = at]
Release(t, at) == ctx_lock' = NoThread /\ pc' = [pc EXCEPT ![t] = at]

-----------------------------------------------------------------------------
(* SendData.                                                               *)

\* Mutant: sends at once although there is something in the queue.
SendDataAtOnce(t, n) ==
  /\ pc[t] = Home(t)
  /\ Len(start) <= MaxFrames
  /\ start' = Append(start, SentEnd + n)
  /\ Acquire(t, "send")
  /\ rest' = [at |-> SentEnd, n |-> n]
  /\ UNCHANGED <<pending, epoll, conn, wire, peer>>

\* The call, up to the first send() or, behind what is pending, ControlEpoll.
SendData(t, n) ==
  /\ pc[t] = Home(t)
  /\ Len(start) <= MaxFrames
  /\ start' = Append(start, SentEnd + n)
  /\ \/ /\ is_sent_pending
        /\ Acquire(t, "queued")
        /\ pending_send_deque' = Append(pending_send_deque, [at |-> SentEnd, n |-> n])
        /\ UNCHANGED rest
     \/ /\ ~is_sent_pending
        /\ Acquire(t, "send")
        /\ rest' = [at |-> SentEnd, n |-> n]
        /\ UNCHANGED pending_send_deque
  /\ UNCHANGED <<is_sent_pending, epoll, conn, wire, peer>>

SendSome(t, k) ==
  /\ pc[t] = "send"
  /\ Takes(rest, k)
  /\ \/ /\ k < rest.n
        /\ rest' = [at |-> rest.at + k, n |-> rest.n - k]
        /\ UNCHANGED lock
     \/ /\ k = rest.n
        /\ rest' = Nothing
        /\ Release(t, Home(t))
  /\ UNCHANGED <<pending, epoll, conn, start, peer>>

\* Mutant: tries again until there is room.
SendRetried(t) ==
  /\ pc[t] = "send"
  /\ WouldBlock
  /\ UNCHANGED vars

SendWouldBlock(t) ==
  /\ pc[t] = "send"
  /\ WouldBlock
  /\ pending_send_deque' = Append(pending_send_deque, rest)
  /\ rest' = Nothing
  /\ pc' = [pc EXCEPT ![t] = "blocked"]
  /\ UNCHANGED <<ctx_lock, is_sent_pending, epoll, conn, stream, peer>>

SendFails(t) ==
  /\ pc[t] = "send"
  /\ ~SendWorks
  /\ rest' = Nothing
  /\ Release(t, Home(t))
  /\ UNCHANGED <<pending, epoll, conn, stream, peer>>

\* Mutant: what remains is queued, but epoll is not told.
ControlEpollForgotten(t) ==
  /\ pc[t] \in {"blocked", "queued"}
  /\ conn # "closed"
  /\ is_sent_pending' = TRUE
  /\ Release(t, Home(t))
  /\ UNCHANGED <<rest, pending_send_deque, epoll, conn, stream, peer>>

\* ControlEpoll(EPOLLIN | EPOLLOUT, EPOLL_CTL_MOD), and SendData returns true.
ControlEpollOut(t) ==
  /\ pc[t] \in {"blocked", "queued"}
  /\ conn # "closed"
  /\ interest' = {"IN", "OUT"}
  /\ is_sent_pending' = TRUE
  /\ Release(t, Home(t))
  /\ UNCHANGED <<rest, pending_send_deque, ready, conn, stream, peer>>

\* It fails once the socket is closed: SendData takes its entry back.  If a
\* server's loop has emptied the queue since, there is none: pop_back() is then
\* undefined, and is followed no further than that the queue stays empty.
ControlEpollFails(t) ==
  /\ pc[t] \in {"blocked", "queued"}
  /\ conn = "closed"
  /\ pending_send_deque' = SubSeq(pending_send_deque, 1, Len(pending_send_deque) - 1)
  /\ Release(t, Home(t))
  /\ UNCHANGED <<rest, is_sent_pending, epoll, conn, stream, peer>>

InSendData(t) ==
  \/ \E k \in 1 .. SockCap : SendSome(t, k)
  \/ SendWouldBlock(t) \/ SendFails(t)
  \/ ControlEpollOut(t) \/ ControlEpollFails(t)

-----------------------------------------------------------------------------
(* The loop.  An error goes before what can be received, and that before    *)
(* what can be sent.                                                        *)

LoopGoes(to) == pc' = [pc EXCEPT ![Loop] = to]

EpollWait ==
  /\ pc[Loop] = "wait"
  /\ Events # {}
  /\ ready' = Events
  /\ LoopGoes("handle")
  /\ UNCHANGED <<ctx_lock, rest, pending, interest, conn, stream, peer>>

\* The client does not look at the number of events: after a timeout it goes
\* by what the array ep_events_ says from the time before.
EpollWaitTimeout ==
  /\ pc[Loop] = "wait"
  /\ role = "client"
  /\ Events = {} /\ ready # {}
  /\ LoopGoes("handle")
  /\ UNCHANGED <<ctx_lock, rest, pending, epoll, conn, stream, peer>>

\* A client's thread is then at its end.  A server's TerminateClient goes on to
\* PushClientContextToCache.
CloseSocket ==
  /\ conn' = "closed" /\ interest' = {}
  /\ UNCHANGED <<rest, pending, ready, stream, peer>>

\* EPOLLERR, or RecvData has come to the end of what the peer sent.
LoopClose ==
  /\ pc[Loop] = "handle"
  /\ "ERR" \in ready \/ ("IN" \in ready /\ ~inbound /\ conn # "open")
  /\ CloseSocket
  /\ LoopGoes(IF role = "server" THEN "closed" ELSE "exited")
  /\ UNCHANGED ctx_lock

\* RecvData gets something and calls back, once for each message.
LoopRecv ==
  /\ pc[Loop] = "handle"
  /\ "ERR" \notin ready /\ "IN" \in ready
  /\ inbound
  /\ inbound' = FALSE
  /\ LoopGoes("callback")
  /\ UNCHANGED <<ctx_lock, rest, pending, epoll, conn, stream, role, drained, arrived>>

LoopRecvNothing ==
  /\ pc[Loop] = "handle"
  /\ "ERR" \notin ready /\ "IN" \in ready
  /\ ~inbound /\ conn = "open"
  /\ LoopGoes("wait")
  /\ UNCHANGED <<ctx_lock, rest, pending, epoll, conn, stream, peer>>

CallbackReturns ==
  /\ pc[Loop] = "callback"
  /\ LoopGoes("wait")
  /\ UNCHANGED <<ctx_lock, rest, pending, epoll, conn, stream, peer>>

\* Mutant: SendPendingData without its lock_guard.
SendPendingDataUnlocked ==
  /\ pc[Loop] = "handle"
  /\ ready = {"OUT"}
  /\ LoopGoes("pending")
  /\ UNCHANGED <<ctx_lock, rest, pending, epoll, conn, stream, peer>>

\* SendPendingData gets ctx_lock.
SendPendingData ==
  /\ pc[Loop] = "handle"
  /\ ready = {"OUT"}
  /\ Acquire(Loop, "pending")
  /\ UNCHANGED <<rest, pending, epoll, conn, stream, peer>>

PendingNothing ==
  /\ pc[Loop] = "pending"
  /\ pending_send_deque = <<>>
  /\ Release(Loop, "wait")
  /\ UNCHANGED <<rest, pending, epoll, conn, stream, peer>>

\* Mutant: what remains of the first entry goes back to the queue even if it is empty.
PendingSendKeepingEmpty(k) ==
  /\ pc[Loop] = "pending"
  /\ pending_send_deque # <<>>
  /\ LET first == Head(pending_send_deque)
     IN  /\ Takes(first, k)
         /\ pending_send_deque' = <<[at |-> first.at + k, n |-> first.n - k]>>
                                   \o Tail(pending_send_deque)
  /\ Release(Loop, "wait")
  /\ UNCHANGED <<rest, is_sent_pending, epoll, conn, start, peer>>

\* Mutant: what send() did not take of the first entry is dropped.
PendingSendDropping(k) ==
  /\ pc[Loop] = "pending"
  /\ pending_send_deque # <<>>
  /\ Takes(Head(pending_send_deque), k)
  /\ pending_send_deque' = Tail(pending_send_deque)
  /\ \/ /\ Tail(pending_send_deque) = <<>>
        /\ is_sent_pending' = FALSE
        /\ interest' = {"IN"}
        /\ Release(Loop, "wait")
     \/ /\ Tail(pending_send_deque) # <<>>
        /\ UNCHANGED <<lock, is_sent_pending, interest>>
  /\ UNCHANGED <<rest, ready, conn, start, peer>>

\* A whole entry goes out, the last one or another; or part of one.
PendingSend(k) ==
  /\ pc[Loop] = "pending"
  /\ pending_send_deque # <<>>
  /\ LET first  == Head(pending_send_deque)
         others == Tail(pending_send_deque)
     IN  /\ Takes(first, k)
         /\ \/ /\ k = first.n /\ others = <<>>
               /\ pending_send_deque' = <<>>
               /\ is_sent_pending' = FALSE
               /\ interest' = {"IN"}
               /\ Release(Loop, "wait")
            \/ /\ k = first.n /\ others # <<>>
               /\ pending_send_deque' = others
               /\ UNCHANGED <<lock, is_sent_pending, interest>>
            \/ /\ k < first.n
               /\ pending_send_deque' = <<[at |-> first.at + k, n |-> first.n - k]>> \o others
               /\ Release(Loop, "wait")
               /\ UNCHANGED <<is_sent_pending, interest>>
  /\ UNCHANGED <<rest, ready, conn, start, peer>>

PendingWouldBlock ==
  /\ pc[Loop] = "pending"
  /\ pending_send_deque # <<>>
  /\ WouldBlock
  /\ Release(Loop, "wait")
  /\ UNCHANGED <<rest, pending, epoll, conn, stream, peer>>

\* DoSendPendingFailed closes the socket; SendPendingData has ctx_lock meanwhile.
PendingFails ==
  /\ pc[Loop] = "pending"
  /\ pending_send_deque # <<>>
  /\ ~SendWorks
  /\ CloseSocket
  /\ IF role = "server" THEN LoopGoes("failed") /\ UNCHANGED ctx_lock
                        ELSE Release(Loop, "exited")

\* It empties the queue without taking ctx_lock, which the loop has only if it
\* comes from SendPendingData: another thread may be in SendData.
PushClientContextToCache ==
  /\ pc[Loop] \in {"closed", "failed"}
  /\ is_sent_pending' = FALSE /\ pending_send_deque' = <<>>
  /\ LoopGoes("exited")
  /\ ctx_lock' = IF pc[Loop] = "failed" THEN NoThread ELSE ctx_lock
  /\ UNCHANGED <<rest, epoll, conn, stream, peer>>

LoopStep ==
  \/ EpollWait \/ EpollWaitTimeout
  \/ LoopClose \/ LoopRecv \/ LoopRecvNothing \/ CallbackReturns
  \/ SendPendingData \/ PendingNothing
  \/ \E k \in 1 .. SockCap : PendingSend(k)
  \/ PendingWouldBlock \/ PendingFails
  \/ PushClientContextToCache

-----------------------------------------------------------------------------
(* The peer and the network.                                               *)

Drain ==
  /\ conn \in {"open", "ended"}
  /\ \E k \in drained + 1 .. Len(wire) : drained' = k
  /\ UNCHANGED <<lock, rest, pending, epoll, conn, stream, role, inbound, arrived>>

PeerSends ==
  /\ conn = "open"
  /\ ~inbound /\ inbound' = TRUE
  /\ Chatty \/ arrived < MaxInbound
  /\ arrived' = IF Chatty THEN arrived ELSE arrived + 1
  /\ UNCHANGED <<lock, rest, pending, epoll, conn, stream, role, drained>>

PeerEnds(how) ==
  /\ conn = "open" \/ (conn = "ended" /\ how = "reset")
  /\ conn' = how
  /\ UNCHANGED <<lock, rest, pending, epoll, stream, peer>>

Next ==
  \/ \E t \in Thread, n \in FrameLen : SendData(t, n)
  \/ \E t \in Thread : InSendData(t)
  \/ LoopStep
  \/ Drain \/ PeerSends
  \/ \E how \in {"ended", "reset"} : PeerEnds(how)

Spec == Init /\ [][Next]_vars

\* A thread that is in the library goes on; nobody is obliged to call it, and
\* the peer need not read.
Fairness == WF_vars(LoopStep) /\ \A t \in Thread : WF_vars(InSendData(t))

FairSpec == Spec /\ Fairness

-----------------------------------------------------------------------------
Piece == [at : Nat, n : Nat]
Entry == [at : Nat, n : Nat \ {0}]

TypeOK ==
  /\ ctx_lock \in Thread \cup {NoThread}
  /\ pc \in [Thread -> {"idle", "wait", "handle", "callback", "send", "blocked",
                        "queued", "pending", "closed", "failed", "exited"}]
  /\ rest \in Piece
  /\ is_sent_pending \in BOOLEAN
  /\ pending_send_deque \in Seq(Entry)
  /\ interest \subseteq {"IN", "OUT"} /\ ready \subseteq {"IN", "OUT", "ERR"}
  /\ conn \in {"open", "ended", "reset", "closed"}
  /\ start \in Seq(Nat) /\ wire \in Seq(Nat)
  /\ role \in Roles
  /\ drained \in Nat /\ drained <= Len(wire)
  /\ inbound \in BOOLEAN /\ arrived \in Nat

(* The bytes of the frames leave in order, none is left out and none goes  *)
(* twice, whichever threads send and whatever part of a frame send() takes.*)
WireInOrder == \A i \in 1 .. Len(wire) : wire[i] = i - 1

\* The first byte that neither the wire nor the entries 1 .. i have.
EndOf(i) == IF i = 0 THEN Len(wire)
            ELSE pending_send_deque[i].at + pending_send_deque[i].n

(* While the connection is up every byte of every frame taken on is on the *)
(* wire, queued, or in the hands of the thread in SendData; the queue goes *)
(* on where the wire ends, without a gap.                                  *)
NothingLost ==
  SendWorks =>
    /\ \A i \in 1 .. Len(pending_send_deque) : pending_send_deque[i].at = EndOf(i - 1)
    /\ SentEnd = EndOf(Len(pending_send_deque)) + rest.n

(* The loop will be woken to send what is queued: while something is,      *)
(* is_sent_pending says so and epoll watches for EPOLLOUT, and not when    *)
(* nothing is (EPOLLOUT would report an empty buffer for ever).            *)
WillBeWoken ==
  ctx_lock = NoThread /\ conn # "closed" =>
    /\ is_sent_pending <=> pending_send_deque # <<>>
    /\ "OUT" \in interest <=> pending_send_deque # <<>>

(* SendData returns although the peer does not read.                       *)
SendReturns ==
  \A t \in Thread : pc[t] \in {"send", "blocked", "queued"} ~> pc[t] = Home(t)

(* README.md:10-11, what send() would not take is "added to the queue and  *)
(* sent later": it is if the peer goes on reading.                         *)
SentLater ==
  []<>(drained = Len(wire)) =>
    (pending_send_deque # <<>> ~> pending_send_deque = <<>> \/ conn # "open")
=============================================================================
