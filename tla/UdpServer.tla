----------------------------- MODULE UdpServer ------------------------------
(***************************************************************************)
(* The UDP server on Linux: ServerThreadUdpRoutine with RecvfromData, and  *)
(* what SendData and SendPendingData do when sock_usage_ is                *)
(* SOCK_USAGE_UDP_SERVER (asock_nix_server.hpp, asock_nix_base.hpp).       *)
(*                                                                         *)
(* One context, listen_context_ptr_, serves all peers.  RecvfromData       *)
(* writes udp_remote_addr without ctx_lock; SendData sends to whoever      *)
(* stands there, and what it queues keeps the address it read.  A datagram *)
(* goes whole or not at all.                                               *)
(*                                                                         *)
(* A datagram that is sent is the number of its SendData call, in the      *)
(* order in which the calls got ctx_lock.  Those received are whole        *)
(* messages of this library; a datagram too long for sendto is one of      *)
(* those that are "big".                                                   *)
(***************************************************************************)
EXTENDS Integers, Sequences

CONSTANTS
  Peer,
  Nobody,
  User,         \* threads that call SendData, besides the loop's callbacks
  Loop,         \* the thread of ServerThreadUdpRoutine
  NoThread,
  SockCap,      \* the datagrams that the socket's send buffer holds
  MaxSends,     \* bound on the calls of SendData
  MaxInbound    \* bound on the datagrams that peers send

ASSUME UdpAssumption ==
  /\ Nobody \notin Peer
  /\ Loop \notin User /\ NoThread \notin User \cup {Loop}
  /\ SockCap \in Nat \ {0} /\ MaxSends \in Nat /\ MaxInbound \in Nat

Thread == User \cup {Loop}

VARIABLES
  ctx_lock,           \* the thread that holds the mutex, or NoThread
  pc,
  call,               \* the call of SendData that holds ctx_lock
  udp_remote_addr,    \* the peer whose datagram was received last
  is_sent_pending, pending_send_deque,
  interest, ready,    \* the events epoll watches for, and has reported
  is_need_server_run_,
  socket,             \* "open" or "closed"
  inbox,              \* who sent the datagrams that wait to be received
  arrived,            \* how many have come
  wire,               \* the datagrams the kernel has taken
  buffered,           \* how many of them are still in the send buffer
  calls               \* for each call so far, whether its datagram is too big

lock    == <<ctx_lock, pc>>
pending == <<is_sent_pending, pending_send_deque>>
epoll   == <<interest, ready>>
inward  == <<udp_remote_addr, inbox, arrived>>
outward == <<wire, buffered>>
server  == <<is_need_server_run_, socket>>
vars == <<ctx_lock, pc, call, udp_remote_addr, is_sent_pending, pending_send_deque, interest,
          ready, is_need_server_run_, socket, inbox, arrived, wire, buffered, calls>>

\* meant: the peers that were the last to have sent while the call went on.
NoCall == [id |-> 0, meant |-> {}]
Datagram(c) == [id |-> c.id, meant |-> c.meant, to |-> udp_remote_addr]

\* Where a thread is while it is not in SendData: the loop sends from callbacks.
Home(t) == IF t = Loop THEN "callback" ELSE "idle"

Init ==
  /\ ctx_lock = NoThread
  /\ pc = [t \in Thread |-> IF t = Loop THEN "wait" ELSE "idle"]
  /\ call = NoCall
  /\ udp_remote_addr = Nobody
  /\ is_sent_pending = FALSE /\ pending_send_deque = <<>>
  /\ interest = {"IN"} /\ ready = {}
  /\ is_need_server_run_ = TRUE /\ socket = "open"
  /\ inbox = <<>> /\ arrived = 0
  /\ wire = <<>> /\ buffered = 0
  /\ calls = <<>>

-----------------------------------------------------------------------------
(* The socket: what sendto does with a datagram.                           *)

SendToWorks(d) == socket = "open" /\ ~calls[d.id] /\ buffered < SockCap
WouldBlock(d)  == socket = "open" /\ ~calls[d.id] /\ buffered = SockCap
SendToFails(d) == socket = "closed" \/ calls[d.id]

Goes(d) == wire' = Append(wire, d) /\ buffered' = buffered + 1

Acquire(t, at) == ctx_lock = NoThread /\ ctx_lock' = t /\ pc' = [pc EXCEPT ![t] = at]
Release(t, at) == ctx_lock' = NoThread /\ pc' = [pc EXCEPT ![t] = at]

-----------------------------------------------------------------------------
(* SendData.                                                               *)

Calls(t, big) ==
  /\ pc[t] = Home(t)
  /\ udp_remote_addr # Nobody
  /\ Len(calls) < MaxSends
  /\ calls' = Append(calls, big)

\* Mutant: sends at once although there is something in the queue.
SendDataAtOnce(t, big) ==
  /\ Calls(t, big)
  /\ Acquire(t, "send")
  /\ call' = [id |-> Len(calls) + 1, meant |-> {udp_remote_addr}]
  /\ UNCHANGED <<pending, epoll, server, inward, outward>>

\* The call, up to the first sendto or, behind what is pending, ControlEpoll.
SendData(t, big) ==
  LET new == [id |-> Len(calls) + 1, meant |-> {udp_remote_addr}]
  IN  /\ Calls(t, big)
      /\ \/ /\ is_sent_pending
            /\ Acquire(t, "queued")
            /\ pending_send_deque' = Append(pending_send_deque, Datagram(new))
            /\ UNCHANGED call
         \/ /\ ~is_sent_pending
            /\ Acquire(t, "send")
            /\ call' = new
            /\ UNCHANGED pending_send_deque
      /\ UNCHANGED <<is_sent_pending, epoll, server, inward, outward>>

\* sendto takes the datagram, or fails for good.
SendTo(t) ==
  /\ pc[t] = "send"
  /\ \/ SendToWorks(call) /\ Goes(Datagram(call))
     \/ SendToFails(call) /\ UNCHANGED outward
  /\ call' = NoCall
  /\ Release(t, Home(t))
  /\ UNCHANGED <<pending, epoll, server, inward, calls>>

\* Mutant: what could not be sent is queued without an address.
SendWouldBlockNoAddress(t) ==
  /\ pc[t] = "send"
  /\ WouldBlock(call)
  /\ pending_send_deque' = Append(pending_send_deque, [Datagram(call) EXCEPT !.to = Nobody])
  /\ call' = NoCall
  /\ pc' = [pc EXCEPT ![t] = "queued"]
  /\ UNCHANGED <<ctx_lock, is_sent_pending, epoll, server, inward, outward, calls>>

SendWouldBlock(t) ==
  /\ pc[t] = "send"
  /\ WouldBlock(call)
  /\ pending_send_deque' = Append(pending_send_deque, Datagram(call))
  /\ call' = NoCall
  /\ pc' = [pc EXCEPT ![t] = "queued"]
  /\ UNCHANGED <<ctx_lock, is_sent_pending, epoll, server, inward, outward, calls>>

\* Mutant: what could not be sent is queued, but epoll is not told.
ControlEpollForgotten(t) ==
  /\ pc[t] = "queued" /\ socket = "open"
  /\ is_sent_pending' = TRUE
  /\ Release(t, Home(t))
  /\ UNCHANGED <<call, pending_send_deque, epoll, server, inward, outward, calls>>

\* ControlEpoll(EPOLLIN | EPOLLOUT, EPOLL_CTL_MOD), and SendData returns true.
ControlEpollOut(t) ==
  /\ pc[t] = "queued" /\ socket = "open"
  /\ interest' = {"IN", "OUT"}
  /\ is_sent_pending' = TRUE
  /\ Release(t, Home(t))
  /\ UNCHANGED <<call, pending_send_deque, ready, server, inward, outward, calls>>

\* The socket has been closed: SendData takes its entry back.
ControlEpollFails(t) ==
  /\ pc[t] = "queued" /\ socket = "closed"
  /\ pending_send_deque' = SubSeq(pending_send_deque, 1, Len(pending_send_deque) - 1)
  /\ Release(t, Home(t))
  /\ UNCHANGED <<call, is_sent_pending, epoll, server, inward, outward, calls>>

InSendData(t) ==
  SendTo(t) \/ SendWouldBlock(t) \/ ControlEpollOut(t) \/ ControlEpollFails(t)

-----------------------------------------------------------------------------
(* The loop.  What can be received goes before what can be sent.           *)

LoopGoes(to) == pc' = [pc EXCEPT ![Loop] = to]

\* A socket that is closed is no longer watched.
Events ==
  {e \in {"IN"}  : socket = "open" /\ inbox # <<>>} \cup
  {e \in {"OUT"} : socket = "open" /\ e \in interest /\ buffered < SockCap}

EpollWait ==
  /\ pc[Loop] = "wait" /\ is_need_server_run_
  /\ Events # {} /\ ready' = Events
  /\ LoopGoes("handle")
  /\ UNCHANGED <<ctx_lock, call, pending, interest, server, inward, outward, calls>>

\* A signal interrupts epoll_wait: the thread ends, and the socket stays.
EpollWaitFails ==
  /\ pc[Loop] = "wait" /\ is_need_server_run_
  /\ LoopGoes("exited")
  /\ UNCHANGED <<ctx_lock, call, pending, epoll, server, inward, outward, calls>>

ThreadEnds ==
  /\ pc[Loop] = "wait" /\ ~is_need_server_run_
  /\ LoopGoes("exited")
  /\ UNCHANGED <<ctx_lock, call, pending, epoll, server, inward, outward, calls>>

\* RecvfromData up to the callback.  It does not take ctx_lock: a call that
\* has it may find another address now.
RecvfromData ==
  /\ pc[Loop] = "handle" /\ "IN" \in ready
  /\ socket = "open"
  /\ udp_remote_addr' = Head(inbox) /\ inbox' = Tail(inbox)
  /\ call' = IF call = NoCall THEN call ELSE [call EXCEPT !.meant = @ \cup {Head(inbox)}]
  /\ LoopGoes("callback")
  /\ UNCHANGED <<ctx_lock, pending, epoll, server, arrived, outward, calls>>

\* Nothing is received from a closed socket.
RecvfromDataFails ==
  /\ pc[Loop] = "handle" /\ "IN" \in ready
  /\ socket = "closed"
  /\ LoopGoes("wait")
  /\ UNCHANGED <<ctx_lock, call, pending, epoll, server, inward, outward, calls>>

CallbackReturns ==
  /\ pc[Loop] = "callback"
  /\ LoopGoes("wait")
  /\ UNCHANGED <<ctx_lock, call, pending, epoll, server, inward, outward, calls>>

\* EPOLLOUT was reported for something that is still queued.
SendPendingData ==
  /\ pc[Loop] = "handle" /\ ready = {"OUT"}
  /\ Acquire(Loop, "pending")
  /\ UNCHANGED <<call, pending, epoll, server, inward, outward, calls>>

\* Mutant: a queued datagram goes to the address of the context.
PendingSendToLast ==
  /\ pc[Loop] = "pending" /\ pending_send_deque # <<>>
  /\ LET first == Head(pending_send_deque)
     IN  SendToWorks(first) /\ Goes([first EXCEPT !.to = udp_remote_addr])
  /\ pending_send_deque' = Tail(pending_send_deque)
  /\ IF Tail(pending_send_deque) = <<>>
     THEN is_sent_pending' = FALSE /\ interest' = {"IN"} /\ Release(Loop, "wait")
     ELSE UNCHANGED <<lock, is_sent_pending, interest>>
  /\ UNCHANGED <<call, ready, server, inward, calls>>

\* Mutant: one that sendto does not take is dropped.
PendingWouldBlockDropping ==
  /\ pc[Loop] = "pending" /\ pending_send_deque # <<>>
  /\ WouldBlock(Head(pending_send_deque))
  /\ pending_send_deque' = Tail(pending_send_deque)
  /\ Release(Loop, "wait")
  /\ UNCHANGED <<call, is_sent_pending, epoll, server, inward, outward, calls>>

\* The first one is sent; behind the last, epoll is to watch for EPOLLIN alone.
\* (That fails if StopServer closes the socket in between; the thread ends
\* then in any case, and nothing is queued any more.)
PendingSend ==
  /\ pc[Loop] = "pending" /\ pending_send_deque # <<>>
  /\ SendToWorks(Head(pending_send_deque)) /\ Goes(Head(pending_send_deque))
  /\ pending_send_deque' = Tail(pending_send_deque)
  /\ IF Tail(pending_send_deque) = <<>>
     THEN is_sent_pending' = FALSE /\ interest' = {"IN"} /\ Release(Loop, "wait")
     ELSE UNCHANGED <<lock, is_sent_pending, interest>>
  /\ UNCHANGED <<call, ready, server, inward, calls>>

PendingWouldBlock ==
  /\ pc[Loop] = "pending" /\ pending_send_deque # <<>>
  /\ WouldBlock(Head(pending_send_deque))
  /\ Release(Loop, "wait")
  /\ UNCHANGED <<call, pending, epoll, server, inward, outward, calls>>

\* DoSendPendingFailed terminates the only "client", which closes the server's
\* socket and puts the context into the cache; the thread ends for all peers.
PendingFails ==
  /\ pc[Loop] = "pending" /\ pending_send_deque # <<>>
  /\ SendToFails(Head(pending_send_deque))
  /\ socket' = "closed" /\ interest' = {}
  /\ is_sent_pending' = FALSE /\ pending_send_deque' = <<>>
  /\ Release(Loop, "exited")
  /\ UNCHANGED <<call, ready, is_need_server_run_, inward, outward, calls>>

LoopStep ==
  \/ EpollWait \/ ThreadEnds
  \/ RecvfromData \/ RecvfromDataFails \/ CallbackReturns
  \/ SendPendingData \/ PendingSend
  \/ PendingWouldBlock \/ PendingFails

-----------------------------------------------------------------------------
(* The network, and StopServer up to where it waits for the thread.        *)

Arrives(p) ==
  /\ socket = "open" /\ arrived < MaxInbound
  /\ inbox' = Append(inbox, p) /\ arrived' = arrived + 1
  /\ UNCHANGED <<lock, call, udp_remote_addr, pending, epoll, server, outward, calls>>

Drain ==
  /\ buffered > 0 /\ buffered' = buffered - 1
  /\ UNCHANGED <<lock, call, pending, epoll, server, inward, wire, calls>>

StopServer ==
  /\ is_need_server_run_ /\ socket = "open"
  /\ socket' = "closed"
  /\ UNCHANGED <<lock, call, pending, epoll, is_need_server_run_, inward, outward, calls>>

\* (If a failed send has closed the socket, StopServer's close() does nothing.)
StopServerFlag ==
  /\ is_need_server_run_ /\ socket = "closed"
  /\ is_need_server_run_' = FALSE
  /\ UNCHANGED <<lock, call, pending, epoll, socket, inward, outward, calls>>

Next ==
  \/ \E t \in Thread, big \in BOOLEAN : SendData(t, big)
  \/ \E t \in Thread : InSendData(t)
  \/ LoopStep \/ EpollWaitFails
  \/ \E p \in Peer : Arrives(p)
  \/ Drain \/ StopServer \/ StopServerFlag

Spec == Init /\ [][Next]_vars

\* A thread that is in the library goes on, and the network takes what was
\* sent; nobody is obliged to call.
FairSpec ==
  /\ Spec
  /\ WF_vars(LoopStep) /\ WF_vars(Drain)
  /\ \A t \in Thread : WF_vars(InSendData(t))

-----------------------------------------------------------------------------
Message == [id : 1 .. MaxSends, meant : SUBSET Peer, to : Peer]

(* Every variable has its type.                                            *)
TypeOK ==
  /\ ctx_lock \in Thread \cup {NoThread}
  /\ pc \in [Thread -> {"idle", "wait", "handle", "callback", "send", "queued",
                        "pending", "exited"}]
  /\ call \in [id : 0 .. MaxSends, meant : SUBSET Peer]
  /\ udp_remote_addr \in Peer \cup {Nobody}
  /\ is_sent_pending \in BOOLEAN /\ pending_send_deque \in Seq(Message)
  /\ interest \subseteq {"IN", "OUT"} /\ ready \subseteq {"IN", "OUT"}
  /\ is_need_server_run_ \in BOOLEAN /\ socket \in {"open", "closed"}
  /\ inbox \in Seq(Peer) /\ arrived \in 0 .. MaxInbound
  /\ wire \in Seq(Message) /\ buffered \in 0 .. SockCap
  /\ calls \in Seq(BOOLEAN) /\ Len(calls) <= MaxSends

(* Whoever calls SendData, at once or by way of the queue a datagram goes  *)
(* to a peer that was the last to have sent while SendData went on; what   *)
(* a callback sends goes to the peer it was called for, whoever has sent   *)
(* since.                                                                  *)
RightPeer ==
  /\ \A i \in 1 .. Len(wire) : wire[i].to \in wire[i].meant
  /\ \A i \in 1 .. Len(pending_send_deque) :
       pending_send_deque[i].to \in pending_send_deque[i].meant

Increasing(ds) == \A i, j \in 1 .. Len(ds) : i < j => ds[i].id < ds[j].id
Ids(ds) == {ds[i].id : i \in 1 .. Len(ds)}

(* Datagrams leave once each and in the order of the calls, those that     *)
(* were queued before those that could be sent at once.                    *)
DatagramsInOrder ==
  /\ Increasing(wire) /\ Increasing(pending_send_deque)
  /\ \A i \in Ids(wire), j \in Ids(pending_send_deque) : i < j
  /\ call # NoCall => \A i \in Ids(wire) \cup Ids(pending_send_deque) : i < call.id

(* While the socket is open no datagram that can be sent is dropped.       *)
NothingLost ==
  socket = "open" =>
    \A i \in 1 .. Len(calls) :
      calls[i] \/ i \in Ids(wire) \cup Ids(pending_send_deque) \cup {call.id}

(* The thread will be woken for what is queued, and not otherwise.         *)
WillBeWoken ==
  ctx_lock = NoThread /\ socket = "open" =>
    /\ is_sent_pending <=> pending_send_deque # <<>>
    /\ "OUT" \in interest <=> pending_send_deque # <<>>

(* What is queued is sent once the peers leave the thread the time, unless *)
(* the socket is closed or the thread has ended.                           *)
SentLater ==
  pending_send_deque # <<>> ~>
    pending_send_deque = <<>> \/ socket = "closed" \/ pc[Loop] = "exited"
=============================================================================
