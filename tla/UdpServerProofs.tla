--------------------------- MODULE UdpServerProofs ---------------------------
(***************************************************************************)
(* What the UDP server sends goes to the right peer, in order, is not lost *)
(* and is not forgotten in the queue: for any number of peers, threads and *)
(* datagrams, and any size of the socket's buffer.                         *)
(***************************************************************************)
EXTENDS UdpServer, SequenceTheorems, TLAPS

\* Where a thread holds ctx_lock.
Holding == {"send", "queued", "pending"}

PcValue == {"idle", "wait", "handle", "callback", "send", "queued", "pending", "exited"}

LockOK == \A t \in Thread : pc[t] \in Holding <=> ctx_lock = t

\* What epoll has reported is still there: only the loop receives.
ReadyOK == pc[Loop] = "handle" /\ "IN" \in ready => inbox # <<>>

CallOK ==
  /\ (\A t \in Thread : pc[t] # "send") => call = NoCall
  /\ \A t \in Thread :
       pc[t] = "send" => /\ call.id = Len(calls) /\ call.id # 0 /\ ~is_sent_pending
                         /\ udp_remote_addr \in call.meant

Right(ds) == \A i \in 1 .. Len(ds) : ds[i].to \in ds[i].meant

OrderOK ==
  /\ Increasing(wire) /\ Increasing(pending_send_deque)
  /\ \A i \in Ids(wire), j \in Ids(pending_send_deque) : i < j
  /\ \A i \in Ids(wire) \cup Ids(pending_send_deque) : i <= Len(calls)
  /\ (\E t \in Thread : pc[t] = "send") =>
       \A i \in Ids(wire) \cup Ids(pending_send_deque) : i < call.id

\* A thread at "queued" has put its datagram into the queue and has yet to
\* say so.
FlagsOK ==
  socket = "open" =>
    /\ "OUT" \in interest <=> is_sent_pending
    /\ (\A t \in Thread : pc[t] # "queued") =>
         (is_sent_pending <=> pending_send_deque # <<>>)
    /\ (\E t \in Thread : pc[t] = "queued") => pending_send_deque # <<>>

IInv ==
  /\ TypeOK /\ LockOK /\ ReadyOK /\ CallOK
  /\ Right(wire) /\ Right(pending_send_deque)
  /\ OrderOK /\ FlagsOK /\ NothingLost

-----------------------------------------------------------------------------
(* Queues of datagrams.                                                     *)

LEMMA AppendDatagram ==
  ASSUME NEW ds \in Seq(Message), NEW d \in Message
  PROVE  /\ Append(ds, d) \in Seq(Message) /\ Append(ds, d) # <<>>
         /\ Ids(Append(ds, d)) = Ids(ds) \cup {d.id}
         /\ Increasing(ds) /\ (\A i \in Ids(ds) : i < d.id) => Increasing(Append(ds, d))
         /\ Right(ds) /\ d.to \in d.meant => Right(Append(ds, d))
<1> DEFINE r == Append(ds, d)
           m == Len(ds)
<1>1. /\ r \in Seq(Message) /\ Len(r) = m + 1 /\ r[m + 1] = d
      /\ \A i \in 1 .. m : r[i] = ds[i]
      /\ m \in Nat
  BY AppendProperties
<1>2. r # <<>>  BY <1>1, EmptySeq
<1> HIDE DEF r, m
<1>3. \A i \in 1 .. m + 1 : i \in 1 .. m \/ i = m + 1  BY <1>1
<1>4. 1 .. m \subseteq 1 .. m + 1 /\ m + 1 \in 1 .. m + 1  BY <1>1
<1>5. Ids(r) = Ids(ds) \cup {d.id}
  <2>1. Ids(r) = {r[i].id : i \in 1 .. m + 1}  BY <1>1 DEF Ids
  <2>2. Ids(ds) = {ds[i].id : i \in 1 .. m}  BY DEF Ids, m
  <2> QED  BY <1>1, <1>3, <1>4, <2>1, <2>2
<1>6. ASSUME Increasing(ds), \A i \in Ids(ds) : i < d.id
      PROVE  Increasing(r)
  <2> SUFFICES ASSUME NEW i \in 1 .. m + 1, NEW j \in 1 .. m + 1, i < j
               PROVE  r[i].id < r[j].id
    BY <1>1 DEF Increasing
  <2>1. i \in 1 .. m  BY <1>1
  <2>2. CASE j \in 1 .. m  BY <1>1, <1>6, <2>1, <2>2 DEF Increasing, m
  <2>3. CASE j = m + 1
    <3>1. ds[i].id \in Ids(ds)  BY <2>1 DEF Ids, m
    <3> QED  BY <1>1, <1>6, <2>1, <2>3, <3>1
  <2> QED  BY <1>3, <2>2, <2>3
<1>7. ASSUME Right(ds), d.to \in d.meant
      PROVE  Right(r)
  BY <1>1, <1>3, <1>7 DEF Right, m
<1> QED  BY <1>1, <1>2, <1>5, <1>6, <1>7 DEF r

LEMMA TailDatagrams ==
  ASSUME NEW ds \in Seq(Message), ds # <<>>
  PROVE  /\ Head(ds) \in Message /\ Tail(ds) \in Seq(Message)
         /\ Ids(ds) = Ids(Tail(ds)) \cup {Head(ds).id}
         /\ Increasing(ds) => /\ Increasing(Tail(ds))
                              /\ \A i \in Ids(Tail(ds)) : Head(ds).id < i
         /\ Right(ds) => Right(Tail(ds)) /\ Head(ds).to \in Head(ds).meant
<1> DEFINE h == Head(ds)
           r == Tail(ds)
           m == Len(r)
<1>1. /\ h \in Message /\ h = ds[1] /\ r \in Seq(Message) /\ Len(ds) = m + 1 /\ m \in Nat
      /\ \A i \in 1 .. m : r[i] = ds[i + 1]
  BY HeadTailProperties, EmptySeq
<1> HIDE DEF h, r, m
<1>2. \A i \in 1 .. m + 1 : i = 1 \/ (i - 1 \in 1 .. m /\ (i - 1) + 1 = i)  BY <1>1
<1>3. 1 \in 1 .. m + 1 /\ \A i \in 1 .. m : i + 1 \in 1 .. m + 1 /\ 1 < i + 1  BY <1>1
<1>4. Ids(ds) = Ids(r) \cup {h.id}
  <2>1. Ids(ds) = {ds[i].id : i \in 1 .. m + 1}  BY <1>1 DEF Ids
  <2>2. Ids(r) = {r[i].id : i \in 1 .. m}  BY DEF Ids, m
  <2>3. \A i \in 1 .. m + 1 : ds[i].id = h.id \/ ds[i].id \in Ids(r)
    <3> SUFFICES ASSUME NEW i \in 1 .. m + 1, i # 1
                 PROVE  ds[i].id \in Ids(r)
      BY <1>1
    <3>1. i - 1 \in 1 .. m /\ ds[i] = r[i - 1]  BY <1>1, <1>2
    <3> QED  BY <2>2, <3>1
  <2>4. \A i \in 1 .. m : r[i].id \in Ids(ds)  BY <1>1, <1>3, <2>1
  <2>5. h.id \in Ids(ds)  BY <1>1, <1>3, <2>1
  <2> QED  BY <2>1, <2>2, <2>3, <2>4, <2>5
<1>5. ASSUME Increasing(ds)
      PROVE  Increasing(r) /\ \A i \in Ids(r) : h.id < i
  <2>1. \A i, j \in 1 .. m : i < j => i + 1 < j + 1  BY <1>1
  <2>2. Increasing(r)  BY <1>1, <1>3, <1>5, <2>1 DEF Increasing, m
  <2>3. \A i \in 1 .. m : h.id < r[i].id  BY <1>1, <1>3, <1>5 DEF Increasing
  <2> QED  BY <2>2, <2>3 DEF Ids, m
<1>6. ASSUME Right(ds)
      PROVE  Right(r) /\ h.to \in h.meant
  BY <1>1, <1>3, <1>6 DEF Right, m
<1> QED  BY <1>1, <1>4, <1>5, <1>6 DEF h, r

LEMMA FrontDatagrams ==
  ASSUME NEW ds \in Seq(Message)
  PROVE  LET r == SubSeq(ds, 1, Len(ds) - 1)
         IN  /\ r \in Seq(Message) /\ Ids(r) \subseteq Ids(ds)
             /\ Increasing(ds) => Increasing(r)
             /\ Right(ds) => Right(r)
<1> DEFINE m == Len(ds) - 1
           r == SubSeq(ds, 1, m)
<1>1. Len(ds) \in Nat /\ \A i \in 1 .. Len(ds) : ds[i] \in Message  BY ElementOfSeq
<1>2. m \in Int /\ \A i \in 1 .. m : i \in 1 .. Len(ds)  BY <1>1
<1>3. 1 \in Int /\ \A i \in 1 .. m : ds[i] \in Message  BY <1>1, <1>2
<1>4. /\ r \in Seq(Message) /\ Len(r) = IF 1 <= m THEN m - 1 + 1 ELSE 0
      /\ \A i \in 1 .. m - 1 + 1 : r[i] = ds[1 + i - 1]
  <2> HIDE DEF m
  <2> QED  BY <1>2, <1>3, SubSeqProperties
<1> HIDE DEF r
<1>5. \A i \in 1 .. Len(r) : i \in 1 .. Len(ds) /\ r[i] = ds[i]
  <2> SUFFICES ASSUME NEW i \in 1 .. Len(r)
               PROVE  i \in 1 .. Len(ds) /\ r[i] = ds[i]
    OBVIOUS
  <2>1. i \in 1 .. m - 1 + 1 /\ i \in 1 .. m /\ 1 + i - 1 = i  BY <1>2, <1>4
  <2> QED  BY <1>2, <1>4, <2>1
<1> QED  BY <1>4, <1>5 DEF Ids, Increasing, Right, r

LEMMA IdsNat ==
  ASSUME NEW ds \in Seq(Message)
  PROVE  Ids(ds) \subseteq 1 .. MaxSends
<1>1. \A i \in 1 .. Len(ds) : ds[i] \in Message  BY ElementOfSeq
<1> QED  BY <1>1 DEF Ids, Message

LEMMA NoDatagrams == Ids(<<>>) = {} /\ Increasing(<<>>) /\ Right(<<>>) /\ <<>> \in Seq(Message)
  BY DEF Ids, Increasing, Right

-----------------------------------------------------------------------------
(* The lock.                                                                *)

LEMMA Threads ==
  Loop \in Thread /\ NoThread \notin Thread /\ User \subseteq Thread
BY UdpAssumption DEF Thread

LEMMA AcquireStep ==
  ASSUME TypeOK, LockOK, NEW t \in Thread, NEW at \in Holding, Acquire(t, at)
  PROVE  /\ pc' \in [Thread -> PcValue] /\ ctx_lock' \in Thread \cup {NoThread}
         /\ LockOK'
         /\ pc'[t] = at
         /\ \A u \in Thread : pc[u] \notin Holding /\ (u # t => pc'[u] = pc[u])
<1>1. pc \in [Thread -> PcValue] /\ ctx_lock = NoThread /\ at \in PcValue
  BY DEF TypeOK, PcValue, Holding, Acquire
<1>2. pc' = [pc EXCEPT ![t] = at] /\ ctx_lock' = t
  BY DEF Acquire
<1>3. \A u \in Thread : pc[u] \notin Holding
  BY <1>1, Threads DEF LockOK
<1>4. pc' \in [Thread -> PcValue] /\ pc'[t] = at /\ \A u \in Thread : u # t => pc'[u] = pc[u]
  BY <1>1, <1>2
<1>5. LockOK'  BY <1>2, <1>3, <1>4 DEF LockOK
<1> QED  BY <1>2, <1>3, <1>4, <1>5

LEMMA ReleaseStep ==
  ASSUME TypeOK, LockOK, NEW t \in Thread, NEW at \in PcValue \ Holding,
         pc[t] \in Holding, Release(t, at)
  PROVE  /\ pc' \in [Thread -> PcValue] /\ ctx_lock' \in Thread \cup {NoThread}
         /\ LockOK'
         /\ \A u \in Thread : pc'[u] \notin Holding
         /\ ctx_lock = t
<1>1. pc \in [Thread -> PcValue] /\ ctx_lock = t
  BY DEF TypeOK, PcValue, LockOK
<1>2. pc' = [pc EXCEPT ![t] = at] /\ ctx_lock' = NoThread
  BY DEF Release
<1>3. \A u \in Thread : u # t => pc[u] \notin Holding
  BY <1>1 DEF LockOK
<1>4. pc' \in [Thread -> PcValue] /\ pc'[t] = at /\ \A u \in Thread : u # t => pc'[u] = pc[u]
  BY <1>1, <1>2
<1>5. \A u \in Thread : pc'[u] \notin Holding  BY <1>3, <1>4
<1>6. LockOK'  BY <1>2, <1>5, Threads DEF LockOK
<1> QED  BY <1>1, <1>2, <1>4, <1>5, <1>6

\* The thread that holds the lock goes on, or the loop without it does.
LEMMA MoveStep ==
  ASSUME TypeOK, LockOK, NEW t \in Thread, NEW at \in PcValue,
         pc[t] \in Holding <=> at \in Holding,
         pc' = [pc EXCEPT ![t] = at], UNCHANGED ctx_lock
  PROVE  /\ pc' \in [Thread -> PcValue] /\ ctx_lock' \in Thread \cup {NoThread}
         /\ LockOK'
         /\ pc'[t] = at
         /\ \A u \in Thread : u # t => pc'[u] = pc[u]
<1>1. pc \in [Thread -> PcValue] /\ ctx_lock \in Thread \cup {NoThread}
  BY DEF TypeOK, PcValue
<1>2. pc' \in [Thread -> PcValue] /\ pc'[t] = at /\ \A u \in Thread : u # t => pc'[u] = pc[u]
  BY <1>1
<1>3. LockOK'  BY <1>2 DEF LockOK
<1> QED  BY <1>1, <1>2, <1>3

-----------------------------------------------------------------------------
(* Steps that no call and no queue takes part in.                           *)

LEMMA InitStep ==
  ASSUME Init
  PROVE  IInv
<1>1. \A t \in Thread : pc[t] \in {"wait", "idle"}  BY DEF Init
<1>2. /\ wire = <<>> /\ pending_send_deque = <<>> /\ calls = <<>> /\ inbox = <<>>
      /\ call = NoCall
  BY DEF Init
<1>3. TypeOK
  <2>1. pc \in [Thread -> PcValue]  BY DEF Init, PcValue
  <2>2. call \in [id : 0 .. MaxSends, meant : SUBSET Peer]
    BY UdpAssumption DEF Init, NoCall
  <2>3. /\ wire \in Seq(Message) /\ pending_send_deque \in Seq(Message)
        /\ calls \in Seq(BOOLEAN) /\ inbox \in Seq(Peer) /\ Len(calls) = 0
    BY <1>2
  <2>4. buffered \in 0 .. SockCap /\ arrived \in 0 .. MaxInbound /\ 0 <= MaxSends
    BY UdpAssumption DEF Init
  <2> QED  BY <2>1, <2>2, <2>3, <2>4 DEF Init, TypeOK, PcValue
<1>4. LockOK  BY <1>1, Threads DEF Init, LockOK, Holding
<1>5. ReadyOK /\ CallOK  BY <1>1 DEF Init, ReadyOK, CallOK
<1>6. Right(wire) /\ Right(pending_send_deque) /\ OrderOK
  BY <1>1, <1>2, NoDatagrams DEF OrderOK
<1>7. FlagsOK  BY <1>1, <1>2 DEF Init, FlagsOK
<1>8. NothingLost  BY <1>2 DEF NothingLost
<1> QED  BY <1>3, <1>4, <1>5, <1>6, <1>7, <1>8 DEF IInv

LEMMA QuietStep ==
  ASSUME IInv, TypeOK', LockOK', ReadyOK',
         UNCHANGED <<call, udp_remote_addr, is_sent_pending, pending_send_deque, interest,
                     wire, calls>>,
         socket' \in {socket, "closed"},
         \A t \in Thread : /\ pc'[t] = "send" <=> pc[t] = "send"
                           /\ pc'[t] = "queued" <=> pc[t] = "queued"
  PROVE  IInv'
<1>1. CallOK'  BY DEF IInv, CallOK
<1>2. OrderOK'  BY DEF IInv, OrderOK
<1>3. socket' = "open" => socket = "open"  OBVIOUS
<1>4. FlagsOK'  BY <1>3 DEF IInv, FlagsOK
<1>5. NothingLost'  BY <1>3 DEF IInv, NothingLost
<1> QED  BY <1>1, <1>2, <1>4, <1>5 DEF IInv

LEMMA LoopMoves ==
  ASSUME IInv, EpollWait \/ EpollWaitFails \/ ThreadEnds \/ RecvfromDataFails \/ CallbackReturns
  PROVE  IInv'
<1> DEFINE moves(from, to) == pc[Loop] = from /\ pc' = [pc EXCEPT ![Loop] = to]
<1>1. TypeOK /\ LockOK /\ ReadyOK  BY DEF IInv
<1>2. /\ \/ moves("wait", "handle") /\ ready' = Events
         \/ moves("wait", "exited") /\ UNCHANGED ready
         \/ moves("handle", "wait") /\ UNCHANGED ready
         \/ moves("callback", "wait") /\ UNCHANGED ready
      /\ UNCHANGED <<ctx_lock, call, udp_remote_addr, is_sent_pending, pending_send_deque,
                     interest, is_need_server_run_, socket, inbox, arrived, wire, buffered,
                     calls>>
  BY DEF EpollWait, EpollWaitFails, ThreadEnds, RecvfromDataFails, CallbackReturns,
         LoopGoes, pending, epoll, server, inward, outward
<1>3. PICK to \in {"wait", "handle", "exited"} :
        pc[Loop] \notin Holding /\ pc' = [pc EXCEPT ![Loop] = to]
  BY <1>2 DEF Holding
<1>4. /\ pc' \in [Thread -> PcValue] /\ LockOK' /\ pc'[Loop] = to
      /\ \A u \in Thread : u # Loop => pc'[u] = pc[u]
  BY <1>1, <1>2, <1>3, Threads, MoveStep DEF PcValue, Holding
<1>5. TypeOK'
  <2>1. Events \subseteq {"IN", "OUT"}  BY DEF Events
  <2>2. ready' \subseteq {"IN", "OUT"}  BY <1>1, <1>2, <2>1 DEF TypeOK
  <2> QED  BY <1>1, <1>2, <1>4, <2>2 DEF TypeOK, PcValue
<1>6. ReadyOK'
  <2>1. "IN" \in Events => inbox # <<>>  BY DEF Events
  <2>2. pc'[Loop] = "handle" => ready' = Events  BY <1>1, <1>2, Threads DEF TypeOK
  <2> QED  BY <1>2, <2>1, <2>2 DEF ReadyOK
<1>7. \A t \in Thread : /\ pc'[t] = "send" <=> pc[t] = "send"
                        /\ pc'[t] = "queued" <=> pc[t] = "queued"
  BY <1>3, <1>4 DEF Holding
<1> QED  BY <1>2, <1>4, <1>5, <1>6, <1>7, QuietStep

LEMMA PendingLockStep ==
  ASSUME IInv, SendPendingData \/ PendingWouldBlock
  PROVE  IInv'
<1>1. TypeOK /\ LockOK  BY DEF IInv
<1>2. /\ \/ pc[Loop] = "handle" /\ Acquire(Loop, "pending")
         \/ pc[Loop] = "pending" /\ Release(Loop, "wait")
      /\ UNCHANGED <<call, udp_remote_addr, is_sent_pending, pending_send_deque, interest,
                     ready, is_need_server_run_, socket, inbox, arrived, wire, buffered,
                     calls>>
  BY DEF SendPendingData, PendingWouldBlock, pending, epoll, server, inward, outward
<1>3. /\ pc' \in [Thread -> PcValue] /\ ctx_lock' \in Thread \cup {NoThread} /\ LockOK'
      /\ pc'[Loop] \in {"pending", "wait"} /\ pc[Loop] \in {"handle", "pending"}
      /\ \A u \in Thread : u # Loop => pc'[u] = pc[u]
  <2>1. CASE pc[Loop] = "handle" /\ Acquire(Loop, "pending")
    BY <1>1, <2>1, Threads, AcquireStep DEF Holding
  <2>2. CASE pc[Loop] = "pending" /\ Release(Loop, "wait")
    <3>1. "wait" \in PcValue \ Holding /\ pc[Loop] \in Holding  BY <2>2 DEF PcValue, Holding
    <3>2. pc' = [pc EXCEPT ![Loop] = "wait"]  BY <2>2 DEF Release
    <3> QED  BY <1>1, <2>2, <3>1, <3>2, Threads, ReleaseStep DEF TypeOK
  <2> QED  BY <1>2, <2>1, <2>2
<1>4. TypeOK'  BY <1>1, <1>2, <1>3 DEF TypeOK, PcValue
<1>5. ReadyOK'  BY <1>3 DEF ReadyOK
<1>6. \A t \in Thread : /\ pc'[t] = "send" <=> pc[t] = "send"
                        /\ pc'[t] = "queued" <=> pc[t] = "queued"
  BY <1>3
<1> QED  BY <1>2, <1>3, <1>4, <1>5, <1>6, QuietStep

LEMMA NetworkStep ==
  ASSUME IInv, (\E p \in Peer : Arrives(p)) \/ Drain \/ StopServer \/ StopServerFlag
  PROVE  IInv'
<1>1. TypeOK /\ LockOK /\ ReadyOK  BY DEF IInv
<1>2. /\ UNCHANGED <<ctx_lock, pc, call, udp_remote_addr, is_sent_pending,
                     pending_send_deque, interest, ready, wire, calls>>
      /\ socket' \in {socket, "closed"}
      /\ is_need_server_run_' \in {is_need_server_run_, FALSE}
  BY DEF Arrives, Drain, StopServer, StopServerFlag, lock, pending, epoll, server, inward, outward
<1>3. arrived' \in 0 .. MaxInbound /\ buffered' \in 0 .. SockCap
  BY SMTT(30), <1>1, UdpAssumption DEF Arrives, Drain, StopServer, StopServerFlag, TypeOK, server, inward, outward
<1>4. inbox' \in Seq(Peer) /\ (inbox # <<>> => inbox' # <<>>)
  <2>1. CASE \E p \in Peer : Arrives(p)
    <3>1. PICK p \in Peer : inbox' = Append(inbox, p)  BY <2>1 DEF Arrives
    <3>2. inbox \in Seq(Peer)  BY <1>1 DEF TypeOK
    <3>3. inbox' \in Seq(Peer) /\ Len(inbox') = Len(inbox) + 1 /\ Len(inbox) \in Nat
      BY <3>1, <3>2, AppendProperties
    <3> QED  BY <3>3, EmptySeq
  <2>2. CASE Drain \/ StopServer \/ StopServerFlag
    BY <1>1, <2>2 DEF Drain, StopServer, StopServerFlag, TypeOK, inward
  <2> QED  BY <2>1, <2>2
<1>5. TypeOK'  BY <1>1, <1>2, <1>3, <1>4 DEF TypeOK
<1>6. LockOK' /\ ReadyOK'  BY <1>1, <1>2, <1>4 DEF LockOK, ReadyOK
<1> QED  BY <1>2, <1>5, <1>6, QuietStep

-----------------------------------------------------------------------------
(* SendData.                                                                *)

LEMMA Alone ==
  ASSUME LockOK, NEW t \in Thread, pc[t] \in Holding, NEW u \in Thread, u # t
  PROVE  pc[u] \notin Holding
BY DEF LockOK

LEMMA NewCall ==
  ASSUME TypeOK, NEW big \in BOOLEAN, Len(calls) < MaxSends, calls' = Append(calls, big)
  PROVE  /\ calls' \in Seq(BOOLEAN) /\ Len(calls) \in Nat
         /\ Len(calls') = Len(calls) + 1 /\ Len(calls) + 1 \in 1 .. MaxSends
         /\ \A i \in 1 .. Len(calls) : calls'[i] = calls[i]
<1>1. calls \in Seq(BOOLEAN)  BY DEF TypeOK
<1>2. /\ calls' \in Seq(BOOLEAN) /\ Len(calls') = Len(calls) + 1 /\ Len(calls) \in Nat
      /\ \A i \in 1 .. Len(calls) : calls'[i] = calls[i]
  BY <1>1, AppendProperties
<1> QED  BY <1>2, UdpAssumption

LEMMA SendDataStep ==
  ASSUME IInv, NEW t \in Thread, NEW big \in BOOLEAN, SendData(t, big)
  PROVE  IInv'
<1> DEFINE n == Len(calls) + 1
           new == [id |-> n, meant |-> {udp_remote_addr}]
           d == Datagram(new)
<1>1. TypeOK /\ LockOK /\ ReadyOK /\ CallOK /\ OrderOK  BY DEF IInv
<1>2. /\ pc[t] = Home(t) /\ udp_remote_addr # Nobody
      /\ Len(calls) < MaxSends /\ calls' = Append(calls, big)
      /\ UNCHANGED <<udp_remote_addr, is_sent_pending, interest, ready, is_need_server_run_,
                     socket, inbox, arrived, wire, buffered>>
  BY DEF SendData, Calls, epoll, server, inward, outward
<1>3. PICK at \in {"send", "queued"} :
        /\ Acquire(t, at)
        /\ at = "queued" => is_sent_pending /\ UNCHANGED call
                            /\ pending_send_deque' = Append(pending_send_deque, d)
        /\ at = "send" => ~is_sent_pending /\ call' = new /\ UNCHANGED pending_send_deque
  BY DEF SendData
<1>4. /\ pc' \in [Thread -> PcValue] /\ ctx_lock' \in Thread \cup {NoThread} /\ LockOK'
      /\ pc'[t] = at
      /\ \A u \in Thread : pc[u] \notin Holding /\ (u # t => pc'[u] = pc[u])
  BY <1>1, <1>3, AcquireStep DEF Holding
<1>5. /\ calls' \in Seq(BOOLEAN) /\ Len(calls) \in Nat
      /\ Len(calls') = n /\ n \in 1 .. MaxSends
      /\ \A i \in 1 .. Len(calls) : calls'[i] = calls[i]
  BY <1>1, <1>2, NewCall
<1>6. udp_remote_addr \in Peer  BY <1>1, <1>2 DEF TypeOK
<1>7. /\ d = [id |-> n, meant |-> {udp_remote_addr}, to |-> udp_remote_addr]
      /\ d \in Message /\ d.id = n /\ d.to \in d.meant
  BY <1>5, <1>6 DEF Datagram, Message
<1>8. call = NoCall /\ call.id = 0  BY <1>1, <1>4 DEF CallOK, NoCall, Holding
<1>9. /\ wire \in Seq(Message) /\ pending_send_deque \in Seq(Message)
      /\ \A i \in Ids(wire) \cup Ids(pending_send_deque) : i <= Len(calls)
      /\ Increasing(wire) /\ Increasing(pending_send_deque)
      /\ \A i \in Ids(wire), j \in Ids(pending_send_deque) : i < j
      /\ Ids(wire) \subseteq 1 .. MaxSends /\ Ids(pending_send_deque) \subseteq 1 .. MaxSends
  <2>1. wire \in Seq(Message) /\ pending_send_deque \in Seq(Message)  BY <1>1 DEF TypeOK
  <2> QED  BY <1>1, <2>1, IdsNat DEF OrderOK
<1> HIDE DEF n, d
<1>10. \A i \in Ids(wire) \cup Ids(pending_send_deque) : i < n
  BY <1>5, <1>9 DEF n
<1>11. /\ pending_send_deque' \in Seq(Message)
       /\ Ids(pending_send_deque') =
            IF at = "queued" THEN Ids(pending_send_deque) \cup {n} ELSE Ids(pending_send_deque)
       /\ Increasing(pending_send_deque') /\ Right(pending_send_deque')
       /\ at = "queued" => pending_send_deque' # <<>>
  <2>1. Right(pending_send_deque)  BY DEF IInv
  <2>2. CASE at = "queued"  BY <1>3, <1>7, <1>9, <1>10, <2>1, <2>2, AppendDatagram
  <2>3. CASE at = "send"  BY <1>3, <1>9, <2>1, <2>3
  <2> QED  BY <2>2, <2>3
<1>12. call' = IF at = "send" THEN new ELSE NoCall
  BY <1>3, <1>8
<1>13. TypeOK'
  <2>1. call' \in [id : 0 .. MaxSends, meant : SUBSET Peer]
    BY <1>1, <1>3, <1>5, <1>6 DEF TypeOK
  <2>2. Len(calls') <= MaxSends  BY <1>5
  <2> QED  BY <1>1, <1>2, <1>4, <1>5, <1>11, <2>1, <2>2 DEF TypeOK, PcValue
<1>14. ReadyOK'
  <2>1. pc'[Loop] = "handle" => pc[Loop] = "handle"  BY <1>4, Threads
  <2> QED  BY <1>1, <1>2, <2>1 DEF ReadyOK
<1>15. CallOK'
  <2>1. \A u \in Thread : pc'[u] = "send" => u = t /\ at = "send"  BY <1>4 DEF Holding
  <2>2. n # 0  BY <1>5
  <2>3. \A u \in Thread : pc'[u] = "send" =>
          /\ call' = new /\ ~is_sent_pending' /\ Len(calls') = n
          /\ udp_remote_addr' = udp_remote_addr
    BY <1>2, <1>3, <1>5, <1>12, <2>1
  <2>4. (\A u \in Thread : pc'[u] # "send") => call' = NoCall
    BY <1>3, <1>4, <1>12
  <2> QED  BY <2>2, <2>3, <2>4 DEF CallOK
<1>16. OrderOK'
  <2>1. \A i \in Ids(wire) \cup Ids(pending_send_deque') : i <= n
    BY <1>5, <1>9, <1>10, <1>11
  <2>2. \A i \in Ids(wire), j \in Ids(pending_send_deque') : i < j
    BY <1>9, <1>10, <1>11
  <2>3. (\E u \in Thread : pc'[u] = "send") => at = "send"  BY <1>4 DEF Holding
  <2>4. at = "send" => \A i \in Ids(wire) \cup Ids(pending_send_deque') : i < call'.id
    BY <1>10, <1>11, <1>12
  <2> QED  BY <1>2, <1>5, <1>9, <1>11, <2>1, <2>2, <2>3, <2>4 DEF OrderOK
<1>17. FlagsOK'
  <2>1. CASE at = "queued"
    <3>1. pc'[t] = "queued"  BY <1>4, <2>1
    <3> QED  BY <1>2, <1>11, <2>1, <3>1 DEF IInv, FlagsOK
  <2>2. CASE at = "send"
    <3>1. \A u \in Thread : pc[u] # "queued" /\ pc'[u] # "queued"
      BY <1>4, <2>2 DEF Holding
    <3> QED  BY <1>2, <1>3, <2>2, <3>1 DEF IInv, FlagsOK
  <2> QED  BY <2>1, <2>2
<1>18. NothingLost'
  <2> SUFFICES ASSUME socket = "open", NEW i \in 1 .. n, ~calls'[i]
               PROVE  i \in Ids(wire) \cup Ids(pending_send_deque') \cup {call'.id}
    BY <1>2, <1>5 DEF NothingLost
  <2>1. CASE i = n  BY <1>11, <1>12, <2>1
  <2>2. CASE i # n
    <3>1. i \in 1 .. Len(calls)  BY <1>5, <2>2 DEF n
    <3>2. i \in Ids(wire) \cup Ids(pending_send_deque) \cup {call.id}
      BY <1>5, <3>1 DEF IInv, NothingLost
    <3>3. i # call.id  BY <1>8
    <3> QED  BY <1>11, <3>2, <3>3
  <2> QED  BY <2>1, <2>2
<1>19. Right(wire')  BY <1>2 DEF IInv
<1> QED  BY <1>4, <1>11, <1>13, <1>14, <1>15, <1>16, <1>17, <1>18, <1>19 DEF IInv

LEMMA SendToStep ==
  ASSUME IInv, NEW t \in Thread, SendTo(t)
  PROVE  IInv'
<1> DEFINE d == Datagram(call)
<1>1. TypeOK /\ LockOK /\ ReadyOK /\ CallOK /\ OrderOK  BY DEF IInv
<1>2. /\ pc[t] = "send" /\ call' = NoCall /\ Release(t, Home(t))
      /\ UNCHANGED <<udp_remote_addr, is_sent_pending, pending_send_deque, interest, ready,
                     is_need_server_run_, socket, inbox, arrived, calls>>
  BY DEF SendTo, pending, epoll, server, inward
<1>3. /\ pc' \in [Thread -> PcValue] /\ ctx_lock' \in Thread \cup {NoThread} /\ LockOK'
      /\ \A u \in Thread : pc'[u] \notin Holding
      /\ \A u \in Thread : pc'[u] = "handle" => pc[u] = "handle"
  <2>1. Home(t) \in PcValue \ Holding /\ pc[t] \in Holding /\ Home(t) # "handle"
    BY <1>2 DEF Home, PcValue, Holding
  <2>2. pc' = [pc EXCEPT ![t] = Home(t)]  BY <1>2 DEF Release
  <2> QED  BY <1>1, <1>2, <2>1, <2>2, ReleaseStep DEF TypeOK
<1>4. /\ call.id = Len(calls) /\ call.id # 0 /\ udp_remote_addr \in call.meant
      /\ \A i \in Ids(wire) \cup Ids(pending_send_deque) : i < call.id
  BY <1>1, <1>2 DEF CallOK, OrderOK
<1>5. d = [id |-> call.id, meant |-> call.meant, to |-> udp_remote_addr]
      /\ d \in Message /\ d.id = call.id /\ d.to \in d.meant
  BY <1>1, <1>4 DEF TypeOK, Datagram, Message
<1>6. \A u \in Thread : pc[u] # "queued"  BY <1>1, <1>2, Alone DEF Holding
<1>7. pending_send_deque \in Seq(Message) /\ wire \in Seq(Message)  BY <1>1 DEF TypeOK
<1> HIDE DEF d
<1>8. socket = "open" => pending_send_deque = <<>>
  <2>1. ~is_sent_pending  BY <1>1, <1>2 DEF CallOK
  <2> QED  BY <1>6, <2>1 DEF IInv, FlagsOK
<1>9. \/ /\ socket = "open" /\ pending_send_deque = <<>> /\ ~calls[call.id]
         /\ wire' = Append(wire, d) /\ buffered' = buffered + 1 /\ buffered < SockCap
      \/ (socket = "closed" \/ calls[call.id]) /\ UNCHANGED <<wire, buffered>>
  BY <1>8 DEF SendTo, SendToWorks, SendToFails, Goes, outward, d
<1>10. /\ wire' \in Seq(Message) /\ Increasing(wire') /\ Right(wire')
       /\ Ids(wire') \in {Ids(wire), Ids(wire) \cup {call.id}}
       /\ Ids(wire) \subseteq Ids(wire')
       /\ socket = "open" /\ ~calls[call.id] => call.id \in Ids(wire')
       /\ pending_send_deque # <<>> => wire' = wire
  <2>1. Increasing(wire) /\ Right(wire) /\ \A i \in Ids(wire) : i < d.id
    BY <1>1, <1>4, <1>5 DEF OrderOK, IInv
  <2>2. CASE /\ wire' = Append(wire, d) /\ pending_send_deque = <<>>
    BY <1>5, <1>7, <2>1, <2>2, AppendDatagram
  <2>3. CASE (socket = "closed" \/ calls[call.id]) /\ wire' = wire
    BY <1>7, <2>1, <2>3
  <2> QED  BY <1>9, <2>2, <2>3
<1>11. TypeOK'
  <2>1. buffered' \in 0 .. SockCap  BY <1>1, <1>9, UdpAssumption DEF TypeOK
  <2>2. call' \in [id : 0 .. MaxSends, meant : SUBSET Peer]
    BY <1>2, UdpAssumption DEF NoCall
  <2> QED  BY <1>1, <1>2, <1>3, <1>10, <2>1, <2>2 DEF TypeOK, PcValue
<1>12. ReadyOK'  BY <1>1, <1>2, <1>3, Threads DEF ReadyOK
<1>13. CallOK'  BY <1>2, <1>3 DEF CallOK, Holding
<1>14. OrderOK'
  <2>1. \A i \in Ids(wire') \cup Ids(pending_send_deque) : i <= Len(calls)
    BY <1>1, <1>4, <1>10 DEF OrderOK
  <2>2. \A i \in Ids(wire'), j \in Ids(pending_send_deque) : i < j
    <3>1. CASE pending_send_deque = <<>>  BY <3>1, NoDatagrams
    <3>2. CASE pending_send_deque # <<>>  BY <1>1, <1>10, <3>2 DEF OrderOK
    <3> QED  BY <3>1, <3>2
  <2>3. ~ \E u \in Thread : pc'[u] = "send"  BY <1>3 DEF Holding
  <2> QED  BY <1>1, <1>2, <1>10, <2>1, <2>2, <2>3 DEF OrderOK
<1>15. FlagsOK'
  <2>1. \A u \in Thread : pc'[u] # "queued"  BY <1>3 DEF Holding
  <2> QED  BY <1>2, <1>6, <2>1 DEF IInv, FlagsOK
<1>16. NothingLost'
  <2> SUFFICES ASSUME socket = "open", NEW i \in 1 .. Len(calls), ~calls[i]
               PROVE  i \in Ids(wire') \cup Ids(pending_send_deque) \cup {call'.id}
    BY <1>2 DEF NothingLost
  <2>1. i \in Ids(wire) \cup Ids(pending_send_deque) \cup {call.id}
    BY DEF IInv, NothingLost
  <2>2. i = call.id => i \in Ids(wire')  BY <1>10
  <2> QED  BY <1>10, <2>1, <2>2
<1>17. Right(pending_send_deque')  BY <1>2 DEF IInv
<1> QED  BY <1>3, <1>10, <1>11, <1>12, <1>13, <1>14, <1>15, <1>16, <1>17 DEF IInv

LEMMA SendWouldBlockStep ==
  ASSUME IInv, NEW t \in Thread, SendWouldBlock(t)
  PROVE  IInv'
<1> DEFINE d == Datagram(call)
<1>1. TypeOK /\ LockOK /\ ReadyOK /\ CallOK /\ OrderOK  BY DEF IInv
<1>2. /\ pc[t] = "send" /\ call' = NoCall
      /\ pending_send_deque' = Append(pending_send_deque, d)
      /\ pc' = [pc EXCEPT ![t] = "queued"]
      /\ UNCHANGED <<ctx_lock, udp_remote_addr, is_sent_pending, interest, ready,
                     is_need_server_run_, socket, inbox, arrived, wire, buffered, calls>>
  BY DEF SendWouldBlock, epoll, server, inward, outward
<1>3. /\ pc' \in [Thread -> PcValue] /\ ctx_lock' \in Thread \cup {NoThread} /\ LockOK'
      /\ pc'[t] = "queued"
      /\ \A u \in Thread : u # t => pc'[u] = pc[u]
  BY <1>1, <1>2, MoveStep DEF Holding, PcValue
<1>4. \A u \in Thread : pc'[u] # "send" /\ pc[u] # "queued"
  BY <1>1, <1>2, <1>3, Alone DEF Holding
<1>5. /\ call.id = Len(calls) /\ call.id # 0 /\ udp_remote_addr \in call.meant
      /\ ~is_sent_pending
      /\ \A i \in Ids(wire) \cup Ids(pending_send_deque) : i < call.id
  BY <1>1, <1>2 DEF CallOK, OrderOK
<1>6. d = [id |-> call.id, meant |-> call.meant, to |-> udp_remote_addr]
      /\ d \in Message /\ d.id = call.id /\ d.to \in d.meant
  BY <1>1, <1>5 DEF TypeOK, Datagram, Message
<1>7. pending_send_deque \in Seq(Message)  BY <1>1 DEF TypeOK
<1> HIDE DEF d
<1>8. /\ pending_send_deque' \in Seq(Message) /\ pending_send_deque' # <<>>
      /\ Ids(pending_send_deque') = Ids(pending_send_deque) \cup {call.id}
      /\ Increasing(pending_send_deque') /\ Right(pending_send_deque')
  <2>1. Increasing(pending_send_deque) /\ Right(pending_send_deque)
    BY <1>1 DEF OrderOK, IInv
  <2> QED  BY <1>2, <1>5, <1>6, <1>7, <2>1, AppendDatagram
<1>9. TypeOK'
  <2>1. call' \in [id : 0 .. MaxSends, meant : SUBSET Peer]
    BY <1>2, UdpAssumption DEF NoCall
  <2> QED  BY <1>1, <1>2, <1>3, <1>8, <2>1 DEF TypeOK, PcValue
<1>10. ReadyOK'
  <2>1. pc'[Loop] = "handle" => pc[Loop] = "handle"  BY <1>3, Threads
  <2> QED  BY <1>1, <1>2, <2>1 DEF ReadyOK
<1>11. CallOK'  BY <1>2, <1>4 DEF CallOK
<1>12. OrderOK'
  <2>1. \A i \in Ids(wire) \cup Ids(pending_send_deque') : i <= Len(calls)
    BY <1>1, <1>5, <1>8, UdpAssumption DEF OrderOK, TypeOK
  <2>2. \A i \in Ids(wire), j \in Ids(pending_send_deque') : i < j
    BY <1>1, <1>5, <1>8 DEF OrderOK
  <2> QED  BY <1>1, <1>2, <1>4, <1>8, <2>1, <2>2 DEF OrderOK
<1>13. FlagsOK'  BY <1>2, <1>3, <1>4, <1>8 DEF IInv, FlagsOK
<1>14. NothingLost'
  <2> SUFFICES ASSUME socket = "open", NEW i \in 1 .. Len(calls), ~calls[i]
               PROVE  i \in Ids(wire) \cup Ids(pending_send_deque') \cup {call'.id}
    BY <1>2 DEF NothingLost
  <2>1. i \in Ids(wire) \cup Ids(pending_send_deque) \cup {call.id}
    BY DEF IInv, NothingLost
  <2> QED  BY <1>8, <2>1
<1>15. Right(wire')  BY <1>2 DEF IInv
<1> QED  BY <1>3, <1>8, <1>9, <1>10, <1>11, <1>12, <1>13, <1>14, <1>15 DEF IInv

LEMMA ControlEpollOutStep ==
  ASSUME IInv, NEW t \in Thread, ControlEpollOut(t)
  PROVE  IInv'
<1>1. TypeOK /\ LockOK /\ ReadyOK /\ CallOK /\ OrderOK  BY DEF IInv
<1>2. /\ pc[t] = "queued" /\ socket = "open" /\ Release(t, Home(t))
      /\ interest' = {"IN", "OUT"} /\ is_sent_pending' = TRUE
      /\ UNCHANGED <<call, udp_remote_addr, pending_send_deque, ready,
                     is_need_server_run_, socket, inbox, arrived, wire, buffered, calls>>
  BY DEF ControlEpollOut, server, inward, outward
<1>3. /\ pc' \in [Thread -> PcValue] /\ ctx_lock' \in Thread \cup {NoThread} /\ LockOK'
      /\ \A u \in Thread : pc'[u] \notin Holding
      /\ \A u \in Thread : pc'[u] = "handle" => pc[u] = "handle"
  <2>1. Home(t) \in PcValue \ Holding /\ pc[t] \in Holding /\ Home(t) # "handle"
    BY <1>2 DEF Home, PcValue, Holding
  <2>2. pc' = [pc EXCEPT ![t] = Home(t)]  BY <1>2 DEF Release
  <2> QED  BY <1>1, <1>2, <2>1, <2>2, ReleaseStep DEF TypeOK
<1>4. call = NoCall /\ pending_send_deque # <<>>
  <2>1. \A u \in Thread : pc[u] # "send"  BY <1>1, <1>2, Alone DEF Holding
  <2> QED  BY <1>1, <1>2, <2>1 DEF CallOK, IInv, FlagsOK
<1>5. \A u \in Thread : pc'[u] \notin {"send", "queued"}  BY <1>3 DEF Holding
<1>6. TypeOK'  BY <1>1, <1>2, <1>3 DEF TypeOK, PcValue
<1>7. ReadyOK'  BY <1>1, <1>2, <1>3, Threads DEF ReadyOK
<1>8. CallOK'  BY <1>2, <1>4, <1>5 DEF CallOK
<1>9. OrderOK'  BY <1>1, <1>2, <1>5 DEF OrderOK
<1>10. FlagsOK'  BY <1>2, <1>4, <1>5 DEF FlagsOK
<1>11. NothingLost' /\ Right(wire') /\ Right(pending_send_deque')
  BY <1>2 DEF IInv, NothingLost
<1> QED  BY <1>3, <1>6, <1>7, <1>8, <1>9, <1>10, <1>11 DEF IInv

LEMMA ControlEpollFailsStep ==
  ASSUME IInv, NEW t \in Thread, ControlEpollFails(t)
  PROVE  IInv'
<1>1. TypeOK /\ LockOK /\ ReadyOK /\ CallOK /\ OrderOK  BY DEF IInv
<1>2. /\ pc[t] = "queued" /\ socket = "closed" /\ Release(t, Home(t))
      /\ pending_send_deque' = SubSeq(pending_send_deque, 1, Len(pending_send_deque) - 1)
      /\ UNCHANGED <<call, udp_remote_addr, is_sent_pending, interest, ready,
                     is_need_server_run_, socket, inbox, arrived, wire, buffered, calls>>
  BY DEF ControlEpollFails, epoll, server, inward, outward
<1>3. /\ pc' \in [Thread -> PcValue] /\ ctx_lock' \in Thread \cup {NoThread} /\ LockOK'
      /\ \A u \in Thread : pc'[u] \notin Holding
      /\ \A u \in Thread : pc'[u] = "handle" => pc[u] = "handle"
  <2>1. Home(t) \in PcValue \ Holding /\ pc[t] \in Holding /\ Home(t) # "handle"
    BY <1>2 DEF Home, PcValue, Holding
  <2>2. pc' = [pc EXCEPT ![t] = Home(t)]  BY <1>2 DEF Release
  <2> QED  BY <1>1, <1>2, <2>1, <2>2, ReleaseStep DEF TypeOK
<1>4. call = NoCall
  <2>1. \A u \in Thread : pc[u] # "send"  BY <1>1, <1>2, Alone DEF Holding
  <2> QED  BY <1>1, <2>1 DEF CallOK
<1>5. \A u \in Thread : pc'[u] \notin {"send", "queued"}  BY <1>3 DEF Holding
<1>6. /\ pending_send_deque' \in Seq(Message)
      /\ Ids(pending_send_deque') \subseteq Ids(pending_send_deque)
      /\ Increasing(pending_send_deque') /\ Right(pending_send_deque')
  <2>1. pending_send_deque \in Seq(Message) /\ Increasing(pending_send_deque)
        /\ Right(pending_send_deque)
    BY <1>1 DEF TypeOK, OrderOK, IInv
  <2> QED  BY <1>2, <2>1, FrontDatagrams
<1>7. TypeOK'  BY <1>1, <1>2, <1>3, <1>6 DEF TypeOK, PcValue
<1>8. ReadyOK'  BY <1>1, <1>2, <1>3, Threads DEF ReadyOK
<1>9. CallOK'  BY <1>2, <1>4, <1>5 DEF CallOK
<1>10. OrderOK'  BY <1>1, <1>2, <1>5, <1>6 DEF OrderOK
<1>11. FlagsOK' /\ NothingLost'  BY <1>2 DEF FlagsOK, NothingLost
<1>12. Right(wire')  BY <1>2 DEF IInv
<1> QED  BY <1>3, <1>6, <1>7, <1>8, <1>9, <1>10, <1>11, <1>12 DEF IInv

-----------------------------------------------------------------------------
(* The loop: what it receives, and the queue.                               *)

LEMMA RecvfromDataStep ==
  ASSUME IInv, RecvfromData
  PROVE  IInv'
<1> DEFINE p == Head(inbox)
<1>1. TypeOK /\ LockOK /\ ReadyOK /\ CallOK /\ OrderOK  BY DEF IInv
<1>2. /\ pc[Loop] = "handle" /\ "IN" \in ready /\ socket = "open"
      /\ udp_remote_addr' = p /\ inbox' = Tail(inbox)
      /\ call' = IF call = NoCall THEN call ELSE [call EXCEPT !.meant = @ \cup {p}]
      /\ pc' = [pc EXCEPT ![Loop] = "callback"]
      /\ UNCHANGED <<ctx_lock, is_sent_pending, pending_send_deque, interest, ready,
                     is_need_server_run_, socket, arrived, wire, buffered, calls>>
  BY DEF RecvfromData, LoopGoes, pending, epoll, server, outward
<1>3. /\ pc' \in [Thread -> PcValue] /\ ctx_lock' \in Thread \cup {NoThread} /\ LockOK'
      /\ pc'[Loop] = "callback"
      /\ \A u \in Thread : u # Loop => pc'[u] = pc[u]
  BY <1>1, <1>2, Threads, MoveStep DEF Holding, PcValue
<1>4. p \in Peer /\ inbox' \in Seq(Peer)
  <2>1. inbox \in Seq(Peer) /\ inbox # <<>>  BY <1>1, <1>2 DEF TypeOK, ReadyOK
  <2> QED  BY <1>2, <2>1, HeadTailProperties
<1>5. call \in [id : 0 .. MaxSends, meant : SUBSET Peer]  BY <1>1 DEF TypeOK
<1> HIDE DEF p
<1>6. /\ call' \in [id : 0 .. MaxSends, meant : SUBSET Peer]
      /\ call'.id = call.id
      /\ call # NoCall => p \in call'.meant
      /\ call = NoCall => call' = NoCall
  <2>1. CASE call = NoCall  BY <1>2, <1>5, <2>1
  <2>2. CASE call # NoCall
    <3>1. call' = [call EXCEPT !.meant = @ \cup {p}]  BY <1>2, <2>2
    <3>2. call'.id = call.id /\ call'.meant = call.meant \cup {p}  BY <1>5, <3>1
    <3> QED  BY <1>4, <1>5, <2>2, <3>1, <3>2
  <2> QED  BY <2>1, <2>2
<1>7. \A u \in Thread : /\ pc'[u] = "send" <=> pc[u] = "send"
                        /\ pc'[u] = "queued" <=> pc[u] = "queued"
  BY <1>2, <1>3
<1>8. TypeOK'  BY <1>1, <1>2, <1>3, <1>4, <1>6 DEF TypeOK, PcValue
<1>9. ReadyOK'  BY <1>3 DEF ReadyOK
<1>10. CallOK'
  <2>1. \A u \in Thread : pc[u] = "send" => call # NoCall
    BY <1>1 DEF CallOK, NoCall
  <2> QED  BY <1>1, <1>2, <1>6, <1>7, <2>1 DEF CallOK
<1>11. OrderOK'  BY <1>1, <1>2, <1>6, <1>7 DEF OrderOK
<1>12. FlagsOK'  BY <1>2, <1>7 DEF IInv, FlagsOK
<1>13. NothingLost'  BY <1>2, <1>6 DEF IInv, NothingLost
<1>14. Right(wire') /\ Right(pending_send_deque')  BY <1>2 DEF IInv
<1> QED  BY <1>3, <1>8, <1>9, <1>10, <1>11, <1>12, <1>13, <1>14 DEF IInv

LEMMA PendingSendStep ==
  ASSUME IInv, PendingSend
  PROVE  IInv'
<1> DEFINE h == Head(pending_send_deque)
           rest == Tail(pending_send_deque)
<1>1. TypeOK /\ LockOK /\ ReadyOK /\ CallOK /\ OrderOK  BY DEF IInv
<1>2. /\ pc[Loop] = "pending" /\ pending_send_deque # <<>>
      /\ socket = "open" /\ buffered < SockCap
      /\ wire' = Append(wire, h) /\ buffered' = buffered + 1
      /\ pending_send_deque' = rest
      /\ IF rest = <<>>
         THEN is_sent_pending' = FALSE /\ interest' = {"IN"} /\ Release(Loop, "wait")
         ELSE UNCHANGED <<ctx_lock, pc, is_sent_pending, interest>>
      /\ UNCHANGED <<call, udp_remote_addr, ready, is_need_server_run_, socket, inbox,
                     arrived, calls>>
  BY DEF PendingSend, SendToWorks, Goes, lock, server, inward
<1>3. /\ pc' \in [Thread -> PcValue] /\ ctx_lock' \in Thread \cup {NoThread} /\ LockOK'
      /\ \A u \in Thread : pc[u] \notin {"send", "queued"} /\ pc'[u] \notin {"send", "queued"}
      /\ pc'[Loop] # "handle"
  <2>1. \A u \in Thread : pc[u] \notin {"send", "queued"}
    BY <1>1, <1>2, Threads, Alone DEF Holding
  <2>2. CASE rest = <<>>
    <3>1. "wait" \in PcValue \ Holding /\ pc[Loop] \in Holding  BY <1>2 DEF PcValue, Holding
    <3>2. pc' = [pc EXCEPT ![Loop] = "wait"] /\ Release(Loop, "wait")
      BY <1>2, <2>2 DEF Release
    <3>3. /\ pc' \in [Thread -> PcValue] /\ ctx_lock' \in Thread \cup {NoThread} /\ LockOK'
          /\ \A u \in Thread : pc'[u] \notin Holding
      BY <1>1, <3>1, <3>2, Threads, ReleaseStep
    <3>4. pc'[Loop] = "wait"  BY <1>1, <3>2, Threads DEF TypeOK
    <3> QED  BY <2>1, <3>3, <3>4 DEF Holding
  <2>3. CASE rest # <<>>
    <3>1. UNCHANGED <<ctx_lock, pc>>  BY <1>2, <2>3
    <3> QED  BY <1>1, <1>2, <2>1, <3>1, Threads DEF TypeOK, LockOK, PcValue
  <2> QED  BY <2>2, <2>3
<1>4. /\ wire \in Seq(Message) /\ pending_send_deque \in Seq(Message)
      /\ Increasing(wire) /\ Increasing(pending_send_deque)
      /\ Right(wire) /\ Right(pending_send_deque)
  BY <1>1 DEF TypeOK, OrderOK, IInv
<1>5. /\ h \in Message /\ rest \in Seq(Message)
      /\ Ids(pending_send_deque) = Ids(rest) \cup {h.id}
      /\ Increasing(rest) /\ \A i \in Ids(rest) : h.id < i
      /\ Right(rest) /\ h.to \in h.meant
  BY <1>2, <1>4, TailDatagrams
<1> HIDE DEF h, rest
<1>6. /\ wire' \in Seq(Message) /\ Ids(wire') = Ids(wire) \cup {h.id}
      /\ Increasing(wire') /\ Right(wire')
  <2>1. \A i \in Ids(wire) : i < h.id  BY <1>1, <1>5 DEF OrderOK
  <2> QED  BY <1>2, <1>4, <1>5, <2>1, AppendDatagram
<1>7. /\ is_sent_pending' \in BOOLEAN /\ interest' \subseteq {"IN", "OUT"}
      /\ rest = <<>> => ~is_sent_pending' /\ "OUT" \notin interest'
      /\ rest # <<>> => UNCHANGED <<is_sent_pending, interest>>
  <2>1. is_sent_pending \in BOOLEAN /\ interest \subseteq {"IN", "OUT"}
    BY <1>1 DEF TypeOK
  <2>2. CASE rest = <<>>
    <3>1. is_sent_pending' = FALSE /\ interest' = {"IN"}  BY <1>2, <2>2
    <3> QED  BY <2>2, <3>1
  <2>3. CASE rest # <<>>
    <3>1. is_sent_pending' = is_sent_pending /\ interest' = interest  BY <1>2, <2>3
    <3> QED  BY <2>1, <2>3, <3>1
  <2> QED  BY <2>2, <2>3
<1>8. TypeOK'
  <2>1. buffered' \in 0 .. SockCap  BY <1>1, <1>2, UdpAssumption DEF TypeOK
  <2> QED  BY <1>1, <1>2, <1>3, <1>5, <1>6, <1>7, <2>1 DEF TypeOK, PcValue
<1>9. ReadyOK'  BY <1>3 DEF ReadyOK
<1>10. CallOK'  BY <1>1, <1>2, <1>3 DEF CallOK
<1>11. OrderOK'
  <2>1. \A i \in Ids(wire') \cup Ids(rest) : i <= Len(calls)
    BY <1>1, <1>5, <1>6 DEF OrderOK
  <2>2. \A i \in Ids(wire'), j \in Ids(rest) : i < j
    BY <1>1, <1>5, <1>6 DEF OrderOK
  <2> QED  BY <1>2, <1>3, <1>5, <1>6, <2>1, <2>2 DEF OrderOK
<1>12. FlagsOK'
  <2>1. /\ "OUT" \in interest <=> is_sent_pending
        /\ is_sent_pending <=> pending_send_deque # <<>>
    BY <1>2, <1>3 DEF IInv, FlagsOK
  <2>2. /\ "OUT" \in interest' <=> is_sent_pending'
        /\ is_sent_pending' <=> rest # <<>>
    BY <1>2, <1>7, <2>1
  <2> QED  BY <1>2, <1>3, <2>2 DEF FlagsOK
<1>13. NothingLost'  BY <1>2, <1>5, <1>6 DEF IInv, NothingLost
<1>14. Right(pending_send_deque')  BY <1>2, <1>5
<1> QED  BY <1>3, <1>6, <1>8, <1>9, <1>10, <1>11, <1>12, <1>13, <1>14 DEF IInv

LEMMA PendingFailsStep ==
  ASSUME IInv, PendingFails
  PROVE  IInv'
<1>1. TypeOK /\ LockOK /\ ReadyOK /\ CallOK /\ OrderOK  BY DEF IInv
<1>2. /\ pc[Loop] = "pending" /\ Release(Loop, "exited")
      /\ socket' = "closed" /\ interest' = {}
      /\ is_sent_pending' = FALSE /\ pending_send_deque' = <<>>
      /\ UNCHANGED <<call, udp_remote_addr, ready, is_need_server_run_, inbox, arrived, wire,
                     buffered, calls>>
  BY DEF PendingFails, inward, outward
<1>3. /\ pc' \in [Thread -> PcValue] /\ ctx_lock' \in Thread \cup {NoThread} /\ LockOK'
      /\ \A u \in Thread : pc'[u] \notin Holding
      /\ pc'[Loop] = "exited"
  <2>1. "exited" \in PcValue \ Holding /\ pc[Loop] \in Holding  BY <1>2 DEF PcValue, Holding
  <2>2. pc' = [pc EXCEPT ![Loop] = "exited"]  BY <1>2 DEF Release
  <2> QED  BY <1>1, <1>2, <2>1, <2>2, Threads, ReleaseStep DEF TypeOK
<1>4. call = NoCall
  <2>1. \A u \in Thread : pc[u] # "send"  BY <1>1, <1>2, Threads, Alone DEF Holding
  <2> QED  BY <1>1, <2>1 DEF CallOK
<1>5. \A u \in Thread : pc'[u] # "send"  BY <1>3 DEF Holding
<1>6. TypeOK'  BY <1>1, <1>2, <1>3, NoDatagrams DEF TypeOK, PcValue
<1>7. ReadyOK'  BY <1>3 DEF ReadyOK
<1>8. CallOK'  BY <1>2, <1>4, <1>5 DEF CallOK
<1>9. OrderOK'  BY <1>1, <1>2, <1>5, NoDatagrams DEF OrderOK
<1>10. FlagsOK' /\ NothingLost'  BY <1>2 DEF FlagsOK, NothingLost
<1>11. Right(wire') /\ Right(pending_send_deque')  BY <1>2, NoDatagrams DEF IInv
<1> QED  BY <1>3, <1>6, <1>7, <1>8, <1>9, <1>10, <1>11 DEF IInv

-----------------------------------------------------------------------------
LEMMA NextStep ==
  ASSUME IInv, [Next]_vars
  PROVE  IInv'
<1>1. CASE UNCHANGED vars
  <2>1. UNCHANGED <<ctx_lock, pc, call, udp_remote_addr, is_sent_pending, pending_send_deque,
                    interest, ready, is_need_server_run_, socket, inbox, arrived, wire,
                    buffered, calls>>
    BY <1>1 DEF vars
  <2>2. TypeOK' /\ LockOK' /\ ReadyOK'  BY <2>1 DEF IInv, TypeOK, LockOK, ReadyOK
  <2> QED  BY <2>1, <2>2, QuietStep
<1>2. CASE \E t \in Thread, big \in BOOLEAN : SendData(t, big)
  BY <1>2, SendDataStep
<1>3. CASE \E t \in Thread : InSendData(t)
  BY <1>3, SendToStep, SendWouldBlockStep, ControlEpollOutStep, ControlEpollFailsStep
     DEF InSendData
<1>4. CASE LoopStep \/ EpollWaitFails
  BY <1>4, LoopMoves, RecvfromDataStep, PendingLockStep, PendingSendStep, PendingFailsStep
     DEF LoopStep
<1>5. CASE (\E p \in Peer : Arrives(p)) \/ Drain \/ StopServer \/ StopServerFlag
  BY <1>5, NetworkStep
<1> QED  BY <1>1, <1>2, <1>3, <1>4, <1>5 DEF Next

-----------------------------------------------------------------------------
(* IInv is an invariant of the server.                                      *)
THEOREM Inductive == Spec => []IInv
<1>1. Init => IInv  BY InitStep
<1>2. IInv /\ [Next]_vars => IInv'  BY NextStep
<1> QED  BY <1>1, <1>2, PTL DEF Spec

(* Every variable has its type.                                             *)
THEOREM TypeCorrect == Spec => []TypeOK
<1>1. IInv => TypeOK  BY DEF IInv
<1> QED  BY <1>1, Inductive, PTL

(* Whatever is received while SendData goes on, each datagram goes to a     *)
(* peer that was the last to have sent at some moment of its call, and      *)
(* what a callback sends to the one it was called for.                      *)
THEOREM GoesToRightPeer == Spec => []RightPeer
<1>1. IInv => RightPeer  BY DEF IInv, Right, RightPeer
<1> QED  BY <1>1, Inductive, PTL

(* Datagrams leave once each, in the order in which SendData got ctx_lock,  *)
(* those that wait in pending_send_deque included.                          *)
THEOREM InOrder == Spec => []DatagramsInOrder
<1>1. ASSUME IInv
      PROVE  DatagramsInOrder
  <2>1. CallOK /\ OrderOK  BY <1>1 DEF IInv
  <2>2. call # NoCall => \E t \in Thread : pc[t] = "send"  BY <2>1 DEF CallOK
  <2> QED  BY <2>1, <2>2 DEF OrderOK, DatagramsInOrder
<1> QED  BY <1>1, Inductive, PTL

(* SendData and SendPendingData drop no datagram that sendto could take.    *)
THEOREM LosesNothing == Spec => []NothingLost
<1>1. IInv => NothingLost  BY DEF IInv
<1> QED  BY <1>1, Inductive, PTL

(* Between calls epoll watches for EPOLLOUT exactly while a datagram waits. *)
THEOREM Wakes == Spec => []WillBeWoken
<1>1. ASSUME IInv
      PROVE  WillBeWoken
  <2> SUFFICES ASSUME ctx_lock = NoThread, socket = "open"
               PROVE  /\ is_sent_pending <=> pending_send_deque # <<>>
                      /\ "OUT" \in interest <=> pending_send_deque # <<>>
    BY DEF WillBeWoken
  <2>1. \A t \in Thread : pc[t] # "queued"
    BY <1>1, Threads DEF IInv, LockOK, Holding
  <2> QED  BY <1>1, <2>1 DEF IInv, FlagsOK
<1> QED  BY <1>1, Inductive, PTL

-----------------------------------------------------------------------------
(* Who changes what.                                                        *)

(* The datagram that a thread at ControlEpoll has queued, and may have to   *)
(* pop_back() (asock_nix_base.hpp:94, :146), is the last one.                    *)
OwnDatagramLast ==
  \A t \in Thread :
    pc[t] = "queued" =>
      /\ pending_send_deque # <<>>
      /\ pending_send_deque[Len(pending_send_deque)].id = Len(calls)

(* Datagrams reach the socket only by the thread that holds ctx_lock.       *)
OnlyHolderSends == wire' # wire => ctx_lock \in Thread /\ pc[ctx_lock] \in {"send", "pending"}

LEMMA LastOfAppend ==
  ASSUME NEW ds \in Seq(Message), NEW d \in Message
  PROVE  Append(ds, d) # <<>> /\ Append(ds, d)[Len(Append(ds, d))] = d
<1>1. /\ Append(ds, d) \in Seq(Message) /\ Len(Append(ds, d)) = Len(ds) + 1
      /\ Append(ds, d)[Len(ds) + 1] = d
  BY AppendProperties
<1> QED  BY <1>1, EmptySeq

LEMMA OwnSendData ==
  ASSUME IInv, NEW t \in Thread, NEW big \in BOOLEAN, SendData(t, big)
  PROVE  OwnDatagramLast'
<1> DEFINE new == [id |-> Len(calls) + 1, meant |-> {udp_remote_addr}]
           d == Datagram(new)
<1>1. udp_remote_addr # Nobody /\ Len(calls) < MaxSends /\ calls' = Append(calls, big)
  BY DEF SendData, Calls
<1>2. PICK at \in {"send", "queued"} :
        /\ Acquire(t, at)
        /\ at = "queued" => pending_send_deque' = Append(pending_send_deque, d)
  BY DEF SendData
<1>3. /\ pc'[t] = at
      /\ \A u \in Thread : pc[u] \notin Holding /\ (u # t => pc'[u] = pc[u])
  BY <1>2, AcquireStep DEF Holding, IInv, TypeOK
<1>4. CASE at = "queued"
  <2>1. Len(calls') = Len(calls) + 1 /\ Len(calls') \in 1 .. MaxSends
    BY <1>1, NewCall DEF IInv, TypeOK
  <2>2. d \in Message /\ d.id = Len(calls')
    BY <1>1, <2>1 DEF Datagram, Message, IInv, TypeOK
  <2> HIDE DEF d
  <2>3. pending_send_deque \in Seq(Message)  BY DEF IInv, TypeOK
  <2>4. /\ pending_send_deque' # <<>>
        /\ pending_send_deque'[Len(pending_send_deque')].id = Len(calls')
    BY <1>2, <1>4, <2>2, <2>3, LastOfAppend
  <2> QED  BY <2>4 DEF OwnDatagramLast
<1>5. CASE at = "send"  BY <1>3, <1>5 DEF OwnDatagramLast, Holding
<1> QED  BY <1>4, <1>5

LEMMA OwnWouldBlock ==
  ASSUME IInv, NEW t \in Thread, SendWouldBlock(t)
  PROVE  OwnDatagramLast'
<1> DEFINE d == Datagram(call)
<1>1. /\ pc[t] = "send" /\ calls' = calls
      /\ pending_send_deque' = Append(pending_send_deque, d)
  BY DEF SendWouldBlock
<1>2. /\ call.id = Len(calls) /\ call.id # 0 /\ udp_remote_addr \in call.meant
      /\ call \in [id : 0 .. MaxSends, meant : SUBSET Peer]
      /\ pending_send_deque \in Seq(Message)
  BY <1>1 DEF IInv, CallOK, TypeOK
<1>3. d \in Message /\ d.id = Len(calls)
  BY <1>2, UdpAssumption DEF Datagram, Message
<1> HIDE DEF d
<1> QED  BY <1>1, <1>2, <1>3, LastOfAppend DEF OwnDatagramLast

\* The steps of a thread that had ctx_lock and does not wait for ControlEpoll.
LEMMA OwnHolder ==
  ASSUME IInv,
         \/ \E t \in Thread : SendTo(t) \/ ControlEpollOut(t) \/ ControlEpollFails(t)
         \/ PendingSend \/ PendingWouldBlock \/ PendingFails
  PROVE  OwnDatagramLast'
<1>1. pc \in [Thread -> PcValue] /\ LockOK  BY DEF IInv, TypeOK, PcValue
<1>2. ASSUME NEW t \in Thread, pc[t] \in Holding, NEW at, at # "queued",
             pc' = [pc EXCEPT ![t] = at] \/ (pc' = pc /\ pc[t] # "queued")
      PROVE  OwnDatagramLast'
  <2>1. \A u \in Thread : pc'[u] # "queued"
    BY <1>1, <1>2, Alone DEF Holding
  <2> QED  BY <2>1 DEF OwnDatagramLast
<1>3. ASSUME NEW t \in Thread, SendTo(t) \/ ControlEpollOut(t) \/ ControlEpollFails(t)
      PROVE  OwnDatagramLast'
  <2>1. pc[t] \in Holding /\ pc' = [pc EXCEPT ![t] = Home(t)]
    BY <1>3 DEF SendTo, ControlEpollOut, ControlEpollFails, Release, Holding
  <2>2. Home(t) # "queued"  BY DEF Home
  <2> QED  BY <1>2, <2>1, <2>2
<1>4. CASE PendingSend \/ PendingWouldBlock \/ PendingFails
  <2>1. Loop \in Thread /\ pc[Loop] = "pending" /\ pc[Loop] \in Holding
    BY <1>4, Threads DEF PendingSend, PendingWouldBlock, PendingFails, Holding
  <2>2. \/ pc' = [pc EXCEPT ![Loop] = "wait"] \/ pc' = [pc EXCEPT ![Loop] = "exited"]
        \/ pc' = pc
    BY <1>4 DEF PendingSend, PendingWouldBlock, PendingFails, Release, lock
  <2> QED  BY <1>2, <2>1, <2>2
<1> QED  BY <1>3, <1>4

\* The steps that leave the queue as it is, and the thread that is at ControlEpoll.
LEMMA OwnQuiet ==
  ASSUME IInv, OwnDatagramLast,
         \/ EpollWait \/ EpollWaitFails \/ ThreadEnds
         \/ RecvfromData \/ RecvfromDataFails \/ CallbackReturns \/ SendPendingData
         \/ (\E p \in Peer : Arrives(p)) \/ Drain \/ StopServer \/ StopServerFlag \/ UNCHANGED vars
  PROVE  OwnDatagramLast'
<1>1. pc \in [Thread -> PcValue] /\ Loop \in Thread  BY Threads DEF IInv, TypeOK, PcValue
<1>2. UNCHANGED <<pending_send_deque, calls>>
  BY DEF EpollWait, EpollWaitFails, ThreadEnds, RecvfromData, RecvfromDataFails,
         CallbackReturns, SendPendingData, Arrives, Drain, StopServer, StopServerFlag, pending, vars
<1>3. pc' = pc \/ \E at : at # "queued" /\ pc' = [pc EXCEPT ![Loop] = at]
  BY DEF EpollWait, EpollWaitFails, ThreadEnds, RecvfromData, RecvfromDataFails,
         CallbackReturns, SendPendingData, Arrives, Drain, StopServer, StopServerFlag, lock, vars,
         LoopGoes, Acquire
<1>4. \A t \in Thread : pc'[t] = "queued" => pc[t] = "queued"  BY <1>1, <1>3
<1> QED  BY <1>2, <1>4 DEF OwnDatagramLast

(* SendData whose ControlEpoll fails, because the loop or StopServer has    *)
(* closed the socket meanwhile, takes back its own datagram.                *)
THEOREM TakesBackItsOwn == Spec => []OwnDatagramLast
<1>1. Init => OwnDatagramLast  BY DEF Init, OwnDatagramLast
<1>2. IInv /\ OwnDatagramLast /\ [Next]_vars => OwnDatagramLast'
  BY OwnSendData, OwnWouldBlock, OwnHolder, OwnQuiet DEF Next, InSendData, LoopStep
<1> QED  BY <1>1, <1>2, Inductive, PTL DEF Spec

(* Only the thread that holds ctx_lock calls sendto.                        *)
THEOREM HolderSends == Spec => [][OnlyHolderSends]_vars
<1>1. IInv /\ [Next]_vars => OnlyHolderSends
  <2> SUFFICES ASSUME IInv, [Next]_vars, wire' # wire
               PROVE  ctx_lock \in Thread /\ pc[ctx_lock] \in {"send", "pending"}
    BY DEF OnlyHolderSends
  <2>1. LockOK /\ Loop \in Thread  BY Threads DEF IInv
  <2>2. CASE \E t \in Thread : SendTo(t)
    <3>1. PICK t \in Thread : pc[t] = "send"  BY <2>2 DEF SendTo
    <3> QED  BY <2>1, <3>1 DEF LockOK, Holding
  <2>3. CASE PendingSend
    <3>1. pc[Loop] = "pending"  BY <2>3 DEF PendingSend
    <3> QED  BY <2>1, <3>1 DEF LockOK, Holding
  <2>4. CASE \/ \E t \in Thread, big \in BOOLEAN : SendData(t, big)
             \/ \E t \in Thread : SendWouldBlock(t) \/ ControlEpollOut(t) \/ ControlEpollFails(t)
             \/ (\E p \in Peer : Arrives(p)) \/ Drain \/ StopServer \/ StopServerFlag \/ UNCHANGED vars
    BY <2>4 DEF SendData, SendWouldBlock, ControlEpollOut, ControlEpollFails, Arrives, Drain,
                StopServer, StopServerFlag, outward, vars
  <2>5. CASE \/ EpollWait \/ EpollWaitFails \/ ThreadEnds
             \/ RecvfromData \/ RecvfromDataFails \/ CallbackReturns
             \/ SendPendingData \/ PendingWouldBlock \/ PendingFails
    BY <2>5 DEF EpollWait, EpollWaitFails, ThreadEnds, RecvfromData, RecvfromDataFails,
                CallbackReturns, SendPendingData, PendingWouldBlock, PendingFails, outward
  <2> QED  BY <2>2, <2>3, <2>4, <2>5 DEF Next, InSendData, LoopStep
<1> QED  BY <1>1, Inductive, PTL DEF Spec

=============================================================================
