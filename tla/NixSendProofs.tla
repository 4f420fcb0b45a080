---------------------------- MODULE NixSendProofs ----------------------------
(***************************************************************************)
(* SendData and SendPendingData lose, repeat and mix nothing, and never    *)
(* leave something queued that epoll will not report, for any number of    *)
(* threads, frames and lengths, and any size of the socket's buffer.       *)
(*                                                                         *)
(* Nothing here depends on the bounds.  The endpoint may be a client or a  *)
(* server; a server's loop resets the context of a connection it has       *)
(* closed, whatever another thread is doing with it.                       *)
(***************************************************************************)
EXTENDS NixSend, SequenceTheorems, TLAPS

PcValue == {"idle", "wait", "handle", "callback", "send", "blocked", "queued",
            "pending", "closed", "failed", "exited"}

\* Where a thread holds ctx_lock.
Holding == {"send", "blocked", "queued", "pending", "failed"}

LockOK == \A t \in Thread : pc[t] \in Holding <=> ctx_lock = t

RestOK ==
  /\ (\A t \in Thread : pc[t] # "send") => rest = Nothing
  /\ \A t \in Thread :
       pc[t] = "send" =>
         /\ rest.n > 0
         /\ SendWorks => rest.at = Len(wire) /\ ~is_sent_pending

\* A thread that was blocked has queued its rest and has yet to say so.
FlagsOK ==
  conn # "closed" =>
    /\ "OUT" \in interest <=> is_sent_pending
    /\ (\A t \in Thread : pc[t] # "blocked") =>
         (is_sent_pending <=> pending_send_deque # <<>>)
    /\ \A t \in Thread :
         /\ pc[t] = "blocked" => ~is_sent_pending /\ pending_send_deque # <<>>
         /\ pc[t] = "queued" => is_sent_pending

\* The entries of q follow each other from position w on; where they end.
Follows(q, w) ==
  \A i \in 1 .. Len(q) : q[i].at = IF i = 1 THEN w ELSE q[i - 1].at + q[i - 1].n
QueueEnd(q, w) == IF q = <<>> THEN w ELSE q[Len(q)].at + q[Len(q)].n

StreamOK ==
  SendWorks =>
    /\ Follows(pending_send_deque, Len(wire))
    /\ SentEnd = QueueEnd(pending_send_deque, Len(wire)) + rest.n

IInv ==
  /\ TypeOK /\ start # <<>>
  /\ LockOK /\ RestOK /\ FlagsOK
  /\ WireInOrder /\ StreamOK

-----------------------------------------------------------------------------
(* Queues.                                                                  *)

LEMMA StreamIsNothingLost ==
  ASSUME TypeOK
  PROVE  StreamOK <=> NothingLost
<1> DEFINE q == pending_send_deque
<1>1. q \in Seq(Entry) /\ Len(q) \in Nat /\ (q = <<>> <=> Len(q) = 0)
  BY EmptySeq DEF TypeOK
<1>2. \A i \in 1 .. Len(q) : EndOf(i - 1) = IF i = 1 THEN Len(wire)
                                            ELSE q[i - 1].at + q[i - 1].n
  BY <1>1 DEF EndOf
<1>3. EndOf(Len(q)) = QueueEnd(q, Len(wire))
  BY <1>1 DEF EndOf, QueueEnd
<1> QED  BY <1>2, <1>3 DEF StreamOK, NothingLost, Follows

LEMMA AppendFollows ==
  ASSUME NEW q \in Seq(Entry), NEW w \in Nat, Follows(q, w),
         NEW x \in Entry, x.at = QueueEnd(q, w)
  PROVE  /\ Append(q, x) \in Seq(Entry) /\ Append(q, x) # <<>>
         /\ Follows(Append(q, x), w)
         /\ QueueEnd(Append(q, x), w) = x.at + x.n
<1> DEFINE r == Append(q, x)
           m == Len(q)
<1>1. /\ r \in Seq(Entry) /\ Len(r) = m + 1 /\ r[m + 1] = x
      /\ \A i \in 1 .. m : r[i] = q[i]
      /\ m \in Nat
  BY AppendProperties
<1>2. r # <<>>  BY <1>1, EmptySeq
<1>3. QueueEnd(r, w) = x.at + x.n  BY <1>1, <1>2 DEF QueueEnd
<1>4. (q = <<>>) <=> (m = 0)  BY EmptySeq
<1> HIDE DEF r
<1>5. ASSUME NEW i \in 1 .. Len(r)
      PROVE  r[i].at = IF i = 1 THEN w ELSE r[i - 1].at + r[i - 1].n
  <2>1. CASE i <= m
    <3>1. i \in 1 .. m /\ (i # 1 => i - 1 \in 1 .. m)  BY <1>1, <2>1
    <3>2. r[i] = q[i] /\ (i # 1 => r[i - 1] = q[i - 1])  BY <1>1, <3>1
    <3>3. q[i].at = IF i = 1 THEN w ELSE q[i - 1].at + q[i - 1].n
      BY <3>1 DEF Follows
    <3> QED  BY <3>2, <3>3
  <2>2. CASE ~(i <= m)
    <3>1. i = m + 1  BY <1>1, <2>2
    <3>2. r[i].at = QueueEnd(q, w)  BY <1>1, <3>1
    <3>3. CASE m = 0  BY <1>4, <3>1, <3>2, <3>3 DEF QueueEnd
    <3>4. CASE m # 0
      <4>1. i - 1 = m /\ m \in 1 .. m /\ i # 1  BY <1>1, <3>1, <3>4
      <4>2. r[i - 1] = q[m]  BY <1>1, <4>1
      <4> QED  BY <1>4, <3>2, <3>4, <4>1, <4>2 DEF QueueEnd
    <3> QED  BY <3>3, <3>4
  <2> QED  BY <2>1, <2>2
<1>6. Follows(r, w)  BY <1>5 DEF Follows
<1> QED  BY <1>1, <1>2, <1>3, <1>6 DEF r

LEMMA TailFollows ==
  ASSUME NEW q \in Seq(Entry), NEW w \in Nat, Follows(q, w), q # <<>>
  PROVE  /\ Head(q) \in Entry /\ Head(q).at = w
         /\ Tail(q) \in Seq(Entry)
         /\ Follows(Tail(q), w + Head(q).n)
         /\ QueueEnd(Tail(q), w + Head(q).n) = QueueEnd(q, w)
<1> DEFINE h == Head(q)
           r == Tail(q)
           m == Len(r)
           v == w + h.n
<1>1. /\ h \in Entry /\ h = q[1] /\ r \in Seq(Entry) /\ Len(q) = m + 1 /\ m \in Nat
      /\ \A i \in 1 .. m : r[i] = q[i + 1]
  BY HeadTailProperties, EmptySeq
<1>2. h.at = w
  BY <1>1 DEF Follows
<1>3. v = h.at + h.n  BY <1>2
<1>4. (r = <<>>) <=> (m = 0)  BY <1>1, EmptySeq
<1> HIDE DEF h, r, v
<1>5. ASSUME NEW i \in 1 .. m
      PROVE  r[i].at = IF i = 1 THEN v ELSE r[i - 1].at + r[i - 1].n
  <2>1. /\ i + 1 \in 1 .. Len(q) /\ i + 1 # 1 /\ (i + 1) - 1 = i
        /\ i # 1 => i - 1 \in 1 .. m /\ (i - 1) + 1 = i
    BY <1>1
  <2>2. q[i + 1].at = q[i].at + q[i].n  BY <2>1 DEF Follows
  <2>3. r[i] = q[i + 1] /\ (i # 1 => r[i - 1] = q[i])  BY <1>1, <2>1
  <2> QED  BY <1>1, <1>3, <2>2, <2>3
<1>6. Follows(r, v)  BY <1>5 DEF Follows
<1>7. QueueEnd(r, v) = QueueEnd(q, w)
  <2>1. CASE m = 0
    <3>1. QueueEnd(q, w) = q[1].at + q[1].n  BY <1>1, <2>1 DEF QueueEnd
    <3>2. QueueEnd(r, v) = v  BY <1>4, <2>1 DEF QueueEnd
    <3> QED  BY <1>1, <1>3, <3>1, <3>2
  <2>2. CASE m # 0
    <3>1. m \in 1 .. m  BY <1>1, <2>2
    <3>2. r[m] = q[m + 1]  BY <1>1, <3>1
    <3> QED  BY <1>1, <1>4, <2>2, <3>2 DEF QueueEnd
  <2> QED  BY <2>1, <2>2
<1> QED  BY <1>1, <1>2, <1>6, <1>7 DEF h, r, v

LEMMA PrependFollows ==
  ASSUME NEW q \in Seq(Entry), NEW w \in Nat,
         NEW x \in Entry, x.at = w, Follows(q, w + x.n)
  PROVE  /\ <<x>> \o q \in Seq(Entry) /\ <<x>> \o q # <<>>
         /\ Follows(<<x>> \o q, w)
         /\ QueueEnd(<<x>> \o q, w) = QueueEnd(q, w + x.n)
<1> DEFINE r == <<x>> \o q
           m == Len(q)
           v == w + x.n
<1>0. <<x>> \in Seq(Entry) /\ Len(<<x>>) = 1 /\ <<x>>[1] = x /\ m \in Nat  OBVIOUS
<1>1. /\ r \in Seq(Entry) /\ Len(r) = 1 + m
      /\ \A i \in 1 .. 1 + m : r[i] = IF i <= 1 THEN <<x>>[i] ELSE q[i - 1]
  BY <1>0, ConcatProperties
<1>2. r[1] = x /\ \A i \in 2 .. 1 + m : r[i] = q[i - 1]  BY <1>0, <1>1
<1>3. r # <<>>  BY <1>0, <1>1, EmptySeq
<1>4. (q = <<>>) <=> (m = 0)  BY EmptySeq
<1>5. v = x.at + x.n  OBVIOUS
<1> HIDE DEF r, v
<1>6. ASSUME NEW i \in 1 .. 1 + m
      PROVE  r[i].at = IF i = 1 THEN w ELSE r[i - 1].at + r[i - 1].n
  <2>1. CASE i = 1  BY <1>2, <2>1
  <2>2. CASE i # 1
    <3>1. i \in 2 .. 1 + m /\ i - 1 \in 1 .. m /\ (i # 2 => i - 1 \in 2 .. 1 + m)
      BY <1>0, <2>2
    <3>2. q[i - 1].at = IF i - 1 = 1 THEN v ELSE q[(i - 1) - 1].at + q[(i - 1) - 1].n
      BY <3>1 DEF Follows, v
    <3>3. r[i] = q[i - 1] /\ (i # 2 => r[i - 1] = q[(i - 1) - 1]) /\ (i = 2 => r[i - 1] = x)
      BY <1>2, <3>1
    <3> QED  BY <1>5, <2>2, <3>1, <3>2, <3>3
  <2> QED  BY <2>1, <2>2
<1>7. Follows(r, w)  BY <1>1, <1>6 DEF Follows
<1>8. QueueEnd(r, w) = QueueEnd(q, v)
  <2>1. CASE m = 0
    <3>1. Len(r) = 1  BY <1>1, <2>1
    <3> QED  BY <1>2, <1>3, <1>4, <1>5, <2>1, <3>1 DEF QueueEnd
  <2>2. CASE m # 0
    <3>1. Len(r) \in 2 .. 1 + m /\ Len(r) - 1 = m  BY <1>0, <1>1, <2>2
    <3>2. r[Len(r)] = q[m]  BY <1>2, <3>1
    <3> QED  BY <1>3, <1>4, <2>2, <3>2 DEF QueueEnd
  <2> QED  BY <2>1, <2>2
<1> QED  BY <1>1, <1>3, <1>7, <1>8 DEF r, v

(* What send() takes continues the wire.                                    *)
LEMMA WireGoesOn ==
  ASSUME TypeOK, WireInOrder, NEW x \in Piece, x.at = Len(wire),
         NEW k \in 1 .. x.n, Takes(x, k)
  PROVE  /\ wire' \in Seq(Nat) /\ Len(wire') = Len(wire) + k
         /\ WireInOrder'
<1> DEFINE m == Len(wire)
           d == Bytes(m, k)
<1>1. wire \in Seq(Nat) /\ m \in Nat /\ k \in Nat /\ wire' = wire \o d
  BY DEF TypeOK, Takes, Piece
<1>2. d \in Seq(Nat) /\ Len(d) = k /\ \A i \in 1 .. k : d[i] = m + i - 1
  <2>1. d \in [1 .. k -> Nat] /\ \A i \in 1 .. k : d[i] = m + i - 1
    BY <1>1 DEF Bytes
  <2> QED  BY <1>1, <2>1
<1>3. \A i \in 1 .. m : wire[i] = i - 1  BY DEF WireInOrder
<1> HIDE DEF d
<1>4. /\ wire' \in Seq(Nat) /\ Len(wire') = m + k
      /\ \A i \in 1 .. m + k : wire'[i] = IF i <= m THEN wire[i] ELSE d[i - m]
  <2>1. /\ wire \o d \in Seq(Nat) /\ Len(wire \o d) = m + k
        /\ \A i \in 1 .. m + k : (wire \o d)[i] = IF i <= m THEN wire[i] ELSE d[i - m]
    <3>1. wire \in Seq(Nat) /\ d \in Seq(Nat)  BY <1>1, <1>2
    <3>2. /\ wire \o d \in Seq(Nat) /\ Len(wire \o d) = Len(wire) + Len(d)
          /\ \A i \in 1 .. Len(wire) + Len(d) :
               (wire \o d)[i] = IF i <= Len(wire) THEN wire[i] ELSE d[i - Len(wire)]
      BY <3>1, ConcatProperties, Zenon
    <3>3. Len(d) = k /\ Len(wire) = m  BY <1>2
    <3> HIDE DEF m
    <3> QED  BY <3>2, <3>3, Zenon
  <2> QED  BY <1>1, <2>1
<1> HIDE DEF m
<1>5. ASSUME NEW i \in 1 .. m + k
      PROVE  wire'[i] = i - 1
  <2>1. CASE i <= m
    <3>1. i \in 1 .. m  BY <1>1, <2>1
    <3> QED  BY <1>3, <1>4, <2>1, <3>1
  <2>2. CASE ~(i <= m)
    <3>1. i - m \in 1 .. k /\ m + (i - m) - 1 = i - 1  BY <1>1, <2>2
    <3>2. wire'[i] = d[i - m]  BY <1>4, <2>2
    <3> QED  BY <1>2, <3>1, <3>2
  <2> QED  BY <2>1, <2>2
<1> QED  BY <1>4, <1>5 DEF WireInOrder, m

-----------------------------------------------------------------------------
(* The lock.                                                                *)

LEMMA Threads ==
  Loop \in Thread /\ NoThread \notin Thread /\ User \subseteq Thread
BY ThreadAssumption DEF Thread

LEMMA AcquireStep ==
  ASSUME TypeOK, LockOK, NEW t \in Thread, NEW at \in Holding, Acquire(t, at)
  PROVE  /\ pc' \in [Thread -> PcValue] /\ ctx_lock' \in Thread \cup {NoThread}
         /\ LockOK'
         /\ pc'[t] = at
         /\ \A u \in Thread : pc[u] \notin Holding /\ (u # t => pc'[u] = pc[u])
<1>1. pc \in [Thread -> PcValue] /\ ctx_lock = NoThread /\ at \in PcValue
  BY DEF TypeOK, PcValue, Holding, Acquire
<1>2. pc' = [pc EXCEPT ![t] = at] /\ ctx_lock' = t
  BY DEF Acquire
<1>3. \A u \in Thread : pc[u] \notin Holding
  BY <1>1, Threads DEF LockOK
<1>4. pc' \in [Thread -> PcValue] /\ pc'[t] = at /\ \A u \in Thread : u # t => pc'[u] = pc[u]
  BY <1>1, <1>2
<1>5. LockOK'  BY <1>2, <1>3, <1>4 DEF LockOK
<1> QED  BY <1>2, <1>3, <1>4, <1>5

LEMMA ReleaseStep ==
  ASSUME TypeOK, LockOK, NEW t \in Thread, NEW at \in PcValue \ Holding,
         pc[t] \in Holding, Release(t, at)
  PROVE  /\ pc' \in [Thread -> PcValue] /\ ctx_lock' \in Thread \cup {NoThread}
         /\ LockOK'
         /\ \A u \in Thread : pc'[u] \notin Holding
         /\ ctx_lock = t
<1>1. pc \in [Thread -> PcValue] /\ ctx_lock = t
  BY DEF TypeOK, PcValue, LockOK
<1>2. pc' = [pc EXCEPT ![t] = at] /\ ctx_lock' = NoThread
  BY DEF Release
<1>3. \A u \in Thread : u # t => pc[u] \notin Holding
  BY <1>1 DEF LockOK
<1>4. pc' \in [Thread -> PcValue] /\ pc'[t] = at /\ \A u \in Thread : u # t => pc'[u] = pc[u]
  BY <1>1, <1>2
<1>5. \A u \in Thread : pc'[u] \notin Holding  BY <1>3, <1>4
<1>6. LockOK'  BY <1>2, <1>5, Threads DEF LockOK
<1> QED  BY <1>1, <1>2, <1>4, <1>5, <1>6

\* The thread that holds the lock goes on, or the loop without it does.
LEMMA MoveStep ==
  ASSUME TypeOK, LockOK, NEW t \in Thread, NEW at \in PcValue,
         pc[t] \in Holding <=> at \in Holding,
         pc' = [pc EXCEPT ![t] = at], UNCHANGED ctx_lock
  PROVE  /\ pc' \in [Thread -> PcValue] /\ ctx_lock' \in Thread \cup {NoThread}
         /\ LockOK'
         /\ pc'[t] = at
         /\ \A u \in Thread : u # t => pc'[u] = pc[u]
<1>1. pc \in [Thread -> PcValue] /\ ctx_lock \in Thread \cup {NoThread}
  BY DEF TypeOK, PcValue
<1>2. pc' \in [Thread -> PcValue] /\ pc'[t] = at /\ \A u \in Thread : u # t => pc'[u] = pc[u]
  BY <1>1
<1>3. LockOK'  BY <1>2 DEF LockOK
<1> QED  BY <1>1, <1>2, <1>3

LEMMA OneHolder ==
  ASSUME LockOK, NEW t \in Thread, pc[t] \in Holding
  PROVE  ctx_lock = t /\ \A u \in Thread : u # t => pc[u] \notin Holding
BY DEF LockOK

-----------------------------------------------------------------------------
(* SendData.                                                                *)

LEMMA InitStep ==
  ASSUME Init
  PROVE  IInv
<1>1. \A t \in Thread : pc[t] \in {"wait", "idle"}  BY DEF Init
<1>2. TypeOK
  <2>1. pc \in [Thread -> PcValue]  BY DEF Init, PcValue
  <2>2. rest \in Piece  BY DEF Init, Nothing, Piece
  <2>3. start \in Seq(Nat) /\ wire \in Seq(Nat) /\ pending_send_deque \in Seq(Entry)
        /\ Len(wire) = 0
    BY EmptySeq DEF Init
  <2>4. interest \subseteq {"IN", "OUT"} /\ ready \subseteq {"IN", "OUT", "ERR"}
    BY DEF Init
  <2>5. drained \in Nat /\ drained <= Len(wire) /\ arrived \in Nat
    BY <2>3 DEF Init
  <2>6. inbound \in BOOLEAN /\ ctx_lock \in Thread \cup {NoThread} /\ conn \in {"open", "ended", "reset", "closed"}
        /\ is_sent_pending \in BOOLEAN /\ role \in Roles
    BY DEF Init
  <2> QED  BY <2>1, <2>2, <2>3, <2>4, <2>5, <2>6 DEF TypeOK, PcValue
<1>3. start # <<>>  BY DEF Init
<1>4. LockOK  BY <1>1, Threads DEF Init, LockOK, Holding
<1>5. RestOK  BY <1>1 DEF Init, RestOK
<1>6. FlagsOK  BY <1>1 DEF Init, FlagsOK
<1>7. WireInOrder  BY DEF Init, WireInOrder
<1>8. StreamOK
  <2>1. SentEnd = 0 /\ rest.n = 0 /\ Len(wire) = 0 /\ pending_send_deque = <<>>
    BY DEF Init, SentEnd, Nothing
  <2> QED  BY <2>1 DEF StreamOK, Follows, QueueEnd
<1> QED  BY <1>2, <1>3, <1>4, <1>5, <1>6, <1>7, <1>8 DEF IInv

LEMMA SendDataStep ==
  ASSUME IInv, NEW t \in Thread, NEW n \in FrameLen, SendData(t, n)
  PROVE  IInv'
<1> DEFINE e == SentEnd
           x == [at |-> e, n |-> n]
           w == Len(wire)
           q == pending_send_deque
<1>1. TypeOK /\ LockOK /\ RestOK /\ FlagsOK /\ WireInOrder /\ StreamOK /\ start # <<>>
  BY DEF IInv
<1>2. n \in Nat \ {0}  BY FrameLenAssumption
<1>3. e \in Nat /\ w \in Nat /\ q \in Seq(Entry)
  <2>1. start \in Seq(Nat) /\ wire \in Seq(Nat) /\ q \in Seq(Entry)  BY <1>1 DEF TypeOK
  <2>2. Len(start) \in 1 .. Len(start)  BY <1>1, <2>1, EmptySeq
  <2>3. SentEnd \in Nat  BY <2>1, <2>2, ElementOfSeq DEF SentEnd
  <2> QED  BY <2>1, <2>3
<1>4. x \in Entry /\ x \in Piece /\ x.at = e /\ x.n = n
  BY <1>2, <1>3 DEF Entry, Piece
<1>5. /\ start' = Append(start, e + n)
      /\ UNCHANGED <<is_sent_pending, interest, ready, conn, wire, role, drained, inbound, arrived>>
  BY DEF SendData, epoll, peer
<1>6. start' \in Seq(Nat) /\ start' # <<>> /\ SentEnd' = e + n
  <2>1. start \in Seq(Nat) /\ e + n \in Nat  BY <1>1, <1>2, <1>3 DEF TypeOK
  <2>2. /\ Append(start, e + n) \in Seq(Nat) /\ Len(Append(start, e + n)) = Len(start) + 1
        /\ Append(start, e + n)[Len(start) + 1] = e + n
    BY <2>1, AppendProperties
  <2> QED  BY <1>5, <2>1, <2>2, EmptySeq DEF SentEnd
<1>7. WireInOrder'  BY <1>1, <1>5 DEF WireInOrder
<1>8. \E at \in {"queued", "send"} : Acquire(t, at)  BY DEF SendData
<1>9. \A u \in Thread : pc[u] \notin Holding
  BY <1>1, <1>8, AcquireStep DEF Holding
<1>10. rest = Nothing /\ rest.n = 0
  BY <1>1, <1>9 DEF RestOK, Holding, Nothing
<1>11. conn # "closed" => (is_sent_pending <=> q # <<>>) /\ ("OUT" \in interest <=> is_sent_pending)
  BY <1>1, <1>9 DEF FlagsOK, Holding
<1>12. SendWorks => conn # "closed"  BY DEF SendWorks
<1>13. SendWorks' <=> SendWorks  BY <1>5 DEF SendWorks
<1>14. SendWorks => Follows(q, w) /\ e = QueueEnd(q, w)
  <2>1. SendWorks => e = QueueEnd(q, w) + rest.n  BY <1>1 DEF StreamOK
  <2>2. SendWorks => QueueEnd(q, w) + 0 = QueueEnd(q, w)
    <3>1. QueueEnd(q, w) \in Nat
      <4>1. q = <<>> => QueueEnd(q, w) = w  BY DEF QueueEnd
      <4>2. q # <<>> => QueueEnd(q, w) = q[Len(q)].at + q[Len(q)].n  BY DEF QueueEnd
      <4>3. q # <<>> => q[Len(q)] \in Entry  BY <1>3, EmptySeq, ElementOfSeq
      <4> QED  BY <1>3, <4>1, <4>2, <4>3 DEF Entry
    <3> QED  BY <3>1
  <2> QED  BY <1>1, <1>10, <2>1, <2>2 DEF StreamOK
<1> HIDE DEF e, w, q, x
<1>15. CASE /\ is_sent_pending /\ Acquire(t, "queued")
            /\ pending_send_deque' = Append(q, x) /\ UNCHANGED rest
  <2>1. /\ pc' \in [Thread -> PcValue] /\ ctx_lock' \in Thread \cup {NoThread} /\ LockOK'
        /\ pc'[t] = "queued" /\ \A u \in Thread : u # t => pc'[u] \notin Holding
    BY <1>1, <1>15, AcquireStep DEF Holding
  <2>2. \A u \in Thread : pc'[u] # "send" /\ pc'[u] # "blocked"
    BY <2>1 DEF Holding
  <2>3. RestOK'  BY <1>10, <1>15, <2>2 DEF RestOK
  <2>4. pending_send_deque' \in Seq(Entry) /\ pending_send_deque' # <<>>
    <3>1. Append(q, x) \in Seq(Entry) /\ Len(Append(q, x)) = Len(q) + 1 /\ Len(q) \in Nat
      BY <1>3, <1>4, AppendProperties
    <3> QED  BY <1>15, <3>1, EmptySeq
  <2>5. FlagsOK'  BY <1>5, <1>11, <1>15, <2>2, <2>4 DEF FlagsOK
  <2>6. StreamOK'
    <3>1. SendWorks => /\ Follows(Append(q, x), w)
                       /\ QueueEnd(Append(q, x), w) = e + n
      BY <1>3, <1>4, <1>14, AppendFollows
    <3>2. e + n = (e + n) + 0  BY <1>2, <1>3
    <3>3. Len(wire)' = w /\ rest'.n = 0  BY <1>5, <1>10, <1>15 DEF w
    <3> QED  BY <1>6, <1>13, <1>15, <3>1, <3>2, <3>3 DEF StreamOK
  <2>7. TypeOK'  BY <1>1, <1>5, <1>6, <1>15, <2>1, <2>4 DEF TypeOK, PcValue
  <2> QED  BY <1>6, <1>7, <2>1, <2>3, <2>5, <2>6, <2>7 DEF IInv
<1>16. CASE /\ ~is_sent_pending /\ Acquire(t, "send")
            /\ rest' = x /\ UNCHANGED pending_send_deque
  <2>1. /\ pc' \in [Thread -> PcValue] /\ ctx_lock' \in Thread \cup {NoThread} /\ LockOK'
        /\ pc'[t] = "send" /\ \A u \in Thread : u # t => pc'[u] \notin Holding
    BY <1>1, <1>16, AcquireStep DEF Holding
  <2>2. \A u \in Thread : pc'[u] # "queued" /\ pc'[u] # "blocked"
    BY <2>1 DEF Holding
  <2>3. SendWorks => q = <<>> /\ e = w
    BY <1>11, <1>12, <1>14, <1>16 DEF QueueEnd
  <2>4. RestOK'
    <3>1. x.n > 0  BY <1>2, <1>4
    <3>2. Len(wire)' = w  BY <1>5 DEF w
    <3> QED  BY <1>4, <1>5, <1>13, <1>16, <2>1, <2>3, <3>1, <3>2 DEF RestOK
  <2>5. FlagsOK'  BY <1>5, <1>11, <1>16, <2>2 DEF FlagsOK, q
  <2>6. StreamOK'
    <3>1. Len(wire)' = w /\ pending_send_deque' = q  BY <1>5, <1>16 DEF w, q
    <3> QED  BY <1>4, <1>6, <1>13, <1>14, <1>16, <3>1 DEF StreamOK
  <2>7. TypeOK'
    BY <1>1, <1>4, <1>5, <1>6, <1>16, <2>1 DEF TypeOK, PcValue
  <2> QED  BY <1>6, <1>7, <2>1, <2>4, <2>5, <2>6, <2>7 DEF IInv
<1> QED  BY <1>15, <1>16 DEF SendData, x, e, q

\* What holds while a thread sends its frame.
LEMMA Sending ==
  ASSUME IInv, NEW t \in Thread, pc[t] = "send"
  PROVE  /\ ctx_lock = t /\ pc[t] \in Holding
         /\ \A u \in Thread : u # t => pc[u] \notin Holding
         /\ \A u \in Thread : pc[u] # "blocked"
         /\ rest \in Entry
         /\ conn # "closed" => /\ is_sent_pending <=> pending_send_deque # <<>>
                               /\ "OUT" \in interest <=> is_sent_pending
         /\ SendWorks => /\ rest.at = Len(wire) /\ ~is_sent_pending
                         /\ pending_send_deque = <<>>
                         /\ SentEnd = rest.at + rest.n
<1>1. TypeOK /\ LockOK /\ RestOK /\ FlagsOK /\ StreamOK  BY DEF IInv
<1>2. ctx_lock = t /\ \A u \in Thread : u # t => pc[u] \notin Holding /\ pc[t] \in Holding
  BY <1>1, OneHolder DEF Holding
<1>3. \A u \in Thread : pc[u] # "blocked"  BY <1>2 DEF Holding
<1>4. rest.n > 0 /\ (SendWorks => rest.at = Len(wire) /\ ~is_sent_pending)
  BY <1>1 DEF RestOK
<1>5. rest \in Entry  BY <1>1, <1>4 DEF TypeOK, Piece, Entry
<1>6. conn # "closed" => /\ is_sent_pending <=> pending_send_deque # <<>>
                         /\ "OUT" \in interest <=> is_sent_pending
  BY <1>1, <1>3 DEF FlagsOK
<1>7. SendWorks => SentEnd = QueueEnd(pending_send_deque, Len(wire)) + rest.n
  BY <1>1 DEF StreamOK
<1>8. SendWorks => conn # "closed"  BY DEF SendWorks
<1> QED  BY <1>2, <1>3, <1>4, <1>5, <1>6, <1>7, <1>8 DEF QueueEnd, Holding

LEMMA HomeIsHome ==
  ASSUME NEW t \in Thread
  PROVE  Home(t) \in PcValue \ Holding
BY DEF Home, PcValue, Holding

LEMMA SendSomeStep ==
  ASSUME IInv, NEW t \in Thread, NEW k \in 1 .. SockCap, SendSome(t, k)
  PROVE  IInv'
<1>1. TypeOK /\ LockOK /\ RestOK /\ FlagsOK /\ WireInOrder /\ StreamOK /\ start # <<>>
  BY DEF IInv
<1>2. /\ pc[t] = "send" /\ Takes(rest, k) /\ SendWorks
      /\ UNCHANGED <<is_sent_pending, pending_send_deque, interest, ready, conn, start,
                     role, drained, inbound, arrived>>
  BY DEF SendSome, Takes, pending, epoll, peer
<1>3. /\ ctx_lock = t /\ pc[t] \in Holding /\ rest \in Entry /\ rest.at = Len(wire)
      /\ \A u \in Thread : u # t => pc[u] \notin Holding
      /\ ~is_sent_pending /\ pending_send_deque = <<>> /\ "OUT" \notin interest
      /\ SentEnd = rest.at + rest.n /\ conn # "closed"
  <2>1. conn # "closed"  BY <1>2 DEF SendWorks
  <2> QED  BY <1>2, <2>1, Sending
<1>4. /\ rest \in Piece /\ rest.n \in Nat \ {0} /\ rest.at \in Nat /\ k \in 1 .. rest.n
      /\ k \in Nat
  BY <1>1, <1>2, <1>3 DEF TypeOK, Entry, Takes
<1>5. wire' \in Seq(Nat) /\ Len(wire') = Len(wire) + k /\ WireInOrder'
  BY <1>1, <1>2, <1>3, <1>4, WireGoesOn
<1>6. drained \in Nat /\ Len(wire) \in Nat /\ drained <= Len(wire)
  BY <1>1 DEF TypeOK
<1>7. drained' \in Nat /\ drained' <= Len(wire')
  BY <1>2, <1>4, <1>5, <1>6
<1>8. SendWorks' /\ SentEnd' = SentEnd /\ conn' # "closed"
  BY <1>2, <1>3 DEF SendWorks, SentEnd
<1>9. CASE /\ k < rest.n /\ UNCHANGED <<ctx_lock, pc>>
           /\ rest' = [at |-> rest.at + k, n |-> rest.n - k]
  <2>1. rest' \in Entry /\ rest'.at = Len(wire') /\ rest'.n > 0
        /\ rest'.at + rest'.n = rest.at + rest.n
    <3> DEFINE a == rest.at
               m == rest.n
    <3>1. /\ a \in Nat /\ m \in Nat /\ k \in Nat /\ k < m /\ Len(wire') = a + k
      BY <1>3, <1>4, <1>5, <1>9
    <3>2. rest' = [at |-> a + k, n |-> m - k]  BY <1>9
    <3> HIDE DEF a, m
    <3>3. a + k \in Nat /\ m - k \in Nat \ {0} /\ m - k > 0 /\ (a + k) + (m - k) = a + m
      BY <3>1
    <3>4. rest' \in Entry /\ rest'.at = a + k /\ rest'.n = m - k
      BY <3>2, <3>3 DEF Entry
    <3> QED  BY <3>1, <3>3, <3>4 DEF a, m
  <2>2. RestOK'
    BY <1>2, <1>3, <1>9, <2>1 DEF RestOK
  <2>3. FlagsOK' /\ LockOK'
    BY <1>1, <1>2, <1>9 DEF FlagsOK, LockOK
  <2>4. StreamOK'
    BY <1>2, <1>3, <1>8, <2>1 DEF StreamOK, Follows, QueueEnd
  <2>5. TypeOK'
    <3>1. rest' \in Piece  BY <2>1 DEF Entry, Piece
    <3> QED  BY <1>1, <1>2, <1>5, <1>7, <1>9, <3>1 DEF TypeOK
  <2> QED  BY <1>1, <1>2, <1>5, <2>2, <2>3, <2>4, <2>5 DEF IInv
<1>10. CASE /\ k = rest.n /\ rest' = Nothing /\ Release(t, Home(t))
  <2>1. /\ pc' \in [Thread -> PcValue] /\ ctx_lock' \in Thread \cup {NoThread} /\ LockOK'
        /\ \A u \in Thread : pc'[u] \notin Holding
    BY <1>1, <1>3, <1>10, HomeIsHome, ReleaseStep
  <2>2. \A u \in Thread : pc'[u] \notin {"send", "blocked", "queued"}
    BY <2>1 DEF Holding
  <2>3. RestOK'  BY <1>10, <2>2 DEF RestOK
  <2>4. FlagsOK'  BY <1>2, <1>3, <2>2 DEF FlagsOK
  <2>5. StreamOK'
    <3>1. rest'.n = 0  BY <1>10 DEF Nothing
    <3>2. SentEnd' = Len(wire') + 0  BY <1>3, <1>4, <1>5, <1>6, <1>8, <1>10
    <3> QED  BY <1>2, <1>3, <3>1, <3>2 DEF StreamOK, Follows, QueueEnd
  <2>6. TypeOK'
    <3>1. rest' \in Piece  BY <1>10 DEF Nothing, Piece
    <3> QED  BY <1>1, <1>2, <1>5, <1>7, <2>1, <3>1 DEF TypeOK, PcValue
  <2> QED  BY <1>1, <1>2, <1>5, <2>1, <2>3, <2>4, <2>5, <2>6 DEF IInv
<1> QED  BY <1>9, <1>10 DEF SendSome, lock

LEMMA SendWouldBlockStep ==
  ASSUME IInv, NEW t \in Thread, SendWouldBlock(t)
  PROVE  IInv'
<1>1. TypeOK /\ LockOK /\ RestOK /\ FlagsOK /\ WireInOrder /\ StreamOK /\ start # <<>>
  BY DEF IInv
<1>2. /\ pc[t] = "send" /\ SendWorks
      /\ pending_send_deque' = Append(pending_send_deque, rest)
      /\ rest' = Nothing /\ pc' = [pc EXCEPT ![t] = "blocked"]
      /\ UNCHANGED <<ctx_lock, is_sent_pending, interest, ready, conn, start, wire,
                     role, drained, inbound, arrived>>
  BY DEF SendWouldBlock, WouldBlock, epoll, stream, peer
<1>3. /\ pc[t] \in Holding /\ rest \in Entry /\ rest.at = Len(wire)
      /\ \A u \in Thread : u # t => pc[u] \notin Holding
      /\ ~is_sent_pending /\ pending_send_deque = <<>> /\ "OUT" \notin interest
      /\ SentEnd = rest.at + rest.n
  <2>1. conn # "closed"  BY <1>2 DEF SendWorks
  <2> QED  BY <1>2, <2>1, Sending
<1>4. /\ pc' \in [Thread -> PcValue] /\ ctx_lock' \in Thread \cup {NoThread} /\ LockOK'
      /\ pc'[t] = "blocked" /\ \A u \in Thread : u # t => pc'[u] = pc[u]
  BY <1>1, <1>2, <1>3, MoveStep DEF PcValue, Holding
<1>5. \A u \in Thread : pc'[u] \notin {"send", "queued"}
  BY <1>3, <1>4 DEF Holding
<1>6. Len(wire) \in Nat /\ pending_send_deque \in Seq(Entry)  BY <1>1 DEF TypeOK
<1>7. /\ pending_send_deque' \in Seq(Entry) /\ pending_send_deque' # <<>>
      /\ Follows(pending_send_deque', Len(wire))
      /\ QueueEnd(pending_send_deque', Len(wire)) = rest.at + rest.n
  <2>1. Follows(pending_send_deque, Len(wire)) /\ QueueEnd(pending_send_deque, Len(wire)) = rest.at
    BY <1>3 DEF Follows, QueueEnd
  <2> QED  BY <1>2, <1>3, <1>6, <2>1, AppendFollows
<1>8. RestOK'  BY <1>2, <1>5 DEF RestOK
<1>9. FlagsOK'
  <2>1. conn' # "closed" /\ ~is_sent_pending' /\ "OUT" \notin interest'
    BY <1>2, <1>3 DEF SendWorks
  <2> QED  BY <1>4, <1>5, <1>7, <2>1 DEF FlagsOK
<1>10. StreamOK'
  <2>1. rest'.n = 0 /\ rest.at + rest.n \in Nat  BY <1>2, <1>3 DEF Nothing, Entry
  <2>2. SentEnd' = (rest.at + rest.n) + 0  BY <1>2, <1>3, <2>1 DEF SentEnd
  <2>3. Len(wire)' = Len(wire)  BY <1>2
  <2> QED  BY <1>7, <2>1, <2>2, <2>3 DEF StreamOK
<1>11. TypeOK'
  <2>1. rest' \in Piece  BY <1>2 DEF Nothing, Piece
  <2> QED  BY <1>1, <1>2, <1>4, <1>7, <2>1 DEF TypeOK, PcValue
<1>12. WireInOrder'  BY <1>1, <1>2 DEF WireInOrder
<1> QED  BY <1>1, <1>2, <1>4, <1>8, <1>9, <1>10, <1>11, <1>12 DEF IInv

LEMMA SendFailsStep ==
  ASSUME IInv, NEW t \in Thread, SendFails(t)
  PROVE  IInv'
<1>1. TypeOK /\ LockOK /\ RestOK /\ FlagsOK /\ WireInOrder /\ StreamOK /\ start # <<>>
  BY DEF IInv
<1>2. /\ pc[t] = "send" /\ ~SendWorks /\ rest' = Nothing /\ Release(t, Home(t))
      /\ UNCHANGED <<is_sent_pending, pending_send_deque, interest, ready, conn, start, wire,
                     role, drained, inbound, arrived>>
  BY DEF SendFails, pending, epoll, stream, peer
<1>3. /\ pc[t] \in Holding
      /\ conn # "closed" => /\ is_sent_pending <=> pending_send_deque # <<>>
                            /\ "OUT" \in interest <=> is_sent_pending
  BY <1>2, Sending
<1>4. /\ pc' \in [Thread -> PcValue] /\ ctx_lock' \in Thread \cup {NoThread} /\ LockOK'
      /\ \A u \in Thread : pc'[u] \notin Holding
  BY <1>1, <1>2, <1>3, HomeIsHome, ReleaseStep
<1>5. \A u \in Thread : pc'[u] \notin {"send", "blocked", "queued"}  BY <1>4 DEF Holding
<1>6. RestOK'  BY <1>2, <1>5 DEF RestOK
<1>7. FlagsOK'  BY <1>2, <1>3, <1>5 DEF FlagsOK
<1>8. StreamOK'  BY <1>2 DEF StreamOK, SendWorks
<1>9. TypeOK'
  <2>1. rest' \in Piece  BY <1>2 DEF Nothing, Piece
  <2> QED  BY <1>1, <1>2, <1>4, <2>1 DEF TypeOK, PcValue
<1>10. WireInOrder'  BY <1>1, <1>2 DEF WireInOrder
<1> QED  BY <1>1, <1>2, <1>4, <1>6, <1>7, <1>8, <1>9, <1>10 DEF IInv

\* What holds while a thread has queued something and not told epoll.
LEMMA Queued ==
  ASSUME IInv, NEW t \in Thread, pc[t] \in {"blocked", "queued"}
  PROVE  /\ pc[t] \in Holding /\ rest = Nothing
         /\ conn # "closed" => pending_send_deque # <<>>
<1>1. LockOK /\ RestOK /\ FlagsOK  BY DEF IInv
<1>2. pc[t] \in Holding /\ \A u \in Thread : u # t => pc[u] \notin Holding
  BY <1>1, OneHolder DEF Holding
<1>3. \A u \in Thread : pc[u] # "send"  BY <1>2 DEF Holding
<1>4. rest = Nothing  BY <1>1, <1>3 DEF RestOK
<1>5. pc[t] = "queued" => \A u \in Thread : pc[u] # "blocked"  BY <1>2 DEF Holding
<1>6. conn # "closed" => pending_send_deque # <<>>
  BY <1>1, <1>5 DEF FlagsOK
<1> QED  BY <1>2, <1>4, <1>6

LEMMA ControlEpollOutStep ==
  ASSUME IInv, NEW t \in Thread, ControlEpollOut(t)
  PROVE  IInv'
<1>1. TypeOK /\ LockOK /\ RestOK /\ FlagsOK /\ WireInOrder /\ StreamOK /\ start # <<>>
  BY DEF IInv
<1>2. /\ pc[t] \in {"blocked", "queued"} /\ conn # "closed" /\ Release(t, Home(t))
      /\ interest' = {"IN", "OUT"} /\ is_sent_pending' = TRUE
      /\ UNCHANGED <<rest, pending_send_deque, ready, conn, start, wire,
                     role, drained, inbound, arrived>>
  BY DEF ControlEpollOut, stream, peer
<1>3. pc[t] \in Holding /\ rest = Nothing /\ pending_send_deque # <<>>
  BY <1>2, Queued
<1>4. /\ pc' \in [Thread -> PcValue] /\ ctx_lock' \in Thread \cup {NoThread} /\ LockOK'
      /\ \A u \in Thread : pc'[u] \notin Holding
  BY <1>1, <1>2, <1>3, HomeIsHome, ReleaseStep
<1>5. \A u \in Thread : pc'[u] \notin {"send", "blocked", "queued"}  BY <1>4 DEF Holding
<1>6. RestOK'  BY <1>2, <1>3, <1>5 DEF RestOK
<1>7. FlagsOK'  BY <1>2, <1>3, <1>5 DEF FlagsOK
<1>8. StreamOK'  BY <1>1, <1>2 DEF StreamOK, SendWorks, SentEnd
<1>9. TypeOK'
  <2>1. interest' \subseteq {"IN", "OUT"} /\ is_sent_pending' \in BOOLEAN  BY <1>2
  <2> QED  BY <1>1, <1>2, <1>4, <2>1 DEF TypeOK, PcValue
<1>10. WireInOrder'  BY <1>1, <1>2 DEF WireInOrder
<1> QED  BY <1>1, <1>2, <1>4, <1>6, <1>7, <1>8, <1>9, <1>10 DEF IInv

LEMMA ControlEpollFailsStep ==
  ASSUME IInv, NEW t \in Thread, ControlEpollFails(t)
  PROVE  IInv'
<1> DEFINE q == pending_send_deque
<1>1. TypeOK /\ LockOK /\ RestOK /\ FlagsOK /\ WireInOrder /\ StreamOK /\ start # <<>>
  BY DEF IInv
<1>2. /\ pc[t] \in {"blocked", "queued"} /\ conn = "closed" /\ Release(t, Home(t))
      /\ q' = SubSeq(q, 1, Len(q) - 1)
      /\ UNCHANGED <<rest, is_sent_pending, interest, ready, conn, start, wire,
                     role, drained, inbound, arrived>>
  BY DEF ControlEpollFails, epoll, stream, peer
<1>3. pc[t] \in Holding /\ rest = Nothing  BY <1>2, Queued
<1>4. /\ pc' \in [Thread -> PcValue] /\ ctx_lock' \in Thread \cup {NoThread} /\ LockOK'
      /\ \A u \in Thread : pc'[u] \notin Holding
  BY <1>1, <1>2, <1>3, HomeIsHome, ReleaseStep
<1>5. \A u \in Thread : pc'[u] \notin {"send", "blocked", "queued"}  BY <1>4 DEF Holding
<1>6. RestOK'  BY <1>2, <1>3, <1>5 DEF RestOK
<1>7. FlagsOK' /\ StreamOK'  BY <1>2 DEF FlagsOK, StreamOK, SendWorks
<1>8. q' \in Seq(Entry)
  <2>1. q \in Seq(Entry) /\ Len(q) \in Nat  BY <1>1 DEF TypeOK
  <2>2. \A i \in 1 .. Len(q) - 1 : q[i] \in Entry  BY <2>1, ElementOfSeq
  <2>3. 1 \in Int /\ Len(q) - 1 \in Int  BY <2>1
  <2> HIDE DEF q
  <2>4. SubSeq(q, 1, Len(q) - 1) \in Seq(Entry)  BY <2>2, <2>3, SubSeqProperties
  <2> QED  BY <1>2, <2>4
<1>9. TypeOK'  BY <1>1, <1>2, <1>4, <1>8 DEF TypeOK, PcValue
<1>10. WireInOrder'  BY <1>1, <1>2 DEF WireInOrder
<1> QED  BY <1>1, <1>2, <1>4, <1>6, <1>7, <1>9, <1>10 DEF IInv

-----------------------------------------------------------------------------
(* The loop.                                                                *)

\* What does not touch the queue or the stream.
LEMMA LoopMoves ==
  ASSUME IInv, NEW to \in PcValue \ Holding, pc[Loop] \notin Holding, LoopGoes(to),
         UNCHANGED <<ctx_lock, rest, pending, interest, conn, stream, role, drained>>,
         ready' \subseteq {"IN", "OUT", "ERR"}, inbound' \in BOOLEAN, arrived' \in Nat
  PROVE  IInv'
<1>1. TypeOK /\ LockOK /\ RestOK /\ FlagsOK /\ WireInOrder /\ StreamOK /\ start # <<>>
  BY DEF IInv
<1>2. /\ pc' = [pc EXCEPT ![Loop] = to]
      /\ UNCHANGED <<ctx_lock, rest, is_sent_pending, pending_send_deque, interest, conn,
                     start, wire, role, drained>>
  BY DEF LoopGoes, pending, stream
<1>3. /\ pc' \in [Thread -> PcValue] /\ ctx_lock' \in Thread \cup {NoThread} /\ LockOK'
      /\ pc'[Loop] = to /\ \A u \in Thread : u # Loop => pc'[u] = pc[u]
  BY <1>1, <1>2, Threads, MoveStep
<1>4. \A u \in Thread, at \in Holding : pc'[u] = at <=> pc[u] = at
  BY <1>3 DEF Holding
<1>5. \A u \in Thread : /\ pc'[u] = "send" <=> pc[u] = "send"
                        /\ pc'[u] = "blocked" <=> pc[u] = "blocked"
                        /\ pc'[u] = "queued" <=> pc[u] = "queued"
  BY <1>4 DEF Holding
<1>6. RestOK'  BY <1>1, <1>2, <1>5 DEF RestOK, SendWorks
<1>7. FlagsOK'  BY <1>1, <1>2, <1>5 DEF FlagsOK
<1>8. StreamOK'  BY <1>1, <1>2 DEF StreamOK, SendWorks, SentEnd
<1>9. TypeOK'  BY <1>1, <1>2, <1>3 DEF TypeOK, PcValue
<1>10. WireInOrder'  BY <1>1, <1>2 DEF WireInOrder
<1> QED  BY <1>1, <1>2, <1>3, <1>6, <1>7, <1>8, <1>9, <1>10 DEF IInv

LEMMA LoopMovesStep ==
  ASSUME IInv,
         EpollWait \/ EpollWaitTimeout \/ LoopRecv \/ LoopRecvNothing \/ CallbackReturns
  PROVE  IInv'
<1>1. TypeOK  BY DEF IInv
<1>2. ready \subseteq {"IN", "OUT", "ERR"} /\ inbound \in BOOLEAN /\ arrived \in Nat
  BY <1>1 DEF TypeOK
<1>3. Events \subseteq {"IN", "OUT", "ERR"}  BY DEF Events
<1>4. {"wait", "handle", "callback"} \subseteq PcValue \ Holding  BY DEF PcValue, Holding
<1>5. CASE EpollWait
  <2>1. /\ pc[Loop] \notin Holding /\ LoopGoes("handle")
        /\ UNCHANGED <<ctx_lock, rest, pending, interest, conn, stream, role, drained>>
        /\ ready' = Events /\ inbound' = inbound /\ arrived' = arrived
    BY <1>5 DEF EpollWait, Holding, peer
  <2> QED  BY <1>2, <1>3, <1>4, <2>1, LoopMoves
<1>6. CASE EpollWaitTimeout
  <2>1. /\ pc[Loop] \notin Holding /\ LoopGoes("handle")
        /\ UNCHANGED <<ctx_lock, rest, pending, interest, conn, stream, role, drained>>
        /\ ready' = ready /\ inbound' = inbound /\ arrived' = arrived
    BY <1>6 DEF EpollWaitTimeout, Holding, peer, epoll
  <2> QED  BY <1>2, <1>4, <2>1, LoopMoves
<1>7. CASE LoopRecv
  <2>1. /\ pc[Loop] \notin Holding /\ LoopGoes("callback")
        /\ UNCHANGED <<ctx_lock, rest, pending, interest, conn, stream, role, drained>>
        /\ ready' = ready /\ inbound' = FALSE /\ arrived' = arrived
    BY <1>7 DEF LoopRecv, Holding, epoll
  <2> QED  BY <1>2, <1>4, <2>1, LoopMoves
<1>8. CASE LoopRecvNothing
  <2>1. /\ pc[Loop] \notin Holding /\ LoopGoes("wait")
        /\ UNCHANGED <<ctx_lock, rest, pending, interest, conn, stream, role, drained>>
        /\ ready' = ready /\ inbound' = inbound /\ arrived' = arrived
    BY <1>8 DEF LoopRecvNothing, Holding, epoll, peer
  <2> QED  BY <1>2, <1>4, <2>1, LoopMoves
<1>9. CASE CallbackReturns
  <2>1. /\ pc[Loop] \notin Holding /\ LoopGoes("wait")
        /\ UNCHANGED <<ctx_lock, rest, pending, interest, conn, stream, role, drained>>
        /\ ready' = ready /\ inbound' = inbound /\ arrived' = arrived
    BY <1>9 DEF CallbackReturns, Holding, epoll, peer
  <2> QED  BY <1>2, <1>4, <2>1, LoopMoves
<1> QED  BY <1>5, <1>6, <1>7, <1>8, <1>9

\* Once the loop has closed the connection no more is claimed of the queue.
LEMMA CloseStep ==
  ASSUME IInv, LockOK', pc' \in [Thread -> PcValue], ctx_lock' \in Thread \cup {NoThread},
         \A u \in Thread : pc'[u] = "send" <=> pc[u] = "send", CloseSocket
  PROVE  IInv'
<1>1. TypeOK /\ RestOK /\ WireInOrder /\ start # <<>>  BY DEF IInv
<1>2. /\ conn' = "closed" /\ interest' = {}
      /\ UNCHANGED <<rest, is_sent_pending, pending_send_deque, ready, start, wire,
                     role, drained, inbound, arrived>>
  BY DEF CloseSocket, pending, stream, peer
<1>3. ~SendWorks'  BY <1>2 DEF SendWorks
<1>4. RestOK'  BY <1>1, <1>2, <1>3 DEF RestOK
<1>5. FlagsOK' /\ StreamOK'  BY <1>2, <1>3 DEF FlagsOK, StreamOK
<1>6. TypeOK'
  <2>1. interest' \subseteq {"IN", "OUT"} /\ conn' \in {"open", "ended", "reset", "closed"}
    BY <1>2
  <2> QED  BY <1>1, <1>2, <2>1 DEF TypeOK, PcValue
<1>7. WireInOrder'  BY <1>1, <1>2 DEF WireInOrder
<1> QED  BY <1>1, <1>2, <1>4, <1>5, <1>6, <1>7 DEF IInv

LEMMA LoopCloseStep ==
  ASSUME IInv, LoopClose
  PROVE  IInv'
<1>1. TypeOK /\ LockOK  BY DEF IInv
<1>2. /\ pc[Loop] = "handle" /\ CloseSocket /\ UNCHANGED ctx_lock
      /\ \E at \in {"closed", "exited"} : pc' = [pc EXCEPT ![Loop] = at]
  BY DEF LoopClose, LoopGoes
<1>3. PICK at \in {"closed", "exited"} : pc' = [pc EXCEPT ![Loop] = at]  BY <1>2
<1>4. /\ pc' \in [Thread -> PcValue] /\ ctx_lock' \in Thread \cup {NoThread} /\ LockOK'
      /\ pc'[Loop] = at /\ \A u \in Thread : u # Loop => pc'[u] = pc[u]
  BY <1>1, <1>2, <1>3, Threads, MoveStep DEF PcValue, Holding
<1>5. \A u \in Thread : pc'[u] = "send" <=> pc[u] = "send"  BY <1>2, <1>4
<1> QED  BY <1>2, <1>4, <1>5, CloseStep

\* What holds while the loop is in SendPendingData.
LEMMA Pending ==
  ASSUME IInv, pc[Loop] = "pending"
  PROVE  /\ pc[Loop] \in Holding /\ rest = Nothing
         /\ \A u \in Thread : u # Loop => pc[u] \notin Holding
         /\ conn # "closed" => /\ is_sent_pending <=> pending_send_deque # <<>>
                               /\ "OUT" \in interest <=> is_sent_pending
<1>1. LockOK /\ RestOK /\ FlagsOK  BY DEF IInv
<1>2. pc[Loop] \in Holding /\ \A u \in Thread : u # Loop => pc[u] \notin Holding
  BY <1>1, OneHolder, Threads DEF Holding
<1>3. \A u \in Thread : pc[u] # "send" /\ pc[u] # "blocked"  BY <1>2 DEF Holding
<1>4. rest = Nothing  BY <1>1, <1>3 DEF RestOK
<1> QED  BY <1>1, <1>2, <1>3, <1>4 DEF FlagsOK

\* The loop takes the lock, or gives it back with everything as it was.
LEMMA PendingLockStep ==
  ASSUME IInv, SendPendingData \/ PendingNothing \/ PendingWouldBlock
  PROVE  IInv'
<1>1. TypeOK /\ LockOK /\ RestOK /\ FlagsOK /\ WireInOrder /\ StreamOK /\ start # <<>>
  BY DEF IInv
<1>2. UNCHANGED <<rest, is_sent_pending, pending_send_deque, interest, ready, conn,
                  start, wire, role, drained, inbound, arrived>>
  BY DEF SendPendingData, PendingNothing, PendingWouldBlock, pending, epoll, stream, peer
<1>3. /\ pc' \in [Thread -> PcValue] /\ ctx_lock' \in Thread \cup {NoThread} /\ LockOK'
      /\ \A u \in Thread : pc'[u] \notin {"send", "blocked", "queued"}
      /\ rest = Nothing
      /\ conn # "closed" => /\ is_sent_pending <=> pending_send_deque # <<>>
                            /\ "OUT" \in interest <=> is_sent_pending
  <2>1. CASE SendPendingData
    <3>1. Acquire(Loop, "pending")  BY <2>1 DEF SendPendingData
    <3>2. /\ pc' \in [Thread -> PcValue] /\ ctx_lock' \in Thread \cup {NoThread} /\ LockOK'
          /\ pc'[Loop] = "pending"
          /\ \A u \in Thread : pc[u] \notin Holding /\ (u # Loop => pc'[u] = pc[u])
      BY <1>1, <3>1, AcquireStep, Threads DEF Holding
    <3>3. rest = Nothing /\ \A u \in Thread : pc[u] # "blocked"
      BY <1>1, <3>2 DEF RestOK, Holding
    <3> QED  BY <1>1, <3>2, <3>3 DEF FlagsOK, Holding
  <2>2. CASE PendingNothing \/ PendingWouldBlock
    <3>1. pc[Loop] = "pending" /\ Release(Loop, "wait")
      BY <2>2 DEF PendingNothing, PendingWouldBlock
    <3>2. /\ pc' \in [Thread -> PcValue] /\ ctx_lock' \in Thread \cup {NoThread} /\ LockOK'
          /\ \A u \in Thread : pc'[u] \notin Holding
      BY <1>1, <3>1, ReleaseStep, Threads DEF Holding, PcValue
    <3> QED  BY <3>1, <3>2, Pending DEF Holding
  <2> QED  BY <2>1, <2>2
<1>4. RestOK'  BY <1>2, <1>3 DEF RestOK
<1>5. FlagsOK'  BY <1>2, <1>3 DEF FlagsOK
<1>6. StreamOK'  BY <1>1, <1>2 DEF StreamOK, SendWorks, SentEnd
<1>7. TypeOK'  BY <1>1, <1>2, <1>3 DEF TypeOK, PcValue
<1>8. WireInOrder'  BY <1>1, <1>2 DEF WireInOrder
<1> QED  BY <1>1, <1>2, <1>3, <1>4, <1>5, <1>6, <1>7, <1>8 DEF IInv

LEMMA PendingFailsStep ==
  ASSUME IInv, PendingFails
  PROVE  IInv'
<1>1. TypeOK /\ LockOK  BY DEF IInv
<1>2. /\ pc[Loop] = "pending" /\ CloseSocket
      /\ \/ Release(Loop, "exited")
         \/ pc' = [pc EXCEPT ![Loop] = "failed"] /\ UNCHANGED ctx_lock
  BY DEF PendingFails, LoopGoes
<1>3. /\ pc' \in [Thread -> PcValue] /\ ctx_lock' \in Thread \cup {NoThread} /\ LockOK'
      /\ \A u \in Thread : pc'[u] # "send"
  <2>1. CASE Release(Loop, "exited")
    BY <1>1, <1>2, <2>1, ReleaseStep, Threads DEF Holding, PcValue
  <2>2. CASE pc' = [pc EXCEPT ![Loop] = "failed"] /\ UNCHANGED ctx_lock
    <3>1. /\ pc' \in [Thread -> PcValue] /\ ctx_lock' \in Thread \cup {NoThread} /\ LockOK'
          /\ pc'[Loop] = "failed" /\ \A u \in Thread : u # Loop => pc'[u] = pc[u]
      BY <1>1, <1>2, <2>2, MoveStep, Threads DEF Holding, PcValue
    <3> QED  BY <1>2, <3>1, Pending DEF Holding
  <2> QED  BY <1>2, <2>1, <2>2
<1>4. \A u \in Thread : pc[u] # "send" /\ pc'[u] # "send"
  BY <1>2, <1>3, Pending DEF Holding
<1> QED  BY <1>2, <1>3, <1>4, CloseStep

\* Only a server comes here, and with the socket closed.
ClosingOK == pc[Loop] \in {"closed", "failed"} => role = "server" /\ conn = "closed"

\* The queue is emptied under whoever has the lock, of a connection that is closed.
LEMMA PushClientContextStep ==
  ASSUME IInv, ClosingOK, PushClientContextToCache
  PROVE  IInv'
<1>1. TypeOK /\ LockOK /\ RestOK /\ WireInOrder /\ start # <<>>  BY DEF IInv
<1>2. /\ is_sent_pending' = FALSE /\ pending_send_deque' = <<>>
      /\ UNCHANGED <<rest, interest, ready, conn, start, wire, role, drained, inbound, arrived>>
  BY DEF PushClientContextToCache, epoll, stream, peer
<1>3. pc[Loop] \in {"closed", "failed"} /\ conn = "closed" /\ conn' = "closed"
  BY <1>2 DEF PushClientContextToCache, ClosingOK
<1>4. /\ pc' \in [Thread -> PcValue] /\ ctx_lock' \in Thread \cup {NoThread} /\ LockOK'
      /\ \A u \in Thread : pc'[u] = "send" => pc[u] = "send"
      /\ \A u \in Thread : pc[u] = "send" => pc'[u] = "send"
  <2>1. CASE pc[Loop] = "closed"
    <3>1. pc' = [pc EXCEPT ![Loop] = "exited"] /\ UNCHANGED ctx_lock
      BY <2>1 DEF PushClientContextToCache, LoopGoes
    <3>2. /\ pc' \in [Thread -> PcValue] /\ ctx_lock' \in Thread \cup {NoThread} /\ LockOK'
          /\ pc'[Loop] = "exited" /\ \A u \in Thread : u # Loop => pc'[u] = pc[u]
      BY <1>1, <2>1, <3>1, MoveStep, Threads DEF Holding, PcValue
    <3> QED  BY <2>1, <3>2
  <2>2. CASE pc[Loop] = "failed"
    <3>1. Release(Loop, "exited")
      BY <2>2 DEF PushClientContextToCache, LoopGoes, Release
    <3>2. /\ pc' \in [Thread -> PcValue] /\ ctx_lock' \in Thread \cup {NoThread} /\ LockOK'
          /\ \A u \in Thread : pc'[u] \notin Holding
      BY <1>1, <2>2, <3>1, ReleaseStep, Threads DEF Holding, PcValue
    <3>3. \A u \in Thread : u # Loop => pc[u] \notin Holding
      BY <1>1, <2>2, OneHolder, Threads DEF Holding
    <3> QED  BY <2>2, <3>2, <3>3 DEF Holding
  <2> QED  BY <1>3, <2>1, <2>2
<1>5. ~SendWorks'  BY <1>3 DEF SendWorks
<1>6. RestOK'  BY <1>1, <1>2, <1>4, <1>5 DEF RestOK
<1>7. FlagsOK' /\ StreamOK'  BY <1>3, <1>5 DEF FlagsOK, StreamOK
<1>8. TypeOK'
  <2>1. pending_send_deque' \in Seq(Entry)  BY <1>2, EmptySeq
  <2> QED  BY <1>1, <1>2, <1>4, <2>1 DEF TypeOK, PcValue
<1>9. WireInOrder'  BY <1>1, <1>2 DEF WireInOrder
<1> QED  BY <1>1, <1>2, <1>4, <1>6, <1>7, <1>8, <1>9 DEF IInv

LEMMA PendingSendStep ==
  ASSUME IInv, NEW k \in 1 .. SockCap, PendingSend(k)
  PROVE  IInv'
<1> DEFINE q == pending_send_deque
           first == Head(q)
           others == Tail(q)
           w == Len(wire)
<1>1. TypeOK /\ LockOK /\ RestOK /\ FlagsOK /\ WireInOrder /\ StreamOK /\ start # <<>>
  BY DEF IInv
<1>2. /\ pc[Loop] = "pending" /\ q # <<>> /\ Takes(first, k)
      /\ UNCHANGED <<rest, ready, conn, start, role, drained, inbound, arrived>>
  BY DEF PendingSend, peer
<1>3. SendWorks /\ k \in 1 .. first.n  BY <1>2 DEF Takes
<1>4. /\ pc[Loop] \in Holding /\ rest = Nothing
      /\ \A u \in Thread : u # Loop => pc[u] \notin Holding
      /\ is_sent_pending /\ "OUT" \in interest /\ conn # "closed"
  BY <1>2, <1>3, Pending DEF SendWorks
<1>5. q \in Seq(Entry) /\ w \in Nat /\ drained \in Nat /\ drained <= w
  BY <1>1 DEF TypeOK
<1>6. Follows(q, w) /\ SentEnd = QueueEnd(q, w) + rest.n
  BY <1>1, <1>3 DEF StreamOK
<1>7. /\ first \in Entry /\ first.at = w /\ others \in Seq(Entry)
      /\ Follows(others, w + first.n)
      /\ QueueEnd(others, w + first.n) = QueueEnd(q, w)
  BY <1>2, <1>5, <1>6, TailFollows
<1>8. first.n \in Nat \ {0} /\ first.at \in Nat /\ first \in Piece /\ k \in Nat \ {0}
  <2>1. first.n \in Nat \ {0} /\ first.at \in Nat /\ first \in Piece
    BY <1>7 DEF Entry, Piece
  <2> HIDE DEF first
  <2> QED  BY <1>3, <2>1
<1> HIDE DEF first, others
<1>9. wire' \in Seq(Nat) /\ Len(wire') = w + k /\ WireInOrder'
  BY <1>1, <1>2, <1>3, <1>7, <1>8, WireGoesOn
<1>10. drained' \in Nat /\ drained' <= Len(wire')
  BY <1>2, <1>5, <1>8, <1>9
<1>11. SendWorks' /\ SentEnd' = SentEnd /\ conn' # "closed" /\ rest' = rest
  BY <1>2, <1>3, <1>4 DEF SendWorks, SentEnd
<1> HIDE DEF w, q
\* The loop keeps the lock for the next entry, or gives it back.
<1>12. ASSUME UNCHANGED <<ctx_lock, pc>> \/ Release(Loop, "wait")
       PROVE  /\ pc' \in [Thread -> PcValue] /\ ctx_lock' \in Thread \cup {NoThread} /\ LockOK'
              /\ \A u \in Thread : pc'[u] \notin {"send", "blocked", "queued"}
  <2>1. CASE UNCHANGED <<ctx_lock, pc>>
    <3>1. \A u \in Thread : pc'[u] \notin {"send", "blocked", "queued"}
      BY <1>2, <1>4, <2>1 DEF Holding
    <3>2. LockOK'  BY <1>1, <2>1 DEF LockOK
    <3> QED  BY <1>1, <2>1, <3>1, <3>2 DEF TypeOK, PcValue
  <2>2. CASE Release(Loop, "wait")
    <3>1. /\ pc' \in [Thread -> PcValue] /\ ctx_lock' \in Thread \cup {NoThread} /\ LockOK'
          /\ \A u \in Thread : pc'[u] \notin Holding
      BY <1>1, <1>4, <2>2, ReleaseStep, Threads DEF Holding, PcValue
    <3> QED  BY <3>1 DEF Holding
  <2> QED  BY <1>12, <2>1, <2>2
<1>13. ASSUME UNCHANGED <<ctx_lock, pc>> \/ Release(Loop, "wait"),
              NEW r \in Seq(Entry), pending_send_deque' = r,
              Follows(r, w + k), QueueEnd(r, w + k) = QueueEnd(q, w),
              is_sent_pending' \in BOOLEAN, interest' \subseteq {"IN", "OUT"},
              is_sent_pending' <=> r # <<>>,
              "OUT" \in interest' <=> is_sent_pending'
       PROVE  IInv'
  <2>1. /\ pc' \in [Thread -> PcValue] /\ ctx_lock' \in Thread \cup {NoThread} /\ LockOK'
        /\ \A u \in Thread : pc'[u] \notin {"send", "blocked", "queued"}
    BY <1>12, <1>13
  <2>2. RestOK'  BY <1>4, <1>11, <2>1 DEF RestOK
  <2>3. FlagsOK'  BY <1>13, <2>1 DEF FlagsOK
  <2>4. StreamOK'
    BY <1>6, <1>9, <1>11, <1>13 DEF StreamOK
  <2>5. TypeOK'  BY <1>1, <1>2, <1>9, <1>10, <1>13, <2>1 DEF TypeOK, PcValue
  <2> QED  BY <1>1, <1>2, <1>9, <2>1, <2>2, <2>3, <2>4, <2>5 DEF IInv
<1>14. CASE /\ k = first.n /\ others = <<>> /\ pending_send_deque' = <<>>
            /\ is_sent_pending' = FALSE /\ interest' = {"IN"} /\ Release(Loop, "wait")
  <2>1. pending_send_deque' = others  BY <1>14
  <2>2. Follows(others, w + k) /\ QueueEnd(others, w + k) = QueueEnd(q, w)
    BY <1>7, <1>14
  <2>3. is_sent_pending' <=> others # <<>>  BY <1>14
  <2>4. /\ is_sent_pending' \in BOOLEAN /\ interest' \subseteq {"IN", "OUT"}
        /\ "OUT" \in interest' <=> is_sent_pending'
    BY <1>14
  <2> QED  BY <1>7, <1>13, <1>14, <2>1, <2>2, <2>3, <2>4
<1>15. CASE /\ k = first.n /\ others # <<>> /\ pending_send_deque' = others
            /\ UNCHANGED <<ctx_lock, pc, is_sent_pending, interest>>
  <2>1. Follows(others, w + k) /\ QueueEnd(others, w + k) = QueueEnd(q, w)
    BY <1>7, <1>15
  <2>2. is_sent_pending' <=> others # <<>>  BY <1>4, <1>15
  <2>3. /\ is_sent_pending' \in BOOLEAN /\ interest' \subseteq {"IN", "OUT"}
        /\ "OUT" \in interest' <=> is_sent_pending'
    BY <1>1, <1>4, <1>15 DEF TypeOK
  <2> QED  BY <1>7, <1>13, <1>15, <2>1, <2>2, <2>3
<1>16. CASE /\ k < first.n
            /\ pending_send_deque' = <<[at |-> first.at + k, n |-> first.n - k]>> \o others
            /\ Release(Loop, "wait") /\ UNCHANGED <<is_sent_pending, interest>>
  <2> DEFINE m == first.n
             x == [at |-> w + k, n |-> m - k]
             r == <<x>> \o others
  <2>1. pending_send_deque' = r  BY <1>7, <1>16
  <2>2. w \in Nat /\ m \in Nat /\ k \in Nat /\ k < m  BY <1>5, <1>8, <1>16 DEF w
  <2>3. Follows(others, w + m) /\ QueueEnd(others, w + m) = QueueEnd(q, w)  BY <1>7
  <2> HIDE DEF m
  <2>4. w + k \in Nat /\ m - k \in Nat \ {0} /\ (w + k) + (m - k) = w + m  BY <2>2
  <2>5. x \in Entry /\ x.at = w + k /\ x.n = m - k  BY <2>4 DEF Entry
  <2> HIDE DEF x
  <2>6. /\ r \in Seq(Entry) /\ r # <<>> /\ Follows(r, w + k)
        /\ QueueEnd(r, w + k) = QueueEnd(others, (w + k) + x.n)
    BY <1>7, <2>3, <2>4, <2>5, PrependFollows
  <2>7. QueueEnd(r, w + k) = QueueEnd(q, w)  BY <2>3, <2>4, <2>5, <2>6
  <2> HIDE DEF r
  <2>8. is_sent_pending' <=> r # <<>>  BY <1>4, <1>16, <2>6
  <2>9. /\ is_sent_pending' \in BOOLEAN /\ interest' \subseteq {"IN", "OUT"}
        /\ "OUT" \in interest' <=> is_sent_pending'
    BY <1>1, <1>4, <1>16 DEF TypeOK
  <2> QED  BY <1>13, <1>16, <2>1, <2>6, <2>7, <2>8, <2>9
<1> QED  BY <1>14, <1>15, <1>16 DEF PendingSend, lock, first, others, q

-----------------------------------------------------------------------------
(* The peer.                                                                *)

LEMMA PeerStep ==
  ASSUME IInv, Drain \/ PeerSends \/ \E how \in {"ended", "reset"} : PeerEnds(how)
  PROVE  IInv'
<1>1. TypeOK /\ LockOK /\ RestOK /\ FlagsOK /\ WireInOrder /\ StreamOK /\ start # <<>>
  BY DEF IInv
<1>2. UNCHANGED <<ctx_lock, pc, rest, is_sent_pending, pending_send_deque, interest, ready,
                  start, wire, role>>
  BY DEF Drain, PeerSends, PeerEnds, lock, pending, epoll, stream, peer
<1>3. /\ conn' \in {"open", "ended", "reset", "closed"}
      /\ conn' = "closed" <=> conn = "closed"
      /\ SendWorks' => SendWorks
  <2>1. CASE Drain \/ PeerSends
    <3>1. conn' = conn  BY <2>1 DEF Drain, PeerSends
    <3> QED  BY <1>1, <3>1 DEF SendWorks, TypeOK
  <2>2. CASE \E how \in {"ended", "reset"} : PeerEnds(how)
    <3>1. conn' \in {"ended", "reset"} /\ conn \in {"open", "ended"}
      BY <2>2 DEF PeerEnds
    <3> QED  BY <3>1 DEF SendWorks
  <2> QED  BY <2>1, <2>2
<1>4. drained' \in Nat /\ drained' <= Len(wire')
  <2>1. drained \in Nat /\ Len(wire) \in Nat /\ drained <= Len(wire)  BY <1>1 DEF TypeOK
  <2>2. drained' = drained \/ drained' \in drained + 1 .. Len(wire)
    BY DEF Drain, PeerSends, PeerEnds, peer
  <2> QED  BY <1>2, <2>1, <2>2
<1>5. inbound' \in BOOLEAN
  <2>1. inbound \in BOOLEAN  BY <1>1 DEF TypeOK
  <2> QED  BY <2>1 DEF Drain, PeerSends, PeerEnds, peer
<1>6. arrived' \in Nat
  <2>1. arrived \in Nat  BY <1>1 DEF TypeOK
  <2>2. arrived' = arrived \/ arrived' = arrived + 1
    BY DEF Drain, PeerSends, PeerEnds, peer
  <2> QED  BY <2>1, <2>2
<1>7. TypeOK'  BY <1>1, <1>2, <1>3, <1>4, <1>5, <1>6 DEF TypeOK
<1>8. LockOK' /\ WireInOrder'  BY <1>1, <1>2 DEF LockOK, WireInOrder
<1>9. RestOK'  BY <1>1, <1>2, <1>3 DEF RestOK
<1>10. FlagsOK'  BY <1>1, <1>2, <1>3 DEF FlagsOK
<1>11. StreamOK'  BY <1>1, <1>2, <1>3 DEF StreamOK, SentEnd
<1> QED  BY <1>1, <1>2, <1>7, <1>8, <1>9, <1>10, <1>11 DEF IInv

LEMMA StutterStep ==
  ASSUME IInv, UNCHANGED vars
  PROVE  IInv'
BY DEF vars, IInv, TypeOK, LockOK, RestOK, FlagsOK, WireInOrder, StreamOK, SendWorks, SentEnd

LEMMA NextStep ==
  ASSUME IInv, ClosingOK, [Next]_vars
  PROVE  IInv'
<1>1. CASE \E t \in Thread, n \in FrameLen : SendData(t, n)  BY <1>1, SendDataStep
<1>2. CASE \E t \in Thread : InSendData(t)
  BY <1>2, SendSomeStep, SendWouldBlockStep, SendFailsStep, ControlEpollOutStep,
     ControlEpollFailsStep DEF InSendData
<1>3. CASE LoopStep
  BY <1>3, LoopMovesStep, LoopCloseStep, PendingLockStep, PendingSendStep, PendingFailsStep,
     PushClientContextStep DEF LoopStep
<1>4. CASE Drain \/ PeerSends \/ \E how \in {"ended", "reset"} : PeerEnds(how)
  BY <1>4, PeerStep
<1>5. CASE UNCHANGED vars  BY <1>5, StutterStep
<1> QED  BY <1>1, <1>2, <1>3, <1>4, <1>5 DEF Next

LEMMA ClosingInit ==
  ASSUME Init
  PROVE  ClosingOK
<1>1. pc[Loop] = "wait"  BY Threads DEF Init
<1> QED  BY <1>1 DEF ClosingOK

LEMMA ClosingStep ==
  ASSUME IInv, ClosingOK, [Next]_vars
  PROVE  ClosingOK'
<1>1. pc \in [Thread -> PcValue] /\ Loop \in Thread  BY Threads DEF IInv, TypeOK, PcValue
<1>2. ASSUME NEW t \in Thread, NEW at \in PcValue \ {"closed", "failed"},
             pc' = [pc EXCEPT ![t] = at] \/ pc' = pc,
             role' = role, conn = "closed" => conn' = "closed"
      PROVE  ClosingOK'
  BY <1>1, <1>2 DEF ClosingOK
<1>3. /\ Home(Loop) \in PcValue \ {"closed", "failed"}
      /\ \A t \in Thread : Home(t) \in PcValue \ {"closed", "failed"}
      /\ {"wait", "handle", "callback", "send", "blocked", "queued", "pending", "exited"}
           \subseteq PcValue \ {"closed", "failed"}
  BY DEF Home, PcValue
<1>4. CASE \E t \in Thread, n \in FrameLen : SendData(t, n)
  <2>1. PICK t \in Thread, n \in FrameLen : SendData(t, n)  BY <1>4
  <2>2. /\ \E at \in {"queued", "send"} : pc' = [pc EXCEPT ![t] = at]
        /\ role' = role /\ conn' = conn
    BY <2>1 DEF SendData, Acquire, peer
  <2> QED  BY <1>2, <1>3, <2>2
<1>5. CASE \E t \in Thread : InSendData(t)
  <2>1. PICK t \in Thread : InSendData(t)  BY <1>5
  <2>2. /\ pc' = pc \/ \E at \in {"blocked", Home(t)} : pc' = [pc EXCEPT ![t] = at]
        /\ role' = role /\ conn' = conn
    BY <2>1 DEF InSendData, SendSome, SendWouldBlock, SendFails, ControlEpollOut,
                ControlEpollFails, Release, lock, peer
  <2> QED  BY <1>2, <1>3, <2>2
<1>6. CASE LoopClose
  BY <1>1, <1>6 DEF LoopClose, CloseSocket, LoopGoes, ClosingOK, peer
<1>7. CASE PendingFails
  BY <1>1, <1>7 DEF PendingFails, CloseSocket, LoopGoes, Release, ClosingOK, peer
<1>8. CASE PushClientContextToCache
  BY <1>1, <1>8 DEF PushClientContextToCache, LoopGoes, ClosingOK
<1>9. CASE \/ EpollWait \/ EpollWaitTimeout \/ LoopRecv \/ LoopRecvNothing \/ CallbackReturns
           \/ SendPendingData \/ PendingNothing \/ PendingWouldBlock
           \/ \E k \in 1 .. SockCap : PendingSend(k)
  <2>1. /\ \/ pc' = pc
           \/ \E at \in {"wait", "handle", "callback", "pending"} : pc' = [pc EXCEPT ![Loop] = at]
        /\ role' = role /\ conn' = conn
    BY <1>9 DEF EpollWait, EpollWaitTimeout, LoopRecv, LoopRecvNothing, CallbackReturns,
                SendPendingData, PendingNothing, PendingWouldBlock, PendingSend, LoopGoes,
                Acquire, Release, lock, peer
  <2> QED  BY <1>1, <1>2, <1>3, <2>1
<1>10. CASE \/ Drain \/ PeerSends \/ \E how \in {"ended", "reset"} : PeerEnds(how)
            \/ UNCHANGED vars
  <2>1. pc' = pc /\ role' = role /\ (conn' = conn \/ conn # "closed")
    BY <1>10 DEF Drain, PeerSends, PeerEnds, lock, peer, vars
  <2> QED  BY <2>1 DEF ClosingOK
<1> QED  BY <1>4, <1>5, <1>6, <1>7, <1>8, <1>9, <1>10 DEF Next, LoopStep

-----------------------------------------------------------------------------
(* IInv, the inductive invariant: who holds ctx_lock, how the queue, its    *)
(* flag and epoll's events agree at each place, and where in the stream     *)
(* the wire, the queue and the frame in hand stand.                         *)
THEOREM Inductive == Spec => []IInv
<1>1. Init => IInv /\ ClosingOK  BY InitStep, ClosingInit
<1>2. IInv /\ ClosingOK /\ [Next]_vars => IInv' /\ ClosingOK'  BY NextStep, ClosingStep
<1> QED  BY <1>1, <1>2, PTL DEF Spec

(* The variables of the sending half have their types: no entry of the      *)
(* queue is empty, and the peer's side never takes what was not sent.       *)
THEOREM TypeCorrect == Spec => []TypeOK
<1>1. IInv => TypeOK  BY DEF IInv
<1> QED  BY <1>1, Inductive, PTL

(* The bytes of the frames leave in order, none skipped and none twice,     *)
(* however SendData and SendPendingData interleave.                         *)
THEOREM SendsInOrder == Spec => []WireInOrder
<1>1. IInv => WireInOrder  BY DEF IInv
<1> QED  BY <1>1, Inductive, PTL

(* While the connection is up every byte that SendData has taken on is on   *)
(* the wire, queued behind it, or in the hands of the thread in SendData.   *)
THEOREM LosesNothing == Spec => []NothingLost
<1>1. IInv => NothingLost  BY StreamIsNothingLost DEF IInv
<1> QED  BY <1>1, Inductive, PTL

(* When nobody holds ctx_lock, epoll watches for EPOLLOUT exactly if there  *)
(* is something queued: SendPendingData will be called, and not in vain.    *)
THEOREM WakesTheLoop == Spec => []WillBeWoken
<1>1. IInv => WillBeWoken
  <2> SUFFICES ASSUME IInv, ctx_lock = NoThread, conn # "closed"
               PROVE  /\ is_sent_pending <=> pending_send_deque # <<>>
                      /\ "OUT" \in interest <=> pending_send_deque # <<>>
    BY DEF WillBeWoken
  <2>1. \A t \in Thread : pc[t] # "blocked"
    BY Threads DEF IInv, LockOK, Holding
  <2> QED  BY <2>1 DEF IInv, FlagsOK
<1> QED  BY <1>1, Inductive, PTL

-----------------------------------------------------------------------------
(* What else holds, whatever fails and whenever the loop closes the socket. *)

\* The end of the last entry of the queue.
LastEnd == pending_send_deque[Len(pending_send_deque)].at
           + pending_send_deque[Len(pending_send_deque)].n

QueueEmptied == role = "server" /\ conn = "closed" /\ pending_send_deque = <<>>

(* A thread that waits to call ControlEpoll, and may have to pop_back() what *)
(* it has queued (asock_nix_base.hpp:94, :146), finds its own entry last, or *)
(* nothing at all: what a server's loop has emptied when it had closed the   *)
(* socket.  It finds no other thread's entry there.                          *)
OwnEntryLast ==
  \A t \in Thread :
    pc[t] \in {"blocked", "queued"} =>
      \/ pending_send_deque # <<>> /\ LastEnd = SentEnd
      \/ QueueEmptied

(* In a client pop_back() has always the thread's own entry to take back.    *)
ClientPopsItsOwn ==
  role = "client" =>
    \A t \in Thread :
      pc[t] \in {"blocked", "queued"} => pending_send_deque # <<>> /\ LastEnd = SentEnd

(* What is on the wire, queued or still being sent is of frames SendData    *)
(* has been given: no length and no offset runs past them.                  *)
WithinFrames ==
  /\ Len(wire) <= SentEnd
  /\ \A i \in 1 .. Len(pending_send_deque) :
       pending_send_deque[i].at + pending_send_deque[i].n <= SentEnd
  /\ rest.at + rest.n <= SentEnd

(* Bytes reach the socket only by the thread that holds ctx_lock.           *)
OnlyHolderSends == wire' # wire => ctx_lock \in Thread /\ pc[ctx_lock] \in {"send", "pending"}

\* The socket's buffer holds no more than SockCap.
SocketOK == Len(wire) <= drained + SockCap

\* send() takes something of x.
CanSend(x) == \E k \in 1 .. SockCap : SendWorks /\ k <= x.n /\ k <= Room

(* Whoever holds ctx_lock has a step to take that needs no other thread.    *)
HolderGoesOn ==
  ctx_lock # NoThread =>
    \/ /\ pc[ctx_lock] = "send"
       /\ CanSend(rest) \/ WouldBlock \/ ~SendWorks
    \/ pc[ctx_lock] \in {"blocked", "queued", "failed"}
    \/ /\ pc[ctx_lock] = "pending"
       /\ \/ pending_send_deque = <<>> \/ WouldBlock \/ ~SendWorks
          \/ CanSend(Head(pending_send_deque))

More == OwnEntryLast /\ WithinFrames /\ SocketOK

LEMMA StreamTypes ==
  ASSUME IInv
  PROVE  /\ start \in Seq(Nat) /\ SentEnd \in Nat
         /\ wire \in Seq(Nat) /\ Len(wire) \in Nat /\ drained \in Nat /\ drained <= Len(wire)
         /\ pending_send_deque \in Seq(Entry)
         /\ rest \in Piece /\ rest.at \in Nat /\ rest.n \in Nat
         /\ pc \in [Thread -> PcValue]
<1>1. TypeOK /\ start # <<>>  BY DEF IInv
<1>2. start \in Seq(Nat) /\ Len(start) \in 1 .. Len(start)
  BY <1>1, EmptySeq DEF TypeOK
<1>3. SentEnd \in Nat  BY <1>2, ElementOfSeq DEF SentEnd
<1>4. wire \in Seq(Nat) /\ Len(wire) \in Nat /\ drained \in Nat /\ drained <= Len(wire)
      /\ rest \in Piece
  BY <1>1 DEF TypeOK
<1>5. rest.at \in Nat /\ rest.n \in Nat  BY <1>4 DEF Piece
<1> QED  BY <1>1, <1>2, <1>3, <1>4, <1>5 DEF TypeOK, PcValue

LEMMA MoreInit ==
  ASSUME Init
  PROVE  More
<1>1. \A t \in Thread : pc[t] \notin {"blocked", "queued"}  BY DEF Init
<1>2. start = <<0>> /\ wire = <<>> /\ pending_send_deque = <<>> /\ rest = Nothing /\ drained = 0
  BY DEF Init
<1>3. SentEnd = 0 /\ Len(wire) = 0 /\ Len(pending_send_deque) = 0
  BY <1>2 DEF SentEnd
<1>4. OwnEntryLast  BY <1>1 DEF OwnEntryLast
<1>5. WithinFrames  BY <1>2, <1>3 DEF WithinFrames, Nothing
<1>6. SocketOK  BY <1>2, <1>3, SockCapAssumption DEF SocketOK
<1> QED  BY <1>4, <1>5, <1>6 DEF More

\* A step that leaves the stream and the queue, and begins no wait for ControlEpoll.
LEMMA KeepsStream ==
  ASSUME IInv, More, UNCHANGED <<start, wire, pending_send_deque>>,
         rest' = rest \/ rest' = Nothing,
         drained' \in Nat, drained <= drained',
         NEW t \in Thread, NEW at, at \notin {"blocked", "queued"},
         pc' = [pc EXCEPT ![t] = at] \/ pc' = pc,
         role' = role, conn = "closed" => conn' = "closed"
  PROVE  OwnEntryLast' /\ WithinFrames' /\ SocketOK'
<1>1. SentEnd' = SentEnd /\ LastEnd' = LastEnd  BY DEF SentEnd, LastEnd
<1>2. \A u \in Thread : pc'[u] \in {"blocked", "queued"} => pc[u] \in {"blocked", "queued"}
  BY StreamTypes
<1>3. OwnEntryLast'  BY <1>1, <1>2 DEF More, OwnEntryLast, QueueEmptied
<1>4. WithinFrames'
  <2>1. rest'.at + rest'.n <= SentEnd
    <3>1. CASE rest' = rest  BY <3>1 DEF More, WithinFrames
    <3>2. CASE rest' = Nothing  BY <3>2, StreamTypes DEF Nothing
    <3> QED  BY <3>1, <3>2
  <2> QED  BY <1>1, <2>1 DEF More, WithinFrames
<1>5. SocketOK'
  <2>1. Len(wire) <= drained + SockCap  BY DEF More, SocketOK
  <2>2. Len(wire) \in Nat /\ drained \in Nat /\ SockCap \in Nat
    BY StreamTypes, SockCapAssumption
  <2>3. Len(wire') = Len(wire)  OBVIOUS
  <2> QED  BY <2>1, <2>2, <2>3 DEF SocketOK
<1> QED  BY <1>3, <1>4, <1>5

LEMMA MoreSendData ==
  ASSUME IInv, More, NEW t \in Thread, NEW n \in FrameLen, SendData(t, n)
  PROVE  More'
<1> DEFINE e == SentEnd
           q == pending_send_deque
           x == [at |-> e, n |-> n]
<1>1. n \in Nat \ {0}  BY FrameLenAssumption
<1>2. /\ start \in Seq(Nat) /\ e \in Nat /\ q \in Seq(Entry) /\ Len(wire) \in Nat
      /\ rest.at \in Nat /\ rest.n \in Nat
  BY StreamTypes
<1>3. /\ start' = Append(start, e + n) /\ UNCHANGED <<wire, drained, ready>>
  BY DEF SendData, epoll, peer
<1>4. e + n \in Nat /\ e <= e + n  BY <1>1, <1>2
<1>5. SentEnd' = e + n
  <2>1. /\ Len(start') = Len(start) + 1 /\ start'[Len(start) + 1] = e + n
    BY <1>2, <1>3, <1>4, AppendProperties
  <2> QED  BY <2>1 DEF SentEnd
<1>6. \E at \in {"queued", "send"} : Acquire(t, at)  BY DEF SendData
<1>7. /\ \A u \in Thread : pc[u] \notin Holding /\ (u # t => pc'[u] = pc[u])
      /\ pc'[t] \in {"queued", "send"}
  <2>1. PICK at \in {"queued", "send"} : Acquire(t, at)  BY <1>6
  <2> QED  BY <2>1, AcquireStep DEF Holding, IInv
<1>8. /\ Len(wire) <= e
      /\ \A i \in 1 .. Len(q) : q[i].at + q[i].n <= e
  BY DEF More, WithinFrames
<1>9. x \in Entry /\ x.at + x.n = e + n  BY <1>1, <1>2 DEF Entry
<1>10. SocketOK'  BY <1>3 DEF More, SocketOK
<1>11. Len(wire') <= SentEnd'  BY <1>2, <1>3, <1>4, <1>5, <1>8
<1> HIDE DEF x, e
<1>12. CASE q' = Append(q, x) /\ rest' = rest
  <2>1. /\ q' \in Seq(Entry) /\ Len(q') = Len(q) + 1 /\ q'[Len(q) + 1] = x
        /\ \A i \in 1 .. Len(q) : q'[i] = q[i]
        /\ Len(q) \in Nat
    BY <1>2, <1>9, <1>12, AppendProperties
  <2>2. LastEnd' = SentEnd' /\ q' # <<>>
    BY <1>5, <1>9, <2>1, EmptySeq DEF LastEnd
  <2>3. ASSUME NEW i \in 1 .. Len(q')
        PROVE  q'[i].at + q'[i].n <= e + n
    <3>1. CASE i = Len(q) + 1  BY <1>4, <1>9, <2>1, <3>1
    <3>2. CASE i # Len(q) + 1
      <4>1. i \in 1 .. Len(q)  BY <2>1, <3>2
      <4>2. q'[i] = q[i] /\ q[i].at + q[i].n <= e  BY <1>8, <2>1, <4>1 DEF e
      <4>3. q[i] \in Entry  BY <1>2, <4>1, ElementOfSeq
      <4>4. q[i].at + q[i].n \in Nat  BY <4>3 DEF Entry
      <4> HIDE DEF q
      <4> QED  BY <1>1, <1>2, <4>2, <4>4
    <3> QED  BY <3>1, <3>2
  <2>4. rest.at + rest.n <= e + n
    <3>1. rest.at + rest.n <= e  BY DEF More, WithinFrames, e
    <3> QED  BY <1>1, <1>2, <3>1
  <2>5. OwnEntryLast'  BY <2>2 DEF OwnEntryLast
  <2>6. WithinFrames'  BY <1>5, <1>11, <1>12, <2>3, <2>4 DEF WithinFrames
  <2> QED  BY <1>10, <2>5, <2>6 DEF More
<1>13. CASE q' = q /\ rest' = x /\ pc'[t] = "send"
  <2>1. OwnEntryLast'  BY <1>7, <1>13 DEF OwnEntryLast, Holding
  <2>2. ASSUME NEW i \in 1 .. Len(q')
        PROVE  q'[i].at + q'[i].n <= e + n
    <3>1. q'[i] = q[i] /\ q[i].at + q[i].n <= e  BY <1>8, <1>13 DEF e
    <3>2. q[i] \in Entry  BY <1>2, <1>13, ElementOfSeq
    <3>3. q[i].at + q[i].n \in Nat  BY <3>2 DEF Entry
    <3> HIDE DEF q
    <3> QED  BY <1>1, <1>2, <3>1, <3>3
  <2>3. rest'.at + rest'.n <= e + n  BY <1>4, <1>9, <1>13
  <2>4. WithinFrames'  BY <1>5, <1>11, <2>2, <2>3 DEF WithinFrames
  <2> QED  BY <1>10, <2>1, <2>4 DEF More
<1>14. (q' = Append(q, x) /\ rest' = rest) \/ (q' = q /\ rest' = x /\ pc'[t] = "send")
  <2>1. CASE is_sent_pending  BY <2>1 DEF SendData, x, e
  <2>2. CASE ~is_sent_pending
    <3>1. Acquire(t, "send") /\ rest' = x /\ q' = q  BY <2>2 DEF SendData, x, e
    <3> QED  BY <3>1, AcquireStep DEF Holding, IInv
  <2> QED  BY <2>1, <2>2
<1> QED  BY <1>12, <1>13, <1>14

\* What send() takes stays within the frames and the socket's buffer.
LEMMA TakesWithin ==
  ASSUME IInv, More, NEW x, x.at \in Nat, x.n \in Nat, x.at = Len(wire),
         x.at + x.n <= SentEnd, NEW k \in Nat, Takes(x, k),
         Len(wire') = Len(wire) + k, UNCHANGED <<start, drained>>
  PROVE  Len(wire') <= SentEnd' /\ SocketOK' /\ x.at + k <= SentEnd
<1> DEFINE w == Len(wire)
<1>1. w \in Nat /\ SentEnd \in Nat /\ drained \in Nat /\ SockCap \in Nat
  BY StreamTypes, SockCapAssumption
<1>2. k <= x.n /\ k <= SockCap - (w - drained)  BY DEF Takes, Room
<1>3. w + k <= SentEnd /\ w + k <= drained + SockCap
  <2> HIDE DEF w
  <2>1. x.at = w  BY DEF w
  <2> QED  BY <1>1, <1>2, <2>1
<1>4. SentEnd' = SentEnd  BY DEF SentEnd
<1> QED  BY <1>3, <1>4 DEF SocketOK

LEMMA MoreSendSome ==
  ASSUME IInv, More, NEW t \in Thread, NEW k \in 1 .. SockCap, SendSome(t, k)
  PROVE  More'
<1>1. /\ pc[t] = "send" /\ Takes(rest, k) /\ SendWorks
      /\ UNCHANGED <<pending_send_deque, ready, start, drained>>
  BY DEF SendSome, Takes, pending, epoll, peer
<1>2. /\ rest \in Entry /\ rest.at = Len(wire) /\ SentEnd = rest.at + rest.n
      /\ \A u \in Thread : u # t => pc[u] \notin Holding
  BY <1>1, Sending
<1>3. rest.at \in Nat /\ rest.n \in Nat /\ k \in 1 .. rest.n /\ k \in Nat /\ rest \in Piece
      /\ SentEnd \in Nat
  BY <1>1, StreamTypes DEF Takes
<1>4. Len(wire') = Len(wire) + k
  BY <1>1, <1>2, <1>3, WireGoesOn DEF IInv
<1>5. rest.at + rest.n <= SentEnd  BY <1>2, <1>3
<1>6. Len(wire') <= SentEnd' /\ SocketOK'
  BY <1>1, <1>2, <1>3, <1>4, <1>5, TakesWithin
<1>7. SentEnd' = SentEnd  BY <1>1 DEF SentEnd
<1>8. rest'.at + rest'.n <= SentEnd
  <2>1. CASE rest' = [at |-> rest.at + k, n |-> rest.n - k]
    <3> DEFINE a == rest.at
               m == rest.n
    <3>1. rest'.at = a + k /\ rest'.n = m - k  BY <2>1
    <3>2. a \in Nat /\ m \in Nat /\ a + m <= SentEnd  BY <1>3, <1>5
    <3> HIDE DEF a, m
    <3> QED  BY <1>3, <3>1, <3>2
  <2>2. CASE rest' = Nothing  BY <1>3, <2>2 DEF Nothing
  <2> QED  BY <2>1, <2>2 DEF SendSome
<1>9. WithinFrames'  BY <1>1, <1>6, <1>7, <1>8 DEF More, WithinFrames
<1>10. pc' = pc \/ pc' = [pc EXCEPT ![t] = Home(t)]  BY DEF SendSome, lock, Release
<1>11. \A u \in Thread : pc'[u] \notin {"blocked", "queued"}
  BY <1>1, <1>2, <1>10, StreamTypes, HomeIsHome DEF Holding, Home
<1>12. OwnEntryLast'  BY <1>11 DEF OwnEntryLast
<1> QED  BY <1>6, <1>9, <1>12 DEF More

LEMMA MoreSendWouldBlock ==
  ASSUME IInv, More, NEW t \in Thread, SendWouldBlock(t)
  PROVE  More'
<1> DEFINE q == pending_send_deque
<1>1. /\ pc[t] = "send" /\ SendWorks
      /\ q' = Append(q, rest) /\ rest' = Nothing
      /\ pc' = [pc EXCEPT ![t] = "blocked"]
      /\ UNCHANGED <<start, wire, drained, ready>>
  BY DEF SendWouldBlock, WouldBlock, epoll, stream, peer
<1>2. rest \in Entry /\ SentEnd = rest.at + rest.n  BY <1>1, Sending
<1>3. q \in Seq(Entry) /\ SentEnd \in Nat  BY StreamTypes
<1>4. /\ Len(q') = Len(q) + 1 /\ q'[Len(q) + 1] = rest /\ q' \in Seq(Entry)
      /\ \A i \in 1 .. Len(q) : q'[i] = q[i]
      /\ Len(q) \in Nat
  BY <1>1, <1>2, <1>3, AppendProperties
<1>5. SentEnd' = SentEnd  BY <1>1 DEF SentEnd
<1>6. q' # <<>> /\ LastEnd' = SentEnd'
  BY <1>2, <1>4, <1>5, EmptySeq DEF LastEnd
<1>7. \A i \in 1 .. Len(q') : q'[i].at + q'[i].n <= SentEnd
  <2> TAKE i \in 1 .. Len(q')
  <2>1. CASE i = Len(q) + 1  BY <1>2, <1>3, <1>4, <2>1
  <2>2. CASE i # Len(q) + 1
    <3>1. i \in 1 .. Len(q)  BY <1>4, <2>2
    <3>2. q[i].at + q[i].n <= SentEnd  BY <3>1 DEF More, WithinFrames
    <3> QED  BY <1>4, <3>1, <3>2
  <2> QED  BY <2>1, <2>2
<1>8. Nothing.at + Nothing.n <= SentEnd  BY <1>3 DEF Nothing
<1>9. OwnEntryLast'  BY <1>6 DEF OwnEntryLast
<1>10. WithinFrames'  BY <1>1, <1>5, <1>7, <1>8 DEF More, WithinFrames
<1>11. SocketOK'  BY <1>1 DEF More, SocketOK
<1> QED  BY <1>9, <1>10, <1>11 DEF More

LEMMA MoreControlEpollFails ==
  ASSUME IInv, More, NEW t \in Thread, ControlEpollFails(t)
  PROVE  More'
<1> DEFINE q == pending_send_deque
           r == SubSeq(q, 1, Len(q) - 1)
<1>1. /\ pc[t] \in {"blocked", "queued"} /\ q' = r
      /\ pc' = [pc EXCEPT ![t] = Home(t)]
      /\ UNCHANGED <<rest, start, wire, drained, ready>>
  BY DEF ControlEpollFails, Release, epoll, stream, peer
<1>2. pc[t] \in Holding  BY <1>1 DEF Holding
<1>3. \A u \in Thread : u # t => pc[u] \notin Holding
  BY <1>2, OneHolder DEF IInv
<1>4. \A u \in Thread : pc'[u] \notin {"blocked", "queued"}
  BY <1>1, <1>3, StreamTypes, HomeIsHome DEF Holding, Home
<1>5. OwnEntryLast'  BY <1>4 DEF OwnEntryLast
<1>7. SocketOK'  BY <1>1 DEF More, SocketOK
<1>8. SentEnd' = SentEnd  BY <1>1 DEF SentEnd
<1>9. q \in Seq(Entry) /\ Len(q) \in Nat  BY StreamTypes
<1>12. \A i \in 1 .. Len(r) : i \in 1 .. Len(q) /\ r[i] = q[i]
  <2>1. \A i \in 1 .. Len(q) - 1 : q[i] \in Entry  BY <1>9, ElementOfSeq
  <2>2. 1 \in Int /\ Len(q) - 1 \in Int  BY <1>9
  <2> DEFINE m == Len(q) - 1
  <2>3. m \in Int  BY <1>9
  <2> HIDE DEF q, m
  <2>4. /\ Len(SubSeq(q, 1, m)) = IF 1 <= m THEN m - 1 + 1 ELSE 0
        /\ \A i \in 1 .. m - 1 + 1 : SubSeq(q, 1, m)[i] = q[1 + i - 1]
    BY <2>1, <2>2, SubSeqProperties DEF m
  <2>5. r = SubSeq(q, 1, m)  BY DEF m
  <2> HIDE DEF r
  <2>6. ASSUME NEW i \in 1 .. Len(r)
        PROVE  i \in 1 .. m /\ r[i] = q[i]
    <3>1. i \in 1 .. m - 1 + 1 /\ i \in 1 .. m /\ 1 + i - 1 = i  BY <2>3, <2>4, <2>5
    <3> QED  BY <2>4, <2>5, <3>1
  <2>7. \A i \in 1 .. m : i \in 1 .. Len(q)  BY <1>9 DEF m
  <2> QED  BY <2>6, <2>7
<1> HIDE DEF r
<1>13. WithinFrames'
  <2>1. \A i \in 1 .. Len(q') : q'[i].at + q'[i].n <= SentEnd'
    BY <1>1, <1>8, <1>12 DEF More, WithinFrames
  <2> QED  BY <1>1, <1>8, <2>1 DEF More, WithinFrames
<1> QED  BY <1>5, <1>7, <1>13 DEF More

LEMMA MorePendingSend ==
  ASSUME IInv, More, NEW k \in 1 .. SockCap, PendingSend(k)
  PROVE  More'
<1> DEFINE q == pending_send_deque
           first == Head(q)
           others == Tail(q)
<1>1. /\ pc[Loop] = "pending" /\ q # <<>> /\ Takes(first, k)
      /\ UNCHANGED <<rest, ready, start, drained>>
  BY DEF PendingSend, peer
<1>2. SendWorks /\ k \in 1 .. first.n  BY <1>1 DEF Takes
<1>3. /\ q \in Seq(Entry) /\ Len(wire) \in Nat /\ SentEnd \in Nat
  BY StreamTypes
<1>4. Follows(q, Len(wire))  BY <1>2 DEF IInv, StreamOK
<1>5. first \in Entry /\ first.at = Len(wire) /\ others \in Seq(Entry)
  BY <1>1, <1>3, <1>4, TailFollows
<1>6. first.at \in Nat /\ first.n \in Nat /\ first \in Piece /\ k \in Nat
  <2>1. first.at \in Nat /\ first.n \in Nat /\ first \in Piece  BY <1>5 DEF Entry, Piece
  <2> HIDE DEF first
  <2> QED  BY <1>2, <2>1
<1>7. /\ Len(q) = Len(others) + 1 /\ Len(others) \in Nat /\ first = q[1]
      /\ \A i \in 1 .. Len(others) : others[i] = q[i + 1]
  BY <1>1, <1>3, HeadTailProperties, EmptySeq
<1>8. \A i \in 1 .. Len(q) : q[i].at + q[i].n <= SentEnd  BY DEF More, WithinFrames
<1>9. first.at + first.n <= SentEnd
  <2>1. 1 \in 1 .. Len(q)  BY <1>7
  <2> QED  BY <1>7, <1>8, <2>1
<1> HIDE DEF first, others
<1>10. Len(wire') = Len(wire) + k
  BY <1>1, <1>2, <1>5, <1>6, WireGoesOn DEF IInv
<1>11. Len(wire') <= SentEnd' /\ SocketOK'
  BY <1>1, <1>5, <1>6, <1>9, <1>10, TakesWithin
<1>12. SentEnd' = SentEnd  BY <1>1 DEF SentEnd
<1>13. \A i \in 1 .. Len(others) : others[i].at + others[i].n <= SentEnd
  <2> TAKE i \in 1 .. Len(others)
  <2>1. i + 1 \in 1 .. Len(q)  BY <1>7
  <2> QED  BY <1>7, <1>8, <2>1
<1>14. ASSUME NEW r, q' = r, \A i \in 1 .. Len(r) : r[i].at + r[i].n <= SentEnd
       PROVE  WithinFrames'
  BY <1>1, <1>11, <1>12, <1>14 DEF More, WithinFrames
<1>15. WithinFrames'
  <2>1. CASE q' = <<>>
    <3>1. Len(<<>>) = 0  OBVIOUS
    <3> QED  BY <1>14, <2>1, <3>1
  <2>2. CASE q' = others  BY <1>13, <1>14, <2>2
  <2>3. CASE q' = <<[at |-> first.at + k, n |-> first.n - k]>> \o others
    <3> DEFINE x == [at |-> first.at + k, n |-> first.n - k]
               r == <<x>> \o others
    <3>1. x.at + x.n <= SentEnd
      <4> DEFINE a == first.at
                 m == first.n
      <4>1. x.at = a + k /\ x.n = m - k  OBVIOUS
      <4>2. a \in Nat /\ m \in Nat /\ a + m <= SentEnd  BY <1>6, <1>9
      <4> HIDE DEF a, m, x
      <4> QED  BY <1>3, <1>6, <4>1, <4>2
    <3> HIDE DEF x
    <3> DEFINE S == {x} \cup Entry
    <3>2. <<x>> \in Seq(S) /\ others \in Seq(S) /\ Len(<<x>>) = 1 /\ <<x>>[1] = x
      BY <1>5
    <3>3. /\ Len(r) = 1 + Len(others)
          /\ \A i \in 1 .. 1 + Len(others) :
               r[i] = IF i <= 1 THEN <<x>>[i] ELSE others[i - 1]
      BY <3>2, ConcatProperties
    <3> HIDE DEF r
    <3>4. ASSUME NEW i \in 1 .. Len(r)
          PROVE  r[i].at + r[i].n <= SentEnd
      <4>1. CASE i = 1  BY <3>1, <3>2, <3>3, <4>1
      <4>2. CASE i # 1
        <5>1. i - 1 \in 1 .. Len(others) /\ ~(i <= 1)  BY <1>7, <3>3, <4>2
        <5>2. r[i] = others[i - 1]  BY <3>3, <5>1
        <5> QED  BY <1>13, <5>1, <5>2
      <4> QED  BY <4>1, <4>2
    <3> QED  BY <1>14, <2>3, <3>4 DEF r, x
  <2> QED  BY <2>1, <2>2, <2>3 DEF PendingSend, first, others, q
<1>16. pc' = pc \/ pc' = [pc EXCEPT ![Loop] = "wait"]  BY DEF PendingSend, lock, Release
<1>17. \A u \in Thread : u # Loop => pc[u] \notin Holding
  BY <1>1, Pending
<1>18. \A u \in Thread : pc'[u] \notin {"blocked", "queued"}
  BY <1>1, <1>16, <1>17, StreamTypes DEF Holding
<1>19. OwnEntryLast'  BY <1>18 DEF OwnEntryLast
<1> QED  BY <1>11, <1>15, <1>19 DEF More

\* The steps that leave the stream and the queue as they are.
LEMMA MoreQuiet ==
  ASSUME IInv, More,
         \/ \E t \in Thread : SendFails(t) \/ ControlEpollOut(t)
         \/ EpollWait \/ EpollWaitTimeout \/ LoopClose \/ LoopRecv \/ LoopRecvNothing
         \/ CallbackReturns \/ SendPendingData \/ PendingNothing \/ PendingWouldBlock
         \/ PendingFails
         \/ Drain \/ PeerSends \/ \E how \in {"ended", "reset"} : PeerEnds(how)
  PROVE  More'
<1>1. Loop \in Thread  BY Threads
<1>2. drained \in Nat /\ Len(wire) \in Nat  BY StreamTypes
<1>3. /\ UNCHANGED <<start, wire, pending_send_deque, role>>
      /\ rest' = rest \/ rest' = Nothing
      /\ conn = "closed" => conn' = "closed"
  BY DEF SendFails, ControlEpollOut, EpollWait, EpollWaitTimeout, LoopClose, LoopRecv,
         LoopRecvNothing, CallbackReturns, SendPendingData, PendingNothing,
         PendingWouldBlock, PendingFails, CloseSocket, Drain, PeerSends, PeerEnds,
         pending, stream, peer
<1>4. drained' \in Nat /\ drained <= drained'
  <2>1. CASE Drain
    <3>1. drained' \in drained + 1 .. Len(wire)  BY <2>1 DEF Drain
    <3> QED  BY <1>2, <3>1
  <2>2. CASE ~Drain
    <3>1. drained' = drained
      BY <2>2 DEF SendFails, ControlEpollOut, EpollWait, EpollWaitTimeout, LoopClose, LoopRecv,
         LoopRecvNothing, CallbackReturns, SendPendingData, PendingNothing,
         PendingWouldBlock, PendingFails, CloseSocket, PeerSends, PeerEnds, peer
    <3> QED  BY <1>2, <3>1
  <2> QED  BY <2>1, <2>2
<1>5. ASSUME NEW t \in Thread, NEW at, at \notin {"blocked", "queued"},
             pc' = [pc EXCEPT ![t] = at] \/ pc' = pc
      PROVE  More'
  BY <1>3, <1>4, <1>5, KeepsStream DEF More
<1>6. ASSUME NEW t \in Thread, SendFails(t) \/ ControlEpollOut(t)
      PROVE  More'
  <2>1. pc' = [pc EXCEPT ![t] = Home(t)]  BY <1>6 DEF SendFails, ControlEpollOut, Release
  <2>2. Home(t) \notin {"blocked", "queued"}  BY DEF Home
  <2> QED  BY <1>5, <2>1, <2>2
<1>7. CASE EpollWait \/ EpollWaitTimeout
  BY <1>1, <1>5, <1>7 DEF EpollWait, EpollWaitTimeout, LoopGoes
<1>8. CASE LoopClose \/ PendingFails
  <2>1. \E at \in {"closed", "failed", "exited"} : pc' = [pc EXCEPT ![Loop] = at]
    BY <1>8 DEF LoopClose, PendingFails, LoopGoes, Release
  <2> QED  BY <1>1, <1>5, <2>1
<1>9. CASE LoopRecv \/ LoopRecvNothing \/ CallbackReturns
  BY <1>1, <1>5, <1>9 DEF LoopRecv, LoopRecvNothing, CallbackReturns, LoopGoes
<1>10. CASE SendPendingData \/ PendingNothing \/ PendingWouldBlock
  BY <1>1, <1>5, <1>10 DEF SendPendingData, PendingNothing, PendingWouldBlock, Acquire, Release
<1>11. CASE Drain \/ PeerSends \/ \E how \in {"ended", "reset"} : PeerEnds(how)
  <2>1. pc' = pc  BY <1>11 DEF Drain, PeerSends, PeerEnds, lock
  <2> QED  BY <1>1, <1>5, <2>1
<1> QED  BY <1>6, <1>7, <1>8, <1>9, <1>10, <1>11

LEMMA MorePush ==
  ASSUME IInv, ClosingOK, More, PushClientContextToCache
  PROVE  More'
<1>1. /\ pending_send_deque' = <<>> /\ UNCHANGED <<rest, conn, start, wire, role, drained>>
      /\ role = "server" /\ conn = "closed"
  BY DEF PushClientContextToCache, ClosingOK, stream, peer
<1>2. OwnEntryLast'  BY <1>1 DEF OwnEntryLast, QueueEmptied
<1>3. Len(pending_send_deque') = 0 /\ SentEnd' = SentEnd  BY <1>1 DEF SentEnd
<1>4. WithinFrames'  BY <1>1, <1>3 DEF More, WithinFrames
<1>5. SocketOK'  BY <1>1 DEF More, SocketOK
<1> QED  BY <1>2, <1>4, <1>5 DEF More

LEMMA MoreStep ==
  ASSUME IInv, ClosingOK, More, [Next]_vars
  PROVE  More'
<1>1. CASE \E t \in Thread, n \in FrameLen : SendData(t, n)  BY <1>1, MoreSendData
<1>2. CASE \E t \in Thread : InSendData(t)
  BY <1>2, MoreSendSome, MoreSendWouldBlock, MoreControlEpollFails, MoreQuiet DEF InSendData
<1>3. CASE LoopStep
  BY <1>3, MorePendingSend, MoreQuiet, MorePush DEF LoopStep
<1>4. CASE Drain \/ PeerSends \/ \E how \in {"ended", "reset"} : PeerEnds(how)
  BY <1>4, MoreQuiet
<1>5. CASE UNCHANGED vars
  BY <1>5 DEF vars, More, OwnEntryLast, QueueEmptied, LastEnd, WithinFrames, SocketOK,
              SentEnd
<1> QED  BY <1>1, <1>2, <1>3, <1>4, <1>5 DEF Next

(* The three above hold along with the invariant of the queue: none of them  *)
(* is inductive without it, as the end of the last entry is known only where *)
(* the queue continues the wire.  A server's loop is followed to where it    *)
(* empties the queue without the lock, which leaves the waiting thread no    *)
(* entry, but none of another's either.                                      *)
THEOREM MoreInductive == Spec => [](IInv /\ More)
<1>1. Init => IInv /\ ClosingOK /\ More  BY InitStep, ClosingInit, MoreInit
<1>2. IInv /\ ClosingOK /\ More /\ [Next]_vars => IInv' /\ ClosingOK' /\ More'
  BY NextStep, ClosingStep, MoreStep
<1> QED  BY <1>1, <1>2, PTL DEF Spec

(* However the calls end -- sent, queued, failed, taken back because the    *)
(* loop has closed the socket -- no byte goes to the kernel or waits in the *)
(* queue but those of the frames given to SendData.                         *)
THEOREM SendsNothingElse == Spec => []WithinFrames
<1>1. More => WithinFrames  BY DEF More
<1> QED  BY <1>1, MoreInductive, PTL

(* A thread about to call ControlEpoll has its own entry at the end of the  *)
(* queue, or, in a server whose loop has closed the socket and reset the    *)
(* context meanwhile, an empty queue.  So SendData, whose ControlEpoll then *)
(* fails, takes back its own entry, never another's; in a client its own is *)
(* always there, in a server pop_back() may meet an empty deque.            *)
THEOREM TakesBackItsOwn == Spec => [](OwnEntryLast /\ ClientPopsItsOwn)
<1>1. More => OwnEntryLast /\ ClientPopsItsOwn
  BY DEF More, OwnEntryLast, QueueEmptied, ClientPopsItsOwn
<1> QED  BY <1>1, MoreInductive, PTL

(* Only the thread that holds ctx_lock calls send() on the socket.          *)
THEOREM HolderSends == Spec => [][OnlyHolderSends]_vars
<1>1. IInv /\ [Next]_vars => OnlyHolderSends
  <2> SUFFICES ASSUME IInv, [Next]_vars, wire' # wire
               PROVE  ctx_lock \in Thread /\ pc[ctx_lock] \in {"send", "pending"}
    BY DEF OnlyHolderSends
  <2>1. LockOK /\ Loop \in Thread  BY Threads DEF IInv
  <2>2. CASE \E t \in Thread, k \in 1 .. SockCap : SendSome(t, k)
    <3>1. PICK t \in Thread : pc[t] = "send"  BY <2>2 DEF SendSome
    <3> QED  BY <2>1, <3>1 DEF LockOK, Holding
  <2>3. CASE \E k \in 1 .. SockCap : PendingSend(k)
    <3>1. pc[Loop] = "pending"  BY <2>3 DEF PendingSend
    <3> QED  BY <2>1, <3>1 DEF LockOK, Holding
  <2>4. CASE \/ \E t \in Thread, n \in FrameLen : SendData(t, n)
             \/ \E t \in Thread : \/ SendWouldBlock(t) \/ SendFails(t)
                                  \/ ControlEpollOut(t) \/ ControlEpollFails(t)
             \/ Drain \/ PeerSends \/ \E how \in {"ended", "reset"} : PeerEnds(how)
             \/ UNCHANGED vars
    BY <2>4 DEF SendData, SendWouldBlock, SendFails, ControlEpollOut, ControlEpollFails,
                Drain, PeerSends, PeerEnds, stream, vars
  <2>5. CASE \/ EpollWait \/ EpollWaitTimeout
             \/ LoopClose \/ LoopRecv \/ LoopRecvNothing \/ CallbackReturns
             \/ SendPendingData \/ PendingNothing \/ PendingWouldBlock \/ PendingFails
             \/ PushClientContextToCache
    BY <2>5 DEF EpollWait, EpollWaitTimeout, LoopClose, LoopRecv, LoopRecvNothing,
                CallbackReturns, SendPendingData, PendingNothing, PendingWouldBlock,
                PendingFails, CloseSocket, PushClientContextToCache, stream
  <2> QED  BY <2>2, <2>3, <2>4, <2>5 DEF Next, InSendData, LoopStep
<1> QED  BY <1>1, Inductive, PTL DEF Spec

LEMMA CanSendOrNot ==
  ASSUME IInv, More, NEW x \in Entry
  PROVE  CanSend(x) \/ WouldBlock \/ ~SendWorks
<1>1. Room \in Nat
  <2>1. Len(wire) \in Nat /\ drained \in Nat /\ SockCap \in Nat
    BY StreamTypes, SockCapAssumption
  <2>2. Len(wire) <= drained + SockCap /\ drained <= Len(wire)
    BY StreamTypes DEF More, SocketOK
  <2> QED  BY <2>1, <2>2 DEF Room
<1>2. CASE SendWorks /\ Room # 0
  <2>1. x.n \in Nat \ {0}  BY DEF Entry
  <2>2. 1 <= x.n /\ 1 <= Room /\ 1 \in 1 .. SockCap
    BY <1>1, <1>2, <2>1, SockCapAssumption
  <2> QED  BY <1>2, <2>2 DEF CanSend
<1> QED  BY <1>2 DEF WouldBlock

(* Nobody waits with ctx_lock in hand: whoever holds it is in SendData or   *)
(* SendPendingData and its next step needs no other thread and not the      *)
(* peer -- send() takes something, would block or fails --, so that the     *)
(* others get the lock however slowly the peer reads.                       *)
THEOREM LockIsGivenBack == Spec => []HolderGoesOn
<1>1. IInv /\ More => HolderGoesOn
  <2> SUFFICES ASSUME IInv, More, ctx_lock # NoThread PROVE HolderGoesOn
    BY DEF HolderGoesOn
  <2>1. PICK t \in Thread : t = ctx_lock  BY DEF IInv, TypeOK
  <2>2. pc[t] \in Holding  BY <2>1 DEF IInv, LockOK
  <2>3. CASE pc[t] = "send"
    <3>1. CanSend(rest) \/ WouldBlock \/ ~SendWorks  BY <2>3, Sending, CanSendOrNot
    <3> QED  BY <2>1, <2>3, <3>1 DEF HolderGoesOn
  <2>4. CASE pc[t] = "pending" /\ pending_send_deque # <<>>
    <3>1. Head(pending_send_deque) \in Entry
      BY <2>4, StreamTypes, HeadTailProperties, EmptySeq
    <3> QED  BY <2>1, <2>4, <3>1, CanSendOrNot DEF HolderGoesOn
  <2> QED  BY <2>1, <2>2, <2>3, <2>4 DEF HolderGoesOn, Holding
<1> QED  BY <1>1, MoreInductive, PTL


=============================================================================
