------------------------------- MODULE RecvData -------------------------------
(***************************************************************************)
(* The receiving half of a TCP or IPC endpoint: ASockBase::RecvData and    *)
(* OnCalculateDataLen (asock_nix_base.hpp) take frames -- a header with    *)
(* the payload's length, then the payload -- out of the byte stream and    *)
(* hand each payload to the callback.                                      *)
(*                                                                         *)
(* A byte of the stream is its position in it, so that the receiver is     *)
(* right exactly if it delivers the positions of each payload.  Positions  *)
(* go on from one connection to the next: a byte left over from a former   *)
(* connection cannot pass for one of this connection.                      *)
(***************************************************************************)
EXTENDS CumBuffer

CONSTANTS
  HEADER_SIZE,
  InitialCapacity,  \* max_data_len_ as set by SetBufferCapacity
  Payload,          \* lengths the peer sends
  FirstPayload,     \* lengths for the first message of a connection
  MaxFrames,        \* bound on the messages of a connection
  MaxConnections,   \* bound on the connections
  Role              \* which endpoint this is: "server" or "client"

ASSUME HeaderSizeAssumption == HEADER_SIZE \in Nat \ {0}
ASSUME CapacityAssumption == InitialCapacity \in Nat \ {0}
ASSUME PayloadAssumption == Payload \subseteq Nat /\ FirstPayload \subseteq Nat
ASSUME RoleAssumption == Role \in {"server", "client"}

MORE_TO_COME == 0

VARIABLES
  start,       \* where each frame of the connection starts; last, where the next will
  net,         \* the position of the next byte recv() will return
  recv_buffer,
  is_packet_len_calculated,
  complete_packet_len,
  max_data_len_,
  pc,          \* "recv": waiting for data; "loop": in RecvData's while; "closed"
  delivered,   \* the payloads given to the callback on this connection
  connections  \* how many connections there have been

stream    == <<start, net>>
calculate == <<is_packet_len_calculated, complete_packet_len>>
vars == <<start, net, recv_buffer, is_packet_len_calculated, complete_packet_len,
          max_data_len_, pc, delivered, connections>>

Init ==
  /\ start = <<0>> /\ net = 0
  /\ recv_buffer = NewBuffer(InitialCapacity, FALSE)
  /\ is_packet_len_calculated = FALSE /\ complete_packet_len = 0
  /\ max_data_len_ = InitialCapacity
  /\ pc = "recv" /\ delivered = <<>> /\ connections = 1

Bytes(from, n) == [i \in 1 .. n |-> from + i - 1]

SentEnd == start[Len(start)]

-----------------------------------------------------------------------------
(* The peer puts a whole frame on its stream (SendData with its header);   *)
(* it may do so when the connection has already ended on this side.        *)
SendFrame(n) ==
  /\ Len(start) <= MaxFrames
  /\ n \in IF Len(start) = 1 THEN FirstPayload ELSE Payload
  /\ start' = Append(start, SentEnd + HEADER_SIZE + n)
  /\ UNCHANGED <<net, recv_buffer, calculate, max_data_len_, pc, delivered, connections>>

-----------------------------------------------------------------------------
(* RecvData up to the while loop: recv() returns k bytes, an error (which  *)
(* RecvData takes for "nothing there yet") or the end of the stream.       *)

\* Mutant: asks for as many bytes as the buffer has free, not for those in a row.
RecvTotalFree(k) ==
  /\ pc = "recv"
  /\ k <= recv_buffer.buffer_len - recv_buffer.cumulated_len /\ k <= SentEnd - net
  /\ recv_buffer' = DirectlyWritten(recv_buffer, Bytes(net, k))
  /\ net' = net + k
  /\ pc' = "loop"
  /\ UNCHANGED <<start, calculate, max_data_len_, delivered, connections>>

\* recv() returns these bytes, and the loop begins.
Recv(bytes) ==
  /\ pc = "recv"
  /\ Len(bytes) <= GetLinearFreeSpace(recv_buffer)
  /\ recv_buffer' = DirectlyWritten(recv_buffer, bytes)
  /\ net' = net + Len(bytes)
  /\ pc' = "loop"
  /\ UNCHANGED <<start, calculate, max_data_len_, delivered, connections>>

RecvSome(k) == k <= SentEnd - net /\ Recv(Bytes(net, k))

RecvNothing ==
  /\ pc = "recv"
  /\ recv_buffer' = LinearAppendPtr(recv_buffer)
  /\ UNCHANGED <<stream, calculate, max_data_len_, pc, delivered, connections>>

\* Mutant: the buffer is reset, what was known of the half-read frame is not.
CloseKeepingLength ==
  /\ pc' = "closed"
  /\ recv_buffer' = ReSet(recv_buffer)
  /\ UNCHANGED <<stream, calculate, max_data_len_, delivered, connections>>

\* RecvData has returned false.  A server's TerminateClient resets the context
\* (PushClientContextToCache), a client's thread leaves it as it is.
Close ==
  /\ pc' = "closed"
  /\ IF Role = "server"
     THEN /\ recv_buffer' = ReSet(recv_buffer)
          /\ is_packet_len_calculated' = FALSE
          /\ complete_packet_len' = 0
     ELSE UNCHANGED <<recv_buffer, calculate>>
  /\ UNCHANGED <<stream, max_data_len_, delivered, connections>>

\* The peer may close, or be lost, having sent any part of a frame.
RecvEndOfStream == pc = "recv" /\ Close

-----------------------------------------------------------------------------
(* One round of the while loop.                                            *)

\* OnCalculateDataLen does not have the whole header.
MoreToCome ==
  /\ pc = "loop"
  /\ ~is_packet_len_calculated
  /\ recv_buffer.cumulated_len \in 1 .. HEADER_SIZE - 1
  /\ complete_packet_len' = MORE_TO_COME
  /\ pc' = "recv"
  /\ UNCHANGED <<stream, recv_buffer, is_packet_len_calculated, max_data_len_,
                 delivered, connections>>

\* The payload lengths that HEADER_SIZE bytes may spell: a header's own, or,
\* if they are not a header, whatever atoi makes of them.
HeaderValue(bytes) ==
  LET headers == {k \in 1 .. Len(start) - 1 : bytes = Bytes(start[k], HEADER_SIZE)}
  IN  IF headers # {}
      THEN {start[k + 1] - start[k] - HEADER_SIZE : k \in headers}
      ELSE Payload \cup FirstPayload

\* Mutant: a frame that just fits with its header's bytes not counted gets no room.
GrowIfPayloadDoesNotFit(supposed_total_len) ==
  IF supposed_total_len - HEADER_SIZE > recv_buffer.buffer_len
  THEN /\ recv_buffer' = IncreaseBufferAndCopyExisting(recv_buffer, 2 * supposed_total_len)
       /\ max_data_len_' = 2 * supposed_total_len
  ELSE UNCHANGED <<recv_buffer, max_data_len_>>

\* OnCalculateDataLen has the header, and makes room for the whole frame.
OnCalculateDataLen(supposed_total_len) ==
  IF supposed_total_len > recv_buffer.buffer_len
  THEN /\ recv_buffer' = IncreaseBufferAndCopyExisting(recv_buffer, 2 * supposed_total_len)
       /\ max_data_len_' = 2 * supposed_total_len
  ELSE UNCHANGED <<recv_buffer, max_data_len_>>

CalculateLen ==
  /\ pc = "loop"
  /\ ~is_packet_len_calculated
  /\ recv_buffer.cumulated_len >= HEADER_SIZE
  /\ \E n \in HeaderValue(Peeked(recv_buffer, HEADER_SIZE)) :
        /\ OnCalculateDataLen(n + HEADER_SIZE)
        /\ complete_packet_len' = n + HEADER_SIZE
  /\ is_packet_len_calculated' = TRUE
  /\ UNCHANGED <<stream, pc, delivered, connections>>

\* Mutant: a frame that is just complete is taken for incomplete.
NeedOneMore ==
  /\ pc = "loop"
  /\ is_packet_len_calculated
  /\ recv_buffer.cumulated_len \in 1 .. complete_packet_len
  /\ pc' = "recv"
  /\ UNCHANGED <<stream, recv_buffer, calculate, max_data_len_, delivered, connections>>

NeedMore ==
  /\ pc = "loop"
  /\ is_packet_len_calculated
  /\ recv_buffer.cumulated_len \in 1 .. complete_packet_len - 1
  /\ pc' = "recv"
  /\ UNCHANGED <<stream, recv_buffer, calculate, max_data_len_, delivered, connections>>

GotComplete ==
  /\ pc = "loop"
  /\ is_packet_len_calculated
  /\ recv_buffer.cumulated_len > 0
  /\ complete_packet_len <= recv_buffer.cumulated_len

\* Mutant: one packet for each recv(), an if in the place of the while.
DeliverOne ==
  /\ GotComplete
  /\ ReadResult(recv_buffer, complete_packet_len) = OP_RSLT_OK
  /\ LET packet == Peeked(recv_buffer, complete_packet_len)
     IN  delivered' = Append(delivered, SubSeq(packet, HEADER_SIZE + 1, complete_packet_len))
  /\ recv_buffer' = Consumed(recv_buffer, complete_packet_len)
  /\ is_packet_len_calculated' = FALSE
  /\ pc' = "recv"
  /\ UNCHANGED <<stream, complete_packet_len, max_data_len_, connections>>

\* GetData and the callback.
DeliverPacket ==
  /\ GotComplete
  /\ ReadResult(recv_buffer, complete_packet_len) = OP_RSLT_OK
  /\ LET packet == Peeked(recv_buffer, complete_packet_len)
     IN  delivered' = Append(delivered, SubSeq(packet, HEADER_SIZE + 1, complete_packet_len))
  /\ recv_buffer' = Consumed(recv_buffer, complete_packet_len)
  /\ is_packet_len_calculated' = FALSE
  /\ UNCHANGED <<stream, complete_packet_len, max_data_len_, pc, connections>>

\* No memory for the copy of the packet: RecvData returns false with
\* is_packet_len_calculated still TRUE.  (GetData, the other way out, refuses only
\* a packet longer than what the buffer holds, which GotComplete excludes.)
PacketFails == GotComplete /\ Close

LoopEnd ==
  /\ pc = "loop"
  /\ recv_buffer.cumulated_len = 0
  /\ pc' = "recv"
  /\ UNCHANGED <<stream, recv_buffer, calculate, max_data_len_, delivered, connections>>

Loop == MoreToCome \/ CalculateLen \/ NeedMore \/ DeliverPacket \/ PacketFails \/ LoopEnd

-----------------------------------------------------------------------------
(* The next connection.                                                    *)

\* A server: a context that was reset when it came to the cache, or a new one.
PopClientContextFromCache ==
  \/ UNCHANGED <<recv_buffer, calculate>>
  \/ /\ recv_buffer' = NewBuffer(max_data_len_, FALSE)
     /\ is_packet_len_calculated' = FALSE
     /\ complete_packet_len' = 0

\* A client has one context, and resets the buffer in it.
ConnectToServer ==
  /\ recv_buffer' = ReSet(recv_buffer)
  /\ UNCHANGED calculate

Reconnect ==
  /\ pc = "closed"
  /\ connections < MaxConnections
  /\ connections' = connections + 1
  /\ start' = <<SentEnd>> /\ net' = SentEnd /\ delivered' = <<>>
  /\ pc' = "recv"
  /\ IF Role = "server" THEN PopClientContextFromCache ELSE ConnectToServer
  /\ UNCHANGED max_data_len_

Next ==
  \/ \E n \in Payload \cup FirstPayload : SendFrame(n)
  \/ \E k \in 1 .. SentEnd - net : RecvSome(k)
  \/ RecvNothing \/ RecvEndOfStream
  \/ Loop
  \/ Reconnect

Spec == Init /\ [][Next]_vars

\* The behaviours with memory for every packet: a connection ends by its peer's
\* doing only.
MemorySpec == Init /\ [][Next /\ ~PacketFails]_vars

\* epoll reports a socket that has data for as long as it has, so the thread
\* comes back to RecvData and RecvData runs to its end.
Fairness == WF_vars(\E k \in 1 .. SentEnd - net : RecvSome(k)) /\ WF_vars(Loop)

FairSpec == Spec /\ Fairness

-----------------------------------------------------------------------------
TypeOK ==
  /\ BufferOK(recv_buffer)
  /\ is_packet_len_calculated \in BOOLEAN
  /\ complete_packet_len \in Nat
  /\ max_data_len_ \in Nat
  /\ pc \in {"recv", "loop", "closed"}
  /\ net \in Nat

\* The payload of the k-th frame of the connection.
FramePayload(k) ==
  Bytes(start[k] + HEADER_SIZE, start[k + 1] - start[k] - HEADER_SIZE)

(* The callback has been given the payloads of the first frames, whole, in *)
(* order, none skipped and none twice, however recv() cut the stream up    *)
(* and wherever the frames came to lie in the ring.  It depends on the     *)
(* lengths: see RecvDataGrow.cfg for a frame the ring has to grow for.     *)
InOrder ==
  /\ Len(delivered) < Len(start)
  /\ \A k \in 1 .. Len(delivered) : delivered[k] = FramePayload(k)

(* assert(free_linear_len != 0), asock_nix_base.hpp:385: RecvData is never  *)
(* entered with a buffer that has no linear space left, which would have   *)
(* it call recv() for 0 bytes and take the answer for a disconnect.        *)
AssertFreeSpace == pc = "recv" => GetLinearFreeSpace(recv_buffer) # 0

(* RecvData does not go back to waiting with a whole frame in hand: the    *)
(* peer may be waiting for the answer and never send again.                *)
NothingHeldBack ==
  pc = "recv" => \A k \in 1 .. Len(start) - 1 : start[k + 1] <= net => k <= Len(delivered)

(* Frames and callbacks are a message channel.                             *)
Channel == INSTANCE MessageChannel WITH
             sent <- [k \in 1 .. Len(start) - 1 |-> FramePayload(k)]

IsChannel == Channel!Spec

(* Every frame the peer has sent reaches the callback unless its           *)
(* connection ends before.                                                 *)
AllDelivered ==
  \A c \in 1 .. MaxConnections, k \in 1 .. MaxFrames :
    connections = c /\ Len(start) > k
      ~> connections # c \/ pc = "closed" \/ Len(delivered) >= k
=============================================================================
