---------------------------- MODULE RecvDataProofs ----------------------------
(***************************************************************************)
(* RecvData delivers every message whole and in order, for either role,    *)
(* every header and buffer length, every way recv() may cut up the stream  *)
(* and any number of messages and connections, as long as two things that  *)
(* the code does not exclude do not happen (TakesCare):                    *)
(*   - the buffer is enlarged while the bytes in it wrap: it is copied as  *)
(*     it lies and they are torn apart;                                    *)
(*   - a new connection begins with the length of a frame that the last    *)
(*     one left half-read still taken for known.                           *)
(* A server whose frames fit its buffer, except the first of a connection, *)
(* does neither; a client of which the same holds never does the first.    *)
(*                                                                         *)
(* Last, the link: what this module and NixSendProofs say of the two ends  *)
(* of a connection holds of the connection as a whole.                     *)
(***************************************************************************)
EXTENDS StreamLink, CumBufferLemmas

HeaderFits == HEADER_SIZE <= InitialCapacity

\* Only the first frame of a connection may be too long for the buffer.
FramesFit == HeaderFits /\ \A n \in Payload : HEADER_SIZE + n <= InitialCapacity

GrowsStraight ==
  CalculateLen /\ recv_buffer'.buffer_len # recv_buffer.buffer_len => IsStraight(recv_buffer)

StartsAfresh == Reconnect => ~is_packet_len_calculated

TakesCare == [][GrowsStraight /\ StartsAfresh]_vars

\* The frame being received, and where it starts.
Current == Len(delivered) + 1
FrameStart == start[Current]

\* The unread bytes of b are those of the stream from the given position on.
Holds(b, from) ==
  \A i \in 0 .. b.cumulated_len - 1 : b.buffer_ptr[Cell(b, i)] = from + i

StreamOK ==
  /\ start \in Seq(Nat) /\ Len(start) >= 1
  /\ \A j, k \in 1 .. Len(start) : j < k => start[j] + HEADER_SIZE <= start[k]
  /\ net \in Nat

DeliveredOK ==
  /\ delivered \in Seq(Seq(Nat))
  /\ InOrder

BufferHolds ==
  /\ BufferOK(recv_buffer)
  /\ recv_buffer.buffer_len >= InitialCapacity
  /\ max_data_len_ \in Nat /\ max_data_len_ >= InitialCapacity
  /\ IF pc = "closed"
     THEN Role = "server" => recv_buffer.cumulated_len = 0
     ELSE /\ Holds(recv_buffer, FrameStart)
          /\ net = FrameStart + recv_buffer.cumulated_len
          /\ net <= SentEnd

LengthOK ==
  /\ is_packet_len_calculated \in BOOLEAN
  /\ complete_packet_len \in Nat
  /\ is_packet_len_calculated =>
       /\ Current < Len(start)
       /\ complete_packet_len = start[Current + 1] - start[Current]
       /\ complete_packet_len <= recv_buffer.buffer_len

WaitsForMore ==
  pc = "recv" =>
    recv_buffer.cumulated_len < IF is_packet_len_calculated THEN complete_packet_len
                                                            ELSE HEADER_SIZE

PcOK == pc \in {"recv", "loop", "closed"}

IInv == StreamOK /\ DeliveredOK /\ BufferHolds /\ LengthOK /\ WaitsForMore /\ PcOK

-----------------------------------------------------------------------------
LEMMA BytesIsSeq ==
  ASSUME NEW from \in Nat, NEW n \in Nat
  PROVE  /\ Bytes(from, n) \in Seq(Nat)
         /\ Len(Bytes(from, n)) = n
         /\ \A i \in 1 .. n : Bytes(from, n)[i] = from + i - 1
<1>1. Bytes(from, n) \in [1 .. n -> Nat]  BY DEF Bytes
<1>2. \A i \in 1 .. n : Bytes(from, n)[i] = from + i - 1  BY DEF Bytes
<1> QED  BY <1>1, <1>2

(* What is appended to the bytes of the stream must be those that follow.   *)
LEMMA HoldsExtended ==
  ASSUME NEW b, BufferOK(b), NEW c, BufferOK(c), NEW from \in Nat, Holds(b, from),
         NEW n \in Nat, Extends(b, c, Bytes(from + b.cumulated_len, n))
  PROVE  Holds(c, from) /\ c.cumulated_len = b.cumulated_len + n
<1> DEFINE m == b.cumulated_len
           h == from + m
           d == Bytes(h, n)
<1>0. m \in Nat  BY DEF BufferOK, Positions
<1>1. m \in Nat /\ h \in Nat  BY <1>0
<1>2. /\ c.cumulated_len = m + Len(d)
      /\ \A i \in 0 .. m - 1 : c.buffer_ptr[Cell(c, i)] = b.buffer_ptr[Cell(b, i)]
      /\ \A i \in 0 .. Len(d) - 1 : c.buffer_ptr[Cell(c, m + i)] = d[i + 1]
  BY DEF Extends
<1>3. \A i \in 0 .. m - 1 : b.buffer_ptr[Cell(b, i)] = from + i  BY DEF Holds
<1>4. h = from + m  OBVIOUS
<1> HIDE DEF h, m
<1>5. Len(d) = n /\ \A i \in 1 .. n : d[i] = h + i - 1  BY <1>1, BytesIsSeq
<1> HIDE DEF d
<1>6. ASSUME NEW i \in 0 .. m + n - 1
      PROVE  c.buffer_ptr[Cell(c, i)] = from + i
  <2>1. CASE i < m
    <3>1. i \in 0 .. m - 1  BY <1>1, <2>1
    <3> QED  BY <1>2, <1>3, <3>1
  <2>2. CASE ~(i < m)
    <3> DEFINE j == i - m
    <3>1. j \in 0 .. n - 1 /\ m + j = i /\ j + 1 \in 1 .. n  BY <1>1, <2>2
    <3>2. h + (j + 1) - 1 = from + i  BY <1>1, <1>4, <2>2
    <3> HIDE DEF j
    <3>3. c.buffer_ptr[Cell(c, m + j)] = d[j + 1]  BY <1>2, <1>5, <3>1
    <3>4. d[j + 1] = h + (j + 1) - 1  BY <1>5, <3>1
    <3> QED  BY <3>1, <3>2, <3>3, <3>4
  <2> QED  BY <2>1, <2>2
<1>7. c.cumulated_len = m + n  BY <1>2, <1>5
<1>8. Holds(c, from)  BY <1>1, <1>6, <1>7 DEF Holds
<1> QED  BY <1>7, <1>8 DEF m

LEMMA HoldsDropped ==
  ASSUME NEW b, BufferOK(b), NEW c, NEW from \in Nat, Holds(b, from),
         NEW n \in 0 .. b.cumulated_len, Drops(b, c, n)
  PROVE  Holds(c, from + n) /\ c.cumulated_len = b.cumulated_len - n
<1> DEFINE m == b.cumulated_len
<1>1. m \in Nat /\ n \in Nat /\ n <= m  BY DEF BufferOK, Positions
<1>2. c.cumulated_len = m - n  BY DEF Drops
<1>3. ASSUME NEW i \in 0 .. m - n - 1
      PROVE  c.buffer_ptr[Cell(c, i)] = from + n + i
  <2>1. n + i \in 0 .. m - 1 /\ from + (n + i) = from + n + i  BY <1>1
  <2>2. c.buffer_ptr[Cell(c, i)] = b.buffer_ptr[Cell(b, n + i)]  BY <1>2 DEF Drops
  <2> QED  BY <2>1, <2>2 DEF Holds
<1> QED  BY <1>2, <1>3 DEF Holds

(* A buffer with the same content holds the same part of the stream.        *)
LEMMA HoldsSame ==
  ASSUME NEW b, BufferOK(b), NEW c, NEW from, Holds(b, from),
         Content(c) = Content(b), c.cumulated_len = b.cumulated_len
  PROVE  Holds(c, from)
<1>1. b.cumulated_len \in Nat  BY DEF BufferOK, Positions
<1>2. ASSUME NEW i \in 0 .. c.cumulated_len - 1
      PROVE  c.buffer_ptr[Cell(c, i)] = from + i
  <2>1. i + 1 \in 1 .. b.cumulated_len /\ (i + 1) - 1 = i  BY <1>1
  <2>2. Content(b)[i + 1] = b.buffer_ptr[Cell(b, i)]  BY <2>1 DEF Content
  <2>3. Content(c)[i + 1] = c.buffer_ptr[Cell(c, i)]  BY <2>1 DEF Content
  <2> QED  BY <2>2, <2>3 DEF Holds
<1> QED  BY <1>2 DEF Holds

LEMMA PeekedHolds ==
  ASSUME NEW b, BufferOK(b), NEW from \in Nat, Holds(b, from),
         NEW n \in 0 .. b.cumulated_len
  PROVE  Peeked(b, n) = Bytes(from, n)
<1>1. b.cumulated_len \in Nat  BY DEF BufferOK, Positions
<1>2. Peeked(b, n) = [i \in 1 .. n |-> Content(b)[i]]  BY PeekedIsPrefix
<1>3. ASSUME NEW i \in 1 .. n
      PROVE  Content(b)[i] = from + i - 1
  <2>1. i \in 1 .. b.cumulated_len /\ i - 1 \in 0 .. b.cumulated_len - 1  BY <1>1
  <2>2. Content(b)[i] = b.buffer_ptr[Cell(b, i - 1)]  BY <2>1 DEF Content
  <2> QED  BY <2>1, <2>2 DEF Holds
<1> QED  BY <1>2, <1>3 DEF Bytes

(* While a frame is incomplete there is room for more of it.                *)
LEMMA WaitingHasRoom ==
  ASSUME IInv, HeaderFits, pc = "recv"
  PROVE  ~IsFull(recv_buffer)
<1>1. /\ recv_buffer.cumulated_len \in Nat /\ recv_buffer.buffer_len \in Nat
      /\ complete_packet_len \in Nat
  BY DEF IInv, BufferHolds, LengthOK, BufferOK, Positions
<1>2. recv_buffer.cumulated_len < recv_buffer.buffer_len
  BY <1>1, HeaderSizeAssumption, CapacityAssumption
     DEF IInv, WaitsForMore, LengthOK, BufferHolds, HeaderFits
<1> QED  BY <1>1, <1>2 DEF IsFull

-----------------------------------------------------------------------------
(* The steps of RecvData and of its peer.                                   *)

LEMMA InitStep ==
  ASSUME Init
  PROVE  IInv
<1>1. /\ BufferOK(recv_buffer) /\ recv_buffer.cumulated_len = 0
      /\ recv_buffer.buffer_len = InitialCapacity
  BY CapacityAssumption, NewBufferIsEmpty DEF Init
<1>3. start = <<0>> /\ net = 0 /\ delivered = <<>>  BY DEF Init
<1>4. StreamOK  BY <1>3, HeaderSizeAssumption DEF StreamOK
<1>5. DeliveredOK  BY <1>3 DEF DeliveredOK, InOrder
<1>6. Holds(recv_buffer, 0)  BY <1>1 DEF Holds
<1>7. BufferHolds
  <2>1. FrameStart = 0 /\ SentEnd = 0  BY <1>3 DEF FrameStart, Current, SentEnd
  <2>2. pc # "closed" /\ max_data_len_ = InitialCapacity  BY DEF Init
  <2>4. InitialCapacity >= InitialCapacity /\ InitialCapacity \in Nat  BY CapacityAssumption
  <2>5. net = FrameStart + recv_buffer.cumulated_len /\ net <= SentEnd
    BY <1>1, <1>3, <2>1
  <2>6. Holds(recv_buffer, FrameStart)  BY <1>6, <2>1
  <2> QED  BY <1>1, <2>2, <2>4, <2>5, <2>6 DEF BufferHolds
<1>8. LengthOK /\ PcOK
  BY DEF Init, LengthOK, PcOK
<1>9. WaitsForMore
  <2>1. is_packet_len_calculated = FALSE  BY DEF Init
  <2>2. 0 < HEADER_SIZE  BY HeaderSizeAssumption
  <2> QED  BY <1>1, <2>1, <2>2 DEF WaitsForMore
<1> QED  BY <1>4, <1>5, <1>7, <1>8, <1>9 DEF IInv

(* What the invariant says of the frame being received.                     *)
LEMMA CurrentFrame ==
  ASSUME IInv
  PROVE  /\ Len(delivered) \in Nat /\ Len(start) \in Nat
         /\ Current \in 1 .. Len(start) /\ Current = Len(delivered) + 1
         /\ FrameStart \in Nat /\ SentEnd \in Nat /\ net \in Nat
         /\ FrameStart <= SentEnd
         /\ HEADER_SIZE \in Nat \ {0}
         /\ \A k \in 1 .. Len(start) : start[k] \in Nat
         /\ BufferOK(recv_buffer)
         /\ recv_buffer.cumulated_len \in Nat
         /\ recv_buffer.buffer_len \in Nat \ {0}
         /\ complete_packet_len \in Nat
<1>1. start \in Seq(Nat) /\ Len(start) >= 1 /\ delivered \in Seq(Seq(Nat))
      /\ Len(delivered) < Len(start) /\ BufferOK(recv_buffer)
  BY DEF IInv, StreamOK, DeliveredOK, InOrder, BufferHolds
<1>2. Len(delivered) \in Nat /\ Len(start) \in Nat
  BY <1>1
<1>3. \A k \in 1 .. Len(start) : start[k] \in Nat
  BY <1>1, ElementOfSeq
<1>4. Current \in 1 .. Len(start) /\ Len(start) \in 1 .. Len(start)
  BY <1>1, <1>2 DEF Current
<1>5. FrameStart \in Nat /\ SentEnd \in Nat
  BY <1>3, <1>4 DEF FrameStart, SentEnd
<1>6. FrameStart <= SentEnd
  <2>1. CASE Current = Len(start)
    BY <1>5, <2>1 DEF FrameStart, SentEnd
  <2>2. CASE Current < Len(start)
    <3>1. start[Current] + HEADER_SIZE <= start[Len(start)]
      BY <1>4, <2>2 DEF IInv, StreamOK
    <3> QED  BY <1>5, <3>1, HeaderSizeAssumption DEF FrameStart, SentEnd
  <2> QED  BY <1>2, <1>4, <2>1, <2>2
<1>7. /\ recv_buffer.cumulated_len \in Nat /\ recv_buffer.buffer_len \in Nat \ {0}
  BY <1>1 DEF BufferOK, Positions
<1> QED  BY <1>1, <1>2, <1>3, <1>4, <1>5, <1>6, <1>7, HeaderSizeAssumption
         DEF IInv, StreamOK, LengthOK, Current

(* What the peer sends leaves the frames before it as they are.             *)
LEMMA SendFrameStep ==
  ASSUME IInv, NEW n \in Payload \cup FirstPayload, SendFrame(n)
  PROVE  /\ IInv'
         /\ Len(start') = Len(start) + 1 /\ delivered' = delivered
         /\ \A k \in 1 .. Len(start) - 1 : FramePayload(k)' = FramePayload(k)
<1> DEFINE L == Len(start)
           e == SentEnd + HEADER_SIZE + n
<1>1. /\ start' = Append(start, e) /\ n \in Nat
      /\ UNCHANGED <<net, recv_buffer, is_packet_len_calculated, complete_packet_len,
                     max_data_len_, pc, delivered, connections>>
  BY PayloadAssumption DEF SendFrame, calculate
<1>2. /\ L \in Nat \ {0} /\ SentEnd \in Nat /\ HEADER_SIZE \in Nat \ {0} /\ start \in Seq(Nat)
      /\ Current \in 1 .. L /\ Current = Len(delivered) + 1 /\ Len(delivered) \in Nat
      /\ \A k \in 1 .. L : start[k] \in Nat
  BY CurrentFrame DEF IInv, StreamOK
<1>3. e \in Nat /\ e = SentEnd + HEADER_SIZE + n  BY <1>1, <1>2
<1>4. SentEnd = start[L]  BY DEF SentEnd
<1> HIDE DEF e, L
<1>5. /\ start' \in Seq(Nat) /\ Len(start') = L + 1 /\ start'[L + 1] = e
      /\ \A k \in 1 .. L : start'[k] = start[k]
  BY <1>1, <1>2, <1>3, AppendProperties DEF L
<1>6. StreamOK'
  <2>1. \A j, k \in 1 .. L : j < k => start[j] + HEADER_SIZE <= start[k]
    BY DEF IInv, StreamOK, L
  <2>3. ASSUME NEW j \in 1 .. L + 1, NEW k \in 1 .. L + 1, j < k
        PROVE  start'[j] + HEADER_SIZE <= start'[k]
    <3>1. CASE k \in 1 .. L
      <4>1. j \in 1 .. L  BY <1>2, <2>3, <3>1
      <4> QED  BY <1>5, <2>1, <2>3, <3>1, <4>1
    <3>2. CASE k = L + 1
      <4>1. j \in 1 .. L  BY <1>2, <2>3, <3>2
      <4>2. start[j] <= SentEnd
        <5>1. CASE j = L  BY <1>2, <1>4, <5>1
        <5>2. CASE j < L
          <6>1. start[j] + HEADER_SIZE <= start[L] /\ start[j] \in Nat
            BY <1>2, <2>1, <4>1, <5>2
          <6> QED  BY <1>2, <1>4, <6>1
        <5> QED  BY <1>2, <4>1, <5>1, <5>2
      <4> QED  BY SMTT(30), <1>1, <1>2, <1>3, <1>5, <3>2, <4>1, <4>2
    <3> QED  BY <1>2, <3>1, <3>2
  <2>6. net' \in Nat /\ Len(start') >= 1  BY <1>1, <1>2, <1>5, CurrentFrame
  <2> QED  BY <1>5, <2>3, <2>6 DEF StreamOK
<1>7. \A k \in 1 .. L - 1 : FramePayload(k)' = FramePayload(k)
  <2> TAKE k \in 1 .. L - 1
  <2>1. k \in 1 .. L /\ k + 1 \in 1 .. L  BY <1>2
  <2> QED  BY <1>5, <2>1 DEF FramePayload
<1>8. DeliveredOK'
  <2>1. /\ delivered' = delivered /\ delivered \in Seq(Seq(Nat)) /\ Len(delivered) < L
        /\ \A k \in 1 .. Len(delivered) : delivered[k] = FramePayload(k)
    BY <1>1 DEF IInv, DeliveredOK, InOrder, L
  <2>2. \A k \in 1 .. Len(delivered) : k \in 1 .. L - 1
    BY <1>2, <2>1
  <2>3. \A k \in 1 .. Len(delivered) : delivered[k] = FramePayload(k)'
    BY <1>7, <2>1, <2>2
  <2>4. Len(delivered) < L + 1  BY <1>2, <2>1
  <2> QED  BY <1>1, <1>5, <2>1, <2>3, <2>4 DEF DeliveredOK, InOrder
<1>9. Current' = Current /\ FrameStart' = FrameStart
  BY <1>1, <1>2, <1>5 DEF Current, FrameStart
<1>10. SentEnd' = e /\ SentEnd <= e
  BY SMTT(30), <1>1, <1>2, <1>3, <1>5 DEF SentEnd
<1>11. BufferHolds'
  <2>1. net <= SentEnd => net <= SentEnd'  BY <1>2, <1>3, <1>10, CurrentFrame
  <2>2. Holds(recv_buffer, FrameStart)' <=> Holds(recv_buffer, FrameStart)
    BY <1>1, <1>9 DEF Holds
  <2> QED  BY <1>1, <1>9, <2>1, <2>2 DEF IInv, BufferHolds
<1>12. LengthOK'
  <2>1. is_packet_len_calculated =>
          /\ Current \in 1 .. L /\ Current + 1 \in 1 .. L
          /\ start'[Current] = start[Current] /\ start'[Current + 1] = start[Current + 1]
    <3>1. is_packet_len_calculated => Current < L  BY DEF IInv, LengthOK, L
    <3>2. Current < L => Current + 1 \in 1 .. L  BY <1>2
    <3> QED  BY <1>2, <1>5, <3>1, <3>2
  <2>2. Current < L + 1
    BY <1>2
  <2>3. /\ is_packet_len_calculated' = is_packet_len_calculated
        /\ complete_packet_len' = complete_packet_len
        /\ recv_buffer'.buffer_len = recv_buffer.buffer_len
        /\ pc' = pc /\ Len(start') = L + 1 /\ Current' = Current
    BY <1>1, <1>5, <1>9
  <2>4. is_packet_len_calculated =>
          complete_packet_len = start'[Current + 1] - start'[Current]
    BY <2>1 DEF IInv, LengthOK
  <2>5. is_packet_len_calculated =>
          complete_packet_len <= recv_buffer.buffer_len
    BY DEF IInv, LengthOK
  <2>6. is_packet_len_calculated \in BOOLEAN /\ complete_packet_len \in Nat
    BY DEF IInv, LengthOK
  <2> QED  BY <2>2, <2>3, <2>4, <2>5, <2>6 DEF LengthOK
<1>13. WaitsForMore' /\ PcOK'  BY <1>1 DEF IInv, WaitsForMore, PcOK
<1> QED  BY <1>1, <1>5, <1>6, <1>7, <1>8, <1>11, <1>12, <1>13 DEF IInv, L

(* A step that sends and delivers nothing changes nothing but net in the    *)
(* stream, nor which frame is being received.                               *)
LEMMA SameStream ==
  ASSUME IInv, start' = start, delivered' = delivered, net' \in Nat
  PROVE  /\ StreamOK' /\ DeliveredOK'
         /\ Current' = Current /\ FrameStart' = FrameStart /\ SentEnd' = SentEnd
<1>1. StreamOK'  BY DEF IInv, StreamOK
<1>2. DeliveredOK'  BY DEF IInv, DeliveredOK, InOrder, FramePayload
<1>3. Current' = Current /\ FrameStart' = FrameStart /\ SentEnd' = SentEnd
  BY DEF Current, FrameStart, SentEnd
<1> QED  BY <1>1, <1>2, <1>3

(* A step that leaves the buffer as well keeps what it holds.               *)
LEMMA SameBuffer ==
  ASSUME IInv, start' = start, delivered' = delivered, net' = net,
         recv_buffer' = recv_buffer, max_data_len_' = max_data_len_,
         pc' # "closed", pc # "closed"
  PROVE  BufferHolds'
<1>1. Current' = Current /\ FrameStart' = FrameStart /\ SentEnd' = SentEnd
  BY SameStream, CurrentFrame
<1>2. Holds(recv_buffer, FrameStart)' <=> Holds(recv_buffer, FrameStart)
  BY <1>1 DEF Holds
<1> QED  BY <1>1, <1>2 DEF IInv, BufferHolds

LEMMA RecvSomeStep ==
  ASSUME IInv, HeaderFits, NEW k \in 1 .. SentEnd - net, RecvSome(k)
  PROVE  IInv'
<1> DEFINE b == recv_buffer
           c == recv_buffer'
           d == Bytes(net, k)
<1>1. /\ net \in Nat /\ SentEnd \in Nat /\ k \in Nat /\ FrameStart \in Nat
      /\ BufferOK(b) /\ b.cumulated_len \in Nat
  BY CurrentFrame
<1>2. d \in Seq(Nat) /\ Len(d) = k  BY <1>1, BytesIsSeq
<1>3. /\ pc = "recv" /\ pc' = "loop" /\ net' = net + k
      /\ k <= GetLinearFreeSpace(b) /\ k <= SentEnd - net
      /\ c = DirectlyWritten(b, d)
      /\ UNCHANGED <<start, is_packet_len_calculated, complete_packet_len,
                     max_data_len_, delivered>>
  <2> HIDE DEF d
  <2> QED  BY <1>2 DEF RecvSome, Recv, calculate, d
<1>4. /\ Holds(b, FrameStart) /\ net = FrameStart + b.cumulated_len
      /\ b.buffer_len >= InitialCapacity
      /\ max_data_len_ \in Nat /\ max_data_len_ >= InitialCapacity
  BY <1>3 DEF IInv, BufferHolds
<1>5. ~IsFull(b)  BY <1>3, WaitingHasRoom
<1>6. BufferOK(c) /\ Extends(b, c, d) /\ c.buffer_len = b.buffer_len
  BY <1>3, <1>1, <1>5, <1>2, DirectlyWrittenExtends
<1>8. Extends(b, c, Bytes(FrameStart + b.cumulated_len, k))  BY <1>4, <1>6
<1> HIDE DEF b, c, d
<1>9. Holds(c, FrameStart) /\ c.cumulated_len = b.cumulated_len + k
  BY <1>1, <1>4, <1>6, <1>8, HoldsExtended
<1>10. net' \in Nat  BY <1>3, <1>1
<1>11. /\ StreamOK' /\ DeliveredOK'
       /\ Current' = Current /\ FrameStart' = FrameStart /\ SentEnd' = SentEnd
  BY <1>3, <1>10, SameStream
<1>12. BufferHolds'
  <2>1. net' = FrameStart + c.cumulated_len /\ net' <= SentEnd
    BY SMTT(30), <1>3, <1>1, <1>4, <1>9
  <2>2. Holds(recv_buffer, FrameStart)'  BY <1>9, <1>11 DEF Holds, c
  <2> QED  BY <1>3, <1>4, <1>6, <1>11, <2>1, <2>2 DEF BufferHolds, c
<1>13. LengthOK'
  BY <1>3, <1>6, <1>11 DEF IInv, LengthOK, b, c
<1>14. WaitsForMore' /\ PcOK'  BY <1>3 DEF WaitsForMore, PcOK
<1> QED  BY <1>11, <1>12, <1>13, <1>14 DEF IInv

LEMMA RecvNothingStep ==
  ASSUME IInv, RecvNothing
  PROVE  IInv'
<1> DEFINE b == recv_buffer
           c == recv_buffer'
<1>1. /\ pc = "recv" /\ c = LinearAppendPtr(b)
      /\ UNCHANGED <<start, net, is_packet_len_calculated, complete_packet_len,
                     max_data_len_, pc, delivered>>
  BY DEF RecvNothing, calculate, stream
<1>2. BufferOK(b) /\ net \in Nat  BY CurrentFrame
<1>4. /\ BufferOK(c) /\ c.buffer_len = b.buffer_len /\ Content(c) = Content(b)
      /\ c.cumulated_len = b.cumulated_len /\ c.cur_read = b.cur_read
  BY <1>1, <1>2, LinearAppendPtrKeeps
<1>6. Holds(b, FrameStart)  BY <1>1 DEF IInv, BufferHolds
<1>7. Holds(c, FrameStart)  BY <1>2, <1>4, <1>6, HoldsSame
<1>8. /\ StreamOK' /\ DeliveredOK'
      /\ Current' = Current /\ FrameStart' = FrameStart /\ SentEnd' = SentEnd
  BY <1>1, <1>2, SameStream
<1>9. BufferHolds'
  <2>1. Holds(recv_buffer, FrameStart)'  BY <1>7, <1>8 DEF Holds
  <2> QED  BY <1>1, <1>4, <1>8, <2>1 DEF IInv, BufferHolds
<1>10. LengthOK'  BY <1>1, <1>4, <1>8 DEF IInv, LengthOK
<1>11. WaitsForMore' /\ PcOK'  BY <1>1, <1>4 DEF IInv, WaitsForMore, PcOK
<1> QED  BY <1>8, <1>9, <1>10, <1>11 DEF IInv

LEMMA CloseStep ==
  ASSUME IInv, Close
  PROVE  IInv'
<1>1. pc' = "closed" /\ UNCHANGED <<start, net, max_data_len_, delivered>>
  BY DEF Close, stream
<1>2. BufferOK(recv_buffer) /\ net \in Nat  BY CurrentFrame
<1>3. /\ StreamOK' /\ DeliveredOK' /\ Current' = Current
  BY <1>1, <1>2, SameStream
<1>4. WaitsForMore' /\ PcOK'  BY <1>1 DEF WaitsForMore, PcOK
<1>5. CASE Role = "server"
  <2>1. /\ recv_buffer' = ReSet(recv_buffer)
        /\ is_packet_len_calculated' = FALSE /\ complete_packet_len' = 0
    BY <1>5 DEF Close
  <2>2. /\ BufferOK(recv_buffer') /\ recv_buffer'.cumulated_len = 0
        /\ recv_buffer'.buffer_len = recv_buffer.buffer_len
    BY <1>2, <2>1, ReSetIsEmpty
  <2>3. BufferHolds' /\ LengthOK'  BY <1>1, <2>1, <2>2 DEF IInv, BufferHolds, LengthOK
  <2> QED  BY <1>3, <1>4, <2>3 DEF IInv
<1>6. CASE Role # "server"
  <2>1. UNCHANGED <<recv_buffer, is_packet_len_calculated, complete_packet_len>>
    BY <1>6 DEF Close, calculate
  <2>2. BufferHolds' /\ LengthOK'
    BY <1>1, <1>3, <1>6, <2>1 DEF IInv, BufferHolds, LengthOK
  <2> QED  BY <1>3, <1>4, <2>2 DEF IInv
<1> QED  BY <1>5, <1>6

LEMMA MoreToComeStep ==
  ASSUME IInv, MoreToCome
  PROVE  IInv'
<1>1. /\ pc = "loop" /\ pc' = "recv" /\ ~is_packet_len_calculated
      /\ recv_buffer.cumulated_len \in 1 .. HEADER_SIZE - 1
      /\ complete_packet_len' = 0
      /\ UNCHANGED <<start, net, recv_buffer, is_packet_len_calculated,
                     max_data_len_, delivered>>
  BY DEF MoreToCome, stream, MORE_TO_COME
<1>2. net \in Nat  BY CurrentFrame
<1>3. StreamOK' /\ DeliveredOK'  BY <1>1, <1>2, SameStream
<1>4. BufferHolds'  BY <1>1, SameBuffer
<1>5. LengthOK'  BY <1>1 DEF IInv, LengthOK
<1>6. WaitsForMore' /\ PcOK'  BY <1>1, CurrentFrame DEF WaitsForMore, PcOK
<1> QED  BY <1>3, <1>4, <1>5, <1>6 DEF IInv

LEMMA NeedMoreStep ==
  ASSUME IInv, NeedMore
  PROVE  IInv'
<1>1. /\ pc = "loop" /\ pc' = "recv" /\ is_packet_len_calculated
      /\ recv_buffer.cumulated_len \in 1 .. complete_packet_len - 1
      /\ UNCHANGED <<start, net, recv_buffer, is_packet_len_calculated,
                     complete_packet_len, max_data_len_, delivered>>
  BY DEF NeedMore, stream, calculate
<1>2. net \in Nat  BY CurrentFrame
<1>3. /\ StreamOK' /\ DeliveredOK' /\ Current' = Current
  BY <1>1, <1>2, SameStream
<1>4. BufferHolds'  BY <1>1, SameBuffer
<1>5. LengthOK'  BY <1>1, <1>3 DEF IInv, LengthOK
<1>6. WaitsForMore' /\ PcOK'  BY <1>1, CurrentFrame DEF WaitsForMore, PcOK
<1> QED  BY <1>3, <1>4, <1>5, <1>6 DEF IInv

LEMMA LoopEndStep ==
  ASSUME IInv, LoopEnd
  PROVE  IInv'
<1>1. /\ pc = "loop" /\ pc' = "recv" /\ recv_buffer.cumulated_len = 0
      /\ UNCHANGED <<start, net, recv_buffer, is_packet_len_calculated,
                     complete_packet_len, max_data_len_, delivered>>
  BY DEF LoopEnd, stream, calculate
<1>2. net \in Nat  BY CurrentFrame
<1>3. /\ StreamOK' /\ DeliveredOK' /\ Current' = Current
  BY <1>1, <1>2, SameStream
<1>4. BufferHolds'  BY <1>1, SameBuffer
<1>5. LengthOK'  BY <1>1, <1>3 DEF IInv, LengthOK
<1>6. is_packet_len_calculated => complete_packet_len > 0
  <2>1. is_packet_len_calculated =>
          /\ Current \in 1 .. Len(start) /\ Current + 1 \in 1 .. Len(start)
          /\ start[Current] + HEADER_SIZE <= start[Current + 1]
          /\ complete_packet_len = start[Current + 1] - start[Current]
    <3>1. is_packet_len_calculated =>
            Current < Len(start) /\ complete_packet_len = start[Current + 1] - start[Current]
      BY DEF IInv, LengthOK
    <3>2. Current < Len(start) => Current + 1 \in 1 .. Len(start)  BY CurrentFrame
    <3>3. Current < Current + 1  BY CurrentFrame
    <3> QED  BY <3>1, <3>2, <3>3, CurrentFrame DEF IInv, StreamOK
  <2> QED  BY SMTT(30), <2>1, CurrentFrame
<1>7. WaitsForMore' /\ PcOK'  BY <1>1, <1>6, HeaderSizeAssumption DEF WaitsForMore, PcOK
<1> QED  BY <1>3, <1>4, <1>5, <1>7 DEF IInv

(* A frame of which the whole header has come is in the stream.              *)
LEMMA FrameIsThere ==
  ASSUME IInv, pc = "loop", recv_buffer.cumulated_len > 0
  PROVE  /\ Current < Len(start) /\ Current + 1 \in 1 .. Len(start)
         /\ start[Current] + HEADER_SIZE <= start[Current + 1]
<1>1. /\ net = FrameStart + recv_buffer.cumulated_len /\ net <= SentEnd
  BY DEF IInv, BufferHolds
<1>2. Current # Len(start)  BY <1>1, CurrentFrame DEF FrameStart, SentEnd
<1>3. Current < Len(start) /\ Current + 1 \in 1 .. Len(start) /\ Current < Current + 1
  BY <1>2, CurrentFrame
<1> QED  BY <1>3, CurrentFrame DEF IInv, StreamOK

(* The header in the buffer is the one of the frame being received.          *)
LEMMA HeaderIsCurrent ==
  ASSUME IInv, pc = "loop", recv_buffer.cumulated_len >= HEADER_SIZE,
         NEW n \in HeaderValue(Peeked(recv_buffer, HEADER_SIZE))
  PROVE  n = start[Current + 1] - start[Current] - HEADER_SIZE
<1> DEFINE bytes == Peeked(recv_buffer, HEADER_SIZE)
           headers == {k \in 1 .. Len(start) - 1 : bytes = Bytes(start[k], HEADER_SIZE)}
<1>1. /\ Current < Len(start) /\ Current \in 1 .. Len(start) - 1
  BY FrameIsThere, CurrentFrame
<1>2. bytes = Bytes(FrameStart, HEADER_SIZE)
  <2>1. HEADER_SIZE \in 0 .. recv_buffer.cumulated_len  BY CurrentFrame
  <2>2. Holds(recv_buffer, FrameStart)  BY DEF IInv, BufferHolds
  <2> QED  BY <2>1, <2>2, CurrentFrame, PeekedHolds
<1>3. Current \in headers  BY <1>1, <1>2 DEF FrameStart
<1>4. ASSUME NEW k \in headers
      PROVE  k = Current
  <2>1. k \in 1 .. Len(start) - 1 /\ Bytes(FrameStart, HEADER_SIZE) = Bytes(start[k], HEADER_SIZE)
    BY <1>2
  <2>2. k \in 1 .. Len(start) /\ start[k] \in Nat /\ 1 \in 1 .. HEADER_SIZE
    BY <2>1, CurrentFrame
  <2>3. FrameStart + 1 - 1 = start[k] + 1 - 1
    <3>1. FrameStart \in Nat /\ HEADER_SIZE \in Nat  BY CurrentFrame
    <3>2. Bytes(FrameStart, HEADER_SIZE)[1] = FrameStart + 1 - 1  BY <2>2, <3>1, BytesIsSeq
    <3>3. Bytes(start[k], HEADER_SIZE)[1] = start[k] + 1 - 1  BY <2>2, <3>1, BytesIsSeq
    <3> QED  BY <2>1, <3>2, <3>3
  <2>4. start[Current] = start[k]  BY <2>2, <2>3, CurrentFrame DEF FrameStart
  <2>5. k < Current => start[k] + HEADER_SIZE <= start[Current]
    BY <2>2, CurrentFrame DEF IInv, StreamOK
  <2>6. Current < k => start[Current] + HEADER_SIZE <= start[k]
    BY <2>2, CurrentFrame DEF IInv, StreamOK
  <2>7. ~(k < Current) /\ ~(Current < k)  BY <2>2, <2>4, <2>5, <2>6, CurrentFrame
  <2> QED  BY <2>2, <2>7, CurrentFrame
<1>5. HeaderValue(bytes) = {start[k + 1] - start[k] - HEADER_SIZE : k \in headers}
  BY <1>3 DEF HeaderValue
<1> HIDE DEF headers
<1>6. PICK k \in headers : n = start[k + 1] - start[k] - HEADER_SIZE  BY <1>5
<1> QED  BY <1>4, <1>6

LEMMA CalculateLenStep ==
  ASSUME IInv, CalculateLen, GrowsStraight
  PROVE  IInv'
<1> DEFINE b == recv_buffer
           c == recv_buffer'
           T == start[Current + 1] - start[Current]
<1>1. /\ pc = "loop" /\ ~is_packet_len_calculated /\ b.cumulated_len >= HEADER_SIZE
      /\ is_packet_len_calculated' = TRUE
      /\ UNCHANGED <<start, net, pc, delivered>>
  BY DEF CalculateLen, stream
<1>2. PICK n \in HeaderValue(Peeked(b, HEADER_SIZE)) :
        OnCalculateDataLen(n + HEADER_SIZE) /\ complete_packet_len' = n + HEADER_SIZE
  BY DEF CalculateLen
<1>3. /\ Current \in 1 .. Len(start) /\ Current + 1 \in 1 .. Len(start)
      /\ Current < Len(start)
      /\ start[Current] \in Nat /\ start[Current + 1] \in Nat
      /\ start[Current] + HEADER_SIZE <= start[Current + 1]
  <2>1. b.cumulated_len > 0  BY <1>1, CurrentFrame
  <2> QED  BY <1>1, <2>1, FrameIsThere, CurrentFrame
<1>4. T \in Nat /\ T >= HEADER_SIZE /\ HEADER_SIZE \in Nat \ {0}
  BY <1>3, HeaderSizeAssumption
<1>5. n + HEADER_SIZE = T
  <2>1. n = T - HEADER_SIZE  BY <1>1, <1>2, HeaderIsCurrent
  <2> QED  BY <1>4, <2>1
<1>6. OnCalculateDataLen(T) /\ complete_packet_len' = T  BY <1>2, <1>5
<1>7. /\ BufferOK(b) /\ b.buffer_len \in Nat \ {0} /\ Holds(b, FrameStart)
      /\ b.buffer_len >= InitialCapacity /\ max_data_len_ \in Nat
      /\ max_data_len_ >= InitialCapacity /\ InitialCapacity \in Nat
  BY <1>1, CurrentFrame, CapacityAssumption DEF IInv, BufferHolds
<1>8. /\ BufferOK(c) /\ Holds(c, FrameStart) /\ c.cumulated_len = b.cumulated_len
      /\ c.buffer_len >= InitialCapacity /\ T <= c.buffer_len
      /\ max_data_len_' \in Nat /\ max_data_len_' >= InitialCapacity
  <2>1. CASE T > b.buffer_len
    <3>1. c = IncreaseBufferAndCopyExisting(b, 2 * T) /\ max_data_len_' = 2 * T
      BY <1>6, <2>1 DEF OnCalculateDataLen
    <3>3. 2 * T \in Nat /\ b.buffer_len < 2 * T /\ T <= 2 * T /\ 2 * T >= InitialCapacity
      BY <1>4, <1>7, <2>1
    <3>2. IsStraight(b)
      <4>1. c.buffer_len = 2 * T  BY <3>1 DEF IncreaseBufferAndCopyExisting, BufferOK, Members
      <4>2. c.buffer_len # b.buffer_len  BY <1>7, <3>3, <4>1
      <4> QED  BY <4>2 DEF GrowsStraight
    <3> HIDE DEF T, b, c
    <3>4. /\ BufferOK(c) /\ Content(c) = Content(b) /\ c.buffer_len = 2 * T
          /\ c.cumulated_len = b.cumulated_len
      BY <1>7, <3>1, <3>2, <3>3, IncreasedKeeps
    <3>5. Holds(c, FrameStart)  BY <1>7, <3>4, HoldsSame
    <3> QED  BY <1>7, <3>1, <3>2, <3>3, <3>4, <3>5
  <2>2. CASE ~(T > b.buffer_len)
    <3>1. c = b /\ max_data_len_' = max_data_len_
      BY <1>6, <2>2 DEF OnCalculateDataLen
    <3>2. T <= b.buffer_len  BY <1>4, <1>7, <2>2
    <3> QED  BY <1>7, <3>1, <3>2
  <2> QED  BY <2>1, <2>2
<1>9. net \in Nat  BY CurrentFrame
<1>10. /\ StreamOK' /\ DeliveredOK'
       /\ Current' = Current /\ FrameStart' = FrameStart /\ SentEnd' = SentEnd
  BY <1>1, <1>9, SameStream
<1>11. BufferHolds'
  <2>1. Holds(recv_buffer, FrameStart)'  BY <1>8, <1>10 DEF Holds
  <2>3. net = FrameStart + b.cumulated_len /\ net <= SentEnd
    BY <1>1 DEF IInv, BufferHolds
  <2> QED  BY <1>1, <1>8, <1>10, <2>1, <2>3 DEF BufferHolds
<1>12. LengthOK'
  BY <1>1, <1>3, <1>4, <1>6, <1>8, <1>10 DEF LengthOK
<1>13. WaitsForMore' /\ PcOK'  BY <1>1 DEF WaitsForMore, PcOK
<1> QED  BY <1>10, <1>11, <1>12, <1>13 DEF IInv

LEMMA SubSeqOfBytes ==
  ASSUME NEW from \in Nat, NEW n \in Nat, NEW h \in Nat, h <= n
  PROVE  SubSeq(Bytes(from, n), h + 1, n) = Bytes(from + h, n - h)
<1> DEFINE a == Bytes(from, n)
           s == SubSeq(a, h + 1, n)
           t == Bytes(from + h, n - h)
<1>1. a \in Seq(Nat) /\ Len(a) = n /\ \A i \in 1 .. n : a[i] = from + i - 1
  BY BytesIsSeq
<1>2. from + h \in Nat /\ n - h \in Nat  OBVIOUS
<1>3. t \in Seq(Nat) /\ Len(t) = n - h /\ \A i \in 1 .. n - h : t[i] = from + h + i - 1
  BY <1>2, BytesIsSeq
<1> HIDE DEF a, t
<1>4. \A i \in h + 1 .. n : i \in 1 .. n /\ from + i - 1 \in Nat  OBVIOUS
<1>5. \A i \in h + 1 .. n : a[i] \in Nat  BY <1>1, <1>4
<1>6. h + 1 \in Int /\ n \in Int  OBVIOUS
<1>7. /\ s \in Seq(Nat)
      /\ Len(s) = IF h + 1 <= n THEN n - (h + 1) + 1 ELSE 0
      /\ \A i \in 1 .. n - (h + 1) + 1 : s[i] = a[h + 1 + i - 1]
  BY <1>5, <1>6, SubSeqProperties
<1> HIDE DEF s
<1>8. n - (h + 1) + 1 = n - h  OBVIOUS
<1>9. Len(s) = n - h  BY <1>7, <1>8
<1>10. ASSUME NEW i \in 1 .. n - h
       PROVE  s[i] = t[i]
  <2>1. h + 1 + i - 1 \in 1 .. n  OBVIOUS
  <2>2. from + (h + 1 + i - 1) - 1 = from + h + i - 1  OBVIOUS
  <2>3. s[i] = a[h + 1 + i - 1]  BY <1>7, <1>8
  <2> QED  BY <1>1, <1>3, <2>1, <2>2, <2>3
<1>11. s = t  BY <1>3, <1>7, <1>9, <1>10, SeqEqual
<1> QED  BY <1>11 DEF a, s, t

(* What DeliverPacket gives to the callback is the payload of the frame.    *)
LEMMA PacketIsFrame ==
  ASSUME IInv, GotComplete, NEW T, T = complete_packet_len
  PROVE  /\ T \in 0 .. recv_buffer.cumulated_len /\ FrameStart + T = start[Current + 1]
         /\ Current + 1 \in 1 .. Len(start)
         /\ SubSeq(Peeked(recv_buffer, T), HEADER_SIZE + 1, T) = FramePayload(Current)
         /\ FramePayload(Current) \in Seq(Nat)
<1> DEFINE x == start[Current]
           y == start[Current + 1]
           m == recv_buffer.cumulated_len
<1>1. /\ pc = "loop" /\ m > 0 /\ T <= m /\ T = y - x
  BY DEF GotComplete, IInv, LengthOK
<1>2. /\ Current \in 1 .. Len(start) /\ Current + 1 \in 1 .. Len(start)
      /\ x + HEADER_SIZE <= y /\ x \in Nat /\ y \in Nat /\ m \in Nat
      /\ HEADER_SIZE \in Nat /\ BufferOK(recv_buffer)
  BY <1>1, FrameIsThere, CurrentFrame
<1>3. FrameStart = x /\ FramePayload(Current) = Bytes(x + HEADER_SIZE, y - x - HEADER_SIZE)
  BY DEF FrameStart, FramePayload
<1>4. Holds(recv_buffer, x)  BY <1>1, <1>3 DEF IInv, BufferHolds
<1> HIDE DEF x, y
<1>5. T \in 0 .. m /\ T \in Nat /\ x + T = y /\ HEADER_SIZE <= T
      /\ x + HEADER_SIZE \in Nat /\ T - HEADER_SIZE \in Nat
  <2> HIDE DEF m
  <2> QED  BY <1>1, <1>2
<1>6. Peeked(recv_buffer, T) = Bytes(x, T)
  BY <1>2, <1>4, <1>5, PeekedHolds
<1>7. FramePayload(Current) = Bytes(x + HEADER_SIZE, T - HEADER_SIZE)
  BY <1>1, <1>3
<1>8. FramePayload(Current) \in Seq(Nat)  BY <1>5, <1>7, BytesIsSeq
<1>9. SubSeq(Bytes(x, T), HEADER_SIZE + 1, T) = FramePayload(Current)
  <2>1. x \in Nat /\ T \in Nat /\ HEADER_SIZE \in Nat /\ HEADER_SIZE <= T
    BY <1>2, <1>5
  <2>2. SubSeq(Bytes(x, T), HEADER_SIZE + 1, T) = Bytes(x + HEADER_SIZE, T - HEADER_SIZE)
    BY <2>1, SubSeqOfBytes
  <2> QED  BY <1>7, <2>2
<1>10. FrameStart + T = start[Current + 1]  BY <1>3, <1>5 DEF y
<1> QED  BY <1>2, <1>5, <1>6, <1>8, <1>9, <1>10

LEMMA DeliverPacketStep ==
  ASSUME IInv, DeliverPacket
  PROVE  IInv' /\ delivered' = Append(delivered, FramePayload(Current)) /\ start' = start
         /\ Current < Len(start)
<1> DEFINE b == recv_buffer
           c == recv_buffer'
           T == complete_packet_len
<1>1. /\ GotComplete /\ pc = "loop" /\ pc' = "loop" /\ b.cumulated_len > 0
      /\ delivered' = Append(delivered, SubSeq(Peeked(b, T), HEADER_SIZE + 1, T))
      /\ c = Consumed(b, T) /\ is_packet_len_calculated' = FALSE
      /\ UNCHANGED <<start, net, complete_packet_len, max_data_len_>>
  BY DEF DeliverPacket, GotComplete, stream
<1>2. /\ T \in 0 .. b.cumulated_len /\ FrameStart + T = start[Current + 1]
      /\ Current + 1 \in 1 .. Len(start)
      /\ SubSeq(Peeked(b, T), HEADER_SIZE + 1, T) = FramePayload(Current)
      /\ FramePayload(Current) \in Seq(Nat)
  BY <1>1, PacketIsFrame
<1>3. /\ delivered' = Append(delivered, FramePayload(Current))
      /\ delivered \in Seq(Seq(Nat)) /\ Len(delivered) \in Nat /\ Current = Len(delivered) + 1
      /\ Len(start) \in Nat
  BY <1>1, <1>2, CurrentFrame DEF IInv, DeliveredOK
<1>4. /\ delivered' \in Seq(Seq(Nat)) /\ Len(delivered') = Current
      /\ \A k \in 1 .. Len(delivered) : delivered'[k] = delivered[k]
      /\ delivered'[Current] = FramePayload(Current)
  BY <1>2, <1>3, AppendProperties
<1>5. Current' = Current + 1 /\ FrameStart' = FrameStart + T /\ SentEnd' = SentEnd
  BY <1>1, <1>2, <1>4 DEF Current, FrameStart, SentEnd
<1>6. net \in Nat  BY CurrentFrame
<1>7. StreamOK'  BY <1>1 DEF IInv, StreamOK
<1>8. DeliveredOK'
  <2>1. \A k : FramePayload(k)' = FramePayload(k)  BY <1>1 DEF FramePayload
  <2>2. \A k \in 1 .. Len(delivered) : delivered[k] = FramePayload(k)
    BY DEF IInv, DeliveredOK, InOrder
  <2>3. ASSUME NEW k \in 1 .. Current
        PROVE  delivered'[k] = FramePayload(k)
    <3>1. CASE k = Current  BY <1>4, <3>1
    <3>2. CASE k # Current
      <4>1. k \in 1 .. Len(delivered)  BY <1>3, <3>2
      <4> QED  BY <1>4, <2>2, <4>1
    <3> QED  BY <3>1, <3>2
  <2>4. Current < Len(start)  BY <1>2, <1>3
  <2> QED  BY <1>1, <1>4, <2>1, <2>3, <2>4 DEF DeliveredOK, InOrder
<1>9. /\ BufferOK(b) /\ Holds(b, FrameStart) /\ net = FrameStart + b.cumulated_len
      /\ net <= SentEnd /\ FrameStart \in Nat /\ b.cumulated_len \in Nat
      /\ b.buffer_len >= InitialCapacity
      /\ max_data_len_ \in Nat /\ max_data_len_ >= InitialCapacity
  BY <1>1, CurrentFrame DEF IInv, BufferHolds
<1>10. /\ BufferOK(c) /\ c.buffer_len = b.buffer_len
       /\ Holds(c, FrameStart + T) /\ c.cumulated_len = b.cumulated_len - T
  <2> HIDE DEF b, c, T
  <2>1. b.cumulated_len # 0  BY <1>1, <1>9
  <2>2. BufferOK(c) /\ Drops(b, c, T) /\ c.buffer_len = b.buffer_len
    BY <1>1, <1>2, <1>9, <2>1, ConsumedDrops
  <2> QED  BY <1>2, <1>9, <2>2, HoldsDropped
<1>11. BufferHolds'
  <2>2. Holds(recv_buffer, FrameStart)'  BY <1>5, <1>10 DEF Holds
  <2>3. net = FrameStart + T + c.cumulated_len  BY <1>2, <1>9, <1>10
  <2> QED  BY <1>1, <1>5, <1>9, <1>10, <2>2, <2>3 DEF BufferHolds
<1>12. LengthOK' /\ WaitsForMore' /\ PcOK'
  BY <1>1 DEF IInv, LengthOK, WaitsForMore, PcOK
<1>13. Current < Len(start)  BY <1>2, <1>3
<1> QED  BY <1>1, <1>3, <1>7, <1>8, <1>11, <1>12, <1>13 DEF IInv

LEMMA ReconnectStep ==
  ASSUME IInv, Reconnect, StartsAfresh
  PROVE  IInv' /\ Len(start') = 1 /\ delivered' = <<>>
<1>1. /\ pc = "closed" /\ pc' = "recv" /\ max_data_len_' = max_data_len_
      /\ start' = <<SentEnd>> /\ net' = SentEnd /\ delivered' = <<>>
  BY DEF Reconnect
<1>2. /\ SentEnd \in Nat /\ HEADER_SIZE \in Nat \ {0} /\ BufferOK(recv_buffer)
      /\ max_data_len_ \in Nat /\ max_data_len_ >= InitialCapacity
      /\ InitialCapacity \in Nat \ {0}
  BY CurrentFrame, CapacityAssumption DEF IInv, BufferHolds
<1>3. /\ is_packet_len_calculated' = FALSE /\ complete_packet_len' \in Nat
      /\ BufferOK(recv_buffer') /\ recv_buffer'.cumulated_len = 0
      /\ recv_buffer'.buffer_len >= InitialCapacity
  <2>0. ~is_packet_len_calculated  BY DEF StartsAfresh
  <2>1. CASE Role = "server" /\ UNCHANGED <<recv_buffer, calculate>>
    BY <1>1, <2>0, <2>1 DEF IInv, BufferHolds, LengthOK, calculate
  <2>3. CASE recv_buffer' = ReSet(recv_buffer) /\ UNCHANGED calculate
    <3>1. /\ BufferOK(recv_buffer') /\ recv_buffer'.cumulated_len = 0
          /\ recv_buffer'.buffer_len = recv_buffer.buffer_len
      BY <1>2, <2>3, ReSetIsEmpty
    <3> QED  BY <1>1, <2>0, <2>3, <3>1 DEF IInv, BufferHolds, LengthOK, calculate
  <2>2. CASE /\ recv_buffer' = NewBuffer(max_data_len_, FALSE)
             /\ is_packet_len_calculated' = FALSE
             /\ complete_packet_len' = 0
    <3>1. max_data_len_ \in Nat \ {0} /\ FALSE \in BOOLEAN  BY <1>2
    <3>2. /\ BufferOK(recv_buffer') /\ recv_buffer'.cumulated_len = 0
          /\ recv_buffer'.buffer_len = max_data_len_
      BY <2>2, <3>1, NewBufferIsEmpty
    <3> QED  BY <1>2, <2>2, <3>2
  <2> QED  BY <1>1, <2>1, <2>2, <2>3, RoleAssumption
           DEF Reconnect, PopClientContextFromCache, ConnectToServer
<1>4. /\ start' \in Seq(Nat) /\ Len(start') = 1 /\ start'[1] = SentEnd
  BY <1>1, <1>2
<1>5. StreamOK'  BY <1>1, <1>2, <1>4 DEF StreamOK
<1>6. DeliveredOK'  BY <1>1, <1>4 DEF DeliveredOK, InOrder
<1>7. FrameStart' = SentEnd /\ SentEnd' = SentEnd
  BY <1>1, <1>4 DEF FrameStart, Current, SentEnd
<1>8. BufferHolds'
  <2>1. Holds(recv_buffer, FrameStart)'  BY <1>3 DEF Holds
  <2>3. net' = FrameStart' + recv_buffer'.cumulated_len /\ net' <= SentEnd'
    BY <1>1, <1>2, <1>3, <1>7
  <2> QED  BY <1>1, <1>2, <1>3, <2>1, <2>3 DEF BufferHolds
<1>9. LengthOK' /\ PcOK'  BY <1>1, <1>3 DEF LengthOK, PcOK
<1>10. WaitsForMore'
  BY <1>2, <1>3 DEF WaitsForMore
<1> QED  BY <1>1, <1>4, <1>5, <1>6, <1>8, <1>9, <1>10 DEF IInv

-----------------------------------------------------------------------------
LEMMA NextStep ==
  ASSUME IInv, HeaderFits, [Next]_vars, [GrowsStraight /\ StartsAfresh]_vars
  PROVE  IInv'
<1>1. CASE \E n \in Payload \cup FirstPayload : SendFrame(n)
  BY <1>1, SendFrameStep
<1>2. CASE \E k \in 1 .. SentEnd - net : RecvSome(k)
  BY <1>2, RecvSomeStep
<1>3. CASE RecvNothing  BY <1>3, RecvNothingStep
<1>4. CASE RecvEndOfStream  BY <1>4, CloseStep DEF RecvEndOfStream
<1>5. CASE MoreToCome  BY <1>5, MoreToComeStep
<1>6. CASE CalculateLen /\ GrowsStraight  BY <1>6, CalculateLenStep
<1>7. CASE NeedMore  BY <1>7, NeedMoreStep
<1>8. CASE DeliverPacket  BY <1>8, DeliverPacketStep
<1>9. CASE PacketFails  BY <1>9, CloseStep DEF PacketFails
<1>10. CASE LoopEnd  BY <1>10, LoopEndStep
<1>11. CASE Reconnect /\ StartsAfresh  BY <1>11, ReconnectStep
<1>12. CASE UNCHANGED vars
  <2>1. /\ UNCHANGED <<start, net, recv_buffer, is_packet_len_calculated,
                       complete_packet_len, max_data_len_, pc, delivered>>
    BY <1>12 DEF vars
  <2> QED  BY <2>1 DEF IInv, StreamOK, DeliveredOK, InOrder, FramePayload, BufferHolds,
                        Holds, FrameStart, Current, SentEnd, Cell, LengthOK,
                        WaitsForMore, PcOK
<1>13. CASE Next /\ GrowsStraight /\ StartsAfresh
  BY <1>1, <1>2, <1>3, <1>4, <1>5, <1>6, <1>7, <1>8, <1>9, <1>10, <1>11, <1>13
     DEF Next, Loop
<1> QED  BY <1>12, <1>13

(* IInv, the inductive invariant: the buffer holds the bytes of the stream  *)
(* from the start of the frame being received to where recv() has come.     *)
(* It holds for both roles and every length as long as RecvData takes care. *)
THEOREM Inductive ==
  ASSUME HeaderFits
  PROVE  Spec /\ TakesCare => []IInv
<1>1. Init => IInv  BY InitStep
<1>2. IInv /\ [Next]_vars /\ [GrowsStraight /\ StartsAfresh]_vars => IInv'  BY NextStep
<1> QED  BY <1>1, <1>2, PTL DEF Spec, TakesCare

LEMMA LeavesFreeSpace ==
  ASSUME IInv, HeaderFits
  PROVE  AssertFreeSpace
<1> SUFFICES ASSUME IInv, pc = "recv"
             PROVE  GetLinearFreeSpace(recv_buffer) # 0
  BY DEF AssertFreeSpace
<1>1. ~IsFull(recv_buffer) /\ BufferOK(recv_buffer)  BY WaitingHasRoom, CurrentFrame
<1>2. GetLinearFreeSpace(recv_buffer) \in 1 .. recv_buffer.buffer_len - recv_buffer.cumulated_len
  BY <1>1, LinearFreeSpaceIsFree
<1> QED  BY <1>2, CurrentFrame

LEMMA LeavesNothingBack ==
  ASSUME IInv
  PROVE  NothingHeldBack
<1> SUFFICES ASSUME IInv, pc = "recv", NEW k \in 1 .. Len(start) - 1,
                    start[k + 1] <= net, ~(k <= Len(delivered))
             PROVE  FALSE
  BY DEF NothingHeldBack
<1> DEFINE m == recv_buffer.cumulated_len
           x == start[Current]
           y == start[Current + 1]
<1>1. /\ Current \in 1 .. Len(start) /\ Current + 1 \in 1 .. Len(start)
      /\ k + 1 \in 1 .. Len(start) /\ Current + 1 <= k + 1 /\ Current < Len(start)
      /\ Current < Current + 1
  BY SMTT(30), CurrentFrame
<1>2. x \in Nat /\ y \in Nat /\ start[k + 1] \in Nat /\ m \in Nat
      /\ net \in Nat /\ HEADER_SIZE \in Nat /\ complete_packet_len \in Nat
  BY <1>1, CurrentFrame
<1>3. net = x + m  BY DEF IInv, BufferHolds, FrameStart
<1>4. x + HEADER_SIZE <= y  BY <1>1 DEF IInv, StreamOK
<1>5. y <= start[k + 1]
  <2>1. CASE Current + 1 = k + 1  BY <1>2, <2>1
  <2>2. CASE Current + 1 < k + 1
    <3>1. y + HEADER_SIZE <= start[k + 1]  BY <1>1, <2>2 DEF IInv, StreamOK
    <3> QED  BY <1>2, <3>1
  <2> QED  BY <1>1, <2>1, <2>2
<1>6. m < IF is_packet_len_calculated THEN complete_packet_len ELSE HEADER_SIZE
  BY DEF IInv, WaitsForMore
<1>7. is_packet_len_calculated => complete_packet_len = y - x
  BY DEF IInv, LengthOK
<1> HIDE DEF m, x, y
<1>8. m < y - x
  <2>1. CASE is_packet_len_calculated  BY <1>6, <1>7, <2>1
  <2>2. CASE ~is_packet_len_calculated
    <3>1. m < HEADER_SIZE  BY <1>6, <2>2
    <3> QED  BY <1>2, <1>4, <3>1
  <2> QED  BY <2>1, <2>2
<1> QED  BY <1>2, <1>3, <1>5, <1>8

-----------------------------------------------------------------------------
(* The frames sent and the callbacks made are a MessageChannel.             *)

\* What RecvData puts for the channel's variable sent.
Sent == [k \in 1 .. Len(start) - 1 |-> FramePayload(k)]

LEMMA SentIs ==
  ASSUME IInv
  PROVE  Len(Sent) = Len(start) - 1 /\ Len(Sent) \in Nat
<1>1. Len(start) - 1 \in Nat  BY CurrentFrame
<1>2. DOMAIN Sent = 1 .. Len(start) - 1  BY DEF Sent
<1> QED  BY <1>1, <1>2

LEMMA SameSent ==
  ASSUME start' = start
  PROVE  Sent' = Sent
BY DEF Sent, FramePayload

LEMMA SendIsSend ==
  ASSUME IInv, NEW n \in Payload \cup FirstPayload, SendFrame(n)
  PROVE  Channel!Send
<1>1. /\ IInv' /\ Len(start') = Len(start) + 1 /\ delivered' = delivered
      /\ \A k \in 1 .. Len(start) - 1 : FramePayload(k)' = FramePayload(k)
  BY SendFrameStep
<1>2. Len(Sent) = Len(start) - 1 /\ Len(start) - 1 \in Nat /\ Len(start) \in Nat
  BY SentIs, CurrentFrame
<1>3. Len(Sent') = Len(start') - 1
  <2>1. Len(start') - 1 \in Nat  BY <1>1, <1>2
  <2>2. DOMAIN Sent' = 1 .. Len(start') - 1  BY DEF Sent
  <2> QED  BY <2>1, <2>2
<1>4. Len(Sent') = Len(Sent) + 1  BY <1>1, <1>2, <1>3
<1>5. SubSeq(Sent', 1, Len(Sent)) = Sent
  <2> DEFINE m == Len(start) - 1
             s == SubSeq(Sent', 1, m)
  <2>1. \A k \in 1 .. m : Sent'[k] = Sent[k]
    <3> TAKE k \in 1 .. m
    <3>1. k \in 1 .. Len(start') - 1  BY <1>1, <1>2
    <3>2. Sent'[k] = FramePayload(k)'  BY <3>1 DEF Sent
    <3>3. Sent[k] = FramePayload(k)  BY DEF Sent
    <3> QED  BY <1>1, <3>2, <3>3
  <2>2. DOMAIN Sent = 1 .. m /\ Sent = [k \in 1 .. m |-> Sent[k]]  BY DEF Sent
  <2> DEFINE S == {Sent[k] : k \in 1 .. m}
             t == Sent
  <2>3. m \in Nat /\ 1 \in Int /\ m \in Int  BY <1>2
  <2>4. t \in Seq(S) /\ Len(t) = m  BY <2>2, <2>3, <1>2
  <2>5. \A k \in 1 .. m : Sent'[k] \in S  BY <2>1
  <2> HIDE DEF m, S
  <2>6. /\ s \in Seq(S) /\ Len(s) = (IF 1 <= m THEN m - 1 + 1 ELSE 0)
        /\ \A k \in 1 .. m - 1 + 1 : s[k] = Sent'[1 + k - 1]
    BY <2>3, <2>5, SubSeqProperties
  <2> HIDE DEF s, t
  <2>7. Len(s) = m  BY <2>3, <2>6
  <2>8. ASSUME NEW k \in 1 .. m
        PROVE  s[k] = t[k]
    <3>1. k \in 1 .. m - 1 + 1 /\ 1 + k - 1 = k  BY <2>3
    <3>2. s[k] = Sent'[k]  BY <2>6, <3>1
    <3> QED  BY <2>1, <3>2 DEF t
  <2>9. s = t  BY <2>4, <2>6, <2>7, <2>8, SeqEqual
  <2> QED  BY <1>2, <2>9 DEF s, t, m
<1> QED  BY <1>1, <1>4, <1>5 DEF Channel!Send, Sent

LEMMA DeliverIsDeliver ==
  ASSUME IInv, DeliverPacket
  PROVE  Channel!Deliver
<1>1. /\ delivered' = Append(delivered, FramePayload(Current)) /\ start' = start
      /\ Current < Len(start)
  BY DeliverPacketStep
<1>2. /\ Len(Sent) = Len(start) - 1 /\ Len(delivered) \in Nat /\ Len(start) \in Nat
      /\ Current = Len(delivered) + 1
  BY SentIs, CurrentFrame
<1>3. Current \in 1 .. Len(start) - 1 /\ Len(delivered) < Len(Sent)  BY <1>1, <1>2
<1>4. Sent[Current] = FramePayload(Current)  BY <1>3 DEF Sent
<1>5. Sent' = Sent  BY <1>1, SameSent
<1>6. delivered' = Append(delivered, Sent[Len(delivered) + 1])  BY <1>1, <1>2, <1>4
<1> QED  BY <1>3, <1>5, <1>6 DEF Channel!Deliver, Sent

LEMMA StepIsChannelStep ==
  ASSUME IInv, [Next]_vars, [GrowsStraight /\ StartsAfresh]_vars
  PROVE  [Channel!Next]_(Channel!vars)
<1>1. CASE \E n \in Payload \cup FirstPayload : SendFrame(n)
  BY <1>1, SendIsSend DEF Channel!Next
<1>2. CASE DeliverPacket  BY <1>2, DeliverIsDeliver DEF Channel!Next
<1>3. CASE Reconnect /\ StartsAfresh
  <2>1. Len(start') = 1 /\ delivered' = <<>>  BY <1>3, ReconnectStep
  <2>2. Sent' = <<>>  BY <2>1 DEF Sent
  <2> QED  BY <2>1, <2>2 DEF Channel!Next, Channel!Reconnect, Sent
<1>4. CASE start' = start /\ delivered' = delivered
  <2>1. Sent' = Sent  BY <1>4, SameSent
  <2> QED  BY <1>4, <2>1 DEF Channel!vars, Sent
<1>5. CASE \E k \in 1 .. SentEnd - net : RecvSome(k)  BY <1>4, <1>5 DEF RecvSome, Recv
<1>6. CASE RecvNothing \/ MoreToCome \/ CalculateLen \/ NeedMore \/ LoopEnd
  BY <1>4, <1>6 DEF RecvNothing, MoreToCome, CalculateLen, NeedMore, LoopEnd, stream
<1>7. CASE RecvEndOfStream \/ PacketFails
  BY <1>4, <1>7 DEF RecvEndOfStream, PacketFails, Close, stream
<1>8. CASE UNCHANGED vars  BY <1>4, <1>8 DEF vars
<1>9. CASE Next /\ StartsAfresh
  BY <1>1, <1>2, <1>3, <1>5, <1>6, <1>7, <1>9 DEF Next, Loop
<1> QED  BY <1>8, <1>9

(* RecvData is a channel of whole messages, in either role, for every       *)
(* length of header, buffer and frames and however the stream is cut up,    *)
(* unless it enlarges a buffer whose bytes wrap or begins a connection with *)
(* the length of another one's frame: these are all the ways there are for  *)
(* it to go wrong.                                                          *)
THEOREM CarefulIsChannel ==
  ASSUME HeaderFits
  PROVE  Spec /\ TakesCare => IsChannel
<1>1. Init => Channel!Init
  <2> SUFFICES ASSUME Init PROVE Channel!Init  OBVIOUS
  <2>1. start = <<0>> /\ delivered = <<>>  BY DEF Init
  <2>2. Len(start) = 1  BY <2>1
  <2>3. Sent = <<>>  BY <2>2 DEF Sent
  <2> QED  BY <2>1, <2>3 DEF Channel!Init, Sent
<1>2. /\ IInv
      /\ [Next]_vars
      /\ [GrowsStraight /\ StartsAfresh]_vars
      => [Channel!Next]_(Channel!vars)
  BY StepIsChannelStep
<1>3. Spec /\ TakesCare => []IInv  BY Inductive
<1> QED  BY <1>1, <1>2, <1>3, PTL DEF Spec, TakesCare, IsChannel, Channel!Spec

(* As long as RecvData takes care, its buffer is well formed, the callbacks *)
(* are in order, recv() is never asked for nothing and no complete frame    *)
(* waits in the buffer.                                                     *)
THEOREM CarefulIsSafe ==
  ASSUME HeaderFits
  PROVE  Spec /\ TakesCare => [](TypeOK /\ InOrder /\ AssertFreeSpace /\ NothingHeldBack)
<1>1. IInv => TypeOK
  BY DEF IInv, StreamOK, BufferHolds, LengthOK, PcOK, TypeOK
<1>2. IInv => InOrder  BY DEF IInv, DeliveredOK
<1>3. IInv => AssertFreeSpace  BY LeavesFreeSpace
<1>4. IInv => NothingHeldBack  BY LeavesNothingBack
<1> QED  BY <1>1, <1>2, <1>3, <1>4, Inductive, PTL

-----------------------------------------------------------------------------
(* When RecvData takes care: if only the first frame of a connection is too *)
(* long for the buffer, the bytes of it still lie at the buffer's start.    *)

FitsOK == \A k \in 2 .. Len(start) - 1 : start[k + 1] - start[k] <= InitialCapacity

StartsStraight ==
  delivered = <<>> /\ pc # "closed" => recv_buffer.cur_read = 0 /\ IsStraight(recv_buffer)

ClosedOK ==
  Role = "server" /\ pc = "closed" =>
    /\ ~is_packet_len_calculated
    /\ recv_buffer.cur_read = 0 /\ IsStraight(recv_buffer)

Fit == FitsOK /\ StartsStraight /\ ClosedOK

LEMMA FitGrowsStraight ==
  ASSUME IInv, Fit, CalculateLen
  PROVE  GrowsStraight
<1> DEFINE b == recv_buffer
           T == start[Current + 1] - start[Current]
<1>1. /\ pc = "loop" /\ b.cumulated_len >= HEADER_SIZE /\ b.cumulated_len > 0
  BY CurrentFrame DEF CalculateLen
<1>2. PICK n \in HeaderValue(Peeked(b, HEADER_SIZE)) : OnCalculateDataLen(n + HEADER_SIZE)
  BY DEF CalculateLen
<1>3. /\ Current \in 1 .. Len(start) /\ Current + 1 \in 1 .. Len(start)
      /\ Current < Len(start) /\ start[Current] \in Nat /\ start[Current + 1] \in Nat
      /\ HEADER_SIZE \in Nat /\ b.buffer_len \in Nat
  BY <1>1, FrameIsThere, CurrentFrame
<1>4. n + HEADER_SIZE = T
  <2>1. n = T - HEADER_SIZE  BY <1>1, HeaderIsCurrent
  <2> QED  BY <1>3, <2>1
<1>5. CASE T > b.buffer_len
  <2>1. ~(Current \in 2 .. Len(start) - 1)
    <3>1. Current \in 2 .. Len(start) - 1 => T <= InitialCapacity  BY DEF Fit, FitsOK
    <3>2. T \in Int /\ b.buffer_len >= InitialCapacity /\ InitialCapacity \in Nat
      BY <1>3, CapacityAssumption DEF IInv, BufferHolds
    <3> HIDE DEF T, b
    <3> QED  BY <1>3, <1>5, <3>1, <3>2
  <2>2. Len(delivered) = 0  BY <1>3, <2>1, CurrentFrame
  <2>3. delivered = <<>>  BY <2>2 DEF IInv, DeliveredOK
  <2> QED  BY <1>1, <2>3 DEF Fit, StartsStraight, GrowsStraight
<1>6. CASE ~(T > b.buffer_len)
  <2>1. recv_buffer' = b  BY <1>2, <1>4, <1>6 DEF OnCalculateDataLen
  <2> QED  BY <2>1 DEF GrowsStraight
<1> QED  BY <1>5, <1>6

LEMMA FitStep ==
  ASSUME IInv, Fit, FramesFit, [Next]_vars, [StartsAfresh]_vars
  PROVE  Fit' /\ [GrowsStraight /\ StartsAfresh]_vars
<1>1. [GrowsStraight /\ StartsAfresh]_vars
  BY FitGrowsStraight DEF GrowsStraight
<1> DEFINE b == recv_buffer
           c == recv_buffer'
<1>2. BufferOK(b)  BY CurrentFrame
<1>3. ASSUME start' = start
      PROVE  FitsOK'
  BY <1>3 DEF Fit, FitsOK
<1>4. ASSUME NEW n \in Payload \cup FirstPayload, SendFrame(n)
      PROVE  Fit'
  <2>1. /\ start' = Append(start, SentEnd + HEADER_SIZE + n) /\ n \in Nat
        /\ n \in IF Len(start) = 1 THEN FirstPayload ELSE Payload
        /\ UNCHANGED <<recv_buffer, is_packet_len_calculated, pc, delivered>>
    BY <1>4, PayloadAssumption DEF SendFrame, calculate
  <2> DEFINE L == Len(start)
             e == SentEnd + HEADER_SIZE + n
  <2>2. /\ L \in Nat \ {0} /\ start \in Seq(Nat) /\ SentEnd \in Nat /\ HEADER_SIZE \in Nat
        /\ SentEnd = start[L]
    <3>1. L \in Nat /\ 1 <= L /\ SentEnd \in Nat /\ HEADER_SIZE \in Nat  BY CurrentFrame
    <3>2. start \in Seq(Nat)  BY DEF IInv, StreamOK
    <3>3. SentEnd = start[L]  BY DEF SentEnd
    <3> QED  BY <3>1, <3>2, <3>3
  <2>3. e \in Nat /\ e - SentEnd = HEADER_SIZE + n
    <3>1. SentEnd \in Nat /\ HEADER_SIZE \in Nat /\ n \in Nat  BY <2>1, <2>2
    <3> HIDE DEF L
    <3> QED  BY <3>1
  <2>4. \A k \in 2 .. L - 1 : start[k + 1] - start[k] <= InitialCapacity
    BY DEF Fit, FitsOK
  <2>5. n \in IF L = 1 THEN FirstPayload ELSE Payload  BY <2>1
  <2>6. start' = Append(start, e)  BY <2>1
  <2> HIDE DEF L, e
  <2>7. /\ Len(start') = L + 1 /\ start'[L + 1] = e
        /\ \A k \in 1 .. L : start'[k] = start[k]
    BY <2>2, <2>3, <2>6, AppendProperties DEF L
  <2>8. ASSUME NEW k \in 2 .. Len(start') - 1
        PROVE  start'[k + 1] - start'[k] <= InitialCapacity
    <3>1. CASE k < L
      <4>1. k \in 2 .. L - 1 /\ k \in 1 .. L /\ k + 1 \in 1 .. L  BY <2>2, <3>1
      <4> QED  BY <2>4, <2>7, <4>1
    <3>2. CASE k = L
      <4>1. n \in Payload  BY <2>2, <2>5, <3>2
      <4>2. HEADER_SIZE + n <= InitialCapacity  BY <4>1 DEF FramesFit
      <4>3. start'[k] = SentEnd /\ start'[k + 1] = e  BY <2>2, <2>7, <3>2
      <4> QED  BY <2>3, <4>2, <4>3
    <3> QED  BY <2>2, <2>7, <3>1, <3>2
  <2>9. FitsOK'  BY <2>8 DEF FitsOK
  <2> QED  BY <2>1, <2>9 DEF Fit, StartsStraight, ClosedOK, IsStraight
<1>5. ASSUME NEW k \in 1 .. SentEnd - net, RecvSome(k)
      PROVE  Fit'
  <2>1. /\ pc = "recv" /\ pc' = "loop" /\ c = DirectlyWritten(b, Bytes(net, k))
        /\ start' = start /\ delivered' = delivered
    BY <1>5 DEF RecvSome, Recv
  <2>2. ~IsFull(b)  BY <2>1, WaitingHasRoom DEF FramesFit
  <2>3. k \in Nat /\ Bytes(net, k) \in Seq(Nat)  BY CurrentFrame, BytesIsSeq
  <2>4. delivered = <<>> => IsStraight(c) /\ c.cur_read = 0
    <3>1. delivered = <<>> => IsStraight(b) /\ b.cur_read = 0
      BY <2>1 DEF Fit, StartsStraight
    <3> HIDE DEF b, c
    <3> QED  BY <1>2, <2>1, <2>2, <2>3, <3>1, DirectlyWrittenStraight
  <2> QED  BY <1>3, <2>1, <2>4 DEF Fit, StartsStraight, ClosedOK, IsStraight
<1>6. ASSUME RecvNothing
      PROVE  Fit'
  <2>1. /\ pc = "recv" /\ c = LinearAppendPtr(b)
        /\ UNCHANGED <<start, is_packet_len_calculated, pc, delivered>>
    BY <1>6 DEF RecvNothing, calculate, stream
  <2>2. ~IsFull(b)  BY <2>1, WaitingHasRoom DEF FramesFit
  <2>3. IsStraight(b) /\ b.cur_read = 0 => IsStraight(c) /\ c.cur_read = 0
    BY <1>2, <2>1, <2>2 DEF IsStraight, LinearAppendPtr, IsFull, BufferOK, Positions
  <2> QED  BY <1>3, <2>1, <2>3 DEF Fit, StartsStraight, ClosedOK, IsStraight
<1>7. ASSUME Close
      PROVE  Fit'
  <2>1. pc' = "closed" /\ start' = start  BY <1>7 DEF Close, stream
  <2>2. Role = "server" => c = ReSet(b) /\ is_packet_len_calculated' = FALSE
    BY <1>7 DEF Close
  <2>3. c = ReSet(b) => c.cur_read = 0 /\ IsStraight(c)
    BY <1>2 DEF ReSet, BufferOK, Members, IsStraight
  <2> QED  BY <1>3, <2>1, <2>2, <2>3 DEF Fit, StartsStraight, ClosedOK, IsStraight
<1>8. ASSUME CalculateLen
      PROVE  Fit'
  <2>1. /\ pc = "loop" /\ pc' = pc /\ start' = start /\ delivered' = delivered
    BY <1>8 DEF CalculateLen, stream
  <2>2. /\ c.cur_read = b.cur_read /\ c.cur_write = b.cur_write
        /\ c.cumulated_len = b.cumulated_len
    <3>1. PICK n : OnCalculateDataLen(n)  BY <1>8 DEF CalculateLen
    <3> QED
      BY <1>2, <3>1 DEF OnCalculateDataLen, IncreaseBufferAndCopyExisting, BufferOK, Members
  <2> QED  BY <1>3, <2>1, <2>2 DEF Fit, StartsStraight, ClosedOK, IsStraight
<1>9. ASSUME MoreToCome \/ NeedMore \/ LoopEnd \/ UNCHANGED vars
      PROVE  Fit'
  <2>1. start' = start /\ delivered' = delivered /\ recv_buffer' = recv_buffer
    BY <1>9 DEF MoreToCome, NeedMore, LoopEnd, vars, stream
  <2>2. /\ pc = "closed" <=> pc' = "closed"
        /\ is_packet_len_calculated' = is_packet_len_calculated
    BY <1>9 DEF MoreToCome, NeedMore, LoopEnd, vars, calculate
  <2> QED  BY <1>3, <2>1, <2>2 DEF Fit, StartsStraight, ClosedOK, IsStraight
<1>10. ASSUME DeliverPacket
       PROVE  Fit'
  <2>1. pc = "loop" /\ pc' = "loop" /\ start' = start
    BY <1>10 DEF DeliverPacket, GotComplete, stream
  <2>2. delivered' = Append(delivered, FramePayload(Current))  BY <1>10, DeliverPacketStep
  <2>3. delivered' # <<>>
    <3>1. delivered \in Seq(Seq(Nat)) /\ FramePayload(Current) \in Seq(Nat)
      BY <1>10, PacketIsFrame DEF IInv, DeliveredOK, DeliverPacket
    <3> QED  BY <2>2, <3>1, AppendProperties
  <2> QED  BY <1>3, <2>1, <2>3 DEF Fit, StartsStraight, ClosedOK
<1>11. ASSUME Reconnect
       PROVE  Fit'
  <2>1. /\ pc = "closed" /\ pc' = "recv" /\ start' = <<SentEnd>> /\ delivered' = <<>>
    BY <1>11 DEF Reconnect
  <2>2. c.cur_read = 0 /\ IsStraight(c)
    <3>1. CASE Role = "client" /\ c = ReSet(b)
      BY <1>2, <3>1 DEF ReSet, BufferOK, Members, IsStraight
    <3>2. CASE Role = "server" /\ c = b
      BY <2>1, <3>2 DEF Fit, ClosedOK
    <3>3. CASE c = NewBuffer(max_data_len_, FALSE)
      BY <3>3 DEF NewBuffer, IsStraight
    <3> QED  BY <1>11, <3>1, <3>2, <3>3, RoleAssumption
             DEF Reconnect, PopClientContextFromCache, ConnectToServer
  <2>3. FitsOK'
    <3>1. Len(start') = 1  BY <2>1
    <3> QED  BY <3>1 DEF FitsOK
  <2> QED  BY <2>1, <2>2, <2>3 DEF Fit, StartsStraight, ClosedOK, IsStraight
<1> QED
  BY <1>1, <1>4, <1>5, <1>6, <1>7, <1>8, <1>9, <1>10, <1>11
     DEF Next, Loop, RecvEndOfStream, PacketFails

(* If every frame but the first of a connection fits the buffer it is never *)
(* enlarged while its bytes wrap: for both roles nothing but a connection   *)
(* that starts with the last one's length can go wrong.                     *)
THEOREM FittingTakesCare ==
  ASSUME FramesFit
  PROVE  Spec /\ [][StartsAfresh]_vars => TakesCare
<1>1. Init => IInv /\ Fit
  <2> SUFFICES ASSUME Init PROVE Fit  BY InitStep
  <2>1. /\ start = <<0>> /\ pc = "recv" /\ recv_buffer.cur_read = 0
        /\ recv_buffer.cur_write = 0 /\ recv_buffer.cumulated_len = 0
    BY DEF Init, NewBuffer
  <2>2. Len(start) = 1  BY <2>1
  <2> QED  BY <2>1, <2>2 DEF Fit, FitsOK, StartsStraight, ClosedOK, IsStraight
<1>2. IInv /\ Fit /\ [Next]_vars /\ [StartsAfresh]_vars
        => IInv' /\ Fit' /\ [GrowsStraight /\ StartsAfresh]_vars
  BY FitStep, NextStep DEF FramesFit
<1> QED  BY <1>1, <1>2, PTL DEF Spec, TakesCare

(* A server forgets the half-read frame with its connection, so it takes    *)
(* care if its frames fit.                                                  *)
THEOREM ServerTakesCare ==
  ASSUME FramesFit, Role = "server"
  PROVE  Spec => TakesCare
<1> DEFINE J == IInv /\ Fit
<1>1. Init => J
  <2>1. ASSUME Init PROVE Fit
    <3>1. /\ start = <<0>> /\ pc = "recv" /\ recv_buffer.cur_read = 0
          /\ recv_buffer.cur_write = 0 /\ recv_buffer.cumulated_len = 0
      BY <2>1 DEF Init, NewBuffer
    <3>2. Len(start) = 1  BY <3>1
    <3> QED  BY <3>1, <3>2 DEF Fit, FitsOK, StartsStraight, ClosedOK, IsStraight
  <2> QED  BY <2>1, InitStep
<1>2. J => StartsAfresh  BY DEF Fit, ClosedOK, StartsAfresh, Reconnect
<1>3. J /\ [Next]_vars => J' /\ [GrowsStraight /\ StartsAfresh]_vars
  BY <1>2, FitStep, NextStep DEF FramesFit
<1> QED  BY <1>1, <1>3, PTL DEF Spec, TakesCare

-----------------------------------------------------------------------------
(* So a server whose frames fit the buffer (FramesFit: all but the first    *)
(* of a connection, which may be longer) needs no further assumption.  Of  *)
(* other frames nothing of the kind is true, see RecvDataGrow.cfg.          *)

(* In a server whose frames fit the receiver's variables have their types   *)
(* and its buffer stays well formed: positions in the block, the count of   *)
(* unread bytes between them.                                               *)
THEOREM TypeCorrect ==
  ASSUME FramesFit, Role = "server"
  PROVE  Spec => []TypeOK
<1>1. FramesFit => HeaderFits  BY DEF FramesFit
<1> QED  BY <1>1, CarefulIsSafe, ServerTakesCare, PTL

(* In a server whose frames fit RecvData hands the callback the payloads of *)
(* the frames sent, whole and in order, however recv() cuts the stream up.  *)
THEOREM DeliversInOrder ==
  ASSUME FramesFit, Role = "server"
  PROVE  Spec => []InOrder
<1>1. FramesFit => HeaderFits  BY DEF FramesFit
<1> QED  BY <1>1, CarefulIsSafe, ServerTakesCare, PTL

(* In a server whose frames fit RecvData's assertion that its buffer has    *)
(* linear space never fails.                                                *)
THEOREM NeverAsserts ==
  ASSUME FramesFit, Role = "server"
  PROVE  Spec => []AssertFreeSpace
<1>1. FramesFit => HeaderFits  BY DEF FramesFit
<1> QED  BY <1>1, CarefulIsSafe, ServerTakesCare, PTL

(* In a server whose frames fit RecvData does not go back to waiting with a *)
(* complete frame undelivered.                                              *)
THEOREM HoldsNothingBack ==
  ASSUME FramesFit, Role = "server"
  PROVE  Spec => []NothingHeldBack
<1>1. FramesFit => HeaderFits  BY DEF FramesFit
<1> QED  BY <1>1, CarefulIsSafe, ServerTakesCare, PTL

(* A server's RecvData is, for frames that fit and however the stream is    *)
(* cut up, a channel of whole messages.                                     *)
THEOREM ImplementsChannel ==
  ASSUME FramesFit, Role = "server"
  PROVE  Spec => IsChannel
<1>1. FramesFit => HeaderFits  BY DEF FramesFit
<1> QED  BY <1>1, CarefulIsChannel, ServerTakesCare

-----------------------------------------------------------------------------
(* The whole of a connection: NixSendProofs about the sending endpoint and  *)
(* this module about the receiving one, over the bytes they share.          *)

SP == INSTANCE NixSendProofs WITH
  Loop     <- SenderLoop,
  Roles    <- SenderRoles,
  role     <- sender_role,
  FrameLen <- {HEADER_SIZE + n : n \in Payload \cup FirstPayload},
  pc       <- sender_pc

\* What NixSend assumes of its constants.
SenderAssumptions ==
  /\ SenderLoop \notin User /\ NoThread \notin User \cup {SenderLoop}
  /\ SockCap \in Nat \ {0}
  /\ SenderRoles \subseteq {"server", "client"} /\ Chatty \in BOOLEAN

LEMMA FrameLengths == {HEADER_SIZE + n : n \in Payload \cup FirstPayload} \subseteq Nat \ {0}
BY HeaderSizeAssumption, PayloadAssumption

LEMMA SenderIsRight ==
  ASSUME SenderAssumptions
  PROVE  SP!Spec => [](SP!IInv /\ SP!WithinFrames /\ SP!NothingLost)
<1>1. SP!Spec => []SP!IInv  BY FrameLengths, SP!Inductive DEF SenderAssumptions
<1>2. SP!Spec => []SP!WithinFrames
  BY FrameLengths, SP!SendsNothingElse DEF SenderAssumptions
<1>3. SP!Spec => []SP!NothingLost
  BY FrameLengths, SP!LosesNothing DEF SenderAssumptions
<1> QED  BY <1>1, <1>2, <1>3, PTL

\* One lemma for each action: the two instances of NixSend have the same steps.
LEMMA SameInit == Sender!Init => SP!Init
BY DEF Sender!Init, SP!Init, Sender!Thread, SP!Thread, Sender!Nothing, SP!Nothing

LEMMA SameSendData ==
  ASSUME NEW t, NEW n
  PROVE  Sender!SendData(t, n) => SP!SendData(t, n)
BY DEF Sender!SendData, SP!SendData, Sender!Acquire, SP!Acquire, Sender!Home, SP!Home,
       Sender!SentEnd, SP!SentEnd, Sender!epoll, SP!epoll, Sender!peer, SP!peer

LEMMA SameInSendData ==
  ASSUME NEW t
  PROVE  Sender!InSendData(t) => SP!InSendData(t)
<1> USE DEF Sender!Release, SP!Release, Sender!Home, SP!Home, Sender!lock, SP!lock,
            Sender!epoll, SP!epoll, Sender!peer, SP!peer, Sender!pending, SP!pending,
            Sender!stream, SP!stream, Sender!SendWorks, SP!SendWorks,
            Sender!WouldBlock, SP!WouldBlock, Sender!Room, SP!Room,
            Sender!Nothing, SP!Nothing
<1>1. ASSUME NEW k
      PROVE  Sender!SendSome(t, k) => SP!SendSome(t, k)
  BY DEF Sender!SendSome, SP!SendSome, Sender!Takes, SP!Takes, Sender!Bytes, SP!Bytes
<1>2. Sender!SendWouldBlock(t) => SP!SendWouldBlock(t)
  BY DEF Sender!SendWouldBlock, SP!SendWouldBlock
<1>3. Sender!SendFails(t) => SP!SendFails(t)
  BY DEF Sender!SendFails, SP!SendFails
<1>4. Sender!ControlEpollOut(t) => SP!ControlEpollOut(t)
  BY DEF Sender!ControlEpollOut, SP!ControlEpollOut
<1>5. Sender!ControlEpollFails(t) => SP!ControlEpollFails(t)
  BY DEF Sender!ControlEpollFails, SP!ControlEpollFails
<1> QED  BY <1>1, <1>2, <1>3, <1>4, <1>5 DEF Sender!InSendData, SP!InSendData

LEMMA SameLoopStep == Sender!LoopStep => SP!LoopStep
<1> USE DEF Sender!Release, SP!Release, Sender!Acquire, SP!Acquire, Sender!lock, SP!lock,
            Sender!epoll, SP!epoll, Sender!peer, SP!peer, Sender!pending, SP!pending,
            Sender!stream, SP!stream, Sender!SendWorks, SP!SendWorks,
            Sender!WouldBlock, SP!WouldBlock, Sender!Room, SP!Room,
            Sender!LoopGoes, SP!LoopGoes, Sender!CloseSocket, SP!CloseSocket
<1>1. Sender!EpollWait => SP!EpollWait
  BY DEF Sender!EpollWait, SP!EpollWait, Sender!Events, SP!Events
<1>2. Sender!EpollWaitTimeout => SP!EpollWaitTimeout
  BY DEF Sender!EpollWaitTimeout, SP!EpollWaitTimeout, Sender!Events, SP!Events
<1>3. Sender!LoopClose => SP!LoopClose  BY DEF Sender!LoopClose, SP!LoopClose
<1>4. Sender!LoopRecv => SP!LoopRecv  BY DEF Sender!LoopRecv, SP!LoopRecv
<1>5. Sender!LoopRecvNothing => SP!LoopRecvNothing
  BY DEF Sender!LoopRecvNothing, SP!LoopRecvNothing
<1>6. Sender!CallbackReturns => SP!CallbackReturns
  BY DEF Sender!CallbackReturns, SP!CallbackReturns
<1>7. Sender!SendPendingData => SP!SendPendingData
  BY DEF Sender!SendPendingData, SP!SendPendingData
<1>8. Sender!PendingNothing => SP!PendingNothing
  BY DEF Sender!PendingNothing, SP!PendingNothing
<1>9. ASSUME NEW k
      PROVE  Sender!PendingSend(k) => SP!PendingSend(k)
  BY DEF Sender!PendingSend, SP!PendingSend, Sender!Takes, SP!Takes, Sender!Bytes, SP!Bytes
<1>10. Sender!PendingWouldBlock => SP!PendingWouldBlock
  BY DEF Sender!PendingWouldBlock, SP!PendingWouldBlock
<1>11. Sender!PendingFails => SP!PendingFails
  BY DEF Sender!PendingFails, SP!PendingFails
<1>12. Sender!PushClientContextToCache => SP!PushClientContextToCache
  BY DEF Sender!PushClientContextToCache, SP!PushClientContextToCache
<1> QED
  BY <1>1, <1>2, <1>3, <1>4, <1>5, <1>6, <1>7, <1>8, <1>9, <1>10, <1>11, <1>12
     DEF Sender!LoopStep, SP!LoopStep

LEMMA SamePeer ==
  /\ Sender!Drain => SP!Drain
  /\ Sender!PeerSends => SP!PeerSends
  /\ \A how \in {"ended", "reset"} : Sender!PeerEnds(how) => SP!PeerEnds(how)
<1> USE DEF Sender!lock, SP!lock, Sender!epoll, SP!epoll, Sender!pending, SP!pending,
            Sender!stream, SP!stream, Sender!peer, SP!peer
<1>1. Sender!Drain => SP!Drain  BY DEF Sender!Drain, SP!Drain
<1>2. Sender!PeerSends => SP!PeerSends  BY DEF Sender!PeerSends, SP!PeerSends
<1>3. ASSUME NEW how \in {"ended", "reset"}
      PROVE  Sender!PeerEnds(how) => SP!PeerEnds(how)
  BY DEF Sender!PeerEnds, SP!PeerEnds
<1> QED  BY <1>1, <1>2, <1>3

\* A step of the link is one of the sender's, or leaves all it has as it is.
LEMMA LinkStepOfSender ==
  ASSUME [LinkNext]_linkvars
  PROVE  [SP!Next]_(SP!vars)
<1>1. ASSUME NEW t \in Sender!Thread, NEW n \in Payload \cup FirstPayload, SendMessage(t, n)
      PROVE  SP!Next
  <2>1. SP!SendData(t, HEADER_SIZE + n)  BY <1>1, SameSendData DEF SendMessage
  <2>2. t \in SP!Thread  BY DEF Sender!Thread, SP!Thread
  <2> QED  BY <2>1, <2>2 DEF SP!Next
<1>2. CASE SenderGoesOn
  <2>1. SP!Thread = Sender!Thread  BY DEF Sender!Thread, SP!Thread
  <2> QED  BY <1>2, <2>1, SameInSendData, SameLoopStep, SamePeer DEF SenderGoesOn, SP!Next
<1>3. CASE UNCHANGED <<start, sender>>
  BY <1>3 DEF sender, SP!vars
<1>4. CASE \E k \in 1 .. Len(wire) - net : RecvSent(k)
  BY <1>3, <1>4 DEF RecvSent, Recv
<1>5. CASE ReceiverGoesOn
  <2>1. start' = start
    BY <1>5 DEF ReceiverGoesOn, RecvNothing, RecvEndOfStream, Close, Loop, MoreToCome,
                CalculateLen, NeedMore, DeliverPacket, PacketFails, LoopEnd, stream
  <2> QED  BY <1>3, <1>5, <2>1 DEF ReceiverGoesOn
<1>6. CASE UNCHANGED linkvars  BY <1>3, <1>6 DEF linkvars
<1> QED  BY <1>1, <1>2, <1>4, <1>5, <1>6 DEF LinkNext

SenderInv == SP!IInv /\ SP!WithinFrames /\ SP!NothingLost

\* NixSendProofs' theorems are about the sender of the link.
LEMMA LinkSender ==
  ASSUME SenderAssumptions
  PROVE  LinkSpec => []SenderInv
<1>1. LinkInit => SP!Init  BY SameInit DEF LinkInit
<1>2. [LinkNext]_linkvars => [SP!Next]_(SP!vars)  BY LinkStepOfSender
<1>3. LinkSpec => SP!Spec  BY <1>1, <1>2, PTL DEF LinkSpec, SP!Spec
<1> QED  BY <1>3, SenderIsRight, PTL DEF SenderInv

LEMMA StreamIs ==
  ASSUME SenderInv
  PROVE  /\ SentEnd \in Nat /\ Len(start) \in Nat \ {0}
         /\ wire \in Seq(Nat) /\ Len(wire) \in Nat /\ Len(wire) <= SentEnd
<1>1. start \in Seq(Nat) /\ start # <<>> /\ wire \in Seq(Nat)
  BY DEF SenderInv, SP!IInv, SP!TypeOK
<1>2. Len(start) \in 1 .. Len(start) /\ Len(start) \in Nat \ {0}  BY <1>1, EmptySeq
<1>3. SentEnd \in Nat  BY <1>1, <1>2, ElementOfSeq DEF SentEnd
<1>4. Len(wire) <= SentEnd  BY DEF SenderInv, SP!WithinFrames, SP!SentEnd, SentEnd
<1> QED  BY <1>1, <1>2, <1>3, <1>4

\* The k bytes of the wire behind the first n.
LEMMA OnTheWire ==
  ASSUME SenderInv, NEW n \in Nat, NEW k \in Nat, n + k <= Len(wire)
  PROVE  SubSeq(wire, n + 1, n + k) = Bytes(n, k)
<1> DEFINE a == n + 1
           b == n + k
           s == SubSeq(wire, a, b)
           t == Bytes(n, k)
<1>1. Len(wire) \in Nat  BY StreamIs
<1>2. \A i \in 1 .. Len(wire) : wire[i] = i - 1  BY DEF SenderInv, SP!IInv, SP!WireInOrder
<1>3. a \in Int /\ b \in Int  OBVIOUS
<1>4. \A i \in a .. b : wire[i] \in Nat  BY <1>2
<1> HIDE DEF a, b
<1>5. /\ s \in Seq(Nat)
      /\ Len(s) = (IF a <= b THEN b - a + 1 ELSE 0)
      /\ \A i \in 1 .. b - a + 1 : s[i] = wire[a + i - 1]
  BY <1>3, <1>4, SubSeqProperties
<1>6. t \in Seq(Nat) /\ Len(t) = k /\ \A i \in 1 .. k : t[i] = n + i - 1
  BY BytesIsSeq
<1> HIDE DEF s, t
<1>7. Len(s) = k  BY <1>5 DEF a, b
<1>8. ASSUME NEW i \in 1 .. k
      PROVE  s[i] = t[i]
  <2>1. i \in 1 .. b - a + 1 /\ a + i - 1 = n + i /\ n + i \in 1 .. Len(wire)
    BY <1>1 DEF a, b
  <2>2. s[i] = wire[n + i]  BY <1>5, <2>1
  <2>3. wire[n + i] = n + i - 1  BY <1>2, <2>1
  <2> QED  BY <1>6, <2>2, <2>3
<1>9. s = t  BY <1>5, <1>6, <1>7, <1>8, SeqEqual
<1> QED  BY <1>9 DEF s, t, a, b

-----------------------------------------------------------------------------
\* A step of the link is one of RecvData's, on the one connection there is.
OneConnection == net \in Nat /\ connections = 1

LEMMA LinkInitIs ==
  ASSUME LinkInit
  PROVE  Init /\ OneConnection
BY DEF LinkInit, Init, OneConnection

\* Only SendData begins a frame.
LEMMA SenderKeepsStart ==
  ASSUME SenderGoesOn
  PROVE  start' = start
<1>1. ASSUME NEW t, Sender!InSendData(t)
      PROVE  start' = start
  BY <1>1 DEF Sender!InSendData, Sender!SendSome, Sender!SendWouldBlock, Sender!SendFails,
              Sender!ControlEpollOut, Sender!ControlEpollFails, Sender!stream
<1>2. ASSUME Sender!LoopStep
      PROVE  start' = start
  BY <1>2 DEF Sender!LoopStep, Sender!EpollWait, Sender!EpollWaitTimeout, Sender!LoopClose,
              Sender!LoopRecv, Sender!LoopRecvNothing, Sender!CallbackReturns,
              Sender!SendPendingData, Sender!PendingNothing, Sender!PendingSend,
              Sender!PendingWouldBlock, Sender!PendingFails, Sender!CloseSocket, Sender!PushClientContextToCache, Sender!stream
<1>3. ASSUME \/ Sender!Drain \/ Sender!PeerSends
             \/ \E how \in {"ended", "reset"} : Sender!PeerEnds(how)
      PROVE  start' = start
  BY <1>3 DEF Sender!Drain, Sender!PeerSends, Sender!PeerEnds, Sender!stream
<1> QED  BY <1>1, <1>2, <1>3 DEF SenderGoesOn

LEMMA LinkStepOfReceiver ==
  ASSUME SenderInv, OneConnection, [LinkNext]_linkvars
  PROVE  [Next]_vars /\ [StartsAfresh]_vars /\ OneConnection'
<1>1. ASSUME NEW t \in Sender!Thread, NEW n \in Payload \cup FirstPayload, SendMessage(t, n)
      PROVE  SendFrame(n) /\ OneConnection'
  <2>1. start' = Append(start, SentEnd + (HEADER_SIZE + n)) /\ Len(start) <= MaxFrames
    BY <1>1 DEF SendMessage, Sender!SendData, Sender!SentEnd, SentEnd
  <2>2. SentEnd + (HEADER_SIZE + n) = SentEnd + HEADER_SIZE + n
    BY StreamIs, HeaderSizeAssumption, PayloadAssumption
  <2>3. UNCHANGED <<net, recv_buffer, calculate, max_data_len_, pc, delivered, connections>>
    BY <1>1 DEF SendMessage, receiver
  <2> QED  BY <1>1, <2>1, <2>2, <2>3 DEF SendMessage, SendFrame, OneConnection
<1>2. ASSUME SenderGoesOn \/ UNCHANGED linkvars
      PROVE  UNCHANGED vars /\ OneConnection'
  <2>1. start' = start /\ UNCHANGED receiver
    BY <1>2, SenderKeepsStart DEF SenderGoesOn, linkvars
  <2> QED  BY <2>1 DEF receiver, calculate, vars, OneConnection
<1>3. ASSUME NEW k \in 1 .. Len(wire) - net, RecvSent(k)
      PROVE  k \in 1 .. SentEnd - net /\ RecvSome(k) /\ OneConnection'
  <2>1. k \in Nat /\ net \in Nat /\ net + k <= Len(wire)  BY <1>3 DEF RecvSent, OneConnection
  <2>2. SubSeq(wire, net + 1, net + k) = Bytes(net, k)  BY <2>1, OnTheWire
  <2>3. k \in 1 .. SentEnd - net  BY <2>1, StreamIs
  <2>4. Recv(Bytes(net, k))  BY <1>3, <2>2 DEF RecvSent
  <2>5. Len(Bytes(net, k)) = k  BY <2>1, BytesIsSeq
  <2>6. net' = net + k /\ connections' = connections  BY <2>4, <2>5 DEF Recv
  <2> QED  BY <2>1, <2>3, <2>4, <2>6 DEF RecvSome, OneConnection
<1>4. ASSUME ReceiverGoesOn
      PROVE  Next /\ OneConnection'
  <2>1. UNCHANGED <<net, connections>>
    BY <1>4 DEF ReceiverGoesOn, RecvNothing, RecvEndOfStream, Close, Loop, MoreToCome,
                CalculateLen, NeedMore, DeliverPacket, PacketFails, LoopEnd, stream
  <2> QED  BY <1>4, <2>1 DEF ReceiverGoesOn, Next, OneConnection
<1>5. [Next]_vars /\ OneConnection'
  BY <1>1, <1>2, <1>3, <1>4 DEF LinkNext, Next
<1>6. ~Reconnect
  <2>1. connections = 1 /\ connections' = 1  BY <1>5 DEF OneConnection
  <2> QED  BY <2>1 DEF Reconnect
<1> QED  BY <1>5, <1>6 DEF StartsAfresh

(* The receiving end of a link between two endpoints behaves as RecvData's  *)
(* model says, although its peer there is SendFrame and the network is free *)
(* and here they are SendData, SendPendingData and their socket.            *)
THEOREM LinkIsRecvData ==
  ASSUME SenderAssumptions
  PROVE  LinkSpec => Spec /\ [][StartsAfresh]_vars
<1>1. LinkInit => Init /\ OneConnection  BY LinkInitIs
<1>2. SenderInv /\ OneConnection /\ [LinkNext]_linkvars
      => [Next]_vars /\ [StartsAfresh]_vars /\ OneConnection'
  BY LinkStepOfReceiver
<1> QED  BY <1>1, <1>2, LinkSender, PTL DEF LinkSpec, Spec

(* What the application gives to SendData at one end is what the callback   *)
(* gets at the other, message by message and in the order of the calls:     *)
(* whichever threads send, whatever the kernel takes of a send() and gives  *)
(* to a recv(), and whoever closes when, if the messages but a connection's *)
(* first fit the receiver's buffer.  Client or server at either end.        *)
THEOREM LinkIsChannel ==
  ASSUME SenderAssumptions, FramesFit
  PROVE  LinkSpec => IsChannel
<1>1. HeaderFits  BY DEF FramesFit
<1> QED  BY <1>1, LinkIsRecvData, FittingTakesCare, CarefulIsChannel, PTL

(* If the messages fit, recv() is never asked for nothing, and no complete  *)
(* message waits in the buffer, at the end of a link.                       *)
THEOREM LinkIsSafe ==
  ASSUME SenderAssumptions, FramesFit
  PROVE  LinkSpec => [](TypeOK /\ InOrder /\ AssertFreeSpace /\ NothingHeldBack)
<1>1. HeaderFits  BY DEF FramesFit
<1> QED  BY <1>1, LinkIsRecvData, FittingTakesCare, CarefulIsSafe, PTL

(* When neither endpoint nor the network has anything in hand, each message *)
(* given to SendData has come to the callback: none is stuck in a queue, a  *)
(* socket or a buffer (for messages that fit the receiver's buffer).        *)
THEOREM LinkLosesNothing ==
  ASSUME SenderAssumptions, FramesFit
  PROVE  LinkSpec => []QuietMeansDelivered
<1>1. HeaderFits  BY DEF FramesFit
<1>2. SenderInv /\ IInv => QuietMeansDelivered
  <2> SUFFICES ASSUME SenderInv, IInv,
                      Sender!SendWorks, pending_send_deque = <<>>, rest = Sender!Nothing,
                      pc = "recv", net = Len(wire)
               PROVE  Len(delivered) = Len(start) - 1
    BY DEF QuietMeansDelivered
  <2>1. SP!SendWorks /\ rest.n = 0 /\ Len(pending_send_deque) = 0
    BY DEF Sender!SendWorks, SP!SendWorks, Sender!Nothing
  <2>2. SentEnd = SP!EndOf(0) + 0
    BY <2>1 DEF SenderInv, SP!NothingLost, SP!SentEnd, SentEnd
  <2>3. SentEnd = net  BY <2>2, StreamIs DEF SP!EndOf
  <2>4. /\ Len(start) \in Nat \ {0} /\ SentEnd \in Nat
        /\ Len(delivered) \in Nat /\ Len(delivered) < Len(start)
    BY StreamIs DEF IInv, DeliveredOK, InOrder
  <2>5. CASE Len(start) = 1  BY <2>4, <2>5
  <2>6. CASE Len(start) > 1
    <3>1. Len(start) - 1 \in 1 .. Len(start) - 1  BY <2>4, <2>6
    <3>2. start[Len(start) - 1 + 1] <= net  BY <2>3, <2>4 DEF SentEnd
    <3>3. Len(start) - 1 <= Len(delivered)
      BY <3>1, <3>2, LeavesNothingBack DEF NothingHeldBack
    <3> QED  BY <2>4, <3>3
  <2> QED  BY <2>4, <2>5, <2>6
<1>3. LinkSpec => []IInv  BY <1>1, LinkIsRecvData, FittingTakesCare, Inductive, PTL
<1> QED  BY <1>2, <1>3, LinkSender, PTL


=============================================================================
