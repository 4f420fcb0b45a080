--------------------------- MODULE CumBufferProofs ---------------------------
(***************************************************************************)
(* CumBuffer, with buffers of every length and callers that append every   *)
(* chunk: it never leaves its block, never hands out a byte that nobody    *)
(* wrote, and is the queue of ByteFifo.                                    *)
(***************************************************************************)
EXTENDS CumBufferSpec, CumBufferLemmas

\* Both invariants together: what a reader gets is a byte because what is
\* unread are bytes.
IInv == TypeOK /\ NoJunk

LEMMA ContentIsBytes ==
  ASSUME BufferOK(buf), NoJunk
  PROVE  Content(buf) \in Seq(Byte) /\ Len(Content(buf)) = buf.cumulated_len
<1>1. ASSUME NEW i \in 0 .. buf.cumulated_len - 1
      PROVE  buf.buffer_ptr[Cell(buf, i)] \in Byte
  <2>1. i + 1 \in 1 .. buf.cumulated_len /\ (i + 1) - 1 = i
    BY DEF BufferOK, Positions
  <2> QED  BY <2>1 DEF NoJunk, Content
<1> QED  BY <1>1, ContentIsSeq

LEMMA BytesAreNoJunk ==
  ASSUME NEW c, BufferOK(c), Content(c) \in Seq(Byte)
  PROVE  \A i \in 1 .. c.cumulated_len : Content(c)[i] \in Byte
<1>1. DOMAIN Content(c) = 1 .. c.cumulated_len  BY DEF Content
<1>2. c.cumulated_len \in Nat  BY DEF BufferOK, Positions
<1>3. Len(Content(c)) = c.cumulated_len  BY <1>1, <1>2, LenProperties
<1> QED  BY <1>3, ElementOfSeq

(* The steps that append d, whichever way they find room.                   *)
LEMMA ExtendsStep ==
  ASSUME IInv, NEW d \in Chunk, NEW c, BufferOK(c), Extends(buf, c, d)
  PROVE  /\ Content(c) = Content(buf) \o d
         /\ Content(c) \in Seq(Byte)
<1>1. d \in Seq(Byte)  BY ChunkAssumption
<1>2. Content(buf) \in Seq(Byte)  BY ContentIsBytes DEF IInv, TypeOK
<1>3. Content(c) = Content(buf) \o d
  BY <1>1, <1>2, ExtendsContent DEF IInv, TypeOK
<1> QED  BY <1>1, <1>2, <1>3, ConcatProperties

(* The steps that take n bytes away.                                        *)
LEMMA DropsStep ==
  ASSUME IInv, NEW n \in 0 .. buf.cumulated_len, NEW c, BufferOK(c), Drops(buf, c, n)
  PROVE  /\ Content(c) = SubSeq(Content(buf), n + 1, Len(Content(buf)))
         /\ Content(c) \in Seq(Byte)
<1>1. Content(buf) \in Seq(Byte) /\ Len(Content(buf)) = buf.cumulated_len
  BY ContentIsBytes DEF IInv, TypeOK
<1>2. Content(c) = SubSeq(Content(buf), n + 1, Len(Content(buf)))
  BY <1>1, DropsContent DEF IInv, TypeOK
<1>3. buf.cumulated_len \in Nat  BY DEF IInv, TypeOK, BufferOK, Positions
<1>4. \A i \in n + 1 .. buf.cumulated_len : Content(buf)[i] \in Byte
  BY <1>1, <1>3, ElementOfSeq
<1>5. SubSeq(Content(buf), n + 1, buf.cumulated_len) \in Seq(Byte)
  BY <1>3, <1>4, SubSeqProperties
<1> QED  BY <1>1, <1>2, <1>5

(* What PeekData and GetData copy out.                                      *)
LEMMA PeekedStep ==
  ASSUME IInv, NEW n \in 0 .. buf.cumulated_len
  PROVE  /\ Peeked(buf, n) = SubSeq(Content(buf), 1, n)
         /\ \A i \in DOMAIN Peeked(buf, n) : Peeked(buf, n)[i] \in Byte
<1>0. buf.cumulated_len \in Nat /\ BufferOK(buf)
  BY DEF IInv, TypeOK, BufferOK, Positions
<1>1. Content(buf) \in Seq(Byte) /\ Len(Content(buf)) = buf.cumulated_len
  BY ContentIsBytes DEF IInv, TypeOK
<1>2. Peeked(buf, n) = [i \in 1 .. n |-> Content(buf)[i]]  BY <1>0, PeekedIsPrefix
<1>3. \A i \in 1 .. n : Content(buf)[i] \in Byte  BY <1>0, <1>1, ElementOfSeq
<1>4. SubSeq(Content(buf), 1, n) = [i \in 1 .. n |-> Content(buf)[i]]
  <2>1. /\ SubSeq(Content(buf), 1, n) \in Seq(Byte)
        /\ Len(SubSeq(Content(buf), 1, n)) = IF 1 <= n THEN n - 1 + 1 ELSE 0
        /\ \A i \in 1 .. n - 1 + 1 : SubSeq(Content(buf), 1, n)[i] = Content(buf)[1 + i - 1]
    BY <1>0, <1>3, SubSeqProperties
  <2>2. n \in Nat /\ Len(SubSeq(Content(buf), 1, n)) = n  BY <1>0, <2>1
  <2>3. \A i \in 1 .. n : SubSeq(Content(buf), 1, n)[i] = Content(buf)[i]
    BY <2>1, <2>2
  <2>4. SubSeq(Content(buf), 1, n) \in [1 .. n -> Byte]  BY <2>1, <2>2, LenProperties
  <2> QED  BY <2>3, <2>4
<1> QED  BY <1>2, <1>3, <1>4

-----------------------------------------------------------------------------
(* Each call keeps the invariant and does to the queue what ByteFifo says.  *)

LEMMA TypeOKStep ==
  ASSUME BufferOK(buf)', Content(buf)' \in Seq(Byte), rslt' \in OP_RESULT,
         \A i \in DOMAIN data_out' : data_out'[i] \in Byte
  PROVE  IInv'
<1>1. \A i \in 1 .. buf'.cumulated_len : Content(buf')[i] \in Byte
  BY BytesAreNoJunk
<1> QED  BY <1>1 DEF IInv, TypeOK, NoJunk

LEMMA Unchanged ==
  ASSUME IInv, UNCHANGED buf
  PROVE  BufferOK(buf)' /\ Content(buf)' \in Seq(Byte) /\ Content(buf)' = Content(buf)
BY ContentIsBytes DEF IInv, TypeOK

LEMMA InitStep ==
  ASSUME Init
  PROVE  IInv /\ Fifo!Init
<1>1. PICK n \in NewLength, infinite \in BOOLEAN : buf = NewBuffer(n, infinite)
  BY DEF Init
<1>2. n \in Nat \ {0}  BY NewLengthAssumption
<1>3. /\ BufferOK(buf) /\ Content(buf) = <<>> /\ buf.cumulated_len = 0
      /\ buf.buffer_len = n /\ buf.is_infinite_buffer = infinite
  BY <1>1, <1>2, NewBufferIsEmpty
<1>4. rslt = "OK" /\ data_out = <<>>  BY DEF Init, OP_RSLT_OK
<1>5. IInv  BY <1>3, <1>4 DEF IInv, TypeOK, NoJunk, OP_RESULT, OP_RSLT_OK
<1>6. Fifo!Init  BY <1>3, <1>4 DEF Fifo!Init
<1> QED  BY <1>5, <1>6

LEMMA AppendDataStep ==
  ASSUME IInv, NEW d \in Chunk, AppendData(d)
  PROVE  IInv' /\ Fifo!AppendData(d)
<1> USE DEF Fifo!AppendData, Fifo!Room, Fifo!Return, Fifo!Refuse
<1> DEFINE n == Len(d)
           L == buf.buffer_len
<1>0. /\ BufferOK(buf) /\ L \in Nat /\ d \in Seq(Byte) /\ n \in Nat \ {0}
      /\ buf.cumulated_len \in Nat /\ buf.is_infinite_buffer \in BOOLEAN
      /\ Len(Content(buf)) = buf.cumulated_len
  <2>1. d \in Seq(Byte) /\ d # <<>>  BY ChunkAssumption
  <2>2. n \in Nat \ {0}  BY <2>1, EmptySeq
  <2> QED  BY <2>1, <2>2, ContentIsBytes DEF IInv, TypeOK, BufferOK, Positions
<1>1. rslt' = AppendResult(buf, n) /\ data_out' = <<>>
  BY DEF AppendData, Return
<1>2. CASE L < n
  <2>1. rslt' = "INVALID_LEN"  BY <1>0, <1>1, <1>2 DEF AppendResult, OP_RSLT_INVALID_LEN
  <2>2. UNCHANGED buf  BY <2>1 DEF AppendData, OP_RSLT_OK
  <2>3. Fifo!AppendData(d)  BY <1>1, <1>2, <2>1, <2>2, Unchanged
  <2> QED  BY <1>1, <2>1, <2>2, <2>3, Unchanged, TypeOKStep
           DEF OP_RESULT, OP_RSLT_INVALID_LEN
<1>3. CASE n <= L /\ NoRoom(buf, n) /\ ~buf.is_infinite_buffer
  <2>1. rslt' = "BUFFER_FULL"
    BY <1>0, <1>1, <1>3 DEF AppendResult, OP_RSLT_BUFFER_FULL
  <2>2. UNCHANGED buf  BY <2>1 DEF AppendData, OP_RSLT_OK
  <2>3. L - buf.cumulated_len < n  BY <1>0, <1>3, RoomIsFreeSpace
  <2>4. Fifo!AppendData(d)  BY <1>0, <1>1, <1>3, <2>1, <2>2, <2>3, Unchanged
  <2> QED  BY <1>1, <2>1, <2>2, <2>4, Unchanged, TypeOKStep
           DEF OP_RESULT, OP_RSLT_BUFFER_FULL
<1>4. CASE n <= L /\ ~(NoRoom(buf, n) /\ ~buf.is_infinite_buffer)
  <2>1. AppendResult(buf, n) = OP_RSLT_OK  BY <1>0, <1>4 DEF AppendResult
  <2>2. rslt' = "OK" /\ buf' = Appended(buf, d)
    BY <1>1, <2>1 DEF AppendData, OP_RSLT_OK
  <2>3. /\ BufferOK(buf') /\ Extends(buf, buf', d) /\ SameKind(buf, buf')
        /\ buf'.buffer_len = IF NoRoom(buf, n) THEN 2 * L ELSE L
    BY <1>0, <2>1, <2>2, AppendedExtends
  <2>4. /\ Content(buf') = Content(buf) \o d
        /\ Content(buf') \in Seq(Byte)
    BY <2>3, ExtendsStep
  <2>5. NoRoom(buf, n) <=> L - buf.cumulated_len < n  BY <1>0, <1>4, RoomIsFreeSpace
  <2>6. CASE NoRoom(buf, n)
    BY <1>0, <1>1, <1>4, <2>2, <2>3, <2>4, <2>5, <2>6, TypeOKStep
       DEF SameKind, OP_RESULT, OP_RSLT_OK
  <2>7. CASE ~NoRoom(buf, n)
    <3>1. n <= L - buf.cumulated_len  BY <1>0, <2>5, <2>7
    <3> QED  BY <1>0, <1>1, <2>2, <2>3, <2>4, <2>7, <3>1, TypeOKStep
                DEF SameKind, OP_RESULT, OP_RSLT_OK
  <2> QED  BY <2>6, <2>7
<1> QED  BY <1>0, <1>2, <1>3, <1>4

LEMMA AppendAllocFailsStep ==
  ASSUME IInv, NEW d \in Chunk, AppendAllocFails(d)
  PROVE  IInv' /\ Fifo!AppendData(d)
<1> USE DEF Fifo!AppendData, Fifo!Room, Fifo!Return, Fifo!Refuse
<1>0. /\ BufferOK(buf) /\ Len(d) \in Nat \ {0}
      /\ Len(Content(buf)) = buf.cumulated_len
  <2>1. d \in Seq(Byte) /\ d # <<>>  BY ChunkAssumption
  <2>2. Len(d) \in Nat \ {0}  BY <2>1, EmptySeq
  <2> QED  BY <2>2, ContentIsBytes DEF IInv, TypeOK
<1>1. /\ rslt' = "ALLOC_FAILED" /\ data_out' = <<>> /\ UNCHANGED buf
      /\ Len(d) <= buf.buffer_len /\ NoRoom(buf, Len(d)) /\ buf.is_infinite_buffer
  BY DEF AppendAllocFails, AppendGrows, Return, OP_RSLT_ALLOC_FAILED
<1>2. buf.buffer_len - buf.cumulated_len < Len(d)  BY <1>0, <1>1, RoomIsFreeSpace
<1>3. Fifo!AppendData(d)  BY <1>0, <1>1, <1>2, Unchanged
<1>4. rslt' \in OP_RESULT  BY <1>1 DEF OP_RESULT, OP_RSLT_ALLOC_FAILED
<1>5. \A i \in DOMAIN data_out' : data_out'[i] \in Byte  BY <1>1
<1> HIDE DEF Fifo!AppendData
<1> QED  BY <1>1, <1>3, <1>4, <1>5, Unchanged, TypeOKStep

LEMMA DirectWriteStep ==
  ASSUME IInv, NEW d \in Chunk, DirectWrite(d)
  PROVE  IInv' /\ Fifo!DirectWrite(d)
<1>0. BufferOK(buf) /\ Len(Content(buf)) = buf.cumulated_len /\ d \in Seq(Byte)
  BY ContentIsBytes, ChunkAssumption DEF IInv, TypeOK
<1>1. /\ ~IsFull(buf) /\ Len(d) <= GetLinearFreeSpace(buf)
      /\ buf' = DirectlyWritten(buf, d)
      /\ rslt' = "OK" /\ data_out' = <<>>
  BY DEF DirectWrite, Return, OP_RSLT_OK
<1>2. /\ BufferOK(buf') /\ Extends(buf, buf', d) /\ SameKind(buf, buf')
      /\ buf'.buffer_len = buf.buffer_len
  BY <1>0, <1>1, DirectlyWrittenExtends
<1>3. /\ Content(buf') = Content(buf) \o d
      /\ Content(buf') \in Seq(Byte)
  BY <1>2, ExtendsStep
<1>4. Len(d) <= buf.buffer_len - buf.cumulated_len
  <2>1. Len(d) \in Nat /\ buf.buffer_len \in Nat /\ buf.cumulated_len \in Nat
    BY <1>0 DEF BufferOK, Positions
  <2>2. GetLinearFreeSpace(buf) \in 1 .. buf.buffer_len - buf.cumulated_len
    BY <1>0, <1>1, LinearFreeSpaceIsFree
  <2> QED  BY <1>1, <2>1, <2>2
<1>5. Fifo!DirectWrite(d)
  BY <1>0, <1>1, <1>2, <1>3, <1>4 DEF Fifo!DirectWrite, Fifo!Room, Fifo!Return, SameKind
<1> QED  BY <1>1, <1>2, <1>3, <1>5, TypeOKStep DEF OP_RESULT, OP_RSLT_OK

LEMMA ReadStep ==
  ASSUME IInv, NEW n \in Length
  PROVE  \/ ReadResult(buf, n) = "NO_DATA" /\ Content(buf) = <<>>
         \/ ReadResult(buf, n) = "INVALID_LEN" /\ Content(buf) # <<>> /\ Len(Content(buf)) < n
         \/ /\ ReadResult(buf, n) = "OK" /\ Content(buf) # <<>> /\ n <= Len(Content(buf))
            /\ n \in 0 .. buf.cumulated_len /\ buf.cumulated_len # 0
<1>0. /\ BufferOK(buf) /\ Content(buf) \in Seq(Byte)
      /\ Len(Content(buf)) = buf.cumulated_len /\ n \in Nat
      /\ buf.cumulated_len \in Nat
  BY ContentIsBytes, LengthAssumption DEF IInv, TypeOK, BufferOK, Positions
<1>1. ReadResult(buf, n) = ValidateBuffer(buf, n)  BY <1>0, ReadResultIs
<1>2. Content(buf) = <<>> <=> buf.cumulated_len = 0  BY <1>0, EmptySeq
<1> QED  BY <1>0, <1>1, <1>2
         DEF ValidateBuffer, OP_RSLT_OK, OP_RSLT_NO_DATA, OP_RSLT_INVALID_LEN

LEMMA PeekDataStep ==
  ASSUME IInv, NEW n \in Length, PeekData(n)
  PROVE  IInv' /\ Fifo!PeekData(n)
<1> USE DEF Fifo!PeekData, Fifo!CannotRead, Fifo!CanRead, Fifo!Return, Fifo!Refuse
<1>1. /\ rslt' = ReadResult(buf, n) /\ UNCHANGED buf
      /\ data_out' = IF rslt' = "OK" THEN Peeked(buf, n) ELSE <<>>
  BY DEF PeekData, OP_RSLT_OK
<1>2. CASE rslt' # "OK"
  BY <1>1, <1>2, ReadStep, Unchanged, TypeOKStep
     DEF OP_RESULT, OP_RSLT_NO_DATA, OP_RSLT_INVALID_LEN
<1>3. CASE rslt' = "OK"
  <2>1. /\ Content(buf) # <<>> /\ n <= Len(Content(buf)) /\ n \in 0 .. buf.cumulated_len
    BY <1>1, <1>3, ReadStep
  <2>2. /\ data_out' = SubSeq(Content(buf), 1, n)
        /\ \A i \in DOMAIN data_out' : data_out'[i] \in Byte
    BY <1>1, <1>3, <2>1, PeekedStep
  <2> QED  BY <1>1, <1>3, <2>1, <2>2, Unchanged, TypeOKStep DEF OP_RESULT, OP_RSLT_OK
<1> QED  BY <1>2, <1>3

LEMMA ConsumeDataStep ==
  ASSUME IInv, NEW n \in Length, ConsumeData(n)
  PROVE  IInv' /\ Fifo!ConsumeData(n)
<1> USE DEF Fifo!ConsumeData, Fifo!CannotRead, Fifo!CanRead, Fifo!Return, Fifo!Refuse
<1>1. /\ rslt' = ReadResult(buf, n) /\ data_out' = <<>>
      /\ buf' = IF rslt' = "OK" THEN Consumed(buf, n) ELSE buf
  BY DEF ConsumeData, Return, OP_RSLT_OK
<1>2. CASE rslt' # "OK"
  BY <1>1, <1>2, ReadStep, Unchanged, TypeOKStep
     DEF OP_RESULT, OP_RSLT_NO_DATA, OP_RSLT_INVALID_LEN
<1>3. CASE rslt' = "OK"
  <2>1. /\ Content(buf) # <<>> /\ n <= Len(Content(buf))
        /\ n \in 0 .. buf.cumulated_len /\ buf.cumulated_len # 0
    BY <1>1, <1>3, ReadStep
  <2>2. /\ BufferOK(buf') /\ Drops(buf, buf', n) /\ SameKind(buf, buf')
        /\ buf'.buffer_len = buf.buffer_len
    BY <1>1, <1>3, <2>1, ConsumedDrops DEF IInv, TypeOK
  <2>3. /\ Content(buf') = SubSeq(Content(buf), n + 1, Len(Content(buf)))
        /\ Content(buf') \in Seq(Byte)
    BY <2>1, <2>2, DropsStep
  <2> QED  BY <1>1, <1>3, <2>1, <2>2, <2>3, TypeOKStep DEF SameKind, OP_RESULT, OP_RSLT_OK
<1> QED  BY <1>2, <1>3

LEMMA GetDataStep ==
  ASSUME IInv, NEW n \in Length, GetData(n)
  PROVE  IInv' /\ Fifo!GetData(n)
<1> USE DEF Fifo!GetData, Fifo!CannotRead, Fifo!CanRead, Fifo!Return, Fifo!Refuse
<1>1. /\ rslt' = ReadResult(buf, n)
      /\ data_out' = IF rslt' = "OK" THEN Peeked(buf, n) ELSE <<>>
      /\ buf' = IF rslt' = "OK" THEN Consumed(buf, n) ELSE buf
  BY DEF GetData, OP_RSLT_OK
<1>2. CASE rslt' # "OK"
  BY <1>1, <1>2, ReadStep, Unchanged, TypeOKStep
     DEF OP_RESULT, OP_RSLT_NO_DATA, OP_RSLT_INVALID_LEN
<1>3. CASE rslt' = "OK"
  <2>1. /\ Content(buf) # <<>> /\ n <= Len(Content(buf))
        /\ n \in 0 .. buf.cumulated_len /\ buf.cumulated_len # 0
    BY <1>1, <1>3, ReadStep
  <2>2. /\ BufferOK(buf') /\ Drops(buf, buf', n) /\ SameKind(buf, buf')
        /\ buf'.buffer_len = buf.buffer_len
    BY <1>1, <1>3, <2>1, ConsumedDrops DEF IInv, TypeOK
  <2>3. /\ Content(buf') = SubSeq(Content(buf), n + 1, Len(Content(buf)))
        /\ Content(buf') \in Seq(Byte)
    BY <2>1, <2>2, DropsStep
  <2>4. /\ data_out' = SubSeq(Content(buf), 1, n)
        /\ \A i \in DOMAIN data_out' : data_out'[i] \in Byte
    BY <1>1, <1>3, <2>1, PeekedStep
  <2> QED  BY <1>1, <1>3, <2>1, <2>2, <2>3, <2>4, TypeOKStep
              DEF SameKind, OP_RESULT, OP_RSLT_OK
<1> QED  BY <1>2, <1>3

LEMMA IncreaseBufferStep ==
  ASSUME IInv, NEW n \in NewLength, IncreaseBuffer(n)
  PROVE  IInv' /\ Fifo!Grow(n)
<1>1. /\ buf.buffer_len < n /\ IsStraight(buf) /\ n \in Nat
      /\ buf' = IncreaseBufferAndCopyExisting(buf, n)
      /\ rslt' = "OK" /\ data_out' = <<>>
  BY NewLengthAssumption DEF IncreaseBuffer, Return, OP_RSLT_OK
<1>2. /\ BufferOK(buf') /\ Content(buf') = Content(buf) /\ SameKind(buf, buf')
      /\ buf'.buffer_len = n
  BY <1>1, IncreasedKeeps DEF IInv, TypeOK
<1>3. Content(buf') \in Seq(Byte)  BY <1>2, ContentIsBytes DEF IInv, TypeOK
<1> QED  BY <1>1, <1>2, <1>3, TypeOKStep
            DEF Fifo!Grow, Fifo!Return, SameKind, OP_RESULT, OP_RSLT_OK

LEMMA ClearStep ==
  ASSUME IInv, Clear
  PROVE  IInv' /\ Fifo!ReSet
<1>1. buf' = ReSet(buf) /\ rslt' = "OK" /\ data_out' = <<>>
  BY DEF Clear, Return, OP_RSLT_OK
<1>2. /\ BufferOK(buf') /\ Content(buf') = <<>> /\ buf'.buffer_len = buf.buffer_len
      /\ SameKind(buf, buf')
  BY <1>1, ReSetIsEmpty DEF IInv, TypeOK
<1> QED  BY <1>1, <1>2, TypeOKStep
            DEF Fifo!ReSet, Fifo!Return, SameKind, OP_RESULT, OP_RSLT_OK

LEMMA DirectWriteNothingStep ==
  ASSUME IInv, DirectWriteNothing
  PROVE  IInv' /\ UNCHANGED Fifo!vars
<1>1. buf' = LinearAppendPtr(buf) /\ UNCHANGED <<rslt, data_out>>
  BY DEF DirectWriteNothing
<1>2. /\ BufferOK(buf') /\ Content(buf') = Content(buf) /\ buf'.buffer_len = buf.buffer_len
      /\ SameKind(buf, buf')
  BY <1>1, LinearAppendPtrKeeps DEF IInv, TypeOK
<1>3. Content(buf') \in Seq(Byte)  BY <1>2, ContentIsBytes DEF IInv, TypeOK
<1> QED  BY <1>1, <1>2, <1>3, TypeOKStep DEF Fifo!vars, SameKind, IInv, TypeOK

LEMMA NextStep ==
  ASSUME IInv, [Next]_vars
  PROVE  IInv' /\ [Fifo!Next]_(Fifo!vars)
<1>1. ASSUME NEW d \in Chunk, AppendData(d)
      PROVE  IInv' /\ Fifo!Next
  BY <1>1, AppendDataStep DEF Fifo!Next
<1>2. ASSUME NEW d \in Chunk, AppendAllocFails(d)
      PROVE  IInv' /\ Fifo!Next
  BY <1>2, AppendAllocFailsStep DEF Fifo!Next
<1>3. ASSUME NEW d \in Chunk, DirectWrite(d)
      PROVE  IInv' /\ Fifo!Next
  BY <1>3, DirectWriteStep DEF Fifo!Next
<1>4. ASSUME NEW n \in Length, PeekData(n)
      PROVE  IInv' /\ Fifo!Next
  BY <1>4, PeekDataStep DEF Fifo!Next
<1>5. ASSUME NEW n \in Length, ConsumeData(n)
      PROVE  IInv' /\ Fifo!Next
  BY <1>5, ConsumeDataStep DEF Fifo!Next
<1>6. ASSUME NEW n \in Length, GetData(n)
      PROVE  IInv' /\ Fifo!Next
  BY <1>6, GetDataStep DEF Fifo!Next
<1>7. ASSUME NEW n \in NewLength, IncreaseBuffer(n)
      PROVE  IInv' /\ Fifo!Next
  BY <1>7, IncreaseBufferStep DEF Fifo!Next
<1>8. CASE Clear
  BY <1>8, ClearStep DEF Fifo!Next
<1>9. CASE DirectWriteNothing
  BY <1>9, DirectWriteNothingStep
<1>10. CASE UNCHANGED vars
  <2>1. UNCHANGED <<buf, rslt, data_out>>  BY <1>10 DEF vars
  <2>2. IInv'  BY <2>1, Unchanged, TypeOKStep DEF IInv, TypeOK
  <2> QED  BY <2>1, <2>2 DEF Fifo!vars
<1> QED  BY <1>1, <1>2, <1>3, <1>4, <1>5, <1>6, <1>7, <1>8, <1>9, <1>10 DEF Next

-----------------------------------------------------------------------------
(* The members agree with each other after every sequence of calls.         *)
THEOREM TypeCorrect == Spec => []TypeOK
<1>1. Init => IInv  BY InitStep
<1>2. IInv /\ [Next]_vars => IInv'  BY NextStep
<1>3. IInv => TypeOK  BY DEF IInv
<1> QED  BY <1>1, <1>2, <1>3, PTL DEF Spec

(* No unread byte is one that nobody wrote.                                 *)
THEOREM NeverJunk == Spec => []NoJunk
<1>1. Init => IInv  BY InitStep
<1>2. IInv /\ [Next]_vars => IInv'  BY NextStep
<1>3. IInv => NoJunk  BY DEF IInv
<1> QED  BY <1>1, <1>2, <1>3, PTL DEF Spec

(* CumBuffer implements a queue of bytes.                                   *)
THEOREM ImplementsFifo == Spec => IsFifo
<1>1. Init => IInv /\ Fifo!Init  BY InitStep
<1>2. IInv /\ [Next]_vars => IInv' /\ [Fifo!Next]_(Fifo!vars)  BY NextStep
<1> QED  BY <1>1, <1>2, PTL DEF Spec, IsFifo, Fifo!Spec
=============================================================================
