---------------------------- MODULE CumBufferSpec ----------------------------
(***************************************************************************)
(* One CumBuffer and every sequence of calls of its public methods.  The   *)
(* calls never overlap: each buffer belongs to one thread.                 *)
(*                                                                         *)
(* DirectWrite stands for what RecvData does with the buffer: it asks for  *)
(* linear space, receives into the block and reports the length.           *)
(***************************************************************************)
EXTENDS CumBuffer

CONSTANTS
  Byte,
  Chunk,          \* what the callers append or receive
  Length,         \* lengths the callers ask for
  NewLength,      \* lengths for Init, InitAutoGrowing and IncreaseBuffer...
  MaxLen          \* bound on an automatically grown buffer, for TLC

ASSUME JunkAssumption == Junk \notin Byte
ASSUME ChunkAssumption == Chunk \subseteq Seq(Byte) \ {<<>>}
ASSUME LengthAssumption == Length \subseteq Nat
ASSUME NewLengthAssumption == NewLength \subseteq Nat \ {0}

VARIABLES
  buf,            \* the object
  rslt,           \* the OP_RESULT of the last call
  data_out        \* what the last PeekData or GetData copied out

vars == <<buf, rslt, data_out>>

Init ==
  /\ \E n \in NewLength, infinite \in BOOLEAN : buf = NewBuffer(n, infinite)
  /\ rslt = OP_RSLT_OK
  /\ data_out = <<>>

Return(r) == rslt' = r /\ data_out' = <<>>

AppendData(d) ==
  /\ AppendGrows(buf, Len(d)) => 2 * buf.buffer_len <= MaxLen
  /\ Return(AppendResult(buf, Len(d)))
  /\ buf' = IF rslt' = OP_RSLT_OK THEN Appended(buf, d) ELSE buf

\* The scratch block cannot be allocated: the first thing each AUTO GROW does.
AppendAllocFails(d) ==
  /\ AppendGrows(buf, Len(d))
  /\ Return(OP_RSLT_ALLOC_FAILED)
  /\ UNCHANGED buf

PeekData(n) ==
  /\ rslt' = ReadResult(buf, n)
  /\ data_out' = IF rslt' = OP_RSLT_OK THEN Peeked(buf, n) ELSE <<>>
  /\ UNCHANGED buf

ConsumeData(n) ==
  /\ Return(ReadResult(buf, n))
  /\ buf' = IF rslt' = OP_RSLT_OK THEN Consumed(buf, n) ELSE buf

GetData(n) ==
  /\ rslt' = ReadResult(buf, n)
  /\ data_out' = IF rslt' = OP_RSLT_OK THEN Peeked(buf, n) ELSE <<>>
  /\ buf' = IF rslt' = OP_RSLT_OK THEN Consumed(buf, n) ELSE buf

\* Its callers must see to it that there is room at all: in a full buffer whose
\* positions meet inside the block GetLinearFreeSpace counts unread bytes.
DirectWrite(d) ==
  /\ ~IsFull(buf)
  /\ Len(d) <= GetLinearFreeSpace(buf)
  /\ buf' = DirectlyWritten(buf, d)
  /\ Return(OP_RSLT_OK)

\* recv() brought nothing: only GetLinearAppendPtr has run.
DirectWriteNothing ==
  /\ buf' = LinearAppendPtr(buf)
  /\ UNCHANGED <<rslt, data_out>>

\* Its callers must see to it that the unread bytes lie straight.
IncreaseBuffer(n) ==
  /\ buf.buffer_len < n
  /\ IsStraight(buf)
  /\ buf' = IncreaseBufferAndCopyExisting(buf, n)
  /\ Return(OP_RSLT_OK)

Clear ==
  /\ buf' = ReSet(buf)
  /\ Return(OP_RSLT_OK)

Next ==
  \/ \E d \in Chunk : AppendData(d) \/ AppendAllocFails(d) \/ DirectWrite(d)
  \/ \E n \in Length : PeekData(n) \/ ConsumeData(n) \/ GetData(n)
  \/ \E n \in NewLength : IncreaseBuffer(n)
  \/ DirectWriteNothing
  \/ Clear

Spec == Init /\ [][Next]_vars

-----------------------------------------------------------------------------
(* Positions and length agree with each other and stay inside the block    *)
(* (members of CumBuffer, asock_buffer.hpp:563-569): every method relies   *)
(* on it when it computes where to copy.                                   *)
TypeOK ==
  /\ BufferOK(buf)
  /\ rslt \in OP_RESULT
  /\ \A i \in DOMAIN data_out : data_out[i] \in Byte

(* No byte that nobody wrote is among the unread ones, wherever AUTO GROW, *)
(* split writes and GetLinearAppendPtr have moved them.                    *)
NoJunk == \A i \in 1 .. buf.cumulated_len : Content(buf)[i] \in Byte

(* The ring, through every split, wrap and growth, is a queue of bytes.    *)
Fifo == INSTANCE ByteFifo WITH
          fifo     <- Content(buf),
          capacity <- buf.buffer_len,
          growing  <- buf.is_infinite_buffer,
          out      <- data_out

IsFifo == Fifo!Spec
=============================================================================
