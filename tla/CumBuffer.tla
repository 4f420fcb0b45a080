------------------------------ MODULE CumBuffer ------------------------------
(***************************************************************************)
(* The class CumBuffer of asock_buffer.hpp: a ring of bytes with a read    *)
(* and a write position, used by asock to collect what recv() returns      *)
(* until a whole packet is there.                                          *)
(*                                                                         *)
(* A buffer is a record with the class's members, and a method is an       *)
(* operator on it: one operator for what the method returns and one for    *)
(* the buffer it leaves.  Bytes are opaque values; a byte that nobody      *)
(* wrote (fresh memory from new[], or the zeroes of memset) is Junk.       *)
(***************************************************************************)
EXTENDS Integers, Sequences

CONSTANT Junk

OP_RSLT_OK           == "OK"
OP_RSLT_NO_DATA      == "NO_DATA"
OP_RSLT_BUFFER_FULL  == "BUFFER_FULL"
OP_RSLT_ALLOC_FAILED == "ALLOC_FAILED"
OP_RSLT_INVALID_LEN  == "INVALID_LEN"

OP_RESULT == {OP_RSLT_OK, OP_RSLT_NO_DATA, OP_RSLT_BUFFER_FULL,
              OP_RSLT_ALLOC_FAILED, OP_RSLT_INVALID_LEN}

-----------------------------------------------------------------------------
(* Memory.                                                                 *)

\* memcpy(block + at, data + from, n)
Copy(block, at, data, from, n) ==
  [i \in DOMAIN block |->
     IF at <= i /\ i < at + n THEN data[from + i - at + 1] ELSE block[i]]

CopyTo(block, at, data) == Copy(block, at, data, 0, Len(data))

\* A fresh block of n bytes whose first old bytes are those of block.
Enlarged(block, old, n) ==
  [i \in 0 .. n-1 |-> IF i < old THEN block[i] ELSE Junk]

\* Init and InitAutoGrowing; the allocation succeeds.
NewBuffer(n, infinite) ==
  [buffer_ptr         |-> [i \in 0 .. n-1 |-> Junk],
   buffer_len         |-> n,
   cumulated_len      |-> 0,
   cur_read           |-> 0,
   cur_write          |-> 0,
   is_infinite_buffer |-> infinite]

ReSet(b) ==
  [b EXCEPT !.cumulated_len = 0, !.cur_read = 0, !.cur_write = 0]

-----------------------------------------------------------------------------
(* What the class promises about its members, and the bytes it holds.      *)

Members == {"buffer_ptr", "buffer_len", "cumulated_len",
            "cur_read", "cur_write", "is_infinite_buffer"}

\* A read and a write position in a block of len bytes, n of them unread.
Positions(len, r, w, n) ==
  /\ len \in Nat \ {0}
  /\ r \in 0 .. len /\ w \in 0 .. len /\ n \in 0 .. len
  /\ \/ r <= w /\ n = w - r
     \/ w <= r /\ n = len - (r - w)

BufferOK(b) ==
  /\ DOMAIN b = Members
  /\ DOMAIN b.buffer_ptr = 0 .. b.buffer_len - 1
  /\ b.is_infinite_buffer \in BOOLEAN
  /\ Positions(b.buffer_len, b.cur_read, b.cur_write, b.cumulated_len)

\* The unread bytes lie in one piece and the next one goes right behind them.
IsStraight(b) == b.cur_write = b.cur_read + b.cumulated_len

\* The cell of the i-th unread byte, counting from 0.
Cell(b, i) ==
  IF b.cur_read + i < b.buffer_len
  THEN b.cur_read + i
  ELSE b.cur_read + i - b.buffer_len

\* The unread bytes, oldest first.
Content(b) == [i \in 1 .. b.cumulated_len |-> b.buffer_ptr[Cell(b, i - 1)]]

-----------------------------------------------------------------------------
(* Append.                                                                 *)

\* The n bytes fit at cur_write_ in one piece.
FitsAhead(b, n) ==
  IF b.cur_write < b.cur_read
  THEN b.cur_read - b.cur_write >= n
  ELSE b.buffer_len >= b.cur_write + n

\* Mutant of FitsSplit: forgets that the second piece must end before cur_read_.
FitsSplitUnchecked(b, n) == b.cur_write >= b.cur_read /\ b.cur_write > 0

\* They fit in two pieces, behind cur_write_ and at the start of the block.
FitsSplit(b, n) ==
  /\ b.cur_write >= b.cur_read
  /\ b.cur_write > 0
  /\ n - (b.buffer_len - b.cur_write) <= b.cur_read

IsFull(b) == b.buffer_len = b.cumulated_len

\* No room as the block stands ("AUTO GROW" 1 to 4, or "buffer full").
NoRoom(b, n) == IsFull(b) \/ (~FitsAhead(b, n) /\ ~FitsSplit(b, n))

\* Append takes a larger block; may fail to get it.
AppendGrows(b, n) == n <= b.buffer_len /\ NoRoom(b, n) /\ b.is_infinite_buffer

AppendResult(b, n) ==
  CASE b.buffer_len < n -> OP_RSLT_INVALID_LEN
    [] n <= b.buffer_len /\ NoRoom(b, n) /\ ~b.is_infinite_buffer -> OP_RSLT_BUFFER_FULL
    [] OTHER -> OP_RSLT_OK

\* AUTO GROW 1 and 4: the unread bytes do not wrap and keep their place.
GrowInPlace(b, d) ==
  [b EXCEPT
     !.buffer_ptr    = CopyTo(Enlarged(@, b.buffer_len, 2 * b.buffer_len), b.cur_write, d),
     !.buffer_len    = 2 * @,
     !.cur_write     = @ + Len(d),
     !.cumulated_len = @ + Len(d)]

\* The block with its unread bytes moved to the front, through buffer_tmp.
Straightened(b) ==
  LET first_block_len == b.buffer_len - b.cur_read
  IN  [i \in 0 .. b.buffer_len - 1 |->
         IF i < first_block_len THEN b.buffer_ptr[b.cur_read + i]
         ELSE IF i < first_block_len + b.cur_write
              THEN b.buffer_ptr[i - first_block_len]
              ELSE Junk]

\* AUTO GROW 2 and 3: the unread bytes wrap; the larger block holds them straight.
GrowStraight(b, d) ==
  [b EXCEPT
     !.buffer_ptr    = CopyTo(Enlarged(Straightened(b), b.buffer_len, 2 * b.buffer_len),
                              b.cumulated_len, d),
     !.buffer_len    = 2 * @,
     !.cur_write     = b.buffer_len + Len(d) - (b.cur_read - b.cur_write),
     !.cur_read      = 0,
     !.cumulated_len = @ + Len(d)]

GrowsInPlace(b) ==
  IF IsFull(b) THEN b.cur_read = 0 /\ b.cur_write = b.buffer_len
               ELSE b.cur_write >= b.cur_read

\* memcpy at cur_write_, in one piece or in two.
AppendInPlace(b, d) ==
  LET first_block_len  == b.buffer_len - b.cur_write
      second_block_len == Len(d) - first_block_len
  IN  IF FitsAhead(b, Len(d))
      THEN [b EXCEPT !.buffer_ptr    = CopyTo(@, b.cur_write, d),
                     !.cur_write     = @ + Len(d),
                     !.cumulated_len = @ + Len(d)]
      ELSE [b EXCEPT !.buffer_ptr    =
                        Copy(Copy(@, b.cur_write, d, 0, first_block_len),
                             0, d, first_block_len, second_block_len),
                     !.cur_write     = second_block_len,
                     !.cumulated_len = @ + Len(d)]

\* The buffer after an Append that returns OP_RSLT_OK.
Appended(b, d) ==
  IF ~NoRoom(b, Len(d)) THEN AppendInPlace(b, d)
  ELSE IF GrowsInPlace(b) THEN GrowInPlace(b, d) ELSE GrowStraight(b, d)

-----------------------------------------------------------------------------
(* PeekData, ConsumeData and GetData share their conditions.               *)

ValidateBuffer(b, n) ==
  IF b.cumulated_len = 0 THEN OP_RSLT_NO_DATA
  ELSE IF b.cumulated_len < n THEN OP_RSLT_INVALID_LEN ELSE OP_RSLT_OK

\* The n bytes to read go past the end of the block.
ReadsSplit(b, n) == b.cur_write <= b.cur_read /\ b.buffer_len < b.cur_read + n

ReadResult(b, n) ==
  CASE ValidateBuffer(b, n) # OP_RSLT_OK -> ValidateBuffer(b, n)
    [] /\ ValidateBuffer(b, n) = OP_RSLT_OK
       /\ \/ b.cur_write > b.cur_read /\ b.cur_write < b.cur_read + n
          \/ /\ ReadsSplit(b, n)
             /\ ~(b.cur_write > 0 /\ b.cur_write >= n - (b.buffer_len - b.cur_read))
       -> OP_RSLT_INVALID_LEN
    [] OTHER -> OP_RSLT_OK

\* The bytes copied to data_out.
Peeked(b, n) ==
  [i \in 1 .. n |->
     IF ReadsSplit(b, n) /\ i > b.buffer_len - b.cur_read
     THEN b.buffer_ptr[i - 1 - (b.buffer_len - b.cur_read)]
     ELSE b.buffer_ptr[b.cur_read + i - 1]]

\* Mutant of Consumed: the read position does not wrap.
ConsumedStraight(b, n) ==
  [b EXCEPT !.cur_read = @ + n, !.cumulated_len = @ - n]

Consumed(b, n) ==
  [b EXCEPT !.cur_read = IF ReadsSplit(b, n) THEN n - (b.buffer_len - @) ELSE @ + n,
            !.cumulated_len = @ - n]

-----------------------------------------------------------------------------
(* Direct writes: the caller asks for linear space, writes into the block  *)
(* itself and then reports how much it wrote.                              *)

GetLinearFreeSpace(b) ==
  CASE b.cur_write = b.buffer_len -> b.buffer_len - b.cumulated_len
    [] b.cur_write # b.buffer_len /\ b.cur_read > b.cur_write -> b.cur_read - b.cur_write
    [] OTHER -> b.buffer_len - b.cur_write

\* GetLinearAppendPtr moves cur_write_ when it hands out the start of the block.
LinearAppendPtr(b) ==
  IF b.cur_write = b.buffer_len /\ ~IsFull(b) THEN [b EXCEPT !.cur_write = 0] ELSE b

IncreaseData(b, n) ==
  [b EXCEPT !.cur_write = @ + n, !.cumulated_len = @ + n]

\* GetLinearAppendPtr, the caller's write of d there, IncreaseData.
DirectlyWritten(b, d) ==
  LET p == LinearAppendPtr(b)
  IN  IncreaseData([p EXCEPT !.buffer_ptr = CopyTo(@, p.cur_write, d)], Len(d))

\* The old block is copied as it lies: positions and wrapping stay as they were.
IncreaseBufferAndCopyExisting(b, n) ==
  [b EXCEPT !.buffer_ptr = Enlarged(@, b.buffer_len, n), !.buffer_len = n]
=============================================================================
