------------------------------ MODULE ByteFifo -------------------------------
(***************************************************************************)
(* What a user of CumBuffer may rely on: a queue of bytes with a capacity. *)
(* Bytes come out in the order they went in, none lost, none twice; an     *)
(* operation that fails leaves the queue as it was; and a chunk is refused *)
(* only for the three reasons the class names: it is longer than the whole *)
(* buffer, there is no room and the buffer is of fixed length, or memory   *)
(* for a longer one cannot be had.                                         *)
(***************************************************************************)
EXTENDS Naturals, Sequences

CONSTANTS
  Chunk,        \* what a call may append
  Length,       \* lengths a call may ask for
  NewLength     \* lengths a buffer may start with or be grown to

VARIABLES
  fifo,         \* the bytes in the queue, oldest first
  capacity,     \* how many it can hold
  growing,      \* whether Append makes room by itself
  rslt,         \* what the last call returned
  out           \* the bytes the last PeekData or GetData copied out

vars == <<fifo, capacity, growing, rslt, out>>

Init ==
  /\ fifo = <<>> /\ out = <<>> /\ rslt = "OK"
  /\ capacity \in NewLength
  /\ growing \in BOOLEAN

Room == capacity - Len(fifo)

Return(r) == rslt' = r /\ out' = <<>>

Refuse(r) == Return(r) /\ UNCHANGED <<fifo, capacity, growing>>

AppendData(d) ==
  \/ /\ Len(d) <= Room
     /\ fifo' = fifo \o d
     /\ Return("OK")
     /\ UNCHANGED <<capacity, growing>>
  \/ /\ Len(d) <= capacity /\ Room < Len(d) /\ growing
     /\ \/ Refuse("ALLOC_FAILED")
        \/ /\ fifo' = fifo \o d
           /\ capacity' = 2 * capacity
           /\ Return("OK")
           /\ UNCHANGED growing
  \/ /\ Len(d) <= capacity /\ Room < Len(d) /\ ~growing
     /\ Refuse("BUFFER_FULL")
  \/ /\ capacity < Len(d)
     /\ Refuse("INVALID_LEN")

\* Bytes another component writes into the queue's own memory.
DirectWrite(d) ==
  /\ Len(d) <= Room
  /\ fifo' = fifo \o d
  /\ Return("OK")
  /\ UNCHANGED <<capacity, growing>>

CannotRead(n) ==
  \/ fifo = <<>> /\ Refuse("NO_DATA")
  \/ fifo # <<>> /\ Len(fifo) < n /\ Refuse("INVALID_LEN")

CanRead(n) == fifo # <<>> /\ n <= Len(fifo)

PeekData(n) ==
  \/ CannotRead(n)
  \/ /\ CanRead(n)
     /\ out' = SubSeq(fifo, 1, n)
     /\ rslt' = "OK"
     /\ UNCHANGED <<fifo, capacity, growing>>

ConsumeData(n) ==
  \/ CannotRead(n)
  \/ /\ CanRead(n)
     /\ fifo' = SubSeq(fifo, n + 1, Len(fifo))
     /\ Return("OK")
     /\ UNCHANGED <<capacity, growing>>

GetData(n) ==
  \/ CannotRead(n)
  \/ /\ CanRead(n)
     /\ out' = SubSeq(fifo, 1, n)
     /\ fifo' = SubSeq(fifo, n + 1, Len(fifo))
     /\ rslt' = "OK"
     /\ UNCHANGED <<capacity, growing>>

Grow(n) ==
  /\ capacity < n
  /\ capacity' = n
  /\ Return("OK")
  /\ UNCHANGED <<fifo, growing>>

ReSet ==
  /\ fifo' = <<>>
  /\ Return("OK")
  /\ UNCHANGED <<capacity, growing>>

Next ==
  \/ \E d \in Chunk : AppendData(d) \/ DirectWrite(d)
  \/ \E n \in Length : PeekData(n) \/ ConsumeData(n) \/ GetData(n)
  \/ \E n \in NewLength : Grow(n)
  \/ ReSet

Spec == Init /\ [][Next]_vars
=============================================================================
