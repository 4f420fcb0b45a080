------------------------------ MODULE StreamLink ------------------------------
(***************************************************************************)
(* One direction of one TCP or IPC connection as a whole: NixSend's        *)
(* endpoint, whose threads call SendData while its loop sends what is      *)
(* pending, and RecvData's endpoint at the other end.  Each keeps all of   *)
(* its steps; they share the bytes: recv() returns what the kernel has     *)
(* taken from send(), and the frames start where SendData put them.        *)
(*                                                                         *)
(* Either side may come to the end of the connection at any time, and the  *)
(* other may learn of it at any time or not at all.                        *)
(***************************************************************************)
EXTENDS RecvData

CONSTANTS
  User, SenderLoop, NoThread, SockCap, MaxInbound, Chatty,
  SenderRoles   \* NixSend's Roles; Role is RecvData's

VARIABLES
  ctx_lock, sender_pc, rest, is_sent_pending, pending_send_deque, interest, ready,
  conn, wire, sender_role, drained, inbound, arrived

Sender == INSTANCE NixSend WITH
  Loop     <- SenderLoop,
  Roles    <- SenderRoles,
  FrameLen <- {HEADER_SIZE + n : n \in Payload \cup FirstPayload},
  role     <- sender_role,
  pc       <- sender_pc

receiver == <<net, recv_buffer, calculate, max_data_len_, pc, delivered, connections>>
sender   == <<ctx_lock, sender_pc, rest, is_sent_pending, pending_send_deque, interest,
              ready, conn, wire, sender_role, drained, inbound, arrived>>
linkvars == <<start, receiver, sender>>

LinkInit == Init /\ Sender!Init

\* SendData's message of n bytes goes behind a header.
SendMessage(t, n) ==
  /\ n \in IF Len(start) = 1 THEN FirstPayload ELSE Payload
  /\ Sender!SendData(t, HEADER_SIZE + n)
  /\ UNCHANGED receiver

SenderGoesOn ==
  /\ \/ \E t \in Sender!Thread : Sender!InSendData(t)
     \/ Sender!LoopStep
     \/ Sender!Drain \/ Sender!PeerSends
     \/ \E how \in {"ended", "reset"} : Sender!PeerEnds(how)
  /\ UNCHANGED receiver

\* recv() returns the next k of the bytes that send() has taken.
RecvSent(k) ==
  /\ net + k <= Len(wire)
  /\ Recv(SubSeq(wire, net + 1, net + k))
  /\ UNCHANGED sender

ReceiverGoesOn ==
  /\ RecvNothing \/ RecvEndOfStream \/ Loop
  /\ UNCHANGED sender

LinkNext ==
  \/ \E t \in Sender!Thread, n \in Payload \cup FirstPayload : SendMessage(t, n)
  \/ SenderGoesOn
  \/ \E k \in 1 .. Len(wire) - net : RecvSent(k)
  \/ ReceiverGoesOn

LinkSpec == LinkInit /\ [][LinkNext]_linkvars
-----------------------------------------------------------------------------
(* When nothing is on its way -- no call of SendData, no queue, no byte in *)
(* the sockets -- every message of every thread has reached the callback.  *)
QuietMeansDelivered ==
  /\ Sender!SendWorks
  /\ pending_send_deque = <<>> /\ rest = Sender!Nothing
  /\ pc = "recv" /\ net = Len(wire)
  => Len(delivered) = Len(start) - 1
=============================================================================
