---------------------------- MODULE MessageChannel ----------------------------
(***************************************************************************)
(* What asock promises to the two users of a stream connection: the        *)
(* receiver's callback gets the messages the sender sent, each one whole,  *)
(* in their order, none skipped and none twice.  When the connection ends  *)
(* the messages still on their way are lost; the next one starts afresh.   *)
(***************************************************************************)
EXTENDS Naturals, Sequences

VARIABLES
  sent,        \* the messages sent on the current connection
  delivered    \* those the receiver's callback was called with

vars == <<sent, delivered>>

Init == sent = <<>> /\ delivered = <<>>

Send ==
  /\ Len(sent') = Len(sent) + 1
  /\ SubSeq(sent', 1, Len(sent)) = sent
  /\ UNCHANGED delivered

Deliver ==
  /\ Len(delivered) < Len(sent)
  /\ delivered' = Append(delivered, sent[Len(delivered) + 1])
  /\ UNCHANGED sent

Reconnect == sent' = <<>> /\ delivered' = <<>>

Next == Send \/ Deliver \/ Reconnect

Spec == Init /\ [][Next]_vars
=============================================================================
