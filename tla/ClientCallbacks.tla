--------------------------- MODULE ClientCallbacks ---------------------------
(***************************************************************************)
(* What a TCP or IPC server promises its user by OnClientConnected and     *)
(* OnClientDisconnected: a client comes once, goes at most once, and only  *)
(* after it has come; from the one to the other it has a context, which no *)
(* other client has meanwhile.                                             *)
(***************************************************************************)
EXTENDS Functions

CONSTANTS
  Client,
  Context,
  Silent       \* TRUE: a client may lose its context without a callback

VARIABLES
  told,        \* what the user has been told of each client
  context      \* a function: the contexts of the clients that have one

vars == <<told, context>>

Init == told = [c \in Client |-> "nothing"] /\ DOMAIN context = {}

OnClientConnected(c, x) ==
  /\ told[c] = "nothing" /\ told' = [told EXCEPT ![c] = "connected"]
  /\ x \notin Range(context)
  /\ context' = [d \in DOMAIN context \cup {c} |-> IF d = c THEN x ELSE context[d]]

Leaves(c) ==
  c \in DOMAIN context /\ context' = Restrict(context, DOMAIN context \ {c})

OnClientDisconnected(c) ==
  /\ told[c] = "connected" /\ told' = [told EXCEPT ![c] = "disconnected"]
  /\ Leaves(c)

Dropped(c) == Silent /\ Leaves(c) /\ UNCHANGED told

Next ==
  \E c \in Client :
    \/ \E x \in Context : OnClientConnected(c, x)
    \/ OnClientDisconnected(c)
    \/ Dropped(c)

Spec == Init /\ [][Next]_vars
=============================================================================
