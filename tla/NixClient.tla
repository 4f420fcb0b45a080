------------------------------ MODULE NixClient ------------------------------
(***************************************************************************)
(* The life of a TCP or IPC client (asock_nix_client.hpp): a user's thread *)
(* that calls ConnectToServer, SendToServer and Disconnect, the detached   *)
(* thread that runs ClientThreadRoutine, and the flags between them.       *)
(*                                                                         *)
(* There is one context; its socket is overwritten by every connection.    *)
(* Sockets are numbered in the order in which they are made.  What is sent *)
(* and received is left to NixSend and RecvData.                           *)
(***************************************************************************)
EXTENDS Naturals, FiniteSets

CONSTANT MaxConnections   \* bound on the calls that make a socket

ASSUME MaxConnectionsAssumption == MaxConnections \in Nat

Socket == 1 .. MaxConnections
NoSocket == 0     \* -1 in the code

VARIABLES
  main,             \* where the user's thread is
  thread,           \* where the client thread is; "none": there is none,
                    \* "interrupted": nor is there, a signal has ended it
  socket,           \* client_ctx_.socket
  is_connected_,
  is_client_thread_running_,
  is_server_disconnted_cb_invoked_,
  conn,             \* the state of each socket
  made,             \* how many sockets there have been
  watched,          \* the socket ep_fd_ has been told of
  out,              \* TRUE: and is watched for EPOLLOUT
  ep_events_,       \* what epoll_wait has written there last
  queued            \* the connections that the bytes in pending_send_deque are of

flags  == <<is_connected_, is_client_thread_running_, is_server_disconnted_cb_invoked_>>
epoll  == <<watched, out, ep_events_>>
vars == <<main, thread, socket, is_connected_, is_client_thread_running_,
          is_server_disconnted_cb_invoked_, conn, made, watched, out, ep_events_, queued>>

Init ==
  /\ main = "off" /\ thread = "none"
  /\ socket = NoSocket
  /\ is_connected_ = FALSE /\ is_client_thread_running_ = FALSE
  /\ is_server_disconnted_cb_invoked_ = FALSE
  /\ conn = [s \in Socket |-> "none"] /\ made = 0
  /\ watched = NoSocket /\ out = FALSE /\ ep_events_ = "nothing"
  /\ queued = {}

StateOf(s) == IF s = NoSocket THEN "closed" ELSE conn[s]

\* close(s); nothing happens to a descriptor that is not open.
Closed(s) == [c \in Socket |-> IF c = s THEN "closed" ELSE conn[c]]

-----------------------------------------------------------------------------
(* The user's thread.  "off": it has no connection, "on": it has been told *)
(* that it has one; it is in a call otherwise.                             *)

\* InitTcpClient makes a socket whatever there is, and forgets the old one;
\* ConnectToServer goes no further if it takes itself to be connected.
InitClient ==
  /\ main \in {"off", "on"}
  /\ made < MaxConnections
  /\ made' = made + 1
  /\ socket' = made'
  /\ conn' = [conn EXCEPT ![made'] = "new"]
  /\ main' = IF is_connected_ THEN "on" ELSE "connecting"
  /\ UNCHANGED <<thread, flags, epoll, queued>>

\* socket() fails.
InitClientFails ==
  /\ main \in {"off", "on"}
  /\ socket' = NoSocket
  /\ main' = IF is_connected_ THEN "on" ELSE "off"
  /\ UNCHANGED <<thread, flags, conn, made, epoll, queued>>

ConnectFails ==
  /\ main = "connecting"
  /\ conn' = Closed(socket)
  /\ main' = "off"
  /\ UNCHANGED <<thread, socket, flags, made, epoll, queued>>

ConnectToServer ==
  /\ main = "connecting"
  /\ conn' = IF StateOf(socket) = "new" THEN [conn EXCEPT ![socket] = "open"] ELSE conn
  /\ is_connected_' = TRUE
  /\ main' = "run"
  /\ UNCHANGED <<thread, socket, is_client_thread_running_,
                 is_server_disconnted_cb_invoked_, made, epoll, queued>>

\* RunClientThread finds a thread, or takes one to be there.
ClientThreadRuns ==
  /\ main = "run"
  /\ is_client_thread_running_
  /\ main' = "on"
  /\ UNCHANGED <<thread, socket, flags, conn, made, epoll, queued>>

\* epoll_create1 or epoll_ctl fails; is_connected_ stays as it is.
RunClientThreadFails ==
  /\ main = "run"
  /\ ~is_client_thread_running_
  /\ conn' = Closed(socket)
  /\ ep_events_' = "nothing"
  /\ main' = "off"
  /\ UNCHANGED <<thread, socket, flags, made, watched, out, queued>>

\* Mutant: the new socket is not added to epoll.
RunClientThreadUnwatched ==
  /\ main = "run"
  /\ ~is_client_thread_running_
  /\ ep_events_' = "nothing"
  /\ thread' = "loop"
  /\ main' = "started"
  /\ UNCHANGED <<socket, flags, conn, made, watched, out, queued>>

RunClientThread ==
  /\ main = "run"
  /\ ~is_client_thread_running_
  /\ watched' = socket /\ out' = FALSE /\ ep_events_' = "nothing"
  /\ thread' = "loop"
  /\ main' = "started"
  /\ UNCHANGED <<socket, flags, conn, made, queued>>

\* The thread may already have gone.
SetClientThreadRunning ==
  /\ main = "started"
  /\ is_client_thread_running_' = TRUE
  /\ main' = "on"
  /\ UNCHANGED <<thread, socket, is_connected_, is_server_disconnted_cb_invoked_,
                 conn, made, epoll, queued>>

\* SendToServer cannot send everything at once, and ControlEpoll succeeds.
SendToServer ==
  /\ main = "on" /\ is_connected_
  /\ StateOf(socket) \in {"open", "ended"} /\ watched = socket
  /\ queued' = queued \cup {socket}
  /\ out' = TRUE
  /\ UNCHANGED <<main, thread, socket, flags, conn, made, watched, ep_events_>>

\* Mutant: closes what is no socket.
DisconnectCloseUnchecked ==
  /\ main \in {"off", "on"}
  /\ conn' = [s \in Socket \cup {socket} |-> IF s = socket THEN "closed" ELSE conn[s]]
  /\ socket' = NoSocket
  /\ main' = "disconnect"
  /\ UNCHANGED <<thread, flags, made, epoll, queued>>

DisconnectClose ==
  /\ main \in {"off", "on"}
  /\ conn' = Closed(socket)
  /\ socket' = NoSocket
  /\ main' = "disconnect"
  /\ UNCHANGED <<thread, flags, made, epoll, queued>>

\* Mutant: is_connected_ is left as it is.
DisconnectSilently ==
  /\ main = "disconnect"
  /\ main' = "disconnected"
  /\ UNCHANGED <<thread, socket, flags, conn, made, epoll, queued>>

DisconnectFlag ==
  /\ main = "disconnect"
  /\ is_connected_' = FALSE
  /\ main' = "disconnected"
  /\ UNCHANGED <<thread, socket, is_client_thread_running_,
                 is_server_disconnted_cb_invoked_, conn, made, epoll, queued>>

\* Mutant: does not wait for the thread.
DisconnectAtOnce ==
  /\ main = "disconnected"
  /\ main' = "off"
  /\ UNCHANGED <<thread, socket, flags, conn, made, epoll, queued>>

DisconnectWait ==
  /\ main = "disconnected"
  /\ main' = IF is_server_disconnted_cb_invoked_ THEN "off" ELSE "waiting"
  /\ UNCHANGED <<thread, socket, flags, conn, made, epoll, queued>>

DisconnectReturn ==
  /\ main = "waiting"
  /\ ~is_client_thread_running_
  /\ main' = "off"
  /\ UNCHANGED <<thread, socket, flags, conn, made, epoll, queued>>

InLibrary ==
  \/ ConnectFails \/ ConnectToServer
  \/ ClientThreadRuns \/ RunClientThread \/ SetClientThreadRunning
  \/ RunClientThreadFails
  \/ DisconnectFlag \/ DisconnectWait \/ DisconnectReturn

-----------------------------------------------------------------------------
(* The client thread.                                                      *)

ThreadGoes(to) == thread' = to /\ UNCHANGED <<main, made, is_client_thread_running_>>

LoopCondition ==
  /\ thread = "loop"
  /\ ThreadGoes(IF is_connected_ THEN "wait" ELSE "exiting")
  /\ UNCHANGED <<socket, is_connected_, is_server_disconnted_cb_invoked_, conn, epoll, queued>>

\* The branches that the events of the watched socket may lead to.
Events ==
  LET state == StateOf(watched)
  IN  {e \in {"IN"}  : state \in {"open", "ended"}} \cup
      {e \in {"OUT"} : state = "open" /\ out} \cup
      {e \in {"ERR"} : state = "reset"}

EpollWait ==
  /\ thread = "wait"
  /\ \E e \in Events : ep_events_' = e
  /\ ThreadGoes("handle")
  /\ UNCHANGED <<socket, is_connected_, is_server_disconnted_cb_invoked_, conn,
                 watched, out, queued>>

\* The events of the time before are still there, and are handled again.
EpollWaitTimeout ==
  /\ thread = "wait"
  /\ StateOf(watched) \notin {"ended", "reset"}
  /\ ThreadGoes("handle")
  /\ UNCHANGED <<socket, is_connected_, is_server_disconnted_cb_invoked_, conn, epoll, queued>>

\* EINTR: a signal handler has run in the thread, and the thread ends.
EpollWaitFails ==
  /\ thread = "wait"
  /\ is_client_thread_running_' = FALSE
  /\ thread' = "interrupted"
  /\ UNCHANGED <<main, socket, is_connected_, is_server_disconnted_cb_invoked_,
                 conn, made, epoll, queued>>

\* The connection is given up: whatever client_ctx_.socket is by now is closed.
Lose ==
  /\ conn' = Closed(socket)
  /\ ThreadGoes("lost")
  /\ UNCHANGED <<socket, is_connected_, is_server_disconnted_cb_invoked_, epoll, queued>>

HandleError == thread = "handle" /\ ep_events_ = "ERR" /\ Lose

\* Mutant: the end of the stream is taken for nothing to receive.
RecvEndIgnored ==
  /\ thread = "handle" /\ ep_events_ = "IN"
  /\ StateOf(socket) = "ended"
  /\ ThreadGoes("loop")
  /\ UNCHANGED <<socket, is_connected_, is_server_disconnted_cb_invoked_, conn, epoll, queued>>

\* RecvData returns false: the end of the stream, or no memory for a packet.
RecvFails ==
  /\ thread = "handle" /\ ep_events_ = "IN"
  /\ StateOf(socket) \in {"open", "ended"}
  /\ Lose

\* It has received something or nothing, or recv() has failed.
RecvReturns ==
  /\ thread = "handle" /\ ep_events_ \in {"IN", "nothing"}
  /\ ep_events_ = "IN" => StateOf(socket) # "ended"
  /\ ThreadGoes("loop")
  /\ UNCHANGED <<socket, is_connected_, is_server_disconnted_cb_invoked_, conn, epoll, queued>>

CanSend == StateOf(socket) \in {"open", "ended"}

\* SendPendingData sends everything, and epoll need not watch for more.
SendPendingAll ==
  /\ thread = "handle" /\ ep_events_ = "OUT"
  /\ queued # {} /\ CanSend /\ watched = socket
  /\ queued' = {} /\ out' = FALSE
  /\ ThreadGoes("loop")
  /\ UNCHANGED <<socket, is_connected_, is_server_disconnted_cb_invoked_, conn,
                 watched, ep_events_>>

\* There is nothing to send, or not everything is taken.
SendPendingSome ==
  /\ thread = "handle" /\ ep_events_ = "OUT"
  /\ queued = {} \/ CanSend
  /\ ThreadGoes("loop")
  /\ UNCHANGED <<socket, is_connected_, is_server_disconnted_cb_invoked_, conn, epoll, queued>>

\* send() fails, or ControlEpoll: DoSendPendingFailed.
SendPendingFails ==
  /\ thread = "handle" /\ ep_events_ = "OUT"
  /\ queued # {} /\ ~(CanSend /\ watched = socket)
  /\ Lose

InvokeServerDisconnectedHandler ==
  /\ thread = "lost"
  /\ is_server_disconnted_cb_invoked_' = TRUE
  /\ ThreadGoes("callback")
  /\ UNCHANGED <<socket, is_connected_, conn, epoll, queued>>

CallbackReturns ==
  /\ thread = "callback"
  /\ ThreadGoes("exiting")
  /\ UNCHANGED <<socket, is_connected_, is_server_disconnted_cb_invoked_, conn, epoll, queued>>

\* The callback calls Disconnect, which does not wait then.
CallbackDisconnects ==
  /\ thread = "callback"
  /\ conn' = Closed(socket)
  /\ socket' = NoSocket
  /\ ThreadGoes("callback disconnect")
  /\ UNCHANGED <<is_connected_, is_server_disconnted_cb_invoked_, epoll, queued>>

CallbackDisconnectFlag ==
  /\ thread = "callback disconnect"
  /\ is_connected_' = FALSE
  /\ ThreadGoes("exiting")
  /\ UNCHANGED <<socket, is_server_disconnted_cb_invoked_, conn, epoll, queued>>

\* Mutant: the flag is left TRUE.
ThreadExitsSilently ==
  /\ thread = "exiting"
  /\ thread' = "none"
  /\ UNCHANGED <<main, socket, flags, conn, made, epoll, queued>>

ThreadExits ==
  /\ thread = "exiting"
  /\ is_client_thread_running_' = FALSE
  /\ thread' = "none"
  /\ UNCHANGED <<main, socket, is_connected_, is_server_disconnted_cb_invoked_,
                 conn, made, epoll, queued>>

ThreadStep ==
  \/ LoopCondition
  \/ EpollWait \/ EpollWaitTimeout \/ EpollWaitFails
  \/ HandleError \/ RecvFails \/ RecvReturns
  \/ SendPendingAll \/ SendPendingSome \/ SendPendingFails
  \/ InvokeServerDisconnectedHandler
  \/ CallbackReturns \/ CallbackDisconnects \/ CallbackDisconnectFlag
  \/ ThreadExits

-----------------------------------------------------------------------------
\* The server ends a connection, or it is lost.
PeerEnds(s, how) ==
  /\ conn[s] = "open" \/ (conn[s] = "ended" /\ how = "reset")
  /\ conn' = [conn EXCEPT ![s] = how]
  /\ UNCHANGED <<main, thread, socket, flags, made, epoll, queued>>

Next ==
  \/ InitClient \/ InitClientFails \/ SendToServer \/ DisconnectClose
  \/ InLibrary
  \/ ThreadStep
  \/ \E s \in Socket, how \in {"ended", "reset"} : PeerEnds(s, how)

Spec == Init /\ [][Next]_vars

\* Both threads go on while they are in the library (connect() and epoll_wait
\* have timeouts) and callbacks return; nobody must call.
FairSpec == Spec /\ WF_vars(InLibrary) /\ WF_vars(ThreadStep)

-----------------------------------------------------------------------------
(* Every variable has its type; no socket is used before it is made.       *)
TypeOK ==
  /\ main \in {"off", "connecting", "run", "started", "on",
               "disconnect", "disconnected", "waiting"}
  /\ thread \in {"none", "interrupted", "loop", "wait", "handle", "lost", "callback",
                 "callback disconnect", "exiting"}
  /\ made \in 0 .. MaxConnections
  /\ socket \in 0 .. made /\ watched \in 0 .. made
  /\ is_connected_ \in BOOLEAN /\ is_client_thread_running_ \in BOOLEAN
  /\ is_server_disconnted_cb_invoked_ \in BOOLEAN
  /\ conn \in [Socket -> {"none", "new", "open", "ended", "reset", "closed"}]
  /\ out \in BOOLEAN
  /\ ep_events_ \in {"nothing", "IN", "OUT", "ERR"}
  /\ queued \subseteq 1 .. made

(* A user who has been told that it is connected, and whom the server has  *)
(* never left, has a thread that receives from this very socket, unless a  *)
(* signal has ended the thread (asock_nix_client.hpp:176).                 *)
Served ==
  /\ main = "on" /\ is_connected_ /\ StateOf(socket) = "open"
  /\ ~is_server_disconnted_cb_invoked_ /\ thread # "interrupted"
  => /\ is_client_thread_running_
     /\ thread \notin {"none", "exiting"}
     /\ watched = socket

NoThread == thread \in {"none", "interrupted"}

(* asock_nix_client.hpp:95, Disconnect "waits for the client thread to     *)
(* terminate".                                                             *)
DisconnectWaits == main = "off" => NoThread

(* It does unless the server has left first on this or an earlier          *)
(* connection: then nothing resets the context under a running thread.     *)
WaitsForThread ==
  main \in {"off", "connecting"} /\ ~is_server_disconnted_cb_invoked_ => NoThread

(* Disconnect returns, also while the server leaves and the callback calls *)
(* Disconnect too; a signal that ends the thread before RunClientThread    *)
(* sets is_client_thread_running_ (line 157) may keep it waiting.          *)
DisconnectReturns ==
  main \in {"disconnect", "disconnected", "waiting"}
    ~> main = "off" \/ thread = "interrupted"

(* A user who stays connected hears of the server's leaving: the callback  *)
(* is invoked, or the user has meanwhile disconnected or made a new socket, *)
(* or a signal has ended the thread.                                       *)
HearsOfEnd ==
  \A s \in Socket :
    main = "on" /\ socket = s /\ conn[s] \in {"ended", "reset"}
      /\ ~is_server_disconnted_cb_invoked_
    ~> \/ is_server_disconnted_cb_invoked_ \/ thread = "interrupted"
       \/ main # "on" \/ socket # s
=============================================================================
