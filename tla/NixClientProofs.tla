--------------------------- MODULE NixClientProofs ---------------------------
(***************************************************************************)
(* What the client's flags say of its threads, for any number of           *)
(* connections.  A thread that epoll_wait's EINTR has ended serves nobody: *)
(* "interrupted" is told apart from "none" only where a connection is to   *)
(* stay served.                                                            *)
(***************************************************************************)
EXTENDS NixClient, TLAPS

\* Only a thread just started may run without its flag.
ThreadIsFlagged == ~NoThread => is_client_thread_running_ \/ main = "started"

\* Until the server has left for the first time nobody calls back, the user
\* comes to a connection with no thread about, and stays connected on it.
UndisturbedOK ==
  ~is_server_disconnted_cb_invoked_ =>
    /\ thread \notin {"callback", "callback disconnect"}
    /\ main \in {"off", "connecting", "run"} => ~is_client_thread_running_
    /\ main \in {"run", "started", "on"} => is_connected_

\* As Served, already before RunClientThread has set its flag.
ReceivesFrom(s) == thread \notin {"none", "exiting"} /\ watched = s
ThreadServes ==
  ~is_server_disconnted_cb_invoked_ /\ thread # "interrupted" /\ StateOf(socket) = "open" =>
    /\ main \in {"started", "on"} => ReceivesFrom(socket)
    /\ main = "on" => is_client_thread_running_

FlagsInv == TypeOK /\ ThreadIsFlagged /\ UndisturbedOK

\* The parts of TypeOK that take arithmetic or functions.
ConnType == conn \in [Socket -> {"none", "new", "open", "ended", "reset", "closed"}]
NumbersType ==
  /\ made \in 0 .. MaxConnections
  /\ socket \in 0 .. made /\ watched \in 0 .. made
  /\ queued \subseteq 1 .. made

-----------------------------------------------------------------------------
(* Numbers of sockets.                                                     *)

LEMMA Sockets ==
  ASSUME NumbersType
  PROVE  /\ NoSocket \in 0 .. made
         /\ socket # NoSocket => socket \in 1 .. made
         /\ made < MaxConnections =>
              /\ made + 1 \in 0 .. MaxConnections
              /\ made + 1 \in 0 .. made + 1 /\ 0 .. made \subseteq 0 .. made + 1
              /\ 1 .. made \subseteq 1 .. made + 1
BY MaxConnectionsAssumption DEF NumbersType, NoSocket

(* Every variable keeps its type and the flags say what they should.       *)
THEOREM FlagsInductive == Spec => []FlagsInv
<1>1. Init => FlagsInv
  <2> SUFFICES ASSUME Init PROVE FlagsInv
    OBVIOUS
  <2>1. ConnType /\ NumbersType
    BY MaxConnectionsAssumption DEF Init, ConnType, NumbersType, NoSocket
  <2> QED BY <2>1 DEF Init, FlagsInv, TypeOK, ThreadIsFlagged, NoThread, UndisturbedOK,
                      ConnType, NumbersType
<1>2. FlagsInv /\ [Next]_vars => FlagsInv'
  <2> SUFFICES ASSUME FlagsInv, [Next]_vars PROVE FlagsInv'
    OBVIOUS
  <2> USE DEF FlagsInv, TypeOK, ThreadIsFlagged, NoThread, UndisturbedOK,
          flags, epoll
  <2>1. CASE InitClient
    <3>1. ConnType'
      BY <2>1 DEF ConnType, InitClient
    <3>2. NumbersType'
      BY <2>1, Sockets DEF NumbersType, InitClient
    <3> QED BY <2>1, <3>1, <3>2 DEF ConnType, NumbersType, InitClient
  <2>2. CASE InitClientFails
    <3>1. ConnType'
      BY <2>2 DEF ConnType, InitClientFails
    <3>2. NumbersType'
      BY <2>2, Sockets DEF NumbersType, InitClientFails
    <3> QED BY <2>2, <3>1, <3>2 DEF ConnType, NumbersType, InitClientFails
  <2>3. CASE ConnectFails
    BY <2>3 DEF ConnectFails, Closed
  <2>4. CASE ConnectToServer
    BY <2>4 DEF ConnectToServer, StateOf
  <2>5. CASE ClientThreadRuns
    BY <2>5 DEF ClientThreadRuns
  <2>6. CASE RunClientThread
    BY <2>6 DEF RunClientThread
  <2>7. CASE SetClientThreadRunning
    BY <2>7 DEF SetClientThreadRunning
  <2>8. CASE RunClientThreadFails
    BY <2>8 DEF RunClientThreadFails, Closed
  <2>9. CASE SendToServer
    <3>1. socket \in 1 .. made
      <4>1. socket # NoSocket
        BY <2>9 DEF SendToServer, StateOf
      <4> QED BY <4>1, Sockets DEF NumbersType
    <3>2. ConnType' /\ NumbersType'
      BY <2>9, <3>1 DEF ConnType, NumbersType, SendToServer
    <3> QED BY <2>9, <3>2 DEF ConnType, NumbersType, SendToServer
  <2>10. CASE DisconnectClose
    <3>1. ConnType'
      BY <2>10 DEF ConnType, DisconnectClose, Closed
    <3>2. NumbersType'
      BY <2>10, Sockets DEF NumbersType, DisconnectClose, Closed
    <3> QED BY <2>10, <3>1, <3>2 DEF ConnType, NumbersType, DisconnectClose, Closed
  <2>11. CASE DisconnectFlag
    BY <2>11 DEF DisconnectFlag
  <2>12. CASE DisconnectWait
    BY <2>12 DEF DisconnectWait
  <2>13. CASE DisconnectReturn
    BY <2>13 DEF DisconnectReturn
  <2>14. CASE ThreadStep
    <3> USE DEF ThreadGoes
    <3>1. CASE LoopCondition
      BY <3>1 DEF LoopCondition
    <3>2. CASE EpollWait \/ EpollWaitTimeout \/ EpollWaitFails
      BY ZenonT(40), <3>2 DEF EpollWait, Events, EpollWaitTimeout, EpollWaitFails
    <3>3. CASE HandleError \/ RecvFails \/ SendPendingFails
      BY <3>3 DEF HandleError, RecvFails, SendPendingFails, Lose, Closed
    <3>4. CASE RecvReturns \/ SendPendingAll \/ SendPendingSome
      BY <3>4 DEF RecvReturns, SendPendingAll, SendPendingSome
    <3>5. CASE InvokeServerDisconnectedHandler
      BY <3>5 DEF InvokeServerDisconnectedHandler
    <3>6. CASE CallbackReturns
      BY <3>6 DEF CallbackReturns
    <3>7. CASE CallbackDisconnects \/ CallbackDisconnectFlag
      <4>1. ConnType'
        BY <3>7 DEF ConnType, CallbackDisconnects, CallbackDisconnectFlag, Closed
      <4>2. NumbersType'
        BY <3>7, Sockets DEF NumbersType, CallbackDisconnects, CallbackDisconnectFlag, Closed
      <4> QED BY <3>7, <4>1, <4>2 DEF ConnType, NumbersType, CallbackDisconnects, CallbackDisconnectFlag, Closed
    <3>8. CASE ThreadExits
      BY <3>8 DEF ThreadExits
    <3> QED
      BY <2>14, <3>1, <3>2, <3>3, <3>4, <3>5, <3>6, <3>7, <3>8 DEF ThreadStep
  <2>15. ASSUME NEW s \in Socket, NEW how \in {"ended", "reset"}, PeerEnds(s, how)
         PROVE  FlagsInv'
    <3>1. ConnType' /\ NumbersType'
      BY <2>15 DEF ConnType, NumbersType, PeerEnds
    <3> QED BY ZenonT(40), <2>15, <3>1 DEF ConnType, NumbersType, PeerEnds
  <2>16. CASE UNCHANGED vars
    BY ZenonT(40), <2>16 DEF vars
  <2> QED
    BY <2>1, <2>2, <2>3, <2>4, <2>5, <2>6, <2>7, <2>8, <2>9, <2>10, <2>11, <2>12,
       <2>13, <2>14, <2>15, <2>16
    DEF Next, InLibrary
<1> QED BY <1>1, <1>2, PTL DEF Spec

(* The client's variables have their types.                                *)
THEOREM TypeCorrect == Spec => []TypeOK
<1>1. FlagsInv => TypeOK
  BY DEF FlagsInv
<1> QED BY <1>1, FlagsInductive, PTL

(* Disconnect and a failed connect leave no thread behind as long as the   *)
(* server has never left (asock_nix_client.hpp:108-113).                   *)
THEOREM DisconnectEndsThread == Spec => []WaitsForThread
<1>1. FlagsInv => WaitsForThread
  BY DEF FlagsInv, ThreadIsFlagged, NoThread, UndisturbedOK, WaitsForThread
<1> QED BY <1>1, FlagsInductive, PTL

(* RunClientThread starts a thread only where there is none: the two would *)
(* share client_ctx_, ep_fd_ and ep_events_.                               *)
OneThread == main = "run" /\ main' = "started" => NoThread

(* There is one client thread at a time, whatever the server and the       *)
(* signals do, though Disconnect need not wait for it: the flag it leaves  *)
(* standing keeps RunClientThread from starting another                    *)
(* (asock_nix_client.hpp:125).                                             *)
THEOREM OneThreadAtATime == Spec => [][OneThread]_vars
<1>1. FlagsInv /\ [Next]_vars => OneThread
  <2> SUFFICES ASSUME FlagsInv, [Next]_vars, main = "run", main' = "started" PROVE NoThread
    BY DEF OneThread
  <2>1. CASE RunClientThread
    BY <2>1 DEF RunClientThread, FlagsInv, ThreadIsFlagged
  <2>2. CASE InitClient \/ InitClientFails \/ SendToServer \/ DisconnectClose
    BY <2>2 DEF InitClient, InitClientFails, SendToServer, DisconnectClose
  <2>3. CASE InLibrary /\ ~RunClientThread
    BY <2>3 DEF InLibrary, ConnectFails, ConnectToServer, ClientThreadRuns,
                SetClientThreadRunning, RunClientThreadFails,
                DisconnectFlag, DisconnectWait, DisconnectReturn
  <2>4. CASE ThreadStep
    BY <2>4 DEF ThreadStep, ThreadGoes, Lose, LoopCondition,
                EpollWait, EpollWaitTimeout, EpollWaitFails,
                HandleError, RecvFails, RecvReturns,
                SendPendingAll, SendPendingSome, SendPendingFails,
                InvokeServerDisconnectedHandler, CallbackReturns,
                CallbackDisconnects, CallbackDisconnectFlag, ThreadExits
  <2>5. CASE (\E s \in Socket, how \in {"ended", "reset"} : PeerEnds(s, how)) \/ UNCHANGED vars
    BY <2>5 DEF PeerEnds, vars
  <2> QED BY <2>1, <2>2, <2>3, <2>4, <2>5 DEF Next
<1> QED BY <1>1, FlagsInductive, PTL DEF Spec

(* Unless a signal ends the thread, a user told that it is connected has a *)
(* thread that receives from this socket, on every connection until the    *)
(* server leaves for the first time (asock_nix_client.hpp:123-162).        *)
THEOREM StaysServed == Spec => []Served
<1> DEFINE ServesInv == FlagsInv /\ ThreadServes
<1>1. Init /\ FlagsInv => ServesInv
  BY DEF Init, ThreadServes, StateOf
<1>2. ServesInv /\ FlagsInv' /\ [Next]_vars => ServesInv'
  <2> SUFFICES ASSUME ServesInv, FlagsInv', [Next]_vars PROVE ThreadServes'
    OBVIOUS
  <2>0. ConnType /\ NumbersType
    BY DEF FlagsInv, TypeOK, ConnType, NumbersType
  <2> USE DEF ThreadServes, ReceivesFrom, StateOf, flags, epoll
  <2>1. CASE InitClient
    <3>1. made + 1 \in Socket /\ made + 1 # NoSocket
      BY <2>0, <2>1, MaxConnectionsAssumption
      DEF InitClient, NumbersType, Socket, NoSocket
    <3>2. StateOf(socket)' = "new"
      BY <2>0, <2>1, <3>1 DEF InitClient, ConnType
    <3> QED BY <3>2
  <2>2. CASE InitClientFails
    BY <2>2 DEF InitClientFails
  <2>3. CASE ConnectFails \/ ConnectToServer
    BY <2>3 DEF ConnectFails, ConnectToServer
  <2>4. CASE ClientThreadRuns
    BY <2>4 DEF ClientThreadRuns, FlagsInv, UndisturbedOK
  <2>5. CASE RunClientThread
    BY <2>5 DEF RunClientThread
  <2>6. CASE SetClientThreadRunning
    BY <2>6 DEF SetClientThreadRunning
  <2>7. CASE RunClientThreadFails
    BY <2>7 DEF RunClientThreadFails
  <2>8. CASE SendToServer
    BY <2>8 DEF SendToServer
  <2>9. CASE DisconnectClose \/ DisconnectFlag \/ DisconnectWait \/ DisconnectReturn
    BY <2>9 DEF DisconnectClose, DisconnectFlag, DisconnectWait, DisconnectReturn
  <2>10. CASE ThreadStep
    <3> USE DEF ThreadGoes
    <3>1. CASE LoopCondition
      BY <3>1 DEF LoopCondition, FlagsInv, UndisturbedOK
    <3>2. CASE EpollWait \/ EpollWaitTimeout \/ EpollWaitFails
      BY <3>2 DEF EpollWait, EpollWaitTimeout, EpollWaitFails
    <3>3. ASSUME Lose PROVE ThreadServes'
      <4>1. socket \in Socket \cup {NoSocket}
        BY <2>0, MaxConnectionsAssumption DEF NumbersType, Socket, NoSocket
      <4>2. StateOf(socket)' = "closed"
        BY <3>3, <4>1 DEF Lose, Closed
      <4> QED BY <4>2
    <3>4. CASE RecvReturns \/ SendPendingAll \/ SendPendingSome
      BY <3>4 DEF RecvReturns, SendPendingAll, SendPendingSome
    <3>5. CASE InvokeServerDisconnectedHandler
      BY <3>5 DEF InvokeServerDisconnectedHandler
    <3>6. CASE CallbackReturns \/ CallbackDisconnects \/ CallbackDisconnectFlag
      BY <3>6 DEF CallbackReturns, CallbackDisconnects, CallbackDisconnectFlag,
                  FlagsInv, UndisturbedOK
    <3>7. CASE ThreadExits
      BY <3>7 DEF ThreadExits, FlagsInv, UndisturbedOK
    <3> QED
      BY <2>10, <3>1, <3>2, <3>3, <3>4, <3>5, <3>6, <3>7
      DEF ThreadStep, HandleError, RecvFails, SendPendingFails
  <2>11. ASSUME NEW s \in Socket, NEW how \in {"ended", "reset"}, PeerEnds(s, how)
         PROVE  ThreadServes'
    BY <2>0, <2>11 DEF PeerEnds, ConnType
  <2>12. CASE UNCHANGED vars
    BY <2>12 DEF vars
  <2> QED
    BY <2>1, <2>2, <2>3, <2>4, <2>5, <2>6, <2>7, <2>8, <2>9, <2>10, <2>11, <2>12
    DEF Next, InLibrary
<1>3. ServesInv => Served
  BY DEF ThreadServes, ReceivesFrom, Served
<1>4. Spec => []FlagsInv
  BY FlagsInductive
<1> QED BY <1>1, <1>2, <1>3, <1>4, PTL DEF Spec
=============================================================================
