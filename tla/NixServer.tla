------------------------------ MODULE NixServer ------------------------------
(***************************************************************************)
(* A TCP or IPC server (asock_nix_server.hpp) and the contexts of its      *)
(* clients: ServerThreadRoutine accepts, receives, sends what is pending   *)
(* and terminates clients; TerminateClient puts a client's context into    *)
(* the cache, from which AcceptNewClient takes it for another client; the  *)
(* users' threads are in SendData with a context meanwhile.                *)
(*                                                                         *)
(* What is sent is only known by the client it is meant for; how it is cut *)
(* up is left to NixSend and RecvData.  Users are well-behaved: they begin *)
(* no call on a context whose client OnClientDisconnected has told them is *)
(* gone, and none after StopServer.                                        *)
(***************************************************************************)
EXTENDS Naturals, FiniteSets, Functions

CONSTANTS
  Contexts,      \* addresses of contexts
  Listener,      \* listen_context_ptr_
  Users,         \* the users' threads that send
  Loop,          \* the thread of ServerThreadRoutine
  Free,          \* no thread: ctx_lock is not held
  max_event_,
  MaxClients,    \* bound on the clients that connect
  MaxCalls       \* bound on the calls of SendData

ASSUME NixServerAssumption ==
  /\ Listener \notin Contexts
  /\ Loop \notin Users /\ Free \notin Users \cup {Loop}
  /\ max_event_ \in Nat \ {0} /\ MaxClients \in Nat /\ MaxCalls \in Nat

\* A client is the descriptor that accept() returns for it.
Client == 1 .. MaxClients
Nobody == 0      \* -1 in the code

VARIABLES
  main,                  \* where the thread is that runs and stops the server
  thread,                \* where ServerThreadRoutine is; "none": there is none
  at,                    \* the context that TerminateClient is called with
  is_need_server_run_,
  is_server_running_,
  client_cnt_,
  ep_events_,            \* the events not handled yet, a function of contexts
  ctx,                   \* the contexts
  map_sock_ctx_,
  queue_ctx_cache_,
  conn,                  \* what the peer has done with each connection
  backlog,               \* the clients that have not been accepted
  out,                   \* the clients that epoll watches for EPOLLOUT
  known,                 \* the contexts that users may use, by client
  pc,                    \* where each user's thread is
  calls,
  misled,                \* the clients that were sent what was meant for another
  overlapped             \* TRUE: a context was reset under a call of SendData

life  == <<main, is_need_server_run_, is_server_running_>>
loop  == <<thread, at, ep_events_>>
pool  == <<client_cnt_, map_sock_ctx_, queue_ctx_cache_>>
net   == <<conn, backlog, out>>
users == <<pc, calls>>
ghost == <<misled, overlapped>>
vars  == <<main, thread, at, is_need_server_run_, is_server_running_, client_cnt_,
           ep_events_, ctx, map_sock_ctx_, queue_ctx_cache_, conn, backlog, out,
           known, pc, calls, misled, overlapped>>

Blank == [socket |-> Nobody, is_sent_pending |-> FALSE, pending |-> {}, ctx_lock |-> Free]
Idle  == [at |-> "idle"]
NoEvents == <<>>

Init ==
  /\ main = "off" /\ thread = "none" /\ at = Listener
  /\ is_need_server_run_ = TRUE /\ is_server_running_ = FALSE
  /\ client_cnt_ = 0
  /\ ep_events_ = NoEvents
  /\ ctx = [x \in Contexts |-> Blank]
  /\ map_sock_ctx_ = [c \in {} |-> Listener] /\ queue_ctx_cache_ = {}
  /\ conn = [c \in Client |-> "none"] /\ backlog = {}
  /\ out = {}
  /\ known = [c \in {} |-> Listener]
  /\ pc = [u \in Users |-> Idle] /\ calls = 0
  /\ misled = {}
  /\ overlapped = FALSE

\* c is sent what was meant for the clients in `meant'.
Sends(c, meant) == misled' = misled \cup {d \in {c} : meant \ {d} # {}}

StateOf(c) == IF c = Nobody THEN "closed" ELSE conn[c]
InUse == Range(map_sock_ctx_)

-----------------------------------------------------------------------------
(* The thread that runs and stops the server.                              *)

RunServer ==
  /\ main = "off"
  /\ main' = "on" /\ thread' = "loop"
  /\ is_need_server_run_' = TRUE /\ is_server_running_' = TRUE
  /\ UNCHANGED <<at, ep_events_, pool, ctx, net, known, users, ghost>>

\* Closing listen_socket_ ends the clients that wait to be accepted.
StopServer ==
  /\ main = "on"
  /\ main' = "stop"
  /\ conn' = [c \in Client |-> IF c \in backlog THEN "refused" ELSE conn[c]]
  /\ backlog' = {}
  /\ UNCHANGED <<is_need_server_run_, is_server_running_, loop, pool, ctx, out,
                 known, users, ghost>>

StopServerFlag ==
  /\ main = "stop"
  /\ main' = "stopping" /\ is_need_server_run_' = FALSE
  /\ UNCHANGED <<is_server_running_, loop, pool, ctx, net, known, users, ghost>>

\* ClearServer deletes the contexts; it leaves map_sock_ctx_ as it is.
StopServerReturns ==
  /\ main = "stopping" /\ ~is_server_running_
  /\ main' = "stopped"
  /\ queue_ctx_cache_' = {}
  /\ overlapped' = (overlapped \/ \E u \in Users : pc[u] # Idle)
  /\ UNCHANGED <<is_need_server_run_, is_server_running_, loop, client_cnt_, ctx,
                 map_sock_ctx_, net, known, users, misled>>

-----------------------------------------------------------------------------
(* ServerThreadRoutine.                                                    *)

ThreadEnds == thread' = "none" /\ is_server_running_' = FALSE
ThreadGoes(to) == thread' = to /\ UNCHANGED is_server_running_

\* A step that concerns the loop alone.
LoopOnly == UNCHANGED <<main, is_need_server_run_, at, pool, ctx, net, known, users, ghost>>

\* Mutant: the flag is left TRUE.
LoopExitsSilently ==
  /\ thread = "loop"
  /\ ThreadGoes(IF is_need_server_run_ THEN "wait" ELSE "none")
  /\ LoopOnly /\ UNCHANGED ep_events_

LoopCondition ==
  /\ thread = "loop"
  /\ IF is_need_server_run_ THEN ThreadGoes("wait") ELSE ThreadEnds
  /\ LoopOnly /\ UNCHANGED ep_events_

\* What epoll may report of a context, by the branch it leads to.
Kinds(x) ==
  IF x = Listener THEN {e \in {"IN"} : backlog # {}}
  ELSE LET c == ctx[x].socket
       IN  {e \in {"IN"}  : StateOf(c) \in {"open", "ended"}} \cup
           {e \in {"OUT"} : StateOf(c) = "open" /\ c \in out} \cup
           {e \in {"ERR"} : StateOf(c) = "reset"}

EpollWait ==
  /\ thread = "wait"
  /\ \E S \in SUBSET (InUse \cup {Listener}) :
       /\ Cardinality(S) \in 1 .. max_event_
       /\ \E e \in [S -> {"IN", "OUT", "ERR"}] :
            (\A x \in S : e[x] \in Kinds(x)) /\ ep_events_' = e
  /\ ThreadGoes("handle")
  /\ LoopOnly

EpollWaitTimeout ==
  /\ thread = "wait"
  /\ backlog = {} /\ \A x \in InUse : StateOf(ctx[x].socket) \notin {"ended", "reset"}
  /\ ThreadGoes("loop")
  /\ LoopOnly /\ UNCHANGED ep_events_

EpollWaitFails ==
  /\ thread = "wait"
  /\ ThreadEnds
  /\ LoopOnly /\ UNCHANGED ep_events_

HandledAll ==
  /\ thread = "handle" /\ DOMAIN ep_events_ = {}
  /\ ThreadGoes("loop")
  /\ LoopOnly /\ UNCHANGED ep_events_

\* The event of x is dealt with, or leads to another place.
Handle(x, to) ==
  /\ thread = "handle" /\ x \in DOMAIN ep_events_
  /\ ep_events_' = Restrict(ep_events_, DOMAIN ep_events_ \ {x})
  /\ at' = IF to = "close" THEN x ELSE Listener
  /\ ThreadGoes(to)
  /\ UNCHANGED <<main, is_need_server_run_, pool, conn, backlog, known, users, overlapped>>

HandleListener == Handle(Listener, "accept") /\ UNCHANGED <<ctx, out, misled>>

HandleError(x) ==
  /\ Handle(x, "close") /\ ep_events_[x] = "ERR"
  /\ UNCHANGED <<ctx, out, misled>>

Received(x, to) ==
  x # Listener /\ Handle(x, to) /\ ep_events_[x] = "IN" /\ UNCHANGED <<ctx, out, misled>>

\* Mutant: the end of the stream is taken for nothing to receive.
RecvEndIgnored(x) == Received(x, "handle") /\ StateOf(ctx[x].socket) = "ended"

\* RecvData returns false: the end of the stream, or no memory for a packet.
RecvFails(x) == Received(x, "close") /\ StateOf(ctx[x].socket) \in {"open", "ended"}

RecvReturns(x) == Received(x, "handle") /\ StateOf(ctx[x].socket) # "ended"

\* SendPendingData has the lock from its beginning to its end.
SendPending(x, to) ==
  Handle(x, to) /\ ep_events_[x] = "OUT" /\ ctx[x].ctx_lock = Free

SendPendingAll(x) ==
  LET c == ctx[x].socket
  IN  /\ SendPending(x, "handle")
      /\ ctx[x].pending # {} /\ StateOf(c) \in {"open", "ended"}
      /\ Sends(c, ctx[x].pending)
      /\ ctx' = [ctx EXCEPT ![x].pending = {}, ![x].is_sent_pending = FALSE]
      /\ out' = out \ {c}

\* Nothing is pending, or the socket does not take everything.
SendPendingSome(x) ==
  /\ SendPending(x, "handle")
  /\ \/ ctx[x].pending = {} /\ UNCHANGED misled
     \/ /\ StateOf(ctx[x].socket) \in {"open", "ended"}
        /\ \E sent \in SUBSET ctx[x].pending : Sends(ctx[x].socket, sent)
  /\ UNCHANGED <<ctx, out>>

\* DoSendPendingFailed terminates the client, with the lock held.
SendPendingFails(x) ==
  /\ SendPending(x, "close")
  /\ ctx[x].pending # {} /\ StateOf(ctx[x].socket) \notin {"open", "ended"}
  /\ ctx' = [ctx EXCEPT ![x].ctx_lock = Loop]
  /\ UNCHANGED <<out, misled>>

-----------------------------------------------------------------------------
(* AcceptNewClient.                                                        *)

\* Mutant: the context is not taken out of the queue.
PopLeavingInCache(x) ==
  /\ IF queue_ctx_cache_ # {} THEN x \in queue_ctx_cache_ ELSE x \notin InUse
  /\ UNCHANGED queue_ctx_cache_

PopClientContextFromCache(x) ==
  /\ IF queue_ctx_cache_ # {} THEN x \in queue_ctx_cache_ ELSE x \notin InUse
  /\ queue_ctx_cache_' = queue_ctx_cache_ \ {x}

\* Mutants: a client is not counted when it comes, or when it goes.
CountForgotten == UNCHANGED client_cnt_
CountOffForgotten == UNCHANGED client_cnt_

Count == client_cnt_' = client_cnt_ + 1
CountOff == client_cnt_' = client_cnt_ - 1

\* The client c is given the context x.
Adopt(c, x) ==
  /\ c \in backlog
  /\ PopClientContextFromCache(x)
  /\ Count
  /\ ctx' = [ctx EXCEPT ![x].socket = c]
  /\ map_sock_ctx_' = [d \in DOMAIN map_sock_ctx_ \cup {c} |->
                         IF d = c THEN x ELSE map_sock_ctx_[d]]
  /\ backlog' = backlog \ {c}

AcceptNewClient(c, x) ==
  /\ thread = "accept"
  /\ Adopt(c, x)
  /\ known' = [d \in DOMAIN known \cup {c} |-> IF d = c THEN x ELSE known[d]]
  /\ UNCHANGED <<life, loop, conn, out, users, ghost>>

\* EWOULDBLOCK, or ECONNABORTED.
AcceptDone ==
  /\ thread = "accept"
  /\ \/ main = "on" /\ backlog = {} /\ UNCHANGED backlog
     \/ \E c \in backlog : conn[c] = "reset" /\ backlog' = backlog \ {c}
  /\ ThreadGoes("handle")
  /\ UNCHANGED <<main, is_need_server_run_, at, ep_events_, pool, ctx, conn, out,
                 known, users, ghost>>

\* accept() fails, there is no context, or epoll_ctl fails.
AcceptFails ==
  /\ thread = "accept"
  /\ \/ UNCHANGED <<pool, ctx, backlog>>
     \/ \E c \in backlog :
          /\ Count /\ backlog' = backlog \ {c}
          /\ UNCHANGED <<map_sock_ctx_, queue_ctx_cache_, ctx>>
     \/ \E c \in Client, x \in Contexts : Adopt(c, x)
  /\ ThreadEnds
  /\ UNCHANGED <<main, is_need_server_run_, at, ep_events_, conn, out, known, users, ghost>>

-----------------------------------------------------------------------------
(* TerminateClient(at), in the order of its calls.                         *)

TerminateClient ==
  LET c == ctx[at].socket
  IN  /\ thread = "close"
      /\ CountOff
      /\ conn' = [conn EXCEPT ![c] = "closed"] /\ out' = out \ {c}
      /\ ThreadGoes("callback")
      /\ UNCHANGED <<main, is_need_server_run_, at, ep_events_, map_sock_ctx_,
                     queue_ctx_cache_, ctx, backlog, known, users, ghost>>

\* Mutant: nobody is told.
DisconnectedSilently ==
  /\ thread = "callback"
  /\ ThreadGoes("push")
  /\ UNCHANGED <<main, is_need_server_run_, at, ep_events_, pool, ctx, net, known, users, ghost>>

OnClientDisconnected ==
  /\ thread = "callback"
  /\ known' = Restrict(known, DOMAIN known \ {ctx[at].socket})
  /\ ThreadGoes("push")
  /\ UNCHANGED <<main, is_need_server_run_, at, ep_events_, pool, ctx, net, users, ghost>>

\* The loop holds the lock of a client to which sending has failed.
Unlocked(x) == IF ctx[x].ctx_lock = Loop THEN Free ELSE ctx[x].ctx_lock

\* Mutant: the queue and is_sent_pending are left.
ResetKeepingQueue(x) == [ctx[x] EXCEPT !.socket = Nobody, !.ctx_lock = Unlocked(x)]

Reset(x) == [Blank EXCEPT !.ctx_lock = Unlocked(x)]

PushClientContextToCache ==
  /\ thread = "push"
  /\ map_sock_ctx_' = Restrict(map_sock_ctx_, DOMAIN map_sock_ctx_ \ {ctx[at].socket})
  /\ ctx' = [ctx EXCEPT ![at] = Reset(at)]
  /\ queue_ctx_cache_' = queue_ctx_cache_ \cup {at}
  /\ overlapped' = (overlapped \/ \E u \in Users : pc[u] # Idle /\ pc[u].ctx = at)
  /\ at' = Listener
  /\ IF ctx[at].ctx_lock = Loop THEN ThreadEnds ELSE ThreadGoes("handle")
  /\ UNCHANGED <<main, is_need_server_run_, ep_events_, client_cnt_, net, known,
                 users, misled>>

ThreadStep ==
  \/ LoopCondition
  \/ EpollWait \/ EpollWaitTimeout \/ EpollWaitFails
  \/ HandledAll \/ HandleListener
  \/ \E x \in Contexts :
       \/ HandleError(x) \/ RecvFails(x) \/ RecvReturns(x)
       \/ SendPendingAll(x) \/ SendPendingSome(x) \/ SendPendingFails(x)
  \/ \E c \in Client, x \in Contexts : AcceptNewClient(c, x)
  \/ AcceptDone \/ AcceptFails
  \/ TerminateClient \/ OnClientDisconnected \/ PushClientContextToCache

-----------------------------------------------------------------------------
(* SendData of the user's thread u.                                        *)

NotSenders == <<life, loop, pool, conn, backlog, known, overlapped>>

SendData(u, c) ==
  /\ pc[u] = Idle
  /\ c \in DOMAIN known /\ main = "on" /\ calls < MaxCalls
  /\ calls' = calls + 1
  /\ pc' = [pc EXCEPT ![u] = [at |-> "lock", ctx |-> known[c], to |-> c]]
  /\ UNCHANGED <<NotSenders, ctx, out, misled>>

GetLock(u) ==
  LET x == pc[u].ctx
  IN  /\ pc[u].at = "lock"
      /\ ctx[x].ctx_lock = Free
      /\ ctx' = [ctx EXCEPT ![x].ctx_lock = u]
      /\ pc' = [pc EXCEPT ![u].at = IF ctx[x].is_sent_pending THEN "queue" ELSE "send"]
      /\ UNCHANGED <<NotSenders, calls, out, misled>>

\* The call returns and leaves c in the context.
Return(u, c) ==
  /\ ctx' = [ctx EXCEPT ![pc[u].ctx] = [c EXCEPT !.ctx_lock = Free]]
  /\ pc' = [pc EXCEPT ![u] = Idle]
  /\ UNCHANGED <<NotSenders, calls>>

CanSend(u) == StateOf(ctx[pc[u].ctx].socket) \in {"open", "ended"}

\* send() takes something; the loop goes on or ends.
SendSome(u) ==
  /\ pc[u].at = "send" /\ CanSend(u)
  /\ Sends(ctx[pc[u].ctx].socket, {pc[u].to})
  /\ UNCHANGED out
  /\ Return(u, ctx[pc[u].ctx]) \/ UNCHANGED <<NotSenders, users, ctx>>

SendFails(u) ==
  /\ pc[u].at = "send" /\ ~CanSend(u)
  /\ Return(u, ctx[pc[u].ctx])
  /\ UNCHANGED <<out, misled>>

\* What is sent later is put into the queue before epoll is told.
Queue(u) ==
  LET x == pc[u].ctx
  IN  /\ \/ pc[u].at = "queue" /\ pc' = [pc EXCEPT ![u].at = "queued"]
         \/ pc[u].at = "send" /\ CanSend(u) /\ pc' = [pc EXCEPT ![u].at = "blocked"]
      /\ ctx' = [ctx EXCEPT ![x].pending = @ \cup {pc[u].to}]
      /\ UNCHANGED <<NotSenders, calls, out, misled>>

ControlEpollOut(u) ==
  LET c == ctx[pc[u].ctx]
  IN  /\ pc[u].at \in {"queued", "blocked"}
      /\ StateOf(c.socket) # "closed"
      /\ out' = out \cup {c.socket}
      /\ Return(u, [c EXCEPT !.is_sent_pending = @ \/ pc[u].at = "blocked"])
      /\ UNCHANGED misled

\* What was queued is taken back; only an earlier call may have queued more.
ControlEpollFails(u) ==
  LET c == ctx[pc[u].ctx]
  IN  /\ pc[u].at \in {"queued", "blocked"}
      /\ StateOf(c.socket) = "closed"
      /\ Return(u, [c EXCEPT !.pending = IF c.is_sent_pending THEN @ ELSE {}])
      /\ UNCHANGED <<out, misled>>

InSendData(u) ==
  pc[u] # Idle /\
    \/ GetLock(u) \/ SendSome(u) \/ SendFails(u)
    \/ Queue(u) \/ ControlEpollOut(u) \/ ControlEpollFails(u)

-----------------------------------------------------------------------------
(* The clients.                                                            *)

Connect(c) ==
  /\ main = "on"
  /\ conn[c] = "none" /\ \A d \in 1 .. c - 1 : conn[d] # "none"
  /\ conn' = [conn EXCEPT ![c] = "open"]
  /\ backlog' = backlog \cup {c}
  /\ UNCHANGED <<life, loop, pool, ctx, out, known, users, ghost>>

PeerEnds(c, how) ==
  /\ conn[c] = "open" \/ (conn[c] = "ended" /\ how = "reset")
  /\ conn' = [conn EXCEPT ![c] = how]
  /\ UNCHANGED <<life, loop, pool, ctx, backlog, out, known, users, ghost>>

Next ==
  \/ RunServer \/ StopServer \/ StopServerFlag \/ StopServerReturns
  \/ ThreadStep
  \/ \E u \in Users, c \in Client : SendData(u, c)
  \/ \E u \in Users : InSendData(u)
  \/ \E c \in Client : Connect(c) \/ \E how \in {"ended", "reset"} : PeerEnds(c, how)

Spec == Init /\ [][Next]_vars

\* epoll reports the sockets in turn.
Reports(c) ==
  EpollWait /\ c \in DOMAIN map_sock_ctx_ /\ map_sock_ctx_[c] \in DOMAIN ep_events_'

\* The threads go on while they are in the library; nobody must call, and no
\* client need do anything.
FairSpec ==
  /\ Spec
  /\ WF_vars(ThreadStep) /\ WF_vars(StopServerFlag) /\ WF_vars(StopServerReturns)
  /\ \A u \in Users : WF_vars(InSendData(u))
  /\ \A c \in Client : SF_vars(Reports(c))

-----------------------------------------------------------------------------
(* Every variable has its type; never are more clients counted off than   *)
(* counted.                                                                *)
TypeOK ==
  /\ main \in {"off", "on", "stop", "stopping", "stopped"}
  /\ thread \in {"none", "loop", "wait", "handle", "accept", "close", "callback", "push"}
  /\ at \in Contexts \cup {Listener}
  /\ is_need_server_run_ \in BOOLEAN /\ is_server_running_ \in BOOLEAN
  /\ client_cnt_ \in 0 .. MaxClients
  /\ DOMAIN ep_events_ \subseteq Contexts \cup {Listener}
  /\ Range(ep_events_) \subseteq {"IN", "OUT", "ERR"}
  /\ ctx \in [Contexts -> [socket : Client \cup {Nobody}, is_sent_pending : BOOLEAN,
                           pending : SUBSET Client, ctx_lock : Users \cup {Loop, Free}]]
  /\ DOMAIN map_sock_ctx_ \subseteq Client /\ InUse \subseteq Contexts
  /\ queue_ctx_cache_ \subseteq Contexts
  /\ conn \in [Client -> {"none", "open", "ended", "reset", "refused", "closed"}]
  /\ backlog \subseteq Client /\ out \subseteq Client
  /\ DOMAIN known \subseteq Client /\ Range(known) \subseteq Contexts
  /\ \A u \in Users :
       pc[u] = Idle \/ pc[u] \in [at : {"lock", "queue", "queued", "send", "blocked"},
                                  ctx : Contexts, to : Client]
  /\ calls \in 0 .. MaxCalls
  /\ misled \subseteq Client
  /\ overlapped \in BOOLEAN

(* No context serves two clients, or a client and the cache; the map and   *)
(* the contexts agree.                                                     *)
Exclusive ==
  /\ \A c, d \in DOMAIN map_sock_ctx_ : map_sock_ctx_[c] = map_sock_ctx_[d] => c = d
  /\ \A c \in DOMAIN map_sock_ctx_ : ctx[map_sock_ctx_[c]].socket = c
  /\ InUse \cap queue_ctx_cache_ = {}

(* What is sent to a client was meant for it, unless a context has ever    *)
(* been reset under a call of SendData, which the library does not prevent *)
(* (PushClientContextToCache does not take ctx_lock).                      *)
OwnBytes == ~overlapped => misled = {}

(* GetCountOfClients counts the clients there are whenever the loop waits. *)
CountOfClients == thread = "wait" => client_cnt_ = Cardinality(DOMAIN map_sock_ctx_)

(* Nobody waits for nobody.  Who has a context's lock is in SendData with   *)
(* that context and beyond the lock, or is the loop that terminates its    *)
(* client: either goes on without another lock.  StopServer waits for a    *)
(* thread that is there.                                                   *)
HoldersRun ==
  /\ \A x \in Contexts :
       \/ ctx[x].ctx_lock = Free
       \/ ctx[x].ctx_lock = Loop /\ at = x /\ thread \in {"close", "callback", "push"}
       \/ \E u \in Users : /\ ctx[x].ctx_lock = u /\ pc[u] # Idle
                           /\ pc[u].at # "lock" /\ pc[u].ctx = x
  /\ is_server_running_ => thread # "none"

\* Whoever is no longer known has been reported, or has never been accepted.
Told(c) ==
  IF c \in DOMAIN known THEN "connected"
  ELSE IF conn[c] = "closed" THEN "disconnected" ELSE "nothing"

(* The users are told of each client once, of its end at most once, and    *)
(* no two clients they know of have one context.                           *)
Callbacks == INSTANCE ClientCallbacks WITH
               Context <- Contexts, Silent <- FALSE,
               told <- [c \in Client |-> Told(c)], context <- known

IsCallbacks == Callbacks!Spec

(* A client that leaves is reported to the user, unless the loop ends.     *)
HearsOfEnd ==
  \A c \in Client :
    c \in DOMAIN known /\ conn[c] \in {"ended", "reset"}
      ~> c \notin DOMAIN known \/ thread = "none"

(* StopServer returns, whatever the loop, the clients and the users do.    *)
StopReturns == main = "stop" ~> main = "stopped"

(* asock_nix_server.hpp:202, after a failed send to one client: the server *)
(* keeps running.  Its thread ends only on its own condition, a failure of *)
(* epoll_wait or of accept.                                                *)
ServesOn ==
  [][thread' = "none" => thread \in {"none", "loop", "wait", "accept"}]_vars
=============================================================================
