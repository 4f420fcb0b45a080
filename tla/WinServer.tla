------------------------------ MODULE WinServer ------------------------------
(***************************************************************************)
(* The TCP server on Windows (asock_win_server.hpp): a thread that accepts *)
(* clients, worker threads that take completed operations from one port,   *)
(* users' threads in SendData, and StopServer.                             *)
(*                                                                         *)
(* A context counts the receives outstanding on it; the worker that finds  *)
(* the count at zero when a connection has ended terminates the client and *)
(* puts the context into the cache.  IssueRecv counts a receive after      *)
(* WSARecv has issued it, so that another worker may handle it before it   *)
(* is counted.  A send has a PER_IO_DATA of its own, from another cache.   *)
(*                                                                         *)
(* An operation completes when a worker takes its packet.  What is sent    *)
(* and received is left out, and a send completes whole or not at all: a   *)
(* partial one ends in delete[] of an advanced pointer.  Memory does not   *)
(* run out, and a socket can always be registered with the port: both end  *)
(* in exit() where a client is accepted.                                   *)
(***************************************************************************)
EXTENDS Integers, Sequences, FiniteSets, Functions

CONSTANTS
  Workers,       \* max_worker_cnt_ threads of WorkerThreadRoutine
  Users,         \* the users' threads that send
  max_event_,    \* the caches grow by as many contexts, and twice as many records
  MaxClients,    \* bound on the clients that connect
  MaxSends       \* bound on the sends outstanding

ASSUME WinServerAssumption ==
  /\ IsFiniteSet(Workers) /\ Workers # {} /\ "acceptor" \notin Workers
  /\ IsFiniteSet(Users)
  /\ max_event_ \in Nat \ {0} /\ MaxClients \in Nat /\ MaxSends \in Nat

\* A client is the socket that WSAAccept returns for it.
Client  == 1 .. MaxClients
INVALID_SOCKET == 0
\* No more contexts are built than these.
Context == 1 .. MaxClients + Cardinality(Workers) + max_event_

VARIABLES
  main,                  \* where the thread is that runs and stops the server
  acceptor,              \* where AcceptThreadRoutine is, and with which client
  worker,                \* where each worker is, and with which client
  sender,                \* where each user's thread is, and with which context
  is_server_running_, is_need_accept_, client_cnt_, cur_quit_cnt_,
  ctx,                   \* the contexts
  queue_ctx_cache_, contexts,             \* and how many have been built
  queue_per_io_data_cache_, records,      \* how many are in it, and have been built
  conn,                  \* the state of each connection
  key,                   \* the context of each connection until it is freed
  told,                  \* which callbacks the user has had of each client
  receiving,             \* the receives outstanding on each connection
  sending,               \* the number of sends outstanding
  quits,                 \* the contexts in the IO_QUIT packets of the port
  excused                \* the clients whose end need not be reported

life    == <<main, is_server_running_, is_need_accept_, cur_quit_cnt_>>
pool    == <<client_cnt_, ctx, queue_ctx_cache_, contexts>>
perIo   == <<queue_per_io_data_cache_, records>>
vars    == <<main, acceptor, worker, sender, is_server_running_,
             is_need_accept_, client_cnt_, cur_quit_cnt_, ctx, queue_ctx_cache_, contexts,
             queue_per_io_data_cache_, records, conn, key, told, receiving, sending, quits,
             excused>>

None  == [at |-> "none"]     \* no thread, or outside the library
Get   == [at |-> "get"]      \* in GetQueuedCompletionStatus
Accepting == [at |-> "accept"]   \* looks for clients with WSAAccept
With(at, c) == [at |-> at, client |-> c]
Blank == [socket |-> INVALID_SOCKET, is_connected |-> FALSE, recv_ref_cnt |-> 0]

Upto(n, m) == [i \in 1 .. m |-> n + i]

Init ==
  /\ main = "off"
  /\ acceptor = None
  /\ worker = [w \in Workers |-> None]
  /\ sender = [u \in Users |-> None]
  /\ is_server_running_ = FALSE /\ is_need_accept_ = FALSE
  /\ client_cnt_ = 0 /\ cur_quit_cnt_ = 0
  /\ ctx = [x \in Context |-> Blank]
  /\ queue_ctx_cache_ = <<>> /\ contexts = 0
  /\ queue_per_io_data_cache_ = 0 /\ records = 0
  /\ conn = [c \in Client |-> "none"] /\ key = [c \in Client |-> 0]
  /\ told = [c \in Client |-> "nothing"]
  /\ receiving = [c \in Client |-> 0]
  /\ sending = 0
  /\ quits = {} /\ excused = {}

-----------------------------------------------------------------------------
(* The two caches, each behind a lock of its own; an empty one is filled.  *)

\* Mutant: the contexts are not taken off the queue.
PopLeavingInCache(taken) ==
  LET missing == Len(taken) - Len(queue_ctx_cache_)
      new     == IF missing > 0 THEN max_event_ * ((missing - 1) \div max_event_ + 1) ELSE 0
  IN  /\ queue_ctx_cache_' = queue_ctx_cache_ \o Upto(contexts, new)
      /\ taken = SubSeq(queue_ctx_cache_', 1, Len(taken))
      /\ contexts' = contexts + new

\* The contexts in the sequence taken are taken out of the cache, one after
\* the other.  (The lock is given up between looking and building: if one is
\* put back then, more are built than are needed, and nothing else changes.)
PopClientContextFromCache(taken) ==
  LET missing == Len(taken) - Len(queue_ctx_cache_)
      new     == IF missing > 0 THEN max_event_ * ((missing - 1) \div max_event_ + 1) ELSE 0
      queue   == queue_ctx_cache_ \o Upto(contexts, new)
  IN  /\ taken = SubSeq(queue, 1, Len(taken))
      /\ queue_ctx_cache_' = SubSeq(queue, Len(taken) + 1, Len(queue))
      /\ contexts' = contexts + new

\* ReSetCtxPtr, whatever is outstanding.
PushClientContextToCache(x) ==
  /\ ctx' = [ctx EXCEPT ![x] = Blank]
  /\ queue_ctx_cache_' = Append(queue_ctx_cache_, x)
  /\ UNCHANGED contexts

\* Which record it is makes no difference.
PopPerIoDataFromCache ==
  LET built == IF queue_per_io_data_cache_ = 0 THEN records + 2 * max_event_ ELSE records
  IN  /\ queue_per_io_data_cache_' = queue_per_io_data_cache_ + (built - records) - 1
      /\ records' = built

PushPerIoDataToCache ==
  queue_per_io_data_cache_' = queue_per_io_data_cache_ + 1 /\ UNCHANGED records

-----------------------------------------------------------------------------
(* The clients.                                                            *)

Closed(s) == [c \in Client |-> IF c = s THEN "closed" ELSE conn[c]]

\* The accept thread has called exit(): no thread goes on.
Exited == acceptor.at = "exit"

AtClient ==
  /\ ~Exited
  /\ UNCHANGED <<life, acceptor, worker, sender, pool, perIo, told, key, receiving, sending,
                 quits, excused>>

Connect(c) ==
  /\ main = "on"
  /\ conn[c] = "none" /\ \A d \in 1 .. c - 1 : conn[d] # "none"
  /\ conn' = [conn EXCEPT ![c] = "open"]
  /\ AtClient

\* It closes or resets its connection; which of the two shows where a call on
\* the connection fails or not.  Bound: no client connects or ends its
\* connection once StopServer has been called; workers may handle an end
\* after that.
PeerEnds(c) ==
  /\ main = "on"
  /\ conn[c] = "open"
  /\ conn' = [conn EXCEPT ![c] = "ended"]
  /\ AtClient

-----------------------------------------------------------------------------
(* IssueRecv, of whichever thread, for the client c.                       *)

Issue(c) ==
  LET s == ctx[key[c]].socket
  IN  /\ s # INVALID_SOCKET /\ conn[s] # "closed"
      /\ receiving' = [receiving EXCEPT ![s] = @ + 1]

IssueFails(c) ==
  LET s == ctx[key[c]].socket
  IN  /\ s # INVALID_SOCKET => conn[s] \in {"ended", "closed"}
      /\ conn' = Closed(s)
      /\ excused' = excused \cup {c}

\* Mutant: the receive is counted where it is issued as well.
CountRecvTwice(c) == ctx' = [ctx EXCEPT ![key[c]].recv_ref_cnt = @ + 2]

CountRecv(c) == ctx' = [ctx EXCEPT ![key[c]].recv_ref_cnt = @ + 1]

Free(c) ==
  /\ PushClientContextToCache(key[c])
  /\ key' = [key EXCEPT ![c] = 0]

\* Mutant: a client whose receive cannot be issued stays counted.
DropUncounted(c) == Free(c) /\ UNCHANGED client_cnt_

\* The client is counted off and its context freed; nobody calls the user.
DropClient(c) == Free(c) /\ client_cnt_' = client_cnt_ - 1

-----------------------------------------------------------------------------
(* AcceptThreadRoutine.                                                    *)

InAcceptor == UNCHANGED <<main, is_need_accept_, cur_quit_cnt_, worker, sender,
                          perIo, sending, quits>>

\* The test of the loop, made as the thread comes back to it.
Loops == acceptor' = IF is_need_accept_ THEN Accepting ELSE None

AcceptThreadStarts ==
  /\ acceptor.at = "new"
  /\ Loops /\ is_server_running_' = TRUE
  /\ InAcceptor /\ UNCHANGED <<pool, conn, key, receiving, told, excused>>

\* It has found nobody, and looks whether it shall go on.  (A client may have
\* come in between.  As long as it shall, it is back where it was.)
AcceptThreadEnds ==
  /\ acceptor = Accepting /\ ~is_need_accept_
  /\ acceptor' = None
  /\ InAcceptor /\ UNCHANGED <<is_server_running_, pool, conn, key, receiving, told, excused>>

\* The client that has waited longest to be accepted.
Waits(c) ==
  /\ conn[c] # "none" /\ told[c] = "nothing"
  /\ \A d \in 1 .. c - 1 : told[d] # "nothing"

\* The connection was reset before.  The thread ends for good, and with it
\* the program if StopServer has been called since the test of the loop.
AcceptFails ==
  /\ acceptor = Accepting
  /\ \E c \in Client : Waits(c) /\ conn[c] = "ended"
  /\ acceptor' = IF is_need_accept_ THEN None ELSE [at |-> "exit"]
  /\ InAcceptor /\ UNCHANGED <<is_server_running_, pool, conn, key, receiving, told, excused>>

\* Up to the end of the callback OnClientConnected.
Accept(c, x) ==
  /\ acceptor = Accepting
  /\ Waits(c)
  /\ client_cnt_' = client_cnt_ + 1
  /\ PopClientContextFromCache(<<x>>)
  /\ ctx' = [ctx EXCEPT ![x] = [Blank EXCEPT !.socket = c, !.is_connected = TRUE]]
  /\ key' = [key EXCEPT ![c] = x]
  /\ told' = [told EXCEPT ![c] = "connected"]
  /\ acceptor' = With("issue", c)
  /\ InAcceptor /\ UNCHANGED <<is_server_running_, conn, receiving, excused>>

AcceptIssue ==
  /\ acceptor.at = "issue"
  /\ Issue(acceptor.client)
  /\ acceptor' = [acceptor EXCEPT !.at = "count"]
  /\ InAcceptor /\ UNCHANGED <<is_server_running_, pool, conn, key, told, excused>>

AcceptIssueFails ==
  /\ acceptor.at = "issue"
  /\ IssueFails(acceptor.client) /\ DropClient(acceptor.client)
  /\ Loops
  /\ InAcceptor /\ UNCHANGED <<is_server_running_, receiving, told>>

AcceptCount ==
  /\ acceptor.at = "count"
  /\ CountRecv(acceptor.client)
  /\ Loops
  /\ InAcceptor
  /\ UNCHANGED <<is_server_running_, client_cnt_, queue_ctx_cache_, contexts, conn, key,
                 receiving, told, excused>>

AcceptThread ==
  \/ AcceptThreadStarts \/ AcceptThreadEnds \/ AcceptFails
  \/ \E c \in Client, x \in Context : Accept(c, x)
  \/ AcceptIssue \/ AcceptIssueFails \/ AcceptCount

-----------------------------------------------------------------------------
(* WorkerThreadRoutine of the worker w.                                    *)

Goes(w, to) == worker' = [worker EXCEPT ![w] = to]

\* w is given the packet of the receive that is outstanding on c.
TakesRecv(w, c) ==
  /\ worker[w] = Get
  /\ receiving[c] > 0
  /\ receiving' = [receiving EXCEPT ![c] = @ - 1]

InWorker == ~Exited /\ UNCHANGED <<main, is_need_accept_, acceptor, sender>>

Receives ==
  InWorker /\ UNCHANGED <<is_server_running_, cur_quit_cnt_, perIo, sending, quits>>

\* RecvData calls the user back before the next receive is issued.
TakeData(w, c) ==
  /\ TakesRecv(w, c) /\ conn[c] = "open"
  /\ ctx' = [ctx EXCEPT ![key[c]].recv_ref_cnt = @ - 1]
  /\ Goes(w, With("issue", c))
  /\ Receives
  /\ UNCHANGED <<client_cnt_, queue_ctx_cache_, contexts, conn, key, told, excused>>

\* Mutant: the client is terminated although a receive has not been counted.
TakeEndUncounted(w, c) ==
  LET left == ctx[key[c]].recv_ref_cnt - 1
  IN  /\ TakesRecv(w, c) /\ conn[c] # "open"
      /\ ctx' = [ctx EXCEPT ![key[c]].recv_ref_cnt = left]
      /\ Goes(w, With("terminate", c))
      /\ Receives
      /\ UNCHANGED <<client_cnt_, queue_ctx_cache_, contexts, conn, key, told, excused>>

\* Mutant: the count is compared before the receive is counted off.
TakeEndEarly(w, c) ==
  LET left == ctx[key[c]].recv_ref_cnt
  IN  /\ TakesRecv(w, c) /\ conn[c] # "open"
      /\ ctx' = [ctx EXCEPT ![key[c]].recv_ref_cnt = left - 1]
      /\ IF left = 0
         THEN Goes(w, With("terminate", c)) /\ UNCHANGED excused
         ELSE Goes(w, Get) /\ excused' = IF left = 1 THEN excused ELSE excused \cup {c}
      /\ Receives
      /\ UNCHANGED <<client_cnt_, queue_ctx_cache_, contexts, conn, key, told>>

\* The connection has ended.  With a count other than zero another receive is
\* taken to be outstanding.
TakeEnd(w, c) ==
  LET left == ctx[key[c]].recv_ref_cnt - 1
  IN  /\ TakesRecv(w, c) /\ conn[c] # "open"
      /\ ctx' = [ctx EXCEPT ![key[c]].recv_ref_cnt = left]
      /\ IF left = 0
         THEN Goes(w, With("terminate", c)) /\ UNCHANGED excused
         ELSE Goes(w, Get) /\ excused' = excused \cup {c}
      /\ Receives
      /\ UNCHANGED <<client_cnt_, queue_ctx_cache_, contexts, conn, key, told>>

WorkerIssue(w) ==
  /\ worker[w].at = "issue"
  /\ Issue(worker[w].client)
  /\ Goes(w, [worker[w] EXCEPT !.at = "count"])
  /\ Receives /\ UNCHANGED <<pool, conn, key, told, excused>>

WorkerIssueFails(w) ==
  LET c == worker[w].client
  IN  /\ worker[w].at = "issue"
      /\ IssueFails(c)
      /\ IF ctx[key[c]].recv_ref_cnt = 0
         THEN DropClient(c)
         ELSE /\ ctx' = [ctx EXCEPT ![key[c]].socket = INVALID_SOCKET]
              /\ UNCHANGED <<client_cnt_, queue_ctx_cache_, contexts, key>>
      /\ Goes(w, Get)
      /\ Receives /\ UNCHANGED <<receiving, told>>

WorkerCount(w) ==
  /\ worker[w].at = "count"
  /\ CountRecv(worker[w].client)
  /\ Goes(w, Get)
  /\ Receives
  /\ UNCHANGED <<client_cnt_, queue_ctx_cache_, contexts, conn, key, receiving, told, excused>>

\* The callback OnClientDisconnected is called in it; nothing that other
\* threads do before it is over depends on how far it has got.
TerminateClient(w) ==
  LET c == worker[w].client
  IN  /\ worker[w].at = "terminate"
      /\ client_cnt_' = client_cnt_ - 1
      /\ told' = [told EXCEPT ![c] = "disconnected"]
      /\ conn' = Closed(ctx[key[c]].socket)
      /\ Free(c)
      /\ Goes(w, Get)
      /\ Receives /\ UNCHANGED <<receiving, excused>>

\* The record goes back to its cache, whether the send failed or not: when
\* its io_type is looked at after that, it is IO_UNKNOWN.
TakeSent(w) ==
  /\ worker[w] = Get
  /\ sending > 0 /\ sending' = sending - 1
  /\ PushPerIoDataToCache
  /\ InWorker
  /\ UNCHANGED <<is_server_running_, cur_quit_cnt_, worker, pool, conn, key, told,
                 receiving, quits, excused>>

\* The packet of StopServer: its context goes back, and the worker is counted
\* among those that have quit.  Nobody reads the count before QuitCompare.
TakeQuit(w, x) ==
  /\ worker[w] = Get
  /\ x \in quits /\ quits' = quits \ {x}
  /\ PushClientContextToCache(x)
  /\ cur_quit_cnt_' = cur_quit_cnt_ + 1
  /\ Goes(w, [at |-> "counted"])
  /\ InWorker
  /\ UNCHANGED <<is_server_running_, client_cnt_, perIo, conn, key, told, receiving, sending,
                 excused>>

\* Mutant: the first worker to quit takes the server for stopped.
QuitFirst(w) ==
  /\ worker[w].at = "counted"
  /\ is_server_running_' = FALSE
  /\ Goes(w, None)
  /\ InWorker
  /\ UNCHANGED <<cur_quit_cnt_, pool, perIo, conn, key, told, receiving, sending, quits, excused>>

\* Mutant: the worker compares what the count was before it was increased.
QuitEarly(w) ==
  /\ worker[w].at = "counted"
  /\ is_server_running_' = (is_server_running_ /\ cur_quit_cnt_ - 1 # Cardinality(Workers))
  /\ Goes(w, None)
  /\ InWorker
  /\ UNCHANGED <<cur_quit_cnt_, pool, perIo, conn, key, told, receiving, sending, quits, excused>>

\* The worker looks at the count, which others may have increased since, and
\* ends.
QuitCompare(w) ==
  /\ worker[w].at = "counted"
  /\ is_server_running_' = (is_server_running_ /\ cur_quit_cnt_ # Cardinality(Workers))
  /\ Goes(w, None)
  /\ InWorker
  /\ UNCHANGED <<cur_quit_cnt_, pool, perIo, conn, key, told, receiving, sending, quits, excused>>

\* What a worker does with the packet it has taken.
WorkerGoesOn(w) ==
  \/ WorkerIssue(w) \/ WorkerIssueFails(w) \/ WorkerCount(w) \/ TerminateClient(w)
  \/ QuitCompare(w)

WorkerThread(w) ==
  \/ \E c \in Client : TakeData(w, c) \/ TakeEnd(w, c)
  \/ TakeSent(w) \/ \E x \in Context : TakeQuit(w, x)
  \/ WorkerGoesOn(w)

-----------------------------------------------------------------------------
(* SendData of the user's thread u; it has ctx_lock from the first step to *)
(* the last.                                                               *)

InSender ==
  /\ ~Exited
  /\ UNCHANGED <<life, acceptor, worker, client_cnt_, queue_ctx_cache_, contexts, key, told,
                 receiving, quits, excused>>

SendData(u, c) ==
  LET x == key[c]
  IN  /\ sender[u] = None /\ \A v \in Users : sender[v] # None => sender[v].ctx # x
      /\ main = "on" /\ told[c] = "connected" /\ x # 0 /\ sending < MaxSends
      /\ ctx[x].socket # INVALID_SOCKET /\ ctx[x].is_connected
      /\ PopPerIoDataFromCache
      /\ sender' = [sender EXCEPT ![u] = [at |-> "send", ctx |-> x]]
      /\ InSender /\ UNCHANGED <<ctx, conn, sending>>

\* On whatever connection the context has by now.
WSASend(u) ==
  LET s == ctx[sender[u].ctx].socket
  IN  /\ sender[u].at = "send"
      /\ s # INVALID_SOCKET
      /\ sending' = sending + 1
      /\ sender' = [sender EXCEPT ![u] = None]
      /\ InSender /\ UNCHANGED <<ctx, perIo, conn>>

\* Mutant: the record is left to the send that has failed.
WSASendLeaks(u) ==
  LET s == ctx[sender[u].ctx].socket
  IN  /\ sender[u].at = "send"
      /\ s # INVALID_SOCKET => conn[s] \in {"ended", "closed"}
      /\ sender' = [sender EXCEPT ![u].at = "close"]
      /\ InSender /\ UNCHANGED <<ctx, perIo, conn, sending>>

WSASendFails(u) ==
  LET s == ctx[sender[u].ctx].socket
  IN  /\ sender[u].at = "send"
      /\ s # INVALID_SOCKET => conn[s] \in {"ended", "closed"}
      /\ PushPerIoDataToCache
      /\ sender' = [sender EXCEPT ![u].at = "close"]
      /\ InSender /\ UNCHANGED <<ctx, conn, sending>>

\* The connection that the context has when it is closed, perhaps that of
\* another client; the receive outstanding on it will report that.
CloseFailed(u) ==
  LET x == sender[u].ctx
  IN  /\ sender[u].at = "close"
      /\ conn' = Closed(ctx[x].socket)
      /\ ctx' = [ctx EXCEPT ![x].socket = INVALID_SOCKET]
      /\ sender' = [sender EXCEPT ![u] = None]
      /\ InSender /\ UNCHANGED <<perIo, sending>>

InSendData(u) == WSASend(u) \/ WSASendFails(u) \/ CloseFailed(u)

-----------------------------------------------------------------------------
(* The thread that runs and stops the server.                              *)

InMain ==
  /\ ~Exited
  /\ UNCHANGED <<client_cnt_, ctx, cur_quit_cnt_, sender, key, told, receiving, sending, excused>>

RunServer ==
  /\ main = "off"
  /\ main' = "on"
  /\ worker' = [w \in Workers |-> Get]
  /\ queue_ctx_cache_' = Upto(0, max_event_) /\ contexts' = max_event_
  /\ queue_per_io_data_cache_' = 2 * max_event_ /\ records' = 2 * max_event_
  /\ is_need_accept_' = TRUE /\ is_server_running_' = TRUE
  /\ acceptor' = [at |-> "new"]
  /\ InMain /\ UNCHANGED <<conn, quits>>

\* One packet for each worker, as if the first was taken after the last has
\* been posted.
StopServer(taken) ==
  /\ main = "on"
  /\ main' = "posted"
  /\ PopClientContextFromCache(taken)
  /\ quits' = Range(taken)
  /\ InMain
  /\ UNCHANGED <<is_server_running_, is_need_accept_, acceptor, worker, perIo, conn>>

StopServerAccepting ==
  /\ main = "posted"
  /\ main' = "join" /\ is_need_accept_' = FALSE
  /\ InMain
  /\ UNCHANGED <<is_server_running_, acceptor, worker, queue_ctx_cache_, contexts,
                 perIo, conn, quits>>

\* Closing listen_socket_ ends the clients that wait to be accepted.
StopServerJoin ==
  /\ main = "join" /\ acceptor = None
  /\ main' = "wait"
  /\ conn' = [c \in Client |-> IF told[c] = "nothing" THEN "closed" ELSE conn[c]]
  /\ InMain
  /\ UNCHANGED <<is_server_running_, is_need_accept_, acceptor, worker,
                 queue_ctx_cache_, contexts, perIo, quits>>

StopServerReturns ==
  /\ main = "wait" /\ ~is_server_running_
  /\ main' = "returned"
  /\ InMain
  /\ UNCHANGED <<is_server_running_, is_need_accept_, acceptor, worker,
                 queue_ctx_cache_, contexts, perIo, conn, quits>>

InStopServer ==
  \/ StopServerAccepting \/ StopServerJoin \/ StopServerReturns

Next ==
  \/ RunServer \/ \E taken \in [1 .. Cardinality(Workers) -> Context] : StopServer(taken)
  \/ InStopServer
  \/ AcceptThread
  \/ \E w \in Workers : WorkerThread(w)
  \/ \E u \in Users : InSendData(u) \/ \E c \in Client : SendData(u, c)
  \/ \E c \in Client : Connect(c) \/ PeerEnds(c)

Spec == Init /\ [][Next]_vars

\* Threads in the library go on; nobody must call, and no client need do
\* anything.  The port is a queue: no packet waits forever while workers
\* keep taking others.  (One condition is enough for the packets that matter:
\* there is one for each end and each worker, so that not all that are taken
\* again and again can be others.)
TakesLast == \E w \in Workers :
  \/ \E c \in Client : TakeEnd(w, c)
  \/ \E x \in Context : TakeQuit(w, x)

FairSpec ==
  /\ Spec
  /\ WF_vars(InStopServer) /\ WF_vars(AcceptThread)
  /\ \A w \in Workers : WF_vars(WorkerGoesOn(w))
  /\ SF_vars(TakesLast)

-----------------------------------------------------------------------------

(* Every variable has its type; no count goes below what threads may have  *)
(* left uncounted.                                                         *)
TypeOK ==
  /\ main \in {"off", "on", "posted", "join", "wait", "returned"}
  /\ cur_quit_cnt_ \in 0 .. Cardinality(Workers)
  /\ acceptor \in [at : {"none", "new", "accept", "exit"}]
                 \cup [at : {"issue", "count"}, client : Client]
  /\ worker \in [Workers -> [at : {"none", "get", "counted"}]
                       \cup [at : {"issue", "count", "terminate"}, client : Client]]
  /\ sender \in [Users -> {None} \cup [at : {"send", "close"}, ctx : Context]]
  /\ is_server_running_ \in BOOLEAN /\ is_need_accept_ \in BOOLEAN
  /\ client_cnt_ \in 0 .. MaxClients
  /\ ctx \in [Context -> [socket : Client \cup {INVALID_SOCKET}, is_connected : BOOLEAN,
                          recv_ref_cnt : -Cardinality(Workers) .. 1]]
  /\ queue_ctx_cache_ \in Seq(Context) /\ contexts \in Context \cup {0}
  /\ queue_per_io_data_cache_ \in 0 .. records /\ records \in Nat
  /\ conn \in [Client -> {"none", "open", "ended", "closed"}]
  /\ key \in [Client -> Context \cup {0}]
  /\ told \in [Client -> {"nothing", "connected", "disconnected"}]
  /\ receiving \in [Client -> 0 .. 1]
  /\ sending \in 0 .. MaxSends + Cardinality(Users)
  /\ quits \subseteq Context /\ excused \subseteq Client

\* A client is in use while it has a context.
InUse == {c \in Client : key[c] # 0}

\* The threads that have issued a receive for c and have yet to count it, and
\* those that handle c otherwise.
Thread == Workers \cup {"acceptor"}
Position(t) == IF t = "acceptor" THEN acceptor ELSE worker[t]
Counting(c) == {t \in Thread : Position(t) = With("count", c)}
Handling(c) == {t \in Thread : Position(t) \in {With("issue", c), With("terminate", c)}}

(* A context is in the cache, in an IO_QUIT packet or with one client, and *)
(* in one of these once; one that is in the cache has been reset and no    *)
(* late thread has written to it.                                          *)
Exclusive ==
  /\ IsInjective(queue_ctx_cache_)
  /\ \A c, d \in InUse : key[c] = key[d] => c = d
  /\ \A x \in Range(queue_ctx_cache_) :
       x \notin quits /\ ctx[x] = Blank /\ \A c \in InUse : key[c] # x
  /\ \A c \in InUse : key[c] \notin quits

(* Nothing counts receives but recv_ref_cnt: it is what is outstanding,    *)
(* less what has been issued and not been counted; either one receive is   *)
(* outstanding or one thread handles the client, and none once its context *)
(* is free.                                                                *)
CountsReceives ==
  \A c \in Client :
    /\ c \in InUse => ctx[key[c]].recv_ref_cnt = receiving[c] - Cardinality(Counting(c))
    /\ Cardinality(Handling(c)) + receiving[c] <= 1
    /\ c \notin InUse => receiving[c] = 0 /\ Counting(c) = {} /\ Handling(c) = {}

(* GetCountOfClients: clients are counted from accept until they are       *)
(* terminated or their receive cannot be issued, each once.                *)
CountOfClients == client_cnt_ = Cardinality(InUse)

(* No record of a send is lost or given back twice.                        *)
RecordsAccounted ==
  records =
    queue_per_io_data_cache_ + Cardinality({u \in Users : sender[u].at = "send"}) + sending

(* When StopServer has returned the accept thread has ended, and each      *)
(* worker has taken its IO_QUIT packet and handles no client: all that one *)
(* may still have to do is to compare the count of those that have quit.   *)
NoThreadAtWork ==
  main = "returned" =>
    /\ acceptor = None /\ quits = {}
    /\ \A w \in Workers : worker[w].at \in {"counted", "none"}

(* The user is told of each client once, of its end at most once, and its  *)
(* context serves no other meanwhile, though it may go without a word.     *)
Callbacks == INSTANCE ClientCallbacks WITH
               Silent <- TRUE, context <- [c \in InUse |-> key[c]]

IsCallbacks == Callbacks!Spec

(* A user who was told of a client is told of its end, unless the receive  *)
(* that brought the end was not counted yet, the next receive could not be *)
(* issued, or the server is being stopped.                                 *)
HearsOfEnd ==
  \A c \in Client :
    told[c] = "connected" /\ conn[c] # "open"
      ~> told[c] = "disconnected" \/ c \in excused \/ main # "on"

(* StopServer returns if the accept thread had started when it was called, *)
(* or that thread calls exit(), as it does when StopServer overtakes its   *)
(* accepting a client whose connection has been reset.  A thread that has  *)
(* not started may set is_server_running_ again after the last worker has  *)
(* cleared it.                                                             *)
StopReturns ==
  main = "posted" /\ quits # {} /\ acceptor.at # "new" ~> main = "returned" \/ Exited
=============================================================================
