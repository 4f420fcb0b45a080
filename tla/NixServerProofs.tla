---------------------------- MODULE NixServerProofs ----------------------------
(***************************************************************************)
(* Contexts never serve two clients, clients are counted, and nobody is    *)
(* sent what was meant for another unless a context has been reset under a *)
(* call: for any number of contexts, clients, users' threads and calls.    *)
(***************************************************************************)
EXTENDS NixServer, FiniteSetTheorems, TLAPS

Record == [socket : Client \cup {Nobody}, is_sent_pending : BOOLEAN,
           pending : SUBSET Client, ctx_lock : Users \cup {Loop, Free}]
Steps == {"lock", "queue", "queued", "send", "blocked"}
Calling == [at : Steps, ctx : Contexts, to : Client]

\* The type invariant, by what a step of the loop or of a user can disturb.
LifeType ==
  /\ main \in {"off", "on", "stop", "stopping", "stopped"}
  /\ is_need_server_run_ \in BOOLEAN
LoopType ==
  /\ thread \in {"none", "loop", "wait", "handle", "accept", "close", "callback", "push"}
  /\ at \in Contexts \cup {Listener}
  /\ is_server_running_ \in BOOLEAN
  /\ DOMAIN ep_events_ \subseteq Contexts \cup {Listener}
  /\ Range(ep_events_) \subseteq {"IN", "OUT", "ERR"}
PoolType ==
  /\ client_cnt_ \in 0 .. MaxClients
  /\ DOMAIN map_sock_ctx_ \subseteq Client /\ InUse \subseteq Contexts
  /\ queue_ctx_cache_ \subseteq Contexts
KnownType == DOMAIN known \subseteq Client /\ Range(known) \subseteq Contexts
NetType ==
  /\ conn \in [Client -> {"none", "open", "ended", "reset", "refused", "closed"}]
  /\ backlog \subseteq Client
UsersType ==
  /\ ctx \in [Contexts -> Record]
  /\ pc \in [Users -> {Idle} \cup Calling]
  /\ calls \in 0 .. MaxCalls
  /\ out \subseteq Client
  /\ misled \subseteq Client /\ overlapped \in BOOLEAN

Types == LifeType /\ LoopType /\ PoolType /\ KnownType /\ NetType /\ UsersType

\* A client is being terminated.
Closing == thread \in {"close", "callback", "push"}

MapOK ==
  /\ \A c, d \in DOMAIN map_sock_ctx_ : map_sock_ctx_[c] = map_sock_ctx_[d] => c = d
  /\ \A c \in DOMAIN map_sock_ctx_ : ctx[map_sock_ctx_[c]].socket = c
  /\ \A x \in Contexts \ InUse : ctx[x].socket = Nobody
  /\ InUse \cap queue_ctx_cache_ = {}

BacklogOK ==
  /\ backlog \cap DOMAIN map_sock_ctx_ = {}
  /\ \A c \in Client : conn[c] = "none" => (c \notin backlog /\ c \notin DOMAIN map_sock_ctx_)

LoopOK ==
  /\ DOMAIN ep_events_ \subseteq InUse \cup {Listener}
  /\ Closing => (at \in InUse /\ at \notin DOMAIN ep_events_)
  /\ main = "off" => (thread = "none" /\ client_cnt_ = 0 /\ DOMAIN map_sock_ctx_ = {})

KnownOK ==
  /\ \A c \in DOMAIN known : c \in DOMAIN map_sock_ctx_ /\ known[c] = map_sock_ctx_[c]
  /\ thread = "push" => ctx[at].socket \notin DOMAIN known

CountOK ==
  /\ thread \in {"callback", "push"} => client_cnt_ + 1 = Cardinality(DOMAIN map_sock_ctx_)
  /\ thread \notin {"none", "callback", "push"} =>
       client_cnt_ = Cardinality(DOMAIN map_sock_ctx_)

\* A call that is under way has the context of the client it is for, and what
\* is pending in a context is for its client.
CallsOK ==
  \A u \in Users : pc[u] # Idle =>
    (pc[u].to \in DOMAIN map_sock_ctx_ /\ map_sock_ctx_[pc[u].to] = pc[u].ctx)
PendingOK == \A x \in Contexts : ctx[x].pending \subseteq {ctx[x].socket} \ {Nobody}
OwnOK == ~overlapped => (misled = {} /\ CallsOK /\ PendingOK)

IInv == Types /\ MapOK /\ BacklogOK /\ LoopOK /\ KnownOK /\ CountOK /\ OwnOK

-----------------------------------------------------------------------------
(* Sets, records and functions.                                             *)

LEMMA Constants1 ==
  /\ MaxClients \in Nat /\ MaxCalls \in Nat /\ max_event_ \in Nat \ {0}
  /\ Client \subseteq Nat /\ Nobody \notin Client
  /\ IsFiniteSet(Client) /\ Cardinality(Client) = MaxClients
  /\ Listener \notin Contexts /\ Loop \notin Users /\ Free \notin Users \cup {Loop}
<1>1. IsFiniteSet(Client) /\ Cardinality(Client) = MaxClients
  BY NixServerAssumption, FS_Interval DEF Client
<1> QED  BY <1>1, NixServerAssumption DEF Client, Nobody

\* The clients that have a context are counted by a number in the bounds.
LEMMA Clients ==
  ASSUME NEW S, S \subseteq Client
  PROVE  /\ IsFiniteSet(S) /\ Cardinality(S) \in 0 .. MaxClients
         /\ S # {} => Cardinality(S) # 0
         /\ \A c \in Client \ S : /\ Cardinality(S \cup {c}) = Cardinality(S) + 1
                                  /\ Cardinality(S) + 1 <= MaxClients
         /\ \A c \in S : Cardinality(S \ {c}) = Cardinality(S) - 1
<1>1. \A T \in SUBSET Client :
        IsFiniteSet(T) /\ Cardinality(T) \in Nat /\ Cardinality(T) <= MaxClients
  BY Constants1, FS_Subset, FS_CardinalityType
<1>2. S \in SUBSET Client  OBVIOUS
<1>3. IsFiniteSet(S) /\ Cardinality(S) \in 0 .. MaxClients  BY <1>1, <1>2, Constants1
<1>4. S # {} => Cardinality(S) # 0  BY <1>3, FS_EmptySet
<1>5. ASSUME NEW c \in Client \ S
      PROVE  Cardinality(S \cup {c}) = Cardinality(S) + 1 /\ Cardinality(S) + 1 <= MaxClients
  <2>1. Cardinality(S \cup {c}) = Cardinality(S) + 1  BY <1>3, FS_AddElement
  <2>2. S \cup {c} \in SUBSET Client  BY <1>2
  <2>3. Cardinality(S \cup {c}) <= MaxClients  BY <1>1, <2>2
  <2> QED  BY <2>1, <2>3
<1>6. ASSUME NEW c \in S PROVE Cardinality(S \ {c}) = Cardinality(S) - 1
  BY <1>3, FS_RemoveElement
<1> QED  BY <1>3, <1>4, <1>5, <1>6

LEMMA Records ==
  ASSUME NEW r \in Record
  PROVE  /\ \A l \in Users \cup {Loop, Free} :
              /\ [r EXCEPT !.ctx_lock = l] \in Record
              /\ [r EXCEPT !.ctx_lock = l].socket = r.socket
              /\ [r EXCEPT !.ctx_lock = l].pending = r.pending
         /\ \A b \in BOOLEAN :
              /\ [r EXCEPT !.is_sent_pending = b] \in Record
              /\ [r EXCEPT !.is_sent_pending = b].socket = r.socket
              /\ [r EXCEPT !.is_sent_pending = b].pending = r.pending
         /\ \A P \in SUBSET Client :
              /\ [r EXCEPT !.pending = P] \in Record
              /\ [r EXCEPT !.pending = P].socket = r.socket
              /\ [r EXCEPT !.pending = P].pending = P
         /\ \A c \in Client \cup {Nobody} :
              /\ [r EXCEPT !.socket = c] \in Record
              /\ [r EXCEPT !.socket = c].socket = c
              /\ [r EXCEPT !.socket = c].pending = r.pending
         /\ r.socket \in Client \cup {Nobody} /\ r.is_sent_pending \in BOOLEAN
         /\ r.pending \in SUBSET Client /\ r.ctx_lock \in Users \cup {Loop, Free}
  BY DEF Record

LEMMA BlankRecord ==
  /\ Blank \in Record /\ Blank.socket = Nobody /\ Blank.pending = {}
  /\ \A l \in Users \cup {Loop, Free} :
       /\ [Blank EXCEPT !.ctx_lock = l] \in Record
       /\ [Blank EXCEPT !.ctx_lock = l].socket = Nobody
       /\ [Blank EXCEPT !.ctx_lock = l].pending = {}
<1>1. Blank \in Record /\ Blank.socket = Nobody /\ Blank.pending = {}  BY DEF Blank, Record
<1> QED  BY <1>1, Records

LEMMA Calls ==
  /\ Idle.at = "idle"
  /\ \A p \in Calling :
       /\ p # Idle /\ p.ctx \in Contexts /\ p.to \in Client
       /\ p.at \in Steps
       /\ \A a \in Steps :
            /\ [p EXCEPT !.at = a] \in Calling
            /\ [p EXCEPT !.at = a].ctx = p.ctx /\ [p EXCEPT !.at = a].to = p.to
  /\ \A c \in Client, x \in Contexts :
       /\ [at |-> "lock", ctx |-> x, to |-> c] \in Calling
       /\ [at |-> "lock", ctx |-> x, to |-> c].ctx = x
       /\ [at |-> "lock", ctx |-> x, to |-> c].to = c
<1>1. Idle.at = "idle"  BY DEF Idle
<1>2. \A p \in Calling : p.at # "idle"  BY DEF Calling, Steps
<1>3. "lock" \in Steps  BY DEF Steps
<1> QED  BY <1>1, <1>2, <1>3 DEF Calling

\* A context in use is the one of its client.
LEMMA Used ==
  ASSUME Types, MapOK, NEW x \in InUse
  PROVE  /\ x \in Contexts /\ ctx[x].socket \in DOMAIN map_sock_ctx_
         /\ ctx[x].socket \in Client /\ map_sock_ctx_[ctx[x].socket] = x
<1>1. PICK c \in DOMAIN map_sock_ctx_ : x = map_sock_ctx_[c]  BY DEF InUse, Range
<1> QED  BY <1>1 DEF MapOK, Types, PoolType

LEMMA MapInUse ==
  \A c \in DOMAIN map_sock_ctx_ : map_sock_ctx_[c] \in InUse
  BY DEF InUse, Range

-----------------------------------------------------------------------------
(* What a step leaves alone.                                                *)

SocketsStay == \A x \in Contexts : ctx'[x].socket = ctx[x].socket

LEMMA InUseFrame ==
  ASSUME UNCHANGED map_sock_ctx_ PROVE InUse' = InUse
  BY DEF InUse

LEMMA MapFrame ==
  ASSUME Types, MapOK, UNCHANGED map_sock_ctx_, queue_ctx_cache_' \subseteq queue_ctx_cache_,
         SocketsStay
  PROVE  MapOK'
<1>1. InUse' = InUse  BY InUseFrame
<1>2. \A c \in DOMAIN map_sock_ctx_ : map_sock_ctx_[c] \in Contexts
  BY MapInUse DEF Types, PoolType
<1> QED  BY <1>1, <1>2 DEF MapOK, SocketsStay

LEMMA BacklogFrame ==
  ASSUME BacklogOK, UNCHANGED map_sock_ctx_, backlog' \subseteq backlog,
         \A c \in Client : conn'[c] = "none" => conn[c] = "none"
  PROVE  BacklogOK'
  BY DEF BacklogOK

LEMMA LoopFrame ==
  ASSUME LoopOK, UNCHANGED <<loop, map_sock_ctx_, client_cnt_>>, main' = "off" => main = "off"
  PROVE  LoopOK'
<1>1. InUse' = InUse  BY InUseFrame
<1> QED  BY <1>1 DEF LoopOK, Closing, loop

LEMMA KnownFrame ==
  ASSUME Types, MapOK, LoopOK, KnownOK, UNCHANGED <<known, loop, map_sock_ctx_>>, SocketsStay
  PROVE  KnownOK'
<1>1. thread = "push" => at \in Contexts
  BY Used DEF LoopOK, Closing
<1> QED  BY <1>1 DEF KnownOK, SocketsStay, loop

LEMMA CountFrame ==
  ASSUME CountOK, UNCHANGED <<thread, map_sock_ctx_, client_cnt_>>
  PROVE  CountOK'
  BY DEF CountOK

LEMMA OwnFrame ==
  ASSUME OwnOK, UNCHANGED <<map_sock_ctx_, ctx, pc, misled, overlapped>>
  PROVE  OwnOK'
  BY DEF OwnOK, CallsOK, PendingOK

-----------------------------------------------------------------------------
(* The thread that runs and stops the server.                              *)

LEMMA RunServerStep == ASSUME IInv, RunServer PROVE IInv'
<1>1. Types'
  BY DEF IInv, RunServer, Types, LifeType, LoopType, PoolType, KnownType, NetType, UsersType,
         InUse, pool, net, users, ghost
<1>2. MapOK'
  BY MapFrame DEF IInv, RunServer, SocketsStay, pool
<1>3. BacklogOK'  BY BacklogFrame DEF IInv, RunServer, net, pool
<1>4. InUse' = InUse  BY InUseFrame DEF RunServer, pool
<1>5. LoopOK'  BY <1>4 DEF IInv, RunServer, LoopOK, Closing, pool
<1>6. KnownOK'  BY DEF IInv, RunServer, KnownOK, pool
<1>7. CountOK'
  <2>1. client_cnt_ = 0 /\ DOMAIN map_sock_ctx_ = {}  BY DEF IInv, LoopOK, RunServer
  <2>2. Cardinality(DOMAIN map_sock_ctx_) = 0  BY <2>1, FS_EmptySet
  <2> QED  BY <2>1, <2>2 DEF CountOK, RunServer, pool
<1>8. OwnOK'  BY OwnFrame DEF IInv, RunServer, pool, users, ghost
<1> QED  BY <1>1, <1>2, <1>3, <1>5, <1>6, <1>7, <1>8 DEF IInv

LEMMA StopServerStep == ASSUME IInv, StopServer PROVE IInv'
<1>1. Types'
  <2>1. conn' \in [Client -> {"none", "open", "ended", "reset", "refused", "closed"}] /\ backlog' = {}
    BY DEF IInv, StopServer, Types, NetType
  <2> QED
    BY <2>1 DEF IInv, StopServer, Types, LifeType, LoopType, PoolType, KnownType, NetType,
                UsersType, InUse, loop, pool, users, ghost
<1>2. MapOK'  BY MapFrame DEF IInv, StopServer, SocketsStay, pool
<1>3. BacklogOK'  BY BacklogFrame DEF IInv, StopServer, pool
<1>4. LoopOK'  BY LoopFrame DEF IInv, StopServer, pool
<1>5. KnownOK'  BY KnownFrame DEF IInv, StopServer, SocketsStay, pool
<1>6. CountOK'  BY CountFrame DEF IInv, StopServer, pool, loop
<1>7. OwnOK'  BY OwnFrame DEF IInv, StopServer, pool, users, ghost
<1> QED  BY <1>1, <1>2, <1>3, <1>4, <1>5, <1>6, <1>7 DEF IInv

LEMMA StopServerFlagStep == ASSUME IInv, StopServerFlag PROVE IInv'
<1>1. Types'
  BY DEF IInv, StopServerFlag, Types, LifeType, LoopType, PoolType, KnownType, NetType,
         UsersType, InUse, loop, pool, net, users, ghost
<1>2. MapOK'  BY MapFrame DEF IInv, StopServerFlag, SocketsStay, pool
<1>3. BacklogOK'  BY BacklogFrame DEF IInv, StopServerFlag, pool, net
<1>4. LoopOK'  BY LoopFrame DEF IInv, StopServerFlag, pool
<1>5. KnownOK'  BY KnownFrame DEF IInv, StopServerFlag, SocketsStay, pool
<1>6. CountOK'  BY CountFrame DEF IInv, StopServerFlag, pool, loop
<1>7. OwnOK'  BY OwnFrame DEF IInv, StopServerFlag, pool, users, ghost
<1> QED  BY <1>1, <1>2, <1>3, <1>4, <1>5, <1>6, <1>7 DEF IInv

LEMMA StopServerReturnsStep == ASSUME IInv, StopServerReturns PROVE IInv'
<1>1. Types'
  BY DEF IInv, StopServerReturns, Types, LifeType, LoopType, PoolType, KnownType, NetType,
         UsersType, InUse, loop, net, users
<1>2. MapOK'  BY MapFrame DEF IInv, StopServerReturns, SocketsStay
<1>3. BacklogOK'  BY BacklogFrame DEF IInv, StopServerReturns, net
<1>4. LoopOK'  BY LoopFrame DEF IInv, StopServerReturns
<1>5. KnownOK'  BY KnownFrame DEF IInv, StopServerReturns, SocketsStay
<1>6. CountOK'  BY CountFrame DEF IInv, StopServerReturns, loop
<1>7. OwnOK'  BY DEF IInv, StopServerReturns, OwnOK, CallsOK, PendingOK, users
<1> QED  BY <1>1, <1>2, <1>3, <1>4, <1>5, <1>6, <1>7 DEF IInv

-----------------------------------------------------------------------------
(* ServerThreadRoutine.                                                    *)

Serving == thread \in {"loop", "wait", "handle", "accept"}

LEMMA LoopOnlyStep ==
  ASSUME IInv, LoopOnly, Serving, thread' \in {"none", "loop", "wait", "handle"},
         is_server_running_' \in BOOLEAN,
         DOMAIN ep_events_' \subseteq InUse \cup {Listener},
         Range(ep_events_') \subseteq {"IN", "OUT", "ERR"}
  PROVE  IInv'
<1>1. Types'
  BY DEF IInv, LoopOnly, Types, LifeType, LoopType, PoolType, KnownType, NetType,
         UsersType, InUse, pool, net, users, ghost
<1>2. MapOK'  BY MapFrame DEF IInv, LoopOnly, SocketsStay, pool
<1>3. BacklogOK'  BY BacklogFrame DEF IInv, LoopOnly, pool, net
<1>4. InUse' = InUse  BY InUseFrame DEF LoopOnly, pool
<1>5. LoopOK'  BY <1>4 DEF IInv, LoopOnly, LoopOK, Closing, Serving, pool
<1>6. KnownOK'  BY DEF IInv, LoopOnly, KnownOK, pool
<1>7. CountOK'  BY DEF IInv, LoopOnly, CountOK, Serving, pool
<1>8. OwnOK'  BY OwnFrame DEF IInv, LoopOnly, pool, users, ghost
<1> QED  BY <1>1, <1>2, <1>3, <1>5, <1>6, <1>7, <1>8 DEF IInv

LEMMA EventsStay ==
  ASSUME IInv, UNCHANGED ep_events_
  PROVE  /\ DOMAIN ep_events_' \subseteq InUse \cup {Listener}
         /\ Range(ep_events_') \subseteq {"IN", "OUT", "ERR"}
         /\ is_server_running_ \in BOOLEAN
  BY DEF IInv, LoopOK, Types, LoopType

LEMMA LoopConditionStep == ASSUME IInv, LoopCondition PROVE IInv'
<1>1. /\ Serving /\ thread' \in {"none", "loop", "wait", "handle"} /\ LoopOnly
      /\ is_server_running_' \in BOOLEAN
  BY EventsStay DEF LoopCondition, Serving, ThreadEnds, ThreadGoes
<1> QED  BY <1>1, EventsStay, LoopOnlyStep DEF LoopCondition

LEMMA EpollWaitStep == ASSUME IInv, EpollWait PROVE IInv'
<1>1. /\ Serving /\ thread' \in {"none", "loop", "wait", "handle"} /\ LoopOnly
      /\ is_server_running_' \in BOOLEAN
  BY DEF EpollWait, Serving, ThreadGoes, IInv, Types, LoopType
<1>2. PICK S \in SUBSET (InUse \cup {Listener}) : ep_events_' \in [S -> {"IN", "OUT", "ERR"}]
  BY DEF EpollWait
<1>3. /\ DOMAIN ep_events_' \subseteq InUse \cup {Listener}
      /\ Range(ep_events_') \subseteq {"IN", "OUT", "ERR"}
  BY <1>2 DEF Range
<1> QED  BY <1>1, <1>3, LoopOnlyStep

LEMMA EpollWaitTimeoutStep == ASSUME IInv, EpollWaitTimeout PROVE IInv'
<1>1. /\ Serving /\ thread' \in {"none", "loop", "wait", "handle"} /\ LoopOnly
      /\ is_server_running_' \in BOOLEAN
  BY EventsStay DEF EpollWaitTimeout, Serving, ThreadGoes
<1> QED  BY <1>1, EventsStay, LoopOnlyStep DEF EpollWaitTimeout

LEMMA EpollWaitFailsStep == ASSUME IInv, EpollWaitFails PROVE IInv'
<1>1. /\ Serving /\ thread' \in {"none", "loop", "wait", "handle"} /\ LoopOnly
      /\ is_server_running_' \in BOOLEAN
  BY DEF EpollWaitFails, Serving, ThreadEnds
<1> QED  BY <1>1, EventsStay, LoopOnlyStep DEF EpollWaitFails

LEMMA HandledAllStep == ASSUME IInv, HandledAll PROVE IInv'
<1>1. /\ Serving /\ thread' \in {"none", "loop", "wait", "handle"} /\ LoopOnly
      /\ is_server_running_' \in BOOLEAN
  BY EventsStay DEF HandledAll, Serving, ThreadGoes
<1> QED  BY <1>1, EventsStay, LoopOnlyStep DEF HandledAll

-----------------------------------------------------------------------------
(* The events.                                                             *)

\* The event of a context is for a client that is in the map.
LEMMA EventInUse ==
  ASSUME IInv, NEW x \in Contexts, x \in DOMAIN ep_events_
  PROVE  /\ x \in InUse /\ ctx[x].socket \in Client /\ ctx[x] \in Record
         /\ ctx[x].pending \in SUBSET Client
<1>1. x \in InUse  BY Constants1 DEF IInv, LoopOK
<1>2. ctx[x] \in Record  BY DEF IInv, Types, UsersType
<1> QED  BY <1>1, <1>2, Used, Records DEF IInv

LEMMA HandleStep ==
  ASSUME IInv, NEW x, NEW to \in {"handle", "accept", "close"}, Handle(x, to),
         to = "close" => x \in Contexts,
         ctx' \in [Contexts -> Record], SocketsStay,
         \A y \in Contexts : ctx'[y].pending \subseteq ctx[y].pending,
         out' \subseteq Client, misled' \subseteq Client,
         OwnOK /\ ~overlapped => misled' = misled
  PROVE  IInv'
<1>1. /\ thread = "handle" /\ thread' = to /\ x \in DOMAIN ep_events_
      /\ DOMAIN ep_events_' = DOMAIN ep_events_ \ {x}
      /\ Range(ep_events_') \subseteq Range(ep_events_)
      /\ at' = IF to = "close" THEN x ELSE Listener
      /\ UNCHANGED <<main, is_need_server_run_, is_server_running_, client_cnt_,
                     map_sock_ctx_, queue_ctx_cache_, conn, backlog, known, pc, calls,
                     overlapped>>
  BY DEF Handle, ThreadGoes, Restrict, Range, pool, users
<1>2. Types'
  BY <1>1 DEF IInv, Types, LifeType, LoopType, PoolType, KnownType, NetType, UsersType, InUse
<1>3. MapOK'  BY <1>1, MapFrame DEF IInv
<1>4. BacklogOK'  BY <1>1, BacklogFrame DEF IInv
<1>5. InUse' = InUse  BY <1>1, InUseFrame
<1>6. LoopOK'
  <2>1. to = "close" => (x \in InUse /\ x \notin DOMAIN ep_events_')  BY <1>1, EventInUse
  <2> QED  BY <1>1, <1>5, <2>1 DEF IInv, LoopOK, Closing
<1>7. KnownOK'  BY <1>1 DEF IInv, KnownOK
<1>8. CountOK'  BY <1>1 DEF IInv, CountOK
<1>9. OwnOK'
  <2> SUFFICES ASSUME ~overlapped' PROVE misled' = {} /\ CallsOK' /\ PendingOK'
    BY DEF OwnOK
  <2>1. misled = {} /\ CallsOK /\ PendingOK /\ misled' = misled  BY <1>1 DEF IInv, OwnOK
  <2>2. CallsOK'  BY <1>1, <2>1 DEF CallsOK
  <2>3. PendingOK'  BY <2>1 DEF PendingOK, SocketsStay
  <2> QED  BY <2>1, <2>2, <2>3
<1> QED  BY <1>2, <1>3, <1>4, <1>6, <1>7, <1>8, <1>9 DEF IInv

LEMMA ContextsStay ==
  ASSUME IInv, UNCHANGED ctx
  PROVE  /\ ctx' \in [Contexts -> Record] /\ SocketsStay
         /\ \A y \in Contexts : ctx'[y].pending \subseteq ctx[y].pending
  BY DEF IInv, Types, UsersType, SocketsStay

LEMMA OutMisledType == ASSUME IInv PROVE out \subseteq Client /\ misled \subseteq Client
  BY DEF IInv, Types, UsersType

LEMMA HandleListenerStep == ASSUME IInv, HandleListener PROVE IInv'
<1>1. UNCHANGED <<ctx, out, misled>> /\ Handle(Listener, "accept")  BY DEF HandleListener
<1> QED  BY <1>1, HandleStep, ContextsStay, OutMisledType

LEMMA HandleErrorStep == ASSUME IInv, NEW x \in Contexts, HandleError(x) PROVE IInv'
<1>1. UNCHANGED <<ctx, out, misled>> /\ Handle(x, "close")  BY DEF HandleError
<1> QED  BY <1>1, HandleStep, ContextsStay, OutMisledType

LEMMA RecvStep ==
  ASSUME IInv, NEW x \in Contexts, RecvFails(x) \/ RecvReturns(x) PROVE IInv'
<1>1. UNCHANGED <<ctx, out, misled>> /\ (Handle(x, "close") \/ Handle(x, "handle"))
  BY DEF RecvFails, RecvReturns, Received
<1> QED  BY <1>1, HandleStep, ContextsStay, OutMisledType

\* Only what is pending for a client is sent to it.
LEMMA SentPending ==
  ASSUME IInv, NEW x \in Contexts, x \in DOMAIN ep_events_, NEW sent \in SUBSET ctx[x].pending,
         Sends(ctx[x].socket, sent)
  PROVE  misled' \subseteq Client /\ (OwnOK /\ ~overlapped => misled' = misled)
<1>1. misled' \subseteq Client  BY EventInUse, OutMisledType DEF Sends
<1>2. ASSUME OwnOK, ~overlapped PROVE misled' = misled
  BY <1>2 DEF OwnOK, PendingOK, Sends
<1> QED  BY <1>1, <1>2

LEMMA SendPendingAllStep == ASSUME IInv, NEW x \in Contexts, SendPendingAll(x) PROVE IInv'
<1>1. Handle(x, "handle") /\ x \in DOMAIN ep_events_
  BY DEF SendPendingAll, SendPending, Handle
<1>2. misled' \subseteq Client /\ (OwnOK /\ ~overlapped => misled' = misled)
  BY <1>1, SentPending DEF SendPendingAll
<1>3. out' \subseteq Client  BY OutMisledType DEF SendPendingAll
<1>4. ctx \in [Contexts -> Record]  BY DEF IInv, Types, UsersType
<1> DEFINE r == [ctx[x] EXCEPT !.pending = {}]
           s == [r EXCEPT !.is_sent_pending = FALSE]
<1>5. ctx' = [ctx EXCEPT ![x] = s]  BY DEF SendPendingAll
<1>6. r \in Record /\ r.socket = ctx[x].socket /\ r.pending = {}
  BY <1>4, Records
<1>7. s \in Record /\ s.socket = ctx[x].socket /\ s.pending = {}
  BY <1>6, Records
<1> HIDE DEF s
<1>8. /\ ctx' \in [Contexts -> Record] /\ SocketsStay
      /\ \A y \in Contexts : ctx'[y].pending \subseteq ctx[y].pending
  BY <1>4, <1>5, <1>7 DEF SocketsStay
<1> QED  BY <1>1, <1>2, <1>3, <1>8, HandleStep

LEMMA SendPendingSomeStep == ASSUME IInv, NEW x \in Contexts, SendPendingSome(x) PROVE IInv'
<1>1. Handle(x, "handle") /\ x \in DOMAIN ep_events_ /\ UNCHANGED <<ctx, out>>
  BY DEF SendPendingSome, SendPending, Handle
<1>2. misled' \subseteq Client /\ (OwnOK /\ ~overlapped => misled' = misled)
  BY <1>1, SentPending, OutMisledType DEF SendPendingSome
<1> QED  BY <1>1, <1>2, HandleStep, ContextsStay, OutMisledType

LEMMA SendPendingFailsStep == ASSUME IInv, NEW x \in Contexts, SendPendingFails(x) PROVE IInv'
<1>1. Handle(x, "close") /\ UNCHANGED <<out, misled>>
  BY DEF SendPendingFails, SendPending
<1>2. ctx \in [Contexts -> Record]  BY DEF IInv, Types, UsersType
<1> DEFINE s == [ctx[x] EXCEPT !.ctx_lock = Loop]
<1>3. ctx' = [ctx EXCEPT ![x] = s]  BY DEF SendPendingFails
<1>4. s \in Record /\ s.socket = ctx[x].socket /\ s.pending = ctx[x].pending
  BY <1>2, Records
<1> HIDE DEF s
<1>5. /\ ctx' \in [Contexts -> Record] /\ SocketsStay
      /\ \A y \in Contexts : ctx'[y].pending \subseteq ctx[y].pending
  BY <1>2, <1>3, <1>4 DEF SocketsStay
<1> QED  BY <1>1, <1>5, HandleStep, OutMisledType

-----------------------------------------------------------------------------
(* AcceptNewClient.                                                        *)

\* What the conjuncts of the invariant are after the client c was given x.
LEMMA Adopts ==
  ASSUME IInv, thread = "accept", NEW c \in Client, NEW x \in Contexts, Adopt(c, x)
  PROVE  /\ MapOK' /\ PoolType' /\ ctx' \in [Contexts -> Record] /\ backlog' \subseteq Client
         /\ DOMAIN map_sock_ctx_' = DOMAIN map_sock_ctx_ \cup {c}
         /\ map_sock_ctx_'[c] = x /\ c \notin DOMAIN map_sock_ctx_ /\ c \notin DOMAIN known
         /\ \A d \in DOMAIN map_sock_ctx_ : d # c /\ map_sock_ctx_'[d] = map_sock_ctx_[d]
         /\ InUse' = InUse \cup {x}
         /\ client_cnt_' = Cardinality(DOMAIN map_sock_ctx_')
         /\ OwnOK /\ ~overlapped => PendingOK'
         /\ UNCHANGED conn => BacklogOK'
<1>1. /\ c \in backlog /\ c \notin DOMAIN map_sock_ctx_ /\ conn[c] # "none"
      /\ DOMAIN map_sock_ctx_ \subseteq Client /\ DOMAIN known \subseteq DOMAIN map_sock_ctx_
  BY DEF Adopt, IInv, BacklogOK, Types, PoolType, KnownOK
<1>2. x \notin InUse /\ queue_ctx_cache_' = queue_ctx_cache_ \ {x}
  BY DEF Adopt, PopClientContextFromCache, IInv, MapOK
<1>3. ctx \in [Contexts -> Record] /\ ctx[x].socket = Nobody
  BY <1>2 DEF IInv, Types, UsersType, MapOK
<1> DEFINE r == [ctx[x] EXCEPT !.socket = c]
<1>4. r \in Record /\ r.socket = c /\ r.pending = ctx[x].pending  BY <1>3, Records
<1>5. ctx' = [ctx EXCEPT ![x] = r]  BY DEF Adopt
<1> HIDE DEF r
<1>6. /\ ctx' \in [Contexts -> Record] /\ ctx'[x] = r
      /\ \A y \in Contexts \ {x} : ctx'[y] = ctx[y]
  BY <1>3, <1>4, <1>5
<1>7. /\ DOMAIN map_sock_ctx_' = DOMAIN map_sock_ctx_ \cup {c} /\ map_sock_ctx_'[c] = x
      /\ \A d \in DOMAIN map_sock_ctx_ : d # c /\ map_sock_ctx_'[d] = map_sock_ctx_[d]
  BY <1>1 DEF Adopt
<1>8. InUse' = InUse \cup {x}  BY <1>7 DEF InUse, Range
<1>9. MapOK'
  <2>1. \A d \in DOMAIN map_sock_ctx_ : /\ map_sock_ctx_[d] \in Contexts \ {x}
                                        /\ ctx[map_sock_ctx_[d]].socket = d
    BY <1>2, MapInUse DEF IInv, Types, PoolType, MapOK
  <2>2. \A d, e \in DOMAIN map_sock_ctx_' : map_sock_ctx_'[d] = map_sock_ctx_'[e] => d = e
    BY <1>7, <2>1 DEF IInv, MapOK
  <2>3. \A d \in DOMAIN map_sock_ctx_' : ctx'[map_sock_ctx_'[d]].socket = d
    BY <1>4, <1>6, <1>7, <2>1
  <2>4. \A y \in Contexts \ InUse' : ctx'[y].socket = Nobody
    BY <1>6, <1>8 DEF IInv, MapOK
  <2>5. InUse' \cap queue_ctx_cache_' = {}  BY <1>2, <1>8 DEF IInv, MapOK
  <2> QED  BY <2>2, <2>3, <2>4, <2>5 DEF MapOK
<1>10. /\ client_cnt_' = Cardinality(DOMAIN map_sock_ctx_')
       /\ client_cnt_' \in 0 .. MaxClients
  <2>1. client_cnt_ = Cardinality(DOMAIN map_sock_ctx_) /\ client_cnt_' = client_cnt_ + 1
    BY DEF IInv, CountOK, Adopt, Count
  <2>2. DOMAIN map_sock_ctx_' \subseteq Client  BY <1>1, <1>7
  <2>3. /\ Cardinality(DOMAIN map_sock_ctx_') = Cardinality(DOMAIN map_sock_ctx_) + 1
        /\ Cardinality(DOMAIN map_sock_ctx_') \in 0 .. MaxClients
    BY <1>1, <1>7, <2>2, Clients
  <2> QED  BY <2>1, <2>3
<1>11. PoolType'
  <2>1. queue_ctx_cache_' \subseteq Contexts  BY <1>2 DEF IInv, Types, PoolType
  <2>2. InUse' \subseteq Contexts  BY <1>8 DEF IInv, Types, PoolType
  <2> QED  BY <1>1, <1>7, <1>10, <2>1, <2>2 DEF PoolType
<1>12. ASSUME OwnOK, ~overlapped PROVE PendingOK'
  <2>1. r.pending = {}  BY <1>3, <1>4, <1>12 DEF OwnOK, PendingOK
  <2> QED  BY <1>6, <1>12, <2>1 DEF OwnOK, PendingOK
<1>13. backlog' = backlog \ {c} /\ backlog' \subseteq Client
  BY DEF Adopt, IInv, Types, NetType
<1>14. UNCHANGED conn => BacklogOK'
  BY <1>1, <1>7, <1>13 DEF IInv, BacklogOK
<1> QED  BY <1>1, <1>6, <1>7, <1>8, <1>9, <1>10, <1>11, <1>12, <1>13, <1>14

LEMMA AdoptCalls ==
  ASSUME IInv, thread = "accept", NEW c \in Client, NEW x \in Contexts, Adopt(c, x),
         UNCHANGED <<pc, misled, overlapped>>
  PROVE  OwnOK'
<1> SUFFICES ASSUME ~overlapped' PROVE misled' = {} /\ CallsOK' /\ PendingOK'
  BY DEF OwnOK
<1>1. misled = {} /\ CallsOK /\ OwnOK /\ ~overlapped  BY DEF IInv, OwnOK
<1>2. PendingOK'  BY <1>1, Adopts
<1>3. CallsOK'
  <2>1. /\ DOMAIN map_sock_ctx_' = DOMAIN map_sock_ctx_ \cup {c}
        /\ \A d \in DOMAIN map_sock_ctx_ : map_sock_ctx_'[d] = map_sock_ctx_[d]
    BY Adopts
  <2> QED  BY <1>1, <2>1 DEF CallsOK
<1> QED  BY <1>1, <1>2, <1>3

LEMMA AcceptNewClientStep ==
  ASSUME IInv, NEW c \in Client, NEW x \in Contexts, AcceptNewClient(c, x) PROVE IInv'
<1>1. /\ thread = "accept" /\ Adopt(c, x)
      /\ UNCHANGED <<main, is_need_server_run_, is_server_running_, thread, at, ep_events_,
                     conn, out, pc, calls, misled, overlapped>>
      /\ known' = [d \in DOMAIN known \cup {c} |-> IF d = c THEN x ELSE known[d]]
  BY DEF AcceptNewClient, life, loop, users, ghost
<1>2. /\ MapOK' /\ PoolType' /\ ctx' \in [Contexts -> Record] /\ backlog' \subseteq Client
      /\ DOMAIN map_sock_ctx_' = DOMAIN map_sock_ctx_ \cup {c}
      /\ map_sock_ctx_'[c] = x
      /\ \A d \in DOMAIN map_sock_ctx_ : d # c /\ map_sock_ctx_'[d] = map_sock_ctx_[d]
      /\ InUse' = InUse \cup {x}
      /\ client_cnt_' = Cardinality(DOMAIN map_sock_ctx_')
      /\ BacklogOK'
  BY <1>1, Adopts
<1>3. Types'
  <2>1. KnownType'  BY <1>1 DEF IInv, Types, KnownType, Range
  <2> QED
    BY <1>1, <1>2, <2>1 DEF IInv, Types, LifeType, LoopType, NetType, UsersType
<1>4. LoopOK'  BY <1>1, <1>2 DEF IInv, LoopOK, Closing
<1>5. KnownOK'  BY <1>1, <1>2 DEF IInv, KnownOK
<1>6. CountOK'  BY <1>1, <1>2 DEF CountOK
<1>7. OwnOK'  BY <1>1, AdoptCalls
<1> QED  BY <1>2, <1>3, <1>4, <1>5, <1>6, <1>7 DEF IInv

LEMMA AcceptDoneStep == ASSUME IInv, AcceptDone PROVE IInv'
<1>1. /\ thread = "accept" /\ thread' = "handle" /\ backlog' \subseteq backlog
      /\ UNCHANGED <<main, is_need_server_run_, is_server_running_, at, ep_events_,
                     client_cnt_, map_sock_ctx_, queue_ctx_cache_, ctx, conn, out, known,
                     pc, calls, misled, overlapped>>
  BY DEF AcceptDone, ThreadGoes, pool, users, ghost
<1>2. Types'
  BY <1>1 DEF IInv, Types, LifeType, LoopType, PoolType, KnownType, NetType, UsersType, InUse
<1>3. MapOK'  BY <1>1, MapFrame DEF IInv, SocketsStay
<1>4. BacklogOK'  BY <1>1, BacklogFrame DEF IInv
<1>5. InUse' = InUse  BY <1>1, InUseFrame
<1>6. LoopOK'  BY <1>1, <1>5 DEF IInv, LoopOK, Closing
<1>7. KnownOK'  BY <1>1 DEF IInv, KnownOK
<1>8. CountOK'  BY <1>1 DEF IInv, CountOK
<1>9. OwnOK'  BY <1>1, OwnFrame DEF IInv
<1> QED  BY <1>2, <1>3, <1>4, <1>6, <1>7, <1>8, <1>9 DEF IInv

LEMMA AcceptFailsStep == ASSUME IInv, AcceptFails PROVE IInv'
<1>1. /\ thread = "accept" /\ thread' = "none" /\ is_server_running_' = FALSE
      /\ UNCHANGED <<main, is_need_server_run_, at, ep_events_, conn, out, known, pc, calls,
                     misled, overlapped>>
  BY DEF AcceptFails, ThreadEnds, users, ghost
<1>2. CASE \E c \in Client, x \in Contexts : Adopt(c, x)
  <2>1. PICK c \in Client, x \in Contexts : Adopt(c, x)  BY <1>2
  <2>2. /\ MapOK' /\ PoolType' /\ ctx' \in [Contexts -> Record] /\ backlog' \subseteq Client
        /\ DOMAIN map_sock_ctx_' = DOMAIN map_sock_ctx_ \cup {c}
        /\ \A d \in DOMAIN map_sock_ctx_ : map_sock_ctx_'[d] = map_sock_ctx_[d]
        /\ InUse' = InUse \cup {x} /\ BacklogOK'
    BY <1>1, <2>1, Adopts
  <2>3. Types'
    BY <1>1, <2>2 DEF IInv, Types, LifeType, LoopType, KnownType, NetType, UsersType
  <2>4. LoopOK'  BY <1>1, <2>2 DEF IInv, LoopOK, Closing
  <2>5. KnownOK'  BY <1>1, <2>2 DEF IInv, KnownOK
  <2>6. CountOK'  BY <1>1 DEF CountOK
  <2>7. OwnOK'  BY <1>1, <2>1, AdoptCalls
  <2> QED  BY <2>2, <2>3, <2>4, <2>5, <2>6, <2>7 DEF IInv
<1>3. CASE /\ UNCHANGED <<map_sock_ctx_, queue_ctx_cache_, ctx>>
           /\ client_cnt_' \in 0 .. MaxClients /\ backlog' \subseteq backlog
  <2>1. Types'
    BY <1>1, <1>3 DEF IInv, Types, LifeType, LoopType, PoolType, KnownType, NetType,
                      UsersType, InUse
  <2>2. MapOK'  BY <1>3, MapFrame DEF IInv, SocketsStay
  <2>3. BacklogOK'  BY <1>1, <1>3, BacklogFrame DEF IInv
  <2>4. InUse' = InUse  BY <1>3, InUseFrame
  <2>5. LoopOK'  BY <1>1, <1>3, <2>4 DEF IInv, LoopOK, Closing
  <2>6. KnownOK'  BY <1>1, <1>3 DEF IInv, KnownOK
  <2>7. CountOK'  BY <1>1 DEF CountOK
  <2>8. OwnOK'  BY <1>1, <1>3, OwnFrame DEF IInv
  <2> QED  BY <2>1, <2>2, <2>3, <2>5, <2>6, <2>7, <2>8 DEF IInv
<1>4. CASE UNCHANGED <<pool, ctx, backlog>>
  BY <1>3, <1>4 DEF pool, IInv, Types, PoolType
<1>5. CASE \E c \in backlog : /\ Count /\ backlog' = backlog \ {c}
                              /\ UNCHANGED <<map_sock_ctx_, queue_ctx_cache_, ctx>>
  <2>1. PICK c \in backlog : /\ Count /\ backlog' = backlog \ {c}
                             /\ UNCHANGED <<map_sock_ctx_, queue_ctx_cache_, ctx>>
    BY <1>5
  <2>2. /\ c \in Client \ DOMAIN map_sock_ctx_ /\ DOMAIN map_sock_ctx_ \subseteq Client
        /\ client_cnt_ = Cardinality(DOMAIN map_sock_ctx_)
    BY <1>1 DEF IInv, BacklogOK, Types, NetType, PoolType, CountOK
  <2>3. client_cnt_' \in 0 .. MaxClients
    <3> DEFINE n == Cardinality(DOMAIN map_sock_ctx_)
    <3>1. n \in 0 .. MaxClients /\ n + 1 <= MaxClients  BY <2>2, Clients
    <3>2. client_cnt_' = n + 1  BY <2>1, <2>2 DEF Count
    <3> HIDE DEF n
    <3> QED  BY <3>1, <3>2, Constants1
  <2> QED  BY <1>3, <2>1, <2>3
<1> QED  BY <1>2, <1>4, <1>5 DEF AcceptFails

-----------------------------------------------------------------------------
(* TerminateClient.                                                        *)

LEMMA TerminateClientStep == ASSUME IInv, TerminateClient PROVE IInv'
<1> DEFINE c == ctx[at].socket
<1>1. /\ thread = "close" /\ thread' = "callback" /\ client_cnt_' = client_cnt_ - 1
      /\ conn' = [conn EXCEPT ![c] = "closed"] /\ out' = out \ {c}
      /\ UNCHANGED <<main, is_need_server_run_, is_server_running_, at, ep_events_,
                     map_sock_ctx_, queue_ctx_cache_, ctx, backlog, known, pc, calls,
                     misled, overlapped>>
  BY DEF TerminateClient, ThreadGoes, CountOff, users, ghost
<1>2. at \in InUse  BY <1>1 DEF IInv, LoopOK, Closing
<1>3. c \in DOMAIN map_sock_ctx_ /\ c \in Client  BY <1>2, Used DEF IInv
<1>4. /\ client_cnt_ = Cardinality(DOMAIN map_sock_ctx_) /\ client_cnt_ # 0
      /\ client_cnt_ \in 0 .. MaxClients
  <2>1. DOMAIN map_sock_ctx_ \subseteq Client  BY DEF IInv, Types, PoolType
  <2>2. client_cnt_ = Cardinality(DOMAIN map_sock_ctx_)  BY <1>1 DEF IInv, CountOK
  <2> QED  BY <1>3, <2>1, <2>2, Clients
<1>5. client_cnt_' \in 0 .. MaxClients /\ client_cnt_' + 1 = client_cnt_
  BY <1>1, <1>4, Constants1
<1> HIDE DEF c
<1>6. /\ conn' \in [Client -> {"none", "open", "ended", "reset", "refused", "closed"}]
      /\ \A d \in Client : conn'[d] = "none" => conn[d] = "none"
  BY <1>1, <1>3 DEF IInv, Types, NetType
<1>7. Types'
  BY <1>1, <1>5, <1>6
  DEF IInv, Types, LifeType, LoopType, PoolType, KnownType, NetType, UsersType, InUse
<1>8. MapOK'  BY <1>1, MapFrame DEF IInv, SocketsStay
<1>9. BacklogOK'  BY <1>1, <1>6, BacklogFrame DEF IInv
<1>10. InUse' = InUse  BY <1>1, InUseFrame
<1>11. LoopOK'  BY <1>1, <1>10 DEF IInv, LoopOK, Closing
<1>12. KnownOK'  BY <1>1 DEF IInv, KnownOK
<1>13. CountOK'  BY <1>1, <1>4, <1>5 DEF CountOK
<1>14. OwnOK'  BY <1>1, OwnFrame DEF IInv
<1> QED  BY <1>7, <1>8, <1>9, <1>11, <1>12, <1>13, <1>14 DEF IInv

LEMMA OnClientDisconnectedStep == ASSUME IInv, OnClientDisconnected PROVE IInv'
<1>1. /\ thread = "callback" /\ thread' = "push"
      /\ DOMAIN known' = DOMAIN known \ {ctx[at].socket}
      /\ \A d \in DOMAIN known' : known'[d] = known[d]
      /\ UNCHANGED <<main, is_need_server_run_, is_server_running_, at, ep_events_,
                     client_cnt_, map_sock_ctx_, queue_ctx_cache_, ctx, conn, backlog, out,
                     pc, calls, misled, overlapped>>
  BY DEF OnClientDisconnected, ThreadGoes, Restrict, pool, net, users, ghost
<1>2. Types'
  <2>1. KnownType'  BY <1>1 DEF IInv, Types, KnownType, Range
  <2> QED
    BY <1>1, <2>1 DEF IInv, Types, LifeType, LoopType, PoolType, NetType, UsersType, InUse
<1>3. MapOK'  BY <1>1, MapFrame DEF IInv, SocketsStay
<1>4. BacklogOK'  BY <1>1, BacklogFrame DEF IInv
<1>5. InUse' = InUse  BY <1>1, InUseFrame
<1>6. LoopOK'  BY <1>1, <1>5 DEF IInv, LoopOK, Closing
<1>7. KnownOK'  BY <1>1 DEF IInv, KnownOK
<1>8. CountOK'  BY <1>1 DEF IInv, CountOK
<1>9. OwnOK'  BY <1>1, OwnFrame DEF IInv
<1> QED  BY <1>2, <1>3, <1>4, <1>6, <1>7, <1>8, <1>9 DEF IInv

LEMMA PushStep == ASSUME IInv, PushClientContextToCache PROVE IInv'
<1> DEFINE c == ctx[at].socket
           r == Reset(at)
<1>1. /\ thread = "push" /\ thread' \in {"none", "handle"} /\ is_server_running_' \in BOOLEAN
      /\ DOMAIN map_sock_ctx_' = DOMAIN map_sock_ctx_ \ {c}
      /\ \A d \in DOMAIN map_sock_ctx_' : map_sock_ctx_'[d] = map_sock_ctx_[d]
      /\ ctx' = [ctx EXCEPT ![at] = r]
      /\ queue_ctx_cache_' = queue_ctx_cache_ \cup {at} /\ at' = Listener
      /\ overlapped' = (overlapped \/ \E u \in Users : pc[u] # Idle /\ pc[u].ctx = at)
      /\ UNCHANGED <<main, is_need_server_run_, ep_events_, client_cnt_, conn, backlog, out,
                     known, pc, calls, misled>>
  BY DEF PushClientContextToCache, ThreadEnds, ThreadGoes, Restrict, net, users,
         IInv, Types, LoopType
<1>2. at \in InUse /\ at \notin DOMAIN ep_events_ /\ c \notin DOMAIN known
  BY <1>1 DEF IInv, LoopOK, Closing, KnownOK
<1>3. /\ at \in Contexts /\ c \in DOMAIN map_sock_ctx_ /\ c \in Client
      /\ map_sock_ctx_[c] = at
  BY <1>2, Used DEF IInv
<1>4. ctx \in [Contexts -> Record]  BY DEF IInv, Types, UsersType
<1>5. r \in Record /\ r.socket = Nobody /\ r.pending = {}
  <2>1. Unlocked(at) \in Users \cup {Loop, Free}  BY <1>3, <1>4, Records DEF Unlocked
  <2> QED  BY <2>1, BlankRecord DEF Reset
<1> HIDE DEF r
<1>6. /\ ctx' \in [Contexts -> Record] /\ ctx'[at] = r
      /\ \A y \in Contexts \ {at} : ctx'[y] = ctx[y]
  BY <1>1, <1>3, <1>4, <1>5
<1>7. \A d \in DOMAIN map_sock_ctx_' : map_sock_ctx_[d] # at /\ d \in DOMAIN map_sock_ctx_
  BY <1>1, <1>3 DEF IInv, MapOK
<1>8. InUse' = InUse \ {at}
  <2>1. InUse' \subseteq InUse \ {at}  BY <1>1, <1>7 DEF InUse, Range
  <2>2. ASSUME NEW x \in InUse, x # at PROVE x \in InUse'
    <3>1. /\ ctx[x].socket \in DOMAIN map_sock_ctx_ /\ map_sock_ctx_[ctx[x].socket] = x
      BY Used DEF IInv
    <3>2. ctx[x].socket \in DOMAIN map_sock_ctx_'  BY <1>1, <1>3, <2>2, <3>1
    <3> QED  BY <1>1, <3>1, <3>2 DEF InUse, Range
  <2> QED  BY <2>1, <2>2
<1> HIDE DEF c
<1>9. MapOK'
  <2>1. \A d \in DOMAIN map_sock_ctx_' : map_sock_ctx_[d] \in Contexts \ {at}
    BY <1>7, MapInUse DEF IInv, Types, PoolType
  <2>2. \A d, e \in DOMAIN map_sock_ctx_' : map_sock_ctx_'[d] = map_sock_ctx_'[e] => d = e
    BY <1>1, <1>7 DEF IInv, MapOK
  <2>3. \A d \in DOMAIN map_sock_ctx_' : ctx'[map_sock_ctx_'[d]].socket = d
    BY <1>1, <1>6, <1>7, <2>1 DEF IInv, MapOK
  <2>4. \A y \in Contexts \ InUse' : ctx'[y].socket = Nobody
    BY <1>5, <1>6, <1>8 DEF IInv, MapOK
  <2>5. InUse' \cap queue_ctx_cache_' = {}  BY <1>1, <1>8 DEF IInv, MapOK
  <2> QED  BY <2>2, <2>3, <2>4, <2>5 DEF MapOK
<1>10. Types'
  <2>1. PoolType'
    <3>1. DOMAIN map_sock_ctx_' \subseteq Client /\ InUse' \subseteq Contexts
      BY <1>1, <1>8 DEF IInv, Types, PoolType
    <3>2. queue_ctx_cache_' \subseteq Contexts  BY <1>1, <1>3 DEF IInv, Types, PoolType
    <3> QED  BY <1>1, <3>1, <3>2 DEF IInv, Types, PoolType
  <2>2. UsersType'  BY <1>1, <1>6 DEF IInv, Types, UsersType
  <2> QED  BY <1>1, <2>1, <2>2 DEF IInv, Types, LifeType, LoopType, KnownType, NetType
<1>11. BacklogOK'  BY <1>1 DEF IInv, BacklogOK
<1>12. LoopOK'  BY <1>1, <1>2, <1>8 DEF IInv, LoopOK, Closing
<1>13. KnownOK'  BY <1>1, <1>2 DEF IInv, KnownOK
<1>14. CountOK'
  <2>1. DOMAIN map_sock_ctx_ \subseteq Client  BY DEF IInv, Types, PoolType
  <2>2. Cardinality(DOMAIN map_sock_ctx_') = Cardinality(DOMAIN map_sock_ctx_) - 1
    BY <1>1, <1>3, <2>1, Clients
  <2>3. client_cnt_ + 1 = Cardinality(DOMAIN map_sock_ctx_)  BY <1>1 DEF IInv, CountOK
  <2>4. client_cnt_ \in 0 .. MaxClients  BY DEF IInv, Types, PoolType
  <2>5. client_cnt_' = Cardinality(DOMAIN map_sock_ctx_')
    BY <1>1, <2>2, <2>3, <2>4, Constants1
  <2> QED  BY <1>1, <2>5 DEF CountOK
<1>15. OwnOK'
  <2> SUFFICES ASSUME ~overlapped' PROVE misled' = {} /\ CallsOK' /\ PendingOK'
    BY DEF OwnOK
  <2>1. /\ misled = {} /\ CallsOK /\ PendingOK
        /\ \A u \in Users : pc[u] # Idle => pc[u].ctx # at
    BY <1>1 DEF IInv, OwnOK
  <2>2. CallsOK'  BY <1>1, <1>3, <2>1 DEF CallsOK
  <2>3. PendingOK'  BY <1>5, <1>6, <2>1 DEF PendingOK
  <2> QED  BY <1>1, <2>1, <2>2, <2>3
<1> QED  BY <1>9, <1>10, <1>11, <1>12, <1>13, <1>14, <1>15 DEF IInv

-----------------------------------------------------------------------------
(* SendData, and the clients.                                              *)

\* A step of a user's thread: sockets stay, and as long as no context has been
\* reset under a call everything stays with its client.
LEMMA UserStep ==
  ASSUME IInv, UNCHANGED NotSenders,
         ctx' \in [Contexts -> Record], SocketsStay,
         pc' \in [Users -> {Idle} \cup Calling], calls' \in 0 .. MaxCalls,
         out' \subseteq Client, misled' \subseteq Client,
         (OwnOK /\ ~overlapped) => (misled' = misled /\ CallsOK' /\ PendingOK')
  PROVE  IInv'
<1>1. UNCHANGED <<main, is_need_server_run_, is_server_running_, thread, at, ep_events_,
                  client_cnt_, map_sock_ctx_, queue_ctx_cache_, conn, backlog, known,
                  overlapped>>
  BY DEF NotSenders, life, loop, pool
<1>2. Types'
  BY <1>1 DEF IInv, Types, LifeType, LoopType, PoolType, KnownType, NetType, UsersType, InUse
<1>3. MapOK'  BY <1>1, MapFrame DEF IInv
<1>4. BacklogOK'  BY <1>1, BacklogFrame DEF IInv
<1>5. LoopOK'  BY <1>1, LoopFrame DEF IInv, loop
<1>6. KnownOK'  BY <1>1, KnownFrame DEF IInv, loop
<1>7. CountOK'  BY <1>1, CountFrame DEF IInv
<1>8. OwnOK'  BY <1>1 DEF IInv, OwnOK
<1> QED  BY <1>2, <1>3, <1>4, <1>5, <1>6, <1>7, <1>8 DEF IInv

\* The call of the user u: its context, and whose it is.
LEMMA InCall ==
  ASSUME IInv, NEW u \in Users, pc[u] # Idle
  PROVE  /\ pc[u] \in Calling /\ pc[u].ctx \in Contexts /\ pc[u].to \in Client
         /\ pc \in [Users -> {Idle} \cup Calling] /\ ctx \in [Contexts -> Record]
         /\ ctx[pc[u].ctx] \in Record
         /\ ctx[pc[u].ctx].socket \in Client \cup {Nobody}
         /\ calls \in 0 .. MaxCalls /\ out \subseteq Client /\ misled \subseteq Client
         /\ (OwnOK /\ ~overlapped) => ctx[pc[u].ctx].socket = pc[u].to
<1>1. pc \in [Users -> {Idle} \cup Calling] /\ ctx \in [Contexts -> Record]
      /\ calls \in 0 .. MaxCalls /\ out \subseteq Client /\ misled \subseteq Client
  BY DEF IInv, Types, UsersType
<1>2. pc[u] \in Calling  BY <1>1
<1>3. pc[u].ctx \in Contexts /\ pc[u].to \in Client  BY <1>2, Calls
<1>4. ctx[pc[u].ctx] \in Record  BY <1>1, <1>3
<1>5. ASSUME OwnOK, ~overlapped PROVE ctx[pc[u].ctx].socket = pc[u].to
  BY <1>5 DEF OwnOK, CallsOK, IInv, MapOK
<1> QED  BY <1>1, <1>2, <1>3, <1>4, <1>5, Records

\* The context of u's call becomes s, and u is in its call at q or has left it.
LEMMA CallStep ==
  ASSUME IInv, NEW u \in Users, pc[u] # Idle, UNCHANGED <<NotSenders, calls>>,
         NEW s \in Record, s.socket = ctx[pc[u].ctx].socket,
         ctx' = [ctx EXCEPT ![pc[u].ctx] = s],
         (OwnOK /\ ~overlapped) => s.pending \subseteq {s.socket} \ {Nobody},
         NEW q \in {Idle} \cup Calling, q # Idle => (q.ctx = pc[u].ctx /\ q.to = pc[u].to),
         pc' = [pc EXCEPT ![u] = q],
         out' \subseteq Client, misled' \subseteq Client,
         (OwnOK /\ ~overlapped) => misled' = misled
  PROVE  IInv'
<1> DEFINE x == pc[u].ctx
<1>1. x \in Contexts /\ pc \in [Users -> {Idle} \cup Calling] /\ ctx \in [Contexts -> Record]
      /\ calls \in 0 .. MaxCalls
  BY InCall
<1>2. pc' \in [Users -> {Idle} \cup Calling] /\ pc'[u] = q /\ \A v \in Users \ {u} : pc'[v] = pc[v]
  BY <1>1
<1>3. ctx' \in [Contexts -> Record] /\ ctx'[x] = s /\ \A y \in Contexts \ {x} : ctx'[y] = ctx[y]
  BY <1>1
<1> HIDE DEF x
<1>4. SocketsStay  BY <1>1, <1>3 DEF SocketsStay, x
<1>5. ASSUME OwnOK, ~overlapped PROVE CallsOK' /\ PendingOK'
  <2>1. CallsOK /\ PendingOK  BY <1>5 DEF OwnOK
  <2>2. UNCHANGED map_sock_ctx_  BY DEF NotSenders, pool
  <2>3. CallsOK'  BY <1>2, <2>1, <2>2 DEF CallsOK
  <2>4. PendingOK'  BY <1>1, <1>3, <1>5, <2>1 DEF PendingOK
  <2> QED  BY <2>3, <2>4
<1> QED  BY <1>1, <1>2, <1>3, <1>4, <1>5, UserStep

\* What is pending before a step is for the client of the context.
LEMMA PendingIs ==
  ASSUME IInv, OwnOK, ~overlapped, NEW x \in Contexts
  PROVE  ctx[x].pending \subseteq {ctx[x].socket} \ {Nobody}
  BY DEF OwnOK, PendingOK

LEMMA SendDataStep ==
  ASSUME IInv, NEW u \in Users, NEW c \in Client, SendData(u, c) PROVE IInv'
<1> DEFINE q == [at |-> "lock", ctx |-> known[c], to |-> c]
<1>1. c \in DOMAIN known /\ c \in DOMAIN map_sock_ctx_ /\ known[c] = map_sock_ctx_[c]
      /\ known[c] \in Contexts
  BY DEF SendData, IInv, KnownOK, Types, KnownType, Range
<1>2. q \in Calling /\ q.ctx = known[c] /\ q.to = c  BY <1>1, Calls
<1>3. pc \in [Users -> {Idle} \cup Calling] /\ ctx \in [Contexts -> Record]
      /\ calls \in 0 .. MaxCalls /\ out \subseteq Client /\ misled \subseteq Client
  BY DEF IInv, Types, UsersType
<1>4. pc' = [pc EXCEPT ![u] = q] /\ UNCHANGED <<NotSenders, ctx, out, misled>>
  BY DEF SendData
<1> HIDE DEF q
<1>5. pc' \in [Users -> {Idle} \cup Calling] /\ pc'[u] = q /\ \A v \in Users \ {u} : pc'[v] = pc[v]
  BY <1>2, <1>3, <1>4
<1>6. calls' \in 0 .. MaxCalls  BY <1>3, Constants1 DEF SendData
<1>7. SocketsStay  BY <1>4 DEF SocketsStay
<1>8. ASSUME OwnOK, ~overlapped PROVE CallsOK' /\ PendingOK'
  <2>1. CallsOK /\ PendingOK  BY <1>8 DEF OwnOK
  <2>2. UNCHANGED map_sock_ctx_  BY <1>4 DEF NotSenders, pool
  <2>3. CallsOK'  BY <1>1, <1>2, <1>5, <2>1, <2>2 DEF CallsOK
  <2>4. PendingOK'  BY <1>4, <2>1 DEF PendingOK
  <2> QED  BY <2>3, <2>4
<1>9. UNCHANGED NotSenders /\ ctx' \in [Contexts -> Record] /\ out' \subseteq Client
      /\ misled' \subseteq Client /\ misled' = misled
  BY <1>3, <1>4
<1> QED  BY <1>5, <1>6, <1>7, <1>8, <1>9, UserStep

LEMMA GetLockStep == ASSUME IInv, NEW u \in Users, pc[u] # Idle, GetLock(u) PROVE IInv'
<1> DEFINE x == pc[u].ctx
           s == [ctx[x] EXCEPT !.ctx_lock = u]
           a == IF ctx[x].is_sent_pending THEN "queue" ELSE "send"
           q == [pc[u] EXCEPT !.at = a]
<1>1. x \in Contexts /\ pc[u] \in Calling /\ ctx[x] \in Record
      /\ out \subseteq Client /\ misled \subseteq Client
  BY InCall
<1>2. s \in Record /\ s.socket = ctx[x].socket /\ s.pending = ctx[x].pending
  BY <1>1, Records
<1>3. q \in Calling /\ q.ctx = pc[u].ctx /\ q.to = pc[u].to
  <2>1. a \in Steps  BY DEF Steps
  <2> HIDE DEF a, x
  <2> QED  BY <1>1, <2>1, Calls
<1>4. /\ ctx' = [ctx EXCEPT ![x] = s] /\ pc' = [pc EXCEPT ![u] = q]
      /\ UNCHANGED <<NotSenders, calls, out, misled>>
  BY DEF GetLock
<1>5. (OwnOK /\ ~overlapped) => s.pending \subseteq {s.socket} \ {Nobody}
  BY <1>1, <1>2, PendingIs
<1> HIDE DEF s, q
<1> QED  BY <1>1, <1>2, <1>3, <1>4, <1>5, CallStep

\* A call that returns, and leaves r in the context but for the lock.
LEMMA ReturnStep ==
  ASSUME IInv, NEW u \in Users, pc[u] # Idle, NEW r \in Record, Return(u, r),
         r.socket = ctx[pc[u].ctx].socket, r.pending \subseteq ctx[pc[u].ctx].pending,
         out' \subseteq Client, misled' \subseteq Client,
         (OwnOK /\ ~overlapped) => misled' = misled
  PROVE  IInv'
<1> DEFINE s == [r EXCEPT !.ctx_lock = Free]
<1>1. s \in Record /\ s.socket = r.socket /\ s.pending = r.pending  BY Records
<1>2. /\ ctx' = [ctx EXCEPT ![pc[u].ctx] = s] /\ pc' = [pc EXCEPT ![u] = Idle]
      /\ UNCHANGED <<NotSenders, calls>>
  BY DEF Return
<1> HIDE DEF s
<1>3. (OwnOK /\ ~overlapped) => s.pending \subseteq {s.socket} \ {Nobody}
  BY <1>1, InCall, PendingIs
<1> QED  BY <1>1, <1>2, <1>3, CallStep

LEMMA SendSomeStep == ASSUME IInv, NEW u \in Users, pc[u] # Idle, SendSome(u) PROVE IInv'
<1> DEFINE x == pc[u].ctx
<1>1. /\ ctx[x] \in Record /\ ctx[x].socket \in Client \cup {Nobody}
      /\ out \subseteq Client /\ misled \subseteq Client
      /\ (OwnOK /\ ~overlapped) => ctx[x].socket = pc[u].to
  BY InCall
<1>2. Sends(ctx[x].socket, {pc[u].to}) /\ out' = out /\ ctx[x].socket # Nobody
  BY DEF SendSome, CanSend, StateOf
<1>3. misled' \subseteq Client  BY <1>1, <1>2 DEF Sends
<1>4. (OwnOK /\ ~overlapped) => misled' = misled  BY <1>1, <1>2 DEF Sends
<1>5. CASE Return(u, ctx[x])
  BY <1>1, <1>2, <1>3, <1>4, <1>5, ReturnStep
<1>6. CASE UNCHANGED <<NotSenders, users, ctx>>
  <2>1. /\ ctx' \in [Contexts -> Record] /\ pc' \in [Users -> {Idle} \cup Calling]
        /\ calls' \in 0 .. MaxCalls /\ SocketsStay /\ UNCHANGED NotSenders
    BY <1>6, InCall DEF users, SocketsStay
  <2>2. UNCHANGED map_sock_ctx_  BY <1>6 DEF NotSenders, pool
  <2>3. ASSUME OwnOK, ~overlapped PROVE CallsOK' /\ PendingOK'
    BY <1>6, <2>2, <2>3 DEF OwnOK, CallsOK, PendingOK, users
  <2> QED  BY <1>1, <1>2, <1>3, <1>4, <2>1, <2>3, UserStep
<1> QED  BY <1>5, <1>6 DEF SendSome

LEMMA SendFailsStep == ASSUME IInv, NEW u \in Users, pc[u] # Idle, SendFails(u) PROVE IInv'
  BY InCall, ReturnStep DEF SendFails

LEMMA QueueStep == ASSUME IInv, NEW u \in Users, pc[u] # Idle, Queue(u) PROVE IInv'
<1> DEFINE x == pc[u].ctx
           s == [ctx[x] EXCEPT !.pending = @ \cup {pc[u].to}]
<1>1. /\ x \in Contexts /\ pc[u] \in Calling /\ ctx[x] \in Record /\ pc[u].to \in Client
      /\ out \subseteq Client /\ misled \subseteq Client
      /\ (OwnOK /\ ~overlapped) => ctx[x].socket = pc[u].to
  BY InCall
<1>2. ctx[x].pending \cup {pc[u].to} \in SUBSET Client  BY <1>1, Records
<1>3. s \in Record /\ s.socket = ctx[x].socket /\ s.pending = ctx[x].pending \cup {pc[u].to}
  BY <1>1, <1>2, Records
<1>4. PICK a \in {"queued", "blocked"} : pc' = [pc EXCEPT ![u].at = a]  BY DEF Queue
<1> DEFINE q == [pc[u] EXCEPT !.at = a]
<1>5. q \in Calling /\ q.ctx = pc[u].ctx /\ q.to = pc[u].to
  <2>1. a \in Steps  BY DEF Steps
  <2> QED  BY <1>1, <2>1, Calls
<1>6. /\ ctx' = [ctx EXCEPT ![x] = s] /\ pc' = [pc EXCEPT ![u] = q]
      /\ UNCHANGED <<NotSenders, calls, out, misled>>
  BY <1>4 DEF Queue
<1>7. (OwnOK /\ ~overlapped) => s.pending \subseteq {s.socket} \ {Nobody}
  BY <1>1, <1>3, PendingIs, Constants1
<1> HIDE DEF s, q
<1> QED  BY <1>1, <1>3, <1>5, <1>6, <1>7, CallStep

LEMMA ControlEpollOutStep ==
  ASSUME IInv, NEW u \in Users, pc[u] # Idle, ControlEpollOut(u) PROVE IInv'
<1> DEFINE c == ctx[pc[u].ctx]
           b == c.is_sent_pending \/ pc[u].at = "blocked"
           r == [c EXCEPT !.is_sent_pending = b]
<1>1. c \in Record /\ c.socket \in Client \cup {Nobody} /\ out \subseteq Client
      /\ misled \subseteq Client
  BY InCall
<1>2. b \in BOOLEAN  OBVIOUS
<1>3. /\ c.socket # Nobody /\ out' = out \cup {c.socket} /\ Return(u, r)
      /\ UNCHANGED misled
  BY DEF ControlEpollOut, StateOf
<1> HIDE DEF b
<1>4. r \in Record /\ r.socket = c.socket /\ r.pending = c.pending  BY <1>1, <1>2, Records
<1> HIDE DEF r
<1> QED  BY <1>1, <1>3, <1>4, ReturnStep

LEMMA ControlEpollFailsStep ==
  ASSUME IInv, NEW u \in Users, pc[u] # Idle, ControlEpollFails(u) PROVE IInv'
<1> DEFINE c == ctx[pc[u].ctx]
           P == IF c.is_sent_pending THEN c.pending ELSE {}
           r == [c EXCEPT !.pending = P]
<1>1. c \in Record /\ out \subseteq Client /\ misled \subseteq Client  BY InCall
<1>2. P \in SUBSET Client /\ P \subseteq c.pending  BY <1>1, Records
<1> HIDE DEF P
<1>3. r \in Record /\ r.socket = c.socket /\ r.pending = P  BY <1>1, <1>2, Records
<1>4. Return(u, r) /\ UNCHANGED <<out, misled>>  BY DEF ControlEpollFails, P
<1> HIDE DEF r
<1> QED  BY <1>1, <1>2, <1>3, <1>4, ReturnStep

LEMMA ConnectStep == ASSUME IInv, NEW c \in Client, Connect(c) PROVE IInv'
<1>1. /\ main = "on" /\ conn[c] = "none" /\ conn' = [conn EXCEPT ![c] = "open"]
      /\ backlog' = backlog \cup {c}
      /\ UNCHANGED <<life, loop, pool, ctx, out, known, users, ghost>>
  BY DEF Connect
<1>2. /\ conn' \in [Client -> {"none", "open", "ended", "reset", "refused", "closed"}] /\ conn'[c] = "open"
      /\ \A d \in Client \ {c} : conn'[d] = conn[d]
  BY <1>1 DEF IInv, Types, NetType
<1>3. Types'
  BY <1>1, <1>2 DEF IInv, Types, LifeType, LoopType, PoolType, KnownType, NetType, UsersType,
                    InUse, life, loop, pool, users, ghost
<1>4. MapOK'  BY <1>1, MapFrame DEF IInv, SocketsStay, pool
<1>5. BacklogOK'  BY <1>1, <1>2 DEF IInv, BacklogOK, pool
<1>6. LoopOK'  BY <1>1, LoopFrame DEF IInv, pool, life
<1>7. KnownOK'  BY <1>1, KnownFrame DEF IInv, SocketsStay, pool
<1>8. CountOK'  BY <1>1, CountFrame DEF IInv, pool, loop
<1>9. OwnOK'  BY <1>1, OwnFrame DEF IInv, pool, users, ghost
<1> QED  BY <1>3, <1>4, <1>5, <1>6, <1>7, <1>8, <1>9 DEF IInv

LEMMA PeerEndsStep ==
  ASSUME IInv, NEW c \in Client, NEW how \in {"ended", "reset"}, PeerEnds(c, how) PROVE IInv'
<1>1. /\ conn' = [conn EXCEPT ![c] = how]
      /\ UNCHANGED <<life, loop, pool, ctx, backlog, out, known, users, ghost>>
  BY DEF PeerEnds
<1>2. /\ conn' \in [Client -> {"none", "open", "ended", "reset", "refused", "closed"}]
      /\ \A d \in Client : conn'[d] = "none" => conn[d] = "none"
  BY <1>1 DEF IInv, Types, NetType
<1>3. Types'
  BY <1>1, <1>2 DEF IInv, Types, LifeType, LoopType, PoolType, KnownType, NetType, UsersType,
                    InUse, life, loop, pool, users, ghost
<1>4. MapOK'  BY <1>1, MapFrame DEF IInv, SocketsStay, pool
<1>5. BacklogOK'  BY <1>1, <1>2, BacklogFrame DEF IInv, pool
<1>6. LoopOK'  BY <1>1, LoopFrame DEF IInv, pool, life
<1>7. KnownOK'  BY <1>1, KnownFrame DEF IInv, SocketsStay, pool
<1>8. CountOK'  BY <1>1, CountFrame DEF IInv, pool, loop
<1>9. OwnOK'  BY <1>1, OwnFrame DEF IInv, pool, users, ghost
<1> QED  BY <1>3, <1>4, <1>5, <1>6, <1>7, <1>8, <1>9 DEF IInv

-----------------------------------------------------------------------------
(* The theorems.                                                           *)

LEMMA Start == Init => IInv
<1> SUFFICES ASSUME Init PROVE IInv  OBVIOUS
<1>1. InUse = {} /\ Range(known) = {} /\ Range(ep_events_) = {} /\ DOMAIN ep_events_ = {}
      /\ DOMAIN map_sock_ctx_ = {} /\ DOMAIN known = {}
  BY DEF Init, InUse, Range, NoEvents
<1>2. /\ ctx \in [Contexts -> Record]
      /\ \A x \in Contexts : ctx[x].socket = Nobody /\ ctx[x].pending = {}
  BY BlankRecord DEF Init
<1>3. Types
  <2>1. LifeType /\ LoopType /\ KnownType  BY <1>1 DEF Init, LifeType, LoopType, KnownType
  <2>2. PoolType  BY <1>1, Constants1 DEF Init, PoolType
  <2>3. NetType  BY DEF Init, NetType
  <2>4. UsersType
    <3>1. pc \in [Users -> {Idle} \cup Calling]  BY DEF Init
    <3>2. calls \in 0 .. MaxCalls /\ out = {} /\ misled = {} /\ overlapped = FALSE
      BY Constants1 DEF Init
    <3> QED  BY <1>2, <3>1, <3>2 DEF UsersType
  <2> QED  BY <2>1, <2>2, <2>3, <2>4 DEF Types
<1>4. MapOK /\ BacklogOK /\ KnownOK
  BY <1>1, <1>2 DEF Init, MapOK, BacklogOK, KnownOK
<1>5. LoopOK /\ CountOK  BY <1>1 DEF Init, LoopOK, Closing, CountOK
<1>6. OwnOK  BY <1>2 DEF Init, OwnOK, CallsOK, PendingOK
<1> QED  BY <1>3, <1>4, <1>5, <1>6 DEF IInv

LEMMA ThreadKeeps == ASSUME IInv, ThreadStep PROVE IInv'
<1>1. CASE LoopCondition  BY <1>1, LoopConditionStep
<1>2. CASE EpollWait  BY <1>2, EpollWaitStep
<1>3. CASE EpollWaitTimeout  BY <1>3, EpollWaitTimeoutStep
<1>4. CASE EpollWaitFails  BY <1>4, EpollWaitFailsStep
<1>5. CASE HandledAll  BY <1>5, HandledAllStep
<1>6. CASE HandleListener  BY <1>6, HandleListenerStep
<1>7. CASE \E x \in Contexts : HandleError(x)  BY <1>7, HandleErrorStep
<1>8. CASE \E x \in Contexts : RecvFails(x) \/ RecvReturns(x)  BY <1>8, RecvStep
<1>9. CASE \E x \in Contexts : SendPendingAll(x)  BY <1>9, SendPendingAllStep
<1>10. CASE \E x \in Contexts : SendPendingSome(x)  BY <1>10, SendPendingSomeStep
<1>11. CASE \E x \in Contexts : SendPendingFails(x)  BY <1>11, SendPendingFailsStep
<1>12. CASE \E c \in Client, x \in Contexts : AcceptNewClient(c, x)
  BY <1>12, AcceptNewClientStep
<1>13. CASE AcceptDone  BY <1>13, AcceptDoneStep
<1>14. CASE AcceptFails  BY <1>14, AcceptFailsStep
<1>15. CASE TerminateClient  BY <1>15, TerminateClientStep
<1>16. CASE OnClientDisconnected  BY <1>16, OnClientDisconnectedStep
<1>17. CASE PushClientContextToCache  BY <1>17, PushStep
<1> QED
  BY <1>1, <1>2, <1>3, <1>4, <1>5, <1>6, <1>7, <1>8, <1>9, <1>10, <1>11, <1>12, <1>13,
     <1>14, <1>15, <1>16, <1>17
  DEF ThreadStep

LEMMA StutterStep == ASSUME IInv, UNCHANGED vars PROVE IInv'
<1>1. UNCHANGED <<map_sock_ctx_, ctx>>  BY DEF vars
<1>2. InUse' = InUse  BY <1>1, InUseFrame
<1>3. Types'
  BY <1>2 DEF IInv, Types, LifeType, LoopType, PoolType, KnownType, NetType, UsersType, vars
<1>4. MapOK'  BY <1>2 DEF IInv, MapOK, vars
<1>5. BacklogOK'  BY DEF IInv, BacklogOK, vars
<1>6. LoopOK'  BY <1>2 DEF IInv, LoopOK, Closing, vars
<1>7. KnownOK' /\ CountOK'  BY DEF IInv, KnownOK, CountOK, vars
<1>8. OwnOK'  BY OwnFrame DEF IInv, vars
<1> QED  BY <1>3, <1>4, <1>5, <1>6, <1>7, <1>8 DEF IInv

LEMMA InSendDataStep == ASSUME IInv, NEW u \in Users, InSendData(u) PROVE IInv'
<1>1. pc[u] # Idle  BY DEF InSendData
<1>2. CASE GetLock(u)  BY <1>1, <1>2, GetLockStep
<1>3. CASE SendSome(u)  BY <1>1, <1>3, SendSomeStep
<1>4. CASE SendFails(u)  BY <1>1, <1>4, SendFailsStep
<1>5. CASE Queue(u)  BY <1>1, <1>5, QueueStep
<1>6. CASE ControlEpollOut(u)  BY <1>1, <1>6, ControlEpollOutStep
<1>7. CASE ControlEpollFails(u)  BY <1>1, <1>7, ControlEpollFailsStep
<1> QED  BY <1>2, <1>3, <1>4, <1>5, <1>6, <1>7 DEF InSendData

LEMMA Keeps == IInv /\ [Next]_vars => IInv'
<1> SUFFICES ASSUME IInv, [Next]_vars PROVE IInv'  OBVIOUS
<1>1. CASE RunServer  BY <1>1, RunServerStep
<1>2. CASE StopServer  BY <1>2, StopServerStep
<1>3. CASE StopServerFlag  BY <1>3, StopServerFlagStep
<1>4. CASE StopServerReturns  BY <1>4, StopServerReturnsStep
<1>5. CASE ThreadStep  BY <1>5, ThreadKeeps
<1>6. CASE \E u \in Users, c \in Client : SendData(u, c)  BY <1>6, SendDataStep
<1>7. CASE \E u \in Users : InSendData(u)  BY <1>7, InSendDataStep
<1>8. CASE \E c \in Client : Connect(c)  BY <1>8, ConnectStep
<1>9. CASE \E c \in Client, how \in {"ended", "reset"} : PeerEnds(c, how)
  BY <1>9, PeerEndsStep
<1>10. CASE UNCHANGED vars  BY <1>10, StutterStep
<1> QED
  BY <1>1, <1>2, <1>3, <1>4, <1>5, <1>6, <1>7, <1>8, <1>9, <1>10 DEF Next

(* The contexts, the map, the events to handle, the count and the calls    *)
(* under way fit together whatever the clients and the users do.           *)
THEOREM Inductive == Spec => []IInv
<1> QED  BY Start, Keeps, PTL DEF Spec

(* Every variable of the server has its type.  That the count of clients   *)
(* stays in its bounds is the part with an argument: TerminateClient       *)
(* counts off only who is still in map_sock_ctx_.                          *)
THEOREM TypeCorrect == Spec => []TypeOK
<1>1. IInv => TypeOK
  <2> SUFFICES ASSUME IInv PROVE TypeOK  OBVIOUS
  <2>1. \A u \in Users :
          pc[u] = Idle \/ pc[u] \in [at : {"lock", "queue", "queued", "send", "blocked"},
                                     ctx : Contexts, to : Client]
    BY DEF IInv, Types, UsersType, Calling, Steps
  <2> QED
    BY <2>1 DEF IInv, Types, LifeType, LoopType, PoolType, KnownType, NetType, UsersType,
                Record, TypeOK
<1> QED  BY <1>1, Inductive, PTL

(* PushClientContextToCache and PopClientContextFromCache never leave one  *)
(* context to two clients, or to a client and the cache.                   *)
THEOREM ExclusiveContexts == Spec => []Exclusive
<1>1. IInv => Exclusive  BY DEF IInv, MapOK, Exclusive
<1> QED  BY <1>1, Inductive, PTL

(* SendData, its queue and SendPendingData send to a client only what was  *)
(* meant for it, as long as no context is reset under a call.              *)
THEOREM SendsOwnBytes == Spec => []OwnBytes
<1>1. IInv => OwnBytes  BY DEF IInv, OwnOK, OwnBytes
<1> QED  BY <1>1, Inductive, PTL

(* client_cnt_ is the number of clients in map_sock_ctx_ whenever          *)
(* ServerThreadRoutine waits for events.                                   *)
THEOREM ClientsCounted == Spec => []CountOfClients
<1>1. IInv => CountOfClients  BY DEF IInv, CountOK, CountOfClients
<1> QED  BY <1>1, Inductive, PTL

-----------------------------------------------------------------------------
(* What the users are told of.                                              *)

\* The users know who is in the map, but for who is just being put away; of
\* whom they no longer know they have been told.
AllKnown ==
  thread # "none" =>
    \A c \in DOMAIN map_sock_ctx_ :
      c \in DOMAIN known \/ (thread = "push" /\ c = ctx[at].socket)
EndClosed == thread \in {"callback", "push"} => conn[ctx[at].socket] = "closed"
WaitsOpen == \A c \in backlog : conn[c] # "closed"
ToldOK == AllKnown /\ EndClosed /\ WaitsOpen

ToldStays == UNCHANGED <<[c \in Client |-> Told(c)], known>>

\* A step that the users are told nothing of.
LEMMA ToldFrame ==
  ASSUME IInv, ToldOK, UNCHANGED <<map_sock_ctx_, known>>, SocketsStay,
         \A c \in Client : conn'[c] = "closed" <=> conn[c] = "closed",
         \A c \in backlog' : c \in backlog \/ conn'[c] # "closed",
         thread' # "none" => thread # "none",
         thread = "push" => UNCHANGED <<thread, at>>,
         thread' \in {"callback", "push"} => UNCHANGED <<thread, at>>
  PROVE  ToldOK' /\ ToldStays
<1>1. backlog \subseteq Client /\ DOMAIN map_sock_ctx_ \subseteq Client
  BY DEF IInv, Types, NetType, PoolType
<1>2. thread \in {"callback", "push"} => at \in Contexts /\ ctx[at].socket \in Client
  BY Used DEF IInv, LoopOK, Closing
<1>3. AllKnown'  BY <1>2 DEF ToldOK, AllKnown, SocketsStay
<1>4. EndClosed'  BY <1>2 DEF ToldOK, EndClosed, SocketsStay
<1>5. WaitsOpen'
  <2> SUFFICES ASSUME NEW c \in backlog' PROVE conn'[c] # "closed"  BY DEF WaitsOpen
  <2> QED  BY <1>1 DEF ToldOK, WaitsOpen
<1>6. ToldStays
  <2>1. \A c \in Client : Told(c)' = Told(c)  BY DEF Told
  <2> QED  BY <2>1 DEF ToldStays
<1> QED  BY <1>3, <1>4, <1>5, <1>6 DEF ToldOK

LEMMA MainTold ==
  ASSUME IInv, ToldOK,
         RunServer \/ StopServer \/ StopServerFlag \/ StopServerReturns
  PROVE  ToldOK' /\ ToldStays
<1>1. CASE RunServer
  <2>1. DOMAIN map_sock_ctx_ = {} /\ UNCHANGED <<map_sock_ctx_, known, conn, backlog, at>>
        /\ thread' = "loop"
    BY <1>1 DEF IInv, LoopOK, RunServer, pool, net
  <2>2. ToldOK'  BY <2>1 DEF ToldOK, AllKnown, EndClosed, WaitsOpen
  <2>3. \A c \in Client : Told(c)' = Told(c)  BY <2>1 DEF Told
  <2> QED  BY <2>1, <2>2, <2>3 DEF ToldStays
<1>2. CASE StopServer
  <2>1. \A c \in Client : conn'[c] = "closed" <=> conn[c] = "closed"
    BY <1>2 DEF StopServer, ToldOK, WaitsOpen
  <2>2. /\ backlog' = {} /\ SocketsStay /\ UNCHANGED <<map_sock_ctx_, known, thread, at>>
    BY <1>2 DEF StopServer, SocketsStay, pool, loop
  <2> QED  BY <2>1, <2>2, ToldFrame
<1>3. CASE StopServerFlag \/ StopServerReturns
  <2>1. SocketsStay /\ UNCHANGED <<map_sock_ctx_, known, thread, at, conn, backlog>>
    BY <1>3 DEF StopServerFlag, StopServerReturns, SocketsStay, pool, loop, net
  <2> QED  BY <2>1, ToldFrame
<1> QED  BY <1>1, <1>2, <1>3

\* What changes in the contexts but for their sockets.
LEMMA SocketStays ==
  ASSUME IInv, NEW x \in Contexts, NEW s \in Record, ctx' = [ctx EXCEPT ![x] = s],
         s.socket = ctx[x].socket
  PROVE  SocketsStay
  BY DEF IInv, Types, UsersType, SocketsStay

LEMMA HandleSockets ==
  ASSUME IInv, NEW x \in Contexts,
         SendPendingAll(x) \/ SendPendingSome(x) \/ SendPendingFails(x)
  PROVE  SocketsStay
<1>1. ctx[x] \in Record  BY DEF IInv, Types, UsersType
<1>2. CASE SendPendingAll(x)
  <2> DEFINE r == [ctx[x] EXCEPT !.pending = {}]
             s == [r EXCEPT !.is_sent_pending = FALSE]
  <2>1. ctx' = [ctx EXCEPT ![x] = s]  BY <1>2 DEF SendPendingAll
  <2>2. r \in Record /\ r.socket = ctx[x].socket  BY <1>1, Records
  <2>3. s \in Record /\ s.socket = ctx[x].socket  BY <2>2, Records
  <2> HIDE DEF s
  <2> QED  BY <2>1, <2>3, SocketStays
<1>3. CASE SendPendingSome(x)  BY <1>3 DEF SendPendingSome, SocketsStay
<1>4. CASE SendPendingFails(x)
  <2> DEFINE s == [ctx[x] EXCEPT !.ctx_lock = Loop]
  <2>1. ctx' = [ctx EXCEPT ![x] = s]  BY <1>4 DEF SendPendingFails
  <2>2. s \in Record /\ s.socket = ctx[x].socket  BY <1>1, Records
  <2> HIDE DEF s
  <2> QED  BY <2>1, <2>2, SocketStays
<1> QED  BY <1>2, <1>3, <1>4

\* The loop, until it closes a connection or has accepted one.
LEMMA ServingTold ==
  ASSUME IInv, ToldOK,
         \/ LoopCondition \/ EpollWait \/ EpollWaitTimeout \/ EpollWaitFails
         \/ HandledAll \/ HandleListener \/ AcceptDone
         \/ \E x \in Contexts :
              \/ HandleError(x) \/ RecvFails(x) \/ RecvReturns(x)
              \/ SendPendingAll(x) \/ SendPendingSome(x) \/ SendPendingFails(x)
  PROVE  ToldOK' /\ ToldStays
<1>1. CASE LoopCondition \/ EpollWait \/ EpollWaitTimeout \/ EpollWaitFails \/ HandledAll
  <2>1. SocketsStay /\ UNCHANGED <<map_sock_ctx_, known, conn, backlog>>
    BY <1>1 DEF LoopCondition, EpollWait, EpollWaitTimeout, EpollWaitFails, HandledAll,
                LoopOnly, SocketsStay, pool, net
  <2>2. thread \in {"loop", "wait", "handle"} /\ thread' \in {"none", "loop", "wait", "handle"}
    BY <1>1 DEF LoopCondition, EpollWait, EpollWaitTimeout, EpollWaitFails, HandledAll,
                ThreadGoes, ThreadEnds
  <2> QED  BY <2>1, <2>2, ToldFrame
<1>2. ASSUME NEW x, NEW to \in {"handle", "accept", "close"}, Handle(x, to), SocketsStay
      PROVE  ToldOK' /\ ToldStays
  <2>1. /\ thread = "handle" /\ thread' = to
        /\ UNCHANGED <<map_sock_ctx_, known, conn, backlog>>
    BY <1>2 DEF Handle, ThreadGoes, pool
  <2> QED  BY <1>2, <2>1, ToldFrame
<1>3. CASE HandleListener
  <2>1. Handle(Listener, "accept") /\ SocketsStay  BY <1>3 DEF HandleListener, SocketsStay
  <2> QED  BY <1>2, <2>1
<1>4. CASE AcceptDone
  <2>1. /\ SocketsStay /\ UNCHANGED <<map_sock_ctx_, known, conn>> /\ backlog' \subseteq backlog
        /\ thread = "accept" /\ thread' = "handle"
    BY <1>4 DEF AcceptDone, ThreadGoes, SocketsStay, pool
  <2> QED  BY <2>1, ToldFrame
<1>5. ASSUME NEW x \in Contexts, HandleError(x) \/ RecvFails(x) \/ RecvReturns(x)
      PROVE  ToldOK' /\ ToldStays
  <2>1. SocketsStay /\ (Handle(x, "close") \/ Handle(x, "handle"))
    BY <1>5 DEF HandleError, RecvFails, RecvReturns, Received, SocketsStay
  <2> QED  BY <1>2, <2>1
<1>6. ASSUME NEW x \in Contexts,
             SendPendingAll(x) \/ SendPendingSome(x) \/ SendPendingFails(x)
      PROVE  ToldOK' /\ ToldStays
  <2>1. SocketsStay  BY <1>6, HandleSockets
  <2>2. Handle(x, "close") \/ Handle(x, "handle")
    BY <1>6 DEF SendPendingAll, SendPendingSome, SendPendingFails, SendPending
  <2> QED  BY <1>2, <2>1, <2>2
<1> QED  BY <1>1, <1>3, <1>4, <1>5, <1>6

LEMMA CallSockets ==
  ASSUME IInv, NEW u \in Users, InSendData(u)
  PROVE  SocketsStay
<1>1. pc[u] # Idle  BY DEF InSendData
<1> DEFINE x == pc[u].ctx
<1>2. x \in Contexts /\ ctx[x] \in Record /\ pc[u].to \in Client  BY <1>1, InCall
<1>3. ASSUME NEW r \in Record, r.socket = ctx[x].socket, Return(u, r)
      PROVE  SocketsStay
  <2> DEFINE s == [r EXCEPT !.ctx_lock = Free]
  <2>1. ctx' = [ctx EXCEPT ![x] = s]  BY <1>3 DEF Return
  <2>2. s \in Record /\ s.socket = ctx[x].socket  BY <1>3, Records
  <2> HIDE DEF s, x
  <2> QED  BY <1>2, <2>1, <2>2, SocketStays
<1>4. CASE GetLock(u)
  <2> DEFINE s == [ctx[x] EXCEPT !.ctx_lock = u]
  <2>1. ctx' = [ctx EXCEPT ![x] = s]  BY <1>4 DEF GetLock
  <2>2. s \in Record /\ s.socket = ctx[x].socket  BY <1>2, Records
  <2> HIDE DEF s, x
  <2> QED  BY <1>2, <2>1, <2>2, SocketStays
<1>5. CASE SendSome(u)
  <2>1. CASE UNCHANGED ctx  BY <2>1 DEF SocketsStay
  <2>2. CASE Return(u, ctx[x])  BY <1>2, <1>3, <2>2
  <2> QED  BY <1>5, <2>1, <2>2 DEF SendSome
<1>6. CASE SendFails(u)  BY <1>2, <1>3, <1>6 DEF SendFails
<1>7. CASE Queue(u)
  <2> DEFINE P == ctx[x].pending \cup {pc[u].to}
             s == [ctx[x] EXCEPT !.pending = P]
  <2>1. P \in SUBSET Client  BY <1>2, Records
  <2>2. ctx' = [ctx EXCEPT ![x] = s]  BY <1>7 DEF Queue
  <2> HIDE DEF P
  <2>3. s \in Record /\ s.socket = ctx[x].socket  BY <1>2, <2>1, Records
  <2> HIDE DEF s, x
  <2> QED  BY <1>2, <2>2, <2>3, SocketStays
<1>8. CASE ControlEpollOut(u)
  <2> DEFINE b == ctx[x].is_sent_pending \/ pc[u].at = "blocked"
             r == [ctx[x] EXCEPT !.is_sent_pending = b]
  <2>1. b \in BOOLEAN /\ Return(u, r)  BY <1>8 DEF ControlEpollOut
  <2> HIDE DEF b
  <2>2. r \in Record /\ r.socket = ctx[x].socket  BY <1>2, <2>1, Records
  <2> HIDE DEF r, x
  <2> QED  BY <1>3, <2>1, <2>2
<1>9. CASE ControlEpollFails(u)
  <2> DEFINE P == IF ctx[x].is_sent_pending THEN ctx[x].pending ELSE {}
             r == [ctx[x] EXCEPT !.pending = P]
  <2>1. P \in SUBSET Client  BY <1>2, Records
  <2>2. Return(u, r)  BY <1>9 DEF ControlEpollFails
  <2> HIDE DEF P
  <2>3. r \in Record /\ r.socket = ctx[x].socket  BY <1>2, <2>1, Records
  <2> HIDE DEF r, x
  <2> QED  BY <1>3, <2>2, <2>3
<1> QED  BY <1>4, <1>5, <1>6, <1>7, <1>8, <1>9 DEF InSendData

LEMMA CallUnchanged ==
  ASSUME NEW u \in Users, InSendData(u)
  PROVE  UNCHANGED NotSenders
  BY DEF InSendData, GetLock, SendSome, SendFails, Queue, ControlEpollOut, ControlEpollFails,
         Return

LEMMA OthersTold ==
  ASSUME IInv, ToldOK,
         \/ \E u \in Users, c \in Client : SendData(u, c)
         \/ \E u \in Users : InSendData(u)
         \/ \E c \in Client : Connect(c) \/ \E how \in {"ended", "reset"} : PeerEnds(c, how)
         \/ UNCHANGED vars
  PROVE  ToldOK' /\ ToldStays
<1>1. CASE \E u \in Users, c \in Client : SendData(u, c)
  <2>1. SocketsStay /\ UNCHANGED NotSenders  BY <1>1 DEF SendData, SocketsStay
  <2> QED  BY <2>1, ToldFrame DEF NotSenders, loop, pool
<1>2. CASE \E u \in Users : InSendData(u)
  <2>1. SocketsStay /\ UNCHANGED NotSenders  BY <1>2, CallSockets, CallUnchanged
  <2> QED  BY <2>1, ToldFrame DEF NotSenders, loop, pool
<1>3. CASE \E c \in Client : Connect(c)
  <2>1. PICK c \in Client : Connect(c)  BY <1>3
  <2>2. /\ SocketsStay /\ UNCHANGED <<map_sock_ctx_, known, thread, at>>
        /\ backlog' = backlog \cup {c} /\ conn' = [conn EXCEPT ![c] = "open"]
        /\ conn[c] = "none"
    BY <2>1 DEF Connect, SocketsStay, pool, loop
  <2>3. \A d \in Client : conn'[d] = "closed" <=> conn[d] = "closed"
    BY <2>2 DEF IInv, Types, NetType
  <2>4. conn'[c] # "closed"  BY <2>2, <2>3
  <2> QED  BY <2>2, <2>3, <2>4, ToldFrame
<1>4. CASE \E c \in Client, how \in {"ended", "reset"} : PeerEnds(c, how)
  <2>1. PICK c \in Client, how \in {"ended", "reset"} : PeerEnds(c, how)  BY <1>4
  <2>2. /\ SocketsStay /\ UNCHANGED <<map_sock_ctx_, known, thread, at, backlog>>
        /\ conn' = [conn EXCEPT ![c] = how] /\ conn[c] \in {"open", "ended"}
    BY <2>1 DEF PeerEnds, SocketsStay, pool, loop
  <2>3. \A d \in Client : conn'[d] = "closed" <=> conn[d] = "closed"
    BY <2>2 DEF IInv, Types, NetType
  <2> QED  BY <2>2, <2>3, ToldFrame
<1>5. CASE UNCHANGED vars
  <2>1. SocketsStay /\ UNCHANGED <<map_sock_ctx_, known, thread, at, conn, backlog>>
    BY <1>5 DEF vars, SocketsStay
  <2> QED  BY <2>1, ToldFrame
<1> QED  BY <1>1, <1>2, <1>3, <1>4, <1>5

LEMMA AcceptNewClientTold ==
  ASSUME IInv, ToldOK, NEW c \in Client, NEW x \in Contexts, AcceptNewClient(c, x)
  PROVE  ToldOK' /\ Callbacks!OnClientConnected(c, x)
<1>1. /\ thread = "accept" /\ Adopt(c, x) /\ UNCHANGED <<thread, conn>>
      /\ known' = [d \in DOMAIN known \cup {c} |-> IF d = c THEN x ELSE known[d]]
      /\ c \in backlog /\ backlog' = backlog \ {c}
  BY DEF AcceptNewClient, loop, Adopt
<1>2. /\ DOMAIN map_sock_ctx_' = DOMAIN map_sock_ctx_ \cup {c}
      /\ c \notin DOMAIN map_sock_ctx_ /\ c \notin DOMAIN known
  BY <1>1, Adopts
<1>3. DOMAIN known' = DOMAIN known \cup {c}  BY <1>1
<1>4. ToldOK'
  <2>1. AllKnown'  BY <1>1, <1>2, <1>3 DEF ToldOK, AllKnown
  <2>2. EndClosed'  BY <1>1 DEF EndClosed
  <2>3. WaitsOpen'  BY <1>1 DEF ToldOK, WaitsOpen
  <2> QED  BY <2>1, <2>2, <2>3 DEF ToldOK
<1>5. x \notin InUse
  BY <1>1 DEF Adopt, PopClientContextFromCache, IInv, MapOK
<1>6. x \notin Range(known)
  <2> SUFFICES ASSUME NEW d \in DOMAIN known, known[d] = x PROVE FALSE  BY DEF Range
  <2>1. d \in DOMAIN map_sock_ctx_ /\ map_sock_ctx_[d] = x  BY DEF IInv, KnownOK
  <2> QED  BY <1>5, <2>1, MapInUse
<1>7. Told(c) = "nothing" /\ Told(c)' = "connected"
  BY <1>1, <1>2, <1>3 DEF Told, ToldOK, WaitsOpen
<1>8. \A d \in Client \ {c} : Told(d)' = Told(d)  BY <1>1, <1>3 DEF Told
<1> DEFINE told == [d \in Client |-> Told(d)]
<1>9. told' = [told EXCEPT ![c] = "connected"] /\ told[c] = "nothing"
  BY <1>7, <1>8
<1> QED
  BY <1>1, <1>4, <1>6, <1>9 DEF Callbacks!OnClientConnected, Range, Callbacks!Range

LEMMA AcceptFailsTold ==
  ASSUME IInv, ToldOK, AcceptFails
  PROVE  ToldOK' /\ ToldStays
<1>1. thread' = "none" /\ UNCHANGED <<conn, known>>  BY DEF AcceptFails, ThreadEnds
<1>2. backlog' \subseteq backlog  BY DEF AcceptFails, Adopt
<1>3. ToldOK'  BY <1>1, <1>2 DEF ToldOK, AllKnown, EndClosed, WaitsOpen
<1>4. \A c \in Client : Told(c)' = Told(c)  BY <1>1 DEF Told
<1> QED  BY <1>1, <1>3, <1>4 DEF ToldStays

\* The client that is terminated.
LEMMA Terminated ==
  ASSUME IInv, Closing
  PROVE  /\ at \in Contexts /\ ctx[at].socket \in Client
         /\ ctx[at].socket \in DOMAIN map_sock_ctx_ /\ ctx[at].socket \notin backlog
  BY Used DEF IInv, LoopOK, BacklogOK

LEMMA TerminateClientTold ==
  ASSUME IInv, ToldOK, TerminateClient
  PROVE  ToldOK' /\ ToldStays
<1> DEFINE c == ctx[at].socket
<1>1. /\ thread = "close" /\ thread' = "callback" /\ conn' = [conn EXCEPT ![c] = "closed"]
      /\ UNCHANGED <<at, ctx, map_sock_ctx_, backlog, known>>
  BY DEF TerminateClient, ThreadGoes
<1>2. c \in Client /\ c \in DOMAIN known /\ c \notin backlog
  BY <1>1, Terminated DEF Closing, ToldOK, AllKnown
<1>3. conn'[c] = "closed" /\ \A d \in Client \ {c} : conn'[d] = conn[d]
  BY <1>1, <1>2 DEF IInv, Types, NetType
<1>4. AllKnown'  BY <1>1 DEF ToldOK, AllKnown
<1>5. EndClosed'  BY <1>1, <1>3 DEF EndClosed
<1>6. WaitsOpen'
  <2>1. backlog \subseteq Client  BY DEF IInv, Types, NetType
  <2> QED  BY <1>1, <1>2, <1>3, <2>1 DEF ToldOK, WaitsOpen
<1>7. \A d \in Client : Told(d)' = Told(d)  BY <1>1, <1>2, <1>3 DEF Told
<1> QED  BY <1>1, <1>4, <1>5, <1>6, <1>7 DEF ToldOK, ToldStays

LEMMA OnClientDisconnectedTold ==
  ASSUME IInv, ToldOK, OnClientDisconnected
  PROVE  ToldOK' /\ \E c \in Client : Callbacks!OnClientDisconnected(c)
<1>0. PICK c \in Client : c = ctx[at].socket
  BY Terminated DEF OnClientDisconnected, Closing
<1>1. /\ thread = "callback" /\ thread' = "push"
      /\ known' = Restrict(known, DOMAIN known \ {c})
      /\ UNCHANGED <<at, ctx, map_sock_ctx_, conn, backlog>>
  BY <1>0 DEF OnClientDisconnected, ThreadGoes, pool, net
<1>2. c \in DOMAIN known /\ conn[c] = "closed"
  BY <1>0, <1>1, Terminated DEF Closing, ToldOK, AllKnown, EndClosed
<1>3. DOMAIN known' = DOMAIN known \ {c}  BY <1>1 DEF Restrict
<1>4. ToldOK'
  <2>1. AllKnown'  BY <1>0, <1>1, <1>3 DEF ToldOK, AllKnown
  <2>2. EndClosed'  BY <1>0, <1>1, <1>2 DEF EndClosed
  <2>3. WaitsOpen'  BY <1>1 DEF ToldOK, WaitsOpen
  <2> QED  BY <2>1, <2>2, <2>3 DEF ToldOK
<1>5. Told(c) = "connected" /\ Told(c)' = "disconnected"
  BY <1>1, <1>2, <1>3 DEF Told
<1>6. \A d \in Client \ {c} : Told(d)' = Told(d)  BY <1>1, <1>3 DEF Told
<1>7. LET told == [d \in Client |-> Told(d)]
      IN  told[c] = "connected" /\ told' = [told EXCEPT ![c] = "disconnected"]
  BY <1>5, <1>6
<1>8. Callbacks!OnClientDisconnected(c)
  BY <1>1, <1>2, <1>7
  DEF Callbacks!OnClientDisconnected, Callbacks!Leaves, Restrict, Callbacks!Restrict
<1> QED  BY <1>4, <1>8

LEMMA PushTold ==
  ASSUME IInv, ToldOK, PushClientContextToCache
  PROVE  ToldOK' /\ ToldStays
<1> DEFINE c == ctx[at].socket
<1>1. /\ thread = "push" /\ thread' \in {"none", "handle"}
      /\ map_sock_ctx_' = Restrict(map_sock_ctx_, DOMAIN map_sock_ctx_ \ {c})
      /\ UNCHANGED <<conn, backlog, known>>
  BY DEF PushClientContextToCache, ThreadEnds, ThreadGoes, net
<1>2. DOMAIN map_sock_ctx_' = DOMAIN map_sock_ctx_ \ {c}  BY <1>1 DEF Restrict
<1>3. AllKnown'  BY <1>1, <1>2 DEF ToldOK, AllKnown
<1>4. EndClosed' /\ WaitsOpen'  BY <1>1 DEF EndClosed, ToldOK, WaitsOpen
<1>5. \A d \in Client : Told(d)' = Told(d)  BY <1>1 DEF Told
<1> QED  BY <1>1, <1>3, <1>4, <1>5 DEF ToldOK, ToldStays

LEMMA StepTold ==
  ASSUME IInv, ToldOK, [Next]_vars
  PROVE  ToldOK' /\ [Callbacks!Next]_(Callbacks!vars)
<1>1. ASSUME ToldStays PROVE UNCHANGED Callbacks!vars
  BY <1>1 DEF ToldStays, Callbacks!vars
<1>2. CASE RunServer \/ StopServer \/ StopServerFlag \/ StopServerReturns
  BY <1>1, <1>2, MainTold
<1>3. CASE ThreadStep
  <2>1. CASE \E c \in Client, x \in Contexts : AcceptNewClient(c, x)
    BY <2>1, AcceptNewClientTold DEF Callbacks!Next
  <2>2. CASE AcceptFails \/ TerminateClient \/ PushClientContextToCache
    BY <1>1, <2>2, AcceptFailsTold, TerminateClientTold, PushTold
  <2>3. CASE OnClientDisconnected
    BY <2>3, OnClientDisconnectedTold DEF Callbacks!Next
  <2>4. CASE \/ LoopCondition \/ EpollWait \/ EpollWaitTimeout \/ EpollWaitFails
             \/ HandledAll \/ HandleListener \/ AcceptDone
             \/ \E x \in Contexts :
                  \/ HandleError(x) \/ RecvFails(x) \/ RecvReturns(x)
                  \/ SendPendingAll(x) \/ SendPendingSome(x) \/ SendPendingFails(x)
    BY <1>1, <2>4, ServingTold
  <2> QED  BY <1>3, <2>1, <2>2, <2>3, <2>4 DEF ThreadStep
<1>4. CASE \/ \E u \in Users, c \in Client : SendData(u, c)
           \/ \E u \in Users : InSendData(u)
           \/ \E c \in Client : Connect(c) \/ \E how \in {"ended", "reset"} : PeerEnds(c, how)
           \/ UNCHANGED vars
  BY <1>1, <1>4, OthersTold
<1> QED  BY <1>2, <1>3, <1>4 DEF Next

(* Whatever the clients, the users and the loop do, OnClientConnected and  *)
(* OnClientDisconnected are called as the user may expect: once each, in   *)
(* this order, with a context that is no other client's in between.        *)
THEOREM ImplementsCallbacks == Spec => IsCallbacks
<1>1. Init => ToldOK /\ Callbacks!Init
  <2> SUFFICES ASSUME Init PROVE ToldOK /\ Callbacks!Init  OBVIOUS
  <2>1. DOMAIN known = {} /\ \A c \in Client : Told(c) = "nothing"  BY DEF Init, Told
  <2> QED  BY <2>1 DEF Init, ToldOK, AllKnown, EndClosed, WaitsOpen, Callbacks!Init
<1>2. IInv /\ ToldOK /\ [Next]_vars => ToldOK' /\ [Callbacks!Next]_(Callbacks!vars)
  BY StepTold
<1>3. Spec => []IInv  BY Inductive
<1> QED  BY <1>1, <1>2, <1>3, PTL DEF Spec, IsCallbacks, Callbacks!Spec

-----------------------------------------------------------------------------
(* Who holds the contexts' locks.                                           *)

\* The user's thread u is in SendData, beyond the lock.
InLock(u) == pc[u] # Idle /\ pc[u].at # "lock"

OwnLocks == \A u \in Users : InLock(u) => ctx[pc[u].ctx].ctx_lock = u
UserLocks ==
  \A x \in Contexts, u \in Users : ctx[x].ctx_lock = u => InLock(u) /\ pc[u].ctx = x
LoopLocks == \A x \in Contexts : ctx[x].ctx_lock = Loop => Closing /\ at = x
RunsOK == is_server_running_ <=> thread # "none"
LocksOK == OwnLocks /\ UserLocks /\ LoopLocks /\ RunsOK

LocksStay == \A x \in Contexts : ctx'[x].ctx_lock = ctx[x].ctx_lock

LEMMA RecordLocks ==
  ASSUME NEW r \in Record
  PROVE  /\ \A l \in Users \cup {Loop, Free} : [r EXCEPT !.ctx_lock = l].ctx_lock = l
         /\ \A b \in BOOLEAN : [r EXCEPT !.is_sent_pending = b].ctx_lock = r.ctx_lock
         /\ \A P \in SUBSET Client : [r EXCEPT !.pending = P].ctx_lock = r.ctx_lock
         /\ \A c \in Client \cup {Nobody} : [r EXCEPT !.socket = c].ctx_lock = r.ctx_lock
  BY DEF Record

\* A step of the loop or of the server's user that takes no lock.
LEMMA LocksFrame ==
  ASSUME IInv, LocksOK, LocksStay, UNCHANGED pc, Closing => Closing' /\ at' = at, RunsOK'
  PROVE  LocksOK'
<1>1. OwnLocks'
  <2> SUFFICES ASSUME NEW u \in Users, InLock(u)' PROVE ctx'[pc'[u].ctx].ctx_lock = u
    BY DEF OwnLocks
  <2>1. InLock(u) /\ pc[u].ctx \in Contexts  BY InCall DEF InLock
  <2> QED  BY <2>1 DEF LocksOK, OwnLocks, LocksStay
<1>2. UserLocks'  BY DEF LocksOK, UserLocks, LocksStay, InLock
<1>3. LoopLocks'  BY DEF LocksOK, LoopLocks, LocksStay
<1> QED  BY <1>1, <1>2, <1>3 DEF LocksOK

\* A step of a call that has the lock, takes it, or gives it back.
LEMMA CallLocks ==
  ASSUME IInv, LocksOK, NEW u \in Users, pc[u] # Idle,
         NEW s \in Record, ctx' = [ctx EXCEPT ![pc[u].ctx] = s],
         NEW q \in {Idle} \cup Calling, pc' = [pc EXCEPT ![u] = q], UNCHANGED NotSenders,
         q # Idle => q.ctx = pc[u].ctx,
         InLock(u) \/ ctx[pc[u].ctx].ctx_lock = Free,
         s.ctx_lock = IF q # Idle /\ q.at # "lock" THEN u ELSE Free
  PROVE  LocksOK'
<1> DEFINE x == pc[u].ctx
<1>1. /\ x \in Contexts /\ ctx'[x] = s /\ \A y \in Contexts \ {x} : ctx'[y] = ctx[y]
      /\ pc'[u] = q /\ \A v \in Users \ {u} : pc'[v] = pc[v]
  BY InCall
<1>2. /\ Free \notin Users /\ Loop \notin Users /\ Loop # Free  BY Constants1
<1>3. \A v \in Users \ {u} : InLock(v) => pc[v].ctx # x /\ pc[v].ctx \in Contexts
  <2> SUFFICES ASSUME NEW v \in Users \ {u}, InLock(v)
               PROVE  pc[v].ctx # x /\ pc[v].ctx \in Contexts
    OBVIOUS
  <2>1. pc[v].ctx \in Contexts  BY InCall DEF InLock
  <2>2. ctx[pc[v].ctx].ctx_lock = v  BY DEF LocksOK, OwnLocks
  <2>3. ctx[x].ctx_lock \in {u, Free}  BY DEF LocksOK, OwnLocks
  <2> QED  BY <1>2, <2>1, <2>2, <2>3
<1>4. \A v \in Users \ {u} : InLock(v)' <=> InLock(v)  BY <1>1 DEF InLock
<1>5. InLock(u)' <=> (q # Idle /\ q.at # "lock")  BY <1>1 DEF InLock
<1> HIDE DEF x
<1>6. OwnLocks'
  <2> SUFFICES ASSUME NEW v \in Users, InLock(v)' PROVE ctx'[pc'[v].ctx].ctx_lock = v
    BY DEF OwnLocks
  <2>1. CASE v = u  BY <1>1, <1>5, <2>1 DEF x
  <2>2. CASE v # u  BY <1>1, <1>3, <1>4, <2>2 DEF LocksOK, OwnLocks
  <2> QED  BY <2>1, <2>2
<1>7. UserLocks'
  <2> SUFFICES ASSUME NEW y \in Contexts, NEW v \in Users, ctx'[y].ctx_lock = v
               PROVE  InLock(v)' /\ pc'[v].ctx = y
    BY DEF UserLocks
  <2>1. CASE y = x  BY <1>1, <1>2, <1>5, <2>1 DEF x
  <2>2. CASE y # x
    <3>1. InLock(v) /\ pc[v].ctx = y  BY <1>1, <2>2 DEF LocksOK, UserLocks
    <3>2. v # u  BY <2>2, <3>1 DEF x
    <3> QED  BY <1>1, <1>4, <3>1, <3>2
  <2> QED  BY <2>1, <2>2
<1>8. UNCHANGED <<thread, at, is_server_running_>>  BY DEF NotSenders, life, loop
<1>9. LoopLocks'
  <2> SUFFICES ASSUME NEW y \in Contexts, ctx'[y].ctx_lock = Loop PROVE Closing' /\ at' = y
    BY DEF LoopLocks
  <2>1. y # x  BY <1>1, <1>2
  <2> QED  BY <1>1, <1>8, <2>1 DEF LocksOK, LoopLocks, Closing
<1>10. RunsOK'  BY <1>8 DEF LocksOK, RunsOK
<1> QED  BY <1>6, <1>7, <1>9, <1>10 DEF LocksOK

LEMMA ReturnLocks ==
  ASSUME IInv, LocksOK, NEW u \in Users, InLock(u), NEW r \in Record, Return(u, r)
  PROVE  LocksOK'
<1> DEFINE s == [r EXCEPT !.ctx_lock = Free]
<1>1. s \in Record /\ s.ctx_lock = Free  BY Records, RecordLocks
<1>2. /\ ctx' = [ctx EXCEPT ![pc[u].ctx] = s] /\ pc' = [pc EXCEPT ![u] = Idle]
      /\ UNCHANGED NotSenders /\ pc[u] # Idle
  BY DEF Return, InLock
<1> HIDE DEF s
<1> QED  BY <1>1, <1>2, CallLocks

LEMMA InSendDataLocks ==
  ASSUME IInv, LocksOK, NEW u \in Users, InSendData(u)
  PROVE  LocksOK'
<1> DEFINE x == pc[u].ctx
<1>1. /\ pc[u] # Idle /\ x \in Contexts /\ pc[u] \in Calling /\ ctx[x] \in Record
      /\ pc[u].to \in Client
  BY InCall DEF InSendData
<1>2. CASE GetLock(u)
  <2> DEFINE s == [ctx[x] EXCEPT !.ctx_lock = u]
             a == IF ctx[x].is_sent_pending THEN "queue" ELSE "send"
             q == [pc[u] EXCEPT !.at = a]
  <2>1. s \in Record /\ s.ctx_lock = u  BY <1>1, Records, RecordLocks
  <2>2. q \in Calling /\ q.ctx = x /\ q # Idle /\ q.at # "lock"
    <3>1. a \in Steps /\ a # "lock"  BY DEF Steps
    <3> HIDE DEF a, x
    <3>2. q \in Calling /\ q.ctx = pc[u].ctx /\ q.at = a  BY <1>1, <3>1, Calls DEF Calling
    <3> QED  BY <3>1, <3>2, Calls DEF x
  <2>3. /\ ctx' = [ctx EXCEPT ![x] = s] /\ pc' = [pc EXCEPT ![u] = q]
        /\ UNCHANGED NotSenders /\ ctx[x].ctx_lock = Free
    BY <1>2 DEF GetLock
  <2> HIDE DEF s, q
  <2> QED  BY <1>1, <2>1, <2>2, <2>3, CallLocks
<1>3. CASE SendSome(u)
  <2>1. InLock(u)  BY <1>1, <1>3 DEF SendSome, InLock
  <2>2. CASE UNCHANGED <<NotSenders, users, ctx>>
    BY <2>2, LocksFrame DEF NotSenders, users, loop, life, LocksStay, LocksOK, RunsOK, Closing
  <2> QED  BY <1>1, <1>3, <2>1, <2>2, ReturnLocks DEF SendSome
<1>4. CASE SendFails(u)
  <2>1. InLock(u)  BY <1>1, <1>4 DEF SendFails, InLock
  <2> QED  BY <1>1, <1>4, <2>1, ReturnLocks DEF SendFails
<1>5. CASE Queue(u)
  <2> DEFINE P == ctx[x].pending \cup {pc[u].to}
             s == [ctx[x] EXCEPT !.pending = P]
             a == IF pc[u].at = "queue" THEN "queued" ELSE "blocked"
             q == [pc[u] EXCEPT !.at = a]
  <2>1. P \in SUBSET Client  BY <1>1, Records
  <2>2. InLock(u)  BY <1>1, <1>5 DEF Queue, InLock
  <2>3. /\ ctx' = [ctx EXCEPT ![x] = s] /\ pc' = [pc EXCEPT ![u] = q]
        /\ UNCHANGED NotSenders
    BY <1>5 DEF Queue
  <2>4. q \in Calling /\ q.ctx = x /\ q # Idle /\ q.at # "lock"
    <3>1. a \in Steps /\ a # "lock"  BY DEF Steps
    <3> HIDE DEF a, x
    <3>2. q \in Calling /\ q.ctx = pc[u].ctx /\ q.at = a  BY <1>1, <3>1, Calls DEF Calling
    <3> QED  BY <3>1, <3>2, Calls DEF x
  <2> HIDE DEF P
  <2>5. s \in Record /\ s.ctx_lock = u
    BY <1>1, <2>1, <2>2, Records, RecordLocks DEF LocksOK, OwnLocks
  <2> HIDE DEF s, q
  <2> QED  BY <1>1, <2>2, <2>3, <2>4, <2>5, CallLocks
<1>6. CASE ControlEpollOut(u)
  <2> DEFINE b == ctx[x].is_sent_pending \/ pc[u].at = "blocked"
             r == [ctx[x] EXCEPT !.is_sent_pending = b]
  <2>1. b \in BOOLEAN /\ Return(u, r) /\ InLock(u)  BY <1>1, <1>6 DEF ControlEpollOut, InLock
  <2> HIDE DEF b
  <2>2. r \in Record  BY <1>1, <2>1, Records
  <2> HIDE DEF r
  <2> QED  BY <2>1, <2>2, ReturnLocks
<1>7. CASE ControlEpollFails(u)
  <2> DEFINE P == IF ctx[x].is_sent_pending THEN ctx[x].pending ELSE {}
             r == [ctx[x] EXCEPT !.pending = P]
  <2>1. P \in SUBSET Client  BY <1>1, Records
  <2>2. Return(u, r) /\ InLock(u)  BY <1>1, <1>7 DEF ControlEpollFails, InLock
  <2> HIDE DEF P
  <2>3. r \in Record  BY <1>1, <2>1, Records
  <2> HIDE DEF r
  <2> QED  BY <2>2, <2>3, ReturnLocks
<1> QED  BY <1>2, <1>3, <1>4, <1>5, <1>6, <1>7 DEF InSendData

\* Before and after an event is handled the loop holds no lock.
LEMMA ServingLocks ==
  ASSUME IInv, LocksOK,
         \/ LoopCondition \/ EpollWait \/ EpollWaitTimeout \/ EpollWaitFails
         \/ HandledAll \/ HandleListener \/ AcceptDone \/ AcceptFails
         \/ \E c \in Client, x \in Contexts : AcceptNewClient(c, x)
         \/ \E x \in Contexts :
              \/ HandleError(x) \/ RecvFails(x) \/ RecvReturns(x)
              \/ SendPendingAll(x) \/ SendPendingSome(x)
  PROVE  LocksOK'
<1>1. ctx \in [Contexts -> Record]  BY DEF IInv, Types, UsersType
<1>2. CASE LoopCondition \/ EpollWait \/ EpollWaitTimeout \/ EpollWaitFails \/ HandledAll
  <2>1. LocksStay /\ UNCHANGED pc /\ ~Closing
    BY <1>2 DEF LoopCondition, EpollWait, EpollWaitTimeout, EpollWaitFails, HandledAll,
                LoopOnly, LocksStay, users, Closing
  <2>2. RunsOK'
    BY <1>2 DEF LoopCondition, EpollWait, EpollWaitTimeout, EpollWaitFails, HandledAll,
                ThreadGoes, ThreadEnds, LocksOK, RunsOK
  <2> QED  BY <2>1, <2>2, LocksFrame
<1>3. ASSUME NEW x, NEW to \in {"handle", "accept", "close"}, Handle(x, to), LocksStay
      PROVE  LocksOK'
  <2>1. UNCHANGED pc /\ ~Closing /\ RunsOK'
    BY <1>3 DEF Handle, ThreadGoes, users, Closing, LocksOK, RunsOK
  <2> QED  BY <1>3, <2>1, LocksFrame
<1>4. CASE HandleListener
  <2>1. Handle(Listener, "accept") /\ LocksStay  BY <1>4 DEF HandleListener, LocksStay
  <2> QED  BY <1>3, <2>1
<1>5. ASSUME NEW c \in Client, NEW x \in Contexts, Adopt(c, x) PROVE LocksStay
  <2> DEFINE s == [ctx[x] EXCEPT !.socket = c]
  <2>1. ctx' = [ctx EXCEPT ![x] = s]  BY <1>5 DEF Adopt
  <2>2. s \in Record /\ s.ctx_lock = ctx[x].ctx_lock  BY <1>1, Records, RecordLocks
  <2> HIDE DEF s
  <2> QED  BY <1>1, <2>1, <2>2 DEF LocksStay
<1>6. CASE AcceptDone \/ AcceptFails \/ \E c \in Client, x \in Contexts : AcceptNewClient(c, x)
  <2>1. LocksStay
    BY <1>5, <1>6 DEF AcceptDone, AcceptFails, AcceptNewClient, LocksStay
  <2>2. UNCHANGED pc /\ ~Closing /\ RunsOK'
    BY <1>6 DEF AcceptDone, AcceptFails, AcceptNewClient, ThreadGoes, ThreadEnds, users, loop,
                life, Closing, LocksOK, RunsOK
  <2> QED  BY <2>1, <2>2, LocksFrame
<1>7. ASSUME NEW x \in Contexts,
             HandleError(x) \/ RecvFails(x) \/ RecvReturns(x)
               \/ SendPendingAll(x) \/ SendPendingSome(x)
      PROVE  LocksOK'
  <2>1. Handle(x, "close") \/ Handle(x, "handle")
    BY <1>7 DEF HandleError, RecvFails, RecvReturns, Received, SendPendingAll,
                SendPendingSome, SendPending
  <2>2. CASE SendPendingAll(x)
    <3> DEFINE r == [ctx[x] EXCEPT !.pending = {}]
               s == [r EXCEPT !.is_sent_pending = FALSE]
    <3>1. ctx' = [ctx EXCEPT ![x] = s]  BY <2>2 DEF SendPendingAll
    <3>2. r \in Record /\ r.ctx_lock = ctx[x].ctx_lock  BY <1>1, Records, RecordLocks
    <3>3. s \in Record /\ s.ctx_lock = ctx[x].ctx_lock  BY <3>2, Records, RecordLocks
    <3> HIDE DEF s
    <3>4. LocksStay  BY <1>1, <3>1, <3>3 DEF LocksStay
    <3> QED  BY <1>3, <2>1, <3>4
  <2>3. CASE HandleError(x) \/ RecvFails(x) \/ RecvReturns(x) \/ SendPendingSome(x)
    <3>1. LocksStay
      BY <2>3 DEF HandleError, RecvFails, RecvReturns, Received, SendPendingSome, LocksStay
    <3> QED  BY <1>3, <2>1, <3>1
  <2> QED  BY <1>7, <2>2, <2>3
<1> QED  BY <1>2, <1>4, <1>6, <1>7

\* The loop takes a lock when it fails to send what is pending, and gives it
\* back when it has put the context away.
LEMMA ClosingLocks ==
  ASSUME IInv, LocksOK,
         \/ \E x \in Contexts : SendPendingFails(x)
         \/ TerminateClient \/ OnClientDisconnected \/ PushClientContextToCache
  PROVE  LocksOK'
<1>1. ctx \in [Contexts -> Record] /\ Loop \notin Users /\ Free \notin Users /\ Loop # Free
  BY Constants1 DEF IInv, Types, UsersType
<1>2. ASSUME NEW x \in Contexts, NEW s \in Record, ctx' = [ctx EXCEPT ![x] = s],
             UNCHANGED pc, RunsOK',
             \/ s.ctx_lock = Loop /\ ctx[x].ctx_lock = Free /\ ~Closing /\ Closing' /\ at' = x
             \/ /\ at = x /\ s.ctx_lock = IF ctx[x].ctx_lock = Loop THEN Free
                                          ELSE ctx[x].ctx_lock
      PROVE  LocksOK'
  <2>1. ctx'[x] = s /\ \A y \in Contexts \ {x} : ctx'[y] = ctx[y]  BY <1>1, <1>2
  <2>2. \A u \in Users : InLock(u) => pc[u].ctx \in Contexts  BY InCall DEF InLock
  <2>3. \A u \in Users : InLock(u)' <=> InLock(u)  BY <1>2 DEF InLock
  <2>4. \A y \in Contexts, u \in Users : ctx'[y].ctx_lock = u <=> ctx[y].ctx_lock = u
    BY <1>1, <1>2, <2>1
  <2>5. OwnLocks'  BY <1>2, <2>2, <2>3, <2>4 DEF LocksOK, OwnLocks
  <2>6. UserLocks'  BY <1>2, <2>3, <2>4 DEF LocksOK, UserLocks
  <2>7. LoopLocks'  BY <1>1, <1>2, <2>1 DEF LocksOK, LoopLocks
  <2> QED  BY <1>2, <2>5, <2>6, <2>7 DEF LocksOK
<1>3. ASSUME NEW x \in Contexts, SendPendingFails(x) PROVE LocksOK'
  <2> DEFINE s == [ctx[x] EXCEPT !.ctx_lock = Loop]
  <2>1. ctx' = [ctx EXCEPT ![x] = s] /\ Handle(x, "close") /\ ctx[x].ctx_lock = Free
    BY <1>3 DEF SendPendingFails, SendPending
  <2>2. /\ UNCHANGED pc /\ ~Closing /\ Closing' /\ at' = x /\ RunsOK'
    BY <2>1 DEF Handle, ThreadGoes, users, Closing, LocksOK, RunsOK
  <2>3. s \in Record /\ s.ctx_lock = Loop  BY <1>1, Records, RecordLocks
  <2> HIDE DEF s
  <2> QED  BY <1>2, <2>1, <2>2, <2>3
<1>4. CASE TerminateClient \/ OnClientDisconnected
  <2>1. LocksStay /\ UNCHANGED <<pc, at>> /\ Closing' /\ RunsOK'
    BY <1>4 DEF TerminateClient, OnClientDisconnected, ThreadGoes, LocksStay, users, Closing,
                LocksOK, RunsOK
  <2> QED  BY <2>1, LocksFrame
<1>5. CASE PushClientContextToCache
  <2> DEFINE l == Unlocked(at)
             s == [Blank EXCEPT !.ctx_lock = l]
  <2>1. at \in Contexts  BY <1>5, Used DEF PushClientContextToCache, IInv, LoopOK, Closing
  <2>2. /\ l \in Users \cup {Loop, Free}
        /\ l = IF ctx[at].ctx_lock = Loop THEN Free ELSE ctx[at].ctx_lock
    BY <1>1, <2>1, Records DEF Unlocked
  <2>3. ctx' = [ctx EXCEPT ![at] = s] /\ UNCHANGED pc
    BY <1>5 DEF PushClientContextToCache, Reset, users
  <2>4. RunsOK'
    BY <1>5 DEF PushClientContextToCache, ThreadEnds, ThreadGoes, LocksOK, RunsOK
  <2> HIDE DEF l
  <2>5. s \in Record /\ s.ctx_lock = l  BY <2>2, BlankRecord, RecordLocks
  <2> HIDE DEF s
  <2> QED  BY <1>2, <2>1, <2>2, <2>3, <2>4, <2>5
<1> QED  BY <1>3, <1>4, <1>5

LEMMA StepLocks ==
  ASSUME IInv, LocksOK, [Next]_vars
  PROVE  LocksOK'
<1>1. CASE RunServer \/ StopServer \/ StopServerFlag \/ StopServerReturns
  <2>1. LocksStay /\ UNCHANGED <<pc, at>>
    BY <1>1 DEF RunServer, StopServer, StopServerFlag, StopServerReturns, LocksStay, loop, users
  <2>2. (Closing => Closing') /\ RunsOK'
    BY <1>1 DEF RunServer, StopServer, StopServerFlag, StopServerReturns, loop, life, Closing,
                LocksOK, RunsOK, IInv, LoopOK
  <2> QED  BY <2>1, <2>2, LocksFrame
<1>2. CASE ThreadStep  BY <1>2, ServingLocks, ClosingLocks DEF ThreadStep
<1>3. CASE \E u \in Users, c \in Client : SendData(u, c)
  <2>1. PICK u \in Users, c \in Client : SendData(u, c)  BY <1>3
  <2> DEFINE q == [at |-> "lock", ctx |-> known[c], to |-> c]
  <2>2. pc' = [pc EXCEPT ![u] = q] /\ UNCHANGED <<NotSenders, ctx>> /\ pc[u] = Idle
    BY <2>1 DEF SendData
  <2>3. q.at = "lock"  OBVIOUS
  <2> HIDE DEF q
  <2>4. /\ pc \in [Users -> {Idle} \cup Calling] /\ UNCHANGED <<thread, at, is_server_running_>>
    BY <2>2 DEF IInv, Types, UsersType, NotSenders, life, loop
  <2>5. \A v \in Users : (InLock(v)' <=> InLock(v)) /\ (InLock(v) => pc'[v] = pc[v])
    BY <2>2, <2>3, <2>4 DEF InLock
  <2>6. OwnLocks' /\ UserLocks'  BY <2>2, <2>5 DEF LocksOK, OwnLocks, UserLocks
  <2>7. LoopLocks' /\ RunsOK'  BY <2>2, <2>4 DEF LocksOK, LoopLocks, RunsOK, Closing
  <2> QED  BY <2>6, <2>7 DEF LocksOK
<1>4. CASE \E u \in Users : InSendData(u)  BY <1>4, InSendDataLocks
<1>5. CASE \/ \E c \in Client : Connect(c) \/ \E how \in {"ended", "reset"} : PeerEnds(c, how)
           \/ UNCHANGED vars
  <2>1. LocksStay /\ UNCHANGED <<pc, at, thread, is_server_running_>>
    BY <1>5 DEF Connect, PeerEnds, vars, LocksStay, users, loop, life
  <2> QED  BY <2>1, LocksFrame DEF Closing, LocksOK, RunsOK
<1> QED  BY <1>1, <1>2, <1>3, <1>4, <1>5 DEF Next

(* Nobody waits for nobody: ctx_lock is held by a call of SendData that is *)
(* beyond it, or by the loop that terminates the context's client, also    *)
(* when the context was reset under the call; and the thread that          *)
(* StopServer waits for is there.                                          *)
THEOREM LocksHeldByRunners == Spec => []HoldersRun
<1>1. Init => LocksOK
  <2> SUFFICES ASSUME Init PROVE LocksOK  OBVIOUS
  <2>1. /\ \A u \in Users : ~InLock(u)
        /\ \A x \in Contexts : ctx[x].ctx_lock = Free
        /\ thread = "none" /\ ~is_server_running_
    BY DEF Init, InLock, Blank
  <2>2. Free \notin Users /\ Loop # Free  BY Constants1
  <2> QED  BY <2>1, <2>2 DEF LocksOK, OwnLocks, UserLocks, LoopLocks, RunsOK
<1>2. IInv /\ LocksOK /\ [Next]_vars => LocksOK'  BY StepLocks
<1>3. IInv /\ LocksOK => HoldersRun
  <2> SUFFICES ASSUME IInv, LocksOK PROVE HoldersRun  OBVIOUS
  <2>1. \A x \in Contexts : ctx[x].ctx_lock \in Users \cup {Loop, Free}
    BY Records DEF IInv, Types, UsersType
  <2>2. \A x \in Contexts : ctx[x].ctx_lock = Loop => at = x /\ Closing
    BY DEF LocksOK, LoopLocks
  <2>3. \A x \in Contexts, u \in Users : ctx[x].ctx_lock = u => InLock(u) /\ pc[u].ctx = x
    BY DEF LocksOK, UserLocks
  <2> QED  BY <2>1, <2>2, <2>3 DEF HoldersRun, InLock, Closing, LocksOK, RunsOK
<1>4. Spec => []IInv  BY Inductive
<1> QED  BY <1>1, <1>2, <1>3, <1>4, PTL DEF Spec

=============================================================================
