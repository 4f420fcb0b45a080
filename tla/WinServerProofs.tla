--------------------------- MODULE WinServerProofs ---------------------------
(***************************************************************************)
(* The contexts, counts and records of the Windows server add up, and no   *)
(* thread outlives StopServer: for any number of workers, users' threads   *)
(* and clients.                                                            *)
(***************************************************************************)
EXTENDS WinServer, SequenceTheorems, FiniteSetTheorems, FunctionTheorems, TLAPS

Limit == MaxClients + Cardinality(Workers) + max_event_

AcceptorAt ==
  [at : {"none", "new", "accept", "exit"}] \cup [at : {"issue", "count"}, client : Client]
WorkerAt ==
  [at : {"none", "get", "counted"}] \cup [at : {"issue", "count", "terminate"}, client : Client]
SenderAt == {None} \cup [at : {"send", "close"}, ctx : Context]

\* TypeOK without the bounds that need an argument.
Types ==
  /\ main \in {"off", "on", "posted", "join", "wait", "returned"}
  /\ acceptor \in AcceptorAt /\ worker \in [Workers -> WorkerAt]
  /\ sender \in [Users -> SenderAt]
  /\ is_server_running_ \in BOOLEAN /\ is_need_accept_ \in BOOLEAN
  /\ ctx \in [Context -> [socket : Client \cup {INVALID_SOCKET}, is_connected : BOOLEAN,
                          recv_ref_cnt : Int]]
  /\ conn \in [Client -> {"none", "open", "ended", "closed"}]
  /\ key \in [Client -> Context \cup {0}]
  /\ told \in [Client -> {"nothing", "connected", "disconnected"}]
  /\ receiving \in [Client -> Nat]
  /\ excused \subseteq Client

Sending == {u \in Users : sender[u].at = "send"}

RecordsOK ==
  /\ records \in Nat /\ queue_per_io_data_cache_ \in Nat /\ sending \in Nat
  /\ records = queue_per_io_data_cache_ + Cardinality(Sending) + sending
  /\ sending + Cardinality(Sending) <= MaxSends + Cardinality(Users)
  /\ main = "off" => records = 0

\* Who has the contexts.
PoolOK ==
  /\ queue_ctx_cache_ \in Seq(Context) /\ IsInjective(queue_ctx_cache_)
  /\ contexts \in 0 .. Limit /\ quits \subseteq 1 .. contexts
  /\ \A x \in Range(queue_ctx_cache_) : x <= contexts /\ x \notin quits
  /\ \A c \in InUse : /\ key[c] <= contexts /\ key[c] \notin quits
                      /\ key[c] \notin Range(queue_ctx_cache_)
  /\ \A c, d \in InUse : key[c] = key[d] => c = d
  /\ \A x \in Context : (\A c \in InUse : key[c] # x) => ctx[x] = Blank
  /\ \A c \in Client : told[c] = "nothing" => key[c] = 0
  /\ client_cnt_ = Cardinality(InUse)
  /\ contexts = Len(queue_ctx_cache_) + Cardinality(quits) + client_cnt_
  /\ Cardinality(quits) <= Cardinality(Workers)
  /\ main = "off" => contexts = 0
  /\ main \in {"off", "on"} => quits = {}

\* The end of c is being handled, or its first receive is yet to be issued.
Final(c) ==
  Position("acceptor") = With("issue", c) \/ \E t \in Thread : Position(t) = With("terminate", c)

\* What the threads and the receive of the client c have to do with its count.
TokenOK(c) ==
  /\ c \in InUse =>
       /\ ctx[key[c]].recv_ref_cnt = receiving[c] - Cardinality(Counting(c))
       /\ ctx[key[c]].socket \in {c, INVALID_SOCKET}
  /\ Cardinality(Handling(c)) + receiving[c] <= 1
  /\ c \notin InUse => receiving[c] = 0 /\ Counting(c) = {} /\ Handling(c) = {}
  /\ Final(c) => Counting(c) = {}
  /\ receiving[c] = 0 => Counting(c) # Thread

\* The workers that are counted in cur_quit_cnt_.
Quit == {w \in Workers : worker[w].at \in {"counted", "none"}}

\* How the server comes to its end.
StopOK ==
  /\ main = "off" => acceptor = None
  /\ main = "off" => \A w \in Workers : worker[w] = None
  /\ main = "off" => cur_quit_cnt_ = 0
  /\ main # "off" => cur_quit_cnt_ = Cardinality(Quit)
  /\ main # "off" /\ ~is_server_running_ => Quit = Workers
  /\ main \in {"wait", "returned"} => acceptor = None
  /\ main = "returned" => Quit = Workers

IInv ==
  /\ Types /\ RecordsOK /\ PoolOK /\ StopOK
  /\ \A c \in Client : TokenOK(c)

-----------------------------------------------------------------------------
(* Numbers and finite sets.                                                 *)

LEMMA Sizes ==
  /\ Cardinality(Workers) \in Nat \ {0} /\ Cardinality(Users) \in Nat
  /\ max_event_ \in Nat \ {0} /\ MaxClients \in Nat /\ MaxSends \in Nat
  /\ Limit \in Nat \ {0} /\ Context = 1 .. Limit /\ 0 \notin Context /\ 0 \notin Client
  /\ IsFiniteSet(Client) /\ Cardinality(Client) = MaxClients /\ IsFiniteSet(Context)
  /\ IsFiniteSet(Thread) /\ Cardinality(Thread) = Cardinality(Workers) + 1
<1>1. Cardinality(Workers) \in Nat /\ Cardinality(Workers) # 0 /\ Cardinality(Users) \in Nat
  BY WinServerAssumption, FS_CardinalityType, FS_EmptySet
<1>2. max_event_ \in Nat \ {0} /\ MaxClients \in Nat /\ MaxSends \in Nat
  BY WinServerAssumption
<1>3. Limit \in Nat \ {0} /\ Context = 1 .. Limit /\ 0 \notin Context /\ 0 \notin Client
  BY <1>1, <1>2 DEF Limit, Context, Client
<1>4. IsFiniteSet(Client) /\ Cardinality(Client) = MaxClients
  BY <1>2, FS_Interval DEF Client
<1>5. IsFiniteSet(Context)  BY <1>3, FS_Interval
<1>6. IsFiniteSet(Thread) /\ Cardinality(Thread) = Cardinality(Workers) + 1
  BY WinServerAssumption, FS_AddElement DEF Thread
<1> QED  BY <1>1, <1>2, <1>3, <1>4, <1>5, <1>6

\* A batch of contexts is enough for those that are missing, and hardly more.
LEMMA Batch ==
  ASSUME NEW missing \in Nat \ {0}
  PROVE  LET new == max_event_ * ((missing - 1) \div max_event_ + 1)
         IN  new \in Nat /\ missing <= new /\ new <= missing + max_event_ - 1
<1> DEFINE e == max_event_
           q == (missing - 1) \div e
           r == (missing - 1) % e
<1>1. e \in Nat /\ e > 0 /\ missing - 1 \in Nat  BY WinServerAssumption
<1> HIDE DEF e
<1>2. q \in Nat /\ r \in 0 .. e - 1 /\ missing - 1 = e * q + r  BY <1>1
<1> HIDE DEF q, r
<1>3. e * (q + 1) = e * q + e /\ e * q \in Nat  BY <1>1, <1>2
<1>4. e * (q + 1) \in Nat /\ missing <= e * (q + 1) /\ e * (q + 1) <= missing + e - 1
  BY <1>1, <1>2, <1>3
<1> QED  BY <1>4 DEF e, q

LEMMA SetAdd ==
  ASSUME NEW S, IsFiniteSet(S), NEW x, x \notin S
  PROVE  /\ IsFiniteSet(S \cup {x}) /\ Cardinality(S \cup {x}) = Cardinality(S) + 1
         /\ Cardinality(S) \in Nat
  BY FS_AddElement, FS_CardinalityType

LEMMA SetRemove ==
  ASSUME NEW S, IsFiniteSet(S), NEW x \in S
  PROVE  /\ IsFiniteSet(S \ {x}) /\ Cardinality(S \ {x}) = Cardinality(S) - 1
         /\ Cardinality(S) \in Nat
  BY FS_RemoveElement, FS_CardinalityType

LEMMA SetEmpty == Cardinality({}) = 0 /\ \A S : IsFiniteSet(S) /\ Cardinality(S) = 0 => S = {}
  BY FS_EmptySet

LEMMA SetPart ==
  ASSUME NEW S, IsFiniteSet(S), NEW T, T \subseteq S
  PROVE  /\ IsFiniteSet(T) /\ Cardinality(T) \in Nat /\ Cardinality(T) <= Cardinality(S)
         /\ Cardinality(T) = Cardinality(S) => T = S
<1>1. T \in SUBSET S  OBVIOUS
<1> QED  BY <1>1, FS_Subset, FS_CardinalityType

LEMMA FiniteSets1 ==
  /\ \A c \in Client : /\ IsFiniteSet(Counting(c)) /\ Cardinality(Counting(c)) \in Nat
                       /\ IsFiniteSet(Handling(c)) /\ Cardinality(Handling(c)) \in Nat
                       /\ Cardinality(Counting(c)) <= Cardinality(Thread)
  /\ IsFiniteSet(InUse) /\ Cardinality(InUse) \in Nat /\ Cardinality(InUse) <= MaxClients
  /\ IsFiniteSet(Quit) /\ Cardinality(Quit) \in Nat /\ Cardinality(Quit) <= Cardinality(Workers)
  /\ Cardinality(Quit) = Cardinality(Workers) => Quit = Workers
  /\ IsFiniteSet(Sending) /\ Cardinality(Sending) \in Nat
  /\ Cardinality(Sending) <= Cardinality(Users)
<1>1. \A c \in Client : Counting(c) \subseteq Thread /\ Handling(c) \subseteq Thread
  BY DEF Counting, Handling
<1>2. InUse \subseteq Client /\ Quit \subseteq Workers /\ Sending \subseteq Users
  BY DEF InUse, Quit, Sending
<1> QED  BY <1>1, <1>2, Sizes, SetPart, WinServerAssumption

LEMMA FiniteSets1Next ==
  /\ IsFiniteSet(InUse') /\ Cardinality(InUse') \in Nat /\ Cardinality(InUse') <= MaxClients
  /\ IsFiniteSet(Quit') /\ Cardinality(Quit') \in Nat
  /\ Cardinality(Quit') <= Cardinality(Workers)
  /\ Cardinality(Quit') = Cardinality(Workers) => Quit' = Workers
<1>1. InUse' \subseteq Client /\ Quit' \subseteq Workers
  BY DEF InUse, Quit
<1> QED  BY <1>1, Sizes, SetPart, WinServerAssumption

-----------------------------------------------------------------------------
(* The cache of contexts.                                                   *)

LEMMA UptoSeq ==
  ASSUME NEW n \in Nat, NEW m \in Nat
  PROVE  /\ Upto(n, m) \in Seq(Nat) /\ Len(Upto(n, m)) = m
         /\ \A i \in 1 .. m : Upto(n, m)[i] = n + i
<1>1. Upto(n, m) \in [1 .. m -> Nat]  BY DEF Upto
<1> QED  BY <1>1 DEF Upto

\* What is taken and what stays are different contexts, from the cache or new.
LEMMA Pop ==
  ASSUME PoolOK, NEW taken \in Seq(Context), Len(taken) # 0,
         PopClientContextFromCache(taken)
  PROVE  /\ queue_ctx_cache_' \in Seq(Nat) /\ IsInjective(queue_ctx_cache_')
         /\ IsInjective(taken)
         /\ Range(taken) \cap Range(queue_ctx_cache_') = {}
         /\ \A x \in Range(taken) \cup Range(queue_ctx_cache_') :
              x \in Nat /\ (x \in Range(queue_ctx_cache_) \/ (contexts < x /\ x <= contexts'))
         /\ contexts' \in Nat /\ contexts <= contexts'
         /\ contexts' - contexts = Len(queue_ctx_cache_') + Len(taken) - Len(queue_ctx_cache_)
         /\ \/ contexts' = contexts
            \/ contexts' <= contexts + Len(taken) - Len(queue_ctx_cache_) + max_event_ - 1
<1> DEFINE n       == Len(taken)
           len     == Len(queue_ctx_cache_)
           missing == n - len
           new     == IF missing > 0 THEN max_event_ * ((missing - 1) \div max_event_ + 1) ELSE 0
           queue   == queue_ctx_cache_ \o Upto(contexts, new)
<1>1. /\ taken = SubSeq(queue, 1, n)
      /\ queue_ctx_cache_' = SubSeq(queue, n + 1, Len(queue))
      /\ contexts' = contexts + new
  BY DEF PopClientContextFromCache
<1>2. queue_ctx_cache_ \in Seq(Context) /\ queue_ctx_cache_ \in Seq(Nat)
      /\ contexts \in Nat /\ contexts <= Limit /\ Context \subseteq Nat
      /\ Limit \in Nat
  <2>1. Context \subseteq Nat /\ Limit \in Nat  BY Sizes
  <2> QED  BY <2>1, Sizes, SeqMonotonic DEF PoolOK
<1>3. n \in Nat /\ len \in Nat /\ missing \in Int  BY <1>2, LenProperties
<1>4. new \in Nat /\ missing <= new /\ (missing > 0 => new <= missing + max_event_ - 1)
      /\ (missing <= 0 => new = 0)
  <2>1. CASE missing > 0
    <3>1. missing \in Nat \ {0}  BY <1>3, <2>1
    <3> QED  BY <2>1, <3>1, Batch
  <2>2. CASE ~(missing > 0)  BY <1>3, <2>2
  <2> QED  BY <2>1, <2>2
<1> HIDE DEF new
<1>5. /\ Upto(contexts, new) \in Seq(Nat) /\ Len(Upto(contexts, new)) = new
      /\ \A i \in 1 .. new : Upto(contexts, new)[i] = contexts + i
  BY <1>2, <1>4, UptoSeq
<1>6. /\ queue \in Seq(Nat) /\ Len(queue) = len + new
      /\ \A i \in 1 .. len + new : queue[i] = IF i <= len THEN queue_ctx_cache_[i]
                                              ELSE Upto(contexts, new)[i - len]
  BY <1>2, <1>5, ConcatProperties
<1> HIDE DEF queue
<1>7. \A i \in 1 .. len + new :
        /\ i <= len => queue[i] = queue_ctx_cache_[i] /\ i \in 1 .. len
        /\ i > len => queue[i] = contexts + (i - len) /\ i - len \in 1 .. new
  <2> SUFFICES ASSUME NEW i \in 1 .. len + new
               PROVE  /\ i <= len => queue[i] = queue_ctx_cache_[i] /\ i \in 1 .. len
                      /\ i > len => queue[i] = contexts + (i - len) /\ i - len \in 1 .. new
    OBVIOUS
  <2>1. CASE i <= len  BY <1>3, <1>6, <2>1
  <2>2. CASE i > len
    <3>1. i - len \in 1 .. new  BY <1>3, <1>4, <2>2
    <3> QED  BY <1>3, <1>5, <1>6, <2>2, <3>1
  <2> QED  BY <1>3, <2>1, <2>2
<1>8. \A i \in 1 .. len : /\ queue_ctx_cache_[i] \in Range(queue_ctx_cache_)
                          /\ queue_ctx_cache_[i] \in Nat /\ queue_ctx_cache_[i] <= contexts
  <2>1. DOMAIN queue_ctx_cache_ = 1 .. len  BY <1>2, LenProperties
  <2>2. \A i \in 1 .. len : queue_ctx_cache_[i] \in Nat  BY <1>2, ElementOfSeq
  <2> QED  BY <2>1, <2>2 DEF PoolOK, Range
<1>9. \A i \in 1 .. len + new :
        /\ queue[i] \in Nat
        /\ queue[i] \in Range(queue_ctx_cache_) \/ (contexts < queue[i] /\ queue[i] <= contexts')
  <2> SUFFICES ASSUME NEW i \in 1 .. len + new
               PROVE  /\ queue[i] \in Nat
                      /\ \/ queue[i] \in Range(queue_ctx_cache_)
                         \/ contexts < queue[i] /\ queue[i] <= contexts'
    OBVIOUS
  <2>1. CASE i <= len  BY <1>7, <1>8, <2>1
  <2>2. CASE i > len
    <3>1. queue[i] = contexts + (i - len) /\ i - len \in 1 .. new  BY <1>7, <2>2
    <3> QED  BY <1>1, <1>2, <1>4, <3>1
  <2> QED  BY <1>3, <2>1, <2>2
<1>10. \A i, j \in 1 .. len + new : queue[i] = queue[j] => i = j
  <2>1. \A i, j \in 1 .. len : queue_ctx_cache_[i] = queue_ctx_cache_[j] => i = j
    <3>1. DOMAIN queue_ctx_cache_ = 1 .. len  BY <1>2, LenProperties
    <3> QED  BY <3>1 DEF PoolOK, IsInjective
  <2> SUFFICES ASSUME NEW i \in 1 .. len + new, NEW j \in 1 .. len + new, queue[i] = queue[j]
               PROVE  i = j
    OBVIOUS
  <2>2. CASE i <= len /\ j <= len  BY <1>7, <2>1, <2>2
  <2>3. CASE i > len /\ j > len  BY <1>2, <1>3, <1>4, <1>7, <2>3
  <2>4. CASE i <= len /\ j > len
    <3>1. queue[i] = queue_ctx_cache_[i] /\ i \in 1 .. len  BY <1>7, <2>4
    <3>2. queue[i] \in Nat /\ queue[i] <= contexts  BY <1>8, <3>1
    <3>3. queue[j] = contexts + (j - len) /\ j - len \in 1 .. new  BY <1>7, <2>4
    <3> QED  BY <1>2, <1>4, <3>2, <3>3
  <2>5. CASE i > len /\ j <= len
    <3>1. queue[j] = queue_ctx_cache_[j] /\ j \in 1 .. len  BY <1>7, <2>5
    <3>2. queue[j] \in Nat /\ queue[j] <= contexts  BY <1>8, <3>1
    <3>3. queue[i] = contexts + (i - len) /\ i - len \in 1 .. new  BY <1>7, <2>5
    <3> QED  BY <1>2, <1>4, <3>2, <3>3
  <2> QED  BY <1>3, <2>2, <2>3, <2>4, <2>5
<1> DEFINE m == len + new
<1>11. m \in Nat /\ n <= m /\ n \in Nat \ {0}  BY <1>3, <1>4
<1>12. Len(queue) = m  BY <1>6
<1> HIDE DEF m, n, missing, len
<1>13. DOMAIN taken = 1 .. n /\ \A i \in 1 .. n : taken[i] = queue[i] /\ i \in 1 .. m
  <2>1. \A i \in 1 .. n : i \in 1 .. m /\ queue[i] \in Nat  BY <1>9, <1>11 DEF m
  <2>2. \A i \in 1 .. n - 1 + 1 : SubSeq(queue, 1, n)[i] = queue[1 + i - 1]
    BY <1>11, <2>1, SubSeqProperties
  <2>3. DOMAIN taken = 1 .. n  BY LenProperties DEF n
  <2> QED  BY <1>1, <1>11, <2>1, <2>2, <2>3
<1>14. /\ queue_ctx_cache_' \in Seq(Nat) /\ Len(queue_ctx_cache_') = m - n
       /\ DOMAIN queue_ctx_cache_' = 1 .. m - n
       /\ \A i \in 1 .. m - n : queue_ctx_cache_'[i] = queue[n + i] /\ n + i \in 1 .. m
  <2>1. \A i \in n + 1 .. m : i \in 1 .. m /\ queue[i] \in Nat  BY <1>9, <1>11 DEF m
  <2> DEFINE rest == SubSeq(queue, n + 1, m)
  <2>2. n + 1 \in Int /\ m \in Int  BY <1>11
  <2>3. /\ rest \in Seq(Nat) /\ Len(rest) = IF n + 1 <= m THEN m - (n + 1) + 1 ELSE 0
        /\ \A i \in 1 .. m - (n + 1) + 1 : rest[i] = queue[(n + 1) + i - 1]
    BY <2>1, <2>2, SubSeqProperties
  <2>4. Len(rest) = m - n  BY <1>11, <2>3
  <2>5. \A i \in 1 .. m - n : i \in 1 .. m - (n + 1) + 1 /\ (n + 1) + i - 1 = n + i
                              /\ n + i \in 1 .. m
    BY <1>11
  <2>6. queue_ctx_cache_' = rest  BY <1>1, <1>12
  <2> HIDE DEF rest
  <2>7. DOMAIN rest = 1 .. m - n  BY <2>3, <2>4, LenProperties
  <2> QED  BY <2>3, <2>4, <2>5, <2>6, <2>7
<1>15. IsInjective(taken)  BY <1>10, <1>13 DEF IsInjective, m
<1>16. IsInjective(queue_ctx_cache_')
  <2> SUFFICES ASSUME NEW i \in 1 .. m - n, NEW j \in 1 .. m - n,
                      queue_ctx_cache_'[i] = queue_ctx_cache_'[j]
               PROVE  i = j
    BY <1>14 DEF IsInjective
  <2>1. n + i = n + j  BY <1>10, <1>14 DEF m
  <2> QED  BY <1>11, <2>1
<1>17. Range(taken) \cap Range(queue_ctx_cache_') = {}
  <2> SUFFICES ASSUME NEW i \in 1 .. n, NEW j \in 1 .. m - n, taken[i] = queue_ctx_cache_'[j]
               PROVE  FALSE
    BY <1>13, <1>14 DEF Range
  <2>1. i = n + j  BY <1>10, <1>13, <1>14 DEF m
  <2> QED  BY <1>11, <2>1
<1>18. \A x \in Range(taken) \cup Range(queue_ctx_cache_') :
         x \in Nat /\ (x \in Range(queue_ctx_cache_) \/ (contexts < x /\ x <= contexts'))
  BY <1>9, <1>13, <1>14 DEF Range, m
<1>19. contexts' \in Nat /\ contexts <= contexts' /\ contexts' - contexts = m - n + n - len
  BY <1>1, <1>2, <1>3, <1>4, <1>11 DEF m
<1>20. contexts' = contexts \/ contexts' <= contexts + n - len + max_event_ - 1
  <2>1. CASE missing > 0  BY <1>1, <1>2, <1>3, <1>4, <2>1, Sizes DEF missing
  <2>2. CASE ~(missing > 0)  BY <1>1, <1>2, <1>3, <1>4, <2>2
  <2> QED  BY <2>1, <2>2
<1> QED  BY <1>14, <1>15, <1>16, <1>17, <1>18, <1>19, <1>20 DEF n, len

-----------------------------------------------------------------------------
(* What a step leaves alone.                                                *)

LEMMA RecordsFrame ==
  ASSUME RecordsOK, UNCHANGED <<perIo, sending, sender>>, main' = "off" => main = "off"
  PROVE  RecordsOK'
<1>1. Sending' = Sending  BY DEF Sending
<1> QED  BY <1>1 DEF RecordsOK, perIo

LEMMA StopFrame ==
  ASSUME StopOK, UNCHANGED <<main, cur_quit_cnt_, is_server_running_>>, Quit' = Quit,
         acceptor = None => acceptor' = None, main = "off" => worker' = worker
  PROVE  StopOK'
  BY DEF StopOK

\* A context that nobody has stays blank.
LEMMA PoolFrame ==
  ASSUME PoolOK, UNCHANGED <<queue_ctx_cache_, contexts, quits, key, client_cnt_>>,
         \A x \in Context : (\A c \in InUse : key[c] # x) /\ ctx[x] = Blank => ctx'[x] = Blank,
         \A c \in Client : told'[c] = "nothing" => told[c] = "nothing",
         main' = "off" => main = "off", main' = "on" => main \in {"off", "on"}
  PROVE  PoolOK'
<1>1. InUse' = InUse  BY DEF InUse
<1> QED  BY <1>1 DEF PoolOK

\* Where a thread is that has to do with no client.
Elsewhere == {"none", "new", "get", "accept", "exit", "counted"}

\* The places of the threads.
LEMMA Withs ==
  ASSUME NEW a, NEW b, NEW c, NEW d
  PROVE  /\ With(a, c) = With(b, d) => a = b /\ c = d
         /\ With(a, c).at = a /\ With(a, c).client = c
  BY DEF With

LEMMA Places ==
  /\ Get.at = "get" /\ None.at = "none" /\ Accepting.at = "accept"
  /\ {Get.at, None.at, Accepting.at} \subseteq Elsewhere
  /\ Elsewhere \cap {"issue", "count", "terminate"} = {}
  /\ \A p \in AcceptorAt \cup WorkerAt :
       p.at \in {"issue", "count", "terminate"} => p.client \in Client /\ p = With(p.at, p.client)
  BY DEF Get, None, Accepting, Elsewhere, AcceptorAt, WorkerAt, With

LEMMA PositionType ==
  ASSUME Types
  PROVE  \A t \in Thread : Position(t) \in AcceptorAt \cup WorkerAt
  BY DEF Types, Position, Thread

\* The thread t goes to q, the others stay.
Moves(t, q) == \A u \in Thread : Position(u)' = IF u = t THEN q ELSE Position(u)

LEMMA WorkerMoves ==
  ASSUME Types, NEW w \in Workers, NEW q, Goes(w, q), UNCHANGED acceptor
  PROVE  Moves(w, q) /\ w \in Thread /\ Position(w) = worker[w] /\ w # "acceptor"
<1>1. w # "acceptor" /\ w \in Thread  BY WinServerAssumption DEF Thread
<1>2. \A u \in Workers : u # "acceptor"  BY WinServerAssumption
<1> QED  BY <1>1, <1>2 DEF Types, Goes, Moves, Position, Thread

LEMMA AcceptorMoves ==
  ASSUME Types, NEW q, acceptor' = q, UNCHANGED worker
  PROVE  Moves("acceptor", q) /\ "acceptor" \in Thread /\ Position("acceptor") = acceptor
  BY WinServerAssumption DEF Moves, Position, Thread

\* t is with the client d, or with none.
About(p, d) == p.at \in Elsewhere \/ \E a : p = With(a, d)

LEMMA OthersStay ==
  ASSUME NEW t \in Thread, NEW q, NEW d \in Client, Moves(t, q),
         About(Position(t), d), About(q, d),
         NEW c \in Client, c # d
  PROVE  Counting(c)' = Counting(c) /\ Handling(c)' = Handling(c) /\ Final(c)' = Final(c)
<1>1. \A a \in {"count", "issue", "terminate"} : With(a, c) # Position(t) /\ With(a, c) # q
  BY Withs, Places DEF About
<1>2. \A u \in Thread, a \in {"count", "issue", "terminate"} :
        Position(u)' = With(a, c) <=> Position(u) = With(a, c)
  BY <1>1 DEF Moves
<1>3. Counting(c)' = Counting(c)  BY <1>2 DEF Counting
<1>4. Handling(c)' = Handling(c)  BY <1>2 DEF Handling
<1>5. "acceptor" \in Thread  BY DEF Thread
<1>6. Final(c)' = Final(c)  BY <1>2, <1>5 DEF Final
<1> QED  BY <1>3, <1>4, <1>6

\* Only the client d has a thread or a receive more or less, or its context
\* changed.
LEMMA TokenStep ==
  ASSUME PoolOK, \A c \in Client : TokenOK(c),
         NEW t \in Thread, NEW q, NEW d \in Client, Moves(t, q),
         About(Position(t), d), About(q, d),
         \A c \in Client : c # d => key'[c] = key[c] /\ receiving'[c] = receiving[c],
         \A c \in InUse : c # d => ctx'[key[c]] = ctx[key[c]],
         TokenOK(d)'
  PROVE  (\A c \in Client : TokenOK(c))'
<1> SUFFICES ASSUME NEW c \in Client, c # d
             PROVE  TokenOK(c)'
  BY DEF Client
<1>1. Counting(c)' = Counting(c) /\ Handling(c)' = Handling(c) /\ Final(c)' = Final(c)
  BY OthersStay
<1>2. key'[c] = key[c] /\ receiving'[c] = receiving[c]  OBVIOUS
<1>3. c \in InUse => ctx'[key[c]] = ctx[key[c]]  OBVIOUS
<1>4. c \in InUse' <=> c \in InUse  BY <1>2 DEF InUse
<1>5. TokenOK(c)  OBVIOUS
<1> QED  BY <1>1, <1>2, <1>3, <1>4, <1>5 DEF TokenOK

\* Nothing that has to do with clients moves.
LEMMA TokenFrame ==
  ASSUME \A c \in Client : TokenOK(c),
         \A t \in Thread : \/ Position(t)' = Position(t)
                           \/ /\ Position(t).at \in Elsewhere
                              /\ Position(t)'.at \in Elsewhere,
         UNCHANGED <<key, receiving>>,
         \A c \in InUse : /\ ctx'[key[c]].recv_ref_cnt = ctx[key[c]].recv_ref_cnt
                          /\ ctx'[key[c]].socket \in {ctx[key[c]].socket, INVALID_SOCKET}
  PROVE  (\A c \in Client : TokenOK(c))'
<1> SUFFICES ASSUME NEW c \in Client
             PROVE  TokenOK(c)'
  BY DEF Client
<1>1. \A a \in {"count", "issue", "terminate"}, u \in Thread :
        Position(u)' = With(a, c) <=> Position(u) = With(a, c)
  BY Withs, Places
<1>2. Counting(c)' = Counting(c)  BY <1>1 DEF Counting
<1>3. Handling(c)' = Handling(c)  BY <1>1 DEF Handling
<1>4. Final(c)' = Final(c)
  <2>1. "acceptor" \in Thread  BY DEF Thread
  <2> QED  BY <1>1, <2>1 DEF Final
<1>5. InUse' = InUse  BY DEF InUse
<1> QED  BY <1>2, <1>3, <1>4, <1>5 DEF TokenOK

-----------------------------------------------------------------------------
(* Receives: every step keeps what is outstanding and what is counted equal. *)

LEMMA MovedSets ==
  ASSUME NEW t \in Thread, NEW q, Moves(t, q), NEW c \in Client
  PROVE  /\ q = With("count", c) => Counting(c)' = Counting(c) \cup {t}
         /\ q # With("count", c) => Counting(c)' = Counting(c) \ {t}
         /\ q \in {With("issue", c), With("terminate", c)} => Handling(c)' = Handling(c) \cup {t}
         /\ q \notin {With("issue", c), With("terminate", c)} => Handling(c)' = Handling(c) \ {t}
         /\ t \in Counting(c) <=> Position(t) = With("count", c)
         /\ t \in Handling(c) <=> Position(t) \in {With("issue", c), With("terminate", c)}
  BY DEF Moves, Counting, Handling

\* Final asks for a thread that handles the client.
LEMMA FinalHandled ==
  ASSUME NEW c \in Client
  PROVE  /\ Final(c) => Handling(c) # {}
         /\ Final(c)' => Handling(c)' # {}
  BY DEF Final, Handling, Thread

\* A thread that handles a client is the only one, and nothing is outstanding.
LEMMA Handles ==
  ASSUME Types, NEW c \in Client, TokenOK(c), NEW t \in Handling(c)
  PROVE  /\ c \in InUse /\ receiving[c] = 0 /\ Handling(c) = {t}
         /\ t \notin Counting(c)
         /\ ctx[key[c]].recv_ref_cnt = 0 - Cardinality(Counting(c))
         /\ ctx[key[c]].recv_ref_cnt = 0 => Counting(c) = {}
<1>1. c \in InUse /\ Cardinality(Handling(c)) + receiving[c] <= 1
      /\ ctx[key[c]].recv_ref_cnt = receiving[c] - Cardinality(Counting(c))
  BY DEF TokenOK
<1>2. IsFiniteSet(Handling(c) \ {t}) /\ Cardinality(Handling(c) \ {t}) = Cardinality(Handling(c)) - 1
      /\ Cardinality(Handling(c) \ {t}) \in Nat /\ Cardinality(Handling(c)) \in Nat
  BY FiniteSets1, SetRemove, SetPart
<1>3. receiving[c] \in Nat  BY DEF Types
<1>4. receiving[c] = 0 /\ Cardinality(Handling(c) \ {t}) = 0  BY <1>1, <1>2, <1>3
<1>5. Handling(c) \ {t} = {}  BY <1>2, <1>4, SetEmpty
<1>6. t \notin Counting(c)  BY Withs DEF Handling, Counting
<1>7. ctx[key[c]].recv_ref_cnt = 0 - Cardinality(Counting(c))  BY <1>1, <1>4
<1>8. ASSUME ctx[key[c]].recv_ref_cnt = 0
      PROVE  Counting(c) = {}
  <2>1. Cardinality(Counting(c)) \in Nat /\ IsFiniteSet(Counting(c))  BY FiniteSets1
  <2>2. Cardinality(Counting(c)) = 0  BY <1>7, <1>8, <2>1
  <2> QED  BY <2>1, <2>2, SetEmpty
<1> QED  BY <1>1, <1>4, <1>5, <1>6, <1>7, <1>8

LEMMA TokenIssue ==
  ASSUME Types, PoolOK, \A c \in Client : TokenOK(c),
         NEW t \in Thread, NEW d \in Client,
         Position(t) = With("issue", d), Moves(t, With("count", d)),
         receiving' = [receiving EXCEPT ![d] = @ + 1], UNCHANGED <<key, ctx>>
  PROVE  (\A c \in Client : TokenOK(c))'
<1>1. t \in Handling(d)  BY DEF Handling
<1>2. /\ d \in InUse /\ receiving[d] = 0 /\ Handling(d) = {t} /\ t \notin Counting(d)
      /\ ctx[key[d]].recv_ref_cnt = 0 - Cardinality(Counting(d))
  BY <1>1, Handles
<1>3. Counting(d)' = Counting(d) \cup {t} /\ Handling(d)' = {}
  BY <1>2, MovedSets, Withs
<1>4. Cardinality(Counting(d)') = Cardinality(Counting(d)) + 1 /\ Cardinality(Counting(d)) \in Nat
  BY <1>2, <1>3, FiniteSets1, SetAdd
<1>5. receiving'[d] = 1  BY <1>2 DEF Types
<1>6. TokenOK(d)'
  <2>1. d \in InUse'  BY <1>2 DEF InUse
  <2>2. ctx'[key'[d]].recv_ref_cnt = receiving'[d] - Cardinality(Counting(d)')
    BY <1>2, <1>4, <1>5
  <2>3. ctx'[key'[d]].socket \in {d, INVALID_SOCKET}  BY <1>2 DEF TokenOK
  <2>4. Cardinality(Handling(d)') + receiving'[d] <= 1  BY <1>3, <1>5, SetEmpty
  <2>5. ~Final(d)'  BY <1>3, FinalHandled
  <2> QED  BY <1>5, <2>1, <2>2, <2>3, <2>4, <2>5 DEF TokenOK
<1>7. About(Position(t), d) /\ About(With("count", d), d)  BY DEF About
<1> QED  BY <1>6, <1>7, TokenStep DEF Types

LEMMA TokenCount ==
  ASSUME Types, PoolOK, \A c \in Client : TokenOK(c),
         NEW t \in Thread, NEW d \in Client,
         Position(t) = With("count", d), NEW q, q.at \in Elsewhere, Moves(t, q),
         CountRecv(d), UNCHANGED <<key, receiving>>
  PROVE  (\A c \in Client : TokenOK(c))'
<1>1. t \in Counting(d)  BY DEF Counting
<1>2. d \in InUse /\ ~Final(d) /\ key[d] \in Context
  BY <1>1 DEF TokenOK, InUse, Types
<1>3. Counting(d)' = Counting(d) \ {t} /\ Handling(d)' = Handling(d)
  <2>1. q # With("count", d) /\ q \notin {With("issue", d), With("terminate", d)}
    BY Withs, Places
  <2>2. Counting(d)' = Counting(d) \ {t} /\ Handling(d)' = Handling(d) \ {t}
    BY <2>1, MovedSets
  <2>3. t \notin Handling(d)  BY Withs DEF Handling
  <2> QED  BY <2>2, <2>3
<1>4. Cardinality(Counting(d)') = Cardinality(Counting(d)) - 1 /\ Cardinality(Counting(d)) \in Nat
  BY <1>1, <1>3, FiniteSets1, SetRemove
<1>5. /\ ctx'[key[d]].recv_ref_cnt = ctx[key[d]].recv_ref_cnt + 1
      /\ ctx'[key[d]].socket = ctx[key[d]].socket
      /\ \A x \in Context : x # key[d] => ctx'[x] = ctx[x]
  BY <1>2 DEF Types, CountRecv
<1>6. TokenOK(d)'
  <2>1. d \in InUse'  BY <1>2 DEF InUse
  <2>2. ctx[key[d]].recv_ref_cnt = receiving[d] - Cardinality(Counting(d)) /\ receiving[d] \in Nat
    BY <1>2 DEF TokenOK, Types
  <2>3. ctx'[key'[d]].recv_ref_cnt = receiving'[d] - Cardinality(Counting(d)')
    BY <1>4, <1>5, <2>2
  <2>4. ctx'[key'[d]].socket \in {d, INVALID_SOCKET}  BY <1>2, <1>5 DEF TokenOK
  <2>5. Cardinality(Handling(d)') + receiving'[d] <= 1  BY <1>3 DEF TokenOK
  <2>6. ~Final(d)'
    <3>1. "acceptor" \in Thread  BY DEF Thread
    <3> QED  BY <1>2, <3>1, Withs, Places DEF Final, Moves
  <2>7. Counting(d)' # Thread  BY <1>3
  <2> QED  BY <2>1, <2>3, <2>4, <2>5, <2>6, <2>7 DEF TokenOK
<1>7. About(Position(t), d) /\ About(q, d)  BY Places DEF About
<1>8. \A c \in InUse : c # d => ctx'[key[c]] = ctx[key[c]]
  BY <1>2, <1>5 DEF PoolOK, InUse, Types
<1> QED  BY <1>6, <1>7, <1>8, TokenStep

\* The receive of d is taken: the thread goes on with d, or leaves it.
LEMMA TokenTake ==
  ASSUME Types, PoolOK, \A c \in Client : TokenOK(c),
         NEW t \in Thread, t # "acceptor", NEW d \in Client,
         Position(t) = Get, receiving[d] > 0,
         receiving' = [receiving EXCEPT ![d] = @ - 1], UNCHANGED key,
         ctx' = [ctx EXCEPT ![key[d]].recv_ref_cnt = @ - 1],
         NEW q \in {Get, With("issue", d), With("terminate", d)}, Moves(t, q),
         q = With("terminate", d) => ctx[key[d]].recv_ref_cnt = 1
  PROVE  (\A c \in Client : TokenOK(c))'
<1>1. /\ d \in InUse /\ key[d] \in Context
      /\ receiving[d] = 1 /\ Handling(d) = {}
      /\ ctx[key[d]].recv_ref_cnt = 1 - Cardinality(Counting(d))
  <2>1. receiving[d] \in Nat  BY DEF Types
  <2>2. Cardinality(Handling(d)) \in Nat /\ IsFiniteSet(Handling(d))  BY FiniteSets1
  <2>3. Cardinality(Handling(d)) + receiving[d] <= 1  BY DEF TokenOK
  <2>4. receiving[d] = 1 /\ Cardinality(Handling(d)) = 0  BY <2>1, <2>2, <2>3
  <2>5. Handling(d) = {}  BY <2>2, <2>4, SetEmpty
  <2>6. d \in InUse  BY <2>4 DEF TokenOK
  <2> QED  BY <2>4, <2>5, <2>6 DEF TokenOK, InUse, Types
<1>2. Counting(d)' = Counting(d) /\ t \notin Counting(d) /\ Cardinality(Counting(d)) \in Nat
      /\ IsFiniteSet(Counting(d))
  <2>1. t \notin Counting(d) /\ q # With("count", d)  BY Withs, Places DEF Counting
  <2>2. Counting(d)' = Counting(d) \ {t}  BY <2>1, MovedSets
  <2> QED  BY <2>1, <2>2, FiniteSets1
<1>3. Handling(d)' \subseteq {t}  BY <1>1, MovedSets
<1>4. /\ ctx'[key[d]].recv_ref_cnt = ctx[key[d]].recv_ref_cnt - 1
      /\ ctx'[key[d]].socket = ctx[key[d]].socket
      /\ \A x \in Context : x # key[d] => ctx'[x] = ctx[x]
  BY <1>1 DEF Types
<1>5. receiving'[d] = 0  BY <1>1 DEF Types
<1>6. TokenOK(d)'
  <2>1. d \in InUse'  BY <1>1 DEF InUse
  <2>2. ctx'[key'[d]].recv_ref_cnt = receiving'[d] - Cardinality(Counting(d)')
    BY <1>1, <1>2, <1>4, <1>5
  <2>3. ctx'[key'[d]].socket \in {d, INVALID_SOCKET}  BY <1>1, <1>4 DEF TokenOK
  <2>4. Cardinality(Handling(d)') + receiving'[d] <= 1
    <3>1. Cardinality({t}) = 1 /\ IsFiniteSet({t})  BY FS_Singleton
    <3>2. Cardinality(Handling(d)') \in Nat /\ Cardinality(Handling(d)') <= 1
      BY <1>3, <3>1, SetPart
    <3> QED  BY <1>5, <3>2
  <2>5. Final(d)' => Counting(d)' = {}
    <3>1. CASE q = With("terminate", d)
      <4>1. Cardinality(Counting(d)) = 0  BY <1>1, <1>2, <3>1
      <4> QED  BY <1>2, <4>1, SetEmpty
    <3>2. CASE q # With("terminate", d)
      <4>1. ~Final(d)  BY <1>1, FinalHandled
      <4>2. "acceptor" \in Thread  BY DEF Thread
      <4> QED  BY <3>2, <4>1, <4>2 DEF Final, Moves
    <3> QED  BY <3>1, <3>2
  <2>6. Counting(d)' # Thread  BY <1>2
  <2> QED  BY <2>1, <2>2, <2>3, <2>4, <2>5, <2>6 DEF TokenOK
<1>7. About(Position(t), d) /\ About(q, d)  BY Places DEF About
<1>8. \A c \in InUse : c # d => ctx'[key[c]] = ctx[key[c]]
  BY <1>1, <1>4 DEF PoolOK, InUse, Types
<1>9. \A c \in Client : c # d => key'[c] = key[c] /\ receiving'[c] = receiving[c]
  BY DEF Types
<1> QED  BY <1>6, <1>7, <1>8, <1>9, TokenStep

\* d has lost its context, and the thread that handled it is done.
LEMMA TokenFree ==
  ASSUME Types, PoolOK, \A c \in Client : TokenOK(c),
         NEW t \in Thread, NEW d \in Client, t \in Handling(d), Counting(d) = {},
         NEW q, q.at \in Elsewhere, Moves(t, q), Free(d), UNCHANGED receiving
  PROVE  (\A c \in Client : TokenOK(c))'
<1>1. d \in InUse /\ receiving[d] = 0 /\ Handling(d) = {t} /\ key[d] \in Context
  BY Handles DEF InUse, Types
<1>2. Counting(d)' = {} /\ Handling(d)' = {}
  <2>1. q # With("count", d) /\ q \notin {With("issue", d), With("terminate", d)}
    BY Withs, Places
  <2> QED  BY <1>1, <2>1, MovedSets
<1>3. key'[d] = 0 /\ d \notin InUse'  BY DEF Free, Types, InUse
<1>4. TokenOK(d)'
  <2>1. Thread # {}  BY DEF Thread
  <2>2. Cardinality(Handling(d)') + receiving'[d] <= 1  BY <1>1, <1>2, SetEmpty
  <2> QED  BY <1>1, <1>2, <1>3, <2>1, <2>2 DEF TokenOK
<1>5. About(Position(t), d) /\ About(q, d)  BY Places DEF About, Handling
<1>6. \A c \in InUse : c # d => ctx'[key[c]] = ctx[key[c]]
  BY <1>1 DEF Free, PushClientContextToCache, PoolOK, InUse, Types
<1>7. \A c \in Client : c # d => key'[c] = key[c] /\ receiving'[c] = receiving[c]
  BY DEF Free, Types
<1> QED  BY <1>4, <1>5, <1>6, <1>7, TokenStep

\* The next receive of d cannot be issued, and its context stays.
LEMMA TokenKeep ==
  ASSUME Types, PoolOK, \A c \in Client : TokenOK(c),
         NEW t \in Thread, NEW d \in Client, t \in Handling(d),
         Position(t) = With("issue", d), t # "acceptor",
         Moves(t, Get), ctx' = [ctx EXCEPT ![key[d]].socket = INVALID_SOCKET],
         UNCHANGED <<key, receiving>>
  PROVE  (\A c \in Client : TokenOK(c))'
<1>1. /\ d \in InUse /\ receiving[d] = 0 /\ Handling(d) = {t} /\ key[d] \in Context
      /\ t \notin Counting(d)
      /\ ctx[key[d]].recv_ref_cnt = 0 - Cardinality(Counting(d))
  BY Handles DEF InUse, Types
<1>2. Counting(d)' = Counting(d) /\ Handling(d)' = {}
  <2>1. Get # With("count", d) /\ Get \notin {With("issue", d), With("terminate", d)}
    BY Withs, Places
  <2>2. Counting(d)' = Counting(d) \ {t} /\ Handling(d)' = Handling(d) \ {t}
    BY <2>1, MovedSets
  <2> QED  BY <1>1, <2>2
<1>3. /\ ctx'[key[d]].recv_ref_cnt = ctx[key[d]].recv_ref_cnt
      /\ ctx'[key[d]].socket = INVALID_SOCKET
      /\ \A x \in Context : x # key[d] => ctx'[x] = ctx[x]
  BY <1>1 DEF Types
<1>4. TokenOK(d)'
  <2>1. d \in InUse'  BY <1>1 DEF InUse
  <2>2. ctx'[key'[d]].recv_ref_cnt = receiving'[d] - Cardinality(Counting(d)')
    BY <1>1, <1>2, <1>3
  <2>3. Cardinality(Handling(d)') + receiving'[d] <= 1  BY <1>1, <1>2, SetEmpty
  <2>4. ~Final(d)'  BY <1>2, FinalHandled
  <2>5. Counting(d)' # Thread  BY <1>1, <1>2
  <2> QED  BY <1>3, <2>1, <2>2, <2>3, <2>4, <2>5 DEF TokenOK
<1>5. About(Position(t), d) /\ About(Get, d)  BY Places DEF About
<1>6. \A c \in InUse : c # d => ctx'[key[c]] = ctx[key[c]]
  BY <1>1, <1>3 DEF PoolOK, InUse, Types
<1> QED  BY <1>4, <1>5, <1>6, TokenStep

LEMMA TokenAccept ==
  ASSUME Types, PoolOK, \A c \in Client : TokenOK(c),
         NEW d \in Client, NEW x \in Context, key[d] = 0, \A c \in InUse : key[c] # x,
         Position("acceptor") = Accepting, Moves("acceptor", With("issue", d)),
         ctx' = [ctx EXCEPT ![x] = [Blank EXCEPT !.socket = d, !.is_connected = TRUE]],
         key' = [key EXCEPT ![d] = x], UNCHANGED receiving
  PROVE  (\A c \in Client : TokenOK(c))'
<1> DEFINE t == "acceptor"
<1>0. t \in Thread  BY DEF Thread
<1>1. receiving[d] = 0 /\ Counting(d) = {} /\ Handling(d) = {}
  BY DEF TokenOK, InUse
<1>2. Counting(d)' = {} /\ Handling(d)' = {t}
  <2>1. With("issue", d) # With("count", d)  BY Withs
  <2> QED  BY <1>0, <1>1, <2>1, MovedSets
<1>3. ctx'[x].recv_ref_cnt = 0 /\ ctx'[x].socket = d /\ key'[d] = x
      /\ \A y \in Context : y # x => ctx'[y] = ctx[y]
  BY DEF Types, Blank
<1>4. TokenOK(d)'
  <2>1. d \in InUse'  BY <1>3, Sizes DEF InUse
  <2>2. ctx'[key'[d]].recv_ref_cnt = receiving'[d] - Cardinality(Counting(d)')
    BY <1>1, <1>2, <1>3, SetEmpty
  <2>3. Cardinality(Handling(d)') + receiving'[d] <= 1
    <3>1. Cardinality({t}) = 1  BY FS_Singleton
    <3>2. receiving'[d] = 0 /\ Cardinality(Handling(d)') = 1  BY <1>1, <1>2, <3>1
    <3> QED  BY <3>2
  <2>4. Counting(d)' # Thread  BY <1>0, <1>2
  <2> QED  BY <1>2, <1>3, <2>1, <2>2, <2>3, <2>4 DEF TokenOK
<1>5. About(Position(t), d) /\ About(With("issue", d), d)  BY Places DEF About
<1>6. \A c \in InUse : c # d => ctx'[key[c]] = ctx[key[c]]
  BY <1>3 DEF InUse, Types
<1>7. \A c \in Client : c # d => key'[c] = key[c] /\ receiving'[c] = receiving[c]
  BY DEF Types
<1> QED  BY <1>0, <1>4, <1>5, <1>6, <1>7, TokenStep

-----------------------------------------------------------------------------
(* The contexts.                                                            *)

LEMMA QueueAppend ==
  ASSUME NEW q \in Seq(Context), IsInjective(q), NEW x \in Context, x \notin Range(q)
  PROVE  /\ Append(q, x) \in Seq(Context) /\ IsInjective(Append(q, x))
         /\ Range(Append(q, x)) = Range(q) \cup {x}
         /\ Len(Append(q, x)) = Len(q) + 1 /\ Len(q) \in Nat
<1> DEFINE r == Append(q, x)
           n == Len(q)
<1>1. /\ r \in Seq(Context) /\ Len(r) = n + 1 /\ n \in Nat
      /\ \A i \in 1 .. n : r[i] = q[i]
      /\ r[n + 1] = x
  BY AppendProperties
<1>2. DOMAIN r = 1 .. n + 1 /\ DOMAIN q = 1 .. n  BY <1>1, LenProperties
<1> HIDE DEF r, n
<1>3. \A i \in 1 .. n : q[i] # x  BY <1>2 DEF Range
<1>4. \A i \in 1 .. n + 1 : i \in 1 .. n \/ i = n + 1  BY <1>1
<1>5. 1 .. n \subseteq 1 .. n + 1 /\ n + 1 \in 1 .. n + 1  BY <1>1
<1>6. IsInjective(r)
  <2> SUFFICES ASSUME NEW i \in 1 .. n + 1, NEW j \in 1 .. n + 1, r[i] = r[j]
               PROVE  i = j
    BY <1>2 DEF IsInjective
  <2>1. CASE i \in 1 .. n /\ j \in 1 .. n  BY <1>1, <1>2, <2>1 DEF IsInjective
  <2> QED  BY <1>1, <1>3, <1>4, <2>1
<1>7. Range(r) = Range(q) \cup {x}  BY <1>1, <1>2, <1>4, <1>5 DEF Range
<1> QED  BY <1>1, <1>6, <1>7 DEF r, n

\* A context that is nobody's is put into the cache.
LEMMA PoolFree ==
  ASSUME Types, PoolOK, NEW c \in InUse, Free(c), client_cnt_' = client_cnt_ - 1,
         UNCHANGED <<main, quits>>,
         \A d \in Client : told'[d] = "nothing" => told[d] = "nothing"
  PROVE  PoolOK'
<1> DEFINE x == key[c]
<1>1. x \in Context /\ x <= contexts /\ x \notin quits /\ x \notin Range(queue_ctx_cache_)
      /\ c \in Client
  BY DEF InUse, Types, PoolOK
<1>2. /\ queue_ctx_cache_' \in Seq(Context) /\ IsInjective(queue_ctx_cache_')
      /\ Range(queue_ctx_cache_') = Range(queue_ctx_cache_) \cup {x}
      /\ Len(queue_ctx_cache_') = Len(queue_ctx_cache_) + 1 /\ Len(queue_ctx_cache_) \in Nat
  BY <1>1, QueueAppend DEF Free, PushClientContextToCache, PoolOK
<1>3. key' = [key EXCEPT ![c] = 0] /\ ctx' = [ctx EXCEPT ![x] = Blank] /\ contexts' = contexts
  BY DEF Free, PushClientContextToCache
<1>4. InUse' = InUse \ {c}  BY <1>1, <1>3 DEF InUse, Types
<1>5. client_cnt_' = Cardinality(InUse') /\ client_cnt_ \in Nat
  BY <1>4, FiniteSets1, SetRemove DEF PoolOK
<1>6. \A d \in InUse' : d \in InUse /\ key'[d] = key[d] /\ key[d] # x
  BY <1>1, <1>3, <1>4 DEF InUse, Types, PoolOK
<1>7. \A y \in Context : (\A d \in InUse' : key'[d] # y) => ctx'[y] = Blank
  BY <1>1, <1>3, <1>4, <1>6 DEF InUse, Types, PoolOK
<1>8. contexts' = Len(queue_ctx_cache_') + Cardinality(quits') + client_cnt_'
  <2>1. Cardinality(quits) \in Int
    <3>1. quits \subseteq 1 .. contexts /\ contexts \in Nat  BY Sizes DEF PoolOK
    <3>2. IsFiniteSet(1 .. contexts)  BY <3>1, FS_Interval
    <3> QED  BY <3>1, <3>2, SetPart
  <2> QED  BY <1>2, <1>3, <1>5, <2>1 DEF PoolOK
<1>9. \A d \in Client : told'[d] = "nothing" => key'[d] = 0
  BY <1>3 DEF PoolOK, Types
<1> QED  BY <1>1, <1>2, <1>3, <1>5, <1>6, <1>7, <1>8, <1>9 DEF PoolOK

LEMMA QuitsFinite ==
  ASSUME PoolOK
  PROVE  IsFiniteSet(quits) /\ Cardinality(quits) \in Nat /\ quits \subseteq Context
         /\ Len(queue_ctx_cache_) \in Nat /\ contexts \in Nat /\ client_cnt_ \in Nat
         /\ 1 .. contexts \subseteq Context
<1>1. quits \subseteq 1 .. contexts /\ contexts \in Nat /\ 1 .. contexts \subseteq Context
  BY Sizes DEF PoolOK
<1>2. IsFiniteSet(1 .. contexts)  BY <1>1, FS_Interval
<1>3. Len(queue_ctx_cache_) \in Nat  BY LenProperties DEF PoolOK
<1>4. client_cnt_ \in Nat  BY FiniteSets1 DEF PoolOK
<1> QED  BY <1>1, <1>2, <1>3, <1>4, SetPart

\* So is that of an IO_QUIT packet.
LEMMA PoolQuit ==
  ASSUME Types, PoolOK, NEW x \in quits, quits' = quits \ {x}, PushClientContextToCache(x),
         UNCHANGED <<main, client_cnt_, key, told>>
  PROVE  PoolOK'
<1>1. x \in Context /\ x <= contexts /\ x \notin Range(queue_ctx_cache_)
      /\ \A c \in InUse : key[c] # x
  BY QuitsFinite, Sizes DEF PoolOK
<1>2. /\ queue_ctx_cache_' \in Seq(Context) /\ IsInjective(queue_ctx_cache_')
      /\ Range(queue_ctx_cache_') = Range(queue_ctx_cache_) \cup {x}
      /\ Len(queue_ctx_cache_') = Len(queue_ctx_cache_) + 1 /\ Len(queue_ctx_cache_) \in Nat
  BY <1>1, QueueAppend DEF PushClientContextToCache, PoolOK
<1>3. ctx' = [ctx EXCEPT ![x] = Blank] /\ contexts' = contexts
  BY DEF PushClientContextToCache
<1>4. InUse' = InUse  BY DEF InUse
<1>5. Cardinality(quits') = Cardinality(quits) - 1 /\ Cardinality(quits) \in Nat
  BY QuitsFinite, SetRemove
<1>6. contexts' = Len(queue_ctx_cache_') + Cardinality(quits') + client_cnt_'
  BY <1>2, <1>3, <1>5, QuitsFinite DEF PoolOK
<1>7. \A y \in Context : (\A d \in InUse' : key'[d] # y) => ctx'[y] = Blank
  BY <1>1, <1>3, <1>4 DEF Types, PoolOK
<1>8. Cardinality(quits') <= Cardinality(Workers)
  BY <1>5, Sizes DEF PoolOK
<1> QED  BY <1>1, <1>2, <1>3, <1>4, <1>6, <1>7, <1>8 DEF PoolOK

LEMMA RangeOfInjective ==
  ASSUME NEW n \in Nat, NEW S, NEW f \in [1 .. n -> S], IsInjective(f)
  PROVE  IsFiniteSet(Range(f)) /\ Cardinality(Range(f)) = n /\ Range(f) \subseteq S
<1>1. f \in Surjection(1 .. n, Range(f)) /\ Range(f) \subseteq S  BY Fun_RangeProperties
<1>2. f \in [1 .. n -> Range(f)]  BY DEF Range
<1>3. f \in Injection(1 .. n, Range(f))  BY <1>2 DEF Injection
<1>4. IsFiniteSet(1 .. n) /\ Cardinality(1 .. n) = n  BY FS_Interval
<1> QED  BY <1>1, <1>3, <1>4, FS_Surjection

\* Contexts that are popped are nobody's.
LEMMA PopFresh ==
  ASSUME Types, PoolOK, NEW taken \in Seq(Context), Len(taken) # 0,
         PopClientContextFromCache(taken),
         Len(taken) + client_cnt_ + Cardinality(quits) <= MaxClients + Cardinality(Workers)
  PROVE  /\ queue_ctx_cache_' \in Seq(Context) /\ IsInjective(queue_ctx_cache_')
         /\ IsInjective(taken)
         /\ Range(taken) \cap Range(queue_ctx_cache_') = {}
         /\ contexts' \in 0 .. Limit /\ contexts <= contexts'
         /\ contexts' = Len(queue_ctx_cache_') + Len(taken) + Cardinality(quits) + client_cnt_
         /\ \A x \in Range(taken) \cup Range(queue_ctx_cache_') :
              /\ x \in 1 .. contexts' /\ x \notin quits
              /\ \A c \in InUse : key[c] # x
<1> DEFINE all == Range(taken) \cup Range(queue_ctx_cache_')
<1>1. /\ queue_ctx_cache_' \in Seq(Nat) /\ IsInjective(queue_ctx_cache_')
      /\ IsInjective(taken)
      /\ Range(taken) \cap Range(queue_ctx_cache_') = {}
      /\ \A x \in all :
           x \in Nat /\ (x \in Range(queue_ctx_cache_) \/ (contexts < x /\ x <= contexts'))
      /\ contexts' \in Nat /\ contexts <= contexts'
      /\ contexts' - contexts = Len(queue_ctx_cache_') + Len(taken) - Len(queue_ctx_cache_)
      /\ \/ contexts' = contexts
         \/ contexts' <= contexts + Len(taken) - Len(queue_ctx_cache_) + max_event_ - 1
  BY Pop
<1>2. /\ contexts = Len(queue_ctx_cache_) + Cardinality(quits) + client_cnt_
      /\ contexts \in Nat /\ contexts <= Limit /\ Limit \in Nat
      /\ Len(queue_ctx_cache_) \in Nat /\ Cardinality(quits) \in Nat /\ client_cnt_ \in Nat
  BY QuitsFinite, Sizes DEF PoolOK
<1>3. Len(taken) \in Nat /\ Len(queue_ctx_cache_') \in Nat  BY <1>1, LenProperties
<1> DEFINE len == Len(queue_ctx_cache_)
           len2 == Len(queue_ctx_cache_')
           n == Len(taken)
           q == Cardinality(quits)
           built == contexts'
           W == Cardinality(Workers)
<1>a. /\ built \in Nat /\ built - contexts = len2 + n - len
      /\ built = contexts \/ built <= contexts + n - len + max_event_ - 1
      /\ contexts = len + q + client_cnt_ /\ contexts <= Limit
      /\ n + client_cnt_ + q <= MaxClients + W /\ Limit = MaxClients + W + max_event_
  BY <1>1, <1>2 DEF Limit
<1>b. /\ contexts \in Nat /\ len \in Nat /\ len2 \in Nat /\ n \in Nat /\ q \in Nat
      /\ client_cnt_ \in Nat /\ W \in Nat /\ max_event_ \in Nat /\ MaxClients \in Nat
  BY <1>2, <1>3, Sizes
<1> HIDE DEF len, len2, n, q, built, W
<1>4. built <= Limit  BY <1>a, <1>b
<1>5. built = len2 + n + q + client_cnt_  BY <1>a, <1>b
<1> USE DEF len, len2, n, q, built, W
<1>6. \A x \in Range(queue_ctx_cache_) : x \in 1 .. contexts
  <2>1. \A x \in Range(queue_ctx_cache_) : x \in Context
    <3>1. DOMAIN queue_ctx_cache_ = 1 .. Len(queue_ctx_cache_)  BY LenProperties DEF PoolOK
    <3>2. \A i \in 1 .. Len(queue_ctx_cache_) : queue_ctx_cache_[i] \in Context
      BY ElementOfSeq DEF PoolOK
    <3> QED  BY <3>1, <3>2 DEF Range
  <2> QED  BY <1>2, <2>1, Sizes DEF PoolOK
<1>7. ASSUME NEW x \in all
      PROVE  /\ x \in 1 .. contexts' /\ x \notin quits
             /\ \A c \in InUse : key[c] # x
  <2>0. x \in Nat /\ (x \in Range(queue_ctx_cache_) \/ (contexts < x /\ x <= built))
    BY <1>1, <1>7
  <2>1. CASE x \in Range(queue_ctx_cache_)
    <3>1. x \in 1 .. contexts'
      <4>1. x \in 1 .. contexts /\ contexts <= built  BY <1>1, <1>6, <2>1
      <4> HIDE DEF built
      <4>2. x \in 1 .. built  BY <1>a, <1>b, <4>1
      <4> QED  BY <4>2 DEF built
    <3> QED  BY <2>1, <3>1 DEF PoolOK
  <2>2. CASE contexts < x /\ x <= built
    <3>1. x \in 1 .. built /\ x \notin 1 .. contexts
      <4> HIDE DEF built
      <4> QED  BY SMTT(30), <1>a, <1>b, <2>0, <2>2
    <3>2. \A c \in InUse : key[c] <= contexts /\ key[c] \in Nat
      <4>1. \A c \in InUse : key[c] <= contexts  BY DEF PoolOK
      <4>2. key \in [Client -> Context \cup {0}] /\ InUse \subseteq Client  BY DEF Types, InUse
      <4>3. Context \cup {0} \subseteq Nat  BY Sizes
      <4>4. \A c \in InUse : key[c] \in Nat  BY <4>2, <4>3
      <4> QED  BY <4>1, <4>4
    <3>3. \A c \in InUse : key[c] # x
      BY <1>b, <2>0, <2>2, <3>2
    <3> QED  BY <3>1, <3>3 DEF PoolOK
  <2> QED  BY <2>0, <2>1, <2>2
<1>8. queue_ctx_cache_' \in Seq(Context)
  <2>0. 1 .. built \subseteq Context
    <3> HIDE DEF built
    <3> QED  BY <1>4, <1>a, <1>2, Sizes
  <2> DEFINE r == queue_ctx_cache_'
  <2>1. \A x \in Range(r) : x \in Context  BY <1>7, <2>0
  <2>2. DOMAIN r = 1 .. Len(r) /\ r = [i \in 1 .. Len(r) |-> r[i]]  BY <1>1, LenProperties
  <2>3. \A i \in 1 .. Len(r) : r[i] \in Context  BY <2>1, <2>2 DEF Range
  <2> HIDE DEF r
  <2>4. r \in [1 .. Len(r) -> Context]  BY <2>2, <2>3
  <2>5. Len(r) \in Nat  BY <1>3 DEF r
  <2>6. r \in Seq(Context)  BY <2>4, <2>5
  <2> QED  BY <2>6 DEF r
<1> QED  BY <1>1, <1>2, <1>4, <1>5, <1>7, <1>8

LEMMA PoolAccept ==
  ASSUME Types, PoolOK, main # "off", UNCHANGED <<main, quits>>,
         NEW d \in Client, NEW x \in Context, told[d] = "nothing",
         client_cnt_' = client_cnt_ + 1, PopClientContextFromCache(<<x>>),
         ctx' = [ctx EXCEPT ![x] = [Blank EXCEPT !.socket = d, !.is_connected = TRUE]],
         key' = [key EXCEPT ![d] = x], told' = [told EXCEPT ![d] = "connected"]
  PROVE  PoolOK' /\ key[d] = 0 /\ \A c \in InUse : key[c] # x
<1>1. key[d] = 0 /\ d \notin InUse  BY DEF PoolOK, InUse
<1>2. InUse \cup {d} \subseteq Client  BY DEF InUse
<1>3. Cardinality(InUse \cup {d}) = client_cnt_ + 1 /\ client_cnt_ + 1 <= MaxClients
      /\ client_cnt_ \in Nat
  <2>1. IsFiniteSet(InUse) /\ client_cnt_ = Cardinality(InUse)  BY FiniteSets1 DEF PoolOK
  <2>2. Cardinality(InUse \cup {d}) = Cardinality(InUse) + 1 /\ Cardinality(InUse) \in Nat
    BY <1>1, <2>1, SetAdd
  <2>3. Cardinality(InUse \cup {d}) <= MaxClients  BY <1>2, SetPart, Sizes
  <2> QED  BY <2>1, <2>2, <2>3
<1> DEFINE taken == <<x>>
<1>4. taken \in Seq(Context) /\ Len(taken) = 1 /\ Range(taken) = {x}
  BY DEF Range
<1>5. Len(taken) + client_cnt_ + Cardinality(quits) <= MaxClients + Cardinality(Workers)
  <2>1. Cardinality(quits) \in Nat /\ Cardinality(quits) <= Cardinality(Workers)
    BY QuitsFinite DEF PoolOK
  <2> QED  BY <1>3, <1>4, <2>1, Sizes
<1>6. /\ queue_ctx_cache_' \in Seq(Context) /\ IsInjective(queue_ctx_cache_')
      /\ {x} \cap Range(queue_ctx_cache_') = {}
      /\ contexts' \in 0 .. Limit /\ contexts <= contexts'
      /\ contexts' = Len(queue_ctx_cache_') + 1 + Cardinality(quits) + client_cnt_
      /\ \A y \in {x} \cup Range(queue_ctx_cache_') :
           /\ y \in 1 .. contexts' /\ y \notin quits
           /\ \A c \in InUse : key[c] # y
  <2> HIDE DEF taken
  <2>1. Len(taken) # 0  BY <1>4
  <2>2. PopClientContextFromCache(taken)  BY DEF taken
  <2> QED  BY <1>4, <1>5, <2>1, <2>2, PopFresh
<1> HIDE DEF taken
<1>7. InUse' = InUse \cup {d} /\ key'[d] = x /\ \A c \in InUse : key'[c] = key[c] /\ c # d
  BY <1>1, Sizes DEF InUse, Types
<1>8. client_cnt_' = Cardinality(InUse')  BY <1>3, <1>7
<1>9. quits' \subseteq 1 .. contexts'
  <2>1. 1 .. contexts \subseteq 1 .. contexts'
    <3>1. contexts' \in Int /\ contexts \in Int  BY <1>6, QuitsFinite
    <3> QED  BY <1>6, <3>1
  <2> QED  BY <2>1 DEF PoolOK
<1>10. \A c \in InUse' : /\ key'[c] <= contexts' /\ key'[c] \notin quits'
                         /\ key'[c] \notin Range(queue_ctx_cache_')
  <2>1. x <= contexts'  BY <1>6
  <2>2. ASSUME NEW c \in InUse
        PROVE  key[c] <= contexts' /\ key[c] \notin quits
               /\ key[c] \notin Range(queue_ctx_cache_')
    <3>1. key[c] \in Nat /\ key[c] <= contexts /\ key[c] \notin quits
      BY SMTT(30), Sizes DEF PoolOK, InUse, Types
    <3>2. contexts' \in Nat /\ contexts \in Nat  BY <1>6, QuitsFinite
    <3>3. key[c] <= contexts'  BY <1>6, <3>1, <3>2
    <3> QED  BY <1>6, <3>1, <3>3
  <2> QED  BY <1>6, <1>7, <2>1, <2>2
<1>11. \A c, e \in InUse' : key'[c] = key'[e] => c = e
  BY <1>6, <1>7 DEF PoolOK
<1>12. \A y \in Context : (\A c \in InUse' : key'[c] # y) => ctx'[y] = Blank
  BY ZenonT(40), <1>7 DEF PoolOK, Types
<1>13. \A c \in Client : told'[c] = "nothing" => key'[c] = 0
  BY DEF PoolOK, Types
<1>14. contexts' = Len(queue_ctx_cache_') + Cardinality(quits') + client_cnt_'
  <2>1. Cardinality(quits) \in Nat /\ Len(queue_ctx_cache_') \in Nat
    BY <1>6, QuitsFinite, LenProperties
  <2> QED  BY <1>3, <1>6, <2>1
<1>15. PoolOK'
  BY <1>6, <1>8, <1>9, <1>10, <1>11, <1>12, <1>13, <1>14 DEF PoolOK
<1> QED  BY <1>1, <1>6, <1>15

LEMMA PoolStop ==
  ASSUME Types, PoolOK, NEW taken \in [1 .. Cardinality(Workers) -> Context],
         main = "on", main' = "posted", PopClientContextFromCache(taken),
         quits' = Range(taken), UNCHANGED <<client_cnt_, ctx, key, told>>
  PROVE  PoolOK'
<1> DEFINE W == Cardinality(Workers)
<1>1. taken \in Seq(Context) /\ Len(taken) = W /\ W \in Nat \ {0}  BY Sizes
<1>2. quits = {} /\ Cardinality(quits) = 0  BY SetEmpty DEF PoolOK
<1>3. client_cnt_ \in Nat /\ client_cnt_ <= MaxClients  BY FiniteSets1 DEF PoolOK
<1>4. W + client_cnt_ + Cardinality(quits) <= MaxClients + W
  <2> HIDE DEF W
  <2> QED  BY <1>1, <1>2, <1>3, Sizes
<1>5. /\ queue_ctx_cache_' \in Seq(Context) /\ IsInjective(queue_ctx_cache_')
      /\ IsInjective(taken)
      /\ Range(taken) \cap Range(queue_ctx_cache_') = {}
      /\ contexts' \in 0 .. Limit /\ contexts <= contexts'
      /\ contexts' = Len(queue_ctx_cache_') + W + Cardinality(quits) + client_cnt_
      /\ \A y \in Range(taken) \cup Range(queue_ctx_cache_') :
           /\ y \in 1 .. contexts' /\ y \notin quits
           /\ \A c \in InUse : key[c] # y
  BY <1>1, <1>4, PopFresh
<1>6. Cardinality(quits') = W  BY <1>1, <1>5, RangeOfInjective
<1>7. InUse' = InUse  BY DEF InUse
<1>8. contexts' = Len(queue_ctx_cache_') + Cardinality(quits') + client_cnt_'
  <2>1. Len(queue_ctx_cache_') \in Nat  BY <1>5, LenProperties
  <2> QED  BY <1>1, <1>2, <1>3, <1>5, <1>6, <2>1
<1>9. \A c \in InUse : key[c] <= contexts'
  <2>1. \A c \in InUse : key[c] \in Nat /\ key[c] <= contexts
    BY Sizes DEF PoolOK, InUse, Types
  <2>2. contexts' \in Nat /\ contexts \in Nat  BY <1>5, QuitsFinite
  <2> QED  BY <1>5, <2>1, <2>2
<1>10. \A y \in Range(queue_ctx_cache_') : y <= contexts' /\ y \notin quits'
  BY <1>5
<1>11. \A c \in InUse : key[c] \notin quits' /\ key[c] \notin Range(queue_ctx_cache_')
  BY <1>5
<1>12. quits' \subseteq 1 .. contexts'  BY <1>5
<1>13. Cardinality(quits') <= Cardinality(Workers)  BY <1>1, <1>6
<1> QED  BY <1>5, <1>7, <1>8, <1>9, <1>10, <1>11, <1>12, <1>13 DEF PoolOK

LEMMA PoolRun ==
  ASSUME Types, PoolOK, main = "off", main' = "on",
         queue_ctx_cache_' = Upto(0, max_event_), contexts' = max_event_,
         UNCHANGED <<client_cnt_, ctx, key, told, quits>>
  PROVE  PoolOK'
<1> DEFINE q == Upto(0, max_event_)
<1>1. max_event_ \in Nat /\ max_event_ # 0 /\ max_event_ <= Limit /\ Limit \in Nat
  BY Sizes DEF Limit
<1>2. q \in Seq(Nat) /\ Len(q) = max_event_ /\ \A i \in 1 .. max_event_ : q[i] = i
  <2>1. 0 \in Nat  OBVIOUS
  <2>2. q \in Seq(Nat) /\ Len(q) = max_event_ /\ \A i \in 1 .. max_event_ : q[i] = 0 + i
    BY <1>1, <2>1, UptoSeq
  <2> QED  BY <1>1, <2>2
<1> HIDE DEF q
<1>3. DOMAIN q = 1 .. max_event_ /\ q = [i \in 1 .. max_event_ |-> q[i]]
  BY <1>2, LenProperties
<1>4. \A i \in 1 .. max_event_ : q[i] \in Context  BY <1>1, <1>2, Sizes
<1>5. q \in [1 .. max_event_ -> Context]  BY <1>3, <1>4
<1>6. q \in Seq(Context)  BY <1>1, <1>5
<1>7. IsInjective(q) /\ Range(q) = 1 .. max_event_
  BY <1>2, <1>3 DEF IsInjective, Range
<1>8. quits = {} /\ Cardinality(quits) = 0  BY SetEmpty DEF PoolOK
<1>9. contexts = 0 /\ client_cnt_ = 0 /\ InUse = {}
  <2>1. client_cnt_ = 0 /\ contexts = 0  BY SMTT(30), <1>8, QuitsFinite DEF PoolOK
  <2> QED  BY <2>1, FiniteSets1, SetEmpty DEF PoolOK
<1>10. InUse' = {}  BY <1>9 DEF InUse
<1>11. queue_ctx_cache_' = q  BY DEF q
<1>12. contexts' = Len(queue_ctx_cache_') + Cardinality(quits') + client_cnt_'
  BY <1>1, <1>2, <1>8, <1>9, <1>11
<1>13. \A y \in Range(queue_ctx_cache_') : y <= contexts' /\ y \notin quits'
  BY <1>1, <1>7, <1>8, <1>11
<1>14. contexts' \in 0 .. Limit  BY <1>1
<1>15. quits' = {} /\ Cardinality(quits') <= Cardinality(Workers)  BY <1>8, Sizes
<1>16. client_cnt_' = Cardinality(InUse')  BY <1>9, <1>10, SetEmpty
<1> QED
  BY <1>6, <1>7, <1>10, <1>11, <1>12, <1>13, <1>14, <1>15, <1>16, <1>9 DEF PoolOK

-----------------------------------------------------------------------------
(* The steps of the thread that runs and stops the server.                  *)

LEMMA RunServerStep ==
  ASSUME IInv, RunServer
  PROVE  IInv'
<1>1. Types'
  <2>1. [w \in Workers |-> Get] \in [Workers -> WorkerAt]  BY DEF WorkerAt, Get
  <2>2. [at |-> "new"] \in AcceptorAt  BY DEF AcceptorAt
  <2> QED  BY <2>1, <2>2 DEF IInv, Types, RunServer, InMain
<1>2. RecordsOK'
  <2>1. Sending' = Sending  BY DEF Sending, RunServer, InMain
  <2>2. records = 0 /\ queue_per_io_data_cache_ \in Nat /\ sending \in Nat
        /\ Cardinality(Sending) \in Nat
        /\ records = queue_per_io_data_cache_ + Cardinality(Sending) + sending
    BY FiniteSets1 DEF IInv, RecordsOK, RunServer
  <2>3. Cardinality(Sending) = 0 /\ sending = 0  BY <2>2
  <2>4. 2 * max_event_ \in Nat /\ 2 * max_event_ = 2 * max_event_ + 0 + 0  BY Sizes
  <2> QED  BY <2>1, <2>3, <2>4 DEF IInv, RecordsOK, RunServer, InMain
<1>3. PoolOK'  BY PoolRun DEF IInv, RunServer, InMain
<1>4. StopOK'
  <2>1. Quit' = {}  BY Places DEF Quit, RunServer
  <2> QED  BY <2>1, SetEmpty DEF IInv, StopOK, RunServer, InMain
<1>5. (\A c \in Client : TokenOK(c))'
  <2>1. \A t \in Thread : /\ Position(t).at \in Elsewhere
                          /\ Position(t)'.at \in Elsewhere
    <3>1. acceptor = None /\ \A w \in Workers : worker[w] = None
      BY DEF IInv, StopOK, RunServer
    <3> QED  BY <3>1, Places DEF Position, Thread, RunServer, Elsewhere
  <2> QED  BY <2>1, TokenFrame DEF IInv, RunServer, InMain
<1> QED  BY <1>1, <1>2, <1>3, <1>4, <1>5 DEF IInv

LEMMA StopServerStep ==
  ASSUME IInv, NEW taken \in [1 .. Cardinality(Workers) -> Context], StopServer(taken)
  PROVE  IInv'
<1>1. Types'  BY DEF IInv, Types, StopServer, InMain
<1>2. RecordsOK'  BY RecordsFrame DEF IInv, StopServer, InMain
<1>3. PoolOK'  BY PoolStop DEF IInv, StopServer, InMain
<1>4. StopOK'
  <2>1. Quit' = Quit  BY DEF Quit, StopServer
  <2> QED  BY <2>1 DEF IInv, StopOK, StopServer, InMain
<1>5. (\A c \in Client : TokenOK(c))'
  <2>1. \A t \in Thread : Position(t)' = Position(t)  BY DEF Position, StopServer
  <2> QED  BY <2>1, TokenFrame DEF IInv, StopServer, InMain
<1> QED  BY <1>1, <1>2, <1>3, <1>4, <1>5 DEF IInv

LEMMA InStopServerStep ==
  ASSUME IInv, InStopServer
  PROVE  IInv'
<1> USE DEF InStopServer, StopServerAccepting, StopServerJoin, StopServerReturns, InMain
<1>1. Types'  BY DEF IInv, Types
<1>2. RecordsOK'  BY RecordsFrame DEF IInv
<1>3. PoolOK'  BY PoolFrame DEF IInv
<1>4. StopOK'
  <2>1. Quit' = Quit  BY DEF Quit
  <2> QED  BY <2>1 DEF IInv, StopOK
<1>5. (\A c \in Client : TokenOK(c))'
  <2>1. \A t \in Thread : Position(t)' = Position(t)  BY DEF Position
  <2> QED  BY <2>1, TokenFrame DEF IInv
<1> QED  BY <1>1, <1>2, <1>3, <1>4, <1>5 DEF IInv

-----------------------------------------------------------------------------
(* Those of the clients and of users' threads.                              *)

LEMMA ClientStep ==
  ASSUME IInv, NEW c \in Client, Connect(c) \/ PeerEnds(c)
  PROVE  IInv'
<1> USE DEF Connect, PeerEnds, AtClient, life, pool, perIo
<1>1. Types'  BY DEF IInv, Types
<1>2. RecordsOK'  BY RecordsFrame DEF IInv
<1>3. PoolOK'  BY PoolFrame DEF IInv
<1>4. StopOK'
  <2>1. Quit' = Quit  BY DEF Quit
  <2> QED  BY <2>1 DEF IInv, StopOK
<1>5. (\A d \in Client : TokenOK(d))'
  <2>1. \A t \in Thread : Position(t)' = Position(t)  BY DEF Position
  <2> QED  BY <2>1, TokenFrame DEF IInv
<1> QED  BY <1>1, <1>2, <1>3, <1>4, <1>5 DEF IInv

LEMMA SendDataStep ==
  ASSUME IInv, NEW u \in Users, NEW c \in Client, SendData(u, c)
  PROVE  IInv'
<1> DEFINE to == [at |-> "send", ctx |-> key[c]]
<1>1. /\ sender[u] = None /\ key[c] \in Context /\ main = "on" /\ sending < MaxSends
      /\ PopPerIoDataFromCache /\ sender' = [sender EXCEPT ![u] = to]
      /\ InSender /\ UNCHANGED <<ctx, conn, sending>>
  BY DEF SendData, IInv, Types
<1>2. Types'
  <2>1. to \in SenderAt  BY <1>1 DEF SenderAt
  <2> QED  BY <1>1, <2>1 DEF IInv, Types, InSender, life
<1>3. RecordsOK'
  <2>1. to.at = "send" /\ sender[u].at # "send"  BY <1>1, Places
  <2>2. u \notin Sending /\ Sending' = Sending \cup {u}
    BY <1>1, <2>1 DEF Sending, IInv, Types
  <2>3. Cardinality(Sending') = Cardinality(Sending) + 1 /\ Cardinality(Sending) \in Nat
        /\ Cardinality(Sending') <= Cardinality(Users)
    <3>1. Sending \cup {u} \subseteq Users  BY DEF Sending
    <3> QED  BY <2>2, <3>1, FiniteSets1, SetAdd, SetPart, WinServerAssumption
  <2>4. /\ records \in Nat /\ queue_per_io_data_cache_ \in Nat /\ sending \in Nat
        /\ records = queue_per_io_data_cache_ + Cardinality(Sending) + sending
    BY DEF IInv, RecordsOK
  <2>7. /\ sending' \in Nat /\ main' # "off"
        /\ sending' + Cardinality(Sending') <= MaxSends + Cardinality(Users)
    <3>1. main' = main /\ main # "off" /\ sending' = sending  BY <1>1 DEF InSender, life
    <3> QED  BY SMTT(30), <1>1, <2>3, <2>4, <3>1, Sizes
  <2>5. CASE queue_per_io_data_cache_ = 0
    <3>1. records' = records + 2 * max_event_ /\ queue_per_io_data_cache_' = 2 * max_event_ - 1
      BY <1>1, <2>4, <2>5, Sizes DEF PopPerIoDataFromCache
    <3>2. 2 * max_event_ \in Nat /\ 2 * max_event_ - 1 \in Nat  BY Sizes
    <3>3. /\ records' \in Nat /\ queue_per_io_data_cache_' \in Nat
          /\ records' = queue_per_io_data_cache_' + Cardinality(Sending') + sending'
      BY <1>1, <2>3, <2>4, <2>5, <3>1, <3>2
    <3> QED  BY <2>7, <3>3 DEF RecordsOK
  <2>6. CASE queue_per_io_data_cache_ # 0
    <3>1. records' = records /\ queue_per_io_data_cache_' = queue_per_io_data_cache_ - 1
      BY <1>1, <2>4, <2>6 DEF PopPerIoDataFromCache
    <3>2. /\ records' \in Nat /\ queue_per_io_data_cache_' \in Nat
          /\ records' = queue_per_io_data_cache_' + Cardinality(Sending') + sending'
      BY <1>1, <2>3, <2>4, <2>6, <3>1
    <3> QED  BY <2>7, <3>2 DEF RecordsOK
  <2> QED  BY <2>5, <2>6
<1>4. PoolOK'  BY <1>1, PoolFrame DEF IInv, InSender, life
<1>5. StopOK'
  <2>1. Quit' = Quit  BY <1>1 DEF Quit, InSender
  <2> QED  BY <1>1, <2>1 DEF IInv, StopOK, InSender, life
<1>6. (\A d \in Client : TokenOK(d))'
  <2>1. \A t \in Thread : Position(t)' = Position(t)  BY <1>1 DEF Position, InSender
  <2> QED  BY <1>1, <2>1, TokenFrame DEF IInv, InSender
<1> QED  BY <1>2, <1>3, <1>4, <1>5, <1>6 DEF IInv

CtxRecord == [socket : Client \cup {INVALID_SOCKET}, is_connected : BOOLEAN, recv_ref_cnt : Int]

LEMMA BlankWith ==
  /\ Blank \in CtxRecord
  /\ \A c \in Client : [Blank EXCEPT !.socket = c, !.is_connected = TRUE] \in CtxRecord
  /\ [Blank EXCEPT !.socket = INVALID_SOCKET] = Blank
<1>1. Blank \in CtxRecord  BY DEF Blank, CtxRecord
<1>2. \A c \in Client : [Blank EXCEPT !.socket = c, !.is_connected = TRUE] \in CtxRecord
  BY <1>1 DEF CtxRecord
<1>3. [Blank EXCEPT !.socket = Blank.socket] = Blank  BY <1>1 DEF CtxRecord
<1>4. Blank.socket = INVALID_SOCKET  BY DEF Blank
<1> QED  BY <1>1, <1>2, <1>3, <1>4

\* A user's thread has made its send, or failed to.
LEMMA SenderSends ==
  ASSUME Types, NEW u \in Users, sender[u].at = "send",
         NEW to \in SenderAt, to.at # "send", sender' = [sender EXCEPT ![u] = to]
  PROVE  /\ sender' \in [Users -> SenderAt]
         /\ Cardinality(Sending') = Cardinality(Sending) - 1
         /\ Cardinality(Sending') \in Nat /\ Cardinality(Sending) \in Nat
<1>1. u \in Sending /\ Sending' = Sending \ {u}  BY DEF Sending, Types
<1>2. Cardinality(Sending') = Cardinality(Sending) - 1 /\ IsFiniteSet(Sending')
  BY <1>1, FiniteSets1, SetRemove
<1>3. Cardinality(Sending') \in Nat  BY <1>2, FS_CardinalityType
<1> QED  BY <1>2, <1>3, FiniteSets1 DEF Types

LEMMA WSASendStep ==
  ASSUME IInv, NEW u \in Users, WSASend(u)
  PROVE  IInv'
<1>1. /\ sender[u].at = "send" /\ sender' = [sender EXCEPT ![u] = None]
      /\ sending' = sending + 1
      /\ InSender /\ UNCHANGED <<ctx, perIo, conn>>
  BY DEF WSASend
<1>2. /\ sender' \in [Users -> SenderAt]
      /\ Cardinality(Sending') = Cardinality(Sending) - 1
      /\ Cardinality(Sending') \in Nat /\ Cardinality(Sending) \in Nat
  <2>1. None \in SenderAt /\ None.at # "send"  BY Places DEF SenderAt
  <2> QED  BY <1>1, <2>1, SenderSends DEF IInv
<1>3. Types'  BY <1>1, <1>2 DEF IInv, Types, InSender, life
<1>4. RecordsOK'  BY <1>1, <1>2 DEF IInv, RecordsOK, InSender, life, perIo
<1>5. PoolOK'  BY <1>1, PoolFrame DEF IInv, InSender, life
<1>6. StopOK'
  <2>1. Quit' = Quit  BY <1>1 DEF Quit, InSender
  <2> QED  BY <1>1, <2>1 DEF IInv, StopOK, InSender, life
<1>7. (\A d \in Client : TokenOK(d))'
  <2>1. \A t \in Thread : Position(t)' = Position(t)  BY <1>1 DEF Position, InSender
  <2> QED  BY <1>1, <2>1, TokenFrame DEF IInv, InSender
<1> QED  BY <1>3, <1>4, <1>5, <1>6, <1>7 DEF IInv

LEMMA WSASendFailsStep ==
  ASSUME IInv, NEW u \in Users, WSASendFails(u)
  PROVE  IInv'
<1> DEFINE to == [sender[u] EXCEPT !.at = "close"]
<1>1. /\ sender[u].at = "send" /\ sender' = [sender EXCEPT ![u] = to]
      /\ PushPerIoDataToCache /\ InSender /\ UNCHANGED <<ctx, conn, sending>>
  BY DEF WSASendFails, IInv, Types
<1>2. to \in SenderAt /\ to.at # "send"
  <2>1. sender[u] \in SenderAt /\ sender[u] # None  BY <1>1, Places DEF IInv, Types
  <2> QED  BY <2>1 DEF SenderAt
<1> HIDE DEF to
<1>3. /\ sender' \in [Users -> SenderAt]
      /\ Cardinality(Sending') = Cardinality(Sending) - 1
      /\ Cardinality(Sending') \in Nat /\ Cardinality(Sending) \in Nat
  BY <1>1, <1>2, SenderSends DEF IInv
<1>4. Types'  BY <1>1, <1>3 DEF IInv, Types, InSender, life
<1>5. RecordsOK'
  <2>1. /\ records' = records /\ queue_per_io_data_cache_' = queue_per_io_data_cache_ + 1
        /\ sending' = sending /\ main' = main
    BY <1>1 DEF InSender, life, PushPerIoDataToCache
  <2>2. RecordsOK  BY DEF IInv
  <2> QED  BY SMTT(30), <1>3, <2>1, <2>2, Sizes DEF RecordsOK
<1>6. PoolOK'  BY <1>1, PoolFrame DEF IInv, InSender, life
<1>7. StopOK'
  <2>1. Quit' = Quit  BY <1>1 DEF Quit, InSender
  <2> QED  BY <1>1, <2>1 DEF IInv, StopOK, InSender, life
<1>8. (\A d \in Client : TokenOK(d))'
  <2>1. \A t \in Thread : Position(t)' = Position(t)  BY <1>1 DEF Position, InSender
  <2> QED  BY <1>1, <2>1, TokenFrame DEF IInv, InSender
<1> QED  BY <1>4, <1>5, <1>6, <1>7, <1>8 DEF IInv

\* Whoever has the context by now, it loses its socket and nothing else.
LEMMA CloseFailedStep ==
  ASSUME IInv, NEW u \in Users, CloseFailed(u)
  PROVE  IInv'
<1> DEFINE x == sender[u].ctx
<1>1. /\ sender[u].at = "close" /\ sender' = [sender EXCEPT ![u] = None]
      /\ conn' = Closed(ctx[x].socket)
      /\ ctx' = [ctx EXCEPT ![x].socket = INVALID_SOCKET]
      /\ InSender /\ UNCHANGED <<perIo, sending>>
  BY DEF CloseFailed
<1>2. x \in Context /\ sender' \in [Users -> SenderAt] /\ Sending' = Sending
  <2>1. sender[u] \in SenderAt /\ sender[u] # None  BY <1>1, Places DEF IInv, Types
  <2>2. x \in Context /\ None \in SenderAt  BY <2>1 DEF SenderAt
  <2>3. Sending' = Sending  BY <1>1, Places DEF Sending, IInv, Types
  <2> QED  BY <1>1, <2>2, <2>3 DEF IInv, Types
<1> HIDE DEF x
<1>3. ctx[x] = Blank => ctx'[x] = Blank
  <2>1. [Blank EXCEPT !.socket = INVALID_SOCKET] = Blank  BY BlankWith
  <2>2. ctx'[x] = [ctx[x] EXCEPT !.socket = INVALID_SOCKET]  BY <1>1, <1>2 DEF IInv, Types
  <2> QED  BY <2>1, <2>2
<1>4. /\ ctx'[x].recv_ref_cnt = ctx[x].recv_ref_cnt
      /\ ctx'[x].socket = INVALID_SOCKET
      /\ \A y \in Context : y # x => ctx'[y] = ctx[y]
      /\ ctx' \in [Context -> [socket : Client \cup {INVALID_SOCKET}, is_connected : BOOLEAN,
                               recv_ref_cnt : Int]]
  BY <1>1, <1>2 DEF IInv, Types
<1>5. Types'
  <2>1. conn' \in [Client -> {"none", "open", "ended", "closed"}]
    BY <1>1 DEF Closed, IInv, Types
  <2> QED  BY <1>1, <1>2, <1>4, <2>1 DEF IInv, Types, InSender, life
<1>6. RecordsOK'  BY <1>1, <1>2 DEF IInv, RecordsOK, InSender, life, perIo
<1>7. PoolOK'
  <2>1. \A y \in Context : (\A c \in InUse : key[c] # y) /\ ctx[y] = Blank => ctx'[y] = Blank
    BY <1>3, <1>4
  <2> QED  BY <1>1, <2>1, PoolFrame DEF IInv, InSender, life
<1>8. StopOK'
  <2>1. Quit' = Quit  BY <1>1 DEF Quit, InSender
  <2> QED  BY <1>1, <2>1 DEF IInv, StopOK, InSender, life
<1>9. (\A d \in Client : TokenOK(d))'
  <2>1. \A t \in Thread : Position(t)' = Position(t)  BY <1>1 DEF Position, InSender
  <2>2. \A c \in InUse : /\ ctx'[key[c]].recv_ref_cnt = ctx[key[c]].recv_ref_cnt
                         /\ ctx'[key[c]].socket \in {ctx[key[c]].socket, INVALID_SOCKET}
    <3>1. \A c \in InUse : key[c] \in Context  BY DEF InUse, IInv, Types
    <3> QED  BY <1>4, <3>1
  <2> QED  BY <1>1, <2>1, <2>2, TokenFrame DEF IInv, InSender
<1> QED  BY <1>5, <1>6, <1>7, <1>8, <1>9 DEF IInv

-----------------------------------------------------------------------------
(* Those of the accept thread.                                              *)

\* It has to do with no client, before the step and after it.
LEMMA AcceptorFrame ==
  ASSUME IInv, InAcceptor, UNCHANGED <<pool, conn, key, receiving, told, excused>>,
         acceptor.at \in {"new", "accept"},
         acceptor' \in {None, Accepting, [at |-> "exit"]},
         is_server_running_' \in BOOLEAN, is_server_running_ => is_server_running_'
  PROVE  IInv'
<1> USE DEF InAcceptor, pool
<1>1. Types'
  <2>1. {None, Accepting, [at |-> "exit"]} \subseteq AcceptorAt
    BY DEF AcceptorAt, None, Accepting
  <2> QED  BY <2>1 DEF IInv, Types
<1>2. RecordsOK'  BY RecordsFrame DEF IInv
<1>3. PoolOK'  BY PoolFrame DEF IInv
<1>4. StopOK'
  <2>1. Quit' = Quit  BY DEF Quit
  <2>2. acceptor # None  BY Places
  <2> QED  BY <2>1, <2>2 DEF IInv, StopOK
<1>5. (\A d \in Client : TokenOK(d))'
  <2>1. \A t \in Thread : \/ Position(t)' = Position(t)
                          \/ /\ Position(t).at \in Elsewhere
                             /\ Position(t)'.at \in Elsewhere
    BY Places DEF Position, Elsewhere
  <2> QED  BY <2>1, TokenFrame DEF IInv
<1> QED  BY <1>1, <1>2, <1>3, <1>4, <1>5 DEF IInv

\* Whatever else it does leaves records and the end of the server alone.
LEMMA AcceptorBusy ==
  ASSUME IInv, InAcceptor, UNCHANGED is_server_running_, acceptor # None
  PROVE  RecordsOK' /\ StopOK' /\ main # "off"
<1> USE DEF InAcceptor
<1>1. RecordsOK'  BY RecordsFrame DEF IInv
<1>2. Quit' = Quit  BY DEF Quit
<1>3. StopOK'  BY <1>2 DEF IInv, StopOK
<1> QED  BY <1>1, <1>3 DEF IInv, StopOK

LEMMA AcceptStep ==
  ASSUME IInv, NEW c \in Client, NEW x \in Context, Accept(c, x)
  PROVE  IInv'
<1> DEFINE q == With("issue", c)
<1>1. /\ acceptor = Accepting /\ acceptor' = q
      /\ told[c] = "nothing" /\ client_cnt_' = client_cnt_ + 1
      /\ PopClientContextFromCache(<<x>>)
      /\ ctx' = [ctx EXCEPT ![x] = [Blank EXCEPT !.socket = c, !.is_connected = TRUE]]
      /\ key' = [key EXCEPT ![c] = x] /\ told' = [told EXCEPT ![c] = "connected"]
      /\ InAcceptor /\ UNCHANGED <<is_server_running_, conn, receiving, excused>>
  BY DEF Accept, Waits
<1>2. Types'
  <2>1. q \in AcceptorAt  BY DEF AcceptorAt, With
  <2>2. [Blank EXCEPT !.socket = c, !.is_connected = TRUE]
          \in [socket : Client \cup {INVALID_SOCKET}, is_connected : BOOLEAN, recv_ref_cnt : Int]
    BY BlankWith DEF CtxRecord
  <2> QED  BY <1>1, <2>1, <2>2 DEF IInv, Types, InAcceptor
<1>3. acceptor # None /\ q # None  BY <1>1, Places, Withs
<1>4. RecordsOK' /\ StopOK' /\ main # "off"  BY <1>1, <1>3, AcceptorBusy
<1>5. PoolOK' /\ key[c] = 0 /\ \A d \in InUse : key[d] # x
  BY <1>1, <1>4, PoolAccept DEF IInv, InAcceptor
<1>6. (\A d \in Client : TokenOK(d))'
  <2>1. Moves("acceptor", q) /\ Position("acceptor") = Accepting
    BY <1>1, AcceptorMoves DEF IInv, InAcceptor
  <2> QED  BY <1>1, <1>5, <2>1, TokenAccept DEF IInv
<1> QED  BY <1>2, <1>4, <1>5, <1>6 DEF IInv

\* The thread t issues a receive for the client it is with.
LEMMA IssueWhose ==
  ASSUME IInv, NEW t \in Thread, NEW d \in Client, Position(t) = With("issue", d), Issue(d)
  PROVE  receiving' = [receiving EXCEPT ![d] = @ + 1]
<1>1. t \in Handling(d)  BY DEF Handling
<1>2. d \in InUse  BY <1>1 DEF IInv, TokenOK
<1>3. ctx[key[d]].socket = d  BY <1>2 DEF IInv, TokenOK, Issue
<1> QED  BY <1>3 DEF Issue

LEMMA ClosedType ==
  ASSUME Types, NEW s
  PROVE  Closed(s) \in [Client -> {"none", "open", "ended", "closed"}]
  BY DEF Closed, Types

LEMMA AcceptIssueStep ==
  ASSUME IInv, AcceptIssue
  PROVE  IInv'
<1> DEFINE d == acceptor.client
           t == "acceptor"
           q == With("count", d)
<1>1. /\ acceptor.at = "issue" /\ acceptor' = [acceptor EXCEPT !.at = "count"] /\ Issue(d)
      /\ InAcceptor /\ UNCHANGED <<is_server_running_, pool, conn, key, told, excused>>
  BY DEF AcceptIssue
<1>2. acceptor \in AcceptorAt /\ d \in Client /\ acceptor = With("issue", d)
  BY <1>1, Places DEF IInv, Types
<1>3. acceptor' = q /\ q \in AcceptorAt /\ acceptor # None /\ q # None
  <2>1. [With("issue", d) EXCEPT !.at = "count"] = With("count", d)  BY DEF With
  <2>2. q \in AcceptorAt  BY <1>2 DEF With, AcceptorAt
  <2> QED  BY <1>1, <1>2, <2>1, <2>2, Places, Withs
<1>4. t \in Thread /\ Position(t) = With("issue", d) /\ Moves(t, q)
  BY <1>1, <1>2, <1>3, AcceptorMoves DEF IInv, InAcceptor
<1>5. receiving' = [receiving EXCEPT ![d] = @ + 1]
  BY <1>1, <1>2, <1>4, IssueWhose
<1>6. Types'  BY <1>1, <1>2, <1>3, <1>5 DEF IInv, Types, InAcceptor, pool
<1>7. RecordsOK' /\ StopOK' /\ main # "off"  BY <1>1, <1>3, AcceptorBusy
<1>8. PoolOK'  BY <1>1, PoolFrame DEF IInv, InAcceptor, pool
<1>9. (\A c \in Client : TokenOK(c))'
  BY <1>1, <1>2, <1>4, <1>5, TokenIssue DEF IInv, pool
<1> QED  BY <1>6, <1>7, <1>8, <1>9 DEF IInv

LEMMA AcceptIssueFailsStep ==
  ASSUME IInv, AcceptIssueFails
  PROVE  IInv'
<1> DEFINE d == acceptor.client
           t == "acceptor"
           q == IF is_need_accept_ THEN Accepting ELSE None
<1>1. /\ acceptor.at = "issue" /\ acceptor' = q
      /\ conn' = Closed(ctx[key[d]].socket) /\ excused' = excused \cup {d}
      /\ Free(d) /\ client_cnt_' = client_cnt_ - 1
      /\ InAcceptor /\ UNCHANGED <<is_server_running_, receiving, told>>
  BY DEF AcceptIssueFails, Loops, IssueFails, DropClient
<1>2. d \in Client /\ acceptor = With("issue", d)
  BY <1>1, Places DEF IInv, Types
<1>3. acceptor # None /\ q.at \in Elsewhere /\ q \in AcceptorAt
  BY <1>1, Places DEF Accepting, None, AcceptorAt
<1> HIDE DEF q
<1>4. t \in Thread /\ Position(t) = With("issue", d) /\ Moves(t, q)
  BY <1>1, <1>2, AcceptorMoves DEF IInv, InAcceptor
<1>5. t \in Handling(d) /\ Counting(d) = {} /\ d \in InUse /\ key[d] \in Context
  <2>1. t \in Handling(d)  BY <1>4 DEF Handling
  <2>2. Final(d)  BY <1>4 DEF Final
  <2> QED  BY <1>2, <2>1, <2>2 DEF IInv, TokenOK, InUse, Types
<1>6. Types'
  <2>1. ctx' \in [Context -> CtxRecord]
    BY <1>1, <1>5, BlankWith DEF Free, PushClientContextToCache, IInv, Types, CtxRecord
  <2> QED  BY <1>1, <1>2, <1>3, <2>1, ClosedType DEF IInv, Types, InAcceptor, Free, CtxRecord
<1>7. RecordsOK' /\ StopOK' /\ main # "off"  BY <1>1, <1>3, AcceptorBusy
<1>8. PoolOK'  BY <1>1, <1>5, PoolFree DEF IInv, InAcceptor
<1>9. (\A c \in Client : TokenOK(c))'
  BY <1>1, <1>2, <1>3, <1>4, <1>5, TokenFree DEF IInv
<1> QED  BY <1>6, <1>7, <1>8, <1>9 DEF IInv

\* A thread that counts a receive writes to a context in use.
LEMMA CountRecvType ==
  ASSUME IInv, NEW t \in Thread, NEW d \in Client, Position(t) = With("count", d), CountRecv(d)
  PROVE  /\ ctx' \in [Context -> CtxRecord]
         /\ \A x \in Context : (\A c \in InUse : key[c] # x) /\ ctx[x] = Blank => ctx'[x] = Blank
<1>1. t \in Counting(d)  BY DEF Counting
<1>2. d \in InUse /\ key[d] \in Context  BY <1>1 DEF IInv, TokenOK, InUse, Types
<1>3. ctx' \in [Context -> CtxRecord] /\ \A x \in Context : x # key[d] => ctx'[x] = ctx[x]
  BY <1>2 DEF IInv, Types, CountRecv, CtxRecord
<1> QED  BY <1>2, <1>3

LEMMA AcceptCountStep ==
  ASSUME IInv, AcceptCount
  PROVE  IInv'
<1> DEFINE d == acceptor.client
           t == "acceptor"
           q == IF is_need_accept_ THEN Accepting ELSE None
<1>1. /\ acceptor.at = "count" /\ acceptor' = q /\ CountRecv(d)
      /\ InAcceptor
      /\ UNCHANGED <<is_server_running_, client_cnt_, queue_ctx_cache_, contexts, conn, key,
                     receiving, told, excused>>
  BY DEF AcceptCount, Loops
<1>2. d \in Client /\ acceptor = With("count", d)
  BY <1>1, Places DEF IInv, Types
<1>3. acceptor # None /\ q.at \in Elsewhere /\ q \in AcceptorAt
  BY <1>1, Places DEF Accepting, None, AcceptorAt
<1> HIDE DEF q
<1>4. t \in Thread /\ Position(t) = With("count", d) /\ Moves(t, q)
  BY <1>1, <1>2, AcceptorMoves DEF IInv, InAcceptor
<1>5. /\ ctx' \in [Context -> CtxRecord]
      /\ \A x \in Context : (\A c \in InUse : key[c] # x) /\ ctx[x] = Blank => ctx'[x] = Blank
  BY <1>1, <1>2, <1>4, CountRecvType
<1>6. Types'  BY <1>1, <1>3, <1>5 DEF IInv, Types, InAcceptor, CtxRecord
<1>7. RecordsOK' /\ StopOK' /\ main # "off"  BY <1>1, <1>3, AcceptorBusy
<1>8. PoolOK'  BY <1>1, <1>5, PoolFrame DEF IInv, InAcceptor
<1>9. (\A c \in Client : TokenOK(c))'
  BY <1>1, <1>2, <1>3, <1>4, TokenCount DEF IInv
<1> QED  BY <1>6, <1>7, <1>8, <1>9 DEF IInv

LEMMA AcceptThreadStep ==
  ASSUME IInv, AcceptThread
  PROVE  IInv'
<1>1. CASE AcceptThreadStarts \/ AcceptThreadEnds \/ AcceptFails
  <2>1. /\ acceptor.at \in {"new", "accept"}
        /\ acceptor' \in {None, Accepting, [at |-> "exit"]}
        /\ is_server_running_' \in BOOLEAN /\ (is_server_running_ => is_server_running_')
        /\ InAcceptor /\ UNCHANGED <<pool, conn, key, receiving, told, excused>>
    BY <1>1, Places DEF AcceptThreadStarts, Loops, AcceptThreadEnds, AcceptFails, IInv, Types
  <2> QED  BY <2>1, AcceptorFrame
<1>2. CASE \E c \in Client, x \in Context : Accept(c, x)  BY <1>2, AcceptStep
<1>3. CASE AcceptIssue  BY <1>3, AcceptIssueStep
<1>4. CASE AcceptIssueFails  BY <1>4, AcceptIssueFailsStep
<1>5. CASE AcceptCount  BY <1>5, AcceptCountStep
<1> QED  BY <1>1, <1>2, <1>3, <1>4, <1>5 DEF AcceptThread

-----------------------------------------------------------------------------
(* Those of the workers.                                                    *)

LEMMA WorkerBusy ==
  ASSUME IInv, NEW w \in Workers, NEW q \in WorkerAt, q.at \notin {"counted", "none"},
         worker[w].at \notin {"counted", "none"}, Goes(w, q), InWorker,
         UNCHANGED <<is_server_running_, cur_quit_cnt_>>
  PROVE  StopOK' /\ worker' \in [Workers -> WorkerAt]
<1>1. worker' = [worker EXCEPT ![w] = q] /\ worker \in [Workers -> WorkerAt]
  BY DEF Goes, IInv, Types
<1>2. Quit' = Quit  BY <1>1, Places DEF Quit
<1>3. main # "off"  BY Places DEF IInv, StopOK
<1> QED  BY <1>1, <1>2, <1>3, StopFrame DEF IInv, InWorker

LEMMA WorkerReceives ==
  ASSUME IInv, Receives
  PROVE  RecordsOK'
  BY RecordsFrame DEF IInv, Receives, InWorker

LEMMA WorkerPlaces ==
  /\ Get \in WorkerAt /\ None \in WorkerAt
  /\ \A c \in Client, a \in {"issue", "count", "terminate"} :
       With(a, c) \in WorkerAt /\ With(a, c).at \notin {"counted", "none"}
  BY DEF WorkerAt, Get, None, With

\* The packet of a receive is taken, and the worker goes to q.
LEMMA TakeStep ==
  ASSUME IInv, NEW w \in Workers, NEW d \in Client, TakesRecv(w, d),
         ctx' = [ctx EXCEPT ![key[d]].recv_ref_cnt = @ - 1],
         NEW q \in {Get, With("issue", d), With("terminate", d)}, Goes(w, q),
         q = With("terminate", d) => ctx[key[d]].recv_ref_cnt = 1,
         Receives, excused' \subseteq Client,
         UNCHANGED <<client_cnt_, queue_ctx_cache_, contexts, conn, key, told>>
  PROVE  IInv'
<1>1. /\ worker[w] = Get /\ receiving[d] > 0
      /\ receiving' = [receiving EXCEPT ![d] = @ - 1]
  BY DEF TakesRecv
<1>2. q \in WorkerAt /\ q.at \notin {"counted", "none"} /\ worker[w].at \notin {"counted", "none"}
  BY <1>1, WorkerPlaces, Places
<1>3. StopOK' /\ worker' \in [Workers -> WorkerAt]
  BY <1>2, WorkerBusy DEF Receives
<1>4. RecordsOK'  BY WorkerReceives
<1>5. Moves(w, q) /\ w \in Thread /\ w # "acceptor" /\ Position(w) = Get
  BY <1>1, WorkerMoves DEF IInv, Receives, InWorker
<1>6. d \in InUse /\ key[d] \in Context
  <2>1. receiving[d] # 0  BY <1>1
  <2> QED  BY <2>1 DEF IInv, TokenOK, InUse, Types
<1>7. ctx' \in [Context -> CtxRecord] /\ \A x \in Context : x # key[d] => ctx'[x] = ctx[x]
  BY <1>6 DEF IInv, Types, CtxRecord
<1>8. Types'
  <2>1. receiving' \in [Client -> Nat]
    <3>1. receiving[d] \in Nat /\ receiving[d] - 1 \in Nat  BY <1>1 DEF IInv, Types
    <3> QED  BY <1>1, <3>1 DEF IInv, Types
  <2> QED  BY <1>3, <1>7, <2>1 DEF IInv, Types, Receives, InWorker, CtxRecord
<1>9. PoolOK'
  <2>1. \A x \in Context : (\A c \in InUse : key[c] # x) /\ ctx[x] = Blank => ctx'[x] = Blank
    BY <1>6, <1>7
  <2> QED  BY <2>1, PoolFrame DEF IInv, Receives, InWorker
<1>10. (\A c \in Client : TokenOK(c))'
  BY <1>1, <1>5, TokenTake DEF IInv
<1> QED  BY <1>3, <1>4, <1>8, <1>9, <1>10 DEF IInv

LEMMA TakeDataStep ==
  ASSUME IInv, NEW w \in Workers, NEW c \in Client, TakeData(w, c)
  PROVE  IInv'
<1> DEFINE q == With("issue", c)
<1>1. q # With("terminate", c)  BY Withs
<1>2. excused' \subseteq Client  BY DEF TakeData, IInv, Types
<1> QED  BY <1>1, <1>2, TakeStep DEF TakeData

LEMMA TakeEndStep ==
  ASSUME IInv, NEW w \in Workers, NEW c \in Client, TakeEnd(w, c)
  PROVE  IInv'
<1> DEFINE left == ctx[key[c]].recv_ref_cnt - 1
           q == IF left = 0 THEN With("terminate", c) ELSE Get
<1>1. TakesRecv(w, c) /\ Receives /\ Goes(w, q) /\ excused' \subseteq excused \cup {c}
      /\ ctx' = [ctx EXCEPT ![key[c]].recv_ref_cnt = @ - 1]
      /\ UNCHANGED <<client_cnt_, queue_ctx_cache_, contexts, conn, key, told>>
  BY DEF TakeEnd
<1>2. q = With("terminate", c) => ctx[key[c]].recv_ref_cnt = 1
  <2>1. Get # With("terminate", c)  BY Places, Withs
  <2>2. ctx[key[c]].recv_ref_cnt \in Int
    <3>1. receiving[c] # 0  BY <1>1 DEF TakesRecv
    <3>2. key[c] \in Context  BY <3>1 DEF IInv, TokenOK, InUse, Types
    <3> QED  BY <3>2 DEF IInv, Types
  <2> QED  BY <2>1, <2>2
<1>3. excused' \subseteq Client  BY <1>1 DEF IInv, Types
<1>4. q \in {Get, With("issue", c), With("terminate", c)}  OBVIOUS
<1> HIDE DEF q
<1> QED  BY <1>1, <1>2, <1>3, <1>4, TakeStep

LEMMA TakeSentStep ==
  ASSUME IInv, NEW w \in Workers, TakeSent(w)
  PROVE  IInv'
<1>1. /\ sending > 0 /\ sending' = sending - 1 /\ PushPerIoDataToCache /\ InWorker
      /\ UNCHANGED <<is_server_running_, cur_quit_cnt_, worker, pool, conn, key, told,
                     receiving, quits, excused>>
  BY DEF TakeSent
<1>2. Types'  BY <1>1 DEF IInv, Types, InWorker, pool
<1>3. RecordsOK'
  <2>1. /\ records' = records /\ queue_per_io_data_cache_' = queue_per_io_data_cache_ + 1
        /\ Sending' = Sending /\ main' = main
    BY <1>1 DEF InWorker, PushPerIoDataToCache, Sending
  <2>2. RecordsOK /\ Cardinality(Sending) \in Nat  BY FiniteSets1 DEF IInv
  <2> QED  BY SMTT(30), <1>1, <2>1, <2>2, Sizes DEF RecordsOK
<1>4. PoolOK'  BY <1>1, PoolFrame DEF IInv, InWorker, pool
<1>5. StopOK'
  <2>1. Quit' = Quit  BY <1>1 DEF Quit
  <2> QED  BY <1>1, <2>1, StopFrame DEF IInv, InWorker
<1>6. (\A d \in Client : TokenOK(d))'
  <2>1. \A t \in Thread : Position(t)' = Position(t)  BY <1>1 DEF Position, InWorker
  <2> QED  BY <1>1, <2>1, TokenFrame DEF IInv, pool
<1> QED  BY <1>2, <1>3, <1>4, <1>5, <1>6 DEF IInv

LEMMA CountedPlace ==
  /\ [at |-> "counted"] \in WorkerAt /\ [at |-> "counted"].at \in Elsewhere
  /\ None.at \in Elsewhere
BY Places DEF WorkerAt, Elsewhere

LEMMA TakeQuitStep ==
  ASSUME IInv, NEW w \in Workers, NEW x \in Context, TakeQuit(w, x)
  PROVE  IInv'
<1> DEFINE q == [at |-> "counted"]
<1>1. /\ worker[w] = Get /\ x \in quits /\ quits' = quits \ {x}
      /\ PushClientContextToCache(x)
      /\ cur_quit_cnt_' = cur_quit_cnt_ + 1
      /\ Goes(w, q) /\ InWorker
      /\ UNCHANGED <<is_server_running_, client_cnt_, perIo, conn, key, told, receiving,
                     sending, excused>>
  BY DEF TakeQuit
<1>2. worker' = [worker EXCEPT ![w] = q] /\ worker' \in [Workers -> WorkerAt]
  BY <1>1, CountedPlace DEF Goes, IInv, Types
<1>3. Types'
  <2>1. ctx' \in [Context -> CtxRecord]
    BY <1>1, BlankWith DEF PushClientContextToCache, IInv, Types, CtxRecord
  <2> QED  BY <1>1, <1>2, <2>1 DEF IInv, Types, InWorker, CtxRecord
<1>4. RecordsOK'  BY <1>1, RecordsFrame DEF IInv, InWorker
<1>5. PoolOK'  BY <1>1, PoolQuit DEF IInv, InWorker
<1>6. StopOK'
  <2>1. w \notin Quit /\ Quit' = Quit \cup {w}
    <3>1. worker[w].at = "get" /\ worker'[w].at = "counted"  BY <1>1, <1>2, Places DEF IInv, Types
    <3>2. \A v \in Workers : v # w => worker'[v] = worker[v]  BY <1>2 DEF IInv, Types
    <3> QED  BY <3>1, <3>2 DEF Quit
  <2>2. Cardinality(Quit') = Cardinality(Quit) + 1 /\ Quit # Workers
    BY <2>1, FiniteSets1, SetAdd
  <2>3. main # "off" /\ main' = main /\ cur_quit_cnt_ = Cardinality(Quit) /\ is_server_running_
        /\ main # "returned"
    BY <1>1, <2>2 DEF IInv, StopOK, PoolOK, InWorker, Types
  <2>4. cur_quit_cnt_' = Cardinality(Quit') /\ is_server_running_'  BY <1>1, <2>2, <2>3
  <2>5. acceptor' = acceptor  BY <1>1 DEF InWorker
  <2> QED  BY <2>3, <2>4, <2>5 DEF IInv, StopOK
<1>7. (\A d \in Client : TokenOK(d))'
  <2>1. Moves(w, q) /\ w \in Thread /\ Position(w) = Get
    BY <1>1, WorkerMoves DEF IInv, InWorker
  <2>2. \A t \in Thread : \/ Position(t)' = Position(t)
                          \/ Position(t).at \in Elsewhere /\ Position(t)'.at \in Elsewhere
    BY <2>1, Places, CountedPlace DEF Moves
  <2>3. \A c \in InUse : ctx'[key[c]] = ctx[key[c]]
    BY <1>1 DEF PushClientContextToCache, IInv, PoolOK, InUse, Types
  <2> QED  BY <1>1, <2>2, <2>3, TokenFrame DEF IInv
<1> QED  BY <1>3, <1>4, <1>5, <1>6, <1>7 DEF IInv

LEMMA QuitCompareStep ==
  ASSUME IInv, NEW w \in Workers, QuitCompare(w)
  PROVE  IInv'
<1>1. /\ worker[w].at = "counted" /\ Goes(w, None) /\ InWorker
      /\ is_server_running_' = (is_server_running_ /\ cur_quit_cnt_ # Cardinality(Workers))
      /\ UNCHANGED <<cur_quit_cnt_, pool, perIo, conn, key, told, receiving, sending, quits,
                     excused>>
  BY DEF QuitCompare
<1>2. worker' = [worker EXCEPT ![w] = None] /\ worker' \in [Workers -> WorkerAt]
  BY <1>1, WorkerPlaces DEF Goes, IInv, Types
<1>3. Types'
  <2>1. is_server_running_' \in BOOLEAN  BY <1>1
  <2> QED  BY <1>1, <1>2, <2>1 DEF IInv, Types, InWorker, pool
<1>4. RecordsOK'  BY <1>1, RecordsFrame DEF IInv, InWorker
<1>5. PoolOK'  BY <1>1, PoolFrame DEF IInv, InWorker, pool
<1>6. StopOK'
  <2>1. Quit' = Quit  BY <1>1, <1>2, Places DEF Quit, IInv, Types
  <2>2. main # "off" /\ main' = main /\ acceptor' = acceptor
    BY <1>1, Places DEF IInv, StopOK, InWorker
  <2>3. ~is_server_running_' => Quit' = Workers
    <3>1. CASE ~is_server_running_  BY <2>1, <2>2, <3>1 DEF IInv, StopOK
    <3>2. CASE cur_quit_cnt_ = Cardinality(Workers)
      BY <2>1, <2>2, <3>2, FiniteSets1 DEF IInv, StopOK
    <3> QED  BY <1>1, <3>1, <3>2
  <2> QED  BY <1>1, <2>1, <2>2, <2>3 DEF IInv, StopOK
<1>7. (\A d \in Client : TokenOK(d))'
  <2>1. Moves(w, None) /\ w \in Thread /\ Position(w) = worker[w]
    BY <1>1, WorkerMoves DEF IInv, InWorker
  <2>2. \A t \in Thread : \/ Position(t)' = Position(t)
                          \/ Position(t).at \in Elsewhere /\ Position(t)'.at \in Elsewhere
    BY <1>1, <2>1, Places DEF Moves, Elsewhere
  <2> QED  BY <1>1, <2>2, TokenFrame DEF IInv, pool
<1> QED  BY <1>3, <1>4, <1>5, <1>6, <1>7 DEF IInv

\* A worker that is with a client.
LEMMA WorkerWith ==
  ASSUME IInv, NEW w \in Workers, NEW a \in {"issue", "count", "terminate"}, worker[w].at = a
  PROVE  worker[w].client \in Client /\ worker[w] = With(a, worker[w].client)
  BY Places DEF IInv, Types

LEMMA WorkerIssueStep ==
  ASSUME IInv, NEW w \in Workers, WorkerIssue(w)
  PROVE  IInv'
<1> DEFINE d == worker[w].client
           q == With("count", d)
<1>1. /\ worker[w].at = "issue" /\ Issue(d) /\ Goes(w, [worker[w] EXCEPT !.at = "count"])
      /\ Receives /\ UNCHANGED <<pool, conn, key, told, excused>>
  BY DEF WorkerIssue
<1>2. d \in Client /\ worker[w] = With("issue", d)  BY <1>1, WorkerWith
<1>3. Goes(w, q)
  <2>1. [With("issue", d) EXCEPT !.at = "count"] = With("count", d)  BY DEF With
  <2> QED  BY <1>1, <1>2, <2>1
<1>4. w \in Thread /\ Position(w) = With("issue", d) /\ Moves(w, q)
  BY <1>2, <1>3, <1>1, WorkerMoves DEF IInv, Receives, InWorker
<1>5. StopOK' /\ worker' \in [Workers -> WorkerAt]
  <2>1. /\ q \in WorkerAt /\ q.at \notin {"counted", "none"}
        /\ worker[w].at \notin {"counted", "none"}
    BY <1>1, <1>2, WorkerPlaces
  <2> QED  BY <1>1, <1>3, <2>1, WorkerBusy DEF Receives
<1>6. receiving' = [receiving EXCEPT ![d] = @ + 1]
  BY <1>1, <1>2, <1>4, IssueWhose
<1>7. Types'  BY <1>1, <1>2, <1>5, <1>6 DEF IInv, Types, Receives, InWorker, pool
<1>8. RecordsOK'  BY <1>1, WorkerReceives
<1>9. PoolOK'  BY <1>1, PoolFrame DEF IInv, Receives, InWorker, pool
<1>10. (\A c \in Client : TokenOK(c))'
  BY <1>1, <1>2, <1>4, <1>6, TokenIssue DEF IInv, pool
<1> QED  BY <1>5, <1>7, <1>8, <1>9, <1>10 DEF IInv

\* A worker that handled the client d is done with it, and frees its context.
LEMMA WorkerFreeStep ==
  ASSUME IInv, NEW w \in Workers, NEW d \in Client,
         worker[w] \in {With("issue", d), With("terminate", d)}, Counting(d) = {},
         Free(d), client_cnt_' = client_cnt_ - 1, NEW s, conn' = Closed(s),
         Goes(w, Get), Receives, UNCHANGED receiving, excused' \subseteq Client,
         told' \in [Client -> {"nothing", "connected", "disconnected"}],
         \A c \in Client : told'[c] = "nothing" => told[c] = "nothing"
  PROVE  IInv'
<1>1. w \in Thread /\ Position(w) = worker[w] /\ Moves(w, Get)
  BY WorkerMoves DEF IInv, Receives, InWorker
<1>2. w \in Handling(d)  BY <1>1 DEF Handling
<1>3. d \in InUse /\ key[d] \in Context  BY <1>2 DEF IInv, TokenOK, InUse, Types
<1>4. StopOK' /\ worker' \in [Workers -> WorkerAt]
  <2>1. Get \in WorkerAt /\ Get.at \notin {"counted", "none"}
        /\ worker[w].at \notin {"counted", "none"}
    BY WorkerPlaces, Places
  <2> QED  BY <2>1, WorkerBusy DEF Receives
<1>5. Types'
  <2>1. ctx' \in [Context -> CtxRecord]
    BY <1>3, BlankWith DEF Free, PushClientContextToCache, IInv, Types, CtxRecord
  <2>2. key' \in [Client -> Context \cup {0}]  BY DEF Free, IInv, Types
  <2>3. conn' \in [Client -> {"none", "open", "ended", "closed"}]
    BY ClosedType DEF IInv
  <2> QED  BY <1>4, <2>1, <2>2, <2>3 DEF IInv, Types, Receives, InWorker, CtxRecord
<1>6. RecordsOK'  BY WorkerReceives
<1>7. PoolOK'  BY <1>3, PoolFree DEF IInv, Receives, InWorker
<1>8. (\A c \in Client : TokenOK(c))'  BY <1>1, <1>2, Places, TokenFree DEF IInv
<1> QED  BY <1>4, <1>5, <1>6, <1>7, <1>8 DEF IInv

LEMMA WorkerIssueFailsStep ==
  ASSUME IInv, NEW w \in Workers, WorkerIssueFails(w)
  PROVE  IInv'
<1> DEFINE d == worker[w].client
           s == ctx[key[d]].socket
<1>1. /\ worker[w].at = "issue" /\ Goes(w, Get)
      /\ conn' = Closed(s) /\ excused' = excused \cup {d}
      /\ Receives /\ UNCHANGED <<receiving, told>>
  BY DEF WorkerIssueFails, IssueFails
<1>2. d \in Client /\ worker[w] = With("issue", d)  BY <1>1, WorkerWith
<1>3. w \in Thread /\ w # "acceptor" /\ Position(w) = With("issue", d) /\ Moves(w, Get)
  BY <1>1, <1>2, WorkerMoves DEF IInv, Receives, InWorker
<1>4. w \in Handling(d)  BY <1>3 DEF Handling
<1>5. excused' \subseteq Client  BY <1>1, <1>2 DEF IInv, Types
<1>6. CASE ctx[key[d]].recv_ref_cnt = 0
  <2>1. Counting(d) = {}  BY <1>2, <1>4, <1>6, Handles DEF IInv
  <2>2. Free(d) /\ client_cnt_' = client_cnt_ - 1
    BY <1>6 DEF WorkerIssueFails, DropClient
  <2>3. told' \in [Client -> {"nothing", "connected", "disconnected"}]
        /\ \A c \in Client : told'[c] = "nothing" => told[c] = "nothing"
    BY <1>1 DEF IInv, Types
  <2> QED  BY <1>1, <1>2, <1>5, <2>1, <2>2, <2>3, WorkerFreeStep
<1>7. CASE ctx[key[d]].recv_ref_cnt # 0
  <2>1. /\ ctx' = [ctx EXCEPT ![key[d]].socket = INVALID_SOCKET]
        /\ UNCHANGED <<client_cnt_, queue_ctx_cache_, contexts, key>>
    BY <1>7 DEF WorkerIssueFails
  <2>2. d \in InUse /\ key[d] \in Context
    BY <1>2, <1>4 DEF IInv, TokenOK, InUse, Types
  <2>3. ctx' \in [Context -> CtxRecord] /\ \A x \in Context : x # key[d] => ctx'[x] = ctx[x]
    BY <2>1, <2>2 DEF IInv, Types, CtxRecord
  <2>4. StopOK' /\ worker' \in [Workers -> WorkerAt]
    <3>1. Get \in WorkerAt /\ Get.at \notin {"counted", "none"}
        /\ worker[w].at \notin {"counted", "none"}
      BY <1>1, WorkerPlaces, Places
    <3> QED  BY <1>1, <3>1, WorkerBusy DEF Receives
  <2>5. Types'
    BY <1>1, <1>5, <2>1, <2>3, <2>4, ClosedType DEF IInv, Types, Receives, InWorker, CtxRecord
  <2>6. RecordsOK'  BY <1>1, WorkerReceives
  <2>7. PoolOK'
    <3>1. \A x \in Context : (\A c \in InUse : key[c] # x) /\ ctx[x] = Blank => ctx'[x] = Blank
      BY <2>2, <2>3
    <3> QED  BY <1>1, <2>1, <3>1, PoolFrame DEF IInv, Receives, InWorker
  <2>8. (\A c \in Client : TokenOK(c))'
    BY <1>1, <1>2, <1>3, <1>4, <2>1, TokenKeep DEF IInv
  <2> QED  BY <2>4, <2>5, <2>6, <2>7, <2>8 DEF IInv
<1> QED  BY <1>6, <1>7

LEMMA WorkerCountStep ==
  ASSUME IInv, NEW w \in Workers, WorkerCount(w)
  PROVE  IInv'
<1> DEFINE d == worker[w].client
<1>1. /\ worker[w].at = "count" /\ CountRecv(d) /\ Goes(w, Get) /\ Receives
      /\ UNCHANGED <<client_cnt_, queue_ctx_cache_, contexts, conn, key, receiving, told, excused>>
  BY DEF WorkerCount
<1>2. d \in Client /\ worker[w] = With("count", d)  BY <1>1, WorkerWith
<1>3. w \in Thread /\ Position(w) = With("count", d) /\ Moves(w, Get)
  BY <1>1, <1>2, WorkerMoves DEF IInv, Receives, InWorker
<1>4. StopOK' /\ worker' \in [Workers -> WorkerAt]
  <2>1. Get \in WorkerAt /\ Get.at \notin {"counted", "none"}
        /\ worker[w].at \notin {"counted", "none"}
    BY <1>1, WorkerPlaces, Places
  <2> QED  BY <1>1, <2>1, WorkerBusy DEF Receives
<1>5. /\ ctx' \in [Context -> CtxRecord]
      /\ \A x \in Context : (\A c \in InUse : key[c] # x) /\ ctx[x] = Blank => ctx'[x] = Blank
  BY <1>1, <1>2, <1>3, CountRecvType
<1>6. Types'  BY <1>1, <1>4, <1>5 DEF IInv, Types, Receives, InWorker, CtxRecord
<1>7. RecordsOK'  BY <1>1, WorkerReceives
<1>8. PoolOK'  BY <1>1, <1>5, PoolFrame DEF IInv, Receives, InWorker
<1>9. (\A c \in Client : TokenOK(c))'
  BY <1>1, <1>2, <1>3, Places, TokenCount DEF IInv
<1> QED  BY <1>4, <1>6, <1>7, <1>8, <1>9 DEF IInv

LEMMA TerminateClientStep ==
  ASSUME IInv, NEW w \in Workers, TerminateClient(w)
  PROVE  IInv'
<1> DEFINE d == worker[w].client
           s == ctx[key[d]].socket
<1>1. /\ worker[w].at = "terminate" /\ client_cnt_' = client_cnt_ - 1
      /\ told' = [told EXCEPT ![d] = "disconnected"] /\ conn' = Closed(s)
      /\ Free(d) /\ Goes(w, Get) /\ Receives /\ UNCHANGED <<receiving, excused>>
  BY DEF TerminateClient
<1>2. d \in Client /\ worker[w] = With("terminate", d)  BY <1>1, WorkerWith
<1>3. Counting(d) = {}
  <2>1. w \in Thread /\ Position(w) = worker[w]  BY <1>1, WorkerMoves DEF IInv, Receives, InWorker
  <2>2. Final(d)  BY <1>2, <2>1 DEF Final
  <2> QED  BY <1>2, <2>2 DEF IInv, TokenOK
<1>4. told' \in [Client -> {"nothing", "connected", "disconnected"}]
      /\ \A c \in Client : told'[c] = "nothing" => told[c] = "nothing"
  BY <1>1, <1>2 DEF IInv, Types
<1>5. excused' \subseteq Client  BY <1>1 DEF IInv, Types
<1> QED  BY <1>1, <1>2, <1>3, <1>4, <1>5, WorkerFreeStep

LEMMA WorkerThreadStep ==
  ASSUME IInv, NEW w \in Workers, WorkerThread(w)
  PROVE  IInv'
<1>1. CASE \E c \in Client : TakeData(w, c) \/ TakeEnd(w, c)
  BY <1>1, TakeDataStep, TakeEndStep
<1>2. CASE TakeSent(w)  BY <1>2, TakeSentStep
<1>3. CASE \E x \in Context : TakeQuit(w, x)  BY <1>3, TakeQuitStep
<1>4. CASE WorkerIssue(w)  BY <1>4, WorkerIssueStep
<1>5. CASE WorkerIssueFails(w)  BY <1>5, WorkerIssueFailsStep
<1>6. CASE WorkerCount(w)  BY <1>6, WorkerCountStep
<1>7. CASE TerminateClient(w)  BY <1>7, TerminateClientStep
<1>8. CASE QuitCompare(w)  BY <1>8, QuitCompareStep
<1> QED
  BY <1>1, <1>2, <1>3, <1>4, <1>5, <1>6, <1>7, <1>8 DEF WorkerThread, WorkerGoesOn

-----------------------------------------------------------------------------
(* The invariant, and what follows from it.                                 *)

LEMMA InitInv ==
  ASSUME Init
  PROVE  IInv
<1> USE DEF Init
<1>1. Types
  <2>1. None \in AcceptorAt /\ None \in WorkerAt /\ Blank \in CtxRecord
    BY BlankWith, WorkerPlaces DEF AcceptorAt, None
  <2>2. None \in SenderAt  BY DEF SenderAt
  <2> QED  BY <2>1, <2>2 DEF Types, CtxRecord
<1>2. InUse = {}  BY DEF InUse
<1>3. RecordsOK
  <2>1. Sending = {}  BY Places DEF Sending
  <2> QED  BY <2>1, SetEmpty, Sizes DEF RecordsOK
<1>4. PoolOK
  <2>1. <<>> \in Seq(Context) /\ IsInjective(<<>>) /\ Range(<<>>) = {} /\ Len(<<>>) = 0
    BY DEF IsInjective, Range
  <2>2. 0 \in 0 .. Limit /\ 0 <= Cardinality(Workers)  BY Sizes
  <2> QED  BY <1>2, <2>1, <2>2, SetEmpty DEF PoolOK
<1>5. StopOK
  BY DEF StopOK
<1>6. ASSUME NEW c \in Client
      PROVE  TokenOK(c)
  <2>1. \A t \in Thread : Position(t) = None  BY DEF Position, Thread
  <2>2. \A a \in {"issue", "count", "terminate"} : None # With(a, c)  BY Places, Withs
  <2>3. Counting(c) = {} /\ Handling(c) = {}  BY <2>1, <2>2 DEF Counting, Handling
  <2>4. Thread # {}  BY DEF Thread
  <2>5. Cardinality(Handling(c)) + receiving[c] <= 1  BY <2>3, SetEmpty
  <2> QED  BY <1>2, <2>3, <2>4, <2>5 DEF TokenOK
<1> QED  BY <1>1, <1>3, <1>4, <1>5, <1>6 DEF IInv

LEMMA StutterInv ==
  ASSUME IInv, UNCHANGED vars
  PROVE  IInv'
<1> USE DEF vars
<1>1. Types'  BY DEF IInv, Types
<1>2. RecordsOK'  BY RecordsFrame DEF IInv, perIo
<1>3. PoolOK'  BY PoolFrame DEF IInv
<1>4. StopOK'
  <2>1. Quit' = Quit  BY DEF Quit
  <2> QED  BY <2>1, StopFrame DEF IInv
<1>5. (\A d \in Client : TokenOK(d))'
  <2>1. \A t \in Thread : Position(t)' = Position(t)  BY DEF Position
  <2> QED  BY <2>1, TokenFrame DEF IInv
<1> QED  BY <1>1, <1>2, <1>3, <1>4, <1>5 DEF IInv

(* IInv, which the theorems below rest on, holds in every state: the       *)
(* threads and packets that have to do with a client account for its count,*)
(* and every context that was built is in one place.                       *)
THEOREM Inductive == Spec => []IInv
<1>1. Init => IInv  BY InitInv
<1>2. IInv /\ [Next]_vars => IInv'
  <2> SUFFICES ASSUME IInv, [Next]_vars
               PROVE  IInv'
    OBVIOUS
  <2>1. CASE RunServer  BY <2>1, RunServerStep
  <2>2. CASE \E taken \in [1 .. Cardinality(Workers) -> Context] : StopServer(taken)
    BY <2>2, StopServerStep
  <2>3. CASE InStopServer  BY <2>3, InStopServerStep
  <2>4. CASE AcceptThread  BY <2>4, AcceptThreadStep
  <2>5. CASE \E w \in Workers : WorkerThread(w)  BY <2>5, WorkerThreadStep
  <2>6. CASE \E u \in Users : InSendData(u) \/ \E c \in Client : SendData(u, c)
    BY <2>6, WSASendStep, WSASendFailsStep, CloseFailedStep, SendDataStep DEF InSendData
  <2>7. CASE \E c \in Client : Connect(c) \/ PeerEnds(c)
    BY <2>7, ClientStep
  <2>8. CASE UNCHANGED vars  BY <2>8, StutterInv
  <2> QED  BY <2>1, <2>2, <2>3, <2>4, <2>5, <2>6, <2>7, <2>8 DEF Next
<1> QED  BY <1>1, <1>2, PTL DEF Spec

\* The count of a context that is in use.
LEMMA CountBounds ==
  ASSUME IInv, NEW c \in Client
  PROVE  /\ receiving[c] \in 0 .. 1
         /\ c \in InUse => ctx[key[c]].recv_ref_cnt \in -Cardinality(Workers) .. 1
<1> DEFINE n == Cardinality(Counting(c))
           W == Cardinality(Workers)
<1>1. n \in Nat /\ n <= W + 1 /\ W \in Nat /\ (n = W + 1 => Counting(c) = Thread)
  <2>1. Counting(c) \subseteq Thread  BY DEF Counting
  <2> QED  BY <2>1, SetPart, Sizes
<1>2. receiving[c] \in 0 .. 1
  <2>1. Cardinality(Handling(c)) \in Nat /\ receiving[c] \in Nat
        /\ Cardinality(Handling(c)) + receiving[c] <= 1
    BY FiniteSets1 DEF IInv, TokenOK, Types
  <2> QED  BY <2>1
<1>3. ASSUME c \in InUse
      PROVE  ctx[key[c]].recv_ref_cnt \in -W .. 1
  <2>1. ctx[key[c]].recv_ref_cnt = receiving[c] - n /\ (receiving[c] = 0 => Counting(c) # Thread)
    BY <1>3 DEF IInv, TokenOK
  <2> HIDE DEF n, W
  <2> QED  BY <1>1, <1>2, <2>1
<1> QED  BY <1>2, <1>3

(* Every variable of the Windows server keeps its type and its bounds.     *)
THEOREM TypeCorrect == Spec => []TypeOK
<1>1. IInv => TypeOK
  <2> SUFFICES ASSUME IInv  PROVE  TypeOK  OBVIOUS
  <2>1. cur_quit_cnt_ \in 0 .. Cardinality(Workers)
    <3>1. cur_quit_cnt_ = 0 \/ cur_quit_cnt_ = Cardinality(Quit)  BY DEF IInv, StopOK
    <3> QED  BY <3>1, FiniteSets1, Sizes
  <2>2. client_cnt_ \in 0 .. MaxClients  BY FiniteSets1, Sizes DEF IInv, PoolOK
  <2>3. ctx \in [Context -> [socket : Client \cup {INVALID_SOCKET}, is_connected : BOOLEAN,
                             recv_ref_cnt : -Cardinality(Workers) .. 1]]
    <3> DEFINE Bounded == [socket : Client \cup {INVALID_SOCKET}, is_connected : BOOLEAN,
                           recv_ref_cnt : -Cardinality(Workers) .. 1]
    <3>1. ctx \in [Context -> CtxRecord]  BY DEF IInv, Types, CtxRecord
    <3>2. ASSUME NEW x \in Context
          PROVE  ctx[x] \in Bounded
      <4>1. CASE \E c \in InUse : key[c] = x
        <5>1. ctx[x].recv_ref_cnt \in -Cardinality(Workers) .. 1
          BY <4>1, CountBounds DEF InUse
        <5>2. ctx[x] \in CtxRecord  BY <3>1
        <5> HIDE DEF Bounded
        <5> QED  BY <5>1, <5>2 DEF CtxRecord, Bounded
      <4>2. CASE ~ \E c \in InUse : key[c] = x
        <5>1. ctx[x] = Blank  BY <4>2 DEF IInv, PoolOK
        <5>2. 0 \in -Cardinality(Workers) .. 1  BY Sizes
        <5>3. Blank \in Bounded  BY <5>2 DEF Blank
        <5> QED  BY <5>1, <5>3
      <4> QED  BY <4>1, <4>2
    <3> QED  BY <3>1, <3>2
  <2>4. receiving \in [Client -> 0 .. 1]  BY CountBounds DEF IInv, Types
  <2>5. contexts \in Context \cup {0} /\ quits \subseteq Context
    BY QuitsFinite, Sizes DEF IInv, PoolOK
  <2>6. queue_per_io_data_cache_ \in 0 .. records /\ records \in Nat
        /\ sending \in 0 .. MaxSends + Cardinality(Users)
    BY SMTT(30), FiniteSets1, Sizes DEF IInv, RecordsOK
  <2>7. queue_ctx_cache_ \in Seq(Context)  BY DEF IInv, PoolOK
  <2> QED  BY <2>1, <2>2, <2>3, <2>4, <2>5, <2>6, <2>7
           DEF IInv, Types, TypeOK, AcceptorAt, WorkerAt, SenderAt
<1> QED  BY <1>1, Inductive, PTL

(* A context is in the cache, in an IO_QUIT packet or with one client, and *)
(* what is in the cache is as PushClientContextToCache left it, although   *)
(* several threads put contexts back and a late one writes to its context. *)
THEOREM ExclusiveContexts == Spec => []Exclusive
<1>1. IInv => Exclusive
  <2> SUFFICES ASSUME IInv  PROVE  Exclusive  OBVIOUS
  <2>1. Range(queue_ctx_cache_) \subseteq Context
    <3>1. DOMAIN queue_ctx_cache_ = 1 .. Len(queue_ctx_cache_)
      BY LenProperties DEF IInv, PoolOK
    <3>2. \A i \in 1 .. Len(queue_ctx_cache_) : queue_ctx_cache_[i] \in Context
      BY ElementOfSeq DEF IInv, PoolOK
    <3> QED  BY <3>1, <3>2 DEF Range
  <2> QED  BY <2>1 DEF IInv, PoolOK, Exclusive
<1> QED  BY <1>1, Inductive, PTL

(* recv_ref_cnt is what is outstanding less what is not counted yet, and a *)
(* client has one receive outstanding or one thread that handles it.       *)
THEOREM ReceivesCounted == Spec => []CountsReceives
<1>1. IInv => CountsReceives  BY DEF IInv, TokenOK, CountsReceives
<1> QED  BY <1>1, Inductive, PTL

(* GetCountOfClients is the number of clients that have a context.         *)
THEOREM ClientsCounted == Spec => []CountOfClients
<1>1. IInv => CountOfClients  BY DEF IInv, PoolOK, CountOfClients
<1> QED  BY <1>1, Inductive, PTL

(* The records of sends are in the cache, with a caller or with a send.    *)
THEOREM RecordsCounted == Spec => []RecordsAccounted
<1>1. IInv => RecordsAccounted  BY DEF IInv, RecordsOK, RecordsAccounted, Sending
<1> QED  BY <1>1, Inductive, PTL

-----------------------------------------------------------------------------
(* What the user is told of.                                                *)

\* A client with a context has been reported, and its end has not.
ToldOK == \A c \in InUse : told[c] = "connected"

\* What the server puts for the variable context of ClientCallbacks.
KeysInUse == [c \in InUse |-> key[c]]

LEMMA KeepsTelling ==
  ASSUME ToldOK, UNCHANGED <<told, key>>
  PROVE  ToldOK' /\ UNCHANGED <<told, KeysInUse>>
<1>1. InUse' = InUse  BY DEF InUse
<1> QED  BY <1>1 DEF ToldOK, KeysInUse

LEMMA AcceptTells ==
  ASSUME IInv, ToldOK, NEW c \in Client, NEW x \in Context, Accept(c, x)
  PROVE  ToldOK' /\ Callbacks!OnClientConnected(c, x)
<1>1. /\ told[c] = "nothing" /\ told' = [told EXCEPT ![c] = "connected"]
      /\ key' = [key EXCEPT ![c] = x] /\ acceptor = Accepting
      /\ client_cnt_' = client_cnt_ + 1 /\ PopClientContextFromCache(<<x>>)
      /\ ctx' = [ctx EXCEPT ![x] = [Blank EXCEPT !.socket = c, !.is_connected = TRUE]]
      /\ UNCHANGED <<main, quits>>
  BY DEF Accept, Waits, InAcceptor
<1>2. main # "off"  BY <1>1, Places DEF IInv, StopOK
<1>3. key[c] = 0 /\ \A d \in InUse : key[d] # x  BY <1>1, <1>2, PoolAccept DEF IInv
<1>4. /\ key \in [Client -> Context \cup {0}]
      /\ told \in [Client -> {"nothing", "connected", "disconnected"}]
      /\ 0 \notin Context
  BY Sizes DEF IInv, Types
<1>5. InUse' = InUse \cup {c} /\ c \notin InUse  BY <1>1, <1>3, <1>4 DEF InUse
<1>6. ToldOK'  BY <1>1, <1>4, <1>5 DEF ToldOK
<1>7. KeysInUse' = [d \in DOMAIN KeysInUse \cup {c} |-> IF d = c THEN x ELSE KeysInUse[d]]
  <2>1. DOMAIN KeysInUse = InUse /\ \A d \in InUse : KeysInUse[d] = key[d] /\ key'[d] = key[d]
    BY <1>1, <1>4, <1>5 DEF KeysInUse, InUse
  <2>2. key'[c] = x  BY <1>1, <1>4
  <2> QED  BY <1>5, <2>1, <2>2 DEF KeysInUse
<1>8. x \notin Callbacks!Range(KeysInUse)  BY <1>3 DEF KeysInUse, Callbacks!Range
<1> QED  BY <1>1, <1>6, <1>7, <1>8 DEF Callbacks!OnClientConnected, KeysInUse

\* A client's context goes back to the cache.
LEMMA FreeLeaves ==
  ASSUME IInv, NEW d \in InUse, Free(d)
  PROVE  Callbacks!Leaves(d) /\ InUse' = InUse \ {d}
<1>1. key' = [key EXCEPT ![d] = 0] /\ d \in Client /\ key \in [Client -> Context \cup {0}]
  BY DEF Free, InUse, IInv, Types
<1>2. InUse' = InUse \ {d}  BY <1>1 DEF InUse
<1>3. DOMAIN KeysInUse = InUse  BY DEF KeysInUse
<1>4. KeysInUse' = Callbacks!Restrict(KeysInUse, DOMAIN KeysInUse \ {d})
  <2>1. \A c \in InUse \ {d} : KeysInUse[c] = key[c] /\ key'[c] = key[c]
    BY <1>1 DEF KeysInUse, InUse
  <2> QED  BY <1>2, <1>3, <2>1 DEF KeysInUse, Callbacks!Restrict
<1> QED  BY <1>2, <1>3, <1>4 DEF Callbacks!Leaves, KeysInUse

\* A thread that handles a client: its receive cannot be issued.
LEMMA DropsSilently ==
  ASSUME IInv, ToldOK, NEW t \in Thread, NEW d \in Client, Position(t) = With("issue", d),
         Free(d), UNCHANGED told
  PROVE  ToldOK' /\ Callbacks!Dropped(d)
<1>1. t \in Handling(d)  BY DEF Handling
<1>2. d \in InUse  BY <1>1 DEF IInv, TokenOK
<1>3. Callbacks!Leaves(d) /\ InUse' = InUse \ {d}  BY <1>2, FreeLeaves
<1>4. ToldOK'  BY <1>3 DEF ToldOK
<1> QED  BY <1>3, <1>4 DEF Callbacks!Dropped

LEMMA TerminateTells ==
  ASSUME IInv, ToldOK, NEW w \in Workers, TerminateClient(w)
  PROVE  ToldOK' /\ \E c \in Client : Callbacks!OnClientDisconnected(c)
<1>1. PICK d \in Client : d = worker[w].client /\ worker[w] = With("terminate", d)
  BY WorkerWith DEF TerminateClient
<1>2. told' = [told EXCEPT ![d] = "disconnected"] /\ Free(d) /\ Goes(w, Get) /\ Receives
  BY <1>1 DEF TerminateClient
<1>3. w \in Thread /\ Position(w) = worker[w]  BY <1>2, WorkerMoves DEF IInv, Receives, InWorker
<1>4. w \in Handling(d)  BY <1>1, <1>3 DEF Handling
<1>5. d \in InUse  BY <1>4 DEF IInv, TokenOK
<1>6. Callbacks!Leaves(d) /\ InUse' = InUse \ {d}  BY <1>2, <1>5, FreeLeaves
<1>7. told[d] = "connected"  BY <1>5 DEF ToldOK
<1>8. ToldOK'  BY <1>2, <1>6 DEF ToldOK, InUse, IInv, Types
<1> QED  BY <1>2, <1>6, <1>7, <1>8 DEF Callbacks!OnClientDisconnected

LEMMA AcceptorTells ==
  ASSUME IInv, ToldOK, AcceptThread
  PROVE  ToldOK' /\ (UNCHANGED <<told, KeysInUse>> \/ Callbacks!Next)
<1>1. CASE AcceptThreadStarts \/ AcceptThreadEnds \/ AcceptFails \/ AcceptIssue \/ AcceptCount
  BY <1>1, KeepsTelling
  DEF AcceptThreadStarts, AcceptThreadEnds, AcceptFails, AcceptIssue, AcceptCount
<1>2. CASE \E c \in Client, x \in Context : Accept(c, x)
  BY <1>2, AcceptTells DEF Callbacks!Next
<1>3. CASE AcceptIssueFails
  <2>1. PICK d \in Client : d = acceptor.client /\ acceptor = With("issue", d)
    BY <1>3, Places DEF AcceptIssueFails, IInv, Types
  <2>2. "acceptor" \in Thread /\ Position("acceptor") = With("issue", d)
    BY <2>1 DEF Thread, Position
  <2>3. Free(d) /\ UNCHANGED told  BY <1>3, <2>1 DEF AcceptIssueFails, DropClient
  <2> QED  BY <2>2, <2>3, DropsSilently DEF Callbacks!Next
<1> QED  BY <1>1, <1>2, <1>3 DEF AcceptThread

LEMMA WorkerTells ==
  ASSUME IInv, ToldOK, NEW w \in Workers, WorkerThread(w)
  PROVE  ToldOK' /\ (UNCHANGED <<told, KeysInUse>> \/ Callbacks!Next)
<1>1. CASE \/ \E c \in Client : TakeData(w, c) \/ TakeEnd(w, c)
           \/ TakeSent(w) \/ \E x \in Context : TakeQuit(w, x)
           \/ WorkerIssue(w) \/ WorkerCount(w) \/ QuitCompare(w)
  BY <1>1, KeepsTelling
  DEF TakeData, TakeEnd, TakeSent, TakeQuit, WorkerIssue, WorkerCount, QuitCompare
<1>2. CASE WorkerIssueFails(w)
  <2>1. PICK d \in Client : d = worker[w].client /\ worker[w] = With("issue", d)
    BY <1>2, WorkerWith DEF WorkerIssueFails
  <2>2. Goes(w, Get) /\ Receives /\ UNCHANGED told  BY <1>2 DEF WorkerIssueFails
  <2>3. w \in Thread /\ Position(w) = With("issue", d)
    BY <2>1, <2>2, WorkerMoves DEF IInv, Receives, InWorker
  <2>4. CASE Free(d)  BY <2>2, <2>3, <2>4, DropsSilently DEF Callbacks!Next
  <2>5. CASE UNCHANGED key  BY <2>2, <2>5, KeepsTelling
  <2> QED  BY <1>2, <2>1, <2>4, <2>5 DEF WorkerIssueFails, DropClient
<1>3. CASE TerminateClient(w)  BY <1>3, TerminateTells DEF Callbacks!Next
<1> QED  BY <1>1, <1>2, <1>3 DEF WorkerThread, WorkerGoesOn

LEMMA OthersTell ==
  ASSUME ToldOK,
         \/ RunServer \/ \E taken \in [1 .. Cardinality(Workers) -> Context] : StopServer(taken)
         \/ InStopServer
         \/ \E u \in Users : InSendData(u) \/ \E c \in Client : SendData(u, c)
         \/ \E c \in Client : Connect(c) \/ PeerEnds(c)
         \/ UNCHANGED vars
  PROVE  ToldOK' /\ UNCHANGED <<told, KeysInUse>>
<1>1. UNCHANGED <<told, key>>
  BY DEF RunServer, StopServer, InStopServer, StopServerAccepting, StopServerJoin,
         StopServerReturns, InMain, InSendData, WSASend, WSASendFails, CloseFailed, SendData, InSender,
         Connect, PeerEnds, AtClient, vars
<1> QED  BY <1>1, KeepsTelling

(* OnClientConnected and OnClientDisconnected are called as the user may   *)
(* expect, though a client may go without a word: once each, in this       *)
(* order, and its context is no other client's in between.                 *)
THEOREM ImplementsCallbacks == Spec => IsCallbacks
<1>1. Init => ToldOK /\ Callbacks!Init
  <2> SUFFICES ASSUME Init PROVE ToldOK /\ Callbacks!Init  OBVIOUS
  <2>1. InUse = {} /\ told = [c \in Client |-> "nothing"]  BY DEF Init, InUse
  <2> QED  BY <2>1 DEF ToldOK, Callbacks!Init
<1>2. IInv /\ ToldOK /\ [Next]_vars => ToldOK' /\ [Callbacks!Next]_(Callbacks!vars)
  <2> SUFFICES ASSUME IInv, ToldOK, [Next]_vars
               PROVE  ToldOK' /\ [Callbacks!Next]_(Callbacks!vars)
    OBVIOUS
  <2>1. ToldOK' /\ (UNCHANGED <<told, KeysInUse>> \/ Callbacks!Next)
    BY AcceptorTells, WorkerTells, OthersTell DEF Next
  <2> QED  BY <2>1 DEF Callbacks!vars, KeysInUse
<1>3. Spec => []IInv  BY Inductive
<1> QED  BY <1>1, <1>2, <1>3, PTL DEF Spec, IsCallbacks, Callbacks!Spec

-----------------------------------------------------------------------------
(* What StopServer has posted.                                              *)

Alive == {w \in Workers : worker[w].at \notin {"counted", "none"}}

\* No worker quits before StopServer; then there is a packet for each.
PacketForEach ==
  /\ main = "on" => Alive = Workers
  /\ main \notin {"off", "on"} => Cardinality(quits) = Cardinality(Alive)

LEMMA AliveFinite == IsFiniteSet(Alive) /\ Cardinality(Alive) \in Nat
BY SetPart, WinServerAssumption DEF Alive

\* A step that has no worker quit and posts and takes no packet.
LEMMA KeepsPackets ==
  ASSUME PacketForEach, quits' = quits, Alive' = Alive,
         main' = main \/ (main \notin {"off", "on"} /\ main' \notin {"off", "on"})
  PROVE  PacketForEach'
BY DEF PacketForEach

LEMMA WorkerKeepsPackets ==
  ASSUME IInv, PacketForEach, NEW w \in Workers, WorkerThread(w),
         ~ \E x \in Context : TakeQuit(w, x)
  PROVE  PacketForEach'
<1>1. main' = main /\ quits' = quits
  BY DEF WorkerThread, WorkerGoesOn, TakeData, TakeEnd, TakeSent, WorkerIssue,
         WorkerIssueFails, WorkerCount, TerminateClient, QuitCompare, InWorker, Receives
<1> DEFINE AsAlive(to) ==
             /\ worker' = [worker EXCEPT ![w] = to]
             /\ to.at \in {"counted", "none"} <=> worker[w].at \in {"counted", "none"}
<1>2. worker' = worker \/ \E to : AsAlive(to)
  <2>1. \A c : With("issue", c).at = "issue" /\ With("terminate", c).at = "terminate"
    BY Withs
  <2>2. Get.at = "get" /\ None.at = "none"  BY Places
  <2>3. CASE \E c \in Client : TakeData(w, c) \/ TakeEnd(w, c)
    BY <2>1, <2>2, <2>3 DEF TakeData, TakeEnd, TakesRecv, Goes
  <2>4. CASE TakeSent(w)  BY <2>4 DEF TakeSent
  <2>5. CASE WorkerIssue(w)
    <3> DEFINE to == [worker[w] EXCEPT !.at = "count"]
    <3>1. worker[w] = With("issue", worker[w].client)
      BY <2>5, WorkerWith DEF WorkerIssue
    <3>2. to.at = "count" /\ worker[w].at = "issue"  BY <3>1 DEF With
    <3>3. worker' = [worker EXCEPT ![w] = to]  BY <2>5 DEF WorkerIssue, Goes
    <3> QED  BY <3>2, <3>3
  <2>6. CASE WorkerIssueFails(w) \/ WorkerCount(w) \/ TerminateClient(w)
    BY <2>2, <2>6 DEF WorkerIssueFails, WorkerCount, TerminateClient, Goes
  <2>7. CASE QuitCompare(w)  BY <2>2, <2>7 DEF QuitCompare, Goes
  <2> QED  BY <2>3, <2>4, <2>5, <2>6, <2>7 DEF WorkerThread, WorkerGoesOn
<1>3. ASSUME NEW to, AsAlive(to)  PROVE Alive' = Alive
  <2>1. worker \in [Workers -> WorkerAt]  BY DEF IInv, Types
  <2>2. worker'[w] = to /\ \A v \in Workers : v # w => worker'[v] = worker[v]
    BY <1>3, <2>1
  <2> QED  BY <1>3, <2>2 DEF Alive
<1> HIDE DEF AsAlive
<1>4. Alive' = Alive
  <2>1. CASE worker' = worker  BY <2>1 DEF Alive
  <2> QED  BY <1>2, <1>3, <2>1
<1> QED  BY <1>1, <1>4, KeepsPackets

LEMMA TakeQuitPackets ==
  ASSUME IInv, PacketForEach, NEW w \in Workers, NEW x \in Context, TakeQuit(w, x)
  PROVE  PacketForEach'
<1>1. /\ worker[w] = Get /\ x \in quits /\ quits' = quits \ {x} /\ main' = main
      /\ worker' = [worker EXCEPT ![w] = [at |-> "counted"]]
  BY DEF TakeQuit, InWorker, Goes
<1>2. main \notin {"off", "on"}  BY <1>1 DEF IInv, PoolOK
<1>3. w \in Alive /\ Alive' = Alive \ {w}
  BY <1>1, Places DEF Alive, IInv, Types
<1>4. Cardinality(Alive') = Cardinality(Alive) - 1
  BY <1>3, AliveFinite, SetRemove
<1>5. Cardinality(quits') = Cardinality(quits) - 1
  BY <1>1, QuitsFinite, SetRemove DEF IInv
<1> QED  BY <1>1, <1>2, <1>4, <1>5 DEF PacketForEach

LEMMA StopServerPackets ==
  ASSUME IInv, PacketForEach, NEW taken \in [1 .. Cardinality(Workers) -> Context],
         StopServer(taken)
  PROVE  PacketForEach'
<1> DEFINE W == Cardinality(Workers)
<1>1. /\ main = "on" /\ main' = "posted" /\ PopClientContextFromCache(taken)
      /\ quits' = Range(taken) /\ worker' = worker
  BY DEF StopServer, InMain
<1>2. Alive = Workers /\ Alive' = Workers  BY <1>1 DEF PacketForEach, Alive
<1>3. taken \in Seq(Context) /\ Len(taken) = W /\ W \in Nat \ {0}  BY Sizes
<1>4. W + client_cnt_ + Cardinality(quits) <= MaxClients + W
  <2>1. quits = {} /\ Cardinality(quits) = 0  BY <1>1, SetEmpty DEF IInv, PoolOK
  <2>2. client_cnt_ \in Nat /\ client_cnt_ <= MaxClients  BY FiniteSets1 DEF IInv, PoolOK
  <2> HIDE DEF W
  <2> QED  BY <1>3, <2>1, <2>2, Sizes
<1>5. IsInjective(taken)  BY <1>1, <1>3, <1>4, PopFresh DEF IInv
<1>6. Cardinality(quits') = W  BY <1>1, <1>3, <1>5, RangeOfInjective
<1> QED  BY <1>1, <1>2, <1>6 DEF PacketForEach

(* StopServer posts one IO_QUIT packet for each worker, in a context of its *)
(* own, and no worker quits but by one of them: from then on there are as   *)
(* many packets as workers that have not quit, none waits for one that was  *)
(* never posted, and none is left in the port when the last has taken its.  *)
THEOREM PostsForEachWorker == Spec => []PacketForEach
<1>1. Init => PacketForEach  BY DEF Init, PacketForEach
<1>2. IInv /\ PacketForEach /\ [Next]_vars => PacketForEach'
  <2> SUFFICES ASSUME IInv, PacketForEach, [Next]_vars
               PROVE  PacketForEach'
    OBVIOUS
  <2>1. CASE RunServer
    <3>1. Alive' = Workers  BY <2>1, Places DEF RunServer, Alive
    <3> QED  BY <2>1, <3>1 DEF RunServer, PacketForEach
  <2>2. CASE \E taken \in [1 .. Cardinality(Workers) -> Context] : StopServer(taken)
    BY <2>2, StopServerPackets
  <2>3. CASE InStopServer
    BY <2>3, KeepsPackets DEF InStopServer, StopServerAccepting, StopServerJoin,
                              StopServerReturns, InMain, Alive
  <2>4. CASE AcceptThread
    BY <2>4, KeepsPackets DEF AcceptThread, AcceptThreadStarts, AcceptThreadEnds, AcceptFails,
       Accept, AcceptIssue, AcceptIssueFails, AcceptCount, InAcceptor, Alive
  <2>5. CASE \E w \in Workers : WorkerThread(w)
    BY <2>5, WorkerKeepsPackets, TakeQuitPackets
  <2>6. CASE \E u \in Users : InSendData(u) \/ \E c \in Client : SendData(u, c)
    BY <2>6, KeepsPackets DEF InSendData, WSASend, WSASendFails, CloseFailed, SendData, InSender, life, Alive
  <2>7. CASE \E c \in Client : Connect(c) \/ PeerEnds(c)
    BY <2>7, KeepsPackets DEF Connect, PeerEnds, AtClient, life, Alive
  <2>8. CASE UNCHANGED vars  BY <2>8, KeepsPackets DEF vars, Alive
  <2> QED  BY <2>1, <2>2, <2>3, <2>4, <2>5, <2>6, <2>7, <2>8 DEF Next
<1> QED  BY <1>1, <1>2, Inductive, PTL DEF Spec

(* StopServer returns behind the accept thread and behind every worker's   *)
(* last packet: a worker that has not ended is between the counting and    *)
(* the comparing of those that have quit.                                  *)
THEOREM StopsAll == Spec => []NoThreadAtWork
<1>1. IInv /\ PacketForEach => NoThreadAtWork
  <2> SUFFICES ASSUME IInv, PacketForEach, main = "returned"
               PROVE  /\ acceptor = None /\ quits = {}
                      /\ \A w \in Workers : worker[w].at \in {"counted", "none"}
    BY DEF NoThreadAtWork
  <2>1. acceptor = None /\ Quit = Workers  BY DEF IInv, StopOK
  <2>2. \A w \in Workers : worker[w].at \in {"counted", "none"}  BY <2>1 DEF Quit
  <2>3. Alive = {}  BY <2>2 DEF Alive
  <2>4. Cardinality(quits) = 0  BY <2>3, SetEmpty DEF PacketForEach
  <2>5. quits = {}  BY <2>4, QuitsFinite, SetEmpty DEF IInv
  <2> QED  BY <2>1, <2>2, <2>5
<1> QED  BY <1>1, Inductive, PostsForEachWorker, PTL
=============================================================================
