----------------------------- MODULE ProxyProofs -----------------------------
(***************************************************************************)
(* Theorems about Proxy for all pauses and time limits and every bound of  *)
(* the queue: types and one open connection per client that polls; and,    *)
(* if the proxy keeps pace with prompt servers behind it, that a backlog   *)
(* goes away and that then no request is given up any more.                *)
(***************************************************************************)
EXTENDS Proxy, FiniteSetTheorems, SequenceTheorems, TLAPS

Connections == [of : Clients, open : BOOLEAN]

\* The places of the connections on which c waits for an answer.
OpenOf(c) == {n \in DOMAIN queue : queue[n].of = c /\ queue[n].open}

\* A client that polls has one open connection, others have none; only a connection
\* that is there is served.
QueueInv ==
    /\ \A c \in Clients : at[c] = "poll" <=> OpenOf(c) # {}
    /\ \A c \in Clients : \A n, m \in OpenOf(c) : n = m
    /\ queue = <<>> => work = -1

ClientTypes ==
    /\ at \in [Clients -> {"sleep", "send", "poll"}]
    /\ left \in [Clients -> Nat]
    /\ \A c \in Clients : left[c] <= IF at[c] = "poll" THEN PollLimit ELSE Pause[c]
    /\ answered \in [Clients -> BOOLEAN]

QueueTypes == queue \in Seq(Connections) /\ Len(queue) <= MaxQueue

ServerTypes == /\ work \in Int /\ \E c \in Clients : work \in -1 .. UpstreamLimit[c]
               /\ prompt \in BOOLEAN

Types == ClientTypes /\ QueueTypes /\ ServerTypes

ProxyInv == Types /\ QueueInv

-----------------------------------------------------------------------------
LEMMA ConstantsType ==
  /\ info \in Clients /\ news \in Clients /\ info # news /\ Clients = {info, news}
  /\ PollLimit \in Nat /\ MaxQueue \in Nat /\ Prompt \in Nat
  /\ \A c \in Clients : Pause[c] \in Nat /\ UpstreamLimit[c] \in Nat /\ Prompt <= UpstreamLimit[c]
BY ProxyAssumption DEF Clients

\* What is at each place of the queue after the first connection has gone, and after
\* one has come.
LEMMA TailOfQueue ==
  ASSUME NEW q \in Seq(Connections), q # <<>>
  PROVE  /\ Tail(q) \in Seq(Connections) /\ Len(Tail(q)) = Len(q) - 1
         /\ Len(q) \in Nat \ {0} /\ Head(q) = q[1] /\ Head(q) \in Connections
         /\ \A n \in 1 .. Len(q) - 1 : Tail(q)[n] = q[n + 1]
BY HeadTailProperties, EmptySeq, LenProperties

LEMMA AppendToQueue ==
  ASSUME NEW q \in Seq(Connections), NEW e \in Connections
  PROVE  /\ Append(q, e) \in Seq(Connections) /\ Len(q) \in Nat /\ Len(Append(q, e)) = Len(q) + 1
         /\ \A n \in 1 .. Len(q) : Append(q, e)[n] = q[n]
         /\ Append(q, e)[Len(q) + 1] = e
BY AppendProperties, LenProperties

\* What a request that ends leaves of its client.
LEMMA RestEffect ==
  ASSUME Types, NEW c \in Clients, NEW ok \in BOOLEAN, Rest(c, ok)
  PROVE  /\ at' \in [Clients -> {"sleep", "send", "poll"}] /\ at'[c] = "sleep"
         /\ left' \in [Clients -> Nat] /\ left'[c] = Pause[c]
         /\ answered' \in [Clients -> BOOLEAN] /\ answered'[c] = ok
         /\ \A d \in Clients \ {c} : at'[d] = at[d] /\ left'[d] = left[d] /\ answered'[d] = answered[d]
BY ConstantsType DEF Rest, Types, ClientTypes

\* GiveUp closes the connections of c and leaves the others as they are.
LEMMA CloseEffect ==
  ASSUME Types, NEW c \in Clients, GiveUp(c)
  PROVE  /\ queue' \in Seq(Connections) /\ Len(queue') = Len(queue) /\ Len(queue) \in Nat
         /\ \A n \in 1 .. Len(queue) : /\ queue'[n].of = queue[n].of
                                       /\ queue'[n].open <=> queue[n].open /\ queue[n].of # c
<1>1. /\ queue' = [n \in 1 .. Len(queue) |-> [queue[n] EXCEPT !.open = @ /\ queue[n].of # c]]
      /\ Len(queue) \in Nat /\ \A n \in 1 .. Len(queue) : queue[n] \in Connections
  BY LenProperties, ElementOfSeq DEF GiveUp, Types, QueueTypes
<1>2. \A n \in 1 .. Len(queue) : [queue[n] EXCEPT !.open = @ /\ queue[n].of # c] \in Connections
  BY <1>1 DEF Connections
<1>3. queue' \in Seq(Connections) /\ Len(queue') = Len(queue)
  BY <1>1, <1>2, IsASeq, LenProperties
<1>4. \A n \in 1 .. Len(queue) : /\ queue'[n].of = queue[n].of
                                 /\ queue'[n].open <=> queue[n].open /\ queue[n].of # c
  BY <1>1 DEF Connections
<1> QED BY <1>1, <1>3, <1>4

LEMMA TypesKept == ASSUME ProxyInv, [Next]_vars PROVE Types'
<1>0. Types /\ ClientTypes /\ QueueTypes /\ ServerTypes /\ QueueInv
  BY DEF ProxyInv, Types
<1>1. ClientTypes'
  <2>0. ClientTypes
    BY <1>0
  <2>1. ASSUME NEW c \in Clients, Send(c) PROVE ClientTypes'
    <3>1. /\ at' \in [Clients -> {"sleep", "send", "poll"}] /\ at'[c] = "poll"
          /\ left' \in [Clients -> Nat] /\ left'[c] = PollLimit /\ answered' = answered
          /\ \A d \in Clients \ {c} : at'[d] = at[d] /\ left'[d] = left[d]
      BY <2>0, <2>1, ConstantsType DEF Send, ClientTypes
    <3> QED BY <2>0, <3>1, ConstantsType DEF ClientTypes
  <2>2. ASSUME NEW c \in Clients, NEW ok \in BOOLEAN, Rest(c, ok) PROVE ClientTypes'
    BY <1>0, <2>2, RestEffect, ConstantsType DEF ClientTypes
  <2>3. ASSUME NEW c \in Clients, Wake(c) PROVE ClientTypes'
    <3>1. /\ at' \in [Clients -> {"sleep", "send", "poll"}] /\ at'[c] = "send" /\ left[c] = 0
          /\ UNCHANGED <<left, answered>>
          /\ \A d \in Clients \ {c} : at'[d] = at[d]
      BY <2>0, <2>3 DEF Wake, ClientTypes
    <3> QED BY <2>0, <3>1, ConstantsType DEF ClientTypes
  <2>4. CASE Second
    <3>1. \A c \in Clients : left'[c] \in Nat /\ left'[c] <= left[c]
      BY <2>0, <2>4 DEF Second, ClientTypes
    <3>2. left' \in [Clients -> Nat] /\ UNCHANGED <<at, answered>>
      BY <2>4, <3>1 DEF Second
    <3> QED BY <2>0, <3>1, <3>2, ConstantsType DEF ClientTypes
  <2>5. CASE UNCHANGED <<at, left, answered>>
    BY <2>0, <2>5 DEF ClientTypes
  <2>6. ASSUME Respond, Head(queue).open PROVE ClientTypes'
    <3>1. queue # <<>>
      BY <1>0, <2>6 DEF Respond, QueueInv
    <3>2. Head(queue).of \in Clients
      BY <1>0, <3>1, TailOfQueue DEF QueueTypes, Connections
    <3> QED BY <2>2, <2>6, <3>2 DEF Respond
  <2> QED BY <2>1, <2>2, <2>3, <2>4, <2>5, <2>6
          DEF Next, Steps, Client, Server, GiveUp, Serve, Respond, BecomePrompt, vars
<1>2. QueueTypes'
  <2>1. ASSUME NEW c \in Clients, Send(c) PROVE QueueTypes'
    <3>1. [of |-> c, open |-> TRUE] \in Connections
      BY DEF Connections
    <3> QED BY <1>0, <2>1, <3>1, AppendToQueue, ConstantsType DEF Send, MaySend, QueueTypes
  <2>2. ASSUME NEW c \in Clients, GiveUp(c) PROVE QueueTypes'
    BY <1>0, <2>2, CloseEffect DEF QueueTypes
  <2>3. CASE Respond
    <3>1. queue # <<>> /\ queue' = Tail(queue)
      BY <1>0, <2>3 DEF Respond, QueueInv
    <3> QED BY <1>0, <3>1, TailOfQueue, ConstantsType DEF QueueTypes
  <2>4. CASE UNCHANGED queue
    BY <1>0, <2>4 DEF QueueTypes
  <2> QED BY <2>1, <2>2, <2>3, <2>4
          DEF Next, Steps, Client, Server, Wake, Serve, Second, BecomePrompt, vars
<1>3. ServerTypes'
  <2>0. ServerTypes
    BY <1>0
  <2>1. CASE Serve
    <3>1. Head(queue).of \in Clients
      BY <1>0, <2>1, TailOfQueue DEF Serve, QueueTypes, Connections
    <3>2. 0 .. Prompt \subseteq 0 .. UpstreamLimit[Head(queue).of]
      BY <3>1, ConstantsType
    <3>3. work' \in 0 .. UpstreamLimit[Head(queue).of] /\ prompt' = prompt
      BY <2>1, <3>2 DEF Serve
    <3> QED BY <2>0, <3>1, <3>3, ConstantsType DEF ServerTypes
  <2>2. CASE Respond
    BY <2>0, <2>2, ConstantsType DEF Respond, ServerTypes
  <2>3. CASE Second
    <3>1. PICK c \in Clients : work \in -1 .. UpstreamLimit[c]
      BY <2>0 DEF ServerTypes
    <3>2. work' \in -1 .. UpstreamLimit[c] /\ prompt' = prompt
      BY <2>3, <3>1, ConstantsType DEF Second
    <3> QED BY <2>0, <3>2 DEF ServerTypes
  <2>4. CASE UNCHANGED work /\ prompt' \in BOOLEAN
    BY <2>0, <2>4 DEF ServerTypes
  <2> QED BY <2>0, <2>1, <2>2, <2>3, <2>4
          DEF Next, Steps, Client, Server, Send, GiveUp, Wake, BecomePrompt, vars, ServerTypes
<1> QED BY <1>1, <1>2, <1>3 DEF Types

LEMMA QueueKept == ASSUME ProxyInv, [Next]_vars PROVE QueueInv'
<1>0. /\ Types /\ QueueInv
      /\ queue \in Seq(Connections) /\ DOMAIN queue = 1 .. Len(queue) /\ Len(queue) \in Nat
      /\ at \in [Clients -> {"sleep", "send", "poll"}]
  BY LenProperties DEF ProxyInv, Types, QueueTypes, ClientTypes
<1>1. ASSUME NEW c \in Clients, Send(c) PROVE QueueInv'
  <2> DEFINE new == Len(queue) + 1
             e == [of |-> c, open |-> TRUE]
  <2>1. e \in Connections /\ queue' = Append(queue, e) /\ OpenOf(c) = {}
    BY <1>0, <1>1 DEF Send, Connections, QueueInv
  <2>2. /\ DOMAIN queue' = 1 .. new
        /\ \A n \in 1 .. Len(queue) : queue'[n] = queue[n]
        /\ queue'[new] = e
    BY <1>0, <2>1, AppendToQueue, LenProperties
  <2>3. OpenOf(c)' = {new}
    BY <1>0, <2>1, <2>2 DEF OpenOf
  <2>4. \A d \in Clients \ {c} : OpenOf(d)' = OpenOf(d)
    BY <1>0, <2>1, <2>2 DEF OpenOf
  <2>5. at'[c] = "poll" /\ \A d \in Clients \ {c} : at'[d] = at[d]
    BY <1>0, <1>1 DEF Send
  <2>6. queue' # <<>>
    BY <2>2, <1>0
  <2>7. \A d \in Clients : at'[d] = "poll" <=> OpenOf(d)' # {}
    BY <1>0, <2>3, <2>4, <2>5 DEF QueueInv
  <2>8. \A d \in Clients : \A n, m \in OpenOf(d)' : n = m
    BY <1>0, <2>3, <2>4 DEF QueueInv
  <2> QED BY <2>6, <2>7, <2>8 DEF QueueInv
<1>2. ASSUME NEW c \in Clients, GiveUp(c) PROVE QueueInv'
  <2>1. DOMAIN queue' = DOMAIN queue /\ (queue' = <<>> => queue = <<>>)
    BY <1>0, <1>2, CloseEffect, LenProperties, EmptySeq
  <2>2. OpenOf(c)' = {} /\ \A d \in Clients \ {c} : OpenOf(d)' = OpenOf(d)
    BY <1>0, <1>2, <2>1, CloseEffect DEF OpenOf
  <2>3. at'[c] = "sleep" /\ (\A d \in Clients \ {c} : at'[d] = at[d]) /\ work' = work
    BY <1>0, <1>2, RestEffect DEF GiveUp
  <2> QED BY <1>0, <2>1, <2>2, <2>3 DEF QueueInv
<1>3. ASSUME NEW c \in Clients, Wake(c) PROVE QueueInv'
  <2>1. at[c] = "sleep" /\ at'[c] = "send" /\ (\A d \in Clients \ {c} : at'[d] = at[d])
    BY <1>0, <1>3 DEF Wake
  <2>2. (\A d \in Clients : OpenOf(d)' = OpenOf(d)) /\ UNCHANGED <<queue, work>>
    BY <1>3 DEF Wake, OpenOf
  <2> QED BY <1>0, <2>1, <2>2 DEF QueueInv
<1>4. CASE Respond
  <2>1. queue # <<>> /\ queue' = Tail(queue)
    BY <1>0, <1>4 DEF Respond, QueueInv
  <2>2. /\ DOMAIN queue' = 1 .. Len(queue) - 1 /\ Head(queue) = queue[1] /\ queue[1].of \in Clients
        /\ \A n \in 1 .. Len(queue) - 1 : queue'[n] = queue[n + 1]
        /\ Len(queue) > 0
    <3>1. /\ Tail(queue) \in Seq(Connections) /\ Len(Tail(queue)) = Len(queue) - 1
          /\ Len(queue) \in Nat \ {0} /\ Head(queue) = queue[1] /\ Head(queue) \in Connections
          /\ \A n \in 1 .. Len(queue) - 1 : Tail(queue)[n] = queue[n + 1]
      BY <1>0, <2>1, TailOfQueue
    <3>2. DOMAIN Tail(queue) = 1 .. Len(Tail(queue)) /\ queue[1].of \in Clients
      BY <3>1, LenProperties DEF Connections
    <3> QED BY <2>1, <3>1, <3>2
  <2>3. \A d \in Clients : OpenOf(d)' = {n \in 1 .. Len(queue) - 1 : n + 1 \in OpenOf(d)}
    BY <1>0, <2>2 DEF OpenOf
  <2>4. \A d \in Clients : \A n, m \in OpenOf(d)' : n = m
    BY <1>0, <2>3 DEF QueueInv
  <2>5. CASE queue[1].open
    <3>0. PICK c \in Clients : c = queue[1].of
      BY <2>2
    <3>1. Rest(c, TRUE)
      BY <1>4, <2>2, <2>5, <3>0 DEF Respond
    <3>2. at'[c] = "sleep" /\ \A d \in Clients \ {c} : at'[d] = at[d]
      BY <1>0, <3>1, RestEffect
    <3>3. 1 \in OpenOf(c) /\ \A d \in Clients \ {c} : 1 \notin OpenOf(d)
      BY <1>0, <2>2, <2>5, <3>0 DEF OpenOf
    <3>4. OpenOf(c)' = {}
      <4>1. \A n \in OpenOf(c) : n = 1
        BY <1>0, <3>3 DEF QueueInv
      <4> QED BY <1>0, <2>3, <4>1
    <3>5. \A d \in Clients \ {c} : OpenOf(d)' # {} <=> OpenOf(d) # {}
      <4> SUFFICES ASSUME NEW d \in Clients \ {c} PROVE OpenOf(d)' # {} <=> OpenOf(d) # {}
        OBVIOUS
      <4>1. ASSUME NEW n \in OpenOf(d) PROVE n - 1 \in OpenOf(d)'
        BY <1>0, <2>3, <3>3, <4>1 DEF OpenOf
      <4> QED BY <2>3, <4>1
    <3>6. \A d \in Clients : at'[d] = "poll" <=> OpenOf(d)' # {}
      BY <1>0, <3>2, <3>4, <3>5 DEF QueueInv
    <3>7. work' = -1
      BY <1>4 DEF Respond
    <3> QED BY <2>4, <3>6, <3>7 DEF QueueInv
  <2>6. CASE ~queue[1].open
    <3>1. UNCHANGED <<at, left, answered>> /\ work' = -1
      BY <1>4, <2>2, <2>6 DEF Respond
    <3>2. ASSUME NEW d \in Clients PROVE OpenOf(d)' # {} <=> OpenOf(d) # {}
      <4>1. 1 \notin OpenOf(d)
        BY <2>6 DEF OpenOf
      <4>2. ASSUME NEW n \in OpenOf(d) PROVE n - 1 \in OpenOf(d)'
        <5>1. n \in 1 .. Len(queue) /\ n # 1
          BY <1>0, <4>1, <4>2 DEF OpenOf
        <5>2. n - 1 \in 1 .. Len(queue) - 1 /\ (n - 1) + 1 = n
          BY <1>0, <5>1
        <5> QED BY <2>3, <4>2, <5>2
      <4> QED BY <2>3, <4>2
    <3> QED BY <1>0, <2>4, <3>1, <3>2 DEF QueueInv
  <2> QED BY <2>5, <2>6
<1>5. CASE Serve \/ Second \/ BecomePrompt \/ UNCHANGED vars
  <2>1. UNCHANGED <<at, queue>> /\ (queue = <<>> /\ work = -1 => work' = work)
    BY <1>5 DEF Serve, Second, BecomePrompt, vars
  <2>2. \A d \in Clients : OpenOf(d)' = OpenOf(d)
    BY <2>1 DEF OpenOf
  <2> QED BY <1>0, <2>1, <2>2 DEF QueueInv
<1> QED BY <1>1, <1>2, <1>3, <1>4, <1>5 DEF Next, Steps, Client, Server

LEMMA ProxyInvAlways == Spec => []ProxyInv
<1>1. Init => ProxyInv
  <2> SUFFICES ASSUME Init PROVE ProxyInv
    OBVIOUS
  <2>1. queue = <<>> /\ <<>> \in Seq(Connections) /\ Len(<<>>) = 0 /\ DOMAIN queue = {}
    BY EmptySeq, LenProperties DEF Init
  <2>2. ClientTypes
    BY ConstantsType DEF Init, ClientTypes
  <2>3. QueueTypes
    BY <2>1, ConstantsType DEF QueueTypes
  <2>4. ServerTypes
    <3>1. work = -1 /\ prompt \in BOOLEAN /\ info \in Clients
      BY ConstantsType DEF Init
    <3>2. work \in Int /\ work \in -1 .. UpstreamLimit[info]
      BY <3>1, ConstantsType
    <3> QED BY <3>1, <3>2 DEF ServerTypes
  <2>5. QueueInv
    BY <2>1 DEF Init, QueueInv, OpenOf
  <2> QED BY <2>2, <2>3, <2>4, <2>5 DEF ProxyInv, Types
<1>2. ProxyInv /\ [Next]_vars => ProxyInv'
  BY TypesKept, QueueKept DEF ProxyInv
<1> QED BY <1>1, <1>2, PTL DEF Spec

\* A client that polls has one open connection in the queue and others have none, so
\* that no answer reaches a request that does not wait for it, whatever is given up
\* and served late.
THEOREM OneOpenConnection == Spec => []TypeOK
<1>1. ProxyInv => TypeOK
  <2> SUFFICES ASSUME ProxyInv PROVE TypeOK
    OBVIOUS
  <2>1. Types /\ QueueInv
    BY DEF ProxyInv
  <2>2. ASSUME NEW c \in Clients
        PROVE  Cardinality(OpenOf(c)) = IF at[c] = "poll" THEN 1 ELSE 0
    <3>1. CASE at[c] = "poll"
      <4>1. PICK n \in OpenOf(c) : TRUE
        BY <2>1, <3>1 DEF QueueInv
      <4>2. OpenOf(c) = {n}
        BY <2>1, <4>1 DEF QueueInv
      <4> QED BY <3>1, <4>2, FS_Singleton
    <3>2. CASE at[c] # "poll"
      BY <2>1, <3>2, FS_EmptySet DEF QueueInv
    <3> QED BY <3>1, <3>2
  <2> QED BY <2>1, <2>2, ConstantsType
          DEF Types, ClientTypes, QueueTypes, ServerTypes, TypeOK, OpenOf, Connections
<1> QED BY <1>1, ProxyInvAlways, PTL

-----------------------------------------------------------------------------
(***************************************************************************)
(* Once the servers behind the proxy are prompt.                           *)
(***************************************************************************)
\* The facts about types that the arithmetic below needs.
LEMMA Numbers ==
  ASSUME ProxyInv
  PROVE  /\ queue \in Seq(Connections) /\ Len(queue) \in Nat /\ DOMAIN queue = 1 .. Len(queue)
         /\ work \in Int /\ work >= -1 /\ First \in Nat
         /\ \A n \in 1 .. Len(queue) : queue[n].of \in Clients
         /\ queue # <<>> => Len(queue) > 0
         /\ at \in [Clients -> {"sleep", "send", "poll"}] /\ left \in [Clients -> Nat]
         /\ \A c \in Clients : left[c] <= IF at[c] = "poll" THEN PollLimit ELSE Pause[c]
<1>1. ClientTypes /\ QueueTypes /\ ServerTypes
  BY DEF ProxyInv, Types
<1>2. queue \in Seq(Connections) /\ Len(queue) \in Nat /\ DOMAIN queue = 1 .. Len(queue)
  BY <1>1, LenProperties DEF QueueTypes
<1>3. \A n \in 1 .. Len(queue) : queue[n].of \in Clients
  <2> SUFFICES ASSUME NEW n \in 1 .. Len(queue) PROVE queue[n].of \in Clients
    OBVIOUS
  <2>1. queue[n] \in Connections
    BY <1>2, ElementOfSeq
  <2> QED BY <2>1 DEF Connections
<1>4. queue # <<>> => Len(queue) > 0
  BY <1>2, TailOfQueue
<1>5. work \in Int /\ work >= -1
  BY <1>1, ConstantsType DEF ServerTypes
<1>6. First \in Nat
  BY <1>5, ConstantsType DEF First
<1> QED BY <1>1, <1>2, <1>3, <1>4, <1>5, <1>6 DEF ClientTypes

LEMMA ProductNat == \A a, b \in Nat : a * b \in Nat
OBVIOUS

LEMMA OneMore == \A a \in Nat, b \in Int : a * (b + 1) = a * b + a
OBVIOUS

\* No client whose request is in a queue that has caught up runs out of patience.
LEMMA NobodyGivesUp ==
  ASSUME ProxyInv, CaughtUp, NEW c \in Clients, at[c] = "poll"
  PROVE  left[c] > 0
<1>1. PICK n \in OpenOf(c) : TRUE
  BY DEF ProxyInv, QueueInv
<1>2. n \in 1 .. Len(queue) /\ queue[n].of = c
  BY <1>1, Numbers DEF OpenOf
<1>3. First + Prompt * (n - 1) < left[c]
  BY <1>2, Numbers DEF CaughtUp
<1>4. Prompt * (n - 1) \in Nat
  BY <1>2, ProductNat, ConstantsType
<1> QED BY <1>3, <1>4, Numbers

\* In a queue that has caught up there are no two requests of one client.
LEMMA OneEach ==
  ASSUME ProxyInv, CaughtUp, NEW n \in 1 .. Len(queue), NEW m \in 1 .. Len(queue),
         queue[n].of = queue[m].of
  PROVE  n = m
<1>1. PICK c \in Clients : c = queue[n].of
  BY Numbers
<1>2. n \in OpenOf(c) /\ m \in OpenOf(c)
  BY <1>1, Numbers DEF CaughtUp, OpenOf
<1> QED BY <1>2 DEF ProxyInv, QueueInv

LEMMA CaughtUpKept ==
  ASSUME KeepsPace, ProxyInv, CaughtUp, [Next]_vars
  PROVE  CaughtUp'
<1> USE DEF CaughtUp
<1>0. /\ prompt /\ work <= Prompt
      /\ \A n \in 1 .. Len(queue) : /\ queue[n].open /\ queue[n].of \in Clients
                                    /\ First + Prompt * (n - 1) < left[queue[n].of]
  BY Numbers
<1>1. ASSUME NEW c \in Clients, Send(c) PROVE CaughtUp'
  <2> DEFINE e == [of |-> c, open |-> TRUE]
             new == Len(queue) + 1
  <2>1. e \in Connections /\ queue' = Append(queue, e) /\ UNCHANGED <<work, prompt>>
    BY <1>1 DEF Send, Connections
  <2>2. /\ DOMAIN queue' = 1 .. new
        /\ \A n \in 1 .. Len(queue) : queue'[n] = queue[n]
        /\ queue'[new] = e
    BY <2>1, Numbers, AppendToQueue, LenProperties
  <2>3. left'[c] = PollLimit /\ \A d \in Clients \ {c} : left'[d] = left[d]
    BY <1>1, Numbers DEF Send
  <2>4. \A n \in 1 .. Len(queue) : queue[n].of # c
    <3>1. OpenOf(c) = {}
      BY <1>1 DEF Send, ProxyInv, QueueInv
    <3> QED BY <1>0, <3>1, Numbers DEF OpenOf
  <2>5. Len(queue) < 2
    <3>1. ASSUME Len(queue) >= 2 PROVE FALSE
      <4>1. 1 \in 1 .. Len(queue) /\ 2 \in 1 .. Len(queue)
        BY <3>1, Numbers
      <4>2. queue[1].of = queue[2].of
        BY <1>0, <2>4, <4>1, ConstantsType
      <4> QED BY <4>1, <4>2, OneEach
    <3> QED BY <3>1, Numbers
  <2>6. First' = First /\ First <= Prompt
    BY <1>0, <2>1, ConstantsType DEF First
  <2>7. First + Prompt * (new - 1) < PollLimit
    <3>1. new - 1 = 0 \/ new - 1 = 1
      BY <2>5, Numbers
    <3>2. Prompt * 0 = 0 /\ Prompt * 1 = Prompt
      BY ConstantsType
    <3> QED BY <2>6, <3>1, <3>2, Numbers, ConstantsType DEF KeepsPace
  <2>8. ASSUME NEW n \in 1 .. new
        PROVE  queue'[n].open /\ First' + Prompt * (n - 1) < left'[queue'[n].of]
    <3>1. CASE n = new
      BY <2>2, <2>3, <2>6, <2>7, <3>1
    <3>2. CASE n \in 1 .. Len(queue)
      BY <1>0, <2>2, <2>3, <2>4, <2>6, <3>2
    <3> QED BY <3>1, <3>2, Numbers
  <2> QED BY <1>0, <2>1, <2>2, <2>8
<1>2. ASSUME NEW c \in Clients, GiveUp(c) PROVE CaughtUp'
  BY <1>2, NobodyGivesUp DEF GiveUp
<1>3. CASE Serve
  <2>1. First = Prompt /\ work' \in 0 .. Prompt /\ UNCHANGED <<queue, left, prompt>>
    BY <1>0, <1>3 DEF Serve, First
  <2>2. First' \in Nat /\ First' <= First
    <3>1. work' \in Nat /\ work' <= Prompt
      BY <2>1, ConstantsType
    <3>2. First' = work'
      BY <3>1 DEF First
    <3> QED BY <2>1, <3>1, <3>2
  <2>3. \A n \in 1 .. Len(queue) : First' + Prompt * (n - 1) < left[queue[n].of]
    <3> SUFFICES ASSUME NEW n \in 1 .. Len(queue)
                 PROVE  First' + Prompt * (n - 1) < left[queue[n].of]
      OBVIOUS
    <3>1. Prompt * (n - 1) \in Nat /\ left[queue[n].of] \in Nat
      BY <1>0, ProductNat, ConstantsType, Numbers
    <3> QED BY <1>0, <2>2, <3>1, Numbers
  <2> QED BY <1>0, <2>1, <2>3, ConstantsType, Numbers
<1>4. CASE Respond
  <2>1. queue # <<>> /\ queue' = Tail(queue) /\ work = 0 /\ work' = -1 /\ prompt' = prompt
    BY <1>4 DEF Respond, ProxyInv, QueueInv
  <2>2. /\ DOMAIN queue' = 1 .. Len(queue) - 1 /\ Head(queue) = queue[1]
        /\ 1 \in 1 .. Len(queue)
        /\ \A n \in 1 .. Len(queue) - 1 : queue'[n] = queue[n + 1]
    <3>1. /\ Tail(queue) \in Seq(Connections) /\ Len(Tail(queue)) = Len(queue) - 1
          /\ Len(queue) \in Nat \ {0} /\ Head(queue) = queue[1]
          /\ \A n \in 1 .. Len(queue) - 1 : Tail(queue)[n] = queue[n + 1]
      BY <2>1, Numbers, TailOfQueue
    <3>2. DOMAIN Tail(queue) = 1 .. Len(Tail(queue))
      BY <3>1, LenProperties
    <3> QED BY <2>1, <3>1, <3>2
  <2>3. PICK c \in Clients : c = queue[1].of
    BY <1>0, <2>2
  <2>4. Rest(c, TRUE)
    BY <1>0, <1>4, <2>2, <2>3 DEF Respond
  <2>5. \A d \in Clients \ {c} : left'[d] = left[d]
    BY <2>4, RestEffect DEF ProxyInv
  <2>6. First = 0 /\ First' = Prompt
    BY <2>1 DEF First
  <2>7. ASSUME NEW n \in 1 .. Len(queue) - 1
        PROVE  queue'[n].open /\ First' + Prompt * (n - 1) < left'[queue'[n].of]
    <3>1. n + 1 \in 1 .. Len(queue) /\ n + 1 # 1 /\ queue'[n] = queue[n + 1]
      BY <2>2, Numbers
    <3>2. queue[n + 1].of # c
      BY <2>2, <2>3, <3>1, OneEach
    <3>3. First + Prompt * ((n + 1) - 1) < left[queue[n + 1].of]
      BY <1>0, <3>1
    <3>4. Prompt * ((n + 1) - 1) = Prompt * (n - 1) + Prompt
      <4>1. (n + 1) - 1 = (n - 1) + 1 /\ n - 1 \in Int
        BY Numbers
      <4> QED BY <4>1, OneMore, ConstantsType
    <3>5. Prompt * (n - 1) \in Nat
      BY ProductNat, ConstantsType, Numbers
    <3> QED BY <1>0, <2>5, <2>6, <3>1, <3>2, <3>3, <3>4, <3>5, ConstantsType
  <2>8. work' <= Prompt
    BY <2>1, ConstantsType
  <2> QED BY <1>0, <2>1, <2>2, <2>7, <2>8
<1>5. CASE Second
  <2>1. UNCHANGED <<queue, prompt>> /\ work' <= work /\ work' \in Int
    BY <1>5, Numbers DEF Second
  <2>2. ASSUME NEW n \in 1 .. Len(queue)
        PROVE  First' + Prompt * (n - 1) < left'[queue[n].of]
    <3>1. work > 0
      BY <1>5, <2>2, Numbers, EmptySeq DEF Second
    <3>2. First' = First - 1
      BY <1>5, <3>1, Numbers DEF Second, First
    <3>3. First + Prompt * (n - 1) < left[queue[n].of] /\ queue[n].of \in Clients
      BY <1>0
    <3>4. Prompt * (n - 1) \in Nat /\ First \in Nat /\ left[queue[n].of] \in Nat
      BY <3>3, ProductNat, ConstantsType, Numbers
    <3>5. left'[queue[n].of] = left[queue[n].of] - 1
      BY <1>5, <3>3, <3>4 DEF Second
    <3> QED BY <3>2, <3>3, <3>4, <3>5
  <2>3. work' <= Prompt /\ DOMAIN queue' = 1 .. Len(queue)
    BY <1>0, <2>1, Numbers, ConstantsType
  <2> QED BY <1>0, <2>1, <2>2, <2>3
<1>6. CASE (\E c \in Clients : Wake(c)) \/ BecomePrompt \/ UNCHANGED vars
  BY <1>0, <1>6 DEF Wake, BecomePrompt, vars, First
<1> QED BY <1>1, <1>2, <1>3, <1>4, <1>5, <1>6 DEF Next, Steps, Client, Server

\* Once the proxy has caught up with its clients, it answers every request in time,
\* for ever, if the servers behind it stay prompt.
THEOREM CaughtUpForGood == KeepsPace => (Spec => StaysCaughtUp)
<1> DEFINE Stays == CaughtUp => /\ CaughtUp'
                                /\ \A c \in Clients : at[c] = "poll" /\ at'[c] # "poll" => answered'[c]
<1> SUFFICES ASSUME KeepsPace PROVE Spec => StaysCaughtUp
  OBVIOUS
<1>1. ProxyInv /\ [Next]_vars => [Stays]_vars
  <2> SUFFICES ASSUME ProxyInv, Next, CaughtUp,
                      NEW c \in Clients, at[c] = "poll", at'[c] # "poll"
               PROVE  answered'[c]
    BY CaughtUpKept
  <2>1. ASSUME NEW d \in Clients, Send(d) \/ Wake(d) PROVE FALSE
    BY <2>1, Numbers DEF Send, Wake
  <2>2. ASSUME NEW d \in Clients, GiveUp(d) PROVE FALSE
    BY <2>2, NobodyGivesUp DEF GiveUp
  <2>3. CASE Respond
    <3>1. queue # <<>>
      BY <2>3 DEF Respond, ProxyInv, QueueInv
    <3>2. PICK d \in Clients : d = Head(queue).of
      BY <3>1, Numbers, TailOfQueue DEF Connections
    <3>3. Rest(d, TRUE)
      BY <2>3, <3>2 DEF Respond
    <3> QED BY <3>3, RestEffect DEF ProxyInv
  <2>4. ~(Serve \/ Second \/ BecomePrompt)
    BY DEF Serve, Second, BecomePrompt
  <2> QED BY <2>1, <2>2, <2>3, <2>4 DEF Next, Steps, Client, Server
<1> QED BY <1>1, ProxyInvAlways, PTL DEF Spec, StaysCaughtUp

-----------------------------------------------------------------------------
(***************************************************************************)
(* Load as a function of the backlog and of what the clients have rested.  *)
(***************************************************************************)
Weight(b, x, y) == Pause[info] * Pause[news] * b + Prompt * (Pause[news] * x + Pause[info] * y)

LEMMA WeightOfLoad == Load = Weight(Backlog, Rested(info), Rested(news))
BY DEF Load, Weight

\* Sending makes of the seconds rested a request of Prompt seconds.
LEMMA WeightOfSend ==
  ASSUME NEW b \in Int, NEW x \in Int, NEW y \in Int
  PROVE  /\ Weight(b + Prompt, 0, y) = Weight(b, Pause[info], y)
         /\ Weight(b + Prompt, x, 0) = Weight(b, x, Pause[news])
<1>1. Pause[info] \in Nat /\ Pause[news] \in Nat /\ Prompt \in Nat
  BY ConstantsType
<1>2. \A p, n, q \in Nat :
        /\ p * n * (b + q) + q * (n * 0 + p * y) = p * n * b + q * (n * p + p * y)
        /\ p * n * (b + q) + q * (n * x + p * 0) = p * n * b + q * (n * x + p * n)
  OBVIOUS
<1> QED BY <1>1, <1>2 DEF Weight

\* Less work weighs less, as do fewer seconds rested; a second that works off one and
\* adds one rested second for each client takes Spare away.
LEMMA WeightOfSecond ==
  ASSUME NEW b \in Int, NEW x \in Int, NEW y \in Int
  PROVE  /\ \A c \in Int : c <= b => Weight(c, x, y) <= Weight(b, x, y)
         /\ \A u, v \in Int : u <= x /\ v <= y => Weight(b, u, v) <= Weight(b, x, y)
         /\ Weight(b - 1, x + 1, y + 1) = Weight(b, x, y) - Spare
         /\ Weight(b, x, y) \in Int
         /\ b >= 0 /\ x >= 0 /\ y >= 0 => Weight(b, x, y) >= 0
<1>1. Pause[info] \in Nat /\ Pause[news] \in Nat /\ Prompt \in Nat
  BY ConstantsType
<1>2. \A p, q \in Nat : p * q \in Nat
  OBVIOUS
<1>3. \A k \in Nat : \A i, j \in Int : i <= j => k * i <= k * j
  OBVIOUS
<1>4. \A k \in Nat : \A i \in Int : k * i \in Int /\ (i >= 0 => k * i >= 0)
  OBVIOUS
<1>5. \A p, n, q \in Nat :
        p * n * (b - 1) + q * (n * (x + 1) + p * (y + 1))
          = p * n * b + q * (n * x + p * y) - (p * n - q * (p + n))
  OBVIOUS
<1> DEFINE k == Pause[info] * Pause[news]
<1>6. k \in Nat
  BY <1>1, <1>2
<1>7. ASSUME NEW c \in Int, c <= b PROVE Weight(c, x, y) <= Weight(b, x, y)
  <2>1. k * c <= k * b /\ k * c \in Int /\ k * b \in Int
    BY <1>3, <1>4, <1>6, <1>7
  <2>2. Prompt * (Pause[news] * x + Pause[info] * y) \in Int
    BY <1>1, <1>4
  <2> HIDE DEF k
  <2> QED BY <2>1, <2>2 DEF Weight, k
<1>8. ASSUME NEW u \in Int, NEW v \in Int, u <= x, v <= y
      PROVE  Weight(b, u, v) <= Weight(b, x, y)
  <2>1. Pause[news] * u <= Pause[news] * x /\ Pause[info] * v <= Pause[info] * y
    BY <1>1, <1>3, <1>8
  <2>2. /\ Pause[news] * u \in Int /\ Pause[news] * x \in Int
        /\ Pause[info] * v \in Int /\ Pause[info] * y \in Int
    BY <1>1, <1>4
  <2>3. Prompt * (Pause[news] * u + Pause[info] * v) <= Prompt * (Pause[news] * x + Pause[info] * y)
    BY <1>1, <1>3, <2>1, <2>2
  <2> QED BY <1>1, <1>4, <1>6, <2>2, <2>3 DEF Weight
<1>9. Weight(b - 1, x + 1, y + 1) = Weight(b, x, y) - Spare
  <2>1. PICK p \in Nat, n \in Nat, q \in Nat : p = Pause[info] /\ n = Pause[news] /\ q = Prompt
    BY <1>1
  <2>2. p * n * (b - 1) + q * (n * (x + 1) + p * (y + 1))
          = p * n * b + q * (n * x + p * y) - (p * n - q * (p + n))
    BY <1>5
  <2> QED BY <2>1, <2>2 DEF Weight, Spare
<1>10. Weight(b, x, y) \in Int /\ (b >= 0 /\ x >= 0 /\ y >= 0 => Weight(b, x, y) >= 0)
  <2>1. /\ Pause[news] * x \in Int /\ Pause[info] * y \in Int /\ k * b \in Int
        /\ b >= 0 => k * b >= 0
        /\ x >= 0 => Pause[news] * x >= 0
        /\ y >= 0 => Pause[info] * y >= 0
    BY <1>1, <1>4, <1>6
  <2>2. /\ Prompt * (Pause[news] * x + Pause[info] * y) \in Int
        /\ x >= 0 /\ y >= 0 => Prompt * (Pause[news] * x + Pause[info] * y) >= 0
    BY <1>1, <1>4, <2>1
  <2> QED BY <2>1, <2>2 DEF Weight
<1> QED BY <1>7, <1>8, <1>9, <1>10

\* The seconds a client has rested: none while it polls, all when it sends.
LEMMA RestedType ==
  ASSUME ProxyInv, NEW c \in Clients
  PROVE  /\ Rested(c) \in Nat
         /\ at[c] = "send" => Rested(c) = Pause[c]
         /\ at[c] = "poll" => Rested(c) = 0
         /\ at[c] = "sleep" => Rested(c) = Pause[c] - left[c]
BY Numbers, ConstantsType DEF Rested

LEMMA BacklogType == ASSUME ProxyInv PROVE Backlog \in Nat
<1>1. CASE queue = <<>>
  BY <1>1 DEF Backlog
<1>2. CASE queue # <<>>
  <2>1. Len(queue) - 1 \in Nat
    BY <1>2, Numbers
  <2>2. Prompt * (Len(queue) - 1) \in Nat
    BY <2>1, ProductNat, ConstantsType
  <2> QED BY <1>2, <2>2, Numbers DEF Backlog
<1> QED BY <1>1, <1>2

LEMMA LoadType == ProxyInv => Backlog \in Nat /\ Rested(info) \in Nat /\ Rested(news) \in Nat
BY BacklogType, RestedType, ConstantsType

\* What each kind of step does to the backlog and to what the clients have rested.
LEMMA LoadOfSend ==
  ASSUME ProxyInv, ProxyInv', queue # <<>>, NEW c \in Clients, Send(c)
  PROVE  Load' = Load
<1>1. Backlog' = Backlog + Prompt
  <2>1. [of |-> c, open |-> TRUE] \in Connections
    BY DEF Connections
  <2>2. Len(queue') = Len(queue) + 1 /\ queue' # <<>> /\ First' = First
    BY <2>1, Numbers, AppendToQueue, EmptySeq DEF Send, First
  <2>3. Prompt * ((Len(queue) - 1) + 1) = Prompt * (Len(queue) - 1) + Prompt
    BY Numbers, OneMore, ConstantsType
  <2>4. Len(queue') - 1 = (Len(queue) - 1) + 1
    BY <2>2, Numbers
  <2>5. Prompt * (Len(queue) - 1) \in Nat
    BY Numbers, ProductNat, ConstantsType
  <2> QED BY <2>2, <2>3, <2>4, <2>5, Numbers, ConstantsType DEF Backlog
<1>2. Rested(c) = Pause[c] /\ Rested(c)' = 0
  BY RestedType, Numbers DEF Send, Rested
<1>3. \A d \in Clients \ {c} : Rested(d)' = Rested(d)
  BY Numbers DEF Send, Rested
<1>4. Backlog \in Int /\ Rested(info) \in Int /\ Rested(news) \in Int
  BY BacklogType, RestedType, ConstantsType
<1>5. Load' = Weight(Backlog', Rested(info)', Rested(news)')
  BY DEF Load, Weight
<1>6. CASE c = info
  BY <1>1, <1>2, <1>3, <1>4, <1>5, <1>6, WeightOfLoad, WeightOfSend, ConstantsType
<1>7. CASE c = news
  BY <1>1, <1>2, <1>3, <1>4, <1>5, <1>7, WeightOfLoad, WeightOfSend, ConstantsType
<1> QED BY <1>6, <1>7, ConstantsType

\* Ending a request moves nobody's rest, and an answer takes no work from the backlog
\* that was not done.
LEMMA LoadOfRest ==
  ASSUME ProxyInv, NEW c \in Clients, NEW ok \in BOOLEAN, Rest(c, ok), at[c] = "poll"
  PROVE  \A d \in Clients : Rested(d)' = Rested(d)
<1>1. /\ at'[c] = "sleep" /\ left'[c] = Pause[c]
      /\ \A d \in Clients \ {c} : at'[d] = at[d] /\ left'[d] = left[d]
  BY RestEffect DEF ProxyInv
<1>2. Rested(c)' = 0 /\ Rested(c) = 0
  BY <1>1, RestedType, ConstantsType DEF Rested
<1>3. \A d \in Clients \ {c} : Rested(d)' = Rested(d)
  BY <1>1 DEF Rested
<1> QED BY <1>2, <1>3

LEMMA BacklogOfRespond ==
  ASSUME ProxyInv, Respond
  PROVE  /\ Backlog' = Backlog
         /\ \A d \in Clients : Rested(d)' = Rested(d)
<1>1. queue # <<>> /\ queue' = Tail(queue) /\ work = 0 /\ work' = -1
  BY DEF Respond, ProxyInv, QueueInv
<1>2. /\ queue' \in Seq(Connections) /\ Len(queue') = Len(queue) - 1 /\ Len(queue) \in Nat \ {0}
      /\ Head(queue) = queue[1] /\ Head(queue).of \in Clients
  BY <1>1, Numbers, TailOfQueue DEF Connections
<1>3. First = 0 /\ First' = Prompt
  BY <1>1 DEF First
<1>4. Backlog' = Backlog
  <2>1. CASE queue' = <<>>
    <3>1. Len(queue) - 1 = 0
      BY <1>2, <2>1, EmptySeq
    <3>2. Prompt * 0 = 0
      BY ConstantsType
    <3>3. Prompt * (Len(queue) - 1) = 0
      BY <3>1, <3>2, Zenon
    <3> QED BY <1>1, <1>3, <2>1, <3>3 DEF Backlog
  <2>2. CASE queue' # <<>>
    <3>1. Len(queue') - 1 \in Nat
      BY <1>2, <2>2, TailOfQueue
    <3>2. Prompt * (Len(queue) - 1) = Prompt * (Len(queue') - 1) + Prompt
      <4>1. PICK k \in Nat : k = Len(queue') - 1
        BY <3>1
      <4>2. Len(queue) - 1 = k + 1
        BY <1>2, <4>1
      <4>3. Prompt * (k + 1) = Prompt * k + Prompt
        BY OneMore, ConstantsType
      <4> QED BY <4>1, <4>2, <4>3
    <3>3. Prompt * (Len(queue') - 1) \in Nat
      BY <3>1, ProductNat, ConstantsType
    <3> QED BY <1>1, <1>3, <2>2, <3>2, <3>3, ConstantsType DEF Backlog
  <2> QED BY <2>1, <2>2
<1>5. \A d \in Clients : Rested(d)' = Rested(d)
  <2>1. PICK c \in Clients : c = Head(queue).of
    BY <1>2
  <2>2. CASE Head(queue).open
    <3>1. Rest(c, TRUE)
      BY <2>1, <2>2 DEF Respond
    <3>2. 1 \in OpenOf(c)
      BY <1>2, <2>1, <2>2, Numbers DEF OpenOf
    <3>3. at[c] = "poll"
      BY <3>2 DEF ProxyInv, QueueInv
    <3> QED BY <3>1, <3>3, LoadOfRest
  <2>3. CASE ~Head(queue).open
    BY <2>3 DEF Respond, Rested
  <2> QED BY <2>2, <2>3
<1> QED BY <1>4, <1>5

LEMMA BacklogOfGiveUp ==
  ASSUME ProxyInv, NEW c \in Clients, GiveUp(c)
  PROVE  /\ Backlog' = Backlog
         /\ \A d \in Clients : Rested(d)' = Rested(d)
<1>1. /\ queue' \in Seq(Connections) /\ Len(queue') = Len(queue) /\ work' = work
      /\ Rest(c, FALSE) /\ at[c] = "poll"
  BY CloseEffect DEF GiveUp, ProxyInv
<1>2. queue' = <<>> <=> queue = <<>>
  BY <1>1, Numbers, EmptySeq
<1>3. First' = First
  BY <1>1 DEF First
<1> QED BY <1>1, <1>2, <1>3, LoadOfRest DEF Backlog

LEMMA BacklogOfServe ==
  ASSUME ProxyInv, prompt, Serve
  PROVE  Backlog' <= Backlog
<1>1. /\ queue # <<>> /\ work = -1 /\ queue' = queue
      /\ work' \in 0 .. Prompt
  BY DEF Serve
<1>2. First = Prompt /\ First' \in Nat /\ First' <= Prompt
  <2>1. work' \in Nat /\ work' <= Prompt
    BY <1>1, ConstantsType
  <2>2. First' = work' /\ First = Prompt
    BY <1>1, <2>1 DEF First
  <2> QED BY <2>1, <2>2
<1>3. Prompt * (Len(queue) - 1) \in Nat
  BY <1>1, Numbers, ProductNat, ConstantsType
<1> QED BY <1>1, <1>2, <1>3, ConstantsType DEF Backlog

LEMMA LoadOfSecond ==
  ASSUME ProxyInv, queue # <<>>, Second
  PROVE  Load' <= Load - Spare
<1>1. work > 0 /\ work' = work - 1 /\ UNCHANGED <<at, queue>>
  BY DEF Second
<1>2. Backlog' = Backlog - 1
  <2>1. First' = First - 1
    BY <1>1, Numbers DEF First
  <2>2. Prompt * (Len(queue) - 1) \in Nat
    BY Numbers, ProductNat, ConstantsType
  <2> QED BY <1>1, <2>1, <2>2, Numbers DEF Backlog
<1>3. ASSUME NEW c \in Clients PROVE Rested(c)' \in Int /\ Rested(c)' <= Rested(c) + 1
  <2>1. /\ left[c] \in Nat /\ left'[c] \in Nat /\ left[c] - 1 <= left'[c]
        /\ Pause[c] \in Nat
    BY Numbers, ConstantsType DEF Second
  <2> QED BY <1>1, <2>1, ConstantsType DEF Rested
<1>4. Backlog \in Int /\ Rested(info) \in Int /\ Rested(news) \in Int
  BY BacklogType, RestedType, ConstantsType
<1>5. Load' = Weight(Backlog', Rested(info)', Rested(news)')
  BY DEF Load, Weight
<1>6. Load' <= Weight(Backlog - 1, Rested(info) + 1, Rested(news) + 1)
  <2>1. Backlog - 1 \in Int /\ Rested(info) + 1 \in Int /\ Rested(news) + 1 \in Int
    BY <1>4
  <2>2. /\ Rested(info)' \in Int /\ Rested(info)' <= Rested(info) + 1
        /\ Rested(news)' \in Int /\ Rested(news)' <= Rested(news) + 1
    BY <1>3, ConstantsType
  <2> QED BY <1>2, <1>5, <2>1, <2>2, WeightOfSecond
<1>7. Weight(Backlog - 1, Rested(info) + 1, Rested(news) + 1) = Load - Spare
  BY <1>4, WeightOfSecond, WeightOfLoad
<1> QED BY <1>6, <1>7

\* Once the servers behind the proxy are prompt, its backlog goes away: no step raises
\* Load and each second lowers it by Spare, until the queue is empty; and Load is
\* never negative, so that this takes at most Load divided by Spare seconds.
THEOREM BacklogGoesAway == KeepsPace => (Spec => BacklogShrinks)
<1> DEFINE Shrinks == prompt /\ queue # <<>> =>
                         /\ 0 <= Load' /\ Load' <= Load
                         /\ Second => Load' <= Load - Spare
<1> SUFFICES ASSUME KeepsPace PROVE Spec => BacklogShrinks
  OBVIOUS
<1>0. (ProxyInv => Backlog \in Nat /\ Rested(info) \in Nat /\ Rested(news) \in Nat)'
  BY LoadType, PTL
<1>1. ProxyInv /\ ProxyInv' /\ [Next]_vars => [Shrinks]_vars
  <2> SUFFICES ASSUME ProxyInv, ProxyInv', Next, prompt, queue # <<>>
               PROVE  /\ 0 <= Load' /\ Load' <= Load
                      /\ Second => Load' <= Load - Spare
    OBVIOUS
  <2>1. /\ Backlog \in Nat /\ Rested(info) \in Nat /\ Rested(news) \in Nat
        /\ Backlog' \in Nat /\ Rested(info)' \in Nat /\ Rested(news)' \in Nat
    BY <1>0, LoadType
  <2>2. Load' = Weight(Backlog', Rested(info)', Rested(news)')
    BY DEF Load, Weight
  <2>3. Load \in Int /\ Load' \in Int /\ 0 <= Load'
    <3>1. \A b, x, y \in Nat : Weight(b, x, y) \in Int /\ 0 <= Weight(b, x, y)
      BY WeightOfSecond
    <3> QED BY <2>1, <2>2, <3>1, WeightOfLoad
  <2>4. CASE Second
    <3>1. Spare \in Int /\ Spare > 0
      BY ConstantsType, ProductNat DEF Spare, KeepsPace
    <3> QED BY <2>3, <2>4, <3>1, LoadOfSecond
  <2>5. ASSUME NEW c \in Clients, Send(c) PROVE Load' <= Load
    BY <2>3, <2>5, LoadOfSend
  <2>6. ASSUME Backlog' <= Backlog, \A d \in Clients : Rested(d)' = Rested(d)
        PROVE  Load' <= Load
    <3>1. Rested(info)' = Rested(info) /\ Rested(news)' = Rested(news)
      BY <2>6, ConstantsType
    <3>2. \A b, c, x, y \in Nat : c <= b => Weight(c, x, y) <= Weight(b, x, y)
      BY WeightOfSecond
    <3>3. Weight(Backlog', Rested(info), Rested(news)) <= Weight(Backlog, Rested(info), Rested(news))
      BY <2>1, <2>6, <3>2
    <3> QED BY <2>2, <3>1, <3>3, WeightOfLoad
  <2>7. ASSUME NEW c \in Clients, GiveUp(c) PROVE Load' <= Load
    BY <2>1, <2>6, <2>7, BacklogOfGiveUp
  <2>8. ASSUME NEW c \in Clients, Wake(c) PROVE Load' <= Load
    <3>1. UNCHANGED <<left, queue, work>> /\ at[c] = "sleep" /\ at'[c] = "send" /\ left[c] = 0
      BY <2>8, Numbers DEF Wake
    <3>2. Rested(c)' = Rested(c)
      BY <3>1, Numbers, ConstantsType DEF Rested
    <3>3. \A d \in Clients \ {c} : Rested(d)' = Rested(d)
      BY <2>8, Numbers DEF Wake, Rested
    <3>4. Backlog' = Backlog
      BY <3>1 DEF Backlog, First
    <3> QED BY <2>1, <2>6, <3>2, <3>3, <3>4
  <2>9. ASSUME Serve PROVE Load' <= Load
    <3>1. \A d \in Clients : Rested(d)' = Rested(d)
      BY <2>9 DEF Serve, Rested
    <3> QED BY <2>6, <2>9, <3>1, BacklogOfServe
  <2>10. ASSUME Respond PROVE Load' <= Load
    BY <2>1, <2>6, <2>10, BacklogOfRespond
  <2>11. ~BecomePrompt
    BY DEF BecomePrompt
  <2>12. CASE ~Second
    <3>1. Load' <= Load
      BY <2>5, <2>7, <2>8, <2>9, <2>10, <2>11, <2>12 DEF Next, Steps, Client, Server
    <3> QED BY <2>3, <2>12, <3>1
  <2> QED BY <2>4, <2>12
<1> QED BY <1>1, ProxyInvAlways, PTL DEF Spec, BacklogShrinks
=============================================================================
