-------------------------------- MODULE Proxy --------------------------------
(***************************************************************************)
(* The proxy and its two clients, second by second.  proxi.py serves one   *)
(* connection at a time (threaded=False), each with up to three requests   *)
(* to other servers that have a time limit; the others wait in the order   *)
(* in which they came.  The threads of network_config.c and                *)
(* networking_config_news.c give up after 8 seconds without data, close    *)
(* their socket and try again later, but the proxy serves what they gave   *)
(* up all the same.                                                        *)
(***************************************************************************)
EXTENDS FiniteSets, Integers, Sequences

CONSTANTS info, news,   \* the clients
          PollLimit,    \* milliseconds of zsock_poll, in seconds: 8
          Pause,        \* per client: seconds of k_sleep between two requests: 30, 15
          UpstreamLimit,\* per client: what the time limits of requests.get allow: 25, 10
          Prompt,       \* seconds a request takes while the other servers are prompt
          MaxQueue      \* bound: connections that wait

Clients == {info, news}

ASSUME ProxyAssumption ==
    /\ info # news
    /\ PollLimit \in Nat /\ Pause \in [Clients -> Nat] /\ MaxQueue \in Nat
    /\ UpstreamLimit \in [Clients -> Nat]
    /\ Prompt \in Nat /\ \A c \in Clients : Prompt <= UpstreamLimit[c]

\* What a second of the proxy's work has to spare over what the clients ask for in it,
\* times both pauses.
Spare == Pause[info] * Pause[news] - Prompt * (Pause[info] + Pause[news])

\* The proxy answers both clients before the patience of either ends, and answers
\* more requests than they send.  The seconds of the code leave much of both.
KeepsPace == 2 * Prompt < PollLimit /\ Spare > 0

VARIABLES
    at,         \* what each client does: "sleep", "send", "poll"
    left,       \* the seconds it still sleeps or polls
    answered,   \* whether its last request that ended was answered
    queue,      \* the connections accepted or waiting: whose, and whether still open
    work,       \* seconds the first of them still takes; -1 before it is served
    prompt      \* the other servers are prompt from now on (external)

vars == <<at, left, answered, queue, work, prompt>>

Init ==
    /\ at = [c \in Clients |-> "send"]
    /\ left = [c \in Clients |-> 0]
    /\ answered = [c \in Clients |-> FALSE]
    /\ queue = <<>> /\ work = -1
    /\ prompt = FALSE

-----------------------------------------------------------------------------
\* connect and send under http_mutex, which /info holds until its request ends.
MaySend(c) == /\ Len(queue) < MaxQueue
              /\ c = news => at[info] # "poll"

Send(c) ==
    /\ at[c] = "send" /\ MaySend(c)
    /\ at' = [at EXCEPT ![c] = "poll"]
    /\ left' = [left EXCEPT ![c] = PollLimit]
    /\ queue' = Append(queue, [of |-> c, open |-> TRUE])
    /\ UNCHANGED <<answered, work, prompt>>

\* Mutant: after a failure the client asks again at once.
RetryAtOnce(c, ok) ==
    /\ at' = [at EXCEPT ![c] = "sleep"]
    /\ left' = [left EXCEPT ![c] = IF ok THEN Pause[c] ELSE 0]
    /\ answered' = [answered EXCEPT ![c] = ok]

Rest(c, ok) ==
    /\ at' = [at EXCEPT ![c] = "sleep"]
    /\ left' = [left EXCEPT ![c] = Pause[c]]
    /\ answered' = [answered EXCEPT ![c] = ok]

\* Mutant: the socket stays open.
GiveUpWithoutClose(c) ==
    /\ at[c] = "poll" /\ left[c] = 0
    /\ Rest(c, FALSE)
    /\ UNCHANGED <<queue, work, prompt>>

\* poll times out, the socket is closed.
GiveUp(c) ==
    /\ at[c] = "poll" /\ left[c] = 0
    /\ Rest(c, FALSE)
    /\ queue' = [n \in DOMAIN queue |-> [queue[n] EXCEPT !.open = @ /\ queue[n].of # c]]
    /\ UNCHANGED <<work, prompt>>

\* k_sleep returns
Wake(c) ==
    /\ at[c] = "sleep" /\ left[c] = 0
    /\ at' = [at EXCEPT ![c] = "send"]
    /\ UNCHANGED <<left, answered, queue, work, prompt>>

Client(c) == Send(c) \/ GiveUp(c) \/ Wake(c)

\* Mutant: a request to the other servers is tried three times.
ServeWithRetries ==
    /\ queue # <<>> /\ work = -1
    /\ work' \in 0 .. IF prompt THEN 3 * Prompt ELSE UpstreamLimit[Head(queue).of]
    /\ UNCHANGED <<at, left, answered, queue, prompt>>

\* The server takes the first connection and asks the other servers.
Serve ==
    /\ queue # <<>> /\ work = -1
    /\ work' \in 0 .. IF prompt THEN Prompt ELSE UpstreamLimit[Head(queue).of]
    /\ UNCHANGED <<at, left, answered, queue, prompt>>

\* Mutant: writing to a connection that was given up ends the server.
RespondIfOpen ==
    /\ work = 0 /\ Head(queue).open
    /\ work' = -1
    /\ queue' = Tail(queue)
    /\ Rest(Head(queue).of, TRUE)
    /\ UNCHANGED prompt

\* It answers or, on an exception, answers with an error; if nobody listens, that is all.
Respond ==
    /\ work = 0
    /\ work' = -1
    /\ queue' = Tail(queue)
    /\ IF Head(queue).open THEN Rest(Head(queue).of, TRUE) ELSE UNCHANGED <<at, left, answered>>
    /\ UNCHANGED prompt

Server == Serve \/ Respond

\* External: the other servers recover, for good.
BecomePrompt == ~prompt /\ prompt' = TRUE /\ UNCHANGED <<at, left, answered, queue, work>>

\* A second passes when nobody has anything to do at once.
Second ==
    /\ \A c \in Clients : left[c] > 0 \/ (at[c] = "send" /\ ~MaySend(c))
    /\ work > 0 \/ queue = <<>>
    /\ left' = [c \in Clients |-> IF left[c] > 0 THEN left[c] - 1 ELSE 0]
    /\ work' = IF work > 0 THEN work - 1 ELSE work
    /\ UNCHANGED <<at, answered, queue, prompt>>

Steps == (\E c \in Clients : Client(c)) \/ Server \/ Second

Next == Steps \/ BecomePrompt

\* Time passes, the threads are scheduled, and every request of the proxy has a time
\* limit.  Nothing says that the other servers recover.
Spec == Init /\ [][Next]_vars /\ WF_vars(Steps)

-----------------------------------------------------------------------------
\* The type invariant, and: a client has one open connection while it polls and
\* none otherwise, so that no answer reaches a request that is not waiting for it.
TypeOK ==
    /\ at \in [Clients -> {"sleep", "send", "poll"}]
    /\ \A c \in Clients : left[c] \in 0 .. IF at[c] = "poll" THEN PollLimit ELSE Pause[c]
    /\ answered \in [Clients -> BOOLEAN]
    /\ queue \in Seq([of : Clients, open : BOOLEAN]) /\ Len(queue) <= MaxQueue
    /\ \E c \in Clients : work \in -1 .. UpstreamLimit[c]
    /\ prompt \in BOOLEAN
    /\ \A c \in Clients : Cardinality({n \in DOMAIN queue : queue[n].of = c /\ queue[n].open})
                             = IF at[c] = "poll" THEN 1 ELSE 0

\* Seconds until the first connection is answered, if the other servers are prompt.
First == IF work = -1 THEN Prompt ELSE work

\* The other servers are prompt, and everybody in the queue still waits and will be
\* answered before giving up.
CaughtUp ==
    /\ prompt /\ work <= Prompt
    /\ \A n \in DOMAIN queue : queue[n].open /\ First + Prompt * (n - 1) < left[queue[n].of]

\* A proxy that has caught up with its clients stays so, although they ask at any
\* moment and /info holds up /news: no request is given up any more, every one
\* that ends was answered (KeepsPace).
StaysCaughtUp ==
    [][CaughtUp => /\ CaughtUp'
                   /\ \A c \in Clients : at[c] = "poll" /\ at'[c] # "poll" => answered'[c]]_vars

\* The part of its pause that a client has behind it.
Rested(c) == IF at[c] = "send" THEN Pause[c] ELSE IF at[c] = "sleep" THEN Pause[c] - left[c] ELSE 0

\* The seconds of work in the queue, those for clients that have given up included,
\* and the requests to come, each counted by the part of the pause before it that
\* has passed; times both pauses, to stay with integers.
Backlog == IF queue = <<>> THEN 0 ELSE First + Prompt * (Len(queue) - 1)

Load == Pause[info] * Pause[news] * Backlog
          + Prompt * (Pause[news] * Rested(info) + Pause[info] * Rested(news))

\* The backlog that slow servers left goes away: once they are prompt, each second
\* lowers Load and nothing raises it until the queue is empty (which is CaughtUp),
\* although both clients go on asking (KeepsPace).
BacklogShrinks ==
    [][prompt /\ queue # <<>> =>
          /\ 0 <= Load' /\ Load' <= Load
          /\ Second => Load' <= Load - Spare]_vars

\* While the other servers take as long as they may, requests come faster than the
\* proxy serves them, and it works for clients that have given up.  But once they
\* are prompt, the backlog goes and from then on every request is answered in time.
AllAnswered == <>[]prompt => \A c \in Clients : <>[]answered[c]
=============================================================================
