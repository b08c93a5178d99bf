------------------------------- MODULE Fetch -------------------------------
(***************************************************************************)
(* The two threads that fetch /info and /news from the proxy and the       *)
(* screen thread that shows what they fetched: network_config.c,           *)
(* networking_config_news.c and the snapshots of screen.c.  They share     *)
(* http_mutex, info_mutex and news_mutex and have the same priority, so    *)
(* their steps interleave freely.  A step is a call that can block or      *)
(* fail, or the assignment of one field under a mutex.                     *)
(*                                                                         *)
(* The proxy and the network are the environment: a socket call succeeds,  *)
(* fails, or never returns.  The receive loop is one call here.            *)
(***************************************************************************)
EXTENDS FiniteSets, Integers

CONSTANTS info, news, screen,   \* the threads
          Fields,               \* the strings of info_data_t
          Values,               \* what the proxy may say in a field
          NoValue,              \* the empty string
          nobody                \* no owner

NetThreads == {info, news}
Threads    == {info, news, screen}
Mutexes    == {"http", "info", "news"}   \* http_mutex, info_mutex, news_mutex

ASSUME ThreadsAssumption == info # news /\ info # screen /\ news # screen /\ nobody \notin Threads

ASSUME ValuesAssumption == NoValue \notin Values

VARIABLES
    pc,         \* the call each thread makes next
    owner,      \* the owner of each mutex
    queue,      \* the threads pending on each mutex
    sock,       \* the network threads whose socket is open
    hung,       \* the network threads whose socket call does not return
    got,        \* how much of the last /news response arrived
    todo,       \* the keys of the /info response not copied to g_info yet
    g_info,     \* the fields the screen shows
    g_news,     \* which of the titles g_news holds; ready unless "none"
    snapshot,   \* the screen thread's copy of g_info
    published   \* history: g_info as the last complete parse left it

vars == <<pc, owner, queue, sock, hung, got, todo, g_info, g_news, snapshot, published>>

Steps == {"gate", "gave up", "lock http", "socket", "connect", "send", "unlock http", "recv",
          "lock data", "parse", "unlock data", "close", "sleep", "sleep forever",
          "view", "lock info", "copy", "unlock info", "show"}

Infos == [Fields -> Values \cup {NoValue}]

TypeOK ==
    /\ pc \in [Threads -> Steps]
    /\ owner \in [Mutexes -> Threads \cup {nobody}]
    /\ queue \in [Mutexes -> SUBSET Threads]
    /\ sock \in SUBSET NetThreads
    /\ hung \in SUBSET NetThreads
    /\ got \in {"nothing", "headers", "part", "all"}
    /\ todo \in SUBSET Fields
    /\ g_info \in Infos
    /\ g_news \in {"none", "some", "full"}
    /\ snapshot \in Infos
    /\ published \in Infos

NoInfo == [f \in Fields |-> NoValue]

Init ==
    /\ pc = [t \in Threads |-> IF t = screen THEN "view" ELSE "gate"]
    /\ owner = [m \in Mutexes |-> nobody]
    /\ queue = [m \in Mutexes |-> {}]
    /\ sock = {} /\ hung = {}
    /\ got = "nothing" /\ todo = {}
    /\ g_info = NoInfo /\ g_news = "none"
    /\ snapshot = NoInfo /\ published = NoInfo

-----------------------------------------------------------------------------
(***************************************************************************)
(* External: the kernel's mutexes.  A thread takes a free mutex, pends on  *)
(* one that is held, and goes on once an unlock has made it the owner.     *)
(***************************************************************************)
Goto(t, from, to) == pc[t] = from /\ t \notin hung /\ pc' = [pc EXCEPT ![t] = to]

mutexes == <<owner, queue>>
data    == <<got, todo, g_info, g_news, snapshot, published>>

Lock(t, m, from, to) ==
    /\ \/ /\ owner[m] = nobody
          /\ owner' = [owner EXCEPT ![m] = t]
          /\ Goto(t, from, to)
          /\ UNCHANGED queue
       \/ /\ owner[m] = t
          /\ Goto(t, from, to)
          /\ UNCHANGED mutexes
       \/ /\ owner[m] \notin {nobody, t} /\ t \notin queue[m]
          /\ pc[t] = from
          /\ queue' = [queue EXCEPT ![m] = @ \cup {t}]
          /\ UNCHANGED <<pc, owner>>
    /\ UNCHANGED <<sock, hung, data>>

Unlock(t, m, from, to) ==
    /\ Goto(t, from, to)
    /\ \/ /\ queue[m] = {}
          /\ owner' = [owner EXCEPT ![m] = nobody]
          /\ UNCHANGED queue
       \/ \E next \in queue[m] : /\ owner' = [owner EXCEPT ![m] = next]
                                 /\ queue' = [queue EXCEPT ![m] = @ \ {next}]
    /\ UNCHANGED <<sock, hung>>

(***************************************************************************)
(* What both threads do: wait for the network (WifiGate), take http_mutex, *)
(* open a socket, connect, send.  On an error they close what they opened  *)
(* and give the mutex back.  Otherwise /news gives it back before it       *)
(* receives, /info after it has closed its socket.                         *)
(***************************************************************************)
\* Only t's place and perhaps its socket change.
Call(t, from, to) == Goto(t, from, to) /\ UNCHANGED <<mutexes, hung, data>>

PassGate(t) == Call(t, "gate", "lock http") /\ UNCHANGED sock

GiveUp(t) == Call(t, "gate", "gave up") /\ UNCHANGED sock

LockHttp(t) == Lock(t, "http", "lock http", "socket")

Socket(t) == \/ Call(t, "socket", "connect") /\ sock' = sock \cup {t}
             \/ Call(t, "socket", "unlock http") /\ UNCHANGED sock

\* Mutant: a failed connect leaves its socket open.
ConnectWithoutClose(t) == \/ Call(t, "connect", "send") /\ UNCHANGED sock
                          \/ Call(t, "connect", "unlock http") /\ UNCHANGED sock

Connect(t) == \/ Call(t, "connect", "send") /\ UNCHANGED sock
              \/ Call(t, "connect", "unlock http") /\ sock' = sock \ {t}

\* Mutant: /news receives with http_mutex held.
SendAndKeepMutex(t) == \/ Call(t, "send", "recv") /\ UNCHANGED sock
                       \/ Call(t, "send", "unlock http") /\ sock' = sock \ {t}

Send(t) == \/ Call(t, "send", IF t = info THEN "recv" ELSE "unlock http") /\ UNCHANGED sock
           \/ Call(t, "send", "unlock http") /\ sock' = sock \ {t}

\* The news thread goes on to receive only if its request was sent, that is, if
\* its socket is still open; after an error it sleeps and tries again.
UnlockHttp(t) == /\ Unlock(t, "http", "unlock http",
                           IF t = news /\ t \in sock THEN "recv" ELSE "sleep")
                 /\ UNCHANGED data

(***************************************************************************)
(* External: the receive loop ends because Content-Length bytes have come, *)
(* or with less, because poll timed out, recv failed or the buffer is      *)
(* full.  A body is parsed, however short, once the headers are complete;  *)
(* cut, or an error of the proxy, it lacks some keys of /info or all.      *)
(***************************************************************************)
Recv(t) ==
    \E part \in {"nothing", "headers", "part", "all"} :
        /\ Goto(t, "recv", IF part \in {"part", "all"} THEN "lock data" ELSE "close")
        /\ got' = IF t = news THEN part ELSE got
        /\ \E keys \in SUBSET Fields :
              /\ t = news \/ part \in {"nothing", "headers"} => keys = {}
              /\ todo' = IF t = info THEN keys ELSE todo
        /\ UNCHANGED <<mutexes, sock, hung, g_info, g_news, snapshot, published>>

LockData(t) == Lock(t, IF t = info THEN "info" ELSE "news", "lock data", "parse")

\* Mutant: the field is not terminated, and the tail of the old text shows.
UnterminatedField(f) ==
    /\ pc[info] = "parse" /\ f \in todo
    /\ \E v \in Values : g_info' = [g_info EXCEPT ![f] = <<v, @>>]
    /\ todo' = todo \ {f}
    /\ UNCHANGED <<pc, mutexes, sock, hung, got, g_news, snapshot, published>>

\* parse_info copies field after field.  It leaves the fields whose key is
\* missing as they are; a body cut right after a key empties its field.
ParseField(f) ==
    /\ pc[info] = "parse" /\ f \in todo
    /\ \E v \in Values \cup {NoValue} : g_info' = [g_info EXCEPT ![f] = v]
    /\ todo' = todo \ {f}
    /\ UNCHANGED <<pc, mutexes, sock, hung, got, g_news, snapshot, published>>

InfoParsed == /\ todo = {}
              /\ Goto(info, "parse", "unlock data")
              /\ UNCHANGED <<mutexes, sock, hung, data>>

\* parse_news_titles starts from an empty list; a response need not hold titles.
ParseNews ==
    /\ Goto(news, "parse", "unlock data")
    /\ g_news' \in {"none", IF got = "all" THEN "full" ELSE "some"}
    /\ UNCHANGED <<mutexes, sock, hung, got, todo, g_info, snapshot, published>>

UnlockInfo == /\ Unlock(info, "info", "unlock data", "close")
              /\ published' = g_info
              /\ UNCHANGED <<got, todo, g_info, g_news, snapshot>>

UnlockNews == Unlock(news, "news", "unlock data", "close") /\ UNCHANGED data

CloseInfo == Call(info, "close", "unlock http") /\ sock' = sock \ {info}

\* The result of the request: with a known Content-Length, whether all of it
\* came; without one, that is, with incomplete headers, whether anything came.
Succeeded == got \in {"all", "headers"}

CloseNews ==
    /\ Call(news, "close", IF Succeeded /\ g_news # "none" THEN "sleep forever" ELSE "sleep")
    /\ sock' = sock \ {news}

Wake(t) == Call(t, "sleep", "lock http") /\ UNCHANGED sock

Request(t) == \/ PassGate(t) \/ GiveUp(t) \/ LockHttp(t) \/ Socket(t) \/ Connect(t) \/ Send(t)
              \/ UnlockHttp(t) \/ Recv(t) \/ LockData(t) \/ Wake(t)

Info == Request(info) \/ (\E f \in Fields : ParseField(f)) \/ InfoParsed \/ UnlockInfo \/ CloseInfo

News == Request(news) \/ ParseNews \/ UnlockNews \/ CloseNews

\* External: a socket call that does not return.
Hang(t) == /\ pc[t] \in {"connect", "send", "recv"} /\ t \notin hung
           /\ hung' = hung \cup {t}
           /\ UNCHANGED <<pc, mutexes, sock, data>>

(***************************************************************************)
(* The screen thread.  Views that need g_info take a snapshot of it; if    *)
(* info_mutex does not come within MUTEX_TIMEOUT_MS they show "No data     *)
(* yet".                                                                   *)
(***************************************************************************)
ScreenView == /\ Goto(screen, "view", "lock info")
              /\ snapshot' = NoInfo
              /\ UNCHANGED <<mutexes, sock, hung, got, todo, g_info, g_news, published>>

\* Mutant: g_info is copied without its mutex.
LockNothing == Call(screen, "lock info", "copy") /\ UNCHANGED sock

LockInfo == Lock(screen, "info", "lock info", "copy")

LockInfoTimesOut ==
    /\ screen \in queue["info"]
    /\ queue' = [queue EXCEPT !["info"] = @ \ {screen}]
    /\ Goto(screen, "lock info", "show")
    /\ UNCHANGED <<owner, sock, hung, data>>

\* Mutant: the copy is made under http_mutex as well, for which it waits.
CopyUnderHttp == Lock(screen, "http", "copy", "unlock info")

CopyInfo == /\ Goto(screen, "copy", "unlock info")
            /\ snapshot' = g_info
            /\ UNCHANGED <<mutexes, sock, hung, got, todo, g_info, g_news, published>>

\* Mutant: the snapshot's mutex is not given back.
NoUnlock == Call(screen, "unlock info", "show") /\ UNCHANGED sock

UnlockSnapshot == Unlock(screen, "info", "unlock info", "show") /\ UNCHANGED data

Show == Call(screen, "show", "view") /\ UNCHANGED sock

Screen == ScreenView \/ LockInfo \/ LockInfoTimesOut \/ CopyInfo \/ UnlockSnapshot \/ Show

Next == Info \/ News \/ Screen \/ \E t \in NetThreads : Hang(t)

(***************************************************************************)
(* Threads of one priority share the processor in time slices, and sleeps  *)
(* and time-limited waits end.  A hung call is the exception, and nothing  *)
(* says that a call hangs.                                                 *)
(***************************************************************************)
Spec == Init /\ [][Next]_vars /\ WF_vars(Info) /\ WF_vars(News) /\ WF_vars(Screen)

-----------------------------------------------------------------------------
Holds(t) == {m \in Mutexes : owner[m] = t}

AtRest == {"gave up", "sleep", "sleep forever", "view", "show"}

\* A thread that sleeps has given back every mutex, closed its socket and left
\* every queue, whichever of the five error paths it came by.
NothingHeldAtRest ==
    \A t \in Threads : pc[t] \in AtRest =>
        /\ Holds(t) = {} /\ t \notin sock
        /\ \A m \in Mutexes : t \notin queue[m]

\* A snapshot is g_info as a parse left it, never a half-copied one
\* (the copy under info_mutex in get_info_snapshot).
SnapshotsAreWhole == [][pc[screen] = "copy" /\ pc'[screen] # "copy" => snapshot' = published]_vars

\* The display keeps going, whichever network calls hang (screen.c:13-14).
ScreenKeepsGoing == []<>(pc[screen] = "show")

\* A /news response that trickles in, or never ends, does not keep /info from
\* its turn (the key design of networking_config_news.c): only a hung connect or
\* send does.
InfoGetsItsTurn ==
    [](\A t \in hung : t = news /\ pc[t] = "recv")
        => (pc[info] = "lock http" ~> pc[info] = "socket")

\* As long as the calls of /info return, /news gets its turn in spite of waiting
\* for whole /info requests.
NewsGetsItsTurn == [](info \notin hung) => (pc[news] = "lock http" ~> pc[news] = "socket")

\* The news thread sleeps for ever only with the full list (the comment "Success
\* only if we received the full content").  The code does not keep this: titles
\* left by a cut response stay ready, and a next response that ends within its
\* headers counts as a success.
NewsSleepsWithAll == pc[news] = "sleep forever" => g_news = "full"
=============================================================================
