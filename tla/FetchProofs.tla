---------------------------- MODULE FetchProofs ----------------------------
(***************************************************************************)
(* Theorems about Fetch, for every set of fields and values: types, what a *)
(* thread holds at rest, and the snapshots of the screen thread.           *)
(*                                                                         *)
(* The place a thread has reached tells which mutexes it holds and for     *)
(* which it may wait; everything else follows from that table.             *)
(***************************************************************************)
EXTENDS Fetch, TLAPS

\* The places at which t holds m.
Critical(t, m) ==
    IF m = "http"
    THEN IF t = info THEN {"socket", "connect", "send", "recv", "lock data", "parse",
                           "unlock data", "close", "unlock http"}
         ELSE IF t = news THEN {"socket", "connect", "send", "unlock http"} ELSE {}
    ELSE IF m = "info"
    THEN IF t = info THEN {"parse", "unlock data"}
         ELSE IF t = screen THEN {"copy", "unlock info"} ELSE {}
    ELSE IF t = news THEN {"parse", "unlock data"} ELSE {}

\* The places at which t waits for m, and has perhaps been handed it already.
Waiting(t, m) ==
    IF m = "http" THEN IF t = screen THEN {} ELSE {"lock http"}
    ELSE IF m = "info"
    THEN IF t = info THEN {"lock data"} ELSE IF t = screen THEN {"lock info"} ELSE {}
    ELSE IF t = news THEN {"lock data"} ELSE {}

\* The places at which t may have its socket open.
Connected(t) == {"connect", "send", "recv", "lock data", "parse", "unlock data", "close"}
                  \cup IF t = news THEN {"unlock http"} ELSE {}

MutexInv ==
    \A t \in Threads, m \in Mutexes :
        /\ pc[t] \in Critical(t, m) => owner[m] = t
        /\ owner[m] = t => pc[t] \in Critical(t, m) \cup Waiting(t, m)
        /\ t \in queue[m] => pc[t] \in Waiting(t, m) /\ owner[m] \notin {nobody, t}

SockInv == \A t \in NetThreads : t \in sock => pc[t] \in Connected(t)

\* Only a parse under info_mutex makes g_info differ from what was published.
PublishedInv == pc[info] \notin {"parse", "unlock data"} => g_info = published

FetchInv == MutexInv /\ SockInv /\ PublishedInv

-----------------------------------------------------------------------------
(***************************************************************************)
(* Types.                                                                  *)
(***************************************************************************)
LEMMA GotoType ==
  ASSUME TypeOK, NEW t \in Threads, NEW from, NEW to \in Steps, Goto(t, from, to)
  PROVE  pc' \in [Threads -> Steps]
  BY DEF TypeOK, Goto

LEMMA LockType ==
  ASSUME TypeOK, NEW t \in Threads, NEW m \in Mutexes, NEW from, NEW to \in Steps,
         Lock(t, m, from, to)
  PROVE  TypeOK'
<1>1. /\ pc' \in [Threads -> Steps]
      /\ owner' \in [Mutexes -> Threads \cup {nobody}]
      /\ queue' \in [Mutexes -> SUBSET Threads]
  BY GotoType DEF Lock, TypeOK, mutexes
<1> QED BY <1>1 DEF Lock, TypeOK, data

LEMMA UnlockType ==
  ASSUME TypeOK, NEW t \in Threads, NEW m \in Mutexes, NEW from, NEW to \in Steps,
         Unlock(t, m, from, to)
  PROVE  /\ pc' \in [Threads -> Steps]
         /\ owner' \in [Mutexes -> Threads \cup {nobody}]
         /\ queue' \in [Mutexes -> SUBSET Threads]
         /\ UNCHANGED <<sock, hung>>
<1>1. pc' \in [Threads -> Steps] /\ UNCHANGED <<sock, hung>>
  BY GotoType DEF Unlock
<1>2. CASE owner' = [owner EXCEPT ![m] = nobody] /\ UNCHANGED queue
  BY <1>1, <1>2 DEF TypeOK
<1>3. ASSUME NEW next \in queue[m], owner' = [owner EXCEPT ![m] = next],
             queue' = [queue EXCEPT ![m] = @ \ {next}]
      PROVE  /\ owner' \in [Mutexes -> Threads \cup {nobody}]
             /\ queue' \in [Mutexes -> SUBSET Threads]
  BY <1>3 DEF TypeOK
<1> QED BY <1>1, <1>2, <1>3 DEF Unlock

LEMMA CallType ==
  ASSUME TypeOK, NEW t \in Threads, NEW from, NEW to \in Steps, Call(t, from, to),
         sock' \in SUBSET NetThreads
  PROVE  TypeOK'
<1>1. pc' \in [Threads -> Steps]
  BY GotoType DEF Call
<1> QED BY <1>1 DEF Call, TypeOK, mutexes, data

\* Every variable keeps its type; a field of g_info is the empty string or one the
\* proxy said, whatever was cut or missing.
THEOREM FetchTyping == Spec => []TypeOK
<1>1. Init => TypeOK
  BY DEF Init, TypeOK, Steps, NoInfo, Infos, Threads, NetThreads
<1>2. TypeOK /\ [Next]_vars => TypeOK'
  <2> SUFFICES ASSUME TypeOK, [Next]_vars PROVE TypeOK'
    OBVIOUS
  <2>0. sock \in SUBSET NetThreads /\ NetThreads \subseteq Threads
    BY DEF TypeOK, NetThreads, Threads
  <2>1. ASSUME NEW t \in NetThreads, Request(t) PROVE TypeOK'
    <3>0. t \in Threads
      BY <2>0
    <3>1. CASE PassGate(t) \/ GiveUp(t) \/ Wake(t) \/ Socket(t) \/ Connect(t) \/ Send(t)
      <4>1. PICK from, to \in Steps : Call(t, from, to) /\ sock' \in SUBSET NetThreads
        BY <2>0, <3>1 DEF PassGate, GiveUp, Wake, Socket, Connect, Send, Steps
      <4> QED BY <3>0, <4>1, CallType
    <3>2. CASE LockHttp(t)
      BY <3>0, <3>2, LockType DEF LockHttp, Mutexes, Steps
    <3>3. CASE LockData(t)
      BY <3>0, <3>3, LockType DEF LockData, Mutexes, Steps
    <3>4. CASE UnlockHttp(t)
      <4>1. PICK to \in Steps : Unlock(t, "http", "unlock http", to)
        BY <3>4 DEF UnlockHttp, Steps
      <4> QED BY <3>0, <3>4, <4>1, UnlockType DEF UnlockHttp, Mutexes, TypeOK, data
    <3>5. CASE Recv(t)
      <4>1. PICK to \in Steps : Goto(t, "recv", to)
        BY <3>5 DEF Recv, Steps
      <4>2. pc' \in [Threads -> Steps]
        BY <3>0, <4>1, GotoType
      <4>3. got' \in {"nothing", "headers", "part", "all"} /\ todo' \in SUBSET Fields
        BY <3>5 DEF Recv, TypeOK
      <4> QED BY <3>5, <4>2, <4>3 DEF Recv, TypeOK, mutexes
    <3> QED BY <2>1, <3>1, <3>2, <3>3, <3>4, <3>5 DEF Request
  <2>2. ASSUME NEW f \in Fields, ParseField(f) PROVE TypeOK'
    BY <2>2 DEF ParseField, TypeOK, mutexes, Infos
  <2>3. CASE InfoParsed
    <3>1. pc' \in [Threads -> Steps]
      BY <2>3, GotoType DEF InfoParsed, Threads, Steps
    <3> QED BY <2>3, <3>1 DEF InfoParsed, TypeOK, mutexes, data
  <2>4. CASE UnlockInfo
    BY <2>4, UnlockType DEF UnlockInfo, TypeOK, Mutexes, Threads, Steps
  <2>5. CASE CloseInfo
    BY <2>0, <2>5, CallType DEF CloseInfo, Threads, Steps
  <2>6. CASE ParseNews
    <3>1. pc' \in [Threads -> Steps]
      BY <2>6, GotoType DEF ParseNews, Threads, Steps
    <3> QED BY <2>6, <3>1 DEF ParseNews, TypeOK, mutexes
  <2>7. CASE UnlockNews
    BY <2>7, UnlockType DEF UnlockNews, TypeOK, Mutexes, Threads, Steps, data
  <2>8. CASE CloseNews
    BY <2>0, <2>8, CallType DEF CloseNews, Threads, Steps
  <2>9. CASE ScreenView
    <3>1. pc' \in [Threads -> Steps]
      BY <2>9, GotoType DEF ScreenView, Threads, Steps
    <3> QED BY <2>9, <3>1 DEF ScreenView, TypeOK, mutexes, NoInfo, Infos
  <2>10. CASE LockInfo
    BY <2>10, LockType DEF LockInfo, Mutexes, Threads, Steps
  <2>11. CASE LockInfoTimesOut
    <3>1. pc' \in [Threads -> Steps]
      BY <2>11, GotoType DEF LockInfoTimesOut, Threads, Steps
    <3> QED BY <2>11, <3>1 DEF LockInfoTimesOut, TypeOK, data
  <2>12. CASE CopyInfo
    <3>1. pc' \in [Threads -> Steps]
      BY <2>12, GotoType DEF CopyInfo, Threads, Steps
    <3> QED BY <2>12, <3>1 DEF CopyInfo, TypeOK, mutexes
  <2>13. CASE UnlockSnapshot
    BY <2>13, UnlockType DEF UnlockSnapshot, TypeOK, Mutexes, Threads, Steps, data
  <2>14. CASE Show
    BY <2>0, <2>14, CallType DEF Show, Threads, Steps
  <2>15. ASSUME NEW t \in NetThreads, Hang(t) PROVE TypeOK'
    BY <2>15 DEF Hang, TypeOK, mutexes, data
  <2>16. CASE UNCHANGED vars
    BY <2>16 DEF vars, TypeOK
  <2> QED
    BY <2>1, <2>2, <2>3, <2>4, <2>5, <2>6, <2>7, <2>8, <2>9, <2>10, <2>11, <2>12, <2>13,
       <2>14, <2>15, <2>16
    DEF Next, Info, News, Screen, NetThreads
<1> QED BY <1>1, <1>2, PTL DEF Spec

-----------------------------------------------------------------------------
(***************************************************************************)
(* The table of places under each kind of step.                            *)
(***************************************************************************)
\* A step that keeps what t holds, from a place where it does not wait.
Neutral(t, from, to) ==
    \A m \in Mutexes : /\ from \in Critical(t, m) <=> to \in Critical(t, m)
                       /\ from \notin Waiting(t, m)

LEMMA GotoKeepsMutexInv ==
  ASSUME TypeOK, MutexInv, NEW t \in Threads, NEW from, NEW to, Goto(t, from, to),
         UNCHANGED mutexes, Neutral(t, from, to)
  PROVE  MutexInv'
<1>1. pc' = [pc EXCEPT ![t] = to] /\ pc[t] = from /\ pc \in [Threads -> Steps]
      /\ UNCHANGED <<owner, queue>>
  BY DEF Goto, TypeOK, mutexes
<1> SUFFICES ASSUME NEW u \in Threads, NEW m \in Mutexes
             PROVE  /\ pc'[u] \in Critical(u, m) => owner[m] = u
                    /\ owner[m] = u => pc'[u] \in Critical(u, m) \cup Waiting(u, m)
                    /\ u \in queue[m] => pc'[u] \in Waiting(u, m) /\ owner[m] \notin {nobody, u}
  BY <1>1 DEF MutexInv
<1> QED BY <1>1 DEF MutexInv, Neutral

LEMMA LockKeepsMutexInv ==
  ASSUME TypeOK, MutexInv, NEW t \in Threads, NEW m \in Mutexes, NEW from, NEW to,
         Lock(t, m, from, to), from \in Waiting(t, m), to \in Critical(t, m),
         \A n \in Mutexes \ {m} : /\ from \in Critical(t, n) <=> to \in Critical(t, n)
                                  /\ from \notin Waiting(t, n)
  PROVE  MutexInv'
<1>0. /\ pc \in [Threads -> Steps] /\ owner \in [Mutexes -> Threads \cup {nobody}]
      /\ queue \in [Mutexes -> SUBSET Threads] /\ nobody \notin Threads /\ pc[t] = from
  BY ThreadsAssumption DEF TypeOK, Lock, Goto
<1> SUFFICES ASSUME NEW u \in Threads, NEW n \in Mutexes
             PROVE  /\ pc'[u] \in Critical(u, n) => owner'[n] = u
                    /\ owner'[n] = u => pc'[u] \in Critical(u, n) \cup Waiting(u, n)
                    /\ u \in queue'[n] => pc'[u] \in Waiting(u, n) /\ owner'[n] \notin {nobody, u}
  BY DEF MutexInv
<1>1. /\ pc[u] \in Critical(u, n) => owner[n] = u
      /\ owner[n] = u => pc[u] \in Critical(u, n) \cup Waiting(u, n)
      /\ u \in queue[n] => pc[u] \in Waiting(u, n) /\ owner[n] \notin {nobody, u}
  BY DEF MutexInv
<1>2. CASE owner[m] = nobody /\ owner' = [owner EXCEPT ![m] = t] /\ Goto(t, from, to) /\ UNCHANGED queue
  BY <1>0, <1>1, <1>2 DEF Goto
<1>3. CASE owner[m] = t /\ Goto(t, from, to) /\ UNCHANGED mutexes
  BY <1>0, <1>1, <1>3 DEF Goto, mutexes
<1>4. CASE /\ owner[m] \notin {nobody, t} /\ queue' = [queue EXCEPT ![m] = @ \cup {t}]
           /\ UNCHANGED <<pc, owner>>
  BY <1>0, <1>1, <1>4
<1> QED BY <1>2, <1>3, <1>4 DEF Lock

LEMMA UnlockKeepsMutexInv ==
  ASSUME TypeOK, MutexInv, NEW t \in Threads, NEW m \in Mutexes, NEW from, NEW to,
         Unlock(t, m, from, to), from \in Critical(t, m), from \notin Waiting(t, m),
         to \notin Critical(t, m),
         \A n \in Mutexes \ {m} : /\ from \in Critical(t, n) <=> to \in Critical(t, n)
                                  /\ from \notin Waiting(t, n)
  PROVE  MutexInv'
<1>0. /\ pc \in [Threads -> Steps] /\ owner \in [Mutexes -> Threads \cup {nobody}]
      /\ queue \in [Mutexes -> SUBSET Threads] /\ nobody \notin Threads
      /\ pc[t] = from /\ pc' = [pc EXCEPT ![t] = to]
  BY ThreadsAssumption DEF TypeOK, Unlock, Goto
<1> SUFFICES ASSUME NEW u \in Threads, NEW n \in Mutexes
             PROVE  /\ pc'[u] \in Critical(u, n) => owner'[n] = u
                    /\ owner'[n] = u => pc'[u] \in Critical(u, n) \cup Waiting(u, n)
                    /\ u \in queue'[n] => pc'[u] \in Waiting(u, n) /\ owner'[n] \notin {nobody, u}
  BY DEF MutexInv
<1>1. /\ pc[u] \in Critical(u, n) => owner[n] = u
      /\ owner[n] = u => pc[u] \in Critical(u, n) \cup Waiting(u, n)
      /\ u \in queue[n] => pc[u] \in Waiting(u, n) /\ owner[n] \notin {nobody, u}
  BY DEF MutexInv
<1>2. owner[m] = t
  BY <1>0 DEF MutexInv
<1>3. CASE queue[m] = {} /\ owner' = [owner EXCEPT ![m] = nobody] /\ UNCHANGED queue
  BY <1>0, <1>1, <1>2, <1>3
<1>4. ASSUME NEW next \in queue[m], owner' = [owner EXCEPT ![m] = next],
             queue' = [queue EXCEPT ![m] = @ \ {next}]
      PROVE  /\ pc'[u] \in Critical(u, n) => owner'[n] = u
             /\ owner'[n] = u => pc'[u] \in Critical(u, n) \cup Waiting(u, n)
             /\ u \in queue'[n] => pc'[u] \in Waiting(u, n) /\ owner'[n] \notin {nobody, u}
  <2>1. next \in Threads /\ next # t /\ pc[next] \in Waiting(next, m) /\ next # nobody
    BY <1>0, <1>2 DEF MutexInv
  <2> QED BY <1>0, <1>1, <1>2, <1>4, <2>1
<1> QED BY <1>3, <1>4 DEF Unlock

\* The sequence of places of each thread follows the table: a mutex is taken where it
\* is waited for, given back where it is held, and all else is neutral.
LEMMA MutexInvKept == TypeOK /\ MutexInv /\ [Next]_vars => MutexInv'
<1> SUFFICES ASSUME TypeOK, MutexInv, [Next]_vars PROVE MutexInv'
  OBVIOUS
<1>0. /\ info \in Threads /\ news \in Threads /\ screen \in Threads
      /\ info # news /\ info # screen /\ news # screen
      /\ "http" \in Mutexes /\ "info" \in Mutexes /\ "news" \in Mutexes
  BY ThreadsAssumption DEF Threads, Mutexes
<1>1. ASSUME NEW t \in {info, news}, Request(t) PROVE MutexInv'
  <2>0. t \in Threads
    BY <1>0
  <2>1. CASE PassGate(t) \/ GiveUp(t) \/ Wake(t)
    <3>1. PICK from \in {"gate", "sleep"}, to \in {"lock http", "gave up"} : Call(t, from, to)
      BY <2>1 DEF PassGate, GiveUp, Wake
    <3>2. Neutral(t, from, to)
      BY <1>0, <3>1 DEF Neutral, Critical, Waiting, Mutexes
    <3> QED BY <2>0, <3>1, <3>2, GotoKeepsMutexInv DEF Call
  <2>2. CASE Socket(t) \/ Connect(t)
    <3>1. PICK from \in {"socket", "connect"}, to \in {"connect", "send", "unlock http"} : Call(t, from, to)
      BY <2>2 DEF Socket, Connect
    <3>2. Neutral(t, from, to)
      BY <1>0, <3>1 DEF Neutral, Critical, Waiting, Mutexes
    <3> QED BY <2>0, <3>1, <3>2, GotoKeepsMutexInv DEF Call
  <2>3. CASE Send(t)
    <3>1. PICK to \in {"recv", "unlock http"} :
             Call(t, "send", to) /\ (to = "recv" => t = info)
      BY <1>1, <2>3 DEF Send
    <3>2. Neutral(t, "send", to)
      BY <1>0, <3>1 DEF Neutral, Critical, Waiting, Mutexes
    <3> QED BY <2>0, <3>1, <3>2, GotoKeepsMutexInv DEF Call
  <2>4. CASE LockHttp(t)
    <3>1. /\ "lock http" \in Waiting(t, "http") /\ "socket" \in Critical(t, "http")
          /\ \A n \in Mutexes \ {"http"} :
                /\ "lock http" \in Critical(t, n) <=> "socket" \in Critical(t, n)
                /\ "lock http" \notin Waiting(t, n)
      BY <1>0 DEF Critical, Waiting, Mutexes
    <3> QED BY <1>0, <2>0, <2>4, <3>1, LockKeepsMutexInv DEF LockHttp
  <2>5. CASE UnlockHttp(t)
    <3>1. PICK to \in {"recv", "sleep"} :
             Unlock(t, "http", "unlock http", to) /\ (to = "recv" => t = news)
      BY <2>5 DEF UnlockHttp
    <3>2. /\ "unlock http" \in Critical(t, "http") /\ to \notin Critical(t, "http")
          /\ "unlock http" \notin Waiting(t, "http")
          /\ \A n \in Mutexes \ {"http"} :
                /\ "unlock http" \in Critical(t, n) <=> to \in Critical(t, n)
                /\ "unlock http" \notin Waiting(t, n)
      BY <1>0, <3>1 DEF Critical, Waiting, Mutexes
    <3> QED BY <1>0, <2>0, <3>1, <3>2, UnlockKeepsMutexInv
  <2>6. CASE Recv(t)
    <3>1. PICK to \in {"lock data", "close"} : Goto(t, "recv", to) /\ UNCHANGED mutexes
      BY <2>6 DEF Recv
    <3>2. Neutral(t, "recv", to)
      BY <1>0, <3>1 DEF Neutral, Critical, Waiting, Mutexes
    <3> QED BY <2>0, <3>1, <3>2, GotoKeepsMutexInv
  <2>7. CASE LockData(t)
    <3> DEFINE m == IF t = info THEN "info" ELSE "news"
    <3>1. /\ m \in Mutexes
          /\ "lock data" \in Waiting(t, m) /\ "parse" \in Critical(t, m)
          /\ \A n \in Mutexes \ {m} :
                /\ "lock data" \in Critical(t, n) <=> "parse" \in Critical(t, n)
                /\ "lock data" \notin Waiting(t, n)
      BY <1>0 DEF Critical, Waiting, Mutexes
    <3>2. Lock(t, m, "lock data", "parse")
      BY <2>7 DEF LockData
    <3> HIDE DEF m
    <3> QED BY <1>0, <2>0, <3>1, <3>2, LockKeepsMutexInv
  <2> QED BY <1>1, <2>1, <2>2, <2>3, <2>4, <2>5, <2>6, <2>7 DEF Request
<1>2. ASSUME NEW f \in Fields, ParseField(f) PROVE MutexInv'
  BY <1>2 DEF ParseField, MutexInv, mutexes
<1>3. CASE InfoParsed \/ ParseNews
  <2>1. PICK t \in {info, news} : Goto(t, "parse", "unlock data") /\ UNCHANGED mutexes
    BY <1>3 DEF InfoParsed, ParseNews
  <2>2. Neutral(t, "parse", "unlock data")
    BY <1>0, <2>1 DEF Neutral, Critical, Waiting, Mutexes
  <2> QED BY <1>0, <2>1, <2>2, GotoKeepsMutexInv
<1>4. CASE UnlockInfo
  <2>1. /\ "unlock data" \in Critical(info, "info") /\ "close" \notin Critical(info, "info")
        /\ "unlock data" \notin Waiting(info, "info")
        /\ \A n \in Mutexes \ {"info"} :
              /\ "unlock data" \in Critical(info, n) <=> "close" \in Critical(info, n)
              /\ "unlock data" \notin Waiting(info, n)
    BY <1>0 DEF Critical, Waiting, Mutexes
  <2> QED BY <1>0, <1>4, <2>1, UnlockKeepsMutexInv DEF UnlockInfo
<1>5. CASE UnlockNews
  <2>1. /\ "unlock data" \in Critical(news, "news") /\ "close" \notin Critical(news, "news")
        /\ "unlock data" \notin Waiting(news, "news")
        /\ \A n \in Mutexes \ {"news"} :
              /\ "unlock data" \in Critical(news, n) <=> "close" \in Critical(news, n)
              /\ "unlock data" \notin Waiting(news, n)
    BY <1>0 DEF Critical, Waiting, Mutexes
  <2> QED BY <1>0, <1>5, <2>1, UnlockKeepsMutexInv DEF UnlockNews
<1>6. CASE CloseInfo
  <2>1. Neutral(info, "close", "unlock http")
    BY <1>0 DEF Neutral, Critical, Waiting, Mutexes
  <2> QED BY <1>0, <1>6, <2>1, GotoKeepsMutexInv DEF CloseInfo, Call
<1>7. CASE CloseNews
  <2>1. PICK to \in {"sleep forever", "sleep"} : Call(news, "close", to)
    BY <1>7 DEF CloseNews
  <2>2. Neutral(news, "close", to)
    BY <1>0, <2>1 DEF Neutral, Critical, Waiting, Mutexes
  <2> QED BY <1>0, <2>1, <2>2, GotoKeepsMutexInv DEF Call
<1>8. CASE ScreenView \/ Show \/ CopyInfo
  <2>1. PICK from \in {"view", "show", "copy"}, to \in {"lock info", "view", "unlock info"} :
           /\ Goto(screen, from, to) /\ UNCHANGED mutexes
           /\ from = "copy" <=> to = "unlock info"
    BY <1>8 DEF ScreenView, Show, CopyInfo, Call
  <2>2. Neutral(screen, from, to)
    BY <1>0, <2>1 DEF Neutral, Critical, Waiting, Mutexes
  <2> QED BY <1>0, <2>1, <2>2, GotoKeepsMutexInv
<1>9. CASE LockInfo
  <2>1. /\ "lock info" \in Waiting(screen, "info") /\ "copy" \in Critical(screen, "info")
        /\ \A n \in Mutexes \ {"info"} :
              /\ "lock info" \in Critical(screen, n) <=> "copy" \in Critical(screen, n)
              /\ "lock info" \notin Waiting(screen, n)
    BY <1>0 DEF Critical, Waiting, Mutexes
  <2> QED BY <1>0, <1>9, <2>1, LockKeepsMutexInv DEF LockInfo
<1>10. CASE LockInfoTimesOut
  <2>1. /\ queue' = [queue EXCEPT !["info"] = @ \ {screen}] /\ UNCHANGED owner
        /\ pc' = [pc EXCEPT ![screen] = "show"] /\ pc[screen] = "lock info"
        /\ screen \in queue["info"]
    BY <1>10 DEF LockInfoTimesOut, Goto
  <2>2. queue \in [Mutexes -> SUBSET Threads] /\ pc \in [Threads -> Steps]
    BY DEF TypeOK
  <2>3. \A m \in Mutexes : /\ "show" \notin Critical(screen, m)
                           /\ "lock info" \notin Critical(screen, m)
                           /\ m # "info" => "lock info" \notin Waiting(screen, m)
    BY <1>0 DEF Critical, Waiting, Mutexes
  <2>4. owner["info"] # screen
    BY <1>0, <2>1 DEF MutexInv
  <2> SUFFICES ASSUME NEW u \in Threads, NEW m \in Mutexes
               PROVE  /\ pc'[u] \in Critical(u, m) => owner[m] = u
                      /\ owner[m] = u => pc'[u] \in Critical(u, m) \cup Waiting(u, m)
                      /\ u \in queue'[m] => pc'[u] \in Waiting(u, m) /\ owner[m] \notin {nobody, u}
    BY <2>1 DEF MutexInv
  <2>5. /\ pc[u] \in Critical(u, m) => owner[m] = u
        /\ owner[m] = u => pc[u] \in Critical(u, m) \cup Waiting(u, m)
        /\ u \in queue[m] => pc[u] \in Waiting(u, m) /\ owner[m] \notin {nobody, u}
    BY DEF MutexInv
  <2>6. CASE u = screen
    BY <1>0, <2>1, <2>2, <2>3, <2>4, <2>5, <2>6
  <2>7. CASE u # screen
    <3>1. pc'[u] = pc[u] /\ (u \in queue'[m] => u \in queue[m])
      BY <1>0, <2>1, <2>2, <2>7
    <3> QED BY <2>5, <3>1
  <2> QED BY <2>6, <2>7
<1>11. CASE UnlockSnapshot
  <2>1. /\ "unlock info" \in Critical(screen, "info") /\ "show" \notin Critical(screen, "info")
        /\ "unlock info" \notin Waiting(screen, "info")
        /\ \A n \in Mutexes \ {"info"} :
              /\ "unlock info" \in Critical(screen, n) <=> "show" \in Critical(screen, n)
              /\ "unlock info" \notin Waiting(screen, n)
    BY <1>0 DEF Critical, Waiting, Mutexes
  <2> QED BY <1>0, <1>11, <2>1, UnlockKeepsMutexInv DEF UnlockSnapshot
<1>12. ASSUME NEW t \in NetThreads, Hang(t) PROVE MutexInv'
  BY <1>12 DEF Hang, MutexInv, mutexes
<1>13. CASE UNCHANGED vars
  BY <1>13 DEF vars, MutexInv
<1> QED
  BY <1>0, <1>1, <1>2, <1>3, <1>4, <1>5, <1>6, <1>7, <1>8, <1>9, <1>10, <1>11, <1>12, <1>13
  DEF Next, Info, News, Screen

\* A socket is opened at "socket" and closed on every way to a rest; it goes through
\* "unlock http" open only if it is that of /news.
LEMMA SockInvKept == TypeOK /\ SockInv /\ [Next]_vars => SockInv'
<1> SUFFICES ASSUME TypeOK, SockInv, [Next]_vars,
                    NEW u \in NetThreads, u \in sock'
             PROVE  pc'[u] \in Connected(u)
  BY DEF SockInv
<1>0. /\ pc \in [Threads -> Steps] /\ sock \in SUBSET NetThreads
      /\ u \in Threads /\ u \in {info, news} /\ u # screen /\ info # news
      /\ info \in Threads /\ news \in Threads /\ screen \in Threads
      /\ u \in sock => pc[u] \in Connected(u)
  BY ThreadsAssumption DEF TypeOK, SockInv, Threads, NetThreads
<1>1. CASE u \in sock /\ pc'[u] = pc[u]
  BY <1>0, <1>1
<1>2. ASSUME NEW t \in {info, news}, Request(t) PROVE pc'[u] \in Connected(u)
  <2>1. CASE t # u
    <3>1. pc'[u] = pc[u] /\ u \in sock
      BY <1>0, <1>2, <2>1
      DEF Request, PassGate, GiveUp, LockHttp, Socket, Connect, Send, UnlockHttp, Recv, LockData,
          Wake, Call, Lock, Unlock, Goto
    <3> QED BY <1>1, <3>1
  <2>2. CASE t = u
    <3>1. CASE PassGate(u) \/ GiveUp(u) \/ Wake(u) \/ LockHttp(u)
      BY <1>0, <1>1, <3>1 DEF PassGate, GiveUp, Wake, LockHttp, Call, Lock, Goto, Connected
    <3>2. CASE Socket(u) \/ Connect(u) \/ Send(u)
      BY <1>0, <3>2 DEF Socket, Connect, Send, Call, Goto, Connected
    <3>3. CASE UnlockHttp(u)
      BY <1>0, <3>3 DEF UnlockHttp, Unlock, Goto, Connected
    <3>4. CASE Recv(u)
      BY <1>0, <3>4 DEF Recv, Goto, Connected
    <3>5. CASE LockData(u)
      BY <1>0, <1>1, <3>5 DEF LockData, Lock, Goto, Connected
    <3> QED BY <1>2, <2>2, <3>1, <3>2, <3>3, <3>4, <3>5 DEF Request
  <2> QED BY <2>1, <2>2
<1>3. ASSUME NEW f \in Fields, ParseField(f) PROVE pc'[u] \in Connected(u)
  BY <1>1, <1>3 DEF ParseField
<1>4. CASE InfoParsed \/ ParseNews
  BY <1>0, <1>1, <1>4 DEF InfoParsed, ParseNews, Goto, Connected
<1>5. CASE UnlockInfo \/ UnlockNews
  BY <1>0, <1>1, <1>5 DEF UnlockInfo, UnlockNews, Unlock, Goto, Connected
<1>6. CASE CloseInfo \/ CloseNews
  <2>1. PICK t \in {info, news}, to \in Steps : Goto(t, "close", to) /\ sock' = sock \ {t}
    BY <1>6 DEF CloseInfo, CloseNews, Call, Steps
  <2> QED BY <1>0, <1>1, <2>1 DEF Goto
<1>7. CASE Screen
  <2>1. pc'[u] = pc[u] /\ sock' = sock
    BY <1>0, <1>7
    DEF Screen, ScreenView, LockInfo, LockInfoTimesOut, CopyInfo, UnlockSnapshot, Show, Call,
        Lock, Unlock, Goto
  <2> QED BY <1>1, <2>1
<1>8. CASE (\E t \in NetThreads : Hang(t)) \/ UNCHANGED vars
  BY <1>1, <1>8 DEF Hang, vars
<1> QED BY <1>2, <1>3, <1>4, <1>5, <1>6, <1>7, <1>8 DEF Next, Info, News

\* g_info changes only while the info thread is between its lock and its unlock, and
\* the unlock publishes it.
LEMMA PublishedInvKept == TypeOK /\ PublishedInv /\ [Next]_vars => PublishedInv'
<1> SUFFICES ASSUME TypeOK, PublishedInv, [Next]_vars PROVE PublishedInv'
  OBVIOUS
<1>0. /\ pc \in [Threads -> Steps] /\ info # news /\ info # screen
      /\ info \in Threads /\ news \in Threads /\ screen \in Threads
  BY ThreadsAssumption DEF TypeOK, Threads
<1>1. CASE UNCHANGED <<g_info, published>> /\ pc'[info] = pc[info]
  BY <1>1 DEF PublishedInv
<1>2. CASE Request(info)
  <2>1. UNCHANGED <<g_info, published>> /\ pc[info] \notin {"parse", "unlock data"}
    BY <1>0, <1>2
    DEF Request, PassGate, GiveUp, LockHttp, Socket, Connect, Send, UnlockHttp, Recv, LockData,
        Wake, Call, Lock, Unlock, Goto, data
  <2> QED BY <2>1 DEF PublishedInv
<1>3. CASE Request(news)
  <2>1. UNCHANGED <<g_info, published>> /\ pc'[info] = pc[info]
    BY <1>0, <1>3
    DEF Request, PassGate, GiveUp, LockHttp, Socket, Connect, Send, UnlockHttp, Recv, LockData,
        Wake, Call, Lock, Unlock, Goto, data
  <2> QED BY <1>1, <2>1
<1>4. ASSUME NEW f \in Fields, ParseField(f) PROVE PublishedInv'
  BY <1>4 DEF ParseField, PublishedInv
<1>5. CASE InfoParsed
  BY <1>0, <1>5 DEF InfoParsed, Goto, PublishedInv
<1>6. CASE UnlockInfo
  BY <1>0, <1>6 DEF UnlockInfo, PublishedInv
<1>7. CASE CloseInfo
  BY <1>0, <1>7 DEF CloseInfo, Call, Goto, PublishedInv, data
<1>8. CASE ParseNews \/ UnlockNews \/ CloseNews
  <2>1. UNCHANGED <<g_info, published>> /\ pc'[info] = pc[info]
    BY <1>0, <1>8 DEF ParseNews, UnlockNews, CloseNews, Call, Unlock, Goto, data
  <2> QED BY <1>1, <2>1
<1>9. CASE Screen
  <2>1. UNCHANGED <<g_info, published>> /\ pc'[info] = pc[info]
    BY <1>0, <1>9
    DEF Screen, ScreenView, LockInfo, LockInfoTimesOut, CopyInfo, UnlockSnapshot, Show, Call,
        Lock, Unlock, Goto, data
  <2> QED BY <1>1, <2>1
<1>10. CASE (\E t \in NetThreads : Hang(t)) \/ UNCHANGED vars
  BY <1>1, <1>10 DEF Hang, vars, data
<1> QED BY <1>2, <1>3, <1>4, <1>5, <1>6, <1>7, <1>8, <1>9, <1>10 DEF Next, Info, News

LEMMA FetchInvAlways == Spec => []FetchInv
<1>1. Init => FetchInv
  <2> SUFFICES ASSUME Init PROVE FetchInv
    OBVIOUS
  <2>1. \A t \in Threads, m \in Mutexes : pc[t] \notin Critical(t, m)
    BY ThreadsAssumption DEF Init, Threads, Critical
  <2>2. MutexInv
    BY <2>1, ThreadsAssumption DEF Init, MutexInv
  <2> QED BY <2>2 DEF Init, FetchInv, SockInv, PublishedInv
<1>2. TypeOK /\ FetchInv /\ [Next]_vars => FetchInv'
  BY MutexInvKept, SockInvKept, PublishedInvKept DEF FetchInv
<1> QED BY <1>1, <1>2, FetchTyping, PTL DEF Spec

-----------------------------------------------------------------------------
\* Whichever of the error paths of http_request a thread came by, and wherever the
\* other threads are, it sleeps without a mutex, a socket or a place in a queue.
THEOREM RestsEmptyHanded == Spec => []NothingHeldAtRest
<1>1. TypeOK /\ FetchInv => NothingHeldAtRest
  <2> SUFFICES ASSUME TypeOK, FetchInv, NEW t \in Threads, pc[t] \in AtRest
               PROVE  /\ Holds(t) = {} /\ t \notin sock
                      /\ \A m \in Mutexes : t \notin queue[m]
    BY DEF NothingHeldAtRest
  <2>1. \A m \in Mutexes : pc[t] \notin Critical(t, m) \cup Waiting(t, m)
    BY DEF AtRest, Critical, Waiting
  <2>2. \A m \in Mutexes : owner[m] # t /\ t \notin queue[m]
    BY <2>1 DEF FetchInv, MutexInv
  <2>3. t \notin sock
    BY DEF TypeOK, FetchInv, SockInv, Connected, AtRest
  <2> QED BY <2>2, <2>3 DEF Holds
<1> QED BY <1>1, FetchTyping, FetchInvAlways, PTL

\* What the screen thread copies is a g_info that one parse left whole: while it is
\* at its copy it owns info_mutex, so that the info thread is not at its parse.
THEOREM SnapshotsWhole == Spec => SnapshotsAreWhole
<1> DEFINE Whole == pc[screen] = "copy" /\ pc'[screen] # "copy" => snapshot' = published
<1>1. TypeOK /\ FetchInv /\ [Next]_vars => [Whole]_vars
  <2> SUFFICES ASSUME TypeOK, FetchInv, [Next]_vars, pc[screen] = "copy", pc'[screen] # "copy"
               PROVE  snapshot' = published
    OBVIOUS
  <2>0. /\ pc \in [Threads -> Steps] /\ info # screen /\ news # screen
        /\ info \in Threads /\ news \in Threads /\ screen \in Threads /\ "info" \in Mutexes
    BY ThreadsAssumption DEF TypeOK, Threads, Mutexes
  <2>1. owner["info"] = screen
    BY <2>0 DEF FetchInv, MutexInv, Critical
  <2>2. pc[info] \notin {"parse", "unlock data"}
    BY <2>0, <2>1 DEF FetchInv, MutexInv, Critical
  <2>3. g_info = published
    BY <2>2 DEF FetchInv, PublishedInv
  <2>4. CASE Info \/ News \/ (\E t \in NetThreads : Hang(t)) \/ UNCHANGED vars
    <3>1. pc'[screen] = pc[screen]
      <4>1. ASSUME NEW t \in {info, news}, Request(t) PROVE pc'[screen] = pc[screen]
        BY <2>0, <4>1
        DEF Request, PassGate, GiveUp, LockHttp, Socket, Connect, Send, UnlockHttp, Recv,
            LockData, Wake, Call, Lock, Unlock, Goto
      <4>2. CASE \E f \in Fields : ParseField(f)
        BY <4>2 DEF ParseField
      <4>3. CASE \/ InfoParsed \/ UnlockInfo \/ CloseInfo
                 \/ ParseNews \/ UnlockNews \/ CloseNews
        BY <2>0, <4>3
        DEF InfoParsed, UnlockInfo, CloseInfo, ParseNews, UnlockNews, CloseNews, Call, Unlock, Goto
      <4> QED BY <2>4, <4>1, <4>2, <4>3 DEF Info, News, Hang, vars
    <3> QED BY <3>1
  <2>5. CASE Screen
    BY <2>0, <2>3, <2>5
    DEF Screen, ScreenView, LockInfo, LockInfoTimesOut, CopyInfo, UnlockSnapshot, Show, Call,
        Lock, Unlock, Goto
  <2> QED BY <2>4, <2>5 DEF Next
<1> QED BY <1>1, FetchTyping, FetchInvAlways, PTL DEF Spec, SnapshotsAreWhole

-----------------------------------------------------------------------------
(***************************************************************************)
(* Why a call that hangs and a mutex that is held stop as little as they   *)
(* do: what the liveness properties of Fetch rest on.                      *)
(***************************************************************************)
HungInv == \A t \in hung : pc[t] \in {"connect", "send", "recv"}

LEMMA HungInvKept == TypeOK /\ HungInv /\ [Next]_vars => HungInv'
<1> SUFFICES ASSUME TypeOK, HungInv, [Next]_vars, NEW u \in hung'
             PROVE  pc'[u] \in {"connect", "send", "recv"}
  BY DEF HungInv
<1>0. /\ pc \in [Threads -> Steps] /\ hung \in SUBSET {info, news}
      /\ info \in Threads /\ news \in Threads /\ screen \in Threads
      /\ info # news /\ info # screen /\ news # screen
      /\ u \in hung => pc[u] \in {"connect", "send", "recv"}
  BY ThreadsAssumption DEF TypeOK, HungInv, Threads, NetThreads
<1>1. CASE u \in hung /\ pc'[u] = pc[u]
  BY <1>0, <1>1
<1>2. ASSUME UNCHANGED hung, NEW t \in Threads, NEW from, NEW to, Goto(t, from, to)
      PROVE  pc'[u] \in {"connect", "send", "recv"}
  BY <1>0, <1>2 DEF Goto
<1>3. ASSUME NEW t \in Threads, NEW m, NEW from, NEW to,
             Lock(t, m, from, to) \/ Unlock(t, m, from, to) \/ Call(t, from, to)
      PROVE  pc'[u] \in {"connect", "send", "recv"}
  BY <1>1, <1>2, <1>3 DEF Lock, Unlock, Call
<1>4. ASSUME NEW t \in {info, news}, Request(t) PROVE pc'[u] \in {"connect", "send", "recv"}
  <2>1. CASE PassGate(t) \/ GiveUp(t) \/ Socket(t) \/ Connect(t) \/ Send(t) \/ Wake(t)
    BY <1>0, <1>3, <2>1 DEF PassGate, GiveUp, Socket, Connect, Send, Wake
  <2>2. CASE LockHttp(t) \/ UnlockHttp(t) \/ LockData(t)
    BY <1>0, <1>3, <2>2 DEF LockHttp, UnlockHttp, LockData
  <2>3. CASE Recv(t)
    BY <1>0, <1>2, <2>3 DEF Recv
  <2> QED BY <1>4, <2>1, <2>2, <2>3 DEF Request
<1>5. ASSUME NEW f \in Fields, ParseField(f) PROVE pc'[u] \in {"connect", "send", "recv"}
  BY <1>1, <1>5 DEF ParseField
<1>6. CASE InfoParsed \/ ParseNews
  BY <1>0, <1>2, <1>6 DEF InfoParsed, ParseNews
<1>7. CASE UnlockInfo \/ UnlockNews \/ CloseInfo \/ CloseNews
  BY <1>0, <1>3, <1>7 DEF UnlockInfo, UnlockNews, CloseInfo, CloseNews
<1>8. CASE ScreenView \/ CopyInfo \/ LockInfoTimesOut
  BY <1>0, <1>2, <1>8 DEF ScreenView, CopyInfo, LockInfoTimesOut
<1>9. CASE LockInfo \/ UnlockSnapshot \/ Show
  BY <1>0, <1>3, <1>9 DEF LockInfo, UnlockSnapshot, Show
<1>10. CASE \E t \in NetThreads : Hang(t)
  BY <1>0, <1>10 DEF Hang
<1>11. CASE UNCHANGED vars
  BY <1>1, <1>11 DEF vars
<1> QED BY <1>4, <1>5, <1>6, <1>7, <1>8, <1>9, <1>10, <1>11 DEF Next, Info, News, Screen

\* A thread whose socket call does not return holds no mutex but http_mutex, and none
\* at all if it is the download of /news that hangs.
HungHoldsLittle ==
    \A t \in hung : /\ Holds(t) \subseteq {"http"}
                    /\ t = news /\ pc[t] = "recv" => Holds(t) = {}

\* No call that can hang is made with info_mutex or news_mutex held, so that a hung
\* network thread never stops the screen thread, and a hung download of /news nobody
\* (network_config.c:192-211, networking_config_news.c:146-149).
THEOREM HungHolds == Spec => []HungHoldsLittle
<1>1. Init => HungInv
  BY DEF Init, HungInv
<1>2. TypeOK /\ FetchInv /\ HungInv => HungHoldsLittle
  <2> SUFFICES ASSUME TypeOK, FetchInv, HungInv, NEW t \in hung
               PROVE  /\ Holds(t) \subseteq {"http"}
                      /\ t = news /\ pc[t] = "recv" => Holds(t) = {}
    BY DEF HungHoldsLittle
  <2>1. /\ t \in Threads /\ t \in {info, news} /\ info # news /\ news # screen
        /\ pc[t] \in {"connect", "send", "recv"}
    BY ThreadsAssumption DEF TypeOK, HungInv, NetThreads, Threads
  <2>2. ASSUME NEW m \in {"info", "news"} PROVE owner[m] # t
    <3>1. pc[t] \notin Critical(t, m) \cup Waiting(t, m)
      BY <2>1 DEF Critical, Waiting
    <3> QED BY <2>1, <3>1 DEF FetchInv, MutexInv, Mutexes
  <2>3. ASSUME t = news, pc[t] = "recv" PROVE owner["http"] # t
    <3>1. pc[t] \notin Critical(t, "http") \cup Waiting(t, "http")
      BY <2>1, <2>3 DEF Critical, Waiting
    <3> QED BY <2>1, <3>1 DEF FetchInv, MutexInv, Mutexes
  <2> QED BY <2>2, <2>3 DEF Holds, Mutexes
<1> QED BY <1>1, <1>2, HungInvKept, FetchTyping, FetchInvAlways, PTL DEF Spec

\* Who owns g_info or g_news, or has just been handed it, waits for nothing.
LocksAreOrdered ==
    \A t \in Threads, m \in {"info", "news"}, n \in Mutexes : owner[m] = t => t \notin queue[n]

\* The waits lead from http_mutex to the mutexes of the data and never back, so that
\* no threads wait on each other in a circle (info_mutex is taken inside http_mutex by
\* one thread, network_config.c:38, and alone by another, screen.c:112).
THEOREM LocksOrdered == Spec => []LocksAreOrdered
<1>1. TypeOK /\ FetchInv => LocksAreOrdered
  <2> SUFFICES ASSUME TypeOK, FetchInv,
                      NEW t \in Threads, NEW m \in {"info", "news"}, NEW n \in Mutexes,
                      owner[m] = t, t \in queue[n]
               PROVE  FALSE
    BY DEF LocksAreOrdered
  <2>1. m \in Mutexes /\ info # news /\ info # screen /\ news # screen
    BY ThreadsAssumption DEF Mutexes
  <2>2. pc[t] \in Critical(t, m) \cup Waiting(t, m) /\ pc[t] \in Waiting(t, n) /\ n # m
    BY <2>1 DEF FetchInv, MutexInv
  <2> QED BY <2>1, <2>2 DEF Critical, Waiting, Mutexes
<1> QED BY <1>1, FetchTyping, FetchInvAlways, PTL
=============================================================================
