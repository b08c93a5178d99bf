------------------------------ MODULE WifiGate ------------------------------
(***************************************************************************)
(* How the threads learn that the network is up: wifi_connect.c, its event *)
(* handler and the first lines of network_config and network_config_news.  *)
(* All of it goes through wifi_ready_sem, a semaphore with a limit of 1:   *)
(* the handler gives it once when the address arrives, the wifi thread is  *)
(* meant to take that token and to give two in its place, one for each     *)
(* network thread, and every wait has a time limit.                        *)
(*                                                                         *)
(* Time is counted in seconds and stands still while a thread can run.     *)
(***************************************************************************)
EXTENDS Integers

CONSTANTS info, news,             \* the threads t_info_web and t_news_web
          StartDelays,            \* what START_FIRST_REQEST, START_SECOND_REQEST may be (0)
          Settle,                 \* the wifi thread's sleep before it connects (5)
          ConnectCall,            \* bound: seconds net_mgmt() may take to connect
          WifiWait,               \* seconds the wifi thread waits for the address (30)
          NetWait,                \* seconds a network thread waits for a token (60)
          EarlyAddress,           \* may the address come before the wifi thread waits?
          Horizon                 \* bound: the last second looked at

NetThreads == {info, news}

ASSUME ThreadsAssumption == info # news

ASSUME WaitsAssumption ==
    /\ StartDelays \subseteq Nat
    /\ Settle \in Nat /\ ConnectCall \in Nat /\ WifiWait \in Nat /\ NetWait \in Nat
    /\ EarlyAddress \in BOOLEAN
    /\ Horizon \in Nat

VARIABLES
    now,         \* seconds since the threads were started
    sem,         \* the count of wifi_ready_sem
    ip_handled,  \* set by the first NET_EVENT_IPV4_ADDR_ADD
    wifi,        \* where the wifi thread is
    wake,        \* when its sleep, call or wait ends
    net,         \* where each network thread is
    limit,       \* when its start delay or wait ends
    delay        \* its start delay, chosen once and for all

vars == <<now, sem, ip_handled, wifi, wake, net, limit, delay>>

WifiSteps == {"settle", "connect", "calling", "take", "waiting", "give", "give again",
              "ready", "timed out", "failed"}
NetSteps  == {"delayed", "take", "waiting", "running", "gave up"}

TypeOK ==
    /\ now \in Nat
    /\ sem \in {0, 1}
    /\ ip_handled \in BOOLEAN
    /\ wifi \in WifiSteps
    /\ wake \in Nat
    /\ net \in [NetThreads -> NetSteps]
    /\ limit \in [NetThreads -> Nat]
    /\ delay \in [NetThreads -> StartDelays]

Init ==
    /\ now = 0
    /\ sem = 0
    /\ ip_handled = FALSE
    /\ wifi = "settle" /\ wake = Settle
    /\ delay \in [NetThreads -> StartDelays]
    /\ net = [t \in NetThreads |-> "delayed"] /\ limit = delay

\* Both network threads wait before the wifi thread connects, and they wait
\* longer than it can take to get the address or to give up.  The values of
\* main.c and wifi_connect.c have this property; other delays need not.
HandoffTiming == /\ \A t \in NetThreads : delay[t] < Settle
                 /\ Settle + ConnectCall + WifiWait < NetWait

-----------------------------------------------------------------------------
(***************************************************************************)
(* External: the kernel's semaphore.  A give wakes the waiter of highest   *)
(* priority and hands it the token; the wifi thread (1) precedes the       *)
(* network threads (2), which are equal.  Without a waiter it counts, up   *)
(* to the limit.                                                           *)
(***************************************************************************)
NetWaiters == {t \in NetThreads : net[t] = "waiting"}

\* Mutant: a semaphore without a limit.
GiveUnlimited == IF NetWaiters # {}
                 THEN /\ \E t \in NetWaiters : net' = [net EXCEPT ![t] = "running"]
                      /\ UNCHANGED sem
                 ELSE sem' = sem + 1 /\ UNCHANGED net

\* Given that the wifi thread does not wait, or is the giver.
GiveToNet == IF NetWaiters # {}
             THEN /\ \E t \in NetWaiters : net' = [net EXCEPT ![t] = "running"]
                  /\ UNCHANGED sem
             ELSE sem' = 1 /\ UNCHANGED net

WifiRunnable == \/ wifi \in {"connect", "take", "give", "give again"}
                \/ wifi \in {"settle", "calling", "waiting"} /\ now >= wake

NetRunnable(t) == \/ net[t] = "take"
                  \/ net[t] \in {"delayed", "waiting"} /\ now >= limit[t]

Tick == /\ now < Horizon
        /\ ~WifiRunnable
        /\ \A t \in NetThreads : ~NetRunnable(t)
        /\ now' = now + 1
        /\ UNCHANGED <<sem, ip_handled, wifi, wake, net, limit, delay>>

-----------------------------------------------------------------------------
(***************************************************************************)
(* wifi_connect                                                            *)
(***************************************************************************)
WifiGoto(from, to) == wifi = from /\ wifi' = to

\* Nothing but the wifi thread's own place changes.
WifiOnly == UNCHANGED <<now, sem, ip_handled, net, limit, delay>>

Settled == now >= wake /\ WifiGoto("settle", "connect") /\ WifiOnly /\ UNCHANGED wake

NoInterface == WifiGoto("connect", "failed") /\ WifiOnly /\ UNCHANGED wake

ConnectRequest == /\ WifiGoto("connect", "calling")
                  /\ wake' \in now .. now + ConnectCall
                  /\ WifiOnly

RequestFails == now >= wake /\ WifiGoto("calling", "failed") /\ WifiOnly /\ UNCHANGED wake

RequestReturns == now >= wake /\ WifiGoto("calling", "take") /\ WifiOnly /\ UNCHANGED wake

\* k_sem_take(&wifi_ready_sem, K_SECONDS(30))
WifiTakes == /\ WifiGoto("take", "give")
             /\ sem = 1
             /\ sem' = 0
             /\ UNCHANGED <<now, ip_handled, wake, net, limit, delay>>

WifiWaits == /\ WifiGoto("take", "waiting")
             /\ sem = 0
             /\ wake' = now + WifiWait
             /\ WifiOnly

WifiTimesOut == now >= wake /\ WifiGoto("waiting", "timed out") /\ WifiOnly /\ UNCHANGED wake

\* Mutant: one give for the two network threads.
GivesOnce(from, to) == /\ WifiGoto(from, "ready")
                       /\ GiveToNet
                       /\ UNCHANGED <<now, ip_handled, wake, limit, delay>>

WifiGives(from, to) == /\ WifiGoto(from, to)
                       /\ GiveToNet
                       /\ UNCHANGED <<now, ip_handled, wake, limit, delay>>

WifiThread == \/ Settled \/ NoInterface \/ ConnectRequest \/ RequestFails \/ RequestReturns
              \/ WifiTakes \/ WifiWaits \/ WifiTimesOut
              \/ WifiGives("give", "give again") \/ WifiGives("give again", "ready")

(***************************************************************************)
(* event_handler, on NET_EVENT_IPV4_ADDR_ADD.  It runs in the network      *)
(* management thread, above all the others, at any time after the request. *)
(* Later addresses find ip_handled set and change nothing.                 *)
(***************************************************************************)
\* Mutant: the handler wakes the wifi thread and gives nothing if it does not wait.
AddressNoted ==
    /\ wifi \in (IF EarlyAddress THEN {"calling", "take"} ELSE {}) \cup {"waiting", "timed out"}
    /\ ~ip_handled
    /\ ip_handled' = TRUE
    /\ wifi' = IF wifi = "waiting" THEN "give" ELSE wifi
    /\ UNCHANGED <<now, sem, wake, net, limit, delay>>

AddressAdded ==
    /\ wifi \in (IF EarlyAddress THEN {"calling", "take"} ELSE {}) \cup {"waiting", "timed out"}
    /\ ~ip_handled
    /\ ip_handled' = TRUE
    /\ IF wifi = "waiting" THEN wifi' = "give" /\ UNCHANGED <<sem, net>>
                           ELSE GiveToNet /\ UNCHANGED wifi
    /\ UNCHANGED <<now, wake, limit, delay>>

(***************************************************************************)
(* The first lines of network_config and network_config_news.  The kernel  *)
(* ends their delays and waits; to run, they need the wifi thread out of   *)
(* the way.                                                                *)
(***************************************************************************)
NetGoto(t, from, to) == /\ net[t] = from
                        /\ net' = [net EXCEPT ![t] = to]
                        /\ UNCHANGED <<now, ip_handled, wifi, wake, delay>>

NetStarts(t) == now >= limit[t] /\ NetGoto(t, "delayed", "take") /\ UNCHANGED <<sem, limit>>

\* k_sem_take(&wifi_ready_sem, K_SECONDS(60))
NetTakes(t) == /\ NetGoto(t, "take", "running")
               /\ ~WifiRunnable
               /\ sem = 1
               /\ sem' = 0
               /\ UNCHANGED limit

\* Mutant: K_FOREVER for K_SECONDS(60).
NetWaitsForEver(t) == /\ NetGoto(t, "take", "waiting")
                      /\ ~WifiRunnable
                      /\ sem = 0
                      /\ limit' = [limit EXCEPT ![t] = Horizon + 1]
                      /\ UNCHANGED sem

NetWaits(t) == /\ NetGoto(t, "take", "waiting")
               /\ ~WifiRunnable
               /\ sem = 0
               /\ limit' = [limit EXCEPT ![t] = now + NetWait]
               /\ UNCHANGED sem

NetTimesOut(t) == now >= limit[t] /\ NetGoto(t, "waiting", "gave up") /\ UNCHANGED <<sem, limit>>

NetThread(t) == NetStarts(t) \/ NetTakes(t) \/ NetWaits(t) \/ NetTimesOut(t)

Next == Tick \/ WifiThread \/ AddressAdded \/ \E t \in NetThreads : NetThread(t)

(***************************************************************************)
(* Time passes and threads that can run do run.  Nothing is assumed of the *)
(* address: it may never come.                                             *)
(***************************************************************************)
Spec == /\ Init /\ [][Next]_vars
        /\ WF_vars(Tick) /\ WF_vars(WifiThread)
        /\ \A t \in NetThreads : WF_vars(NetThread(t))

-----------------------------------------------------------------------------
\* When the wifi thread has given its two tokens, both network threads have one,
\* if they were there in time: none is lost to the semaphore's limit of 1, none goes
\* to a thread that gave up waiting, and no thread takes both (wifi_connect.c:103-107).
HandoffReachesBoth ==
    HandoffTiming /\ wifi = "ready" => \A t \in NetThreads : net[t] = "running"

\* Tokens and the address come and go together: before the board has an address there
\* is no token and no network thread uses the network; and the address is worth at
\* least one running network thread, its token being in the semaphore, about to be
\* handed on or with a thread, whoever was waiting, had given up or had not yet
\* started to wait.
TokensFollowAddress ==
    ip_handled <=> \/ sem = 1
                   \/ wifi \in {"give", "give again"}
                   \/ \E t \in NetThreads : net[t] = "running"

\* Every wait has an end: no thread hangs if the address never comes.
WaitsEnd == <>(/\ wifi \in {"ready", "timed out", "failed"}
               /\ \A t \in NetThreads : net[t] \in {"running", "gave up"})

\* A network thread gives up only if there is no address: both can proceed once
\* there is one.  The code does not keep this: if the address comes after the
\* wifi thread's 30 seconds, the handler's one token is the only one.
NobodyGivesUpWithAddress ==
    [][\A t \in NetThreads : net[t] # "gave up" /\ net'[t] = "gave up" => ~ip_handled]_vars
=============================================================================
