--------------------------- MODULE WifiGateProofs ---------------------------
(***************************************************************************)
(* Theorems about WifiGate for every delay and every limit of the waits.   *)
(* What needs the code's timing says so in its hypothesis (HandoffTiming). *)
(***************************************************************************)
EXTENDS WifiGate, TLAPS

LEMMA GiveType ==
  ASSUME TypeOK, GiveToNet
  PROVE  sem' \in {0, 1} /\ net' \in [NetThreads -> NetSteps]
<1>1. CASE NetWaiters # {}
  <2>1. PICK t \in NetWaiters : net' = [net EXCEPT ![t] = "running"]
    BY <1>1 DEF GiveToNet
  <2>2. net' \in [NetThreads -> NetSteps]
    BY <2>1 DEF TypeOK, NetSteps
  <2>3. sem' = sem
    BY <1>1 DEF GiveToNet
  <2> QED BY <2>2, <2>3 DEF TypeOK
<1>2. CASE NetWaiters = {}
  BY <1>2 DEF GiveToNet, TypeOK
<1> QED BY <1>1, <1>2

\* The semaphore's count stays within its limit and every thread where the code
\* can be.
THEOREM Typing == Spec => []TypeOK
<1>1. Init => TypeOK
  <2>1. Init => limit \in [NetThreads -> Nat] /\ delay \in [NetThreads -> StartDelays]
    BY WaitsAssumption DEF Init
  <2>2. Init => net \in [NetThreads -> NetSteps]
    BY DEF Init, NetSteps
  <2>3. Init => wifi \in WifiSteps /\ wake \in Nat
    BY WaitsAssumption DEF Init, WifiSteps
  <2>4. Init => now = 0 /\ sem \in {0, 1} /\ ip_handled \in BOOLEAN
    BY DEF Init
  <2>5. 0 \in Nat
    OBVIOUS
  <2> QED BY <2>1, <2>2, <2>3, <2>4, <2>5 DEF TypeOK
<1>2. TypeOK /\ [Next]_vars => TypeOK'
  <2> SUFFICES ASSUME TypeOK, [Next]_vars PROVE TypeOK'
    OBVIOUS
  <2>1. CASE Tick
    BY <2>1 DEF TypeOK, Tick
  <2>2. CASE WifiThread
    <3>1. CASE ConnectRequest
      BY <3>1, WaitsAssumption DEF TypeOK, ConnectRequest, WifiOnly, WifiGoto, WifiSteps
    <3>2. CASE WifiTakes
      BY <3>2 DEF TypeOK, WifiTakes, WifiGoto, WifiSteps
    <3>3. CASE WifiWaits
      BY <3>3, WaitsAssumption DEF TypeOK, WifiWaits, WifiOnly, WifiGoto, WifiSteps
    <3>4. CASE WifiGives("give", "give again")
      <4>1. sem' \in {0, 1} /\ net' \in [NetThreads -> NetSteps]
        BY <3>4, GiveType DEF WifiGives
      <4> QED BY <3>4, <4>1 DEF TypeOK, WifiGives, WifiGoto, WifiSteps
    <3>5. CASE WifiGives("give again", "ready")
      <4>1. sem' \in {0, 1} /\ net' \in [NetThreads -> NetSteps]
        BY <3>5, GiveType DEF WifiGives
      <4> QED BY <3>5, <4>1 DEF TypeOK, WifiGives, WifiGoto, WifiSteps
    <3>6. CASE Settled \/ NoInterface \/ RequestFails \/ RequestReturns \/ WifiTimesOut
      BY <3>6 DEF TypeOK, Settled, NoInterface, RequestFails, RequestReturns, WifiTimesOut,
                  WifiOnly, WifiGoto, WifiSteps
    <3> QED BY <2>2, <3>1, <3>2, <3>3, <3>4, <3>5, <3>6 DEF WifiThread
  <2>3. CASE AddressAdded
    <3>1. CASE wifi = "waiting"
      BY <2>3, <3>1 DEF TypeOK, AddressAdded, WifiSteps
    <3>2. CASE wifi # "waiting"
      <4>1. sem' \in {0, 1} /\ net' \in [NetThreads -> NetSteps]
        BY <2>3, <3>2, GiveType DEF AddressAdded
      <4> QED BY <2>3, <3>2, <4>1 DEF TypeOK, AddressAdded
    <3> QED BY <3>1, <3>2
  <2>4. ASSUME NEW t \in NetThreads, NetThread(t) PROVE TypeOK'
    <3>1. CASE NetStarts(t)
      BY <3>1 DEF TypeOK, NetStarts, NetGoto, NetSteps
    <3>2. CASE NetTakes(t)
      <4>1. sem' = 0
        BY <3>2 DEF NetTakes
      <4>2. net' \in [NetThreads -> NetSteps]
        BY <3>2 DEF TypeOK, NetTakes, NetGoto, NetSteps
      <4> QED BY <3>2, <4>1, <4>2 DEF TypeOK, NetTakes, NetGoto
    <3>3. CASE NetWaits(t)
      <4>1. net' \in [NetThreads -> NetSteps]
        BY <3>3 DEF TypeOK, NetWaits, NetGoto, NetSteps
      <4>2. limit' \in [NetThreads -> Nat]
        BY <3>3, WaitsAssumption DEF TypeOK, NetWaits
      <4> QED BY <3>3, <4>1, <4>2 DEF TypeOK, NetWaits, NetGoto
    <3>4. CASE NetTimesOut(t)
      BY <3>4 DEF TypeOK, NetTimesOut, NetGoto, NetSteps
    <3> QED BY <2>4, <3>1, <3>2, <3>3, <3>4 DEF NetThread
  <2>5. CASE UNCHANGED vars
    BY <2>5 DEF TypeOK, vars
  <2> QED BY <2>1, <2>2, <2>3, <2>4, <2>5 DEF Next
<1> QED BY <1>1, <1>2, PTL DEF Spec

-----------------------------------------------------------------------------
\* Tokens come only from an address.
TokensFromAddress ==
    ~ip_handled => /\ sem = 0
                   /\ wifi \notin {"give", "give again", "ready"}
                   /\ \A t \in NetThreads : net[t] # "running"

\* No network thread runs before the board has an address, and the address is
\* worth at least one running thread, whatever the delays and the waits are.
LEMMA TokensAccounted == Spec => [](TokensFollowAddress /\ TokensFromAddress)
<1> DEFINE Inv == TokensFromAddress /\ TokensFollowAddress
<1> USE DEF TokensFromAddress, TokensFollowAddress
<1>1. Init => Inv
  BY DEF Init
<1>2. TypeOK /\ Inv /\ [Next]_vars => Inv'
  <2> SUFFICES ASSUME TypeOK, Inv, [Next]_vars PROVE Inv'
    OBVIOUS
  <2>1. CASE Tick
    BY <2>1 DEF Tick
  <2>2. CASE WifiThread
    <3> USE DEF WifiGoto, WifiOnly
    <3>0. CASE WifiTakes
      BY <3>0 DEF WifiTakes
    <3>1. CASE WifiWaits
      BY <3>1 DEF WifiWaits
    <3>2. CASE WifiGives("give", "give again")
      BY <3>2 DEF WifiGives, GiveToNet, NetWaiters
    <3>3. CASE WifiGives("give again", "ready")
      <4>1. CASE NetWaiters # {}
        <5>1. PICK t \in NetWaiters : net' = [net EXCEPT ![t] = "running"]
          BY <3>3, <4>1 DEF WifiGives, GiveToNet
        <5>2. t \in NetThreads /\ net'[t] = "running"
          BY <5>1 DEF NetWaiters, TypeOK
        <5> QED BY <3>3, <5>2 DEF WifiGives
      <4>2. CASE NetWaiters = {}
        BY <3>3, <4>2 DEF WifiGives, GiveToNet
      <4> QED BY <4>1, <4>2
    <3>4. CASE Settled \/ NoInterface \/ ConnectRequest \/ RequestFails \/ RequestReturns
               \/ WifiTimesOut
      <4>1. /\ UNCHANGED <<sem, ip_handled, net>>
            /\ {wifi, wifi'} \cap {"give", "give again", "ready"} = {}
        BY <3>4 DEF Settled, NoInterface, ConnectRequest, RequestFails, RequestReturns,
                    WifiTimesOut
      <4> QED BY <4>1
    <3> QED BY <2>2, <3>0, <3>1, <3>2, <3>3, <3>4 DEF WifiThread
  <2>3. CASE AddressAdded
    <3>1. CASE wifi = "waiting"
      BY <2>3, <3>1 DEF AddressAdded
    <3>2. CASE wifi # "waiting" /\ NetWaiters # {}
      <4>1. PICK t \in NetWaiters : net' = [net EXCEPT ![t] = "running"]
        BY <2>3, <3>2 DEF AddressAdded, GiveToNet
      <4>2. t \in NetThreads /\ net'[t] = "running"
        BY <4>1 DEF NetWaiters, TypeOK
      <4> QED BY <2>3, <4>2 DEF AddressAdded
    <3>3. CASE wifi # "waiting" /\ NetWaiters = {}
      BY <2>3, <3>3 DEF AddressAdded, GiveToNet
    <3> QED BY <3>1, <3>2, <3>3
  <2>4. ASSUME NEW t \in NetThreads, NetThread(t) PROVE Inv'
    <3> USE <2>4 DEF NetGoto, TypeOK
    <3>1. CASE NetTakes(t)
      <4>1. sem = 1 /\ net'[t] = "running" /\ UNCHANGED ip_handled
        BY <3>1 DEF NetTakes
      <4>2. ip_handled'
        BY <4>1
      <4> QED BY <4>1, <4>2
    <3>2. CASE NetStarts(t)
      BY <3>2 DEF NetStarts
    <3>3. CASE NetWaits(t)
      BY <3>3 DEF NetWaits
    <3>4. CASE NetTimesOut(t)
      BY <3>4 DEF NetTimesOut
    <3> QED BY <3>1, <3>2, <3>3, <3>4 DEF NetThread
  <2>5. CASE UNCHANGED vars
    BY <2>5 DEF vars
  <2> QED BY <2>1, <2>2, <2>3, <2>4, <2>5 DEF Next
<1> QED BY <1>1, <1>2, Typing, PTL DEF Spec

\* There is a token, or a thread that got one, exactly if there has been an address,
\* whatever the delays and the time limits are.
THEOREM TokensAndAddress == Spec => []TokensFollowAddress
BY TokensAccounted, PTL

-----------------------------------------------------------------------------
(***************************************************************************)
(* The handoff.  Timing says that the wifi thread is done before a network *)
(* thread can give up; Handoff says where the tokens are meanwhile.        *)
(***************************************************************************)
WifiDone == Settle + ConnectCall + WifiWait

WifiOnTime ==
    /\ wifi = "settle" => wake = Settle /\ now <= wake
    /\ wifi = "connect" => now <= Settle
    /\ wifi = "calling" => now <= wake /\ wake <= Settle + ConnectCall
    /\ wifi = "take" => now <= Settle + ConnectCall
    /\ wifi = "waiting" => now <= wake /\ wake <= WifiDone
    /\ wifi \in {"give", "give again"} => now <= WifiDone
    /\ wifi # "settle" => Settle <= now

NetOnTime(t) ==
    /\ net[t] = "delayed" => limit[t] = delay[t] /\ now <= limit[t]
    /\ net[t] = "take" => now <= delay[t]
    /\ net[t] = "waiting" => /\ NetWait <= limit[t] /\ now <= limit[t]
                            /\ limit[t] <= delay[t] + NetWait
    /\ net[t] = "gave up" => NetWait <= now

Timing == WifiOnTime /\ \A t \in NetThreads : NetOnTime(t)

Handoff ==
    /\ sem = 1 => \A t \in NetThreads : net[t] = "gave up"
    /\ wifi = "give" => \A t \in NetThreads : net[t] = "waiting"
    /\ wifi = "give again" =>
          \E t \in NetThreads : /\ net[t] = "running"
                               /\ \A u \in NetThreads \ {t} : net[u] = "waiting"
    /\ wifi = "ready" => \A t \in NetThreads : net[t] = "running"

\* A give changes at most the place of one waiting thread, and that to running.
LEMMA GiveEffect ==
  ASSUME TypeOK, GiveToNet
  PROVE  /\ \/ /\ sem' = sem
               /\ \E t \in NetThreads : /\ net[t] = "waiting"
                                       /\ net' = [net EXCEPT ![t] = "running"]
            \/ /\ sem' = 1 /\ net' = net
               /\ \A t \in NetThreads : net[t] # "waiting"
         /\ \A t \in NetThreads : net'[t] = net[t] \/ net'[t] = "running"
<1>1. CASE NetWaiters # {}
  <2>1. PICK t \in NetWaiters : net' = [net EXCEPT ![t] = "running"]
    BY <1>1 DEF GiveToNet
  <2>2. sem' = sem
    BY <1>1 DEF GiveToNet
  <2>3. t \in NetThreads /\ net[t] = "waiting"
    BY <2>1 DEF NetWaiters
  <2>4. \A u \in NetThreads : net'[u] = net[u] \/ net'[u] = "running"
    BY <2>1 DEF TypeOK
  <2> QED BY <2>1, <2>2, <2>3, <2>4
<1>2. CASE NetWaiters = {}
  BY <1>2 DEF GiveToNet, NetWaiters
<1> QED BY <1>1, <1>2

\* No step changes a start delay.
LEMMA StartDelaysStay == [Next]_vars => UNCHANGED delay
BY DEF Next, vars, Tick, WifiThread, Settled, NoInterface, ConnectRequest, RequestFails,
       RequestReturns, WifiTakes, WifiWaits, WifiTimesOut, WifiGives, WifiOnly, AddressAdded,
       NetThread, NetStarts, NetTakes, NetWaits, NetTimesOut, NetGoto

\* Every step of the wifi thread and of the network threads is taken at a time that its
\* delays and waits bound, whatever their values are.
LEMMA TimingInvariant == Spec => []Timing
<1>1. Init => Timing
  <2>1. Init => \A t \in NetThreads : delay[t] \in Nat
    BY WaitsAssumption DEF Init
  <2> QED BY <2>1, WaitsAssumption DEF Init, Timing, WifiOnTime, NetOnTime
<1>2. TypeOK /\ Timing /\ [Next]_vars => Timing'
  <2> SUFFICES ASSUME TypeOK, Timing, [Next]_vars PROVE Timing'
    OBVIOUS
  <2>0. /\ now \in Nat /\ wake \in Nat
        /\ \A t \in NetThreads : limit[t] \in Nat /\ delay[t] \in Nat
    BY WaitsAssumption DEF TypeOK
  <2>a. UNCHANGED delay
    BY StartDelaysStay
  <2> USE <2>a
  <2>1. CASE Tick
    <3>1. WifiOnTime'
      <4>1. /\ now' = now + 1
            /\ UNCHANGED <<wifi, wake>>
            /\ wifi \notin {"connect", "take", "give", "give again"}
            /\ wifi \in {"settle", "calling", "waiting"} => ~(now >= wake)
        BY <2>1 DEF Tick, WifiRunnable
      <4>2. WifiOnTime
        BY DEF Timing
      <4>3. CASE wifi \in {"settle", "calling", "waiting"}
        <5>0. ~(now >= wake)
          BY <4>1, <4>3
        <5>1. now + 1 <= wake
          BY <2>0, <5>0
        <5>2. wifi # "settle" => Settle <= now + 1
          <6>1. wifi # "settle" => Settle <= now
            BY <4>2 DEF WifiOnTime
          <6> QED BY <2>0, <6>1, WaitsAssumption
        <5> QED BY <4>1, <4>2, <4>3, <5>1, <5>2 DEF WifiOnTime
      <4>4. CASE wifi \notin {"settle", "calling", "waiting"}
        <5>0. Settle <= now
          BY <4>2, <4>4 DEF WifiOnTime
        <5>1. Settle <= now + 1
          BY <2>0, <5>0, WaitsAssumption
        <5> QED BY <4>1, <4>4, <5>1 DEF WifiOnTime
      <4> QED BY <4>3, <4>4
    <3>2. ASSUME NEW t \in NetThreads PROVE NetOnTime(t)'
      <4>1. /\ now' = now + 1
            /\ UNCHANGED <<net, limit>>
            /\ net[t] # "take"
            /\ net[t] \in {"delayed", "waiting"} => ~(now >= limit[t])
        BY <2>1 DEF Tick, NetRunnable
      <4>2. NetOnTime(t)
        BY DEF Timing
      <4>3. limit[t] \in Nat /\ delay[t] \in Nat /\ NetWait \in Nat
        BY <2>0, WaitsAssumption
      <4>4. net'[t] = net[t] /\ limit'[t] = limit[t]
        BY <4>1
      <4>5. CASE net[t] = "delayed"
        <5>1. limit[t] = delay[t] /\ now + 1 <= limit[t]
          BY <2>0, <4>1, <4>2, <4>3, <4>5 DEF NetOnTime
        <5> QED BY <4>1, <4>4, <4>5, <5>1 DEF NetOnTime
      <4>6. CASE net[t] = "gave up"
        <5>1. NetWait <= now
          BY <4>2, <4>6 DEF NetOnTime
        <5>2. NetWait <= now + 1
          BY <2>0, <4>3, <5>1
        <5> QED BY <4>1, <4>4, <4>6, <5>2 DEF NetOnTime
      <4>8. CASE net[t] = "waiting"
        <5>1. now \in Nat /\ limit[t] \in Nat /\ ~(now >= limit[t])
          BY <2>0, <4>1, <4>3, <4>8
        <5>2. now + 1 <= limit[t]
          BY <5>1
        <5> QED BY <4>1, <4>2, <4>4, <4>8, <5>2 DEF NetOnTime
      <4>7. CASE net[t] \notin {"delayed", "waiting", "gave up"}
        BY <4>1, <4>2, <4>4, <4>7 DEF NetOnTime
      <4> QED BY <4>5, <4>6, <4>7, <4>8
    <3> QED BY <3>1, <3>2 DEF Timing
  <2>2. CASE WifiThread
    <3>1. WifiOnTime'
      <4>0. WifiOnTime
        BY DEF Timing
      <4>1. CASE Settled
        BY <2>0, <4>0, <4>1 DEF Settled, WifiGoto, WifiOnly, WifiOnTime
      <4>2. CASE NoInterface \/ RequestFails \/ WifiTimesOut
        BY <2>0, <4>0, <4>2 DEF NoInterface, RequestFails, WifiTimesOut, WifiGoto, WifiOnly, WifiOnTime
      <4>3. CASE ConnectRequest
        BY <2>0, <4>0, <4>3, WaitsAssumption DEF ConnectRequest, WifiGoto, WifiOnly, WifiOnTime
      <4>4. CASE RequestReturns
        BY <2>0, <4>0, <4>4, WaitsAssumption DEF RequestReturns, WifiGoto, WifiOnly, WifiOnTime
      <4>5. CASE WifiTakes
        <5>1. wifi = "take" /\ wifi' = "give" /\ now' = now
          BY <4>5 DEF WifiTakes, WifiGoto
        <5> QED BY <2>0, <4>0, <5>1, WaitsAssumption DEF WifiOnTime, WifiDone
      <4>6. CASE WifiWaits
        <5>1. wifi = "take" /\ wifi' = "waiting" /\ now' = now /\ wake' = now + WifiWait
          BY <4>6 DEF WifiWaits, WifiGoto, WifiOnly
        <5> QED BY <2>0, <4>0, <5>1, WaitsAssumption DEF WifiOnTime, WifiDone
      <4>7. CASE WifiGives("give", "give again") \/ WifiGives("give again", "ready")
        <5>1. /\ UNCHANGED <<now, wake>>
              /\ wifi \in {"give", "give again"} /\ wifi' \in {"give again", "ready"}
          BY <4>7 DEF WifiGives, WifiGoto
        <5> QED BY <2>0, <4>0, <5>1 DEF WifiOnTime
      <4> QED BY <2>2, <4>1, <4>2, <4>3, <4>4, <4>5, <4>6, <4>7 DEF WifiThread
    <3>2. ASSUME NEW t \in NetThreads PROVE NetOnTime(t)'
      <4>1. CASE WifiGives("give", "give again") \/ WifiGives("give again", "ready")
        <5>1. UNCHANGED <<now, limit>> /\ (net'[t] = net[t] \/ net'[t] = "running")
          BY <4>1, GiveEffect DEF WifiGives
        <5> QED BY <5>1 DEF Timing, NetOnTime
      <4>2. CASE UNCHANGED <<now, net, limit>>
        BY <4>2 DEF Timing, NetOnTime
      <4> QED BY <2>2, <4>1, <4>2
              DEF WifiThread, Settled, NoInterface, ConnectRequest, RequestFails, RequestReturns,
                  WifiTakes, WifiWaits, WifiTimesOut, WifiOnly
    <3> QED BY <3>1, <3>2 DEF Timing
  <2>3. CASE AddressAdded
    <3>1. UNCHANGED <<now, wake, limit>>
      BY <2>3 DEF AddressAdded
    <3>2. /\ wifi' = wifi \/ (wifi = "waiting" /\ wifi' = "give")
          /\ \A t \in NetThreads : net'[t] = net[t] \/ net'[t] = "running"
      BY <2>3, GiveEffect DEF AddressAdded
    <3>3. WifiOnTime'
      <4>0. WifiOnTime
        BY DEF Timing
      <4>1. CASE wifi' = wifi
        BY <3>1, <4>0, <4>1 DEF WifiOnTime
      <4>2. CASE wifi = "waiting" /\ wifi' = "give"
        <5>1. now <= WifiDone /\ Settle <= now
          BY <2>0, <4>0, <4>2, WaitsAssumption DEF WifiOnTime, WifiDone
        <5> QED BY <3>1, <4>2, <5>1 DEF WifiOnTime
      <4> QED BY <3>2, <4>1, <4>2
    <3>4. ASSUME NEW t \in NetThreads PROVE NetOnTime(t)'
      BY <3>1, <3>2 DEF Timing, NetOnTime
    <3> QED BY <3>3, <3>4 DEF Timing
  <2>4. ASSUME NEW t \in NetThreads, NetThread(t) PROVE Timing'
    <3>1. UNCHANGED <<now, wifi, wake>>
      BY <2>4 DEF NetThread, NetStarts, NetTakes, NetWaits, NetTimesOut, NetGoto
    <3>2. \A u \in NetThreads \ {t} : net'[u] = net[u] /\ limit'[u] = limit[u]
      BY <2>4 DEF NetThread, NetStarts, NetTakes, NetWaits, NetTimesOut, NetGoto, TypeOK
    <3>3. NetOnTime(t)'
      <4>0. NetOnTime(t)
        BY DEF Timing
      <4>1. CASE NetStarts(t)
        <5>1. net[t] = "delayed" /\ net'[t] = "take" /\ now' = now
          BY <4>1 DEF NetStarts, NetGoto, TypeOK
        <5> QED BY <2>0, <4>0, <5>1 DEF NetOnTime
      <4>2. CASE NetTakes(t)
        <5>1. net'[t] = "running"
          BY <4>2 DEF NetTakes, NetGoto, TypeOK
        <5> QED BY <5>1 DEF NetOnTime
      <4>3. CASE NetWaits(t)
        <5>1. /\ net[t] = "take" /\ net'[t] = "waiting"
              /\ limit'[t] = now + NetWait /\ now' = now
          BY <4>3 DEF NetWaits, NetGoto, TypeOK
        <5>2. now <= delay[t]
          BY <4>0, <5>1 DEF NetOnTime
        <5>3. now \in Nat /\ delay[t] \in Nat /\ NetWait \in Nat
          BY <2>0, WaitsAssumption
        <5>4. /\ NetWait <= now + NetWait /\ now <= now + NetWait
              /\ now + NetWait <= delay[t] + NetWait
          BY <5>2, <5>3
        <5> QED BY <5>1, <5>4 DEF NetOnTime
      <4>4. CASE NetTimesOut(t)
        <5>1. net[t] = "waiting" /\ net'[t] = "gave up" /\ now >= limit[t] /\ now' = now
          BY <4>4 DEF NetTimesOut, NetGoto, TypeOK
        <5>2. NetWait <= limit[t]
          BY <4>0, <5>1 DEF NetOnTime
        <5>3. now \in Nat /\ limit[t] \in Nat /\ NetWait \in Nat
          BY <2>0, WaitsAssumption
        <5>4. now >= limit[t]
          BY <5>1
        <5>5. NetWait <= now
          BY <5>2, <5>3, <5>4
        <5> QED BY <5>1, <5>5 DEF NetOnTime
      <4> QED BY <2>4, <4>1, <4>2, <4>3, <4>4 DEF NetThread
    <3>4. WifiOnTime'
      BY <3>1 DEF Timing, WifiOnTime
    <3>5. ASSUME NEW u \in NetThreads PROVE NetOnTime(u)'
      BY <3>1, <3>2, <3>3 DEF Timing, NetOnTime
    <3> QED BY <3>4, <3>5 DEF Timing
  <2>5. CASE UNCHANGED vars
    BY <2>5 DEF vars, Timing, WifiOnTime, NetOnTime
  <2> QED BY <2>1, <2>2, <2>3, <2>4, <2>5 DEF Next
<1> QED BY <1>1, <1>2, Typing, PTL DEF Spec

\* The waits add up to no more than their time limits, whatever wakes or outruns them:
\* the wifi thread is through when its sleep, the call and its 30 seconds are over
\* (wifi_connect.c:71-101), and a network thread runs or has given up 60 seconds after
\* its start delay (network_config.c:191, networking_config_news.c:226).
DeadlinesHold ==
    /\ now > Settle + ConnectCall + WifiWait => wifi \in {"ready", "timed out", "failed"}
    /\ \A t \in NetThreads :
          now > delay[t] + NetWait => net[t] \in {"running", "gave up"}

\* No thread is still under way when the sum of its delays and time limits is over,
\* whether or not an address comes.
THEOREM DeadlinesKept == Spec => []DeadlinesHold
<1>1. TypeOK /\ Timing => DeadlinesHold
  <2> SUFFICES ASSUME TypeOK, Timing PROVE DeadlinesHold
    OBVIOUS
  <2>1. /\ now \in Nat /\ wake \in Nat
        /\ Settle \in Nat /\ ConnectCall \in Nat /\ WifiWait \in Nat /\ NetWait \in Nat
    BY WaitsAssumption DEF TypeOK
  <2>2. ASSUME now > Settle + ConnectCall + WifiWait
        PROVE  wifi \in {"ready", "timed out", "failed"}
    <3>1. wifi \in WifiSteps /\ WifiOnTime
      BY DEF TypeOK, Timing
    <3>2. ~(now <= Settle) /\ ~(now <= Settle + ConnectCall) /\ ~(now <= WifiDone)
      BY <2>1, <2>2 DEF WifiDone
    <3>3. wifi \notin {"connect", "take", "give", "give again"}
      BY <3>1, <3>2 DEF WifiOnTime
    <3>4. ASSUME wifi \in {"settle", "calling", "waiting"} PROVE FALSE
      <4>1. /\ Settle <= WifiDone /\ Settle + ConnectCall <= WifiDone
            /\ WifiDone \in Nat /\ Settle + ConnectCall \in Nat
        BY <2>1 DEF WifiDone
      <4>2. now <= wake
        BY <3>1, <3>4 DEF WifiOnTime
      <4>3. wake = Settle \/ wake <= Settle + ConnectCall \/ wake <= WifiDone
        BY <3>1, <3>4 DEF WifiOnTime
      <4> QED BY <2>1, <3>2, <4>1, <4>2, <4>3
    <3> QED BY <3>1, <3>3, <3>4 DEF WifiSteps
  <2>3. ASSUME NEW t \in NetThreads, now > delay[t] + NetWait
        PROVE  net[t] \in {"running", "gave up"}
    <3>1. net[t] \in NetSteps /\ NetOnTime(t)
      BY DEF TypeOK, Timing
    <3>2. limit[t] \in Nat /\ delay[t] \in Nat
      BY WaitsAssumption DEF TypeOK
    <3>3. ~(now <= delay[t]) /\ ~(now <= limit[t] /\ limit[t] <= delay[t] + NetWait)
      BY <2>1, <2>3, <3>2
    <3>4. net[t] \notin {"delayed", "take", "waiting"}
      BY <3>1, <3>3 DEF NetOnTime
    <3> QED BY <3>1, <3>4 DEF NetSteps
  <2> QED BY <2>2, <2>3 DEF DeadlinesHold
<1> QED BY <1>1, Typing, TimingInvariant, PTL

\* While the wifi thread is on its way to the token, no network thread has gone.
LEMMA OnTime ==
  ASSUME HandoffTiming, TypeOK, Timing, wifi # "settle", NEW t \in NetThreads
  PROVE  /\ net[t] \in {"waiting", "running", "gave up"}
         /\ wifi \in {"take", "waiting", "give", "give again"} => net[t] # "gave up"
<1>0. /\ now \in Nat /\ delay[t] \in Nat /\ wake \in Nat
      /\ Settle \in Nat /\ ConnectCall \in Nat /\ WifiWait \in Nat /\ NetWait \in Nat
      /\ WifiDone \in Nat /\ delay[t] < Settle /\ WifiDone < NetWait
  <2>1. now \in Nat /\ wake \in Nat /\ delay[t] \in Nat
    BY WaitsAssumption DEF TypeOK
  <2>2. delay[t] < Settle /\ WifiDone < NetWait
    BY DEF HandoffTiming, WifiDone
  <2> QED BY <2>1, <2>2, WaitsAssumption DEF WifiDone
<1>1. net[t] \in NetSteps
  BY DEF TypeOK
<1>2. WifiOnTime /\ NetOnTime(t)
  BY DEF Timing
<1>3. ASSUME net[t] \in {"delayed", "take"} PROVE FALSE
  <2>1. Settle <= now
    BY <1>2 DEF WifiOnTime
  <2>2. now <= delay[t]
    BY <1>2, <1>3 DEF NetOnTime
  <2> QED BY <1>0, <2>1, <2>2
<1>4. ASSUME wifi \in {"take", "waiting", "give", "give again"}, net[t] = "gave up" PROVE FALSE
  <2>1. NetWait <= now
    BY <1>2, <1>4 DEF NetOnTime
  <2>2. now <= WifiDone
    <3>1. CASE wifi = "take"
      <4>1. now <= Settle + ConnectCall
        BY <1>2, <3>1 DEF WifiOnTime
      <4> QED BY <1>0, <4>1 DEF WifiDone
    <3>2. CASE wifi = "waiting"
      <4>1. now <= wake /\ wake <= WifiDone
        BY <1>2, <3>2 DEF WifiOnTime
      <4> QED BY <1>0, <4>1
    <3>3. CASE wifi \in {"give", "give again"}
      BY <1>2, <3>3 DEF WifiOnTime
    <3> QED BY <1>4, <3>1, <3>2, <3>3
  <2> QED BY <1>0, <2>1, <2>2
<1> QED BY <1>1, <1>3, <1>4 DEF NetSteps

\* With the timing of the code, each of the two tokens reaches one of the two
\* network threads: none is lost to the semaphore's limit or to a thread that
\* has given up.
THEOREM HandoffReached == Spec => []HandoffReachesBoth
<1> DEFINE Inv == HandoffTiming => Handoff
<1>1. Init => Inv
  BY DEF Init, Handoff
<1>2. TypeOK /\ Timing /\ TokensFromAddress /\ Inv /\ [Next]_vars => Inv'
  <2> SUFFICES ASSUME TypeOK, Timing, TokensFromAddress, Handoff, [Next]_vars, HandoffTiming
               PROVE  Handoff'
    BY StartDelaysStay DEF HandoffTiming
  <2>0. CASE UNCHANGED <<sem, net, wifi>>
    BY <2>0 DEF Handoff
  <2>1. CASE UNCHANGED <<sem, net>> /\ wifi' \notin {"give", "give again", "ready"}
    BY <2>1 DEF Handoff
  <2>2. CASE WifiTakes
    <3>1. wifi = "take" /\ sem = 1
      BY <2>2 DEF WifiTakes, WifiGoto
    <3>2. net[info] = "gave up" /\ info \in NetThreads
      BY <3>1 DEF Handoff, NetThreads
    <3> QED BY <3>1, <3>2, OnTime
  <2>3. CASE WifiGives("give", "give again")
    <3>1. wifi = "give" /\ wifi' = "give again" /\ GiveToNet
      BY <2>3 DEF WifiGives, WifiGoto
    <3>2. \A t \in NetThreads : net[t] = "waiting"
      BY <3>1 DEF Handoff
    <3>3. info \in NetThreads
      BY DEF NetThreads
    <3>4. PICK t \in NetThreads : sem' = sem /\ net' = [net EXCEPT ![t] = "running"]
      BY <3>1, <3>2, <3>3, GiveEffect
    <3>5. net'[t] = "running" /\ \A u \in NetThreads \ {t} : net'[u] = "waiting"
      BY <3>2, <3>4 DEF TypeOK
    <3>6. sem' # 1
      BY <3>2, <3>3, <3>4 DEF Handoff
    <3> QED BY <3>1, <3>5, <3>6 DEF Handoff
  <2>4. CASE WifiGives("give again", "ready")
    <3>1. wifi = "give again" /\ wifi' = "ready" /\ GiveToNet
      BY <2>4 DEF WifiGives, WifiGoto
    <3>2. PICK t \in NetThreads : /\ net[t] = "running"
                                  /\ \A u \in NetThreads \ {t} : net[u] = "waiting"
      BY <3>1 DEF Handoff
    <3>3. PICK u \in NetThreads : u # t
      BY ThreadsAssumption DEF NetThreads
    <3>4. NetThreads = {t, u} /\ net[u] = "waiting"
      BY <3>2, <3>3 DEF NetThreads
    <3>5. PICK v \in NetThreads : /\ net[v] = "waiting" /\ sem' = sem
                                  /\ net' = [net EXCEPT ![v] = "running"]
      BY <3>1, <3>4, GiveEffect
    <3>6. v = u
      BY <3>2, <3>4, <3>5
    <3>7. \A w \in NetThreads : net'[w] = "running"
      BY <3>2, <3>4, <3>5, <3>6 DEF TypeOK
    <3>8. sem' # 1
      BY <3>2, <3>5 DEF Handoff
    <3> QED BY <3>1, <3>7, <3>8 DEF Handoff
  <2>5. CASE AddressAdded
    <3>1. ~ip_handled /\ sem = 0 /\ \A t \in NetThreads : net[t] # "running"
      BY <2>5 DEF AddressAdded, TokensFromAddress
    <3>2. wifi \in {"calling", "take", "waiting", "timed out"}
      BY <2>5 DEF AddressAdded
    <3>3. CASE wifi = "waiting"
      <4>1. wifi' = "give" /\ UNCHANGED <<sem, net>>
        BY <2>5, <3>3 DEF AddressAdded
      <4>2. \A t \in NetThreads : net[t] = "waiting"
        BY <3>1, <3>3, OnTime
      <4> QED BY <3>1, <4>1, <4>2 DEF Handoff
    <3>4. CASE wifi # "waiting"
      <4>1. GiveToNet /\ wifi' = wifi
        BY <2>5, <3>4 DEF AddressAdded
      <4>2. CASE sem' = sem
        <5>1. sem' # 1
          BY <3>1, <4>2
        <5>2. wifi' \notin {"give", "give again", "ready"}
          BY <3>2, <4>1
        <5> QED BY <5>1, <5>2 DEF Handoff
      <4>3. CASE /\ sem' = 1 /\ net' = net
                 /\ \A t \in NetThreads : net[t] # "waiting"
        <5>1. \A t \in NetThreads : net[t] = "gave up"
          BY <3>1, <3>2, <4>3, OnTime
        <5> QED BY <3>2, <4>1, <4>3, <5>1 DEF Handoff
      <4> QED BY <4>1, <4>2, <4>3, GiveEffect
    <3> QED BY <3>3, <3>4
  <2>6. ASSUME NEW t \in NetThreads, NetThread(t) PROVE Handoff'
    <3>1. /\ wifi' = wifi
          /\ net[t] \notin {"running", "gave up"}
          /\ net' = [net EXCEPT ![t] = net'[t]]
          /\ sem = 1 => sem' = 0 \/ sem' = 1
          /\ sem # 1 => sem' = sem
      BY <2>6 DEF NetThread, NetStarts, NetTakes, NetWaits, NetTimesOut, NetGoto, TypeOK
    <3>2. sem # 1
      BY <3>1 DEF Handoff
    <3>3. wifi # "ready"
      BY <3>1 DEF Handoff
    <3>4. CASE wifi \in {"give", "give again"}
      <4>1. net[t] = "waiting"
        BY <3>1, <3>4 DEF Handoff
      <4>2. NetTimesOut(t)
        BY <2>6, <4>1 DEF NetThread, NetStarts, NetTakes, NetWaits, NetGoto
      <4>3. now >= limit[t]
        BY <4>2 DEF NetTimesOut
      <4>4. NetWait <= limit[t]
        BY <4>1 DEF Timing, NetOnTime
      <4>5. now <= WifiDone
        BY <3>4 DEF Timing, WifiOnTime
      <4>6. WifiDone < NetWait
        BY DEF HandoffTiming, WifiDone
      <4>7. /\ now \in Nat /\ limit[t] \in Nat
            /\ NetWait \in Nat /\ WifiDone \in Nat
        BY WaitsAssumption DEF TypeOK, WifiDone
      <4> QED BY <4>3, <4>4, <4>5, <4>6, <4>7
    <3>5. CASE wifi \notin {"give", "give again"}
      BY <3>1, <3>2, <3>3, <3>5 DEF Handoff
    <3> QED BY <3>4, <3>5
  <2> QED
    BY <2>0, <2>1, <2>2, <2>3, <2>4, <2>5, <2>6
    DEF Next, Tick, WifiThread, Settled, NoInterface, ConnectRequest, RequestFails,
        RequestReturns, WifiWaits, WifiTimesOut, WifiGoto, WifiOnly, vars
<1>3. Inv => HandoffReachesBoth
  BY DEF Handoff, HandoffReachesBoth
<1> QED BY <1>1, <1>2, <1>3, Typing, TimingInvariant, TokensAccounted, PTL DEF Spec
=============================================================================
