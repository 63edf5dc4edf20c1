--------------------------- MODULE AppConnProofs ---------------------------
(***************************************************************************)
(* Proofs about AppConn, for every length of the messages, of the ring, of *)
(* the clock and of the reconnect pause that its assumptions allow.  IInv  *)
(* adds to the properties where the session is while the query runs        *)
(* (QueryInv), what a session holds before its first pass (FreshInv) and   *)
(* what the wrapping clock still says about the real time (ClockInv).      *)
(***************************************************************************)
EXTENDS AppConn, TLAPS

\* Reduction by the clock's modulus of a sum of two times.
LEMMA WrapOnce ==
  ASSUME NEW a \in Nat, a < 2 * Modulus
  PROVE  a % Modulus = IF a < Modulus THEN a ELSE a - Modulus
<1>1. Modulus \in Nat /\ Modulus > 0
  BY TimeAssumption
<1>2. CASE a < Modulus
  BY <1>1, <1>2
<1>3. CASE a >= Modulus
  BY <1>1, <1>3
<1> QED
  BY <1>1, <1>2, <1>3

\* sys_now() - lastReconnectAttempt, without the modulus.
LEMMA SinceLastValue ==
  ASSUME TypeOK
  PROVE  SinceLast = IF now < last THEN now + Modulus - last ELSE now - last
<1>1. /\ now + Modulus - last \in Nat
      /\ now + Modulus - last < 2 * Modulus
  BY TimeAssumption DEF TypeOK
<1>2. SinceLast = IF now + Modulus - last < Modulus
                  THEN now + Modulus - last ELSE now + Modulus - last - Modulus
  BY <1>1, WrapOnce, TimeAssumption DEF SinceLast, TypeOK
<1> QED
  BY <1>2, TimeAssumption DEF TypeOK

-----------------------------------------------------------------------------
(* Type correctness of each step.                                          *)

\* A pass through the switch keeps every variable in its range; the ring and
\* the request list because mqtt_output_check_space and the free request are
\* looked for first.
LEMMA LoopType == TypeOK /\ Loop => TypeOK'
<1> SUFFICES ASSUME TypeOK, Loop PROVE TypeOK'
  OBVIOUS
<1> USE TimeAssumption, SpaceAssumption DEF TypeOK, ConnStates, ClientStates,
        client, network, Loop
<1>1. CASE StartUp
  BY <1>1 DEF StartUp
<1>2. CASE Reconnect
  <2>1. PICK ok \in BOOLEAN : ClientConnect(ok)
    BY <1>2 DEF Reconnect
  <2>2. /\ conn' \in ClientStates /\ myConn' \in ConnStates
        /\ ring' \in 0 .. RingSize /\ pubs' \in 0 .. MaxRequests
    BY <2>1 DEF ClientConnect
  <2>3. subReq' \in BOOLEAN /\ subscribed' \in BOOLEAN /\ bSubscribed' \in BOOLEAN
    BY <2>1 DEF ClientConnect
  <2>4. /\ last' = now /\ elapsed' = 0 /\ polled' = TRUE
        /\ UNCHANGED <<brokerIp, dhcpBound, query, timerOn, now, mqttCounter,
                       halted, cyclicDue>>
    BY <1>2 DEF Reconnect
  <2> QED
    BY <2>2, <2>3, <2>4
<1>3. CASE Connected
  BY <1>3 DEF Connected, HasSpace, Slots
<1>4. CASE Idle
  BY <1>4 DEF Idle
<1> QED
  BY <1>1, <1>2, <1>3, <1>4

\* mqtt_close, whatever it reports: to whom and what.
LEMMA CloseEffect ==
  ASSUME TypeOK, NEW reason, Close(reason)
  PROVE  /\ pubs' = 0 /\ subReq' = FALSE /\ timerOn' = FALSE
         /\ conn' = "TCP_DISCONNECTED"
         /\ myConn' \in {myConn, "MQTT_CONNECTED", "MQTT_DISCONNECTED"}
         /\ halted' \in BOOLEAN
         /\ UNCHANGED <<subscribed, bSubscribed, brokerIp, dhcpBound, query, now,
                        last, elapsed, mqttCounter, polled>>
<1>1. /\ pubs' = 0 /\ subReq' = FALSE /\ timerOn' = FALSE
      /\ conn' = "TCP_DISCONNECTED"
  BY DEF Close
<1>2. /\ myConn' \in {myConn, "MQTT_CONNECTED", "MQTT_DISCONNECTED"}
      /\ halted' \in BOOLEAN
  BY DEF Close, ConnectionCallback, TypeOK
<1>3. UNCHANGED <<subscribed, bSubscribed, brokerIp, dhcpBound, query, now, last,
                  elapsed, mqttCounter, polled>>
  BY DEF Close, network
<1> QED
  BY <1>1, <1>2, <1>3

\* It keeps the types, with a step that keeps those of ring and cyclicDue.
LEMMA CloseType ==
  ASSUME TypeOK, NEW reason, Close(reason),
         ring' \in 0 .. RingSize, cyclicDue' \in BOOLEAN
  PROVE  TypeOK'
<1>1. myConn' \in ConnStates /\ conn' \in ClientStates
  BY CloseEffect DEF TypeOK, ConnStates, ClientStates
<1>2. pubs' \in 0 .. MaxRequests
  <2>1. pubs' = 0
    BY CloseEffect
  <2> QED
    BY <2>1, SpaceAssumption
<1>3. subReq' \in BOOLEAN /\ timerOn' \in BOOLEAN /\ halted' \in BOOLEAN
  BY CloseEffect
<1> QED
  BY <1>1, <1>2, <1>3, CloseEffect DEF TypeOK

\* The callbacks of lwIP's MQTT client do.
LEMMA ClientType == TypeOK /\ Client => TypeOK'
<1> SUFFICES ASSUME TypeOK, Client PROVE TypeOK'
  OBVIOUS
<1> USE TimeAssumption, SpaceAssumption DEF ConnStates, ClientStates,
        app, client, network, time
<1>1. CASE TcpConnected
  BY <1>1 DEF TcpConnected, TypeOK
<1>2. CASE ConnackAccepted
  BY <1>2 DEF ConnackAccepted, ConnectionCallback, TypeOK
<1>3. CASE ConnackRefused
  <2>1. Close("REFUSED") /\ UNCHANGED <<ring, cyclicDue>>
    BY <1>3 DEF ConnackRefused
  <2>2. ring' \in 0 .. RingSize /\ cyclicDue' \in BOOLEAN
    BY <2>1 DEF TypeOK
  <2> QED
    BY <2>1, <2>2, CloseType
<1>4. CASE TcpLost
  <2>1. Close("DISCONNECTED") /\ UNCHANGED <<ring, cyclicDue>>
    BY <1>4 DEF TcpLost
  <2>2. ring' \in 0 .. RingSize /\ cyclicDue' \in BOOLEAN
    BY <2>1 DEF TypeOK
  <2> QED
    BY <2>1, <2>2, CloseType
<1>5. CASE ConnectTimeout
  <2>1. Close("TIMEOUT") /\ cyclicDue' = FALSE /\ UNCHANGED ring
    BY <1>5 DEF ConnectTimeout
  <2>2. ring' \in 0 .. RingSize /\ cyclicDue' \in BOOLEAN
    BY <2>1 DEF TypeOK
  <2> QED
    BY <2>1, <2>2, CloseType
<1>6. CASE ServerTimeout
  <2>1. Close("TIMEOUT") /\ cyclicDue' = FALSE /\ ring' \in 0 .. RingSize
    BY <1>6 DEF ServerTimeout, PingAppended, TypeOK
  <2>2. ring' \in 0 .. RingSize /\ cyclicDue' \in BOOLEAN
    BY <2>1 DEF TypeOK
  <2> QED
    BY <2>1, <2>2, CloseType
<1>7. CASE CyclicTimer
  <2>1. ring' \in 0 .. RingSize /\ pubs' \in 0 .. MaxRequests
    BY <1>7 DEF CyclicTimer, PingAppended, TypeOK
  <2>2. subReq' \in BOOLEAN /\ cyclicDue' \in BOOLEAN
    BY <1>7 DEF CyclicTimer, TypeOK
  <2> QED
    BY <1>7, <2>1, <2>2 DEF CyclicTimer, TypeOK
<1>8. CASE TcpSent
  BY <1>8 DEF TcpSent, TypeOK
<1>9. CASE Suback
  <2>1. subReq' \in BOOLEAN
    BY <1>9 DEF Suback
  <2>2. UNCHANGED <<myConn, conn, bSubscribed, halted, cyclicDue, polled, dhcpBound,
                    timerOn, subscribed, brokerIp, query, ring, pubs, now, last,
                    elapsed, mqttCounter>>
    BY <1>9 DEF Suback
  <2> QED
    BY <2>1, <2>2 DEF TypeOK
<1> QED
  BY <1>1, <1>2, <1>3, <1>4, <1>5, <1>6, <1>7, <1>8, <1>9 DEF Client

\* The clock stays below its modulus.
LEMMA TickType == TypeOK /\ Tick => TypeOK'
<1> SUFFICES ASSUME TypeOK, Tick PROVE TypeOK'
  OBVIOUS
<1>1. now' \in 0 .. Modulus - 1
  <2>1. now + Step \in Nat /\ now + Step < 2 * Modulus
    BY TimeAssumption DEF TypeOK
  <2> QED
    BY <2>1, WrapOnce, TimeAssumption DEF Tick
<1>2. elapsed' \in 0 .. ReconnectWait + Step /\ mqttCounter' \in 0 .. PublishTicks
  BY TimeAssumption DEF Tick, Cap, TypeOK
<1> QED
  BY <1>1, <1>2 DEF Tick, TypeOK, app, client, network

\* Every step does.
LEMMA NextType == TypeOK /\ [Next]_vars => TypeOK'
<1> SUFFICES ASSUME TypeOK, [Next]_vars PROVE TypeOK'
  OBVIOUS
<1>1. CASE IpObtained
  BY <1>1 DEF IpObtained, TypeOK, ConnStates, client, time
<1>2. CASE Dhcp
  BY <1>2 DEF Dhcp, TypeOK, app, client, time
<1>3. CASE UNCHANGED vars
  BY <1>3 DEF vars, app, client, network, time, TypeOK
<1> QED
  BY <1>1, <1>2, <1>3, LoopType, ClientType, TickType DEF Next

-----------------------------------------------------------------------------
(* The clock.                                                              *)

\* Below its cap elapsed stays what the firmware computes.
LEMMA NextClock == TypeOK /\ ClockInv /\ [Next]_vars => ClockInv'
<1> SUFFICES ASSUME TypeOK, ClockInv, [Next]_vars PROVE ClockInv'
  OBVIOUS
<1>0. TypeOK'
  BY NextType
<1>1. CASE UNCHANGED <<now, last, elapsed>>
  BY <1>1 DEF ClockInv, SinceLast
<1>2. CASE Reconnect
  <2>1. last' = now /\ elapsed' = 0 /\ now' = now
    BY <1>2 DEF Reconnect
  <2>2. (SinceLast)' = 0
    <3>1. (SinceLast)' = Modulus % Modulus
      BY <2>1, TimeAssumption DEF SinceLast, TypeOK
    <3> QED
      BY <3>1, WrapOnce, TimeAssumption
  <2> QED
    BY <2>1, <2>2 DEF ClockInv
<1>3. CASE Tick
  <2> SUFFICES ASSUME elapsed' < ReconnectWait + Step
               PROVE  (SinceLast)' = elapsed'
    BY DEF ClockInv
  <2>1. elapsed' = elapsed + Step /\ elapsed < ReconnectWait
    BY <1>3, TimeAssumption DEF Tick, Cap, TypeOK
  <2>2. SinceLast = elapsed
    BY <2>1, TimeAssumption DEF ClockInv, TypeOK
  <2>3. last' = last /\ now' = IF now + Step < Modulus THEN now + Step
                               ELSE (now + Step) - Modulus
    <3>1. now + Step \in Nat /\ now + Step < 2 * Modulus
      BY TimeAssumption DEF TypeOK
    <3>2. last' = last /\ now' = (now + Step) % Modulus
      BY <1>3 DEF Tick
    <3>3. (now + Step) % Modulus = IF now + Step < Modulus THEN now + Step
                                   ELSE (now + Step) - Modulus
      <4> DEFINE a == now + Step
      <4>1. a \in Nat /\ a < 2 * Modulus
        BY <3>1
      <4> HIDE DEF a
      <4>2. a % Modulus = IF a < Modulus THEN a ELSE a - Modulus
        BY ONLY <4>1, WrapOnce
      <4> QED
        BY <4>2 DEF a
    <3> QED
      BY <3>2, <3>3
  <2>4. (SinceLast)' = (now' + Modulus - last') % Modulus
    BY DEF SinceLast
  <2>5. now' + Modulus - last' \in Nat /\ now' + Modulus - last' < 2 * Modulus
    BY <2>3, TimeAssumption DEF TypeOK
  <2>6. (SinceLast)' = IF now' < last' THEN now' + Modulus - last'
                       ELSE now' - last'
    BY <2>4, <2>5, <1>0, WrapOnce, TimeAssumption DEF TypeOK
  <2>7. elapsed = IF now < last THEN now + Modulus - last ELSE now - last
    BY <2>2, SinceLastValue
  <2> QED
    BY <2>1, <2>3, <2>6, <2>7, TimeAssumption DEF TypeOK
<1> QED
  <2>1. [Next]_vars => Reconnect \/ Tick \/ UNCHANGED <<now, last, elapsed>>
    BY DEF Next, Loop, StartUp, Connected, Idle, IpObtained, Client, Dhcp, vars,
       time, TcpConnected, ConnackAccepted, ConnackRefused, TcpLost,
       ConnectTimeout, ServerTimeout, CyclicTimer, TcpSent, Suback, Close
  <2> QED
    BY <2>1, <1>1, <1>2, <1>3

-----------------------------------------------------------------------------
(* The session.                                                            *)

SessionInv == InStep /\ SubscriptionMade /\ QueryInv /\ FreshInv

\* A pass through the switch keeps the application and the client in step.
LEMMA LoopSession == TypeOK /\ SessionInv /\ Loop => SessionInv'
<1> SUFFICES ASSUME TypeOK, SessionInv, Loop PROVE SessionInv'
  OBVIOUS
<1> USE DEF SessionInv, InStep, SubscriptionMade, QueryInv, FreshInv,
        ConnStates, ClientStates, client, network, Loop
<1>1. CASE StartUp
  BY <1>1 DEF StartUp, TypeOK
<1>2. CASE Reconnect
  <2>1. PICK ok \in BOOLEAN : ClientConnect(ok)
    BY <1>2 DEF Reconnect
  <2>2. conn = "TCP_DISCONNECTED"
    BY <1>2 DEF Reconnect, TypeOK
  <2> QED
    BY <1>2, <2>1, <2>2 DEF Reconnect, ClientConnect
<1>3. CASE Connected
  <2>1. conn = "MQTT_CONNECTED" /\ conn' = conn /\ myConn' = myConn
        /\ query' = query /\ bSubscribed' = TRUE
    BY <1>3 DEF Connected
  <2>2. CASE bSubscribed
    BY <1>3, <2>1, <2>2 DEF Connected
  <2>3. CASE ~bSubscribed
    <3>1. pubs = 0 /\ ~subReq /\ ring <= 2 * PingLen
      BY <2>1, <2>3, SpaceAssumption DEF TypeOK
    <3> DEFINE puts == /\ mqttCounter >= PublishTicks /\ conn # "TCP_DISCONNECTED"
                       /\ HasSpace(PublishLen, Slots(pubs, subReq), ring)
               pubs1 == IF puts THEN pubs + 1 ELSE pubs
               ring1(sent) == IF ~puts THEN ring
                              ELSE IF sent THEN 0 ELSE ring + PublishLen
               subs(sent) == /\ ~bSubscribed /\ conn # "TCP_DISCONNECTED"
                             /\ HasSpace(SubscribeLen, Slots(pubs1, subReq),
                                         ring1(sent))
    <3>2. \E sent \in BOOLEAN : subscribed' = (subscribed \/ subs(sent))
      BY <1>3 DEF Connected
    <3>3. \A sent \in BOOLEAN : subs(sent)
      <4>1. Slots(pubs1, subReq) < MaxRequests
        BY <3>1, FirstPassAssumption, SpaceAssumption DEF Slots
      <4>2. \A sent \in BOOLEAN : ring1(sent) + SubscribeLen <= RingSize
        BY <3>1, FirstPassAssumption, SpaceAssumption DEF TypeOK
      <4> QED
        BY <2>1, <2>3, <4>1, <4>2 DEF HasSpace
    <3>4. subscribed' = TRUE
      BY <3>2, <3>3
    <3> QED
      BY <1>3, <2>1, <3>4 DEF Connected
  <2> QED
    BY <2>2, <2>3
<1>4. CASE Idle
  BY <1>4, SpaceAssumption DEF Idle, TypeOK
<1> QED
  BY <1>1, <1>2, <1>3, <1>4

\* So do the callbacks of the client: each changes conn and myConn together.
LEMMA ClientSession == TypeOK /\ SessionInv /\ Client => SessionInv'
<1> SUFFICES ASSUME TypeOK, SessionInv, Client PROVE SessionInv'
  OBVIOUS
<1> USE SpaceAssumption DEF SessionInv, InStep, SubscriptionMade, QueryInv, FreshInv,
        ConnStates, ClientStates, app, client, network, time
<1>1. CASE TcpConnected
  BY <1>1 DEF TcpConnected, TypeOK
<1>2. CASE ConnackAccepted
  BY <1>2 DEF ConnackAccepted, ConnectionCallback, TypeOK
<1>3. CASE ConnackRefused
  BY <1>3 DEF ConnackRefused, Close, ConnectionCallback, TypeOK
<1>4. CASE TcpLost
  BY <1>4 DEF TcpLost, Close, ConnectionCallback, TypeOK
<1>5. CASE ConnectTimeout
  BY <1>5 DEF ConnectTimeout, Close, ConnectionCallback, TypeOK
<1>6. CASE ServerTimeout
  BY <1>6 DEF ServerTimeout, Close, ConnectionCallback, PingAppended, TypeOK
<1>7. CASE CyclicTimer
  <2>1. /\ subReq' \in {FALSE, subReq} /\ conn = "MQTT_CONNECTED"
        /\ cyclicDue /\ cyclicDue' = FALSE
        /\ UNCHANGED <<conn, subscribed, myConn, bSubscribed, halted, query, polled>>
    BY <1>7 DEF CyclicTimer
  <2>2. InStep' /\ SubscriptionMade' /\ QueryInv'
    BY <2>1
  <2>3. ASSUME ~bSubscribed
        PROVE  /\ pubs' = 0 /\ ~subReq' /\ ring' <= 2 * PingLen
               /\ polled' => ring' <= PingLen
    <3>1. /\ pubs = 0 /\ ~subReq /\ ring <= PingLen
          /\ polled => ring = 0
      BY <2>1, <2>3
    <3>2. ~subReq'
      BY <2>1, <3>1
    <3>3. pubs' \in {0, pubs} /\ ring' \in {ring, PingAppended}
      BY <1>7 DEF CyclicTimer
    <3>4. ring' <= ring + PingLen
      BY <3>3 DEF PingAppended, TypeOK
    <3> QED
      BY <2>1, <3>1, <3>2, <3>3, <3>4 DEF PingAppended, TypeOK
  <2> QED
    BY <2>1, <2>2, <2>3
<1>8. CASE TcpSent
  <2>1. /\ conn = "MQTT_CONNECTED" /\ cyclicDue' = cyclicDue
        /\ UNCHANGED <<conn, subReq, subscribed, myConn, bSubscribed, halted,
                       query, polled>>
    BY <1>8 DEF TcpSent
  <2>2. InStep' /\ SubscriptionMade' /\ QueryInv'
    BY <2>1
  <2>3. pubs' \in {0, pubs} /\ ring' \in {0, ring}
    BY <1>8 DEF TcpSent
  <2>4. pubs' \in {0, pubs} /\ ring' <= ring /\ (ring = 0 => ring' = 0)
    BY <2>3 DEF TypeOK
  <2> QED
    BY <2>1, <2>2, <2>3, <2>4 DEF TypeOK
<1>9. CASE Suback
  BY <1>9 DEF Suback, TypeOK
<1> QED
  BY <1>1, <1>2, <1>3, <1>4, <1>5, <1>6, <1>7, <1>8, <1>9 DEF Client

\* Every step preserves the inductive invariant.
LEMMA StepInv == IInv /\ [Next]_vars => IInv'
<1> SUFFICES ASSUME IInv, [Next]_vars PROVE IInv'
  OBVIOUS
<1>1. TypeOK' /\ ClockInv'
  BY NextType, NextClock DEF IInv
<1>2. SessionInv'
  <2>0. TypeOK /\ SessionInv
    BY DEF IInv, SessionInv
  <2>1. CASE Loop
    BY <2>0, <2>1, LoopSession
  <2>2. CASE Client
    BY <2>0, <2>2, ClientSession
  <2> USE DEF SessionInv, InStep, SubscriptionMade, QueryInv, FreshInv
  <2>3. CASE IpObtained
    BY <2>0, <2>3 DEF IpObtained, client, time, TypeOK, ConnStates, ClientStates
  <2>4. CASE Dhcp
    BY <2>0, <2>4 DEF Dhcp, app, client, time
  <2>5. CASE Tick
    BY <2>0, <2>5, SpaceAssumption DEF Tick, app, client, network, TypeOK
  <2>6. CASE UNCHANGED vars
    BY <2>0, <2>6 DEF vars, app, client, network, time
  <2> QED
    BY <2>1, <2>2, <2>3, <2>4, <2>5, <2>6 DEF Next
<1> QED
  BY <1>1, <1>2 DEF IInv, SessionInv

\* The state before the first pass satisfies it.
LEMMA InitInv == Init => IInv
<1> SUFFICES ASSUME Init PROVE IInv
  OBVIOUS
<1>1. TypeOK
  <2>1. /\ ring \in 0 .. RingSize /\ pubs \in 0 .. MaxRequests
        /\ now \in 0 .. Modulus - 1 /\ last \in 0 .. Modulus - 1
        /\ elapsed \in 0 .. ReconnectWait + Step
        /\ mqttCounter \in 0 .. PublishTicks
    BY TimeAssumption, SpaceAssumption DEF Init
  <2> QED
    BY <2>1 DEF Init, TypeOK, ConnStates, ClientStates
<1>2. SessionInv
  BY DEF Init, SessionInv, InStep, SubscriptionMade, QueryInv, FreshInv
<1>3. ClockInv
  BY <1>1, SinceLastValue, TimeAssumption DEF Init, ClockInv
<1> QED
  BY <1>1, <1>2, <1>3 DEF IInv, SessionInv

-----------------------------------------------------------------------------
(* The theorems.                                                           *)

\* The inductive invariant holds in every reachable state.
THEOREM Invariance == Spec => []IInv
  BY InitInv, StepInv, PTL DEF Spec

\* Whatever main(), lwIP and the timer do in whatever order, no variable
\* leaves its range: the output ring and the request list never overflow.
THEOREM TypeCorrect == Spec => []TypeOK
  BY Invariance, PTL DEF IInv

\* The application and the MQTT client agree about the session: main() never
\* connects a client that is connected, nor publishes on one that is not.
THEOREM ClientInStep == Spec => []InStep
  BY Invariance, PTL DEF IInv

\* The one attempt to subscribe in a session, whose result main() ignores,
\* always finds its request slot and its room in the ring.
THEOREM SubscriptionSound == Spec => []SubscriptionMade
  BY Invariance, PTL DEF IInv

\* Attempts to connect are more than ReconnectWait apart, for every modulus
\* of the clock above the pause and a tick.
THEOREM ReconnectsPaced == Spec => ReconnectPaced
<1>1. IInv /\ [Next]_vars => [last' # last => elapsed > ReconnectWait]_vars
  <2> SUFFICES ASSUME IInv, Next, last' # last PROVE elapsed > ReconnectWait
    OBVIOUS
  <2>1. Reconnect
    BY DEF Next, Loop, StartUp, Connected, Idle, IpObtained, Client, Dhcp, Tick,
       time, TcpConnected, ConnackAccepted, ConnackRefused, TcpLost,
       ConnectTimeout, ServerTimeout, CyclicTimer, TcpSent, Suback, Close
  <2> QED
    BY <2>1, TimeAssumption DEF Reconnect, WaitOver, IInv, ClockInv, TypeOK
<1> QED
  BY <1>1, Invariance, PTL DEF Spec, ReconnectPaced

\* The application uses the resolver as Lookup allows: it asks once, also when
\* the lease goes and comes back, and takes one answer.
THEOREM UsesLookupSafely == Spec => Resolver!SafeSpec
<1>1. Init => Resolver!Init
  BY DEF Init, Resolver!Init, LookupPhase
<1>2. IInv /\ [Next]_vars => [Resolver!Next]_LookupPhase
  <2> SUFFICES ASSUME IInv, [Next]_vars
               PROVE  Resolver!Next \/ UNCHANGED LookupPhase
    OBVIOUS
  <2>1. CASE UNCHANGED <<query, brokerIp>>
    BY <2>1 DEF LookupPhase
  <2>2. CASE StartUp
    BY <2>2 DEF StartUp, IInv, QueryInv, LookupPhase, Resolver!Next, Resolver!Ask
  <2>3. CASE IpObtained
    BY <2>3 DEF IpObtained, LookupPhase, Resolver!Next, Resolver!Answer
  <2>4. [Next]_vars => \/ StartUp \/ IpObtained \/ UNCHANGED <<query, brokerIp>>
    BY DEF Next, Loop, Reconnect, Connected, Idle, Client, Dhcp, Tick, vars, app,
       network, TcpConnected, ConnackAccepted, ConnackRefused, TcpLost,
       ConnectTimeout, ServerTimeout, CyclicTimer, TcpSent, Suback, Close
  <2> QED
    BY <2>1, <2>2, <2>3, <2>4
<1> QED
  BY <1>1, <1>2, Invariance, PTL DEF Spec, Resolver!SafeSpec

\* There is no session before the answer: mqtt_client_connect is never given
\* an address that nobody looked up.
THEOREM LookupBeforeConnect ==
  Spec => []((conn # "TCP_DISCONNECTED") => query = "done")
<1>1. IInv => (conn # "TCP_DISCONNECTED" => query = "done")
  BY DEF IInv, InStep, QueryInv, FreshInv, TypeOK, ClientStates
<1> QED
  BY <1>1, Invariance, PTL
=============================================================================
