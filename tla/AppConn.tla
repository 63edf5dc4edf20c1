------------------------------ MODULE AppConn ------------------------------
(***************************************************************************)
(* The application's connection state machine (the switch on myConn in     *)
(* main(), Core/Src/main.c) and the session it has with lwIP's MQTT client *)
(* (lwip-2.2.1/src/apps/mqtt/mqtt.c).  lwIP calls the application back     *)
(* from the main loop only (NO_SYS), so a callback is a step between two   *)
(* passes through the switch.  The TIM2 interrupt advances the time.       *)
(***************************************************************************)
EXTENDS Naturals

CONSTANTS
  Step,          \* milliseconds of one TIM2 period (500)
  Modulus,       \* the clock wraps here (2^32)
  ReconnectWait, \* the pause between two connection attempts (3000)
  PublishTicks,  \* TIM2 periods between two publications (10)
  RingSize,      \* MQTT_OUTPUT_RINGBUF_SIZE
  MaxRequests,   \* MQTT_REQ_MAX_IN_FLIGHT
  ConnectLen, PublishLen, SubscribeLen, PingLen   \* message lengths

ASSUME TimeAssumption ==
  /\ Step \in Nat \ {0} /\ ReconnectWait \in Nat
  /\ Modulus \in Nat /\ Modulus > ReconnectWait + Step
  /\ PublishTicks \in Nat
ASSUME SpaceAssumption ==
  /\ RingSize \in Nat /\ MaxRequests \in Nat
  /\ ConnectLen \in Nat /\ PublishLen \in Nat
  /\ SubscribeLen \in Nat /\ PingLen \in Nat
  /\ ConnectLen <= RingSize
\* Two pings, a publication and the subscription fit into the ring and the
\* request list at once (4 + 82 + 17 of 256 bytes, 2 of 4 requests)
ASSUME FirstPassAssumption ==
  /\ 2 * PingLen + PublishLen + SubscribeLen <= RingSize
  /\ MaxRequests > 1

VARIABLES
  myConn,        \* Connection_State
  bSubscribed,
  brokerIp,      \* mqttBroker.ip: "none", "resolved", or "bad"
  halted,        \* in a while(1) that nothing ends
  dhcpBound,     \* dhcp_supplied_address
  query,         \* the DNS query is "none", "asked" or "done" (see Dns)
  conn,          \* the MQTT client's conn_state
  ring,          \* bytes in the client's output ring
  pubs,          \* pending QoS 0 publications in the request list
  subReq,        \* a pending SUBSCRIBE in the request list
  subscribed,    \* SUBSCRIBE was accepted for sending in this session
  timerOn,       \* mqtt_cyclic_timer is in lwIP's timeout list
  now,           \* sys_now()
  last,          \* lastReconnectAttempt
  elapsed,       \* time since the last attempt, counted without wrapping
  mqttCounter,   \* u32MqttCounter, counted up to PublishTicks
  cyclicDue,     \* time has passed since mqtt_cyclic_timer ran last
  polled         \* main has been through its loop since the last tick

app == <<myConn, bSubscribed, brokerIp, halted>>
client == <<conn, ring, pubs, subReq, subscribed, timerOn>>
network == <<dhcpBound, query>>
time == <<now, last, elapsed, mqttCounter, cyclicDue, polled>>
vars == <<app, client, network, time>>

ConnStates == {"START_UP", "DHCP_IP_RECEIVED", "DNS_IP_OBTAINED",
               "MQTT_CONNECTING", "MQTT_CONNECTED", "MQTT_DISCONNECTED"}
ClientStates == {"TCP_DISCONNECTED", "TCP_CONNECTING", "MQTT_CONNECTING",
                 "MQTT_CONNECTED"}

Cap(n, bound) == IF n > bound THEN bound ELSE n

-----------------------------------------------------------------------------
Init ==
  /\ myConn = "START_UP" /\ bSubscribed = FALSE /\ brokerIp = "none"
  /\ halted = FALSE
  /\ dhcpBound = FALSE /\ query = "none"
  /\ conn = "TCP_DISCONNECTED" /\ ring = 0 /\ pubs = 0 /\ subReq = FALSE
  /\ subscribed = FALSE /\ timerOn = FALSE
  /\ now = 0 /\ last = 0 /\ elapsed = 0 /\ mqttCounter = 0
  /\ cyclicDue = FALSE /\ polled = TRUE

-----------------------------------------------------------------------------
(* The switch in main().                                                   *)

\* Mutant: main() goes on as if the answer were there
StartUpNoWait ==
  /\ myConn = "START_UP" /\ dhcpBound
  /\ myConn' = "DNS_IP_OBTAINED"
  /\ query' = "asked"
  /\ UNCHANGED <<bSubscribed, brokerIp, dhcpBound, client, now, last, elapsed,
                 mqttCounter>>

\* START_UP: with an address, ask for the broker's.  The result of
\* dns_gethostbyname is ignored; its table is empty and a server is set, so
\* the query is under way and ipObtained will be called (see Dns)
StartUp ==
  /\ myConn = "START_UP" /\ dhcpBound
  /\ myConn' = "DHCP_IP_RECEIVED"
  /\ query' = "asked"
  /\ UNCHANGED <<bSubscribed, brokerIp, dhcpBound, client, now, last, elapsed,
                 mqttCounter>>

\* sys_now() - lastReconnectAttempt in unsigned arithmetic
SinceLast == (now + Modulus - last) % Modulus
\* Mutants: a clock that wrapped counts as a long time; the wait is an
\* absolute time that the clock may never reach
WaitOverOnWrap == now < last \/ now > last + ReconnectWait
WaitOverAbsolute == now > last + ReconnectWait

WaitOver == SinceLast > ReconnectWait

\* Mutant: main() does not reset bSubscribed for the new session
ClientConnectKeepsSubscribed(ok) ==
  IF conn # "TCP_DISCONNECTED" \/ ~ok
  THEN /\ UNCHANGED <<conn, myConn, bSubscribed>>
       /\ ring' = 0 /\ pubs' = 0 /\ subReq' = FALSE /\ subscribed' = FALSE
  ELSE /\ conn' = "TCP_CONNECTING"
       /\ ring' = ConnectLen
       /\ pubs' = 0 /\ subReq' = FALSE /\ subscribed' = FALSE
       /\ myConn' = "MQTT_CONNECTING"
       /\ UNCHANGED bSubscribed

\* mqtt_client_connect: a client that is not disconnected is left alone;
\* short of memory it wipes the client and fails; else it wipes the client,
\* starts the TCP connection and queues CONNECT.
ClientConnect(ok) ==
  IF conn # "TCP_DISCONNECTED" \/ ~ok
  THEN /\ IF conn # "TCP_DISCONNECTED"
          THEN UNCHANGED <<conn, ring, pubs, subReq, subscribed>>
          ELSE /\ ring' = 0 /\ pubs' = 0 /\ subReq' = FALSE
               /\ subscribed' = FALSE /\ UNCHANGED conn
       /\ UNCHANGED <<myConn, bSubscribed>>
  ELSE /\ conn' = "TCP_CONNECTING"
       /\ ring' = ConnectLen
       /\ pubs' = 0 /\ subReq' = FALSE /\ subscribed' = FALSE
       /\ myConn' = "MQTT_CONNECTING"
       /\ bSubscribed' = FALSE

Reconnect ==
  /\ myConn \in {"DNS_IP_OBTAINED", "MQTT_DISCONNECTED"}
  /\ WaitOver
  /\ last' = now
  /\ elapsed' = 0
  /\ \E ok \in BOOLEAN : ClientConnect(ok)
  /\ UNCHANGED <<brokerIp, network, timerOn, now, mqttCounter>>

\* Mutant: without mqtt_output_check_space
HasSlot(len, slots, r) == slots < MaxRequests

\* mqtt_publish and mqtt_subscribe want a request slot and room in the ring;
\* the message then goes to TCP, if TCP takes it
HasSpace(len, slots, r) == slots < MaxRequests /\ r + len <= RingSize
Slots(p, s) == p + (IF s THEN 1 ELSE 0)

\* MQTT_CONNECTED: publish when it is time, then subscribe if this session
\* has not; neither result is looked at
Connected ==
  /\ myConn = "MQTT_CONNECTED"
  /\ LET due == mqttCounter >= PublishTicks
         puts == due /\ conn # "TCP_DISCONNECTED"
                 /\ HasSpace(PublishLen, Slots(pubs, subReq), ring)
         pubs1 == IF puts THEN pubs + 1 ELSE pubs
     IN  \E sent1 \in BOOLEAN, sent2 \in BOOLEAN :
           LET ring1 == IF ~puts THEN ring
                        ELSE IF sent1 THEN 0 ELSE ring + PublishLen
               subs == ~bSubscribed /\ conn # "TCP_DISCONNECTED"
                       /\ HasSpace(SubscribeLen, Slots(pubs1, subReq), ring1)
           IN  /\ mqttCounter' = IF due THEN 0 ELSE mqttCounter
               /\ pubs' = pubs1
               /\ ring' = IF ~subs THEN ring1
                          ELSE IF sent2 THEN 0 ELSE ring1 + SubscribeLen
               /\ subReq' = (subReq \/ subs)
               /\ subscribed' = (subscribed \/ subs)
  /\ bSubscribed' = TRUE
  /\ UNCHANGED <<myConn, brokerIp, conn, timerOn, network, now, last, elapsed>>

\* No case applies
Idle ==
  /\ \/ myConn = "START_UP" /\ ~dhcpBound
     \/ myConn \in {"DHCP_IP_RECEIVED", "MQTT_CONNECTING"}
     \/ myConn \in {"DNS_IP_OBTAINED", "MQTT_DISCONNECTED"} /\ ~WaitOver
  /\ UNCHANGED <<myConn, bSubscribed, brokerIp, client, network, now, last,
                 elapsed, mqttCounter>>

Loop ==
  /\ ~halted
  /\ polled' = TRUE
  /\ StartUp \/ Reconnect \/ Connected \/ Idle
  /\ UNCHANGED <<halted, cyclicDue>>

-----------------------------------------------------------------------------
(* Callbacks into the application.                                         *)

\* ipObtained copies *ipaddr, which lwIP passes as NULL on failure: what is
\* read through NULL (flash, on this MCU) becomes the broker's address
IpObtained ==
  /\ ~halted /\ query = "asked"
  /\ query' = "done"
  /\ brokerIp' \in {"resolved", "bad"}
  /\ myConn' = "DNS_IP_OBTAINED"
  /\ UNCHANGED <<bSubscribed, halted, dhcpBound, client, time>>

\* Mutant: a disconnection is not recorded
ConnectionCallbackIgnoresLoss(status) ==
  IF status = "ACCEPTED" THEN myConn' = "MQTT_CONNECTED" /\ UNCHANGED halted
                         ELSE UNCHANGED <<myConn, halted>>

\* myMqttClientCallBack: two statuses are known, for others the firmware stops
ConnectionCallback(status) ==
  CASE status = "ACCEPTED" -> myConn' = "MQTT_CONNECTED" /\ UNCHANGED halted
    [] status = "DISCONNECTED" ->
         myConn' = "MQTT_DISCONNECTED" /\ UNCHANGED halted
    [] OTHER -> halted' = TRUE /\ UNCHANGED myConn

\* Mutant: the state is changed before it is looked at, so nobody is told
CloseUnreported(reason) ==
  /\ pubs' = 0 /\ subReq' = FALSE /\ timerOn' = FALSE
  /\ conn' = "TCP_DISCONNECTED"
  /\ UNCHANGED <<myConn, halted, subscribed, bSubscribed, brokerIp, network, now,
                 last, elapsed, mqttCounter, polled>>

\* mqtt_close: requests are dropped, and a client that was not disconnected
\* already is reported
Close(reason) ==
  /\ pubs' = 0 /\ subReq' = FALSE /\ timerOn' = FALSE
  /\ conn' = "TCP_DISCONNECTED"
  /\ IF conn # "TCP_DISCONNECTED" THEN ConnectionCallback(reason)
                                  ELSE UNCHANGED <<myConn, halted>>
  /\ UNCHANGED <<subscribed, bSubscribed, brokerIp, network, now, last, elapsed,
                 mqttCounter, polled>>

-----------------------------------------------------------------------------
(* lwIP's MQTT client.                                                     *)

\* mqtt_tcp_connect_cb: CONNECT is sent, if TCP takes it.  The cyclic timer
\* runs only if sys_timeout finds an entry in its pool, and nobody is told
\* (timeouts.c:188; Timeouts shows that the firmware's pool has none left)
TcpConnected ==
  /\ ~halted /\ conn = "TCP_CONNECTING" /\ brokerIp = "resolved"
  /\ conn' = "MQTT_CONNECTING"
  /\ timerOn' \in BOOLEAN
  /\ ring' \in {0, ring}
  /\ UNCHANGED <<pubs, subReq, subscribed, app, network, time>>

\* mqtt_message_received: CONNACK accepts.  It answers a CONNECT that was
\* sent; one that TCP refused is not tried again before CONNACK.
ConnackAccepted ==
  /\ ~halted /\ conn = "MQTT_CONNECTING" /\ ring = 0
  /\ conn' = "MQTT_CONNECTED"
  /\ ConnectionCallback("ACCEPTED")
  /\ UNCHANGED <<ring, pubs, subReq, subscribed, timerOn, bSubscribed, brokerIp,
                 network, time>>

\* CONNACK refuses, with one of its return codes
ConnackRefused ==
  /\ ~halted /\ conn = "MQTT_CONNECTING" /\ ring = 0
  /\ Close("REFUSED")
  /\ UNCHANGED <<ring, cyclicDue>>

\* mqtt_tcp_err_cb, the remote end's close, and a malformed message
TcpLost ==
  /\ ~halted /\ conn # "TCP_DISCONNECTED"
  /\ Close("DISCONNECTED")
  /\ UNCHANGED <<ring, cyclicDue>>

PingAppended == IF ring + PingLen <= RingSize THEN ring + PingLen ELSE ring

\* mqtt_cyclic_timer: CONNACK stays away too long
ConnectTimeout ==
  /\ ~halted /\ conn = "MQTT_CONNECTING" /\ timerOn
  /\ cyclicDue
  /\ cyclicDue' = FALSE
  /\ Close("TIMEOUT")
  /\ UNCHANGED ring

\* mqtt_cyclic_timer: the server's traffic stays away too long; that a ping
\* is due is looked at after mqtt_close too
ServerTimeout ==
  /\ ~halted /\ conn = "MQTT_CONNECTED" /\ timerOn
  /\ cyclicDue
  /\ cyclicDue' = FALSE
  /\ Close("TIMEOUT")
  /\ ring' \in {ring, PingAppended}

\* mqtt_cyclic_timer: requests time out, a ping is queued if there is room
CyclicTimer ==
  /\ ~halted /\ conn = "MQTT_CONNECTED" /\ timerOn
  /\ cyclicDue
  /\ cyclicDue' = FALSE
  /\ pubs' \in {0, pubs}
  /\ subReq' \in {FALSE, subReq}
  /\ ring' \in {ring, PingAppended}
  /\ UNCHANGED <<conn, subscribed, timerOn, app, network, now, last, elapsed,
                 mqttCounter, polled>>

\* mqtt_tcp_sent_cb and mqtt_tcp_poll_cb; QoS 0 publications are done when
\* something was acknowledged
TcpSent ==
  /\ ~halted /\ conn = "MQTT_CONNECTED"
  /\ pubs' \in {0, pubs}
  /\ ring' \in {0, ring}
  /\ UNCHANGED <<conn, subReq, subscribed, timerOn, app, network, time>>

Suback ==
  /\ ~halted /\ conn = "MQTT_CONNECTED" /\ subReq
  /\ subReq' = FALSE
  /\ UNCHANGED <<conn, ring, pubs, subscribed, timerOn, app, network, time>>

Client == TcpConnected \/ ConnackAccepted \/ ConnackRefused \/ TcpLost
          \/ ConnectTimeout \/ ServerTimeout \/ CyclicTimer \/ TcpSent \/ Suback

-----------------------------------------------------------------------------
\* The DHCP client gets or loses its lease
Dhcp ==
  /\ ~halted
  /\ dhcpBound' = ~dhcpBound
  /\ UNCHANGED <<app, query, client, time>>

\* HAL_TIM_PeriodElapsedCallback.  The loop is much faster than the timer.
Tick ==
  /\ polled \/ halted
  /\ now' = (now + Step) % Modulus
  /\ elapsed' = Cap(elapsed + Step, ReconnectWait + Step)
  /\ mqttCounter' = Cap(mqttCounter + 1, PublishTicks)
  /\ cyclicDue' = TRUE
  /\ polled' = FALSE
  /\ UNCHANGED <<app, client, network, last>>

Next == Loop \/ IpObtained \/ Client \/ Dhcp \/ Tick

Spec == Init /\ [][Next]_vars

\* TCP stops repeating a SYN after TCP_SYNMAXRTX times and reports that
TcpSettles == conn = "TCP_CONNECTING" /\ (TcpConnected \/ TcpLost)

\* The loop runs, the timer ticks, lwIP's timers run if they were started and
\* the resolver answers (Dns implements Lookup); the network owes nothing
FairSpec ==
  /\ Spec
  /\ WF_vars(Loop) /\ WF_vars(Tick)
  /\ WF_vars(TcpSettles) /\ WF_vars(ConnectTimeout) /\ WF_vars(IpObtained)

-----------------------------------------------------------------------------
(* Properties.                                                             *)

\* The range of every variable; the output ring and the request list of the
\* MQTT client are never filled beyond their size.
TypeOK ==
  /\ myConn \in ConnStates /\ conn \in ClientStates
  /\ bSubscribed \in BOOLEAN /\ halted \in BOOLEAN
  /\ cyclicDue \in BOOLEAN /\ polled \in BOOLEAN
  /\ dhcpBound \in BOOLEAN /\ timerOn \in BOOLEAN /\ subReq \in BOOLEAN /\ subscribed \in BOOLEAN
  /\ brokerIp \in {"none", "resolved", "bad"}
  /\ query \in {"none", "asked", "done"}
  /\ ring \in 0 .. RingSize /\ pubs \in 0 .. MaxRequests
  /\ now \in 0 .. Modulus - 1 /\ last \in 0 .. Modulus - 1
  /\ elapsed \in 0 .. ReconnectWait + Step
  /\ mqttCounter \in 0 .. PublishTicks

\* The application and the MQTT client agree about the session: whenever
\* main() tries to connect the client is disconnected (never ERR_ISCONN), and
\* whenever it publishes or subscribes the client is connected (never
\* ERR_CONN), for every order of callbacks.
InStep ==
  ~halted =>
    /\ myConn = "MQTT_CONNECTED" <=> conn = "MQTT_CONNECTED"
    /\ myConn = "MQTT_CONNECTING" <=> conn \in {"TCP_CONNECTING",
                                                "MQTT_CONNECTING"}

\* bSubscribed tells the truth although main() ignores what mqtt_subscribe
\* returns: in every session the subscription found a request slot and room
\* in the output ring, also behind CONNECT and a publication TCP has not taken.
SubscriptionMade ==
  (~halted /\ myConn = "MQTT_CONNECTED" /\ bSubscribed) => subscribed

\* Connection attempts are more than ReconnectWait apart in real time, also
\* when the clock wraps between them.
ReconnectPaced == [][last' # last => elapsed > ReconnectWait]_vars

\* A lost connection is always followed by another attempt.
Reconnects == myConn = "MQTT_DISCONNECTED" ~> elapsed = 0

\* Connection and lookup fit together: the application asks for the broker's
\* address once, also when the lease goes and comes back, and takes the answer
\* once, before it connects.
LookupPhase ==
  CASE query = "none" -> "idle"
    [] query = "asked" -> "pending"
    [] OTHER -> IF brokerIp = "resolved" THEN "found" ELSE "failed"
Resolver == INSTANCE Lookup WITH phase <- LookupPhase
UsesLookup == Resolver!Spec /\ []((conn # "TCP_DISCONNECTED") => query = "done")

\* What becomes of an attempt to connect, whatever TCP and the broker do: main
\* learns that it succeeded or failed, the firmware stops in the callback's
\* while(1), or it waits for CONNACK without a timer, the one place where an
\* attempt can hang.  CONNECT may have been refused by TCP or ignored.
WaitsUntimed == conn = "MQTT_CONNECTING" /\ ~timerOn
AttemptFate ==
  myConn = "MQTT_CONNECTING"
    ~> (myConn # "MQTT_CONNECTING" \/ halted \/ WaitsUntimed)

\* mqtt_opts.h:89 "Seconds for MQTT connect response timeout after sending
\* connect request": an attempt to connect always comes to an end.  It does
\* not where the timer found no entry; AppConnNoTimer.cfg shows it.
ConnectSettles == myConn = "MQTT_CONNECTING" ~> myConn # "MQTT_CONNECTING" \/ halted

\* doc/mqtt_client.txt:75, on a status other than MQTT_CONNECT_ACCEPTED: "Its
\* more nice to be connected, so try to reconnect".
NeverHangs == ~halted

\* dns.h:99 "pointer to an ip_addr_t containing the IP address of the
\* hostname, or NULL if the name could not be found": DNS_IP_OBTAINED means
\* that there is an address.
AddressObtained == myConn = "DNS_IP_OBTAINED" => brokerIp = "resolved"

-----------------------------------------------------------------------------
(* The inductive invariant behind the safety properties.                   *)

\* The DNS query and the session follow each other: ipObtained is called in
\* DHCP_IP_RECEIVED only, and there is no session before it.
QueryInv ==
  /\ query = "none" <=> myConn = "START_UP"
  /\ query = "asked" <=> myConn = "DHCP_IP_RECEIVED"

\* Until the first pass through the switch a new session has neither requests
\* nor more in the ring than the pings the time since CONNACK allows: a tick
\* waits for a pass, and mqtt_cyclic_timer for a tick.  The firmware stops
\* only from mqtt_close, without a session.
FreshInv ==
  /\ halted => conn = "TCP_DISCONNECTED"
  /\ myConn = "MQTT_CONNECTING" => ~bSubscribed
  /\ conn \in {"TCP_CONNECTING", "MQTT_CONNECTING"} => pubs = 0 /\ ~subReq
  /\ conn = "MQTT_CONNECTED" /\ ~bSubscribed =>
       /\ pubs = 0 /\ ~subReq
       /\ ring <= 2 * PingLen
       /\ cyclicDue \/ polled => ring <= PingLen
       /\ cyclicDue /\ polled => ring = 0

\* Below its cap elapsed is what the firmware computes from the wrapping clock
ClockInv == elapsed < ReconnectWait + Step => SinceLast = elapsed

IInv == TypeOK /\ InStep /\ SubscriptionMade /\ QueryInv /\ FreshInv /\ ClockInv
=============================================================================
