----------------------------- MODULE MqttClient -----------------------------
(***************************************************************************)
(* lwIP's MQTT client (lwip-2.2.1/src/apps/mqtt/mqtt.c) as the application *)
(* uses it: one client, QoS 0 publications, one subscription a session.    *)
(* The output ring is byte positions; a message is its length.  Requests   *)
(* are a queue of timeout differences.  TCP may refuse what it is given.   *)
(* A connection that mqtt_close gave up may still be polled by TCP.        *)
(*                                                                         *)
(* The unit of time is MQTT_CYCLIC_TIMER_INTERVAL.                         *)
(***************************************************************************)
EXTENDS Naturals, Sequences, SequencesExt

CONSTANTS
  RingSize,       \* MQTT_OUTPUT_RINGBUF_SIZE
  MaxRequests,    \* MQTT_REQ_MAX_IN_FLIGHT
  ReqTimeout,     \* MQTT_REQ_TIMEOUT
  ConnectTimeout, \* MQTT_CONNECT_TIMOUT
  KeepAlive,      \* the application's keep_alive
  ConnectLen, PublishLen, SubscribeLen, PingLen,  \* message lengths
  MaxHeld         \* bound of the ghost held, which grows in an overfilled ring

ASSUME RingAssumption ==
  /\ RingSize \in Nat \ {0}
  /\ {ConnectLen, PublishLen, SubscribeLen, PingLen} \subseteq 1 .. RingSize
  /\ ConnectLen < RingSize
  /\ MaxHeld \in Nat
ASSUME TimerAssumption ==
  /\ MaxRequests \in Nat \ {0} /\ ReqTimeout \in Nat \ {0}
  /\ ConnectTimeout \in Nat \ {0} /\ KeepAlive \in Nat \ {0}

VARIABLES
  conn,       \* conn_state
  put, get,   \* output.put, output.get
  held,       \* ghost: bytes put and not sent
  queue,      \* pend_req_queue: id, timeout_diff and (ghost) age
  asked,      \* the application has called mqtt_subscribe in this session
  tick,       \* cyclic_tick
  watchdog,   \* server_watchdog
  timer,      \* mqtt_cyclic_timer is in the timeout list
  old,        \* the last session's pcb: "none", "pending" or "closing"
  misdirected \* ghost: bytes given to another session's connection

ring == <<put, get, held>>
vars == <<conn, ring, queue, asked, tick, watchdog, timer, old, misdirected>>

States == {"TCP_DISCONNECTED", "TCP_CONNECTING", "MQTT_CONNECTING",
           "MQTT_CONNECTED"}
PublishId == 0
SubscribeId == 1

Lesser(a, b) == IF a < b THEN a ELSE b

-----------------------------------------------------------------------------
(* The output ring.                                                        *)

\* mqtt_ringbuf_len: put - get, corrected where that is negative
RingLen(p, g) == IF p >= g THEN p - g ELSE p + RingSize - g
RingFree(p, g) == RingSize - RingLen(p, g)

\* Mutants: the space check forgets what the ring holds; the ring is advanced
\* without wrapping when its end is hit exactly
SpaceOfEmptyRing(len) == len <= RingSize
AdvanceLate(i, len) == IF i + len > RingSize THEN i + len - RingSize
                       ELSE i + len

\* mqtt_output_check_space
CheckSpace(len) == len <= RingFree(put, get)

\* mqtt_ringbuf_put once per byte, mqtt_ringbuf_advance_get_idx
Advance(i, len) == IF i + len >= RingSize THEN i + len - RingSize
                   ELSE i + len

\* tcp_write_checks: data may be queued on the client's own connection, and
\* on one whose FIN still waits for memory, as it is in state ESTABLISHED
Writable(pcb) == pcb \in {"own", "pending"}

\* What mqtt_output_send may get rid of: nothing, everything, or as much as
\* the send buffer holds or the first of its two writes
Sendable(p, g, pcb) ==
  IF Writable(pcb) THEN 0 .. RingLen(p, g) ELSE {0}

\* bytes are appended to the ring, if any, and the ring is sent to pcb
PutAndSend(len, pcb) ==
  LET p == Advance(put, len)
  IN  \E n \in Sendable(p, get, pcb) :
        /\ put' = p
        /\ get' = Advance(get, n)
        /\ held' = held + len - n
        /\ misdirected' = (misdirected \/ (n > 0 /\ pcb # "own"))

-----------------------------------------------------------------------------
(* Requests.                                                               *)

TotalDiff(q) ==
  LET sum[i \in 0 .. Len(q)] == IF i = 0 THEN 0 ELSE sum[i - 1] + q[i].diff
  IN  sum[Len(q)]

\* mqtt_append_request
AppendRequest(q, id) ==
  Append(q, [id |-> id, diff |-> ReqTimeout - TotalDiff(q), age |-> 0])

\* Mutant: the time of a request that is taken out is lost
TakeOnly(q, id) ==
  LET at == {i \in DOMAIN q : q[i].id = id}
  IN  IF at = {} THEN q ELSE RemoveAt(q, CHOOSE i \in at : \A j \in at : i <= j)

\* mqtt_take_request: the first one with the id; its time is the next one's
TakeRequest(q, id) ==
  LET at == {i \in DOMAIN q : q[i].id = id}
      i == CHOOSE k \in at : \A j \in at : k <= j
  IN  IF at = {} THEN q
      ELSE RemoveAt([j \in DOMAIN q |->
                       IF j = i + 1 THEN [q[j] EXCEPT !.diff = @ + q[i].diff]
                       ELSE q[j]], i)

\* The loop of mqtt_tcp_sent_cb: publications are taken until none is left
TakePublications(q) ==
  LET taken[n \in 0 .. Len(q)] ==
        IF n = 0 THEN q ELSE TakeRequest(taken[n - 1], PublishId)
  IN  taken[Len(q)]

\* mqtt_request_time_elapsed for one interval: requests without time left
\* go, and so does the first one with one interval left
TimeElapsed(q) ==
  LET late == SelectInSeq(q, LAMBDA r : r.diff > 0)
      rest == IF late = 0 THEN <<>> ELSE SubSeq(q, late, Len(q))
      left == IF rest = <<>> THEN <<>>
              ELSE IF rest[1].diff = 1 THEN Tail(rest)
              ELSE [rest EXCEPT ![1].diff = @ - 1]
  IN  [i \in DOMAIN left |-> [left[i] EXCEPT !.age = @ + 1]]

-----------------------------------------------------------------------------
Init ==
  /\ conn = "TCP_DISCONNECTED"
  /\ put = 0 /\ get = 0 /\ held = 0
  /\ queue = <<>> /\ asked = FALSE
  /\ tick = 0 /\ watchdog = 0 /\ timer = FALSE
  /\ old = "none" /\ misdirected = FALSE

\* Mutant: the read position of the last session is kept
ConnectKeepsGet ==
  /\ conn = "TCP_DISCONNECTED"
  /\ conn' = "TCP_CONNECTING" /\ put' = ConnectLen /\ held' = ConnectLen
  /\ queue' = <<>> /\ asked' = FALSE /\ tick' = 0 /\ watchdog' = 0
  /\ UNCHANGED <<get, timer, old, misdirected>>

\* mqtt_client_connect: the client is wiped and, unless memory is short,
\* CONNECT is its first message
Connect ==
  /\ conn = "TCP_DISCONNECTED"
  /\ \/ conn' = "TCP_CONNECTING" /\ put' = ConnectLen /\ held' = ConnectLen
     \/ conn' = "TCP_DISCONNECTED" /\ put' = 0 /\ held' = 0
  /\ get' = 0
  /\ queue' = <<>> /\ asked' = FALSE /\ tick' = 0 /\ watchdog' = 0
  /\ UNCHANGED <<timer, old, misdirected>>

\* mqtt_tcp_connect_cb; sys_timeout may find no entry in its pool
TcpConnected ==
  /\ conn = "TCP_CONNECTING"
  /\ conn' = "MQTT_CONNECTING"
  /\ timer' \in BOOLEAN
  /\ tick' = 0
  /\ PutAndSend(0, "own")
  /\ UNCHANGED <<queue, asked, watchdog, old>>

\* mqtt_message_received: the broker accepts, having got CONNECT
Connack ==
  /\ conn = "MQTT_CONNECTING" /\ held = 0
  /\ conn' = "MQTT_CONNECTED"
  /\ tick' = 0 /\ watchdog' = 0
  /\ UNCHANGED <<ring, queue, asked, timer, old, misdirected>>

\* mqtt_close: tcp_close queues a FIN or, where tcp_send_fin finds no memory,
\* leaves that to the TCP timer; the poll callback stays.  A connection that
\* broke is freed.
Close ==
  /\ conn' = "TCP_DISCONNECTED"
  /\ queue' = <<>>
  /\ timer' = FALSE
  /\ old' \in {"none", "closing", "pending"}
  /\ UNCHANGED asked

\* CONNACK refuses, the peer closes, the connection breaks, a message is bad
Lost ==
  /\ conn # "TCP_DISCONNECTED"
  /\ Close
  /\ UNCHANGED <<ring, tick, watchdog, misdirected>>

\* mqtt_publish with QoS 0, and mqtt_subscribe once in a session
Request(id, len) ==
  /\ conn = "MQTT_CONNECTED"
  /\ held + len <= MaxHeld
  /\ IF Len(queue) < MaxRequests /\ CheckSpace(len)
     THEN /\ PutAndSend(len, "own")
          /\ queue' = AppendRequest(queue, id)
     ELSE UNCHANGED <<ring, queue, misdirected>>
  /\ UNCHANGED <<conn, tick, watchdog, timer, old>>

Publish == Request(PublishId, PublishLen) /\ UNCHANGED asked
Subscribe == ~asked /\ Request(SubscribeId, SubscribeLen) /\ asked' = TRUE

\* mqtt_tcp_recv_cb: a SUBACK
Suback ==
  /\ conn = "MQTT_CONNECTED" /\ \E i \in DOMAIN queue : queue[i].id = SubscribeId
  /\ queue' = TakeRequest(queue, SubscribeId)
  /\ watchdog' = 0
  /\ UNCHANGED <<conn, ring, asked, tick, timer, old, misdirected>>

\* mqtt_tcp_recv_cb: another message of the broker
Received ==
  /\ conn = "MQTT_CONNECTED"
  /\ watchdog' = 0
  /\ UNCHANGED <<conn, ring, queue, asked, tick, timer, old, misdirected>>

\* mqtt_tcp_sent_cb: every QoS 0 publication is done, the ring is sent
Sent ==
  /\ conn = "MQTT_CONNECTED"
  /\ queue' = TakePublications(queue)
  /\ tick' = 0 /\ watchdog' = 0
  /\ PutAndSend(0, "own")
  /\ UNCHANGED <<conn, asked, timer, old>>

\* mqtt_tcp_poll_cb: TCP polls the client's connection, and also the last
\* one until that is gone
Poll ==
  /\ conn = "MQTT_CONNECTED"
  /\ \E pcb \in {"own", old} \ {"none"} : PutAndSend(0, pcb)
  /\ UNCHANGED <<conn, queue, asked, tick, watchdog, timer, old>>

\* tcp_fasttmr sends a FIN that waited; a connection that is closing is freed
OldMovesOn ==
  /\ old # "none"
  /\ old' = IF old = "pending" THEN "closing" ELSE "none"
  /\ UNCHANGED <<conn, ring, queue, asked, tick, watchdog, timer, misdirected>>

\* mqtt_cyclic_timer in MQTT_CONNECTING
TimerConnecting ==
  /\ timer /\ conn = "MQTT_CONNECTING"
  /\ tick' = tick + 1
  /\ IF tick' >= ConnectTimeout THEN Close
                                ELSE UNCHANGED <<conn, queue, asked, timer, old>>
  /\ UNCHANGED <<ring, watchdog, misdirected>>

\* mqtt_cyclic_timer in MQTT_CONNECTED: requests time out, a silent server
\* is given up, and after keep_alive without sending a ping is queued, if
\* there is room
TimerConnected ==
  /\ timer /\ conn = "MQTT_CONNECTED"
  /\ held + PingLen <= MaxHeld
  /\ watchdog' = watchdog + 1
  /\ IF watchdog' > KeepAlive + KeepAlive \div 2 THEN Close
     ELSE /\ queue' = TimeElapsed(queue)
          /\ UNCHANGED <<conn, asked, timer, old>>
  /\ IF tick + 1 >= KeepAlive /\ CheckSpace(PingLen)
     THEN tick' = 0 /\ put' = Advance(put, PingLen) /\ held' = held + PingLen
     ELSE tick' = Lesser(tick + 1, KeepAlive) /\ UNCHANGED <<put, held>>
  /\ UNCHANGED <<get, misdirected>>

Next ==
  \/ Connect \/ TcpConnected \/ Connack \/ Lost \/ Publish \/ Subscribe
  \/ Suback \/ Received \/ Sent \/ Poll \/ OldMovesOn
  \/ TimerConnecting \/ TimerConnected

Spec == Init /\ [][Next]_vars

-----------------------------------------------------------------------------
(* Properties.                                                             *)

\* The range of every variable; at most MQTT_REQ_MAX_IN_FLIGHT requests.
TypeOK ==
  /\ conn \in States
  /\ put \in 0 .. RingSize - 1 /\ get \in 0 .. RingSize - 1 /\ held \in Nat
  /\ Len(queue) <= MaxRequests
  /\ \A i \in DOMAIN queue : queue[i].id \in {PublishId, SubscribeId}
  /\ asked \in BOOLEAN /\ timer \in BOOLEAN /\ misdirected \in BOOLEAN
  /\ tick \in 0 .. ConnectTimeout + KeepAlive
  /\ watchdog \in 0 .. KeepAlive + KeepAlive \div 2 + 1
  /\ old \in {"none", "pending", "closing"}

\* A request that is not answered is given up after MQTT_REQ_TIMEOUT: behind
\* requests that are answered, or time out, in any order, the differences in
\* front of it always sum up to what is left of its own time, and it leaves
\* the queue one timer call after that at the latest.
RequestTime ==
  \A i \in DOMAIN queue :
    /\ queue[i].age <= ReqTimeout
    /\ TotalDiff(SubSeq(queue, 1, i)) = ReqTimeout - queue[i].age

\* mqtt.c:211 "Return number of bytes in ring buffer": the length computed
\* from the positions is the number of bytes put and not sent.  A ring filled
\* to its last byte breaks it; MqttRing.cfg shows it with the firmware's sizes.
RingLenCorrect == RingLen(put, get) = held

\* mqtt_ringbuf_len (mqtt.c:215) goes wrong only by the step that fills the
\* ring to its last byte and makes it look empty: not by the wrap of either
\* position, a partial write, a refused request, or a session that ends with
\* bytes in the ring, and mqtt_output_check_space lets no step overfill it.
LengthLostOnlyWhenFull ==
  [][RingLenCorrect /\ ~RingLenCorrect' => held' = RingSize]_vars

\* mqtt_output_send (mqtt.c:243) never sends bytes that were not put, or sends
\* them twice, also from a ring that was taken for empty and filled again.
SendsWhatWasPut == RingLen(put, get) <= held

\* tcp.c:469 "the connection is closed, and put in a closing state": what the
\* client of one session has to send never goes to the last one's connection,
\* which TCP goes on polling.  It does where that one's FIN found no memory;
\* MqttStalePoll.cfg shows it.
SessionsApart == ~misdirected

-----------------------------------------------------------------------------
(* The inductive invariants behind them.                                   *)

\* The requests are in the order they were made: one's difference is how much
\* older the one before it is, and the first one's what is left of its time.
RequestType == [id : {PublishId, SubscribeId}, diff : 0 .. ReqTimeout,
                age : 0 .. ReqTimeout]
Ages(q) ==
  \A i \in 1 .. Len(q) :
    q[i].diff = (IF i = 1 THEN ReqTimeout ELSE q[i - 1].age) - q[i].age
QueueInv ==
  /\ queue \in Seq(RequestType) /\ Len(queue) <= MaxRequests
  /\ Ages(queue)

\* The length computed from the positions is never too large: it is wrong by
\* as many times the ring's size as the ring was overwritten.
HeldInv ==
  \E laps \in 0 .. held : held = RingLen(put, get) + laps * RingSize

\* The two uses of cyclic_tick have limits of their own.
TimerInv ==
  /\ conn = "MQTT_CONNECTING" => tick < ConnectTimeout
  /\ conn = "MQTT_CONNECTED" => /\ tick <= KeepAlive
                                /\ watchdog <= KeepAlive + KeepAlive \div 2

IInv == TypeOK /\ QueueInv /\ HeldInv /\ TimerInv

\* The positions are in the ring, which is never overfilled.
RingInv ==
  /\ put \in 0 .. RingSize - 1 /\ get \in 0 .. RingSize - 1
  /\ held \in 0 .. RingSize - 1
  /\ RingLenCorrect
=============================================================================
