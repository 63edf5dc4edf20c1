------------------------------ MODULE Timeouts ------------------------------
(***************************************************************************)
(* Timers of the firmware.  The TIM2 interrupt advances lwIP's clock and   *)
(* the tick counters of Core/Src/main.c.  The main loop polls the counters *)
(* and then sys_check_timeouts (lwip-2.2.1/src/core/timeouts.c), which     *)
(* runs what is due from one list of timeouts taken from a fixed pool:     *)
(* lwIP's cyclic timers, the TCP timer while TCP has connections, and the  *)
(* MQTT client's cyclic timer.                                             *)
(***************************************************************************)
EXTENDS Integers, Sequences, FiniteSets, SequencesExt

CONSTANTS
  Cyclic,     \* lwip_cyclic_timers but the TCP timer
  Interval,   \* interval of every timer, in the clock's unit
  Pool,       \* MEMP_NUM_SYS_TIMEOUT
  Step,       \* what sys_now_increment adds
  Modulus,    \* the clock wraps here (2^32)
  MaxLag,     \* TIM2 periods one pass through the main loop may take
  Polled,     \* the counters main() polls, in its order
  Threshold,  \* what each is compared with
  Width       \* each wraps here (2^8 or 2^32)

Timers == Cyclic \cup {"tcp", "mqtt"}
Counters == Range(Polled)

ASSUME ClockAssumption ==
  /\ Step \in Nat \ {0} /\ MaxLag \in Nat \ {0}
  /\ Modulus \in Nat /\ Modulus % 2 = 0
  /\ Interval \in [Timers -> Nat \ {0}]
  /\ \A h \in Timers : Interval[h] + 2 * MaxLag * Step < Modulus \div 2
ASSUME CounterAssumption ==
  /\ Polled \in Seq(Counters)
  /\ Threshold \in [Counters -> Nat \ {0}] /\ Width \in [Counters -> Nat]
  /\ \A c \in Counters : Threshold[c] + 2 * MaxLag <= Width[c]

\* opt.h: "The number of sys timeouts used by the core stack (not apps)" counts
\* every timer of lwip_cyclic_timers, the TCP timer too
ASSUME PoolAssumption ==
  /\ IsFiniteSet(Cyclic) /\ Cyclic \cap {"tcp", "mqtt", "none"} = {}
  /\ Pool \in Nat /\ Pool > Cardinality(Cyclic)

VARIABLES
  now,        \* sys_now()
  lag,        \* ticks since the main loop last read the clock
  list,       \* next_timeout: handler, time and (ghost) real time left
  tcpActive,  \* tcpip_tcp_timer_active
  pcbs,       \* tcp_active_pcbs || tcp_tw_pcbs
  session,    \* the MQTT client is "closed", "connecting" or "open"
  pc,         \* main: "test", "reset", "expire", "handler" or "rest"
  idx,        \* the counter main is at
  checkNow,   \* now in sys_check_timeouts
  running,    \* the timeout whose handler runs
  cnt,        \* the tick counters
  enableDns,
  since       \* ghost: ticks since main ran, or first could, the counter's handler

mainVars == <<pc, idx, checkNow, running>>
counterVars == <<cnt, enableDns, since>>
tcpVars == <<tcpActive, pcbs, session>>
vars == <<now, lag, list, tcpVars, mainVars, counterVars>>

None == [h |-> "none", time |-> 0, left |-> 0]
SinceCap(c) == Threshold[c] + 3 * MaxLag

Lesser(a, b) == IF a < b THEN a ELSE b

-----------------------------------------------------------------------------
(* The list.                                                               *)

\* Mutant: a plain comparison
PlainLess(t, c) == t < c

\* TIME_LESS_THAN
TimeLess(t, c) == (t - c) % Modulus > (Modulus \div 2) - 1

\* Where sys_timeout_abs links a timeout: before the first later one
Place(l, time) ==
  LET later == {i \in 1 .. Len(l) : TimeLess(time, l[i].time)}
  IN  IF later = {} THEN Len(l) + 1
      ELSE CHOOSE i \in later : \A j \in later : i <= j

\* sys_timeout_abs; left is the time left until then.  With the pool empty
\* the assertion is compiled out and the timeout is lost.
TimeoutAbs(l, h, time, left) ==
  IF Len(l) >= Pool THEN l
  ELSE InsertAt(l, Place(l, time), [h |-> h, time |-> time, left |-> left])

\* Mutant: the sum is computed wider than the clock
SysTimeoutWide(l, h) == TimeoutAbs(l, h, now + Interval[h], Interval[h])

\* sys_timeout
SysTimeout(l, h) ==
  TimeoutAbs(l, h, (now + Interval[h]) % Modulus, Interval[h])

\* sys_untimeout: the first match is unlinked
SysUntimeout(l, h) ==
  LET at == {i \in 1 .. Len(l) : l[i].h = h}
  IN  IF at = {} THEN l
      ELSE RemoveAt(l, CHOOSE i \in at : \A j \in at : i <= j)

\* sys_timeouts_init starts the cyclic timers when the clock may already run;
\* those of one interval are in some order
InitList(h, at) == [h |-> h, time |-> (at + Interval[h]) % Modulus,
                    left |-> Interval[h]]

Ordered(l) == \A i, j \in DOMAIN l : i <= j => l[i].left <= l[j].left

Init ==
  /\ now \in {n \in 0 .. Modulus - 1 : n % Step = 0}
  /\ lag = 0
  /\ list \in {l \in SetToSeqs({InitList(h, now) : h \in Cyclic}) : Ordered(l)}
  /\ tcpActive = FALSE /\ pcbs = FALSE /\ session = "closed"
  /\ pc = "test" /\ idx = 1 /\ checkNow = 0 /\ running = None
  /\ cnt = [c \in Counters |-> 0] /\ enableDns = FALSE
  /\ since = [c \in Counters |-> 0]

-----------------------------------------------------------------------------
(* The interrupt.                                                          *)

\* HAL_TIM_PeriodElapsedCallback
Tick ==
  /\ lag < MaxLag
  /\ lag' = lag + 1
  /\ now' = (now + Step) % Modulus
  /\ list' = [i \in DOMAIN list |-> [list[i] EXCEPT !.left = @ - Step]]
  /\ running' = IF running = None THEN None
                ELSE [running EXCEPT !.left = @ - Step]
  /\ cnt' = [c \in Counters |-> (cnt[c] + 1) % Width[c]]
  /\ since' = [c \in Counters |-> IF c = "dns" /\ ~enableDns THEN 0
                                  ELSE Lesser(since[c] + 1, SinceCap(c))]
  /\ UNCHANGED <<tcpVars, pc, idx, checkNow, enableDns>>

-----------------------------------------------------------------------------
(* The main loop's own counters.                                           *)

\* Mutant: equal instead of reached
DueEqual(c) == cnt[c] = Threshold[c] /\ (c = "dns" => enableDns)

Due(c) == cnt[c] >= Threshold[c] /\ (c = "dns" => enableDns)

\* a counter is read
Test ==
  /\ pc = "test" /\ idx <= Len(Polled)
  /\ IF Due(Polled[idx]) THEN pc' = "reset" /\ UNCHANGED idx
                         ELSE idx' = idx + 1 /\ UNCHANGED pc
  /\ UNCHANGED <<now, lag, list, tcpVars, checkNow, running, counterVars>>

\* ... and, after ticks that are lost, set to 0; its handler runs
Reset ==
  /\ pc = "reset"
  /\ LET c == Polled[idx]
     IN  /\ cnt' = [cnt EXCEPT ![c] = 0]
         /\ since' = [since EXCEPT ![c] = 0]
  /\ idx' = idx + 1
  /\ pc' = "test"
  /\ UNCHANGED <<now, lag, list, tcpVars, checkNow, running, enableDns>>

-----------------------------------------------------------------------------
(* sys_check_timeouts.                                                     *)

CheckStart ==
  /\ pc = "test" /\ idx > Len(Polled)
  /\ checkNow' = now
  /\ lag' = 0
  /\ pc' = "expire"
  /\ UNCHANGED <<now, list, tcpVars, idx, running, counterVars>>

Expire ==
  /\ pc = "expire" /\ list # <<>>
  /\ ~TimeLess(checkNow, Head(list).time)
  /\ running' = Head(list)
  /\ list' = Tail(list)
  /\ pc' = "handler"
  /\ UNCHANGED <<now, lag, tcpVars, idx, checkNow, counterVars>>

CheckEnd ==
  /\ pc = "expire"
  /\ list # <<>> => TimeLess(checkNow, Head(list).time)
  /\ pc' = "rest"
  /\ UNCHANGED <<now, lag, list, tcpVars, idx, checkNow, running, counterVars>>

Done == running' = None /\ pc' = "expire"

\* lwip_cyclic_timer's next time: regular, unless it is over already
CyclicNext(interval) ==
  LET regular == (running.time + interval) % Modulus
  IN  IF TimeLess(regular, now)
      THEN [time |-> (now + interval) % Modulus, left |-> interval]
      ELSE [time |-> regular, left |-> running.left + interval]

\* Mutant: a timer that is late is not restarted
CyclicTimerDropsLate ==
  /\ pc = "handler" /\ running.h \in Cyclic
  /\ LET next == CyclicNext(Interval[running.h])
     IN  list' = IF running.left < 0 THEN list
                 ELSE TimeoutAbs(list, running.h, next.time, next.left)
  /\ Done
  /\ UNCHANGED <<now, lag, tcpVars, idx, checkNow, counterVars>>

\* lwip_cyclic_timer
CyclicTimer ==
  /\ pc = "handler" /\ running.h \in Cyclic
  /\ LET next == CyclicNext(Interval[running.h])
     IN  list' = TimeoutAbs(list, running.h, next.time, next.left)
  /\ Done
  /\ UNCHANGED <<now, lag, tcpVars, idx, checkNow, counterVars>>

\* the timer goes on while there are connections
TcpRestart(l) ==
  IF pcbs'
  THEN list' = SysTimeout(l, "tcp") /\ UNCHANGED tcpActive
  ELSE list' = l /\ tcpActive' = FALSE

\* tcpip_tcp_timer.  tcp_tmr may drop the MQTT client's connection, whose
\* error callback is mqtt_close, and free the last pcb.
TcpTimer ==
  /\ pc = "handler" /\ running.h = "tcp"
  /\ \/ UNCHANGED session /\ pcbs' \in {pcbs, session # "closed"}
        /\ TcpRestart(list)
     \/ session # "closed" /\ session' = "closed" /\ pcbs' \in BOOLEAN
        /\ TcpRestart(SysUntimeout(list, "mqtt"))
  /\ Done
  /\ UNCHANGED <<now, lag, idx, checkNow, counterVars>>

\* mqtt_cyclic_timer goes on, or closes the connection
MqttTimer ==
  /\ pc = "handler" /\ running.h = "mqtt"
  /\ \/ /\ session = "open"
        /\ list' = SysTimeout(list, "mqtt")
        /\ UNCHANGED <<session, pcbs>>
     \/ /\ session' = "closed"
        /\ pcbs' \in {pcbs, FALSE}
        /\ list' = SysUntimeout(list, "mqtt")
  /\ Done
  /\ UNCHANGED <<now, lag, tcpActive, idx, checkNow, counterVars>>

-----------------------------------------------------------------------------
(* The rest of the loop: the connection state machine and input.           *)

Resting == pc = "rest"
RestUnchanged == UNCHANGED <<now, lag, mainVars, cnt, since>>

\* What TCP_REG of a new pcb does to the list: tcp_timer_needed
NeededList(l) == SysTimeout(l, "tcp")

\* mqtt_client_connect, tcp_connect and tcp_timer_needed
MqttConnect ==
  /\ Resting /\ session = "closed"
  /\ session' = "connecting" /\ pcbs' = TRUE
  /\ tcpActive' = TRUE
  /\ list' = IF tcpActive THEN list ELSE NeededList(list)
  /\ UNCHANGED enableDns /\ RestUnchanged

\* mqtt_tcp_connect_cb
MqttConnected ==
  /\ Resting /\ session = "connecting"
  /\ session' = "open"
  /\ list' = SysTimeout(list, "mqtt")
  /\ UNCHANGED <<tcpActive, pcbs, enableDns>> /\ RestUnchanged

\* Mutant: mqtt_close leaves the timer
CloseListKeeps(l) == l

CloseList(l) == SysUntimeout(l, "mqtt")

\* mqtt_close; the pcb is freed or still closing
MqttClose ==
  /\ Resting /\ session # "closed"
  /\ session' = "closed" /\ pcbs' \in BOOLEAN
  /\ list' = CloseList(list)
  /\ UNCHANGED <<tcpActive, enableDns>> /\ RestUnchanged

\* input ends the last closing connection
PcbFreed ==
  /\ Resting /\ session = "closed" /\ pcbs
  /\ pcbs' = FALSE
  /\ UNCHANGED <<list, tcpActive, session, enableDns>> /\ RestUnchanged

\* the address is there
EnableDns ==
  /\ Resting /\ ~enableDns /\ "dns" \in Counters
  /\ enableDns' = TRUE
  /\ UNCHANGED <<list, tcpVars>> /\ RestUnchanged

Again ==
  /\ Resting
  /\ pc' = "test" /\ idx' = 1
  /\ UNCHANGED <<now, lag, list, tcpVars, checkNow, running, counterVars>>

Loop == Test \/ Reset \/ CheckStart \/ Expire \/ CheckEnd \/ CyclicTimer
        \/ TcpTimer \/ MqttTimer \/ Again
Events == MqttConnect \/ MqttConnected \/ MqttClose \/ PcbFreed \/ EnableDns

Next == Tick \/ Loop \/ Events

Spec == Init /\ [][Next]_vars

\* main() goes round its loop and TIM2 runs; the network owes nothing
FairSpec == Spec /\ WF_vars(Loop) /\ WF_vars(Tick)

-----------------------------------------------------------------------------
(* Properties.                                                             *)

Timeout == [h : Timers, time : 0 .. Modulus - 1,
            left : -(Modulus \div 2) .. (Modulus \div 2)]
InList(h) == {i \in DOMAIN list : list[i].h = h}

\* The range of every variable; the pool is never exceeded.
TypeOK ==
  /\ now \in 0 .. Modulus - 1 /\ checkNow \in 0 .. Modulus - 1
  /\ lag \in 0 .. MaxLag
  /\ list \in Seq(Timeout) /\ Len(list) <= Pool
  /\ tcpActive \in BOOLEAN /\ pcbs \in BOOLEAN /\ enableDns \in BOOLEAN
  /\ session \in {"closed", "connecting", "open"}
  /\ pc \in {"test", "reset", "expire", "handler", "rest"}
  /\ idx \in 1 .. Len(Polled) + 1
  /\ running \in Timeout \cup {None}
  /\ cnt \in [Counters -> Nat] /\ \A c \in Counters : cnt[c] < Width[c]
  /\ since \in [Counters -> Nat]

\* No timer is lost and none is started twice, for every order of connecting,
\* closing and expiring.  A cyclic timer of the stack is in the list once, or
\* its handler runs.  The TCP timer is there exactly while
\* tcpip_tcp_timer_active says so, and that is whenever TCP has a connection
\* outside the timer's own handler.  The MQTT client asks for a timeout from
\* the same pool, but never for the entry a core timer returns, has at most
\* one, and only in its session.
TimersKept ==
  LET times(h) == Cardinality(InList(h)) + (IF running.h = h THEN 1 ELSE 0)
  IN  /\ \A h \in Cyclic : times(h) = 1
      /\ times("tcp") = IF tcpActive THEN 1 ELSE 0
      /\ pcbs => tcpActive
      /\ times("mqtt") <= IF session = "open" THEN 1 ELSE 0

\* No timeout expires before its time, and none is more than two passes of
\* the main loop late, whatever the value of the wrapping clock.
ExpiresOnTime ==
  /\ pc = "handler" => running.left <= 0
  /\ \A i \in DOMAIN list : list[i].left > -2 * MaxLag * Step

\* Although ticks between the test and the reset of a counter are lost, and
\* a counter nobody polled yet wraps at any moment, main runs each handler
\* less than three passes of its loop late.
PolledOnTime == \A c \in Counters : since[c] < Threshold[c] + 3 * MaxLag

\* Every cyclic timer of the stack keeps running.
CyclicKeepsRunning == \A h \in Cyclic : []<>(running.h = h)

\* doc/mqtt_client.txt:11 "You need to increase MEMP_NUM_SYS_TIMEOUT by one if
\* you use MQTT!": then the client's cyclic timer is there throughout its
\* session.
MqttTimerRuns ==
  session = "open" => InList("mqtt") # {} \/ running.h = "mqtt"

-----------------------------------------------------------------------------
(* The inductive invariant behind them.                                    *)

\* A timer is in the list or its handler runs
Started(h) == running.h = h \/ \E i \in DOMAIN list : list[i].h = h

\* Nothing is started twice, and what runs has left a place for its restart.
StartedInv ==
  /\ \A i, j \in DOMAIN list : list[i].h = list[j].h => i = j
  /\ \A i \in DOMAIN list : list[i].h # running.h
  /\ \A h \in Cyclic : Started(h)
  /\ Started("tcp") <=> tcpActive
  /\ (session # "closed" => pcbs) /\ (pcbs => tcpActive)
  /\ Started("mqtt") => session = "open"
  /\ running # None <=> pc = "handler"
  /\ pc = "handler" => Len(list) < Pool

\* The ticks a timeout may be late: those since the main loop read the clock,
\* and, until sys_check_timeouts is through, those of the pass before.
Late == IF pc \in {"expire", "handler"} THEN MaxLag + lag ELSE lag

\* A timeout's time, when the clock is at n and it may be that many ticks late
OnClock(t, n, late) ==
  /\ t.time = (n + t.left) % Modulus
  /\ t.left <= Interval[t.h]
  /\ t.left > -(late * Step)

\* The times in the list are those of the wrapping clock, in the order of the
\* real times, so that the head is the first that is due.
ClockInv ==
  /\ \A i \in DOMAIN list : OnClock(list[i], now, Late)
  /\ Ordered(list)
  /\ running # None => OnClock(running, now, Late) /\ running.left <= 0
  /\ pc \in {"expire", "handler"} => checkNow = (now - lag * Step) % Modulus

\* A counter main has tested since it last read the clock
Tested(c) == pc \in {"test", "reset"} /\ \E i \in 1 .. idx - 1 : Polled[i] = c

\* A counter is behind the real time by no more than the ticks of the pass in
\* which it was enabled, and does not wrap before main finds it due.  One that
\* is enabled may hold any value until main tests it.
PollInv ==
  /\ pc = "reset" => idx <= Len(Polled)
  /\ \A c \in Counters :
       /\ c = "dns" /\ ~enableDns => since[c] = 0
       /\ (c = "dns" => enableDns) =>
            \/ since[c] <= lag /\ ~Tested(c) /\ pc \in {"test", "reset", "rest"}
            \/ /\ since[c] <= cnt[c] + MaxLag
               /\ cnt[c] < Threshold[c] + lag + (IF Tested(c) THEN 0 ELSE MaxLag)

IInv == TypeOK /\ StartedInv /\ ClockInv /\ PollInv
=============================================================================
