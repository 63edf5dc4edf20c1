-------------------------------- MODULE Dhcp --------------------------------
(***************************************************************************)
(* lwIP's DHCP client (lwip-2.2.1/src/core/ipv4/dhcp.c) on the firmware's  *)
(* interface, whose link is always up: the states INIT and REBOOTING are   *)
(* not reached.  Every message may be lost, late or repeated, and memory   *)
(* for a message may be short.  A server's reply is known by the request   *)
(* it answers, of this transaction or the last one.                        *)
(*                                                                         *)
(* Lease times are counted in calls of dhcp_coarse_tmr.  Its comment asks  *)
(* for a call every DHCP_COARSE_TIMER_SECS, but the firmware makes two:    *)
(* main.c:218 and lwIP's own timer (timeouts.c:91) both call it.  How long *)
(* the fine timer runs is left open.                                       *)
(***************************************************************************)
EXTENDS Naturals

CONSTANTS
  Word,        \* 2^32: offered times are u32_t
  CoarseSecs,  \* DHCP_COARSE_TIMER_SECS
  CallsPerPeriod, \* calls of dhcp_coarse_tmr in that time (2)
  MaxTicks,    \* the largest dhcp_timeout_t
  MaxTries,    \* tries are told apart up to here (6)
  Acks,        \* the times an ACK may give: t0 (lease), t1 and t2
  MemFails     \* memory for a message may be short

Infinite == Word - 1   \* an offered time that never ends
NotGiven == Word       \* the option is not in the message

ASSUME TimesAssumption ==
  /\ Word \in Nat \ {0} /\ CoarseSecs \in Nat \ {0} /\ MaxTicks \in Nat \ {0}
  /\ CallsPerPeriod \in Nat \ {0}
  /\ MaxTries \in Nat /\ MaxTries > 5
  /\ Acks \subseteq [t0 : 0 .. Infinite, t1 : 0 .. NotGiven, t2 : 0 .. NotGiven]
  /\ MemFails \in BOOLEAN

VARIABLES
  state,      \* dhcp->state
  tries,      \* dhcp->tries, counted up to MaxTries
  armed,      \* dhcp->request_timeout is not zero
  xid,        \* dhcp->xid is that of "this" transaction, the "last", or "zero"
  t0,         \* dhcp->t0_timeout
  t1, t2,     \* dhcp->t1_renew_time, dhcp->t2_rebind_time
  t2full,     \* dhcp->t2_timeout
  used,       \* dhcp->lease_used
  addr,       \* the interface has an address
  sent,       \* messages sent in this transaction, which may be answered
  stale,      \* the last transaction's, if the identifier was not changed
  last,       \* ghost: the last ACK that was accepted
  since,      \* ghost: calls of dhcp_coarse_tmr since then
  crossed     \* ghost: a reply to the last transaction was accepted

request == <<state, tries, armed>>
lease == <<t0, t1, t2, t2full, used>>
exchange == <<xid, sent, stale>>
ghost == <<last, since, crossed>>
vars == <<request, lease, addr, exchange, ghost>>

States == {"SELECTING", "REQUESTING", "BOUND", "RENEWING", "REBINDING"}

\* dhcp_supplied_address
Supplied == state \in {"BOUND", "RENEWING", "REBINDING"}

Mem == IF MemFails THEN BOOLEAN ELSE {TRUE}

Lesser(a, b) == IF a < b THEN a ELSE b

-----------------------------------------------------------------------------
(* Times.                                                                  *)

\* SET_TIMEOUT_FROM_OFFERED
Ticks(offered) ==
  LET t == ((offered + CoarseSecs \div 2) % Word) \div CoarseSecs
  IN  IF t = 0 THEN 1 ELSE Lesser(t, MaxTicks)

\* dhcp_handle_ack
OfferedT1(ack) == IF ack.t1 = NotGiven THEN ack.t0 \div 2 ELSE ack.t1
OfferedT2(ack) == IF ack.t2 = NotGiven THEN ((ack.t0 * 7) % Word) \div 8
                  ELSE ack.t2

\* the next renewal or rebinding, halfway to the limit; none if that is less
\* than DHCP_NEXT_TIMEOUT_THRESHOLD, which is one tick
Halfway(limit, u) == IF limit > u THEN (limit - u) \div 2 ELSE 0

-----------------------------------------------------------------------------
(* Messages the client sends.                                              *)

\* dhcp_set_state, and the try that is counted after sending
Tried(new) == IF state = new THEN Lesser(tries + 1, MaxTries) ELSE 1

\* dhcp_select, dhcp_renew and dhcp_rebind
Request(new, mem) ==
  /\ state' = new /\ tries' = Tried(new) /\ armed' = TRUE
  /\ sent' = IF mem THEN sent \cup {"REQUEST"} ELSE sent
  /\ UNCHANGED <<xid, stale>>

\* dhcp_create_msg for the first DISCOVER: a new identifier.  Without memory
\* it is not reached, and not later either, as a try has been counted.
NewTransaction(mem, old) ==
  IF mem THEN xid' = "this" /\ stale' = {} /\ sent' = {"DISCOVER"}
         ELSE xid' = old /\ stale' = stale \cup sent /\ sent' = {}

\* dhcp_discover from another state
Discover(mem, old) ==
  /\ state' = "SELECTING" /\ tries' = 1 /\ armed' = TRUE
  /\ NewTransaction(mem, old)

\* dhcp_discover once more
DiscoverAgain(mem) ==
  /\ tries' = Tried("SELECTING") /\ armed' = TRUE
  /\ IF mem THEN /\ xid' = IF xid = "this" THEN "this" ELSE "last"
                 /\ sent' = sent \cup {"DISCOVER"}
            ELSE UNCHANGED <<xid, sent>>
  /\ UNCHANGED <<state, stale>>

\* dhcp_release_and_stop and dhcp_start, which clears everything; the UDP
\* pcb just given back is there to be taken
Restart(mem) ==
  /\ addr' = IF Supplied THEN FALSE ELSE addr
  /\ t0' = 0 /\ t1' = 0 /\ t2' = 0 /\ t2full' = 0 /\ used' = 0
  /\ Discover(mem, "zero")

-----------------------------------------------------------------------------
(* The first dhcp_start, from main().                                      *)
Init ==
  /\ state = "SELECTING" /\ tries = 1 /\ armed = TRUE
  /\ \E mem \in Mem : IF mem THEN xid = "this" /\ sent = {"DISCOVER"}
                             ELSE xid = "zero" /\ sent = {}
  /\ stale = {}
  /\ t0 = 0 /\ t1 = 0 /\ t2 = 0 /\ t2full = 0 /\ used = 0
  /\ addr = FALSE
  /\ last \in Acks /\ since = 0 /\ crossed = FALSE

-----------------------------------------------------------------------------
(* Timers.                                                                 *)

\* dhcp_fine_tmr when it expires, dhcp_timeout
FineTmr ==
  /\ armed
  /\ \E mem \in Mem :
       \/ /\ state = "SELECTING"
          /\ DiscoverAgain(mem)
          /\ UNCHANGED <<lease, addr>>
       \/ /\ state = "REQUESTING" /\ tries <= 5
          /\ Request("REQUESTING", mem)
          /\ UNCHANGED <<lease, addr>>
       \/ /\ state = "REQUESTING" /\ tries > 5
          /\ Restart(mem)
       \/ /\ state \in {"RENEWING", "REBINDING"}
          /\ armed' = FALSE
          /\ UNCHANGED <<state, tries, lease, addr, exchange>>
  /\ UNCHANGED ghost

\* dhcp_t2_timeout
T2Timeout(u, mem) ==
  /\ IF state \in {"REQUESTING", "BOUND", "RENEWING", "REBINDING"}
     THEN Request("REBINDING", mem) /\ t2' = Halfway(t0, u)
     ELSE UNCHANGED <<request, exchange>> /\ t2' = 0
  /\ UNCHANGED t1

\* dhcp_t1_timeout
T1Timeout(u, mem) ==
  IF state \in {"REQUESTING", "BOUND", "RENEWING"}
  THEN Request("RENEWING", mem) /\ t1' = Halfway(t2full, u)
  ELSE UNCHANGED <<request, exchange>> /\ t1' = 0

\* dhcp_coarse_tmr after the lease's own timer: rebinding goes before renewal
T2OrT1(u, mem) ==
  IF t2 = 1 THEN T2Timeout(u, mem)
  ELSE /\ t2' = IF t2 = 0 THEN 0 ELSE t2 - 1
       /\ IF t1 = 1 THEN T1Timeout(u, mem)
          ELSE /\ t1' = IF t1 = 0 THEN 0 ELSE t1 - 1
               /\ UNCHANGED <<request, exchange>>

Elapse ==
  /\ since' = Lesser(since + 1, MaxTicks + 1)
  /\ UNCHANGED <<last, crossed>>

\* Mutant: a tick that renews or rebinds is not counted
CoarseTmrOneThing ==
  /\ \E mem \in Mem :
       IF t2 # 1 /\ t1 # 1 /\ t0 # 0 /\ used + 1 = t0 THEN Restart(mem)
       ELSE /\ used' = IF t0 = 0 \/ t2 = 1 \/ t1 = 1 THEN used ELSE used + 1
            /\ T2OrT1(used', mem)
            /\ UNCHANGED <<t0, t2full, addr>>
  /\ Elapse

\* one call of dhcp_coarse_tmr
CoarseTmr ==
  /\ \E mem \in Mem :
       IF t0 # 0 /\ used + 1 = t0 THEN Restart(mem)
       ELSE /\ used' = IF t0 = 0 THEN used ELSE used + 1
            /\ T2OrT1(used', mem)
            /\ UNCHANGED <<t0, t2full, addr>>
  /\ Elapse

-----------------------------------------------------------------------------
(* dhcp_recv.                                                              *)

\* A reply to req is there whose identifier matches
Reply(req) ==
  \E old \in BOOLEAN :
    /\ IF old THEN req \in stale /\ xid = "last" ELSE req \in sent
    /\ crossed' = (crossed \/ old)

\* dhcp_handle_offer
Offer ==
  /\ state = "SELECTING" /\ Reply("DISCOVER")
  /\ \E mem \in Mem : Request("REQUESTING", mem)
  /\ UNCHANGED <<lease, addr, last, since>>

\* Mutant: lease_used goes on from the last lease
BindKeepsUsed(ack) ==
  /\ t0' = IF ack.t0 = Infinite THEN t0 ELSE Ticks(ack.t0)
  /\ t1' = IF OfferedT1(ack) = Infinite THEN t1 ELSE Ticks(OfferedT1(ack))
  /\ t2full' = IF OfferedT2(ack) = Infinite THEN t2full
               ELSE Ticks(OfferedT2(ack))
  /\ t2' = IF OfferedT2(ack) = Infinite THEN t2 ELSE t2full'
  /\ state' = "BOUND" /\ tries' = 0 /\ armed' = FALSE
  /\ addr' = TRUE
  /\ UNCHANGED used

\* dhcp_bind: a time without end leaves its timer as it was
Bind(ack) ==
  /\ used' = 0
  /\ t0' = IF ack.t0 = Infinite THEN t0 ELSE Ticks(ack.t0)
  /\ t1' = IF OfferedT1(ack) = Infinite THEN t1 ELSE Ticks(OfferedT1(ack))
  /\ t2full' = IF OfferedT2(ack) = Infinite THEN t2full
               ELSE Ticks(OfferedT2(ack))
  /\ t2' = IF OfferedT2(ack) = Infinite THEN t2 ELSE t2full'
  /\ state' = "BOUND" /\ tries' = 0 /\ armed' = FALSE
  /\ addr' = TRUE

\* dhcp_handle_ack and dhcp_bind
Ack ==
  /\ state \in {"REQUESTING", "RENEWING", "REBINDING"} /\ Reply("REQUEST")
  /\ \E ack \in Acks :
       /\ Bind(ack)
       /\ last' = ack /\ since' = 0
  /\ UNCHANGED exchange

\* Mutant: the client backs off and its timer is not started
NakBacksOff ==
  /\ state \in {"REQUESTING", "RENEWING", "REBINDING"} /\ Reply("REQUEST")
  /\ state' = "BACKING_OFF" /\ tries' = 0 /\ armed' = FALSE
  /\ addr' = FALSE
  /\ UNCHANGED <<lease, exchange, last, since>>

\* dhcp_handle_nak: discovery starts at once; the lease's timers go on
Nak ==
  /\ state \in {"REQUESTING", "RENEWING", "REBINDING"} /\ Reply("REQUEST")
  /\ addr' = FALSE
  /\ \E mem \in Mem : Discover(mem, IF xid = "zero" THEN "zero" ELSE "last")
  /\ UNCHANGED <<lease, last, since>>

Next == FineTmr \/ CoarseTmr \/ Offer \/ Ack \/ Nak

Spec == Init /\ [][Next]_vars

\* main() and lwIP's timers call both; nothing is promised of servers
FairSpec == Spec /\ WF_vars(FineTmr) /\ WF_vars(CoarseTmr)

-----------------------------------------------------------------------------
(* Properties.                                                             *)

\* The range of every variable; the time used never passes the lease time it
\* is compared with for equality.
TypeOK ==
  /\ state \in States /\ tries \in 0 .. MaxTries
  /\ armed \in BOOLEAN /\ addr \in BOOLEAN /\ crossed \in BOOLEAN
  /\ xid \in {"this", "last", "zero"}
  /\ {t0, t1, t2, t2full, used, since} \subseteq 0 .. MaxTicks + 1
  /\ used <= t0
  /\ sent \subseteq {"DISCOVER", "REQUEST"}
  /\ stale \subseteq {"DISCOVER", "REQUEST"}
  /\ last \in Acks

\* The interface has an address only in the states in which the application
\* is told so, and after a call of the coarse timer only if the lease of the
\* last accepted ACK has half a period to run, counting a period for every
\* call: through renewals with other lease times, refusals and lost messages,
\* the rounding to periods, the overflow of that in 32 bits and the cut to 16.
\* More calls than one a period leave more of the lease.
LeaseRespected ==
  addr => /\ Supplied
          /\ (last.t0 # Infinite /\ since > 0) =>
               since * CoarseSecs + CoarseSecs \div 2 <= last.t0

\* dhcp.c:522 "this clients' lease time has expired": the timer takes the
\* address away only when the lease of the last accepted ACK is over, but for
\* a period of rounding at either end.  It does not hold: with two calls in a
\* period half of the lease is used (DhcpEarly.cfg), and an ACK without end
\* leaves the timer of the lease before it running (DhcpEndless.cfg).
LeaseUsedFully ==
  [][(addr /\ ~addr' /\ since' # since)
       => /\ last.t0 # Infinite
          /\ (since + 2) * CoarseSecs >= CallsPerPeriod * last.t0]_vars

\* dhcp.c:1919 "reuse transaction identifier in retransmissions", and only
\* there: no reply to an earlier transaction is taken for one to this.
OwnTransaction == ~crossed

\* dhcp.c:318 "We clear any existing set IP address and restart DHCP
\* negotiation afresh": without an address the client comes back to discovery,
\* whatever state a refusal or silence left it in, where every lease ends.
\* With a lease that does not it may stay in REBINDING; see DhcpStuck.cfg.
KeepsTrying == ~addr ~> (state = "SELECTING" \/ addr)

\* dhcp.c:1985 "1 if DHCP supplied netif->ip_addr": what the application asks
\* before it uses the network.
SuppliedAddress == Supplied => addr

\* dhcp.c:703 "calculate safe periods for rebinding (offered_t0_lease * 0.875
\* -> 87.5%)".
SafePeriods ==
  (state = "BOUND" /\ last.t2 = NotGiven /\ last.t0 # Infinite)
    => t2full = Ticks((last.t0 * 7) \div 8)

-----------------------------------------------------------------------------
(* The inductive invariant behind them.                                    *)

\* The lease's timer counts up to the lease time and no further; while there
\* is an address it counts for the last accepted ACK, unless that gave a time
\* without end and left the timer as it was.
LeaseInv ==
  /\ t0 <= MaxTicks /\ t1 <= MaxTicks /\ t2 <= MaxTicks /\ t2full <= MaxTicks
  /\ used < t0 \/ (used = 0 /\ t0 = 0)
  /\ addr => Supplied
  /\ addr /\ last.t0 # Infinite => t0 = Ticks(last.t0) /\ used = since

IInv == TypeOK /\ LeaseInv
=============================================================================
