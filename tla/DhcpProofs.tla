----------------------------- MODULE DhcpProofs -----------------------------
(***************************************************************************)
(* Proofs about Dhcp, for every set of ACKs servers may send, every width  *)
(* of the offered times and of the timers.  That an address is used only   *)
(* while its lease runs needs LeaseInv: the timer of the lease counts what *)
(* has passed since the last ACK, and is caught by the test for equality   *)
(* before it could run past the lease time.                                *)
(***************************************************************************)
EXTENDS Dhcp, Integers, TLAPS

-----------------------------------------------------------------------------
(* Times.                                                                  *)

\* Whole multiples of the coarse timer's period.
LEMMA DivType ==
  ASSUME NEW x \in Nat, NEW c \in Nat \ {0} PROVE x \div c \in Nat
  OBVIOUS

\* A timer that is started runs for at least one tick and at most MaxTicks.
LEMMA TicksType == ASSUME NEW offered \in Nat PROVE Ticks(offered) \in 1 .. MaxTicks
<1> DEFINE x == (offered + CoarseSecs \div 2) % Word
           t == x \div CoarseSecs
<1>1. CoarseSecs \div 2 \in Nat
  BY TimesAssumption
<1>2. x \in Nat
  <2>1. offered + CoarseSecs \div 2 \in Nat
    BY <1>1
  <2> HIDE DEF x
  <2>2. \A n \in Nat : n % Word \in Nat
    BY TimesAssumption
  <2> QED
    BY <2>1, <2>2 DEF x
<1>3. t \in Nat
  <2> HIDE DEF x
  <2> QED
    BY <1>2, DivType, TimesAssumption
<1>4. Ticks(offered) = IF t = 0 THEN 1 ELSE Lesser(t, MaxTicks)
  BY DEF Ticks
<1> HIDE DEF t
<1> QED
  BY <1>3, <1>4, TimesAssumption DEF Lesser

\* Whole periods are not more than the time they are taken from.
LEMMA DivBelow ==
  ASSUME NEW x \in Nat, NEW c \in Nat \ {0} PROVE (x \div c) * c <= x
  OBVIOUS

\* Multiplication by a period keeps the order.
LEMMA TimesOrdered ==
  ASSUME NEW a \in Nat, NEW b \in Nat, NEW c \in Nat, a <= b PROVE a * c <= b * c
  OBVIOUS

\* A number cut to a word is not more than the number.
LEMMA ModBelow ==
  ASSUME NEW n \in Nat, NEW w \in Nat \ {0} PROVE n % w \in Nat /\ n % w <= n
  OBVIOUS

\* A timer of more than one period runs at most half a period longer than
\* what was offered: what overflows or is cut only makes it shorter.
LEMMA TicksShort ==
  ASSUME NEW offered \in Nat, Ticks(offered) > 1
  PROVE  Ticks(offered) * CoarseSecs <= offered + CoarseSecs \div 2
<1> DEFINE n == offered + CoarseSecs \div 2
           x == n % Word
           t == x \div CoarseSecs
<1>1. n \in Nat
  BY TimesAssumption
<1>2. Ticks(offered) = IF t = 0 THEN 1 ELSE Lesser(t, MaxTicks)
  BY DEF Ticks
<1> HIDE DEF n
<1>3. x \in Nat /\ x <= n
  BY <1>1, ModBelow, TimesAssumption
<1> HIDE DEF x
<1>4. t \in Nat /\ t * CoarseSecs <= x
  BY <1>3, DivType, DivBelow, TimesAssumption
<1> HIDE DEF t
<1>5. Ticks(offered) \in Nat /\ Ticks(offered) <= t
  BY <1>2, <1>4, TimesAssumption DEF Lesser
<1>6. Ticks(offered) * CoarseSecs <= t * CoarseSecs
  BY <1>4, <1>5, TimesOrdered, TimesAssumption
<1>7. Ticks(offered) * CoarseSecs \in Nat /\ t * CoarseSecs \in Nat
  BY <1>4, <1>5, TimesAssumption
<1>8. Ticks(offered) * CoarseSecs <= n
  BY <1>1, <1>3, <1>4, <1>6, <1>7
<1> QED
  BY <1>8 DEF n

\* One period more, less the half of one that rounding may add.
LEMMA HalfPeriod ==
  ASSUME NEW s \in Nat, NEW m \in Nat, NEW l \in Nat,
         (s + 1) * CoarseSecs <= m * CoarseSecs,
         m * CoarseSecs <= l + CoarseSecs \div 2
  PROVE  s * CoarseSecs + CoarseSecs \div 2 <= l
<1> DEFINE sc == s * CoarseSecs
           mc == m * CoarseSecs
           h  == CoarseSecs \div 2
<1>1. CoarseSecs \in Nat /\ sc \in Nat /\ mc \in Nat
  BY TimesAssumption
<1>2. (s + 1) * CoarseSecs = sc + CoarseSecs
  BY TimesAssumption
<1>3. h \in Nat /\ h + h <= CoarseSecs
  BY TimesAssumption
<1> HIDE DEF sc, mc, h
<1>4. sc + CoarseSecs <= mc /\ mc <= l + h
  BY <1>2 DEF mc, h
<1>5. sc + h <= l
  BY <1>1, <1>3, <1>4
<1> QED
  BY <1>5 DEF sc, h

\* The times an ACK gives, or leaves to the client, are natural numbers.
LEMMA OfferedType ==
  ASSUME NEW ack \in Acks
  PROVE  ack.t0 \in Nat /\ OfferedT1(ack) \in Nat /\ OfferedT2(ack) \in Nat
<1>1. ack \in [t0 : 0 .. Infinite, t1 : 0 .. NotGiven, t2 : 0 .. NotGiven]
  BY TimesAssumption
<1>2. ack.t0 \in Nat /\ ack.t1 \in Nat /\ ack.t2 \in Nat
  BY <1>1, TimesAssumption DEF Infinite, NotGiven
<1>3. OfferedT1(ack) \in Nat
  BY <1>2 DEF OfferedT1
<1>4. OfferedT2(ack) \in Nat
  <2>1. ack.t0 * 7 \in Nat
    BY <1>2
  <2>2. \A n \in Nat : n % Word \in Nat
    BY TimesAssumption
  <2>3. (ack.t0 * 7) % Word \in Nat
    BY <2>1, <2>2
  <2>4. ((ack.t0 * 7) % Word) \div 8 \in Nat
    BY <2>3, DivType
  <2> QED
    BY <1>2, <2>4 DEF OfferedT2
<1> QED
  BY <1>2, <1>3, <1>4

\* The next renewal or rebinding is not later than its limit.
LEMMA HalfwayType ==
  ASSUME NEW limit \in Nat, NEW u \in Nat
  PROVE  Halfway(limit, u) \in Nat /\ Halfway(limit, u) <= limit
  BY DEF Halfway

-----------------------------------------------------------------------------
(* The parts of a step.                                                    *)

\* The variables of the exchange with the servers have their types.
ExchangeOK ==
  /\ state \in States /\ tries \in 0 .. MaxTries /\ armed \in BOOLEAN
  /\ xid \in {"this", "last", "zero"}
  /\ sent \subseteq {"DISCOVER", "REQUEST"}
  /\ stale \subseteq {"DISCOVER", "REQUEST"}

\* The timers of the lease are in their ranges.
TimersOK ==
  /\ t0 \in 0 .. MaxTicks /\ t1 \in 0 .. MaxTicks /\ t2 \in 0 .. MaxTicks
  /\ t2full \in 0 .. MaxTicks /\ used \in Nat
  /\ used < t0 \/ (used = 0 /\ t0 = 0)

\* The ghosts have their types.
GhostOK ==
  since \in 0 .. MaxTicks + 1 /\ crossed \in BOOLEAN /\ last \in Acks

\* An address is one of a lease that runs.
AddrOK ==
  /\ addr \in BOOLEAN
  /\ addr => Supplied
  /\ addr /\ last.t0 # Infinite => t0 = Ticks(last.t0) /\ used = since

\* The invariant in the parts its proof uses.
LEMMA InvParts == IInv <=> ExchangeOK /\ TimersOK /\ GhostOK /\ AddrOK
<1>1. IInv => ExchangeOK /\ GhostOK /\ addr \in BOOLEAN
  BY DEF IInv, TypeOK, ExchangeOK, GhostOK
<1>2. IInv => TimersOK
  BY TimesAssumption DEF IInv, TypeOK, LeaseInv, TimersOK
<1>3. ASSUME TimersOK, GhostOK
      PROVE  {t0, t1, t2, t2full, used, since} \subseteq 0 .. MaxTicks + 1 /\ used <= t0
  BY <1>3, TimesAssumption DEF TimersOK, GhostOK
<1>4. ASSUME ExchangeOK, TimersOK, GhostOK, addr \in BOOLEAN PROVE TypeOK
  BY <1>3, <1>4 DEF TypeOK, ExchangeOK, GhostOK
<1>5. TimersOK => /\ t0 <= MaxTicks /\ t1 <= MaxTicks /\ t2 <= MaxTicks
                  /\ t2full <= MaxTicks
                  /\ used < t0 \/ (used = 0 /\ t0 = 0)
  BY DEF TimersOK
<1> QED
  BY <1>1, <1>2, <1>4, <1>5 DEF IInv, LeaseInv, AddrOK

\* The same of the next state.
LEMMA InvPartsNext == IInv' <=> (ExchangeOK /\ TimersOK /\ GhostOK /\ AddrOK)'
  BY InvParts, PTL

\* dhcp_select, dhcp_renew and dhcp_rebind keep the exchange well formed.
LEMMA RequestOK ==
  ASSUME ExchangeOK, NEW new \in States, NEW mem \in Mem, Request(new, mem)
  PROVE  ExchangeOK' /\ state' = new
<1>1. tries' \in 0 .. MaxTries
  BY TimesAssumption DEF Request, Tried, Lesser, ExchangeOK
<1>2. sent' \subseteq {"DISCOVER", "REQUEST"}
  BY DEF Request, ExchangeOK
<1> QED
  BY <1>1, <1>2 DEF Request, ExchangeOK

\* So does dhcp_discover from another state, with and without memory.
LEMMA DiscoverOK ==
  ASSUME ExchangeOK, NEW mem \in Mem, NEW old \in {"last", "zero"}, Discover(mem, old)
  PROVE  ExchangeOK' /\ state' = "SELECTING"
<1>1. tries' \in 0 .. MaxTries /\ state' = "SELECTING" /\ armed' = TRUE
  BY TimesAssumption DEF Discover
<1>2. /\ xid' \in {"this", "last", "zero"}
      /\ sent' \subseteq {"DISCOVER", "REQUEST"}
      /\ stale' \subseteq {"DISCOVER", "REQUEST"}
  BY DEF Discover, NewTransaction, ExchangeOK
<1> QED
  BY <1>1, <1>2 DEF ExchangeOK, States

\* dhcp_release_and_stop and dhcp_start: no lease, and no address.
LEMMA RestartOK ==
  ASSUME IInv, NEW mem \in Mem, Restart(mem)
  PROVE  ExchangeOK' /\ TimersOK' /\ addr' = FALSE
<1>1. ExchangeOK'
  BY DiscoverOK, InvParts DEF Restart
<1>2. TimersOK'
  BY TimesAssumption DEF Restart, TimersOK
<1>3. addr' = FALSE
  BY InvParts DEF Restart, AddrOK
<1> QED
  BY <1>1, <1>2, <1>3

-----------------------------------------------------------------------------
(* The invariant.                                                          *)

\* The first dhcp_start satisfies it.
LEMMA InitInv == Init => IInv
<1> SUFFICES ASSUME Init PROVE IInv
  OBVIOUS
<1>1. ExchangeOK
  <2>1. tries \in 0 .. MaxTries
    BY TimesAssumption DEF Init
  <2> QED
    BY <2>1 DEF Init, ExchangeOK, States
<1>2. TimersOK
  BY TimesAssumption DEF Init, TimersOK
<1>3. GhostOK
  <2>1. since \in 0 .. MaxTicks + 1
    BY TimesAssumption DEF Init
  <2> QED
    BY <2>1 DEF Init, GhostOK
<1>4. addr = FALSE
  BY DEF Init
<1> QED
  BY <1>1, <1>2, <1>3, <1>4, InvParts DEF AddrOK

\* dhcp_timeout.
LEMMA FineTmrInv == IInv /\ FineTmr => IInv'
<1> SUFFICES ASSUME IInv, FineTmr PROVE IInv'
  OBVIOUS
<1>0. ExchangeOK /\ TimersOK /\ GhostOK /\ AddrOK
  BY InvParts
<1>1. UNCHANGED ghost /\ GhostOK'
  BY <1>0 DEF FineTmr, ghost, GhostOK
<1>2. ASSUME ExchangeOK', UNCHANGED <<lease, addr>>, addr => Supplied' PROVE IInv'
  <2>1. TimersOK'
    BY <1>0, <1>2 DEF TimersOK, lease
  <2>2. AddrOK'
    BY <1>0, <1>1, <1>2 DEF AddrOK, lease, ghost
  <2> QED
    BY <1>1, <1>2, <2>1, <2>2, InvPartsNext
<1>3. PICK mem \in Mem :
        \/ state = "SELECTING" /\ DiscoverAgain(mem) /\ UNCHANGED <<lease, addr>>
        \/ state = "REQUESTING" /\ Request("REQUESTING", mem) /\ UNCHANGED <<lease, addr>>
        \/ Restart(mem)
        \/ /\ state \in {"RENEWING", "REBINDING"} /\ armed' = FALSE
           /\ UNCHANGED <<state, tries, lease, addr, exchange>>
  BY DEF FineTmr
<1>4. CASE state = "SELECTING" /\ DiscoverAgain(mem) /\ UNCHANGED <<lease, addr>>
  <2>1. tries' \in 0 .. MaxTries
    BY <1>0, <1>4, TimesAssumption DEF DiscoverAgain, Tried, Lesser, ExchangeOK
  <2>2. ExchangeOK'
    BY <1>0, <1>4, <2>1 DEF DiscoverAgain, ExchangeOK
  <2>3. ~addr
    BY <1>0, <1>4 DEF Supplied, AddrOK
  <2> QED
    BY <1>2, <1>4, <2>2, <2>3
<1>5. CASE state = "REQUESTING" /\ Request("REQUESTING", mem) /\ UNCHANGED <<lease, addr>>
  <2>1. ~addr
    BY <1>0, <1>5 DEF Supplied, AddrOK
  <2>2. ExchangeOK'
    BY <1>0, <1>5, RequestOK DEF States
  <2> QED
    BY <1>2, <1>5, <2>1, <2>2
<1>6. CASE Restart(mem)
  BY <1>1, <1>6, RestartOK, InvPartsNext DEF AddrOK
<1>7. CASE /\ state \in {"RENEWING", "REBINDING"} /\ armed' = FALSE
           /\ UNCHANGED <<state, tries, lease, addr, exchange>>
  <2>1. ExchangeOK' /\ Supplied'
    BY <1>0, <1>7 DEF ExchangeOK, exchange, Supplied
  <2> QED
    BY <1>2, <1>7, <2>1
<1> QED
  BY <1>3, <1>4, <1>5, <1>6, <1>7

\* Renewing and rebinding: the timers stay in their ranges, and a client that
\* has an address goes to a state in which it has one.
LEMMA T2OrT1OK ==
  ASSUME ExchangeOK, TimersOK, NEW u \in Nat, NEW mem \in Mem, T2OrT1(u, mem)
  PROVE  /\ ExchangeOK' /\ (Supplied => Supplied')
         /\ t1' \in 0 .. MaxTicks /\ t2' \in 0 .. MaxTicks
<1>1. /\ Halfway(t0, u) \in 0 .. MaxTicks
      /\ Halfway(t2full, u) \in 0 .. MaxTicks
  <2>1. t0 \in Nat /\ t2full \in Nat /\ t0 <= MaxTicks /\ t2full <= MaxTicks
    BY TimesAssumption DEF TimersOK
  <2>2. Halfway(t0, u) \in Nat /\ Halfway(t0, u) <= t0
    BY <2>1, HalfwayType
  <2>3. Halfway(t2full, u) \in Nat /\ Halfway(t2full, u) <= t2full
    BY <2>1, HalfwayType
  <2> QED
    BY <2>1, <2>2, <2>3, TimesAssumption
<1>2. 0 \in 0 .. MaxTicks
  BY TimesAssumption
<1>3. ASSUME UNCHANGED <<request, exchange>> PROVE ExchangeOK' /\ (Supplied => Supplied')
  BY <1>3 DEF request, exchange, ExchangeOK, Supplied
<1>4. ASSUME NEW new \in {"RENEWING", "REBINDING"}, Request(new, mem)
      PROVE  ExchangeOK' /\ (Supplied => Supplied')
  BY <1>4, RequestOK DEF States, Supplied
<1>5. CASE t2 = 1
  <2>1. T2Timeout(u, mem)
    BY <1>5 DEF T2OrT1
  <2>2. t1' \in 0 .. MaxTicks
    BY <2>1 DEF T2Timeout, TimersOK
  <2>3. CASE state \in {"REQUESTING", "BOUND", "RENEWING", "REBINDING"}
    BY <1>1, <1>4, <2>1, <2>2, <2>3 DEF T2Timeout
  <2>4. CASE state \notin {"REQUESTING", "BOUND", "RENEWING", "REBINDING"}
    BY <1>2, <1>3, <2>1, <2>2, <2>4 DEF T2Timeout
  <2> QED
    BY <2>3, <2>4
<1>6. CASE t2 # 1
  <2>1. t2' \in 0 .. MaxTicks
    BY <1>6, TimesAssumption DEF T2OrT1, TimersOK
  <2>2. CASE t1 = 1 /\ state \in {"REQUESTING", "BOUND", "RENEWING"}
    <3>1. Request("RENEWING", mem) /\ t1' = Halfway(t2full, u)
      BY <1>6, <2>2 DEF T2OrT1, T1Timeout
    <3> QED
      BY <1>1, <1>4, <2>1, <3>1
  <2>3. CASE t1 = 1 /\ state \notin {"REQUESTING", "BOUND", "RENEWING"}
    <3>1. UNCHANGED <<request, exchange>> /\ t1' = 0
      BY <1>6, <2>3 DEF T2OrT1, T1Timeout
    <3> QED
      BY <1>2, <1>3, <2>1, <3>1
  <2>4. CASE t1 # 1
    <3>1. UNCHANGED <<request, exchange>> /\ t1' = IF t1 = 0 THEN 0 ELSE t1 - 1
      BY <1>6, <2>4 DEF T2OrT1
    <3>2. t1' \in 0 .. MaxTicks
      BY <3>1, TimesAssumption DEF TimersOK
    <3> QED
      BY <1>3, <2>1, <3>1, <3>2
  <2> QED
    BY <2>2, <2>3, <2>4
<1> QED
  BY <1>5, <1>6

\* dhcp_coarse_tmr: the lease ends, or one more tick of it has passed.
LEMMA CoarseTmrInv == IInv /\ CoarseTmr => IInv'
<1> SUFFICES ASSUME IInv, CoarseTmr PROVE IInv'
  OBVIOUS
<1>0. ExchangeOK /\ TimersOK /\ GhostOK /\ AddrOK
  BY InvParts
<1>1. last' = last /\ crossed' = crossed /\ since' = Lesser(since + 1, MaxTicks + 1)
  BY DEF CoarseTmr, Elapse
<1>2. GhostOK'
  <2>1. since' \in 0 .. MaxTicks + 1
    BY <1>0, <1>1, TimesAssumption DEF Lesser, GhostOK
  <2> QED
    BY <1>0, <1>1, <2>1 DEF GhostOK
<1>3. PICK mem \in Mem :
        IF t0 # 0 /\ used + 1 = t0 THEN Restart(mem)
        ELSE /\ used' = IF t0 = 0 THEN used ELSE used + 1
             /\ T2OrT1(used', mem)
             /\ UNCHANGED <<t0, t2full, addr>>
  BY DEF CoarseTmr
<1>4. CASE t0 # 0 /\ used + 1 = t0
  BY <1>2, <1>3, <1>4, RestartOK, InvPartsNext DEF AddrOK
<1>5. CASE ~(t0 # 0 /\ used + 1 = t0)
  <2>1. /\ used' = IF t0 = 0 THEN used ELSE used + 1
        /\ T2OrT1(used', mem) /\ UNCHANGED <<t0, t2full, addr>>
    BY <1>3, <1>5
  <2>2. used' \in Nat /\ (used' < t0 \/ (used' = 0 /\ t0 = 0))
    BY <1>0, <1>5, <2>1, TimesAssumption DEF TimersOK
  <2>3. /\ ExchangeOK' /\ (Supplied => Supplied')
        /\ t1' \in 0 .. MaxTicks /\ t2' \in 0 .. MaxTicks
    BY <1>0, <2>1, <2>2, T2OrT1OK
  <2>4. TimersOK'
    BY <1>0, <2>1, <2>2, <2>3 DEF TimersOK
  <2>5. AddrOK'
    <3>1. addr' \in BOOLEAN /\ (addr' => Supplied')
      BY <1>0, <2>1, <2>3 DEF AddrOK
    <3>2. ASSUME addr', (last.t0 # Infinite)'
          PROVE  (t0 = Ticks(last.t0) /\ used = since)'
      <4>1. t0 = Ticks(last.t0) /\ used = since
        BY <1>0, <1>1, <2>1, <3>2 DEF AddrOK
      <4>2. t0 # 0
        BY <1>0, <4>1, TicksType, OfferedType DEF GhostOK
      <4>3. used' = used + 1 /\ since' = used + 1
        BY <1>0, <1>1, <2>1, <4>1, <4>2, TimesAssumption DEF Lesser, TimersOK
      <4> QED
        BY <1>1, <2>1, <4>1, <4>3
    <3> QED
      BY <3>1, <3>2 DEF AddrOK
  <2> QED
    BY <1>2, <2>3, <2>4, <2>5, InvPartsNext
<1> QED
  BY <1>4, <1>5

\* dhcp_recv: an offer, an ACK and a refusal.
LEMMA RecvInv == IInv /\ (Offer \/ Ack \/ Nak) => IInv'
<1> SUFFICES ASSUME IInv, Offer \/ Ack \/ Nak PROVE IInv'
  OBVIOUS
<1>0. ExchangeOK /\ TimersOK /\ GhostOK /\ AddrOK
  BY InvParts
<1>1. crossed' \in BOOLEAN
  BY <1>0 DEF Offer, Ack, Nak, Reply, GhostOK
<1>2. CASE Offer
  <2>1. state = "SELECTING" /\ UNCHANGED <<lease, addr, last, since>>
    BY <1>2 DEF Offer
  <2>2. ExchangeOK'
    BY <1>0, <1>2, RequestOK DEF Offer, States
  <2>3. GhostOK' /\ TimersOK'
    BY <1>0, <1>1, <2>1 DEF GhostOK, TimersOK, lease
  <2>4. AddrOK'
    BY <1>0, <2>1 DEF AddrOK, Supplied
  <2> QED
    BY <2>2, <2>3, <2>4, InvPartsNext
<1>3. CASE Ack
  <2>1. PICK ack \in Acks : Bind(ack) /\ last' = ack /\ since' = 0
    BY <1>3 DEF Ack
  <2>2. ExchangeOK'
    <3>1. tries' \in 0 .. MaxTries
      BY <2>1, TimesAssumption DEF Bind
    <3> QED
      BY <1>0, <1>3, <2>1, <3>1 DEF Ack, Bind, exchange, ExchangeOK, States
  <2>3. GhostOK'
    <3>1. since' \in 0 .. MaxTicks + 1
      BY <2>1, TimesAssumption
    <3> QED
      BY <1>1, <2>1, <3>1 DEF GhostOK
  <2>4. /\ Ticks(ack.t0) \in 1 .. MaxTicks
        /\ Ticks(OfferedT1(ack)) \in 1 .. MaxTicks
        /\ Ticks(OfferedT2(ack)) \in 1 .. MaxTicks
    BY OfferedType, TicksType
  <2>5. TimersOK'
    BY <1>0, <2>1, <2>4, TimesAssumption DEF Bind, TimersOK
  <2>6. AddrOK'
    BY <2>1 DEF AddrOK, Bind, Supplied
  <2> QED
    BY <2>2, <2>3, <2>5, <2>6, InvPartsNext
<1>4. CASE Nak
  <2>1. addr' = FALSE /\ UNCHANGED <<lease, last, since>>
    BY <1>4 DEF Nak
  <2>2. ExchangeOK'
    <3>1. PICK mem \in Mem : Discover(mem, IF xid = "zero" THEN "zero" ELSE "last")
      BY <1>4 DEF Nak
    <3>2. (IF xid = "zero" THEN "zero" ELSE "last") \in {"last", "zero"}
      OBVIOUS
    <3> QED
      BY <1>0, <3>1, <3>2, DiscoverOK
  <2>3. GhostOK' /\ TimersOK'
    BY <1>0, <1>1, <2>1 DEF GhostOK, TimersOK, lease
  <2> QED
    BY <2>1, <2>2, <2>3, InvPartsNext DEF AddrOK
<1> QED
  BY <1>2, <1>3, <1>4

\* Every step preserves the inductive invariant.
LEMMA StepInv == IInv /\ [Next]_vars => IInv'
<1> SUFFICES ASSUME IInv, [Next]_vars PROVE IInv'
  OBVIOUS
<1>1. CASE UNCHANGED vars
  <2>1. ExchangeOK /\ TimersOK /\ GhostOK /\ AddrOK
    BY InvParts
  <2>2. (ExchangeOK /\ TimersOK /\ GhostOK /\ AddrOK)'
    BY <1>1, <2>1 DEF vars, request, lease, exchange, ghost, ExchangeOK, TimersOK,
       GhostOK, AddrOK, Supplied
  <2> QED
    BY <2>2, InvPartsNext
<1> QED
  BY <1>1, FineTmrInv, CoarseTmrInv, RecvInv DEF Next

-----------------------------------------------------------------------------
(* The theorems.                                                           *)

\* The inductive invariant holds in every reachable state.
THEOREM Invariance == Spec => []IInv
  BY InitInv, StepInv, PTL DEF Spec

\* The variables keep their ranges, and the lease's timer never passes the
\* lease time that it is compared with for equality only.
THEOREM TypeCorrect == Spec => []TypeOK
  BY Invariance, PTL DEF IInv

\* Whatever is lost, late, repeated or refused, and whatever lease times the
\* ACKs give, an address is kept over a call of the coarse timer only while
\* the last accepted lease has half a period to run.
THEOREM AddressLeased == Spec => []LeaseRespected
<1>1. IInv => LeaseRespected
  <2> SUFFICES ASSUME IInv, addr, last.t0 # Infinite, since > 0
               PROVE  since * CoarseSecs + CoarseSecs \div 2 <= last.t0
    BY InvParts DEF LeaseRespected, AddrOK
  <2>1. t0 = Ticks(last.t0) /\ used = since /\ TimersOK /\ last \in Acks
    BY InvParts DEF AddrOK, GhostOK
  <2>2. last.t0 \in Nat
    BY <2>1, OfferedType
  <2>3. since \in Nat /\ Ticks(last.t0) \in Nat /\ since + 1 <= Ticks(last.t0)
    BY <2>1, TimesAssumption DEF TimersOK
  <2>4. Ticks(last.t0) * CoarseSecs <= last.t0 + CoarseSecs \div 2
    BY <2>2, <2>3, TicksShort
  <2>5. (since + 1) * CoarseSecs <= Ticks(last.t0) * CoarseSecs
    BY <2>3, TimesOrdered, TimesAssumption
  <2> QED
    BY <2>2, <2>3, <2>4, <2>5, HalfPeriod
<1> QED
  BY <1>1, Invariance, PTL
=============================================================================
