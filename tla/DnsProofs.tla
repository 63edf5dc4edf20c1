----------------------------- MODULE DnsProofs -----------------------------
(***************************************************************************)
(* Proofs about Dns, for every number of servers and of retries a u8_t can *)
(* count.  That a query is given up in time is not inductive: WaitInv says *)
(* how much of the time the server and the retry it has come to account    *)
(* for, AskInv that the application waits as long as the query runs.       *)
(***************************************************************************)
EXTENDS Dns, Integers, TLAPS

Entries == [state : {"UNUSED", "ASKING", "DONE"}, idx : Idx,
            tmr : 0 .. MaxRetries, retries : 0 .. MaxRetries - 1,
            ttl : 0 .. MaxTtl]

-----------------------------------------------------------------------------
(* Arithmetic of the waiting times.                                        *)

\* One more retry adds its number of calls.
LEMMA TriStep == ASSUME NEW n \in Nat PROVE Tri(n + 1) = Tri(n) + n /\ Tri(n) \in Int
<1>1. \A a \in Int : (a + 2 * n) \div 2 = (a \div 2) + n
  OBVIOUS
<1>2. (n + 1) * (n + 1 - 1) = n * (n - 1) + 2 * n
  OBVIOUS
<1>3. n * (n - 1) \in Int
  OBVIOUS
<1> QED
  BY <1>1, <1>2, <1>3 DEF Tri

\* More retries take longer.
LEMMA TriGrows == ASSUME NEW m \in Nat, NEW n \in Nat, m <= n PROVE Tri(m) <= Tri(n)
<1>1. m * (m - 1) <= n * (n - 1)
  <2>1. CASE m = 0
    BY <2>1
  <2>2. CASE m > 0
    BY <2>2
  <2> QED
    BY <2>1, <2>2
<1>2. \A a, b \in Int : a <= b => a \div 2 <= b \div 2
  OBVIOUS
<1>3. m * (m - 1) \in Int /\ n * (n - 1) \in Int
  OBVIOUS
<1> QED
  BY <1>1, <1>2, <1>3 DEF Tri

\* The time of a server is a positive number.
LEMMA PerServerType == PerServer \in Nat /\ PerServer >= 1
<1>1. Tri(0) = 0
  BY DEF Tri
<1>2. MaxRetries \in Nat /\ 0 <= MaxRetries
  BY ServerAssumption
<1>3. Tri(0) <= Tri(MaxRetries) /\ Tri(MaxRetries) \in Int
  BY <1>2, TriGrows, TriStep
<1> QED
  BY <1>1, <1>3 DEF PerServer

\* The time of one more server.
LEMMA ServersStep ==
  ASSUME NEW i \in Nat
  PROVE  (i + 1) * PerServer = i * PerServer + PerServer /\ i * PerServer \in Nat
BY PerServerType

\* More servers take longer.
LEMMA ServersGrow ==
  ASSUME NEW i \in Nat, NEW j \in Nat, i <= j
  PROVE  i * PerServer <= j * PerServer
BY PerServerType

\* A server that is being asked has not had all its time.
LEMMA UsedBound ==
  ASSUME NEW e \in Entries, e.tmr # 0,
         e.tmr <= IF e.retries = 0 THEN 1 ELSE e.retries
  PROVE  Used(e) \in Nat /\ Used(e) < PerServer
<1>1. e.retries \in Nat /\ e.tmr \in Nat /\ e.retries + 1 <= MaxRetries
  BY ServerAssumption DEF Entries
<1>2. CASE e.retries = 0
  BY <1>2, PerServerType DEF Used
<1>3. CASE e.retries # 0
  <2>1. Tri(e.retries + 1) = Tri(e.retries) + e.retries /\ Tri(e.retries) \in Int
    BY <1>1, TriStep
  <2>2. Tri(e.retries + 1) <= Tri(MaxRetries) /\ Tri(0) <= Tri(e.retries)
    BY <1>1, TriGrows, ServerAssumption
  <2>3. Tri(0) = 0 /\ Tri(MaxRetries) \in Int
    BY TriStep, ServerAssumption DEF Tri
  <2> QED
    BY <1>1, <1>3, <2>1, <2>2, <2>3 DEF Used, PerServer
<1> QED
  BY <1>2, <1>3

-----------------------------------------------------------------------------
(* The resolver's functions.                                               *)

\* dns_send leaves the entry alone, or ends the query.
LEMMA SendOutcome ==
  ASSUME NEW e, NEW srv, NEW o \in Send(e, srv)
  PROVE  \/ /\ srv[e.idx] = Any
            /\ o = [entry |-> Unused, asked |-> asked, found |-> "failed"]
         \/ /\ srv[e.idx] # Any /\ o.entry = e /\ o.found = "none"
            /\ o.asked \in {asked, asked \cup {srv[e.idx]}}
  BY DEF Send, Failed

\* An outcome of dns_check_entry in state ASKING: it waits, asks the server
\* again, asks the next one, or gives up.
Checked(e, srv, o) ==
  \/ o = [entry |-> Unused, asked |-> asked, found |-> "failed"]
  \/ /\ o.found = "none"
     /\ \/ o.asked = asked
        \/ /\ srv[o.entry.idx] # Any
           /\ o.asked = asked \cup {srv[o.entry.idx]}
     /\ \/ e.tmr > 1 /\ o.entry = [e EXCEPT !.tmr = e.tmr - 1]
        \/ /\ e.tmr = 1 /\ e.retries + 1 # MaxRetries
           /\ o.entry = [e EXCEPT !.tmr = e.retries + 1,
                                  !.retries = e.retries + 1]
        \/ /\ e.tmr = 1 /\ e.retries + 1 = MaxRetries /\ e.idx + 1 \in Idx
           /\ o.entry = [e EXCEPT !.idx = e.idx + 1, !.tmr = 1, !.retries = 0]

\* There is no other.
LEMMA CheckAskingOutcome ==
  ASSUME NEW e \in Entries, e.tmr # 0, NEW srv, NEW o \in CheckAsking(e, srv)
  PROVE  Checked(e, srv, o)
<1> DEFINE e1 == [e EXCEPT !.tmr = e.tmr - 1]
           e2 == [e1 EXCEPT !.retries = e.retries + 1]
           again == [e2 EXCEPT !.tmr = e2.retries]
           onward == [e2 EXCEPT !.idx = e.idx + 1, !.tmr = 1, !.retries = 0]
<1>1. e.tmr \in 1 .. 255 /\ (e.tmr + 255) % 256 = e.tmr - 1
  BY ServerAssumption DEF Entries
<1>2. /\ e1.tmr = e.tmr - 1 /\ e2.retries = e.retries + 1 /\ e2.idx = e.idx
      /\ e1 = [e EXCEPT !.tmr = (@ + 255) % 256]
      /\ e2 = [e1 EXCEPT !.retries = @ + 1]
  BY <1>1 DEF Entries
<1>3. CASE e.tmr > 1
  <2>1. o = [entry |-> e1, asked |-> asked, found |-> "none"]
    BY <1>1, <1>2, <1>3 DEF CheckAsking
  <2> QED
    BY <2>1, <1>3 DEF Checked
<1>4. CASE e.tmr = 1 /\ e.retries + 1 # MaxRetries
  <2>1. o \in Send(again, srv)
    BY <1>1, <1>2, <1>4 DEF CheckAsking
  <2>2. again = [e EXCEPT !.tmr = e.retries + 1, !.retries = e.retries + 1]
    BY DEF Entries
  <2> HIDE DEF again
  <2> QED
    BY <2>1, <2>2, <1>4, SendOutcome DEF Checked
<1>5. CASE e.tmr = 1 /\ e.retries + 1 = MaxRetries
  <2>1. CASE BackupAvailable(e, srv)
    <3>1. o \in Send(onward, srv)
      BY <1>1, <1>2, <1>5, <2>1 DEF CheckAsking
    <3>2. onward = [e EXCEPT !.idx = e.idx + 1, !.tmr = 1, !.retries = 0]
      BY DEF Entries
    <3> HIDE DEF onward
    <3> QED
      BY <3>1, <3>2, <1>5, <2>1, SendOutcome DEF BackupAvailable, Checked
  <2>2. CASE ~BackupAvailable(e, srv)
    <3>1. o \in Failed
      BY <1>1, <1>2, <1>5, <2>2 DEF CheckAsking
    <3> QED
      BY <3>1 DEF Failed, Checked
  <2> QED
    BY <2>1, <2>2
<1> QED
  BY <1>1, <1>3, <1>4, <1>5

\* A query that is under way: the timer runs, within the time of the retry.
Asking(e) == /\ e \in Entries /\ e.state = "ASKING" /\ e.tmr # 0
             /\ e.tmr <= IF e.retries = 0 THEN 1 ELSE e.retries

\* Its types, and that a step of it accounts for one more call of dns_tmr.
LEMMA CheckAskingInv ==
  ASSUME NEW e, Asking(e), NEW w \in Nat, w <= e.idx * PerServer + Used(e),
         servers \in [Idx -> Addresses \cup {Any}], asked \subseteq Addresses,
         NEW o \in CheckAsking(e, servers)
  PROVE  /\ w + 1 <= MaxServers * PerServer
         /\ o.asked \subseteq Addresses
         /\ \/ o.found = "failed" /\ o.entry = Unused
            \/ /\ o.found = "none" /\ Asking(o.entry)
               /\ w + 1 <= o.entry.idx * PerServer + Used(o.entry)
<1>1. Used(e) \in Nat /\ Used(e) < PerServer
  BY UsedBound DEF Asking
<1>2. e.idx \in Nat /\ e.idx + 1 <= MaxServers /\ e.retries \in Nat /\ e.tmr \in Nat
  BY ServerAssumption DEF Asking, Entries, Idx
<1>3. (e.idx + 1) * PerServer = e.idx * PerServer + PerServer /\ e.idx * PerServer \in Nat
  BY <1>2, ServersStep
<1>4. (e.idx + 1) * PerServer <= MaxServers * PerServer
  BY <1>2, ServersGrow, ServerAssumption
<1>5. w + 1 <= MaxServers * PerServer /\ w + 1 <= (e.idx + 1) * PerServer
  <2>1. MaxServers * PerServer \in Nat
    BY ServersStep, ServerAssumption
  <2> QED
    BY <1>1, <1>3, <1>4, <2>1, PerServerType
<1>6. Checked(e, servers, o)
  <2>1. e \in Entries /\ e.tmr # 0
    BY DEF Asking
  <2> QED
    BY <2>1, CheckAskingOutcome
<1>7. CASE o = [entry |-> Unused, asked |-> asked, found |-> "failed"]
  BY <1>5, <1>7
<1>8. ASSUME o.found = "none", Asking(o.entry),
             w + 1 <= o.entry.idx * PerServer + Used(o.entry),
             \/ o.asked = asked
             \/ /\ servers[o.entry.idx] # Any
                /\ o.asked = asked \cup {servers[o.entry.idx]}
      PROVE  /\ o.asked \subseteq Addresses
             /\ o.found = "none" /\ Asking(o.entry)
             /\ w + 1 <= o.entry.idx * PerServer + Used(o.entry)
  <2>1. o.entry.idx \in Idx
    BY <1>8 DEF Asking, Entries
  <2>2. servers[o.entry.idx] \in Addresses \cup {Any}
    BY <2>1
  <2> QED
    BY <1>8, <2>2
<1>9. CASE e.tmr > 1 /\ o.entry = [e EXCEPT !.tmr = e.tmr - 1]
  <2>1. e.retries # 0
    BY <1>9, <1>2 DEF Asking
  <2>2. Asking(o.entry)
    <3>1. e.tmr - 1 \in 0 .. MaxRetries /\ e.tmr - 1 # 0
      BY <1>9, ServerAssumption DEF Asking, Entries
    <3>2. o.entry \in Entries
      BY <1>9, <3>1 DEF Asking, Entries
    <3>3. /\ o.entry.state = "ASKING" /\ o.entry.tmr = e.tmr - 1
          /\ o.entry.retries = e.retries
      BY <1>9 DEF Asking, Entries
    <3> QED
      BY <1>2, <2>1, <3>1, <3>2, <3>3 DEF Asking
  <2>3. o.entry.idx = e.idx /\ o.entry.retries = e.retries /\ o.entry.tmr = e.tmr - 1
    BY <1>9 DEF Asking, Entries
  <2>4. Used(o.entry) = Used(e) + 1
    BY <2>1, <2>3, <1>2, TriStep DEF Used
  <2>5. w + 1 <= o.entry.idx * PerServer + Used(o.entry)
    BY <2>3, <2>4, <1>1, <1>3
  <2> QED
    BY <1>5, <1>6, <1>7, <1>8, <2>2, <2>5 DEF Checked
<1>10. CASE /\ e.tmr = 1 /\ e.retries + 1 # MaxRetries
            /\ o.entry = [e EXCEPT !.tmr = e.retries + 1,
                                   !.retries = e.retries + 1]
  <2>1. e.retries + 1 \in 1 .. MaxRetries - 1
    BY <1>10, <1>2, ServerAssumption DEF Asking, Entries
  <2>2. Asking(o.entry)
    <3>1. e.retries + 1 \in 0 .. MaxRetries /\ e.retries + 1 \in 0 .. MaxRetries - 1
      BY <2>1, ServerAssumption
    <3>2. o.entry \in Entries
      BY <1>10, <3>1 DEF Asking, Entries
    <3>3. /\ o.entry.state = "ASKING" /\ o.entry.tmr = e.retries + 1
          /\ o.entry.retries = e.retries + 1
      BY <1>10 DEF Asking, Entries
    <3> QED
      BY <2>1, <3>2, <3>3 DEF Asking
  <2>3. o.entry.idx = e.idx /\ o.entry.retries = e.retries + 1
        /\ o.entry.tmr = e.retries + 1
    BY <1>10 DEF Asking, Entries
  <2>4. Tri(e.retries + 1) = Tri(e.retries) + e.retries /\ Tri(e.retries) \in Int
    BY <1>2, TriStep
  <2>5. Used(o.entry) = 1 + Tri(e.retries + 1)
    BY <2>3, <2>4, <1>2 DEF Used
  <2>6. Used(o.entry) = Used(e) + 1
    <3>1. CASE e.retries = 0
      <4>1. Tri(0 + 1) = 0 /\ Used(e) = 0
        BY <3>1 DEF Tri, Used
      <4> QED
        BY <3>1, <4>1, <2>5
    <3>2. CASE e.retries # 0
      BY <3>2, <2>4, <2>5, <1>2, <1>10 DEF Used
    <3> QED
      BY <3>1, <3>2
  <2>7. w + 1 <= o.entry.idx * PerServer + Used(o.entry)
    BY <2>3, <2>6, <1>1, <1>3
  <2> QED
    BY <1>5, <1>6, <1>7, <1>8, <2>2, <2>7 DEF Checked
<1>11. CASE /\ e.tmr = 1 /\ e.retries + 1 = MaxRetries /\ e.idx + 1 \in Idx
            /\ o.entry = [e EXCEPT !.idx = e.idx + 1, !.tmr = 1, !.retries = 0]
  <2>1. Asking(o.entry)
    <3>1. 1 \in 0 .. MaxRetries /\ 0 \in 0 .. MaxRetries - 1
      BY ServerAssumption
    <3>2. o.entry \in Entries
      BY <1>11, <3>1 DEF Asking, Entries
    <3>3. /\ o.entry.state = "ASKING" /\ o.entry.tmr = 1
          /\ o.entry.retries = 0
      BY <1>11 DEF Asking, Entries
    <3> QED
      BY <3>2, <3>3 DEF Asking
  <2>2. o.entry.idx = e.idx + 1 /\ o.entry.retries = 0
    BY <1>11 DEF Asking, Entries
  <2>3. Used(o.entry) = 0
    BY <2>2 DEF Used
  <2>4. w + 1 <= o.entry.idx * PerServer + Used(o.entry)
    BY <2>2, <2>3, <1>3, <1>5, PerServerType
  <2> QED
    BY <1>5, <1>6, <1>7, <1>8, <2>1, <2>4 DEF Checked
<1> QED
  BY <1>6, <1>7, <1>9, <1>10, <1>11 DEF Checked

-----------------------------------------------------------------------------
(* The invariant.                                                          *)

\* An entry that is not used is one.
LEMMA UnusedType == Unused \in Entries
<1>1. 0 \in Idx /\ 0 \in 0 .. MaxRetries /\ 0 \in 0 .. MaxRetries - 1
      /\ 0 \in 0 .. MaxTtl
  BY ServerAssumption DEF Idx
<1> QED
  BY <1>1 DEF Unused, Entries

\* The bound on the whole query is a number.
LEMMA BoundType == MaxServers * PerServer \in Nat
  BY ServersStep, ServerAssumption

\* The state before the first lease satisfies the inductive invariant.
LEMMA InitInv == Init => IInv
<1> SUFFICES ASSUME Init PROVE IInv
  OBVIOUS
<1>1. entry.state = "UNUSED" /\ entry.ttl = 0
  BY DEF Init, Unused
<1>2. TypeOK
  BY <1>1, UnusedType DEF Init, TypeOK, Entries
<1>3. AskInv /\ WaitInv
  BY <1>1 DEF Init, AskInv, WaitInv
<1>4. GivesUp
  BY BoundType DEF Init, GivesUp
<1> QED
  BY <1>2, <1>3, <1>4 DEF IInv

\* In the invariant, what Asking says is said of the entry.
LEMMA EntryAsking ==
  ASSUME IInv, entry.state = "ASKING"
  PROVE  /\ Asking(entry) /\ waited \in Nat
         /\ waited <= entry.idx * PerServer + Used(entry)
  BY DEF IInv, TypeOK, WaitInv, Asking, Entries

\* A query that ends: the application is told, and nothing is owed any more.
LEMMA EndedInv ==
  ASSUME IInv, UNCHANGED <<servers, lease>>, entry' \in Entries,
         entry'.state # "ASKING", entry'.state = "DONE" => entry'.ttl # 0,
         asked' \subseteq Addresses,
         app' = "DNS_IP_OBTAINED", result' \in {"found", "failed"},
         waited' \in Nat, waited' <= MaxServers * PerServer
  PROVE  IInv'
<1>1. TypeOK'
  BY DEF IInv, TypeOK, Entries
<1>2. AskInv' /\ WaitInv'
  BY DEF AskInv, WaitInv
<1>3. GivesUp'
  BY DEF GivesUp
<1> QED
  BY <1>1, <1>2, <1>3 DEF IInv

\* A query that goes on.
LEMMA GoesOnInv ==
  ASSUME IInv, entry.state = "ASKING", UNCHANGED <<servers, lease, app, result>>,
         Asking(entry'), asked' \subseteq Addresses, waited' \in Nat,
         waited' <= entry'.idx * PerServer + Used(entry'),
         waited' <= MaxServers * PerServer
  PROVE  IInv'
<1>1. TypeOK'
  BY DEF IInv, TypeOK, Asking, Entries
<1>2. AskInv'
  BY DEF IInv, AskInv, Asking
<1>3. WaitInv'
  BY DEF WaitInv, Asking
<1>4. GivesUp'
  BY DEF GivesUp
<1> QED
  BY <1>1, <1>2, <1>3, <1>4 DEF IInv

\* dns_check_entry, from dns_tmr or for an error, preserves the invariant.
LEMMA CheckInv ==
  ASSUME IInv, entry.state = "ASKING", NEW e, Asking(e),
         waited <= e.idx * PerServer + Used(e),
         waited' \in {waited, waited + 1},
         Outcome(CheckAsking(e, servers)), UNCHANGED <<servers, lease>>
  PROVE  IInv'
<1>1. PICK o \in CheckAsking(e, servers) :
        /\ entry' = o.entry /\ asked' = o.asked
        /\ IF o.found = "none" THEN UNCHANGED <<app, result>>
           ELSE app' = "DNS_IP_OBTAINED" /\ result' = o.found
  BY DEF Outcome
<1>2. /\ waited \in Nat /\ asked \subseteq Addresses
      /\ servers \in [Idx -> Addresses \cup {Any}]
  BY DEF IInv, TypeOK
<1>3. /\ waited + 1 <= MaxServers * PerServer
      /\ o.asked \subseteq Addresses
      /\ \/ o.found = "failed" /\ o.entry = Unused
         \/ /\ o.found = "none" /\ Asking(o.entry)
            /\ waited + 1 <= o.entry.idx * PerServer + Used(o.entry)
  BY <1>2, CheckAskingInv
<1>4. waited' \in Nat /\ waited' <= waited + 1 /\ waited' <= MaxServers * PerServer
  BY <1>2, <1>3, BoundType
<1>5. CASE o.found = "failed" /\ o.entry = Unused
  <2>1. Unused \in Entries /\ Unused.state # "ASKING" /\ Unused.state # "DONE"
    BY UnusedType DEF Unused
  <2> QED
    BY <1>1, <1>3, <1>4, <1>5, <2>1, EndedInv
<1>6. CASE /\ o.found = "none" /\ Asking(o.entry)
           /\ waited + 1 <= o.entry.idx * PerServer + Used(o.entry)
  <2>1. Used(o.entry) \in Nat /\ o.entry.idx \in Nat
    BY <1>6, UsedBound DEF Asking, Entries, Idx
  <2>2. o.entry.idx * PerServer \in Nat
    BY <2>1, ServersStep
  <2>3. waited' <= o.entry.idx * PerServer + Used(o.entry)
    BY <1>2, <1>4, <1>6, <2>1, <2>2
  <2> QED
    BY <1>1, <1>3, <1>4, <1>6, <2>3, GoesOnInv
<1> QED
  BY <1>3, <1>5, <1>6

\* A lease may change the servers under a query.
LEMMA DhcpAckInv == IInv /\ DhcpAck => IInv'
<1> SUFFICES ASSUME IInv, DhcpAck PROVE IInv'
  OBVIOUS
<1>1. UNCHANGED <<entry, asked, app, result, waited>> /\ lease' = TRUE
  BY DEF DhcpAck
<1>2. servers' \in [Idx -> Addresses \cup {Any}]
  <2>1. PICK n \in 0 .. MaxServers :
          \E given \in [0 .. n - 1 -> Addresses \cup {Any}] :
            servers' = [i \in Idx |-> IF i < n THEN given[i] ELSE servers[i]]
    BY DEF DhcpAck
  <2>2. PICK given \in [0 .. n - 1 -> Addresses \cup {Any}] :
          servers' = [i \in Idx |-> IF i < n THEN given[i] ELSE servers[i]]
    BY <2>1
  <2>3. \A i \in Idx : i < n => i \in 0 .. n - 1
    BY DEF Idx
  <2> QED
    BY <2>2, <2>3 DEF IInv, TypeOK
<1> QED
  BY <1>1, <1>2 DEF IInv, TypeOK, AskInv, WaitInv, GivesUp, Used

\* With 8.8.8.8 for the first server the query is under way at once.
LEMMA AskStep ==
  ASSUME IInv, Ask
  PROVE  /\ app = "START_UP" /\ app' = "DHCP_IP_RECEIVED"
         /\ Asking(entry') /\ entry'.idx = 0 /\ entry'.retries = 0
         /\ result' = "none" /\ asked' \subseteq Addresses
         /\ servers' \in [Idx -> Addresses \cup {Any}]
         /\ UNCHANGED <<lease, waited>>
<1> DEFINE srv == [servers EXCEPT ![0] = Google]
           new == [Unused EXCEPT !.state = "ASKING", !.tmr = 1]
<1>1. 0 \in Idx /\ servers \in [Idx -> Addresses \cup {Any}] /\ asked \subseteq Addresses
  BY ServerAssumption DEF IInv, TypeOK, Idx
<1>2. srv \in [Idx -> Addresses \cup {Any}] /\ srv[0] = Google /\ Google # Any
      /\ Google \in Addresses
  BY <1>1, ServerAssumption
<1>3. AskWith(srv)
  BY DEF Ask
<1>4. /\ new.idx = 0 /\ new.retries = 0 /\ new.tmr = 1 /\ new.state = "ASKING"
  BY DEF Unused
<1>5. Asking(new)
  <2>1. 1 \in 0 .. MaxRetries
    BY ServerAssumption
  <2>2. new \in Entries
    BY <2>1, UnusedType DEF Entries
  <2> QED
    BY <1>4, <2>2 DEF Asking
<1> HIDE DEF srv
<1>6. PICK o \in CheckNew(srv) : entry' = o.entry /\ asked' = o.asked /\ result' = o.found
  BY <1>2, <1>3 DEF AskWith
<1>7. o \in Send(new, srv)
  BY <1>6 DEF CheckNew
<1> HIDE DEF new
<1>8. o.entry = new /\ o.found = "none" /\ o.asked \in {asked, asked \cup {srv[0]}}
  BY <1>2, <1>4, <1>7, SendOutcome
<1>9. entry' = new /\ result' = "none" /\ asked' \subseteq Addresses
  BY <1>1, <1>2, <1>6, <1>8
<1>10. /\ app = "START_UP" /\ app' = "DHCP_IP_RECEIVED" /\ servers' = srv
       /\ UNCHANGED <<lease, waited>>
  BY <1>3 DEF AskWith
<1> QED
  BY <1>2, <1>4, <1>5, <1>9, <1>10

\* main() asking preserves the invariant.
LEMMA AskKeepsInv == IInv /\ Ask => IInv'
<1> SUFFICES ASSUME IInv, Ask PROVE IInv'
  OBVIOUS
<1>1. waited = 0 /\ waited' = 0
  BY AskStep DEF IInv, AskInv
<1>2. TypeOK'
  BY AskStep DEF IInv, TypeOK, Asking, Entries
<1>3. AskInv'
  BY AskStep, <1>1 DEF AskInv, Asking
<1>4. WaitInv'
  <2>1. Used(entry') = 0 /\ entry'.idx * PerServer = 0
    BY AskStep, PerServerType DEF Used
  <2> QED
    BY <1>1, <2>1, AskStep DEF WaitInv, Asking
<1>5. GivesUp'
  BY <1>1, BoundType DEF GivesUp
<1> QED
  BY <1>2, <1>3, <1>4, <1>5 DEF IInv

\* So does an answer, whatever it says and whoever sends it.
LEMMA RecvInv == IInv /\ Recv => IInv'
<1> SUFFICES ASSUME IInv, NEW from \in asked,
                    RecvAddress(from) \/ RecvEmpty(from) \/ RecvError(from)
             PROVE  IInv'
  BY DEF Recv
<1>0. entry.state = "ASKING" /\ UNCHANGED <<servers, lease, waited>>
  BY DEF RecvAddress, RecvEmpty, RecvError, Answers
<1>1. /\ entry \in Entries /\ asked \subseteq Addresses
      /\ waited \in Nat /\ waited <= MaxServers * PerServer
  BY DEF IInv, TypeOK, Entries, GivesUp
<1>2. ASSUME Outcome(Failed) PROVE IInv'
  <2>1. /\ entry' = Unused /\ asked' = asked /\ app' = "DNS_IP_OBTAINED"
        /\ result' = "failed"
    BY <1>2 DEF Outcome, Failed
  <2>2. Unused \in Entries /\ Unused.state # "ASKING" /\ Unused.state # "DONE"
    BY UnusedType DEF Unused
  <2> QED
    BY <1>0, <1>1, <2>1, <2>2, EndedInv
<1>3. CASE RecvAddress(from)
  <2>1. PICK ttl \in 0 .. MaxTtl : Outcome(Found(entry, ttl))
    BY <1>3 DEF RecvAddress
  <2>2. /\ entry' = IF ttl = 0 THEN Unused
                    ELSE [entry EXCEPT !.state = "DONE", !.ttl = ttl]
        /\ asked' = asked /\ app' = "DNS_IP_OBTAINED" /\ result' = "found"
    BY <2>1 DEF Outcome, Found
  <2>3. CASE ttl = 0
    <3>1. Unused \in Entries /\ Unused.state # "ASKING" /\ Unused.state # "DONE"
      BY UnusedType DEF Unused
    <3> QED
      BY <1>0, <1>1, <2>2, <2>3, <3>1, EndedInv
  <2>4. CASE ttl # 0
    <3>1. entry' \in Entries /\ entry'.state = "DONE" /\ entry'.ttl = ttl
      BY <1>1, <2>2, <2>4 DEF Entries
    <3> QED
      BY <1>0, <1>1, <2>2, <2>4, <3>1, EndedInv
  <2> QED
    BY <2>3, <2>4
<1>4. CASE RecvEmpty(from)
  BY <1>2, <1>4 DEF RecvEmpty
<1>5. CASE RecvError(from)
  <2> DEFINE e == [entry EXCEPT !.retries = MaxRetries - 1, !.tmr = 1]
  <2>1. CASE ~BackupAvailable(entry, servers)
    BY <1>2, <1>5, <2>1 DEF RecvError
  <2>2. CASE BackupAvailable(entry, servers)
    <3>1. Outcome(CheckAsking(e, servers))
      BY <1>5, <2>2 DEF RecvError
    <3>2. e.idx = entry.idx /\ e.retries = MaxRetries - 1 /\ e.tmr = 1
          /\ e.state = "ASKING"
      BY <1>0, <1>1 DEF Entries
    <3>3. Asking(e)
      <4>1. 1 \in 0 .. MaxRetries /\ MaxRetries - 1 \in 0 .. MaxRetries - 1
        BY ServerAssumption
      <4>2. e \in Entries
        BY <1>1, <4>1 DEF Entries
      <4>3. 1 <= IF MaxRetries - 1 = 0 THEN 1 ELSE MaxRetries - 1
        BY ServerAssumption
      <4> QED
        BY <3>2, <4>2, <4>3 DEF Asking
    <3> HIDE DEF e
    <3>4. Used(entry) \in Nat /\ Used(entry) < PerServer
      BY <1>0, EntryAsking, UsedBound DEF Asking
    <3>5. Used(e) = PerServer - 1
      <4>1. MaxRetries - 1 \in Nat /\ MaxRetries - 1 + 1 = MaxRetries
        BY ServerAssumption
      <4>2. Tri(MaxRetries) = Tri(MaxRetries - 1) + (MaxRetries - 1)
            /\ Tri(MaxRetries - 1) \in Int
        BY <4>1, TriStep
      <4>3. CASE MaxRetries = 1
        <5>1. Tri(0) = 0
          BY DEF Tri
        <5> QED
          BY <3>2, <4>2, <4>3, <5>1 DEF Used, PerServer
      <4>4. CASE MaxRetries # 1
        BY <3>2, <4>1, <4>2, <4>4 DEF Used, PerServer
      <4> QED
        BY <4>3, <4>4
    <3>6. entry.idx * PerServer \in Nat
      <4>1. entry.idx \in Nat
        BY <1>1 DEF Entries, Idx
      <4> QED
        BY <4>1, ServersStep
    <3>7. waited <= e.idx * PerServer + Used(e)
      BY <1>0, <1>1, <3>2, <3>4, <3>5, <3>6, EntryAsking, PerServerType
    <3> QED
      BY <1>0, <3>1, <3>3, <3>7, CheckInv
  <2> QED
    BY <2>1, <2>2
<1> QED
  BY <1>3, <1>4, <1>5

\* Every step preserves the inductive invariant.
LEMMA StepInv == IInv /\ [Next]_vars => IInv'
<1> SUFFICES ASSUME IInv, [Next]_vars PROVE IInv'
  OBVIOUS
<1>1. CASE Tmr
  <2>1. /\ entry.state = "ASKING" /\ UNCHANGED <<servers, lease>>
        /\ Outcome(CheckAsking(entry, servers))
        /\ waited' \in {waited, waited + 1}
    BY <1>1 DEF Tmr
  <2> QED
    BY <2>1, EntryAsking, CheckInv
<1>2. CASE Expire
  <2>1. entry.state = "DONE" /\ entry.ttl \in 1 .. MaxTtl /\ entry \in Entries
    BY <1>2 DEF Expire, IInv, TypeOK, AskInv, Entries
  <2>2. UNCHANGED <<servers, asked, lease, app, result, waited>>
    BY <1>2 DEF Expire
  <2>3. CASE entry.ttl - 1 = 0
    <3>1. entry' = Unused /\ Unused.state = "UNUSED"
      BY <1>2, <2>3 DEF Expire, Unused
    <3> QED
      BY <2>1, <2>2, <3>1, UnusedType DEF IInv, TypeOK, AskInv, WaitInv, GivesUp, Entries
  <2>4. CASE entry.ttl - 1 # 0
    <3>0. entry' = [entry EXCEPT !.ttl = @ - 1]
      BY <1>2, <2>4 DEF Expire
    <3>1. entry.ttl - 1 \in 1 .. MaxTtl /\ entry.ttl - 1 \in 0 .. MaxTtl
      BY <2>1, <2>4, ServerAssumption
    <3>2. /\ entry' \in Entries /\ entry'.state = "DONE" /\ entry'.ttl # 0
      BY <2>1, <3>0, <3>1 DEF Entries
    <3> QED
      BY <2>1, <2>2, <3>2 DEF IInv, TypeOK, AskInv, WaitInv, GivesUp, Entries
  <2> QED
    BY <2>3, <2>4
<1>3. CASE UNCHANGED vars
  BY <1>3 DEF vars, IInv, TypeOK, AskInv, WaitInv, GivesUp, Used
<1> QED
  BY <1>1, <1>2, <1>3, DhcpAckInv, AskKeepsInv, RecvInv DEF Next

-----------------------------------------------------------------------------
(* The theorems.                                                           *)

\* The inductive invariant holds in every reachable state.
THEOREM Invariance == Spec => []IInv
  BY InitInv, StepInv, PTL DEF Spec

\* The resolver's variables keep their ranges; the u8_t timer of a query that
\* is under way is never zero, from where it would wrap.
THEOREM TypeCorrect == Spec => []TypeOK
  BY Invariance, PTL DEF IInv

\* However servers are silent, report errors or are replaced by a renewed
\* lease, a query ends within PerServer calls of dns_tmr for each server.
THEOREM QueryGivesUp == Spec => []GivesUp
  BY Invariance, PTL DEF IInv

\* The application is told once, and only while it waits: no late or repeated
\* answer reaches ipObtained, and none is overwritten by main().
THEOREM ImplementsLookup == Spec => Abstract!SafeSpec
<1>1. Init => Abstract!Init
  BY DEF Init, Abstract!Init, LookupPhase
<1>2. IInv /\ IInv' /\ [Next]_vars => [Abstract!Next]_LookupPhase
  <2> SUFFICES ASSUME IInv, IInv', [Next]_vars
               PROVE  Abstract!Next \/ UNCHANGED LookupPhase
    OBVIOUS
  <2>1. CASE UNCHANGED <<app, result>>
    BY <2>1 DEF LookupPhase
  <2>2. CASE Ask
    BY <2>2, AskStep DEF LookupPhase, Abstract!Next, Abstract!Ask
  <2>3. CASE entry.state = "ASKING" /\ app' = "DNS_IP_OBTAINED"
    <3>1. app = "DHCP_IP_RECEIVED"
      BY <2>3 DEF IInv, AskInv
    <3>2. result' \in {"found", "failed"}
      BY <2>3 DEF IInv, AskInv, TypeOK
    <3> QED
      BY <2>3, <3>1, <3>2 DEF LookupPhase, Abstract!Next, Abstract!Answer
  <2>4. \A outcomes : Outcome(outcomes) =>
          app' = "DNS_IP_OBTAINED" \/ UNCHANGED <<app, result>>
    BY DEF Outcome
  <2> QED
    BY <2>1, <2>2, <2>3, <2>4 DEF Next, vars, DhcpAck, Tmr, Expire, Recv,
       RecvAddress, RecvEmpty, RecvError, Answers
<1> QED
  BY <1>1, <1>2, Invariance, PTL DEF Spec, Abstract!SafeSpec
=============================================================================
