-------------------------------- MODULE Dns --------------------------------
(***************************************************************************)
(* lwIP's DNS resolver (lwip-2.2.1/src/core/dns.c) as the firmware uses it:*)
(* one query, made by main() when it has an address, with the servers of   *)
(* the DHCP lease but 8.8.8.8 for the first.  Every message may be lost,   *)
(* late or repeated, memory for a query may be short, and a renewed lease  *)
(* may change the servers while the query is under way.                    *)
(***************************************************************************)
EXTENDS Naturals, FiniteSets

CONSTANTS
  MaxServers,   \* DNS_MAX_SERVERS
  MaxRetries,   \* DNS_MAX_RETRIES
  MaxTtl,       \* DNS_MAX_TTL, in calls of dns_tmr
  Addresses,    \* addresses of name servers
  Google        \* 8.8.8.8

Any == "0.0.0.0"

ASSUME ServerAssumption ==
  /\ MaxServers \in Nat \ {0} /\ MaxTtl \in Nat
  /\ MaxRetries \in 1 .. 255     \* retries is a u8_t
  /\ Google \in Addresses /\ Any \notin Addresses

VARIABLES
  servers,    \* dns_servers
  entry,      \* the query's entry in dns_table
  asked,      \* servers the query was sent to: they may answer, at any time
  lease,      \* dhcp_supplied_address
  app,        \* myConn
  result,     \* what ipObtained was called with
  waited      \* ghost: calls of dns_tmr since the query was made

vars == <<servers, entry, asked, lease, app, result, waited>>

Idx == 0 .. MaxServers - 1

Unused == [state |-> "UNUSED", idx |-> 0, tmr |-> 0, retries |-> 0, ttl |-> 0]

\* The n-th retry waits for n calls of dns_tmr: how many the first n - 1 take
Tri(n) == (n * (n - 1)) \div 2

\* calls of dns_tmr after which a server that is silent is given up
PerServer == 1 + Tri(MaxRetries)

-----------------------------------------------------------------------------
(* A function of the resolver maps an entry to the set of its outcomes: the*)
(* entry, who was asked and what the callback was called with, if it was.  *)

\* dns_call_found without an address, and the entry is flushed
Failed == {[entry |-> Unused, asked |-> asked, found |-> "failed"]}

\* dns_send: a server that is not valid any more ends the query; without
\* memory nothing is sent
Send(e, srv) ==
  IF srv[e.idx] = Any THEN Failed
  ELSE {[entry |-> e, asked |-> a, found |-> "none"] :
          a \in {asked, asked \cup {srv[e.idx]}}}

\* dns_backupserver_available
BackupAvailable(e, srv) == e.idx + 1 \in Idx /\ srv[e.idx + 1] # Any

\* dns_check_entry, state NEW
CheckNew(srv) ==
  Send([Unused EXCEPT !.state = "ASKING", !.tmr = 1], srv)

\* Mutants: the next server is the same one; the n-th retry waits one call
\* less, so that the first one starts from zero
CheckAskingSameServer(e, srv) ==
  LET e1 == [e EXCEPT !.tmr = (@ + 255) % 256]
      e2 == [e1 EXCEPT !.retries = @ + 1]
  IN  IF e1.tmr # 0 THEN {[entry |-> e1, asked |-> asked, found |-> "none"]}
      ELSE IF e2.retries # MaxRetries
      THEN Send([e2 EXCEPT !.tmr = e2.retries], srv)
      ELSE IF BackupAvailable(e, srv)
      THEN Send([e2 EXCEPT !.tmr = 1, !.retries = 0], srv)
      ELSE Failed
CheckAskingFromZero(e, srv) ==
  LET e1 == [e EXCEPT !.tmr = (@ + 255) % 256]
      e2 == [e1 EXCEPT !.retries = @ + 1]
  IN  IF e1.tmr # 0 THEN {[entry |-> e1, asked |-> asked, found |-> "none"]}
      ELSE IF e2.retries # MaxRetries
      THEN Send([e2 EXCEPT !.tmr = e2.retries - 1], srv)
      ELSE IF BackupAvailable(e, srv)
      THEN Send([e2 EXCEPT !.idx = @ + 1, !.tmr = 1, !.retries = 0], srv)
      ELSE Failed

\* dns_check_entry, state ASKING: when the timer is zero the query is sent
\* again, to the next server after MaxRetries times; without one it fails.
\* The timer is a u8_t.
CheckAsking(e, srv) ==
  LET e1 == [e EXCEPT !.tmr = (@ + 255) % 256]
      e2 == [e1 EXCEPT !.retries = @ + 1]
  IN  IF e1.tmr # 0 THEN {[entry |-> e1, asked |-> asked, found |-> "none"]}
      ELSE IF e2.retries # MaxRetries
      THEN Send([e2 EXCEPT !.tmr = e2.retries], srv)
      ELSE IF BackupAvailable(e, srv)
      THEN Send([e2 EXCEPT !.idx = @ + 1, !.tmr = 1, !.retries = 0], srv)
      ELSE Failed

\* dns_correct_response
Found(e, ttl) ==
  {[entry |-> IF ttl = 0 THEN Unused ELSE [e EXCEPT !.state = "DONE", !.ttl = ttl],
    asked |-> asked, found |-> "found"]}

\* the outcome of a resolver function called from lwIP, ipObtained included
Outcome(outcomes) ==
  \E o \in outcomes :
    /\ entry' = o.entry
    /\ asked' = o.asked
    /\ IF o.found = "none" THEN UNCHANGED <<app, result>>
       ELSE app' = "DNS_IP_OBTAINED" /\ result' = o.found

-----------------------------------------------------------------------------
Init ==
  /\ servers = [i \in Idx |-> Any]
  /\ entry = Unused /\ asked = {}
  /\ lease = FALSE /\ app = "START_UP" /\ result = "none"
  /\ waited = 0

\* dhcp_handle_ack: the servers the lease names replace the first ones
DhcpAck ==
  /\ \E n \in 0 .. MaxServers :
       \E given \in [0 .. n - 1 -> Addresses \cup {Any}] :
         servers' = [i \in Idx |-> IF i < n THEN given[i] ELSE servers[i]]
  /\ lease' = TRUE
  /\ UNCHANGED <<entry, asked, app, result, waited>>

\* The application asks with the servers srv.  What ipObtained does to myConn
\* inside dns_gethostbyname would be overwritten by main().
AskWith(srv) ==
  /\ app = "START_UP" /\ lease
  /\ servers' = srv
  /\ IF srv[0] = Any
     THEN UNCHANGED <<entry, asked, result>>
     ELSE \E o \in CheckNew(srv) :
            /\ entry' = o.entry /\ asked' = o.asked /\ result' = o.found
  /\ app' = "DHCP_IP_RECEIVED"
  /\ UNCHANGED <<lease, waited>>

\* Mutant: the lease's servers are used as they are
AskLeaseServers == AskWith(servers)

\* main(), START_UP: dns_setserver, dns_gethostbyname (with an error when no
\* server is set)
Ask == AskWith([servers EXCEPT ![0] = Google])

\* dns_tmr, state ASKING
Tmr ==
  /\ entry.state = "ASKING"
  /\ waited' = IF waited > MaxServers * PerServer THEN waited ELSE waited + 1
  /\ Outcome(CheckAsking(entry, servers))
  /\ UNCHANGED <<servers, lease>>

\* dns_tmr, state DONE
Expire ==
  /\ entry.state = "DONE"
  /\ entry' = IF entry.ttl - 1 = 0 THEN Unused ELSE [entry EXCEPT !.ttl = @ - 1]
  /\ UNCHANGED <<servers, asked, lease, app, result, waited>>

\* dns_recv: an answer counts if it comes from the server that is being asked
Answers(from) == entry.state = "ASKING" /\ servers[entry.idx] = from

\* dns_recv: the name's address
RecvAddress(from) ==
  /\ Answers(from)
  /\ \E ttl \in 0 .. MaxTtl : Outcome(Found(entry, ttl))
  /\ UNCHANGED <<servers, lease, waited>>

\* dns_recv: an answer without an address in it
RecvEmpty(from) ==
  /\ Answers(from)
  /\ Outcome(Failed)
  /\ UNCHANGED <<servers, lease, waited>>

\* dns_recv: an error; the next server is tried at once if there is one
RecvError(from) ==
  /\ Answers(from)
  /\ Outcome(IF BackupAvailable(entry, servers)
             THEN CheckAsking([entry EXCEPT !.retries = MaxRetries - 1,
                                            !.tmr = 1], servers)
             ELSE Failed)
  /\ UNCHANGED <<servers, lease, waited>>

Recv == \E from \in asked :
          RecvAddress(from) \/ RecvEmpty(from) \/ RecvError(from)

Next == DhcpAck \/ Ask \/ Tmr \/ Expire \/ Recv

Spec == Init /\ [][Next]_vars

\* main() and lwIP's own timers call dns_tmr; nothing is promised of servers
FairSpec == Spec /\ WF_vars(Tmr)

-----------------------------------------------------------------------------
(* Properties.                                                             *)

\* The range of every variable; the timer of a query that is under way is
\* never zero, from where it would wrap.
TypeOK ==
  /\ servers \in [Idx -> Addresses \cup {Any}]
  /\ entry \in [state : {"UNUSED", "ASKING", "DONE"}, idx : Idx,
                tmr : 0 .. MaxRetries, retries : 0 .. MaxRetries - 1,
                ttl : 0 .. MaxTtl]
  /\ entry.state = "ASKING" => entry.tmr # 0
  /\ asked \subseteq Addresses
  /\ lease \in BOOLEAN
  /\ app \in {"START_UP", "DHCP_IP_RECEIVED", "DNS_IP_OBTAINED"}
  /\ result \in {"none", "found", "failed"}
  /\ waited \in Nat

\* A query is given up after PerServer calls of dns_tmr for each server at
\* the latest, although errors move it on early and renewed leases change the
\* servers under it.
GivesUp == waited <= MaxServers * PerServer

\* dns.c:1543 "a callback function to be called on success, failure or timeout":
\* the application asks once and is told once, even if every message is lost;
\* what it is told is not overwritten by main() going to DHCP_IP_RECEIVED.
LookupPhase ==
  IF app = "START_UP" THEN "idle"
  ELSE IF app = "DHCP_IP_RECEIVED" THEN "pending" ELSE result
Abstract == INSTANCE Lookup WITH phase <- LookupPhase
RefinesLookup == Abstract!Spec

-----------------------------------------------------------------------------
(* The inductive invariant behind them.                                    *)

\* The application waits exactly as long as the query is under way.
AskInv ==
  /\ app = "DHCP_IP_RECEIVED" <=> entry.state = "ASKING"
  /\ app = "START_UP" => waited = 0
  /\ app = "DNS_IP_OBTAINED" => result # "none"
  /\ entry.state = "DONE" => entry.ttl # 0

\* Calls of dns_tmr that the server being asked has had
Used(e) == IF e.retries = 0 THEN 0 ELSE 1 + Tri(e.retries) + e.retries - e.tmr

\* What a query has waited is at most what the servers before this one may
\* take and what this one has had.
WaitInv ==
  entry.state = "ASKING" =>
    /\ entry.tmr <= IF entry.retries = 0 THEN 1 ELSE entry.retries
    /\ waited <= entry.idx * PerServer + Used(entry)

IInv == TypeOK /\ AskInv /\ WaitInv /\ GivesUp
=============================================================================
