----------------------------- MODULE MCTimeouts -----------------------------
(***************************************************************************)
(* Small instances of Timeouts.  The unit of time is 250 ms; the two long  *)
(* intervals (60 s and 5 s) are shortened.                                 *)
(***************************************************************************)
EXTENDS Timeouts

MCInterval ==
  [h \in Timers |-> CASE h = "tcp" -> 1 [] h = "fine" -> 2
                      [] h = "mqtt" -> 3 [] OTHER -> 4]
NoCounters == <<>>
DnsOnly == <<"dns">>
MCThreshold == [c \in Counters |-> 2]
MCWidth == [c \in Counters |-> 8]
=============================================================================
