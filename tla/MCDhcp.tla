------------------------------- MODULE MCDhcp -------------------------------
(* Instances of Dhcp: the times the servers' ACKs give.                    *)
EXTENDS Dhcp

Given(t, renewal, rebinding) == [t0 |-> t, t1 |-> renewal, t2 |-> rebinding]
Plain(t) == Given(t, NotGiven, NotGiven)

\* a lease under a period, two ordinary ones, one whose times are given with
\* renewal after rebinding; one too long for the timer, 7 times which is more
\* than a word; one that rounds up to a word, and so to nothing
FiniteAcks == {Plain(2), Plain(16), Plain(32), Given(24, 20, 12),
               Plain(80), Plain(254)}

\* one ordinary lease
OrdinaryAcks == {Plain(32)}

\* a lease that ends, and one that does not but is to be renewed
EndlessAcks == {Plain(16), Given(Infinite, 8, 16)}

\* 7 times this is just more than a word
OverflowAcks == {Plain(37)}
=============================================================================
