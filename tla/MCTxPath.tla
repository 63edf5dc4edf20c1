------------------------------ MODULE MCTxPath ------------------------------
(* Instances of TxPath: the pbuf chains lwIP sends.                        *)
EXTENDS TxPath

\* up to three pbufs of up to three bytes
SmallChains == UNION {[1 .. n -> 1 .. 3] : n \in 1 .. 3}

\* a full Ethernet frame of 1514 bytes with its headers in a pbuf of their
\* own, and a short one
FullChains == {<<42>>, <<34, 1480>>}
=============================================================================
