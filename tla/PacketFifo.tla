----------------------------- MODULE PacketFifo -----------------------------
(***************************************************************************)
(* What the receive path promises: frames come out in the order in which   *)
(* the chip accepted them, whole, each once; a frame too long for the      *)
(* driver is dropped at its turn without disturbing the others.            *)
(***************************************************************************)
EXTENDS Naturals, Sequences

CONSTANTS
  Packet,      \* the frames, as records with a field len
  RejectLen,   \* the driver refuses frames of this length and longer
  Nothing      \* no frame

VARIABLES
  queue,       \* accepted by the chip, not yet taken
  out          \* the frame the driver last handed over, or Nothing

vars == <<queue, out>>

Init == queue = <<>> /\ out = Nothing

Arrive ==
  /\ \E p \in Packet : queue' = Append(queue, p)
  /\ UNCHANGED out

Take ==
  /\ queue # <<>>
  /\ out' = IF Head(queue).len >= RejectLen THEN Nothing ELSE Head(queue)
  /\ queue' = Tail(queue)

Next == Arrive \/ Take

Spec == Init /\ [][Next]_vars
=============================================================================
