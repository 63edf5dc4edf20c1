------------------------------- MODULE Lookup -------------------------------
(***************************************************************************)
(* What the application relies on when it asks for the broker's address    *)
(* (main.c, START_UP): it asks once, it is told once, and it is told.      *)
(***************************************************************************)
VARIABLE phase   \* "idle", "pending", "found" or "failed"

Init == phase = "idle"

\* The name is asked for.
Ask == phase = "idle" /\ phase' = "pending"

\* The callback is called, with an address or without.
Answer == phase = "pending" /\ phase' \in {"found", "failed"}

Next == Ask \/ Answer

\* The safety part: one question, at most one answer to it.
SafeSpec == Init /\ [][Next]_phase

\* An answer comes however many messages are lost.
Spec == SafeSpec /\ WF_phase(Answer)
=============================================================================
