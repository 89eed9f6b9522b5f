----------------------------- MODULE MC_Outbox -----------------------------
(* Small instances of Outbox for TLC. *)
EXTENDS Outbox, TLC

CONSTANTS e1, n1, t1, w1, w2

\* Two containers, both running their worker as the same pid.
MCWorkerId == [w \in Workers |-> "outbox-worker-1"]
=============================================================================
