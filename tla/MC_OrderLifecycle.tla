------------------------- MODULE MC_OrderLifecycle -------------------------
(* Small instances of OrderLifecycle for TLC: one order, or two. *)
EXTENDS OrderLifecycle

CONSTANTS o1, o2
=============================================================================
