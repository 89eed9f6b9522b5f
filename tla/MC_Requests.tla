---------------------------- MODULE MC_Requests ----------------------------
(* Two workers and three keys.  Two requests share k3 with different bodies.
   Two timestamps for three rows, so that rows share one.                    *)
EXTENDS Requests

MCSent ==
  {[kind |-> "deposit", key |-> "k1", body |-> "b1"],
   [kind |-> "withdrawal", key |-> "k2", body |-> "b1"],
   [kind |-> "deposit", key |-> "k3", body |-> "b1"],
   [kind |-> "order", key |-> "k3", body |-> "b2"]}

Symmetry == Permutations(Workers)
=============================================================================
