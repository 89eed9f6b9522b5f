--------------------------- MODULE MC_Performance ---------------------------
(* Three days, one deposit on any of them, two transactions at a time among
   four; prices double or halve.                                           *)
EXTENDS Performance

MCQueries == {<<0, 1>>}
Symmetry == Permutations(Slots)
=============================================================================
