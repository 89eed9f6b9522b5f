--------------------------- MODULE MC_StaffReview ---------------------------
(* Two browsers shared by one staff member and two customers, one of whom
   registers with the email of the staff member, and two proposals.         *)
EXTENDS StaffReview, TLC

CONSTANTS s1, c1, c2

MCEmailOf == (s1 :> "work") @@ (c1 :> "home") @@ (c2 :> "work")

Symmetry == Permutations(Browsers) \cup Permutations(Requests)
=============================================================================
