--------------------------- MODULE MC_Onboarding ---------------------------
(* Two workers, two sessions with a cap of two attempts, one of each fault. *)
EXTENDS Onboarding

=============================================================================
