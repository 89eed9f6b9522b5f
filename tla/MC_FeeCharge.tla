---------------------------- MODULE MC_FeeCharge ----------------------------
(* Small instances of FeeCharge for TLC.  Charges do not interact; two of them
   let one be resolved while the other is not.                              *)
EXTENDS FeeCharge

CONSTANTS c1, c2
=============================================================================
