------------------------------- MODULE MC_Lots -------------------------------
(* Two buy fills and two sell fills in any order and overlap, with a split or a
   dividend between them.  Scale 2 makes half a money quantum the usual case;
   the fills are cheap or dear, and inside or outside the window of one day. *)
EXTENDS Lots, TLC

Report(q, p, d) == [quantity |-> q, price |-> p, day |-> d]

MCReports ==
  (1 :> {Report(3, 3, 1)}) @@
  (2 :> {Report(1, 1, 2), Report(1, 3, 4)}) @@
  (3 :> {Report(3, 1, 2)}) @@
  (4 :> {Report(1, 1, 1), Report(1, 5, 4)})

\* Two for one, and three for two.
MCRatios == {<<2, 1>>, <<3, 2>>}

\* Money.allocate over bounded inputs, against what its docstring promises: the
\* parts sum to the amount, none is a quantum or more away from its exact share,
\* and a negative amount is split like its magnitude.
ASSUME AllocateIsExact ==
  \A amount \in -6 .. 6 : \A w \in [1 .. 3 -> 0 .. 3] :
    LET total == SumOver(w, 1 .. 3)
        part == Allocate(amount, w)
        magnitude == IF amount < 0 THEN -amount ELSE amount
    IN total > 0 =>
         /\ SumOver(part, 1 .. 3) = amount
         /\ \A i \in 1 .. 3 : part[i] * total - amount * w[i] \in -(total - 1) .. total - 1
         /\ part = [i \in 1 .. 3 |-> (IF amount < 0 THEN -1 ELSE 1) * Allocate(magnitude, w)[i]]
=============================================================================
