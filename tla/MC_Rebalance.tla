---------------------------- MODULE MC_Rebalance ----------------------------
(* Two customers, two securities, a model that spreads and one that drops a security. *)
(* The book is all in B; what is read of cash is short, just enough or plenty.         *)
EXTENDS Rebalance

CONSTANTS A, B, half, only

MCRanked == <<A, B>>
MCWeights == half :> (A :> 2 @@ B :> 2) @@ only :> (A :> 4 @@ B :> 0)
MCBand == <<1, 20>>
MCBuffer == <<1, 5>>
MCBooks == {A :> 0 @@ B :> 7}
MCCashReads == {-4, 4, 8}
MCWanted == [side : {"buy"}, quantity : {8, -8}, price : {1}]
            \cup [side : {"sell"}, quantity : {8}, price : {1}]
MCPeriod == [d \in MarketDates |-> 1]
Symmetry == Permutations(Customers)
=============================================================================
