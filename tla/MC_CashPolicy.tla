--------------------------- MODULE MC_CashPolicy ---------------------------
(* Small instances of CashPolicy for TLC. *)
EXTENDS CashPolicy, TLC

CONSTANTS d1, d2, w1, w2, b1, s1

\* The second deposit is the larger one; the second withdrawal and the notional
\* of the sell are for less than nothing.
MCAmount ==
  [x \in Requests \cup Sales |-> IF x = d2 THEN 2 ELSE IF x \in {w2, s1} THEN -1 ELSE 1]
MCQuantity == [b \in Buys |-> 1]
MCProceeds == [s \in Sales |-> 2]
=============================================================================
