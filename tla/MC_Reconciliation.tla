------------------------- MODULE MC_Reconciliation -------------------------
(* One customer, a fill and a deposit that settles later, a tampered quantity, a     *)
(* dividend the books do not know; a holiday and a trading day, the job run twice.  *)
EXTENDS Reconciliation

CONSTANT c1

Entry(c, d, u, m, o, s) ==
    [customer |-> c, date |-> d, units |-> u, cash |-> m, observable |-> o, settles |-> s]

MCEntries == {Entry(c1, 1, 1, -1, TRUE, FALSE),   \* a buy fill
              Entry(c1, 2, 0, 2, TRUE, TRUE)}     \* a deposit

Symmetry == Permutations(Processes) \cup Permutations(Staff)

MCPeriod == [d \in MarketDates |-> d]
=============================================================================
