-------------------------------- MODULE Money --------------------------------
(* core/money.py: Money, Units and Price as whole numbers of their own quantum.
   A price tick times a unit tick is 1/Scale of a money quantum (10^8 in the
   code: 10^-6 * 10^-6 against 10^-4), so that one constant carries the three
   cross-dimension operations.  Every result is rounded half to even.       *)
EXTENDS Integers, Sequences, FiniteSets, Functions

CONSTANT Scale

ASSUME ScaleAssumption == Scale \in Nat \ {0}

\* _QuantizedDecimal.__init__: n/d to the nearest whole number, ties to even.
Quantize(n, d) ==
  LET down == n \div d
      twice == 2 * (n % d)
  IN IF twice < d \/ (twice = d /\ down % 2 = 0) THEN down ELSE down + 1

\* Price * Units -> Money
Times(price, units) == Quantize(price * units, Scale)

\* Money / Units -> Price
PerUnit(money, units) == Quantize(money * Scale, units)

\* Money / Price -> Units
UnitsFor(money, price) == Quantize(money * Scale, price)

SumOver(f, S) == FoldFunctionOnSet(+, 0, f, S)

\* allocate: largest remainder, the lower index first; a negative amount is
\* split as its magnitude.
Allocate(amount, weights) ==
  LET total == SumOver(weights, DOMAIN weights)
      magnitude == IF amount < 0 THEN -amount ELSE amount
      sign == IF amount < 0 THEN -1 ELSE 1
      base == [i \in DOMAIN weights |-> (magnitude * weights[i]) \div total]
      remainder == [i \in DOMAIN weights |-> (magnitude * weights[i]) % total]
      leftover == magnitude - SumOver(base, DOMAIN weights)
      ahead(i) == {j \in DOMAIN weights :
                     \/ remainder[j] > remainder[i]
                     \/ remainder[j] = remainder[i] /\ j < i}
  IN [i \in DOMAIN weights |->
        sign * (base[i] + IF Cardinality(ahead(i)) < leftover THEN 1 ELSE 0)]
=============================================================================
