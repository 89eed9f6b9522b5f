-------------------------- MODULE PortfolioProofs --------------------------
(* Machine-checked proofs about Lots, for any number of fills, reports, splits,
   dividends and rolled back transactions, and any unit of rounding; and about
   Performance, for any number of transactions, restatements and days.

   Lots.  Two sells never hold one lot and two buys never one loss, so what a
   fill read when it began or scanned is still so when it commits.  From it
   follow the oldest lots first, the wash sales found from either side, and that
   the ledger, the lots, the settlement obligations and the summary shown to the
   customer agree.

   Performance.  Every transaction that is open when a statement is published
   is stamped after the statement's watermark or is among those it overlapped,
   so no row that is written later changes it unnoticed; and the gains of the
   accruals add up to the rise of the high-water mark.                       *)
EXTENDS Lots, Performance, Sums

-----------------------------------------------------------------------------
\* Amounts

\* The sums of the model are those of Sums.
LEMMA SumIsTotal ==
  ASSUME NEW f, NEW S
  PROVE  SumOver(f, S) = Total(f, S)
<1>1. SumOver(f, S) = Iter(f, S)[S]
  BY DEF SumOver, FoldFunctionOnSet, MapThenFoldSet, Iter, AddsUp, First
<1> QED BY <1>1, TotalUnfolds

\* Rounded amounts are whole numbers of their quantum.
LEMMA QuantizeInt ==
  ASSUME NEW n \in Int, NEW d \in Nat \ {0}
  PROVE  Quantize(n, d) \in Int
<1>1. n \div d \in Int /\ n % d \in Int
  OBVIOUS
<1> QED BY <1>1 DEF Quantize

\* Rounding to the nearest is off by half a quantum at most.
LEMMA QuantizeNear ==
  ASSUME NEW n \in Int, NEW d \in Nat \ {0}
  PROVE  -d <= 2 * (d * Quantize(n, d) - n) /\ 2 * (d * Quantize(n, d) - n) <= d
<1> DEFINE k == n \div d
           m == n % d
<1>1. k \in Int /\ m \in Int /\ n = d * k + m /\ 0 <= m /\ m < d
  OBVIOUS
<1>2. Quantize(n, d) = IF 2 * m < d \/ (2 * m = d /\ k % 2 = 0) THEN k ELSE k + 1
  BY DEF Quantize
<1> HIDE DEF k, m
<1>3. CASE Quantize(n, d) = k /\ 2 * m <= d
  BY <1>1, <1>3
<1>4. CASE Quantize(n, d) = k + 1 /\ 2 * m >= d
  <2>1. d * (k + 1) = d * k + d
    BY <1>1
  <2> QED BY <1>1, <1>4, <2>1
<1> QED BY <1>1, <1>2, <1>3, <1>4

\* A factor is cancelled.
LEMMA Cancel ==
  ASSUME NEW a \in Int, NEW b \in Int, NEW d \in Nat \ {0}, d * a <= d * b
  PROVE  a <= b
<1> SUFFICES ASSUME a >= b + 1 PROVE FALSE
  OBVIOUS
<1>1. PICK c \in Nat : a = b + 1 + c
  <2>1. a - b - 1 \in Nat /\ a = b + 1 + (a - b - 1)
    OBVIOUS
  <2> QED BY <2>1
<1>2. d * a = d * b + d + d * c
  BY <1>1
<1>3. d * c \in Nat /\ d * b \in Int
  OBVIOUS
<1> QED BY <1>2, <1>3

\* Whole numbers are not rounded, and a positive one times more than 1 stays
\* positive.
LEMMA QuantizeWhole ==
  ASSUME NEW n \in Int
  PROVE  Quantize(n, 1) = n
<1>1. Quantize(n, 1) \in Int
  BY QuantizeInt
<1>2. -1 <= 2 * (1 * Quantize(n, 1) - n) /\ 2 * (1 * Quantize(n, 1) - n) <= 1
  BY QuantizeNear
<1> QED BY <1>1, <1>2

\* A price times a quantity is an amount ...
LEMMA TimesInt ==
  ASSUME NEW p \in Int, NEW u \in Int
  PROVE  Times(p, u) \in Int
<1>1. p * u \in Int /\ Scale \in Nat \ {0}
  BY ScaleAssumption
<1> QED BY <1>1, QuantizeInt DEF Times

\* ... and an amount per unit is a price.
LEMMA PerUnitInt ==
  ASSUME NEW m \in Int, NEW u \in Nat \ {0}
  PROVE  PerUnit(m, u) \in Int
<1>1. m * Scale \in Int
  BY ScaleAssumption
<1> QED BY <1>1, QuantizeInt DEF PerUnit

\* Nothing has no value, at any price.
LEMMA TimesNothing ==
  ASSUME NEW p \in Int
  PROVE  Times(p, 0) = 0
<1>1. p * 0 = 0
  OBVIOUS
<1>2. 0 \div Scale = 0 /\ 0 % Scale = 0 /\ 2 * 0 < Scale
  BY ScaleAssumption
<1> QED BY <1>1, <1>2 DEF Times, Quantize

\* The first to come are served: 
LEMMA Greedy ==
  ASSUME NEW S, IsFiniteSet(S), NEW lt, InLine(lt, S), NEW q \in Nat,
         NEW r, \A x \in S : r[x] \in Nat,
         NEW t, \A x \in S : t[x] = AtMost(r[x], IF q - Total(r, LeftOf(lt, S, x)) < 0 THEN 0
                                           ELSE q - Total(r, LeftOf(lt, S, x)))
  PROVE  Total(t, S) = AtMost(q, Total(r, S))
<1> DEFINE B(n) == {x \in S : Place(lt, S, x) < n}
           N == {n \in Nat : n <= Cardinality(S) => Total(t, B(n)) = AtMost(q, Total(r, B(n)))}
<1>0. Cardinality(S) \in Nat
  BY FS_CardinalityType
<1>1. \A x \in S : Place(lt, S, x) \in 0 .. Cardinality(S) - 1
  BY PlaceGrows
<1>2. 0 \in N
  <2>1. B(0) = {}
    BY <1>0, <1>1
  <2> HIDE DEF B
  <2> QED BY <2>1, TotalEmpty DEF AtMost
<1>3. ASSUME NEW n \in N PROVE n + 1 \in N
  <2> SUFFICES ASSUME n + 1 <= Cardinality(S)
               PROVE  Total(t, B(n + 1)) = AtMost(q, Total(r, B(n + 1)))
    OBVIOUS
  <2>1. PICK x \in S : Place(lt, S, x) = n
    <3>1. n + 1 \in 1 .. Cardinality(S) /\ (n + 1) - 1 = n
      BY <1>0
    <3> HIDE DEF N
    <3>2. \E x \in S : Place(lt, S, x) = (n + 1) - 1
      BY <3>1, PlaceTaken
    <3> QED BY <3>1, <3>2
  <2>2. B(n + 1) = B(n) \cup {x} /\ x \notin B(n) /\ B(n) \subseteq S
    <3>1. \A y \in S : Place(lt, S, y) = n => y = x
      BY <2>1, PlaceOfOne
    <3>2. \A y \in S : Place(lt, S, y) \in Int
      BY <1>0, <1>1
    <3>3. n \in Int
      OBVIOUS
    <3> HIDE DEF N
    <3> QED BY <2>1, <3>1, <3>2, <3>3
  <2>3. LeftOf(lt, S, x) = B(n)
    <3>1. \A y \in S : <<y, x>> \in lt <=> Place(lt, S, y) < n
      BY <2>1, PlaceGrows
    <3> QED BY <3>1 DEF LeftOf
  <2>4. Total(t, B(n)) = AtMost(q, Total(r, B(n)))
    BY <1>0
  <2> DEFINE P == B(n)
  <2> HIDE DEF P, B, N
  <2>5. IsFiniteSet(B(n))
    BY <2>2, FS_Subset
  <2>6. Total(r, B(n)) \in Nat
    BY <2>2, <2>5, TotalNat
  <2>7. t[x] = AtMost(r[x], IF q - Total(r, B(n)) < 0 THEN 0 ELSE q - Total(r, B(n)))
    BY <2>3
  <2>8. \A y \in S : t[y] \in Int
    <3> SUFFICES ASSUME NEW y \in S PROVE t[y] \in Int
      OBVIOUS
    <3>1. LeftOf(lt, S, y) \subseteq S
      BY DEF LeftOf
    <3>2. Total(r, LeftOf(lt, S, y)) \in Nat
      BY <3>1, FS_Subset, TotalNat
    <3> QED BY <3>2 DEF AtMost
  <2>9. /\ Total(r, B(n) \cup {x}) = r[x] + Total(r, B(n))
        /\ Total(t, B(n) \cup {x}) = t[x] + Total(t, B(n))
    BY <2>2, <2>5, <2>8, TotalInsert
  <2>10. r[x] \in Nat
    OBVIOUS
  <2>11. /\ Total(r, B(n + 1)) = r[x] + Total(r, B(n))
         /\ Total(t, B(n + 1)) = t[x] + Total(t, B(n))
    BY <2>2, <2>9
  <2> QED BY <2>4, <2>6, <2>7, <2>10, <2>11 DEF AtMost
<1>4. N = Nat
  <2>1. N \subseteq Nat
    OBVIOUS
  <2> HIDE DEF N
  <2> QED BY <1>2, <1>3, <2>1, Induction
<1>5. B(Cardinality(S)) = S
  BY <1>0, <1>1
<1> HIDE DEF B
<1> QED BY <1>0, <1>4, <1>5

\* Sell orders and fills.
SaleRow == [status : {"none", "approved", "open", "filled"}, requested : Nat, filled : Nat,
            named : Seq(Nat)]
FillRow == [pc : Pcs, quantity : Nat, price : Nat, day : Nat, creates : SUBSET Roles,
            locked : SUBSET Buys, found : SUBSET (Nat \X Nat)]

\* The rows of a committed fill are there, and name each other.
Rows ==
  /\ DOMAIN lots \subseteq Buys
  /\ \A l \in DOMAIN lots : lots[l] \in TaxLot /\ fill[l].pc = "done"
  /\ DOMAIN consumed \subseteq Sells \X DOMAIN lots
  /\ \A k \in DOMAIN consumed : consumed[k] \in Consumption /\ fill[k[1]].pc = "done"
  /\ DOMAIN adjusted \subseteq DOMAIN consumed
  /\ \A k \in DOMAIN adjusted : adjusted[k] \in [lot : DOMAIN lots, amount : Int]

\* A fill holds locks only inside its transaction, and designated lots exist.
Asked ==
  /\ fill \in [Fills -> FillRow]
  /\ sale \in [Sells -> SaleRow]
  /\ \A f \in Fills : fill[f].pc # "none" => fill[f].day \in Days
  /\ \A f \in Fills : ~InTransaction(f) => fill[f].locked = {}
  /\ \A f \in Fills : fill[f].pc # "scanned" => fill[f].found = {}
  /\ \A s \in Sells : fill[s].pc # "none" => sale[s].status # "none"
  /\ \A s \in Sells : Named(s) \subseteq DOMAIN lots

\* The lots a sell has locked: those it draws on, and the replacements found.
Holds(s) == fill[s].locked \cup {p[2] : p \in fill[s].found}

\* A sell inside its transaction holds lots that cover it; once it has scanned it
\* has found at most one replacement for each lot it draws on.
SellLocks(s) ==
  /\ InTransaction(s) =>
       /\ fill[s].locked \subseteq DOMAIN lots
       /\ sale[s].named # <<>> => fill[s].locked = Named(s)
       /\ Remaining(fill[s].locked) >= fill[s].quantity
  /\ fill[s].found \subseteq Drawn(s) \X DOMAIN lots
  /\ \A p, q \in fill[s].found : p[1] = q[1] => p = q

\* No two sells hold one lot and no two buys one loss: what a fill has read under
\* its locks is still so when it commits.
Locks ==
  /\ \A s \in Sells : SellLocks(s)
  /\ \A s, t \in Sells : s # t => Holds(s) \cap Holds(t) = {}
  /\ \A b \in Buys : fill[b].found \subseteq DOMAIN consumed \ DOMAIN adjusted
  /\ \A a, b \in Buys : a # b => fill[a].found \cap fill[b].found = {}

\* A loss the scan of a sell left alone has no replacement but in an overlapping
\* transaction ...
SellScanned ==
  \A s \in Sells : fill[s].pc = "scanned" =>
    \A l \in Drawn(s) : Realized(s, l) < 0 /\ (\A p \in fill[s].found : p[1] # l) =>
      \A b \in DOMAIN lots \ {l} : InWindow(lots[b].day, fill[s].day) => {s, b} \in overlap

\* ... and a loss the scan of a buy left alone is out of its window, or overlaps.
BuyScanned ==
  \A b \in Buys : fill[b].pc = "scanned" =>
    \A k \in UnadjustedLosses(b) \ fill[b].found : {k[1], b} \in overlap

-----------------------------------------------------------------------------
\* What the operators of a sell give, on typed rows

\* There are finitely many lots.
LEMMA LotsFinite ==
  ASSUME Rows
  PROVE  /\ IsFiniteSet(DOMAIN lots)
         /\ \A ls \in SUBSET DOMAIN lots : IsFiniteSet(ls)
<1>1. DOMAIN lots \subseteq Buys /\ IsFiniteSet(Buys)
  BY LotsAssumption DEF Rows
<1> QED BY <1>1, FS_Subset

\* What is left in some lots is a sum, and a number.
LEMMA RemainingIsTotal ==
  ASSUME Rows, NEW r, r = [l \in DOMAIN lots |-> lots[l].remaining], NEW ls \in SUBSET DOMAIN lots
  PROVE  /\ Remaining(ls) = Total(r, ls)
         /\ Remaining(ls) \in Nat
         /\ \A l \in DOMAIN lots : r[l] \in Nat
<1>0. \A l \in DOMAIN lots : lots[l].remaining \in Nat
  BY DEF Rows, TaxLot
<1>1. IsFiniteSet(ls)
  BY LotsFinite
<1> DEFINE g == [l \in ls |-> lots[l].remaining]
<1>2. \A l \in ls : r[l] \in Int /\ g[l] = r[l]
  BY <1>0
<1>3. Remaining(ls) = Total(g, ls)
  BY SumIsTotal DEF Remaining
<1>4. Total(g, ls) = Total(r, ls)
  <2> HIDE DEF g
  <2> QED BY <1>1, <1>2, TotalSame
<1>5. Total(r, ls) \in Nat
  <2>1. \A l \in ls : r[l] \in Nat
    BY <1>0
  <2> QED BY <1>1, <2>1, TotalNat
<1>6. \A l \in DOMAIN lots : r[l] \in Nat
  BY <1>0
<1> QED BY <1>3, <1>4, <1>5, <1>6

\* The columns of a lot are numbers.
LEMMA LotNumbers ==
  ASSUME Rows, NEW x \in DOMAIN lots
  PROVE  lots[x].day \in Int /\ x \in Int /\ lots[x].remaining \in Nat /\ lots[x].basis \in Int
<1>1. lots[x] \in TaxLot /\ x \in Buys
  BY DEF Rows
<1>2. lots[x].day \in Days /\ lots[x].remaining \in Nat /\ lots[x].basis \in Int
  BY <1>1 DEF TaxLot
<1>3. Days \subseteq Nat /\ Buys \subseteq Nat
  BY LotsAssumption
<1>4. lots[x].day \in Nat /\ x \in Nat
  BY <1>1, <1>2, <1>3
<1> QED BY <1>2, <1>4

\* A sell takes of a lot no more than it holds.
LEMMA TakeType ==
  ASSUME Rows, Asked, Locks, NEW s \in Sells, InTransaction(s), NEW l \in fill[s].locked
  PROVE  /\ l \in DOMAIN lots
         /\ Take(s, l) \in 0 .. lots[l].remaining
         /\ l \in Drawn(s) => ConsumedBasis(s, l) \in Int /\ Realized(s, l) \in Int
<1>1. l \in DOMAIN lots /\ fill[s].locked \subseteq DOMAIN lots
  BY DEF Locks, SellLocks
<1>2. Ahead(s, l) \in SUBSET DOMAIN lots
  BY <1>1 DEF Ahead
<1>3. Remaining(Ahead(s, l)) \in Nat
  BY <1>2, RemainingIsTotal
<1>4. lots[l].remaining \in Nat /\ lots[l].basis \in Int
  BY <1>1 DEF Rows, TaxLot
<1>5. fill[s].quantity \in Nat /\ fill[s].price \in Int
  BY DEF Asked, Fills, FillRow
<1>6. Take(s, l) \in 0 .. lots[l].remaining
  BY <1>3, <1>4, <1>5 DEF Take, AtMost
<1>7. ASSUME l \in Drawn(s)
      PROVE  ConsumedBasis(s, l) \in Int /\ Realized(s, l) \in Int
  <2>1. Take(s, l) > 0
    BY <1>7 DEF Drawn
  <2>2. lots[l].remaining \in Nat \ {0} /\ Take(s, l) \in Int
    BY <1>4, <1>6, <2>1
  <2>3. PerUnit(lots[l].basis, lots[l].remaining) \in Int
    BY <1>4, <2>2, PerUnitInt
  <2>4. ConsumedBasis(s, l) \in Int
    BY <2>2, <2>3, TimesInt DEF ConsumedBasis
  <2>5. Times(fill[s].price, Take(s, l)) \in Int
    BY <1>5, <2>2, TimesInt
  <2> QED BY <2>4, <2>5 DEF Realized
<1> QED BY <1>1, <1>6, <1>7

-----------------------------------------------------------------------------
\* The oldest lots first

\* A lot that gives anything leaves nothing in the lots that come before it.
LEMMA OlderGiveAll ==
  ASSUME Rows, Asked, Locks, NEW s \in Sells, InTransaction(s), sale[s].named = <<>>,
         NEW l \in fill[s].locked, NEW o \in fill[s].locked, Older(o, l), Take(s, l) > 0
  PROVE  Take(s, o) = lots[o].remaining
<1> DEFINE r == [x \in DOMAIN lots |-> lots[x].remaining]
<1>1. fill[s].locked \subseteq DOMAIN lots
  BY DEF Locks, SellLocks
<1>2. \A x \in DOMAIN lots : lots[x].day \in Int /\ x \in Int /\ lots[x].remaining \in Nat
  <2> SUFFICES ASSUME NEW x \in DOMAIN lots
               PROVE  lots[x].day \in Int /\ x \in Int /\ lots[x].remaining \in Nat
    OBVIOUS
  <2>1. lots[x] \in TaxLot /\ x \in Buys
    BY DEF Rows
  <2>2. lots[x].day \in Days /\ lots[x].remaining \in Nat
    BY <2>1 DEF TaxLot
  <2>3. Days \subseteq Nat /\ Buys \subseteq Nat
    BY LotsAssumption
  <2>4. lots[x].day \in Nat /\ x \in Nat
    BY <2>1, <2>2, <2>3
  <2> QED BY <2>2, <2>4
<1>3. Ahead(s, o) \in SUBSET DOMAIN lots /\ Ahead(s, l) \in SUBSET DOMAIN lots
  BY <1>1 DEF Ahead
<1>4. Ahead(s, o) \cup {o} \in SUBSET Ahead(s, l) /\ o \notin Ahead(s, o)
  BY <1>1, <1>2 DEF Ahead, Older
<1>5. /\ Remaining(Ahead(s, o)) = Total(r, Ahead(s, o)) /\ Remaining(Ahead(s, o)) \in Nat
      /\ Remaining(Ahead(s, l)) = Total(r, Ahead(s, l)) /\ Remaining(Ahead(s, l)) \in Nat
      /\ \A x \in DOMAIN lots : r[x] \in Nat
  <2> HIDE DEF r
  <2>1. r = [x \in DOMAIN lots |-> lots[x].remaining]
    BY DEF r
  <2> QED BY <1>3, <2>1, RemainingIsTotal
<1>6. r[o] = lots[o].remaining
  BY <1>1
<1>7. Total(r, Ahead(s, o)) + r[o] <= Total(r, Ahead(s, l))
  <2> HIDE DEF r
  <2>1. IsFiniteSet(Ahead(s, o)) /\ IsFiniteSet(Ahead(s, l))
    BY <1>3, LotsFinite
  <2>2. /\ \A x \in Ahead(s, o) \cup Ahead(s, l) : r[x] \in Nat
        /\ \A x \in Ahead(s, o) \ Ahead(s, l) : r[x] = 0
        /\ o \in Ahead(s, l) \ Ahead(s, o)
    BY <1>3, <1>4, <1>5
  <2> QED BY <2>1, <2>2, TotalWithin
<1>8. fill[s].quantity \in Nat /\ lots[o].remaining \in Nat /\ lots[l].remaining \in Nat
  BY <1>1, <1>2 DEF Asked, Fills, FillRow
<1> HIDE DEF r
<1>9. Remaining(Ahead(s, o)) + lots[o].remaining <= Remaining(Ahead(s, l))
  BY <1>5, <1>6, <1>7
<1>10. Remaining(Ahead(s, o)) \in Nat /\ Remaining(Ahead(s, l)) \in Nat
  BY <1>5
<1> DEFINE q == fill[s].quantity
           a == Remaining(Ahead(s, o))
           b == Remaining(Ahead(s, l))
<1>11. /\ Take(s, l) = AtMost(lots[l].remaining, IF q - b < 0 THEN 0 ELSE q - b)
       /\ Take(s, o) = AtMost(lots[o].remaining, IF q - a < 0 THEN 0 ELSE q - a)
  BY DEF Take
<1>12. q \in Nat /\ a \in Nat /\ b \in Nat /\ a + lots[o].remaining <= b
  BY <1>8, <1>9, <1>10
<1> HIDE DEF q, a, b
<1>13. q - b > 0
  BY <1>8, <1>11, <1>12 DEF AtMost
<1>14. q - a >= lots[o].remaining
  BY <1>8, <1>12, <1>13
<1> QED BY <1>8, <1>11, <1>12, <1>14 DEF AtMost

\* What a committed sell writes, with the parts of the transaction named.
Carried(s) == [p \in fill[s].found |-> Disallowed(Realized(s, p[1]), lots[p[2]].cost)]
OnLot(s, l) == {p \in fill[s].found : p[1] = l}
IntoLot(s, l) == {p \in fill[s].found : p[2] = l}

\* What a committed sell writes.
LEMMA SellWrites ==
  ASSUME NEW s \in Sells, CommitSell(s)
  PROVE  /\ fill[s].pc = "scanned"
         /\ Post(SellLegs(s), SumOver(Carried(s), fill[s].found))
         /\ obligations' = Added(obligations, Row(s, Times(fill[s].price, fill[s].quantity)))
         /\ lots' = [l \in DOMAIN lots |->
              [lots[l] EXCEPT
                 !.remaining = IF l \in Drawn(s) THEN @ - Take(s, l) ELSE @,
                 !.basis = (IF l \in Drawn(s) THEN @ - ConsumedBasis(s, l) ELSE @)
                           + SumOver(Carried(s), IntoLot(s, l)),
                 !.specific = @ \/ l \in Named(s)]]
         /\ consumed' = Added(consumed,
              [k \in {s} \X Drawn(s) |->
                 [quantity |-> Take(s, k[2]), day |-> fill[s].day,
                  realized |-> Realized(s, k[2]) + SumOver(Carried(s), OnLot(s, k[2]))]])
         /\ adjusted' = Added(adjusted,
              [k \in {<<s, p[1]>> : p \in fill[s].found} |->
                 [lot |-> (CHOOSE p \in OnLot(s, k[2]) : TRUE)[2],
                  amount |-> SumOver(Carried(s), OnLot(s, k[2]))]])
         /\ sale' = [sale EXCEPT ![s].filled = @ + fill[s].quantity,
                   ![s].status = IF sale[s].filled + fill[s].quantity = sale[s].requested
                                 THEN "filled" ELSE "open"]
         /\ Committed(s)
         /\ UNCHANGED <<corporate, aborts, rounded>>
BY DEF CommitSell, Carried, OnLot, IntoLot


\* ... and what a committed buy writes.
BuyCost(b) == Times(fill[b].price, fill[b].quantity)
BuyCarried(b) == [k \in fill[b].found |-> Disallowed(consumed[k].realized, BuyCost(b))]

\* The steps of record_buy_fill, with cost and carried losses named.
LEMMA BuyWrites ==
  ASSUME NEW b \in Buys, CommitBuy(b)
  PROVE  /\ fill[b].pc = "scanned"
         /\ Post([position_units |-> fill[b].quantity, position_cost |-> BuyCost(b),
                  cash |-> -BuyCost(b)],
                 SumOver(BuyCarried(b), fill[b].found))
         /\ obligations' = Added(obligations, Row(b, -BuyCost(b)))
         /\ lots' = Added(lots, Row(b,
              [opened |-> fill[b].quantity, remaining |-> fill[b].quantity, cost |-> BuyCost(b),
               basis |-> BuyCost(b) + SumOver(BuyCarried(b), fill[b].found),
               day |-> fill[b].day, specific |-> FALSE]))
         /\ consumed' = [k \in DOMAIN consumed |->
                           IF k \in fill[b].found
                           THEN [consumed[k] EXCEPT !.realized = @ + BuyCarried(b)[k]]
                           ELSE consumed[k]]
         /\ adjusted' = Added(adjusted, [k \in fill[b].found |->
                                           [lot |-> b, amount |-> BuyCarried(b)[k]]])
         /\ Committed(b)
         /\ UNCHANGED <<sale, corporate, aborts, rounded>>
BY DEF CommitBuy, BuyCost, BuyCarried

\* The steps before a commit write no row of the books.
Prepares == UNCHANGED <<lots, consumed, adjusted, balance, obligations, corporate, overlap,
                       rounded>>

\* A step prepares, commits a fill, or is a corporate action.
LEMMA NextCases ==
  ASSUME Next
  PROVE  \/ Prepares
         \/ \E b \in Buys : CommitBuy(b)
         \/ \E s \in Sells : CommitSell(s)
         \/ \E a \in Rates, d \in Days : DeclareDividendExDate(a, d) \/ PayDividend(a, d)
         \/ \E ratio \in Ratios, d \in Days : ApplySplit(ratio, d)
<1>1. ASSUME NEW s \in Sells, NEW q, NEW n, PlaceSell(s, q, n) PROVE Prepares
  BY <1>1 DEF PlaceSell, Prepares
<1>2. ASSUME NEW s \in Sells, SubmitSell(s) \/ BeginSell(s) \/ ScanSell(s) PROVE Prepares
  BY <1>2 DEF SubmitSell, BeginSell, ScanSell, Prepares
<1>3. ASSUME NEW b \in Buys, BeginBuy(b) \/ ScanBuy(b) PROVE Prepares
  BY <1>3 DEF BeginBuy, ScanBuy, Prepares
<1>4. ASSUME NEW f \in Fills, NEW r, BrokerReports(f, r) PROVE Prepares
  BY <1>4 DEF BrokerReports, Prepares
<1>5. ASSUME NEW f \in Fills, Abort(f) \/ DeadLetter(f) PROVE Prepares
  BY <1>5 DEF Abort, DeadLetter, Prepares
<1>6. ActionDays \subseteq Days
  BY LotsAssumption
<1> QED BY <1>1, <1>2, <1>3, <1>4, <1>5, <1>6 DEF Next

\* A committed fill is never touched again.
LEMMA DoneStays ==
  ASSUME Asked, Next, NEW f \in Fills, fill[f].pc = "done"
  PROVE  fill'[f] = fill[f]
<1>1. fill \in [Fills -> FillRow]
  BY DEF Asked
<1>2. Sells \subseteq Fills /\ Buys \subseteq Fills
  BY DEF Fills
<1>3. ASSUME NEW s \in Sells, NEW q, NEW n, PlaceSell(s, q, n) \/ SubmitSell(s)
      PROVE  fill' = fill
  BY <1>3 DEF PlaceSell, SubmitSell
<1>4. ASSUME NEW s \in Sells, BeginSell(s) PROVE fill'[f] = fill[f]
  BY <1>1, <1>2, <1>4 DEF BeginSell
<1>5. ASSUME NEW s \in Sells, ScanSell(s) PROVE fill'[f] = fill[f]
  BY <1>1, <1>2, <1>5 DEF ScanSell
<1>6. ASSUME NEW s \in Sells, CommitSell(s) PROVE fill'[f] = fill[f]
  BY <1>1, <1>2, <1>6 DEF CommitSell, Committed
<1>7. ASSUME NEW b \in Buys, BeginBuy(b) PROVE fill'[f] = fill[f]
  BY <1>1, <1>2, <1>7 DEF BeginBuy
<1>8. ASSUME NEW b \in Buys, ScanBuy(b) PROVE fill'[f] = fill[f]
  BY <1>1, <1>2, <1>8 DEF ScanBuy
<1>9. ASSUME NEW b \in Buys, CommitBuy(b) PROVE fill'[f] = fill[f]
  BY <1>1, <1>2, <1>9 DEF CommitBuy, Committed
<1>10. ASSUME NEW g \in Fills, NEW r, BrokerReports(g, r) PROVE fill'[f] = fill[f]
  BY <1>1, <1>10 DEF BrokerReports
<1>11. ASSUME NEW g \in Fills, Abort(g) PROVE fill'[f] = fill[f]
  BY <1>1, <1>11 DEF Abort, InTransaction
<1>12. ASSUME NEW g \in Fills, DeadLetter(g) PROVE fill'[f] = fill[f]
  <2>1. fill[g].pc # "done"
    BY <1>12 DEF DeadLetter, Failing
  <2> QED BY <1>1, <1>12, <2>1 DEF DeadLetter
<1>13. ASSUME NEW a, NEW d, \/ DeclareDividendExDate(a, d) \/ PayDividend(a, d)
                           \/ ApplySplit(a, d)
       PROVE  fill' = fill
  BY <1>13 DEF DeclareDividendExDate, PayDividend, ApplySplit, CorporateAction
<1> QED BY <1>3, <1>4, <1>5, <1>6, <1>7, <1>8, <1>9, <1>10, <1>11, <1>12, <1>13 DEF Next

\* The losses a sell carries over are amounts.
LEMMA CarriedInt ==
  ASSUME Rows, Asked, Locks, NEW s \in Sells, fill[s].pc = "scanned"
  PROVE  /\ IsFiniteSet(fill[s].found)
         /\ \A p \in fill[s].found : Carried(s)[p] \in Int
         /\ \A F \in SUBSET fill[s].found : IsFiniteSet(F) /\ SumOver(Carried(s), F) \in Int
<1>0. InTransaction(s)
  BY DEF InTransaction
<1>1. fill[s].found \subseteq Drawn(s) \X DOMAIN lots /\ Drawn(s) \subseteq DOMAIN lots
  BY <1>0 DEF Locks, SellLocks, Drawn
<1>2. IsFiniteSet((DOMAIN lots) \X (DOMAIN lots))
  <2>1. IsFiniteSet(DOMAIN lots)
    BY LotsFinite
  <2> QED BY <2>1, FS_Product
<1>3. fill[s].found \subseteq (DOMAIN lots) \X (DOMAIN lots)
  <2> SUFFICES ASSUME NEW p \in fill[s].found PROVE p \in (DOMAIN lots) \X (DOMAIN lots)
    OBVIOUS
  <2>1. p \in Drawn(s) \X DOMAIN lots
    BY <1>1
  <2> QED BY <1>1, <2>1
<1>4. \A F \in SUBSET fill[s].found : IsFiniteSet(F)
  BY <1>2, <1>3, FS_Subset
<1>5. ASSUME NEW p \in fill[s].found PROVE Carried(s)[p] \in Int
  <2>1. p[1] \in Drawn(s) /\ p[2] \in DOMAIN lots
    BY <1>1
  <2>2. Realized(s, p[1]) \in Int
    BY <1>0, <2>1, TakeType DEF Drawn
  <2>3. lots[p[2]].cost \in Int
    BY <2>1 DEF Rows, TaxLot
  <2> QED BY <2>2, <2>3 DEF Carried, Disallowed, AtMost
<1>6. ASSUME NEW F \in SUBSET fill[s].found PROVE SumOver(Carried(s), F) \in Int
  <2>1. SumOver(Carried(s), F) = Total(Carried(s), F)
    BY SumIsTotal
  <2>2. \A p \in F : Carried(s)[p] \in Int
    BY <1>5
  <2> QED BY <1>4, <2>1, <2>2, TotalInt
<1> QED BY <1>4, <1>5, <1>6

\* So are those a buy carries over.
LEMMA BuyCarriedInt ==
  ASSUME Rows, Asked, Locks, NEW b \in Buys
  PROVE  /\ IsFiniteSet(fill[b].found)
         /\ BuyCost(b) \in Int
         /\ \A k \in fill[b].found : BuyCarried(b)[k] \in Int
         /\ SumOver(BuyCarried(b), fill[b].found) \in Int
<1>1. fill[b].found \subseteq DOMAIN consumed
  BY DEF Locks
<1>2. fill[b].found \subseteq Sells \X Buys
  BY <1>1 DEF Rows
<1>3. IsFiniteSet(fill[b].found)
  <2>1. IsFiniteSet(Sells \X Buys)
    BY LotsAssumption, FS_Product
  <2> QED BY <1>2, <2>1, FS_Subset
<1>4. BuyCost(b) \in Int
  <2>1. fill[b].price \in Int /\ fill[b].quantity \in Int
    BY DEF Asked, Fills, FillRow
  <2> QED BY <2>1, TimesInt DEF BuyCost
<1>5. ASSUME NEW k \in fill[b].found PROVE BuyCarried(b)[k] \in Int
  <2>1. consumed[k].realized \in Int
    BY <1>1 DEF Rows, Consumption
  <2> QED BY <1>4, <2>1 DEF BuyCarried, Disallowed, AtMost
<1>6. SumOver(BuyCarried(b), fill[b].found) = Total(BuyCarried(b), fill[b].found)
  BY SumIsTotal
<1>7. Total(BuyCarried(b), fill[b].found) \in Int
  BY <1>3, <1>5, TotalInt
<1> QED BY <1>3, <1>4, <1>5, <1>6, <1>7

\* An inserted row is there, and the others are as they were.
LEMMA AddedRow ==
  ASSUME NEW table, NEW id, NEW value, id \notin DOMAIN table,
         NEW after, after = Added(table, Row(id, value))
  PROVE  /\ DOMAIN after = DOMAIN table \cup {id}
         /\ \A x \in DOMAIN table : after[x] = table[x]
         /\ after[id] = value
BY DEF Added, Row

\* A buy opens one lot and raises the gains of the losses it replaces.
LEMMA CommitBuyRows ==
  ASSUME Rows, Asked, Locks, NEW b \in Buys, CommitBuy(b)
  PROVE  /\ b \notin DOMAIN lots /\ DOMAIN lots' = DOMAIN lots \cup {b}
         /\ \A l \in DOMAIN lots : lots'[l] = lots[l]
         /\ lots'[b] = [opened |-> fill[b].quantity, remaining |-> fill[b].quantity,
                        cost |-> BuyCost(b),
                        basis |-> BuyCost(b) + SumOver(BuyCarried(b), fill[b].found),
                        day |-> fill[b].day, specific |-> FALSE]
         /\ lots'[b] \in TaxLot
         /\ DOMAIN consumed' = DOMAIN consumed
         /\ \A k \in DOMAIN consumed :
              /\ consumed'[k] \in Consumption
              /\ consumed'[k].day = consumed[k].day
              /\ consumed'[k].realized = consumed[k].realized
                                         + IF k \in fill[b].found THEN BuyCarried(b)[k] ELSE 0
         /\ DOMAIN adjusted' = DOMAIN adjusted \cup fill[b].found
         /\ \A k \in DOMAIN adjusted : adjusted'[k] = adjusted[k]
         /\ \A k \in fill[b].found : adjusted'[k] = [lot |-> b, amount |-> BuyCarried(b)[k]]
<1>1. fill[b].pc = "scanned" /\ fill[b].day \in Days /\ fill[b].quantity \in Nat
  BY BuyWrites DEF Asked, FillRow, Fills
<1>2. b \notin DOMAIN lots
  BY <1>1 DEF Rows
<1>3. BuyCost(b) \in Int /\ SumOver(BuyCarried(b), fill[b].found) \in Int
      /\ \A k \in fill[b].found : BuyCarried(b)[k] \in Int
  BY BuyCarriedInt
<1>4. /\ DOMAIN lots' = DOMAIN lots \cup {b}
      /\ \A l \in DOMAIN lots : lots'[l] = lots[l]
      /\ lots'[b] = [opened |-> fill[b].quantity, remaining |-> fill[b].quantity,
                     cost |-> BuyCost(b),
                     basis |-> BuyCost(b) + SumOver(BuyCarried(b), fill[b].found),
                     day |-> fill[b].day, specific |-> FALSE]
  <2> DEFINE new == [opened |-> fill[b].quantity, remaining |-> fill[b].quantity,
                     cost |-> BuyCost(b),
                     basis |-> BuyCost(b) + SumOver(BuyCarried(b), fill[b].found),
                     day |-> fill[b].day, specific |-> FALSE]
  <2>1. lots' = Added(lots, Row(b, new))
    BY BuyWrites
  <2> HIDE DEF new
  <2>2. /\ DOMAIN lots' = DOMAIN lots \cup {b}
        /\ \A l \in DOMAIN lots : lots'[l] = lots[l]
        /\ lots'[b] = new
    BY <1>2, <2>1 DEF Added, Row
  <2> QED BY <2>2 DEF new
<1>5. lots'[b] \in TaxLot
  BY <1>1, <1>3, <1>4 DEF TaxLot
<1>6. /\ DOMAIN consumed' = DOMAIN consumed
      /\ \A k \in DOMAIN consumed : consumed'[k] =
            IF k \in fill[b].found
            THEN [consumed[k] EXCEPT !.realized = @ + BuyCarried(b)[k]]
            ELSE consumed[k]
  BY BuyWrites
<1>7. ASSUME NEW k \in DOMAIN consumed
      PROVE  /\ consumed'[k] \in Consumption
             /\ consumed'[k].day = consumed[k].day
             /\ consumed'[k].realized = consumed[k].realized
                                        + IF k \in fill[b].found THEN BuyCarried(b)[k] ELSE 0
  <2>1. consumed[k] \in Consumption /\ consumed[k].realized \in Int
    BY DEF Rows, Consumption
  <2> QED BY <1>3, <1>6, <2>1 DEF Consumption
<1>8. fill[b].found \cap DOMAIN adjusted = {}
  BY DEF Locks
<1>9. /\ DOMAIN adjusted' = DOMAIN adjusted \cup fill[b].found
      /\ \A k \in DOMAIN adjusted : adjusted'[k] = adjusted[k]
      /\ \A k \in fill[b].found : adjusted'[k] = [lot |-> b, amount |-> BuyCarried(b)[k]]
  <2> DEFINE new == [k \in fill[b].found |-> [lot |-> b, amount |-> BuyCarried(b)[k]]]
  <2>1. adjusted' = Added(adjusted, new)
    BY BuyWrites
  <2>2. /\ DOMAIN adjusted' = DOMAIN adjusted \cup DOMAIN new
        /\ \A k \in DOMAIN adjusted : adjusted'[k] = adjusted[k]
        /\ \A k \in DOMAIN new \ DOMAIN adjusted : adjusted'[k] = new[k]
    <3> HIDE DEF new
    <3> QED BY <2>1 DEF Added
  <2>3. DOMAIN new = fill[b].found
        /\ \A k \in fill[b].found : new[k] = [lot |-> b, amount |-> BuyCarried(b)[k]]
    OBVIOUS
  <2> HIDE DEF new
  <2> QED BY <1>8, <2>2, <2>3
<1> QED BY <1>2, <1>4, <1>5, <1>6, <1>7, <1>9

\* A sell draws on its lots, adds one consumption for each, and changes only lots
\* it holds.
LEMMA CommitSellRows ==
  ASSUME Rows, Asked, Locks, NEW s \in Sells, CommitSell(s)
  PROVE  /\ DOMAIN lots' = DOMAIN lots
         /\ \A l \in DOMAIN lots :
              /\ lots'[l] \in TaxLot
              /\ lots'[l].day = lots[l].day
              /\ lots'[l].remaining = lots[l].remaining
                                      - IF l \in Drawn(s) THEN Take(s, l) ELSE 0
              /\ lots'[l].basis = lots[l].basis
                                  - (IF l \in Drawn(s) THEN ConsumedBasis(s, l) ELSE 0)
                                  + SumOver(Carried(s), IntoLot(s, l))
              /\ l \notin Holds(s) => lots'[l] = lots[l]
         /\ ({s} \X Drawn(s)) \cap DOMAIN consumed = {}
         /\ DOMAIN consumed' = DOMAIN consumed \cup ({s} \X Drawn(s))
         /\ \A k \in DOMAIN consumed : consumed'[k] = consumed[k]
         /\ \A k \in {s} \X Drawn(s) :
              consumed'[k] = [quantity |-> Take(s, k[2]), day |-> fill[s].day,
                              realized |-> Realized(s, k[2]) + SumOver(Carried(s), OnLot(s, k[2]))]
         /\ \A k \in {s} \X Drawn(s) : consumed'[k] \in Consumption
         /\ DOMAIN adjusted' = DOMAIN adjusted \cup {<<s, p[1]>> : p \in fill[s].found}
         /\ \A k \in DOMAIN adjusted : adjusted'[k] = adjusted[k]
         /\ \A p \in fill[s].found : adjusted'[<<s, p[1]>>] \in [lot : DOMAIN lots, amount : Int]
<1>1. fill[s].pc = "scanned" /\ InTransaction(s)
  BY SellWrites DEF InTransaction
<1>2. fill[s].day \in Days /\ fill[s].quantity \in Nat
  BY <1>1 DEF Asked, FillRow, Fills
<1>3. /\ fill[s].locked \subseteq DOMAIN lots /\ Drawn(s) \subseteq fill[s].locked
      /\ fill[s].found \subseteq Drawn(s) \X DOMAIN lots
  BY <1>1 DEF Locks, SellLocks, Drawn
<1>4. \A l \in Drawn(s) : /\ l \in DOMAIN lots /\ Take(s, l) \in 0 .. lots[l].remaining
                          /\ ConsumedBasis(s, l) \in Int /\ Realized(s, l) \in Int
  BY <1>1, <1>3, TakeType
<1>5. \A F \in SUBSET fill[s].found : SumOver(Carried(s), F) \in Int
  BY <1>1, CarriedInt
<1>6. \A l : OnLot(s, l) \in SUBSET fill[s].found /\ IntoLot(s, l) \in SUBSET fill[s].found
  BY DEF OnLot, IntoLot
<1>7. /\ DOMAIN lots' = DOMAIN lots
      /\ \A l \in DOMAIN lots : lots'[l] =
           [lots[l] EXCEPT
              !.remaining = IF l \in Drawn(s) THEN @ - Take(s, l) ELSE @,
              !.basis = (IF l \in Drawn(s) THEN @ - ConsumedBasis(s, l) ELSE @)
                        + SumOver(Carried(s), IntoLot(s, l)),
              !.specific = @ \/ l \in Named(s)]
  <2> DEFINE After(l) ==
           [lots[l] EXCEPT
              !.remaining = IF l \in Drawn(s) THEN @ - Take(s, l) ELSE @,
              !.basis = (IF l \in Drawn(s) THEN @ - ConsumedBasis(s, l) ELSE @)
                        + SumOver(Carried(s), IntoLot(s, l)),
              !.specific = @ \/ l \in Named(s)]
  <2>1. lots' = [l \in DOMAIN lots |-> After(l)]
    BY SellWrites
  <2> SUFFICES DOMAIN lots' = DOMAIN lots /\ \A l \in DOMAIN lots : lots'[l] = After(l)
    OBVIOUS
  <2> HIDE DEF After
  <2> QED BY <2>1
<1>8. ASSUME NEW l \in DOMAIN lots
      PROVE  /\ lots'[l] \in TaxLot
             /\ lots'[l].day = lots[l].day
             /\ lots'[l].remaining = lots[l].remaining
                                     - IF l \in Drawn(s) THEN Take(s, l) ELSE 0
             /\ lots'[l].basis = lots[l].basis
                                 - (IF l \in Drawn(s) THEN ConsumedBasis(s, l) ELSE 0)
                                 + SumOver(Carried(s), IntoLot(s, l))
             /\ l \notin Holds(s) => lots'[l] = lots[l]
  <2>1. lots[l] \in TaxLot
    BY DEF Rows
  <2>2. SumOver(Carried(s), IntoLot(s, l)) \in Int
    BY <1>5, <1>6
  <2>3. l \in Drawn(s) => Take(s, l) \in 0 .. lots[l].remaining /\ ConsumedBasis(s, l) \in Int
    BY <1>4
  <2>4. lots'[l] = [lots[l] EXCEPT
              !.remaining = IF l \in Drawn(s) THEN @ - Take(s, l) ELSE @,
              !.basis = (IF l \in Drawn(s) THEN @ - ConsumedBasis(s, l) ELSE @)
                        + SumOver(Carried(s), IntoLot(s, l)),
              !.specific = @ \/ l \in Named(s)]
    BY <1>7
  <2> DEFINE r == IF l \in Drawn(s) THEN lots[l].remaining - Take(s, l) ELSE lots[l].remaining
             c == (IF l \in Drawn(s) THEN lots[l].basis - ConsumedBasis(s, l) ELSE lots[l].basis)
                  + SumOver(Carried(s), IntoLot(s, l))
             z == lots[l].specific \/ l \in Named(s)
  <2>5. lots[l].remaining \in Nat /\ lots[l].basis \in Int
    BY <2>1 DEF TaxLot
  <2>6. r \in Nat
    BY <2>3, <2>5
  <2>7. c \in Int
    BY <2>2, <2>3, <2>5
  <2>8. z \in BOOLEAN
    OBVIOUS
  <2>9. lots'[l] = [lots[l] EXCEPT !.remaining = r, !.basis = c, !.specific = z]
    BY <2>4
  <2>10. /\ lots'[l] \in TaxLot /\ lots'[l].day = lots[l].day
         /\ lots'[l].remaining = r /\ lots'[l].basis = c
         /\ r = lots[l].remaining /\ c = lots[l].basis /\ z = lots[l].specific => lots'[l] = lots[l]
    <3> HIDE DEF r, c, z
    <3> QED BY <2>1, <2>6, <2>7, <2>8, <2>9 DEF TaxLot
  <2>11. /\ lots'[l].remaining = lots[l].remaining - IF l \in Drawn(s) THEN Take(s, l) ELSE 0
         /\ lots'[l].basis = lots[l].basis
                             - (IF l \in Drawn(s) THEN ConsumedBasis(s, l) ELSE 0)
                             + SumOver(Carried(s), IntoLot(s, l))
    BY <2>2, <2>3, <2>5, <2>10
  <2>12. ASSUME l \notin Holds(s) PROVE lots'[l] = lots[l]
    <3>1. l \notin Drawn(s) /\ l \notin Named(s)
      <4>1. l \notin fill[s].locked
        BY <2>12 DEF Holds
      <4>2. CASE sale[s].named = <<>>
        BY <1>3, <4>1, <4>2 DEF Named
      <4>3. CASE sale[s].named # <<>>
        BY <1>1, <1>3, <4>1, <4>3 DEF Locks, SellLocks
      <4> QED BY <4>2, <4>3
    <3>2. IntoLot(s, l) = {}
      BY <2>12 DEF Holds, IntoLot
    <3>3. SumOver(Carried(s), IntoLot(s, l)) = 0
      BY <3>2, SumIsTotal, TotalEmpty
    <3>4. r = lots[l].remaining /\ c = lots[l].basis
      BY <2>5, <3>1, <3>3
    <3>5. z = lots[l].specific
      BY <2>1, <3>1 DEF TaxLot
    <3> HIDE DEF r, c, z
    <3> QED BY <2>10, <3>4, <3>5
  <2> HIDE DEF r, c, z
  <2> QED BY <2>10, <2>11, <2>12
<1>9. ({s} \X Drawn(s)) \cap DOMAIN consumed = {}
  BY <1>1 DEF Rows
<1>10. /\ DOMAIN consumed' = DOMAIN consumed \cup ({s} \X Drawn(s))
       /\ \A k \in DOMAIN consumed : consumed'[k] = consumed[k]
       /\ \A k \in {s} \X Drawn(s) :
            consumed'[k] = [quantity |-> Take(s, k[2]), day |-> fill[s].day,
                            realized |-> Realized(s, k[2]) + SumOver(Carried(s), OnLot(s, k[2]))]
  <2> DEFINE new == [k \in {s} \X Drawn(s) |->
                       [quantity |-> Take(s, k[2]), day |-> fill[s].day,
                        realized |-> Realized(s, k[2]) + SumOver(Carried(s), OnLot(s, k[2]))]]
  <2>1. consumed' = Added(consumed, new)
    BY SellWrites
  <2>2. /\ DOMAIN consumed' = DOMAIN consumed \cup DOMAIN new
        /\ \A k \in DOMAIN consumed : consumed'[k] = consumed[k]
        /\ \A k \in DOMAIN new \ DOMAIN consumed : consumed'[k] = new[k]
    <3> HIDE DEF new
    <3> QED BY <2>1 DEF Added
  <2>3. DOMAIN new = {s} \X Drawn(s)
        /\ \A k \in {s} \X Drawn(s) : new[k] = [quantity |-> Take(s, k[2]), day |-> fill[s].day,
                        realized |-> Realized(s, k[2]) + SumOver(Carried(s), OnLot(s, k[2]))]
    OBVIOUS
  <2> HIDE DEF new
  <2> QED BY <1>9, <2>2, <2>3
<1>11. ASSUME NEW k \in {s} \X Drawn(s) PROVE consumed'[k] \in Consumption
  <2>1. k[2] \in Drawn(s)
    OBVIOUS
  <2>2. SumOver(Carried(s), OnLot(s, k[2])) \in Int
    BY <1>5, <1>6
  <2>3. Realized(s, k[2]) \in Int /\ Take(s, k[2]) \in Nat
    <3>1. lots[k[2]].remaining \in Nat
      BY <1>4, <2>1 DEF Rows, TaxLot
    <3> QED BY <1>4, <2>1, <3>1
  <2> DEFINE z == Realized(s, k[2]) + SumOver(Carried(s), OnLot(s, k[2]))
  <2>4. z \in Int
    BY <2>2, <2>3
  <2>5. consumed'[k] = [quantity |-> Take(s, k[2]), day |-> fill[s].day, realized |-> z]
    BY <1>10
  <2> HIDE DEF z
  <2> QED BY <1>2, <2>3, <2>4, <2>5 DEF Consumption
<1>12. /\ DOMAIN adjusted' = DOMAIN adjusted \cup {<<s, p[1]>> : p \in fill[s].found}
       /\ \A k \in DOMAIN adjusted : adjusted'[k] = adjusted[k]
       /\ \A p \in fill[s].found : adjusted'[<<s, p[1]>>] \in [lot : DOMAIN lots, amount : Int]
  <2> DEFINE K == {<<s, p[1]>> : p \in fill[s].found}
             new == [k \in K |-> [lot |-> (CHOOSE p \in OnLot(s, k[2]) : TRUE)[2],
                                  amount |-> SumOver(Carried(s), OnLot(s, k[2]))]]
  <2>1. adjusted' = Added(adjusted, new)
    BY SellWrites
  <2>2. /\ DOMAIN adjusted' = DOMAIN adjusted \cup DOMAIN new
        /\ \A k \in DOMAIN adjusted : adjusted'[k] = adjusted[k]
        /\ \A k \in DOMAIN new \ DOMAIN adjusted : adjusted'[k] = new[k]
    <3> HIDE DEF new
    <3> QED BY <2>1 DEF Added
  <2>3. K \cap DOMAIN adjusted = {}
    <3>1. \A k \in DOMAIN adjusted : k \in DOMAIN consumed /\ fill[k[1]].pc = "done"
      BY DEF Rows
    <3> QED BY <1>1, <3>1
  <2>4. ASSUME NEW p \in fill[s].found
        PROVE  new[<<s, p[1]>>] \in [lot : DOMAIN lots, amount : Int]
    <3>1. p \in OnLot(s, p[1])
      BY DEF OnLot
    <3> DEFINE q == CHOOSE x \in OnLot(s, p[1]) : TRUE
    <3>2. q \in OnLot(s, p[1])
      BY <3>1
    <3>3. q \in Drawn(s) \X DOMAIN lots
      BY <1>3, <3>2 DEF OnLot
    <3>4. q[2] \in DOMAIN lots
      BY <3>3
    <3>5. SumOver(Carried(s), OnLot(s, p[1])) \in Int
      BY <1>5, <1>6
    <3>6. new[<<s, p[1]>>] = [lot |-> q[2], amount |-> SumOver(Carried(s), OnLot(s, p[1]))]
      OBVIOUS
    <3> HIDE DEF q, new
    <3> QED BY <3>4, <3>5, <3>6
  <2>5. DOMAIN new = K /\ \A p \in fill[s].found : <<s, p[1]>> \in K
    OBVIOUS
  <2>6. \A p \in fill[s].found : adjusted'[<<s, p[1]>>] = new[<<s, p[1]>>]
    <3> HIDE DEF new, K
    <3> QED BY <2>2, <2>3, <2>5
  <2> HIDE DEF new
  <2> QED BY <2>2, <2>4, <2>5, <2>6
<1> QED BY <1>7, <1>8, <1>9, <1>10, <1>11, <1>12

\* A quantity times a ratio is a quantity.
LEMMA SplitLotNat ==
  ASSUME NEW n \in Nat, NEW ratio \in Ratios
  PROVE  SplitLot(n, ratio) \in Nat
<1> DEFINE p == ratio[1]
           d == ratio[2]
           v == SplitLot(n, ratio)
<1>1. p \in Nat /\ d \in Nat \ {0}
  BY LotsAssumption
<1>2. n * p \in Nat
  BY <1>1
<1>3. v = Quantize(n * p, d)
  BY DEF SplitLot
<1> HIDE DEF p, d
<1>4. v \in Int /\ -d <= 2 * (d * v - n * p)
  BY <1>1, <1>2, <1>3, QuantizeInt, QuantizeNear
<1> HIDE DEF v
<1>5. SUFFICES ASSUME v <= -1 PROVE FALSE
  BY <1>4 DEF v
<1>6. d * v <= -d
  <2>1. PICK c \in Nat : v = -1 - c
    <3>1. -1 - v \in Nat /\ v = -1 - (-1 - v)
      BY <1>4, <1>5
    <3> QED BY <3>1
  <2>2. d * v = -d - d * c /\ d * c \in Nat
    BY <1>1, <2>1
  <2> QED BY <1>1, <2>2
<1>7. d * v \in Int
  BY <1>1, <1>4
<1> QED BY <1>1, <1>2, <1>4, <1>6, <1>7

\* A split multiplies the open lots, which nobody holds.
LEMMA SplitRows ==
  ASSUME Rows, NEW ratio \in Ratios, NEW d \in Days, ApplySplit(ratio, d)
  PROVE  /\ DOMAIN lots' = DOMAIN lots
         /\ \A l \in DOMAIN lots :
              /\ lots'[l] \in TaxLot
              /\ lots'[l].day = lots[l].day /\ lots'[l].basis = lots[l].basis
              /\ lots'[l].remaining = IF l \in OpenLots THEN SplitLot(lots[l].remaining, ratio)
                                      ELSE lots[l].remaining
              /\ l \notin OpenLots => lots'[l] = lots[l]
         /\ OpenLots \cap LockedLots = {}
         /\ UNCHANGED <<consumed, adjusted, sale, fill, obligations, overlap>>
<1>1. /\ lots' = [l \in DOMAIN lots |->
                IF l \in OpenLots
                THEN [lots[l] EXCEPT !.opened = SplitLot(@, ratio), !.remaining = SplitLot(@, ratio)]
                ELSE lots[l]]
      /\ OpenLots \cap LockedLots = {}
      /\ UNCHANGED <<consumed, adjusted, sale, fill, obligations, overlap>>
  BY DEF ApplySplit, CorporateAction
<1>2. ASSUME NEW l \in DOMAIN lots
      PROVE  /\ lots'[l] \in TaxLot
             /\ lots'[l].day = lots[l].day /\ lots'[l].basis = lots[l].basis
             /\ lots'[l].remaining = IF l \in OpenLots THEN SplitLot(lots[l].remaining, ratio)
                                      ELSE lots[l].remaining
             /\ l \notin OpenLots => lots'[l] = lots[l]
  <2>1. lots[l] \in TaxLot
    BY DEF Rows
  <2>2. CASE l \notin OpenLots
    BY <1>1, <2>1, <2>2
  <2>3. CASE l \in OpenLots
    <3> DEFINE a == SplitLot(lots[l].opened, ratio)
               r == SplitLot(lots[l].remaining, ratio)
    <3>1. lots[l].opened \in Nat /\ lots[l].remaining \in Nat
      BY <2>1 DEF TaxLot
    <3>3. a \in Nat /\ r \in Nat
      BY <3>1, SplitLotNat
    <3>4. lots'[l] = [lots[l] EXCEPT !.opened = a, !.remaining = r]
      BY <1>1, <2>3
    <3>5. /\ lots'[l] \in TaxLot /\ lots'[l].remaining = r
          /\ lots'[l].day = lots[l].day /\ lots'[l].basis = lots[l].basis
      <4> HIDE DEF a, r
      <4> QED BY <2>1, <3>3, <3>4 DEF TaxLot
    <3> QED BY <2>3, <3>5
  <2> QED BY <2>2, <2>3
<1>3. DOMAIN lots' = DOMAIN lots
  BY <1>1
<1> QED BY <1>1, <1>2, <1>3

\* A dividend writes no row of the lots.
LEMMA DividendRows ==
  ASSUME NEW a, NEW d, DeclareDividendExDate(a, d) \/ PayDividend(a, d)
  PROVE  UNCHANGED <<lots, consumed, adjusted, sale, fill, overlap>>
BY DEF DeclareDividendExDate, PayDividend, CorporateAction

\* Lots are only added, and keep their day.
LEMMA LotsGrow ==
  ASSUME Rows, Asked, Locks, Next
  PROVE  /\ DOMAIN lots \subseteq DOMAIN lots'
         /\ \A l \in DOMAIN lots : lots'[l].day = lots[l].day
<1>1. CASE Prepares
  BY <1>1 DEF Prepares
<1>2. ASSUME NEW b \in Buys, CommitBuy(b)
      PROVE  DOMAIN lots \subseteq DOMAIN lots' /\ \A l \in DOMAIN lots : lots'[l].day = lots[l].day
  BY <1>2, CommitBuyRows
<1>3. ASSUME NEW s \in Sells, CommitSell(s)
      PROVE  DOMAIN lots \subseteq DOMAIN lots' /\ \A l \in DOMAIN lots : lots'[l].day = lots[l].day
  BY <1>3, CommitSellRows
<1>4. ASSUME NEW a, NEW d, DeclareDividendExDate(a, d) \/ PayDividend(a, d)
      PROVE  DOMAIN lots \subseteq DOMAIN lots' /\ \A l \in DOMAIN lots : lots'[l].day = lots[l].day
  BY <1>4, DividendRows
<1>5. ASSUME NEW ratio \in Ratios, NEW d \in Days, ApplySplit(ratio, d)
      PROVE  DOMAIN lots \subseteq DOMAIN lots' /\ \A l \in DOMAIN lots : lots'[l].day = lots[l].day
  BY <1>5, SplitRows
<1> QED BY <1>1, <1>2, <1>3, <1>4, <1>5, NextCases

\* A commit ends the transaction and releases its locks.
LEMMA CommittedDone ==
  ASSUME Asked, NEW f \in Fills, Committed(f)
  PROVE  /\ fill' \in [Fills -> FillRow]
         /\ fill'[f] = [fill[f] EXCEPT !.pc = "done", !.creates = {}, !.locked = {}, !.found = {}]
         /\ \A g \in Fills \ {f} : fill'[g] = fill[g]
         /\ fill'[f].pc = "done" /\ fill'[f].locked = {} /\ fill'[f].found = {}
         /\ fill'[f].day = fill[f].day
         /\ overlap' = overlap \cup UnseenBy(f)
<1>1. fill \in [Fills -> FillRow]
  BY DEF Asked
<1>2. fill[f] \in FillRow
  BY <1>1
<1>3. fill' = [fill EXCEPT ![f] = [fill[f] EXCEPT !.pc = "done", !.creates = {}, !.locked = {},
                                                  !.found = {}]]
  BY <1>1 DEF Committed
<1>4. [fill[f] EXCEPT !.pc = "done", !.creates = {}, !.locked = {}, !.found = {}] \in FillRow
  BY <1>2 DEF FillRow, Pcs
<1>5. /\ fill'[f] = [fill[f] EXCEPT !.pc = "done", !.creates = {}, !.locked = {}, !.found = {}]
      /\ \A g \in Fills \ {f} : fill'[g] = fill[g]
  BY <1>1, <1>3
<1>6. fill' \in [Fills -> FillRow]
  BY <1>1, <1>3, <1>4
<1>7. /\ fill'[f].pc = "done" /\ fill'[f].locked = {} /\ fill'[f].found = {}
      /\ fill'[f].day = fill[f].day
  BY <1>2, <1>5 DEF FillRow
<1>8. overlap' = overlap \cup UnseenBy(f)
  BY DEF Committed
<1> QED BY <1>5, <1>6, <1>7, <1>8

\* Every step keeps the rows sound.
LEMMA RowsStep ==
  ASSUME Rows, Asked, Locks, Next
  PROVE  Rows'
<1>0. \A f \in Fills : fill[f].pc = "done" => fill'[f].pc = "done"
  BY DoneStays
<1>00. \A l \in DOMAIN lots : l \in Buys /\ fill[l].pc = "done" /\ l \in Fills
  BY DEF Rows, Fills
<1>01. \A k \in DOMAIN consumed : k \in Sells \X DOMAIN lots /\ fill[k[1]].pc = "done" /\ k[1] \in Fills
  BY DEF Rows, Fills
<1>02. /\ \A l \in DOMAIN lots : fill'[l].pc = "done"
       /\ \A k \in DOMAIN consumed : fill'[k[1]].pc = "done"
  BY <1>0, <1>00, <1>01
<1>1. ASSUME UNCHANGED <<lots, consumed, adjusted>> PROVE Rows'
  BY <1>1, <1>02 DEF Rows
<1>2. ASSUME NEW b \in Buys, CommitBuy(b) PROVE Rows'
  <2>1. fill'[b].pc = "done"
    BY <1>2, BuyWrites, CommittedDone DEF Fills
  <2>2. /\ DOMAIN lots' = DOMAIN lots \cup {b} /\ lots'[b] \in TaxLot
        /\ \A l \in DOMAIN lots : lots'[l] = lots[l]
        /\ DOMAIN consumed' = DOMAIN consumed
        /\ \A k \in DOMAIN consumed : consumed'[k] \in Consumption
        /\ DOMAIN adjusted' = DOMAIN adjusted \cup fill[b].found
        /\ \A k \in DOMAIN adjusted : adjusted'[k] = adjusted[k]
        /\ \A k \in fill[b].found : adjusted'[k] = [lot |-> b, amount |-> BuyCarried(b)[k]]
    BY <1>2, CommitBuyRows
  <2>3. DOMAIN lots' \subseteq Buys /\ \A l \in DOMAIN lots' : lots'[l] \in TaxLot /\ fill'[l].pc = "done"
    BY <1>02, <2>1, <2>2 DEF Rows
  <2>4. DOMAIN consumed' \subseteq Sells \X DOMAIN lots'
    BY <1>01, <2>2
  <2>5. \A k \in DOMAIN consumed' : consumed'[k] \in Consumption /\ fill'[k[1]].pc = "done"
    BY <1>02, <2>2
  <2>6. DOMAIN adjusted' \subseteq DOMAIN consumed'
    BY <2>2 DEF Rows, Locks
  <2>7. \A k \in DOMAIN adjusted' : adjusted'[k] \in [lot : DOMAIN lots', amount : Int]
    <3> SUFFICES ASSUME NEW k \in DOMAIN adjusted'
                 PROVE  adjusted'[k] \in [lot : DOMAIN lots', amount : Int]
      OBVIOUS
    <3>1. CASE k \in DOMAIN adjusted
      BY <2>2, <3>1 DEF Rows
    <3>2. CASE k \in fill[b].found
      <4>1. BuyCarried(b)[k] \in Int /\ b \in DOMAIN lots'
        BY <2>2, <3>2, BuyCarriedInt
      <4> DEFINE z == BuyCarried(b)[k]
      <4>2. adjusted'[k] = [lot |-> b, amount |-> z]
        BY <2>2, <3>2
      <4> HIDE DEF z
      <4>3. z \in Int
        BY <4>1 DEF z
      <4> QED BY <4>1, <4>2, <4>3
    <3> QED BY <2>2, <3>1, <3>2
  <2> QED BY <2>3, <2>4, <2>5, <2>6, <2>7 DEF Rows
<1>3. ASSUME NEW s \in Sells, CommitSell(s) PROVE Rows'
  <2>1. fill'[s].pc = "done" /\ fill[s].pc = "scanned"
    BY <1>3, SellWrites, CommittedDone DEF Fills
  <2>2. /\ DOMAIN lots' = DOMAIN lots
        /\ \A l \in DOMAIN lots : lots'[l] \in TaxLot
        /\ DOMAIN consumed' = DOMAIN consumed \cup ({s} \X Drawn(s))
        /\ \A k \in DOMAIN consumed : consumed'[k] = consumed[k]
        /\ \A k \in {s} \X Drawn(s) : consumed'[k] \in Consumption
        /\ DOMAIN adjusted' = DOMAIN adjusted \cup {<<s, p[1]>> : p \in fill[s].found}
        /\ \A k \in DOMAIN adjusted : adjusted'[k] = adjusted[k]
        /\ \A p \in fill[s].found : adjusted'[<<s, p[1]>>] \in [lot : DOMAIN lots, amount : Int]
    BY <1>3, CommitSellRows
  <2>3. Drawn(s) \subseteq DOMAIN lots /\ fill[s].found \subseteq Drawn(s) \X DOMAIN lots
    BY <2>1 DEF Locks, SellLocks, Drawn, InTransaction
  <2>4. DOMAIN lots' \subseteq Buys /\ \A l \in DOMAIN lots' : lots'[l] \in TaxLot /\ fill'[l].pc = "done"
    BY <1>02, <2>2 DEF Rows
  <2>5. DOMAIN consumed' \subseteq Sells \X DOMAIN lots'
    BY <1>01, <2>2, <2>3
  <2>6. \A k \in DOMAIN consumed' : consumed'[k] \in Consumption /\ fill'[k[1]].pc = "done"
    <3>1. \A k \in DOMAIN consumed : consumed[k] \in Consumption
      BY DEF Rows
    <3>2. \A k \in {s} \X Drawn(s) : k[1] = s
      OBVIOUS
    <3> QED BY <1>02, <2>1, <2>2, <3>1, <3>2
  <2>7. DOMAIN adjusted' \subseteq DOMAIN consumed'
    <3>1. \A p \in fill[s].found : <<s, p[1]>> \in {s} \X Drawn(s)
      BY <2>3
    <3>2. DOMAIN adjusted \subseteq DOMAIN consumed
      BY DEF Rows
    <3> QED BY <2>2, <3>1, <3>2
  <2>8. \A k \in DOMAIN adjusted' : adjusted'[k] \in [lot : DOMAIN lots', amount : Int]
    <3>1. \A k \in DOMAIN adjusted : adjusted[k] \in [lot : DOMAIN lots, amount : Int]
      BY DEF Rows
    <3> QED BY <2>2, <3>1
  <2> QED BY <2>4, <2>5, <2>6, <2>7, <2>8 DEF Rows
<1>4. ASSUME NEW a, NEW d, DeclareDividendExDate(a, d) \/ PayDividend(a, d) PROVE Rows'
  BY <1>1, <1>4, DividendRows
<1>5. ASSUME NEW ratio \in Ratios, NEW d \in Days, ApplySplit(ratio, d) PROVE Rows'
  <2>1. /\ DOMAIN lots' = DOMAIN lots /\ \A l \in DOMAIN lots : lots'[l] \in TaxLot
        /\ UNCHANGED <<consumed, adjusted>>
    BY <1>5, SplitRows
  <2> QED BY <1>02, <2>1 DEF Rows
<1>6. CASE Prepares
  BY <1>1, <1>6 DEF Prepares
<1> QED BY <1>2, <1>3, <1>4, <1>5, <1>6, NextCases

\* A step that touches one fill and leaves the orders sound.
LEMMA OneFill ==
  ASSUME Asked, NEW f \in Fills, NEW r \in FillRow, fill' = [fill EXCEPT ![f] = r],
         r.pc # "none" => r.day \in Days,
         r.pc \notin {"began", "scanned"} => r.locked = {},
         r.pc # "scanned" => r.found = {},
         f \in Sells => sale'[f].status # "none",
         sale' \in [Sells -> SaleRow],
         \A s \in Sells : sale[s].status # "none" => sale'[s].status # "none",
         \A s \in Sells : Named(s)' \subseteq DOMAIN lots'
  PROVE  Asked'
<1>1. fill \in [Fills -> FillRow]
  BY DEF Asked
<1>2. fill' \in [Fills -> FillRow] /\ fill'[f] = r /\ \A g \in Fills \ {f} : fill'[g] = fill[g]
  BY <1>1
<1>3. ASSUME NEW g \in Fills
      PROVE  /\ fill'[g].pc # "none" => fill'[g].day \in Days
             /\ ~InTransaction(g)' => fill'[g].locked = {}
             /\ fill'[g].pc # "scanned" => fill'[g].found = {}
  <2>1. CASE g = f
    BY <1>2, <2>1 DEF InTransaction
  <2>2. CASE g # f
    BY <1>2, <2>2 DEF InTransaction, Asked
  <2> QED BY <2>1, <2>2
<1>4. ASSUME NEW s \in Sells, fill'[s].pc # "none" PROVE sale'[s].status # "none"
  <2>1. CASE s = f
    BY <2>1
  <2>2. CASE s # f
    <3>1. s \in Fills
      BY DEF Fills
    <3> QED BY <1>2, <1>4, <2>2, <3>1 DEF Asked
  <2> QED BY <2>1, <2>2
<1> QED BY <1>2, <1>3, <1>4 DEF Asked

\* Designations name lots, and stay what they are.
LEMMA SaleKept ==
  ASSUME Rows, Asked, Locks, Next, sale' = sale
  PROVE  /\ sale' \in [Sells -> SaleRow]
         /\ \A s \in Sells : sale[s].status # "none" => sale'[s].status # "none"
         /\ \A s \in Sells : Named(s)' \subseteq DOMAIN lots'
<1>1. DOMAIN lots \subseteq DOMAIN lots'
  BY LotsGrow
<1>2. \A s \in Sells : Named(s)' = Named(s)
  BY DEF Named
<1> QED BY <1>1, <1>2 DEF Asked

\* A designation names existing lots.
LEMMA PlaceSellAsked ==
  ASSUME Rows, Asked, NEW s \in Sells, NEW q \in Quantities,
         NEW n \in Seq(Nat), {n[i] : i \in DOMAIN n} \subseteq DOMAIN lots, PlaceSell(s, q, n)
  PROVE  Asked'
<1>0. q \in Nat
  BY LotsAssumption
<1>1. /\ sale[s].status = "none" /\ UNCHANGED <<lots, fill>>
      /\ sale' = [sale EXCEPT ![s] = [status |-> "approved", requested |-> q, filled |-> 0, named |-> n]]
  BY DEF PlaceSell
<1>2. [status |-> "approved", requested |-> q, filled |-> 0, named |-> n] \in SaleRow
  BY <1>0 DEF SaleRow
<1>3. /\ sale' \in [Sells -> SaleRow] /\ sale'[s].status = "approved" /\ sale'[s].named = n
      /\ \A t \in Sells \ {s} : sale'[t] = sale[t]
  BY <1>1, <1>2 DEF Asked
<1>4. ASSUME NEW t \in Sells PROVE Named(t)' \subseteq DOMAIN lots'
  <2>1. CASE t = s
    BY <1>1, <1>3, <2>1 DEF Named
  <2>2. CASE t # s
    BY <1>1, <1>3, <2>2 DEF Named, Asked
  <2> QED BY <2>1, <2>2
<1>5. \A f \in Fills : InTransaction(f)' <=> InTransaction(f)
  BY <1>1 DEF InTransaction
<1>6. \A t \in Sells : fill'[t].pc # "none" => sale'[t].status # "none"
  BY <1>1, <1>3 DEF Asked
<1> QED BY <1>1, <1>3, <1>4, <1>5, <1>6 DEF Asked

\* What a sell's scan finds: pairs of a lot drawn on and another one.
LEMMA LossesReplacedPairs ==
  ASSUME NEW s \in Sells, NEW p \in LossesReplaced(s)
  PROVE  /\ p \in Drawn(s) \X DOMAIN lots
         /\ p[1] \in Drawn(s) /\ Realized(s, p[1]) < 0 /\ p[2] \in Replacements(s, p[1])
<1>1. PICK l \in {d \in Drawn(s) : Realized(s, d) < 0} : p \in {l} \X Replacements(s, l)
  BY DEF LossesReplaced
<1>2. Replacements(s, l) \subseteq DOMAIN lots
  BY DEF Replacements
<1> QED BY <1>1, <1>2

\* Every step keeps orders and fills sound.
LEMMA AskedStep ==
  ASSUME Rows, Asked, Locks, Next
  PROVE  Asked'
<1>0. /\ fill \in [Fills -> FillRow] /\ sale \in [Sells -> SaleRow]
      /\ Sells \subseteq Fills /\ Buys \subseteq Fills
      /\ Buys \subseteq Nat /\ Sells \subseteq Nat /\ DOMAIN lots \subseteq Buys
  BY LotsAssumption DEF Asked, Fills, Rows
<1>1. ASSUME NEW s \in Sells, NEW q \in Quantities, PlaceSell(s, q, <<>>) PROVE Asked'
  <2>1. <<>> \in Seq(Nat) /\ {<<>>[i] : i \in DOMAIN <<>>} \subseteq DOMAIN lots
    OBVIOUS
  <2> QED BY <1>1, <2>1, PlaceSellAsked
<1>2. ASSUME NEW s \in Sells, NEW q \in Quantities, NEW l \in DOMAIN lots, PlaceSell(s, q, <<l>>)
      PROVE  Asked'
  <2>1. <<l>> \in Seq(Nat) /\ {<<l>>[i] : i \in DOMAIN <<l>>} \subseteq DOMAIN lots
    <3>1. l \in Nat
      BY <1>0
    <3>2. <<l>> \in Seq(Nat)
      BY <3>1
    <3>3. DOMAIN <<l>> = {1} /\ <<l>>[1] = l
      OBVIOUS
    <3> QED BY <3>2, <3>3
  <2> QED BY <1>2, <2>1, PlaceSellAsked
<1>3. ASSUME NEW s \in Sells, NEW q \in Quantities, NEW l \in DOMAIN lots, NEW m \in DOMAIN lots,
             PlaceSell(s, q, <<l, m>>)
      PROVE  Asked'
  <2>1. <<l, m>> \in Seq(Nat) /\ {<<l, m>>[i] : i \in DOMAIN <<l, m>>} \subseteq DOMAIN lots
    <3>1. l \in Nat /\ m \in Nat
      BY <1>0
    <3>2. <<l, m>> \in Seq(Nat)
      BY <3>1
    <3>3. DOMAIN <<l, m>> = {1, 2} /\ <<l, m>>[1] = l /\ <<l, m>>[2] = m
      OBVIOUS
    <3> QED BY <3>2, <3>3
  <2> QED BY <1>3, <2>1, PlaceSellAsked
<1>4. ASSUME NEW s \in Sells, SubmitSell(s) PROVE Asked'
  <2>1. /\ UNCHANGED <<lots, fill>> /\ sale' = [sale EXCEPT ![s].status = "open"]
    BY <1>4 DEF SubmitSell
  <2>2. /\ sale' \in [Sells -> SaleRow]
        /\ \A t \in Sells : /\ sale'[t].named = sale[t].named
                            /\ sale[t].status # "none" => sale'[t].status # "none"
    BY <1>0, <2>1 DEF SaleRow
  <2>3. \A t \in Sells : Named(t)' = Named(t)
    BY <2>2 DEF Named
  <2>4. \A f \in Fills : InTransaction(f)' <=> InTransaction(f)
    BY <2>1 DEF InTransaction
  <2> QED BY <2>1, <2>2, <2>3, <2>4 DEF Asked
<1>5. ASSUME NEW s \in Sells, BeginSell(s) PROVE Asked'
  <2> DEFINE r == [fill[s] EXCEPT !.pc = "began", !.creates = Missing(SellRoles),
                                  !.locked = Selected(s)]
  <2>1. fill' = [fill EXCEPT ![s] = r] /\ sale' = sale /\ fill[s].pc = "waiting"
    BY <1>0, <1>5 DEF BeginSell
  <2>2. Selected(s) \subseteq Buys /\ Missing(SellRoles) \subseteq Roles
    BY <1>0 DEF Selected, OpenLots, Missing, SellRoles, BuyRoles, Roles, Asked
  <2>3. fill[s] \in FillRow /\ fill[s].found = {} /\ fill[s].day \in Days /\ sale[s].status # "none"
    BY <1>0, <2>1 DEF Asked
  <2>4. r \in FillRow /\ r.pc = "began" /\ r.found = {} /\ r.day \in Days
    BY <2>2, <2>3 DEF FillRow, Pcs
  <2> HIDE DEF r
  <2> QED BY <1>0, <2>1, <2>3, <2>4, SaleKept, OneFill
<1>6. ASSUME NEW s \in Sells, ScanSell(s) PROVE Asked'
  <2> DEFINE r == [fill[s] EXCEPT !.pc = "scanned", !.found = LossesReplaced(s)]
  <2>1. fill' = [fill EXCEPT ![s] = r] /\ sale' = sale /\ fill[s].pc = "began"
    BY <1>0, <1>6 DEF ScanSell
  <2>2. LossesReplaced(s) \subseteq Nat \X Nat
    <3> SUFFICES ASSUME NEW p \in LossesReplaced(s) PROVE p \in Nat \X Nat
      OBVIOUS
    <3>1. p \in Drawn(s) \X DOMAIN lots
      BY LossesReplacedPairs
    <3>2. Drawn(s) \subseteq Buys
      BY <1>0 DEF Drawn, FillRow
    <3> QED BY <1>0, <3>1, <3>2
  <2>3. fill[s] \in FillRow /\ fill[s].day \in Days /\ sale[s].status # "none"
    BY <1>0, <2>1 DEF Asked
  <2>4. r \in FillRow /\ r.pc = "scanned" /\ r.day \in Days
    BY <2>2, <2>3 DEF FillRow, Pcs
  <2> HIDE DEF r
  <2> QED BY <1>0, <2>1, <2>3, <2>4, SaleKept, OneFill
<1>7. ASSUME NEW s \in Sells, CommitSell(s) PROVE Asked'
  <2> DEFINE r == [fill[s] EXCEPT !.pc = "done", !.creates = {}, !.locked = {}, !.found = {}]
  <2>1. fill' = [fill EXCEPT ![s] = r] /\ fill[s].pc = "scanned"
    <3>1. Committed(s) /\ fill[s].pc = "scanned"
      BY <1>7, SellWrites
    <3> QED BY <1>0, <3>1 DEF Committed
  <2>2. /\ sale' = [sale EXCEPT ![s].filled = @ + fill[s].quantity,
                   ![s].status = IF sale[s].filled + fill[s].quantity = sale[s].requested
                                 THEN "filled" ELSE "open"]
    BY <1>7, SellWrites
  <2>3. fill[s] \in FillRow /\ fill[s].day \in Days /\ fill[s].quantity \in Nat
    BY <1>0, <2>1 DEF Asked, FillRow
  <2>4. /\ sale' \in [Sells -> SaleRow]
        /\ \A t \in Sells : /\ sale'[t].named = sale[t].named
                            /\ sale[t].status # "none" => sale'[t].status # "none"
        /\ sale'[s].status # "none"
    <3> DEFINE n == sale[s].filled + fill[s].quantity
               z == IF n = sale[s].requested THEN "filled" ELSE "open"
               w == [sale[s] EXCEPT !.filled = n, !.status = z]
    <3>1. sale[s] \in SaleRow /\ sale[s].filled \in Nat
      BY <1>0 DEF SaleRow
    <3>2. n \in Nat
      BY <2>3, <3>1
    <3>3. z \in {"filled", "open"}
      OBVIOUS
    <3>4. sale' = [sale EXCEPT ![s] = w]
      BY <1>0, <2>2
    <3>5. w \in SaleRow /\ w.named = sale[s].named /\ w.status # "none"
      <4> HIDE DEF n, z
      <4> QED BY <3>1, <3>2, <3>3 DEF SaleRow
    <3> HIDE DEF w
    <3> QED BY <1>0, <3>4, <3>5
  <2>5. \A t \in Sells : Named(t)' \subseteq DOMAIN lots'
    BY <2>4, LotsGrow DEF Named, Asked
  <2>6. r \in FillRow /\ r.pc = "done" /\ r.day \in Days /\ r.locked = {} /\ r.found = {}
    BY <2>3 DEF FillRow, Pcs
  <2> HIDE DEF r
  <2> QED BY <1>0, <2>1, <2>4, <2>5, <2>6, OneFill
<1>8. ASSUME NEW b \in Buys, BeginBuy(b) PROVE Asked'
  <2> DEFINE r == [fill[b] EXCEPT !.pc = "began", !.creates = Missing(BuyRoles)]
  <2>1. fill' = [fill EXCEPT ![b] = r] /\ sale' = sale /\ fill[b].pc = "waiting"
    BY <1>0, <1>8 DEF BeginBuy
  <2>2. Missing(BuyRoles) \subseteq Roles /\ b \notin Sells
    BY LotsAssumption DEF Missing, BuyRoles, Roles
  <2>3. fill[b] \in FillRow /\ fill[b].found = {} /\ fill[b].day \in Days
    BY <1>0, <2>1 DEF Asked
  <2>4. r \in FillRow /\ r.pc = "began" /\ r.found = {} /\ r.day \in Days
    BY <2>2, <2>3 DEF FillRow, Pcs
  <2> HIDE DEF r
  <2> QED BY <1>0, <2>1, <2>2, <2>4, SaleKept, OneFill
<1>9. ASSUME NEW b \in Buys, ScanBuy(b) PROVE Asked'
  <2> DEFINE r == [fill[b] EXCEPT !.pc = "scanned", !.found = UnadjustedLosses(b)]
  <2>1. fill' = [fill EXCEPT ![b] = r] /\ sale' = sale /\ fill[b].pc = "began"
    BY <1>0, <1>9 DEF ScanBuy
  <2>2. UnadjustedLosses(b) \subseteq Nat \X Nat /\ b \notin Sells
    <3>1. UnadjustedLosses(b) \subseteq Sells \X DOMAIN lots
      BY DEF UnadjustedLosses, Rows
    <3>2. b \notin Sells
      BY LotsAssumption
    <3> QED BY <1>0, <3>1, <3>2
  <2>3. fill[b] \in FillRow /\ fill[b].day \in Days
    BY <1>0, <2>1 DEF Asked
  <2>4. r \in FillRow /\ r.pc = "scanned" /\ r.day \in Days
    BY <2>2, <2>3 DEF FillRow, Pcs
  <2> HIDE DEF r
  <2> QED BY <1>0, <2>1, <2>2, <2>4, SaleKept, OneFill
<1>10. ASSUME NEW b \in Buys, CommitBuy(b) PROVE Asked'
  <2> DEFINE r == [fill[b] EXCEPT !.pc = "done", !.creates = {}, !.locked = {}, !.found = {}]
  <2>1. fill' = [fill EXCEPT ![b] = r] /\ fill[b].pc = "scanned" /\ sale' = sale
    <3>1. Committed(b) /\ fill[b].pc = "scanned" /\ sale' = sale
      BY <1>10, BuyWrites
    <3> QED BY <1>0, <3>1 DEF Committed
  <2>2. b \notin Sells
    BY LotsAssumption
  <2>3. fill[b] \in FillRow /\ fill[b].day \in Days
    BY <1>0, <2>1 DEF Asked
  <2>4. r \in FillRow /\ r.pc = "done" /\ r.day \in Days /\ r.locked = {} /\ r.found = {}
    BY <2>3 DEF FillRow, Pcs
  <2> HIDE DEF r
  <2> QED BY <1>0, <2>1, <2>2, <2>4, SaleKept, OneFill
<1>11. ASSUME NEW f \in Fills, NEW report \in Reports[f], BrokerReports(f, report) PROVE Asked'
  <2> DEFINE r == [NoFill EXCEPT !.pc = "waiting", !.quantity = report.quantity,
                                 !.price = report.price, !.day = report.day]
  <2>1. fill' = [fill EXCEPT ![f] = r] /\ sale' = sale /\ (f \in Sells => sale[f].status = "open")
    BY <1>11 DEF BrokerReports
  <2>2. report.quantity \in Nat /\ report.price \in Nat /\ report.day \in Days /\ Days \subseteq Nat
    BY LotsAssumption DEF Fills
  <2>3. r \in FillRow /\ r.pc = "waiting" /\ r.day \in Days /\ r.locked = {} /\ r.found = {}
    BY <2>2 DEF NoFill, FillRow, Pcs
  <2>4. f \in Sells => sale'[f].status # "none"
    BY <2>1
  <2> HIDE DEF r
  <2> QED BY <1>0, <2>1, <2>3, <2>4, SaleKept, OneFill
<1>12. ASSUME NEW f \in Fills, Abort(f) PROVE Asked'
  <2> DEFINE r == [fill[f] EXCEPT !.pc = "waiting", !.creates = {}, !.locked = {}, !.found = {}]
  <2>1. fill' = [fill EXCEPT ![f] = r] /\ sale' = sale /\ fill[f].pc # "none"
    BY <1>0, <1>12 DEF Abort, InTransaction
  <2>3. fill[f] \in FillRow /\ fill[f].day \in Days /\ (f \in Sells => sale[f].status # "none")
    BY <1>0, <2>1 DEF Asked
  <2>4. r \in FillRow /\ r.pc = "waiting" /\ r.day \in Days /\ r.locked = {} /\ r.found = {}
    BY <2>3 DEF FillRow, Pcs
  <2> HIDE DEF r
  <2> QED BY <1>0, <2>1, <2>3, <2>4, SaleKept, OneFill
<1>13. ASSUME NEW f \in Fills, DeadLetter(f) PROVE Asked'
  <2> DEFINE r == [fill[f] EXCEPT !.pc = "dead", !.creates = {}, !.locked = {}]
  <2>1. fill' = [fill EXCEPT ![f] = r] /\ sale' = sale /\ fill[f].pc \in {"waiting", "began"}
    BY <1>0, <1>13 DEF DeadLetter, Failing
  <2>3. fill[f] \in FillRow /\ fill[f].day \in Days /\ (f \in Sells => sale[f].status # "none")
        /\ fill[f].found = {}
    BY <1>0, <2>1 DEF Asked
  <2>4. r \in FillRow /\ r.pc = "dead" /\ r.day \in Days /\ r.locked = {} /\ r.found = {}
    BY <2>3 DEF FillRow, Pcs
  <2> HIDE DEF r
  <2> QED BY <1>0, <2>1, <2>3, <2>4, SaleKept, OneFill
<1>14. ASSUME fill' = fill, sale' = sale PROVE Asked'
  <2>1. \A f \in Fills : InTransaction(f)' <=> InTransaction(f)
    BY <1>14 DEF InTransaction
  <2>2. \A s \in Sells : Named(s)' \subseteq DOMAIN lots'
    BY <1>14, SaleKept
  <2> QED BY <1>14, <2>1, <2>2 DEF Asked
<1>15. ASSUME NEW a, NEW d, DeclareDividendExDate(a, d) \/ PayDividend(a, d) PROVE Asked'
  BY <1>14, <1>15, DividendRows
<1>16. ASSUME NEW ratio \in Ratios, NEW d \in Days, ApplySplit(ratio, d) PROVE Asked'
  BY <1>14, <1>16, SplitRows
<1>17. ActionDays \subseteq Days
  BY LotsAssumption
<1> QED BY <1>1, <1>2, <1>3, <1>4, <1>5, <1>6, <1>7, <1>8, <1>9, <1>10, <1>11, <1>12, <1>13,
           <1>15, <1>16, <1>17 DEF Next

-----------------------------------------------------------------------------
\* The row locks of a sell keep what it read

\* What a sell holds is locked for the others.
LEMMA HoldsLocked ==
  ASSUME Asked, Locks, NEW s \in Sells
  PROVE  /\ Holds(s) \subseteq DOMAIN lots
         /\ Holds(s) \subseteq LockedLots
         /\ \A t \in Sells \ {s} : Holds(s) \subseteq LotsLockedBy({f \in Fills \ {t} : InTransaction(f)})
         /\ ~InTransaction(s) => Holds(s) = {}
<1>1. s \in Fills
  BY DEF Fills
<1>2. CASE ~InTransaction(s)
  <2>1. fill[s].locked = {} /\ fill[s].found = {}
    BY <1>1, <1>2 DEF Asked, InTransaction
  <2> QED BY <2>1, <1>2 DEF Holds
<1>3. CASE InTransaction(s)
  <2>1. Holds(s) \subseteq DOMAIN lots
    BY <1>3 DEF Locks, SellLocks, Holds
  <2>2. Holds(s) \subseteq LockedLots
    BY <1>1, <1>3 DEF Holds, LockedLots, LotsLockedBy
  <2>3. \A t \in Sells \ {s} : Holds(s) \subseteq LotsLockedBy({f \in Fills \ {t} : InTransaction(f)})
    BY <1>1, <1>3 DEF Holds, LotsLockedBy
  <2> QED BY <1>3, <2>1, <2>2, <2>3
<1> QED BY <1>2, <1>3

\* No one else writes a lot a sell holds.
LEMMA HeldKept ==
  ASSUME Rows, Asked, Locks, Next, NEW s \in Sells, ~CommitSell(s), NEW l \in Holds(s)
  PROVE  l \in DOMAIN lots /\ lots'[l] = lots[l]
<1>1. l \in DOMAIN lots /\ l \in LockedLots
  BY HoldsLocked
<1>2. CASE Prepares
  BY <1>1, <1>2 DEF Prepares
<1>3. ASSUME NEW b \in Buys, CommitBuy(b) PROVE lots'[l] = lots[l]
  BY <1>1, <1>3, CommitBuyRows
<1>4. ASSUME NEW t \in Sells, CommitSell(t) PROVE lots'[l] = lots[l]
  <2>1. l \notin Holds(t)
    BY <1>4 DEF Locks
  <2> QED BY <1>1, <1>4, <2>1, CommitSellRows
<1>5. ASSUME NEW a, NEW d, DeclareDividendExDate(a, d) \/ PayDividend(a, d) PROVE lots'[l] = lots[l]
  BY <1>5, DividendRows
<1>6. ASSUME NEW ratio \in Ratios, NEW d \in Days, ApplySplit(ratio, d) PROVE lots'[l] = lots[l]
  <2>1. l \notin OpenLots
    BY <1>1, <1>6, SplitRows
  <2> QED BY <1>1, <1>6, <2>1, SplitRows
<1> QED BY <1>1, <1>2, <1>3, <1>4, <1>5, <1>6, NextCases

\* A sell that reads the same rows takes the same from each.
LEMMA TakeKept ==
  ASSUME NEW s \in Sells,
         fill'[s].locked = fill[s].locked, fill'[s].quantity = fill[s].quantity,
         fill'[s].price = fill[s].price, sale'[s].named = sale[s].named,
         \A l \in fill[s].locked : lots'[l] = lots[l]
  PROVE  /\ Remaining(fill[s].locked)' = Remaining(fill[s].locked)
         /\ \A l \in fill[s].locked : /\ Take(s, l)' = Take(s, l)
                                      /\ ConsumedBasis(s, l)' = ConsumedBasis(s, l)
                                      /\ Realized(s, l)' = Realized(s, l)
         /\ Drawn(s)' = Drawn(s)
<1>1. Remaining(fill[s].locked)' = Remaining(fill[s].locked)
  <2>1. [l \in fill'[s].locked |-> lots'[l].remaining] = [l \in fill[s].locked |-> lots[l].remaining]
    OBVIOUS
  <2> QED BY <2>1 DEF Remaining
<1>2. ASSUME NEW l \in fill[s].locked
      PROVE  /\ Take(s, l)' = Take(s, l)
             /\ ConsumedBasis(s, l)' = ConsumedBasis(s, l)
             /\ Realized(s, l)' = Realized(s, l)
  <2>1. \A a \in fill[s].locked : Older(a, l)' <=> Older(a, l)
    BY DEF Older
  <2>2. \A a : Position(s, a)' = Position(s, a)
    BY DEF Position
  <2>3. Ahead(s, l)' = Ahead(s, l) /\ Ahead(s, l) \subseteq fill[s].locked
    <3>1. Ahead(s, l)' = IF sale'[s].named # <<>>
                         THEN {a \in fill'[s].locked : Position(s, a)' < Position(s, l)'}
                         ELSE {a \in fill'[s].locked : Older(a, l)'}
      BY DEF Ahead
    <3>2. {a \in fill'[s].locked : Position(s, a)' < Position(s, l)'}
            = {a \in fill[s].locked : Position(s, a) < Position(s, l)}
      BY <2>2
    <3>3. {a \in fill'[s].locked : Older(a, l)'} = {a \in fill[s].locked : Older(a, l)}
      BY <2>1
    <3>4. Ahead(s, l)' = Ahead(s, l)
      BY <3>1, <3>2, <3>3 DEF Ahead
    <3>5. Ahead(s, l) \subseteq fill[s].locked
      BY DEF Ahead
    <3> QED BY <3>4, <3>5
  <2>4. Remaining(Ahead(s, l))' = Remaining(Ahead(s, l))
    <3>1. [a \in Ahead(s, l)' |-> lots'[a].remaining] = [a \in Ahead(s, l) |-> lots[a].remaining]
      BY <2>3
    <3>2. Remaining(Ahead(s, l))' = SumOver([a \in Ahead(s, l)' |-> lots'[a].remaining], Ahead(s, l)')
      BY DEF Remaining
    <3> QED BY <2>3, <3>1, <3>2 DEF Remaining
  <2>5. Take(s, l)' = Take(s, l)
    BY <2>4 DEF Take
  <2>6. ConsumedBasis(s, l)' = ConsumedBasis(s, l)
    BY <2>5 DEF ConsumedBasis
  <2> QED BY <2>5, <2>6 DEF Realized
<1>3. Drawn(s)' = Drawn(s)
  <2>1. Drawn(s)' = {l \in fill'[s].locked : Take(s, l)' > 0}
    BY DEF Drawn
  <2> QED BY <1>2, <2>1 DEF Drawn
<1> QED BY <1>1, <1>2, <1>3

\* The designation of an order with a fill stays.
LEMMA NamedKept ==
  ASSUME Asked, Next, NEW s \in Sells, sale[s].status # "none"
  PROVE  sale'[s].named = sale[s].named
<1>0. sale \in [Sells -> SaleRow]
  BY DEF Asked
<1>1. ASSUME NEW t \in Sells, NEW q, NEW n, PlaceSell(t, q, n) PROVE sale'[s].named = sale[s].named
  BY <1>0, <1>1 DEF PlaceSell
<1>2. ASSUME NEW t \in Sells, SubmitSell(t) PROVE sale'[s].named = sale[s].named
  BY <1>0, <1>2 DEF SubmitSell, SaleRow
<1>3. ASSUME NEW t \in Sells, CommitSell(t) PROVE sale'[s].named = sale[s].named
  <2>1. sale' = [sale EXCEPT ![t].filled = @ + fill[t].quantity,
                   ![t].status = IF sale[t].filled + fill[t].quantity = sale[t].requested
                                 THEN "filled" ELSE "open"]
    BY <1>3, SellWrites
  <2> QED BY <1>0, <2>1 DEF SaleRow
<1>4. ASSUME NEW t \in Sells, BeginSell(t) \/ ScanSell(t) PROVE sale' = sale
  BY <1>4 DEF BeginSell, ScanSell
<1>5. ASSUME NEW b \in Buys, BeginBuy(b) \/ ScanBuy(b) \/ CommitBuy(b) PROVE sale' = sale
  BY <1>5 DEF BeginBuy, ScanBuy, CommitBuy
<1>6. ASSUME NEW f \in Fills, NEW r, BrokerReports(f, r) PROVE sale' = sale
  BY <1>6 DEF BrokerReports
<1>7. ASSUME NEW f \in Fills, Abort(f) \/ DeadLetter(f) PROVE sale' = sale
  BY <1>7 DEF Abort, DeadLetter
<1>8. ASSUME NEW a, NEW d, DeclareDividendExDate(a, d) \/ PayDividend(a, d) PROVE sale' = sale
  BY <1>8, DividendRows
<1>9. ASSUME NEW ratio, NEW d, ApplySplit(ratio, d) PROVE sale' = sale
  BY <1>9 DEF ApplySplit, CorporateAction
<1> QED BY <1>1, <1>2, <1>3, <1>4, <1>5, <1>6, <1>7, <1>8, <1>9 DEF Next

\* A fill in a transaction moves only by its own steps.
LEMMA OwnStep ==
  ASSUME Asked, Next, NEW f \in Fills
  PROVE  \/ fill'[f] = fill[f]
         \/ f \in Sells /\ (BeginSell(f) \/ ScanSell(f))
         \/ f \in Buys /\ (BeginBuy(f) \/ ScanBuy(f))
         \/ fill'[f].pc \notin {"began", "scanned"}
<1>0. fill \in [Fills -> FillRow] /\ Sells \subseteq Fills /\ Buys \subseteq Fills
  BY DEF Asked, Fills
<1> DEFINE G == \/ fill'[f] = fill[f]
                \/ f \in Sells /\ (BeginSell(f) \/ ScanSell(f))
                \/ f \in Buys /\ (BeginBuy(f) \/ ScanBuy(f))
                \/ fill'[f].pc \notin {"began", "scanned"}
<1>1. ASSUME NEW t \in Sells, NEW q, NEW n, PlaceSell(t, q, n) PROVE G
  BY <1>1 DEF PlaceSell
<1>2. ASSUME NEW t \in Sells, SubmitSell(t) PROVE G
  BY <1>2 DEF SubmitSell
<1>3. ASSUME NEW t \in Sells, CommitSell(t) PROVE G
  BY <1>0, <1>3, SellWrites, CommittedDone
<1>4. ASSUME NEW t \in Sells, BeginSell(t) \/ ScanSell(t) PROVE G
  <2>1. CASE t = f
    BY <1>4, <2>1
  <2>2. CASE t # f
    BY <1>0, <1>4, <2>2 DEF BeginSell, ScanSell
  <2> QED BY <2>1, <2>2
<1>5. ASSUME NEW b \in Buys, BeginBuy(b) \/ ScanBuy(b) PROVE G
  <2>1. CASE b = f
    BY <1>5, <2>1
  <2>2. CASE b # f
    BY <1>0, <1>5, <2>2 DEF BeginBuy, ScanBuy
  <2> QED BY <2>1, <2>2
<1>6. ASSUME NEW b \in Buys, CommitBuy(b) PROVE G
  BY <1>0, <1>6, BuyWrites, CommittedDone
<1>7. ASSUME NEW g \in Fills, NEW r, BrokerReports(g, r) PROVE G
  BY <1>0, <1>7 DEF BrokerReports, NoFill
<1>8. ASSUME NEW g \in Fills, Abort(g) PROVE G
  BY <1>0, <1>8 DEF Abort, FillRow
<1>9. ASSUME NEW g \in Fills, DeadLetter(g) PROVE G
  BY <1>0, <1>9 DEF DeadLetter, FillRow
<1>10. ASSUME NEW a, NEW d, DeclareDividendExDate(a, d) \/ PayDividend(a, d) PROVE G
  BY <1>10, DividendRows
<1>11. ASSUME NEW ratio, NEW d, ApplySplit(ratio, d) PROVE G
  BY <1>11 DEF ApplySplit, CorporateAction
<1> HIDE DEF G
<1>12. G
  BY <1>1, <1>2, <1>3, <1>4, <1>5, <1>6, <1>7, <1>8, <1>9, <1>10, <1>11 DEF Next
<1> QED BY <1>12 DEF G

\* Of two lots, at most one is the older.
LEMMA OlderOnce ==
  ASSUME Rows, NEW a \in DOMAIN lots, NEW b \in DOMAIN lots
  PROVE  /\ ~(Older(a, b) /\ Older(b, a))
         /\ a = b \/ Older(a, b) \/ Older(b, a)
         /\ \A c \in DOMAIN lots : Older(a, b) /\ Older(b, c) => Older(a, c)
<1>1. \A x \in DOMAIN lots : lots[x].day \in Int /\ x \in Int
  BY LotNumbers
<1> QED BY <1>1 DEF Older

\* A sell keeps what it needs of its locks through the steps of all others.
LEMMA SellLocksStep ==
  ASSUME Rows, Asked, Locks, Next, Asked', NEW s \in Sells
  PROVE  SellLocks(s)'
<1>0. s \in Fills /\ SellLocks(s)
  BY DEF Fills, Locks
<1>1. ASSUME fill'[s].pc \notin {"began", "scanned"} PROVE SellLocks(s)'
  <2>1. ~InTransaction(s)' /\ fill'[s].found = {}
    BY <1>0, <1>1 DEF Asked, InTransaction
  <2> QED BY <2>1 DEF SellLocks
<1>2. ASSUME fill'[s] = fill[s], fill[s].pc \in {"began", "scanned"} PROVE SellLocks(s)'
  <2>1. sale'[s].named = sale[s].named
    BY <1>0, <1>2, NamedKept DEF Asked
  <2>2. ~CommitSell(s)
    <3>1. CommitSell(s) => fill'[s].pc = "done"
      BY <1>0, SellWrites, CommittedDone
    <3> QED BY <1>2, <3>1
  <2>3. \A l \in fill[s].locked : lots'[l] = lots[l]
    BY <2>2, HeldKept DEF Holds
  <2>4. /\ Remaining(fill[s].locked)' = Remaining(fill[s].locked)
        /\ Drawn(s)' = Drawn(s)
    BY <1>2, <2>1, <2>3, TakeKept
  <2>5. Named(s)' = Named(s)
    BY <2>1 DEF Named
  <2>6. DOMAIN lots \subseteq DOMAIN lots'
    BY LotsGrow
  <2>7. InTransaction(s)
    BY <1>2 DEF InTransaction
  <2>8. Remaining(fill[s].locked)' >= fill[s].quantity
    BY <1>0, <2>4, <2>7 DEF SellLocks
  <2>9. fill'[s].found \subseteq Drawn(s)' \X DOMAIN lots'
    BY <1>0, <1>2, <2>4, <2>6 DEF SellLocks
  <2> QED BY <1>0, <1>2, <2>1, <2>5, <2>6, <2>7, <2>8, <2>9 DEF SellLocks
<1>3. ASSUME BeginSell(s) PROVE SellLocks(s)'
  <2>1. /\ fill[s].pc = "waiting" /\ SellAccepted(s) /\ UNCHANGED <<lots, sale>>
        /\ fill' = [fill EXCEPT ![s].pc = "began", ![s].creates = Missing(SellRoles),
                                ![s].locked = Selected(s)]
    BY <1>3 DEF BeginSell
  <2>2. fill[s] \in FillRow /\ fill \in [Fills -> FillRow] /\ fill[s].found = {}
    BY <1>0, <2>1 DEF Asked
  <2>3. fill'[s].locked = Selected(s) /\ fill'[s].found = {} /\ fill'[s].quantity = fill[s].quantity
    BY <1>0, <2>1, <2>2 DEF FillRow
  <2>4. Selected(s) \subseteq DOMAIN lots /\ (sale[s].named # <<>> => Selected(s) = Named(s))
    BY DEF Selected, OpenLots, Asked
  <2>5. Named(s)' = Named(s)
    BY <2>1 DEF Named
  <2>6. Remaining(fill[s].locked)' = Remaining(Selected(s))
    BY <2>1, <2>3 DEF Remaining
  <2> QED BY <2>1, <2>3, <2>4, <2>5, <2>6 DEF SellLocks, SellAccepted
<1>4. ASSUME ScanSell(s) PROVE SellLocks(s)'
  <2>1. /\ fill[s].pc = "began" /\ UNCHANGED <<lots, sale>>
        /\ fill' = [fill EXCEPT ![s].pc = "scanned", ![s].found = LossesReplaced(s)]
    BY <1>4 DEF ScanSell
  <2>2. fill[s] \in FillRow /\ fill \in [Fills -> FillRow] /\ InTransaction(s)
    BY <1>0, <2>1 DEF Asked, InTransaction
  <2>3. /\ fill'[s].locked = fill[s].locked /\ fill'[s].found = LossesReplaced(s)
        /\ fill'[s].quantity = fill[s].quantity /\ fill'[s].price = fill[s].price
    BY <1>0, <2>1, <2>2 DEF FillRow
  <2>4. /\ Remaining(fill[s].locked)' = Remaining(fill[s].locked)
        /\ Drawn(s)' = Drawn(s)
    BY <2>1, <2>3, TakeKept
  <2>5. Named(s)' = Named(s)
    BY <2>1 DEF Named
  <2>6. LossesReplaced(s) \subseteq Drawn(s) \X DOMAIN lots
    BY LossesReplacedPairs
  <2>7. ASSUME NEW p \in LossesReplaced(s), NEW q \in LossesReplaced(s), p[1] = q[1]
        PROVE  p = q
    <3>1. /\ p \in Drawn(s) \X DOMAIN lots /\ p[2] \in Replacements(s, p[1])
          /\ q \in Drawn(s) \X DOMAIN lots /\ q[2] \in Replacements(s, p[1])
      BY <2>7, LossesReplacedPairs
    <3>2. p[2] # q[2] => Older(p[2], q[2]) /\ Older(q[2], p[2])
      BY <3>1 DEF Replacements
    <3>3. p[2] = q[2]
      BY <3>1, <3>2, OlderOnce
    <3> QED BY <2>7, <3>1, <3>3
  <2>8. Remaining(fill[s].locked)' >= fill[s].quantity
    BY <1>0, <2>2, <2>4 DEF SellLocks
  <2>9. fill'[s].found \subseteq Drawn(s)' \X DOMAIN lots'
    BY <2>1, <2>3, <2>4, <2>6
  <2> QED BY <1>0, <2>1, <2>2, <2>3, <2>5, <2>7, <2>8, <2>9 DEF SellLocks
<1>5. s \notin Buys
  BY LotsAssumption
<1>6. fill'[s] = fill[s] /\ fill[s].pc \notin {"began", "scanned"} => fill'[s].pc \notin {"began", "scanned"}
  OBVIOUS
<1> QED BY <1>0, <1>1, <1>2, <1>3, <1>4, <1>5, <1>6, OwnStep

\* Two sells never hold the same lot.
LEMMA HoldsApart ==
  ASSUME Rows, Asked, Locks, Next, Asked', NEW s \in Sells, NEW t \in Sells, s # t
  PROVE  Holds(s)' \cap Holds(t)' = {}
<1>0. /\ fill \in [Fills -> FillRow] /\ s \in Fills /\ t \in Fills /\ s \notin Buys /\ t \notin Buys
      /\ Holds(s) \cap Holds(t) = {}
  BY LotsAssumption DEF Asked, Fills, Locks
<1>1. ASSUME NEW u \in Sells, fill'[u] = fill[u] PROVE Holds(u)' = Holds(u)
  BY <1>1 DEF Holds
<1>2. ASSUME NEW u \in Sells, fill'[u].pc \notin {"began", "scanned"} PROVE Holds(u)' = {}
  <2>1. u \in Fills
    BY DEF Fills
  <2>2. fill'[u].locked = {} /\ fill'[u].found = {}
    BY <1>2, <2>1 DEF Asked, InTransaction
  <2> QED BY <2>2 DEF Holds
<1>3. ASSUME NEW u \in Sells, NEW v \in Sells, u # v, BeginSell(u) \/ ScanSell(u)
      PROVE  Holds(u)' \cap Holds(v)' = {}
  <2>0. u \in Fills /\ v \in Fills /\ fill[u] \in FillRow
    BY <1>0 DEF Fills
  <2>1. fill'[v] = fill[v]
    BY <1>0, <1>3, <2>0 DEF BeginSell, ScanSell
  <2>2. Holds(v)' = Holds(v)
    BY <1>1, <2>1
  <2>3. Holds(v) \subseteq LockedLots /\ Holds(v) \subseteq LotsLockedBy({f \in Fills \ {u} : InTransaction(f)})
    BY <1>3, HoldsLocked
  <2>4. CASE BeginSell(u)
    <3>1. fill'[u].locked = Selected(u) /\ fill'[u].found = {} /\ Selected(u) \cap LockedLots = {}
      BY <1>0, <2>0, <2>4 DEF BeginSell, FillRow, Asked
    <3> QED BY <2>2, <2>3, <3>1 DEF Holds
  <2>5. CASE ScanSell(u)
    <3>1. /\ fill'[u].locked = fill[u].locked /\ fill'[u].found = LossesReplaced(u)
          /\ {p[2] : p \in LossesReplaced(u)} \cap LotsLockedBy({f \in Fills \ {u} : InTransaction(f)}) = {}
      BY <1>0, <2>0, <2>5 DEF ScanSell, FillRow
    <3>2. fill[u].locked \cap Holds(v) = {}
      BY <1>3 DEF Locks, Holds
    <3> QED BY <2>2, <2>3, <3>1, <3>2 DEF Holds
  <2> QED BY <1>3, <2>4, <2>5
<1>4. \A u \in {s, t} : \/ fill'[u] = fill[u] \/ BeginSell(u) \/ ScanSell(u)
                        \/ fill'[u].pc \notin {"began", "scanned"}
  BY <1>0, OwnStep
<1>5. CASE BeginSell(s) \/ ScanSell(s)
  BY <1>3, <1>5
<1>6. CASE BeginSell(t) \/ ScanSell(t)
  BY <1>3, <1>6
<1>7. CASE /\ fill'[s] = fill[s] \/ fill'[s].pc \notin {"began", "scanned"}
           /\ fill'[t] = fill[t] \/ fill'[t].pc \notin {"began", "scanned"}
  BY <1>0, <1>1, <1>2, <1>7
<1> QED BY <1>4, <1>5, <1>6, <1>7

\* A loss found by a buy is still unadjusted, and no other buy has found it.
LEMMA LossesApart ==
  ASSUME Rows, Asked, Locks, Next, Asked', NEW b \in Buys
  PROVE  /\ fill'[b].found \subseteq DOMAIN consumed' \ DOMAIN adjusted'
         /\ \A a \in Buys : a # b => fill'[a].found \cap fill'[b].found = {}
<1>0. /\ fill \in [Fills -> FillRow] /\ Buys \subseteq Fills /\ Buys \cap Sells = {}
  BY LotsAssumption DEF Asked, Fills
<1>1. \A u \in Buys : \/ fill'[u] = fill[u] \/ ScanBuy(u) \/ fill'[u].found = {}
  <2> SUFFICES ASSUME NEW u \in Buys
               PROVE  \/ fill'[u] = fill[u] \/ ScanBuy(u) \/ fill'[u].found = {}
    OBVIOUS
  <2>1. fill'[u].pc # "scanned" => fill'[u].found = {}
    BY <1>0 DEF Asked
  <2>2. BeginBuy(u) => fill'[u].pc = "began"
    BY <1>0 DEF BeginBuy, FillRow
  <2> QED BY <1>0, <2>1, <2>2, OwnStep
<1>2. ASSUME NEW u \in Buys, ScanBuy(u)
      PROVE  /\ fill'[u].found = UnadjustedLosses(u)
             /\ \A v \in Buys \ {u} : fill'[v] = fill[v] /\ fill[v].found \cap UnadjustedLosses(u) = {}
             /\ UNCHANGED <<consumed, adjusted>>
  <2>1. /\ fill' = [fill EXCEPT ![u].pc = "scanned", ![u].found = UnadjustedLosses(u)]
        /\ UnadjustedLosses(u) \cap LockedLosses = {} /\ UNCHANGED <<consumed, adjusted>>
    BY <1>2 DEF ScanBuy
  <2>2. fill'[u].found = UnadjustedLosses(u) /\ \A v \in Buys \ {u} : fill'[v] = fill[v]
    BY <1>0, <2>1 DEF FillRow
  <2>3. \A v \in Buys : fill[v].found \subseteq LockedLosses
    BY <1>0 DEF LockedLosses, Asked
  <2> QED BY <2>1, <2>2, <2>3
<1>3. \A a \in Buys : a # b => fill'[a].found \cap fill'[b].found = {}
  <2> SUFFICES ASSUME NEW a \in Buys, a # b PROVE fill'[a].found \cap fill'[b].found = {}
    OBVIOUS
  <2>0. fill[a].found \cap fill[b].found = {}
    BY DEF Locks
  <2>1. CASE ScanBuy(a)
    BY <1>2, <2>1
  <2>2. CASE ScanBuy(b)
    BY <1>2, <2>2
  <2>3. CASE ~ScanBuy(a) /\ ~ScanBuy(b)
    BY <1>1, <2>0, <2>3
  <2> QED BY <2>1, <2>2, <2>3
<1>4. fill'[b].found \subseteq DOMAIN consumed' \ DOMAIN adjusted'
  <2>0. fill[b].found \subseteq DOMAIN consumed \ DOMAIN adjusted
    BY DEF Locks
  <2>1. CASE ScanBuy(b)
    <3>1. UnadjustedLosses(b) \subseteq DOMAIN consumed \ DOMAIN adjusted
      BY DEF UnadjustedLosses
    <3> QED BY <1>2, <2>1, <3>1
  <2>2. CASE fill'[b].found = {}
    BY <2>2
  <2>3. CASE fill'[b] = fill[b]
    <3>1. ASSUME UNCHANGED <<consumed, adjusted>>
          PROVE  fill'[b].found \subseteq DOMAIN consumed' \ DOMAIN adjusted'
      BY <2>0, <2>3, <3>1
    <3>2. ASSUME NEW a \in Buys, CommitBuy(a)
          PROVE  fill'[b].found \subseteq DOMAIN consumed' \ DOMAIN adjusted'
      <4>1. DOMAIN consumed' = DOMAIN consumed /\ DOMAIN adjusted' = DOMAIN adjusted \cup fill[a].found
        BY <3>2, CommitBuyRows
      <4>2. CASE a = b
        <5>1. fill'[b].found = {}
          BY <1>0, <3>2, <4>2, BuyWrites, CommittedDone
        <5> QED BY <5>1
      <4>3. CASE a # b
        BY <2>0, <2>3, <4>1, <4>3 DEF Locks
      <4> QED BY <4>2, <4>3
    <3>3. ASSUME NEW s \in Sells, CommitSell(s)
          PROVE  fill'[b].found \subseteq DOMAIN consumed' \ DOMAIN adjusted'
      <4>1. /\ DOMAIN consumed' = DOMAIN consumed \cup ({s} \X Drawn(s))
            /\ DOMAIN adjusted' = DOMAIN adjusted \cup {<<s, p[1]>> : p \in fill[s].found}
        BY <3>3, CommitSellRows
      <4>2. \A k \in DOMAIN consumed : k[1] # s
        BY <3>3, SellWrites DEF Rows
      <4>3. \A k \in {<<s, p[1]>> : p \in fill[s].found} : k[1] = s
        OBVIOUS
      <4> QED BY <2>0, <2>3, <4>1, <4>2, <4>3
    <3>4. ASSUME NEW x, NEW d, DeclareDividendExDate(x, d) \/ PayDividend(x, d)
          PROVE  UNCHANGED <<consumed, adjusted>>
      BY <3>4, DividendRows
    <3>5. ASSUME NEW ratio \in Ratios, NEW d \in Days, ApplySplit(ratio, d) PROVE UNCHANGED <<consumed, adjusted>>
      BY <3>5, SplitRows
    <3>6. Prepares => UNCHANGED <<consumed, adjusted>>
      BY DEF Prepares
    <3> QED BY <3>1, <3>2, <3>3, <3>4, <3>5, <3>6, NextCases
  <2> QED BY <1>1, <2>1, <2>2, <2>3
<1> QED BY <1>3, <1>4

\* Every step keeps the locks apart.
LEMMA LocksStep ==
  ASSUME Rows, Asked, Locks, Next
  PROVE  Locks'
<1>1. Asked'
  BY AskedStep
<1>2. \A s \in Sells : SellLocks(s)'
  BY <1>1, SellLocksStep
<1>3. \A s, t \in Sells : s # t => Holds(s)' \cap Holds(t)' = {}
  BY <1>1, HoldsApart
<1>4. \A b \in Buys : /\ fill'[b].found \subseteq DOMAIN consumed' \ DOMAIN adjusted'
                      /\ \A a \in Buys : a # b => fill'[a].found \cap fill'[b].found = {}
  BY <1>1, LossesApart
<1> QED BY <1>2, <1>3, <1>4 DEF Locks

\* There is nothing to hold at the start.
LEMMA LocksInit == Init => Rows /\ Asked /\ Locks
<1> SUFFICES ASSUME Init PROVE Rows /\ Asked /\ Locks
  OBVIOUS
<1>1. /\ DOMAIN lots = {} /\ DOMAIN consumed = {} /\ DOMAIN adjusted = {}
      /\ sale = [s \in Sells |-> [status |-> "none", requested |-> 0, filled |-> 0, named |-> <<>>]]
      /\ fill = [f \in Fills |-> NoFill]
  BY DEF Init
<1>2. NoFill \in FillRow /\ NoFill.pc = "none" /\ NoFill.locked = {} /\ NoFill.found = {}
  BY DEF NoFill, FillRow, Pcs
<1>3. [status |-> "none", requested |-> 0, filled |-> 0, named |-> <<>>] \in SaleRow
  BY DEF SaleRow
<1>4. \A s \in Sells : Named(s) = {}
  BY <1>1 DEF Named
<1>5. Rows
  BY <1>1 DEF Rows
<1>6. \A f \in Fills : fill[f] = NoFill /\ ~InTransaction(f)
  BY <1>1, <1>2 DEF InTransaction
<1>7. Asked
  <2>1. fill \in [Fills -> FillRow]
    BY <1>1, <1>2
  <2>2. sale \in [Sells -> SaleRow]
    BY <1>1, <1>3
  <2>3. \A s \in Sells : fill[s].pc = "none"
    BY <1>2, <1>6 DEF Fills
  <2> QED BY <1>2, <1>4, <1>6, <2>1, <2>2, <2>3 DEF Asked
<1>8. Locks
  <2>1. \A f \in Sells \cup Buys : fill[f].locked = {} /\ fill[f].found = {} /\ ~InTransaction(f)
    BY <1>2, <1>6 DEF Fills
  <2> QED BY <2>1 DEF Locks, SellLocks, Holds
<1> QED BY <1>5, <1>7, <1>8

\* Nor does a stuttering step change anything.
LEMMA UnchangedLocks == Rows /\ Asked /\ Locks /\ UNCHANGED vars => Rows' /\ Asked' /\ Locks'
<1> SUFFICES ASSUME Rows, Asked, Locks, UNCHANGED vars PROVE Rows' /\ Asked' /\ Locks'
  OBVIOUS
<1>0. UNCHANGED <<lots, consumed, adjusted, fill, sale>>
  BY DEF vars
<1>1. Rows'
  BY <1>0 DEF Rows
<1>2. \A f \in Fills : InTransaction(f)' <=> InTransaction(f)
  BY <1>0 DEF InTransaction
<1>3. \A s \in Sells : Named(s)' = Named(s)
  BY <1>0 DEF Named
<1>4. Asked'
  BY <1>0, <1>2, <1>3 DEF Asked
<1>5. \A s \in Sells : Remaining(fill[s].locked)' = Remaining(fill[s].locked) /\ Drawn(s)' = Drawn(s)
  BY <1>0, TakeKept
<1>6. ASSUME NEW s \in Sells PROVE SellLocks(s)'
  <2>1. InTransaction(s)' <=> InTransaction(s)
    BY <1>2 DEF Fills
  <2>2. SellLocks(s)
    BY DEF Locks
  <2>3. Remaining(fill[s].locked)' = Remaining(fill[s].locked) /\ Drawn(s)' = Drawn(s)
        /\ Named(s)' = Named(s)
    BY <1>3, <1>5
  <2> QED BY <1>0, <2>1, <2>2, <2>3 DEF SellLocks
<1>7. \A s \in Sells : Holds(s)' = Holds(s)
  BY <1>0 DEF Holds
<1>8. Locks'
  BY <1>0, <1>6, <1>7 DEF Locks
<1> QED BY <1>1, <1>4, <1>8

\* Rows, orders and locks are sound in every reachable state.
THEOREM LocksInvariant == Spec => [](Rows /\ Asked /\ Locks)
<1>1. Rows /\ Asked /\ Locks /\ [Next]_vars => (Rows /\ Asked /\ Locks)'
  BY RowsStep, AskedStep, LocksStep, UnchangedLocks
<1> QED BY LocksInit, <1>1, PTL DEF Spec

\* record_sell_fill consumes the oldest lots first.
THEOREM OldestGoFirst == Spec => OldestFirst
<1>1. ASSUME Rows, Asked, Locks, Next, NEW s \in Sells, sale[s].named = <<>>,
             fill[s].pc = "scanned", fill'[s].pc = "done",
             NEW l \in fill[s].locked, NEW o \in fill[s].locked,
             lots'[l].remaining < lots[l].remaining, Older(o, l)
      PROVE  lots'[o].remaining = 0
  <2>0. InTransaction(s) /\ fill[s].locked \subseteq DOMAIN lots
    BY <1>1 DEF InTransaction, Locks, SellLocks
  <2>1. CommitSell(s)
    <3>1. lots'[l] # lots[l] /\ l \in Holds(s)
      BY <1>1, <2>0 DEF Holds, Rows, TaxLot
    <3> QED BY <1>1, <3>1, HeldKept
  <2>2. /\ lots'[l].remaining = lots[l].remaining - IF l \in Drawn(s) THEN Take(s, l) ELSE 0
        /\ lots'[o].remaining = lots[o].remaining - IF o \in Drawn(s) THEN Take(s, o) ELSE 0
    BY <1>1, <2>0, <2>1, CommitSellRows
  <2>3. lots[l].remaining \in Nat /\ lots[o].remaining \in Nat
    BY <1>1, <2>0 DEF Rows, TaxLot
  <2>4. l \in Drawn(s) /\ Take(s, l) > 0
    BY <1>1, <2>2, <2>3 DEF Drawn
  <2>5. Take(s, o) = lots[o].remaining
    BY <1>1, <2>0, <2>4, OlderGiveAll
  <2>6. CASE o \in Drawn(s)
    BY <2>2, <2>3, <2>5, <2>6
  <2>7. CASE o \notin Drawn(s)
    <3>1. Take(s, o) = 0
      BY <1>1, <2>3, <2>5, <2>7 DEF Drawn
    <3> QED BY <2>2, <2>3, <2>5, <2>7, <3>1
  <2> QED BY <2>6, <2>7
<1>2. Rows /\ Asked /\ Locks /\ [Next]_vars =>
        [\A s \in Sells :
           sale[s].named = <<>> /\ fill[s].pc = "scanned" /\ fill'[s].pc = "done" =>
             \A l, o \in fill[s].locked :
               lots'[l].remaining < lots[l].remaining /\ Older(o, l) => lots'[o].remaining = 0
        ]_vars
  BY <1>1
<1> QED BY <1>2, LocksInvariant, PTL DEF Spec, OldestFirst

-----------------------------------------------------------------------------
\* Wash sales

\* Where a new lot, a new consumption and a new adjustment come from.
LEMMA NewRows ==
  ASSUME Rows, Asked, Locks, Next
  PROVE  /\ overlap \subseteq overlap'
         /\ \A b \in DOMAIN lots' \ DOMAIN lots : b \in Buys /\ CommitBuy(b)
         /\ \A k \in DOMAIN consumed' \ DOMAIN consumed :
              \E s \in Sells : CommitSell(s) /\ k \in {s} \X Drawn(s)
         /\ \A k \in DOMAIN consumed : k \notin DOMAIN adjusted' =>
              /\ k \in DOMAIN consumed' /\ k \notin DOMAIN adjusted
              /\ consumed'[k].realized = consumed[k].realized /\ consumed'[k].day = consumed[k].day
<1> DEFINE G == /\ overlap \subseteq overlap'
                /\ \A b \in DOMAIN lots' \ DOMAIN lots : b \in Buys /\ CommitBuy(b)
                /\ \A k \in DOMAIN consumed' \ DOMAIN consumed :
                     \E s \in Sells : CommitSell(s) /\ k \in {s} \X Drawn(s)
                /\ \A k \in DOMAIN consumed : k \notin DOMAIN adjusted' =>
                     /\ k \in DOMAIN consumed' /\ k \notin DOMAIN adjusted
                     /\ consumed'[k].realized = consumed[k].realized
                     /\ consumed'[k].day = consumed[k].day
<1>1. ASSUME DOMAIN lots' = DOMAIN lots, UNCHANGED <<consumed, adjusted, overlap>> PROVE G
  BY <1>1
<1>2. ASSUME NEW b \in Buys, CommitBuy(b) PROVE G
  <2>0. b \in Fills /\ Committed(b)
    BY <1>2, BuyWrites DEF Fills
  <2>1. overlap' = overlap \cup UnseenBy(b)
    BY <2>0 DEF Committed
  <2>2. /\ DOMAIN lots' = DOMAIN lots \cup {b} /\ DOMAIN consumed' = DOMAIN consumed
        /\ DOMAIN adjusted' = DOMAIN adjusted \cup fill[b].found
        /\ \A k \in DOMAIN consumed :
             /\ consumed'[k].day = consumed[k].day
             /\ consumed'[k].realized = consumed[k].realized
                                        + IF k \in fill[b].found THEN BuyCarried(b)[k] ELSE 0
    BY <1>2, CommitBuyRows
  <2>3. \A k \in DOMAIN consumed : consumed[k].realized \in Int
    BY DEF Rows, Consumption
  <2>4. \A k \in DOMAIN consumed : k \notin fill[b].found => consumed'[k].realized = consumed[k].realized
    BY <2>2, <2>3
  <2> QED BY <1>2, <2>1, <2>2, <2>4
<1>3. ASSUME NEW s \in Sells, CommitSell(s) PROVE G
  <2>0. s \in Fills /\ Committed(s)
    BY <1>3, SellWrites DEF Fills
  <2>1. overlap' = overlap \cup UnseenBy(s)
    BY <2>0 DEF Committed
  <2>2. /\ DOMAIN lots' = DOMAIN lots
        /\ DOMAIN consumed' = DOMAIN consumed \cup ({s} \X Drawn(s))
        /\ \A k \in DOMAIN consumed : consumed'[k] = consumed[k]
        /\ DOMAIN adjusted' = DOMAIN adjusted \cup {<<s, p[1]>> : p \in fill[s].found}
    BY <1>3, CommitSellRows
  <2> QED BY <1>3, <2>1, <2>2
<1>4. ASSUME NEW x, NEW d, DeclareDividendExDate(x, d) \/ PayDividend(x, d) PROVE G
  BY <1>1, <1>4, DividendRows
<1>5. ASSUME NEW ratio \in Ratios, NEW d \in Days, ApplySplit(ratio, d) PROVE G
  BY <1>1, <1>5, SplitRows
<1>6. ASSUME Prepares PROVE G
  BY <1>1, <1>6 DEF Prepares
<1> HIDE DEF G
<1>7. G
  BY <1>2, <1>3, <1>4, <1>5, <1>6, NextCases
<1> QED BY <1>7 DEF G

\* Of the lots in the window one is the earliest: a scan that finds no
\* replacement saw none in the window.
LEMMA EarliestFound ==
  ASSUME Rows, NEW s \in Sells, NEW l, Replacements(s, l) = {},
         NEW b \in DOMAIN lots \ {l}
  PROVE  ~InWindow(lots[b].day, fill[s].day)
<1> DEFINE W == {r \in DOMAIN lots \ {l} : InWindow(lots[r].day, fill[s].day)}
           lt == {p \in W \X W : Older(p[1], p[2])}
<1> SUFFICES ASSUME b \in W PROVE FALSE
  OBVIOUS
<1>1. W \in SUBSET DOMAIN lots /\ IsFiniteSet(W)
  <2>1. W \in SUBSET DOMAIN lots
    OBVIOUS
  <2> HIDE DEF W
  <2> QED BY <2>1, LotsFinite
<1>2. \A x, y \in W : <<x, y>> \in lt <=> Older(x, y)
  OBVIOUS
<1>3. InLine(lt, W)
  <2>1. \A x, y \in W : /\ ~(Older(x, y) /\ Older(y, x)) /\ (x = y \/ Older(x, y) \/ Older(y, x))
                        /\ \A z \in W : Older(x, y) /\ Older(y, z) => Older(x, z)
    <3> HIDE DEF W
    <3> QED BY <1>1, OlderOnce
  <2> HIDE DEF lt, W
  <2> QED BY <1>2, <2>1 DEF InLine
<1>4. Cardinality(W) \in Nat \ {0}
  <2> HIDE DEF lt, W
  <2>1. Cardinality(W) \in Nat
    BY <1>1, FS_CardinalityType
  <2>2. W # {}
    OBVIOUS
  <2>3. Cardinality(W) # 0
    BY <1>1, <2>2, FS_EmptySet
  <2> QED BY <2>1, <2>3
<1>5. PICK r \in W : Place(lt, W, r) = 0
  <2> HIDE DEF lt, W
  <2>1. 1 \in 1 .. Cardinality(W)
    BY <1>4
  <2>2. \E r \in W : Place(lt, W, r) = 1 - 1
    BY <1>1, <1>3, <2>1, PlaceTaken
  <2> QED BY <2>2
<1>6. LeftOf(lt, W, r) = {}
  <2> HIDE DEF lt, W
  <2>1. LeftOf(lt, W, r) \in SUBSET W
    BY DEF LeftOf
  <2>2. IsFiniteSet(LeftOf(lt, W, r)) /\ Cardinality(LeftOf(lt, W, r)) = 0
    BY <1>1, <1>5, <2>1, FS_Subset DEF Place
  <2> QED BY <2>2, FS_EmptySet
<1>7. \A q \in W : q # r => Older(r, q)
  <2> HIDE DEF lt, W
  <2>1. \A q \in W : ~Older(q, r)
    BY <1>2, <1>6 DEF LeftOf
  <2> QED BY <1>1, <2>1, OlderOnce
<1>8. r \in Replacements(s, l)
  BY <1>7 DEF Replacements
<1> QED BY <1>8

\* A scan that found nothing for a loss and a lot bought since overlapped.
LEMMA SellScannedStep ==
  ASSUME Rows, Asked, Locks, SellScanned, Next, Asked'
  PROVE  SellScanned'
<1> SUFFICES ASSUME NEW s \in Sells, fill'[s].pc = "scanned",
                    NEW l \in Drawn(s)', Realized(s, l)' < 0, \A p \in fill'[s].found : p[1] # l,
                    NEW b \in DOMAIN lots' \ {l}, InWindow(lots'[b].day, fill'[s].day)
             PROVE  {s, b} \in overlap'
  BY DEF SellScanned, InWindow
<1>0. /\ s \in Fills /\ s \notin Buys /\ fill \in [Fills -> FillRow] /\ fill[s] \in FillRow
  BY LotsAssumption DEF Fills, Asked
<1>1. BeginSell(s) => fill'[s].pc = "began"
  BY <1>0 DEF BeginSell, FillRow
<1>2. CASE fill'[s] = fill[s]
  <2>1. sale'[s].named = sale[s].named /\ ~CommitSell(s)
    <3>1. CommitSell(s) => fill'[s].pc = "done"
      BY <1>0, SellWrites, CommittedDone
    <3> QED BY <1>0, <1>2, <3>1, NamedKept DEF Asked
  <2>2. \A x \in fill[s].locked : lots'[x] = lots[x]
    BY <2>1, HeldKept DEF Holds
  <2>3. Drawn(s)' = Drawn(s) /\ \A x \in fill[s].locked : Realized(s, x)' = Realized(s, x)
    BY <1>2, <2>1, <2>2, TakeKept
  <2>4. l \in Drawn(s) /\ Realized(s, l) < 0
    BY <2>3 DEF Drawn
  <2>5. CASE b \in DOMAIN lots
    <3>1. lots'[b].day = lots[b].day
      BY <2>5, LotsGrow
    <3>2. {s, b} \in overlap
      BY <1>2, <2>4, <2>5, <3>1 DEF SellScanned
    <3> QED BY <3>2, NewRows
  <2>6. CASE b \notin DOMAIN lots
    <3>1. b \in Buys /\ CommitBuy(b)
      BY <2>6, NewRows
    <3>2. overlap' = overlap \cup UnseenBy(b)
      BY <3>1, BuyWrites DEF Committed
    <3>3. {b, s} \in UnseenBy(b)
      BY <1>0, <1>2, <3>1 DEF UnseenBy
    <3>4. {b, s} = {s, b}
      OBVIOUS
    <3> QED BY <3>2, <3>3, <3>4
  <2> QED BY <2>5, <2>6
<1>3. CASE ScanSell(s)
  <2>1. /\ fill[s].pc = "began" /\ UNCHANGED <<lots, sale>>
        /\ fill' = [fill EXCEPT ![s].pc = "scanned", ![s].found = LossesReplaced(s)]
    BY <1>3 DEF ScanSell
  <2>2. /\ fill'[s].locked = fill[s].locked /\ fill'[s].found = LossesReplaced(s)
        /\ fill'[s].quantity = fill[s].quantity /\ fill'[s].price = fill[s].price
        /\ fill'[s].day = fill[s].day
    BY <1>0, <2>1 DEF FillRow
  <2>3. Drawn(s)' = Drawn(s) /\ \A x \in fill[s].locked : Realized(s, x)' = Realized(s, x)
    BY <2>1, <2>2, TakeKept
  <2>4. l \in Drawn(s) /\ Realized(s, l) < 0
    BY <2>3 DEF Drawn
  <2>5. Replacements(s, l) = {}
    <3> SUFFICES ASSUME NEW r \in Replacements(s, l) PROVE FALSE
      OBVIOUS
    <3>1. <<l, r>> \in LossesReplaced(s)
      BY <2>4 DEF LossesReplaced
    <3>2. <<l, r>>[1] = l
      OBVIOUS
    <3> QED BY <2>2, <3>1, <3>2
  <2>6. ~InWindow(lots[b].day, fill[s].day)
    BY <2>1, <2>5, EarliestFound
  <2>7. lots'[b].day = lots[b].day
    BY <2>1
  <2> QED BY <2>2, <2>6, <2>7
<1> QED BY <1>0, <1>1, <1>2, <1>3, OwnStep

\* ... and so did a buy's scan and a loss committed since.
LEMMA BuyScannedStep ==
  ASSUME Rows, Asked, Locks, BuyScanned, Next, Asked'
  PROVE  BuyScanned'
<1> SUFFICES ASSUME NEW b \in Buys, fill'[b].pc = "scanned",
                    NEW k \in UnadjustedLosses(b)', k \notin fill'[b].found
             PROVE  {k[1], b} \in overlap'
  BY DEF BuyScanned
<1>0. /\ b \in Fills /\ b \notin Sells /\ fill \in [Fills -> FillRow] /\ fill[b] \in FillRow
  BY LotsAssumption DEF Fills, Asked
<1>1. BeginBuy(b) => fill'[b].pc = "began"
  BY <1>0 DEF BeginBuy, FillRow
<1>2. /\ k \in DOMAIN consumed' /\ consumed'[k].realized < 0 /\ k \notin DOMAIN adjusted'
      /\ InWindow(consumed'[k].day, fill'[b].day)
  BY DEF UnadjustedLosses, InWindow
<1>3. CASE fill'[b] = fill[b]
  <2>1. CASE k \in DOMAIN consumed
    <3>1. /\ k \notin DOMAIN adjusted
          /\ consumed'[k].realized = consumed[k].realized /\ consumed'[k].day = consumed[k].day
      BY <1>2, <2>1, NewRows
    <3>2. k \in UnadjustedLosses(b)
      BY <1>2, <1>3, <2>1, <3>1 DEF UnadjustedLosses
    <3>3. {k[1], b} \in overlap
      BY <1>3, <3>2 DEF BuyScanned
    <3> QED BY <3>3, NewRows
  <2>2. CASE k \notin DOMAIN consumed
    <3>1. PICK s \in Sells : CommitSell(s) /\ k \in {s} \X Drawn(s)
      BY <1>2, <2>2, NewRows
    <3>2. overlap' = overlap \cup UnseenBy(s)
      BY <3>1, SellWrites DEF Committed
    <3>3. {s, b} \in UnseenBy(s)
      BY <1>0, <1>3 DEF UnseenBy
    <3>4. k[1] = s
      BY <3>1
    <3> QED BY <3>2, <3>3, <3>4
  <2> QED BY <2>1, <2>2
<1>4. CASE ScanBuy(b)
  <2>1. fill' = [fill EXCEPT ![b].pc = "scanned", ![b].found = UnadjustedLosses(b)]
        /\ UNCHANGED <<consumed, adjusted>>
    BY <1>4 DEF ScanBuy
  <2>2. fill'[b].found = UnadjustedLosses(b) /\ fill'[b].day = fill[b].day
    BY <1>0, <2>1 DEF FillRow
  <2>3. k \in UnadjustedLosses(b)
    BY <1>2, <2>1, <2>2 DEF UnadjustedLosses
  <2> QED BY <2>2, <2>3
<1> QED BY <1>0, <1>1, <1>3, <1>4, OwnStep

\* Every step keeps the losses not adjusted apart from the lots in their window.
LEMMA WashSaleStep ==
  ASSUME Rows, Asked, Locks, SellScanned, BuyScanned, WashSaleFound, Next
  PROVE  WashSaleFound'
<1> SUFFICES ASSUME NEW k \in DOMAIN consumed', consumed'[k].realized < 0, k \notin DOMAIN adjusted',
                    NEW b \in DOMAIN lots' \ {k[2]}, InWindow(lots'[b].day, consumed'[k].day)
             PROVE  {k[1], b} \in overlap'
  BY DEF WashSaleFound, InWindow
<1>1. CASE k \in DOMAIN consumed
  <2>1. /\ k \notin DOMAIN adjusted
        /\ consumed'[k].realized = consumed[k].realized /\ consumed'[k].day = consumed[k].day
    BY <1>1, NewRows
  <2>2. CASE b \in DOMAIN lots
    <3>1. lots'[b].day = lots[b].day
      BY <2>2, LotsGrow
    <3>2. {k[1], b} \in overlap
      BY <1>1, <2>1, <2>2, <3>1 DEF WashSaleFound
    <3> QED BY <3>2, NewRows
  <2>3. CASE b \notin DOMAIN lots
    <3>1. b \in Buys /\ CommitBuy(b)
      BY <2>3, NewRows
    <3>2. fill[b].pc = "scanned" /\ lots'[b].day = fill[b].day
          /\ DOMAIN adjusted' = DOMAIN adjusted \cup fill[b].found
      <4>1. fill[b].pc = "scanned"
        BY <3>1, BuyWrites
      <4>2. DOMAIN adjusted' = DOMAIN adjusted \cup fill[b].found
        BY <3>1, CommitBuyRows
      <4>3. lots'[b] = [opened |-> fill[b].quantity, remaining |-> fill[b].quantity,
                        cost |-> BuyCost(b),
                        basis |-> BuyCost(b) + SumOver(BuyCarried(b), fill[b].found),
                        day |-> fill[b].day, specific |-> FALSE]
        BY <3>1, CommitBuyRows
      <4>4. lots'[b].day = fill[b].day
        BY <4>3
      <4> QED BY <4>1, <4>2, <4>4
    <3>3. InWindow(consumed[k].day, fill[b].day)
      <4>1. consumed[k].day \in Int /\ fill[b].day \in Int /\ WindowDays \in Int
        <5>1. consumed[k].day \in Days /\ Days \subseteq Nat /\ WindowDays \in Nat
          BY <1>1, LotsAssumption DEF Rows, Consumption
        <5>2. fill[b].day \in Nat
          BY <3>1 DEF Asked, FillRow, Fills
        <5>3. consumed[k].day \in Nat
          BY <5>1
        <5> QED BY <5>1, <5>2, <5>3
      <4>2. InWindow(fill[b].day, consumed[k].day)
        BY <2>1, <3>2
      <4> QED BY <4>1, <4>2 DEF InWindow
    <3>4. k \in UnadjustedLosses(b) /\ k \notin fill[b].found
      BY <1>1, <2>1, <3>2, <3>3 DEF UnadjustedLosses
    <3>5. {k[1], b} \in overlap
      BY <3>1, <3>2, <3>4 DEF BuyScanned
    <3> QED BY <3>5, NewRows
  <2> QED BY <2>2, <2>3
<1>2. CASE k \notin DOMAIN consumed
  <2>1. PICK s \in Sells : CommitSell(s) /\ k \in {s} \X Drawn(s)
    BY <1>2, NewRows
  <2>2. k[1] = s /\ k[2] \in Drawn(s) /\ k = <<s, k[2]>>
    BY <2>1
  <2>3. /\ DOMAIN lots' = DOMAIN lots
        /\ DOMAIN adjusted' = DOMAIN adjusted \cup {<<s, p[1]>> : p \in fill[s].found}
        /\ consumed'[k] = [quantity |-> Take(s, k[2]), day |-> fill[s].day,
                           realized |-> Realized(s, k[2]) + SumOver(Carried(s), OnLot(s, k[2]))]
        /\ \A l \in DOMAIN lots : lots'[l].day = lots[l].day
    BY <2>1, CommitSellRows
  <2>4. \A p \in fill[s].found : p[1] # k[2]
    BY <2>2, <2>3
  <2>5. OnLot(s, k[2]) = {}
    BY <2>4 DEF OnLot
  <2>6. SumOver(Carried(s), OnLot(s, k[2])) = 0
    BY <2>5, SumIsTotal, TotalEmpty
  <2>7. fill[s].pc = "scanned" /\ InTransaction(s)
    BY <2>1, SellWrites DEF InTransaction
  <2>8. Realized(s, k[2]) \in Int
    BY <2>2, <2>7, TakeType DEF Drawn
  <2>9. Realized(s, k[2]) < 0 /\ consumed'[k].day = fill[s].day
    BY <2>3, <2>6, <2>8
  <2>10. InWindow(lots[b].day, fill[s].day) /\ b \in DOMAIN lots \ {k[2]}
    BY <2>3, <2>9
  <2>11. {s, b} \in overlap
    BY <2>2, <2>4, <2>7, <2>9, <2>10 DEF SellScanned
  <2> QED BY <2>2, <2>11, NewRows
<1> QED BY <1>1, <1>2

\* Every wash sale is found, unless the two transactions overlapped.
THEOREM WashSalesFound == Spec => []WashSaleFound
<1> DEFINE I == Rows /\ Asked /\ Locks
           J == SellScanned /\ BuyScanned /\ WashSaleFound
<1>1. Init => J
  <2> SUFFICES ASSUME Init PROVE J
    OBVIOUS
  <2>1. DOMAIN lots = {} /\ DOMAIN consumed = {} /\ \A f \in Buys \cup Sells : fill[f].pc = "none"
    BY DEF Init, NoFill, Fills
  <2> QED BY <2>1 DEF SellScanned, BuyScanned, WashSaleFound
<1>2. I /\ J /\ [Next]_vars => J'
  <2>1. ASSUME I, J, Next PROVE J'
    <3>1. Asked'
      BY <2>1, AskedStep
    <3> QED BY <2>1, <3>1, SellScannedStep, BuyScannedStep, WashSaleStep
  <2>2. ASSUME I, J, UNCHANGED vars PROVE J'
    <3>0. UNCHANGED <<lots, consumed, adjusted, fill, sale, overlap>>
      BY <2>2 DEF vars
    <3>1. \A s \in Sells : Drawn(s)' = Drawn(s) /\ \A l \in fill[s].locked : Realized(s, l)' = Realized(s, l)
      BY <3>0, TakeKept
    <3>2. SellScanned'
      BY <2>2, <3>0, <3>1 DEF SellScanned, Drawn, InWindow
    <3>3. \A b \in Buys : UnadjustedLosses(b)' = UnadjustedLosses(b)
      BY <3>0 DEF UnadjustedLosses, InWindow
    <3>4. BuyScanned'
      BY <2>2, <3>0, <3>3 DEF BuyScanned
    <3>5. WashSaleFound'
      BY <2>2, <3>0 DEF WashSaleFound, InWindow
    <3> QED BY <3>2, <3>4, <3>5
  <2> QED BY <2>1, <2>2
<1> HIDE DEF I, J
<1>3. Spec => []I
  BY LocksInvariant DEF I
<1>4. J => WashSaleFound
  BY DEF J
<1> QED BY <1>1, <1>2, <1>3, <1>4, PTL DEF Spec

-----------------------------------------------------------------------------
\* The two books

\* The quantities, the bases and the realized gains of the rows.
Held == [l \in DOMAIN lots |-> lots[l].remaining]
Basis == [l \in DOMAIN lots |-> lots[l].basis]
Gains == [k \in DOMAIN consumed |-> consumed[k].realized]

\* Settlement obligations are those of committed fills and of dividends paid.
Owed ==
  /\ corporate \in Nat
  /\ \A x \in DOMAIN obligations :
       /\ obligations[x] \in Int
       /\ x \in Fills => fill[x].pc = "done"
       /\ x \notin Fills => x \in -corporate .. -1

\* The units of the ledger are those of the lots, but for what splits rounded.
Gap == balance["position_units"] - Total(Held, DOMAIN lots)
UnitsNear ==
  /\ rounded \in Nat
  /\ -((Cardinality(DOMAIN lots) + 1) * rounded) <= 2 * Gap
  /\ 2 * Gap <= (Cardinality(DOMAIN lots) + 1) * rounded

\* The ledger against the rows, and the realized gains against the cost of what
\* is held and the cash of the trades.
Booked ==
  /\ Owed
  /\ balance \in [Roles -> Int]
  /\ UnitsNear
  /\ balance["position_cost"] = Total(Basis, DOMAIN lots)
  /\ balance["cash"] = Total(obligations, DOMAIN obligations)
  /\ -balance["realized_gain_loss"] = Total(Gains, DOMAIN consumed)
  /\ -balance["realized_gain_loss"]
       = balance["position_cost"] + Total(obligations, DOMAIN obligations \cap Fills)

\* The lots a sell holds stand in a line, and the first ones give.
LEMMA SellTakesAll ==
  ASSUME Rows, Asked, Locks, NEW s \in Sells, InTransaction(s),
         NEW t, \A l \in fill[s].locked : t[l] = Take(s, l)
  PROVE  Total(t, fill[s].locked) = fill[s].quantity
<1> DEFINE S == fill[s].locked
           lt == {p \in S \X S : p[1] \in Ahead(s, p[2])}
<1>1. S \in SUBSET DOMAIN lots /\ (sale[s].named # <<>> => S = Named(s))
      /\ Remaining(S) >= fill[s].quantity
  BY DEF Locks, SellLocks
<1>2. fill[s].quantity \in Nat /\ sale[s].named \in Seq(Nat)
  BY DEF Asked, Fills, FillRow, SaleRow
<1>3. \A x, y \in S : <<x, y>> \in lt <=> x \in Ahead(s, y)
  OBVIOUS
<1>4. \A y \in S : LeftOf(lt, S, y) = Ahead(s, y) /\ Ahead(s, y) \in SUBSET S
  BY <1>3 DEF LeftOf, Ahead
<1>5. InLine(lt, S)
  <2>1. CASE sale[s].named = <<>>
    <3>1. \A x, y \in S : x \in Ahead(s, y) <=> Older(x, y)
      BY <2>1 DEF Ahead
    <3>2. \A x, y \in S : /\ ~(Older(x, y) /\ Older(y, x)) /\ (x = y \/ Older(x, y) \/ Older(y, x))
                          /\ \A z \in S : Older(x, y) /\ Older(y, z) => Older(x, z)
      <4> HIDE DEF S
      <4> QED BY <1>1, OlderOnce
    <3> HIDE DEF S, lt
    <3> QED BY <1>3, <3>1, <3>2 DEF InLine
  <2>2. CASE sale[s].named # <<>>
    <3>1. \A x, y \in S : x \in Ahead(s, y) <=> Position(s, x) < Position(s, y)
      BY <2>2 DEF Ahead
    <3>2. \A x \in S : Position(s, x) \in Int /\ sale[s].named[Position(s, x)] = x
      <4> SUFFICES ASSUME NEW x \in S
                   PROVE  Position(s, x) \in Int /\ sale[s].named[Position(s, x)] = x
        OBVIOUS
      <4>1. \E i \in DOMAIN sale[s].named : sale[s].named[i] = x
        BY <1>1, <2>2 DEF Named
      <4>2. Position(s, x) \in DOMAIN sale[s].named /\ sale[s].named[Position(s, x)] = x
        BY <4>1 DEF Position
      <4>3. DOMAIN sale[s].named \subseteq Int
        BY <1>2
      <4> QED BY <4>2, <4>3
    <3> HIDE DEF S, lt
    <3>3. \A x, y \in S : x = y \/ Position(s, x) < Position(s, y) \/ Position(s, y) < Position(s, x)
      BY <3>2
    <3>4. \A x, y, z \in S : /\ ~(Position(s, x) < Position(s, x))
                             /\ Position(s, x) < Position(s, y) /\ Position(s, y) < Position(s, z)
                                  => Position(s, x) < Position(s, z)
      BY <3>2
    <3> QED BY <1>3, <3>1, <3>3, <3>4 DEF InLine
  <2> QED BY <2>1, <2>2
<1>6. Held = [l \in DOMAIN lots |-> lots[l].remaining]
  BY DEF Held
<1> HIDE DEF S, lt
<1>7. /\ \A ls \in SUBSET DOMAIN lots : Remaining(ls) = Total(Held, ls) /\ Remaining(ls) \in Nat
      /\ \A l \in DOMAIN lots : Held[l] \in Nat /\ Held[l] = lots[l].remaining
  BY <1>6, RemainingIsTotal
<1>8. \A x \in S : t[x] = AtMost(Held[x], IF fill[s].quantity - Total(Held, LeftOf(lt, S, x)) < 0 THEN 0
                                     ELSE fill[s].quantity - Total(Held, LeftOf(lt, S, x)))
  <2> SUFFICES ASSUME NEW x \in S
               PROVE  t[x] = AtMost(Held[x], IF fill[s].quantity - Total(Held, LeftOf(lt, S, x)) < 0 THEN 0
                                     ELSE fill[s].quantity - Total(Held, LeftOf(lt, S, x)))
    OBVIOUS
  <2>1. t[x] = Take(s, x)
    BY DEF S
  <2>2. Remaining(Ahead(s, x)) = Total(Held, Ahead(s, x)) /\ LeftOf(lt, S, x) = Ahead(s, x)
    <3>1. Ahead(s, x) \in SUBSET DOMAIN lots
      BY <1>1, <1>4
    <3> QED BY <1>4, <1>7, <3>1
  <2>3. Held[x] = lots[x].remaining
    BY <1>1, <1>7
  <2>4. t[x] = AtMost(Held[x], IF fill[s].quantity - Total(Held, Ahead(s, x)) < 0 THEN 0
                               ELSE fill[s].quantity - Total(Held, Ahead(s, x)))
    BY <2>1, <2>2, <2>3 DEF Take
  <2> QED BY <2>2, <2>4
<1>9. IsFiniteSet(S) /\ \A x \in S : Held[x] \in Nat
  BY <1>1, <1>7, LotsFinite
<1>10. Total(t, S) = AtMost(fill[s].quantity, Total(Held, S))
  <2> DEFINE q == fill[s].quantity
  <2>1. /\ q \in Nat /\ InLine(lt, S) /\ IsFiniteSet(S) /\ \A x \in S : Held[x] \in Nat
        /\ \A x \in S : t[x] = AtMost(Held[x], IF q - Total(Held, LeftOf(lt, S, x)) < 0 THEN 0
                                             ELSE q - Total(Held, LeftOf(lt, S, x)))
    BY <1>2, <1>5, <1>8, <1>9
  <2> HIDE DEF q
  <2>2. Total(t, S) = AtMost(q, Total(Held, S))
    BY ONLY <2>1, Greedy
  <2> QED BY <2>2 DEF q
<1>11. Total(Held, S) >= fill[s].quantity /\ Total(Held, S) \in Nat
  BY <1>1, <1>7
<1>12. Total(t, S) = fill[s].quantity
  BY <1>2, <1>10, <1>11 DEF AtMost
<1> QED BY <1>12 DEF S

\* The three legs of a buy.
LEMMA PostBuy ==
  ASSUME balance \in [Roles -> Int], NEW q \in Int, NEW c \in Int, NEW z \in Int,
         Post([position_units |-> q, position_cost |-> c, cash |-> -c], z)
  PROVE  /\ balance' \in [Roles -> Int]
         /\ balance'["position_units"] = balance["position_units"] + q
         /\ balance'["position_cost"] = balance["position_cost"] + c + z
         /\ balance'["cash"] = balance["cash"] - c
         /\ balance'["realized_gain_loss"] = balance["realized_gain_loss"] - z
BY DEF Post, Roles, WashSaleEntry

\* The four legs of a sell; its money legs sum to zero.
LEMMA PostSell ==
  ASSUME balance \in [Roles -> Int], NEW z \in Int, NEW legs,
         DOMAIN legs = {"position_units", "position_cost", "cash", "realized_gain_loss"},
         \A r \in DOMAIN legs : legs[r] \in Int,
         Post(legs, z)
  PROVE  /\ balance' \in [Roles -> Int]
         /\ balance'["position_units"] = balance["position_units"] + legs["position_units"]
         /\ balance'["position_cost"] = balance["position_cost"] + legs["position_cost"] + z
         /\ balance'["cash"] = balance["cash"] + legs["cash"]
         /\ balance'["realized_gain_loss"]
              = balance["realized_gain_loss"] + legs["realized_gain_loss"] - z
         /\ legs["realized_gain_loss"] + (legs["cash"] + legs["position_cost"]) = 0
<1>1. /\ balance' \in [Roles -> Int]
      /\ balance'["position_units"] = balance["position_units"] + legs["position_units"]
      /\ balance'["position_cost"] = balance["position_cost"] + legs["position_cost"] + z
      /\ balance'["cash"] = balance["cash"] + legs["cash"]
      /\ balance'["realized_gain_loss"]
           = balance["realized_gain_loss"] + legs["realized_gain_loss"] - z
  BY DEF Post, Roles, WashSaleEntry
<1>2. MoneyLegs(legs) = (({} \cup {"position_cost"}) \cup {"cash"}) \cup {"realized_gain_loss"}
  BY DEF MoneyLegs
<1>3. legs["position_cost"] \in Int /\ legs["cash"] \in Int /\ legs["realized_gain_loss"] \in Int
  OBVIOUS
<1>4. Balanced(legs)
  BY DEF Post
<1>5. Total(legs, (({} \cup {"position_cost"}) \cup {"cash"}) \cup {"realized_gain_loss"}) = 0
  BY <1>2, <1>4, SumIsTotal DEF Balanced
<1> DEFINE A == {} \cup {"position_cost"}
           B == A \cup {"cash"}
<1>0. IsFiniteSet(A) /\ IsFiniteSet(B)
  <2>1. IsFiniteSet({})
    BY FS_EmptySet
  <2>2. IsFiniteSet({} \cup {"position_cost"})
    BY <2>1, FS_AddElement
  <2> QED BY <2>2, FS_AddElement
<1>6. Total(legs, A) = legs["position_cost"] + Total(legs, {})
  <2>1. IsFiniteSet({}) /\ legs["position_cost"] \in Int
    BY <1>3, FS_EmptySet
  <2> QED BY <2>1, TotalInsert
<1>7. Total(legs, B) = legs["cash"] + Total(legs, A)
  <2>1. (\A x \in A : legs[x] \in Int) /\ "cash" \notin A /\ legs["cash"] \in Int
    BY <1>3
  <2> HIDE DEF A
  <2> QED BY <1>0, <2>1, TotalInsert
<1>8. Total(legs, B \cup {"realized_gain_loss"}) = legs["realized_gain_loss"] + Total(legs, B)
  <2>1. (\A x \in B : legs[x] \in Int) /\ "realized_gain_loss" \notin B /\ legs["realized_gain_loss"] \in Int
    BY <1>3
  <2> HIDE DEF B
  <2> QED BY <1>0, <2>1, TotalInsert
<1>9. Total(legs, {}) = 0
  BY TotalEmpty
<1>10. legs["realized_gain_loss"] + (legs["cash"] + (legs["position_cost"] + 0)) = 0
  BY <1>5, <1>6, <1>7, <1>8, <1>9
<1>11. legs["realized_gain_loss"] + (legs["cash"] + legs["position_cost"]) = 0
  BY <1>3, <1>10
<1> QED BY <1>1, <1>11

\* What is owed adds up to an amount.
LEMMA OwedFinite ==
  ASSUME Owed
  PROVE  /\ IsFiniteSet(DOMAIN obligations)
         /\ IsFiniteSet(DOMAIN obligations \cap Fills)
         /\ Total(obligations, DOMAIN obligations) \in Int
         /\ Total(obligations, DOMAIN obligations \cap Fills) \in Int
<1>1. IsFiniteSet(Fills)
  BY LotsAssumption, FS_Union DEF Fills
<1>2. IsFiniteSet(-corporate .. -1)
  <2>1. -corporate \in Int /\ -1 \in Int
    BY DEF Owed
  <2> QED BY <2>1, FS_Interval
<1>3. IsFiniteSet(Fills \cup (-corporate .. -1))
  BY <1>1, <1>2, FS_Union
<1>4. DOMAIN obligations \subseteq Fills \cup (-corporate .. -1)
  BY DEF Owed
<1>5. IsFiniteSet(DOMAIN obligations) /\ IsFiniteSet(DOMAIN obligations \cap Fills)
  BY <1>3, <1>4, FS_Subset
<1>6. \A x \in DOMAIN obligations : obligations[x] \in Int
  BY DEF Owed
<1> QED BY <1>5, <1>6, TotalInt

\* A fill that commits owes its amount; a dividend is owed outside of the fills.
LEMMA OwedMore ==
  ASSUME Owed, NEW x, x \notin DOMAIN obligations, NEW amount \in Int,
         obligations' = Added(obligations, Row(x, amount))
  PROVE  /\ DOMAIN obligations' = DOMAIN obligations \cup {x}
         /\ obligations'[x] = amount /\ \A y \in DOMAIN obligations : obligations'[y] = obligations[y]
         /\ Total(obligations', DOMAIN obligations') = Total(obligations, DOMAIN obligations) + amount
         /\ x \in Fills => Total(obligations', DOMAIN obligations' \cap Fills)
                             = Total(obligations, DOMAIN obligations \cap Fills) + amount
         /\ x \notin Fills => Total(obligations', DOMAIN obligations' \cap Fills)
                                = Total(obligations, DOMAIN obligations \cap Fills)
<1> DEFINE new == obligations'
<1>1. /\ DOMAIN new = DOMAIN obligations \cup {x}
      /\ new[x] = amount /\ \A y \in DOMAIN obligations : new[y] = obligations[y]
  BY DEF Added, Row
<1>2. \A y \in DOMAIN obligations : obligations[y] \in Int
  BY DEF Owed
<1> HIDE DEF new
<1>3. Total(new, DOMAIN obligations \cup {x}) = Total(obligations, DOMAIN obligations) + new[x]
  BY <1>1, <1>2, OwedFinite, TotalAdded
<1>4. ASSUME x \in Fills
      PROVE  Total(new, DOMAIN new \cap Fills) = Total(obligations, DOMAIN obligations \cap Fills) + amount
  <2>1. DOMAIN new \cap Fills = (DOMAIN obligations \cap Fills) \cup {x}
    BY <1>1, <1>4
  <2>2. Total(new, (DOMAIN obligations \cap Fills) \cup {x})
          = Total(obligations, DOMAIN obligations \cap Fills) + new[x]
    <3>1. /\ \A y \in DOMAIN obligations \cap Fills : obligations[y] \in Int /\ new[y] = obligations[y]
          /\ x \notin DOMAIN obligations \cap Fills /\ new[x] \in Int
      BY <1>1, <1>2
    <3>2. IsFiniteSet(DOMAIN obligations \cap Fills)
      BY OwedFinite
    <3> QED BY <3>1, <3>2, TotalAdded
  <2> QED BY <1>1, <2>1, <2>2
<1>5. ASSUME x \notin Fills
      PROVE  Total(new, DOMAIN new \cap Fills) = Total(obligations, DOMAIN obligations \cap Fills)
  <2>1. DOMAIN new \cap Fills = DOMAIN obligations \cap Fills
    BY <1>1, <1>5
  <2>2. Total(new, DOMAIN obligations \cap Fills) = Total(obligations, DOMAIN obligations \cap Fills)
    <3>1. \A y \in DOMAIN obligations \cap Fills : obligations[y] \in Int /\ new[y] = obligations[y]
      BY <1>1, <1>2
    <3> QED BY <3>1, OwedFinite, TotalSame
  <2> QED BY <2>1, <2>2
<1>6. Total(new, DOMAIN new) = Total(obligations, DOMAIN obligations) + amount
  BY <1>1, <1>3
<1> QED BY <1>1, <1>4, <1>5, <1>6 DEF new

\* What is posted and what the lots gain are the same: the gap stays.
LEMMA UnitsNearKept ==
  ASSUME UnitsNear, balance \in [Roles -> Int], IsFiniteSet(DOMAIN lots),
         \A l \in DOMAIN lots : Held[l] \in Int,
         NEW new, DOMAIN lots' = DOMAIN lots \cup new, new = {} \/ \E x : new = {x},
         rounded' = rounded, NEW q \in Int,
         balance'["position_units"] = balance["position_units"] + q,
         Total(Held', DOMAIN lots') = Total(Held, DOMAIN lots) + q
  PROVE  UnitsNear'
<1> DEFINE k == Cardinality(DOMAIN lots)
           n == Cardinality(DOMAIN lots')
<1>1. k \in Nat /\ rounded \in Nat
  BY FS_CardinalityType DEF UnitsNear
<1>2. n \in Nat /\ k <= n
  <2>1. CASE new = {}
    <3>1. DOMAIN lots' = DOMAIN lots
      BY <2>1
    <3> QED BY <1>1, <3>1
  <2>2. ASSUME NEW x, new = {x} PROVE n \in Nat /\ k <= n
    <3>1. IsFiniteSet(DOMAIN lots \cup {x})
      BY FS_AddElement
    <3>2. DOMAIN lots \in SUBSET (DOMAIN lots \cup {x}) /\ DOMAIN lots' = DOMAIN lots \cup {x}
      BY <2>2
    <3> QED BY <3>1, <3>2, FS_Subset, FS_CardinalityType
  <2> QED BY <2>1, <2>2
<1>3. (k + 1) * rounded <= (n + 1) * rounded /\ (n + 1) * rounded \in Nat /\ (k + 1) * rounded \in Nat
  <2> HIDE DEF k, n
  <2>1. PICK m \in Nat : n = k + m
    <3>1. n - k \in Nat /\ n = k + (n - k)
      BY <1>1, <1>2
    <3> QED BY <3>1
  <2>2. (n + 1) * rounded = (k + 1) * rounded + m * rounded
    BY <1>1, <2>1
  <2>3. m * rounded \in Nat /\ (k + 1) * rounded \in Nat
    BY <1>1
  <2> QED BY <2>2, <2>3
<1>4. balance["position_units"] \in Int /\ Total(Held, DOMAIN lots) \in Int
  BY TotalInt DEF Roles
<1>5. Gap' = Gap /\ Gap \in Int
  BY <1>4 DEF Gap
<1> HIDE DEF k, n
<1>6. -((k + 1) * rounded) <= 2 * Gap /\ 2 * Gap <= (k + 1) * rounded
  BY DEF UnitsNear, k
<1>7. -((n + 1) * rounded) <= 2 * Gap /\ 2 * Gap <= (n + 1) * rounded
  BY <1>3, <1>5, <1>6
<1> QED BY <1>1, <1>5, <1>7 DEF UnitsNear, n

\* There are finitely many rows, and their amounts are numbers.
LEMMA RowsFinite ==
  ASSUME Rows
  PROVE  /\ IsFiniteSet(DOMAIN consumed) /\ IsFiniteSet(DOMAIN adjusted)
         /\ \A k \in DOMAIN consumed : Gains[k] \in Int /\ Gains[k] = consumed[k].realized
         /\ \A l \in DOMAIN lots : /\ Basis[l] \in Int /\ Basis[l] = lots[l].basis
                                   /\ Held[l] \in Nat /\ Held[l] = lots[l].remaining
<1>1. IsFiniteSet(Sells \X DOMAIN lots)
  <2>1. IsFiniteSet(Sells) /\ IsFiniteSet(DOMAIN lots)
    BY LotsAssumption, LotsFinite
  <2> QED BY <2>1, FS_Product
<1>2. DOMAIN consumed \subseteq Sells \X DOMAIN lots /\ DOMAIN adjusted \subseteq DOMAIN consumed
  BY DEF Rows
<1>3. IsFiniteSet(DOMAIN consumed) /\ IsFiniteSet(DOMAIN adjusted)
  BY <1>1, <1>2, FS_Subset
<1>4. \A k \in DOMAIN consumed : Gains[k] \in Int /\ Gains[k] = consumed[k].realized
  BY DEF Rows, Consumption, Gains
<1>5. \A l \in DOMAIN lots : /\ Basis[l] \in Int /\ Basis[l] = lots[l].basis
                             /\ Held[l] \in Nat /\ Held[l] = lots[l].remaining
  BY LotNumbers DEF Basis, Held
<1> QED BY <1>3, <1>4, <1>5

\* A buy posts what it adds to the lots and owes.
LEMMA CommitBuyBooked ==
  ASSUME Rows, Asked, Locks, Booked, NEW b \in Buys, CommitBuy(b)
  PROVE  Booked'
<1> DEFINE c == BuyCost(b)
           z == SumOver(BuyCarried(b), fill[b].found)
           held == Held'
           basis == Basis'
           gains == Gains'
<1>1. /\ b \in Fills /\ fill[b].quantity \in Nat /\ c \in Int /\ z \in Int
      /\ balance \in [Roles -> Int] /\ Owed
      /\ IsFiniteSet(fill[b].found) /\ \A k \in fill[b].found : BuyCarried(b)[k] \in Int
  BY BuyCarriedInt DEF Fills, Asked, FillRow, Booked
<1>2. /\ balance' \in [Roles -> Int]
      /\ balance'["position_units"] = balance["position_units"] + fill[b].quantity
      /\ balance'["position_cost"] = balance["position_cost"] + c + z
      /\ balance'["cash"] = balance["cash"] - c
      /\ balance'["realized_gain_loss"] = balance["realized_gain_loss"] - z
  <2>1. Post([position_units |-> fill[b].quantity, position_cost |-> c, cash |-> -c], z)
    BY BuyWrites
  <2>2. fill[b].quantity \in Int
    BY <1>1
  <2> HIDE DEF c, z
  <2> QED BY <1>1, <2>1, <2>2, PostBuy
<1>3. /\ b \notin DOMAIN lots /\ DOMAIN lots' = DOMAIN lots \cup {b}
      /\ \A l \in DOMAIN lots : lots'[l] = lots[l]
      /\ lots'[b].remaining = fill[b].quantity /\ lots'[b].basis = c + z
      /\ DOMAIN consumed' = DOMAIN consumed
      /\ \A k \in DOMAIN consumed :
           consumed'[k].realized = consumed[k].realized
                                   + IF k \in fill[b].found THEN BuyCarried(b)[k] ELSE 0
  <2>1. lots'[b] = [opened |-> fill[b].quantity, remaining |-> fill[b].quantity, cost |-> c,
                    basis |-> c + z, day |-> fill[b].day, specific |-> FALSE]
    BY CommitBuyRows
  <2>2. lots'[b].remaining = fill[b].quantity /\ lots'[b].basis = c + z
    BY <2>1
  <2> QED BY <2>2, CommitBuyRows
<1>4. /\ \A l \in DOMAIN lots : held[l] = Held[l] /\ basis[l] = Basis[l]
      /\ held[b] = fill[b].quantity /\ basis[b] = c + z
  BY <1>3 DEF Held, Basis
<1> HIDE DEF held, basis, gains, c, z
<1>5. Total(held, DOMAIN lots') = Total(Held, DOMAIN lots) + fill[b].quantity
  <2>1. Total(held, DOMAIN lots \cup {b}) = Total(Held, DOMAIN lots) + held[b]
    BY <1>1, <1>3, <1>4, RowsFinite, LotsFinite, TotalAdded
  <2> QED BY <1>3, <1>4, <2>1
<1>6. Total(basis, DOMAIN lots') = Total(Basis, DOMAIN lots) + (c + z)
  <2>1. Total(basis, DOMAIN lots \cup {b}) = Total(Basis, DOMAIN lots) + basis[b]
    BY <1>1, <1>3, <1>4, RowsFinite, LotsFinite, TotalAdded
  <2> QED BY <1>3, <1>4, <2>1
<1>7. Total(gains, DOMAIN consumed') = Total(Gains, DOMAIN consumed) + z
  <2> DEFINE more == [k \in DOMAIN consumed |-> IF k \in fill[b].found THEN BuyCarried(b)[k] ELSE 0]
  <2>1. Total(more, DOMAIN consumed) = Total(BuyCarried(b), fill[b].found)
    <3>1. fill[b].found \in SUBSET DOMAIN consumed
      BY DEF Locks
    <3>2. \A k \in DOMAIN consumed : more[k] = IF k \in fill[b].found THEN BuyCarried(b)[k] ELSE 0
      OBVIOUS
    <3> HIDE DEF more
    <3> QED BY <1>1, <3>1, <3>2, RowsFinite, TotalRestrict
  <2>2. \A k \in DOMAIN consumed : more[k] \in Int /\ gains[k] = Gains[k] + more[k]
    <3>1. \A k \in DOMAIN consumed : gains[k] = consumed'[k].realized
      BY <1>3 DEF gains, Gains
    <3>2. \A k \in DOMAIN consumed : more[k] = IF k \in fill[b].found THEN BuyCarried(b)[k] ELSE 0
      OBVIOUS
    <3> HIDE DEF more
    <3> QED BY <1>1, <1>3, <3>1, <3>2, RowsFinite
  <2>3. Total(gains, DOMAIN consumed) = Total(Gains, DOMAIN consumed) + Total(more, DOMAIN consumed)
    <3> HIDE DEF more
    <3> QED BY <2>2, RowsFinite, TotalPlus
  <2>4. Total(BuyCarried(b), fill[b].found) = z
    BY SumIsTotal DEF z
  <2> QED BY <1>3, <2>1, <2>3, <2>4
<1>8. b \notin DOMAIN obligations
  BY <1>1, BuyWrites DEF Owed
<1>9. /\ DOMAIN obligations' = DOMAIN obligations \cup {b}
      /\ obligations'[b] = -c /\ \A y \in DOMAIN obligations : obligations'[y] = obligations[y]
      /\ Total(obligations', DOMAIN obligations') = Total(obligations, DOMAIN obligations) + (-c)
      /\ Total(obligations', DOMAIN obligations' \cap Fills)
           = Total(obligations, DOMAIN obligations \cap Fills) + (-c)
  <2>1. obligations' = Added(obligations, Row(b, -c))
    BY BuyWrites DEF c
  <2>2. -c \in Int
    BY <1>1
  <2> QED BY <1>1, <1>8, <2>1, <2>2, OwedMore
<1>10. Owed'
  <2>1. fill'[b].pc = "done" /\ (\A f \in Fills \ {b} : fill'[f] = fill[f]) /\ corporate' = corporate
    BY <1>1, BuyWrites, CommittedDone
  <2>2. -c \in Int
    BY <1>1
  <2> QED BY <1>1, <1>9, <2>1, <2>2 DEF Owed
<1>11. /\ balance["position_cost"] = Total(Basis, DOMAIN lots)
       /\ balance["cash"] = Total(obligations, DOMAIN obligations)
       /\ -balance["realized_gain_loss"] = Total(Gains, DOMAIN consumed)
       /\ -balance["realized_gain_loss"]
            = balance["position_cost"] + Total(obligations, DOMAIN obligations \cap Fills)
  BY DEF Booked
<1>12. /\ balance["position_units"] \in Int /\ balance["position_cost"] \in Int
       /\ balance["cash"] \in Int /\ balance["realized_gain_loss"] \in Int
       /\ Total(obligations, DOMAIN obligations \cap Fills) \in Int
       /\ Total(obligations, DOMAIN obligations) \in Int
  BY <1>1, OwedFinite DEF Roles
<1>13. /\ balance'["position_cost"] = Total(basis, DOMAIN lots')
       /\ balance'["cash"] = Total(obligations', DOMAIN obligations')
       /\ -balance'["realized_gain_loss"] = Total(gains, DOMAIN consumed')
       /\ -balance'["realized_gain_loss"]
            = balance'["position_cost"] + Total(obligations', DOMAIN obligations' \cap Fills)
  BY <1>1, <1>2, <1>5, <1>6, <1>7, <1>9, <1>11, <1>12
<1>14. UnitsNear'
  <2>1. fill[b].quantity \in Int /\ rounded' = rounded /\ UnitsNear /\ balance \in [Roles -> Int]
    <3>1. rounded' = rounded
      BY BuyWrites
    <3>2. UnitsNear
      BY DEF Booked
    <3> QED BY <1>1, <3>1, <3>2
  <2>2. IsFiniteSet(DOMAIN lots) /\ DOMAIN lots' = DOMAIN lots \cup {b}
    BY <1>3, LotsFinite
  <2>3. Total(Held', DOMAIN lots') = Total(Held, DOMAIN lots) + fill[b].quantity
    BY <1>5 DEF held
  <2>4. \A l \in DOMAIN lots : Held[l] \in Int
    BY RowsFinite
  <2>5. balance'["position_units"] = balance["position_units"] + fill[b].quantity
    BY <1>2
  <2>6. {b} = {} \/ \E x : {b} = {x}
    OBVIOUS
  <2> HIDE DEF held
  <2> QED BY <2>1, <2>2, <2>3, <2>4, <2>5, <2>6, UnitsNearKept
<1> QED BY <1>2, <1>10, <1>13, <1>14 DEF Booked, held, basis, gains

\* What a sell's consumptions and adjustments add up to.
LEMMA SellSums ==
  ASSUME Rows, Asked, Locks, NEW s \in Sells, CommitSell(s)
  PROVE  \E c, g, z \in Int :
           /\ SellLegs(s) = [position_units |-> -fill[s].quantity, position_cost |-> -c,
                             cash |-> Times(fill[s].price, fill[s].quantity),
                             realized_gain_loss |-> -g]
           /\ SumOver(Carried(s), fill[s].found) = z
           /\ Total(Held', DOMAIN lots') = Total(Held, DOMAIN lots) - fill[s].quantity
           /\ Total(Basis', DOMAIN lots') = Total(Basis, DOMAIN lots) - c + z
           /\ Total(Gains', DOMAIN consumed') = Total(Gains, DOMAIN consumed) + g + z
<1> DEFINE D == Drawn(s)
           F == fill[s].found
           carried == Carried(s)
           takes == [l \in fill[s].locked |-> Take(s, l)]
           taken == [l \in DOMAIN lots |-> IF l \in fill[s].locked THEN takes[l] ELSE 0]
           costs == [l \in D |-> ConsumedBasis(s, l)]
           out == [l \in DOMAIN lots |-> IF l \in D THEN costs[l] ELSE 0]
           into == [l \in DOMAIN lots |-> SumOver(carried, IntoLot(s, l))]
           won == [l \in D |-> Realized(s, l)]
           back == [l \in D |-> SumOver(carried, OnLot(s, l))]
           both == [l \in D |-> Realized(s, l) + SumOver(carried, OnLot(s, l))]
           held == Held'
           basis == Basis'
           gains == Gains'
           c == Total(costs, D)
           g == Total(won, D)
           z == Total(carried, F)
<1>1. fill[s].pc = "scanned" /\ InTransaction(s)
  BY SellWrites DEF InTransaction
<1>2. /\ fill[s].locked \in SUBSET DOMAIN lots /\ D \in SUBSET fill[s].locked
      /\ F \subseteq D \X DOMAIN lots /\ fill[s].quantity \in Nat
      /\ IsFiniteSet(DOMAIN lots) /\ IsFiniteSet(fill[s].locked) /\ IsFiniteSet(D)
  <2>1. /\ fill[s].locked \in SUBSET DOMAIN lots /\ D \in SUBSET fill[s].locked
        /\ F \subseteq D \X DOMAIN lots
    BY <1>1 DEF Locks, SellLocks, Drawn
  <2>2. fill[s].quantity \in Nat
    BY DEF Asked, FillRow, Fills
  <2>3. D \in SUBSET DOMAIN lots
    BY <2>1
  <2> HIDE DEF D, F
  <2>4. IsFiniteSet(DOMAIN lots) /\ IsFiniteSet(fill[s].locked) /\ IsFiniteSet(D)
    BY <2>1, <2>3, LotsFinite
  <2> QED BY <2>1, <2>2, <2>4
<1>3. /\ \A l \in fill[s].locked : Take(s, l) \in Nat /\ (l \notin D => Take(s, l) = 0)
      /\ \A l \in D : ConsumedBasis(s, l) \in Int /\ Realized(s, l) \in Int
  <2>1. ASSUME NEW l \in fill[s].locked
        PROVE  Take(s, l) \in Nat /\ (l \notin D => Take(s, l) = 0)
    <3>1. l \in DOMAIN lots /\ Take(s, l) \in 0 .. lots[l].remaining /\ lots[l].remaining \in Nat
      BY <1>1, TakeType, LotNumbers
    <3>2. l \notin D => ~(Take(s, l) > 0)
      BY DEF Drawn
    <3> QED BY <3>1, <3>2
  <2>2. \A l \in D : ConsumedBasis(s, l) \in Int /\ Realized(s, l) \in Int
    BY <1>1, <1>2, TakeType
  <2> QED BY <2>1, <2>2
<1>4. /\ IsFiniteSet(F) /\ \A p \in F : carried[p] \in Int
      /\ \A G \in SUBSET F : SumOver(carried, G) \in Int /\ SumOver(carried, G) = Total(carried, G)
  BY <1>1, CarriedInt, SumIsTotal
<1>5. /\ DOMAIN lots' = DOMAIN lots
      /\ \A l \in DOMAIN lots :
           /\ lots'[l].remaining = lots[l].remaining - IF l \in D THEN Take(s, l) ELSE 0
           /\ lots'[l].basis = lots[l].basis - (IF l \in D THEN ConsumedBasis(s, l) ELSE 0)
                               + SumOver(carried, IntoLot(s, l))
      /\ ({s} \X D) \cap DOMAIN consumed = {}
      /\ DOMAIN consumed' = DOMAIN consumed \cup ({s} \X D)
      /\ \A k \in DOMAIN consumed : consumed'[k] = consumed[k]
      /\ \A k \in {s} \X D : consumed'[k].realized
                               = Realized(s, k[2]) + SumOver(carried, OnLot(s, k[2]))
  <2>1. \A k \in {s} \X D :
          consumed'[k] = [quantity |-> Take(s, k[2]), day |-> fill[s].day,
                          realized |-> Realized(s, k[2]) + SumOver(carried, OnLot(s, k[2]))]
    BY CommitSellRows
  <2>2. ASSUME NEW k \in {s} \X D
        PROVE  consumed'[k].realized = Realized(s, k[2]) + SumOver(carried, OnLot(s, k[2]))
    <3> DEFINE r == Realized(s, k[2]) + SumOver(carried, OnLot(s, k[2]))
               t == Take(s, k[2])
    <3>1. consumed'[k] = [quantity |-> t, day |-> fill[s].day, realized |-> r]
      BY <2>1
    <3> HIDE DEF r, t
    <3>2. consumed'[k].realized = r
      BY <3>1
    <3> QED BY <3>2 DEF r
  <2> QED BY <2>2, CommitSellRows
<1>6. c \in Int /\ g \in Int /\ z \in Int
  <2>1. (\A l \in D : costs[l] \in Int) /\ (\A l \in D : won[l] \in Int)
    BY <1>3
  <2> HIDE DEF costs, won, D, F, carried
  <2> QED BY <1>2, <1>4, <2>1, TotalInt
<1>7. SellLegs(s) = [position_units |-> -fill[s].quantity, position_cost |-> -c,
                     cash |-> Times(fill[s].price, fill[s].quantity), realized_gain_loss |-> -g]
  <2>1. SumOver(costs, D) = c /\ SumOver(won, D) = g
    BY SumIsTotal
  <2> QED BY <2>1 DEF SellLegs
<1>8. Total(held, DOMAIN lots) = Total(Held, DOMAIN lots) - fill[s].quantity
  <2>1. Total(taken, DOMAIN lots) = Total(takes, fill[s].locked)
    <3>1. /\ \A l \in fill[s].locked : takes[l] \in Int
          /\ \A l \in DOMAIN lots : taken[l] = IF l \in fill[s].locked THEN takes[l] ELSE 0
      BY <1>3
    <3> HIDE DEF takes, taken
    <3> QED BY <1>2, <3>1, TotalRestrict
  <2>2. Total(takes, fill[s].locked) = fill[s].quantity
    <3>1. \A l \in fill[s].locked : takes[l] = Take(s, l)
      OBVIOUS
    <3> HIDE DEF takes
    <3> QED BY <1>1, <3>1, SellTakesAll
  <2>3. \A l \in DOMAIN lots : held[l] \in Int /\ taken[l] \in Int /\ Held[l] = held[l] + taken[l]
    <3> SUFFICES ASSUME NEW l \in DOMAIN lots
                 PROVE  held[l] \in Int /\ taken[l] \in Int /\ Held[l] = held[l] + taken[l]
      OBVIOUS
    <3>1. Held[l] \in Nat /\ Held[l] = lots[l].remaining
      BY RowsFinite
    <3>2. held[l] = lots'[l].remaining
      BY <1>5 DEF Held
    <3>3. taken[l] = IF l \in D THEN Take(s, l) ELSE 0
      BY <1>2, <1>3
    <3>4. l \in D => Take(s, l) \in Nat
      BY <1>2, <1>3
    <3>5. held[l] = lots[l].remaining - taken[l]
      BY <1>5, <3>2, <3>3
    <3>6. taken[l] \in Int
      BY <3>3, <3>4
    <3> HIDE DEF held, taken
    <3> QED BY <3>1, <3>5, <3>6
  <2>4. Total(Held, DOMAIN lots) = Total(held, DOMAIN lots) + Total(taken, DOMAIN lots)
    <3> HIDE DEF held, taken
    <3> QED BY <1>2, <2>3, TotalPlus
  <2>5. Total(held, DOMAIN lots) \in Int
    <3> HIDE DEF held, taken
    <3> QED BY <1>2, <2>3, TotalInt
  <2> HIDE DEF held, taken, takes
  <2> QED BY <1>2, <2>1, <2>2, <2>4, <2>5
<1>9. Total(basis, DOMAIN lots) = Total(Basis, DOMAIN lots) - c + z
  <2> DEFINE sum == [l \in DOMAIN lots |-> Basis[l] + into[l]]
  <2>1. Total(out, DOMAIN lots) = c
    <3>1. /\ \A l \in D : costs[l] \in Int
          /\ \A l \in DOMAIN lots : out[l] = IF l \in D THEN costs[l] ELSE 0
          /\ D \in SUBSET DOMAIN lots
      BY <1>2, <1>3
    <3> HIDE DEF costs, out, D
    <3> QED BY <1>2, <3>1, TotalRestrict
  <2>2. Total(into, DOMAIN lots) = z
    <3> DEFINE w == [p \in F |-> p[2]]
               b == [l \in DOMAIN lots |-> IntoLot(s, l)]
    <3>1. /\ w \in [F -> DOMAIN lots] /\ b \in [DOMAIN lots -> SUBSET F]
          /\ \A l \in DOMAIN lots : \A p \in F : p \in b[l] <=> w[p] = l
      BY <1>2 DEF IntoLot
    <3>2. \A l \in DOMAIN lots : into[l] = Total(carried, b[l])
      <4> SUFFICES ASSUME NEW l \in DOMAIN lots PROVE into[l] = Total(carried, b[l])
        OBVIOUS
      <4>1. b[l] = IntoLot(s, l) /\ into[l] = SumOver(carried, IntoLot(s, l))
        OBVIOUS
      <4>2. b[l] \in SUBSET F
        BY <3>1
      <4> HIDE DEF F, w, b, carried, into
      <4> QED BY <1>4, <4>1, <4>2
    <3>3. IsFiniteSet(F) /\ (\A p \in F : carried[p] \in Int) /\ IsFiniteSet(DOMAIN lots)
      BY <1>2, <1>4
    <3> HIDE DEF F, w, b, carried, into
    <3>4. Total(into, DOMAIN lots) = Total(carried, F)
      BY <3>1, <3>2, <3>3, Bins
    <3> QED BY <3>4
  <2>3. \A l \in DOMAIN lots : /\ Basis[l] \in Int /\ into[l] \in Int /\ out[l] \in Int /\ basis[l] \in Int
                               /\ sum[l] = Basis[l] + into[l] /\ sum[l] = basis[l] + out[l]
    <3> SUFFICES ASSUME NEW l \in DOMAIN lots
                 PROVE  /\ Basis[l] \in Int /\ into[l] \in Int /\ out[l] \in Int /\ basis[l] \in Int
                        /\ sum[l] = Basis[l] + into[l] /\ sum[l] = basis[l] + out[l]
      OBVIOUS
    <3>1. Basis[l] \in Int /\ Basis[l] = lots[l].basis
      BY RowsFinite
    <3>2. basis[l] = lots'[l].basis
      BY <1>5 DEF Basis
    <3>3. IntoLot(s, l) \in SUBSET F
      BY DEF IntoLot
    <3>4. into[l] \in Int /\ into[l] = SumOver(carried, IntoLot(s, l))
      BY <1>4, <3>3
    <3>5. out[l] \in Int /\ out[l] = IF l \in D THEN ConsumedBasis(s, l) ELSE 0
      BY <1>3
    <3>6. basis[l] = Basis[l] - out[l] + into[l]
      BY <1>5, <3>1, <3>2, <3>4, <3>5
    <3>7. sum[l] = Basis[l] + into[l]
      OBVIOUS
    <3> HIDE DEF sum, basis, out, into
    <3> QED BY <3>1, <3>4, <3>5, <3>6, <3>7
  <2> HIDE DEF sum, basis, out, into
  <2>4. Total(sum, DOMAIN lots) = Total(Basis, DOMAIN lots) + Total(into, DOMAIN lots)
    BY <1>2, <2>3, TotalPlus
  <2>5. Total(sum, DOMAIN lots) = Total(basis, DOMAIN lots) + Total(out, DOMAIN lots)
    BY <1>2, <2>3, TotalPlus
  <2>6. Total(basis, DOMAIN lots) \in Int /\ Total(Basis, DOMAIN lots) \in Int
    BY <1>2, <2>3, TotalInt
  <2> HIDE DEF c, z
  <2> QED BY <1>6, <2>1, <2>2, <2>4, <2>5, <2>6
<1>10. Total(gains, DOMAIN consumed') = Total(Gains, DOMAIN consumed) + g + z
  <2>1. \A l \in D : /\ won[l] \in Int /\ back[l] \in Int /\ both[l] = won[l] + back[l]
                     /\ gains[<<s, l>>] = both[l]
    <3> SUFFICES ASSUME NEW l \in D
                 PROVE  /\ won[l] \in Int /\ back[l] \in Int /\ both[l] = won[l] + back[l]
                        /\ gains[<<s, l>>] = both[l]
      OBVIOUS
    <3>1. won[l] \in Int /\ both[l] = won[l] + back[l]
      BY <1>3
    <3>2. OnLot(s, l) \in SUBSET F
      BY DEF OnLot
    <3>3. back[l] \in Int
      BY <1>4, <3>2
    <3>4. <<s, l>> \in {s} \X D /\ <<s, l>>[2] = l
      OBVIOUS
    <3>5. gains[<<s, l>>] = consumed'[<<s, l>>].realized
      BY <1>5, <3>4 DEF Gains
    <3>6. consumed'[<<s, l>>].realized = Realized(s, l) + SumOver(carried, OnLot(s, l))
      BY <1>5, <3>4
    <3> QED BY <3>1, <3>3, <3>5, <3>6
  <2>2. Total(back, D) = z
    <3> DEFINE w == [p \in F |-> p[1]]
               b == [l \in D |-> OnLot(s, l)]
    <3>1. /\ w \in [F -> D] /\ b \in [D -> SUBSET F]
          /\ \A l \in D : \A p \in F : p \in b[l] <=> w[p] = l
      BY <1>2 DEF OnLot
    <3>2. \A l \in D : back[l] = Total(carried, b[l])
      <4> SUFFICES ASSUME NEW l \in D PROVE back[l] = Total(carried, b[l])
        OBVIOUS
      <4>1. b[l] = OnLot(s, l) /\ back[l] = SumOver(carried, OnLot(s, l))
        OBVIOUS
      <4>2. b[l] \in SUBSET F
        BY <3>1
      <4> HIDE DEF F, w, b, carried, back
      <4> QED BY <1>4, <4>1, <4>2
    <3>3. IsFiniteSet(F) /\ (\A p \in F : carried[p] \in Int) /\ IsFiniteSet(D)
      BY <1>2, <1>4
    <3> HIDE DEF F, w, b, carried, back, D
    <3>4. Total(back, D) = Total(carried, F)
      BY <3>1, <3>2, <3>3, Bins
    <3> QED BY <3>4
  <2>3. \A k \in DOMAIN consumed : Gains[k] \in Int /\ gains[k] = Gains[k]
    <3>1. \A k \in DOMAIN consumed : gains[k] = consumed'[k].realized
      BY <1>5 DEF Gains
    <3> QED BY <1>5, <3>1, RowsFinite
  <2>4. ({s} \X D) \cap DOMAIN consumed = {} /\ DOMAIN consumed' = DOMAIN consumed \cup ({s} \X D)
    BY <1>5
  <2>5. \A k \in {s} \X D : gains[k] \in Int
    <3> SUFFICES ASSUME NEW k \in {s} \X D PROVE gains[k] \in Int
      OBVIOUS
    <3>1. k[2] \in D /\ k = <<s, k[2]>>
      OBVIOUS
    <3> HIDE DEF gains, both, won, back, D
    <3> QED BY <2>1, <3>1
  <2> HIDE DEF gains, both, won, back, D, F, carried
  <2>6. IsFiniteSet(D)
    BY <1>2
  <2>7. Total(gains, {s} \X D) = Total(both, D)
    <3> DEFINE K == {s} \X D
               w == [k \in K |-> k[2]]
               v == [l \in D |-> <<s, l>>]
    <3>1. ASSUME NEW l \in D PROVE both[l] \in Int /\ gains[v[l]] = both[l]
      <4>1. won[l] \in Int /\ back[l] \in Int /\ both[l] = won[l] + back[l]
        BY <2>1
      <4>2. gains[<<s, l>>] = both[l]
        BY <2>1
      <4>3. both[l] \in Int
        BY <4>1
      <4>4. v[l] = <<s, l>>
        OBVIOUS
      <4> QED BY <4>2, <4>3, <4>4
    <3>2. /\ w \in [K -> D] /\ v \in [D -> K]
          /\ \A l \in D : w[v[l]] = l
          /\ \A k \in K : v[w[k]] = k
      OBVIOUS
    <3>3. IsFiniteSet(K)
      <4>1. IsFiniteSet({s})
        BY FS_Singleton
      <4> QED BY <2>6, <4>1, FS_Product
    <3> HIDE DEF K, v, w
    <3>4. Total(gains, K) = Total(both, D)
      BY <2>6, <3>1, <3>2, <3>3, TotalRenamed
    <3> QED BY <3>4 DEF K
  <2>8. Total(both, D) = Total(won, D) + Total(back, D)
    <3>1. \A l \in D : won[l] \in Int /\ back[l] \in Int /\ both[l] = won[l] + back[l]
      BY <2>1
    <3> QED BY <2>6, <3>1, TotalPlus
  <2>9. Total(gains, DOMAIN consumed) = Total(Gains, DOMAIN consumed)
        /\ Total(Gains, DOMAIN consumed) \in Int
    BY <2>3, RowsFinite, TotalSame, TotalInt
  <2>10. Total(gains, DOMAIN consumed \cup ({s} \X D)) = Total(gains, DOMAIN consumed) + Total(gains, {s} \X D)
    <3>1. IsFiniteSet({s} \X D)
      <4>1. IsFiniteSet({s})
        BY FS_Singleton
      <4> QED BY <1>2, <4>1, FS_Product
    <3>2. \A k \in DOMAIN consumed \cup ({s} \X D) : gains[k] \in Int
      BY <2>3, <2>5
    <3>3. IsFiniteSet(DOMAIN consumed)
      BY RowsFinite
    <3> QED BY <2>4, <3>1, <3>2, <3>3, TotalUnion
  <2>11. Total(gains, DOMAIN consumed') = Total(Gains, DOMAIN consumed) + (g + Total(back, D))
    BY <2>4, <2>7, <2>8, <2>9, <2>10
  <2> HIDE DEF g, z
  <2> QED BY <1>6, <2>2, <2>9, <2>11
<1>11. SumOver(Carried(s), fill[s].found) = z
  BY SumIsTotal
<1> HIDE DEF c, g, z
<1>12. /\ Total(Held', DOMAIN lots') = Total(Held, DOMAIN lots) - fill[s].quantity
       /\ Total(Basis', DOMAIN lots') = Total(Basis, DOMAIN lots) - c + z
       /\ Total(Gains', DOMAIN consumed') = Total(Gains, DOMAIN consumed) + g + z
  BY <1>5, <1>8, <1>9, <1>10
<1> QED BY <1>6, <1>7, <1>11, <1>12

\* A sell posts what its lots give up and what is owed to it.
LEMMA CommitSellBooked ==
  ASSUME Rows, Asked, Locks, Booked, NEW s \in Sells, CommitSell(s)
  PROVE  Booked'
<1> DEFINE q == fill[s].quantity
           m == Times(fill[s].price, fill[s].quantity)
           legs == SellLegs(s)
<1>1. /\ s \in Fills /\ q \in Int /\ m \in Int /\ balance \in [Roles -> Int] /\ Owed
  <2>1. s \in Fills /\ fill[s].quantity \in Int /\ fill[s].price \in Int
    BY DEF Fills, Asked, FillRow
  <2>2. m \in Int
    BY <2>1, TimesInt
  <2> QED BY <2>1, <2>2 DEF Booked
<1>2. PICK c, g, z \in Int :
           /\ legs = [position_units |-> -q, position_cost |-> -c, cash |-> m,
                      realized_gain_loss |-> -g]
           /\ SumOver(Carried(s), fill[s].found) = z
           /\ Total(Held', DOMAIN lots') = Total(Held, DOMAIN lots) - q
           /\ Total(Basis', DOMAIN lots') = Total(Basis, DOMAIN lots) - c + z
           /\ Total(Gains', DOMAIN consumed') = Total(Gains, DOMAIN consumed) + g + z
  BY SellSums
<1>3. Post(legs, z)
  BY <1>2, SellWrites
<1> HIDE DEF m, q, legs
<1>4. /\ balance' \in [Roles -> Int]
      /\ balance'["position_units"] = balance["position_units"] - q
      /\ balance'["position_cost"] = balance["position_cost"] - c + z
      /\ balance'["cash"] = balance["cash"] + m
      /\ balance'["realized_gain_loss"] = balance["realized_gain_loss"] - g - z
      /\ m = c + g
  <2>1. legs = [position_units |-> -q, position_cost |-> -c, cash |-> m, realized_gain_loss |-> -g]
    BY <1>2
  <2>2. balance \in [Roles -> Int] /\ q \in Int /\ m \in Int
    BY <1>1
  <2>3. /\ DOMAIN legs = {"position_units", "position_cost", "cash", "realized_gain_loss"}
        /\ legs["position_units"] = -q /\ legs["position_cost"] = -c
        /\ legs["cash"] = m /\ legs["realized_gain_loss"] = -g
    BY <2>1
  <2>4. \A r \in DOMAIN legs : legs[r] \in Int
    BY <2>2, <2>3
  <2>5. /\ balance' \in [Roles -> Int]
        /\ balance'["position_units"] = balance["position_units"] + legs["position_units"]
        /\ balance'["position_cost"] = balance["position_cost"] + legs["position_cost"] + z
        /\ balance'["cash"] = balance["cash"] + legs["cash"]
        /\ balance'["realized_gain_loss"]
             = balance["realized_gain_loss"] + legs["realized_gain_loss"] - z
        /\ legs["realized_gain_loss"] + (legs["cash"] + legs["position_cost"]) = 0
    BY <1>3, <2>2, <2>3, <2>4, PostSell
  <2>6. /\ balance["position_units"] \in Int /\ balance["position_cost"] \in Int
        /\ balance["cash"] \in Int /\ balance["realized_gain_loss"] \in Int
    BY <2>2 DEF Roles
  <2> QED BY <2>2, <2>3, <2>5, <2>6
<1>5. s \notin DOMAIN obligations
  BY <1>1, SellWrites DEF Owed
<1>6. /\ DOMAIN obligations' = DOMAIN obligations \cup {s}
      /\ obligations'[s] = m /\ \A y \in DOMAIN obligations : obligations'[y] = obligations[y]
      /\ Total(obligations', DOMAIN obligations') = Total(obligations, DOMAIN obligations) + m
      /\ Total(obligations', DOMAIN obligations' \cap Fills)
           = Total(obligations, DOMAIN obligations \cap Fills) + m
  <2>1. obligations' = Added(obligations, Row(s, m))
    BY SellWrites DEF m
  <2> QED BY <1>1, <1>5, <2>1, OwedMore
<1>7. Owed'
  <2>1. fill'[s].pc = "done" /\ (\A f \in Fills \ {s} : fill'[f] = fill[f]) /\ corporate' = corporate
    BY <1>1, SellWrites, CommittedDone
  <2> QED BY <1>1, <1>6, <2>1 DEF Owed
<1>8. /\ balance["position_cost"] = Total(Basis, DOMAIN lots)
      /\ balance["cash"] = Total(obligations, DOMAIN obligations)
      /\ -balance["realized_gain_loss"] = Total(Gains, DOMAIN consumed)
      /\ -balance["realized_gain_loss"]
           = balance["position_cost"] + Total(obligations, DOMAIN obligations \cap Fills)
  BY DEF Booked
<1>9. /\ balance["position_units"] \in Int /\ balance["position_cost"] \in Int
      /\ balance["cash"] \in Int /\ balance["realized_gain_loss"] \in Int
      /\ Total(obligations, DOMAIN obligations \cap Fills) \in Int
      /\ Total(obligations, DOMAIN obligations) \in Int
  BY <1>1, OwedFinite DEF Roles
<1>10. /\ balance'["position_cost"] = Total(Basis', DOMAIN lots')
       /\ balance'["cash"] = Total(obligations', DOMAIN obligations')
       /\ -balance'["realized_gain_loss"] = Total(Gains', DOMAIN consumed')
       /\ -balance'["realized_gain_loss"]
            = balance'["position_cost"] + Total(obligations', DOMAIN obligations' \cap Fills)
  BY <1>1, <1>2, <1>4, <1>6, <1>8, <1>9
<1>11. UnitsNear'
  <2>1. -q \in Int /\ rounded' = rounded /\ UnitsNear /\ balance["position_units"] \in Int
    <3>1. rounded' = rounded
      BY SellWrites
    <3>2. UnitsNear
      BY DEF Booked
    <3> QED BY <1>1, <1>9, <3>1, <3>2
  <2>2. IsFiniteSet(DOMAIN lots) /\ DOMAIN lots' = DOMAIN lots
    BY CommitSellRows, LotsFinite
  <2>3. Total(Held, DOMAIN lots) \in Int
    BY <2>2, RowsFinite, TotalInt
  <2>4. /\ Total(Held', DOMAIN lots') = Total(Held, DOMAIN lots) + (-q)
        /\ balance'["position_units"] = balance["position_units"] + (-q)
    BY <1>1, <1>2, <1>4, <2>1, <2>3
  <2>5. DOMAIN lots' = DOMAIN lots \cup {}
    BY <2>2
  <2>6. /\ \A l \in DOMAIN lots : Held[l] \in Int
        /\ balance \in [Roles -> Int]
    BY <1>1, RowsFinite
  <2>7. ({} = {}) \/ \E x : {} = {x}
    OBVIOUS
  <2> HIDE DEF q
  <2> QED BY <2>1, <2>2, <2>4, <2>5, <2>6, <2>7, UnitsNearKept
<1> QED BY <1>4, <1>7, <1>10, <1>11 DEF Booked

\* Amounts each of which is at most c are at most c for each of them.
LEMMA TotalBounded ==
  ASSUME NEW f, NEW S, IsFiniteSet(S), NEW c \in Nat,
         \A x \in S : f[x] \in Int /\ -c <= f[x] /\ f[x] <= c
  PROVE  /\ Cardinality(S) \in Nat
         /\ -(c * Cardinality(S)) <= Total(f, S) /\ Total(f, S) <= c * Cardinality(S)
<1> DEFINE T == {s \in SUBSET S : /\ -(c * Cardinality(s)) <= Total(f, s)
                                  /\ Total(f, s) <= c * Cardinality(s)}
<1>1. {} \in T
  BY TotalEmpty, FS_EmptySet
<1>2. ASSUME NEW s \in T, NEW x \in S \ s PROVE s \cup {x} \in T
  <2>1. IsFiniteSet(s) /\ s \in SUBSET S
    BY FS_Subset
  <2>2. Total(f, s \cup {x}) = f[x] + Total(f, s)
    BY <2>1, TotalInsert
  <2>3. Total(f, s) \in Int
    BY <2>1, TotalInt
  <2>4. Cardinality(s) \in Nat /\ Cardinality(s \cup {x}) = Cardinality(s) + 1
    BY <2>1, FS_AddElement, FS_CardinalityType
  <2>5. /\ f[x] \in Int /\ -c <= f[x] /\ f[x] <= c
        /\ -(c * Cardinality(s)) <= Total(f, s) /\ Total(f, s) <= c * Cardinality(s)
    OBVIOUS
  <2>6. c * (Cardinality(s) + 1) = c * Cardinality(s) + c /\ c * Cardinality(s) \in Nat
    BY <2>4
  <2>7. /\ -(c * Cardinality(s \cup {x})) <= Total(f, s \cup {x})
        /\ Total(f, s \cup {x}) <= c * Cardinality(s \cup {x})
    <3> HIDE DEF T
    <3> QED BY <2>2, <2>3, <2>4, <2>5, <2>6
  <2> QED BY <2>1, <2>7
<1>3. S \in T
  <2> HIDE DEF T
  <2> QED BY <1>1, <1>2, SetInduction
<1> QED BY <1>3, FS_CardinalityType

\* What a split adds to the position and what it adds to the lots differ by half
\* a quantum for each lot and one for the entry, and not at all when the ratio is
\* whole.
LEMMA SplitDrift ==
  ASSUME NEW p \in Nat, NEW d \in Nat \ {0}, NEW S, IsFiniteSet(S), NEW f, NEW g, NEW u,
         \A x \in S : f[x] \in Nat /\ g[x] = Quantize(f[x] * p, d),
         u = Quantize(Total(f, S) * (p - d), d)
  PROVE  /\ Total(f, S) \in Int /\ Total(g, S) \in Int /\ u \in Int /\ Cardinality(S) \in Nat
         /\ -(Cardinality(S) + 1) <= 2 * (u + Total(f, S) - Total(g, S))
         /\ 2 * (u + Total(f, S) - Total(g, S)) <= Cardinality(S) + 1
         /\ d = 1 => u + Total(f, S) = Total(g, S)
<1> DEFINE F == Total(f, S)
           G == Total(g, S)
           K == Cardinality(S)
           fp == [x \in S |-> f[x] * p]
           gd == [x \in S |-> g[x] * d]
           err == [x \in S |-> 2 * (g[x] * d - f[x] * p)]
           neg == [x \in S |-> f[x] * (-p)]
           off == [x \in S |-> g[x] * d - f[x] * p]
<1>1. \A x \in S : f[x] * p \in Int /\ g[x] \in Int
  <2> SUFFICES ASSUME NEW x \in S PROVE f[x] * p \in Int /\ g[x] \in Int
    OBVIOUS
  <2>1. f[x] \in Nat /\ g[x] = Quantize(f[x] * p, d)
    OBVIOUS
  <2>2. f[x] * p \in Int
    BY <2>1
  <2> QED BY <2>1, <2>2, QuantizeInt
<1>2. F \in Int /\ G \in Int
  BY <1>1, TotalInt
<1>3. u \in Int /\ -d <= 2 * (d * u - F * (p - d)) /\ 2 * (d * u - F * (p - d)) <= d
  <2>1. F * (p - d) \in Int
    BY <1>2
  <2> HIDE DEF F
  <2> QED BY <2>1, QuantizeInt, QuantizeNear DEF F
<1>4. \A x \in S : err[x] \in Int /\ -d <= err[x] /\ err[x] <= d
  <2> SUFFICES ASSUME NEW x \in S
               PROVE  LET e == 2 * (g[x] * d - f[x] * p) IN e \in Int /\ -d <= e /\ e <= d
    OBVIOUS
  <2>1. -d <= 2 * (d * g[x] - f[x] * p) /\ 2 * (d * g[x] - f[x] * p) <= d
    BY <1>1, QuantizeNear
  <2>2. d * g[x] = g[x] * d /\ g[x] * d \in Int
    BY <1>1
  <2> QED BY <1>1, <2>1, <2>2
<1>5. K \in Nat /\ -(d * K) <= Total(err, S) /\ Total(err, S) <= d * K
  <2> HIDE DEF err
  <2> QED BY <1>4, TotalBounded
<1>6. Total(gd, S) = G * d /\ Total(neg, S) = F * (-p)
  <2>1. \A x \in S : g[x] \in Int /\ gd[x] = g[x] * d /\ f[x] \in Int /\ neg[x] = f[x] * (-p)
    BY <1>1
  <2>2. d \in Int /\ -p \in Int
    OBVIOUS
  <2> HIDE DEF gd, neg
  <2> QED BY <2>1, <2>2, TotalScaled
<1>7. Total(off, S) = Total(gd, S) + Total(neg, S)
  <2>1. \A x \in S : gd[x] \in Int /\ neg[x] \in Int /\ off[x] = gd[x] + neg[x]
    <3> SUFFICES ASSUME NEW x \in S
                 PROVE  /\ g[x] * d \in Int /\ f[x] * (-p) \in Int
                        /\ g[x] * d - f[x] * p = g[x] * d + f[x] * (-p)
      OBVIOUS
    <3>1. f[x] * (-p) = -(f[x] * p) /\ g[x] * d \in Int /\ f[x] * p \in Int
      BY <1>1
    <3> QED BY <3>1
  <2> HIDE DEF gd, neg, off
  <2> QED BY <2>1, TotalPlus
<1>8. Total(err, S) = Total(off, S) * 2
  <2>1. \A x \in S : off[x] \in Int /\ err[x] = off[x] * 2
    <3> SUFFICES ASSUME NEW x \in S
                 PROVE  LET e == g[x] * d - f[x] * p IN e \in Int /\ 2 * e = e * 2
      OBVIOUS
    <3>1. g[x] * d \in Int /\ f[x] * p \in Int
      BY <1>1
    <3> QED BY <3>1
  <2>2. 2 \in Int
    OBVIOUS
  <2> HIDE DEF off, err
  <2> QED BY <2>1, <2>2, TotalScaled
<1> HIDE DEF F, G, K, err, off, gd, neg
<1> DEFINE D == u + F - G
<1>9. Total(err, S) = 2 * (G * d - F * p)
  <2>1. F * (-p) = -(F * p) /\ F * p \in Int /\ G * d \in Int
    BY <1>2
  <2> QED BY <1>6, <1>7, <1>8, <2>1
<1>10. 2 * (d * u - F * (p - d)) - 2 * (G * d - F * p) = d * (2 * D)
  <2>1. F * (p - d) = F * p - F * d /\ d * (2 * D) = 2 * (d * u) + 2 * (F * d) - 2 * (G * d)
    BY <1>2, <1>3
  <2>2. F * p \in Int /\ F * d \in Int /\ G * d \in Int /\ d * u \in Int
    BY <1>2, <1>3
  <2> HIDE DEF D
  <2> QED BY <2>1, <2>2
<1>11. D \in Int
  BY <1>2, <1>3
<1> HIDE DEF D
<1>12. -d - d * K <= d * (2 * D) /\ d * (2 * D) <= d + d * K
  <2>1. /\ d * u - F * (p - d) \in Int /\ G * d - F * p \in Int /\ d * K \in Int /\ d * (2 * D) \in Int
    <3>1. F * p \in Int /\ F * (p - d) \in Int /\ G * d \in Int /\ d * u \in Int
      BY <1>2, <1>3
    <3> QED BY <1>5, <1>11, <3>1
  <2> QED BY <1>3, <1>5, <1>9, <1>10, <2>1
<1>13. d * (K + 1) = d + d * K /\ d * (-(K + 1)) = -d - d * K
  BY <1>5
<1>14. 2 * D <= K + 1 /\ -(K + 1) <= 2 * D
  <2>1. 2 * D \in Int /\ K + 1 \in Int /\ -(K + 1) \in Int
    BY <1>5, <1>11
  <2>2. d * (2 * D) <= d * (K + 1) /\ d * (-(K + 1)) <= d * (2 * D)
    BY <1>12, <1>13
  <2> QED BY <2>1, <2>2, Cancel
<1>15. ASSUME d = 1 PROVE u + F = G
  <2>1. \A x \in S : g[x] = f[x] * p
    BY <1>1, <1>15, QuantizeWhole
  <2>2. G = F * p
    <3>1. \A x \in S : f[x] \in Int /\ g[x] = f[x] * p
      BY <2>1
    <3> QED BY <3>1, TotalScaled DEF F, G
  <2>3. u = F * (p - 1)
    <3>1. F * (p - 1) \in Int
      BY <1>2
    <3> QED BY <1>15, <3>1, QuantizeWhole DEF F
  <2>4. F * (p - 1) = F * p - F /\ F * p \in Int
    BY <1>2
  <2> HIDE DEF F, G
  <2>5. u + F = F * p
    <3>1. \A a, b, c \in Int : c = a - b => c + b = a
      OBVIOUS
    <3>2. u \in Int /\ u = F * p - F
      BY <1>3, <2>3, <2>4
    <3> QED BY <1>2, <2>4, <3>1, <3>2
  <2> QED BY <2>2, <2>5
<1> QED BY <1>2, <1>3, <1>5, <1>14, <1>15 DEF F, G, K, D

\* A split adds to the position what it adds to the lots, up to its rounding.
LEMMA SplitBooked ==
  ASSUME Rows, Booked, NEW ratio \in Ratios, NEW d \in Days, ApplySplit(ratio, d)
  PROVE  Booked'
<1> DEFINE held == Held'
           open == Total(Held, OpenLots)
           p == ratio[1]
           q == ratio[2]
           u == SplitUnits(ratio)
           K == Cardinality(DOMAIN lots)
<1>1. /\ corporate' = corporate + 1 /\ Post([position_units |-> u], 0)
      /\ Owed /\ balance \in [Roles -> Int] /\ p \in Nat /\ q \in Nat \ {0}
      /\ rounded' = IF q = 1 THEN rounded ELSE rounded + 1
  <2>1. p \in Nat /\ q \in Nat \ {0}
    BY LotsAssumption
  <2>2. /\ corporate' = corporate + 1 /\ Post([position_units |-> u], 0)
        /\ rounded' = IF q = 1 THEN rounded ELSE rounded + 1
    BY DEF ApplySplit, CorporateAction
  <2> QED BY <2>1, <2>2 DEF Booked
<1>2. /\ DOMAIN lots' = DOMAIN lots
      /\ \A l \in DOMAIN lots :
           /\ lots'[l].basis = lots[l].basis
           /\ lots'[l].remaining = IF l \in OpenLots THEN SplitLot(lots[l].remaining, ratio)
                                   ELSE lots[l].remaining
      /\ UNCHANGED <<consumed, fill, obligations>>
  BY SplitRows
<1>3. Remaining(OpenLots) = open /\ open \in Int /\ OpenLots \in SUBSET DOMAIN lots
  <2>1. OpenLots \in SUBSET DOMAIN lots
    BY DEF OpenLots
  <2> QED BY <2>1, RemainingIsTotal DEF Held
<1>c. \A l \in DOMAIN lots : l \notin OpenLots => lots[l].remaining = 0
  <2>1. \A l \in DOMAIN lots : lots[l].remaining \in Nat
    BY RowsFinite
  <2>2. \A l \in DOMAIN lots : l \notin OpenLots => ~(lots[l].remaining > 0)
    BY DEF OpenLots
  <2> QED BY <2>1, <2>2
<1>4. Total(Held, DOMAIN lots) = open
  <2>1. \A l \in DOMAIN lots : /\ Held[l] \in Int
                               /\ Held[l] = IF l \in OpenLots THEN Held[l] ELSE 0
    <3>1. \A l \in DOMAIN lots : Held[l] \in Nat /\ Held[l] = lots[l].remaining
      BY RowsFinite
    <3> QED BY <1>c, <3>1
  <2> QED BY <1>3, <2>1, LotsFinite, TotalRestrict
<1>5. \A l \in DOMAIN lots : Held[l] \in Nat /\ held[l] = Quantize(Held[l] * p, q)
  <2> SUFFICES ASSUME NEW l \in DOMAIN lots
               PROVE  Held[l] \in Nat /\ held[l] = Quantize(Held[l] * p, q)
    OBVIOUS
  <2>1. Held[l] \in Nat /\ Held[l] = lots[l].remaining /\ held[l] = lots'[l].remaining
    BY <1>2, RowsFinite DEF Held
  <2>2. CASE l \in OpenLots
    BY <1>2, <2>1, <2>2 DEF SplitLot
  <2>3. CASE l \notin OpenLots
    <3>1. Held[l] = 0 /\ held[l] = 0
      BY <1>2, <1>c, <2>1, <2>3
    <3>2. 0 * p = 0 /\ 0 \div q = 0 /\ 0 % q = 0 /\ 2 * 0 < q
      BY <1>1
    <3>3. Quantize(0 * p, q) = 0
      BY <3>2 DEF Quantize
    <3> HIDE DEF held, p, q
    <3> QED BY <2>1, <3>1, <3>3
  <2> QED BY <2>2, <2>3
<1>6. u = Quantize(open * (p - q), q)
  BY <1>3 DEF SplitUnits
<1> HIDE DEF open, held, p, q, u
<1>7. /\ Total(Held, DOMAIN lots) \in Int /\ Total(held, DOMAIN lots) \in Int /\ u \in Int /\ K \in Nat
      /\ -(K + 1) <= 2 * (u + Total(Held, DOMAIN lots) - Total(held, DOMAIN lots))
      /\ 2 * (u + Total(Held, DOMAIN lots) - Total(held, DOMAIN lots)) <= K + 1
      /\ q = 1 => u + Total(Held, DOMAIN lots) = Total(held, DOMAIN lots)
  BY <1>1, <1>4, <1>5, <1>6, LotsFinite, SplitDrift
<1>8. /\ balance' \in [Roles -> Int]
      /\ balance'["position_units"] = balance["position_units"] + u
      /\ \A r \in Roles \ {"position_units"} : balance'[r] = balance[r]
  BY <1>1, <1>7 DEF Post, Roles, WashSaleEntry
<1>9. Basis' = Basis /\ Gains' = Gains
  BY <1>2 DEF Basis, Gains
<1>10. UnitsNear'
  <2> DEFINE D == u + Total(Held, DOMAIN lots) - Total(held, DOMAIN lots)
             n == rounded
  <2>1. balance["position_units"] \in Int /\ n \in Nat
    BY <1>1 DEF Roles, Booked, UnitsNear
  <2>2. Gap' = Gap + D /\ Gap \in Int /\ D \in Int
    BY <1>2, <1>7, <1>8, <2>1 DEF Gap, held
  <2>3. /\ -((K + 1) * n) <= 2 * Gap /\ 2 * Gap <= (K + 1) * n
    BY DEF Booked, UnitsNear
  <2>4. rounded' = IF q = 1 THEN n ELSE n + 1
    BY <1>1
  <2>5. /\ -(K + 1) <= 2 * D /\ 2 * D <= K + 1 /\ (q = 1 => D = 0)
    BY <1>7
  <2>6. (K + 1) * n \in Int /\ (K + 1) * (n + 1) = (K + 1) * n + (K + 1) /\ K \in Nat
    BY <1>7, <2>1
  <2>7. Cardinality(DOMAIN lots') = K
    BY <1>2
  <2> HIDE DEF D, n, K
  <2>8. rounded' \in Nat /\ -((K + 1) * rounded') <= 2 * (Gap + D) /\ 2 * (Gap + D) <= (K + 1) * rounded'
    <3>1. CASE q = 1
      BY <2>1, <2>2, <2>3, <2>4, <2>5, <3>1
    <3>2. CASE q # 1
      BY <2>1, <2>2, <2>3, <2>4, <2>5, <2>6, <3>2
    <3> QED BY <3>1, <3>2
  <2> QED BY <2>2, <2>7, <2>8 DEF UnitsNear
<1>11. /\ balance'["position_cost"] = balance["position_cost"] /\ balance'["cash"] = balance["cash"]
       /\ balance'["realized_gain_loss"] = balance["realized_gain_loss"]
  BY <1>8 DEF Roles
<1>12. Owed'
  <2>1. corporate \in Nat
    BY <1>1 DEF Owed
  <2> QED BY <1>1, <1>2, <2>1 DEF Owed
<1> QED BY <1>2, <1>8, <1>9, <1>10, <1>11, <1>12 DEF Booked

\* A dividend declared moves no account of the lots; one paid is owed in cash.
LEMMA DividendBooked ==
  ASSUME Rows, Booked, NEW a \in Rates, NEW d \in Days, DeclareDividendExDate(a, d) \/ PayDividend(a, d)
  PROVE  Booked'
<1>1. /\ UNCHANGED <<lots, consumed, fill>> /\ corporate' = corporate + 1 /\ corporate \in Nat
      /\ balance \in [Roles -> Int] /\ Owed /\ a \in Int
  BY DividendRows, LotsAssumption DEF Booked, Owed, DeclareDividendExDate, PayDividend, CorporateAction
<1>2. Held' = Held /\ Basis' = Basis /\ Gains' = Gains
  BY <1>1 DEF Held, Basis, Gains
<1>u. rounded' = rounded /\ UnitsNear
  BY DEF DeclareDividendExDate, PayDividend, Booked
<1>3. CASE DeclareDividendExDate(a, d)
  <2> DEFINE amount == Times(a, Remaining(OpenLots))
  <2>1. Post([dividend_receivable |-> amount, dividend_income |-> -amount], 0) /\ obligations' = obligations
    BY <1>3 DEF DeclareDividendExDate
  <2>2. amount \in Int
    <3>1. OpenLots \in SUBSET DOMAIN lots
      BY DEF OpenLots
    <3>2. Remaining(OpenLots) = Total(Held, OpenLots) /\ Remaining(OpenLots) \in Nat
      BY <3>1, RemainingIsTotal DEF Held
    <3> QED BY <1>1, <3>2, TimesInt
  <2> HIDE DEF amount
  <2>3. /\ balance' \in [Roles -> Int]
        /\ balance'["position_units"] = balance["position_units"]
        /\ balance'["position_cost"] = balance["position_cost"]
        /\ balance'["cash"] = balance["cash"]
        /\ balance'["realized_gain_loss"] = balance["realized_gain_loss"]
    BY <1>1, <2>1, <2>2 DEF Post, Roles, WashSaleEntry
  <2>4. Owed'
    BY <1>1, <2>1 DEF Owed
  <2>5. UnitsNear'
    BY <1>1, <1>2, <1>u, <2>3 DEF UnitsNear, Gap
  <2> QED BY <1>1, <1>2, <2>1, <2>3, <2>4, <2>5 DEF Booked
<1>4. CASE PayDividend(a, d)
  <2> DEFINE x == -(corporate + 1)
  <2>1. Post([cash |-> a, dividend_receivable |-> -a], 0) /\ obligations' = Added(obligations, Row(x, a))
    BY <1>4 DEF PayDividend
  <2>2. /\ balance' \in [Roles -> Int]
        /\ balance'["position_units"] = balance["position_units"]
        /\ balance'["position_cost"] = balance["position_cost"]
        /\ balance'["cash"] = balance["cash"] + a
        /\ balance'["realized_gain_loss"] = balance["realized_gain_loss"]
    BY <1>1, <2>1 DEF Post, Roles, WashSaleEntry
  <2>3. x \notin Fills /\ x \notin DOMAIN obligations
    <3>1. Fills \subseteq Nat
      BY LotsAssumption DEF Fills
    <3>2. x \notin Fills
      BY <1>1, <3>1
    <3>3. x \notin -corporate .. -1
      BY <1>1
    <3> QED BY <1>1, <3>2, <3>3 DEF Owed
  <2>4. x \in -(corporate + 1) .. -1 /\ \A y \in -corporate .. -1 : y \in -(corporate + 1) .. -1
    BY <1>1
  <2> HIDE DEF x
  <2>5. /\ DOMAIN obligations' = DOMAIN obligations \cup {x}
        /\ obligations'[x] = a /\ \A y \in DOMAIN obligations : obligations'[y] = obligations[y]
        /\ Total(obligations', DOMAIN obligations') = Total(obligations, DOMAIN obligations) + a
        /\ Total(obligations', DOMAIN obligations' \cap Fills)
             = Total(obligations, DOMAIN obligations \cap Fills)
    BY <1>1, <2>1, <2>3, OwedMore
  <2>6. Owed'
    <3>1. corporate' \in Nat
      BY <1>1
    <3>2. \A y \in DOMAIN obligations' : obligations'[y] \in Int
      BY <1>1, <2>5 DEF Owed
    <3>3. \A y \in DOMAIN obligations' : y \in Fills => fill'[y].pc = "done"
      BY <1>1, <2>3, <2>5 DEF Owed
    <3>4. \A y \in DOMAIN obligations' : y \notin Fills => y \in -(corporate + 1) .. -1
      BY <1>1, <2>4, <2>5 DEF Owed
    <3> QED BY <1>1, <3>1, <3>2, <3>3, <3>4 DEF Owed
  <2>7. /\ balance["position_cost"] = Total(Basis, DOMAIN lots)
        /\ balance["cash"] = Total(obligations, DOMAIN obligations)
        /\ -balance["realized_gain_loss"] = Total(Gains, DOMAIN consumed)
        /\ -balance["realized_gain_loss"]
             = balance["position_cost"] + Total(obligations, DOMAIN obligations \cap Fills)
    BY DEF Booked
  <2>8. UnitsNear'
    BY <1>1, <1>2, <1>u, <2>2 DEF UnitsNear, Gap
  <2> QED BY <1>1, <1>2, <2>2, <2>5, <2>6, <2>7, <2>8 DEF Booked
<1> QED BY <1>3, <1>4

\* Nothing on the other side of the ledger is nothing.
LEMMA MinusNothing ==
  ASSUME NEW n \in Int
  PROVE  n = 0 => -n = 0
<1>1. n = 0 => -n <= 0
  OBVIOUS
<1>2. n = 0 => -n >= 0
  OBVIOUS
<1>3. -n <= 0 /\ -n >= 0 => -n = 0
  OBVIOUS
<1> QED BY <1>1, <1>2, <1>3, Zenon

\* Nothing is booked and nothing is owed at the start.
LEMMA BookedInit == Init => Booked
<1> SUFFICES ASSUME Init PROVE Booked
  OBVIOUS
<1>1. DOMAIN lots = {} /\ DOMAIN consumed = {} /\ DOMAIN obligations = {}
  BY DEF Init
<1>2. DOMAIN obligations \cap Fills = {}
  BY <1>1
<1>3. /\ Total(Held, {}) = 0 /\ Total(Basis, {}) = 0 /\ Total(Gains, {}) = 0
      /\ Total(obligations, {}) = 0
  BY TotalEmpty
<1>4. /\ balance \in [Roles -> Int] /\ balance["position_units"] = 0 /\ balance["position_cost"] = 0
      /\ balance["cash"] = 0 /\ balance["realized_gain_loss"] = 0
  BY DEF Init, Roles
<1>5. Owed
  BY <1>1 DEF Init, Owed
<1>6. Total(obligations, DOMAIN obligations \cap Fills) = 0
  BY <1>2, <1>3
<1>7. /\ Total(Held, DOMAIN lots) = 0 /\ Total(Basis, DOMAIN lots) = 0
      /\ Total(Gains, DOMAIN consumed) = 0 /\ Total(obligations, DOMAIN obligations) = 0
  BY <1>1, <1>3
<1>8. -balance["realized_gain_loss"] = 0
  <2>1. balance["realized_gain_loss"] \in Int
    BY <1>4 DEF Roles
  <2>2. balance["realized_gain_loss"] = 0 => -balance["realized_gain_loss"] = 0
    BY <2>1, MinusNothing, Zenon
  <2> QED BY <1>4, <2>2, Zenon
<1>9. balance["position_cost"] + Total(obligations, DOMAIN obligations \cap Fills) = 0
  BY <1>4, <1>6
<1>10. UnitsNear
  <2>1. Gap = 0 /\ rounded = 0 /\ Cardinality(DOMAIN lots) = 0
    BY <1>1, <1>4, <1>7, FS_EmptySet DEF Gap, Init
  <2> QED BY <2>1 DEF UnitsNear
<1> QED BY <1>4, <1>5, <1>7, <1>8, <1>9, <1>10 DEF Booked

\* A step that writes no row of the books and undoes no committed fill.
LEMMA BookedKept ==
  ASSUME Booked, Prepares, \A f \in Fills : fill[f].pc = "done" => fill'[f].pc = "done"
  PROVE  Booked'
<1>1. UNCHANGED <<lots, consumed, balance, obligations, corporate, rounded>>
  BY DEF Prepares
<1>2. Held' = Held /\ Basis' = Basis /\ Gains' = Gains
  BY <1>1 DEF Held, Basis, Gains
<1>3. Owed'
  BY <1>1 DEF Booked, Owed
<1>4. UnitsNear'
  BY <1>1, <1>2 DEF Booked, UnitsNear, Gap
<1> QED BY <1>1, <1>2, <1>3, <1>4 DEF Booked

\* In every reachable state the ledger holds what the rows add up to.
THEOREM BooksInvariant == Spec => []Booked
<1> DEFINE I == Rows /\ Asked /\ Locks
<1>1. I /\ Booked /\ [Next]_vars => Booked'
  <2> SUFFICES ASSUME Rows, Asked, Locks, Booked, [Next]_vars PROVE Booked'
    OBVIOUS
  <2>1. ASSUME Next PROVE Booked'
    <3>1. ASSUME Prepares PROVE Booked'
      <4>1. \A f \in Fills : fill[f].pc = "done" => fill'[f].pc = "done"
        BY <2>1, DoneStays
      <4> QED BY <3>1, <4>1, BookedKept
    <3>2. ASSUME NEW b \in Buys, CommitBuy(b) PROVE Booked'
      BY <3>2, CommitBuyBooked
    <3>3. ASSUME NEW s \in Sells, CommitSell(s) PROVE Booked'
      BY <3>3, CommitSellBooked
    <3>4. ASSUME NEW a \in Rates, NEW d \in Days, DeclareDividendExDate(a, d) \/ PayDividend(a, d)
          PROVE  Booked'
      BY <3>4, DividendBooked
    <3>5. ASSUME NEW ratio \in Ratios, NEW d \in Days, ApplySplit(ratio, d) PROVE Booked'
      BY <3>5, SplitBooked
    <3> QED BY <2>1, <3>1, <3>2, <3>3, <3>4, <3>5, NextCases
  <2>2. ASSUME UNCHANGED vars PROVE Booked'
    <3>1. Prepares /\ fill' = fill
      BY <2>2 DEF vars, Prepares
    <3> QED BY <3>1, BookedKept
  <2> QED BY <2>1, <2>2
<1> HIDE DEF I
<1>2. Spec => []I
  BY LocksInvariant DEF I
<1> QED BY <1>1, <1>2, BookedInit, PTL DEF Spec

\* What summarize shows of one lot.
LEMMA SummaryOfLot ==
  ASSUME Rows, NEW close \in Int, NEW l \in DOMAIN lots
  PROVE  /\ Summarize(l, close).realized = Total(Gains, {k \in DOMAIN consumed : k[2] = l})
         /\ Summarize(l, close).disallowed
              = Total([k \in DOMAIN adjusted |-> adjusted[k].amount],
                      {k \in DOMAIN adjusted : adjusted[k].lot = l})
         /\ Summarize(l, close).value = Times(close, lots[l].remaining)
         /\ Summarize(l, close).value \in Int
         /\ l \notin OpenLots => Summarize(l, close).value = 0
         /\ Summarize(l, close).unrealized
              = IF l \in OpenLots THEN Summarize(l, close).value - Basis[l] ELSE 0
<1> DEFINE sales == {k \in DOMAIN consumed : k[2] = l}
           carried == {k \in DOMAIN adjusted : adjusted[k].lot = l}
           amounts == [k \in DOMAIN adjusted |-> adjusted[k].amount]
           r == SumOver([k \in sales |-> consumed[k].realized], sales)
           d == SumOver([k \in carried |-> adjusted[k].amount], carried)
           v == Times(close, lots[l].remaining)
           u == IF l \in OpenLots THEN v - lots[l].basis ELSE 0
<1>1. Summarize(l, close) = [realized |-> r, disallowed |-> d, value |-> v, unrealized |-> u]
  BY DEF Summarize
<1>2. r = Total(Gains, sales)
  <2> DEFINE f == [k \in sales |-> consumed[k].realized]
  <2>1. r = Total(f, sales)
    BY SumIsTotal
  <2>2. \A k \in sales : Gains[k] \in Int /\ f[k] = Gains[k]
    <3>1. \A k \in DOMAIN consumed : Gains[k] \in Int /\ Gains[k] = consumed[k].realized
      BY RowsFinite
    <3> QED BY <3>1
  <2>3. IsFiniteSet(sales)
    <3>1. sales \in SUBSET DOMAIN consumed
      OBVIOUS
    <3> HIDE DEF sales
    <3> QED BY <3>1, RowsFinite, FS_Subset
  <2> HIDE DEF f, sales, r
  <2> QED BY <2>1, <2>2, <2>3, TotalSame
<1>3. d = Total(amounts, carried)
  <2> DEFINE f == [k \in carried |-> adjusted[k].amount]
  <2>1. d = Total(f, carried)
    BY SumIsTotal
  <2>2. \A k \in carried : amounts[k] \in Int /\ f[k] = amounts[k]
    BY DEF Rows
  <2>3. IsFiniteSet(carried)
    <3>1. carried \in SUBSET DOMAIN adjusted
      OBVIOUS
    <3> HIDE DEF carried
    <3> QED BY <3>1, RowsFinite, FS_Subset
  <2> HIDE DEF f, carried, d, amounts
  <2> QED BY <2>1, <2>2, <2>3, TotalSame
<1>4. v \in Int /\ (l \notin OpenLots => v = 0)
  <2>1. lots[l].remaining \in Nat /\ (l \notin OpenLots => ~(lots[l].remaining > 0))
    BY LotNumbers DEF OpenLots
  <2>2. lots[l].remaining \in Int /\ (l \notin OpenLots => lots[l].remaining = 0)
    BY <2>1
  <2>3. Times(close, 0) = 0
    BY TimesNothing
  <2> QED BY <2>2, <2>3, TimesInt
<1>5. Basis[l] = lots[l].basis
  BY DEF Basis
<1>6. u = IF l \in OpenLots THEN v - Basis[l] ELSE 0
  BY <1>5
<1> HIDE DEF r, d, v, u
<1>7. /\ Summarize(l, close).realized = r /\ Summarize(l, close).disallowed = d
      /\ Summarize(l, close).value = v /\ Summarize(l, close).unrealized = u
  BY <1>1
<1> QED BY <1>2, <1>3, <1>4, <1>6, <1>7 DEF v

\* One column of what summarize shows, and the amounts disallowed.
Shown(close, part) == [l \in DOMAIN lots |-> Summarize(l, close)[part]]
Amounts == [k \in DOMAIN adjusted |-> adjusted[k].amount]

\* The rows summarize shows add up to the gains, the disallowed losses and the
\* value of the whole holding.
LEMMA SummaryAdds ==
  ASSUME Rows, NEW close \in Int
  PROVE  /\ Total(Shown(close, "realized"), DOMAIN lots) = Total(Gains, DOMAIN consumed)
         /\ Total(Shown(close, "disallowed"), DOMAIN lots) = Total(Amounts, DOMAIN adjusted)
         /\ Total(Basis, DOMAIN lots) + Total(Shown(close, "unrealized"), DOMAIN lots)
              = Total(Shown(close, "value"), DOMAIN lots) + Total(Basis, DOMAIN lots \ OpenLots)
         /\ Total(Basis, DOMAIN lots) \in Int
         /\ Total(Shown(close, "unrealized"), DOMAIN lots) \in Int
         /\ Total(Shown(close, "value"), DOMAIN lots) \in Int
         /\ Total(Basis, DOMAIN lots \ OpenLots) \in Int
<1> DEFINE ls == DOMAIN lots
           closed == DOMAIN lots \ OpenLots
           open == [l \in DOMAIN lots |-> IF l \in OpenLots THEN Basis[l] ELSE 0]
           R == Shown(close, "realized")
           D == Shown(close, "disallowed")
           V == Shown(close, "value")
           U == Shown(close, "unrealized")
           amounts == Amounts
<1>1. IsFiniteSet(ls) /\ OpenLots \in SUBSET ls
  BY LotsFinite DEF OpenLots
<1>2. ASSUME NEW l \in ls
      PROVE  /\ R[l] = Total(Gains, {k \in DOMAIN consumed : k[2] = l})
             /\ D[l] = Total(amounts, {k \in DOMAIN adjusted : adjusted[k].lot = l})
             /\ V[l] \in Int /\ (l \notin OpenLots => V[l] = 0)
             /\ U[l] = IF l \in OpenLots THEN V[l] - Basis[l] ELSE 0
  <2> DEFINE sum == Summarize(l, close)
  <2>1. /\ R[l] = sum.realized /\ D[l] = sum.disallowed /\ V[l] = sum.value /\ U[l] = sum.unrealized
    BY DEF Shown
  <2>2. /\ sum.realized = Total(Gains, {k \in DOMAIN consumed : k[2] = l})
        /\ sum.disallowed = Total([k \in DOMAIN adjusted |-> adjusted[k].amount],
                                  {k \in DOMAIN adjusted : adjusted[k].lot = l})
        /\ sum.value \in Int
        /\ l \notin OpenLots => sum.value = 0
        /\ sum.unrealized = IF l \in OpenLots THEN sum.value - Basis[l] ELSE 0
    BY SummaryOfLot
  <2>3. amounts = [k \in DOMAIN adjusted |-> adjusted[k].amount]
    BY DEF Amounts
  <2> HIDE DEF sum, R, D, V, U, amounts
  <2> QED BY <2>1, <2>2, <2>3
<1> HIDE DEF R, D, V, U, amounts
<1>3. Total(R, ls) = Total(Gains, DOMAIN consumed)
  <2> DEFINE w == [k \in DOMAIN consumed |-> k[2]]
             b == [l \in ls |-> {k \in DOMAIN consumed : k[2] = l}]
  <2>1. /\ w \in [DOMAIN consumed -> ls] /\ b \in [ls -> SUBSET DOMAIN consumed]
        /\ \A l \in ls : \A k \in DOMAIN consumed : k \in b[l] <=> w[k] = l
    BY DEF Rows
  <2>2. \A l \in ls : R[l] = Total(Gains, b[l])
    BY <1>2
  <2>3. IsFiniteSet(DOMAIN consumed) /\ (\A k \in DOMAIN consumed : Gains[k] \in Int)
    BY RowsFinite
  <2>4. IsFiniteSet(ls)
    BY <1>1
  <2> HIDE DEF b, w, ls
  <2> QED BY ONLY <2>1, <2>2, <2>3, <2>4, Bins
<1>4. Total(D, ls) = Total(amounts, DOMAIN adjusted)
  <2> DEFINE w == [k \in DOMAIN adjusted |-> adjusted[k].lot]
             b == [l \in ls |-> {k \in DOMAIN adjusted : adjusted[k].lot = l}]
  <2>1. /\ w \in [DOMAIN adjusted -> ls] /\ b \in [ls -> SUBSET DOMAIN adjusted]
        /\ \A l \in ls : \A k \in DOMAIN adjusted : k \in b[l] <=> w[k] = l
    BY DEF Rows
  <2>2. \A l \in ls : D[l] = Total(amounts, b[l])
    BY <1>2
  <2>3. IsFiniteSet(DOMAIN adjusted) /\ (\A k \in DOMAIN adjusted : amounts[k] \in Int)
    BY RowsFinite DEF Rows, amounts, Amounts
  <2>4. IsFiniteSet(ls)
    BY <1>1
  <2> HIDE DEF b, w, ls
  <2> QED BY ONLY <2>1, <2>2, <2>3, <2>4, Bins
<1>5. \A l \in ls : Basis[l] \in Int
  BY RowsFinite
<1>6. ASSUME NEW l \in ls PROVE U[l] \in Int /\ open[l] \in Int /\ V[l] = U[l] + open[l]
  <2>1. V[l] \in Int /\ (l \notin OpenLots => V[l] = 0)
        /\ U[l] = IF l \in OpenLots THEN V[l] - Basis[l] ELSE 0
    BY <1>2
  <2>2. open[l] = IF l \in OpenLots THEN Basis[l] ELSE 0
    OBVIOUS
  <2> HIDE DEF open
  <2> QED BY <1>5, <2>1, <2>2
<1>7. Total(open, ls) = Total(Basis, OpenLots)
  <2>1. /\ \A l \in OpenLots : Basis[l] \in Int
        /\ \A l \in ls : open[l] = IF l \in OpenLots THEN Basis[l] ELSE 0
    BY <1>1, <1>5
  <2> HIDE DEF open, ls
  <2> QED BY <1>1, <2>1, TotalRestrict
<1>8. Total(Basis, ls) = Total(Basis, OpenLots) + Total(Basis, closed)
      /\ Total(Basis, OpenLots) \in Int /\ Total(Basis, closed) \in Int
  <2>1. /\ OpenLots \cup closed = ls /\ OpenLots \cap closed = {} /\ closed \in SUBSET ls
    BY <1>1
  <2>2. /\ \A l \in OpenLots : Basis[l] \in Int
        /\ \A l \in closed : Basis[l] \in Int
        /\ \A l \in OpenLots \cup closed : Basis[l] \in Int
    BY <1>5, <2>1
  <2> HIDE DEF closed, ls
  <2>3. IsFiniteSet(OpenLots) /\ IsFiniteSet(closed)
    BY <1>1, <2>1, FS_Subset
  <2>4. Total(Basis, OpenLots \cup closed) = Total(Basis, OpenLots) + Total(Basis, closed)
    BY <2>1, <2>2, <2>3, TotalUnion
  <2>5. Total(Basis, OpenLots) \in Int /\ Total(Basis, closed) \in Int
    BY <2>2, <2>3, TotalInt
  <2> QED BY <2>1, <2>4, <2>5
<1> HIDE DEF open
<1>9. Total(V, ls) = Total(U, ls) + Total(open, ls)
  BY <1>1, <1>6, TotalPlus
<1>10. Total(U, ls) \in Int
  BY <1>1, <1>6, TotalInt
<1>11. /\ Total(Basis, ls) + Total(U, ls) = Total(V, ls) + Total(Basis, closed)
       /\ Total(Basis, ls) \in Int /\ Total(V, ls) \in Int
  <2> HIDE DEF closed, ls
  <2> QED BY <1>7, <1>8, <1>9, <1>10
<1> QED BY <1>3, <1>4, <1>8, <1>10, <1>11 DEF R, D, V, U, amounts

\* Realized gains are the cost of what is held and the cash of the trades; with
\* what is shown of the open lots they are the value held and that cash.
LEMMA BookedAgrees == Rows /\ Asked /\ Booked => BooksAgree
<1> SUFFICES ASSUME Rows, Asked, Booked PROVE BooksAgree
  OBVIOUS
<1> DEFINE ls == DOMAIN lots
           basis == [l \in ls |-> lots[l].basis]
           amounts == [k \in DOMAIN adjusted |-> adjusted[k].amount]
           summary(close) == [l \in ls |-> Summarize(l, close)]
           total(table, part) == SumOver([l \in ls |-> table[l][part]], ls)
           realized == -balance["realized_gain_loss"]
           trades == SumOver(obligations, DOMAIN obligations \cap Fills)
           drift == (Cardinality(ls) + 1) * rounded
<1>1. /\ 2 * (balance["position_units"] - Remaining(ls)) \in -drift .. drift
      /\ balance["position_cost"] = SumOver(basis, ls)
      /\ balance["cash"] = SumOver(obligations, DOMAIN obligations)
  <2>1. ls \in SUBSET DOMAIN lots
    OBVIOUS
  <2>2. Remaining(ls) = Total(Held, ls)
    BY <2>1, RemainingIsTotal DEF Held
  <2>3. basis = Basis
    BY DEF Basis
  <2>4. /\ SumOver(Basis, ls) = Total(Basis, ls)
        /\ SumOver(obligations, DOMAIN obligations) = Total(obligations, DOMAIN obligations)
    BY SumIsTotal
  <2>5. 2 * (balance["position_units"] - Remaining(ls)) \in -drift .. drift
    <3>1. Gap \in Int /\ drift \in Int
      <4>1. balance["position_units"] \in Int /\ Total(Held, ls) \in Int /\ Cardinality(ls) \in Nat
        BY LotsFinite, RowsFinite, TotalInt, FS_CardinalityType DEF Booked, Roles
      <4>2. rounded \in Nat
        BY DEF Booked, UnitsNear
      <4> QED BY <4>1, <4>2 DEF Gap
    <3>2. -drift <= 2 * Gap /\ 2 * Gap <= drift
      BY DEF Booked, UnitsNear
    <3>3. Gap = balance["position_units"] - Remaining(ls)
      BY <2>2 DEF Gap
    <3> HIDE DEF drift
    <3>4. 2 * Gap \in -drift .. drift
      BY <3>1, <3>2
    <3> QED BY <3>3, <3>4
  <2> HIDE DEF basis, drift
  <2> QED BY <2>2, <2>3, <2>4, <2>5 DEF Booked
<1>2. ASSUME NEW close \in {fill[f].price : f \in Sells}
      PROVE  /\ total(summary(close), "realized") = realized
             /\ total(summary(close), "disallowed") = SumOver(amounts, DOMAIN adjusted)
             /\ realized + total(summary(close), "unrealized")
                  = total(summary(close), "value") + trades + SumOver(basis, ls \ OpenLots)
  <2> DEFINE R == Shown(close, "realized")
             D == Shown(close, "disallowed")
             V == Shown(close, "value")
             U == Shown(close, "unrealized")
  <2>1. close \in Int
    BY DEF Asked, FillRow, Fills
  <2>2. /\ Total(R, ls) = Total(Gains, DOMAIN consumed)
        /\ Total(D, ls) = Total(Amounts, DOMAIN adjusted)
        /\ Total(Basis, ls) + Total(U, ls) = Total(V, ls) + Total(Basis, ls \ OpenLots)
        /\ Total(Basis, ls) \in Int /\ Total(U, ls) \in Int
        /\ Total(V, ls) \in Int /\ Total(Basis, ls \ OpenLots) \in Int
    BY <2>1, SummaryAdds
  <2>3. /\ total(summary(close), "realized") = Total(R, ls)
        /\ total(summary(close), "disallowed") = Total(D, ls)
        /\ total(summary(close), "value") = Total(V, ls)
        /\ total(summary(close), "unrealized") = Total(U, ls)
        /\ SumOver(amounts, DOMAIN adjusted) = Total(Amounts, DOMAIN adjusted)
    <3>1. ASSUME NEW part PROVE [l \in ls |-> summary(close)[l][part]] = Shown(close, part)
      BY DEF Shown
    <3>2. ASSUME NEW part PROVE total(summary(close), part) = SumOver(Shown(close, part), ls)
      BY <3>1
    <3>3. amounts = Amounts
      BY DEF Amounts
    <3> HIDE DEF summary, amounts, total
    <3> QED BY <3>2, <3>3, SumIsTotal
  <2>4. SumOver(basis, ls \ OpenLots) = Total(Basis, ls \ OpenLots)
    <3>1. basis = Basis
      BY DEF Basis
    <3>2. SumOver(Basis, ls \ OpenLots) = Total(Basis, ls \ OpenLots)
      BY SumIsTotal
    <3> HIDE DEF basis
    <3> QED BY <3>1, <3>2
  <2>5. trades = Total(obligations, DOMAIN obligations \cap Fills) /\ trades \in Int
    <3>1. Owed
      BY DEF Booked
    <3>2. Total(obligations, DOMAIN obligations \cap Fills) \in Int
      BY <3>1, OwedFinite
    <3> QED BY <3>2, SumIsTotal
  <2>6. realized = Total(Gains, DOMAIN consumed) /\ realized = Total(Basis, ls) + trades
    <3>1. /\ realized = Total(Gains, DOMAIN consumed)
          /\ realized = balance["position_cost"] + Total(obligations, DOMAIN obligations \cap Fills)
          /\ balance["position_cost"] = Total(Basis, ls)
      BY DEF Booked
    <3> HIDE DEF trades
    <3> QED BY <2>5, <3>1
  <2> HIDE DEF R, D, V, U, summary, amounts, basis, ls, realized, trades, total
  <2> QED BY <2>2, <2>3, <2>4, <2>5, <2>6
<1> QED BY <1>1, <1>2 DEF BooksAgree

\* The ledger and the tax lots agree in every reachable state, at any close.
THEOREM BooksAlwaysAgree == Spec => []BooksAgree
<1> DEFINE I == Rows /\ Asked /\ Locks
<1>1. I /\ Booked => BooksAgree
  BY BookedAgrees
<1> HIDE DEF I
<1>2. Spec => []I
  BY LocksInvariant DEF I
<1> QED BY <1>1, <1>2, BooksInvariant, PTL

-----------------------------------------------------------------------------
\* Performance: the inductive invariant

\* What a transaction may be for.
Ops == {"accrual", "returns", "correction", "charge"}

\* A transaction that is open, with what it will write.
TxnRow(t) ==
  /\ DOMAIN txn[t] = {"op", "from", "to", "at", "worked", "writes"}
  /\ txn[t].op \in Ops
  /\ txn[t].from \in Nat /\ txn[t].to \in Nat
  /\ txn[t].at \in Nat /\ txn[t].worked \in BOOLEAN
  /\ txn[t].writes.closes \subseteq Close
  /\ txn[t].writes.rows \subseteq SubPeriod
  /\ \A c \in txn[t].writes.closes : c.at = txn[t].at
  /\ \A r \in txn[t].writes.rows : r.at = txn[t].at

\* What is stored, and what is about to be.
Stored ==
  /\ today \in Nat /\ clock \in Nat
  /\ closes \subseteq Close /\ \A c \in closes : c.at <= clock
  /\ flows \subseteq FlowRow /\ IsFiniteSet(flows) /\ \A f \in flows : f.date <= today
  /\ rows \subseteq SubPeriod /\ \A r \in rows : r.at <= clock
  /\ DOMAIN txn = Slots
  /\ \A t \in Slots : Open(t) => TxnRow(t)

\* A stamp is one transaction's.
Stamps ==
  \A t \in Slots : Open(t) =>
    /\ 0 < txn[t].at /\ txn[t].at <= clock
    /\ \A r \in rows : r.at # txn[t].at
    /\ \A u \in Slots : Open(u) /\ txn[u].at = txn[t].at => u = t
    /\ txn[t].op = "charge" => PeriodEnd < today

\* Snapshot s reproduces over the rows rs, and every transaction that could
\* change that is among those it overlapped.
Reproduces(s, rs) ==
  cross_check(flows, rs, s) \/ \E r \in rs : r.at \in s.overlapping

\* Transaction u is later than statement s, or one it overlapped.
After(s, u) == txn[u].at > s.watermark \/ txn[u].at \in s.overlapping

\* A statement is about days that are over.
SnapRow(s) == s.from \in Nat /\ s.to \in Nat /\ s.to < today
              /\ s.watermark \in Nat /\ s.watermark <= clock

\* Every statement reproduces, and what is still open cannot change that.
Kept ==
  \A s \in snapshots :
    /\ SnapRow(s) /\ Reproduces(s, rows)
    /\ \A u \in Slots : Open(u) => After(s, u)

\* So will every statement a transaction is about to publish.
Pending ==
  \A t \in Slots : Open(t) => \A s \in txn[t].writes.snapshots :
    /\ SnapRow(s) /\ Reproduces(s, rows \cup txn[t].writes.rows)
    /\ \A u \in Slots \ {t} : Open(u) => After(s, u)

\* The accruals committed so far, and the one under way.
Accrued ==
  /\ accruals \subseteq Accrual /\ IsFiniteSet(accruals) /\ peak \in Int
  /\ \E a \in accruals :
       /\ a.at = 0 /\ \A o \in accruals : o # a => 0 < o.at
       /\ SumOver([o \in accruals |-> o.gain], accruals) = peak - a.shadow
  /\ \A a \in accruals : a.shadow <= peak
  /\ \E a \in accruals : a.shadow = peak

\* An accrual under way is alone, and takes its gain from the committed mark.
Accruing ==
  \A t \in Slots : Open(t) =>
    LET w == txn[t].writes IN
    /\ w.accrual = None <=> w.peak = None
    /\ txn[t].op # "accrual" => w.accrual = None
    /\ txn[t].op = "accrual" => \A u \in Slots : txn[u].op = "accrual" => u = t
    /\ w.accrual # None =>
         /\ w.accrual \in Accrual /\ w.accrual.at = txn[t].at
         /\ \A a \in accruals : a.date # w.accrual.date
         /\ w.peak = ratchet(peak, w.accrual.shadow).peak
         /\ w.accrual.gain = ratchet(peak, w.accrual.shadow).gain

-----------------------------------------------------------------------------
\* Products

\* g has the products of the first factors of q, by the recursion of link.
Multiplies(g, q, N) == g = [n \in 0 .. N |-> IF n = 0 THEN 1 ELSE g[n - 1] * q[n]]

\* The recursion has a solution ...
LEMMA ProductExists ==
  ASSUME NEW q, NEW N \in Nat
  PROVE  \E g : Multiplies(g, q, N)
<1> DEFINE T == {n \in Nat : \E g : Multiplies(g, q, n)}
<1>1. 0 \in T
  <2> DEFINE g == [n \in 0 .. 0 |-> 1]
  <2>1. g = [n \in 0 .. 0 |-> IF n = 0 THEN 1 ELSE g[n - 1] * q[n]]
    OBVIOUS
  <2>2. Multiplies(g, q, 0)
    BY <2>1 DEF Multiplies
  <2> QED BY <2>2
<1>2. ASSUME NEW n \in T PROVE n + 1 \in T
  <2>1. PICK g : Multiplies(g, q, n)
    OBVIOUS
  <2>2. g = [i \in 0 .. n |-> IF i = 0 THEN 1 ELSE g[i - 1] * q[i]]
    BY <2>1 DEF Multiplies
  <2> DEFINE h == [i \in 0 .. n + 1 |-> IF i = n + 1 THEN g[n] * q[n + 1] ELSE g[i]]
  <2>3. ASSUME NEW i \in 0 .. n + 1
        PROVE  h[i] = IF i = 0 THEN 1 ELSE h[i - 1] * q[i]
    <3>1. CASE i = n + 1
      <4>1. i # 0 /\ i - 1 = n /\ n \in 0 .. n + 1 /\ n # n + 1
        BY <3>1
      <4>2. h[n] = g[n] /\ h[i] = g[n] * q[i]
        BY <3>1, <4>1
      <4> QED BY <4>1, <4>2
    <3>2. CASE i # n + 1
      <4>1. i \in 0 .. n /\ (i # 0 => i - 1 \in 0 .. n + 1 /\ i - 1 # n + 1)
        BY <3>2
      <4>2. h[i] = g[i] /\ (i # 0 => h[i - 1] = g[i - 1])
        BY <3>2, <4>1
      <4>3. g[i] = IF i = 0 THEN 1 ELSE g[i - 1] * q[i]
        BY <2>2, <4>1
      <4> QED BY <4>2, <4>3
    <3> QED BY <3>1, <3>2
  <2>4. h = [i \in 0 .. n + 1 |-> h[i]]
    OBVIOUS
  <2>5. Multiplies(h, q, n + 1)
    <3> HIDE DEF h
    <3> QED BY <2>3, <2>4 DEF Multiplies
  <2> QED BY <2>5
<1>3. T = Nat
  <2>1. T \subseteq Nat
    OBVIOUS
  <2> HIDE DEF T
  <2> QED BY <1>1, <1>2, <2>1, Induction
<1> QED BY <1>3

\* ... and a product of integers is one, of positive ones a positive one.
LEMMA ProductType ==
  ASSUME NEW q, NEW N \in Nat, NEW g, Multiplies(g, q, N),
         NEW D, D = Int \/ D = Nat \ {0}, \A n \in 1 .. N : q[n] \in D
  PROVE  \A n \in 0 .. N : g[n] \in D
<1> DEFINE T == {n \in Nat : n <= N => g[n] \in D}
<1>0. g = [i \in 0 .. N |-> IF i = 0 THEN 1 ELSE g[i - 1] * q[i]]
  BY DEF Multiplies
<1>1. 0 \in T
  <2>1. g[0] = 1
    BY <1>0
  <2> QED BY <2>1
<1>2. ASSUME NEW n \in T PROVE n + 1 \in T
  <2> SUFFICES ASSUME n + 1 <= N PROVE g[n + 1] \in D
    OBVIOUS
  <2>1. n + 1 \in 0 .. N /\ n + 1 \in 1 .. N /\ n + 1 # 0 /\ (n + 1) - 1 = n /\ n <= N
    OBVIOUS
  <2>2. g[n + 1] = g[n] * q[n + 1]
    BY <1>0, <2>1
  <2>3. g[n] \in D /\ q[n + 1] \in D
    BY <2>1
  <2>4. \A a, b \in D : a * b \in D
    <3>1. CASE D = Int
      BY <3>1
    <3>2. CASE D = Nat \ {0}
      <4>1. ASSUME NEW a \in Nat \ {0}, NEW b \in Nat \ {0} PROVE a * b \in Nat \ {0}
        <5>1. a >= 1 /\ b >= 1 /\ a * b \in Int
          OBVIOUS
        <5>2. a * b >= 1
          BY <5>1, Z3
        <5> QED BY <5>1, <5>2
      <4> QED BY <3>2, <4>1
    <3> QED BY <3>1, <3>2
  <2> QED BY <2>2, <2>3, <2>4
<1>3. T = Nat
  <2>1. T \subseteq Nat
    OBVIOUS
  <2> HIDE DEF T
  <2> QED BY <1>1, <1>2, <2>1, Induction
<1>4. \A n \in 0 .. N : n \in T
  BY <1>3
<1> QED BY <1>4

-----------------------------------------------------------------------------
\* Figures

\* Of rows stamped up to n, one is the newest.
LEMMA NewestIsThere ==
  ASSUME NEW rs, NEW n \in Nat, \A r \in rs : r.at \in Nat /\ r.at <= n, rs # {}
  PROVE  \E r \in rs : \A o \in rs : r.at >= o.at
<1> DEFINE S == {r.at : r \in rs}
<1>1. S \subseteq Nat /\ S # {} /\ \A x \in S : x <= n
  OBVIOUS
<1>2. PICK m \in S : \A x \in S : x <= m
  <2> HIDE DEF S
  <2> QED BY <1>1, Greatest
<1>3. PICK r \in rs : r.at = m
  OBVIOUS
<1>4. \A o \in rs : o.at <= m /\ o.at \in Nat
  BY <1>2
<1> QED BY <1>3, <1>4

\* The close a valuation uses.
LEMMA LatestClose ==
  ASSUME NEW cs, cs \subseteq Close, NEW n \in Nat, \A c \in cs : c.at <= n, NEW d
  PROVE  latest_confirmed(cs, d) # None => latest_confirmed(cs, d) \in Close
<1> DEFINE of == {c \in cs : c.date = d}
<1>1. latest_confirmed(cs, d) = IF of = {} THEN None
                                ELSE CHOOSE c \in of : \A o \in of : c.at >= o.at
  BY DEF latest_confirmed
<1>2. \A c \in of : c.at \in Nat /\ c.at <= n
  BY DEF Close
<1>3. of # {} => (CHOOSE c \in of : \A o \in of : c.at >= o.at) \in of
  <2> HIDE DEF of
  <2> QED BY <1>2, NewestIsThere
<1> QED BY <1>1, <1>3

\* Money that has come in.
LEMMA FlowsAdd ==
  ASSUME NEW fs, fs \subseteq FlowRow, IsFiniteSet(fs), NEW S \in SUBSET fs
  PROVE  SumOver([f \in fs |-> f.amount], S) \in Nat
<1> DEFINE a == [f \in fs |-> f.amount]
<1>1. IsFiniteSet(S)
  BY FS_Subset
<1>2. \A f \in S : a[f] \in Nat
  BY DEF FlowRow
<1>3. Total(a, S) \in Nat
  <2> HIDE DEF a
  <2> QED BY <1>1, <1>2, TotalNat
<1> QED BY <1>3, SumIsTotal

\* The value of a book.
LEMMA BookValue ==
  ASSUME NEW cs, cs \subseteq Close, NEW n \in Nat, \A c \in cs : c.at <= n,
         NEW fs, fs \subseteq FlowRow, IsFiniteSet(fs), NEW d
  PROVE  value_book(cs, fs, d).total \in Nat /\ value_book(cs, fs, d).partial \in BOOLEAN
<1> DEFINE close == latest_confirmed(cs, d)
<1>1. close # None => close.price \in Nat
  BY LatestClose DEF Close
<1>2. cash_balance(fs, d) \in Nat
  <2>1. {f \in fs : f.date <= d} \in SUBSET fs
    OBVIOUS
  <2>2. SumOver([f \in fs |-> f.amount], {f \in fs : f.date <= d}) \in Nat
    BY <2>1, FlowsAdd
  <2> QED BY <2>2, PerformanceAssumption DEF cash_balance
<1>3. (IF close = None THEN 0 ELSE Shares * close.price) \in Nat
  <2>1. CASE close = None
    BY <2>1
  <2>2. CASE close # None
    <3> HIDE DEF close
    <3>1. Shares \in Nat
      BY PerformanceAssumption
    <3> QED BY <1>1, <2>2, <3>1
  <2> QED BY <2>1, <2>2
<1>4. value_book(cs, fs, d).total = cash_balance(fs, d) + (IF close = None THEN 0 ELSE Shares * close.price)
      /\ value_book(cs, fs, d).partial = (Shares # 0 /\ close = None)
  BY DEF value_book
<1> HIDE DEF close
<1> QED BY <1>2, <1>3, <1>4

\* A stored row, or a new one with the stamp of the transaction.
LEMMA ReturnRow ==
  ASSUME NEW cs, cs \subseteq Close, NEW n \in Nat, \A c \in cs : c.at <= n,
         NEW fs, fs \subseteq FlowRow, IsFiniteSet(fs),
         NEW rs, rs \subseteq SubPeriod, \A r \in rs : r.at <= n,
         NEW w \in Nat \X Nat, NEW at \in Nat
  PROVE  /\ SubPeriodReturn(cs, fs, rs, w, at) \in SubPeriod
         /\ SubPeriodReturn(cs, fs, rs, w, at).from = w[1]
         /\ SubPeriodReturn(cs, fs, rs, w, at).to = w[2]
         /\ \/ /\ SubPeriodReturn(cs, fs, rs, w, at) \in rs
               /\ SubPeriodReturn(cs, fs, rs, w, at) = Newest(OfWindow(rs, w))
            \/ SubPeriodReturn(cs, fs, rs, w, at).at = at
<1> DEFINE b == value_book(cs, fs, w[1])
           e == value_book(cs, fs, w[2])
           fl == flow_amount_on(fs, w[2])
           fresh == [from |-> w[1], to |-> w[2], begin |-> b.total, end |-> e.total,
                     flow |-> fl, provisional |-> b.partial \/ e.partial, at |-> at]
           existing == Newest(OfWindow(rs, w))
<1>1. \/ SubPeriodReturn(cs, fs, rs, w, at) = existing /\ existing # None
      \/ SubPeriodReturn(cs, fs, rs, w, at) = fresh
  BY DEF SubPeriodReturn, latest_for_sub_period
<1>2. b.total \in Nat /\ e.total \in Nat /\ b.partial \in BOOLEAN /\ e.partial \in BOOLEAN
  BY BookValue
<1>3. fl \in Nat
  <2>1. {f \in fs : f.date = w[2]} \in SUBSET fs
    OBVIOUS
  <2> QED BY <2>1, FlowsAdd DEF flow_amount_on
<1>4. w[1] \in Nat /\ w[2] \in Nat
  OBVIOUS
<1>5. fresh \in SubPeriod /\ fresh.from = w[1] /\ fresh.to = w[2] /\ fresh.at = at
  <2> HIDE DEF b, e, fl
  <2>1. (b.partial \/ e.partial) \in BOOLEAN
    BY <1>2
  <2> QED BY <1>2, <1>3, <1>4, <2>1 DEF SubPeriod
<1>6. existing # None => existing \in OfWindow(rs, w)
  <2>1. OfWindow(rs, w) # {} => \E r \in OfWindow(rs, w) : \A o \in OfWindow(rs, w) : r.at >= o.at
    <3>1. \A r \in OfWindow(rs, w) : r.at \in Nat /\ r.at <= n
      BY DEF OfWindow, SubPeriod
    <3> QED BY <3>1, NewestIsThere
  <2> QED BY <2>1 DEF Newest
<1>7. existing # None => existing \in rs /\ existing.from = w[1] /\ existing.to = w[2]
  BY <1>6 DEF OfWindow
<1> HIDE DEF fresh, existing
<1>8. CASE SubPeriodReturn(cs, fs, rs, w, at) = existing /\ existing # None
  BY <1>7, <1>8 DEF existing
<1>9. CASE SubPeriodReturn(cs, fs, rs, w, at) = fresh
  BY <1>5, <1>9
<1> QED BY <1>1, <1>8, <1>9

\* The windows between two dates.
LEMMA WindowsType ==
  ASSUME NEW fs, fs \subseteq FlowRow, NEW from \in Nat, NEW to \in Nat
  PROVE  /\ Windows(fs, from, to) \in Seq(Nat \X Nat)
         /\ DOMAIN Windows(fs, from, to) = 1 .. Len(Windows(fs, from, to))
<1> DEFINE dates == {from, to} \cup flow_dates(fs, from, to)
           lt == {p \in Nat \X Nat : p[1] < p[2]}
           b == boundaries(fs, from, to)
<1>1. dates \subseteq Nat /\ IsFiniteSet(dates)
  <2>1. flow_dates(fs, from, to) \subseteq from .. to
    BY DEF flow_dates, FlowRow
  <2>2. from \in Int /\ to \in Int /\ from .. to \subseteq Nat
    OBVIOUS
  <2>3. IsFiniteSet(from .. to)
    BY <2>2, FS_Interval
  <2>4. IsFiniteSet(flow_dates(fs, from, to))
    BY <2>1, <2>3, FS_Subset
  <2>5. IsFiniteSet(flow_dates(fs, from, to) \cup {from})
    BY <2>4, FS_AddElement
  <2>6. IsFiniteSet((flow_dates(fs, from, to) \cup {from}) \cup {to})
    BY <2>5, FS_AddElement
  <2>7. (flow_dates(fs, from, to) \cup {from}) \cup {to} = dates
    OBVIOUS
  <2>8. dates \subseteq Nat
    BY <2>1, <2>2
  <2> QED BY <2>6, <2>7, <2>8
<1>2. b = [i \in 1 .. Cardinality(dates) |->
             CHOOSE d \in dates : Cardinality({e \in dates : e < d}) = i - 1]
  BY DEF boundaries
<1> HIDE DEF dates
<1>3. Cardinality(dates) \in Nat
  BY <1>1, FS_CardinalityType
<1>4. InLine(lt, dates)
  <2>1. \A x, y \in dates : <<x, y>> \in lt <=> x < y
    BY <1>1
  <2>2. \A x \in dates : x \in Nat
    BY <1>1
  <2> HIDE DEF lt
  <2> QED BY <2>1, <2>2 DEF InLine
<1>5. ASSUME NEW i \in 1 .. Cardinality(dates)
      PROVE  b[i] \in Nat
  <2>1. PICK x \in dates : Place(lt, dates, x) = i - 1
    <3> HIDE DEF lt
    <3> QED BY <1>1, <1>4, PlaceTaken
  <2>2. {e \in dates : e < x} = LeftOf(lt, dates, x)
    BY <1>1 DEF LeftOf
  <2>3. Cardinality({e \in dates : e < x}) = i - 1
    BY <2>1, <2>2 DEF Place
  <2>4. (CHOOSE d \in dates : Cardinality({e \in dates : e < d}) = i - 1) \in dates
    BY <2>3
  <2> HIDE DEF b
  <2> QED BY <1>1, <1>2, <2>4
<1>6. Len(b) = Cardinality(dates)
  <2> HIDE DEF b
  <2> QED BY <1>2, <1>3
<1>7. Windows(fs, from, to) = [i \in 1 .. (Len(b) - 1) |-> <<b[i], b[i + 1]>>]
  BY DEF Windows
<1> HIDE DEF b
<1>8. \A i \in 1 .. (Len(b) - 1) : <<b[i], b[i + 1]>> \in Nat \X Nat
  BY <1>3, <1>5, <1>6
<1>9. Len(b) - 1 \in Nat \/ Len(b) = 0
  BY <1>3, <1>6
<1>10. Windows(fs, from, to) \in Seq(Nat \X Nat)
  <2>1. CASE Len(b) - 1 \in Nat
    <3> DEFINE n == Len(b) - 1
    <3>1. Windows(fs, from, to) \in [1 .. n -> Nat \X Nat]
      BY <1>7, <1>8
    <3>2. n \in Nat
      BY <2>1
    <3> HIDE DEF n
    <3> QED BY <3>1, <3>2
  <2>2. CASE Len(b) = 0
    <3>1. 1 .. (Len(b) - 1) = 1 .. 0
      BY <2>2
    <3>2. Windows(fs, from, to) \in [1 .. 0 -> Nat \X Nat]
      BY <1>7, <1>8, <3>1
    <3> QED BY <3>2
  <2> QED BY <1>9, <2>1, <2>2
<1> QED BY <1>10

\* The rows of a period, each stored or new.
LEMMA TwrRows ==
  ASSUME NEW cs, cs \subseteq Close, NEW n \in Nat, \A c \in cs : c.at <= n,
         NEW fs, fs \subseteq FlowRow, IsFiniteSet(fs),
         NEW rs, rs \subseteq SubPeriod, \A r \in rs : r.at <= n,
         NEW from \in Nat, NEW to \in Nat, NEW at \in Nat
  PROVE  /\ compute_twr(cs, fs, rs, from, to, at) \in Seq(SubPeriod)
         /\ \A r \in Range(compute_twr(cs, fs, rs, from, to, at)) : r \in SubPeriod /\ (r \in rs \/ r.at = at)
<1> DEFINE ws == Windows(fs, from, to)
<1>1. ws \in Seq(Nat \X Nat) /\ DOMAIN ws = 1 .. Len(ws)
  BY WindowsType
<1>2. compute_twr(cs, fs, rs, from, to, at) = [i \in DOMAIN ws |-> SubPeriodReturn(cs, fs, rs, ws[i], at)]
  BY DEF compute_twr
<1> HIDE DEF ws
<1>3. ASSUME NEW i \in DOMAIN ws
      PROVE  /\ SubPeriodReturn(cs, fs, rs, ws[i], at) \in SubPeriod
             /\ SubPeriodReturn(cs, fs, rs, ws[i], at) \in rs
                \/ SubPeriodReturn(cs, fs, rs, ws[i], at).at = at
  <2>1. ws[i] \in Nat \X Nat
    BY <1>1
  <2> QED BY <2>1, ReturnRow
<1>4. compute_twr(cs, fs, rs, from, to, at) \in [1 .. Len(ws) -> SubPeriod]
  BY <1>1, <1>2, <1>3
<1>5. Len(ws) \in Nat
  BY <1>1
<1>6. compute_twr(cs, fs, rs, from, to, at) \in Seq(SubPeriod)
  BY <1>4, <1>5
<1>7. \A r \in Range(compute_twr(cs, fs, rs, from, to, at)) : r \in SubPeriod /\ (r \in rs \/ r.at = at)
  BY <1>2, <1>3 DEF Range
<1> QED BY <1>6, <1>7

\* The linked return is a whole number of its quantum.
LEMMA LinkInt ==
  ASSUME NEW seq \in Seq(SubPeriod)
  PROVE  link(seq) \in Int
<1> DEFINE N == Len(seq)
           q == [n \in 1 .. N |-> Quantum + ReturnPct(seq[n])]
           u == [n \in 1 .. N |-> Quantum]
           P(g) == g = [n \in 0 .. N |-> IF n = 0 THEN 1 ELSE g[n - 1] * (Quantum + ReturnPct(seq[n]))]
           U(g) == g = [n \in 0 .. N |-> IF n = 0 THEN 1 ELSE g[n - 1] * Quantum]
           product == CHOOSE g : P(g)
           unit == CHOOSE g : U(g)
<1>0. N \in Nat /\ Quantum \in Nat \ {0}
  BY PerformanceAssumption
<1>1. ASSUME NEW n \in 1 .. N PROVE ReturnPct(seq[n]) \in Int
  <2>1. seq[n] \in SubPeriod
    OBVIOUS
  <2>2. seq[n].begin \in Nat /\ seq[n].end \in Nat /\ seq[n].flow \in Nat
    BY <2>1 DEF SubPeriod
  <2>3. CASE seq[n].begin = 0
    BY <2>3 DEF ReturnPct
  <2>4. CASE seq[n].begin # 0
    <3>1. (seq[n].end - seq[n].begin - seq[n].flow) * Quantum \in Int /\ seq[n].begin \in Nat \ {0}
      BY <1>0, <2>2, <2>4
    <3>2. Quantize((seq[n].end - seq[n].begin - seq[n].flow) * Quantum, seq[n].begin) \in Int
      BY <3>1, QuantizeInt
    <3> QED BY <2>4, <3>2 DEF ReturnPct
  <2> QED BY <2>3, <2>4
<1>2. \A g : Multiplies(g, q, N) <=> P(g)
  <2> SUFFICES ASSUME NEW g PROVE Multiplies(g, q, N) <=> P(g)
    OBVIOUS
  <2>1. \A n \in 0 .. N : n # 0 => q[n] = Quantum + ReturnPct(seq[n])
    <3> HIDE DEF N
    <3> QED BY <1>0
  <2>2. [n \in 0 .. N |-> IF n = 0 THEN 1 ELSE g[n - 1] * q[n]]
        = [n \in 0 .. N |-> IF n = 0 THEN 1 ELSE g[n - 1] * (Quantum + ReturnPct(seq[n]))]
    <3> HIDE DEF N, q
    <3> QED BY <2>1
  <2> HIDE DEF N, q
  <2> QED BY <2>2 DEF Multiplies
<1>3. \A g : Multiplies(g, u, N) <=> U(g)
  <2> SUFFICES ASSUME NEW g PROVE Multiplies(g, u, N) <=> U(g)
    OBVIOUS
  <2>1. \A n \in 0 .. N : n # 0 => u[n] = Quantum
    <3> HIDE DEF N
    <3> QED BY <1>0
  <2>2. [n \in 0 .. N |-> IF n = 0 THEN 1 ELSE g[n - 1] * u[n]]
        = [n \in 0 .. N |-> IF n = 0 THEN 1 ELSE g[n - 1] * Quantum]
    <3> HIDE DEF N, u
    <3> QED BY <2>1
  <2> HIDE DEF N, u
  <2> QED BY <2>2 DEF Multiplies
<1>4. (\E g : Multiplies(g, q, N)) /\ (\E g : Multiplies(g, u, N))
  <2> HIDE DEF N, q, u
  <2> QED BY <1>0, ProductExists
<1>5. (\E g : P(g)) /\ (\E g : U(g))
  <2> HIDE DEF P, U, q, u, N
  <2> QED BY <1>2, <1>3, <1>4
<1>6. P(product) /\ U(unit)
  <2> HIDE DEF P, U
  <2> QED BY <1>5
<1>7. Multiplies(product, q, N) /\ Multiplies(unit, u, N)
  <2> HIDE DEF P, U, q, u, N, product, unit
  <2> QED BY <1>2, <1>3, <1>6
<1>8. link(seq) = IF N = 0 THEN 0 ELSE Quantize(product[N], unit[N - 1]) - Quantum
  BY DEF link
<1>9. (\A n \in 1 .. N : q[n] \in Int) /\ (\A n \in 1 .. N : u[n] \in Nat \ {0})
  <2> HIDE DEF N
  <2> QED BY <1>0, <1>1
<1> HIDE DEF N, q, u, product, unit, P, U
<1>10. \A n \in 0 .. N : product[n] \in Int
  BY <1>0, <1>7, <1>9, ProductType
<1>11. \A n \in 0 .. N : unit[n] \in Nat \ {0}
  BY <1>0, <1>7, <1>9, ProductType
<1>12. CASE N = 0
  BY <1>8, <1>12
<1>13. CASE N # 0
  <2>1. N \in 0 .. N /\ N - 1 \in 0 .. N
    BY <1>0, <1>13
  <2>2. product[N] \in Int /\ unit[N - 1] \in Nat \ {0}
    BY <1>10, <1>11, <2>1
  <2>3. Quantize(product[N], unit[N - 1]) \in Int
    BY <2>2, QuantizeInt
  <2> QED BY <1>0, <1>8, <1>13, <2>3
<1> QED BY <1>12, <1>13

-----------------------------------------------------------------------------
\* Statements

\* derive with the rows it finds named.
LEMMA DeriveFrom ==
  ASSUME NEW fs, NEW rs, NEW s,
         NEW found, found = [i \in DOMAIN Windows(fs, s.from, s.to) |->
                               as_of_for_sub_period(rs, Windows(fs, s.from, s.to)[i], s.watermark)]
  PROVE  derive(fs, rs, s) = IF \E i \in DOMAIN Windows(fs, s.from, s.to) : found[i] = None THEN None
                             ELSE [twr |-> link(found), balance |-> Last(found).end]
BY DEF derive

\* Rows stamped after the watermark do not change a statement.
LEMMA LaterRows ==
  ASSUME NEW fs, NEW rs, NEW more, NEW s, s.watermark \in Nat,
         \A r \in more : r.at \in Nat /\ r.at > s.watermark
  PROVE  cross_check(fs, rs \cup more, s) <=> cross_check(fs, rs, s)
<1>1. ASSUME NEW w PROVE as_of_for_sub_period(rs \cup more, w, s.watermark)
                         = as_of_for_sub_period(rs, w, s.watermark)
  <2>1. {r \in OfWindow(rs \cup more, w) : r.at <= s.watermark}
        = {r \in OfWindow(rs, w) : r.at <= s.watermark}
    BY DEF OfWindow
  <2> QED BY <2>1 DEF as_of_for_sub_period
<1> DEFINE ws == Windows(fs, s.from, s.to)
           f == [i \in DOMAIN ws |-> as_of_for_sub_period(rs, ws[i], s.watermark)]
           g == [i \in DOMAIN ws |-> as_of_for_sub_period(rs \cup more, ws[i], s.watermark)]
<1>2. f = g
  BY <1>1
<1>3. derive(fs, rs, s) = IF \E i \in DOMAIN ws : f[i] = None THEN None
                          ELSE [twr |-> link(f), balance |-> Last(f).end]
  BY DeriveFrom
<1>4. derive(fs, rs \cup more, s) = IF \E i \in DOMAIN ws : g[i] = None THEN None
                          ELSE [twr |-> link(g), balance |-> Last(g).end]
  BY DEF derive
<1> HIDE DEF f, g, ws
<1>5. derive(fs, rs, s) = derive(fs, rs \cup more, s)
  BY <1>2, <1>3, <1>4
<1> QED BY <1>5 DEF cross_check

\* Money that comes in after the period does not change a statement.
LEMMA LaterFlows ==
  ASSUME NEW fs, NEW f, NEW rs, NEW s, s.to \in Nat, f.date \in Nat, s.to < f.date
  PROVE  cross_check(fs \cup {f}, rs, s) <=> cross_check(fs, rs, s)
<1>1. flow_dates(fs \cup {f}, s.from, s.to) = flow_dates(fs, s.from, s.to)
  BY DEF flow_dates
<1>2. boundaries(fs \cup {f}, s.from, s.to) = boundaries(fs, s.from, s.to)
  <2> DEFINE B(D) == [i \in 1 .. Cardinality({s.from, s.to} \cup D) |->
                        CHOOSE d \in {s.from, s.to} \cup D :
                          Cardinality({e \in {s.from, s.to} \cup D : e < d}) = i - 1]
  <2>1. boundaries(fs \cup {f}, s.from, s.to) = B(flow_dates(fs \cup {f}, s.from, s.to))
    BY DEF boundaries
  <2>2. boundaries(fs, s.from, s.to) = B(flow_dates(fs, s.from, s.to))
    BY DEF boundaries
  <2> HIDE DEF B
  <2> QED BY <1>1, <2>1, <2>2
<1>3. Windows(fs \cup {f}, s.from, s.to) = Windows(fs, s.from, s.to)
  BY <1>2 DEF Windows
<1>4. derive(fs \cup {f}, rs, s) = derive(fs, rs, s)
  BY <1>3 DEF derive
<1> QED BY <1>4 DEF cross_check

\* publish shows what derive finds once its rows are stored, unless a row of a
\* later transaction was there already.
LEMMA PublishedDerives ==
  ASSUME NEW cs, cs \subseteq Close, NEW n \in Nat, \A c \in cs : c.at <= n,
         NEW fs, fs \subseteq FlowRow, IsFiniteSet(fs),
         NEW rs, rs \subseteq SubPeriod, \A r \in rs : r.at <= n,
         NEW from \in Nat, NEW to \in Nat, NEW at \in Nat,
         \A r \in rs : r.at < at, NEW overlapping
  PROVE  cross_check(fs, rs \cup (Range(compute_twr(cs, fs, rs, from, to, at)) \ rs),
                     publish(cs, fs, rs, from, to, at, overlapping))
<1> DEFINE ws == Windows(fs, from, to)
           linked == compute_twr(cs, fs, rs, from, to, at)
           R == rs \cup (Range(linked) \ rs)
           s == publish(cs, fs, rs, from, to, at, overlapping)
           found == [i \in DOMAIN ws |-> as_of_for_sub_period(R, ws[i], at)]
<1>1. ws \in Seq(Nat \X Nat)
  BY WindowsType
<1>2. linked = [i \in DOMAIN ws |-> SubPeriodReturn(cs, fs, rs, ws[i], at)]
  BY DEF compute_twr
<1>3. s.from = from /\ s.to = to /\ s.watermark = at /\ s.twr = link(linked)
      /\ s.balance = Last(linked).end
  BY DEF publish
<1>4. ASSUME NEW i \in DOMAIN ws
      PROVE  /\ linked[i] \in SubPeriod
             /\ linked[i].from = ws[i][1] /\ linked[i].to = ws[i][2]
             /\ \/ linked[i] \in rs /\ linked[i] = Newest(OfWindow(rs, ws[i]))
                \/ linked[i].at = at
  <2>1. ws[i] \in Nat \X Nat
    BY <1>1
  <2>2. linked[i] = SubPeriodReturn(cs, fs, rs, ws[i], at)
    BY <1>2
  <2> HIDE DEF ws, linked
  <2> QED BY <2>1, <2>2, ReturnRow
<1>5. \A i, j \in DOMAIN ws : linked[j].from = linked[i].from /\ linked[j].to = linked[i].to
                              => linked[j] = linked[i]
  <2> SUFFICES ASSUME NEW i \in DOMAIN ws, NEW j \in DOMAIN ws,
                      linked[j].from = linked[i].from, linked[j].to = linked[i].to
               PROVE  linked[j] = linked[i]
    OBVIOUS
  <2>1. ws[i] \in Nat \X Nat /\ ws[j] \in Nat \X Nat
    BY <1>1
  <2>2. ws[i] = ws[j]
    <3> HIDE DEF ws, linked
    <3> QED BY <1>4, <2>1
  <2> HIDE DEF ws, linked
  <2> QED BY <1>2, <2>2
<1>6. R = rs \cup {linked[i] : i \in DOMAIN ws}
  <2>1. DOMAIN linked = DOMAIN ws
    BY <1>2
  <2> HIDE DEF linked, ws
  <2> QED BY <2>1 DEF Range
<1> HIDE DEF ws, linked, R
<1>7. ASSUME NEW i \in DOMAIN ws
      PROVE  as_of_for_sub_period(R, ws[i], at) = linked[i]
  <2> DEFINE A == {r \in OfWindow(R, ws[i]) : r.at <= at}
  <2>1. \A r \in A : r \in rs \/ r = linked[i]
    <3> SUFFICES ASSUME NEW r \in A, r \notin rs PROVE r = linked[i]
      OBVIOUS
    <3>1. r \in R /\ r.from = ws[i][1] /\ r.to = ws[i][2]
      BY DEF OfWindow
    <3>2. PICK j \in DOMAIN ws : r = linked[j]
      BY <1>6, <3>1
    <3> QED BY <1>4, <1>5, <3>1, <3>2
  <2>2. \A r \in rs : r.at \in Nat
    BY DEF SubPeriod
  <2>3. CASE linked[i] \in rs /\ linked[i] = Newest(OfWindow(rs, ws[i]))
    <3>1. \A r \in A : r \in OfWindow(rs, ws[i])
      BY <2>1, <2>3 DEF OfWindow
    <3>2. \A r \in OfWindow(rs, ws[i]) : r \in A
      BY <1>6, <2>2 DEF OfWindow
    <3>3. A = OfWindow(rs, ws[i])
      <4> HIDE DEF A
      <4> QED BY <3>1, <3>2
    <3> QED BY <2>3, <3>3 DEF as_of_for_sub_period
  <2>4. CASE linked[i].at = at
    <3>0. linked[i] \in R /\ linked[i].at <= at
      BY <1>6, <2>4
    <3>1. linked[i] \in A
      BY <1>4, <3>0 DEF OfWindow
    <3>2. \A o \in A : o.at <= at /\ (o.at = at => o = linked[i])
      BY <2>1, <2>2, <2>4
    <3>3. \A o \in A : o.at \in Nat
      BY <1>4, <2>1, <2>2 DEF SubPeriod
    <3>4. Newest(A) = CHOOSE r \in A : \A o \in A : r.at >= o.at
      <4> HIDE DEF A
      <4> QED BY <3>1 DEF Newest
    <3>5. \A o \in A : linked[i].at >= o.at
      BY <2>4, <3>2, <3>3
    <3>6. \A r \in A : (\A o \in A : r.at >= o.at) => r = linked[i]
      BY <2>4, <3>1, <3>2, <3>3
    <3> HIDE DEF A
    <3>7. (CHOOSE r \in A : \A o \in A : r.at >= o.at) = linked[i]
      BY <3>1, <3>5, <3>6
    <3> QED BY <3>4, <3>7 DEF as_of_for_sub_period, A
  <2> QED BY <1>4, <2>3, <2>4
<1>8. linked = [i \in DOMAIN ws |-> linked[i]]
  BY <1>2
<1>9. found = linked
  BY <1>7, <1>8
<1>10. \A i \in DOMAIN ws : found[i] # None
  BY <1>4, <1>9, PerformanceAssumption
<1> HIDE DEF s
<1>11. derive(fs, R, s) = IF \E i \in DOMAIN ws : found[i] = None THEN None
                          ELSE [twr |-> link(found), balance |-> Last(found).end]
  <2>1. found = [i \in DOMAIN Windows(fs, s.from, s.to) |->
                   as_of_for_sub_period(R, Windows(fs, s.from, s.to)[i], s.watermark)]
    BY <1>3 DEF ws
  <2> HIDE DEF found
  <2>2. derive(fs, R, s) = IF \E i \in DOMAIN Windows(fs, s.from, s.to) : found[i] = None THEN None
                           ELSE [twr |-> link(found), balance |-> Last(found).end]
    BY <2>1, DeriveFrom
  <2> QED BY <1>3, <2>2 DEF ws
<1>12. derive(fs, R, s) = [twr |-> link(linked), balance |-> Last(linked).end]
  <2> HIDE DEF found
  <2> QED BY <1>9, <1>10, <1>11
<1>13. cross_check(fs, R, s)
  BY <1>3, <1>12 DEF cross_check
<1> QED BY <1>13 DEF s, R, linked

-----------------------------------------------------------------------------
\* Steps

\* The part of it that is about types.
PerfTypes == Stored /\ Stamps

\* The invariant of statements.
PerfInv == Stored /\ Stamps /\ Kept /\ Pending

\* A transaction that has worked, and nothing else.
LEMMA WriteFrame ==
  ASSUME Stored, NEW t \in Slots, Open(t), NEW w, Write(t, w)
  PROVE  /\ DOMAIN txn' = Slots
         /\ \A u \in Slots : u # t => txn'[u] = txn[u]
         /\ DOMAIN txn'[t] = {"op", "from", "to", "at", "worked", "writes"}
         /\ txn'[t].op = txn[t].op /\ txn'[t].from = txn[t].from /\ txn'[t].to = txn[t].to
         /\ txn'[t].at = txn[t].at /\ txn'[t].worked = TRUE /\ txn'[t].writes = w
         /\ UNCHANGED <<today, clock, closes, flows, rows, snapshots, peak, accruals, charge>>
<1>1. DOMAIN txn = Slots /\ DOMAIN txn[t] = {"op", "from", "to", "at", "worked", "writes"}
  BY DEF Stored, TxnRow
<1> DEFINE a == [txn EXCEPT ![t].worked = TRUE]
           b == [a EXCEPT ![t].writes = w]
<1>2. txn' = b
  BY DEF Write
<1>3. /\ DOMAIN a = Slots /\ \A u \in Slots : u # t => a[u] = txn[u]
      /\ a[t] = [txn[t] EXCEPT !.worked = TRUE]
  BY <1>1
<1>4. /\ DOMAIN a[t] = {"op", "from", "to", "at", "worked", "writes"}
      /\ a[t].op = txn[t].op /\ a[t].from = txn[t].from /\ a[t].to = txn[t].to
      /\ a[t].at = txn[t].at /\ a[t].worked = TRUE
  BY <1>1, <1>3
<1> HIDE DEF a
<1>5. /\ DOMAIN b = Slots /\ \A u \in Slots : u # t => b[u] = a[u]
      /\ b[t] = [a[t] EXCEPT !.writes = w]
  BY <1>3
<1>6. /\ DOMAIN b[t] = {"op", "from", "to", "at", "worked", "writes"}
      /\ b[t].op = a[t].op /\ b[t].from = a[t].from /\ b[t].to = a[t].to
      /\ b[t].at = a[t].at /\ b[t].worked = a[t].worked /\ b[t].writes = w
  BY <1>4, <1>5
<1> HIDE DEF b
<1>7. UNCHANGED <<today, clock, closes, flows, rows, snapshots, peak, accruals, charge>>
  BY DEF Write
<1> QED BY <1>2, <1>3, <1>4, <1>5, <1>6, <1>7

\* What a transaction may write.
WritesOK(t, w) ==
  /\ w.closes \subseteq Close /\ \A c \in w.closes : c.at = txn[t].at
  /\ w.rows \subseteq SubPeriod /\ \A r \in w.rows : r.at = txn[t].at

\* A transaction that works leaves what is stored typed and stamped.
LEMMA WriteTypes ==
  ASSUME PerfTypes, NEW t \in Slots, Open(t), NEW w, Write(t, w), WritesOK(t, w)
  PROVE  PerfTypes' /\ (\A u \in Slots : Open(u)' <=> Open(u)) /\ \A u \in Slots : txn'[u].at = txn[u].at
<1>1. /\ DOMAIN txn' = Slots
      /\ \A u \in Slots : u # t => txn'[u] = txn[u]
      /\ DOMAIN txn'[t] = {"op", "from", "to", "at", "worked", "writes"}
      /\ txn'[t].op = txn[t].op /\ txn'[t].from = txn[t].from /\ txn'[t].to = txn[t].to
      /\ txn'[t].at = txn[t].at /\ txn'[t].worked = TRUE /\ txn'[t].writes = w
      /\ UNCHANGED <<today, clock, closes, flows, rows, snapshots, peak, accruals, charge>>
  BY WriteFrame DEF PerfTypes
<1>2. \A u \in Slots : txn'[u].op = txn[u].op /\ txn'[u].at = txn[u].at
  BY <1>1
<1>3. \A u \in Slots : Open(u)' <=> Open(u)
  BY <1>2 DEF Open
<1>4. TxnRow(t)'
  <2>1. TxnRow(t)
    BY DEF PerfTypes, Stored
  <2> QED BY <1>1, <2>1 DEF TxnRow, WritesOK
<1>5. ASSUME NEW u \in Slots, Open(u)' PROVE TxnRow(u)'
  <2>1. CASE u = t
    BY <1>4, <2>1
  <2>2. CASE u # t
    <3>1. TxnRow(u)
      BY <1>3, <1>5 DEF PerfTypes, Stored
    <3> QED BY <1>1, <2>2, <3>1 DEF TxnRow
  <2> QED BY <2>1, <2>2
<1>6. Stored'
  BY <1>1, <1>5 DEF PerfTypes, Stored
<1>7. Stamps'
  BY <1>1, <1>2, <1>3 DEF PerfTypes, Stamps
<1> QED BY <1>2, <1>3, <1>6, <1>7 DEF PerfTypes

\* A transaction may collect any writes whose statements reproduce with them.
LEMMA WriteKeeps ==
  ASSUME PerfInv, NEW t \in Slots, Open(t), NEW w, Write(t, w), WritesOK(t, w),
         \A s \in w.snapshots : /\ SnapRow(s) /\ Reproduces(s, rows \cup w.rows)
                                /\ \A u \in Slots \ {t} : Open(u) => After(s, u)
  PROVE  PerfInv'
<1>0. PerfTypes
  BY DEF PerfInv, PerfTypes
<1>1. PerfTypes' /\ (\A u \in Slots : Open(u)' <=> Open(u)) /\ \A u \in Slots : txn'[u].at = txn[u].at
  BY <1>0, WriteTypes
<1>2. /\ \A u \in Slots : u # t => txn'[u] = txn[u]
      /\ txn'[t].writes = w
      /\ UNCHANGED <<today, clock, closes, flows, rows, snapshots, peak, accruals, charge>>
  BY <1>0, WriteFrame DEF PerfTypes
<1>3. \A s : \A u \in Slots : After(s, u)' <=> After(s, u)
  BY <1>1 DEF After
<1>4. \A s : SnapRow(s)' <=> SnapRow(s)
  BY <1>2 DEF SnapRow
<1>5. \A s : \A rs : Reproduces(s, rs)' <=> Reproduces(s, rs)
  BY <1>2 DEF Reproduces
<1>6. Kept'
  BY <1>1, <1>2, <1>3, <1>4, <1>5 DEF PerfInv, Kept
<1>7. Pending'
  BY <1>1, <1>2, <1>3, <1>4, <1>5 DEF PerfInv, Pending
<1> QED BY <1>1, <1>6, <1>7 DEF PerfInv, PerfTypes

\* A transaction takes the next stamp.
LEMMA BeginKeeps ==
  ASSUME PerfInv, NEW t \in Slots, NEW op \in Ops, NEW d \in Nat, NEW e \in Nat,
         Begin(t, op, d, e), op = "charge" => PeriodEnd < today
  PROVE  PerfInv'
<1>1. /\ ~Open(t) /\ clock' = clock + 1
      /\ UNCHANGED <<today, closes, flows, rows, snapshots, peak, accruals, charge>>
      /\ txn' = [txn EXCEPT ![t] = [op |-> op, from |-> d, to |-> e, at |-> clock + 1,
                                    worked |-> FALSE, writes |-> NoWrites]]
  BY DEF Begin
<1>2. DOMAIN txn = Slots /\ clock \in Nat
  BY DEF PerfInv, Stored
<1>3. /\ DOMAIN txn' = Slots /\ \A u \in Slots : u # t => txn'[u] = txn[u]
      /\ txn'[t] = [op |-> op, from |-> d, to |-> e, at |-> clock + 1,
                    worked |-> FALSE, writes |-> NoWrites]
  BY <1>1, <1>2
<1>4. /\ DOMAIN txn'[t] = {"op", "from", "to", "at", "worked", "writes"}
      /\ txn'[t].op = op /\ txn'[t].from = d /\ txn'[t].to = e /\ txn'[t].at = clock + 1
      /\ txn'[t].worked = FALSE /\ txn'[t].writes = NoWrites
  BY <1>3
<1>5. NoWrites.closes = {} /\ NoWrites.rows = {} /\ NoWrites.snapshots = {}
  BY DEF NoWrites
<1>6. /\ \A u \in Slots : u # t => (Open(u)' <=> Open(u)) /\ txn'[u].at = txn[u].at
      /\ op # "none"
  BY <1>3 DEF Open, Ops
<1>7. TxnRow(t)'
  <2>1. txn'[t].writes.closes = {} /\ txn'[t].writes.rows = {} /\ clock + 1 \in Nat
    BY <1>2, <1>4, <1>5
  <2> QED BY <1>4, <2>1 DEF TxnRow
<1>8. ASSUME NEW u \in Slots, Open(u)' PROVE TxnRow(u)'
  <2>1. CASE u = t
    BY <1>7, <2>1
  <2>2. CASE u # t
    <3>1. TxnRow(u)
      BY <1>6, <1>8, <2>2 DEF PerfInv, Stored
    <3> QED BY <1>3, <2>2, <3>1 DEF TxnRow
  <2> QED BY <2>1, <2>2
<1>9. Stored'
  <2>1. /\ closes \subseteq Close /\ \A c \in closes : c.at <= clock /\ c.at \in Nat
        /\ rows \subseteq SubPeriod /\ \A r \in rows : r.at <= clock /\ r.at \in Nat
    BY DEF PerfInv, Stored, Close, SubPeriod
  <2>2. clock' \in Nat /\ (\A c \in closes : c.at <= clock') /\ (\A r \in rows : r.at <= clock')
    BY <1>1, <1>2, <2>1
  <2> QED BY <1>1, <1>3, <1>8, <2>1, <2>2 DEF PerfInv, Stored
<1>10. \A u \in Slots : Open(u) => txn[u].at \in Nat /\ txn[u].at <= clock
  BY DEF PerfInv, Stored, Stamps, TxnRow
<1>11. Stamps'
  <2> SUFFICES ASSUME NEW u \in Slots, Open(u)'
               PROVE  /\ 0 < txn'[u].at /\ txn'[u].at <= clock'
                      /\ \A r \in rows' : r.at # txn'[u].at
                      /\ \A v \in Slots : Open(v)' /\ txn'[v].at = txn'[u].at => v = u
                      /\ txn'[u].op = "charge" => PeriodEnd < today'
    BY DEF Stamps
  <2>1. \A r \in rows : r.at <= clock /\ r.at \in Nat
    BY DEF PerfInv, Stored, SubPeriod
  <2>2. CASE u = t
    BY <1>1, <1>2, <1>4, <1>6, <1>10, <2>1, <2>2
  <2>3. CASE u # t
    <3>1. Open(u) /\ txn'[u] = txn[u]
      BY <1>3, <1>6, <2>3
    <3>2. /\ 0 < txn[u].at /\ txn[u].at <= clock
          /\ \A r \in rows : r.at # txn[u].at
          /\ \A v \in Slots : Open(v) /\ txn[v].at = txn[u].at => v = u
          /\ txn[u].op = "charge" => PeriodEnd < today
      BY <3>1 DEF PerfInv, Stamps
    <3>3. \A v \in Slots : Open(v)' /\ txn'[v].at = txn'[u].at => v = u
      <4> SUFFICES ASSUME NEW v \in Slots, Open(v)', txn'[v].at = txn'[u].at PROVE v = u
        OBVIOUS
      <4>1. CASE v = t
        BY <1>2, <1>4, <1>10, <3>1, <4>1
      <4>2. CASE v # t
        BY <1>6, <3>1, <3>2, <4>2
      <4> QED BY <4>1, <4>2
    <3> QED BY <1>1, <1>2, <1>10, <3>1, <3>2, <3>3
  <2> QED BY <2>2, <2>3
<1>12. \A s : SnapRow(s) => SnapRow(s)' /\ After(s, t)'
  BY <1>1, <1>2, <1>4 DEF SnapRow, After
<1>13. \A s : \A rs : Reproduces(s, rs)' <=> Reproduces(s, rs)
  BY <1>1 DEF Reproduces
<1>14. \A s : \A u \in Slots : u # t => (After(s, u)' <=> After(s, u))
  BY <1>6 DEF After
<1>15. Kept'
  BY <1>1, <1>6, <1>12, <1>13, <1>14 DEF PerfInv, Kept
<1>16. Pending'
  BY <1>1, <1>3, <1>4, <1>5, <1>6, <1>12, <1>13, <1>14 DEF PerfInv, Pending
<1> QED BY <1>9, <1>11, <1>15, <1>16 DEF PerfInv

\* More rows keep a statement reproducible, if they are later or overlapped it.
LEMMA MoreRows ==
  ASSUME NEW s, SnapRow(s), NEW rs, NEW more, NEW at \in Nat, \A r \in more : r.at = at,
         at > s.watermark \/ at \in s.overlapping, Reproduces(s, rs)
  PROVE  Reproduces(s, rs \cup more)
<1>1. s.watermark \in Nat
  BY DEF SnapRow
<1>2. CASE at > s.watermark
  <2>1. \A r \in more : r.at \in Nat /\ r.at > s.watermark
    BY <1>2
  <2>2. cross_check(flows, rs \cup more, s) <=> cross_check(flows, rs, s)
    BY <1>1, <2>1, LaterRows
  <2> QED BY <2>2 DEF Reproduces
<1>3. CASE at \in s.overlapping
  <2>1. CASE more = {}
    <3>1. rs \cup more = rs
      BY <2>1
    <3> QED BY <3>1
  <2>2. CASE more # {}
    BY <1>3, <2>2 DEF Reproduces
  <2> QED BY <2>1, <2>2
<1> QED BY <1>2, <1>3

\* What a transaction wrote appears.
LEMMA CommitKeeps ==
  ASSUME PerfInv, NEW t \in Slots, Commit(t)
  PROVE  PerfInv'
<1> DEFINE w == txn[t].writes
<1>1. /\ Open(t) /\ UNCHANGED <<today, clock, flows>>
      /\ closes' = closes \cup w.closes /\ rows' = rows \cup w.rows
      /\ snapshots' = snapshots \cup w.snapshots
      /\ txn' = [txn EXCEPT ![t] = Idle]
  BY DEF Commit
<1>2. TxnRow(t) /\ DOMAIN txn = Slots /\ clock \in Nat
  BY <1>1 DEF PerfInv, Stored
<1>3. /\ DOMAIN txn' = Slots /\ txn'[t] = Idle /\ \A u \in Slots : u # t => txn'[u] = txn[u]
  BY <1>1, <1>2
<1>4. /\ ~Open(t)' /\ \A u \in Slots : u # t => (Open(u)' <=> Open(u)) /\ txn'[u].at = txn[u].at
  BY <1>3 DEF Open, Idle
<1>5. txn[t].at \in Nat /\ txn[t].at <= clock
  BY <1>1, <1>2 DEF PerfInv, Stamps, TxnRow
<1>6. /\ w.closes \subseteq Close /\ \A c \in w.closes : c.at = txn[t].at
      /\ w.rows \subseteq SubPeriod /\ \A r \in w.rows : r.at = txn[t].at
  BY <1>2 DEF TxnRow
<1> HIDE DEF w
<1>7. ASSUME NEW u \in Slots, Open(u)' PROVE TxnRow(u)'
  <2>1. u # t /\ Open(u) /\ txn'[u] = txn[u]
    BY <1>3, <1>4, <1>7
  <2>2. TxnRow(u)
    BY <2>1 DEF PerfInv, Stored
  <2> QED BY <2>1, <2>2 DEF TxnRow
<1>8. Stored'
  <2>1. closes' \subseteq Close /\ \A c \in closes' : c.at <= clock
    BY <1>1, <1>5, <1>6 DEF PerfInv, Stored
  <2>2. rows' \subseteq SubPeriod /\ \A r \in rows' : r.at <= clock
    BY <1>1, <1>5, <1>6 DEF PerfInv, Stored
  <2> QED BY <1>1, <1>3, <1>7, <2>1, <2>2 DEF PerfInv, Stored
<1>9. Stamps'
  <2> SUFFICES ASSUME NEW u \in Slots, Open(u)'
               PROVE  /\ 0 < txn'[u].at /\ txn'[u].at <= clock'
                      /\ \A r \in rows' : r.at # txn'[u].at
                      /\ \A v \in Slots : Open(v)' /\ txn'[v].at = txn'[u].at => v = u
                      /\ txn'[u].op = "charge" => PeriodEnd < today'
    BY DEF Stamps
  <2>1. u # t /\ Open(u) /\ txn'[u] = txn[u]
    BY <1>3, <1>4
  <2>2. /\ 0 < txn[u].at /\ txn[u].at <= clock
        /\ \A r \in rows : r.at # txn[u].at
        /\ \A v \in Slots : Open(v) /\ txn[v].at = txn[u].at => v = u
        /\ txn[u].op = "charge" => PeriodEnd < today
    BY <2>1 DEF PerfInv, Stamps
  <2>3. txn[u].at # txn[t].at
    BY <1>1, <2>1, <2>2
  <2> QED BY <1>1, <1>4, <1>6, <2>1, <2>2, <2>3
<1>10. \A s : SnapRow(s)' <=> SnapRow(s)
  BY <1>1 DEF SnapRow
<1>11. \A s : \A rs : Reproduces(s, rs)' <=> Reproduces(s, rs)
  BY <1>1 DEF Reproduces
<1>12. \A s : \A u \in Slots : u # t => (After(s, u)' <=> After(s, u))
  BY <1>4 DEF After
<1>13. ASSUME NEW s, SnapRow(s), NEW rs, After(s, t), Reproduces(s, rs)
       PROVE  Reproduces(s, rs \cup w.rows)
  BY <1>5, <1>6, <1>13, MoreRows DEF After
<1>14. Kept'
  <2> SUFFICES ASSUME NEW s \in snapshots'
               PROVE  SnapRow(s) /\ Reproduces(s, rows') /\ \A u \in Slots \ {t} : Open(u) => After(s, u)
    BY <1>4, <1>10, <1>11, <1>12 DEF Kept
  <2>1. CASE s \in snapshots
    <3>1. SnapRow(s) /\ Reproduces(s, rows) /\ \A u \in Slots : Open(u) => After(s, u)
      BY <2>1 DEF PerfInv, Kept
    <3>2. Reproduces(s, rows \cup w.rows)
      BY <1>1, <1>13, <3>1
    <3> QED BY <1>1, <3>1, <3>2
  <2>2. CASE s \in w.snapshots
    <3>1. SnapRow(s) /\ Reproduces(s, rows \cup w.rows) /\ \A u \in Slots \ {t} : Open(u) => After(s, u)
      BY <1>1, <2>2 DEF PerfInv, Pending, w
    <3> QED BY <1>1, <3>1
  <2> QED BY <1>1, <2>1, <2>2
<1>15. Pending'
  <2> SUFFICES ASSUME NEW v \in Slots \ {t}, Open(v), NEW s \in txn[v].writes.snapshots
               PROVE  /\ SnapRow(s) /\ Reproduces(s, rows' \cup txn[v].writes.rows)
                      /\ \A u \in Slots \ {v} : u # t /\ Open(u) => After(s, u)
    BY <1>3, <1>4, <1>10, <1>11, <1>12 DEF Pending
  <2>1. /\ SnapRow(s) /\ Reproduces(s, rows \cup txn[v].writes.rows)
        /\ \A u \in Slots \ {v} : Open(u) => After(s, u)
    BY DEF PerfInv, Pending
  <2>2. After(s, t)
    BY <1>1, <2>1
  <2>3. Reproduces(s, (rows \cup txn[v].writes.rows) \cup w.rows)
    BY <1>13, <2>1, <2>2
  <2>4. (rows \cup txn[v].writes.rows) \cup w.rows = rows' \cup txn[v].writes.rows
    BY <1>1
  <2> QED BY <2>1, <2>3, <2>4
<1> QED BY <1>8, <1>9, <1>14, <1>15 DEF PerfInv

\* Closes, money and days come; a transaction that raised is gone.
LEMMA RollbackKeeps ==
  ASSUME PerfInv, NEW t \in Slots, Rollback(t)
  PROVE  PerfInv'
<1>1. /\ UNCHANGED <<today, clock, closes, flows, rows, snapshots, peak, accruals, charge>>
      /\ txn' = [txn EXCEPT ![t] = Idle]
  BY DEF Rollback
<1>2. DOMAIN txn = Slots
  BY DEF PerfInv, Stored
<1>3. /\ DOMAIN txn' = Slots /\ txn'[t] = Idle /\ \A u \in Slots : u # t => txn'[u] = txn[u]
  BY <1>1, <1>2
<1>4. \A u \in Slots : Open(u)' => u # t /\ Open(u) /\ txn'[u] = txn[u]
  BY <1>3 DEF Open, Idle
<1>5. Stored'
  BY <1>1, <1>3, <1>4 DEF PerfInv, Stored, TxnRow
<1>6. Stamps'
  BY <1>1, <1>4 DEF PerfInv, Stamps
<1>7. \A s : (SnapRow(s)' <=> SnapRow(s)) /\ \A rs : Reproduces(s, rs)' <=> Reproduces(s, rs)
  BY <1>1 DEF SnapRow, Reproduces
<1>8. \A s : \A u \in Slots : Open(u)' /\ After(s, u) => After(s, u)'
  BY <1>4 DEF After
<1>9. Kept'
  BY <1>1, <1>4, <1>7, <1>8 DEF PerfInv, Kept
<1>10. Pending'
  BY <1>1, <1>4, <1>7, <1>8 DEF PerfInv, Pending
<1> QED BY <1>5, <1>6, <1>9, <1>10 DEF PerfInv

\* Transactions and what they know are as before.
LEMMA SameTransactions ==
  ASSUME UNCHANGED txn
  PROVE  \A u \in Slots : /\ Open(u)' <=> Open(u)
                          /\ TxnRow(u)' <=> TxnRow(u)
                          /\ \A s : After(s, u)' <=> After(s, u)
BY DEF Open, TxnRow, After

\* A close comes in for today, stamped later than every statement.
LEMMA DailyValuationKeeps ==
  ASSUME PerfInv, DailyValuation
  PROVE  PerfInv'
<1>1. PICK p \in Prices : closes' = closes \cup {[date |-> today, price |-> p, at |-> clock + 1]}
  BY DEF DailyValuation
<1>2. /\ clock' = clock + 1
      /\ UNCHANGED <<today, flows, rows, snapshots, peak, accruals, charge, txn>>
  BY DEF DailyValuation
<1>3. /\ today \in Nat /\ clock \in Nat /\ p \in Nat
      /\ closes \subseteq Close /\ \A c \in closes : c.at <= clock /\ c.at \in Nat
      /\ rows \subseteq SubPeriod /\ \A r \in rows : r.at <= clock /\ r.at \in Nat
  BY PerformanceAssumption DEF PerfInv, Stored, Close, SubPeriod
<1> DEFINE new == [date |-> today, price |-> p, at |-> clock + 1]
<1>4. new \in Close /\ new.at = clock + 1
  BY <1>3 DEF Close
<1> HIDE DEF new
<1>5. closes' \subseteq Close /\ \A c \in closes' : c.at <= clock'
  BY <1>1, <1>2, <1>3, <1>4 DEF new
<1>6. clock' \in Nat /\ \A r \in rows : r.at <= clock'
  BY <1>2, <1>3
<1>7. \A u \in Slots : /\ Open(u)' <=> Open(u)
                       /\ TxnRow(u)' <=> TxnRow(u)
                       /\ \A s : After(s, u)' <=> After(s, u)
  BY <1>2, SameTransactions
<1>8. Stored'
  BY <1>2, <1>5, <1>6, <1>7 DEF PerfInv, Stored
<1>9. Stamps'
  <2>1. \A u \in Slots : Open(u) => txn[u].at \in Nat
    BY DEF PerfInv, Stored, TxnRow
  <2> QED BY <1>2, <1>3, <1>7, <2>1 DEF PerfInv, Stamps
<1>10. \A s : (SnapRow(s) => SnapRow(s)') /\ \A rs : Reproduces(s, rs)' <=> Reproduces(s, rs)
  BY <1>2, <1>3 DEF SnapRow, Reproduces
<1>11. Kept'
  BY <1>2, <1>7, <1>10 DEF PerfInv, Kept
<1>12. Pending'
  BY <1>2, <1>7, <1>10 DEF PerfInv, Pending
<1> QED BY <1>8, <1>9, <1>11, <1>12 DEF PerfInv

\* Money comes in on a date no statement covers.
LEMMA FlowKeeps ==
  ASSUME PerfInv, Flow
  PROVE  PerfInv'
<1> DEFINE f == [date |-> today, amount |-> Gift]
<1>1. /\ flows' = flows \cup {f}
      /\ UNCHANGED <<today, clock, closes, rows, snapshots, peak, accruals, charge, txn>>
  BY DEF Flow
<1>2. today \in Nat /\ Gift \in Nat
  BY PerformanceAssumption DEF PerfInv, Stored
<1>3. f \in FlowRow /\ f.date = today
  BY <1>2 DEF FlowRow
<1> HIDE DEF f
<1>4. \A u \in Slots : /\ Open(u)' <=> Open(u)
                       /\ TxnRow(u)' <=> TxnRow(u)
                       /\ \A s : After(s, u)' <=> After(s, u)
  BY <1>1, SameTransactions
<1>5. IsFiniteSet(flows')
  BY <1>1, FS_AddElement DEF PerfInv, Stored
<1>6. flows' \subseteq FlowRow /\ \A g \in flows' : g.date <= today'
  BY <1>1, <1>2, <1>3 DEF PerfInv, Stored
<1>7. Stored'
  BY <1>1, <1>4, <1>5, <1>6 DEF PerfInv, Stored
<1>8. Stamps'
  BY <1>1, <1>4 DEF PerfInv, Stamps
<1>9. \A s : SnapRow(s)' <=> SnapRow(s)
  BY <1>1 DEF SnapRow
<1>10. ASSUME NEW s, SnapRow(s), NEW rs PROVE Reproduces(s, rs)' <=> Reproduces(s, rs)
  <2>1. s.to \in Nat /\ s.to < f.date /\ f.date \in Nat
    BY <1>2, <1>3, <1>10 DEF SnapRow
  <2>2. cross_check(flows \cup {f}, rs, s) <=> cross_check(flows, rs, s)
    BY <2>1, LaterFlows
  <2> QED BY <1>1, <2>2 DEF Reproduces
<1>11. Kept'
  BY <1>1, <1>4, <1>9, <1>10 DEF PerfInv, Kept
<1>12. Pending'
  BY <1>1, <1>4, <1>9, <1>10 DEF PerfInv, Pending
<1> QED BY <1>7, <1>8, <1>11, <1>12 DEF PerfInv

\* The day ends, or nothing happens.
LEMMA NextDayKeeps ==
  ASSUME PerfInv, today' \in Nat, today' >= today,
         UNCHANGED <<clock, closes, flows, rows, snapshots, txn>>
  PROVE  PerfInv'
<1>1. \A u \in Slots : /\ Open(u)' <=> Open(u)
                       /\ TxnRow(u)' <=> TxnRow(u)
                       /\ \A s : After(s, u)' <=> After(s, u)
  BY SameTransactions
<1>2. Stored'
  <2>1. \A f \in flows : f.date \in Nat /\ f.date <= today
    BY DEF PerfInv, Stored, FlowRow
  <2>2. \A f \in flows : f.date <= today'
    BY <2>1 DEF PerfInv, Stored
  <2> QED BY <1>1, <2>2 DEF PerfInv, Stored
<1>3. PeriodEnd \in Nat /\ today \in Nat
  BY PerformanceAssumption DEF PerfInv, Stored
<1>4. Stamps'
  BY <1>1, <1>3 DEF PerfInv, Stamps
<1>5. \A s : (SnapRow(s) => SnapRow(s)') /\ \A rs : Reproduces(s, rs)' <=> Reproduces(s, rs)
  BY <1>3 DEF SnapRow, Reproduces
<1>6. Kept'
  BY <1>1, <1>5 DEF PerfInv, Kept
<1>7. Pending'
  BY <1>1, <1>5 DEF PerfInv, Pending
<1> QED BY <1>2, <1>4, <1>6, <1>7 DEF PerfInv

\* What a transaction that works may rely on.
LEMMA AtWork ==
  ASSUME PerfInv, NEW t \in Slots, NEW op \in Ops, Working(t, op)
  PROVE  /\ Open(t) /\ txn[t].from \in Nat /\ txn[t].to \in Nat /\ txn[t].at \in Nat
         /\ 0 < txn[t].at /\ txn[t].at <= clock /\ clock \in Nat /\ today \in Nat
         /\ closes \subseteq Close /\ \A c \in closes : c.at <= clock
         /\ flows \subseteq FlowRow /\ IsFiniteSet(flows)
         /\ rows \subseteq SubPeriod /\ \A r \in rows : r.at <= clock
<1>1. Open(t)
  BY DEF Working, Open, Ops
<1> QED BY <1>1 DEF PerfInv, Stored, Stamps, TxnRow

\* The fields that a step leaves as NoWrites has them.
LEMMA NothingWritten ==
  /\ DOMAIN NoWrites = {"closes", "rows", "snapshots", "accrual", "peak", "charge"}
  /\ NoWrites.closes = {} /\ NoWrites.rows = {} /\ NoWrites.snapshots = {}
  /\ NoWrites.accrual = None /\ NoWrites.peak = None /\ NoWrites.charge = None
BY DEF NoWrites

\* The returns job computes the windows that are missing.
LEMMA ReturnsKeeps ==
  ASSUME PerfInv, NEW t \in Slots, Returns(t)
  PROVE  PerfInv'
<1> DEFINE linked == compute_twr(closes, flows, rows, txn[t].from, txn[t].to, txn[t].at)
           w == [NoWrites EXCEPT !.rows = Range(linked) \ rows]
<1>1. Working(t, "returns") /\ Write(t, w)
  BY DEF Returns
<1>2. /\ Open(t) /\ txn[t].from \in Nat /\ txn[t].to \in Nat /\ txn[t].at \in Nat /\ clock \in Nat
      /\ closes \subseteq Close /\ \A c \in closes : c.at <= clock
      /\ flows \subseteq FlowRow /\ IsFiniteSet(flows)
      /\ rows \subseteq SubPeriod /\ \A r \in rows : r.at <= clock
  <2>1. "returns" \in Ops
    BY DEF Ops
  <2> QED BY <1>1, <2>1, AtWork
<1>3. w.closes = {} /\ w.snapshots = {} /\ w.rows = Range(linked) \ rows
  BY NothingWritten
<1>4. \A r \in Range(linked) : r \in SubPeriod /\ (r \in rows \/ r.at = txn[t].at)
  BY ONLY <1>2, TwrRows DEF linked
<1> HIDE DEF w, linked
<1>5. WritesOK(t, w)
  BY <1>3, <1>4 DEF WritesOK
<1>6. \A s \in w.snapshots : FALSE
  BY <1>3
<1> QED BY <1>1, <1>2, <1>5, <1>6, WriteKeeps

\* Restatement adds rows of its own stamp.
LEMMA RestateRows ==
  ASSUME NEW cs, cs \subseteq Close, NEW n \in Nat, \A c \in cs : c.at <= n,
         NEW fs, fs \subseteq FlowRow, IsFiniteSet(fs),
         NEW rs, rs \subseteq SubPeriod, \A r \in rs : r.at <= n,
         NEW d, NEW at \in Nat, at <= n,
         \A s \in snapshots : s.from \in Nat /\ s.to \in Nat
  PROVE  \A r \in restate(cs, fs, rs, d, at) : r \in SubPeriod /\ (r \in rs \/ r.at = at)
<1> DEFINE recomputed == rs \cup {SubPeriodReturn(cs, fs, rs, w, at) : w \in containing(rs, d)}
           relinked(s) == Range(compute_twr(cs, fs, recomputed, s.from, s.to, at))
<1>1. \A w \in containing(rs, d) : w \in Nat \X Nat
  BY DEF containing, SubPeriod
<1>2. \A w \in containing(rs, d) :
        /\ SubPeriodReturn(cs, fs, rs, w, at) \in SubPeriod
        /\ SubPeriodReturn(cs, fs, rs, w, at) \in rs \/ SubPeriodReturn(cs, fs, rs, w, at).at = at
  BY <1>1, ReturnRow
<1>3. recomputed \subseteq SubPeriod /\ \A r \in recomputed : (r \in rs \/ r.at = at) /\ r.at <= n
  BY <1>2
<1>4. restate(cs, fs, rs, d, at) = IF containing(rs, d) = {} THEN rs
        ELSE recomputed \cup UNION {relinked(s) : s \in list_touching(d)}
  BY DEF restate
<1> HIDE DEF recomputed
<1>5. ASSUME NEW s \in snapshots
      PROVE  \A r \in relinked(s) : r \in SubPeriod /\ (r \in recomputed \/ r.at = at)
  BY <1>3, TwrRows
<1>6. list_touching(d) \subseteq snapshots
  BY DEF list_touching
<1> HIDE DEF relinked
<1>7. ASSUME NEW r \in restate(cs, fs, rs, d, at)
      PROVE  r \in SubPeriod /\ (r \in rs \/ r.at = at)
  BY <1>3, <1>4, <1>5, <1>6
<1> QED BY <1>7

\* A restatement collects the corrected close and the rows it replaces.
LEMMA CorrectKeeps ==
  ASSUME PerfInv, NEW t \in Slots, Correct(t)
  PROVE  PerfInv'
<1>1. Working(t, "correction")
  BY DEF Correct
<1>2. /\ Open(t) /\ txn[t].from \in Nat /\ txn[t].at \in Nat /\ clock \in Nat /\ txn[t].at <= clock
      /\ closes \subseteq Close /\ \A c \in closes : c.at <= clock
      /\ flows \subseteq FlowRow /\ IsFiniteSet(flows)
      /\ rows \subseteq SubPeriod /\ \A r \in rows : r.at <= clock
  <2>1. "correction" \in Ops
    BY DEF Ops
  <2> QED BY <1>1, <2>1, AtWork
<1> DEFINE c(p) == [date |-> txn[t].from, price |-> p, at |-> txn[t].at]
           rs(p) == restate(closes \cup {c(p)}, flows, rows, txn[t].from, txn[t].at)
           w(p) == [NoWrites EXCEPT !.closes = {c(p)}, !.rows = rs(p) \ rows]
<1>3. \E p \in Prices : Write(t, w(p)) \/ Rollback(t)
  BY DEF Correct
<1>4. PICK p \in Prices : Write(t, w(p)) \/ Rollback(t)
  BY <1>3
<1>5. CASE Rollback(t)
  BY <1>5, RollbackKeeps
<1>6. CASE Write(t, w(p))
  <2>1. p \in Nat
    BY PerformanceAssumption
  <2>2. c(p) \in Close /\ c(p).at = txn[t].at
    BY <1>2, <2>1 DEF Close
  <2>3. w(p).closes = {c(p)} /\ w(p).snapshots = {} /\ w(p).rows = rs(p) \ rows
    BY NothingWritten
  <2> HIDE DEF c, w
  <2>4. \A s \in snapshots : s.from \in Nat /\ s.to \in Nat
    BY DEF PerfInv, Kept, SnapRow
  <2> DEFINE cs == closes \cup {c(p)}
  <2>5. cs \subseteq Close /\ \A x \in cs : x.at <= clock
    BY <1>2, <2>2
  <2> HIDE DEF cs
  <2>6. \A r \in restate(cs, flows, rows, txn[t].from, txn[t].at) :
          r \in SubPeriod /\ (r \in rows \/ r.at = txn[t].at)
    BY <1>2, <2>4, <2>5, RestateRows
  <2>7. \A r \in rs(p) : r \in SubPeriod /\ (r \in rows \/ r.at = txn[t].at)
    BY <2>6 DEF cs
  <2> HIDE DEF rs
  <2>8. WritesOK(t, w(p))
    BY <2>2, <2>3, <2>7 DEF WritesOK
  <2>9. \A s \in w(p).snapshots : FALSE
    BY <2>3
  <2> QED BY <1>2, <1>6, <2>8, <2>9, WriteKeeps
<1> QED BY <1>4, <1>5, <1>6

\* The accrual of date d, worked out by a transaction stamped at, with the mark
\* at high.
AccrualOf(a, d, at, high) ==
  /\ a \in Accrual /\ a.date = d /\ a.at = at
  /\ a.gain = ratchet(high, a.shadow).gain

\* What accruing writes: the rows it had to compute and, for a new date, the
\* accrual and the mark.
LEMMA AccrueWrites ==
  ASSUME PerfInv, peak \in Int, NEW t \in Slots, Accrue(t)
  PROVE  \E w : /\ Write(t, w) /\ WritesOK(t, w) /\ w.snapshots = {}
                /\ \/ w.accrual = None /\ w.peak = None
                   \/ /\ \A a \in accruals : a.date # txn[t].from
                      /\ AccrualOf(w.accrual, txn[t].from, txn[t].at, peak)
                      /\ w.peak = ratchet(peak, w.accrual.shadow).peak
<1> DEFINE d == txn[t].from
           twr == compute_twr(closes, flows, rows, first_flow_date, d, txn[t].at)
           linked == IF d = first_flow_date THEN <<>> ELSE twr
           shadow == shadow_nav(closes, flows, linked)
           high == IF peak = None THEN shadow ELSE peak
           new == [NoWrites EXCEPT !.rows = Range(linked) \ rows]
           a == [date |-> d, gain |-> ratchet(high, shadow).gain,
                 fee |-> fee_amount(ratchet(high, shadow).gain),
                 shadow |-> shadow, at |-> txn[t].at]
           both == [new EXCEPT !.peak = ratchet(high, shadow).peak, !.accrual = a]
<1>1. /\ Working(t, "accrual")
      /\ \/ Write(t, NoWrites)
         \/ Write(t, new)
         \/ Write(t, both) /\ ~ \E o \in accruals : o.date = d
  BY DEF Accrue
<1>2. /\ Open(t) /\ txn[t].from \in Nat /\ txn[t].at \in Nat /\ clock \in Nat
      /\ closes \subseteq Close /\ \A c \in closes : c.at <= clock
      /\ flows \subseteq FlowRow /\ IsFiniteSet(flows)
      /\ rows \subseteq SubPeriod /\ \A r \in rows : r.at <= clock
  <2>1. "accrual" \in Ops
    BY DEF Ops
  <2> QED BY <1>1, <2>1, AtWork
<1>3. /\ twr \in Seq(SubPeriod)
      /\ \A r \in Range(twr) : r \in SubPeriod /\ (r \in rows \/ r.at = txn[t].at)
  <2>1. first_flow_date \in Nat
    BY DEF first_flow_date
  <2>2. d \in Nat
    BY <1>2
  <2> HIDE DEF d, high, linked, shadow, new, a, both
  <2> HIDE DEF twr
  <2>3. ASSUME NEW f \in Nat
        PROVE  compute_twr(closes, flows, rows, f, d, txn[t].at) \in Seq(SubPeriod)
    BY <1>2, <2>2, TwrRows
  <2>4. ASSUME NEW f \in Nat
        PROVE  \A r \in Range(compute_twr(closes, flows, rows, f, d, txn[t].at)) :
                    r \in SubPeriod /\ (r \in rows \/ r.at = txn[t].at)
    BY <1>2, <2>2, TwrRows
  <2> QED BY <2>1, <2>3, <2>4 DEF twr
<1> HIDE DEF twr
<1>4. /\ linked \in Seq(SubPeriod)
      /\ \A r \in Range(linked) : r \in SubPeriod /\ (r \in rows \/ r.at = txn[t].at)
  BY <1>3 DEF Range
<1>5. shadow \in Int
  <2>1. link(linked) \in Int
    BY <1>4, LinkInt
  <2>2. value_book(closes, flows, first_flow_date).total \in Nat
    BY <1>2, BookValue
  <2>3. Quantum \in Nat \ {0}
    BY PerformanceAssumption
  <2>4. value_book(closes, flows, first_flow_date).total * (Quantum + link(linked)) \in Int
    BY <2>1, <2>2, <2>3
  <2>5. Quantize(value_book(closes, flows, first_flow_date).total * (Quantum + link(linked)), Quantum) \in Int
    BY <2>3, <2>4, QuantizeInt
  <2> QED BY <2>5 DEF shadow_nav
<1> HIDE DEF linked, shadow
<1>6. high = peak
  BY PerformanceAssumption
<1>7. ratchet(peak, shadow).gain \in Nat /\ ratchet(peak, shadow).peak \in Int
  BY <1>5 DEF ratchet
<1>8. /\ a \in Accrual /\ a.date = d /\ a.at = txn[t].at /\ a.shadow = shadow
      /\ a.gain = ratchet(peak, shadow).gain
  BY <1>2, <1>5, <1>6, <1>7 DEF Accrual, fee_amount
<1>9. /\ DOMAIN new = {"closes", "rows", "snapshots", "accrual", "peak", "charge"}
      /\ new.closes = {} /\ new.snapshots = {} /\ new.rows = Range(linked) \ rows
      /\ new.accrual = None /\ new.peak = None
  BY NothingWritten
<1> HIDE DEF new, a
<1>10. /\ both.closes = {} /\ both.snapshots = {} /\ both.rows = Range(linked) \ rows
       /\ both.accrual = a /\ both.peak = ratchet(peak, shadow).peak
  <2> DEFINE one == [new EXCEPT !.peak = ratchet(peak, shadow).peak]
             two == [one EXCEPT !.accrual = a]
  <2>1. both = two
    BY <1>6
  <2>2. /\ DOMAIN one = {"closes", "rows", "snapshots", "accrual", "peak", "charge"}
        /\ one.closes = {} /\ one.snapshots = {} /\ one.rows = Range(linked) \ rows
        /\ one.peak = ratchet(peak, shadow).peak
    BY <1>9
  <2> HIDE DEF one
  <2>3. /\ two.closes = {} /\ two.snapshots = {} /\ two.rows = Range(linked) \ rows
        /\ two.peak = ratchet(peak, shadow).peak /\ two.accrual = a
    BY <2>2
  <2> HIDE DEF two, both
  <2> QED BY <2>1, <2>3
<1> HIDE DEF both
<1>11. CASE Write(t, NoWrites)
  <2>1. WritesOK(t, NoWrites)
    BY NothingWritten DEF WritesOK
  <2> QED BY <1>11, <2>1, NothingWritten
<1>12. CASE Write(t, new)
  <2>1. WritesOK(t, new)
    BY <1>4, <1>9 DEF WritesOK
  <2> QED BY <1>9, <1>12, <2>1
<1>13. CASE Write(t, both) /\ ~ \E o \in accruals : o.date = d
  <2>1. WritesOK(t, both)
    BY <1>4, <1>10 DEF WritesOK
  <2>2. AccrualOf(both.accrual, txn[t].from, txn[t].at, peak)
        /\ both.peak = ratchet(peak, both.accrual.shadow).peak
    BY <1>8, <1>10 DEF AccrualOf
  <2> QED BY <1>10, <1>13, <2>1, <2>2
<1> QED BY <1>1, <1>11, <1>12, <1>13

\* An accrual collects the rows its valuation needed; it publishes nothing.
LEMMA AccrueKeeps ==
  ASSUME PerfInv, peak \in Int, NEW t \in Slots, Accrue(t)
  PROVE  PerfInv'
<1>1. PICK w : Write(t, w) /\ WritesOK(t, w) /\ w.snapshots = {}
  BY AccrueWrites
<1>2. Open(t)
  <2>1. "accrual" \in Ops
    BY DEF Ops
  <2> QED BY <2>1, AtWork DEF Accrue
<1>3. \A s \in w.snapshots : FALSE
  BY <1>1
<1> QED BY <1>1, <1>2, <1>3, WriteKeeps

\* A statement is published with the rows that reproduce it.
LEMMA BillWrites ==
  ASSUME PerfInv, NEW t \in Slots, Bill(t)
  PROVE  \E w : /\ Write(t, w) /\ WritesOK(t, w) /\ w.accrual = None /\ w.peak = None
                /\ \A s \in w.snapshots :
                     /\ SnapRow(s) /\ Reproduces(s, rows \cup w.rows)
                     /\ \A u \in Slots \ {t} : Open(u) => After(s, u)
<1> DEFINE total == SumOver([a \in accruals |-> a.fee],
                      {a \in accruals : 0 <= a.date /\ a.date <= PeriodEnd})
           overlapping == {txn[o].at : o \in {p \in Slots \ {t} : Open(p)}}
                            \cup {r.at : r \in {q \in rows : q.at > txn[t].at}}
           reused == {s \in snapshots : s.from = 0 /\ s.to = PeriodEnd}
           new == publish(closes, flows, rows, 0, PeriodEnd, txn[t].at, overlapping)
           linked == Range(compute_twr(closes, flows, rows, 0, PeriodEnd, txn[t].at))
           watermark == Max({s.watermark : s \in IF reused = {} THEN {new} ELSE reused})
           w == [NoWrites EXCEPT
                  !.rows = IF reused = {} THEN linked \ rows ELSE {},
                  !.snapshots = IF reused = {} THEN {new} ELSE {},
                  !.charge = [total |-> total, watermark |-> watermark]]
<1>1. Working(t, "charge") /\ (Write(t, NoWrites) \/ Write(t, w))
  BY DEF Bill
<1>2. /\ Open(t) /\ txn[t].at \in Nat /\ clock \in Nat /\ today \in Nat /\ txn[t].at <= clock
      /\ closes \subseteq Close /\ \A c \in closes : c.at <= clock
      /\ flows \subseteq FlowRow /\ IsFiniteSet(flows)
      /\ rows \subseteq SubPeriod /\ \A r \in rows : r.at <= clock
  <2>1. "charge" \in Ops
    BY DEF Ops
  <2> QED BY <1>1, <2>1, AtWork
<1>3. PeriodEnd \in Nat /\ 0 \in Nat
  BY PerformanceAssumption
<1>4. \A r \in linked : r \in SubPeriod /\ (r \in rows \/ r.at = txn[t].at)
  <2> DEFINE at == txn[t].at
  <2>1. at \in Nat
    BY <1>2
  <2> HIDE DEF at
  <2>2. \A r \in Range(compute_twr(closes, flows, rows, 0, PeriodEnd, at)) :
          r \in SubPeriod /\ (r \in rows \/ r.at = at)
    BY ONLY <1>2, <1>3, <2>1, TwrRows
  <2> QED BY <2>2 DEF at
<1>5. /\ new.from = 0 /\ new.to = PeriodEnd /\ new.watermark = txn[t].at
      /\ new.overlapping = overlapping
  BY DEF publish
<1>6. (\A r \in rows : r.at < txn[t].at) => cross_check(flows, rows \cup (linked \ rows), new)
  <2> HIDE DEF overlapping
  <2> QED BY <1>2, <1>3, PublishedDerives
<1> HIDE DEF new, linked, watermark, total
<1>7. w.closes = {} /\ w.accrual = None /\ w.peak = None
      /\ w.rows = (IF reused = {} THEN linked \ rows ELSE {})
      /\ w.snapshots = IF reused = {} THEN {new} ELSE {}
  <2> DEFINE R == IF reused = {} THEN linked \ rows ELSE {}
             S == IF reused = {} THEN {new} ELSE {}
             c == [total |-> total, watermark |-> watermark]
             one == [NoWrites EXCEPT !.rows = R]
             two == [one EXCEPT !.snapshots = S]
             three == [two EXCEPT !.charge = c]
  <2>1. w = three
    OBVIOUS
  <2> HIDE DEF R, S, c
  <2>2. /\ DOMAIN one = {"closes", "rows", "snapshots", "accrual", "peak", "charge"}
        /\ one.closes = {} /\ one.accrual = None /\ one.peak = None /\ one.rows = R
    BY NothingWritten
  <2> HIDE DEF one
  <2>3. /\ DOMAIN two = {"closes", "rows", "snapshots", "accrual", "peak", "charge"}
        /\ two.closes = {} /\ two.accrual = None /\ two.peak = None /\ two.rows = R
        /\ two.snapshots = S
    BY <2>2
  <2> HIDE DEF two
  <2>4. /\ three.closes = {} /\ three.accrual = None /\ three.peak = None /\ three.rows = R
        /\ three.snapshots = S
    BY <2>3
  <2> HIDE DEF three, w
  <2> QED BY <2>1, <2>4 DEF R, S
<1> HIDE DEF w
<1>8. CASE Write(t, NoWrites)
  <2>1. WritesOK(t, NoWrites)
    BY NothingWritten DEF WritesOK
  <2>2. \A s \in NoWrites.snapshots : FALSE
    BY NothingWritten
  <2> QED BY <1>8, <2>1, <2>2, NothingWritten
<1>9. CASE Write(t, w)
  <2>1. WritesOK(t, w)
    BY <1>4, <1>7 DEF WritesOK
  <2>2. ASSUME NEW s \in w.snapshots
        PROVE  /\ SnapRow(s) /\ Reproduces(s, rows \cup w.rows)
               /\ \A u \in Slots \ {t} : Open(u) => After(s, u)
    <3>1. s = new /\ w.rows = linked \ rows
      BY <1>7, <2>2
    <3>2. SnapRow(new)
      <4>1. PeriodEnd < today
        BY <1>1, <1>2 DEF PerfInv, Stamps, Working
      <4> QED BY <1>2, <1>3, <1>5, <4>1 DEF SnapRow
    <3>3. \A u \in Slots \ {t} : Open(u) => After(new, u)
      <4>1. \A u \in Slots \ {t} : Open(u) => txn[u].at \in overlapping
        OBVIOUS
      <4> QED BY <1>5, <4>1 DEF After
    <3>4. \A r \in rows : r.at \in Nat /\ r.at # txn[t].at
      BY <1>2 DEF PerfInv, Stamps, SubPeriod
    <3>5. Reproduces(new, rows \cup (linked \ rows))
      <4>1. CASE \A r \in rows : r.at < txn[t].at
        BY <1>6, <4>1 DEF Reproduces
      <4>2. CASE \E r \in rows : ~(r.at < txn[t].at)
        <5>1. PICK r \in rows : ~(r.at < txn[t].at)
          BY <4>2
        <5>2. r.at > txn[t].at
          BY <1>2, <3>4, <5>1
        <5>3. r.at \in new.overlapping
          BY <1>5, <5>2
        <5> QED BY <5>3 DEF Reproduces
      <4> QED BY <4>1, <4>2
    <3> QED BY <3>1, <3>2, <3>3, <3>5
  <2> QED BY <1>7, <1>9, <2>1, <2>2
<1> QED BY <1>1, <1>8, <1>9

\* The statement of a charge reproduces with the rows it was published with.
LEMMA BillKeeps ==
  ASSUME PerfInv, NEW t \in Slots, Bill(t)
  PROVE  PerfInv'
<1>1. PICK w : /\ Write(t, w) /\ WritesOK(t, w)
               /\ \A s \in w.snapshots :
                     /\ SnapRow(s) /\ Reproduces(s, rows \cup w.rows)
                     /\ \A u \in Slots \ {t} : Open(u) => After(s, u)
  BY BillWrites
<1>2. Open(t)
  <2>1. "charge" \in Ops
    BY DEF Ops
  <2> QED BY <2>1, AtWork DEF Bill
<1> QED BY <1>1, <1>2, WriteKeeps

-----------------------------------------------------------------------------
\* The high-water mark

\* At most one transaction accrues.
Single == \A u, v \in Slots : txn[u].op = "accrual" /\ txn[v].op = "accrual" => v = u

\* Accruals exclude one another.
LEMMA AccrualsAlone ==
  ASSUME Accruing
  PROVE  Single
BY DEF Accruing, Single, Open

\* A step that accrues nothing and commits nothing.
LEMMA AccruingKept ==
  ASSUME Accruing, UNCHANGED <<accruals, peak>>, Single',
         \A u \in Slots : Open(u)' =>
           \/ txn'[u].writes.accrual = None /\ txn'[u].writes.peak = None
           \/ Open(u) /\ txn'[u] = txn[u]
  PROVE  Accruing'
<1> SUFFICES ASSUME NEW u \in Slots, Open(u)'
             PROVE  LET w == txn'[u].writes IN
                    /\ w.accrual = None <=> w.peak = None
                    /\ txn'[u].op # "accrual" => w.accrual = None
                    /\ txn'[u].op = "accrual" => \A v \in Slots : txn'[v].op = "accrual" => v = u
                    /\ w.accrual # None =>
                         /\ w.accrual \in Accrual /\ w.accrual.at = txn'[u].at
                         /\ \A a \in accruals' : a.date # w.accrual.date
                         /\ w.peak = ratchet(peak', w.accrual.shadow).peak
                         /\ w.accrual.gain = ratchet(peak', w.accrual.shadow).gain
  BY DEF Accruing, ratchet
<1>1. txn'[u].op = "accrual" => \A v \in Slots : txn'[v].op = "accrual" => v = u
  BY DEF Single
<1>2. CASE txn'[u].writes.accrual = None /\ txn'[u].writes.peak = None
  BY <1>1, <1>2
<1>3. CASE Open(u) /\ txn'[u] = txn[u]
  <2> DEFINE w == txn[u].writes
  <2>1. /\ w.accrual = None <=> w.peak = None
        /\ txn[u].op # "accrual" => w.accrual = None
        /\ w.accrual # None =>
             /\ w.accrual \in Accrual /\ w.accrual.at = txn[u].at
             /\ \A a \in accruals : a.date # w.accrual.date
             /\ w.peak = ratchet(peak, w.accrual.shadow).peak
             /\ w.accrual.gain = ratchet(peak, w.accrual.shadow).gain
    BY <1>3 DEF Accruing
  <2> QED BY <1>1, <1>3, <2>1
<1> QED BY <1>2, <1>3

\* A transaction that works on something else.
LEMMA OthersAccrueNothing ==
  ASSUME Stored, Accruing, NEW t \in Slots, Open(t), NEW w, Write(t, w),
         w.accrual = None, w.peak = None
  PROVE  Accruing'
<1>1. /\ \A u \in Slots : u # t => txn'[u] = txn[u]
      /\ txn'[t].op = txn[t].op /\ txn'[t].writes = w
      /\ UNCHANGED <<today, clock, closes, flows, rows, snapshots, peak, accruals, charge>>
  BY WriteFrame
<1>2. \A u \in Slots : txn'[u].op = txn[u].op
  BY <1>1
<1>3. Single'
  BY <1>2, AccrualsAlone DEF Single
<1>4. \A u \in Slots : Open(u)' =>
           \/ txn'[u].writes.accrual = None /\ txn'[u].writes.peak = None
           \/ Open(u) /\ txn'[u] = txn[u]
  BY <1>1, <1>2 DEF Open
<1> QED BY <1>1, <1>3, <1>4, AccruingKept

\* An accrual works out its gain from the committed mark.
LEMMA AccrueAccrues ==
  ASSUME PerfInv, Accrued, Accruing, NEW t \in Slots, Accrue(t)
  PROVE  Accruing'
<1>1. peak \in Int
  BY DEF Accrued
<1>2. PICK w : /\ Write(t, w)
               /\ \/ w.accrual = None /\ w.peak = None
                  \/ /\ \A a \in accruals : a.date # txn[t].from
                     /\ AccrualOf(w.accrual, txn[t].from, txn[t].at, peak)
                     /\ w.peak = ratchet(peak, w.accrual.shadow).peak
  BY <1>1, AccrueWrites
<1>3. Open(t) /\ txn[t].op = "accrual"
  BY DEF Accrue, Working, Open
<1>4. CASE w.accrual = None /\ w.peak = None
  BY <1>2, <1>3, <1>4, OthersAccrueNothing DEF PerfInv
<1>5. CASE /\ \A a \in accruals : a.date # txn[t].from
           /\ AccrualOf(w.accrual, txn[t].from, txn[t].at, peak)
           /\ w.peak = ratchet(peak, w.accrual.shadow).peak
  <2>1. /\ \A u \in Slots : u # t => txn'[u] = txn[u]
        /\ txn'[t].op = txn[t].op /\ txn'[t].at = txn[t].at /\ txn'[t].writes = w
        /\ UNCHANGED <<today, clock, closes, flows, rows, snapshots, peak, accruals, charge>>
    BY <1>2, <1>3, WriteFrame DEF PerfInv
  <2>2. \A u \in Slots : txn'[u].op = txn[u].op
    BY <2>1
  <2>3. Single
    BY AccrualsAlone
  <2>4. w.peak # None /\ w.accrual # None
    <3>1. w.accrual.shadow \in Int /\ w.accrual \in Accrual
      BY <1>5 DEF AccrualOf, Accrual
    <3>2. w.peak \in Int
      BY <1>1, <1>5, <3>1 DEF ratchet
    <3> QED BY <3>1, <3>2, PerformanceAssumption
  <2>5. \A u \in Slots : u # t /\ Open(u) => txn[u].writes.accrual = None /\ txn[u].writes.peak = None
    BY <1>3, <2>3 DEF Accruing, Single
  <2> SUFFICES ASSUME NEW u \in Slots, Open(u)'
               PROVE  /\ txn'[u].writes.accrual = None <=> txn'[u].writes.peak = None
                      /\ txn'[u].op # "accrual" => txn'[u].writes.accrual = None
                      /\ txn'[u].op = "accrual" => \A v \in Slots : txn'[v].op = "accrual" => v = u
                      /\ txn'[u].writes.accrual # None =>
                           /\ txn'[u].writes.accrual \in Accrual
                           /\ txn'[u].writes.accrual.at = txn'[u].at
                           /\ \A a \in accruals : a.date # txn'[u].writes.accrual.date
                           /\ txn'[u].writes.peak = ratchet(peak, txn'[u].writes.accrual.shadow).peak
                           /\ txn'[u].writes.accrual.gain = ratchet(peak, txn'[u].writes.accrual.shadow).gain
    BY <2>1 DEF Accruing, ratchet
  <2>6. txn'[u].op = "accrual" => \A v \in Slots : txn'[v].op = "accrual" => v = u
    BY <2>2, <2>3 DEF Single
  <2>7. CASE u = t
    BY <1>3, <1>5, <2>1, <2>4, <2>6, <2>7 DEF AccrualOf
  <2>8. CASE u # t
    <3>1. Open(u) /\ txn'[u] = txn[u]
      BY <2>1, <2>8 DEF Open
    <3> QED BY <2>5, <2>6, <2>8, <3>1
  <2> QED BY <2>7, <2>8
<1> QED BY <1>2, <1>4, <1>5

\* The gains committed so far.
GainOf(S) == SumOver([a \in S |-> a.gain], S)

\* One more accrual adds its gain.
LEMMA GainsAdd ==
  ASSUME NEW S, IsFiniteSet(S), S \subseteq Accrual, NEW a \in Accrual, a \notin S
  PROVE  GainOf(S) \in Int /\ GainOf(S \cup {a}) = a.gain + GainOf(S)
<1> DEFINE R == S \cup {a}
           f == [o \in S |-> o.gain]
           g == [o \in R |-> o.gain]
<1>1. \A o \in R : o.gain \in Int
  BY DEF Accrual
<1>2. /\ \A o \in S : f[o] \in Int /\ g[o] = f[o]
      /\ \A o \in S : g[o] \in Int
      /\ g[a] \in Int /\ g[a] = a.gain
  BY <1>1
<1>3. GainOf(S) = Total(f, S) /\ GainOf(R) = Total(g, R)
  BY SumIsTotal DEF GainOf
<1> HIDE DEF f, g
<1>4. Total(f, S) \in Int
  BY <1>2, TotalInt
<1>5. Total(g, S \cup {a}) = g[a] + Total(g, S)
  BY <1>2, TotalInsert
<1>6. Total(g, S) = Total(f, S)
  BY <1>2, TotalSame
<1> QED BY <1>2, <1>3, <1>4, <1>5, <1>6

\* The accrual and the mark appear together, so the gains still add up to it.
LEMMA CommitAccrues ==
  ASSUME PerfInv, Accrued, Accruing, NEW t \in Slots, Commit(t)
  PROVE  Accrued' /\ Accruing'
<1> DEFINE w == txn[t].writes
<1>1. /\ Open(t)
      /\ accruals' = IF w.accrual = None THEN accruals ELSE accruals \cup {w.accrual}
      /\ peak' = IF w.peak = None THEN peak ELSE w.peak
      /\ txn' = [txn EXCEPT ![t] = Idle]
  BY DEF Commit
<1>2. /\ txn'[t] = Idle /\ \A u \in Slots : u # t => txn'[u] = txn[u]
  BY <1>1 DEF PerfInv, Stored
<1>3. \A u \in Slots : Open(u)' => u # t /\ Open(u) /\ txn'[u] = txn[u]
  BY <1>2 DEF Open, Idle
<1>4. Single'
  <2>1. \A u \in Slots : txn'[u].op = "accrual" => txn[u].op = "accrual"
    BY <1>2 DEF Idle
  <2> QED BY <2>1, AccrualsAlone DEF Single
<1>5. /\ w.accrual = None <=> w.peak = None
      /\ txn[t].op # "accrual" => w.accrual = None
      /\ w.accrual # None =>
           /\ w.accrual \in Accrual /\ w.accrual.at = txn[t].at
           /\ \A a \in accruals : a.date # w.accrual.date
           /\ w.peak = ratchet(peak, w.accrual.shadow).peak
           /\ w.accrual.gain = ratchet(peak, w.accrual.shadow).gain
  BY <1>1 DEF Accruing
<1>6. CASE w.accrual = None
  <2>1. UNCHANGED <<accruals, peak>>
    BY <1>1, <1>5, <1>6
  <2>2. Accrued'
    BY <2>1 DEF Accrued
  <2>3. Accruing'
    BY <1>3, <1>4, <2>1, AccruingKept
  <2> QED BY <2>2, <2>3
<1>7. CASE w.accrual # None
  <2> DEFINE b == w.accrual
  <2>1. /\ accruals' = accruals \cup {b} /\ peak' = w.peak /\ b \in Accrual /\ b.at = txn[t].at
        /\ b \notin accruals /\ w.peak = ratchet(peak, b.shadow).peak
        /\ b.gain = ratchet(peak, b.shadow).gain
    BY <1>1, <1>5, <1>7
  <2>2. 0 < b.at
    BY <1>1, <2>1 DEF PerfInv, Stamps
  <2> HIDE DEF w, b
  <2>3. /\ accruals \subseteq Accrual /\ IsFiniteSet(accruals) /\ peak \in Int
        /\ \A a \in accruals : a.shadow <= peak
        /\ \E a \in accruals : a.shadow = peak
    BY DEF Accrued
  <2>4. PICK a \in accruals : /\ a.at = 0 /\ \A o \in accruals : o # a => 0 < o.at
                              /\ GainOf(accruals) = peak - a.shadow
    BY DEF Accrued, GainOf
  <2>5. GainOf(accruals) \in Int /\ GainOf(accruals \cup {b}) = b.gain + GainOf(accruals)
    BY <2>1, <2>3, GainsAdd
  <2>6. b.shadow \in Int /\ \A o \in accruals : o.shadow \in Int
    BY <2>1, <2>3 DEF Accrual
  <2>7. \/ b.shadow > peak /\ b.gain = b.shadow - peak /\ peak' = b.shadow
        \/ b.shadow <= peak /\ b.gain = 0 /\ peak' = peak
    BY <2>1, <2>3, <2>6 DEF ratchet
  <2>8. accruals' \subseteq Accrual /\ IsFiniteSet(accruals') /\ peak' \in Int
    BY <2>1, <2>3, <2>6, <2>7, FS_AddElement
  <2>9. GainOf(accruals') = peak' - a.shadow
    <3>1. GainOf(accruals') = b.gain + GainOf(accruals)
      BY <2>1, <2>5
    <3> QED BY <2>3, <2>4, <2>5, <2>6, <2>7, <3>1
  <2>10. a \in accruals' /\ \A o \in accruals' : o # a => 0 < o.at
    BY <2>1, <2>2, <2>4
  <2>11. (\A o \in accruals' : o.shadow <= peak') /\ \E o \in accruals' : o.shadow = peak'
    BY <2>1, <2>3, <2>6, <2>7
  <2>12. Accrued'
    <3>1. SumOver([o \in accruals' |-> o.gain], accruals') = peak' - a.shadow
      BY <2>9 DEF GainOf
    <3> QED BY <2>4, <2>8, <2>10, <2>11, <3>1 DEF Accrued
  <2>13. Accruing'
    <3>1. txn[t].op = "accrual"
      BY <1>5, <1>7
    <3>2. \A u \in Slots : Open(u)' => txn'[u].op # "accrual"
      BY <1>3, <3>1, AccrualsAlone DEF Single
    <3>3. \A u \in Slots : Open(u)' => txn'[u].writes.accrual = None /\ txn'[u].writes.peak = None
      BY <1>3, <3>2 DEF Accruing
    <3> QED BY <3>2, <3>3 DEF Accruing
  <2> QED BY <2>12, <2>13
<1> QED BY <1>6, <1>7

-----------------------------------------------------------------------------
\* The specification

\* The invariant of the account.
AccountInv == PerfInv /\ Accrued /\ Accruing

\* The book is valued from the start.
LEMMA LowestPrice == Min(Prices) \in Nat
<1>1. \E x \in Prices : \A y \in Prices : x <= y
  BY Least, PerformanceAssumption
<1>2. Min(Prices) \in Prices
  BY <1>1 DEF Min
<1> QED BY <1>2, PerformanceAssumption

\* At the start nothing is published, and the mark is the opening value.
LEMMA AccountInit ==
  ASSUME PerfInit
  PROVE  AccountInv
<1> DEFINE value == OpeningCash + Shares * Min(Prices)
           c0 == [date |-> 0, price |-> Min(Prices), at |-> 0]
           c1(p) == [date |-> 1, price |-> p, at |-> 0]
           a0 == [date |-> 0, gain |-> 0, fee |-> 0, shadow |-> value, at |-> 0]
<1>1. PICK p \in Prices : closes = {c0, c1(p)}
  BY DEF PerfInit
<1>2. /\ today = 1 /\ clock = 0 /\ flows = {} /\ rows = {} /\ snapshots = {} /\ peak = value
      /\ accruals = {a0} /\ txn = [t \in Slots |-> Idle]
  BY DEF PerfInit
<1>3. Min(Prices) \in Nat /\ p \in Nat /\ OpeningCash \in Nat /\ Shares \in Nat
  BY LowestPrice, PerformanceAssumption
<1>4. value \in Nat
  <2>1. Shares * Min(Prices) \in Nat
    BY <1>3
  <2> QED BY <1>3, <2>1
<1> HIDE DEF value
<1>5. c0 \in Close /\ c0.at = 0 /\ c1(p) \in Close /\ c1(p).at = 0
  BY <1>3 DEF Close
<1>6. a0 \in Accrual /\ a0.at = 0 /\ a0.gain = 0 /\ a0.shadow = value
  BY <1>4 DEF Accrual
<1> HIDE DEF c0, c1, a0
<1>7. DOMAIN txn = Slots /\ \A t \in Slots : ~Open(t)
  BY <1>2 DEF Open, Idle
<1>8. IsFiniteSet(flows)
  BY <1>2, FS_EmptySet
<1>9. Stored
  BY <1>1, <1>2, <1>5, <1>7, <1>8 DEF Stored
<1>10. PerfInv
  BY <1>2, <1>7, <1>9 DEF PerfInv, Stamps, Kept, Pending
<1>11. GainOf(accruals) = 0
  <2>1. GainOf({}) \in Int /\ GainOf({} \cup {a0}) = a0.gain + GainOf({})
    BY <1>6, FS_EmptySet, GainsAdd
  <2>2. GainOf({}) = 0
    BY SumIsTotal, TotalEmpty DEF GainOf
  <2>3. GainOf({} \cup {a0}) = 0
    BY <1>6, <2>1, <2>2
  <2>4. {} \cup {a0} = accruals
    BY <1>2
  <2> QED BY <2>3, <2>4, Zenon
<1>12. Accrued
  <2>1. IsFiniteSet(accruals)
    BY <1>2, FS_Singleton
  <2>2. SumOver([o \in accruals |-> o.gain], accruals) = peak - a0.shadow
    BY <1>2, <1>4, <1>6, <1>11 DEF GainOf
  <2> QED BY <1>2, <1>4, <1>6, <2>1, <2>2 DEF Accrued
<1>13. Accruing
  BY <1>7 DEF Accruing
<1> QED BY <1>10, <1>12, <1>13 DEF AccountInv

\* A transaction begins with nothing accrued, and alone if it accrues.
LEMMA BeginAccrues ==
  ASSUME PerfInv, Accruing, NEW t \in Slots, NEW op \in Ops, NEW d, NEW e, Begin(t, op, d, e)
  PROVE  Accruing'
<1>1. /\ ~Open(t) /\ Unlocked(op) /\ UNCHANGED <<accruals, peak>>
      /\ txn' = [txn EXCEPT ![t] = [op |-> op, from |-> d, to |-> e, at |-> clock + 1,
                                    worked |-> FALSE, writes |-> NoWrites]]
  BY DEF Begin
<1>2. DOMAIN txn = Slots
  BY DEF PerfInv, Stored
<1>3. /\ \A u \in Slots : u # t => txn'[u] = txn[u]
      /\ txn'[t].op = op /\ txn'[t].writes = NoWrites
  BY <1>1, <1>2
<1>4. op = "accrual" => \A u \in Slots : txn[u].op # "accrual"
  BY <1>1 DEF Unlocked, Jobs
<1>5. Single'
  BY <1>3, <1>4, AccrualsAlone DEF Single
<1>6. \A u \in Slots : Open(u)' =>
        \/ txn'[u].writes.accrual = None /\ txn'[u].writes.peak = None
        \/ Open(u) /\ txn'[u] = txn[u]
  BY <1>3, NothingWritten DEF Open
<1> QED BY <1>1, <1>5, <1>6, AccruingKept

\* A transaction that raised is gone.
LEMMA RollbackAccrues ==
  ASSUME PerfInv, Accruing, NEW t \in Slots, Rollback(t)
  PROVE  Accruing'
<1>1. UNCHANGED <<accruals, peak>> /\ txn' = [txn EXCEPT ![t] = Idle]
  BY DEF Rollback
<1>2. txn'[t] = Idle /\ \A u \in Slots : u # t => txn'[u] = txn[u]
  BY <1>1 DEF PerfInv, Stored
<1>3. \A u \in Slots : txn'[u].op = "accrual" => txn[u].op = "accrual"
  BY <1>2 DEF Idle
<1>4. Single'
  BY <1>3, AccrualsAlone DEF Single
<1>5. \A u \in Slots : Open(u)' => Open(u) /\ txn'[u] = txn[u]
  BY <1>2 DEF Open, Idle
<1> QED BY <1>1, <1>4, <1>5, AccruingKept

\* A transaction begins.
LEMMA BeginStep ==
  ASSUME AccountInv, NEW t \in Slots, NEW op \in Ops, NEW d \in Nat, NEW e \in Nat,
         Begin(t, op, d, e), op = "charge" => PeriodEnd < today
  PROVE  AccountInv'
<1>1. PerfInv /\ Accrued /\ Accruing
  BY DEF AccountInv
<1>2. PerfInv' /\ Accruing'
  BY <1>1, BeginKeeps, BeginAccrues
<1>3. UNCHANGED <<accruals, peak>>
  BY DEF Begin
<1>4. Accrued'
  BY <1>1, <1>3 DEF Accrued
<1> QED BY <1>2, <1>4 DEF AccountInv

\* Every step keeps what is stored, published and accrued.
LEMMA AccountNext ==
  ASSUME AccountInv, [PerfNext]_perfVars
  PROVE  AccountInv'
<1>0. PerfInv /\ Accrued /\ Accruing /\ today \in Nat /\ closes \subseteq Close /\ Stored
  BY DEF AccountInv, PerfInv, Stored
<1>1. /\ "accrual" \in Ops /\ "returns" \in Ops /\ "correction" \in Ops /\ "charge" \in Ops
      /\ "accrual" # "charge" /\ "returns" # "charge" /\ "correction" # "charge"
  BY DEF Ops
<1>2. ASSUME UNCHANGED <<accruals, peak>> PROVE Accrued'
  BY <1>0, <1>2 DEF Accrued
<1>3. ASSUME UNCHANGED <<accruals, peak, txn>> PROVE Accruing'
  <2>1. Single'
    BY <1>0, <1>3, AccrualsAlone DEF Single
  <2>2. \A u \in Slots : Open(u)' => Open(u) /\ txn'[u] = txn[u]
    BY <1>3 DEF Open
  <2> QED BY <1>0, <1>3, <2>1, <2>2, AccruingKept
<1>4. CASE DailyValuation
  <2>1. UNCHANGED <<accruals, peak, txn>>
    BY <1>4 DEF DailyValuation
  <2> QED BY <1>0, <1>2, <1>3, <1>4, <2>1, DailyValuationKeeps DEF AccountInv
<1>5. CASE Flow
  <2>1. UNCHANGED <<accruals, peak, txn>>
    BY <1>5 DEF Flow
  <2> QED BY <1>0, <1>2, <1>3, <1>5, <2>1, FlowKeeps DEF AccountInv
<1>6. CASE NextDay
  <2>1. UNCHANGED <<accruals, peak, txn>> /\ UNCHANGED <<clock, closes, flows, rows, snapshots, txn>>
        /\ today' \in Nat /\ today' >= today
    BY <1>0, <1>6 DEF NextDay
  <2> QED BY <1>0, <1>2, <1>3, <2>1, NextDayKeeps DEF AccountInv
<1>7. ASSUME NEW t \in Slots, BeginAccrual(t) PROVE AccountInv'
  <2>1. PICK d \in 0 .. today : Begin(t, "accrual", d, d)
    BY <1>7 DEF BeginAccrual
  <2>2. d \in Nat
    BY <1>0
  <2> QED BY <1>1, <2>1, <2>2, BeginStep
<1>8. ASSUME NEW t \in Slots, BeginReturns(t) PROVE AccountInv'
  <2>1. PICK q \in Queries : Begin(t, "returns", q[1], q[2])
    BY <1>8 DEF BeginReturns
  <2>2. q[1] \in Nat /\ q[2] \in Nat
    BY PerformanceAssumption
  <2> QED BY <1>1, <2>1, <2>2, BeginStep
<1>9. ASSUME NEW t \in Slots, BeginCorrection(t) PROVE AccountInv'
  <2>1. PICK c \in closes : Begin(t, "correction", c.date, c.date)
    BY <1>9 DEF BeginCorrection
  <2>2. c.date \in Nat
    BY <1>0 DEF Close
  <2> QED BY <1>1, <2>1, <2>2, BeginStep
<1>10. ASSUME NEW t \in Slots, BeginCharge(t) PROVE AccountInv'
  <2>1. Begin(t, "charge", 0, PeriodEnd) /\ today > PeriodEnd
    BY <1>10 DEF BeginCharge
  <2>2. PeriodEnd \in Nat /\ 0 \in Nat /\ PeriodEnd < today
    BY <1>0, <2>1, PerformanceAssumption
  <2> QED BY <1>1, <2>1, <2>2, BeginStep
<1>11. ASSUME NEW t \in Slots, Returns(t) PROVE AccountInv'
  <2> DEFINE w == [NoWrites EXCEPT !.rows =
                Range(compute_twr(closes, flows, rows, txn[t].from, txn[t].to, txn[t].at)) \ rows]
  <2>1. Write(t, w) /\ Open(t)
    BY <1>11 DEF Returns, Working, Open
  <2>2. w.accrual = None /\ w.peak = None
    BY NothingWritten
  <2>3. UNCHANGED <<accruals, peak>>
    BY <2>1 DEF Write
  <2> HIDE DEF w
  <2>4. Accruing'
    BY <1>0, <2>1, <2>2, OthersAccrueNothing
  <2> QED BY <1>0, <1>2, <1>11, <2>3, <2>4, ReturnsKeeps DEF AccountInv
<1>12. ASSUME NEW t \in Slots, Correct(t) PROVE AccountInv'
  <2>1. Open(t) /\ UNCHANGED <<accruals, peak>>
    BY <1>12 DEF Correct, Working, Open, Write, Rollback
  <2>2. CASE Rollback(t)
    <3>1. Accruing'
      BY <1>0, <2>2, RollbackAccrues
    <3> QED BY <1>0, <1>2, <1>12, <2>1, <3>1, CorrectKeeps DEF AccountInv
  <2>3. CASE \E C, R : Write(t, [NoWrites EXCEPT !.closes = C, !.rows = R])
    <3>1. PICK C, R : Write(t, [NoWrites EXCEPT !.closes = C, !.rows = R])
      BY <2>3
    <3> DEFINE v == [NoWrites EXCEPT !.closes = C]
               w == [v EXCEPT !.rows = R]
    <3>2. Write(t, w)
      BY <3>1
    <3>3. DOMAIN v = {"closes", "rows", "snapshots", "accrual", "peak", "charge"}
          /\ v.accrual = None /\ v.peak = None
      BY NothingWritten
    <3> HIDE DEF v
    <3>4. w.accrual = None /\ w.peak = None
      BY <3>3
    <3> HIDE DEF w
    <3>5. Accruing'
      BY <1>0, <2>1, <3>2, <3>4, OthersAccrueNothing
    <3> QED BY <1>0, <1>2, <1>12, <2>1, <3>5, CorrectKeeps DEF AccountInv
  <2>4. Rollback(t) \/ \E C, R : Write(t, [NoWrites EXCEPT !.closes = C, !.rows = R])
    BY <1>12 DEF Correct
  <2> QED BY <2>2, <2>3, <2>4
<1>13. ASSUME NEW t \in Slots, Accrue(t) PROVE AccountInv'
  <2>1. peak \in Int
    BY <1>0 DEF Accrued
  <2>2. UNCHANGED <<accruals, peak>>
    BY <1>13 DEF Accrue, Write
  <2> QED BY <1>0, <1>2, <1>13, <2>1, <2>2, AccrueKeeps, AccrueAccrues DEF AccountInv
<1>14. ASSUME NEW t \in Slots, Bill(t) PROVE AccountInv'
  <2>1. PICK w : Write(t, w) /\ w.accrual = None /\ w.peak = None
    BY <1>0, <1>14, BillWrites
  <2>2. UNCHANGED <<accruals, peak>> /\ Open(t)
    BY <1>14, <2>1 DEF Write, Bill, Working, Open
  <2>3. Accruing'
    BY <1>0, <2>1, <2>2, OthersAccrueNothing
  <2> QED BY <1>0, <1>2, <1>14, <2>2, <2>3, BillKeeps DEF AccountInv
<1>15. ASSUME NEW t \in Slots, Commit(t) PROVE AccountInv'
  BY <1>0, <1>15, CommitKeeps, CommitAccrues DEF AccountInv
<1>16. CASE UNCHANGED perfVars
  <2>1. UNCHANGED <<accruals, peak, txn>> /\ UNCHANGED <<clock, closes, flows, rows, snapshots, txn>>
        /\ today' \in Nat /\ today' >= today
    BY <1>0, <1>16 DEF perfVars
  <2> QED BY <1>0, <1>2, <1>3, <2>1, NextDayKeeps DEF AccountInv
<1> QED BY <1>4, <1>5, <1>6, <1>7, <1>8, <1>9, <1>10, <1>11, <1>12, <1>13, <1>14, <1>15, <1>16
        DEF PerfNext

\* What is stored, published and accrued satisfies the invariant in every state.
THEOREM AccountInvariant == PerfSpec => []AccountInv
<1>1. PerfInit => AccountInv
  BY AccountInit
<1>2. AccountInv /\ [PerfNext]_perfVars => AccountInv'
  BY AccountNext
<1> QED BY <1>1, <1>2, PTL DEF PerfSpec

\* Every statement can be opened.
LEMMA EveryStatement ==
  ASSUME Kept
  PROVE  Statements = snapshots
<1>1. \A from, w : get_statement(from, w) \subseteq snapshots
  BY DEF get_statement, latest_for_period, at_watermark_for_period
<1>2. ASSUME NEW s \in snapshots PROVE s \in get_statement(s.from, s.watermark)
  <2>1. s.watermark # None
    BY PerformanceAssumption DEF Kept, SnapRow
  <2> QED BY <2>1 DEF get_statement, at_watermark_for_period
<1>3. \A s \in snapshots : s \in Statements
  BY <1>2 DEF Statements
<1>4. \A s \in Statements : s \in snapshots
  BY <1>1 DEF Statements
<1> QED BY <1>3, <1>4

\* A published statement is reproduced from the rows up to its watermark,
\* unless a transaction it overlapped has written a row since: neither a
\* restatement nor a late returns job changes what a customer was shown.
\* (snapshot_service.py publish and cross_check)
THEOREM StatementsReproduce == PerfSpec => []PublishedReproduces
<1>1. AccountInv => PublishedReproduces
  <2> SUFFICES ASSUME AccountInv PROVE PublishedReproduces
    OBVIOUS
  <2>1. Kept
    BY DEF AccountInv, PerfInv
  <2>2. Statements = snapshots
    BY <2>1, EveryStatement
  <2> QED BY <2>1, <2>2 DEF PublishedReproduces, Kept, Reproduces
<1> QED BY <1>1, AccountInvariant, PTL

\* The mark is the highest value ever accrued, and the gains charged for add up
\* to its rise from the first one, whatever accruals raised, raced or were
\* repeated.  (fee_accrual_service.py accrue_for_customer)
THEOREM GainsAddUp == PerfSpec => []GainsMeetPeak
<1>1. AccountInv => GainsMeetPeak
  <2> SUFFICES ASSUME AccountInv PROVE GainsMeetPeak
    OBVIOUS
  <2>1. /\ accruals \subseteq Accrual /\ peak \in Int
        /\ \A a \in accruals : a.shadow <= peak
        /\ \E a \in accruals : a.shadow = peak
    BY DEF AccountInv, Accrued
  <2>2. PICK a \in accruals :
       /\ a.at = 0 /\ \A o \in accruals : o # a => 0 < o.at
       /\ SumOver([o \in accruals |-> o.gain], accruals) = peak - a.shadow
    BY DEF AccountInv, Accrued
  <2> DEFINE first == CHOOSE x \in accruals : \A o \in accruals : x.at <= o.at
  <2>3. \A o \in accruals : o.at \in Nat /\ o.shadow \in Int
    BY <2>1 DEF Accrual
  <2>4. (\A o \in accruals : a.at <= o.at) /\ \A x \in accruals : (\A o \in accruals : x.at <= o.at) => x = a
    BY <2>2, <2>3
  <2>5. first = a
    BY <2>4
  <2> DEFINE S == {x.shadow : x \in accruals}
  <2>6. peak \in S /\ S \subseteq Int /\ \A y \in S : peak >= y
    BY <2>1, <2>3
  <2> HIDE DEF S
  <2>7. Max(S) = peak
    <3>1. \A x \in S : (\A y \in S : x >= y) => x = peak
      BY <2>6
    <3>2. (CHOOSE x \in S : \A y \in S : x >= y) = peak
      BY <2>6, <3>1
    <3> QED BY <3>2 DEF Max
  <2>8. accruals # {}
    BY <2>2
  <2>9. peak = Max({x.shadow : x \in accruals})
    BY <2>7 DEF S
  <2> HIDE DEF first
  <2>10. SumOver([x \in accruals |-> x.gain], accruals) = peak - first.shadow
    BY <2>2, <2>5
  <2> QED BY <2>8, <2>9, <2>10 DEF GainsMeetPeak, first
<1> QED BY <1>1, AccountInvariant, PTL
=============================================================================
