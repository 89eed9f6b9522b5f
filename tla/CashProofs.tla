----------------------------- MODULE CashProofs -----------------------------
(* Machine-checked proofs about CashPolicy, for any finite number of requests
   and sales, any amounts (positive or not), prices and caps: what is withdrawn
   was confirmed before or is the credit of a negative request, and the
   deposits of a day stay within the cap.

   The balances are sums over the customer's rows.  A step changes one row or
   only lets some grow, so the argument compares sums row by row.            *)
EXTENDS CashPolicy, Sums

-----------------------------------------------------------------------------
\* The inductive invariant

Rows == Requests \cup Sales
RequestRows == [pc : {"idle", "locked", "done", "refused"}, read : Nat, total : Int,
                day : 0 .. LastDay]
DepositRows == [state : {"none", "pending", "confirmed", "failed"}, day : 0 .. LastDay]
BuyRows == [state : {"none", "held", "working", "closed"}, filled : Nat, paid : Nat]
SaleStates == {"none", "held", "working", "pending", "confirmed", "closed"}

\* The type invariant, with its row types named.
Types ==
  /\ request \in [Requests -> RequestRows]
  /\ deposit \in [Deposits -> DepositRows]
  /\ buy \in [Buys -> BuyRows]
  /\ sale \in [Sales -> SaleStates]
  /\ withdrawn \subseteq Withdrawals
  /\ today \in 0 .. LastDay

\* The lock row has one holder.
OneHolder ==
  \A r, q \in Requests : request[r].pc = "locked" /\ request[q].pc = "locked" => r = q

\* A request reads no more than its own terms, and starts from nothing.
ReadsItsTerms ==
  \A r \in Requests : /\ request[r].read <= Len(Terms(r))
                      /\ request[r].read = 0 => request[r].total = 0

\* Nothing exists of a request that is not granted.
MadeWhenGranted ==
  /\ \A d \in Deposits : request[d].pc # "done" => deposit[d].state = "none"
  /\ \A b \in Buys : request[b].pc # "done" => buy[b].state = "none"

\* A buy fills while the broker works it, up to its quantity.
FillsWhileWorking ==
  \A b \in Buys :
    /\ buy[b].filled = 0 \/ buy[b].filled <= Quantity[b]
    /\ buy[b].state \in {"none", "held"} => buy[b].filled = 0

Control ==
  Types /\ OneHolder /\ ReadsItsTerms /\ MadeWhenGranted /\ FillsWhileWorking

\* What a withdrawal has read so far is covered now: between its queries
\* confirmed cash only grows, and no other withdrawal is posted.  The holds it
\* reads last may add the credit of orders with a negative notional.
WithdrawalCovered ==
  \A w \in Withdrawals :
    request[w].pc = "locked" =>
      /\ request[w].read = 1 => request[w].total <= Confirmed + CreditPosted - PaidOut
      /\ request[w].read = 2 => request[w].total <= Confirmed + CreditPosted + CreditHeld - PaidOut

\* What a deposit has read is still the day's total: deposits are made only
\* under the lock, and a return does not take one out of it.
DepositCounted ==
  \A d \in Deposits :
    request[d].pc = "locked" /\ request[d].read > 0 =>
      request[d].total = DepositedOn(request[d].day)

Promises ==
  WithdrawalCovered /\ DepositCounted /\ WithdrawnOnlySettled /\ DailyDepositCap

IInv == Control /\ Promises

-----------------------------------------------------------------------------
\* The policy functions

\* The sums of the model are those of Sums.
LEMMA SumIsTotal ==
  ASSUME NEW f, NEW S
  PROVE  SumOf(f, S) = Total(f, S)
BY DEF SumOf, Total

\* The rows are finitely many, and their numbers are numbers.
LEMMA RowTypes ==
  /\ IsFiniteSet(Deposits) /\ IsFiniteSet(Withdrawals) /\ IsFiniteSet(Buys) /\ IsFiniteSet(Sales)
  /\ \A x \in Rows : Amount[x] \in Int /\ In(Amount[x]) \in Nat /\ Out(Amount[x]) \in Nat
  /\ \A s \in Sales : Proceeds[s] \in Nat
  /\ \A b \in Buys : Quantity[b] \in Int
  /\ Deposits \subseteq Rows /\ Withdrawals \subseteq Rows /\ Buys \subseteq Rows /\ Sales \subseteq Rows
<1>1. \A x \in Rows : Amount[x] \in Int
  BY CashAssumption DEF Rows
<1>2. \A n \in Int : In(n) \in Nat /\ Out(n) \in Nat
  BY DEF In, Out
<1>3. Deposits \subseteq Rows /\ Withdrawals \subseteq Rows /\ Buys \subseteq Rows /\ Sales \subseteq Rows
  BY DEF Rows, Requests
<1>4. IsFiniteSet(Rows)
  BY CashAssumption DEF Rows
<1>5. IsFiniteSet(Deposits) /\ IsFiniteSet(Withdrawals) /\ IsFiniteSet(Buys) /\ IsFiniteSet(Sales)
  BY <1>3, <1>4, FS_Subset
<1> QED BY <1>1, <1>2, <1>3, <1>5, CashAssumption

\* The amounts of any rows add up to a number.
LEMMA AmountInt ==
  ASSUME NEW S \in SUBSET Rows
  PROVE  AmountOf(S) \in Int /\ AmountOf(S) = Total(Amount, S) /\ IsFiniteSet(S)
<1>1. IsFiniteSet(S)
  BY CashAssumption, FS_Subset DEF Rows
<1>2. AmountOf(S) = Total(Amount, S)
  BY SumIsTotal DEF AmountOf
<1>3. \A x \in S : Amount[x] \in Int
  BY RowTypes
<1> QED BY <1>1, <1>2, <1>3, TotalInt

TermNames == {"settled", "sales", "deposits", "commitments", "holds", "depositedToday"}

\* The queries of each kind of request.
LEMMA TermsOf ==
  /\ \A d \in Deposits : Len(Terms(d)) = 1 /\ Terms(d)[1] = "depositedToday"
  /\ \A w \in Withdrawals :
       Len(Terms(w)) = 2 /\ Terms(w)[1] = "settled" /\ Terms(w)[2] = "holds"
  /\ \A r \in Requests :
       /\ Len(Terms(r)) \in 1 .. 5
       /\ \A i \in 1 .. Len(Terms(r)) : Terms(r)[i] \in TermNames
<1>1. \A d \in Deposits : Terms(d) = <<"depositedToday">>
  BY DEF Terms
<1>2. \A w \in Withdrawals : Terms(w) = <<"settled", "holds">>
  BY CashAssumption DEF Terms
<1>3. \A b \in Buys : Terms(b) = <<"settled", "sales", "deposits", "commitments", "holds">>
  BY CashAssumption DEF Terms, InvestableTerms
<1> QED BY <1>1, <1>2, <1>3 DEF Requests, TermNames

\* Two sums whose terms differ in one row only.
LEMMA TotalChanged ==
  ASSUME NEW S, IsFiniteSet(S), NEW f, NEW g, NEW y \in S,
         \A x \in S : f[x] \in Int /\ g[x] \in Int,
         \A x \in S : x # y => g[x] = f[x]
  PROVE  Total(g, S) = Total(f, S) - f[y] + g[y]
<1>1. IsFiniteSet(S \ {y})
  BY FS_Subset
<1>2. Total(f, S) = f[y] + Total(f, S \ {y}) /\ Total(g, S) = g[y] + Total(g, S \ {y})
  BY TotalRemove
<1>3. Total(g, S \ {y}) = Total(f, S \ {y}) /\ Total(f, S \ {y}) \in Int
  BY <1>1, TotalSame, TotalInt
<1>4. f[y] \in Int /\ g[y] \in Int
  OBVIOUS
<1> QED BY <1>2, <1>3, <1>4

\* What is confirmed, taken out, added or credited is a natural number.
LEMMA SidesNat ==
  Confirmed \in Nat /\ PaidOut \in Nat /\ CreditPosted \in Nat /\ CreditHeld \in Nat
<1>1. /\ \A d \in Deposits : ConfirmedDeposits[d] \in Nat
      /\ \A s \in Sales : SaleCash[s] \in Nat /\ SaleCredit[s] \in Nat
      /\ \A w \in Withdrawals : Taken[w] \in Nat /\ Added[w] \in Nat
      /\ \A b \in Buys : BuyCredit[b] \in Nat
  BY RowTypes DEF ConfirmedDeposits, SaleCash, SaleCredit, Taken, Added, BuyCredit
<1>2. /\ Total(ConfirmedDeposits, Deposits) \in Nat
      /\ Total(SaleCash, Sales) \in Nat /\ Total(SaleCredit, Sales) \in Nat
      /\ Total(Taken, Withdrawals) \in Nat /\ Total(Added, Withdrawals) \in Nat
      /\ Total(BuyCredit, Buys) \in Nat
  BY <1>1, RowTypes, TotalNat
<1> QED BY <1>2, SumIsTotal DEF Confirmed, PaidOut, CreditPosted, CreditHeld

\* Settled cash is at most what is confirmed and what negative withdrawals
\* added, less what was taken out: no deposit counts for more than its confirmed
\* inflow.
LEMMA SettledIsConfirmed ==
  ASSUME Types
  PROVE  SettledCash \in Int /\ SettledCash <= Confirmed + CreditPosted - PaidOut
<1> DEFINE paid == [b \in Buys |-> buy[b].paid]
<1>1. Bought \in Nat
  <2>1. \A b \in Buys : paid[b] \in Nat
    BY DEF Types, BuyRows
  <2>2. Bought = Total(paid, Buys)
    BY SumIsTotal DEF Bought
  <2> HIDE DEF paid
  <2> QED BY <2>1, <2>2, RowTypes, TotalNat
<1>2. /\ SumOf(DepositCash, Deposits) \in Int
      /\ SumOf(ConfirmedDeposits, Deposits) \in Int
      /\ SumOf(DepositCash, Deposits) <= SumOf(ConfirmedDeposits, Deposits)
  <2>1. \A d \in Deposits : /\ DepositCash[d] \in Int /\ ConfirmedDeposits[d] \in Int
                            /\ DepositCash[d] <= ConfirmedDeposits[d]
    <3> SUFFICES ASSUME NEW d \in Deposits
                 PROVE  /\ DepositCash[d] \in Int /\ ConfirmedDeposits[d] \in Int
                        /\ DepositCash[d] <= ConfirmedDeposits[d]
      OBVIOUS
    <3>1. Amount[d] \in Int
      BY RowTypes
    <3> QED BY <3>1 DEF DepositCash, ConfirmedDeposits, In
  <2> QED BY <2>1, RowTypes, TotalInt, TotalAtMost, SumIsTotal
<1>3. /\ SumOf(WithdrawnCash, Withdrawals) \in Int
      /\ PaidOut = SumOf(WithdrawnCash, Withdrawals) + CreditPosted
  <2>1. \A w \in Withdrawals : /\ WithdrawnCash[w] \in Int /\ Added[w] \in Int
                               /\ Taken[w] = WithdrawnCash[w] + Added[w]
    <3> SUFFICES ASSUME NEW w \in Withdrawals
                 PROVE  /\ WithdrawnCash[w] \in Int /\ Added[w] \in Int
                        /\ Taken[w] = WithdrawnCash[w] + Added[w]
      OBVIOUS
    <3>1. Amount[w] \in Int
      BY RowTypes
    <3> QED BY <3>1 DEF WithdrawnCash, Added, Taken, In, Out
  <2>2. /\ Total(WithdrawnCash, Withdrawals) \in Int
        /\ Total(Taken, Withdrawals) = Total(WithdrawnCash, Withdrawals) + Total(Added, Withdrawals)
    BY <2>1, RowTypes, TotalInt, TotalPlus
  <2> QED BY <2>2, SumIsTotal DEF PaidOut, CreditPosted
<1>4. SumOf(SaleCash, Sales) \in Int
  <2>1. \A s \in Sales : SaleCash[s] \in Int
    BY RowTypes DEF SaleCash
  <2> QED BY <2>1, RowTypes, TotalInt, SumIsTotal
<1> QED BY <1>1, <1>2, <1>3, <1>4, SidesNat DEF SettledCash, Confirmed

\* Holds take from cash, but for the credit of negative notionals.
LEMMA HoldsTake ==
  Holds \in Int /\ -Holds <= CreditHeld
<1> DEFINE bs == [b \in Buys |-> HeldBuys[b] + BuyCredit[b]]
           ss == [s \in Sales |-> HeldSales[s] + SaleCredit[s]]
<1>1. \A b \in Buys : HeldBuys[b] \in Int /\ BuyCredit[b] \in Int /\ bs[b] \in Nat
  <2> SUFFICES ASSUME NEW b \in Buys
               PROVE  HeldBuys[b] \in Int /\ BuyCredit[b] \in Int /\ bs[b] \in Nat
    OBVIOUS
  <2>1. Amount[b] \in Int
    BY RowTypes
  <2> QED BY <2>1 DEF HeldBuys, BuyCredit, Out
<1>2. \A s \in Sales : HeldSales[s] \in Int /\ SaleCredit[s] \in Int /\ ss[s] \in Nat
  <2> SUFFICES ASSUME NEW s \in Sales
               PROVE  HeldSales[s] \in Int /\ SaleCredit[s] \in Int /\ ss[s] \in Nat
    OBVIOUS
  <2>1. Amount[s] \in Int
    BY RowTypes
  <2> QED BY <2>1 DEF HeldSales, SaleCredit, Out
<1>3. /\ \A b \in Buys : bs[b] = HeldBuys[b] + BuyCredit[b]
      /\ \A s \in Sales : ss[s] = HeldSales[s] + SaleCredit[s]
  OBVIOUS
<1> HIDE DEF bs, ss
<1>4. /\ Total(bs, Buys) = Total(HeldBuys, Buys) + Total(BuyCredit, Buys)
      /\ Total(bs, Buys) \in Nat
      /\ Total(HeldBuys, Buys) \in Int /\ Total(BuyCredit, Buys) \in Int
  BY <1>1, <1>3, RowTypes, TotalPlus, TotalNat, TotalInt
<1>5. /\ Total(ss, Sales) = Total(HeldSales, Sales) + Total(SaleCredit, Sales)
      /\ Total(ss, Sales) \in Nat
      /\ Total(HeldSales, Sales) \in Int /\ Total(SaleCredit, Sales) \in Int
  BY <1>2, <1>3, RowTypes, TotalPlus, TotalNat, TotalInt
<1> QED BY <1>4, <1>5, SumIsTotal DEF Holds, CreditHeld

\* Every query returns a number.
LEMMA QueryIsNumber ==
  ASSUME Types, NEW term \in TermNames, NEW day
  PROVE  Query(term, day) \in Int
<1>1. SettledCash \in Int /\ Holds \in Int
  BY SettledIsConfirmed, HoldsTake
<1>2. UnsettledSaleProceeds \in Int
  <2>1. SalesIn("pending") \subseteq Sales
    BY DEF SalesIn
  <2>2. IsFiniteSet(SalesIn("pending"))
    BY <2>1, RowTypes, FS_Subset
  <2>3. \A s \in SalesIn("pending") : Proceeds[s] \in Int
    BY <2>1, RowTypes
  <2> QED BY <2>2, <2>3, TotalInt, SumIsTotal DEF UnsettledSaleProceeds
<1>3. UnsettledDepositProceeds \in Int /\ DepositedOn(day) \in Int
  <2>1. /\ DepositsIn("pending") \in SUBSET Rows
        /\ {d \in Deposits : deposit[d].state # "none" /\ deposit[d].day = day} \in SUBSET Rows
    BY RowTypes DEF DepositsIn
  <2> QED BY <2>1, AmountInt DEF UnsettledDepositProceeds, DepositedOn
<1>4. OpenBuyCommitments \in Int
  <2> DEFINE left == [b \in Buys |-> IF buy[b].filled = 0 THEN Amount[b]
                        ELSE ((Quantity[b] - buy[b].filled) * buy[b].paid) \div buy[b].filled]
  <2>1. \A b \in Buys : left[b] \in Int
    <3> SUFFICES ASSUME NEW b \in Buys PROVE left[b] \in Int
      OBVIOUS
    <3>1. Amount[b] \in Int /\ Quantity[b] \in Int /\ buy[b].filled \in Nat /\ buy[b].paid \in Nat
      BY RowTypes DEF Types, BuyRows
    <3>2. \A m \in Int, n \in Nat : n # 0 => m \div n \in Int
      OBVIOUS
    <3>3. (Quantity[b] - buy[b].filled) * buy[b].paid \in Int
      BY <3>1
    <3> QED BY <3>1, <3>2, <3>3
  <2>2. BuysIn("working") \subseteq Buys
    BY DEF BuysIn
  <2>3. IsFiniteSet(BuysIn("working"))
    BY <2>2, RowTypes, FS_Subset
  <2>4. OpenBuyCommitments = Total(left, BuysIn("working"))
    BY SumIsTotal DEF OpenBuyCommitments
  <2> HIDE DEF left
  <2> QED BY <2>1, <2>2, <2>3, <2>4, TotalInt
<1> QED BY <1>1, <1>2, <1>3, <1>4 DEF Query, TermNames

-----------------------------------------------------------------------------
\* Control: the lock, the reads and the rows

\* Every action keeps the variables in their types.
LEMMA TypesKept ==
  ASSUME Types, Next
  PROVE  Types'
<1>1. \A r \in Requests : request[r] \in RequestRows
  BY DEF Types
<1>2. ASSUME NEW r \in Requests, Acquire(r) PROVE Types'
  BY <1>2 DEF Acquire, Types, RequestRows
<1>3. ASSUME NEW r \in Requests, ReadTerm(r) PROVE Types'
  <2> DEFINE q == Query(Terms(r)[request[r].read + 1], request[r].day)
  <2>1. Terms(r)[request[r].read + 1] \in TermNames
    <3>1. request[r].read \in Nat /\ request[r].read < Len(Terms(r)) /\ Len(Terms(r)) \in Nat
      BY <1>1, <1>3, TermsOf DEF ReadTerm, RequestRows
    <3>2. request[r].read + 1 \in 1 .. Len(Terms(r))
      BY <3>1
    <3> QED BY <3>2, TermsOf
  <2>2. q \in Int
    BY <2>1, QueryIsNumber
  <2>3. request' = [request EXCEPT ![r] = [pc |-> "locked", read |-> request[r].read + 1,
                                           total |-> request[r].total + q, day |-> request[r].day]]
    BY <1>3 DEF ReadTerm
  <2> HIDE DEF q
  <2>4. request' \in [Requests -> RequestRows]
    BY <1>1, <2>2, <2>3 DEF Types, RequestRows
  <2> QED BY <1>3, <2>4 DEF ReadTerm, Types
<1>4. ASSUME NEW r \in Requests, Refuse(r) PROVE Types'
  BY <1>4 DEF Refuse, Types, RequestRows
<1>5. ASSUME NEW d \in Deposits, CommitDeposit(d) PROVE Types'
  BY <1>5 DEF CommitDeposit, Granted, Types, RequestRows, DepositRows, Requests
<1>6. ASSUME NEW d \in Deposits, AchReturn(d) PROVE Types'
  BY <1>6 DEF AchReturn, Types, DepositRows
<1>7. ASSUME NEW w \in Withdrawals, CommitWithdrawal(w) PROVE Types'
  BY <1>7 DEF CommitWithdrawal, Granted, Types, RequestRows, Requests
<1>8. ASSUME NEW b \in Buys, CommitBuy(b) PROVE Types'
  BY <1>8 DEF CommitBuy, Granted, Types, RequestRows, BuyRows, Requests
<1>9. ASSUME NEW b \in Buys, NEW price \in Prices, BuyFills(b, price) PROVE Types'
  BY <1>9, CashAssumption DEF BuyFills, Types, BuyRows
<1>10. ASSUME NEW s \in Sales, PlaceSell(s) \/ SellFills(s) PROVE Types'
  BY <1>10 DEF PlaceSell, SellFills, Types, SaleStates
<1>11. ASSUME NEW o \in Buys \cup Sales, Submitted(o) \/ Ended(o) PROVE Types'
  BY <1>11 DEF Submitted, Ended, Types, SaleStates, BuyRows
<1>12. ASSUME NEW x \in Deposits \cup Sales, Confirm(x) PROVE Types'
  BY <1>12 DEF Confirm, Types, SaleStates, DepositRows
<1>13. CASE NextDay
  BY <1>13, CashAssumption DEF NextDay, Types
<1> QED
  BY <1>2, <1>3, <1>4, <1>5, <1>6, <1>7, <1>8, <1>9, <1>10, <1>11, <1>12, <1>13 DEF Next

\* Every action keeps the lock exclusive, the reads in order, a row absent until
\* its request is granted and the fills within the quantity.
LEMMA ControlKept ==
  ASSUME Control, Next
  PROVE  Control'
<1>1. \A r \in Requests : Len(Terms(r)) \in Nat \ {0}
  <2>1. \A r \in Requests : Len(Terms(r)) \in 1 .. 5
    BY TermsOf
  <2>2. \A n \in 1 .. 5 : n \in Nat \ {0}
    OBVIOUS
  <2> QED BY <2>1, <2>2
<1> USE DEF Control
<1>0. Types'
  BY TypesKept
<1>a. \A b \in Buys : Quantity[b] \in Int
  BY RowTypes
<1>2. ASSUME NEW r \in Requests, Acquire(r) PROVE Control'
  <2>1. OneHolder'
    BY <1>2 DEF Acquire, CashLockFree, Types, OneHolder
  <2>2. ReadsItsTerms'
    BY <1>1, <1>2 DEF Acquire, Types, ReadsItsTerms
  <2>3. MadeWhenGranted'
    BY <1>2 DEF Acquire, Types, MadeWhenGranted, Requests
  <2> QED BY <1>0, <1>2, <2>1, <2>2, <2>3 DEF Acquire, FillsWhileWorking
<1>3. ASSUME NEW r \in Requests, ReadTerm(r) PROVE Control'
  <2>1. \A q \in Requests : /\ request'[q].pc = request[q].pc
                            /\ q # r => request'[q] = request[q]
    BY <1>3 DEF ReadTerm, Types, RequestRows
  <2>2. request'[r].read = request[r].read + 1
    BY <1>3 DEF ReadTerm, Types, RequestRows
  <2>3. OneHolder'
    BY <2>1 DEF OneHolder
  <2>4. ReadsItsTerms'
    <3>1. request[r].read \in Nat /\ request[r].read < Len(Terms(r))
      BY <1>3 DEF ReadTerm, Types, RequestRows
    <3>2. /\ request'[r].read <= Len(Terms(r))
          /\ request'[r].read # 0
      BY <1>1, <2>2, <3>1
    <3> QED BY <2>1, <3>2 DEF ReadsItsTerms, Terms
  <2>5. MadeWhenGranted'
    BY <1>3, <2>1 DEF ReadTerm, MadeWhenGranted, Requests
  <2> QED BY <1>0, <1>3, <2>3, <2>4, <2>5 DEF ReadTerm, FillsWhileWorking
<1>4. ASSUME NEW r \in Requests, Refuse(r) PROVE Control'
  <2>1. OneHolder'
    BY <1>4 DEF Refuse, Types, OneHolder
  <2>2. ReadsItsTerms'
    BY <1>4 DEF Refuse, Types, RequestRows, ReadsItsTerms
  <2>3. MadeWhenGranted'
    BY <1>4 DEF Refuse, AllRead, Types, RequestRows, MadeWhenGranted, Requests
  <2> QED BY <1>0, <1>4, <2>1, <2>2, <2>3 DEF Refuse, FillsWhileWorking
<1>5. ASSUME NEW r \in Requests, Granted(r) PROVE OneHolder' /\ ReadsItsTerms'
  <2>1. OneHolder'
    BY <1>5 DEF Granted, Types, OneHolder
  <2>2. ReadsItsTerms'
    BY <1>5 DEF Granted, Types, RequestRows, ReadsItsTerms
  <2> QED BY <2>1, <2>2
<1>6. ASSUME NEW d \in Deposits, CommitDeposit(d) PROVE Control'
  <2>1. OneHolder' /\ ReadsItsTerms'
    BY <1>5, <1>6 DEF CommitDeposit, Requests
  <2>2. MadeWhenGranted'
    BY <1>6 DEF CommitDeposit, Granted, AllRead, Types, RequestRows, MadeWhenGranted, Requests
  <2> QED BY <1>0, <1>6, <2>1, <2>2 DEF CommitDeposit, FillsWhileWorking
<1>7. ASSUME NEW w \in Withdrawals, CommitWithdrawal(w) PROVE Control'
  <2>1. OneHolder' /\ ReadsItsTerms'
    BY <1>5, <1>7 DEF CommitWithdrawal, Requests
  <2>2. MadeWhenGranted'
    BY <1>7 DEF CommitWithdrawal, Granted, AllRead, Types, RequestRows, MadeWhenGranted, Requests
  <2> QED BY <1>0, <1>7, <2>1, <2>2 DEF CommitWithdrawal, FillsWhileWorking
<1>8. ASSUME NEW b \in Buys, CommitBuy(b) PROVE Control'
  <2>1. OneHolder' /\ ReadsItsTerms'
    BY <1>5, <1>8 DEF CommitBuy, Requests
  <2>2. MadeWhenGranted'
    BY <1>8 DEF CommitBuy, Granted, AllRead, Types, RequestRows, BuyRows, MadeWhenGranted, Requests
  <2>3. FillsWhileWorking'
    BY <1>8 DEF CommitBuy, Granted, AllRead, Types, RequestRows, BuyRows, MadeWhenGranted,
                FillsWhileWorking, Requests
  <2> QED BY <1>0, <2>1, <2>2, <2>3
<1>9. ASSUME request' = request PROVE OneHolder' /\ ReadsItsTerms'
  BY <1>9 DEF OneHolder, ReadsItsTerms, Terms
<1>10. ASSUME NEW d \in Deposits, AchReturn(d) PROVE Control'
  <2>1. MadeWhenGranted'
    BY <1>10 DEF AchReturn, Types, DepositRows, MadeWhenGranted
  <2> QED BY <1>0, <1>9, <1>10, <2>1 DEF AchReturn, FillsWhileWorking
<1>11. ASSUME NEW b \in Buys, NEW price \in Prices, BuyFills(b, price) PROVE Control'
  <2>1. MadeWhenGranted'
    BY <1>11 DEF BuyFills, Types, BuyRows, MadeWhenGranted
  <2>2. FillsWhileWorking'
    BY <1>11, <1>a DEF BuyFills, Types, BuyRows, FillsWhileWorking
  <2> QED BY <1>0, <1>9, <1>11, <2>1, <2>2 DEF BuyFills
<1>12. ASSUME NEW s \in Sales, PlaceSell(s) \/ SellFills(s) PROVE Control'
  BY <1>0, <1>9, <1>12 DEF PlaceSell, SellFills, MadeWhenGranted, FillsWhileWorking
<1>13. ASSUME NEW o \in Buys \cup Sales, Submitted(o) \/ Ended(o) PROVE Control'
  <2>1. request' = request /\ deposit' = deposit
    BY <1>13 DEF Submitted, Ended
  <2>2. \A b \in Buys : /\ buy'[b].filled = buy[b].filled
                        /\ buy'[b] = buy[b] \/ buy[b].state \in {"held", "working"}
                        /\ \/ buy'[b].state \in {buy[b].state, "closed"}
                           \/ buy[b].state = "held" /\ buy'[b].state = "working"
    BY <1>13 DEF Submitted, Ended, Types, BuyRows
  <2>3. MadeWhenGranted'
    BY <2>1, <2>2 DEF MadeWhenGranted
  <2>4. FillsWhileWorking'
    BY <1>a, <2>2 DEF FillsWhileWorking
  <2> QED BY <1>0, <1>9, <2>1, <2>3, <2>4
<1>14. ASSUME NEW x \in Deposits \cup Sales, Confirm(x) PROVE Control'
  <2>1. MadeWhenGranted'
    BY <1>14 DEF Confirm, Types, DepositRows, MadeWhenGranted
  <2> QED BY <1>0, <1>9, <1>14, <2>1 DEF Confirm, FillsWhileWorking
<1>15. CASE NextDay
  BY <1>0, <1>9, <1>15 DEF NextDay, MadeWhenGranted, FillsWhileWorking
<1> QED
  BY <1>2, <1>3, <1>4, <1>6, <1>7, <1>8, <1>10, <1>11, <1>12, <1>13, <1>14, <1>15 DEF Next

-----------------------------------------------------------------------------
\* Promises: what has been read stays covered

\* A step that takes no confirmed row away leaves at least the cash that was
\* there, and one that takes no order away at least its credit.
LEMMA SidesGrow ==
  ASSUME \A d \in Deposits : deposit[d].state = "confirmed" => deposit'[d].state = "confirmed",
         \A s \in Sales : sale[s] = "confirmed" => sale'[s] = "confirmed",
         \A b \in Buys : buy[b].state # "none" => buy'[b].state # "none",
         \A s \in Sales : sale[s] # "none" => sale'[s] # "none"
  PROVE  /\ Confirmed' \in Nat /\ CreditHeld' \in Nat
         /\ Confirmed <= Confirmed' /\ CreditHeld <= CreditHeld'
<1>1. \A d \in Deposits : /\ ConfirmedDeposits[d] \in Nat /\ ConfirmedDeposits'[d] \in Nat
                          /\ ConfirmedDeposits[d] <= ConfirmedDeposits'[d]
  BY RowTypes DEF ConfirmedDeposits
<1>2. \A s \in Sales : /\ SaleCash[s] \in Nat /\ SaleCash'[s] \in Nat
                       /\ SaleCash[s] <= SaleCash'[s]
                       /\ SaleCredit[s] \in Nat /\ SaleCredit'[s] \in Nat
                       /\ SaleCredit[s] <= SaleCredit'[s]
  BY RowTypes DEF SaleCash, SaleCredit
<1>3. \A b \in Buys : /\ BuyCredit[b] \in Nat /\ BuyCredit'[b] \in Nat
                      /\ BuyCredit[b] <= BuyCredit'[b]
  BY RowTypes DEF BuyCredit
<1>4. /\ Total(ConfirmedDeposits, Deposits) <= Total(ConfirmedDeposits', Deposits)
      /\ Total(ConfirmedDeposits, Deposits) \in Nat /\ Total(ConfirmedDeposits', Deposits) \in Nat
  BY <1>1, RowTypes, TotalAtMost, TotalNat
<1>5. /\ Total(SaleCash, Sales) <= Total(SaleCash', Sales)
      /\ Total(SaleCash, Sales) \in Nat /\ Total(SaleCash', Sales) \in Nat
  BY <1>2, RowTypes, TotalAtMost, TotalNat
<1>6. /\ Total(SaleCredit, Sales) <= Total(SaleCredit', Sales)
      /\ Total(SaleCredit, Sales) \in Nat /\ Total(SaleCredit', Sales) \in Nat
  BY <1>2, RowTypes, TotalAtMost, TotalNat
<1>7. /\ Total(BuyCredit, Buys) <= Total(BuyCredit', Buys)
      /\ Total(BuyCredit, Buys) \in Nat /\ Total(BuyCredit', Buys) \in Nat
  BY <1>3, RowTypes, TotalAtMost, TotalNat
<1>8. /\ Confirmed = Total(ConfirmedDeposits, Deposits) + Total(SaleCash, Sales)
      /\ Confirmed' = Total(ConfirmedDeposits', Deposits) + Total(SaleCash', Sales)
      /\ CreditHeld = Total(BuyCredit, Buys) + Total(SaleCredit, Sales)
      /\ CreditHeld' = Total(BuyCredit', Buys) + Total(SaleCredit', Sales)
  BY SumIsTotal DEF Confirmed, CreditHeld
<1> QED BY <1>4, <1>5, <1>6, <1>7, <1>8

\* Nothing is taken out or added but by a withdrawal.
LEMMA NothingPosted ==
  ASSUME withdrawn' = withdrawn
  PROVE  PaidOut' = PaidOut /\ CreditPosted' = CreditPosted
BY DEF PaidOut, CreditPosted, Taken, Added

\* So without a withdrawal what was taken out stays covered.
LEMMA StillCovered ==
  ASSUME IInv, withdrawn' = withdrawn,
         \A d \in Deposits : deposit[d].state = "confirmed" => deposit'[d].state = "confirmed",
         \A s \in Sales : sale[s] = "confirmed" => sale'[s] = "confirmed",
         \A b \in Buys : buy[b].state # "none" => buy'[b].state # "none",
         \A s \in Sales : sale[s] # "none" => sale'[s] # "none"
  PROVE  WithdrawnOnlySettled'
<1>1. /\ Confirmed' \in Nat /\ CreditHeld' \in Nat
      /\ Confirmed <= Confirmed' /\ CreditHeld <= CreditHeld'
  BY SidesGrow
<1>2. /\ PaidOut' = PaidOut /\ CreditPosted' = CreditPosted
      /\ Confirmed \in Nat /\ PaidOut \in Nat /\ CreditPosted \in Nat /\ CreditHeld \in Nat
  BY NothingPosted, SidesNat
<1>3. PaidOut <= Confirmed + CreditPosted + CreditHeld
  BY DEF IInv, Promises, WithdrawnOnlySettled
<1>4. \A p, c, k, h, c2, h2 \in Nat :
         p <= c + k + h /\ c <= c2 /\ h <= h2 => p <= c2 + k + h2
  OBVIOUS
<1>5. PaidOut <= Confirmed' + CreditPosted + CreditHeld'
  BY <1>1, <1>2, <1>3, <1>4
<1> QED BY <1>2, <1>5 DEF WithdrawnOnlySettled

\* A step that makes no deposit leaves the total of every day as it was.
LEMMA DaysUnchanged ==
  ASSUME \A d \in Deposits : /\ (deposit'[d].state # "none") <=> (deposit[d].state # "none")
                             /\ deposit'[d].day = deposit[d].day
  PROVE  \A day : DepositedOn(day)' = DepositedOn(day)
<1> SUFFICES ASSUME NEW day PROVE DepositedOn(day)' = DepositedOn(day)
  OBVIOUS
<1>1. {d \in Deposits : deposit'[d].state # "none" /\ deposit'[d].day = day}
        = {d \in Deposits : deposit[d].state # "none" /\ deposit[d].day = day}
  OBVIOUS
<1> QED BY <1>1 DEF DepositedOn

\* The steps outside the lock: they confirm, fail, place a sell, submit, fill or
\* end, and so keep every promise made to the request that holds it.
LEMMA PromisesOutsideLock ==
  ASSUME IInv, request' = request, withdrawn' = withdrawn,
         \A d \in Deposits : deposit[d].state = "confirmed" => deposit'[d].state = "confirmed",
         \A s \in Sales : sale[s] = "confirmed" => sale'[s] = "confirmed",
         \A b \in Buys : buy[b].state # "none" => buy'[b].state # "none",
         \A s \in Sales : sale[s] # "none" => sale'[s] # "none",
         \A d \in Deposits : /\ (deposit'[d].state # "none") <=> (deposit[d].state # "none")
                             /\ deposit'[d].day = deposit[d].day
  PROVE  Promises'
<1>1. /\ Confirmed' \in Nat /\ CreditHeld' \in Nat
      /\ Confirmed <= Confirmed' /\ CreditHeld <= CreditHeld'
  BY SidesGrow
<1>2. \A day : DepositedOn(day)' = DepositedOn(day)
  BY DaysUnchanged
<1>3. /\ PaidOut' = PaidOut /\ CreditPosted' = CreditPosted
      /\ Confirmed \in Nat /\ PaidOut \in Nat /\ CreditPosted \in Nat /\ CreditHeld \in Nat
  BY NothingPosted, SidesNat
<1>4. WithdrawnOnlySettled'
  BY StillCovered
<1>5. DailyDepositCap'
  BY <1>2 DEF IInv, Promises, DailyDepositCap
<1>6. DepositCounted'
  BY <1>2 DEF IInv, Promises, DepositCounted
<1>7. WithdrawalCovered'
  <2> SUFFICES ASSUME NEW w \in Withdrawals, request[w].pc = "locked"
               PROVE  /\ request[w].read = 1 => request[w].total <= Confirmed' + CreditPosted' - PaidOut'
                      /\ request[w].read = 2 =>
                           request[w].total <= Confirmed' + CreditPosted' + CreditHeld' - PaidOut'
    BY DEF WithdrawalCovered
  <2>1. request[w].total \in Int
    BY DEF IInv, Control, Types, RequestRows, Requests
  <2>2. /\ request[w].read = 1 => request[w].total <= Confirmed + CreditPosted - PaidOut
        /\ request[w].read = 2 =>
             request[w].total <= Confirmed + CreditPosted + CreditHeld - PaidOut
    BY DEF IInv, Promises, WithdrawalCovered
  <2> QED BY <1>1, <1>3, <2>1, <2>2
<1> QED BY <1>4, <1>5, <1>6, <1>7 DEF Promises

\* A step that leaves the rows alone leaves every side as it was.
LEMMA SidesUnchanged ==
  ASSUME UNCHANGED <<deposit, buy, sale, withdrawn>>
  PROVE  /\ Confirmed' = Confirmed /\ CreditHeld' = CreditHeld
         /\ PaidOut' = PaidOut /\ CreditPosted' = CreditPosted
         /\ \A day : DepositedOn(day)' = DepositedOn(day)
BY DEF Confirmed, CreditHeld, PaidOut, CreditPosted, ConfirmedDeposits, SaleCash, BuyCredit,
       SaleCredit, Taken, Added, DepositedOn

\* A request that takes the lock has read nothing yet.
LEMMA PromisesAcquire ==
  ASSUME IInv, NEW r \in Requests, Acquire(r)
  PROVE  Promises'
<1> USE DEF IInv, Promises
<1>1. \A q \in Requests : /\ q # r => request'[q] = request[q]
                          /\ request'[r].read = 0
  BY DEF Acquire, Control, Types
<1>2. /\ Confirmed' = Confirmed /\ CreditHeld' = CreditHeld
      /\ PaidOut' = PaidOut /\ CreditPosted' = CreditPosted
      /\ \A day : DepositedOn(day)' = DepositedOn(day)
  BY SidesUnchanged DEF Acquire
<1>3. WithdrawnOnlySettled' /\ DailyDepositCap'
  BY <1>2 DEF WithdrawnOnlySettled, DailyDepositCap
<1>4. WithdrawalCovered'
  BY <1>1, <1>2 DEF WithdrawalCovered, Requests
<1>5. DepositCounted'
  BY <1>1, <1>2 DEF DepositCounted, Requests
<1> QED BY <1>3, <1>4, <1>5

\* A query: the first term of a withdrawal is settled cash, its second can only
\* lower what was read; the one term of a deposit is the total of its day.
LEMMA PromisesRead ==
  ASSUME IInv, NEW r \in Requests, ReadTerm(r)
  PROVE  Promises'
<1> USE DEF IInv, Promises
<1> DEFINE i == request[r].read + 1
           q == Query(Terms(r)[i], request[r].day)
<1>1. /\ \A o \in Requests : o # r => request'[o] = request[o]
      /\ request'[r].read = i /\ request'[r].total = request[r].total + q
      /\ request'[r].day = request[r].day
  BY DEF ReadTerm, Control, Types
<1>2. /\ Confirmed' = Confirmed /\ CreditHeld' = CreditHeld
      /\ PaidOut' = PaidOut /\ CreditPosted' = CreditPosted
      /\ \A day : DepositedOn(day)' = DepositedOn(day)
  BY SidesUnchanged DEF ReadTerm
<1>3. WithdrawnOnlySettled' /\ DailyDepositCap'
  BY <1>2 DEF WithdrawnOnlySettled, DailyDepositCap
<1>4. /\ request[r].pc = "locked" /\ request[r].read \in Nat /\ request[r].read < Len(Terms(r))
      /\ request[r].total \in Int
      /\ request[r].read = 0 => request[r].total = 0
  BY DEF ReadTerm, Control, Types, RequestRows, ReadsItsTerms
<1>5. WithdrawalCovered'
  <2>1. SUFFICES ASSUME r \in Withdrawals
                 PROVE  /\ request'[r].read = 1 =>
                             request'[r].total <= Confirmed + CreditPosted - PaidOut
                        /\ request'[r].read = 2 =>
                             request'[r].total <= Confirmed + CreditPosted + CreditHeld - PaidOut
    BY <1>1, <1>2 DEF WithdrawalCovered, Requests
  <2>2. /\ SettledCash <= Confirmed + CreditPosted - PaidOut
        /\ SettledCash \in Int /\ Holds \in Int /\ -Holds <= CreditHeld
        /\ Confirmed \in Nat /\ PaidOut \in Nat /\ CreditPosted \in Nat /\ CreditHeld \in Nat
    BY SettledIsConfirmed, HoldsTake, SidesNat DEF Control
  <2>3. Len(Terms(r)) = 2 /\ Terms(r)[1] = "settled" /\ Terms(r)[2] = "holds"
    BY <2>1, TermsOf
  <2>4. CASE request[r].read = 0
    <3>1. q = SettledCash
      BY <2>3, <2>4 DEF Query
    <3> HIDE DEF q
    <3> QED BY <1>1, <1>4, <2>2, <2>4, <3>1
  <2>5. CASE request[r].read = 1
    <3>1. q = -Holds
      BY <2>3, <2>5 DEF Query
    <3>2. request[r].total <= Confirmed + CreditPosted - PaidOut
      BY <1>4, <2>1, <2>5 DEF WithdrawalCovered
    <3> HIDE DEF q
    <3> QED BY <1>1, <1>4, <2>2, <2>5, <3>1, <3>2
  <2> QED BY <1>4, <2>3, <2>4, <2>5
<1>6. DepositCounted'
  <2>1. SUFFICES ASSUME r \in Deposits
                 PROVE  request'[r].total = DepositedOn(request[r].day)
    BY <1>1, <1>2 DEF DepositCounted, Requests
  <2>2. Len(Terms(r)) = 1 /\ Terms(r)[1] = "depositedToday"
    BY <2>1, TermsOf
  <2>3. request[r].read = 0 /\ request[r].total = 0
    BY <1>4, <2>2
  <2>4. q = DepositedOn(request[r].day)
    BY <2>2, <2>3 DEF Query
  <2>5. DepositedOn(request[r].day) \in Int
    <3>1. "depositedToday" \in TermNames
      BY DEF TermNames
    <3>2. Query("depositedToday", request[r].day) \in Int
      BY <3>1, QueryIsNumber DEF Control
    <3> QED BY <3>2 DEF Query
  <2> HIDE DEF q
  <2> QED BY <1>1, <2>3, <2>4, <2>5
<1> QED BY <1>3, <1>5, <1>6

\* Once a request is granted or refused nobody holds the lock, and so nobody
\* relies on what was read.
LEMMA LockReleased ==
  ASSUME IInv, NEW r \in Requests, request[r].pc = "locked",
         NEW pc \in {"done", "refused"}, request' = [request EXCEPT ![r].pc = pc]
  PROVE  /\ \A q \in Requests : request'[q].pc # "locked"
         /\ WithdrawalCovered' /\ DepositCounted'
<1>1. \A q \in Requests : request'[q].pc # "locked"
  BY DEF IInv, Control, OneHolder, Types, RequestRows
<1> QED BY <1>1 DEF WithdrawalCovered, DepositCounted, Requests

\* A refusal changes no cash.
LEMMA PromisesRefuse ==
  ASSUME IInv, NEW r \in Requests, Refuse(r)
  PROVE  Promises'
<1>1. WithdrawalCovered' /\ DepositCounted'
  BY LockReleased DEF Refuse, AllRead
<1>2. WithdrawnOnlySettled' /\ DailyDepositCap'
  BY SidesUnchanged DEF IInv, Promises, Refuse, WithdrawnOnlySettled, DailyDepositCap
<1> QED BY <1>1, <1>2 DEF Promises

\* A deposit that is granted still fits under the cap of its day.
LEMMA PromisesDeposit ==
  ASSUME IInv, NEW d \in Deposits, CommitDeposit(d)
  PROVE  Promises'
<1> USE DEF IInv, Promises
<1>0. d \in Requests /\ d \in Rows
  BY DEF Requests, Rows
<1>1. WithdrawalCovered' /\ DepositCounted'
  BY <1>0, LockReleased DEF CommitDeposit, Granted, AllRead
<1>2. /\ request[d].pc = "locked" /\ request[d].read = 1
      /\ request[d].total + Amount[d] <= CapPerDay
  BY TermsOf DEF CommitDeposit, Granted, AllRead, Allowed
<1>3. request[d].total = DepositedOn(request[d].day)
  BY <1>2 DEF DepositCounted
<1>4. /\ \A e \in Deposits : e # d => deposit'[e] = deposit[e]
      /\ deposit[d].state = "none"
      /\ deposit'[d].state = "pending" /\ deposit'[d].day = request[d].day
  BY <1>2 DEF CommitDeposit, Control, Types, MadeWhenGranted
<1>5. WithdrawnOnlySettled'
  <2>1. /\ \A e \in Deposits : deposit[e].state = "confirmed" => deposit'[e].state = "confirmed"
        /\ buy' = buy /\ sale' = sale /\ withdrawn' = withdrawn
    BY <1>4 DEF CommitDeposit
  <2> QED BY <2>1, StillCovered
<1>6. DailyDepositCap'
  <2> SUFFICES ASSUME NEW day \in 0 .. LastDay
               PROVE  DepositedOn(day)' <= CapPerDay
    BY DEF DailyDepositCap
  <2> DEFINE S == {e \in Deposits : deposit[e].state # "none" /\ deposit[e].day = day}
             R == {e \in Deposits : deposit'[e].state # "none" /\ deposit'[e].day = day}
  <2>1. DepositedOn(day) = AmountOf(S) /\ DepositedOn(day)' = AmountOf(R)
    BY DEF DepositedOn
  <2>2. AmountOf(S) <= CapPerDay
    BY <2>1 DEF DailyDepositCap
  <2>3. S \in SUBSET Rows /\ d \notin S
    BY <1>4, RowTypes
  <2>4. CASE request[d].day = day
    <3>1. R = S \cup {d}
      BY <1>4, <2>4
    <3>2. AmountOf(S) + Amount[d] <= CapPerDay
      BY <1>2, <1>3, <2>1, <2>4
    <3>3. AmountOf(R) = Total(Amount, R)
      BY SumIsTotal DEF AmountOf
    <3> HIDE DEF S, R
    <3>4. AmountOf(S) \in Int /\ AmountOf(S) = Total(Amount, S) /\ IsFiniteSet(S)
      BY <2>3, AmountInt
    <3>5. Amount[d] \in Int /\ \A e \in S : Amount[e] \in Int
      BY <1>0, <2>3, RowTypes
    <3>6. Total(Amount, S \cup {d}) = Amount[d] + Total(Amount, S)
      BY <2>3, <3>4, <3>5, TotalInsert
    <3> QED BY <2>1, <3>1, <3>2, <3>3, <3>4, <3>5, <3>6
  <2>5. CASE request[d].day # day
    <3>1. R = S
      BY <1>4, <2>5
    <3> QED BY <2>1, <2>2, <3>1
  <2> QED BY <2>4, <2>5
<1> QED BY <1>1, <1>5, <1>6

\* A withdrawal that is granted is covered by what is confirmed.
LEMMA PromisesWithdrawal ==
  ASSUME IInv, NEW w \in Withdrawals, CommitWithdrawal(w)
  PROVE  Promises'
<1> USE DEF IInv, Promises
<1>0. w \in Requests /\ w \in Rows /\ w \notin Deposits
  BY CashAssumption DEF Requests, Rows
<1>1. WithdrawalCovered' /\ DepositCounted'
  BY <1>0, LockReleased DEF CommitWithdrawal, Granted, AllRead
<1>2. request[w].pc = "locked" /\ request[w].read = 2 /\ Amount[w] <= request[w].total
  BY <1>0, TermsOf DEF CommitWithdrawal, Granted, AllRead, Allowed
<1>3. /\ request[w].total <= Confirmed + CreditPosted + CreditHeld - PaidOut
      /\ request[w].total \in Int
  BY <1>0, <1>2 DEF WithdrawalCovered, Control, Types, RequestRows
<1>4. withdrawn' = withdrawn \cup {w} /\ UNCHANGED <<deposit, buy, sale>>
  BY DEF CommitWithdrawal
<1>5. \A x \in Withdrawals : /\ Taken[x] \in Nat /\ Taken'[x] \in Nat
                             /\ Added[x] \in Nat /\ Added'[x] \in Nat
                             /\ Added[x] <= Added'[x]
                             /\ x # w => Taken'[x] = Taken[x]
  BY <1>4, RowTypes DEF Taken, Added
<1>6. Taken'[w] = In(Amount[w]) /\ Amount[w] \in Int /\ w \in Withdrawals
  BY <1>0, <1>4, RowTypes DEF Taken
<1>7. Total(Taken', Withdrawals) = Total(Taken, Withdrawals) - Taken[w] + Taken'[w]
  BY <1>5, RowTypes, TotalChanged
<1>8. Total(Added, Withdrawals) <= Total(Added', Withdrawals) /\ Total(Added', Withdrawals) \in Nat
  BY <1>5, RowTypes, TotalAtMost, TotalNat
<1>9. WithdrawnOnlySettled'
  <2>1. /\ PaidOut = Total(Taken, Withdrawals) /\ PaidOut' = Total(Taken', Withdrawals)
        /\ CreditPosted = Total(Added, Withdrawals)
        /\ CreditPosted' = Total(Added', Withdrawals)
    BY SumIsTotal DEF PaidOut, CreditPosted
  <2>2. Confirmed' = Confirmed /\ CreditHeld' = CreditHeld
    BY <1>4 DEF Confirmed, CreditHeld, ConfirmedDeposits, SaleCash, BuyCredit, SaleCredit
  <2>3. Taken[w] \in Nat
    BY <1>5
  <2>4. PaidOut' = PaidOut - Taken[w] + In(Amount[w]) /\ CreditPosted <= CreditPosted'
        /\ CreditPosted' \in Nat
    BY <1>6, <1>7, <1>8, <2>1
  <2>5. CASE Amount[w] > 0
    <3>1. In(Amount[w]) = Amount[w]
      BY <2>5 DEF In
    <3>2. PaidOut' <= Confirmed + CreditPosted' + CreditHeld
      BY <1>2, <1>3, <1>6, <2>3, <2>4, <3>1, SidesNat
    <3> QED BY <2>2, <3>2 DEF WithdrawnOnlySettled
  <2>6. CASE ~(Amount[w] > 0)
    <3>1. In(Amount[w]) = 0
      BY <2>6 DEF In
    <3>2. PaidOut <= Confirmed + CreditPosted + CreditHeld
      BY DEF WithdrawnOnlySettled
    <3>3. PaidOut' <= Confirmed + CreditPosted' + CreditHeld
      BY <2>3, <2>4, <3>1, <3>2, SidesNat
    <3> QED BY <2>2, <3>3 DEF WithdrawnOnlySettled
  <2> QED BY <2>5, <2>6
<1>10. DailyDepositCap'
  BY DEF CommitWithdrawal, DailyDepositCap, DepositedOn
<1> QED BY <1>1, <1>9, <1>10

\* Every action keeps what was promised.
LEMMA PromisesKept ==
  ASSUME IInv, Next
  PROVE  Promises'
<1>1. ASSUME NEW b \in Buys, CommitBuy(b) PROVE Promises'
  <2>1. WithdrawalCovered' /\ DepositCounted'
    BY <1>1, LockReleased DEF CommitBuy, Granted, AllRead, Requests
  <2>2. /\ \A c \in Buys : buy[c].state # "none" => buy'[c].state # "none"
        /\ deposit' = deposit /\ sale' = sale /\ withdrawn' = withdrawn
    BY <1>1 DEF CommitBuy, IInv, Control, Types, BuyRows
  <2>5. WithdrawnOnlySettled'
    BY <2>2, StillCovered
  <2>6. DailyDepositCap'
    BY <2>2 DEF IInv, Promises, DailyDepositCap, DepositedOn
  <2> QED BY <2>1, <2>5, <2>6 DEF Promises
<1>2. ASSUME NEW d \in Deposits, AchReturn(d) PROVE Promises'
  BY <1>2, PromisesOutsideLock DEF AchReturn, IInv, Control, Types, DepositRows
<1>3. ASSUME NEW b \in Buys, NEW price \in Prices, BuyFills(b, price) PROVE Promises'
  BY <1>3, PromisesOutsideLock DEF BuyFills, IInv, Control, Types, BuyRows
<1>4. ASSUME NEW s \in Sales, PlaceSell(s) \/ SellFills(s) PROVE Promises'
  BY <1>4, PromisesOutsideLock DEF PlaceSell, SellFills, IInv, Control, Types
<1>5. ASSUME NEW o \in Buys \cup Sales, Submitted(o) \/ Ended(o) PROVE Promises'
  BY <1>5, PromisesOutsideLock DEF Submitted, Ended, IInv, Control, Types, BuyRows
<1>6. ASSUME NEW x \in Deposits \cup Sales, Confirm(x) PROVE Promises'
  BY <1>6, PromisesOutsideLock DEF Confirm, IInv, Control, Types, DepositRows
<1>7. CASE NextDay
  BY <1>7, PromisesOutsideLock DEF NextDay
<1> QED
  BY <1>1, <1>2, <1>3, <1>4, <1>5, <1>6, <1>7, PromisesAcquire, PromisesRead, PromisesRefuse,
     PromisesDeposit, PromisesWithdrawal DEF Next

-----------------------------------------------------------------------------
\* The theorems

\* The invariant holds at the start and survives every step.
THEOREM CashInvariant == Spec => []IInv
<1>1. ASSUME Init PROVE IInv
  <2> USE <1>1 DEF Init
  <2>1. Control
    <3>2. \A r \in Requests : 0 <= Len(Terms(r))
      BY TermsOf
    <3>3. Types
      BY CashAssumption DEF Types, RequestRows, DepositRows, BuyRows, SaleStates
    <3> QED BY <3>2, <3>3 DEF Control, OneHolder, ReadsItsTerms, MadeWhenGranted,
                                     FillsWhileWorking, Requests
  <2>2. WithdrawnOnlySettled
    <3>1. \A w \in Withdrawals : Taken[w] = 0
      BY DEF Taken
    <3>2. PaidOut = 0
      BY <3>1, RowTypes, TotalZero, SumIsTotal DEF PaidOut
    <3> QED BY <3>2, SidesNat DEF WithdrawnOnlySettled
  <2>3. DailyDepositCap
    <3>1. \A day : DepositedOn(day) = AmountOf({})
      BY DEF DepositedOn
    <3>2. AmountOf({}) = 0
      BY TotalEmpty, SumIsTotal DEF AmountOf
    <3> QED BY <3>1, <3>2, CashAssumption DEF DailyDepositCap
  <2>4. WithdrawalCovered /\ DepositCounted
    BY DEF WithdrawalCovered, DepositCounted, Requests
  <2> QED BY <2>1, <2>2, <2>3, <2>4 DEF IInv, Promises
<1>2. ASSUME IInv, [Next]_vars PROVE IInv'
  <2>1. CASE Next
    BY <1>2, <2>1, ControlKept, PromisesKept DEF IInv
  <2>2. CASE UNCHANGED vars
    BY <1>2, <2>2, SidesUnchanged DEF vars, IInv, Control, Promises, Types, OneHolder, ReadsItsTerms, Terms,
         MadeWhenGranted, FillsWhileWorking, WithdrawalCovered, DepositCounted,
         WithdrawnOnlySettled, DailyDepositCap
  <2> QED BY <1>2, <2>1, <2>2
<1> QED BY <1>1, <1>2, PTL DEF Spec

\* What withdrawals took out never exceeds the inflows the custodian has
\* confirmed and the credit of negative requests, whatever settles, bounces,
\* fills at whatever price or is withdrawn between the queries of
\* WithdrawalService.initiate, for any number of requests and any amounts.
THEOREM OnlySettledLeaves == Spec => []WithdrawnOnlySettled
<1>1. IInv => WithdrawnOnlySettled
  BY DEF IInv, Promises
<1> QED BY <1>1, CashInvariant, PTL

\* The deposits of a day stay within the daily cap of check_deposit_caps, for
\* any number of concurrent deposits.
THEOREM DepositsWithinCap == Spec => []DailyDepositCap
<1>1. IInv => DailyDepositCap
  BY DEF IInv, Promises
<1> QED BY <1>1, CashInvariant, PTL

\* The rows keep their types; a buy never fills beyond its quantity.
THEOREM CashTypes == Spec => []TypeOK
<1>1. IInv => TypeOK
  <2> SUFFICES ASSUME IInv PROVE TypeOK
    OBVIOUS
  <2> USE DEF IInv, Control
  <2>1. \A r \in Requests : request[r].read \in 0 .. 5
    <3> SUFFICES ASSUME NEW r \in Requests PROVE request[r].read \in 0 .. 5
      OBVIOUS
    <3> DEFINE i == request[r].read
               n == Len(Terms(r))
    <3>1. i \in Nat /\ i <= n /\ n \in 1 .. 5
      BY TermsOf DEF Types, RequestRows, ReadsItsTerms
    <3> HIDE DEF i, n
    <3>2. i \in 0 .. 5
      BY <3>1
    <3> QED BY <3>2 DEF i
  <2>2. request \in [Requests -> [pc : {"idle", "locked", "done", "refused"},
                                  read : 0 .. 5, total : Int, day : 0 .. LastDay]]
    BY <2>1 DEF Types, RequestRows
  <2>3. \A b \in Buys : /\ buy[b].state \in {"none", "held", "working", "closed"}
                        /\ buy[b].filled \in Nat /\ buy[b].paid \in Nat
                        /\ buy[b].filled = 0 \/ buy[b].filled <= Quantity[b]
    BY DEF Types, BuyRows, FillsWhileWorking, Requests
  <2> QED BY <2>2, <2>3 DEF TypeOK, Types, DepositRows, SaleStates
<1> QED BY <1>1, CashInvariant, PTL
=============================================================================
