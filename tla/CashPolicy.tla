----------------------------- MODULE CashPolicy -----------------------------
(* One customer's cash: the ledger's cash legs and settlement obligations, the
   policy functions CashPolicyService derives from them, and the requests that
   spend against those functions under the customer's cash lock.

   Nothing stores a balance.  A request takes the lock row, evaluates its
   policy function one SQL query at a time (READ COMMITTED: each query sees
   whatever has committed by then) and commits its effect.  Submission, fills,
   settlement and ACH returns do not take that lock, so they land between two
   queries of a request.

   Amounts are the caller's: neither the request models nor the services nor
   the tables ask for a positive one.  The notional of an order, its quantity
   times the caller's reference price, sizes the check and the hold only; what
   a fill costs or brings in is the broker's price.  Eligibility and the bank
   link are gates a request may fail, which is a request that never starts. *)
EXTENDS Integers, Sequences, FiniteSets, FiniteSetsExt

CONSTANTS
  Deposits, Withdrawals, Buys,   \* requests of the customer, each made once
  Sales,                         \* sell orders
  Amount,                        \* request or sell order -> its amount or notional
  Quantity,                      \* buy order -> the units ordered
  Prices,                        \* what the broker may pay for one unit
  Proceeds,                      \* sell order -> what its fill brings in
  CapPerTransaction, CapPerDay,  \* settings.deposit_cap_*
  LastDay                        \* bound: the last day of the model

Requests == Deposits \cup Withdrawals \cup Buys

ASSUME CashAssumption ==
  /\ IsFiniteSet(Requests \cup Sales)
  /\ Deposits \cap Withdrawals = {} /\ (Deposits \cup Withdrawals) \cap Buys = {}
  /\ Sales \cap Requests = {}
  /\ Amount \in [Requests \cup Sales -> Int] /\ Quantity \in [Buys -> Int]
  /\ Prices \subseteq Nat /\ Proceeds \in [Sales -> Nat]
  /\ CapPerTransaction \in Nat /\ CapPerDay \in Nat /\ LastDay \in Nat

VARIABLES
  request,    \* request -> control state, terms read so far, their total, day
  deposit,    \* deposit -> its settlement obligation, and its effective date
  buy,        \* buy order -> where its cash is counted, units filled, cash paid
  sale,       \* sell order -> hold, open, or the obligation of its proceeds
  withdrawn,  \* the withdrawal entries posted
  today

vars == <<request, deposit, buy, sale, withdrawn, today>>

Init ==
  /\ request = [r \in Requests |-> [pc |-> "idle", read |-> 0, total |-> 0, day |-> 0]]
  /\ deposit = [d \in Deposits |-> [state |-> "none", day |-> 0]]
  /\ buy = [b \in Buys |-> [state |-> "none", filled |-> 0, paid |-> 0]]
  /\ sale = [s \in Sales |-> "none"]
  /\ withdrawn = {}
  /\ today = 0

-----------------------------------------------------------------------------
\* CashPolicyService and OrderHoldsProvider, one query each

SumOf(f, S) == MapThenSumSet(LAMBDA x : f[x], S)
AmountOf(S) == SumOf(Amount, S)

DepositsIn(state) == {d \in Deposits : deposit[d].state = state}
SalesIn(state) == {s \in Sales : sale[s] = state}
BuysIn(state) == {b \in Buys : buy[b].state = state}
Bought == SumOf([b \in Buys |-> buy[b].paid], Buys)

\* What a deposit's entries add: the deposit once it is confirmed, or from the
\* start when it is negative (the query takes it for a pending outflow); and
\* the correction of a returned one, an entry without an obligation.
DepositCash ==
  [d \in Deposits |->
     (IF deposit[d].state = "confirmed" \/ (deposit[d].state # "none" /\ Amount[d] < 0)
      THEN Amount[d] ELSE 0)
       - (IF deposit[d].state = "failed" THEN Amount[d] ELSE 0)]

SaleCash == [s \in Sales |-> IF sale[s] = "confirmed" THEN Proceeds[s] ELSE 0]
WithdrawnCash == [w \in Withdrawals |-> IF w \in withdrawn THEN Amount[w] ELSE 0]

\* Confirmed inflows, and every outflow from the moment it is posted.
SettledCash ==
  SumOf(DepositCash, Deposits) + SumOf(SaleCash, Sales)
    - Bought - SumOf(WithdrawnCash, Withdrawals)

UnsettledSaleProceeds == SumOf(Proceeds, SalesIn("pending"))
UnsettledDepositProceeds == AmountOf(DepositsIn("pending"))

\* Active approval holds: both sides of the book open one.
HeldBuys == [b \in Buys |-> IF buy[b].state = "held" THEN Amount[b] ELSE 0]
HeldSales == [s \in Sales |-> IF sale[s] = "held" THEN Amount[s] ELSE 0]
Holds == SumOf(HeldBuys, Buys) + SumOf(HeldSales, Sales)

\* The buys the broker is working: the rest of each at its average price so
\* far, or the amount of its hold before the first fill.
OpenBuyCommitments ==
  SumOf([b \in Buys |-> IF buy[b].filled = 0 THEN Amount[b]
                        ELSE ((Quantity[b] - buy[b].filled) * buy[b].paid) \div buy[b].filled],
        BuysIn("working"))

DepositedOn(day) ==
  AmountOf({d \in Deposits : deposit[d].state # "none" /\ deposit[d].day = day})

Investable ==
  SettledCash + UnsettledSaleProceeds + UnsettledDepositProceeds
    - OpenBuyCommitments - Holds

\* The value of one term, with its sign.
Query(term, day) ==
  CASE term = "settled" -> SettledCash
    [] term = "sales" -> UnsettledSaleProceeds
    [] term = "deposits" -> UnsettledDepositProceeds
    [] term = "commitments" -> -OpenBuyCommitments
    [] term = "holds" -> -Holds
    [] term = "depositedToday" -> DepositedOn(day)

InvestableTerms == <<"settled", "sales", "deposits", "commitments", "holds">>

TermsSwapped(r) ==
  IF r \in Deposits THEN <<"depositedToday">> ELSE InvestableTerms

\* The queries of a request, in the order they are issued.
Terms(r) ==
  IF r \in Deposits THEN <<"depositedToday">>
  ELSE IF r \in Withdrawals THEN <<"settled", "holds">>      \* withdrawable
  ELSE InvestableTerms                                       \* investable

-----------------------------------------------------------------------------
\* Requests under the cash lock

CashLockIgnored == TRUE

\* customer_cash_lock, SELECT ... FOR UPDATE: one request at a time.
CashLockFree == \A r \in Requests : request[r].pc # "locked"

\* A request passes its gates and gets the lock.
Acquire(r) ==
  /\ request[r].pc = "idle"
  /\ CashLockFree
  /\ request' = [request EXCEPT ![r] = [pc |-> "locked", read |-> 0, total |-> 0,
                                        day |-> today]]
  /\ UNCHANGED <<deposit, buy, sale, withdrawn, today>>

\* The next query of its policy function.
ReadTerm(r) ==
  /\ request[r].pc = "locked"
  /\ request[r].read < Len(Terms(r))
  /\ request' = [request EXCEPT ![r] =
       [pc |-> "locked", read |-> @.read + 1,
        total |-> @.total + Query(Terms(r)[@.read + 1], @.day), day |-> @.day]]
  /\ UNCHANGED <<deposit, buy, sale, withdrawn, today>>

AllRead(r) == request[r].pc = "locked" /\ request[r].read = Len(Terms(r))

\* check_deposit_caps, or the comparison with withdrawable or investable.
Allowed(r) ==
  IF r \in Deposits
  THEN Amount[r] <= CapPerTransaction /\ request[r].total + Amount[r] <= CapPerDay
  ELSE Amount[r] <= request[r].total

Refuse(r) ==
  /\ AllRead(r) /\ ~Allowed(r)
  /\ request' = [request EXCEPT ![r].pc = "refused"]
  /\ UNCHANGED <<deposit, buy, sale, withdrawn, today>>

Granted(r) ==
  /\ AllRead(r) /\ Allowed(r)
  /\ request' = [request EXCEPT ![r].pc = "done"]

\* DepositService.initiate: the entry and its pending obligation.
CommitDeposit(d) ==
  /\ Granted(d)
  /\ deposit' = [deposit EXCEPT ![d] = [state |-> "pending", day |-> request[d].day]]
  /\ UNCHANGED <<buy, sale, withdrawn, today>>

\* WithdrawalService.initiate: the entry, settled at once.
CommitWithdrawal(w) ==
  /\ Granted(w)
  /\ withdrawn' = withdrawn \cup {w}
  /\ UNCHANGED <<deposit, buy, sale, today>>

\* OrderService.create_order of a buy: its hold.
CommitBuy(b) ==
  /\ Granted(b)
  /\ buy' = [buy EXCEPT ![b].state = "held"]
  /\ UNCHANGED <<deposit, sale, withdrawn, today>>

\* create_order of a sell checks no cash, under the same lock.
PlaceSell(s) ==
  /\ sale[s] = "none"
  /\ CashLockFree
  /\ sale' = [sale EXCEPT ![s] = "held"]
  /\ UNCHANGED <<request, deposit, buy, withdrawn, today>>

-----------------------------------------------------------------------------
\* Steps that do not take the lock

\* The fold reaches SUBMITTED: the hold ends and the order is open.
Submitted(o) ==
  /\ \/ /\ o \in Buys /\ buy[o].state = "held"
        /\ buy' = [buy EXCEPT ![o].state = "working"] /\ UNCHANGED sale
     \/ /\ o \in Sales /\ sale[o] = "held"
        /\ sale' = [sale EXCEPT ![o] = "working"] /\ UNCHANGED buy
  /\ UNCHANGED <<request, deposit, withdrawn, today>>

\* The fold reaches a terminal non-filled status.
Ended(o) ==
  /\ \/ /\ o \in Buys /\ buy[o].state \in {"held", "working"}
        /\ buy' = [buy EXCEPT ![o].state = "closed"] /\ UNCHANGED sale
     \/ /\ o \in Sales /\ sale[o] \in {"held", "working"}
        /\ sale' = [sale EXCEPT ![o] = "closed"] /\ UNCHANGED buy
  /\ UNCHANGED <<request, deposit, withdrawn, today>>

\* record_buy_fill of one unit at the broker's price, with the projection, in
\* one commit.
BuyFills(b, price) ==
  /\ buy[b].state = "working"
  /\ buy[b].filled < Quantity[b]
  /\ buy' = [buy EXCEPT ![b] = [filled |-> buy[b].filled + 1, paid |-> buy[b].paid + price,
       state |-> IF buy[b].filled + 1 = Quantity[b] THEN "closed" ELSE "working"]]
  /\ UNCHANGED <<request, deposit, sale, withdrawn, today>>

\* record_sell_fill: the proceeds wait for their obligation.
SellFills(s) ==
  /\ sale[s] = "working"
  /\ sale' = [sale EXCEPT ![s] = "pending"]
  /\ UNCHANGED <<request, deposit, buy, withdrawn, today>>

\* SettlementObligationRepository.confirm
Confirm(x) ==
  /\ \/ /\ x \in Deposits /\ deposit[x].state = "pending"
        /\ deposit' = [deposit EXCEPT ![x].state = "confirmed"] /\ UNCHANGED sale
     \/ /\ x \in Sales /\ sale[x] = "pending"
        /\ sale' = [sale EXCEPT ![x] = "confirmed"] /\ UNCHANGED deposit
  /\ UNCHANGED <<request, buy, withdrawn, today>>

\* apply_ach_return: fails the obligation and posts the correction.  An
\* obligation that is no longer pending raises.
AchReturn(d) ==
  /\ deposit[d].state = "pending"
  /\ deposit' = [deposit EXCEPT ![d].state = "failed"]
  /\ UNCHANGED <<request, buy, sale, withdrawn, today>>

NextDay ==
  /\ today < LastDay
  /\ today' = today + 1
  /\ UNCHANGED <<request, deposit, buy, sale, withdrawn>>

Next ==
  \/ \E r \in Requests : Acquire(r) \/ ReadTerm(r) \/ Refuse(r)
  \/ \E d \in Deposits : CommitDeposit(d) \/ AchReturn(d)
  \/ \E w \in Withdrawals : CommitWithdrawal(w)
  \/ \E b \in Buys : CommitBuy(b) \/ \E price \in Prices : BuyFills(b, price)
  \/ \E s \in Sales : PlaceSell(s) \/ SellFills(s)
  \/ \E o \in Buys \cup Sales : Submitted(o) \/ Ended(o)
  \/ \E x \in Deposits \cup Sales : Confirm(x)
  \/ NextDay

Spec == Init /\ [][Next]_vars

-----------------------------------------------------------------------------
\* Properties

\* Every variable stays within the values its rows can hold; in particular a
\* buy never fills beyond its quantity, and one without units not at all.
TypeOK ==
  /\ request \in [Requests -> [pc : {"idle", "locked", "done", "refused"},
                               read : 0 .. 5, total : Int, day : 0 .. LastDay]]
  /\ deposit \in [Deposits -> [state : {"none", "pending", "confirmed", "failed"},
                               day : 0 .. LastDay]]
  /\ \A b \in Buys : /\ buy[b].state \in {"none", "held", "working", "closed"}
                     /\ buy[b].filled \in Nat /\ buy[b].paid \in Nat
                     /\ buy[b].filled = 0 \/ buy[b].filled <= Quantity[b]
  /\ sale \in [Sales -> {"none", "held", "working", "pending", "confirmed", "closed"}]
  /\ withdrawn \subseteq Withdrawals
  /\ today \in 0 .. LastDay

\* The two sides of an amount.
In(n) == IF n > 0 THEN n ELSE 0
Out(n) == IF n < 0 THEN -n ELSE 0

\* The inflows the custodian confirmed.
ConfirmedDeposits ==
  [d \in Deposits |-> IF deposit[d].state = "confirmed" THEN In(Amount[d]) ELSE 0]
Confirmed == SumOf(ConfirmedDeposits, Deposits) + SumOf(SaleCash, Sales)

\* The money the customer's withdrawals took out.
Taken == [w \in Withdrawals |-> IF w \in withdrawn THEN In(Amount[w]) ELSE 0]
PaidOut == SumOf(Taken, Withdrawals)

\* The credit of requests for less than nothing: a withdrawal of a negative
\* amount adds cash, an order with a negative notional has a hold that does.
Added == [w \in Withdrawals |-> IF w \in withdrawn THEN Out(Amount[w]) ELSE 0]
CreditPosted == SumOf(Added, Withdrawals)

BuyCredit == [b \in Buys |-> IF buy[b].state # "none" THEN Out(Amount[b]) ELSE 0]
SaleCredit == [s \in Sales |-> IF sale[s] # "none" THEN Out(Amount[s]) ELSE 0]
CreditHeld == SumOf(BuyCredit, Buys) + SumOf(SaleCredit, Sales)

\* The one hard constraint, as far as the code keeps it: what withdrawals took
\* out never exceeds the inflows the custodian confirmed and the credit of
\* negative requests, whatever settles, bounces, fills or is withdrawn between
\* the queries of WithdrawalService.initiate.  Without such requests the credit
\* is zero and only confirmed money leaves.
WithdrawnOnlySettled == PaidOut <= Confirmed + CreditPosted + CreditHeld

\* The deposits of one day stay within the daily cap, concurrent requests and
\* requests that straddle midnight included (check_deposit_caps).
DailyDepositCap ==
  \A day \in 0 .. LastDay : DepositedOn(day) <= CapPerDay

-----------------------------------------------------------------------------
\* What the documentation says and the code does not do

\* Only confirmed, settled cash is withdrawable, whatever amounts are asked for.
PaidOutWasConfirmed == PaidOut <= Confirmed

\* Requests serialised on the cash lock never promise the same cash twice: as
\* long as no deposit bounced, no sell holds cash and nobody asked for less
\* than nothing, investable cash is not negative.
NoOvercommitment ==
  /\ DepositsIn("failed") = {} /\ SalesIn("held") = {}
  /\ CreditPosted + CreditHeld = 0
  => Investable >= 0

\* A bounced deposit leaves a negative position only if its cash was used.
BounceTakesBackOnlyItself ==
  (Bought = 0 /\ withdrawn = {}) => SettledCash >= 0
=============================================================================
