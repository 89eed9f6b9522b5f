------------------------------ MODULE Rebalance ------------------------------
(***************************************************************************)
(* Monthly rebalancing: DriftEvaluationService compares a customer's book  *)
(* with the assigned model, RebalanceOrderService sells what is above its  *)
(* target and buys what is below it out of investable cash less a buffer,  *)
(* through OrderService.create_order.  MonthlyRebalanceJob does this for   *)
(* every assigned customer in one transaction, while customers place       *)
(* orders of their own, change model and are approved or locked, and       *)
(* orders are submitted and filled at whatever price the broker finds.     *)
(* What a customer's cash queries return is the subject of CashPolicy: here *)
(* they may return anything, each time they are made.                      *)
(***************************************************************************)
EXTENDS Jobs, Money, SequencesExt

CONSTANTS Customers,
          Securities,
          Ranked,      \* the order target_weight and position rows are read in
          Weights,     \* model portfolio -> target weight of each security
          Whole,       \* the weight that is 100 %
          Band,        \* drift_band_pct as <<numerator, denominator>>
          Buffer,      \* rebalance_cash_buffer_pct as <<numerator, denominator>>
          Threshold,   \* order_approval_threshold_usd
          Prices,      \* confirmed closes a security may have
          Books,       \* the units a customer may start with
          CashReads,   \* what the queries on a customer's cash may add up to
          Wanted,      \* what customers order themselves: side, quantity, price they quote
          None,
          MaxActs      \* bound on orders, assignments and approvals around the job

\* The deferred trigger target_weight_sum: a model's weights add up to one.
SumsToOne(weights) == SumOver(weights, Securities) = Whole

ASSUME RebalanceAssumption ==
    /\ Ranked \in Seq(Securities) /\ ToSet(Ranked) = Securities
    /\ Whole \in Nat \ {0} /\ Threshold \in Nat /\ MaxActs \in Nat
    /\ \A m \in DOMAIN Weights : Weights[m] \in [Securities -> 0 .. Whole] /\ SumsToOne(Weights[m])
    /\ Band \in Nat \X (Nat \ {0}) /\ Buffer \in Nat \X (Nat \ {0})
    /\ Prices \subseteq Nat \ {0}
    /\ Wanted \subseteq [side : {"buy", "sell"}, quantity : Int, price : Int]
    /\ Books \subseteq [Securities -> Nat] /\ CashReads \subseteq Int
    /\ None \notin DOMAIN Weights /\ None \notin Prices

VARIABLES units,     \* the units each customer holds
          price,     \* the confirmed close of the market date, or None
          assigned,  \* customer_model_assignment
          eligible,  \* customers whose KYC and account are approved
          orders,    \* committed orders
          acts       \* how much went on around the job

custVars == <<units, price, assigned, eligible, orders, acts>>
rebalanceVars == <<runner, jobRun, started, units, price, assigned, eligible, orders, acts>>

Models == DOMAIN Weights
Order(c, s, side, quantity, p, origin) ==
    [customer |-> c, security |-> s, side |-> side, quantity |-> quantity,
     notional |-> Times(p, quantity), origin |-> origin,
     status |-> IF Times(p, quantity) > Threshold THEN "awaiting_approval" ELSE "approved"]

RebalanceInit ==
    /\ JobsInit
    /\ units \in [Customers -> Books]
    /\ price \in [Securities -> Prices \cup {None}]
    /\ assigned \in [Customers -> Models \cup {None}]
    /\ eligible = Customers
    /\ orders = <<>>
    /\ acts = 0

-----------------------------------------------------------------------------
(* CashPolicyService.investable: four queries, then the holds.             *)

\* A hold is open, for a buy or a sell, until the order is submitted.
OnHold(o) == o.status \in {"awaiting_approval", "approved"}

NotionalOf(I, os) == SumOver([i \in DOMAIN os |-> os[i].notional], I)

HeldFor(c, os) == {i \in DOMAIN os : os[i].customer = c /\ OnHold(os[i])}

holds(c, os) == NotionalOf(HeldFor(c, os), os)

-----------------------------------------------------------------------------
(* DriftEvaluationService.evaluate.                                        *)

Value(c, s) == Times(price[s], units[c][s])

Positions(c) == {s \in Securities : units[c][s] # 0}

\* value_book; it is complete when every position has a confirmed close.
total_value(c, cash) ==
    cash + SumOver([s \in Securities |-> IF units[c][s] = 0 THEN 0 ELSE Value(c, s)], Securities)

Complete(c) == \A s \in Positions(c) : price[s] # None

\* evaluate reads the positions again, and needs a close for every target too.
Relevant(c, weight) == Positions(c) \cup {s \in Securities : weight[s] > 0}

Priced(c, weight) == \A s \in Relevant(c, weight) : price[s] # None

Magnitude(n) == IF n < 0 THEN -n ELSE n

\* is_out_of_band: |current - target| / target > band; a zero target is out of
\* band whenever anything is held.
OutOfBand(value, weight, total) ==
    LET drift == value * Whole - weight * total
    IN  IF weight = 0 THEN value # 0
        ELSE Magnitude(drift) * Band[2] > Band[1] * weight * Magnitude(total)

Target(weight, total) == Quantize(weight * total, Whole)

\* The flagged securities, with the notional to trade.
Flagged(c, weight, total) ==
    [s \in {r \in Relevant(c, weight) : OutOfBand(Value(c, r), weight[r], total)} |->
        Target(weight[s], total) - Value(c, s)]

\* The rows are worked through in reading order.
Foremost(S) ==
    Ranked[CHOOSE i \in DOMAIN Ranked :
             /\ Ranked[i] \in S
             /\ \A j \in DOMAIN Ranked : Ranked[j] \in S => i <= j]

-----------------------------------------------------------------------------
(* MonthlyRebalanceJob.perform: one transaction over every assignment.     *)

Working(p) == runner[p].at \notin {"exited", "performed", "raised"}

\* The cash locks the transaction has taken; they are held until it ends.
NeverLocked(c) == FALSE
Locked(c) == \E p \in Processes : Working(p) /\ c \in runner[p].locks

\* A run between two customers: the assignments to do, the orders placed, the
\* locks taken, and for each customer the cash the buys were sized by and the cash
\* that the check of the last buy counted on.
Between(date, todo, placed, locks, sized, checked) ==
    [at |-> "next", date |-> date, todo |-> todo, placed |-> placed, locks |-> locks,
     sized |-> sized, checked |-> checked]

\* list_all: the session keeps the assignments it loaded here.
StartRebalance(p) ==
    \E d \in MarketDates :
        /\ StartJob(p, Between(d, [c \in {x \in Customers : assigned[x] # None} |-> assigned[c]],
                               <<>>, {}, [c \in {} |-> 0], [c \in {} |-> 0]))
        /\ UNCHANGED custVars

Put(f, c, n) == [x \in DOMAIN f \cup {c} |-> IF x = c THEN n ELSE f[x]]

\* Done with the customer.
Onward(p) ==
    Become(p, Between(runner[p].date, runner[p].todo, runner[p].placed, runner[p].locks,
                      runner[p].sized, runner[p].checked))

\* A partial or empty book trades nothing.
ValueBook(p, c) ==
    /\ runner[p].at = "next"
    /\ c \in DOMAIN runner[p].todo
    /\ LET rest == Restrict(runner[p].todo, DOMAIN runner[p].todo \ {c})
       IN  \E cash \in CashReads :
             \/ /\ Complete(c) /\ total_value(c, cash) # 0
                /\ Become(p, [at |-> "valued", date |-> runner[p].date, todo |-> rest,
                              placed |-> runner[p].placed, locks |-> runner[p].locks,
                              sized |-> runner[p].sized, checked |-> runner[p].checked,
                              customer |-> c, model |-> runner[p].todo[c],
                              total |-> total_value(c, cash),
                              excess |-> [s \in {} |-> 0], sells |-> {}, buys |-> {},
                              funds |-> 0, remaining |-> 0, admitted |-> None])
             \/ /\ ~(Complete(c) /\ total_value(c, cash) # 0)
                /\ Become(p, [runner[p] EXCEPT !.todo = rest])
    /\ UNCHANGED <<jobRun, started, custVars>>

\* The entries, from the positions as they are by now, and the two lists of
\* generate_orders.
Evaluate(p) ==
    /\ runner[p].at = "valued"
    /\ LET c == runner[p].customer
           weight == Weights[runner[p].model]
           flagged == IF Priced(c, weight) THEN Flagged(c, weight, runner[p].total)
                      ELSE [s \in {} |-> 0]
           sells == {s \in DOMAIN flagged : flagged[s] < 0}
       IN  Become(p, [runner[p] EXCEPT !.at = "sells", !.excess = flagged, !.sells = sells,
                                       !.buys = DOMAIN flagged \ sells])
    /\ UNCHANGED <<jobRun, started, custVars>>

\* _require_eligible_customer: the transaction keeps the row it read first.
Admitted(p) ==
    IF runner[p].admitted = None THEN runner[p].customer \in eligible ELSE runner[p].admitted

With(p, order) ==
    [runner[p] EXCEPT !.placed = Append(@, order), !.locks = @ \cup {order.customer},
                      !.admitted = TRUE]

PlaceSell(p) ==
    /\ runner[p].at = "sells"
    /\ runner[p].sells # {}
    /\ Admitted(p)
    /\ LET r == runner[p]
           s == Foremost(r.sells)
           quantity == UnitsFor(-r.excess[s], price[s])
       IN  Become(p, [With(p, Order(r.customer, s, "sell", quantity, price[s], p))
                        EXCEPT !.sells = @ \ {s}])
    /\ UNCHANGED <<jobRun, started, custVars>>

\* Buys are sized against cash read before the first of them takes the lock.
ReadFunds(p) ==
    /\ runner[p].at = "sells"
    /\ runner[p].sells = {} /\ runner[p].buys # {}
    /\ \E cash \in CashReads : Become(p, [runner[p] EXCEPT !.at = "sizing", !.funds = cash])
    /\ UNCHANGED <<jobRun, started, custVars>>

\* The last query of investable.
investable(p) == runner[p].funds - holds(runner[p].customer, orders \o runner[p].placed)

Available(p) == investable(p) - Quantize(runner[p].total * Buffer[1], Buffer[2])

SizeBuys(p) ==
    /\ runner[p].at = "sizing"
    /\ Become(p, [runner[p] EXCEPT !.at = "buys", !.remaining = Available(p),
                                   !.sized = Put(@, runner[p].customer, Available(p))])
    /\ UNCHANGED <<jobRun, started, custVars>>

SpendNothing(remaining, spent) == remaining
Spend(remaining, spent) == remaining - spent

Buying(p) == runner[p].at = "buys" /\ runner[p].buys # {} /\ runner[p].remaining > 0

Capped(p) ==
    LET gap == runner[p].excess[Foremost(runner[p].buys)]
    IN  IF gap < runner[p].remaining THEN gap ELSE runner[p].remaining

NextBuy(p) ==
    LET s == Foremost(runner[p].buys)
    IN  Order(runner[p].customer, s, "buy", UnitsFor(Capped(p), price[s]), price[s], p)

\* A buy that rounds to no units is passed over.
PassOver(p) ==
    /\ Buying(p)
    /\ NextBuy(p).quantity = 0
    /\ Become(p, [runner[p] EXCEPT !.buys = @ \ {NextBuy(p).security}])
    /\ UNCHANGED <<jobRun, started, custVars>>

\* CustomerNotEligibleError: the job logs it and goes on with the next customer.
SkipCustomer(p) ==
    /\ \/ runner[p].at = "sells" /\ runner[p].sells # {}
       \/ Buying(p) /\ NextBuy(p).quantity > 0
    /\ ~Admitted(p)
    /\ Onward(p)
    /\ UNCHANGED <<jobRun, started, custVars>>

\* create_order: the customer's lock, then investable read once more.
LockCash(p) ==
    /\ Buying(p)
    /\ NextBuy(p).quantity > 0
    /\ Admitted(p)
    /\ \E cash \in CashReads :
          Become(p, [runner[p] EXCEPT !.at = "checking", !.funds = cash, !.admitted = TRUE,
                                      !.locks = @ \cup {runner[p].customer}])
    /\ UNCHANGED <<jobRun, started, custVars>>

\* The cash a check counts on.  Nothing refuses a quantity or a price below zero:
\* the hold of such an order lends the others its amount.
Counted(p) ==
    LET os == orders \o runner[p].placed
    IN  runner[p].funds - NotionalOf({i \in HeldFor(runner[p].customer, os) : os[i].notional < 0}, os)

\* A buy the cash no longer covers raises InsufficientInvestableCashError out of
\* perform.
PlaceBuy(p) ==
    /\ runner[p].at = "checking"
    /\ LET order == NextBuy(p)
       IN  \/ /\ order.notional <= investable(p)
              /\ Become(p, [With(p, order)
                              EXCEPT !.at = "buys", !.buys = @ \ {order.security},
                                     !.remaining = Spend(@, Capped(p)),
                                     !.checked = Put(@, order.customer, Counted(p))])
           \/ /\ order.notional > investable(p)
              /\ Become(p, [at |-> "raised", date |-> runner[p].date])
    /\ UNCHANGED <<jobRun, started, custVars>>

EndBuys(p) ==
    /\ \/ runner[p].at = "sells" /\ runner[p].sells = {} /\ runner[p].buys = {}
       \/ runner[p].at = "buys" /\ (runner[p].buys = {} \/ runner[p].remaining <= 0)
    /\ Onward(p)
    /\ UNCHANGED <<jobRun, started, custVars>>

CommitOrders(p) ==
    /\ runner[p].at = "next"
    /\ DOMAIN runner[p].todo = {}
    /\ orders' = orders \o runner[p].placed
    /\ Become(p, [at |-> "performed", date |-> runner[p].date])
    /\ UNCHANGED <<jobRun, started, units, price, assigned, eligible, acts>>

-----------------------------------------------------------------------------
(* What goes on around the job.                                            *)

Act == acts < MaxActs /\ acts' = acts + 1

\* POST /portfolios/assignment.
CreateAssignment(c, m) ==
    /\ Act
    /\ assigned' = [assigned EXCEPT ![c] = m]
    /\ UNCHANGED <<jobVars, units, price, eligible, orders>>

EligibilityChanges(c) ==
    /\ Act
    /\ eligible' = IF c \in eligible THEN eligible \ {c} ELSE eligible \cup {c}
    /\ UNCHANGED <<jobVars, units, price, assigned, orders>>

\* A customer's own order, under the customer's cash lock; whether its investable
\* check passes is up to what its queries return.
CustomerOrders(c, s, w) ==
    /\ Act
    /\ ~Locked(c)
    /\ c \in eligible
    /\ orders' = Append(orders, Order(c, s, w.side, w.quantity, w.price, None))
    /\ UNCHANGED <<jobVars, units, price, assigned, eligible>>

\* Approved by the customer, submitted, filled; a sell the lots do not cover
\* never posts.  None of them takes the cash lock.
Approve(i) ==
    /\ orders[i].status = "awaiting_approval"
    /\ orders' = [orders EXCEPT ![i].status = "approved"]
    /\ UNCHANGED <<jobVars, units, price, assigned, eligible, acts>>

Submit(i) ==
    /\ orders[i].status = "approved"
    /\ orders' = [orders EXCEPT ![i].status = "submitted"]
    /\ UNCHANGED <<jobVars, units, price, assigned, eligible, acts>>

\* The price is the broker's: it shows in what cash queries return, not here.
Fill(i) ==
    LET o == orders[i]
        change == IF o.side = "buy" THEN o.quantity ELSE -o.quantity
    IN  /\ o.status = "submitted"
        /\ units[o.customer][o.security] + change >= 0
        /\ units' = [units EXCEPT ![o.customer][o.security] = @ + change]
        /\ orders' = [orders EXCEPT ![i].status = "filled"]
        /\ UNCHANGED <<jobVars, price, assigned, eligible, acts>>

-----------------------------------------------------------------------------
RebalanceNext ==
    \/ \E p \in Processes :
          \/ StartRebalance(p) \/ Evaluate(p) \/ SkipCustomer(p) \/ PlaceSell(p)
          \/ ReadFunds(p) \/ SizeBuys(p) \/ PassOver(p) \/ LockCash(p) \/ PlaceBuy(p)
          \/ EndBuys(p) \/ CommitOrders(p)
          \/ \E c \in Customers : ValueBook(p, c)
          \/ (EndJob(p) \/ Kill(p)) /\ UNCHANGED custVars
    \/ \E c \in Customers :
          \/ \E m \in Models : CreateAssignment(c, m)
          \/ EligibilityChanges(c)
          \/ \E s \in Securities, w \in Wanted : CustomerOrders(c, s, w)
    \/ \E i \in DOMAIN orders : Approve(i) \/ Submit(i) \/ Fill(i)

RebalanceSpec == RebalanceInit /\ [][RebalanceNext]_rebalanceVars

-----------------------------------------------------------------------------
(* Properties.                                                             *)

Running == {p \in Processes : Working(p)}

Placed(c, side, os) == {i \in DOMAIN os : os[i].customer = c /\ os[i].side = side}

\* Rounding to units is off by half a tick, rounding back by half a quantum.
Slack ==
    LET dearest == Max({price[s] : s \in {r \in Securities : price[r] # None}} \cup {0})
    IN  (dearest + Scale) \div (2 * Scale)

\* Once a buy of the run has passed the cash check, and until the run commits or
\* is rolled back, all that is on hold for the customer, the run's own orders
\* with those of others, stays within the cash that check counted on: what commits
\* is what was checked.  (order_service.py create_order, customer_cash_lock.py acquire)
HeldWithinFunds ==
    \A p \in Running : \A c \in DOMAIN runner[p].checked :
        LET os == orders \o runner[p].placed
        IN  NotionalOf({i \in HeldFor(c, os) : os[i].notional >= 0}, os) <= runner[p].checked[c]

\* A run's buys for a customer together stay within the cash it sized them by,
\* the buffer left untouched, to within one rounding per buy.
\* (rebalance_order_service.py generate_orders)
BufferKept ==
    \A p \in Running : \A c \in DOMAIN runner[p].sized :
        LET os == runner[p].placed
            buys == Placed(c, "buy", os)
        IN  buys # {} =>
              NotionalOf(buys, os) <= runner[p].sized[c] + Slack * Cardinality(buys)

\* "generating a full-exit sell": what a run sells is never more than is held.
\* Refuted: the quantity is recomputed from a rounded value, and a second run
\* sells again what the first has not sold yet.
SellsWithinHoldings ==
    \A c \in Customers, s \in Securities :
        SumOver([i \in DOMAIN orders |-> orders[i].quantity],
                {i \in Placed(c, "sell", orders) :
                    /\ orders[i].origin # None
                    /\ orders[i].security = s /\ orders[i].status # "filled"})
            <= units[c][s]
=============================================================================
