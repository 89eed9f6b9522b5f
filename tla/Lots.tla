-------------------------------- MODULE Lots --------------------------------
(* Tax lots of one customer in one security: LotConsumptionService,
   WashSaleService, CorporateActionService and LotDesignationService, with the
   journal entries they post through PostingService.

   A fill is applied in its own transaction by an outbox worker.  Two workers
   may be inside two fills at once: each works from what was committed when it
   looked, and holds row locks on the tax_lot and lot_consumption rows it
   selected FOR UPDATE.  The transaction is therefore three steps: the lots
   and accounts, the wash-sale scan, and the commit.  A worker that fails
   rolls back and the update is delivered again.

   Days are trading days; WindowDays stands for the 30 days of the scan.
   RestatementService.restate is recorded by what it is asked to restate.   *)
EXTENDS Money

CONSTANTS
  Buys, Sells,       \* fills, numbered; a lot has the number of its buy fill
  Quantities,        \* an order may ask for
  Reports,           \* fill -> what the broker may report of it
  Rates,             \* dividends per share and amounts paid
  Days,
  ActionDays,        \* effective dates of corporate actions, among Days
  WindowDays,        \* _WASH_SALE_WINDOW_DAYS
  MaxLotsNamed,      \* _MAX_DESIGNATED_LOTS
  Ratios,            \* of splits: <<p, q>> for p/q in lowest terms
  MaxCorporate,      \* bound: corporate actions
  MaxAborts          \* bound: transactions that roll back

ASSUME LotsAssumption ==
  /\ Buys \subseteq Nat /\ Sells \subseteq Nat /\ Buys \cap Sells = {}
  /\ IsFiniteSet(Buys) /\ IsFiniteSet(Sells)
  /\ Quantities \subseteq Nat \ {0} /\ Rates \subseteq Nat /\ Days \subseteq Nat
  /\ ActionDays \subseteq Days
  /\ Reports \in [Buys \cup Sells -> SUBSET [quantity : Nat \ {0}, price : Nat, day : Days]]
  /\ WindowDays \in Nat /\ MaxLotsNamed \in Nat
  /\ \A r \in Ratios : r \in Nat \X (Nat \ {0}) /\ r[1] > r[2]
  /\ MaxCorporate \in Nat /\ MaxAborts \in Nat

Fills == Buys \cup Sells

VARIABLES
  lots,          \* tax_lot rows, by the buy fill that opened them
  consumed,      \* lot_consumption rows, by <<sell fill, lot>>
  adjusted,      \* wash_sale_adjustment rows, by the consumption they adjust
  balance,       \* account role -> sum of its postings
  accounts,      \* account role -> how many rows get_or_create has made
  obligations,   \* settlement_obligation amounts, by fill; dividends are negative
  sale,          \* the sell orders: status, quantity, filled, designation
  fill,          \* the fills: data and where their transaction is
  restated,      \* <<trigger, day>> handed to RestatementService.restate
  corporate,     \* corporate actions so far
  aborts,
  overlap,       \* history: fills that committed unseen by each other's scan
  rounded        \* history: splits applied whose ratio is not a whole number

vars == <<lots, consumed, adjusted, balance, accounts, obligations, sale, fill,
          restated, corporate, aborts, overlap, rounded>>

Roles == {"position_units", "position_cost", "cash", "realized_gain_loss",
          "dividend_receivable", "dividend_income"}

TaxLot == [opened : Nat, remaining : Nat, cost : Int, basis : Int, day : Days,
           specific : BOOLEAN]

Consumption == [quantity : Nat, realized : Int, day : Days]

Adjustment == [lot : Buys, amount : Int]

Pcs == {"none", "waiting", "began", "scanned", "done", "dead"}

NoFill == [pc |-> "none", quantity |-> 0, price |-> 0, day |-> 0,
           creates |-> {}, locked |-> {}, found |-> {}]

Init ==
  /\ lots = <<>> /\ consumed = <<>> /\ adjusted = <<>>
  /\ balance = [r \in Roles |-> 0]
  /\ accounts = [r \in Roles |-> IF r \in {"cash", "dividend_income"} THEN 1 ELSE 0]
  /\ obligations = <<>>
  /\ sale = [s \in Sells |-> [status |-> "none", requested |-> 0, filled |-> 0,
                              named |-> <<>>]]
  /\ fill = [f \in Fills |-> NoFill]
  /\ restated = {}
  /\ corporate = 0 /\ aborts = 0 /\ overlap = {} /\ rounded = 0

-----------------------------------------------------------------------------
\* Ledger and shared helpers

\* INSERT: rows under new keys.
Added(table, rows) ==
  [x \in DOMAIN table \cup DOMAIN rows |-> IF x \in DOMAIN table THEN table[x] ELSE rows[x]]

Row(id, value) == [x \in {id} |-> value]

MoneyLegs(legs) == DOMAIN legs \ {"position_units"}

\* PostingService._validate_legs: the money legs sum to zero.
Balanced(legs) == SumOver(legs, MoneyLegs(legs)) = 0

\* The triggers on posting: a units account takes no money, and when the
\* transaction commits the money of each of its entries sums to zero.
LedgerBalance(entries) == \A e \in entries : SumOver(e, MoneyLegs(e)) = 0

\* The entry that carries a disallowed loss from realized gains into cost.
WashSaleEntry(disallowed) ==
  [realized_gain_loss |-> -disallowed, position_cost |-> disallowed]

\* PostingService.post of an entry, and of the wash-sale entries if any.
Post(legs, disallowed) ==
  LET entries == {legs, WashSaleEntry(disallowed)}
      leg(e, r) == IF r \in DOMAIN e THEN e[r] ELSE 0
  IN /\ DOMAIN legs # {} /\ Balanced(legs) /\ LedgerBalance(entries)
     /\ balance' = [r \in Roles |->
          balance[r] + leg(legs, r) + leg(WashSaleEntry(disallowed), r)]

\* get_or_create_customer_account: the row of a role, made when none is visible;
\* scalar_one_or_none raises when there are two.
Resolvable(roles) == \A r \in roles : accounts[r] <= 1

Missing(roles) == {r \in roles : accounts[r] = 0}

AddAccounts(roles) ==
  accounts' = [r \in Roles |-> accounts[r] + IF r \in roles THEN 1 ELSE 0]

BuyRoles == {"position_units", "position_cost", "cash"}

SellRoles == BuyRoles \cup {"realized_gain_loss"}

-----------------------------------------------------------------------------
\* Sell orders and the fills the broker reports

Named(s) == {sale[s].named[i] : i \in DOMAIN sale[s].named}

InTransaction(f) == fill[f].pc \in {"began", "scanned"}

\* Row locks on tax_lot: the selected lots and the replacements found.
LotsLockedBy(fs) ==
  UNION {fill[s].locked \cup {p[2] : p \in fill[s].found} : s \in fs \cap Sells}

LockedLots == LotsLockedBy({f \in Fills : InTransaction(f)})

\* OrderRepository.open_sell_orders
OpenSells == {s \in Sells : sale[s].status = "open"}

\* LotDesignationService.validate, for a list of lots: the named lots cover the
\* quantity, net of what the open orders naming one of them have left to sell.
Admissible(quantity, named) ==
  LET ids == {named[i] : i \in DOMAIN named}
      remaining == [l \in ids |-> lots[l].remaining]
      left == [s \in Sells |-> sale[s].requested - sale[s].filled]
      claiming == {s \in OpenSells : Named(s) \cap ids # {}}
  IN /\ Len(named) <= MaxLotsNamed
     /\ SumOver(remaining, ids) - SumOver(left, claiming) >= quantity

PlaceSell(s, quantity, named) ==
  /\ sale[s].status = "none"
  /\ {named[i] : i \in DOMAIN named} \cap LockedLots = {}
  /\ named # <<>> => Admissible(quantity, named)
  /\ sale' = [sale EXCEPT ![s] = [status |-> "approved", requested |-> quantity,
                                  filled |-> 0, named |-> named]]
  /\ UNCHANGED <<lots, consumed, adjusted, balance, accounts, obligations, fill,
                 restated, corporate, aborts, overlap, rounded>>

SubmitSell(s) ==
  /\ sale[s].status = "approved"
  /\ sale' = [sale EXCEPT ![s].status = "open"]
  /\ UNCHANGED <<lots, consumed, adjusted, balance, accounts, obligations, fill,
                 restated, corporate, aborts, overlap, rounded>>

\* The broker reports an execution; the update waits in the outbox.
BrokerReports(f, report) ==
  /\ fill[f].pc = "none"
  /\ f \in Sells => sale[f].status = "open" /\ report.quantity <= sale[f].requested
  /\ fill' = [fill EXCEPT ![f] = [NoFill EXCEPT !.pc = "waiting",
                 !.quantity = report.quantity, !.price = report.price, !.day = report.day]]
  /\ UNCHANGED <<lots, consumed, adjusted, balance, accounts, obligations, sale,
                 restated, corporate, aborts, overlap, rounded>>

-----------------------------------------------------------------------------
\* Which lots a sell consumes, and at what basis

OpenLots == {l \in DOMAIN lots : lots[l].remaining > 0}

Older(a, b) == lots[a].day < lots[b].day \/ (lots[a].day = lots[b].day /\ a < b)

Position(s, l) == CHOOSE i \in DOMAIN sale[s].named : sale[s].named[i] = l

\* The newest lots go first.
AheadNewest(s, l) ==
  {a \in fill[s].locked : a # l /\ ~Older(a, l)}

\* The lots consumed before l: earlier in the designation, or older (FIFO).
Ahead(s, l) ==
  IF sale[s].named # <<>>
  THEN {a \in fill[s].locked : Position(s, a) < Position(s, l)}
  ELSE {a \in fill[s].locked : Older(a, l)}

Remaining(ls) == SumOver([l \in ls |-> lots[l].remaining], ls)

AtMost(a, b) == IF a < b THEN a ELSE b

\* record_sell_fill's loop: what each locked lot gives.
Take(s, l) ==
  LET wanted == fill[s].quantity - Remaining(Ahead(s, l))
  IN AtMost(lots[l].remaining, IF wanted < 0 THEN 0 ELSE wanted)

Drawn(s) == {l \in fill[s].locked : Take(s, l) > 0}

ConsumedBasis(s, l) ==
  Times(PerUnit(lots[l].basis, lots[l].remaining), Take(s, l))

Realized(s, l) == Times(fill[s].price, Take(s, l)) - ConsumedBasis(s, l)

\* Proceeds are rounded for the whole fill, realized gains lot by lot.
SellLegs(s) ==
  LET drawn == Drawn(s)
      basis == SumOver([l \in drawn |-> ConsumedBasis(s, l)], drawn)
      realized == SumOver([l \in drawn |-> Realized(s, l)], drawn)
  IN [position_units |-> -fill[s].quantity,
      position_cost |-> -basis,
      cash |-> Times(fill[s].price, fill[s].quantity),
      realized_gain_loss |-> -realized]

\* _select_lots_to_consume
Selected(s) == IF sale[s].named # <<>> THEN Named(s) ELSE OpenLots

\* ... and the error paths: InsufficientLotsError, or an account twice.
SellAccepted(s) ==
  /\ Remaining(Selected(s)) >= fill[s].quantity
  /\ Resolvable(SellRoles)

-----------------------------------------------------------------------------
\* WashSaleService

InWindow(day, anchor) == day - anchor \in -WindowDays .. WindowDays

\* find_earliest_replacement_in_window: a committed lot, open or closed, other
\* than the one sold.
Replacements(s, l) ==
  {r \in DOMAIN lots \ {l} :
     /\ InWindow(lots[r].day, fill[s].day)
     /\ \A q \in DOMAIN lots \ {l} :
          InWindow(lots[q].day, fill[s].day) /\ q # r => Older(r, q)}

\* on_loss_sale, for each loss of the fill: <<lot sold at a loss, replacement>>
LossesReplaced(s) ==
  UNION {{l} \X Replacements(s, l) : l \in {d \in Drawn(s) : Realized(s, d) < 0}}

\* Only losses of earlier days: a buy processed late finds none.
EarlierLosses(b) ==
  {k \in DOMAIN consumed :
     /\ consumed[k].realized < 0 /\ k \notin DOMAIN adjusted
     /\ fill[b].day - consumed[k].day \in 1 .. WindowDays}

\* find_unadjusted_losses_in_window, for on_buy_fill
UnadjustedLosses(b) ==
  {k \in DOMAIN consumed :
     /\ consumed[k].realized < 0 /\ k \notin DOMAIN adjusted
     /\ InWindow(consumed[k].day, fill[b].day)}

\* _apply_adjustment: never more than the replacement cost.
Disallowed(realized, cost) == AtMost(-realized, cost)

AdjustmentRoles == {"realized_gain_loss", "position_cost"}

\* The accounts of an adjustment, the transaction's own new rows included.
AdjustmentResolvable(f) ==
  \A r \in AdjustmentRoles : accounts[r] + (IF r \in fill[f].creates THEN 1 ELSE 0) <= 1

\* RestatementService.restate, at the day the replacement was acquired.
Restate(days) == restated' = restated \cup {<<"wash_sale_adjustment", d>> : d \in days}

-----------------------------------------------------------------------------
\* record_buy_fill

BeginBuy(b) ==
  /\ fill[b].pc = "waiting" /\ Resolvable(BuyRoles)
  /\ fill' = [fill EXCEPT ![b].pc = "began", ![b].creates = Missing(BuyRoles)]
  /\ UNCHANGED <<lots, consumed, adjusted, balance, accounts, obligations, sale,
                 restated, corporate, aborts, overlap, rounded>>

LockedLosses == UNION {fill[b].found : b \in {g \in Buys : fill[g].pc = "scanned"}}

ScanBuy(b) ==
  /\ fill[b].pc = "began"
  /\ UnadjustedLosses(b) \cap LockedLosses = {}
  /\ UnadjustedLosses(b) # {} => AdjustmentResolvable(b)
  /\ fill' = [fill EXCEPT ![b].pc = "scanned", ![b].found = UnadjustedLosses(b)]
  /\ UNCHANGED <<lots, consumed, adjusted, balance, accounts, obligations, sale,
                 restated, corporate, aborts, overlap, rounded>>

UnseenBy(f) == {{f, g} : g \in {h \in Fills \ {f} : fill[h].pc = "scanned"}}

Committed(f) ==
  /\ fill' = [fill EXCEPT ![f].pc = "done", ![f].creates = {}, ![f].locked = {},
                          ![f].found = {}]
  /\ AddAccounts(fill[f].creates)
  /\ overlap' = overlap \cup UnseenBy(f)

CommitBuy(b) ==
  LET cost == Times(fill[b].price, fill[b].quantity)
      carried == [k \in fill[b].found |-> Disallowed(consumed[k].realized, cost)]
      total == SumOver(carried, fill[b].found)
  IN /\ fill[b].pc = "scanned"
     /\ Post([position_units |-> fill[b].quantity, position_cost |-> cost, cash |-> -cost],
             total)
     /\ obligations' = Added(obligations, Row(b, -cost))
     /\ lots' = Added(lots, Row(b,
          [opened |-> fill[b].quantity, remaining |-> fill[b].quantity, cost |-> cost,
           basis |-> cost + total, day |-> fill[b].day, specific |-> FALSE]))
     /\ consumed' = [k \in DOMAIN consumed |->
                       IF k \in fill[b].found
                       THEN [consumed[k] EXCEPT !.realized = @ + carried[k]]
                       ELSE consumed[k]]
     /\ adjusted' = Added(adjusted, [k \in fill[b].found |-> [lot |-> b, amount |-> carried[k]]])
     /\ Restate(IF fill[b].found = {} THEN {} ELSE {fill[b].day})
     /\ Committed(b)
     /\ UNCHANGED <<sale, corporate, aborts, rounded>>

-----------------------------------------------------------------------------
\* record_sell_fill

BeginSell(s) ==
  /\ fill[s].pc = "waiting" /\ SellAccepted(s)
  /\ Selected(s) \cap LockedLots = {}
  /\ fill' = [fill EXCEPT ![s].pc = "began", ![s].creates = Missing(SellRoles),
                          ![s].locked = Selected(s)]
  /\ UNCHANGED <<lots, consumed, adjusted, balance, accounts, obligations, sale,
                 restated, corporate, aborts, overlap, rounded>>

\* The replacement is locked too.
ScanSell(s) ==
  LET replaced == LossesReplaced(s)
      targets == {p[2] : p \in replaced}
      others == LotsLockedBy({f \in Fills \ {s} : InTransaction(f)})
  IN /\ fill[s].pc = "began" /\ Balanced(SellLegs(s))
     /\ targets \cap others = {}
     /\ replaced # {} => AdjustmentResolvable(s)
     /\ fill' = [fill EXCEPT ![s].pc = "scanned", ![s].found = replaced]
     /\ UNCHANGED <<lots, consumed, adjusted, balance, accounts, obligations, sale,
                    restated, corporate, aborts, overlap, rounded>>

CommitSell(s) ==
  LET drawn == Drawn(s)
      carried == [p \in fill[s].found |-> Disallowed(Realized(s, p[1]), lots[p[2]].cost)]
      onLot(l) == {p \in fill[s].found : p[1] = l}
      intoLot(l) == {p \in fill[s].found : p[2] = l}
      amount == Times(fill[s].price, fill[s].quantity)
  IN /\ fill[s].pc = "scanned"
     /\ Post(SellLegs(s), SumOver(carried, fill[s].found))
     /\ obligations' = Added(obligations, Row(s, amount))
     /\ lots' = [l \in DOMAIN lots |->
          [lots[l] EXCEPT
             !.remaining = IF l \in drawn THEN @ - Take(s, l) ELSE @,
             !.basis = (IF l \in drawn THEN @ - ConsumedBasis(s, l) ELSE @)
                       + SumOver(carried, intoLot(l)),
             !.specific = @ \/ l \in Named(s)]]
     /\ consumed' = Added(consumed,
          [k \in {s} \X drawn |->
             [quantity |-> Take(s, k[2]), day |-> fill[s].day,
              realized |-> Realized(s, k[2]) + SumOver(carried, onLot(k[2]))]])
     /\ adjusted' = Added(adjusted,
          [k \in {<<s, p[1]>> : p \in fill[s].found} |->
             [lot |-> (CHOOSE p \in onLot(k[2]) : TRUE)[2],
              amount |-> SumOver(carried, onLot(k[2]))]])
     /\ sale' = [sale EXCEPT ![s].filled = @ + fill[s].quantity,
                   ![s].status = IF sale[s].filled + fill[s].quantity = sale[s].requested
                                 THEN "filled" ELSE "open"]
     /\ Restate({lots[p[2]].day : p \in fill[s].found})
     /\ Committed(s)
     /\ UNCHANGED <<corporate, aborts, rounded>>

\* A worker dies, or loses a deadlock: the transaction never happened.
Abort(f) ==
  /\ InTransaction(f) /\ aborts < MaxAborts
  /\ aborts' = aborts + 1
  /\ fill' = [fill EXCEPT ![f].pc = "waiting", ![f].creates = {}, ![f].locked = {},
                          ![f].found = {}]
  /\ UNCHANGED <<lots, consumed, adjusted, balance, accounts, obligations, sale,
                 restated, corporate, overlap, rounded>>

\* No attempt can succeed as things stand.
Failing(f) ==
  \/ fill[f].pc = "waiting" /\ f \in Buys /\ ~Resolvable(BuyRoles)
  \/ fill[f].pc = "waiting" /\ f \in Sells /\ ~SellAccepted(f)
  \/ fill[f].pc = "began" /\ f \in Sells /\ ~Balanced(SellLegs(f))
  \/ fill[f].pc = "began" /\ ~AdjustmentResolvable(f)
       /\ (IF f \in Buys THEN UnadjustedLosses(f) ELSE LossesReplaced(f)) # {}

\* The outbox gives a failing update up after its last attempt.
DeadLetter(f) ==
  /\ Failing(f)
  /\ fill' = [fill EXCEPT ![f].pc = "dead", ![f].creates = {}, ![f].locked = {}]
  /\ UNCHANGED <<lots, consumed, adjusted, balance, accounts, obligations, sale,
                 restated, corporate, aborts, overlap, rounded>>

-----------------------------------------------------------------------------
\* CorporateActionService

\* Holdings are read under locks on the open lots.
CorporateAction ==
  /\ corporate < MaxCorporate /\ corporate' = corporate + 1
  /\ OpenLots \cap LockedLots = {}
  /\ UNCHANGED <<consumed, adjusted, sale, fill, aborts, overlap>>

DeclareDividendExDate(perShare, day) ==
  LET amount == Times(perShare, Remaining(OpenLots))
  IN /\ CorporateAction
     /\ OpenLots # {} /\ Resolvable({"dividend_receivable"})
     /\ Post([dividend_receivable |-> amount, dividend_income |-> -amount], 0)
     /\ AddAccounts(Missing({"dividend_receivable"}))
     /\ restated' = restated \cup {<<"late_dividend", day>>}
     /\ UNCHANGED <<lots, obligations, rounded>>

PayDividend(amount, day) ==
  /\ CorporateAction
  /\ Resolvable({"dividend_receivable"})
  /\ Post([cash |-> amount, dividend_receivable |-> -amount], 0)
  /\ AddAccounts(Missing({"dividend_receivable"}))
  /\ obligations' = Added(obligations, Row(-(corporate + 1), amount))
  /\ restated' = restated \cup {<<"late_dividend", day>>}
  /\ UNCHANGED <<lots, rounded>>

\* A lot's quantity times the ratio, rounded lot by lot.
SplitLot(n, r) == Quantize(n * r[1], r[2])

\* Units added to the position are computed after the lots are multiplied.
SplitUnitsLate(r) == Quantize(SplitLot(Remaining(OpenLots), r) * (r[1] - r[2]), r[2])

\* The units added to the position, rounded once for the holding.
SplitUnits(r) == Quantize(Remaining(OpenLots) * (r[1] - r[2]), r[2])

ApplySplit(r, day) ==
  /\ CorporateAction
  /\ OpenLots # {} /\ Resolvable({"position_units"})
  /\ lots' = [l \in DOMAIN lots |->
                IF l \in OpenLots
                THEN [lots[l] EXCEPT !.opened = SplitLot(@, r), !.remaining = SplitLot(@, r)]
                ELSE lots[l]]
  /\ Post([position_units |-> SplitUnits(r)], 0)
  /\ restated' = restated \cup {<<"split", day>>}
  /\ rounded' = IF r[2] = 1 THEN rounded ELSE rounded + 1
  /\ UNCHANGED <<accounts, obligations>>

-----------------------------------------------------------------------------
\* LotsSummaryService.summarize, for one lot at the day's close: an unrealized
\* gain is shown only while something remains.
Summarize(l, close) ==
  LET sales == {k \in DOMAIN consumed : k[2] = l}
      carried == {k \in DOMAIN adjusted : adjusted[k].lot = l}
      value == Times(close, lots[l].remaining)
  IN [realized |-> SumOver([k \in sales |-> consumed[k].realized], sales),
      disallowed |-> SumOver([k \in carried |-> adjusted[k].amount], carried),
      value |-> value,
      unrealized |-> IF l \in OpenLots THEN value - lots[l].basis ELSE 0]

-----------------------------------------------------------------------------
Next ==
  \/ \E s \in Sells, q \in Quantities :
       \/ PlaceSell(s, q, <<>>)
       \/ \E l \in DOMAIN lots : PlaceSell(s, q, <<l>>)
       \/ \E l, m \in DOMAIN lots : l # m /\ PlaceSell(s, q, <<l, m>>)
  \/ \E s \in Sells : SubmitSell(s) \/ BeginSell(s) \/ ScanSell(s) \/ CommitSell(s)
  \/ \E b \in Buys : BeginBuy(b) \/ ScanBuy(b) \/ CommitBuy(b)
  \/ \E f \in Fills : \E report \in Reports[f] : BrokerReports(f, report)
  \/ \E f \in Fills : Abort(f) \/ DeadLetter(f)
  \/ \E a \in Rates, d \in ActionDays : DeclareDividendExDate(a, d) \/ PayDividend(a, d)
  \/ \E r \in Ratios, d \in ActionDays : ApplySplit(r, d)

Spec == Init /\ [][Next]_vars

-----------------------------------------------------------------------------
\* Properties

\* Rows keep their shapes: no lot is oversold, at most two workers' worth of
\* account rows exist, and a transaction holds locks only while it runs.
TypeOK ==
  /\ DOMAIN lots \subseteq Buys /\ \A l \in DOMAIN lots : lots[l] \in TaxLot
  /\ DOMAIN consumed \subseteq Sells \X Buys
  /\ \A k \in DOMAIN consumed : consumed[k] \in Consumption
  /\ DOMAIN adjusted \subseteq DOMAIN consumed
  /\ \A k \in DOMAIN adjusted : adjusted[k] \in Adjustment
  /\ balance \in [Roles -> Int] /\ accounts \in [Roles -> Nat]
  /\ \A f \in Fills : fill[f].pc \in Pcs /\ (~InTransaction(f) => fill[f].locked = {})
  /\ corporate \in 0 .. MaxCorporate /\ aborts \in 0 .. MaxAborts

\* The two books agree after every mixture of fills, wash sales and splits: the
\* ledger's cost and cash are the sums of what the tax lots and the settlement
\* obligations say, and so are its units but for half a quantum for each lot and
\* one for the entry at every split that rounds; its realized gains are those the lots are shown
\* with, every disallowed loss is shown on one lot, and at any close the gains
\* shown are the value of the holding plus the cash of its trades.  The basis a
\* wash sale carried into a lot already sold is the one part never shown.
BooksAgree ==
  LET ls == DOMAIN lots
      basis == [l \in ls |-> lots[l].basis]
      amounts == [k \in DOMAIN adjusted |-> adjusted[k].amount]
      summary(close) == [l \in ls |-> Summarize(l, close)]
      total(rows, part) == SumOver([l \in ls |-> rows[l][part]], ls)
      realized == -balance["realized_gain_loss"]
      drift == (Cardinality(ls) + 1) * rounded
  IN /\ 2 * (balance["position_units"] - Remaining(ls)) \in -drift .. drift
     /\ balance["position_cost"] = SumOver(basis, ls)
     /\ balance["cash"] = SumOver(obligations, DOMAIN obligations)
     /\ \A close \in {fill[f].price : f \in Sells} :
          LET rows == summary(close) IN
          /\ total(rows, "realized") = realized
          /\ total(rows, "disallowed") = SumOver(amounts, DOMAIN adjusted)
          /\ realized + total(rows, "unrealized")
               = total(rows, "value") + SumOver(obligations, DOMAIN obligations \cap Fills)
                   + SumOver(basis, ls \ OpenLots)

\* A loss with a same-security buy within the window on either side is
\* disallowed, whichever fill was processed first, unless the two transactions
\* overlapped and neither scan saw the other's row.
WashSaleFound ==
  \A k \in DOMAIN consumed :
    consumed[k].realized < 0 /\ k \notin DOMAIN adjusted =>
      \A b \in DOMAIN lots \ {k[2]} :
        InWindow(lots[b].day, consumed[k].day) => {k[1], b} \in overlap

\* Without a designation the oldest lots go first: a step that draws on a lot
\* leaves nothing in the older lots that were open to it.
OldestFirst ==
  [][\A s \in Sells :
       sale[s].named = <<>> /\ fill[s].pc = "scanned" /\ fill'[s].pc = "done" =>
         \A l, o \in fill[s].locked :
           lots'[l].remaining < lots[l].remaining /\ Older(o, l) => lots'[o].remaining = 0
    ]_vars

\* What the documentation says and the code does not do

\* account holds one row per role of a customer and security.
OneAccountPerRole == \A r \in Roles : accounts[r] <= 1

\* apply_split "multiplies every open lot's quantity by `ratio`, posts a units-only
\* entry": the position still has the units of its lots.  Refuted by a fractional
\* ratio, which rounds each lot but the entry only once.
SplitKeepsUnits == balance["position_units"] = Remaining(DOMAIN lots)

\* The entry of a sell whose lots cover it sums to zero, however many lots it
\* draws on: the update of such a fill can be applied.
SellEntriesBalance ==
  \A s \in Sells : fill[s].pc = "began" => Balanced(SellLegs(s))

\* Orders with a designation never claim more than their lots hold.
DesignationsCovered ==
  \A s \in OpenSells :
    sale[s].named # <<>> /\ fill[s].pc \in {"none", "waiting"} =>
      Remaining(Named(s)) >= sale[s].requested - sale[s].filled
=============================================================================
