----------------------------- MODULE Performance -----------------------------
(* Valuation, time-weighted return, published statements, restatement and the
   performance fee of one customer: services/valuation, services/restatement,
   services/fees/{high_water_mark,fee_accrual}_service.py and the jobs that
   drive them.  Figures are read by several transactions at READ COMMITTED: a
   transaction is stamped with the database's now() when it begins, reads what
   is committed when it works, and its writes, all carrying that stamp, appear
   when it commits.  The customer holds Shares of one security from day 0.   *)
EXTENDS Money, SequencesExt, FiniteSetsExt

CONSTANTS MaxDate,      \* the last market date
          Holidays,     \* dates with no trading session, hence no close
          Shares, OpeningCash, Prices, Gift,  \* the book and what moves it
          PeriodEnd,    \* the billed period is [0, PeriodEnd]
          Quantum,      \* 1/Quantum is the last digit of a return
          Queries,      \* the periods whose return is asked for
          Slots, MaxClock, MaxFlows, None

\* The rows of daily_close, of deposits and withdrawals, of sub_period_return and
\* of fee_accrual.
Close == [date : Nat, price : Nat, at : Nat]
FlowRow == [date : Nat, amount : Nat]
SubPeriod == [from : Nat, to : Nat, begin : Nat, end : Nat, flow : Nat,
              provisional : BOOLEAN, at : Nat]
Accrual == [date : Nat, gain : Nat, fee : Nat, shadow : Int, at : Nat]

ASSUME PerformanceAssumption ==
  /\ MaxDate \in Nat /\ PeriodEnd \in 1..MaxDate /\ Holidays \subseteq 0..MaxDate
  /\ Shares \in Nat /\ OpeningCash \in Nat /\ Gift \in Nat
  /\ Prices \subseteq Nat /\ Prices # {}
  /\ Queries \subseteq Nat \X Nat
  /\ Quantum \in Nat \ {0} /\ MaxClock \in Nat /\ MaxFlows \in Nat
  /\ None \notin Close /\ None \notin SubPeriod /\ None \notin Accrual /\ None \notin Int

VARIABLES today,      \* the market date
          clock,      \* the database's clock; every begin takes the next value
          closes,     \* daily_close
          flows,      \* deposits and withdrawals of the ledger
          rows,       \* sub_period_return
          snapshots,  \* published_snapshot
          peak,       \* high_water_mark.peak_value
          accruals,   \* fee_accrual
          charge,     \* fee_charge of the period
          txn         \* the transaction of each slot

perfVars == <<today, clock, closes, flows, rows, snapshots, peak, accruals, charge, txn>>

Jobs == {"accrual", "charge"}

-----------------------------------------------------------------------------
\* Valuation and return.

latest_confirmed(cs, d) ==
  LET of == {c \in cs : c.date = d}
  IN IF of = {} THEN None ELSE CHOOSE c \in of : \A o \in of : c.at >= o.at

cash_balance(fs, d) ==
  OpeningCash + SumOver([f \in fs |-> f.amount], {f \in fs : f.date <= d})

\* A security without a close of that very date is left out and the book flagged.
value_book(cs, fs, d) ==
  LET close == latest_confirmed(cs, d)
  IN [total |-> cash_balance(fs, d) + (IF close = None THEN 0 ELSE Shares * close.price),
      partial |-> Shares # 0 /\ close = None]

flow_amount_on(fs, d) == SumOver([f \in fs |-> f.amount], {f \in fs : f.date = d})

flow_dates(fs, from, to) == {f.date : f \in {g \in fs : from < g.date /\ g.date < to}}

\* sorted: the date with i - 1 earlier ones is the i-th.
boundaries(fs, from, to) ==
  LET dates == {from, to} \cup flow_dates(fs, from, to)
  IN [i \in 1 .. Cardinality(dates) |->
        CHOOSE d \in dates : Cardinality({e \in dates : e < d}) = i - 1]

Windows(fs, from, to) ==
  LET b == boundaries(fs, from, to)
  IN [i \in 1..(Len(b) - 1) |-> <<b[i], b[i + 1]>>]

ReturnPct(row) ==
  IF row.begin = 0 THEN 0
  ELSE Quantize((row.end - row.begin - row.flow) * Quantum, row.begin)

\* link: the product of 1 + r over the rows, less 1, rounded once.
link(seq) ==
  LET product[n \in 0 .. Len(seq)] ==
        IF n = 0 THEN 1 ELSE product[n - 1] * (Quantum + ReturnPct(seq[n]))
      unit[n \in 0 .. Len(seq)] == IF n = 0 THEN 1 ELSE unit[n - 1] * Quantum
  IN IF Len(seq) = 0 THEN 0
     ELSE Quantize(product[Len(seq)], unit[Len(seq) - 1]) - Quantum

OfWindow(rs, w) == {r \in rs : r.from = w[1] /\ r.to = w[2]}

Newest(rs) == IF rs = {} THEN None ELSE CHOOSE r \in rs : \A o \in rs : r.at >= o.at

latest_for_sub_period(rs, w) == Newest(OfWindow(rs, w))

as_of_for_sub_period(rs, w, cutoff) == Newest({r \in OfWindow(rs, w) : r.at <= cutoff})

\* _sub_period_return: the stored row when nothing in it changed, else a new one.
SubPeriodReturn(cs, fs, rs, w, at) ==
  LET b == value_book(cs, fs, w[1])
      e == value_book(cs, fs, w[2])
      fresh == [from |-> w[1], to |-> w[2], begin |-> b.total, end |-> e.total,
                flow |-> flow_amount_on(fs, w[2]), provisional |-> b.partial \/ e.partial,
                at |-> at]
      existing == latest_for_sub_period(rs, w)
  IN IF existing # None /\ [existing EXCEPT !.at = at] = fresh THEN existing ELSE fresh

compute_twr(cs, fs, rs, from, to, at) ==
  LET ws == Windows(fs, from, to)
  IN [i \in DOMAIN ws |-> SubPeriodReturn(cs, fs, rs, ws[i], at)]

\* list_in_range over the whole history, in the order link expects.
ListInRange(rs, from, to) ==
  {Newest(OfWindow(rs, <<r.from, r.to>>)) : r \in {q \in rs : q.from <= to /\ q.to >= from}}

-----------------------------------------------------------------------------
\* Published statements and restatement.

\* derive: each window's stored row as of the watermark; None when one is missing.
derive(fs, rs, s) ==
  LET ws == Windows(fs, s.from, s.to)
      found == [i \in DOMAIN ws |-> as_of_for_sub_period(rs, ws[i], s.watermark)]
  IN IF \E i \in DOMAIN ws : found[i] = None THEN None
     ELSE [twr |-> link(found), balance |-> Last(found).end]

cross_check(fs, rs, s) == derive(fs, rs, s) = [twr |-> s.twr, balance |-> s.balance]

list_touching(d) == {s \in snapshots : s.from <= d /\ d <= s.to}

containing(rs, d) == {<<r.from, r.to>> : r \in {q \in rs : q.from <= d /\ d <= q.to}}

\* restate: recompute every stored window around the date, then re-link every
\* published period around it.
restate(cs, fs, rs, d, at) ==
  LET recomputed == rs \cup {SubPeriodReturn(cs, fs, rs, w, at) : w \in containing(rs, d)}
      relinked(s) == Range(compute_twr(cs, fs, recomputed, s.from, s.to, at))
  IN IF containing(rs, d) = {} THEN rs
     ELSE recomputed \cup UNION {relinked(s) : s \in list_touching(d)}

\* publish pinned to a clock that runs behind the database's.
PublishBehind(cs, fs, rs, from, to, at, overlapping) ==
  LET linked == compute_twr(cs, fs, rs, from, to, at)
  IN [from |-> from, to |-> to, watermark |-> at - 1, twr |-> link(linked),
      balance |-> Last(linked).end, overlapping |-> overlapping]

\* publish: the figures just linked, at the transaction's own now().  The stamps
\* of the transactions that overlap it are kept to state what it guarantees.
publish(cs, fs, rs, from, to, at, overlapping) ==
  LET linked == compute_twr(cs, fs, rs, from, to, at)
  IN [from |-> from, to |-> to, watermark |-> at, twr |-> link(linked),
      balance |-> Last(linked).end, overlapping |-> overlapping]

\* GET /statements/<period>: the snapshot of the watermark named, or the one
\* published last.
latest_for_period(from) ==
  LET of == {s \in snapshots : s.from = from}
  IN {s \in of : \A o \in of : s.watermark >= o.watermark}

at_watermark_for_period(from, watermark) ==
  {s \in snapshots : s.from = from /\ s.watermark = watermark}

get_statement(from, watermark) ==
  IF watermark = None THEN latest_for_period(from)
  ELSE at_watermark_for_period(from, watermark)

\* GET /statements lists every snapshot; each can be opened by its watermark.
Statements ==
  UNION {get_statement(s.from, w) : s \in snapshots,
                                    w \in {None} \cup {o.watermark : o \in snapshots}}

-----------------------------------------------------------------------------
\* PortfolioPerformanceService: the live chart.

\* performance: the stored rows in order, as points and as one linked return.
performance(rs, from, to) ==
  LET earlier(r, q) == r.from < q.from \/ (r.from = q.from /\ r.to < q.to)
      rowsOf == SetToSortSeq(ListInRange(rs, from, to), earlier)
  IN [twr |-> link(rowsOf),
      provisional |-> \E i \in DOMAIN rowsOf : rowsOf[i].provisional,
      points |-> IF rowsOf = <<>> THEN <<>>
                 ELSE <<[date |-> rowsOf[1].from, value |-> rowsOf[1].begin]>> \o
                      [i \in DOMAIN rowsOf |-> [date |-> rowsOf[i].to, value |-> rowsOf[i].end]]]

-----------------------------------------------------------------------------
\* The fee.

first_flow_date == 0

\* shadow_nav: what one dollar of the opening book would be worth, in dollars.
shadow_nav(cs, fs, linked) ==
  Quantize(value_book(cs, fs, first_flow_date).total * (Quantum + link(linked)), Quantum)

\* ratchet that follows the value down as well.
RatchetBoth(high, shadow) ==
  [gain |-> IF shadow > high THEN shadow - high ELSE 0, peak |-> shadow]

ratchet(high, shadow) ==
  [gain |-> IF shadow > high THEN shadow - high ELSE 0,
   peak |-> IF shadow > high THEN shadow ELSE high]

\* The fee is one day of the yearly rate on the gain; only its sign and its sum
\* matter here, so the rate is 1.
fee_amount(gain) == gain

-----------------------------------------------------------------------------
Idle == [op |-> "none"]

NoWrites == [closes |-> {}, rows |-> {}, snapshots |-> {}, accrual |-> None,
             peak |-> None, charge |-> None]

Open(t) == txn[t].op # "none"

\* A job's advisory lock: one transaction per job name.
Unlocked(op) == op \in Jobs => \A t \in Slots : txn[t].op # op

Begin(t, op, d, e) ==
  /\ ~Open(t) /\ clock < MaxClock /\ Unlocked(op)
  /\ clock' = clock + 1
  /\ txn' = [txn EXCEPT ![t] = [op |-> op, from |-> d, to |-> e, at |-> clock + 1,
                                worked |-> FALSE, writes |-> NoWrites]]
  /\ UNCHANGED <<today, closes, flows, rows, snapshots, peak, accruals, charge>>

\* The requests and job runs that may begin on a given day.
BeginAccrual(t) == \E d \in 0..today : Begin(t, "accrual", d, d)
BeginReturns(t) == \E q \in Queries : q[1] <= today /\ Begin(t, "returns", q[1], q[2])
BeginCorrection(t) == \E c \in closes : Begin(t, "correction", c.date, c.date)
BeginCharge(t) == today > PeriodEnd /\ Begin(t, "charge", 0, PeriodEnd)

Working(t, op) == txn[t].op = op /\ ~txn[t].worked

Write(t, writes) ==
  /\ txn' = [txn EXCEPT ![t].worked = TRUE, ![t].writes = writes]
  /\ UNCHANGED <<today, clock, closes, flows, rows, snapshots, peak, accruals, charge>>

\* The transaction raised: everything it wrote is gone.  (One that dies before
\* its commit is one that never began.)
Rollback(t) ==
  /\ txn' = [txn EXCEPT ![t] = Idle]
  /\ UNCHANGED <<today, clock, closes, flows, rows, snapshots, peak, accruals, charge>>

\* GET /valuation/returns stores the windows it had to compute.
Returns(t) ==
  /\ Working(t, "returns")
  /\ Write(t, [NoWrites EXCEPT !.rows =
       Range(compute_twr(closes, flows, rows, txn[t].from, txn[t].to, txn[t].at)) \ rows])

\* inject_corrected_price: a second confirmed close and the restatement, in one
\* transaction; a snapshot that no longer reproduces raises.
Correct(t) ==
  /\ Working(t, "correction")
  /\ \E p \in Prices :
       LET new == {[date |-> txn[t].from, price |-> p, at |-> txn[t].at]}
           cs == closes \cup new
           rs == restate(cs, flows, rows, txn[t].from, txn[t].at)
           sound == \/ containing(rows, txn[t].from) = {}
                    \/ \A s \in list_touching(txn[t].from) : cross_check(flows, rs, s)
       IN \/ sound /\ Write(t, [NoWrites EXCEPT !.closes = new, !.rows = rs \ rows])
          \/ ~sound /\ Rollback(t)

\* accrue_for_customer: the mark and the accrual in one savepoint, so a date
\* already accrued leaves the mark alone; the rows of compute_twr stay.
Accrue(t) ==
  /\ Working(t, "accrual")
  /\ LET d == txn[t].from
         linked == IF d = first_flow_date THEN <<>>
                   ELSE compute_twr(closes, flows, rows, first_flow_date, d, txn[t].at)
         shadow == shadow_nav(closes, flows, linked)
         high == IF peak = None THEN shadow ELSE peak
         r == ratchet(high, shadow)
         new == [NoWrites EXCEPT !.rows = Range(linked) \ rows]
     IN \/ /\ value_book(closes, flows, first_flow_date).total = 0
           /\ Write(t, NoWrites)
        \/ /\ value_book(closes, flows, first_flow_date).total # 0
           /\ IF \E a \in accruals : a.date = d
              THEN Write(t, new)
              ELSE Write(t, [new EXCEPT !.peak = r.peak,
                     !.accrual = [date |-> d, gain |-> r.gain, fee |-> fee_amount(r.gain),
                                  shadow |-> shadow, at |-> txn[t].at]])

\* create_pending_charge: bill what the period accrued, publishing it first.
Bill(t) ==
  /\ Working(t, "charge")
  /\ LET total == SumOver([a \in accruals |-> a.fee],
                    {a \in accruals : 0 <= a.date /\ a.date <= PeriodEnd})
         overlapping == {txn[o].at : o \in {p \in Slots \ {t} : Open(p)}}
                          \cup {r.at : r \in {q \in rows : q.at > txn[t].at}}
         reused == {s \in snapshots : s.from = 0 /\ s.to = PeriodEnd}
         new == publish(closes, flows, rows, 0, PeriodEnd, txn[t].at, overlapping)
         linked == Range(compute_twr(closes, flows, rows, 0, PeriodEnd, txn[t].at))
         watermark == Max({s.watermark : s \in IF reused = {} THEN {new} ELSE reused})
     IN \/ (charge # None \/ total = 0) /\ Write(t, NoWrites)
        \/ /\ charge = None /\ total # 0
           /\ Write(t, [NoWrites EXCEPT
                !.rows = IF reused = {} THEN linked \ rows ELSE {},
                !.snapshots = IF reused = {} THEN {new} ELSE {},
                !.charge = [total |-> total, watermark |-> watermark]])

Commit(t) ==
  /\ Open(t) /\ txn[t].worked
  /\ closes' = closes \cup txn[t].writes.closes
  /\ rows' = rows \cup txn[t].writes.rows
  /\ snapshots' = snapshots \cup txn[t].writes.snapshots
  /\ accruals' = IF txn[t].writes.accrual = None THEN accruals
                 ELSE accruals \cup {txn[t].writes.accrual}
  /\ peak' = IF txn[t].writes.peak = None THEN peak ELSE txn[t].writes.peak
  /\ charge' = IF txn[t].writes.charge = None THEN charge ELSE txn[t].writes.charge
  /\ txn' = [txn EXCEPT ![t] = Idle]
  /\ UNCHANGED <<today, clock, flows>>

\* TradingCalendar.is_trading_day
is_trading_day(d) == d \notin Holidays

\* DailyValuationJob.perform: a close for the date if the provider has one.  It
\* reads no figure, so its transaction is one step.
DailyValuation ==
  /\ clock < MaxClock
  /\ is_trading_day(today)
  /\ \E p \in Prices : closes' = closes \cup {[date |-> today, price |-> p, at |-> clock + 1]}
  /\ clock' = clock + 1
  /\ UNCHANGED <<today, flows, rows, snapshots, peak, accruals, charge, txn>>

\* A deposit or withdrawal is posted today, session or no session.
Flow ==
  /\ Cardinality(flows) < MaxFlows
  /\ \A f \in flows : f.date # today
  /\ flows' = flows \cup {[date |-> today, amount |-> Gift]}
  /\ UNCHANGED <<today, clock, closes, rows, snapshots, peak, accruals, charge, txn>>

NextDay ==
  /\ today < MaxDate
  /\ today' = today + 1
  /\ UNCHANGED <<clock, closes, flows, rows, snapshots, peak, accruals, charge, txn>>

\* The evening of day 1, valued but not yet accrued; day 0 was both.
PerfInit ==
  /\ today = 1 /\ clock = 0
  /\ \E p \in Prices : closes = {[date |-> 0, price |-> Min(Prices), at |-> 0],
                                [date |-> 1, price |-> p, at |-> 0]}
  /\ flows = {} /\ rows = {} /\ snapshots = {} /\ charge = None
  /\ peak = OpeningCash + Shares * Min(Prices)
  /\ accruals = {[date |-> 0, gain |-> 0, fee |-> 0, shadow |-> peak, at |-> 0]}
  /\ txn = [t \in Slots |-> Idle]

PerfNext ==
  \/ DailyValuation \/ Flow \/ NextDay
  \/ \E t \in Slots :
       \/ BeginAccrual(t) \/ BeginReturns(t)
       \/ BeginCorrection(t) \/ BeginCharge(t)
       \/ Returns(t) \/ Correct(t) \/ Accrue(t) \/ Bill(t)
       \/ Commit(t)

PerfSpec == PerfInit /\ [][PerfNext]_perfVars

-----------------------------------------------------------------------------
\* Every statement a customer can open, by period or by watermark, reproduces the
\* figures it shows when it is re-derived at its own watermark
\* (SnapshotService.cross_check), whatever is corrected, restated, read or
\* deposited afterwards.  The exception the code has: a row of a transaction
\* that overlapped the publication, stamped before the watermark and committed
\* after it, or stamped after it and already used.
PublishedReproduces ==
  /\ Statements = snapshots
  /\ \A s \in Statements : \/ cross_check(flows, rows, s)
                           \/ \E r \in rows : r.at \in s.overlapping

\* The gains the customer was charged for add up to the rise of the high-water
\* mark from the first accrued value, and the mark is the highest value ever
\* accrued (FeeAccrualService.accrue_for_customer): a fall and recovery, a date
\* run twice or a date run late is never paid for twice.
GainsMeetPeak ==
  IF accruals = {} THEN peak = None
  ELSE LET first == CHOOSE a \in accruals : \A o \in accruals : a.at <= o.at
       IN /\ peak = Max({a.shadow : a \in accruals})
          /\ SumOver([a \in accruals |-> a.gain], accruals) = peak - first.shadow

\* 04-valuation-and-returns.md: "arbitrary flow sequences must produce a return
\* unaffected by flow timing".  With every close ever recorded at one price, no
\* window between complete days can show a gain or a loss.  Refuted: a deposit
\* on a day without a session puts a boundary where the securities have no close.
FlowsLeaveReturnAlone ==
  \A e \in 1..today :
    (/\ Cardinality({c.price : c \in closes}) = 1
     /\ \A d \in {0, e} : latest_confirmed(closes, d) # None)
      => link(compute_twr(closes, flows, rows, 0, e, clock)) = 0

\* portfolio_performance_service.py: "a cumulative time-weighted return".  With
\* no flows it is the change from the first point to the last, but for rounding.
\* Refuted: the daily accruals store the windows [0, 1], [0, 2], ..., and the
\* return of a day is linked once for every window that holds it.
ChartLinksOnce ==
  LET chart == performance(rows, 0, MaxDate)
      first == chart.points[1].value
      change == Quantize((Last(chart.points).value - first) * Quantum, first)
  IN flows = {} /\ chart.points # <<>> /\ ~chart.provisional /\ first # 0 =>
       chart.twr - change \in -1 .. 1
=============================================================================
