# A TLA+ verification of Trueup's backend

Trueup is a regulated retail-investing backend: customers fund an account by
ACH, place orders that a broker executes, and pay a monthly performance fee.
Every balance is derived from an append-only ledger. The code is Python over
PostgreSQL (`src/backend/app`); its correctness rests on what happens *between*
transactions: retries of an outbox worker, answers of a broker or of Stripe
that get lost, events that arrive late, requests that read a balance in several
queries, jobs that are killed or run twice. These are the behaviours modelled.

The modules are written from the code. `PROJECT.json` maps every definition to
the lines it models and lists the hazards it is aimed at, the runs, the mutants
that show each property can fail, the findings and the theorems.

## 1. The system

| Component | State it keeps | Operations | Interacts with | What is hard |
| --- | --- | --- | --- | --- |
| Outbox and intake | `inbound_event`, `job_outbox` | intake, enqueue + NOTIFY, claim, handle, complete, retry or dead-letter | everything asynchronous | two workers, redelivery, a handler that commits and then fails, a dead worker |
| Orders | `order`, `order_event`, `approval_hold` | create, approve, cancel, submit, apply trade update | outbox, broker, cash policy, lots | the broker call inside a row lock, lost answers, events out of order |
| Cash policy and funding | postings, `settlement_obligation`, `customer_cash_lock` | deposit, withdraw, place, settle, ACH return | orders, Plaid | balances read in several READ COMMITTED queries while unlocked writers commit |
| Fee charge and dunning | `fee_charge`, `dunning_state` | create, charge, succeed, fail, retry | outbox, Stripe, webhook | two callers, processing payments, lost answers |
| Lots, wash sales, corporate actions | `tax_lot`, `lot_consumption`, `wash_sale_adjustment`, `account`, postings | buy fill, sell fill, adjust, split, dividend, designate | orders, ledger, restatement | rounding, two fills at once, either order of a wash sale |
| KYC and approval | `kyc_session`, `customer`, ledger accounts | start, verdict, status request, override, approve | Stripe, orders | verdicts applied by three paths, stale rows, effects after intake |
| Bank links, idempotency, paging | `bank_link`, `idempotency_key` | link, re-authenticate, request, replay, list | Plaid, cash policy, orders | repeated and concurrent requests, rows added while a client pages |
| Staff, tokens, agent requests | session, `staff_api_token`, `agent_action_request`, `admin_audit_log` | log in, verify, propose, review | MCP agents, breaks, rebalance | half logins, an action that fails in the middle |
| Valuation, returns, statements, accrual | `daily_close`, `sub_period_return`, `published_snapshot`, `high_water_mark`, `fee_accrual` | value, link, publish, restate, accrue, bill | fee charge, ledger | stamps against commit order, late and repeated dates |
| Jobs | `job_run`, advisory lock | run | every job | a kill between the work and its row |
| Reconciliation | `custodian_file_row`, `reconciliation_break` | import, compare, resolve | ledger, custodian file | books that move between two readings, two resolvers |
| Rebalancing | assignments, models, orders | evaluate, sell, size, buy | cash policy, orders, jobs | sizing outside the lock, re-runs, rounding |
| Chat assistant | `chat_session`, `chat_message`, `chat_tool_call` | begin, stream, call tools, end | OpenAI, curated views | cap and lock races, disconnections, dead threads |
| Market data, push, profile, adapters, frontend | caches and views | reads | | little protocol of their own |

What makes each correct:

* **Outbox**: one worker at a time per row, at most `max_attempts` handler runs,
  `completed` only if the effect is durable, final outcomes, every event settles.
* **Orders**: one broker order per order; nothing shown as submitted that the
  broker does not have; the cached columns are the fold of the events; cash is
  held until the order is resolved; every execution counts once, or it is known why
  it does not.
* **Cash**: only settled cash is withdrawn (where no amount is below zero); the
  daily deposit cap holds.
* **Fees**: charged once, posted once and for collected money; the dunning row
  agrees with the charge; a failed charge is collected or visibly owed.
* **Lots**: ledger and lots tell one story; a wash sale is found from either side.
* **Onboarding**: final verdicts; approval provisions once and only the verified.
* **Requests**: a key works once; a list shows every row once.
* **Staff**: a review is atomic and made by a person who gave both factors.
* **Performance**: a statement can be re-derived; no gain is charged twice.
* **Reconciliation**: breaks are the differences; one person resolves a break.
* **Rebalancing**: what a run commits is what it checked, and buys leave the buffer.
* **Chat**: the cap, one turn per session, audited tools, sessions end.

## 2. Modules

| Module | Models | Role |
| --- | --- | --- |
| `WorkQueue` | the promise of a work queue | abstract specification |
| `Outbox` | intake, `job_outbox`, worker processes | component, refines `WorkQueue` |
| `OrderLifecycle` | order service, submission task, projection, hold, broker | component |
| `CashPolicy` | policy functions and the requests that spend against them | component |
| `FeeCharge` | charge, outbox task, dunning job, webhook, Stripe | component |
| `Money` | `core/money.py` | operators |
| `Lots` | lots, wash sales, corporate actions, designation, their postings | component, extends `Money` |
| `Onboarding` | KYC sessions, verdicts, overrides, approval | component |
| `Pages` | keyset pagination | operators |
| `BankLinks` | bank links and the Plaid webhook | component |
| `Requests` | idempotent money requests and paged lists | composes `BankLinks` and `Pages` |
| `StaffReview` | sessions, tokens, MCP tools, reviews | component |
| `Performance` | valuation, returns, statements, restatement, accrual, billing | component, extends `Money` |
| `Jobs` | `ScheduledJob.run` | template |
| `Reconciliation` | morning reconciliation and breaks | component, extends `Jobs` |
| `Rebalance` | monthly rebalancing | component, extends `Jobs` and `Money` |
| `Chat` | the account assistant | component |
| `Sums` | | TLAPS lemmas the proofs share: induction over sets of numbers, sums over finite sets, listings in order, counting, extremes |
| `OrderProofs`, `CashProofs` | | TLAPS proofs about `OrderLifecycle` and `CashPolicy` |
| `WorkProofs` | | TLAPS proofs about `Outbox` and `Reconciliation` |
| `OnceProofs` | | TLAPS proofs about `FeeCharge` and `Requests` |
| `PortfolioProofs` | | TLAPS proofs about `Lots` and `Performance` |
| `CustomerProofs` | | TLAPS proofs about `Onboarding` and `Rebalance` |
| `AssistantProofs` | | TLAPS proofs about `StaffReview` and `Chat` |
| `MC_*` | | constants for TLC; `MC_Lots` checks `Money`'s `Allocate` against its docstring over bounded inputs |

Each component module also holds, next to a definition, the wrong variants of it
(a guard dropped, an off-by-one) that show a property can fail, and at its end
the statements of the documentation that the code does not keep. Neither is part
of a specification. A type invariant (`TypeOK`; `RequestsTypeOK` in `Requests`)
stands in most modules; it holds in the runs and can be named in any of their
configurations. Those of `Outbox`, `CashPolicy`, `Onboarding` and `StaffReview`
are proved; elsewhere the inductive invariant has the types the argument needs.
Where a proof module is about two components, which share no state, one of them
has names of its own for its initial state, next-state relation and
specification (`ChatSpec`, `ReconSpec`, `RequestsSpec`, `PerfSpec`,
`RebalanceSpec`).

### Outbox

A row is identified with the work it carries. `claim_next` is two steps,
`SelectForUpdate` (the row lock) and `CommitClaim`, because two workers can be
between them at once; `SKIP LOCKED` is `~RowLocked`. `next_attempt_at` is the
flag `due`, cleared by a retry and set again by `BackoffElapses`: rows come due
in any order. A handler is its own transaction: it raises before committing,
commits and returns, or (`_process_inbound_event` only) commits its effect and
raises afterwards. What a repeated handler does follows the code it stands for:
a trade update hits its unique `execution_id`, a submission or charge finds the
order or charge moved on. `WorkerId` maps processes to `outbox-worker-<pid>`
and is not injective: containers repeat pids, and both workers of the runs have
the same one. `Crash` restarts a worker; an uncommitted claim rolls back, a
committed one stays. An invalid signature commits nothing and is left out.

`WorkQueue` is the abstraction: submit, take, finish, return, give up, and lose
(the holder dies). The refinement maps `pending` to waiting, `processing` to
taken, and the workers inside a handler to holders.

### OrderLifecycle

One clock stamps both sides' events, as `seq_from_timestamp` does; the stamp is
the time an event *happens*, and processing order is free; two events may share
a microsecond. `submit_to_broker` holds the order's row lock while it waits for
the broker, so other writers of the order wait (`RowLocked`). A request can
outlive its caller (`wire`): the broker may take it after the task failed or its
process died. A second request with the same `client_order_id` is refused.
`ApplyNewEvent` is insert, fold, cached columns and hold release, in one
transaction. What becomes of a trade update: it is lost on the stream or at
intake (`HandleMessage`), applied, once or again (`ApplyUpdate`), refused on
every attempt by a unique key (`RefuseUpdate`), or it fails for another reason
until it is a dead letter, or is left in `processing` by a dead worker
(`FailUpdate`: no such `client_order_id`, an invalid payload, lots or ledger
entries of the same transaction that raise; `Lots` has those). The task's
retries stand for the outbox's, whose own protocol is in `Outbox`: the two
compose through its proved promises (one holder, bounded tries, death loses the
row).

Lots and designations are in `Lots`, the cash check in `CashPolicy`, the
idempotency key in `Requests`. Left out: the push after commit, the loop that
reconnects the websocket.

### CashPolicy

One customer. Nothing stores a balance: the policy functions are operators over
the ledger facts, and a request evaluates them one query at a time (`ReadTerm`)
while it holds the cash lock. Submission, fills, confirmation and ACH returns do
not take the lock in the code and so are enabled at any time. The lock row, the
comparison and the effect are the request's; a failed eligibility or bank link
check is a request that never starts. Amounts have either sign, as in the code,
where only upper limits are checked: a negative withdrawal adds cash, a negative
notional opens a hold that lends. A fill is at the broker's price, not at the
price the order was checked with. No code path calls
`SettlementObligationRepository.confirm`; it is modelled as the operation it is,
since without it nothing is ever withdrawable.

### FeeCharge

`charge_fee` reads in one transaction, calls Stripe with none open and records
in a second; the outbox and the dunning job both run it. Stripe is external: it
repeats the first answer to a known idempotency key, may forget a declined one
once a dunning backoff (24 h and more) has passed, and settles a processing
intent later. Three facts of the code and its schedule keep the two callers
apart, and the model relies on them: the outbox's backoff is seconds, so its row
is finished long before the first dunning retry; the advisory lock of
`ScheduledJob.run` keeps dunning runs from overlapping; the job runs under the
`continuous` cadence, well within the time Stripe remembers a success. The
webhook finds a charge only by `stripe_charge_id`, which is written together
with `succeeded`. A process that dies leaves the outbox row in `processing`,
which nobody claims again: `dead` stands for both ends of a row. The loop of one
dunning run over several charges is not modelled: charges are independent.

### Money and Lots

Money, units and prices are whole numbers of their own quantum; a price tick
times a unit tick is 1/`Scale` of a money quantum, and every product and
quotient is rounded half to even as `_QuantizedDecimal` does. `Scale` = 2 makes
half a quantum the usual case instead of a rare one.

`Lots` has one customer and one security. A fill is a transaction of three
steps, because two outbox workers may be inside two fills: `Begin*` selects and
locks lots and finds or creates accounts, `Scan*` looks for the other half of a
wash sale among the committed rows, `Commit*` writes. A fill that raises rolls
back (`Abort`) and is delivered again, and ends as a dead letter when it cannot
be posted. `BooksAgree` relates the ledger balances to what the lots, the
obligations and the customer's lots summary show. `overlap` records which
transactions ran at the same time: `WashSaleFound` excepts exactly those. A split
has a ratio of two whole numbers above one; it rounds each lot and, once, the
ledger's entry. `rounded` counts those with a fraction: `BooksAgree` allows the
units their roundings and nothing more.
`CorporateActionService` has no caller in the application; its operations are
modelled as they are.

### Onboarding

Webhook, repeated webhook and status request apply a verdict along the same path;
the request asks Stripe first (`GetIdentityStatus`, then `SyncLatestVerification`).
The ORM writes what it loaded: a step that loads and a step that writes are
apart wherever another transaction can get between. The database trigger
(`SingleTransition`) makes the second write of a session fail; the customer row
has no such guard. Approval takes the customer's row and provisions the ledger.

### BankLinks, Pages, Requests

A Plaid item error is deduplicated by item and applied after intake committed.
A funding request needs an active link when it begins. The three endpoints
share one table of keys: look-up, work and `save` are separate, and the unique
key decides at the commit (`KeyIsNew`). What a request does to cash is one row
here. A client walks a list page by page while others write; `Times` has fewer
values than `Ids`, so timestamps tie.

### StaffReview

A browser's session has a full user or a half login waiting for its code.
`MfaReset` and a new enrolment change the secret. `proved` remembers who gave
both factors in which browser. A review locks its request; the break it names
is read without a lock, and the trigger on `reconciliation_break` decides at the
end. `Savepoint` is `begin_nested`: an expected failure takes the writes of the
action back and keeps the review.

### Performance

A transaction is stamped by the database's `now()` when it begins, and its rows
appear when it commits; `Slots` are the transactions open at once. Rows of
`sub_period_return` are never changed, only added with a later stamp, and a
statement is derived from the rows stamped up to its watermark. The customer
holds a fixed number of shares from day 0; deposits, closes, corrections,
accruals and the monthly bill with its publication move the rest. The fee rate
is left out: gains are what the properties are about.

### Jobs, Reconciliation, Rebalance

`Jobs` is the template: lock, work in its own unit of work, row at the end, a
kill anywhere. `Reconciliation` reads the custodian file (a simulator over the
same books) and the books in six separate reads while entries are posted and
settled, and imports in one transaction; injected faults are what it should
find. `Rebalance` works through the assignments it loaded at its start in one
transaction: it values the book, reads the positions again, sells, sizes the buys
by investable cash less the buffer and places each through `create_order`, which
takes the cash lock and reads the cash once more. Customers order, change model
and are locked out meanwhile, and orders are submitted and filled without the
lock. The queries on cash before the holds (settled, unsettled, open buys) are
those of `CashPolicy`; here each reading of them returns anything in `CashReads`,
so that settlement, withdrawals, fills at any price and a sum that mixes two
moments are all included. The holds, read last, are the orders of the model. A
buy that fails its check ends the job and takes back every order of it.

### Chat

Admission is one transaction under the customer's advisory lock: cap, session
lock, message rows. The stream runs afterwards, the agent in a thread of its
own: a turn of the model asks for tools, the validator decides on the parsed
statement (one SELECT, curated views, allowed functions), the executor answers or
times out, the audit row is committed (`RecordToolCall`), the tool returns
(`ReturnResult`) and the next turn carries the results (`NextTurn`): a failure or
a death may come between any two of these. `MaxTurns` is the code's
`max_tool_iterations`, which bounds turns; `MaxCalls` only bounds the model. Clients
disconnect, processes die (`Vanish`), writes fail.

## 3. Runs

All runs pass. Each property has a mutant of the code that breaks it.

| Run | Bounds | Shows |
| --- | --- | --- |
| `outbox` | 2 workers with one pid, an event and a task, 3 attempts, 2 deaths | exclusive claims, completed means applied, outcomes final, refinement of `WorkQueue`; only a death keeps an event from its outcome |
| `order` | 1 order of 2 units, 3 attempts, updates that collide, fail or get lost | fold, every execution accounted for, hold, placement, uniqueness, fills landing, a clean submission without lost attempts, closed stays closed |
| `cash` | 2 deposits (1 and 2), withdrawals of 1 and -1, 1 buy filled at 1 or 2, 1 sell with a notional of -1, caps 2, 2 days | only settled cash and the credit of requests below zero leave, daily cap |
| `fee` | 2 charges, 2 outbox tries, 3 dunning attempts, 2 faults | charged once, posted once, dunning agrees, a failed charge resolves |
| `lots` | 2 buys, 2 sells with two possible reports each, 3 days, window 1, a dividend or a split 2:1 or 3:2, an abort | books agree up to the split's rounding, wash sales found, oldest first |
| `onboarding` | 2 workers, 2 sessions, 2 attempts, a failed submission, an override, a death | verdicts final, provisioned once, approved was verified, a status request finds a lost verdict |
| `requests` | 2 workers, 4 requests with 3 keys, 3 rows with 2 timestamps, pages of 1, 2 links, a death | a key works once, a walk sees every row once |
| `staff_review` | 1 staff member, 2 customers, 2 browsers, 1 agent, 2 requests, 1 break, 2 secrets | reviews atomic, decided with both factors |
| `performance` | 3 days, prices 1 and 2, one deposit, 2 transactions open at once among 4 | statements reproduce, gains meet the mark |
| `recon` | 2 processes, a holiday and a trading day, 2 starts, 2 entries, 1 dividend, 2 resolvers | breaks are differences, resolved once, completed means performed |
| `rebalance` | 2 customers, 1 process and start, 2 securities at 3 prices or none, 2 models, a book of one security, cash readings -4, 4 and 8, one act around the job (an order of 8 or -8 units, a new model, an approval) | what is on hold stays within what the check counted on, buffer kept |
| `chat` | 2 sessions, 2 tabs, cap 1, window 1, 2 messages, 2 turns of the model, 1 tool call, 1 fault | cap, one turn per session, row before result, sessions end |

Why the bounds are enough to matter: two workers, transactions or people are
what a race is about, and every clause of a claim, lock or unique key is about a
pair; a row that fails, is retried and is given up needs two attempts; two
units allow a partial fill before and after a late event; two sells over two
buys allow a sell over two lots, a lot left half, and a wash sale in either
order; three rows on two timestamps put a tie at the edge of a page; three days
allow a fall and a recovery, and a correction of a day that was published.
Orders interact only through the clock and the eligibility flag, charges not at
all. The theorems remove the bounds where they apply. `CHECK_DEADLOCK FALSE`
stands where requests, days or starts run out. Symmetry is used for workers,
processes, slots and people, and only in runs without liveness.

**Fairness.** `outbox`: weak fairness of each worker's steps (the process loops
for ever and every provider call has a timeout) and of deadlines passing;
deliveries and deaths are never forced. `order`: weakly fair, the submission
task ends and a waiting update is applied, refused or fails; nothing says that
it is applied, and the broker need not do anything. `fee`: callers and backoffs;
nobody has to attach a card and Stripe need not send webhooks. `onboarding`: a
worker finishes what it began. Nobody has to ask for the status: the page asks
once per session, then on a refresh or a push, which a lost verdict never sends;
`LostVerdictIsFound` is about a request that was made. `chat`: handlers and
agent threads run, since a provider call ends or times out; clients and faults
are free.

## 4. Where code and documentation disagree

`PROJECT.json` quotes each sentence. The statements below are at the end of
their modules; naming one as the INVARIANT or PROPERTY of the run's
configuration, in place of the others, makes TLC print the counterexample.

| Statement | Run | What the code does |
| --- | --- | --- |
| `EventSettles` | `outbox` | the sweep claims `pending` rows only; a row of a dead worker is never recovered |
| `ProjectionEndsCorrect` | `order` | SUBMITTED is stamped after the call and can sort after the broker's fill |
| `HoldEndsWithSubmission` | `order` | an order taken in an attempt that did not commit skips SUBMITTED and keeps its hold |
| `NoOvercommitment` | `cash`, with `Prices` = {1}; else a fill above the quoted price shows first | `withdrawable` ignores open buys; without withdrawals and with two buys, `investable` misses an order submitted between two queries |
| `PaidOutWasConfirmed` | `cash` | an amount below zero passes every check; the credit it raises can be withdrawn |
| `BounceTakesBackOnlyItself` | `cash` | a bounced deposit is taken back twice |
| `PendingResolves`, `PaidIsRecorded` | `fee` | a charge without a card is given up after seconds; a collected payment whose recording failed is never recorded |
| `SellEntriesBalance` | `lots` | a sell over two lots may not balance by a quantum and is never applied |
| `SplitKeepsUnits` | `lots` | a fractional split rounds every lot but the ledger's entry once; the difference stays |
| `OneAccountPerRole` | `lots` | two first fills create two accounts |
| `DesignationsCovered` | `lots` | two orders may name the same lots |
| `CanceledLeavesCustomer` | `onboarding` | a canceled session rejects an approved customer |
| `OneCurrentLink` | `requests` | a late webhook revives a superseded link |
| `ReplayIsSameRequest` | `requests`, with a deposit and a withdrawal of one key and body in `Sent` | the withdrawal is answered with the deposit |
| `NoStaffShadowed` | `staff_review` | a customer registers a staff email |
| `FlowsLeaveReturnAlone` | `performance`, with `MaxDate` = 3 and `Holidays` = {2} | a deposit on a day without a session shows as a return |
| `ChartLinksOnce` | `performance` | a day is linked once for every stored window that holds it |
| `SafeToRunTwice` | `recon` | a second import opens every break again |
| `SellsWithinHoldings` | `rebalance`; with one customer and `MaxRuns` = 2 for the second run | rounding, or a second run, sells more than is held |
| `LockReleased`, `OneAgentPerSession` | `chat` | a vanished turn locks its session for ever; a disconnection frees it while its agent still runs |

Others show as the exception a property has to make: `CleanSubmission` (lost
attempts: a retry that finds the gate closed rejects an order the broker already
works), `PostedOnce` (a payment still processing is recorded as a success),
`ProjectionIsFold` and `FillsLand` (a second event of the same microsecond is
refused; a lost, failed or orphaned update is never applied),
`WithdrawnOnlySettled` (the credit of requests below zero), `WashSaleFound`
(overlapping transactions), `BooksAgree` (rounded splits, basis carried into a
lot already sold), `PublishedReproduces` (transactions that overlap the
publication).

## 5. Proofs

TLAPS checks eight modules completely. Each theorem holds for every value of the
constants the assumptions allow, where a run of section 3 shows one instance;
where an inductive invariant was not obvious TLC checked it first.

**Assumptions.** They are named, stand in the module that declares the
constants, and are evaluated by TLC on every run. `OutboxAssumption`: at least
one attempt, disjoint kinds of rows, a value for "no worker" and "no job".
`OrderAssumption`, `FeeAssumption`: at least one unit and one try, and two dunning
attempts.
`CashAssumption`: finitely many requests and sales of any whole amounts, a
request being a deposit, a withdrawal or a buy; the broker's prices and what a
sell brings are not negative. `StaffReviewAssumption`:
finitely many proposals, staff and customers told apart, at least one order a
rebalance may place. `OnboardingAssumption`: finitely many workers.
`BankLinksAssumption`, `RequestsAssumption`: finitely many workers, numbers for
ids and times, pages of at least one row. `ScaleAssumption`: a money quantum is
at least one product of ticks. `LotsAssumption`: finitely many buys and sells,
told apart, of positive quantities, and split ratios that are fractions above one
(line 142 of `corporate_action_service.py` refuses others).
`PerformanceAssumption`: amounts, prices and dates are natural numbers, at least
one price, a positive quantum of return. `RebalanceAssumption`: every security
is read at some place, weights add up to the whole (a deferred trigger of the
database), closes are positive; quantities and quoted prices of customers, and
what cash queries return, are any whole numbers. In the last two `None`
is none of the values it stands beside.
`ChatAssumption`: bounds are numbers. `ReconciliationAssumption`: finitely many
customers, entries of known customers and dates, and one period for each market
date (`JobCadence.DAILY`): with two dates in one period a completed row would say
nothing of the second.

**Outbox.** Any number of workers, rows, pids and crashes. The inductive
invariant adds to the stated properties that an accepted event has its row
(`AcceptedIsEnqueued`: else a first delivery could reset a row in progress) and
that a claim under way is of a pending row (`ClaimsPending`: else its commit
could break the budget or somebody's ownership). From it follow `TypeOK`,
`ClaimExclusive`, `OutcomeAccepted`, `RetryBudget`; with the further fact that a
worker past its handler's commit has the effect recorded, `CompletedWasApplied`;
as action properties `OutcomeIsFinal` and, step by step, the refinement
`ImplementsQueue`.

**Orders.** Any set of orders, quantity, retry budget, timestamps equal or not,
updates that fail or get lost. The inductive invariant: the shapes the argument
needs (`Types`); the broker's book and the wire hold only derived ids
(`DerivedIds`); an order with events has one with the largest stamp
(`HasLatest`, so that the fold's last event exists); whatever the broker has
done, sent or answered is of an order in its book (`KnownIsPlaced`); and the two
properties themselves. It gives `HoldUntilResolved`, `SubmittedMeansPlaced` and
`OneBrokerOrder`. A second invariant, `Submission`, follows one order through
its only attempt: until the attempt ends nothing is recorded, so the first event
is the submission's own, and a later one cannot take the broker's id or the
released hold back. It gives `CleanSubmission`, with equal timestamps too. A
third one, `Booked`, is about the columns: they are those of the latest event on
file with the sum of the fills on file (`Projection`), everything on file but
the submission came from the broker (`OnFile`), what the broker counts is the
sum of what it reported (`Executed`), and nothing happens at the broker once it
ended or filled an order (`Ended`). It gives the action property
`ClosedStaysClosed`. The fold is the loop of the code over the events sorted by
`seq`: an induction over the positions of the sorted list shows that it computes
the type of the last event and the sum of the fills (`ColumnsAreFold`).
`Accounted` follows the outbox rows: a completed one is on file, a refused fill
is on file or another event has its microsecond. With the sum of what the broker
reported this gives `ProjectionIsFold`.

**Sums.** A balance is a sum over a set of rows, and the sum a fold, that is a
recursive function. The library's induction theorems take an operator as
parameter and cannot be used, so `Sums` proves the induction it needs over *sets*
of numbers (a set with 0 and closed under successor has no least number outside
it) and over sets of sets, shows that the recursion has a solution on a finite
set, and from there on a sum is known by two facts: that of the empty set is 0,
and one element adds its own amount. Listings of a set in an order, for the
sorted lists of the code, are known by the place of each element.

**Cash.** Balances are compared row by row: a step changes one row, or lets some
grow. The invariant for the requests: one request holds the lock (`OneHolder`),
has read no more than its own terms (`ReadsItsTerms`), and has no row before it
is granted (`MadeWhenGranted`); what a withdrawal has read is covered by the
confirmed inflows and the credit of requests below zero, less what was paid out
(`WithdrawalCovered`: settled cash by the credit posted, and after the holds by
that of the holds too), and what a deposit has read counts all deposits of its
day (`DepositCounted`). Between two queries of the lock's holder confirmed cash
and credit only grow, no withdrawal is posted and no deposit is made or leaves
its day, so both stay true. This gives `WithdrawnOnlySettled`, `DailyDepositCap`
and `TypeOK`.

**Fees.** Charges do not interact: the invariant is of one charge, and a step of
one leaves the others alone. What Stripe remembers of a key fixes what it
collected (`KeyDecides`), an answer not recorded yet is still the one remembered
(`AnswerIsRemembered`), outbox and dunning job never act on a charge at the same
time (`TakeTurns`), postings and stripe id follow the status (`PostedWithStatus`)
and the two rows move together (`RowsAgree`). This gives `ChargedOnce`,
`PostedOnce`, `DunningAgrees`, and that no webhook ever changes a charge
(`WebhookIsIgnored`): it can find only one that has succeeded.

**Requests.** A worker in the middle of a request holds one that was sent; a key
names the row it made, a row its key, and an answer a row of its request
(`KeysNameRows`): `AnsweredOnce` is that relation read backwards. For the lists,
what a client has seen is falling in the order of the page, newest first and the
larger id first in a tie, and is exactly the rows of the start before its cursor
(`Walking`): a page is the first rows after the cursor, a row inserted meanwhile
may be shown or not but moves no other across the cursor. At the end of the walk
nothing is after the cursor, and `HistoryComplete` follows. The order of the
code is total because it compares the id last.

**Lots.** A fill is three steps, so the first invariant is about locks (`Rows`,
`Asked`, `Locks`): no two sells hold one lot, no two buys one loss, and the lots
a sell holds cover it, unchanged since it read them. It gives the action
property `OldestFirst`. For wash sales it is joined by what the scans left
alone: a loss without adjustment has no replacement but in an overlapping
transaction (`SellScanned`), and is out of the window of every later buy or
overlaps it (`BuyScanned`); this gives `WashSaleFound` from either side. The
books (`Booked`): basis, realized gains and cash of the ledger are the sums of
the rows, its units are too up to the rounding of the splits so far
(`UnitsNear`), and the gains equal the cost of what is held and the cash of the
trades. Products are rounded, but every amount is rounded once and posted twice,
so only sums of rounded amounts have to agree, never the products themselves. A
split is the exception, posted once for all its lots: its total and the rounded
lots differ by half a quantum each at most (`SplitDrift`). This gives
`BooksAgree`.

**Onboarding.** Every verdict a worker carries is one Stripe gave
(`VerdictGrounded`), Stripe takes no verification back, the row a transaction has
resolved is still pending for the others (`ResolverAlone`), and a session is
approved only if verified (`SessionsGrounded`). This gives `ApprovedWasVerified`,
`ProvisionedOnce`, `TypeOK` and the action property `VerdictFinal`.

**Staff reviews.** Whoever is logged in as staff in a browser proved both factors
there (`LoggedInWasProved`), a request under review is pending (`ReviewsOpen`) and
has one reviewer (`OneReview`). This gives `ReviewIsAtomic`, `TypeOK` and the
action property `DecidedByVerifiedStaff`.

**Chat.** A turn in flight is the only one of its session, which is `streaming`
(`OwnsSession`); an admitted request is alone under the lock and the window still
has room for it (`AdmittedCounted`; time only empties the window). A result that was
sent, or waits for the next turn, or is about to be returned has its row
(`RowKept`): the last is what the order of the two steps is for. This gives
`CapHolds`, `OneTurnPerSession` and `AnswersAudited`.

**Reconciliation.** For each run: what it has read equals the books now, except
for customers and entries touched since (`ReadAgrees`); what it has found is the
breaks of the parts compared so far (`FoundSo`); a run past its commit has its
batch (`Committed`). One run works at a time (`OneRuns`), the audit log is exactly
the resolutions (`AuditAgrees`), and a resolver loaded an existing break
(`Loaded`). Sums of entries appear only as "equal sets have equal sums"; that the
sequence built from a set has exactly its members is proved (`SetToSeqRange`).
This gives `BreaksAreDifferences`, `ResolvedOnce`, `CompletedWasPerformed`, and
the action property that no break is removed, rewritten or reassigned
(`BreaksAreKept`).

**Performance.** A stamp is one transaction's (`Stamps`), and every transaction
that is open when a statement exists is stamped after its watermark or is among
those it overlapped (`After`). The statement reproduces over the rows there are
(`Kept`), and one about to be published over those rows with the transaction's
own (`Pending`): what another transaction writes later is stamped after the
watermark and not looked at, or makes the exception of the property. Money comes
in on a day no statement covers, and a close is only read through rows. This
gives `PublishedReproduces`. For fees, at most one transaction accrues (the job's
advisory lock), what it will write is its gain over the *committed* mark
(`Accruing`), and the gains committed add up to the rise of the mark from the
first value, which is the highest accrued (`Accrued`): `GainsMeetPeak`. A date
that has its accrual writes nothing.

**Rebalancing.** Sizing happens outside the cash lock, and cash queries may return
anything, so nothing follows from what a run was sized by about cash, and a check
that passed may be of a moment that is over. What the lock is for is `Covered`:
from the check until the run ends, the holds on the books and the run's own take
no more than that check counted on. A run holds the lock of every customer it has
checked (`RunTyped`), so no order of theirs is added; submission and fills only
take holds away; a run that commits moves its orders onto the books, one that
dies or raises takes them back. Holds below zero count as credit of the check
(`CountedCovers`): when such an order is submitted its credit goes, and the rest
is still within what was counted. `BufferKept` needs what remains: buys so far are
within the cash they were sized by, less what is left to spend, plus one rounding
each (`Within`), and the rounding lemma `RoundTrip`: units for an amount, rounded
half to even and priced again, exceed it by at most `Slack`. Second starts of the
job, which two customers put out of TLC's reach, are the theorem's. That no
customer's cash is promised twice is not claimed: section 4, `NoOvercommitment`.

**Only model-checked.**

* Liveness under fairness, outside this prover: `EventSettlesOrOrphaned`,
  `FillsLand`, `FailureResolves`, `LostVerdictIsFound`, `StreamingEnds`.
* That `Allocate` of `Money` keeps the total and the order of its remainders: the
  assumption of `MC_Lots` that TLC evaluates over bounded inputs.
* `TypeOK` of the components whose inductive invariant has only the types it
  needs.

Every invariant and every action property of the runs has a theorem.

## 6. Plan

The components of section 1 are modelled and the safety properties of the runs
are proved. What a further step could add: the statements of section 4 as
properties again, once the code keeps them; `Jobs` instantiated for the daily
valuation and accrual jobs, whose transactions `Performance` models without
their rows; the abstract specification of a balance, implemented by `CashPolicy`
and by the cash that `Rebalance` sees.

## 7. Not modelled

* Row-level security and tenant scoping: decided by PostgreSQL policies.
* Real-time push: best effort after commit; no state depends on it.
* Market data adapters, the securities catalogue, profile and admin lists,
  exports: reads and formatting.
* Encryption, password hashing, rate limits, configuration, seeding and the
  migrations, except for the triggers and constraints other modules rely on.
* The loop of one dunning run over several charges, the reconnecting websocket
  loop, fee rates and disclosure rows, the text of SQL and of chat answers.
* The frontend: it keeps no authoritative state.
