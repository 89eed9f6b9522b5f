--------------------------- MODULE OrderLifecycle ---------------------------
(* One order from its creation to its last broker event: OrderService, the
   submit_order_to_broker outbox task, the order_event fold, the approval hold,
   and the broker at the other end of two unreliable channels.

   The submission task holds the order's row lock across the broker call, and
   its transaction may roll back after the broker took the order.  The broker's
   trade updates reach AlpacaTradeUpdateHandler through the outbox in any order,
   once, twice or never: the stream has gaps, and a row whose handler keeps
   raising is given up.  Both sides stamp events from one clock: an event's
   `seq` is the microsecond it happened, which another event may share.

   Left out: prices (so average_fill_price), what a fill does to the lots (it
   may raise, and then the whole update fails), the real-time push after commit,
   and the investable-cash check of create_order, which may pass or fail.   *)
EXTENDS Naturals, FiniteSets, FiniteSetsExt

CONSTANTS
  Orders,
  Quantity,    \* quantity_requested, in units that fill one or more at a time
  MaxTries     \* settings.outbox_max_attempts, for the submission task

ASSUME OrderAssumption ==
  /\ Quantity \in Nat \ {0}
  /\ MaxTries \in Nat \ {0}

VARIABLES
  status,    \* order.status ("none": no such order yet)
  filled,    \* order.filled_quantity
  hold,      \* the order's approval_hold row
  events,    \* order_event rows of the order
  task,      \* the submission task: control state and attempts so far
  wire,      \* submit requests the broker has not received yet
  book,      \* orders the broker took, by client_order_id
  broker,    \* the broker's own view of the order
  updates,   \* trade updates the broker has sent
  settled,   \* the updates whose outbox row is completed
  refused,   \* the updates dead-lettered because a unique key refused them
  gone,      \* the updates never stored, dead-lettered for another error, or orphaned
  eligible,  \* the customer passes the KYC and account-approval gates
  now        \* stamp of the latest event

orderVars == <<status, filled, hold, events>>
brokerVars == <<book, broker, updates>>
vars == <<status, filled, hold, events, task, wire, book, broker, updates,
          settled, refused, gone, eligible, now>>
rowVars == <<settled, refused, gone>>

TerminalNonFilled == {"rejected", "canceled", "expired"}
Cancellable == {"submitted", "accepted", "partially_filled"}
Statuses == {"none", "awaiting_approval", "approved", "filled"}
              \cup Cancellable \cup TerminalNonFilled

EventTypes == {"submitted", "accepted", "fill"} \cup TerminalNonFilled

\* "calling" waits for the broker's answer, "answered" has it and has not
\* committed, "refused" was told the client_order_id is already in use; all
\* three hold the row lock.  "dead" is never run again: dead-lettered, or left
\* in processing by a worker that died.
TaskPcs == {"none", "queued", "calling", "answered", "refused", "done", "dead"}

BrokerStates == {"none", "received", "open", "filled"} \cup TerminalNonFilled
BrokerClosed == {"filled"} \cup TerminalNonFilled

Event(o, type, seq, exec, qty) ==
  [order |-> o, type |-> type, seq |-> seq, exec |-> exec, qty |-> qty]

Init ==
  /\ status = [o \in Orders |-> "none"]
  /\ filled = [o \in Orders |-> 0]
  /\ hold = [o \in Orders |-> "none"]
  /\ events = [o \in Orders |-> {}]
  /\ task = [o \in Orders |-> [pc |-> "none", tries |-> 0]]
  /\ wire = {} /\ book = {} /\ updates = {}
  /\ settled = {} /\ refused = {} /\ gone = {}
  /\ broker = [o \in Orders |-> [state |-> "none", filled |-> 0, execs |-> 0,
                                 cancelAsked |-> FALSE]]
  /\ eligible = TRUE
  /\ now = 0

-----------------------------------------------------------------------------
\* Time and identity

\* seq_from_timestamp of an event happening at this step: a microsecond later
\* than the one before, or the same.
Stamp(t) == t \in now .. now + 1 /\ now' = t

FreshClientOrderId(o, attempt) == <<o, attempt>>

\* derive_client_order_id: a function of the order id alone.
ClientOrderId(o, attempt) == <<o, 0>>

\* SELECT ... FOR UPDATE of the submission task; everyone else waits.
RowLocked(o) == task[o].pc \in {"calling", "answered", "refused"}

SetTask(o, pc, tries) == task' = [task EXCEPT ![o] = [pc |-> pc, tries |-> tries]]

-----------------------------------------------------------------------------
\* OrderProjectionService

\* The last event in `seq` order decides the status, every fill the quantity.
LastEvent(E) == CHOOSE e \in E : \A f \in E : f.seq <= e.seq
FilledBy(E) == MapThenSumSet(LAMBDA e : e.qty, E)

StatusAfter(type, total) ==
  IF type = "fill"
  THEN IF total >= Quantity THEN "filled" ELSE "partially_filled"
  ELSE type

ReleasesHoldButExpiry(s) == s \in {"submitted", "rejected", "canceled"}

ReleasesHoldAtTheEnd(s) == s \in TerminalNonFilled \cup {"filled"}

\* _release_hold_if_warranted
ReleasesHold(s) == s \in TerminalNonFilled \cup {"submitted"}

\* Whatever was processed last decides the status.
ApplyInArrivalOrder(o, e) ==
  LET E == events[o] \cup {e}
      s == StatusAfter(e.type, FilledBy(E))
  IN /\ events' = [events EXCEPT ![o] = E]
     /\ filled' = [filled EXCEPT ![o] = FilledBy(E)]
     /\ status' = [status EXCEPT ![o] = s]
     /\ hold' = IF ReleasesHold(s) THEN [hold EXCEPT ![o] = "released"] ELSE hold

\* apply_new_event: insert, fold every event on file, and release the hold in
\* the same transaction if the resulting status warrants it.
ApplyNewEvent(o, e) ==
  LET E == events[o] \cup {e}
      s == StatusAfter(LastEvent(E).type, FilledBy(E))
  IN /\ events' = [events EXCEPT ![o] = E]
     /\ filled' = [filled EXCEPT ![o] = FilledBy(E)]
     /\ status' = [status EXCEPT ![o] = s]
     /\ hold' = IF ReleasesHold(s) THEN [hold EXCEPT ![o] = "released"] ELSE hold

-----------------------------------------------------------------------------
\* The same projection, as the loop of order_projection_service.fold

\* One iteration of the loop in fold.
FoldEvent(state, e) ==
  IF e.type = "fill"
  THEN [filled |-> state.filled + e.qty,
        status |-> IF state.filled + e.qty >= Quantity THEN "filled"
                                                       ELSE "partially_filled"]
  ELSE [filled |-> state.filled, status |-> e.type]

\* sorted(events, key=seq): the event with i - 1 earlier ones is the i-th.
Sorted(E) ==
  [i \in 1 .. Cardinality(E) |->
     CHOOSE e \in E : Cardinality({f \in E : f.seq < e.seq}) = i - 1]

\* fold: from APPROVED and zero, event by event.
Fold(E) ==
  LET after[n \in 0 .. Cardinality(E)] ==
        IF n = 0 THEN [status |-> "approved", filled |-> 0]
        ELSE FoldEvent(after[n - 1], Sorted(E)[n])
  IN after[Cardinality(E)]

-----------------------------------------------------------------------------
\* OrderService

\* create_order and its controller: a small order is approved at once and its
\* submission enqueued in the same transaction; every order opens a hold.
CreateOrder(o, needsApproval) ==
  /\ status[o] = "none"
  /\ eligible
  /\ status' = [status EXCEPT ![o] = IF needsApproval THEN "awaiting_approval"
                                                      ELSE "approved"]
  /\ hold' = [hold EXCEPT ![o] = "active"]
  /\ IF needsApproval THEN UNCHANGED task ELSE SetTask(o, "queued", 0)
  /\ UNCHANGED <<filled, events, wire, brokerVars, rowVars, eligible, now>>

\* approve and its controller.
Approve(o) ==
  /\ status[o] = "awaiting_approval"
  /\ status' = [status EXCEPT ![o] = "approved"]
  /\ SetTask(o, "queued", 0)
  /\ UNCHANGED <<filled, hold, events, wire, brokerVars, rowVars, eligible, now>>

\* _broker_order_id: the broker knows the order by the id that its `submitted`
\* event carries.
HasBrokerOrderId(o) == \E e \in events[o] : e.type = "submitted"

\* A customer cancels: the broker is asked, nothing is recorded here.
RequestCancel(o) ==
  /\ ~RowLocked(o)
  /\ status[o] \in Cancellable
  /\ HasBrokerOrderId(o)
  /\ broker[o].state \in {"received", "open"}    \* else the broker's API raises
  /\ broker' = [broker EXCEPT ![o].cancelAsked = TRUE]
  /\ UNCHANGED <<orderVars, task, wire, book, updates, rowVars, eligible, now>>

\* submit_to_broker of an order that is no longer APPROVED returns at once.
SubmitSkips(o) ==
  /\ task[o].pc = "queued"
  /\ status[o] # "approved"
  /\ SetTask(o, "done", task[o].tries)
  /\ UNCHANGED <<orderVars, wire, brokerVars, rowVars, eligible, now>>

SubmitRejectsUnchecked(o) ==
  /\ task[o].pc = "queued"
  /\ ~eligible
  /\ SetTask(o, "done", task[o].tries)
  /\ \E t \in now .. now + 1 :
       Stamp(t) /\ ApplyNewEvent(o, Event(o, "rejected", t, 0, 0))
  /\ UNCHANGED <<wire, brokerVars, rowVars, eligible>>

\* The gate closed since the order was created: a REJECTED event instead.
SubmitRejects(o) ==
  /\ task[o].pc = "queued"
  /\ status[o] = "approved"
  /\ ~eligible
  /\ SetTask(o, "done", task[o].tries)
  /\ \E t \in now .. now + 1 :
       Stamp(t) /\ ApplyNewEvent(o, Event(o, "rejected", t, 0, 0))
  /\ UNCHANGED <<wire, brokerVars, rowVars, eligible>>

\* The order row is locked and the request leaves for the broker.
SubmitCalls(o) ==
  /\ task[o].pc = "queued"
  /\ status[o] = "approved"
  /\ eligible
  /\ SetTask(o, "calling", task[o].tries)
  /\ wire' = wire \cup {[order |-> o, client |-> ClientOrderId(o, task[o].tries),
                         attempt |-> task[o].tries]}
  /\ UNCHANGED <<orderVars, brokerVars, rowVars, eligible, now>>

\* An order shown as submitted before the broker has answered.
SubmitCommitsEarly(o) ==
  /\ task[o].pc \in {"calling", "answered"}
  /\ SetTask(o, "done", task[o].tries)
  /\ \E t \in now .. now + 1 :
       Stamp(t) /\ ApplyNewEvent(o, Event(o, "submitted", t, 0, 0))
  /\ UNCHANGED <<wire, brokerVars, rowVars, eligible>>

\* The broker's handle came back: SUBMITTED is stamped now and committed.  The
\* worker may still fail to complete the outbox row, which then runs again.
SubmitCommits(o) ==
  /\ task[o].pc = "answered"
  /\ \/ SetTask(o, "done", task[o].tries)
     \/ task[o].tries + 1 < MaxTries /\ SetTask(o, "queued", task[o].tries + 1)
  /\ \E t \in now .. now + 1 :
       Stamp(t) /\ ApplyNewEvent(o, Event(o, "submitted", t, 0, 0))
  /\ UNCHANGED <<wire, brokerVars, rowVars, eligible>>

\* A timeout, a lost answer, a duplicate client_order_id or a failed commit:
\* the transaction rolls back and the outbox retries or dead-letters.
SubmitFails(o) ==
  /\ RowLocked(o)
  /\ SetTask(o, IF task[o].tries + 1 < MaxTries THEN "queued" ELSE "dead",
             task[o].tries + 1)
  /\ UNCHANGED <<orderVars, wire, brokerVars, rowVars, eligible, now>>

\* The worker process dies inside the call; nobody takes its row over.
SubmitDies(o) ==
  /\ RowLocked(o)
  /\ SetTask(o, "dead", task[o].tries)
  /\ UNCHANGED <<orderVars, wire, brokerVars, rowVars, eligible, now>>

-----------------------------------------------------------------------------
\* The broker

\* A request arrives, perhaps after its caller gave up.  A client_order_id is
\* taken once; the answer reaches the caller only if it is still waiting.
BrokerReceives(r) ==
  /\ r \in wire
  /\ wire' = wire \ {r}
  /\ LET o == r.order
         new == <<o, r.client>> \notin book
         waiting == task[o].pc = "calling" /\ task[o].tries = r.attempt
     IN /\ book' = book \cup {<<o, r.client>>}
        /\ broker' = IF new /\ broker[o].state = "none"
                     THEN [broker EXCEPT ![o].state = "received"] ELSE broker
        /\ IF waiting
           THEN SetTask(o, IF new THEN "answered" ELSE "refused", task[o].tries)
           ELSE UNCHANGED task
  /\ UNCHANGED <<orderVars, updates, rowVars, eligible, now>>

\* TradeUpdatesConsumer.handle_message: an update of one of the tracked kinds
\* goes to intake under its execution id, or its order, kind and time.  One sent
\* while the stream is down, or whose intake fails, is not sent again.
HandleMessage(update) ==
  /\ updates' = updates \cup {update}
  /\ gone' \in {gone, gone \cup {update}}
  /\ UNCHANGED <<settled, refused>>

\* The broker stamps an update when it happens and sends it.
BrokerSends(o, type, exec, qty) ==
  \E t \in now .. now + 1 :
    /\ Stamp(t)
    /\ HandleMessage(Event(o, type, t, exec, qty))

\* "new"
BrokerAccepts(o) ==
  /\ broker[o].state = "received"
  /\ broker' = [broker EXCEPT ![o].state = "open"]
  /\ BrokerSends(o, "accepted", 0, 0)
  /\ UNCHANGED <<orderVars, task, wire, book, eligible>>

\* "partial_fill" and "fill", each with an execution_id of its own.
BrokerFills(o, qty) ==
  /\ broker[o].state = "open"
  /\ broker[o].filled + qty <= Quantity
  /\ broker' = [broker EXCEPT
       ![o].filled = @ + qty,
       ![o].execs = @ + 1,
       ![o].state = IF broker[o].filled + qty = Quantity THEN "filled" ELSE "open"]
  /\ BrokerSends(o, "fill", broker[o].execs + 1, qty)
  /\ UNCHANGED <<orderVars, task, wire, book, eligible>>

\* "canceled" on request, "expired" at the end of the day, "rejected" at the door.
BrokerEnds(o, how) ==
  /\ \/ how = "canceled" /\ broker[o].cancelAsked
     \/ how = "expired"
     \/ how = "rejected" /\ broker[o].state = "received"
  /\ broker[o].state \in {"received", "open"}
  /\ broker' = [broker EXCEPT ![o].state = how]
  /\ BrokerSends(o, how, 0, 0)
  /\ UNCHANGED <<orderVars, task, wire, book, eligible>>

-----------------------------------------------------------------------------
\* AlpacaTradeUpdateHandler, run by the outbox

\* A fill counts as seen once the order has any fill.
ConflictsPerOrder(m) ==
  \E e \in events[m.order] : e.seq = m.seq \/ (e.type = "fill" /\ m.type = "fill")

\* uq_order_event_order_id_seq and uq_order_event_execution_id.
Conflicts(m) ==
  \E e \in events[m.order] :
     e.seq = m.seq \/ (e.type = "fill" /\ m.type = "fill" /\ e.exec = m.exec)

\* The outbox rows still to be run.
Waiting == updates \ (settled \cup refused \cup gone)

\* handle: the event, the projection and the hold in one commit.  The outbox
\* row is then completed, or left to run once more.
ApplyUpdate(m) ==
  /\ m \in Waiting
  /\ ~RowLocked(m.order)
  /\ ~Conflicts(m)
  /\ ApplyNewEvent(m.order, m)
  /\ settled' \in {settled, settled \cup {m}}
  /\ UNCHANGED <<task, wire, brokerVars, refused, gone, eligible, now>>

\* The insert violates a unique key: the handler raises on every attempt and
\* the row ends as a dead letter.
RefuseUpdate(m) ==
  /\ m \in Waiting
  /\ ~RowLocked(m.order)
  /\ Conflicts(m)
  /\ refused' = refused \cup {m}
  /\ UNCHANGED <<orderVars, task, wire, brokerVars, settled, gone, eligible, now>>

\* Every attempt raises for another reason (no such client_order_id, an invalid
\* payload, _record_lot_fill: too few lots, an entry that does not balance) and
\* rolls back, or the worker dies and nobody takes its row over.
FailUpdate(m) ==
  /\ m \in Waiting
  /\ gone' = gone \cup {m}
  /\ UNCHANGED <<orderVars, task, wire, brokerVars, settled, refused, eligible, now>>

\* A KYC outcome, a reviewer's override or an account suspension.
EligibilityChanges ==
  /\ eligible' = ~eligible
  /\ UNCHANGED <<orderVars, task, wire, brokerVars, rowVars, now>>

OrderStep(o) ==
  \/ \E needsApproval \in BOOLEAN : CreateOrder(o, needsApproval)
  \/ Approve(o)
  \/ RequestCancel(o)
  \/ SubmitSkips(o)
  \/ SubmitRejects(o)
  \/ SubmitCalls(o)
  \/ SubmitCommits(o)
  \/ SubmitFails(o)
  \/ SubmitDies(o)

BrokerStep(o) ==
  \/ BrokerAccepts(o)
  \/ \E qty \in 1 .. Quantity : BrokerFills(o, qty)
  \/ \E how \in TerminalNonFilled : BrokerEnds(o, how)

Next ==
  \/ \E o \in Orders : OrderStep(o) \/ BrokerStep(o)
  \/ \E r \in wire : BrokerReceives(r)
  \/ \E m \in updates : ApplyUpdate(m) \/ RefuseUpdate(m) \/ FailUpdate(m)
  \/ EligibilityChanges

Spec == Init /\ [][Next]_vars

\* The outbox runs a waiting row until it is completed, dead-lettered or left
\* behind by a worker that died (run outbox), and the submission task does not
\* keep its row lock for ever (the broker client times out).  The broker need
\* not do anything.
Fairness ==
  /\ \A o \in Orders : WF_vars(SubmitCommits(o) \/ SubmitFails(o) \/ SubmitDies(o))
  /\ WF_vars(\E m \in updates : ApplyUpdate(m) \/ RefuseUpdate(m) \/ FailUpdate(m))

LiveSpec == Spec /\ Fairness

-----------------------------------------------------------------------------
\* Properties

AllEvents ==
  [order : Orders, type : EventTypes, seq : Nat, exec : Nat, qty : Nat]

\* Every variable stays within the values its column or message can hold.
TypeOK ==
  /\ status \in [Orders -> Statuses]
  /\ filled \in [Orders -> 0 .. Quantity]
  /\ hold \in [Orders -> {"none", "active", "released"}]
  /\ events \in [Orders -> SUBSET AllEvents]
  /\ task \in [Orders -> [pc : TaskPcs, tries : 0 .. MaxTries]]
  /\ wire \subseteq [order : Orders, client : Orders \X Nat, attempt : 0 .. MaxTries]
  /\ book \subseteq Orders \X (Orders \X Nat)
  /\ broker \in [Orders -> [state : BrokerStates, filled : 0 .. Quantity,
                            execs : 0 .. Quantity, cancelAsked : BOOLEAN]]
  /\ updates \subseteq AllEvents
  /\ settled \subseteq updates /\ refused \subseteq updates /\ gone \subseteq updates
  /\ eligible \in BOOLEAN
  /\ now \in Nat

FillsOf(o) == {m \in updates : m.order = o /\ m.type = "fill"}

\* Another event of the order has the update's microsecond.
Collides(m) == \E e \in events[m.order] : e # m /\ e.seq = m.seq

\* The cached columns of an order are the fold of its events, whatever order
\* they were inserted in: `assert projection == fold(order_event)`.  What the
\* broker executed is counted once or not at all, and a fill is not counted only
\* while its row waits, when it was lost, failed or was orphaned, or when another
\* event took its microsecond: a completed row is always in the quantity.
ProjectionIsFold ==
  \A o \in Orders :
    LET missing == FillsOf(o) \ events[o]
    IN /\ events[o] # {} => [status |-> status[o], filled |-> filled[o]] = Fold(events[o])
       /\ filled[o] + FilledBy(missing) = broker[o].filled
       /\ \A m \in missing : m \in Waiting \cup gone \/ (m \in refused /\ Collides(m))

\* An order that still waits for approval or submission has its cash held, and
\* one that ended without filling holds nothing, whatever order the broker's
\* events were processed in (OrderProjectionService._release_hold_if_warranted).
HoldUntilResolved ==
  \A o \in Orders :
    /\ status[o] \in {"awaiting_approval", "approved"} => hold[o] = "active"
    /\ status[o] \in TerminalNonFilled => hold[o] = "released"

\* No order shows a status past `approved` unless the broker has it, the
\* rejection by the eligibility gate excepted (submit_to_broker).
SubmittedMeansPlaced ==
  \A o \in Orders :
    status[o] \in {"submitted", "accepted", "partially_filled", "filled",
                   "canceled", "expired"} => \E b \in book : b[1] = o

\* However often the submission is retried, the broker takes one order
\* (derive_client_order_id).
OneBrokerOrder ==
  \A a, b \in book : a[1] = b[1] => a = b

\* A submission attempt ended without committing; the broker may have acted.
AttemptLost(o) == task[o].tries > 0 \/ task[o].pc = "dead"

\* As long as no attempt was lost, an order past `approved` has the broker's id
\* on file and its hold released, even if the broker filled or ended it before
\* the submission committed, and an order the gate rejected is not at the
\* broker (submit_to_broker, _broker_order_id, _release_hold_if_warranted).
CleanSubmission ==
  \A o \in Orders : ~AttemptLost(o) =>
    /\ status[o] \in Cancellable \cup {"filled"} =>
         hold[o] = "released" /\ HasBrokerOrderId(o)
    /\ status[o] = "rejected" => broker[o].state \in {"none", "rejected"}

\* A filled, canceled or expired order never leaves that status, even when
\* older events are processed after the one that closed it (fold sorts by seq)
\* or its submission task runs again.
ClosedStaysClosed ==
  [][\A o \in Orders :
       status[o] \in {"filled", "canceled", "expired"} => status'[o] = status[o]]_vars

\* Every execution at the broker reaches filled_quantity, unless an update was
\* lost on the stream, failed on every attempt, was left behind by a dead worker,
\* or was refused because another event has its microsecond: retries, repeated
\* rows and the two unique keys lose nothing else.
FillsLand ==
  \A o \in Orders :
    broker[o].filled = Quantity ~>
      filled[o] = Quantity \/ \E m \in FillsOf(o) : m \in gone \/ Collides(m)

-----------------------------------------------------------------------------
\* What the documentation says and the code does not do

\* Once all of its events are on file, the projection of an order the broker
\* has closed shows how it closed.
ProjectionEndsCorrect ==
  \A o \in Orders :
    /\ broker[o].state \in BrokerClosed
    /\ task[o].pc \in {"done", "dead"}
    /\ \A m \in updates : m.order = o => m \in events[o]
    => status[o] = broker[o].state

\* An order past submission no longer holds cash through its approval hold.
HoldEndsWithSubmission ==
  \A o \in Orders :
    /\ task[o].pc \in {"done", "dead"}
    /\ status[o] \in {"submitted", "accepted", "partially_filled", "filled"}
    => hold[o] = "released"
=============================================================================
