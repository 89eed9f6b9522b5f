---------------------------- MODULE OrderProofs ----------------------------
(* Machine-checked proofs about OrderLifecycle, for any number of orders, any
   quantity and any number of tries: the hold covers an order until it is
   resolved, a status past `approved` means the broker has the order, the
   broker has it once, a submission none of whose attempts was lost ends
   cleanly, the cached columns are the fold of the events on file, and a closed
   order stays closed, and what the broker executed is counted once, but for
   the fills whose update was lost, failed or was refused for its microsecond.

   The first part never unfolds the quantity a set of fills adds up to; the
   second does, with the sums and the listings of Sums.                     *)
EXTENDS OrderLifecycle, Sums, TLAPS

-----------------------------------------------------------------------------
\* The inductive invariant

\* What the broker says of its orders.
BrokerOrders ==
  [state : BrokerStates, filled : Nat, execs : Nat, cancelAsked : BOOLEAN]

\* The part of the type invariant the arguments below need.
Types ==
  /\ status \in [Orders -> Statuses]
  /\ hold \in [Orders -> {"none", "active", "released"}]
  /\ events \in [Orders -> SUBSET AllEvents]
  /\ task \in [Orders -> [pc : TaskPcs, tries : Nat]]
  /\ wire \subseteq [order : Orders, client : Orders \X Nat, attempt : Nat]
  /\ book \subseteq Orders \X (Orders \X Nat)
  /\ broker \in [Orders -> BrokerOrders]
  /\ updates \subseteq AllEvents
  /\ now \in Nat

\* The broker has the order under its derived id.
Placed(o) == <<o, <<o, 0>>>> \in book

\* Every request and every order at the broker carries the derived id.
DerivedIds ==
  /\ \A r \in wire : r.client = <<r.order, 0>>
  /\ \A b \in book : b = <<b[1], <<b[1], 0>>>>

\* An order has a latest event as soon as it has one at all.
HasLatest ==
  \A o \in Orders :
    events[o] # {} => \E e \in events[o] : \A f \in events[o] : f.seq <= e.seq

\* What the system knows of a broker order, it knows because the broker has it.
KnownIsPlaced ==
  \A o \in Orders :
    /\ broker[o].state # "none" => Placed(o)
    /\ task[o].pc = "answered" => Placed(o)
    /\ \A m \in updates : m.order = o => Placed(o)
    /\ \A e \in events[o] : e.type # "rejected" => Placed(o)

\* The inductive invariant.
IInv ==
  /\ Types
  /\ DerivedIds
  /\ HasLatest
  /\ KnownIsPlaced
  /\ HoldUntilResolved
  /\ SubmittedMeansPlaced

-----------------------------------------------------------------------------
\* What a recorded event does to an order

\* The fold of a non-empty set of events is the status of one of them.
LEMMA LatestIsMember ==
  ASSUME NEW E, \E e \in E : \A f \in E : f.seq <= e.seq
  PROVE  LastEvent(E) \in E
BY DEF LastEvent

\* Inserting an event keeps a latest one.
LEMMA InsertKeepsLatest ==
  ASSUME NEW E, E \subseteq AllEvents, NEW e, e \in AllEvents,
         E # {} => \E f \in E : \A g \in E : g.seq <= f.seq
  PROVE  \E f \in E \cup {e} : \A g \in E \cup {e} : g.seq <= f.seq
<1> SUFFICES ASSUME E # {} PROVE \E f \in E \cup {e} : \A g \in E \cup {e} : g.seq <= f.seq
  <2>1. \A g \in {e} : g.seq <= e.seq
    BY DEF AllEvents
  <2> QED BY <2>1
<1>1. PICK f \in E : \A g \in E : g.seq <= f.seq
  OBVIOUS
<1>2. f.seq \in Nat /\ e.seq \in Nat /\ \A g \in E : g.seq \in Nat
  BY DEF AllEvents
<1>3. CASE e.seq <= f.seq
  BY <1>1, <1>3
<1>4. CASE f.seq <= e.seq
  BY <1>1, <1>2, <1>4
<1> QED BY <1>2, <1>3, <1>4

\* A projected status is one an event leads to, never one before submission.
LEMMA ProjectedStatus ==
  ASSUME NEW type \in EventTypes, NEW total
  PROVE  /\ StatusAfter(type, total) \in Statuses
         /\ StatusAfter(type, total) \notin {"none", "awaiting_approval", "approved"}
         /\ type = "rejected" => StatusAfter(type, total) = "rejected"
BY DEF StatusAfter, EventTypes, Statuses, Cancellable, TerminalNonFilled

\* ApplyNewEvent keeps every part of the invariant that speaks of the order's
\* own columns, provided the broker has the order or the event is a rejection.
LEMMA ApplyKeepsInvariant ==
  ASSUME IInv, NEW o \in Orders, NEW e \in AllEvents,
         e.type # "rejected" => Placed(o),
         ApplyNewEvent(o, e), book' = book
  PROVE  /\ status' \in [Orders -> Statuses]
         /\ hold' \in [Orders -> {"none", "active", "released"}]
         /\ events' \in [Orders -> SUBSET AllEvents]
         /\ HasLatest'
         /\ \A p \in Orders : \A x \in events'[p] : x.type # "rejected" => Placed(p)'
         /\ HoldUntilResolved'
         /\ SubmittedMeansPlaced'
<1> DEFINE E == events[o] \cup {e}
           s == StatusAfter(LastEvent(E).type, FilledBy(E))
<1>1. /\ events' = [events EXCEPT ![o] = E]
      /\ status' = [status EXCEPT ![o] = s]
      /\ hold' = IF ReleasesHold(s) THEN [hold EXCEPT ![o] = "released"] ELSE hold
  BY DEF ApplyNewEvent
<1>2. /\ status \in [Orders -> Statuses]
      /\ hold \in [Orders -> {"none", "active", "released"}]
      /\ events \in [Orders -> SUBSET AllEvents]
  BY DEF IInv, Types
<1>3. E \subseteq AllEvents
  BY <1>2
<1>4. \E f \in E : \A g \in E : g.seq <= f.seq
  BY <1>2, InsertKeepsLatest DEF IInv, HasLatest
<1>5. LastEvent(E) \in E
  BY <1>4, LatestIsMember
<1>6. LastEvent(E).type \in EventTypes
  BY <1>3, <1>5 DEF AllEvents
<1>7. /\ s \in Statuses
      /\ s \notin {"none", "awaiting_approval", "approved"}
      /\ LastEvent(E).type = "rejected" => s = "rejected"
  BY <1>6, ProjectedStatus
<1>8. \A x \in E : x.type # "rejected" => Placed(o)
  BY DEF IInv, KnownIsPlaced
<1>9. s # "rejected" => Placed(o)
  BY <1>5, <1>7, <1>8
<1> HIDE DEF E, s
<1>10. status' \in [Orders -> Statuses] /\ events' \in [Orders -> SUBSET AllEvents]
  BY <1>1, <1>2, <1>3, <1>7
<1>11. hold' \in [Orders -> {"none", "active", "released"}]
  BY <1>1, <1>2
<1>12. HasLatest'
  BY <1>1, <1>2, <1>4 DEF IInv, HasLatest
<1>13. \A p \in Orders : Placed(p)' = Placed(p)
  BY DEF Placed
<1>14. \A p \in Orders : \A x \in events'[p] : x.type # "rejected" => Placed(p)'
  BY <1>1, <1>2, <1>8, <1>13 DEF IInv, KnownIsPlaced
<1>15. HoldUntilResolved'
  BY <1>1, <1>2, <1>7 DEF IInv, HoldUntilResolved, ReleasesHold
<1>16. SubmittedMeansPlaced'
  <2> SUFFICES ASSUME NEW p \in Orders,
                      status'[p] \in {"submitted", "accepted", "partially_filled",
                                      "filled", "canceled", "expired"}
               PROVE  \E b \in book' : b[1] = p
    BY DEF SubmittedMeansPlaced
  <2>1. CASE p = o
    <3>1. Placed(o)
      BY <1>1, <1>2, <1>9, <2>1
    <3> QED BY <2>1, <3>1 DEF Placed
  <2>2. CASE p # o
    BY <1>1, <1>2, <2>2 DEF IInv, SubmittedMeansPlaced
  <2> QED BY <2>1, <2>2
<1> QED BY <1>10, <1>11, <1>12, <1>14, <1>15, <1>16

-----------------------------------------------------------------------------
\* Steps, by what they leave alone

\* A step that touches no order column keeps the invariant if what it does to
\* the task, the wire and the broker does.
LEMMA OrderFrame ==
  ASSUME IInv, UNCHANGED <<status, hold, events>>,
         book \subseteq book', Types', DerivedIds',
         \A o \in Orders : /\ broker'[o].state # "none" => Placed(o)'
                           /\ task'[o].pc = "answered" => Placed(o)'
                           /\ \A m \in updates' : m.order = o => Placed(o)'
  PROVE  IInv'
<1>1. \A o \in Orders : Placed(o) => Placed(o)'
  BY DEF Placed
<1>2. HasLatest' /\ HoldUntilResolved'
  BY DEF IInv, HasLatest, HoldUntilResolved
<1>3. SubmittedMeansPlaced'
  BY DEF IInv, SubmittedMeansPlaced
<1>4. KnownIsPlaced'
  BY <1>1 DEF IInv, KnownIsPlaced
<1> QED BY <1>2, <1>3, <1>4 DEF IInv

\* Only the submission task moves, and not to "answered".
LEMMA TaskFrame ==
  ASSUME IInv, NEW o \in Orders, NEW pc \in TaskPcs \ {"answered"}, NEW n \in Nat,
         SetTask(o, pc, n), UNCHANGED <<orderVars, wire, brokerVars, now>>
  PROVE  IInv'
<1>1. task \in [Orders -> [pc : TaskPcs, tries : Nat]]
  BY DEF IInv, Types
<1>2. task' \in [Orders -> [pc : TaskPcs, tries : Nat]]
  BY <1>1 DEF SetTask
<1>3. \A p \in Orders : task'[p].pc = "answered" => task[p].pc = "answered"
  BY <1>1 DEF SetTask
<1>4. Types'
  BY <1>2 DEF IInv, Types, orderVars, brokerVars
<1>5. DerivedIds' /\ \A p \in Orders : Placed(p)' = Placed(p)
  BY DEF IInv, DerivedIds, brokerVars, Placed
<1> QED
  BY <1>3, <1>4, <1>5, OrderFrame DEF IInv, KnownIsPlaced, orderVars, brokerVars

\* Only the broker's view of an order it has moves, and it may send an update.
LEMMA BrokerFrame ==
  ASSUME IInv, NEW o \in Orders, broker[o].state # "none",
         broker' \in [Orders -> BrokerOrders],
         \A p \in Orders : p # o => broker'[p] = broker[p],
         updates' \subseteq AllEvents,
         \A m \in updates' : m \in updates \/ m.order = o,
         now' \in Nat, UNCHANGED <<orderVars, task, wire, book>>
  PROVE  IInv'
<1>1. Placed(o)
  BY DEF IInv, KnownIsPlaced
<1>2. \A p \in Orders : Placed(p)' = Placed(p)
  BY DEF Placed
<1>4. Types'
  BY DEF IInv, Types, orderVars
<1>5. DerivedIds'
  BY DEF IInv, DerivedIds
<1>6. \A p \in Orders : broker'[p].state # "none" => Placed(p)
  BY <1>1 DEF IInv, KnownIsPlaced
<1>7. \A p \in Orders : \A m \in updates' : m.order = p => Placed(p)
  BY <1>1 DEF IInv, KnownIsPlaced
<1>8. \A p \in Orders : task'[p].pc = "answered" => Placed(p)
  BY DEF IInv, KnownIsPlaced
<1> QED
  BY <1>2, <1>4, <1>5, <1>6, <1>7, <1>8, OrderFrame DEF orderVars

\* An event is recorded, the task may move (not to "answered"), and nothing
\* happens at the broker.
LEMMA EventFrame ==
  ASSUME IInv, NEW o \in Orders, NEW e \in AllEvents,
         e.type # "rejected" => Placed(o),
         ApplyNewEvent(o, e),
         task' \in [Orders -> [pc : TaskPcs, tries : Nat]],
         \A p \in Orders : task'[p].pc = "answered" => task[p].pc = "answered",
         now' \in Nat, UNCHANGED <<wire, brokerVars>>
  PROVE  IInv'
<1>1. UNCHANGED <<wire, book, broker, updates>>
  BY DEF brokerVars
<1>2. /\ status' \in [Orders -> Statuses]
      /\ hold' \in [Orders -> {"none", "active", "released"}]
      /\ events' \in [Orders -> SUBSET AllEvents]
      /\ HasLatest'
      /\ \A p \in Orders : \A x \in events'[p] : x.type # "rejected" => Placed(p)'
      /\ HoldUntilResolved'
      /\ SubmittedMeansPlaced'
  BY <1>1, ApplyKeepsInvariant
<1>3. Types'
  BY <1>1, <1>2 DEF IInv, Types
<1>4. DerivedIds' /\ \A p \in Orders : Placed(p)' = Placed(p)
  BY <1>1 DEF IInv, DerivedIds, Placed
<1>5. KnownIsPlaced'
  BY <1>1, <1>2, <1>4 DEF IInv, KnownIsPlaced
<1> QED BY <1>2, <1>3, <1>4, <1>5 DEF IInv

-----------------------------------------------------------------------------
\* One lemma per action

\* A new order has no events and no broker order.
LEMMA CreateOrderStep ==
  ASSUME IInv, NEW o \in Orders, NEW needsApproval \in BOOLEAN,
         CreateOrder(o, needsApproval)
  PROVE  IInv'
<1>1. UNCHANGED <<filled, events, wire, book, broker, updates, now>>
  BY DEF CreateOrder, brokerVars
<1>2. /\ status \in [Orders -> Statuses]
      /\ hold \in [Orders -> {"none", "active", "released"}]
      /\ task \in [Orders -> [pc : TaskPcs, tries : Nat]]
  BY DEF IInv, Types
<1>3. PICK s \in {"awaiting_approval", "approved"} : status' = [status EXCEPT ![o] = s]
  BY DEF CreateOrder
<1>4. status' \in [Orders -> Statuses]
  BY <1>2, <1>3 DEF Statuses
<1>5. hold' \in [Orders -> {"none", "active", "released"}] /\ hold'[o] = "active"
      /\ \A p \in Orders : p # o => hold'[p] = hold[p]
  BY <1>2 DEF CreateOrder
<1>6. task' \in [Orders -> [pc : TaskPcs, tries : Nat]]
      /\ \A p \in Orders : task'[p].pc = "answered" => task[p].pc = "answered"
  BY <1>2 DEF CreateOrder, SetTask, TaskPcs
<1>7. Types'
  BY <1>1, <1>4, <1>5, <1>6 DEF IInv, Types
<1>8. DerivedIds' /\ HasLatest' /\ \A p \in Orders : Placed(p)' = Placed(p)
  BY <1>1 DEF IInv, DerivedIds, HasLatest, Placed
<1>9. KnownIsPlaced'
  BY <1>1, <1>6, <1>8 DEF IInv, KnownIsPlaced
<1>10. HoldUntilResolved'
  BY <1>2, <1>3, <1>5 DEF IInv, HoldUntilResolved, TerminalNonFilled
<1>11. SubmittedMeansPlaced'
  BY <1>1, <1>2, <1>3 DEF IInv, SubmittedMeansPlaced
<1> QED BY <1>7, <1>8, <1>9, <1>10, <1>11 DEF IInv

\* Approval moves the status and queues the submission; the hold stays.
LEMMA ApproveStep ==
  ASSUME IInv, NEW o \in Orders, Approve(o)
  PROVE  IInv'
<1>1. UNCHANGED <<filled, hold, events, wire, book, broker, updates, now>>
  BY DEF Approve, brokerVars
<1>2. /\ status \in [Orders -> Statuses]
      /\ task \in [Orders -> [pc : TaskPcs, tries : Nat]]
  BY DEF IInv, Types
<1>3. status' = [status EXCEPT ![o] = "approved"] /\ status[o] = "awaiting_approval"
  BY DEF Approve
<1>4. status' \in [Orders -> Statuses]
  BY <1>2, <1>3 DEF Statuses
<1>5. task' \in [Orders -> [pc : TaskPcs, tries : Nat]]
      /\ \A p \in Orders : task'[p].pc = "answered" => task[p].pc = "answered"
  BY <1>2 DEF Approve, SetTask, TaskPcs
<1>6. Types'
  BY <1>1, <1>4, <1>5 DEF IInv, Types
<1>7. DerivedIds' /\ HasLatest' /\ \A p \in Orders : Placed(p)' = Placed(p)
  BY <1>1 DEF IInv, DerivedIds, HasLatest, Placed
<1>8. KnownIsPlaced'
  BY <1>1, <1>5, <1>7 DEF IInv, KnownIsPlaced
<1>9. HoldUntilResolved'
  BY <1>1, <1>2, <1>3 DEF IInv, HoldUntilResolved, TerminalNonFilled
<1>10. SubmittedMeansPlaced'
  BY <1>1, <1>2, <1>3 DEF IInv, SubmittedMeansPlaced
<1> QED BY <1>6, <1>7, <1>8, <1>9, <1>10 DEF IInv

\* A submission that finds the gate closed records a rejection.
LEMMA SubmitRejectsStep ==
  ASSUME IInv, NEW o \in Orders, SubmitRejects(o)
  PROVE  IInv'
<1>1. PICK t \in now .. now + 1 :
        Stamp(t) /\ ApplyNewEvent(o, Event(o, "rejected", t, 0, 0))
  BY DEF SubmitRejects
<1>2. task \in [Orders -> [pc : TaskPcs, tries : Nat]] /\ now \in Nat
  BY DEF IInv, Types
<1>3. task' \in [Orders -> [pc : TaskPcs, tries : Nat]]
      /\ \A p \in Orders : task'[p].pc = "answered" => task[p].pc = "answered"
  BY <1>2 DEF SubmitRejects, SetTask, TaskPcs
<1>4. now' \in Nat /\ t \in Nat
  BY <1>1, <1>2 DEF Stamp
<1>5. Event(o, "rejected", t, 0, 0) \in AllEvents
      /\ Event(o, "rejected", t, 0, 0).type = "rejected"
  BY <1>4 DEF Event, AllEvents, EventTypes, TerminalNonFilled
<1> QED BY <1>1, <1>3, <1>4, <1>5, EventFrame DEF SubmitRejects

\* A submission the broker answered records SUBMITTED of a placed order.
LEMMA SubmitCommitsStep ==
  ASSUME IInv, NEW o \in Orders, SubmitCommits(o)
  PROVE  IInv'
<1>1. PICK t \in now .. now + 1 :
        Stamp(t) /\ ApplyNewEvent(o, Event(o, "submitted", t, 0, 0))
  BY DEF SubmitCommits
<1>2. task \in [Orders -> [pc : TaskPcs, tries : Nat]] /\ now \in Nat
  BY DEF IInv, Types
<1>3. task' \in [Orders -> [pc : TaskPcs, tries : Nat]]
      /\ \A p \in Orders : task'[p].pc = "answered" => task[p].pc = "answered"
  BY <1>2 DEF SubmitCommits, SetTask, TaskPcs
<1>4. now' \in Nat /\ t \in Nat
  BY <1>1, <1>2 DEF Stamp
<1>5. Event(o, "submitted", t, 0, 0) \in AllEvents
  BY <1>4 DEF Event, AllEvents, EventTypes, TerminalNonFilled
<1>6. Placed(o)
  BY DEF SubmitCommits, IInv, KnownIsPlaced
<1> QED BY <1>1, <1>3, <1>4, <1>5, <1>6, EventFrame DEF SubmitCommits

\* A trade update is about an order the broker has.
LEMMA ApplyUpdateStep ==
  ASSUME IInv, NEW m \in updates, ApplyUpdate(m)
  PROVE  IInv'
<1>1. m \in AllEvents /\ m.order \in Orders
  BY DEF IInv, Types, AllEvents
<1>2. Placed(m.order)
  BY <1>1 DEF IInv, KnownIsPlaced
<1>3. task' = task /\ now' = now
  BY DEF ApplyUpdate
<1>4. task' \in [Orders -> [pc : TaskPcs, tries : Nat]] /\ now' \in Nat
  BY <1>3 DEF IInv, Types
<1> QED BY <1>1, <1>2, <1>3, <1>4, EventFrame DEF ApplyUpdate

\* A request on the wire carries the derived client_order_id.
LEMMA SubmitCallsStep ==
  ASSUME IInv, NEW o \in Orders, SubmitCalls(o)
  PROVE  IInv'
<1> DEFINE r == [order |-> o, client |-> ClientOrderId(o, task[o].tries),
                 attempt |-> task[o].tries]
<1>1. UNCHANGED <<status, filled, hold, events, book, broker, updates, now>>
      /\ wire' = wire \cup {r}
  BY DEF SubmitCalls, orderVars, brokerVars
<1>2. task \in [Orders -> [pc : TaskPcs, tries : Nat]]
  BY DEF IInv, Types
<1>3. task' \in [Orders -> [pc : TaskPcs, tries : Nat]]
      /\ \A p \in Orders : task'[p].pc = "answered" => task[p].pc = "answered"
  BY <1>2 DEF SubmitCalls, SetTask, TaskPcs
<1>4. /\ r \in [order : Orders, client : Orders \X Nat, attempt : Nat]
      /\ r.client = <<r.order, 0>>
  BY <1>2 DEF ClientOrderId
<1> HIDE DEF r
<1>5. Types'
  BY <1>1, <1>3, <1>4 DEF IInv, Types
<1>6. DerivedIds' /\ \A p \in Orders : Placed(p)' = Placed(p)
  BY <1>1, <1>4 DEF IInv, DerivedIds, Placed
<1> QED BY <1>1, <1>3, <1>5, <1>6, OrderFrame DEF IInv, KnownIsPlaced

\* The broker takes a request once and refuses a known id.
LEMMA BrokerReceivesStep ==
  ASSUME IInv, NEW r \in wire, BrokerReceives(r)
  PROVE  IInv'
<1> DEFINE o == r.order
<1>1. /\ o \in Orders
      /\ r.client = <<o, 0>>
  BY DEF IInv, Types, DerivedIds
<1>2. UNCHANGED <<status, filled, hold, events, updates, now>>
      /\ wire' = wire \ {r} /\ book' = book \cup {<<o, <<o, 0>>>>}
  BY <1>1 DEF BrokerReceives, orderVars
<1>3. /\ task \in [Orders -> [pc : TaskPcs, tries : Nat]]
      /\ broker \in [Orders -> BrokerOrders]
  BY DEF IInv, Types
<1>4. /\ broker' \in [Orders -> BrokerOrders]
      /\ \A p \in Orders : p # o => broker'[p] = broker[p]
  BY <1>1, <1>3 DEF BrokerReceives, BrokerOrders, BrokerStates
<1>5. /\ task' \in [Orders -> [pc : TaskPcs, tries : Nat]]
      /\ \A p \in Orders : p # o => task'[p] = task[p]
  <2>1. \/ task' = task
        \/ SetTask(o, "answered", task[o].tries)
        \/ SetTask(o, "refused", task[o].tries)
    BY DEF BrokerReceives
  <2>2. task[o].tries \in Nat
    BY <1>1, <1>3
  <2> QED BY <1>1, <1>3, <2>1, <2>2 DEF SetTask, TaskPcs
<1> HIDE DEF o
<1>6. Placed(o)' /\ \A p \in Orders : Placed(p) => Placed(p)'
  BY <1>2 DEF Placed
<1>7. book' \subseteq Orders \X (Orders \X Nat)
  BY <1>1, <1>2 DEF IInv, Types
<1>8. Types'
  BY <1>2, <1>4, <1>5, <1>7 DEF IInv, Types
<1>9. \A b \in book' : b = <<b[1], <<b[1], 0>>>>
  BY <1>2 DEF IInv, DerivedIds
<1>10. DerivedIds'
  BY <1>2, <1>9 DEF IInv, DerivedIds
<1> QED
  BY <1>1, <1>2, <1>4, <1>5, <1>6, <1>8, <1>10, OrderFrame DEF IInv, KnownIsPlaced

\* The broker's own steps: it has the order, and what it sends is about it.
LEMMA BrokerSendsTyped ==
  ASSUME IInv, NEW o \in Orders, NEW type \in EventTypes, NEW exec \in Nat,
         NEW qty \in Nat, BrokerSends(o, type, exec, qty)
  PROVE  /\ now' \in Nat
         /\ updates' \subseteq AllEvents
         /\ \A m \in updates' : m \in updates \/ m.order = o
<1>1. PICK t \in now .. now + 1 :
        Stamp(t) /\ updates' = updates \cup {Event(o, type, t, exec, qty)}
  BY DEF BrokerSends, HandleMessage
<1>2. t \in Nat /\ now' = t
  BY <1>1 DEF Stamp, IInv, Types
<1>3. Event(o, type, t, exec, qty) \in AllEvents /\ Event(o, type, t, exec, qty).order = o
  BY <1>2 DEF Event, AllEvents
<1> QED BY <1>1, <1>2, <1>3 DEF IInv, Types

\* The broker works an order it has.
LEMMA BrokerOwnStep ==
  ASSUME IInv, NEW o \in Orders, BrokerStep(o)
  PROVE  IInv'
<1>0. broker \in [Orders -> BrokerOrders]
  BY DEF IInv, Types
<1>1. CASE BrokerAccepts(o)
  <2>1. BrokerSends(o, "accepted", 0, 0) /\ "accepted" \in EventTypes
    BY <1>1 DEF BrokerAccepts, EventTypes
  <2>2. broker' \in [Orders -> BrokerOrders] /\ \A p \in Orders : p # o => broker'[p] = broker[p]
    BY <1>0, <1>1 DEF BrokerAccepts, BrokerOrders, BrokerStates
  <2>3. UNCHANGED <<orderVars, task, wire, book>> /\ broker[o].state # "none"
    BY <1>1 DEF BrokerAccepts
  <2> QED BY <2>1, <2>2, <2>3, BrokerSendsTyped, BrokerFrame
<1>2. ASSUME NEW qty \in 1 .. Quantity, BrokerFills(o, qty) PROVE IInv'
  <2>1. BrokerSends(o, "fill", broker[o].execs + 1, qty) /\ "fill" \in EventTypes
    BY <1>2 DEF BrokerFills, EventTypes
  <2>2. /\ qty \in Nat
        /\ broker[o].execs + 1 \in Nat
        /\ broker[o].filled + qty \in Nat
    BY <1>0, OrderAssumption DEF BrokerOrders
  <2>3. broker' \in [Orders -> BrokerOrders] /\ \A p \in Orders : p # o => broker'[p] = broker[p]
    BY <1>0, <1>2, <2>2 DEF BrokerFills, BrokerOrders, BrokerStates
  <2>4. UNCHANGED <<orderVars, task, wire, book>> /\ broker[o].state # "none"
    BY <1>2 DEF BrokerFills
  <2> QED BY <2>1, <2>2, <2>3, <2>4, BrokerSendsTyped, BrokerFrame
<1>3. ASSUME NEW how \in TerminalNonFilled, BrokerEnds(o, how) PROVE IInv'
  <2>1. BrokerSends(o, how, 0, 0) /\ how \in EventTypes
    BY <1>3 DEF BrokerEnds, EventTypes
  <2>2. broker' \in [Orders -> BrokerOrders] /\ \A p \in Orders : p # o => broker'[p] = broker[p]
    BY <1>0, <1>3 DEF BrokerEnds, BrokerOrders, BrokerStates
  <2>3. UNCHANGED <<orderVars, task, wire, book>> /\ broker[o].state # "none"
    BY <1>3 DEF BrokerEnds
  <2> QED BY <2>1, <2>2, <2>3, BrokerSendsTyped, BrokerFrame
<1> QED BY <1>1, <1>2, <1>3 DEF BrokerStep

\* A cancellation request reaches only an order the broker has.
LEMMA RequestCancelStep ==
  ASSUME IInv, NEW o \in Orders, RequestCancel(o)
  PROVE  IInv'
<1>1. broker \in [Orders -> BrokerOrders]
  BY DEF IInv, Types
<1>2. broker' \in [Orders -> BrokerOrders] /\ \A p \in Orders : p # o => broker'[p] = broker[p]
  BY <1>1 DEF RequestCancel, BrokerOrders
<1>3. broker[o].state # "none" /\ UNCHANGED <<orderVars, task, wire, book, updates, now>>
  BY DEF RequestCancel
<1>4. now' \in Nat /\ updates' \subseteq AllEvents
  BY <1>3 DEF IInv, Types
<1> QED BY <1>2, <1>3, <1>4, BrokerFrame

-----------------------------------------------------------------------------
\* The initial state, without orders, is in the invariant.
LEMMA InitEstablishes == Init => IInv
BY DEF Init, IInv, Types, DerivedIds, HasLatest, KnownIsPlaced, HoldUntilResolved,
       SubmittedMeansPlaced, Statuses, TaskPcs, BrokerOrders, BrokerStates, TerminalNonFilled

\* Every step keeps the invariant.
LEMMA NextPreserves == IInv /\ [Next]_vars => IInv'
<1> SUFFICES ASSUME IInv, [Next]_vars PROVE IInv'
  OBVIOUS
<1>0. \A o \in Orders : task[o].tries \in Nat
  BY DEF IInv, Types
<1>1. ASSUME NEW o \in Orders, OrderStep(o) PROVE IInv'
  <2>1. ASSUME NEW b \in BOOLEAN, CreateOrder(o, b) PROVE IInv'
    BY <2>1, CreateOrderStep
  <2>2. CASE Approve(o)
    BY <2>2, ApproveStep
  <2>3. CASE RequestCancel(o)
    BY <2>3, RequestCancelStep
  <2>4. CASE SubmitSkips(o)
    BY <1>0, <2>4, TaskFrame DEF SubmitSkips, TaskPcs
  <2>5. CASE SubmitRejects(o)
    BY <2>5, SubmitRejectsStep
  <2>6. CASE SubmitCalls(o)
    BY <2>6, SubmitCallsStep
  <2>7. CASE SubmitCommits(o)
    BY <2>7, SubmitCommitsStep
  <2>8. CASE SubmitFails(o)
    <3>1. task[o].tries + 1 \in Nat
      BY <1>0
    <3>2. (IF task[o].tries + 1 < MaxTries THEN "queued" ELSE "dead") \in TaskPcs \ {"answered"}
      BY DEF TaskPcs
    <3> QED BY <2>8, <3>1, <3>2, TaskFrame DEF SubmitFails
  <2>9. CASE SubmitDies(o)
    BY <1>0, <2>9, TaskFrame DEF SubmitDies, TaskPcs
  <2> QED BY <1>1, <2>1, <2>2, <2>3, <2>4, <2>5, <2>6, <2>7, <2>8, <2>9 DEF OrderStep
<1>2. ASSUME NEW o \in Orders, BrokerStep(o) PROVE IInv'
  BY <1>2, BrokerOwnStep
<1>3. ASSUME NEW r \in wire, BrokerReceives(r) PROVE IInv'
  BY <1>3, BrokerReceivesStep
<1>4. ASSUME NEW m \in updates, ApplyUpdate(m) PROVE IInv'
  BY <1>4, ApplyUpdateStep
<1>5. CASE UNCHANGED <<orderVars, task, wire, brokerVars, now>>
  <2>1. Types' /\ DerivedIds' /\ \A o \in Orders : Placed(o)' = Placed(o)
    BY <1>5 DEF IInv, Types, DerivedIds, Placed, orderVars, brokerVars
  <2> QED
    BY <1>5, <2>1, OrderFrame DEF IInv, KnownIsPlaced, orderVars, brokerVars
<1>6. ASSUME NEW m \in updates, RefuseUpdate(m) PROVE IInv'
  BY <1>5, <1>6 DEF RefuseUpdate
<1>7. CASE EligibilityChanges
  BY <1>5, <1>7 DEF EligibilityChanges
<1>8. CASE UNCHANGED vars
  BY <1>5, <1>8 DEF vars, orderVars, brokerVars
<1>9. ASSUME NEW m \in updates, FailUpdate(m) PROVE IInv'
  BY <1>5, <1>9 DEF FailUpdate
<1> QED BY <1>1, <1>2, <1>3, <1>4, <1>6, <1>7, <1>8, <1>9 DEF Next

\* The inductive invariant holds throughout every execution.
THEOREM OrderInvariant == Spec => []IInv
BY InitEstablishes, NextPreserves, PTL DEF Spec

\* Cash stays held until the order is resolved and is freed when it ends
\* unfilled, however the broker's events are reordered or repeated.
THEOREM HoldCoversOrder == Spec => []HoldUntilResolved
<1>1. IInv => HoldUntilResolved
  BY DEF IInv
<1> QED BY <1>1, OrderInvariant, PTL

\* A status past `approved` is never shown for an order the broker does not
\* have, through any number of failed, late or repeated submissions.
THEOREM SubmittedIsPlaced == Spec => []SubmittedMeansPlaced
<1>1. IInv => SubmittedMeansPlaced
  BY DEF IInv
<1> QED BY <1>1, OrderInvariant, PTL

\* Retried submissions never place a second order.
THEOREM PlacedOnce == Spec => []OneBrokerOrder
<1>1. IInv => OneBrokerOrder
  BY DEF IInv, DerivedIds, OneBrokerOrder
<1> QED BY <1>1, OrderInvariant, PTL

-----------------------------------------------------------------------------
\* A submission none of whose attempts was lost

\* The broker has never heard of the order, and no request is on its way.
Uncalled(o) == broker[o].state = "none" /\ \A r \in wire : r.order # o

\* What holds of every order: the broker has a state for what it took, an order
\* without events is before submission, and a rejection is on file.
Tracked(o) ==
  /\ Placed(o) => broker[o].state # "none"
  /\ events[o] = {} => status[o] \in {"none", "awaiting_approval", "approved"}
  /\ status[o] \in {"none", "awaiting_approval"} => task[o].pc = "none" /\ task[o].tries = 0
  /\ status[o] = "rejected" => \E e \in events[o] : e.type = "rejected"
  /\ \A m \in updates : m.order = o /\ m.type = "rejected" => broker[o].state = "rejected"

\* What holds until an attempt is lost: nothing is recorded before the first
\* attempt ends, and the attempt ends with the gate's rejection or with the
\* broker's id on file and the hold released.
Clean(o) ==
  /\ task[o].pc \in {"none", "queued"} => Uncalled(o)
  /\ task[o].pc = "queued" => status[o] = "approved"
  /\ task[o].pc # "done" => events[o] = {}
  /\ task[o].pc = "done" => \/ Uncalled(o) /\ status[o] = "rejected"
                            \/ HasBrokerOrderId(o) /\ hold[o] = "released"
  /\ \A e \in events[o] : e.type = "rejected" => Uncalled(o) \/ broker[o].state = "rejected"

\* The one attempt of an order, while no attempt is lost.
Submission(o) == Tracked(o) /\ (~AttemptLost(o) => Clean(o))

\* An order none of whose columns, requests, updates or broker state change.
LEMMA SubmissionFrame ==
  ASSUME NEW o \in Orders, Submission(o),
         status'[o] = status[o], hold'[o] = hold[o], events'[o] = events[o],
         task'[o] = task[o], broker'[o].state = broker[o].state, Placed(o)' = Placed(o),
         \A r \in wire' : r.order = o => r \in wire,
         \A m \in updates' : m.order = o => m \in updates
  PROVE  Submission(o)'
<1>1. Tracked(o)'
  BY DEF Submission, Tracked
<1>2. AttemptLost(o)' = AttemptLost(o)
  BY DEF AttemptLost
<1>3. Uncalled(o) => Uncalled(o)'
  BY DEF Uncalled
<1>4. HasBrokerOrderId(o)' = HasBrokerOrderId(o)
  BY DEF HasBrokerOrderId
<1>5. Clean(o) => Clean(o)'
  BY <1>3, <1>4 DEF Clean
<1> QED BY <1>1, <1>2, <1>5 DEF Submission

\* The latest of one event is that event.
LEMMA OnlyEvent ==
  ASSUME NEW e \in AllEvents
  PROVE  LastEvent({e}) = e
<1>1. e.seq <= e.seq
  BY DEF AllEvents
<1>2. \E f \in {e} : \A g \in {e} : g.seq <= f.seq
  BY <1>1
<1> QED BY <1>2, LatestIsMember

\* A recorded event is on file, leads to its own status when it is the first,
\* and never takes a hold back.
LEMMA RecordedEvent ==
  ASSUME IInv, NEW o \in Orders, NEW e \in AllEvents, ApplyNewEvent(o, e)
  PROVE  /\ events' = [events EXCEPT ![o] = events[o] \cup {e}]
         /\ \A p \in Orders : p # o => status'[p] = status[p] /\ hold'[p] = hold[p]
         /\ hold[o] = "released" => hold'[o] = "released"
         /\ status'[o] \notin {"none", "awaiting_approval", "approved"}
         /\ status'[o] = "rejected" => \E f \in events'[o] : f.type = "rejected"
         /\ events[o] = {} /\ e.type \in {"submitted", "rejected"} =>
              status'[o] = e.type /\ hold'[o] = "released"
<1> DEFINE E == events[o] \cup {e}
           s == StatusAfter(LastEvent(E).type, FilledBy(E))
<1>1. /\ events' = [events EXCEPT ![o] = E]
      /\ status' = [status EXCEPT ![o] = s]
      /\ hold' = IF ReleasesHold(s) THEN [hold EXCEPT ![o] = "released"] ELSE hold
  BY DEF ApplyNewEvent
<1>2. /\ status \in [Orders -> Statuses] /\ hold \in [Orders -> {"none", "active", "released"}]
      /\ events \in [Orders -> SUBSET AllEvents]
  BY DEF IInv, Types
<1>3. E \subseteq AllEvents /\ \E f \in E : \A g \in E : g.seq <= f.seq
  BY <1>2, InsertKeepsLatest DEF IInv, HasLatest
<1>4. LastEvent(E) \in E /\ LastEvent(E).type \in EventTypes
  BY <1>3, LatestIsMember DEF AllEvents
<1>5. s \notin {"none", "awaiting_approval", "approved"}
  BY <1>4, ProjectedStatus
<1>6. s = "rejected" => LastEvent(E).type = "rejected"
  BY DEF StatusAfter
<1>7. events[o] = {} /\ e.type \in {"submitted", "rejected"} => s = e.type /\ ReleasesHold(s)
  <2> SUFFICES ASSUME events[o] = {}, e.type \in {"submitted", "rejected"}
               PROVE  s = e.type /\ ReleasesHold(s)
    OBVIOUS
  <2>1. E = {e}
    OBVIOUS
  <2>2. LastEvent(E) = e
    BY <2>1, OnlyEvent
  <2> HIDE DEF E
  <2>3. s = e.type
    BY <2>2 DEF StatusAfter
  <2> QED BY <2>3 DEF ReleasesHold, TerminalNonFilled
<1> HIDE DEF s
<1>8. events'[o] = E
  BY <1>1, <1>2
<1> QED BY <1>1, <1>2, <1>4, <1>5, <1>6, <1>7, <1>8

\* Creation and approval: the task is queued before anybody was called.
LEMMA SubmissionOpens ==
  ASSUME IInv, \A p \in Orders : Submission(p), NEW o \in Orders,
         (\E b \in BOOLEAN : CreateOrder(o, b)) \/ Approve(o), NEW p \in Orders
  PROVE  Submission(p)'
<1>0. /\ status \in [Orders -> Statuses] /\ hold \in [Orders -> {"none", "active", "released"}]
      /\ task \in [Orders -> [pc : TaskPcs, tries : Nat]]
  BY DEF IInv, Types
<1>1. UNCHANGED <<events, wire, book, broker, updates>>
  BY DEF CreateOrder, Approve, brokerVars
<1>2. Placed(p)' = Placed(p)
  BY <1>1 DEF Placed
<1>3. CASE p # o
  <2>1. status'[p] = status[p] /\ hold'[p] = hold[p] /\ task'[p] = task[p]
    BY <1>0, <1>3 DEF CreateOrder, Approve, SetTask
  <2> QED BY <1>1, <1>2, <2>1, SubmissionFrame
<1>4. CASE p = o
  <2>1. /\ status[o] \in {"none", "awaiting_approval"} /\ task[o].pc = "none" /\ task[o].tries = 0
        /\ Tracked(o) /\ Clean(o)
    BY <1>0 DEF CreateOrder, Approve, Submission, Tracked, AttemptLost
  <2>2. Uncalled(o)' /\ events'[o] = {}
    BY <1>1, <2>1 DEF Clean, Uncalled
  <2>3. \/ status'[o] = "awaiting_approval" /\ task'[o] = task[o]
        \/ status'[o] = "approved" /\ task'[o] = [pc |-> "queued", tries |-> 0]
    BY <1>0 DEF CreateOrder, Approve, SetTask
  <2>4. Tracked(o)'
    BY <1>1, <1>2, <1>4, <2>1, <2>2, <2>3 DEF Tracked
  <2>5. Clean(o)'
    BY <2>1, <2>2, <2>3 DEF Clean
  <2> QED BY <1>4, <2>4, <2>5 DEF Submission
<1> QED BY <1>3, <1>4

\* An attempt that is lost, or found the order resolved, records nothing.
LEMMA SubmissionEnds ==
  ASSUME IInv, \A p \in Orders : Submission(p), NEW o \in Orders,
         SubmitSkips(o) \/ SubmitFails(o) \/ SubmitDies(o), NEW p \in Orders
  PROVE  Submission(p)'
<1>0. task \in [Orders -> [pc : TaskPcs, tries : Nat]]
  BY DEF IInv, Types
<1>1. UNCHANGED <<status, hold, events, wire, book, broker, updates>>
  BY DEF SubmitSkips, SubmitFails, SubmitDies, brokerVars, orderVars
<1>2. Placed(p)' = Placed(p)
  BY <1>1 DEF Placed
<1>3. CASE p # o
  <2>1. task'[p] = task[p]
    BY <1>0, <1>3 DEF SubmitSkips, SubmitFails, SubmitDies, SetTask
  <2> QED BY <1>1, <1>2, <2>1, SubmissionFrame
<1>4. CASE p = o
  <2>1. task[o].pc # "none"
    BY DEF SubmitSkips, SubmitFails, SubmitDies, RowLocked
  <2>2. status[o] \notin {"none", "awaiting_approval"}
    BY <2>1 DEF Submission, Tracked
  <2>3. Tracked(o)'
    BY <1>1, <1>2, <1>4, <2>2 DEF Submission, Tracked
  <2>4. AttemptLost(o)'
    <3>1. CASE SubmitSkips(o)
      <4>1. AttemptLost(o) /\ task[o].pc = "queued" /\ task[o].tries \in Nat
        BY <1>0, <3>1 DEF SubmitSkips, Submission, Clean
      <4>2. task[o].tries > 0
        BY <4>1 DEF AttemptLost
      <4>3. task'[o].tries = task[o].tries
        BY <1>0, <3>1 DEF SubmitSkips, SetTask
      <4> QED BY <4>2, <4>3 DEF AttemptLost
    <3>2. CASE SubmitFails(o)
      <4>1. task'[o].tries = task[o].tries + 1 /\ task[o].tries \in Nat
        BY <1>0, <3>2 DEF SubmitFails, SetTask
      <4> QED BY <4>1 DEF AttemptLost
    <3>3. CASE SubmitDies(o)
      <4>1. task'[o].pc = "dead"
        BY <1>0, <3>3 DEF SubmitDies, SetTask
      <4> QED BY <4>1 DEF AttemptLost
    <3> QED BY <3>1, <3>2, <3>3
  <2> QED BY <1>4, <2>3, <2>4 DEF Submission
<1> QED BY <1>3, <1>4

\* The gate rejects, or the answer is committed: the order's first event, unless
\* an attempt was lost before.
LEMMA SubmissionRecords ==
  ASSUME IInv, \A p \in Orders : Submission(p), NEW o \in Orders,
         SubmitRejects(o) \/ SubmitCommits(o), NEW p \in Orders
  PROVE  Submission(p)'
<1>0. /\ task \in [Orders -> [pc : TaskPcs, tries : Nat]] /\ now \in Nat
      /\ events \in [Orders -> SUBSET AllEvents]
  BY DEF IInv, Types
<1>1. UNCHANGED <<wire, book, broker, updates>>
  BY DEF SubmitRejects, SubmitCommits, brokerVars
<1>2. PICK type \in {"rejected", "submitted"}, t \in now .. now + 1 :
        /\ ApplyNewEvent(o, Event(o, type, t, 0, 0))
        /\ \/ type = "rejected" /\ task[o].pc = "queued"
           \/ type = "submitted" /\ task[o].pc = "answered"
  BY DEF SubmitRejects, SubmitCommits
<1> DEFINE e == Event(o, type, t, 0, 0)
<1>3. e \in AllEvents /\ e.type = type
  <2>1. t \in Nat
    BY <1>0
  <2> QED BY <2>1 DEF Event, AllEvents, EventTypes, TerminalNonFilled
<1> HIDE DEF e
<1>4. /\ events' = [events EXCEPT ![o] = events[o] \cup {e}]
      /\ \A q \in Orders : q # o => status'[q] = status[q] /\ hold'[q] = hold[q]
      /\ status'[o] \notin {"none", "awaiting_approval", "approved"}
      /\ status'[o] = "rejected" => \E f \in events'[o] : f.type = "rejected"
      /\ events[o] = {} => status'[o] = type /\ hold'[o] = "released"
  BY <1>2, <1>3, RecordedEvent DEF e
<1>5. /\ events'[o] = events[o] \cup {e} /\ \A q \in Orders : q # o => events'[q] = events[q]
  BY <1>0, <1>4
<1>6. /\ \A q \in Orders : q # o => task'[q] = task[q]
      /\ \/ task'[o].pc = "done" /\ task'[o].tries = task[o].tries
         \/ task'[o].tries = task[o].tries + 1
  BY <1>0 DEF SubmitRejects, SubmitCommits, SetTask
<1>7. Placed(p)' = Placed(p)
  BY <1>1 DEF Placed
<1>8. CASE p # o
  BY <1>1, <1>4, <1>5, <1>6, <1>7, <1>8, SubmissionFrame
<1>9. CASE p = o
  <2>1. Tracked(o)'
    BY <1>1, <1>4, <1>5, <1>7, <1>9 DEF Submission, Tracked
  <2>2. ASSUME ~AttemptLost(o)' PROVE Clean(o)'
    <3>1. /\ task[o].tries \in Nat /\ task'[o].tries = task[o].tries /\ task'[o].pc = "done"
          /\ task[o].tries = 0
      <4>1. task[o].tries \in Nat /\ ~(task'[o].tries > 0)
        BY <1>0, <2>2 DEF AttemptLost
      <4> QED BY <1>6, <4>1
    <3>2. Clean(o)
      BY <1>2, <3>1 DEF Submission, AttemptLost
    <3>3. events[o] = {} /\ events'[o] = {e} /\ status'[o] = type /\ hold'[o] = "released"
      BY <1>2, <1>4, <1>5, <3>2 DEF Clean
    <3>4. CASE type = "rejected"
      <4>1. Uncalled(o)'
        BY <1>1, <1>2, <3>2, <3>4 DEF Clean, Uncalled
      <4> QED BY <3>1, <3>3, <3>4, <4>1 DEF Clean
    <3>5. CASE type = "submitted"
      <4>1. HasBrokerOrderId(o)'
        BY <1>3, <3>3, <3>5 DEF HasBrokerOrderId
      <4> QED BY <1>3, <3>1, <3>3, <3>5, <4>1 DEF Clean
    <3> QED BY <3>4, <3>5
  <2> QED BY <1>9, <2>1, <2>2 DEF Submission
<1> QED BY <1>8, <1>9

\* The request leaves.
LEMMA SubmissionCalls ==
  ASSUME IInv, \A p \in Orders : Submission(p), NEW o \in Orders, SubmitCalls(o),
         NEW p \in Orders
  PROVE  Submission(p)'
<1>0. task \in [Orders -> [pc : TaskPcs, tries : Nat]]
  BY DEF IInv, Types
<1> DEFINE r == [order |-> o, client |-> ClientOrderId(o, task[o].tries),
                 attempt |-> task[o].tries]
<1>1. /\ UNCHANGED <<status, hold, events, book, broker, updates>> /\ wire' = wire \cup {r}
      /\ r.order = o
  BY DEF SubmitCalls, orderVars, brokerVars
<1> HIDE DEF r
<1>2. /\ task[o].pc = "queued" /\ task'[o].pc = "calling" /\ task'[o].tries = task[o].tries
      /\ status[o] = "approved" /\ \A q \in Orders : q # o => task'[q] = task[q]
  BY <1>0 DEF SubmitCalls, SetTask
<1>3. Placed(p)' = Placed(p)
  BY <1>1 DEF Placed
<1>4. CASE p # o
  BY <1>1, <1>2, <1>3, <1>4, SubmissionFrame
<1>5. CASE p = o
  <2>1. Tracked(o)'
    BY <1>1, <1>2, <1>3, <1>5 DEF Submission, Tracked
  <2>2. ~AttemptLost(o)' => ~AttemptLost(o)
    BY <1>2 DEF AttemptLost
  <2>3. ~AttemptLost(o) => Clean(o)'
    BY <1>1, <1>2 DEF Submission, Clean
  <2> QED BY <1>5, <2>1, <2>2, <2>3 DEF Submission
<1> QED BY <1>4, <1>5

\* A request reaches the broker, in time or late.
LEMMA SubmissionReceived ==
  ASSUME IInv, \A p \in Orders : Submission(p), NEW r \in wire, BrokerReceives(r),
         NEW p \in Orders
  PROVE  Submission(p)'
<1> DEFINE o == r.order
<1>1. /\ task \in [Orders -> [pc : TaskPcs, tries : Nat]] /\ broker \in [Orders -> BrokerOrders]
      /\ o \in Orders /\ r.client = <<o, 0>>
  BY DEF IInv, Types, DerivedIds
<1>2. /\ UNCHANGED <<status, hold, events, updates>> /\ wire' = wire \ {r}
      /\ book' = book \cup {<<o, <<o, 0>>>>}
  BY <1>1 DEF BrokerReceives, orderVars
<1>3. /\ \A q \in Orders : q # o => broker'[q] = broker[q]
      /\ \/ broker' = broker /\ (broker[o].state # "none" \/ Placed(o))
         \/ broker'[o].state = "received" /\ broker[o].state = "none"
  <2>1. CASE <<o, <<o, 0>>>> \notin book /\ broker[o].state = "none"
    <3>1. broker' = [broker EXCEPT ![o].state = "received"]
      BY <1>1, <2>1 DEF BrokerReceives
    <3> QED BY <1>1, <2>1, <3>1 DEF BrokerOrders
  <2>2. CASE ~(<<o, <<o, 0>>>> \notin book /\ broker[o].state = "none")
    <3>1. broker' = broker
      BY <1>1, <2>2 DEF BrokerReceives
    <3> QED BY <2>2, <3>1 DEF Placed
  <2> QED BY <2>1, <2>2
<1>4. /\ \A q \in Orders : q # o => task'[q] = task[q]
      /\ \/ task' = task
         \/ /\ task[o].pc = "calling" /\ task'[o].pc \in {"answered", "refused"}
            /\ task'[o].tries = task[o].tries
  <2>1. \/ task' = task
        \/ /\ task[o].pc = "calling"
           /\ SetTask(o, "answered", task[o].tries) \/ SetTask(o, "refused", task[o].tries)
    BY DEF BrokerReceives
  <2> QED BY <1>1, <2>1 DEF SetTask
<1>5. ~Uncalled(o) /\ r.order = o
  BY DEF Uncalled
<1> HIDE DEF o
<1>6. CASE p # o
  <2>1. Placed(p)' = Placed(p)
    BY <1>2, <1>6 DEF Placed
  <2> QED BY <1>2, <1>3, <1>4, <1>6, <2>1, SubmissionFrame
<1>7. CASE p = o
  <2>0. Tracked(o)
    BY <1>1 DEF Submission
  <2>1. broker'[o].state # "none" /\ (broker[o].state = "rejected" => broker'[o].state = "rejected")
    BY <1>3, <2>0 DEF Tracked
  <2>2. Tracked(o)'
    <3>1. status[o] \in {"none", "awaiting_approval"} => task'[o].pc = "none" /\ task'[o].tries = 0
      BY <1>4, <2>0 DEF Tracked
    <3> QED BY <1>2, <2>0, <2>1, <3>1 DEF Tracked
  <2>3. ASSUME ~AttemptLost(o)' PROVE Clean(o)'
    <3>1. ~AttemptLost(o)
      <4>1. task'[o].tries = task[o].tries /\ (task[o].pc = "dead" => task'[o].pc = "dead")
        BY <1>4
      <4> QED BY <2>3, <4>1 DEF AttemptLost
    <3>2. Clean(o) /\ task[o].pc \notin {"none", "queued"}
      BY <1>1, <1>5, <3>1 DEF Submission, Clean
    <3>3. /\ task'[o].pc \notin {"none", "queued"} /\ (task'[o].pc = "done" <=> task[o].pc = "done")
      BY <1>4, <3>2
    <3>4. HasBrokerOrderId(o)' = HasBrokerOrderId(o)
      BY <1>2 DEF HasBrokerOrderId
    <3> QED BY <1>2, <1>5, <2>1, <3>2, <3>3, <3>4 DEF Clean
  <2> QED BY <1>7, <2>2, <2>3 DEF Submission
<1> QED BY <1>6, <1>7

\* The broker works on an order it has: a rejection is its last word.
LEMMA SubmissionWorked ==
  ASSUME IInv, \A p \in Orders : Submission(p), NEW o \in Orders,
         BrokerStep(o) \/ RequestCancel(o), NEW p \in Orders
  PROVE  Submission(p)'
<1>0. /\ broker \in [Orders -> BrokerOrders] /\ now \in Nat
  BY DEF IInv, Types
<1>1. /\ UNCHANGED <<status, hold, events, task, wire, book>>
      /\ broker[o].state \in {"received", "open"}
  BY DEF BrokerStep, BrokerAccepts, BrokerFills, BrokerEnds, RequestCancel, orderVars
<1>2. /\ \A q \in Orders : q # o => broker'[q] = broker[q]
      /\ broker'[o].state # "none"
      /\ \A m \in updates' : m \in updates
           \/ (m.order = o /\ (m.type = "rejected" => broker'[o].state = "rejected"))
  <2>1. CASE BrokerAccepts(o)
    BY <1>0, <2>1 DEF BrokerAccepts, BrokerSends, HandleMessage, Event, BrokerOrders
  <2>2. ASSUME NEW qty \in 1 .. Quantity, BrokerFills(o, qty) PROVE <1>2!:
    <3>1. /\ \A q \in Orders : q # o => broker'[q] = broker[q]
          /\ broker'[o].state \in {"filled", "open"}
      BY <1>0, <2>2 DEF BrokerFills, BrokerOrders
    <3>2. \A m \in updates' : m \in updates \/ (m.order = o /\ m.type = "fill")
      BY <2>2 DEF BrokerFills, BrokerSends, HandleMessage, Event
    <3> QED BY <3>1, <3>2
  <2>3. ASSUME NEW how \in TerminalNonFilled, BrokerEnds(o, how) PROVE <1>2!:
    <3>1. /\ \A q \in Orders : q # o => broker'[q] = broker[q]
          /\ broker'[o].state = how /\ how # "none"
      BY <1>0, <2>3 DEF BrokerEnds, BrokerOrders, TerminalNonFilled
    <3>2. \A m \in updates' : m \in updates \/ (m.order = o /\ m.type = how)
      BY <2>3 DEF BrokerEnds, BrokerSends, HandleMessage, Event
    <3> QED BY <3>1, <3>2
  <2>4. CASE RequestCancel(o)
    <3>1. /\ updates' = updates /\ broker' = [broker EXCEPT ![o].cancelAsked = TRUE]
      BY <2>4 DEF RequestCancel
    <3>2. /\ \A q \in Orders : q # o => broker'[q] = broker[q]
          /\ broker'[o].state = broker[o].state
      BY <1>0, <3>1 DEF BrokerOrders
    <3> QED BY <1>1, <3>1, <3>2
  <2> QED BY <2>1, <2>2, <2>3, <2>4 DEF BrokerStep
<1>3. Placed(p)' = Placed(p)
  BY <1>1 DEF Placed
<1>4. CASE p # o
  BY <1>1, <1>2, <1>3, <1>4, SubmissionFrame
<1>5. CASE p = o
  <2>1. \A m \in updates : m.order = o => m.type # "rejected"
    BY <1>1 DEF Submission, Tracked
  <2>2. Tracked(o)'
    BY <1>1, <1>2, <1>3, <1>5, <2>1 DEF Submission, Tracked
  <2>3. AttemptLost(o)' = AttemptLost(o) /\ ~Uncalled(o)
        /\ HasBrokerOrderId(o)' = HasBrokerOrderId(o)
    BY <1>1 DEF AttemptLost, Uncalled, HasBrokerOrderId
  <2>4. Clean(o) => Clean(o)'
    BY <1>1, <2>3 DEF Clean
  <2> QED BY <1>5, <2>2, <2>3, <2>4 DEF Submission
<1> QED BY <1>4, <1>5

\* A trade update is applied: the order is at the broker, so its submission
\* ended with the broker's id on file or an attempt was lost.
LEMMA SubmissionUpdated ==
  ASSUME IInv, \A p \in Orders : Submission(p), NEW m \in updates, ApplyUpdate(m),
         NEW p \in Orders
  PROVE  Submission(p)'
<1> DEFINE o == m.order
<1>1. m \in AllEvents /\ o \in Orders /\ events \in [Orders -> SUBSET AllEvents]
  BY DEF IInv, Types, AllEvents
<1>2. UNCHANGED <<task, wire, book, broker, updates>> /\ ~RowLocked(o) /\ ApplyNewEvent(o, m)
  BY DEF ApplyUpdate, brokerVars
<1>3. /\ events' = [events EXCEPT ![o] = events[o] \cup {m}]
      /\ \A q \in Orders : q # o => status'[q] = status[q] /\ hold'[q] = hold[q]
      /\ hold[o] = "released" => hold'[o] = "released"
      /\ status'[o] \notin {"none", "awaiting_approval", "approved"}
      /\ status'[o] = "rejected" => \E f \in events'[o] : f.type = "rejected"
  BY <1>1, <1>2, RecordedEvent
<1>4. events'[o] = events[o] \cup {m} /\ \A q \in Orders : q # o => events'[q] = events[q]
  BY <1>1, <1>3
<1>5. Placed(o) /\ broker[o].state # "none"
  BY <1>1 DEF IInv, KnownIsPlaced, Submission, Tracked
<1>6. m.type = "rejected" => broker[o].state = "rejected"
  BY <1>1 DEF Submission, Tracked
<1>p. Placed(p)' = Placed(p)
  BY <1>2 DEF Placed
<1> HIDE DEF o
<1>7. CASE p # o
  BY <1>2, <1>3, <1>4, <1>7, <1>p, SubmissionFrame
<1>8. CASE p = o
  <2>1. Tracked(o)'
    BY <1>1, <1>2, <1>3, <1>4, <1>8, <1>p DEF Submission, Tracked
  <2>2. ASSUME ~AttemptLost(o)' PROVE Clean(o)'
    <3>1. ~AttemptLost(o) /\ Clean(o)
      BY <1>1, <1>2, <2>2 DEF AttemptLost, Submission
    <3>2. ~Uncalled(o)
      BY <1>5 DEF Uncalled
    <3>3. task[o].pc = "done"
      <4>1. task[o].pc \in TaskPcs
        BY <1>1 DEF IInv, Types
      <4> QED BY <1>2, <3>1, <3>2, <4>1 DEF TaskPcs, RowLocked, Clean, AttemptLost
    <3>4. HasBrokerOrderId(o)' /\ hold'[o] = "released"
      BY <1>3, <1>4, <3>1, <3>2, <3>3 DEF Clean, HasBrokerOrderId
    <3> QED BY <1>2, <1>4, <1>6, <3>1, <3>2, <3>3, <3>4 DEF Clean
  <2> QED BY <1>8, <2>1, <2>2 DEF Submission
<1> QED BY <1>7, <1>8

\* Every order starts with nothing recorded and nobody called.
LEMMA InitSubmission == Init => \A o \in Orders : Submission(o)
<1> SUFFICES ASSUME Init, NEW o \in Orders PROVE Submission(o)
  OBVIOUS
<1>1. /\ status[o] = "none" /\ events[o] = {} /\ task[o].pc = "none" /\ task[o].tries = 0
      /\ broker[o].state = "none" /\ wire = {} /\ book = {} /\ updates = {}
  BY DEF Init
<1> QED BY <1>1 DEF Submission, Tracked, Clean, Uncalled, Placed

\* Every step keeps the record of every order's submission.
LEMMA NextSubmission ==
  IInv /\ (\A o \in Orders : Submission(o)) /\ [Next]_vars => (\A o \in Orders : Submission(o))'
<1> SUFFICES ASSUME IInv, \A o \in Orders : Submission(o), [Next]_vars, NEW p \in Orders
             PROVE  Submission(p)'
  OBVIOUS
<1>1. ASSUME NEW o \in Orders, OrderStep(o) PROVE Submission(p)'
  <2>1. CASE (\E b \in BOOLEAN : CreateOrder(o, b)) \/ Approve(o)
    BY <2>1, SubmissionOpens
  <2>2. CASE RequestCancel(o)
    BY <2>2, SubmissionWorked
  <2>3. CASE SubmitSkips(o) \/ SubmitFails(o) \/ SubmitDies(o)
    BY <2>3, SubmissionEnds
  <2>4. CASE SubmitRejects(o) \/ SubmitCommits(o)
    BY <2>4, SubmissionRecords
  <2>5. CASE SubmitCalls(o)
    BY <2>5, SubmissionCalls
  <2> QED BY <1>1, <2>1, <2>2, <2>3, <2>4, <2>5 DEF OrderStep
<1>2. ASSUME NEW o \in Orders, BrokerStep(o) PROVE Submission(p)'
  BY <1>2, SubmissionWorked
<1>3. ASSUME NEW r \in wire, BrokerReceives(r) PROVE Submission(p)'
  BY <1>3, SubmissionReceived
<1>4. ASSUME NEW m \in updates, ApplyUpdate(m) PROVE Submission(p)'
  BY <1>4, SubmissionUpdated
<1>5. CASE UNCHANGED <<orderVars, task, wire, brokerVars>>
  <2>1. UNCHANGED <<status, hold, events, task, wire, book, broker, updates>>
    BY <1>5 DEF orderVars, brokerVars
  <2>2. Placed(p)' = Placed(p)
    BY <2>1 DEF Placed
  <2> QED BY <2>1, <2>2, SubmissionFrame
<1>6. ASSUME NEW m \in updates, RefuseUpdate(m) PROVE Submission(p)'
  BY <1>5, <1>6 DEF RefuseUpdate
<1>7. CASE EligibilityChanges
  BY <1>5, <1>7 DEF EligibilityChanges
<1>8. CASE UNCHANGED vars
  BY <1>5, <1>8 DEF vars, orderVars, brokerVars
<1>9. ASSUME NEW m \in updates, FailUpdate(m) PROVE Submission(p)'
  BY <1>5, <1>9 DEF FailUpdate
<1> QED BY <1>1, <1>2, <1>3, <1>4, <1>6, <1>7, <1>8, <1>9 DEF Next

\* As long as no attempt was lost, an order past `approved` has the broker's id
\* on file and its hold released, and one the gate rejected is not at the
\* broker, whatever the broker did before the submission committed.
THEOREM SubmissionIsClean == Spec => []CleanSubmission
<1>1. IInv /\ (\A o \in Orders : Submission(o)) => CleanSubmission
  <2> SUFFICES ASSUME NEW o \in Orders, Submission(o), ~AttemptLost(o)
               PROVE  /\ status[o] \in Cancellable \cup {"filled"} =>
                           hold[o] = "released" /\ HasBrokerOrderId(o)
                      /\ status[o] = "rejected" => broker[o].state \in {"none", "rejected"}
    BY DEF CleanSubmission
  <2>1. Tracked(o) /\ Clean(o)
    BY DEF Submission
  <2>2. ASSUME status[o] \in Cancellable \cup {"filled"}
        PROVE  hold[o] = "released" /\ HasBrokerOrderId(o)
    <3>1. status[o] \notin {"none", "awaiting_approval", "approved", "rejected"}
      BY <2>2 DEF Cancellable
    <3>2. events[o] # {}
      BY <2>1, <3>1 DEF Tracked
    <3> QED BY <2>1, <3>1, <3>2 DEF Clean
  <2>3. status[o] = "rejected" => broker[o].state \in {"none", "rejected"}
    BY <2>1 DEF Tracked, Clean, Uncalled
  <2> QED BY <2>2, <2>3
<1>2. Spec => [](\A o \in Orders : Submission(o))
  BY InitSubmission, NextSubmission, OrderInvariant, PTL DEF Spec
<1> QED BY <1>1, <1>2, OrderInvariant, PTL

-----------------------------------------------------------------------------
\* What is on file, what the broker executed, and the fold

\* The trade updates of an order, and the quantities of events.
UpdatesOf(o) == {m \in updates : m.order = o}
Qty == [e \in AllEvents |-> e.qty]

\* The cached columns follow the events on file, and an order without events
\* is one that was not submitted.
Projection(o) ==
  /\ status[o] \in {"none", "awaiting_approval", "approved"} <=> events[o] = {}
  /\ RowLocked(o) => status[o] = "approved"
  /\ filled[o] = FilledBy(events[o])
  /\ events[o] # {} => status[o] = StatusAfter(LastEvent(events[o]).type, filled[o])

\* What is on file came from the broker, but for the first event; no two events
\* share an instant.
OnFile(o) ==
  /\ IsFiniteSet(events[o])
  /\ \A e \in events[o] : e \in UpdatesOf(o) \/ (e.type \in {"submitted", "rejected"} /\ e.qty = 0)
  /\ \A e, f \in events[o] : e.seq = f.seq => e = f

\* The broker's count is the sum of the executions it reported.
Executed(o) ==
  /\ IsFiniteSet(UpdatesOf(o))
  /\ \A m \in UpdatesOf(o) : /\ m.seq <= now
                             /\ m.type = "fill" <=> m.qty > 0
                             /\ m.type = "fill" => m.exec <= broker[o].execs
  /\ \A m, n \in UpdatesOf(o) : m.type = "fill" /\ n.type = "fill" /\ m.exec = n.exec => m = n
  /\ broker[o].filled = FilledBy(UpdatesOf(o)) /\ broker[o].filled <= Quantity
  /\ broker[o].filled = Quantity => broker[o].state = "filled"

\* Nothing happens at the broker after it ended or filled an order.
Ended(o) ==
  /\ \A m \in UpdatesOf(o) : m.type \in {"canceled", "expired"} =>
        broker[o].state \in BrokerClosed /\ \A u \in UpdatesOf(o) : u.seq <= m.seq
  /\ broker[o].state = "filled" =>
        \E m \in UpdatesOf(o) : m.type = "fill" /\ \A u \in UpdatesOf(o) : u.seq <= m.seq

\* The cached columns of an order, and the broker's executions behind them.
Booked(o) == Projection(o) /\ OnFile(o) /\ Executed(o) /\ Ended(o)

\* What a set of events fills is the sum of their quantities.
LEMMA FilledIsTotal ==
  ASSUME NEW E, E \subseteq AllEvents, IsFiniteSet(E)
  PROVE  FilledBy(E) = Total(Qty, E)
<1> DEFINE R(g) == g = [s \in SUBSET E |-> IF s = {} THEN 0 ELSE First(s).qty + g[s \ {First(s)}]]
           G == CHOOSE g : R(g)
<1>1. FilledBy(E) = G[E]
  BY DEF FilledBy, MapThenSumSet, MapThenFoldSet, First
<1>2. \A s \in SUBSET E : s # {} => Qty[First(s)] = First(s).qty
  BY DEF First, Qty
<1>3. AddsUp(Qty, Iter(Qty, E), SUBSET E)
  BY IterAddsUp
<1>4. R(Iter(Qty, E))
  BY <1>2, <1>3 DEF AddsUp
<1>5. R(G)
  BY <1>4
<1>6. AddsUp(Qty, G, SUBSET E)
  <2> HIDE DEF G
  <2> QED BY <1>2, <1>5 DEF AddsUp
<1> HIDE DEF G
<1> QED BY <1>1, <1>6, TotalIsAny

\* The quantities of events are natural numbers, and so is what they fill.
LEMMA FilledNat ==
  ASSUME NEW E, E \subseteq AllEvents, IsFiniteSet(E)
  PROVE  /\ \A e \in E : Qty[e] = e.qty /\ Qty[e] \in Nat
         /\ FilledBy(E) \in Nat
<1>1. \A e \in E : Qty[e] = e.qty /\ Qty[e] \in Nat
  BY DEF Qty, AllEvents
<1> QED BY <1>1, FilledIsTotal, TotalNat

\* Two sets of events, where what only the first has fills nothing.
LEMMA FilledWithin ==
  ASSUME NEW E, E \subseteq AllEvents, IsFiniteSet(E), NEW U, U \subseteq AllEvents, IsFiniteSet(U),
         \A e \in E \ U : e.qty = 0
  PROVE  /\ FilledBy(E) <= FilledBy(U)
         /\ \A u \in U \ E : FilledBy(E) + u.qty <= FilledBy(U)
<1>1. \A e \in E \cup U : Qty[e] = e.qty /\ Qty[e] \in Nat
  BY DEF Qty, AllEvents
<1>2. \A e \in E \ U : Qty[e] = 0
  BY <1>1
<1>3. Total(Qty, E) <= Total(Qty, U) /\ \A u \in U \ E : Total(Qty, E) + Qty[u] <= Total(Qty, U)
  BY <1>1, <1>2, TotalWithin
<1> QED BY <1>1, <1>3, FilledIsTotal

\* One event more.
LEMMA FilledInsert ==
  ASSUME NEW E, E \subseteq AllEvents, IsFiniteSet(E), NEW e \in AllEvents, e \notin E
  PROVE  FilledBy(E \cup {e}) = e.qty + FilledBy(E)
<1>1. \A x \in E \cup {e} : Qty[x] = x.qty /\ Qty[x] \in Int
  BY DEF Qty, AllEvents
<1>2. Total(Qty, E \cup {e}) = Qty[e] + Total(Qty, E)
  BY <1>1, TotalInsert
<1>3. E \cup {e} \subseteq AllEvents /\ IsFiniteSet(E \cup {e})
  BY FS_AddElement
<1> QED BY <1>1, <1>2, <1>3, FilledIsTotal

\* No events have filled nothing.
LEMMA FilledNothing == FilledBy({}) = 0
<1>1. IsFiniteSet({}) /\ {} \subseteq AllEvents
  BY FS_EmptySet
<1> QED BY <1>1, FilledIsTotal, TotalEmpty

\* The latest of a set of events in which no two share an instant is unchanged
\* by an earlier one.
LEMMA LatestStays ==
  ASSUME NEW E, E \subseteq AllEvents, NEW m \in AllEvents,
         \A e, f \in E : e.seq = f.seq => e = f,
         \A e \in E : e.seq # m.seq,
         NEW l \in E, \A e \in E : e.seq <= l.seq, m.seq <= l.seq
  PROVE  LastEvent(E) = l /\ LastEvent(E \cup {m}) = l
<1>0. m.seq \in Nat /\ \A e \in E : e.seq \in Nat
  BY DEF AllEvents
<1>1. LastEvent(E) \in E /\ \A e \in E : e.seq <= LastEvent(E).seq
  BY DEF LastEvent
<1>2. LastEvent(E) = l
  BY <1>0, <1>1
<1> DEFINE F == E \cup {m}
<1>3. l \in F /\ \A e \in F : e.seq <= l.seq
  OBVIOUS
<1>4. LastEvent(F) \in F /\ \A e \in F : e.seq <= LastEvent(F).seq
  <2> HIDE DEF F
  <2> QED BY <1>3 DEF LastEvent
<1>5. LastEvent(F).seq = l.seq
  BY <1>0, <1>3, <1>4
<1> QED BY <1>2, <1>4, <1>5

\* Steps that leave the order's columns and its updates alone: the task may
\* lock the row of an approved order, and the broker may take an order in.
LEMMA BookedFrame ==
  ASSUME IInv, NEW o \in Orders, Booked(o),
         status'[o] = status[o], filled'[o] = filled[o], events'[o] = events[o],
         UpdatesOf(o)' = UpdatesOf(o),
         broker'[o].filled = broker[o].filled, broker'[o].execs = broker[o].execs,
         \/ broker'[o].state = broker[o].state
         \/ broker[o].state = "none" /\ broker'[o].state = "received",
         RowLocked(o)' => RowLocked(o) \/ status[o] = "approved",
         now' \in Nat, now <= now'
  PROVE  Booked(o)'
<1>1. Projection(o)'
  BY DEF Booked, Projection
<1>2. OnFile(o)'
  BY DEF Booked, OnFile
<1>3. now \in Nat /\ \A m \in UpdatesOf(o) : m.seq \in Nat
  BY DEF IInv, Types, UpdatesOf, AllEvents
<1>4. Executed(o)'
  <2>1. \A m \in UpdatesOf(o) : m.seq <= now'
    BY <1>3 DEF Booked, Executed
  <2>2. broker[o].filled = Quantity => broker'[o].state = "filled"
    BY DEF Booked, Executed
  <2> QED BY <2>1, <2>2 DEF Booked, Executed
<1>5. Ended(o)'
  BY DEF Booked, Ended, BrokerClosed, TerminalNonFilled
<1> QED BY <1>1, <1>2, <1>4, <1>5 DEF Booked

\* Creation and approval move an order without events between the statuses
\* before submission.
LEMMA BookedOpens ==
  ASSUME IInv, \A p \in Orders : Booked(p), NEW o \in Orders,
         (\E b \in BOOLEAN : CreateOrder(o, b)) \/ Approve(o), NEW p \in Orders
  PROVE  Booked(p)'
<1>0. /\ status \in [Orders -> Statuses] /\ task \in [Orders -> [pc : TaskPcs, tries : Nat]]
      /\ now \in Nat
  BY DEF IInv, Types
<1>1. UNCHANGED <<filled, events, wire, book, broker, updates, now>>
  BY DEF CreateOrder, Approve, brokerVars
<1>2. UpdatesOf(p)' = UpdatesOf(p)
  BY <1>1 DEF UpdatesOf
<1>3. CASE p # o
  <2>1. status'[p] = status[p] /\ task'[p] = task[p]
    BY <1>0, <1>3 DEF CreateOrder, Approve, SetTask
  <2>2. RowLocked(p)' = RowLocked(p)
    BY <2>1 DEF RowLocked
  <2> QED BY <1>0, <1>1, <1>2, <2>1, <2>2, BookedFrame
<1>4. CASE p = o
  <2>1. /\ status[o] \in {"none", "awaiting_approval"}
        /\ status'[o] \in {"awaiting_approval", "approved"}
        /\ task'[o] = task[o] \/ task'[o].pc = "queued"
    BY <1>0 DEF CreateOrder, Approve, SetTask
  <2>2. events[o] = {} /\ ~RowLocked(o)
    BY <2>1 DEF Booked, Projection
  <2>3. ~RowLocked(o)'
    BY <2>1, <2>2 DEF RowLocked
  <2>4. Projection(o)'
    BY <1>1, <2>1, <2>2, <2>3 DEF Booked, Projection
  <2>5. OnFile(o)' /\ Executed(o)' /\ Ended(o)'
    BY <1>1, <1>2, <1>4 DEF Booked, OnFile, Executed, Ended
  <2> QED BY <1>4, <2>4, <2>5 DEF Booked
<1> QED BY <1>3, <1>4

\* An event is recorded: one of the broker's that conflicts with none on file,
\* or the first of all.
LEMMA BookedRecords ==
  ASSUME IInv, filled \in [Orders -> Nat], \A p \in Orders : Booked(p),
         NEW o \in Orders, NEW e \in AllEvents,
         \/ e \in UpdatesOf(o) /\ \A f \in events[o] : f.seq # e.seq
         \/ events[o] = {} /\ e.type \in {"submitted", "rejected"} /\ e.qty = 0,
         ApplyNewEvent(o, e), UNCHANGED brokerVars, now' \in Nat, now <= now',
         ~RowLocked(o)', \A p \in Orders : p # o => task'[p] = task[p]
  PROVE  filled' \in [Orders -> Nat] /\ \A p \in Orders : Booked(p)'
<1> DEFINE E == events[o] \cup {e}
           s == StatusAfter(LastEvent(E).type, FilledBy(E))
<1>0. status \in [Orders -> Statuses] /\ events \in [Orders -> SUBSET AllEvents] /\ now \in Nat
  BY DEF IInv, Types
<1>1. /\ events' = [events EXCEPT ![o] = E]
      /\ filled' = [filled EXCEPT ![o] = FilledBy(E)]
      /\ status' = [status EXCEPT ![o] = s]
  BY DEF ApplyNewEvent
<1>2. filled' \in [Orders -> Nat]
  <2>1. E \subseteq AllEvents /\ IsFiniteSet(E)
    BY <1>0, FS_AddElement DEF Booked, OnFile
  <2>2. FilledBy(E) \in Nat
    <3> HIDE DEF E
    <3> QED BY <2>1, FilledNat
  <2> QED BY <1>1, <2>2
<1> SUFFICES ASSUME NEW p \in Orders PROVE Booked(p)'
  BY <1>2
<1>3. UNCHANGED <<broker, updates>> /\ UpdatesOf(p)' = UpdatesOf(p)
  BY DEF brokerVars, UpdatesOf
<1>4. CASE p # o
  <2>1. status'[p] = status[p] /\ filled'[p] = filled[p] /\ events'[p] = events[p]
    BY <1>0, <1>1, <1>4
  <2>2. RowLocked(p)' = RowLocked(p)
    BY <1>4 DEF RowLocked
  <2> QED BY <1>3, <2>1, <2>2, BookedFrame
<1>5. CASE p = o
  <2>1. status'[o] = s /\ events'[o] = E
    BY <1>0, <1>1
  <2>2. s \notin {"none", "awaiting_approval", "approved"}
    BY <2>1, RecordedEvent
  <2>3. Projection(o)'
    <3>1. filled'[o] = FilledBy(E)
      BY <1>1
    <3> HIDE DEF E, s
    <3>2. E # {}
      BY DEF E
    <3>3. status'[o] = StatusAfter(LastEvent(E).type, FilledBy(E))
      BY <2>1 DEF s
    <3> QED BY <2>1, <2>2, <3>1, <3>2, <3>3 DEF Projection
  <2>4. OnFile(o)'
    <3>1. IsFiniteSet(E)
      BY FS_AddElement DEF Booked, OnFile
    <3>2. \A x, y \in E : x.seq = y.seq => x = y
      BY DEF Booked, OnFile
    <3>3. \A x \in E : x \in UpdatesOf(o) \/ (x.type \in {"submitted", "rejected"} /\ x.qty = 0)
      BY DEF Booked, OnFile
    <3> HIDE DEF E
    <3> QED BY <1>3, <1>5, <2>1, <3>1, <3>2, <3>3 DEF OnFile
  <2>5. Executed(o)' /\ Ended(o)'
    <3>1. \A m \in UpdatesOf(o) : m.seq <= now'
      <4>1. \A m \in UpdatesOf(o) : m.seq \in Nat
        BY DEF IInv, Types, UpdatesOf, AllEvents
      <4> QED BY <1>0, <4>1 DEF Booked, Executed
    <3> QED BY <1>3, <1>5, <3>1 DEF Booked, Executed, Ended
  <2> QED BY <1>5, <2>3, <2>4, <2>5 DEF Booked
<1> QED BY <1>4, <1>5

\* A step of the broker that sends update u about order o.
Sends(o, u) ==
  /\ u \in AllEvents /\ u.order = o /\ u.seq = now' /\ now' \in Nat /\ now <= now'
  /\ updates' = updates \cup {u} /\ gone' \in {gone, gone \cup {u}}
  /\ UNCHANGED <<status, filled, events, task, settled, refused>>
  /\ broker' \in [Orders -> BrokerOrders]
  /\ \A p \in Orders : p # o => broker'[p] = broker[p]
  /\ \/ /\ broker[o].state \in {"received", "open"}
        /\ u.type \in {"accepted"} \cup TerminalNonFilled /\ u.qty = 0
        /\ broker'[o].filled = broker[o].filled /\ broker'[o].execs = broker[o].execs
        /\ broker'[o].state = IF u.type = "accepted" THEN "open" ELSE u.type
     \/ /\ broker[o].state = "open" /\ u.type = "fill" /\ u.qty > 0
        /\ u.exec = broker[o].execs + 1 /\ broker'[o].execs = broker[o].execs + 1
        /\ broker'[o].filled = broker[o].filled + u.qty /\ broker'[o].filled <= Quantity
        /\ broker'[o].state = IF broker'[o].filled = Quantity THEN "filled" ELSE "open"

\* A step of the submission task that records the first event of order o.
RecordsFirst(o, e) ==
  /\ e \in AllEvents /\ e.type \in {"submitted", "rejected"} /\ e.qty = 0
  /\ e.seq = now' /\ now' \in Nat /\ now <= now'
  /\ events[o] = {} /\ ApplyNewEvent(o, e)
  /\ UNCHANGED <<book, broker, updates, rowVars>>
  /\ ~RowLocked(o)' /\ \A p \in Orders : p # o => task'[p] = task[p]

\* A step that records nothing and sends nothing.
Quiet ==
  /\ UNCHANGED <<status, filled, events, updates, now>>
  /\ \A p \in Orders :
       /\ broker'[p].filled = broker[p].filled /\ broker'[p].execs = broker[p].execs
       /\ \/ broker'[p].state = broker[p].state
          \/ broker[p].state = "none" /\ broker'[p].state = "received"
       /\ RowLocked(p)' => RowLocked(p) \/ status[p] = "approved"

\* What the broker sends keeps its count and its order of events.
LEMMA BookedSends ==
  ASSUME IInv, \A p \in Orders : Booked(p), NEW o \in Orders, NEW u, Sends(o, u),
         NEW p \in Orders
  PROVE  Booked(p)'
<1>a. now \in Nat /\ now <= now'
  BY OrderAssumption DEF IInv, Types, Sends
<1> USE DEF Sends
<1>0. /\ updates \subseteq AllEvents /\ now \in Nat /\ broker \in [Orders -> BrokerOrders]
      /\ events \in [Orders -> SUBSET AllEvents]
  BY DEF IInv, Types
<1>1. CASE p # o
  <2>1. UpdatesOf(p)' = UpdatesOf(p)
    BY <1>1 DEF UpdatesOf
  <2>2. RowLocked(p)' = RowLocked(p)
    BY DEF RowLocked
  <2> QED BY <1>1, <1>a, <2>1, <2>2, BookedFrame
<1>2. CASE p = o
  <2> DEFINE U == UpdatesOf(o)
  <2>1. UpdatesOf(o)' = U \cup {u} /\ U \subseteq AllEvents
    BY <1>0 DEF UpdatesOf
  <2>2. Projection(o)'
    <3>1. RowLocked(o)' = RowLocked(o)
      BY DEF RowLocked
    <3> QED BY <3>1 DEF Booked, Projection
  <2>3. OnFile(o)'
    BY <2>1 DEF Booked, OnFile
  <2>4. \A m \in U \cup {u} : m.seq \in Nat /\ m.seq <= now'
    BY <1>0, <1>a, <2>1 DEF AllEvents, Booked, Executed
  <2>5. IsFiniteSet(U) /\ IsFiniteSet(U \cup {u}) /\ broker[o].filled = FilledBy(U)
    BY FS_AddElement DEF Booked, Executed
  <2>6. /\ \A m \in U : /\ m.type = "fill" <=> m.qty > 0
                        /\ m.type = "fill" => m.exec <= broker[o].execs
        /\ \A m, n \in U : m.type = "fill" /\ n.type = "fill" /\ m.exec = n.exec => m = n
        /\ broker[o].filled <= Quantity
        /\ broker[o].filled = Quantity => broker[o].state = "filled"
    BY DEF Booked, Executed
  <2>7. \A m \in U : m.type \notin {"canceled", "expired"}
    BY DEF Booked, Ended, BrokerClosed, TerminalNonFilled
  <2>8. broker[o].execs \in Nat /\ broker[o].filled \in Nat /\ u.exec \in Nat /\ u.qty \in Nat
        /\ \A m \in U : m.exec \in Nat /\ m.qty \in Nat
    BY <1>0, <2>1 DEF BrokerOrders, AllEvents
  <2>9. Executed(o)' /\ Ended(o)'
    <3>1. CASE u.type = "fill"
      <4>1. /\ broker[o].state = "open" /\ u.qty > 0
            /\ u.exec = broker[o].execs + 1 /\ broker'[o].execs = broker[o].execs + 1
            /\ broker'[o].filled = broker[o].filled + u.qty /\ broker'[o].filled <= Quantity
            /\ broker'[o].state = IF broker'[o].filled = Quantity THEN "filled" ELSE "open"
        BY <3>1 DEF TerminalNonFilled
      <4>2. u \notin U
        BY <2>6, <2>8, <3>1, <4>1
      <4>3. FilledBy(U \cup {u}) = broker'[o].filled
        <5>1. FilledBy(U \cup {u}) = u.qty + FilledBy(U)
          <6> HIDE DEF U
          <6> QED BY <2>1, <2>5, <4>2, FilledInsert
        <5> QED BY <2>5, <2>8, <4>1, <5>1
      <4>4. \A m \in U \cup {u} : /\ m.type = "fill" <=> m.qty > 0
                                  /\ m.type = "fill" => m.exec <= broker'[o].execs
        BY <2>6, <2>8, <3>1, <4>1
      <4>5. \A m, n \in U \cup {u} : m.type = "fill" /\ n.type = "fill" /\ m.exec = n.exec => m = n
        BY <2>6, <2>8, <4>1
      <4> HIDE DEF U
      <4>6. Executed(o)'
        BY <2>1, <2>4, <2>5, <4>1, <4>3, <4>4, <4>5 DEF Executed
      <4>7. Ended(o)'
        BY <2>1, <2>4, <2>7, <3>1, <4>1 DEF Ended
      <4> QED BY <4>6, <4>7
    <3>2. CASE u.type # "fill"
      <4>1. /\ broker[o].state \in {"received", "open"}
            /\ u.type \in {"accepted"} \cup TerminalNonFilled /\ u.qty = 0
            /\ broker'[o].filled = broker[o].filled /\ broker'[o].execs = broker[o].execs
            /\ broker'[o].state = IF u.type = "accepted" THEN "open" ELSE u.type
        BY <3>2
      <4>2. FilledBy(U \cup {u}) = FilledBy(U)
        <5>1. CASE u \in U
          <6>1. U \cup {u} = U
            BY <5>1
          <6> QED BY <6>1
        <5>2. CASE u \notin U
          <6>1. FilledBy(U \cup {u}) = u.qty + FilledBy(U)
            <7> HIDE DEF U
            <7> QED BY <2>1, <2>5, <5>2, FilledInsert
          <6> QED BY <2>5, <2>8, <4>1, <6>1
        <5> QED BY <5>1, <5>2
      <4>3. \A m \in U \cup {u} : /\ m.type = "fill" <=> m.qty > 0
                                  /\ m.type = "fill" => m.exec <= broker'[o].execs
        BY <2>6, <2>8, <3>2, <4>1
      <4>4. \A m, n \in U \cup {u} : m.type = "fill" /\ n.type = "fill" /\ m.exec = n.exec => m = n
        BY <2>6, <3>2
      <4>5. broker'[o].state # "filled" /\ broker[o].filled # Quantity
        BY <2>6, <4>1 DEF TerminalNonFilled
      <4> HIDE DEF U
      <4>6. Executed(o)'
        BY <2>1, <2>4, <2>5, <2>6, <4>1, <4>2, <4>3, <4>4, <4>5 DEF Executed
      <4>7. Ended(o)'
        <5>1. u.type \in {"canceled", "expired"} => broker'[o].state \in BrokerClosed
          BY <4>1 DEF BrokerClosed, TerminalNonFilled
        <5> QED BY <2>1, <2>4, <2>7, <4>5, <5>1 DEF Ended
      <4> QED BY <4>6, <4>7
    <3> QED BY <3>1, <3>2
  <2> QED BY <1>2, <2>2, <2>3, <2>9 DEF Booked
<1> QED BY <1>1, <1>2

\* The broker's own steps send.
LEMMA BrokerStepSends ==
  ASSUME IInv, NEW o \in Orders, BrokerStep(o)
  PROVE  \E u : Sends(o, u)
<1>0. broker \in [Orders -> BrokerOrders] /\ now \in Nat
  BY DEF IInv, Types
<1>1. ASSUME NEW type \in EventTypes, NEW exec \in Nat, NEW qty \in Nat,
             BrokerSends(o, type, exec, qty)
      PROVE  \E u \in AllEvents :
               /\ u.order = o /\ u.seq = now' /\ now' \in Nat /\ now <= now'
               /\ updates' = updates \cup {u} /\ gone' \in {gone, gone \cup {u}}
               /\ UNCHANGED <<settled, refused>>
               /\ u.type = type /\ u.exec = exec /\ u.qty = qty
  <2>1. PICK t \in now .. now + 1 :
          Stamp(t) /\ HandleMessage(Event(o, type, t, exec, qty))
    BY <1>1 DEF BrokerSends
  <2>2. t \in Nat /\ now' = t /\ now <= t
    BY <1>0, <2>1, OrderAssumption DEF Stamp
  <2>3. Event(o, type, t, exec, qty) \in AllEvents
    BY <2>2 DEF Event, AllEvents
  <2> QED BY <2>1, <2>2, <2>3 DEF Event, HandleMessage
<1>2. CASE BrokerAccepts(o)
  <2>1. BrokerSends(o, "accepted", 0, 0) /\ "accepted" \in EventTypes
    BY <1>2 DEF BrokerAccepts, EventTypes
  <2>2. PICK u \in AllEvents :
               /\ u.order = o /\ u.seq = now' /\ now' \in Nat /\ now <= now'
               /\ updates' = updates \cup {u} /\ gone' \in {gone, gone \cup {u}}
               /\ UNCHANGED <<settled, refused>>
               /\ u.type = "accepted" /\ u.exec = 0 /\ u.qty = 0
    BY <1>1, <2>1
  <2>3. /\ broker' \in [Orders -> BrokerOrders] /\ \A p \in Orders : p # o => broker'[p] = broker[p]
        /\ broker[o].state = "received" /\ broker'[o].state = "open"
        /\ broker'[o].filled = broker[o].filled /\ broker'[o].execs = broker[o].execs
    BY <1>0, <1>2 DEF BrokerAccepts, BrokerOrders, BrokerStates
  <2>4. UNCHANGED <<status, filled, events, task>>
    BY <1>2 DEF BrokerAccepts, orderVars
  <2> QED BY <2>2, <2>3, <2>4 DEF Sends
<1>3. ASSUME NEW qty \in 1 .. Quantity, BrokerFills(o, qty) PROVE \E u : Sends(o, u)
  <2>1. BrokerSends(o, "fill", broker[o].execs + 1, qty) /\ "fill" \in EventTypes
    BY <1>3 DEF BrokerFills, EventTypes
  <2>2. /\ qty \in Nat /\ qty > 0 /\ broker[o].execs + 1 \in Nat /\ broker[o].filled + qty \in Nat
    BY <1>0, OrderAssumption DEF BrokerOrders
  <2>3. PICK u \in AllEvents :
               /\ u.order = o /\ u.seq = now' /\ now' \in Nat /\ now <= now'
               /\ updates' = updates \cup {u} /\ gone' \in {gone, gone \cup {u}}
               /\ UNCHANGED <<settled, refused>>
               /\ u.type = "fill" /\ u.exec = broker[o].execs + 1 /\ u.qty = qty
    BY <1>1, <2>1, <2>2
  <2>4. /\ broker' \in [Orders -> BrokerOrders] /\ \A p \in Orders : p # o => broker'[p] = broker[p]
        /\ broker[o].state = "open" /\ broker[o].filled + qty <= Quantity
        /\ broker'[o].state = IF broker[o].filled + qty = Quantity THEN "filled" ELSE "open"
        /\ broker'[o].filled = broker[o].filled + qty /\ broker'[o].execs = broker[o].execs + 1
    BY <1>0, <1>3, <2>2 DEF BrokerFills, BrokerOrders, BrokerStates
  <2>5. UNCHANGED <<status, filled, events, task>>
    BY <1>3 DEF BrokerFills, orderVars
  <2> QED BY <2>2, <2>3, <2>4, <2>5 DEF Sends
<1>4. ASSUME NEW how \in TerminalNonFilled, BrokerEnds(o, how) PROVE \E u : Sends(o, u)
  <2>1. BrokerSends(o, how, 0, 0) /\ how \in EventTypes /\ how # "accepted"
    BY <1>4 DEF BrokerEnds, EventTypes, TerminalNonFilled
  <2>2. PICK u \in AllEvents :
               /\ u.order = o /\ u.seq = now' /\ now' \in Nat /\ now <= now'
               /\ updates' = updates \cup {u} /\ gone' \in {gone, gone \cup {u}}
               /\ UNCHANGED <<settled, refused>>
               /\ u.type = how /\ u.exec = 0 /\ u.qty = 0
    BY <1>1, <2>1
  <2>3. /\ broker' \in [Orders -> BrokerOrders] /\ \A p \in Orders : p # o => broker'[p] = broker[p]
        /\ broker[o].state \in {"received", "open"} /\ broker'[o].state = how
        /\ broker'[o].filled = broker[o].filled /\ broker'[o].execs = broker[o].execs
    BY <1>0, <1>4 DEF BrokerEnds, BrokerOrders, BrokerStates
  <2>4. UNCHANGED <<status, filled, events, task>>
    BY <1>4 DEF BrokerEnds, orderVars
  <2> QED BY <2>1, <2>2, <2>3, <2>4 DEF Sends
<1> QED BY <1>2, <1>3, <1>4 DEF BrokerStep

\* The gate's rejection and the committed answer are the first event.
LEMMA SubmissionRecordsFirst ==
  ASSUME IInv, NEW o \in Orders, Booked(o), SubmitRejects(o) \/ SubmitCommits(o)
  PROVE  \E e : RecordsFirst(o, e)
<1>0. task \in [Orders -> [pc : TaskPcs, tries : Nat]] /\ now \in Nat
  BY DEF IInv, Types
<1>1. events[o] = {}
  BY DEF SubmitRejects, SubmitCommits, RowLocked, Booked, Projection
<1>2. PICK type \in {"submitted", "rejected"}, t \in now .. now + 1 :
        Stamp(t) /\ ApplyNewEvent(o, Event(o, type, t, 0, 0))
  BY DEF SubmitRejects, SubmitCommits
<1>3. t \in Nat /\ now' = t /\ now <= t
  BY <1>0, <1>2, OrderAssumption DEF Stamp
<1>4. Event(o, type, t, 0, 0) \in AllEvents
  BY <1>3 DEF Event, AllEvents, EventTypes, TerminalNonFilled
<1>5. UNCHANGED <<book, broker, updates, rowVars>>
  BY DEF SubmitRejects, SubmitCommits, brokerVars
<1>6. ~RowLocked(o)' /\ \A p \in Orders : p # o => task'[p] = task[p]
  BY <1>0 DEF SubmitRejects, SubmitCommits, SetTask, RowLocked
<1> QED BY <1>1, <1>2, <1>3, <1>4, <1>5, <1>6 DEF RecordsFirst, Event

\* What such a step may do to the outbox rows.
Outcome ==
  \/ UNCHANGED rowVars
  \/ \E m \in updates : RefuseUpdate(m) \/ FailUpdate(m)

\* Every step is of one of five kinds.
LEMMA StepKinds ==
  ASSUME IInv, \A o \in Orders : Booked(o), [Next]_vars
  PROVE  \/ \E o \in Orders : (\E b \in BOOLEAN : CreateOrder(o, b)) \/ Approve(o)
         \/ \E o \in Orders : \E e : RecordsFirst(o, e)
         \/ \E o \in Orders : \E u : Sends(o, u)
         \/ \E m \in updates : ApplyUpdate(m)
         \/ Quiet /\ Outcome
<1>0. /\ task \in [Orders -> [pc : TaskPcs, tries : Nat]] /\ broker \in [Orders -> BrokerOrders]
      /\ wire \subseteq [order : Orders, client : Orders \X Nat, attempt : Nat]
  BY DEF IInv, Types
<1> DEFINE K == Quiet /\ Outcome
<1>1. ASSUME NEW o \in Orders, SubmitSkips(o) \/ SubmitCalls(o) \/ SubmitFails(o) \/ SubmitDies(o)
      PROVE  K
  <2>1. UNCHANGED <<status, filled, events, updates, now, broker, rowVars>>
    BY <1>1 DEF SubmitSkips, SubmitCalls, SubmitFails, SubmitDies, orderVars, brokerVars
  <2>2. \A p \in Orders : RowLocked(p)' => RowLocked(p) \/ status[p] = "approved"
    BY <1>0, <1>1 DEF SubmitSkips, SubmitCalls, SubmitFails, SubmitDies, SetTask, RowLocked
  <2> QED BY <2>1, <2>2 DEF Quiet, Outcome
<1>2. ASSUME NEW o \in Orders, RequestCancel(o) PROVE K
  <2>1. UNCHANGED <<status, filled, events, updates, now, task, rowVars>>
    BY <1>2 DEF RequestCancel, orderVars
  <2>2. \A p \in Orders :
          /\ broker'[p].filled = broker[p].filled /\ broker'[p].execs = broker[p].execs
          /\ broker'[p].state = broker[p].state
    BY <1>0, <1>2 DEF RequestCancel, BrokerOrders
  <2> QED BY <2>1, <2>2 DEF Quiet, Outcome, RowLocked
<1>3. ASSUME NEW r \in wire, BrokerReceives(r) PROVE K
  <2>1. UNCHANGED <<status, filled, events, updates, now, rowVars>> /\ r.order \in Orders
    BY <1>0, <1>3 DEF BrokerReceives, orderVars
  <2>2. broker' = broker \/ (broker[r.order].state = "none"
                             /\ broker' = [broker EXCEPT ![r.order].state = "received"])
    BY <1>3 DEF BrokerReceives
  <2>3. \A p \in Orders :
          /\ broker'[p].filled = broker[p].filled /\ broker'[p].execs = broker[p].execs
          /\ \/ broker'[p].state = broker[p].state
             \/ broker[p].state = "none" /\ broker'[p].state = "received"
    BY <1>0, <2>1, <2>2 DEF BrokerOrders
  <2>4. task' = task \/ (task[r.order].pc = "calling"
                         /\ \E pc : task' = [task EXCEPT ![r.order] = [pc |-> pc, tries |-> task[r.order].tries]])
    BY <1>3 DEF BrokerReceives, SetTask
  <2>5. \A p \in Orders : RowLocked(p)' => RowLocked(p)
    BY <1>0, <2>1, <2>4 DEF RowLocked
  <2> QED BY <2>1, <2>3, <2>5 DEF Quiet, Outcome
<1>4. ASSUME NEW m \in updates, RefuseUpdate(m) \/ FailUpdate(m) PROVE K
  <2>1. UNCHANGED <<status, filled, events, updates, now, task, broker>>
    BY <1>4 DEF RefuseUpdate, FailUpdate, orderVars, brokerVars
  <2>2. Outcome
    BY <1>4 DEF Outcome
  <2> QED BY <2>1, <2>2 DEF Quiet, RowLocked
<1>5. ASSUME EligibilityChanges \/ UNCHANGED vars PROVE K
  BY <1>5 DEF EligibilityChanges, vars, orderVars, brokerVars, rowVars, Quiet, Outcome, RowLocked
<1> HIDE DEF K
<1>6. ASSUME NEW o \in Orders, SubmitRejects(o) \/ SubmitCommits(o)
      PROVE  \E e : RecordsFirst(o, e)
  BY <1>6, SubmissionRecordsFirst
<1>7. ASSUME NEW o \in Orders, BrokerStep(o) PROVE \E u : Sends(o, u)
  BY <1>7, BrokerStepSends
<1>8. CASE Next
  <2>1. ASSUME NEW o \in Orders, OrderStep(o)
        PROVE  \/ (\E b \in BOOLEAN : CreateOrder(o, b)) \/ Approve(o)
               \/ \E e : RecordsFirst(o, e)
               \/ K
    BY <1>1, <1>2, <1>6, <2>1 DEF OrderStep
  <2> QED BY <1>3, <1>4, <1>5, <1>7, <1>8, <2>1 DEF Next, K
<1> QED BY <1>5, <1>8 DEF K

\* No order is there at the start.
LEMMA InitBooked == Init => filled \in [Orders -> Nat] /\ \A o \in Orders : Booked(o)
<1> SUFFICES ASSUME Init, NEW o \in Orders PROVE Booked(o)
  BY DEF Init
<1>1. /\ status[o] = "none" /\ filled[o] = 0 /\ events[o] = {} /\ task[o].pc = "none"
      /\ broker[o].state = "none" /\ broker[o].filled = 0 /\ UpdatesOf(o) = {}
  BY DEF Init, UpdatesOf
<1>2. Projection(o)
  BY <1>1, FilledNothing DEF Projection, RowLocked
<1>3. OnFile(o) /\ Executed(o) /\ Ended(o)
  BY <1>1, FilledNothing, FS_EmptySet, OrderAssumption DEF OnFile, Executed, Ended
<1> QED BY <1>2, <1>3 DEF Booked

\* An applied update keeps the books.
LEMMA ApplyUpdateBooked ==
  ASSUME IInv, filled \in [Orders -> Nat], \A p \in Orders : Booked(p),
         NEW m \in updates, ApplyUpdate(m)
  PROVE  filled' \in [Orders -> Nat] /\ \A p \in Orders : Booked(p)'
<1>1. m \in AllEvents /\ m.order \in Orders /\ now \in Nat
  BY DEF IInv, Types, AllEvents
<1>2. m \in UpdatesOf(m.order) /\ \A f \in events[m.order] : f.seq # m.seq
  BY DEF ApplyUpdate, UpdatesOf, Conflicts
<1>3. ApplyNewEvent(m.order, m) /\ UNCHANGED <<task, brokerVars, now>> /\ ~RowLocked(m.order)'
  BY DEF ApplyUpdate, RowLocked
<1> QED BY <1>1, <1>2, <1>3, BookedRecords

\* So does every other step.
LEMMA NextBooked ==
  ASSUME IInv, filled \in [Orders -> Nat], \A p \in Orders : Booked(p), [Next]_vars
  PROVE  filled' \in [Orders -> Nat] /\ \A p \in Orders : Booked(p)'
<1>0. now \in Nat
  BY DEF IInv, Types
<1>1. ASSUME NEW o \in Orders, (\E b \in BOOLEAN : CreateOrder(o, b)) \/ Approve(o)
      PROVE  filled' \in [Orders -> Nat] /\ \A p \in Orders : Booked(p)'
  <2>1. filled' = filled
    BY <1>1 DEF CreateOrder, Approve
  <2> QED BY <1>1, <2>1, BookedOpens
<1>2. ASSUME NEW o \in Orders, NEW e, RecordsFirst(o, e)
      PROVE  filled' \in [Orders -> Nat] /\ \A p \in Orders : Booked(p)'
  <2>1. now <= now' /\ UNCHANGED brokerVars
    BY <1>0, <1>2, OrderAssumption DEF RecordsFirst, brokerVars
  <2> QED BY <1>2, <2>1, BookedRecords DEF RecordsFirst
<1>3. ASSUME NEW o \in Orders, NEW u, Sends(o, u)
      PROVE  filled' \in [Orders -> Nat] /\ \A p \in Orders : Booked(p)'
  <2>1. filled' = filled
    BY <1>3 DEF Sends
  <2> QED BY <1>3, <2>1, BookedSends
<1>4. ASSUME Quiet PROVE filled' \in [Orders -> Nat] /\ \A p \in Orders : Booked(p)'
  <2> SUFFICES ASSUME NEW p \in Orders PROVE Booked(p)'
    BY <1>4 DEF Quiet
  <2>1. UpdatesOf(p)' = UpdatesOf(p)
    BY <1>4 DEF Quiet, UpdatesOf
  <2> QED BY <1>0, <1>4, <2>1, BookedFrame DEF Quiet
<1> QED BY <1>1, <1>2, <1>3, <1>4, StepKinds, ApplyUpdateBooked

\* The books of every order, throughout every execution.
THEOREM BooksInvariant ==
  Spec => [](IInv /\ filled \in [Orders -> Nat] /\ \A o \in Orders : Booked(o))
<1> DEFINE B == IInv /\ filled \in [Orders -> Nat] /\ \A o \in Orders : Booked(o)
<1>1. Init => B
  BY InitEstablishes, InitBooked
<1>2. B /\ [Next]_vars => B'
  BY NextPreserves, NextBooked
<1> QED BY <1>1, <1>2, PTL DEF Spec

-----------------------------------------------------------------------------
\* What closed an order is the latest event it will ever have

\* An update applied to a closed order leaves it as it is.
LEMMA ClosedUpdate ==
  ASSUME IInv, filled \in [Orders -> Nat], NEW o \in Orders, Booked(o),
         status[o] \in {"filled", "canceled", "expired"},
         NEW m \in UpdatesOf(o), \A f \in events[o] : f.seq # m.seq
  PROVE  LET E == events[o] \cup {m}
         IN  StatusAfter(LastEvent(E).type, FilledBy(E)) = status[o]
<1> DEFINE E == events[o]
           F == E \cup {m}
           U == UpdatesOf(o)
           l == LastEvent(E)
<1>0. E \subseteq AllEvents /\ U \subseteq AllEvents /\ m \in AllEvents /\ IsFiniteSet(E) /\ IsFiniteSet(U)
  BY DEF IInv, Types, UpdatesOf, Booked, OnFile, Executed
<1>1. E # {} /\ status[o] = StatusAfter(l.type, filled[o]) /\ filled[o] = FilledBy(E)
  BY DEF Booked, Projection
<1>2. l \in E /\ \A e \in E : e.seq <= l.seq
  BY <1>1 DEF IInv, HasLatest, LastEvent
<1>3. \A e, f \in E : e.seq = f.seq => e = f
  BY DEF Booked, OnFile
<1>4. \A e \in E : e \in U \/ (e.type \in {"submitted", "rejected"} /\ e.qty = 0)
  BY DEF Booked, OnFile
<1>5. l.type \in {"fill", "canceled", "expired"} /\ l \in U
  <2>1. l.type \notin {"submitted", "rejected"} /\ l.type \in {"fill", "canceled", "expired"}
    <3>1. l.type \in EventTypes
      BY <1>0, <1>2 DEF AllEvents
    <3> QED BY <1>1, <3>1 DEF StatusAfter, EventTypes, TerminalNonFilled
  <2> QED BY <1>2, <1>4, <2>1
<1>6. ASSUME \A u \in U : u.seq <= l.seq PROVE LastEvent(F) = l
  <2>1. m.seq <= l.seq
    BY <1>6
  <2> HIDE DEF E, l, F
  <2>2. LastEvent(E) = l /\ LastEvent(E \cup {m}) = l
    BY <1>0, <1>2, <1>3, <2>1, LatestStays DEF E
  <2> QED BY <2>2 DEF F
<1>7. CASE l.type \in {"canceled", "expired"}
  <2>1. LastEvent(F) = l
    BY <1>5, <1>6, <1>7 DEF Booked, Ended
  <2> QED BY <1>1, <1>7, <2>1 DEF StatusAfter
<1>8. CASE l.type = "fill"
  <2>1. filled[o] >= Quantity /\ status[o] = "filled"
    BY <1>1, <1>8 DEF StatusAfter
  <2>2. \A e \in E \ U : e.qty = 0
    BY <1>4
  <2>3. FilledBy(E) <= FilledBy(U) /\ \A u \in U \ E : FilledBy(E) + u.qty <= FilledBy(U)
    <3> HIDE DEF E, U
    <3> QED BY <1>0, <2>2, FilledWithin
  <2>4. FilledBy(E) \in Nat /\ FilledBy(U) \in Nat /\ \A u \in U : u.qty \in Nat
    <3>1. \A u \in U : u.qty \in Nat
      BY <1>0 DEF AllEvents
    <3> HIDE DEF E, U
    <3> QED BY <1>0, <3>1, FilledNat
  <2>5. /\ broker[o].filled = FilledBy(U) /\ broker[o].filled <= Quantity
        /\ broker[o].filled = Quantity => broker[o].state = "filled"
        /\ \A u \in U : u.type = "fill" <=> u.qty > 0
    BY DEF Booked, Executed
  <2>6. broker[o].state = "filled" /\ FilledBy(E) = Quantity /\ FilledBy(U) = Quantity
    BY <1>1, <2>1, <2>3, <2>4, <2>5, OrderAssumption
  <2>7. PICK u \in U : u.type = "fill" /\ \A v \in U : v.seq <= u.seq
    BY <2>6 DEF Booked, Ended
  <2>8. u \in E
    BY <2>3, <2>4, <2>5, <2>6, <2>7, OrderAssumption
  <2>9. u = l
    <3>1. u.seq <= l.seq /\ l.seq <= u.seq /\ u.seq \in Nat /\ l.seq \in Nat
      BY <1>0, <1>2, <1>5, <2>7, <2>8 DEF AllEvents
    <3> QED BY <1>2, <1>3, <2>8, <3>1
  <2>10. LastEvent(F) = l
    BY <1>6, <2>7, <2>9
  <2>11. FilledBy(F) = m.qty + FilledBy(E) /\ m.qty \in Nat
    <3>1. m \notin E
      OBVIOUS
    <3>2. m.qty \in Nat
      BY <2>4
    <3> HIDE DEF E
    <3> QED BY <1>0, <3>1, <3>2, FilledInsert
  <2>12. FilledBy(F) >= Quantity
    BY <2>6, <2>11, <2>4, OrderAssumption
  <2> HIDE DEF F
  <2> QED BY <1>8, <2>1, <2>10, <2>12 DEF StatusAfter, F, E
<1> QED BY <1>5, <1>7, <1>8

\* A filled, canceled or expired order keeps that status, whatever is processed
\* after the event that closed it: at most the broker's earlier events are.
THEOREM ClosedForGood == Spec => ClosedStaysClosed
<1> DEFINE B == IInv /\ filled \in [Orders -> Nat] /\ \A o \in Orders : Booked(o)
           A == \A o \in Orders :
                  status[o] \in {"filled", "canceled", "expired"} => status'[o] = status[o]
<1>1. ASSUME B, [Next]_vars PROVE A
  <2> SUFFICES ASSUME NEW o \in Orders, status[o] \in {"filled", "canceled", "expired"}
               PROVE  status'[o] = status[o]
    OBVIOUS
  <2>0. status \in [Orders -> Statuses]
    BY <1>1 DEF IInv, Types
  <2>1. ASSUME NEW p \in Orders, (\E b \in BOOLEAN : CreateOrder(p, b)) \/ Approve(p)
        PROVE  status'[o] = status[o]
    BY <2>0, <2>1 DEF CreateOrder, Approve
  <2>2. ASSUME NEW p \in Orders, NEW e, RecordsFirst(p, e)
        PROVE  status'[o] = status[o]
    <3>1. events[p] = {} /\ Booked(p)
      BY <1>1, <2>2 DEF RecordsFirst
    <3>2. p # o
      BY <3>1 DEF Booked, Projection
    <3> QED BY <2>0, <2>2, <3>2 DEF RecordsFirst, ApplyNewEvent
  <2>3. ASSUME NEW m \in updates, ApplyUpdate(m) PROVE status'[o] = status[o]
    <3>1. CASE m.order # o
      BY <2>0, <2>3, <3>1 DEF ApplyUpdate, ApplyNewEvent
    <3>2. CASE m.order = o
      <4>1. m \in UpdatesOf(o) /\ \A f \in events[o] : f.seq # m.seq
        BY <2>3, <3>2 DEF ApplyUpdate, UpdatesOf, Conflicts
      <4>2. StatusAfter(LastEvent(events[o] \cup {m}).type, FilledBy(events[o] \cup {m})) = status[o]
        BY <1>1, <4>1, ClosedUpdate
      <4>3. status'[o] = StatusAfter(LastEvent(events[o] \cup {m}).type, FilledBy(events[o] \cup {m}))
        BY <2>0, <2>3, <3>2 DEF ApplyUpdate, ApplyNewEvent
      <4> QED BY <4>2, <4>3
    <3> QED BY <3>1, <3>2
  <2>4. ASSUME Quiet \/ \E p \in Orders : \E u : Sends(p, u) PROVE status'[o] = status[o]
    BY <2>4 DEF Quiet, Sends
  <2> QED BY <1>1, <2>1, <2>2, <2>3, <2>4, StepKinds
<1>2. B /\ [Next]_vars => [A]_vars
  BY <1>1
<1> HIDE DEF A
<1>3. Spec => []B
  BY BooksInvariant
<1>4. [][Next]_vars /\ []B => [][A]_vars
  <2> HIDE DEF B
  <2> QED BY <1>2, PTL
<1>5. ClosedStaysClosed <=> [][A]_vars
  BY DEF ClosedStaysClosed, A
<1> QED BY <1>3, <1>4, <1>5, PTL DEF Spec

-----------------------------------------------------------------------------
\* The loop of fold

\* Events by the instant they happened.
BySeq == {p \in AllEvents \X AllEvents : p[1].seq < p[2].seq}

\* The fold's sorted list of events, no two of which share an instant.
LEMMA SortedInOrder ==
  ASSUME NEW E, E \subseteq AllEvents, IsFiniteSet(E), \A e, f \in E : e.seq = f.seq => e = f,
         NEW i \in 1 .. Cardinality(E)
  PROVE  InLine(BySeq, E) /\ Sorted(E)[i] = Listing(BySeq, E)[i]
<1>0. \A e \in E : e.seq \in Nat
  BY DEF AllEvents
<1>1. \A e, f \in E : <<e, f>> \in BySeq <=> e.seq < f.seq
  BY DEF BySeq
<1>2. InLine(BySeq, E)
  BY <1>0, <1>1 DEF InLine
<1>3. \A e \in E : {f \in E : f.seq < e.seq} = LeftOf(BySeq, E, e)
  BY <1>1 DEF LeftOf
<1>4. \E e \in E : Cardinality({f \in E : f.seq < e.seq}) = i - 1
  <2>1. PICK e \in E : Cardinality(LeftOf(BySeq, E, e)) = i - 1
    BY <1>2, PlaceTaken DEF Place
  <2> QED BY <1>3, <2>1
<1>5. Sorted(E)[i] \in E /\ Cardinality({f \in E : f.seq < Sorted(E)[i].seq}) = i - 1
  BY <1>4 DEF Sorted
<1>6. Sorted(E)[i] \in E /\ Place(BySeq, E, Sorted(E)[i]) = i - 1
  BY <1>3, <1>5 DEF Place
<1>7. Listing(BySeq, E)[i] \in E /\ Place(BySeq, E, Listing(BySeq, E)[i]) = i - 1
  BY <1>2, ListingInOrder
<1> QED BY <1>2, <1>6, <1>7, PlaceOfOne

\* The loop of fold computes the cached columns: the last event in time decides
\* the status, the sum of the fills the quantity.
LEMMA FoldIsProjection ==
  ASSUME NEW E, E \subseteq AllEvents, IsFiniteSet(E), \A e, f \in E : e.seq = f.seq => e = f,
         \A e \in E : e.type # "fill" => e.qty = 0,
         E # {}
  PROVE  Fold(E) = [status |-> StatusAfter(LastEvent(E).type, FilledBy(E)), filled |-> FilledBy(E)]
<1> DEFINE N == Cardinality(E)
           q == Sorted(E)
           D(n) == {q[i] : i \in 1 .. n}
           C == [n \in 0 .. N |->
                   IF n = 0 THEN [status |-> "approved", filled |-> 0]
                   ELSE [status |-> StatusAfter(q[n].type, FilledBy(D(n))), filled |-> FilledBy(D(n))]]
           R(a) == a = [n \in 0 .. N |-> IF n = 0 THEN [status |-> "approved", filled |-> 0]
                                         ELSE FoldEvent(a[n - 1], q[n])]
           A == CHOOSE a : R(a)
<1>0. N \in Nat /\ N # 0
  BY FS_CardinalityType, FS_EmptySet
<1>1. InLine(BySeq, E)
  <2>1. 1 \in 1 .. N
    BY <1>0
  <2> QED BY <2>1, SortedInOrder
<1>2. ASSUME NEW i \in 1 .. N
      PROVE  /\ q[i] \in E
             /\ \A j \in 1 .. N : (q[j] = q[i] <=> j = i) /\ (q[j].seq < q[i].seq <=> j < i)
  <2>1. \A j \in 1 .. N : q[j] = Listing(BySeq, E)[j]
    BY SortedInOrder
  <2>2. \A j \in 1 .. N :
          /\ Listing(BySeq, E)[j] \in E
          /\ Listing(BySeq, E)[j] = Listing(BySeq, E)[i] <=> j = i
          /\ <<Listing(BySeq, E)[j], Listing(BySeq, E)[i]>> \in BySeq <=> j < i
    BY <1>1, ListingInOrder
  <2>3. \A e, f \in E : <<e, f>> \in BySeq <=> e.seq < f.seq
    BY DEF BySeq
  <2> HIDE DEF q, N
  <2> QED BY <2>1, <2>2, <2>3
<1>3. \A e \in E : \E i \in 1 .. N : q[i] = e
  <2>1. \A e \in E : \E i \in 1 .. N : Listing(BySeq, E)[i] = e
    BY <1>1, ListingHasAll
  <2> QED BY <2>1, SortedInOrder
<1>4. D(N) = E
  BY <1>2, <1>3
<1>5. q[N] = LastEvent(E)
  <2>1. N \in 1 .. N /\ \A j \in 1 .. N : j = N \/ j < N
    BY <1>0
  <2> HIDE DEF q, N
  <2>2. q[N] \in E /\ \A e \in E : e = q[N] \/ e.seq < q[N].seq
    BY <1>2, <1>3, <2>1
  <2>3. \A e \in E : e.seq \in Nat
    BY DEF AllEvents
  <2>4. q[N] \in E /\ \A e \in E : e.seq <= q[N].seq
    BY <2>2, <2>3
  <2>5. LastEvent(E) \in E /\ \A e \in E : e.seq <= LastEvent(E).seq
    BY <2>4 DEF LastEvent
  <2>6. LastEvent(E).seq = q[N].seq
    BY <2>3, <2>4, <2>5
  <2> QED BY <2>4, <2>5, <2>6
<1>6. ASSUME NEW n \in 0 .. N PROVE D(n) \subseteq E /\ IsFiniteSet(D(n)) /\ FilledBy(D(n)) \in Nat
  <2>1. D(n) \subseteq E
    <3> HIDE DEF q, N
    <3>1. \A i \in 1 .. n : i \in 1 .. N
      BY <1>0
    <3> QED BY <1>2, <3>1
  <2>2. IsFiniteSet(D(n))
    BY <2>1, FS_Subset
  <2> HIDE DEF D
  <2> QED BY <2>1, <2>2, FilledNat
<1>7. ASSUME NEW n \in 1 .. N
      PROVE  /\ n - 1 \in 0 .. N
             /\ q[n] \in E
             /\ FilledBy(D(n)) = q[n].qty + FilledBy(D(n - 1))
  <2>1. n - 1 \in 0 .. N /\ n \in Nat
    BY <1>0
  <2>2. D(n) = D(n - 1) \cup {q[n]}
    <3>1. 1 .. n = (1 .. (n - 1)) \cup {n}
      BY <2>1
    <3> HIDE DEF q
    <3> QED BY <3>1
  <2>3. q[n] \notin D(n - 1) /\ q[n] \in E
    <3> HIDE DEF q, N
    <3>1. \A i \in 1 .. (n - 1) : i \in 1 .. N /\ i # n
      BY <1>0
    <3> QED BY <1>2, <3>1
  <2>4. D(n - 1) \subseteq AllEvents /\ IsFiniteSet(D(n - 1)) /\ q[n] \in AllEvents
    BY <1>6, <2>1, <2>3
  <2> HIDE DEF D, q
  <2>5. FilledBy(D(n - 1) \cup {q[n]}) = q[n].qty + FilledBy(D(n - 1))
    BY <2>3, <2>4, FilledInsert
  <2> QED BY <2>1, <2>2, <2>3, <2>5
<1>8. FilledBy(D(0)) = 0
  <2>1. D(0) = {}
    OBVIOUS
  <2> HIDE DEF D
  <2> QED BY <2>1, FilledNothing
<1>9. R(C)
  <2>1. ASSUME NEW n \in 1 .. N PROVE C[n] = FoldEvent(C[n - 1], q[n])
    <3>0. n \in 0 .. N /\ n # 0 /\ n - 1 \in 0 .. N
      BY <1>0
    <3>1. C[n - 1].filled = FilledBy(D(n - 1))
      <4> HIDE DEF D, q, N
      <4> QED BY <1>8, <3>0
    <3>2. C[n] = [status |-> StatusAfter(q[n].type, FilledBy(D(n))), filled |-> FilledBy(D(n))]
      <4> HIDE DEF D, q, N
      <4> QED BY <3>0
    <3>3. FilledBy(D(n - 1)) \in Nat /\ q[n].qty \in Nat /\ (q[n].type # "fill" => q[n].qty = 0)
      <4>1. q[n] \in E
        BY <1>7
      <4>2. FilledBy(D(n - 1)) \in Nat
        BY <1>6, <3>0
      <4> HIDE DEF D, q, N
      <4> QED BY <4>1, <4>2 DEF AllEvents
    <3>4. FilledBy(D(n)) = FilledBy(D(n - 1)) + q[n].qty
      <4>1. FilledBy(D(n)) = q[n].qty + FilledBy(D(n - 1))
        BY <1>7
      <4> HIDE DEF D, q
      <4> QED BY <3>3, <4>1
    <3> HIDE DEF C, D, q, N
    <3> QED BY <3>1, <3>2, <3>3, <3>4 DEF FoldEvent, StatusAfter
  <2>2. C[0] = [status |-> "approved", filled |-> 0] /\ C = [n \in 0 .. N |-> C[n]]
    BY <1>0
  <2>3. \A n \in 0 .. N : n = 0 \/ n \in 1 .. N
    BY <1>0
  <2>4. \A n \in 0 .. N : C[n] = IF n = 0 THEN [status |-> "approved", filled |-> 0]
                                 ELSE FoldEvent(C[n - 1], q[n])
    <3> HIDE DEF C, q, N
    <3> QED BY <2>1, <2>2, <2>3
  <2> HIDE DEF C, q, N
  <2> QED BY <2>2, <2>4
<1> HIDE DEF C
<1>10. R(A)
  BY <1>9
<1>11. A[N] = C[N]
  <2> HIDE DEF A
  <2> DEFINE T == {n \in Nat : n <= N => A[n] = C[n]}
  <2>1. \A n \in 0 .. N : A[n] = IF n = 0 THEN [status |-> "approved", filled |-> 0]
                                 ELSE FoldEvent(A[n - 1], q[n])
    <3> HIDE DEF q, N
    <3> QED BY <1>10
  <2>2. \A n \in 0 .. N : C[n] = IF n = 0 THEN [status |-> "approved", filled |-> 0]
                                 ELSE FoldEvent(C[n - 1], q[n])
    <3> HIDE DEF q, N
    <3> QED BY <1>9
  <2> HIDE DEF q, N
  <2>3. 0 \in T
    BY <1>0, <2>1, <2>2
  <2>4. ASSUME NEW n \in T PROVE n + 1 \in T
    <3>1. CASE ~(n + 1 <= N)
      BY <3>1
    <3>2. CASE n + 1 <= N
      <4>1. n + 1 \in 0 .. N /\ n + 1 # 0 /\ (n + 1) - 1 = n /\ A[n] = C[n]
        BY <1>0, <3>2
      <4> QED BY <2>1, <2>2, <4>1
    <3> QED BY <3>1, <3>2
  <2>5. T = Nat
    <3>1. T \subseteq Nat
      OBVIOUS
    <3> HIDE DEF T
    <3> QED BY <2>3, <2>4, <3>1, Induction
  <2>6. N \in T
    BY <1>0, <2>5
  <2> QED BY <1>0, <2>6
<1>12. Fold(E) = A[N]
  BY DEF Fold
<1>13. C[N] = [status |-> StatusAfter(q[N].type, FilledBy(D(N))), filled |-> FilledBy(D(N))]
  <2> HIDE DEF D, q, N
  <2> QED BY <1>0 DEF C
<1> QED BY <1>4, <1>5, <1>11, <1>12, <1>13

\* The cached columns are the fold of the events on file, equal timestamps or not.
THEOREM ColumnsAreFold ==
  Spec => [](\A o \in Orders :
               events[o] # {} => [status |-> status[o], filled |-> filled[o]] = Fold(events[o]))
<1> DEFINE B == IInv /\ filled \in [Orders -> Nat] /\ \A o \in Orders : Booked(o)
           C == \A o \in Orders :
                  events[o] # {} => [status |-> status[o], filled |-> filled[o]] = Fold(events[o])
<1>1. ASSUME IInv, NEW o \in Orders, Booked(o), events[o] # {}
      PROVE  [status |-> status[o], filled |-> filled[o]] = Fold(events[o])
  <2>1. /\ events[o] \subseteq AllEvents /\ IsFiniteSet(events[o])
        /\ \A e, f \in events[o] : e.seq = f.seq => e = f
    BY <1>1 DEF IInv, Types, Booked, OnFile
  <2>2. \A e \in events[o] : e.type # "fill" => e.qty = 0
    <3>1. \A e \in events[o] : e.qty \in Nat
      BY <2>1 DEF AllEvents
    <3> QED BY <1>1, <3>1 DEF Booked, OnFile, Executed
  <2>3. Fold(events[o]) = [status |-> StatusAfter(LastEvent(events[o]).type, FilledBy(events[o])),
                           filled |-> FilledBy(events[o])]
    BY <1>1, <2>1, <2>2, FoldIsProjection
  <2> QED BY <1>1, <2>3 DEF Booked, Projection
<1>2. B => C
  BY <1>1
<1>3. Spec => []B
  BY BooksInvariant
<1> HIDE DEF B
<1> QED BY <1>2, <1>3, PTL

-----------------------------------------------------------------------------
\* Every fill is counted, once, or it is known why it is not

\* A completed row is on file, a refused one is or has its microsecond taken, and
\* every outcome is that of an update.
Accounted ==
  /\ settled \subseteq updates /\ refused \subseteq updates /\ gone \subseteq updates
  /\ \A m \in settled : m \in events[m.order]
  /\ \A m \in refused : m.type = "fill" => m \in events[m.order] \/ Collides(m)

\* Events are never taken from the file.
LEMMA AccountedGrows ==
  ASSUME Accounted, updates \subseteq AllEvents, \A o \in Orders : events[o] \subseteq events'[o],
         updates \subseteq updates', gone' \subseteq updates',
         UNCHANGED <<settled, refused>>
  PROVE  Accounted'
<1>1. \A m \in updates : m.order \in Orders
  BY DEF AllEvents
<1>2. \A m \in updates : m \in events[m.order] => m \in events'[m.order]
  BY <1>1
<1>3. \A m \in updates : Collides(m) => Collides(m)'
  BY <1>1 DEF Collides
<1> QED BY <1>2, <1>3 DEF Accounted

\* Every step keeps the account of the updates.
LEMMA NextAccounted ==
  ASSUME IInv, \A o \in Orders : Booked(o), Accounted, [Next]_vars
  PROVE  Accounted'
<1>0. /\ events \in [Orders -> SUBSET AllEvents] /\ updates \subseteq AllEvents
  BY DEF IInv, Types
<1>1. ASSUME NEW o \in Orders, (\E b \in BOOLEAN : CreateOrder(o, b)) \/ Approve(o)
      PROVE  Accounted'
  <2>1. UNCHANGED <<events, updates, settled, refused, gone>>
    BY <1>1 DEF CreateOrder, Approve, brokerVars, rowVars
  <2> QED BY <1>0, <2>1, AccountedGrows DEF Accounted
<1>2. ASSUME NEW o \in Orders, NEW e, RecordsFirst(o, e) PROVE Accounted'
  <2>1. /\ UNCHANGED <<updates, settled, refused, gone>>
        /\ events' = [events EXCEPT ![o] = events[o] \cup {e}]
    BY <1>2 DEF RecordsFirst, ApplyNewEvent, rowVars
  <2>2. \A p \in Orders : events[p] \subseteq events'[p]
    BY <1>0, <2>1
  <2> QED BY <1>0, <2>1, <2>2, AccountedGrows DEF Accounted
<1>3. ASSUME NEW o \in Orders, NEW u, Sends(o, u) PROVE Accounted'
  <2>1. /\ UNCHANGED <<events, settled, refused>> /\ updates' = updates \cup {u}
        /\ gone' \in {gone, gone \cup {u}}
    BY <1>3 DEF Sends
  <2> QED BY <1>0, <2>1, AccountedGrows DEF Accounted
<1>4. ASSUME NEW m \in updates, ApplyUpdate(m) PROVE Accounted'
  <2>1. /\ UNCHANGED <<updates, refused, gone>> /\ settled' \subseteq settled \cup {m}
        /\ events' = [events EXCEPT ![m.order] = events[m.order] \cup {m}]
    BY <1>4 DEF ApplyUpdate, ApplyNewEvent, brokerVars
  <2>2. \A n \in updates : n.order \in Orders
    BY <1>0 DEF AllEvents
  <2>3. (\A p \in Orders : events[p] \subseteq events'[p]) /\ m \in events'[m.order]
    BY <1>0, <2>1, <2>2
  <2>4. \A n \in settled' : n \in events'[n.order]
    BY <2>1, <2>2, <2>3 DEF Accounted
  <2>5. \A n \in refused' : n.type = "fill" => n \in events'[n.order] \/ Collides(n)'
    BY <2>1, <2>2, <2>3 DEF Accounted, Collides
  <2> QED BY <2>1, <2>4, <2>5 DEF Accounted
<1>5. ASSUME Quiet, UNCHANGED rowVars PROVE Accounted'
  <2>1. UNCHANGED <<events, updates, settled, refused, gone>>
    BY <1>5 DEF Quiet, rowVars
  <2> QED BY <1>0, <2>1, AccountedGrows DEF Accounted
<1>6. ASSUME Quiet, NEW m \in updates, FailUpdate(m) PROVE Accounted'
  <2>1. UNCHANGED <<events, updates, settled, refused>> /\ gone' = gone \cup {m}
    BY <1>6 DEF Quiet, FailUpdate
  <2> QED BY <1>0, <2>1, AccountedGrows DEF Accounted
<1>7. ASSUME Quiet, NEW m \in updates, RefuseUpdate(m) PROVE Accounted'
  <2>1. m.order \in Orders /\ m \in UpdatesOf(m.order)
    BY <1>0 DEF AllEvents, UpdatesOf
  <2>2. PICK e \in events[m.order] :
          e.seq = m.seq \/ (e.type = "fill" /\ m.type = "fill" /\ e.exec = m.exec)
    BY <1>7 DEF RefuseUpdate, Conflicts
  <2>3. m \in events[m.order] \/ Collides(m)
    <3>1. CASE e.seq = m.seq
      BY <2>2, <3>1 DEF Collides
    <3>2. CASE e.type = "fill" /\ m.type = "fill" /\ e.exec = m.exec
      <4>1. e \in UpdatesOf(m.order)
        BY <2>1, <2>2, <3>2 DEF Booked, OnFile
      <4>2. e = m
        BY <2>1, <3>2, <4>1 DEF Booked, Executed
      <4> QED BY <2>2, <4>2
    <3> QED BY <2>2, <3>1, <3>2
  <2>4. refused' = refused \cup {m} /\ UNCHANGED <<events, updates, settled, gone>>
    BY <1>7 DEF RefuseUpdate, Quiet
  <2>5. \A n : Collides(n)' <=> Collides(n)
    BY <2>4 DEF Collides
  <2> QED BY <2>3, <2>4, <2>5 DEF Accounted
<1> QED BY <1>1, <1>2, <1>3, <1>4, <1>5, <1>6, <1>7, StepKinds DEF Outcome

\* Two sets of events, one of which fills nothing outside the other: what is only
\* in the other is the difference.
LEMMA FilledRest ==
  ASSUME NEW E, E \subseteq AllEvents, IsFiniteSet(E), NEW U, U \subseteq AllEvents, IsFiniteSet(U),
         NEW R, R \subseteq U \ E, \A e \in E \ U : e.qty = 0, \A e \in (U \ E) \ R : e.qty = 0
  PROVE  FilledBy(E) + FilledBy(R) = FilledBy(U)
<1> DEFINE V == E \cup R
<1>1. IsFiniteSet(R) /\ IsFiniteSet(V) /\ V \subseteq AllEvents /\ R \subseteq AllEvents
  <2>1. IsFiniteSet(R)
    BY FS_Subset
  <2> QED BY <2>1, FS_Union
<1>2. \A x \in V : Qty[x] \in Int
  <2>1. \A x \in V : Qty[x] \in Nat
    <3> HIDE DEF V
    <3> QED BY <1>1, FilledNat
  <2> QED BY <2>1
<1>3. Total(Qty, V) = Total(Qty, E) + Total(Qty, R)
  BY <1>1, <1>2, TotalUnion
<1>4. (\A e \in V \ U : e.qty = 0) /\ (\A e \in U \ V : e.qty = 0)
  OBVIOUS
<1> HIDE DEF V
<1>5. FilledBy(V) <= FilledBy(U) /\ FilledBy(U) <= FilledBy(V)
  BY <1>1, <1>4, FilledWithin
<1>6. FilledBy(V) \in Nat /\ FilledBy(U) \in Nat
  BY <1>1, FilledNat
<1>7. FilledBy(V) = FilledBy(U)
  BY <1>5, <1>6
<1>8. FilledBy(V) = Total(Qty, V) /\ FilledBy(E) = Total(Qty, E) /\ FilledBy(R) = Total(Qty, R)
  BY <1>1, FilledIsTotal
<1> QED BY <1>3, <1>7, <1>8

\* The cached columns are the fold of the events; what the broker executed and is
\* not in them is the fills still waiting, lost, failed, or refused for a
\* microsecond that another event has.  With or without equal timestamps.
THEOREM ProjectionCorrect == Spec => []ProjectionIsFold
<1> DEFINE B == IInv /\ filled \in [Orders -> Nat] /\ \A o \in Orders : Booked(o)
           C == \A o \in Orders :
                  events[o] # {} => [status |-> status[o], filled |-> filled[o]] = Fold(events[o])
<1>1. Init => Accounted
  BY DEF Init, Accounted
<1>2. B /\ Accounted /\ [Next]_vars => Accounted'
  BY NextAccounted
<1>3. B /\ Accounted /\ C => ProjectionIsFold
  <2> SUFFICES ASSUME B, Accounted, NEW o \in Orders
               PROVE  /\ filled[o] + FilledBy(FillsOf(o) \ events[o]) = broker[o].filled
                      /\ \A m \in FillsOf(o) \ events[o] :
                           m \in Waiting \cup gone \/ (m \in refused /\ Collides(m))
    BY DEF ProjectionIsFold
  <2> DEFINE E == events[o]
             U == UpdatesOf(o)
             R == FillsOf(o) \ E
  <2>1. /\ E \subseteq AllEvents /\ U \subseteq AllEvents /\ IsFiniteSet(E) /\ IsFiniteSet(U)
        /\ \A e \in E \ U : e.qty = 0
    BY DEF IInv, Types, UpdatesOf, Booked, OnFile, Executed
  <2>2. filled[o] = FilledBy(E) /\ broker[o].filled = FilledBy(U)
    BY DEF Booked, Projection, Executed
  <2>3. R \subseteq U \ E
    BY DEF FillsOf, UpdatesOf
  <2>4. \A e \in (U \ E) \ R : e.qty = 0
    <3>1. \A e \in U : e.qty \in Nat
      BY <2>1 DEF AllEvents
    <3>2. \A e \in (U \ E) \ R : e.type # "fill"
      BY DEF FillsOf, UpdatesOf
    <3> QED BY <3>1, <3>2 DEF Booked, Executed
  <2>5. \A m \in R : m \in Waiting \cup gone \/ (m \in refused /\ Collides(m))
    <3> SUFFICES ASSUME NEW m \in R, m \notin Waiting, m \notin gone
                 PROVE  m \in refused /\ Collides(m)
      OBVIOUS
    <3>1. m \in updates /\ m.order = o /\ m.type = "fill" /\ m \notin events[m.order]
      BY DEF FillsOf
    <3>2. m \notin settled
      BY <3>1 DEF Accounted
    <3>3. m \in refused
      BY <3>1, <3>2 DEF Waiting
    <3> QED BY <3>1, <3>3 DEF Accounted
  <2> HIDE DEF E, U, R
  <2>6. FilledBy(E) + FilledBy(R) = FilledBy(U)
    BY <2>1, <2>3, <2>4, FilledRest
  <2> QED BY <2>2, <2>5, <2>6 DEF E, R
<1>4. Spec => []B
  BY BooksInvariant
<1>5. Spec => []C
  BY ColumnsAreFold
<1> HIDE DEF B, C
<1> QED BY <1>1, <1>2, <1>3, <1>4, <1>5, PTL DEF Spec
=============================================================================
