------------------------------- MODULE Outbox -------------------------------
(* The durable hand-off of asynchronous work: EventIntakeService records a
   provider event and its job_outbox row in one transaction, business
   transactions enqueue rows of their own, and OutboxWorker processes claim
   rows, run the handler outside any transaction and record the outcome.

   A row is identified with the work it carries.  The claim is two steps, the
   row-locking SELECT and the commit, because two workers may be between them
   at once.  The backoff deadline next_attempt_at is the flag `due`: a retry
   clears it and time sets it again, in any order between rows.
   A handler is its own transaction: it may raise before that transaction
   commits, commit and return, or commit and then raise.                    *)
EXTENDS Naturals, FiniteSets

CONSTANTS
  TradeEvents,   \* inbound events of the broker: their handler has an effect
  NoopEvents,    \* inbound events of sources whose worker handler does nothing
  Tasks,         \* submit_order_to_broker and charge_fee rows
  Workers,       \* worker processes (a new deployment overlaps the old one)
  WorkerIds,     \* possible values of locked_by
  WorkerId,      \* process -> its "outbox-worker-<pid>" (not unique per host)
  NoId,          \* locked_by = NULL
  NoJob,         \* what a worker between two rows is handling
  MaxAttempts,   \* settings.outbox_max_attempts
  MaxCrashes     \* bound: how often a worker process dies

Events == TradeEvents \cup NoopEvents
Jobs == Events \cup Tasks

ASSUME OutboxAssumption ==
  /\ MaxAttempts \in Nat \ {0}          \* OutboxWorker.__init__ refuses 0
  /\ MaxCrashes \in Nat
  /\ WorkerId \in [Workers -> WorkerIds]
  /\ NoId \notin WorkerIds
  /\ NoJob \notin Jobs
  /\ Events \cap Tasks = {} /\ TradeEvents \cap NoopEvents = {}

VARIABLES
  inbound,    \* inbound_event rows: the provider events already accepted
  row,        \* job_outbox, one record per job ("none": no such row)
  clock,      \* the next created_at
  worker,     \* process -> control state, the claimed job, wake-up pending
  applied,    \* job -> how often a handler transaction committed its effect
  crashes     \* how many worker processes have died

vars == <<inbound, row, clock, worker, applied, crashes>>

Statuses == {"none", "pending", "processing", "completed", "dead_letter"}

\* "listening" blocks in notifies(); "draining" is at the top of drain_once;
\* "claiming" has the row lock of an uncommitted claim; "running" is inside the
\* handler; "applied" has committed the handler's effect but not returned.
Pcs == {"listening", "draining", "claiming", "running", "applied",
        "returned", "raised"}

Handling == {"running", "applied", "returned", "raised"}

NoRow == [status |-> "none", attempts |-> 0, lockedBy |-> NoId,
          due |-> FALSE, created |-> 0]

Init ==
  /\ inbound = {}
  /\ row = [j \in Jobs |-> NoRow]
  /\ clock = 0
  /\ worker = [w \in Workers |-> [pc |-> "listening", job |-> NoJob, woken |-> FALSE]]
  /\ applied = [j \in Jobs |-> 0]
  /\ crashes = 0

-----------------------------------------------------------------------------
\* JobOutboxRepository

\* Row j as a transition leaves it: created_at never changes.
SetRow(j, status, lockedBy, attempts, due) ==
  row' = [row EXCEPT ![j] = [status |-> status, attempts |-> attempts,
                             lockedBy |-> lockedBy, due |-> due,
                             created |-> row[j].created]]

\* enqueue and NOTIFY job_outbox_ready, in the caller's transaction: every
\* listening connection is woken when it commits.
Enqueue(j) ==
  /\ row' = [row EXCEPT ![j] = [status |-> "pending", attempts |-> 0,
                                lockedBy |-> NoId, due |-> TRUE, created |-> clock]]
  /\ clock' = clock + 1
  /\ worker' = [w \in Workers |-> [worker[w] EXCEPT !.woken = TRUE]]

RowLocked(j) == \E w \in Workers : worker[w].pc = "claiming" /\ worker[w].job = j

\* The WHERE clause of claim_next, with SKIP LOCKED.
Claimable(j) == row[j].status = "pending" /\ row[j].due /\ ~RowLocked(j)

\* ... ORDER BY created_at LIMIT 1
NextToClaim(j) ==
  /\ Claimable(j)
  /\ \A k \in Jobs : Claimable(k) => row[j].created <= row[k].created

\* complete and retry_or_dead_letter act only on a row claimed by this worker id.
LockedByWorker(w, j) ==
  row[j].status = "processing" /\ row[j].lockedBy = WorkerId[w]

-----------------------------------------------------------------------------
\* EventIntakeService.intake

\* Without the unique provider identity.
IntakeEveryDelivery(e) ==
  /\ inbound' = inbound \cup {e}
  /\ Enqueue(e)
  /\ UNCHANGED <<applied, crashes>>

\* A first delivery with a valid signature: both rows, one commit.
IntakeAccepted(e) ==
  /\ e \notin inbound
  /\ inbound' = inbound \cup {e}
  /\ Enqueue(e)
  /\ UNCHANGED <<applied, crashes>>

\* A redelivery hits the unique (source, source_event_id) and commits nothing.
IntakeDuplicate(e) ==
  /\ e \in inbound
  /\ UNCHANGED vars

\* A business transaction (order creation or approval, monthly fee charge)
\* enqueues its row; each does so once per order or charge.
EnqueueTask(t) ==
  /\ row[t].status = "none"
  /\ Enqueue(t)
  /\ UNCHANGED <<inbound, applied, crashes>>

-----------------------------------------------------------------------------
\* OutboxWorker.listen_forever and drain_once

\* Worker w is now at pc, with job j; the wake-up stays as it is.
At(w, pc, j) ==
  worker' = [worker EXCEPT ![w] = [pc |-> pc, job |-> j, woken |-> worker[w].woken]]

Goto(w, pc) == At(w, pc, worker[w].job)

\* drain_once returns True and drain_ready calls it again.
Release(w) == At(w, "draining", NoJob)

Notified(w) ==
  /\ worker[w].pc = "listening"
  /\ worker[w].woken
  /\ worker' = [worker EXCEPT ![w] = [pc |-> "draining", job |-> NoJob, woken |-> FALSE]]
  /\ UNCHANGED <<inbound, row, clock, applied, crashes>>

\* A worker that only reacts to notifications.
TimeoutSweepNever(w) ==
  /\ worker[w].pc = "listening"
  /\ FALSE
  /\ UNCHANGED vars

\* notifies(timeout) ends without a notification and drain_ready sweeps.
TimeoutSweep(w) ==
  /\ worker[w].pc = "listening"
  /\ ~worker[w].woken
  /\ Goto(w, "draining")
  /\ UNCHANGED <<inbound, row, clock, applied, crashes>>

\* claim_next found nothing: drain_once returns False and drain_ready ends.
NothingToClaim(w) ==
  /\ worker[w].pc = "draining"
  /\ \A j \in Jobs : ~Claimable(j)
  /\ Goto(w, "listening")
  /\ UNCHANGED <<inbound, row, clock, applied, crashes>>

\* A plain SELECT: the row may be in another worker's uncommitted claim.
SelectForUpdateUnlocked(w) ==
  /\ worker[w].pc = "draining"
  /\ \E j \in Jobs :
       /\ row[j].status = "pending" /\ row[j].due
       /\ At(w, "claiming", j)
  /\ UNCHANGED <<inbound, row, clock, applied, crashes>>

SelectForUpdate(w) ==
  /\ worker[w].pc = "draining"
  /\ \E j \in Jobs :
       /\ NextToClaim(j)
       /\ At(w, "claiming", j)
  /\ UNCHANGED <<inbound, row, clock, applied, crashes>>

CommitClaim(w) ==
  LET j == worker[w].job IN
  /\ worker[w].pc = "claiming"
  /\ SetRow(j, "processing", WorkerId[w], row[j].attempts + 1, row[j].due)
  /\ Goto(w, "running")
  /\ UNCHANGED <<inbound, clock, applied, crashes>>

\* The handler's business transaction commits.  A redone submission or charge
\* finds its order or charge already moved on and commits nothing new; a redone
\* trade update violates the unique execution_id and cannot commit at all.
HandlerCommits(w) ==
  LET j == worker[w].job IN
  /\ worker[w].pc = "running"
  /\ j \in TradeEvents => applied[j] = 0
  /\ applied' = IF j \notin NoopEvents /\ applied[j] = 0
                THEN [applied EXCEPT ![j] = 1] ELSE applied
  /\ Goto(w, "applied")
  /\ UNCHANGED <<inbound, row, clock, crashes>>

\* Any exception before that commit: provider down, unknown order, constraint.
HandlerRaises(w) ==
  /\ worker[w].pc = "running"
  /\ Goto(w, "raised")
  /\ UNCHANGED <<inbound, row, clock, applied, crashes>>

HandlerReturns(w) ==
  /\ worker[w].pc = "applied"
  /\ Goto(w, "returned")
  /\ UNCHANGED <<inbound, row, clock, applied, crashes>>

\* _process_inbound_event commits its own unit of work after the handler's
\* effect is durable; that commit may fail.
HandlerRaisesLate(w) ==
  /\ worker[w].pc = "applied"
  /\ worker[w].job \in Events
  /\ Goto(w, "raised")
  /\ UNCHANGED <<inbound, row, clock, applied, crashes>>

\* The handler's exception is swallowed.
CompleteAnyway(w) ==
  LET j == worker[w].job IN
  /\ worker[w].pc \in {"returned", "raised"}
  /\ LockedByWorker(w, j)
  /\ SetRow(j, "completed", NoId, row[j].attempts, row[j].due)
  /\ Release(w)
  /\ UNCHANGED <<inbound, clock, applied, crashes>>

Complete(w) ==
  LET j == worker[w].job IN
  /\ worker[w].pc = "returned"
  /\ LockedByWorker(w, j)
  /\ SetRow(j, "completed", NoId, row[j].attempts, row[j].due)
  /\ Release(w)
  /\ UNCHANGED <<inbound, clock, applied, crashes>>

\* One attempt too many.
RetryOrDeadLetterOffByOne(w) ==
  LET j == worker[w].job IN
  /\ worker[w].pc = "raised"
  /\ LockedByWorker(w, j)
  /\ IF row[j].attempts > MaxAttempts
     THEN SetRow(j, "dead_letter", NoId, row[j].attempts, row[j].due)
     ELSE SetRow(j, "pending", NoId, row[j].attempts, FALSE)
  /\ Release(w)
  /\ UNCHANGED <<inbound, clock, applied, crashes>>

RetryOrDeadLetter(w) ==
  LET j == worker[w].job IN
  /\ worker[w].pc = "raised"
  /\ LockedByWorker(w, j)
  /\ IF row[j].attempts >= MaxAttempts
     THEN SetRow(j, "dead_letter", NoId, row[j].attempts, row[j].due)
     ELSE SetRow(j, "pending", NoId, row[j].attempts, FALSE)
  /\ Release(w)
  /\ UNCHANGED <<inbound, clock, applied, crashes>>

\* next_attempt_at passes.
BackoffElapses(j) ==
  /\ row[j].status = "pending"
  /\ ~row[j].due
  /\ SetRow(j, "pending", row[j].lockedBy, row[j].attempts, TRUE)
  /\ UNCHANGED <<inbound, clock, worker, applied, crashes>>

\* The process dies (eviction, deploy, a database error out of drain_once) and
\* a new one starts listening.  An uncommitted claim rolls back; a committed
\* one stays as it is.
Crash(w) ==
  /\ crashes < MaxCrashes
  /\ worker[w].pc # "listening"
  /\ crashes' = crashes + 1
  /\ worker' = [worker EXCEPT ![w] = [pc |-> "listening", job |-> NoJob, woken |-> FALSE]]
  /\ UNCHANGED <<inbound, row, clock, applied>>

WorkerStep(w) ==
  \/ Notified(w) \/ TimeoutSweep(w) \/ NothingToClaim(w)
  \/ SelectForUpdate(w) \/ CommitClaim(w)
  \/ HandlerCommits(w) \/ HandlerRaises(w)
  \/ HandlerReturns(w) \/ HandlerRaisesLate(w)
  \/ Complete(w) \/ RetryOrDeadLetter(w)

Next ==
  \/ \E e \in Events : IntakeAccepted(e) \/ IntakeDuplicate(e)
  \/ \E t \in Tasks : EnqueueTask(t)
  \/ \E w \in Workers : WorkerStep(w) \/ Crash(w)
  \/ \E j \in Jobs : BackoffElapses(j)

Spec == Init /\ [][Next]_vars

\* A worker process keeps running drain_once and listen_forever, handlers end
\* (every provider call has a timeout), and deadlines pass.  Deliveries and
\* crashes are never forced.
Fairness ==
  /\ \A w \in Workers : WF_vars(WorkerStep(w))
  /\ \A j \in Jobs : WF_vars(BackoffElapses(j))

LiveSpec == Spec /\ Fairness

-----------------------------------------------------------------------------
\* Properties

\* Every variable keeps the values its column or object can have; in
\* particular a worker has a job exactly when it is in the middle of one.
TypeOK ==
  /\ inbound \subseteq Events
  /\ row \in [Jobs -> [status: Statuses, attempts: Nat,
                       lockedBy: WorkerIds \cup {NoId}, due: BOOLEAN, created: Nat]]
  /\ clock \in Nat
  /\ worker \in [Workers -> [pc: Pcs, job: Jobs \cup {NoJob}, woken: BOOLEAN]]
  /\ \A w \in Workers :
       worker[w].job = NoJob <=> worker[w].pc \in {"listening", "draining"}
  /\ applied \in [Jobs -> 0..1]
  /\ crashes \in 0..MaxCrashes

Holders(j) == {w \in Workers : worker[w].job = j /\ worker[w].pc \in Handling}

\* FOR UPDATE SKIP LOCKED with the status re-check: no row is ever between the
\* claim and the outcome in two worker processes, even while neither claim
\* transaction has committed and even if both processes have the same pid.
ClaimExclusive ==
  \A v, w \in Workers :
    v # w /\ worker[v].job = worker[w].job => worker[v].job = NoJob

\* A worker that finished a handler still owns the row it claimed, so
\* _locked_by_worker never raises "outbox row is not claimed by this worker":
\* nothing gives a claimed row back behind its worker's back.
OutcomeAccepted ==
  \A w \in Workers :
    worker[w].pc \in Handling => LockedByWorker(w, worker[w].job)

\* A row that still may be claimed has attempts left, and is dead-lettered after
\* exactly MaxAttempts handler runs, crashes in between included.
RetryBudget ==
  \A j \in Jobs :
    /\ row[j].status = "none" => row[j].attempts = 0
    /\ row[j].status = "pending" => row[j].attempts < MaxAttempts
    /\ row[j].attempts <= MaxAttempts
    /\ row[j].status = "dead_letter" => row[j].attempts = MaxAttempts

\* A completed row really had its effect: no path through a raise, a retry or a
\* crash reaches `completed` without the handler's transaction having committed.
CompletedWasApplied ==
  \A j \in Jobs :
    row[j].status = "completed" /\ j \notin NoopEvents => applied[j] = 1

\* completed and dead_letter are final: a redelivered event, a late worker or a
\* second sweep never reopens the row or lets its effect happen after all.
OutcomeIsFinal ==
  [][\A j \in Jobs :
       row[j].status \in {"completed", "dead_letter"} =>
         row'[j] = row[j] /\ applied'[j] = applied[j]]_vars

\* Row j is in processing and no living worker will ever record its outcome.
Orphaned(j) == row[j].status = "processing" /\ Holders(j) = {}

\* Every accepted event is completed or dead-lettered, whatever its handler does
\* and whichever wake-ups are missed (listen_forever, drain_ready), unless a
\* worker died holding it.
EventSettlesOrOrphaned ==
  \A e \in Events :
    e \in inbound ~> row[e].status \in {"completed", "dead_letter"} \/ Orphaned(e)

\* The outbox implements the abstract work queue.
PhaseOf(status) ==
  CASE status = "none" -> "absent"
    [] status = "pending" -> "waiting"
    [] status = "processing" -> "taken"
    [] status = "completed" -> "done"
    [] status = "dead_letter" -> "dead"

JobPhase == [j \in Jobs |-> PhaseOf(row[j].status)]
JobHolders == [j \in Jobs |-> Holders(j)]
JobTries == [j \in Jobs |-> row[j].attempts]

Queue == INSTANCE WorkQueue WITH
  phase <- JobPhase, holders <- JobHolders, tries <- JobTries

\* Every step of workers, intake, clock and crashes is a step of the work queue
\* or none: a job has one holder at a time and MaxAttempts tries in all.
ImplementsQueue == Queue!Spec

-----------------------------------------------------------------------------
\* What the documentation says and the code does not do

\* Every accepted event ends up completed or dead-lettered, never forgotten.
EventSettles ==
  \A e \in Events :
    e \in inbound ~> row[e].status \in {"completed", "dead_letter"}
=============================================================================
