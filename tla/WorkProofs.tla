----------------------------- MODULE WorkProofs -----------------------------
(* Machine-checked proofs about the two kinds of background work: the rows an
   outbox worker claims (Outbox), for any number of workers, rows and deaths,
   and the scheduled job that reconciles (Reconciliation), for any number of
   processes, runs, customers and entries.  The two share no state.         *)
EXTENDS Outbox, Reconciliation, FiniteSetTheorems, TLAPS

-----------------------------------------------------------------------------
(* Outbox.
   A row has one worker, an outcome is final and completed means applied; the
   outbox implements the abstract work queue. *)

\* The inductive invariant: what the exclusive claim rests on.  An uncommitted
\* claim holds the row lock of a still pending row, and a worker inside the
\* handler owns a processing row.
ClaimsPending ==
  \A w \in Workers :
    worker[w].pc = "claiming" => row[worker[w].job].status = "pending"

\* Intake writes both rows or neither, so a first delivery finds no outbox row.
AcceptedIsEnqueued ==
  \A e \in Events : e \in inbound <=> row[e].status # "none"

IInv ==
  /\ TypeOK
  /\ AcceptedIsEnqueued
  /\ ClaimExclusive
  /\ ClaimsPending
  /\ OutcomeAccepted
  /\ RetryBudget

\* The initial state, with no row and every worker listening, is in the invariant.
LEMMA InitIInv == Init => IInv
  BY OutboxAssumption
  DEF Init, IInv, TypeOK, ClaimExclusive, ClaimsPending, OutcomeAccepted,
      RetryBudget, AcceptedIsEnqueued, NoRow, Statuses, Pcs, Handling, Jobs

\* An insert into job_outbox writes a well-typed pending row and wakes workers only.
LEMMA EnqueueType ==
  ASSUME TypeOK, NEW j \in Jobs, Enqueue(j)
  PROVE  /\ row' \in [Jobs -> [status: Statuses, attempts: Nat,
                       lockedBy: WorkerIds \cup {NoId}, due: BOOLEAN, created: Nat]]
         /\ clock' \in Nat
         /\ worker' \in [Workers -> [pc: Pcs, job: Jobs \cup {NoJob}, woken: BOOLEAN]]
<1> DEFINE new == [status |-> "pending", attempts |-> 0, lockedBy |-> NoId, due |-> TRUE,
                created |-> clock]
<1>1. new \in [status: Statuses, attempts: Nat,
               lockedBy: WorkerIds \cup {NoId}, due: BOOLEAN, created: Nat]
  BY DEF TypeOK, NoRow, Statuses
<1>2. row' = [row EXCEPT ![j] = new]
  BY DEF Enqueue
<1> HIDE DEF new
<1>3. row' \in [Jobs -> [status: Statuses, attempts: Nat,
                       lockedBy: WorkerIds \cup {NoId}, due: BOOLEAN, created: Nat]]
  BY <1>1, <1>2 DEF TypeOK
<1>4. worker' \in [Workers -> [pc: Pcs, job: Jobs \cup {NoJob}, woken: BOOLEAN]]
  BY DEF TypeOK, Enqueue
<1> QED BY <1>3, <1>4 DEF TypeOK, Enqueue

\* Inserting a row that did not exist keeps the invariant: no worker can hold it.
LEMMA EnqueueStep ==
  ASSUME IInv, NEW j \in Jobs, row[j].status = "none", Enqueue(j),
         inbound' \subseteq Events, inbound' \cap (Events \ {j}) = inbound \cap (Events \ {j}),
         j \in Events => j \in inbound',
         UNCHANGED <<applied, crashes>>
  PROVE  IInv'
<1> USE OutboxAssumption
<1>0. /\ row' = [row EXCEPT ![j] = [status |-> "pending", attempts |-> 0, lockedBy |-> NoId,
                                   due |-> TRUE, created |-> clock]]
      /\ worker' = [w \in Workers |-> [worker[w] EXCEPT !.woken = TRUE]]
  BY DEF Enqueue
<1>a. \A w \in Workers : worker'[w].pc = worker[w].pc /\ worker'[w].job = worker[w].job
  BY <1>0 DEF IInv, TypeOK
<1>b. \A k \in Jobs : k # j => row'[k] = row[k]
  BY <1>0 DEF IInv, TypeOK
<1>c. row'[j].status = "pending" /\ row'[j].attempts = 0
  BY <1>0 DEF IInv, TypeOK, NoRow
<1>d. \A w \in Workers : worker[w].pc = "claiming" \/ worker[w].pc \in Handling =>
         worker[w].job \in Jobs /\ worker[w].job # j
  BY DEF IInv, TypeOK, ClaimsPending, OutcomeAccepted, LockedByWorker, Handling
<1>1. TypeOK'
  BY <1>a, EnqueueType DEF IInv, TypeOK
<1>2. AcceptedIsEnqueued'
  BY <1>b, <1>c DEF IInv, AcceptedIsEnqueued, Jobs
<1>3. ClaimExclusive'
  BY <1>a DEF IInv, ClaimExclusive
<1>4. ClaimsPending'
  BY <1>a, <1>b, <1>d DEF IInv, ClaimsPending
<1>5. OutcomeAccepted'
  BY <1>a, <1>b, <1>d DEF IInv, OutcomeAccepted, LockedByWorker
<1>6. RetryBudget'
  BY <1>b, <1>c DEF IInv, RetryBudget
<1> QED BY <1>1, <1>2, <1>3, <1>4, <1>5, <1>6 DEF IInv

\* A move of one worker leaves the others where they are.
LEMMA AtType ==
  ASSUME TypeOK, NEW w \in Workers, NEW pc \in Pcs, NEW j \in Jobs \cup {NoJob},
         At(w, pc, j)
  PROVE  /\ worker'[w].pc = pc /\ worker'[w].job = j
         /\ \A v \in Workers \ {w} : worker'[v] = worker[v]
         /\ worker' \in [Workers -> [pc: Pcs, job: Jobs \cup {NoJob}, woken: BOOLEAN]]
  BY DEF TypeOK, At

\* A step of one worker that neither takes a row, nor gives one up to another
\* worker's advantage: it stays without a row, keeps handling its row, or dies.
LEMMA WorkerOnlyStep ==
  ASSUME IInv, NEW w \in Workers,
         worker' \in [Workers -> [pc: Pcs, job: Jobs \cup {NoJob}, woken: BOOLEAN]],
         \A v \in Workers \ {w} : worker'[v] = worker[v],
         \/ worker'[w].pc \in {"listening", "draining"} /\ worker'[w].job = NoJob
         \/ /\ worker[w].pc \in Handling /\ worker'[w].pc \in Handling
            /\ worker'[w].job = worker[w].job,
         applied' \in [Jobs -> 0..1], crashes' \in 0..MaxCrashes,
         UNCHANGED <<inbound, row, clock>>
  PROVE  IInv'
<1> USE OutboxAssumption
<1>1. TypeOK'
  BY DEF IInv, TypeOK, Handling
<1>2. AcceptedIsEnqueued' /\ RetryBudget'
  BY DEF IInv, AcceptedIsEnqueued, RetryBudget
<1>3. ClaimExclusive'
  BY DEF IInv, ClaimExclusive
<1>4. ClaimsPending'
  BY DEF IInv, ClaimsPending, Handling
<1>5. OutcomeAccepted'
  BY DEF IInv, OutcomeAccepted, LockedByWorker, Handling
<1> QED BY <1>1, <1>2, <1>3, <1>4, <1>5 DEF IInv

\* SELECT ... FOR UPDATE SKIP LOCKED takes a pending row no other worker is in.
LEMMA SelectStep ==
  ASSUME IInv, NEW w \in Workers, SelectForUpdate(w)
  PROVE  IInv'
<1> USE OutboxAssumption
<1>1. PICK j \in Jobs : /\ NextToClaim(j)
                        /\ At(w, "claiming", j)
  BY DEF SelectForUpdate
<1>2. row[j].status = "pending" /\ ~RowLocked(j)
  BY <1>1 DEF NextToClaim, Claimable
<1>3. /\ worker'[w].pc = "claiming" /\ worker'[w].job = j
      /\ \A v \in Workers \ {w} : worker'[v] = worker[v]
      /\ worker' \in [Workers -> [pc: Pcs, job: Jobs \cup {NoJob}, woken: BOOLEAN]]
  BY <1>1, AtType DEF IInv, Pcs
<1>4. \A v \in Workers : worker[v].job # j
  BY <1>2 DEF IInv, TypeOK, OutcomeAccepted, LockedByWorker, RowLocked, Handling, Pcs
<1>5. TypeOK'
  BY <1>3 DEF IInv, TypeOK, SelectForUpdate
<1>6. AcceptedIsEnqueued' /\ RetryBudget'
  BY DEF IInv, AcceptedIsEnqueued, RetryBudget, SelectForUpdate
<1>7. ClaimExclusive'
  BY <1>3, <1>4 DEF IInv, ClaimExclusive
<1>8. ClaimsPending'
  BY <1>2, <1>3 DEF IInv, ClaimsPending, SelectForUpdate
<1>9. OutcomeAccepted'
  BY <1>3 DEF IInv, OutcomeAccepted, LockedByWorker, Handling, SelectForUpdate
<1> QED BY <1>5, <1>6, <1>7, <1>8, <1>9 DEF IInv

\* A step in which worker w moves the row it holds and nobody else's.
LEMMA RowStep ==
  ASSUME IInv, NEW w \in Workers, NEW j \in Jobs, worker[w].job = j,
         row' \in [Jobs -> [status: Statuses, attempts: Nat,
                      lockedBy: WorkerIds \cup {NoId}, due: BOOLEAN, created: Nat]],
         \A k \in Jobs \ {j} : row'[k] = row[k],
         row[j].status # "none", row'[j].status # "none",
         row'[j].attempts <= MaxAttempts,
         row'[j].status = "pending" => row'[j].attempts < MaxAttempts,
         row'[j].status = "dead_letter" => row'[j].attempts = MaxAttempts,
         worker' \in [Workers -> [pc: Pcs, job: Jobs \cup {NoJob}, woken: BOOLEAN]],
         \A v \in Workers \ {w} : worker'[v] = worker[v],
         \/ worker'[w].pc = "draining" /\ worker'[w].job = NoJob
         \/ /\ worker'[w].pc = "running" /\ worker'[w].job = j
            /\ row'[j].status = "processing" /\ row'[j].lockedBy = WorkerId[w],
         UNCHANGED <<inbound, clock, applied, crashes>>
  PROVE  IInv'
<1> USE OutboxAssumption
<1>1. \A v \in Workers \ {w} : worker[v].job # j
  BY DEF IInv, TypeOK, ClaimExclusive
<1>2. TypeOK'
  BY DEF IInv, TypeOK
<1>3. AcceptedIsEnqueued'
  BY DEF IInv, AcceptedIsEnqueued, Jobs
<1>4. RetryBudget'
  BY DEF IInv, RetryBudget
<1>5. ClaimExclusive'
  BY DEF IInv, ClaimExclusive
<1>6. ClaimsPending'
  BY <1>1 DEF IInv, TypeOK, ClaimsPending
<1>7. OutcomeAccepted'
  BY <1>1 DEF IInv, TypeOK, OutcomeAccepted, LockedByWorker, Handling
<1> QED BY <1>2, <1>3, <1>4, <1>5, <1>6, <1>7 DEF IInv

\* An UPDATE of one row leaves the others alone and writes what it is given.
LEMMA SetRowType ==
  ASSUME TypeOK, NEW j \in Jobs, NEW status \in Statuses,
         NEW id \in WorkerIds \cup {NoId}, NEW n \in Nat, NEW due \in BOOLEAN,
         SetRow(j, status, id, n, due)
  PROVE  /\ row' \in [Jobs -> [status: Statuses, attempts: Nat,
                       lockedBy: WorkerIds \cup {NoId}, due: BOOLEAN, created: Nat]]
         /\ \A k \in Jobs \ {j} : row'[k] = row[k]
         /\ row'[j].status = status /\ row'[j].attempts = n /\ row'[j].lockedBy = id
  BY DEF TypeOK, SetRow

\* The commit of a claim starts an attempt within the budget.
LEMMA CommitClaimStep ==
  ASSUME IInv, NEW w \in Workers, CommitClaim(w)
  PROVE  IInv'
<1> USE OutboxAssumption
<1> DEFINE j == worker[w].job
<1>1. j \in Jobs /\ row[j].status = "pending" /\ row[j].attempts < MaxAttempts
  BY DEF CommitClaim, IInv, TypeOK, ClaimsPending, RetryBudget
<1>2. row[j].attempts \in Nat /\ row[j].due \in BOOLEAN
  BY <1>1 DEF IInv, TypeOK
<1>3. /\ row' \in [Jobs -> [status: Statuses, attempts: Nat,
                       lockedBy: WorkerIds \cup {NoId}, due: BOOLEAN, created: Nat]]
      /\ \A k \in Jobs \ {j} : row'[k] = row[k]
      /\ row'[j].status = "processing" /\ row'[j].attempts = row[j].attempts + 1
      /\ row'[j].lockedBy = WorkerId[w]
  <2>1. "processing" \in Statuses /\ WorkerId[w] \in WorkerIds \cup {NoId}
        /\ row[j].attempts + 1 \in Nat
    BY <1>2 DEF Statuses
  <2> QED BY <1>1, <1>2, <2>1, SetRowType DEF CommitClaim, IInv
<1>4. /\ worker'[w].pc = "running" /\ worker'[w].job = j
      /\ \A v \in Workers \ {w} : worker'[v] = worker[v]
      /\ worker' \in [Workers -> [pc: Pcs, job: Jobs \cup {NoJob}, woken: BOOLEAN]]
  BY <1>1, AtType DEF CommitClaim, Goto, IInv, Pcs
<1>5. UNCHANGED <<inbound, clock, applied, crashes>>
  BY DEF CommitClaim
<1> HIDE DEF j
<1> QED BY <1>1, <1>2, <1>3, <1>4, <1>5, RowStep DEF j

\* Marking a row completed ends its holder's part.
LEMMA CompleteStep ==
  ASSUME IInv, NEW w \in Workers, Complete(w)
  PROVE  IInv'
<1> USE OutboxAssumption
<1> DEFINE j == worker[w].job
<1>1. j \in Jobs /\ row[j].status = "processing" /\ row[j].attempts <= MaxAttempts
  BY DEF Complete, IInv, TypeOK, LockedByWorker, RetryBudget
<1>2. row[j].attempts \in Nat /\ row[j].due \in BOOLEAN /\ "completed" \in Statuses
  BY <1>1 DEF IInv, TypeOK, Statuses
<1>3. /\ row' \in [Jobs -> [status: Statuses, attempts: Nat,
                       lockedBy: WorkerIds \cup {NoId}, due: BOOLEAN, created: Nat]]
      /\ \A k \in Jobs \ {j} : row'[k] = row[k]
      /\ row'[j].status = "completed" /\ row'[j].attempts = row[j].attempts
  BY <1>1, <1>2, SetRowType DEF Complete, IInv
<1>4. /\ worker'[w].pc = "draining" /\ worker'[w].job = NoJob
      /\ \A v \in Workers \ {w} : worker'[v] = worker[v]
      /\ worker' \in [Workers -> [pc: Pcs, job: Jobs \cup {NoJob}, woken: BOOLEAN]]
  BY AtType DEF Complete, Release, IInv, Pcs
<1>5. UNCHANGED <<inbound, clock, applied, crashes>>
  BY DEF Complete
<1> HIDE DEF j
<1> QED BY <1>1, <1>2, <1>3, <1>4, <1>5, RowStep DEF j

\* A failed attempt is returned below max_attempts and dead-lettered at it.
LEMMA RetryStep ==
  ASSUME IInv, NEW w \in Workers, RetryOrDeadLetter(w)
  PROVE  IInv'
<1> USE OutboxAssumption
<1> DEFINE j == worker[w].job
<1>1. j \in Jobs /\ row[j].status = "processing" /\ row[j].attempts <= MaxAttempts
  BY DEF RetryOrDeadLetter, IInv, TypeOK, LockedByWorker, RetryBudget
<1>2. row[j].attempts \in Nat /\ row[j].due \in BOOLEAN
      /\ "dead_letter" \in Statuses /\ "pending" \in Statuses
  BY <1>1 DEF IInv, TypeOK, Statuses
<1>3. /\ row' \in [Jobs -> [status: Statuses, attempts: Nat,
                       lockedBy: WorkerIds \cup {NoId}, due: BOOLEAN, created: Nat]]
      /\ \A k \in Jobs \ {j} : row'[k] = row[k]
      /\ row'[j].attempts = row[j].attempts
      /\ \/ row'[j].status = "dead_letter" /\ row[j].attempts = MaxAttempts
         \/ row'[j].status = "pending" /\ row[j].attempts < MaxAttempts
  <2>1. CASE row[j].attempts >= MaxAttempts
    <3>1. SetRow(j, "dead_letter", NoId, row[j].attempts, row[j].due)
      BY <2>1 DEF RetryOrDeadLetter
    <3>2. row[j].attempts = MaxAttempts
      BY <1>1, <1>2, <2>1
    <3> HIDE DEF j
    <3> QED BY <1>1, <1>2, <3>1, <3>2, SetRowType DEF IInv
  <2>2. CASE ~(row[j].attempts >= MaxAttempts)
    <3>1. SetRow(j, "pending", NoId, row[j].attempts, FALSE)
      BY <2>2 DEF RetryOrDeadLetter
    <3>2. row[j].attempts < MaxAttempts
      BY <1>1, <1>2, <2>2
    <3> HIDE DEF j
    <3> QED BY <1>1, <1>2, <3>1, <3>2, SetRowType DEF IInv
  <2> QED BY <2>1, <2>2
<1>4. /\ worker'[w].pc = "draining" /\ worker'[w].job = NoJob
      /\ \A v \in Workers \ {w} : worker'[v] = worker[v]
      /\ worker' \in [Workers -> [pc: Pcs, job: Jobs \cup {NoJob}, woken: BOOLEAN]]
  BY AtType DEF RetryOrDeadLetter, Release, IInv, Pcs
<1>5. UNCHANGED <<inbound, clock, applied, crashes>>
  BY DEF RetryOrDeadLetter
<1> HIDE DEF j
<1> QED BY <1>1, <1>2, <1>3, <1>4, <1>5, RowStep DEF j

\* A retry that comes due changes nothing anybody holds.
LEMMA BackoffStep ==
  ASSUME IInv, NEW j \in Jobs, BackoffElapses(j)
  PROVE  IInv'
<1> USE OutboxAssumption
<1>1. row[j].status = "pending" /\ UNCHANGED <<inbound, clock, worker, applied, crashes>>
  BY DEF BackoffElapses
<1>2. /\ row' \in [Jobs -> [status: Statuses, attempts: Nat,
                       lockedBy: WorkerIds \cup {NoId}, due: BOOLEAN, created: Nat]]
      /\ \A k \in Jobs : row'[k].status = row[k].status /\ row'[k].attempts = row[k].attempts
                         /\ row'[k].lockedBy = row[k].lockedBy
  BY DEF BackoffElapses, SetRow, IInv, TypeOK, Statuses
<1>3. TypeOK'
  BY <1>1, <1>2 DEF IInv, TypeOK
<1>4. AcceptedIsEnqueued' /\ RetryBudget' /\ ClaimExclusive'
  BY <1>1, <1>2 DEF IInv, AcceptedIsEnqueued, RetryBudget, ClaimExclusive, Jobs
<1>5. \A w \in Workers : worker[w].pc = "claiming" \/ worker[w].pc \in Handling =>
         worker[w].job \in Jobs
  BY DEF IInv, TypeOK, Handling
<1>6. ClaimsPending'
  BY <1>1, <1>2, <1>5 DEF IInv, ClaimsPending
<1>7. OutcomeAccepted'
  BY <1>1, <1>2, <1>5 DEF IInv, OutcomeAccepted, LockedByWorker
<1> QED BY <1>3, <1>4, <1>6, <1>7 DEF IInv

\* Every step of one worker keeps the invariant.
LEMMA WorkerStepIInv ==
  ASSUME IInv, NEW w \in Workers, WorkerStep(w)
  PROVE  IInv'
<1> USE OutboxAssumption
<1>0. worker[w].job \in Jobs \cup {NoJob}
  BY DEF IInv, TypeOK
<1>1. CASE Notified(w)
  BY <1>1, WorkerOnlyStep DEF Notified, IInv, TypeOK, Pcs
<1>2. CASE TimeoutSweep(w) \/ NothingToClaim(w)
  <2>1. PICK pc \in {"listening", "draining"} : At(w, pc, NoJob)
    BY <1>2 DEF TimeoutSweep, NothingToClaim, Goto, IInv, TypeOK
  <2>2. /\ worker'[w].pc = pc /\ worker'[w].job = NoJob
        /\ \A v \in Workers \ {w} : worker'[v] = worker[v]
        /\ worker' \in [Workers -> [pc: Pcs, job: Jobs \cup {NoJob}, woken: BOOLEAN]]
    BY <2>1, AtType DEF IInv, Pcs
  <2>3. UNCHANGED <<inbound, row, clock, applied, crashes>>
    BY <1>2 DEF TimeoutSweep, NothingToClaim
  <2> QED BY <2>2, <2>3, WorkerOnlyStep DEF IInv, TypeOK
<1>3. CASE SelectForUpdate(w)
  BY <1>3, SelectStep
<1>4. CASE CommitClaim(w)
  BY <1>4, CommitClaimStep
<1>5. CASE HandlerCommits(w) \/ HandlerRaises(w) \/ HandlerReturns(w) \/ HandlerRaisesLate(w)
  <2>1. PICK pc \in Handling : At(w, pc, worker[w].job)
    BY <1>5 DEF HandlerCommits, HandlerRaises, HandlerReturns, HandlerRaisesLate, Goto,
                Handling
  <2>2. worker[w].pc \in Handling /\ UNCHANGED <<inbound, row, clock, crashes>>
    BY <1>5 DEF HandlerCommits, HandlerRaises, HandlerReturns, HandlerRaisesLate, Handling
  <2>3. /\ worker'[w].pc = pc /\ worker'[w].job = worker[w].job
        /\ \A v \in Workers \ {w} : worker'[v] = worker[v]
        /\ worker' \in [Workers -> [pc: Pcs, job: Jobs \cup {NoJob}, woken: BOOLEAN]]
    BY <1>0, <2>1, AtType DEF IInv, Pcs, Handling
  <2>4. applied' \in [Jobs -> 0..1]
    BY <1>5 DEF HandlerCommits, HandlerRaises, HandlerReturns, HandlerRaisesLate, IInv, TypeOK
  <2> QED BY <2>2, <2>3, <2>4, WorkerOnlyStep DEF IInv, TypeOK
<1>6. CASE Complete(w)
  BY <1>6, CompleteStep
<1>7. CASE RetryOrDeadLetter(w)
  BY <1>7, RetryStep
<1> QED BY <1>1, <1>2, <1>3, <1>4, <1>5, <1>6, <1>7 DEF WorkerStep

\* Every step of the outbox keeps the invariant.
LEMMA NextIInv == IInv /\ [Next]_vars => IInv'
<1> SUFFICES ASSUME IInv, [Next]_vars PROVE IInv'
  OBVIOUS
<1> USE OutboxAssumption
<1>1. CASE UNCHANGED vars
  BY <1>1 DEF vars, IInv, TypeOK, AcceptedIsEnqueued, ClaimExclusive, ClaimsPending,
              OutcomeAccepted, LockedByWorker, RetryBudget
<1>2. ASSUME NEW e \in Events, IntakeAccepted(e) PROVE IInv'
  <2>1. e \in Jobs /\ row[e].status = "none"
    BY <1>2 DEF IntakeAccepted, IInv, AcceptedIsEnqueued, Jobs
  <2>2. inbound' \subseteq Events
    BY <1>2 DEF IntakeAccepted, IInv, TypeOK
  <2> QED BY <1>2, <2>1, <2>2, EnqueueStep DEF IntakeAccepted
<1>3. ASSUME NEW t \in Tasks, EnqueueTask(t) PROVE IInv'
  <2>1. t \in Jobs /\ t \notin Events /\ row[t].status = "none" /\ inbound' = inbound
    BY <1>3 DEF EnqueueTask, Jobs
  <2> QED BY <1>3, <2>1, EnqueueStep DEF EnqueueTask, IInv, TypeOK
<1>4. ASSUME NEW w \in Workers, Crash(w) PROVE IInv'
  BY <1>4, WorkerOnlyStep DEF Crash, IInv, TypeOK, Pcs
<1> QED
  BY <1>1, <1>2, <1>3, <1>4, WorkerStepIInv, BackoffStep DEF Next, IntakeDuplicate

\* The outbox is safe for any jobs, workers, worker ids, budget and crashes.
THEOREM OutboxInvariant == Spec => []IInv
  BY InitIInv, NextIInv, PTL DEF Spec

\* A worker has a job exactly while it is claiming or handling one, and every
\* column keeps its values.
THEOREM TypeCorrect == Spec => []TypeOK
  BY OutboxInvariant, PTL DEF IInv

\* claim_next never hands one row to two worker processes.
THEOREM ClaimIsExclusive == Spec => []ClaimExclusive
  BY OutboxInvariant, PTL DEF IInv

\* _locked_by_worker never refuses the outcome of a handler that ran.
THEOREM OutcomeIsAccepted == Spec => []OutcomeAccepted
  BY OutboxInvariant, PTL DEF IInv

\* A row is handled at most max_attempts times and dead-lettered after exactly
\* that many.
THEOREM RetriesWithinBudget == Spec => []RetryBudget
  BY OutboxInvariant, PTL DEF IInv

-----------------------------------------------------------------------------
\* A worker has an effect to show before its row can complete.

HandledWasApplied ==
  /\ CompletedWasApplied
  /\ \A w \in Workers :
       /\ worker[w].pc \in {"applied", "returned"}
       /\ worker[w].job \notin NoopEvents
       => applied[worker[w].job] = 1

\* No step lets a worker past its handler, or a row to completed, without the effect.
LEMMA StepHandledWasApplied ==
  IInv /\ HandledWasApplied /\ [Next]_vars => HandledWasApplied'
<1> SUFFICES ASSUME IInv, HandledWasApplied, [Next]_vars PROVE HandledWasApplied'
  OBVIOUS
<1> USE OutboxAssumption
<1> USE DEF HandledWasApplied, CompletedWasApplied
<1>1. CASE UNCHANGED vars
  BY <1>1 DEF vars
<1>2. ASSUME NEW j \in Jobs, Enqueue(j), UNCHANGED applied PROVE HandledWasApplied'
  <2>1. /\ \A w \in Workers : worker'[w].pc = worker[w].pc /\ worker'[w].job = worker[w].job
        /\ \A k \in Jobs : row'[k].status = "completed" => row[k].status = "completed"
    BY <1>2 DEF Enqueue, IInv, TypeOK
  <2> QED BY <1>2, <2>1
<1>3. ASSUME NEW w \in Workers, Crash(w) \/ Notified(w) PROVE HandledWasApplied'
  BY <1>3 DEF Crash, Notified, IInv, TypeOK
<1>4. ASSUME NEW w \in Workers, TimeoutSweep(w) \/ NothingToClaim(w) \/ HandlerRaises(w)
                               \/ HandlerReturns(w) \/ HandlerRaisesLate(w)
      PROVE HandledWasApplied'
  BY <1>4 DEF TimeoutSweep, NothingToClaim, HandlerRaises, HandlerReturns,
              HandlerRaisesLate, Goto, At, IInv, TypeOK
<1>5. ASSUME NEW w \in Workers, SelectForUpdate(w) PROVE HandledWasApplied'
  BY <1>5 DEF SelectForUpdate, At, IInv, TypeOK
<1>6. ASSUME NEW w \in Workers, CommitClaim(w) PROVE HandledWasApplied'
  BY <1>6 DEF CommitClaim, SetRow, Goto, At, IInv, TypeOK
<1>7. ASSUME NEW w \in Workers, HandlerCommits(w) PROVE HandledWasApplied'
  <2>1. worker[w].job \in Jobs /\ applied[worker[w].job] \in 0..1
    BY <1>7 DEF HandlerCommits, IInv, TypeOK
  <2>2. \A k \in Jobs : applied[k] = 1 => applied'[k] = 1
    BY <1>7, <2>1 DEF HandlerCommits, IInv, TypeOK
  <2>3. worker[w].job \notin NoopEvents => applied'[worker[w].job] = 1
    BY <1>7, <2>1 DEF HandlerCommits, IInv, TypeOK
  <2>4. /\ row' = row /\ worker'[w].job = worker[w].job
        /\ \A v \in Workers \ {w} : worker'[v] = worker[v]
    BY <1>7 DEF HandlerCommits, Goto, At, IInv, TypeOK
  <2> QED BY <2>1, <2>2, <2>3, <2>4 DEF IInv, TypeOK
<1>8. ASSUME NEW w \in Workers, Complete(w) PROVE HandledWasApplied'
  BY <1>8 DEF Complete, SetRow, Release, At, LockedByWorker, IInv, TypeOK
<1>9. ASSUME NEW w \in Workers, RetryOrDeadLetter(w) PROVE HandledWasApplied'
  BY <1>9 DEF RetryOrDeadLetter, SetRow, Release, At, LockedByWorker, IInv, TypeOK
<1>10. ASSUME NEW j \in Jobs, BackoffElapses(j) PROVE HandledWasApplied'
  BY <1>10 DEF BackoffElapses, SetRow, IInv, TypeOK
<1> QED
  BY <1>1, <1>2, <1>3, <1>4, <1>5, <1>6, <1>7, <1>8, <1>9, <1>10
  DEF Next, WorkerStep, IntakeAccepted, IntakeDuplicate, EnqueueTask, Jobs

\* A row is completed only after its handler's transaction has committed.
THEOREM CompletedIsApplied == Spec => []CompletedWasApplied
<1>1. Init => HandledWasApplied
  BY DEF Init, HandledWasApplied, CompletedWasApplied, NoRow
<1> QED BY <1>1, OutboxInvariant, StepHandledWasApplied, PTL DEF Spec, HandledWasApplied

-----------------------------------------------------------------------------
\* Final outcomes

\* Once completed or dead-lettered, a row and its effect never change again.
THEOREM OutcomesAreFinal == Spec => OutcomeIsFinal
<1> DEFINE Final(j) == row[j].status \in {"completed", "dead_letter"} =>
                          row'[j] = row[j] /\ applied'[j] = applied[j]
<1>1. IInv /\ [Next]_vars => [\A j \in Jobs : Final(j)]_vars
  <2> SUFFICES ASSUME IInv, Next, NEW j \in Jobs,
                      row[j].status \in {"completed", "dead_letter"}
               PROVE  row'[j] = row[j] /\ applied'[j] = applied[j]
    OBVIOUS
  <2> USE OutboxAssumption
  <2>0. \A w \in Workers : worker[w].pc \in {"claiming"} \cup Handling => worker[w].job # j
    BY DEF IInv, ClaimsPending, OutcomeAccepted, LockedByWorker, Handling
  <2>1. ASSUME NEW k \in Jobs, row[k].status = "none", Enqueue(k), UNCHANGED applied
        PROVE  row'[j] = row[j] /\ applied'[j] = applied[j]
    BY <2>1 DEF Enqueue, IInv, TypeOK
  <2>2. ASSUME NEW e \in Events, IntakeAccepted(e)
        PROVE  row'[j] = row[j] /\ applied'[j] = applied[j]
    BY <2>1, <2>2 DEF IntakeAccepted, IInv, AcceptedIsEnqueued, Jobs
  <2>3. ASSUME NEW t \in Tasks, EnqueueTask(t)
        PROVE  row'[j] = row[j] /\ applied'[j] = applied[j]
    BY <2>1, <2>3 DEF EnqueueTask, Jobs
  <2>4. ASSUME NEW w \in Workers, WorkerStep(w) \/ Crash(w)
        PROVE  row'[j] = row[j] /\ applied'[j] = applied[j]
    <3>1. CASE Notified(w) \/ TimeoutSweep(w) \/ NothingToClaim(w) \/ SelectForUpdate(w)
               \/ HandlerRaises(w) \/ HandlerReturns(w) \/ HandlerRaisesLate(w) \/ Crash(w)
      BY <3>1 DEF Notified, TimeoutSweep, NothingToClaim, SelectForUpdate, HandlerRaises,
                  HandlerReturns, HandlerRaisesLate, Crash
    <3>2. CASE HandlerCommits(w)
      BY <2>0, <3>2 DEF HandlerCommits, IInv, TypeOK, Handling
    <3>3. CASE CommitClaim(w)
      BY <2>0, <3>3 DEF CommitClaim, SetRow, IInv, TypeOK
    <3>4. CASE Complete(w)
      BY <2>0, <3>4 DEF Complete, SetRow, IInv, TypeOK, Handling
    <3>5. CASE RetryOrDeadLetter(w)
      BY <2>0, <3>5 DEF RetryOrDeadLetter, SetRow, IInv, TypeOK, Handling
    <3> QED BY <2>4, <3>1, <3>2, <3>3, <3>4, <3>5 DEF WorkerStep
  <2>5. ASSUME NEW k \in Jobs, BackoffElapses(k)
        PROVE  row'[j] = row[j] /\ applied'[j] = applied[j]
    BY <2>5 DEF BackoffElapses, SetRow, IInv, TypeOK
  <2> QED BY <2>2, <2>3, <2>4, <2>5 DEF Next, IntakeDuplicate, vars
<1> QED BY <1>1, OutboxInvariant, PTL DEF Spec, OutcomeIsFinal

-----------------------------------------------------------------------------
\* The outbox implements the work queue

\* Only a handling worker holds a row, and it holds it alone.
LEMMA SoleHolder ==
  ASSUME IInv, NEW w \in Workers, worker[w].pc \in Handling
  PROVE  Holders(worker[w].job) = {w}
  BY DEF IInv, TypeOK, ClaimExclusive, Holders, Handling

\* A row that is not being processed has no holder.
LEMMA PendingUnheld ==
  ASSUME IInv, NEW j \in Jobs, row[j].status # "processing"
  PROVE  Holders(j) = {}
  BY DEF IInv, OutcomeAccepted, LockedByWorker, Holders

\* How the statuses of a row appear to the queue.
LEMMA Phases ==
  /\ PhaseOf("none") = "absent" /\ PhaseOf("pending") = "waiting"
  /\ PhaseOf("processing") = "taken" /\ PhaseOf("completed") = "done"
  /\ PhaseOf("dead_letter") = "dead"
  BY DEF PhaseOf

\* A step that moves no row and no holder is invisible to the queue.
LEMMA QueueStutters ==
  ASSUME \A j \in Jobs : /\ row'[j].status = row[j].status
                         /\ row'[j].attempts = row[j].attempts
                         /\ Holders(j)' = Holders(j)
  PROVE  UNCHANGED Queue!vars
  BY DEF Queue!vars, JobPhase, JobHolders, JobTries

\* A step that moves one row is a step of the queue on that row's job.
LEMMA OneRowMoves ==
  ASSUME NEW j \in Jobs,
         \A k \in Jobs \ {j} : row'[k] = row[k] /\ Holders(k)' = Holders(k)
  PROVE  /\ JobPhase' = [JobPhase EXCEPT ![j] = PhaseOf(row'[j].status)]
         /\ JobHolders' = [JobHolders EXCEPT ![j] = Holders(j)']
         /\ JobTries' = [JobTries EXCEPT ![j] = row'[j].attempts]
  BY DEF JobPhase, JobHolders, JobTries

\* What the queue sees of one row.
LEMMA QueueState ==
  ASSUME NEW j \in Jobs
  PROVE  /\ JobPhase[j] = PhaseOf(row[j].status)
         /\ JobHolders[j] = Holders(j)
         /\ JobTries[j] = row[j].attempts
  BY DEF JobPhase, JobHolders, JobTries

\* Each action of the outbox, seen by the queue.
LEMMA SubmitRefines ==
  ASSUME IInv, NEW j \in Jobs, row[j].status = "none", Enqueue(j)
  PROVE  Queue!Submit(j)
<1>1. /\ \A k \in Jobs : Holders(k)' = Holders(k)
      /\ \A k \in Jobs \ {j} : row'[k] = row[k]
      /\ row'[j].status = "pending" /\ row'[j].attempts = 0
  BY DEF Enqueue, Holders, IInv, TypeOK
<1>2. row[j].attempts = 0
  BY DEF IInv, RetryBudget
<1>3. JobHolders' = JobHolders /\ JobTries' = JobTries
  BY <1>1, <1>2 DEF JobHolders, JobTries
<1>4. JobPhase' = [JobPhase EXCEPT ![j] = "waiting"]
  BY <1>1, OneRowMoves, Phases
<1> QED BY <1>3, <1>4, QueueState, Phases DEF Queue!Submit

\* A committed claim is the queue's take.
LEMMA TakeRefines ==
  ASSUME IInv, NEW w \in Workers, CommitClaim(w), NEW j \in Jobs, j = worker[w].job
  PROVE  Queue!Take(w, j)
<1> USE OutboxAssumption
<1>1. row[j].status = "pending" /\ row[j].attempts < MaxAttempts
  BY DEF CommitClaim, IInv, TypeOK, ClaimsPending, RetryBudget
<1>2. /\ row'[j].status = "processing" /\ row'[j].attempts = row[j].attempts + 1
      /\ \A k \in Jobs \ {j} : row'[k] = row[k]
  BY DEF CommitClaim, SetRow, IInv, TypeOK
<1>3. /\ worker'[w].pc \in Handling /\ worker'[w].job = j
      /\ \A v \in Workers \ {w} : worker'[v] = worker[v]
  BY DEF CommitClaim, Goto, At, IInv, TypeOK, Handling
<1>4. Holders(j) = {} /\ \A k \in Jobs \ {j} : Holders(k)' = Holders(k)
  BY <1>1, <1>3, PendingUnheld DEF Holders
<1>5. Holders(j)' = {w}
  BY <1>3, <1>4 DEF Holders
<1>6. /\ JobPhase' = [JobPhase EXCEPT ![j] = "taken"]
      /\ JobHolders' = [JobHolders EXCEPT ![j] = {w}]
      /\ JobTries' = [JobTries EXCEPT ![j] = JobTries[j] + 1]
  BY <1>2, <1>4, <1>5, OneRowMoves, QueueState, Phases
<1> QED BY <1>1, <1>4, <1>6, QueueState, Phases DEF Queue!Take

\* An outcome or a death is the queue's finish, return, give-up or loss.
LEMMA LeaveRefines ==
  ASSUME IInv, NEW w \in Workers, NEW j \in Jobs, j = worker[w].job,
         Complete(w) \/ RetryOrDeadLetter(w) \/ (Crash(w) /\ worker[w].pc \in Handling)
  PROVE  Queue!Finish(w, j) \/ Queue!GiveUp(w, j) \/ Queue!Return(w, j) \/ Queue!Lose(w, j)
<1> USE OutboxAssumption
<1>1. worker[w].pc \in Handling
  BY DEF Complete, RetryOrDeadLetter, Handling
<1>2. /\ row[j].status = "processing" /\ Holders(j) = {w}
      /\ row[j].attempts \in Nat /\ row[j].attempts <= MaxAttempts
  BY <1>1, SoleHolder DEF LockedByWorker, IInv, TypeOK, OutcomeAccepted, RetryBudget
<1>3. /\ worker'[w].pc \notin Handling
      /\ \A v \in Workers \ {w} : worker'[v] = worker[v]
  <2>1. CASE Complete(w) \/ RetryOrDeadLetter(w)
    <3>1. At(w, "draining", NoJob)
      BY <2>1 DEF Complete, RetryOrDeadLetter, Release
    <3> QED BY <3>1, AtType DEF IInv, Pcs, Handling
  <2>2. CASE Crash(w)
    BY <2>2 DEF Crash, IInv, TypeOK, Handling
  <2> QED BY <2>1, <2>2
<1>4. Holders(j)' = {} /\ \A k \in Jobs \ {j} : Holders(k)' = Holders(k)
  BY <1>2, <1>3 DEF Holders
<1>5. /\ row'[j].attempts = row[j].attempts
      /\ \A k \in Jobs \ {j} : row'[k] = row[k]
      /\ \/ row'[j].status = "completed"
         \/ row'[j].status = "dead_letter" /\ row[j].attempts = MaxAttempts
         \/ row'[j].status = "pending" /\ row[j].attempts < MaxAttempts
         \/ row'[j].status = "processing"
  <2>1. CASE Complete(w)
    BY <2>1 DEF Complete, SetRow, IInv, TypeOK
  <2>2. CASE RetryOrDeadLetter(w) /\ row[j].attempts >= MaxAttempts
    <3>1. SetRow(j, "dead_letter", NoId, row[j].attempts, row[j].due)
      BY <2>2 DEF RetryOrDeadLetter
    <3>2. row[j].attempts = MaxAttempts
      BY <1>2, <2>2
    <3> QED BY <3>1, <3>2 DEF SetRow, IInv, TypeOK
  <2>3. CASE RetryOrDeadLetter(w) /\ ~(row[j].attempts >= MaxAttempts)
    <3>1. SetRow(j, "pending", NoId, row[j].attempts, FALSE)
      BY <2>3 DEF RetryOrDeadLetter
    <3>2. row[j].attempts < MaxAttempts
      BY <1>2, <2>3
    <3> QED BY <3>1, <3>2 DEF SetRow, IInv, TypeOK
  <2>4. CASE Crash(w)
    BY <1>2, <2>4 DEF Crash
  <2> QED BY <2>1, <2>2, <2>3, <2>4
<1>6. /\ JobPhase' = [JobPhase EXCEPT ![j] = PhaseOf(row'[j].status)]
      /\ JobHolders' = [JobHolders EXCEPT ![j] = {}]
  BY <1>4, <1>5, OneRowMoves
<1>7. JobTries' = JobTries
  BY <1>5 DEF JobTries
<1>8. JobPhase[j] = "taken" /\ JobHolders[j] = {w} /\ JobTries[j] = row[j].attempts
  BY <1>2, QueueState, Phases
<1> QED BY <1>5, <1>6, <1>7, <1>8, Phases
        DEF Queue!Finish, Queue!GiveUp, Queue!Return, Queue!Lose, Queue!Leave

\* Every step of the outbox is a step or a stutter of the queue.
LEMMA StepRefines ==
  ASSUME IInv, [Next]_vars
  PROVE  [Queue!Next]_(Queue!vars)
<1> USE OutboxAssumption
<1>1. CASE UNCHANGED vars
  BY <1>1, QueueStutters DEF vars, Holders
<1>2. ASSUME NEW j \in Jobs, row[j].status = "none", Enqueue(j) PROVE Queue!Next
  BY <1>2, SubmitRefines DEF Queue!Next
<1>3. ASSUME NEW w \in Workers, WorkerStep(w) \/ Crash(w) PROVE [Queue!Next]_(Queue!vars)
  <2>1. CASE Notified(w) \/ TimeoutSweep(w) \/ NothingToClaim(w)
             \/ (Crash(w) /\ worker[w].pc \notin Handling)
    <3>1. /\ row' = row
          /\ worker[w].pc \notin Handling /\ worker'[w].pc \notin Handling
          /\ \A v \in Workers \ {w} : worker'[v] = worker[v]
      BY <2>1 DEF Notified, TimeoutSweep, NothingToClaim, Goto, At, Crash, IInv, TypeOK,
                  Handling
    <3>2. \A k \in Jobs : Holders(k)' = Holders(k)
      BY <3>1 DEF Holders
    <3> QED BY <3>1, <3>2, QueueStutters
  <2>2. CASE SelectForUpdate(w)
    <3>1. row' = row /\ \A k \in Jobs : Holders(k)' = Holders(k)
      BY <2>2 DEF SelectForUpdate, At, Holders, IInv, TypeOK, Handling
    <3> QED BY <3>1, QueueStutters
  <2>3. CASE HandlerCommits(w) \/ HandlerRaises(w) \/ HandlerReturns(w) \/ HandlerRaisesLate(w)
    <3>1. row' = row /\ \A k \in Jobs : Holders(k)' = Holders(k)
      BY <2>3 DEF HandlerCommits, HandlerRaises, HandlerReturns, HandlerRaisesLate, Goto, At,
                  Holders, IInv, TypeOK, Handling
    <3> QED BY <3>1, QueueStutters
  <2>4. CASE CommitClaim(w)
    <3>1. PICK j \in Jobs : j = worker[w].job
      BY <2>4 DEF CommitClaim, IInv, TypeOK
    <3> QED BY <2>4, <3>1, TakeRefines DEF Queue!Next
  <2>5. CASE Complete(w) \/ RetryOrDeadLetter(w) \/ (Crash(w) /\ worker[w].pc \in Handling)
    <3>1. PICK j \in Jobs : j = worker[w].job
      BY <2>5 DEF Complete, RetryOrDeadLetter, IInv, TypeOK, Handling
    <3> QED BY <2>5, <3>1, LeaveRefines DEF Queue!Next
  <2> QED BY <1>3, <2>1, <2>2, <2>3, <2>4, <2>5 DEF WorkerStep
<1>4. ASSUME NEW j \in Jobs, BackoffElapses(j) PROVE UNCHANGED Queue!vars
  <2>1. \A k \in Jobs : /\ row'[k].status = row[k].status
                        /\ row'[k].attempts = row[k].attempts
                        /\ Holders(k)' = Holders(k)
    BY <1>4 DEF BackoffElapses, SetRow, Holders, IInv, TypeOK
  <2> QED BY <2>1, QueueStutters
<1>5. ASSUME NEW e \in Events, IntakeAccepted(e) PROVE Queue!Next
  BY <1>2, <1>5 DEF IntakeAccepted, IInv, AcceptedIsEnqueued, Jobs
<1>6. ASSUME NEW t \in Tasks, EnqueueTask(t) PROVE Queue!Next
  BY <1>2, <1>6 DEF EnqueueTask, Jobs
<1> QED BY <1>1, <1>3, <1>4, <1>5, <1>6 DEF Next, IntakeDuplicate

\* The outbox implements the abstract work queue: one holder per job at a time,
\* at most max_attempts tries, one final outcome.
THEOREM OutboxImplementsQueue == Spec => ImplementsQueue
<1>1. Init => Queue!Init
  BY Phases DEF Init, Queue!Init, JobPhase, JobHolders, JobTries, NoRow, Holders, Handling
<1>2. IInv /\ [Next]_vars => [Queue!Next]_(Queue!vars)
  BY StepRefines
<1> QED BY <1>1, <1>2, OutboxInvariant, PTL DEF Spec, ImplementsQueue, Queue!Spec

-----------------------------------------------------------------------------
(* Reconciliation.
   An import opens exactly the breaks its file warrants, a break is resolved
   once, and a completed job_run row means that the import was committed. *)

-----------------------------------------------------------------------------
\* The inductive invariant

Kinds == {"position_mismatch", "cash_mismatch", "unmatched_custodian_transaction",
          "unmatched_internal_transaction"}
Subjects == Customers \cup Entries \cup Dividends
BreakRows == [type : Kinds, about : Subjects, batch : Nat, by : Staff \cup {None}]
Imports == [date : MarketDates, injected : SUBSET Customers, late : SUBSET Dividends,
            touched : SUBSET Customers, arrived : SUBSET Entries]

\* The phases of a run that has not ended, by what it still has to do.
PositionsOpen == {"cash_due", "transactions_due", "fetched"}
CashOpen == {"transactions_due", "fetched", "positions_matched"}
IdsOpen == {"fetched", "positions_matched", "cash_matched"}
Working == {"cash_due", "transactions_due", "fetched", "positions_matched", "cash_matched",
            "matched"}

\* What breaks of one kind in a sequence of breaks are about.
AboutIn(f, type) == {f[k].about : k \in {j \in DOMAIN f : f[j].type = type}}

\* Breaks of a run that is not committed yet belong to the batch it will be.
Fresh(f) == \A k \in DOMAIN f : f[k].batch = Len(batches) + 1 /\ f[k].by = None

Types ==
    /\ posted \subseteq Entries /\ IsFiniteSet(posted)
    /\ late \subseteq Dividends /\ IsFiniteSet(late)
    /\ batches \in Seq(Imports)
    /\ breaks \in Seq(BreakRows)
    /\ jobRun \in [Periods -> {"none", "completed", "failed"}]
    /\ DOMAIN resolver = Staff
    /\ runner = [p \in Processes |-> runner[p]]

Columns == {"at", "date", "positions", "injected", "touched", "arrived", "cash", "ids", "late",
            "found"}

\* The columns of a run under way.
Shape(p) ==
    LET r == runner[p] IN
    /\ DOMAIN r = Columns
    /\ r.at \in Working
    /\ r.date \in MarketDates
    /\ r.injected \subseteq Customers /\ r.touched \subseteq Customers
    /\ r.arrived \subseteq Entries /\ r.late \subseteq Dividends
    /\ r.ids \subseteq Entries \cup Dividends /\ IsFiniteSet(r.ids)
    /\ r.found \in Seq(BreakRows)

\* What a run has read is what the books still say, but for what moved behind it.
ReadAgrees(p) ==
    LET r == runner[p] IN
    /\ r.at \in PositionsOpen =>
         \A c \in Customers \ r.touched :
            c \in r.injected <=> r.positions[c] # read_internal_positions(r.date)[c]
    /\ r.at \in CashOpen => \A c \in Customers \ r.touched : r.cash[c] = settled_cash[c]
    /\ r.at \in IdsOpen =>
         /\ r.late \subseteq r.ids
         /\ r.ids \subseteq read_internal_transactions(r.date) \cup r.late
         /\ read_internal_transactions(r.date) \ r.arrived \subseteq r.ids

\* What a run has found so far.
FoundSo(p) ==
    LET r == runner[p] IN
    /\ Fresh(r.found)
    /\ IF r.at \in PositionsOpen THEN AboutIn(r.found, "position_mismatch") = {}
       ELSE AboutIn(r.found, "position_mismatch") \ r.touched = r.injected \ r.touched
    /\ AboutIn(r.found, "cash_mismatch") \subseteq r.touched
    /\ AboutIn(r.found, "unmatched_custodian_transaction")
         = IF r.at = "matched" THEN r.late ELSE {}
    /\ AboutIn(r.found, "unmatched_internal_transaction") \subseteq r.arrived

\* A run that performed on a trading day has committed its import.
Committed(p) ==
    LET r == runner[p] IN
    r.at = "performed" /\ r.date \notin Holidays =>
        \E i \in DOMAIN batches : batches[i].date = r.date

RunOK(p) ==
    LET r == runner[p] IN
    \/ r = Exited
    \/ /\ r.at \in {"performed", "raised"}
       /\ r.date \in MarketDates
       /\ Committed(p)
    \/ Shape(p) /\ ReadAgrees(p) /\ FoundSo(p)

\* The advisory lock: one process is past its start.
OneRuns ==
    \A p, q \in Processes : runner[p].at # "exited" /\ runner[q].at # "exited" => p = q

\* The audit log names, for every resolved break, who resolved it.
AuditAgrees == audit = {<<b, breaks[b].by>> : b \in {k \in DOMAIN breaks : breaks[k].by # None}}

Loaded == \A s \in Staff : resolver[s] # None => resolver[s] \in DOMAIN breaks

BatchesExist == \A b \in DOMAIN breaks : breaks[b].batch \in DOMAIN batches

ReconInv ==
    /\ Types
    /\ \A p \in Processes : RunOK(p)
    /\ OneRuns
    /\ AuditAgrees /\ Loaded /\ BatchesExist
    /\ BreaksAreDifferences
    /\ CompletedWasPerformed

-----------------------------------------------------------------------------
\* Lemmas about the operators

\* A finite set as a sequence: every element is there, and nothing else.
LEMMA SetToSeqRange ==
  ASSUME NEW S, IsFiniteSet(S)
  PROVE  /\ SetToSeq(S) \in Seq(S)
         /\ {SetToSeq(S)[k] : k \in DOMAIN SetToSeq(S)} = S
<1> DEFINE n == Cardinality(S)
           f == SetToSeq(S)
<1>1. n \in Nat /\ ExistsBijection(1 .. n, S)
  BY FS_CardinalityType
<1>2. PICK g \in Bijection(1 .. n, S) : TRUE
  BY <1>1 DEF ExistsBijection
<1>3. g \in [1 .. n -> S] /\ IsInjective(g)
  BY <1>2 DEF Bijection, Injection
<1>4. f \in [1 .. n -> S] /\ IsInjective(f)
  BY <1>3 DEF SetToSeq
<1>5. IsFiniteSet(1 .. n) /\ Cardinality(1 .. n) = n
  <2>1. /\ IsFiniteSet(1 .. n)
        /\ Cardinality(1 .. n) = IF 1 > n THEN 0 ELSE n - 1 + 1
    BY <1>1, FS_Interval
  <2> QED BY <1>1, <2>1
<1>6. f \in Injection(1 .. n, S)
  BY <1>4 DEF Injection
<1>7. f \in Surjection(1 .. n, S)
  BY <1>5, <1>6, FS_Injection
<1> HIDE DEF f, n
<1>8. \A x \in S : \E k \in 1 .. n : f[k] = x
  BY <1>7 DEF Surjection
<1>9. f \in Seq(S) /\ DOMAIN f = 1 .. n
  BY <1>1, <1>4
<1>10. {f[k] : k \in DOMAIN f} = S
  BY <1>4, <1>8, <1>9
<1> QED BY <1>9, <1>10 DEF f

\* What is opened: a break of that type for every subject, and no other.
LEMMA OpenedBreaks ==
  ASSUME NEW type \in Kinds, NEW S \in SUBSET Subjects, IsFiniteSet(S), batches \in Seq(Imports)
  PROVE  /\ Opened(type, S) \in Seq(BreakRows)
         /\ Fresh(Opened(type, S))
         /\ AboutIn(Opened(type, S), type) = S
         /\ \A t \in Kinds : t # type => AboutIn(Opened(type, S), t) = {}
<1> DEFINE T == {Break(type, x) : x \in S}
           f == Opened(type, S)
           g == [x \in S |-> Break(type, x)]
<1>1. g \in Surjection(S, T)
  BY DEF Surjection
<1>2. IsFiniteSet(T)
  BY <1>1, FS_Surjection
<1>3. f \in Seq(T) /\ {f[k] : k \in DOMAIN f} = T
  BY <1>2, SetToSeqRange DEF Opened
<1>4. ASSUME NEW x \in S
      PROVE  /\ Break(type, x) \in BreakRows /\ Break(type, x).type = type
             /\ Break(type, x).about = x /\ Break(type, x).batch = Len(batches) + 1
             /\ Break(type, x).by = None
  <2>1. Len(batches) + 1 \in Nat
    OBVIOUS
  <2> QED BY <2>1 DEF Break, BreakRows
<1> HIDE DEF f
<1>5. \A k \in DOMAIN f : \E x \in S : f[k] = Break(type, x)
  BY <1>3
<1>6. \A x \in S : \E k \in DOMAIN f : f[k] = Break(type, x)
  BY <1>3
<1>7. f \in Seq(BreakRows)
  <2>1. T \subseteq BreakRows
    BY <1>4
  <2> QED BY <1>3, <2>1
<1>8. Fresh(f)
  BY <1>4, <1>5 DEF Fresh
<1>9. AboutIn(f, type) = S
  BY <1>4, <1>5, <1>6 DEF AboutIn
<1>10. \A t \in Kinds : t # type => AboutIn(f, t) = {}
  BY <1>4, <1>5 DEF AboutIn
<1> QED BY <1>7, <1>8, <1>9, <1>10 DEF f

\* What two sequences of breaks together are about.
LEMMA AboutBoth ==
  ASSUME NEW f \in Seq(BreakRows), NEW g \in Seq(BreakRows)
  PROVE  /\ f \o g \in Seq(BreakRows)
         /\ \A t \in Kinds : AboutIn(f \o g, t) = AboutIn(f, t) \cup AboutIn(g, t)
         /\ Fresh(f) /\ Fresh(g) => Fresh(f \o g)
<1> DEFINE h == f \o g
<1>1. h \in Seq(BreakRows) /\ Len(h) = Len(f) + Len(g)
  OBVIOUS
<1>2. \A k \in DOMAIN h : \/ k \in DOMAIN f /\ h[k] = f[k]
                          \/ k - Len(f) \in DOMAIN g /\ h[k] = g[k - Len(f)]
  OBVIOUS
<1>3. \A k \in DOMAIN f : k \in DOMAIN h /\ h[k] = f[k]
  OBVIOUS
<1>4. \A k \in DOMAIN g : k + Len(f) \in DOMAIN h /\ h[k + Len(f)] = g[k]
  OBVIOUS
<1> HIDE DEF h
<1>5. ASSUME NEW t \in Kinds PROVE AboutIn(h, t) = AboutIn(f, t) \cup AboutIn(g, t)
  <2>1. AboutIn(h, t) \subseteq AboutIn(f, t) \cup AboutIn(g, t)
    BY <1>2 DEF AboutIn
  <2>2. AboutIn(f, t) \subseteq AboutIn(h, t)
    BY <1>3 DEF AboutIn
  <2>3. AboutIn(g, t) \subseteq AboutIn(h, t)
    BY <1>4 DEF AboutIn
  <2> QED BY <2>1, <2>2, <2>3
<1>6. Fresh(f) /\ Fresh(g) => Fresh(h)
  BY <1>2 DEF Fresh
<1> QED BY <1>1, <1>5, <1>6 DEF h

-----------------------------------------------------------------------------
\* Runs and the books they read

\* A run's phase says which columns it has.
LEMMA RunAt ==
  ASSUME NEW p \in Processes, RunOK(p)
  PROVE  /\ runner[p].at \in {"exited", "performed", "raised"} \cup Working
         /\ runner[p].at # "exited" => runner[p].date \in MarketDates
         /\ runner[p].at \in Working => Shape(p) /\ ReadAgrees(p) /\ FoundSo(p)
         /\ runner[p].at = "performed" => Committed(p)
<1>1. CASE runner[p] = Exited
  BY <1>1 DEF Exited, Working
<1>2. CASE /\ runner[p].at \in {"performed", "raised"} /\ runner[p].date \in MarketDates
           /\ Committed(p)
  BY <1>2 DEF Working
<1>3. CASE Shape(p) /\ ReadAgrees(p) /\ FoundSo(p)
  <2>1. runner[p].at \in Working /\ runner[p].date \in MarketDates
    BY <1>3 DEF Shape
  <2> QED BY <1>3, <2>1 DEF Working
<1> QED BY <1>1, <1>2, <1>3 DEF RunOK

\* A run is not affected by a step that leaves it, the books and the imports alone.
LEMMA SameRun ==
  ASSUME NEW p \in Processes, RunOK(p), UNCHANGED <<posted, unsettled, batches>>,
         runner'[p] = runner[p]
  PROVE  RunOK(p)'
<1>1. Shape(p) => Shape(p)'
  BY DEF Shape
<1>2. ReadAgrees(p) => ReadAgrees(p)'
  BY DEF ReadAgrees, read_internal_positions, settled_cash, read_internal_transactions
<1>3. FoundSo(p) => FoundSo(p)'
  BY DEF FoundSo, Fresh
<1>4. Committed(p) => Committed(p)'
  BY DEF Committed
<1> QED BY <1>1, <1>2, <1>3, <1>4 DEF RunOK

\* A step of one run, which ends in a state RunOK allows.
LEMMA RunStep ==
  ASSUME ReconInv, NEW p \in Processes, NEW next, runner' = [runner EXCEPT ![p] = next], RunOK(p)',
         UNCHANGED <<posted, unsettled, late, batches, breaks, audit, resolver>>,
         next.at = "exited" \/ runner[p].at # "exited" \/ LockFree,
         jobRun' \in [Periods -> {"none", "completed", "failed"}], CompletedWasPerformed'
  PROVE  ReconInv'
<1>1. /\ runner'[p] = next /\ \A q \in Processes : q # p => runner'[q] = runner[q]
      /\ runner' = [q \in Processes |-> runner'[q]]
  BY DEF ReconInv, Types
<1>2. Types'
  BY <1>1 DEF ReconInv, Types
<1>3. \A q \in Processes : RunOK(q)'
  BY <1>1, SameRun DEF ReconInv
<1>4. OneRuns'
  BY <1>1 DEF ReconInv, OneRuns, LockFree
<1>5. AuditAgrees' /\ Loaded' /\ BatchesExist'
  BY DEF ReconInv, AuditAgrees, Loaded, BatchesExist
<1>6. BreaksAreDifferences'
  BY DEF ReconInv, BreaksAreDifferences, About
<1> QED BY <1>2, <1>3, <1>4, <1>5, <1>6 DEF ReconInv

\* The same, when the job_run rows stay as they are.
LEMMA QuietStep ==
  ASSUME ReconInv, NEW p \in Processes, NEW next, runner' = [runner EXCEPT ![p] = next], RunOK(p)',
         UNCHANGED <<posted, unsettled, late, batches, breaks, audit, resolver, jobRun>>,
         next.at = "exited" \/ runner[p].at # "exited" \/ LockFree
  PROVE  ReconInv'
<1>1. jobRun' \in [Periods -> {"none", "completed", "failed"}]
  BY DEF ReconInv, Types
<1>2. CompletedWasPerformed'
  BY DEF ReconInv, CompletedWasPerformed
<1> QED BY <1>1, <1>2, RunStep

\* The books move for one customer: every run under way is told, and what it
\* read of the others still stands.
LEMMA TouchedRuns ==
  ASSUME ReconInv, NEW customer \in Customers, NEW entries \in SUBSET Entries,
         Touch(customer, entries), UNCHANGED batches,
         posted \subseteq posted', posted' \subseteq posted \cup entries,
         \A c \in Customers \ {customer}, d \in MarketDates :
            {e \in posted' : e.customer = c /\ e.date <= d}
              = {e \in posted : e.customer = c /\ e.date <= d},
         \A c \in Customers \ {customer} :
            {e \in posted' \ unsettled' : e.customer = c} = {e \in posted \ unsettled : e.customer = c},
         NEW p \in Processes
  PROVE  RunOK(p)' /\ runner'[p].at = runner[p].at
<1>0. RunOK(p)
  BY DEF ReconInv
<1>1. CASE runner[p].at \notin Working
  <2>1. runner[p].at \in {"exited", "performed", "raised"}
    BY <1>0, <1>1, RunAt
  <2>2. runner'[p] = runner[p]
    BY <2>1 DEF Touch
  <2>3. ~Shape(p) /\ (Committed(p) => Committed(p)')
    BY <1>1, <2>2 DEF Shape, Committed
  <2> QED BY <1>0, <2>2, <2>3 DEF RunOK
<1>2. CASE runner[p].at \in Working
  <2> DEFINE r == runner[p]
  <2>1. Shape(p) /\ ReadAgrees(p) /\ FoundSo(p)
    BY <1>0, <1>2, RunAt
  <2>2. runner'[p] = [r EXCEPT !.touched = r.touched \cup {customer}, !.arrived = r.arrived \cup entries]
    BY <1>2 DEF Touch, Working
  <2>3. DOMAIN r = Columns
    BY <2>1 DEF Shape
  <2>4. /\ runner'[p].at = r.at /\ runner'[p].date = r.date /\ runner'[p].positions = r.positions
        /\ runner'[p].injected = r.injected /\ runner'[p].touched = r.touched \cup {customer}
        /\ runner'[p].arrived = r.arrived \cup entries /\ runner'[p].cash = r.cash
        /\ runner'[p].ids = r.ids /\ runner'[p].late = r.late /\ runner'[p].found = r.found
        /\ DOMAIN runner'[p] = Columns
    BY <2>2, <2>3 DEF Columns
  <2>5. Shape(p)'
    BY <2>1, <2>4 DEF Shape
  <2>6. ReadAgrees(p)'
    <3>1. \A c \in Customers \ runner'[p].touched :
            c \in Customers \ r.touched /\ c \in Customers \ {customer}
      BY <2>4
    <3>2. r.at \in PositionsOpen =>
            \A c \in Customers \ runner'[p].touched :
              c \in r.injected <=> r.positions[c] # Units({e \in posted' : e.customer = c /\ e.date <= r.date})
      BY <2>1, <3>1 DEF ReadAgrees, read_internal_positions, Shape
    <3>3. r.at \in CashOpen =>
            \A c \in Customers \ runner'[p].touched :
              r.cash[c] = Cash({e \in posted' \ unsettled' : e.customer = c})
      BY <2>1, <3>1 DEF ReadAgrees, settled_cash
    <3>4. r.at \in IdsOpen =>
            /\ r.late \subseteq r.ids
            /\ r.ids \subseteq {e \in posted' : e.date = r.date /\ e.observable} \cup r.late
            /\ {e \in posted' : e.date = r.date /\ e.observable} \ runner'[p].arrived \subseteq r.ids
      BY <2>1, <2>4 DEF ReadAgrees, read_internal_transactions
    <3> HIDE DEF r
    <3> QED BY <2>4, <3>2, <3>3, <3>4
            DEF ReadAgrees, read_internal_positions, settled_cash, read_internal_transactions
  <2>7. FoundSo(p)'
    BY <2>1, <2>4 DEF FoundSo, Fresh
  <2> QED BY <2>4, <2>5, <2>6, <2>7 DEF RunOK
<1> QED BY <1>1, <1>2

-----------------------------------------------------------------------------
\* Preservation, action by action

\* A step that moves the books, and touches the runs that have read them.
LEMMA BooksMove ==
  ASSUME ReconInv, NEW customer \in Customers, NEW entries \in SUBSET Entries,
         Touch(customer, entries),
         UNCHANGED <<batches, breaks, audit, resolver, jobRun, late>>,
         posted \subseteq posted', posted' \subseteq posted \cup entries, IsFiniteSet(entries),
         \A c \in Customers \ {customer}, d \in MarketDates :
            {e \in posted' : e.customer = c /\ e.date <= d}
              = {e \in posted : e.customer = c /\ e.date <= d},
         \A c \in Customers \ {customer} :
            {e \in posted' \ unsettled' : e.customer = c} = {e \in posted \ unsettled : e.customer = c}
  PROVE  ReconInv'
<1>1. \A p \in Processes : RunOK(p)' /\ runner'[p].at = runner[p].at
  BY TouchedRuns
<1>2. Types'
  <2>1. IsFiniteSet(posted \cup entries)
    BY FS_Union DEF ReconInv, Types
  <2>2. IsFiniteSet(posted')
    BY <2>1, FS_Subset
  <2>3. runner' = [p \in Processes |-> runner'[p]]
    BY DEF Touch
  <2> QED BY <2>2, <2>3 DEF ReconInv, Types
<1>3. OneRuns'
  BY <1>1 DEF ReconInv, OneRuns
<1>4. AuditAgrees' /\ Loaded' /\ BatchesExist'
  BY DEF ReconInv, AuditAgrees, Loaded, BatchesExist
<1>5. BreaksAreDifferences' /\ CompletedWasPerformed'
  BY DEF ReconInv, BreaksAreDifferences, About, CompletedWasPerformed
<1> QED BY <1>1, <1>2, <1>3, <1>4, <1>5 DEF ReconInv

\* Entries are posted and settle while a run reads.
LEMMA BookSteps ==
  ASSUME ReconInv, NEW e \in Entries, Post(e) \/ Confirm(e)
  PROVE  ReconInv'
<1>1. e.customer \in Customers
  BY ReconciliationAssumption
<1>2. CASE Post(e)
  <2>1. /\ Touch(e.customer, {e}) /\ posted' = posted \cup {e}
        /\ UNCHANGED <<batches, breaks, audit, resolver, jobRun, late>>
        /\ unsettled' = IF e.settles THEN unsettled \cup {e} ELSE unsettled
    BY <1>2 DEF Post, simVars, breakVars
  <2>2. \A c \in Customers \ {e.customer}, d \in MarketDates :
            {x \in posted' : x.customer = c /\ x.date <= d}
              = {x \in posted : x.customer = c /\ x.date <= d}
    BY <2>1
  <2>3. \A c \in Customers \ {e.customer} :
            {x \in posted' \ unsettled' : x.customer = c} = {x \in posted \ unsettled : x.customer = c}
    BY <2>1
  <2>4. IsFiniteSet({e})
    BY FS_Singleton
  <2> QED BY <1>1, <2>1, <2>2, <2>3, <2>4, BooksMove
<1>3. CASE Confirm(e)
  <2>1. /\ Touch(e.customer, {}) /\ posted' = posted
        /\ UNCHANGED <<batches, breaks, audit, resolver, jobRun, late>>
        /\ unsettled' = unsettled \ {e}
    BY <1>3 DEF Confirm, simVars, breakVars
  <2>2. \A c \in Customers \ {e.customer} :
            {x \in posted' \ unsettled' : x.customer = c} = {x \in posted \ unsettled : x.customer = c}
    BY <2>1
  <2>3. IsFiniteSet({})
    BY FS_EmptySet
  <2> QED BY <1>1, <2>1, <2>2, <2>3, BooksMove
<1> QED BY <1>2, <1>3

\* What the simulator is told to report changes no run and no record.
LEMMA InjectionsKeep ==
  ASSUME ReconInv, UNCHANGED <<jobVars, bookVars, breakVars>>,
         late' \subseteq Dividends, IsFiniteSet(late')
  PROVE  ReconInv'
<1>1. UNCHANGED <<runner, jobRun, posted, unsettled, batches, breaks, audit, resolver>>
  BY DEF jobVars, bookVars, breakVars
<1>2. Types'
  BY <1>1 DEF ReconInv, Types
<1>3. \A p \in Processes : RunOK(p)'
  BY <1>1, SameRun DEF ReconInv
<1>4. OneRuns' /\ AuditAgrees' /\ Loaded' /\ BatchesExist'
  BY <1>1 DEF ReconInv, OneRuns, AuditAgrees, Loaded, BatchesExist
<1>5. BreaksAreDifferences' /\ CompletedWasPerformed'
  BY <1>1 DEF ReconInv, BreaksAreDifferences, About, CompletedWasPerformed
<1> QED BY <1>2, <1>3, <1>4, <1>5 DEF ReconInv

\* The simulator's injections.
LEMMA InjectionSteps ==
  ASSUME ReconInv, UNCHANGED <<jobVars, bookVars, breakVars>>,
         \/ late' = late
         \/ late' = {}
         \/ \E d \in Dividends : late' = late \cup {d}
  PROVE  ReconInv'
<1>1. late \subseteq Dividends /\ IsFiniteSet(late)
  BY DEF ReconInv, Types
<1>2. late' \subseteq Dividends /\ IsFiniteSet(late')
  <2>1. ASSUME NEW d \in Dividends PROVE IsFiniteSet(late \cup {d})
    BY <1>1, FS_AddElement
  <2> QED BY <1>1, <2>1, FS_EmptySet
<1> QED BY <1>2, InjectionsKeep

\* fetch_files reads positions, then cash, then transactions.
LEMMA FetchPositionsKeeps ==
  ASSUME ReconInv, NEW p \in Processes, FetchPositions(p),
         UNCHANGED <<posted, unsettled, late, batches, breaks, audit, resolver>>
  PROVE  ReconInv'
<1>1. PICK d \in MarketDates :
        StartJob(p, [at |-> "cash_due", date |-> d, positions |-> Generated(d),
                     injected |-> {c \in Customers :
                                     Generated(d)[c] # read_internal_positions(d)[c]},
                     touched |-> {}, arrived |-> {},
                     cash |-> None, ids |-> {}, late |-> {}, found |-> <<>>])
  BY DEF FetchPositions
<1> DEFINE I == {c \in Customers : Generated(d)[c] # read_internal_positions(d)[c]}
           r == [at |-> "cash_due", date |-> d, positions |-> Generated(d), injected |-> I,
                 touched |-> {}, arrived |-> {},
                 cash |-> None, ids |-> {}, late |-> {}, found |-> <<>>]
<1>2. LockFree /\ runner' = [runner EXCEPT ![p] = r] /\ jobRun' = jobRun
  BY <1>1 DEF StartJob, Become
<1>3. runner'[p] = r
  BY <1>2 DEF ReconInv, Types
<1>4. Shape(p)'
  <2>1. IsFiniteSet({}) /\ <<>> \in Seq(BreakRows)
    BY FS_EmptySet
  <2>2. I \subseteq Customers
    OBVIOUS
  <2> HIDE DEF I
  <2> QED BY <1>3, <2>1, <2>2 DEF Shape, Working, Columns
<1>5. ReadAgrees(p)'
  <2>1. /\ runner'[p].at = "cash_due" /\ runner'[p].date = d
        /\ runner'[p].positions = Generated(d) /\ runner'[p].injected = I
    BY <1>3
  <2>2. \A c \in Customers : c \in I <=>
          Generated(d)[c] # Units({e \in posted' : e.customer = c /\ e.date <= d})
    BY DEF read_internal_positions
  <2>3. /\ "cash_due" \notin CashOpen /\ "cash_due" \notin IdsOpen
    BY DEF CashOpen, IdsOpen
  <2> HIDE DEF I
  <2> QED BY <2>1, <2>2, <2>3 DEF ReadAgrees, read_internal_positions
<1>6. FoundSo(p)'
  <2>1. /\ runner'[p].at = "cash_due" /\ runner'[p].found = <<>>
    BY <1>3
  <2>2. \A t \in Kinds : AboutIn(<<>>, t) = {}
    BY DEF AboutIn
  <2>3. "cash_due" \in PositionsOpen /\ "cash_due" # "matched"
    BY DEF PositionsOpen
  <2> QED BY <2>1, <2>2, <2>3 DEF FoundSo, Fresh, Kinds
<1>7. RunOK(p)'
  BY <1>4, <1>5, <1>6 DEF RunOK
<1> HIDE DEF r
<1> QED BY <1>2, <1>7, QuietStep

\* The second read: the settled cash of every customer.
LEMMA FetchCashKeeps ==
  ASSUME ReconInv, NEW p \in Processes, FetchCash(p),
         UNCHANGED <<posted, unsettled, late, batches, breaks, audit, resolver>>
  PROVE  ReconInv'
<1> DEFINE r == runner[p]
           next == [r EXCEPT !.at = "transactions_due", !.cash = settled_cash]
<1>1. r.at = "cash_due" /\ runner' = [runner EXCEPT ![p] = next] /\ jobRun' = jobRun
  BY DEF FetchCash, Become
<1>2. Shape(p) /\ ReadAgrees(p) /\ FoundSo(p)
  BY <1>1, RunAt DEF ReconInv, Working
<1>3. DOMAIN r = Columns
  BY <1>2 DEF Shape
<1>4. runner'[p] = next
  BY <1>1 DEF ReconInv, Types
<1>5. /\ runner'[p].at = "transactions_due" /\ runner'[p].date = r.date
      /\ runner'[p].positions = r.positions /\ runner'[p].injected = r.injected
      /\ runner'[p].touched = r.touched /\ runner'[p].arrived = r.arrived
      /\ runner'[p].cash = settled_cash /\ runner'[p].ids = r.ids /\ runner'[p].late = r.late
      /\ runner'[p].found = r.found /\ DOMAIN runner'[p] = Columns
  BY <1>3, <1>4 DEF Columns
<1>6. Shape(p)'
  BY <1>2, <1>5 DEF Shape, Working
<1>7. ReadAgrees(p)'
  <2>1. \A c \in Customers \ r.touched : c \in r.injected <=>
          r.positions[c] # Units({e \in posted' : e.customer = c /\ e.date <= r.date})
    BY <1>1, <1>2 DEF ReadAgrees, read_internal_positions, PositionsOpen
  <2>2. \A c \in Customers : settled_cash[c] = Cash({e \in posted' \ unsettled' : e.customer = c})
    BY DEF settled_cash
  <2>3. "transactions_due" \notin IdsOpen
    BY DEF IdsOpen
  <2> HIDE DEF r
  <2> QED BY <1>5, <2>1, <2>2, <2>3 DEF ReadAgrees, read_internal_positions, settled_cash
<1>8. FoundSo(p)'
  BY <1>1, <1>2, <1>5 DEF FoundSo, Fresh, PositionsOpen
<1>9. RunOK(p)'
  BY <1>6, <1>7, <1>8 DEF RunOK
<1> HIDE DEF next
<1> QED BY <1>1, <1>9, QuietStep

\* The third: the day's transactions, and the dividends queued behind them.
LEMMA FetchTransactionsKeeps ==
  ASSUME ReconInv, NEW p \in Processes, FetchTransactions(p),
         UNCHANGED <<posted, unsettled, late, batches, breaks, audit, resolver>>
  PROVE  ReconInv'
<1> DEFINE r == runner[p]
           ids == read_internal_transactions(r.date) \cup late
           next == [r EXCEPT !.at = "fetched", !.late = late, !.ids = ids]
<1>1. r.at = "transactions_due" /\ runner' = [runner EXCEPT ![p] = next] /\ jobRun' = jobRun
  BY DEF FetchTransactions, Become
<1>2. Shape(p) /\ ReadAgrees(p) /\ FoundSo(p)
  BY <1>1, RunAt DEF ReconInv, Working
<1>3. DOMAIN r = Columns
  BY <1>2 DEF Shape
<1>4. runner'[p] = next
  BY <1>1 DEF ReconInv, Types
<1>5. /\ runner'[p].at = "fetched" /\ runner'[p].date = r.date
      /\ runner'[p].positions = r.positions /\ runner'[p].injected = r.injected
      /\ runner'[p].touched = r.touched /\ runner'[p].arrived = r.arrived
      /\ runner'[p].cash = r.cash /\ runner'[p].ids = ids /\ runner'[p].late = late
      /\ runner'[p].found = r.found /\ DOMAIN runner'[p] = Columns
  BY <1>3, <1>4 DEF Columns
<1>6. late \subseteq Dividends /\ ids \subseteq Entries \cup Dividends /\ IsFiniteSet(ids)
  <2>1. /\ posted \subseteq Entries /\ IsFiniteSet(posted) /\ late \subseteq Dividends
        /\ IsFiniteSet(late)
    BY DEF ReconInv, Types
  <2>2. read_internal_transactions(r.date) \in SUBSET posted
    BY DEF read_internal_transactions
  <2>3. IsFiniteSet(read_internal_transactions(r.date))
    BY <2>1, <2>2, FS_Subset
  <2> QED BY <2>1, <2>2, <2>3, FS_Union
<1>7. Shape(p)'
  BY <1>2, <1>5, <1>6 DEF Shape, Working
<1>8. ReadAgrees(p)'
  <2>1. \A c \in Customers \ r.touched :
          /\ c \in r.injected <=>
               r.positions[c] # Units({e \in posted' : e.customer = c /\ e.date <= r.date})
          /\ r.cash[c] = Cash({e \in posted' \ unsettled' : e.customer = c})
    BY <1>1, <1>2 DEF ReadAgrees, read_internal_positions, settled_cash, PositionsOpen, CashOpen
  <2>2. ids = {e \in posted' : e.date = r.date /\ e.observable} \cup late
    BY DEF read_internal_transactions
  <2>3. /\ late \subseteq ids /\ ids \subseteq {e \in posted' : e.date = r.date /\ e.observable} \cup late
        /\ {e \in posted' : e.date = r.date /\ e.observable} \ r.arrived \subseteq ids
    BY <2>2
  <2> HIDE DEF r, ids
  <2>4. \A c \in Customers \ runner'[p].touched :
          /\ c \in runner'[p].injected <=>
               runner'[p].positions[c]
                 # Units({e \in posted' : e.customer = c /\ e.date <= runner'[p].date})
          /\ runner'[p].cash[c] = Cash({e \in posted' \ unsettled' : e.customer = c})
    BY <1>5, <2>1
  <2>5. LET internal == {e \in posted' : e.date = runner'[p].date /\ e.observable}
        IN  /\ runner'[p].late \subseteq runner'[p].ids
            /\ runner'[p].ids \subseteq internal \cup runner'[p].late
            /\ internal \ runner'[p].arrived \subseteq runner'[p].ids
    BY <1>5, <2>3
  <2> QED BY <2>4, <2>5
          DEF ReadAgrees, read_internal_positions, settled_cash, read_internal_transactions
<1>9. FoundSo(p)'
  BY <1>1, <1>2, <1>5 DEF FoundSo, Fresh, PositionsOpen
<1>10. RunOK(p)'
  BY <1>7, <1>8, <1>9 DEF RunOK
<1> HIDE DEF next
<1> QED BY <1>1, <1>10, QuietStep

\* A comparison adds its breaks to what the run has found.
LEMMA FoundStep ==
  ASSUME ReconInv, NEW p \in Processes, runner[p].at \in Working \ {"matched"},
         NEW at \in Working \ PositionsOpen,
         at \in CashOpen => runner[p].at \in CashOpen,
         at \in IdsOpen => runner[p].at \in IdsOpen,
         NEW opened \in Seq(BreakRows), Fresh(opened), Found(p, at, opened),
         UNCHANGED <<posted, unsettled, late, batches, breaks, audit, resolver>>,
         (AboutIn(runner[p].found, "position_mismatch") \cup AboutIn(opened, "position_mismatch"))
            \ runner[p].touched = runner[p].injected \ runner[p].touched,
         AboutIn(opened, "cash_mismatch") \subseteq runner[p].touched,
         AboutIn(opened, "unmatched_custodian_transaction")
            = IF at = "matched" THEN runner[p].late ELSE {},
         AboutIn(opened, "unmatched_internal_transaction") \subseteq runner[p].arrived
  PROVE  ReconInv'
<1> DEFINE r == runner[p]
           found == r.found \o opened
           next == [r EXCEPT !.at = at, !.found = found]
<1>1. runner' = [runner EXCEPT ![p] = next] /\ jobRun' = jobRun
  BY DEF Found, Become
<1>2. Shape(p) /\ ReadAgrees(p) /\ FoundSo(p)
  BY RunAt DEF ReconInv
<1>3. r.found \in Seq(BreakRows) /\ Fresh(r.found) /\ DOMAIN r = Columns /\ r.at # "exited"
  BY <1>2 DEF Shape, FoundSo, Working
<1>4. /\ found \in Seq(BreakRows) /\ Fresh(found)
      /\ \A t \in Kinds : AboutIn(found, t) = AboutIn(r.found, t) \cup AboutIn(opened, t)
  BY <1>3, AboutBoth
<1> HIDE DEF found
<1>5. runner'[p] = next
  BY <1>1 DEF ReconInv, Types
<1>6. /\ runner'[p].at = at /\ runner'[p].date = r.date
      /\ runner'[p].positions = r.positions /\ runner'[p].injected = r.injected
      /\ runner'[p].touched = r.touched /\ runner'[p].arrived = r.arrived
      /\ runner'[p].cash = r.cash /\ runner'[p].ids = r.ids /\ runner'[p].late = r.late
      /\ runner'[p].found = found /\ DOMAIN runner'[p] = Columns
  BY <1>3, <1>5 DEF Columns
<1>7. Shape(p)'
  BY <1>2, <1>4, <1>6 DEF Shape
<1>8. ReadAgrees(p)'
  BY <1>2, <1>6 DEF ReadAgrees, read_internal_positions, settled_cash, read_internal_transactions
<1>9. FoundSo(p)'
  <2>1. /\ AboutIn(r.found, "cash_mismatch") \subseteq r.touched
        /\ AboutIn(r.found, "unmatched_custodian_transaction") = {}
        /\ AboutIn(r.found, "unmatched_internal_transaction") \subseteq r.arrived
    BY <1>2 DEF FoundSo
  <2>2. /\ AboutIn(found, "position_mismatch") \ r.touched = r.injected \ r.touched
        /\ AboutIn(found, "cash_mismatch") \subseteq r.touched
        /\ AboutIn(found, "unmatched_custodian_transaction") = IF at = "matched" THEN r.late ELSE {}
        /\ AboutIn(found, "unmatched_internal_transaction") \subseteq r.arrived
    BY <1>4, <2>1 DEF Kinds
  <2>3. \A k \in DOMAIN found : found[k].batch = Len(batches') + 1 /\ found[k].by = None
    BY <1>4 DEF Fresh
  <2> HIDE DEF r
  <2> QED BY <1>6, <2>2, <2>3 DEF FoundSo, Fresh
<1>10. RunOK(p)'
  BY <1>7, <1>8, <1>9 DEF RunOK
<1> HIDE DEF next
<1> QED BY <1>1, <1>3, <1>10, QuietStep

\* Positions: a break for every customer whose quantities differ.
LEMMA MatchPositionsKeeps ==
  ASSUME ReconInv, NEW p \in Processes, MatchPositions(p),
         UNCHANGED <<posted, unsettled, late, batches, breaks, audit, resolver>>
  PROVE  ReconInv'
<1> DEFINE r == runner[p]
           D == Differences(read_internal_positions(r.date), r.positions)
           opened == Opened("position_mismatch", D)
<1>1. r.at = "fetched" /\ Found(p, "positions_matched", opened)
  BY DEF MatchPositions
<1>2. Shape(p) /\ ReadAgrees(p) /\ FoundSo(p)
  BY <1>1, RunAt DEF ReconInv, Working
<1>3. D \in SUBSET Subjects /\ IsFiniteSet(D)
  <2>1. D \in SUBSET Customers
    BY DEF Differences
  <2>2. IsFiniteSet(Customers)
    BY ReconciliationAssumption
  <2> QED BY <2>1, <2>2, FS_Subset DEF Subjects
<1>4. D \ r.touched = r.injected \ r.touched
  <2>1. \A c \in Customers \ r.touched : c \in r.injected <=> c \in D
    BY <1>1, <1>2 DEF ReadAgrees, PositionsOpen, Differences
  <2>2. D \subseteq Customers /\ r.injected \subseteq Customers
    BY <1>2 DEF Differences, Shape
  <2> HIDE DEF D
  <2> QED BY <2>1, <2>2
<1> HIDE DEF D
<1>5. batches \in Seq(Imports)
  BY DEF ReconInv, Types
<1>6. /\ opened \in Seq(BreakRows) /\ Fresh(opened) /\ AboutIn(opened, "position_mismatch") = D
      /\ \A t \in Kinds : t # "position_mismatch" => AboutIn(opened, t) = {}
  BY <1>3, <1>5, OpenedBreaks DEF Kinds
<1>7. AboutIn(r.found, "position_mismatch") = {}
  BY <1>1, <1>2 DEF FoundSo, PositionsOpen
<1>8. /\ r.at \in Working \ {"matched"} /\ "positions_matched" \in Working \ PositionsOpen
      /\ r.at \in CashOpen /\ r.at \in IdsOpen
  BY <1>1 DEF Working, PositionsOpen, CashOpen, IdsOpen
<1> HIDE DEF opened
<1>9. /\ AboutIn(opened, "cash_mismatch") = {}
      /\ AboutIn(opened, "unmatched_custodian_transaction") = {}
      /\ AboutIn(opened, "unmatched_internal_transaction") = {}
  BY <1>6 DEF Kinds
<1> QED BY <1>1, <1>4, <1>6, <1>7, <1>8, <1>9, FoundStep

\* Cash: a difference is a customer whose books moved behind the file.
LEMMA MatchCashKeeps ==
  ASSUME ReconInv, NEW p \in Processes, MatchCash(p),
         UNCHANGED <<posted, unsettled, late, batches, breaks, audit, resolver>>
  PROVE  ReconInv'
<1> DEFINE r == runner[p]
           D == Differences(settled_cash, r.cash)
           opened == Opened("cash_mismatch", D)
<1>1. r.at = "positions_matched" /\ Found(p, "cash_matched", opened)
  BY DEF MatchCash
<1>2. Shape(p) /\ ReadAgrees(p) /\ FoundSo(p)
  BY <1>1, RunAt DEF ReconInv, Working
<1>3. D \in SUBSET Subjects /\ IsFiniteSet(D)
  <2>1. D \in SUBSET Customers
    BY DEF Differences
  <2>2. IsFiniteSet(Customers)
    BY ReconciliationAssumption
  <2> QED BY <2>1, <2>2, FS_Subset DEF Subjects
<1>4. D \subseteq r.touched
  BY <1>1, <1>2 DEF ReadAgrees, CashOpen, Differences
<1> HIDE DEF D
<1>5. batches \in Seq(Imports)
  BY DEF ReconInv, Types
<1>6. /\ opened \in Seq(BreakRows) /\ Fresh(opened) /\ AboutIn(opened, "cash_mismatch") = D
      /\ \A t \in Kinds : t # "cash_mismatch" => AboutIn(opened, t) = {}
  BY <1>3, <1>5, OpenedBreaks DEF Kinds
<1>7. AboutIn(r.found, "position_mismatch") \ r.touched = r.injected \ r.touched
  BY <1>1, <1>2 DEF FoundSo, PositionsOpen
<1>8. /\ r.at \in Working \ {"matched"} /\ "cash_matched" \in Working \ PositionsOpen
      /\ "cash_matched" \notin CashOpen /\ r.at \in IdsOpen
  BY <1>1 DEF Working, PositionsOpen, CashOpen, IdsOpen
<1> HIDE DEF opened
<1>9. /\ AboutIn(opened, "position_mismatch") = {}
      /\ AboutIn(opened, "unmatched_custodian_transaction") = {}
      /\ AboutIn(opened, "unmatched_internal_transaction") = {}
  BY <1>6 DEF Kinds
<1> QED BY <1>1, <1>4, <1>6, <1>7, <1>8, <1>9, FoundStep

\* Transactions: what only the custodian has is what was queued late, and what
\* only the books have arrived behind the file.
LEMMA MatchTransactionsKeeps ==
  ASSUME ReconInv, NEW p \in Processes, MatchTransactions(p),
         UNCHANGED <<posted, unsettled, late, batches, breaks, audit, resolver>>
  PROVE  ReconInv'
<1> DEFINE r == runner[p]
           internal == read_internal_transactions(r.date)
           custodian == Opened("unmatched_custodian_transaction", r.ids \ internal)
           books == Opened("unmatched_internal_transaction", internal \ r.ids)
           opened == custodian \o books
<1>1. r.at = "cash_matched" /\ Found(p, "matched", opened)
  BY DEF MatchTransactions
<1>2. Shape(p) /\ ReadAgrees(p) /\ FoundSo(p)
  BY <1>1, RunAt DEF ReconInv, Working
<1>3. internal \subseteq Entries /\ IsFiniteSet(internal)
  <2>1. internal \in SUBSET posted
    BY DEF read_internal_transactions
  <2> QED BY <2>1, FS_Subset DEF ReconInv, Types
<1>4. /\ r.late \subseteq r.ids /\ r.ids \subseteq internal \cup r.late
      /\ internal \ r.arrived \subseteq r.ids
  BY <1>1, <1>2 DEF ReadAgrees, IdsOpen
<1> HIDE DEF internal
<1>5. r.ids \ internal = r.late /\ internal \ r.ids \subseteq r.arrived
  <2>1. r.late \subseteq Dividends /\ Dividends \cap Entries = {}
    BY <1>2, ReconciliationAssumption DEF Shape
  <2>2. r.late \cap internal = {}
    BY <1>3, <2>1
  <2>3. r.ids \ internal \subseteq r.late /\ r.late \subseteq r.ids \ internal
    BY <1>4, <2>2
  <2>4. internal \ r.ids \subseteq r.arrived
    BY <1>4
  <2> QED BY <2>3, <2>4
<1>6. /\ r.ids \ internal \in SUBSET Subjects /\ IsFiniteSet(r.ids \ internal)
      /\ internal \ r.ids \in SUBSET Subjects /\ IsFiniteSet(internal \ r.ids)
  <2>1. r.ids \subseteq Entries \cup Dividends /\ IsFiniteSet(r.ids)
    BY <1>2 DEF Shape
  <2>2. IsFiniteSet(r.ids \ internal) /\ IsFiniteSet(internal \ r.ids)
    BY <1>3, <2>1, FS_Difference
  <2> QED BY <1>3, <2>1, <2>2 DEF Subjects
<1>7. batches \in Seq(Imports)
  BY DEF ReconInv, Types
<1>8. /\ custodian \in Seq(BreakRows) /\ Fresh(custodian)
      /\ AboutIn(custodian, "unmatched_custodian_transaction") = r.late
      /\ \A t \in Kinds : t # "unmatched_custodian_transaction" => AboutIn(custodian, t) = {}
  BY <1>5, <1>6, <1>7, OpenedBreaks DEF Kinds
<1>9. /\ books \in Seq(BreakRows) /\ Fresh(books)
      /\ AboutIn(books, "unmatched_internal_transaction") \subseteq r.arrived
      /\ \A t \in Kinds : t # "unmatched_internal_transaction" => AboutIn(books, t) = {}
  <2>1. "unmatched_internal_transaction" \in Kinds
    BY DEF Kinds
  <2>2. /\ books \in Seq(BreakRows) /\ Fresh(books)
        /\ AboutIn(books, "unmatched_internal_transaction") = internal \ r.ids
        /\ \A t \in Kinds : t # "unmatched_internal_transaction" => AboutIn(books, t) = {}
    BY <1>6, <1>7, <2>1, OpenedBreaks
  <2> QED BY <1>5, <2>2
<1> HIDE DEF custodian, books
<1>10. /\ opened \in Seq(BreakRows) /\ Fresh(opened)
       /\ \A t \in Kinds : AboutIn(opened, t) = AboutIn(custodian, t) \cup AboutIn(books, t)
  BY <1>8, <1>9, AboutBoth
<1> HIDE DEF opened
<1>11. /\ AboutIn(opened, "position_mismatch") = {} /\ AboutIn(opened, "cash_mismatch") = {}
       /\ AboutIn(opened, "unmatched_custodian_transaction") = r.late
       /\ AboutIn(opened, "unmatched_internal_transaction") \subseteq r.arrived
  BY <1>8, <1>9, <1>10 DEF Kinds
<1>12. AboutIn(r.found, "position_mismatch") \ r.touched = r.injected \ r.touched
  BY <1>1, <1>2 DEF FoundSo, PositionsOpen
<1>13. /\ r.at \in Working \ {"matched"} /\ "matched" \in Working \ PositionsOpen
       /\ "matched" \notin CashOpen /\ "matched" \notin IdsOpen
  BY <1>1 DEF Working, PositionsOpen, CashOpen, IdsOpen
<1> QED BY <1>1, <1>10, <1>11, <1>12, <1>13, FoundStep

\* A holiday performs nothing, a failure raises, a killed process is gone.
LEMMA EndingSteps ==
  ASSUME ReconInv, NEW p \in Processes, Holiday(p) \/ PerformRaises(p) \/ Kill(p),
         UNCHANGED <<posted, unsettled, late, batches, breaks, audit, resolver>>
  PROVE  ReconInv'
<1>0. /\ runner = [q \in Processes |-> runner[q]] /\ RunOK(p)
      /\ runner[p].at # "exited" => runner[p].date \in MarketDates
  BY RunAt DEF ReconInv, Types
<1>1. CASE Kill(p)
  <2>1. runner' = [runner EXCEPT ![p] = Exited] /\ jobRun' = jobRun /\ Exited.at = "exited"
    BY <1>1 DEF Kill, Become, Exited
  <2>2. RunOK(p)'
    BY <1>0, <2>1 DEF RunOK
  <2> QED BY <2>1, <2>2, QuietStep
<1>2. CASE Holiday(p)
  <2> DEFINE next == [at |-> "performed", date |-> runner[p].date]
  <2>1. /\ runner' = [runner EXCEPT ![p] = next] /\ jobRun' = jobRun /\ runner[p].at = "fetched"
        /\ runner[p].date \in Holidays
    BY <1>2 DEF Holiday, Become
  <2>2. next.at = "performed" /\ next.date \in Holidays /\ next.date \in MarketDates
    BY <1>0, <2>1
  <2> HIDE DEF next
  <2>3. runner'[p] = next
    BY <1>0, <2>1
  <2>4. RunOK(p)'
    BY <2>2, <2>3 DEF RunOK, Committed
  <2> QED BY <2>1, <2>4, QuietStep
<1>3. CASE PerformRaises(p)
  <2> DEFINE next == [at |-> "raised", date |-> runner[p].date]
  <2>1. /\ runner' = [runner EXCEPT ![p] = next] /\ jobRun' = jobRun /\ runner[p].at # "exited"
    BY <1>3 DEF PerformRaises, Become
  <2>2. next.at = "raised" /\ next.date \in MarketDates
    BY <1>0, <2>1
  <2> HIDE DEF next
  <2>3. runner'[p] = next
    BY <1>0, <2>1
  <2>4. RunOK(p)'
    BY <2>2, <2>3 DEF RunOK, Committed
  <2> QED BY <2>1, <2>4, QuietStep
<1> QED BY <1>1, <1>2, <1>3

\* The job_run row is written after the work: a period has one trading day, and
\* a run that performed on it has committed its import.
LEMMA EndJobKeeps ==
  ASSUME ReconInv, NEW p \in Processes, EndJob(p),
         UNCHANGED <<posted, unsettled, late, batches, breaks, audit, resolver>>
  PROVE  ReconInv'
<1> DEFINE date == runner[p].date
           written == IF runner[p].at = "performed" THEN "completed" ELSE "failed"
<1>1. /\ runner[p].at \in {"performed", "raised"} /\ runner' = [runner EXCEPT ![p] = Exited]
      /\ jobRun' = [jobRun EXCEPT ![Period[date]] = IF @ = "none" THEN written ELSE @]
  BY DEF EndJob, RecordRun, InsertRow, Become
<1>2. /\ runner = [q \in Processes |-> runner[q]] /\ RunOK(p)
      /\ jobRun \in [Periods -> {"none", "completed", "failed"}]
  BY DEF ReconInv, Types
<1>3. date \in MarketDates /\ (runner[p].at = "performed" => Committed(p))
  BY <1>1, <1>2, RunAt
<1>4. Period[date] \in Periods
  BY <1>3 DEF Periods
<1>5. written \in {"completed", "failed"} /\ (written = "completed" => runner[p].at = "performed")
  OBVIOUS
<1> HIDE DEF written
<1>6. /\ jobRun' \in [Periods -> {"none", "completed", "failed"}]
      /\ \A m \in Periods : jobRun'[m] = "completed" =>
           \/ jobRun[m] = "completed"
           \/ m = Period[date] /\ written = "completed"
  BY <1>1, <1>2, <1>4, <1>5
<1>7. CompletedWasPerformed'
  <2> SUFFICES ASSUME NEW d \in MarketDates \ Holidays, jobRun'[Period[d]] = "completed"
               PROVE  \E i \in DOMAIN batches : Period[batches[i].date] = Period[d]
    BY DEF CompletedWasPerformed
  <2>1. CASE jobRun[Period[d]] = "completed"
    BY <2>1 DEF ReconInv, CompletedWasPerformed
  <2>2. CASE Period[d] = Period[date] /\ written = "completed"
    <3>1. d = date
      BY <1>3, <2>2, ReconciliationAssumption
    <3>2. \E i \in DOMAIN batches : batches[i].date = date
      BY <1>3, <1>5, <2>2, <3>1 DEF Committed
    <3> QED BY <3>1, <3>2
  <2>3. Period[d] \in Periods
    BY DEF Periods
  <2> QED BY <1>6, <2>1, <2>2, <2>3
<1>8. RunOK(p)' /\ Exited.at = "exited"
  BY <1>1, <1>2 DEF RunOK, Exited
<1> QED BY <1>1, <1>6, <1>7, <1>8, RunStep

\* The import's own commit: raw rows and breaks together.
LEMMA CommitBatchKeeps ==
  ASSUME ReconInv, NEW p \in Processes, CommitBatch(p), UNCHANGED <<posted, unsettled, late>>
  PROVE  ReconInv'
<1> DEFINE r == runner[p]
           n == Len(batches) + 1
           next == [at |-> "performed", date |-> r.date]
<1>1. /\ r.at = "matched" /\ batches' = Append(batches, Batch(r)) /\ breaks' = breaks \o r.found
      /\ runner' = [runner EXCEPT ![p] = next] /\ UNCHANGED <<jobRun, audit, resolver>>
  BY DEF CommitBatch, Become
<1>2. Shape(p) /\ FoundSo(p)
  BY <1>1, RunAt DEF ReconInv, Working
<1>3. /\ batches \in Seq(Imports) /\ breaks \in Seq(BreakRows) /\ Len(batches) \in Nat
      /\ runner = [q \in Processes |-> runner[q]]
  BY DEF ReconInv, Types
<1>4. /\ r.date \in MarketDates /\ r.found \in Seq(BreakRows)
      /\ \A k \in DOMAIN r.found : r.found[k].batch = n /\ r.found[k].by = None
  BY <1>2 DEF Shape, FoundSo, Fresh
<1>5. /\ Batch(r) \in Imports /\ Batch(r).date = r.date /\ Batch(r).injected = r.injected
      /\ Batch(r).late = r.late /\ Batch(r).touched = r.touched /\ Batch(r).arrived = r.arrived
  BY <1>2 DEF Batch, Imports, Shape
<1>6. /\ AboutIn(r.found, "position_mismatch") \ r.touched = r.injected \ r.touched
      /\ AboutIn(r.found, "cash_mismatch") \subseteq r.touched
      /\ AboutIn(r.found, "unmatched_custodian_transaction") = r.late
      /\ AboutIn(r.found, "unmatched_internal_transaction") \subseteq r.arrived
  BY <1>1, <1>2 DEF FoundSo, PositionsOpen
<1>7. /\ batches' \in Seq(Imports) /\ DOMAIN batches' = DOMAIN batches \cup {n}
      /\ n \notin DOMAIN batches /\ batches'[n] = Batch(r)
      /\ \A i \in DOMAIN batches : batches'[i] = batches[i]
  BY <1>1, <1>3, <1>5
<1>8. /\ breaks' \in Seq(BreakRows)
      /\ \A b \in DOMAIN breaks : b \in DOMAIN breaks' /\ breaks'[b] = breaks[b]
      /\ \A k \in DOMAIN r.found :
            k + Len(breaks) \in DOMAIN breaks' /\ breaks'[k + Len(breaks)] = r.found[k]
      /\ \A b \in DOMAIN breaks' :
            \/ b \in DOMAIN breaks
            \/ b \notin DOMAIN breaks /\ \E k \in DOMAIN r.found : breaks'[b] = r.found[k]
  <2>1. breaks' \in Seq(BreakRows) /\ Len(breaks') = Len(breaks) + Len(r.found)
    BY <1>1, <1>3, <1>4
  <2>2. \A b \in DOMAIN breaks : b \in DOMAIN breaks' /\ breaks'[b] = breaks[b]
    BY <1>1, <1>3, <1>4
  <2>3. \A k \in DOMAIN r.found :
            k + Len(breaks) \in DOMAIN breaks' /\ breaks'[k + Len(breaks)] = r.found[k]
    BY <1>1, <1>3, <1>4
  <2>4. ASSUME NEW b \in DOMAIN breaks', b \notin DOMAIN breaks
        PROVE  b - Len(breaks) \in DOMAIN r.found /\ breaks'[b] = r.found[b - Len(breaks)]
    BY <1>1, <1>3, <1>4, <2>4
  <2> QED BY <2>1, <2>2, <2>3, <2>4
<1> HIDE DEF n
<1>9. next.at = "performed" /\ next.date = r.date
  OBVIOUS
<1> HIDE DEF next
<1>10. runner'[p] = next /\ \A q \in Processes : q # p => runner'[q] = runner[q]
  BY <1>1, <1>3
<1>11. \A q \in Processes : q # p => runner[q] = Exited
  <2>1. ASSUME NEW q \in Processes, q # p PROVE runner[q] = Exited
    <3>1. runner[q].at = "exited"
      BY <1>1, <2>1 DEF ReconInv, OneRuns
    <3> QED BY <3>1 DEF ReconInv, RunOK, Shape, Working
  <2> QED BY <2>1
<1>12. Types'
  <2>1. runner' = [q \in Processes |-> runner'[q]]
    BY <1>1, <1>3
  <2> QED BY <1>1, <1>7, <1>8, <2>1 DEF ReconInv, Types
<1>13. \A q \in Processes : RunOK(q)'
  <2>1. RunOK(p)'
    BY <1>4, <1>5, <1>7, <1>9, <1>10 DEF RunOK, Committed
  <2>2. \A q \in Processes : q # p => RunOK(q)'
    BY <1>10, <1>11 DEF RunOK
  <2> QED BY <2>1, <2>2
<1>14. OneRuns'
  BY <1>10, <1>11 DEF OneRuns, Exited
<1>15. AuditAgrees' /\ Loaded' /\ BatchesExist'
  <2>1. {k \in DOMAIN breaks' : breaks'[k].by # None} = {k \in DOMAIN breaks : breaks[k].by # None}
    BY <1>4, <1>8
  <2>2. AuditAgrees'
    BY <1>1, <1>8, <2>1 DEF ReconInv, AuditAgrees
  <2>3. Loaded'
    BY <1>1, <1>8 DEF ReconInv, Loaded
  <2>4. BatchesExist'
    <3> SUFFICES ASSUME NEW b \in DOMAIN breaks' PROVE breaks'[b].batch \in DOMAIN batches'
      BY DEF BatchesExist
    <3>1. CASE b \in DOMAIN breaks
      BY <1>7, <1>8, <3>1 DEF ReconInv, BatchesExist
    <3>2. CASE \E k \in DOMAIN r.found : breaks'[b] = r.found[k]
      BY <1>4, <1>7, <3>2
    <3> QED BY <1>8, <3>1, <3>2
  <2> QED BY <2>2, <2>3, <2>4
<1>16. BreaksAreDifferences'
  <2> DEFINE A(i, t) == {breaks'[b].about : b \in
                          {k \in DOMAIN breaks' : breaks'[k].batch = i /\ breaks'[k].type = t}}
  <2>1. ASSUME NEW i \in DOMAIN batches, NEW t \in Kinds PROVE A(i, t) = About(i, t)
    <3>1. i # n
      BY <1>7
    <3> QED BY <1>4, <1>8, <3>1 DEF About
  <2>2. ASSUME NEW t \in Kinds PROVE A(n, t) = AboutIn(r.found, t)
    <3>1. \A b \in DOMAIN breaks : breaks[b].batch # n
      BY <1>7 DEF ReconInv, BatchesExist
    <3>2. A(n, t) \subseteq AboutIn(r.found, t)
      <4>1. ASSUME NEW b \in DOMAIN breaks', breaks'[b].batch = n, breaks'[b].type = t
            PROVE  breaks'[b].about \in AboutIn(r.found, t)
        <5>1. PICK k \in DOMAIN r.found : breaks'[b] = r.found[k]
          BY <1>8, <3>1, <4>1
        <5> QED BY <4>1, <5>1 DEF AboutIn
      <4> QED BY <4>1
    <3>3. ASSUME NEW k \in DOMAIN r.found, r.found[k].type = t PROVE r.found[k].about \in A(n, t)
      <4>1. k + Len(breaks) \in DOMAIN breaks' /\ breaks'[k + Len(breaks)] = r.found[k]
        BY <1>8
      <4>2. r.found[k].batch = n
        BY <1>4
      <4> QED BY <3>3, <4>1, <4>2
    <3> HIDE DEF A
    <3> QED BY <3>2, <3>3 DEF AboutIn
  <2> HIDE DEF A
  <2> SUFFICES ASSUME NEW i \in DOMAIN batches'
               PROVE  /\ A(i, "position_mismatch") \ batches'[i].touched
                           = batches'[i].injected \ batches'[i].touched
                      /\ A(i, "cash_mismatch") \subseteq batches'[i].touched
                      /\ A(i, "unmatched_custodian_transaction") = batches'[i].late
                      /\ A(i, "unmatched_internal_transaction") \subseteq batches'[i].arrived
    BY DEF BreaksAreDifferences, About, A
  <2>3. CASE i = n
    BY <1>5, <1>6, <1>7, <2>2, <2>3 DEF Kinds
  <2>4. CASE i \in DOMAIN batches
    <3>1. batches'[i] = batches[i]
      BY <1>7, <2>4
    <3>2. /\ About(i, "position_mismatch") \ batches[i].touched
               = batches[i].injected \ batches[i].touched
          /\ About(i, "cash_mismatch") \subseteq batches[i].touched
          /\ About(i, "unmatched_custodian_transaction") = batches[i].late
          /\ About(i, "unmatched_internal_transaction") \subseteq batches[i].arrived
      BY <2>4 DEF ReconInv, BreaksAreDifferences
    <3> QED BY <2>1, <2>4, <3>1, <3>2 DEF Kinds
  <2> QED BY <1>7, <2>3, <2>4
<1>17. CompletedWasPerformed'
  BY <1>1, <1>7 DEF ReconInv, CompletedWasPerformed
<1> QED BY <1>12, <1>13, <1>14, <1>15, <1>16, <1>17 DEF ReconInv

\* A break is loaded, resolved if it is still open, or the request refused.
LEMMA ResolvingKeeps ==
  ASSUME ReconInv, NEW s \in Staff, Resolving(s), UNCHANGED <<jobVars, bookVars, simVars>>
  PROVE  ReconInv'
<1>0. /\ UNCHANGED <<runner, jobRun, posted, unsettled, late>> /\ batches' = batches
      /\ DOMAIN resolver = Staff /\ breaks \in Seq(BreakRows)
  BY DEF jobVars, bookVars, simVars, Resolving, LoadBreak, CommitResolution, ResolutionRefused,
         ReconInv, Types
<1>1. \A p \in Processes : RunOK(p)'
  BY <1>0, SameRun DEF ReconInv
<1>2. OneRuns' /\ CompletedWasPerformed'
  BY <1>0 DEF ReconInv, OneRuns, CompletedWasPerformed
<1>3. CASE breaks' = breaks /\ audit' = audit
  <2>1. /\ DOMAIN resolver' = Staff
        /\ \A u \in Staff : resolver'[u] # None =>
             resolver'[u] = resolver[u] \/ resolver'[u] \in DOMAIN breaks
    BY <1>0 DEF Resolving, LoadBreak, CommitResolution, ResolutionRefused
  <2>2. Types' /\ Loaded'
    BY <1>0, <1>3, <2>1 DEF ReconInv, Types, Loaded
  <2>3. AuditAgrees' /\ BatchesExist'
    BY <1>0, <1>3 DEF ReconInv, AuditAgrees, BatchesExist
  <2>4. BreaksAreDifferences'
    BY <1>0, <1>3 DEF ReconInv, BreaksAreDifferences, About
  <2> QED BY <1>1, <1>2, <2>2, <2>3, <2>4 DEF ReconInv
<1>4. CASE CommitResolution(s)
  <2> DEFINE b == resolver[s]
             written == [breaks[b] EXCEPT !.by = s]
  <2>1. /\ b # None /\ breaks[b].by = None /\ breaks' = [breaks EXCEPT ![b] = written]
        /\ audit' = audit \cup {<<b, s>>} /\ resolver' = [resolver EXCEPT ![s] = None]
    BY <1>4 DEF CommitResolution, SingleTransition
  <2>2. b \in DOMAIN breaks /\ breaks[b] \in BreakRows
    BY <1>0, <2>1 DEF ReconInv, Loaded
  <2>3. /\ written \in BreakRows /\ written.by = s /\ written.type = breaks[b].type
        /\ written.about = breaks[b].about /\ written.batch = breaks[b].batch
    BY <2>2 DEF BreakRows
  <2> HIDE DEF written, b
  <2>4. /\ breaks' \in Seq(BreakRows) /\ DOMAIN breaks' = DOMAIN breaks /\ breaks'[b] = written
        /\ \A k \in DOMAIN breaks : k # b => breaks'[k] = breaks[k]
    BY <1>0, <2>1, <2>2, <2>3
  <2>5. \A k \in DOMAIN breaks :
          /\ breaks'[k].type = breaks[k].type /\ breaks'[k].about = breaks[k].about
          /\ breaks'[k].batch = breaks[k].batch
    BY <2>3, <2>4
  <2>6. Types' /\ Loaded'
    BY <1>0, <2>1, <2>4 DEF ReconInv, Types, Loaded
  <2>7. AuditAgrees'
    <3>1. None # s
      BY ReconciliationAssumption
    <3>2. {k \in DOMAIN breaks' : breaks'[k].by # None}
            = {k \in DOMAIN breaks : breaks[k].by # None} \cup {b}
      BY <2>2, <2>3, <2>4, <3>1
    <3>3. \A k \in DOMAIN breaks : breaks[k].by # None => k # b /\ breaks'[k] = breaks[k]
      BY <2>1, <2>4
    <3>4. audit = {<<k, breaks[k].by>> : k \in {j \in DOMAIN breaks : breaks[j].by # None}}
      BY DEF ReconInv, AuditAgrees
    <3>5. audit' = {<<k, breaks'[k].by>> : k \in {j \in DOMAIN breaks' : breaks'[j].by # None}}
      BY <2>1, <2>3, <2>4, <3>2, <3>3, <3>4
    <3> QED BY <3>5 DEF AuditAgrees
  <2>8. BatchesExist'
    BY <1>0, <2>4, <2>5 DEF ReconInv, BatchesExist
  <2>9. BreaksAreDifferences'
    BY <1>0, <2>4, <2>5 DEF ReconInv, BreaksAreDifferences, About
  <2> QED BY <1>1, <1>2, <2>6, <2>7, <2>8, <2>9 DEF ReconInv
<1> QED BY <1>3, <1>4 DEF Resolving, LoadBreak, ResolutionRefused

\* The initial states satisfy the invariant.
LEMMA InitReconInv == ReconInit => ReconInv
<1> SUFFICES ASSUME ReconInit PROVE ReconInv
  OBVIOUS
<1>1. Types
  BY FS_EmptySet DEF ReconInit, JobsInit, Types
<1>2. \A p \in Processes : runner[p] = Exited
  BY DEF ReconInit, JobsInit
<1>3. (\A p \in Processes : RunOK(p)) /\ OneRuns
  BY <1>2 DEF RunOK, OneRuns, Exited
<1>4. AuditAgrees /\ Loaded /\ BatchesExist
  BY DEF ReconInit, AuditAgrees, Loaded, BatchesExist
<1>5. BreaksAreDifferences
  BY DEF ReconInit, BreaksAreDifferences
<1>6. CompletedWasPerformed
  BY DEF ReconInit, JobsInit, CompletedWasPerformed, Periods
<1> QED BY <1>1, <1>3, <1>4, <1>5, <1>6 DEF ReconInv

\* Every step preserves it.
LEMMA NextReconInv == ReconInv /\ [ReconNext]_reconVars => ReconInv'
<1> SUFFICES ASSUME ReconInv, [ReconNext]_reconVars PROVE ReconInv'
  OBVIOUS
<1>1. ASSUME NEW e \in Entries, Post(e) \/ Confirm(e) PROVE ReconInv'
  BY <1>1, BookSteps
<1>2. ASSUME \/ \E c \in Customers, w \in Wrong : InjectTamperedPosition(c, w)
             \/ \E d \in Dividends : InjectLateDividend(d)
             \/ ClearInjections
      PROVE  ReconInv'
  <2>1. UNCHANGED <<jobVars, bookVars, breakVars>>
    BY <1>2 DEF InjectTamperedPosition, InjectLateDividend, ClearInjections
  <2>2. \/ late' = late
        \/ late' = {}
        \/ \E d \in Dividends : late' = late \cup {d}
    BY <1>2 DEF InjectTamperedPosition, InjectLateDividend, ClearInjections
  <2> QED BY <2>1, <2>2, InjectionSteps
<1>3. ASSUME NEW p \in Processes, Matching(p), UNCHANGED <<bookVars, simVars, breakVars>>
      PROVE  ReconInv'
  <2>1. UNCHANGED <<posted, unsettled, late, batches, breaks, audit, resolver>>
    BY <1>3 DEF bookVars, simVars, breakVars
  <2>2. CASE FetchPositions(p) \/ FetchCash(p) \/ FetchTransactions(p)
    BY <2>1, <2>2, FetchPositionsKeeps, FetchCashKeeps, FetchTransactionsKeeps
  <2>3. CASE MatchPositions(p) \/ MatchCash(p) \/ MatchTransactions(p)
    BY <2>1, <2>3, MatchPositionsKeeps, MatchCashKeeps, MatchTransactionsKeeps
  <2>4. CASE Holiday(p) \/ PerformRaises(p) \/ EndJob(p) \/ Kill(p)
    BY <2>1, <2>4, EndingSteps, EndJobKeeps
  <2> QED BY <1>3, <2>2, <2>3, <2>4 DEF Matching
<1>4. ASSUME NEW p \in Processes, CommitBatch(p), UNCHANGED <<bookVars, simVars>>
      PROVE  ReconInv'
  BY <1>4, CommitBatchKeeps DEF bookVars, simVars
<1>5. ASSUME NEW s \in Staff, Resolving(s), UNCHANGED <<jobVars, bookVars, simVars>>
      PROVE  ReconInv'
  BY <1>5, ResolvingKeeps
<1>6. CASE UNCHANGED reconVars
  <2>1. UNCHANGED <<jobVars, bookVars, breakVars>> /\ late' = late
    BY <1>6 DEF reconVars, jobVars, bookVars, breakVars
  <2> QED BY <2>1, InjectionsKeep DEF ReconInv, Types
<1> QED BY <1>1, <1>2, <1>3, <1>4, <1>5, <1>6 DEF ReconNext

-----------------------------------------------------------------------------
\* Theorems

\* What a run has read and found, the lock, the audit log and the properties
\* below hold in every reachable state, wherever postings, settlements, failures
\* and kills fall between the six reads.
THEOREM ReconciliationInvariant == ReconSpec => []ReconInv
BY InitReconInv, NextReconInv, PTL DEF ReconSpec

\* Every import opens exactly the breaks its file warrants, up to the customers
\* and entries whose books moved between the file and the comparison
\* (reconciliation_service.py run_morning_reconciliation).
THEOREM ImportsOpenDifferences == ReconSpec => []BreaksAreDifferences
<1>1. ReconInv => BreaksAreDifferences
  BY DEF ReconInv
<1> QED BY <1>1, ReconciliationInvariant, PTL

\* A break is resolved by one person, the one the audit log names, however many
\* requests had loaded it while it was open (reconciliation_break.py resolve).
THEOREM BreaksResolvedOnce == ReconSpec => []ResolvedOnce
<1>1. ReconInv => ResolvedOnce
  BY DEF ReconInv, AuditAgrees, ResolvedOnce
<1> QED BY <1>1, ReconciliationInvariant, PTL

\* A job_run row that says completed for a trading day is never ahead of the
\* day's committed import (jobs/base.py run).
THEOREM CompletedMeansImported == ReconSpec => []CompletedWasPerformed
<1>1. ReconInv => CompletedWasPerformed
  BY DEF ReconInv
<1> QED BY <1>1, ReconciliationInvariant, PTL

\* A break, once opened, is never removed or rewritten, and once resolved keeps
\* its resolver: imports only append, and the trigger admits one transition
\* (reconciliation_break_single_transition).
BreaksStay ==
    \A b \in DOMAIN breaks :
        /\ b \in DOMAIN breaks'
        /\ breaks'[b].type = breaks[b].type /\ breaks'[b].about = breaks[b].about
        /\ breaks'[b].batch = breaks[b].batch
        /\ breaks[b].by # None => breaks'[b].by = breaks[b].by

\* No step of the specification removes, rewrites or reassigns a break.
THEOREM BreaksAreKept == ReconSpec => [][BreaksStay]_reconVars
<1>1. ASSUME ReconInv, [ReconNext]_reconVars PROVE BreaksStay \/ UNCHANGED reconVars
  <2>0. breaks \in Seq(BreakRows)
    BY <1>1 DEF ReconInv, Types
  <2>1. CASE breaks' = breaks
    BY <2>1 DEF BreaksStay
  <2>2. ASSUME NEW p \in Processes, CommitBatch(p) PROVE BreaksStay
    <3>1. breaks' = breaks \o runner[p].found /\ runner[p].at = "matched"
      BY <2>2 DEF CommitBatch
    <3>2. runner[p].found \in Seq(BreakRows)
      BY <1>1, <3>1, RunAt DEF ReconInv, Working, Shape
    <3>3. \A b \in DOMAIN breaks : b \in DOMAIN breaks' /\ breaks'[b] = breaks[b]
      BY <2>0, <3>1, <3>2
    <3> QED BY <3>3 DEF BreaksStay
  <2>3. ASSUME NEW s \in Staff, CommitResolution(s) PROVE BreaksStay
    <3> DEFINE k == resolver[s]
               written == [breaks[k] EXCEPT !.by = s]
    <3>1. k # None /\ breaks[k].by = None /\ breaks' = [breaks EXCEPT ![k] = written]
      BY <2>3 DEF CommitResolution, SingleTransition
    <3>2. k \in DOMAIN breaks /\ breaks[k] \in BreakRows
      BY <1>1, <2>0, <3>1 DEF ReconInv, Loaded
    <3>3. written.type = breaks[k].type /\ written.about = breaks[k].about /\ written.batch = breaks[k].batch
      BY <3>2 DEF BreakRows
    <3> HIDE DEF k, written
    <3> QED BY <2>0, <3>1, <3>2, <3>3 DEF BreaksStay
  <2>4. \/ breaks' = breaks
        \/ \E p \in Processes : CommitBatch(p)
        \/ \E s \in Staff : CommitResolution(s)
    BY <1>1 DEF ReconNext, Post, Confirm, InjectTamperedPosition, InjectLateDividend, ClearInjections,
                Resolving, LoadBreak, ResolutionRefused, breakVars, reconVars
  <2> QED BY <2>1, <2>2, <2>3, <2>4
<1> QED BY <1>1, ReconciliationInvariant, PTL DEF ReconSpec
=============================================================================
