-------------------------------- MODULE Jobs --------------------------------
(***************************************************************************)
(* ScheduledJob.run (jobs/base.py), the template of every batch job.  A    *)
(* process takes the job's session-level advisory lock or reports SKIPPED; *)
(* perform() commits a unit of work of its own; only then is the job_run   *)
(* row written, in the transaction that was opened with the lock.  The     *)
(* unique indexes of job_run admit one row per period and job: a second    *)
(* row is refused at that commit, after the work is done, and the process  *)
(* ends with the error.  A killed process leaves no row.                   *)
(***************************************************************************)
EXTENDS Naturals

CONSTANTS Processes,   \* processes a scheduler or an operator starts
          MarketDates, \* the --market-date argument
          Period,      \* the market date itself (daily) or its month (monthly)
          MaxRuns      \* bound on the times the job is started

ASSUME JobsAssumption ==
    /\ DOMAIN Period = MarketDates
    /\ MaxRuns \in Nat

VARIABLES runner,  \* what each process is doing
          jobRun,  \* job_run: the status of the row of each period
          started  \* how often the job was started

jobVars == <<runner, jobRun, started>>

Periods == {Period[d] : d \in MarketDates}
Exited == [at |-> "exited"]
JobsInit ==
    /\ runner = [p \in Processes |-> Exited]
    /\ jobRun = [m \in Periods |-> "none"]
    /\ started = 0

\* pg_try_advisory_lock: held by a process from its start until it exits.
LockFree == \A p \in Processes : runner[p].at = "exited"

Become(p, state) == runner' = [runner EXCEPT ![p] = state]

\* A process that finds the lock taken returns SKIPPED and changes nothing.
StartJob(p, state) ==
    /\ LockFree
    /\ started < MaxRuns
    /\ Become(p, state)
    /\ started' = started + 1
    /\ UNCHANGED jobRun

InsertRow(period, status) ==
    jobRun' = [jobRun EXCEPT ![period] = IF @ = "none" THEN status ELSE @]

\* perform() returned or raised: the row is committed, or refused by the index.
RecordAlways(p, date) == InsertRow(Period[date], "completed")
RecordRun(p, date) ==
    InsertRow(Period[date], IF runner[p].at = "performed" THEN "completed" ELSE "failed")

EndJob(p) ==
    /\ runner[p].at \in {"performed", "raised"}
    /\ RecordRun(p, runner[p].date)
    /\ Become(p, Exited)
    /\ UNCHANGED started

Kill(p) ==
    /\ runner[p].at # "exited"
    /\ Become(p, Exited)
    /\ UNCHANGED <<jobRun, started>>
=============================================================================
