--------------------------- MODULE Reconciliation ---------------------------
(***************************************************************************)
(* Morning reconciliation: the custodian-file simulator reads the books in *)
(* one unit of work, ReconciliationService reads them again in another and *)
(* opens a break for every difference; staff resolve breaks.  Postgres     *)
(* runs these transactions READ COMMITTED, so each of the six reads sees   *)
(* what other processes committed before it.                               *)
(***************************************************************************)
EXTENDS Jobs, Integers, SequencesExt

CONSTANTS Customers,
          Entries,     \* journal entries other components may post
          Wrong,       \* quantities the simulator may be told to report
          Dividends,   \* custodian transactions with no internal entry
          Staff,
          MaxResolved, \* bound on the breaks that are resolved
          Holidays,    \* market dates the cached calendar does not trade on
          None

ASSUME ReconciliationAssumption ==
    /\ Holidays \subseteq MarketDates
    /\ \A d, e \in MarketDates : Period[d] = Period[e] => d = e   \* JobCadence.DAILY
    /\ IsFiniteSet(Customers)
    /\ None \notin Staff
    /\ MaxResolved \in Nat
    /\ \A e \in Entries :
          /\ e.customer \in Customers /\ e.date \in MarketDates
          /\ e.units \in Int /\ e.cash \in Int
          /\ e.observable \in BOOLEAN /\ e.settles \in BOOLEAN
    /\ Dividends \cap Entries = {}

VARIABLES posted,     \* journal entries on the books
          unsettled,  \* those whose settlement obligation is still pending
          tampered,   \* queued position overwrites of the simulator
          late,       \* queued dividend rows of the simulator
          batches,    \* custodian_file_row, one element per import batch
          breaks,     \* reconciliation_break
          audit,      \* admin_audit_log rows <<break, actor>>
          resolver    \* the break each staff request has loaded

bookVars == <<posted, unsettled>>
simVars == <<tampered, late>>
breakVars == <<batches, breaks, audit, resolver>>
reconVars == <<runner, jobRun, started, posted, unsettled, tampered, late, batches, breaks,
          audit, resolver>>

ReconInit ==
    /\ JobsInit
    /\ posted = {} /\ unsettled = {}
    /\ tampered = [c \in Customers |-> None]
    /\ late = {}
    /\ batches = <<>> /\ breaks = <<>> /\ audit = {}
    /\ resolver = [s \in Staff |-> None]

-----------------------------------------------------------------------------
(* internal_state.py: the readers both sides share.                        *)

Units(entries) == MapThenSumSet(LAMBDA e : e.units, entries)
Cash(entries) == MapThenSumSet(LAMBDA e : e.cash, entries)

read_internal_positions(d) ==
    [c \in Customers |-> Units({e \in posted : e.customer = c /\ e.date <= d})]

settled_cash == [c \in Customers |-> Cash({e \in posted \ unsettled : e.customer = c})]

read_internal_transactions(d) == {e \in posted : e.date = d /\ e.observable}

-----------------------------------------------------------------------------
(* The books move while a run reads them.                                  *)

\* Every run under way learns which customers and entries changed behind it.
Touch(customer, entries) ==
    runner' = [p \in Processes |->
        IF runner[p].at \in {"exited", "performed", "raised"} THEN runner[p]
        ELSE [runner[p] EXCEPT !.touched = @ \cup {customer}, !.arrived = @ \cup entries]]

Post(e) ==
    /\ e \notin posted
    /\ posted' = posted \cup {e}
    /\ unsettled' = IF e.settles THEN unsettled \cup {e} ELSE unsettled
    /\ Touch(e.customer, {e})
    /\ UNCHANGED <<jobRun, started, simVars, breakVars>>

Confirm(e) ==
    /\ e \in unsettled
    /\ unsettled' = unsettled \ {e}
    /\ Touch(e.customer, {})
    /\ UNCHANGED <<posted, jobRun, started, simVars, breakVars>>

-----------------------------------------------------------------------------
(* CustodianFileSimulatorAdapter.  The process that queues injections is    *)
(* the one that then runs the job, so none arrives in the middle of a run. *)

InjectTamperedPosition(c, wrong) ==
    /\ LockFree
    /\ tampered' = [tampered EXCEPT ![c] = wrong]
    /\ UNCHANGED <<jobVars, bookVars, late, breakVars>>

InjectLateDividend(dividend) ==
    /\ LockFree
    /\ late' = late \cup {dividend}
    /\ UNCHANGED <<jobVars, bookVars, tampered, breakVars>>

ClearInjections ==
    /\ LockFree
    /\ tampered' = [c \in Customers |-> None]
    /\ late' = {}
    /\ UNCHANGED <<jobVars, bookVars, breakVars>>

Generated(d) ==
    [c \in Customers |->
        IF tampered[c] = None THEN read_internal_positions(d)[c] ELSE tampered[c]]

\* fetch_files: positions, then cash, then transactions and the queued dividends.
FetchPositions(p) ==
    \E d \in MarketDates :
        StartJob(p, [at |-> "cash_due", date |-> d, positions |-> Generated(d),
                     injected |-> {c \in Customers :
                                     Generated(d)[c] # read_internal_positions(d)[c]},
                     touched |-> {}, arrived |-> {},
                     cash |-> None, ids |-> {}, late |-> {}, found |-> <<>>])

FetchCash(p) ==
    /\ runner[p].at = "cash_due"
    /\ Become(p, [runner[p] EXCEPT !.at = "transactions_due", !.cash = settled_cash])
    /\ UNCHANGED <<jobRun, started>>

FetchTransactions(p) ==
    /\ runner[p].at = "transactions_due"
    /\ Become(p, [runner[p] EXCEPT !.at = "fetched", !.late = late,
                    !.ids = read_internal_transactions(runner[p].date) \cup late])
    /\ UNCHANGED <<jobRun, started>>

-----------------------------------------------------------------------------
(* ReconciliationService.run_morning_reconciliation.                       *)

Break(type, about) == [type |-> type, about |-> about, batch |-> Len(batches) + 1, by |-> None]

Opened(type, differing) == SetToSeq({Break(type, x) : x \in differing})

\* A holding only one of the two sides knows is a difference too.
DifferencesHeld(internal, file) == {c \in Customers : internal[c] # 0 /\ internal[c] # file[c]}
Differences(internal, file) == {c \in Customers : internal[c] # file[c]}

Found(p, at, opened) ==
    /\ Become(p, [runner[p] EXCEPT !.at = at, !.found = @ \o opened])
    /\ UNCHANGED <<jobRun, started>>

MatchPositions(p) ==
    /\ runner[p].at = "fetched"
    /\ runner[p].date \notin Holidays
    /\ Found(p, "positions_matched",
             Opened("position_mismatch",
                    Differences(read_internal_positions(runner[p].date), runner[p].positions)))

MatchCash(p) ==
    /\ runner[p].at = "positions_matched"
    /\ Found(p, "cash_matched",
             Opened("cash_mismatch", Differences(settled_cash, runner[p].cash)))

MatchTransactions(p) ==
    /\ runner[p].at = "cash_matched"
    /\ LET internal == read_internal_transactions(runner[p].date)
       IN  Found(p, "matched",
                 Opened("unmatched_custodian_transaction", runner[p].ids \ internal)
                 \o Opened("unmatched_internal_transaction", internal \ runner[p].ids))

\* A holiday is never a break: no raw rows, no matching.
Holiday(p) ==
    /\ runner[p].at = "fetched"
    /\ runner[p].date \in Holidays
    /\ Become(p, [at |-> "performed", date |-> runner[p].date])
    /\ UNCHANGED <<jobRun, started>>

\* The custodian_file_row rows of an import batch: what the file said, and what
\* moved behind it.
Batch(r) == [date |-> r.date, injected |-> r.injected, late |-> r.late,
             touched |-> r.touched, arrived |-> r.arrived]

\* The work's own commit: raw rows and breaks together.
CommitBatch(p) ==
    /\ runner[p].at = "matched"
    /\ LET r == runner[p]
       IN  /\ batches' = Append(batches, Batch(r))
           /\ breaks' = breaks \o r.found
           /\ Become(p, [at |-> "performed", date |-> r.date])
    /\ UNCHANGED <<jobRun, started, audit, resolver>>

\* A query or the commit fails: perform() raises and its unit of work rolls back.
PerformRaises(p) ==
    /\ runner[p].at \notin {"exited", "performed", "raised"}
    /\ Become(p, [at |-> "raised", date |-> runner[p].date])
    /\ UNCHANGED <<jobRun, started>>

-----------------------------------------------------------------------------
(* POST /breaks/<id>/resolve: two requests may have loaded the same break. *)

LoadBreak(s, b) ==
    /\ resolver[s] = None
    /\ Cardinality(audit) < MaxResolved
    /\ breaks[b].by = None
    /\ resolver' = [resolver EXCEPT ![s] = b]
    /\ UNCHANGED <<batches, breaks, audit>>

\* The trigger reconciliation_break_single_transition on the row being updated.
AnyTransition(b) == TRUE
SingleTransition(b) == breaks[b].by = None

CommitResolution(s) ==
    /\ resolver[s] # None
    /\ SingleTransition(resolver[s])
    /\ breaks' = [breaks EXCEPT ![resolver[s]].by = s]
    /\ audit' = audit \cup {<<resolver[s], s>>}
    /\ resolver' = [resolver EXCEPT ![s] = None]
    /\ UNCHANGED batches

ResolutionRefused(s) ==
    /\ resolver[s] # None
    /\ ~SingleTransition(resolver[s])
    /\ resolver' = [resolver EXCEPT ![s] = None]
    /\ UNCHANGED <<batches, breaks, audit>>

-----------------------------------------------------------------------------
Matching(p) ==
    \/ FetchPositions(p) \/ FetchCash(p) \/ FetchTransactions(p)
    \/ MatchPositions(p) \/ MatchCash(p) \/ MatchTransactions(p)
    \/ Holiday(p) \/ PerformRaises(p) \/ EndJob(p) \/ Kill(p)

Resolving(s) ==
    \/ \E b \in DOMAIN breaks : LoadBreak(s, b)
    \/ CommitResolution(s)
    \/ ResolutionRefused(s)

ReconNext ==
    \/ \E e \in Entries : Post(e) \/ Confirm(e)
    \/ \E c \in Customers, w \in Wrong : InjectTamperedPosition(c, w)
    \/ \E d \in Dividends : InjectLateDividend(d)
    \/ ClearInjections
    \/ \E p \in Processes : Matching(p) /\ UNCHANGED <<bookVars, simVars, breakVars>>
    \/ \E p \in Processes : CommitBatch(p) /\ UNCHANGED <<bookVars, simVars>>
    \/ \E s \in Staff : Resolving(s) /\ UNCHANGED <<jobVars, bookVars, simVars>>

ReconSpec == ReconInit /\ [][ReconNext]_reconVars

-----------------------------------------------------------------------------
(* Properties.                                                             *)

About(i, type) == {breaks[b].about : b \in
                     {k \in DOMAIN breaks : breaks[k].batch = i /\ breaks[k].type = type}}

\* Every import opens exactly the breaks its file warrants.  For a customer
\* whose books did not move between the two readings, there is a position
\* break exactly when the custodian's quantity was wrong, and no cash break;
\* a custodian transaction is unmatched exactly when it has no entry; an
\* internal one only when it was posted behind the file.
\* (reconciliation_service.py, custodian_file_adapter.py)
BreaksAreDifferences ==
    \A i \in DOMAIN batches :
        LET b == batches[i]
        IN  /\ About(i, "position_mismatch") \ b.touched = b.injected \ b.touched
            /\ About(i, "cash_mismatch") \subseteq b.touched
            /\ About(i, "unmatched_custodian_transaction") = b.late
            /\ About(i, "unmatched_internal_transaction") \subseteq b.arrived

\* However requests race, a break is resolved by one person, who is the one
\* the audit log names; an open break has no audit row.
\* (reconciliation_break.py resolve and its trigger, breaks.py)
ResolvedOnce ==
    \A b \in DOMAIN breaks :
        {a \in audit : a[1] = b} = IF breaks[b].by = None THEN {} ELSE {<<b, breaks[b].by>>}

\* A job_run row that says completed is never ahead of the work: the import of
\* that trading day has been committed.  (jobs/base.py run)
CompletedWasPerformed ==
    \A d \in MarketDates \ Holidays :
        jobRun[Period[d]] = "completed" =>
            \E i \in DOMAIN batches : Period[batches[i].date] = Period[d]

\* "every job must be safe to run twice": a second import of a morning opens
\* no second break for a difference that is already open.
\* Refuted: each run appends its own breaks.  (reconciliation_service.py 68)
SafeToRunTwice ==
    \A a, b \in DOMAIN breaks :
        a # b /\ breaks[a].type = breaks[b].type /\ breaks[a].about = breaks[b].about
        /\ batches[breaks[a].batch].date = batches[breaks[b].batch].date
        => breaks[a].by # None \/ breaks[b].by # None
=============================================================================
