--------------------------- MODULE CustomerProofs ---------------------------
(* Machine-checked proofs about Onboarding, for any number of workers,
   sessions, attempts, overrides and crashes: an approved customer was verified
   by Stripe, the ledger rows of approval exist once, and a verdict is final;
   and about Rebalance, for any customers, models, books, runs and answers of
   the cash queries: what is on hold stays within what a run's check counted on,
   and a run spends no more than it sized its buys by.                       *)
EXTENDS Onboarding, Rebalance, Sums, SequenceTheorems

-----------------------------------------------------------------------------
\* The inductive invariant

StripeRows == [status : StripeStatuses, failures : 0 .. MaxFailures]
Starting == [at : {"starting"}, session : SessionIds, attempt : 1 .. MaxSessions]
Asking == [at : {"asking"}, session : SessionIds, loaded : Customer]
Deciding == [at : {"verdict"}, session : SessionIds, verdict : Verdicts \ {"pending"},
             loaded : Customer \cup {NotLoaded}]
Resolving == [at : {"resolved"}, session : SessionIds, verdict : Verdicts \ {"pending"},
              loaded : Customer]

\* The type invariant.  A row of ours has its session at Stripe.
Types ==
  /\ customer \in Customer
  /\ ledger \in [LedgerRows -> Nat]
  /\ sessions \in [DOMAIN sessions -> KycSession] /\ DOMAIN sessions \subseteq DOMAIN stripe
  /\ stripe \in [DOMAIN stripe -> StripeRows] /\ DOMAIN stripe \subseteq SessionIds
  /\ inbound \subseteq StripeEvents
  /\ worker \in [Workers -> Activity]
  /\ overrides \in 0 .. MaxOverrides /\ crashes \subseteq Workers

\* Stripe numbers its sessions one after the other, and an attempt number, read
\* before the session was opened, is never ahead of them.
AttemptsCounted ==
  /\ \A s \in DOMAIN stripe, t \in SessionIds : t < s => t \in DOMAIN stripe
  /\ \A s \in DOMAIN sessions : sessions[s].attempt <= s

\* A worker about to insert a session row is the only one that knows it.
StarterAlone(w) ==
  worker[w].at = "starting" =>
    /\ worker[w].session \in DOMAIN stripe \ DOMAIN sessions
    /\ worker[w].attempt <= worker[w].session
    /\ \A v \in Workers : worker[v].at = "starting" /\ worker[v].session = worker[w].session
                            => v = w

\* A worker applies a verdict to a row that exists; it approves only what
\* Stripe verified, which Stripe never takes back.
VerdictGrounded(w) ==
  worker[w].at \in {"asking", "verdict", "resolved"} =>
    /\ worker[w].session \in DOMAIN sessions
    /\ worker[w].at # "asking" /\ worker[w].verdict = "approved"
         => stripe[worker[w].session].status = "verified"

\* The row a transaction has resolved and not committed is pending for all
\* others, and nobody else writes it.
ResolverAlone(w) ==
  worker[w].at = "resolved" =>
    /\ sessions[worker[w].session].status = "pending"
    /\ \A v \in Workers : worker[v].at = "resolved" /\ worker[v].session = worker[w].session
                            => v = w

WorkersInv == \A w \in Workers : StarterAlone(w) /\ VerdictGrounded(w) /\ ResolverAlone(w)

\* A session is approved only if Stripe verified it.
SessionsGrounded ==
  \A s \in DOMAIN sessions : sessions[s].status = "approved" => stripe[s].status = "verified"

IInv ==
  /\ Types /\ AttemptsCounted /\ WorkersInv
  /\ SessionsGrounded /\ ApprovedWasVerified /\ ProvisionedOnce

-----------------------------------------------------------------------------
\* Lemmas

\* A worker's step is told by where it is.
LEMMA ActivityAt ==
  ASSUME Types, NEW w \in Workers
  PROVE  /\ worker[w].at \in {"idle", "starting", "asking", "verdict", "resolved"}
         /\ worker[w] = Idle <=> worker[w].at = "idle"
         /\ worker[w].at = "starting" => worker[w] \in Starting
         /\ worker[w].at = "asking" => worker[w] \in Asking
         /\ worker[w].at = "verdict" => worker[w] \in Deciding
         /\ worker[w].at = "resolved" => worker[w] \in Resolving
<1>1. worker[w] \in {Idle} \cup Starting \cup Asking \cup Deciding \cup Resolving
  BY DEF Types, Activity, Starting, Asking, Deciding, Resolving
<1> QED BY <1>1 DEF Idle, Starting, Asking, Deciding, Resolving

\* There is a latest attempt when there is any, and the next attempt is not
\* ahead of the session it will belong to.
LEMMA NextAttempt ==
  ASSUME Types, AttemptsCounted, NEW s \in SessionIds, s \notin DOMAIN stripe
  PROVE  LatestAttempt + 1 \in 1 .. MaxSessions /\ LatestAttempt + 1 <= s
<1>0. MaxSessions \in Nat /\ s \in 1 .. MaxSessions
  BY OnboardingAssumption DEF SessionIds
<1>1. CASE DOMAIN sessions = {}
  BY <1>0, <1>1 DEF LatestAttempt
<1>2. CASE DOMAIN sessions # {}
  <2> DEFINE T == {sessions[t].attempt : t \in DOMAIN sessions}
  <2>1. \A t \in DOMAIN sessions : /\ sessions[t].attempt \in 1 .. MaxSessions
                                   /\ sessions[t].attempt <= t /\ t \in SessionIds
    BY DEF Types, KycSession, AttemptsCounted
  <2>3. T \subseteq Nat /\ T # {} /\ \A x \in T : x <= MaxSessions
    BY <1>0, <1>2, <2>1
  <2>4. \E x \in T : \A y \in T : y <= x
    <3> HIDE DEF T
    <3> QED BY <1>0, <2>3, Greatest
  <2>5. PICK t \in DOMAIN sessions :
          \A u \in DOMAIN sessions : sessions[u].attempt <= sessions[t].attempt
    BY <2>4
  <2>6. Latest # {}
    BY <2>5 DEF Latest
  <2>7. PICK u \in DOMAIN sessions : LatestAttempt = sessions[u].attempt
    BY <1>2, <2>6 DEF LatestAttempt, Latest
  <2>8. u \in DOMAIN stripe /\ u \in SessionIds
    BY <2>7 DEF Types
  <2>9. ~(s < u) /\ s # u
    BY <2>8 DEF AttemptsCounted
  <2> HIDE DEF T
  <2> QED BY <1>0, <2>1, <2>7, <2>8, <2>9 DEF SessionIds
<1> QED BY <1>1, <1>2

\* What Stripe verified it does not take back, and its sessions stay.
StripeKeeps ==
  /\ DOMAIN stripe \subseteq DOMAIN stripe'
  /\ \A s \in DOMAIN stripe : stripe[s].status = "verified" => stripe'[s].status = "verified"

\* Our rows stay, and one that is resolved keeps its verdict.
SessionsKeep ==
  /\ DOMAIN sessions \subseteq DOMAIN sessions'
  /\ \A s \in DOMAIN sessions :
       sessions[s].status # "pending" => sessions'[s].status = sessions[s].status

\* What was approved stays grounded when Stripe and our rows keep what they have.
LEMMA ApprovalFrame ==
  ASSUME IInv, StripeKeeps, SessionsKeep, customer'.approval = customer.approval,
         UNCHANGED ledger
  PROVE  ApprovedWasVerified' /\ ProvisionedOnce'
<1>1. ApprovedWasVerified'
  <2> SUFFICES ASSUME customer.approval = "approved"
               PROVE  \E s \in DOMAIN sessions' :
                        sessions'[s].status = "approved" /\ stripe'[s].status = "verified"
    BY DEF ApprovedWasVerified
  <2>1. PICK s \in DOMAIN sessions :
          sessions[s].status = "approved" /\ stripe[s].status = "verified"
    BY DEF IInv, ApprovedWasVerified
  <2>2. s \in DOMAIN stripe
    BY DEF IInv, Types
  <2> QED BY <2>1, <2>2 DEF SessionsKeep, StripeKeeps
<1>2. ProvisionedOnce'
  BY DEF IInv, ProvisionedOnce
<1> QED BY <1>1, <1>2

-----------------------------------------------------------------------------
\* Preservation, action by action

\* No action takes back what Stripe verified or what a session was resolved to.
LEMMA Keeps ==
  ASSUME IInv, Next
  PROVE  StripeKeeps /\ SessionsKeep
<1> USE DEF IInv, Types
<1>1. ASSUME UNCHANGED <<stripe, sessions>> PROVE StripeKeeps /\ SessionsKeep
  BY <1>1 DEF StripeKeeps, SessionsKeep
<1>2. ASSUME NEW w \in Workers, StartVerification(w) PROVE StripeKeeps /\ SessionsKeep
  BY <1>2 DEF StartVerification, WithRow, StripeKeeps, SessionsKeep
<1>3. ASSUME NEW w \in Workers, StartKycSession(w) PROVE StripeKeeps /\ SessionsKeep
  <2>1. worker[w].session \notin DOMAIN sessions
    BY <1>3 DEF StartKycSession, WorkersInv, StarterAlone
  <2> QED BY <1>3, <2>1 DEF StartKycSession, WithRow, StripeKeeps, SessionsKeep
<1>4. ASSUME NEW s \in DOMAIN stripe, StripeDecides(s) PROVE StripeKeeps /\ SessionsKeep
  BY <1>4 DEF StripeDecides, StripeKeeps, SessionsKeep, StripeRows
<1>5. ASSUME NEW w \in Workers, CommitVerdict(w) PROVE StripeKeeps /\ SessionsKeep
  <2>1. sessions[worker[w].session].status = "pending"
    BY <1>5 DEF CommitVerdict, WorkersInv, ResolverAlone
  <2> QED BY <1>5, <2>1 DEF CommitVerdict, StripeKeeps, SessionsKeep
<1>6. ASSUME NEW w \in Workers,
             \/ StripeIdentityWebhook(w) \/ GetIdentityStatus(w)
             \/ SyncLatestVerification(w) \/ Resolve(w) \/ Crash(w)
      PROVE  StripeKeeps /\ SessionsKeep
  BY <1>1, <1>6 DEF StripeIdentityWebhook, GetIdentityStatus, SyncLatestVerification, Resolve,
                        Crash, kycVars
<1>7. CASE OverrideKycLock
  BY <1>1, <1>7 DEF OverrideKycLock
<1> QED BY <1>2, <1>3, <1>4, <1>5, <1>6, <1>7 DEF Next, Step

\* A worker that did not move keeps its part of the invariant while what Stripe
\* and our rows hold is kept, no row of its own is inserted and nobody joins it.
LEMMA WorkerFrame ==
  ASSUME IInv, NEW w \in Workers, worker'[w] = worker[w], StripeKeeps, SessionsKeep,
         worker[w].at = "starting" => worker[w].session \notin DOMAIN sessions',
         worker[w].at = "resolved" => sessions'[worker[w].session].status = "pending",
         \A v \in Workers :
           \/ worker'[v] = worker[v]
           \/ worker'[v].at \notin {"starting", "resolved"}
           \/ worker'[v].at # worker[w].at \/ worker'[v].session # worker[w].session
  PROVE  (StarterAlone(w) /\ VerdictGrounded(w) /\ ResolverAlone(w))'
<1>0. StarterAlone(w) /\ VerdictGrounded(w) /\ ResolverAlone(w) /\ DOMAIN sessions \subseteq DOMAIN stripe
  BY DEF IInv, WorkersInv, Types
<1>1. StarterAlone(w)'
  BY <1>0 DEF StarterAlone, StripeKeeps
<1>2. VerdictGrounded(w)'
  BY <1>0 DEF VerdictGrounded, StripeKeeps, SessionsKeep
<1>3. ResolverAlone(w)'
  BY <1>0 DEF ResolverAlone
<1> QED BY <1>1, <1>2, <1>3

\* A worker that becomes idle, and nothing else: nobody loses anything.
LEMMA WorkerGoesIdle ==
  ASSUME IInv, NEW w \in Workers, Turns(w, Idle), UNCHANGED <<stripe, sessions>>
  PROVE  WorkersInv'
<1> SUFFICES ASSUME NEW v \in Workers
             PROVE  (StarterAlone(v) /\ VerdictGrounded(v) /\ ResolverAlone(v))'
  BY DEF WorkersInv
<1>1. /\ worker'[w] = Idle /\ \A u \in Workers : u # w => worker'[u] = worker[u]
  BY DEF Turns, IInv, Types
<1>2. CASE v = w
  BY <1>1, <1>2 DEF Idle, StarterAlone, VerdictGrounded, ResolverAlone
<1>3. CASE v # w
  <2>1. StarterAlone(v) /\ ResolverAlone(v) /\ StripeKeeps /\ SessionsKeep
    BY DEF IInv, WorkersInv, StripeKeeps, SessionsKeep
  <2>2. \A u \in Workers : worker'[u] = worker[u] \/ worker'[u].at \notin {"starting", "resolved"}
    BY <1>1 DEF Idle
  <2> QED BY <1>1, <1>3, <2>1, <2>2, WorkerFrame DEF StarterAlone, ResolverAlone
<1> QED BY <1>2, <1>3

\* POST /identity/sessions opens the session at Stripe.
LEMMA StartVerificationKeeps ==
  ASSUME IInv, NEW w \in Workers, StartVerification(w)
  PROVE  IInv'
<1> USE DEF IInv
<1>1. PICK s \in SessionIds \ DOMAIN stripe :
        /\ \A t \in SessionIds : t < s => t \in DOMAIN stripe
        /\ stripe' = WithRow(stripe, s, [status |-> "requires_input", failures |-> 0])
        /\ Turns(w, [at |-> "starting", session |-> s, attempt |-> LatestAttempt + 1])
  BY DEF StartVerification
<1>2. LatestAttempt + 1 \in 1 .. MaxSessions /\ LatestAttempt + 1 <= s
  BY NextAttempt
<1> DEFINE a == LatestAttempt + 1
           task == [at |-> "starting", session |-> s, attempt |-> a]
           row == [status |-> "requires_input", failures |-> 0]
<1>3. /\ worker' = [worker EXCEPT ![w] = task]
      /\ stripe' = [i \in DOMAIN stripe \cup {s} |-> IF i = s THEN row ELSE stripe[i]]
      /\ UNCHANGED <<customer, ledger, sessions, inbound, overrides, crashes>>
  BY <1>1 DEF StartVerification, WithRow, Turns, bounds
<1>4. row \in StripeRows
  BY OnboardingAssumption DEF StripeRows, StripeStatuses
<1>5. /\ task \in Starting /\ task.at = "starting" /\ task.session = s /\ task.attempt = a
  BY <1>2 DEF Starting
<1> HIDE DEF a, task, row
<1>6. Types'
  <2>1. task \in Activity
    BY <1>5 DEF Activity, Starting
  <2> QED BY <1>1, <1>3, <1>4, <2>1 DEF Types
<1>7. AttemptsCounted'
  BY <1>1, <1>3 DEF AttemptsCounted, SessionIds
<1>8. StripeKeeps /\ SessionsKeep
  BY <1>3 DEF StripeKeeps, SessionsKeep
<1>9. WorkersInv'
  <2> SUFFICES ASSUME NEW v \in Workers
               PROVE  (StarterAlone(v) /\ VerdictGrounded(v) /\ ResolverAlone(v))'
    BY DEF WorkersInv
  <2>1. /\ worker'[w] = task /\ \A u \in Workers : u # w => worker'[u] = worker[u]
    BY <1>3 DEF Types
  <2>2. \A u \in Workers : worker[u].at = "starting" => worker[u].session \in DOMAIN stripe \ DOMAIN sessions
    BY DEF WorkersInv, StarterAlone
  <2>3. CASE v = w
    <3>1. s \notin DOMAIN sessions /\ s \in DOMAIN stripe'
      BY <1>1, <1>3 DEF Types
    <3>2. StarterAlone(w)'
      BY <1>1, <1>2, <1>3, <1>5, <2>1, <2>2, <3>1 DEF StarterAlone, a
    <3> QED BY <1>5, <2>1, <2>3, <3>2 DEF VerdictGrounded, ResolverAlone
  <2>4. CASE v # w
    <3>1. StarterAlone(v) /\ ResolverAlone(v)
      BY DEF WorkersInv
    <3>2. worker[v].at = "starting" => worker[v].session # s
      BY <1>1, <2>2
    <3> QED BY <1>3, <1>5, <1>8, <2>1, <2>4, <3>1, <3>2, WorkerFrame DEF StarterAlone, ResolverAlone
  <2> QED BY <2>3, <2>4
<1>10. SessionsGrounded'
  BY <1>3, <1>8 DEF SessionsGrounded, StripeKeeps, Types
<1> QED BY <1>3, <1>6, <1>7, <1>8, <1>9, <1>10, ApprovalFrame

\* The row is inserted by the worker that opened the session.
LEMMA StartKycSessionKeeps ==
  ASSUME IInv, NEW w \in Workers, StartKycSession(w)
  PROVE  IInv'
<1> USE DEF IInv
<1> DEFINE s == worker[w].session
           row == [status |-> "pending", attempt |-> worker[w].attempt]
<1>1. /\ worker[w].at = "starting" /\ worker[w] \in Starting
      /\ s \in DOMAIN stripe \ DOMAIN sessions /\ worker[w].attempt <= s
      /\ \A v \in Workers : worker[v].at = "starting" /\ worker[v].session = s => v = w
  BY ActivityAt DEF StartKycSession, WorkersInv, StarterAlone
<1>2. /\ worker' = [worker EXCEPT ![w] = Idle]
      /\ sessions' = [i \in DOMAIN sessions \cup {s} |-> IF i = s THEN row ELSE sessions[i]]
      /\ UNCHANGED <<customer, ledger, stripe, inbound, overrides, crashes>>
  BY DEF StartKycSession, WithRow, Turns, bounds
<1>3. row \in KycSession /\ row.attempt <= s /\ row.status = "pending"
  BY <1>1 DEF KycSession, Verdicts, Starting
<1> HIDE DEF s, row
<1>4. Types'
  <2>1. Idle \in Activity
    BY DEF Activity
  <2> QED BY <1>1, <1>2, <1>3, <2>1 DEF Types
<1>5. AttemptsCounted'
  BY <1>2, <1>3 DEF AttemptsCounted
<1>6. StripeKeeps /\ SessionsKeep
  BY <1>1, <1>2 DEF StripeKeeps, SessionsKeep
<1>7. WorkersInv'
  <2> SUFFICES ASSUME NEW v \in Workers
               PROVE  (StarterAlone(v) /\ VerdictGrounded(v) /\ ResolverAlone(v))'
    BY DEF WorkersInv
  <2>1. /\ worker'[w] = Idle /\ \A u \in Workers : u # w => worker'[u] = worker[u]
    BY <1>2 DEF Types
  <2>2. CASE v = w
    BY <2>1, <2>2 DEF Idle, StarterAlone, VerdictGrounded, ResolverAlone
  <2>3. CASE v # w
    <3>1. /\ worker[v].at = "starting" => worker[v].session \notin DOMAIN sessions'
          /\ worker[v].at = "resolved" => sessions'[worker[v].session].status = "pending"
      BY <1>1, <1>2, <2>3 DEF WorkersInv, StarterAlone, ResolverAlone, VerdictGrounded
    <3>2. \A u \in Workers : worker'[u] = worker[u] \/ worker'[u].at \notin {"starting", "resolved"}
      BY <2>1 DEF Idle
    <3> QED BY <1>6, <2>1, <2>3, <3>1, <3>2, WorkerFrame
  <2> QED BY <2>2, <2>3
<1>8. SessionsGrounded'
  BY <1>2, <1>3 DEF SessionsGrounded
<1> QED BY <1>2, <1>4, <1>5, <1>6, <1>7, <1>8, ApprovalFrame

\* Stripe decides on a session of its own.
LEMMA StripeDecidesKeeps ==
  ASSUME IInv, NEW s \in DOMAIN stripe, StripeDecides(s)
  PROVE  IInv'
<1> USE DEF IInv
<1>1. /\ DOMAIN stripe' = DOMAIN stripe
      /\ stripe' \in [DOMAIN stripe -> StripeRows]
      /\ \A t \in DOMAIN stripe : stripe[t].status = "verified" => stripe'[t].status = "verified"
      /\ UNCHANGED <<customer, ledger, sessions, inbound, worker, overrides, crashes>>
  BY OnboardingAssumption DEF StripeDecides, Types, StripeRows, StripeStatuses, bounds
<1>2. Types' /\ AttemptsCounted'
  BY <1>1 DEF Types, AttemptsCounted
<1>3. StripeKeeps /\ SessionsKeep
  BY <1>1 DEF StripeKeeps, SessionsKeep
<1>4. WorkersInv'
  BY <1>1 DEF WorkersInv, StarterAlone, VerdictGrounded, ResolverAlone, Types
<1>5. SessionsGrounded'
  BY <1>1 DEF SessionsGrounded, Types
<1> QED BY <1>1, <1>2, <1>3, <1>4, <1>5, ApprovalFrame

\* A step of one worker that is idle or moves towards its verdict, and changes
\* no row.
LEMMA WorkerMoves ==
  ASSUME IInv, NEW w \in Workers, NEW activity \in Activity, Turns(w, activity),
         UNCHANGED <<customer, ledger, sessions, stripe>>,
         inbound' \subseteq StripeEvents, overrides' \in 0 .. MaxOverrides,
         crashes' \subseteq Workers,
         activity.at \in {"idle", "asking", "verdict", "resolved"},
         activity.at # "idle" => activity.session \in DOMAIN sessions,
         activity.at \in {"verdict", "resolved"} /\ activity.verdict = "approved"
           => stripe[activity.session].status = "verified",
         activity.at = "resolved" =>
           /\ sessions[activity.session].status = "pending"
           /\ \A v \in Workers : v # w /\ worker[v].at = "resolved"
                                   => worker[v].session # activity.session
  PROVE  IInv'
<1> USE DEF IInv
<1>1. /\ worker' = [worker EXCEPT ![w] = activity] /\ worker'[w] = activity
      /\ \A u \in Workers : u # w => worker'[u] = worker[u]
  BY DEF Turns, Types
<1>2. Types' /\ AttemptsCounted' /\ SessionsGrounded'
  BY <1>1 DEF Types, AttemptsCounted, SessionsGrounded
<1>3. StripeKeeps /\ SessionsKeep
  BY DEF StripeKeeps, SessionsKeep
<1>4. WorkersInv'
  <2> SUFFICES ASSUME NEW v \in Workers
               PROVE  (StarterAlone(v) /\ VerdictGrounded(v) /\ ResolverAlone(v))'
    BY DEF WorkersInv
  <2>1. CASE v = w
    BY <1>1, <2>1 DEF StarterAlone, VerdictGrounded, ResolverAlone
  <2>2. CASE v # w
    <3>1. StarterAlone(v) /\ ResolverAlone(v)
      BY DEF WorkersInv
    <3>2. \A u \in Workers : \/ worker'[u] = worker[u]
                             \/ worker'[u].at \notin {"starting", "resolved"}
                             \/ worker'[u].at # worker[v].at
                             \/ worker'[u].session # worker[v].session
      BY <1>1, <2>2
    <3>3. /\ worker[v].at = "starting" => worker[v].session \notin DOMAIN sessions'
          /\ worker[v].at = "resolved" => sessions'[worker[v].session].status = "pending"
          /\ worker'[v] = worker[v]
      BY <1>1, <2>2, <3>1 DEF StarterAlone, ResolverAlone
    <3> QED BY <1>3, <3>2, <3>3, WorkerFrame
  <2> QED BY <2>1, <2>2
<1> QED BY <1>2, <1>3, <1>4, ApprovalFrame

\* apply_verification_verdict leaves the worker idle, or with a verdict that
\* Stripe's status bears out.
LEMMA VerdictIsGrounded ==
  ASSUME IInv, NEW w \in Workers, NEW s \in DOMAIN sessions, NEW status \in StripeStatuses,
         status = "verified" => stripe[s].status = "verified",
         NEW loaded \in Customer \cup {NotLoaded},
         NEW found, ApplyVerificationVerdict(w, s, status, found, loaded),
         UNCHANGED <<customer, ledger, sessions, stripe, overrides, crashes>>,
         inbound' \subseteq StripeEvents
  PROVE  IInv'
<1> DEFINE verdict == MapVerificationSessionStatus(status, sessions[s].attempt)
           task == [at |-> "verdict", session |-> s, verdict |-> verdict, loaded |-> loaded]
<1>1. /\ verdict \in Verdicts
      /\ verdict = "approved" => status = "verified"
  BY DEF MapVerificationSessionStatus, Verdicts, StripeStatuses
<1>2. /\ overrides' \in 0 .. MaxOverrides /\ crashes' \subseteq Workers /\ s \in SessionIds
  BY DEF IInv, Types
<1>3. CASE verdict # "pending" /\ found = "pending"
  <2>1. Turns(w, task)
    BY <1>3 DEF ApplyVerificationVerdict
  <2> HIDE DEF verdict
  <2>2. task \in Activity /\ task.at = "verdict" /\ task.session = s /\ task.verdict = verdict
    BY <1>1, <1>2, <1>3 DEF Activity
  <2> HIDE DEF task
  <2> QED BY <1>1, <1>2, <2>1, <2>2, WorkerMoves
<1>4. CASE ~(verdict # "pending" /\ found = "pending")
  <2>1. Turns(w, Idle)
    BY <1>4 DEF ApplyVerificationVerdict
  <2>2. Idle \in Activity /\ Idle.at = "idle"
    BY DEF Activity, Idle
  <2> HIDE DEF verdict
  <2> QED BY <1>2, <2>1, <2>2, WorkerMoves
<1> QED BY <1>3, <1>4

\* The webhook's status is one Stripe had, and "verified" is one it still has.
LEMMA WebhookKeeps ==
  ASSUME IInv, NEW w \in Workers, StripeIdentityWebhook(w)
  PROVE  IInv'
<1>1. PICK e \in StripeEvents \ inbound :
        /\ Sent(e)
        /\ inbound' = inbound \cup {e}
        /\ IF e.session \in DOMAIN sessions
           THEN ApplyVerificationVerdict(w, e.session, e.status, sessions[e.session].status,
                                         NotLoaded)
           ELSE UNCHANGED worker
  BY DEF StripeIdentityWebhook
<1>2. /\ UNCHANGED <<customer, ledger, sessions, stripe, overrides, crashes>>
      /\ worker[w] = Idle /\ inbound' \subseteq StripeEvents
  BY <1>1 DEF StripeIdentityWebhook, kycVars, bounds, IInv, Types
<1>3. CASE e.session \in DOMAIN sessions
  <2>1. e.status \in StripeStatuses /\ (e.status = "verified" => stripe[e.session].status = "verified")
    BY <1>1 DEF Sent, StripeEvents
  <2>2. ApplyVerificationVerdict(w, e.session, e.status, sessions[e.session].status, NotLoaded)
    BY <1>1, <1>3
  <2> QED BY <1>2, <1>3, <2>1, <2>2, VerdictIsGrounded
<1>4. CASE e.session \notin DOMAIN sessions
  <2>1. Turns(w, Idle)
    BY <1>1, <1>2, <1>4 DEF Turns, IInv, Types
  <2>2. Idle \in Activity /\ Idle.at = "idle"
    BY DEF Activity, Idle
  <2>3. overrides' \in 0 .. MaxOverrides /\ crashes' \subseteq Workers
    BY <1>2 DEF IInv, Types
  <2> QED BY <1>2, <2>1, <2>2, <2>3, WorkerMoves
<1> QED BY <1>3, <1>4

\* A status request loads the latest session and then asks Stripe for it.
LEMMA StatusRequestKeeps ==
  ASSUME IInv, NEW w \in Workers, GetIdentityStatus(w)
  PROVE  IInv'
<1>1. PICK s \in Latest : Turns(w, [at |-> "asking", session |-> s, loaded |-> customer])
  BY DEF GetIdentityStatus
<1> DEFINE task == [at |-> "asking", session |-> s, loaded |-> customer]
<1>2. s \in DOMAIN sessions /\ s \in SessionIds /\ customer \in Customer
  BY DEF Latest, IInv, Types
<1>3. /\ UNCHANGED <<customer, ledger, sessions, stripe>> /\ inbound' \subseteq StripeEvents
      /\ overrides' \in 0 .. MaxOverrides /\ crashes' \subseteq Workers
  BY DEF GetIdentityStatus, kycVars, bounds, IInv, Types
<1>4. task \in Activity /\ task.at = "asking" /\ task.session = s
  BY <1>2 DEF Activity
<1>5. Turns(w, task)
  BY <1>1
<1> HIDE DEF task
<1> QED BY <1>2, <1>3, <1>4, <1>5, WorkerMoves

\* Stripe's answer is the session as it is.
LEMMA SyncKeeps ==
  ASSUME IInv, NEW w \in Workers, SyncLatestVerification(w)
  PROVE  IInv'
<1> DEFINE s == worker[w].session
           loaded == worker[w].loaded
<1>1. worker[w] \in Asking
  BY ActivityAt DEF SyncLatestVerification, IInv
<1>2. s \in DOMAIN sessions
  BY DEF SyncLatestVerification, IInv, WorkersInv, VerdictGrounded
<1>3. loaded \in Customer /\ stripe[s].status \in StripeStatuses
  BY <1>1, <1>2 DEF Asking, IInv, Types, StripeRows
<1>4. ApplyVerificationVerdict(w, s, stripe[s].status, "pending", loaded)
  BY DEF SyncLatestVerification, RetrieveVerificationSession
<1>5. /\ UNCHANGED <<customer, ledger, sessions, stripe, overrides, crashes>>
      /\ inbound' \subseteq StripeEvents
  BY DEF SyncLatestVerification, kycVars, bounds, IInv, Types
<1> HIDE DEF s, loaded
<1> QED BY <1>2, <1>3, <1>4, <1>5, VerdictIsGrounded

\* resolve() takes the row only when it is pending and nobody has it.
LEMMA ResolveKeeps ==
  ASSUME IInv, NEW w \in Workers, Resolve(w)
  PROVE  IInv'
<1> DEFINE t == worker[w]
           load == IF t.loaded = NotLoaded THEN customer ELSE t.loaded
           task == [at |-> "resolved", session |-> t.session, verdict |-> t.verdict,
                    loaded |-> load]
<1>1. t.at = "verdict" /\ t \in Deciding /\ t.session \notin LockedSessions
  BY ActivityAt DEF Resolve, IInv
<1>2. /\ t.session \in DOMAIN sessions
      /\ t.verdict = "approved" => stripe[t.session].status = "verified"
  BY <1>1 DEF IInv, WorkersInv, VerdictGrounded
<1>3. /\ UNCHANGED <<customer, ledger, sessions, stripe>> /\ inbound' \subseteq StripeEvents
      /\ overrides' \in 0 .. MaxOverrides /\ crashes' \subseteq Workers
  BY DEF Resolve, kycVars, bounds, IInv, Types
<1>4. CASE sessions[t.session].status = "pending"
  <2>1. Turns(w, task)
    BY <1>4 DEF Resolve, SingleTransition
  <2>2. load \in Customer
    BY <1>1 DEF Deciding, IInv, Types
  <2>3. /\ task \in Activity /\ task.at = "resolved"
        /\ task.session = t.session /\ task.verdict = t.verdict
    <3>1. t.session \in SessionIds /\ t.verdict \in Verdicts \ {"pending"}
      BY <1>1 DEF Deciding
    <3> HIDE DEF load
    <3> QED BY <2>2, <3>1 DEF Activity
  <2>4. \A v \in Workers : v # w /\ worker[v].at = "resolved" => worker[v].session # t.session
    BY <1>1 DEF LockedSessions
  <2> HIDE DEF task, load
  <2> QED BY <1>2, <1>3, <1>4, <2>1, <2>3, <2>4, WorkerMoves
<1>5. CASE sessions[t.session].status # "pending"
  <2>1. Turns(w, Idle)
    BY <1>5 DEF Resolve, SingleTransition
  <2>2. Idle \in Activity /\ Idle.at = "idle"
    BY DEF Activity, Idle
  <2> QED BY <1>3, <2>1, <2>2, WorkerMoves
<1> QED BY <1>4, <1>5

\* The commit of a verdict: only an approved one approves the account, and the
\* ledger rows that are there are found.
LEMMA CommitVerdictKeeps ==
  ASSUME IInv, NEW w \in Workers, CommitVerdict(w)
  PROVE  IInv'
<1> USE DEF IInv
<1> DEFINE t == worker[w]
           granted == ApproveIfEligible(t.verdict, t.loaded)
           row == [sessions[t.session] EXCEPT !.status = t.verdict]
<1>1. t.at = "resolved" /\ t \in Resolving
  BY ActivityAt DEF CommitVerdict
<1>2. /\ t.session \in DOMAIN sessions /\ sessions[t.session].status = "pending"
      /\ t.verdict = "approved" => stripe[t.session].status = "verified"
      /\ t.verdict \in Verdicts
      /\ \A v \in Workers : worker[v].at = "resolved" /\ worker[v].session = t.session => v = w
  BY <1>1 DEF WorkersInv, VerdictGrounded, ResolverAlone, Resolving
<1>3. /\ sessions' = [sessions EXCEPT ![t.session] = row]
      /\ worker' = [worker EXCEPT ![w] = Idle]
      /\ UNCHANGED <<stripe, inbound, overrides, crashes>>
  BY DEF CommitVerdict, Turns, bounds
<1>4. /\ customer' = [kyc |-> IF t.loaded.kyc = t.verdict THEN customer.kyc ELSE t.verdict,
                      approval |-> IF granted THEN "approved" ELSE customer.approval]
      /\ ledger' = IF granted THEN EnsureLedgerAccounts ELSE ledger
  BY DEF CommitVerdict
<1>5. row \in KycSession /\ row.status = t.verdict /\ row.attempt = sessions[t.session].attempt
  BY <1>2 DEF Types, KycSession
<1>6. granted => t.verdict = "approved"
  BY DEF ApproveIfEligible
<1>7. customer' \in Customer /\ customer'.approval = (IF granted THEN "approved" ELSE customer.approval)
  BY <1>2, <1>4 DEF Types, Customer, Verdicts
<1>8. ledger' \in [LedgerRows -> Nat]
  BY <1>4 DEF Types, EnsureLedgerAccounts
<1> HIDE DEF row
<1>9. Types'
  <2>1. Idle \in Activity
    BY DEF Activity
  <2>2. sessions' \in [DOMAIN sessions -> KycSession] /\ DOMAIN sessions' = DOMAIN sessions
    BY <1>2, <1>3, <1>5 DEF Types
  <2>3. worker' \in [Workers -> Activity]
    BY <1>3, <2>1 DEF Types
  <2> HIDE DEF granted, t
  <2> QED BY <1>3, <1>7, <1>8, <2>2, <2>3 DEF Types
<1>10. AttemptsCounted'
  BY <1>2, <1>3, <1>5 DEF AttemptsCounted, Types
<1>11. StripeKeeps /\ SessionsKeep
  BY <1>2, <1>3 DEF StripeKeeps, SessionsKeep
<1>12. WorkersInv'
  <2> SUFFICES ASSUME NEW v \in Workers
               PROVE  (StarterAlone(v) /\ VerdictGrounded(v) /\ ResolverAlone(v))'
    BY DEF WorkersInv
  <2>1. /\ worker'[w] = Idle /\ \A u \in Workers : u # w => worker'[u] = worker[u]
    BY <1>3 DEF Types
  <2>2. CASE v = w
    BY <2>1, <2>2 DEF Idle, StarterAlone, VerdictGrounded, ResolverAlone
  <2>3. CASE v # w
    <3>1. /\ worker[v].at = "starting" => worker[v].session \notin DOMAIN sessions'
          /\ worker[v].at = "resolved" => sessions'[worker[v].session].status = "pending"
      <4>1. StarterAlone(v) /\ ResolverAlone(v) /\ VerdictGrounded(v)
        BY DEF WorkersInv
      <4>2. worker[v].at = "resolved" => worker[v].session # t.session
        BY <1>2, <2>3
      <4> HIDE DEF t
      <4> QED BY <1>3, <4>1, <4>2 DEF StarterAlone, ResolverAlone, VerdictGrounded
    <3>2. \A u \in Workers : worker'[u] = worker[u] \/ worker'[u].at \notin {"starting", "resolved"}
      BY <2>1 DEF Idle
    <3> QED BY <1>11, <2>1, <2>3, <3>1, <3>2, WorkerFrame
  <2> QED BY <2>2, <2>3
<1>13. SessionsGrounded'
  BY <1>2, <1>3, <1>5 DEF SessionsGrounded, Types
<1>14. CASE ~granted
  <2>1. customer'.approval = customer.approval /\ ledger' = ledger
    BY <1>4, <1>7, <1>14
  <2> QED BY <1>9, <1>10, <1>11, <1>12, <1>13, <2>1, ApprovalFrame
<1>15. CASE granted
  <2>1. ProvisionedOnce'
    <3>1. \A r \in LedgerRows : ledger[r] \in Nat /\ ledger[r] <= 1
      BY DEF ProvisionedOnce, Types
    <3>2. \A r \in LedgerRows : ledger'[r] = 1
      BY <1>4, <1>15, <3>1 DEF EnsureLedgerAccounts
    <3> QED BY <3>2 DEF ProvisionedOnce
  <2>2. ApprovedWasVerified'
    <3>1. sessions'[t.session].status = "approved" /\ t.session \in DOMAIN sessions'
      BY <1>2, <1>3, <1>5, <1>6, <1>15 DEF Types
    <3>2. stripe'[t.session].status = "verified"
      BY <1>2, <1>3, <1>6, <1>15
    <3> QED BY <3>1, <3>2 DEF ApprovedWasVerified
  <2> QED BY <1>9, <1>10, <1>12, <1>13, <2>1, <2>2
<1> QED BY <1>14, <1>15

-----------------------------------------------------------------------------
\* The theorems

\* The invariant holds at the start and survives every step.
THEOREM OnboardingInvariant == Spec => []IInv
<1>1. ASSUME Init PROVE IInv
  <2> USE <1>1 DEF Init
  <2>1. Types
    BY OnboardingAssumption DEF Types, Customer, Verdicts, Activity
  <2>2. AttemptsCounted /\ SessionsGrounded
    BY DEF AttemptsCounted, SessionsGrounded
  <2>3. WorkersInv
    BY DEF WorkersInv, StarterAlone, VerdictGrounded, ResolverAlone, Idle
  <2>4. ApprovedWasVerified /\ ProvisionedOnce
    BY DEF ApprovedWasVerified, ProvisionedOnce
  <2> QED BY <2>1, <2>2, <2>3, <2>4 DEF IInv
<1>2. ASSUME IInv, [Next]_vars PROVE IInv'
  <2>1. ASSUME NEW w \in Workers, Crash(w) PROVE IInv'
    <3>1. Idle \in Activity /\ Idle.at = "idle"
      BY DEF Activity, Idle
    <3>2. /\ UNCHANGED <<customer, ledger, sessions, stripe>> /\ inbound' \subseteq StripeEvents
          /\ overrides' \in 0 .. MaxOverrides /\ crashes' \subseteq Workers
      BY <1>2, <2>1, OnboardingAssumption DEF Crash, kycVars, IInv, Types
    <3> QED BY <1>2, <2>1, <3>1, <3>2, WorkerMoves DEF Crash
  <2>2. CASE OverrideKycLock
    <3>1. /\ customer' \in Customer /\ customer'.approval = customer.approval
          /\ overrides' \in 0 .. MaxOverrides
          /\ UNCHANGED <<ledger, sessions, stripe, inbound, worker, crashes>>
      BY <1>2, <2>2, OnboardingAssumption DEF OverrideKycLock, IInv, Types, Customer, Verdicts
    <3>2. StripeKeeps /\ SessionsKeep
      BY <3>1 DEF StripeKeeps, SessionsKeep
    <3>3. Types' /\ AttemptsCounted' /\ WorkersInv' /\ SessionsGrounded'
      BY <1>2, <3>1 DEF IInv, Types, AttemptsCounted, WorkersInv, StarterAlone, VerdictGrounded,
                        ResolverAlone, SessionsGrounded
    <3> QED BY <1>2, <3>1, <3>2, <3>3, ApprovalFrame DEF IInv
  <2>3. CASE UNCHANGED vars
    BY <1>2, <2>3 DEF vars, IInv, Types, AttemptsCounted, WorkersInv, StarterAlone,
         VerdictGrounded, ResolverAlone, SessionsGrounded, ApprovedWasVerified, ProvisionedOnce
  <2> QED
    BY <1>2, <2>1, <2>2, <2>3, StartVerificationKeeps, StartKycSessionKeeps, StripeDecidesKeeps,
       WebhookKeeps, StatusRequestKeeps, SyncKeeps, ResolveKeeps, CommitVerdictKeeps DEF Next, Step
<1> QED BY <1>1, <1>2, PTL DEF Spec

\* Nobody is approved whom Stripe did not verify, whatever webhooks, requests,
\* overrides and crashes interleave (AccountApprovalService.approve_if_eligible).
THEOREM ApprovedCustomersVerified == Spec => []ApprovedWasVerified
<1>1. IInv => ApprovedWasVerified
  BY DEF IInv
<1> QED BY <1>1, OnboardingInvariant, PTL

\* An approved account has its ledger rows once each, however many verdicts
\* approve it at the same time (_ensure_ledger_accounts).
THEOREM LedgerRowsOnce == Spec => []ProvisionedOnce
<1>1. IInv => ProvisionedOnce
  BY DEF IInv
<1> QED BY <1>1, OnboardingInvariant, PTL

\* The rows keep the types of their columns.
THEOREM OnboardingTypes == Spec => []TypeOK
<1>1. IInv => TypeOK
  BY DEF IInv, Types, TypeOK, StripeRows
<1> QED BY <1>1, OnboardingInvariant, PTL

\* The status of a session moves once: no late webhook, status request or second
\* worker changes a verdict (trigger kyc_session_before_update).
THEOREM VerdictsAreFinal == Spec => VerdictFinal
<1>1. ASSUME IInv, [Next]_vars
      PROVE  \A s \in DOMAIN sessions :
               sessions[s].status # "pending" => sessions'[s].status = sessions[s].status
  <2>1. CASE Next
    BY <1>1, <2>1, Keeps DEF SessionsKeep
  <2>2. CASE UNCHANGED vars
    BY <2>2 DEF vars
  <2> QED BY <1>1, <2>1, <2>2
<1> QED BY <1>1, OnboardingInvariant, PTL DEF Spec, VerdictFinal

-----------------------------------------------------------------------------
\* Rebalance: the inductive invariant

\* Rows of the order table.
Statuses == {"awaiting_approval", "approved", "submitted", "filled"}
OrderRow == [customer : Customers, security : Securities, side : {"buy", "sell"},
             quantity : Int, notional : Int, origin : Processes \cup {None},
             status : Statuses]

\* The orders on hold for c that take cash, and how much.
Held(c, os) == {i \in HeldFor(c, os) : os[i].notional >= 0}
HeldCash(c, os) == NotionalOf(Held(c, os), os)

\* The books, and the orders on them.
BooksTyped ==
  /\ DOMAIN units = Customers /\ \A c \in Customers : units[c] \in [Securities -> Nat]
  /\ DOMAIN price = Securities /\ \A s \in Securities : price[s] \in Prices \cup {None}
  /\ DOMAIN assigned = Customers /\ \A c \in Customers : assigned[c] \in Models \cup {None}
  /\ orders \in Seq(OrderRow)

\* What a run has placed, for whom, and the customers it has checked the cash of.
RunTyped(r) ==
  /\ DOMAIN r.todo \subseteq Customers /\ \A c \in DOMAIN r.todo : r.todo[c] \in Models
  /\ r.placed \in Seq(OrderRow)
  /\ \A c \in DOMAIN r.sized : r.sized[c] \in Int
  /\ \A c \in DOMAIN r.checked : r.checked[c] \in Int /\ c \in r.locks /\ c \notin DOMAIN r.todo
  /\ \A i \in DOMAIN r.placed : r.placed[i].side = "buy" =>
       r.placed[i].customer \in DOMAIN r.sized /\ r.placed[i].customer \notin DOMAIN r.todo

\* What a run is to sell and to buy, and how much of it.
Lists(r) ==
  /\ DOMAIN r.excess \subseteq Securities
  /\ \A s \in DOMAIN r.excess : r.excess[s] \in Int /\ price[s] \in Prices
  /\ r.sells \subseteq DOMAIN r.excess /\ \A s \in r.sells : r.excess[s] < 0
  /\ r.buys \subseteq DOMAIN r.excess /\ \A s \in r.buys : r.excess[s] >= 0

\* The customer a run is at.
AtCustomer(r) ==
  /\ r.customer \in Customers /\ r.customer \notin DOMAIN r.todo /\ r.model \in Models
  /\ r.total \in Int /\ r.funds \in Int
  /\ Lists(r)

\* What a run buys for c, and the roundings that may add up in it.
Bought(c, os) == NotionalOf(Placed(c, "buy", os), os)
Room(c, os) == Slack * Cardinality(Placed(c, "buy", os))

\* The buys so far are within the cash they were sized by, less what remains.
Within(r) ==
  /\ \A c \in DOMAIN r.sized : Placed(c, "buy", r.placed) # {} =>
       Bought(c, r.placed) <= r.sized[c] + Room(c, r.placed)
  /\ r.at \in {"valued", "sells", "sizing"} =>
       Placed(r.customer, "buy", r.placed) = {} /\ r.customer \notin DOMAIN r.checked
  /\ r.at \in {"buys", "checking"} =>
       /\ r.customer \in DOMAIN r.sized /\ r.remaining \in Int
       /\ Bought(r.customer, r.placed) <= r.sized[r.customer] - r.remaining + Room(r.customer, r.placed)
  /\ r.at = "checking" => r.buys # {} /\ r.remaining > 0 /\ r.customer \in r.locks

\* A run that is at a customer has more fields.
RunFields == {"at", "date", "todo", "placed", "locks", "sized", "checked"}
AllFields == {"at", "date", "todo", "placed", "locks", "sized", "checked",
              "customer", "model", "total", "excess", "sells", "buys", "funds",
              "remaining", "admitted"}
AtOne == {"valued", "sells", "sizing", "buys", "checking"}

\* A run that is under way.
RunOK(r) ==
  /\ (r.at = "next" /\ DOMAIN r = RunFields) \/ (r.at \in AtOne /\ DOMAIN r = AllFields)
  /\ RunTyped(r)
  /\ r.at # "next" => AtCustomer(r)
  /\ Within(r)

\* The advisory lock lets one run go on at a time.
RunsTyped ==
  /\ DOMAIN runner = Processes
  /\ \A p, q \in Processes : runner[p].at # "exited" /\ runner[q].at # "exited" => p = q
  /\ \A p \in Running : RunOK(runner[p])

\* The cash on hold for the customers a run has checked is within what it counted on.
ChecksHold(r) == \A c \in DOMAIN r.checked : HeldCash(c, orders) + HeldCash(c, r.placed) <= r.checked[c]
Covered == \A p \in Running : ChecksHold(runner[p])

\* The inductive invariant.
RebalanceInv == BooksTyped /\ RunsTyped /\ Covered

\* The sums of the model are those of Sums.
LEMMA SumIsTotal ==
  ASSUME NEW f, NEW S
  PROVE  SumOver(f, S) = Total(f, S)
<1>1. SumOver(f, S) = Iter(f, S)[S]
  BY DEF SumOver, FoldFunctionOnSet, MapThenFoldSet, Iter, AddsUp, First
<1> QED BY <1>1, TotalUnfolds

-----------------------------------------------------------------------------
\* Rounding

\* Rounding to a whole number is off by at most a half.
LEMMA QuantizeNear ==
  ASSUME NEW n \in Int, NEW d \in Nat \ {0}
  PROVE  /\ Quantize(n, d) \in Int
         /\ 2 * (d * Quantize(n, d)) <= 2 * n + d
         /\ 2 * n - d <= 2 * (d * Quantize(n, d))
<1> DEFINE q == n \div d
           r == n % d
<1>1. q \in Int /\ r \in Int /\ 0 <= r /\ r < d /\ n = d * q + r
  BY Z3
<1>2. Quantize(n, d) = IF 2 * r < d \/ (2 * r = d /\ q % 2 = 0) THEN q ELSE q + 1
  BY DEF Quantize
<1> HIDE DEF q, r
<1>3. d * q \in Int /\ d * (q + 1) = d * q + d
  BY <1>1, Z3
<1>4. CASE Quantize(n, d) = q /\ 2 * r <= d
  BY <1>1, <1>3, <1>4
<1>5. CASE Quantize(n, d) = q + 1 /\ d <= 2 * r
  BY <1>1, <1>3, <1>5
<1>6. (Quantize(n, d) = q /\ 2 * r <= d) \/ (Quantize(n, d) = q + 1 /\ d <= 2 * r)
  BY <1>1, <1>2
<1> QED BY <1>4, <1>5, <1>6

\* What is not negative stays so.
LEMMA QuantizeNat ==
  ASSUME NEW n \in Nat, NEW d \in Nat \ {0}
  PROVE  Quantize(n, d) \in Nat
<1> DEFINE q == n \div d
<1>1. q \in Nat
  BY Z3
<1>2. Quantize(n, d) = q \/ Quantize(n, d) = q + 1
  BY DEF Quantize
<1> QED BY <1>1, <1>2

\* The greatest multiple that fits.
LEMMA FitsIn ==
  ASSUME NEW k \in Int, NEW m \in Nat \ {0}, NEW a \in Int, m * k <= a
  PROVE  k <= a \div m
<1> DEFINE q == a \div m
           r == a % m
<1>1. q \in Int /\ r \in Int /\ 0 <= r /\ r < m /\ a = m * q + r
  BY Z3
<1> HIDE DEF q, r
<1>2. ASSUME k > q PROVE FALSE
  <2>1. k - q - 1 \in Nat
    BY <1>1, <1>2
  <2>2. m * k = m * q + m + m * (k - q - 1) /\ m * (k - q - 1) \in Nat
    BY <1>1, <2>1, Z3
  <2>3. m * k \in Int /\ m * q \in Int
    BY <1>1
  <2> HIDE DEF q
  <2> QED BY <1>1, <2>2, <2>3
<1> QED BY <1>1, <1>2 DEF q

\* The value of x turned into units at price p and back.
LEMMA RoundTrip ==
  ASSUME NEW x \in Nat, NEW p \in Nat \ {0}, NEW most \in Nat, p <= most
  PROVE  /\ UnitsFor(x, p) \in Nat /\ Times(p, UnitsFor(x, p)) \in Nat
         /\ Times(p, UnitsFor(x, p)) <= x + ((most + Scale) \div (2 * Scale))
<1> DEFINE u == UnitsFor(x, p)
           v == Times(p, u)
<1>0. Scale \in Nat \ {0}
  BY ScaleAssumption
<1>1. x * Scale \in Nat
  BY <1>0
<1>2. u = Quantize(x * Scale, p)
  BY DEF UnitsFor
<1>3. u \in Nat /\ 2 * (p * u) <= 2 * (x * Scale) + p
  <2> DEFINE n == x * Scale
  <2>1. n \in Nat /\ n \in Int
    BY <1>1
  <2> HIDE DEF n
  <2>2. Quantize(n, p) \in Nat /\ 2 * (p * Quantize(n, p)) <= 2 * n + p
    BY <2>1, QuantizeNear, QuantizeNat
  <2> QED BY <1>2, <2>2 DEF n
<1> HIDE DEF u
<1>4. p * u \in Nat
  BY <1>3
<1>5. v = Quantize(p * u, Scale)
  BY DEF Times
<1>6. v \in Nat /\ 2 * (Scale * v) <= 2 * (p * u) + Scale
  <2> DEFINE n == p * u
  <2>1. n \in Nat /\ n \in Int
    BY <1>4
  <2> HIDE DEF n
  <2>2. Quantize(n, Scale) \in Nat /\ 2 * (Scale * Quantize(n, Scale)) <= 2 * n + Scale
    BY <1>0, <2>1, QuantizeNear, QuantizeNat
  <2> QED BY <1>5, <2>2 DEF n
<1> HIDE DEF v
<1>7. (2 * Scale) * (v - x) = 2 * (Scale * v) - 2 * (x * Scale) /\ 2 * Scale \in Nat \ {0}
      /\ Scale * v \in Nat
  BY <1>0, <1>6, Z3
<1>8. (2 * Scale) * (v - x) <= most + Scale
  <2> DEFINE a == Scale * v
             b == x * Scale
             e == p * u
  <2>1. a \in Int /\ b \in Int /\ e \in Int /\ 2 * e <= 2 * b + p /\ 2 * a <= 2 * e + Scale
    BY <1>1, <1>3, <1>4, <1>6, <1>7
  <2>2. (2 * Scale) * (v - x) = 2 * a - 2 * b
    BY <1>7
  <2> HIDE DEF a, b, e
  <2> QED BY <1>0, <2>1, <2>2
<1>9. v - x <= (most + Scale) \div (2 * Scale)
  <2>1. v - x \in Int /\ most + Scale \in Int
    BY <1>0, <1>6
  <2> QED BY <1>7, <1>8, <2>1, FitsIn
<1>10. (most + Scale) \div (2 * Scale) \in Int
  BY <1>0, <1>7
<1> DEFINE w == (most + Scale) \div (2 * Scale)
<1>11. v - x <= w /\ w \in Int
  BY <1>9, <1>10
<1> HIDE DEF w
<1>12. v <= x + w
  BY <1>6, <1>11
<1> QED BY <1>3, <1>6, <1>12 DEF u, v, w

-----------------------------------------------------------------------------
\* Notionals

\* Notionals of orders add up to a number, those that take cash to a natural one.
LEMMA NotionalInt ==
  ASSUME NEW os \in Seq(OrderRow), NEW I \in SUBSET (DOMAIN os)
  PROVE  /\ NotionalOf(I, os) \in Int /\ IsFiniteSet(I)
         /\ \A i \in I : NotionalOf(I, os) = os[i].notional + NotionalOf(I \ {i}, os)
         /\ \A J \in SUBSET I : NotionalOf(I, os) = NotionalOf(J, os) + NotionalOf(I \ J, os)
<1> DEFINE f == [i \in DOMAIN os |-> os[i].notional]
<1>1. DOMAIN os = 1 .. Len(os) /\ Len(os) \in Nat /\ \A i \in DOMAIN os : os[i] \in OrderRow
  OBVIOUS
<1>2. IsFiniteSet(I)
  <2>1. IsFiniteSet(1 .. Len(os))
    BY <1>1, FS_Interval
  <2>2. I \subseteq 1 .. Len(os)
    BY <1>1
  <2> QED BY <2>1, <2>2, FS_Subset
<1>3. \A i \in I : f[i] \in Int /\ f[i] = os[i].notional
  BY <1>1 DEF OrderRow
<1>4. \A J : NotionalOf(J, os) = Total(f, J)
  BY SumIsTotal DEF NotionalOf
<1> HIDE DEF f
<1>5. Total(f, I) \in Int
  BY <1>2, <1>3, TotalInt
<1>6. ASSUME NEW J \in SUBSET I PROVE Total(f, I) = Total(f, J) + Total(f, I \ J)
  <2>1. J \cup (I \ J) = I /\ J \cap (I \ J) = {} /\ IsFiniteSet(J) /\ IsFiniteSet(I \ J)
    BY <1>2, FS_Subset
  <2> DEFINE K == I \ J
  <2>2. IsFiniteSet(J) /\ IsFiniteSet(K) /\ J \cap K = {} /\ \A x \in J \cup K : f[x] \in Int
    BY <1>3, <2>1
  <2> HIDE DEF K
  <2>3. Total(f, J \cup K) = Total(f, J) + Total(f, K)
    BY <2>2, TotalUnion
  <2> QED BY <2>1, <2>3 DEF K
<1>7. \A i \in I : Total(f, I) = f[i] + Total(f, I \ {i})
  BY <1>2, <1>3, TotalRemove
<1> QED BY <1>2, <1>3, <1>4, <1>5, <1>6, <1>7

\* Fewer orders that take cash take less of it.
LEMMA NotionalNat ==
  ASSUME NEW os \in Seq(OrderRow), NEW I \in SUBSET (DOMAIN os), \A i \in I : os[i].notional >= 0
  PROVE  /\ NotionalOf(I, os) \in Nat
         /\ \A J \in SUBSET I : NotionalOf(J, os) <= NotionalOf(I, os)
<1> DEFINE f == [i \in DOMAIN os |-> os[i].notional]
<1>1. \A i \in I : os[i] \in OrderRow
  OBVIOUS
<1>2. IsFiniteSet(I)
  BY NotionalInt
<1>3. \A i \in I : f[i] \in Nat
  BY <1>1 DEF OrderRow
<1>4. \A J : NotionalOf(J, os) = Total(f, J)
  BY SumIsTotal DEF NotionalOf
<1> HIDE DEF f
<1>5. Total(f, I) \in Nat
  BY <1>2, <1>3, TotalNat
<1>6. \A J \in SUBSET I : Total(f, J) <= Total(f, I)
  BY <1>2, <1>3, TotalMonotone
<1> QED BY <1>4, <1>5, <1>6

\* The same orders, with the same notionals.
LEMMA NotionalSame ==
  ASSUME NEW os \in Seq(OrderRow), NEW ns \in Seq(OrderRow), NEW I \in SUBSET (DOMAIN os),
         I \subseteq DOMAIN ns, \A i \in I : ns[i].notional = os[i].notional
  PROVE  NotionalOf(I, ns) = NotionalOf(I, os)
<1> DEFINE f == [i \in DOMAIN os |-> os[i].notional]
           g == [i \in DOMAIN ns |-> ns[i].notional]
<1>1. IsFiniteSet(I)
  BY NotionalInt
<1>2. \A i \in I : f[i] \in Int /\ g[i] = f[i]
  <2>1. \A i \in I : os[i] \in OrderRow
    OBVIOUS
  <2>2. \A i \in I : os[i].notional \in Int
    BY <2>1 DEF OrderRow
  <2> QED BY <2>2
<1>3. NotionalOf(I, os) = Total(f, I) /\ NotionalOf(I, ns) = Total(g, I)
  BY SumIsTotal DEF NotionalOf
<1> HIDE DEF f, g
<1> QED BY <1>1, <1>2, <1>3, TotalSame

\* One order more.
LEMMA NotionalAppend ==
  ASSUME NEW os \in Seq(OrderRow), NEW o \in OrderRow, NEW I \in SUBSET (DOMAIN os)
  PROVE  /\ Append(os, o) \in Seq(OrderRow)
         /\ NotionalOf(I, Append(os, o)) = NotionalOf(I, os)
         /\ NotionalOf(I \cup {Len(os) + 1}, Append(os, o)) = o.notional + NotionalOf(I, os)
<1> DEFINE ns == Append(os, o)
           n == Len(os) + 1
           J == I \cup {n}
<1>1. ns \in Seq(OrderRow) /\ n \in DOMAIN ns /\ ns[n] = o /\ n \notin DOMAIN os
      /\ \A i \in DOMAIN os : i \in DOMAIN ns /\ ns[i] = os[i]
  OBVIOUS
<1> HIDE DEF ns, n
<1>2. NotionalOf(I, ns) = NotionalOf(I, os)
  BY <1>1, NotionalSame
<1>3. J \in SUBSET (DOMAIN ns) /\ n \in J /\ J \ {n} = I
  BY <1>1
<1> HIDE DEF J
<1>4. NotionalOf(J, ns) = ns[n].notional + NotionalOf(J \ {n}, ns)
  BY <1>1, <1>3, NotionalInt
<1> QED BY <1>1, <1>2, <1>3, <1>4 DEF J, ns, n

\* Two lists of orders, one after the other.
LEMMA NotionalConcat ==
  ASSUME NEW s \in Seq(OrderRow), NEW t \in Seq(OrderRow),
         NEW I \in SUBSET (DOMAIN s), NEW J \in SUBSET (DOMAIN t)
  PROVE  /\ s \o t \in Seq(OrderRow)
         /\ NotionalOf(I \cup {Len(s) + j : j \in J}, s \o t) = NotionalOf(I, s) + NotionalOf(J, t)
<1> DEFINE st == s \o t
           n == Len(s)
           K == {n + j : j \in J}
           f == [i \in DOMAIN st |-> st[i].notional]
           g == [i \in DOMAIN t |-> t[i].notional]
<1>1. st \in Seq(OrderRow) /\ n \in Nat /\ J \subseteq Nat \ {0}
      /\ (\A i \in DOMAIN s : i <= n /\ i \in Nat /\ i \in DOMAIN st /\ st[i] = s[i])
      /\ (\A j \in DOMAIN t : n + j \in DOMAIN st /\ st[n + j] = t[j])
  OBVIOUS
<1> HIDE DEF st, n
<1>2. I \subseteq DOMAIN st /\ K \subseteq DOMAIN st /\ I \cap K = {}
  BY <1>1
<1>3. IsFiniteSet(I) /\ IsFiniteSet(J) /\ IsFiniteSet(K)
  BY <1>1, <1>2, NotionalInt
<1>4. /\ \A j \in J : g[j] \in Int /\ f[n + j] = g[j]
      /\ \A x \in I \cup K : f[x] \in Int
  <2>1. (\A j \in DOMAIN t : t[j] \in OrderRow) /\ \A i \in DOMAIN st : st[i] \in OrderRow
    BY <1>1
  <2>2. (\A j \in DOMAIN t : t[j].notional \in Int) /\ \A i \in DOMAIN st : st[i].notional \in Int
    BY <2>1 DEF OrderRow
  <2> QED BY <1>1, <1>2, <2>2
<1>6. /\ NotionalOf(I \cup K, st) = Total(f, I \cup K) /\ NotionalOf(J, t) = Total(g, J)
      /\ NotionalOf(I, st) = Total(f, I)
  BY SumIsTotal DEF NotionalOf
<1> HIDE DEF f, g, K
<1>7. Total(f, K) = Total(g, J)
  <2> DEFINE up(a) == {n + j : j \in a}
             T == {a \in SUBSET J : Total(f, up(a)) = Total(g, a) /\ IsFiniteSet(up(a)) /\ IsFiniteSet(a)}
  <2>1. {} \in T
    <3>1. up({}) = {}
      OBVIOUS
    <3>2. Total(f, {}) = 0 /\ Total(g, {}) = 0 /\ IsFiniteSet({})
      BY TotalEmpty, FS_EmptySet
    <3> HIDE DEF up
    <3> QED BY <3>1, <3>2
  <2>2. ASSUME NEW a \in T, NEW x \in J \ a PROVE a \cup {x} \in T
    <3>1. x \in J /\ x \in Nat /\ x \notin a /\ a \subseteq J /\ a \subseteq Nat
      BY <1>1
    <3>2. up(a \cup {x}) = up(a) \cup {n + x}
      OBVIOUS
    <3>3. n + x \notin up(a)
      BY <1>1, <3>1
    <3>4. (\A k \in up(a) : f[k] \in Int) /\ f[n + x] \in Int /\ f[n + x] = g[x]
          /\ \A j \in a : g[j] \in Int
      BY <1>4, <3>1
    <3>5. Total(f, up(a)) = Total(g, a) /\ IsFiniteSet(up(a)) /\ IsFiniteSet(a) /\ a \in SUBSET J
      OBVIOUS
    <3> HIDE DEF up, T
    <3>6. IsFiniteSet(up(a) \cup {n + x}) /\ IsFiniteSet(a \cup {x})
      BY <3>5, FS_AddElement
    <3>7. Total(f, up(a) \cup {n + x}) = f[n + x] + Total(f, up(a))
      BY <3>3, <3>4, <3>5, TotalInsert
    <3>8. Total(g, a \cup {x}) = g[x] + Total(g, a)
      BY <3>1, <3>4, <3>5, TotalInsert
    <3>9. Total(f, up(a \cup {x})) = Total(g, a \cup {x})
      BY <3>2, <3>4, <3>5, <3>7, <3>8
    <3> QED BY <3>1, <3>2, <3>5, <3>6, <3>9 DEF T
  <2>3. J \in T
    <3> HIDE DEF T
    <3> QED BY <1>3, <2>1, <2>2, SetInduction
  <2> QED BY <2>3 DEF K
<1>8. Total(f, I \cup K) = Total(f, I) + Total(f, K)
  BY <1>2, <1>3, <1>4, TotalUnion
<1>9. NotionalOf(I, st) = NotionalOf(I, s)
  <2>1. \A i \in I : st[i].notional = s[i].notional
    BY <1>1
  <2>2. st \in Seq(OrderRow) /\ I \subseteq DOMAIN st
    BY <1>1, <1>2
  <2> QED BY <2>1, <2>2, NotionalSame
<1>10. NotionalOf(I \cup K, st) = NotionalOf(I, s) + NotionalOf(J, t)
  BY <1>6, <1>7, <1>8, <1>9
<1> QED BY <1>1, <1>10 DEF K, st, n

\* The orders that take cash are among those on hold.
LEMMA HeldTyped ==
  ASSUME NEW os \in Seq(OrderRow), NEW c
  PROVE  /\ Held(c, os) \in SUBSET (DOMAIN os) /\ HeldFor(c, os) \in SUBSET (DOMAIN os)
         /\ HeldCash(c, os) \in Nat /\ holds(c, os) \in Int
<1>1. /\ Held(c, os) \in SUBSET (DOMAIN os) /\ HeldFor(c, os) \in SUBSET (DOMAIN os)
      /\ \A i \in Held(c, os) : os[i].notional >= 0
  BY DEF Held, HeldFor
<1> QED BY <1>1, NotionalInt, NotionalNat DEF HeldCash, holds

\* What is on hold on two lists.
LEMMA HeldConcat ==
  ASSUME NEW s \in Seq(OrderRow), NEW t \in Seq(OrderRow), NEW c
  PROVE  HeldCash(c, s \o t) = HeldCash(c, s) + HeldCash(c, t)
<1> DEFINE st == s \o t
           n == Len(s)
           K == {n + j : j \in Held(c, t)}
           takes(o) == o.customer = c /\ OnHold(o) /\ o.notional >= 0
<1>1. /\ n \in Nat
      /\ DOMAIN s = 1 .. n /\ DOMAIN t = 1 .. Len(t) /\ DOMAIN st = 1 .. (n + Len(t)) /\ Len(t) \in Nat
      /\ \A i \in DOMAIN st : st[i] = IF i <= n THEN s[i] ELSE t[i - n]
  OBVIOUS
<1>2. \A os : Held(c, os) = {i \in DOMAIN os : takes(os[i])}
  BY DEF Held, HeldFor
<1> HIDE DEF st, n, takes
<1>3. \A i \in DOMAIN st : i \in DOMAIN s \/ (i - n \in DOMAIN t /\ i = n + (i - n) /\ i > n)
  BY <1>1
<1>4. ASSUME NEW i \in Held(c, st) PROVE i \in Held(c, s) \cup K
  <2>1. i \in DOMAIN st /\ takes(st[i])
    BY <1>2, <1>4
  <2>2. CASE i \in DOMAIN s
    <3>1. st[i] = s[i]
      BY <1>1, <2>1, <2>2
    <3> QED BY <1>2, <2>1, <2>2, <3>1
  <2>3. CASE i - n \in DOMAIN t /\ i = n + (i - n) /\ i > n
    <3>1. st[i] = t[i - n]
      BY <1>1, <2>1, <2>3
    <3>2. i - n \in Held(c, t)
      BY <1>2, <2>1, <2>3, <3>1
    <3> QED BY <2>3, <3>2
  <2> QED BY <1>3, <2>1, <2>2, <2>3
<1>5. \A i \in Held(c, s) : i \in Held(c, st)
  <2>1. \A i \in DOMAIN s : i \in DOMAIN st /\ st[i] = s[i]
    BY <1>1
  <2> QED BY <1>2, <2>1
<1>6. \A j \in Held(c, t) : n + j \in Held(c, st)
  <2>1. \A j \in DOMAIN t : n + j \in DOMAIN st /\ st[n + j] = t[j]
    BY <1>1
  <2> QED BY <1>2, <2>1
<1>7. Held(c, st) = Held(c, s) \cup K
  <2>1. \A k \in K : k \in Held(c, st)
    BY <1>6
  <2> HIDE DEF K
  <2> QED BY <1>4, <1>5, <2>1
<1>8. Held(c, s) \in SUBSET (DOMAIN s) /\ Held(c, t) \in SUBSET (DOMAIN t)
  BY HeldTyped
<1>9. NotionalOf(Held(c, s) \cup {Len(s) + j : j \in Held(c, t)}, s \o t)
        = NotionalOf(Held(c, s), s) + NotionalOf(Held(c, t), t)
  BY <1>8, NotionalConcat
<1> QED BY <1>7, <1>9 DEF HeldCash, st, n

\* An order that is placed adds to what is on hold for its customer only.
LEMMA HeldAppend ==
  ASSUME NEW os \in Seq(OrderRow), NEW o \in OrderRow, NEW c
  PROVE  /\ o.customer # c => HeldCash(c, Append(os, o)) = HeldCash(c, os)
         /\ o.notional >= 0 => HeldCash(c, Append(os, o)) <= HeldCash(c, os) + o.notional
         /\ HeldCash(c, os) \in Nat /\ HeldCash(c, Append(os, o)) \in Nat
<1> DEFINE ns == Append(os, o)
           n == Len(os) + 1
<1>0. ns \in Seq(OrderRow) /\ o.notional \in Int
  BY DEF OrderRow
<1>1. DOMAIN ns = DOMAIN os \cup {n} /\ n \notin DOMAIN os /\ ns[n] = o
      /\ \A i \in DOMAIN os : ns[i] = os[i]
  OBVIOUS
<1> HIDE DEF ns, n
<1>2. /\ Held(c, ns) = Held(c, os) \cup {n} \/ Held(c, ns) = Held(c, os)
      /\ o.customer # c => Held(c, ns) = Held(c, os)
  BY <1>1 DEF Held, HeldFor
<1>3. Held(c, os) \in SUBSET (DOMAIN os)
  BY HeldTyped
<1>4. /\ NotionalOf(Held(c, os), ns) = NotionalOf(Held(c, os), os)
      /\ NotionalOf(Held(c, os) \cup {n}, ns) = o.notional + NotionalOf(Held(c, os), os)
  BY <1>3, NotionalAppend DEF ns, n
<1>5. HeldCash(c, os) \in Nat /\ HeldCash(c, ns) \in Nat
  BY <1>0, HeldTyped
<1>6. HeldCash(c, ns) = HeldCash(c, os) \/ HeldCash(c, ns) = o.notional + HeldCash(c, os)
  BY <1>2, <1>4 DEF HeldCash
<1>7. o.customer # c => HeldCash(c, ns) = HeldCash(c, os)
  BY <1>2, <1>4 DEF HeldCash
<1> QED BY <1>0, <1>5, <1>6, <1>7 DEF ns

\* A check that passes counts on cash for all that is on hold, and for the buy.
LEMMA CountedCovers ==
  ASSUME NEW p, NEW os \in Seq(OrderRow), os = orders \o runner[p].placed,
         runner[p].funds \in Int, NEW n \in Int, n <= investable(p)
  PROVE  Counted(p) \in Int /\ HeldCash(runner[p].customer, os) + n <= Counted(p)
<1> DEFINE c == runner[p].customer
           H == HeldFor(c, os)
           P == Held(c, os)
           N == {i \in H : os[i].notional < 0}
<1>1. H \in SUBSET (DOMAIN os) /\ P \in SUBSET H /\ N \in SUBSET (DOMAIN os) /\ P \in SUBSET (DOMAIN os)
  BY DEF HeldFor, Held
<1>2. H \ P = N
  <2>1. \A i \in H : os[i].notional \in Int
    <3>1. \A i \in H : os[i] \in OrderRow
      BY <1>1
    <3> QED BY <3>1 DEF OrderRow
  <2>2. /\ P = {i \in H : os[i].notional >= 0}
        /\ N = {i \in H : os[i].notional < 0}
    BY DEF Held
  <2> HIDE DEF H, P, N
  <2>3. \A i \in H : os[i].notional < 0 <=> ~ (os[i].notional >= 0)
    <3>1. \A m \in Int : m < 0 <=> ~ (m >= 0)
      OBVIOUS
    <3> QED BY <2>1, <3>1, Zenon
  <2> QED BY <2>2, <2>3
<1>3. /\ investable(p) = runner[p].funds - NotionalOf(H, os) /\ Counted(p) = runner[p].funds - NotionalOf(N, os)
      /\ HeldCash(c, os) = NotionalOf(P, os)
  BY DEF investable, holds, Counted, HeldCash
<1> HIDE DEF H, P, N
<1>4. NotionalOf(H, os) = NotionalOf(P, os) + NotionalOf(N, os)
  <2>1. NotionalOf(H, os) = NotionalOf(P, os) + NotionalOf(H \ P, os)
    BY <1>1, NotionalInt
  <2> QED BY <1>2, <2>1
<1>5. NotionalOf(P, os) \in Int /\ NotionalOf(N, os) \in Int
  BY <1>1, NotionalInt
<1> DEFINE a == NotionalOf(P, os)
           b == NotionalOf(N, os)
           f == runner[p].funds
<1>6. a \in Int /\ b \in Int /\ f \in Int /\ n <= f - (a + b) /\ Counted(p) = f - b /\ HeldCash(c, os) = a
  BY <1>3, <1>4, <1>5
<1> HIDE DEF a, b, f
<1> QED BY <1>6

\* Every security is read at some place.
LEMMA Read ==
  /\ DOMAIN Ranked = 1 .. Len(Ranked) /\ Len(Ranked) \in Nat
  /\ \A i \in DOMAIN Ranked : Ranked[i] \in Securities
  /\ \A s \in Securities : \E i \in DOMAIN Ranked : Ranked[i] = s
BY RebalanceAssumption DEF ToSet

\* The security worked on is one of those left.
LEMMA ForemostIsThere ==
  ASSUME NEW S, S \subseteq Securities, S # {}
  PROVE  Foremost(S) \in S
<1> DEFINE I == {i \in DOMAIN Ranked : Ranked[i] \in S}
<1>1. I \subseteq Nat /\ I # {}
  BY Read
<1>2. \E m \in I : \A x \in I : m <= x
  <2> HIDE DEF I
  <2> QED BY <1>1, Least
<1>3. \E i \in DOMAIN Ranked : Ranked[i] \in S /\ \A j \in DOMAIN Ranked : Ranked[j] \in S => i <= j
  BY <1>2
<1> QED BY <1>3 DEF Foremost

\* The prices have a highest one.
LEMMA PricesBounded ==
  ASSUME BooksTyped
  PROVE  \E m \in Nat : \A s \in Securities : price[s] # None => price[s] <= m
<1> DEFINE B(n, m) == \A i \in 1 .. n : price[Ranked[i]] # None => price[Ranked[i]] <= m
           T == {n \in Nat : n <= Len(Ranked) => \E m \in Nat : B(n, m)}
<1>1. \A s \in Securities : price[s] # None => price[s] \in Nat
  BY RebalanceAssumption DEF BooksTyped
<1>2. 0 \in T
  <2>1. B(0, 0)
    OBVIOUS
  <2> HIDE DEF B
  <2> QED BY <2>1
<1>3. ASSUME NEW n \in T PROVE n + 1 \in T
  <2>0. n + 1 \in Nat
    OBVIOUS
  <2> SUFFICES ASSUME n + 1 <= Len(Ranked) PROVE \E m \in Nat : B(n + 1, m)
    <3> HIDE DEF B
    <3> QED BY <2>0
  <2>1. n \in Nat /\ n <= Len(Ranked) /\ n + 1 \in DOMAIN Ranked
    BY Read
  <2>2. PICK m \in Nat : B(n, m)
    BY <2>1
  <2>3. \A i \in 1 .. n + 1 : i \in 1 .. n \/ i = n + 1
    BY <2>1
  <2>4. \A i \in 1 .. n + 1 : Ranked[i] \in Securities
    BY <2>1, Read
  <2>5. CASE price[Ranked[n + 1]] # None
    <3>1. price[Ranked[n + 1]] \in Nat
      BY <1>1, <2>1, <2>5, Read
    <3>2. m + price[Ranked[n + 1]] \in Nat
      BY <3>1
    <3>3. B(n + 1, m + price[Ranked[n + 1]])
      BY <1>1, <2>2, <2>3, <2>4, <3>1
    <3> QED BY <3>2, <3>3
  <2>6. CASE price[Ranked[n + 1]] = None
    <3>1. B(n + 1, m)
      BY <2>2, <2>3, <2>6
    <3> QED BY <3>1
  <2> QED BY <2>5, <2>6
<1>4. T = Nat
  <2>1. T \subseteq Nat
    OBVIOUS
  <2> HIDE DEF T
  <2> QED BY <1>2, <1>3, <2>1, Induction
<1>5. PICK m \in Nat : B(Len(Ranked), m)
  <2>1. Len(Ranked) \in Nat /\ Len(Ranked) <= Len(Ranked)
    BY Read
  <2>2. Len(Ranked) \in T
    BY <1>4, <2>1
  <2> HIDE DEF B
  <2> QED BY <2>1, <2>2
<1>6. \A s \in Securities : price[s] # None => price[s] <= m
  BY <1>5, Read
<1> QED BY <1>6

\* The slack covers the rounding of one buy.
LEMMA SlackCovers ==
  ASSUME BooksTyped
  PROVE  /\ Slack \in Nat
         /\ \A s \in Securities : \A x \in Nat : price[s] \in Prices =>
              /\ UnitsFor(x, price[s]) \in Nat /\ Times(price[s], UnitsFor(x, price[s])) \in Nat
              /\ Times(price[s], UnitsFor(x, price[s])) <= x + Slack
<1> DEFINE P == {price[s] : s \in {r \in Securities : price[r] # None}} \cup {0}
<1>1. \A s \in Securities : price[s] # None => price[s] \in Nat \ {0}
  BY RebalanceAssumption DEF BooksTyped
<1>2. PICK n \in Nat : \A s \in Securities : price[s] # None => price[s] <= n
  BY PricesBounded
<1>3. P \subseteq Nat /\ P # {} /\ \A x \in P : x <= n
  BY <1>1, <1>2
<1>4. \A s \in Securities : price[s] \in Prices => price[s] \in P /\ price[s] \in Nat \ {0}
  BY RebalanceAssumption
<1>5. Slack = (Max(P) + Scale) \div (2 * Scale)
  BY DEF Slack
<1> HIDE DEF P
<1>6. \E m \in P : \A x \in P : x <= m
  BY <1>3, Greatest
<1>7. \E m \in P : \A x \in P : m >= x
  BY <1>3, <1>6
<1>8. Max(P) \in P /\ \A x \in P : Max(P) >= x
  BY <1>7 DEF Max
<1> DEFINE most == Max(P)
<1>9. most \in Nat /\ \A x \in P : x <= most
  BY <1>3, <1>8
<1> HIDE DEF most
<1>10. Slack = (most + Scale) \div (2 * Scale)
  BY <1>5 DEF most
<1>11. Slack \in Nat
  <2>1. most + Scale \in Nat /\ 2 * Scale \in Nat \ {0}
    BY <1>9, ScaleAssumption
  <2> QED BY <1>10, <2>1, Z3
<1>12. ASSUME NEW s \in Securities, NEW x \in Nat, price[s] \in Prices
       PROVE  /\ UnitsFor(x, price[s]) \in Nat /\ Times(price[s], UnitsFor(x, price[s])) \in Nat
              /\ Times(price[s], UnitsFor(x, price[s])) <= x + Slack
  <2>1. price[s] \in Nat \ {0} /\ price[s] <= most
    BY <1>4, <1>9, <1>12
  <2> QED BY <1>9, <1>10, <2>1, RoundTrip
<1> QED BY <1>11, <1>12

-----------------------------------------------------------------------------
\* Steps of a run

\* A run that works on: only its record changes.
LEMMA RunStep ==
  ASSUME RebalanceInv, NEW p \in Running, NEW r, RunOK(r), ChecksHold(r),
         Become(p, r), UNCHANGED custVars
  PROVE  RebalanceInv'
<1>1. DOMAIN runner = Processes /\ p \in Processes /\ runner[p].at # "exited"
  BY DEF RebalanceInv, RunsTyped, Running, Working
<1>2. DOMAIN runner' = Processes /\ runner'[p] = r /\ \A q \in Processes : q # p => runner'[q] = runner[q]
  BY <1>1 DEF Become
<1>3. UNCHANGED <<units, price, assigned, eligible, orders, acts>>
  BY DEF custVars
<1>4. BooksTyped'
  BY <1>3 DEF RebalanceInv, BooksTyped
<1>5. \A q \in Processes : q # p => runner[q].at = "exited"
  BY <1>1 DEF RebalanceInv, RunsTyped
<1>6. \A q \in Processes : q # p => runner'[q].at = "exited"
  BY <1>2, <1>5
<1>7. r.at = "next" \/ r.at \in AtOne
  BY DEF RunOK
<1>8. Running' = {p}
  BY <1>1, <1>2, <1>6, <1>7 DEF Running, Working, AtOne
<1>9. RunOK(r)'
  <2>1. Slack' = Slack
    BY <1>3 DEF Slack
  <2>2. \A c : \A os : Room(c, os)' = Room(c, os)
    BY <2>1 DEF Room
  <2>3. Within(r)'
    BY <2>2 DEF RunOK, Within
  <2>4. RunTyped(r)' /\ (r.at # "next" => AtCustomer(r)')
    BY <1>3 DEF RunOK, RunTyped, AtCustomer, Lists
  <2> QED BY <2>3, <2>4 DEF RunOK
<1>10. RunsTyped'
  BY <1>2, <1>6, <1>8, <1>9 DEF RunsTyped
<1>11. Covered'
  BY <1>2, <1>3, <1>8 DEF Covered, ChecksHold
<1> QED BY <1>4, <1>10, <1>11 DEF RebalanceInv

\* A run that ends leaves nothing behind.
LEMMA RunEnds ==
  ASSUME RebalanceInv, NEW p \in Processes, runner[p].at # "exited", NEW r,
         r.at \in {"exited", "performed", "raised"}, Become(p, r),
         UNCHANGED <<units, price, assigned>>, orders' \in Seq(OrderRow)
  PROVE  RebalanceInv'
<1>1. DOMAIN runner = Processes
  BY DEF RebalanceInv, RunsTyped
<1>2. DOMAIN runner' = Processes /\ runner'[p] = r /\ \A q \in Processes : q # p => runner'[q] = runner[q]
  BY <1>1 DEF Become
<1>4. BooksTyped'
  BY DEF RebalanceInv, BooksTyped
<1>5. \A q \in Processes : q # p => runner'[q].at = "exited"
  BY <1>2 DEF RebalanceInv, RunsTyped
<1>6. Running' = {}
  BY <1>2, <1>5 DEF Running, Working
<1>7. RunsTyped'
  BY <1>2, <1>5, <1>6 DEF RunsTyped
<1>8. Covered'
  BY <1>6 DEF Covered
<1> QED BY <1>4, <1>7, <1>8 DEF RebalanceInv

\* A run starts with no orders and every assigned customer to do.
LEMMA StartKeeps ==
  ASSUME RebalanceInv, NEW p \in Processes, StartRebalance(p)
  PROVE  RebalanceInv'
<1> DEFINE todo == [c \in {x \in Customers : assigned[x] # None} |-> assigned[c]]
<1>1. PICK d \in MarketDates :
        StartJob(p, Between(d, todo, <<>>, {}, [c \in {} |-> 0], [c \in {} |-> 0]))
  BY DEF StartRebalance
<1>0. PICK r : r = Between(d, todo, <<>>, {}, [c \in {} |-> 0], [c \in {} |-> 0])
  OBVIOUS
<1>2. LockFree /\ Become(p, r)
  BY <1>0, <1>1 DEF StartJob
<1>3. UNCHANGED <<units, price, assigned, eligible, orders, acts>>
  BY DEF StartRebalance, custVars
<1>4. /\ r.at = "next" /\ r.todo = todo /\ r.placed = <<>> /\ r.locks = {}
      /\ DOMAIN r.sized = {} /\ DOMAIN r.checked = {} /\ DOMAIN r = RunFields
  BY <1>0 DEF Between, RunFields
<1>5. DOMAIN runner = Processes /\ \A q \in Processes : runner[q].at = "exited"
  BY <1>2 DEF RebalanceInv, RunsTyped, LockFree
<1>6. DOMAIN runner' = Processes /\ runner'[p] = r /\ \A q \in Processes : q # p => runner'[q] = runner[q]
  BY <1>2, <1>5 DEF Become
<1>7. BooksTyped'
  BY <1>3 DEF RebalanceInv, BooksTyped
<1>8. Running' = {p}
  BY <1>4, <1>5, <1>6 DEF Running, Working
<1>9. RunOK(r)'
  <2>1. r.placed \in Seq(OrderRow) /\ DOMAIN r.placed = {}
    BY <1>4
  <2>2. DOMAIN todo \subseteq Customers /\ \A c \in DOMAIN todo : todo[c] \in Models
    BY DEF RebalanceInv, BooksTyped
  <2> HIDE DEF todo
  <2>3. RunTyped(r)'
    BY <1>3, <1>4, <2>1, <2>2 DEF RunTyped
  <2>4. Within(r)'
    BY <1>4 DEF Within
  <2> QED BY <1>4, <2>3, <2>4 DEF RunOK
<1>10. RunsTyped'
  BY <1>5, <1>6, <1>8, <1>9 DEF RunsTyped
<1>11. Covered'
  BY <1>4, <1>6, <1>8 DEF Covered, ChecksHold
<1> QED BY <1>7, <1>10, <1>11 DEF RebalanceInv

\* A price times some units.
LEMMA TimesTyped ==
  ASSUME NEW p \in Int, NEW u \in Int
  PROVE  Times(p, u) \in Int /\ (p >= 0 /\ u >= 0 => Times(p, u) \in Nat)
<1> DEFINE n == p * u
<1>1. n \in Int
  OBVIOUS
<1>2. p >= 0 /\ u >= 0 => n \in Nat
  <2> SUFFICES ASSUME p \in Nat, u \in Nat PROVE n \in Nat
    OBVIOUS
  <2> QED OBVIOUS
<1> HIDE DEF n
<1>3. Quantize(n, Scale) \in Int
  BY <1>1, QuantizeNear, ScaleAssumption
<1>4. p >= 0 /\ u >= 0 => Quantize(n, Scale) \in Nat
  BY <1>2, QuantizeNat, ScaleAssumption
<1> QED BY <1>3, <1>4 DEF Times, n

\* Finitely many securities.
LEMMA SecuritiesFinite == IsFiniteSet(Securities)
<1> DEFINE T == {a \in SUBSET (1 .. Len(Ranked)) : IsFiniteSet({Ranked[i] : i \in a})}
<1>1. {} \in T
  <2>1. {Ranked[i] : i \in {}} = {}
    OBVIOUS
  <2> QED BY <2>1, FS_EmptySet
<1>2. ASSUME NEW a \in T, NEW x \in (1 .. Len(Ranked)) \ a PROVE a \cup {x} \in T
  <2>1. {Ranked[i] : i \in a \cup {x}} = {Ranked[i] : i \in a} \cup {Ranked[x]}
    OBVIOUS
  <2>2. IsFiniteSet({Ranked[i] : i \in a})
    OBVIOUS
  <2>3. IsFiniteSet({Ranked[i] : i \in a} \cup {Ranked[x]})
    BY <2>2, FS_AddElement
  <2> QED BY <2>1, <2>3
<1>3. IsFiniteSet(1 .. Len(Ranked))
  BY FS_Interval, Read
<1>4. 1 .. Len(Ranked) \in T
  <2> HIDE DEF T
  <2> QED BY <1>1, <1>2, <1>3, SetInduction
<1>5. {Ranked[i] : i \in 1 .. Len(Ranked)} = Securities
  BY Read
<1> QED BY <1>4, <1>5

\* A price is a whole number of price units.
LEMMA PriceTyped ==
  ASSUME NEW v \in Prices
  PROVE  v \in Int
<1>1. Prices \subseteq Nat \ {0}
  BY RebalanceAssumption
<1>2. v \in Nat
  BY <1>1
<1> QED BY <1>2

\* The value of a priced position.
LEMMA ValueTyped ==
  ASSUME BooksTyped, NEW c \in Customers, NEW s \in Securities, price[s] # None
  PROVE  price[s] \in Prices /\ Value(c, s) \in Int
<1>1. units[c][s] \in Int /\ price[s] \in Prices
  BY DEF BooksTyped
<1>2. price[s] \in Int
  BY <1>1, PriceTyped
<1> QED BY <1>1, <1>2, TimesTyped DEF Value

\* The total of a book that is complete, and any cash.
LEMMA TotalValueTyped ==
  ASSUME BooksTyped, NEW c \in Customers, Complete(c), NEW cash \in Int
  PROVE  total_value(c, cash) \in Int
<1> DEFINE f == [s \in Securities |-> IF units[c][s] = 0 THEN 0 ELSE Value(c, s)]
<1>1. \A s \in Securities : f[s] \in Int
  <2>1. \A s \in Securities : units[c][s] # 0 => price[s] # None
    BY DEF Complete, Positions
  <2> QED BY <2>1, ValueTyped
<1>2. total_value(c, cash) = cash + Total(f, Securities)
  BY SumIsTotal DEF total_value
<1> HIDE DEF f
<1>3. Total(f, Securities) \in Int
  BY <1>1, SecuritiesFinite, TotalInt
<1> QED BY <1>2, <1>3

\* The notional a flagged security is off by.
LEMMA FlaggedTyped ==
  ASSUME BooksTyped, NEW c \in Customers, NEW m \in Models, NEW total \in Int, Priced(c, Weights[m])
  PROVE  /\ DOMAIN Flagged(c, Weights[m], total) \subseteq Securities
         /\ \A s \in DOMAIN Flagged(c, Weights[m], total) :
              Flagged(c, Weights[m], total)[s] \in Int /\ price[s] \in Prices
<1> DEFINE weight == Weights[m]
           D == {r \in Relevant(c, weight) : OutOfBand(Value(c, r), weight[r], total)}
<1>1. Flagged(c, weight, total) = [s \in D |-> Target(weight[s], total) - Value(c, s)]
  BY DEF Flagged
<1>2. \A s \in D : s \in Securities /\ price[s] # None
  BY DEF Relevant, Positions, Priced
<1>3. weight \in [Securities -> 0 .. Whole] /\ Whole \in Nat \ {0}
  BY RebalanceAssumption DEF Models
<1>4. \A s \in Securities : weight[s] \in Int
  BY <1>3
<1> HIDE DEF D, weight
<1>5. \A s \in D : Target(weight[s], total) \in Int
  <2> TAKE s \in D
  <2> DEFINE n == weight[s] * total
  <2>1. n \in Int
    BY <1>2, <1>4
  <2> HIDE DEF n
  <2>2. Quantize(n, Whole) \in Int
    BY <1>3, <2>1, QuantizeNear
  <2> QED BY <2>2 DEF Target, n
<1>6. \A s \in D : Value(c, s) \in Int /\ price[s] \in Prices
  BY <1>2, ValueTyped
<1> QED BY <1>1, <1>2, <1>5, <1>6 DEF weight

\* A run at work, and what is known of it.
LEMMA AtRun ==
  ASSUME RebalanceInv, NEW p \in Processes, runner[p].at = "next" \/ runner[p].at \in AtOne
  PROVE  /\ p \in Running /\ RunOK(runner[p]) /\ RunTyped(runner[p]) /\ Within(runner[p])
         /\ runner[p].at = "next" => DOMAIN runner[p] = RunFields
         /\ runner[p].at # "next" => AtCustomer(runner[p]) /\ DOMAIN runner[p] = AllFields
         /\ ChecksHold(runner[p]) /\ BooksTyped
<1>1. p \in Running
  BY DEF Running, Working, AtOne
<1> QED BY <1>1 DEF RebalanceInv, RunsTyped, RunOK, Covered, AtOne

\* The book of the next customer is valued.
LEMMA ValueBookKeeps ==
  ASSUME RebalanceInv, NEW p \in Processes, NEW c \in Customers, ValueBook(p, c)
  PROVE  RebalanceInv'
<1> DEFINE r0 == runner[p]
           rest == Restrict(r0.todo, DOMAIN r0.todo \ {c})
<1>1. r0.at = "next" /\ c \in DOMAIN r0.todo /\ UNCHANGED custVars
  BY DEF ValueBook
<1>2. p \in Running /\ RunTyped(r0) /\ Within(r0) /\ DOMAIN r0 = RunFields /\ ChecksHold(r0) /\ BooksTyped
  BY <1>1, AtRun
<1>3. /\ DOMAIN rest = DOMAIN r0.todo \ {c}
      /\ \A x \in DOMAIN rest : rest[x] = r0.todo[x]
  BY DEF Restrict
<1> HIDE DEF rest
<1>4. PICK cash \in CashReads :
        \/ /\ Complete(c) /\ total_value(c, cash) # 0
           /\ Become(p, [at |-> "valued", date |-> r0.date, todo |-> rest,
                         placed |-> r0.placed, locks |-> r0.locks,
                         sized |-> r0.sized, checked |-> r0.checked,
                         customer |-> c, model |-> r0.todo[c],
                         total |-> total_value(c, cash),
                         excess |-> [s \in {} |-> 0], sells |-> {}, buys |-> {},
                         funds |-> 0, remaining |-> 0, admitted |-> None])
        \/ Become(p, [r0 EXCEPT !.todo = rest])
  BY DEF ValueBook, rest
<1>5. CASE Become(p, [r0 EXCEPT !.todo = rest])
  <2>1. PICK r : r = [r0 EXCEPT !.todo = rest]
    OBVIOUS
  <2>2. /\ r.at = "next" /\ r.todo = rest /\ r.placed = r0.placed /\ r.locks = r0.locks
        /\ r.sized = r0.sized /\ r.checked = r0.checked /\ DOMAIN r = RunFields
    BY <1>1, <1>2, <2>1 DEF RunFields
  <2>3. RunTyped(r) /\ Within(r) /\ ChecksHold(r)
    BY <1>2, <1>3, <2>2 DEF RunTyped, Within, ChecksHold
  <2>4. RunOK(r) /\ Become(p, r)
    BY <1>5, <2>1, <2>2, <2>3 DEF RunOK
  <2> QED BY <1>1, <1>2, <2>3, <2>4, RunStep
<1>6. CASE /\ Complete(c)
           /\ Become(p, [at |-> "valued", date |-> r0.date, todo |-> rest,
                         placed |-> r0.placed, locks |-> r0.locks,
                         sized |-> r0.sized, checked |-> r0.checked,
                         customer |-> c, model |-> r0.todo[c],
                         total |-> total_value(c, cash),
                         excess |-> [s \in {} |-> 0], sells |-> {}, buys |-> {},
                         funds |-> 0, remaining |-> 0, admitted |-> None])
  <2> DEFINE total == total_value(c, cash)
  <2>1. total \in Int
    <3>1. cash \in Int
      BY RebalanceAssumption
    <3> QED BY <1>2, <1>6, <3>1, TotalValueTyped
  <2> HIDE DEF total
  <2>2. PICK r : r = [at |-> "valued", date |-> r0.date, todo |-> rest,
                      placed |-> r0.placed, locks |-> r0.locks,
                      sized |-> r0.sized, checked |-> r0.checked,
                      customer |-> c, model |-> r0.todo[c], total |-> total,
                      excess |-> [s \in {} |-> 0], sells |-> {}, buys |-> {},
                      funds |-> 0, remaining |-> 0, admitted |-> None]
    OBVIOUS
  <2>3. /\ r.at = "valued" /\ r.todo = rest /\ r.placed = r0.placed /\ r.locks = r0.locks
        /\ r.sized = r0.sized /\ r.checked = r0.checked /\ r.customer = c /\ r.model = r0.todo[c]
        /\ r.total = total /\ DOMAIN r.excess = {} /\ r.sells = {} /\ r.buys = {} /\ r.funds = 0
        /\ DOMAIN r = AllFields
    BY <2>2 DEF AllFields
  <2>4. RunTyped(r)
    BY <1>2, <1>3, <2>3 DEF RunTyped
  <2>5. AtCustomer(r)
    BY <1>1, <1>2, <1>3, <2>1, <2>3 DEF AtCustomer, Lists, RunTyped
  <2>6. Within(r)
    <3>1. Placed(c, "buy", r.placed) = {} /\ c \notin DOMAIN r.checked
      BY <1>1, <1>2, <2>3 DEF RunTyped, Placed
    <3> QED BY <1>2, <2>3, <3>1 DEF Within
  <2>7. RunOK(r) /\ ChecksHold(r)
    BY <1>2, <2>3, <2>4, <2>5, <2>6 DEF RunOK, AtOne, ChecksHold
  <2>8. Become(p, r)
    BY <1>6, <2>2 DEF total
  <2> QED BY <1>1, <1>2, <2>7, <2>8, RunStep
<1> QED BY <1>4, <1>5, <1>6

\* A run that stays with its customer and places nothing.
LEMMA StaysAt ==
  ASSUME RebalanceInv, NEW p \in Processes, runner[p].at \in AtOne, NEW r,
         r.at \in AtOne, DOMAIN r = AllFields, r.todo = runner[p].todo, r.placed = runner[p].placed,
         r.checked = runner[p].checked, runner[p].locks \subseteq r.locks,
         r.customer = runner[p].customer, r.model = runner[p].model, r.total = runner[p].total,
         r.funds \in Int, Lists(r),
         DOMAIN runner[p].sized \subseteq DOMAIN r.sized, \A c \in DOMAIN r.sized : r.sized[c] \in Int,
         Within(r), Become(p, r), UNCHANGED custVars
  PROVE  RebalanceInv'
<1> DEFINE r0 == runner[p]
<1>1. p \in Running /\ RunTyped(r0) /\ AtCustomer(r0) /\ ChecksHold(r0)
  BY AtRun DEF AtOne
<1>2. RunTyped(r)
  BY <1>1 DEF RunTyped
<1>3. AtCustomer(r)
  BY <1>1 DEF AtCustomer
<1>4. RunOK(r) /\ ChecksHold(r)
  BY <1>1, <1>2, <1>3 DEF RunOK, ChecksHold
<1> QED BY <1>1, <1>4, RunStep

\* The fields of a run that is at a customer.
LEMMA FieldsAt ==
  ASSUME RebalanceInv, NEW p \in Processes, runner[p].at \in AtOne
  PROVE  DOMAIN runner[p] = {"at", "date", "todo", "placed", "locks", "sized", "checked",
              "customer", "model", "total", "excess", "sells", "buys", "funds",
              "remaining", "admitted"}
BY AtRun DEF AtOne, AllFields

\* The drift of the customer is evaluated.
LEMMA EvaluateKeeps ==
  ASSUME RebalanceInv, NEW p \in Processes, Evaluate(p)
  PROVE  RebalanceInv'
<1> DEFINE r0 == runner[p]
           c == r0.customer
           weight == Weights[r0.model]
           flagged == IF Priced(c, weight) THEN Flagged(c, weight, r0.total) ELSE [s \in {} |-> 0]
           sells == {s \in DOMAIN flagged : flagged[s] < 0}
           buys == DOMAIN flagged \ sells
<1>1. r0.at = "valued" /\ UNCHANGED custVars
      /\ Become(p, [r0 EXCEPT !.at = "sells", !.excess = flagged, !.sells = sells, !.buys = buys])
  BY DEF Evaluate
<1>2. r0.at \in AtOne
  BY <1>1 DEF AtOne
<1>3. RunTyped(r0) /\ Within(r0) /\ AtCustomer(r0) /\ BooksTyped
  BY <1>1, <1>2, AtRun
<1>4. /\ DOMAIN flagged \subseteq Securities
      /\ \A s \in DOMAIN flagged : flagged[s] \in Int /\ price[s] \in Prices
  <2>1. c \in Customers /\ r0.model \in Models /\ r0.total \in Int
    BY <1>3 DEF AtCustomer
  <2>2. CASE Priced(c, weight)
    BY <1>3, <2>1, <2>2, FlaggedTyped
  <2>3. CASE ~Priced(c, weight)
    BY <2>3
  <2> QED BY <2>2, <2>3
<1> HIDE DEF flagged
<1>5. \A s \in buys : flagged[s] >= 0
  BY <1>4
<1>6. PICK r : r = [r0 EXCEPT !.at = "sells", !.excess = flagged, !.sells = sells, !.buys = buys]
  OBVIOUS
<1>7. /\ r.at = "sells" /\ DOMAIN r = AllFields /\ r.todo = r0.todo /\ r.placed = r0.placed
      /\ r.checked = r0.checked /\ r.locks = r0.locks /\ r.customer = c /\ r.model = r0.model
      /\ r.total = r0.total /\ r.funds = r0.funds /\ r.sized = r0.sized
      /\ r.excess = flagged /\ r.sells = sells /\ r.buys = buys
  BY <1>2, <1>6, FieldsAt DEF AllFields
<1>8. Lists(r)
  <2>1. sells \subseteq DOMAIN flagged /\ buys \subseteq DOMAIN flagged /\ \A s \in sells : flagged[s] < 0
    OBVIOUS
  <2> HIDE DEF sells, buys
  <2> QED BY <1>4, <1>5, <1>7, <2>1 DEF Lists
<1>9. Within(r)
  BY <1>1, <1>3, <1>7 DEF Within
<1>10. r.funds \in Int /\ \A x \in DOMAIN r.sized : r.sized[x] \in Int
  BY <1>3, <1>7 DEF AtCustomer, RunTyped
<1>11. r.at \in AtOne /\ Become(p, r)
  BY <1>1, <1>6, <1>7 DEF AtOne
<1> QED BY <1>1, <1>2, <1>7, <1>8, <1>9, <1>10, <1>11, StaysAt

\* A new order.
LEMMA NewOrder ==
  ASSUME NEW c \in Customers, NEW s \in Securities, NEW side \in {"buy", "sell"},
         NEW u \in Int, NEW q \in Int, NEW origin \in Processes \cup {None}
  PROVE  /\ Order(c, s, side, u, q, origin) \in OrderRow
         /\ Order(c, s, side, u, q, origin).customer = c
         /\ Order(c, s, side, u, q, origin).side = side
         /\ Order(c, s, side, u, q, origin).notional = Times(q, u)
<1>1. Times(q, u) \in Int
  BY TimesTyped
<1> QED BY <1>1 DEF Order, OrderRow, Statuses

\* The buys of a customer when an order is added.
LEMMA BuysAppend ==
  ASSUME BooksTyped, NEW os \in Seq(OrderRow), NEW o \in OrderRow, NEW c
  PROVE  /\ o.customer = c /\ o.side = "buy" =>
              /\ Placed(c, "buy", Append(os, o)) # {}
              /\ Bought(c, Append(os, o)) = Bought(c, os) + o.notional
              /\ Room(c, Append(os, o)) = Room(c, os) + Slack
         /\ ~(o.customer = c /\ o.side = "buy") =>
              /\ Placed(c, "buy", Append(os, o)) = Placed(c, "buy", os)
              /\ Bought(c, Append(os, o)) = Bought(c, os)
              /\ Room(c, Append(os, o)) = Room(c, os)
         /\ Bought(c, os) \in Int /\ Room(c, os) \in Nat /\ Slack \in Nat
<1> DEFINE ns == Append(os, o)
           n == Len(os) + 1
           B == Placed(c, "buy", os)
<1>1. DOMAIN ns = DOMAIN os \cup {n} /\ n \notin DOMAIN os /\ ns[n] = o
      /\ \A i \in DOMAIN os : ns[i] = os[i]
  OBVIOUS
<1> HIDE DEF ns, n
<1>2. Placed(c, "buy", ns) = IF o.customer = c /\ o.side = "buy" THEN B \cup {n} ELSE B
  BY <1>1 DEF Placed
<1>3. B \in SUBSET (DOMAIN os) /\ n \notin B
  BY <1>1 DEF Placed
<1> HIDE DEF B
<1>4. /\ NotionalOf(B, ns) = NotionalOf(B, os)
      /\ NotionalOf(B \cup {n}, ns) = o.notional + NotionalOf(B, os)
  BY <1>3, NotionalAppend DEF ns, n
<1>5. NotionalOf(B, os) \in Int /\ o.notional \in Int /\ IsFiniteSet(B)
  BY <1>3, NotionalInt DEF OrderRow
<1>6. Cardinality(B) \in Nat /\ Cardinality(B \cup {n}) = Cardinality(B) + 1
  BY <1>3, <1>5, FS_CardinalityType, FS_AddElement
<1>7. Slack \in Nat
  BY SlackCovers
<1>8. Slack * (Cardinality(B) + 1) = Slack * Cardinality(B) + Slack /\ Slack * Cardinality(B) \in Nat
  BY <1>6, <1>7, Z3
<1>9. Bought(c, os) = NotionalOf(B, os) /\ Room(c, os) = Slack * Cardinality(B)
  BY DEF Bought, Room, B
<1>10. CASE o.customer = c /\ o.side = "buy"
  <2>1. Placed(c, "buy", ns) = B \cup {n}
    BY <1>2, <1>10
  <2>2. Bought(c, ns) = NotionalOf(B \cup {n}, ns) /\ Room(c, ns) = Slack * Cardinality(B \cup {n})
    BY <2>1 DEF Bought, Room
  <2>3. Placed(c, "buy", ns) # {}
    BY <2>1
  <2> QED BY <1>4, <1>5, <1>6, <1>7, <1>8, <1>9, <1>10, <2>2, <2>3 DEF ns
<1>11. CASE ~(o.customer = c /\ o.side = "buy")
  <2>1. Placed(c, "buy", ns) = B
    BY <1>2, <1>11
  <2>2. Bought(c, ns) = NotionalOf(B, ns) /\ Room(c, ns) = Slack * Cardinality(B)
    BY <2>1 DEF Bought, Room
  <2> QED BY <1>4, <1>5, <1>7, <1>8, <1>9, <1>11, <2>1, <2>2 DEF ns, B
<1> QED BY <1>10, <1>11

\* A run that has placed an order more, for the customer it is at.
LEMMA PlacedTyped ==
  ASSUME RebalanceInv, NEW p \in Processes, runner[p].at \in AtOne,
         NEW o \in OrderRow, o.customer = runner[p].customer,
         o.side = "buy" => runner[p].at = "checking",
         NEW r, r.todo = runner[p].todo, r.placed = Append(runner[p].placed, o),
         r.locks = runner[p].locks \cup {o.customer}, r.sized = runner[p].sized,
         \A c \in DOMAIN r.checked :
           r.checked[c] \in Int /\ (c = o.customer \/ c \in DOMAIN runner[p].checked)
  PROVE  RunTyped(r)
<1>1. RunTyped(runner[p]) /\ Within(runner[p]) /\ AtCustomer(runner[p])
  BY AtRun DEF AtOne
<1> DEFINE os == runner[p].placed
           n == Len(os) + 1
<1>2. os \in Seq(OrderRow)
  BY <1>1 DEF RunTyped
<1>3. r.placed \in Seq(OrderRow) /\ DOMAIN r.placed = DOMAIN os \cup {n} /\ r.placed[n] = o
      /\ \A i \in DOMAIN os : r.placed[i] = os[i]
  BY <1>2
<1>4. o.side = "buy" => o.customer \in DOMAIN r.sized
  BY <1>1 DEF Within
<1>5. o.customer \notin DOMAIN r.todo
  BY <1>1 DEF AtCustomer
<1>6. \A c \in DOMAIN r.checked : r.checked[c] \in Int /\ c \in r.locks /\ c \notin DOMAIN r.todo
  BY <1>1, <1>5 DEF RunTyped
<1> HIDE DEF n
<1> QED BY <1>1, <1>3, <1>4, <1>5, <1>6 DEF RunTyped

\* A sell is placed before the cash of its customer is checked.
LEMMA PlaceSellKeeps ==
  ASSUME RebalanceInv, NEW p \in Processes, PlaceSell(p)
  PROVE  RebalanceInv'
<1> DEFINE r0 == runner[p]
           s == Foremost(r0.sells)
           x == r0.excess[s]
           u == UnitsFor(-x, price[s])
           o == Order(r0.customer, s, "sell", u, price[s], p)
<1>1. r0.at = "sells" /\ r0.sells # {} /\ UNCHANGED custVars
      /\ Become(p, [With(p, o) EXCEPT !.sells = @ \ {s}])
  BY DEF PlaceSell
<1>2. PICK r : r = [With(p, o) EXCEPT !.sells = @ \ {s}]
  OBVIOUS
<1>0. r0.at \in AtOne
  BY <1>1 DEF AtOne
<1>3. /\ p \in Running /\ RunTyped(r0) /\ Within(r0) /\ AtCustomer(r0) /\ Lists(r0)
      /\ ChecksHold(r0) /\ BooksTyped
  BY <1>0, <1>1, AtRun DEF AtCustomer
<1>4. s \in r0.sells
  <2>1. r0.sells \subseteq Securities
    BY <1>3 DEF Lists
  <2> QED BY <1>1, <2>1, ForemostIsThere
<1>5. /\ s \in Securities /\ x \in Int /\ x < 0 /\ price[s] \in Prices /\ r0.customer \in Customers
  BY <1>3, <1>4 DEF Lists, AtCustomer
<1>6. price[s] \in Int
  BY <1>5, PriceTyped
<1> HIDE DEF x
<1>7. u \in Int
  <2>1. -x \in Nat
    BY <1>5
  <2> HIDE DEF s
  <2>2. u \in Nat
    BY <1>3, <1>5, <2>1, SlackCovers
  <2> QED BY <2>2
<1> HIDE DEF u, s
<1>8. o \in OrderRow /\ o.customer = r0.customer /\ o.side = "sell"
  BY <1>5, <1>6, <1>7, NewOrder
<1> HIDE DEF o
<1>9. /\ r.at = "sells" /\ r.todo = r0.todo /\ r.placed = Append(r0.placed, o)
      /\ r.locks = r0.locks \cup {o.customer} /\ r.sized = r0.sized /\ r.checked = r0.checked
      /\ r.customer = r0.customer /\ r.model = r0.model /\ r.total = r0.total /\ r.funds = r0.funds
      /\ r.excess = r0.excess /\ r.sells = r0.sells \ {s} /\ r.buys = r0.buys
      /\ DOMAIN r = AllFields
  BY <1>0, <1>1, <1>2, FieldsAt DEF With, AllFields
<1>10. RunTyped(r)
  <2>1. \A c \in DOMAIN r.checked : r.checked[c] \in Int /\ c \in DOMAIN r0.checked
    BY <1>3, <1>9 DEF RunTyped
  <2> QED BY <1>0, <1>8, <1>9, <2>1, PlacedTyped
<1>11. AtCustomer(r)
  BY <1>3, <1>9 DEF AtCustomer, Lists
<1>12. r0.placed \in Seq(OrderRow)
  BY <1>3 DEF RunTyped
<1>13. Within(r)
  <2>1. \A c : /\ Placed(c, "buy", r.placed) = Placed(c, "buy", r0.placed)
               /\ Bought(c, r.placed) = Bought(c, r0.placed)
               /\ Room(c, r.placed) = Room(c, r0.placed)
    BY <1>3, <1>8, <1>9, <1>12, BuysAppend
  <2> QED BY <1>1, <1>3, <1>9, <2>1 DEF Within
<1>14. RunOK(r)
  BY <1>0, <1>1, <1>9, <1>10, <1>11, <1>13 DEF RunOK
<1>15. ChecksHold(r)
  <2>1. r0.customer \notin DOMAIN r0.checked
    BY <1>1, <1>3 DEF Within
  <2>2. \A c \in DOMAIN r.checked : HeldCash(c, r.placed) = HeldCash(c, r0.placed)
    BY <1>8, <1>9, <1>12, <2>1, HeldAppend
  <2> QED BY <1>3, <1>9, <2>2 DEF ChecksHold
<1>16. Become(p, r)
  BY <1>1, <1>2
<1> QED BY <1>1, <1>3, <1>14, <1>15, <1>16, RunStep

\* The customer is done with: the run goes on to the next one.
LEMMA ToNext ==
  ASSUME RebalanceInv, NEW p \in Processes, runner[p].at \in AtOne, Onward(p), UNCHANGED custVars
  PROVE  RebalanceInv'
<1> DEFINE r0 == runner[p]
<1>1. PICK r : r = Between(r0.date, r0.todo, r0.placed, r0.locks, r0.sized, r0.checked)
  OBVIOUS
<1>2. p \in Running /\ RunTyped(r0) /\ Within(r0) /\ ChecksHold(r0)
  BY AtRun
<1>4. /\ r.at = "next" /\ r.todo = r0.todo /\ r.placed = r0.placed /\ r.locks = r0.locks
      /\ r.sized = r0.sized /\ r.checked = r0.checked /\ DOMAIN r = RunFields
  BY <1>1 DEF Between, RunFields
<1>5. RunTyped(r) /\ Within(r) /\ ChecksHold(r)
  BY <1>2, <1>4 DEF RunTyped, Within, ChecksHold
<1>6. RunOK(r) /\ Become(p, r)
  BY <1>1, <1>4, <1>5 DEF RunOK, Onward
<1> QED BY <1>2, <1>5, <1>6, RunStep

\* Skipping a customer.
LEMMA SkipCustomerKeeps ==
  ASSUME RebalanceInv, NEW p \in Processes, SkipCustomer(p)
  PROVE  RebalanceInv'
<1>1. runner[p].at \in AtOne
  BY DEF SkipCustomer, Buying, AtOne
<1> QED BY <1>1, ToNext DEF SkipCustomer

\* No more buys.
LEMMA EndBuysKeeps ==
  ASSUME RebalanceInv, NEW p \in Processes, EndBuys(p)
  PROVE  RebalanceInv'
<1>1. runner[p].at \in AtOne
  BY DEF EndBuys, AtOne
<1> QED BY <1>1, ToNext DEF EndBuys

\* The cash for the buys is read.
LEMMA ReadFundsKeeps ==
  ASSUME RebalanceInv, NEW p \in Processes, ReadFunds(p)
  PROVE  RebalanceInv'
<1> DEFINE r0 == runner[p]
<1>1. r0.at = "sells" /\ UNCHANGED custVars /\ r0.at \in AtOne
  BY DEF ReadFunds, AtOne
<1>2. PICK cash \in CashReads : Become(p, [r0 EXCEPT !.at = "sizing", !.funds = cash])
  BY DEF ReadFunds
<1>3. RunTyped(r0) /\ Within(r0) /\ AtCustomer(r0)
  BY <1>1, AtRun
<1>4. PICK r : r = [r0 EXCEPT !.at = "sizing", !.funds = cash]
  OBVIOUS
<1>5. /\ r.at = "sizing" /\ DOMAIN r = AllFields /\ r.todo = r0.todo /\ r.placed = r0.placed
      /\ r.checked = r0.checked /\ r.locks = r0.locks /\ r.customer = r0.customer
      /\ r.model = r0.model /\ r.total = r0.total /\ r.funds = cash /\ r.sized = r0.sized
      /\ r.excess = r0.excess /\ r.sells = r0.sells /\ r.buys = r0.buys
  BY <1>1, <1>4, FieldsAt DEF AllFields
<1>6. Lists(r) /\ Within(r) /\ r.at \in AtOne /\ Become(p, r)
  BY <1>1, <1>2, <1>3, <1>4, <1>5 DEF Lists, AtCustomer, Within, AtOne
<1>7. r.funds \in Int /\ \A c \in DOMAIN r.sized : r.sized[c] \in Int
  BY <1>3, <1>5, RebalanceAssumption DEF RunTyped
<1> QED BY <1>1, <1>5, <1>6, <1>7, StaysAt

\* What a run may spend is a number, whatever else the customer has on hold.
LEMMA InvestableInt ==
  ASSUME RebalanceInv, NEW p \in Processes, runner[p].at \in AtOne
  PROVE  investable(p) \in Int /\ Available(p) \in Int
<1> DEFINE c == runner[p].customer
           os == orders \o runner[p].placed
           n == runner[p].total * Buffer[1]
<1>1. RunTyped(runner[p]) /\ AtCustomer(runner[p]) /\ BooksTyped
  BY AtRun DEF AtOne
<1>2. os \in Seq(OrderRow)
  BY <1>1 DEF RunTyped, BooksTyped
<1>3. runner[p].funds \in Int /\ runner[p].total \in Int
  BY <1>1 DEF AtCustomer
<1>4. Buffer[1] \in Nat /\ Buffer[2] \in Nat \ {0}
  BY RebalanceAssumption
<1>5. n \in Int
  BY <1>3, <1>4
<1> HIDE DEF os, n, c
<1>6. holds(c, os) \in Int
  BY <1>2, HeldTyped
<1>7. investable(p) \in Int
  BY <1>3, <1>6 DEF investable, c, os
<1>8. Quantize(n, Buffer[2]) \in Int
  BY <1>4, <1>5, QuantizeNear
<1>9. Available(p) = investable(p) - Quantize(n, Buffer[2])
  BY DEF Available, n
<1> QED BY <1>7, <1>8, <1>9

\* Sizing the buys.
LEMMA SizeBuysKeeps ==
  ASSUME RebalanceInv, NEW p \in Processes, SizeBuys(p)
  PROVE  RebalanceInv'
<1> DEFINE r0 == runner[p]
           c == r0.customer
           available == Available(p)
<1>1. r0.at = "sizing" /\ UNCHANGED custVars /\ r0.at \in AtOne
      /\ Become(p, [r0 EXCEPT !.at = "buys", !.remaining = available,
                              !.sized = Put(@, c, available)])
  BY DEF SizeBuys, AtOne
<1>2. PICK r : r = [r0 EXCEPT !.at = "buys", !.remaining = available,
                              !.sized = Put(@, c, available)]
  OBVIOUS
<1>3. p \in Running /\ RunTyped(r0) /\ Within(r0) /\ AtCustomer(r0) /\ BooksTyped
  BY <1>1, AtRun
<1>4. available \in Int
  BY <1>1, InvestableInt
<1> HIDE DEF available
<1>5. /\ r.at = "buys" /\ DOMAIN r = AllFields /\ r.todo = r0.todo /\ r.placed = r0.placed
      /\ r.checked = r0.checked /\ r.locks = r0.locks /\ r.customer = c
      /\ r.model = r0.model /\ r.total = r0.total /\ r.funds = r0.funds
      /\ r.sized = Put(r0.sized, c, available) /\ r.remaining = available
      /\ r.excess = r0.excess /\ r.sells = r0.sells /\ r.buys = r0.buys
  BY <1>1, <1>2, FieldsAt DEF AllFields
<1>7. DOMAIN r.sized = DOMAIN r0.sized \cup {c} /\ r.sized[c] = available
      /\ \A x \in DOMAIN r0.sized : x # c => r.sized[x] = r0.sized[x]
  BY <1>5 DEF Put
<1> HIDE DEF c
<1>8. \A x \in DOMAIN r.sized : r.sized[x] \in Int
  BY <1>3, <1>4, <1>7 DEF RunTyped
<1>10. Within(r)
  <2>1. Placed(c, "buy", r.placed) = {}
    BY <1>1, <1>3, <1>5 DEF Within, c
  <2>2. Bought(c, r.placed) = 0
    BY <2>1, SumIsTotal, TotalEmpty DEF Bought, NotionalOf
  <2>3. Room(c, r.placed) = 0
    <3>1. Slack \in Nat
      BY <1>3, SlackCovers
    <3> QED BY <2>1, <3>1, FS_EmptySet DEF Room
  <2>4. \A x \in DOMAIN r.sized : Placed(x, "buy", r.placed) # {} =>
          Bought(x, r.placed) <= r.sized[x] + Room(x, r.placed)
    BY <1>3, <1>5, <1>7, <2>1 DEF Within
  <2> QED BY <1>4, <1>5, <1>7, <2>2, <2>3, <2>4 DEF Within
<1>11. Lists(r) /\ r.funds \in Int
  BY <1>3, <1>5 DEF Lists, AtCustomer
<1>12. Become(p, r) /\ r.at \in AtOne /\ DOMAIN r0.sized \subseteq DOMAIN r.sized
  BY <1>1, <1>2, <1>5, <1>7 DEF AtOne, c, available
<1> QED BY <1>1, <1>5, <1>8, <1>10, <1>11, <1>12, StaysAt DEF c

\* The buy a run comes to: its price is known, and it is capped by what remains.
LEMMA NextBuyTyped ==
  ASSUME RebalanceInv, NEW p \in Processes, runner[p].at \in {"buys", "checking"},
         runner[p].buys # {}, runner[p].remaining > 0
  PROVE  /\ runner[p].remaining \in Nat
         /\ Capped(p) \in Nat /\ Capped(p) <= runner[p].remaining
         /\ NextBuy(p) \in OrderRow /\ NextBuy(p).customer = runner[p].customer
         /\ NextBuy(p).side = "buy" /\ NextBuy(p).notional \in Nat
         /\ NextBuy(p).notional <= Capped(p) + Slack
<1> DEFINE r0 == runner[p]
           s == Foremost(r0.buys)
           cap == Capped(p)
           gap == r0.excess[s]
           left == r0.remaining
           u == UnitsFor(cap, price[s])
<1>1. r0.at \in AtOne /\ r0.at # "next"
  BY DEF AtOne
<1>2. Within(r0) /\ AtCustomer(r0) /\ Lists(r0) /\ BooksTyped
  BY <1>1, AtRun DEF AtCustomer
<1>3. left \in Nat
  BY <1>2 DEF Within
<1>4. s \in r0.buys
  <2>1. r0.buys \subseteq Securities
    BY <1>2 DEF Lists
  <2> QED BY <2>1, ForemostIsThere
<1>5. /\ s \in Securities /\ gap \in Int /\ gap >= 0 /\ price[s] \in Prices /\ r0.customer \in Customers
  BY <1>2, <1>4 DEF Lists, AtCustomer
<1>6. price[s] \in Int
  BY <1>5, PriceTyped
<1>7. cap = IF gap < left THEN gap ELSE left
  BY DEF Capped
<1>8. NextBuy(p) = Order(r0.customer, s, "buy", u, price[s], p)
  BY DEF NextBuy
<1> HIDE DEF cap, gap, left, s
<1>9. cap \in Nat /\ cap <= left
  BY <1>3, <1>5, <1>7
<1>10. u \in Nat /\ Times(price[s], u) \in Nat /\ Times(price[s], u) <= cap + Slack
  BY <1>2, <1>5, <1>9, SlackCovers
<1> HIDE DEF u
<1>11. /\ NextBuy(p) \in OrderRow /\ NextBuy(p).customer = r0.customer
       /\ NextBuy(p).side = "buy" /\ NextBuy(p).notional = Times(price[s], u)
  <2>1. u \in Int
    BY <1>10
  <2> QED BY <1>5, <1>6, <1>8, <2>1, NewOrder
<1> QED BY <1>3, <1>9, <1>10, <1>11 DEF cap, left

\* A buy that rounds to no units.
LEMMA PassOverKeeps ==
  ASSUME RebalanceInv, NEW p \in Processes, PassOver(p)
  PROVE  RebalanceInv'
<1> DEFINE r0 == runner[p]
<1>0. PICK s : s = NextBuy(p).security
  OBVIOUS
<1>1. r0.at = "buys" /\ r0.at \in AtOne /\ UNCHANGED custVars
      /\ Become(p, [r0 EXCEPT !.buys = @ \ {s}])
  BY <1>0 DEF PassOver, Buying, AtOne
<1>2. PICK r : r = [r0 EXCEPT !.buys = @ \ {s}]
  OBVIOUS
<1>3. RunTyped(r0) /\ Within(r0) /\ AtCustomer(r0)
  BY <1>1, AtRun
<1>4. /\ r.at = "buys" /\ DOMAIN r = AllFields /\ r.todo = r0.todo /\ r.placed = r0.placed
      /\ r.checked = r0.checked /\ r.locks = r0.locks /\ r.customer = r0.customer
      /\ r.model = r0.model /\ r.total = r0.total /\ r.funds = r0.funds /\ r.sized = r0.sized
      /\ r.remaining = r0.remaining
      /\ r.excess = r0.excess /\ r.sells = r0.sells /\ r.buys = r0.buys \ {s}
  BY <1>1, <1>2, FieldsAt DEF AllFields
<1>5. Lists(r) /\ Within(r) /\ r.at \in AtOne /\ Become(p, r)
  BY <1>1, <1>2, <1>3, <1>4 DEF Lists, AtCustomer, Within, AtOne
<1>6. r.funds \in Int /\ \A c \in DOMAIN r.sized : r.sized[c] \in Int
  BY <1>3, <1>4 DEF AtCustomer, RunTyped
<1> QED BY <1>1, <1>4, <1>5, <1>6, StaysAt

\* The customer's cash is locked, and read.
LEMMA LockCashKeeps ==
  ASSUME RebalanceInv, NEW p \in Processes, LockCash(p)
  PROVE  RebalanceInv'
<1> DEFINE r0 == runner[p]
           c == r0.customer
<1>1. r0.at = "buys" /\ r0.at \in AtOne /\ UNCHANGED custVars /\ r0.buys # {} /\ r0.remaining > 0
  BY DEF LockCash, Buying, AtOne
<1>2. PICK cash \in CashReads :
        Become(p, [r0 EXCEPT !.at = "checking", !.funds = cash, !.admitted = TRUE,
                             !.locks = @ \cup {c}])
  BY DEF LockCash
<1>3. PICK r : r = [r0 EXCEPT !.at = "checking", !.funds = cash, !.admitted = TRUE,
                              !.locks = @ \cup {c}]
  OBVIOUS
<1>4. RunTyped(r0) /\ Within(r0) /\ AtCustomer(r0)
  BY <1>1, AtRun
<1>5. /\ r.at = "checking" /\ DOMAIN r = AllFields /\ r.todo = r0.todo /\ r.placed = r0.placed
      /\ r.checked = r0.checked /\ r.locks = r0.locks \cup {c} /\ r.customer = c
      /\ r.model = r0.model /\ r.total = r0.total /\ r.funds = cash /\ r.sized = r0.sized
      /\ r.remaining = r0.remaining
      /\ r.excess = r0.excess /\ r.sells = r0.sells /\ r.buys = r0.buys
  BY <1>1, <1>3, FieldsAt DEF AllFields
<1>6. Lists(r) /\ Within(r) /\ r.at \in AtOne /\ Become(p, r)
  BY <1>1, <1>2, <1>3, <1>4, <1>5 DEF Lists, AtCustomer, Within, AtOne
<1>7. r.funds \in Int /\ \A x \in DOMAIN r.sized : r.sized[x] \in Int
  BY <1>4, <1>5, RebalanceAssumption DEF RunTyped
<1> QED BY <1>1, <1>5, <1>6, <1>7, StaysAt

\* A buy the cash covers: it is added to the run's orders, and what it was
\* capped by is spent.
LEMMA BuyPlacedKeeps ==
  ASSUME RebalanceInv, NEW p \in Processes, runner[p].at = "checking", NEW s,
         NextBuy(p).notional <= investable(p),
         Become(p, [With(p, NextBuy(p))
                      EXCEPT !.at = "buys", !.buys = @ \ {s},
                             !.remaining = Spend(@, Capped(p)),
                             !.checked = Put(@, NextBuy(p).customer, Counted(p))]),
         UNCHANGED custVars
  PROVE  RebalanceInv'
<1> DEFINE r0 == runner[p]
           o == NextBuy(p)
           cap == Capped(p)
           me == r0.customer
           counted == Counted(p)
<1>0. r0.at \in AtOne
  BY DEF AtOne
<1>1. PICK r : r = [With(p, o) EXCEPT !.at = "buys", !.buys = @ \ {s}, !.remaining = Spend(@, cap),
                                      !.checked = Put(@, o.customer, counted)]
  OBVIOUS
<1>2. p \in Running /\ RunTyped(r0) /\ Within(r0) /\ AtCustomer(r0) /\ ChecksHold(r0) /\ BooksTyped
  BY <1>0, AtRun
<1>3. /\ r0.remaining \in Nat /\ cap \in Nat /\ cap <= r0.remaining
      /\ o \in OrderRow /\ o.customer = me /\ o.side = "buy" /\ o.notional \in Nat
      /\ o.notional <= cap + Slack
  BY <1>2, NextBuyTyped DEF Within
<1>4. Become(p, r)
  BY <1>1
<1>5. r0.placed \in Seq(OrderRow) /\ orders \in Seq(OrderRow) /\ r0.funds \in Int
  BY <1>2 DEF RunTyped, BooksTyped, AtCustomer
<1>6. counted \in Int /\ HeldCash(me, orders) + HeldCash(me, r0.placed) + o.notional <= counted
  <2> DEFINE os == orders \o r0.placed
             n == o.notional
  <2>1. os \in Seq(OrderRow) /\ n \in Int /\ n <= investable(p)
    BY <1>3, <1>5
  <2>2. counted \in Int /\ HeldCash(me, os) + n <= counted
    <3> HIDE DEF n
    <3> QED BY <1>5, <2>1, CountedCovers
  <2>3. HeldCash(me, os) = HeldCash(me, orders) + HeldCash(me, r0.placed)
    BY <1>5, HeldConcat
  <2> QED BY <2>2, <2>3
<1> HIDE DEF o, cap, counted
<1>7. /\ r.at = "buys" /\ r.todo = r0.todo /\ r.placed = Append(r0.placed, o)
      /\ r.locks = r0.locks \cup {o.customer} /\ r.sized = r0.sized
      /\ r.checked = Put(r0.checked, me, counted) /\ r.customer = me /\ r.model = r0.model
      /\ r.total = r0.total /\ r.funds = r0.funds /\ r.excess = r0.excess
      /\ r.sells = r0.sells /\ r.buys = r0.buys \ {s} /\ r.remaining = r0.remaining - cap
      /\ DOMAIN r = AllFields
  <2>1. With(p, o) = [r0 EXCEPT !.placed = Append(@, o), !.locks = @ \cup {o.customer}, !.admitted = TRUE]
    BY DEF With
  <2>2. /\ DOMAIN r = AllFields /\ r.at = "buys" /\ r.todo = r0.todo /\ r.placed = Append(r0.placed, o)
        /\ r.locks = r0.locks \cup {o.customer} /\ r.sized = r0.sized
        /\ r.checked = Put(r0.checked, o.customer, counted) /\ r.customer = me
        /\ r.remaining = Spend(r0.remaining, cap)
    BY <1>0, <1>1, <2>1, FieldsAt DEF AllFields
  <2>3. /\ r.model = r0.model
        /\ r.total = r0.total /\ r.funds = r0.funds /\ r.excess = r0.excess
        /\ r.sells = r0.sells /\ r.buys = r0.buys \ {s}
    BY <1>0, <1>1, <2>1, FieldsAt
  <2> QED BY <1>3, <2>2, <2>3 DEF Spend
<1>8. /\ DOMAIN r.checked = DOMAIN r0.checked \cup {me} /\ r.checked[me] = counted
      /\ \A c \in DOMAIN r0.checked : c # me => r.checked[c] = r0.checked[c]
  BY <1>7 DEF Put
<1>9. RunTyped(r)
  <2>1. \A c \in DOMAIN r.checked : r.checked[c] \in Int /\ (c = me \/ c \in DOMAIN r0.checked)
    BY <1>2, <1>6, <1>8 DEF RunTyped
  <2> QED BY <1>0, <1>3, <1>7, <2>1, PlacedTyped
<1>10. AtCustomer(r)
  BY <1>2, <1>7 DEF AtCustomer, Lists
<1>11. Within(r)
  <2>1. \A c : c # me =>
          /\ Placed(c, "buy", r.placed) = Placed(c, "buy", r0.placed)
          /\ Bought(c, r.placed) = Bought(c, r0.placed)
          /\ Room(c, r.placed) = Room(c, r0.placed)
    BY <1>2, <1>3, <1>5, <1>7, BuysAppend
  <2>2. /\ Bought(me, r.placed) = Bought(me, r0.placed) + o.notional
        /\ Room(me, r.placed) = Room(me, r0.placed) + Slack
        /\ Bought(me, r0.placed) \in Int /\ Room(me, r0.placed) \in Nat /\ Slack \in Nat
    BY <1>2, <1>3, <1>5, <1>7, BuysAppend
  <2>3. /\ me \in DOMAIN r0.sized /\ r0.sized[me] \in Int
        /\ Bought(me, r0.placed) <= r0.sized[me] - r0.remaining + Room(me, r0.placed)
    BY <1>2 DEF Within, RunTyped
  <2>4. r.remaining \in Nat
    BY <1>3, <1>7
  <2>5. /\ Bought(me, r.placed) <= r.sized[me] - r.remaining + Room(me, r.placed)
        /\ Bought(me, r.placed) <= r.sized[me] + Room(me, r.placed)
    <3> DEFINE b == Bought(me, r0.placed)
               m == Room(me, r0.placed)
               z == r0.sized[me]
               left == r0.remaining
    <3>1. /\ b \in Int /\ m \in Nat /\ z \in Int /\ left \in Nat /\ b <= z - left + m
          /\ Bought(me, r.placed) = b + o.notional /\ Room(me, r.placed) = m + Slack
          /\ r.sized[me] = z /\ r.remaining = left - cap
      BY <1>3, <1>7, <2>2, <2>3
    <3> HIDE DEF b, m, z, left, me
    <3> QED BY <1>3, <2>2, <2>4, <3>1
  <2>6. \A x \in DOMAIN r.sized : Placed(x, "buy", r.placed) # {} =>
          Bought(x, r.placed) <= r.sized[x] + Room(x, r.placed)
    <3> TAKE x \in DOMAIN r.sized
    <3>1. CASE x = me
      BY <2>5, <3>1
    <3>2. CASE x # me
      BY <1>2, <1>7, <2>1, <3>2 DEF Within
    <3> QED BY <3>1, <3>2
  <2> QED BY <1>7, <2>3, <2>4, <2>5, <2>6 DEF Within
<1>12. RunOK(r)
  BY <1>7, <1>9, <1>10, <1>11 DEF RunOK, AtOne
<1>13. ChecksHold(r)
  <2>1. ASSUME NEW c \in DOMAIN r.checked
        PROVE  HeldCash(c, orders) + HeldCash(c, r.placed) <= r.checked[c]
    <3>1. CASE c # me
      <4>1. HeldCash(c, r.placed) = HeldCash(c, r0.placed)
        BY <1>3, <1>5, <1>7, <3>1, HeldAppend
      <4> QED BY <1>2, <1>8, <3>1, <4>1 DEF ChecksHold
    <3>2. CASE c = me
      <4>1. /\ HeldCash(me, r.placed) <= HeldCash(me, r0.placed) + o.notional
            /\ HeldCash(me, r.placed) \in Nat /\ HeldCash(me, r0.placed) \in Nat
        BY <1>3, <1>5, <1>7, HeldAppend
      <4>2. HeldCash(me, orders) \in Nat
        BY <1>5, HeldTyped
      <4> DEFINE a == HeldCash(me, orders)
                 b == HeldCash(me, r0.placed)
                 d == HeldCash(me, r.placed)
      <4>3. a \in Nat /\ b \in Nat /\ d \in Nat /\ d <= b + o.notional /\ a + b + o.notional <= counted
        BY <1>6, <4>1, <4>2
      <4> HIDE DEF a, b, d
      <4>4. a + d <= counted
        BY <1>3, <1>6, <4>3
      <4> QED BY <1>8, <3>2, <4>4 DEF a, d
    <3> QED BY <3>1, <3>2
  <2> QED BY <2>1 DEF ChecksHold
<1> QED BY <1>2, <1>4, <1>12, <1>13, RunStep

\* The buy that was checked, whatever comes of it.
LEMMA PlaceBuyKeeps ==
  ASSUME RebalanceInv, NEW p \in Processes, PlaceBuy(p)
  PROVE  RebalanceInv'
<1> DEFINE o == NextBuy(p)
<1>1. runner[p].at = "checking" /\ UNCHANGED custVars
  BY DEF PlaceBuy
<1>2. CASE /\ o.notional <= investable(p)
           /\ Become(p, [With(p, o) EXCEPT !.at = "buys", !.buys = @ \ {o.security},
                                           !.remaining = Spend(@, Capped(p)),
                                           !.checked = Put(@, o.customer, Counted(p))])
  BY <1>1, <1>2, BuyPlacedKeeps
<1>3. CASE Become(p, [at |-> "raised", date |-> runner[p].date])
  <2>1. PICK r : r = [at |-> "raised", date |-> runner[p].date]
    OBVIOUS
  <2>2. r.at = "raised" /\ Become(p, r) /\ runner[p].at # "exited"
    BY <1>1, <1>3, <2>1
  <2>3. UNCHANGED <<units, price, assigned>> /\ orders' \in Seq(OrderRow)
    BY <1>1 DEF custVars, RebalanceInv, BooksTyped
  <2> QED BY <2>2, <2>3, RunEnds
<1> QED BY <1>2, <1>3 DEF PlaceBuy

\* perform commits.
LEMMA CommitOrdersKeeps ==
  ASSUME RebalanceInv, NEW p \in Processes, CommitOrders(p)
  PROVE  RebalanceInv'
<1> DEFINE r0 == runner[p]
<1>1. /\ r0.at = "next" /\ orders' = orders \o r0.placed /\ UNCHANGED <<units, price, assigned>>
  BY DEF CommitOrders
<1>2. PICK r : r = [at |-> "performed", date |-> r0.date]
  OBVIOUS
<1>3. r.at = "performed" /\ Become(p, r)
  BY <1>2 DEF CommitOrders
<1>4. RunTyped(r0) /\ BooksTyped
  BY <1>1, AtRun
<1>5. orders' \in Seq(OrderRow)
  BY <1>1, <1>4 DEF BooksTyped, RunTyped
<1> QED BY <1>1, <1>3, <1>5, RunEnds

\* The job's row is written, or its process dies.
LEMMA EndJobKeeps ==
  ASSUME RebalanceInv, NEW p \in Processes, EndJob(p) \/ Kill(p), UNCHANGED custVars
  PROVE  RebalanceInv'
<1>1. runner[p].at # "exited" /\ Become(p, Exited)
  BY DEF EndJob, Kill
<1>2. Exited.at = "exited"
  BY DEF Exited
<1>3. PICK r : r = Exited
  OBVIOUS
<1>4. r.at = "exited" /\ Become(p, r)
  BY <1>1, <1>2, <1>3
<1>5. UNCHANGED <<units, price, assigned>> /\ orders' \in Seq(OrderRow)
  BY DEF custVars, RebalanceInv, BooksTyped
<1> QED BY <1>1, <1>4, <1>5, RunEnds

-----------------------------------------------------------------------------
\* Steps around the job

\* Runs do not notice what leaves the prices in place and lets what is on hold for
\* the customers they have checked only shrink.
LEMMA AroundTheJob ==
  ASSUME RebalanceInv, UNCHANGED <<runner, price>>, BooksTyped',
         \A c \in Customers : Locked(c) => HeldCash(c, orders') <= HeldCash(c, orders)
  PROVE  RebalanceInv'
<1>1. Running' = Running
  BY DEF Running, Working
<1>2. Slack' = Slack
  BY DEF Slack
<1>3. \A c : \A os : Room(c, os)' = Room(c, os)
  BY <1>2 DEF Room
<1>4. ASSUME NEW p \in Running PROVE RunOK(runner[p])'
  <2>1. PICK r : r = runner[p]
    OBVIOUS
  <2>2. RunOK(r)
    BY <1>4, <2>1 DEF RebalanceInv, RunsTyped
  <2>3. Within(r)'
    BY <1>3, <2>2 DEF RunOK, Within
  <2>4. RunTyped(r)'
    BY <2>2 DEF RunOK, RunTyped
  <2>5. AtCustomer(r) => AtCustomer(r)'
    BY DEF AtCustomer, Lists
  <2>6. RunOK(r)'
    BY <2>2, <2>3, <2>4, <2>5 DEF RunOK
  <2> QED BY <2>1, <2>6
<1>5. RunsTyped'
  BY <1>1, <1>4 DEF RebalanceInv, RunsTyped
<1>6. ASSUME NEW p \in Running, NEW c \in DOMAIN runner[p].checked
      PROVE  HeldCash(c, orders') + HeldCash(c, runner[p].placed) <= runner[p].checked[c]
  <2>1. p \in Processes /\ Working(p) /\ RunTyped(runner[p]) /\ BooksTyped
    BY DEF Running, RebalanceInv, RunsTyped, RunOK
  <2>2. c \in runner[p].locks /\ runner[p].checked[c] \in Int
    BY <2>1 DEF RunTyped
  <2>3. Locked(c)
    BY <2>1, <2>2 DEF Locked
  <2>4. orders \in Seq(OrderRow) /\ orders' \in Seq(OrderRow) /\ runner[p].placed \in Seq(OrderRow)
    BY <2>1 DEF BooksTyped, RunTyped
  <2>5. HeldCash(c, orders') <= HeldCash(c, orders)
    <3>1. CASE c \in Customers
      BY <2>3, <3>1
    <3>2. CASE c \notin Customers
      <4>1. \A os \in Seq(OrderRow) : Held(c, os) = {}
        <5>1. \A os \in Seq(OrderRow) : \A i \in DOMAIN os : os[i] \in OrderRow
          OBVIOUS
        <5>2. \A os \in Seq(OrderRow) : \A i \in DOMAIN os : os[i].customer # c
          BY <3>2, <5>1 DEF OrderRow
        <5> QED BY <5>2 DEF Held, HeldFor
      <4>2. \A os \in Seq(OrderRow) : HeldCash(c, os) = 0
        BY <4>1, SumIsTotal, TotalEmpty DEF HeldCash, NotionalOf
      <4> QED BY <2>4, <4>2
    <3> QED BY <3>1, <3>2
  <2>6. HeldCash(c, orders) + HeldCash(c, runner[p].placed) <= runner[p].checked[c]
    BY DEF RebalanceInv, Covered, ChecksHold
  <2>7. HeldCash(c, orders) \in Nat /\ HeldCash(c, orders') \in Nat /\ HeldCash(c, runner[p].placed) \in Nat
    BY <2>4, HeldTyped
  <2> QED BY <2>2, <2>5, <2>6, <2>7
<1>7. Covered'
  BY <1>1, <1>6 DEF Covered, ChecksHold
<1> QED BY <1>5, <1>7 DEF RebalanceInv

\* A customer takes a model.
LEMMA AssignmentKeeps ==
  ASSUME RebalanceInv, NEW c \in Customers, NEW m \in Models, CreateAssignment(c, m)
  PROVE  RebalanceInv'
<1>1. assigned' = [assigned EXCEPT ![c] = m] /\ UNCHANGED <<runner, units, price, orders>>
  BY DEF CreateAssignment, jobVars
<1>2. BooksTyped'
  BY <1>1 DEF RebalanceInv, BooksTyped
<1>3. \A x : HeldCash(x, orders) \in Nat
  BY HeldTyped DEF RebalanceInv, BooksTyped
<1> QED BY <1>1, <1>2, <1>3, AroundTheJob

\* A customer is approved, or locked; and steps that change nothing.
LEMMA EligibilityKeeps ==
  ASSUME RebalanceInv, UNCHANGED <<runner, units, price, assigned, orders>>
  PROVE  RebalanceInv'
<1>1. BooksTyped'
  BY DEF RebalanceInv, BooksTyped
<1>2. \A x : HeldCash(x, orders) \in Nat
  BY HeldTyped DEF RebalanceInv, BooksTyped
<1> QED BY <1>1, <1>2, AroundTheJob

\* A customer's own order, which waits for the runs that have locked the cash.
LEMMA CustomerOrdersKeeps ==
  ASSUME RebalanceInv, NEW c \in Customers, NEW s \in Securities, NEW w \in Wanted,
         CustomerOrders(c, s, w)
  PROVE  RebalanceInv'
<1> DEFINE o == Order(c, s, w.side, w.quantity, w.price, None)
<1>1. /\ ~Locked(c) /\ orders' = Append(orders, o)
      /\ UNCHANGED <<runner, units, price, assigned>>
  BY DEF CustomerOrders, jobVars
<1>2. w.side \in {"buy", "sell"} /\ w.quantity \in Int /\ w.price \in Int
  BY RebalanceAssumption
<1>3. o \in OrderRow /\ o.customer = c
  <2>1. None \in Processes \cup {None}
    OBVIOUS
  <2> QED BY ONLY <1>2, <2>1, NewOrder, c \in Customers, s \in Securities DEF o
<1> HIDE DEF o
<1>4. orders \in Seq(OrderRow)
  BY DEF RebalanceInv, BooksTyped
<1>5. BooksTyped'
  <2>1. orders' \in Seq(OrderRow)
    BY <1>1, <1>3, <1>4
  <2> QED BY <1>1, <2>1 DEF RebalanceInv, BooksTyped
<1>6. \A x \in Customers : x # c => HeldCash(x, orders') = HeldCash(x, orders)
  BY <1>1, <1>3, <1>4, HeldAppend
<1>7. \A x : HeldCash(x, orders) \in Nat
  BY <1>4, HeldTyped
<1> QED BY <1>1, <1>5, <1>6, <1>7, AroundTheJob

\* The status of one order is set, and not back to one that is on hold.
LEMMA StatusSet ==
  ASSUME NEW os \in Seq(OrderRow), NEW i \in DOMAIN os, NEW st \in Statuses,
         st \in {"awaiting_approval", "approved"} => OnHold(os[i]),
         NEW ns, ns = [os EXCEPT ![i].status = st]
  PROVE  ns \in Seq(OrderRow) /\ \A c : HeldCash(c, ns) <= HeldCash(c, os)
<1>1. DOMAIN os = 1 .. Len(os) /\ Len(os) \in Nat /\ \A j \in DOMAIN os : os[j] \in OrderRow
  OBVIOUS
<1>2. /\ DOMAIN ns = DOMAIN os /\ (\A j \in DOMAIN os : j # i => ns[j] = os[j])
      /\ ns[i] = [os[i] EXCEPT !.status = st]
  BY <1>1
<1>3. /\ ns[i] \in OrderRow /\ ns[i].status = st /\ ns[i].customer = os[i].customer
      /\ ns[i].notional = os[i].notional
  BY <1>1, <1>2 DEF OrderRow
<1>4. \A j \in DOMAIN os : ns[j] \in OrderRow /\ ns[j].notional = os[j].notional
                           /\ ns[j].customer = os[j].customer /\ (OnHold(ns[j]) => OnHold(os[j]))
  <2>1. OnHold(ns[i]) => OnHold(os[i])
    BY <1>3 DEF OnHold
  <2> QED BY <1>1, <1>2, <1>3, <2>1
<1>5. ns \in Seq(OrderRow)
  <2>1. \E n \in Nat : ns \in [1 .. n -> OrderRow]
    <3>1. ns \in [1 .. Len(os) -> OrderRow]
      BY <1>1, <1>2, <1>4
    <3> QED BY <1>1, <3>1
  <2> QED BY <2>1, SeqDef
<1>6. ASSUME NEW c PROVE HeldCash(c, ns) <= HeldCash(c, os)
  <2> DEFINE U == Held(c, os)
             V == Held(c, ns)
  <2>1. V \in SUBSET U
    BY <1>2, <1>4 DEF Held, HeldFor
  <2>2. U \in SUBSET (DOMAIN os) /\ \A j \in U : os[j].notional >= 0
    BY DEF Held, HeldFor
  <2>3. HeldCash(c, os) = NotionalOf(U, os) /\ HeldCash(c, ns) = NotionalOf(V, ns)
    BY DEF HeldCash
  <2> HIDE DEF U, V
  <2>4. NotionalOf(V, os) <= NotionalOf(U, os)
    BY <2>1, <2>2, NotionalNat
  <2>5. V \in SUBSET (DOMAIN os) /\ V \subseteq DOMAIN ns
    BY <1>2, <2>1, <2>2
  <2>6. NotionalOf(V, ns) = NotionalOf(V, os)
    BY <1>4, <1>5, <2>5, NotionalSame
  <2> QED BY <2>3, <2>4, <2>6
<1> QED BY <1>5, <1>6

\* An order is approved, submitted or filled.
LEMMA OrderMovesKeeps ==
  ASSUME RebalanceInv, NEW i \in DOMAIN orders, Approve(i) \/ Submit(i) \/ Fill(i)
  PROVE  RebalanceInv'
<1>1. PICK st \in Statuses :
        /\ st \in {"awaiting_approval", "approved"} => OnHold(orders[i])
        /\ orders' = [orders EXCEPT ![i].status = st]
  BY DEF Approve, Submit, Fill, Statuses, OnHold
<1>2. UNCHANGED <<runner, price, assigned>>
  BY DEF Approve, Submit, Fill, jobVars
<1>3. orders \in Seq(OrderRow) /\ BooksTyped
  BY DEF RebalanceInv, BooksTyped
<1>4. orders' \in Seq(OrderRow) /\ \A c : HeldCash(c, orders') <= HeldCash(c, orders)
  <2>1. PICK ns : ns = orders'
    OBVIOUS
  <2>2. ns \in Seq(OrderRow) /\ \A c : HeldCash(c, ns) <= HeldCash(c, orders)
    BY <1>1, <1>3, <2>1, StatusSet
  <2> QED BY <2>1, <2>2
<1>5. DOMAIN units' = Customers /\ \A c \in Customers : units'[c] \in [Securities -> Nat]
  <2>1. CASE UNCHANGED units
    BY <1>3, <2>1 DEF BooksTyped
  <2>2. CASE Fill(i)
    <3> DEFINE o == orders[i]
               me == o.customer
               s == o.security
               change == IF o.side = "buy" THEN o.quantity ELSE -o.quantity
    <3>1. units' = [units EXCEPT ![me][s] = @ + change] /\ units[me][s] + change >= 0
      BY <2>2 DEF Fill
    <3>2. o \in OrderRow
      BY <1>3
    <3>3. me \in Customers /\ s \in Securities /\ change \in Int
      BY <3>2 DEF OrderRow
    <3> HIDE DEF change, me, s
    <3>4. DOMAIN units = Customers /\ \A c \in Customers : units[c] \in [Securities -> Nat]
      BY <1>3 DEF BooksTyped
    <3>5. units[me][s] + change \in Nat
      BY <3>1, <3>3, <3>4
    <3>6. units'[me] = [units[me] EXCEPT ![s] = @ + change] /\ DOMAIN units' = Customers
          /\ \A c \in Customers : c # me => units'[c] = units[c]
      BY <3>1, <3>3, <3>4
    <3>7. units'[me] \in [Securities -> Nat]
      BY <3>3, <3>4, <3>5, <3>6
    <3> QED BY <3>4, <3>6, <3>7
  <2> QED BY <2>1, <2>2 DEF Approve, Submit
<1>6. BooksTyped'
  BY <1>2, <1>3, <1>4, <1>5 DEF BooksTyped
<1> QED BY <1>2, <1>4, <1>6, AroundTheJob

\* At the start nothing is ordered and no run is under way.
LEMMA RebalanceStarts ==
  ASSUME RebalanceInit
  PROVE  RebalanceInv
<1>1. BooksTyped
  <2>1. DOMAIN units = Customers /\ \A c \in Customers : units[c] \in [Securities -> Nat]
    BY RebalanceAssumption DEF RebalanceInit
  <2>2. <<>> \in Seq(OrderRow)
    OBVIOUS
  <2> QED BY <2>1, <2>2 DEF RebalanceInit, BooksTyped
<1>2. DOMAIN runner = Processes /\ \A p \in Processes : runner[p].at = "exited"
  BY DEF RebalanceInit, JobsInit, Exited
<1>3. Running = {}
  BY <1>2 DEF Running, Working
<1>4. RunsTyped
  BY <1>2, <1>3 DEF RunsTyped
<1>5. Covered
  BY <1>3 DEF Covered
<1> QED BY <1>1, <1>4, <1>5 DEF RebalanceInv

\* Every step of the job, of the customers and of the orders keeps it.
LEMMA RebalanceStep ==
  ASSUME RebalanceInv, [RebalanceNext]_rebalanceVars
  PROVE  RebalanceInv'
<1>1. ASSUME NEW p \in Processes, NEW c \in Customers, ValueBook(p, c) PROVE RebalanceInv'
  BY <1>1, ValueBookKeeps
<1>2. ASSUME NEW p \in Processes,
             \/ StartRebalance(p) \/ Evaluate(p) \/ SkipCustomer(p) \/ PlaceSell(p)
             \/ ReadFunds(p) \/ SizeBuys(p) \/ PassOver(p) \/ LockCash(p) \/ PlaceBuy(p)
             \/ EndBuys(p) \/ CommitOrders(p)
      PROVE  RebalanceInv'
  BY <1>2, StartKeeps, EvaluateKeeps, SkipCustomerKeeps, PlaceSellKeeps, ReadFundsKeeps,
     SizeBuysKeeps, PassOverKeeps, LockCashKeeps, PlaceBuyKeeps, EndBuysKeeps, CommitOrdersKeeps
<1>3. ASSUME NEW p \in Processes, (EndJob(p) \/ Kill(p)) /\ UNCHANGED custVars PROVE RebalanceInv'
  BY <1>3, EndJobKeeps
<1>4. ASSUME NEW c \in Customers, NEW m \in Models, CreateAssignment(c, m) PROVE RebalanceInv'
  BY <1>4, AssignmentKeeps
<1>5. ASSUME NEW c \in Customers, EligibilityChanges(c) PROVE RebalanceInv'
  BY <1>5, EligibilityKeeps DEF EligibilityChanges, jobVars
<1>6. ASSUME NEW c \in Customers, NEW s \in Securities, NEW w \in Wanted, CustomerOrders(c, s, w)
      PROVE  RebalanceInv'
  BY <1>6, CustomerOrdersKeeps
<1>7. ASSUME NEW i \in DOMAIN orders, Approve(i) \/ Submit(i) \/ Fill(i) PROVE RebalanceInv'
  BY <1>7, OrderMovesKeeps
<1>8. CASE UNCHANGED rebalanceVars
  BY <1>8, EligibilityKeeps DEF rebalanceVars
<1> QED BY <1>1, <1>2, <1>3, <1>4, <1>5, <1>6, <1>7, <1>8 DEF RebalanceNext

\* The invariant of the monthly run holds of every state.
THEOREM RebalanceInvariant == RebalanceSpec => []RebalanceInv
<1>1. RebalanceInit => RebalanceInv
  BY RebalanceStarts
<1>2. RebalanceInv /\ [RebalanceNext]_rebalanceVars => RebalanceInv'
  BY RebalanceStep
<1> QED BY <1>1, <1>2, PTL DEF RebalanceSpec

\* Whatever the queries on cash return, and whatever is ordered, submitted and
\* filled meanwhile, what is on hold for a customer stays within the cash that the
\* run's last check for that customer counted on, until the run ends.
THEOREM RebalanceHeldWithinFunds == RebalanceSpec => []HeldWithinFunds
<1>1. RebalanceInv => HeldWithinFunds
  <2> SUFFICES ASSUME RebalanceInv, NEW p \in Running, NEW c \in DOMAIN runner[p].checked
               PROVE  NotionalOf(Held(c, orders \o runner[p].placed), orders \o runner[p].placed)
                        <= runner[p].checked[c]
    BY DEF HeldWithinFunds, Held
  <2>1. orders \in Seq(OrderRow) /\ runner[p].placed \in Seq(OrderRow)
    BY DEF RebalanceInv, BooksTyped, RunsTyped, RunOK, RunTyped
  <2>2. HeldCash(c, orders \o runner[p].placed) = HeldCash(c, orders) + HeldCash(c, runner[p].placed)
    BY <2>1, HeldConcat
  <2>3. HeldCash(c, orders) + HeldCash(c, runner[p].placed) <= runner[p].checked[c]
    BY DEF RebalanceInv, Covered, ChecksHold
  <2> QED BY <2>2, <2>3 DEF HeldCash
<1> QED BY <1>1, RebalanceInvariant, PTL

\* A run's buys for a customer stay within the cash they were sized by, to
\* within one rounding per buy.
THEOREM RebalanceBufferKept == RebalanceSpec => []BufferKept
<1>1. RebalanceInv => BufferKept
  BY DEF RebalanceInv, RunsTyped, RunOK, Within, Bought, Room, BufferKept
<1> QED BY <1>1, RebalanceInvariant, PTL
=============================================================================
