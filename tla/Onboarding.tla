----------------------------- MODULE Onboarding -----------------------------
(* One customer's way to an approved account: KycService and
   AccountApprovalService behind the endpoints of api/identity.py and
   admin/kyc_overrides.py and the webhook of Stripe Identity.

   A request or a webhook runs in a worker.  A transaction is read committed:
   what it loaded may be stale when it writes, an UPDATE waits for the row and
   then writes whatever the ORM holds.  So a transaction is split where another
   one can get between its reads and its writes.  A webhook is two
   transactions: intake commits the dedupe key, then the effect is applied. *)
EXTENDS Integers, FiniteSets

CONSTANTS
  Workers,
  MaxAttempts,     \* KYC_MAX_ATTEMPTS
  MaxSessions,     \* bound: verification sessions opened at Stripe
  MaxFailures,     \* bound: failed submissions of one session
  MaxOverrides,    \* bound: staff overrides
  MaxCrashes       \* bound: workers that die in the middle of something

ASSUME OnboardingAssumption ==
  /\ IsFiniteSet(Workers)
  /\ {MaxAttempts, MaxSessions, MaxFailures, MaxOverrides, MaxCrashes}
       \subseteq Nat

VARIABLES
  customer,   \* the customer row: its two gates
  ledger,     \* the ledger rows approval provisions: role -> how many
  sessions,   \* kyc_session rows, by provider_session_id
  stripe,     \* Stripe Identity: session -> status and failed submissions
  inbound,    \* inbound_event: the dedupe keys taken
  worker,     \* what each worker is in the middle of
  overrides,
  crashes     \* the workers that died once

vars == <<customer, ledger, sessions, stripe, inbound, worker,
          overrides, crashes>>

Verdicts == {"pending", "approved", "rejected"}
StripeStatuses == {"requires_input", "processing", "verified", "canceled"}
SessionIds == 1 .. MaxSessions

Customer == [kyc : Verdicts, approval : Verdicts]
KycSession == [status : Verdicts, attempt : 1 .. MaxSessions]
LedgerRows == {"cash", "customer_equity", "cash_lock"}

\* The events Stripe sends, deduplicated by their own id.  A "processing" event
\* leaves everything pending; it is not among them.
StripeEvents == [session : SessionIds, status : StripeStatuses \ {"processing"},
                 after : 0 .. MaxFailures]

Idle == [at |-> "idle"]
NotLoaded == [kyc |-> "none", approval |-> "none"]
Activity ==
  {Idle}
  \cup [at : {"starting"}, session : SessionIds, attempt : 1 .. MaxSessions]
  \cup [at : {"asking"}, session : SessionIds, loaded : Customer]
  \cup [at : {"verdict"}, session : SessionIds, verdict : Verdicts \ {"pending"},
        loaded : Customer \cup {NotLoaded}]
  \cup [at : {"resolved"}, session : SessionIds, verdict : Verdicts \ {"pending"},
        loaded : Customer]

\* The rows exist and have the columns of their tables.
TypeOK ==
  /\ customer \in Customer
  /\ ledger \in [LedgerRows -> Nat]
  /\ DOMAIN sessions \subseteq SessionIds /\ \A s \in DOMAIN sessions : sessions[s] \in KycSession
  /\ DOMAIN stripe \subseteq SessionIds
  /\ \A s \in DOMAIN stripe : stripe[s] \in [status : StripeStatuses, failures : 0 .. MaxFailures]
  /\ inbound \subseteq StripeEvents
  /\ worker \in [Workers -> Activity]
  /\ overrides \in 0 .. MaxOverrides /\ crashes \subseteq Workers

Init ==
  /\ customer = [kyc |-> "pending", approval |-> "pending"]
  /\ ledger = [r \in LedgerRows |-> 0]
  /\ sessions = <<>> /\ stripe = <<>>
  /\ inbound = {}
  /\ worker = [w \in Workers |-> Idle]
  /\ overrides = 0 /\ crashes = {}

kycVars == <<customer, ledger, sessions, stripe>>
bounds == <<overrides, crashes>>

\* INSERT: a table with one more row.
WithRow(table, id, row) ==
  [i \in DOMAIN table \cup {id} |-> IF i = id THEN row ELSE table[i]]

Turns(w, activity) == worker' = [worker EXCEPT ![w] = activity]

-----------------------------------------------------------------------------
(* KYC sessions. *)

\* latest_for_customer: ties of attempt_number are broken by nothing.
Latest ==
  {s \in DOMAIN sessions :
     \A t \in DOMAIN sessions : sessions[t].attempt <= sessions[s].attempt}

LatestAttempt ==
  IF DOMAIN sessions = {} THEN 0 ELSE sessions[CHOOSE s \in Latest : TRUE].attempt

KycLocked == customer.kyc = "rejected" /\ LatestAttempt >= MaxAttempts

\* create_verification_session at Stripe: the session is live there before
\* the row that knows of it is committed.
StartVerification(w) ==
  /\ worker[w] = Idle
  /\ ~KycLocked
  /\ \E s \in SessionIds \ DOMAIN stripe :
       /\ \A t \in SessionIds : t < s => t \in DOMAIN stripe
       /\ stripe' = WithRow(stripe, s, [status |-> "requires_input", failures |-> 0])
       /\ Turns(w, [at |-> "starting", session |-> s, attempt |-> LatestAttempt + 1])
  /\ UNCHANGED <<customer, ledger, sessions, inbound, bounds>>

StartKycSession(w) ==
  /\ worker[w].at = "starting"
  /\ sessions' = WithRow(sessions, worker[w].session,
                         [status |-> "pending", attempt |-> worker[w].attempt])
  /\ Turns(w, Idle)
  /\ UNCHANGED <<customer, ledger, stripe, inbound, bounds>>

\* The customer submits documents, Stripe decides; a session may be canceled.
StripeDecides(s) ==
  LET now == stripe[s] IN
  /\ \/ /\ now.status = "requires_input"
        /\ stripe' = [stripe EXCEPT ![s].status = "processing"]
     \/ /\ now.status = "processing"
        /\ stripe' = [stripe EXCEPT ![s].status = "verified"]
     \/ /\ now.status = "processing" /\ now.failures < MaxFailures
        /\ stripe' = [stripe EXCEPT ![s] = [status |-> "requires_input",
                                            failures |-> now.failures + 1]]
     \/ /\ now.status = "requires_input"
        /\ stripe' = [stripe EXCEPT ![s].status = "canceled"]
  /\ UNCHANGED <<customer, ledger, sessions, inbound, worker, bounds>>

\* An event may come late, after the session has moved on, or again and again.
Sent(e) ==
  /\ e.session \in DOMAIN stripe
  /\ LET now == stripe[e.session] IN
       IF e.status = "requires_input" THEN e.after \in 1 .. now.failures
       ELSE e.status = now.status /\ e.after = now.failures

MapVerificationSessionStatus(status, attempt) ==
  CASE status = "verified" -> "approved"
    [] status = "canceled" -> "rejected"
    [] status = "requires_input" /\ attempt >= MaxAttempts -> "rejected"
    [] OTHER -> "pending"

\* apply_verification_verdict up to resolve(): a status that maps to pending
\* ends here, and so does a session whose row was resolved when it was loaded
\* (KycSessionAlreadyResolved).
ApplyVerificationVerdict(w, s, status, found, loaded) ==
  LET verdict == MapVerificationSessionStatus(status, sessions[s].attempt) IN
  Turns(w, IF verdict # "pending" /\ found = "pending"
            THEN [at |-> "verdict", session |-> s, verdict |-> verdict, loaded |-> loaded]
            ELSE Idle)

\* stripe_identity_webhook: intake commits the event, then _apply_verdict
\* begins.  A session nobody knows is left alone; the event stays consumed.
StripeIdentityWebhook(w) ==
  /\ worker[w] = Idle
  /\ \E e \in StripeEvents \ inbound :
       /\ Sent(e)
       /\ inbound' = inbound \cup {e}
       /\ IF e.session \in DOMAIN sessions
          THEN ApplyVerificationVerdict(w, e.session, e.status, sessions[e.session].status, NotLoaded)
          ELSE UNCHANGED worker
  /\ UNCHANGED <<kycVars, bounds>>

\* retrieve_verification_session asks Stripe for the session as it is now.
RetrievedAtCreation(s) == "processing"
RetrieveVerificationSession(s) == stripe[s].status

\* get_identity_status and sync_latest_verification: asks Stripe itself, but
\* only while the customer is pending and only about the latest session.
GetIdentityStatus(w) ==
  /\ worker[w] = Idle
  /\ customer.kyc = "pending"
  /\ \E s \in Latest :
       /\ sessions[s].status = "pending"
       /\ Turns(w, [at |-> "asking", session |-> s, loaded |-> customer])
  /\ UNCHANGED <<kycVars, inbound, bounds>>

\* Stripe's answer is applied to the rows loaded before the call.
SyncLatestVerification(w) ==
  /\ worker[w].at = "asking"
  /\ LET t == worker[w] IN
       ApplyVerificationVerdict(w, t.session, RetrieveVerificationSession(t.session),
                                "pending", t.loaded)
  /\ UNCHANGED <<kycVars, inbound, bounds>>

\* The rows a transaction has written and not yet committed.
LockedSessions == {worker[v].session : v \in {u \in Workers : worker[u].at = "resolved"}}

\* Trigger kyc_session_before_update.
AnyTransition(s) == TRUE
SingleTransition(s) == sessions[s].status = "pending"

\* resolve() and the flush of the session row: the trigger checks the row as
\* it is once the UPDATE has its lock.  A webhook loads the customer only now.
Resolve(w) ==
  /\ worker[w].at = "verdict"
  /\ LET t == worker[w] IN
       /\ t.session \notin LockedSessions
       /\ Turns(w, IF SingleTransition(t.session)
                    THEN [at |-> "resolved", session |-> t.session, verdict |-> t.verdict,
                          loaded |-> IF t.loaded = NotLoaded THEN customer ELSE t.loaded]
                    ELSE Idle)
  /\ UNCHANGED <<kycVars, inbound, bounds>>

-----------------------------------------------------------------------------
(* Account approval. *)

CreateLedgerAccounts == [r \in LedgerRows |-> ledger[r] + 1]
\* _ensure_ledger_accounts, for the rows found missing.
EnsureLedgerAccounts == [r \in LedgerRows |-> IF ledger[r] = 0 THEN 1 ELSE ledger[r]]

ApproveOnVerdict(kyc, loaded) == loaded.approval # "approved"
ApproveIfEligible(kyc, loaded) == kyc = "approved" /\ loaded.approval # "approved"

\* The customer row is updated and locked before the accounts are looked up,
\* so a second approval finds what the first one made.  A column is written
\* only when it differs from what was loaded.
CommitVerdict(w) ==
  /\ worker[w].at = "resolved"
  /\ LET t == worker[w]
         granted == ApproveIfEligible(t.verdict, t.loaded)
     IN /\ sessions' = [sessions EXCEPT ![t.session].status = t.verdict]
        /\ customer' = [kyc |-> IF t.loaded.kyc = t.verdict THEN customer.kyc ELSE t.verdict,
                        approval |-> IF granted THEN "approved" ELSE customer.approval]
        /\ ledger' = IF granted THEN EnsureLedgerAccounts ELSE ledger
  /\ Turns(w, Idle)
  /\ UNCHANGED <<stripe, inbound, bounds>>

\* override_kyc_lock: the sessions and their attempt numbers stay.
OverrideKycLock ==
  /\ overrides < MaxOverrides
  /\ customer' = [customer EXCEPT !.kyc = "pending"]
  /\ overrides' = overrides + 1
  /\ UNCHANGED <<ledger, sessions, stripe, inbound, worker, crashes>>

-----------------------------------------------------------------------------
\* A worker dies, or its transaction or its call to Stripe raises: what it had
\* not committed is gone.
Crash(w) ==
  /\ worker[w] # Idle
  /\ w \notin crashes /\ Cardinality(crashes) < MaxCrashes
  /\ crashes' = crashes \cup {w}
  /\ Turns(w, Idle)
  /\ UNCHANGED <<kycVars, inbound, overrides>>

Step(w) ==
  \/ StartKycSession(w) \/ SyncLatestVerification(w) \/ Resolve(w) \/ CommitVerdict(w)

Next ==
  \/ \E w \in Workers :
       \/ StartVerification(w) \/ StripeIdentityWebhook(w) \/ GetIdentityStatus(w)
       \/ Step(w) \/ Crash(w)
  \/ \E s \in DOMAIN stripe : StripeDecides(s)
  \/ OverrideKycLock

\* A worker finishes what it began.  Nobody has to ask for the status: the page
\* asks once per session, then only when told to.
Fairness == \A w \in Workers : WF_vars(Step(w))

Spec == Init /\ [][Next]_vars /\ Fairness

-----------------------------------------------------------------------------
(* Properties. *)

\* A verdict, once given, stays: the webhook, a late duplicate of it and the
\* status request may all be applying a verdict to one session at the same time
\* (kyc_session.py:4, "status transitions exactly once").
VerdictFinal ==
  [][\A s \in DOMAIN sessions :
       sessions[s].status # "pending" => sessions'[s].status = sessions[s].status]_vars

\* An approved account has its cash account, its equity account and its cash
\* lock once each, however many verified sessions approved it at the same time;
\* a second cash account would make every later lookup of it raise.
ProvisionedOnce ==
  /\ customer.approval = "approved" => \A r \in LedgerRows : ledger[r] = 1
  /\ \A r \in LedgerRows : ledger[r] <= 1

\* Nobody is approved for trading whom Stripe did not verify, whichever
\* sessions, overrides and stale reads came before.
ApprovedWasVerified ==
  customer.approval = "approved" =>
    \E s \in DOMAIN sessions : sessions[s].status = "approved" /\ stripe[s].status = "verified"

\* The safety net of get_identity_status: a request that is asking Stripe about
\* a session once Stripe has decided it gets the verdict recorded, whatever
\* became of the webhook and whoever else applies a verdict meanwhile, unless
\* the request itself dies.
LostVerdictIsFound ==
  \A w \in Workers, s \in SessionIds :
    (/\ worker[w].at = "asking" /\ worker[w].session = s
     /\ stripe[s].status \in {"verified", "canceled"})
      ~> ((s \in DOMAIN sessions /\ sessions[s].status # "pending") \/ w \in crashes)

(* What the documents say and the code does not do. *)

\* 02-identity-funding-rails.md:86, canceled: the session is rejected, the
\* customer is not.
CanceledLeavesCustomer ==
  [][customer.kyc = "approved" => customer'.kyc # "rejected"]_vars
=============================================================================
