------------------------------ MODULE FeeCharge ------------------------------
(* Collecting one month's performance fee: FeeChargeService and DunningService,
   the charge_fee outbox task and DunningRetryJob that both call Stripe, and the
   Stripe webhook.

   charge_fee reads in one transaction, calls Stripe with none open, and
   records the answer in a second one; a worker or job may fail or die between
   any two of these.  Stripe answers a repeated idempotency key with its first
   answer, and forgets a declined one after about a day, which is also the
   first dunning backoff.  The backoff of the outbox is minutes: a dunning
   retry never comes due while the outbox row is still being retried.

   Amounts, the fee posting's legs and the published watermark are left out:
   a charge is posted or it is not.                                         *)
EXTENDS Naturals, FiniteSets

CONSTANTS
  Charges,       \* fee_charge rows that may come to exist, one per period
  MaxTries,      \* settings.outbox_max_attempts
  MaxAttempts,   \* settings.dunning_max_attempts
  MaxFaults      \* bound: lost calls and dead processes

ASSUME FeeAssumption ==
  /\ MaxTries \in Nat \ {0}
  /\ MaxAttempts \in Nat /\ MaxAttempts >= 2
  /\ MaxFaults \in Nat

Callers == {"outbox", "dunning"}     \* the two that run charge_fee

VARIABLES
  charge,    \* fee_charge: status, stripe_charge_id set, fee entries posted
  dunning,   \* dunning_state row: status, attempt_number, next_retry_at passed
  task,      \* the charge_fee outbox row
  caller,    \* charge -> caller -> where its charge_fee call is
  method,    \* the charges whose customer has a payment method on file
  stripe,    \* intent state, remembered answer, times the customer was charged
  hooks,     \* payment_intent.* webhooks Stripe has still to deliver
  faults

vars == <<charge, dunning, task, caller, method, stripe, hooks, faults>>

NoDunning == [status |-> "none", attempt |-> 0, due |-> FALSE]

Init ==
  /\ charge = [c \in Charges |-> [status |-> "none", known |-> FALSE, posted |-> 0]]
  /\ dunning = [c \in Charges |-> NoDunning]
  /\ task = [c \in Charges |-> [state |-> "none", tries |-> 0]]
  /\ caller = [c \in Charges |-> [a \in Callers |-> "idle"]]
  /\ method \in SUBSET Charges
  /\ stripe = [c \in Charges |-> [intent |-> "none", memo |-> "none", paid |-> 0]]
  /\ hooks = {}
  /\ faults = 0

-----------------------------------------------------------------------------
\* FeeChargeService and DunningService

\* A second run of the month finds the row, or loses on its unique period.
CreatePendingCharge(c) ==
  /\ charge[c].status = "none"
  /\ charge' = [charge EXCEPT ![c].status = "pending"]
  /\ task' = [task EXCEPT ![c] = [state |-> "pending", tries |-> 0]]
  /\ UNCHANGED <<dunning, caller, method, stripe, hooks, faults>>

ApplyChargeSuccessAgain(c) ==
  /\ charge' = [charge EXCEPT ![c] = [status |-> "succeeded", known |-> TRUE,
                                      posted |-> charge[c].posted + 1]]
  /\ dunning' = [dunning EXCEPT ![c] = NoDunning]

ApplyChargeSuccessOnly(c) ==
  IF charge[c].status = "succeeded"
  THEN UNCHANGED <<charge, dunning>>
  ELSE /\ charge' = [charge EXCEPT ![c] = [status |-> "succeeded", known |-> TRUE,
                                           posted |-> charge[c].posted + 1]]
       /\ UNCHANGED dunning

\* apply_charge_success: post, mark, and end the dunning.
ApplyChargeSuccess(c) ==
  IF charge[c].status = "succeeded"
  THEN UNCHANGED <<charge, dunning>>
  ELSE /\ charge' = [charge EXCEPT ![c] = [status |-> "succeeded", known |-> TRUE,
                                           posted |-> charge[c].posted + 1]]
       /\ dunning' = [dunning EXCEPT ![c] = NoDunning]

\* record_retry_failure: the last attempt exhausts, any other backs off again.
RecordRetryFailure(c) ==
  LET n == dunning[c].attempt + 1
  IN IF n >= MaxAttempts
     THEN /\ dunning' = [dunning EXCEPT ![c] = [status |-> "exhausted", attempt |-> n,
                                                due |-> dunning[c].due]]
          /\ charge' = [charge EXCEPT ![c].status = "dunning"]
     ELSE /\ dunning' = [dunning EXCEPT ![c] = [status |-> "retrying", attempt |-> n,
                                                due |-> FALSE]]
          /\ UNCHANGED charge

\* apply_charge_failure
ApplyChargeFailure(c) ==
  IF charge[c].status \in {"succeeded", "dunning"}
  THEN UNCHANGED <<charge, dunning>>
  ELSE IF dunning[c].status = "none"
  THEN /\ charge' = [charge EXCEPT ![c].status = "failed"]
       /\ dunning' = [dunning EXCEPT ![c] = [status |-> "retrying", attempt |-> 1,
                                             due |-> FALSE]]
  ELSE RecordRetryFailure(c)

-----------------------------------------------------------------------------
\* charge_fee

\* Otherwise charge_fee returns at once, which no due caller meets
\* (DueIsChargeable).
Chargeable(c) == charge[c].status \in {"pending", "failed"}

At(c, a, pc) == caller[c][a] = pc
Goto(c, a, pc) == caller' = [caller EXCEPT ![c][a] = pc]

\* list_due that leaves the last attempt out.
DueButLast(c, a) ==
  IF a = "outbox" THEN task[c].state = "pending"
  ELSE /\ dunning[c].status = "retrying" /\ dunning[c].due
       /\ dunning[c].attempt + 1 < MaxAttempts

\* What brings the caller here: a claimable outbox row, or a due dunning_state.
Due(c, a) ==
  IF a = "outbox" THEN task[c].state = "pending"
  ELSE dunning[c].status = "retrying" /\ dunning[c].due

\* The outbox completes its row when charge_fee returns; the job goes on.
Returned(c, a) ==
  task' = IF a = "outbox" THEN [task EXCEPT ![c].state = "done"] ELSE task

\* ... and retries or dead-letters it when charge_fee raises; the job fails and
\* the next run finds the same row due.
Raised(c, a) ==
  task' = IF a = "outbox"
          THEN [task EXCEPT ![c] =
                  [state |-> IF task[c].tries + 1 < MaxTries THEN "pending" ELSE "dead",
                   tries |-> task[c].tries + 1]]
          ELSE task

\* NoPaymentMethodError
ChargeHasNoMethod(c, a) ==
  /\ At(c, a, "idle") /\ Due(c, a) /\ Chargeable(c)
  /\ c \notin method
  /\ Raised(c, a)
  /\ UNCHANGED <<charge, dunning, caller, method, stripe, hooks, faults>>

\* The reading transaction commits and the Stripe call starts.
ChargeCalls(c, a) ==
  /\ At(c, a, "idle") /\ Due(c, a) /\ Chargeable(c)
  /\ c \in method
  /\ Goto(c, a, "calling")
  /\ UNCHANGED <<charge, dunning, task, method, stripe, hooks, faults>>

\* A new idempotency key for every call.
AnswerOfFresh(c, answer) == answer \in {"declined", "succeeded", "processing"}

\* idempotency_key = fee_charge.id: a known key gets its first answer.
AnswerOf(c, answer) ==
  IF stripe[c].memo = "none" THEN answer \in {"declined", "succeeded", "processing"}
  ELSE answer = stripe[c].memo

\* PaymentIntent.create: declined, collected at once, or still processing.
StripeAnswers(c, a, answer) ==
  /\ At(c, a, "calling")
  /\ AnswerOf(c, answer)
  /\ Goto(c, a, answer)
  /\ IF stripe[c].memo = answer THEN UNCHANGED <<stripe, hooks>>
     ELSE /\ stripe' = [stripe EXCEPT ![c] = [intent |-> answer, memo |-> answer,
               paid |-> IF answer = "succeeded" THEN stripe[c].paid + 1
                                                ELSE stripe[c].paid]]
          /\ hooks' = IF answer = "succeeded" THEN hooks \cup {<<c, "succeeded">>} ELSE hooks
  /\ UNCHANGED <<charge, dunning, task, method, faults>>

\* PaymentDeclinedError: the failure is recorded and charge_fee returns.
ChargeRecordsDecline(c, a) ==
  /\ At(c, a, "declined")
  /\ ApplyChargeFailure(c)
  /\ Goto(c, a, "idle")
  /\ Returned(c, a)
  /\ UNCHANGED <<method, stripe, hooks, faults>>

\* Any handle at all is a success.
ChargeRecordsSuccess(c, a) ==
  /\ At(c, a, "succeeded") \/ At(c, a, "processing")
  /\ ApplyChargeSuccess(c)
  /\ Goto(c, a, "idle")
  /\ Returned(c, a)
  /\ UNCHANGED <<method, stripe, hooks, faults>>

\* A transport error before or after Stripe acted, or a failed second commit.
ChargeRaises(c, a) ==
  /\ ~At(c, a, "idle") /\ faults < MaxFaults
  /\ faults' = faults + 1
  /\ Goto(c, a, "idle")
  /\ Raised(c, a)
  /\ UNCHANGED <<charge, dunning, method, stripe, hooks>>

\* The process dies: the outbox row stays in processing for good.
ChargeDies(c, a) ==
  /\ ~At(c, a, "idle") /\ faults < MaxFaults
  /\ faults' = faults + 1
  /\ Goto(c, a, "idle")
  /\ task' = IF a = "outbox" THEN [task EXCEPT ![c].state = "dead"] ELSE task
  /\ UNCHANGED <<charge, dunning, method, stripe, hooks>>

\* next_retry_at passes, a day later at the earliest.
BackoffElapses(c) ==
  /\ dunning[c].status = "retrying" /\ ~dunning[c].due
  /\ task[c].state \in {"done", "dead"}
  /\ dunning' = [dunning EXCEPT ![c].due = TRUE]
  /\ stripe' \in {stripe, IF stripe[c].memo = "declined"
                          THEN [stripe EXCEPT ![c].memo = "none"] ELSE stripe}
  /\ UNCHANGED <<charge, task, caller, method, hooks, faults>>

AttachPaymentMethod(c) ==
  /\ c \notin method
  /\ method' = method \cup {c}
  /\ UNCHANGED <<charge, dunning, task, caller, stripe, hooks, faults>>

-----------------------------------------------------------------------------
\* Stripe's own steps and the webhook

\* An intent in processing is collected or fails, and Stripe says so.
StripeSettles(c, verdict) ==
  /\ stripe[c].intent = "processing"
  /\ verdict \in {"succeeded", "canceled"}
  /\ stripe' = [stripe EXCEPT ![c] = [intent |-> verdict, memo |-> stripe[c].memo,
            paid |-> IF verdict = "succeeded" THEN stripe[c].paid + 1 ELSE stripe[c].paid]]
  /\ hooks' = hooks \cup {<<c, verdict>>}
  /\ UNCHANGED <<charge, dunning, task, caller, method, faults>>

\* _apply_verdict: looked up by stripe_charge_id, ignored when not found.
Webhook(c, verdict) ==
  /\ <<c, verdict>> \in hooks
  /\ hooks' = hooks \ {<<c, verdict>>}
  /\ IF ~charge[c].known THEN UNCHANGED <<charge, dunning>>
     ELSE IF verdict = "succeeded" THEN ApplyChargeSuccess(c)
     ELSE ApplyChargeFailure(c)
  /\ UNCHANGED <<task, caller, method, stripe, faults>>

CallerStep(c, a) ==
  \/ ChargeHasNoMethod(c, a)
  \/ ChargeCalls(c, a)
  \/ \E answer \in {"declined", "succeeded", "processing"} : StripeAnswers(c, a, answer)
  \/ ChargeRecordsDecline(c, a)
  \/ ChargeRecordsSuccess(c, a)

Next ==
  \E c \in Charges :
    \/ CreatePendingCharge(c)
    \/ \E a \in Callers : CallerStep(c, a) \/ ChargeRaises(c, a) \/ ChargeDies(c, a)
    \/ BackoffElapses(c)
    \/ AttachPaymentMethod(c)
    \/ \E verdict \in {"succeeded", "canceled"} :
         StripeSettles(c, verdict) \/ Webhook(c, verdict)

Spec == Init /\ [][Next]_vars

\* The worker drains its queue, the dunning job runs again and again, backoffs
\* pass, and Stripe answers.  Nobody has to attach a payment method.
Fairness ==
  \A c \in Charges :
    /\ \A a \in Callers : WF_vars(CallerStep(c, a))
    /\ WF_vars(BackoffElapses(c))

LiveSpec == Spec /\ Fairness

-----------------------------------------------------------------------------
\* Properties

\* Every variable stays within the values its rows and calls can hold.
TypeOK ==
  /\ charge \in [Charges -> [status : {"none", "pending", "succeeded", "failed", "dunning"},
                             known : BOOLEAN, posted : Nat]]
  /\ dunning \in [Charges -> [status : {"none", "retrying", "exhausted"},
                              attempt : 0 .. MaxAttempts, due : BOOLEAN]]
  /\ task \in [Charges -> [state : {"none", "pending", "done", "dead"},
                           tries : 0 .. MaxTries]]
  /\ caller \in [Charges -> [Callers ->
                   {"idle", "calling", "declined", "succeeded", "processing"}]]
  /\ method \subseteq Charges
  /\ stripe \in [Charges ->
                   [intent : {"none", "declined", "processing", "succeeded", "canceled"},
                    memo : {"none", "declined", "processing", "succeeded"}, paid : Nat]]
  /\ hooks \subseteq Charges \X {"succeeded", "canceled"}
  /\ faults \in 0 .. MaxFaults

\* However often the outbox and the dunning job retry, through lost answers and
\* dead processes, the customer's card is charged once per fee_charge.
ChargedOnce == \A c \in Charges : stripe[c].paid <= 1

\* The fee is posted to the ledger once, whoever learns of the success and
\* however many webhooks repeat it, and only for a charge that succeeded: the
\* customer has paid, or Stripe first answered that the payment was processing
\* (charge_fee looks at no status, and what becomes of it is never recorded).
PostedOnce ==
  \A c \in Charges :
    /\ charge[c].posted = (IF charge[c].status = "succeeded" THEN 1 ELSE 0)
    /\ charge[c].status = "succeeded" => stripe[c].paid = 1 \/ stripe[c].memo = "processing"

\* The dunning row and the charge tell the customer the same story: a failed
\* charge has attempts left, an exhausted one is in dunning, and a resolved or
\* untried one has no dunning row.  Neither a retry of the outbox row nor a due
\* dunning row outlives its charge and sends somebody to charge it again.
DunningAgrees ==
  \A c \in Charges :
    /\ charge[c].status = "failed" <=> dunning[c].status = "retrying"
    /\ charge[c].status = "dunning" <=> dunning[c].status = "exhausted"
    /\ dunning[c].status = "retrying" => dunning[c].attempt \in 1 .. MaxAttempts - 1
    /\ \A a \in Callers : Due(c, a) => Chargeable(c)

\* A declined fee is retried until it is collected or visibly owed.
FailureResolves ==
  \A c \in Charges :
    charge[c].status = "failed" ~> charge[c].status \in {"succeeded", "dunning"}

-----------------------------------------------------------------------------
\* What the documentation says and the code does not do

\* A charge whose customer has a payment method does not stay pending.
PendingResolves ==
  \A c \in Charges :
    (charge[c].status = "pending" /\ c \in method) ~> charge[c].status # "pending"

\* Once nothing is under way, a charge the customer paid is recorded as paid.
PaidIsRecorded ==
  \A c \in Charges :
    /\ stripe[c].paid > 0
    /\ task[c].state \in {"done", "dead"} /\ dunning[c].status = "none"
    /\ \A a \in Callers : At(c, a, "idle")
    /\ \A verdict \in {"succeeded", "canceled"} : <<c, verdict>> \notin hooks
    => charge[c].status = "succeeded"
=============================================================================
