----------------------------- MODULE OnceProofs -----------------------------
(* Machine-checked proofs about the two places where a key makes a repeated
   call harmless: the charge of a fee (FeeCharge), for any number of charges,
   tries and faults, and the money requests of a client with the lists it pages
   through (Requests), for any workers, requests, ids, timestamps and page
   sizes.  The two share no state.                                          *)
EXTENDS FeeCharge, Requests, Sums

-----------------------------------------------------------------------------
(* FeeCharge.
   The card is charged once, the fee posted once, and the dunning row and the
   charge agree.  Charges do not interact, so the invariant is stated for one
   charge and a step of one leaves every other as it is. *)

-----------------------------------------------------------------------------
\* The inductive invariant

Statuses == {"none", "pending", "succeeded", "failed", "dunning"}
ChargeRows == [status : Statuses, known : BOOLEAN, posted : Nat]
DunningRows == [status : {"none", "retrying", "exhausted"}, attempt : 0 .. MaxAttempts,
                due : BOOLEAN]
TaskRows == [state : {"none", "pending", "done", "dead"}, tries : 0 .. MaxTries]
Pcs == {"idle", "calling", "declined", "succeeded", "processing"}
Intents == [intent : {"none", "declined", "processing", "succeeded", "canceled"},
            memo : {"none", "declined", "processing", "succeeded"}, paid : Nat]

\* The type invariant, with its row types named.
Types ==
  /\ charge \in [Charges -> ChargeRows]
  /\ dunning \in [Charges -> DunningRows]
  /\ task \in [Charges -> TaskRows]
  /\ caller \in [Charges -> [Callers -> Pcs]]
  /\ method \subseteq Charges
  /\ stripe \in [Charges -> Intents]
  /\ hooks \subseteq Charges \X {"succeeded", "canceled"}
  /\ faults \in 0 .. MaxFaults

\* What Stripe remembers of the idempotency key fixes what it has collected: a
\* key that is unknown or was declined has collected nothing.
KeyDecides(c) ==
  /\ stripe[c].memo = "none" => stripe[c].intent \in {"none", "declined"}
  /\ stripe[c].memo = "declined" => stripe[c].intent = "declined"
  /\ stripe[c].memo = "processing" => stripe[c].intent \in {"processing", "succeeded", "canceled"}
  /\ stripe[c].memo = "succeeded" => stripe[c].intent = "succeeded"
  /\ stripe[c].paid = (IF stripe[c].intent = "succeeded" THEN 1 ELSE 0)

\* An answer that is not recorded yet is still the one Stripe remembers.
AnswerIsRemembered(c) ==
  \A a \in Callers :
    caller[c][a] \in {"succeeded", "processing"} => stripe[c].memo = caller[c][a]

\* Outbox and dunning job take turns: the outbox calls while the charge is
\* untried, the dunning job only when it failed and the outbox row is closed.
TakeTurns(c) ==
  /\ task[c].state = "pending" => charge[c].status = "pending" /\ task[c].tries < MaxTries
  /\ ~At(c, "outbox", "idle") => task[c].state = "pending"
  /\ ~At(c, "dunning", "idle") => charge[c].status = "failed"

\* The fee is posted when, and only when, the charge succeeds, and only then is
\* Stripe's id on file.
PostedWithStatus(c) ==
  /\ charge[c].posted = (IF charge[c].status = "succeeded" THEN 1 ELSE 0)
  /\ charge[c].known => charge[c].status = "succeeded"
  /\ charge[c].status = "succeeded" => stripe[c].paid = 1 \/ stripe[c].memo = "processing"

RowsAgree(c) ==
  /\ charge[c].status = "failed" <=> dunning[c].status = "retrying"
  /\ charge[c].status = "dunning" <=> dunning[c].status = "exhausted"
  /\ dunning[c].status = "retrying" => dunning[c].attempt \in 1 .. MaxAttempts - 1

ChargeInv(c) ==
  /\ KeyDecides(c)
  /\ AnswerIsRemembered(c)
  /\ TakeTurns(c)
  /\ PostedWithStatus(c)
  /\ RowsAgree(c)

IInv == Types /\ \A c \in Charges : ChargeInv(c)

-----------------------------------------------------------------------------
\* Charges do not interact

\* A step leaves everything recorded about a charge as it was.
Untouched(d) ==
  /\ charge'[d] = charge[d] /\ dunning'[d] = dunning[d] /\ task'[d] = task[d]
  /\ caller'[d] = caller[d] /\ stripe'[d] = stripe[d]

\* A charge none of whose rows change keeps its invariant.
LEMMA UntouchedKeeps ==
  ASSUME NEW d, ChargeInv(d), Untouched(d)
  PROVE  ChargeInv(d)'
BY DEF ChargeInv, Untouched, KeyDecides, AnswerIsRemembered, TakeTurns, PostedWithStatus,
       RowsAgree, At

\* A step of one charge keeps the invariant if it keeps that charge's.
LEMMA OneCharge ==
  ASSUME IInv, NEW c \in Charges, Types', ChargeInv(c)',
         \A d \in Charges \ {c} : Untouched(d)
  PROVE  IInv'
BY UntouchedKeeps DEF IInv

-----------------------------------------------------------------------------
\* The services

\* apply_charge_success writes the row of its charge alone; the charge ends
\* succeeded, posted once and without a dunning row.
LEMMA SuccessEffect ==
  ASSUME IInv, NEW c \in Charges, charge[c].status # "dunning", ApplyChargeSuccess(c)
  PROVE  /\ charge' \in [Charges -> ChargeRows] /\ dunning' \in [Charges -> DunningRows]
         /\ \A d \in Charges \ {c} : charge'[d] = charge[d] /\ dunning'[d] = dunning[d]
         /\ charge'[c].status = "succeeded" /\ charge'[c].posted = 1
         /\ dunning'[c].status = "none"
<1>1. /\ charge \in [Charges -> ChargeRows] /\ dunning \in [Charges -> DunningRows]
      /\ PostedWithStatus(c) /\ RowsAgree(c)
  BY DEF IInv, Types, ChargeInv
<1>2. NoDunning \in DunningRows
  BY FeeAssumption DEF NoDunning, DunningRows
<1>3. CASE charge[c].status = "succeeded"
  <2>1. charge' = charge /\ dunning' = dunning
    BY <1>3 DEF ApplyChargeSuccess
  <2>2. dunning[c].status = "none"
    BY <1>1, <1>3 DEF RowsAgree, DunningRows
  <2> QED BY <1>1, <1>3, <2>1, <2>2 DEF PostedWithStatus
<1>4. CASE charge[c].status # "succeeded"
  <2> DEFINE new == [status |-> "succeeded", known |-> TRUE, posted |-> charge[c].posted + 1]
  <2>1. charge' = [charge EXCEPT ![c] = new] /\ dunning' = [dunning EXCEPT ![c] = NoDunning]
    BY <1>4 DEF ApplyChargeSuccess
  <2>2. charge[c].posted = 0
    BY <1>1, <1>4 DEF PostedWithStatus
  <2>3. new \in ChargeRows /\ new.status = "succeeded" /\ new.posted = 1
    BY <2>2 DEF ChargeRows, Statuses
  <2> QED BY <1>1, <1>2, <2>1, <2>3 DEF NoDunning
<1> QED BY <1>3, <1>4

\* apply_charge_failure of a charge that is pending or failed opens the dunning,
\* counts one attempt more, or exhausts it.
LEMMA FailureEffect ==
  ASSUME IInv, NEW c \in Charges, Chargeable(c), ApplyChargeFailure(c)
  PROVE  /\ charge' \in [Charges -> ChargeRows] /\ dunning' \in [Charges -> DunningRows]
         /\ \A d \in Charges \ {c} : charge'[d] = charge[d] /\ dunning'[d] = dunning[d]
         /\ charge'[c].known = charge[c].known /\ charge'[c].posted = charge[c].posted
         /\ charge'[c].status \in {"failed", "dunning"}
         /\ RowsAgree(c)'
<1>1. /\ charge \in [Charges -> ChargeRows] /\ dunning \in [Charges -> DunningRows]
      /\ RowsAgree(c)
  BY DEF IInv, Types, ChargeInv
<1>2. charge[c].status \notin {"succeeded", "dunning"}
  BY DEF Chargeable
<1>3. CASE dunning[c].status = "none"
  <2> DEFINE first == [status |-> "retrying", attempt |-> 1, due |-> FALSE]
  <2>1. charge' = [charge EXCEPT ![c].status = "failed"] /\ dunning' = [dunning EXCEPT ![c] = first]
    BY <1>2, <1>3 DEF ApplyChargeFailure
  <2>2. first \in DunningRows /\ 1 \in 1 .. MaxAttempts - 1
    BY FeeAssumption DEF DunningRows
  <2>3. /\ charge' \in [Charges -> ChargeRows] /\ charge'[c].status = "failed"
        /\ charge'[c].known = charge[c].known /\ charge'[c].posted = charge[c].posted
    BY <1>1, <2>1 DEF ChargeRows, Statuses
  <2>4. dunning' \in [Charges -> DunningRows] /\ dunning'[c] = first
    BY <1>1, <2>1, <2>2
  <2>5. RowsAgree(c)'
    BY <2>2, <2>3, <2>4 DEF RowsAgree
  <2> QED BY <1>1, <2>1, <2>3, <2>4, <2>5
<1>4. CASE dunning[c].status # "none"
  <2> DEFINE n == dunning[c].attempt + 1
             last == [status |-> "exhausted", attempt |-> n, due |-> dunning[c].due]
             again == [status |-> "retrying", attempt |-> n, due |-> FALSE]
  <2>1. RecordRetryFailure(c)
    BY <1>2, <1>4 DEF ApplyChargeFailure
  <2>2. dunning[c].status = "retrying" /\ charge[c].status = "failed"
    BY <1>1, <1>2, <1>4 DEF RowsAgree, DunningRows
  <2>3. dunning[c].attempt \in 1 .. MaxAttempts - 1
    BY <1>1, <2>2 DEF RowsAgree
  <2>4. n \in 1 .. MaxAttempts /\ dunning[c].due \in BOOLEAN
    BY <1>1, <2>3, FeeAssumption DEF DunningRows
  <2>5. CASE n >= MaxAttempts
    <3>1. dunning' = [dunning EXCEPT ![c] = last] /\ charge' = [charge EXCEPT ![c].status = "dunning"]
      BY <2>1, <2>5 DEF RecordRetryFailure
    <3>2. last \in DunningRows
      BY <2>4 DEF DunningRows
    <3>3. /\ charge' \in [Charges -> ChargeRows] /\ charge'[c].status = "dunning"
          /\ charge'[c].known = charge[c].known /\ charge'[c].posted = charge[c].posted
      BY <1>1, <3>1 DEF ChargeRows, Statuses
    <3>4. dunning' \in [Charges -> DunningRows] /\ dunning'[c].status = "exhausted"
      BY <1>1, <3>1, <3>2
    <3>5. RowsAgree(c)'
      BY <3>3, <3>4 DEF RowsAgree
    <3> QED BY <1>1, <3>1, <3>3, <3>4, <3>5
  <2>6. CASE ~(n >= MaxAttempts)
    <3>1. dunning' = [dunning EXCEPT ![c] = again] /\ charge' = charge
      BY <2>1, <2>6 DEF RecordRetryFailure
    <3>2. again \in DunningRows /\ n \in 1 .. MaxAttempts - 1
      BY <2>4, <2>6, FeeAssumption DEF DunningRows
    <3>3. dunning' \in [Charges -> DunningRows] /\ dunning'[c] = again
      BY <1>1, <3>1, <3>2
    <3>4. RowsAgree(c)'
      BY <2>2, <3>1, <3>2, <3>3 DEF RowsAgree
    <3> QED BY <1>1, <2>2, <3>1, <3>3, <3>4
  <2> QED BY <2>5, <2>6
<1> QED BY <1>3, <1>4

-----------------------------------------------------------------------------
\* One lemma per action

LEMMA CreateStep ==
  ASSUME IInv, NEW c \in Charges, CreatePendingCharge(c)
  PROVE  IInv'
<1>1. Types /\ ChargeInv(c)
  BY DEF IInv
<1>2. /\ charge' = [charge EXCEPT ![c].status = "pending"]
      /\ task' = [task EXCEPT ![c] = [state |-> "pending", tries |-> 0]]
      /\ charge[c].status = "none"
      /\ UNCHANGED <<dunning, caller, method, stripe, hooks, faults>>
  BY DEF CreatePendingCharge
<1>3. charge' \in [Charges -> ChargeRows] /\ charge'[c] = [charge[c] EXCEPT !.status = "pending"]
  BY <1>1, <1>2 DEF Types, ChargeRows, Statuses
<1>4. task' \in [Charges -> TaskRows] /\ task'[c] = [state |-> "pending", tries |-> 0]
  BY <1>1, <1>2, FeeAssumption DEF Types, TaskRows
<1>5. Types'
  BY <1>1, <1>2, <1>3, <1>4 DEF Types
<1>6. charge[c] \in ChargeRows /\ caller[c] \in [Callers -> Pcs]
  BY <1>1 DEF Types
<1>7. ChargeInv(c)'
  BY <1>1, <1>2, <1>3, <1>4, <1>6, FeeAssumption
     DEF ChargeInv, KeyDecides, AnswerIsRemembered, TakeTurns, PostedWithStatus, RowsAgree,
         At, ChargeRows
<1>8. \A d \in Charges \ {c} : Untouched(d)
  BY <1>1, <1>2 DEF Types, Untouched
<1> QED BY <1>5, <1>7, <1>8, OneCharge

\* A caller's own steps leave the other charges alone.
LEMMA GotoEffect ==
  ASSUME Types, NEW c \in Charges, NEW a \in Callers, NEW pc \in Pcs, Goto(c, a, pc)
  PROVE  /\ caller' \in [Charges -> [Callers -> Pcs]]
         /\ \A d \in Charges \ {c} : caller'[d] = caller[d]
         /\ caller'[c][a] = pc
         /\ \A b \in Callers \ {a} : caller'[c][b] = caller[c][b]
BY DEF Types, Goto

\* What the outbox does with its row when charge_fee returns or raises.
LEMMA TaskEffect ==
  ASSUME IInv, NEW c \in Charges, NEW a \in Callers, Returned(c, a) \/ Raised(c, a),
         a = "outbox" => task[c].state = "pending"
  PROVE  /\ task' \in [Charges -> TaskRows]
         /\ \A d \in Charges \ {c} : task'[d] = task[d]
         /\ a = "dunning" => task'[c] = task[c]
         /\ task'[c].state = "pending" => task[c].state = "pending" /\ task'[c].tries < MaxTries
         /\ a = "outbox" /\ Returned(c, a) => task'[c].state = "done"
<1>1. task \in [Charges -> TaskRows]
  BY DEF Types, IInv
<1>2. task[c].state = "pending" => task[c].tries < MaxTries
  BY DEF IInv, ChargeInv, TakeTurns
<1>3. CASE a = "dunning"
  BY <1>1, <1>2, <1>3 DEF Returned, Raised
<1>4. CASE a = "outbox" /\ Returned(c, a)
  <2>1. task' = [task EXCEPT ![c].state = "done"]
    BY <1>4 DEF Returned
  <2> QED BY <1>1, <1>4, <2>1 DEF TaskRows
<1>5. CASE a = "outbox" /\ Raised(c, a)
  <2> DEFINE n == task[c].tries + 1
             row == [state |-> IF n < MaxTries THEN "pending" ELSE "dead", tries |-> n]
  <2>1. task' = [task EXCEPT ![c] = row]
    BY <1>5 DEF Raised
  <2>2. n \in 0 .. MaxTries
    BY <1>1, <1>2, <1>5, FeeAssumption DEF TaskRows
  <2>3. row \in TaskRows /\ (row.state = "pending" => n < MaxTries)
    BY <2>2 DEF TaskRows
  <2>4. Returned(c, a) => FALSE
    <3>1. Returned(c, a) => task'[c].tries = task[c].tries
      BY <1>1, <1>5 DEF Returned, TaskRows
    <3>2. task'[c].tries = n /\ task[c].tries \in Nat
      BY <1>1, <2>1, FeeAssumption DEF TaskRows
    <3> QED BY <3>1, <3>2
  <2> QED BY <1>1, <1>5, <2>1, <2>3, <2>4
<1> QED BY <1>3, <1>4, <1>5 DEF Callers

\* A call without a payment method raises before Stripe is asked.
LEMMA NoMethodStep ==
  ASSUME IInv, NEW c \in Charges, NEW a \in Callers, ChargeHasNoMethod(c, a)
  PROVE  IInv'
<1>1. Types /\ ChargeInv(c)
  BY DEF IInv
<1>2. /\ Raised(c, a) /\ Due(c, a)
      /\ UNCHANGED <<charge, dunning, caller, method, stripe, hooks, faults>>
  BY DEF ChargeHasNoMethod
<1>3. a = "outbox" => task[c].state = "pending"
  BY <1>2 DEF Due
<1>4. /\ task' \in [Charges -> TaskRows]
      /\ \A d \in Charges \ {c} : task'[d] = task[d]
      /\ a = "dunning" => task'[c] = task[c]
      /\ task'[c].state = "pending" => task[c].state = "pending" /\ task'[c].tries < MaxTries
  BY <1>2, <1>3, TaskEffect
<1>5. a = "outbox" => At(c, "outbox", "idle")
  BY DEF ChargeHasNoMethod
<1>6. TakeTurns(c)'
  BY <1>1, <1>2, <1>4, <1>5 DEF ChargeInv, TakeTurns, At, Callers
<1>7. ChargeInv(c)'
  BY <1>1, <1>2, <1>6
     DEF ChargeInv, KeyDecides, AnswerIsRemembered, PostedWithStatus, RowsAgree
<1>8. Types' /\ \A d \in Charges \ {c} : Untouched(d)
  BY <1>1, <1>2, <1>4 DEF Types, Untouched
<1> QED BY <1>7, <1>8, OneCharge

\* A caller whose turn it is puts its request to Stripe.
LEMMA CallsStep ==
  ASSUME IInv, NEW c \in Charges, NEW a \in Callers, ChargeCalls(c, a)
  PROVE  IInv'
<1>1. Types /\ ChargeInv(c)
  BY DEF IInv
<1>2. /\ Goto(c, a, "calling") /\ Due(c, a)
      /\ UNCHANGED <<charge, dunning, task, method, stripe, hooks, faults>>
  BY DEF ChargeCalls
<1>3. /\ caller' \in [Charges -> [Callers -> Pcs]]
      /\ \A d \in Charges \ {c} : caller'[d] = caller[d]
      /\ caller'[c][a] = "calling"
      /\ \A b \in Callers \ {a} : caller'[c][b] = caller[c][b]
  BY <1>1, <1>2, GotoEffect DEF Pcs
<1>4. AnswerIsRemembered(c)'
  BY <1>1, <1>2, <1>3 DEF ChargeInv, AnswerIsRemembered
<1>5. TakeTurns(c)'
  BY <1>1, <1>2, <1>3 DEF ChargeInv, TakeTurns, RowsAgree, At, Callers, Due
<1>6. ChargeInv(c)'
  BY <1>1, <1>2, <1>4, <1>5 DEF ChargeInv, KeyDecides, PostedWithStatus, RowsAgree
<1>7. Types' /\ \A d \in Charges \ {c} : Untouched(d)
  BY <1>1, <1>2, <1>3 DEF Types, Untouched
<1> QED BY <1>6, <1>7, OneCharge

\* Stripe's answer is the one it remembers under the key, or a new one.
LEMMA AnswersStep ==
  ASSUME IInv, NEW c \in Charges, NEW a \in Callers,
         NEW answer \in {"declined", "succeeded", "processing"}, StripeAnswers(c, a, answer)
  PROVE  IInv'
<1>1. Types /\ ChargeInv(c)
  BY DEF IInv
<1>2. /\ Goto(c, a, answer) /\ At(c, a, "calling") /\ AnswerOf(c, answer)
      /\ UNCHANGED <<charge, dunning, task, method, faults>>
  BY DEF StripeAnswers
<1>3. /\ caller' \in [Charges -> [Callers -> Pcs]]
      /\ \A d \in Charges \ {c} : caller'[d] = caller[d]
      /\ caller'[c][a] = answer
      /\ \A b \in Callers \ {a} : caller'[c][b] = caller[c][b]
  BY <1>1, <1>2, GotoEffect DEF Pcs
<1>4. /\ stripe' \in [Charges -> Intents]
      /\ \A d \in Charges \ {c} : stripe'[d] = stripe[d]
      /\ hooks' \subseteq Charges \X {"succeeded", "canceled"}
      /\ stripe'[c].memo = answer
      /\ stripe[c].memo \in {"none", answer}
      /\ KeyDecides(c)'
      /\ stripe[c].memo = answer => stripe' = stripe
  <2>1. CASE stripe[c].memo = answer
    <3>1. stripe' = stripe /\ hooks' = hooks
      BY <2>1 DEF StripeAnswers
    <3> QED BY <1>1, <2>1, <3>1 DEF Types, ChargeInv, KeyDecides
  <2>2. CASE stripe[c].memo # answer
    <3> DEFINE row == [intent |-> answer, memo |-> answer,
                       paid |-> IF answer = "succeeded" THEN stripe[c].paid + 1
                                                        ELSE stripe[c].paid]
    <3>1. /\ stripe' = [stripe EXCEPT ![c] = row]
          /\ hooks' = IF answer = "succeeded" THEN hooks \cup {<<c, "succeeded">>} ELSE hooks
      BY <2>2 DEF StripeAnswers
    <3>2. stripe[c].memo = "none"
      BY <1>2, <2>2 DEF AnswerOf
    <3>3. stripe[c].paid = 0
      BY <1>1, <3>2 DEF ChargeInv, KeyDecides
    <3>4. row \in Intents
      BY <3>3 DEF Intents
    <3>5. stripe' \in [Charges -> Intents] /\ stripe'[c] = row
      BY <1>1, <3>1, <3>4 DEF Types
    <3>6. KeyDecides(c)'
      BY <3>3, <3>5 DEF KeyDecides
    <3> QED BY <1>1, <2>2, <3>1, <3>2, <3>5, <3>6 DEF Types
  <2> QED BY <2>1, <2>2
<1>5. AnswerIsRemembered(c)'
  <2> SUFFICES ASSUME NEW b \in Callers, caller'[c][b] \in {"succeeded", "processing"}
               PROVE  stripe'[c].memo = caller'[c][b]
    BY DEF AnswerIsRemembered
  <2>1. CASE b = a
    BY <1>3, <1>4, <2>1
  <2>2. CASE b # a
    BY <1>1, <1>3, <1>4, <2>2 DEF ChargeInv, AnswerIsRemembered
  <2> QED BY <2>1, <2>2
<1>6. TakeTurns(c)'
  BY <1>1, <1>2, <1>3 DEF ChargeInv, TakeTurns, At, Callers
<1>7. PostedWithStatus(c)'
  BY <1>1, <1>2, <1>4 DEF ChargeInv, PostedWithStatus, KeyDecides
<1>8. ChargeInv(c)'
  BY <1>1, <1>2, <1>4, <1>5, <1>6, <1>7 DEF ChargeInv, RowsAgree
<1>9. Types' /\ \A d \in Charges \ {c} : Untouched(d)
  BY <1>1, <1>2, <1>3, <1>4 DEF Types, Untouched
<1> QED BY <1>8, <1>9, OneCharge

\* While a caller is not idle its charge is still open and the other caller is
\* idle.
LEMMA CallerAlone ==
  ASSUME IInv, NEW c \in Charges, NEW a \in Callers, ~At(c, a, "idle")
  PROVE  /\ charge[c].status \in {"pending", "failed"}
         /\ a = "outbox" => task[c].state = "pending"
         /\ a = "dunning" => task[c].state # "pending"
         /\ \A b \in Callers \ {a} : At(c, b, "idle")
BY DEF IInv, ChargeInv, TakeTurns, Callers

\* Recording a decline counts the attempt and ends the caller's turn.
LEMMA DeclineStep ==
  ASSUME IInv, NEW c \in Charges, NEW a \in Callers, ChargeRecordsDecline(c, a)
  PROVE  IInv'
<1>1. Types /\ ChargeInv(c)
  BY DEF IInv
<1>2. /\ ApplyChargeFailure(c) /\ Goto(c, a, "idle") /\ Returned(c, a)
      /\ ~At(c, a, "idle")
      /\ UNCHANGED <<method, stripe, hooks, faults>>
  BY DEF ChargeRecordsDecline, At
<1>3. /\ Chargeable(c)
      /\ a = "outbox" => task[c].state = "pending"
      /\ a = "dunning" => task[c].state # "pending"
      /\ \A b \in Callers \ {a} : At(c, b, "idle")
  BY <1>2, CallerAlone DEF Chargeable
<1>4. /\ charge' \in [Charges -> ChargeRows] /\ dunning' \in [Charges -> DunningRows]
      /\ \A d \in Charges \ {c} : charge'[d] = charge[d] /\ dunning'[d] = dunning[d]
      /\ charge'[c].known = charge[c].known /\ charge'[c].posted = charge[c].posted
      /\ charge'[c].status \in {"failed", "dunning"}
      /\ RowsAgree(c)'
  BY <1>2, <1>3, FailureEffect
<1>5. /\ caller' \in [Charges -> [Callers -> Pcs]]
      /\ \A d \in Charges \ {c} : caller'[d] = caller[d]
      /\ \A b \in Callers : caller'[c][b] = "idle"
  BY <1>1, <1>2, <1>3, GotoEffect DEF Pcs, At
<1>6. /\ task' \in [Charges -> TaskRows]
      /\ \A d \in Charges \ {c} : task'[d] = task[d]
      /\ task'[c].state # "pending"
  BY <1>2, <1>3, TaskEffect DEF Callers
<1>7. TakeTurns(c)' /\ AnswerIsRemembered(c)'
  BY <1>5, <1>6 DEF TakeTurns, AnswerIsRemembered, At, Callers
<1>8. PostedWithStatus(c)' /\ KeyDecides(c)'
  BY <1>1, <1>2, <1>3, <1>4 DEF ChargeInv, PostedWithStatus, KeyDecides, Chargeable
<1>9. Types' /\ \A d \in Charges \ {c} : Untouched(d)
  BY <1>1, <1>2, <1>4, <1>5, <1>6 DEF Types, Untouched
<1> QED BY <1>4, <1>7, <1>8, <1>9, OneCharge DEF ChargeInv

\* Recording a success posts the fee for money Stripe has.
LEMMA SuccessStep ==
  ASSUME IInv, NEW c \in Charges, NEW a \in Callers, ChargeRecordsSuccess(c, a)
  PROVE  IInv'
<1>1. Types /\ ChargeInv(c)
  BY DEF IInv
<1>2. /\ ApplyChargeSuccess(c) /\ Goto(c, a, "idle") /\ Returned(c, a)
      /\ ~At(c, a, "idle")
      /\ UNCHANGED <<method, stripe, hooks, faults>>
  BY DEF ChargeRecordsSuccess, At
<1>3. /\ charge[c].status # "dunning"
      /\ a = "outbox" => task[c].state = "pending"
      /\ a = "dunning" => task[c].state # "pending"
      /\ \A b \in Callers \ {a} : At(c, b, "idle")
  BY <1>2, CallerAlone
<1>4. /\ charge' \in [Charges -> ChargeRows] /\ dunning' \in [Charges -> DunningRows]
      /\ \A d \in Charges \ {c} : charge'[d] = charge[d] /\ dunning'[d] = dunning[d]
      /\ charge'[c].status = "succeeded" /\ charge'[c].posted = 1
      /\ dunning'[c].status = "none"
  BY <1>2, <1>3, SuccessEffect
<1>5. /\ caller' \in [Charges -> [Callers -> Pcs]]
      /\ \A d \in Charges \ {c} : caller'[d] = caller[d]
      /\ \A b \in Callers : caller'[c][b] = "idle"
  BY <1>1, <1>2, <1>3, GotoEffect DEF Pcs, At
<1>6. /\ task' \in [Charges -> TaskRows]
      /\ \A d \in Charges \ {c} : task'[d] = task[d]
      /\ task'[c].state # "pending"
  BY <1>2, <1>3, TaskEffect DEF Callers
<1>7. TakeTurns(c)' /\ AnswerIsRemembered(c)'
  BY <1>5, <1>6 DEF TakeTurns, AnswerIsRemembered, At, Callers
<1>8. stripe[c].memo \in {"succeeded", "processing"}
  BY <1>1 DEF ChargeInv, AnswerIsRemembered, ChargeRecordsSuccess, At
<1>9. PostedWithStatus(c)' /\ KeyDecides(c)' /\ RowsAgree(c)'
  BY <1>1, <1>2, <1>4, <1>8 DEF ChargeInv, PostedWithStatus, KeyDecides, RowsAgree
<1>10. Types' /\ \A d \in Charges \ {c} : Untouched(d)
  BY <1>1, <1>2, <1>4, <1>5, <1>6 DEF Types, Untouched
<1> QED BY <1>7, <1>9, <1>10, OneCharge DEF ChargeInv

\* A call that raises, or whose process dies, ends its caller's turn and writes
\* nothing but the outbox row.
LEMMA FaultStep ==
  ASSUME IInv, NEW c \in Charges, NEW a \in Callers, ChargeRaises(c, a) \/ ChargeDies(c, a)
  PROVE  IInv'
<1>1. Types /\ ChargeInv(c)
  BY DEF IInv
<1>2. /\ Goto(c, a, "idle") /\ ~At(c, a, "idle")
      /\ faults < MaxFaults /\ faults' = faults + 1
      /\ UNCHANGED <<charge, dunning, method, stripe, hooks>>
  BY DEF ChargeRaises, ChargeDies
<1>3. /\ a = "outbox" => task[c].state = "pending"
      /\ \A b \in Callers \ {a} : At(c, b, "idle")
  BY <1>2, CallerAlone
<1>4. /\ caller' \in [Charges -> [Callers -> Pcs]]
      /\ \A d \in Charges \ {c} : caller'[d] = caller[d]
      /\ \A b \in Callers : caller'[c][b] = "idle"
  BY <1>1, <1>2, <1>3, GotoEffect DEF Pcs, At
<1>5. /\ task' \in [Charges -> TaskRows]
      /\ \A d \in Charges \ {c} : task'[d] = task[d]
      /\ task'[c].state = "pending" => task[c].state = "pending" /\ task'[c].tries < MaxTries
  <2>1. CASE ChargeRaises(c, a)
    BY <1>3, <2>1, TaskEffect DEF ChargeRaises
  <2>2. CASE ChargeDies(c, a)
    <3>1. task' = IF a = "outbox" THEN [task EXCEPT ![c].state = "dead"] ELSE task
      BY <2>2 DEF ChargeDies
    <3> QED BY <1>1, <3>1 DEF Types, TaskRows, ChargeInv, TakeTurns
  <2> QED BY <2>1, <2>2
<1>6. TakeTurns(c)' /\ AnswerIsRemembered(c)'
  BY <1>1, <1>2, <1>4, <1>5 DEF ChargeInv, TakeTurns, AnswerIsRemembered, At, Callers
<1>7. ChargeInv(c)'
  BY <1>1, <1>2, <1>6 DEF ChargeInv, KeyDecides, PostedWithStatus, RowsAgree
<1>8. Types' /\ \A d \in Charges \ {c} : Untouched(d)
  BY <1>1, <1>2, <1>4, <1>5, FeeAssumption DEF Types, Untouched
<1> QED BY <1>7, <1>8, OneCharge

\* A dunning retry comes due after the outbox row is finished.
LEMMA BackoffStep ==
  ASSUME IInv, NEW c \in Charges, BackoffElapses(c)
  PROVE  IInv'
<1>1. Types /\ ChargeInv(c)
  BY DEF IInv
<1>2. /\ dunning' = [dunning EXCEPT ![c].due = TRUE]
      /\ dunning[c].status = "retrying" /\ ~dunning[c].due
      /\ UNCHANGED <<charge, task, caller, method, hooks, faults>>
      /\ \/ stripe' = stripe
         \/ stripe[c].memo = "declined" /\ stripe' = [stripe EXCEPT ![c].memo = "none"]
  BY DEF BackoffElapses
<1>3. /\ dunning' \in [Charges -> DunningRows]
      /\ dunning'[c].status = dunning[c].status /\ dunning'[c].attempt = dunning[c].attempt
      /\ \A d \in Charges \ {c} : dunning'[d] = dunning[d]
  BY <1>1, <1>2 DEF Types, DunningRows
<1>4. /\ stripe' \in [Charges -> Intents]
      /\ \A d \in Charges \ {c} : stripe'[d] = stripe[d]
      /\ stripe'[c].paid = stripe[c].paid /\ stripe'[c].intent = stripe[c].intent
      /\ stripe'[c].memo # stripe[c].memo => stripe[c].memo = "declined" /\ stripe'[c].memo = "none"
  <2>1. stripe \in [Charges -> Intents]
    BY <1>1 DEF Types, Intents
  <2>2. CASE stripe' = stripe
    BY <2>1, <2>2
  <2>3. CASE stripe[c].memo = "declined" /\ stripe' = [stripe EXCEPT ![c].memo = "none"]
    BY <2>1, <2>3 DEF Intents
  <2> QED BY <1>2, <2>2, <2>3
<1>5. KeyDecides(c)'
  BY <1>1, <1>4 DEF ChargeInv, KeyDecides
<1>6. AnswerIsRemembered(c)' /\ PostedWithStatus(c)'
  BY <1>1, <1>2, <1>4 DEF ChargeInv, AnswerIsRemembered, PostedWithStatus
<1>7. TakeTurns(c)' /\ RowsAgree(c)'
  BY <1>1, <1>2, <1>3 DEF ChargeInv, TakeTurns, RowsAgree, At
<1>8. Types' /\ \A d \in Charges \ {c} : Untouched(d)
  BY <1>1, <1>2, <1>3, <1>4 DEF Types, Untouched
<1> QED BY <1>5, <1>6, <1>7, <1>8, OneCharge DEF ChargeInv

\* A processing intent settles without touching the rows of the charge.
LEMMA SettlesStep ==
  ASSUME IInv, NEW c \in Charges, NEW verdict \in {"succeeded", "canceled"},
         StripeSettles(c, verdict)
  PROVE  IInv'
<1>1. Types /\ ChargeInv(c)
  BY DEF IInv
<1>2. /\ stripe[c].intent = "processing"
      /\ hooks' = hooks \cup {<<c, verdict>>}
      /\ UNCHANGED <<charge, dunning, task, caller, method, faults>>
  BY DEF StripeSettles
<1>3. stripe[c].memo = "processing" /\ stripe[c].paid = 0 /\ stripe[c] \in Intents
  BY <1>1, <1>2 DEF ChargeInv, KeyDecides, Types, Intents
<1>4. /\ stripe' \in [Charges -> Intents]
      /\ \A d \in Charges \ {c} : stripe'[d] = stripe[d]
      /\ stripe'[c].intent = verdict /\ stripe'[c].memo = "processing"
      /\ stripe'[c].paid = IF verdict = "succeeded" THEN 1 ELSE 0
  <2> DEFINE paid == IF verdict = "succeeded" THEN stripe[c].paid + 1 ELSE stripe[c].paid
             row == [intent |-> verdict, memo |-> "processing", paid |-> paid]
  <2>1. stripe \in [Charges -> Intents]
    BY <1>1 DEF Types
  <2>3. row \in Intents /\ paid = IF verdict = "succeeded" THEN 1 ELSE 0
    BY <1>3 DEF Intents
  <2>2. stripe' = [stripe EXCEPT ![c] = row]
    BY <1>3 DEF StripeSettles
  <2> QED BY <2>1, <2>2, <2>3
<1>5. KeyDecides(c)'
  BY <1>4 DEF KeyDecides
<1>6. AnswerIsRemembered(c)' /\ PostedWithStatus(c)'
  BY <1>1, <1>2, <1>3, <1>4 DEF ChargeInv, AnswerIsRemembered, PostedWithStatus
<1>7. TakeTurns(c)' /\ RowsAgree(c)'
  BY <1>1, <1>2 DEF ChargeInv, TakeTurns, RowsAgree, At
<1>8. Types' /\ \A d \in Charges \ {c} : Untouched(d)
  BY <1>1, <1>2, <1>4 DEF Types, Untouched
<1> QED BY <1>5, <1>6, <1>7, <1>8, OneCharge DEF ChargeInv

\* A webhook finds its charge only once the charge has succeeded.
LEMMA WebhookWritesNothing ==
  ASSUME IInv, NEW c \in Charges, NEW verdict \in {"succeeded", "canceled"},
         Webhook(c, verdict)
  PROVE  UNCHANGED <<charge, dunning>>
<1>1. charge[c].known => charge[c].status = "succeeded"
  BY DEF IInv, ChargeInv, PostedWithStatus
<1> QED BY <1>1 DEF Webhook, ApplyChargeSuccess, ApplyChargeFailure

\* A step that changes only the webhooks under way or the payment methods.
LEMMA OutsideFrame ==
  ASSUME IInv, Types', UNCHANGED <<charge, dunning, task, caller, stripe>>
  PROVE  IInv'
<1>1. \A c \in Charges : Untouched(c)
  BY DEF Untouched
<1> QED BY <1>1, UntouchedKeeps DEF IInv

-----------------------------------------------------------------------------
\* The initial state, without charges, is in the invariant.
LEMMA InitEstablishes == Init => IInv
<1> SUFFICES ASSUME Init PROVE IInv
  OBVIOUS
<1>1. Types
  BY FeeAssumption DEF Init, Types, ChargeRows, DunningRows, TaskRows, Pcs, Intents, Statuses,
                       NoDunning
<1>2. \A c \in Charges : ChargeInv(c)
  BY DEF Init, ChargeInv, KeyDecides, AnswerIsRemembered, TakeTurns, PostedWithStatus,
         RowsAgree, At, NoDunning, Callers
<1> QED BY <1>1, <1>2 DEF IInv

\* Every step keeps the invariant.
LEMMA NextPreserves == IInv /\ [Next]_vars => IInv'
<1> SUFFICES ASSUME IInv, [Next]_vars PROVE IInv'
  OBVIOUS
<1>1. ASSUME NEW c \in Charges, NEW a \in Callers, CallerStep(c, a) PROVE IInv'
  BY <1>1, NoMethodStep, CallsStep, AnswersStep, DeclineStep, SuccessStep DEF CallerStep
<1>2. ASSUME NEW c \in Charges, NEW verdict \in {"succeeded", "canceled"}, Webhook(c, verdict)
      PROVE  IInv'
  <2>1. UNCHANGED <<charge, dunning, task, caller, stripe, method, faults>> /\ hooks' \subseteq hooks
    BY <1>2, WebhookWritesNothing DEF Webhook
  <2>2. Types'
    BY <2>1 DEF IInv, Types
  <2> QED BY <2>1, <2>2, OutsideFrame
<1>3. ASSUME NEW c \in Charges, AttachPaymentMethod(c) PROVE IInv'
  <2>1. Types'
    BY <1>3 DEF IInv, Types, AttachPaymentMethod
  <2> QED BY <1>3, <2>1, OutsideFrame DEF AttachPaymentMethod
<1>4. CASE UNCHANGED vars
  <2>1. Types'
    BY <1>4 DEF IInv, Types, vars
  <2> QED BY <1>4, <2>1, OutsideFrame DEF vars
<1> QED
  BY <1>1, <1>2, <1>3, <1>4, CreateStep, FaultStep, BackoffStep, SettlesStep DEF Next

\* The inductive invariant holds throughout every execution.
THEOREM FeeInvariant == Spec => []IInv
BY InitEstablishes, NextPreserves, PTL DEF Spec

\* Through any number of outbox retries, dunning attempts, lost answers and dead
\* processes, the customer's card is charged at most once per fee_charge.
THEOREM CardChargedOnce == Spec => []ChargedOnce
<1>1. IInv => ChargedOnce
  BY DEF IInv, ChargeInv, KeyDecides, ChargedOnce
<1> QED BY <1>1, FeeInvariant, PTL

\* The fee is posted exactly when the charge succeeded, once, and then Stripe
\* has collected it or first answered that it was processing.
THEOREM FeePostedOnce == Spec => []PostedOnce
<1>1. IInv => PostedOnce
  BY DEF IInv, ChargeInv, PostedWithStatus, PostedOnce
<1> QED BY <1>1, FeeInvariant, PTL

\* The dunning row and the charge agree, and nobody is ever due to charge a fee
\* that is settled or given up.
THEOREM DunningRowAgrees == Spec => []DunningAgrees
<1>1. IInv => DunningAgrees
  BY DEF IInv, ChargeInv, RowsAgree, TakeTurns, DunningAgrees, Due, Chargeable
<1> QED BY <1>1, FeeInvariant, PTL

\* Stripe's later verdict never reaches a charge: the webhook looks the charge up
\* by an id that is on file only after the charge succeeded, and then returns.
THEOREM WebhookIsIgnored ==
  Spec => [][\A c \in Charges : \A verdict \in {"succeeded", "canceled"} :
               Webhook(c, verdict) => UNCHANGED <<charge, dunning>>]_vars
<1>1. IInv => (\A c \in Charges : \A verdict \in {"succeeded", "canceled"} :
                 Webhook(c, verdict) => UNCHANGED <<charge, dunning>>)
  BY WebhookWritesNothing
<1> QED BY <1>1, FeeInvariant, PTL

-----------------------------------------------------------------------------
(* Requests.
   A key works once and every answer is the row it made; a client that pages
   through a list meanwhile sees every row once. *)

-----------------------------------------------------------------------------
\* The inductive invariant

\* A worker in the middle of a request holds one the client sent.
Carries(w) == worker[w].at = "executing" => worker[w].request \in Sent /\ worker[w].time \in Times

\* The rows, the keys and the answers name each other.
RowsTyped ==
  /\ worker = [w \in Workers |-> worker[w]] /\ \A w \in Workers : Carries(w)
  /\ DOMAIN rows \subseteq Ids /\ IsFiniteSet(DOMAIN rows)
  /\ \A i \in DOMAIN rows : rows[i].request \in Sent /\ rows[i].time \in Times

\* A key names the row it made, a row its key, and an answer a row of its request.
KeysNameRows ==
  /\ \A k \in DOMAIN keys : /\ keys[k].response \in DOMAIN rows
                            /\ rows[keys[k].response].request.key = k
                            /\ rows[keys[k].response].request.body = keys[k].hash
  /\ \A i \in DOMAIN rows : /\ rows[i].request.key \in DOMAIN keys
                            /\ keys[rows[i].request.key].response = i
  /\ \A a \in answers : /\ a.response \in DOMAIN rows
                        /\ rows[a.response].request.key = a.request.key
                        /\ rows[a.response].request.body = a.request.body

\* A key is only ever added, and so is a row.
Kept == /\ DOMAIN rows \subseteq DOMAIN rows' /\ \A i \in DOMAIN rows : rows'[i] = rows[i]

\* What the client holds, page by page.
Walking ==
  \/ walk = NoWalk
  \/ /\ walk.at \in {"more", "done"} /\ walk.limit \in Nat \ {0}
     /\ walk.seen \in Seq(Nat \X Nat)
     /\ walk.expected \subseteq Listed(walk.kinds)
     /\ \A m, n \in 1 .. Len(walk.seen) : m < n => Older(walk.seen[n], walk.seen[m])
     /\ walk.at = "done" => \A r \in walk.expected : \E n \in 1 .. Len(walk.seen) : walk.seen[n] = r
     /\ walk.at = "more" =>
          /\ Len(walk.seen) > 0 /\ walk.after = walk.seen[Len(walk.seen)]
          /\ \A r \in walk.expected :
               Older(r, walk.after) \/ \E n \in 1 .. Len(walk.seen) : walk.seen[n] = r

-----------------------------------------------------------------------------
\* Workers

\* Nothing is there at the start.
LEMMA InitRows == RequestsInit => RowsTyped /\ KeysNameRows
<1> SUFFICES ASSUME RequestsInit PROVE RowsTyped /\ KeysNameRows
  OBVIOUS
<1>1. DOMAIN rows = {} /\ DOMAIN keys = {} /\ answers = {}
  BY DEF RequestsInit
<1>2. worker = [w \in Workers |-> Idle]
  BY DEF RequestsInit, LinksInit
<1>3. IsFiniteSet(DOMAIN rows)
  BY <1>1, FS_EmptySet
<1> QED BY <1>1, <1>2, <1>3 DEF RowsTyped, KeysNameRows, Carries, Idle

\* A worker that takes up something other than a request carries nothing.
LEMMA WorkerFrame ==
  ASSUME RowsTyped, NEW w \in Workers, NEW a,
         Become(w, a), a.at = "executing" => a.request \in Sent /\ a.time \in Times
  PROVE  worker' = [v \in Workers |-> worker'[v]] /\ \A v \in Workers : Carries(v)'
<1>1. worker' = [worker EXCEPT ![w] = a] /\ DOMAIN worker = Workers
  BY DEF Become, RowsTyped
<1>2. \A v \in Workers : worker'[v] = IF v = w THEN a ELSE worker[v]
  BY <1>1
<1>3. worker' = [v \in Workers |-> worker'[v]]
  BY <1>1
<1> QED BY <1>2, <1>3 DEF Carries, RowsTyped

\* Linking banks and receiving webhooks touches no row, key or answer.
LEMMA LinksRows ==
  ASSUME RowsTyped, LinksNext
  PROVE  worker' = [v \in Workers |-> worker'[v]] /\ \A v \in Workers : Carries(v)'
<1>1. ASSUME worker' = worker
      PROVE  worker' = [v \in Workers |-> worker'[v]] /\ \A v \in Workers : Carries(v)'
  BY <1>1 DEF RowsTyped, Carries
<1>2. ASSUME NEW w \in Workers, NEW a, Become(w, a), a.at # "executing"
      PROVE  worker' = [v \in Workers |-> worker'[v]] /\ \A v \in Workers : Carries(v)'
  BY <1>2, WorkerFrame
<1>3. ASSUME NEW w \in Workers,
             ExchangePublicToken(w) \/ CreateBankLink(w)
               \/ PlaidWebhook(w) \/ ApplyItemLoginRequired(w) \/ Crash(w)
      PROVE  worker' = worker \/ \E a : Become(w, a) /\ a.at # "executing"
  <2>1. Idle.at # "executing"
    BY DEF Idle
  <2>2. CASE ExchangePublicToken(w)
    BY <2>2 DEF ExchangePublicToken
  <2>3. CASE CreateBankLink(w) \/ ApplyItemLoginRequired(w) \/ Crash(w)
    BY <2>1, <2>3 DEF CreateBankLink, ApplyItemLoginRequired, Crash
  <2>4. CASE PlaidWebhook(w)
    BY <2>4 DEF PlaidWebhook
  <2> QED BY <1>3, <2>2, <2>3, <2>4
<1>4. ASSUME NEW i \in DOMAIN items, BankWantsLogin(i) PROVE worker' = worker
  BY <1>4 DEF BankWantsLogin
<1> QED BY <1>1, <1>2, <1>3, <1>4 DEF LinksNext

\* A commit that finds its key new adds one row, one key and one answer.
LEMMA CommitRows ==
  ASSUME RowsTyped, KeysNameRows, NEW w \in Workers, Commit(w)
  PROVE  RowsTyped' /\ KeysNameRows' /\ Kept
<1> DEFINE r == worker[w].request
<1>0. r \in Sent /\ worker[w].time \in Times
  BY DEF Commit, RowsTyped, Carries
<1>1. worker' = [v \in Workers |-> worker'[v]] /\ \A v \in Workers : Carries(v)'
  <2>1. Become(w, Idle) /\ Idle.at # "executing"
    BY DEF Commit, Idle
  <2> QED BY <2>1, WorkerFrame
<1>2. CASE ~KeyIsNew(r.key)
  <2>1. UNCHANGED <<rows, keys, answers>>
    BY <1>2 DEF Commit
  <2> QED BY <1>1, <2>1 DEF RowsTyped, KeysNameRows, Kept
<1>3. CASE KeyIsNew(r.key)
  <2>1. PICK i \in Ids \ DOMAIN rows :
          /\ rows' = Insert(rows, i, [request |-> r, time |-> worker[w].time])
          /\ keys' = Insert(keys, r.key, [hash |-> r.body, response |-> i])
          /\ answers' = answers \cup {[request |-> r, response |-> i]}
    BY <1>3 DEF Commit
  <2>2. /\ DOMAIN rows' = DOMAIN rows \cup {i} /\ \A j \in DOMAIN rows : rows'[j] = rows[j]
        /\ rows'[i].request = r /\ rows'[i].time = worker[w].time
    BY <2>1 DEF Insert
  <2>3. /\ DOMAIN keys' = DOMAIN keys \cup {r.key} /\ r.key \notin DOMAIN keys
        /\ \A k \in DOMAIN keys : keys'[k] = keys[k]
        /\ keys'[r.key].hash = r.body /\ keys'[r.key].response = i
    BY <1>3, <2>1 DEF Insert, KeyIsNew
  <2>4. RowsTyped'
    <3>1. IsFiniteSet(DOMAIN rows')
      BY <2>2, FS_AddElement DEF RowsTyped
    <3> HIDE DEF r
    <3> QED BY <1>0, <1>1, <2>1, <2>2, <3>1 DEF RowsTyped
  <2> HIDE DEF r
  <2>5. \A k \in DOMAIN keys' : /\ keys'[k].response \in DOMAIN rows'
                                /\ rows'[keys'[k].response].request.key = k
                                /\ rows'[keys'[k].response].request.body = keys'[k].hash
    BY <2>2, <2>3 DEF KeysNameRows
  <2>6. \A j \in DOMAIN rows' : /\ rows'[j].request.key \in DOMAIN keys'
                                /\ keys'[rows'[j].request.key].response = j
    BY <2>2, <2>3 DEF KeysNameRows
  <2>7. \A a \in answers' : /\ a.response \in DOMAIN rows'
                            /\ rows'[a.response].request.key = a.request.key
                            /\ rows'[a.response].request.body = a.request.body
    BY <2>1, <2>2 DEF KeysNameRows
  <2> QED BY <2>2, <2>4, <2>5, <2>6, <2>7 DEF KeysNameRows, Kept
<1> QED BY <1>2, <1>3

\* Every step keeps rows, keys and answers naming each other, and takes none back.
LEMMA NextRows ==
  ASSUME RowsTyped, KeysNameRows, [RequestsNext]_requestsVars
  PROVE  RowsTyped' /\ KeysNameRows' /\ Kept
<1> DEFINE G == RowsTyped' /\ KeysNameRows' /\ Kept
<1>1. ASSUME UNCHANGED <<rows, keys, answers>>, worker' = [v \in Workers |-> worker'[v]],
             \A v \in Workers : Carries(v)'
      PROVE  G
  BY <1>1 DEF RowsTyped, KeysNameRows, Kept
<1>2. ASSUME UNCHANGED requestsVars PROVE G
  BY <1>1, <1>2 DEF requestsVars, RowsTyped, Carries
<1>3. ASSUME LinksNext, UNCHANGED reqVars PROVE G
  BY <1>1, <1>3, LinksRows DEF reqVars
<1>4. ASSUME NEW q \in Sent, Replay(q) PROVE G
  <2>1. UNCHANGED <<worker, rows, keys>>
    BY <1>4 DEF Replay
  <2>2. answers' = answers \cup {[request |-> q, response |-> keys[q.key].response]}
        /\ q.key \in DOMAIN keys /\ keys[q.key].hash = q.body
    BY <1>4 DEF Replay, ResolveReplay
  <2>3. RowsTyped'
    BY <2>1 DEF RowsTyped, Carries
  <2>4. \A a \in answers' : /\ a.response \in DOMAIN rows
                            /\ rows[a.response].request.key = a.request.key
                            /\ rows[a.response].request.body = a.request.body
    BY <2>2 DEF KeysNameRows
  <2> QED BY <2>1, <2>3, <2>4 DEF KeysNameRows, Kept
<1>5. ASSUME NEW w \in Workers, NEW q \in Sent, NEW t \in Times, Execute(w, q, t) PROVE G
  <2>1. UNCHANGED <<rows, keys, answers>> /\ Become(w, [at |-> "executing", request |-> q, time |-> t])
    BY <1>5 DEF Execute, reqVars
  <2> QED BY <1>1, <2>1, WorkerFrame
<1>6. ASSUME NEW w \in Workers, Refuse(w) PROVE G
  <2>1. UNCHANGED <<rows, keys, answers>> /\ Become(w, Idle) /\ Idle.at # "executing"
    BY <1>6 DEF Refuse, reqVars, Idle
  <2> QED BY <1>1, <2>1, WorkerFrame
<1>7. ASSUME UNCHANGED <<worker, rows, keys, answers>> PROVE G
  BY <1>1, <1>7 DEF RowsTyped, Carries
<1>8. ASSUME NEW w \in Workers, Commit(w) PROVE G
  BY <1>8, CommitRows
<1>9. ASSUME NEW n \in Limits, ListOrders(n) \/ GetFundingHistory(n)
      PROVE  G
  BY <1>7, <1>9 DEF ListOrders, GetFundingHistory, ListFirst
<1>10. ASSUME ListNext PROVE G
  BY <1>7, <1>10 DEF ListNext
<1> HIDE DEF G
<1>11. ASSUME NEW w \in Workers, NEW q \in Sent, NEW t \in Times,
              CreateOrder(w, q, t) \/ CreateDeposit(w, q, t) \/ CreateWithdrawal(w, q, t)
       PROVE  G
  BY <1>5, <1>11 DEF CreateOrder, CreateDeposit, CreateWithdrawal
<1>12. ASSUME RequestsNext PROVE G
  <2>1. ASSUME NEW w \in Workers,
               \/ \E q \in Sent, t \in Times :
                    CreateOrder(w, q, t) \/ CreateDeposit(w, q, t) \/ CreateWithdrawal(w, q, t)
               \/ Commit(w) \/ Refuse(w)
        PROVE  G
    BY <1>6, <1>8, <1>11, <2>1
  <2> QED BY <1>3, <1>4, <1>9, <1>10, <1>12, <2>1 DEF RequestsNext
<1>13. G
  BY <1>2, <1>12
<1> QED BY <1>13 DEF G

-----------------------------------------------------------------------------
\* Pages

\* The order of a page: the newest first, the larger id first in a tie.
ByKey == {p \in (Nat \X Nat) \X (Nat \X Nat) : Older(p[2], p[1])}

\* The rows left after the cursor.
After(R, c) == IF c = NoCursor THEN R ELSE {r \in R : Older(r, c)}

\* The beginning of a list.
LEMMA Beginning ==
  ASSUME NEW S, NEW list \in Seq(S), NEW m \in Nat, m <= Len(list)
  PROVE  /\ SubSeq(list, 1, m) \in Seq(S) /\ Len(SubSeq(list, 1, m)) = m
         /\ \A i \in 1 .. m : SubSeq(list, 1, m)[i] = list[i]
OBVIOUS

\* A page lists what is left, newest first: all of it, or the first `limit`
\* rows, and then the cursor is the last of them.
LEMMA PageInOrder ==
  ASSUME NEW R, R \subseteq Nat \X Nat, IsFiniteSet(R), NEW c, NEW limit \in Nat \ {0},
         NEW left, left = After(R, c), NEW page, page = ListPage(R, c, limit)
  PROVE  /\ InLine(ByKey, left) /\ IsFiniteSet(left)
         /\ page.items \in Seq(Nat \X Nat)
         /\ Len(page.items) = IF Cardinality(left) > limit THEN limit ELSE Cardinality(left)
         /\ \A i \in 1 .. Len(page.items) : page.items[i] = Listing(ByKey, left)[i]
         /\ page.next = IF Cardinality(left) > limit THEN Listing(ByKey, left)[limit] ELSE NoCursor
<1> DEFINE N == Cardinality(left)
           L == Listing(ByKey, left)
           Newer(r) == {x \in left : x[1] > r[1] \/ (x[1] = r[1] /\ x[2] > r[2])}
           Nth(i) == CHOOSE r \in left : Cardinality(Newer(r)) = i - 1
           newest == [i \in 1 .. N |-> Nth(i)]
           n == limit + 1
           fetched == SubSeq(newest, 1, IF N < n THEN N ELSE n)
<1>0. left \in SUBSET R /\ IsFiniteSet(left) /\ N \in Nat /\ left \subseteq Nat \X Nat
  <2>1. left \in SUBSET R
    BY DEF After
  <2> QED BY <2>1, FS_Subset, FS_CardinalityType
<1>1. page = Paginate(fetched, limit)
  BY DEF ListPage, Select, After
<1>2. \A a, b \in left : <<a, b>> \in ByKey <=> Older(b, a)
  BY <1>0 DEF ByKey
<1>3. \A a \in left : a[1] \in Nat /\ a[2] \in Nat /\ a = <<a[1], a[2]>>
  BY <1>0
<1>4. InLine(ByKey, left)
  BY <1>2, <1>3 DEF InLine, Older
<1>5. \A r \in left : Newer(r) = LeftOf(ByKey, left, r)
  BY <1>2, <1>3 DEF LeftOf, Older
<1>6. ASSUME NEW i \in 1 .. N PROVE newest[i] \in left /\ newest[i] = L[i]
  <2>1. PICK r \in left : Place(ByKey, left, r) = i - 1
    BY <1>0, <1>4, PlaceTaken
  <2>2. Cardinality(Newer(r)) = i - 1
    BY <1>5, <2>1 DEF Place
  <2>3. newest[i] \in left /\ Cardinality(Newer(newest[i])) = i - 1
    <3> HIDE DEF Newer
    <3> QED BY <2>2
  <2>4. Place(ByKey, left, newest[i]) = i - 1
    <3> HIDE DEF Newer, newest
    <3> QED BY <1>5, <2>3 DEF Place
  <2>5. L[i] \in left /\ Place(ByKey, left, L[i]) = i - 1
    BY <1>0, <1>4, ListingInOrder
  <2> HIDE DEF newest, L
  <2> QED BY <1>0, <1>4, <2>3, <2>4, <2>5, PlaceOfOne
<1>7. newest \in Seq(Nat \X Nat) /\ Len(newest) = N
  <2>1. \A i \in 1 .. N : newest[i] \in Nat \X Nat
    BY <1>0, <1>6
  <2>2. DOMAIN newest = 1 .. N /\ newest = [i \in 1 .. N |-> newest[i]]
    <3> HIDE DEF Nth
    <3> QED OBVIOUS
  <2> HIDE DEF newest
  <2> QED BY <1>0, <2>1, <2>2
<1> DEFINE k == IF N < n THEN N ELSE n
<1>8. k \in 0 .. N /\ n \in Nat
  BY <1>0
<1>9. fetched \in Seq(Nat \X Nat) /\ Len(fetched) = k /\ \A i \in 1 .. k : fetched[i] = L[i]
  <2> HIDE DEF newest, L
  <2>1. \A i \in 1 .. k : i \in 1 .. N
    BY <1>0, <1>8
  <2> HIDE DEF k
  <2>2. fetched = SubSeq(newest, 1, k)
    BY DEF k
  <2>3. SubSeq(newest, 1, k) \in Seq(Nat \X Nat) /\ Len(SubSeq(newest, 1, k)) = k
        /\ \A i \in 1 .. k : SubSeq(newest, 1, k)[i] = newest[i]
    BY <1>0, <1>7, <1>8, Beginning
  <2> QED BY <1>6, <2>1, <2>2, <2>3
<1> HIDE DEF fetched, L, newest
<1>10. CASE N > limit
  <2>1. Len(fetched) > limit /\ Len(fetched) = limit + 1 /\ k = limit + 1
    BY <1>0, <1>9, <1>10
  <2>2. page.items = SubSeq(fetched, 1, limit) /\ page.next = fetched[limit]
    BY <1>1, <2>1 DEF Paginate
  <2>3. SubSeq(fetched, 1, limit) \in Seq(Nat \X Nat) /\ Len(SubSeq(fetched, 1, limit)) = limit
        /\ \A i \in 1 .. limit : SubSeq(fetched, 1, limit)[i] = fetched[i]
    BY <1>9, <2>1, Beginning
  <2>4. \A i \in 1 .. limit : i \in 1 .. k
    BY <2>1
  <2>5. limit \in 1 .. limit
    OBVIOUS
  <2>6. /\ page.items \in Seq(Nat \X Nat) /\ Len(page.items) = limit /\ page.next = L[limit]
        /\ \A i \in 1 .. limit : page.items[i] = L[i]
    BY <1>9, <2>2, <2>3, <2>4, <2>5
  <2> QED BY <1>0, <1>4, <1>10, <2>6 DEF L
<1>11. CASE ~(N > limit)
  <2>1. ~(Len(fetched) > limit) /\ k = N
    BY <1>0, <1>9, <1>11
  <2>2. page.items = fetched /\ page.next = NoCursor
    BY <1>1, <2>1 DEF Paginate
  <2>3. /\ page.items \in Seq(Nat \X Nat) /\ Len(page.items) = N /\ page.next = NoCursor
        /\ \A i \in 1 .. N : page.items[i] = L[i]
    BY <1>9, <2>1, <2>2
  <2> QED BY <1>0, <1>4, <1>11, <2>3 DEF L
<1> QED BY <1>10, <1>11

\* Newest first.
Falling(s) == \A m, n \in 1 .. Len(s) : m < n => Older(s[n], s[m])
Shows(s, r) == \E n \in 1 .. Len(s) : s[n] = r

\* Time and id together put the rows in a line.
LEMMA OlderIsTransitive ==
  \A a, b, c \in Nat \X Nat : Older(a, b) /\ Older(b, c) => Older(a, c)
<1> SUFFICES ASSUME NEW a \in Nat \X Nat, NEW b \in Nat \X Nat, NEW c \in Nat \X Nat,
                    Older(a, b), Older(b, c)
             PROVE  Older(a, c)
  OBVIOUS
<1>1. /\ a[1] \in Nat /\ a[2] \in Nat /\ b[1] \in Nat /\ b[2] \in Nat
      /\ c[1] \in Nat /\ c[2] \in Nat
  OBVIOUS
<1> QED BY <1>1 DEF Older

\* No row has the key that stands for "from the beginning".
LEMMA PairIsNoCursor == \A c \in Nat \X Nat : c # NoCursor
  BY DEF NoCursor

\* What a sequence followed by another holds, and where.
LEMMA Appended ==
  ASSUME NEW S, NEW a \in Seq(S), NEW b \in Seq(S)
  PROVE  /\ a \o b \in Seq(S) /\ Len(a \o b) = Len(a) + Len(b) /\ Len(a) \in Nat /\ Len(b) \in Nat
         /\ \A n \in 1 .. Len(a) : (a \o b)[n] = a[n]
         /\ \A n \in 1 .. Len(a \o b) :
              n > Len(a) => n - Len(a) \in 1 .. Len(b) /\ (a \o b)[n] = b[n - Len(a)]
         /\ \A n \in 1 .. Len(b) :
              n + Len(a) \in 1 .. Len(a \o b) /\ (a \o b)[n + Len(a)] = b[n]
<1>1. /\ a \o b \in Seq(S) /\ Len(a \o b) = Len(a) + Len(b) /\ Len(a) \in Nat /\ Len(b) \in Nat
  OBVIOUS
<1>2. \A n \in 1 .. Len(a) + Len(b) :
        (a \o b)[n] = IF n <= Len(a) THEN a[n] ELSE b[n - Len(a)]
  OBVIOUS
<1>3. \A n \in 1 .. Len(a) : n \in 1 .. Len(a) + Len(b) /\ n <= Len(a)
  BY <1>1
<1>4. \A n \in 1 .. Len(a) + Len(b) : n > Len(a) => n - Len(a) \in 1 .. Len(b) /\ ~(n <= Len(a))
  BY <1>1
<1>5. \A n \in 1 .. Len(b) : /\ n + Len(a) \in 1 .. Len(a) + Len(b) /\ ~(n + Len(a) <= Len(a))
                            /\ (n + Len(a)) - Len(a) = n
  BY <1>1
<1> DEFINE ab == a \o b
<1>6. \A n \in 1 .. Len(a) + Len(b) : ab[n] = IF n <= Len(a) THEN a[n] ELSE b[n - Len(a)]
  BY <1>2
<1>7. ab \in Seq(S) /\ Len(ab) = Len(a) + Len(b)
  BY <1>1
<1> HIDE DEF ab
<1>8. \A n \in 1 .. Len(a) : ab[n] = a[n]
  BY <1>3, <1>6
<1>9. \A n \in 1 .. Len(ab) : n > Len(a) => n - Len(a) \in 1 .. Len(b) /\ ab[n] = b[n - Len(a)]
  BY <1>4, <1>6, <1>7
<1>10. \A n \in 1 .. Len(b) : n + Len(a) \in 1 .. Len(ab) /\ ab[n + Len(a)] = b[n]
  BY <1>5, <1>6, <1>7
<1> QED BY <1>1, <1>7, <1>8, <1>9, <1>10 DEF ab

\* The next page continues where the last one ended, and nothing of what the
\* client expects is lost in between.
LEMMA TurnPage ==
  ASSUME NEW R, R \subseteq Nat \X Nat, IsFiniteSet(R), NEW c, NEW limit \in Nat \ {0},
         NEW seen \in Seq(Nat \X Nat), Falling(seen), NEW expected, expected \subseteq R,
         \/ c = NoCursor /\ seen = <<>>
         \/ /\ Len(seen) > 0 /\ c = seen[Len(seen)]
            /\ \A r \in expected : Older(r, c) \/ Shows(seen, r)
  PROVE  LET page == ListPage(R, c, limit)
             s == seen \o page.items
         IN  /\ s \in Seq(Nat \X Nat) /\ Falling(s)
             /\ page.next = NoCursor => \A r \in expected : Shows(s, r)
             /\ page.next # NoCursor =>
                  /\ Len(s) > 0 /\ page.next = s[Len(s)]
                  /\ \A r \in expected : Older(r, page.next) \/ Shows(s, r)
<1> DEFINE page == ListPage(R, c, limit)
           p == page.items
           s == seen \o p
           left == After(R, c)
           N == Cardinality(left)
           L == Listing(ByKey, left)
<1>1. /\ InLine(ByKey, left) /\ IsFiniteSet(left) /\ p \in Seq(Nat \X Nat)
      /\ Len(p) = IF N > limit THEN limit ELSE N
      /\ \A i \in 1 .. Len(p) : p[i] = L[i]
      /\ page.next = IF N > limit THEN L[limit] ELSE NoCursor
  BY PageInOrder
<1>2. N \in Nat /\ Len(p) \in Nat /\ Len(p) <= N /\ left \subseteq R /\ Len(seen) \in Nat
  BY <1>1, FS_CardinalityType DEF After
<1>3. /\ \A i \in 1 .. N : L[i] \in left
      /\ \A i, j \in 1 .. N : <<L[j], L[i]>> \in ByKey <=> j < i
      /\ \A r \in left : \E i \in 1 .. N : L[i] = r
  <2>1. InLine(ByKey, left) /\ IsFiniteSet(left)
    BY <1>1
  <2>2. /\ \A i \in 1 .. N : L[i] \in left
        /\ \A i, j \in 1 .. N : <<L[j], L[i]>> \in ByKey <=> j < i
    BY ONLY <2>1, ListingInOrder
  <2>3. \A r \in left : \E i \in 1 .. N : L[i] = r
    BY ONLY <2>1, ListingHasAll
  <2> QED BY <2>2, <2>3
<1>4. \A a, b \in Nat \X Nat : <<a, b>> \in ByKey <=> Older(b, a)
  BY DEF ByKey
<1>5. c = NoCursor \/ c \in Nat \X Nat
  BY PairIsNoCursor
<1>6. \A r \in left : c \in Nat \X Nat => Older(r, c)
  BY PairIsNoCursor DEF After
<1>7. \A r \in R : c = NoCursor \/ Older(r, c) => r \in left
  BY DEF After
<1> HIDE DEF page, p, left, N, L
<1>s. /\ s \in Seq(Nat \X Nat) /\ Len(s) = Len(seen) + Len(p) /\ Len(seen) \in Nat
      /\ \A n \in 1 .. Len(seen) : s[n] = seen[n]
      /\ \A n \in 1 .. Len(s) : n > Len(seen) => n - Len(seen) \in 1 .. Len(p) /\ s[n] = p[n - Len(seen)]
      /\ \A n \in 1 .. Len(p) : n + Len(seen) \in 1 .. Len(s) /\ s[n + Len(seen)] = p[n]
  <2> DEFINE K == Nat \X Nat
  <2>1. seen \in Seq(K) /\ p \in Seq(K)
    BY <1>1
  <2> HIDE DEF K
  <2>2. /\ s \in Seq(K) /\ Len(s) = Len(seen) + Len(p) /\ Len(seen) \in Nat
        /\ \A n \in 1 .. Len(seen) : s[n] = seen[n]
        /\ \A n \in 1 .. Len(s) : n > Len(seen) => n - Len(seen) \in 1 .. Len(p) /\ s[n] = p[n - Len(seen)]
        /\ \A n \in 1 .. Len(p) : n + Len(seen) \in 1 .. Len(s) /\ s[n + Len(seen)] = p[n]
    BY <2>1, Appended
  <2> QED BY <2>2 DEF K
<1>t. \A n \in 1 .. Len(seen) : seen[n] \in Nat \X Nat
  OBVIOUS
<1> HIDE DEF s
<1>8. /\ Len(s) = Len(seen) + Len(p) /\ Len(seen) \in Nat
      /\ \A n \in 1 .. Len(seen) : s[n] = seen[n]
      /\ \A n \in 1 .. Len(s) : n > Len(seen) => n - Len(seen) \in 1 .. Len(p) /\ s[n] = p[n - Len(seen)]
      /\ \A n \in 1 .. Len(p) : n + Len(seen) \in 1 .. Len(s) /\ s[n + Len(seen)] = p[n]
  BY <1>s
<1>9. \A n \in 1 .. Len(p) : n \in 1 .. N /\ p[n] = L[n] /\ p[n] \in left /\ p[n] \in Nat \X Nat
  <2> SUFFICES ASSUME NEW n \in 1 .. Len(p)
               PROVE  n \in 1 .. N /\ p[n] = L[n] /\ p[n] \in left /\ p[n] \in Nat \X Nat
    OBVIOUS
  <2>1. n \in 1 .. N
    BY <1>2
  <2>2. p[n] = L[n]
    BY <1>1
  <2>3. L[n] \in left /\ left \subseteq Nat \X Nat
    BY <1>2, <1>3, <2>1
  <2> QED BY <2>1, <2>2, <2>3
<1>10. Falling(s)
  <2> SUFFICES ASSUME NEW m \in 1 .. Len(s), NEW n \in 1 .. Len(s), m < n
               PROVE  Older(s[n], s[m])
    BY DEF Falling
  <2>1. CASE n <= Len(seen)
    <3>1. m \in 1 .. Len(seen) /\ n \in 1 .. Len(seen)
      BY <1>8, <2>1
    <3> QED BY <1>8, <3>1 DEF Falling
  <2>2. CASE m > Len(seen)
    <3> DEFINE x == m - Len(seen)
               y == n - Len(seen)
    <3>1. x \in 1 .. Len(p) /\ y \in 1 .. Len(p) /\ x < y /\ s[m] = p[x] /\ s[n] = p[y]
      <4>1. Len(seen) \in Nat /\ m \in Nat /\ n \in Nat /\ n > Len(seen) /\ x < y
        BY <1>2, <1>8, <2>2
      <4>2. x \in 1 .. Len(p) /\ s[m] = p[x]
        BY <1>8, <2>2
      <4>3. y \in 1 .. Len(p) /\ s[n] = p[y]
        BY <1>8, <4>1
      <4> QED BY <4>1, <4>2, <4>3
    <3> HIDE DEF x, y
    <3>2. <<L[x], L[y]>> \in ByKey
      BY <1>3, <1>9, <3>1
    <3> QED BY <1>4, <1>9, <3>1, <3>2
  <2>3. CASE m <= Len(seen) /\ n > Len(seen)
    <3>1. m \in 1 .. Len(seen) /\ Len(seen) \in 1 .. Len(seen) /\ seen # <<>>
      BY <1>8, <2>3
    <3>2. c \in Nat \X Nat /\ c = seen[Len(seen)]
      BY <3>1
    <3>3. s[n] \in left /\ s[n] \in Nat \X Nat
      BY <1>8, <1>9, <2>3
    <3>4. Older(s[n], c)
      BY <1>6, <3>2, <3>3
    <3>5. c = seen[m] \/ Older(c, seen[m])
      <4>1. m = Len(seen) \/ m < Len(seen)
        BY <1>8, <3>1
      <4> QED BY <3>1, <3>2, <4>1 DEF Falling
    <3>6. seen[m] \in Nat \X Nat /\ s[m] = seen[m]
      BY <1>8, <1>t, <3>1
    <3> QED BY <3>2, <3>3, <3>4, <3>5, <3>6, OlderIsTransitive
  <2>4. n <= Len(seen) \/ m > Len(seen) \/ (m <= Len(seen) /\ n > Len(seen))
    BY <1>8
  <2> QED BY <2>1, <2>2, <2>3, <2>4
<1>11. \A r : Shows(seen, r) => Shows(s, r)
  <2>1. \A n \in 1 .. Len(seen) : n \in 1 .. Len(s)
    BY <1>2, <1>8
  <2> QED BY <1>8, <2>1 DEF Shows
<1>12. \A n \in 1 .. Len(p) : Shows(s, L[n])
  <2> SUFFICES ASSUME NEW n \in 1 .. Len(p) PROVE Shows(s, L[n])
    OBVIOUS
  <2> DEFINE m == n + Len(seen)
  <2>1. m \in 1 .. Len(s) /\ s[m] = L[n]
    BY <1>8, <1>9
  <2> HIDE DEF m
  <2> QED BY <2>1 DEF Shows
<1>13. \A r \in expected : Shows(seen, r) \/ \E i \in 1 .. N : L[i] = r
  BY <1>3, <1>7
<1>14. CASE N > limit
  <2>1. limit \in 1 .. N /\ Len(p) = limit /\ page.next = L[limit] /\ limit \in 1 .. Len(p)
    BY <1>1, <1>2, <1>14
  <2>2. page.next = s[Len(s)] /\ Len(s) > 0
    <3>1. limit + Len(seen) = Len(s) /\ s[limit + Len(seen)] = p[limit]
      BY <1>8, <2>1
    <3> QED BY <1>8, <1>9, <2>1, <3>1
  <2>3. page.next # NoCursor
    <3>1. L[limit] \in Nat \X Nat
      BY <1>9, <2>1
    <3> QED BY <2>1, <3>1, PairIsNoCursor
  <2>4. ASSUME NEW r \in expected PROVE Older(r, page.next) \/ Shows(s, r)
    <3>1. CASE Shows(seen, r)
      BY <1>11, <3>1
    <3>2. ASSUME NEW i \in 1 .. N, L[i] = r PROVE Older(r, page.next) \/ Shows(s, r)
      <4>1. CASE i <= limit
        <5>1. i \in 1 .. Len(p)
          BY <2>1, <4>1
        <5> QED BY <1>12, <3>2, <5>1
      <4>2. CASE i > limit
        <5>1. <<L[limit], L[i]>> \in ByKey
          BY <1>3, <2>1, <4>2
        <5>2. L[limit] \in Nat \X Nat /\ L[i] \in Nat \X Nat
          BY <1>2, <1>3, <2>1
        <5> QED BY <1>4, <2>1, <3>2, <5>1, <5>2
      <4> QED BY <1>2, <4>1, <4>2
    <3> QED BY <1>13, <3>1, <3>2
  <2> QED BY <1>s, <1>10, <2>2, <2>3, <2>4 DEF page, p, s
<1>15. CASE ~(N > limit)
  <2>1. Len(p) = N /\ page.next = NoCursor
    BY <1>1, <1>15
  <2>2. \A r \in expected : Shows(s, r)
    BY <1>11, <1>12, <1>13, <2>1
  <2> QED BY <1>s, <1>10, <2>1, <2>2 DEF page, p, s
<1> QED BY <1>14, <1>15

\* Rows have keys.
LEMMA ListedRows ==
  ASSUME RowsTyped, NEW kinds
  PROVE  Listed(kinds) \subseteq Nat \X Nat /\ IsFiniteSet(Listed(kinds))
<1> DEFINE J == {j \in DOMAIN rows : rows[j].request.kind \in kinds}
           f == [i \in J |-> <<rows[i].time, i>>]
<1>1. IsFiniteSet(J)
  BY FS_Subset DEF RowsTyped
<1>2. f \in Surjection(J, Listed(kinds))
  BY DEF Surjection, Listed
<1>3. IsFiniteSet(Listed(kinds))
  <2> HIDE DEF f, J
  <2> QED BY <1>1, <1>2, FS_Surjection
<1>4. Listed(kinds) \subseteq Nat \X Nat
  BY RequestsAssumption DEF Listed, RowsTyped
<1> QED BY <1>3, <1>4

\* The walk after one more page.
LEMMA WalkOn ==
  ASSUME RowsTyped, NEW kinds, NEW limit \in Nat \ {0}, NEW c,
         NEW seen \in Seq(Nat \X Nat), Falling(seen), NEW expected, expected \subseteq Listed(kinds),
         \/ c = NoCursor /\ seen = <<>>
         \/ /\ Len(seen) > 0 /\ c = seen[Len(seen)]
            /\ \A r \in expected : Older(r, c) \/ Shows(seen, r),
         UNCHANGED rows, walk' = NextPage(kinds, seen, c, limit, expected)
  PROVE  Walking'
<1> DEFINE page == ListPage(Listed(kinds), c, limit)
           s == seen \o page.items
<1>1. Listed(kinds) \subseteq Nat \X Nat /\ IsFiniteSet(Listed(kinds))
  BY ListedRows
<1>2. /\ s \in Seq(Nat \X Nat) /\ Falling(s)
      /\ page.next = NoCursor => \A r \in expected : Shows(s, r)
      /\ page.next # NoCursor =>
           /\ Len(s) > 0 /\ page.next = s[Len(s)]
           /\ \A r \in expected : Older(r, page.next) \/ Shows(s, r)
  BY <1>1, TurnPage
<1>3. walk' = [at |-> IF page.next = NoCursor THEN "done" ELSE "more", kinds |-> kinds,
               limit |-> limit, after |-> page.next, seen |-> s, expected |-> expected]
  BY DEF NextPage
<1>4. Listed(kinds)' = Listed(kinds)
  BY DEF Listed
<1> HIDE DEF s, page
<1>5. /\ walk'.at = IF page.next = NoCursor THEN "done" ELSE "more"
      /\ walk'.kinds = kinds /\ walk'.limit = limit /\ walk'.after = page.next
      /\ walk'.seen = s /\ walk'.expected = expected
  BY <1>3
<1>6. walk'.at \in {"more", "done"} /\ walk'.seen \in Seq(Nat \X Nat)
  BY <1>2, <1>5
<1>7. walk'.expected \subseteq Listed(walk.kinds)'
  <2>1. Listed(walk.kinds)' = Listed(kinds)
    BY <1>5 DEF Listed
  <2> QED BY <1>5, <2>1
<1>8. \A m, n \in 1 .. Len(walk'.seen) : m < n => Older(walk'.seen[n], walk'.seen[m])
  BY <1>2, <1>5 DEF Falling
<1>9. walk'.at = "done" =>
        \A r \in walk'.expected : \E n \in 1 .. Len(walk'.seen) : walk'.seen[n] = r
  BY <1>2, <1>5 DEF Shows
<1>10. walk'.at = "more" =>
         /\ Len(walk'.seen) > 0 /\ walk'.after = walk'.seen[Len(walk'.seen)]
         /\ \A r \in walk'.expected :
              Older(r, walk'.after) \/ \E n \in 1 .. Len(walk'.seen) : walk'.seen[n] = r
  BY <1>2, <1>5 DEF Shows
<1> QED BY <1>5, <1>6, <1>7, <1>8, <1>9, <1>10 DEF Walking

\* Pages and new rows keep what a walk knows.
LEMMA NextWalking ==
  ASSUME RowsTyped, KeysNameRows, Walking, [RequestsNext]_requestsVars
  PROVE  Walking'
<1>1. ASSUME walk' = walk PROVE Walking'
  <2>1. CASE walk = NoWalk
    BY <1>1, <2>1 DEF Walking
  <2>2. CASE walk # NoWalk
    <3>1. Listed(walk.kinds) \subseteq Listed(walk.kinds)'
      BY <1>1, NextRows DEF Kept, Listed
    <3>2. walk.expected \subseteq Listed(walk.kinds)'
      BY <2>2, <3>1 DEF Walking
    <3> QED BY <1>1, <2>2, <3>2 DEF Walking
  <2> QED BY <2>1, <2>2
<1>2. ASSUME NEW n \in Limits, NEW kinds, ListFirst(kinds, n) PROVE Walking'
  <2>1. UNCHANGED rows /\ walk' = NextPage(kinds, <<>>, NoCursor, n, Listed(kinds)) /\ n \in Nat \ {0}
    BY <1>2, RequestsAssumption DEF ListFirst
  <2>2. <<>> \in Seq(Nat \X Nat) /\ Falling(<<>>)
    BY DEF Falling
  <2> QED BY <2>1, <2>2, WalkOn
<1>3. ASSUME ListNext PROVE Walking'
  <2>1. /\ UNCHANGED rows /\ walk.at = "more"
        /\ walk' = NextPage(walk.kinds, walk.seen, walk.after, walk.limit, walk.expected)
    BY <1>3 DEF ListNext
  <2>2. walk # NoWalk
    BY <2>1 DEF NoWalk
  <2>3. /\ walk.limit \in Nat \ {0} /\ walk.seen \in Seq(Nat \X Nat) /\ Falling(walk.seen)
        /\ walk.expected \subseteq Listed(walk.kinds)
        /\ Len(walk.seen) > 0 /\ walk.after = walk.seen[Len(walk.seen)]
        /\ \A r \in walk.expected : Older(r, walk.after) \/ Shows(walk.seen, r)
    BY <2>1, <2>2 DEF Walking, Falling, Shows
  <2> QED BY <2>1, <2>3, WalkOn
<1>4. ASSUME NEW w \in Workers, NEW q \in Sent, NEW t \in Times,
             CreateOrder(w, q, t) \/ CreateDeposit(w, q, t) \/ CreateWithdrawal(w, q, t)
      PROVE  walk' = walk
  BY <1>4 DEF CreateOrder, CreateDeposit, CreateWithdrawal, Execute, reqVars
<1>5. ASSUME NEW w \in Workers, Commit(w) \/ Refuse(w) PROVE walk' = walk
  BY <1>5 DEF Commit, Refuse, reqVars
<1>6. ASSUME NEW q \in Sent, Replay(q) PROVE walk' = walk
  BY <1>6 DEF Replay
<1>7. ASSUME UNCHANGED requestsVars \/ (LinksNext /\ UNCHANGED reqVars) PROVE walk' = walk
  BY <1>7 DEF requestsVars, reqVars
<1>8. ASSUME RequestsNext PROVE Walking'
  <2>1. ASSUME NEW w \in Workers,
               \/ \E q \in Sent, t \in Times :
                    CreateOrder(w, q, t) \/ CreateDeposit(w, q, t) \/ CreateWithdrawal(w, q, t)
               \/ Commit(w) \/ Refuse(w)
        PROVE  walk' = walk
    BY <1>4, <1>5, <2>1
  <2>2. ASSUME NEW n \in Limits, ListOrders(n) \/ GetFundingHistory(n) PROVE Walking'
    BY <1>2, <2>2 DEF ListOrders, GetFundingHistory
  <2> QED BY <1>1, <1>3, <1>6, <1>7, <1>8, <2>1, <2>2 DEF RequestsNext
<1> QED BY <1>1, <1>7, <1>8

\* A client that pages to the end has seen every row of the beginning once, in
\* order, whatever was committed meanwhile.
THEOREM HistoryIsComplete == RequestsSpec => []HistoryComplete
<1>1. RequestsInit => Walking
  BY DEF RequestsInit, Walking
<1>2. Walking => HistoryComplete
  BY DEF Walking, HistoryComplete, NoWalk
<1>3. RowsTyped /\ KeysNameRows /\ Walking /\ [RequestsNext]_requestsVars => RowsTyped' /\ KeysNameRows' /\ Walking'
  BY NextRows, NextWalking
<1> QED BY <1>1, <1>2, <1>3, InitRows, PTL DEF RequestsSpec

\* Whatever is repeated, whenever: one row per key, and every answer is that row.
THEOREM EveryAnswerIsTheRow == RequestsSpec => []AnsweredOnce
<1>1. RowsTyped /\ KeysNameRows => AnsweredOnce
  BY DEF KeysNameRows, AnsweredOnce
<1>2. RowsTyped /\ KeysNameRows /\ [RequestsNext]_requestsVars => RowsTyped' /\ KeysNameRows'
  BY NextRows
<1> QED BY <1>1, <1>2, InitRows, PTL DEF RequestsSpec
=============================================================================
