---------------------------- MODULE StaffReview ----------------------------
(* The human approval queue for what agents propose: the sessions of
   api/auth.py with their second factor, the staff API tokens and the MCP tools
   that use them, the agent_action_request table, and admin/agent_requests.py,
   where a review runs the proposed action inside a savepoint.

   Rows read FOR UPDATE stay locked until the review commits or rolls back;
   the break a proposal names is read without a lock.                        *)
EXTENDS Integers, FiniteSets

CONSTANTS
  Staff, Customers, Browsers, Agents,
  EmailOf,         \* principal -> the email it registers with
  Breaks,          \* reconciliation breaks a proposal may name
  Requests,        \* ids of agent_action_request rows
  MaxOrders,       \* bound: orders one rebalance places
  MaxTokens,       \* bound: API tokens
  MaxSecrets,      \* bound: TOTP secrets generated
  None

ASSUME StaffReviewAssumption ==
  /\ IsFiniteSet(Requests) /\ Staff \cap Customers = {}
  /\ DOMAIN EmailOf = Staff \cup Customers
  /\ None \notin Staff \cup Customers \cup Breaks
  /\ {MaxOrders, MaxTokens, MaxSecrets} \subseteq Nat /\ MaxOrders # 0

VARIABLES
  registered, \* the customer and staff rows
  session,    \* browser -> flask session: _user_id, pending_mfa_user_id
  secret,     \* staff -> the TOTP secret stored, 0 for none
  secrets,    \* how many were generated
  token,      \* staff_api_token rows: staff and whether revoked
  agent,      \* MCP call in progress: the staff member its token stands for
  breaks,     \* reconciliation_break: open or resolved
  request,    \* agent_action_request rows
  effect,     \* request -> the writes of its action that are in the database
  audit,      \* request -> its admin_audit_log rows
  review,     \* browser -> the review whose transaction is open
  proved      \* history: <<browser, staff>> that gave password and code

vars == <<registered, session, secret, secrets, token, agent, breaks, request, effect, audit,
          review, proved>>

Principals == Staff \cup Customers
Actions == {"resolve_break", "kyc_override", "rebalance"}
Statuses == {"pending", "approved", "rejected", "executed", "execution_failed"}
NoSession == [user |-> None, pending |-> None]
NoReview == [of |-> None]

\* INSERT: a table with one more row.
WithRow(table, id, row) ==
  [i \in DOMAIN table \cup {id} |-> IF i = id THEN row ELSE table[i]]

TypeOK ==
  /\ registered \subseteq Principals
  /\ session \in [Browsers -> [user : Principals \cup {None}, pending : Staff \cup {None}]]
  /\ secret \in [Staff -> 0 .. MaxSecrets] /\ secrets \in 0 .. MaxSecrets
  /\ DOMAIN token \subseteq 1 .. MaxTokens
  /\ \A t \in DOMAIN token : token[t] \in [staff : Staff, revoked : BOOLEAN]
  /\ agent \in [Agents -> Staff \cup {None}]
  /\ breaks \in [Breaks -> {"open", "resolved"}]
  /\ DOMAIN request \subseteq Requests
  /\ \A r \in DOMAIN request :
       request[r] \in [action : Actions, break : Breaks \cup {None}, agent : Staff,
                       status : Statuses, reviewer : Staff \cup {None}]
  /\ effect \in [Requests -> 0 .. MaxOrders] /\ audit \in [Requests -> 0 .. 1]
  /\ \A b \in Browsers : review[b] = NoReview \/
       review[b] \in [of : Requests, found : {"open", "resolved"}]
  /\ proved \subseteq Browsers \X Staff

Init ==
  /\ registered = {}
  /\ session = [b \in Browsers |-> NoSession]
  /\ secret = [s \in Staff |-> 0] /\ secrets = 0
  /\ token = <<>> /\ agent = [a \in Agents |-> None]
  /\ breaks = [k \in Breaks |-> "open"]
  /\ request = <<>>
  /\ effect = [r \in Requests |-> 0] /\ audit = [r \in Requests |-> 0]
  /\ review = [b \in Browsers |-> NoReview]
  /\ proved = {}

authVars == <<registered, session, secret, secrets, proved>>
queueVars == <<breaks, request, effect, audit, review>>

-----------------------------------------------------------------------------
(* Accounts. *)

\* find_principal_by_email: customers are looked up first.
FindPrincipal(email) ==
  LET rows == {p \in registered : EmailOf[p] = email}
  IN IF rows \cap Customers # {} THEN rows \cap Customers ELSE rows

\* POST /auth/register looks for a customer with the email.
Register(c) ==
  /\ \A p \in registered \cap Customers : EmailOf[p] # EmailOf[c]
  /\ registered' = registered \cup {c}
  /\ UNCHANGED <<session, secret, secrets, proved, token, agent, queueVars>>

\* flask jobs create-staff looks for either.  The row has no TOTP secret.
CreateStaff(s) ==
  /\ \A p \in registered : EmailOf[p] # EmailOf[s]
  /\ registered' = registered \cup {s}
  /\ UNCHANGED <<session, secret, secrets, proved, token, agent, queueVars>>

-----------------------------------------------------------------------------
(* Sessions: POST /auth/login, /mfa/enroll, /mfa/verify, /logout. *)

\* authenticate() accepted the password.  Staff are only half in: the session
\* remembers whose code is due.  A customer is logged in at once.
Login(b, p) ==
  /\ p \in FindPrincipal(EmailOf[p])
  /\ review[b] = NoReview
  /\ session' = [session EXCEPT ![b] = IF p \in Staff THEN [@ EXCEPT !.pending = p]
                                                      ELSE [@ EXCEPT !.user = p]]
  /\ proved' = IF p \in Staff THEN proved ELSE proved \ ({b} \X Staff)
  /\ UNCHANGED <<registered, secret, secrets, token, agent, queueVars>>

\* First enrolment while the code is due; a secret that is there is kept.
MfaEnroll(b) ==
  /\ secrets < MaxSecrets
  /\ session[b].pending # None /\ secret[session[b].pending] = 0
  /\ secrets' = secrets + 1
  /\ secret' = [secret EXCEPT ![session[b].pending] = secrets + 1]
  /\ UNCHANGED <<registered, session, proved, token, agent, queueVars>>

\* Reset from a logged-in session, with the password again.
MfaReset(b) ==
  /\ secrets < MaxSecrets
  /\ session[b].pending = None /\ session[b].user \in Staff
  /\ secrets' = secrets + 1
  /\ secret' = [secret EXCEPT ![session[b].user] = secrets + 1]
  /\ UNCHANGED <<registered, session, proved, token, agent, queueVars>>

MfaVerify(b) ==
  LET s == session[b].pending IN
  /\ review[b] = NoReview
  /\ s # None /\ secret[s] # 0
  /\ session' = [session EXCEPT ![b] = [user |-> s, pending |-> None]]
  /\ proved' = (proved \ ({b} \X Staff)) \cup {<<b, s>>}
  /\ UNCHANGED <<registered, secret, secrets, token, agent, queueVars>>

Logout(b) ==
  /\ review[b] = NoReview
  /\ session[b] # NoSession
  /\ session' = [session EXCEPT ![b] = NoSession]
  /\ proved' = proved \ ({b} \X Staff)
  /\ UNCHANGED <<registered, secret, secrets, token, agent, queueVars>>

\* @requires_role("adviser", "admin") looks at the logged-in user, never at
\* one whose code is still due.
RequiresPassword(b) == session[b].user \in Staff \/ session[b].pending \in Staff
RequiresRole(b) == session[b].user \in Staff

-----------------------------------------------------------------------------
(* Staff API tokens and the MCP write tools. *)

\* staff_api_token: found by its hash, and live until it is revoked.
LiveToken(t) == ~token[t].revoked

IssueToken(b) ==
  /\ RequiresRole(b) /\ session[b].user \in Staff
  /\ Cardinality(DOMAIN token) < MaxTokens
  /\ token' = WithRow(token, Cardinality(DOMAIN token) + 1,
                      [staff |-> session[b].user, revoked |-> FALSE])
  /\ UNCHANGED <<authVars, agent, queueVars>>

RevokeToken(b, t) ==
  /\ RequiresRole(b) /\ token[t].staff = session[b].user /\ LiveToken(t)
  /\ token' = [token EXCEPT ![t].revoked = TRUE]
  /\ UNCHANGED <<authVars, agent, queueVars>>

\* resolve_staff, in a transaction of its own.
ResolveStaff(a, t) ==
  /\ agent[a] = None
  /\ LiveToken(t)
  /\ agent' = [agent EXCEPT ![a] = token[t].staff]
  /\ UNCHANGED <<authVars, token, queueVars>>

\* get_portfolio_summary, get_transaction_history and
\* list_open_reconciliation_breaks: the call ends with what it read.
ReadTool(a) ==
  /\ agent[a] # None
  /\ agent' = [agent EXCEPT ![a] = None]
  /\ UNCHANGED <<authVars, token, queueVars>>

\* propose_*: a row is recorded, nothing else.
Propose(a, r) ==
  /\ agent[a] # None
  /\ r \notin DOMAIN request
  /\ \E action \in Actions, k \in Breaks \cup {None} :
       /\ (action = "resolve_break") = (k # None)
       /\ request' = WithRow(request, r, [action |-> action, break |-> k, agent |-> agent[a],
                                          status |-> "pending", reviewer |-> None])
  /\ agent' = [agent EXCEPT ![a] = None]
  /\ UNCHANGED <<authVars, token, breaks, effect, audit, review>>

-----------------------------------------------------------------------------
(* Reviews. *)

Locked(r) == \E b \in Browsers : review[b].of = r

\* get_for_update: the row is locked, and must still be pending.
BeginReview(b, r) ==
  /\ review[b] = NoReview
  /\ RequiresRole(b)
  /\ ~Locked(r) /\ request[r].status = "pending"
  /\ review' = [review EXCEPT ![b] =
                  [of |-> r, found |-> IF request[r].break = None THEN "open"
                                       ELSE breaks[request[r].break]]]
  /\ UNCHANGED <<authVars, token, agent, breaks, request, effect, audit>>

Reviewer(b) == IF session[b].user # None THEN session[b].user ELSE session[b].pending

\* @audited stages its row in the unit of work of the action.
Audited(r) == audit' = [audit EXCEPT ![r] = 1]

Reviewed(b, status) ==
  LET r == review[b].of IN
  /\ request' = [request EXCEPT ![r] = [@ EXCEPT !.status = status, !.reviewer = Reviewer(b)]]
  /\ Audited(r)
  /\ review' = [review EXCEPT ![b] = NoReview]
  /\ UNCHANGED <<authVars, token, agent>>

Reject(b) ==
  /\ review[b] # NoReview
  /\ Reviewed(b, "rejected")
  /\ UNCHANGED <<breaks, effect>>

\* The action itself, and how many writes it came to.
WritesOf(r) ==
  IF request[r].action = "rebalance" THEN 0 .. MaxOrders ELSE {1}

\* The trigger on reconciliation_break lets only an open break be resolved.
BreakResolvable(r) ==
  request[r].break # None => breaks[request[r].break] = "open"

\* Approve and execute; approved is passed through inside the transaction.
ApproveExecuted(b) ==
  LET r == review[b].of IN
  /\ review[b] # NoReview
  /\ review[b].found = "open" /\ BreakResolvable(r)
  /\ breaks' = [k \in Breaks |-> IF k = request[r].break THEN "resolved" ELSE breaks[k]]
  /\ \E n \in WritesOf(r) : effect' = [effect EXCEPT ![r] = n]
  /\ Reviewed(b, "executed")

\* What a failed action leaves behind, n writes into it.
KeepsWrites(r, n) == n
Savepoint(r, n) == effect[r]

\* An expected failure: the break was resolved already, there is no model, the
\* customer is not eligible any more, no calendar for today.  The savepoint
\* takes the writes back, the review stands.
ApproveFailed(b) ==
  LET r == review[b].of IN
  /\ review[b] # NoReview
  /\ request[r].action = "resolve_break" => review[b].found = "resolved"
  /\ request[r].action # "kyc_override"
  /\ \E n \in 0 .. MaxOrders :
       /\ request[r].action = "resolve_break" => n = 0
       /\ effect' = [effect EXCEPT ![r] = Savepoint(r, n)]
  /\ Reviewed(b, "execution_failed")
  /\ UNCHANGED breaks

\* Anything unexpected, the break's trigger among it: all is rolled back and
\* the proposal is pending as before.
ReviewRollsBack(b) ==
  /\ review[b] # NoReview
  /\ review' = [review EXCEPT ![b] = NoReview]
  /\ UNCHANGED <<authVars, token, agent, breaks, request, effect, audit>>

\* POST /admin/breaks/<id>/resolve, by hand.
ResolveBreak(k) ==
  /\ breaks[k] = "open"
  /\ breaks' = [breaks EXCEPT ![k] = "resolved"]
  /\ UNCHANGED <<authVars, token, agent, request, effect, audit, review>>

Next ==
  \/ \E c \in Customers \ registered : Register(c)
  \/ \E s \in Staff \ registered : CreateStaff(s)
  \/ \E b \in Browsers :
       \/ \E p \in Principals : Login(b, p)
       \/ MfaEnroll(b) \/ MfaReset(b) \/ MfaVerify(b) \/ Logout(b)
       \/ IssueToken(b) \/ \E t \in DOMAIN token : RevokeToken(b, t)
       \/ \E r \in DOMAIN request : BeginReview(b, r)
       \/ Reject(b) \/ ApproveExecuted(b) \/ ApproveFailed(b) \/ ReviewRollsBack(b)
  \/ \E a \in Agents :
       \/ \E t \in DOMAIN token : ResolveStaff(a, t)
       \/ ReadTool(a)
       \/ \E r \in Requests : Propose(a, r)
  \/ \E k \in Breaks : ResolveBreak(k)

Spec == Init /\ [][Next]_vars

-----------------------------------------------------------------------------
(* Properties. *)

\* A review is one piece: the action's writes are there exactly when the
\* request says executed, none survive a failure in the middle of it or a
\* rolled-back review, and every decided request has its one audit row, an
\* undecided one has none.
ReviewIsAtomic ==
  \A r \in Requests :
    LET status == IF r \in DOMAIN request THEN request[r].status ELSE "pending" IN
    /\ effect[r] # 0 => status = "executed"
    /\ status = "executed" => effect[r] \in WritesOf(r)
    /\ audit[r] = IF status = "pending" THEN 0 ELSE 1

\* Nothing an agent proposes takes effect without a person: whoever decides has
\* given password and code in the browser that decides, after whatever logins,
\* half logins and logouts happened there.
DecidedByVerifiedStaff ==
  [][\A r \in DOMAIN request :
       request'[r].status # request[r].status =>
         /\ request'[r].reviewer \in Staff
         /\ \E b \in Browsers : /\ review[b].of = r
                                /\ <<b, request'[r].reviewer>> \in proved]_vars

\* "a staff row sharing a customer's email would be permanently shadowed at
\* login ... Refuse instead of creating one" (jobs/create_staff.py).  Refuted:
\* register creates the other half of the pair.
NoStaffShadowed == \A s \in Staff \cap registered : s \in FindPrincipal(EmailOf[s])
=============================================================================
