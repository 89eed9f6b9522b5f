-------------------------- MODULE AssistantProofs ---------------------------
(* Machine-checked proofs about the two places where an agent acts: what it
   proposes to the staff (StaffReview), for any number of people, browsers,
   agents and proposals, and what it is told in the chat of a customer (Chat),
   for any number of sessions, tabs, turns and faults, any cap and window.  The
   two share no state.                                                       *)
EXTENDS StaffReview, Chat, FiniteSetTheorems, TLAPS

-----------------------------------------------------------------------------
(* StaffReview.
   Whatever an agent proposes takes effect as a whole or not at all, and only
   somebody who gave password and code decides it. *)

-----------------------------------------------------------------------------
\* The inductive invariant

SessionRows == [user : Principals \cup {None}, pending : Staff \cup {None}]
Tokens == [staff : Staff, revoked : BOOLEAN]
Proposals == [action : Actions, break : Breaks \cup {None}, agent : Staff,
              status : Statuses, reviewer : Staff \cup {None}]
Reviews == {NoReview} \cup [of : Requests, found : {"open", "resolved"}]

\* The accounts, sessions and tokens have the columns of their tables.
AuthTypes ==
  /\ registered \subseteq Principals
  /\ session \in [Browsers -> SessionRows]
  /\ secret \in [Staff -> 0 .. MaxSecrets] /\ secrets \in 0 .. MaxSecrets
  /\ proved \subseteq Browsers \X Staff

TokenTypes ==
  /\ token \in [DOMAIN token -> Tokens] /\ DOMAIN token \subseteq 1 .. MaxTokens
  /\ agent \in [Agents -> Staff \cup {None}]

\* So have the proposals and what reviewing them writes.
QueueTypes ==
  /\ breaks \in [Breaks -> {"open", "resolved"}]
  /\ request \in [DOMAIN request -> Proposals] /\ DOMAIN request \subseteq Requests
  /\ effect \in [Requests -> 0 .. MaxOrders] /\ audit \in [Requests -> 0 .. 1]
  /\ review \in [Browsers -> Reviews]

\* A browser in which somebody of the staff is logged in is one where that
\* person gave password and code.
LoggedInWasProved ==
  \A b \in Browsers : session[b].user \in Staff => <<b, session[b].user>> \in proved

\* An open review belongs to a logged-in member of the staff, and holds the row
\* of a proposal that is still pending.
ReviewOpen(b) ==
  /\ session[b].user \in Staff
  /\ review[b].of \in DOMAIN request
  /\ request[review[b].of].status = "pending"

ReviewsOpen == \A b \in Browsers : review[b] # NoReview => ReviewOpen(b)

\* The row is held by one review at a time.
OneReview ==
  \A b, c \in Browsers :
    review[b] # NoReview /\ review[c] # NoReview /\ review[b].of = review[c].of => b = c

IInv ==
  /\ AuthTypes /\ TokenTypes /\ QueueTypes
  /\ LoggedInWasProved /\ ReviewsOpen /\ OneReview /\ ReviewIsAtomic

\* ReviewIsAtomic for one proposal.
AtomicFor(r) ==
  LET verdict == IF r \in DOMAIN request THEN request[r].status ELSE "pending" IN
  /\ effect[r] # 0 => verdict = "executed"
  /\ verdict = "executed" => effect[r] \in WritesOf(r)
  /\ audit[r] = IF verdict = "pending" THEN 0 ELSE 1

\* The property, request by request.
LEMMA AtomicForAll == ReviewIsAtomic <=> \A r \in Requests : AtomicFor(r)
BY DEF ReviewIsAtomic, AtomicFor

-----------------------------------------------------------------------------
\* Types

\* The auth endpoints keep the types of accounts and sessions.
LEMMA AuthTypesKept ==
  ASSUME IInv, Next
  PROVE  AuthTypes'
<1> USE DEF AuthTypes
<1>0. AuthTypes /\ None \notin Staff \cup Customers /\ MaxSecrets \in Nat /\ Staff \cap Customers = {}
  BY StaffReviewAssumption DEF IInv
<1>1. ASSUME NEW c \in Customers, Register(c) PROVE AuthTypes'
  BY <1>0, <1>1 DEF Register, Principals
<1>2. ASSUME NEW s \in Staff, CreateStaff(s) PROVE AuthTypes'
  BY <1>0, <1>2 DEF CreateStaff, Principals
<1>3. ASSUME NEW b \in Browsers, NEW p \in Principals, Login(b, p) PROVE AuthTypes'
  BY <1>0, <1>3 DEF Login, Principals, SessionRows
<1>4. ASSUME NEW b \in Browsers, MfaEnroll(b) \/ MfaReset(b) PROVE AuthTypes'
  <2>1. secrets' \in 0 .. MaxSecrets /\ secrets' = secrets + 1
    BY <1>0, <1>4 DEF MfaEnroll, MfaReset
  <2> QED BY <1>0, <1>4, <2>1 DEF MfaEnroll, MfaReset
<1>5. ASSUME NEW b \in Browsers, MfaVerify(b) PROVE AuthTypes'
  <2>1. session[b].pending \in Staff
    BY <1>0, <1>5 DEF MfaVerify, SessionRows
  <2> QED BY <1>0, <1>5, <2>1 DEF MfaVerify, SessionRows, Principals
<1>6. ASSUME NEW b \in Browsers, Logout(b) PROVE AuthTypes'
  BY <1>0, <1>6 DEF Logout, SessionRows, NoSession
<1>7. ASSUME UNCHANGED authVars PROVE AuthTypes'
  BY <1>0, <1>7 DEF authVars
<1>8. ASSUME NEW b \in Browsers,
             \/ IssueToken(b) \/ \E t \in DOMAIN token : RevokeToken(b, t)
             \/ \E r \in DOMAIN request : BeginReview(b, r)
             \/ Reject(b) \/ ApproveExecuted(b) \/ ApproveFailed(b) \/ ReviewRollsBack(b)
      PROVE  AuthTypes'
  BY <1>7, <1>8 DEF IssueToken, RevokeToken, BeginReview, Reject, ApproveExecuted, ApproveFailed,
                    ReviewRollsBack, Reviewed
<1>9. ASSUME NEW a \in Agents,
             \/ \E t \in DOMAIN token : ResolveStaff(a, t)
             \/ ReadTool(a)
             \/ \E r \in Requests : Propose(a, r)
      PROVE  AuthTypes'
  BY <1>7, <1>9 DEF ResolveStaff, ReadTool, Propose
<1>10. ASSUME NEW k \in Breaks, ResolveBreak(k) PROVE AuthTypes'
  BY <1>7, <1>10 DEF ResolveBreak
<1> QED BY <1>1, <1>2, <1>3, <1>4, <1>5, <1>6, <1>8, <1>9, <1>10 DEF Next

\* The token endpoints and the MCP tools keep the types of tokens and calls.
LEMMA TokenTypesKept ==
  ASSUME IInv, Next
  PROVE  TokenTypes'
<1> USE DEF TokenTypes
<1>0. TokenTypes /\ None \notin Staff \cup Customers /\ MaxTokens \in Nat
  BY StaffReviewAssumption DEF IInv
<1>1. ASSUME NEW b \in Browsers, IssueToken(b) PROVE TokenTypes'
  <2> DEFINE n == Cardinality(DOMAIN token) + 1
             row == [staff |-> session[b].user, revoked |-> FALSE]
  <2>1. Cardinality(DOMAIN token) \in Nat /\ n \in 1 .. MaxTokens
    <3>1. IsFiniteSet(1 .. MaxTokens) /\ DOMAIN token \in SUBSET (1 .. MaxTokens)
      <4>1. IsFiniteSet(1 .. MaxTokens)
        BY <1>0, FS_Interval
      <4> QED BY <1>0, <4>1
    <3>2. Cardinality(DOMAIN token) \in Nat
      BY <3>1, FS_Subset, FS_CardinalityType
    <3> QED BY <1>0, <1>1, <3>2 DEF IssueToken
  <2>2. row \in Tokens
    BY <1>1 DEF IssueToken, Tokens
  <2>3. token' = [t \in DOMAIN token \cup {n} |-> IF t = n THEN row ELSE token[t]]
    BY <1>1 DEF IssueToken, WithRow
  <2> HIDE DEF n, row
  <2> QED BY <1>0, <1>1, <2>1, <2>2, <2>3 DEF IssueToken
<1>2. ASSUME NEW b \in Browsers, NEW t \in DOMAIN token, RevokeToken(b, t) PROVE TokenTypes'
  BY <1>0, <1>2 DEF RevokeToken, Tokens
<1>3. ASSUME NEW a \in Agents, NEW t \in DOMAIN token, ResolveStaff(a, t) PROVE TokenTypes'
  BY <1>0, <1>3 DEF ResolveStaff, Tokens
<1>4. ASSUME NEW a \in Agents, ReadTool(a) \/ \E r \in Requests : Propose(a, r) PROVE TokenTypes'
  BY <1>0, <1>4 DEF ReadTool, Propose
<1>5. ASSUME UNCHANGED <<token, agent>> PROVE TokenTypes'
  BY <1>0, <1>5
<1>6. ASSUME NEW c \in Principals, Register(c) \/ CreateStaff(c) PROVE TokenTypes'
  BY <1>5, <1>6 DEF Register, CreateStaff
<1>7. ASSUME NEW b \in Browsers,
             \/ \E p \in Principals : Login(b, p)
             \/ MfaEnroll(b) \/ MfaReset(b) \/ MfaVerify(b) \/ Logout(b)
             \/ \E r \in DOMAIN request : BeginReview(b, r)
             \/ Reject(b) \/ ApproveExecuted(b) \/ ApproveFailed(b) \/ ReviewRollsBack(b)
      PROVE  TokenTypes'
  BY <1>5, <1>7 DEF Login, MfaEnroll, MfaReset, MfaVerify, Logout, BeginReview, Reject,
                    ApproveExecuted, ApproveFailed, ReviewRollsBack, Reviewed
<1>8. ASSUME NEW k \in Breaks, ResolveBreak(k) PROVE TokenTypes'
  BY <1>5, <1>8 DEF ResolveBreak
<1> QED BY <1>1, <1>2, <1>3, <1>4, <1>6, <1>7, <1>8 DEF Next, Principals

\* What a decided review writes: the proposal's status and reviewer, its audit
\* row, and the lock it gives back.
LEMMA DecisionWrites ==
  ASSUME IInv, NEW b \in Browsers, review[b] # NoReview,
         NEW verdict \in Statuses, Reviewed(b, verdict)
  PROVE  LET r == review[b].of IN
         /\ r \in DOMAIN request /\ r \in Requests /\ request[r].status = "pending"
         /\ session[b].user \in Staff
         /\ request' \in [DOMAIN request -> Proposals]
         /\ \A q \in DOMAIN request : q # r => request'[q] = request[q]
         /\ request'[r].status = verdict /\ request'[r].action = request[r].action
         /\ request'[r].reviewer = session[b].user
         /\ audit' = [audit EXCEPT ![r] = 1]
         /\ review' = [review EXCEPT ![b] = NoReview]
<1> DEFINE r == review[b].of
<1>1. r \in DOMAIN request /\ request[r].status = "pending" /\ session[b].user \in Staff
  BY DEF IInv, ReviewsOpen, ReviewOpen
<1>2. Reviewer(b) = session[b].user
  BY <1>1, StaffReviewAssumption DEF Reviewer
<1>3. request[r] \in Proposals /\ r \in Requests
  BY <1>1 DEF IInv, QueueTypes
<1>4. /\ request' = [request EXCEPT ![r] = [@ EXCEPT !.status = verdict, !.reviewer = Reviewer(b)]]
      /\ audit' = [audit EXCEPT ![r] = 1]
      /\ review' = [review EXCEPT ![b] = NoReview]
  BY DEF Reviewed, Audited
<1> DEFINE row == [request[r] EXCEPT !.status = verdict, !.reviewer = Reviewer(b)]
<1>5. /\ row \in Proposals /\ row.status = verdict /\ row.action = request[r].action
      /\ row.reviewer = session[b].user
  BY <1>1, <1>2, <1>3 DEF Proposals
<1>6. request' = [request EXCEPT ![r] = row]
  BY <1>4
<1> HIDE DEF row, r
<1>7. /\ request' \in [DOMAIN request -> Proposals]
      /\ \A q \in DOMAIN request : q # r => request'[q] = request[q]
      /\ request'[r] = row
  BY <1>1, <1>5, <1>6 DEF IInv, QueueTypes
<1> QED BY <1>1, <1>3, <1>4, <1>5, <1>7 DEF r

\* A proposal adds a pending row and changes no other.
LEMMA ProposalWrites ==
  ASSUME IInv, NEW a \in Agents, NEW r \in Requests, Propose(a, r)
  PROVE  /\ r \notin DOMAIN request /\ DOMAIN request' = DOMAIN request \cup {r}
         /\ request' \in [DOMAIN request \cup {r} -> Proposals]
         /\ \A q \in DOMAIN request : request'[q] = request[q]
         /\ request'[r].status = "pending"
<1>1. PICK action \in Actions, k \in Breaks \cup {None} :
        request' = WithRow(request, r, [action |-> action, break |-> k, agent |-> agent[a],
                                        status |-> "pending", reviewer |-> None])
  BY DEF Propose
<1>2. agent[a] \in Staff /\ r \notin DOMAIN request
  BY DEF Propose, IInv, TokenTypes
<1> DEFINE row == [action |-> action, break |-> k, agent |-> agent[a],
                   status |-> "pending", reviewer |-> None]
<1>3. row \in Proposals /\ row.status = "pending"
  BY <1>2 DEF Proposals, Statuses
<1>4. request' = [i \in DOMAIN request \cup {r} |-> IF i = r THEN row ELSE request[i]]
  BY <1>1 DEF WithRow
<1>5. request \in [DOMAIN request -> Proposals]
  BY DEF IInv, QueueTypes
<1> HIDE DEF row
<1> QED BY <1>2, <1>3, <1>4, <1>5

\* The review of a proposal and the breaks keep the types of the queue.
LEMMA QueueTypesKept ==
  ASSUME IInv, Next
  PROVE  QueueTypes'
<1>0. QueueTypes /\ MaxOrders \in Nat
  BY StaffReviewAssumption DEF IInv
<1>1. ASSUME NEW b \in Browsers, NEW r \in DOMAIN request, BeginReview(b, r) PROVE QueueTypes'
  <2> DEFINE found == IF request[r].break = None THEN "open" ELSE breaks[request[r].break]
  <2>1. r \in Requests /\ request[r] \in Proposals
    BY <1>0 DEF QueueTypes
  <2>2. found \in {"open", "resolved"}
    BY <1>0, <2>1 DEF QueueTypes, Proposals
  <2>3. review' = [review EXCEPT ![b] = [of |-> r, found |-> found]]
    BY <1>1 DEF BeginReview
  <2> HIDE DEF found
  <2>4. review' \in [Browsers -> Reviews]
    BY <1>0, <2>1, <2>2, <2>3 DEF QueueTypes, Reviews
  <2> QED BY <1>0, <1>1, <2>4 DEF BeginReview, QueueTypes
<1>2. ASSUME NEW b \in Browsers, NEW verdict \in Statuses, review[b] # NoReview,
             Reviewed(b, verdict), breaks' \in [Breaks -> {"open", "resolved"}],
             effect' \in [Requests -> 0 .. MaxOrders]
      PROVE  QueueTypes'
  <2> DEFINE r == review[b].of
  <2>1. /\ r \in Requests /\ request' \in [DOMAIN request -> Proposals]
        /\ audit' = [audit EXCEPT ![r] = 1] /\ review' = [review EXCEPT ![b] = NoReview]
    BY <1>2, DecisionWrites
  <2> HIDE DEF r
  <2> QED BY <1>0, <1>2, <2>1 DEF QueueTypes, Reviews
<1>3. ASSUME NEW b \in Browsers, Reject(b) PROVE QueueTypes'
  BY <1>0, <1>2, <1>3 DEF Reject, Statuses, QueueTypes
<1>4. ASSUME NEW b \in Browsers, ApproveExecuted(b) PROVE QueueTypes'
  <2>1. review[b] # NoReview /\ Reviewed(b, "executed")
    BY <1>4 DEF ApproveExecuted
  <2>2. breaks' \in [Breaks -> {"open", "resolved"}]
    BY <1>0, <1>4 DEF ApproveExecuted, QueueTypes
  <2>3. effect' \in [Requests -> 0 .. MaxOrders]
    <3>1. PICK n \in WritesOf(review[b].of) : effect' = [effect EXCEPT ![review[b].of] = n]
      BY <1>4 DEF ApproveExecuted
    <3>2. n \in 0 .. MaxOrders
      BY <1>0, <3>1, StaffReviewAssumption DEF WritesOf
    <3> QED BY <1>0, <3>1, <3>2 DEF QueueTypes
  <2> QED BY <1>2, <2>1, <2>2, <2>3 DEF Statuses
<1>5. ASSUME NEW b \in Browsers, ApproveFailed(b) PROVE QueueTypes'
  <2>1. /\ review[b] # NoReview /\ Reviewed(b, "execution_failed") /\ breaks' = breaks
        /\ effect' = [effect EXCEPT ![review[b].of] = effect[review[b].of]]
    BY <1>5 DEF ApproveFailed, Savepoint
  <2>2. effect' \in [Requests -> 0 .. MaxOrders]
    BY <1>0, <2>1 DEF QueueTypes
  <2> QED BY <1>0, <1>2, <2>1, <2>2 DEF Statuses, QueueTypes
<1>6. ASSUME NEW b \in Browsers, ReviewRollsBack(b) PROVE QueueTypes'
  BY <1>0, <1>6 DEF ReviewRollsBack, QueueTypes, Reviews
<1>7. ASSUME NEW a \in Agents, NEW r \in Requests, Propose(a, r) PROVE QueueTypes'
  <2>1. UNCHANGED <<breaks, effect, audit, review>>
    BY <1>7 DEF Propose
  <2>2. /\ DOMAIN request' = DOMAIN request \cup {r}
        /\ request' \in [DOMAIN request \cup {r} -> Proposals]
    BY <1>7, ProposalWrites
  <2>3. request' \in [DOMAIN request' -> Proposals] /\ DOMAIN request' \subseteq Requests
    BY <1>0, <2>2 DEF QueueTypes
  <2> QED BY <1>0, <2>1, <2>3 DEF QueueTypes
<1>8. ASSUME NEW k \in Breaks, ResolveBreak(k) PROVE QueueTypes'
  BY <1>0, <1>8 DEF ResolveBreak, QueueTypes
<1>9. ASSUME UNCHANGED queueVars PROVE QueueTypes'
  BY <1>0, <1>9 DEF queueVars, QueueTypes
<1>10. ASSUME NEW c \in Principals, Register(c) \/ CreateStaff(c) PROVE QueueTypes'
  BY <1>9, <1>10 DEF Register, CreateStaff
<1>11. ASSUME NEW b \in Browsers,
              \/ \E p \in Principals : Login(b, p)
              \/ MfaEnroll(b) \/ MfaReset(b) \/ MfaVerify(b) \/ Logout(b)
              \/ IssueToken(b) \/ \E t \in DOMAIN token : RevokeToken(b, t)
       PROVE  QueueTypes'
  BY <1>9, <1>11 DEF Login, MfaEnroll, MfaReset, MfaVerify, Logout, IssueToken, RevokeToken
<1>12. ASSUME NEW a \in Agents, ReadTool(a) \/ \E t \in DOMAIN token : ResolveStaff(a, t)
       PROVE  QueueTypes'
  BY <1>9, <1>12 DEF ReadTool, ResolveStaff
<1> QED
  BY <1>1, <1>3, <1>4, <1>5, <1>6, <1>7, <1>8, <1>10, <1>11, <1>12 DEF Next, Principals

-----------------------------------------------------------------------------
\* Sessions, locks and atomicity

\* A session is staff's only with the code, and changes hands only in a browser
\* that has no review open.
LEMMA SessionsKept ==
  ASSUME IInv, Next
  PROVE  /\ LoggedInWasProved'
         /\ \A b \in Browsers : review[b] # NoReview => session'[b] = session[b]
<1> DEFINE Goal == /\ LoggedInWasProved'
                   /\ \A b \in Browsers : review[b] # NoReview => session'[b] = session[b]
<1>0. /\ LoggedInWasProved /\ session \in [Browsers -> SessionRows]
      /\ Staff \cap Customers = {} /\ None \notin Staff
  BY StaffReviewAssumption DEF IInv, AuthTypes
<1>1. ASSUME UNCHANGED <<session, proved>> PROVE Goal
  BY <1>0, <1>1 DEF LoggedInWasProved
<1>2. ASSUME NEW b \in Browsers, NEW p \in Principals, Login(b, p) PROVE Goal
  <2>1. review[b] = NoReview
    BY <1>2 DEF Login
  <2>2. \A c \in Browsers : c # b => session'[c] = session[c]
    BY <1>0, <1>2 DEF Login
  <2>3. CASE p \in Staff
    <3>1. proved' = proved /\ session'[b] = [session[b] EXCEPT !.pending = p]
      BY <1>0, <1>2, <2>3 DEF Login
    <3>2. session'[b].user = session[b].user
      BY <1>0, <3>1 DEF SessionRows
    <3> QED BY <1>0, <2>1, <2>2, <3>1, <3>2 DEF LoggedInWasProved
  <2>4. CASE p \notin Staff
    <3>1. /\ proved' = proved \ ({b} \X Staff)
          /\ session'[b] = [session[b] EXCEPT !.user = p]
      BY <1>0, <1>2, <2>4 DEF Login
    <3>2. session'[b].user = p
      BY <1>0, <3>1 DEF SessionRows
    <3> QED BY <1>0, <2>1, <2>2, <2>4, <3>1, <3>2 DEF LoggedInWasProved
  <2> QED BY <2>3, <2>4
<1>3. ASSUME NEW b \in Browsers, MfaVerify(b) PROVE Goal
  <2>1. /\ review[b] = NoReview
        /\ session'[b] = [user |-> session[b].pending, pending |-> None]
        /\ \A c \in Browsers : c # b => session'[c] = session[c]
        /\ proved' = (proved \ ({b} \X Staff)) \cup {<<b, session[b].pending>>}
    BY <1>0, <1>3 DEF MfaVerify
  <2> QED BY <1>0, <2>1 DEF LoggedInWasProved
<1>4. ASSUME NEW b \in Browsers, Logout(b) PROVE Goal
  <2>1. /\ review[b] = NoReview
        /\ session'[b].user = None
        /\ \A c \in Browsers : c # b => session'[c] = session[c]
        /\ proved' = proved \ ({b} \X Staff)
    BY <1>0, <1>4 DEF Logout, NoSession
  <2> QED BY <1>0, <2>1 DEF LoggedInWasProved
<1>5. ASSUME NEW c \in Principals, Register(c) \/ CreateStaff(c) PROVE Goal
  BY <1>1, <1>5 DEF Register, CreateStaff
<1>6. ASSUME NEW b \in Browsers,
             \/ MfaEnroll(b) \/ MfaReset(b)
             \/ IssueToken(b) \/ \E t \in DOMAIN token : RevokeToken(b, t)
             \/ \E r \in DOMAIN request : BeginReview(b, r)
             \/ Reject(b) \/ ApproveExecuted(b) \/ ApproveFailed(b) \/ ReviewRollsBack(b)
      PROVE  Goal
  BY <1>1, <1>6 DEF MfaEnroll, MfaReset, IssueToken, RevokeToken, BeginReview, Reject,
                    ApproveExecuted, ApproveFailed, ReviewRollsBack, Reviewed, authVars
<1>7. ASSUME NEW a \in Agents,
             \/ \E t \in DOMAIN token : ResolveStaff(a, t)
             \/ ReadTool(a)
             \/ \E r \in Requests : Propose(a, r)
      PROVE  Goal
  BY <1>1, <1>7 DEF ResolveStaff, ReadTool, Propose, authVars
<1>8. ASSUME NEW k \in Breaks, ResolveBreak(k) PROVE Goal
  BY <1>1, <1>8 DEF ResolveBreak, authVars
<1> HIDE DEF Goal
<1>9. Goal
  BY <1>2, <1>3, <1>4, <1>5, <1>6, <1>7, <1>8 DEF Next, Principals
<1> QED BY <1>9 DEF Goal

\* What the actions do to the rows under review: a step leaves them alone, opens
\* one review, closes one and decides its proposal, rolls one back, or adds a
\* proposal.
LEMMA QueueSteps ==
  ASSUME IInv, Next
  PROVE  \/ UNCHANGED <<request, effect, audit, review>>
         \/ \E b \in Browsers, r \in DOMAIN request : BeginReview(b, r)
         \/ \E b \in Browsers : Reject(b) \/ ApproveExecuted(b) \/ ApproveFailed(b)
         \/ \E b \in Browsers : ReviewRollsBack(b)
         \/ \E a \in Agents, r \in Requests : Propose(a, r)
BY DEF Next, Register, CreateStaff, Login, MfaEnroll, MfaReset, MfaVerify, Logout, IssueToken,
       RevokeToken, ResolveStaff, ReadTool, ResolveBreak, queueVars

\* An open review keeps its pending proposal to itself.
LEMMA ReviewsKept ==
  ASSUME IInv, Next
  PROVE  ReviewsOpen' /\ OneReview'
<1>0. /\ review \in [Browsers -> Reviews] /\ request \in [DOMAIN request -> Proposals]
      /\ ReviewsOpen /\ OneReview
  BY DEF IInv, QueueTypes
<1>s. \A b \in Browsers : review[b] # NoReview => session'[b] = session[b]
  BY SessionsKept
<1>1. CASE UNCHANGED <<request, effect, audit, review>>
  BY <1>0, <1>1, <1>s DEF ReviewsOpen, ReviewOpen, OneReview
<1>2. ASSUME NEW b \in Browsers, NEW r \in DOMAIN request, BeginReview(b, r)
      PROVE  ReviewsOpen' /\ OneReview'
  <2>1. /\ review'[b].of = r /\ \A c \in Browsers : c # b => review'[c] = review[c]
        /\ request' = request /\ session' = session
        /\ session[b].user \in Staff /\ request[r].status = "pending"
        /\ \A c \in Browsers : review[c].of # r
    BY <1>0, <1>2 DEF BeginReview, RequiresRole, Locked, authVars
  <2>2. ReviewsOpen'
    BY <1>0, <2>1 DEF ReviewsOpen, ReviewOpen
  <2>3. OneReview'
    BY <1>0, <2>1 DEF OneReview
  <2> QED BY <2>2, <2>3
<1>3. ASSUME NEW b \in Browsers, Reject(b) \/ ApproveExecuted(b) \/ ApproveFailed(b)
      PROVE  ReviewsOpen' /\ OneReview'
  <2> DEFINE r == review[b].of
  <2>1. PICK verdict \in Statuses : review[b] # NoReview /\ Reviewed(b, verdict)
    BY <1>3 DEF Reject, ApproveExecuted, ApproveFailed, Statuses
  <2>2. /\ \A q \in DOMAIN request : q # r => request'[q] = request[q]
        /\ request' \in [DOMAIN request -> Proposals]
        /\ review' = [review EXCEPT ![b] = NoReview]
    BY <2>1, DecisionWrites
  <2>3. \A c \in Browsers : review[c] # NoReview /\ c # b => review[c].of # r
    BY <1>0, <2>1 DEF OneReview
  <2>4. \A c \in Browsers : review'[c] # NoReview => c # b /\ review'[c] = review[c]
    BY <1>0, <2>2
  <2>5. DOMAIN request' = DOMAIN request
    BY <2>2
  <2> HIDE DEF r
  <2>6. ReviewsOpen'
    BY <1>0, <1>s, <2>2, <2>3, <2>4, <2>5 DEF ReviewsOpen, ReviewOpen
  <2>7. OneReview'
    BY <1>0, <2>4 DEF OneReview
  <2> QED BY <2>6, <2>7
<1>4. ASSUME NEW b \in Browsers, ReviewRollsBack(b) PROVE ReviewsOpen' /\ OneReview'
  <2>1. \A c \in Browsers : review'[c] # NoReview => review'[c] = review[c]
    BY <1>0, <1>4 DEF ReviewRollsBack
  <2>2. request' = request
    BY <1>4 DEF ReviewRollsBack
  <2> QED BY <1>0, <1>s, <2>1, <2>2 DEF ReviewsOpen, ReviewOpen, OneReview
<1>5. ASSUME NEW a \in Agents, NEW r \in Requests, Propose(a, r) PROVE ReviewsOpen' /\ OneReview'
  <2>1. /\ r \notin DOMAIN request /\ DOMAIN request' = DOMAIN request \cup {r}
        /\ \A q \in DOMAIN request : request'[q] = request[q]
    BY <1>5, ProposalWrites
  <2>2. review' = review
    BY <1>5 DEF Propose
  <2> QED BY <1>0, <1>s, <2>1, <2>2 DEF ReviewsOpen, ReviewOpen, OneReview
<1> QED BY <1>1, <1>2, <1>3, <1>4, <1>5, QueueSteps

\* A step that leaves a proposal and what it wrote as they are keeps it whole.
LEMMA AtomicFrame ==
  ASSUME NEW r \in Requests, AtomicFor(r), effect'[r] = effect[r], audit'[r] = audit[r],
         r \in DOMAIN request <=> r \in DOMAIN request',
         r \in DOMAIN request => request'[r] = request[r]
  PROVE  AtomicFor(r)'
<1>1. CASE r \in DOMAIN request
  BY <1>1 DEF AtomicFor, WritesOf
<1>2. CASE r \notin DOMAIN request
  BY <1>2 DEF AtomicFor, WritesOf
<1> QED BY <1>1, <1>2

\* A decision writes status, effect and audit row of one proposal together; a
\* failed action leaves no write, a rolled-back review none at all.
LEMMA AtomicKept ==
  ASSUME IInv, Next
  PROVE  ReviewIsAtomic'
<1>0. /\ effect \in [Requests -> 0 .. MaxOrders] /\ audit \in [Requests -> 0 .. 1]
      /\ \A r \in Requests : AtomicFor(r)
  BY AtomicForAll DEF IInv, QueueTypes
<1> SUFFICES ASSUME NEW r \in Requests PROVE AtomicFor(r)'
  BY DEF ReviewIsAtomic, AtomicFor
<1>1. CASE UNCHANGED <<request, effect, audit, review>>
  BY <1>0, <1>1, AtomicFrame
<1>2. ASSUME NEW b \in Browsers,
             ReviewRollsBack(b) \/ \E q \in DOMAIN request : BeginReview(b, q)
      PROVE  AtomicFor(r)'
  BY <1>0, <1>2, AtomicFrame DEF ReviewRollsBack, BeginReview
<1>3. ASSUME NEW b \in Browsers, NEW verdict \in Statuses \ {"pending"},
             review[b] # NoReview, Reviewed(b, verdict),
             NEW n \in 0 .. MaxOrders, effect' = [effect EXCEPT ![review[b].of] = n],
             verdict = "executed" => n \in WritesOf(review[b].of),
             verdict # "executed" => n = 0
      PROVE  AtomicFor(r)'
  <2> DEFINE q == review[b].of
  <2>1. /\ q \in DOMAIN request /\ q \in Requests
        /\ request' \in [DOMAIN request -> Proposals]
        /\ \A p \in DOMAIN request : p # q => request'[p] = request[p]
        /\ request'[q].status = verdict /\ request'[q].action = request[q].action
        /\ audit' = [audit EXCEPT ![q] = 1]
    BY <1>3, DecisionWrites
  <2>2. DOMAIN request' = DOMAIN request
    BY <2>1
  <2>3. CASE r # q
    <3>1. effect'[r] = effect[r] /\ audit'[r] = audit[r]
      BY <1>0, <1>3, <2>1, <2>3
    <3> HIDE DEF q
    <3> QED BY <1>0, <2>1, <2>2, <2>3, <3>1, AtomicFrame
  <2>4. CASE r = q
    <3>1. effect'[r] = n /\ audit'[r] = 1 /\ request'[r].status = verdict /\ r \in DOMAIN request'
      BY <1>0, <1>3, <2>1, <2>2, <2>4
    <3>2. WritesOf(r)' = WritesOf(r)
      BY <2>1, <2>4 DEF WritesOf
    <3>3. verdict = "executed" => n \in WritesOf(r)
      BY <1>3, <2>4
    <3> QED BY <1>3, <3>1, <3>2, <3>3 DEF AtomicFor
  <2> QED BY <2>3, <2>4
<1>4. ASSUME NEW b \in Browsers, review[b] # NoReview
      PROVE  review[b].of \in Requests /\ effect[review[b].of] = 0
  <2>1. /\ review[b].of \in DOMAIN request /\ review[b].of \in Requests
        /\ request[review[b].of].status = "pending"
    BY <1>4 DEF IInv, ReviewsOpen, ReviewOpen, QueueTypes
  <2> QED BY <1>0, <2>1 DEF AtomicFor
<1>5. 0 \in 0 .. MaxOrders
  BY StaffReviewAssumption
<1>6. ASSUME NEW b \in Browsers, Reject(b) PROVE AtomicFor(r)'
  <2>1. review[b] # NoReview /\ Reviewed(b, "rejected") /\ effect' = effect
    BY <1>6 DEF Reject
  <2>2. effect' = [effect EXCEPT ![review[b].of] = 0]
    BY <1>0, <1>4, <2>1
  <2>3. "rejected" \in Statuses \ {"pending"} /\ "rejected" # "executed"
    BY DEF Statuses
  <2> QED BY <1>3, <1>5, <2>1, <2>2, <2>3, Zenon
<1>7. ASSUME NEW b \in Browsers, ApproveExecuted(b) PROVE AtomicFor(r)'
  <2>1. review[b] # NoReview /\ Reviewed(b, "executed")
    BY <1>7 DEF ApproveExecuted
  <2>2. PICK n \in WritesOf(review[b].of) : effect' = [effect EXCEPT ![review[b].of] = n]
    BY <1>7 DEF ApproveExecuted
  <2>3. n \in 0 .. MaxOrders
    BY <2>2, StaffReviewAssumption DEF WritesOf
  <2> QED BY <1>3, <2>1, <2>2, <2>3 DEF Statuses
<1>8. ASSUME NEW b \in Browsers, ApproveFailed(b) PROVE AtomicFor(r)'
  <2>1. /\ review[b] # NoReview /\ Reviewed(b, "execution_failed")
        /\ effect' = [effect EXCEPT ![review[b].of] = effect[review[b].of]]
    BY <1>8 DEF ApproveFailed, Savepoint
  <2>2. effect' = [effect EXCEPT ![review[b].of] = 0]
    BY <1>4, <2>1
  <2>3. "execution_failed" \in Statuses \ {"pending"} /\ "execution_failed" # "executed"
    BY DEF Statuses
  <2> QED BY <1>3, <1>5, <2>1, <2>2, <2>3, Zenon
<1>9. ASSUME NEW a \in Agents, NEW q \in Requests, Propose(a, q) PROVE AtomicFor(r)'
  <2>1. /\ q \notin DOMAIN request /\ DOMAIN request' = DOMAIN request \cup {q}
        /\ \A p \in DOMAIN request : request'[p] = request[p]
        /\ request'[q].status = "pending"
    BY <1>9, ProposalWrites
  <2>2. effect' = effect /\ audit' = audit
    BY <1>9 DEF Propose
  <2>3. CASE r # q
    BY <1>0, <2>1, <2>2, <2>3, AtomicFrame
  <2>4. CASE r = q
    <3>1. effect[r] = 0 /\ audit[r] = 0
      BY <1>0, <2>1, <2>4 DEF AtomicFor
    <3> QED BY <2>1, <2>2, <2>4, <3>1 DEF AtomicFor
  <2> QED BY <2>3, <2>4
<1> QED BY <1>1, <1>2, <1>6, <1>7, <1>8, <1>9, QueueSteps

-----------------------------------------------------------------------------
\* The theorems

\* The invariant holds at the start and survives every step.
THEOREM ReviewInvariant == Spec => []IInv
<1>1. ASSUME Init PROVE IInv
  <2> USE <1>1 DEF Init
  <2>1. AuthTypes
    BY StaffReviewAssumption DEF AuthTypes, SessionRows, NoSession
  <2>2. TokenTypes
    BY DEF TokenTypes
  <2>3. QueueTypes
    BY StaffReviewAssumption DEF QueueTypes, Reviews
  <2>4. LoggedInWasProved
    BY StaffReviewAssumption DEF LoggedInWasProved, NoSession
  <2>5. ReviewsOpen /\ OneReview
    BY DEF ReviewsOpen, OneReview
  <2>6. ReviewIsAtomic
    BY DEF ReviewIsAtomic
  <2> QED BY <2>1, <2>2, <2>3, <2>4, <2>5, <2>6 DEF IInv
<1>2. ASSUME IInv, [Next]_vars PROVE IInv'
  <2>1. CASE Next
    BY <1>2, <2>1, AuthTypesKept, TokenTypesKept, QueueTypesKept, SessionsKept, ReviewsKept,
       AtomicKept DEF IInv
  <2>2. CASE UNCHANGED vars
    BY <1>2, <2>2 DEF vars, IInv, AuthTypes, TokenTypes, QueueTypes, LoggedInWasProved,
         ReviewsOpen, ReviewOpen, OneReview, ReviewIsAtomic, WritesOf
  <2> QED BY <1>2, <2>1, <2>2
<1> QED BY <1>1, <1>2, PTL DEF Spec

\* A review is one piece, for any number of reviewers and proposals: writes
\* exactly with status executed, one audit row exactly with a decision, whatever
\* fails or is rolled back in between (admin/agent_requests.py).
THEOREM ReviewsAreAtomic == Spec => []ReviewIsAtomic
<1>1. IInv => ReviewIsAtomic
  BY DEF IInv
<1> QED BY <1>1, ReviewInvariant, PTL

\* The tables keep their columns' types.
THEOREM ReviewTypes == Spec => []TypeOK
<1>1. IInv => TypeOK
  <2> SUFFICES ASSUME IInv PROVE TypeOK
    OBVIOUS
  <2>1. \A r \in DOMAIN request : request[r] \in Proposals
    BY DEF IInv, QueueTypes
  <2>2. \A t \in DOMAIN token : token[t] \in Tokens
    BY DEF IInv, TokenTypes
  <2>3. \A b \in Browsers : review[b] = NoReview \/
          review[b] \in [of : Requests, found : {"open", "resolved"}]
    BY DEF IInv, QueueTypes, Reviews
  <2> QED BY <2>1, <2>2, <2>3 DEF IInv, AuthTypes, TokenTypes, QueueTypes, TypeOK, SessionRows,
                                  Tokens, Proposals
<1> QED BY <1>1, ReviewInvariant, PTL

\* Nothing an agent proposed is decided without a person who gave password and
\* code in the very browser that decides, after any logins, half logins and
\* logouts there (requires_role of admin/agent_requests.py).
THEOREM VerifiedStaffDecides == Spec => DecidedByVerifiedStaff
<1> DEFINE Decided == \A r \in DOMAIN request :
       request'[r].status # request[r].status =>
         /\ request'[r].reviewer \in Staff
         /\ \E b \in Browsers : /\ review[b].of = r
                                /\ <<b, request'[r].reviewer>> \in proved
<1>1. ASSUME IInv, [Next]_vars PROVE Decided
  <2>1. ASSUME request' = request PROVE Decided
    BY <2>1
  <2>2. CASE UNCHANGED vars
    BY <2>1, <2>2 DEF vars
  <2>3. ASSUME NEW b \in Browsers, Reject(b) \/ ApproveExecuted(b) \/ ApproveFailed(b)
        PROVE  Decided
    <3> DEFINE q == review[b].of
    <3>1. PICK verdict \in Statuses : review[b] # NoReview /\ Reviewed(b, verdict)
      BY <2>3 DEF Reject, ApproveExecuted, ApproveFailed, Statuses
    <3>2. /\ \A p \in DOMAIN request : p # q => request'[p] = request[p]
          /\ session[b].user \in Staff /\ request'[q].reviewer = session[b].user
      BY <1>1, <3>1, DecisionWrites
    <3>3. <<b, session[b].user>> \in proved
      BY <1>1, <3>2 DEF IInv, LoggedInWasProved
    <3> QED BY <3>2, <3>3
  <2>4. ASSUME NEW a \in Agents, NEW r \in Requests, Propose(a, r) PROVE Decided
    BY <1>1, <2>4, ProposalWrites
  <2>5. ASSUME NEW b \in Browsers,
               ReviewRollsBack(b) \/ \E r \in DOMAIN request : BeginReview(b, r)
        PROVE  Decided
    BY <2>1, <2>5 DEF ReviewRollsBack, BeginReview
  <2> HIDE DEF Decided
  <2> QED BY <1>1, <2>1, <2>2, <2>3, <2>4, <2>5, QueueSteps
<1> QED BY <1>1, ReviewInvariant, PTL DEF Spec, DecidedByVerifiedStaff

-----------------------------------------------------------------------------
(* Chat.
   The cap of the trailing day holds, a session has one turn in flight, and the
   model is told nothing without an audit row. *)

-----------------------------------------------------------------------------
\* The inductive invariant

Messages == [session : Sessions, created : Nat, final : BOOLEAN]
AgentPcs == {"none", "thinking", "tools", "recorded", "ended", "dead"} \cup Outcomes
AgentRows == [at : AgentPcs, turns : Nat, calls : Nat, rows : SUBSET Nat, returned : SUBSET Nat,
              told : SUBSET Nat]

\* What was sent to the model or waits for the next request has its row, and so
\* has the call whose result is about to be returned.
RowKept(r) ==
    /\ r.told \subseteq r.rows /\ r.returned \subseteq r.rows
    /\ r.at = "recorded" => r.calls \in r.rows
Waiting == [at : {"waiting", "admitted"}, session : Sessions, created : Nat]
Running == [at : InFlight, session : Sessions, message : Nat]

\* The types, and an agent row for every message.
Types ==
    /\ clock \in Nat /\ faults \in Nat
    /\ status \in [Sessions -> {"absent", "idle", "streaming"}]
    /\ messages \in Seq(Messages)
    /\ turn \in [Tabs -> {NoTurn} \cup Waiting \cup Running]
    /\ thread \in Seq(AgentRows)
    /\ Len(thread) = Len(messages)

\* A turn in flight has its session marked streaming, and shares it with none.
OwnsSession(t) ==
    turn[t].at \in InFlight =>
      /\ status[turn[t].session] = "streaming"
      /\ turn[t].message \in DOMAIN thread
      /\ \A u \in Tabs : turn[u].at \in InFlight /\ turn[u].session = turn[t].session => u = t

\* Whoever was admitted holds the customer's lock, and what it counted still
\* holds: nobody else inserts, and time only takes messages out of the window.
AdmittedCounted(t) ==
    turn[t].at = "admitted" =>
      /\ Cardinality(Recent) < Cap
      /\ \A u \in Tabs : turn[u].at = "admitted" => u = t

ChatInv ==
    /\ Types
    /\ \A t \in Tabs : OwnsSession(t) /\ AdmittedCounted(t)
    /\ CapHolds
    /\ \A m \in DOMAIN thread : RowKept(thread[m])

-----------------------------------------------------------------------------
\* Lemmas

\* A turn's state says which columns it has.
LEMMA TurnAt ==
  ASSUME Types, NEW t \in Tabs
  PROVE  /\ turn[t].at \in {"none", "waiting", "admitted"} \cup InFlight
         /\ turn[t].at = "none" => turn[t] = NoTurn
         /\ turn[t].at \in {"waiting", "admitted"} => turn[t] \in Waiting
         /\ turn[t].at \in InFlight => turn[t] \in Running
<1>1. turn[t] \in {NoTurn} \cup Waiting \cup Running
  BY DEF Types
<1> QED BY <1>1 DEF NoTurn, Waiting, Running, InFlight

\* The messages of the window are finitely many.
LEMMA RecentFinite ==
  ASSUME messages \in Seq(Messages)
  PROVE  IsFiniteSet(Recent) /\ Cardinality(Recent) \in Nat
<1>1. Len(messages) \in Nat /\ DOMAIN messages = 1 .. Len(messages)
  OBVIOUS
<1>2. IsFiniteSet(1 .. Len(messages))
  BY <1>1, FS_Interval
<1>3. Recent \in SUBSET (1 .. Len(messages))
  BY <1>1 DEF Recent
<1> QED BY <1>2, <1>3, FS_Subset, FS_CardinalityType

\* Updating an agent's row keeps the sequence, its length and the other rows.
LEMMA AgentUpdate ==
  ASSUME thread \in Seq(AgentRows), NEW m \in DOMAIN thread, NEW row \in AgentRows
  PROVE  LET next == [thread EXCEPT ![m] = row]
         IN  /\ next \in Seq(AgentRows) /\ Len(next) = Len(thread)
             /\ DOMAIN next = DOMAIN thread /\ next[m] = row
             /\ \A k \in DOMAIN thread : k # m => next[k] = thread[k]
OBVIOUS

\* A step that changes neither turns, status nor messages, and tells the model
\* nothing it does not audit.
LEMMA AgentFrame ==
  ASSUME ChatInv, UNCHANGED <<clock, status, messages, turn>>, faults' \in Nat,
         NEW m \in DOMAIN thread, NEW row \in AgentRows, RowKept(row),
         thread' = [thread EXCEPT ![m] = row]
  PROVE  ChatInv'
<1>1. thread \in Seq(AgentRows)
  BY DEF ChatInv, Types
<1>2. /\ thread' \in Seq(AgentRows) /\ Len(thread') = Len(thread) /\ DOMAIN thread' = DOMAIN thread
      /\ thread'[m] = row /\ \A k \in DOMAIN thread : k # m => thread'[k] = thread[k]
  BY <1>1, AgentUpdate
<1>3. Types'
  BY <1>2 DEF ChatInv, Types
<1>r. Recent' = Recent
  BY DEF Recent
<1>4. \A t \in Tabs : OwnsSession(t)' /\ AdmittedCounted(t)'
  <2>1. \A t \in Tabs : OwnsSession(t)'
    BY <1>2 DEF ChatInv, OwnsSession
  <2>2. \A t \in Tabs : AdmittedCounted(t)'
    BY <1>r DEF ChatInv, AdmittedCounted
  <2> QED BY <2>1, <2>2
<1>5. CapHolds'
  BY <1>r DEF ChatInv, CapHolds
<1>6. \A k \in DOMAIN thread' : RowKept(thread'[k])
  BY <1>2 DEF ChatInv
<1> QED BY <1>3, <1>4, <1>5, <1>6 DEF ChatInv

\* A tab that gives up a turn, or moves within one, takes nothing from another.
LEMMA TurnFrame ==
  ASSUME ChatInv, NEW t \in Tabs, UNCHANGED <<clock, messages>>, faults' \in Nat,
         thread' \in Seq(AgentRows), Len(thread') = Len(thread),
         \A m \in DOMAIN thread : RowKept(thread'[m]),
         status' \in [Sessions -> {"absent", "idle", "streaming"}],
         NEW next \in {NoTurn} \cup Waiting \cup Running, turn' = [turn EXCEPT ![t] = next],
         next.at \in InFlight =>
           turn[t].at \in InFlight /\ next.session = turn[t].session /\ next.message = turn[t].message,
         next.at = "admitted" =>
           Cardinality(Recent) < Cap /\ \A u \in Tabs \ {t} : turn[u].at # "admitted",
         \A s \in Sessions : status[s] = "streaming" /\ status'[s] # "streaming" =>
           turn[t].at \in InFlight /\ turn[t].session = s /\ next.at \notin InFlight
  PROVE  ChatInv'
<1>1. /\ turn \in [Tabs -> {NoTurn} \cup Waiting \cup Running]
      /\ turn'[t] = next /\ \A u \in Tabs : u # t => turn'[u] = turn[u]
      /\ turn' \in [Tabs -> {NoTurn} \cup Waiting \cup Running]
  BY DEF ChatInv, Types
<1>2. DOMAIN thread' = DOMAIN thread
  BY DEF ChatInv, Types
<1>3. Types'
  BY <1>1 DEF ChatInv, Types
<1>4. ASSUME NEW u \in Tabs PROVE OwnsSession(u)'
  <2> SUFFICES ASSUME turn'[u].at \in InFlight
               PROVE  /\ status'[turn'[u].session] = "streaming"
                      /\ turn'[u].message \in DOMAIN thread'
                      /\ \A v \in Tabs : turn'[v].at \in InFlight /\ turn'[v].session = turn'[u].session
                                           => v = u
    BY DEF OwnsSession
  <2>1. \A v \in Tabs : turn'[v].at \in InFlight =>
          /\ turn[v].at \in InFlight /\ turn'[v].session = turn[v].session
          /\ turn'[v].message = turn[v].message
    BY <1>1
  <2>2. OwnsSession(u) /\ turn[u].at \in InFlight /\ turn[u] \in Running
    BY <2>1, TurnAt DEF ChatInv
  <2>3. turn[u].session \in Sessions /\ status[turn[u].session] = "streaming"
    BY <2>2 DEF OwnsSession, Running
  <2>4. status'[turn[u].session] = "streaming"
    <3>1. SUFFICES ASSUME status'[turn[u].session] # "streaming" PROVE FALSE
      OBVIOUS
    <3>2. turn[t].at \in InFlight /\ turn[t].session = turn[u].session /\ next.at \notin InFlight
      BY <2>3, <3>1
    <3>3. u = t
      BY <2>2, <3>2 DEF OwnsSession
    <3> QED BY <1>1, <3>2, <3>3
  <2> QED BY <1>2, <2>1, <2>2, <2>4 DEF OwnsSession
<1>5. Recent' = Recent
  BY DEF Recent
<1>6. ASSUME NEW u \in Tabs PROVE AdmittedCounted(u)'
  <2>1. AdmittedCounted(u)
    BY DEF ChatInv
  <2>2. CASE u = t
    BY <1>1, <1>5, <2>2 DEF AdmittedCounted
  <2>3. CASE u # t
    BY <1>1, <1>5, <2>1, <2>3 DEF AdmittedCounted
  <2> QED BY <2>2, <2>3
<1>7. CapHolds' /\ (\A m \in DOMAIN thread : RowKept(thread[m]))'
  BY <1>2, <1>5 DEF ChatInv, CapHolds
<1> QED BY <1>3, <1>4, <1>6, <1>7 DEF ChatInv

-----------------------------------------------------------------------------
\* Preservation, action by action

\* Time only takes messages out of the window.
LEMMA TickKeeps ==
  ASSUME ChatInv, Tick
  PROVE  ChatInv'
<1>1. /\ clock' = clock + 1 /\ clock \in Nat
      /\ UNCHANGED <<status, messages, turn, thread, lost, faults>>
  BY DEF Tick, ChatInv, Types
<1>2. Recent' \in SUBSET Recent
  <2>1. \A m \in DOMAIN messages : messages[m].created \in Nat
    <3>1. \A m \in DOMAIN messages : messages[m] \in Messages
      BY DEF ChatInv, Types
    <3> QED BY <3>1 DEF Messages
  <2>2. Window \in Nat
    BY ChatAssumption
  <2> QED BY <1>1, <2>1, <2>2 DEF Recent
<1>3. Cardinality(Recent') <= Cardinality(Recent) /\ Cardinality(Recent) \in Nat
        /\ Cardinality(Recent') \in Nat
  BY <1>2, RecentFinite, FS_Subset, FS_CardinalityType DEF ChatInv, Types
<1>4. Cap \in Nat
  BY ChatAssumption
<1>5. CapHolds' /\ \A t \in Tabs : AdmittedCounted(t)'
  BY <1>1, <1>3, <1>4 DEF ChatInv, CapHolds, AdmittedCounted
<1>6. Types' /\ (\A m \in DOMAIN thread : RowKept(thread[m]))' /\ \A t \in Tabs : OwnsSession(t)'
  BY <1>1 DEF ChatInv, Types, OwnsSession
<1> QED BY <1>5, <1>6 DEF ChatInv

\* A new session has no turn.
LEMMA CreateSessionKeeps ==
  ASSUME ChatInv, NEW s \in Sessions, CreateSession(s)
  PROVE  ChatInv'
<1>1. /\ status[s] = "absent" /\ status' = [status EXCEPT ![s] = "idle"]
      /\ UNCHANGED <<clock, messages, turn, thread, faults>>
  BY DEF CreateSession
<1>2. Types'
  BY <1>1 DEF ChatInv, Types
<1>3. Recent' = Recent
  BY <1>1 DEF Recent
<1>4. \A t \in Tabs : turn[t].at \in InFlight => turn[t].session \in Sessions
  BY TurnAt DEF ChatInv, Running
<1>5. \A t \in Tabs : OwnsSession(t)'
  BY <1>1, <1>4 DEF ChatInv, Types, OwnsSession
<1>6. \A t \in Tabs : AdmittedCounted(t)'
  BY <1>1, <1>3 DEF ChatInv, AdmittedCounted
<1>7. CapHolds' /\ (\A m \in DOMAIN thread : RowKept(thread[m]))'
  BY <1>1, <1>3 DEF ChatInv, CapHolds
<1> QED BY <1>2, <1>5, <1>6, <1>7 DEF ChatInv

\* The steps of a tab that leave agents and session rows alone.
LEMMA TabSteps ==
  ASSUME ChatInv, NEW t \in Tabs,
         (\E s \in Sessions : SendMessage(t, s)) \/ Admit(t) \/ Disconnect(t)
  PROVE  ChatInv'
<1>0. /\ turn[t] \in {NoTurn} \cup Waiting \cup Running /\ clock \in Nat /\ faults \in Nat
      /\ thread \in Seq(AgentRows) /\ \A m \in DOMAIN thread : RowKept(thread[m])
      /\ status \in [Sessions -> {"absent", "idle", "streaming"}]
      /\ NoTurn \in {NoTurn} \cup Waiting \cup Running /\ NoTurn.at = "none"
  BY DEF ChatInv, Types, NoTurn
<1>1. ASSUME NEW s \in Sessions, SendMessage(t, s) PROVE ChatInv'
  <2> DEFINE next == [at |-> "waiting", session |-> s, created |-> clock]
  <2>1. next \in Waiting /\ next.at = "waiting" /\ next.at \notin InFlight
    BY <1>0 DEF Waiting, InFlight
  <2>2. /\ turn' = [turn EXCEPT ![t] = next]
        /\ UNCHANGED <<clock, status, messages, thread, faults>>
    BY <1>1 DEF SendMessage
  <2> HIDE DEF next
  <2> QED BY <1>0, <2>1, <2>2, TurnFrame
<1>2. CASE Admit(t)
  <2> DEFINE next == [turn[t] EXCEPT !.at = "admitted"]
  <2>1. turn[t] \in Waiting /\ \A u \in Tabs \ {t} : turn[u].at # "admitted"
    BY <1>2, TurnAt DEF Admit, LockFree, ChatInv
  <2>2. next \in Waiting /\ next.at = "admitted" /\ next.at \notin InFlight
    BY <2>1 DEF Waiting, InFlight
  <2>3. Cardinality(Recent) \in Nat /\ Cap \in Nat
    BY RecentFinite, ChatAssumption DEF ChatInv, Types
  <2>4. UNCHANGED <<clock, status, messages, thread, faults>>
    BY <1>2 DEF Admit
  <2>5. CASE Cardinality(Recent) >= Cap
    <3>1. turn' = [turn EXCEPT ![t] = NoTurn] /\ NoTurn.at \notin InFlight
      BY <1>0, <1>2, <2>5 DEF Admit, InFlight
    <3> QED BY <1>0, <2>4, <3>1, TurnFrame
  <2>6. CASE ~(Cardinality(Recent) >= Cap)
    <3>1. turn' = [turn EXCEPT ![t] = next]
      BY <1>2, <2>6 DEF Admit
    <3>2. Cardinality(Recent) < Cap
      BY <2>3, <2>6
    <3> HIDE DEF next
    <3> QED BY <1>0, <2>1, <2>2, <2>4, <3>1, <3>2, TurnFrame
  <2> QED BY <2>5, <2>6
<1>3. CASE Disconnect(t)
  <2> DEFINE next == [turn[t] EXCEPT !.at = "closing"]
  <2>1. turn[t].at \in InFlight /\ turn[t] \in Running
    BY <1>3, TurnAt DEF Disconnect, InFlight, ChatInv
  <2>2. /\ next \in Running /\ next.at = "closing" /\ next.session = turn[t].session
        /\ next.message = turn[t].message /\ next.at # "admitted"
    BY <2>1 DEF Running, InFlight
  <2>3. /\ turn' = [turn EXCEPT ![t] = next] /\ faults' \in Nat
        /\ UNCHANGED <<clock, status, messages, thread>>
    BY <1>0, <1>3 DEF Disconnect
  <2> HIDE DEF next
  <2> QED BY <1>0, <2>1, <2>2, <2>3, TurnFrame
<1> QED BY <1>1, <1>2, <1>3

\* stream_turn: the agent starts, its answer is finalized, the session is
\* released, or all of it vanishes.
LEMMA StreamSteps ==
  ASSUME ChatInv, NEW t \in Tabs, StartStream(t) \/ Release(t) \/ Vanish(t)
  PROVE  ChatInv'
<1>0. /\ turn[t] \in {NoTurn} \cup Waiting \cup Running /\ clock \in Nat /\ faults \in Nat
      /\ thread \in Seq(AgentRows) /\ \A m \in DOMAIN thread : RowKept(thread[m])
      /\ status \in [Sessions -> {"absent", "idle", "streaming"}]
      /\ NoTurn \in {NoTurn} \cup Waiting \cup Running /\ NoTurn.at = "none"
      /\ NoTurn.at \notin InFlight
  BY DEF ChatInv, Types, NoTurn, InFlight
<1>1. ASSUME turn[t].at \in InFlight
      PROVE  turn[t] \in Running /\ turn[t].message \in DOMAIN thread /\ turn[t].session \in Sessions
  BY <1>1, TurnAt DEF ChatInv, OwnsSession, Running
<1>2. ASSUME turn[t].at \in InFlight, NEW pc \in AgentPcs, pc # "recorded",
             thread' = [thread EXCEPT ![turn[t].message].at = pc]
      PROVE  /\ thread' \in Seq(AgentRows) /\ Len(thread') = Len(thread)
             /\ \A m \in DOMAIN thread : RowKept(thread'[m])
  <2> DEFINE k == turn[t].message
             row == [thread[k] EXCEPT !.at = pc]
  <2>1. k \in DOMAIN thread /\ thread[k] \in AgentRows
    BY <1>0, <1>1, <1>2
  <2>2. row \in AgentRows /\ RowKept(row)
    BY <1>0, <1>2, <2>1 DEF AgentRows, RowKept
  <2>3. thread' = [thread EXCEPT ![k] = row]
    BY <1>2
  <2> HIDE DEF row, k
  <2>4. /\ thread' \in Seq(AgentRows) /\ Len(thread') = Len(thread)
        /\ thread'[k] = row /\ \A m \in DOMAIN thread : m # k => thread'[m] = thread[m]
    BY <1>0, <2>1, <2>2, <2>3, AgentUpdate
  <2> QED BY <1>0, <2>1, <2>2, <2>4
<1>3. CASE StartStream(t)
  <2> DEFINE next == [turn[t] EXCEPT !.at = "streaming"]
  <2>1. turn[t].at \in InFlight /\ turn[t] \in Running
    BY <1>1, <1>3 DEF StartStream, InFlight
  <2>2. /\ next \in Running /\ next.at = "streaming" /\ next.session = turn[t].session
        /\ next.message = turn[t].message /\ next.at # "admitted"
    BY <2>1 DEF Running, InFlight
  <2>3. /\ turn' = [turn EXCEPT ![t] = next]
        /\ thread' = [thread EXCEPT ![turn[t].message].at = "thinking"]
        /\ UNCHANGED <<clock, status, messages, faults>>
    BY <1>3 DEF StartStream
  <2>4. "thinking" \in AgentPcs
    BY DEF AgentPcs
  <2> HIDE DEF next
  <2>5. /\ thread' \in Seq(AgentRows) /\ Len(thread') = Len(thread)
        /\ \A m \in DOMAIN thread : RowKept(thread'[m])
    BY <1>2, <2>1, <2>3, <2>4
  <2> QED BY <1>0, <2>1, <2>2, <2>3, <2>5, TurnFrame
<1>4. CASE Release(t)
  <2>1. turn[t].at \in InFlight
    BY <1>4 DEF Release, InFlight
  <2>2. /\ turn' = [turn EXCEPT ![t] = NoTurn]
        /\ status' = [status EXCEPT ![turn[t].session] = "idle"]
        /\ UNCHANGED <<clock, messages, thread, faults>>
    BY <1>4 DEF Release
  <2>3. /\ status' \in [Sessions -> {"absent", "idle", "streaming"}]
        /\ \A s \in Sessions : status[s] = "streaming" /\ status'[s] # "streaming" =>
                                 turn[t].session = s
    BY <1>0, <1>1, <2>1, <2>2
  <2> QED BY <1>0, <2>1, <2>2, <2>3, TurnFrame
<1>5. CASE Vanish(t)
  <2>1. /\ turn' = [turn EXCEPT ![t] = NoTurn] /\ faults' \in Nat
        /\ UNCHANGED <<clock, status, messages>>
    BY <1>0, <1>5 DEF Vanish
  <2>2. /\ thread' \in Seq(AgentRows) /\ Len(thread') = Len(thread)
        /\ \A m \in DOMAIN thread : RowKept(thread'[m])
    <3>1. CASE turn[t].at \in {"streaming", "closing"}
      <4>1. turn[t].at \in InFlight /\ "dead" \in AgentPcs
        BY <3>1 DEF InFlight, AgentPcs
      <4>2. thread' = [thread EXCEPT ![turn[t].message].at = "dead"]
        BY <1>5, <3>1 DEF Vanish
      <4> QED BY <1>2, <4>1, <4>2
    <3>2. CASE turn[t].at \notin {"streaming", "closing"}
      BY <1>0, <1>5, <3>2 DEF Vanish
    <3> QED BY <3>1, <3>2
  <2> QED BY <1>0, <2>1, <2>2, TurnFrame
<1> QED BY <1>3, <1>4, <1>5

\* Finalizing fills in the answer of the turn's own message.
LEMMA FinalizeKeeps ==
  ASSUME ChatInv, NEW t \in Tabs, Finalize(t)
  PROVE  ChatInv'
<1> DEFINE k == turn[t].message
           next == [turn[t] EXCEPT !.at = "closing"]
           row == [messages[k] EXCEPT !.final = TRUE]
<1>1. turn[t].at \in InFlight /\ turn[t] \in Running /\ k \in DOMAIN thread
  BY TurnAt DEF Finalize, InFlight, ChatInv, OwnsSession
<1>2. /\ messages \in Seq(Messages) /\ thread \in Seq(AgentRows) /\ Len(thread) = Len(messages)
      /\ turn \in [Tabs -> {NoTurn} \cup Waiting \cup Running]
  BY DEF ChatInv, Types
<1>3. k \in DOMAIN messages /\ messages[k] \in Messages
  BY <1>1, <1>2
<1>4. row \in Messages /\ row.created = messages[k].created
  BY <1>3 DEF Messages
<1>5. /\ messages' = [messages EXCEPT ![k] = row]
      /\ turn' = [turn EXCEPT ![t] = next]
      /\ UNCHANGED <<clock, status, thread, lost, faults>>
  BY DEF Finalize
<1>6. /\ next \in Running /\ next.at = "closing" /\ next.session = turn[t].session
      /\ next.message = turn[t].message
  BY <1>1 DEF Running, InFlight
<1> HIDE DEF k, next, row
<1>7. /\ messages' \in Seq(Messages) /\ Len(messages') = Len(messages)
      /\ DOMAIN messages' = DOMAIN messages
      /\ \A m \in DOMAIN messages : messages'[m].created = messages[m].created
  BY <1>2, <1>3, <1>4, <1>5
<1>8. Recent' = Recent
  BY <1>5, <1>7 DEF Recent
<1>9. Types'
  BY <1>2, <1>5, <1>6, <1>7 DEF ChatInv, Types
<1>10. \A u \in Tabs : /\ \/ turn'[u].at = turn[u].at
                          \/ turn'[u].at = "closing" /\ u = t
                       /\ turn[u].at \in InFlight =>
                            turn'[u].session = turn[u].session /\ turn'[u].message = turn[u].message
  BY <1>1, <1>2, <1>5, <1>6
<1>11. "closing" \in InFlight /\ "closing" # "admitted"
  BY DEF InFlight
<1>12. \A u \in Tabs : turn'[u].at \in InFlight =>
         /\ turn[u].at \in InFlight
         /\ turn'[u].session = turn[u].session /\ turn'[u].message = turn[u].message
  BY <1>1, <1>10
<1>13. \A u \in Tabs : OwnsSession(u)'
  BY <1>5, <1>12 DEF ChatInv, OwnsSession
<1>14. \A u \in Tabs : AdmittedCounted(u)'
  BY <1>8, <1>10, <1>11 DEF ChatInv, AdmittedCounted
<1>15. CapHolds' /\ (\A m \in DOMAIN thread : RowKept(thread[m]))'
  BY <1>5, <1>8 DEF ChatInv, CapHolds
<1> QED BY <1>9, <1>13, <1>14, <1>15 DEF ChatInv

\* A turn begins: it takes an idle session, which no turn is in flight on, and
\* inserts one message while it holds the lock it was counted under.
LEMMA BeginTurnKeeps ==
  ASSUME ChatInv, NEW t \in Tabs, BeginTurn(t)
  PROVE  ChatInv'
<1> DEFINE s == turn[t].session
           n == Len(messages) + 1
           message == [session |-> s, created |-> turn[t].created, final |-> FALSE]
           row == NoAgent
           next == [at |-> "begun", session |-> s, message |-> n]
<1>0. /\ messages \in Seq(Messages) /\ thread \in Seq(AgentRows) /\ Len(thread) = Len(messages)
      /\ turn \in [Tabs -> {NoTurn} \cup Waiting \cup Running] /\ clock \in Nat /\ faults \in Nat
      /\ status \in [Sessions -> {"absent", "idle", "streaming"}]
      /\ Len(messages) \in Nat /\ UNCHANGED <<clock, lost, faults>>
  BY DEF ChatInv, Types, BeginTurn
<1>1. turn[t].at = "admitted" /\ turn[t] \in Waiting /\ s \in Sessions /\ turn[t].created \in Nat
  BY TurnAt DEF BeginTurn, ChatInv, Waiting
<1>2. Cardinality(Recent) < Cap /\ \A u \in Tabs : turn[u].at = "admitted" => u = t
  BY <1>1 DEF ChatInv, AdmittedCounted
<1>3. CASE TryBeginTurn(s)
  <2>1. /\ status' = [status EXCEPT ![s] = "streaming"] /\ messages' = Append(messages, message)
        /\ thread' = Append(thread, row) /\ turn' = [turn EXCEPT ![t] = next]
        /\ status[s] = "idle"
    BY <1>3 DEF BeginTurn, TryBeginTurn
  <2>2. message \in Messages /\ message.created = turn[t].created
    BY <1>1 DEF Messages
  <2>3. row \in AgentRows /\ RowKept(row)
    BY DEF AgentRows, AgentPcs, NoAgent, RowKept
  <2>4. next \in Running /\ next.at = "begun" /\ next.session = s /\ next.message = n
    BY <1>0, <1>1 DEF Running, InFlight
  <2> HIDE DEF message, row, next
  <2>5. /\ messages' \in Seq(Messages) /\ Len(messages') = n
        /\ DOMAIN messages' = DOMAIN messages \cup {n}
        /\ \A m \in DOMAIN messages : messages'[m] = messages[m]
    BY <1>0, <2>1, <2>2
  <2>6. /\ thread' \in Seq(AgentRows) /\ Len(thread') = n
        /\ DOMAIN thread' = DOMAIN thread \cup {n} /\ thread'[n] = row
        /\ \A m \in DOMAIN thread : thread'[m] = thread[m]
    BY <1>0, <2>1, <2>3
  <2>7. /\ turn'[t] = next /\ \A u \in Tabs : u # t => turn'[u] = turn[u]
        /\ turn' \in [Tabs -> {NoTurn} \cup Waiting \cup Running]
    BY <1>0, <2>1, <2>4
  <2>8. /\ status' \in [Sessions -> {"absent", "idle", "streaming"}] /\ status'[s] = "streaming"
        /\ \A r \in Sessions : status[r] = "streaming" => status'[r] = "streaming"
    BY <1>0, <1>1, <2>1
  <2>9. Types'
    BY <1>0, <2>5, <2>6, <2>7, <2>8 DEF Types
  <2>10. "begun" \in InFlight /\ "begun" # "admitted"
    BY DEF InFlight
  <2>11. \A u \in Tabs : u # t /\ turn[u].at \in InFlight =>
           /\ turn[u].session # s /\ turn[u].session \in Sessions
           /\ status[turn[u].session] = "streaming" /\ turn[u].message \in DOMAIN thread
    BY <2>1, TurnAt DEF ChatInv, OwnsSession, Running
  <2>12. ASSUME NEW u \in Tabs PROVE OwnsSession(u)'
    <3>1. CASE u = t
      BY <2>4, <2>6, <2>7, <2>8, <2>11, <3>1 DEF OwnsSession
    <3>2. CASE u # t
      <4> SUFFICES ASSUME turn[u].at \in InFlight
                   PROVE  /\ status'[turn[u].session] = "streaming"
                          /\ turn[u].message \in DOMAIN thread'
                          /\ \A v \in Tabs : turn'[v].at \in InFlight
                                              /\ turn'[v].session = turn[u].session => v = u
        BY <2>7, <3>2 DEF OwnsSession
      <4>1. status'[turn[u].session] = "streaming" /\ turn[u].message \in DOMAIN thread'
        BY <2>6, <2>8, <2>11, <3>2
      <4>2. ASSUME NEW v \in Tabs, turn'[v].at \in InFlight, turn'[v].session = turn[u].session
            PROVE  v = u
        <5>1. v # t
          BY <2>4, <2>7, <2>11, <3>2, <4>2
        <5> QED BY <2>7, <4>2, <5>1 DEF ChatInv, OwnsSession
      <4> QED BY <4>1, <4>2
    <3> QED BY <3>1, <3>2
  <2>13. \A u \in Tabs : turn'[u].at # "admitted"
    BY <1>2, <2>4, <2>7, <2>10
  <2>14. \A u \in Tabs : AdmittedCounted(u)'
    BY <2>13 DEF AdmittedCounted
  <2>15. CapHolds'
    <3>1. Recent' \in SUBSET (Recent \cup {n})
      BY <1>0, <2>5 DEF Recent
    <3>2. IsFiniteSet(Recent) /\ Cardinality(Recent) \in Nat /\ Cap \in Nat
      BY <1>0, RecentFinite, ChatAssumption
    <3>3. n \notin Recent
      BY <1>0 DEF Recent
    <3>4. IsFiniteSet(Recent \cup {n}) /\ Cardinality(Recent \cup {n}) = Cardinality(Recent) + 1
      BY <3>2, <3>3, FS_AddElement
    <3>5. IsFiniteSet(Recent') /\ Cardinality(Recent') <= Cardinality(Recent \cup {n})
      BY <3>1, <3>4, FS_Subset
    <3>6. Cardinality(Recent') \in Nat
      BY <3>5, FS_CardinalityType
    <3>7. Cardinality(Recent') <= Cap
      BY <1>2, <3>2, <3>4, <3>5, <3>6
    <3> QED BY <3>7 DEF CapHolds
  <2>16. \A m \in DOMAIN thread' : RowKept(thread'[m])
    BY <2>3, <2>6 DEF ChatInv
  <2> QED BY <2>9, <2>12, <2>14, <2>15, <2>16 DEF ChatInv
<1>4. CASE ~TryBeginTurn(s)
  <2>1. turn' = [turn EXCEPT ![t] = NoTurn] /\ UNCHANGED <<status, messages, thread>>
    BY <1>4 DEF BeginTurn
  <2>2. /\ NoTurn \in {NoTurn} \cup Waiting \cup Running /\ NoTurn.at = "none"
        /\ NoTurn.at \notin InFlight
    BY DEF NoTurn, InFlight
  <2>3. \A m \in DOMAIN thread : RowKept(thread[m])
    BY DEF ChatInv
  <2> QED BY <1>0, <2>1, <2>2, <2>3, TurnFrame
<1> QED BY <1>3, <1>4

\* A tool call runs and is counted, and returns nothing yet.
LEMMA CallsKeeps ==
  ASSUME ChatInv, NEW m \in DOMAIN thread, NEW next \in AgentPcs, next # "recorded",
         Calls(m, next), faults' \in Nat
  PROVE  ChatInv'
<1> DEFINE n == thread[m].calls + 1
           row == [thread[m] EXCEPT !.at = next, !.calls = n]
<1>1. thread[m] \in AgentRows /\ RowKept(thread[m])
  BY DEF ChatInv, Types
<1>2. thread' = [thread EXCEPT ![m] = row] /\ UNCHANGED <<clock, status, messages, turn>>
  BY DEF Calls, Agent
<1>3. n \in Nat
  BY <1>1 DEF AgentRows
<1> HIDE DEF n
<1>4. row \in AgentRows /\ RowKept(row)
  BY <1>1, <1>3 DEF AgentRows, RowKept
<1> HIDE DEF row
<1> QED BY <1>2, <1>4, AgentFrame

\* A tool's call is recorded, and only then its result returned: what is
\* returned has its row.
LEMMA ToolKeeps ==
  ASSUME ChatInv, NEW m \in DOMAIN thread, AuditThenTell(m)
  PROVE  ChatInv'
<1> DEFINE r == thread[m]
           c == thread[m].calls
           more == thread[m].rows \cup {c}
           given == thread[m].returned \cup {c}
<1>0. r \in AgentRows /\ RowKept(r) /\ faults \in Nat
  BY DEF ChatInv, Types
<1>1. /\ c \in Nat /\ more \in SUBSET Nat /\ given \in SUBSET Nat /\ c \in more
      /\ r.rows \in SUBSET Nat /\ r.rows \subseteq more
  BY <1>0 DEF AgentRows
<1>2. CASE thread[m].at \in Outcomes /\ RecordToolCall(m, "recorded")
  <2>1. PICK at \in {"recorded", "tools"}, rows \in {r.rows, more} :
          /\ thread' = [thread EXCEPT ![m] = [r EXCEPT !.at = at, !.rows = rows]]
          /\ at = "recorded" => rows = more
          /\ UNCHANGED <<clock, status, messages, turn>> /\ faults' \in Nat
    BY <1>0, <1>2 DEF RecordToolCall, Agent
  <2> DEFINE row == [r EXCEPT !.at = at, !.rows = rows]
  <2>2. at \in AgentPcs /\ rows \in SUBSET Nat /\ r.rows \subseteq rows
    BY <1>1, <2>1 DEF AgentPcs
  <2>3. at = "recorded" => c \in rows
    BY <1>1, <2>1
  <2>4. row \in AgentRows /\ row.rows = rows /\ row.at = at /\ row.calls = c
          /\ row.told = r.told /\ row.returned = r.returned
    BY <1>0, <2>2 DEF AgentRows
  <2>5. RowKept(row)
    BY <1>0, <2>2, <2>3, <2>4 DEF RowKept
  <2>6. /\ thread' = [thread EXCEPT ![m] = row] /\ faults' \in Nat
        /\ UNCHANGED <<clock, status, messages, turn>>
    BY <2>1
  <2> HIDE DEF row
  <2> QED BY <2>4, <2>5, <2>6, AgentFrame
<1>3. CASE thread[m].at = "recorded" /\ ReturnResult(m, "tools")
  <2> DEFINE row == [r EXCEPT !.at = "tools", !.returned = given]
  <2>1. /\ thread' = [thread EXCEPT ![m] = row] /\ faults' \in Nat
        /\ UNCHANGED <<clock, status, messages, turn>>
    BY <1>0, <1>3 DEF ReturnResult, Agent
  <2>2. given \subseteq r.rows
    BY <1>0, <1>3 DEF RowKept
  <2>3. row \in AgentRows /\ row.rows = r.rows /\ row.at = "tools"
          /\ row.told = r.told /\ row.returned = given
    BY <1>0, <1>1 DEF AgentRows, AgentPcs
  <2>4. RowKept(row)
    BY <1>0, <2>2, <2>3 DEF RowKept
  <2> HIDE DEF row
  <2> QED BY <2>1, <2>3, <2>4, AgentFrame
<1> QED BY <1>2, <1>3 DEF AuditThenTell

\* The agent thread: what it tells the model, it has audited.
LEMMA AgentStepKeeps ==
  ASSUME ChatInv, NEW m \in DOMAIN thread, AgentStep(m)
  PROVE  ChatInv'
<1>0. /\ thread[m] \in AgentRows /\ RowKept(thread[m]) /\ faults \in Nat
  BY DEF ChatInv, Types
<1>1. CASE RunTool(m)
  <2>1. PICK q \in Queries : \E outcome \in Execute(q) : Calls(m, outcome)
    BY <1>1 DEF RunTool
  <2>2. PICK outcome \in Execute(q) : Calls(m, outcome)
    BY <2>1
  <2>3. outcome \in AgentPcs /\ outcome # "recorded"
    BY <2>2 DEF Execute, AgentPcs, Outcomes
  <2>4. faults' \in Nat
    BY <1>0, <1>1 DEF RunTool
  <2> QED BY <2>2, <2>3, <2>4, CallsKeeps
<1>2. CASE DescribeSchema(m)
  <2>1. PICK outcome \in {"success", "tools"} : Calls(m, outcome) /\ faults' \in Nat
    BY <1>0, <1>2 DEF DescribeSchema
  <2>2. outcome \in AgentPcs /\ outcome # "recorded"
    BY DEF AgentPcs, Outcomes
  <2> QED BY <2>1, <2>2, CallsKeeps
<1>3. CASE AuditThenTell(m)
  BY <1>3, ToolKeeps
<1>4. CASE NextTurn(m)
  <2> DEFINE n == thread[m].turns + 1
             told == thread[m].told \cup thread[m].returned
             row == [thread[m] EXCEPT !.at = "thinking", !.turns = n, !.told = told, !.returned = {}]
  <2>1. /\ thread' = [thread EXCEPT ![m] = row] /\ faults' \in Nat
        /\ UNCHANGED <<clock, status, messages, turn>>
    BY <1>0, <1>4 DEF NextTurn, Agent
  <2>2. n \in Nat /\ told \in SUBSET Nat /\ told \subseteq thread[m].rows
    BY <1>0 DEF AgentRows, RowKept
  <2> HIDE DEF n, told
  <2>3. row \in AgentRows /\ row.rows = thread[m].rows /\ row.at = "thinking"
          /\ row.told = told /\ row.returned = {}
    BY <1>0, <2>2 DEF AgentRows, AgentPcs
  <2>4. RowKept(row)
    BY <2>2, <2>3 DEF RowKept
  <2> HIDE DEF row
  <2> QED BY <2>1, <2>3, <2>4, AgentFrame
<1>5. CASE AgentEnds(m)
  <2> DEFINE row == [thread[m] EXCEPT !.at = "ended"]
  <2>1. row \in AgentRows /\ RowKept(row)
    BY <1>0 DEF AgentRows, AgentPcs, RowKept
  <2>2. /\ UNCHANGED <<clock, status, messages, turn>> /\ faults' \in Nat
        /\ thread' = [thread EXCEPT ![m] = row]
    BY <1>0, <1>5 DEF AgentEnds, Agent
  <2> HIDE DEF row
  <2> QED BY <2>1, <2>2, AgentFrame
<1> QED BY <1>1, <1>2, <1>3, <1>4, <1>5 DEF AgentStep

\* The initial states satisfy the invariant.
LEMMA InitChatInv == ChatInit => ChatInv
<1> SUFFICES ASSUME ChatInit PROVE ChatInv
  OBVIOUS
<1>1. Types
  BY DEF ChatInit, Types
<1>2. \A t \in Tabs : turn[t].at = "none"
  BY DEF ChatInit, NoTurn
<1>3. \A t \in Tabs : OwnsSession(t) /\ AdmittedCounted(t)
  BY <1>2 DEF OwnsSession, AdmittedCounted, InFlight
<1>4. CapHolds
  <2>1. Recent = {}
    BY DEF ChatInit, Recent
  <2>2. Cardinality(Recent) = 0 /\ Cap \in Nat
    BY <2>1, FS_EmptySet, ChatAssumption
  <2> QED BY <2>2 DEF CapHolds
<1>5. \A m \in DOMAIN thread : RowKept(thread[m])
  BY DEF ChatInit
<1> QED BY <1>1, <1>3, <1>4, <1>5 DEF ChatInv

\* Every step preserves it.
LEMMA NextChatInv == ChatInv /\ [ChatNext]_chatVars => ChatInv'
<1> SUFFICES ASSUME ChatInv, [ChatNext]_chatVars PROVE ChatInv'
  OBVIOUS
<1>1. CASE Tick
  BY <1>1, TickKeeps
<1>2. ASSUME NEW s \in Sessions, CreateSession(s) PROVE ChatInv'
  BY <1>2, CreateSessionKeeps
<1>3. ASSUME NEW t \in Tabs, NEW s \in Sessions, SendMessage(t, s) PROVE ChatInv'
  BY <1>3, TabSteps
<1>4. ASSUME NEW t \in Tabs, TurnStep(t) \/ Disconnect(t) \/ Vanish(t) PROVE ChatInv'
  BY <1>4, TabSteps, StreamSteps, BeginTurnKeeps, FinalizeKeeps DEF TurnStep
<1>5. ASSUME NEW m \in DOMAIN thread, AgentStep(m) PROVE ChatInv'
  BY <1>5, AgentStepKeeps
<1>6. CASE UNCHANGED chatVars
  <2>1. UNCHANGED <<clock, status, messages, turn, thread, lost, faults>>
    BY <1>6 DEF chatVars
  <2>2. Recent' = Recent
    BY <2>1 DEF Recent
  <2>3. Types' /\ (\A m \in DOMAIN thread : RowKept(thread[m]))'
    BY <2>1 DEF ChatInv, Types
  <2>4. \A t \in Tabs : OwnsSession(t)' /\ AdmittedCounted(t)'
    BY <2>1, <2>2 DEF ChatInv, OwnsSession, AdmittedCounted
  <2>5. CapHolds'
    BY <2>2 DEF ChatInv, CapHolds
  <2> QED BY <2>3, <2>4, <2>5 DEF ChatInv
<1> QED BY <1>1, <1>2, <1>3, <1>4, <1>5, <1>6 DEF ChatNext

-----------------------------------------------------------------------------
\* Theorems

\* The types, the ownership of sessions, what an admitted request counted and
\* the properties below hold in every reachable state of begin_turn, stream_turn
\* and the agent threads.
THEOREM ChatInvariant == ChatSpec => []ChatInv
BY InitChatInv, NextChatInv, PTL DEF ChatSpec

\* However many tabs and sessions send at once, and whenever requests wait for
\* the customer's lock or die holding it, no more messages than the daily cap
\* are stored with a time in the trailing window (chat_usage_limiter.py).
THEOREM DailyCapHolds == ChatSpec => []CapHolds
<1>1. ChatInv => CapHolds
  BY DEF ChatInv
<1> QED BY <1>1, ChatInvariant, PTL

\* No two requests are in flight on one session: the conditional update to
\* streaming admits one, and no release but its own makes the session idle
\* again (chat_session.py try_begin_turn and end_turn).
THEOREM SessionsAnswerOne == ChatSpec => []OneTurnPerSession
<1>1. ChatInv => OneTurnPerSession
  <2> SUFFICES ASSUME ChatInv, NEW s \in Sessions
               PROVE  Cardinality({t \in Tabs : turn[t].at \in InFlight /\ turn[t].session = s}) <= 1
    BY DEF OneTurnPerSession
  <2> DEFINE S == {t \in Tabs : turn[t].at \in InFlight /\ turn[t].session = s}
  <2>1. \A t, u \in S : t = u
    BY DEF ChatInv, OwnsSession
  <2>2. CASE S = {}
    <3>1. Cardinality(S) = 0
      BY <2>2, FS_EmptySet
    <3> QED BY <3>1
  <2>3. ASSUME NEW t \in S PROVE Cardinality(S) <= 1
    <3>1. S = {t}
      BY <2>1
    <3>2. Cardinality({t}) = 1
      BY FS_Singleton
    <3> HIDE DEF S
    <3>3. Cardinality(S) = 1
      BY <3>1, <3>2
    <3> QED BY <3>3
  <2> QED BY <2>2, <2>3
<1> QED BY <1>1, ChatInvariant, PTL

\* Every result sent to the model is of a call whose audit row was committed
\* before the tool returned it, however often the writes fail and wherever the
\* process dies between the two (chat_audit_service.py record_tool_call).
THEOREM ResultsAudited == ChatSpec => []AnswersAudited
<1>1. ChatInv => AnswersAudited
  BY DEF ChatInv, RowKept, AnswersAudited
<1> QED BY <1>1, ChatInvariant, PTL
=============================================================================
