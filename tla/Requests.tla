------------------------------ MODULE Requests ------------------------------
(* One customer's money requests: POST /orders, /funding/deposits and
   /funding/withdrawals with their Idempotency-Key, and the paged lists that
   show what they did.  A client may send a request again at any time, while
   the first is still running too.  What each request does to cash and orders
   is in CashPolicy and OrderLifecycle; here it is one row.                  *)
EXTENDS BankLinks, Pages

CONSTANTS
  Sent,            \* the requests the client sends: kind, idempotency key, body
  Ids,             \* row ids
  Times,           \* now(), as a transaction begins
  Limits           \* page sizes asked for

Kinds == {"deposit", "withdrawal", "order"}
Keys == {r.key : r \in Sent}
Bodies == {r.body : r \in Sent}

ASSUME RequestsAssumption ==
  /\ \A r \in Sent : DOMAIN r = {"kind", "key", "body"} /\ r.kind \in Kinds
  /\ Ids \subseteq Nat /\ Times \subseteq Nat /\ Limits \subseteq Nat \ {0}

VARIABLES
  rows,       \* id -> the row a request wrote: request and recorded_at
  keys,       \* idempotency_key rows: key -> body and stored response
  answers,    \* what clients were told: the request and the row
  walk        \* a client paging through the list

reqVars == <<rows, keys, answers, walk>>
requestsVars == <<links, items, errors, worker, crashes, rows, keys, answers, walk>>

Funding == {"deposit", "withdrawal"}
Listed(kinds) == {<<rows[i].time, i>> : i \in {j \in DOMAIN rows : rows[j].request.kind \in kinds}}
NoWalk == [at |-> "none"]

RequestsTypeOK ==
  /\ LinksTypeOK
  /\ worker \in [Workers -> {Idle} \cup Linking
                   \cup [at : {"executing"}, request : Sent, time : Times]]
  /\ DOMAIN rows \subseteq Ids
  /\ \A i \in DOMAIN rows : rows[i] \in [request : Sent, time : Times]
  /\ DOMAIN keys \subseteq Keys
  /\ \A k \in DOMAIN keys : keys[k] \in [hash : Bodies, response : Ids]
  /\ answers \subseteq [request : Sent, response : Ids]
  /\ walk = NoWalk \/ walk.seen \in Seq(Times \X Ids)

RequestsInit ==
  /\ LinksInit
  /\ rows = <<>> /\ keys = <<>> /\ answers = {} /\ walk = NoWalk

\* resolve_replay compares the hash of the raw body, and nothing else.
ResolveReplay(request) == keys[request.key].hash = request.body

\* The key is known: the stored response again, or 409 for another body.
Replay(request) ==
  /\ request.key \in DOMAIN keys
  /\ ResolveReplay(request)
  /\ answers' = answers \cup {[request |-> request, response |-> keys[request.key].response]}
  /\ UNCHANGED <<links, items, errors, worker, crashes, rows, keys, walk>>

\* A request with a new key begins its transaction.
Execute(w, request, time) ==
  /\ worker[w] = Idle
  /\ request.key \notin DOMAIN keys
  /\ Become(w, [at |-> "executing", request |-> request, time |-> time])
  /\ UNCHANGED <<links, items, errors, crashes, reqVars>>

CreateOrder(w, request, time) ==
  /\ request.kind = "order"
  /\ Execute(w, request, time)

\* _check_active_bank_link: the one current link exists and is active.
LinkUsable == \E i \in ActiveForCustomer : CurrentForCustomer = {i}

CreateDeposit(w, request, time) ==
  /\ request.kind = "deposit" /\ LinkUsable
  /\ Execute(w, request, time)

CreateWithdrawal(w, request, time) ==
  /\ request.kind = "withdrawal" /\ LinkUsable
  /\ Execute(w, request, time)

\* The unique constraint uq_idempotency_key_customer_key.
AlwaysNew(key) == TRUE
KeyIsNew(key) == key \notin DOMAIN keys

Insert(table, id, row) ==
  [x \in DOMAIN table \cup {id} |-> IF x = id THEN row ELSE table[x]]

\* The row and the key are committed together; a key that another transaction
\* has saved meanwhile makes the INSERT fail and everything roll back.
Commit(w) ==
  /\ worker[w].at = "executing"
  /\ LET r == worker[w].request IN
       IF KeyIsNew(r.key)
       THEN \E i \in Ids \ DOMAIN rows :
              /\ rows' = Insert(rows, i, [request |-> r, time |-> worker[w].time])
              /\ keys' = Insert(keys, r.key, [hash |-> r.body, response |-> i])
              /\ answers' = answers \cup {[request |-> r, response |-> i]}
       ELSE UNCHANGED <<rows, keys, answers>>
  /\ Become(w, Idle)
  /\ UNCHANGED <<links, items, errors, crashes, walk>>

\* The service refuses (caps, cash, eligibility, lots): nothing is kept, the
\* key may be used again.
Refuse(w) ==
  /\ worker[w].at = "executing"
  /\ Become(w, Idle)
  /\ UNCHANGED <<links, items, errors, crashes, reqVars>>

-----------------------------------------------------------------------------
(* GET /orders, /funding/history: the list, newest first, page by page. *)

NextPage(kinds, seen, after, limit, expected) ==
  LET page == ListPage(Listed(kinds), after, limit) IN
  [at |-> IF page.next = NoCursor THEN "done" ELSE "more", kinds |-> kinds,
   limit |-> limit, after |-> page.next, seen |-> seen \o page.items,
   expected |-> expected]

\* The first page; what is there now is what the client should see.
ListFirst(kinds, limit) ==
  /\ walk = NoWalk
  /\ Listed(kinds) # {}
  /\ walk' = NextPage(kinds, <<>>, NoCursor, limit, Listed(kinds))
  /\ UNCHANGED <<links, items, errors, worker, crashes, rows, keys, answers>>

ListOrders(limit) == ListFirst({"order"}, limit)
GetFundingHistory(limit) == ListFirst(Funding, limit)

ListNext ==
  /\ walk.at = "more"
  /\ walk' = NextPage(walk.kinds, walk.seen, walk.after, walk.limit, walk.expected)
  /\ UNCHANGED <<links, items, errors, worker, crashes, rows, keys, answers>>

RequestsNext ==
  \/ LinksNext /\ UNCHANGED reqVars
  \/ \E r \in Sent : Replay(r)
  \/ \E w \in Workers :
       \/ \E r \in Sent, t \in Times :
            CreateOrder(w, r, t) \/ CreateDeposit(w, r, t) \/ CreateWithdrawal(w, r, t)
       \/ Commit(w) \/ Refuse(w)
  \/ \E n \in Limits : ListOrders(n) \/ GetFundingHistory(n)
  \/ ListNext

RequestsSpec == RequestsInit /\ [][RequestsNext]_requestsVars

-----------------------------------------------------------------------------
(* Properties. *)

\* A key does its work at most once, and every answer under it names that one
\* row, however often and however concurrently the client repeats the request:
\* the key is looked up long before it is saved.
AnsweredOnce ==
  /\ \A i, j \in DOMAIN rows : rows[i].request.key = rows[j].request.key => i = j
  /\ \A a \in answers : a.response \in DOMAIN rows
                        /\ rows[a.response].request.key = a.request.key
                        /\ rows[a.response].request.body = a.request.body

\* A client that follows next_cursor to the end has seen every row that was
\* there when it began exactly once, newest first, whatever was written while
\* it was reading and however many rows share a timestamp.
HistoryComplete ==
  /\ walk.at # "none" =>
       \A m, n \in 1 .. Len(walk.seen) : m < n => Older(walk.seen[n], walk.seen[m])
  /\ walk.at = "done" =>
       \A r \in walk.expected : \E n \in 1 .. Len(walk.seen) : walk.seen[n] = r

\* core/idempotency.py:69, "so semantically changed replays cannot slip
\* through": what is replayed is the same request.  Only the body is hashed,
\* and a withdrawal may have the body of a deposit.
ReplayIsSameRequest ==
  \A a \in answers : rows[a.response].request.kind = a.request.kind
=============================================================================
