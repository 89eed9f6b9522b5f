------------------------------ MODULE BankLinks ------------------------------
(* The bank links of one customer: BankLinkService and its repository behind
   POST /funding/bank-links and the Plaid webhook.  Workers run read-committed
   transactions; the ORM writes back the rows it loaded, whatever happened to
   them in between.                                                          *)
EXTENDS Integers, FiniteSets, TLC

CONSTANTS
  Workers,
  MaxLinks,        \* bound: bank links
  MaxCrashes       \* bound: workers that die in the middle

ASSUME BankLinksAssumption ==
  IsFiniteSet(Workers) /\ MaxLinks \in Nat /\ MaxCrashes \in Nat

VARIABLES
  links,      \* bank_link rows, by plaid_item_id
  items,      \* Plaid: items handed out, and whether each wants a new login
  errors,     \* inbound_event: the items whose error was taken in
  worker,     \* what each worker is in the middle of
  crashes

linkVars == <<links, items, errors>>

Items == 1 .. MaxLinks
LinkStatuses == {"active", "requires_reauth", "superseded"}
Idle == [at |-> "idle"]

Linking ==
  [at : {"linking"}, item : Items, found : SUBSET Items] \cup [at : {"reauth"}, item : Items]

LinksTypeOK ==
  /\ DOMAIN links \subseteq Items /\ \A i \in DOMAIN links : links[i] \in LinkStatuses
  /\ DOMAIN items \subseteq Items /\ \A i \in DOMAIN items : items[i] \in BOOLEAN
  /\ errors \subseteq Items
  /\ crashes \in 0 .. MaxCrashes

LinksInit ==
  /\ links = <<>> /\ items = <<>> /\ errors = {} /\ crashes = 0
  /\ worker = [w \in Workers |-> Idle]

Become(w, activity) == worker' = [worker EXCEPT ![w] = activity]

CurrentForCustomer == {i \in DOMAIN links : links[i] # "superseded"}
ActiveForCustomer == {i \in DOMAIN links : links[i] = "active"}

\* exchange_public_token, then supersede_and_activate reads what to supersede.
ExchangePublicToken(w) ==
  /\ worker[w] = Idle
  /\ \E i \in Items \ DOMAIN items :
       /\ \A j \in Items : j < i => j \in DOMAIN items
       /\ items' = (i :> FALSE) @@ items
       /\ Become(w, [at |-> "linking", item |-> i, found |-> CurrentForCustomer])
  /\ UNCHANGED <<links, errors, crashes>>

\* The partial unique index uq_bank_link_customer_active.
OneActiveLink(rows) == Cardinality({i \in DOMAIN rows : rows[i] = "active"}) <= 1

CreateBankLink(w) ==
  /\ worker[w].at = "linking"
  /\ LET t == worker[w]
         written == [i \in DOMAIN links \cup {t.item} |->
                       IF i = t.item THEN "active"
                       ELSE IF i \in t.found THEN "superseded" ELSE links[i]]
     IN links' = IF OneActiveLink(written) THEN written ELSE links
  /\ Become(w, Idle)
  /\ UNCHANGED <<items, errors, crashes>>

\* ITEM_LOGIN_REQUIRED: the bank wants the customer to log in again.
BankWantsLogin(i) ==
  /\ ~items[i]
  /\ items' = [items EXCEPT ![i] = TRUE]
  /\ UNCHANGED <<links, errors, worker, crashes>>

\* plaid_webhook: the dedupe key of an item error is the item.  Intake commits
\* it, then apply_item_login_required begins: an unknown item is ignored, a
\* link that is not active any more is left alone.
PlaidWebhook(w) ==
  /\ worker[w] = Idle
  /\ \E i \in DOMAIN items :
       /\ items[i] /\ i \notin errors
       /\ errors' = errors \cup {i}
       /\ IF i \in ActiveForCustomer THEN Become(w, [at |-> "reauth", item |-> i])
                                     ELSE UNCHANGED worker
  /\ UNCHANGED <<links, items, crashes>>

ApplyItemLoginRequired(w) ==
  /\ worker[w].at = "reauth"
  /\ links' = [links EXCEPT ![worker[w].item] = "requires_reauth"]
  /\ Become(w, Idle)
  /\ UNCHANGED <<items, errors, crashes>>

\* A worker dies, or its transaction raises: what it had not committed is gone.
Crash(w) ==
  /\ worker[w] # Idle
  /\ crashes < MaxCrashes
  /\ crashes' = crashes + 1
  /\ Become(w, Idle)
  /\ UNCHANGED linkVars

LinksNext ==
  \/ \E w \in Workers :
       \/ ExchangePublicToken(w) \/ CreateBankLink(w)
       \/ PlaidWebhook(w) \/ ApplyItemLoginRequired(w) \/ Crash(w)
  \/ \E i \in DOMAIN items : BankWantsLogin(i)

\* current_for_customer, "the customer's not-yet-superseded link"
\* (bank_link.py:124), reads with scalar_one_or_none: a second such link makes
\* every deposit, withdrawal and link status raise.  A webhook that loaded the
\* old link before a new one replaced it writes it back.
OneCurrentLink == Cardinality(CurrentForCustomer) <= 1
=============================================================================
