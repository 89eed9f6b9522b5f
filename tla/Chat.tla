-------------------------------- MODULE Chat --------------------------------
(***************************************************************************)
(* The account assistant, for one customer with several sessions open in   *)
(* several tabs.  A request admits a turn in one short transaction under   *)
(* the customer's advisory lock, then streams the answer of an agent that  *)
(* runs in a thread of its own and calls read-only SQL tools; the session  *)
(* is marked streaming from the first to the end of the second.            *)
(***************************************************************************)
EXTENDS Naturals, Sequences, FiniteSets

CONSTANTS Sessions, Tabs,
          Queries,      \* what the model may ask: a parsed SQL text
          Views,        \* CURATED_VIEW_NAMES
          Functions,    \* _ALLOWED_FUNCTIONS
          Cap,          \* chat_daily_query_cap
          Window,       \* the trailing 24 hours
          MaxTurns,     \* chat_max_tool_iterations: requests to the model for one answer
          MaxCalls,     \* bound on the tool calls for one answer
          MaxClock,     \* bound on time
          MaxMessages,  \* bound on the turns
          MaxFaults     \* bound on crashes, lost clients and failed writes

ASSUME ChatAssumption ==
    /\ {Cap, Window, MaxTurns, MaxCalls, MaxClock, MaxMessages, MaxFaults} \subseteq Nat
    /\ \A q \in Queries : DOMAIN q = {"statements", "select", "relations", "ctes", "functions"}

VARIABLES clock,
          status,    \* chat_session.status; absent until it is created
          messages,  \* chat_message, one element for a turn's two rows
          turn,      \* the request each tab has in flight
          thread,     \* the agent thread of each turn
          lost,      \* sessions whose turn ended without end_turn
          faults

chatVars == <<clock, status, messages, turn, thread, lost, faults>>

NoTurn == [at |-> "none"]
\* An agent's run: the requests to the model, its tool calls, their audit rows
\* (chat_tool_call), the results the tools returned and those sent to the model.
NoAgent == [at |-> "none", turns |-> 1, calls |-> 0, rows |-> {}, returned |-> {}, told |-> {}]
InFlight == {"begun", "streaming", "closing"}
Outcomes == {"success", "validator_rejected", "timeout", "error"}

ChatInit ==
    /\ clock = 0
    /\ status = [s \in Sessions |-> "absent"]
    /\ messages = <<>>
    /\ turn = [t \in Tabs |-> NoTurn]
    /\ thread = <<>>
    /\ lost = {}
    /\ faults = 0

Tick ==
    /\ clock < MaxClock
    /\ clock' = clock + 1
    /\ UNCHANGED <<status, messages, turn, thread, lost, faults>>

CreateSession(s) ==
    /\ status[s] = "absent"
    /\ status' = [status EXCEPT ![s] = "idle"]
    /\ UNCHANGED <<clock, messages, turn, thread, lost, faults>>

-----------------------------------------------------------------------------
(* ChatOrchestrationService.begin_turn.                                    *)

\* pg_advisory_xact_lock(customer): held until the transaction ends.
LockIgnored(t) == TRUE
LockFree(t) == \A u \in Tabs \ {t} : turn[u].at # "admitted"

\* count_for_customer_since: the user rows of the trailing window.
Recent == {m \in DOMAIN messages : messages[m].created + Window >= clock}

\* created_at is the time the transaction began, before it waited for the lock.
SendMessage(t, s) ==
    /\ turn[t].at = "none"
    /\ status[s] # "absent"
    /\ turn' = [turn EXCEPT ![t] = [at |-> "waiting", session |-> s, created |-> clock]]
    /\ UNCHANGED <<clock, status, messages, thread, lost, faults>>

\* Under the lock: the cap, or DailyQueryCapExceededError.
Admit(t) ==
    /\ turn[t].at = "waiting"
    /\ LockFree(t)
    /\ turn' = [turn EXCEPT ![t] =
                  IF Cardinality(Recent) >= Cap THEN NoTurn ELSE [@ EXCEPT !.at = "admitted"]]
    /\ UNCHANGED <<clock, status, messages, thread, lost, faults>>

\* try_begin_turn: the conditional update that a second turn of the session loses.
AlwaysBegins(s) == TRUE
TryBeginTurn(s) == status[s] = "idle"

BeginTurn(t) ==
    LET s == turn[t].session
    IN  /\ turn[t].at = "admitted"
        /\ Len(messages) < MaxMessages
        /\ IF TryBeginTurn(s)
           THEN /\ status' = [status EXCEPT ![s] = "streaming"]
                /\ messages' = Append(messages,
                                 [session |-> s, created |-> turn[t].created, final |-> FALSE])
                /\ thread' = Append(thread, NoAgent)
                /\ turn' = [turn EXCEPT ![t] = [at |-> "begun", session |-> s,
                                                message |-> Len(messages) + 1]]
           ELSE /\ turn' = [turn EXCEPT ![t] = NoTurn]
                /\ UNCHANGED <<status, messages, thread>>
        /\ UNCHANGED <<clock, lost, faults>>

-----------------------------------------------------------------------------
(* The agent thread (OpenAIAgentAdapter) and its tools.                    *)

Agent(m, next) ==
    /\ thread' = [thread EXCEPT ![m] = next]
    /\ UNCHANGED <<clock, status, messages, turn, lost>>

\* validate_query: one statement, a SELECT, over curated views and the query's
\* own CTEs, that calls no other function.
ValidateQuery(q) ==
    /\ q.statements = 1
    /\ q.select
    /\ q.relations \ q.ctes \subseteq Views
    /\ q.functions \subseteq Functions

\* ReadOnlySqlExecutor.execute: only a validated query reaches the database.
Execute(q) ==
    IF ValidateQuery(q) THEN {"success", "timeout", "error"} ELSE {"validator_rejected"}

\* One answer of the model may ask for several tools, run one after the other.
Calls(m, next) ==
    /\ thread[m].at \in {"thinking", "tools"}
    /\ thread[m].calls < MaxCalls
    /\ Agent(m, [thread[m] EXCEPT !.at = next, !.calls = @ + 1])

\* The execute_read_only_sql tool: an outcome of its own for every failure.
RunTool(m) ==
    /\ \E q \in Queries : \E outcome \in Execute(q) : Calls(m, outcome)
    /\ UNCHANGED faults

\* The get_database_schema tool.  Its failure raises inside the tool: the model
\* is told of an error, and no row is written.
DescribeSchema(m) ==
    \/ Calls(m, "success") /\ UNCHANGED faults
    \/ /\ faults < MaxFaults
       /\ faults' = faults + 1
       /\ Calls(m, "tools")

\* on_tool_call: the call's row, committed in a transaction of its own.  A failed
\* write, or a commit whose answer is lost, raises inside the tool: the model is
\* told of an error.
RecordToolCall(m, next) ==
    LET rows == thread[m].rows \cup {thread[m].calls}
    IN  \/ Agent(m, [thread[m] EXCEPT !.at = next, !.rows = rows]) /\ UNCHANGED faults
        \/ /\ faults < MaxFaults
           /\ faults' = faults + 1
           /\ \E kept \in {thread[m].rows, rows} :
                 Agent(m, [thread[m] EXCEPT !.at = "tools", !.rows = kept])

ReturnResult(m, next) ==
    /\ Agent(m, [thread[m] EXCEPT !.at = next, !.returned = @ \cup {thread[m].calls}])
    /\ UNCHANGED faults

TellThenAudit(m) ==
    \/ thread[m].at \in Outcomes /\ ReturnResult(m, "recorded")
    \/ thread[m].at = "recorded" /\ RecordToolCall(m, "tools")

\* Both tools record the call, then return its result to the agent's runner.
AuditThenTell(m) ==
    \/ thread[m].at \in Outcomes /\ RecordToolCall(m, "recorded")
    \/ thread[m].at = "recorded" /\ ReturnResult(m, "tools")

\* The next request to the model, with the results of the tools it asked for.
NextTurn(m) ==
    /\ thread[m].at = "tools"
    /\ thread[m].turns < MaxTurns
    /\ Agent(m, [thread[m] EXCEPT !.at = "thinking", !.turns = @ + 1,
                                  !.told = @ \cup thread[m].returned, !.returned = {}])
    /\ UNCHANGED faults

\* The terminal event: completed, or an error (provider failure, MaxTurnsExceeded).
AgentEnds(m) ==
    /\ thread[m].at \in {"thinking", "tools"}
    /\ Agent(m, [thread[m] EXCEPT !.at = "ended"])
    /\ UNCHANGED faults

-----------------------------------------------------------------------------
(* ChatOrchestrationService.stream_turn.                                   *)

StartStream(t) ==
    /\ turn[t].at = "begun"
    /\ turn' = [turn EXCEPT ![t].at = "streaming"]
    /\ thread' = [thread EXCEPT ![turn[t].message].at = "thinking"]
    /\ UNCHANGED <<clock, status, messages, lost, faults>>

\* chat_message_single_finalize: an answer that has content takes no other.
Finalizable(m) == ~messages[m].final

\* The terminal event arrives: the empty answer is finalized, once.
Finalize(t) ==
    /\ turn[t].at = "streaming"
    /\ thread[turn[t].message].at = "ended"
    /\ Finalizable(turn[t].message)
    /\ messages' = [messages EXCEPT ![turn[t].message].final = TRUE]
    /\ turn' = [turn EXCEPT ![t].at = "closing"]
    /\ UNCHANGED <<clock, status, thread, lost, faults>>

\* The client goes away, or finalizing fails: the generator unwinds; the agent
\* thread is not stopped, and is only joined after the release below.
Disconnect(t) ==
    /\ turn[t].at = "streaming"
    /\ faults < MaxFaults
    /\ faults' = faults + 1
    /\ turn' = [turn EXCEPT ![t].at = "closing"]
    /\ UNCHANGED <<clock, status, messages, thread, lost>>

ReleaseIfFinal(t) ==
    /\ turn[t].at = "closing"
    /\ status' = IF messages[turn[t].message].final
                 THEN [status EXCEPT ![turn[t].session] = "idle"] ELSE status
    /\ turn' = [turn EXCEPT ![t] = NoTurn]
    /\ UNCHANGED <<clock, messages, thread, lost, faults>>

\* finally: end_turn, unconditionally.
Release(t) ==
    /\ turn[t].at = "closing"
    /\ status' = [status EXCEPT ![turn[t].session] = "idle"]
    /\ turn' = [turn EXCEPT ![t] = NoTurn]
    /\ UNCHANGED <<clock, messages, thread, lost, faults>>

\* The process dies, the release fails, or the client is gone before the first
\* chunk, when closing the generator runs no finally.
Vanish(t) ==
    /\ turn[t].at # "none"
    /\ faults < MaxFaults
    /\ faults' = faults + 1
    /\ turn' = [turn EXCEPT ![t] = NoTurn]
    /\ lost' = IF turn[t].at \in InFlight THEN lost \cup {turn[t].session} ELSE lost
    /\ thread' = IF turn[t].at \in {"streaming", "closing"}
                THEN [thread EXCEPT ![turn[t].message].at = "dead"] ELSE thread
    /\ UNCHANGED <<clock, status, messages>>

-----------------------------------------------------------------------------
TurnStep(t) == Admit(t) \/ BeginTurn(t) \/ StartStream(t) \/ Finalize(t) \/ Release(t)
AgentStep(m) ==
    RunTool(m) \/ DescribeSchema(m) \/ AuditThenTell(m) \/ NextTurn(m) \/ AgentEnds(m)

ChatNext ==
    \/ Tick
    \/ \E s \in Sessions : CreateSession(s)
    \/ \E t \in Tabs, s \in Sessions : SendMessage(t, s)
    \/ \E t \in Tabs : TurnStep(t) \/ Disconnect(t) \/ Vanish(t)
    \/ \E m \in DOMAIN thread : AgentStep(m)

\* Handlers and agent threads run; a provider call ends or times out.
Fairness ==
    /\ \A t \in Tabs : WF_chatVars(TurnStep(t))
    /\ \A m \in 1 .. MaxMessages : WF_chatVars(m \in DOMAIN thread /\ AgentStep(m))

ChatSpec == ChatInit /\ [][ChatNext]_chatVars /\ Fairness

-----------------------------------------------------------------------------
(* Properties.                                                             *)

\* Turns begun in different tabs and sessions at once never exceed the cap of
\* the trailing day.  (chat_usage_limiter.py check under begin_turn's lock)
CapHolds == Cardinality(Recent) <= Cap

\* A session answers one message at a time, whatever tabs, disconnections and
\* unconditional releases interleave.  (chat_session.py try_begin_turn, end_turn)
OneTurnPerSession ==
    \A s \in Sessions :
        Cardinality({t \in Tabs : turn[t].at \in InFlight /\ turn[t].session = s}) <= 1

\* Every result a request to the model carries is of a call whose audit row was
\* committed, though the write may fail, its answer may be lost, and the process
\* may die between the row, the tool's return and the request.
\* (chat_audit_service.py record_tool_call, openai_agent_adapter.py tools)
AnswersAudited == \A m \in DOMAIN thread : thread[m].told \subseteq thread[m].rows

\* A session that is streaming becomes idle again, unless its turn vanished.
\* (chat_orchestration_service.py stream_turn's finally)
StreamingEnds ==
    \A s \in Sessions : status[s] = "streaming" ~> (status[s] = "idle" \/ s \in lost)

\* end_turn is "called in a finally so errors still release the lock".
\* Refuted: a vanished turn leaves the session streaming, and nothing resets it.
LockReleased == \A s \in Sessions : status[s] = "streaming" ~> status[s] = "idle"

\* "reject a second concurrent turn on the same session".  Refuted: after a
\* disconnection the session is idle while its agent thread still runs.
OneAgentPerSession ==
    \A s \in Sessions :
        Cardinality({m \in DOMAIN thread : messages[m].session = s
                       /\ thread[m].at \in Outcomes \cup {"thinking", "tools", "recorded"}}) <= 1
=============================================================================
