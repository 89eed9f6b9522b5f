SPECIFICATION ChatSpec
CONSTANTS
  Sessions = {s1, s2}
  Tabs = {t1, t2}
  Queries <- MCQueries
  Views = {"v_holdings"}
  Functions = {"sum"}
  Cap = 1
  Window = 1
  MaxTurns = 2
  MaxCalls = 1
  MaxClock = 2
  MaxMessages = 2
  MaxFaults = 1
INVARIANTS CapHolds OneTurnPerSession AnswersAudited
PROPERTY StreamingEnds
CHECK_DEADLOCK FALSE
