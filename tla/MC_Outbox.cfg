SPECIFICATION LiveSpec
CONSTANTS
  e1 = e1
  n1 = n1
  t1 = t1
  w1 = w1
  w2 = w2
  TradeEvents = {e1}
  NoopEvents = {}
  Tasks = {t1}
  Workers = {w1, w2}
  WorkerIds = {"outbox-worker-1"}
  WorkerId <- MCWorkerId
  NoId = NoId
  NoJob = NoJob
  MaxAttempts = 3
  MaxCrashes = 2
INVARIANTS
  ClaimExclusive
  CompletedWasApplied
PROPERTY
  OutcomeIsFinal
  ImplementsQueue
  EventSettlesOrOrphaned
