----------------------------- MODULE WorkQueue -----------------------------
(* What the transactional outbox promises, without its tables, transactions
   or wake-ups: a submitted job is handled by at most one worker at a time, is
   handled at most MaxAttempts times, and ends once, as done or as dead.
   A holder that dies takes its job with it: the job is then lost, held by
   nobody and not waiting for anybody.                                      *)
EXTENDS Naturals

CONSTANTS
  Jobs,         \* the units of work
  Workers,      \* the processes that handle them
  MaxAttempts   \* how often one job is handled before it is given up

VARIABLES
  phase,        \* job -> where it is
  holders,      \* job -> the workers handling it
  tries         \* job -> how often it was taken

vars == <<phase, holders, tries>>

Phases == {"absent", "waiting", "taken", "done", "dead"}

Init ==
  /\ phase = [j \in Jobs |-> "absent"]
  /\ holders = [j \in Jobs |-> {}]
  /\ tries = [j \in Jobs |-> 0]

Submit(j) ==
  /\ phase[j] = "absent"
  /\ phase' = [phase EXCEPT ![j] = "waiting"]
  /\ UNCHANGED <<holders, tries>>

Take(w, j) ==
  /\ phase[j] = "waiting"
  /\ holders[j] = {}
  /\ tries[j] < MaxAttempts
  /\ phase' = [phase EXCEPT ![j] = "taken"]
  /\ holders' = [holders EXCEPT ![j] = {w}]
  /\ tries' = [tries EXCEPT ![j] = tries[j] + 1]

Leave(w, j, next) ==
  /\ phase[j] = "taken"
  /\ holders[j] = {w}
  /\ phase' = [phase EXCEPT ![j] = next]
  /\ holders' = [holders EXCEPT ![j] = {}]
  /\ UNCHANGED tries

Finish(w, j) == Leave(w, j, "done")

Return(w, j) == tries[j] < MaxAttempts /\ Leave(w, j, "waiting")

GiveUp(w, j) == tries[j] = MaxAttempts /\ Leave(w, j, "dead")

Lose(w, j) == Leave(w, j, "taken")

Next ==
  \/ \E j \in Jobs : Submit(j)
  \/ \E w \in Workers, j \in Jobs :
       Take(w, j) \/ Finish(w, j) \/ Return(w, j) \/ GiveUp(w, j) \/ Lose(w, j)

Spec == Init /\ [][Next]_vars
=============================================================================
