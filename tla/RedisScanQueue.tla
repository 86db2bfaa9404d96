--------------------------- MODULE RedisScanQueue ---------------------------
(***************************************************************************)
(* The deep-scan queue in Redis.  Every Redis command is a step of its own *)
(* and may fail; a worker may die between two of them.  A list is written  *)
(* as a sequence that is pushed at the end and popped at the front.        *)
(***************************************************************************)
EXTENDS Integers, Sequences, FiniteSets

CONSTANTS
  DeepTask, PriorityOf,   \* the tasks and their priorities, 1 high .. 3 low
  QueueClient,
  MaxScanAttempts,            \* max_attempts of every task
  MaxFaults               \* bound on failed commands and dead workers

VARIABLES
  lists,          \* priority -> sequence of [task, attempts]
  pendingGauge,   \* priority -> the metric
  counters,       \* "completed", "dead_lettered", "retried"
  completedSet, deadLetters,
  queueCall,      \* client -> [step, task, attempts, next]
  redisSubmitted,      \* tasks already enqueued by their producer
  faults

redisVars == <<lists, pendingGauge, counters, completedSet, deadLetters, queueCall, redisSubmitted, faults>>

Unheld == [step |-> "idle", task |-> "none", attempts |-> 0]
taken_by(task, attempts, step) == [step |-> step, task |-> task, attempts |-> attempts]

RedisInit ==
  /\ lists = [p \in 1..3 |-> <<>>] /\ pendingGauge = [p \in 1..3 |-> 0]
  /\ counters = [f \in {"completed", "dead_lettered", "retried"} |-> 0]
  /\ completedSet = {} /\ deadLetters = {}
  /\ queueCall = [c \in QueueClient |-> Unheld]
  /\ redisSubmitted = {} /\ faults = 0

step_is(c, step) == queueCall[c].step = step
go(c, step) == queueCall' = [queueCall EXCEPT ![c] = IF step = "idle" THEN Unheld ELSE [@ EXCEPT !.step = step]]
queue_key(c) == PriorityOf[queueCall[c].task]
pending_metric(c) == PriorityOf[queueCall[c].task]

\* A command fails: the step is left out and the call goes on or gives up.
Fault(c, step, next) ==
  /\ step_is(c, step) /\ faults < MaxFaults /\ faults' = faults + 1 /\ go(c, next)
  /\ UNCHANGED <<lists, pendingGauge, counters, completedSet, deadLetters, redisSubmitted>>

metric_inc(c, step, field, next) ==
  /\ step_is(c, step) /\ counters' = [counters EXCEPT ![field] = @ + 1] /\ go(c, next)
  /\ UNCHANGED <<lists, pendingGauge, completedSet, deadLetters, redisSubmitted, faults>>

pending_inc(c, step, by, next) ==
  /\ step_is(c, step) /\ pendingGauge' = [pendingGauge EXCEPT ![pending_metric(c)] = @ + by] /\ go(c, next)
  /\ UNCHANGED <<lists, counters, completedSet, deadLetters, redisSubmitted, faults>>

---------------------------------------------------------------------------
(* redis_enqueue: push, then count. *)

Submit(c, t) ==
  /\ step_is(c, "idle") /\ t \notin redisSubmitted /\ redisSubmitted' = redisSubmitted \cup {t}
  /\ queueCall' = [queueCall EXCEPT ![c] = taken_by(t, 0, "lpush")]
  /\ UNCHANGED <<lists, pendingGauge, counters, completedSet, deadLetters, faults>>

PushTask(c) ==
  /\ step_is(c, "lpush") /\ go(c, "count_push")
  /\ lists' = [lists EXCEPT ![queue_key(c)] = Append(@, [task |-> queueCall[c].task, attempts |-> queueCall[c].attempts])]
  /\ UNCHANGED <<pendingGauge, counters, completedSet, deadLetters, redisSubmitted, faults>>

redis_enqueue(c) ==
  \/ PushTask(c) \/ Fault(c, "lpush", "idle")
  \/ pending_inc(c, "count_push", 1, "idle") \/ Fault(c, "count_push", "idle")

---------------------------------------------------------------------------
(* dequeue: the highest non-empty list; an expired task is dead-lettered. *)

Pop(c) ==
  \E p \in 1..3 :
    /\ step_is(c, "idle") /\ lists[p] # <<>> /\ \A q \in 1..(p - 1) : lists[q] = <<>>
    /\ queueCall' = [queueCall EXCEPT ![c] = taken_by(Head(lists[p]).task, Head(lists[p]).attempts, "count_pop")]
    /\ lists' = [lists EXCEPT ![p] = Tail(@)]
    /\ UNCHANGED <<pendingGauge, counters, completedSet, deadLetters, redisSubmitted, faults>>

popped == -1

dequeue(c) ==
  \/ Pop(c)
  \/ \E next \in {"scan", "dead"} : pending_inc(c, "count_pop", popped, next) \/ Fault(c, "count_pop", next)

after_dead_letter == "idle"

put_dead_letter(c) ==
  \/ /\ step_is(c, "dead") /\ deadLetters' = deadLetters \cup {queueCall[c].task} /\ go(c, "count_dead")
     /\ UNCHANGED <<lists, pendingGauge, counters, completedSet, redisSubmitted, faults>>
  \/ Fault(c, "dead", "idle")
  \/ metric_inc(c, "count_dead", "dead_lettered", after_dead_letter) \/ Fault(c, "count_dead", "idle")

---------------------------------------------------------------------------
(* The scan succeeds or fails. *)

complete(c) ==
  \/ /\ step_is(c, "scan") /\ completedSet' = completedSet \cup {queueCall[c].task} /\ go(c, "count_done")
     /\ UNCHANGED <<lists, pendingGauge, counters, deadLetters, redisSubmitted, faults>>
  \/ Fault(c, "scan", "idle")
  \/ metric_inc(c, "count_done", "completed", "idle") \/ Fault(c, "count_done", "idle")

exhausted(attempts) == attempts + 1 > MaxScanAttempts

retry_or_dead_letter(c) ==
  \/ /\ step_is(c, "scan")
     /\ queueCall' = [queueCall EXCEPT ![c] =
          IF exhausted(@.attempts) THEN [@ EXCEPT !.step = "dead"]
          ELSE [@ EXCEPT !.step = "count_retry", !.attempts = @ + 1]]
     /\ UNCHANGED <<lists, pendingGauge, counters, completedSet, deadLetters, redisSubmitted, faults>>
  \/ metric_inc(c, "count_retry", "retried", "lpush") \/ Fault(c, "count_retry", "idle")

WorkerDies(c) == ~step_is(c, "idle") /\ Fault(c, queueCall[c].step, "idle")

RedisNext ==
  \E c \in QueueClient :
    \/ \E t \in DeepTask : Submit(c, t)
    \/ redis_enqueue(c) \/ dequeue(c) \/ complete(c) \/ put_dead_letter(c) \/ retry_or_dead_letter(c) \/ WorkerDies(c)

---------------------------------------------------------------------------
(* Properties. *)

queued(t) ==
  {e \in (1..3) \X (1..Cardinality(DeepTask)) : e[2] \in DOMAIN lists[e[1]] /\ lists[e[1]][e[2]].task = t}
held(t) == {c \in QueueClient : queueCall[c].task = t /\ queueCall[c].step \in {"lpush", "count_pop", "scan", "dead", "count_retry"}}

\* A task is in one place at most: in a list, with one worker, completed or
\* dead-lettered, whatever commands failed; so no task is scanned twice at a
\* time or after its end.
TaskInOnePlace ==
  \A t \in DeepTask :
    Cardinality(queued(t)) + Cardinality(held(t))
      + Cardinality({t} \cap completedSet) + Cardinality({t} \cap deadLetters) <= 1

\* The gauge of pending tasks is off by at most one for each command under
\* way and for each one that failed, although pushing, popping and counting
\* are separate commands of several clients.
GaugeWithinFaults ==
  LET underway == Cardinality({c \in QueueClient : queueCall[c].step \in {"count_push", "count_pop"}})
  IN \A p \in 1..3 : pendingGauge[p] - Len(lists[p]) \in -(faults + underway)..(faults + underway)

\* A task is scanned at most MaxScanAttempts times after its first scan, and no
\* retry is lost but by a fault: every task redisSubmitted is still in one of the
\* places unless a command failed or a worker died.
RetriesBounded ==
  /\ \A c \in QueueClient : queueCall[c].attempts <= MaxScanAttempts
  /\ faults = 0 => \A t \in redisSubmitted : queued(t) # {} \/ held(t) # {} \/ t \in completedSet \cup deadLetters
=============================================================================
