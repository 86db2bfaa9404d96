------------------------------ MODULE ScanQueue ------------------------------
(***************************************************************************)
(* The queue of deferred deep scans (TokioChannelQueue, crates/queue) with *)
(* the request that enqueues a scan (validate_inner) and the worker that   *)
(* runs it (spawn_scan_worker).  There is a bounded channel per priority;  *)
(* a sender counts itself as pending before it waits for room, and a       *)
(* receiver stops counting after it has taken the task out.                *)
(***************************************************************************)
EXTENDS Naturals, Sequences, FiniteSets, Functions

CONSTANTS
  Task, Worker,
  Priority,     \* Priority[t]: 1 is High, 2 Normal, 3 Low
  HasTtl,       \* the tasks with an expiry time
  Cap,          \* capacity of each channel, 1024 in the server
  MaxAttempts,  \* max_attempts of a task, 3 by default
  NoTask

Level == 1..3

ASSUME ScanAssumption ==
  /\ IsFiniteSet(Task)
  /\ Priority \in [Task -> Level]
  /\ HasTtl \subseteq Task
  /\ Cap \in Nat \ {0} /\ MaxAttempts \in Nat \ {0}
  /\ NoTask \notin Task

VARIABLES
  waiting,      \* tasks whose sender waits for room in the channel
  channel,      \* the three channels
  pending,      \* the three pending counters
  worker,       \* what each worker is doing, with which task
  attempts,     \* attempts of each task
  expired,      \* tasks whose expiry time has passed
  completed,    \* results, by task
  deadLetter,   \* dead letters, by task
  known,        \* tasks that enqueue has been called with
  dropped,      \* history: tasks whose sender was cancelled
  handed        \* history: how often each task was handed to a worker

scanVars == <<waiting, channel, pending, worker, attempts, expired, completed, deadLetter,
              known, dropped, handed>>

IdleWorker == [pc |-> "idle", task |-> NoTask]

\* ScanTypeOK: in particular no channel of TokioChannelQueue is over its
\* capacity and no task is tried more often than max_attempts allows.
ScanTypeOK ==
  /\ waiting \subseteq Task /\ known \subseteq Task /\ dropped \subseteq Task
  /\ channel \in [Level -> Seq(Task)]
  /\ \A l \in Level : Len(channel[l]) <= Cap
  /\ pending \in [Level -> Nat]
  /\ worker \in [Worker -> [pc : {"idle", "taken", "scan"}, task : Task \cup {NoTask}]]
  /\ attempts \in [Task -> 0..MaxAttempts]
  /\ expired \subseteq HasTtl
  /\ completed \subseteq Task /\ deadLetter \subseteq Task
  /\ handed \in [Task -> Nat]

ScanInit ==
  /\ waiting = {} /\ known = {} /\ dropped = {}
  /\ channel = [l \in Level |-> <<>>]
  /\ pending = [l \in Level |-> 0]
  /\ worker = [w \in Worker |-> IdleWorker]
  /\ attempts = [t \in Task |-> 0]
  /\ expired = {} /\ completed = {} /\ deadLetter = {}
  /\ handed = [t \in Task |-> 0]

-----------------------------------------------------------------------------
(* enqueue: count, then wait for room. *)

begin_enqueue(t) ==
  /\ pending' = [pending EXCEPT ![Priority[t]] = @ + 1]
  /\ waiting' = waiting \cup {t}

\* A request defers a deep scan.
Enqueue(t) ==
  /\ t \notin known
  /\ known' = known \cup {t}
  /\ begin_enqueue(t)
  /\ UNCHANGED <<channel, worker, attempts, expired, completed, deadLetter, dropped, handed>>

Send(t) ==
  /\ t \in waiting
  /\ Len(channel[Priority[t]]) < Cap
  /\ waiting' = waiting \ {t}
  /\ channel' = [channel EXCEPT ![Priority[t]] = Append(@, t)]
  /\ UNCHANGED <<pending, worker, attempts, expired, completed, deadLetter, known, dropped,
                 handed>>

\* The client of the request disconnects while its handler waits for room:
\* the future is dropped, and the pending counter keeps the task.
CancelEnqueue(t) ==
  /\ t \in waiting /\ attempts[t] = 0
  /\ waiting' = waiting \ {t}
  /\ dropped' = dropped \cup {t}
  /\ UNCHANGED <<channel, pending, worker, attempts, expired, completed, deadLetter, known,
                 handed>>

Expire(t) ==
  /\ t \in (known \cap HasTtl) \ expired
  /\ expired' = expired \cup {t}
  /\ UNCHANGED <<waiting, channel, pending, worker, attempts, completed, deadLetter, known,
                 dropped, handed>>

-----------------------------------------------------------------------------
(* dequeue, as the worker calls it in a loop. *)

\* The biased select: the first channel, by priority, that has a task.
Receive(w) ==
  /\ worker[w].pc = "idle"
  /\ \E l \in Level :
       /\ channel[l] # <<>>
       /\ \A h \in 1..(l - 1) : channel[h] = <<>>
       /\ worker' = [worker EXCEPT ![w] = [pc |-> "taken", task |-> Head(channel[l])]]
       /\ channel' = [channel EXCEPT ![l] = Tail(@)]
  /\ UNCHANGED <<waiting, pending, attempts, expired, completed, deadLetter, known, dropped,
                 handed>>

decrement_pending(t) ==
  pending' = [pending EXCEPT ![Priority[t]] = IF @ = 0 THEN 0 ELSE @ - 1]

MutForgetExpired(w) ==
  /\ worker[w].pc = "taken"
  /\ decrement_pending(worker[w].task)
  /\ \/ /\ worker[w].task \in expired
        /\ worker' = [worker EXCEPT ![w] = IdleWorker]
        /\ UNCHANGED handed
     \/ /\ worker[w].task \notin expired
        /\ worker' = [worker EXCEPT ![w].pc = "scan"]
        /\ handed' = [handed EXCEPT ![worker[w].task] = @ + 1]
  /\ UNCHANGED <<waiting, channel, attempts, expired, completed, deadLetter, known, dropped>>

\* An expired task goes to the dead letters and the loop of dequeue goes on.
Taken(w) ==
  /\ worker[w].pc = "taken"
  /\ decrement_pending(worker[w].task)
  /\ \/ /\ worker[w].task \in expired
        /\ deadLetter' = deadLetter \cup {worker[w].task}
        /\ worker' = [worker EXCEPT ![w] = IdleWorker]
        /\ UNCHANGED handed
     \/ /\ worker[w].task \notin expired
        /\ worker' = [worker EXCEPT ![w].pc = "scan"]
        /\ handed' = [handed EXCEPT ![worker[w].task] = @ + 1]
        /\ UNCHANGED deadLetter
  /\ UNCHANGED <<waiting, channel, attempts, expired, completed, known, dropped>>

\* The scan is done: complete.
Complete(w) ==
  /\ worker[w].pc = "scan"
  /\ completed' = completed \cup {worker[w].task}
  /\ worker' = [worker EXCEPT ![w] = IdleWorker]
  /\ UNCHANGED <<waiting, channel, pending, attempts, expired, deadLetter, known, dropped,
                 handed>>

MutRetryAfterDeath(t) ==
  /\ begin_enqueue(t)
  /\ IF attempts[t] + 1 > MaxAttempts
       THEN deadLetter' = deadLetter \cup {t} /\ UNCHANGED attempts
       ELSE attempts' = [attempts EXCEPT ![t] = @ + 1] /\ UNCHANGED deadLetter

MutRetryUncounted(t) ==
  \/ /\ attempts[t] + 1 > MaxAttempts
     /\ deadLetter' = deadLetter \cup {t}
     /\ UNCHANGED <<attempts, waiting, pending>>
  \/ /\ attempts[t] + 1 <= MaxAttempts
     /\ attempts' = [attempts EXCEPT ![t] = @ + 1]
     /\ waiting' = waiting \cup {t}
     /\ UNCHANGED <<deadLetter, pending>>

retry_or_dead_letter(t) ==
  \/ /\ attempts[t] + 1 > MaxAttempts
     /\ deadLetter' = deadLetter \cup {t}
     /\ UNCHANGED <<attempts, waiting, pending>>
  \/ /\ attempts[t] + 1 <= MaxAttempts
     /\ attempts' = [attempts EXCEPT ![t] = @ + 1]
     /\ begin_enqueue(t)
     /\ UNCHANGED deadLetter

\* The scan failed, and a task of its own hands it to retry_or_dead_letter.
Retry(w) ==
  /\ worker[w].pc = "scan"
  /\ retry_or_dead_letter(worker[w].task)
  /\ worker' = [worker EXCEPT ![w] = IdleWorker]
  /\ UNCHANGED <<channel, expired, completed, known, dropped, handed>>

-----------------------------------------------------------------------------
WorkerStep(w) == Receive(w) \/ Taken(w) \/ Complete(w) \/ Retry(w)

ScanNext ==
  \/ \E t \in Task : Enqueue(t) \/ Send(t) \/ CancelEnqueue(t) \/ Expire(t)
  \/ \E w \in Worker : WorkerStep(w)

\* Senders and workers are tasks of the runtime, which polls them when ready.
ScanFairness ==
  /\ \A w \in Worker : WF_scanVars(WorkerStep(w))
  /\ \A t \in Task : WF_scanVars(Send(t))

ScanSpec == ScanInit /\ [][ScanNext]_scanVars /\ ScanFairness

-----------------------------------------------------------------------------
(***************************************************************************)
(* The pending counters are exact up to cancelled senders: each counts the *)
(* tasks of its priority that wait for room, are in the channel, or have   *)
(* been taken out and not yet discounted, and one more for every sender    *)
(* that was cancelled; the saturating decrement never hides a miscount     *)
(* (enqueue, dequeue, decrement_pending).                                  *)
(***************************************************************************)
PendingExact ==
  \A l \in Level :
    pending[l] = Cardinality({t \in Task : Priority[t] = l /\
                   \/ t \in waiting \cup Range(channel[l]) \cup dropped
                   \/ \E w \in Worker : worker[w] = [pc |-> "taken", task |-> t]})

(***************************************************************************)
(* A scan is settled once, after at most max_attempts + 1 scans: a task    *)
(* with a result or a dead letter is not also queued, held by a worker or  *)
(* settled the other way, however often it was retried (dequeue, complete, *)
(* retry_or_dead_letter).                                                  *)
(***************************************************************************)
SettledOnce ==
  /\ \A t \in Task : handed[t] <= MaxAttempts + 1
  /\ \A t \in completed \cup deadLetter :
       /\ t \notin completed \cap deadLetter
       /\ t \notin waiting /\ t \notin Range(channel[Priority[t]])
       /\ \A w \in Worker : worker[w].task # t

(***************************************************************************)
(* With fair workers and senders, a deferred scan gets a result or a dead  *)
(* letter, unless its request was cancelled: the identifier that the       *)
(* client of a deferred ALLOW polls (deferred_scan_id) does not stay       *)
(* pending, although channels fill up, scans fail and high priorities go   *)
(* first.                                                                  *)
(***************************************************************************)
EveryScanSettles ==
  ScanFairness => \A t \in Task : t \in known ~> t \in completed \cup deadLetter \cup dropped
=============================================================================
