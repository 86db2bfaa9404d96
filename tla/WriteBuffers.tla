---------------------------- MODULE WriteBuffers ----------------------------
(***************************************************************************)
(* The two write-behind buffers in front of the database: the telemetry    *)
(* channel with its flushing task, and the write-ahead buffer of           *)
(* capability entries that a ticker drains.  A record is its number.       *)
(***************************************************************************)
EXTENDS Integers, Sequences, FiniteSets, SequencesExt

CONSTANTS QueueCapacity, BatchSize, MaxRecords, MaxEntries

ASSUME BuffersAssumption ==
  /\ QueueCapacity \in Nat \ {0} /\ BatchSize \in Nat \ {0}
  /\ MaxRecords \in Nat /\ MaxEntries \in Nat

VARIABLES
  dropOnFull,  \* HALTCHAIN_TELEMETRY_HOT_DROP_ON_FULL
  made,        \* telemetry records made so far
  channel, waiting,        \* the bounded channel, and senders that wait for room
  pending,     \* what the flushing task holds
  telemetry,   \* rows of telemetry_hot
  closed,      \* have all senders gone?
  trail,       \* capability entries in memory, each with its agent's trajectory
  halfway,     \* entries in memory whose push to the buffer is outstanding
  wal,         \* wal_buffer
  draining,    \* what flush_to_db has drained and not inserted yet
  trajectory   \* rows of capability_trajectory

telemetryVars == <<dropOnFull, made, channel, waiting, pending, telemetry, closed>>
walVars == <<trail, halfway, wal, draining, trajectory>>
bufferVars == <<telemetryVars, walVars>>

BuffersInit ==
  /\ dropOnFull \in BOOLEAN /\ made = 0
  /\ channel = <<>> /\ waiting = <<>> /\ pending = <<>> /\ telemetry = <<>> /\ closed = FALSE
  /\ trail = {} /\ halfway = {} /\ wal = <<>> /\ draining = <<>> /\ trajectory = <<>>

BuffersTypeOK ==
  /\ Len(channel) <= QueueCapacity /\ (dropOnFull => waiting = <<>>)
  /\ Range(telemetry) \subseteq 1..made
  /\ halfway \cup Range(wal) \cup Range(draining) \cup Range(trajectory) \subseteq trail

---------------------------------------------------------------------------
(* Telemetry. *)

\* try_send; on a full channel the record is dropped or the sender waits.
enqueue ==
  /\ ~closed /\ made < MaxRecords
  /\ made' = made + 1
  /\ IF Len(channel) < QueueCapacity
     THEN channel' = Append(channel, made + 1) /\ UNCHANGED waiting
     ELSE /\ waiting' = IF dropOnFull THEN waiting ELSE Append(waiting, made + 1)
          /\ UNCHANGED channel
  /\ UNCHANGED <<dropOnFull, pending, telemetry, closed, walVars>>

\* A batch is written in one statement or, if that fails, forgotten.
flush_batch(batch) ==
  /\ telemetry' \in {telemetry \o batch, telemetry}
  /\ pending' = <<>>

\* The task receives a record; the room it leaves goes to the first waiter.
Received ==
  /\ channel # <<>>
  /\ channel' = IF waiting = <<>> THEN Tail(channel) ELSE Append(Tail(channel), Head(waiting))
  /\ waiting' = IF waiting = <<>> THEN waiting ELSE Tail(waiting)
  /\ LET batch == Append(pending, Head(channel)) IN
     IF Len(batch) >= BatchSize THEN flush_batch(batch)
     ELSE pending' = batch /\ UNCHANGED telemetry
  /\ UNCHANGED <<dropOnFull, made, closed, walVars>>

TickerFlush ==
  /\ pending # <<>>
  /\ flush_batch(pending)
  /\ UNCHANGED <<dropOnFull, made, channel, waiting, closed, walVars>>

\* The last sender goes; what is in the channel is still received.
Close ==
  /\ ~closed /\ waiting = <<>>
  /\ closed' = TRUE
  /\ UNCHANGED <<dropOnFull, made, channel, waiting, pending, telemetry, walVars>>

---------------------------------------------------------------------------
(* Capability entries. *)

\* An entry is added in memory under one lock and to the buffer under another.
push_entry(e) ==
  /\ e \notin trail
  /\ trail' = trail \cup {e} /\ halfway' = halfway \cup {e}
  /\ UNCHANGED <<telemetryVars, wal, draining, trajectory>>

push_wal(e) ==
  /\ e \in halfway
  /\ halfway' = halfway \ {e} /\ wal' = Append(wal, e)
  /\ UNCHANGED <<telemetryVars, trail, draining, trajectory>>

drain_wal == draining' = wal /\ wal' = <<>>

flush_to_db ==
  /\ draining = <<>> /\ wal # <<>>
  /\ drain_wal
  /\ UNCHANGED <<telemetryVars, trail, halfway, trajectory>>

\* The rows are inserted one by one; the first failure drops the rest.
insert_capability_trajectory_batch ==
  /\ draining # <<>>
  /\ \/ /\ trajectory' = Append(trajectory, Head(draining))
        /\ draining' = Tail(draining)
     \/ draining' = <<>> /\ UNCHANGED trajectory
  /\ UNCHANGED <<telemetryVars, trail, halfway, wal>>

BuffersNext ==
  \/ enqueue \/ Received \/ TickerFlush \/ Close
  \/ \E e \in 1..MaxEntries : push_entry(e) \/ push_wal(e)
  \/ flush_to_db \/ insert_capability_trajectory_batch

BuffersSpec == BuffersInit /\ [][BuffersNext]_bufferVars

---------------------------------------------------------------------------
(* Properties. *)

\* The flushing task never holds a full batch while it waits: a database
\* that is down costs records, not memory.
PendingBelowBatch == Len(pending) < BatchSize

\* Telemetry rows appear in the order in which the records were made, and
\* none twice, whatever flushes fail.
TelemetryInOrder == \A i, j \in DOMAIN telemetry : i < j => telemetry[i] < telemetry[j]

\* A capability entry reaches the table at most once, also when a flush
\* fails in the middle and later flushes follow.
EntriesAtMostOnce == IsInjective(trajectory)
=============================================================================
