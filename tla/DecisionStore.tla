---------------------------- MODULE DecisionStore ----------------------------
(***************************************************************************)
(* How a decision reaches the database.  Every validation spawns a task    *)
(* that inserts the decision, with its drift report if there is one, and   *)
(* then the telemetry, the embedding and the drift counter.  On Postgres   *)
(* the row is chained to the tip of its tenant's rows in a serializable    *)
(* transaction that is retried when a concurrent one wins; on SQLite it is *)
(* a plain insert.                                                         *)
(*                                                                         *)
(* A hash is a constructor: the hash of a row is the pair of the previous  *)
(* hash and the decision.                                                  *)
(***************************************************************************)
EXTENDS Integers, Sequences, FiniteSets, FiniteSetsExt

CONSTANTS Dec, OrgOf, DefaultOrg, NoOrg, Drifting, Genesis, MaxAttempts

ASSUME DecisionAssumption ==
  /\ Drifting \subseteq Dec /\ MaxAttempts \in Nat \ {0}
  /\ DOMAIN OrgOf = Dec /\ DefaultOrg # NoOrg

VARIABLES
  backend,    \* "postgres" or "sqlite"
  strict,     \* HALTCHAIN_REQUIRE_TENANT_ORG
  rows,       \* committed rows of the decisions table
  driftLog,   \* decisions with a row in the drift log
  nextRow,    \* the sequence behind the row ids
  job,        \* the spawned task of each decision
  extras      \* decisions with a row in telemetry, embeddings and counters

decisionVars == <<backend, strict, rows, driftLog, nextRow, job, extras>>

Extra == {"telemetry", "embedding", "counter"}
Job(at) == [at |-> at, tries |-> 0, tip |-> Genesis, seen |-> 0]

DecisionInit ==
  /\ backend \in {"postgres", "sqlite"} /\ strict \in BOOLEAN
  /\ backend = "sqlite" => ~strict
  /\ rows = {} /\ driftLog = {} /\ nextRow = 1
  /\ job = [d \in Dec |-> Job("none")]
  /\ extras = [x \in Extra |-> {}]

DecisionTypeOK ==
  /\ driftLog \subseteq Drifting
  /\ \A r \in rows : r.dec \in Dec /\ r.id \in 1..(nextRow - 1)
  /\ \A d \in Dec : job[d].tries \in 0..MaxAttempts
  /\ extras \in [Extra -> SUBSET Dec]

goes_to(d, at) == job' = [job EXCEPT ![d].at = at]

\* validate() answers and leaves the rest to a task.
validate(d) ==
  /\ job[d].at = "none"
  /\ goes_to(d, "begin")
  /\ UNCHANGED <<backend, strict, rows, driftLog, nextRow, extras>>

---------------------------------------------------------------------------
(* Postgres. *)

ensure_write_org_id(d) == ~(strict /\ OrgOf[d] = NoOrg)
normalize_write_org_id(d) == IF OrgOf[d] = NoOrg THEN DefaultOrg ELSE OrgOf[d]

\* Row-level security shows a transaction the rows of its own tenant.
visible(d) == {r \in rows : r.org = normalize_write_org_id(d)}
tip_of(d) ==
  IF visible(d) = {} THEN Genesis
  ELSE (CHOOSE r \in visible(d) : \A q \in visible(d) : q.id <= r.id).hash

\* The transaction begins and reads the tip of the chain.
read_tip(d) ==
  /\ backend = "postgres" /\ job[d].at = "begin"
  /\ ensure_write_org_id(d)
  /\ job' = [job EXCEPT ![d] = [at |-> "insert", tries |-> @.tries + 1, tip |-> tip_of(d), seen |-> Cardinality(visible(d))]]
  /\ UNCHANGED <<backend, strict, rows, driftLog, nextRow, extras>>

content_hash(d, prev) == <<prev, d>>

\* The row takes its id from the sequence when it is inserted, not when the
\* transaction commits.
insert_decision_once(d) ==
  /\ backend = "postgres" /\ job[d].at = "insert"
  /\ nextRow' = nextRow + 1
  /\ job' = [job EXCEPT ![d].at = "commit", ![d].seen = <<@, nextRow>>]
  /\ UNCHANGED <<backend, strict, rows, driftLog, extras>>

committed_row(d) ==
  [dec |-> d, id |-> job[d].seen[2], org |-> normalize_write_org_id(d),
   prev |-> job[d].tip, hash |-> content_hash(d, job[d].tip)]

MutReadCommitted(d) == TRUE

\* Postgres lets a serializable transaction commit only if no transaction
\* committed rows it would have read.
serializable(d) == job[d].seen[1] = Cardinality(visible(d))

\* The connection may be lost after the commit took effect.
commit(d) ==
  /\ backend = "postgres" /\ job[d].at = "commit" /\ serializable(d)
  /\ rows' = rows \cup {committed_row(d)}
  /\ driftLog' = IF d \in Drifting THEN driftLog \cup {d} ELSE driftLog
  /\ \E at \in {"telemetry", "unknown"} : goes_to(d, at)
  /\ UNCHANGED <<backend, strict, nextRow, extras>>

is_serialization_failure(d) ==
  job[d].at = "commit" /\ ~serializable(d) /\ job[d].tries < MaxAttempts

\* A serialization failure is retried from the beginning, up to the limit.
insert_decision(d) ==
  /\ backend = "postgres" /\ job[d].at \in {"commit", "unknown"}
  /\ is_serialization_failure(d)
  /\ goes_to(d, "begin")
  /\ UNCHANGED <<backend, strict, rows, driftLog, nextRow, extras>>

\* Any other error, a missing tenant and the last attempt give up.
persist_failed(d) ==
  /\ \/ job[d].at \in {"begin", "insert", "unknown"}
     \/ job[d].at = "commit" /\ job[d].tries = MaxAttempts
  /\ goes_to(d, "lost")
  /\ UNCHANGED <<backend, strict, rows, driftLog, nextRow, extras>>

---------------------------------------------------------------------------
(* SQLite: one statement, or two in one transaction. *)

sqlite_insert_decision(d) == rows' = rows \cup {[dec |-> d, id |-> nextRow, org |-> DefaultOrg]}

sqlite_insert_decision_with_drift(d) == sqlite_insert_decision(d) /\ driftLog' = driftLog \cup {d}

sqlite_persist(d) ==
  /\ backend = "sqlite" /\ job[d].at = "begin"
  /\ IF d \in Drifting THEN sqlite_insert_decision_with_drift(d)
     ELSE sqlite_insert_decision(d) /\ UNCHANGED driftLog
  /\ nextRow' = nextRow + 1
  /\ goes_to(d, "done")
  /\ UNCHANGED <<backend, strict, extras>>

---------------------------------------------------------------------------
(* What follows on Postgres: each write may fail, and the next is tried. *)

writes(d, x, next) ==
  /\ extras' \in {extras, [extras EXCEPT ![x] = @ \cup {d}]}
  /\ goes_to(d, next)
  /\ UNCHANGED <<backend, strict, rows, driftLog, nextRow>>

insert_telemetry_hot(d) == job[d].at = "telemetry" /\ writes(d, "telemetry", "embedding")

\* Tried again without the column that old schemas lack.
insert_action_embedding(d) == job[d].at = "embedding" /\ writes(d, "embedding", "counter")

upsert_drift_counter(d) ==
  /\ job[d].at = "counter"
  /\ IF d \in Drifting THEN writes(d, "counter", "done")
     ELSE goes_to(d, "done") /\ UNCHANGED <<backend, strict, rows, driftLog, nextRow, extras>>

DecisionNext ==
  \E d \in Dec :
    \/ validate(d)
    \/ read_tip(d) \/ insert_decision_once(d) \/ commit(d) \/ insert_decision(d)
    \/ persist_failed(d)
    \/ sqlite_persist(d)
    \/ insert_telemetry_hot(d) \/ insert_action_embedding(d) \/ upsert_drift_counter(d)

DecisionSpec == DecisionInit /\ [][DecisionNext]_decisionVars

---------------------------------------------------------------------------
(* Properties. *)

\* On Postgres the rows of a tenant, in the order of their ids, form one
\* unbroken hash chain from the genesis value, whatever inserts overlap,
\* abort and are retried: no fork, and no id out of the order of the chain.
ChainUnbroken ==
  backend = "postgres" =>
    \A r \in rows :
      LET before == {q \in rows : q.org = r.org /\ q.id < r.id}
      IN r.prev = IF before = {} THEN Genesis
                  ELSE (CHOOSE q \in before : \A p \in before : p.id <= q.id).hash

\* Retries never insert a decision twice, and its drift report is in the log
\* exactly when the decision is in the table, on both backends.
OncePerDecision ==
  /\ \A r, q \in rows : r.dec = q.dec => r = q
  /\ driftLog = {r.dec : r \in rows} \cap Drifting

\* Telemetry, embedding and drift counter are written only for decisions
\* that are in the table.
ExtrasFollowDecision ==
  \A x \in Extra : extras[x] \subseteq {r.dec : r \in rows}
=============================================================================
