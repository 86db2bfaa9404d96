---------------------------- MODULE SqliteStore ----------------------------
(***************************************************************************)
(* The recommendations of the standalone deployment in SQLite              *)
(* (db/src/sqlite.rs).  Every statement takes a connection of the pool and *)
(* commits on its own, so other callers, and a restart of the server, come *)
(* between the upsert of a recommendation and the read of its id, and      *)
(* between the row that records an adjustment and the decision that names  *)
(* it.  The database is a file, or lives in memory with the process.       *)
(***************************************************************************)
EXTENDS Integers, Sequences, FiniteSets

CONSTANTS SqlCaller, RecKey, MaxRecRows, MaxAdjustments, MaxSqlCalls, MaxSqlRestarts, NoRow

VARIABLES
  onFile,       \* a file path, or ":memory:"
  recRows,      \* rows of policy_adjustment_recommendations by id
  adjustments,  \* rows of policy_adjustments by id: the recommendation
  sqlCall,      \* what each caller is doing
  sqlCalls,     \* calls begun so far
  sqlRestarts

sqlVars == <<onFile, recRows, adjustments, sqlCall, sqlCalls, sqlRestarts>>

NoSqlCall == [at |-> "idle"]
NoTables == <<>>

SqlInit ==
  /\ onFile \in BOOLEAN
  /\ recRows = NoTables /\ adjustments = NoTables
  /\ sqlCall = [c \in SqlCaller |-> NoSqlCall] /\ sqlCalls = 0 /\ sqlRestarts = 0

row_ids(key) == {i \in DOMAIN recRows : recRows[i].key = key}

begins(c) == sqlCall[c] = NoSqlCall /\ sqlCalls < MaxSqlCalls /\ sqlCalls' = sqlCalls + 1

---------------------------------------------------------------------------
(* The learning loop. *)

\* ON CONFLICT only the numbers of the row change: it keeps its id, its
\* status and its adjustment.
sqlite_upsert_recommendation(c) ==
  /\ begins(c)
  /\ \E key \in RecKey :
       /\ \/ /\ row_ids(key) # {} /\ UNCHANGED recRows
          \/ /\ row_ids(key) = {} /\ Len(recRows) < MaxRecRows
             /\ recRows' = Append(recRows, [key |-> key, status |-> "pending", applied |-> NoRow, reverted |-> NoRow])
       /\ sqlCall' = [sqlCall EXCEPT ![c] = [at |-> "upserted", key |-> key]]
  /\ UNCHANGED <<onFile, adjustments, sqlRestarts>>

\* The id is read back by key in a statement of its own.
id_of_key(key) == row_ids(key)

ReadId(c) ==
  /\ sqlCall[c].at = "upserted"
  /\ \E i \in id_of_key(sqlCall[c].key) :
       sqlCall' = [sqlCall EXCEPT ![c] = [at |-> "has_id", key |-> @.key, id |-> i]]
  /\ UNCHANGED <<onFile, recRows, adjustments, sqlCalls, sqlRestarts>>

Answer(c) ==
  /\ sqlCall[c].at = "has_id" /\ sqlCall' = [sqlCall EXCEPT ![c] = NoSqlCall]
  /\ UNCHANGED <<onFile, recRows, adjustments, sqlCalls, sqlRestarts>>

---------------------------------------------------------------------------
(* Decisions: an approval and a revert record an adjustment first. *)

Adjusted(want, i, a) == [at |-> "adjusted", want |-> want, id |-> i, adjustment |-> a]

\* Only a pending row can be approved, for everyone ("approved") or for some
\* agents ("applied"), and only an applied one reverted; a rejection looks
\* at no status and records no adjustment.
sqlite_get_recommendation(c) ==
  /\ begins(c)
  /\ \E i \in DOMAIN recRows :
       \/ /\ recRows[i].status = "pending"
          /\ \E want \in {"approved", "applied"} :
               sqlCall' = [sqlCall EXCEPT ![c] = [at |-> "adjust", want |-> want, id |-> i]]
       \/ /\ recRows[i].status = "applied"
          /\ sqlCall' = [sqlCall EXCEPT ![c] = [at |-> "adjust", want |-> "reverted", id |-> i]]
       \/ sqlCall' = [sqlCall EXCEPT ![c] = Adjusted("rejected", i, NoRow)]
  /\ UNCHANGED <<onFile, recRows, adjustments, sqlRestarts>>

\* A failed insert leaves the caller without an id, and it goes on.
insert_policy_adjustment(c) ==
  /\ sqlCall[c].at = "adjust"
  /\ \/ /\ Len(adjustments) < MaxAdjustments
        /\ adjustments' = Append(adjustments, sqlCall[c].id)
        /\ sqlCall' = [sqlCall EXCEPT ![c] = Adjusted(@.want, @.id, Len(adjustments) + 1)]
     \/ /\ sqlCall' = [sqlCall EXCEPT ![c] = Adjusted(@.want, @.id, NoRow)]
        /\ UNCHANGED adjustments
  /\ UNCHANGED <<onFile, recRows, sqlCalls, sqlRestarts>>

coalesce(new, old) == IF new = NoRow THEN old ELSE new

adjustment_of(c) == sqlCall[c].adjustment

sqlite_decide_recommendation(c) ==
  /\ sqlCall[c].at = "adjusted" /\ sqlCall[c].want # "reverted"
  /\ recRows' = [recRows EXCEPT ![sqlCall[c].id].status = sqlCall[c].want,
                                 ![sqlCall[c].id].applied = coalesce(adjustment_of(c), @)]
  /\ sqlCall' = [sqlCall EXCEPT ![c] = NoSqlCall]
  /\ UNCHANGED <<onFile, adjustments, sqlCalls, sqlRestarts>>

sqlite_mark_reverted(c) ==
  /\ sqlCall[c].at = "adjusted" /\ sqlCall[c].want = "reverted"
  /\ recRows' = [recRows EXCEPT ![sqlCall[c].id].status = "reverted",
                                 ![sqlCall[c].id].reverted = coalesce(adjustment_of(c), @)]
  /\ sqlCall' = [sqlCall EXCEPT ![c] = NoSqlCall]
  /\ UNCHANGED <<onFile, adjustments, sqlCalls, sqlRestarts>>

\* A statement fails: the call ends with an error.
StatementFails(c) ==
  /\ sqlCall[c].at \in {"upserted", "adjusted"} /\ sqlCall' = [sqlCall EXCEPT ![c] = NoSqlCall]
  /\ UNCHANGED <<onFile, recRows, adjustments, sqlCalls, sqlRestarts>>

---------------------------------------------------------------------------
(* The server sqlRestarts: calls are lost, connect opens the database again. *)

\* CREATE TABLE IF NOT EXISTS leaves the tables of a file alone.
migrate(tables) == IF onFile THEN tables ELSE NoTables

connect ==
  /\ sqlRestarts < MaxSqlRestarts /\ sqlRestarts' = sqlRestarts + 1
  /\ recRows' = migrate(recRows) /\ adjustments' = migrate(adjustments)
  /\ sqlCall' = [c \in SqlCaller |-> NoSqlCall]
  /\ UNCHANGED <<onFile, sqlCalls>>

SqlNext ==
  \/ connect
  \/ \E c \in SqlCaller :
       \/ sqlite_upsert_recommendation(c) \/ ReadId(c) \/ Answer(c)
       \/ sqlite_get_recommendation(c) \/ insert_policy_adjustment(c)
       \/ sqlite_decide_recommendation(c) \/ sqlite_mark_reverted(c)
       \/ StatementFails(c)

SqlSpec == SqlInit /\ [][SqlNext]_sqlVars

---------------------------------------------------------------------------
(* Properties. *)

\* The id an upsert returns is the id of the row with the caller's own key,
\* also when the key existed before, another caller inserted meanwhile, or
\* the row was decided in between.
UpsertReturnsOwnId ==
  \A c \in SqlCaller :
    sqlCall[c].at = "has_id" => recRows[sqlCall[c].id].key = sqlCall[c].key

\* Every adjustment a recommendation names was recorded for it, however
\* approvals and reverts of several recommendations overlap.
AdjustmentsTraceable ==
  \A i \in DOMAIN recRows : \A a \in {recRows[i].applied, recRows[i].reverted} \ {NoRow} :
    a \in DOMAIN adjustments /\ adjustments[a] = i

\* In a file no recommendation ever loses its id or its key, none that was
\* decided becomes pending again, and no recorded adjustment disappears,
\* whatever calls a restart cuts off.
DecisionsDurable ==
  [onFile =>
       /\ \A i \in DOMAIN recRows :
            /\ i \in DOMAIN recRows' /\ recRows'[i].key = recRows[i].key
            /\ recRows[i].status # "pending" => recRows'[i].status # "pending"
       /\ \A a \in DOMAIN adjustments : a \in DOMAIN adjustments' /\ adjustments'[a] = adjustments[a]]_sqlVars
=============================================================================
