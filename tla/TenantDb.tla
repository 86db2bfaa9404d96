------------------------------ MODULE TenantDb ------------------------------
(***************************************************************************)
(* Requests that share the connection pool of the tenant database: full-   *)
(* text search of one tenant's audit rows, and the reload of a policy into *)
(* policy_configs under an advisory lock.  A connection keeps its session  *)
(* setting app.current_org_id when it goes back to the pool.  Row-level    *)
(* security applies or not, depending on the role of the server.           *)
(***************************************************************************)
EXTENDS Integers, FiniteSets, FiniteSetsExt

CONSTANTS Conn, Org, Searcher, Reloader, PolicyName, NoOrgSet, NoConn, MaxReloads

ASSUME TenantAssumption == MaxReloads \in Nat /\ NoOrgSet \notin Org /\ NoConn \notin Conn

VARIABLES
  rls,        \* is the role subject to row-level security?
  context,    \* app.current_org_id of each connection
  free,       \* connections in the pool
  search,     \* the searches in progress
  saw,        \* for every finished search: <<its tenant, the tenant whose rows it read>>
  configs,    \* committed rows of policy_configs
  lockOf,     \* who holds the advisory lock of a policy
  reload,     \* the reloads in progress
  reloads     \* how many there were

tenantVars == <<rls, context, free, search, saw, configs, lockOf, reload, reloads>>
searchVars == <<search, saw>>
reloadDbVars == <<configs, lockOf, reload, reloads>>

NoTask == [at |-> "idle", conn |-> NoConn]

TenantInit ==
  /\ rls \in BOOLEAN
  /\ context = [c \in Conn |-> NoOrgSet] /\ free = Conn
  /\ search = [s \in Searcher |-> NoTask] /\ saw = {}
  /\ configs = {} /\ lockOf = [p \in PolicyName |-> NoConn]
  /\ reload = [r \in Reloader |-> NoTask] /\ reloads = 0

TenantTypeOK ==
  /\ context \in [Conn -> Org \cup {NoOrgSet}] /\ free \subseteq Conn
  /\ \A s \in Searcher : search[s].conn \in Conn \cup {NoConn}
  /\ \A s \in Searcher, r \in Reloader :
       search[s].conn # NoConn => search[s].conn # reload[r].conn

---------------------------------------------------------------------------
(* Search. *)

\* The header names the tenant; its setting goes to the connection at hand.
audit_fts_search(s, o, c) ==
  /\ search[s] = NoTask /\ c \in free
  /\ free' = free \ {c}
  /\ context' = [context EXCEPT ![c] = o]
  /\ search' = [search EXCEPT ![s] = [at |-> "query", org |-> o, conn |-> c]]
  /\ UNCHANGED <<rls, saw, reloadDbVars>>

queried_on(s) == search[s].conn

search_audit_decisions_scoped(s) ==
  /\ search[s].at = "query"
  /\ saw' = saw \cup {<<search[s].org, context[queried_on(s)]>>}
  /\ search' = [search EXCEPT ![s].at = "reset"]
  /\ UNCHANGED <<rls, context, free, reloadDbVars>>

\* The query fails: the connection goes back with the setting on it.
SearchFails(s) ==
  /\ search[s].at = "query"
  /\ free' = free \cup {search[s].conn}
  /\ search' = [search EXCEPT ![s] = NoTask]
  /\ UNCHANGED <<rls, context, saw, reloadDbVars>>

\* The result of the reset is ignored.
reset_tenant_context(s) ==
  /\ search[s].at = "reset"
  /\ context' \in {context, [context EXCEPT ![search[s].conn] = NoOrgSet]}
  /\ free' = free \cup {search[s].conn}
  /\ search' = [search EXCEPT ![s] = NoTask]
  /\ UNCHANGED <<rls, saw, reloadDbVars>>

---------------------------------------------------------------------------
(* Reload of a policy. *)

\* Every reload brings rules of its own, which its number stands for.
admin_policy_db_reload(r, o, p, c) ==
  /\ reload[r] = NoTask /\ c \in free /\ reloads < MaxReloads
  /\ reloads' = reloads + 1 /\ free' = free \ {c}
  /\ reload' = [reload EXCEPT ![r] = [at |-> "lock", org |-> o, policy |-> p, rules |-> reloads', conn |-> c]]
  /\ UNCHANGED <<rls, context, searchVars, configs, lockOf>>

\* pg_advisory_xact_lock waits for the transaction that holds the lock.
lock_is_free(r, p) == lockOf[p] = NoConn

AdvisoryLock(r) ==
  /\ reload[r].at = "lock" /\ lock_is_free(r, reload[r].policy)
  /\ lockOf' = [lockOf EXCEPT ![reload[r].policy] = reload[r].conn]
  /\ reload' = [reload EXCEPT ![r].at = "insert"]
  /\ UNCHANGED <<rls, context, free, searchVars, configs, reloads>>

may_write(r) == rls => context[reload[r].conn] = reload[r].org

version_after(o, p) == Max({c.version : c \in {d \in configs : d.org = o /\ d.policy = p}} \cup {0}) + 1

\* The insert computes the next version from the rows committed so far.
InsertConfig(r) ==
  /\ reload[r].at = "insert" /\ may_write(r)
  /\ reload' = [reload EXCEPT ![r] =
       [at |-> "commit", org |-> @.org, policy |-> @.policy, rules |-> @.rules, conn |-> @.conn,
        version |-> version_after(@.org, @.policy)]]
  /\ UNCHANGED <<rls, context, free, searchVars, configs, lockOf, reloads>>

same_key(c, r) == c.org = reload[r].org /\ c.policy = reload[r].policy /\ c.version = reload[r].version

\* ON CONFLICT the row of the same version takes the new rules.
reload_policy_with_lock(r) ==
  /\ reload[r].at = "commit"
  /\ configs' = {c \in configs : ~same_key(c, r)} \cup
       {[org |-> reload[r].org, policy |-> reload[r].policy, version |-> reload[r].version,
         rules |-> reload[r].rules]}
  /\ lockOf' = [lockOf EXCEPT ![reload[r].policy] = IF @ = reload[r].conn THEN NoConn ELSE @]
  /\ free' = free \cup {reload[r].conn}
  /\ reload' = [reload EXCEPT ![r] = [@ EXCEPT !.at = "readback", !.conn = NoConn]]
  /\ UNCHANGED <<rls, context, searchVars, reloads>>

\* Row-level security refuses the row, or the database fails.
ReloadFails(r) ==
  /\ reload[r].at \in {"insert", "commit"}
  /\ lockOf' = [lockOf EXCEPT ![reload[r].policy] = IF @ = reload[r].conn THEN NoConn ELSE @]
  /\ free' = free \cup {reload[r].conn}
  /\ reload' = [reload EXCEPT ![r] = NoTask]
  /\ UNCHANGED <<rls, context, searchVars, configs, reloads>>

\* The answer names the newest version, read on another connection.
get_policy_config(r) ==
  /\ reload[r].at = "readback"
  /\ reload' = [reload EXCEPT ![r] = NoTask]
  /\ UNCHANGED <<rls, context, free, searchVars, configs, lockOf, reloads>>

TenantNext ==
  \/ \E s \in Searcher :
       \/ \E o \in Org, c \in free : audit_fts_search(s, o, c)
       \/ search_audit_decisions_scoped(s) \/ SearchFails(s) \/ reset_tenant_context(s)
  \/ \E r \in Reloader :
       \/ \E o \in Org, p \in PolicyName, c \in free : admin_policy_db_reload(r, o, p, c)
       \/ AdvisoryLock(r) \/ InsertConfig(r) \/ reload_policy_with_lock(r)
       \/ ReloadFails(r) \/ get_policy_config(r)

TenantSpec == TenantInit /\ [][TenantNext]_tenantVars

---------------------------------------------------------------------------
(* Properties. *)

\* A search reads the rows of the tenant it was asked for, whatever settings
\* earlier requests left on the connections of the pool.
SearchSeesOwnTenant == \A x \in saw : x[1] = x[2]

\* A reload that was acknowledged keeps its row: two reloads of one policy
\* never share a version, so none overwrites the other's rules.
ReloadNotOverwritten ==
  [\A c \in configs : c \in configs']_tenantVars
=============================================================================
