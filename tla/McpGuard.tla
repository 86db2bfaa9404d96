------------------------------ MODULE McpGuard ------------------------------
(***************************************************************************)
(* The guard for MCP tool calls: baseline, policies and pattern firewall   *)
(* first, then the checks against the history table, then a cache of       *)
(* allowed contexts.  Every query is a transaction of its own, and every   *)
(* write can fail; calls run concurrently.                                 *)
(***************************************************************************)
EXTENDS Integers, FiniteSets, FiniteSetsExt

CONSTANTS
  Inspection, ToolCall,     \* tasks, and the calls they may inspect
  Unapproved, Poisoned,     \* tools outside the baseline; tools the firewall knows
  PolicyOn,                 \* what the first matching policy of a call says, or "none"
  Exfiltration, DataAccess, \* kinds of tools the correlation looks at
  MinBaseline, Hour, Day, CorrelationWindow, CacheTtl,
  MaxRows, MaxMinutes

ASSUME McpAssumption ==
  {MinBaseline, Hour, Day, CorrelationWindow, CacheTtl, MaxRows, MaxMinutes} \subseteq Nat

VARIABLES
  minute,
  at,        \* where each inspection is
  call,      \* the call it inspects
  guard_verdict,   \* the decision it has come to
  history,   \* rows of mcp_tool_history
  reviews,   \* rows of mcp_review_queue
  guardLeaves,    \* guardLeaves pushed on the guard's Merkle accumulator
  remoteUp, remote, fallback, \* Dragonfly and its in-memory stand-in
  contained, \* agents whose session was terminated or credentials revoked
  unaudited  \* <<agent, context>> of calls that were allowed from the cache

mcpVars == <<minute, at, call, guard_verdict, history, reviews, guardLeaves,
             remoteUp, remote, fallback, contained, unaudited>>
inspectionVars == <<at, call, guard_verdict>>
cacheVars == <<remoteUp, remote, fallback>>

NoCall == [agent |-> "none"]

McpInit ==
  /\ minute = 0
  /\ at = [i \in Inspection |-> "idle"] /\ call = [i \in Inspection |-> NoCall]
  /\ guard_verdict = [i \in Inspection |-> "none"]
  /\ history = {} /\ reviews = {} /\ guardLeaves = 0
  /\ remoteUp = TRUE /\ remote = {} /\ fallback = {} /\ contained = {} /\ unaudited = {}

McpTypeOK ==
  /\ \A i \in Inspection : at[i] # "idle" => call[i] \in ToolCall
  /\ Cardinality(history) <= guardLeaves
  /\ \A e \in remote \cup fallback : e.since <= minute

recent(window) == {h \in history : minute - h.time < window}

moves(i, s, v) == at' = [at EXCEPT ![i] = s] /\ guard_verdict' = [guard_verdict EXCEPT ![i] = v] /\ UNCHANGED call
returns(i) == /\ at' = [at EXCEPT ![i] = "idle"] /\ guard_verdict' = [guard_verdict EXCEPT ![i] = "none"]
              /\ call' = [call EXCEPT ![i] = NoCall]

\* Quarantine goes through the review queue first, everything else to the audit.
concludes(i, v) == moves(i, IF v = "QUARANTINE" THEN "review" ELSE "audit", v)

---------------------------------------------------------------------------

inspect_tool_call(i, c) ==
  /\ at[i] = "idle" /\ guardLeaves < MaxRows
  /\ at' = [at EXCEPT ![i] = "policies"] /\ call' = [call EXCEPT ![i] = c]
  /\ UNCHANGED <<minute, guard_verdict, history, reviews, guardLeaves, cacheVars, contained, unaudited>>

\* Baseline, then policies, then the firewall; a policy may allow what the
\* firewall would block.
evaluate_policies(i) ==
  /\ at[i] = "policies"
  /\ LET c == call[i] IN
     IF c.tool \in Unapproved THEN concludes(i, "BLOCK")
     ELSE IF PolicyOn[c] # "none" THEN concludes(i, PolicyOn[c])
     ELSE IF c.tool \in Poisoned THEN concludes(i, "BLOCK")
     ELSE moves(i, "drift", "none")
  /\ UNCHANGED <<minute, history, reviews, guardLeaves, cacheVars, contained, unaudited>>

baseline_rows(a) == {h \in recent(Day) : h.agent = a /\ h.embedded}

\* The drift score is a number; with enough rows it may exceed the threshold.
check_drift(i) ==
  /\ at[i] = "drift"
  /\ \/ moves(i, "correlation", "none")
     \/ Cardinality(baseline_rows(call[i].agent)) >= MinBaseline /\ concludes(i, "QUARANTINE")
  /\ UNCHANGED <<minute, history, reviews, guardLeaves, cacheVars, contained, unaudited>>

peers_reading(c) ==
  {h \in recent(CorrelationWindow) : h.agent # c.agent /\ h.args = c.args /\ h.tool \in DataAccess}

detect_cross_agent_correlation(i) ==
  /\ at[i] = "correlation"
  /\ IF call[i].tool \in Exfiltration /\ peers_reading(call[i]) # {}
     THEN concludes(i, "QUARANTINE") ELSE moves(i, "consistency", "none")
  /\ UNCHANGED <<minute, history, reviews, guardLeaves, cacheVars, contained, unaudited>>

\* bool_and over the agent's rows of the last hour, quarantined ones included.
historical_consistency(i) ==
  /\ at[i] = "consistency"
  /\ IF \A h \in recent(Hour) : h.agent = call[i].agent => h.tool = call[i].tool
     THEN moves(i, "cache", "ALLOW") ELSE concludes(i, "QUARANTINE")
  /\ UNCHANGED <<minute, history, reviews, guardLeaves, cacheVars, contained, unaudited>>

\* A query that fails ends the inspection with an error; the baseline asks
\* no database.
QueryFails(i) ==
  /\ at[i] \in {"policies", "drift", "correlation", "consistency"}
  /\ call[i].tool \notin Unapproved
  /\ returns(i)
  /\ UNCHANGED <<minute, history, reviews, guardLeaves, cacheVars, contained, unaudited>>

key(i) == <<call[i].agent, call[i].context>>
valid(e) == minute - e.since < CacheTtl
cached_verdict(i) == \E e \in (IF remoteUp THEN remote ELSE fallback) : e.key = key(i) /\ valid(e)

\* A context that was allowed before is allowed without another audit row.
CacheLookup(i) ==
  /\ at[i] = "cache"
  /\ IF cached_verdict(i) THEN returns(i) /\ unaudited' = unaudited \cup {key(i)}
     ELSE moves(i, "audit", "ALLOW") /\ UNCHANGED unaudited
  /\ UNCHANGED <<minute, history, reviews, guardLeaves, cacheVars, contained>>

---------------------------------------------------------------------------
(* Writes. *)

review_failed(i) == returns(i)

log_review(i) ==
  /\ at[i] = "review"
  /\ \/ moves(i, "audit", "QUARANTINE") /\ reviews' = reviews \cup {call[i]}
     \/ review_failed(i) /\ UNCHANGED reviews
  /\ UNCHANGED <<minute, history, guardLeaves, cacheVars, contained, unaudited>>

audited_by_check(i) == PolicyOn[call[i]] = "none" /\ call[i].tool \notin Unapproved \cup Poisoned

row(i) == [agent |-> call[i].agent, tool |-> call[i].tool, args |-> call[i].args,
           context |-> call[i].context, decision |-> guard_verdict[i], time |-> minute,
           embedded |-> audited_by_check(i)]

after_audit(i) ==
  CASE guard_verdict[i] # "ALLOW" -> "contain"
    [] audited_by_check(i)  -> "store"
    [] OTHER                -> "answer"

audit_failed(i) == returns(i)

\* The leaf is pushed before the row is written; a failed write returns an
\* error and neither contains the agent nor caches the answer.
audit_decision(i) ==
  /\ at[i] = "audit" /\ guardLeaves < MaxRows
  /\ guardLeaves' = guardLeaves + 1
  /\ \/ moves(i, after_audit(i), guard_verdict[i]) /\ history' = history \cup {row(i)}
     \/ audit_failed(i) /\ UNCHANGED history
  /\ UNCHANGED <<minute, reviews, cacheVars, contained, unaudited>>

\* Every part of the containment may fail; the decision is returned all the same.
enforce_containment(i) ==
  /\ at[i] = "contain"
  /\ contained' \in {contained, contained \cup
                       (IF guard_verdict[i] = "BLOCK" THEN {call[i].agent} ELSE {})}
  /\ moves(i, "answer", guard_verdict[i])
  /\ UNCHANGED <<minute, history, reviews, guardLeaves, cacheVars, unaudited>>

entry(i) == [key |-> key(i), since |-> minute]

set(i) ==
  /\ at[i] = "store"
  /\ IF remoteUp THEN remote' = remote \cup {entry(i)} /\ UNCHANGED fallback
     ELSE fallback' = {e \in fallback : valid(e) /\ e.key # key(i)} \cup {entry(i)} /\ UNCHANGED remote
  /\ moves(i, "answer", guard_verdict[i])
  /\ UNCHANGED <<minute, history, reviews, guardLeaves, remoteUp, contained, unaudited>>

\* inspect_mcp_tool_call signs the decision and returns it.
inspect_mcp_tool_call(i) ==
  /\ at[i] = "answer" /\ returns(i)
  /\ UNCHANGED <<minute, history, reviews, guardLeaves, cacheVars, contained, unaudited>>

RemoteFails == remoteUp' = ~remoteUp /\ UNCHANGED
  <<minute, inspectionVars, history, reviews, guardLeaves, remote, fallback, contained, unaudited>>

PassMinute == minute < MaxMinutes /\ minute' = minute + 1 /\ UNCHANGED
  <<inspectionVars, history, reviews, guardLeaves, cacheVars, contained, unaudited>>

McpNext ==
  \/ \E i \in Inspection :
       \/ \E c \in ToolCall : inspect_tool_call(i, c)
       \/ evaluate_policies(i) \/ check_drift(i) \/ detect_cross_agent_correlation(i)
       \/ historical_consistency(i) \/ QueryFails(i) \/ CacheLookup(i) \/ log_review(i) \/ audit_decision(i)
       \/ enforce_containment(i) \/ set(i) \/ inspect_mcp_tool_call(i)
  \/ RemoteFails \/ PassMinute

McpSpec == McpInit /\ [][McpNext]_mcpVars

---------------------------------------------------------------------------
(* Properties. *)

\* A call that is allowed without an audit row of its own had its context
\* audited as ALLOW before, whatever failed in between.
SilentAllowAudited ==
  \A u \in unaudited : \E h \in history : <<h.agent, h.context>> = u /\ h.decision = "ALLOW"

\* Nobody is contained on a decision that is not in the history.
ContainedIsAudited ==
  \A a \in contained : \E h \in history : h.agent = a /\ h.decision = "BLOCK"

\* A quarantined call that is in the history is in the review queue.
QuarantineReviewed ==
  \A h \in history : h.decision = "QUARANTINE" =>
    \E r \in reviews : r.agent = h.agent /\ r.context = h.context /\ r.tool = h.tool
=============================================================================
