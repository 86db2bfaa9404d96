----------------------------- MODULE AgentGate -----------------------------
(***************************************************************************)
(* AppState::validate and the halts that race it.  Each request is a tokio *)
(* task that runs validate_inner; it is split where another thread can     *)
(* come between: at every await, at every lock of the per-agent mutex and  *)
(* at every access to the shared decision cache.  What the gates compute   *)
(* from the request's text is a free choice; what they read from or write  *)
(* to shared state is not.                                                 *)
(***************************************************************************)
EXTENDS Naturals, FiniteSets, TLC

CONSTANTS Agent, Kind, Request, Halt, Nil,
          Registered,   \* the agents AgentRegistry::check lets through
          MaxActions,   \* MAX_ACTIONS_PER_MINUTE, or the override of the store
          Window,       \* the 60 s of current_action_count
          BreakSecs,    \* CIRCUIT_BREAK_SECS
          HaltSecs,     \* the 24 h of the two halts
          TTL,          \* lifetime of a cached decision
          MaxEntries,   \* capacity of the local cache
          Remote,       \* whether a remote cache is configured
          MaxTime

ASSUME GateAssumption ==
    /\ MaxActions \in Nat /\ Window \in Nat /\ BreakSecs \in Nat /\ HaltSecs \in Nat
    /\ TTL \in Nat /\ MaxEntries \in Nat /\ MaxTime \in Nat /\ Remote \in BOOLEAN
    /\ Registered \subseteq Agent /\ Nil \notin Request /\ BreakSecs <= HaltSecs

VARIABLES now,      \* Instant::now()
          agents,   \* the agents DashMap; Nil where an agent has no entry
          holder,   \* the request that holds an agent's mutex across an await
          cache,    \* DecisionCache, entries that say ALLOW
          remote,   \* DragonflyClient with its fallback
          banned,   \* the action types the current rules deny
          req,      \* the requests
          halt      \* force_halt_agent and emergency_halt_all calls

vars == <<now, agents, holder, cache, remote, banned, req, halt>>

-----------------------------------------------------------------------------
(* AgentState *)

\* circuit_break is the instant at which the breaker closes, 0 for None;
\* action_timestamps are tagged with the request that pushed them.
AgentState == [circuit_break : Nat, stamps : SUBSET (Request \X Nat)]

ASSUME NilAssumption == Nil \notin AgentState

new_agent == [circuit_break |-> 0, stamps |-> {}]

entry(a) == IF agents[a] = Nil THEN new_agent ELSE agents[a]

circuit_break_active(s) == now < s.circuit_break

trip_circuit_breaker(s, secs) == [s EXCEPT !.circuit_break = now + secs]

\* The stamps that current_action_count keeps
recent(s) == {x \in s.stamps : x[2] + Window > now}

current_action_count(s) == Cardinality(recent(s))

pruned(s) == [s EXCEPT !.stamps = recent(s)]

record_action(s, r) == [s EXCEPT !.stamps = @ \cup {<<r, now>>}]

-----------------------------------------------------------------------------
(* DecisionCache *)

Key == [agent : Agent, kind : Kind, bucket : Nat]

is_valid(e) == now < e.at + TTL

hit(c, k) == \E e \in c : e.key = k /\ is_valid(e)

\* An expired entry is removed by the read that finds it.
after_get(c, k) == {e \in c : e.key = k => is_valid(e)}

\* The entries evict may leave: which ones are the least recently used is
\* left open.
evict(c) ==
    LET live == {e \in c : is_valid(e)}
        n == IF MaxEntries \div 10 > 1 THEN MaxEntries \div 10 ELSE 1
    IN  IF Cardinality(live) < MaxEntries THEN {live}
        ELSE {kept \in SUBSET live : Cardinality(live \ kept) = n}

insert_for(c, k) ==
    {{e \in kept : e.key # k} \cup {[key |-> k, at |-> now]} : kept \in evict(c)}

\* Mutant: nothing is removed.
MutKeepEntries(c, a) == c

invalidate_agent(c, a) == {e \in c : e.key.agent # a}

-----------------------------------------------------------------------------
(* Requests *)

Pc == {"idle", "count", "lookup", "remote", "fill", "hit", "main", "embed",
       "enqueue", "publish", "done", "dropped"}

\* The awaits at which the mutex of the agent is held
Inside == {"embed", "enqueue", "publish"}

\* Where a request can be dropped with its connection: its awaits
Awaiting == {"count", "remote", "hit", "main"} \cup Inside

idle == [pc |-> "idle", agent |-> Nil, kind |-> Nil, money |-> FALSE, bucket |-> 0,
         decision |-> "None", at |-> 0]

key(q) == [agent |-> q.agent, kind |-> q.kind, bucket |-> q.bucket]

goto(r, pc) == req' = [req EXCEPT ![r].pc = pc]

respond(r, d) ==
    req' = [req EXCEPT ![r] = [@ EXCEPT !.pc = "done", !.decision = d, !.at = now]]

Init ==
    /\ now = 0
    /\ agents = [a \in Agent |-> Nil]
    /\ holder = [a \in Agent |-> Nil]
    /\ cache = {} /\ remote = {} /\ banned = {}
    /\ req = [r \in Request |-> idle]
    /\ halt = [h \in Halt |-> [pc |-> "idle", todo |-> {}, halted |-> {}, skipped |-> {}]]

\* The registry gate and the MCP guard, before any state of the agent is read
Arrive(r, a, k, m) ==
    /\ req[r].pc = "idle"
    /\ LET q == [idle EXCEPT !.agent = a, !.kind = k, !.money = m]
       IN  \/ a \in Registered /\ req' = [req EXCEPT ![r] = [q EXCEPT !.pc = "count"]]
           \/ req' = [req EXCEPT ![r] = [q EXCEPT !.pc = "done", !.decision = "Deny",
                                                  !.at = now]]
    /\ UNCHANGED <<now, agents, holder, cache, remote, banned, halt>>

\* action_count_bucket, from the length before pruning
Count(r) ==
    LET a == req[r].agent IN
    /\ req[r].pc = "count" /\ holder[a] = Nil
    /\ req' = [req EXCEPT ![r].pc = "lookup",
                          ![r].bucket = Cardinality(entry(a).stamps) \div 2]
    /\ UNCHANGED <<now, agents, holder, cache, remote, banned, halt>>

\* The agents entry is made on the way to the mutex.
approach(r, pc) ==
    /\ goto(r, pc)
    /\ agents' = [agents EXCEPT ![req[r].agent] = entry(req[r].agent)]

Lookup(r) ==
    /\ req[r].pc = "lookup"
    /\ \/ req[r].money /\ approach(r, "main") /\ UNCHANGED cache
       \/ /\ ~req[r].money
          /\ cache' = after_get(cache, key(req[r]))
          /\ \/ hit(cache, key(req[r])) /\ approach(r, "hit")
             \/ ~hit(cache, key(req[r])) /\ Remote /\ goto(r, "remote") /\ UNCHANGED agents
             \/ ~hit(cache, key(req[r])) /\ ~Remote /\ approach(r, "main")
    /\ UNCHANGED <<now, holder, remote, banned, halt>>

\* remote_cache.get: the server or the fallback may be the one that is asked,
\* so an entry may also be missed.
RemoteGet(r) ==
    /\ req[r].pc = "remote"
    /\ \/ hit(remote, key(req[r])) /\ goto(r, "fill") /\ UNCHANGED agents
       \/ approach(r, "main")
    /\ UNCHANGED <<now, holder, cache, remote, banned, halt>>

\* A remote hit is copied to the local cache before the breaker is looked at.
Fill(r) ==
    /\ req[r].pc = "fill"
    /\ cache' \in insert_for(cache, key(req[r]))
    /\ approach(r, "hit")
    /\ UNCHANGED <<now, holder, remote, banned, halt>>

\* Mutant: a cached ALLOW is returned without looking at the breaker.
MutTrustCache(r) ==
    LET a == req[r].agent IN
    /\ req[r].pc = "hit" /\ holder[a] = Nil
    /\ agents' = [agents EXCEPT ![a] = pruned(@)]
    /\ respond(r, "Allow")
    /\ UNCHANGED <<now, holder, cache, remote, banned, halt>>

\* The cached path under the mutex: the breaker is looked at again, and no
\* action is recorded.
CachedAllow(r) ==
    LET a == req[r].agent
        s == agents[a] IN
    /\ req[r].pc = "hit" /\ holder[a] = Nil
    /\ \/ /\ circuit_break_active(s)
          /\ agents' = [agents EXCEPT ![a] = pruned(s)]
          /\ cache' = invalidate_agent(cache, a)
          /\ respond(r, "CircuitBreak")
       \/ /\ ~circuit_break_active(s)
          /\ agents' = [agents EXCEPT ![a] = pruned([s EXCEPT !.circuit_break = 0])]
          /\ respond(r, "Allow")
          /\ UNCHANGED cache
    /\ UNCHANGED <<now, holder, remote, banned, halt>>

\* The mutex is taken; breaker, observe_signal and the YAML rules run before
\* the first await.  The rules deny a banned type and may deny or break for
\* other reasons.
Enter(r) ==
    LET a == req[r].agent
        s == agents[a]
        clear == [s EXCEPT !.circuit_break = 0] IN
    /\ req[r].pc = "main" /\ holder[a] = Nil
    /\ \/ /\ circuit_break_active(s)
          /\ agents' = [agents EXCEPT ![a] = pruned(s)]
          /\ cache' = invalidate_agent(cache, a)
          /\ respond(r, "CircuitBreak") /\ UNCHANGED holder
       \/ /\ ~circuit_break_active(s)
          /\ agents' = [agents EXCEPT ![a] = pruned(record_action(clear, r))]
          /\ respond(r, "Deny") /\ UNCHANGED <<cache, holder>>
       \/ /\ ~circuit_break_active(s) /\ req[r].kind \notin banned
          /\ agents' = [agents EXCEPT ![a] = pruned(trip_circuit_breaker(clear, BreakSecs))]
          /\ cache' = invalidate_agent(cache, a)
          /\ respond(r, "CircuitBreak") /\ UNCHANGED holder
       \/ /\ ~circuit_break_active(s) /\ req[r].kind \notin banned
          /\ agents' = [agents EXCEPT ![a] = clear]
          /\ holder' = [holder EXCEPT ![a] = r]
          /\ goto(r, "embed") /\ UNCHANGED cache
    /\ UNCHANGED <<now, remote, banned, halt>>

\* validate_inner returns: the guard of the mutex is dropped.
leave(r, s, d) ==
    /\ agents' = [agents EXCEPT ![req[r].agent] = s]
    /\ holder' = [holder EXCEPT ![req[r].agent] = Nil]
    /\ respond(r, d)

\* Goal drift, conversation drift, a Maximum-tier halt, the recipient
\* aggregate and the quorum gate refuse without recording the action.
Refuse(r) ==
    /\ req[r].pc = "embed"
    /\ leave(r, pruned(agents[req[r].agent]), "Deny")
    /\ UNCHANGED <<now, cache, remote, banned, halt>>

\* Standard-tier triage wants a deep scan: the task is queued and the action
\* allowed, past the remaining gates.
Defer(r) ==
    /\ req[r].pc = "embed"
    /\ goto(r, "enqueue")
    /\ UNCHANGED <<now, agents, holder, cache, remote, banned, halt>>

Deferred(r) ==
    /\ req[r].pc = "enqueue"
    /\ leave(r, pruned(agents[req[r].agent]), "Allow")
    /\ UNCHANGED <<now, cache, remote, banned, halt>>

\* Mutant: one action too many passes.
MutOffByOne(s) == current_action_count(s) > MaxActions

over_limit(s) == current_action_count(s) >= MaxActions

\* The rate limit, and for amounts the EWMA and anomaly checks, trip.
Break(r) ==
    LET a == req[r].agent IN
    /\ req[r].pc = "embed"
    /\ over_limit(agents[a]) \/ req[r].money
    /\ leave(r, trip_circuit_breaker(pruned(agents[a]), BreakSecs), "CircuitBreak")
    /\ cache' = invalidate_agent(cache, a)
    /\ UNCHANGED <<now, remote, banned, halt>>

\* The aggregate policy denies, and the action is recorded.
PolicyDeny(r) ==
    LET s == agents[req[r].agent] IN
    /\ req[r].pc = "embed" /\ ~over_limit(s)
    /\ leave(r, pruned(record_action(s, r)), "Deny")
    /\ UNCHANGED <<now, cache, remote, banned, halt>>

\* All gates passed: recorded, cached when there is no amount, and with a
\* remote cache published there before the mutex is released.
Pass(r) ==
    LET a == req[r].agent
        s == pruned(record_action(agents[a], r)) IN
    /\ req[r].pc = "embed" /\ ~over_limit(agents[a])
    /\ \/ req[r].money /\ leave(r, s, "Allow") /\ UNCHANGED cache
       \/ /\ ~req[r].money
          /\ cache' \in insert_for(cache, key(req[r]))
          /\ \/ ~Remote /\ leave(r, s, "Allow")
             \/ /\ Remote /\ goto(r, "publish")
                /\ agents' = [agents EXCEPT ![a] = s] /\ UNCHANGED holder
    /\ UNCHANGED <<now, remote, banned, halt>>

Publish(r) ==
    /\ req[r].pc = "publish"
    /\ remote' = {e \in remote : e.key # key(req[r])} \cup {[key |-> key(req[r]), at |-> now]}
    /\ leave(r, agents[req[r].agent], "Allow")
    /\ UNCHANGED <<now, cache, banned, halt>>

\* Mutant: a dropped request leaves the agent locked.
MutCancelKeepsLock(r) ==
    /\ req[r].pc \in Awaiting
    /\ goto(r, "dropped")
    /\ UNCHANGED <<now, agents, holder, cache, remote, banned, halt>>

\* The client hangs up and the handler's future is dropped at an await, the
\* guard of the mutex with it.
Cancel(r) ==
    /\ req[r].pc \in Awaiting
    /\ goto(r, "dropped")
    /\ holder' = [a \in Agent |-> IF holder[a] = r THEN Nil ELSE holder[a]]
    /\ UNCHANGED <<now, agents, cache, remote, banned, halt>>

-----------------------------------------------------------------------------
(* Halts *)

ForceHalt(h, a) ==
    /\ halt[h].pc = "idle"
    /\ halt' = [halt EXCEPT ![h].pc = "force", ![h].todo = {a}]
    /\ agents' = [agents EXCEPT ![a] = entry(a)]
    /\ UNCHANGED <<now, holder, cache, remote, banned, req>>

\* The snapshot of the keys
EmergencyHalt(h) ==
    /\ halt[h].pc = "idle"
    /\ halt' = [halt EXCEPT ![h].pc = "all", ![h].todo = {a \in Agent : agents[a] # Nil}]
    /\ UNCHANGED <<now, agents, holder, cache, remote, banned, req>>

\* Mutant: the breaker is tripped without waiting for the mutex.
MutTripUnlocked(h, a) ==
    /\ a \in halt[h].todo
    /\ agents' = [agents EXCEPT ![a] = trip_circuit_breaker(@, HaltSecs)]
    /\ cache' = invalidate_agent(cache, a)
    /\ halt' = [halt EXCEPT ![h].todo = @ \ {a}, ![h].halted = @ \cup {a}]
    /\ UNCHANGED <<now, holder, remote, banned, req>>

\* The mutex is free: trip and invalidate under it.
Trip(h, a) ==
    /\ a \in halt[h].todo /\ holder[a] = Nil
    /\ agents' = [agents EXCEPT ![a] = trip_circuit_breaker(@, HaltSecs)]
    /\ cache' = invalidate_agent(cache, a)
    /\ halt' = [halt EXCEPT ![h].todo = @ \ {a}, ![h].halted = @ \cup {a}]
    /\ UNCHANGED <<now, holder, remote, banned, req>>

\* Mutant: the halt waits for as long as the mutex is held.
MutNoTimeout(h, a) == FALSE /\ UNCHANGED vars

\* Five seconds without the mutex: the agent is left out.
Skip(h, a) ==
    /\ halt[h].pc = "all" /\ a \in halt[h].todo /\ holder[a] # Nil
    /\ halt' = [halt EXCEPT ![h].todo = @ \ {a}, ![h].skipped = @ \cup {a}]
    /\ UNCHANGED <<now, agents, holder, cache, remote, banned, req>>

HaltReturns(h) ==
    /\ halt[h].pc \in {"force", "all"} /\ halt[h].todo = {}
    /\ halt' = [halt EXCEPT ![h].pc = IF @ = "all" THEN "all done" ELSE "force done"]
    /\ UNCHANGED <<now, agents, holder, cache, remote, banned, req>>

-----------------------------------------------------------------------------
(* The environment *)

\* push_policy or a reload of the rules file; decisions already cached stay.
PushPolicy(k) ==
    /\ k \notin banned
    /\ banned' = banned \cup {k}
    /\ UNCHANGED <<now, agents, holder, cache, remote, req, halt>>

Tick ==
    /\ now < MaxTime
    /\ now' = now + 1
    /\ UNCHANGED <<agents, holder, cache, remote, banned, req, halt>>

\* The steps a request takes by itself, and those that wait for the mutex
Run(r) == Lookup(r) \/ RemoteGet(r) \/ Fill(r) \/ Refuse(r) \/ Defer(r)
          \/ Deferred(r) \/ Break(r) \/ PolicyDeny(r) \/ Pass(r) \/ Publish(r)

Acquire(r) == Count(r) \/ CachedAllow(r) \/ Enter(r)

HaltStep(h) == HaltReturns(h) \/ \E a \in Agent : Trip(h, a) \/ Skip(h, a)

Next ==
    \/ Tick
    \/ \E k \in Kind : PushPolicy(k)
    \/ \E r \in Request, a \in Agent, k \in Kind, m \in BOOLEAN : Arrive(r, a, k, m)
    \/ \E r \in Request : Acquire(r) \/ Run(r) \/ Cancel(r)
    \/ \E h \in Halt, a \in Agent : ForceHalt(h, a)
    \/ \E h \in Halt : EmergencyHalt(h) \/ HaltStep(h)

Spec == Init /\ [][Next]_vars

\* Tasks that can run are polled; the mutex of tokio is fair, so a request
\* that is again and again able to take it takes it.
FairRequests == \A r \in Request : WF_vars(Run(r)) /\ SF_vars(Acquire(r))
FairHalts == \A h \in Halt : WF_vars(HaltStep(h))

\* Requests may hang in an await for ever; only the halts are scheduled.
HaltSpec == Spec /\ FairHalts

-----------------------------------------------------------------------------
(* Properties *)

RequestState ==
    [pc : Pc, agent : Agent \cup {Nil}, kind : Kind \cup {Nil}, money : BOOLEAN,
     bucket : Nat, at : Nat, decision : {"None", "Allow", "Deny", "CircuitBreak"}]

HaltState ==
    [pc : {"idle", "force", "all", "force done", "all done"},
     todo : SUBSET Agent, halted : SUBSET Agent, skipped : SUBSET Agent]

\* TypeOK: the ranges of the fields; a request's bucket, its answer and the
\* halts' sets included.
TypeOK ==
    /\ now \in Nat
    /\ agents \in [Agent -> AgentState \cup {Nil}]
    /\ holder \in [Agent -> Request \cup {Nil}]
    /\ cache \subseteq [key : Key, at : Nat]
    /\ remote \subseteq [key : Key, at : Nat]
    /\ banned \subseteq Kind
    /\ req \in [Request -> RequestState]
    /\ halt \in [Halt -> HaltState]

tripped(a) == agents[a] # Nil /\ circuit_break_active(agents[a])

answers(r, d) == req[r].pc # "done" /\ req'[r].pc = "done" /\ req'[r].decision = d

\* NoAllowWhileTripped: validate_inner never answers ALLOW, from the caches, as
\* a deferred scan or after all gates, while the agent's breaker is open, be it
\* tripped by another request, force_halt_agent or emergency_halt_all between
\* any two of its awaits.
NoAllowWhileTripped ==
    [][\A r \in Request : answers(r, "Allow") => ~tripped(req[r].agent)]_vars

\* HaltSticks: trip_circuit_breaker overwrites and circuit_break_active clears,
\* yet no interleaving of requests and halts closes an open breaker early: a
\* 24 h halt is never replaced by the shorter break of a gate.
HaltSticks ==
    [][\A a \in Agent : tripped(a) =>
          \/ now' >= agents[a].circuit_break
          \/ agents'[a].circuit_break >= agents[a].circuit_break]_vars

\* CacheClean: without a remote cache, an agent whose breaker is open has no
\* cached ALLOW: whoever trips also invalidates, and no request that was on its
\* way inserts one afterwards (insert_for runs under the agent's mutex).
CacheClean ==
    ~Remote => \A a \in Agent : tripped(a) => \A e \in cache : e.key.agent # a

\* CountedWithinLimit: among the actions recorded in the window, those that were
\* not denied stay within the limit, however requests of the agent overlap.
CountedWithinLimit ==
    \A a \in Agent : agents[a] # Nil =>
        Cardinality({x \in recent(agents[a]) : req[x[1]].decision # "Deny"}) <= MaxActions

\* AllowedWithinLimit: no agent is answered ALLOW more often than
\* MAX_ACTIONS_PER_MINUTE within the window.
AllowedWithinLimit ==
    \A a \in Agent :
        Cardinality({r \in Request : /\ req[r].agent = a /\ req[r].decision = "Allow"
                                     /\ req[r].at + Window > now}) <= MaxActions

\* HaltReturnsAlways: emergency_halt_all returns even if the requests that hold
\* the agents' mutexes never move again.
HaltReturnsAlways == \A h \in Halt : halt[h].pc = "all" ~> halt[h].pc = "all done"

\* Answered: if runnable requests are polled and the mutex is fair, every request
\* that arrived is answered, or dropped with its connection; a halt or a dropped
\* request never leaves an agent locked.
Answered ==
    FairRequests =>
        \A r \in Request : req[r].pc # "idle" ~> req[r].pc \in {"done", "dropped"}

-----------------------------------------------------------------------------
\* Requests and halts are interchangeable, and where all are registered so are
\* agents and action types.
Symmetry == Permutations(Request) \cup Permutations(Halt)
AllSymmetry == Symmetry \cup Permutations(Agent) \cup Permutations(Kind)
=============================================================================
