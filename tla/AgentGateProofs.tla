-------------------------- MODULE AgentGateProofs --------------------------
(***************************************************************************)
(* Proofs about AgentGate, for any agents, requests, halts, durations and  *)
(* limits.  The argument is the mutex: a request that waits inside its     *)
(* critical section found the breaker closed and is the only one that may  *)
(* open it until it leaves.                                                *)
(***************************************************************************)
EXTENDS AgentGate, FiniteSetTheorems, TLAPS

\* A request that has arrived names an agent and an action type; one that goes
\* for the mutex, or has it, has made the agent's entry.
RequestsOK ==
    /\ \A r \in Request : req[r].pc # "idle" => req[r].agent \in Agent /\ req[r].kind \in Kind
    /\ \A r \in Request : req[r].pc \in {"hit", "main"} \cup Inside =>
                              agents[req[r].agent] # Nil
    /\ \A h \in Halt : \A a \in halt[h].todo : agents[a] # Nil

\* A request inside its critical section holds the mutex and found the breaker
\* closed; nobody has opened it since.
HoldersOK ==
    \A r \in Request : req[r].pc \in Inside =>
        /\ holder[req[r].agent] = r
        /\ agents[req[r].agent].circuit_break = 0

\* The steps of the remote cache are taken only with one.
LocalOK == ~Remote => \A r \in Request : req[r].pc \notin {"remote", "fill", "publish"}

FiniteOK == \A a \in Agent : agents[a] # Nil => IsFiniteSet(agents[a].stamps)

\* No breaker is open for longer than a halt opens it.
BoundOK == \A a \in Agent : agents[a] # Nil => agents[a].circuit_break <= now + HaltSecs

IndInv == TypeOK /\ RequestsOK /\ HoldersOK /\ LocalOK /\ FiniteOK /\ BoundOK /\ CacheClean

\* What a step may not do
Safe ==
    /\ \A r \in Request : answers(r, "Allow") => ~tripped(req[r].agent)
    /\ \A a \in Agent : tripped(a) =>
          \/ now' >= agents[a].circuit_break
          \/ agents'[a].circuit_break >= agents[a].circuit_break

\* What the operations of AgentState return
LEMMA AgentOps ==
    ASSUME TypeOK, NEW s \in AgentState, IsFiniteSet(s.stamps), NEW r \in Request, NEW d \in Nat
    PROVE  /\ pruned(s) \in AgentState /\ IsFiniteSet(pruned(s).stamps)
           /\ pruned(s).circuit_break = s.circuit_break
           /\ record_action(s, r) \in AgentState /\ IsFiniteSet(record_action(s, r).stamps)
           /\ record_action(s, r).circuit_break = s.circuit_break
           /\ trip_circuit_breaker(s, d) \in AgentState
           /\ trip_circuit_breaker(s, d).stamps = s.stamps
           /\ trip_circuit_breaker(s, d).circuit_break = now + d
<1>1. now \in Nat
  BY Zenon DEF TypeOK
<1>2. recent(s) \subseteq s.stamps
  BY Zenon DEF recent
<1>3. IsFiniteSet(recent(s))
  BY Zenon, <1>2, FS_Subset
<1>4. IsFiniteSet(s.stamps \cup {<<r, now>>})
  BY Zenon, FS_AddElement
<1>5. pruned(s) \in AgentState /\ pruned(s).stamps = recent(s)
      /\ pruned(s).circuit_break = s.circuit_break
  BY Zenon, <1>2 DEF pruned, AgentState
<1>6. /\ record_action(s, r) \in AgentState
      /\ record_action(s, r).stamps = s.stamps \cup {<<r, now>>}
      /\ record_action(s, r).circuit_break = s.circuit_break
  BY <1>1 DEF record_action, AgentState
<1>7. /\ trip_circuit_breaker(s, d) \in AgentState
      /\ trip_circuit_breaker(s, d).stamps = s.stamps
      /\ trip_circuit_breaker(s, d).circuit_break = now + d
  BY <1>1 DEF trip_circuit_breaker, AgentState
<1>8. QED
  BY Zenon, <1>3, <1>4, <1>5, <1>6, <1>7

(* The state of an agent that is seen for the first time. *)
LEMMA NewAgentOK == new_agent \in AgentState /\ IsFiniteSet(new_agent.stamps)
                    /\ new_agent.circuit_break = 0
<1>1. new_agent \in AgentState /\ new_agent.stamps = {} /\ new_agent.circuit_break = 0
  BY Zenon DEF new_agent, AgentState
<1>2. QED
  BY Zenon, <1>1, FS_EmptySet

(* The invariant holds at the start. *)
LEMMA InitOK == Init => IndInv
<1> SUFFICES ASSUME Init PROVE IndInv
  BY Zenon
<1>1. TypeOK
  BY Zenon DEF Init, TypeOK, RequestState, HaltState, idle, Pc
<1>2. RequestsOK /\ HoldersOK /\ LocalOK /\ FiniteOK /\ BoundOK /\ CacheClean
  BY Zenon DEF Init, RequestsOK, HoldersOK, LocalOK, FiniteOK, BoundOK, CacheClean, tripped,
         idle, Inside
<1>3. QED
  BY Zenon, <1>1, <1>2 DEF IndInv

-----------------------------------------------------------------------------
(* A step of one request *)

\* r becomes q and the entry of its agent a becomes s; nobody else holds the
\* mutex of a, or the step leaves the breaker alone.
LEMMA RequestStep ==
    ASSUME IndInv, NEW r \in Request, NEW a \in Agent, NEW s \in AgentState, NEW q \in RequestState,
           IsFiniteSet(s.stamps), s.circuit_break <= now + HaltSecs,
           q.agent = a, q.kind \in Kind,
           UNCHANGED <<now, banned, halt>>,
           agents' = [agents EXCEPT ![a] = s], req' = [req EXCEPT ![r] = q],
           cache' \subseteq [key : Key, at : Nat], remote' \subseteq [key : Key, at : Nat],
           holder' \in [Agent -> Request \cup {Nil}],
           \A b \in Agent \ {a} : holder'[b] = holder[b],
           req[r].agent = a,
           \/ holder[a] \in {Nil, r}
           \/ /\ agents[a] # Nil => s.circuit_break = agents[a].circuit_break
              /\ holder'[a] = holder[a],
           q.pc \in Inside => holder'[a] = r /\ s.circuit_break = 0,
           ~Remote => q.pc \notin {"remote", "fill", "publish"},
           \A e \in cache' : e \in cache \/ e.key.agent = a,
           ~Remote /\ now < s.circuit_break => \A e \in cache' : e.key.agent # a,
           tripped(a) => s.circuit_break >= agents[a].circuit_break,
           q.pc = "done" /\ q.decision = "Allow" => ~tripped(a)
    PROVE  IndInv' /\ Safe
<1>1. /\ req'[r] = q /\ \A x \in Request \ {r} : req'[x] = req[x]
      /\ agents'[a] = s /\ \A b \in Agent \ {a} : agents'[b] = agents[b]
      /\ s # Nil /\ Nil \notin Request
  BY Zenon, NilAssumption, GateAssumption DEF IndInv, TypeOK
<1>2. TypeOK'
  BY Zenon DEF IndInv, TypeOK
<1>3. RequestsOK'
  <2>1. ASSUME NEW x \in Request, req'[x].pc # "idle"
        PROVE  req'[x].agent \in Agent /\ req'[x].kind \in Kind
    BY <2>1, <1>1 DEF IndInv, RequestsOK
  <2>2. ASSUME NEW x \in Request, req'[x].pc \in {"hit", "main"} \cup Inside
        PROVE  agents'[req'[x].agent] # Nil
    BY <2>2, <1>1 DEF IndInv, RequestsOK, Inside
  <2>3. ASSUME NEW h \in Halt, NEW b \in halt[h].todo PROVE agents'[b] # Nil
    BY Zenon, <2>3, <1>1 DEF IndInv, RequestsOK, TypeOK, HaltState
  <2>4. QED
    BY Zenon, <2>1, <2>2, <2>3 DEF RequestsOK
<1>4. HoldersOK'
  <2>1. SUFFICES ASSUME NEW x \in Request, req'[x].pc \in Inside
                 PROVE  /\ holder'[req'[x].agent] = x
                        /\ agents'[req'[x].agent].circuit_break = 0
    BY Zenon DEF HoldersOK
  <2>2. CASE x = r
    BY <2>1, <2>2, <1>1
  <2>3. CASE x # r
    <3>1. /\ req[x].pc \in Inside /\ req'[x] = req[x] /\ req[x].agent \in Agent
          /\ holder[req[x].agent] = x /\ agents[req[x].agent].circuit_break = 0
          /\ agents[req[x].agent] # Nil
      BY Zenon, <2>1, <2>3, <1>1 DEF IndInv, RequestsOK, HoldersOK, Inside
    <3>2. QED
      BY <3>1, <2>3, <1>1
  <2>4. QED
    BY Zenon, <2>2, <2>3
<1>5. LocalOK'
  BY Zenon, <1>1 DEF IndInv, LocalOK
<1>6. FiniteOK' /\ BoundOK'
  BY Zenon, <1>1 DEF IndInv, FiniteOK, BoundOK
<1>7. CacheClean'
  <2>1. SUFFICES ASSUME ~Remote, NEW b \in Agent, agents'[b] # Nil,
                        now < agents'[b].circuit_break, NEW e \in cache'
                 PROVE  e.key.agent # b
    BY Zenon DEF CacheClean, tripped, circuit_break_active
  <2>2. QED
    BY Zenon, <2>1, <1>1 DEF IndInv, CacheClean, tripped, circuit_break_active
<1>8. Safe
  <2>1. ASSUME NEW x \in Request, answers(x, "Allow") PROVE ~tripped(req[x].agent)
    BY <2>1, <1>1 DEF answers, IndInv, TypeOK, RequestState
  <2>2. ASSUME NEW b \in Agent, tripped(b)
        PROVE  agents'[b].circuit_break >= agents[b].circuit_break
    <3>1. agents[b] \in AgentState
      BY Zenon, <2>2 DEF tripped, IndInv, TypeOK
    <3>2. QED
      BY <2>2, <3>1, <1>1 DEF AgentState
  <2>3. QED
    BY Zenon, <2>1, <2>2 DEF Safe
<1>9. QED
  BY Zenon, <1>2, <1>3, <1>4, <1>5, <1>6, <1>7, <1>8 DEF IndInv

\* r moves to where it neither holds nor goes for the mutex; holders may only
\* let go.
LEMMA QuietStep ==
    ASSUME IndInv, NEW r \in Request, NEW q \in RequestState,
           q.agent \in Agent, q.kind \in Kind,
           q.pc = "done" => q.decision # "Allow",
           q.pc \notin {"hit", "main"} \cup Inside,
           ~Remote => q.pc \notin {"remote", "fill", "publish"},
           req' = [req EXCEPT ![r] = q],
           UNCHANGED <<now, agents, remote, banned, halt>>,
           cache' \subseteq cache,
           holder' \in [Agent -> Request \cup {Nil}],
           \A b \in Agent : holder[b] # r => holder'[b] = holder[b]
    PROVE  IndInv' /\ Safe
<1>1. req'[r] = q /\ \A x \in Request \ {r} : req'[x] = req[x]
  BY Zenon DEF IndInv, TypeOK
<1>2. TypeOK'
  BY Zenon DEF IndInv, TypeOK
<1>3. RequestsOK' /\ LocalOK'
  BY Zenon, <1>1 DEF IndInv, RequestsOK, LocalOK
<1>4. HoldersOK'
  <2>1. SUFFICES ASSUME NEW x \in Request, req'[x].pc \in Inside
                 PROVE  /\ holder'[req'[x].agent] = x
                        /\ agents[req'[x].agent].circuit_break = 0
    BY Zenon DEF HoldersOK
  <2>2. x # r /\ req'[x] = req[x] /\ req[x].pc \in Inside
    BY Zenon, <2>1, <1>1
  <2>3. req[x].agent \in Agent
    BY Zenon, <2>2 DEF IndInv, RequestsOK, Inside
  <2>4. QED
    BY Zenon, <2>2, <2>3 DEF IndInv, HoldersOK
<1>5. FiniteOK' /\ BoundOK' /\ CacheClean'
  BY Zenon DEF IndInv, FiniteOK, BoundOK, CacheClean, tripped, circuit_break_active
<1>6. Safe
  <2>1. \A x \in Request : ~answers(x, "Allow")
    BY Zenon, <1>1 DEF answers
  <2>2. ASSUME NEW b \in Agent, tripped(b)
        PROVE  agents'[b].circuit_break >= agents[b].circuit_break
    BY <2>2 DEF tripped, IndInv, TypeOK, AgentState
  <2>3. QED
    BY Zenon, <2>1, <2>2 DEF Safe
<1>7. QED
  BY Zenon, <1>2, <1>3, <1>4, <1>5, <1>6 DEF IndInv

(* A request that arrives: the registry gate and the MCP guard. *)
LEMMA ArriveOK ==
    ASSUME IndInv, NEW r \in Request, NEW a \in Agent, NEW k \in Kind, NEW m \in BOOLEAN,
           Arrive(r, a, k, m)
    PROVE  IndInv' /\ Safe
<1> DEFINE q0 == [idle EXCEPT !.agent = a, !.kind = k, !.money = m]
           q1 == [q0 EXCEPT !.pc = "count"]
           q2 == [q0 EXCEPT !.pc = "done", !.decision = "Deny", !.at = now]
<1>1. /\ q1 \in RequestState /\ q1.agent = a /\ q1.kind = k /\ q1.pc = "count"
      /\ q1.decision = "None"
      /\ q2 \in RequestState /\ q2.agent = a /\ q2.kind = k /\ q2.pc = "done"
      /\ q2.decision = "Deny"
  BY Zenon DEF idle, RequestState, Pc, IndInv, TypeOK
<1>2. /\ req' = [req EXCEPT ![r] = q1] \/ req' = [req EXCEPT ![r] = q2]
      /\ UNCHANGED <<now, agents, holder, cache, remote, banned, halt>>
  BY Zenon DEF Arrive
<1> HIDE DEF q1, q2
<1>3. holder' \in [Agent -> Request \cup {Nil}]
  BY Zenon, <1>2 DEF IndInv, TypeOK
<1>4. CASE req' = [req EXCEPT ![r] = q1]
  BY Zenon, <1>1, <1>2, <1>3, <1>4, QuietStep DEF Inside
<1>5. CASE req' = [req EXCEPT ![r] = q2]
  BY Zenon, <1>1, <1>2, <1>3, <1>5, QuietStep DEF Inside
<1>6. QED
  BY Zenon, <1>2, <1>4, <1>5

\* A request that has arrived
LEMMA Arrived ==
    ASSUME IndInv, NEW r \in Request, req[r].pc # "idle"
    PROVE  /\ req[r].agent \in Agent /\ req[r].kind \in Kind /\ key(req[r]) \in Key
           /\ key(req[r]).agent = req[r].agent
  BY Zenon DEF IndInv, RequestsOK, TypeOK, RequestState, key, Key

\* The entry of an agent, made if need be
LEMMA EntryOK ==
    ASSUME IndInv, NEW a \in Agent
    PROVE  /\ entry(a) \in AgentState /\ IsFiniteSet(entry(a).stamps)
           /\ entry(a).circuit_break <= now + HaltSecs
           /\ agents[a] # Nil => entry(a) = agents[a]
           /\ ~tripped(a) => ~(now < entry(a).circuit_break)
<1>1. now \in Nat /\ HaltSecs \in Nat
  BY Zenon, GateAssumption DEF IndInv, TypeOK
<1>2. CASE agents[a] = Nil
  BY <1>1, <1>2, NewAgentOK DEF entry
<1>3. CASE agents[a] # Nil
  BY Zenon, <1>3 DEF entry, IndInv, TypeOK, FiniteOK, BoundOK, tripped, circuit_break_active
<1>4. QED
  BY Zenon, <1>2, <1>3

(* The count of the window that the cache key is made from. *)
LEMMA CountOK ==
    ASSUME IndInv, NEW r \in Request, Count(r)
    PROVE  IndInv' /\ Safe
<1> DEFINE a == req[r].agent
           n == Cardinality(entry(a).stamps) \div 2
           q == [req[r] EXCEPT !.pc = "lookup", !.bucket = n]
<1>1. req[r].pc # "idle" /\ req' = [req EXCEPT ![r] = q]
      /\ UNCHANGED <<now, agents, holder, cache, remote, banned, halt>>
  BY Zenon DEF Count, IndInv, TypeOK
<1>2. a \in Agent /\ req[r].kind \in Kind
  BY Zenon, <1>1, Arrived
<1>3. Cardinality(entry(a).stamps) \in Nat
  BY Zenon, <1>2, EntryOK, FS_CardinalityType
<1>4. n \in Nat
  BY <1>3
<1> HIDE DEF n
<1>5. q \in RequestState /\ q.pc = "lookup" /\ q.agent = a /\ q.kind = req[r].kind
  BY Zenon, <1>4 DEF IndInv, TypeOK, RequestState, Pc
<1> HIDE DEF q
<1>6. holder' \in [Agent -> Request \cup {Nil}]
  BY Zenon, <1>1 DEF IndInv, TypeOK
<1>7. QED
  BY Zenon, <1>1, <1>2, <1>5, <1>6, QuietStep DEF Inside

\* r goes for the mutex of its agent.
LEMMA Approaching ==
    ASSUME IndInv, NEW r \in Request, NEW pc \in {"hit", "main"}, req[r].pc # "idle",
           goto(r, pc), agents' = [agents EXCEPT ![req[r].agent] = entry(req[r].agent)],
           UNCHANGED <<now, holder, remote, banned, halt>>,
           cache' \subseteq [key : Key, at : Nat],
           ~Remote => cache' \subseteq cache,
           \A e \in cache' : e \in cache \/ e.key.agent = req[r].agent
    PROVE  IndInv' /\ Safe
<1> DEFINE a == req[r].agent
           s == entry(a)
           q == [req[r] EXCEPT !.pc = pc]
<1>1. a \in Agent /\ req[r].kind \in Kind
  BY Zenon, Arrived
<1>2. /\ q \in RequestState /\ q.pc = pc /\ q.agent = a /\ q.kind = req[r].kind
      /\ req' = [req EXCEPT ![r] = q] /\ agents' = [agents EXCEPT ![a] = s]
  BY Zenon DEF goto, Pc, IndInv, TypeOK, RequestState
<1> HIDE DEF q
<1>3. /\ s \in AgentState /\ IsFiniteSet(s.stamps) /\ s.circuit_break <= now + HaltSecs
      /\ agents[a] # Nil => s = agents[a]
      /\ ~tripped(a) => ~(now < s.circuit_break)
  BY Zenon, <1>1, EntryOK
<1>4. tripped(a) => s.circuit_break >= agents[a].circuit_break
  BY <1>3 DEF tripped, AgentState
<1> HIDE DEF s
<1>5. /\ holder' \in [Agent -> Request \cup {Nil}] /\ remote' \subseteq [key : Key, at : Nat]
      /\ holder' = holder
  BY Zenon DEF IndInv, TypeOK
<1>6. ~Remote /\ now < s.circuit_break => \A e \in cache' : e.key.agent # a
  BY Zenon, <1>1, <1>3 DEF IndInv, CacheClean
<1>7. q.pc \notin Inside \cup {"remote", "fill", "publish", "done"}
  BY Zenon, <1>2 DEF Inside
<1>8. \A e \in cache' : e \in cache \/ e.key.agent = a
  BY Zenon
<1> HIDE DEF a
<1>9. QED
  BY Zenon, <1>1, <1>2, <1>3, <1>4, <1>5, <1>6, <1>7, <1>8, RequestStep DEF a

\* A request that stays out of the critical section
LEMMA Wandering ==
    ASSUME IndInv, NEW r \in Request, NEW pc \in {"remote", "fill"}, Remote, req[r].pc # "idle",
           goto(r, pc), UNCHANGED <<now, agents, holder, remote, banned, halt>>,
           cache' \subseteq cache
    PROVE  IndInv' /\ Safe
<1> DEFINE q == [req[r] EXCEPT !.pc = pc]
<1>1. q \in RequestState /\ q.pc = pc /\ q.agent = req[r].agent /\ q.kind = req[r].kind
      /\ req' = [req EXCEPT ![r] = q]
  BY Zenon DEF goto, Pc, IndInv, TypeOK, RequestState
<1> HIDE DEF q
<1>2. holder' \in [Agent -> Request \cup {Nil}]
  BY Zenon DEF IndInv, TypeOK
<1>3. QED
  BY Zenon, <1>1, <1>2, Arrived, QuietStep DEF Inside

(* The look into the local cache. *)
LEMMA LookupOK ==
    ASSUME IndInv, NEW r \in Request, Lookup(r)
    PROVE  IndInv' /\ Safe
<1>1. req[r].pc # "idle" /\ UNCHANGED <<now, holder, remote, banned, halt>>
  BY Zenon DEF Lookup
<1>2. cache' \subseteq cache /\ cache' \subseteq [key : Key, at : Nat]
  BY Zenon DEF Lookup, after_get, IndInv, TypeOK
<1>3. CASE approach(r, "main")
  BY Zenon, <1>1, <1>2, <1>3, Approaching DEF approach
<1>4. CASE approach(r, "hit")
  BY Zenon, <1>1, <1>2, <1>4, Approaching DEF approach
<1>5. CASE Remote /\ goto(r, "remote") /\ UNCHANGED agents
  BY Zenon, <1>1, <1>2, <1>5, Wandering
<1>6. QED
  BY Zenon, <1>3, <1>4, <1>5 DEF Lookup

(* The look into the remote cache. *)
LEMMA RemoteGetOK ==
    ASSUME IndInv, NEW r \in Request, RemoteGet(r)
    PROVE  IndInv' /\ Safe
<1>1. /\ req[r].pc = "remote" /\ Remote
      /\ UNCHANGED <<now, holder, cache, remote, banned, halt>>
  BY Zenon, GateAssumption DEF RemoteGet, IndInv, LocalOK
<1>2. cache' \subseteq cache /\ cache' \subseteq [key : Key, at : Nat]
  BY Zenon, <1>1 DEF IndInv, TypeOK
<1>3. CASE approach(r, "main")
  BY Zenon, <1>1, <1>2, <1>3, Approaching DEF approach
<1>4. CASE goto(r, "fill") /\ UNCHANGED agents
  BY Zenon, <1>1, <1>2, <1>4, Wandering
<1>5. QED
  BY Zenon, <1>3, <1>4 DEF RemoteGet

\* insert_for adds an entry for its key and no other.
LEMMA InsertOK ==
    ASSUME IndInv, NEW k \in Key, NEW c \in insert_for(cache, k)
    PROVE  /\ c \subseteq [key : Key, at : Nat]
           /\ \A e \in c : e \in cache \/ e.key = k
<1>1. PICK kept \in evict(cache) : c = {e \in kept : e.key # k} \cup {[key |-> k, at |-> now]}
  BY Zenon DEF insert_for
<1>2. kept \subseteq cache
  BY Zenon DEF evict
<1>3. now \in Nat /\ cache \subseteq [key : Key, at : Nat]
  BY Zenon DEF IndInv, TypeOK
<1>4. QED
  BY <1>1, <1>2, <1>3

(* The local cache filled from the remote one. *)
LEMMA FillOK ==
    ASSUME IndInv, NEW r \in Request, Fill(r)
    PROVE  IndInv' /\ Safe
<1>1. /\ req[r].pc = "fill" /\ Remote /\ approach(r, "hit")
      /\ UNCHANGED <<now, holder, remote, banned, halt>>
      /\ cache' \in insert_for(cache, key(req[r]))
  BY Zenon, GateAssumption DEF Fill, IndInv, LocalOK
<1>2. key(req[r]) \in Key /\ key(req[r]).agent = req[r].agent
  BY Zenon, <1>1, Arrived
<1>3. /\ cache' \subseteq [key : Key, at : Nat]
      /\ \A e \in cache' : e \in cache \/ e.key = key(req[r])
  BY Zenon, <1>1, <1>2, InsertOK
<1>4. QED
  BY Zenon, <1>1, <1>2, <1>3, Approaching DEF approach

-----------------------------------------------------------------------------
(* Steps under the mutex *)

\* r answers d and leaves the entry s; the breaker was closed, or s keeps it.
LEMMA Answering ==
    ASSUME IndInv, NEW r \in Request, NEW d \in {"Allow", "Deny", "CircuitBreak"},
           NEW s \in AgentState, IsFiniteSet(s.stamps), s.circuit_break <= now + HaltSecs,
           req[r].pc # "idle", holder[req[r].agent] \in {Nil, r}, respond(r, d),
           agents' = [agents EXCEPT ![req[r].agent] = s],
           UNCHANGED <<now, banned, halt>>, remote' \subseteq [key : Key, at : Nat],
           holder' = holder \/ holder' = [holder EXCEPT ![req[r].agent] = Nil],
           cache' \subseteq [key : Key, at : Nat],
           \A e \in cache' : e \in cache \/ e.key.agent = req[r].agent,
           \/ ~(now < s.circuit_break) /\ ~tripped(req[r].agent)
           \/ /\ tripped(req[r].agent) => s.circuit_break >= agents[req[r].agent].circuit_break
              /\ d # "Allow" /\ \A e \in cache' : e.key.agent # req[r].agent
    PROVE  IndInv' /\ Safe
<1> DEFINE a == req[r].agent
           q == [req[r] EXCEPT !.pc = "done", !.decision = d, !.at = now]
<1>1. a \in Agent /\ req[r].kind \in Kind
  BY Zenon, Arrived
<1>2. /\ q \in RequestState /\ q.pc = "done" /\ q.agent = a /\ q.kind = req[r].kind
      /\ q.decision = d /\ req' = [req EXCEPT ![r] = q]
  <2>1. req[r] \in RequestState /\ now \in Nat
    BY Zenon DEF IndInv, TypeOK
  <2>2. q \in RequestState /\ q.pc = "done" /\ q.agent = a /\ q.kind = req[r].kind
        /\ q.decision = d
    BY Zenon, <2>1 DEF Pc, RequestState
  <2>3. req' = [req EXCEPT ![r] = q]
    BY Zenon DEF respond
  <2>4. QED
    BY Zenon, <2>2, <2>3
<1> HIDE DEF q
<1>3. /\ holder' \in [Agent -> Request \cup {Nil}]
      /\ \A b \in Agent \ {a} : holder'[b] = holder[b]
  BY Zenon DEF IndInv, TypeOK
<1>4. q.pc \notin Inside \cup {"remote", "fill", "publish"}
  BY Zenon, <1>2 DEF Inside
<1>5. /\ ~Remote /\ now < s.circuit_break => \A e \in cache' : e.key.agent # a
      /\ tripped(a) => s.circuit_break >= agents[a].circuit_break
      /\ q.decision = "Allow" => ~tripped(a)
      /\ \A e \in cache' : e \in cache \/ e.key.agent = a
      /\ agents' = [agents EXCEPT ![a] = s] /\ holder[a] \in {Nil, r} /\ req[r].agent = a
  BY Zenon, <1>2
<1> HIDE DEF a
<1>6. QED
  BY Zenon, <1>1, <1>2, <1>3, <1>4, <1>5, RequestStep

\* The entry that a request finds under the mutex
LEMMA Found ==
    ASSUME IndInv, NEW r \in Request, req[r].pc \in {"hit", "main"} \cup Inside
    PROVE  LET a == req[r].agent
               s == agents[a]
               clear == [s EXCEPT !.circuit_break = 0]
           IN  /\ req[r].pc # "idle" /\ a \in Agent /\ now \in Nat /\ HaltSecs \in Nat
               /\ s \in AgentState /\ IsFiniteSet(s.stamps)
               /\ s.circuit_break <= now + HaltSecs
               /\ tripped(a) <=> circuit_break_active(s)
               /\ clear \in AgentState /\ IsFiniteSet(clear.stamps) /\ clear.circuit_break = 0
<1>1. req[r].pc # "idle" /\ agents[req[r].agent] # Nil
  BY Zenon DEF IndInv, RequestsOK, Inside
<1>2. req[r].agent \in Agent
  BY Zenon, <1>1, Arrived
<1>3. now \in Nat /\ HaltSecs \in Nat
  BY Zenon, GateAssumption DEF IndInv, TypeOK
<1>4. /\ agents[req[r].agent] \in AgentState /\ IsFiniteSet(agents[req[r].agent].stamps)
      /\ agents[req[r].agent].circuit_break <= now + HaltSecs
  BY Zenon, <1>1, <1>2 DEF IndInv, TypeOK, FiniteOK, BoundOK
<1>5. tripped(req[r].agent) <=> circuit_break_active(agents[req[r].agent])
  BY Zenon, <1>1 DEF tripped
<1>6. LET clear == [agents[req[r].agent] EXCEPT !.circuit_break = 0]
      IN  /\ clear \in AgentState /\ clear.circuit_break = 0
          /\ clear.stamps = agents[req[r].agent].stamps
  BY Zenon, <1>4 DEF AgentState
<1>7. QED
  BY Zenon, <1>1, <1>2, <1>3, <1>4, <1>5, <1>6

\* What invalidate_agent leaves
LEMMA InvalidateOK ==
    ASSUME IndInv, NEW a \in Agent
    PROVE  LET c == invalidate_agent(cache, a)
           IN  /\ c \subseteq cache /\ c \subseteq [key : Key, at : Nat]
               /\ \A e \in c : e.key.agent # a
  BY Zenon DEF invalidate_agent, IndInv, TypeOK

(* An answer from the cache, given only while the breaker is closed. *)
LEMMA CachedAllowOK ==
    ASSUME IndInv, NEW r \in Request, CachedAllow(r)
    PROVE  IndInv' /\ Safe
<1> DEFINE a == req[r].agent
           s == agents[a]
           clear == [s EXCEPT !.circuit_break = 0]
<1>1. /\ req[r].pc = "hit" /\ holder[a] = Nil /\ UNCHANGED <<now, holder, remote, banned, halt>>
      /\ remote' \subseteq [key : Key, at : Nat]
  BY Zenon DEF CachedAllow, IndInv, TypeOK
<1>2. /\ req[r].pc # "idle" /\ a \in Agent /\ now \in Nat /\ HaltSecs \in Nat
      /\ s \in AgentState /\ IsFiniteSet(s.stamps) /\ s.circuit_break <= now + HaltSecs
      /\ tripped(a) <=> circuit_break_active(s)
      /\ clear \in AgentState /\ IsFiniteSet(clear.stamps) /\ clear.circuit_break = 0
  BY Zenon, <1>1, Found
<1>3. \/ /\ circuit_break_active(s) /\ agents' = [agents EXCEPT ![a] = pruned(s)]
         /\ cache' = invalidate_agent(cache, a) /\ respond(r, "CircuitBreak")
      \/ /\ ~circuit_break_active(s) /\ agents' = [agents EXCEPT ![a] = pruned(clear)]
         /\ respond(r, "Allow") /\ UNCHANGED cache
  BY Zenon DEF CachedAllow
<1>4. /\ pruned(s) \in AgentState /\ IsFiniteSet(pruned(s).stamps)
      /\ pruned(s).circuit_break = s.circuit_break
      /\ pruned(clear) \in AgentState /\ IsFiniteSet(pruned(clear).stamps)
      /\ pruned(clear).circuit_break = 0
  BY Zenon, <1>2, AgentOps DEF IndInv
<1> HIDE DEF s, clear
<1>5. CASE circuit_break_active(s) /\ agents' = [agents EXCEPT ![a] = pruned(s)]
           /\ cache' = invalidate_agent(cache, a) /\ respond(r, "CircuitBreak")
  <2>1. /\ cache' \subseteq cache /\ cache' \subseteq [key : Key, at : Nat]
        /\ \A e \in cache' : e.key.agent # a
    BY Zenon, <1>2, <1>5, InvalidateOK
  <2>2. s.circuit_break >= agents[a].circuit_break
    BY <1>2 DEF s, AgentState
  <2>3. QED
    BY Zenon, <1>1, <1>2, <1>4, <1>5, <2>1, <2>2, Answering
<1>6. CASE ~circuit_break_active(s) /\ agents' = [agents EXCEPT ![a] = pruned(clear)]
           /\ respond(r, "Allow") /\ UNCHANGED cache
  <2>1. cache' = cache /\ cache' \subseteq [key : Key, at : Nat]
    BY Zenon, <1>6 DEF IndInv, TypeOK
  <2>2. ~tripped(a) /\ ~(now < pruned(clear).circuit_break)
        /\ pruned(clear).circuit_break <= now + HaltSecs
    BY <1>2, <1>4, <1>6
  <2>3. QED
    BY Zenon, <1>1, <1>2, <1>4, <1>6, <2>1, <2>2, Answering
<1>7. QED
  BY Zenon, <1>3, <1>5, <1>6

(* A request that takes the mutex of its agent and reads the breaker. *)
LEMMA EnterOK ==
    ASSUME IndInv, NEW r \in Request, Enter(r)
    PROVE  IndInv' /\ Safe
<1> DEFINE a == req[r].agent
           s == agents[a]
           clear == [s EXCEPT !.circuit_break = 0]
           noted == pruned(record_action(clear, r))
           broken == pruned(trip_circuit_breaker(clear, BreakSecs))
<1>1. /\ req[r].pc = "main" /\ holder[a] = Nil /\ UNCHANGED <<now, remote, banned, halt>>
      /\ remote' \subseteq [key : Key, at : Nat]
      /\ holder \in [Agent -> Request \cup {Nil}] /\ cache \subseteq [key : Key, at : Nat]
  BY Zenon DEF Enter, IndInv, TypeOK
<1>2. /\ req[r].pc # "idle" /\ a \in Agent /\ now \in Nat /\ HaltSecs \in Nat
      /\ s \in AgentState /\ IsFiniteSet(s.stamps) /\ s.circuit_break <= now + HaltSecs
      /\ tripped(a) <=> circuit_break_active(s)
      /\ clear \in AgentState /\ IsFiniteSet(clear.stamps) /\ clear.circuit_break = 0
  BY Zenon, <1>1, Found
<1>3. \/ /\ circuit_break_active(s) /\ agents' = [agents EXCEPT ![a] = pruned(s)]
         /\ cache' = invalidate_agent(cache, a) /\ respond(r, "CircuitBreak")
         /\ UNCHANGED holder
      \/ /\ ~circuit_break_active(s) /\ agents' = [agents EXCEPT ![a] = noted]
         /\ respond(r, "Deny") /\ UNCHANGED <<cache, holder>>
      \/ /\ ~circuit_break_active(s) /\ agents' = [agents EXCEPT ![a] = broken]
         /\ cache' = invalidate_agent(cache, a) /\ respond(r, "CircuitBreak")
         /\ UNCHANGED holder
      \/ /\ ~circuit_break_active(s) /\ agents' = [agents EXCEPT ![a] = clear]
         /\ holder' = [holder EXCEPT ![a] = r] /\ goto(r, "embed") /\ UNCHANGED cache
  BY Zenon DEF Enter
<1> HIDE DEF s, clear
<1>4. /\ pruned(s) \in AgentState /\ IsFiniteSet(pruned(s).stamps)
      /\ pruned(s).circuit_break = s.circuit_break
  BY Zenon, <1>2, AgentOps DEF IndInv
<1>5. /\ noted \in AgentState /\ IsFiniteSet(noted.stamps) /\ noted.circuit_break = 0
  <2>1. /\ record_action(clear, r) \in AgentState
        /\ IsFiniteSet(record_action(clear, r).stamps)
        /\ record_action(clear, r).circuit_break = 0
    BY Zenon, <1>2, AgentOps DEF IndInv
  <2>2. QED
    BY Zenon, <2>1, AgentOps DEF IndInv
<1>6. /\ broken \in AgentState /\ IsFiniteSet(broken.stamps)
      /\ broken.circuit_break <= now + HaltSecs
  <2>1. BreakSecs \in Nat /\ BreakSecs <= HaltSecs
    BY Zenon, GateAssumption
  <2>2. /\ trip_circuit_breaker(clear, BreakSecs) \in AgentState
        /\ IsFiniteSet(trip_circuit_breaker(clear, BreakSecs).stamps)
        /\ trip_circuit_breaker(clear, BreakSecs).circuit_break = now + BreakSecs
    BY Zenon, <1>2, <2>1, AgentOps DEF IndInv
  <2>3. /\ broken \in AgentState /\ IsFiniteSet(broken.stamps)
        /\ broken.circuit_break = now + BreakSecs
    BY Zenon, <2>2, AgentOps DEF IndInv
  <2>4. QED
    BY <2>1, <2>3, <1>2
<1> HIDE DEF noted, broken
<1>7. /\ invalidate_agent(cache, a) \subseteq cache
      /\ invalidate_agent(cache, a) \subseteq [key : Key, at : Nat]
      /\ \A e \in invalidate_agent(cache, a) : e.key.agent # a
  BY Zenon, <1>2, InvalidateOK
<1>8. CASE circuit_break_active(s) /\ agents' = [agents EXCEPT ![a] = pruned(s)]
           /\ cache' = invalidate_agent(cache, a) /\ respond(r, "CircuitBreak")
           /\ UNCHANGED holder
  <2>1. s.circuit_break >= agents[a].circuit_break
    BY <1>2 DEF s, AgentState
  <2>2. QED
    BY Zenon, <1>1, <1>2, <1>4, <1>7, <1>8, <2>1, Answering
<1>9. CASE ~circuit_break_active(s) /\ agents' = [agents EXCEPT ![a] = noted]
           /\ respond(r, "Deny") /\ UNCHANGED <<cache, holder>>
  <2>1. ~tripped(a) /\ ~(now < noted.circuit_break) /\ noted.circuit_break <= now + HaltSecs
    BY <1>2, <1>5, <1>9
  <2>2. QED
    BY Zenon, <1>1, <1>2, <1>5, <1>9, <2>1, Answering
<1>10. CASE ~circuit_break_active(s) /\ agents' = [agents EXCEPT ![a] = broken]
            /\ cache' = invalidate_agent(cache, a) /\ respond(r, "CircuitBreak")
            /\ UNCHANGED holder
  BY Zenon, <1>1, <1>2, <1>6, <1>7, <1>10, Answering
<1>11. CASE ~circuit_break_active(s) /\ agents' = [agents EXCEPT ![a] = clear]
            /\ holder' = [holder EXCEPT ![a] = r] /\ goto(r, "embed") /\ UNCHANGED cache
  <2> DEFINE q == [req[r] EXCEPT !.pc = "embed"]
  <2>1. q \in RequestState /\ q.pc = "embed" /\ q.agent = a /\ q.kind = req[r].kind
        /\ req' = [req EXCEPT ![r] = q]
    BY Zenon, <1>11 DEF goto, Pc, IndInv, TypeOK, RequestState
  <2> HIDE DEF q
  <2>2. holder' \in [Agent -> Request \cup {Nil}] /\ holder'[a] = r
        /\ \A b \in Agent \ {a} : holder'[b] = holder[b]
    BY Zenon, <1>1, <1>2, <1>11
  <2>3. clear.circuit_break <= now + HaltSecs /\ ~(now < clear.circuit_break) /\ ~tripped(a)
    BY <1>2, <1>11
  <2>4. req[r].kind \in Kind
    BY Zenon, <1>2, Arrived
  <2>5. req[r].agent = a
    BY Zenon
  <2> HIDE DEF a
  <2>6. QED
    BY Zenon, <1>1, <1>2, <1>11, <2>1, <2>2, <2>3, <2>4, <2>5, RequestStep
<1>12. QED
  BY Zenon, <1>3, <1>8, <1>9, <1>10, <1>11

\* A request inside its critical section: its agent's breaker is closed.
LEMMA Within ==
    ASSUME IndInv, NEW r \in Request, req[r].pc \in Inside
    PROVE  LET s == agents[req[r].agent]
           IN  /\ req[r].pc # "idle" /\ req[r].agent \in Agent /\ now \in Nat /\ HaltSecs \in Nat
               /\ s \in AgentState /\ IsFiniteSet(s.stamps) /\ s.circuit_break = 0
               /\ holder[req[r].agent] = r /\ ~tripped(req[r].agent)
               /\ pruned(s) \in AgentState /\ IsFiniteSet(pruned(s).stamps)
               /\ pruned(s).circuit_break = 0
               /\ pruned(record_action(s, r)) \in AgentState
               /\ IsFiniteSet(pruned(record_action(s, r)).stamps)
               /\ pruned(record_action(s, r)).circuit_break = 0
<1> DEFINE s == agents[req[r].agent]
<1>1. /\ req[r].pc # "idle" /\ req[r].agent \in Agent /\ now \in Nat /\ HaltSecs \in Nat
      /\ s \in AgentState /\ IsFiniteSet(s.stamps)
      /\ tripped(req[r].agent) <=> now < s.circuit_break
  BY Zenon, Found DEF circuit_break_active
<1>2. holder[req[r].agent] = r /\ s.circuit_break = 0
  BY Zenon DEF IndInv, HoldersOK
<1> HIDE DEF s
<1>3. ~tripped(req[r].agent)
  BY <1>1, <1>2
<1>4. /\ pruned(s) \in AgentState /\ IsFiniteSet(pruned(s).stamps) /\ pruned(s).circuit_break = 0
      /\ record_action(s, r) \in AgentState /\ IsFiniteSet(record_action(s, r).stamps)
      /\ record_action(s, r).circuit_break = 0
  BY Zenon, <1>1, <1>2, AgentOps DEF IndInv
<1>5. /\ pruned(record_action(s, r)) \in AgentState
      /\ IsFiniteSet(pruned(record_action(s, r)).stamps)
      /\ pruned(record_action(s, r)).circuit_break = 0
  BY Zenon, <1>4, AgentOps DEF IndInv
<1>6. QED
  BY Zenon, <1>1, <1>2, <1>3, <1>4, <1>5 DEF s

\* It leaves with the breaker closed.
LEMMA Leaving ==
    ASSUME IndInv, NEW r \in Request, req[r].pc \in Inside,
           NEW d \in {"Allow", "Deny", "CircuitBreak"}, NEW s \in AgentState,
           IsFiniteSet(s.stamps), s.circuit_break = 0, leave(r, s, d),
           UNCHANGED <<now, banned, halt>>, remote' \subseteq [key : Key, at : Nat],
           cache' \subseteq [key : Key, at : Nat],
           \A e \in cache' : e \in cache \/ e.key.agent = req[r].agent
    PROVE  IndInv' /\ Safe
<1>1. /\ req[r].pc # "idle" /\ now \in Nat /\ HaltSecs \in Nat
      /\ holder[req[r].agent] = r /\ ~tripped(req[r].agent)
  BY Zenon, Within
<1>2. ~(now < s.circuit_break) /\ s.circuit_break <= now + HaltSecs
  BY <1>1
<1>3. QED
  BY Zenon, <1>1, <1>2, Answering DEF leave

\* It goes on to another await of the section.
LEMMA Staying ==
    ASSUME IndInv, NEW r \in Request, req[r].pc \in Inside,
           NEW pc \in {"enqueue", "publish"}, pc = "publish" => Remote, NEW s \in AgentState,
           IsFiniteSet(s.stamps), s.circuit_break = 0, goto(r, pc),
           agents' = [agents EXCEPT ![req[r].agent] = s],
           UNCHANGED <<now, banned, halt, holder, remote>>,
           cache' \subseteq [key : Key, at : Nat],
           \A e \in cache' : e \in cache \/ e.key.agent = req[r].agent
    PROVE  IndInv' /\ Safe
<1> DEFINE a == req[r].agent
           q == [req[r] EXCEPT !.pc = pc]
<1>1. /\ req[r].pc # "idle" /\ a \in Agent /\ now \in Nat /\ HaltSecs \in Nat
      /\ holder[a] = r /\ ~tripped(a)
  BY Zenon, Within
<1>2. ~(now < s.circuit_break) /\ s.circuit_break <= now + HaltSecs
  BY <1>1
<1>3. /\ q \in RequestState /\ q.pc = pc /\ q.agent = a /\ q.kind = req[r].kind
      /\ req' = [req EXCEPT ![r] = q]
  BY Zenon DEF goto, Pc, IndInv, TypeOK, RequestState
<1> HIDE DEF q
<1>4. /\ holder' \in [Agent -> Request \cup {Nil}] /\ holder' = holder
      /\ remote' \subseteq [key : Key, at : Nat]
  BY Zenon DEF IndInv, TypeOK
<1>5. req[r].kind \in Kind
  BY Zenon, <1>1, Arrived
<1>6. /\ req[r].agent = a /\ agents' = [agents EXCEPT ![a] = s]
      /\ \A e \in cache' : e \in cache \/ e.key.agent = a
      /\ ~Remote => q.pc \notin {"remote", "fill", "publish"}
      /\ q.pc # "done"
  BY Zenon, <1>3
<1> HIDE DEF a
<1>7. QED
  BY Zenon, <1>1, <1>2, <1>3, <1>4, <1>5, <1>6, RequestStep

(* The answers that neither trip nor record an allowed action, and deferral and publication, under the mutex. *)
LEMMA InsideOK ==
    ASSUME IndInv, NEW r \in Request,
           Refuse(r) \/ Defer(r) \/ Deferred(r) \/ PolicyDeny(r) \/ Publish(r)
    PROVE  IndInv' /\ Safe
<1> DEFINE s == agents[req[r].agent]
<1>1. /\ req[r].pc \in Inside /\ UNCHANGED <<now, cache, banned, halt>>
      /\ cache' \subseteq [key : Key, at : Nat]
  BY Zenon DEF Refuse, Defer, Deferred, PolicyDeny, Publish, Inside, IndInv, TypeOK
<1>2. /\ req[r].pc # "idle" /\ req[r].agent \in Agent
      /\ s \in AgentState /\ IsFiniteSet(s.stamps) /\ s.circuit_break = 0
      /\ pruned(s) \in AgentState /\ IsFiniteSet(pruned(s).stamps) /\ pruned(s).circuit_break = 0
      /\ pruned(record_action(s, r)) \in AgentState
      /\ IsFiniteSet(pruned(record_action(s, r)).stamps)
      /\ pruned(record_action(s, r)).circuit_break = 0
  BY Zenon, <1>1, Within
<1>3. remote \subseteq [key : Key, at : Nat] /\ now \in Nat
  BY Zenon DEF IndInv, TypeOK
<1>4. CASE Refuse(r) \/ Deferred(r)
  BY Zenon, <1>1, <1>2, <1>3, <1>4, Leaving DEF Refuse, Deferred
<1>5. CASE PolicyDeny(r)
  BY Zenon, <1>1, <1>2, <1>3, <1>5, Leaving DEF PolicyDeny
<1>6. CASE Defer(r)
  <2>1. agents' = [agents EXCEPT ![req[r].agent] = s]
    BY Zenon, <1>2, <1>6 DEF Defer, IndInv, TypeOK
  <2>2. QED
    BY Zenon, <1>1, <1>2, <1>3, <1>6, <2>1, Staying DEF Defer
<1>7. CASE Publish(r)
  <2>1. key(req[r]) \in Key
    BY Zenon, <1>2, Arrived
  <2>2. remote' \subseteq [key : Key, at : Nat]
    BY <1>3, <1>7, <2>1 DEF Publish
  <2>3. QED
    BY Zenon, <1>1, <1>2, <1>7, <2>2, Leaving DEF Publish
<1>8. QED
  BY Zenon, <1>4, <1>5, <1>6, <1>7

(* A gate that trips the breaker. *)
LEMMA BreakOK ==
    ASSUME IndInv, NEW r \in Request, Break(r)
    PROVE  IndInv' /\ Safe
<1> DEFINE a == req[r].agent
           t == trip_circuit_breaker(pruned(agents[a]), BreakSecs)
<1>1. /\ req[r].pc \in Inside /\ leave(r, t, "CircuitBreak")
      /\ cache' = invalidate_agent(cache, a) /\ UNCHANGED <<now, remote, banned, halt>>
      /\ remote' \subseteq [key : Key, at : Nat]
  BY Zenon DEF Break, Inside, IndInv, TypeOK
<1>2. /\ req[r].pc # "idle" /\ a \in Agent /\ now \in Nat /\ HaltSecs \in Nat
      /\ pruned(agents[a]) \in AgentState /\ IsFiniteSet(pruned(agents[a]).stamps)
      /\ holder[a] = r /\ ~tripped(a)
  BY Zenon, <1>1, Within
<1>3. BreakSecs \in Nat /\ BreakSecs <= HaltSecs
  BY Zenon, GateAssumption
<1>4. t \in AgentState /\ IsFiniteSet(t.stamps) /\ t.circuit_break = now + BreakSecs
  BY Zenon, <1>2, <1>3, AgentOps DEF IndInv
<1>5. t.circuit_break <= now + HaltSecs
  BY <1>2, <1>3, <1>4
<1>6. /\ cache' \subseteq cache /\ cache' \subseteq [key : Key, at : Nat]
      /\ \A e \in cache' : e.key.agent # a
  BY Zenon, <1>1, <1>2, InvalidateOK
<1> HIDE DEF t
<1>7. QED
  BY Zenon, <1>1, <1>2, <1>4, <1>5, <1>6, Answering DEF leave

(* A request that passes all gates, is recorded and cached. *)
LEMMA PassOK ==
    ASSUME IndInv, NEW r \in Request, Pass(r)
    PROVE  IndInv' /\ Safe
<1> DEFINE s == pruned(record_action(agents[req[r].agent], r))
<1>1. /\ req[r].pc \in Inside /\ UNCHANGED <<now, remote, banned, halt>>
      /\ remote' \subseteq [key : Key, at : Nat]
  BY Zenon DEF Pass, Inside, IndInv, TypeOK
<1>2. /\ req[r].pc # "idle" /\ req[r].agent \in Agent
      /\ s \in AgentState /\ IsFiniteSet(s.stamps) /\ s.circuit_break = 0
  BY Zenon, <1>1, Within
<1>3. key(req[r]) \in Key /\ key(req[r]).agent = req[r].agent
  BY Zenon, <1>2, Arrived
<1>4. /\ cache' \subseteq [key : Key, at : Nat]
      /\ \A e \in cache' : e \in cache \/ e.key.agent = req[r].agent
  <2>1. CASE UNCHANGED cache
    BY Zenon, <2>1 DEF IndInv, TypeOK
  <2>2. CASE cache' \in insert_for(cache, key(req[r]))
    <3>1. /\ cache' \subseteq [key : Key, at : Nat]
          /\ \A e \in cache' : e \in cache \/ e.key = key(req[r])
      BY Zenon, <2>2, <1>3, InsertOK
    <3>2. QED
      BY Zenon, <3>1, <1>3
  <2>3. QED
    BY Zenon, <2>1, <2>2 DEF Pass
<1>5. \/ leave(r, s, "Allow")
      \/ /\ Remote /\ goto(r, "publish") /\ UNCHANGED holder
         /\ agents' = [agents EXCEPT ![req[r].agent] = s]
  BY Zenon DEF Pass
<1> HIDE DEF s
<1>6. CASE leave(r, s, "Allow")
  BY Zenon, <1>1, <1>2, <1>4, <1>6, Leaving
<1>7. CASE /\ Remote /\ goto(r, "publish") /\ UNCHANGED holder
           /\ agents' = [agents EXCEPT ![req[r].agent] = s]
  BY Zenon, <1>1, <1>2, <1>4, <1>7, Staying
<1>8. QED
  BY Zenon, <1>5, <1>6, <1>7

(* A request that is dropped, whatever it holds. *)
LEMMA CancelOK ==
    ASSUME IndInv, NEW r \in Request, Cancel(r)
    PROVE  IndInv' /\ Safe
<1> DEFINE q == [req[r] EXCEPT !.pc = "dropped"]
<1>1. /\ req[r].pc # "idle" /\ UNCHANGED <<now, agents, remote, banned, halt>>
      /\ cache' \subseteq cache
  BY Zenon DEF Cancel, Awaiting, Inside
<1>2. /\ q \in RequestState /\ q.pc = "dropped" /\ q.agent = req[r].agent
      /\ q.kind = req[r].kind /\ req' = [req EXCEPT ![r] = q]
  BY Zenon DEF Cancel, goto, Pc, IndInv, TypeOK, RequestState
<1> HIDE DEF q
<1>3. /\ holder' \in [Agent -> Request \cup {Nil}]
      /\ \A b \in Agent : holder[b] # r => holder'[b] = holder[b]
  BY Zenon DEF Cancel, IndInv, TypeOK
<1>4. req[r].agent \in Agent /\ req[r].kind \in Kind
  BY Zenon, <1>1, Arrived
<1>5. QED
  BY Zenon, <1>1, <1>2, <1>3, <1>4, QuietStep DEF Inside

-----------------------------------------------------------------------------
(* Halts and the environment *)

\* A halt, or nobody, changes an entry; nobody holds the mutex if the breaker
\* moves.
LEMMA HaltingStep ==
    ASSUME IndInv, NEW a \in Agent, NEW s \in AgentState, IsFiniteSet(s.stamps),
           s.circuit_break <= now + HaltSecs,
           agents' = [agents EXCEPT ![a] = s], UNCHANGED <<now, holder, remote, banned, req>>,
           halt' \in [Halt -> HaltState], \A h \in Halt : halt'[h].todo \subseteq halt[h].todo \cup {a},
           cache' \subseteq cache,
           \/ holder[a] = Nil
           \/ agents[a] # Nil => s.circuit_break = agents[a].circuit_break,
           now < s.circuit_break => tripped(a) \/ \A e \in cache' : e.key.agent # a,
           tripped(a) => s.circuit_break >= agents[a].circuit_break
    PROVE  IndInv' /\ Safe
<1>1. /\ agents'[a] = s /\ \A b \in Agent \ {a} : agents'[b] = agents[b]
      /\ s # Nil /\ Nil \notin Request
  BY Zenon, NilAssumption, GateAssumption DEF IndInv, TypeOK
<1>2. TypeOK' /\ LocalOK'
  BY Zenon DEF IndInv, TypeOK, LocalOK
<1>3. RequestsOK'
  <2>1. ASSUME NEW x \in Request, req[x].pc \in {"hit", "main"} \cup Inside
        PROVE  agents'[req[x].agent] # Nil
    BY Zenon, <2>1, <1>1 DEF IndInv, RequestsOK, Inside
  <2>2. ASSUME NEW h \in Halt, NEW b \in halt'[h].todo PROVE agents'[b] # Nil
    BY Zenon, <2>2, <1>1 DEF IndInv, RequestsOK, TypeOK, HaltState
  <2>3. QED
    BY Zenon, <2>1, <2>2 DEF IndInv, RequestsOK
<1>4. HoldersOK'
  <2>1. SUFFICES ASSUME NEW x \in Request, req[x].pc \in Inside
                 PROVE  agents'[req[x].agent].circuit_break = 0
    BY Zenon DEF IndInv, HoldersOK
  <2>2. /\ req[x].agent \in Agent /\ holder[req[x].agent] = x
        /\ agents[req[x].agent].circuit_break = 0 /\ agents[req[x].agent] # Nil
    BY Zenon, <2>1 DEF IndInv, RequestsOK, HoldersOK, Inside
  <2>3. QED
    BY Zenon, <2>2, <1>1
<1>5. FiniteOK' /\ BoundOK'
  BY Zenon, <1>1 DEF IndInv, FiniteOK, BoundOK
<1>6. CacheClean'
  <2>1. SUFFICES ASSUME ~Remote, NEW b \in Agent, agents'[b] # Nil,
                        now < agents'[b].circuit_break, NEW e \in cache'
                 PROVE  e.key.agent # b
    BY Zenon DEF CacheClean, tripped, circuit_break_active
  <2>2. QED
    BY Zenon, <2>1, <1>1 DEF IndInv, CacheClean, tripped, circuit_break_active
<1>7. Safe
  <2>1. \A x \in Request : ~answers(x, "Allow")
    BY Zenon DEF answers
  <2>2. ASSUME NEW b \in Agent, tripped(b)
        PROVE  agents'[b].circuit_break >= agents[b].circuit_break
    <3>1. agents[b] \in AgentState
      BY Zenon, <2>2 DEF tripped, IndInv, TypeOK
    <3>2. QED
      BY <2>2, <3>1, <1>1 DEF AgentState
  <2>3. QED
    BY Zenon, <2>1, <2>2 DEF Safe
<1>8. QED
  BY Zenon, <1>2, <1>3, <1>4, <1>5, <1>6, <1>7 DEF IndInv

(* A halt of one agent that begins. *)
LEMMA ForceHaltOK ==
    ASSUME IndInv, NEW h \in Halt, NEW a \in Agent, ForceHalt(h, a)
    PROVE  IndInv' /\ Safe
<1> DEFINE s == entry(a)
<1>1. /\ s \in AgentState /\ IsFiniteSet(s.stamps) /\ s.circuit_break <= now + HaltSecs
      /\ agents[a] # Nil => s = agents[a]
      /\ ~tripped(a) => ~(now < s.circuit_break)
  BY Zenon, EntryOK
<1>2. tripped(a) => s.circuit_break >= agents[a].circuit_break
  BY <1>1 DEF tripped, AgentState
<1>3. /\ agents' = [agents EXCEPT ![a] = s] /\ UNCHANGED <<now, holder, cache, remote, banned, req>>
  BY Zenon DEF ForceHalt
<1>halt. /\ halt' \in [Halt -> HaltState]
         /\ \A g \in Halt : halt'[g].todo \subseteq halt[g].todo \cup {a}
  <2>1. halt \in [Halt -> HaltState]
    BY Zenon DEF IndInv, TypeOK
  <2>2. halt' = [halt EXCEPT ![h].pc = "force", ![h].todo = {a}]
    BY Zenon DEF ForceHalt
  <2>3. QED
    BY Zenon, <2>1, <2>2 DEF HaltState
<1> HIDE DEF s
<1>4. QED
  BY Zenon, <1>1, <1>2, <1>3, <1>halt, HaltingStep

(* A halt that trips the breaker and clears the cache. *)
LEMMA TripOK ==
    ASSUME IndInv, NEW h \in Halt, NEW a \in Agent, Trip(h, a)
    PROVE  IndInv' /\ Safe
<1> DEFINE s == trip_circuit_breaker(agents[a], HaltSecs)
<1>1. agents[a] # Nil
  BY Zenon DEF Trip, IndInv, RequestsOK
<1>2. /\ agents[a] \in AgentState /\ IsFiniteSet(agents[a].stamps)
      /\ agents[a].circuit_break <= now + HaltSecs /\ now \in Nat /\ HaltSecs \in Nat
  BY Zenon, <1>1, GateAssumption DEF IndInv, TypeOK, FiniteOK, BoundOK
<1>3. s \in AgentState /\ IsFiniteSet(s.stamps) /\ s.circuit_break = now + HaltSecs
  BY <1>2 DEF trip_circuit_breaker, AgentState
<1>4. /\ agents' = [agents EXCEPT ![a] = s] /\ UNCHANGED <<now, holder, remote, banned, req>>
      /\ cache' = invalidate_agent(cache, a) /\ holder[a] = Nil
  BY Zenon DEF Trip
<1>5. /\ halt' \in [Halt -> HaltState]
      /\ \A g \in Halt : halt'[g].todo \subseteq halt[g].todo \cup {a}
  <2> DEFINE g == [halt[h] EXCEPT !.todo = @ \ {a}, !.halted = @ \cup {a}]
  <2>1. halt \in [Halt -> HaltState]
    BY Zenon DEF IndInv, TypeOK
  <2>2. g \in HaltState /\ g.todo = halt[h].todo \ {a}
    BY Zenon, <2>1 DEF HaltState
  <2>3. halt' = [halt EXCEPT ![h] = g]
    BY Zenon DEF Trip
  <2> HIDE DEF g
  <2>4. QED
    BY Zenon, <2>1, <2>2, <2>3
<1>6. cache' \subseteq cache /\ \A e \in cache' : e.key.agent # a
  BY Zenon, <1>4, InvalidateOK
<1>7. s.circuit_break <= now + HaltSecs /\ s.circuit_break >= agents[a].circuit_break
  BY <1>2, <1>3 DEF AgentState
<1> HIDE DEF s
<1>8. QED
  BY Zenon, <1>3, <1>4, <1>5, <1>6, <1>7, HaltingStep

\* Steps that leave entries, caches, holders and requests alone
LEMMA IdleStep ==
    ASSUME IndInv, UNCHANGED <<agents, holder, cache, remote, req>>, now' \in Nat, now' >= now,
           banned' \subseteq Kind, halt' \in [Halt -> HaltState],
           \A h \in Halt : \A a \in halt'[h].todo : agents[a] # Nil
    PROVE  IndInv' /\ Safe
<1>1. TypeOK' /\ RequestsOK' /\ HoldersOK' /\ LocalOK' /\ FiniteOK'
  BY Zenon DEF IndInv, TypeOK, RequestsOK, HoldersOK, LocalOK, FiniteOK
<1>2. ASSUME NEW a \in Agent, agents[a] # Nil
      PROVE  /\ agents[a].circuit_break \in Nat /\ now \in Nat /\ HaltSecs \in Nat
             /\ agents[a].circuit_break <= now + HaltSecs
  BY Zenon, <1>2, GateAssumption DEF IndInv, TypeOK, AgentState, BoundOK
<1>3. BoundOK'
  BY <1>2 DEF BoundOK
<1>4. CacheClean'
  <2>1. SUFFICES ASSUME ~Remote, NEW a \in Agent, agents[a] # Nil,
                        now' < agents[a].circuit_break
                 PROVE  \A e \in cache : e.key.agent # a
    BY Zenon DEF CacheClean, tripped, circuit_break_active
  <2>2. now < agents[a].circuit_break
    BY <2>1, <1>2
  <2>3. QED
    BY Zenon, <2>1, <2>2 DEF IndInv, CacheClean, tripped, circuit_break_active
<1>5. Safe
  BY <1>2 DEF Safe, answers, tripped
<1>6. QED
  BY Zenon, <1>1, <1>3, <1>4, <1>5 DEF IndInv

(* The steps that touch no agent: the clock, a push of rules, halts that begin, skip or return. *)
LEMMA OtherOK ==
    ASSUME IndInv,
           \/ Tick \/ UNCHANGED vars \/ \E k \in Kind : PushPolicy(k)
           \/ \E h \in Halt : EmergencyHalt(h) \/ HaltReturns(h) \/ \E a \in Agent : Skip(h, a)
    PROVE  IndInv' /\ Safe
<1>1. /\ now \in Nat /\ banned \subseteq Kind /\ halt \in [Halt -> HaltState]
      /\ \A h \in Halt : \A a \in halt[h].todo : agents[a] # Nil
  BY Zenon DEF IndInv, TypeOK, RequestsOK
<1>2. CASE Tick
  <2>1. /\ now' \in Nat /\ now' >= now
        /\ UNCHANGED <<agents, holder, cache, remote, banned, req, halt>>
    BY <1>1, <1>2 DEF Tick
  <2>2. QED
    BY Zenon, <1>1, <2>1, IdleStep
<1>3. CASE UNCHANGED vars
  <2>1. /\ now' \in Nat /\ now' >= now
        /\ UNCHANGED <<agents, holder, cache, remote, banned, req, halt>>
    BY <1>1, <1>3 DEF vars
  <2>2. QED
    BY Zenon, <1>1, <2>1, IdleStep
<1>4. ASSUME NEW k \in Kind, PushPolicy(k) PROVE IndInv' /\ Safe
  <2>1. /\ now' \in Nat /\ now' >= now /\ banned' \subseteq Kind
        /\ UNCHANGED <<agents, holder, cache, remote, req, halt>>
    BY <1>1, <1>4 DEF PushPolicy
  <2>2. QED
    BY Zenon, <1>1, <2>1, IdleStep
<1>5. ASSUME NEW h \in Halt, EmergencyHalt(h) PROVE IndInv' /\ Safe
  <2>1. /\ halt' \in [Halt -> HaltState]
        /\ \A g \in Halt : \A a \in halt'[g].todo : agents[a] # Nil
    BY Zenon, <1>1, <1>5 DEF EmergencyHalt, HaltState
  <2>2. UNCHANGED <<now, agents, holder, cache, remote, banned, req>>
    BY Zenon, <1>5 DEF EmergencyHalt
  <2>3. QED
    BY <1>1, <2>1, <2>2, IdleStep
<1>6. ASSUME NEW h \in Halt, HaltReturns(h) PROVE IndInv' /\ Safe
  <2>1. /\ halt' \in [Halt -> HaltState]
        /\ \A g \in Halt : \A a \in halt'[g].todo : agents[a] # Nil
    BY Zenon, <1>1, <1>6 DEF HaltReturns, HaltState
  <2>2. UNCHANGED <<now, agents, holder, cache, remote, banned, req>>
    BY Zenon, <1>6 DEF HaltReturns
  <2>3. QED
    BY <1>1, <2>1, <2>2, IdleStep
<1>7. ASSUME NEW h \in Halt, NEW a \in Agent, Skip(h, a) PROVE IndInv' /\ Safe
  <2> DEFINE g == [halt[h] EXCEPT !.todo = @ \ {a}, !.skipped = @ \cup {a}]
  <2>1. g \in HaltState /\ g.todo = halt[h].todo \ {a}
    BY Zenon, <1>1 DEF HaltState
  <2>2. halt' = [halt EXCEPT ![h] = g]
    BY Zenon, <1>7 DEF Skip
  <2> HIDE DEF g
  <2>3. /\ halt' \in [Halt -> HaltState]
        /\ \A x \in Halt : \A b \in halt'[x].todo : agents[b] # Nil
    BY Zenon, <1>1, <2>1, <2>2
  <2>4. QED
    BY <1>1, <1>7, <2>3, IdleStep DEF Skip
<1>8. QED
  BY Zenon, <1>2, <1>3, <1>4, <1>5, <1>6, <1>7

-----------------------------------------------------------------------------
(* The theorems *)

(* Every step keeps the invariant and does nothing that is forbidden. *)
LEMMA StepOK == IndInv /\ [Next]_vars => IndInv' /\ Safe
<1> SUFFICES ASSUME IndInv, [Next]_vars PROVE IndInv' /\ Safe
  BY Zenon
<1>1. CASE UNCHANGED vars
  BY Zenon, <1>1, OtherOK
<1>2. CASE Tick \/ \E k \in Kind : PushPolicy(k)
  BY Zenon, <1>2, OtherOK
<1>3. CASE \E r \in Request, a \in Agent, k \in Kind, m \in BOOLEAN : Arrive(r, a, k, m)
  BY Zenon, <1>3, ArriveOK
<1>4. ASSUME NEW r \in Request, Acquire(r) PROVE IndInv' /\ Safe
  BY Zenon, <1>4, CountOK, CachedAllowOK, EnterOK DEF Acquire
<1>5. ASSUME NEW r \in Request, Run(r) PROVE IndInv' /\ Safe
  BY Zenon, <1>5, LookupOK, RemoteGetOK, FillOK, InsideOK, BreakOK, PassOK DEF Run
<1>6. ASSUME NEW r \in Request, Cancel(r) PROVE IndInv' /\ Safe
  BY Zenon, <1>6, CancelOK
<1>7. ASSUME NEW h \in Halt, NEW a \in Agent, ForceHalt(h, a) PROVE IndInv' /\ Safe
  BY Zenon, <1>7, ForceHaltOK
<1>8. ASSUME NEW h \in Halt, EmergencyHalt(h) \/ HaltStep(h) PROVE IndInv' /\ Safe
  BY Zenon, <1>8, OtherOK, TripOK DEF HaltStep
<1>9. QED
  BY Zenon, <1>1, <1>2, <1>3, <1>4, <1>5, <1>6, <1>7, <1>8 DEF Next

\* IndInv holds in every reachable state, for every number of agents, requests
\* and halts, every limit and duration, and with or without a remote cache.
THEOREM GateInvariance == Spec => []IndInv
<1>1. IndInv /\ [Next]_vars => IndInv'
  BY Zenon, StepOK
<1>2. QED
  BY InitOK, <1>1, PTL DEF Spec

\* The state of AppState, its requests and its halts keeps its type.
THEOREM GateTypeCorrect == Spec => []TypeOK
<1>1. IndInv => TypeOK
  BY Zenon DEF IndInv
<1>2. QED
  BY GateInvariance, <1>1, PTL

\* Without a remote cache, no ALLOW of an agent with an open breaker is cached:
\* trip_circuit_breaker and invalidate_agent are one step under the mutex, and
\* so are the breaker check and insert_for.
THEOREM TrippedIsUncached == Spec => []CacheClean
<1>1. IndInv => CacheClean
  BY Zenon DEF IndInv
<1>2. QED
  BY GateInvariance, <1>1, PTL

\* validate_inner never answers ALLOW while the agent's breaker is open.
THEOREM NeverAllowsTripped == Spec => NoAllowWhileTripped
<1>1. IndInv /\ [Next]_vars =>
        [\A r \in Request : answers(r, "Allow") => ~tripped(req[r].agent)]_vars
  BY Zenon, StepOK DEF Safe
<1>2. QED
  BY GateInvariance, <1>1, PTL DEF Spec, NoAllowWhileTripped

\* No step closes an open breaker early, or replaces a halt by a shorter break.
THEOREM HaltsStick == Spec => HaltSticks
<1>1. IndInv /\ [Next]_vars =>
        [\A a \in Agent : tripped(a) =>
            \/ now' >= agents[a].circuit_break
            \/ agents'[a].circuit_break >= agents[a].circuit_break]_vars
  BY Zenon, StepOK DEF Safe
<1>2. QED
  BY GateInvariance, <1>1, PTL DEF Spec, HaltSticks
-----------------------------------------------------------------------------
(* The rate limit *)

\* Only an answered request has a decision.
PendingOK == \A r \in Request : req[r].pc # "done" => req[r].decision = "None"

\* What a step may do to the recorded actions of an agent: forget some, record
\* one that it denies, or record one while they are below the limit.
Counts ==
    \A a \in Agent : agents'[a] # Nil =>
        \/ \A x \in agents'[a].stamps : \/ agents[a] # Nil /\ x \in agents[a].stamps
                                        \/ req'[x[1]].decision = "Deny"
        \/ Cardinality({x \in agents'[a].stamps : x[2] + Window > now'}) <= MaxActions

DenyKept == \A r \in Request : req[r].decision = "Deny" => req'[r].decision = "Deny"

\* Such a step keeps to the limit.
LEMMA LimitKept ==
    ASSUME IndInv, IndInv', CountedWithinLimit, Counts, DenyKept, now' >= now
    PROVE  CountedWithinLimit'
<1> SUFFICES ASSUME NEW a \in Agent, agents'[a] # Nil
             PROVE  Cardinality({x \in {y \in agents'[a].stamps : y[2] + Window > now'} :
                                   req'[x[1]].decision # "Deny"}) <= MaxActions
  BY Zenon DEF CountedWithinLimit, recent
<1> DEFINE kept == {y \in agents'[a].stamps : y[2] + Window > now'}
           new == {x \in kept : req'[x[1]].decision # "Deny"}
<1>1. /\ agents'[a] \in AgentState /\ IsFiniteSet(agents'[a].stamps)
      /\ now \in Nat /\ now' \in Nat /\ Window \in Nat /\ MaxActions \in Nat
  BY Zenon, GateAssumption DEF IndInv, TypeOK, FiniteOK
<1>2. new \subseteq kept /\ kept \subseteq agents'[a].stamps
  BY Zenon
<1>3. IsFiniteSet(kept) /\ IsFiniteSet(new) /\ Cardinality(new) <= Cardinality(kept)
      /\ Cardinality(new) \in Nat /\ Cardinality(kept) \in Nat
  BY Zenon, <1>1, <1>2, FS_Subset, FS_CardinalityType
<1>4. CASE Cardinality(kept) <= MaxActions
  BY <1>1, <1>3, <1>4
<1>5. CASE \A x \in agents'[a].stamps : \/ agents[a] # Nil /\ x \in agents[a].stamps
                                        \/ req'[x[1]].decision = "Deny"
  <2>1. CASE agents[a] = Nil
    <3>1. new = {}
      <4>1. \A x \in agents'[a].stamps : req'[x[1]].decision = "Deny"
        BY Zenon, <1>5, <2>1
      <4> QED
        BY Zenon, <1>2, <4>1
    <3> HIDE DEF new
    <3>2. Cardinality(new) = 0
      BY Zenon, <3>1, FS_EmptySet
    <3> QED
      BY <1>1, <3>2 DEF new
  <2>2. CASE agents[a] # Nil
    <3> DEFINE old == {x \in recent(agents[a]) : req[x[1]].decision # "Deny"}
    <3>1. agents[a] \in AgentState /\ IsFiniteSet(agents[a].stamps)
      BY Zenon, <2>2 DEF IndInv, TypeOK, FiniteOK
    <3>2. old \subseteq agents[a].stamps
      BY Zenon DEF recent
    <3>3. IsFiniteSet(old) /\ Cardinality(old) \in Nat
      BY Zenon, <3>1, <3>2, FS_Subset, FS_CardinalityType
    <3>4. ASSUME NEW x \in new PROVE x \in old
      <4>1. /\ x \in agents[a].stamps /\ req'[x[1]].decision # "Deny" /\ x[2] + Window > now'
        BY Zenon, <1>5, <3>4
      <4>2. x[1] \in Request /\ x[2] \in Nat
        BY Zenon, <3>1, <4>1 DEF AgentState
      <4>3. req[x[1]].decision # "Deny" /\ x[2] + Window > now
        BY <1>1, <4>1, <4>2 DEF DenyKept
      <4> QED
        BY Zenon, <4>1, <4>3 DEF recent
    <3>5. Cardinality(new) <= Cardinality(old)
      BY Zenon, <3>3, <3>4, FS_Subset
    <3>6. Cardinality(old) <= MaxActions
      BY Zenon, <2>2 DEF CountedWithinLimit
    <3> QED
      BY <1>1, <1>3, <3>3, <3>5, <3>6
  <2> QED
    BY Zenon, <2>1, <2>2
<1> QED
  BY Zenon, <1>4, <1>5 DEF Counts

\* Requests are answered once.
LEMMA AnsweredOnce ==
    ASSUME IndInv, PendingOK, [Next]_vars
    PROVE  PendingOK' /\ DenyKept
<1>1. ASSUME NEW r \in Request, req[r].pc # "done",
             NEW q \in RequestState, q.pc # "done" => q.decision = "None",
             req' = [req EXCEPT ![r] = q]
      PROVE  PendingOK' /\ DenyKept
  <2>1. req'[r] = q /\ \A x \in Request \ {r} : req'[x] = req[x]
    BY Zenon, <1>1 DEF IndInv, TypeOK
  <2>2. req[r].decision = "None"
    BY Zenon, <1>1 DEF PendingOK
  <2> QED
    BY Zenon, <1>1, <2>1, <2>2 DEF PendingOK, DenyKept
<1>2. CASE UNCHANGED req
  BY Zenon, <1>2 DEF PendingOK, DenyKept
<1>3. ASSUME NEW r \in Request, NEW a \in Agent, NEW k \in Kind, NEW m \in BOOLEAN,
             Arrive(r, a, k, m)
      PROVE  PendingOK' /\ DenyKept
  <2> DEFINE q0 == [idle EXCEPT !.agent = a, !.kind = k, !.money = m]
             q1 == [q0 EXCEPT !.pc = "count"]
             q2 == [q0 EXCEPT !.pc = "done", !.decision = "Deny", !.at = now]
  <2>1. /\ q1 \in RequestState /\ q1.pc = "count" /\ q1.decision = "None"
        /\ q2 \in RequestState /\ q2.pc = "done"
    BY Zenon DEF idle, RequestState, Pc, IndInv, TypeOK
  <2>2. /\ req[r].pc # "done"
        /\ req' = [req EXCEPT ![r] = q1] \/ req' = [req EXCEPT ![r] = q2]
    BY Zenon, <1>3 DEF Arrive
  <2> HIDE DEF q1, q2
  <2> QED
    BY Zenon, <1>1, <2>1, <2>2
<1>4. ASSUME NEW r \in Request, NEW pc \in Pc \ {"done"}, req[r].pc # "done", goto(r, pc)
      PROVE  PendingOK' /\ DenyKept
  <2> DEFINE q == [req[r] EXCEPT !.pc = pc]
  <2>1. req[r] \in RequestState /\ req[r].decision = "None"
    BY Zenon, <1>4 DEF IndInv, TypeOK, PendingOK
  <2>2. q \in RequestState /\ q.pc = pc /\ q.decision = "None" /\ req' = [req EXCEPT ![r] = q]
    BY Zenon, <1>4, <2>1 DEF goto, RequestState
  <2> HIDE DEF q
  <2> QED
    BY Zenon, <1>1, <1>4, <2>2
<1>5. ASSUME NEW r \in Request, NEW d \in {"Allow", "Deny", "CircuitBreak"}, req[r].pc # "done",
             respond(r, d)
      PROVE  PendingOK' /\ DenyKept
  <2> DEFINE q == [req[r] EXCEPT !.pc = "done", !.decision = d, !.at = now]
  <2>1. req[r] \in RequestState /\ now \in Nat
    BY Zenon DEF IndInv, TypeOK
  <2>2. q \in RequestState /\ q.pc = "done"
    BY Zenon, <2>1 DEF Pc, RequestState
  <2>3. req' = [req EXCEPT ![r] = q]
    BY Zenon, <1>5 DEF respond
  <2> HIDE DEF q
  <2> QED
    BY Zenon, <1>1, <1>5, <2>2, <2>3
<1>6. ASSUME NEW r \in Request, Count(r) PROVE PendingOK' /\ DenyKept
  <2> DEFINE n == Cardinality(entry(req[r].agent).stamps) \div 2
             q == [req[r] EXCEPT !.pc = "lookup", !.bucket = n]
  <2>1. req[r].pc = "count" /\ req' = [req EXCEPT ![r] = q]
    BY Zenon, <1>6 DEF Count, IndInv, TypeOK
  <2>2. Cardinality(entry(req[r].agent).stamps) \in Nat
    BY Zenon, <2>1, Arrived, EntryOK, FS_CardinalityType
  <2>3. n \in Nat
    BY <2>2
  <2>4. req[r].decision = "None"
    BY Zenon, <2>1 DEF PendingOK
  <2> HIDE DEF n
  <2>5. q \in RequestState /\ q.pc = "lookup" /\ q.decision = "None"
    BY Zenon, <2>3, <2>4 DEF IndInv, TypeOK, RequestState, Pc
  <2> HIDE DEF q
  <2> QED
    BY Zenon, <1>1, <2>1, <2>5
<1>7. ASSUME NEW r \in Request, Acquire(r) \/ Run(r) \/ Cancel(r) PROVE PendingOK' /\ DenyKept
  <2>1. CASE Count(r)
    BY Zenon, <1>6, <2>1
  <2>2. CASE CachedAllow(r) \/ Enter(r)
    <3>1. /\ req[r].pc # "done"
          /\ goto(r, "embed") \/ \E d \in {"Allow", "Deny", "CircuitBreak"} : respond(r, d)
      BY Zenon, <2>2 DEF CachedAllow, Enter
    <3> QED
      BY Zenon, <1>4, <1>5, <3>1 DEF Pc
  <2>3. CASE Lookup(r) \/ RemoteGet(r) \/ Fill(r) \/ Defer(r)
    <3>1. /\ req[r].pc # "done"
          /\ \E pc \in {"main", "hit", "remote", "fill", "enqueue"} : goto(r, pc)
      BY Zenon, <2>3 DEF Lookup, RemoteGet, Fill, Defer, approach
    <3> QED
      BY Zenon, <1>4, <3>1 DEF Pc
  <2>4. CASE Refuse(r) \/ Deferred(r) \/ Break(r) \/ PolicyDeny(r) \/ Publish(r)
    <3>1. req[r].pc # "done" /\ \E d \in {"Allow", "Deny", "CircuitBreak"} : respond(r, d)
      BY Zenon, <2>4 DEF Refuse, Deferred, Break, PolicyDeny, Publish, leave
    <3> QED
      BY Zenon, <1>5, <3>1
  <2>5. CASE Pass(r)
    <3>1. req[r].pc # "done" /\ (respond(r, "Allow") \/ goto(r, "publish"))
      BY Zenon, <2>5 DEF Pass, leave
    <3> QED
      BY Zenon, <1>4, <1>5, <3>1 DEF Pc
  <2>6. CASE Cancel(r)
    <3>1. req[r].pc # "done" /\ goto(r, "dropped")
      BY Zenon, <2>6 DEF Cancel, Awaiting, Inside
    <3> QED
      BY Zenon, <1>4, <3>1 DEF Pc
  <2> QED
    BY Zenon, <1>7, <2>1, <2>2, <2>3, <2>4, <2>5, <2>6 DEF Acquire, Run
<1>8. ASSUME \/ Tick \/ \E k \in Kind : PushPolicy(k)
             \/ \E h \in Halt, a \in Agent : ForceHalt(h, a)
             \/ \E h \in Halt : EmergencyHalt(h) \/ HaltStep(h)
      PROVE  UNCHANGED req
  BY Zenon, <1>8 DEF Tick, PushPolicy, ForceHalt, EmergencyHalt, HaltStep, HaltReturns, Trip, Skip
<1> QED
  BY Zenon, <1>2, <1>3, <1>7, <1>8 DEF Next, vars

\* What the operations of AgentState do to the recorded actions
LEMMA Stamps ==
    ASSUME IndInv, NEW s \in AgentState, NEW r \in Request, NEW d \in Nat
    PROVE  /\ pruned(s) \in AgentState /\ pruned(s).stamps \subseteq s.stamps
           /\ record_action(s, r) \in AgentState
           /\ record_action(s, r).stamps = s.stamps \cup {<<r, now>>}
           /\ pruned(record_action(s, r)) \in AgentState
           /\ pruned(record_action(s, r)).stamps \subseteq recent(s) \cup {<<r, now>>}
           /\ trip_circuit_breaker(s, d) \in AgentState
           /\ trip_circuit_breaker(s, d).stamps = s.stamps
           /\ [s EXCEPT !.circuit_break = 0] \in AgentState
           /\ [s EXCEPT !.circuit_break = 0].stamps = s.stamps
<1>1. now \in Nat
  BY Zenon DEF IndInv, TypeOK
<1>2. \A t \in AgentState : /\ pruned(t) \in AgentState /\ pruned(t).stamps = recent(t)
                            /\ recent(t) \subseteq t.stamps
  BY Zenon DEF pruned, recent, AgentState
<1>3. /\ record_action(s, r) \in AgentState
      /\ record_action(s, r).stamps = s.stamps \cup {<<r, now>>}
  BY <1>1 DEF record_action, AgentState
<1>4. recent(record_action(s, r)) \subseteq recent(s) \cup {<<r, now>>}
  BY Zenon, <1>3 DEF recent
<1>5. /\ trip_circuit_breaker(s, d) \in AgentState
      /\ trip_circuit_breaker(s, d).stamps = s.stamps
  BY <1>1 DEF trip_circuit_breaker, AgentState
<1>6. /\ [s EXCEPT !.circuit_break = 0] \in AgentState
      /\ [s EXCEPT !.circuit_break = 0].stamps = s.stamps
  BY Zenon DEF AgentState
<1> QED
  BY Zenon, <1>2, <1>3, <1>4, <1>5, <1>6

\* A step that changes one entry, and forgets there or records a denied action
LEMMA EntryCounts ==
    ASSUME IndInv, NEW a \in Agent, NEW s, agents' = [agents EXCEPT ![a] = s],
           \/ \A x \in s.stamps : \/ agents[a] # Nil /\ x \in agents[a].stamps
                                  \/ req'[x[1]].decision = "Deny"
           \/ Cardinality({x \in s.stamps : x[2] + Window > now'}) <= MaxActions
    PROVE  Counts
<1>1. agents'[a] = s /\ \A b \in Agent \ {a} : agents'[b] = agents[b]
  BY Zenon DEF IndInv, TypeOK
<1>2. \A b \in Agent \ {a} : agents'[b] # Nil =>
          \A x \in agents'[b].stamps : agents[b] # Nil /\ x \in agents[b].stamps
  BY Zenon, <1>1
<1> QED
  BY Zenon, <1>1, <1>2 DEF Counts

(* Making the entry of an agent records nothing. *)
LEMMA MakeCounts ==
    ASSUME IndInv, NEW a \in Agent, agents' = [agents EXCEPT ![a] = entry(a)]
    PROVE  Counts
<1>1. \A x \in entry(a).stamps : agents[a] # Nil /\ x \in agents[a].stamps
  BY Zenon DEF entry, new_agent
<1> QED
  BY Zenon, <1>1, EntryCounts

\* Every step records as Counts says.
LEMMA RecordsOK ==
    ASSUME IndInv, [Next]_vars
    PROVE  Counts /\ now' >= now
<1>1. ASSUME UNCHANGED agents PROVE Counts
  BY Zenon, <1>1 DEF Counts
<1>2. now \in Nat /\ BreakSecs \in Nat /\ HaltSecs \in Nat /\ MaxActions \in Nat
  BY Zenon, GateAssumption DEF IndInv, TypeOK
<1>3. ASSUME NEW r \in Request, CachedAllow(r) \/ Enter(r) PROVE Counts
  <2> DEFINE a == req[r].agent
             s == agents[a]
             clear == [s EXCEPT !.circuit_break = 0]
  <2>1. req[r].pc \in {"hit", "main"} \cup Inside
    BY Zenon, <1>3 DEF CachedAllow, Enter
  <2>2. a \in Agent /\ s # Nil /\ s \in AgentState
    BY Zenon, <2>1, Found, NilAssumption
  <2>3. clear \in AgentState /\ clear.stamps = s.stamps
    BY Zenon, <2>2, <1>2, Stamps
  <2>4. /\ pruned(s).stamps \subseteq s.stamps /\ pruned(clear).stamps \subseteq s.stamps
        /\ trip_circuit_breaker(clear, BreakSecs) \in AgentState
        /\ trip_circuit_breaker(clear, BreakSecs).stamps = s.stamps
    BY Zenon, <2>2, <2>3, <1>2, Stamps
  <2>5. pruned(trip_circuit_breaker(clear, BreakSecs)).stamps \subseteq s.stamps
    BY Zenon, <2>4, <1>2, Stamps
  <2>6. pruned(record_action(clear, r)).stamps \subseteq s.stamps \cup {<<r, now>>}
    BY Zenon, <2>2, <2>3, <1>2, Stamps DEF recent
  <2>7. \/ \E t \in {pruned(s), pruned(clear), pruned(trip_circuit_breaker(clear, BreakSecs)), clear} :
             agents' = [agents EXCEPT ![a] = t]
        \/ agents' = [agents EXCEPT ![a] = pruned(record_action(clear, r))] /\ respond(r, "Deny")
    BY Zenon, <1>3 DEF CachedAllow, Enter
  <2>8. respond(r, "Deny") => req'[r].decision = "Deny"
    BY DEF respond, IndInv, TypeOK, RequestState
  <2> HIDE DEF a, s, clear
  <2>9. CASE \E t \in {pruned(s), pruned(clear), pruned(trip_circuit_breaker(clear, BreakSecs)), clear} :
             agents' = [agents EXCEPT ![a] = t]
    <3>1. PICK t \in {pruned(s), pruned(clear), pruned(trip_circuit_breaker(clear, BreakSecs)), clear} :
             agents' = [agents EXCEPT ![a] = t]
      BY Zenon, <2>9
    <3>2. t.stamps \subseteq s.stamps
      BY Zenon, <2>3, <2>4, <2>5
    <3> QED
      BY Zenon, <2>2, <3>1, <3>2, EntryCounts DEF s
  <2>10. CASE agents' = [agents EXCEPT ![a] = pruned(record_action(clear, r))] /\ respond(r, "Deny")
    <3>1. \A x \in pruned(record_action(clear, r)).stamps :
             \/ agents[a] # Nil /\ x \in agents[a].stamps
             \/ req'[x[1]].decision = "Deny"
      <4>1. \A x \in pruned(record_action(clear, r)).stamps : x \in s.stamps \/ x = <<r, now>>
        BY Zenon, <2>6
      <4>2. <<r, now>>[1] = r /\ req'[r].decision = "Deny"
        BY Zenon, <2>8, <2>10
      <4> QED
        BY <2>2, <4>1, <4>2, Zenon DEF s
    <3> QED
      BY Zenon, <2>2, <2>10, <3>1, EntryCounts
  <2> QED
    BY Zenon, <2>7, <2>9, <2>10
<1>4. ASSUME NEW r \in Request,
             Refuse(r) \/ Deferred(r) \/ Break(r) \/ PolicyDeny(r) \/ Publish(r) \/ Pass(r)
      PROVE  Counts
  <2> DEFINE a == req[r].agent
             s == agents[a]
  <2>1. req[r].pc \in Inside
    BY Zenon, <1>4 DEF Refuse, Deferred, Break, PolicyDeny, Publish, Pass, Inside
  <2>2. a \in Agent /\ s # Nil /\ s \in AgentState /\ IsFiniteSet(s.stamps)
    BY Zenon, <2>1, Found, NilAssumption
  <2>3. pruned(s) \in AgentState /\ pruned(s).stamps \subseteq s.stamps
    BY Zenon, <2>2, <1>2, Stamps
  <2>4. trip_circuit_breaker(pruned(s), BreakSecs).stamps \subseteq s.stamps
    BY Zenon, <2>3, <1>2, Stamps
  <2>5. pruned(record_action(s, r)).stamps \subseteq recent(s) \cup {<<r, now>>}
        /\ recent(s) \subseteq s.stamps
    BY Zenon, <2>2, <1>2, Stamps DEF recent
  <2>6. \/ \E t \in {pruned(s), trip_circuit_breaker(pruned(s), BreakSecs), s} :
             agents' = [agents EXCEPT ![a] = t]
        \/ agents' = [agents EXCEPT ![a] = pruned(record_action(s, r))] /\ respond(r, "Deny")
        \/ agents' = [agents EXCEPT ![a] = pruned(record_action(s, r))] /\ ~over_limit(s) /\ UNCHANGED now
    BY Zenon, <1>4 DEF Refuse, Deferred, Break, PolicyDeny, Publish, Pass, leave
  <2>7. respond(r, "Deny") => req'[r].decision = "Deny"
    BY DEF respond, IndInv, TypeOK, RequestState
  <2> HIDE DEF a, s
  <2>8. CASE \E t \in {pruned(s), trip_circuit_breaker(pruned(s), BreakSecs), s} :
             agents' = [agents EXCEPT ![a] = t]
    <3>1. PICK t \in {pruned(s), trip_circuit_breaker(pruned(s), BreakSecs), s} :
             agents' = [agents EXCEPT ![a] = t]
      BY Zenon, <2>8
    <3>2. t.stamps \subseteq s.stamps
      BY Zenon, <2>3, <2>4
    <3> QED
      <4>1. \A x \in t.stamps : agents[a] # Nil /\ x \in agents[a].stamps
        BY Zenon, <2>2, <3>2 DEF s
      <4> QED
        BY Zenon, <2>2, <3>1, <4>1, EntryCounts
  <2>9. CASE agents' = [agents EXCEPT ![a] = pruned(record_action(s, r))] /\ respond(r, "Deny")
    <3>1. \A x \in pruned(record_action(s, r)).stamps :
             \/ agents[a] # Nil /\ x \in agents[a].stamps
             \/ req'[x[1]].decision = "Deny"
      <4>1. \A x \in pruned(record_action(s, r)).stamps : x \in s.stamps \/ x = <<r, now>>
        BY Zenon, <2>5
      <4>2. <<r, now>>[1] = r /\ req'[r].decision = "Deny"
        BY Zenon, <2>7, <2>9
      <4> QED
        BY <2>2, <4>1, <4>2, Zenon DEF s
    <3> QED
      BY Zenon, <2>2, <2>9, <3>1, EntryCounts
  <2>10. CASE /\ agents' = [agents EXCEPT ![a] = pruned(record_action(s, r))]
              /\ ~over_limit(s) /\ UNCHANGED now
    <3> DEFINE new == {x \in pruned(record_action(s, r)).stamps : x[2] + Window > now'}
    <3>1. IsFiniteSet(recent(s)) /\ Cardinality(recent(s)) \in Nat
      BY Zenon, <2>2, <2>5, FS_Subset, FS_CardinalityType
    <3>2. Cardinality(recent(s)) < MaxActions
      BY <1>2, <2>10, <3>1 DEF over_limit, current_action_count
    <3>3. /\ IsFiniteSet(recent(s) \cup {<<r, now>>})
          /\ Cardinality(recent(s) \cup {<<r, now>>}) <= Cardinality(recent(s)) + 1
          /\ Cardinality(recent(s) \cup {<<r, now>>}) \in Nat
      <4> DEFINE R == recent(s)
                 x == <<r, now>>
      <4> HIDE DEF R, x
      <4>1. IsFiniteSet(R) /\ Cardinality(R) \in Nat
        BY Zenon, <3>1 DEF R
      <4>2. /\ IsFiniteSet(R \cup {x})
            /\ Cardinality(R \cup {x}) = IF x \in R THEN Cardinality(R) ELSE Cardinality(R) + 1
        BY Zenon, <4>1, FS_AddElement
      <4> QED
        BY <4>1, <4>2 DEF R, x
    <3>4. new \subseteq recent(s) \cup {<<r, now>>}
      BY Zenon, <2>5
    <3>5. Cardinality(new) <= Cardinality(recent(s) \cup {<<r, now>>}) /\ Cardinality(new) \in Nat
      BY Zenon, <3>3, <3>4, FS_Subset, FS_CardinalityType
    <3>6. Cardinality(new) <= MaxActions
      BY <1>2, <3>1, <3>2, <3>3, <3>5
    <3> QED
      BY Zenon, <2>2, <2>10, <3>6, EntryCounts
  <2> QED
    BY Zenon, <2>6, <2>8, <2>9, <2>10
<1>5. ASSUME NEW r \in Request, Lookup(r) \/ RemoteGet(r) \/ Fill(r) PROVE Counts
  <2>1. /\ req[r].pc # "idle"
        /\ UNCHANGED agents \/ agents' = [agents EXCEPT ![req[r].agent] = entry(req[r].agent)]
    BY Zenon, <1>5 DEF Lookup, RemoteGet, Fill, approach
  <2> QED
    BY Zenon, <1>1, <2>1, Arrived, MakeCounts
<1>6. ASSUME NEW h \in Halt, NEW a \in Agent, Trip(h, a) PROVE Counts
  <2>1. agents[a] # Nil /\ agents[a] \in AgentState
    BY Zenon, <1>6 DEF Trip, IndInv, RequestsOK, TypeOK
  <2>2. trip_circuit_breaker(agents[a], HaltSecs).stamps = agents[a].stamps
    BY Zenon, <2>1 DEF trip_circuit_breaker, AgentState
  <2>3. agents' = [agents EXCEPT ![a] = trip_circuit_breaker(agents[a], HaltSecs)]
    BY Zenon, <1>6 DEF Trip
  <2> QED
    BY Zenon, <2>1, <2>2, <2>3, EntryCounts
<1>7. ASSUME NEW h \in Halt, NEW a \in Agent, ForceHalt(h, a) PROVE Counts
  BY Zenon, <1>7, MakeCounts DEF ForceHalt
<1>8. Counts
  BY Zenon, <1>1, <1>3, <1>4, <1>5, <1>6, <1>7
     DEF Next, vars, Tick, PushPolicy, Arrive, Acquire, Run, Count, Defer, Cancel, EmergencyHalt,
         HaltStep, HaltReturns, Skip
<1>9. now' \in {now, now + 1}
  BY Zenon DEF Next, vars, Tick, PushPolicy, Arrive, Acquire, Run, Count, CachedAllow, Enter, Lookup, RemoteGet,
         Fill, Refuse, Defer, Deferred, Break, PolicyDeny, Pass, Publish, Cancel, ForceHalt,
         EmergencyHalt, HaltStep, HaltReturns, Trip, Skip
<1> QED
  BY <1>2, <1>8, <1>9

\* Among the actions an agent has recorded in the window, those that were not
\* denied stay within the limit, however its requests overlap and whatever the
\* limit is: the count and the push of validate_inner are under one mutex.
THEOREM CountsWithinLimit == Spec => []CountedWithinLimit
<1>1. Init => PendingOK /\ CountedWithinLimit
  BY DEF Init, PendingOK, CountedWithinLimit, idle
<1>2. IndInv /\ IndInv' /\ PendingOK /\ CountedWithinLimit /\ [Next]_vars =>
        PendingOK' /\ CountedWithinLimit'
  BY Zenon, AnsweredOnce, RecordsOK, LimitKept
<1> QED
  BY <1>1, <1>2, GateInvariance, PTL DEF Spec

=============================================================================
