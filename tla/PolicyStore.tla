---------------------------- MODULE PolicyStore ----------------------------
(***************************************************************************)
(* The versioned policy store: the live policy with its generation, the    *)
(* bounded history for rollbacks and one policy per environment.  The      *)
(* three sit behind locks of their own, so that calls overlap; a rollback  *)
(* holds the history while it stores.  A version is a number, 0 one that   *)
(* is not a valid semantic version (only the initial policy can have it).  *)
(***************************************************************************)
EXTENDS Integers, Sequences

CONSTANTS Operator, MaxVersion, HistoryLimit, MaxGeneration

ASSUME HistoryAssumption == HistoryLimit \in Nat \ {0}

VARIABLES
  livePolicy, generation,
  policyHistory,   \* [version, generation], oldest first
  envPolicies,     \* environment -> version, -1 for none
  storeCall,       \* operator -> the call under way
  liveAt,          \* the policy stored with each generation (auxiliary)
  everStaged,      \* versions that have been in staging (auxiliary)
  overlapped       \* two stores were under way at once (auxiliary)

policyVars == <<livePolicy, generation, policyHistory, envPolicies, storeCall, liveAt, everStaged, overlapped>>

NotLoaded == -1
NoStore == [step |-> "idle", kind |-> "none", version |-> NotLoaded, to |-> 1, existing |-> NotLoaded, gen |-> 0]

PolicyInit ==
  \E v \in {0, 1} :
    /\ livePolicy = v /\ generation = 0 /\ policyHistory = <<[version |-> v, generation |-> 0]>>
    /\ envPolicies = <<v, NotLoaded, NotLoaded>>
    /\ storeCall = [o \in Operator |-> NoStore]
    /\ liveAt = <<>> /\ everStaged = {} /\ overlapped = FALSE

storing(o) == storeCall[o].step \in {"write", "bump", "read", "record"}

begin(o, call) ==
  /\ storeCall[o] = NoStore
  /\ storeCall' = [storeCall EXCEPT ![o] = call]
  /\ overlapped' = (overlapped \/ (call.step = "write" /\ \E p \in Operator : storing(p)))

advance(o, step) == storeCall' = [storeCall EXCEPT ![o] = IF step = "idle" THEN NoStore ELSE [@ EXCEPT !.step = step]]

\* A new version goes into dev and becomes the live policy.
push_policy_version(o, v) ==
  /\ generation < MaxGeneration
  /\ begin(o, [NoStore EXCEPT !.step = "write", !.kind = "push", !.version = v])
  /\ envPolicies' = [envPolicies EXCEPT ![1] = v]
  /\ UNCHANGED <<livePolicy, generation, policyHistory, liveAt, everStaged>>

---------------------------------------------------------------------------
(* promote: the checks read the environments, the change comes later. *)

next_tier(from, to) == to = from + 1

not_newer(source, existing) == existing > 0 /\ source <= existing

check_promotion(o, from, to) ==
  /\ next_tier(from, to)
  /\ envPolicies[from] > 0 /\ ~not_newer(envPolicies[from], envPolicies[to])
  /\ begin(o, [NoStore EXCEPT !.step = "apply", !.kind = "promote", !.version = envPolicies[from],
                              !.to = to, !.existing = envPolicies[to]])
  /\ UNCHANGED <<livePolicy, generation, policyHistory, envPolicies, liveAt, everStaged>>

\* Only prod activates the policy.
promote(o) ==
  LET call == storeCall[o] IN
    /\ call.step = "apply" /\ generation < MaxGeneration
    /\ envPolicies' = [envPolicies EXCEPT ![call.to] = call.version]
    /\ everStaged' = IF call.to = 2 THEN everStaged \cup {call.version} ELSE everStaged
    /\ advance(o, IF call.to = 3 THEN "write" ELSE "idle")
    /\ overlapped' = (overlapped \/ (call.to = 3 /\ \E p \in Operator : storing(p)))
    /\ UNCHANGED <<livePolicy, generation, policyHistory, liveAt>>

---------------------------------------------------------------------------
(* Storing: write the policy, count the generation, read it back, record. *)

store(o) ==
  /\ storeCall[o].step = "write" /\ livePolicy' = storeCall[o].version /\ advance(o, "bump")
  /\ UNCHANGED <<generation, policyHistory, envPolicies, liveAt, everStaged, overlapped>>

bump(o) ==
  /\ storeCall[o].step = "bump" /\ generation' = generation + 1
  /\ liveAt' = Append(liveAt, livePolicy)
  /\ advance(o, IF storeCall[o].kind = "rollback" THEN "idle" ELSE "read")
  /\ UNCHANGED <<livePolicy, policyHistory, envPolicies, everStaged, overlapped>>

recorded_generation(g) == g

ReadGeneration(o) ==
  /\ storeCall[o].step = "read"
  /\ storeCall' = [storeCall EXCEPT ![o].step = "record", ![o].gen = recorded_generation(generation)]
  /\ UNCHANGED <<livePolicy, generation, policyHistory, envPolicies, liveAt, everStaged, overlapped>>

trimmed(h) == IF Len(h) > HistoryLimit THEN SubSeq(h, Len(h) - HistoryLimit + 1, Len(h)) ELSE h

history_free == \A p \in Operator : ~(storing(p) /\ storeCall[p].kind = "rollback")

RecordSnapshot(o) ==
  /\ storeCall[o].step = "record" /\ history_free
  /\ policyHistory' = trimmed(Append(policyHistory, [version |-> storeCall[o].version, generation |-> storeCall[o].gen]))
  /\ advance(o, "idle")
  /\ UNCHANGED <<livePolicy, generation, envPolicies, liveAt, everStaged, overlapped>>

---------------------------------------------------------------------------
(* Rollbacks keep the history locked for reading until they have stored. *)

restoring(o, version) ==
  /\ generation < MaxGeneration
  /\ begin(o, [NoStore EXCEPT !.step = "write", !.kind = "rollback", !.version = version])
  /\ UNCHANGED <<livePolicy, generation, policyHistory, envPolicies, liveAt, everStaged>>

rollback(o, g) ==
  \E i \in DOMAIN policyHistory :
    /\ policyHistory[i].generation = g /\ \A j \in 1..(i - 1) : policyHistory[j].generation # g
    /\ restoring(o, policyHistory[i].version)

\* The last snapshot older than the current generation.
rollback_previous(o) ==
  /\ Len(policyHistory) >= 2
  /\ \E i \in DOMAIN policyHistory :
       /\ policyHistory[i].generation < generation
       /\ \A j \in (i + 1)..Len(policyHistory) : policyHistory[j].generation >= generation
       /\ restoring(o, policyHistory[i].version)

PolicyNext ==
  \E o \in Operator :
    \/ \E v \in 1..MaxVersion : push_policy_version(o, v)
    \/ \E from, to \in 1..3 : check_promotion(o, from, to)
    \/ promote(o) \/ store(o) \/ bump(o) \/ ReadGeneration(o) \/ RecordSnapshot(o)
    \/ \E g \in 0..MaxGeneration : rollback(o, g)
    \/ rollback_previous(o)

PolicySpec == PolicyInit /\ [][PolicyNext]_policyVars

---------------------------------------------------------------------------
(* Properties. *)

\* A version runs in production only after it has been in staging, however
\* pushes, promotions and rollbacks are interleaved.
ProdWasStaged == envPolicies[3] # NotLoaded => envPolicies[3] \in everStaged

\* A promotion never replaces a tier's policy by the same or an older
\* version, unless another promotion changed the tier between its check and
\* its change.
NoDowngrade ==
  [\A o \in Operator, e \in 2..3 :
       promote(o) /\ e = storeCall[o].to /\ storeCall[o].existing = envPolicies[e] =>
         envPolicies'[e] > envPolicies[e]]_policyVars

\* As long as no two stores overlapped, a snapshot holds the policy that was
\* live at its generation: rolling back to a generation brings back what ran
\* then.
SnapshotsTruthful ==
  ~overlapped => \A i \in DOMAIN policyHistory :
    LET s == policyHistory[i] IN s.generation > 0 => s.generation \in DOMAIN liveAt /\ liveAt[s.generation] = s.version
=============================================================================
