---------------------------- MODULE ServiceProofs ---------------------------
(***************************************************************************)
(* Proofs about the services of a node, for any finite sets of requests,   *)
(* members, pods and models and any bounds.                                *)
(*   - The gate in front of POST /validate neither leaks nor over-admits;  *)
(*     messages and envelopes are not served twice within the lifetime of  *)
(*     their nonce, signatures name the key that made them, and the powers *)
(*     of an administrator end.                                            *)
(*   - The outcome of a vote is final, a partition leaves at most one side *)
(*     writing, and a high-stakes transaction passes the quorum gate.      *)
(*   - Policies are promoted in order, from what was staged, and snapshots *)
(*     show what was stored.                                               *)
(*   - Sampling rates of anomalous strata go up, kernel enforcement is     *)
(*     backed by a probe, a pinned model is served or nothing, and a pod   *)
(*     has one sidecar.                                                    *)
(***************************************************************************)
EXTENDS Admission, Signing, HighStakes, Authentication, PolicyStore, Sampling,
        ProbeManager, EmbeddingModels, SidecarInjection,
        FiniteSetTheorems, SequenceTheorems, TLAPS

-----------------------------------------------------------------------------
(* The gate in front of POST /validate *)

IngressSteps == {"out", "read", "permit", "count", "running", "undo", "release"}

\* The balance is inductive once the steps are known to be steps.
IngressInv == step \in [Request -> IngressSteps] /\ GateBalanced

\* 1 for a step that the set counts, 0 for one that it does not.
weight(s, S) == IF s \in S THEN 1 ELSE 0

(* The requests at some steps are finitely many. *)
LEMMA CountedFinite ==
  ASSUME NEW S PROVE IsFiniteSet(in(S)) /\ Cardinality(in(S)) \in Nat
BY Zenon, IngressAssumption, FS_Subset, FS_CardinalityType DEF in

(* A request that moves is counted where it arrives and no longer where it *)
(* was: goto changes the number of requests at some steps by the weights.  *)
LEMMA Moved ==
  ASSUME step \in [Request -> IngressSteps], NEW r \in Request, NEW t, NEW S, goto(r, t)
  PROVE  Cardinality(in(S)') = Cardinality(in(S)) + weight(t, S) - weight(step[r], S)
<1> DEFINE A == in(S)
           B == {q \in Request : [step EXCEPT ![r] = t][q] \in S}
<1>1. in(S)' = B
  BY Zenon DEF in, goto
<1>2. IsFiniteSet(A) /\ Cardinality(A) \in Nat
  BY Zenon, CountedFinite
<1>3. CASE t \in S /\ step[r] \in S
  <2>1. B = A
    BY Zenon, <1>3 DEF in
  <2> QED
    BY <1>1, <1>2, <1>3, <2>1 DEF weight
<1>4. CASE t \in S /\ step[r] \notin S
  <2>1. B = A \cup {r} /\ r \notin A
    BY Zenon, <1>4 DEF in
  <2>2. Cardinality(A \cup {r}) = Cardinality(A) + 1
    BY Zenon, <1>2, <2>1, FS_AddElement
  <2> HIDE DEF A, B
  <2> QED
    BY <1>1, <1>2, <1>4, <2>1, <2>2 DEF weight, A
<1>5. CASE t \notin S /\ step[r] \in S
  <2>1. B = A \ {r} /\ r \in A
    BY Zenon, <1>5 DEF in
  <2>2. Cardinality(A \ {r}) = Cardinality(A) - 1
    BY Zenon, <1>2, <2>1, FS_RemoveElement
  <2> HIDE DEF A, B
  <2> QED
    BY <1>1, <1>2, <1>5, <2>1, <2>2 DEF weight, A
<1>6. CASE t \notin S /\ step[r] \notin S
  <2>1. B = A
    BY Zenon, <1>6 DEF in
  <2> HIDE DEF A, B
  <2>2. weight(t, S) = 0 /\ weight(step[r], S) = 0
    BY Zenon, <1>6 DEF weight
  <2> QED
    BY <1>1, <1>2, <2>1, <2>2 DEF A
<1> QED
  BY Zenon, <1>3, <1>4, <1>5, <1>6

(* Every step of the middleware and of the controller keeps the balance.   *)
LEMMA IngressStep ==
  ASSUME IngressInv, [IngressNext]_ingressVars PROVE IngressInv'
<1> DEFINE Counted == {"running", "undo"}
           Held == {"count", "running", "undo", "release"}
<1> USE DEF IngressInv, GateBalanced
<1>0. Cardinality(in(Counted)) \in Nat /\ Cardinality(in(Held)) \in Nat /\ Permits \in Nat
  BY Zenon, CountedFinite, IngressAssumption
<1>1. ASSUME NEW r \in Request, NEW t \in IngressSteps, goto(r, t),
             inflight' = inflight + weight(t, Counted) - weight(step[r], Counted),
             permits' = permits - weight(t, Held) + weight(step[r], Held)
      PROVE  IngressInv'
  <2>1. step' \in [Request -> IngressSteps]
    BY Zenon, <1>1 DEF goto
  <2>2. /\ Cardinality(in(Counted)') = Cardinality(in(Counted)) + weight(t, Counted) - weight(step[r], Counted)
        /\ Cardinality(in(Held)') = Cardinality(in(Held)) + weight(t, Held) - weight(step[r], Held)
    BY Zenon, <1>1, Moved
  <2>3. /\ weight(t, Counted) \in {0, 1} /\ weight(step[r], Counted) \in {0, 1}
        /\ weight(t, Held) \in {0, 1} /\ weight(step[r], Held) \in {0, 1}
    BY Zenon DEF weight
  <2> QED
    BY <1>0, <1>1, <2>1, <2>2, <2>3
<1>2. ASSUME NEW r \in Request, try_acquire(r) PROVE IngressInv'
  BY <1>0, <1>1, <1>2 DEF try_acquire, weight, IngressSteps
<1>3. ASSUME NEW r \in Request, CheckInflight(r) PROVE IngressInv'
  BY <1>0, <1>1, <1>3 DEF CheckInflight, weight, IngressSteps
<1>4. ASSUME NEW r \in Request, TakePermit(r) PROVE IngressInv'
  BY <1>0, <1>1, <1>4 DEF TakePermit, weight, IngressSteps
<1>5. ASSUME NEW r \in Request, Count(r) PROVE IngressInv'
  BY <1>0, <1>1, <1>5 DEF Count, weight, IngressSteps
<1>6. ASSUME NEW r \in Request, drop(r) PROVE IngressInv'
  BY <1>0, <1>1, <1>6 DEF drop, uncount, weight, IngressSteps
<1>7. ASSUME NEW r \in Request, ReleasePermit(r) PROVE IngressInv'
  BY <1>0, <1>1, <1>7 DEF ReleasePermit, weight, IngressSteps
<1>8. ASSUME UNCHANGED <<permits, inflight, step>> PROVE IngressInv'
  BY Zenon, <1>8 DEF in
<1> QED
  BY Zenon, <1>2, <1>3, <1>4, <1>5, <1>6, <1>7, <1>8
  DEF IngressNext, validate_ingress_middleware, maybe_reduce_permits, requestVars, ingressVars

(* The gate starts in balance.                                             *)
LEMMA InitialBalance == ASSUME IngressInit PROVE IngressInv
<1>1. in({"running", "undo"}) = {} /\ in({"count", "running", "undo", "release"}) = {}
  BY Zenon DEF IngressInit, in
<1> QED
  BY <1>1, FS_EmptySet, IngressAssumption DEF IngressInit, IngressInv, GateBalanced, IngressSteps

(* Counter and semaphore account for every request at every moment, so no  *)
(* order of entries, refusals and exits leaks a permit or a count           *)
(* (ValidateIngressGate::try_acquire and the drop of the permit).           *)
THEOREM GateStaysBalanced == IngressSpec => []GateBalanced
<1>1. IngressInit => IngressInv
  BY Zenon, InitialBalance
<1>2. IngressInv /\ [IngressNext]_ingressVars => IngressInv'
  BY Zenon, IngressStep
<1>3. IngressInv => GateBalanced
  BY Zenon DEF IngressInv
<1> QED
  BY <1>1, <1>2, <1>3, PTL DEF IngressSpec

\* The limits that are compared are numbers.
LimitsInv == permit_limit \in Int /\ limit \in [Request -> Int]

(* The controller lowers the limit to a number.                            *)
LEMMA ReducedIsNumber == ASSUME NEW n \in Int PROVE reduced(n) \in Int
<1> DEFINE x == IF nine_tenths(n) >= n THEN n - 1 ELSE nine_tenths(n)
<1>1. x \in Int /\ Floor \in Int
  BY IngressAssumption DEF nine_tenths
<1> HIDE DEF x
<1>2. \E y \in {x, Floor} : \A z \in {x, Floor} : y >= z
  BY <1>1
<1>3. Max({x, Floor}) \in {x, Floor}
  BY Zenon, <1>2 DEF Max
<1> QED
  BY Zenon, <1>1, <1>3 DEF reduced, x

(* Only the second look at the counter lets a request run, and it found    *)
(* room below the limit that the request had read.                         *)
LEMMA RunsByCount ==
  ASSUME step \in [Request -> IngressSteps], [IngressNext]_ingressVars,
         NEW r \in Request, step[r] # "running", step'[r] = "running"
  PROVE  Count(r) /\ ~over_limit(r)
<1>1. PICK q \in Request : validate_ingress_middleware(q)
  BY Zenon DEF IngressNext, maybe_reduce_permits, requestVars, ingressVars
<1>2. Count(q) /\ q = r
  BY Zenon, <1>1 DEF validate_ingress_middleware, try_acquire, CheckInflight, TakePermit, Count, drop,
              ReleasePermit, goto
<1> QED
  BY Zenon, <1>2 DEF Count, goto

(* No request is admitted when as many run already as the limit it read    *)
(* allows, however requests race between the check and the increment and   *)
(* however the controller lowers the limit meanwhile.                      *)
THEOREM AdmissionIsBounded == IngressSpec => [][AdmissionWithinLimit]_ingressVars
<1>1. IngressInit => LimitsInv
  BY IngressAssumption DEF IngressInit, LimitsInv
<1>2. LimitsInv /\ [IngressNext]_ingressVars => LimitsInv'
  BY Zenon, ReducedIsNumber
  DEF LimitsInv, IngressNext, validate_ingress_middleware, try_acquire, CheckInflight, TakePermit,
      Count, drop, ReleasePermit, maybe_reduce_permits, requestVars, ingressVars
<1>3. IngressInit => IngressInv
  BY Zenon, InitialBalance
<1>4. IngressInv /\ [IngressNext]_ingressVars => IngressInv'
  BY Zenon, IngressStep
<1>5. IngressInv /\ IngressInv' /\ LimitsInv /\ [IngressNext]_ingressVars => AdmissionWithinLimit
  <2> SUFFICES ASSUME IngressInv, IngressInv', LimitsInv, [IngressNext]_ingressVars,
                      NEW r \in Request, step[r] # "running", step'[r] = "running"
               PROVE  Cardinality(in({"running"}))' <= limit[r]
    BY Zenon DEF AdmissionWithinLimit
  <2>1. Count(r) /\ ~over_limit(r)
    BY Zenon, RunsByCount DEF IngressInv
  <2>2. inflight \in Nat /\ inflight' = inflight + 1 /\ inflight' <= limit[r]
    BY <2>1, CountedFinite DEF Count, over_limit, IngressInv, GateBalanced, LimitsInv
  <2>3. inflight' = Cardinality(in({"running", "undo"})')
    BY Zenon DEF IngressInv, GateBalanced
  <2>4. in({"running"})' \subseteq in({"running", "undo"})' /\ IsFiniteSet(in({"running", "undo"})')
    BY Zenon, IngressAssumption, FS_Subset DEF in
  <2>5. /\ Cardinality(in({"running"})') <= Cardinality(in({"running", "undo"})')
        /\ Cardinality(in({"running"})') \in Nat
    BY Zenon, <2>4, FS_Subset, FS_CardinalityType
  <2> QED
    BY <2>2, <2>3, <2>5 DEF LimitsInv
<1> QED
  BY <1>1, <1>2, <1>3, <1>4, <1>5, PTL DEF IngressSpec

-----------------------------------------------------------------------------
(* Signatures and replayed envelopes *)

\* Outside a rotation the id and the header are those of the key.
KeysAgree == ~writeLocked => keyId = backendKey /\ header = backendKey

Signature == [kid : Int, key : Int]
KeysInv ==
  /\ KeysAgree /\ SignaturesNameTheirKey
  /\ backendKey \in Int /\ keyId \in Int /\ header \in Int
  /\ envelope \in [Response -> Signature] /\ cose \in [Response -> Signature]

(* A rotation holds the write lock from the new key to its new id, and a   *)
(* signature is made under the read lock, so no step separates the two.    *)
LEMMA KeysStep == ASSUME KeysInv, [SigningNext]_signingVars PROVE KeysInv'
<1> USE DEF KeysInv, KeysAgree, SignaturesNameTheirKey, Signature
<1>1. CASE RotateKey
  BY <1>1 DEF RotateKey, finalVars
<1>2. CASE RotateId
  BY Zenon, <1>2 DEF RotateId, finalVars
<1>3. ASSUME NEW r \in Response, sign(r) PROVE KeysInv'
  BY Zenon, <1>3 DEF sign, may_read, signerVars
<1>4. ASSUME NEW r \in Response, sign_decision(r) PROVE KeysInv'
  BY Zenon, <1>4 DEF sign_decision, may_read, signerVars
<1>5. ASSUME UNCHANGED <<signerVars, envelope, cose>> PROVE KeysInv'
  BY Zenon, <1>5 DEF signerVars
<1> QED
  BY Zenon, <1>1, <1>2, <1>3, <1>4, <1>5
  DEF SigningNext, SigningTick, push_leaf, verify_and_consume, RecordNonce, CheckSignature, finalVars,
      signingVars

(* However a rotation falls between the two signatures of a response, each *)
(* names the key that made it (finalize_response, rotate).                 *)
THEOREM KeysAreNamed == SigningSpec => []SignaturesNameTheirKey
<1>1. SigningInit => KeysInv
  BY DEF SigningInit, KeysInv, KeysAgree, SignaturesNameTheirKey, Signature, Unsigned
<1>2. KeysInv /\ [SigningNext]_signingVars => KeysInv'
  BY Zenon, KeysStep
<1>3. KeysInv => SignaturesNameTheirKey
  BY Zenon DEF KeysInv
<1> QED
  BY <1>1, <1>2, <1>3, PTL DEF SigningSpec

-----------------------------------------------------------------------------
\* The nonce of r is in the store since t or later, or t is a lifetime ago.
Consumed(r, t) == nonceSeen[r] >= t \/ signingClock - t >= SigningNonceTtl

NonceTypes ==
  /\ signingClock \in Nat
  /\ nonceSeen \in [Response -> Int] /\ acceptedFrom \in [Response -> Int]
  /\ verifyStep \in [Verifier -> {"idle", "absent", "recorded"}]
  /\ verifying \in [Verifier -> Response]
  /\ startedAt \in [Verifier -> Nat]

\* An envelope that was accepted has its nonce consumed, and so has one whose
\* verification has recorded the nonce and not yet looked at the signature.
NonceInv ==
  /\ NonceTypes
  /\ \A v \in Verifier : startedAt[v] <= signingClock
  /\ \A v \in Verifier : verifyStep[v] = "recorded" => Consumed(verifying[v], startedAt[v])
  /\ \A r \in Response : acceptedFrom[r] >= 0 => Consumed(r, acceptedFrom[r])
  /\ \A r \in Response : nonceSeen[r] <= signingClock

(* Evicting what is old enough leaves consumed what was.                   *)
LEMMA EvictKeeps ==
  ASSUME NonceTypes, NEW r \in Response, NEW t \in Nat, Consumed(r, t),
         nonceSeen' = evict_stale, signingClock' = signingClock
  PROVE  Consumed(r, t)'
<1>1. nonceSeen[r] \in Int /\ signingClock \in Int /\ SigningNonceTtl \in Int
  BY SigningAssumption DEF NonceTypes
<1>2. nonceSeen'[r] = IF nonceSeen[r] >= 0 /\ signingClock - nonceSeen[r] < SigningNonceTtl
                      THEN nonceSeen[r] ELSE -1
  BY Zenon DEF evict_stale, kept_nonce
<1> QED
  BY <1>1, <1>2 DEF Consumed

(* No step of a verification, in whatever order the steps of several fall, *)
(* forgets that a nonce was consumed.                                      *)
LEMMA NonceStep == ASSUME NonceInv, [SigningNext]_signingVars PROVE NonceInv'
<1> USE SigningAssumption
<1>0. NonceTypes
  BY Zenon DEF NonceInv
<1>1. ASSUME NEW v \in Verifier, verify_and_consume(v) PROVE NonceInv'
  <2>1. /\ nonceSeen' = evict_stale /\ signingClock' = signingClock /\ acceptedFrom' = acceptedFrom
        /\ verifying' = verifying /\ startedAt' = [startedAt EXCEPT ![v] = signingClock]
    BY Zenon, <1>1 DEF verify_and_consume
  <2>2. verifyStep' \in [Verifier -> {"idle", "absent", "recorded"}] /\ verifyStep'[v] # "recorded"
    BY Zenon, <1>0, <1>1 DEF verify_and_consume, NonceTypes
  <2>3. \A w \in Verifier : w # v => verifyStep'[w] = verifyStep[w] /\ startedAt'[w] = startedAt[w]
    BY Zenon, <1>0, <1>1 DEF verify_and_consume, NonceTypes
  <2>4. NonceTypes'
    <3>1. evict_stale \in [Response -> Int]
      BY <1>0 DEF NonceTypes, evict_stale
    <3>2. startedAt' \in [Verifier -> Nat]
      BY Zenon, <1>0, <2>1 DEF NonceTypes
    <3> QED
      BY Zenon, <1>0, <2>1, <2>2, <3>1, <3>2 DEF NonceTypes
  <2>5. ASSUME NEW w \in Verifier, verifyStep'[w] = "recorded" PROVE Consumed(verifying[w], startedAt[w])'
    <3>1. w # v /\ verifyStep[w] = "recorded" /\ startedAt'[w] = startedAt[w]
      BY Zenon, <2>2, <2>3, <2>5
    <3>2. verifying[w] \in Response /\ startedAt[w] \in Nat /\ Consumed(verifying[w], startedAt[w])
      BY Zenon, <1>0, <3>1 DEF NonceInv, NonceTypes
    <3>3. \A t \in Nat, r \in Response : Consumed(r, t) => nonceSeen'[r] >= t \/ signingClock - t >= SigningNonceTtl
      BY Zenon, <1>0, <2>1, EvictKeeps DEF Consumed
    <3> QED
      BY Zenon, <2>1, <3>1, <3>2, <3>3 DEF Consumed
  <2>6. ASSUME NEW r \in Response, acceptedFrom'[r] >= 0 PROVE Consumed(r, acceptedFrom[r])'
    <3>1. acceptedFrom[r] \in Nat /\ Consumed(r, acceptedFrom[r])
      BY <1>0, <2>1, <2>6 DEF NonceInv, NonceTypes
    <3>2. \A t \in Nat : Consumed(r, t) => nonceSeen'[r] >= t \/ signingClock - t >= SigningNonceTtl
      BY Zenon, <1>0, <2>1, EvictKeeps DEF Consumed
    <3> QED
      BY Zenon, <2>1, <3>1, <3>2 DEF Consumed
  <2>7. \A r \in Response : nonceSeen'[r] <= signingClock'
    BY <1>0, <2>1 DEF NonceInv, NonceTypes, evict_stale
  <2>8. \A w \in Verifier : startedAt'[w] <= signingClock'
    BY <1>0, <2>1 DEF NonceInv, NonceTypes
  <2> QED
    BY Zenon, <2>4, <2>5, <2>6, <2>7, <2>8 DEF NonceInv
<1>2. ASSUME NEW v \in Verifier, RecordNonce(v) PROVE NonceInv'
  BY <1>2, <1>0 DEF NonceInv, NonceTypes, RecordNonce, at_verify, Consumed
<1>3. ASSUME NEW v \in Verifier, CheckSignature(v) PROVE NonceInv'
  BY <1>3, <1>0 DEF NonceInv, NonceTypes, CheckSignature, at_verify, Consumed
<1>4. CASE SigningTick
  BY <1>4, <1>0 DEF NonceInv, NonceTypes, SigningTick, verifyVars, Consumed
<1>5. ASSUME UNCHANGED <<verifyVars, signingClock>> PROVE NonceInv'
  BY Zenon, <1>5, <1>0 DEF NonceInv, NonceTypes, verifyVars, Consumed
<1> QED
  BY Zenon, <1>1, <1>2, <1>3, <1>4, <1>5
  DEF SigningNext, RotateKey, RotateId, sign, push_leaf, sign_decision, signingVars

(* A verification that starts within the lifetime of the nonce after an    *)
(* accepted one of the same envelope is refused at once                    *)
(* (verify_and_consume, NonceStore).                                       *)
THEOREM ReplaysAreRefused == SigningSpec => [][ReplayRefused]_signingVars
<1>1. SigningInit => NonceInv
  BY SigningAssumption DEF SigningInit, NonceInv, NonceTypes, Consumed
<1>2. NonceInv /\ [SigningNext]_signingVars => NonceInv'
  BY Zenon, NonceStep
<1>3. NonceInv /\ [SigningNext]_signingVars => ReplayRefused
  <2> SUFFICES ASSUME NonceInv, [SigningNext]_signingVars, NEW v \in Verifier, verifyStep[v] = "idle",
                      verifyStep'[v] = "absent", acceptedFrom[verifying[v]] >= 0
               PROVE  signingClock - acceptedFrom[verifying[v]] >= SigningNonceTtl
    BY Zenon DEF ReplayRefused
  <2> DEFINE r == verifying[v]
  <2>1. verify_and_consume(v)
    BY Zenon DEF SigningNext, RotateKey, RotateId, SigningTick, sign, push_leaf, sign_decision, verify_and_consume,
           RecordNonce, CheckSignature, at_verify, verifyVars, signingVars, NonceInv, NonceTypes
  <2>2. /\ r \in Response /\ nonceSeen[r] \in Int /\ acceptedFrom[r] \in Int /\ signingClock \in Int
        /\ SigningNonceTtl \in Int
    BY SigningAssumption DEF NonceInv, NonceTypes
  <2>3. ~(evict_stale[r] >= 0)
    BY Zenon, <2>1 DEF verify_and_consume, NonceInv, NonceTypes
  <2>4. evict_stale[r] = IF nonceSeen[r] >= 0 /\ signingClock - nonceSeen[r] < SigningNonceTtl
                         THEN nonceSeen[r] ELSE -1
    BY Zenon, <2>2 DEF evict_stale, kept_nonce
  <2>5. Consumed(r, acceptedFrom[r])
    BY Zenon, <2>2 DEF NonceInv
  <2> QED
    BY <2>2, <2>3, <2>4, <2>5 DEF Consumed
<1> QED
  BY <1>1, <1>2, <1>3, PTL DEF SigningSpec

-----------------------------------------------------------------------------
(* Votes and partitions *)

(* Sets of members are finite, and a larger one has at least as many.      *)
LEMMA Counting ==
  ASSUME NEW A \in SUBSET Member, NEW B \in SUBSET Member, A \subseteq B
  PROVE  /\ Cardinality(A) \in Nat /\ Cardinality(B) \in Nat
         /\ Cardinality(A) <= Cardinality(B)
<1>1. IsFiniteSet(B)
  BY Zenon, QuorumAssumption, FS_Subset
<1> QED
  BY Zenon, <1>1, FS_Subset, FS_CardinalityType

(* Disjoint sets of members, such as those who approve and those who       *)
(* reject, are together no more than the cluster.                          *)
LEMMA Disjoint ==
  ASSUME NEW A \in SUBSET Member, NEW R \in SUBSET Member, A \cap R = {}
  PROVE  Cardinality(A) + Cardinality(R) <= Cardinality(Member)
<1>1. IsFiniteSet(A) /\ IsFiniteSet(R)
  BY Zenon, QuorumAssumption, FS_Subset
<1>2. Cardinality(A \cup R) = Cardinality(A) + Cardinality(R) - Cardinality(A \cap R)
  BY Zenon, <1>1, FS_Union
<1>3. Cardinality(A \cap R) = 0
  BY Zenon, FS_EmptySet
<1>4. Cardinality(A \cup R) <= Cardinality(Member)
  BY Zenon, Counting
<1>5. Cardinality(A) \in Nat /\ Cardinality(R) \in Nat
  BY Zenon, Counting
<1> QED
  BY <1>2, <1>3, <1>4, <1>5

(* A step that takes no vote back only adds votes of either kind.           *)
LEMMA VotesGrow ==
  ASSUME NoVoteTakenBack
  PROVE  /\ cast("Approve") \subseteq cast("Approve")'
         /\ cast("Reject") \subseteq cast("Reject")'
         /\ voted \subseteq voted'
BY Zenon DEF NoVoteTakenBack, voted, cast

(* When everybody has voted, a step that takes no vote back adds none.      *)
LEMMA FullVote ==
  ASSUME NoVoteTakenBack, Cardinality(voted) >= Cardinality(Member)
  PROVE  cast("Approve")' = cast("Approve")
<1>1. voted \subseteq Member /\ IsFiniteSet(Member)
  BY Zenon, QuorumAssumption DEF voted
<1>2. voted = Member
  BY <1>1, FS_Subset, FS_CardinalityType
<1> QED
  BY Zenon, <1>2 DEF NoVoteTakenBack, cast

(* Enough rejections leave too few members for a quorum of approvals.      *)
LEMMA TooManyRejections ==
  ASSUME NEW m \in Nat, NEW q \in 1..m, NEW b \in Nat, NEW a2 \in Nat, NEW b2 \in Nat,
         b > m - q, b <= b2, a2 + b2 <= m
  PROVE  ~(a2 >= q) /\ b2 > m - q
OBVIOUS

(* Once QuorumTracker has an outcome, votes that come in later, in any      *)
(* order, never change it, as long as no member takes its vote back.        *)
THEOREM OutcomeFinal == VotesSpec => [][DecisionFinal]_votes
<1>1. ASSUME [VotesNext]_votes PROVE DecisionFinal
  <2> SUFFICES ASSUME decision # "Pending", NoVoteTakenBack PROVE decision' = decision
    BY Zenon DEF DecisionFinal
  <2> DEFINE m == Cardinality(Member)
             a == Cardinality(cast("Approve"))
             b == Cardinality(cast("Reject"))
             v == Cardinality(voted)
  <2>1. /\ a \in Nat /\ a' \in Nat /\ a <= a' /\ b \in Nat /\ b' \in Nat /\ b <= b'
        /\ v \in Nat /\ v' \in Nat /\ v <= v'
    BY Zenon, VotesGrow, Counting DEF cast, voted
  <2>2. a + b <= m /\ a' + b' <= m /\ m \in Nat /\ Quorum \in 1..m
    BY Zenon, Disjoint, QuorumAssumption, FS_CardinalityType DEF cast
  <2>3. v >= m => a' = a
    BY Zenon, FullVote
  <2> HIDE DEF a, b, v, m
  <2>4. decision = IF a >= Quorum THEN "Approved" ELSE IF b > m - Quorum \/ v >= m THEN "Rejected" ELSE "Pending"
    BY Zenon DEF decision, cannot_approve, a, b, v, m
  <2>5. decision' = IF a' >= Quorum THEN "Approved" ELSE IF b' > m - Quorum \/ v' >= m THEN "Rejected" ELSE "Pending"
    BY Zenon DEF decision, cannot_approve, a, b, v, m
  <2>6. CASE a >= Quorum
    <3>1. a' >= Quorum
      BY <2>1, <2>2, <2>6
    <3> QED
      BY Zenon, <2>4, <2>5, <2>6, <3>1
  <2>7. CASE ~(a >= Quorum) /\ b > m - Quorum
    <3>1. ~(a' >= Quorum) /\ b' > m - Quorum
      BY Zenon, <2>1, <2>2, <2>7, TooManyRejections
    <3> QED
      BY Zenon, <2>4, <2>5, <2>7, <3>1
  <2>8. CASE ~(a >= Quorum) /\ v >= m
    <3>1. ~(a' >= Quorum) /\ v' >= m
      BY <2>1, <2>2, <2>3, <2>8
    <3> QED
      BY Zenon, <2>4, <2>5, <2>8, <3>1
  <2> QED
    BY Zenon, <2>4, <2>6, <2>7, <2>8
<1> QED
  BY <1>1, PTL DEF VotesSpec

-----------------------------------------------------------------------------
(* A node has not heard the other side for as long as the split lasts, and *)
(* the duration of a split is counted from zero.                           *)
SilenceOK ==
  /\ silence = [n \in Peer |-> silence[n]]
  /\ \A n \in Peer : silence[n] \in [Peer \ {n} -> 0..PeerTimeout]
SidesOK == side \in [Peer -> 1..2] /\ splitFor \in 0..PeerTimeout
ApartOK == \A n, m \in Peer : side[n] # side[m] => silence[n][m] >= splitFor
PartitionInv == SilenceOK /\ SidesOK /\ ApartOK /\ (~is_split => splitFor = 0)

(* Heartbeats pass within a side only, so no step shortens the silence     *)
(* between the sides.                                                      *)
LEMMA PartitionStep ==
  ASSUME PartitionInv, [PartitionNext]_partitionVars PROVE PartitionInv'
<1> USE PartitionAssumption
<1>0. SilenceOK /\ SidesOK /\ ApartOK /\ (~is_split => splitFor = 0)
  BY Zenon DEF PartitionInv
<1>1. ASSUME NEW n \in Peer, NEW m \in Peer \ {n}, record_heartbeat(n, m) PROVE PartitionInv'
  <2>1. silence' = [silence EXCEPT ![n] = [silence[n] EXCEPT ![m] = 0]]
    BY Zenon, <1>1 DEF record_heartbeat
  <2>2. \A p \in Peer : silence'[p] = IF p = n THEN [silence[n] EXCEPT ![m] = 0] ELSE silence[p]
    BY Zenon, <1>0, <2>1 DEF SilenceOK
  <2>3. silence' = [p \in Peer |-> silence'[p]]
    BY Zenon, <1>0, <2>1 DEF SilenceOK
  <2>4. SilenceOK'
    <3>1. ASSUME NEW p \in Peer PROVE silence'[p] \in [Peer \ {p} -> 0..PeerTimeout]
      <4>0. silence[p] \in [Peer \ {p} -> 0..PeerTimeout]
        BY <1>0, Zenon DEF SilenceOK
      <4>1. silence[p] \in [Peer \ {p} -> 0..PeerTimeout] /\ 0 \in 0..PeerTimeout
        BY <4>0
      <4>2. CASE p = n
        BY Zenon, <2>2, <4>1, <4>2
      <4>3. CASE p # n
        BY Zenon, <2>2, <4>1, <4>3
      <4> QED
        BY Zenon, <4>2, <4>3
    <3> QED
      BY Zenon, <2>3, <3>1 DEF SilenceOK
  <2>5. side' = side /\ splitFor' = splitFor /\ side[n] = side[m]
    BY Zenon, <1>1 DEF record_heartbeat
  <2>6. ASSUME NEW p \in Peer, NEW q \in Peer, side[p] # side[q] PROVE silence'[p][q] >= splitFor
    <3>1. silence'[p][q] = silence[p][q]
      <4>1. CASE p # n
        BY Zenon, <2>2, <4>1
      <4>2. CASE p = n
        <5>1. q # m /\ q # n
          BY Zenon, <2>5, <2>6, <4>2
        <5>2. silence[n] \in [Peer \ {n} -> 0..PeerTimeout]
          BY <1>0, Zenon DEF SilenceOK
        <5>3. QED
          BY Zenon, <2>2, <4>2, <5>1, <5>2
      <4>3. QED
        BY Zenon, <4>1, <4>2
    <3> QED
      BY Zenon, <1>0, <2>6, <3>1 DEF ApartOK
  <2> QED
    BY Zenon, <1>0, <2>4, <2>5, <2>6 DEF PartitionInv, SidesOK, ApartOK, is_split
<1>2. CASE Split
  <2>1. splitFor = 0 /\ splitFor' = 0 /\ silence' = silence /\ side' \in [Peer -> 1..2]
    BY Zenon, <1>0, <1>2 DEF Split
  <2>2. ASSUME NEW p \in Peer, NEW q \in Peer, side'[p] # side'[q] PROVE silence'[p][q] >= splitFor'
    <3>1. q \in Peer \ {p} /\ silence[p] \in [Peer \ {p} -> 0..PeerTimeout]
      BY Zenon, <1>0, <2>2 DEF SilenceOK
    <3>2. silence[p][q] \in 0..PeerTimeout
      BY Zenon, <3>1
    <3> QED
      BY <2>1, <3>2
  <2>3. SilenceOK' /\ SidesOK'
    BY Zenon, <1>0, <2>1 DEF SilenceOK, SidesOK
  <2> QED
    BY Zenon, <2>1, <2>2, <2>3 DEF PartitionInv, ApartOK
<1>3. CASE Heal
  <2>1. \A p, q \in Peer : side'[p] = side'[q]
    BY Zenon, <1>3 DEF Heal
  <2>2. SilenceOK' /\ SidesOK' /\ splitFor' = 0
    BY <1>0, <1>3 DEF Heal, SilenceOK, SidesOK
  <2> QED
    BY Zenon, <2>1, <2>2 DEF PartitionInv, ApartOK
<1>4. CASE TimePasses
  <2>1. \A t \in 0..PeerTimeout : aged(t) \in 0..PeerTimeout /\ aged(t) >= t
    BY DEF aged
  <2>2. \A t, u \in 0..PeerTimeout : t >= u => aged(t) >= aged(u)
    BY DEF aged
  <2>3. SilenceOK'
    BY Zenon, <1>0, <1>4, <2>1 DEF SilenceOK, TimePasses
  <2>4. side' = side /\ is_split' = is_split /\ splitFor' = IF is_split THEN aged(splitFor) ELSE 0
    BY Zenon, <1>4 DEF TimePasses, is_split
  <2>5. SidesOK'
    BY Zenon, <1>0, <2>1, <2>4 DEF SidesOK
  <2>6. ASSUME NEW p \in Peer, NEW q \in Peer, side[p] # side[q] PROVE silence'[p][q] >= splitFor'
    <3>1. silence'[p][q] = aged(silence[p][q]) /\ silence[p][q] \in 0..PeerTimeout
      BY Zenon, <1>0, <1>4, <2>6 DEF TimePasses, SilenceOK
    <3>2. splitFor' = aged(splitFor) /\ splitFor \in 0..PeerTimeout
      BY Zenon, <1>0, <2>4, <2>6 DEF is_split, SidesOK
    <3>3. silence[p][q] >= splitFor
      BY Zenon, <1>0, <2>6 DEF ApartOK
    <3> QED
      BY Zenon, <2>2, <3>1, <3>2, <3>3
  <2> QED
    BY Zenon, <2>3, <2>4, <2>5, <2>6 DEF PartitionInv, ApartOK
<1>5. CASE UNCHANGED partitionVars
  BY Zenon, <1>0, <1>5 DEF partitionVars, PartitionInv, SilenceOK, SidesOK, ApartOK, is_split
<1> QED
  BY Zenon, <1>1, <1>2, <1>3, <1>4, <1>5 DEF PartitionNext

(* What a node with a quorum hears, and itself, is a set of so many peers. *)
LEMMA Visible ==
  ASSUME NEW n \in Peer, has_quorum(n)
  PROVE  /\ {n} \cup reachable_peers(n) \in SUBSET Peer
         /\ IsFiniteSet({n} \cup reachable_peers(n))
         /\ Cardinality({n} \cup reachable_peers(n)) \in Nat
         /\ Cardinality({n} \cup reachable_peers(n)) >= PeerQuorum
<1>1. reachable_peers(n) \subseteq Peer /\ n \notin reachable_peers(n)
  BY Zenon DEF reachable_peers
<1>2. IsFiniteSet(reachable_peers(n)) /\ Cardinality(reachable_peers(n)) \in Nat
  BY Zenon, <1>1, PartitionAssumption, FS_Subset, FS_CardinalityType
<1>3. Cardinality(reachable_peers(n) \cup {n}) = Cardinality(reachable_peers(n)) + 1
  BY Zenon, <1>1, <1>2, FS_AddElement
<1>4. {n} \cup reachable_peers(n) = reachable_peers(n) \cup {n}
  BY Zenon
<1>5. IsFiniteSet({n} \cup reachable_peers(n))
  BY <1>1, PartitionAssumption, FS_Subset
<1> QED
  BY <1>1, <1>2, <1>3, <1>4, <1>5 DEF has_quorum, visible_cluster_size

(* Once a split has outlasted the peer timeout, only nodes of one side find *)
(* a quorum and go on writing (PartitionDetector::check_write), although    *)
(* every node decides by itself from the heartbeats it has heard.           *)
THEOREM OneSideWrites == PartitionSpec => []NoSplitBrain
<1>1. PartitionInit => PartitionInv
  BY PartitionAssumption DEF PartitionInit, PartitionInv, SilenceOK, SidesOK, ApartOK, is_split
<1>2. PartitionInv /\ [PartitionNext]_partitionVars => PartitionInv'
  BY Zenon, PartitionStep
<1>3. PartitionInv => NoSplitBrain
  <2> SUFFICES ASSUME PartitionInv, splitFor = PeerTimeout, NEW n \in Peer, NEW m \in Peer,
                      has_quorum(n), has_quorum(m), side[n] # side[m]
               PROVE  FALSE
    BY Zenon DEF NoSplitBrain, check_write
  <2> DEFINE N == {n} \cup reachable_peers(n)
             M == {m} \cup reachable_peers(m)
  <2>1. ASSUME NEW p \in Peer, NEW q \in reachable_peers(p) PROVE q \in Peer /\ side[q] = side[p]
    <3>1. q \in Peer /\ q # p /\ silence[p][q] < PeerTimeout
      BY Zenon, <2>1 DEF reachable_peers
    <3>2. silence[p] \in [Peer \ {p} -> 0..PeerTimeout]
      BY Zenon DEF PartitionInv, SilenceOK
    <3>3. side[p] # side[q] => silence[p][q] >= PeerTimeout
      BY Zenon, <3>1 DEF PartitionInv, ApartOK
    <3>4. silence[p][q] \in Int /\ PeerTimeout \in Int
      BY <3>1, <3>2, PartitionAssumption
    <3> QED
      BY <3>1, <3>3, <3>4
  <2>2. N \cap M = {}
    BY Zenon, <2>1
  <2>3. /\ IsFiniteSet(N) /\ Cardinality(N) \in Nat /\ Cardinality(N) >= PeerQuorum /\ N \subseteq Peer
        /\ IsFiniteSet(M) /\ Cardinality(M) \in Nat /\ Cardinality(M) >= PeerQuorum /\ M \subseteq Peer
    BY Zenon, Visible
  <2> HIDE DEF N, M
  <2>4. Cardinality(N \cup M) = Cardinality(N) + Cardinality(M) - Cardinality(N \cap M)
    BY Zenon, <2>3, FS_Union
  <2>5. Cardinality(N \cap M) = 0
    BY Zenon, <2>2, FS_EmptySet
  <2>6. N \cup M \subseteq Peer
    BY Zenon, <2>3
  <2>7. Cardinality(N \cup M) <= Cardinality(Peer) /\ Cardinality(Peer) \in Nat
    BY Zenon, <2>6, PartitionAssumption, FS_Subset, FS_CardinalityType
  <2> QED
    BY <2>3, <2>4, <2>5, <2>7, PartitionAssumption
<1> QED
  BY <1>1, <1>2, <1>3, PTL DEF PartitionSpec

-----------------------------------------------------------------------------
(* Authentication of messages. *)


\* A nonce that was served within its lifetime is still held with the time at
\* which it was served: the sweep of check_and_insert_nonce takes out only
\* those that are too old.
ServedHeld ==
  \A n \in Nonce : served[n] # -1 /\ now - served[n] < NonceTtl =>
    [nonce |-> n, at |-> served[n]] \in nonces

AuthInv ==
  /\ now \in Nat
  /\ served \in [Nonce -> Nat \cup {-1}]
  /\ authTask \in [Call -> {Resting} \cup [at : {"middleware", "handler"}, msg : Message]]
  /\ ServedHeld

\* A nonce that passes the lookup was not served within its lifetime.
LEMMA LookupRefuses ==
    ASSUME AuthInv, NEW n \in Nonce, check_and_insert_nonce(n), served[n] # -1
    PROVE  now - served[n] >= NonceTtl
<1>1. SUFFICES ASSUME now - served[n] < NonceTtl PROVE FALSE
  <2>1. now \in Int /\ served[n] \in Int /\ NonceTtl \in Int
    BY AuthAssumption DEF AuthInv
  <2>2. QED
    BY <2>1
<1> DEFINE held == [nonce |-> n, at |-> served[n]]
<1>2. held \in nonces
  BY Zenon, <1>1 DEF AuthInv, ServedHeld
<1>3. held.nonce = n /\ held.at = served[n]
  BY Zenon
<1> HIDE DEF held
<1>4. young(held)
  BY Zenon, <1>1, <1>3 DEF young
<1>5. held \in swept
  BY Zenon, <1>2, <1>4 DEF swept
<1>6. QED
  BY Zenon, <1>3, <1>5 DEF check_and_insert_nonce

\* The lookup keeps every nonce that is young enough, and a nonce it accepts
\* is held from now on.
LEMMA LookupKeeps ==
    ASSUME AuthInv, NEW n \in Nonce, nonce_looked_up(n), now' = now, NEW x \in Nonce,
           served[x] # -1, now - served[x] < NonceTtl
    PROVE  [nonce |-> x, at |-> served[x]] \in nonces'
<1> DEFINE held == [nonce |-> x, at |-> served[x]]
<1>1. held \in nonces /\ held.at = served[x]
  BY Zenon DEF AuthInv, ServedHeld
<1> HIDE DEF held
<1>2. held \in swept
  BY Zenon, <1>1 DEF swept, young
<1>3. held \in nonces'
  BY Zenon, <1>2 DEF nonce_looked_up
<1>4. QED
  BY Zenon, <1>3 DEF held

\* What security_middleware and validate_request do with the nonces: a lookup,
\* after which a nonce that passed may be served now; or nothing.
Looked(n) ==
  /\ nonce_looked_up(n)
  /\ \/ served' = served
     \/ check_and_insert_nonce(n) /\ served' = [served EXCEPT ![n] = now]

(* A nonce that is looked up is served at most once within its lifetime. *)
LEMMA LookedHolds ==
    ASSUME AuthInv, NEW n \in Nonce, Looked(n), now' = now
    PROVE  /\ served' \in [Nonce -> Nat \cup {-1}]
           /\ ServedHeld'
           /\ \A x \in Nonce : served'[x] # served[x] /\ served[x] # -1 =>
                served'[x] - served[x] >= NonceTtl
<1>1. CASE served' = served
  <2>1. ServedHeld'
    BY Zenon, <1>1, LookupKeeps DEF ServedHeld, Looked
  <2>2. QED
    BY Zenon, <1>1, <2>1 DEF AuthInv
<1>2. CASE check_and_insert_nonce(n) /\ served' = [served EXCEPT ![n] = now]
  <2>1. served' \in [Nonce -> Nat \cup {-1}] /\ served'[n] = now
        /\ \A x \in Nonce : x # n => served'[x] = served[x]
    BY Zenon, <1>2 DEF AuthInv
  <2>2. [nonce |-> n, at |-> now] \in nonces'
    BY Zenon, <1>2 DEF nonce_looked_up, Looked
  <2>3. ASSUME NEW x \in Nonce, served'[x] # -1, now' - served'[x] < NonceTtl
        PROVE  [nonce |-> x, at |-> served'[x]] \in nonces'
    <3>1. CASE x = n
      BY Zenon, <3>1, <2>1, <2>2
    <3>2. CASE x # n
      BY Zenon, <3>2, <2>1, <2>3, LookupKeeps DEF Looked
    <3>3. QED
      BY Zenon, <3>1, <3>2
  <2>4. served[n] # -1 => now - served[n] >= NonceTtl
    BY Zenon, <1>2, LookupRefuses
  <2>5. QED
    BY Zenon, <2>1, <2>3, <2>4 DEF ServedHeld
<1>3. QED
  BY Zenon, <1>1, <1>2 DEF Looked

(* A message carries a nonce. *)
LEMMA MessageNonce == ASSUME NEW m \in Message PROVE m.nonce \in Nonce
  BY Zenon DEF Nonce

\* What a step of a task does to the nonces, and that the task goes on with
\* its message or rests.
LEMMA MiddlewareLooks ==
    ASSUME AuthInv, NEW c \in Call, security_middleware(c)
    PROVE  /\ now' = now
           /\ authTask' \in [Call -> {Resting} \cup [at : {"middleware", "handler"}, msg : Message]]
           /\ (\E n \in Nonce : Looked(n)) \/ UNCHANGED <<nonces, served>>
<1> DEFINE m == authTask[c].msg
<1>1. authTask[c] \in [at : {"middleware", "handler"}, msg : Message]
  <2>1. authTask[c] \in {Resting} \cup [at : {"middleware", "handler"}, msg : Message]
    BY Zenon DEF AuthInv
  <2>2. authTask[c].at = "middleware"
    BY Zenon DEF security_middleware
  <2>3. QED
    BY <2>1, <2>2 DEF Resting
<1>2. m \in Message /\ m.nonce \in Nonce
  BY Zenon, <1>1, MessageNonce
<1>3. authTask' \in [Call -> {Resting} \cup [at : {"middleware", "handler"}, msg : Message]]
  BY <1>1 DEF AuthInv, security_middleware, answer
<1>4. CASE m.ed25519 /\ fresh(m.ts)
  <2>1. Looked(m.nonce)
    BY Zenon, <1>4 DEF security_middleware, Looked, verify_ed25519_request_sig
  <2>2. QED
    BY Zenon, <2>1, <1>2, <1>3 DEF security_middleware
<1>5. CASE ~(m.ed25519 /\ fresh(m.ts))
  BY Zenon, <1>5, <1>3 DEF security_middleware, verify_ed25519_request_sig, nonceVars
<1>6. QED
  BY Zenon, <1>4, <1>5

(* The handler looks up at most the nonce of its message. *)
LEMMA HandlerLooks ==
    ASSUME AuthInv, NEW c \in Call, validate_request(c)
    PROVE  /\ now' = now
           /\ authTask' \in [Call -> {Resting} \cup [at : {"middleware", "handler"}, msg : Message]]
           /\ (\E n \in Nonce : Looked(n)) \/ UNCHANGED <<nonces, served>>
<1> DEFINE m == authTask[c].msg
           looks == accepts_headers(m) /\ require_legacy_hmac(m) /\ fresh(m.ts)
<1>1. authTask[c] \in [at : {"middleware", "handler"}, msg : Message]
  <2>1. authTask[c] \in {Resting} \cup [at : {"middleware", "handler"}, msg : Message]
    BY Zenon DEF AuthInv
  <2>2. authTask[c].at = "handler"
    BY Zenon DEF validate_request
  <2>3. QED
    BY <2>1, <2>2 DEF Resting
<1>2. m \in Message /\ m.nonce \in Nonce
  BY Zenon, <1>1, MessageNonce
<1>3. authTask' \in [Call -> {Resting} \cup [at : {"middleware", "handler"}, msg : Message]]
  BY Zenon, <1>1 DEF AuthInv, validate_request, answer
<1>4. CASE looks
  <2>1. Looked(m.nonce)
    BY Zenon, <1>4 DEF validate_request, Looked
  <2>2. QED
    BY Zenon, <2>1, <1>2, <1>3 DEF validate_request
<1>5. CASE ~looks
  BY Zenon, <1>5, <1>3 DEF validate_request, nonceVars
<1>6. QED
  BY Zenon, <1>4, <1>5

(* A call of the middleware or of the handler keeps the invariant. *)
LEMMA AuthStep ==
    ASSUME AuthInv, [AuthNext]_authVars
    PROVE  AuthInv' /\ NonceOncePerTtl
<1> DEFINE Kept == /\ AuthInv'
                   /\ \A n \in Nonce : served'[n] # served[n] /\ served[n] # -1 =>
                        served'[n] - served[n] >= NonceTtl
<1>1. ASSUME NEW c \in Call, NEW m \in Message, Arrive(c, m) PROVE Kept
  BY Zenon, <1>1 DEF Arrive, AuthInv, nonceVars, ServedHeld
<1>2. ASSUME NEW c \in Call, security_middleware(c) \/ validate_request(c) PROVE Kept
  <2>1. /\ now' = now
        /\ authTask' \in [Call -> {Resting} \cup [at : {"middleware", "handler"}, msg : Message]]
        /\ (\E n \in Nonce : Looked(n)) \/ UNCHANGED <<nonces, served>>
    BY Zenon, <1>2, MiddlewareLooks, HandlerLooks
  <2>2. CASE \E n \in Nonce : Looked(n)
    <3>1. PICK n \in Nonce : Looked(n)
      BY Zenon, <2>2
    <3>2. /\ served' \in [Nonce -> Nat \cup {-1}]
          /\ ServedHeld'
          /\ \A x \in Nonce : served'[x] # served[x] /\ served[x] # -1 =>
               served'[x] - served[x] >= NonceTtl
      BY Zenon, <3>1, <2>1, LookedHolds
    <3>3. QED
      BY Zenon, <3>2, <2>1 DEF AuthInv
  <2>3. CASE UNCHANGED <<nonces, served>>
    BY Zenon, <2>1, <2>3 DEF AuthInv, ServedHeld
  <2>4. QED
    BY Zenon, <2>1, <2>2, <2>3
<1>3. ASSUME PassSecond PROVE Kept
  <2>1. now \in Nat /\ now' = now + 1 /\ nonces' = nonces /\ served' = served
    BY Zenon, <1>3 DEF AuthInv, PassSecond, nonceVars
  <2>2. ServedHeld'
    <3>1. ASSUME NEW n \in Nonce, served'[n] # -1, now' - served'[n] < NonceTtl
          PROVE  [nonce |-> n, at |-> served'[n]] \in nonces'
      <4>1. served[n] \in Int /\ NonceTtl \in Int
        BY AuthAssumption DEF AuthInv
      <4>2. now - served[n] < NonceTtl
        BY <4>1, <3>1, <2>1
      <4>3. QED
        BY Zenon, <4>2, <3>1, <2>1 DEF AuthInv, ServedHeld
    <3>2. QED
      BY Zenon, <3>1 DEF ServedHeld
  <2>3. QED
    BY <1>3, <2>1, <2>2 DEF AuthInv, PassSecond
<1>4. ASSUME UNCHANGED authVars PROVE Kept
  BY Zenon, <1>4 DEF authVars, AuthInv, ServedHeld
<1>5. Kept
  BY Zenon, <1>1, <1>2, <1>3, <1>4 DEF AuthNext
<1>6. QED
  BY Zenon, <1>5 DEF NonceOncePerTtl

(* At the start no nonce was seen. *)
LEMMA InitialNonces == ASSUME AuthInit PROVE AuthInv
  BY Zenon DEF AuthInit, AuthInv, ServedHeld

\* A message whose nonce was served is not served again before the nonce is
\* NonceTtl seconds old, whatever its deliveries overlap with.
THEOREM NoncesServedOnce == AuthSpec => [][NonceOncePerTtl]_authVars
<1>1. AuthInit => AuthInv
  BY Zenon, InitialNonces
<1>2. AuthInv /\ [AuthNext]_authVars => AuthInv'
  BY Zenon, AuthStep
<1>3. AuthInv /\ [AuthNext]_authVars => NonceOncePerTtl
  BY Zenon, AuthStep
<1>4. QED
  BY <1>1, <1>2, <1>3, PTL DEF AuthSpec

-----------------------------------------------------------------------------
(* Accounts of administrators. *)

\* An account has a time it was switched off exactly while it is inactive, and
\* a session outlives neither the hour it was issued in nor the hour its
\* account was switched off by more than its lifetime.
AdminInv ==
  /\ hour \in Nat
  /\ inactiveSince \in [AdminUser -> Nat \cup {-1}] /\ acted \in [AdminUser -> Nat \cup {-1}]
  /\ \A a \in AdminUser : inactiveSince[a] <= hour /\ acted[a] <= hour /\ (a \in admin_active <=> inactiveSince[a] = -1)
  /\ \A s \in sessions : s.sub \in AdminUser /\ s.exp \in Nat /\ s.exp <= hour + SessionExpiry
  /\ \A s \in sessions : inactiveSince[s.sub] # -1 => s.exp <= inactiveSince[s.sub] + SessionExpiry
  /\ AdminPowerExpires

(* At the start nobody has a session and nobody has acted. *)
LEMMA InitialAdmins == ASSUME AdminInit PROVE AdminInv
  BY DEF AdminInit, AdminInv, AdminPowerExpires

(* A login, and an account switched off or on at the start. *)
LEMMA AccountStep ==
    ASSUME AdminInv, NEW a \in AdminUser,
           (\E pw \in BOOLEAN : admin_login(a, pw)) \/ Deactivate(a) \/ bootstrap_if_configured(a)
    PROVE  AdminInv'
<1> USE AdminAssumption
<1>n. SessionExpiry \in Nat /\ Leeway \in Nat
  BY DEF AdminAssumption
<1>1. CASE \E pw \in BOOLEAN : admin_login(a, pw)
  <2> DEFINE s == [sub |-> a, exp |-> hour + SessionExpiry]
  <2>1. /\ a \in admin_active /\ sessions' = sessions \cup {s}
        /\ UNCHANGED <<hour, admin_active, inactiveSince, acted>>
    BY Zenon, <1>1 DEF admin_login, find_and_verify_backend, issue_admin_session_jwt
  <2>2. s.sub = a /\ s.exp = hour + SessionExpiry
    BY Zenon
  <2> HIDE DEF s
  <2>3. QED
    BY <1>n, <2>1, <2>2 DEF AdminInv, AdminPowerExpires
<1>2. CASE Deactivate(a)
  <2>1. /\ a \in admin_active /\ admin_active' = admin_active \ {a}
        /\ inactiveSince' = [inactiveSince EXCEPT ![a] = hour] /\ UNCHANGED <<hour, sessions, acted>>
    BY Zenon, <1>2 DEF Deactivate
  <2>2. QED
    BY <1>n, <2>1 DEF AdminInv, AdminPowerExpires
<1>3. CASE bootstrap_if_configured(a)
  <2>1. /\ admin_active' = admin_active \cup {a}
        /\ inactiveSince' = [inactiveSince EXCEPT ![a] = -1] /\ UNCHANGED <<hour, sessions, acted>>
    BY Zenon, <1>3 DEF bootstrap_if_configured
  <2>2. QED
    BY <1>n, <2>1 DEF AdminInv, AdminPowerExpires
<1>4. QED
  BY Zenon, <1>1, <1>2, <1>3

(* A change of the registry under a session that has not run out. *)
LEMMA RegistryStep ==
    ASSUME AdminInv, NEW h, NEW agents, change_registry(h, agents)
    PROVE  AdminInv'
<1>n. SessionExpiry \in Nat /\ Leeway \in Nat
  BY AdminAssumption
<1>0. UNCHANGED <<hour, admin_active, inactiveSince, sessions>>
  BY Zenon DEF change_registry
<1>1. CASE ~by_session(h)
  <2>1. acted' = acted
    BY Zenon, <1>1 DEF change_registry
  <2>2. QED
    BY Zenon, <1>0, <2>1 DEF AdminInv, AdminPowerExpires
<1>2. CASE by_session(h)
  <2>1. /\ h.session \in sessions /\ hour <= h.session.exp + Leeway
        /\ acted' = [acted EXCEPT ![h.session.sub] = hour]
    BY Zenon, <1>2 DEF change_registry, by_session, verify_admin_session_jwt, unexpired
  <2>2. PICK s \in sessions : s = h.session
    BY Zenon, <2>1
  <2>3. hour <= s.exp + Leeway /\ acted' = [acted EXCEPT ![s.sub] = hour]
    BY Zenon, <2>1, <2>2
  <2>4. QED
    BY <1>0, <1>n, <2>3 DEF AdminInv, AdminPowerExpires
<1>3. QED
  BY Zenon, <1>1, <1>2

(* A step of the administrators keeps the invariant. *)
LEMMA AdminStep == ASSUME AdminInv, [AdminNext]_adminVars PROVE AdminInv'
<1>1. CASE \E a \in AdminUser :
             (\E pw \in BOOLEAN : admin_login(a, pw)) \/ Deactivate(a) \/ bootstrap_if_configured(a)
  BY Zenon, <1>1, AccountStep
<1>2. CASE \E h \in admin_headers, a \in RegAgent \cup {NoAgent} :
             admin_register_agent(h, a) \/ admin_unregister_agent(h, a)
  BY Zenon, <1>2, RegistryStep DEF admin_register_agent, admin_unregister_agent
<1>3. CASE PassHour
  <2>1. hour' = hour + 1 /\ UNCHANGED <<admin_active, inactiveSince, sessions, acted>>
    BY Zenon, <1>3 DEF PassHour
  <2>2. SessionExpiry \in Nat
    BY AdminAssumption
  <2>3. QED
    BY <2>1, <2>2 DEF AdminInv, AdminPowerExpires
<1>4. CASE UNCHANGED adminVars
  BY Zenon, <1>4 DEF adminVars, AdminInv, AdminPowerExpires
<1>5. QED
  BY Zenon, <1>1, <1>2, <1>3, <1>4 DEF AdminNext

(* However logins, deactivations and requests overlap, an administrator     *)
(* whose account is switched off changes nothing once the last session they *)
(* could hold has run out, though the server keeps no sessions.             *)
THEOREM AdminPowersEnd == AdminSpec => []AdminPowerExpires
<1>1. AdminInit => AdminInv
  BY Zenon, InitialAdmins
<1>2. AdminInv /\ [AdminNext]_adminVars => AdminInv'
  BY Zenon, AdminStep
<1>3. AdminInv => AdminPowerExpires
  BY Zenon DEF AdminInv
<1>4. QED
  BY <1>1, <1>2, <1>3, PTL DEF AdminSpec


-----------------------------------------------------------------------------
(* Transactions across the bridge. *)

(* Two regions at least mean two validators that differ. *)
LEMMA RegionsDiffer ==
    ASSUME NEW n \in Nat, NEW f \in [1..n -> Region], Cardinality({f[i] : i \in 1..n}) >= 2
    PROVE  \E i, j \in 1..n : f[i] # f[j]
<1> SUFFICES ASSUME \A i, j \in 1..n : f[i] = f[j] PROVE FALSE
  BY Zenon
<1> DEFINE S == {f[i] : i \in 1..n}
<1>1. CASE n = 0
  <2>1. S = {}
    BY <1>1
  <2>2. Cardinality(S) = 0
    BY Zenon, <2>1, FS_EmptySet
  <2>3. QED
    BY <2>2
<1>2. CASE n # 0
  <2>1. 1 \in 1..n
    BY <1>2
  <2>2. S = {f[1]}
    BY Zenon, <2>1
  <2>3. Cardinality(S) = 1
    BY Zenon, <2>2, FS_Singleton
  <2>4. QED
    BY <2>3
<1>3. QED
  BY Zenon, <1>1, <1>2

\* Before the call the bridge has answered nothing; its answer is guarded.
BridgeInv ==
  /\ \E n \in Nat : deployment.regions \in [1..n -> Region]
  /\ HighStakesGuarded

(* A deployment starts with its regions, before any transaction. *)
LEMMA InitialBridge == ASSUME BridgeInit PROVE BridgeInv
<1>1. \E n \in Nat : deployment.regions \in [1..n -> Region]
  <2>1. deployment.regions \in UNION {[1..k -> Region] : k \in 0..3}
    BY Zenon DEF BridgeInit
  <2>2. PICK k \in 0..3 : deployment.regions \in [1..k -> Region]
    BY Zenon, <2>1
  <2>3. k \in Nat
    OBVIOUS
  <2>4. QED
    BY Zenon, <2>2, <2>3
<1>2. reply.op = "none"
  BY Zenon DEF BridgeInit
<1>3. QED
  BY <1>1, <1>2 DEF BridgeInv, HighStakesGuarded

(* A transaction is delivered as the quorum gate and the regions allow. *)
LEMMA BridgeStep == ASSUME BridgeInv, [BridgeNext]_bridgeVars PROVE BridgeInv'
<1>1. CASE UNCHANGED bridgeVars
  BY Zenon, <1>1 DEF bridgeVars, BridgeInv, HighStakesGuarded, quorum_fail_open_allowed
<1>2. CASE check_tx
  <2>1. reply'.op = "check" /\ deployment' = deployment
    BY <1>2 DEF check_tx
  <2>2. QED
    BY <2>1 DEF BridgeInv, HighStakesGuarded
<1>3. CASE deliver_tx
  <2>1. PICK high \in BOOLEAN, anomaly \in BOOLEAN, checks \in Checks :
          reply' = [op |-> "deliver", high |-> high, anomaly |-> anomaly,
                    decision |-> validated(high, anomaly, checks),
                    code |-> delivered_code(high, validated(high, anomaly, checks))]
    BY Zenon, <1>3 DEF deliver_tx
  <2> DEFINE d == validated(high, anomaly, checks)
  <2>2. /\ reply'.high = high /\ reply'.decision = d /\ reply'.code = delivered_code(high, d)
    BY Zenon, <2>1
  <2>3. deployment' = deployment /\ d \in Checks
    BY Zenon, <1>3 DEF deliver_tx, validated, Checks
  <2>4. ASSUME reply'.code = 0, reply'.high
        PROVE  /\ d = "Allow" /\ bft_ready
               /\ (deployment.size >= 3 => quorum_fail_open_allowed)
    <3>1. high = TRUE /\ delivered_code(TRUE, d) = 0
      BY Zenon, <2>2, <2>4
    <3>2. bft_ready /\ plain_code(d) = 0
      <4>1. ASSUME ~bft_ready \/ Len(deployment.regions) < 2 PROVE FALSE
        <5>1. 0 = 10
          BY Zenon, <3>1, <4>1 DEF delivered_code
        <5>2. QED
          BY <5>1
      <4>2. QED
        BY Zenon, <3>1, <4>1 DEF delivered_code
    <3>3. d = "Allow"
      <4> HIDE DEF d
      <4>1. QED
        BY <2>3, <3>2 DEF plain_code, Checks
    <3>4. deployment.size >= 3 => effective_quorum > 1
      BY DEF effective_quorum
    <3>5. deployment.size >= 3 => quorum_fail_open_allowed
      BY <3>1, <3>3, <3>4 DEF validated
    <3>6. QED
      BY Zenon, <3>2, <3>3, <3>5
  <2>5. ASSUME bft_ready
        PROVE  /\ Len(deployment.regions) >= MinValidators
               /\ MinRegions >= 2 => \E i, j \in DOMAIN deployment.regions : deployment.regions[i] # deployment.regions[j]
    <3> DEFINE f == deployment.regions
    <3>1. PICK n \in Nat : f \in [1..n -> Region]
      BY Zenon DEF BridgeInv
    <3>2. DOMAIN f = 1..n
      BY Zenon, <3>1
    <3>3. Cardinality({f[i] : i \in 1..n}) >= MinRegions /\ Len(f) >= MinValidators
      BY Zenon, <2>5, <3>2 DEF bft_ready
    <3>4. IsFiniteSet({f[i] : i \in 1..n})
      <4>1. IsFiniteSet(1..n)
        BY FS_Interval
      <4>2. f \in Surjection(1..n, {f[i] : i \in 1..n})
        BY Zenon, <3>1 DEF Surjection
      <4>3. QED
        BY Zenon, <4>1, <4>2, FS_Surjection
    <3>5. Cardinality({f[i] : i \in 1..n}) \in Nat
      BY Zenon, <3>4, FS_CardinalityType
    <3>6. MinRegions >= 2 => Cardinality({f[i] : i \in 1..n}) >= 2
      BY <3>3, <3>5, BridgeAssumption
    <3> HIDE DEF f
    <3>7. MinRegions >= 2 => \E i, j \in 1..n : f[i] # f[j]
      BY Zenon, <3>1, <3>6, RegionsDiffer
    <3> USE DEF f
    <3>8. QED
      BY Zenon, <3>2, <3>3, <3>7
  <2>6. HighStakesGuarded'
    BY Zenon, <2>2, <2>3, <2>4, <2>5 DEF HighStakesGuarded, quorum_fail_open_allowed
  <2>7. QED
    BY Zenon, <2>3, <2>6 DEF BridgeInv
<1>4. QED
  BY Zenon, <1>1, <1>2, <1>3 DEF BridgeNext, admin_abci_check_tx, admin_abci_deliver_tx

(* The bridge accepts a high-stakes transaction only when validation with   *)
(* its quorum gate allowed it and the validators are spread over regions.   *)
THEOREM BridgeIsGuarded == BridgeSpec => []HighStakesGuarded
<1>1. BridgeInit => BridgeInv
  BY Zenon, InitialBridge
<1>2. BridgeInv /\ [BridgeNext]_bridgeVars => BridgeInv'
  BY Zenon, BridgeStep
<1>3. BridgeInv => HighStakesGuarded
  BY Zenon DEF BridgeInv
<1>4. QED
  BY <1>1, <1>2, <1>3, PTL DEF BridgeSpec

-----------------------------------------------------------------------------
(* Promotion of policies between environments. *)

\* A call has its fields, and a promotion that passed its checks carries a
\* version newer than the one the checks found in the tier.
CallOK(call) ==
  /\ call \in [step : {call.step}, kind : {call.kind}, version : {call.version},
               to : {call.to}, existing : {call.existing}, gen : {call.gen}]
  /\ call.step = "apply" => /\ call.version \in Int /\ call.existing \in Int
                            /\ call.version > call.existing

PolicyInv ==
  /\ envPolicies \in [1..3 -> Int]
  /\ storeCall = [o \in Operator |-> storeCall[o]]
  /\ \A o \in Operator : CallOK(storeCall[o])

(* An operator without a call is in no step that applies. *)
LEMMA RestingStore == CallOK(NoStore) /\ NoStore.step # "apply"
  BY Zenon DEF NoStore, CallOK

\* A call that begins, or goes on to another step than "apply".
LEMMA CallMoves ==
    ASSUME PolicyInv, NEW o \in Operator, NEW call, CallOK(call),
           storeCall' = [storeCall EXCEPT ![o] = call]
    PROVE  storeCall' = [p \in Operator |-> storeCall'[p]] /\ \A p \in Operator : CallOK(storeCall'[p])
<1>1. /\ storeCall' = [p \in Operator |-> storeCall'[p]]
      /\ \A p \in Operator : storeCall'[p] = IF p = o THEN call ELSE storeCall[p]
  BY Zenon DEF PolicyInv
<1>2. QED
  BY Zenon, <1>1 DEF PolicyInv

(* A call that moves on keeps what it read. *)
LEMMA CallAdvances ==
    ASSUME PolicyInv, NEW o \in Operator, NEW at, at # "apply", advance(o, at)
    PROVE  storeCall' = [p \in Operator |-> storeCall'[p]] /\ \A p \in Operator : CallOK(storeCall'[p])
<1> DEFINE call == IF at = "idle" THEN NoStore ELSE [storeCall[o] EXCEPT !.step = at]
<1>1. storeCall' = [storeCall EXCEPT ![o] = call]
  BY Zenon DEF advance
<1>2. CallOK(call)
  <2>1. CallOK(storeCall[o])
    BY Zenon DEF PolicyInv
  <2>2. QED
    BY Zenon, <2>1, RestingStore DEF CallOK
<1> HIDE DEF call
<1>3. QED
  BY Zenon, <1>1, <1>2, CallMoves

(* A call that begins is one the invariant allows. *)
LEMMA CallBegins ==
    ASSUME PolicyInv, NEW o \in Operator, NEW call, begin(o, call), CallOK(call)
    PROVE  storeCall' = [p \in Operator |-> storeCall'[p]] /\ \A p \in Operator : CallOK(storeCall'[p])
  BY Zenon, CallMoves DEF begin

(* A step of the store keeps the invariant. *)
LEMMA PolicyStep ==
    ASSUME PolicyInv, [PolicyNext]_policyVars
    PROVE  PolicyInv'
<1>1. ASSUME NEW o \in Operator, NEW v \in 1..MaxVersion, push_policy_version(o, v) PROVE PolicyInv'
  <2>1. v \in Int /\ envPolicies' = [envPolicies EXCEPT ![1] = v]
    BY <1>1 DEF push_policy_version
  <2>2. envPolicies' \in [1..3 -> Int]
    BY Zenon, <2>1 DEF PolicyInv
  <2> DEFINE call == [NoStore EXCEPT !.step = "write", !.kind = "push", !.version = v]
  <2>3. CallOK(call)
    BY Zenon DEF CallOK, NoStore
  <2>begun. begin(o, call)
    BY Zenon, <1>1 DEF push_policy_version
  <2> HIDE DEF call
  <2>4. QED
    BY Zenon, <2>2, <2>3, <2>begun, CallBegins DEF PolicyInv
<1>2. ASSUME NEW o \in Operator, NEW from \in 1..3, NEW to \in 1..3, check_promotion(o, from, to) PROVE PolicyInv'
  <2> DEFINE call == [NoStore EXCEPT !.step = "apply", !.kind = "promote", !.version = envPolicies[from],
                              !.to = to, !.existing = envPolicies[to]]
  <2>1. envPolicies[from] \in Int /\ envPolicies[to] \in Int
    BY Zenon DEF PolicyInv
  <2>2. envPolicies[from] > envPolicies[to]
    BY <1>2, <2>1 DEF check_promotion, not_newer
  <2>3. CallOK(call)
    BY Zenon, <2>1, <2>2 DEF CallOK, NoStore
  <2>begun. begin(o, call)
    BY Zenon, <1>2 DEF check_promotion
  <2> HIDE DEF call
  <2>4. QED
    BY Zenon, <1>2, <2>3, <2>begun, CallBegins DEF PolicyInv, check_promotion
<1>3. ASSUME NEW o \in Operator, promote(o) PROVE PolicyInv'
  <2>1. storeCall[o].version \in Int
    BY Zenon, <1>3 DEF promote, PolicyInv, CallOK
  <2>2. envPolicies' \in [1..3 -> Int]
    BY Zenon, <1>3, <2>1 DEF promote, PolicyInv
  <2> DEFINE at == IF storeCall[o].to = 3 THEN "write" ELSE "idle"
  <2>3. advance(o, at) /\ at # "apply"
    BY Zenon, <1>3 DEF promote
  <2> HIDE DEF at
  <2>4. QED
    BY Zenon, <2>2, <2>3, CallAdvances DEF PolicyInv
<1>4. ASSUME NEW o \in Operator, store(o) PROVE PolicyInv'
  BY Zenon, <1>4, CallAdvances DEF store, PolicyInv
<1>5. ASSUME NEW o \in Operator, bump(o) PROVE PolicyInv'
  <2> DEFINE at == IF storeCall[o].kind = "rollback" THEN "idle" ELSE "read"
  <2>1. advance(o, at) /\ at # "apply"
    BY Zenon, <1>5 DEF bump
  <2> HIDE DEF at
  <2>2. QED
    BY Zenon, <1>5, <2>1, CallAdvances DEF bump, PolicyInv
<1>6. ASSUME NEW o \in Operator, ReadGeneration(o) PROVE PolicyInv'
  <2> DEFINE call == [storeCall[o] EXCEPT !.step = "record", !.gen = recorded_generation(generation)]
  <2>1. CallOK(storeCall[o])
    BY Zenon DEF PolicyInv
  <2>2. CallOK(call)
    BY Zenon, <2>1 DEF CallOK
  <2>3. storeCall' = [storeCall EXCEPT ![o] = call]
    BY Zenon, <1>6 DEF ReadGeneration, PolicyInv
  <2> HIDE DEF call
  <2>4. QED
    BY Zenon, <1>6, <2>2, <2>3, CallMoves DEF ReadGeneration, PolicyInv
<1>7. ASSUME NEW o \in Operator, RecordSnapshot(o) PROVE PolicyInv'
  BY Zenon, <1>7, CallAdvances DEF RecordSnapshot, PolicyInv
<1>8. ASSUME NEW o \in Operator, NEW version, restoring(o, version) PROVE PolicyInv'
  <2> DEFINE call == [NoStore EXCEPT !.step = "write", !.kind = "rollback", !.version = version]
  <2>1. CallOK(call)
    BY Zenon DEF CallOK, NoStore
  <2>begun. begin(o, call)
    BY Zenon, <1>8 DEF restoring
  <2> HIDE DEF call
  <2>2. QED
    BY Zenon, <1>8, <2>1, <2>begun, CallBegins DEF restoring, PolicyInv
<1>9. ASSUME UNCHANGED policyVars PROVE PolicyInv'
  BY Zenon, <1>9 DEF policyVars, PolicyInv
<1>10. QED
  BY Zenon, <1>1, <1>2, <1>3, <1>4, <1>5, <1>6, <1>7, <1>8, <1>9 DEF PolicyNext, rollback, rollback_previous

(* A promotion whose target is still what it read puts a newer version      *)
(* there.                                                                   *)
LEMMA Promoted ==
    ASSUME PolicyInv, NEW o \in Operator, NEW e \in 2..3, promote(o), e = storeCall[o].to,
           storeCall[o].existing = envPolicies[e]
    PROVE  envPolicies'[e] > envPolicies[e]
<1>1. CallOK(storeCall[o]) /\ storeCall[o].step = "apply"
  BY Zenon DEF PolicyInv, promote
<1>2. envPolicies'[e] = storeCall[o].version
  BY DEF PolicyInv, promote
<1>3. QED
  BY Zenon, <1>1, <1>2 DEF CallOK

(* At the start no environment has a policy. *)
LEMMA InitialPolicies == ASSUME PolicyInit PROVE PolicyInv
<1>1. PICK v \in {0, 1} : envPolicies = <<v, NotLoaded, NotLoaded>>
  BY Zenon DEF PolicyInit
<1>2. envPolicies \in [1..3 -> Int]
  BY <1>1 DEF NotLoaded
<1>3. storeCall = [o \in Operator |-> NoStore]
  BY Zenon DEF PolicyInit
<1>4. QED
  BY Zenon, <1>2, <1>3, RestingStore DEF PolicyInv

(* No step of the store puts back an older version. *)
LEMMA StorePromotes == ASSUME PolicyInv, [PolicyNext]_policyVars PROVE NoDowngrade
BY Zenon, Promoted DEF NoDowngrade

(* However pushes, promotions and rollbacks of several operators overlap, a *)
(* promotion that writes over the version it compared with never lowers it. *)
THEOREM PromotionsGoUp == PolicySpec => [][NoDowngrade]_policyVars
<1>1. PolicyInit => PolicyInv
  BY Zenon, InitialPolicies
<1>2. PolicyInv /\ [PolicyNext]_policyVars => PolicyInv' /\ NoDowngrade
  BY Zenon, PolicyStep, StorePromotes
<1>3. QED
  BY <1>1, <1>2, PTL DEF PolicySpec

\* What staging holds has been staged, and so has what is in production or on
\* its way there; a promotion goes to staging or to production.
StagedInv ==
  /\ \A e \in 2..3 : envPolicies[e] # NotLoaded => envPolicies[e] \in everStaged
  /\ \A o \in Operator : storeCall[o].step = "apply" =>
       storeCall[o].to \in 2..3 /\ (storeCall[o].to = 3 => storeCall[o].version \in everStaged)

(* Calls that are not promotions waiting to be applied. *)
LEMMA StagedByOthers ==
    ASSUME PolicyInv, StagedInv, NEW o \in Operator, NEW call, storeCall' = [storeCall EXCEPT ![o] = call],
           call.step # "apply", everStaged \subseteq everStaged',
           \A e \in 2..3 : envPolicies'[e] # NotLoaded => envPolicies'[e] \in everStaged'
    PROVE  StagedInv'
<1>1. storeCall'[o] = call /\ \A p \in Operator : p # o => storeCall'[p] = storeCall[p]
  BY Zenon DEF PolicyInv
<1>2. ASSUME NEW p \in Operator, storeCall'[p].step = "apply"
      PROVE  storeCall'[p].to \in 2..3 /\ (storeCall'[p].to = 3 => storeCall'[p].version \in everStaged')
  BY Zenon, <1>1, <1>2 DEF StagedInv
<1>3. QED
  BY Zenon, <1>2 DEF StagedInv

(* A call that moves on, but not to its write, is in no step that applies.  *)
LEMMA AdvancesTo ==
    ASSUME PolicyInv, NEW o \in Operator, NEW at, at # "apply", advance(o, at)
    PROVE  \E call : call.step # "apply" /\ storeCall' = [storeCall EXCEPT ![o] = call]
<1> DEFINE call == IF at = "idle" THEN NoStore ELSE [storeCall[o] EXCEPT !.step = at]
<1>1. storeCall' = [storeCall EXCEPT ![o] = call]
  BY Zenon DEF advance
<1>2. call.step # "apply"
  <2>1. CallOK(storeCall[o])
    BY Zenon DEF PolicyInv
  <2>2. QED
    BY Zenon, <2>1, RestingStore DEF CallOK
<1> HIDE DEF call
<1>3. QED
  BY Zenon, <1>1, <1>2

(* A step of the store keeps what production rests on. *)
LEMMA StagedKept ==
    ASSUME PolicyInv, StagedInv, [PolicyNext]_policyVars
    PROVE  StagedInv'
<1>1. ASSUME NEW o \in Operator, NEW v \in 1..MaxVersion, push_policy_version(o, v) PROVE StagedInv'
  <2> DEFINE call == [NoStore EXCEPT !.step = "write", !.kind = "push", !.version = v]
  <2>1. storeCall' = [storeCall EXCEPT ![o] = call] /\ everStaged' = everStaged /\ envPolicies' = [envPolicies EXCEPT ![1] = v]
    BY Zenon, <1>1 DEF push_policy_version, begin
  <2>2. call.step # "apply"
    BY Zenon DEF NoStore
  <2> HIDE DEF call
  <2>3. \A e \in 2..3 : envPolicies'[e] = envPolicies[e]
    BY <2>1 DEF PolicyInv
  <2>4. \A e \in 2..3 : envPolicies'[e] # NotLoaded => envPolicies'[e] \in everStaged'
    BY <2>1, <2>3 DEF StagedInv
  <2>5. everStaged \subseteq everStaged'
    BY Zenon, <2>1
  <2>6. QED
    BY Zenon, <2>1, <2>2, <2>4, <2>5, StagedByOthers
<1>2. ASSUME NEW o \in Operator, NEW from \in 1..3, NEW to \in 1..3, check_promotion(o, from, to) PROVE StagedInv'
  <2> DEFINE call == [NoStore EXCEPT !.step = "apply", !.kind = "promote", !.version = envPolicies[from],
                              !.to = to, !.existing = envPolicies[to]]
  <2>1. storeCall' = [storeCall EXCEPT ![o] = call] /\ everStaged' = everStaged /\ envPolicies' = envPolicies
    BY Zenon, <1>2 DEF check_promotion, begin
  <2>2. call.to = to /\ call.version = envPolicies[from]
    BY Zenon DEF NoStore
  <2> HIDE DEF call
  <2>3. to \in 2..3 /\ (to = 3 => from = 2) /\ envPolicies[from] # NotLoaded
    BY <1>2 DEF check_promotion, next_tier, NotLoaded
  <2>4. to = 3 => envPolicies[from] \in everStaged
    BY <2>3 DEF StagedInv
  <2>5. storeCall'[o] = call /\ \A p \in Operator : p # o => storeCall'[p] = storeCall[p]
    BY Zenon, <2>1 DEF PolicyInv
  <2>6. ASSUME NEW p \in Operator, storeCall'[p].step = "apply"
        PROVE  storeCall'[p].to \in 2..3 /\ (storeCall'[p].to = 3 => storeCall'[p].version \in everStaged)
    <3>1. CASE p = o
      BY Zenon, <2>2, <2>3, <2>4, <2>5, <3>1
    <3>2. CASE p # o
      BY Zenon, <2>5, <2>6, <3>2 DEF StagedInv
    <3>3. QED
      BY Zenon, <3>1, <3>2
  <2>7. QED
    BY Zenon, <2>1, <2>6 DEF StagedInv
<1>3. ASSUME NEW o \in Operator, promote(o) PROVE StagedInv'
  <2> DEFINE at == IF storeCall[o].to = 3 THEN "write" ELSE "idle"
             t == storeCall[o].to
             v == storeCall[o].version
  <2>1. /\ advance(o, at) /\ at # "apply" /\ envPolicies' = [envPolicies EXCEPT ![t] = v]
        /\ everStaged' = IF t = 2 THEN everStaged \cup {v} ELSE everStaged
        /\ t \in 2..3 /\ (t = 3 => v \in everStaged)
    BY Zenon, <1>3 DEF promote, StagedInv
  <2> HIDE DEF at, t, v
  <2>2. \A e \in 2..3 : envPolicies'[e] # NotLoaded => envPolicies'[e] \in everStaged'
    BY <2>1 DEF PolicyInv, StagedInv
  <2>3. everStaged \subseteq everStaged'
    BY Zenon, <2>1
  <2>4. QED
    BY Zenon, <2>1, <2>2, <2>3, AdvancesTo, StagedByOthers
<1>same. ASSUME NEW o \in Operator, NEW call, storeCall' = [storeCall EXCEPT ![o] = call], call.step # "apply",
                envPolicies' = envPolicies, everStaged' = everStaged
         PROVE  StagedInv'
  BY Zenon, <1>same, StagedByOthers DEF StagedInv
<1>4. ASSUME NEW o \in Operator, store(o) \/ bump(o) \/ RecordSnapshot(o) PROVE StagedInv'
  <2>1. \E at : at # "apply" /\ advance(o, at)
    BY Zenon, <1>4 DEF store, bump, RecordSnapshot
  <2>2. envPolicies' = envPolicies /\ everStaged' = everStaged
    BY Zenon, <1>4 DEF store, bump, RecordSnapshot
  <2>3. QED
    BY Zenon, <1>same, <2>1, <2>2, AdvancesTo
<1>5. ASSUME NEW o \in Operator, ReadGeneration(o) PROVE StagedInv'
  <2> DEFINE call == [storeCall[o] EXCEPT !.step = "record", !.gen = recorded_generation(generation)]
  <2>1. CallOK(storeCall[o])
    BY Zenon DEF PolicyInv
  <2>2. call.step # "apply"
    BY Zenon, <2>1 DEF CallOK
  <2>3. storeCall' = [storeCall EXCEPT ![o] = call] /\ envPolicies' = envPolicies /\ everStaged' = everStaged
    BY Zenon, <1>5 DEF ReadGeneration, PolicyInv
  <2> HIDE DEF call
  <2>4. QED
    BY Zenon, <1>same, <2>2, <2>3
<1>6. ASSUME NEW o \in Operator, NEW version, restoring(o, version) PROVE StagedInv'
  <2> DEFINE call == [NoStore EXCEPT !.step = "write", !.kind = "rollback", !.version = version]
  <2>1. call.step # "apply"
    BY Zenon DEF NoStore
  <2>2. storeCall' = [storeCall EXCEPT ![o] = call] /\ envPolicies' = envPolicies /\ everStaged' = everStaged
    BY Zenon, <1>6 DEF restoring, begin
  <2> HIDE DEF call
  <2>3. QED
    BY Zenon, <1>same, <2>1, <2>2
<1>7. ASSUME UNCHANGED policyVars PROVE StagedInv'
  BY Zenon, <1>7 DEF policyVars, StagedInv
<1>8. QED
  BY Zenon, <1>1, <1>2, <1>3, <1>4, <1>5, <1>6, <1>7 DEF PolicyNext, rollback, rollback_previous

(* A version runs in production only after it has been in staging, for any *)
(* operators, however their pushes, promotions and rollbacks interleave.   *)
THEOREM ProdIsStaged == PolicySpec => []ProdWasStaged
<1>1. PolicyInit => PolicyInv /\ StagedInv
  <2>1. ASSUME PolicyInit PROVE StagedInv
    <3>1. PICK v \in {0, 1} : envPolicies = <<v, NotLoaded, NotLoaded>>
      BY Zenon, <2>1 DEF PolicyInit
    <3>2. \A e \in 2..3 : envPolicies[e] = NotLoaded
      BY <3>1
    <3>3. \A o \in Operator : storeCall[o].step # "apply"
      BY Zenon, <2>1, RestingStore DEF PolicyInit
    <3>4. QED
      BY Zenon, <3>2, <3>3 DEF StagedInv
  <2>2. QED
    BY Zenon, <2>1, InitialPolicies
<1>2. PolicyInv /\ StagedInv /\ [PolicyNext]_policyVars => PolicyInv' /\ StagedInv'
  BY Zenon, PolicyStep, StagedKept
<1>3. StagedInv => ProdWasStaged
  <2>1. 3 \in 2..3
    OBVIOUS
  <2>2. QED
    BY Zenon, <2>1 DEF StagedInv, ProdWasStaged
<1>4. QED
  BY <1>1, <1>2, <1>3, PTL DEF PolicySpec

StoredPolicy == [version : Int, generation : Nat]

StoreTyped ==
  /\ livePolicy \in Int /\ generation \in Nat
  /\ policyHistory \in Seq(StoredPolicy) /\ liveAt \in Seq(Int) /\ Len(liveAt) = generation
  /\ \A o \in Operator : storeCall[o].version \in Int /\ storeCall[o].gen \in Nat

\* The policy was live at the generation.
WasLive(v, g) == g \in DOMAIN liveAt /\ liveAt[g] = v

\* What a call that stores has done so far: the policy it counts, reads or
\* records is its own.
OwnStore(call) ==
  /\ call.step = "bump" => livePolicy = call.version
  /\ call.step = "read" => WasLive(call.version, generation)
  /\ call.step = "record" => WasLive(call.version, call.gen)

HistoryTrue ==
  \A i \in DOMAIN policyHistory : policyHistory[i].generation > 0 => WasLive(policyHistory[i].version, policyHistory[i].generation)

\* As long as stores do not overlap there is one at a time.
InTurn ==
  /\ \A o, p \in Operator : storing(o) /\ storing(p) => o = p
  /\ \A o \in Operator : OwnStore(storeCall[o])
  /\ HistoryTrue

TruthInv == StoreTyped /\ (~overlapped => InTurn)

(* Appending and trimming only keep snapshots and add the new one. *)
LEMMA HistoryTrimmed ==
    ASSUME NEW h \in Seq(StoredPolicy), NEW s \in StoredPolicy
    PROVE  /\ trimmed(Append(h, s)) \in Seq(StoredPolicy)
           /\ \A i \in DOMAIN trimmed(Append(h, s)) :
                trimmed(Append(h, s))[i] = s \/ \E j \in DOMAIN h : trimmed(Append(h, s))[i] = h[j]
<1> DEFINE a == Append(h, s)
           m == Len(a) - HistoryLimit + 1
           n == Len(a)
           t == SubSeq(a, m, n)
<1>1. /\ a \in Seq(StoredPolicy) /\ Len(a) = Len(h) + 1 /\ Len(h) \in Nat /\ DOMAIN h = 1..Len(h) /\ DOMAIN a = 1..Len(a)
      /\ \A i \in 1..Len(a) : a[i] = s \/ \E j \in 1..Len(h) : a[i] = h[j]
  OBVIOUS
<1>2. trimmed(a) = IF n > HistoryLimit THEN t ELSE a
  BY Zenon DEF trimmed
<1> HIDE DEF a
<1>3. HistoryLimit \in Nat /\ HistoryLimit >= 1 /\ n \in Nat
  BY <1>1, HistoryAssumption
<1>4. CASE n > HistoryLimit
  <2>1. m \in Int /\ n \in Int /\ m >= 1 /\ m <= n /\ \A i \in m..n : i \in 1..Len(a)
    BY <1>1, <1>3, <1>4
  <2>2. \A i \in m..n : a[i] \in StoredPolicy
    BY <1>1, <2>1
  <2>3. t \in Seq(StoredPolicy) /\ Len(t) = n - m + 1 /\ \A i \in 1..(n - m + 1) : t[i] = a[m + i - 1]
    <3> HIDE DEF m, n, t
    <3>1. t = SubSeq(a, m, n)
      BY Zenon DEF t
    <3>2. /\ SubSeq(a, m, n) \in Seq(StoredPolicy) /\ Len(SubSeq(a, m, n)) = IF m <= n THEN n - m + 1 ELSE 0
          /\ \A i \in 1..(n - m + 1) : SubSeq(a, m, n)[i] = a[m + i - 1]
      BY <2>1, <2>2, SubSeqProperties
    <3>3. QED
      BY Zenon, <2>1, <3>1, <3>2
  <2> HIDE DEF t
  <2>4. \A i \in DOMAIN t : i \in 1..(n - m + 1) /\ m + i - 1 \in 1..Len(a)
    <3>1. DOMAIN t = 1..(n - m + 1)
      BY <2>3
    <3>2. QED
      BY <1>1, <1>3, <2>1, <3>1
  <2>5. ASSUME NEW i \in DOMAIN t PROVE t[i] = s \/ \E j \in DOMAIN h : t[i] = h[j]
    <3>1. t[i] = a[m + i - 1] /\ m + i - 1 \in DOMAIN a
      BY Zenon, <1>1, <2>3, <2>4
    <3>2. QED
      BY Zenon, <1>1, <3>1
  <2>6. trimmed(a) = t
    BY Zenon, <1>2, <1>4
  <2>7. QED
    BY Zenon, <2>3, <2>5, <2>6 DEF a
<1>5. CASE ~(n > HistoryLimit)
  <2>1. trimmed(a) = a
    BY Zenon, <1>2, <1>5
  <2>2. QED
    BY Zenon, <1>1, <2>1 DEF a
<1>6. QED
  BY Zenon, <1>4, <1>5

(* The call after a step. *)
LEMMA Advanced ==
    ASSUME PolicyInv, NEW o \in Operator, NEW at, advance(o, at)
    PROVE  /\ storeCall'[o].step = at
           /\ storeCall'[o] = NoStore \/ (storeCall'[o].version = storeCall[o].version /\ storeCall'[o].gen = storeCall[o].gen)
           /\ at # "idle" => storeCall'[o].version = storeCall[o].version /\ storeCall'[o].gen = storeCall[o].gen
           /\ \A p \in Operator : p # o => storeCall'[p] = storeCall[p]
<1> DEFINE call == [storeCall[o] EXCEPT !.step = at]
<1>1. storeCall' = [storeCall EXCEPT ![o] = IF at = "idle" THEN NoStore ELSE call]
  BY Zenon DEF advance
<1>2. call.step = at /\ call.version = storeCall[o].version /\ call.gen = storeCall[o].gen
  BY Zenon DEF PolicyInv, CallOK
<1>3. NoStore.step = "idle"
  BY Zenon DEF NoStore
<1> HIDE DEF call
<1>4. storeCall'[o] = (IF at = "idle" THEN NoStore ELSE call) /\ \A p \in Operator : p # o => storeCall'[p] = storeCall[p]
  BY Zenon, <1>1 DEF PolicyInv
<1>5. QED
  BY Zenon, <1>2, <1>3, <1>4

(* A call that begins leaves the calls of other operators alone. *)
LEMMA Begun ==
    ASSUME PolicyInv, NEW o \in Operator, NEW call, begin(o, call)
    PROVE  /\ storeCall'[o] = call /\ storeCall[o] = NoStore
           /\ \A p \in Operator : p # o => storeCall'[p] = storeCall[p]
  BY Zenon DEF PolicyInv, begin

(* Nobody else stores while one call does. *)
LEMMA Alone ==
    ASSUME InTurn, NEW o \in Operator, storing(o) \/ \A p \in Operator : ~storing(p),
           \A p \in Operator : p # o => storeCall'[p] = storeCall[p],
           OwnStore(storeCall[o])', HistoryTrue'
    PROVE  InTurn'
<1>1. ASSUME NEW p \in Operator, p # o PROVE ~storing(p) /\ ~storing(p)' /\ storeCall'[p] = storeCall[p]
  BY Zenon, <1>1 DEF InTurn, storing
<1>2. ASSUME NEW p \in Operator, p # o PROVE OwnStore(storeCall[p])'
  <2>1. storeCall'[p].step \notin {"bump", "read", "record"}
    BY <1>1, <1>2 DEF storing
  <2>2. QED
    BY Zenon, <2>1 DEF OwnStore
<1>3. \A p, q \in Operator : storing(p)' /\ storing(q)' => p = q
  BY Zenon, <1>1
<1>4. QED
  BY Zenon, <1>2, <1>3 DEF InTurn

(* A call that does not store leaves the others in turn. *)
LEMMA Aside ==
    ASSUME InTurn, NEW o \in Operator, ~storing(o)',
           \A p \in Operator : p # o => storeCall'[p] = storeCall[p],
           UNCHANGED <<livePolicy, generation, liveAt, policyHistory>>
    PROVE  InTurn'
<1>1. \A p \in Operator : storing(p)' => p # o /\ storing(p)
  BY Zenon DEF storing
<1>2. ASSUME NEW p \in Operator PROVE OwnStore(storeCall[p])'
  <2>1. CASE p = o
    <3>1. storeCall'[o].step \notin {"bump", "read", "record"}
      BY DEF storing
    <3>2. QED
      BY Zenon, <2>1, <3>1 DEF OwnStore
  <2>2. CASE p # o
    BY Zenon, <2>2 DEF InTurn, OwnStore, WasLive
  <2>3. QED
    BY Zenon, <2>1, <2>2
<1>3. HistoryTrue'
  BY Zenon DEF InTurn, HistoryTrue, WasLive
<1>4. QED
  BY Zenon, <1>1, <1>2, <1>3 DEF InTurn

(* A step of the store keeps the history true. *)
LEMMA TruthKept ==
    ASSUME PolicyInv, TruthInv, [PolicyNext]_policyVars
    PROVE  TruthInv'
<1>typed. /\ livePolicy \in Int /\ generation \in Nat /\ policyHistory \in Seq(StoredPolicy)
          /\ liveAt \in Seq(Int) /\ Len(liveAt) = generation
          /\ \A o \in Operator : storeCall[o].version \in Int /\ storeCall[o].gen \in Nat
  BY Zenon DEF TruthInv, StoreTyped
<1>rest. NoStore.version \in Int /\ NoStore.gen \in Nat /\ NoStore.step = "idle"
  BY DEF NoStore, NotLoaded
<1>begins. ASSUME NEW o \in Operator, NEW v \in Int, NEW kind,
                  begin(o, [NoStore EXCEPT !.step = "write", !.kind = kind, !.version = v]),
                  UNCHANGED <<livePolicy, generation, policyHistory, liveAt>>
           PROVE  TruthInv'
  <2> DEFINE call == [NoStore EXCEPT !.step = "write", !.kind = kind, !.version = v]
  <2>1. call.step = "write" /\ call.version = v /\ call.gen \in Nat
    BY DEF NoStore
  <2>2. begin(o, call)
    BY Zenon, <1>begins
  <2> HIDE DEF call
  <2>3. /\ storeCall'[o] = call /\ \A p \in Operator : p # o => storeCall'[p] = storeCall[p]
        /\ overlapped' = (overlapped \/ \E p \in Operator : storing(p))
    BY Zenon, <2>1, <2>2, Begun DEF begin
  <2>4. StoreTyped'
    BY Zenon, <1>typed, <1>begins, <2>1, <2>3 DEF StoreTyped
  <2>5. ASSUME ~overlapped' PROVE InTurn'
    <3>1. InTurn /\ \A p \in Operator : ~storing(p)
      BY Zenon, <2>3, <2>5 DEF TruthInv
    <3>2. OwnStore(storeCall[o])'
      BY <2>1, <2>3 DEF OwnStore
    <3>3. HistoryTrue'
      BY Zenon, <1>begins, <3>1 DEF InTurn, HistoryTrue, WasLive
    <3>4. QED
      BY Zenon, <2>3, <3>1, <3>2, <3>3, Alone
  <2>6. QED
    BY Zenon, <2>4, <2>5 DEF TruthInv
<1>1. ASSUME NEW o \in Operator, NEW v \in 1..MaxVersion, push_policy_version(o, v) PROVE TruthInv'
  <2>1. v \in Int
    OBVIOUS
  <2>2. QED
    BY Zenon, <1>1, <1>begins, <2>1 DEF push_policy_version
<1>2. ASSUME NEW o \in Operator, NEW from \in 1..3, NEW to \in 1..3, check_promotion(o, from, to) PROVE TruthInv'
  <2> DEFINE call == [NoStore EXCEPT !.step = "apply", !.kind = "promote", !.version = envPolicies[from],
                              !.to = to, !.existing = envPolicies[to]]
  <2>1. begin(o, call) /\ UNCHANGED <<livePolicy, generation, liveAt, policyHistory>>
    BY Zenon, <1>2 DEF check_promotion
  <2>2. call.step = "apply" /\ call.version = envPolicies[from] /\ call.gen = 0
    BY Zenon DEF NoStore
  <2> HIDE DEF call
  <2>3. envPolicies[from] \in Int /\ 0 \in Nat
    BY DEF PolicyInv
  <2>4. storeCall'[o] = call /\ \A p \in Operator : p # o => storeCall'[p] = storeCall[p]
    BY Zenon, <2>1, Begun
  <2>5. StoreTyped'
    BY Zenon, <1>typed, <2>1, <2>2, <2>3, <2>4 DEF StoreTyped
  <2>6. ~storing(o)' /\ (overlapped' <=> overlapped)
    BY <2>1, <2>2, <2>4 DEF storing, begin
  <2>7. QED
    BY Zenon, <2>1, <2>4, <2>5, <2>6, Aside DEF TruthInv
<1>3. ASSUME NEW o \in Operator, promote(o) PROVE TruthInv'
  <2> DEFINE at == IF storeCall[o].to = 3 THEN "write" ELSE "idle"
  <2>1. /\ advance(o, at) /\ UNCHANGED <<livePolicy, generation, liveAt, policyHistory>> /\ storeCall[o].step = "apply"
        /\ overlapped' = (overlapped \/ (storeCall[o].to = 3 /\ \E p \in Operator : storing(p)))
    BY Zenon, <1>3 DEF promote
  <2>2. /\ storeCall'[o].step = at /\ \A p \in Operator : p # o => storeCall'[p] = storeCall[p]
        /\ storeCall'[o] = NoStore \/ (storeCall'[o].version = storeCall[o].version /\ storeCall'[o].gen = storeCall[o].gen)
    BY Zenon, <2>1, Advanced
  <2>3. StoreTyped'
    BY Zenon, <1>typed, <1>rest, <2>1, <2>2 DEF StoreTyped
  <2>4. ASSUME ~overlapped' PROVE InTurn'
    <3>1. InTurn
      BY Zenon, <2>1, <2>4 DEF TruthInv
    <3>2. CASE storeCall[o].to = 3
      <4>1. \A p \in Operator : ~storing(p)
        BY Zenon, <2>1, <2>4, <3>2
      <4>2. OwnStore(storeCall[o])'
        BY <2>2, <3>2 DEF OwnStore
      <4>3. HistoryTrue'
        BY Zenon, <2>1, <3>1 DEF InTurn, HistoryTrue, WasLive
      <4>4. QED
        BY Zenon, <2>2, <3>1, <4>1, <4>2, <4>3, Alone
    <3>3. CASE storeCall[o].to # 3
      <4>1. ~storing(o)'
        BY <2>2, <3>3 DEF storing
      <4>2. QED
        BY Zenon, <2>1, <2>2, <3>1, <4>1, Aside
    <3>4. QED
      BY Zenon, <3>2, <3>3
  <2>5. QED
    BY Zenon, <2>3, <2>4 DEF TruthInv
<1>4. ASSUME NEW o \in Operator, store(o) PROVE TruthInv'
  <2>1. /\ advance(o, "bump") /\ UNCHANGED <<generation, liveAt, policyHistory, overlapped>>
        /\ storeCall[o].step = "write" /\ livePolicy' = storeCall[o].version
    BY Zenon, <1>4 DEF store
  <2>2. /\ storeCall'[o].step = "bump" /\ \A p \in Operator : p # o => storeCall'[p] = storeCall[p]
        /\ storeCall'[o].version = storeCall[o].version /\ storeCall'[o].gen = storeCall[o].gen
    BY Zenon, <2>1, Advanced
  <2>3. StoreTyped'
    BY Zenon, <1>typed, <2>1, <2>2 DEF StoreTyped
  <2>4. ASSUME InTurn PROVE InTurn'
    <3>1. storing(o)
      BY Zenon, <2>1 DEF storing
    <3>2. OwnStore(storeCall[o])'
      BY <2>1, <2>2 DEF OwnStore
    <3>3. HistoryTrue'
      BY Zenon, <2>1, <2>4 DEF InTurn, HistoryTrue, WasLive
    <3>4. QED
      BY Zenon, <2>2, <2>4, <3>1, <3>2, <3>3, Alone
  <2>5. QED
    BY Zenon, <2>1, <2>3, <2>4 DEF TruthInv
<1>5. ASSUME NEW o \in Operator, bump(o) PROVE TruthInv'
  <2> DEFINE at == IF storeCall[o].kind = "rollback" THEN "idle" ELSE "read"
  <2>1. /\ advance(o, at) /\ UNCHANGED <<livePolicy, policyHistory, overlapped>>
        /\ storeCall[o].step = "bump" /\ generation' = generation + 1 /\ liveAt' = Append(liveAt, livePolicy)
    BY Zenon, <1>5 DEF bump
  <2>at. at \in {"idle", "read"}
    BY Zenon
  <2> HIDE DEF at
  <2>2. /\ storeCall'[o].step = at /\ \A p \in Operator : p # o => storeCall'[p] = storeCall[p]
        /\ storeCall'[o] = NoStore \/ (storeCall'[o].version = storeCall[o].version /\ storeCall'[o].gen = storeCall[o].gen)
        /\ at # "idle" => storeCall'[o].version = storeCall[o].version
    BY Zenon, <2>1, Advanced
  <2>3. liveAt' \in Seq(Int) /\ Len(liveAt') = generation' /\ generation' \in Nat
    BY <1>typed, <2>1
  <2>4. StoreTyped'
    <3>1. ASSUME NEW p \in Operator PROVE storeCall'[p].version \in Int /\ storeCall'[p].gen \in Nat
      <4>1. CASE p = o
        BY Zenon, <1>typed, <1>rest, <2>2, <4>1
      <4>2. CASE p # o
        BY Zenon, <1>typed, <2>2, <4>2
      <4>3. QED
        BY Zenon, <4>1, <4>2
    <3>2. QED
      BY Zenon, <1>typed, <2>1, <2>3, <3>1 DEF StoreTyped
  <2>5. ASSUME InTurn PROVE InTurn'
    <3>1. storing(o)
      BY Zenon, <2>1 DEF storing
    <3>2. livePolicy = storeCall[o].version
      BY Zenon, <2>1, <2>5 DEF InTurn, OwnStore
    <3>3. generation' \in DOMAIN liveAt' /\ liveAt'[generation'] = livePolicy
      BY <1>typed, <2>1
    <3>4. OwnStore(storeCall[o])'
      BY <2>at, <2>2, <3>2, <3>3 DEF OwnStore, WasLive
    <3>5. HistoryTrue'
      <4>1. ASSUME NEW i \in DOMAIN policyHistory, policyHistory[i].generation > 0
            PROVE  WasLive(policyHistory[i].version, policyHistory[i].generation)'
        <5> DEFINE v == policyHistory[i].version
                   g == policyHistory[i].generation
        <5>1. g \in DOMAIN liveAt /\ liveAt[g] = v
          BY Zenon, <2>5, <4>1 DEF InTurn, HistoryTrue, WasLive
        <5> HIDE DEF v, g
        <5>2. g \in DOMAIN liveAt' /\ liveAt'[g] = v
          BY <1>typed, <2>1, <5>1
        <5>3. QED
          BY Zenon, <2>1, <5>2 DEF WasLive, v, g
      <4>2. QED
        BY Zenon, <2>1, <4>1 DEF HistoryTrue
    <3>6. QED
      BY Zenon, <2>2, <2>5, <3>1, <3>4, <3>5, Alone
  <2>6. QED
    BY Zenon, <2>1, <2>4, <2>5 DEF TruthInv
<1>6. ASSUME NEW o \in Operator, ReadGeneration(o) PROVE TruthInv'
  <2> DEFINE x == [storeCall[o] EXCEPT !.step = "record"]
             call == [x EXCEPT !.gen = generation]
  <2>1. /\ storeCall' = [storeCall EXCEPT ![o] = call] /\ storeCall[o].step = "read"
        /\ UNCHANGED <<livePolicy, generation, liveAt, policyHistory, overlapped>>
    BY Zenon, <1>6 DEF ReadGeneration, recorded_generation, PolicyInv
  <2>2. /\ x \in [step : {"record"}, kind : {x.kind}, version : {storeCall[o].version},
                  to : {x.to}, existing : {x.existing}, gen : {x.gen}]
    BY Zenon DEF PolicyInv, CallOK
  <2> HIDE DEF x
  <2>3. call.step = "record" /\ call.version = storeCall[o].version /\ call.gen = generation
    BY Zenon, <2>2
  <2> HIDE DEF call
  <2>4. storeCall'[o] = call /\ \A p \in Operator : p # o => storeCall'[p] = storeCall[p]
    BY Zenon, <2>1 DEF PolicyInv
  <2>5. StoreTyped'
    BY Zenon, <1>typed, <2>1, <2>3, <2>4 DEF StoreTyped
  <2>6. ASSUME InTurn PROVE InTurn'
    <3>1. storing(o)
      BY Zenon, <2>1 DEF storing
    <3>2. WasLive(storeCall[o].version, generation)
      BY Zenon, <2>1, <2>6 DEF InTurn, OwnStore
    <3>3. OwnStore(storeCall[o])'
      BY <2>1, <2>3, <2>4, <3>2 DEF OwnStore, WasLive
    <3>4. HistoryTrue'
      BY Zenon, <2>1, <2>6 DEF InTurn, HistoryTrue, WasLive
    <3>5. QED
      BY Zenon, <2>4, <2>6, <3>1, <3>3, <3>4, Alone
  <2>7. QED
    BY Zenon, <2>1, <2>5, <2>6 DEF TruthInv
<1>7. ASSUME NEW o \in Operator, RecordSnapshot(o) PROVE TruthInv'
  <2> DEFINE s == [version |-> storeCall[o].version, generation |-> storeCall[o].gen]
             h == trimmed(Append(policyHistory, s))
  <2>1. /\ policyHistory' = h /\ storeCall[o].step = "record" /\ advance(o, "idle")
        /\ UNCHANGED <<livePolicy, generation, liveAt, overlapped>>
    BY Zenon, <1>7 DEF RecordSnapshot
  <2>2. s \in StoredPolicy /\ s.version = storeCall[o].version /\ s.generation = storeCall[o].gen
    BY Zenon, <1>typed DEF StoredPolicy
  <2> HIDE DEF s
  <2>3. h \in Seq(StoredPolicy) /\ \A i \in DOMAIN h : h[i] = s \/ \E j \in DOMAIN policyHistory : h[i] = policyHistory[j]
    BY Zenon, <1>typed, <2>2, HistoryTrimmed
  <2> HIDE DEF h
  <2>4. /\ storeCall'[o].step = "idle" /\ \A p \in Operator : p # o => storeCall'[p] = storeCall[p]
        /\ storeCall'[o] = NoStore \/ (storeCall'[o].version = storeCall[o].version /\ storeCall'[o].gen = storeCall[o].gen)
    BY Zenon, <2>1, Advanced
  <2>5. StoreTyped'
    BY Zenon, <1>typed, <1>rest, <2>1, <2>3, <2>4 DEF StoreTyped
  <2>6. ASSUME InTurn PROVE InTurn'
    <3>1. storing(o)
      BY Zenon, <2>1 DEF storing
    <3>2. WasLive(s.version, s.generation)
      BY Zenon, <2>1, <2>2, <2>6 DEF InTurn, OwnStore
    <3>3. OwnStore(storeCall[o])'
      BY <2>4 DEF OwnStore
    <3>4. ASSUME NEW i \in DOMAIN h, h[i].generation > 0 PROVE WasLive(h[i].version, h[i].generation)
      BY Zenon, <2>3, <2>6, <3>2, <3>4 DEF InTurn, HistoryTrue
    <3>5. HistoryTrue'
      BY Zenon, <2>1, <3>4 DEF HistoryTrue, WasLive
    <3>6. QED
      BY Zenon, <2>4, <2>6, <3>1, <3>3, <3>5, Alone
  <2>7. QED
    BY Zenon, <2>1, <2>5, <2>6 DEF TruthInv
<1>8. ASSUME NEW o \in Operator, NEW i \in DOMAIN policyHistory, restoring(o, policyHistory[i].version) PROVE TruthInv'
  <2>1. policyHistory[i] \in StoredPolicy
    BY <1>typed
  <2>2. policyHistory[i].version \in Int
    BY Zenon, <2>1 DEF StoredPolicy
  <2>3. QED
    BY Zenon, <1>8, <1>begins, <2>2 DEF restoring
<1>9. ASSUME UNCHANGED policyVars PROVE TruthInv'
  BY Zenon, <1>9 DEF policyVars, TruthInv, StoreTyped, InTurn, OwnStore, HistoryTrue, WasLive, storing
<1>10. QED
  BY Zenon, <1>1, <1>2, <1>3, <1>4, <1>5, <1>6, <1>7, <1>8, <1>9 DEF PolicyNext, rollback, rollback_previous

(* As long as no two stores overlap, a snapshot holds the policy that was  *)
(* live at its generation, so a rollback brings back what ran then, for    *)
(* any limit of the history, although policy, generation and history are   *)
(* behind locks of their own.                                              *)
THEOREM SnapshotsAreTrue == PolicySpec => []SnapshotsTruthful
<1>1. PolicyInit => PolicyInv /\ TruthInv
  <2>1. ASSUME PolicyInit PROVE TruthInv
    <3>1. PICK v \in {0, 1} : livePolicy = v /\ generation = 0 /\ policyHistory = <<[version |-> v, generation |-> 0]>>
      BY Zenon, <2>1 DEF PolicyInit
    <3>2. storeCall = [o \in Operator |-> NoStore] /\ liveAt = <<>>
      BY Zenon, <2>1 DEF PolicyInit
    <3>3. NoStore.version \in Int /\ NoStore.gen \in Nat /\ NoStore.step = "idle"
      BY DEF NoStore, NotLoaded
    <3>4. policyHistory \in Seq(StoredPolicy) /\ (\A i \in DOMAIN policyHistory : policyHistory[i].generation = 0)
          /\ livePolicy \in Int /\ generation \in Nat
      BY <3>1 DEF StoredPolicy
    <3>5. StoreTyped
      BY <3>1, <3>2, <3>3, <3>4 DEF StoreTyped
    <3>6. (\A o \in Operator : ~storing(o) /\ OwnStore(storeCall[o])) /\ HistoryTrue
      BY <3>2, <3>3, <3>4 DEF storing, OwnStore, HistoryTrue
    <3>7. QED
      BY Zenon, <3>5, <3>6 DEF TruthInv, InTurn
  <2>2. QED
    BY Zenon, <2>1, InitialPolicies
<1>2. PolicyInv /\ TruthInv /\ [PolicyNext]_policyVars => PolicyInv' /\ TruthInv'
  BY Zenon, PolicyStep, TruthKept
<1>3. TruthInv => SnapshotsTruthful
  BY Zenon DEF TruthInv, InTurn, HistoryTrue, WasLive, SnapshotsTruthful
<1>4. QED
  BY <1>1, <1>2, <1>3, PTL DEF PolicySpec

-----------------------------------------------------------------------------
(* Sampling rates of the auditor. *)

StratumState == [rate : Int, samples : Int, anomalies : Int]

SamplerInv == strata \in [Stratum -> StratumState]

(* Counting a sample keeps the types of a stratum. *)
LEMMA CountsChange ==
    ASSUME NEW s \in StratumState, NEW n \in Int, NEW m \in Int
    PROVE  [s EXCEPT !.samples = n, !.anomalies = m] \in StratumState
<1> DEFINE t == [s EXCEPT !.samples = n]
<1>1. t \in StratumState
  BY Zenon DEF StratumState
<1>2. [s EXCEPT !.samples = n, !.anomalies = m] = [t EXCEPT !.anomalies = m]
  BY Zenon
<1> HIDE DEF t
<1>3. [t EXCEPT !.anomalies = m] \in StratumState
  BY Zenon, <1>1 DEF StratumState
<1>4. QED
  BY Zenon, <1>2, <1>3

\* An optimisation leaves the counts of a stratum alone, and its rate is a
\* number between the bounds or one of them.
LEMMA RateNumbers ==
    /\ FullRate \in Nat
    /\ \A l \in {"critical", "high", "medium", "low"} : default_rate(l) \in Nat
  BY SMT DEF FullRate, default_rate

(* The rate that optimisation picks is a number, not below that of an       *)
(* anomalous stratum.                                                       *)
LEMMA Optimised ==
    ASSUME SamplerInv, NEW lo \in Nat, NEW hi \in Nat, NEW l \in Stratum
    PROVE  /\ ensured(adjusted(strata[l], lo, hi), lo, hi) \in Int
           /\ rate_above(strata[l], 5) /\ strata[l].rate <= hi =>
                ensured(adjusted(strata[l], lo, hi), lo, hi) >= strata[l].rate
<1> DEFINE rate == strata[l].rate
           low == rate_above(strata[l], 5)
           few == rate_below(strata[l], 1)
<1>1. rate \in Int
  BY Zenon DEF SamplerInv, StratumState
<1>2. adjusted(strata[l], lo, hi) =
        IF low THEN bounded(rate * 2, 0, hi)
        ELSE IF few THEN bounded((rate * 8) \div 10, lo, FullRate * 2) ELSE rate
  BY Zenon DEF adjusted
<1> HIDE DEF rate, low, few
<1>3. (rate * 8) \div 10 \in Int
  BY <1>1
<1>4. adjusted(strata[l], lo, hi) \in Int
  BY <1>1, <1>2, <1>3, RateNumbers DEF bounded
<1>5. ensured(adjusted(strata[l], lo, hi), lo, hi) \in Int
  BY <1>4 DEF ensured, bounded
<1>6. ASSUME low, rate <= hi
      PROVE  ensured(adjusted(strata[l], lo, hi), lo, hi) >= rate
  BY <1>1, <1>2, <1>6 DEF ensured, bounded
<1>7. QED
  BY Zenon, <1>5, <1>6 DEF rate, low

(* A sample or an optimisation keeps the types. *)
LEMMA SamplerStep == ASSUME SamplerInv, [SamplerNext]_samplerVars PROVE SamplerInv'
<1>1. ASSUME NEW l \in Stratum, NEW b \in BOOLEAN, record_outcome(l, b) PROVE SamplerInv'
  <2>1. strata[l] \in StratumState
    BY Zenon DEF SamplerInv
  <2>2. record_sample(strata[l], b) \in StratumState
    <3>1. strata[l].samples + 1 \in Int /\ (IF b THEN strata[l].anomalies + 1 ELSE strata[l].anomalies) \in Int
      BY <2>1 DEF StratumState
    <3>2. QED
      BY <2>1, <3>1, CountsChange, Zenon DEF record_sample
  <2>3. strata' = [strata EXCEPT ![l] = record_sample(strata[l], b)]
    BY Zenon, <1>1 DEF record_outcome
  <2>4. QED
    BY Zenon, <2>2, <2>3 DEF SamplerInv
<1>2. ASSUME NEW b \in RateBounds, optimize_sampling_rates(b[1], b[2]) PROVE SamplerInv'
  <2>1. b[1] \in Nat /\ b[2] \in Nat
    BY Zenon, SamplerAssumption
  <2>2. ASSUME NEW l \in Stratum
        PROVE  [strata[l] EXCEPT !.rate = ensured(adjusted(strata[l], b[1], b[2]), b[1], b[2])] \in StratumState
    <3>1. ensured(adjusted(strata[l], b[1], b[2]), b[1], b[2]) \in Int
      BY Zenon, <2>1, Optimised
    <3>2. strata[l] \in StratumState
      BY Zenon DEF SamplerInv
    <3>3. QED
      BY Zenon, <3>1, <3>2 DEF StratumState
  <2>3. QED
    BY Zenon, <1>2, <2>2 DEF optimize_sampling_rates, SamplerInv
<1>3. ASSUME reset_stats PROVE SamplerInv'
  <2>1. ASSUME NEW l \in Stratum
        PROVE  [strata[l] EXCEPT !.samples = 0, !.anomalies = 0] \in StratumState
    <3>1. strata[l] \in StratumState
      BY Zenon DEF SamplerInv
    <3>2. QED
      BY <3>1, 0 \in Int, CountsChange, Zenon
  <2>2. QED
    BY Zenon, <1>3, <2>1 DEF reset_stats, SamplerInv
<1>4. ASSUME NEW a \in 1..Arms, NEW r \in Rewards, update_arm(a, r) PROVE SamplerInv'
  BY Zenon, <1>4 DEF update_arm, SamplerInv
<1>5. ASSUME UNCHANGED samplerVars PROVE SamplerInv'
  BY Zenon, <1>5 DEF samplerVars, SamplerInv
<1>6. QED
  BY Zenon, <1>1, <1>2, <1>3, <1>4, <1>5 DEF SamplerNext

(* At the start the strata are typed. *)
LEMMA InitialStrata == ASSUME SamplerInit PROVE SamplerInv
<1>1. ASSUME NEW r \in CustomRates
      PROVE  /\ with_rate(r) \in StratumState
             /\ [with_rate(r) EXCEPT !.samples = 40, !.anomalies = 1] \in StratumState
  <2>1. with_rate(r) \in StratumState
    BY SamplerAssumption, RateNumbers DEF with_rate, bounded, StratumState
  <2>2. [with_rate(r) EXCEPT !.samples = 40, !.anomalies = 1] \in StratumState
    BY <2>1, 40 \in Int, 1 \in Int, CountsChange, Zenon
  <2>3. QED
    BY Zenon, <2>1, <2>2
<1>2. ASSUME NEW l \in Stratum PROVE new_stratum(l) \in StratumState
  BY SamplerAssumption, RateNumbers DEF new_stratum, StratumState
<1>3. with_strata \subseteq [Stratum -> StratumState]
  <2> DEFINE W == {with_rate(r) : r \in CustomRates}
                    \cup {[with_rate(r) EXCEPT !.samples = 40, !.anomalies = 1] : r \in CustomRates}
  <2>1. W \subseteq StratumState
    BY <1>1, Zenon
  <2>2. with_strata = [Stratum -> W]
    BY Zenon DEF with_strata
  <2> HIDE DEF W
  <2>3. QED
    BY Zenon, <2>1, <2>2
<1>4. [l \in Stratum |-> new_stratum(l)] \in [Stratum -> StratumState]
  BY Zenon, <1>2
<1>5. QED
  BY Zenon, <1>3, <1>4 DEF SamplerInit, SamplerInv

(* No optimisation lowers the rate of an anomalous stratum. *)
LEMMA RatesRaised == ASSUME SamplerInv, [SamplerNext]_samplerVars PROVE AnomaliesRaiseRate
<1>1. ASSUME NEW b \in RateBounds, NEW l \in Stratum, optimize_sampling_rates(b[1], b[2]),
             rate_above(strata[l], 5), strata[l].rate <= b[2]
      PROVE  strata'[l].rate >= strata[l].rate
  <2>1. b[1] \in Nat /\ b[2] \in Nat
    BY Zenon, SamplerAssumption
  <2> DEFINE new == ensured(adjusted(strata[l], b[1], b[2]), b[1], b[2])
  <2>2. strata'[l] = [strata[l] EXCEPT !.rate = new]
    BY Zenon, <1>1 DEF optimize_sampling_rates
  <2>3. new >= strata[l].rate
    BY Zenon, <1>1, <2>1, Optimised
  <2> HIDE DEF new
  <2>4. strata'[l].rate = new
    BY Zenon, <2>2 DEF SamplerInv, StratumState
  <2>5. QED
    BY Zenon, <2>3, <2>4
<1>2. QED
  BY Zenon, <1>1 DEF AnomaliesRaiseRate

(* optimize_sampling_rates never lowers the rate of a stratum whose share of *)
(* anomalies is above the threshold, whatever the bounds it is called with.  *)
THEOREM AnomalousRatesGoUp == SamplerSpec => [][AnomaliesRaiseRate]_samplerVars
<1>1. SamplerInit => SamplerInv
  BY Zenon, InitialStrata
<1>2. SamplerInv /\ [SamplerNext]_samplerVars => SamplerInv' /\ AnomaliesRaiseRate
  BY Zenon, SamplerStep, RatesRaised
<1>3. QED
  BY <1>1, <1>2, PTL DEF SamplerSpec

-----------------------------------------------------------------------------
(* Probes in the kernel. *)

\* Probes once running stay, on a loaded object, and only a loaded object
\* takes names to block.
ProbeInv ==
  /\ probesRunning => bpfLoaded /\ attached_count(attachedTargets) > 0
  /\ bpfLoaded => probesRunning
  /\ acknowledged # {} => bpfLoaded
  /\ BlockedStaysBlocked

(* The kernel build of the probe manager keeps the invariant. *)
LEMMA ProbeStep == ASSUME ProbeInv, [ProbeNext]_probeVars PROVE ProbeInv'
<1>1. CASE start_probes
  <2>1. CASE probesRunning
    <3>1. UNCHANGED <<probesRunning, bpfLoaded, attachedTargets, blockedComms, acknowledged>>
      BY Zenon, <1>1, <2>1 DEF start_probes, may_start
    <3>2. QED
      BY Zenon, <3>1 DEF ProbeInv, BlockedStaysBlocked, attached_count
  <2>2. CASE ~probesRunning
    <3>1. ~bpfLoaded /\ acknowledged = {} /\ acknowledged' = acknowledged
      BY Zenon, <1>1, <2>2 DEF ProbeInv, start_probes
    <3>2. BlockedStaysBlocked'
      BY Zenon, <3>1 DEF BlockedStaysBlocked
    <3>3. CASE UNCHANGED <<probesRunning, bpfLoaded>>
      BY Zenon, <2>2, <3>1, <3>2, <3>3 DEF ProbeInv
    <3>4. CASE probesRunning' = FALSE /\ bpfLoaded' = bpfLoaded
      BY Zenon, <3>1, <3>2, <3>4 DEF ProbeInv
    <3>5. CASE \E outcome \in [DOMAIN Syscalls -> AttachOutcome] :
                 /\ attachedTargets' = outcome /\ ~none_attached(outcome)
                 /\ probesRunning' = TRUE /\ bpfLoaded' = TRUE
      <4>1. PICK outcome \in [DOMAIN Syscalls -> AttachOutcome] :
                   /\ attachedTargets' = outcome /\ ~none_attached(outcome)
                   /\ probesRunning' = TRUE /\ bpfLoaded' = TRUE
        BY Zenon, <3>5
      <4> DEFINE S == {i \in DOMAIN outcome : outcome[i] \in Symbols}
      <4>2. IsFiniteSet(S)
        <5>1. S \subseteq DOMAIN Syscalls
          BY Zenon
        <5>2. QED
          BY Zenon, <5>1, FS_Subset, ProbeAssumption
      <4>3. Cardinality(S) \in Nat
        BY Zenon, <4>2, FS_CardinalityType
      <4>4. Cardinality(S) # 0 /\ attached_count(attachedTargets)' = Cardinality(S)
        BY Zenon, <4>1 DEF none_attached, attached_count
      <4> HIDE DEF S
      <4>5. attached_count(attachedTargets)' > 0
        BY <4>3, <4>4
      <4>6. QED
        BY Zenon, <3>1, <3>2, <4>1, <4>5 DEF ProbeInv
    <3>6. QED
      BY Zenon, <1>1, <2>2, <3>3, <3>4, <3>5 DEF start_probes, may_start
  <2>3. QED
    BY Zenon, <2>1, <2>2
<1>2. CASE \E c \in CommNames : block_comm(c)
  <2>1. PICK c \in CommNames : block_comm(c)
    BY Zenon, <1>2
  <2>2. UNCHANGED <<probesRunning, bpfLoaded, attachedTargets>>
    BY Zenon, <2>1 DEF block_comm
  <2>3. \/ UNCHANGED <<blockedComms, acknowledged>>
        \/ /\ bpfLoaded /\ blockedComms' = blockedComms \cup {comm_key(c)} /\ acknowledged' = acknowledged \cup {c}
    BY Zenon, <2>1 DEF block_comm
  <2>4. BlockedStaysBlocked' /\ (acknowledged' # {} => bpfLoaded)
    BY Zenon, <2>3 DEF ProbeInv, BlockedStaysBlocked
  <2>5. QED
    BY Zenon, <2>2, <2>4 DEF ProbeInv, attached_count
<1>3. CASE UNCHANGED <<probesRunning, bpfLoaded, attachedTargets, blockedComms, acknowledged>>
  BY Zenon, <1>3 DEF ProbeInv, BlockedStaysBlocked, attached_count
<1>4. QED
  BY Zenon, <1>1, <1>2, <1>3 DEF ProbeNext, probeVars, poll_events

(* Enforcement that the status reports as active is backed by a probe that  *)
(* is attached, and a name that block_comm accepted stays blocked, whatever *)
(* starts follow and however the kernel answers them.                       *)
THEOREM EnforcementHolds == ProbeSpec => [](EnforcementIsBacked /\ BlockedStaysBlocked)
<1>1. ProbeInit => ProbeInv
  BY Zenon DEF ProbeInit, ProbeInv, BlockedStaysBlocked
<1>2. ProbeInv /\ [ProbeNext]_probeVars => ProbeInv'
  BY Zenon, ProbeStep
<1>3. ProbeInv => EnforcementIsBacked /\ BlockedStaysBlocked
  BY Zenon DEF ProbeInv, EnforcementIsBacked, enforcement_active
<1>4. QED
  BY <1>1, <1>2, <1>3, PTL DEF ProbeSpec

-----------------------------------------------------------------------------
(* The model that computes embeddings. *)

\* The environments and directories a process may start with.
SelectionCase ==
  /\ embedEnv \in [tier : {"Developer", "Growth", "Enterprise"}, mode : {"Local", "Hybrid", "ApiOnly"},
                   production : BOOLEAN, standalone : BOOLEAN, remote : BOOLEAN, pinned : BOOLEAN]
  /\ \E d \in ModelDir, s \in ModelDir : modelDirs = <<d, s>>

\* A directory whose files match the pinned digests, or load when none is pinned.
Fit(f) == f \in IF embedEnv.pinned THEN {"good"} ELSE {"good", "altered"}
SoundDir(d) == Fit(model_path(d)) /\ Fit(d.tokenizer)

(* A directory is loaded from exactly when it is sound. *)
LEMMA SoundLoads == ASSUME NEW d \in ModelDir PROVE from_dir(d) <=> SoundDir(d)
<1> DEFINE m == model_path(d)
           t == d.tokenizer
<1>1. m \in File /\ t \in File
  BY Zenon DEF ModelDir, model_path
<1>2. from_dir(d) <=> /\ m # "absent" /\ t # "absent" /\ (embedEnv.pinned => m = "good") /\ (embedEnv.pinned => t = "good")
                      /\ m # "broken" /\ t # "broken"
  BY Zenon DEF from_dir, load, verify_checksum
<1>3. SoundDir(d) <=> /\ m \in IF embedEnv.pinned THEN {"good"} ELSE {"good", "altered"}
                      /\ t \in IF embedEnv.pinned THEN {"good"} ELSE {"good", "altered"}
  BY Zenon DEF SoundDir, Fit
<1> HIDE DEF m, t
<1>4. QED
  BY <1>1, <1>2, <1>3 DEF File

(* The directory loaded from is the first sound one, or 0 without any. *)
LEMMA FirstSound ==
    ASSUME SelectionCase
    PROVE  /\ DOMAIN modelDirs = 1..2
           /\ load_from_disk # 0 =>
                /\ load_from_disk \in 1..2 /\ SoundDir(modelDirs[load_from_disk])
                /\ \A i \in 1..(load_from_disk - 1) : ~SoundDir(modelDirs[i])
           /\ load_from_disk = 0 => \A i \in 1..2 : ~SoundDir(modelDirs[i])
<1> DEFINE U == {i \in DOMAIN modelDirs : from_dir(modelDirs[i])}
<1>1. DOMAIN modelDirs = 1..2 /\ \A i \in 1..2 : modelDirs[i] \in ModelDir
  BY DEF SelectionCase
<1>2. U = {i \in 1..2 : SoundDir(modelDirs[i])}
  BY Zenon, <1>1, SoundLoads
<1>3. load_from_disk = IF U = {} THEN 0 ELSE Min(U)
  BY Zenon DEF load_from_disk, first_dir
<1> HIDE DEF U
<1>4. CASE U = {}
  <2>1. load_from_disk = 0
    BY Zenon, <1>3, <1>4
  <2>2. QED
    BY Zenon, <1>1, <1>2, <1>4, <2>1
<1>5. CASE U # {}
  <2>1. \E x \in U : \A y \in U : x =< y
    <3>1. U \subseteq 1..2
      BY Zenon, <1>2
    <3>2. CASE 1 \in U
      <4>1. \A y \in U : 1 =< y
        BY <3>1
      <4>2. QED
        BY Zenon, <3>2, <4>1
    <3>3. CASE 1 \notin U
      <4>1. \A y \in U : y = 2
        BY <3>1, <3>3
      <4>2. PICK x \in U : TRUE
        BY Zenon, <1>5
      <4>3. \A y \in U : x =< y
        BY <4>1, <4>2
      <4>4. QED
        BY Zenon, <4>2, <4>3
    <3>4. QED
      BY Zenon, <3>2, <3>3
  <2>2. Min(U) \in U /\ \A y \in U : Min(U) =< y
    BY Zenon, <2>1 DEF Min
  <2>3. load_from_disk = Min(U)
    BY Zenon, <1>3, <1>5
  <2> DEFINE k == load_from_disk
  <2>4. k \in U /\ \A y \in U : k =< y
    BY Zenon, <2>2, <2>3
  <2> HIDE DEF k
  <2>5. k \in 1..2 /\ SoundDir(modelDirs[k])
    BY Zenon, <1>2, <2>4
  <2>6. ASSUME NEW i \in 1..(k - 1) PROVE ~SoundDir(modelDirs[i])
    <3>1. i \in 1..2 /\ ~(k =< i)
      BY <2>5
    <3>2. i \notin U
      BY Zenon, <2>4, <3>1
    <3>3. QED
      BY Zenon, <1>2, <3>1, <3>2
  <2>7. k # 0
    BY <2>5
  <2> USE DEF k
  <2>8. QED
    BY Zenon, <1>1, <2>5, <2>6, <2>7
<1>6. QED
  BY Zenon, <1>4, <1>5

(* A choice that falls on a model from disk found one. *)
LEMMA KindsDiffer ==
    /\ Local.kind = "Local" /\ Local.dir = load_from_disk /\ HashModel.kind = "Hash" /\ Remote.kind = "Remote"
    /\ Panic.kind = "panic" /\ Local # HashModel /\ Local # Panic /\ Panic # HashModel /\ Remote # HashModel /\ Remote # Panic
<1>1. /\ Local.kind = "Local" /\ Local.dir = load_from_disk /\ HashModel.kind = "Hash" /\ Remote.kind = "Remote"
      /\ Panic.kind = "panic"
  BY Zenon DEF Local, HashModel, Remote, Panic
<1>2. QED
  BY <1>1

(* What each choice yields. *)
LEMMA ModelChoices ==
    ASSUME SelectionCase
    PROVE  /\ cognitive_model \in {Local, HashModel, Panic} /\ pipeline_model \in {Local, HashModel, Remote, Panic}
           /\ \A m \in models : m = Local => load_from_disk # 0
           /\ \A m \in models : m = Panic => load_from_disk = 0
           /\ embedEnv.production /\ cognitive_model = HashModel => embedEnv.tier = "Developer" \/ embedEnv.mode = "ApiOnly"
           /\ embedEnv.production /\ pipeline_model = HashModel =>
                embedEnv.standalone \/ embedEnv.tier = "Developer" \/ embedEnv.mode = "ApiOnly"
<1>1. embedEnv.mode \in {"Local", "Hybrid", "ApiOnly"}
  BY Zenon DEF SelectionCase
<1>2. /\ local_required \in {Local, Panic} /\ (local_required = Local => load_from_disk # 0)
      /\ (local_required = Panic => load_from_disk = 0)
  BY Zenon, KindsDiffer DEF local_required
<1>3. /\ local_or_hash \in {Local, Panic, HashModel} /\ (local_or_hash = Local => load_from_disk # 0)
      /\ (local_or_hash = Panic => load_from_disk = 0) /\ (embedEnv.production => local_or_hash # HashModel)
  BY Zenon, KindsDiffer DEF local_or_hash, panics_in_production
<1>4. /\ standalone_or_hash \in {Local, HashModel} /\ (standalone_or_hash = Local => load_from_disk # 0)
  BY Zenon, KindsDiffer DEF standalone_or_hash
<1> DEFINE c == cognitive_model
<1>5. \/ c = HashModel /\ embedEnv.tier = "Developer"
      \/ c = local_required
      \/ c = local_or_hash
      \/ c = HashModel /\ embedEnv.mode = "ApiOnly"
  <2>1. CASE embedEnv.tier = "Developer"
    BY Zenon, <2>1 DEF cognitive_model, select_local_embedding_kind
  <2>2. CASE embedEnv.tier # "Developer"
    BY Zenon, <1>1, <2>2 DEF cognitive_model, select_local_embedding_kind
  <2>3. QED
    BY Zenon, <2>1, <2>2
<1>6. pipeline_model = c \/ pipeline_model = Remote \/ (pipeline_model = standalone_or_hash /\ embedEnv.standalone)
  BY Zenon DEF pipeline_model, cognitive_model
<1> HIDE DEF c
<1>7. /\ c \in {Local, HashModel, Panic} /\ (c = Local => load_from_disk # 0) /\ (c = Panic => load_from_disk = 0)
      /\ (embedEnv.production /\ c = HashModel => embedEnv.tier = "Developer" \/ embedEnv.mode = "ApiOnly")
  BY Zenon, KindsDiffer, <1>2, <1>3, <1>5
<1> DEFINE p == pipeline_model
<1>8. /\ p \in {Local, HashModel, Remote, Panic} /\ (p = Local => load_from_disk # 0) /\ (p = Panic => load_from_disk = 0)
      /\ (embedEnv.production /\ p = HashModel =>
            embedEnv.standalone \/ embedEnv.tier = "Developer" \/ embedEnv.mode = "ApiOnly")
  <2> HIDE DEF p
  <2>1. p = c \/ p = Remote \/ (p = standalone_or_hash /\ embedEnv.standalone)
    BY Zenon, <1>6 DEF p
  <2>2. QED
    BY Zenon, KindsDiffer, <1>4, <1>7, <2>1
<1>9. QED
  BY Zenon, <1>7, <1>8 DEF models, c

(* The model a process starts with is the one that was asked for, loaded    *)
(* from the first directory whose files match, whatever the environment and *)
(* the files are.                                                           *)
LEMMA SelectionIsSound == ASSUME SelectionCase PROVE NoSilentDowngrade /\ PinnedModelServed
<1>1. NoSilentDowngrade
  BY Zenon, ModelChoices DEF NoSilentDowngrade
<1>2. \A d : (model_path(d) \in (IF embedEnv.pinned THEN {"good"} ELSE {"good", "altered"})
               /\ d.tokenizer \in (IF embedEnv.pinned THEN {"good"} ELSE {"good", "altered"})) <=> SoundDir(d)
  BY Zenon DEF SoundDir, Fit
<1>3. ASSUME NEW m \in models, m.kind = "Local"
      PROVE  SoundDir(modelDirs[m.dir]) /\ \A i \in 1..(m.dir - 1) : ~SoundDir(modelDirs[i])
  <2>0. m \in {Local, HashModel, Remote, Panic}
    BY Zenon, ModelChoices DEF models
  <2>1. m = Local
    BY <1>3, <2>0, KindsDiffer
  <2>2. m.dir = load_from_disk /\ load_from_disk # 0
    BY Zenon, <2>1, KindsDiffer, ModelChoices
  <2>3. QED
    BY Zenon, <2>2, FirstSound
<1>4. ~starts => \A i \in DOMAIN modelDirs : ~SoundDir(modelDirs[i])
  BY Zenon, ModelChoices, FirstSound DEF starts
<1>5. PinnedModelServed
  BY Zenon, <1>2, <1>3, <1>4 DEF PinnedModelServed
<1>6. QED
  BY Zenon, <1>1, <1>5

(* A process starts in one of those environments. *)
LEMMA SelectionStarts == ASSUME SelectionInit PROVE SelectionCase
<1>1. \E d \in ModelDir, s \in Spare : modelDirs = <<d, s>>
  BY DEF SelectionInit
<1>2. PICK d \in ModelDir, s \in Spare : modelDirs = <<d, s>>
  BY Zenon, <1>1
<1>3. s \in ModelDir
  <2>1. PICK f \in {"absent", "good", "altered"} : s = [quantized |-> "absent", plain |-> f, tokenizer |-> f]
    BY Zenon DEF Spare
  <2>2. f \in File /\ "absent" \in File
    BY Zenon DEF File
  <2>3. QED
    BY Zenon, <2>1, <2>2 DEF ModelDir
<1>4. \E x \in ModelDir, y \in ModelDir : modelDirs = <<x, y>>
  BY <1>2, <1>3
<1>5. QED
  BY <1>4 DEF SelectionInit, SelectionCase

-----------------------------------------------------------------------------
(* Sidecars of the pods. *)

PodState == [exists : BOOLEAN, uid : Nat, inject : BOOLEAN, policy : Nat, sidecars : Seq(Nat)]
ListedPod == [pod : Pod, uid : Nat, injected : BOOLEAN]
CountedPod == [pod : Pod, uid : Nat]

\* The pod that was seen, while it exists, has its sidecar; or has it or is
\* annotated for one.  A pod that took its name has a greater uid.
StillInjected(l) ==
  /\ l.uid <= pods[l.pod].uid
  /\ l.injected /\ pods[l.pod].exists /\ pods[l.pod].uid = l.uid => pods[l.pod].sidecars # <<>>
StillManaged(d) ==
  /\ d.uid <= pods[d.pod].uid
  /\ pods[d.pod].exists /\ pods[d.pod].uid = d.uid => pods[d.pod].sidecars # <<>> \/ pods[d.pod].inject

PodsTyped ==
  /\ profilePolicy \in Nat /\ template \in [Pod -> Nat]
  /\ pods \in [Pod -> PodState] /\ OneSidecar
RunTyped == reconcile \in [step : {"idle", "patch"}, policy : Nat, todo : Seq(ListedPod), done : SUBSET CountedPod]
RunTrue ==
  /\ \A i \in DOMAIN reconcile.todo : StillInjected(reconcile.todo[i])
  /\ \A d \in reconcile.done : StillManaged(d)

SidecarInv == PodsTyped /\ RunTyped /\ RunTrue

(* What was seen of the pods stays true when a pod is created, annotated or *)
(* deleted.                                                                 *)
LEMMA PodChanges ==
    ASSUME SidecarInv, NEW p \in Pod, NEW new \in PodState, pods' = [pods EXCEPT ![p] = new],
           \/ new.uid > pods[p].uid
           \/ new.uid = pods[p].uid /\ ~new.exists
           \/ /\ new.uid = pods[p].uid /\ pods[p].exists /\ new.sidecars = pods[p].sidecars
              /\ (pods[p].inject => new.inject)
    PROVE  /\ \A l \in ListedPod : StillInjected(l) => StillInjected(l)'
           /\ \A d \in CountedPod : StillManaged(d) => StillManaged(d)'
<1>1. pods \in [Pod -> PodState] /\ pods'[p] = new /\ \A q \in Pod : q # p => pods'[q] = pods[q]
  BY Zenon DEF SidecarInv, PodsTyped
<1>2. new.uid \in Nat /\ pods[p].uid \in Nat
  BY Zenon, <1>1 DEF PodState
<1>3. ASSUME NEW l \in ListedPod, StillInjected(l) PROVE StillInjected(l)'
  <2>1. l.pod \in Pod /\ l.uid \in Nat
    BY Zenon DEF ListedPod
  <2>2. CASE l.pod # p
    BY Zenon, <1>1, <1>3, <2>1, <2>2 DEF StillInjected
  <2>3. CASE l.pod = p
    <3>1. l.uid <= pods[p].uid
      BY Zenon, <1>3, <2>3 DEF StillInjected
    <3>2. l.injected /\ pods[p].exists /\ pods[p].uid = l.uid => pods[p].sidecars # <<>>
      BY Zenon, <1>3, <2>3 DEF StillInjected
    <3>3. new.uid > pods[p].uid => l.uid <= new.uid /\ new.uid # l.uid /\ new.uid # pods[p].uid
      BY <1>2, <2>1, <3>1
    <3>4. l.uid <= new.uid /\ (l.injected /\ new.exists /\ new.uid = l.uid => new.sidecars # <<>>)
      BY Zenon, <3>1, <3>2, <3>3
    <3>5. QED
      BY Zenon, <1>1, <2>3, <3>4 DEF StillInjected
  <2>4. QED
    BY Zenon, <2>2, <2>3
<1>4. ASSUME NEW l \in CountedPod, StillManaged(l) PROVE StillManaged(l)'
  <2>1. l.pod \in Pod /\ l.uid \in Nat
    BY Zenon DEF CountedPod
  <2>2. CASE l.pod # p
    BY Zenon, <1>1, <1>4, <2>1, <2>2 DEF StillManaged
  <2>3. CASE l.pod = p
    <3>1. l.uid <= pods[p].uid
      BY Zenon, <1>4, <2>3 DEF StillManaged
    <3>2. pods[p].exists /\ pods[p].uid = l.uid => pods[p].sidecars # <<>> \/ pods[p].inject
      BY Zenon, <1>4, <2>3 DEF StillManaged
    <3>3. new.uid > pods[p].uid => l.uid <= new.uid /\ new.uid # l.uid /\ new.uid # pods[p].uid
      BY <1>2, <2>1, <3>1
    <3>4. l.uid <= new.uid /\ (new.exists /\ new.uid = l.uid => new.sidecars # <<>> \/ new.inject)
      BY Zenon, <3>1, <3>2, <3>3
    <3>5. QED
      BY Zenon, <1>1, <2>3, <3>4 DEF StillManaged
  <2>4. QED
    BY Zenon, <2>2, <2>3
<1>5. QED
  BY Zenon, <1>3, <1>4

(* A pod changes and the run does not. *)
LEMMA PodStep ==
    ASSUME SidecarInv, NEW p \in Pod, NEW new \in PodState, pods' = [pods EXCEPT ![p] = new],
           \/ new.uid > pods[p].uid
           \/ new.uid = pods[p].uid /\ ~new.exists,
           Len(new.sidecars) <= 1, UNCHANGED <<profilePolicy, template, reconcile>>
    PROVE  SidecarInv'
<1>1. PodsTyped'
  <2>1. pods' \in [Pod -> PodState] /\ pods'[p] = new /\ \A q \in Pod : q # p => pods'[q] = pods[q]
    BY Zenon DEF SidecarInv, PodsTyped
  <2>2. OneSidecar'
    BY Zenon, <2>1 DEF SidecarInv, PodsTyped, OneSidecar
  <2>3. QED
    BY Zenon, <2>1, <2>2 DEF SidecarInv, PodsTyped
<1>2. reconcile.todo \in Seq(ListedPod) /\ reconcile.done \subseteq CountedPod
  BY Zenon DEF SidecarInv, RunTyped
<1>3. \A i \in DOMAIN reconcile.todo : reconcile.todo[i] \in ListedPod
  <2> DEFINE t == reconcile.todo
  <2>1. t \in Seq(ListedPod)
    BY Zenon, <1>2
  <2> HIDE DEF t
  <2>2. \A i \in DOMAIN t : t[i] \in ListedPod
    BY <2>1
  <2>3. QED
    BY Zenon, <2>2 DEF t
<1>4. RunTrue'
  <2>1. /\ \A l \in ListedPod : StillInjected(l) => StillInjected(l)'
        /\ \A d \in CountedPod : StillManaged(d) => StillManaged(d)'
    BY Zenon, PodChanges
  <2>2. \A i \in DOMAIN reconcile.todo : StillInjected(reconcile.todo[i])'
    <3>1. SUFFICES ASSUME NEW i \in DOMAIN reconcile.todo PROVE StillInjected(reconcile.todo[i])'
      BY Zenon
    <3>2. StillInjected(reconcile.todo[i])
      BY Zenon DEF SidecarInv, RunTrue
    <3> DEFINE l == reconcile.todo[i]
    <3>3. l \in ListedPod /\ l' = l
      BY Zenon, <1>3
    <3>4. QED
      BY Zenon, <2>1, <3>2, <3>3 DEF StillInjected
  <2>3. \A d \in reconcile.done : StillManaged(d)'
    BY Zenon, <1>2, <2>1 DEF SidecarInv, RunTrue
  <2>4. QED
    BY Zenon, <2>2, <2>3 DEF RunTrue
<1>5. QED
  BY Zenon, <1>1, <1>4 DEF SidecarInv, RunTyped

(* The webhook gives a new pod one sidecar at most, however often it is called. *)
LEMMA CreateStep == ASSUME SidecarInv, NEW p \in Pod, CreatePod(p) PROVE SidecarInv'
<1> DEFINE n == pods[p].uid + 1
           bare == [exists |-> TRUE, uid |-> pods[p].uid + 1, inject |-> template[p] > 0, policy |-> template[p],
                     sidecars |-> <<>>]
           filled == [bare EXCEPT !.sidecars = Append(bare.sidecars, build_sidecar_container(bare.policy))]
<1>1. pods[p] \in PodState /\ template[p] \in Nat
  BY Zenon DEF SidecarInv, PodsTyped
<1>2. pods[p].uid \in Nat
  BY Zenon, <1>1 DEF PodState
<1>3. n \in Nat /\ n > pods[p].uid /\ (template[p] > 0) \in BOOLEAN /\ <<>> \in Seq(Nat) /\ Len(<<>>) <= 1
  BY <1>1, <1>2
<1>4. bare \in PodState /\ bare.uid = n /\ bare.sidecars = <<>> /\ bare.policy = template[p]
  BY Zenon, <1>1, <1>3 DEF PodState
<1>5. /\ Append(<<>>, template[p]) \in Seq(Nat) /\ Len(Append(<<>>, template[p])) <= 1
      /\ Append(<<>>, template[p]) # <<>>
  BY <1>1
<1>6. pods' = [pods EXCEPT ![p] = mutate(bare)] \/ pods' = [pods EXCEPT ![p] = mutate(mutate(bare))]
  BY Zenon DEF CreatePod
<1> HIDE DEF n, bare
<1>7. filled \in PodState /\ filled.uid = n /\ filled.sidecars = Append(<<>>, template[p])
  BY Zenon, <1>4, <1>5 DEF PodState, build_sidecar_container
<1>8. mutate(bare) \in {bare, filled}
  BY Zenon DEF mutate
<1> HIDE DEF filled
<1>9. mutate(filled) = filled
  BY Zenon, <1>5, <1>7 DEF mutate, needs_sidecar
<1>10. PICK new \in {bare, filled} : pods' = [pods EXCEPT ![p] = new]
  BY Zenon, <1>6, <1>8, <1>9
<1>11. new \in PodState /\ new.uid > pods[p].uid /\ Len(new.sidecars) <= 1
  BY Zenon, <1>3, <1>4, <1>5, <1>7, <1>10
<1>12. UNCHANGED <<profilePolicy, template, reconcile>>
  BY Zenon DEF CreatePod
<1>13. QED
  BY Zenon, <1>10, <1>11, <1>12, PodStep

(* A pod that is deleted is counted no more. *)
LEMMA DeleteStep == ASSUME SidecarInv, NEW p \in Pod, DeletePod(p) PROVE SidecarInv'
<1> DEFINE new == [NoPod EXCEPT !.uid = pods[p].uid]
<1>1. pods[p].uid \in Nat
  BY Zenon DEF SidecarInv, PodsTyped, PodState
<1>2. <<>> \in Seq(Nat) /\ 0 \in Nat /\ Len(<<>>) <= 1
  OBVIOUS
<1>3. NoPod \in PodState /\ ~NoPod.exists /\ NoPod.sidecars = <<>>
  BY Zenon, <1>2 DEF NoPod, PodState
<1>4. pods' = [pods EXCEPT ![p] = new] /\ UNCHANGED <<profilePolicy, template, reconcile>>
  BY Zenon DEF DeletePod
<1>5. new \in PodState /\ new.uid = pods[p].uid /\ ~new.exists /\ Len(new.sidecars) <= 1
  BY Zenon, <1>1, <1>2, <1>3 DEF PodState
<1> HIDE DEF new
<1>6. QED
  BY Zenon, <1>4, <1>5, PodStep

(* The list is true when it is made. *)
LEMMA ListStep == ASSUME SidecarInv, ListPods PROVE SidecarInv'
<1> DEFINE S == listed_pods
           n == Cardinality(S)
<1>1. PICK policy \in 1..profilePolicy, order \in Injection(1..n, S) :
        reconcile' = [step |-> "patch", policy |-> policy, todo |-> order, done |-> {}]
  BY Zenon DEF ListPods
<1>2. pods' = pods /\ UNCHANGED <<profilePolicy, template>>
  BY Zenon DEF ListPods
<1>3. pods \in [Pod -> PodState] /\ profilePolicy \in Nat
  BY Zenon DEF SidecarInv, PodsTyped
<1>4. ASSUME NEW l \in S PROVE l \in ListedPod /\ StillInjected(l)
  <2>1. PICK p \in Pod : l = [pod |-> p, uid |-> pods[p].uid, injected |-> pods[p].sidecars # <<>>]
    BY Zenon DEF listed_pods
  <2>2. pods[p].uid \in Nat /\ l.pod = p /\ l.uid = pods[p].uid /\ l.injected = (pods[p].sidecars # <<>>)
    BY Zenon, <1>3, <2>1 DEF PodState
  <2>3. (pods[p].sidecars # <<>>) \in BOOLEAN
    BY Zenon
  <2>4. l \in ListedPod
    BY Zenon, <2>1, <2>2, <2>3 DEF ListedPod
  <2>5. pods[p].uid <= pods[p].uid
    BY <2>2
  <2>6. QED
    BY Zenon, <2>2, <2>4, <2>5 DEF StillInjected
<1>5. IsFiniteSet(S)
  <2> DEFINE P == {q \in Pod : pods[q].exists}
             f == [p \in P |-> [pod |-> p, uid |-> pods[p].uid, injected |-> pods[p].sidecars # <<>>]]
  <2>1. IsFiniteSet(P)
    <3>1. P \subseteq Pod
      BY Zenon
    <3>2. QED
      BY Zenon, <3>1, SidecarAssumption, FS_Subset
  <2>2. f \in Surjection(P, S)
    BY Zenon DEF Surjection, listed_pods
  <2>3. QED
    BY Zenon, <2>1, <2>2, FS_Surjection
<1>6. n \in Nat
  BY Zenon, <1>5, FS_CardinalityType
<1> HIDE DEF S, n
<1>7. order \in [1..n -> S]
  BY Zenon, <1>1 DEF Injection
<1>8. order \in [1..n -> ListedPod] /\ DOMAIN order = 1..n /\ \A i \in 1..n : StillInjected(order[i])
  BY Zenon, <1>4, <1>7
<1>9. order \in Seq(ListedPod)
  BY <1>6, <1>8
<1>10. policy \in Nat
  BY <1>1, <1>3
<1>11. reconcile'.todo = order /\ reconcile'.done = {}
  BY Zenon, <1>1
<1>12. RunTyped'
  BY Zenon, <1>1, <1>9, <1>10 DEF RunTyped
<1>13. \A i \in DOMAIN reconcile'.todo : StillInjected(reconcile'.todo[i])
  BY Zenon, <1>8, <1>11
<1>14. RunTrue'
  BY Zenon, <1>2, <1>11, <1>13 DEF RunTrue, StillInjected
<1>15. QED
  BY Zenon, <1>2, <1>12, <1>14 DEF SidecarInv, PodsTyped, OneSidecar

(* A step of the run that counts one pod and leaves the rest of its list. *)
LEMMA CountStep ==
    ASSUME SidecarInv, reconcile.todo # <<>>, NEW p \in Pod, NEW u \in Nat, PodsTyped',
           reconcile' = [reconcile EXCEPT !.todo = Tail(@), !.done = @ \cup {[pod |-> p, uid |-> u]}],
           StillManaged([pod |-> p, uid |-> u])',
           \A l \in ListedPod : StillInjected(l) => StillInjected(l)',
           \A d \in CountedPod : StillManaged(d) => StillManaged(d)'
    PROVE  SidecarInv'
<1> DEFINE t == reconcile.todo
           d0 == [pod |-> p, uid |-> u]
<1>1. t \in Seq(ListedPod) /\ t # <<>> /\ RunTyped
  BY Zenon DEF SidecarInv, RunTyped
<1>2. /\ Tail(t) \in Seq(ListedPod) /\ DOMAIN Tail(t) = 1..(Len(t) - 1) /\ DOMAIN t = 1..Len(t)
      /\ Len(t) \in Nat /\ \A i \in 1..(Len(t) - 1) : Tail(t)[i] = t[i + 1] /\ t[i + 1] \in ListedPod /\ i + 1 \in 1..Len(t)
  <2> HIDE DEF t
  <2>1. QED
    BY <1>1
<1>4. d0 \in CountedPod
  BY Zenon DEF CountedPod
<1>5. RunTyped' /\ reconcile'.todo = Tail(t) /\ reconcile'.done = reconcile.done \cup {d0}
  <2>1. reconcile' = [[reconcile EXCEPT !.todo = Tail(t)] EXCEPT !.done = reconcile.done \cup {d0}]
    BY DEF RunTyped
  <2> DEFINE r == [reconcile EXCEPT !.todo = Tail(t)]
  <2>2. /\ r \in [step : {"idle", "patch"}, policy : Nat, todo : Seq(ListedPod), done : SUBSET CountedPod]
        /\ r.todo = Tail(t) /\ r.done = reconcile.done
    BY Zenon, <1>1, <1>2 DEF RunTyped
  <2> HIDE DEF r, d0
  <2>3. r.done \cup {d0} \in SUBSET CountedPod
    BY Zenon, <1>4, <2>2
  <2>4. QED
    BY Zenon, <2>1, <2>2, <2>3 DEF RunTyped, r
<1>6. \A i \in DOMAIN Tail(t) : StillInjected(Tail(t)[i])
  BY Zenon, <1>2 DEF SidecarInv, RunTrue
<1>7. RunTrue'
  <2>1. \A i \in DOMAIN reconcile'.todo : reconcile'.todo[i] \in ListedPod /\ StillInjected(reconcile'.todo[i])
    BY Zenon, <1>2, <1>5, <1>6
  <2>2. \A d \in reconcile.done : d \in CountedPod /\ StillManaged(d)
    BY Zenon, <1>1 DEF SidecarInv, RunTrue, RunTyped
  <2>3. \A d \in reconcile'.done : StillManaged(d)'
    BY Zenon, <1>5, <2>2
  <2>4. ASSUME NEW i \in DOMAIN reconcile'.todo PROVE StillInjected(reconcile.todo[i])'
    <3>1. PICK l \in ListedPod : l = reconcile'.todo[i] /\ StillInjected(l)
      BY Zenon, <2>1
    <3>2. StillInjected(l)'
      BY Zenon, <3>1
    <3>3. QED
      BY Zenon, <3>1, <3>2 DEF StillInjected
  <2>5. QED
    BY Zenon, <2>3, <2>4 DEF RunTrue
<1>8. QED
  BY Zenon, <1>5, <1>7 DEF SidecarInv

(* A pod is counted when the list shows its sidecar or once it is annotated. *)
LEMMA PatchStep == ASSUME SidecarInv, PatchPod PROVE SidecarInv'
<1> DEFINE l == Head(reconcile.todo)
           p == l.pod
<1>1. reconcile.todo \in Seq(ListedPod) /\ reconcile.todo # <<>>
  BY Zenon DEF SidecarInv, RunTyped, PatchPod
<1>2. l \in ListedPod /\ l = reconcile.todo[1] /\ 1 \in DOMAIN reconcile.todo
  <2> DEFINE t == reconcile.todo
  <2>1. t \in Seq(ListedPod) /\ t # <<>>
    BY Zenon, <1>1
  <2> HIDE DEF t
  <2>2. Head(t) \in ListedPod /\ Head(t) = t[1] /\ 1 \in DOMAIN t
    BY <2>1
  <2>3. QED
    BY Zenon, <2>2 DEF t
<1>3. StillInjected(l) /\ p \in Pod /\ l.uid \in Nat
  BY Zenon, <1>2 DEF SidecarInv, RunTrue, ListedPod
<1>4. pods \in [Pod -> PodState] /\ pods[p] \in PodState /\ pods[p].uid \in Nat
  BY Zenon, <1>3 DEF SidecarInv, PodsTyped, PodState
<1>5. UNCHANGED <<profilePolicy, template>>
  BY Zenon DEF PatchPod
<1>6. CASE /\ l.injected /\ pods' = pods
           /\ reconcile' = [reconcile EXCEPT !.todo = Tail(@), !.done = @ \cup {[pod |-> p, uid |-> l.uid]}]
  <2> DEFINE d == [pod |-> p, uid |-> l.uid]
  <2>1. PodsTyped'
    BY Zenon, <1>5, <1>6 DEF SidecarInv, PodsTyped, OneSidecar
  <2>2. d.pod = p /\ d.uid = l.uid
    BY Zenon
  <2>3. StillManaged(d)
    BY Zenon, <1>3, <1>6, <2>2 DEF StillInjected, StillManaged
  <2>4. /\ \A x \in ListedPod : StillInjected(x) => StillInjected(x)'
        /\ \A x \in CountedPod : StillManaged(x) => StillManaged(x)'
    BY Zenon, <1>6 DEF StillInjected, StillManaged
  <2>5. PICK q \in Pod, u \in Nat : q = p /\ u = l.uid
    BY Zenon, <1>3
  <2>6. reconcile' = [reconcile EXCEPT !.todo = Tail(@), !.done = @ \cup {[pod |-> q, uid |-> u]}]
    BY Zenon, <1>6, <2>5
  <2>7. [pod |-> q, uid |-> u] \in CountedPod /\ StillManaged([pod |-> q, uid |-> u])
    BY Zenon, <2>3, <2>5 DEF CountedPod
  <2>8. StillManaged([pod |-> q, uid |-> u])'
    BY Zenon, <2>4, <2>7
  <2> HIDE DEF p, l, d
  <2>9. QED
    BY Zenon, <1>1, <2>1, <2>4, <2>6, <2>8, CountStep
<1>7. CASE /\ ~l.injected /\ pods[p].exists
           /\ pods' = [pods EXCEPT ![p].inject = TRUE, ![p].policy = reconcile.policy]
           /\ reconcile' = [reconcile EXCEPT !.todo = Tail(@), !.done = @ \cup {[pod |-> p, uid |-> pods[p].uid]}]
  <2> DEFINE y == [pods[p] EXCEPT !.inject = TRUE]
             new == [y EXCEPT !.policy = reconcile.policy]
  <2>1. reconcile.policy \in Nat
    BY Zenon DEF SidecarInv, RunTyped
  <2>2. /\ y \in PodState /\ y.uid = pods[p].uid /\ y.sidecars = pods[p].sidecars /\ y.inject = TRUE
        /\ y.exists = pods[p].exists
    BY Zenon, <1>4 DEF PodState
  <2>3. pods' = [pods EXCEPT ![p] = new]
    BY <1>3, <1>4, <1>7
  <2> HIDE DEF y
  <2>4. /\ new \in PodState /\ new.uid = pods[p].uid /\ new.sidecars = pods[p].sidecars /\ new.inject = TRUE
    BY Zenon, <2>1, <2>2 DEF PodState
  <2> HIDE DEF new
  <2>5. /\ \A x \in ListedPod : StillInjected(x) => StillInjected(x)'
        /\ \A x \in CountedPod : StillManaged(x) => StillManaged(x)'
    BY Zenon, <1>3, <1>7, <2>3, <2>4, PodChanges
  <2>6. pods' \in [Pod -> PodState] /\ pods'[p] = new /\ \A q \in Pod : q # p => pods'[q] = pods[q]
    BY Zenon, <1>3, <1>4, <2>3, <2>4
  <2>7. OneSidecar'
    BY Zenon, <1>3, <2>4, <2>6 DEF SidecarInv, PodsTyped, OneSidecar
  <2>8. PodsTyped'
    BY Zenon, <1>5, <2>6, <2>7 DEF SidecarInv, PodsTyped
  <2>9. PICK q \in Pod, u \in Nat : q = p /\ u = pods[p].uid
    BY Zenon, <1>3, <1>4
  <2> HIDE DEF p, l
  <2>10. reconcile' = [reconcile EXCEPT !.todo = Tail(@), !.done = @ \cup {[pod |-> q, uid |-> u]}]
    BY Zenon, <1>7, <2>9
  <2>11. pods'[q].uid = u /\ pods'[q].inject /\ u <= u
    BY <2>4, <2>6, <2>9
  <2>12. StillManaged([pod |-> q, uid |-> u])'
    BY Zenon, <2>11 DEF StillManaged
  <2>13. QED
    BY Zenon, <1>1, <2>5, <2>8, <2>10, <2>12, CountStep
<1>8. QED
  BY Zenon, <1>6, <1>7 DEF PatchPod

(* Between two runs nothing is listed. *)
LEMMA RunEnds == ASSUME SidecarInv, reconcile' = NotReconciling, UNCHANGED <<profilePolicy, template, pods>> PROVE SidecarInv'
<1>1. <<>> \in Seq(ListedPod) /\ 0 \in Nat /\ DOMAIN <<>> = {}
  OBVIOUS
<1>2. reconcile'.todo = <<>> /\ reconcile'.done = {}
  BY Zenon DEF NotReconciling
<1>3. RunTyped'
  BY Zenon, <1>1 DEF RunTyped, NotReconciling
<1>4. RunTrue'
  BY Zenon, <1>1, <1>2 DEF RunTrue
<1>5. QED
  BY Zenon, <1>3, <1>4 DEF SidecarInv, PodsTyped, OneSidecar

(* A step of the controller, the webhook or the cluster keeps the invariant. *)
LEMMA SidecarStep == ASSUME SidecarInv, [SidecarNext]_sidecarVars PROVE SidecarInv'
<1>1. CASE EditProfile
  <2>1. profilePolicy' = profilePolicy + 1 /\ UNCHANGED <<template, pods, reconcile>>
    BY Zenon, <1>1 DEF EditProfile
  <2>2. profilePolicy' \in Nat
    BY <2>1 DEF SidecarInv, PodsTyped
  <2>3. QED
    BY Zenon, <2>1, <2>2 DEF SidecarInv, PodsTyped, OneSidecar, RunTyped, RunTrue, StillInjected, StillManaged
<1>2. CASE PatchFails \/ PatchProfileStatus
  BY Zenon, <1>2, RunEnds DEF PatchFails, PatchProfileStatus, error_policy
<1>3. CASE UNCHANGED sidecarVars
  BY Zenon, <1>3 DEF sidecarVars, SidecarInv, PodsTyped, OneSidecar, RunTyped, RunTrue, StillInjected, StillManaged
<1>4. QED
  BY Zenon, <1>1, <1>2, <1>3, CreateStep, DeleteStep, ListStep, PatchStep DEF SidecarNext

(* At the start there is no pod. *)
LEMMA InitialPods == ASSUME SidecarInit PROVE SidecarInv
<1>1. <<>> \in Seq(Nat) /\ <<>> \in Seq(ListedPod) /\ 0 \in Nat /\ 1 \in Nat /\ Len(<<>>) <= 1 /\ DOMAIN <<>> = {}
  OBVIOUS
<1>2. NoPod \in PodState /\ NoPod.sidecars = <<>>
  BY Zenon, <1>1 DEF NoPod, PodState
<1>3. PodsTyped
  BY Zenon, <1>1, <1>2 DEF SidecarInit, PodsTyped, OneSidecar
<1>4. reconcile.todo = <<>> /\ reconcile.done = {}
  BY Zenon DEF SidecarInit, NotReconciling
<1>5. QED
  BY Zenon, <1>1, <1>3, <1>4 DEF SidecarInit, SidecarInv, RunTyped, RunTrue, NotReconciling

(* However pods come and go while the controller patches them, no pod gets   *)
(* a second sidecar, and every pod counted that still exists has its sidecar *)
(* or is annotated for one.                                                  *)
THEOREM SidecarsAreManaged == SidecarSpec => [](OneSidecar /\ CountedPodsManaged)
<1>1. SidecarInit => SidecarInv
  BY Zenon, InitialPods
<1>2. SidecarInv /\ [SidecarNext]_sidecarVars => SidecarInv'
  BY Zenon, SidecarStep
<1>3. SidecarInv => OneSidecar /\ CountedPodsManaged
  BY Zenon DEF SidecarInv, PodsTyped, RunTrue, StillManaged, CountedPodsManaged
<1>4. QED
  BY <1>1, <1>2, <1>3, PTL DEF SidecarSpec
=============================================================================
