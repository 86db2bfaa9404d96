----------------------------- MODULE MCPlatform -----------------------------
(***************************************************************************)
(* The components of the platform that share no state with one another,    *)
(* in one instance.  A behaviour runs one of them, chosen at the start,    *)
(* while the others rest, so the states are the sum of the components'     *)
(* own and every component is checked in full.  A resting component is in  *)
(* an initial state of its own; where it has several, in a named one.      *)
(***************************************************************************)
EXTENDS Learning, RiskSignals, AgentVersions, DecisionStore, WriteBuffers,
        TenantDb, SqliteStore, Admission, Authentication, Signing, McpGuard,
        ToolChecks, ProbeManager, AuditLog, MerkleLog, HighStakes, Policies,
        PolicyStore, RedisScanQueue, SidecarInjection, SessionDrift,
        CognitiveMonitor, DriftDetectors, EmbeddingCaches, EmbeddingModels,
        Operations, Sampling, TLC

\* Instances of the functions and record sets that a configuration cannot spell.
MCKeyOf == [t \in Tx |-> CHOOSE k \in Key : TRUE]
MCOrgOf == [d \in Dec |-> IF d \in Drifting THEN DefaultOrg ELSE NoOrg]
MCCapacity == [b \in Bucket |-> IF b = GlobalBucket THEN 3 ELSE IF b \in IpBucket THEN 2 ELSE 1]
MCRefillRate == [b \in Bucket |-> IF b = GlobalBucket THEN 2 ELSE 1]
MCMessage ==
  [ed25519 : BOOLEAN, ts : {1}, nonce : {"n1"}, sig : {TRUE}, key : {TRUE}, org : {TRUE}]
    \cup [ed25519 : {FALSE}, ts : {2}, nonce : {"n2"}, sig : {FALSE}, key : {TRUE}, org : {TRUE}]
MCAdminHeaders == [key : BOOLEAN, totp : {TRUE}, ip : BOOLEAN, session : {NoAgent}]
MCToolCall ==
  [agent : {"reader"}, tool : {"read"}, args : {"x"}, context : {"c1"}]
    \cup [agent : {"runner"}, tool : {"exec"}, args : {"x"}, context : {"c2"}]
MCPolicyOn == [c \in MCToolCall |-> "none"]
MCPriorityOf == [t \in DeepTask |-> IF t = "t1" THEN 1 ELSE 2]
MCRateBounds == {<<5000, 1000000>>, <<20000, 200000>>}
MCMatrices == [tp : {0, 1, 3}, fp : 0..2, fn : 0..1]
MCSyscalls == <<"execve", "connect">>
MCCommNames == {<<1>>, <<1, 2>>, <<1, 2, 3>>}
MCKValues == <<1, 2, 4>>

\* Versions of an agent: goal, embedding of the goal, generation and two limits.
Body(goal, emb, gen, anomaly, amount) ==
  [goal |-> goal, emb |-> emb, gen |-> gen,
   limits |-> [k \in Limit |-> CASE k = "anomaly_threshold" -> anomaly
                                 [] k = "amount_threshold" -> amount
                                 [] OTHER -> NoValue]]
MCSimilarity ==
  [p \in Embedding \X Embedding |->
     CASE {p[1], p[2]} \cap {"none", "zero"} # {} -> NoValue
       [] p[1] = p[2] -> 100
       [] p[1] # p[2] /\ "z" \in {p[1], p[2]} -> 50
       [] OTHER -> 80]
MCSnapshot == {Body("g1", "x", 0, 600, 500)}
MCProposal == {Body("g1", "x", 0, 600, 620), Body("g1", "y", 1, 630, NoValue),
               Body("g1", "y", 0, 700, 500)}
MCSessionGoal == {NoValue, [goal |-> "g2", emb |-> "x"]}

\* The case that a component of pure functions rests on.
InventoryAtRest == CHOOSE i \in Inventories : TRUE
CheckAtRest == CHOOSE c \in CheckCase : TRUE
ContextAtRest == Base(<<>>)
EvidenceAtRest == CHOOSE e \in Evidence : \A f \in Strength : Raised(e, f) = {}
DirsAtRest == CHOOSE m \in {<<d, s>> : d \in ModelDir, s \in Spare} : TRUE
LimitAtRest == CHOOSE c \in LimitCase : TRUE

\* The records of the instance have the fields that the components read.
ASSUME InstanceAssumption ==
  /\ \A m \in Message : DOMAIN m = {"ed25519", "ts", "nonce", "sig", "key", "org"} /\ m = [m EXCEPT !.ts = m.ts]
  /\ \A h \in AdminHeaders : DOMAIN h = {"key", "totp", "ip", "session"} /\ h = [h EXCEPT !.ip = h.ip]
  /\ \A c \in ToolCall : DOMAIN c = {"agent", "tool", "args", "context"} /\ PolicyOn[c] = "none"
  /\ \A x \in MCMatrices : DOMAIN x = {"tp", "fp", "fn"} /\ x = [x EXCEPT !.tp = x.tp]

VARIABLE part   \* the component that runs

\* What is written: reviews and recommendations, advisories, versions, signals, rows and files.
recordsPartVars == <<learningVars, adVars, versionVars, signalVars,
                     decisionVars, bufferVars, tenantVars, sqlVars>>

RecordsInit ==
  /\ LearningInit /\ (part # "learning" => db = TRUE)
  /\ AdvisoriesInit /\ (part # "advisories" => watched = CHOOSE a \in AdvAgent : TRUE)
  /\ VersionsInit
  /\ SignalsInit
  /\ DecisionInit /\ (part # "decisions" => backend = "postgres" /\ strict)
  /\ BuffersInit /\ (part # "buffers" => dropOnFull)
  /\ TenantInit /\ (part # "tenants" => rls)
  /\ SqlInit /\ (part # "sqlite" => onFile)

LearningPart ==
  /\ part = "learning" /\ LearningNext
  /\ UNCHANGED <<adVars, versionVars, signalVars, decisionVars, bufferVars,
                tenantVars, sqlVars>>

AdvisoriesPart ==
  /\ part = "advisories" /\ AdvisoriesNext
  /\ UNCHANGED <<learningVars, versionVars, signalVars, decisionVars,
                bufferVars, tenantVars, sqlVars>>

VersionsPart ==
  /\ part = "versions" /\ VersionsNext
  /\ UNCHANGED <<learningVars, adVars, signalVars, decisionVars, bufferVars,
                tenantVars, sqlVars>>

SignalsPart ==
  /\ part = "signals" /\ SignalsNext
  /\ UNCHANGED <<learningVars, adVars, versionVars, decisionVars, bufferVars,
                tenantVars, sqlVars>>

DecisionPart ==
  /\ part = "decisions" /\ DecisionNext
  /\ UNCHANGED <<learningVars, adVars, versionVars, signalVars, bufferVars,
                tenantVars, sqlVars>>

BuffersPart ==
  /\ part = "buffers" /\ BuffersNext
  /\ UNCHANGED <<learningVars, adVars, versionVars, signalVars, decisionVars,
                tenantVars, sqlVars>>

TenantPart ==
  /\ part = "tenants" /\ TenantNext
  /\ UNCHANGED <<learningVars, adVars, versionVars, signalVars, decisionVars,
                bufferVars, sqlVars>>

SqlPart ==
  /\ part = "sqlite" /\ SqlNext
  /\ UNCHANGED <<learningVars, adVars, versionVars, signalVars, decisionVars,
                bufferVars, tenantVars>>

RecordsNext == LearningPart \/ AdvisoriesPart \/ VersionsPart \/
               SignalsPart \/ DecisionPart \/ BuffersPart \/ TenantPart \/
               SqlPart

\* Who gets in: admission, rate limits, request signatures, administrators, delegations.
accessPartVars == <<ingressVars, limiterVars, authVars, adminVars,
                    delegationVars>>

AccessInit ==
  /\ IngressInit
  /\ LimiterInit
  /\ AuthInit /\ (part # "auth" => auth_mode = "Hybrid")
  /\ AdminInit /\ (part # "admin" => admin_active = AdminUser)
  /\ DelegationInit

IngressPart ==
  /\ part = "ingress" /\ IngressNext
  /\ UNCHANGED <<limiterVars, authVars, adminVars, delegationVars>>

LimiterPart ==
  /\ part = "limiter" /\ LimiterNext
  /\ UNCHANGED <<ingressVars, authVars, adminVars, delegationVars>>

AuthPart ==
  /\ part = "auth" /\ AuthNext
  /\ UNCHANGED <<ingressVars, limiterVars, adminVars, delegationVars>>

AdminPart ==
  /\ part = "admin" /\ AdminNext
  /\ UNCHANGED <<ingressVars, limiterVars, authVars, delegationVars>>

DelegationPart ==
  /\ part = "delegation" /\ DelegationNext
  /\ UNCHANGED <<ingressVars, limiterVars, authVars, adminVars>>

AccessNext == IngressPart \/ LimiterPart \/ AuthPart \/ AdminPart \/
              DelegationPart

\* What agents may run: tool calls, tool patterns, the command line and kernel probes.
toolsPartVars == <<mcpVars, patternVars, cliCase, probeVars>>

ToolsInit ==
  /\ McpInit
  /\ ProbeInit /\ (part # "probes" => enforceDeny)

McpPart ==
  /\ part = "mcp" /\ McpNext
  /\ UNCHANGED <<patternVars, cliCase, probeVars>>

ProbePart ==
  /\ part = "probes" /\ ProbeNext
  /\ UNCHANGED <<mcpVars, patternVars, cliCase>>

ToolsNext == McpPart \/ ProbePart

\* What is agreed and kept as evidence.
ledgerPartVars == <<auditVars, merkleVars, votes, partitionVars, bridgeVars,
                    signingVars>>

LedgerInit ==
  /\ AuditInit
  /\ MerkleInit
  /\ VotesInit
  /\ PartitionInit
  /\ IF part = "bridge" THEN BridgeInit
     ELSE    /\ deployment = [size |-> 1, fail_open |-> FALSE, production |-> FALSE, ack |-> FALSE, regions |-> <<>>]
             /\ reply = [op |-> "none", high |-> FALSE, anomaly |-> FALSE, decision |-> "none", code |-> -1]
  /\ SigningInit /\ (part # "signing" => \A v \in Verifier : verifying[v] = CHOOSE r \in Response : TRUE)

AuditPart ==
  /\ part = "audit" /\ AuditNext
  /\ UNCHANGED <<merkleVars, votes, partitionVars, bridgeVars, signingVars>>

MerklePart ==
  /\ part = "merkle" /\ MerkleNext
  /\ UNCHANGED <<auditVars, votes, partitionVars, bridgeVars, signingVars>>

VotesPart ==
  /\ part = "votes" /\ VotesNext
  /\ UNCHANGED <<auditVars, merkleVars, partitionVars, bridgeVars, signingVars>>

PartitionPart ==
  /\ part = "partition" /\ PartitionNext
  /\ UNCHANGED <<auditVars, merkleVars, votes, bridgeVars, signingVars>>

BridgePart ==
  /\ part = "bridge" /\ BridgeNext
  /\ UNCHANGED <<auditVars, merkleVars, votes, partitionVars, signingVars>>

SigningPart ==
  /\ part = "signing" /\ SigningNext
  /\ UNCHANGED <<auditVars, merkleVars, votes, partitionVars, bridgeVars>>

LedgerNext == AuditPart \/ MerklePart \/ VotesPart \/ PartitionPart \/
              BridgePart \/ SigningPart

\* The rules and their delivery.
governancePartVars == <<ruleVars, breakerVars, policyVars, redisVars,
                        sidecarVars>>

GovernanceInit ==
  /\ PolicyInit /\ (part # "store" => livePolicy = 0)
  /\ RedisInit
  /\ SidecarInit /\ (part # "sidecar" => \A p \in Pod : template[p] = 1)

PolicyPart ==
  /\ part = "store" /\ PolicyNext
  /\ UNCHANGED <<ruleVars, breakerVars, redisVars, sidecarVars>>

RedisPart ==
  /\ part = "redis" /\ RedisNext
  /\ UNCHANGED <<ruleVars, breakerVars, policyVars, sidecarVars>>

SidecarPart ==
  /\ part = "sidecar" /\ SidecarNext
  /\ UNCHANGED <<ruleVars, breakerVars, policyVars, redisVars>>

GovernanceNext == PolicyPart \/ RedisPart \/ SidecarPart

\* The scores of a trace, a conversation and a goal.
cognitionPartVars == <<goalVars, convoVars, verdictVars, traceVars, calVars,
                       scoringVars, hnswVars>>

CognitionInit ==
  /\ GoalInit
  /\ ConvoInit /\ (part # "convo" => detector = "behavior")
  /\ CalInit /\ (part # "calibration" => attack_anchors = {})
  /\ IF part = "search" THEN SearchInit
     ELSE    /\ index = [refs |-> <<0>>, query |-> 0, k |-> 1, ef |-> 1, m |-> 1]
             /\ visited = {1} /\ candidates = <<1>> /\ todo = <<>> /\ results = <<>>

GoalPart ==
  /\ part = "goal" /\ GoalNext
  /\ UNCHANGED <<convoVars, verdictVars, traceVars, calVars, scoringVars,
                hnswVars>>

ConvoPart ==
  /\ part = "convo" /\ ConvoNext
  /\ UNCHANGED <<goalVars, verdictVars, traceVars, calVars, scoringVars,
                hnswVars>>

CalPart ==
  /\ part = "calibration" /\ CalNext
  /\ UNCHANGED <<goalVars, convoVars, verdictVars, traceVars, scoringVars,
                hnswVars>>

SearchPart ==
  /\ part = "search" /\ SearchNext
  /\ UNCHANGED <<goalVars, convoVars, verdictVars, traceVars, calVars,
                scoringVars>>

CognitionNext == GoalPart \/ ConvoPart \/ CalPart \/ SearchPart

\* Where the vectors come from.
embeddingPartVars == <<onnxVars, pipeVars, selectionVars, workerVars>>

EmbeddingInit ==
  /\ OnnxInit
  /\ PipeInit
  /\ WorkerInit /\ (part # "worker" => childDims = ExpectedDims)

OnnxPart ==
  /\ part = "onnx" /\ OnnxNext
  /\ UNCHANGED <<pipeVars, selectionVars, workerVars>>

PipePart ==
  /\ part = "pipeline" /\ PipeNext
  /\ UNCHANGED <<onnxVars, selectionVars, workerVars>>

WorkerPart ==
  /\ part = "worker" /\ WorkerNext
  /\ UNCHANGED <<onnxVars, pipeVars, selectionVars>>

EmbeddingNext == OnnxPart \/ PipePart \/ WorkerPart

\* Alerts and the measures of the service itself.
qualityPartVars == <<alertCase, samplerVars, slaVars, spcCase>>

QualityInit ==
  /\ SamplerInit /\ (part # "sampler" => samplerKind = "bandit")
  /\ SlaInit /\ (part # "sla" => slaKind = "rolling")

SamplerPart ==
  /\ part = "sampler" /\ SamplerNext
  /\ UNCHANGED <<alertCase, slaVars, spcCase>>

SlaPart ==
  /\ part = "sla" /\ SlaNext
  /\ UNCHANGED <<alertCase, samplerVars, spcCase>>

QualityNext == SamplerPart \/ SlaPart

-----------------------------------------------------------------------------
Parts == {"learning", "advisories", "versions", "signals", "decisions",
          "buffers", "tenants", "sqlite", "ingress", "limiter", "auth",
          "admin", "delegation", "mcp", "patterns", "cli", "probes", "audit",
          "merkle", "votes", "partition", "bridge", "signing", "rules",
          "breakers", "store", "redis", "sidecar", "goal", "convo", "verdict",
          "trace", "calibration", "drift", "search", "onnx", "pipeline",
          "selection", "worker", "alerts", "sampler", "sla", "control"}

\* The components of pure functions: their state is the case looked at.
CasesInit ==
  /\ IF part = "patterns" THEN PatternInit
     ELSE    /\ name = <<CHOOSE l \in Letter : TRUE>> /\ pattern = <<>>
             /\ inventory = InventoryAtRest
  /\ IF part = "cli" THEN CliInit
     ELSE    cliCase = CheckAtRest
  /\ IF part = "rules" THEN RulesInit
     ELSE    policyRules = <<>> /\ holding = {} /\ tooDeep = FALSE
  /\ IF part = "breakers" THEN BreakersInit
     ELSE    ctx = ContextAtRest
  /\ IF part = "verdict" THEN VerdictInit
     ELSE    evidence = EvidenceAtRest
  /\ IF part = "trace" THEN TraceInit
     ELSE    trace = <<>> /\ phrase = [words |-> 1, first |-> 1, last |-> 1] /\ turns = <<>>
  /\ IF part = "drift" THEN DriftInit
     ELSE    driftCase = [kind |-> "benign", scores |-> <<>>, low |-> 0, high |-> 0]
  /\ IF part = "selection" THEN SelectionInit
     ELSE    /\ embedEnv = [tier |-> "Developer", mode |-> "Local", production |-> FALSE,
                             standalone |-> FALSE, remote |-> FALSE, pinned |-> FALSE]
             /\ modelDirs = DirsAtRest
  /\ IF part = "alerts" THEN AlertInit
     ELSE    alertCase = [kind |-> "sustained", times |-> <<>>, window |-> 0, hits |-> 1]
  /\ IF part = "control" THEN SpcInit
     ELSE    spcCase = LimitAtRest

platformVars ==
  <<recordsPartVars, accessPartVars, toolsPartVars, ledgerPartVars,
    governancePartVars, cognitionPartVars, embeddingPartVars, qualityPartVars,
    part>>

PlatformInit ==
  /\ part \in Parts
  /\ RecordsInit /\ AccessInit /\ ToolsInit /\ LedgerInit /\ GovernanceInit
  /\ CognitionInit /\ EmbeddingInit /\ QualityInit /\ CasesInit

PlatformNext ==
  \/ /\ RecordsNext
     /\ UNCHANGED <<accessPartVars, toolsPartVars, ledgerPartVars,
                   governancePartVars, cognitionPartVars, embeddingPartVars,
                   qualityPartVars, part>>
  \/ /\ AccessNext
     /\ UNCHANGED <<recordsPartVars, toolsPartVars, ledgerPartVars,
                   governancePartVars, cognitionPartVars, embeddingPartVars,
                   qualityPartVars, part>>
  \/ /\ ToolsNext
     /\ UNCHANGED <<recordsPartVars, accessPartVars, ledgerPartVars,
                   governancePartVars, cognitionPartVars, embeddingPartVars,
                   qualityPartVars, part>>
  \/ /\ LedgerNext
     /\ UNCHANGED <<recordsPartVars, accessPartVars, toolsPartVars,
                   governancePartVars, cognitionPartVars, embeddingPartVars,
                   qualityPartVars, part>>
  \/ /\ GovernanceNext
     /\ UNCHANGED <<recordsPartVars, accessPartVars, toolsPartVars,
                   ledgerPartVars, cognitionPartVars, embeddingPartVars,
                   qualityPartVars, part>>
  \/ /\ CognitionNext
     /\ UNCHANGED <<recordsPartVars, accessPartVars, toolsPartVars,
                   ledgerPartVars, governancePartVars, embeddingPartVars,
                   qualityPartVars, part>>
  \/ /\ EmbeddingNext
     /\ UNCHANGED <<recordsPartVars, accessPartVars, toolsPartVars,
                   ledgerPartVars, governancePartVars, cognitionPartVars,
                   qualityPartVars, part>>
  \/ /\ QualityNext
     /\ UNCHANGED <<recordsPartVars, accessPartVars, toolsPartVars,
                   ledgerPartVars, governancePartVars, cognitionPartVars,
                   embeddingPartVars, part>>

PlatformSpec == PlatformInit /\ [][PlatformNext]_platformVars

(* Every component's variables keep the shapes its code declares: the step   *)
(* of a handler that leaves a row, a task or a counter malformed breaks it.  *)
PlatformTypeOK ==
  /\ part = "learning" => LearningTypeOK
  /\ part = "advisories" => AdvisoriesTypeOK
  /\ part = "signals" => SignalsTypeOK
  /\ part = "decisions" => DecisionTypeOK
  /\ part = "buffers" => BuffersTypeOK
  /\ part = "tenants" => TenantTypeOK
  /\ part = "ingress" => IngressTypeOK
  /\ part = "limiter" => LimiterTypeOK
  /\ part = "auth" => AuthTypeOK
  /\ part = "admin" => AdminTypeOK
  /\ part = "mcp" => McpTypeOK
  /\ part = "audit" => AuditTypeOK
  /\ part = "merkle" => MerkleTypeOK
  /\ part = "votes" => VotesTypeOK
  /\ part = "partition" => PartitionTypeOK
  /\ part = "bridge" => BridgeTypeOK
  /\ part = "signing" => SigningTypeOK
  /\ part = "goal" => GoalTypeOK

---------------------------------------------------------------------------
(* Properties of the component that runs.  A conjunct is defined, and        *)
(* explained, in the module of its component.                                *)

\* What is recorded is recorded once, whole and in order, whatever writes
\* overlap, fail or are cut off: the chain of decisions and its retries, what
\* hangs on a decision, telemetry and capability buffers, the audit log under
\* pruning, scans on Redis, the events of advisories, learned adjustments, and
\* the audit and review rows of tool calls.
RecordsExact ==
  /\ part = "decisions" =>
       /\ ChainUnbroken /\ OncePerDecision /\ ExtrasFollowDecision
  /\ part = "buffers" =>
       /\ PendingBelowBatch /\ TelemetryInOrder /\ EntriesAtMostOnce
  /\ part = "audit" =>
       /\ SettledEventsKept /\ AuditEventsOnce /\ LogWithinChain
       /\ QueryComplete
  /\ part = "redis" => TaskInOnePlace /\ GaugeWithinFaults /\ RetriesBounded
  /\ part = "advisories" => EventsIncrease /\ SkippedOnlyOvertaken
  /\ part = "sqlite" => UpsertReturnsOwnId /\ AdjustmentsTraceable
  /\ part = "mcp" =>
       /\ SilentAllowAudited /\ ContainedIsAudited /\ QuarantineReviewed

\* Evidence vouches for what it names and for nothing else: Merkle proofs and
\* roots for their leaves and their day, a verified root for witnesses that
\* differ, a signature for the key it names while keys rotate, a chain of
\* delegations for authority that was really handed on.
EvidenceBinds ==
  /\ part = "merkle" =>
       /\ ProofsBindLeaves /\ RootBindsLeaves /\ TreeHoldsItsDay
       /\ VerifiedRootWitnessed /\ QueryValueNotOlder
  /\ part = "signing" => SignaturesNameTheirKey
  /\ part = "delegation" => AuthorityFlows /\ ValidOnlyAsIssued

\* No interleaving exceeds or leaks a limit: the counter and the semaphore of
\* the gate, the token buckets over any second, transfers of one agent to one
\* recipient, the caches of vectors and the order they evict in, the bounds of
\* sampling rates and the window of response times.
LimitsHold ==
  /\ part = "ingress" => GateBalanced
  /\ part = "limiter" => RateBounded
  /\ part = "signals" => SharedRecipientBounded
  /\ part = "onnx" => OnnxCacheBounded
  /\ part = "pipeline" => CacheOrderExact
  /\ part = "sampler" => RatesWithinBounds
  /\ part = "sla" => RollingWithinWindow

\* Nothing takes effect without what authorises it, also when steps of several
\* actors interleave: sessions of administrators end, high-stakes transactions
\* pass the quorum gate and only one side of a partition, a tenant searches its
\* own rows, a policy was staged and a promoted version is close to its
\* baseline, overlays and statuses agree with what was decided, and checks that
\* cannot be made refuse.
AuthorityHolds ==
  /\ part = "admin" => AdminPowerExpires
  /\ part = "bridge" => HighStakesGuarded
  /\ part = "partition" => NoSplitBrain
  /\ part = "tenants" => SearchSeesOwnTenant
  /\ part = "store" => ProdWasStaged
  /\ part = "versions" => PromotedIsClose
  /\ part = "learning" => OverlayOnlyListed /\ AppliedInForce
  /\ part = "cli" => CheckFailsClosed
  /\ part = "probes" => EnforcementIsBacked /\ BlockedStaysBlocked
  /\ part = "selection" => NoSilentDowngrade /\ PinnedModelServed
  /\ part = "sidecar" => OneSidecar /\ CountedPodsManaged

\* What is kept for later use still belongs to what it is used for: vectors to
\* their texts, answers of the child process to their requests, percentiles and
\* floors to the references in force, snapshots to the policy of their
\* generation, windows and baselines to the goal and the actions they were
\* taken for, a fitted model to its in-flight mark.
CachesTruthful ==
  /\ part = "onnx" => VectorsBelongToTexts
  /\ part = "pipeline" => PipelineVectorsOwn
  /\ part = "worker" => WorkerAnswersOwn /\ RequestsKeepChildAlive
  /\ part = "calibration" => PercentilesMatchRefs /\ FloorCoversAnchors
  /\ part = "store" => SnapshotsTruthful
  /\ part = "versions" => SnapshotNumbersDistinct
  /\ part = "goal" =>
       /\ WindowScoresDeclaredGoal /\ BaselineIsFirstActions
       /\ StatusAgreesWithVerdict
  /\ part = "signals" => OneFitWhileMarked

\* More evidence never yields a milder verdict and less never a harsher one:
\* in the cognitive monitor and its triage, the tiers of alerts, scans of tool
\* servers, inventories that approve tools by pattern, drift scores and the
\* decisions on them, control charts, breakers that lack their input, and
\* conversations that escalate late or drift slowly.
VerdictsMonotone ==
  /\ part = "verdict" =>
       /\ EvidenceIsMonotone /\ ContextOnlySoftens /\ ResearchNeverHalts
       /\ TriageReachesHalts
  /\ part = "alerts" => TierIsMonotone
  /\ part = "cli" => ScanIsMonotone
  /\ part = "patterns" => LiteApprovesNoMore
  /\ part = "drift" =>
       /\ DriftFollowsDistance /\ DenserNeverFurther /\ DecisionFollowsScore
  /\ part = "control" => FurtherIsWorse
  /\ part = "breakers" => AbsenceNeverDenies /\ AllImpliesAny /\ JsonbNoLaxer
  /\ part = "trace" => LateTurnEscalates
  /\ part = "convo" => SlowDriftIsCaught /\ DriftIsForgotten

\* The pure algorithms compute what their definitions say, against reference
\* definitions over bounded inputs: wildcards, the order of dependent rules,
\* shadow evaluation and conflicts, thresholds, sustained alerts, arms,
\* percentiles, the distance of two samples and their bins, the search for
\* neighbours, the inverse of a calibration, and the clean-up of a trace.
AlgorithmsExact ==
  /\ part = "patterns" => WildcardIsGlob
  /\ part = "rules" =>
       /\ SortedByDependency /\ ShadowPredictsEnforcement /\ ConflictsBlock
  /\ part = "alerts" => ThresholdIsOptimal /\ SustainedMeansWindow
  /\ part = "sampler" => BestArmIsBest
  /\ part = "sla" => PercentilesOrdered /\ BestPrecisionReported
  /\ part = "control" => KsIsSupremum /\ BinsEncloseSamples
  /\ part = "search" => ExactWhileLinked /\ NeverUnderestimates
  /\ part = "drift" => InverseNeverBelow
  /\ part = "trace" =>
       /\ DisguiseIsRemoved /\ SpacedWordsRestored /\ PhraseInOneWindow

\* No step takes a decision back: a reviewed recommendation stays decided, in
\* memory and on disk, an outcome of a vote is final, an acknowledged reload
\* keeps its row, a promotion never goes back a version, and an optimisation
\* never samples a stratum less that shows anomalies.
DecisionsStick ==
  [][/\ DecidedStaysDecided /\ DecisionsDurable /\ DecisionFinal
     /\ ReloadNotOverwritten /\ NoDowngrade /\ AnomaliesRaiseRate]_platformVars

\* No step lets in what the state before it excludes: a request beyond the
\* limit it read, a message whose nonce was served within its lifetime, an
\* envelope that was accepted within its own.
AdmittedOnce ==
  [][/\ AdmissionWithinLimit /\ NonceOncePerTtl /\ ReplayRefused]_platformVars
=============================================================================
