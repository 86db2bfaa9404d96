--------------------------- MODULE PlatformProofs ---------------------------
(***************************************************************************)
(* Proofs about the platform: the components proved one by one keep what   *)
(* they promise when they run inside the whole.  A step of the platform is *)
(* a step of one component and leaves the variables of the others alone,   *)
(* so every behaviour of the platform is a behaviour of each component.    *)
(***************************************************************************)
EXTENDS MCPlatform, ServiceProofs, RecordsProofs

\* Zenon proves the leaves that name no other prover.
USE Zenon

-----------------------------------------------------------------------------
(* A step of the platform, seen by a component. *)

(* The gate, authentication and the administrators. *)
LEMMA AccessSteps ==
    ASSUME [PlatformNext]_platformVars
    PROVE  [IngressNext]_ingressVars /\ [AuthNext]_authVars /\ [AdminNext]_adminVars
  BY DEF PlatformNext, platformVars, accessPartVars, AccessNext, IngressPart, LimiterPart, AuthPart, AdminPart,
         DelegationPart

(* What is written to the stores. *)
LEMMA RecordsSteps ==
    ASSUME [PlatformNext]_platformVars
    PROVE  [LearningNext]_learningVars /\ [TenantNext]_tenantVars /\ [SqlNext]_sqlVars /\ [VersionsNext]_versionVars
  BY DEF PlatformNext, platformVars, recordsPartVars, RecordsNext, LearningPart, AdvisoriesPart, VersionsPart,
         SignalsPart, DecisionPart, BuffersPart, TenantPart, SqlPart

(* Votes, partitions, the bridge and signatures. *)
LEMMA LedgerSteps ==
    ASSUME [PlatformNext]_platformVars
    PROVE  [VotesNext]_votes /\ [PartitionNext]_partitionVars /\ [BridgeNext]_bridgeVars /\ [SigningNext]_signingVars
  BY DEF PlatformNext, platformVars, ledgerPartVars, LedgerNext, AuditPart, MerklePart, VotesPart, PartitionPart,
         BridgePart, SigningPart

(* The policy store and the sidecars. *)
LEMMA GovernanceSteps ==
    ASSUME [PlatformNext]_platformVars
    PROVE  [PolicyNext]_policyVars /\ [SidecarNext]_sidecarVars
  BY DEF PlatformNext, platformVars, governancePartVars, GovernanceNext, PolicyPart, RedisPart, SidecarPart

(* The probes, and the case of the command line. *)
LEMMA ToolsSteps ==
    ASSUME [PlatformNext]_platformVars
    PROVE  [ProbeNext]_probeVars /\ UNCHANGED cliCase
  BY DEF PlatformNext, platformVars, toolsPartVars, ToolsNext, McpPart, ProbePart

(* The choice of the embedding model. *)
LEMMA EmbeddingSteps ==
    ASSUME [PlatformNext]_platformVars
    PROVE  UNCHANGED selectionVars
  BY DEF PlatformNext, platformVars, embeddingPartVars, EmbeddingNext, OnnxPart, PipePart, WorkerPart

(* The samplers. *)
LEMMA QualitySteps ==
    ASSUME [PlatformNext]_platformVars
    PROVE  [SamplerNext]_samplerVars
  BY DEF PlatformNext, platformVars, qualityPartVars, QualityNext, SamplerPart, SlaPart

(* Behind one server the components do not disturb each other: what the     *)
(* whole does is, for each of them, a behaviour of its own specification.   *)
THEOREM ComponentsKept ==
  PlatformSpec => /\ IngressSpec /\ AuthSpec /\ AdminSpec
                  /\ LearningSpec /\ TenantSpec /\ SqlSpec /\ VersionsSpec
                  /\ VotesSpec /\ PartitionSpec /\ SigningSpec
                  /\ PolicySpec /\ SidecarSpec /\ ProbeSpec /\ SamplerSpec
<1>1. PlatformInit => /\ IngressInit /\ AuthInit /\ AdminInit
                      /\ LearningInit /\ TenantInit /\ SqlInit /\ VersionsInit
                      /\ VotesInit /\ PartitionInit /\ SigningInit
                      /\ PolicyInit /\ SidecarInit /\ ProbeInit /\ SamplerInit
  BY DEF PlatformInit, AccessInit, RecordsInit, LedgerInit, GovernanceInit, ToolsInit, QualityInit
<1>2. [PlatformNext]_platformVars =>
        /\ [IngressNext]_ingressVars /\ [AuthNext]_authVars /\ [AdminNext]_adminVars
        /\ [LearningNext]_learningVars /\ [TenantNext]_tenantVars /\ [SqlNext]_sqlVars /\ [VersionsNext]_versionVars
        /\ [VotesNext]_votes /\ [PartitionNext]_partitionVars /\ [SigningNext]_signingVars
        /\ [PolicyNext]_policyVars /\ [SidecarNext]_sidecarVars /\ [ProbeNext]_probeVars /\ [SamplerNext]_samplerVars
  BY AccessSteps, RecordsSteps, LedgerSteps, GovernanceSteps, ToolsSteps, QualitySteps
<1>3. QED
  BY <1>1, <1>2, PTL
  DEF PlatformSpec, IngressSpec, AuthSpec, AdminSpec, LearningSpec, TenantSpec, SqlSpec, VersionsSpec,
      VotesSpec, PartitionSpec, SigningSpec, PolicySpec, SidecarSpec, ProbeSpec, SamplerSpec

(* In the whole server, no request is let in beyond the limit it read, no   *)
(* message whose nonce was served within its lifetime, and no envelope that *)
(* was accepted within its own.                                             *)
THEOREM PlatformAdmitsOnce == PlatformSpec => AdmittedOnce
<1>1. [AdmissionWithinLimit]_ingressVars => AdmissionWithinLimit
  BY DEF AdmissionWithinLimit
<1>2. [NonceOncePerTtl]_authVars => NonceOncePerTtl
  BY DEF NonceOncePerTtl
<1>3. [ReplayRefused]_signingVars => ReplayRefused
  BY DEF ReplayRefused
<1>4. QED
  BY <1>1, <1>2, <1>3, ComponentsKept, AdmissionIsBounded, NoncesServedOnce, ReplaysAreRefused, PTL
  DEF AdmittedOnce

(* In the whole server, what was decided stays decided: the status of a     *)
(* recommendation, the rows that an SQLite file holds, the outcome of a     *)
(* vote, the policy versions of a tenant, the order of promotions and the   *)
(* sampling rate of an anomalous stratum.                                   *)
THEOREM PlatformDecisionsStick == PlatformSpec => DecisionsStick
<1>1. [DecidedStaysDecided]_learningVars => DecidedStaysDecided
  BY DEF DecidedStaysDecided
<1>2. [DecisionsDurable]_sqlVars => DecisionsDurable
  BY DEF DecisionsDurable
<1>3. [DecisionFinal]_votes => DecisionFinal
  BY DEF DecisionFinal
<1>4. [ReloadNotOverwritten]_tenantVars => ReloadNotOverwritten
  BY DEF ReloadNotOverwritten
<1>5. [NoDowngrade]_policyVars => NoDowngrade
  BY DEF NoDowngrade
<1>6. [AnomaliesRaiseRate]_samplerVars => AnomaliesRaiseRate
  BY DEF AnomaliesRaiseRate
<1>7. QED
  BY <1>1, <1>2, <1>3, <1>4, <1>5, <1>6, ComponentsKept, DecisionsStay, TablesAreDurable,
     OutcomeFinal, ReloadsKeepRows, PromotionsGoUp, AnomalousRatesGoUp, PTL
  DEF DecisionsStick

-----------------------------------------------------------------------------
(* What takes effect was authorised. *)

(* The command line lets a tool through only when a baseline approves it or *)
(* none was given and failing open was asked for.                           *)
LEMMA CliFailsClosed == ASSUME cliCase \in ScanCase \cup CheckCase PROVE CheckFailsClosed
<1> SUFFICES ASSUME cliCase.kind = "check", check_exit(cliCase) = 0
             PROVE  /\ \/ cliCase.baseline.file = "read" /\ is_tool_approved(cliCase.baseline, cliCase.name)
                       \/ cliCase.baseline.file = NoBaseline /\ cliCase.failOpen
                    /\ check_handler(cliCase) = 200
                    /\ scan_issues(NoServer, cliCase.name, cliCase.baseline).medium = 0
  BY DEF CheckFailsClosed
<1>1. check_tool(cliCase) = "allow"
  BY SMT DEF check_exit
<1>2. check_issues(cliCase) = {} /\ cliCase.baseline.file # Broken
  BY SMT, <1>1 DEF check_tool
<1>3. cliCase.baseline.file = "read" => is_tool_approved(cliCase.baseline, cliCase.name)
  BY <1>2 DEF check_issues
<1>4. cliCase.baseline.file = NoBaseline => cliCase.failOpen
  BY <1>2 DEF check_issues
<1>5. cliCase.baseline \in Baseline
  BY DEF ScanCase, CheckCase
<1>6. cliCase.baseline.file \in {NoBaseline, Broken, "read"}
  <2>1. CASE cliCase.baseline \in {[file |-> NoBaseline, tools |-> {}, orgTools |-> {}],
                                  [file |-> Broken, tools |-> {}, orgTools |-> {}]}
    <3>1. PICK f \in {NoBaseline, Broken} : cliCase.baseline = [file |-> f, tools |-> {}, orgTools |-> {}]
      BY <2>1
    <3>2. cliCase.baseline.file = f
      BY SMT, <3>1
    <3>3. QED
      BY <3>2
  <2>2. CASE cliCase.baseline \in [file : {"read"}, tools : SUBSET CliTool, orgTools : SUBSET CliTool]
    BY <2>2
  <2>3. QED
    BY <1>5, <2>1, <2>2 DEF Baseline
<1>7. check_handler(cliCase) = 200
  BY SMT, <1>1 DEF check_handler
<1>8. scan_issues(NoServer, cliCase.name, cliCase.baseline).medium = 0
  BY <1>3 DEF scan_issues
<1>9. QED
  BY <1>2, <1>3, <1>4, <1>6, <1>7, <1>8

\* The components that the whole starts in their own way only when they run.
RunningInv ==
  /\ part = "bridge" => BridgeInv
  /\ part = "cli" => cliCase \in ScanCase \cup CheckCase
  /\ part = "selection" => SelectionCase

(* The running component starts as its own specification says. *)
LEMMA InitialRunning == ASSUME PlatformInit PROVE RunningInv
<1>1. part = "bridge" => BridgeInv
  BY InitialBridge DEF PlatformInit, LedgerInit
<1>2. part = "cli" => cliCase \in ScanCase \cup CheckCase
  BY DEF PlatformInit, CasesInit, CliInit
<1>3. part = "selection" => SelectionCase
  BY SelectionStarts DEF PlatformInit, CasesInit
<1>4. QED
  BY <1>1, <1>2, <1>3 DEF RunningInv

(* No component takes the place of the one that runs, or disturbs it. *)
LEMMA RunningStep == ASSUME RunningInv, [PlatformNext]_platformVars PROVE RunningInv'
<1>1. part' = part
  BY DEF PlatformNext, platformVars
<1>2. part' = "bridge" => BridgeInv'
  BY <1>1, LedgerSteps, BridgeStep DEF RunningInv
<1>3. part' = "cli" => cliCase' \in ScanCase \cup CheckCase
  BY <1>1, ToolsSteps DEF RunningInv
<1>4. part' = "selection" => SelectionCase'
  BY <1>1, EmbeddingSteps DEF RunningInv, SelectionCase, selectionVars
<1>5. QED
  BY <1>2, <1>3, <1>4 DEF RunningInv

(* In the whole server, nothing takes effect without what authorises it:    *)
(* sessions of administrators end, a high-stakes transaction passes the     *)
(* quorum gate and only one side of a partition, a tenant searches its own  *)
(* rows, a policy was staged, a promoted version is close to its baseline,  *)
(* overlays and statuses agree with what was decided, and checks that       *)
(* cannot be made refuse.                                                   *)
THEOREM PlatformKeepsAuthority == PlatformSpec => []AuthorityHolds
<1>1. PlatformInit => RunningInv
  BY InitialRunning
<1>2. RunningInv /\ [PlatformNext]_platformVars => RunningInv'
  BY RunningStep
<1>3. RunningInv => /\ part = "bridge" => HighStakesGuarded
                    /\ part = "cli" => CheckFailsClosed
                    /\ part = "selection" => NoSilentDowngrade /\ PinnedModelServed
  BY CliFailsClosed, SelectionIsSound DEF RunningInv, BridgeInv
<1>4. /\ RunningInv /\ AdminPowerExpires /\ NoSplitBrain /\ SearchSeesOwnTenant /\ ProdWasStaged /\ PromotedIsClose
      /\ OverlayOnlyListed /\ AppliedInForce /\ EnforcementIsBacked /\ BlockedStaysBlocked
      /\ OneSidecar /\ CountedPodsManaged
      => AuthorityHolds
  BY <1>3 DEF AuthorityHolds
<1>5. PlatformSpec => []RunningInv
  BY <1>1, <1>2, PTL DEF PlatformSpec
<1>6. QED
  BY <1>4, <1>5, ComponentsKept, AdminPowersEnd, OneSideWrites, SearchesStayInTenant, ProdIsStaged,
     PromotionsAreClose, OverlaysAreListed, AppliedIsInForce, EnforcementHolds, SidecarsAreManaged, PTL
=============================================================================
