\* The components that share no state, one at a time, on small instances.
SPECIFICATION PlatformSpec
CONSTANTS
  \* Learning
  Tx = {t1}
  Key = {k1}
  ValidKey = {k1}
  KeyOf <- MCKeyOf
  Agent = {a1}
  Variant = {v1}
  Reviewer = {r1, r2}
  Admin = {r1, r2}
  NoVariant = NoVariant
  NoRec = NoRec
  MinSample = 1
  DefaultLevel = 1
  MaxLevel = 1
  MaxRecs = 1
  MaxVerdicts = 1
  MaxDisturbed = 1
  PatchLevel = {0}
  \* RiskSignals: advisories
  AdvAgent = {a1, a2}
  Publisher = {p1, p2}
  MaxAdvisories = 3
  MaxSseEvents = 2
  \* AgentVersions
  Cases = 20
  NoValue = NoValue
  Submitter = {s1, s2}
  Embedding = {"none", "zero", "x", "y", "z"}
  Similarity <- MCSimilarity
  Snapshot <- MCSnapshot
  Proposal <- MCProposal
  SessionGoal <- MCSessionGoal
  LineageCap = 1
  MaxSubmissions = 3
  MaxNumber = 1
  \* RiskSignals: signals of transfers
  SigAgent = {a1, a2}
  Recipient = {r1}
  Amount = {2}
  MaxTotal = 4
  Window = 2
  MinFeatures = 2
  RetrainEvery = 1
  MaxObserved = 2
  MaxClock = 2
  \* DecisionStore
  Dec = {d1, d2}
  OrgOf <- MCOrgOf
  DefaultOrg = o1
  NoOrg = NoOrg
  Drifting = {d1}
  Genesis = g0
  MaxAttempts = 2
  \* WriteBuffers
  QueueCapacity = 1
  BatchSize = 2
  MaxRecords = 3
  MaxEntries = 2
  \* TenantDb
  Conn = {c1, c2}
  Org = {o1, o2}
  Searcher = {s1}
  Reloader = {r1, r2}
  PolicyName = {p1}
  NoOrgSet = NoOrgSet
  NoConn = NoConn
  MaxReloads = 2
  \* SqliteStore
  SqlCaller = {c1, c2}
  RecKey = {k1, k2}
  MaxRecRows = 2
  MaxAdjustments = 2
  MaxSqlCalls = 4
  MaxSqlRestarts = 1
  NoRow = 0
  \* Admission: the gate
  Request = {r1, r2, r3}
  Permits = 2
  Floor = 1
  BreachTicks = 1
  \* Admission: token buckets
  GlobalBucket = g
  IpBucket = {i1}
  LoginBucket = {l1}
  KeyBucket = {k1}
  NoKey = NoKey
  NoBucket = NoBucket
  Capacity <- MCCapacity
  RefillRate <- MCRefillRate
  TicksPerSec = 2
  StaleSecs = 2
  MaxTime = 4
  \* Authentication: requests
  Call = {q1, q2}
  Message <- MCMessage
  SigMaxAge = 3
  NonceTtl = 3
  NonceSweep = 1
  MaxNonces = 2
  MaxNow = 4
  \* Authentication: administrators
  NoAgent = NoAgent
  AdminUser = {ad}
  RegAgent = {ag}
  SessionExpiry = 1
  Leeway = 1
  MaxHours = 4
  AdminHeaders <- MCAdminHeaders
  \* Signing: delegation
  Delegator = {a1, a2}
  DelegationScope = {s1}
  Ttls = {1}
  MaxDepth = 3
  LastDay = 1
  \* McpGuard
  Inspection = {i1, i2}
  ToolCall <- MCToolCall
  Unapproved = {}
  Poisoned = {"exec"}
  PolicyOn <- MCPolicyOn
  Exfiltration = {"exec"}
  DataAccess = {"read"}
  MinBaseline = 1
  Hour = 2
  Day = 2
  CorrelationWindow = 1
  CacheTtl = 1
  MaxRows = 2
  MaxMinutes = 1
  \* ToolChecks: patterns
  Letter = {a, b}
  Star = Star
  MaxName = 3
  MaxPattern = 3
  \* ToolChecks: command line
  CliTool = {u1, u2}
  MaxMatches = 1
  \* ProbeManager
  Syscalls <- MCSyscalls
  CommNames <- MCCommNames
  CommLength = 2
  MaxStarts = 3
  \* AuditLog
  AuditEvent = {e1, e2}
  Retention = 1
  MaxAuditTime = 1
  MaxAuditLines = 3
  MaxAnswer = 2
  MaxRestarts = 1
  \* MerkleLog
  Witness = {w1, w2}
  Outsider = {w3}
  WitnessThreshold = 2
  MaxLeaves = 4
  MaxDay = 2
  MaxSignatures = 2
  \* HighStakes: votes
  Member = {n1, n2, n3, n4}
  Quorum = 3
  \* HighStakes: partition detector
  Peer = {n1, n2, n3}
  PeerQuorum = 2
  PeerTimeout = 2
  \* HighStakes: bridge
  Region = {ra, rb}
  MinValidators = 3
  MinRegions = 2
  \* Signing: responses
  Response = {r1, r2}
  Verifier = {v1, v2}
  MaxRotations = 1
  SigningNonceTtl = 1
  MaxSigningTime = 1
  \* Policies
  RuleCondition = {c1, c2}
  MaxRules = 3
  MaxEvaluated = 2
  Absent = Absent
  \* PolicyStore
  Operator = {o1, o2}
  MaxVersion = 1
  HistoryLimit = 2
  MaxGeneration = 3
  \* RedisScanQueue
  DeepTask = {"t1", "t2"}
  PriorityOf <- MCPriorityOf
  QueueClient = {c1, c2}
  MaxScanAttempts = 1
  MaxFaults = 1
  \* SidecarInjection
  Pod = {p1, p2}
  MaxPolicy = 2
  MaxChurn = 4
  \* SessionDrift: goals
  GoalTopic = {"p", "q"}
  DriftCall = {d1, d2}
  DriftCapacity = 2
  BaselineActions = 2
  MinWindow = 2
  MaxActions = 4
  \* SessionDrift: conversations
  ConvoTopic = {"p", "q"}
  BaselineSize = 4
  ConvoWindow = 3
  MaxConversations = 11
  \* CognitiveMonitor: verdict
  Similarities = {0, 1000}
  PatternScores = {0, 710, 1000}
  Percentiles = {900, 1000}
  ResearchScores = {0, 4}
  IntentScores = {0, 2}
  CueCounts = {0, 4}
  \* CognitiveMonitor: trace
  MaxChars = 5
  MaxWords = 26
  MaxTurns = 4
  \* DriftDetectors: calibration
  Sample = {s1, s2}
  Anchor = {k1, k2}
  CalThread = {t1, t2}
  MinSamples = 2
  MaxHistory = 2
  None = None
  \* DriftDetectors: scores
  Places = {0, 1, 3}
  MaxRefs = 4
  MaxBenign = 5
  DriftKs = {0, 1, 3}
  KValues <- MCKValues
  MinRefs = 3
  One = 2
  Ranks = {100, 254, 255, 500, 900, 995, 999}
  \* DriftDetectors: search
  Points = {0, 1, 3}
  MaxPoints = 4
  Ks = {2}
  Efs = {1, 5}
  Links = {1, 3}
  \* EmbeddingCaches: local model
  EmbedText = {a, b}
  EmbedCaller = {c1, c2}
  OnnxCapacity = 1
  MaxFailures = 1
  Zero = Zero
  \* EmbeddingCaches: pipeline
  PipeText = {a, b}
  PipeCall = {p1, p2}
  CacheCapacity = 2
  \* EmbeddingModels: child process
  WorkerCaller = {c1, c2}
  WorkerText = {1, 2}
  Dims = {1, 2}
  ExpectedDims = 2
  MaxWorkerCalls = 3
  \* Operations: alerts
  Risks = {30, 50, 70, 85, 100, 120}
  Consensus = {0, 60, 75, 90}
  Hits = {0, 2, 3, 4}
  Scores = {1, 2, 3}
  MaxScores = 4
  FprTargets = {10, 50, 100}
  Times = {0, 1, 2, 3, 5}
  MaxAlerts = 4
  \* Operations: sampling
  Stratum = {"critical", "low"}
  CustomRates = {0, 2000000}
  RateBounds <- MCRateBounds
  SampleLimits = {2, 41}
  MaxOptimise = 2
  Arms = 3
  Rewards = {0, 1, 2}
  MaxPulls = 2
  \* Operations: service levels
  Latencies = {10, 45}
  Severities = {"critical", "low"}
  MaxSlaRecords = 2
  Matrices <- MCMatrices
  SlaWindow = 2
  MaxSlaTime = 6
  MaxSteps = 3
  \* Operations: process control
  SampleValues = {1, 2, 4}
  MaxSample = 3
  BinCounts = {2, 3}
  Deviations = {0, 5, 9, 14, 18}
INVARIANTS
  PlatformTypeOK
  
  
  
  
  
  
  
PROPERTIES
  
  AdmittedOnce
CHECK_DEADLOCK FALSE
