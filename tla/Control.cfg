\* Hot reload, rollout, audit sinks and the scan queue, one at a time.
SPECIFICATION ControlSpec
CONSTANTS
  Policy = {p1, p2}
  Broken = {p2}
  Reader = {r1, r2}
  Pusher = {c1}
  SignFirst = TRUE
  Tries = 2
  MaxEdits = 1
  NoPolicy = NoPolicy
  d1 = d1
  d2 = d2
  d3 = d3
  s1 = s1
  Pod = {d1, d2, d3}
  PolicySet = {s1}
  Rules = {t1, t2}
  Matches <- MCMatches
  OwnRules = OwnRules
  EmptyText = EmptyText
  NoText = NoText
  MaxChanges = 1
  MaxRestarts = 1
  k1 = k1
  k2 = k2
  k3 = k3
  Task = {k1, k2, k3}
  Worker = {w1, w2}
  Priority <- MCPriority
  HasTtl = {k1, k2}
  Cap = 1
  MaxAttempts = 1
  NoTask = NoTask
  SinkFaults = 1
  SinkEdits = 2
INVARIANTS
  ControlTypeOK
  FreshRules
  NewestCached
  
  PendingExact
  SettledOnce
  SinkHonest
PROPERTIES
  LatestLoaded
  RolloutConverges
  EveryScanSettles
  SinkConverges
CHECK_DEADLOCK FALSE
