\* Two pods, one PolicySet; no restarts are needed.
SPECIFICATION RolloutSpec
CONSTANTS
  Pod = {d1, d2}
  PolicySet = {s1}
  Rules = {t1}
  Matches <- EveryPodMatches
  OwnRules = OwnRules
  EmptyText = EmptyText
  NoText = NoText
  MaxChanges = 0
  MaxRestarts = 0
PROPERTY ActiveCountHonest
CHECK_DEADLOCK FALSE
