\* The rules file is written before its signature.
SPECIFICATION ReloadSpec
CONSTANTS
  Policy = {p1, p2}
  Broken = {}
  Reader = {r1}
  Pusher = {}
  SignFirst = FALSE
  Tries = 6
  MaxEdits = 1
  NoPolicy = NoPolicy
PROPERTY LatestLoaded
CHECK_DEADLOCK FALSE
