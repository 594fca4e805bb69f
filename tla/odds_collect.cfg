SPECIFICATION FairSpec

CONSTANTS
  run1 = run1
  run2 = run2
  game1 = game1
  game2 = game2
  pilot1 = pilot1
  priority1 = priority1
  Runs = {run1, run2}
  Nobody = nobody
  Events = {game1, game2}
  NoEvent = noevent
  Sundays = {game1, game2}
  KickoffTimes <- MCKickoffTimes
  TargetStart <- MCTargetStart
  Override <- MCOverride
  Checkpoints = {pilot1, priority1}
  EventOf <- MCEventOf
  Pilot = {pilot1}
  Before <- MCBefore
  Until <- MCUntil
  Rank <- MCRank
  Cost <- MCCost
  MaxAttempts = 2
  Lease = 1
  ClaimLimit = 2
  RequestTimeout = 1
  RetryDelay = 1
  Reserve = 1
  Listings = {{game1, game2}, {}}
  Quotas = {4}
  Unknown = unknown
  MaxTime = 3

CHECK_DEADLOCK FALSE
INVARIANTS
  FetchesBounded
  OneRunningLease
  CapturedInWindow
PROPERTIES
  FinishedIsFinal
  PinHeld
  CheckpointsSettle
