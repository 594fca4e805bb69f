SPECIFICATION FairSpec

CONSTANTS
  Callers = {caller1, caller2}
  Nobody = nobody
  Ttl = 1
  Lease = 3
  RefreshTimeout = 1
  MaxWait = 3
  AnswerLag = 1
  StartBy = 3
  MaxTime = 6

CHECK_DEADLOCK FALSE
INVARIANTS
  OneFetch
PROPERTIES
  NoOlderOverwrite
  FollowersConsume
  CallsEnd
