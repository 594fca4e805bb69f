SPECIFICATION PSpec

CONSTANTS
  server1 = server1
  server2 = server2
  video1 = video1
  Procs = {server1, server2}
  Videos = {video1}
  None = none
  Requests = {"captured"}
  MaxSaves = 3
  MaxFaults = 2

CHECK_DEADLOCK FALSE
PROPERTIES
  LiveLockKept
