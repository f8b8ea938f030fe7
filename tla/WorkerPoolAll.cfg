SPECIFICATION FairSpec
CONSTANTS
  g1 = g1  g2 = g2  s1 = s1  s2 = s2
  Server = {s1, s2}
  Goroutine = {g1, g2}
  ServerOf <- TwoServers
  Type = {"extraction"}
  MaxJobs = 2
  MaxFaults = 1
  MaxRestarts = 1
  None = None
INVARIANTS TypeOK ExclusiveProcessing HeldJobIsRunning
PROPERTIES ImplementsQueue EveryJobIsTaken EveryJobEnds StopEnds
CHECK_DEADLOCK FALSE
