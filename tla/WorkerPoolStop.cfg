SPECIFICATION Spec
CONSTANTS
  g1 = g1  g2 = g2  s1 = s1  s2 = s2
  Server = {s1}
  Goroutine = {g1, g2}
  ServerOf <- OneServer
  Type = {"extraction", "chunking"}
  MaxJobs = 2
  MaxFaults = 0
  MaxRestarts = 0
  None = None
PROPERTY InFlightJobsFinish
CHECK_DEADLOCK FALSE
