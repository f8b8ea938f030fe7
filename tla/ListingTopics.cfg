SPECIFICATION Spec
CONSTANTS
  d1 = d1  d2 = d2  d3 = d3
  Principal = {p1, p2}
  Scope = {s}
  Fact = {f1, f2}
  Memory = {m1, m2}
  Job = {}
  Worker = {w1, w2}
  Call = {q}
  MaxFaults = 1
  None = None
  Doc = {d1, d2}
  LastJob = 3
  Scopes <- TwoTopics
  PageSizes = {1}
  Nothing = Nothing
  MaxLen = 0
  MaxSize = 5
  DefaultChunkSize = 3
  ConfigID = {i1}
  BackendType = {ty}
  Instance = {b1}
  Goroutine = {g1}
  NoBackend = NoBackend
INVARIANT WalkIsComplete
CHECK_DEADLOCK FALSE
