SPECIFICATION Spec
CONSTANTS
  d1 = d1  d2 = d2  d3 = d3
  Principal = {p1, p2}
  Scope = {s}
  Fact = {f1, f2}
  Memory = {m1, m2}
  Job = {j1, j2, j3}
  Worker = {w1, w2}
  Call = {q}
  MaxFaults = 1
  None = None
  Doc = {d1, d2}
  LastJob = 4
  Scopes <- OneTopic
  PageSizes = {1, 2}
  Nothing = Nothing
  MaxLen = 12
  MaxSize = 5
  DefaultChunkSize = 3
  ConfigID = {i1}
  BackendType = {ty}
  Instance = {b1, b2, b3}
  Goroutine = {g1, g2}
  NoBackend = NoBackend
SYMMETRY Symmetric
INVARIANTS TypeOK MemoriesAreOwn MessagesAreExtracted WalkIsComplete TextIsCovered OneInstance
CHECK_DEADLOCK FALSE
