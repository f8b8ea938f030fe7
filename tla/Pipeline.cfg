SPECIFICATION Spec
CONSTANTS
  d1 = d1  d2 = d2  r1 = r1  r2 = r2  w1 = w1  w2 = w2
  Doc = {d1}
  Uploaded = {d1}
  Req = {r1}
  ReqDoc <- OneRequest
  ReqSize = 1
  Supplied = {}
  Pieces = 1
  Worker = {w1, w2}
  MayFail <- Anything
  LostReplies = TRUE
  MaxFaults = 1
  MaxCrashes = 1
  Deletable <- AnyRow
  None = None
INVARIANTS TypeOK IndexedChunksHaveVectors NothingOutlivesItsDocument
PROPERTY ImplementsQueue
CHECK_DEADLOCK FALSE
