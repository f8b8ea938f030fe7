SPECIFICATION FairSpec
CONSTANTS
  d1 = d1  d2 = d2  r1 = r1  r2 = r2  w1 = w1  w2 = w2
  Doc = {d1, d2}
  Uploaded = {d1}
  Req = {r1}
  ReqDoc <- OtherDoc
  ReqSize = 2
  Supplied <- FirstOfR1
  Pieces = 2
  Worker = {w1, w2}
  MayFail <- StepsOfProcess
  LostReplies = FALSE
  MaxFaults = 2
  MaxCrashes = 0
  Deletable <- DocsAndTwo
  None = None
INVARIANTS NoOrphanedDocument ReadyIsSearchable
PROPERTIES OutcomeIsFinal UploadSettles ChunkGetsIndexed
CHECK_DEADLOCK FALSE
