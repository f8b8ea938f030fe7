SPECIFICATION FairSpec
CONSTANTS
  d1 = d1  d2 = d2  c1 = c1  c2 = c2   r1 = r1  r2 = r2  u1 = u1  u2 = u2  l1 = l1  w1 = w1  w2 = w2
  Doc = {d1}
  DocOf <- OneDoc
  Source = {c1, c2}
  Embedded = {c1}
  Compaction = {r1}
  ByJob = {}
  WithVector = {}
  Uncompaction = {u1}
  Link = {}
  Linkable <- AnyEnds
  Deletable = {}
  Worker = {w1}
  MaxFaults = 0
  LostReplies = FALSE
  None = None
PROPERTY ActiveGetsIndexed
CHECK_DEADLOCK FALSE
