SPECIFICATION Spec
CONSTANTS
  d1 = d1  d2 = d2  c1 = c1  c2 = c2   r1 = r1  r2 = r2  u1 = u1  u2 = u2  l1 = l1  w1 = w1  w2 = w2
  Doc = {d1}
  DocOf <- OneDoc
  Source = {c1, c2}
  Embedded = {c1, c2}
  Compaction = {r1}
  ByJob = {r1}
  WithVector = {}
  Uncompaction = {u1}
  Link = {l1}
  Linkable <- AnyEnds
  Deletable = {}
  Worker = {w1}
  MaxFaults = 0
  LostReplies = FALSE
  None = None
INVARIANT LinksSurvive
CHECK_DEADLOCK FALSE
