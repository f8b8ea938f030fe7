SPECIFICATION Spec
CONSTANTS
  d1 = d1  d2 = d2  c1 = c1  c2 = c2   r1 = r1  r2 = r2  u1 = u1  u2 = u2  l1 = l1  w1 = w1  w2 = w2
  Doc = {d1, d2}
  DocOf <- TwoDocs
  Source = {c1, c2}
  Embedded = {c1, c2}
  Compaction = {r1, r2}
  ByJob = {r2}
  WithVector = {}
  Uncompaction = {u1}
  Link = {}
  Linkable <- OneWay
  Deletable = {r1}
  Worker = {w1, w2}
  MaxFaults = 1
  LostReplies = TRUE
  None = None
SYMMETRY Symmetric
INVARIANTS CompactedIsReplaced ContentStaysSearchable CompactedIsNotIndexed CompactedCanBeRestored
CHECK_DEADLOCK FALSE
