SPECIFICATION Spec
CONSTANTS
  a = a  u = u  v = v  g = g  t1 = t1  t2 = t2  d1 = d1  d2 = d2  c1 = c1  c2 = c2
  Account = {a}
  Key = {k1, k2, k3}
  AdminCall = {q1, q2}
  First <- NoKey
  User = {u, v}
  Group = {g}
  GroupsOf <- Groups
  Topic = {t1, t2}
  OwnerOf <- Owners
  Granted <- Initially
  Doc = {d1, d2}
  TopicOf <- Topics
  Chunk = {c1, c2}
  DocOf <- Docs
  Nearer <- C2First
  Request = {r1, r2}
  Ask <- Asks
  TopK = 1
  None = None
CONSTRAINT Apart
SYMMETRY Symmetric
INVARIANTS TypeOK Authorized SearchIsComplete RevocationHolds NobodyIsLockedOut
PROPERTIES RetiredForGood
CHECK_DEADLOCK FALSE
