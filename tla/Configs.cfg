SPECIFICATION FairSpec
CONSTANTS
  k1 = k1  k2 = k2  l1 = l1  e1 = e1  e2 = e2  e3 = e3  p1 = p1  b1 = b1  m1 = m1  m2 = m2  t1 = t1  t2 = t2
  ApiKey = {k1, k2}
  LLM = {l1}
  Emb = {e1, e2, e3}
  Prompt = {p1}
  Backend = {b1}
  Model = {m1, m2}
  Topic = {t1, t2}
  Asked <- Few
  MaxCalls = 3
  Initial = {k1, k2, l1, e1, e3, p1}
  KeyOf <- Keys
  ModelOf <- Models
  Bound <- OneTopic
  None = None
  Gone = Gone
INVARIANTS OneDefault KeysExist PromptHasLLM
PROPERTIES DefaultIsKept ModelIsStable EveryCallEnds
CHECK_DEADLOCK FALSE
