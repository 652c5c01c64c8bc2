SPECIFICATION FairSpec
CONSTANTS
  t1 = t1  t2 = t2
  w1 = w1  w2 = w2
  x = x  y = y
  n = n  m = m
  None = None
  Call = {c1, c2, c3}
  TenantId = {t1, t2}
  WorkspaceId = {w1, w2}
  Slug = {x, y}
  Name = {n, m}
  Requests <- Rivals
  Dialects = {"postgresql", "sqlite"}
INVARIANTS
  ScopesHold
  RepliesAgree
  ConflictsReal
PROPERTIES
  ImplementsScopes
  EveryCallReturns
