SPECIFICATION FairSpec
CONSTANTS
  s1 = s1  s2 = s2  s3 = s3
  k1 = k1  k2 = k2
  d1 = d1  d2 = d2  d3 = d3
  None = None
  Call = {c1, c2, c3}
  Scope = {s1}
  Provisioned = {s1}
  Key = {k1}
  Digest = {d1, d2, d3}
  Requests <- OneScope
  Traces = 2
  Dialect = "postgresql"
PROPERTIES
  ImplementsLedger
  AppendOnly
  EveryCallReturns
