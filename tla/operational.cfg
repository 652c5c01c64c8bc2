SPECIFICATION FairSpec
CONSTANTS
  e1 = e1  e2 = e2
  b1 = b1  b2 = b2
  here = here  there = there
  None = None
  Call = {c1, c2, c3}
  Entity = {e1, e2}
  Body = {b1, b2}
  Label = {here, there}
  Requests <- Mixed
  Dialects = {"postgresql", "sqlite"}
INVARIANTS
  StreamIntact
  HistoriesHold
PROPERTIES
  ImplementsVersions
  EveryCallReturns
