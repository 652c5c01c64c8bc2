SPECIFICATION Spec
CONSTANTS
  s1 = s1  s2 = s2
  k1 = k1  k2 = k2
  n1 = n1  n2 = n2  n3 = n3  n4 = n4
  pa = pa  pb = pb  pc = pc
  ea = ea  ec = ec
  None = None
  Process = {p1, p2}
  Scope = {s1, s2}
  Key = {k1, k2}
  Nonce = {n1, n2, n3, n4}
  Payload = {pa, pb, pc}
  Entity = {ea, ec}
  EntityOf <- Subjects
  Message <- Traffic
  Skew = 1
  Retention = 3
  MaxEntries = 2
  MaxTime = 3
  MaxDeliveries = 3
  MaxCrashes = 1
SYMMETRY Symmetry
CHECK_DEADLOCK FALSE
INVARIANTS
  RegistriesHold
  ProjectionsHold
  OkIsDurable
  OtlpConflictsEarned
PROPERTY
  ImplementsIngest
