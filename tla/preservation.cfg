SPECIFICATION Spec
CONSTANTS
  None = None
  Damaged = Damaged
  Backup = {b1}
  Restore = {r1, r2}
  SnapshotOf <- TheBackup
  MaxWrites = 2
  MaxRows = 1
CHECK_DEADLOCK FALSE
INVARIANTS
  SnapshotsAtOneInstant
  ImportedOnce
  EffectsTruthful
  ResultsPreserve
