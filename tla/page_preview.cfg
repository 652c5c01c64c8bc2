SPECIFICATION Spec
CONSTANTS
  Public = Public
  Scope = {A, B}
  Page = {"services", "playback", "receipts"}
  Question = {"q1", "q2"}
  Events = 2
  MaxGeneration = 5
  MaxHides = 1
CHECK_DEADLOCK FALSE
INVARIANT
  NothingRetained
