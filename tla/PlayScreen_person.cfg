\* A person who stops and resets at any moment but mid-tick.
CONSTANTS
  MaxRuns = 2
  MaxEvents = 4
  BatchSize = 2
  Liberties = {"reset-unsaved"}
SPECIFICATION Spec
INVARIANTS ViewIsOneRun StorageIsTrue
PROPERTIES CarefulEndingsAreFiled
CHECK_DEADLOCK FALSE
