\* One lane, a crash, and the same campaign resumed.
CONSTANTS
  N = 2
  MaxJobs = 1
  Shards <- MCWhole
  Journeys = {}
  Faults = {}
  MaxStarts = 2
  MaxFaults = 1
SPECIFICATION Spec
INVARIANTS StoredOnce
CHECK_DEADLOCK FALSE
