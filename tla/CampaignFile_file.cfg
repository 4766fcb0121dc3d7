\* Two cells, two lanes, three invocations, two faults; the whole campaign or half of it.
CONSTANTS
  N = 2
  MaxJobs = 2
  Shards <- MCShards
  Journeys = {0}
  Faults = {}
  MaxStarts = 3
  MaxFaults = 2
SPECIFICATION Spec
INVARIANTS LineComesLast  ReportIsWhole
PROPERTIES CampaignEnds
CHECK_DEADLOCK FALSE
