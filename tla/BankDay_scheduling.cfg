\* Two lanes at one desk, and nothing fails.
CONSTANTS
  Arrived = 5
  StopAfter = 3
  NDesks = 2
  KindOf <- MCKindOf
  Follower <- MCFollower
  DeskKinds <- MCDeskKinds
  Lanes <- MCLanes
  DeskOf <- MCDeskOf
  Failing = {}
SPECIFICATION Spec
INVARIANTS SchedulingNeverReachesAResult
CHECK_DEADLOCK FALSE
