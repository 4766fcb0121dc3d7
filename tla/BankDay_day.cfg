\* Two desks, three lanes, five arrivals; journeys and sinks may throw.
CONSTANTS
  Arrived = 5
  StopAfter = 3
  NDesks = 2
  KindOf <- MCKindOf
  Follower <- MCFollower
  DeskKinds <- MCDeskKinds
  Lanes <- MCLanes
  DeskOf <- MCDeskOf
  Failing = {"run", "sink"}
SPECIFICATION Spec
INVARIANTS BooksBalance
PROPERTIES DaySettles WorksAsAPool
CHECK_DEADLOCK FALSE
