\* A careful host, which may also stop in a round's last turn: three members, two rounds.
CONSTANTS
  r1 = r1
  r2 = r2
  Rounds <- MCRounds
  N = 3
  MaxRounds = 2
  MaxTicks <- MCTicks
  GroupMaxTokens = 3
  TurnTokens = 2
  Liberties = {"stop-in-last-turn"}
SPECIFICATION Spec
INVARIANTS SuccessIsShared GroupBudgetsHold
PROPERTIES GroupFinishedIsLast PlayIsHeard TakesTurns StopEndsTheGroup PlayEnds
CHECK_DEADLOCK FALSE
