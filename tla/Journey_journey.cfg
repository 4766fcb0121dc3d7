\* Up to three of two stages, in any order and with any executors.
CONSTANTS
  s1 = s1
  s2 = s2
  NoStage = NoStage
  Stages <- MCStages
  First = s1
  MaxStages = 3
  Deadline <- MCDeadline
  Decides <- MCDecides
  MaxGuards = 1
  MaxSpan = 2
SPECIFICATION Spec
INVARIANTS DecisionsWaitForAPerson RedactionIsRead OverdueIsTrue
PROPERTIES KeepsAJourneyLog
CHECK_DEADLOCK FALSE
