\* A host with every liberty, and guardrails that throw: what holds whatever the host does.
CONSTANTS
  r1 = r1
  r2 = r2
  Rounds <- MCRounds
  N = 2
  MaxRounds = 2
  MaxTicks <- MCMoreTicks
  GroupMaxTokens = 2
  TurnTokens = 1
  Liberties = {"round-over", "stop-after-pause", "play-after-pause", "stop-at-question", "stop-in-last-turn", "pause-a-step", "guardrail-throws"}
SPECIFICATION Spec
INVARIANTS NobodyIsAbandoned
PROPERTIES EndingStands
CHECK_DEADLOCK FALSE
