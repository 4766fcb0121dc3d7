\* A careful host: two activations, two ticks, three replies.
CONSTANTS
  a1 = a1
  a2 = a2
  NoOne = NoOne
  Activations <- MCActivations
  MaxTicks = 2
  MaxTokens = 3
  ReplyContract = "retry"
  Declarable <- MCDeclarable
  Liberties = {}
SPECIFICATION Spec
INVARIANTS OneTickAtATime StatusIsTrue BudgetsHold AnswerFindsItsQuestion
PROPERTIES ApprovalIntegrity WritesARunTrace EndIsObeyed LoopsEnd
CHECK_DEADLOCK FALSE
