\* A host that stops a run while a question is open, as the Stop button does.
CONSTANTS
  a1 = a1
  a2 = a2
  NoOne = NoOne
  Activations <- MCActivations
  MaxTicks = 2
  MaxTokens = 2
  ReplyContract = "retry"
  Declarable <- MCDeclarable
  Liberties = {"end-at-question"}
SPECIFICATION Spec
PROPERTIES FinishesOnce
CHECK_DEADLOCK FALSE
