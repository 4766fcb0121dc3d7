\* Users with every liberty: a property names those it depends on.
CONSTANTS
  r1 = r1
  r2 = r2
  Requests <- MCRequests
  MaxTurns = 2
  MaxCalls = 2
  Modes = {"enforce", "shadow"}
  Liberties = {"overlap", "call-after-end", "ahead-of-answers", "redeem-after-close", "answer-after-finish", "pauses-in-one-answer", "post-act-throws"}
SPECIFICATION Spec
INVARIANTS PersonSaidYes ResultsAreScreened NothingAfterTheEnd
PROPERTIES ClosedStaysClosed RequestIsAnswered
CHECK_DEADLOCK FALSE
