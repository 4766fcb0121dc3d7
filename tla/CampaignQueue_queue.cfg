\* Three campaigns, one of two cells and two that are books; Cancel pressed twice.
CONSTANTS
  c1 = c1
  c2 = c2
  c3 = c3
  None = None
  Campaigns <- MCCampaigns
  CellsOf <- MCCellsOf
  Books <- MCBooks
  MaxCancels = 2
SPECIFICATION Spec
INVARIANTS OneJobAtATime DoneIsStored
PROPERTIES QueueMoves
CHECK_DEADLOCK FALSE
