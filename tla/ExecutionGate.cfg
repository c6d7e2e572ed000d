SPECIFICATION Spec
CONSTANTS
  Windows = {"w1", "w2"}
  Requests <- MCRequests
  Proposals <- MCProposals
  Streamed <- MCStreamed
  Contexts <- MCContexts
  MaxDelta = 1
  MaxMoves = 1
  MaxUsed = 2
INVARIANTS
  CommandsComeFromTheOffer
  RainOpensNothing
CHECK_DEADLOCK FALSE
