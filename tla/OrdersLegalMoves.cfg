SPECIFICATION FairSpec
CONSTANTS
  o1 = o1  o2 = o2
  Orders = {o1}
  DryShips = {}
  MaxFaults = 0
PROPERTY LegalMoves
