SPECIFICATION FairSpec
CONSTANTS
  o1 = o1  o2 = o2
  Orders = {o1}
  DryShips = {o1}
  MaxFaults = 2
INVARIANT TypeOK
INVARIANT PaidNeverLost
INVARIANT NothingSpentUnpaid
INVARIANT PlacedAgainOnlyBlind
INVARIANT NeverAheadOfSupplier
INVARIANT DoneIsBooked
PROPERTY PaidIsHandled
