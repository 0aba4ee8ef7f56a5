SPECIFICATION FairSpec
CONSTANTS
  c1 = c1  c2 = c2  c3 = c3
  Callers = {c1, c2, c3}
  MaxRequests = 2
  Window = 2
  Timeout = 3
INVARIANT TypeOK
INVARIANT WindowBound
PROPERTY AcquireReturns
