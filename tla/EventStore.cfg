SPECIFICATION Spec
CONSTANTS
  p1 = p1  p2 = p2  t1 = t1  t2 = t2
  w1 = w1  w2 = w2  w3 = w3
  NoOne = NoOne
  Threads = {t1, t2}
  Procs = {p1, p2}
  ProcOf <- TwoProcesses
  Workflows = {w1, w2}
  MaxCrashes = 2
  MaxTorn = 2
  MaxRaised = 1
CHECK_DEADLOCK FALSE
INVARIANT TypeOK
INVARIANT IndexHoldsFullTexts
INVARIANT RecoveryExact
INVARIANT TornCostsOne
PROPERTY TerminatedStaysReadable
