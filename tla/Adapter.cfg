SPECIFICATION FairSpec
CONSTANTS
  meta = meta  tiktok = tiktok  c1 = c1  c2 = c2  c3 = c3
  Platforms = {meta}
  Callers = {c1, c2, c3}
  FailureThreshold = 2
  OpenCooldown = 2
  RateLimitCooldown = 1
  BasePenalty = 2
  MaxPenalty = 3
  GlobalBrake = 1
  MaxFactor = 2
  Outcomes = {"ok", "error", "throttled"}
  Curable = {meta}
INVARIANT TypeOK
INVARIANT CircuitCountsFailures
PROPERTY PenaltyNeverCut
PROPERTY Recovers
