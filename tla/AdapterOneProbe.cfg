SPECIFICATION Spec
CONSTANTS
  meta = meta  tiktok = tiktok  c1 = c1  c2 = c2  c3 = c3
  Platforms = {meta}
  Callers = {c1, c2}
  FailureThreshold = 2
  OpenCooldown = 2
  RateLimitCooldown = 1
  BasePenalty = 1
  MaxPenalty = 2
  GlobalBrake = 1
  MaxFactor = 2
  Outcomes = {"ok", "error"}
  Curable = {}
INVARIANT OneProbe
