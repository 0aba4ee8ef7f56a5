SPECIFICATION FairSpec
CONSTANTS
  api = api  pc = pc  aws = aws
  r1 = r1  r2 = r2  w = w
  Procs = {api, pc, aws}
  Spenders = {r1, r2, w}
  Workers = {w}
  Home <- HomeOf
  Deployments = {{api}, {pc, aws}}
  Primary = pc
  Standby = aws
  MaxDailySpend = 2
  Budgets = {2}
  Raises = {1}
  MaxFaults = 2
  CheckpointEvery = 2
  TickMax = 1
  TakeoverAfter = 4
  Skew = 1
  MaxMissed = 1
  MaxOverrun = 1
INVARIANT TypeOK
INVARIANT CapHolds
INVARIANT TodaySpendIsReal
INVARIANT KillLetsOneThrough
INVARIANT RelaunchIsExcused
PROPERTY HealthyIsNotTakenOver
PROPERTY StandbyTakesOver
