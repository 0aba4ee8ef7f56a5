SPECIFICATION FairSpec
CONSTANTS
  atomicTx = atomicTx  keepTx = keepTx
  meta = meta  tiktok = tiktok  google = google
  Txs = {atomicTx, keepTx}
  AtomicTxs = {atomicTx}
  Platforms = {meta, tiktok}
  MayTimeOut = TRUE
  MayLoseAnswer = TRUE
  Unread = {tiktok}
  MayFailPause = TRUE
  MaxCrashes = 1
  NoTx = NoTx
CHECK_DEADLOCK FALSE
INVARIANT OneAtATime
INVARIANT RollbackReachesAll
INVARIANT CrashVisible
INVARIANT CompensatedIsPaused
PROPERTY EveryLaunchEnds
