SPECIFICATION Spec
CONSTANTS
  atomicTx = atomicTx  keepTx = keepTx
  meta = meta  tiktok = tiktok  google = google
  Txs = {atomicTx, keepTx}
  AtomicTxs = {atomicTx}
  Platforms = {meta, tiktok, google}
  MayTimeOut = FALSE
  MayLoseAnswer = FALSE
  Unread = {}
  MayFailPause = FALSE
  MaxCrashes = 1
  NoTx = NoTx
CHECK_DEADLOCK FALSE
INVARIANT TypeOK
PROPERTY KeepsPromise
SYMMETRY PlatformSymmetry
