SPECIFICATION Spec
CONSTANTS
  atomicTx = atomicTx  keepTx = keepTx
  meta = meta  tiktok = tiktok  google = google
  Txs = {atomicTx, keepTx}
  AtomicTxs = {atomicTx}
  Platforms = {meta, tiktok}
  MayTimeOut = TRUE
  MayLoseAnswer = FALSE
  Unread = {}
  MayFailPause = FALSE
  MaxCrashes = 0
  NoTx = NoTx
CHECK_DEADLOCK FALSE
INVARIANT AtomicAllOrNothing
