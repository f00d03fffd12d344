SPECIFICATION Spec
CONSTANTS
  t1 = t1
  t2 = t2
  c1 = c1
  c2 = c2
  NoConn = NoConn
  Threads = {t1, t2}
  Conns = {c1, c2}
  Sharing <- SharedTx
  Catchers = {t1}
  Scripts = TRUE
  MaxTx = 2
  MaxStmts = 2
  MaxLosses = 1
INVARIANT ConnOwnedOnce
INVARIANT NoSlotLost
INVARIANT TxConfined
INVARIANT NeverLendsOpenTx
INVARIANT Atomic
