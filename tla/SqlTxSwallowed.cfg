SPECIFICATION Spec
CONSTANTS
  t1 = t1
  t2 = t2
  c1 = c1
  c2 = c2
  NoConn = NoConn
  Threads = {t1, t2}
  Conns = {c1, c2}
  Sharing <- NoSharing
  Catchers = {t1}
  Scripts = FALSE
  MaxTx = 1
  MaxStmts = 1
  MaxLosses = 0
INVARIANT CommitMeansDurable
