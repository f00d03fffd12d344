------------------------------ MODULE MCSqlTx ------------------------------
(* Small instances of SqlTx: two threads, one or two connections.          *)
EXTENDS SqlTx

CONSTANTS t1, t2, c1, c2

(* No transaction object is used by two threads; or t2 helps t1 with its.  *)
NoSharing == {}
SharedTx  == {<<t2, t1>>}
=============================================================================
