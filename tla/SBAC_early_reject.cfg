\* Two clients submit the same transaction.
CONSTANTS
  A = A  B = B  r0 = r0  r1 = r1  x = x  y = y  z = z  t1 = t1  t2 = t2  c1 = c1  c2 = c2
  Shards = {A}
  Replicas = {r0}
  Initiator = r0
  F = 0
  InitShard = A
  Objects = {x, y, z}
  Genesis = {x, y}
  ShardOf <- OneShard
  Txs = {t1, t2}
  Inputs <- ConflictInputs
  Outputs <- ConflictOutputs
  Calls = {c1, c2}
  TxOf <- SameTx
  Expiring = {"accept_t", "checkAcceptT"}
  Failing = {}
SPECIFICATION Spec
INVARIANTS EarlyReject
