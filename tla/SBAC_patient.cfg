\* No wait expires; the system may stop in a wait that only a time-out would end.
CONSTANTS
  A = A  B = B  r0 = r0  r1 = r1  x = x  y = y  z = z  t1 = t1  t2 = t2  c1 = c1  c2 = c2
  Shards = {A, B}
  Replicas = {r0, r1}
  Initiator = r0
  F = 1
  InitShard = A
  Objects = {x, y, z}
  Genesis = {x, y}
  ShardOf <- TwoShards
  Txs = {t1, t2}
  Inputs <- ConflictInputs
  Outputs <- ConflictOutputs
  Calls = {c1, c2}
  TxOf <- OwnTx
  Expiring = {}
  Failing = {}
SPECIFICATION Spec
INVARIANTS Agreement
CHECK_DEADLOCK FALSE
