\* One transaction over two shards of two replicas.
CONSTANTS
  A = A  B = B  r0 = r0  r1 = r1  x = x  y = y  z = z  t1 = t1  t2 = t2  c1 = c1  c2 = c2
  Shards = {A, B}
  Replicas = {r0, r1}
  Initiator = r0
  F = 1
  InitShard = A
  Objects = {x, y, z}
  Genesis = {x, y}
  ShardOf <- TwoShards
  Txs = {t1, t2}
  Inputs <- ConflictInputs
  Outputs <- ConflictOutputs
  Calls = {c1}
  TxOf <- OwnTx
  Expiring = {"accept_t", "checkAcceptT"}
  Failing = {}
SPECIFICATION Spec
INVARIANTS CommitBackedByPrepares
