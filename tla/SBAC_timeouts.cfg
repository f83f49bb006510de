\* One transaction over two shards; every reply may be late and steps fail.
CONSTANTS
  A = A  B = B  r0 = r0  r1 = r1  x = x  y = y  z = z  t1 = t1  t2 = t2  c1 = c1  c2 = c2
  Shards = {A, B}
  Replicas = {r0}
  Initiator = r0
  F = 0
  InitShard = A
  Objects = {x, y, z}
  Genesis = {x, y}
  ShardOf <- TwoShards
  Txs = {t1, t2}
  Inputs <- ConflictInputs
  Outputs <- ConflictOutputs
  Calls = {c1}
  TxOf <- OwnTx
  Expiring = {"submit", "prepare_t", "accept_t", "checkAcceptT"}
  Failing = {"raised", "send"}
SPECIFICATION Spec
INVARIANTS StatusHasCause ClientCommitIsUnanimous
PROPERTIES ImplementsAtomicCommit
