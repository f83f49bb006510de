------------------------------ MODULE MC_SBAC ------------------------------
(***************************************************************************)
(* Instances of SBAC for TLC.                                              *)
(***************************************************************************)
EXTENDS SBACRefinement, TLC

CONSTANTS A, B, r0, r1, x, y, z, t1, t2, c1, c2

\* x lives in shard A, y and the output z in shard B; or everything in A.
TwoShards == x :> A @@ y :> B @@ z :> B
OneShard  == [o \in Objects |-> A]

\* t1 spends x and y for z; t2 spends y alone, in conflict with t1.
ConflictInputs  == t1 :> {x, y} @@ t2 :> {y}
ConflictOutputs == t1 :> {z} @@ t2 :> {}

\* Two clients submit one transaction each, or both submit t1.
OwnTx  == [c \in Calls |-> IF c = c1 THEN t1 ELSE t2]
SameTx == [c \in Calls |-> t1]
=============================================================================
