CONSTANTS
  t1 = t1
  t2 = t2
  t3 = t3
  t4 = t4
  t5 = t5
  t6 = t6
  None = None
  Reassign = TRUE
  TxIds <- MCTxIds
  Bodies <- MCBodies

SPECIFICATION Spec

INVARIANTS
  ProofIsForCurrentBody
