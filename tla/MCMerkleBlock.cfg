CONSTANTS
  t1 = t1
  t2 = t2
  t3 = t3
  t4 = t4
  t5 = t5
  t6 = t6
  None = None
  Reassign = FALSE
  TxIds <- MCTxIds
  Bodies <- MCBodies

SPECIFICATION Spec

INVARIANTS
  ValidateAcceptsSamePerfectTree
  TypeOK
  TreeMatchesReference
  ProofVerifiesIffRootValid

PROPERTIES
  ProofCompleteness
  ImplementsProofIssuer
