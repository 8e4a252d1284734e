--------------------------- MODULE MCMerkleBlock ---------------------------
(* Bodies for model checking: none, one leaf, a power of two, an odd count *)
(* at the leaves only (3), odd at two levels (5), odd above the leaves     *)
(* (6), and a reordering of the 3-leaf body, so that a header may commit *)
(* to a different order than the one attached, and the 3-leaf body with  *)
(* its last transaction repeated, which has the same Merkle root.         *)
EXTENDS MerkleBlock

CONSTANTS t1, t2, t3, t4, t5, t6

MCTxIds == {t1, t2, t3, t4, t5, t6}

MCBodies ==
  { <<>>, <<t1>>, <<t1, t2>>, <<t1, t2, t3>>, <<t2, t1, t3>>, <<t1, t2, t3, t3>>,
    <<t1, t2, t3, t4, t5>>, <<t1, t2, t3, t4, t5, t6>> }
=============================================================================
