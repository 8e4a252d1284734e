---------------------------- MODULE MerkleBlock ----------------------------
(***************************************************************************)
(* The Merkle state of a Block (src/NanoBtcLibrary/Python/block.py): the   *)
(* header's merkle_root, the lazily attached tx_hashes, the cached         *)
(* merkle_tree, and the operations calculate_merkle_tree,                 *)
(* create_merkle_proof, validate_merkle_root and Proof.verify.             *)
(*                                                                         *)
(* A 32-byte hash is a record [ord, val]: ord says whether the bytes are   *)
(* in display or internal order, and x[::-1] flips it.  double_sha256 of   *)
(* the concatenation a + b is the term <<a, b>> in internal order: the     *)
(* hash primitive is taken to be collision free, so two parents are equal  *)
(* only when their children are.  The helper.py functions block.py        *)
(* imports (merkle_parent, merkle_parent_level, merkle_root, merkle_path)  *)
(* are not in the repository and are modelled from the spec, sections    *)
(* 4.3 and 4.4, and from the padded levels test_calculate_merkle_tree      *)
(* expects.                                                               *)
(***************************************************************************)
EXTENDS Integers, Sequences, SequencesExt

CONSTANTS
  TxIds,    \* transaction ids (display order), model values
  Bodies,   \* the transaction id lists a block body may carry
  None,     \* Python's None
  Reassign  \* whether the caller may assign tx_hashes again after attaching

ASSUME \A b \in Bodies : b \in Seq(TxIds)

VARIABLES
  merkle_root,  \* Block.merkle_root, display order, fixed by parse
  tx_hashes,    \* Block.tx_hashes: None or a sequence of display-order ids
  merkle_tree,  \* Block.merkle_tree: None or a sequence of levels
  proofs,       \* the Proof objects create_merkle_proof has returned
  outcome       \* the operation last called and what it returned

vars == <<merkle_root, tx_hashes, merkle_tree, proofs, outcome>>

-----------------------------------------------------------------------------
(* Hashes and byte order *)

Disp(v) == [ord |-> "disp", val |-> v]
Internal(v) == [ord |-> "int", val |-> v]

\* h[::-1]: reversing the bytes turns one order into the other
Rev(h) == [h EXCEPT !.ord = IF @ = "int" THEN "disp" ELSE "int"]

RevAll(hs) == [i \in DOMAIN hs |-> Rev(hs[i])]

\* the display-order tx_hashes of a body
TxHashes(body) == [i \in DOMAIN body |-> Disp(body[i])]

\* helper.merkle_parent(a, b) = double_sha256(a + b)
merkle_parent(a, b) == Internal(<<a, b>>)

\* merkle_parent_level appends the last hash to an odd level, in place
Pad(level) ==
  IF Len(level) % 2 = 1 THEN Append(level, Last(level)) ELSE level

\* helper.merkle_parent_level(hashes)
merkle_parent_level(level) ==
  LET p == Pad(level)
  IN  [i \in 1..(Len(p) \div 2) |-> merkle_parent(p[2 * i - 1], p[2 * i])]

\* helper.merkle_root(hashes), for a non-empty list
RECURSIVE MerkleRootOf(_)
MerkleRootOf(level) ==
  IF Len(level) > 1 THEN MerkleRootOf(merkle_parent_level(level)) ELSE level[1]

\* ceil(log2(n)), the number of levels above the leaves, for n >= 1
CeilLog2(n) == CHOOSE k \in 0..n : 2^k >= n /\ (k = 0 \/ 2^(k - 1) < n)

\* helper.merkle_path(index, total): the index of the node at each level
merkle_path(index, total) ==
  [l \in 1..CeilLog2(total) |-> index \div 2^(l - 1)]

-----------------------------------------------------------------------------
(* Block.calculate_merkle_tree: every level but the root is stored, and    *)
(* then padded in place by merkle_parent_level.                            *)

\* Variants of calculate_merkle_tree's loop with a plausible bug: the final
\* root level is not appended, or a level is stored before merkle_parent_level
\* pads it (a copy is padded instead of the stored list).
RECURSIVE TreeLevelsNoRoot(_)
TreeLevelsNoRoot(current) ==
  IF Len(current) > 1
  THEN <<Pad(current)>> \o TreeLevelsNoRoot(merkle_parent_level(current))
  ELSE <<>>

RECURSIVE TreeLevelsUnpadded(_)
TreeLevelsUnpadded(current) ==
  IF Len(current) > 1
  THEN <<current>> \o TreeLevelsUnpadded(merkle_parent_level(current))
  ELSE <<current>>

RECURSIVE TreeLevels(_)
TreeLevels(current) ==
  IF Len(current) > 1
  THEN <<Pad(current)>> \o TreeLevels(merkle_parent_level(current))
  ELSE <<current>>

\* Variant: the transaction hashes are not reversed to internal order.
CalculatedTreeNoReverse == TreeLevels(tx_hashes)

CalculatedTree == TreeLevels(RevAll(tx_hashes))

\* The loop of create_merkle_proof, one level per element of path; it
\* stops with IndexError when a partner position is past the level's end.
RECURSIVE ProofWalk(_, _, _, _)
ProofWalk(tree, path, current, hashes) ==
  LET l == Len(hashes) + 1
  IN  IF l > Len(path)
      THEN [err |-> FALSE, current |-> current, hashes |-> hashes]
      ELSE LET li == path[l]
               pi == IF li % 2 = 0 THEN li + 1 ELSE li - 1
           IN  IF l > Len(tree) \/ pi >= Len(tree[l])
               THEN [err |-> TRUE, current |-> current, hashes |-> hashes]
               ELSE LET partner == tree[l][pi + 1]
                        next == IF li % 2 = 0
                                THEN merkle_parent(current, partner)
                                ELSE merkle_parent(partner, current)
                    IN  ProofWalk(tree, path, next, Append(hashes, partner))

\* A variant of the returned Proof with a plausible bug: a 1-based index.
ProofOneBased(merkle_root_, tx_hash, index, merkle_proof) ==
  [merkle_root |-> merkle_root_, tx_hash |-> tx_hash, index |-> index + 1,
   merkle_proof |-> merkle_proof]

\* Proof(merkle_root, tx_hash, index, merkle_proof)
Proof(merkle_root_, tx_hash, index, merkle_proof) ==
  [merkle_root |-> merkle_root_, tx_hash |-> tx_hash, index |-> index,
   merkle_proof |-> merkle_proof]

\* create_merkle_proof(tx_hash) on the tree it uses, after the cache check.
\* merkle_path(index, 0) is ceil(log2(0)), which math.log rejects with a
\* ValueError: reached when tx_hashes = [] was assigned over a cached tree.
ProofResult(tree, h) ==
  IF tree = <<>> THEN [res |-> "IndexError"]
  ELSE IF Rev(h) \notin ToSet(tree[1]) THEN [res |-> "ValueError"]
  ELSE IF Len(tx_hashes) = 0 THEN [res |-> "ValueError"]
  ELSE
    LET i == CHOOSE j \in 1..Len(tree[1]) :
               tree[1][j] = Rev(h) /\ \A k \in 1..(j - 1) : tree[1][k] # Rev(h)
        w == ProofWalk(tree, merkle_path(i - 1, Len(tx_hashes)), tree[1][i], <<>>)
    IN  IF w.err THEN [res |-> "IndexError"]
        ELSE IF w.current # Last(tree)[1] THEN [res |-> "RuntimeError"]
        ELSE [res |-> "ok", proof |-> Proof(merkle_root, h, i - 1, w.hashes)]

\* Variant of Proof.verify that folds tx_hash without reversing it.
VerifyNoReverse(p) ==
  LET path == merkle_path(p.index, 2^Len(p.merkle_proof))
      step(current, i) ==
        IF path[i] % 2 = 1 THEN merkle_parent(p.merkle_proof[i], current)
                           ELSE merkle_parent(current, p.merkle_proof[i])
  IN  Rev(FoldLeftDomain(step, p.tx_hash, p.merkle_proof)) = p.merkle_root

\* Proof.verify: fold the leaf with the siblings along the path of a
\* perfect tree of 2^len(merkle_proof) leaves
Verify(p) ==
  LET path == merkle_path(p.index, 2^Len(p.merkle_proof))
      step(current, i) ==
        IF path[i] % 2 = 1 THEN merkle_parent(p.merkle_proof[i], current)
                           ELSE merkle_parent(current, p.merkle_proof[i])
  IN  Rev(FoldLeftDomain(step, Rev(p.tx_hash), p.merkle_proof)) = p.merkle_root

\* A variant of validate_merkle_root with a plausible bug: the transaction
\* hashes are not reversed to internal order before merkle_root.
ValidateResultNoReverse ==
  IF Len(tx_hashes) = 0 THEN "IndexError"
  ELSE Rev(MerkleRootOf(tx_hashes)) = merkle_root

\* validate_merkle_root: TRUE, FALSE, or the error of an empty list
ValidateResult ==
  IF Len(tx_hashes) = 0 THEN "IndexError"
  ELSE Rev(MerkleRootOf(RevAll(tx_hashes))) = merkle_root

-----------------------------------------------------------------------------
(* Reference Merkle tree (spec section 3): level k has ceil(n / 2^k)       *)
(* nodes, and a position past the end of a level stands for its last node  *)
(* (the duplication rule).  Levels are 0-based here.                       *)

LevelCount(n, k) == (n + 2^k - 1) \div 2^k

RECURSIVE RefNode(_, _, _)
RefNode(leaves, k, i) ==
  IF i >= LevelCount(Len(leaves), k)
  THEN RefNode(leaves, k, LevelCount(Len(leaves), k) - 1)
  ELSE IF k = 0 THEN leaves[i + 1]
  ELSE merkle_parent(RefNode(leaves, k - 1, 2 * i), RefNode(leaves, k - 1, 2 * i + 1))

RefRoot(leaves) == RefNode(leaves, CeilLog2(Len(leaves)), 0)

\* The leaves of the perfect tree a body stands for under the duplication
\* rule: while a level has more than one block, an odd count of blocks
\* gets its last block again, and neighbouring blocks are joined.
RECURSIVE PerfectBlocks(_)
PerfectBlocks(blocks) ==
  IF Len(blocks) <= 1 THEN blocks
  ELSE LET even == IF Len(blocks) % 2 = 1 THEN Append(blocks, Last(blocks))
                   ELSE blocks
       IN  PerfectBlocks([i \in 1..(Len(even) \div 2) |-> even[2 * i - 1] \o even[2 * i]])

PerfectLeaves(leaves) == PerfectBlocks([i \in DOMAIN leaves |-> <<leaves[i]>>])[1]

\* the stored tree: the reference levels, every level below the root padded
RefTree(leaves) ==
  LET n == Len(leaves)
      h == CeilLog2(n)
      stored(k) == IF k = h THEN 1 ELSE LevelCount(n, k) + (LevelCount(n, k) % 2)
  IN  [l \in 1..(h + 1) |-> [i \in 1..stored(l - 1) |-> RefNode(leaves, l - 1, i - 1)]]

-----------------------------------------------------------------------------
(* Operations *)

\* Block.parse: a header whose root commits to some body; no transactions
\* and no tree are attached yet
Init ==
  /\ merkle_root \in {Rev(RefRoot(RevAll(TxHashes(b)))) : b \in {b \in Bodies : b # <<>>}}
  /\ tx_hashes = None
  /\ merkle_tree = None
  /\ proofs = {}
  /\ outcome = [op |-> "parse", tx |-> None, res |-> "ok"]

\* the caller attaches the body once it is known: block.tx_hashes = hashes.
\* The attribute is plain and may be assigned again; nothing resets the
\* cached merkle_tree when it is.
AttachTxHashes(body) ==
  /\ tx_hashes = None \/ Reassign
  /\ tx_hashes' = TxHashes(body)
  /\ outcome' = [op |-> "attach", tx |-> None, res |-> "ok"]
  /\ UNCHANGED <<merkle_root, merkle_tree, proofs>>

\* calculate_merkle_tree: merkle_tree is reset to [] before the None check
CalculateMerkleTree ==
  /\ merkle_tree' = IF tx_hashes = None THEN <<>> ELSE CalculatedTree
  /\ outcome' = [op |-> "calculate", tx |-> None,
                 res |-> IF tx_hashes = None THEN "RuntimeError" ELSE "ok"]
  /\ UNCHANGED <<merkle_root, tx_hashes, proofs>>

\* create_merkle_proof without transactions returns None
CreateMerkleProofNoTx(h) ==
  /\ tx_hashes = None
  /\ outcome' = [op |-> "create", tx |-> h, res |-> "None"]
  /\ UNCHANGED <<merkle_root, tx_hashes, merkle_tree, proofs>>

\* create_merkle_proof: builds the tree only when merkle_tree is None
CreateMerkleProof(h) ==
  /\ tx_hashes # None
  /\ LET tree == IF merkle_tree = None THEN CalculatedTree ELSE merkle_tree
         r == ProofResult(tree, h)
     IN  /\ merkle_tree' = tree
         /\ outcome' = [op |-> "create", tx |-> h, res |-> r.res]
         /\ proofs' = IF r.res = "ok" THEN proofs \cup {r.proof} ELSE proofs
  /\ UNCHANGED <<merkle_root, tx_hashes>>

\* validate_merkle_root; iterating over None raises TypeError
ValidateMerkleRoot ==
  /\ outcome' = [op |-> "validate", tx |-> None,
                 res |-> IF tx_hashes = None THEN "TypeError" ELSE ValidateResult]
  /\ UNCHANGED <<merkle_root, tx_hashes, merkle_tree, proofs>>

\* Proof.verify of a proof the caller holds
VerifyProof(p) ==
  /\ outcome' = [op |-> "verify", tx |-> p.tx_hash, res |-> Verify(p)]
  /\ UNCHANGED <<merkle_root, tx_hashes, merkle_tree, proofs>>

\* Proof.verify of a proof whose index was changed on its way to the
\* verifier: the proof record carries no leaf count to check it against
VerifyRelayedProof(p, i) == VerifyProof([p EXCEPT !.index = i])

\* leaf positions a relayed proof may claim: up to twice the largest body
Indexes ==
  0..(2 * Len(CHOOSE b \in Bodies : \A c \in Bodies : Len(c) <= Len(b)) - 1)

Next ==
  \/ \E b \in Bodies : AttachTxHashes(b)
  \/ CalculateMerkleTree
  \/ \E t \in TxIds : CreateMerkleProofNoTx(Disp(t))
  \/ \E t \in TxIds : CreateMerkleProof(Disp(t))
  \/ ValidateMerkleRoot
  \/ \E p \in proofs : VerifyProof(p)
  \/ \E p \in proofs, i \in Indexes : VerifyRelayedProof(p, i)

Spec == Init /\ [][Next]_vars

-----------------------------------------------------------------------------
(* Properties *)

IsDisp(h) == h.ord = "disp"
IsInternal(h) == h.ord = "int"

\* Every stored hash is in the byte order its field promises (spec section
\* 9): header root and proof leaf in display order, tree nodes and proof
\* siblings in internal order.
TypeOK ==
  /\ IsDisp(merkle_root)
  /\ tx_hashes = None \/ \A i \in DOMAIN tx_hashes : IsDisp(tx_hashes[i])
  /\ merkle_tree = None
     \/ \A l \in DOMAIN merkle_tree : \A i \in DOMAIN merkle_tree[l] :
          IsInternal(merkle_tree[l][i])
  /\ \A p \in proofs :
       /\ IsDisp(p.merkle_root) /\ IsDisp(p.tx_hash)
       /\ p.index \in Nat
       /\ \A i \in DOMAIN p.merkle_proof : IsInternal(p.merkle_proof[i])

\* The tree calculate_merkle_tree caches (directly or from inside
\* create_merkle_proof) is the reference tree of the attached transactions:
\* ceil(n/2) parents per level, odd levels padded with their last node.
TreeMatchesReference ==
  (merkle_tree \notin {None, <<>>} /\ tx_hashes # None /\ tx_hashes # <<>>)
    => merkle_tree = RefTree(RevAll(tx_hashes))

\* A proof create_merkle_proof handed out verifies on its own, with the
\* verifier's perfect-tree path, exactly when validate_merkle_root accepts
\* the block's transactions against its header.
ProofVerifiesIffRootValid ==
  \A p \in proofs : Verify(p) <=> ValidateResult = TRUE

\* The bodies a header was built from: their reference root is its root.
CommittedBodies ==
  {c \in Bodies : c # <<>> /\ Rev(RefRoot(RevAll(TxHashes(c)))) = merkle_root}

\* validate_merkle_root accepts the attached transactions exactly when they
\* stand for the same perfect tree as a body the header was built from.
\* It does not accept only that body: a body whose tail repeats the
\* duplicated nodes (<<t1, t2, t3, t3>> for <<t1, t2, t3>>) passes too,
\* and nothing else does.
ValidateAcceptsSamePerfectTree ==
  (tx_hashes # None /\ tx_hashes # <<>>)
    => (ValidateResult = TRUE
          <=> \E c \in CommittedBodies :
                PerfectLeaves(tx_hashes) = PerfectLeaves(TxHashes(c)))

\* create_merkle_proof for a transaction of the block never fails, unless
\* an earlier failed calculate_merkle_tree left the cache empty.
ProofCompleteness ==
  [][ ( /\ outcome'.op = "create" /\ tx_hashes # None
        /\ outcome'.tx \in ToSet(tx_hashes) /\ merkle_tree # <<>> )
      => outcome'.res = "ok" ]_vars

\* A proof that Proof.verify accepts names a real leaf position: its index
\* is below the leaf count and its tx_hash is the transaction there (a
\* proof is "the sibling path for a given leaf", spec sections 3 and 4.4).
VerifiedIndexIsLeafPosition ==
  \A p \in proofs, i \in Indexes :
    Verify([p EXCEPT !.index = i])
      => i < Len(tx_hashes) /\ tx_hashes[i + 1] = p.tx_hash

\* The proof service as ProofIssuer states it: the attached tx_hashes are
\* the body, and each handed-out proof is issued for its transaction at its
\* index, valid when Proof.verify accepts it.  The header commits to the
\* body whose reference Merkle root it holds.
Issuer == INSTANCE ProofIssuer
  WITH Bodies <- {TxHashes(b) : b \in Bodies},
       Commits <- LAMBDA b, r : b # <<>> /\ Rev(RefRoot(RevAll(b))) = r,
       header <- merkle_root,
       body <- tx_hashes,
       issued <- {[tx |-> p.tx_hash, index |-> p.index, valid |-> Verify(p)] : p \in proofs}

\* Every proof create_merkle_proof hands out is for a transaction of the
\* attached body, at the position of its first occurrence, and verifies
\* exactly when the header's root is the reference root of that body:
\* the cache, the path walk and the perfect-tree verifier together
\* implement the abstract proof service.
ImplementsProofIssuer == Issuer!Spec

\* create_merkle_proof returns a proof only for a transaction of the block
\* (spec section 4.4: the proof is generated from the block's transaction
\* hashes), even when tx_hashes was assigned after the tree was cached.
ProofIsForCurrentBody ==
  (outcome.op = "create" /\ outcome.res = "ok") => outcome.tx \in ToSet(tx_hashes)

\* create_merkle_proof for a transaction of the block never fails.
NoSpuriousProofError ==
  (outcome.op = "create" /\ tx_hashes # None /\ outcome.tx \in ToSet(tx_hashes))
    => outcome.res = "ok"

=============================================================================
