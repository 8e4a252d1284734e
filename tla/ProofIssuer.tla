---------------------------- MODULE ProofIssuer ----------------------------
(***************************************************************************)
(* What a block's Merkle proof service promises (spec sections 3, 4.4): a  *)
(* header commits to a body; once the body is attached, a proof may be     *)
(* issued for a transaction of the body, naming its first position, and    *)
(* the proof is valid exactly when the body is the one the header commits  *)
(* to.  No tree, no hashing and no byte order appear here.                 *)
(***************************************************************************)
EXTENDS Sequences, SequencesExt

CONSTANTS
  Bodies,          \* the transaction lists a body may be
  Commits(_, _),   \* Commits(body, header): the header commits to the body
  None

VARIABLES
  header,  \* what the header commits to, fixed
  body,    \* None, or the attached transactions
  issued   \* the proofs issued: [tx, index, valid]

\* the 0-based position of the first occurrence of tx in b
FirstIndex(b, tx) == CHOOSE i \in 0..(Len(b) - 1) :
                       b[i + 1] = tx /\ \A j \in 1..i : b[j] # tx

Init ==
  /\ body = None
  /\ issued = {}

Attach(b) ==
  /\ body = None
  /\ body' = b
  /\ UNCHANGED <<header, issued>>

Issue(tx) ==
  /\ body # None
  /\ tx \in ToSet(body)
  /\ issued' = issued \cup {[tx |-> tx, index |-> FirstIndex(body, tx),
                             valid |-> Commits(body, header)]}
  /\ UNCHANGED <<header, body>>

Next ==
  \/ \E b \in Bodies : Attach(b)
  \/ \E tx \in UNION {ToSet(b) : b \in Bodies} : Issue(tx)

Spec == Init /\ [][Next]_<<header, body, issued>>
=============================================================================
