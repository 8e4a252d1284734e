-------------------------- MODULE EnvelopeChannel --------------------------
(***************************************************************************)
(* What the framing of network.py promises its users: an ordered channel  *)
(* of (command, payload) envelopes.  A sender enqueues an envelope; the    *)
(* receiver takes the oldest one, and each envelope is received once.      *)
(***************************************************************************)
EXTENDS Sequences

CONSTANTS
  Envelopes,  \* the envelopes a sender may send
  None        \* nothing received yet, or the last receive failed

VARIABLES
  queue,      \* the envelopes sent and not yet received, oldest first
  received    \* the envelope the last receive returned

Init ==
  /\ queue = <<>>
  /\ received = None

Send(e) ==
  /\ queue' = Append(queue, e)
  /\ UNCHANGED received

Receive ==
  /\ queue # <<>>
  /\ received' = Head(queue)
  /\ queue' = Tail(queue)

Next == (\E e \in Envelopes : Send(e)) \/ Receive

Spec == Init /\ [][Next]_<<queue, received>>
=============================================================================
