-------------------------- MODULE NetworkEnvelope --------------------------
(***************************************************************************)
(* The message framing of src/NanoBtcLibrary/Python/network.py between a   *)
(* sender and a receiver.  The sender builds NetworkEnvelope(command,      *)
(* payload) objects and appends their serialize() to the wire; the         *)
(* receiver calls NetworkEnvelope.parse on the unread bytes.  The wire     *)
(* may cut the byte stream short or corrupt a byte (a bounded number of    *)
(* faults), which is what the magic and checksum checks are for.           *)
(***************************************************************************)
EXTENDS ByteStreams

CONSTANTS
  Commands,         \* command fields senders construct envelopes with
  Payloads,         \* payloads senders send
  Noise,            \* the values a corrupted byte may take
  DoubleSha256(_),  \* helper.double_sha256: bytes -> 32 bytes
  MaxSends,         \* bound on the envelopes sent
  MaxFaults,        \* bound on the faults of the wire
  FaultKinds,       \* the faults the wire may make: "cut", "corrupt"
  None              \* Python's None

VARIABLES
  wire,     \* the bytes sent and not yet read by the receiver
  sent,     \* the envelopes sent, in order
  parsed,   \* the number of parse calls so far
  faults,   \* the number of cuts and corruptions so far
  outcome   \* the last parse and what it returned or raised

vars == <<wire, sent, parsed, faults, outcome>>

NETWORK_MAGIC == <<249, 190, 180, 217>>

\* double_sha256(payload)[:4]
Checksum(payload) == SubSeq(DoubleSha256(payload), 1, 4)

-----------------------------------------------------------------------------
(* NetworkEnvelope methods *)

\* A variant of the checksum test with a plausible bug: only the first
\* checksum byte is compared.
ChecksumMatchesFirstByte(payload, checksum) ==
  Read(Checksum(payload), 1) = Read(checksum, 1)

\* the test of parse's line 42
ChecksumMatches(payload, checksum) == Checksum(payload) = checksum

\* A variant of parse's return with a plausible bug: the arguments swapped.
ParsedEnvelopeSwapped(command, payload) ==
  [command |-> payload, payload |-> command]

\* return cls(command, payload)
ParsedEnvelope(command, payload) == [command |-> command, payload |-> payload]

\* the widths of parse's reads of magic, command, length and checksum
EnvelopeWidths == <<4, 12, 4, 4>>

\* NetworkEnvelope.parse(s): the result and the unread rest of the stream.
\* A wrong magic raises after its 4 bytes are read; the payload read may
\* be short, which only the checksum test can notice.
ParseFrame(s) ==
  LET f == Reads(s, EnvelopeWidths)
      body == Drop(s, Len(FlattenSeq(f)))
      payload_length == LittleEndianAtMost(f[3], Len(body))
      payload == Read(body, payload_length)
      rest == Drop(body, payload_length)
  IN  CASE f[1] # NETWORK_MAGIC ->
             [res |-> "RuntimeError", env |-> None, rest |-> Drop(s, 4)]
        [] ~ChecksumMatches(payload, f[4]) ->
             [res |-> "RuntimeError", env |-> None, rest |-> rest]
        [] OTHER ->
             [res |-> "ok", env |-> ParsedEnvelope(f[2], payload),
              rest |-> rest]

\* A variant of serialize with a plausible bug: the length is big-endian.
serializeBigEndianLength(e) ==
  NETWORK_MAGIC \o e.command \o Reverse(int_to_little_endian(Len(e.payload), 4))
    \o Checksum(e.payload) \o e.payload

\* NetworkEnvelope.serialize: the command is appended as it is, unpadded
serialize(e) ==
  NETWORK_MAGIC \o e.command \o int_to_little_endian(Len(e.payload), 4)
    \o Checksum(e.payload) \o e.payload

-----------------------------------------------------------------------------
(* Sender, receiver and wire *)

Init ==
  /\ wire = <<>>
  /\ sent = <<>>
  /\ parsed = 0
  /\ faults = 0
  /\ outcome = [op |-> "init", res |-> None, env |-> None]

\* the sender: NetworkEnvelope(command, payload).serialize() written out
Send(command, payload) ==
  /\ Len(sent) < MaxSends
  /\ LET e == [command |-> command, payload |-> payload]
     IN  /\ wire' = wire \o serialize(e)
         /\ sent' = Append(sent, e)
  /\ UNCHANGED <<parsed, faults, outcome>>

\* the receiver: NetworkEnvelope.parse(stream) when bytes have arrived
Parse ==
  /\ wire # <<>>
  /\ LET r == ParseFrame(wire)
     IN  /\ wire' = r.rest
         /\ outcome' = [op |-> "parse", res |-> r.res, env |-> r.env]
  /\ parsed' = parsed + 1
  /\ UNCHANGED <<sent, faults>>

\* the connection drops: the unread bytes end after n of them
Cut(n) ==
  /\ "cut" \in FaultKinds
  /\ faults < MaxFaults
  /\ n < Len(wire)
  /\ wire' = SubSeq(wire, 1, n)
  /\ faults' = faults + 1
  /\ UNCHANGED <<sent, parsed, outcome>>

\* byte i of the unread bytes arrives as v
Corrupt(i, v) ==
  /\ "corrupt" \in FaultKinds
  /\ faults < MaxFaults
  /\ wire[i] # v
  /\ wire' = [wire EXCEPT ![i] = v]
  /\ faults' = faults + 1
  /\ UNCHANGED <<sent, parsed, outcome>>

Next ==
  \/ \E c \in Commands, p \in Payloads : Send(c, p)
  \/ Parse
  \/ \E n \in 0..Len(wire) : Cut(n)
  \/ \E i \in DOMAIN wire, v \in Noise : Corrupt(i, v)

Spec == Init /\ [][Next]_vars

-----------------------------------------------------------------------------
(* Properties *)

TypeOK ==
  /\ wire \in Seq(Byte)
  /\ parsed \in Nat /\ faults \in 0..MaxFaults
  /\ outcome.res \in {None, "ok", "RuntimeError"}
  /\ outcome.res = "ok" =>
       /\ outcome.env.command \in Seq(Byte) /\ Len(outcome.env.command) = 12
       /\ outcome.env.payload \in Seq(Byte)

\* The ordered envelope channel, seen through the sender's list of sent
\* envelopes (those past the parse calls are still queued) and the result
\* of the last parse.
Channel == INSTANCE EnvelopeChannel
  WITH Envelopes <- [command : Commands, payload : Payloads],
       queue <- SubSeq(sent, parsed + 1, Len(sent)),
       received <- outcome.env

\* On a wire without faults, the sender's serialize and the receiver's
\* parse implement the ordered channel: every parse returns the oldest
\* envelope not yet received, with its command and payload, whatever
\* payloads follow each other (magic, 12-byte command, little-endian
\* length and checksum agree on the framing).
ImplementsChannel == Channel!Spec

\* Whatever the wire cut or corrupted, a parse that succeeds returns a
\* payload some envelope carried: a short or shifted payload read never
\* passes the checksum test.
ParsedPayloadWasSent ==
  outcome.res = "ok" => \E k \in DOMAIN sent : outcome.env.payload = sent[k].payload
=============================================================================
