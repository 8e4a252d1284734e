---------------------------- MODULE BlockHeader ----------------------------
(***************************************************************************)
(* The 80-byte block header of src/NanoBtcLibrary/Python/block.py:        *)
(* Block.parse from a byte stream, serialize, hash, the version-bit        *)
(* signalling predicates, target, difficulty and check_pow.                *)
(*                                                                         *)
(* Bytes are integers in 0..255 and byte strings are sequences of them.    *)
(* Integers wider than TLC's are kept as big-endian base-256 digit         *)
(* sequences (what int.from_bytes(s, 'big') reads), and compared as        *)
(* numbers.  double_sha256 is the constant operator DoubleSha256; the MC   *)
(* module gives it a deterministic 32-byte value.                          *)
(***************************************************************************)
EXTENDS ByteStreams

CONSTANTS
  Streams,          \* byte streams a header may be parsed from
  DoubleSha256(_),  \* helper.double_sha256: bytes -> 32 bytes
  None              \* Python's None

VARIABLES
  stream,    \* the unread bytes of the BytesIO
  block,     \* None or the parsed Block's header fields
  consumed,  \* the bytes the last parse read
  outcome    \* the operation last called and what it returned

vars == <<stream, block, consumed, outcome>>

\* the digits of a big-endian number without its leading zeros
RECURSIVE Norm(_)
Norm(d) == IF d # <<>> /\ d[1] = 0 THEN Norm(Tail(d)) ELSE d

\* a < b for big-endian digit sequences
BigLess(a, b) ==
  LET x == Norm(a)
      y == Norm(b)
  IN  \/ Len(x) < Len(y)
      \/ /\ Len(x) = Len(y)
         /\ \E i \in 1..Len(x) : x[i] < y[i] /\ \A j \in 1..(i - 1) : x[j] = y[j]

-----------------------------------------------------------------------------
(* Block methods on a header record *)

\* the header fields in wire order and their widths
HeaderWidths == <<4, 32, 32, 4, 4, 4>>

\* the header record of the six reads f, with the merkle root as given
HeaderOf(f, root) ==
  [version |-> little_endian_to_int(f[1]), prev_block |-> Reverse(f[2]),
   merkle_root |-> root, timestamp |-> little_endian_to_int(f[4]),
   bits |-> f[5], nonce |-> f[6]]

\* Variants of Block.parse with a plausible bug: the merkle root is kept in
\* wire order, or bits reads 8 bytes.
ParseFieldsNoReverse(s) == LET f == Reads(s, HeaderWidths) IN HeaderOf(f, f[3])
ParseFieldsWideBits(s) ==
  LET f == Reads(s, [HeaderWidths EXCEPT ![5] = 8]) IN HeaderOf(f, Reverse(f[3]))

\* Block.parse: the six fields in order, the two 32-byte ids reversed
ParseFields(s) == LET f == Reads(s, HeaderWidths) IN HeaderOf(f, Reverse(f[3]))

\* Block.serialize
serialize(b) ==
  int_to_little_endian(b.version, 4) \o Reverse(b.prev_block)
    \o Reverse(b.merkle_root) \o int_to_little_endian(b.timestamp, 4)
    \o b.bits \o b.nonce

\* Variant of Block.hash that forgets the [::-1].
hashNoReverse(b) == DoubleSha256(serialize(b))

\* Block.hash: the digest in display order
hash(b) == Reverse(DoubleSha256(serialize(b)))

bip9(b) == b.version \div 2^29 = 1
bip91(b) == (b.version \div 2^4) % 2 = 1
bip141(b) == (b.version \div 2^1) % 2 = 1

\* Block.target: coefficient * 2**(8*(exponent - 3)).  For exponent < 3
\* Python's 2** of a negative number is a float, so the target is the
\* fraction num / 256^frac; num is a big-endian digit sequence.
target(b) ==
  LET e == b.bits[Len(b.bits)]
      coefficient == Reverse(SubSeq(b.bits, 1, Len(b.bits) - 1))
  IN  [num |-> coefficient \o Zeros(IF e >= 3 THEN e - 3 ELSE 0),
       frac |-> IF e >= 3 THEN 0 ELSE 3 - e]

\* minimum_target = 0xffff * 2**(8*(0x1d - 3))
MinimumTarget == <<255, 255>> \o Zeros(29 - 3)

\* Block.difficulty: minimum_target / target, as the exact fraction
difficulty(b) ==
  LET t == target(b)
  IN  IF Norm(t.num) = <<>> THEN "ZeroDivisionError"
      ELSE [num |-> MinimumTarget \o Zeros(t.frac), den |-> t.num]

\* Block.check_pow: int.from_bytes(hash, 'big') < target
check_pow(b) ==
  LET t == target(b) IN BigLess(hash(b) \o Zeros(t.frac), t.num)

-----------------------------------------------------------------------------
(* Operations *)

Init ==
  /\ stream \in Streams
  /\ block = None
  /\ consumed = <<>>
  /\ outcome = [op |-> "init", res |-> None]

\* Block.parse(s): reads the next 80 bytes, or what is left of them; a
\* short read is not an error
Parse ==
  LET n == IF Len(stream) < 80 THEN Len(stream) ELSE 80
  IN  /\ block' = ParseFields(stream)
      /\ consumed' = SubSeq(stream, 1, n)
      /\ stream' = SubSeq(stream, n + 1, Len(stream))
      /\ outcome' = [op |-> "parse", res |-> "ok"]

\* the read-only methods of a parsed Block
Query(op, res) ==
  /\ block # None
  /\ outcome' = [op |-> op, res |-> res]
  /\ UNCHANGED <<stream, block, consumed>>

Serialize == Query("serialize", serialize(block))
Hash == Query("hash", hash(block))
Bip9 == Query("bip9", bip9(block))
Bip91 == Query("bip91", bip91(block))
Bip141 == Query("bip141", bip141(block))
\* target, difficulty and check_pow index bits[-1]: IndexError when empty
BitsQuery(op, res) ==
  Query(op, IF block.bits = <<>> THEN "IndexError" ELSE res)

Target == BitsQuery("target", target(block))
Difficulty == BitsQuery("difficulty", difficulty(block))
CheckPow == BitsQuery("check_pow", check_pow(block))

Next ==
  \/ Parse
  \/ Serialize \/ Hash \/ Bip9 \/ Bip91 \/ Bip141
  \/ Target \/ Difficulty \/ CheckPow

Spec == Init /\ [][Next]_vars

-----------------------------------------------------------------------------
(* Properties *)

\* a byte string of at most n bytes
Bytes(s, n) == s \in Seq(Byte) /\ Len(s) <= n

\* Every field of a parsed header fits its width in the 80-byte layout.
TypeOK ==
  /\ stream \in Seq(Byte)
  /\ Bytes(consumed, 80)
  /\ block = None
     \/ /\ block.version \in Nat /\ block.timestamp \in Nat
        /\ Bytes(block.prev_block, 32) /\ Bytes(block.merkle_root, 32)
        /\ Bytes(block.bits, 4) /\ Bytes(block.nonce, 4)

\* serialize(parse(bytes)) == bytes for every full 80-byte header read off
\* a stream, whatever follows it (spec section 3, test_serialize).
RoundTrip ==
  (block # None /\ Len(consumed) = 80) => serialize(block) = consumed

\* The compact target as spec section 6 lays it out on the wire: bytes
\* 73..75 the little-endian coefficient, byte 76 the exponent.
WireTarget(w) == Reverse(SubSeq(w, 73, 75)) \o Zeros(w[76] - 3)

\* check_pow of a parsed header is Bitcoin's rule on the bytes it came
\* from: the double hash of those 80 bytes, read as a little-endian number,
\* is below the target their bits field encodes.  This goes through
\* parse, serialize, hash's reversal and target's decoding.
PowOfWireBytes ==
  (block # None /\ Len(consumed) = 80 /\ consumed[76] >= 3)
    => (check_pow(block) <=> BigLess(Reverse(DoubleSha256(consumed)), WireTarget(consumed)))

\* parse fails unless 80 bytes are left (spec 4.2, TruncatedInput).
ParseNeedsFullHeader ==
  outcome.op = "parse" => Len(consumed) = 80

\* target() yields a whole number or fails (spec 4.1, MalformedTarget).
TargetIsWhole ==
  (outcome.op = "target" /\ block.bits # <<>>) => outcome.res.frac = 0

\* difficulty() divides by zero only for an all-zero bits field: spec 4.1
\* says "c = 0 implies an all-zero bits field", which callers reject.
DifficultyDefinedUnlessBitsZero ==
  (outcome.op = "difficulty" /\ block.bits # <<>> /\ Norm(target(block).num) = <<>>)
    => block.bits = Zeros(4)
=============================================================================
