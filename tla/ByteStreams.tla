---------------------------- MODULE ByteStreams ----------------------------
(***************************************************************************)
(* Byte strings and the reads Block.parse and NetworkEnvelope.parse make  *)
(* on a BytesIO, and the endian conversions of helper.py that both use.   *)
(* Bytes are integers in 0..255; a byte string is a sequence of them.     *)
(***************************************************************************)
EXTENDS Integers, Sequences, SequencesExt

Byte == 0..255

\* s.read(n): at most n bytes, fewer when the stream ends
Read(s, n) == SubSeq(s, 1, IF n < Len(s) THEN n ELSE Len(s))

\* what is left of the stream after s.read(n)
Drop(s, n) == SubSeq(s, n + 1, Len(s))

\* the results of the consecutive reads s.read(ws[1]), s.read(ws[2]), ...
RECURSIVE Reads(_, _)
Reads(s, ws) ==
  IF ws = <<>> THEN <<>>
  ELSE <<Read(s, Head(ws))>> \o Reads(Drop(s, Head(ws)), Tail(ws))

\* helper.little_endian_to_int(b)
little_endian_to_int(b) ==
  FoldRight(LAMBDA d, acc : d + 256 * acc, b, 0)

\* helper.int_to_little_endian(n, length)
int_to_little_endian(n, length) ==
  [i \in 1..length |-> (n \div 256^(i - 1)) % 256]

\* min(little_endian_to_int(b), cap), folded without exceeding cap: what
\* s.read(little_endian_to_int(b)) makes of a stream of cap bytes, for
\* lengths past TLC's integers too
LittleEndianAtMost(b, cap) ==
  FoldRight(LAMBDA d, acc : IF d + 256 * acc < cap THEN d + 256 * acc ELSE cap,
            b, 0)

Zeros(k) == [i \in 1..k |-> 0]
=============================================================================
