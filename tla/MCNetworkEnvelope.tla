------------------------- MODULE MCNetworkEnvelope -------------------------
(* Two 12-byte commands as the protocol pads them ("verack", "ping"), the *)
(* unpadded command a caller may pass to the constructor, payloads of 0, *)
(* 1 and 2 bytes, and a stand-in for double_sha256 whose first four      *)
(* bytes tell apart every byte string of different length or sum.        *)
EXTENDS NetworkEnvelope

Verack == <<118, 101, 114, 97, 99, 107, 0, 0, 0, 0, 0, 0>>
Ping == <<112, 105, 110, 103, 0, 0, 0, 0, 0, 0, 0, 0>>
VerackUnpadded == <<118, 101, 114, 97, 99, 107>>

MCCommands == {Verack, Ping}
MCUnpaddedCommands == {Verack, VerackUnpadded}
MCPayloads == {<<>>, <<1>>, <<2, 3>>}
MCNoise == {0, 127}

\* a deterministic 32-byte digest: length, weighted sum and sum of the bytes
MCDoubleSha256(b) ==
  <<Len(b) % 256,
    FoldLeftDomain(LAMBDA acc, i : (acc + i * b[i]) % 256, 0, b),
    FoldLeft(LAMBDA acc, d : (acc + d) % 256, 0, b),
    7>> \o Zeros(28)
=============================================================================
