--------------------------- MODULE MCBlockHeader ---------------------------
(* Header streams for model checking, from field values that exercise the  *)
(* signalling bits (0x20000002, 0x20000012, 4), targets with exponent 0x18 *)
(* and 0x1d, an exponent below 3 and a zero coefficient, and two nonces;   *)
(* each full header is also cut short and followed by one more byte.       *)
(* Versions and timestamps stay below 2^31, TLC's integer range.           *)
EXTENDS BlockHeader

MCVersions == { <<2, 0, 0, 32>>, <<18, 0, 0, 32>>, <<4, 0, 0, 0>> }
MCPrev == [i \in 1..32 |-> i]
MCRoots == { [i \in 1..32 |-> 100 + i], [i \in 1..32 |-> 200 - i] }
MCTimestamp == <<30, 119, 167, 89>>
MCBits == { <<233, 60, 1, 24>>, <<255, 255, 0, 29>>, <<1, 128, 0, 2>>, <<0, 0, 0, 3>> }
MCNonces == { <<164, 255, 215, 29>>, <<164, 255, 215, 28>> }

MCHeaders ==
  { v \o MCPrev \o r \o MCTimestamp \o b \o n :
      v \in MCVersions, r \in MCRoots, b \in MCBits, n \in MCNonces }

MCStreams ==
  MCHeaders
    \cup { SubSeq(h, 1, k) : h \in MCHeaders, k \in {0, 3, 40, 79} }
    \cup { Append(h, 7) : h \in MCHeaders }

(* A deterministic stand-in for double_sha256: the display-order digest    *)
(* starts with 9 zero bytes when the input's last byte is odd, else with   *)
(* 3, so that neighbouring nonces fall on both sides of the targets.       *)
MCDisplayDigest(b) ==
  LET z == IF b # <<>> /\ b[Len(b)] % 2 = 1 THEN 9 ELSE 3
  IN  [i \in 1..32 |-> IF i <= z THEN 0 ELSE (7 * i + Len(b)) % 256]

MCDoubleSha256(b) == Reverse(MCDisplayDigest(b))
=============================================================================
