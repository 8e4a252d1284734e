# TLA+ models of NanoBtcLibrary (block header, Merkle trees, proofs)

Model-checked specifications of `src/NanoBtcLibrary/Python/block.py` and
`src/NanoBtcLibrary/Python/network.py`. The natural-language spec is `spec.md`.

## 1. Inventory

### Components and their state

| Component | Source | State | Operations |
|---|---|---|---|
| BlockHeader codec | `block.py` `Block.parse`, `serialize`, `hash`, `bip9`, `bip91`, `bip141` | the stream position (parse consumes up to 80 bytes); the six header fields, immutable once built | parse, serialize, hash, three signalling predicates |
| CompactTarget codec / proof of work | `block.py` `target`, `difficulty`, `check_pow` | none (pure functions of `bits` and the hash) | target, difficulty, check_pow |
| Block Merkle cache | `block.py` `tx_hashes`, `merkle_tree`, `calculate_merkle_tree`, `validate_merkle_root` | `tx_hashes` (None until the caller attaches the body), `merkle_tree` (None until built; a list of levels) | attach (`block.tx_hashes = ...`), calculate, validate |
| MerkleProof engine | `block.py` `create_merkle_proof`, `Proof.verify` | a `Proof` is an immutable record (root, tx_hash, index, siblings) | create (builds the tree on first use), verify (standalone) |
| helper.py | imported, not in the repository | none | `merkle_parent`, `merkle_parent_level` (pads an odd level **in place**), `merkle_root`, `merkle_path`, endian conversions, `double_sha256` |
| NetworkEnvelope | `network.py` | the stream position; an envelope is an immutable (command, payload) pair | parse (magic and checksum checks), serialize |

### Interactions

Everything runs in one thread; the components interact by calls and by the
state of one `Block` object. A header is parsed from a stream; the caller
attaches the body's transaction ids to `block.tx_hashes`; `create_merkle_proof`
builds and caches `merkle_tree` through `calculate_merkle_tree` when the cache
is `None`; the tree's stored levels are the same list objects that
`merkle_parent_level` pads, which is what lets `create_merkle_proof` read the
right partner `level_index + 1` of the last node of an odd level. A `Proof`
leaves the block and is verified by `Proof.verify` without the tree, on a
perfect tree of `2**len(siblings)` leaves.

`network.py` is independent of `block.py`: a sender constructs
`NetworkEnvelope(command, payload)` and writes `serialize()` to a byte stream;
a receiver calls `NetworkEnvelope.parse` on what arrives. Both use
`double_sha256` and the endian conversions of `helper.py`.

### What is hard

There is no concurrency inside the library. The hard behaviours are
sequences of calls on one object, boundary cases of the algorithms, and,
for the framing, a stream that two parties share and that may arrive cut or
corrupted:

* the cache: `calculate_merkle_tree` resets `merkle_tree = []` before it checks
  `tx_hashes`, and nothing ever invalidates the cache (partial failure, stale state);
* the aliasing between stored levels and the padding done by the helper;
* odd leaf counts at one or several levels, one leaf, powers of two;
* two byte orders (display and internal) mixed in every operation;
* the verifier's perfect-tree assumption (spec section 9);
* a root that commits to more than one body: the duplication rule gives a
  body with its tail repeated the same root, and `validate_merkle_root`
  compares roots only;
* short reads of the stream, exponents below 3, zero coefficients;
* `tx_hashes` assigned again after the tree is cached (stale cache);
* a parse that fails after consuming part of a frame leaves the stream
  misaligned; a corrupted length field makes the payload read swallow the
  rest of the stream; commands are not padded by `serialize`.

The full list, each at its line, is `PROJECT.json` "hazards".

### Properties that make each component correct

* Header: `serialize(parse(b)) = b` for full headers; parse fails on short
  input; check_pow is Bitcoin's rule on the wire bytes; target is whole or fails.
* Merkle cache: the cached tree is the reference Merkle tree of the attached
  transactions; proof creation for a transaction of the block never fails.
* Proof engine: a handed-out proof verifies exactly when `validate_merkle_root`
  accepts the block; a verified proof names a real leaf position; the whole
  service implements the abstract `ProofIssuer`.
* Framing: on a clean wire it is an ordered channel of envelopes; on a faulty
  one, an accepted payload is always one that was sent.

## 2. Modules and how they correspond to the code

### `ByteStreams.tla` (shared)

`Read(s, n)` is `s.read(n)` on a `BytesIO` (short at the end of the stream),
`Drop` what is left after it, `Reads(s, widths)` a run of consecutive reads
(the field-by-field parsing of both `parse` methods). `little_endian_to_int`
and `int_to_little_endian` are `helper.py`'s (spec section 6).
`LittleEndianAtMost(b, cap)` is `min(little_endian_to_int(b), cap)`, folded
so that it never leaves TLC's 32-bit integers: it is what `s.read` of a
4-byte length makes of a stream with `cap` bytes left, exactly.

### `MerkleBlock.tla` (runs `merkle_block`, `merkle_stale_cache`, `verifier_index`, `merkle_reassign`)

Variables: `merkle_root` (the header field), `tx_hashes`, `merkle_tree`,
`proofs` (the `Proof` objects returned so far), `outcome` (the last call and
its return value or exception).

A 32-byte hash is a record `[ord, val]`; `ord` is `"disp"` or `"int"` and
`x[::-1]` (`Rev`) flips it, so a missing or extra reversal changes the value.
`double_sha256(a + b)` is the term `Internal(<<a, b>>)`: the hash primitive
is treated as collision free (spec section 6 makes it an external black box).
The helper functions are modelled from spec sections 4.3/4.4 and from the
padded levels `test_calculate_merkle_tree` expects (`want2` has 4 entries for
3 nodes); they are marked `spec_modelled` in the map.

| Action | Code |
|---|---|
| `Init` | `Block.parse` / `__init__`: a header committing to some body, `tx_hashes = merkle_tree = None` |
| `AttachTxHashes(b)` | the caller's `block.tx_hashes = hashes`: once, per the spec's lifecycle, unless the constant `Reassign` is TRUE (run `merkle_reassign`); the cache is left as it is either way |
| `CalculateMerkleTree` | `calculate_merkle_tree`, including the `[]` left behind by its RuntimeError |
| `CreateMerkleProofNoTx(h)` | `create_merkle_proof` returning None |
| `CreateMerkleProof(h)` | `create_merkle_proof`: cache check, `.index`, `merkle_path(index, 0)` after `tx_hashes = []` (ValueError from `math.log`), the path walk (IndexError), the sanity check (RuntimeError) |
| `ValidateMerkleRoot` | `validate_merkle_root` (TypeError on None, IndexError on an empty list) |
| `VerifyProof(p)` | `Proof.verify` |
| `VerifyRelayedProof(p, i)` | `Proof.verify` of a held proof whose index was changed in transit (`Indexes`: up to twice the largest body) |

`RefTree`/`RefRoot` are an independent recursive definition of the Merkle tree
(level k has ceil(n/2^k) nodes; a position past a level's end stands for its
last node), against which the builder is checked. `PerfectLeaves` is a
second, sequence-based statement of the duplication rule: the leaves of the
perfect tree a body stands for (an odd number of blocks gets its last block
again, neighbouring blocks are joined). `ValidateAcceptsSamePerfectTree`
uses it to say which bodies `validate_merkle_root` accepts: exactly those
with the same perfect-tree leaves as a body whose reference root the header
holds. Since the attached body is itself such a body when it validates, the
property amounts to `validate_merkle_root` (its reversals at lines 136 and
140 and `merkle_root`) agreeing with the reference root; the state space
shows the consequence, `<<t1, t2, t3, t3>>` accepted against the header of
`<<t1, t2, t3>>` (the body malleability known from CVE-2012-2459).

### `ProofIssuer.tla` (abstract; run `merkle_block`)

The promise of the proof service without trees, hashes or byte orders: a
body is attached once; `Issue(tx)` adds `[tx, index, valid]` for a
transaction of the body, `index` its first position, `valid` whether the
header commits to the body. `MerkleBlock` instantiates it as `Issuer` with
`body <- tx_hashes`, `header <- merkle_root`, `issued <- ` the handed-out
proofs with `valid` computed by `Proof.verify`, and "commits" meaning the
header holds the body's reference root `RefRoot`. `ImplementsProofIssuer ==
Issuer!Spec` is checked as a property: attach maps to `Attach`, a successful
`create_merkle_proof` to `Issue`, everything else to a stutter.

### `BlockHeader.tla` (runs `block_header`, `header_truncated`, `target_small_exponent`, `difficulty_zero_coefficient`)

Variables: `stream` (unread bytes), `block` (parsed fields), `consumed` (the
bytes the last parse read), `outcome`. Bytes are `0..255`; field widths are the
code's (4, 32, 32, 4, 4, 4). Numbers wider than TLC's 32-bit integers (hashes,
targets) are big-endian base-256 digit sequences compared as numbers
(`BigLess`), which is what `int.from_bytes(.., 'big')` and `<` do. A target
with exponent below 3 is the exact fraction Python's float holds.
`double_sha256` is the constant operator `DoubleSha256`; `MCBlockHeader`
gives it a deterministic stand-in whose display digest has 9 leading zero
bytes for an odd last byte and 3 otherwise, so neighbouring nonces land on
both sides of the targets (like the two `test_check_pow` fixtures).
`difficulty` is kept as the exact fraction; the float rounding of `/` is not
modelled (no property reads it).

### `NetworkEnvelope.tla` (runs `network_envelope`, `network_channel`, `envelope_unpadded_command`)

Variables: `wire` (bytes written and not yet read), `sent` (the envelopes
the sender wrote, in order), `parsed` (parse calls so far), `faults`,
`outcome` (the last parse's result or exception).

| Action | Code |
|---|---|
| `Send(c, p)` | `NetworkEnvelope(c, p).serialize()` written to the stream (bounded by `MaxSends`) |
| `Parse` | `NetworkEnvelope.parse(s)` on the unread bytes, whole: magic read and check (4 bytes consumed on failure), 12-byte command, length, checksum, short payload read, checksum test, `cls(command, payload)` |
| `Cut(n)` | the connection drops: the unread bytes end after `n` (a fault, bounded by `MaxFaults`; enabled when `"cut" \in FaultKinds`) |
| `Corrupt(i, v)` | a byte arrives changed (a fault; enabled when `"corrupt" \in FaultKinds`). |

`double_sha256` is the constant operator `DoubleSha256`; `MCNetworkEnvelope`
gives it a stand-in whose first four bytes are the length, a weighted sum
and the sum of the bytes, so a cut or a changed payload byte changes the
checksum, as the real hash does with overwhelming probability.

### `EnvelopeChannel.tla` (abstract; runs `network_channel`, `envelope_unpadded_command`)

An ordered channel: `Send(e)` enqueues, `Receive` returns the oldest
envelope. `NetworkEnvelope` instantiates it as `Channel` with
`queue <- SubSeq(sent, parsed + 1, Len(sent))` and `received <- outcome.env`;
`ImplementsChannel == Channel!Spec`.

## 3. Runs

| Run | Checks | Shows |
|---|---|---|
| `merkle_block` (pass) | `ValidateAcceptsSamePerfectTree`, `TypeOK`, `TreeMatchesReference`, `ProofVerifiesIffRootValid`, `ProofCompleteness`, `ImplementsProofIssuer` | every call sequence keeps the byte orders straight, caches exactly the reference tree, hands out proofs that verify iff the header root matches the body, and never fails to prove a transaction of the block except after the stale empty cache; `validate_merkle_root` accepts exactly the bodies with the committed body's perfect-tree leaves, the committed body with its duplicated tail repeated included; together they refine the abstract proof service `ProofIssuer` |
| `merkle_stale_cache` (violation) | `NoSpuriousProofError` | calculate before attach, attach, create: IndexError for a transaction of the block (finding, `block.py:146`) |
| `verifier_index` (violation) | `VerifiedIndexIsLeafPosition` | a one-leaf proof verifies with any index, an odd tree's last proof with the phantom duplicate position (spec gap, `block.py:38`, spec section 9) |
| `block_header` (pass) | `TypeOK`, `RoundTrip`, `PowOfWireBytes` | full headers round-trip, even with trailing bytes; check_pow is the little-endian double hash of the wire bytes below the wire target |
| `header_truncated` (violation) | `ParseNeedsFullHeader` | parse of an empty or short stream returns a header (finding, `block.py:63`) |
| `target_small_exponent` (violation) | `TargetIsWhole` | bits `01800002` give the target 0x8001/256 (finding, `block.py:113`) |
| `difficulty_zero_coefficient` (violation) | `DifficultyDefinedUnlessBitsZero` | bits `00000003` make `difficulty()` divide by zero though the field is not all zero (finding, `block.py:121`, spec 4.1) |
| `merkle_reassign` (violation) | `ProofIsForCurrentBody` | attach the 6-transaction body, calculate, attach the 5-transaction body, create `t6`: the stale cached tree yields a proof for a transaction not in the block (finding, `block.py:163`) |
| `network_envelope` (pass) | `TypeOK`, `ParsedPayloadWasSent` | with two cuts or corrupted bytes anywhere, every accepted envelope has a 12-byte command and a payload that was sent, also after misaligned parses |
| `network_channel` (pass) | `ImplementsChannel` | on a clean wire, serialize/parse of padded commands refine the ordered channel |
| `envelope_unpadded_command` (violation) | `ImplementsChannel` | `NetworkEnvelope(b'verack', b'').serialize()` is misread by `parse` (finding, `network.py:48`) |

Every property of a passing run has a mutant in `PROJECT.json` (a plausible
bug: a missing reversal, an unpadded stored level, a missing root level, an
8-byte bits read, a 1-based proof index, swapped constructor arguments, a
one-byte checksum test, a big-endian length) that TLC shows violates it.

### Bounds

* `MCMerkleBlock`: six transaction ids; bodies of 0, 1, 2, 3, 5 and 6
  transactions, a reordered 3-body, and the 3-body with its last
  transaction repeated (same root, 4 leaves). These cover the empty list, a single
  leaf (empty proof), a power of two, an odd count at the leaves only (3), at
  two levels (5: 5 -> 3 -> 2), and above the leaves only (6: 6 -> 3 -> 2), and a
  header that commits to a different order than the body attached, or to
  a body the attached one only extends by repeating its tail. Every
  proof position of each of these trees is exercised; larger trees repeat
  these shapes.
* `MCBlockHeader`: 48 full headers (3 versions covering all three signalling
  bits, 2 roots, 4 bits values: exponents 0x18, 0x1d, 2, and a zero
  coefficient, 2 nonces) plus each cut at 0, 3, 40 and 79 bytes and followed
  by one extra byte. Versions stay below 2^31 (TLC's integers).
* `MCNetworkEnvelope`: the padded commands `verack` and `ping` (the unpadded
  `verack` in the violation run), payloads of 0, 1 and 2 bytes, corrupted
  bytes taking the values 0 or 127. `network_envelope`: two envelopes and
  two faults at any positions, which reaches a cut or a change in each field of
  either frame, and parses that start inside a frame; `network_channel`:
  three envelopes, no fault, so every order of payload lengths is framed.

### Fairness

None is assumed: the code is a passive library whose operations run only when
a caller invokes them, so no operation is guaranteed to happen and no liveness
property is stated. Deadlock is checked for `MerkleBlock` and `BlockHeader`
(some call is always possible). `NetworkEnvelope` runs say
`CHECK_DEADLOCK FALSE`: the exchange really ends once the sender has sent
its bounded number of envelopes and the receiver has read every byte.

## 4. Not modelled

* `double_sha256` itself (spec: external collaborator) — abstracted as above.
* `__repr__` formatting; unittest fixture values (real SHA-256 outputs).
* The checksum covers only the payload, by the wire format's design: a
  corrupted command is accepted (listed as a hazard, no property).
* Float rounding of `difficulty`.
* A composition of the framing with the header codec (a block relayed as
  an envelope's payload and parsed by `Block.parse`). `network.py` and
  `block.py` share no call and no state; the code that would hand a payload
  to `Block.parse` (dispatch on the command) is not in the repository, so a
  composed module would model glue of its own invention. What it would
  check follows from two runs: an accepted payload was sent
  (`ParsedPayloadWasSent`) and an 80-byte header round-trips (`RoundTrip`).
* Liveness: every operation is a call of a passive library, and nothing in
  the code makes a caller go on calling `parse` or `create_merkle_proof`, so
  no fairness is justified (section 3, Fairness).

## 5. Plan

Done: 1-5, 7 and 8; 6 is not modelled (section 4 says why). Also done: the
zero-coefficient `difficulty` (`difficulty_zero_coefficient`), and the bodies
`validate_merkle_root` accepts besides the committed one
(`ValidateAcceptsSamePerfectTree` in `merkle_block`).

1. `MerkleBlock` — the Merkle cache and proof engine, with the reference tree.
2. `BlockHeader` — parse/serialize/hash/target/check_pow.
3. Verifier inputs with a changed index (`verifier_index`). Changed leaf,
   sibling or root are rejected by the collision-free hash abstraction alone.
4. Reassignment of `tx_hashes` after the tree is cached (`merkle_reassign`).
5. `NetworkEnvelope` with a faulty wire, and its refinement of
   `EnvelopeChannel`.
6. `BlockChain` composition: not modelled, see section 4.
7. The abstract `ProofIssuer` and `MerkleBlock`'s refinement of it.
8. Larger bounds: two faults in `network_envelope`. A 7-leaf body was
   tried; it adds no tree shape the 3- and 5-leaf bodies lack (padding at
   the leaves only) and triples the state space of `merkle_block`.
