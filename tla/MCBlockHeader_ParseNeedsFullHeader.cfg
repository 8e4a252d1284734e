CONSTANTS
  None = None
  Streams <- MCStreams
  DoubleSha256 <- MCDoubleSha256

SPECIFICATION Spec

INVARIANTS
  ParseNeedsFullHeader
