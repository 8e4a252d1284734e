CONSTANTS
  None = None
  Commands <- MCCommands
  Payloads <- MCPayloads
  Noise <- MCNoise
  DoubleSha256 <- MCDoubleSha256
  MaxSends = 2
  MaxFaults = 2
  FaultKinds = {"cut", "corrupt"}

SPECIFICATION Spec

INVARIANTS
  TypeOK
  ParsedPayloadWasSent

CHECK_DEADLOCK FALSE
