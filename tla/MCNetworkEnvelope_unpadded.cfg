CONSTANTS
  None = None
  Commands <- MCUnpaddedCommands
  Payloads <- MCPayloads
  Noise <- MCNoise
  DoubleSha256 <- MCDoubleSha256
  MaxSends = 2
  MaxFaults = 0
  FaultKinds = {"cut", "corrupt"}

SPECIFICATION Spec

PROPERTIES
  ImplementsChannel

CHECK_DEADLOCK FALSE
