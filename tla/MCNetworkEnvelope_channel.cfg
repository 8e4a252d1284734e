CONSTANTS
  None = None
  Commands <- MCCommands
  Payloads <- MCPayloads
  Noise <- MCNoise
  DoubleSha256 <- MCDoubleSha256
  MaxSends = 3
  MaxFaults = 0
  FaultKinds = {"cut", "corrupt"}

SPECIFICATION Spec

PROPERTIES
  ImplementsChannel

CHECK_DEADLOCK FALSE
