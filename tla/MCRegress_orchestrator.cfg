CONSTANTS
  NTests <- MCOrchTests
  NPackets <- MCOrchPackets
  MaxInvocations <- MCOrchInvocations
  StrAccepted = FALSE
  SleepsSuffice = FALSE
  CaptureMayFail = TRUE
  NoFile = NoFile
SPECIFICATION Spec
PROPERTIES
  OrchestratorSafety
