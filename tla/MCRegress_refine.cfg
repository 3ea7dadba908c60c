CONSTANTS
  NTests <- MCNTests
  NPackets <- MCNPackets
  MaxInvocations <- MCMaxInvocations
  StrAccepted = TRUE
  SleepsSuffice = TRUE
  CaptureMayFail = TRUE
  NoFile = NoFile
SPECIFICATION Spec
PROPERTIES
  SupervisorSafety
