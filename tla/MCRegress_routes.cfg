CONSTANTS
  NTests <- MCNTests
  NPackets <- MCNPackets
  MaxInvocations <- MCMaxInvocations
  StrAccepted = TRUE
  SleepsSuffice = TRUE
  CaptureMayFail = FALSE
  NoFile = NoFile
SPECIFICATION Spec
INVARIANTS
  RoutesRemovedOnExit
