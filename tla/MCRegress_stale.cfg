CONSTANTS
  NTests <- MCNTests
  NPackets <- MCNPackets
  MaxInvocations <- MCMaxInvocations
  StrAccepted = FALSE
  SleepsSuffice = TRUE
  CaptureMayFail = FALSE
  NoFile = NoFile
SPECIFICATION Spec
INVARIANTS
  StopToleratesForeignDaemon
