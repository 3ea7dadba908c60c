CONSTANTS
  NTests <- MCNTests
  NPackets <- MCNPackets
  MaxInvocations <- MCMaxInvocations
  StrAccepted = FALSE
  SleepsSuffice = TRUE
  CaptureMayFail = TRUE
  NoFile = NoFile
SPECIFICATION Spec
INVARIANTS
  SingleDaemonAtInjection
