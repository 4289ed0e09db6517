SPECIFICATION TestSpec
CONSTANTS
  XLEN = 8
  H = 16
  NReg = 4
  PC_INIT = 128
  Poison = 3
  MIE = 2
  MPIE = 3
  MPP0 = 1
  MPP1 = 6
  MPRV = 4
  UXL = 7
  ExtI = 0
  ExtU = 5
  MSI = 2
  MTI = 3
  MEI = 5
  A0 = 1
  A7 = 2
  ExitCall = 93
  MemWords = 8
  InstTable <- TestInsts
  Images <- AllImages
  IrqLines <- NoIrq
  ToHost = 184
  RunRiscvTest = TRUE
  OnlyModeM = FALSE
  InitGprs = FALSE
  CommitTimeout = 22
  ShouldDelay = TRUE
  DumpHistory = TRUE
  Delay = 40
  DumpAt = 10
INVARIANTS TestsAgree NoAlarm RegistersAgree MemoryAgrees PassEarned CommitsInTime
PROPERTIES Ends
CHECK_DEADLOCK FALSE
