SPECIFICATION Spec
CONSTANTS
  XLEN = 8
  H = 16
  NReg = 4
  PC_INIT = 128
  Poison = 3
  MIE = 2
  MPIE = 3
  MPP0 = 1
  MPP1 = 6
  MPRV = 4
  UXL = 7
  ExtI = 0
  ExtU = 5
  MSI = 2
  MTI = 3
  MEI = 5
  RunRiscvTest = TRUE
  OnlyModeM = FALSE
  InitGprs = FALSE
  TestExits = FALSE
  A0 = 1
  A7 = 2
  ExitCall = 93
  ToHost = 160
  MemWords = 3
  InstTable <- QuirkInsts
  Images <- JalrImages
  IrqLines <- NoIrq
PROPERTIES JalrTargetOfSum
