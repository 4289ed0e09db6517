SPECIFICATION TrapSpec
CONSTANTS
  XLEN = 8
  H = 16
  NReg = 4
  PC_INIT = 128
  Poison = 3
  MIE = 2
  MPIE = 3
  MPP0 = 1
  MPP1 = 6
  MPRV = 4
  UXL = 7
  ExtI = 0
  ExtU = 5
  MSI = 2
  MTI = 3
  MEI = 5
  MemWords = 7
  InstTable <- HandlerInsts
  Images <- HandlerImages
  IrqLines <- SomeIrqs
INVARIANTS FrameKept ExecutesInTime
PROPERTIES TrapReturns InterruptReplays
