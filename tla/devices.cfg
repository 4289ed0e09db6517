SPECIFICATION DevSpec
CONSTANTS
  NrHart = 2
  H = 4
  CmpBase = 4
  TimeBase = 9
  MaxWrites = 2
  NrSource = 3
  NrContext = 2
  PriorityWrites <- SomePriorities
  EnableWrites <- SomeEnables
  ThresholdWrites <- SomeThresholds
  Fan = 2
  NrEntry = 2
  Asid = {1, 2}
  Root <- TwoRoots
  Tables <- FourTables
  PteWrites <- SomeWrites
  MaxOwed = 2
INVARIANTS TlbCurrent AccessChecked
PROPERTIES ClaimExclusive OfferedHighest Served Isolated TimerSticky NoSpurious ClintAlarmRings
