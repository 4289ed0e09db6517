SPECIFICATION BusSpec
CONSTANTS
  XLEN = 8
  H = 16
  Hart = {h1, h2}
  Base = 0
  Length = 12
  AddrSpace = 13
  Requests <- AllRequests
  Images <- Zeroed
  Accesses <- SharedAccesses
  Src <- SomeValues
  AmoOps <- SomeOps
INVARIANTS AluAgrees MduAgrees AmoAgrees Disjoint LookupFinds
PROPERTIES AtomicSpec
