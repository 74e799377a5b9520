SPECIFICATION Spec
CONSTANTS
  d1 = d1
  c1 = c1
  c2 = c2
  Daemons <- MCDaemons
  Tools <- MCTools
  Threads <- MCThreads
  NoTick = NoTick
INVARIANTS
  TickIsRead
  RemovalIsRespected
PROPERTIES
  ImplementsLease
  LeaseComesBack
