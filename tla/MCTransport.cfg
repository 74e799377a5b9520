SPECIFICATION FairSpec
CONSTANTS
  main = main
  notice = notice
  dpi = dpi
  bind = bind
  wheel = wheel
  logo = logo
  low = low
  high = high
  Threads <- MCThreads
  Regs <- MCRegs
  Captured <- MCCaptured
  Writable <- MCWritable
  ProbeReg = dpi
  Values <- MCValues
  Leds <- MCLeds
  Zones <- MCZones
  Requested <- MCRequested
  Nobody = Nobody
  Clear = Clear
PROPERTIES
  VerifiedWrite
  ConfirmedChannel
  ImplementsGate
  ChannelReleased
CHECK_DEADLOCK FALSE
