SPECIFICATION Spec
CONSTANTS
  back = back
  wheel = wheel
  copy = copy
  off = off
  chord = chord
  disabled = disabled
  junk = junk
  Buttons = {back, wheel}
  Texts = {copy, off, junk}
  Binds = {chord, disabled}
  MeaningOf <- MCMeaningOf
  TextOf <- MCTextOf
  Mods = {"ctrl"}
  SendsOf <- MCSendsOf
  Typed = {"c"}
  Left <- MCLeft
  QueueMax = 2
  NoButton = NoButton
  NoText = NoText
  NoTest = NoTest
  Blank = Blank
  Bad = Bad
  Silence = Silence
  Unmanaged = Unmanaged
  Failed = Failed
INVARIANTS
  TypeOK
  ResultsComeHome
  TestIsStored
  UntouchedIsQuiet
PROPERTIES
  SavingEnds
CHECK_DEADLOCK FALSE
