SPECIFICATION Spec
CONSTANTS
  elite = elite
  v3 = v3
  r1 = r1
  n1 = n1
  n2 = n2
  Mice <- MCMice
  Buttons <- MCButtons
  Keymapped <- MCKeymapped
  MaxDpi <- MCMaxDpi
  Ladder <- MCLadder
  Slider <- MCSlider
  Readers <- MCReaders
  Notices <- MCNotices
  UserMax = 2
  Unsupported = Unsupported
  None = None
INVARIANTS
  LatchesAreTrue
  DriverModeIsHeard
PROPERTIES
  NoReconnect
  QuitRestoresSession
SYMMETRY MCSymmetry
CHECK_DEADLOCK FALSE
