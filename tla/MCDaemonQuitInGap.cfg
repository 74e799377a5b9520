SPECIFICATION Spec
CONSTANTS
  elite = elite
  v3 = v3
  r1 = r1
  n1 = n1
  n2 = n2
  Mice <- MCMice
  Buttons <- MCButtons
  Keymapped <- MCKeymapped
  MaxDpi <- MCOneRange
  Ladder <- MCLadder
  Slider <- MCOnePosition
  Readers <- MCReaders
  Notices <- MCOneNotice
  UserMax = 1
  Unsupported = Unsupported
  None = None
INVARIANT
  QuitRestores
CHECK_DEADLOCK FALSE
