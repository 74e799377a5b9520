SPECIFICATION Spec
CONSTANTS
  v3 = v3
  elite = elite
  back = back
  wheel = wheel
  right = right
  left_ = left_
  none = none
  copy = copy
  default = default
  soft = soft
  ctrlC = ctrlC
  disabled = disabled
  d_back = d_back
  d_wheel = d_wheel
  d_right = d_right
  d_left = d_left
  Buttons = {back, wheel, right, left_}
  Writable = {back, wheel, right}
  MainClicks = {right, left_}
  Binds = {d_back, d_wheel, d_right, d_left, ctrlC, disabled}
  Known = {d_back, d_wheel, d_right, d_left, ctrlC, disabled}
  Default <- MCDefault
  Keys <- MCKeys
  ButtonOf <- MCButtonOf
  KeyOf <- MCKeyOf
  Texts = {none, copy, default, soft}
  SoftOf <- MCSoftOf
  BindOf <- MCBindOf
  NoneText = none
  Thumbs = {back}
  NoButton = NoButton
  NoBind = NoBind
  Native = Native
  NotAction = NotAction
  AtDefault = AtDefault
  NotBind = NotBind
  Mice = {v3, elite}
  Keymapped = {v3}
  DpiButtons = {elite}
  Registers = {"rate"}
  Values = {1, 2}
  Takes <- MCTakes
  Keep = Keep
  Optional = {"rate"}
  Defaults <- MCDefaults
  Edits <- MCEdits
  Found <- MCFound
  MaxMoves = 3
  Order <- MCOrder
  Missing = Missing
  Malformed = Malformed
  Absent = Absent
  Torn = Torn
  NoMouse = NoMouse
INVARIANTS
  ActiveIsValid
  MouseHasConfig
  WritesAreApproved
  SettingsAreSaved
PROPERTIES
  OnlyWholeFiles
  RemapsSurvive
