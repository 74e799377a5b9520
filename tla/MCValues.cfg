SPECIFICATION Spec
CONSTANTS
  NoKeymap = NoKeymap
  NoDiagram = NoDiagram
  None = None
  Refused = Refused
  BadColor = BadColor
  Mice <- MCMice
  Acts <- MCActs
  Starts <- MCStarts
  Positions <- MCPositions
  Colors <- MCColors
  Actions <- MCActions
  Binds <- MCBinds
INVARIANTS
  TypeOK
  MouseAnswersConfig
  WindowShowsConfig
  NothingRefused
  FormIsWhole
