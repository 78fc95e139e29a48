SPECIFICATION MachineSpec
CONSTANTS
  NPROC = 3
  CONSOLE_ROWS = 2
  CONSOLE_COLUMNS = 2
  LAST_ROW = 1
  TICKS = 3
  HALF_SECOND = 2
  Texts <- MCTexts
  UINT = 256
  ULONG = 4096
  BUFSIZE = 160
  Formats <- MCFormats
  Args <- MCArgs
INVARIANTS
  RegistersKept
  ViewerFindsLive
  ConsoleInBounds
  CursorLeavesBottom
  FormatNotOverrun
  FieldsReadBack
  PanicMessageFits
  MInv
PROPERTIES
  EveryoneShown
