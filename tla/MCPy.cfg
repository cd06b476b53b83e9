SPECIFICATION Spec
CONSTANTS
  Half = 8
  Numerals <- MCNumerals
  Literals <- MCLiterals
  Sources <- MCSources
  Menus <- MCMenus
  MaxLines = 5
  MaxTokens = 120
  MaxIndent = 3
  WhileMax = 5
  ListMax = 3
  EnvSlots = 3
  FuncArgs = 2
  MaxFiles = 2
  MaxFd = 2
  FileMax = 3
INVARIANTS SessionIsScript CallsAgree
CHECK_DEADLOCK FALSE
