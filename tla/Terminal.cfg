CONSTANTS
  MaxEvents = 4
  Printing <- LetterAndEditing
  Cols = 5
  Rows = 3
  ByteColumn = 16
  ClockWidth = 2
  BuffSize = 4
  MaxInputBuffer = 2
  InitialStack <- ZeroedStack
  Keywords <- OneWord
  ClearWord <- Clear
  RefusedWord <- Refused
  Glyphs <- DollarAndReply
  Prompt <- Dollar
  Replies <- SilentOrLine
SPECIFICATION TerminalSpec
INVARIANTS
  TerminalTypeOK
  ReceivedInOrder
  ModifiersFollowKeys
  CommandExact
  ScreenShowsLine
PROPERTIES
  KeysHandled
