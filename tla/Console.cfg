CONSTANTS
  MaxEvents = 4
  Printing <- LetterAndEditing
  Cols = 5
  Rows = 3
  ByteColumn = 16
  ClockWidth = 2
  BuffSize = 5
  MaxInputBuffer = 4
  InitialStack <- ZeroedStack
  Keywords <- OneWord
  ClearWord <- Clear
  RefusedWord <- Refused
  Glyphs <- DollarAndReply
  Prompt <- Dollar
  Replies <- SilentOrLine
SPECIFICATION TerminalSpec
INVARIANTS
  CursorOnScreen
