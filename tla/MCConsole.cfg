SPECIFICATION Spec
CONSTANTS
  SCREEN_COLUMNS = 3
  SCREEN_ROWS = 4
  SCREEN_SPLIT_TXT_ROWS = 2
  FRAME_ROWS = 6
  HISTORY_SIZE = 3
  HISTORY_LINE_LENGTH = 4
  LINE_SIZE = 6
  Glyphs = {"a", "b", " "}
  Programs <- MCPrograms
INVARIANTS TextTrue LineShown HistoryKept
