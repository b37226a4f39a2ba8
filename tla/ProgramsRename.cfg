SPECIFICATION MCSpec
CONSTANTS
  Hosts = {"h1"}
  Schemes = {"green", "blue"}
  MAX_COMMANDS = 2
  TROUBLES = 2
  HISTORY_SIZE = 2
  MAX_CMD_LEN = 5
  COLS = 5
  HEIGHT = 7
  CHAR_HEIGHT = 2
  Chars = {"a", "b"}
  COMMANDS <- MCCommands
  KEYS = 10
CHECK_DEADLOCK FALSE
PROPERTY RenameKeepsText
