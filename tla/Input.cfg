SPECIFICATION MCSpec
CONSTANTS
  KEY_BUFFER_SIZE = 3
  Events <- KeyEvents
  Unknown <- NoEvent
  Keys <- AllKeys
  WireSize = 4
  MaxStrokes = 3
  LOG_RING_CAPACITY = 3
  Loggers <- Logging
  Dmesg = "dmesg"
  Free = "free"
  MaxSeq = 7
PROPERTY TypedFaithfully ImplementsQueue EveryKeyRead LogFaithful
