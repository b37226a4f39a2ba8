SPECIFICATION MCSpec
CONSTANTS
  MOUSE_BUFFER_SIZE = 2
  Events <- MouseEvents
  Still <- NoEvent
  PacketSize = 4
  MaxPackets = 5
  MaxLost = 3
  QUEUE_SIZE = 2
  MAX_WINDOWS = 2
  MaxOpened = 3
  Icons = 2
  MenuApps = 1
  MaxMouse = 4
CHECK_DEADLOCK FALSE
INVARIANT MouseSound DesktopSound
PROPERTY DragNeverAdopts
