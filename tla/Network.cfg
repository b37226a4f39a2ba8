SPECIFICATION MCSpec
CONSTANTS
  Local <- Subnet
  Remote = {"far"}
  Gateway = "gateway"
  ARP_CACHE_SIZE = 2
  RX_QUEUE_CAPACITY = 2
  ATTEMPTS = 2
  PINGS = 2
  TICKS = 0
  Ups <- Alive
  Unasked <- Uninvited
  DEPTH = 4
  UNASKED = 1
  SEQUENCES = 1
  RING = 2
  WRAP = 4
  Tasks <- DiskTasks
  CAPACITY = 2
  Values = {0, 1}
  QueueSizes <- Sizes
  MAX_COUNT = 2
  CALLS = 3
CHECK_DEADLOCK FALSE
INVARIANT DiskSound NicSound
PROPERTY NetworkFaithful CallsReturn PingReturns
