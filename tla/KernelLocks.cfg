SPECIFICATION LiveSpec
CONSTANTS
  Tasks <- TwoTasks
  Workloads <- QuietOrScheduling
CHECK_DEADLOCK FALSE
INVARIANTS
  LocksSound
PROPERTIES
  DeferredNeverOverwritten
  NoDeadlock
