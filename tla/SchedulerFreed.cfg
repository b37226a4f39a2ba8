SPECIFICATION Spec
CONSTANTS
  k1 = k1
  k2 = k2
  MAX_TASKS = 3
  Stacks <- TwoStacks
  BootStack = boot
  NoStack = none
  Priorities <- TwoLevels
  Normal = 0
  Quantum <- Slices
  Delays <- LongDelay
  MaxId = 3
INVARIANT
  FreedAfterSwitch
