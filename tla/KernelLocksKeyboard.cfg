SPECIFICATION Spec
CONSTANTS
  Tasks <- TwoTasks
  Workloads <- KeysOnly
INVARIANT
  HandlersNeverSpin
