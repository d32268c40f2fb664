SPECIFICATION Spec
CONSTANTS
  r1 = r1
  r2 = r2
  j1 = j1
  j2 = j2
  j3 = j3
  j4 = j4
  j5 = j5
  j6 = j6
  j7 = j7
  j8 = j8
  Replicas <- MCTwoReplicas
  Jobs <- MCTwoJobs
  Message <- MCTwoMessages
  WorkerConcurrency = 1
  FaultKinds = {"crash"}
  MaxFaults = 2
INVARIANT
  SlotWaitIsShort
PROPERTIES
  EventuallyRecorded
  ImplementsLifecycle
CHECK_DEADLOCK FALSE
