SPECIFICATION ServiceSpec
CONSTANTS
  r1 = r1
  j1 = j1
  NoJob = NoJob
  Replicas <- MCOneReplica
  Jobs <- MCOneJob
  Message <- MCWordMessage
  WorkerConcurrency = 1
  FaultKinds = {"crash", "signal", "disconnect", "savefail", "expiry"}
  MaxFaults = 2
  MaxOverlap = 2
  NetworkFails = TRUE
INVARIANTS
  ServiceTypeOK
  ShownIsRecorded
PROPERTIES
  ShownConverges
  OutcomeIsSeen
CHECK_DEADLOCK FALSE
