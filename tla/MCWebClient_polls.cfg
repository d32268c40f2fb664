SPECIFICATION Safety
CONSTANTS
  j1 = j1
  j2 = j2
  NoJob = NoJob
  Jobs <- MCTwoJobs
  CompileJobs <- MCOnePdf
  PdfJobs <- MCOnePdf
  EmptyJobs <- MCNoJobs
  MaxOverlap = 1
  NetworkFails = TRUE
  WorkersDie = TRUE
INVARIANTS
  TypeOK
  TerminalIsTrue
  ShownIsComplete
PROPERTY
  StatusAdvances
CHECK_DEADLOCK FALSE
