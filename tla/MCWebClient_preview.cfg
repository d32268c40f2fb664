SPECIFICATION Spec
CONSTANTS
  j1 = j1
  j2 = j2
  NoJob = NoJob
  Jobs <- MCTwoJobs
  CompileJobs <- MCTwoPdfs
  PdfJobs <- MCTwoPdfs
  EmptyJobs <- MCNoJobs
  MaxOverlap = 1
  NetworkFails = FALSE
  WorkersDie = FALSE
PROPERTY
  LastPdfIsShown
CHECK_DEADLOCK FALSE
