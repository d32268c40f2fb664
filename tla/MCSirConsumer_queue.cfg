SPECIFICATION FairSpec
CONSTANTS
  w1 = w1
  w2 = w2
  Workers <- MCWorkers
  Jobs <- MCJobs
  Outcome <- MCOutcome
  MaxFaults = 2
INVARIANTS
  TypeOK
  NoJobLost
  OnlyTransformedIsAcked
  UnackedIsHeld
  OneLiveTransformer
PROPERTY
  EarlierJobsServed
CHECK_DEADLOCK FALSE
