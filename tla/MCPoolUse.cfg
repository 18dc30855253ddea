\* Three threads, five jobs.
CONSTANTS
  w1 = w1
  w2 = w2
  w3 = w3
  Worker <- MCThreeWorkers
  MaxJobs = 5
SPECIFICATION FairSpec
INVARIANTS
  JobsAccounted
  GoneMeansAllFinished
PROPERTIES
  StuckForever
  ImplementsJobQueue
  EveryJobFinishes
  StopReturnsIfDrained
\* The owner is done with the pool, or spins in Stop, for ever.
CHECK_DEADLOCK FALSE
