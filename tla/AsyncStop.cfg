\* Does a stop() that was called return?  The flag is set and the worker
\* notified without the mutex, so the worker may miss both.
SPECIFICATION FairSpec
CONSTANTS
  Producers = {p1}
  Worker = worker_thread
  NoThread = NoThread
  Jobs = {j1}
  NoJob = NoJob
  MaxJobs = 1
  MaxStops = 1
PROPERTY
  StopReturns
CHECK_DEADLOCK FALSE
