\* Two threads add three jobs; stop is called twice, as by ~VehicleDetection.
SPECIFICATION FairSpec
CONSTANTS
  Producers = {p1, p2}
  Worker = worker_thread
  NoThread = NoThread
  Jobs = {j1, j2}
  NoJob = NoJob
  MaxJobs = 3
  MaxStops = 2
INVARIANTS
  TypeOK
  NoRaceOnQueue
  NoSleepOverAJob
  ReturnedMeansGone
PROPERTIES
  EveryJobHandled
  ImplementsJobQueue
\* The system stops once the last job is handled, or stop has returned.
CHECK_DEADLOCK FALSE
