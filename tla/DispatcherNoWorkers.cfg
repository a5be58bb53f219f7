\* WORKER_POOL_SIZE=0: nobody drains the channel.
SPECIFICATION Spec
CONSTANTS
  Jobs = {j1, j2, j3}
  Submitters = {s1}
  Workers = {}
  Stoppers = {p1, p2}
  QueueSize = 2
  MayCancel = FALSE
  NoJob = NoJob
  NoProc = NoProc
INVARIANT DrainedMeansSettled
