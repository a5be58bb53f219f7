\* Two submitters race two stops over two workers and a channel of one place;
\* four jobs fill the channel and overflow it.
SPECIFICATION Spec
CONSTANTS
  Jobs = {j1, j2, j3, j4}
  Submitters = {s1, s2}
  Workers = {w1, w2}
  Stoppers = {p1, p2}
  QueueSize = 1
  MayCancel = TRUE
  NoJob = NoJob
  NoProc = NoProc
SYMMETRY Symmetry
INVARIANTS TypeOK ChannelUsedSafely FirstInFirstOut Backpressure
  GaugeIsHonest PoolKeepsItsWorkers DrainedMeansSettled
PROPERTIES NothingAcceptedAfterStop KeepsTheLedger
