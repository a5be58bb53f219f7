\* Jobs may never end: the callers of Submit and Stop must not notice. If they
\* do end, whatever was accepted is settled and the pool winds down.
SPECIFICATION FairSpec
CONSTANTS
  Jobs = {j1, j2}
  Submitters = {s1, s2}
  Workers = {w1, w2}
  Stoppers = {p1, p2}
  QueueSize = 1
  MayCancel = TRUE
  NoJob = NoJob
  NoProc = NoProc
PROPERTIES CallsReturn SettlesWhatItOwes StartEnds
