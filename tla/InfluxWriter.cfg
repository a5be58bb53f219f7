\* Five events over a channel of two places: it fills, overflows and drains
\* while the server answers, refuses or lets requests time out.
SPECIFICATION FairSpec
CONSTANTS
  Events = {e1, e2, e3, e4, e5}
  QueueSize = 2
  NoEvent = NoEvent
INVARIANTS EveryLossCounted CloseDrains
PROPERTY CloseEnds
