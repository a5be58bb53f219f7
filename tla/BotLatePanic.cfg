\* The drain deadline passes with a job under way.
SPECIFICATION Spec
CONSTANTS
  Mentions = {m1}
  Chatter = {c1}
  InboxSize = 1
  QueueSize = 1
  NoEvent = NoEvent
INVARIANT NothingPanicsInEnqueue
