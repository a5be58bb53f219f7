\* Two mentions, whose answers come back as echoes, over an inbox and a sink of
\* one place. Jobs, the server and the rooms owe nothing: the process ends all
\* the same.
SPECIFICATION FairSpec
CONSTANTS
  Mentions = {m1, m2}
  Chatter = {}
  InboxSize = 1
  QueueSize = 1
  NoEvent = NoEvent
INVARIANTS TypeOK AnswersBeforeHangUp SinkOutlivesJobs EventsSettledAtExit
PROPERTIES RunReturns MentionsDecided
