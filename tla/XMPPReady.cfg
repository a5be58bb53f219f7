\* One room, one message, and a connection that is lost.
SPECIFICATION Spec
CONSTANTS
  r1 = r1
  r2 = r2
  m1 = m1
  m2 = m2
  Rooms = {r1}
  Messages = {m1}
  RoomOf <- MCRoomOf
  InboxSize = 1
  MaxSessions = 1
INVARIANT ReadyMeansConnected
