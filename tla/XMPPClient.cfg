\* Two rooms, one message in each, an inbox of one
\* place, and a connection that is lost and resumed.
SPECIFICATION FairSpec
CONSTANTS
  r1 = r1
  r2 = r2
  m1 = m1
  m2 = m2
  Rooms = {r1, r2}
  Messages = {m1, m2}
  RoomOf <- MCRoomOf
  InboxSize = 1
  MaxSessions = 2
INVARIANTS TypeOK RoomsAccountedFor ReadyInSession
PROPERTIES ImplementsConnection LiveMessagesGetThrough
