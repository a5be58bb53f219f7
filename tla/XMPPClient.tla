----------------------------- MODULE XMPPClient -----------------------------
(***************************************************************************)
(* internal/xmpp over the XMPP library and the rooms: Start, joinRooms,    *)
(* handleMessage with normalizeIncoming, handleError, and the readiness    *)
(* flag of internal/observability/health.go they set.                      *)
(*                                                                         *)
(* The library is external: it connects and resumes sessions, calls        *)
(* joinRooms once for each, in turn, handleError when it notices a loss,   *)
(* and handleMessage for each packet in a goroutine of its own.  The loss  *)
(* can be noticed before joinRooms of that session is called or over.      *)
(***************************************************************************)
EXTENDS Naturals, Sequences, FiniteSets

CONSTANTS
  Rooms,        \* Config.Rooms
  Messages,     \* what is said in the rooms, once each
  RoomOf,       \* the room of each
  InboxSize,    \* incomingBuffer
  MaxSessions   \* bound on the sessions the server grants

ASSUME RoomOfRooms   == RoomOf \in [Messages -> Rooms]
ASSUME InboxSizePos  == InboxSize \in Nat \ {0}
ASSUME MaxSessionsOk == MaxSessions \in Nat

VARIABLES
  stream,    \* the connection: "lost" until the library notices
  hungUp,    \* the context given to Start is done
  session,   \* how many sessions there were
  connectCount, toJoin,  \* joinRooms: its counter, the rooms it has not come to
  connected, \* Health.xmppConnected
  inbox,     \* client.incoming
  joined,    \* the rooms that count us in, in this session
  unjoined,  \* history: those that cannot, the presence having failed or been refused
  said,      \* history: what was said in the rooms
  wire,      \* packets whose handler has not come to its end
  heard      \* history: the messages put in the inbox

libr   == <<stream, hungUp, session>>
client == <<connectCount, toJoin, connected>>
muc    == <<joined, unjoined, said>>
buffer == <<inbox, heard>>
vars   == <<stream, hungUp, session, connectCount, toJoin, connected, inbox,
            joined, unjoined, said, wire, heard>>

Streams == {"dialing", "up", "lost", "down", "ended"}

(* A stanza is what a room says now, what it said before, with a <delay/>, *)
(* what one occupant tells the bot alone, or what is no message at all or  *)
(* from no valid address.                                                  *)
Forms == {"live", "replay", "private", "other"}
Packets == [form : Forms, message : Messages]

-----------------------------------------------------------------------------
Init ==
  /\ stream = "dialing" /\ hungUp = FALSE /\ session = 0
  /\ connectCount = 0 /\ toJoin = {} /\ connected = FALSE
  /\ inbox = <<>> /\ heard = {}
  /\ joined = {} /\ unjoined = {} /\ said = {} /\ wire = {}

(* The library: a session begins, and the rooms of the last are forgotten; *)
(* it is lost; the loss is noticed.                                        *)
JoinsOver == connectCount = session /\ toJoin = {}

Establish ==
  /\ stream \in {"dialing", "down"} /\ ~hungUp /\ JoinsOver
  /\ session < MaxSessions
  /\ stream' = "up" /\ session' = session + 1
  /\ joined' = {} /\ unjoined' = {}
  /\ UNCHANGED <<hungUp, client, buffer, said, wire>>

Lose ==
  /\ stream = "up" /\ stream' = "lost"
  /\ UNCHANGED <<hungUp, session, client, muc, buffer, wire>>

HandleError ==
  /\ stream = "lost" /\ stream' = "down"
  /\ connected' = FALSE
  /\ UNCHANGED <<hungUp, session, connectCount, toJoin, muc, buffer, wire>>

\* Run returns: no session can be had any more, or Start stopped it.
RunReturns ==
  /\ stream \in {"dialing", "up", "lost", "down"}
  /\ stream' = "ended"
  /\ UNCHANGED <<hungUp, session, client, muc, buffer, wire>>
Fatal   == ~hungUp /\ stream \in {"dialing", "down"} /\ RunReturns
HangsUp == hungUp /\ RunReturns

HangUp ==
  /\ ~hungUp /\ hungUp' = TRUE
  /\ UNCHANGED <<stream, session, client, muc, buffer, wire>>

-----------------------------------------------------------------------------
(* joinRooms                                                               *)
JoinRooms_firstOnly ==
  /\ connectCount < session
  /\ connectCount' = connectCount + 1
  /\ connected' = (connected \/ connectCount = 0)
  /\ toJoin' = Rooms
  /\ UNCHANGED <<libr, muc, buffer, wire>>
JoinRooms ==
  /\ connectCount < session
  /\ connectCount' = connectCount + 1
  /\ connected' = TRUE
  /\ toJoin' = Rooms
  /\ UNCHANGED <<libr, muc, buffer, wire>>

\* A room that lets us in may replay what was said there, though asked for
\* none of it.
Join(r) ==
  /\ r \in toJoin /\ stream = "up"
  /\ toJoin' = toJoin \ {r} /\ joined' = joined \cup {r}
  /\ \E old \in SUBSET {m \in said : RoomOf[m] = r} :
       wire' = wire \cup {[form |-> "replay", message |-> m] : m \in old}
  /\ UNCHANGED <<libr, connectCount, connected, unjoined, said, buffer>>

\* Send fails, or the room refuses the presence, which nothing listens to.
JoinFails_gaveUp(r) ==
  /\ r \in toJoin
  /\ toJoin' = {} /\ unjoined' = unjoined \cup {r}
  /\ UNCHANGED <<libr, connectCount, connected, joined, said, buffer, wire>>
JoinFails(r) ==
  /\ r \in toJoin
  /\ toJoin' = toJoin \ {r} /\ unjoined' = unjoined \cup {r}
  /\ UNCHANGED <<libr, connectCount, connected, joined, said, buffer, wire>>

-----------------------------------------------------------------------------
(* The rooms, and handleMessage.                                           *)
Hears(m) == stream = "up" /\ RoomOf[m] \in joined

Say(m) ==
  /\ m \notin said /\ said' = said \cup {m}
  /\ wire' = IF Hears(m) THEN wire \cup {[form |-> "live", message |-> m]} ELSE wire
  /\ UNCHANGED <<libr, client, joined, unjoined, buffer>>

\* What is not meant for the inbox: a private message with the same text, a
\* presence, an address that cannot be parsed.
Disturb(m) ==
  /\ Hears(m) /\ m \in said
  /\ \E form \in {"private", "other"} : wire' = wire \cup {[form |-> form, message |-> m]}
  /\ UNCHANGED <<libr, client, muc, buffer>>

(* normalizeIncoming, and the type assertion before it.                    *)
Normal_anyAge(p) == p.form \in {"live", "replay"}
Normal(p) == p.form = "live"

HandleMessage_unbounded(p) ==
  /\ p \in wire /\ wire' = wire \ {p}
  /\ IF Normal(p)
       THEN inbox' = Append(inbox, p.message) /\ heard' = heard \cup {p.message}
       ELSE UNCHANGED buffer
  /\ UNCHANGED <<libr, client, muc>>
HandleMessage_drops(p) ==
  /\ p \in wire /\ wire' = wire \ {p}
  /\ IF Normal(p) /\ Len(inbox) < InboxSize
       THEN inbox' = Append(inbox, p.message) /\ heard' = heard \cup {p.message}
       ELSE UNCHANGED buffer
  /\ UNCHANGED <<libr, client, muc>>
HandleMessage(p) ==
  /\ p \in wire /\ wire' = wire \ {p}
  /\ IF Normal(p)
       THEN /\ Len(inbox) < InboxSize
            /\ inbox' = Append(inbox, p.message) /\ heard' = heard \cup {p.message}
       ELSE UNCHANGED buffer
  /\ UNCHANGED <<libr, client, muc>>

\* dispatchIncoming receives.
Take ==
  /\ inbox # <<>> /\ inbox' = Tail(inbox)
  /\ UNCHANGED <<libr, client, muc, wire, heard>>

\* Nobody hangs up, the server grants no session more and the rooms are quiet.
AtRest ==
  /\ stream \in {"dialing", "down", "ended"} /\ JoinsOver /\ wire = {} /\ inbox = <<>>
  /\ UNCHANGED vars

Library  == Establish \/ Lose \/ HandleError \/ Fatal \/ HangsUp \/ HangUp
Joining  == JoinRooms \/ \E r \in Rooms : Join(r) \/ JoinFails(r)
Handling == Take \/ \E p \in Packets : HandleMessage(p)

Next ==
  \/ Library \/ Joining \/ Handling \/ AtRest
  \/ \E m \in Messages : Say(m) \/ Disturb(m)

Spec == Init /\ [][Next]_vars

\* dispatchIncoming never waits for long, see CallsReturn of Dispatcher, and the
\* channel serves the handlers that wait for it in turn. The library, the rooms
\* and people owe nothing.
FairSpec ==
  /\ Spec /\ WF_vars(Take)
  /\ \A m \in Messages : SF_vars(HandleMessage([form |-> "live", message |-> m]))

-----------------------------------------------------------------------------
TypeOK ==
  /\ stream \in Streams /\ {hungUp, connected} \subseteq BOOLEAN
  /\ session \in Nat /\ connectCount \in Nat /\ session - connectCount \in {0, 1}
  /\ {toJoin, joined, unjoined} \subseteq SUBSET Rooms
  /\ inbox \in Seq(Messages) /\ Len(inbox) <= InboxSize
  /\ {said, heard} \subseteq SUBSET Messages /\ wire \subseteq Packets

\* In every session, the first or one resumed, joinRooms comes to each room: at
\* its end the bot sits in all of them but those whose presence was refused or
\* could not be sent.
RoomsAccountedFor ==
  stream = "up" /\ connectCount = session =>
    /\ joined \cup unjoined \cup toJoin = Rooms
    /\ (joined \cup unjoined) \cap toJoin = {}

\* /readyz counts the connection in every session, the first or one resumed
\* after a loss, as soon as joinRooms has begun.
ReadyInSession ==
  stream = "up" /\ connectCount = session => connected

\* /readyz counts the connection only "se a conexão XMPP está ativa no momento":
\* once the loss of it was noticed it does not, until the next session.
ReadyMeansConnected ==
  stream = "down" => ~connected

\* Each message said to a room while the bot sits there is put in the inbox,
\* whatever is lost, joined or shouted meanwhile.
LiveMessagesGetThrough ==
  \A m \in Messages : [form |-> "live", message |-> m] \in wire ~> m \in heard

-----------------------------------------------------------------------------
(* What the rest of the bot sees: see Connection.                          *)
LinkOf == IF stream = "lost" THEN "up" ELSE stream

Promised == INSTANCE Connection WITH link <- LinkOf

\* No replay, private message or repetition reaches the inbox, and nothing
\* before the first session: the client does what Bot takes it to do.
ImplementsConnection == Promised!Spec
=============================================================================
