-------------------------- MODULE XMPPClientProofs --------------------------
(***************************************************************************)
(* Proofs about XMPPClient for any rooms, any messages, any capacity of    *)
(* the inbox and any number of sessions: what joinRooms and the readiness  *)
(* flag are good for, and that the client keeps the promise of Connection. *)
(***************************************************************************)
EXTENDS XMPPClient, TLAPS, SequenceTheorems

Accounted == joined \cup unjoined \cup toJoin = Rooms /\ (joined \cup unjoined) \cap toJoin = {}

(* joinRooms is at most one session behind, has nothing to do before it    *)
(* begins and knows of every room from then on, also after a loss.         *)
JoinInv ==
  /\ stream = "dialing" => session = 0
  /\ session = 0 => stream \in {"dialing", "ended"} /\ toJoin = {} /\ joined = {}
  /\ connectCount < session => toJoin = {} /\ joined = {} /\ unjoined = {}
  /\ connectCount = session /\ session # 0 => Accounted

FlagInv ==
  stream \in {"up", "lost"} /\ connectCount = session => connected

(* A live packet is the first and only one of its message.                 *)
Live(m) == [form |-> "live", message |-> m]
HeardInv ==
  /\ heard \subseteq said
  /\ \A m \in Messages : Live(m) \in wire => m \in said \ heard
  /\ wire # {} => session # 0

ClientInv == TypeOK /\ JoinInv /\ FlagInv /\ HeardInv

-----------------------------------------------------------------------------
(* Start, before the library has dialled.                                  *)
LEMMA ClientInit == Init => ClientInv
<1> SUFFICES ASSUME Init PROVE ClientInv
  OBVIOUS
<1>1. TypeOK
  <2>1. inbox \in Seq(Messages) /\ Len(inbox) <= InboxSize
    BY InboxSizePos DEF Init
  <2>2. QED
    <3>1. stream \in Streams /\ {hungUp, connected} \subseteq BOOLEAN
      BY DEF Init, Streams
    <3>2. session \in Nat /\ connectCount \in Nat /\ session - connectCount \in {0, 1}
      BY DEF Init
    <3>3. /\ {toJoin, joined, unjoined} \subseteq SUBSET Rooms
          /\ {said, heard} \subseteq SUBSET Messages /\ wire \subseteq Packets
      BY DEF Init
    <3>4. QED
      BY <2>1, <3>1, <3>2, <3>3 DEF TypeOK
<1>2. JoinInv /\ FlagInv /\ HeardInv
  BY DEF Init, JoinInv, FlagInv, HeardInv
<1>3. QED
  BY <1>1, <1>2 DEF ClientInv

(* The library may connect, lose its session and end at any moment.        *)
LEMMA LibraryKeeps ==
  ASSUME ClientInv, Library
  PROVE  ClientInv'
<1> USE DEF ClientInv, libr, client, muc, buffer
<1>1. CASE Establish
  <2>1. TypeOK'
    BY <1>1 DEF Establish, JoinsOver, TypeOK, Streams
  <2>2. JoinInv' /\ FlagInv'
    BY <1>1 DEF Establish, JoinsOver, TypeOK, JoinInv, FlagInv
  <2>3. HeardInv'
    BY <1>1 DEF Establish, TypeOK, HeardInv
  <2>4. QED
    BY <2>1, <2>2, <2>3
<1>2. CASE Lose \/ HandleError
  <2>1. TypeOK'
    BY <1>2 DEF Lose, HandleError, TypeOK, Streams
  <2>2. JoinInv' /\ FlagInv'
    BY <1>2 DEF Lose, HandleError, TypeOK, JoinInv, FlagInv, Accounted
  <2>3. HeardInv'
    BY <1>2 DEF Lose, HandleError, HeardInv
  <2>4. QED
    BY <2>1, <2>2, <2>3
<1>3. CASE Fatal \/ HangsUp \/ HangUp
  <2>1. TypeOK'
    BY <1>3 DEF Fatal, HangsUp, RunReturns, HangUp, TypeOK, Streams
  <2>2. JoinInv' /\ FlagInv'
    BY <1>3 DEF Fatal, HangsUp, RunReturns, HangUp, TypeOK, JoinInv, FlagInv, Accounted
  <2>3. HeardInv'
    BY <1>3 DEF Fatal, HangsUp, RunReturns, HangUp, HeardInv
  <2>4. QED
    BY <2>1, <2>2, <2>3
<1>4. QED
  BY <1>1, <1>2, <1>3 DEF Library

(* joinRooms, of a session that may be lost by then.                       *)
LEMMA JoiningKeeps ==
  ASSUME ClientInv, Joining
  PROVE  ClientInv'
<1> USE DEF ClientInv, libr, client, muc, buffer
<1>1. CASE JoinRooms
  <2>1. TypeOK'
    BY <1>1 DEF JoinRooms, TypeOK
  <2>2. /\ connectCount' = session /\ session # 0 /\ session' = session
        /\ toJoin' = Rooms /\ joined' = {} /\ unjoined' = {}
    BY <1>1 DEF JoinRooms, TypeOK, JoinInv
  <2>3. stream' = stream /\ connected'
    BY <1>1 DEF JoinRooms
  <2>4. JoinInv' /\ FlagInv'
    <3>1. Accounted'
      BY <2>2 DEF Accounted
    <3>2. JoinInv'
      BY <2>2, <2>3, <3>1 DEF JoinInv, TypeOK
    <3>3. FlagInv'
      BY <2>2, <2>3 DEF FlagInv
    <3>4. QED
      BY <3>2, <3>3
  <2>5. HeardInv'
    BY <1>1 DEF JoinRooms, HeardInv
  <2>6. QED
    BY <2>1, <2>4, <2>5
<1>2. ASSUME NEW r \in Rooms, Join(r) PROVE ClientInv'
  <2>1. PICK old \in SUBSET {m \in said : RoomOf[m] = r} :
          wire' = wire \cup {[form |-> "replay", message |-> m] : m \in old}
    BY <1>2 DEF Join
  <2>2. /\ r \in toJoin /\ stream = "up"
        /\ toJoin' = toJoin \ {r} /\ joined' = joined \cup {r}
        /\ UNCHANGED <<libr, connectCount, connected, unjoined, said, buffer>>
    BY <1>2 DEF Join
  <2>3. wire' \subseteq Packets
    BY <2>1 DEF TypeOK, Packets, Forms
  <2>4. TypeOK'
    BY <2>2, <2>3 DEF TypeOK
  <2>5. JoinInv' /\ FlagInv'
    BY <2>2 DEF TypeOK, JoinInv, FlagInv, Accounted
  <2>6. \A m \in Messages : Live(m) \in wire' => Live(m) \in wire
    BY <2>1 DEF Live
  <2>7. HeardInv'
    BY <2>2, <2>6 DEF HeardInv, JoinInv
  <2>8. QED
    BY <2>4, <2>5, <2>7
<1>3. ASSUME NEW r \in Rooms, JoinFails(r) PROVE ClientInv'
  <2>1. TypeOK'
    BY <1>3 DEF JoinFails, TypeOK
  <2>2. JoinInv' /\ FlagInv'
    BY <1>3 DEF JoinFails, TypeOK, JoinInv, FlagInv, Accounted
  <2>3. HeardInv'
    BY <1>3 DEF JoinFails, HeardInv
  <2>4. QED
    BY <2>1, <2>2, <2>3
<1>4. QED
  BY <1>1, <1>2, <1>3 DEF Joining

(* The rooms, the handlers and dispatchIncoming.                           *)
LEMMA TalkKeeps ==
  ASSUME ClientInv, Handling \/ \E m \in Messages : Say(m) \/ Disturb(m)
  PROVE  ClientInv'
<1> USE DEF ClientInv, libr, client, muc, buffer
<1>1. ASSUME NEW m \in Messages, Say(m) PROVE ClientInv'
  <2>1. /\ m \notin said /\ said' = said \cup {m} /\ wire' \in {wire, wire \cup {Live(m)}}
        /\ UNCHANGED <<libr, client, joined, unjoined, buffer>>
        /\ wire' # wire => stream = "up"
    BY <1>1 DEF Say, Hears, Live
  <2>2. Live(m) \in Packets
    BY DEF Live, Packets, Forms
  <2>3. TypeOK'
    BY <2>1, <2>2 DEF TypeOK
  <2>4. JoinInv' /\ FlagInv'
    BY <2>1 DEF JoinInv, FlagInv, Accounted
  <2>5. \A n \in Messages : Live(n) = Live(m) => n = m
    BY DEF Live
  <2>6. HeardInv'
    BY <2>1, <2>5 DEF HeardInv, JoinInv
  <2>7. QED
    BY <2>3, <2>4, <2>6
<1>2. ASSUME NEW m \in Messages, Disturb(m) PROVE ClientInv'
  <2>1. PICK form \in {"private", "other"} : wire' = wire \cup {[form |-> form, message |-> m]}
    BY <1>2 DEF Disturb
  <2>2. stream = "up" /\ UNCHANGED <<libr, client, muc, buffer>>
    BY <1>2 DEF Disturb, Hears
  <2>3. [form |-> form, message |-> m] \in Packets
    BY DEF Packets, Forms
  <2>4. TypeOK'
    BY <2>1, <2>2, <2>3 DEF TypeOK
  <2>5. JoinInv' /\ FlagInv'
    BY <2>2 DEF JoinInv, FlagInv, Accounted
  <2>6. \A n \in Messages : Live(n) # [form |-> form, message |-> m]
    BY DEF Live
  <2>7. HeardInv'
    BY <2>1, <2>2, <2>6 DEF HeardInv, JoinInv
  <2>8. QED
    BY <2>4, <2>5, <2>7
<1>3. ASSUME NEW p \in Packets, HandleMessage(p) PROVE ClientInv'
  <2>1. p \in wire /\ wire' = wire \ {p} /\ UNCHANGED <<libr, client, muc>>
    BY <1>3 DEF HandleMessage
  <2>2. JoinInv' /\ FlagInv'
    BY <2>1 DEF JoinInv, FlagInv, Accounted
  <2>3. p.message \in Messages /\ (p.form = "live" => p = Live(p.message))
    BY DEF Packets, Live
  <2>4. CASE Normal(p)
    <3>1. /\ Len(inbox) < InboxSize
          /\ inbox' = Append(inbox, p.message) /\ heard' = heard \cup {p.message}
      BY <1>3, <2>4 DEF HandleMessage
    <3>2. inbox' \in Seq(Messages) /\ Len(inbox') = Len(inbox) + 1
      BY <2>3, <3>1, AppendProperties DEF TypeOK
    <3>3. Len(inbox') <= InboxSize
      BY <3>1, <3>2, InboxSizePos, LenProperties DEF TypeOK
    <3>4. TypeOK'
      BY <2>1, <2>3, <3>1, <3>2, <3>3 DEF TypeOK
    <3>5. \A m \in Messages : Live(m) \in wire' => m # p.message
      BY <2>1, <2>3, <2>4 DEF Normal
    <3>6. p.message \in said
      BY <2>1, <2>3, <2>4 DEF Normal, HeardInv
    <3>7. HeardInv'
      BY <2>1, <2>3, <3>1, <3>5, <3>6 DEF HeardInv
    <3>8. QED
      BY <2>2, <3>4, <3>7
  <2>5. CASE ~Normal(p)
    <3>1. UNCHANGED buffer
      BY <1>3, <2>5 DEF HandleMessage
    <3>2. TypeOK' /\ HeardInv'
      BY <2>1, <3>1 DEF TypeOK, HeardInv
    <3>3. QED
      BY <2>2, <3>2
  <2>6. QED
    BY <2>4, <2>5
<1>4. CASE Take
  <2>1. inbox # <<>> /\ inbox' = Tail(inbox) /\ UNCHANGED <<libr, client, muc, wire, heard>>
    BY <1>4 DEF Take
  <2>2. inbox' \in Seq(Messages) /\ Len(inbox') = Len(inbox) - 1
    BY <2>1, HeadTailProperties DEF TypeOK
  <2>3. Len(inbox') <= InboxSize
    BY <2>2, InboxSizePos, LenProperties DEF TypeOK
  <2>4. TypeOK'
    BY <2>1, <2>2, <2>3 DEF TypeOK
  <2>5. JoinInv' /\ FlagInv' /\ HeardInv'
    BY <2>1 DEF JoinInv, FlagInv, HeardInv, Accounted
  <2>6. QED
    BY <2>4, <2>5
<1>5. QED
  BY <1>1, <1>2, <1>3, <1>4 DEF Handling

(* The inductive invariant of the client holds throughout.                 *)
LEMMA ClientNext == ClientInv /\ [Next]_vars => ClientInv'
<1> SUFFICES ASSUME ClientInv, [Next]_vars PROVE ClientInv'
  OBVIOUS
<1>1. CASE UNCHANGED vars
  BY <1>1 DEF vars, ClientInv, TypeOK, JoinInv, FlagInv, HeardInv, Accounted
<1>2. QED
  BY <1>1, LibraryKeeps, JoiningKeeps, TalkKeeps DEF Next, AtRest

LEMMA ClientInvariant == Spec => []ClientInv
  BY ClientInit, ClientNext, PTL DEF Spec

-----------------------------------------------------------------------------
(* Types; in particular the inbox never holds more than its capacity, and  *)
(* joinRooms is never more than one session behind.                        *)
THEOREM ClientTypeCorrect == Spec => []TypeOK
<1>1. ClientInv => TypeOK
  BY DEF ClientInv
<1>2. QED
  BY <1>1, ClientInvariant, PTL

(* In every session each room is joined, refused or still to come          *)
(* (client.go, joinRooms).                                                 *)
THEOREM EveryRoomAccountedFor == Spec => []RoomsAccountedFor
<1>1. ClientInv => RoomsAccountedFor
  BY DEF ClientInv, TypeOK, JoinInv, RoomsAccountedFor, Accounted
<1>2. QED
  BY <1>1, ClientInvariant, PTL

(* In every session /readyz counts the connection from joinRooms on, also  *)
(* in one resumed after a loss that took the flag down (client.go,         *)
(* joinRooms and handleError).  That it does so in a session only is what  *)
(* the code does not give: see ReadyMeansConnected.                        *)
THEOREM ReadyOnceJoining == Spec => []ReadyInSession
<1>1. ClientInv => ReadyInSession
  BY DEF ClientInv, FlagInv, ReadyInSession
<1>2. QED
  BY <1>1, ClientInvariant, PTL

-----------------------------------------------------------------------------
(* The refinement: the library's moves are those of the link, and what a   *)
(* handler puts in the inbox is heard for the first time.                  *)
LEMMA LinkMoves ==
  ASSUME Library
  PROVE  Promised!Next \/ UNCHANGED Promised!conn
<1> USE DEF LinkOf, client, muc, buffer
<1>1. CASE Establish
  <2>1. Promised!Connect
    BY <1>1 DEF Establish, Promised!Connect, Promised!Moves
  <2>2. QED
    BY <2>1 DEF Promised!Next
<1>2. CASE Lose
  BY <1>2 DEF Lose, Promised!conn
<1>3. CASE HandleError
  <2>1. Promised!Drop
    BY <1>3 DEF HandleError, Promised!Drop, Promised!Moves
  <2>2. QED
    BY <2>1 DEF Promised!Next
<1>4. CASE Fatal
  <2>1. Promised!Fatal
    BY <1>4 DEF Fatal, RunReturns, Promised!Fatal, Promised!Moves
  <2>2. QED
    BY <2>1 DEF Promised!Next
<1>5. CASE HangsUp
  <2>1. Promised!HangsUp
    BY <1>5 DEF HangsUp, RunReturns, Promised!HangsUp, Promised!Moves
  <2>2. QED
    BY <2>1 DEF Promised!Next
<1>6. CASE HangUp
  <2>1. Promised!HangUp
    BY <1>6 DEF HangUp, Promised!HangUp
  <2>2. QED
    BY <2>1 DEF Promised!Next
<1>7. QED
  BY <1>1, <1>2, <1>3, <1>4, <1>5, <1>6 DEF Library

LEMMA InboxMoves ==
  ASSUME ClientInv, Handling
  PROVE  Promised!Next \/ UNCHANGED Promised!conn
<1> USE DEF LinkOf, libr, buffer
<1>1. CASE Take
  <2>1. Promised!Take
    BY <1>1 DEF Take, Promised!Take
  <2>2. QED
    BY <2>1 DEF Promised!Next
<1>2. ASSUME NEW p \in Packets, HandleMessage(p), Normal(p)
      PROVE  Promised!Next
  <2> DEFINE m == p.message
  <2>1. m \in Messages /\ p = Live(m) /\ p \in wire
    BY <1>2 DEF HandleMessage, Normal, Packets, Live
  <2>2. m \notin heard /\ stream # "dialing"
    BY <2>1 DEF ClientInv, HeardInv, JoinInv
  <2>3. Promised!Arrive(m)
    BY <1>2, <2>2 DEF HandleMessage, Promised!Arrive
  <2>4. QED
    BY <2>1, <2>3 DEF Promised!Next
<1>3. ASSUME NEW p \in Packets, HandleMessage(p), ~Normal(p)
      PROVE  UNCHANGED Promised!conn
  BY <1>3 DEF HandleMessage, Promised!conn
<1>4. QED
  BY <1>1, <1>2, <1>3 DEF Handling

(* The client does what the rest of the bot takes it to do: no replay, no  *)
(* private message and no repetition in the inbox, nothing before the      *)
(* first session (client.go, message.go).                                  *)
THEOREM ConnectionImplemented == Spec => ImplementsConnection
<1>1. Init => Promised!Init
  BY DEF Init, Promised!Init, LinkOf
<1>2. ClientInv /\ [Next]_vars => [Promised!Next]_(Promised!conn)
  <2> SUFFICES ASSUME ClientInv, [Next]_vars
               PROVE  Promised!Next \/ UNCHANGED Promised!conn
    OBVIOUS
  <2>1. CASE Joining \/ \E m \in Messages : Say(m) \/ Disturb(m)
    BY <2>1 DEF Joining, JoinRooms, Join, JoinFails, Say, Disturb, libr, buffer,
                muc, client, LinkOf, Promised!conn
  <2>2. CASE AtRest \/ UNCHANGED vars
    BY <2>2 DEF AtRest, vars, LinkOf, Promised!conn
  <2>3. QED
    BY <2>1, <2>2, LinkMoves, InboxMoves DEF Next
<1>3. QED
  BY <1>1, <1>2, ClientInvariant, PTL DEF Spec, ImplementsConnection, Promised!Spec
=============================================================================
