----------------------------- MODULE Connection -----------------------------
(***************************************************************************)
(* What the XMPP client promises to the rest of the bot, without rooms,    *)
(* sessions or stanzas: a link that comes, goes and ends, and an inbox of  *)
(* InboxSize places into which each message is put at most once, after     *)
(* the first session.  XMPPClient implements this; Bot is built on it.     *)
(***************************************************************************)
EXTENDS Sequences, Naturals

CONSTANTS
  Messages,   \* what the rooms can make the client hear
  InboxSize   \* incomingBuffer

VARIABLES
  link,    \* "ended" once client.Start has returned
  hungUp,  \* the context given to Start is cancelled
  inbox,   \* client.incoming
  heard    \* history: the messages that were put there

conn == <<link, hungUp, inbox, heard>>

Links == {"dialing", "up", "down", "ended"}

Init == link = "dialing" /\ hungUp = FALSE /\ inbox = <<>> /\ heard = {}

Moves(from, to) ==
  /\ link \in from /\ link' = to
  /\ UNCHANGED <<hungUp, inbox, heard>>

Connect == ~hungUp /\ Moves({"dialing", "down"}, "up")
Drop    == Moves({"up"}, "down")
Fatal   == ~hungUp /\ Moves({"dialing", "up", "down"}, "ended")

\* client.Start sees its context end, stops the StreamManager and returns.
HangsUp == hungUp /\ Moves({"dialing", "up", "down"}, "ended")

HangUp == hungUp' = TRUE /\ UNCHANGED <<link, inbox, heard>>

\* handleMessage: the callback waits for room; one that waits is not undone by
\* the loss of the link.
Arrive_unbounded(m) ==
  /\ link # "dialing" /\ m \notin heard
  /\ inbox' = Append(inbox, m) /\ heard' = heard \cup {m}
  /\ UNCHANGED <<link, hungUp>>
Arrive(m) ==
  /\ link # "dialing" /\ m \notin heard /\ Len(inbox) < InboxSize
  /\ inbox' = Append(inbox, m) /\ heard' = heard \cup {m}
  /\ UNCHANGED <<link, hungUp>>

Take ==
  /\ inbox # <<>> /\ inbox' = Tail(inbox)
  /\ UNCHANGED <<link, hungUp, heard>>

Next ==
  \/ Connect \/ Drop \/ Fatal \/ HangsUp \/ HangUp \/ Take
  \/ \E m \in Messages : Arrive(m)

Spec == Init /\ [][Next]_conn
=============================================================================
