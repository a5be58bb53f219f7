-------------------------------- MODULE Bot --------------------------------
(***************************************************************************)
(* The process of cmd/bot/main.go: run() and dispatchIncoming between the  *)
(* worker pool, the metrics sink, the XMPP connection and the languages    *)
(* goroutine, from the moment everything is started to the return of       *)
(* run().                                                                  *)
(*                                                                         *)
(* The pool is what JobLedger promises, which Dispatcher implements; the   *)
(* XMPP client is what Connection promises, which XMPPClient implements;   *)
(* the sink is InfluxWriter, fed by the jobs; a job does what JobLife has, *)
(* which JobProcess implements.                                            *)
(***************************************************************************)
EXTENDS Sequences, Naturals, FiniteSets

CONSTANTS
  Mentions,   \* what is said to the bot in the rooms
  Chatter,    \* what is said there to others
  InboxSize,  \* incomingBuffer
  QueueSize,  \* of the InfluxWriter
  NoEvent

VARIABLES
  status, open, aborted, drained,                                  \* JobLedger
  queue, closed, done, runner, inHand, errors, closer, outcome,    \* InfluxWriter
  signalled,  \* ctx of run() is done: SIGINT or SIGTERM
  main,       \* program counter of run()
  graceful,   \* the case its select took: the signal
  link,       \* the XMPP connection, "ended" once client.Start has returned
  hungUp,     \* xmppCtx is cancelled
  lang,       \* the languages goroutine, "stopping" when bgCtx is cancelled
  inbox,      \* client.incoming
  heard,      \* history: the messages the rooms sent us
  at,         \* where each job is inside runJob
  reply       \* history: what became of the answer to each job

pool   == <<status, open, aborted, drained>>
sink   == <<queue, closed, done, runner, inHand, errors, closer, outcome>>
conn   == <<link, hungUp, inbox, heard>>
proc   == <<signalled, main, graceful, lang>>
work   == <<at, reply>>
vars   == <<status, open, aborted, drained, queue, closed, done, runner, inHand,
            errors, closer, outcome, signalled, main, graceful, link, hungUp, lang,
            inbox, heard, at, reply>>

(* A room reflects what the bot says in it; that echo may itself begin     *)
(* with the nickname of the bot.                                           *)
Said(id) == [from |-> "room", id |-> id]
Echo(id) == [from |-> "self", id |-> id]
Messages == {Said(id) : id \in Mentions \cup Chatter} \cup {Echo(id) : id \in Mentions}

ASSUME MessagesFinite == IsFiniteSet(Messages)
ASSUME SizesNat       == InboxSize \in Nat /\ QueueSize \in Nat
ASSUME NoEventIsNone  == NoEvent \notin Messages

Pool == INSTANCE JobLedger WITH Jobs <- Messages
Sink == INSTANCE InfluxWriter WITH Events <- Messages
Conn == INSTANCE Connection

Running == main # "exited"

(* run() up to its select.                                                 *)
Init ==
  /\ Pool!Init /\ Sink!Init /\ Conn!Init
  /\ signalled = FALSE /\ main = "select" /\ graceful = FALSE
  /\ lang = "fetching"
  /\ at = [m \in Messages |-> "outside"] /\ reply = [m \in Messages |-> "none"]

-----------------------------------------------------------------------------
(* The XMPP client and what it hears.                                      *)

LinkMoves ==
  /\ Running
  /\ Conn!Connect \/ Conn!Drop \/ Conn!Fatal
  /\ UNCHANGED <<pool, sink, proc, work>>

HangsUp == Running /\ Conn!HangsUp /\ UNCHANGED <<pool, sink, proc, work>>

\* A room reflects only what it was sent.
Arrive(m) ==
  /\ Running /\ Conn!Arrive(m)
  /\ m.from = "self" => reply[Said(m.id)] = "sent"
  /\ UNCHANGED <<pool, sink, proc, work>>

(* dispatchIncoming; IsSelf and ParseMention decide what is passed over.   *)
PassesOver(m) == m.from = "self" \/ m.id \notin Mentions

Dispatch_returns ==
  /\ Running /\ Conn!Take /\ \A m \in Messages : status[m] # "refused"
  /\ IF PassesOver(Head(inbox))
       THEN UNCHANGED pool
       ELSE Pool!Accept(Head(inbox)) \/ Pool!Refuse(Head(inbox))
  /\ UNCHANGED <<sink, proc, work>>
Dispatch ==
  /\ Running /\ Conn!Take
  /\ IF PassesOver(Head(inbox))
       THEN UNCHANGED pool
       ELSE Pool!Accept(Head(inbox)) \/ Pool!Refuse(Head(inbox))
  /\ UNCHANGED <<sink, proc, work>>

-----------------------------------------------------------------------------
(* A job in the hands of a worker.                                         *)

Goes(m, from, to) ==
  /\ Running /\ at[m] = from
  /\ at' = [at EXCEPT ![m] = to]

Begin(m) ==
  /\ Goes(m, "outside", "working")
  /\ Pool!Begin(m)
  /\ UNCHANGED <<sink, conn, proc, reply>>

\* process reaches recordOutcome, or an answer that is not a translation's,
\* or panics.
Work(m) ==
  /\ \E next \in {"recording", "replying", "returned"} : Goes(m, "working", next)
  /\ UNCHANGED <<pool, sink, conn, proc, reply>>

\* A panic in Enqueue ends the job, which is then never answered.
Record(m) ==
  /\ Goes(m, "recording", IF closed THEN "returned" ELSE "replying")
  /\ Sink!Enqueue(m)
  /\ UNCHANGED <<pool, conn, proc, reply>>

\* respond: SendGroup fails without a connection and may fail with one.
Reply(m) ==
  /\ Goes(m, "replying", "returned")
  /\ \E r \in {"sent", "failed"} :
       /\ r = "sent" => link = "up"
       /\ reply' = [reply EXCEPT ![m] = IF hungUp THEN "late" ELSE r]
  /\ UNCHANGED <<pool, sink, conn, proc>>

Settle(m) ==
  /\ Goes(m, "returned", "over")
  /\ Pool!Settle(m)
  /\ UNCHANGED <<sink, conn, proc, reply>>

\* What JobLife sees of the job for m.
Stage(m) ==
  CASE at[m] \in {"outside", "working"}    -> "working"
    [] at[m] \in {"recording", "replying"} -> at[m]
    [] at[m] \in {"returned", "over"}      -> IF reply[m] = "none" THEN "panicked" ELSE "returned"

Life(m) == INSTANCE JobLife WITH
             stage   <- Stage(m),
             events  <- IF outcome[m] = "new" THEN 0 ELSE 1,
             answers <- IF reply[m] = "none" THEN 0 ELSE 1

-----------------------------------------------------------------------------
(* run(): the select, Stop, and the deferred calls.                        *)

Signal ==
  /\ Running /\ ~signalled
  /\ signalled' = TRUE
  /\ UNCHANGED <<pool, sink, conn, work, main, graceful, lang>>

MainMoves(from, to) == main = from /\ main' = to /\ UNCHANGED <<work, signalled>>

\* Both cases of the select begin with dispatcher.Stop.
Select_hangsUpFirst ==
  /\ MainMoves("select", "stopping")
  /\ graceful' \in {g \in BOOLEAN : IF g THEN signalled ELSE link = "ended"}
  /\ hungUp' = graceful'
  /\ Pool!Shut
  /\ UNCHANGED <<sink, link, inbox, heard, lang>>
Select ==
  /\ MainMoves("select", "stopping")
  /\ graceful' \in {g \in BOOLEAN : IF g THEN signalled ELSE link = "ended"}
  /\ Pool!Shut
  /\ UNCHANGED <<sink, conn, lang>>

AfterStop == IF graceful THEN "hangup" ELSE "defers"

StopDrained ==
  /\ MainMoves("stopping", AfterStop)
  /\ Pool!ReportDrained
  /\ UNCHANGED <<sink, conn, lang, graceful>>

StopTimesOut ==
  /\ MainMoves("stopping", AfterStop)
  /\ UNCHANGED <<pool, sink, conn, lang, graceful>>

HangUp_forgotten ==
  /\ MainMoves("hangup", "awaitXMPP")
  /\ UNCHANGED <<pool, sink, conn, lang, graceful>>
HangUp ==
  /\ MainMoves("hangup", "awaitXMPP")
  /\ Conn!HangUp
  /\ UNCHANGED <<pool, sink, lang, graceful>>

XMPPEnded ==
  /\ MainMoves("awaitXMPP", "defers")
  /\ link = "ended"
  /\ UNCHANGED <<pool, sink, conn, lang, graceful>>

\* The deferred calls, last first: cancelXMPP and bgCancel,
Defers ==
  /\ MainMoves("defers", "awaitLang")
  /\ Conn!HangUp
  /\ lang' = IF lang = "fetching" THEN "stopping" ELSE lang
  /\ UNCHANGED <<pool, sink, graceful>>

\* then, when the languages goroutine is gone, the Close of the sink,
CloseSink_early ==
  /\ main = "stopping" /\ graceful
  /\ Sink!CloseQueue
  /\ UNCHANGED <<pool, conn, work, proc>>
CloseSink ==
  /\ MainMoves("awaitLang", "closing")
  /\ lang = "gone"
  /\ Sink!CloseQueue
  /\ UNCHANGED <<pool, conn, lang, graceful>>

SinkClosed_notAwaited ==
  /\ MainMoves("closing", "shutdown")
  /\ UNCHANGED <<pool, conn, sink, lang, graceful>>
SinkClosed ==
  /\ MainMoves("closing", "shutdown")
  /\ Sink!CloseReturns
  /\ UNCHANGED <<pool, conn, lang, graceful>>

\* and the Shutdown of the metrics server, which has a deadline. The process
\* then exits, with whatever still runs in it.
Exit ==
  /\ MainMoves("shutdown", "exited")
  /\ UNCHANGED <<pool, sink, conn, lang, graceful>>

\* SupportedLanguages returns, by itself or because bgCtx is cancelled.
LanguagesEnd ==
  /\ Running /\ lang # "gone"
  /\ lang' = "gone"
  /\ UNCHANGED <<pool, sink, conn, work, signalled, main, graceful>>

SinkRuns == Running /\ Sink!Run /\ UNCHANGED <<pool, conn, proc, work>>

Main == \/ Select \/ StopDrained \/ StopTimesOut \/ HangUp \/ XMPPEnded
        \/ Defers \/ CloseSink \/ SinkClosed \/ Exit

Gone == main = "exited" /\ UNCHANGED vars

Next ==
  \/ LinkMoves \/ HangsUp \/ (\E m \in Messages : Arrive(m)) \/ Dispatch
  \/ \E m \in Messages : Begin(m) \/ Work(m) \/ Record(m) \/ Reply(m) \/ Settle(m)
  \/ Signal \/ Main \/ LanguagesEnd \/ SinkRuns \/ Gone

Spec == Init /\ [][Next]_vars

\* run() and the goroutines it waits for are never starved, the drain timer
\* fires, sm.Stop gets through and requests end when they are cancelled or
\* time out. Jobs, the server and the rooms owe nothing.
Fairness ==
  /\ WF_vars(Main) /\ WF_vars(Dispatch) /\ WF_vars(SinkRuns)
  /\ WF_vars(HangsUp) /\ WF_vars(lang = "stopping" /\ LanguagesEnd)
FairSpec == Spec /\ Fairness

-----------------------------------------------------------------------------
TypeOK ==
  /\ Sink!TypeOK
  /\ status \in [Messages -> {"outside", "accepted", "refused", "begun", "settled"}]
  /\ {open, aborted, drained, signalled, graceful, hungUp} \subseteq BOOLEAN
  /\ main \in {"select", "stopping", "hangup", "awaitXMPP", "defers", "awaitLang",
               "closing", "shutdown", "exited"}
  /\ link \in Conn!Links
  /\ lang \in {"fetching", "stopping", "gone"}
  /\ inbox \in Seq(Messages) /\ Len(inbox) <= InboxSize /\ heard \subseteq Messages
  /\ at \in [Messages -> {"outside", "working", "recording", "replying", "returned", "over"}]
  /\ reply \in [Messages -> {"none", "sent", "failed", "late"}]

\* The comment on the select: the queue is drained before the connection is
\* closed, so that a translation under way can still be answered. Unless the
\* drain deadline passed, no answer comes after the hang-up, and none is owed.
AnswersBeforeHangUp ==
  hungUp /\ drained =>
    \A m \in Messages : reply[m] # "late" /\ status[m] \notin {"accepted", "begun"}

\* Unless the drain deadline passed, the sink outlives the jobs: none of them
\* panics in Enqueue, so none is recorded and left unanswered.
SinkOutlivesJobs == drained => \A m \in Messages : outcome[m] # "panicked"

\* When the process exits, every event that Enqueue took was written or counted
\* as an error, even those of jobs the drain deadline abandoned.
EventsSettledAtExit ==
  main = "exited" => \A m \in Messages : outcome[m] \notin {"queued", "sending"}

\* A worker that Stop abandoned goes on with its job until it ends, or until
\* the process does: the sink does not make it panic.
NothingPanicsInEnqueue == \A m \in Messages : outcome[m] # "panicked"

\* A signal, or the end of the connection, ends the process: no job, event,
\* request or handshake holds it back for ever.
RunReturns == signalled \/ link = "ended" ~> main = "exited"

\* A mention that reached the bot is accepted or refused, unless the process
\* ends first, whatever is ahead of it in the inbox: other mentions, and what
\* dispatchIncoming passes over.
MentionsDecided ==
  \A id \in Mentions : Said(id) \in heard ~> status[Said(id)] # "outside" \/ main = "exited"
=============================================================================
