------------------------------ MODULE BotProofs ------------------------------
(***************************************************************************)
(* Proofs about Bot for any finite set of messages, any inbox and any      *)
(* sink. What the sink does is not proved again: the lemmas about          *)
(* InfluxWriter are taken over for the events of the jobs.                 *)
(***************************************************************************)
EXTENDS Bot, TLAPS, SequenceTheorems

Books == INSTANCE InfluxWriterProofs WITH Events <- Messages

(* TypeOK, but for the sink.                                               *)
Types ==
  /\ status \in [Messages -> {"outside", "accepted", "refused", "begun", "settled"}]
  /\ open \in BOOLEAN /\ aborted \in BOOLEAN /\ drained \in BOOLEAN
  /\ signalled \in BOOLEAN /\ graceful \in BOOLEAN /\ hungUp \in BOOLEAN
  /\ main \in {"select", "stopping", "hangup", "awaitXMPP", "defers", "awaitLang",
               "closing", "shutdown", "exited"}
  /\ link \in Conn!Links
  /\ lang \in {"fetching", "stopping", "gone"}
  /\ inbox \in Seq(Messages) /\ Len(inbox) <= InboxSize /\ heard \in SUBSET Messages
  /\ at \in [Messages -> {"outside", "working", "recording", "replying", "returned", "over"}]
  /\ reply \in [Messages -> {"none", "sent", "failed", "late"}]

(* What the pool knows of a job and where its goroutine is agree; the pool *)
(* that reported itself drained owes nothing, and never will.              *)
LedgerInv ==
  /\ ~aborted
  /\ open <=> main = "select"
  /\ drained => ~open /\ \A m \in Messages : ~Pool!Owed(m)
  /\ \A m \in Messages :
       /\ at[m] \in {"working", "recording", "replying", "returned"} => status[m] = "begun"
       /\ m.from = "self" => status[m] = "outside"

(* run() closes the sink and hangs up in the places its text says.         *)
OrderInv ==
  /\ closer = "idle" <=> main \notin {"closing", "shutdown", "exited"}
  /\ main \in {"shutdown", "exited"} => closer = "returned"
  /\ hungUp => main \notin {"select", "stopping", "hangup"}

(* What comes too late comes from a job that the drain deadline abandoned. *)
LateInv ==
  \A m \in Messages :
    /\ outcome[m] = "panicked" => closed /\ ~drained
    /\ reply[m] = "late" => hungUp /\ ~drained

BotInv == Types /\ Books!SinkInv /\ LedgerInv /\ OrderInv /\ LateInv

-----------------------------------------------------------------------------
(* The sink of Bot is the one of InfluxWriterProofs, whose assumptions the *)
(* messages satisfy.                                                       *)
LEMMA SameSink ==
  /\ Sink!Init <=> Books!Init
  /\ \A m \in Messages : Sink!Enqueue(m) <=> Books!Enqueue(m)
  /\ Sink!Run <=> Books!Run
  /\ Sink!CloseQueue \/ Sink!CloseReturns <=> Books!Close
  /\ Sink!TypeOK <=> Books!TypeOK
<1>1. Sink!Init <=> Books!Init
  BY DEF Sink!Init, Books!Init
<1>2. ASSUME NEW m \in Messages PROVE Sink!Enqueue(m) <=> Books!Enqueue(m)
  BY DEF Sink!Enqueue, Sink!EnqueueHandOff, Sink!EnqueueBuffer, Sink!EnqueueDrop,
         Sink!EnqueuePanic, Sink!Becomes, Sink!HasRoom,
         Books!Enqueue, Books!EnqueueHandOff, Books!EnqueueBuffer, Books!EnqueueDrop,
         Books!EnqueuePanic, Books!Becomes, Books!HasRoom
<1>3. Sink!Run <=> Books!Run
  BY DEF Sink!Run, Sink!Receive, Sink!Park, Sink!Leave, Sink!SendSucceeds,
         Sink!SendFails, Sink!SendEnds, Sink!Becomes,
         Books!Run, Books!Receive, Books!Park, Books!Leave, Books!SendSucceeds,
         Books!SendFails, Books!SendEnds, Books!Becomes
<1>4. Sink!CloseQueue \/ Sink!CloseReturns <=> Books!Close
  BY DEF Sink!CloseQueue, Sink!CloseReturns,
         Books!Close, Books!CloseQueue, Books!CloseReturns
<1>5. Sink!TypeOK <=> Books!TypeOK
  BY DEF Sink!TypeOK, Sink!RunnerStates, Sink!CloserStates, Sink!Outcomes,
         Books!TypeOK, Books!RunnerStates, Books!CloserStates, Books!Outcomes
<1>6. QED
  BY <1>1, <1>2, <1>3, <1>4, <1>5

LEMMA SinkAssumptions ==
  Books!IsFiniteSet(Messages) /\ QueueSize \in Nat /\ NoEvent \notin Messages
  BY MessagesFinite, SizesNat, NoEventIsNone DEF Books!IsFiniteSet, IsFiniteSet

(* A step of the process is a step of the sink, or leaves it alone.        *)
LEMMA SinkSteps ==
  ASSUME [Next]_vars
  PROVE  \/ UNCHANGED sink \/ Sink!Run \/ Sink!CloseQueue \/ Sink!CloseReturns
         \/ \E m \in Messages : Sink!Enqueue(m)
<1>1. CASE LinkMoves \/ HangsUp \/ (\E m \in Messages : Arrive(m)) \/ Dispatch
  BY <1>1 DEF LinkMoves, HangsUp, Arrive, Dispatch, sink
<1>2. CASE \E m \in Messages : Begin(m) \/ Work(m) \/ Record(m) \/ Reply(m) \/ Settle(m)
  BY <1>2 DEF Begin, Work, Record, Reply, Settle, sink
<1>3. CASE Signal \/ LanguagesEnd \/ SinkRuns
  BY <1>3 DEF Signal, LanguagesEnd, SinkRuns, sink
<1>4. CASE Main
  BY <1>4 DEF Main, Select, StopDrained, StopTimesOut, HangUp, XMPPEnded, Defers,
              CloseSink, SinkClosed, Exit, sink
<1>5. CASE Gone \/ UNCHANGED vars
  BY <1>5 DEF Gone, vars, sink
<1>6. QED
  BY <1>1, <1>2, <1>3, <1>4, <1>5 DEF Next

(* The sink of the process keeps the invariant of the sink.                *)
LEMMA SinkKept == ASSUME Books!SinkInv, [Next]_vars PROVE Books!SinkInv'
<1>1. CASE UNCHANGED sink
  BY <1>1, Books!SinkIdle, SinkAssumptions DEF sink, Books!vars
<1>2. CASE Sink!Run
  BY <1>2, SameSink, Books!RunKeeps, SinkAssumptions
<1>3. CASE Sink!CloseQueue \/ Sink!CloseReturns
  BY <1>3, SameSink, Books!CloseKeeps, SinkAssumptions
<1>4. CASE \E m \in Messages : Sink!Enqueue(m)
  BY <1>4, SameSink, Books!EnqueueKeeps, SinkAssumptions
<1>5. QED
  BY <1>1, <1>2, <1>3, <1>4, SinkSteps

-----------------------------------------------------------------------------
(* run() up to its select.                                                 *)
LEMMA BotInit == Init => BotInv
<1> SUFFICES ASSUME Init PROVE BotInv
  OBVIOUS
<1>1. Books!SinkInv
  BY SameSink, Books!SinkInit, SinkAssumptions DEF Init
<1>2. /\ status = [m \in Messages |-> "outside"] /\ open = TRUE /\ aborted = FALSE
      /\ drained = FALSE /\ link = "dialing" /\ hungUp = FALSE /\ inbox = <<>>
      /\ heard = {} /\ closer = "idle" /\ outcome = [m \in Messages |-> "new"]
      /\ signalled = FALSE /\ main = "select" /\ graceful = FALSE /\ lang = "fetching"
      /\ at = [m \in Messages |-> "outside"] /\ reply = [m \in Messages |-> "none"]
  BY DEF Init, Pool!Init, Conn!Init, Sink!Init
<1>3. inbox \in Seq(Messages) /\ Len(inbox) <= InboxSize
  BY <1>2, SizesNat
<1>4. Types
  BY <1>2, <1>3 DEF Types, Conn!Links
<1>5. LedgerInv /\ OrderInv /\ LateInv
  BY <1>2 DEF LedgerInv, OrderInv, LateInv, Pool!Owed
<1>6. QED
  BY <1>1, <1>4, <1>5 DEF BotInv

(* The XMPP client and dispatchIncoming touch the inbox and the link; only *)
(* the latter also the pool.                                               *)
LEMMA ClientKeeps ==
  ASSUME BotInv, \/ LinkMoves \/ HangsUp \/ (\E m \in Messages : Arrive(m)) \/ Dispatch
  PROVE  Types' /\ LedgerInv' /\ OrderInv' /\ LateInv'
<1> USE DEF BotInv, Types, sink, proc, work
<1>1. /\ main' = main /\ hungUp' = hungUp /\ closer' = closer /\ closed' = closed
      /\ outcome' = outcome /\ reply' = reply /\ at' = at /\ lang' = lang
      /\ signalled' = signalled /\ graceful' = graceful
      /\ open' = open /\ aborted' = aborted /\ drained' = drained
  BY DEF LinkMoves, HangsUp, Arrive, Dispatch, Conn!Connect, Conn!Drop, Conn!Fatal,
         Conn!HangsUp, Conn!Arrive, Conn!Take, Conn!Moves, Pool!Accept, Pool!Refuse,
         Pool!Become, pool
<1>2. OrderInv' /\ LateInv'
  BY <1>1 DEF OrderInv, LateInv
<1>3. CASE LinkMoves \/ HangsUp
  <2>1. /\ status' = status /\ inbox' = inbox /\ heard' = heard /\ link' \in Conn!Links
    BY <1>3 DEF LinkMoves, HangsUp, Conn!Connect, Conn!Drop, Conn!Fatal, Conn!HangsUp,
                Conn!Moves, Conn!Links, pool
  <2>2. QED
    BY <1>1, <1>2, <2>1 DEF LedgerInv, Pool!Owed
<1>4. CASE \E m \in Messages : Arrive(m)
  <2>1. PICK m \in Messages : Arrive(m)
    BY <1>4
  <2>2. /\ status' = status /\ link' = link /\ heard' = heard \cup {m}
        /\ inbox' = Append(inbox, m) /\ Len(inbox) < InboxSize
    BY <2>1 DEF Arrive, Conn!Arrive, pool
  <2>3. inbox' \in Seq(Messages) /\ Len(inbox') <= InboxSize
    BY <2>2, SizesNat, AppendProperties
  <2>4. QED
    BY <1>1, <1>2, <2>2, <2>3 DEF LedgerInv, Pool!Owed
<1>5. CASE Dispatch
  <2>1. /\ inbox # <<>> /\ inbox' = Tail(inbox) /\ link' = link /\ heard' = heard
    BY <1>5 DEF Dispatch, Conn!Take
  <2>2. Head(inbox) \in Messages
    BY <2>1, HeadTailProperties
  <2>3. inbox' \in Seq(Messages) /\ Len(inbox') <= InboxSize
    BY <2>1, HeadTailProperties, SizesNat
  <2>4. \/ status' = status
        \/ /\ open \/ status'[Head(inbox)] = "refused"
           /\ Head(inbox).from # "self" /\ status[Head(inbox)] = "outside"
           /\ \E o \in {"accepted", "refused"} :
                status' = [status EXCEPT ![Head(inbox)] = o]
    BY <1>5, <2>2 DEF Dispatch, PassesOver, Pool!Accept, Pool!Refuse, Pool!Become, pool
  <2>5. Types'
    BY <1>1, <2>1, <2>2, <2>3, <2>4
  <2>6. LedgerInv'
    BY <1>1, <2>2, <2>4 DEF LedgerInv, Pool!Owed
  <2>7. QED
    BY <1>2, <2>5, <2>6
<1>6. QED
  BY <1>3, <1>4, <1>5

(* A job in the hands of a worker.                                         *)
LEMMA JobKeeps ==
  ASSUME BotInv, NEW m \in Messages,
         Begin(m) \/ Work(m) \/ Record(m) \/ Reply(m) \/ Settle(m)
  PROVE  Types' /\ LedgerInv' /\ OrderInv' /\ LateInv'
<1> USE DEF BotInv, Types, proc, conn, Goes
<1>1. /\ main' = main /\ hungUp' = hungUp /\ link' = link /\ inbox' = inbox
      /\ heard' = heard /\ lang' = lang /\ signalled' = signalled
      /\ graceful' = graceful /\ closed' = closed /\ closer' = closer
      /\ open' = open /\ aborted' = aborted /\ drained' = drained
  BY DEF Begin, Work, Record, Reply, Settle, Pool!Begin, Pool!Settle, Pool!Become,
         Sink!Enqueue, pool, sink
<1>2. OrderInv'
  BY <1>1 DEF OrderInv
<1>3. CASE Begin(m) \/ Work(m) \/ Settle(m)
  <2>1. outcome' = outcome /\ reply' = reply
    BY <1>3 DEF Begin, Work, Settle, sink
  <2>2. \/ /\ status[m] = "accepted" /\ status' = [status EXCEPT ![m] = "begun"]
           /\ at' = [at EXCEPT ![m] = "working"]
        \/ /\ status' = status /\ at[m] = "working"
           /\ \E p \in {"recording", "replying", "returned"} : at' = [at EXCEPT ![m] = p]
        \/ /\ status[m] = "begun" /\ status' = [status EXCEPT ![m] = "settled"]
           /\ at' = [at EXCEPT ![m] = "over"]
    BY <1>3 DEF Begin, Work, Settle, Pool!Begin, Pool!Settle, Pool!Become, pool
  <2>3. Types'
    BY <1>1, <2>1, <2>2
  <2>4. LedgerInv'
    BY <1>1, <2>2 DEF LedgerInv, Pool!Owed
  <2>5. LateInv'
    BY <1>1, <2>1 DEF LateInv
  <2>6. QED
    BY <1>2, <2>3, <2>4, <2>5
<1>4. CASE Record(m)
  <2>1. /\ status' = status /\ reply' = reply /\ at[m] = "recording"
        /\ \E p \in {"replying", "returned"} : at' = [at EXCEPT ![m] = p]
    BY <1>4 DEF Record, pool
  <2>2. status[m] = "begun" /\ ~drained
    BY <2>1 DEF LedgerInv, Pool!Owed
  <2>3. \A k \in Messages : outcome'[k] = "panicked" => outcome[k] = "panicked" \/ closed
    <3>1. outcome \in [Messages -> Books!Outcomes]
      BY DEF Books!SinkInv, Books!TypeOK
    <3>2. QED
      BY <1>4, <3>1 DEF Record, Sink!Enqueue, Sink!EnqueueHandOff, Sink!EnqueueBuffer,
                        Sink!EnqueueDrop, Sink!EnqueuePanic, Sink!Becomes
  <2>4. Types'
    BY <1>1, <2>1
  <2>5. LedgerInv'
    BY <1>1, <2>1, <2>2 DEF LedgerInv, Pool!Owed
  <2>6. LateInv'
    BY <1>1, <2>1, <2>2, <2>3 DEF LateInv
  <2>7. QED
    BY <1>2, <2>4, <2>5, <2>6
<1>5. CASE Reply(m)
  <2>1. /\ status' = status /\ outcome' = outcome /\ at[m] = "replying"
        /\ at' = [at EXCEPT ![m] = "returned"]
        /\ \E r \in {"sent", "failed", "late"} :
             reply' = [reply EXCEPT ![m] = r] /\ (r = "late" => hungUp)
    BY <1>5 DEF Reply, pool, sink
  <2>2. status[m] = "begun" /\ ~drained
    BY <2>1 DEF LedgerInv, Pool!Owed
  <2>3. Types'
    BY <1>1, <2>1
  <2>4. LedgerInv'
    BY <1>1, <2>1, <2>2 DEF LedgerInv, Pool!Owed
  <2>5. LateInv'
    BY <1>1, <2>1, <2>2 DEF LateInv
  <2>6. QED
    BY <1>2, <2>3, <2>4, <2>5
<1>6. QED
  BY <1>3, <1>4, <1>5

(* run() from its select to its return. It closes the pool first, and the  *)
(* sink only after that; and it reports the pool drained before both hang  *)
(* up and close.                                                           *)
LEMMA MainKeeps ==
  ASSUME BotInv, Main
  PROVE  Types' /\ LedgerInv' /\ OrderInv' /\ LateInv'
<1> USE DEF BotInv, Types, MainMoves, work, conn
<1>1. /\ at' = at /\ reply' = reply /\ outcome' = outcome /\ status' = status
      /\ signalled' = signalled /\ link' = link /\ inbox' = inbox /\ heard' = heard
      /\ aborted' = aborted
  BY DEF Main, Select, StopDrained, StopTimesOut, HangUp, XMPPEnded, Defers, CloseSink,
         SinkClosed, Exit, Pool!Shut, Pool!ReportDrained, Conn!HangUp,
         Sink!CloseQueue, Sink!CloseReturns, pool, sink
<1>2. CASE Select
  <2>1. /\ main = "select" /\ main' = "stopping" /\ graceful' \in BOOLEAN /\ open' = FALSE
        /\ drained' = drained /\ hungUp' = hungUp /\ lang' = lang /\ closer' = closer
        /\ closed' = closed
    BY <1>2 DEF Select, Pool!Shut, sink
  <2>2. QED
    BY <1>1, <2>1 DEF LedgerInv, OrderInv, LateInv, Pool!Owed
<1>3. CASE StopDrained
  <2>1. /\ main = "stopping" /\ main' \in {"hangup", "defers"} /\ graceful' = graceful
        /\ open' = open /\ drained' \in BOOLEAN
        /\ hungUp' = hungUp /\ lang' = lang /\ closer' = closer /\ closed' = closed
    BY <1>3 DEF StopDrained, AfterStop, Pool!ReportDrained, sink
  <2>2. ~open /\ \A m \in Messages : ~Pool!Owed(m)
    BY <1>3 DEF StopDrained, Pool!ReportDrained, LedgerInv
  <2>3. ~closed /\ ~hungUp
    BY <2>1 DEF OrderInv, Books!SinkInv, Books!Phased
  <2>4. \A m \in Messages : outcome[m] # "panicked" /\ reply[m] # "late"
    BY <2>3 DEF LateInv
  <2>5. LedgerInv'
    BY <1>1, <2>1, <2>2 DEF LedgerInv, Pool!Owed
  <2>6. Types' /\ OrderInv'
    BY <1>1, <2>1 DEF OrderInv
  <2>7. LateInv'
    BY <1>1, <2>4 DEF LateInv
  <2>8. QED
    BY <2>5, <2>6, <2>7
<1>4. CASE StopTimesOut \/ XMPPEnded \/ Exit
  <2>1. /\ \/ main = "stopping" /\ main' \in {"hangup", "defers"}
           \/ main = "awaitXMPP" /\ main' = "defers"
           \/ main = "shutdown" /\ main' = "exited"
        /\ graceful' = graceful /\ open' = open /\ drained' = drained
        /\ hungUp' = hungUp /\ lang' = lang /\ closer' = closer /\ closed' = closed
    BY <1>4 DEF StopTimesOut, XMPPEnded, Exit, AfterStop, pool, sink
  <2>2. QED
    BY <1>1, <2>1 DEF LedgerInv, OrderInv, LateInv, Pool!Owed
<1>5. CASE HangUp \/ Defers
  <2>1. /\ \/ main = "hangup" /\ main' = "awaitXMPP"
           \/ main = "defers" /\ main' = "awaitLang"
        /\ graceful' = graceful /\ open' = open /\ drained' = drained
        /\ hungUp' = TRUE /\ lang' \in {"fetching", "stopping", "gone"}
        /\ closer' = closer /\ closed' = closed
    BY <1>5 DEF HangUp, Defers, Conn!HangUp, pool, sink
  <2>2. QED
    BY <1>1, <2>1 DEF LedgerInv, OrderInv, LateInv, Pool!Owed
<1>6. CASE CloseSink \/ SinkClosed
  <2>1. /\ \/ main = "awaitLang" /\ main' = "closing" /\ closer' = "waiting" /\ closed'
           \/ /\ main = "closing" /\ main' = "shutdown" /\ closer' = "returned"
              /\ closed' = closed
        /\ graceful' = graceful /\ open' = open /\ drained' = drained
        /\ hungUp' = hungUp /\ lang' = lang
    BY <1>6 DEF CloseSink, SinkClosed, Sink!CloseQueue, Sink!CloseReturns, pool
  <2>2. QED
    BY <1>1, <2>1 DEF LedgerInv, OrderInv, LateInv, Pool!Owed
<1>7. QED
  BY <1>2, <1>3, <1>4, <1>5, <1>6 DEF Main

(* The signal, the languages goroutine, run of the sink, and stuttering.   *)
LEMMA RestKeeps ==
  ASSUME BotInv, Signal \/ LanguagesEnd \/ SinkRuns \/ Gone \/ UNCHANGED vars
  PROVE  Types' /\ LedgerInv' /\ OrderInv' /\ LateInv'
<1>1. /\ status' = status /\ open' = open /\ aborted' = aborted /\ drained' = drained
      /\ closed' = closed /\ closer' = closer
      /\ main' = main /\ graceful' = graceful /\ link' = link /\ hungUp' = hungUp
      /\ inbox' = inbox /\ heard' = heard /\ at' = at /\ reply' = reply
      /\ \/ signalled' = signalled \/ signalled' = TRUE
      /\ \/ lang' = lang \/ lang' = "gone"
  BY DEF Signal, LanguagesEnd, SinkRuns, Gone, vars, pool, sink, conn, work, proc,
         Sink!Run, Sink!Receive, Sink!Park, Sink!Leave, Sink!SendSucceeds, Sink!SendFails,
         Sink!SendEnds
<1>2. Types' /\ LedgerInv' /\ OrderInv'
  BY <1>1 DEF BotInv, Types, LedgerInv, OrderInv, Pool!Owed
<1>3. \A m \in Messages : outcome'[m] = "panicked" => outcome[m] = "panicked"
  <2>1. CASE SinkRuns
    <3>1. outcome \in [Messages -> Books!Outcomes]
      BY DEF BotInv, Books!SinkInv, Books!TypeOK
    <3>2. QED
      BY <2>1, <3>1 DEF SinkRuns, Sink!Run, Sink!Receive, Sink!Park, Sink!Leave,
         Sink!SendSucceeds, Sink!SendFails, Sink!SendEnds, Sink!Becomes
  <2>2. CASE Signal \/ LanguagesEnd \/ Gone \/ UNCHANGED vars
    BY <2>2 DEF Signal, LanguagesEnd, Gone, vars, sink
  <2>3. QED
    BY <2>1, <2>2
<1>4. LateInv'
  BY <1>1, <1>3 DEF BotInv, LateInv
<1>5. QED
  BY <1>2, <1>4

(* The inductive invariant of the process holds throughout.                *)
LEMMA BotInvariant == Spec => []BotInv
<1>1. BotInv /\ [Next]_vars => BotInv'
  <2> SUFFICES ASSUME BotInv, [Next]_vars PROVE BotInv'
    OBVIOUS
  <2>1. Books!SinkInv'
    BY SinkKept DEF BotInv
  <2>2. Types' /\ LedgerInv' /\ OrderInv' /\ LateInv'
    BY ClientKeeps, JobKeeps, MainKeeps, RestKeeps DEF Next
  <2>3. QED
    BY <2>1, <2>2 DEF BotInv
<1>2. QED
  BY <1>1, BotInit, PTL DEF Spec

-----------------------------------------------------------------------------
(* Types of the process, those of its sink included.                       *)
THEOREM BotTypeCorrect == Spec => []TypeOK
<1>1. BotInv => TypeOK
  BY SameSink DEF BotInv, Books!SinkInv, Types, TypeOK
<1>2. QED
  BY <1>1, BotInvariant, PTL

(* Unless the drain deadline passed, no answer comes after the hang-up and *)
(* none is owed then (main.go, the comment on the select).                 *)
THEOREM NoLateAnswer == Spec => []AnswersBeforeHangUp
<1>1. BotInv => AnswersBeforeHangUp
  BY DEF BotInv, LedgerInv, LateInv, AnswersBeforeHangUp, Pool!Owed
<1>2. QED
  BY <1>1, BotInvariant, PTL

(* Unless the drain deadline passed, no job panics in Enqueue: run()       *)
(* closes the sink after Stop (main.go, the deferred Close).               *)
THEOREM SinkClosesLast == Spec => []SinkOutlivesJobs
<1>1. BotInv => SinkOutlivesJobs
  BY DEF BotInv, LateInv, SinkOutlivesJobs
<1>2. QED
  BY <1>1, BotInvariant, PTL

(* When the process exits, every event the sink took was written or        *)
(* counted, those of abandoned jobs included (main.go, the deferred Close).*)
THEOREM ExitSettles == Spec => []EventsSettledAtExit
<1>1. BotInv => EventsSettledAtExit
  <2> SUFFICES ASSUME BotInv, main = "exited" PROVE EventsSettledAtExit
    BY DEF EventsSettledAtExit
  <2>1. done
    BY DEF BotInv, OrderInv, Books!SinkInv, Books!Phased
  <2>2. QED
    BY <2>1, SinkAssumptions, Books!NothingHeld DEF BotInv, EventsSettledAtExit
<1>2. QED
  BY <1>1, BotInvariant, PTL

-----------------------------------------------------------------------------
(* What is put together here is used as the contracts of the parts allow.  *)

LEMMA PoolMoves == ASSUME BotInv, [Next]_vars PROVE [Pool!Next]_(Pool!ledger)
<1> USE DEF Pool!Next, Pool!ledger, pool
<1>1. CASE LinkMoves \/ HangsUp \/ (\E m \in Messages : Arrive(m))
  BY <1>1 DEF LinkMoves, HangsUp, Arrive
<1>2. CASE Dispatch
  <2>1. inbox # <<>> /\ inbox \in Seq(Messages)
    BY <1>2 DEF Dispatch, Conn!Take, BotInv, Types
  <2>2. Head(inbox) \in Messages
    BY <2>1
  <2>3. QED
    BY <1>2, <2>2 DEF Dispatch
<1>3. CASE \E m \in Messages : Begin(m) \/ Work(m) \/ Record(m) \/ Reply(m) \/ Settle(m)
  BY <1>3 DEF Begin, Work, Record, Reply, Settle
<1>4. CASE Main
  BY <1>4 DEF Main, Select, StopDrained, StopTimesOut, HangUp, XMPPEnded, Defers,
              CloseSink, SinkClosed, Exit
<1>5. CASE Signal \/ LanguagesEnd \/ SinkRuns \/ Gone \/ UNCHANGED vars
  BY <1>5 DEF Signal, LanguagesEnd, SinkRuns, Gone, vars
<1>6. QED
  BY <1>1, <1>2, <1>3, <1>4, <1>5 DEF Next

LEMMA ConnMoves == [Next]_vars => [Conn!Next]_(Conn!conn)
<1> USE DEF Conn!Next, Conn!conn, conn
<1>1. CASE LinkMoves \/ HangsUp \/ (\E m \in Messages : Arrive(m)) \/ Dispatch
  BY <1>1 DEF LinkMoves, HangsUp, Arrive, Dispatch
<1>2. CASE \E m \in Messages : Begin(m) \/ Work(m) \/ Record(m) \/ Reply(m) \/ Settle(m)
  BY <1>2 DEF Begin, Work, Record, Reply, Settle
<1>3. CASE Main
  BY <1>3 DEF Main, Select, StopDrained, StopTimesOut, HangUp, XMPPEnded, Defers,
              CloseSink, SinkClosed, Exit
<1>4. CASE Signal \/ LanguagesEnd \/ SinkRuns \/ Gone \/ UNCHANGED vars
  BY <1>4 DEF Signal, LanguagesEnd, SinkRuns, Gone, vars
<1>5. QED
  BY <1>1, <1>2, <1>3, <1>4 DEF Next

LEMMA SinkMoves == [Next]_vars => [Sink!Next]_(Sink!vars)
  BY SinkSteps DEF Sink!Next, Sink!Close, Sink!vars, sink

(* The process asks of its pool, its connection and its sink only what     *)
(* their contracts allow, whatever goes on at once: the pool as            *)
(* JobLedger has it, which LedgerImplemented shows of worker.go; the       *)
(* connection as Connection has it, which ConnectionImplemented shows of   *)
(* client.go; and the sink as it is (main.go; influx.go).                  *)
THEOREM PartsAsPromised == Spec => Pool!Safety /\ Conn!Spec /\ Sink!Spec
<1>1. Init => Pool!Init /\ Conn!Init /\ Sink!Init
  BY DEF Init
<1>2. BotInv /\ [Next]_vars => [Pool!Next]_(Pool!ledger)
  BY PoolMoves
<1>3. QED
  BY <1>1, <1>2, ConnMoves, SinkMoves, BotInvariant, PTL
     DEF Spec, Pool!Safety, Conn!Spec, Sink!Spec

-----------------------------------------------------------------------------
(* Each job of the process does what JobLife has of a job. *)

(* A job that is not yet answered, or not yet recorded, left no trace.     *)
LifeInv(m) ==
  /\ at[m] \in {"outside", "working", "recording", "replying", "returned", "over"}
  /\ at[m] \in {"outside", "working", "recording"} => outcome[m] = "new"
  /\ at[m] \in {"outside", "working", "recording", "replying"} => reply[m] = "none"

(* Of the sink only Enqueue touches an event that is new.                  *)
LEMMA EventsStay ==
  ASSUME BotInv, NEW m \in Messages, Sink!Run \/ Sink!CloseQueue \/ Sink!CloseReturns
  PROVE  outcome'[m] = "new" <=> outcome[m] = "new"
<1>1. /\ outcome \in [Messages -> Books!Outcomes]
      /\ queue # <<>> => Head(queue) \in Messages /\ outcome[Head(queue)] = "queued"
      /\ runner = "sending" => inHand \in Messages /\ outcome[inHand] = "sending"
  BY DEF BotInv, Books!SinkInv, Books!TypeOK, Books!Placed, Books!Queued, Books!Sending
<1>2. CASE Sink!Receive
  BY <1>1, <1>2 DEF Sink!Receive, Sink!Becomes, Books!Outcomes
<1>3. CASE Sink!SendSucceeds \/ Sink!SendFails
  BY <1>1, <1>3 DEF Sink!SendSucceeds, Sink!SendFails, Sink!SendEnds, Sink!Becomes
<1>4. CASE Sink!Park \/ Sink!Leave \/ Sink!CloseQueue \/ Sink!CloseReturns
  BY <1>4 DEF Sink!Park, Sink!Leave, Sink!CloseQueue, Sink!CloseReturns
<1>5. QED
  BY <1>2, <1>3, <1>4 DEF Sink!Run

(* What JobLife sees of a job is left alone by all but its own steps.      *)
LEMMA OthersLeaveJob ==
  ASSUME BotInv, NEW m \in Messages, [Next]_vars,
         ~Work(m), ~Record(m), ~Reply(m), ~Begin(m), ~Settle(m)
  PROVE  /\ at'[m] = at[m] /\ reply'[m] = reply[m]
         /\ outcome'[m] = "new" <=> outcome[m] = "new"
<1>1. CASE LinkMoves \/ HangsUp \/ (\E o \in Messages : Arrive(o)) \/ Dispatch
  BY <1>1 DEF LinkMoves, HangsUp, Arrive, Dispatch, work, sink
<1>2. ASSUME NEW o \in Messages, o # m,
             Begin(o) \/ Work(o) \/ Record(o) \/ Reply(o) \/ Settle(o)
      PROVE  /\ at'[m] = at[m] /\ reply'[m] = reply[m]
             /\ outcome'[m] = "new" <=> outcome[m] = "new"
  <2>1. /\ at \in [Messages -> {"outside", "working", "recording", "replying",
                                "returned", "over"}]
        /\ reply \in [Messages -> {"none", "sent", "failed", "late"}]
        /\ outcome \in [Messages -> Books!Outcomes]
    BY DEF BotInv, Types, Books!SinkInv, Books!TypeOK
  <2>2. CASE Record(o)
    <3>1. outcome'[m] = outcome[m]
      BY <1>2, <2>1, <2>2 DEF Record, Sink!Enqueue, Sink!EnqueueHandOff,
             Sink!EnqueueBuffer, Sink!EnqueueDrop, Sink!EnqueuePanic, Sink!Becomes
    <3>2. QED
      BY <1>2, <2>1, <2>2, <3>1 DEF Record, Goes
  <2>3. CASE Begin(o) \/ Work(o) \/ Reply(o) \/ Settle(o)
    BY <1>2, <2>1, <2>3 DEF Begin, Work, Reply, Settle, Goes, sink
  <2>4. QED
    BY <1>2, <2>2, <2>3
<1>3. CASE Main
  <2>1. UNCHANGED work /\ (UNCHANGED sink \/ Sink!CloseQueue \/ Sink!CloseReturns)
    BY <1>3 DEF Main, Select, StopDrained, StopTimesOut, HangUp, XMPPEnded, Defers,
                CloseSink, SinkClosed, Exit, MainMoves
  <2>2. QED
    BY <2>1, EventsStay DEF work, sink
<1>4. CASE SinkRuns
  BY <1>4, EventsStay DEF SinkRuns, work
<1>5. CASE Signal \/ LanguagesEnd \/ Gone \/ UNCHANGED vars
  BY <1>5 DEF Signal, LanguagesEnd, Gone, vars, work, sink
<1>6. QED
  BY <1>1, <1>2, <1>3, <1>4, <1>5 DEF Next

(* The steps of a job are those of JobLife: taking it up and settling it   *)
(* show nothing of it.                                                     *)
LEMMA JobMoves ==
  ASSUME BotInv, NEW m \in Messages, LifeInv(m), [Next]_vars
  PROVE  LifeInv(m)' /\ [Life(m)!Next]_(Life(m)!life)
<1> USE DEF LifeInv, Stage, Life!Next, Life!life
<1>1. /\ at \in [Messages -> {"outside", "working", "recording", "replying",
                              "returned", "over"}]
      /\ reply \in [Messages -> {"none", "sent", "failed", "late"}]
      /\ outcome \in [Messages -> Books!Outcomes]
  BY DEF BotInv, Types, Books!SinkInv, Books!TypeOK
<1>2. CASE Work(m)
  BY <1>1, <1>2 DEF Work, Goes, sink, Life!Work
<1>3. CASE Record(m)
  <2>1. outcome[m] = "new" /\ outcome'[m] # "new"
    BY <1>1, <1>3 DEF Record, Sink!Enqueue, Sink!EnqueueHandOff,
             Sink!EnqueueBuffer, Sink!EnqueueDrop, Sink!EnqueuePanic, Sink!Becomes
  <2>2. QED
    BY <1>1, <1>3, <2>1 DEF Record, Goes, Life!Record
<1>4. CASE Reply(m)
  BY <1>1, <1>4 DEF Reply, Goes, sink, Life!Reply
<1>5. CASE Begin(m) \/ Settle(m)
  BY <1>1, <1>5 DEF Begin, Settle, Goes, sink
<1>6. CASE ~Work(m) /\ ~Record(m) /\ ~Reply(m) /\ ~Begin(m) /\ ~Settle(m)
  BY <1>6, OthersLeaveJob
<1>7. QED
  BY <1>2, <1>3, <1>4, <1>5, <1>6

(* Whatever the process is doing, each of its jobs does what JobLife has   *)
(* of a job, as JobLifeImplemented shows of processTranslate and           *)
(* processLookup: at most one event, and at most one answer after it.      *)
THEOREM JobsAsPromised ==
  ASSUME NEW m \in Messages
  PROVE  Spec => Life(m)!Spec
<1>1. Init => LifeInv(m) /\ Life(m)!Init
  BY DEF Init, Sink!Init, LifeInv, Stage, Life!Init
<1>2. BotInv /\ LifeInv(m) /\ [Next]_vars => LifeInv(m)' /\ [Life(m)!Next]_(Life(m)!life)
  BY JobMoves
<1>3. QED
  BY <1>1, <1>2, BotInvariant, PTL DEF Spec, Life!Spec
=============================================================================
