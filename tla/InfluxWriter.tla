---------------------------- MODULE InfluxWriter ----------------------------
(***************************************************************************)
(* The asynchronous metrics sink of internal/observability/influx.go:      *)
(* Enqueue offers an event to a bounded channel without blocking, one      *)
(* goroutine (run) sends the events one by one over HTTP, Close closes the *)
(* channel and waits for that goroutine.  Best effort: an event that does  *)
(* not fit or that the server refuses is counted and forgotten.            *)
(***************************************************************************)
EXTENDS Integers, Sequences, FiniteSets

CONSTANTS
  Events,    \* the TranslationEvents, each passed to Enqueue at most once
  QueueSize, \* cfg.QueueSize (0 is accepted)
  NoEvent    \* run has no event in hand

ASSUME EventsFinite   == IsFiniteSet(Events)
ASSUME QueueSizeNat   == QueueSize \in Nat
ASSUME NoEventIsNone  == NoEvent \notin Events

VARIABLES
  queue,   \* w.queue: the buffered events
  closed,  \* w.queue has been closed
  done,    \* w.done has been closed
  runner,  \* program counter of the goroutine run
  inHand,  \* the event run is sending
  errors,  \* the counter InfluxWriteErrorsTotal
  closer,  \* program counter of the one call of Close
  outcome  \* history: what became of each event

vars == <<queue, closed, done, runner, inHand, errors, closer, outcome>>

RunnerStates == {"ready", "parked", "sending", "exited"}
CloserStates == {"idle", "waiting", "returned"}
Outcomes     == {"new", "queued", "sending", "written", "failed", "dropped",
                 "panicked"}

(* NewInfluxWriter *)
Init ==
  /\ queue = <<>> /\ closed = FALSE /\ done = FALSE
  /\ runner = "ready" /\ inHand = NoEvent
  /\ errors = 0 /\ closer = "idle"
  /\ outcome = [e \in Events |-> "new"]

-----------------------------------------------------------------------------
(* Enqueue: a select with a default case. *)

Becomes(e, o) == outcome' = [outcome EXCEPT ![e] = o]

EnqueueHandOff(e) ==
  /\ ~closed /\ runner = "parked"
  /\ runner' = "sending" /\ inHand' = e
  /\ Becomes(e, "sending")
  /\ UNCHANGED <<queue, errors>>

HasRoom == Len(queue) < QueueSize

EnqueueBuffer(e) ==
  /\ ~closed /\ runner # "parked" /\ HasRoom
  /\ queue' = Append(queue, e)
  /\ Becomes(e, "queued")
  /\ UNCHANGED <<runner, inHand, errors>>

EnqueueDrop(e) ==
  /\ ~closed /\ runner # "parked" /\ ~HasRoom
  /\ errors' = errors + 1
  /\ Becomes(e, "dropped")
  /\ UNCHANGED <<queue, runner, inHand>>

\* Nothing keeps a caller from enqueueing after Close: the send on the closed
\* channel panics in the caller, default case or not.
EnqueuePanic(e) ==
  /\ closed
  /\ Becomes(e, "panicked")
  /\ UNCHANGED <<queue, runner, inHand, errors>>

Enqueue(e) ==
  /\ outcome[e] = "new"
  /\ EnqueueHandOff(e) \/ EnqueueBuffer(e) \/ EnqueueDrop(e) \/ EnqueuePanic(e)
  /\ UNCHANGED <<closed, done, closer>>

-----------------------------------------------------------------------------
(* run and send *)

Receive ==
  /\ runner = "ready" /\ queue # <<>>
  /\ runner' = "sending" /\ inHand' = Head(queue)
  /\ queue' = Tail(queue)
  /\ Becomes(Head(queue), "sending")
  /\ UNCHANGED <<closed, done, errors, closer>>

Park ==
  /\ runner = "ready" /\ queue = <<>> /\ ~closed
  /\ runner' = "parked"
  /\ UNCHANGED <<queue, closed, done, inHand, errors, closer, outcome>>

\* The range ends on a closed and empty channel; the deferred close(w.done).
Leave_onClose ==
  /\ runner \in {"ready", "parked"} /\ closed
  /\ runner' = "exited" /\ done' = TRUE
  /\ UNCHANGED <<queue, closed, inHand, errors, closer, outcome>>
Leave_silent ==
  /\ runner \in {"ready", "parked"} /\ closed /\ queue = <<>>
  /\ runner' = "exited"
  /\ UNCHANGED <<queue, closed, done, inHand, errors, closer, outcome>>
Leave ==
  /\ runner \in {"ready", "parked"} /\ closed /\ queue = <<>>
  /\ runner' = "exited" /\ done' = TRUE
  /\ UNCHANGED <<queue, closed, inHand, errors, closer, outcome>>

SendEnds(o) ==
  /\ runner = "sending"
  /\ runner' = "ready" /\ inHand' = NoEvent
  /\ Becomes(inHand, o)
  /\ UNCHANGED <<queue, closed, done, closer>>

SendSucceeds == SendEnds("written") /\ UNCHANGED errors

\* The request cannot be built, the exchange fails or times out, or the server
\* answers 300 or more: no retry.
SendFails_uncounted == SendEnds("failed") /\ UNCHANGED errors
SendFails == SendEnds("failed") /\ errors' = errors + 1

-----------------------------------------------------------------------------
(* Close, deferred once by run() of cmd/bot *)

CloseQueue ==
  /\ closer = "idle"
  /\ closer' = "waiting" /\ closed' = TRUE
  /\ UNCHANGED <<queue, done, runner, inHand, errors, outcome>>

CloseReturns ==
  /\ closer = "waiting" /\ done
  /\ closer' = "returned"
  /\ UNCHANGED <<queue, closed, done, runner, inHand, errors, outcome>>

Run   == Receive \/ Park \/ Leave \/ SendSucceeds \/ SendFails
Close == CloseQueue \/ CloseReturns

\* Every event was offered, and Close has returned.
AtRest ==
  /\ closer = "returned" /\ \A e \in Events : outcome[e] # "new"
  /\ UNCHANGED vars

Next == (\E e \in Events : Enqueue(e)) \/ Run \/ Close \/ AtRest

Spec == Init /\ [][Next]_vars

\* run is never starved and a request ends, by the Timeout of the HTTP client
\* at the latest (a Timeout of 0, which no validation excludes, means none).
Fairness == WF_vars(Run) /\ WF_vars(CloseReturns)
FairSpec == Spec /\ Fairness

-----------------------------------------------------------------------------
TypeOK ==
  /\ queue \in Seq(Events) /\ Len(queue) <= QueueSize
  /\ closed \in BOOLEAN /\ done \in BOOLEAN
  /\ runner \in RunnerStates /\ closer \in CloserStates
  /\ inHand \in Events \cup {NoEvent} /\ (runner = "sending") <=> (inHand # NoEvent)
  /\ errors \in Nat
  /\ outcome \in [Events -> Outcomes]

\* The error counter counts every event that was lost, once, and nothing else;
\* every other event passed to Enqueue was written, is in the channel or is
\* being sent: an operator who sees the counter at zero has lost nothing.
\* (Events whose Enqueue panicked are not counted.)
EveryLossCounted ==
  /\ errors = Cardinality({e \in Events : outcome[e] \in {"dropped", "failed"}})
  /\ Cardinality({e \in Events : outcome[e] \in {"queued", "sending"}})
       = Len(queue) + Cardinality({inHand} \ {NoEvent})

\* When Close returns, the channel has been emptied: every event accepted
\* before it was written or counted.
CloseDrains ==
  closer = "returned" => \A e \in Events : outcome[e] \notin {"queued", "sending"}

\* Close returns, provided every request ends.
CloseEnds == closer = "waiting" ~> closer = "returned"
=============================================================================
