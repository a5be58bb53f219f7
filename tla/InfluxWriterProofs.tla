------------------------- MODULE InfluxWriterProofs -------------------------
(***************************************************************************)
(* Proofs about InfluxWriter for any finite set of events and any capacity *)
(* of the channel.                                                         *)
(***************************************************************************)
EXTENDS InfluxWriter, TLAPS, FiniteSetTheorems, SequenceTheorems

Queued  == {e \in Events : outcome[e] = "queued"}
Sending == {e \in Events : outcome[e] = "sending"}
Lost    == {e \in Events : outcome[e] \in {"dropped", "failed"}}

(* An event in the channel is there once, and one in hand is known to be.  *)
Placed ==
  /\ \A i \in 1..Len(queue) : outcome[queue[i]] = "queued"
  /\ \A i, k \in 1..Len(queue) : i # k => queue[i] # queue[k]
  /\ Sending = {inHand} \ {NoEvent}

Counted == errors = Cardinality(Lost) /\ Cardinality(Queued) = Len(queue)

(* Where run and Close can be, and what is left in the channel then.       *)
Phased ==
  /\ closed <=> closer # "idle"
  /\ done <=> runner = "exited"
  /\ runner = "parked" => queue = <<>>
  /\ runner = "exited" => closed /\ queue = <<>>
  /\ closer = "returned" => done

SinkInv == TypeOK /\ Placed /\ Counted /\ Phased

-----------------------------------------------------------------------------
(* The sets that are counted are finite.                                   *)
LEMMA FiniteEvents ==
  ASSUME NEW S \in SUBSET Events
  PROVE  IsFiniteSet(S) /\ Cardinality(S) \in Nat
  BY EventsFinite, FS_Subset, FS_CardinalityType

(* NewInfluxWriter makes an empty channel.                                 *)
LEMMA SinkInit == Init => SinkInv
<1> SUFFICES ASSUME Init PROVE SinkInv
  OBVIOUS
<1>1. TypeOK
  <2>1. outcome \in [Events -> Outcomes]
    BY DEF Init, Outcomes
  <2>2. queue \in Seq(Events) /\ Len(queue) <= QueueSize
    BY QueueSizeNat DEF Init
  <2>3. QED
    BY <2>1, <2>2, NoEventIsNone DEF Init, TypeOK, RunnerStates, CloserStates
<1>2. Queued = {} /\ Sending = {} /\ Lost = {}
  BY DEF Init, Queued, Sending, Lost
<1>3. Counted
  BY <1>2, FS_EmptySet DEF Init, Counted
<1>4. Placed /\ Phased
  BY <1>2 DEF Init, Placed, Phased
<1>5. QED
  BY <1>1, <1>3, <1>4 DEF SinkInv

(* One event changes its place in the books, and no other.                 *)
LEMMA Moved ==
  ASSUME outcome \in [Events -> Outcomes], NEW e \in Events, NEW o \in Outcomes,
         Becomes(e, o)
  PROVE  /\ outcome' \in [Events -> Outcomes]
         /\ outcome'[e] = o /\ \A f \in Events \ {e} : outcome'[f] = outcome[f]
  BY DEF Becomes

(* Enqueue, whichever case of its select is taken, keeps the invariant.    *)
LEMMA EnqueueKeeps ==
  ASSUME SinkInv, NEW e \in Events, Enqueue(e)
  PROVE  SinkInv'
<1> USE DEF SinkInv, TypeOK
<1>1. /\ outcome[e] = "new" /\ e \notin Queued /\ e \notin Sending /\ e \notin Lost
      /\ closed' = closed /\ done' = done /\ closer' = closer
      /\ \A i \in 1..Len(queue) : queue[i] \in Events /\ queue[i] # e
  BY DEF Enqueue, Queued, Sending, Lost, Placed
<1>2. IsFiniteSet(Queued) /\ IsFiniteSet(Lost)
  BY FiniteEvents DEF Queued, Lost
<1>3. CASE EnqueueHandOff(e)
  <2>1. /\ ~closed /\ runner = "parked" /\ inHand = NoEvent
        /\ runner' = "sending" /\ inHand' = e /\ queue' = queue /\ errors' = errors
    BY <1>3 DEF EnqueueHandOff
  <2>2. /\ outcome' \in [Events -> Outcomes]
        /\ \A f \in Events \ {e} : outcome'[f] = outcome[f]
        /\ Queued' = Queued /\ Sending' = Sending \cup {e} /\ Lost' = Lost
    <3>1. Becomes(e, "sending") /\ "sending" \in Outcomes
      BY <1>3 DEF EnqueueHandOff, Outcomes
    <3>2. /\ outcome' \in [Events -> Outcomes] /\ outcome'[e] = "sending"
          /\ \A f \in Events \ {e} : outcome'[f] = outcome[f]
      BY <1>1, <3>1, Moved
    <3>3. QED
      BY <1>1, <3>2 DEF Queued, Sending, Lost
  <2>3. TypeOK'
    BY <1>1, <2>1, <2>2, NoEventIsNone DEF RunnerStates
  <2>4. Placed'
    BY <1>1, <2>1, <2>2, NoEventIsNone DEF Placed
  <2>5. QED
    BY <1>1, <2>1, <2>2, <2>3, <2>4 DEF Counted, Phased
<1>4. CASE EnqueueBuffer(e)
  <2>1. /\ ~closed /\ runner # "parked" /\ queue' = Append(queue, e)
        /\ runner' = runner /\ inHand' = inHand /\ errors' = errors
    BY <1>4 DEF EnqueueBuffer
  <2>2. /\ outcome' \in [Events -> Outcomes]
        /\ outcome'[e] = "queued" /\ \A f \in Events \ {e} : outcome'[f] = outcome[f]
        /\ Queued' = Queued \cup {e} /\ Sending' = Sending /\ Lost' = Lost
    <3>1. Becomes(e, "queued") /\ "queued" \in Outcomes
      BY <1>4 DEF EnqueueBuffer, Outcomes
    <3>2. /\ outcome' \in [Events -> Outcomes] /\ outcome'[e] = "queued"
          /\ \A f \in Events \ {e} : outcome'[f] = outcome[f]
      BY <1>1, <3>1, Moved
    <3>3. QED
      BY <1>1, <3>2 DEF Queued, Sending, Lost
  <2>3. /\ queue' \in Seq(Events) /\ Len(queue') = Len(queue) + 1
        /\ \A i \in 1..Len(queue) : queue'[i] = queue[i]
        /\ queue'[Len(queue) + 1] = e
    BY <2>1, AppendProperties
  <2>4. TypeOK'
    <3>1. Len(queue) < QueueSize
      BY <1>4 DEF EnqueueBuffer, HasRoom
    <3>2. Len(queue') <= QueueSize
      BY <2>3, <3>1, QueueSizeNat, LenProperties
    <3>3. QED
      BY <1>1, <2>1, <2>2, <2>3, <3>2
  <2>5. Placed'
    BY <1>1, <2>1, <2>2, <2>3 DEF Placed
  <2>6. Cardinality(Queued') = Cardinality(Queued) + 1
    BY <1>1, <1>2, <2>2, FS_AddElement
  <2>7. QED
    BY <1>1, <2>1, <2>2, <2>3, <2>4, <2>5, <2>6 DEF Counted, Phased
<1>5. CASE EnqueueDrop(e)
  <2>1. /\ ~closed /\ runner # "parked" /\ errors' = errors + 1
        /\ runner' = runner /\ inHand' = inHand /\ queue' = queue
    BY <1>5 DEF EnqueueDrop
  <2>2. /\ outcome' \in [Events -> Outcomes]
        /\ \A f \in Events \ {e} : outcome'[f] = outcome[f]
        /\ Queued' = Queued /\ Sending' = Sending /\ Lost' = Lost \cup {e}
    <3>1. Becomes(e, "dropped") /\ "dropped" \in Outcomes
      BY <1>5 DEF EnqueueDrop, Outcomes
    <3>2. /\ outcome' \in [Events -> Outcomes] /\ outcome'[e] = "dropped"
          /\ \A f \in Events \ {e} : outcome'[f] = outcome[f]
      BY <1>1, <3>1, Moved
    <3>3. QED
      BY <1>1, <3>2 DEF Queued, Sending, Lost
  <2>3. TypeOK' /\ Placed'
    BY <1>1, <2>1, <2>2 DEF Placed
  <2>4. Cardinality(Lost') = Cardinality(Lost) + 1
    BY <1>1, <1>2, <2>2, FS_AddElement
  <2>5. QED
    BY <1>1, <2>1, <2>2, <2>3, <2>4 DEF Counted, Phased
<1>6. CASE EnqueuePanic(e)
  <2>1. closed /\ runner' = runner /\ inHand' = inHand /\ queue' = queue /\ errors' = errors
    BY <1>6 DEF EnqueuePanic
  <2>2. /\ outcome' \in [Events -> Outcomes]
        /\ \A f \in Events \ {e} : outcome'[f] = outcome[f]
        /\ Queued' = Queued /\ Sending' = Sending /\ Lost' = Lost
    <3>1. Becomes(e, "panicked") /\ "panicked" \in Outcomes
      BY <1>6 DEF EnqueuePanic, Outcomes
    <3>2. /\ outcome' \in [Events -> Outcomes] /\ outcome'[e] = "panicked"
          /\ \A f \in Events \ {e} : outcome'[f] = outcome[f]
      BY <1>1, <3>1, Moved
    <3>3. QED
      BY <1>1, <3>2 DEF Queued, Sending, Lost
  <2>3. TypeOK' /\ Placed'
    BY <1>1, <2>1, <2>2 DEF Placed
  <2>4. QED
    BY <1>1, <2>1, <2>2, <2>3 DEF Counted, Phased
<1>7. QED
  BY <1>3, <1>4, <1>5, <1>6 DEF Enqueue

(* The goroutine run takes, sends and settles one event after the other.   *)
LEMMA RunKeeps ==
  ASSUME SinkInv, Run
  PROVE  SinkInv'
<1> USE DEF SinkInv, TypeOK
<1>1. IsFiniteSet(Queued) /\ IsFiniteSet(Lost)
  BY FiniteEvents DEF Queued, Lost
<1>2. CASE Receive
  <2> DEFINE e == Head(queue)
  <2>1. /\ runner = "ready" /\ queue # <<>> /\ queue' = Tail(queue) /\ inHand = NoEvent
        /\ runner' = "sending" /\ inHand' = e /\ closed' = closed /\ done' = done
        /\ errors' = errors /\ closer' = closer
    BY <1>2 DEF Receive
  <2>2. /\ e \in Events /\ queue' \in Seq(Events) /\ Len(queue') = Len(queue) - 1
        /\ \A i \in 1..Len(queue') : queue'[i] = queue[i + 1]
        /\ Len(queue) \in Nat \ {0} /\ e = queue[1]
    BY <2>1, HeadTailProperties, EmptySeq
  <2>3. /\ outcome[e] = "queued" /\ e \in Queued
        /\ \A i \in 1..Len(queue') : queue'[i] # e /\ queue'[i] \in Events
    BY <2>2 DEF Placed, Queued
  <2>4. /\ outcome' \in [Events -> Outcomes]
        /\ \A f \in Events \ {e} : outcome'[f] = outcome[f]
        /\ Queued' = Queued \ {e} /\ Sending' = Sending \cup {e} /\ Lost' = Lost
    <3>1. Becomes(e, "sending") /\ "sending" \in Outcomes
      BY <1>2 DEF Receive, Outcomes
    <3> HIDE DEF e
    <3>2. /\ outcome' \in [Events -> Outcomes] /\ outcome'[e] = "sending"
          /\ \A f \in Events \ {e} : outcome'[f] = outcome[f]
      BY <2>2, <3>1, Moved
    <3>3. QED
      BY <2>2, <2>3, <3>2 DEF Queued, Sending, Lost
  <2>5. TypeOK'
    <3>1. Len(queue') <= QueueSize
      BY <2>2, QueueSizeNat, LenProperties
    <3>2. QED
      BY <2>1, <2>2, <2>4, <3>1, NoEventIsNone DEF RunnerStates
  <2>6. Placed'
    BY <2>1, <2>2, <2>3, <2>4, NoEventIsNone DEF Placed
  <2>7. Cardinality(Queued') = Cardinality(Queued) - 1
    BY <1>1, <2>3, <2>4, FS_RemoveElement
  <2>8. QED
    BY <2>1, <2>2, <2>4, <2>5, <2>6, <2>7 DEF Counted, Phased
<1>3. CASE Park \/ Leave
  <2>1. /\ queue = <<>> /\ runner \in {"ready", "parked"} /\ queue' = queue
        /\ inHand' = inHand /\ errors' = errors /\ closed' = closed
        /\ closer' = closer /\ outcome' = outcome
        /\ \/ runner' = "parked" /\ done' = done
           \/ runner' = "exited" /\ done' /\ closed
    BY <1>3 DEF Park, Leave
  <2>2. Queued' = Queued /\ Sending' = Sending /\ Lost' = Lost
    BY <2>1 DEF Queued, Sending, Lost
  <2>3. done' \in BOOLEAN
    BY <1>3 DEF Park, Leave
  <2>4. TypeOK'
    BY <2>1, <2>3 DEF RunnerStates
  <2>5. QED
    BY <2>1, <2>2, <2>4 DEF Placed, Counted, Phased
<1>4. ASSUME NEW o \in {"written", "failed"}, SendEnds(o),
             errors' = IF o = "failed" THEN errors + 1 ELSE errors
      PROVE  SinkInv'
  <2>1. /\ runner = "sending" /\ inHand \in Events
        /\ runner' = "ready" /\ inHand' = NoEvent /\ queue' = queue
        /\ closed' = closed /\ done' = done /\ closer' = closer
    BY <1>4 DEF SendEnds
  <2>2. outcome[inHand] = "sending" /\ inHand \notin Queued /\ inHand \notin Lost
        /\ \A i \in 1..Len(queue) : queue[i] \in Events /\ queue[i] # inHand
    BY <2>1, NoEventIsNone DEF Placed, Sending, Queued, Lost
  <2>3. /\ outcome' \in [Events -> Outcomes]
        /\ \A f \in Events \ {inHand} : outcome'[f] = outcome[f]
        /\ Queued' = Queued /\ Sending' = Sending \ {inHand}
        /\ Lost' = IF o = "failed" THEN Lost \cup {inHand} ELSE Lost
    <3>1. Becomes(inHand, o) /\ o \in Outcomes
      BY <1>4 DEF SendEnds, Outcomes
    <3>2. /\ outcome' \in [Events -> Outcomes] /\ outcome'[inHand] = o
          /\ \A f \in Events \ {inHand} : outcome'[f] = outcome[f]
      BY <2>1, <2>2, <3>1, Moved
    <3>3. QED
      BY <2>1, <2>2, <3>2 DEF Queued, Sending, Lost
  <2>4. errors' \in Nat
    BY <1>4
  <2>5. TypeOK'
    BY <2>1, <2>3, <2>4 DEF RunnerStates
  <2>6. Placed'
    BY <2>1, <2>2, <2>3 DEF Placed
  <2>7. Cardinality(Lost') = IF o = "failed" THEN Cardinality(Lost) + 1 ELSE Cardinality(Lost)
    BY <1>1, <2>2, <2>3, FS_AddElement
  <2>8. QED
    BY <1>4, <2>1, <2>3, <2>5, <2>6, <2>7 DEF Counted, Phased
<1>5. QED
  BY <1>2, <1>3, <1>4 DEF Run, SendSucceeds, SendFails

(* Close moves no event.                                                   *)
LEMMA CloseKeeps ==
  ASSUME SinkInv, Close
  PROVE  SinkInv'
<1>1. /\ queue' = queue /\ done' = done /\ runner' = runner /\ inHand' = inHand
      /\ errors' = errors /\ outcome' = outcome
      /\ \/ closer = "idle" /\ closer' = "waiting" /\ closed' = TRUE
         \/ closer = "waiting" /\ closer' = "returned" /\ done /\ closed' = closed
  BY DEF Close, CloseQueue, CloseReturns
<1>2. Queued' = Queued /\ Sending' = Sending /\ Lost' = Lost
  BY <1>1 DEF Queued, Sending, Lost
<1>3. TypeOK'
  BY <1>1 DEF SinkInv, TypeOK, CloserStates
<1>4. QED
  BY <1>1, <1>2, <1>3 DEF SinkInv, Placed, Counted, Phased

(* A step that leaves the sink alone.                                      *)
LEMMA SinkIdle ==
  ASSUME SinkInv, UNCHANGED vars
  PROVE  SinkInv'
  BY DEF vars, SinkInv, TypeOK, Placed, Counted, Phased, Queued, Sending, Lost

(* The inductive invariant of the sink holds throughout.                   *)
LEMMA SinkInvariant == Spec => []SinkInv
<1>1. SinkInv /\ [Next]_vars => SinkInv'
  BY EnqueueKeeps, RunKeeps, CloseKeeps, SinkIdle DEF Next, AtRest
<1>2. QED
  BY <1>1, SinkInit, PTL DEF Spec

-----------------------------------------------------------------------------
(* Types: among others, the channel never holds more than its capacity     *)
(* and the counter of errors never leaves the naturals.                    *)
THEOREM SinkTypeCorrect == Spec => []TypeOK
<1>1. SinkInv => TypeOK
  BY DEF SinkInv
<1>2. QED
  BY <1>1, SinkInvariant, PTL

(* The books balance: the events in the channel or in hand.                *)
LEMMA Outstanding ==
  ASSUME SinkInv
  PROVE  Cardinality({e \in Events : outcome[e] \in {"queued", "sending"}})
           = Len(queue) + Cardinality({inHand} \ {NoEvent})
<1> DEFINE Held == {e \in Events : outcome[e] \in {"queued", "sending"}}
<1>1. Held = Queued \cup Sending /\ Queued \cap Sending = {}
  BY DEF Queued, Sending
<1>2. IsFiniteSet(Queued) /\ IsFiniteSet(Sending)
      /\ Cardinality(Queued) \in Nat /\ Cardinality(Sending) \in Nat
  BY FiniteEvents DEF Queued, Sending
<1>3. Cardinality(Held) = Cardinality(Queued) + Cardinality(Sending)
  <2>1. Cardinality(Queued \cup Sending) =
          Cardinality(Queued) + Cardinality(Sending) - Cardinality(Queued \cap Sending)
    BY <1>2, FS_Union
  <2>2. Cardinality(Queued \cap Sending) = 0
    BY <1>1, FS_EmptySet
  <2> HIDE DEF Held
  <2>3. QED
    BY <1>1, <1>2, <2>1, <2>2
<1>4. QED
  BY <1>3 DEF SinkInv, Counted, Placed

(* Every event that was lost is in the error counter, once, and nothing    *)
(* else is; every other is written, in the channel or being sent           *)
(* (influx.go, Enqueue and send).                                          *)
THEOREM LossesCounted == Spec => []EveryLossCounted
<1>1. SinkInv => EveryLossCounted
  BY Outstanding DEF SinkInv, Counted, Lost, EveryLossCounted
<1>2. QED
  BY <1>1, SinkInvariant, PTL

(* An exited run leaves no event behind.                                   *)
LEMMA NothingHeld ==
  ASSUME SinkInv, done
  PROVE  \A e \in Events : outcome[e] \notin {"queued", "sending"}
<1>1. queue = <<>> /\ inHand = NoEvent
  BY DEF SinkInv, Phased, TypeOK
<1>2. Cardinality(Queued) = 0 /\ IsFiniteSet(Queued)
  BY <1>1, FiniteEvents DEF SinkInv, Counted, Queued
<1>3. Queued = {} /\ Sending = {}
  BY <1>1, <1>2, FS_EmptySet DEF SinkInv, Placed
<1>4. QED
  BY <1>3 DEF Queued, Sending

(* When Close returns, what was accepted has been written or counted       *)
(* (influx.go, Close).                                                     *)
THEOREM CloseDrainsQueue == Spec => []CloseDrains
<1>1. SinkInv => CloseDrains
  BY NothingHeld DEF SinkInv, Phased, CloseDrains
<1>2. QED
  BY <1>1, SinkInvariant, PTL
=============================================================================
