-------------------------- MODULE DispatcherProofs --------------------------
(***************************************************************************)
(* Proofs about Dispatcher for any number of jobs, submitters, workers and *)
(* stoppers and any capacity of the channel.                               *)
(***************************************************************************)
EXTENDS DispatcherRefinement, TLAPS, FiniteSetTheorems, SequenceTheorems

Alive == {w \in Workers : wkr[w] \in {"ready", "parked", "holding", "running"}}
Busy  == {w \in Workers : wkr[w] = "running"}

(* Types, without saying of the two counters that they never go below zero; *)
(* that follows from what they count.                                       *)
Types ==
  /\ jobs \in Seq(Jobs)
  /\ closed \in BOOLEAN /\ stopped \in BOOLEAN
  /\ readers \in SUBSET Submitters /\ writer \in Stoppers \cup {NoProc}
  /\ wg \in Int /\ done \in BOOLEAN /\ ctxDone \in BOOLEAN
  /\ sub \in [Submitters -> SubmitterStates]
  /\ wkr \in [Workers -> WorkerStates]
  /\ stp \in [Stoppers -> StopperStates]
  /\ carry \in [Submitters \cup Workers -> Jobs \cup {NoJob}]
  /\ active \in Int /\ dropped \in Nat
  /\ fate \in [Jobs -> Fates]
  /\ arrival \in Seq(Jobs) /\ taken \in Seq(Jobs)

(* Who is past RLock carries the job it offers. *)
CarriesOffer ==
  \A s \in Submitters : sub[s] \in {"rlocked", "sending"} => carry[s] \in Jobs

Counted == wg = Cardinality(Alive) /\ active = Cardinality(Busy)

TypeInv == Types /\ CarriesOffer

(* The program starts in the types of its variables.                       *)
LEMMA TypesInit == Init => TypeInv
<1> SUFFICES ASSUME Init PROVE TypeInv
  OBVIOUS
<1>1. /\ sub \in [Submitters -> SubmitterStates]
      /\ wkr \in [Workers -> WorkerStates]
      /\ stp \in [Stoppers -> StopperStates]
  BY DEF Init, SubmitterStates, WorkerStates, StopperStates
<1>2. fate \in [Jobs -> Fates]
  BY DEF Init, Fates
<1>3. carry \in [Submitters \cup Workers -> Jobs \cup {NoJob}]
  BY DEF Init
<1>4. jobs \in Seq(Jobs) /\ arrival \in Seq(Jobs) /\ taken \in Seq(Jobs)
  BY DEF Init
<1>5. CarriesOffer
  BY DEF Init, CarriesOffer
<1>6. /\ closed \in BOOLEAN /\ stopped \in BOOLEAN /\ done \in BOOLEAN
      /\ ctxDone \in BOOLEAN
  BY DEF Init
<1>7. readers \in SUBSET Submitters /\ writer \in Stoppers \cup {NoProc}
  BY DEF Init
<1>8. wg \in Int /\ active \in Int /\ dropped \in Nat
  BY DEF Init
<1>9. QED
  BY <1>1, <1>2, <1>3, <1>4, <1>5, <1>6, <1>7, <1>8 DEF TypeInv, Types

(* Submit keeps the types.                                                 *)
LEMMA TypesSubmit ==
  ASSUME TypeInv, NEW s \in Submitters, Submit(s)
  PROVE  TypeInv'
<1> USE ActorsDiffer, NoJobIsNone
    DEF TypeInv, Types, CarriesOffer, SubmitterStates, WorkerStates,
        StopperStates, Fates, chan, mutex, sync, hist, meter
<1>1. CASE \E j \in Jobs : SubmitRLock(s, j)
  BY <1>1 DEF SubmitRLock
<1>2. CASE SubmitReject(s)
  BY <1>2 DEF SubmitReject, LetGo
<1>3. CASE SubmitPass(s)
  BY <1>3 DEF SubmitPass
<1>4. CASE \E w \in Workers : SubmitHandOff(s, w)
  <2> PICK w \in Workers : SubmitHandOff(s, w)
    BY <1>4
  <2> USE DEF SubmitHandOff, Receivers
  <2>1. carry[s] \in Jobs
    OBVIOUS
  <2>2. carry' \in [Submitters \cup Workers -> Jobs \cup {NoJob}]
    BY <2>1
  <2>3. arrival' \in Seq(Jobs) /\ taken' \in Seq(Jobs)
    BY <2>1
  <2>4. fate' \in [Jobs -> Fates] /\ sub' \in [Submitters -> SubmitterStates]
    BY <2>1
  <2>5. wkr' \in [Workers -> WorkerStates]
    OBVIOUS
  <2>6. CarriesOffer'
    OBVIOUS
  <2>7. QED
    BY <2>2, <2>3, <2>4, <2>5, <2>6
<1>5. CASE SubmitEnqueue(s)
  BY <1>5 DEF SubmitEnqueue, LetGo
<1>6. CASE SubmitDrop(s)
  BY <1>6 DEF SubmitDrop, LetGo
<1>7. CASE SubmitRUnlock(s)
  BY <1>7 DEF SubmitRUnlock
<1>8. QED
  BY <1>1, <1>2, <1>3, <1>4, <1>5, <1>6, <1>7 DEF Submit

(* Stop keeps the types.                                                   *)
LEMMA TypesStop ==
  ASSUME TypeInv, NEW p \in Stoppers, Stop(p)
  PROVE  TypeInv'
<1> USE DEF TypeInv, Types, CarriesOffer, SubmitterStates, WorkerStates,
        StopperStates, Fates, chan, mutex, sync, hist, meter, MoveStopper
<1>1. CASE StopAnnounce(p) \/ StopLock(p) \/ StopAgain(p) \/ StopMark(p)
  BY <1>1 DEF StopAnnounce, StopLock, StopAgain, StopMark
<1>2. CASE StopClose(p) \/ StopUnlock(p) \/ StopDrained(p) \/ StopTimeout(p)
  BY <1>2 DEF StopClose, StopUnlock, StopDrained, StopTimeout
<1>3. QED
  BY <1>1, <1>2 DEF Stop

(* A worker, and the job it runs, keep the types.                          *)
LEMMA TypesWorker ==
  ASSUME TypeInv, NEW w \in Workers, Worker(w)
  PROVE  TypeInv'
<1> USE ActorsDiffer, NoJobIsNone
    DEF TypeInv, Types, CarriesOffer, SubmitterStates, WorkerStates,
        StopperStates, Fates, chan, mutex, sync, hist, meter
<1>1. CASE Spawn(w)
  BY <1>1 DEF Spawn
<1>2. CASE Take(w)
  BY <1>2 DEF Take
<1>3. CASE Park(w)
  BY <1>3 DEF Park
<1>4. CASE Quit(w)
  BY <1>4 DEF Quit
<1>5. CASE RunJob(w)
  <2>1. wkr' \in [Workers -> WorkerStates] /\ fate' \in [Jobs -> Fates]
    BY <1>5 DEF RunJob
  <2>2. active' \in Int
    BY <1>5 DEF RunJob
  <2>3. CarriesOffer'
    BY <1>5 DEF RunJob
  <2>4. QED
    BY <1>5, <2>1, <2>2, <2>3 DEF RunJob
<1>6. CASE JobReturns(w) \/ JobPanics(w)
  <2> USE <1>6 DEF JobReturns, JobPanics, Unwind
  <2>1. wkr' \in [Workers -> WorkerStates] /\ fate' \in [Jobs -> Fates]
    OBVIOUS
  <2>2. carry' \in [Submitters \cup Workers -> Jobs \cup {NoJob}]
    OBVIOUS
  <2>3. active' \in Int
    OBVIOUS
  <2>4. CarriesOffer'
    OBVIOUS
  <2>5. QED
    BY <2>1, <2>2, <2>3, <2>4
<1>7. QED
  BY <1>1, <1>2, <1>3, <1>4, <1>5, <1>6 DEF Worker

(* Every step keeps the types.                                             *)
LEMMA TypesNext == TypeInv /\ [Next]_vars => TypeInv'
<1> SUFFICES ASSUME TypeInv, [Next]_vars PROVE TypeInv'
  OBVIOUS
<1>1. CASE StartReturns \/ Cancel
  BY <1>1 DEF StartReturns, Cancel, TypeInv, Types, CarriesOffer, chan, mutex,
              meter, hist
<1>2. CASE AtRest \/ UNCHANGED vars
  BY <1>2 DEF AtRest, vars, TypeInv, Types, CarriesOffer
<1>3. QED
  BY <1>1, <1>2, TypesSubmit, TypesStop, TypesWorker DEF Next

-----------------------------------------------------------------------------
(* The lock. readers is exactly the set of submitters between RLock and    *)
(* RUnlock; a stopper past Lock owns the writer side and has no reader     *)
(* beside it. So nobody is between the look at stopped and the send when   *)
(* stopped is set.                                                         *)

LockInv ==
  /\ readers = {s \in Submitters : sub[s] # "idle"}
  /\ \A p \in Stoppers :
       stp[p] \in {"announced", "locked", "closing", "unlocking"} => writer = p
  /\ \A p \in Stoppers :
       stp[p] \in {"locked", "closing", "unlocking"} => readers = {}

StopInv ==
  /\ \A s \in Submitters : sub[s] = "sending" => ~stopped
  /\ closed => stopped
  /\ \A p \in Stoppers : stp[p] = "closing" => stopped /\ ~closed
  /\ \A p \in Stoppers :
       stp[p] \in {"unlocking", "waiting", "drained", "timedout"} => closed

(* Nobody holds the mutex and nothing is stopped at the start.             *)
LEMMA LockInit == Init => LockInv /\ StopInv
  BY DEF Init, LockInv, StopInv

(* The discipline of the RWMutex is kept by every step.                    *)
LEMMA LockNext == TypeInv /\ LockInv /\ [Next]_vars => LockInv'
<1> SUFFICES ASSUME TypeInv, LockInv, [Next]_vars PROVE LockInv'
  OBVIOUS
<1> USE NoProcIsNone DEF TypeInv, Types, SubmitterStates, StopperStates, LockInv
<1>1. ASSUME NEW s \in Submitters, Submit(s) PROVE LockInv'
  <2>1. CASE \E j \in Jobs : SubmitRLock(s, j)
    <3>1. writer = NoProc /\ readers' = readers \cup {s}
          /\ sub' = [sub EXCEPT ![s] = "rlocked"] /\ stp' = stp /\ writer' = writer
      BY <2>1 DEF SubmitRLock, ReadersAdmitted
    <3>2. QED
      BY <3>1
  <2>2. CASE SubmitRUnlock(s)
    BY <2>2 DEF SubmitRUnlock
  <2>3. CASE SubmitReject(s) \/ SubmitEnqueue(s) \/ SubmitDrop(s)
    BY <2>3 DEF SubmitReject, SubmitEnqueue, SubmitDrop, LetGo, mutex
  <2>4. CASE SubmitPass(s) \/ \E w \in Workers : SubmitHandOff(s, w)
    BY <2>4 DEF SubmitPass, SubmitHandOff, mutex
  <2>5. QED
    BY <1>1, <2>1, <2>2, <2>3, <2>4 DEF Submit
<1>2. ASSUME NEW p \in Stoppers, Stop(p) PROVE LockInv'
  <2> USE DEF MoveStopper, mutex
  <2>1. CASE StopAnnounce(p)
    BY <2>1 DEF StopAnnounce
  <2>2. CASE StopLock(p) \/ StopMark(p)
    BY <2>2 DEF StopLock, StopMark
  <2>3. CASE StopAgain(p) \/ StopUnlock(p)
    BY <2>3 DEF StopAgain, StopUnlock
  <2>4. CASE StopClose(p) \/ StopDrained(p) \/ StopTimeout(p)
    BY <2>4 DEF StopClose, StopDrained, StopTimeout
  <2>5. QED
    BY <1>2, <2>1, <2>2, <2>3, <2>4 DEF Stop
<1>3. ASSUME NEW w \in Workers, Worker(w) PROVE LockInv'
  BY <1>3 DEF Worker, Spawn, Take, Park, Quit, RunJob, JobReturns, JobPanics,
              Unwind, mutex
<1>4. CASE StartReturns \/ Cancel
  BY <1>4 DEF StartReturns, Cancel, mutex
<1>5. CASE AtRest \/ UNCHANGED vars
  BY <1>5 DEF AtRest, vars
<1>6. QED
  BY <1>1, <1>2, <1>3, <1>4, <1>5 DEF Next

(* What Stop's progress says of stopped and closed is kept by every step.  *)
LEMMA StopNext == TypeInv /\ LockInv /\ StopInv /\ [Next]_vars => StopInv'
<1> SUFFICES ASSUME TypeInv, LockInv, StopInv, [Next]_vars PROVE StopInv'
  OBVIOUS
<1> USE DEF TypeInv, Types, SubmitterStates, StopperStates, StopInv
<1>1. ASSUME NEW s \in Submitters, Submit(s) PROVE StopInv'
  <2>1. CASE SubmitReject(s) \/ SubmitEnqueue(s) \/ SubmitDrop(s)
    BY <2>1 DEF SubmitReject, SubmitEnqueue, SubmitDrop, LetGo, chan
  <2>2. CASE SubmitRUnlock(s) \/ \E j \in Jobs : SubmitRLock(s, j)
    BY <2>2 DEF SubmitRUnlock, SubmitRLock, chan
  <2>3. CASE SubmitPass(s) \/ \E w \in Workers : SubmitHandOff(s, w)
    BY <2>3 DEF SubmitPass, SubmitHandOff, chan
  <2>4. QED
    BY <1>1, <2>1, <2>2, <2>3 DEF Submit
<1>2. ASSUME NEW p \in Stoppers, Stop(p) PROVE StopInv'
  <2> USE DEF MoveStopper, chan
  <2>1. CASE StopMark(p)
    <3>1. \A s \in Submitters : sub[s] = "idle"
      BY <2>1 DEF StopMark, LockInv
    <3>2. QED
      BY <2>1, <3>1 DEF StopMark
  <2>2. CASE StopClose(p)
    \* p owns the writer side, so no other stopper is about to close.
    <3>1. \A q \in Stoppers : stp[q] = "closing" => q = p
      BY <2>2 DEF StopClose, LockInv
    <3>2. QED
      BY <2>2, <3>1 DEF StopClose
  <2>3. CASE StopAnnounce(p) \/ StopLock(p) \/ StopAgain(p) \/ StopUnlock(p)
    BY <2>3 DEF StopAnnounce, StopLock, StopAgain, StopUnlock
  <2>4. CASE StopDrained(p) \/ StopTimeout(p)
    BY <2>4 DEF StopDrained, StopTimeout
  <2>5. QED
    BY <1>2, <2>1, <2>2, <2>3, <2>4 DEF Stop
<1>3. ASSUME NEW w \in Workers, Worker(w) PROVE StopInv'
  BY <1>3 DEF Worker, Spawn, Take, Park, Quit, RunJob, JobReturns, JobPanics,
              Unwind, chan
<1>4. CASE StartReturns \/ Cancel
  BY <1>4 DEF StartReturns, Cancel, chan
<1>5. CASE AtRest \/ UNCHANGED vars
  BY <1>5 DEF AtRest, vars
<1>6. QED
  BY <1>1, <1>2, <1>3, <1>4, <1>5 DEF Next

(* At any moment, no goroutine is about to send on or to close a channel   *)
(* that is already closed: the panic the lock of Submit and Stop is for    *)
(* (worker.go, the comment on mu).                                         *)
THEOREM ChannelSafety == Spec => []ChannelUsedSafely
<1>1. TypeInv /\ LockInv /\ StopInv => ChannelUsedSafely
  BY DEF StopInv, ChannelUsedSafely
<1>2. QED
  BY <1>1, TypesInit, TypesNext, LockInit, LockNext, StopNext, PTL DEF Spec

(* Once stopped is set, no job is accepted, whoever was between RLock and  *)
(* RUnlock when Stop came (worker.go: "Depois de Stop, novos jobs são      *)
(* rejeitados").                                                           *)
THEOREM NoLateArrival == Spec => NothingAcceptedAfterStop
<1>1. TypeInv /\ StopInv /\ [Next]_vars => [stopped => arrival' = arrival]_vars
  <2> SUFFICES ASSUME TypeInv, StopInv, Next, stopped PROVE arrival' = arrival
    OBVIOUS
  <2>1. ASSUME NEW s \in Submitters, Submit(s) PROVE arrival' = arrival
    BY <2>1 DEF Submit, SubmitRLock, SubmitReject, SubmitPass, SubmitHandOff,
                SubmitEnqueue, SubmitDrop, SubmitRUnlock, StopInv, hist
  <2>2. ASSUME NEW p \in Stoppers, Stop(p) PROVE arrival' = arrival
    BY <2>2 DEF Stop, StopAnnounce, StopLock, StopAgain, StopMark, StopClose,
                StopUnlock, StopDrained, StopTimeout, hist
  <2>3. ASSUME NEW w \in Workers, Worker(w) PROVE arrival' = arrival
    BY <2>3 DEF Worker, Spawn, Take, Park, Quit, RunJob, JobReturns, JobPanics,
                Unwind, hist
  <2>4. QED
    BY <2>1, <2>2, <2>3 DEF Next, StartReturns, Cancel, AtRest, vars, hist
<1>2. QED
  BY <1>1, TypesInit, TypesNext, LockInit, LockNext, StopNext, PTL
     DEF Spec, NothingAcceptedAfterStop

-----------------------------------------------------------------------------
(* The order of the queue. *)

(* Appending to the second part of a concatenation. *)
LEMMA AppendToTail ==
  ASSUME NEW t \in Seq(Jobs), NEW q \in Seq(Jobs), NEW e \in Jobs
  PROVE  Append(t \o q, e) = t \o Append(q, e)
<1>1. t \o q \in Seq(Jobs) /\ <<e>> \in Seq(Jobs)
  BY ConcatProperties
<1>2. Append(t \o q, e) = (t \o q) \o <<e>>
  BY <1>1, AppendIsConcat
<1>3. Append(q, e) = q \o <<e>>
  BY AppendIsConcat
<1>4. QED
  BY <1>1, <1>2, <1>3, ConcatAssociative

(* Moving the head of the second part to the end of the first. *)
LEMMA HeadMovesOver ==
  ASSUME NEW t \in Seq(Jobs), NEW q \in Seq(Jobs), q # <<>>
  PROVE  Append(t, Head(q)) \o Tail(q) = t \o q
<1>1. /\ Head(q) \in Jobs
      /\ Tail(q) \in Seq(Jobs) /\ <<Head(q)>> \in Seq(Jobs)
  BY HeadTailProperties
<1>2. Append(t, Head(q)) = t \o <<Head(q)>>
  BY <1>1, AppendIsConcat
<1>3. q = <<Head(q)>> \o Tail(q)
  BY <1>1
<1>4. QED
  BY <1>1, <1>2, <1>3, ConcatAssociative

(* A worker parks only on an empty channel, and a Submit that finds one    *)
(* parked hands the job over instead of buffering it; were a parked worker *)
(* beside a buffered job, the hand-over would overtake that job.           *)
QueueInv ==
  /\ \A w \in Workers : wkr[w] = "parked" => ctxDone \/ jobs = <<>>
  /\ Len(jobs) <= QueueSize
  /\ FirstInFirstOut
  /\ PoolKeepsItsWorkers

(* The histories agree with the empty channel at the start.                *)
LEMMA QueueInit == Init => QueueInv
  BY QueueSizeNat DEF Init, QueueInv, FirstInFirstOut, PoolKeepsItsWorkers

(* The histories keep agreeing with the channel.                           *)
LEMMA QueueNext ==
  TypeInv /\ StopInv /\ QueueInv /\ [Next]_vars => QueueInv'
<1> SUFFICES ASSUME TypeInv, StopInv, QueueInv, [Next]_vars PROVE QueueInv'
  OBVIOUS
<1> USE QueueSizeNat
    DEF TypeInv, Types, WorkerStates, QueueInv, FirstInFirstOut,
        PoolKeepsItsWorkers
<1>1. ASSUME NEW s \in Submitters, Submit(s) PROVE QueueInv'
  <2>1. CASE SubmitReject(s) \/ SubmitDrop(s)
    BY <2>1 DEF SubmitReject, SubmitDrop, LetGo, chan, sync, hist
  <2>2. CASE SubmitPass(s) \/ SubmitRUnlock(s) \/ \E j \in Jobs : SubmitRLock(s, j)
    BY <2>2 DEF SubmitPass, SubmitRUnlock, SubmitRLock, chan, sync, hist
  <2>3. ASSUME NEW w \in Workers, SubmitHandOff(s, w) PROVE QueueInv'
    <3>1. carry[s] \in Jobs /\ jobs = <<>> /\ jobs' = jobs /\ ~ctxDone
      BY <2>3 DEF SubmitHandOff, Receivers, CarriesOffer, chan
    <3>2. FirstInFirstOut'
      BY <2>3, <3>1, AppendProperties, ConcatEmptySeq DEF SubmitHandOff
    <3>3. PoolKeepsItsWorkers' /\ \A v \in Workers : wkr'[v] = "parked" => jobs' = <<>>
      BY <2>3, <3>1 DEF SubmitHandOff, chan, sync
    <3>4. QED
      BY <3>1, <3>2, <3>3
  <2>4. CASE SubmitEnqueue(s)
    <3>1. carry[s] \in Jobs /\ ~closed /\ jobs' = Append(jobs, carry[s])
      BY <2>4 DEF SubmitEnqueue, CarriesOffer, StopInv
    <3>2. FirstInFirstOut'
      <4>1. arrival' = Append(arrival, carry[s]) /\ taken' = taken
        BY <2>4 DEF SubmitEnqueue
      <4>2. Append(taken \o jobs, carry[s]) = taken \o Append(jobs, carry[s])
        BY <3>1, AppendToTail
      <4>3. arrival = taken \o jobs
        OBVIOUS
      <4>4. QED
        BY <3>1, <4>1, <4>2, <4>3
    <3>3. Len(jobs') <= QueueSize
      BY <2>4, <3>1, AppendProperties DEF SubmitEnqueue, HasRoom
    <3>4. PoolKeepsItsWorkers' /\ \A v \in Workers : wkr'[v] = "parked" => ctxDone'
      BY <2>4, <3>1 DEF SubmitEnqueue, Receivers, LetGo, sync
    <3>5. QED
      BY <3>2, <3>3, <3>4
  <2>5. QED
    BY <1>1, <2>1, <2>2, <2>3, <2>4 DEF Submit
<1>2. ASSUME NEW p \in Stoppers, Stop(p) PROVE QueueInv'
  BY <1>2 DEF Stop, StopAnnounce, StopLock, StopAgain, StopMark, StopClose,
              StopUnlock, StopDrained, StopTimeout, chan, sync, hist
<1>3. ASSUME NEW w \in Workers, Worker(w) PROVE QueueInv'
  <2>1. CASE Take(w)
    <3>1. /\ jobs # <<>> /\ jobs' = Tail(jobs) /\ ctxDone' = ctxDone
          /\ taken' = Append(taken, Head(jobs)) /\ arrival' = arrival
          /\ wkr' = [wkr EXCEPT ![w] = "holding"] /\ closed' = closed
      BY <2>1 DEF Take, sync
    <3>2. FirstInFirstOut'
      BY <3>1, HeadMovesOver
    <3>3. Len(jobs') <= QueueSize
      BY <3>1, HeadTailProperties, LenProperties
    <3>4. PoolKeepsItsWorkers' /\ \A v \in Workers : wkr'[v] = "parked" => ctxDone'
      BY <3>1
    <3>5. QED
      BY <3>2, <3>3, <3>4
  <2>2. CASE Park(w) \/ Quit(w) \/ Spawn(w)
    BY <2>2 DEF Park, Quit, Spawn, MayQuit, chan, sync, hist
  <2>3. CASE RunJob(w) \/ JobReturns(w) \/ JobPanics(w)
    BY <2>3 DEF RunJob, JobReturns, JobPanics, Unwind, chan, sync, hist
  <2>4. QED
    BY <1>3, <2>1, <2>2, <2>3 DEF Worker
<1>4. CASE StartReturns \/ Cancel
  BY <1>4 DEF StartReturns, Cancel, chan, hist
<1>5. CASE AtRest \/ UNCHANGED vars
  BY <1>5 DEF AtRest, vars
<1>6. QED
  BY <1>1, <1>2, <1>3, <1>4, <1>5 DEF Next

SafeInv == TypeInv /\ LockInv /\ StopInv /\ QueueInv

(* The first part of the inductive invariant holds throughout.             *)
LEMMA SafeInvariant == Spec => []SafeInv
  BY TypesInit, TypesNext, LockInit, LockNext, StopNext, QueueInit, QueueNext, PTL
     DEF Spec, SafeInv

(* The jobs the workers received, then the buffered ones, are the accepted *)
(* jobs in order: nothing is lost, doubled or overtaken on the way from    *)
(* Submit to worker, whatever stops, cancellations and panics interleave.  *)
THEOREM OrderKept == Spec => []FirstInFirstOut
<1>1. SafeInv => FirstInFirstOut
  BY DEF SafeInv, QueueInv
<1>2. QED
  BY <1>1, SafeInvariant, PTL

(* A panicking job never costs the pool a worker: a worker leaves only for *)
(* a cancelled context or a closed and empty channel (worker.go, runJob).  *)
THEOREM PanicsAreContained == Spec => []PoolKeepsItsWorkers
<1>1. SafeInv => PoolKeepsItsWorkers
  BY DEF SafeInv, QueueInv
<1>2. QED
  BY <1>1, SafeInvariant, PTL

-----------------------------------------------------------------------------
(* The WaitGroup and the gauge count what they should; hence done, which   *)
(* Start closes when the WaitGroup is at zero, means that everybody left.  *)

CountInv ==
  /\ Counted
  /\ DoneMeansGone
  /\ \A p \in Stoppers : stp[p] = "drained" => done

(* Any set of workers is finite, so that it can be counted.                *)
LEMMA FiniteCrews ==
  /\ IsFiniteSet(Alive) /\ IsFiniteSet(Busy)
  /\ Cardinality(Alive) \in Nat /\ Cardinality(Busy) \in Nat
  BY WorkersFinite, FS_Subset, FS_CardinalityType DEF Alive, Busy

(* The WaitGroup and the gauge count nobody at the start.                  *)
LEMMA CountInit == Init => CountInv
<1> SUFFICES ASSUME Init PROVE CountInv
  OBVIOUS
<1>1. Alive = {} /\ Busy = {}
  BY DEF Init, Alive, Busy
<1>2. QED
  BY <1>1, FS_EmptySet DEF Init, CountInv, Counted, DoneMeansGone

(* Steps that move no worker into or out of Alive and Busy. *)
LEMMA CountSame ==
  ASSUME CountInv, Alive' = Alive, Busy' = Busy, wg' = wg, active' = active
  PROVE  Counted'
  BY DEF CountInv, Counted

(* The WaitGroup and the gauge keep counting their workers.                *)
LEMMA CountNext == TypeInv /\ CountInv /\ [Next]_vars => CountInv'
<1> SUFFICES ASSUME TypeInv, CountInv, [Next]_vars PROVE CountInv'
  OBVIOUS
<1> USE DEF TypeInv, Types, WorkerStates, StopperStates
<1>1. ASSUME NEW s \in Submitters, Submit(s) PROVE CountInv'
  <2>1. CASE \E w \in Workers : SubmitHandOff(s, w)
    <3> PICK w \in Workers : SubmitHandOff(s, w)
      BY <2>1
    <3>1. wkr[w] = "parked" /\ wkr' = [wkr EXCEPT ![w] = "holding"]
      BY DEF SubmitHandOff, Receivers
    <3>2. Alive' = Alive /\ Busy' = Busy
      BY <3>1 DEF Alive, Busy
    <3>3. wg' = wg /\ active' = active /\ done' = done /\ stp' = stp
      BY DEF SubmitHandOff, sync, meter
    <3>4. DoneMeansGone'
      BY <3>1, <3>3 DEF CountInv, DoneMeansGone
    <3>5. QED
      BY <3>2, <3>3, <3>4, CountSame DEF CountInv
  <2>2. CASE ~\E w \in Workers : SubmitHandOff(s, w)
    <3>1. wkr' = wkr /\ wg' = wg /\ active' = active /\ done' = done /\ stp' = stp
      BY <1>1, <2>2 DEF Submit, SubmitRLock, SubmitReject, SubmitPass,
         SubmitEnqueue, SubmitDrop, SubmitRUnlock, LetGo, sync, meter
    <3>2. Alive' = Alive /\ Busy' = Busy
      BY <3>1 DEF Alive, Busy
    <3>3. QED
      BY <3>1, <3>2, CountSame DEF CountInv, DoneMeansGone
  <2>3. QED
    BY <2>1, <2>2
<1>2. ASSUME NEW p \in Stoppers, Stop(p) PROVE CountInv'
  <2>1. wkr' = wkr /\ wg' = wg /\ active' = active /\ done' = done
    BY <1>2 DEF Stop, StopAnnounce, StopLock, StopAgain, StopMark, StopClose,
                StopUnlock, StopDrained, StopTimeout, sync, meter
  <2>2. Alive' = Alive /\ Busy' = Busy
    BY <2>1 DEF Alive, Busy
  <2>3. \A q \in Stoppers : stp'[q] = "drained" => done'
    BY <1>2, <2>1 DEF CountInv, Stop, StopAnnounce, StopLock, StopAgain,
       StopMark, StopClose, StopUnlock, StopDrained, StopTimeout, MoveStopper
  <2>4. QED
    BY <2>1, <2>2, <2>3, CountSame DEF CountInv, DoneMeansGone
<1>3. ASSUME NEW w \in Workers, Worker(w) PROVE CountInv'
  <2>1. stp' = stp /\ done' = done
    BY <1>3 DEF Worker, Spawn, Take, Park, Quit, RunJob, JobReturns, JobPanics,
                Unwind, sync
  <2>2. DoneMeansGone' /\ \A q \in Stoppers : stp'[q] = "drained" => done'
    BY <1>3, <2>1 DEF CountInv, DoneMeansGone, Worker, Spawn, Take, Park, Quit,
       RunJob, JobReturns, JobPanics, Unwind
  <2>3. CASE Spawn(w)
    <3>1. Alive' = Alive \cup {w} /\ w \notin Alive /\ Busy' = Busy
      BY <2>3 DEF Spawn, Alive, Busy
    <3>2. Counted'
      BY <2>3, <3>1, FiniteCrews, FS_AddElement
         DEF Spawn, CountInv, Counted, meter
    <3>3. QED
      BY <2>2, <3>2 DEF CountInv
  <2>4. CASE Quit(w)
    <3>1. Alive' = Alive \ {w} /\ w \in Alive /\ Busy' = Busy
      BY <2>4 DEF Quit, Alive, Busy
    <3>2. Counted'
      BY <2>4, <3>1, FiniteCrews, FS_RemoveElement
         DEF Quit, CountInv, Counted, meter
    <3>3. QED
      BY <2>2, <3>2 DEF CountInv
  <2>5. CASE Take(w) \/ Park(w)
    <3>1. Alive' = Alive /\ Busy' = Busy /\ wg' = wg /\ active' = active
      BY <2>5 DEF Take, Park, Alive, Busy, sync, meter
    <3>2. QED
      BY <2>2, <3>1, CountSame DEF CountInv
  <2>6. CASE RunJob(w)
    <3>1. Alive' = Alive /\ Busy' = Busy \cup {w} /\ w \notin Busy
      BY <2>6 DEF RunJob, Alive, Busy
    <3>2. Counted'
      BY <2>6, <3>1, FiniteCrews, FS_AddElement
         DEF RunJob, CountInv, Counted, sync
    <3>3. QED
      BY <2>2, <3>2 DEF CountInv
  <2>7. CASE JobReturns(w) \/ JobPanics(w)
    <3>1. Alive' = Alive /\ Busy' = Busy \ {w} /\ w \in Busy
      BY <2>7 DEF JobReturns, JobPanics, Unwind, Alive, Busy
    <3>2. Counted'
      BY <2>7, <3>1, FiniteCrews, FS_RemoveElement
         DEF JobReturns, JobPanics, Unwind, CountInv, Counted, sync
    <3>3. QED
      BY <2>2, <3>2 DEF CountInv
  <2>8. QED
    BY <1>3, <2>3, <2>4, <2>5, <2>6, <2>7 DEF Worker
<1>4. CASE StartReturns
  <2>1. Cardinality(Alive) = 0
    BY <1>4 DEF StartReturns, CountInv, Counted
  <2>2. Alive = {}
    BY <2>1, FiniteCrews, FS_EmptySet
  <2>3. \A w \in Workers : wkr[w] = "exited"
    BY <1>4, <2>2 DEF StartReturns, Alive
  <2>4. wkr' = wkr /\ wg' = wg /\ active' = active /\ done'
    BY <1>4 DEF StartReturns, meter
  <2>5. Alive' = Alive /\ Busy' = Busy
    BY <2>4 DEF Alive, Busy
  <2>6. QED
    BY <2>3, <2>4, <2>5, CountSame DEF CountInv, DoneMeansGone
<1>5. CASE Cancel \/ AtRest \/ UNCHANGED vars
  <2>1. wkr' = wkr /\ wg' = wg /\ active' = active /\ done' = done /\ stp' = stp
    BY <1>5 DEF Cancel, AtRest, vars, meter
  <2>2. Alive' = Alive /\ Busy' = Busy
    BY <2>1 DEF Alive, Busy
  <2>3. QED
    BY <2>1, <2>2, CountSame DEF CountInv, DoneMeansGone
<1>6. QED
  BY <1>1, <1>2, <1>3, <1>4, <1>5 DEF Next

(* The second part of the inductive invariant holds throughout.            *)
LEMMA CountInvariant == Spec => []CountInv
  BY TypesInit, TypesNext, CountInit, CountNext, PTL DEF Spec

(* Type correctness; in particular the WaitGroup never goes negative, which *)
(* would panic, nor does the gauge of busy workers.                         *)
THEOREM TypeCorrect == Spec => []TypeOK
<1>1. TypeInv /\ CountInv => TypeOK
  BY FiniteCrews DEF TypeInv, Types, TypeOK, CountInv, Counted
<1>2. QED
  BY <1>1, TypesInit, TypesNext, CountInvariant, PTL DEF Spec

(* done is closed only when every worker of the pool has been spawned and  *)
(* has left (worker.go, Start and the comment on done).                    *)
THEOREM DoneIsLast == Spec => []DoneMeansGone
<1>1. CountInv => DoneMeansGone
  BY DEF CountInv
<1>2. QED
  BY <1>1, CountInvariant, PTL

-----------------------------------------------------------------------------
(* Where a job is. CarryInv ties a goroutine to the job in its hands,      *)
(* BufferInv the channel to the jobs in it, OwnerInv a job being worked on *)
(* to a worker; ArrivalInv says what may have become of an accepted job.   *)

CarryInv ==
  /\ \A s \in Submitters :
       IF sub[s] \in {"rlocked", "sending"}
         THEN carry[s] \in Jobs /\ fate[carry[s]] = "submitting"
         ELSE carry[s] = NoJob
  /\ \A w \in Workers :
       /\ wkr[w] = "holding" => carry[w] \in Jobs /\ fate[carry[w]] = "held"
       /\ wkr[w] = "running" => carry[w] \in Jobs /\ fate[carry[w]] = "running"
       /\ wkr[w] \notin {"holding", "running"} => carry[w] = NoJob
  /\ \A a, b \in Submitters \cup Workers :
       carry[a] # NoJob /\ carry[a] = carry[b] => a = b

BufferInv ==
  /\ \A i, k \in 1..Len(jobs) : i # k => jobs[i] # jobs[k]
  /\ \A i \in 1..Len(jobs) : fate[jobs[i]] = "queued"
  /\ \A j \in Jobs : fate[j] = "queued" => \E i \in 1..Len(jobs) : jobs[i] = j

OwnerInv ==
  \A j \in Jobs : fate[j] \in {"held", "running"} =>
    \E w \in Workers : wkr[w] \in {"holding", "running"} /\ carry[w] = j

ArrivalInv ==
  \A i \in 1..Len(arrival) :
    fate[arrival[i]] \in {"queued", "held", "running", "answered", "panicked"}

PlaceInv == CarryInv /\ BufferInv /\ OwnerInv /\ ArrivalInv

(* No job is anywhere at the start.                                        *)
LEMMA PlaceInit == Init => PlaceInv
<1> SUFFICES ASSUME Init PROVE PlaceInv
  OBVIOUS
<1>1. CarryInv
  BY DEF Init, CarryInv
<1>2. BufferInv /\ OwnerInv /\ ArrivalInv
  BY DEF Init, BufferInv, OwnerInv, ArrivalInv
<1>3. QED
  BY <1>1, <1>2 DEF PlaceInv

(* What each goroutine carries keeps agreeing with its program counter.    *)
LEMMA CarryNext == TypeInv /\ PlaceInv /\ [Next]_vars => CarryInv'
<1> SUFFICES ASSUME TypeInv, PlaceInv, [Next]_vars PROVE CarryInv'
  OBVIOUS
<1> USE ActorsDiffer, NoJobIsNone
    DEF TypeInv, Types, SubmitterStates, WorkerStates, PlaceInv, CarryInv
<1>1. ASSUME NEW s \in Submitters, Submit(s) PROVE CarryInv'
  <2>1. CASE \E j \in Jobs : SubmitRLock(s, j)
    <3> PICK j \in Jobs : SubmitRLock(s, j)
      BY <2>1
    <3>1. fate[j] = "new" /\ \A a \in Submitters \cup Workers : carry[a] # j
      BY DEF SubmitRLock
    <3>2. QED
      BY <3>1 DEF SubmitRLock
  <2>2. ASSUME SubmitReject(s) \/ SubmitDrop(s) \/ SubmitEnqueue(s)
        PROVE  CarryInv'
    <3>1. /\ sub[s] \in {"rlocked", "sending"} /\ wkr' = wkr
          /\ sub' = [sub EXCEPT ![s] = "leaving"]
          /\ carry' = [carry EXCEPT ![s] = NoJob]
          /\ \A j \in Jobs : j # carry[s] => fate'[j] = fate[j]
      BY <2>2 DEF SubmitReject, SubmitDrop, SubmitEnqueue, LetGo
    <3>2. \A a \in Submitters \cup Workers : a # s => carry[a] # carry[s]
      BY <3>1
    <3>3. QED
      BY <3>1, <3>2
  <2>3. CASE SubmitPass(s) \/ SubmitRUnlock(s)
    <3>1. carry' = carry /\ fate' = fate /\ wkr' = wkr
      BY <2>3 DEF SubmitPass, SubmitRUnlock
    <3>2. \A r \in Submitters :
            sub'[r] \in {"rlocked", "sending"} <=> sub[r] \in {"rlocked", "sending"}
      BY <2>3 DEF SubmitPass, SubmitRUnlock
    <3>3. QED
      BY <3>1, <3>2
  <2>4. CASE \E w \in Workers : SubmitHandOff(s, w)
    <3> PICK w \in Workers : SubmitHandOff(s, w)
      BY <2>4
    <3>1. /\ s # w /\ sub[s] = "sending" /\ wkr[w] = "parked"
          /\ sub' = [sub EXCEPT ![s] = "leaving"]
          /\ wkr' = [wkr EXCEPT ![w] = "holding"]
          /\ carry' = [carry EXCEPT ![s] = NoJob, ![w] = carry[s]]
          /\ fate' = [fate EXCEPT ![carry[s]] = "held"]
      BY DEF SubmitHandOff, Receivers
    <3>2. carry[s] \in Jobs /\ carry[w] = NoJob
          /\ \A a \in Submitters \cup Workers : a # s => carry[a] # carry[s]
      BY <3>1
    <3>3. /\ carry'[s] = NoJob /\ carry'[w] = carry[s]
          /\ \A a \in Submitters \cup Workers : a \notin {s, w} => carry'[a] = carry[a]
      BY <3>1
    <3>4. fate'[carry[s]] = "held"
          /\ \A j \in Jobs : j # carry[s] => fate'[j] = fate[j]
      BY <3>1, <3>2
    <3>5. \A a, b \in Submitters \cup Workers :
            carry'[a] # NoJob /\ carry'[a] = carry'[b] => a = b
      BY <3>2, <3>3
    <3>6. \A r \in Submitters :
            IF sub'[r] \in {"rlocked", "sending"}
              THEN carry'[r] \in Jobs /\ fate'[carry'[r]] = "submitting"
              ELSE carry'[r] = NoJob
      BY <3>1, <3>2, <3>3, <3>4
    <3>7. \A v \in Workers : v # w =>
            /\ carry'[v] = carry[v] /\ wkr'[v] = wkr[v]
            /\ carry[v] \in Jobs => fate'[carry[v]] = fate[carry[v]]
      BY <3>1, <3>2, <3>3, <3>4
    <3>8. wkr'[w] = "holding" /\ carry'[w] \in Jobs /\ fate'[carry'[w]] = "held"
      BY <3>1, <3>2, <3>3, <3>4
    <3>9. QED
      BY <3>5, <3>6, <3>7, <3>8
  <2>5. QED
    BY <1>1, <2>1, <2>2, <2>3, <2>4 DEF Submit
<1>2. ASSUME NEW p \in Stoppers, Stop(p) PROVE CarryInv'
  BY <1>2 DEF Stop, StopAnnounce, StopLock, StopAgain, StopMark, StopClose,
              StopUnlock, StopDrained, StopTimeout
<1>3. ASSUME NEW w \in Workers, Worker(w) PROVE CarryInv'
  <2>1. CASE Take(w)
    <3>1. Head(jobs) \in Jobs /\ fate[Head(jobs)] = "queued"
      BY <2>1, HeadTailProperties DEF Take, BufferInv
    <3>2. \A a \in Submitters \cup Workers : carry[a] # Head(jobs)
      BY <3>1
    <3>3. QED
      BY <2>1, <3>1, <3>2 DEF Take
  <2>2. CASE Spawn(w) \/ Park(w) \/ Quit(w)
    BY <2>2 DEF Spawn, Park, Quit
  <2>3. CASE RunJob(w)
    BY <2>3 DEF RunJob
  <2>4. CASE JobReturns(w) \/ JobPanics(w)
    <3>1. /\ wkr[w] = "running" /\ sub' = sub
          /\ wkr' = [wkr EXCEPT ![w] = "ready"]
          /\ carry' = [carry EXCEPT ![w] = NoJob]
          /\ \A j \in Jobs : j # carry[w] => fate'[j] = fate[j]
      BY <2>4 DEF JobReturns, JobPanics, Unwind
    <3>2. \A a \in Submitters \cup Workers : a # w => carry[a] # carry[w]
      BY <3>1
    <3>3. QED
      BY <3>1, <3>2
  <2>5. QED
    BY <1>3, <2>1, <2>2, <2>3, <2>4 DEF Worker
<1>4. CASE StartReturns \/ Cancel \/ AtRest \/ UNCHANGED vars
  BY <1>4 DEF StartReturns, Cancel, AtRest, vars
<1>5. QED
  BY <1>1, <1>2, <1>3, <1>4 DEF Next

(* What the channel holds keeps agreeing with the fate of the jobs.        *)
LEMMA BufferNext == TypeInv /\ PlaceInv /\ [Next]_vars => BufferInv'
<1> SUFFICES ASSUME TypeInv, PlaceInv, [Next]_vars PROVE BufferInv'
  OBVIOUS
<1> USE ActorsDiffer, NoJobIsNone DEF TypeInv, Types, PlaceInv, BufferInv
<1>1. ASSUME NEW a \in Submitters \cup Workers, carry[a] \in Jobs,
             fate[carry[a]] # "queued", jobs' = jobs, NEW f \in Fates, f # "queued",
             fate' = [fate EXCEPT ![carry[a]] = f]
      PROVE  BufferInv'
  BY <1>1
<1>2. ASSUME NEW s \in Submitters, Submit(s) PROVE BufferInv'
  <2>1. CASE \E j \in Jobs : SubmitRLock(s, j)
    BY <2>1 DEF SubmitRLock, chan
  <2>2. CASE SubmitReject(s) \/ SubmitDrop(s) \/ \E w \in Workers : SubmitHandOff(s, w)
    <3>1. /\ carry[s] \in Jobs /\ fate[carry[s]] = "submitting" /\ jobs' = jobs
          /\ \E f \in {"rejected", "dropped", "held"} :
               fate' = [fate EXCEPT ![carry[s]] = f]
      BY <2>2 DEF SubmitReject, SubmitDrop, SubmitHandOff, LetGo, chan, CarryInv
    <3>2. QED
      BY <3>1, <1>1 DEF Fates
  <2>3. CASE SubmitEnqueue(s)
    <3>1. /\ carry[s] \in Jobs /\ fate[carry[s]] = "submitting"
          /\ jobs' = Append(jobs, carry[s])
          /\ fate' = [fate EXCEPT ![carry[s]] = "queued"]
      BY <2>3 DEF SubmitEnqueue, LetGo, CarryInv
    <3>2. /\ Len(jobs') = Len(jobs) + 1 /\ Len(jobs) \in Nat
          /\ \A i \in 1..Len(jobs) : jobs'[i] = jobs[i]
          /\ jobs'[Len(jobs) + 1] = carry[s]
      BY <3>1, AppendProperties, LenProperties
    <3>3. \A i \in 1..Len(jobs) : jobs[i] \in Jobs /\ jobs[i] # carry[s]
      BY <3>1
    <3>4. fate'[carry[s]] = "queued" /\ \A j \in Jobs : j # carry[s] => fate'[j] = fate[j]
      BY <3>1
    <3>5. QED
      BY ONLY PlaceInv, <3>1, <3>2, <3>3, <3>4 DEF PlaceInv, BufferInv
  <2>4. CASE SubmitPass(s) \/ SubmitRUnlock(s)
    BY <2>4 DEF SubmitPass, SubmitRUnlock, chan
  <2>5. QED
    BY <1>2, <2>1, <2>2, <2>3, <2>4 DEF Submit
<1>3. ASSUME NEW p \in Stoppers, Stop(p) PROVE BufferInv'
  <2>1. jobs' = jobs /\ fate' = fate
    BY <1>3 DEF Stop, StopAnnounce, StopLock, StopAgain, StopMark, StopClose,
                StopUnlock, StopDrained, StopTimeout, chan
  <2>2. QED
    BY <2>1
<1>4. ASSUME NEW w \in Workers, Worker(w) PROVE BufferInv'
  <2>1. CASE Take(w)
    <3>1. /\ jobs # <<>> /\ jobs' = Tail(jobs)
          /\ fate' = [fate EXCEPT ![Head(jobs)] = "held"]
      BY <2>1 DEF Take
    <3>2. /\ Len(jobs) \in Nat /\ Len(jobs') = Len(jobs) - 1
          /\ \A i \in 1..Len(jobs') : jobs'[i] = jobs[i + 1]
          /\ Head(jobs) = jobs[1] /\ Head(jobs) \in Jobs
      BY <3>1, HeadTailProperties, LenProperties
    <3>3. \A j \in Jobs : j # Head(jobs) => fate'[j] = fate[j]
      BY <3>1
    <3>4. \A i \in 1..Len(jobs) : jobs[i] \in Jobs /\ (i # 1 => jobs[i] # Head(jobs))
      BY <3>1, <3>2
    <3>5. fate'[Head(jobs)] = "held"
      BY <3>1, <3>2
    <3>6. \A j \in Jobs : fate'[j] = "queued" => \E i \in 1..Len(jobs') : jobs'[i] = j
      <4> TAKE j \in Jobs
      <4> HAVE fate'[j] = "queued"
      <4>1. PICK i \in 1..Len(jobs) : jobs[i] = j
        BY <3>3, <3>5
      <4>2. i # 1
        BY <3>2, <3>5, <4>1
      <4>3. i - 1 \in 1..Len(jobs') /\ jobs'[i - 1] = j
        BY <3>2, <4>1, <4>2
      <4>4. QED
        BY <4>3
    <3>7. \A i \in 1..Len(jobs') : i + 1 \in 1..Len(jobs) /\ i + 1 # 1
      BY ONLY <3>2
    <3>8. \A i \in 1..Len(jobs') : fate'[jobs'[i]] = "queued"
      BY ONLY PlaceInv, <3>2, <3>3, <3>4, <3>7 DEF PlaceInv, BufferInv
    <3>9. \A i, k \in 1..Len(jobs') : i # k => jobs'[i] # jobs'[k]
      <4> TAKE i, k \in 1..Len(jobs')
      <4>1. i # k => i + 1 # k + 1
        OBVIOUS
      <4>2. QED
        BY ONLY PlaceInv, <3>2, <3>7, <4>1 DEF PlaceInv, BufferInv
    <3>10. QED
      BY <3>6, <3>8, <3>9
  <2>2. CASE Spawn(w) \/ Park(w) \/ Quit(w)
    BY <2>2 DEF Spawn, Park, Quit, chan
  <2>3. CASE RunJob(w) \/ JobReturns(w) \/ JobPanics(w)
    <3>1. /\ carry[w] \in Jobs /\ fate[carry[w]] \in {"held", "running"} /\ jobs' = jobs
          /\ \E f \in {"running", "answered", "panicked"} :
               fate' = [fate EXCEPT ![carry[w]] = f]
      BY <2>3 DEF RunJob, JobReturns, JobPanics, Unwind, chan, CarryInv
    <3>2. QED
      BY <3>1, <1>1 DEF Fates
  <2>4. QED
    BY <1>4, <2>1, <2>2, <2>3 DEF Worker
<1>5. CASE StartReturns \/ Cancel \/ AtRest \/ UNCHANGED vars
  BY <1>5 DEF StartReturns, Cancel, AtRest, vars, chan
<1>6. QED
  BY <1>2, <1>3, <1>4, <1>5 DEF Next

(* No two goroutines come to carry the same job.                           *)
LEMMA OwnerNext == TypeInv /\ PlaceInv /\ [Next]_vars => OwnerInv'
<1> SUFFICES ASSUME TypeInv, PlaceInv, [Next]_vars PROVE OwnerInv'
  OBVIOUS
<1> USE ActorsDiffer, NoJobIsNone
    DEF TypeInv, Types, WorkerStates, PlaceInv, OwnerInv
<1>1. ASSUME NEW s \in Submitters, Submit(s) PROVE OwnerInv'
  <2>1. CASE SubmitPass(s) \/ SubmitRUnlock(s)
    BY <2>1 DEF SubmitPass, SubmitRUnlock
  <2>2. CASE \E j \in Jobs : SubmitRLock(s, j)
    BY <2>2 DEF SubmitRLock
  <2>3. CASE SubmitReject(s) \/ SubmitDrop(s) \/ SubmitEnqueue(s)
    <3>1. /\ carry[s] \in Jobs /\ wkr' = wkr
          /\ carry' = [carry EXCEPT ![s] = NoJob]
          /\ \E f \in {"rejected", "dropped", "queued"} :
               fate' = [fate EXCEPT ![carry[s]] = f]
      BY <2>3 DEF SubmitReject, SubmitDrop, SubmitEnqueue, LetGo, CarryInv
    <3>2. /\ \A w \in Workers : carry'[w] = carry[w]
          /\ \A j \in Jobs : fate'[j] \in {"held", "running"} => fate'[j] = fate[j]
      BY <3>1
    <3>3. QED
      BY ONLY PlaceInv, <3>1, <3>2 DEF PlaceInv, OwnerInv
  <2>4. CASE \E w \in Workers : SubmitHandOff(s, w)
    <3> PICK w \in Workers : SubmitHandOff(s, w)
      BY <2>4
    <3>1. /\ carry[s] \in Jobs /\ wkr[w] = "parked" /\ wkr'[w] = "holding"
          /\ carry'[w] = carry[s]
          /\ \A v \in Workers : v # w => carry'[v] = carry[v] /\ wkr'[v] = wkr[v]
          /\ \A j \in Jobs : j # carry[s] => fate'[j] = fate[j]
      BY DEF SubmitHandOff, Receivers, CarryInv
    <3>2. QED
      BY ONLY PlaceInv, <3>1 DEF PlaceInv, OwnerInv
  <2>5. QED
    BY <1>1, <2>1, <2>2, <2>3, <2>4 DEF Submit
<1>2. ASSUME NEW p \in Stoppers, Stop(p) PROVE OwnerInv'
  BY <1>2 DEF Stop, StopAnnounce, StopLock, StopAgain, StopMark, StopClose,
              StopUnlock, StopDrained, StopTimeout
<1>3. ASSUME NEW w \in Workers, Worker(w) PROVE OwnerInv'
  <2>1. CASE Take(w)
    <3>1. /\ Head(jobs) \in Jobs /\ wkr[w] = "ready" /\ wkr'[w] = "holding"
          /\ carry'[w] = Head(jobs)
          /\ \A v \in Workers : v # w => carry'[v] = carry[v] /\ wkr'[v] = wkr[v]
          /\ \A j \in Jobs : j # Head(jobs) => fate'[j] = fate[j]
      BY <2>1, HeadTailProperties DEF Take
    <3>2. QED
      BY ONLY PlaceInv, <3>1 DEF PlaceInv, OwnerInv
  <2>2. CASE Spawn(w) \/ Park(w) \/ Quit(w)
    BY <2>2 DEF Spawn, Park, Quit
  <2>3. CASE RunJob(w)
    BY <2>3 DEF RunJob, CarryInv
  <2>4. CASE JobReturns(w) \/ JobPanics(w)
    <3>1. /\ carry[w] \in Jobs
          /\ \A v \in Workers : v # w => carry'[v] = carry[v] /\ wkr'[v] = wkr[v]
          /\ fate'[carry[w]] \in {"answered", "panicked"}
          /\ \A j \in Jobs : j # carry[w] => fate'[j] = fate[j]
      BY <2>4 DEF JobReturns, JobPanics, Unwind, CarryInv
    <3>2. QED
      BY ONLY PlaceInv, <3>1 DEF PlaceInv, OwnerInv
  <2>5. QED
    BY <1>3, <2>1, <2>2, <2>3, <2>4 DEF Worker
<1>4. CASE StartReturns \/ Cancel \/ AtRest \/ UNCHANGED vars
  BY <1>4 DEF StartReturns, Cancel, AtRest, vars
<1>5. QED
  BY <1>1, <1>2, <1>3, <1>4 DEF Next

(* Every accepted job stays somewhere the pool can find it.                *)
LEMMA ArrivalNext == TypeInv /\ PlaceInv /\ [Next]_vars => ArrivalInv'
<1> SUFFICES ASSUME TypeInv, PlaceInv, [Next]_vars PROVE ArrivalInv'
  OBVIOUS
<1> DEFINE Accepted == {"queued", "held", "running", "answered", "panicked"}
<1> USE ActorsDiffer, NoJobIsNone DEF TypeInv, Types, PlaceInv
<1>1. ASSUME arrival' = arrival,
             \A j \in Jobs : fate[j] \in Accepted => fate'[j] \in Accepted
      PROVE  ArrivalInv'
  <2>1. \A i \in 1..Len(arrival) : arrival[i] \in Jobs
    OBVIOUS
  <2>2. QED
    BY <1>1, <2>1 DEF ArrivalInv
<1>2. ASSUME NEW s \in Submitters, Submit(s) PROVE ArrivalInv'
  <2>1. CASE SubmitPass(s) \/ SubmitRUnlock(s)
    BY <1>1, <2>1 DEF SubmitPass, SubmitRUnlock, hist
  <2>2. CASE \E j \in Jobs : SubmitRLock(s, j)
    BY <1>1, <2>2 DEF SubmitRLock, hist
  <2>3. CASE SubmitReject(s) \/ SubmitDrop(s)
    BY <1>1, <2>3 DEF SubmitReject, SubmitDrop, LetGo, hist, CarryInv
  <2>4. CASE SubmitEnqueue(s) \/ \E w \in Workers : SubmitHandOff(s, w)
    <3>1. /\ carry[s] \in Jobs /\ arrival' = Append(arrival, carry[s])
          /\ fate'[carry[s]] \in {"queued", "held"}
          /\ \A j \in Jobs : j # carry[s] => fate'[j] = fate[j]
      BY <2>4 DEF SubmitEnqueue, SubmitHandOff, LetGo, CarryInv
    <3>2. /\ Len(arrival') = Len(arrival) + 1 /\ Len(arrival) \in Nat
          /\ \A i \in 1..Len(arrival) : arrival'[i] = arrival[i] /\ arrival[i] \in Jobs
          /\ arrival'[Len(arrival) + 1] = carry[s]
      BY <3>1, AppendProperties, LenProperties
    <3>3. QED
      BY ONLY PlaceInv, <3>1, <3>2 DEF PlaceInv, ArrivalInv
  <2>5. QED
    BY <1>2, <2>1, <2>2, <2>3, <2>4 DEF Submit
<1>3. ASSUME NEW p \in Stoppers, Stop(p) PROVE ArrivalInv'
  BY <1>1, <1>3 DEF Stop, StopAnnounce, StopLock, StopAgain, StopMark, StopClose,
                    StopUnlock, StopDrained, StopTimeout, hist
<1>4. ASSUME NEW w \in Workers, Worker(w) PROVE ArrivalInv'
  <2>1. CASE Take(w)
    BY <1>1, <2>1 DEF Take
  <2>2. CASE Spawn(w) \/ Park(w) \/ Quit(w)
    BY <1>1, <2>2 DEF Spawn, Park, Quit, hist
  <2>3. CASE RunJob(w) \/ JobReturns(w) \/ JobPanics(w)
    BY <1>1, <2>3 DEF RunJob, JobReturns, JobPanics, Unwind, hist
  <2>4. QED
    BY <1>4, <2>1, <2>2, <2>3 DEF Worker
<1>5. CASE StartReturns \/ Cancel \/ AtRest \/ UNCHANGED vars
  BY <1>1, <1>5 DEF StartReturns, Cancel, AtRest, vars, hist
<1>6. QED
  BY <1>2, <1>3, <1>4, <1>5 DEF Next

(* The third part of the inductive invariant is kept by every step.        *)
LEMMA PlaceNext == TypeInv /\ PlaceInv /\ [Next]_vars => PlaceInv'
  BY CarryNext, BufferNext, OwnerNext, ArrivalNext DEF PlaceInv

IInv == SafeInv /\ CountInv /\ PlaceInv

(* The inductive invariant holds throughout.                               *)
LEMMA Invariance == Spec => []IInv
  BY SafeInvariant, CountInvariant, TypesInit, TypesNext, PlaceInit, PlaceNext, PTL
     DEF Spec, IInv, SafeInv

(* When a pool that has workers is done and nobody cancelled it, no job is *)
(* in the channel or in anybody's hands: every worker has left, and one    *)
(* leaves only when the channel is closed and empty.                       *)
LEMMA NothingOwed ==
  ASSUME IInv, Workers # {}, done, ~ctxDone, NEW j \in Jobs
  PROVE  fate[j] \notin {"queued", "held", "running"}
<1>1. \A w \in Workers : wkr[w] = "exited"
  BY DEF IInv, CountInv, DoneMeansGone
<1>2. jobs = <<>>
  BY <1>1 DEF IInv, SafeInv, QueueInv, PoolKeepsItsWorkers
<1>3. fate[j] # "queued"
  BY <1>2 DEF IInv, PlaceInv, BufferInv
<1>4. fate[j] \notin {"held", "running"}
  BY <1>1 DEF IInv, PlaceInv, OwnerInv
<1>5. QED
  BY <1>3, <1>4

(* A Stop that returned because the pool drained left no accepted job      *)
(* unsettled, unless the context was cancelled; for any pool with a worker *)
(* (worker.go, Stop).                                                      *)
THEOREM DrainIsComplete ==
  ASSUME Workers # {}
  PROVE  Spec => []DrainedMeansSettled
<1>1. IInv => DrainedMeansSettled
  <2> SUFFICES ASSUME IInv, NEW p \in Stoppers, stp[p] = "drained", ~ctxDone,
                      NEW i \in DOMAIN arrival
               PROVE  fate[arrival[i]] \in Settled
    BY DEF DrainedMeansSettled
  <2>1. done
    BY DEF IInv, CountInv
  <2>2. i \in 1..Len(arrival) /\ arrival[i] \in Jobs
    BY DEF IInv, SafeInv, TypeInv, Types
  <2>3. fate[arrival[i]] \in {"queued", "held", "running", "answered", "panicked"}
    BY <2>2 DEF IInv, PlaceInv, ArrivalInv
  <2>4. QED
    BY <2>1, <2>2, <2>3, NothingOwed DEF Settled
<1>2. QED
  BY <1>1, Invariance, PTL

(* A job is in one place only, and its place agrees with how far it got:   *)
(* no job is run twice or by two workers.                                  *)
THEOREM EachJobOnce == Spec => []OnePlace
<1>1. IInv => OnePlace
  <2> SUFFICES ASSUME IInv PROVE OnePlace
    OBVIOUS
  <2>1. DOMAIN jobs = 1..Len(jobs)
    BY DEF IInv, SafeInv, TypeInv, Types
  <2>2. \A i, k \in DOMAIN jobs : i # k => jobs[i] # jobs[k]
    BY <2>1 DEF IInv, PlaceInv, BufferInv
  <2>3. \A j \in Jobs : (fate[j] = "queued") <=> (j \in Queued)
    BY <2>1 DEF IInv, PlaceInv, BufferInv, Queued
  <2>4. \A w \in Workers : CASE wkr[w] = "holding" -> fate[carry[w]] = "held"
                            [] wkr[w] = "running" -> fate[carry[w]] = "running"
                            [] OTHER -> carry[w] = NoJob
    BY DEF IInv, PlaceInv, CarryInv
  <2>5. QED
    BY <2>2, <2>3, <2>4 DEF IInv, PlaceInv, CarryInv, OnePlace
<1>2. QED
  BY <1>1, Invariance, PTL

(* The jobs on which a worker is at work, running or about to.             *)
InHand   == {j \in Jobs : fate[j] \in {"held", "running"}}
Running  == {j \in Jobs : fate[j] = "running"}
Buffered == {j \in Jobs : fate[j] = "queued"}

(* A job that runs has a worker that runs it, and no other: carry pairs    *)
(* the busy workers with the jobs that run.                                *)
LEMMA GaugePairs == ASSUME IInv PROVE active = Cardinality(Running)
<1> DEFINE f == [w \in Busy |-> carry[w]]
<1>1. f \in [Busy -> Running]
  BY DEF IInv, PlaceInv, CarryInv, Busy, Running
<1>2. \A v, w \in Busy : f[v] = f[w] => v = w
  BY NoJobIsNone DEF IInv, PlaceInv, CarryInv, Busy
<1>3. ASSUME NEW j \in Running PROVE \E w \in Busy : f[w] = j
  <2>1. PICK w \in Workers : wkr[w] \in {"holding", "running"} /\ carry[w] = j
    BY DEF IInv, PlaceInv, OwnerInv, Running
  <2>2. wkr[w] = "running"
    BY <2>1 DEF IInv, PlaceInv, CarryInv, Running
  <2>3. QED
    BY <2>1, <2>2 DEF Busy
<1>4. f \in Bijection(Busy, Running)
  <2>1. DOMAIN f = Busy
    OBVIOUS
  <2> HIDE DEF f
  <2>2. f \in Injection(Busy, Running)
    BY <1>1, <1>2, <2>1 DEF Injection, IsInjective
  <2>3. f \in Surjection(Busy, Running)
    BY <1>1, <1>3, Zenon DEF Surjection
  <2>4. QED
    BY <2>2, <2>3, Zenon DEF Bijection
<1>5. Cardinality(Running) = Cardinality(Busy)
  BY <1>4, FiniteCrews, FS_Bijection DEF ExistsBijection
<1>6. QED
  BY <1>5 DEF IInv, CountInv, Counted

(* The gauge of busy workers counts the jobs being run, panics included    *)
(* (worker.go, runJob).                                                    *)
THEOREM GaugeCounts == Spec => []GaugeIsHonest
<1>1. IInv => GaugeIsHonest
  BY GaugePairs DEF GaugeIsHonest, Running
<1>2. QED
  BY <1>1, Invariance, PTL

(* The channel holds the jobs buffered, each in a place of its own.        *)
LEMMA BufferBound ==
  ASSUME IInv PROVE IsFiniteSet(Buffered) /\ Cardinality(Buffered) <= QueueSize
<1> DEFINE S == 1..Len(jobs)
           f == [i \in S |-> jobs[i]]
<1>1. Len(jobs) \in Nat /\ \A i \in S : jobs[i] \in Jobs
  BY DEF IInv, SafeInv, TypeInv, Types
<1>2. f \in Surjection(S, Buffered)
  BY <1>1 DEF IInv, PlaceInv, BufferInv, Buffered, Surjection
<1>3. IsFiniteSet(S) /\ Cardinality(S) = Len(jobs)
  BY <1>1, FS_Interval
<1>4. IsFiniteSet(Buffered) /\ Cardinality(Buffered) <= Cardinality(S)
  BY <1>2, <1>3, FS_Surjection
<1>5. Cardinality(Buffered) \in Nat
  BY <1>4, FS_CardinalityType
<1>6. Len(jobs) <= QueueSize
  BY DEF IInv, SafeInv, QueueInv
<1>7. QED
  BY <1>1, <1>3, <1>4, <1>5, <1>6, QueueSizeNat

(* A worker has one job in hand at most.                                   *)
LEMMA HandBound ==
  ASSUME IInv
  PROVE  IsFiniteSet(InHand) /\ Cardinality(InHand) <= Cardinality(Workers)
<1> DEFINE S == {w \in Workers : wkr[w] \in {"holding", "running"}}
           f == [w \in S |-> carry[w]]
<1>1. IsFiniteSet(S) /\ Cardinality(S) <= Cardinality(Workers)
  BY WorkersFinite, FS_Subset
<1>2. f \in [S -> InHand]
  BY DEF IInv, PlaceInv, CarryInv, InHand
<1>3. \A j \in InHand : \E w \in S : f[w] = j
  BY DEF IInv, PlaceInv, OwnerInv, InHand
<1>4. f \in Surjection(S, InHand)
  BY <1>2, <1>3 DEF Surjection
<1>5. IsFiniteSet(InHand) /\ Cardinality(InHand) <= Cardinality(S)
  BY <1>1, <1>4, FS_Surjection
<1>6. /\ Cardinality(InHand) \in Nat /\ Cardinality(S) \in Nat
      /\ Cardinality(Workers) \in Nat
  BY <1>1, <1>5, WorkersFinite, FS_CardinalityType
<1>7. QED
  BY <1>1, <1>5, <1>6

(* The pool never owes more answers than the channel and the workers can   *)
(* hold, however fast the rooms talk (worker.go, Submit).                  *)
THEOREM BacklogBounded == Spec => []Backpressure
<1>1. IInv => Backpressure
  <2> SUFFICES ASSUME IInv PROVE Backpressure
    OBVIOUS
  <2>1. {j \in Jobs : fate[j] \in {"queued", "held", "running"}} = Buffered \cup InHand
    BY DEF Buffered, InHand
  <2>2. Buffered \cap InHand = {}
    BY DEF Buffered, InHand
  <2>3. Cardinality(Buffered \cup InHand) = Cardinality(Buffered) + Cardinality(InHand)
    <3>1. Cardinality(Buffered \cup InHand)
            = Cardinality(Buffered) + Cardinality(InHand) - Cardinality(Buffered \cap InHand)
      BY BufferBound, HandBound, FS_Union
    <3>2. Cardinality(Buffered) \in Nat /\ Cardinality(InHand) \in Nat
      BY BufferBound, HandBound, FS_CardinalityType
    <3>3. QED
      BY <3>1, <3>2, <2>2, FS_EmptySet
  <2>4. /\ Cardinality(Buffered) \in Nat /\ Cardinality(InHand) \in Nat
        /\ Cardinality(Workers) \in Nat
    BY BufferBound, HandBound, WorkersFinite, FS_CardinalityType
  <2>5. QED
    BY <2>1, <2>3, <2>4, BufferBound, HandBound, QueueSizeNat DEF Backpressure
<1>2. QED
  BY <1>1, Invariance, PTL

-----------------------------------------------------------------------------
(* Dispatcher implements JobLedger, step by step. *)

(* A step that changes only how far the job j got is a step of j in the    *)
(* ledger.                                                                 *)
LEMMA LedgerMove ==
  ASSUME TypeInv, NEW j \in Jobs, NEW f \in Fates, fate' = [fate EXCEPT ![j] = f],
         stopped' = stopped, ctxDone' = ctxDone, stp' = stp
  PROVE  Ledger!Become(j, StatusOf(fate[j]), StatusOf(f))
<1> DEFINE st == [i \in Jobs |-> StatusOf(fate[i])]
<1>1. \A i \in Jobs : fate'[i] = IF i = j THEN f ELSE fate[i]
  BY DEF TypeInv, Types
<1>2. \A i \in Jobs : StatusOf(fate'[i]) = IF i = j THEN StatusOf(f) ELSE StatusOf(fate[i])
  BY <1>1
<1>3. st' = [st EXCEPT ![j] = StatusOf(f)]
  <2>1. [i \in Jobs |-> StatusOf(fate'[i])] = [i \in Jobs |-> IF i = j THEN StatusOf(f) ELSE st[i]]
    BY <1>2
  <2>2. [st EXCEPT ![j] = StatusOf(f)] = [i \in Jobs |-> IF i = j THEN StatusOf(f) ELSE st[i]]
    OBVIOUS
  <2>3. QED
    BY <2>1, <2>2
<1>4. st[j] = StatusOf(fate[j])
  OBVIOUS
<1>5. QED
  BY <1>3, <1>4 DEF Ledger!Become

(* A step that moves no job, no stop and no cancellation is no step of the *)
(* ledger.                                                                 *)
LEMMA LedgerStutter ==
  ASSUME fate' = fate, stopped' = stopped, ctxDone' = ctxDone, stp' = stp
  PROVE  UNCHANGED Ledger!ledger
  BY DEF Ledger!ledger

(* Every step of Submit is a step of the ledger or a stutter.              *)
LEMMA LedgerSubmit ==
  ASSUME IInv, NEW s \in Submitters, Submit(s)
  PROVE  Ledger!Next \/ UNCHANGED Ledger!ledger
<1> USE DEF IInv, SafeInv, PlaceInv
<1>1. stopped' = stopped /\ ctxDone' = ctxDone /\ stp' = stp
  BY DEF Submit, SubmitRLock, SubmitReject, SubmitPass, SubmitHandOff,
         SubmitEnqueue, SubmitDrop, SubmitRUnlock, sync
<1>2. CASE \E j \in Jobs : SubmitRLock(s, j)
  <2> PICK j \in Jobs : SubmitRLock(s, j)
    BY <1>2
  <2>1. fate[j] = "new" /\ fate' = [fate EXCEPT ![j] = "submitting"]
    BY DEF SubmitRLock
  <2>2. \A i \in Jobs : StatusOf(fate'[i]) = StatusOf(fate[i])
    BY <2>1 DEF TypeInv, Types, StatusOf
  <2>3. [i \in Jobs |-> StatusOf(fate'[i])] = [i \in Jobs |-> StatusOf(fate[i])]
    BY <2>2
  <2>4. QED
    BY <1>1, <2>3 DEF Ledger!ledger
<1>3. CASE SubmitPass(s) \/ SubmitRUnlock(s)
  BY <1>1, <1>3, LedgerStutter DEF SubmitPass, SubmitRUnlock
<1>4. CASE SubmitReject(s) \/ SubmitDrop(s)
  <2>1. /\ carry[s] \in Jobs /\ fate[carry[s]] = "submitting"
        /\ \E f \in {"rejected", "dropped"} : fate' = [fate EXCEPT ![carry[s]] = f]
    BY <1>4 DEF SubmitReject, SubmitDrop, LetGo, CarryInv
  <2>2. PICK f \in {"rejected", "dropped"} : fate' = [fate EXCEPT ![carry[s]] = f]
    BY <2>1
  <2>3. StatusOf(fate[carry[s]]) = "outside" /\ StatusOf(f) = "refused" /\ f \in Fates
    BY <2>1, <2>2 DEF StatusOf, Fates
  <2>4. Ledger!Become(carry[s], StatusOf(fate[carry[s]]), StatusOf(f))
    BY <1>1, <2>1, <2>2, <2>3, LedgerMove
  <2>5. Ledger!Refuse(carry[s])
    BY <2>3, <2>4 DEF Ledger!Refuse
  <2>6. QED
    BY <2>1, <2>5 DEF Ledger!Next
<1>5. CASE SubmitEnqueue(s) \/ \E w \in Workers : SubmitHandOff(s, w)
  <2>1. /\ carry[s] \in Jobs /\ fate[carry[s]] = "submitting" /\ sub[s] = "sending"
        /\ \E f \in {"queued", "held"} : fate' = [fate EXCEPT ![carry[s]] = f]
    BY <1>5 DEF SubmitEnqueue, SubmitHandOff, LetGo, CarryInv
  <2>2. PICK f \in {"queued", "held"} : fate' = [fate EXCEPT ![carry[s]] = f]
    BY <2>1
  <2>3. StatusOf(fate[carry[s]]) = "outside" /\ StatusOf(f) = "accepted" /\ f \in Fates
    BY <2>1, <2>2 DEF StatusOf, Fates
  <2>4. Ledger!Become(carry[s], StatusOf(fate[carry[s]]), StatusOf(f))
    BY <1>1, <2>1, <2>2, <2>3, LedgerMove
  <2>5. ~stopped
    BY <2>1 DEF StopInv
  <2>6. Ledger!Accept(carry[s])
    BY <2>3, <2>4, <2>5 DEF Ledger!Accept
  <2>7. QED
    BY <2>1, <2>6 DEF Ledger!Next
<1>6. QED
  BY <1>2, <1>3, <1>4, <1>5 DEF Submit

(* Every step of Stop is a step of the ledger or a stutter.                *)
LEMMA LedgerStop ==
  ASSUME Workers # {}, IInv, NEW p \in Stoppers, Stop(p)
  PROVE  Ledger!Next \/ UNCHANGED Ledger!ledger
<1> USE DEF IInv, SafeInv, TypeInv, Types, StopperStates, MoveStopper
<1>1. fate' = fate /\ ctxDone' = ctxDone
  BY DEF Stop, StopAnnounce, StopLock, StopAgain, StopMark, StopClose, StopUnlock,
         StopDrained, StopTimeout, sync
<1>2. [i \in Jobs |-> StatusOf(fate[i])]' = [i \in Jobs |-> StatusOf(fate[i])]
  BY <1>1
<1>3. CASE StopMark(p)
  <2>1. ~stopped /\ stopped' /\ \A q \in Stoppers : stp'[q] = "drained" <=> stp[q] = "drained"
    BY <1>3 DEF StopMark
  <2>2. Ledger!Shut
    BY <1>1, <1>2, <2>1 DEF Ledger!Shut
  <2>3. QED
    BY <2>2 DEF Ledger!Next
<1>4. CASE StopDrained(p)
  <2>1. done /\ stopped' = stopped /\ stp[p] = "waiting" /\ stp' = [stp EXCEPT ![p] = "drained"]
    BY <1>4 DEF StopDrained
  <2>2. stopped
    BY <2>1 DEF StopInv
  <2>3. CASE \E q \in Stoppers : stp[q] = "drained"
    <3>1. \E q \in Stoppers : stp'[q] = "drained"
      BY <2>1
    <3>2. QED
      BY <1>1, <1>2, <2>1, <2>3, <3>1 DEF Ledger!ledger
  <2>4. CASE ~\E q \in Stoppers : stp[q] = "drained"
    <3>1. ctxDone \/ \A j \in Jobs : StatusOf(fate[j]) \notin {"accepted", "begun"}
      BY <2>1, NothingOwed DEF StatusOf, Fates
    <3>2. ctxDone \/ \A j \in Jobs : ~Ledger!Owed(j)
      BY <3>1 DEF Ledger!Owed
    <3>3. \E q \in Stoppers : stp'[q] = "drained"
      BY <2>1
    <3>4. Ledger!ReportDrained
      BY <1>1, <1>2, <2>1, <2>2, <2>4, <3>2, <3>3 DEF Ledger!ReportDrained
    <3>5. QED
      BY <3>4 DEF Ledger!Next
  <2>5. QED
    BY <2>3, <2>4
<1>5. CASE ~StopMark(p) /\ ~StopDrained(p)
  <2>1. stopped' = stopped /\ \A q \in Stoppers : stp'[q] = "drained" <=> stp[q] = "drained"
    BY <1>5 DEF Stop, StopAnnounce, StopLock, StopAgain, StopClose, StopUnlock, StopTimeout
  <2>2. QED
    BY <1>1, <1>2, <2>1 DEF Ledger!ledger
<1>6. QED
  BY <1>3, <1>4, <1>5

(* Every step of a worker is a step of the ledger or a stutter.            *)
LEMMA LedgerWorker ==
  ASSUME IInv, NEW w \in Workers, Worker(w)
  PROVE  Ledger!Next \/ UNCHANGED Ledger!ledger
<1> USE DEF IInv, SafeInv, PlaceInv
<1>1. stopped' = stopped /\ ctxDone' = ctxDone /\ stp' = stp
  BY DEF Worker, Spawn, Take, Park, Quit, RunJob, JobReturns, JobPanics, Unwind, sync
<1>2. CASE Spawn(w) \/ Park(w) \/ Quit(w)
  BY <1>1, <1>2, LedgerStutter DEF Spawn, Park, Quit
<1>3. CASE Take(w)
  <2>1. /\ Head(jobs) \in Jobs /\ fate[Head(jobs)] = "queued"
        /\ fate' = [fate EXCEPT ![Head(jobs)] = "held"]
    BY <1>3, HeadTailProperties DEF Take, BufferInv, TypeInv, Types
  <2>2. \A i \in Jobs : StatusOf(fate'[i]) = StatusOf(fate[i])
    BY <2>1 DEF TypeInv, Types, StatusOf
  <2>3. [i \in Jobs |-> StatusOf(fate'[i])] = [i \in Jobs |-> StatusOf(fate[i])]
    BY <2>2
  <2>4. QED
    BY <1>1, <2>3 DEF Ledger!ledger
<1>4. CASE RunJob(w)
  <2>1. /\ carry[w] \in Jobs /\ fate[carry[w]] = "held"
        /\ fate' = [fate EXCEPT ![carry[w]] = "running"]
    BY <1>4 DEF RunJob, CarryInv
  <2>2. StatusOf(fate[carry[w]]) = "accepted" /\ StatusOf("running") = "begun"
    BY <2>1 DEF StatusOf
  <2>3. Ledger!Become(carry[w], StatusOf(fate[carry[w]]), StatusOf("running"))
    BY <1>1, <2>1, LedgerMove DEF Fates
  <2>4. Ledger!Begin(carry[w])
    BY <2>2, <2>3 DEF Ledger!Begin
  <2>5. QED
    BY <2>1, <2>4 DEF Ledger!Next
<1>5. CASE JobReturns(w) \/ JobPanics(w)
  <2>1. /\ carry[w] \in Jobs /\ fate[carry[w]] = "running"
        /\ \E f \in {"answered", "panicked"} : fate' = [fate EXCEPT ![carry[w]] = f]
    BY <1>5 DEF JobReturns, JobPanics, Unwind, CarryInv
  <2>2. PICK f \in {"answered", "panicked"} : fate' = [fate EXCEPT ![carry[w]] = f]
    BY <2>1
  <2>3. StatusOf(fate[carry[w]]) = "begun" /\ StatusOf(f) = "settled" /\ f \in Fates
    BY <2>1, <2>2 DEF StatusOf, Fates
  <2>4. Ledger!Become(carry[w], StatusOf(fate[carry[w]]), StatusOf(f))
    BY <1>1, <2>1, <2>2, <2>3, LedgerMove
  <2>5. Ledger!Settle(carry[w])
    BY <2>3, <2>4 DEF Ledger!Settle
  <2>6. QED
    BY <2>1, <2>5 DEF Ledger!Next
<1>6. QED
  BY <1>2, <1>3, <1>4, <1>5 DEF Worker

(* A pool with at least one worker implements the safety part of the       *)
(* ledger, whatever its size and whatever the interleaving.                *)
THEOREM LedgerImplemented ==
  ASSUME Workers # {}
  PROVE  Spec => KeepsTheLedger
<1>1. Init => Ledger!Init
  <2> SUFFICES ASSUME Init PROVE Ledger!Init
    OBVIOUS
  <2>1. \A j \in Jobs : StatusOf(fate[j]) = "outside"
    BY DEF Init, StatusOf
  <2>2. [j \in Jobs |-> StatusOf(fate[j])] = [j \in Jobs |-> "outside"]
    BY <2>1
  <2>3. ~stopped /\ ~ctxDone /\ ~\E p \in Stoppers : stp[p] = "drained"
    BY DEF Init
  <2>4. QED
    BY <2>2, <2>3 DEF Ledger!Init
<1>2. IInv /\ [Next]_vars => [Ledger!Next]_(Ledger!ledger)
  <2> SUFFICES ASSUME IInv, [Next]_vars
               PROVE  Ledger!Next \/ UNCHANGED Ledger!ledger
    OBVIOUS
  <2>1. CASE StartReturns \/ AtRest \/ UNCHANGED vars
    BY <2>1, LedgerStutter DEF StartReturns, AtRest, vars
  <2>2. CASE Cancel
    <3>1. fate' = fate /\ stopped' = stopped /\ stp' = stp /\ ~ctxDone /\ ctxDone'
      BY <2>2 DEF Cancel
    <3>2. Ledger!Abort
      BY <3>1 DEF Ledger!Abort
    <3>3. QED
      BY <3>2 DEF Ledger!Next
  <2>3. QED
    BY <2>1, <2>2, LedgerSubmit, LedgerStop, LedgerWorker DEF Next
<1>3. QED
  BY <1>1, <1>2, Invariance, PTL DEF Spec, KeepsTheLedger, Ledger!Safety
=============================================================================
