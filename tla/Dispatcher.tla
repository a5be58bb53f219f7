----------------------------- MODULE Dispatcher -----------------------------
(***************************************************************************)
(* The worker pool of internal/pipeline/worker.go: Submit offers a job to  *)
(* a bounded channel without ever blocking, Start runs a fixed number of   *)
(* workers over that channel, runJob isolates a job from its worker, and   *)
(* Stop closes the channel and waits, up to a deadline, for the workers to *)
(* drain it.                                                               *)
(*                                                                         *)
(* Go's primitives are modelled by what they do:                           *)
(*   - the buffered channel is `jobs' plus `closed'; a worker blocked in   *)
(*     its select is "parked", and a send meets a parked receiver before   *)
(*     it looks at the buffer (this is all there is when QueueSize = 0);   *)
(*   - sync.RWMutex is `readers' plus `writer': Lock first announces       *)
(*     itself, which keeps new readers out, then waits for the old ones;   *)
(*   - sync.WaitGroup is the counter `wg', the done channel is `done'.     *)
(*                                                                         *)
(* What a job does while it runs is the subject of JobProcess; here it   *)
(* either returns or panics.                                               *)
(***************************************************************************)
EXTENDS Integers, Sequences, FiniteSets

CONSTANTS
  Jobs,        \* the TranslationJobs offered to the pool, each by one Submit
  Submitters,  \* goroutines that call Submit (main runs one, dispatchIncoming)
  Workers,     \* the worker goroutines, cfg.Workers of them (0 is accepted)
  Stoppers,    \* the calls of Stop
  QueueSize,   \* cfg.QueueSize, the capacity of the channel (0 is accepted)
  MayCancel,   \* whether the context given to Start can be cancelled
  NoJob,       \* no job in hand
  NoProc       \* nobody owns the writer side of the mutex

ASSUME WorkersFinite == IsFiniteSet(Workers)
ASSUME QueueSizeNat  == QueueSize \in Nat
ASSUME MayCancelBool == MayCancel \in BOOLEAN
ASSUME NoJobIsNone   == NoJob \notin Jobs
ASSUME NoProcIsNone  == NoProc \notin Stoppers
ASSUME ActorsDiffer  == Submitters \cap Workers = {}

VARIABLES
  jobs,     \* d.jobs: the jobs buffered in the channel
  closed,   \* d.jobs has been closed
  stopped,  \* d.stopped
  readers,  \* d.mu: who holds RLock
  writer,   \* d.mu: who has announced or holds Lock
  wg,       \* d.wg
  done,     \* d.done has been closed
  ctxDone,  \* the context given to Start is cancelled
  sub,      \* program counter of each Submitter
  wkr,      \* program counter of each Worker
  stp,      \* program counter of each Stopper
  carry,    \* the job in the hands of a Submitter or a Worker
  active,   \* the gauge WorkerPoolActive
  dropped,  \* the counter QueueDroppedTotal
  fate,     \* history: how far each job got
  arrival,  \* history: the jobs the pool accepted, in order
  taken     \* history: the jobs the workers received, in order

chan  == <<jobs, closed>>
mutex == <<readers, writer>>
sync  == <<wg, done, ctxDone>>
hist  == <<arrival, taken>>
meter == <<active, dropped>>
vars  == <<jobs, closed, stopped, readers, writer, wg, done, ctxDone, sub, wkr,
           stp, carry, active, dropped, fate, arrival, taken>>

SubmitterStates == {"idle", "rlocked", "sending", "leaving"}
WorkerStates    == {"unborn", "ready", "parked", "holding", "running", "exited"}
StopperStates   == {"idle", "announced", "locked", "closing", "unlocking",
                    "waiting", "drained", "timedout", "ignored"}
Fates == {"new", "submitting", "rejected", "dropped", "queued", "held",
          "running", "answered", "panicked"}

-----------------------------------------------------------------------------
(* NewDispatcher *)
Init ==
  /\ jobs = <<>> /\ closed = FALSE /\ stopped = FALSE
  /\ readers = {} /\ writer = NoProc
  /\ wg = 0 /\ done = FALSE /\ ctxDone = FALSE
  /\ sub = [s \in Submitters |-> "idle"]
  /\ wkr = [w \in Workers |-> "unborn"]
  /\ stp = [p \in Stoppers |-> "idle"]
  /\ carry = [a \in Submitters \cup Workers |-> NoJob]
  /\ active = 0 /\ dropped = 0
  /\ fate = [j \in Jobs |-> "new"]
  /\ arrival = <<>> /\ taken = <<>>

-----------------------------------------------------------------------------
(* Submit: RLock, look at stopped, offer the job, RUnlock. *)

\* A reader gets in unless a writer has announced itself.
ReadersAdmitted == writer = NoProc

SubmitRLock(s, j) ==
  /\ sub[s] = "idle" /\ fate[j] = "new"
  /\ ReadersAdmitted
  /\ readers' = readers \cup {s}
  /\ sub' = [sub EXCEPT ![s] = "rlocked"]
  /\ carry' = [carry EXCEPT ![s] = j]
  /\ fate' = [fate EXCEPT ![j] = "submitting"]
  /\ UNCHANGED <<chan, stopped, writer, sync, wkr, stp, meter, hist>>

\* s gives up the job it was submitting, which ends as f says.
LetGo(s, f) ==
  /\ sub' = [sub EXCEPT ![s] = "leaving"]
  /\ carry' = [carry EXCEPT ![s] = NoJob]
  /\ fate' = [fate EXCEPT ![carry[s]] = f]

SubmitReject(s) ==
  /\ sub[s] = "rlocked" /\ stopped
  /\ LetGo(s, "rejected")
  /\ UNCHANGED <<chan, stopped, mutex, sync, wkr, stp, meter, hist>>

SubmitPass(s) ==
  /\ sub[s] = "rlocked" /\ ~stopped
  /\ sub' = [sub EXCEPT ![s] = "sending"]
  /\ UNCHANGED <<chan, stopped, mutex, sync, wkr, stp, carry, meter, fate, hist>>

\* Receivers blocked in the select of worker; a cancelled context has already
\* claimed them.
Receivers_ready ==
  IF ctxDone THEN {} ELSE {w \in Workers : wkr[w] \in {"ready", "parked"}}
Receivers == IF ctxDone THEN {} ELSE {w \in Workers : wkr[w] = "parked"}

SubmitHandOff(s, w) ==
  /\ sub[s] = "sending" /\ w \in Receivers
  /\ sub' = [sub EXCEPT ![s] = "leaving"]
  /\ wkr' = [wkr EXCEPT ![w] = "holding"]
  /\ carry' = [carry EXCEPT ![s] = NoJob, ![w] = carry[s]]
  /\ fate' = [fate EXCEPT ![carry[s]] = "held"]
  /\ arrival' = Append(arrival, carry[s])
  /\ taken' = Append(taken, carry[s])
  /\ UNCHANGED <<chan, stopped, mutex, sync, stp, meter>>

HasRoom_offByOne == Len(jobs) <= QueueSize
HasRoom == Len(jobs) < QueueSize

SubmitEnqueue(s) ==
  /\ sub[s] = "sending" /\ Receivers = {} /\ HasRoom
  /\ jobs' = Append(jobs, carry[s])
  /\ LetGo(s, "queued")
  /\ arrival' = Append(arrival, carry[s])
  /\ UNCHANGED <<closed, stopped, mutex, sync, wkr, stp, meter, taken>>

SubmitDrop(s) ==
  /\ sub[s] = "sending" /\ Receivers = {} /\ ~HasRoom
  /\ LetGo(s, "dropped")
  /\ dropped' = dropped + 1
  /\ UNCHANGED <<chan, stopped, mutex, sync, wkr, stp, active, hist>>

SubmitRUnlock(s) ==
  /\ sub[s] = "leaving"
  /\ readers' = readers \ {s}
  /\ sub' = [sub EXCEPT ![s] = "idle"]
  /\ UNCHANGED <<chan, stopped, writer, sync, wkr, stp, carry, meter, fate, hist>>

-----------------------------------------------------------------------------
(* Stop: Lock, mark and close unless that was done before, Unlock, then    *)
(* wait for done or for the drain deadline.                                *)

MoveStopper(p, from, to) ==
  /\ stp[p] = from
  /\ stp' = [stp EXCEPT ![p] = to]

StopAnnounce(p) ==
  /\ MoveStopper(p, "idle", "announced")
  /\ writer = NoProc
  /\ writer' = p
  /\ UNCHANGED <<chan, stopped, readers, sync, sub, wkr, carry, meter, fate, hist>>

StopLock_impatient(p) ==
  /\ MoveStopper(p, "announced", "locked")
  /\ UNCHANGED <<chan, stopped, mutex, sync, sub, wkr, carry, meter, fate, hist>>
StopLock(p) ==
  /\ MoveStopper(p, "announced", "locked")
  /\ readers = {}
  /\ UNCHANGED <<chan, stopped, mutex, sync, sub, wkr, carry, meter, fate, hist>>

\* A second call finds stopped set, unlocks and returns at once.
StopAgain(p) ==
  /\ MoveStopper(p, "locked", "ignored")
  /\ stopped
  /\ writer' = NoProc
  /\ UNCHANGED <<chan, stopped, readers, sync, sub, wkr, carry, meter, fate, hist>>

StopMark(p) ==
  /\ MoveStopper(p, "locked", "closing")
  /\ ~stopped
  /\ stopped' = TRUE
  /\ UNCHANGED <<chan, mutex, sync, sub, wkr, carry, meter, fate, hist>>

StopClose(p) ==
  /\ MoveStopper(p, "closing", "unlocking")
  /\ closed' = TRUE
  /\ UNCHANGED <<jobs, stopped, mutex, sync, sub, wkr, carry, meter, fate, hist>>

StopUnlock(p) ==
  /\ MoveStopper(p, "unlocking", "waiting")
  /\ writer' = NoProc
  /\ UNCHANGED <<chan, stopped, readers, sync, sub, wkr, carry, meter, fate, hist>>

StopDrained(p) ==
  /\ MoveStopper(p, "waiting", "drained")
  /\ done
  /\ UNCHANGED <<chan, stopped, mutex, sync, sub, wkr, carry, meter, fate, hist>>

\* time.After(drainTimeout) fires; nothing orders it with respect to the jobs.
StopTimeout_never(p) == FALSE /\ stp[p] = "waiting" /\ UNCHANGED vars
StopTimeout(p) ==
  /\ MoveStopper(p, "waiting", "timedout")
  /\ UNCHANGED <<chan, stopped, mutex, sync, sub, wkr, carry, meter, fate, hist>>

-----------------------------------------------------------------------------
(* Start: one wg.Add per worker, then Wait, then close(done). *)

Spawn_uncounted(w) ==
  /\ wkr[w] = "unborn"
  /\ wkr' = [wkr EXCEPT ![w] = "ready"]
  /\ wg' = IF wg = 0 THEN 1 ELSE wg
  /\ UNCHANGED <<chan, stopped, mutex, done, ctxDone, sub, stp, carry, meter,
                 fate, hist>>
Spawn(w) ==
  /\ wkr[w] = "unborn"
  /\ wkr' = [wkr EXCEPT ![w] = "ready"]
  /\ wg' = wg + 1
  /\ UNCHANGED <<chan, stopped, mutex, done, ctxDone, sub, stp, carry, meter,
                 fate, hist>>

StartReturns ==
  /\ ~done /\ wg = 0
  /\ \A w \in Workers : wkr[w] # "unborn"
  /\ done' = TRUE
  /\ UNCHANGED <<chan, stopped, mutex, wg, ctxDone, sub, wkr, stp, carry, meter,
                 fate, hist>>

\* The owner of the context given to Start cancels it.
Cancel ==
  /\ MayCancel /\ ~ctxDone
  /\ ctxDone' = TRUE
  /\ UNCHANGED <<chan, stopped, mutex, wg, done, sub, wkr, stp, carry, meter,
                 fate, hist>>

-----------------------------------------------------------------------------
(* worker and runJob. With a cancelled context and a job in the channel    *)
(* both cases of the select are ready and Go picks either.                 *)

Take(w) ==
  /\ wkr[w] = "ready" /\ jobs # <<>>
  /\ jobs' = Tail(jobs)
  /\ wkr' = [wkr EXCEPT ![w] = "holding"]
  /\ carry' = [carry EXCEPT ![w] = Head(jobs)]
  /\ fate' = [fate EXCEPT ![Head(jobs)] = "held"]
  /\ taken' = Append(taken, Head(jobs))
  /\ UNCHANGED <<closed, stopped, mutex, sync, sub, stp, meter, arrival>>

Park(w) ==
  /\ wkr[w] = "ready" /\ jobs = <<>> /\ ~closed /\ ~ctxDone
  /\ wkr' = [wkr EXCEPT ![w] = "parked"]
  /\ UNCHANGED <<chan, stopped, mutex, sync, sub, stp, carry, meter, fate, hist>>

\* The select of w may take a case that returns.
MayQuit_eager(w) == ctxDone \/ closed
MayQuit(w) == ctxDone \/ (closed /\ jobs = <<>>)

Quit_undone(w) ==
  /\ wkr[w] \in {"ready", "parked"} /\ MayQuit(w)
  /\ wkr' = [wkr EXCEPT ![w] = "exited"]
  /\ UNCHANGED <<chan, stopped, mutex, sync, sub, stp, carry, meter, fate, hist>>
Quit(w) ==
  /\ wkr[w] \in {"ready", "parked"} /\ MayQuit(w)
  /\ wkr' = [wkr EXCEPT ![w] = "exited"]
  /\ wg' = wg - 1
  /\ UNCHANGED <<chan, stopped, mutex, done, ctxDone, sub, stp, carry, meter,
                 fate, hist>>

RunJob(w) ==
  /\ wkr[w] = "holding"
  /\ wkr' = [wkr EXCEPT ![w] = "running"]
  /\ active' = active + 1
  /\ fate' = [fate EXCEPT ![carry[w]] = "running"]
  /\ UNCHANGED <<chan, stopped, mutex, sync, sub, stp, carry, dropped, hist>>

\* The deferred calls of runJob, on return and on panic alike.
Unwind(w, f) ==
  /\ wkr[w] = "running"
  /\ wkr' = [wkr EXCEPT ![w] = "ready"]
  /\ active' = active - 1
  /\ carry' = [carry EXCEPT ![w] = NoJob]
  /\ fate' = [fate EXCEPT ![carry[w]] = f]
  /\ UNCHANGED <<chan, stopped, mutex, sync, sub, stp, dropped, hist>>

JobReturns(w) == Unwind(w, "answered")

JobPanics_unrecovered(w) ==
  /\ wkr[w] = "running"
  /\ wkr' = [wkr EXCEPT ![w] = "exited"]
  /\ wg' = wg - 1
  /\ active' = active - 1
  /\ carry' = [carry EXCEPT ![w] = NoJob]
  /\ fate' = [fate EXCEPT ![carry[w]] = "panicked"]
  /\ UNCHANGED <<chan, stopped, mutex, done, ctxDone, sub, stp, dropped, hist>>
JobPanics_leakyGauge(w) ==
  /\ wkr[w] = "running"
  /\ wkr' = [wkr EXCEPT ![w] = "ready"]
  /\ carry' = [carry EXCEPT ![w] = NoJob]
  /\ fate' = [fate EXCEPT ![carry[w]] = "panicked"]
  /\ UNCHANGED <<chan, stopped, mutex, sync, sub, stp, meter, hist>>
JobPanics(w) == Unwind(w, "panicked")

-----------------------------------------------------------------------------
Submit(s) ==
  \/ \E j \in Jobs : SubmitRLock(s, j)
  \/ SubmitReject(s)
  \/ SubmitPass(s)
  \/ \E w \in Workers : SubmitHandOff(s, w)
  \/ SubmitEnqueue(s)
  \/ SubmitDrop(s)
  \/ SubmitRUnlock(s)

Stop(p) ==
  \/ StopAnnounce(p) \/ StopLock(p) \/ StopAgain(p) \/ StopMark(p)
  \/ StopClose(p) \/ StopUnlock(p) \/ StopDrained(p) \/ StopTimeout(p)

Worker(w) ==
  \/ Spawn(w) \/ Take(w) \/ Park(w) \/ Quit(w)
  \/ RunJob(w) \/ JobReturns(w) \/ JobPanics(w)

\* Nothing is left to do: the deadlock check sees every other stuck state.
AtRest ==
  /\ done
  /\ \A s \in Submitters : sub[s] = "idle"
  /\ \A p \in Stoppers : stp[p] \in {"drained", "timedout", "ignored"}
  /\ \A j \in Jobs : fate[j] # "new"
  /\ UNCHANGED vars

Next ==
  \/ \E s \in Submitters : Submit(s)
  \/ \E p \in Stoppers : Stop(p)
  \/ \E w \in Workers : Worker(w)
  \/ StartReturns
  \/ Cancel
  \/ AtRest

Spec == Init /\ [][Next]_vars

\* Goroutines that can run do run. A call of Submit or Stop may never come,
\* a job may never end and the context may never be cancelled; a call that
\* has begun goes on, and the drain timer fires.
SubmitStep(s) == Submit(s) /\ sub[s] # "idle"
StopStep(p)   == Stop(p) /\ stp[p] # "idle"
WorkerStep(w) == Spawn(w) \/ Take(w) \/ Park(w) \/ Quit(w) \/ RunJob(w)

SchedulerFairness ==
  /\ \A s \in Submitters : WF_vars(SubmitStep(s))
  /\ \A p \in Stoppers : WF_vars(StopStep(p))
  /\ \A w \in Workers : WF_vars(WorkerStep(w))
  /\ WF_vars(StartReturns)

FairSpec == Spec /\ SchedulerFairness

\* Every job is bounded by its own JobTimeout, so it returns or panics. FairSpec
\* does without it; the properties that need it say so.
JobFairness == \A w \in Workers : WF_vars(JobReturns(w) \/ JobPanics(w))

-----------------------------------------------------------------------------
(* Safety *)

Queued  == {jobs[i] : i \in DOMAIN jobs}
Settled == {"answered", "panicked"}

\* Every variable keeps the type of the Go value it stands for.
TypeOK ==
  /\ jobs \in Seq(Jobs)
  /\ closed \in BOOLEAN /\ stopped \in BOOLEAN
  /\ readers \in SUBSET Submitters /\ writer \in Stoppers \cup {NoProc}
  /\ wg \in Nat /\ done \in BOOLEAN /\ ctxDone \in BOOLEAN
  /\ sub \in [Submitters -> SubmitterStates]
  /\ wkr \in [Workers -> WorkerStates]
  /\ stp \in [Stoppers -> StopperStates]
  /\ carry \in [Submitters \cup Workers -> Jobs \cup {NoJob}]
  /\ active \in Nat /\ dropped \in Nat
  /\ fate \in [Jobs -> Fates]
  /\ arrival \in Seq(Jobs) /\ taken \in Seq(Jobs)

\* Nobody is about to send on the closed channel, and nobody is about to close
\* it again: either would panic in a goroutine that recovers from nothing. The
\* comment on d.mu promises the first, `if d.stopped' in Stop the second.
ChannelUsedSafely ==
  /\ \A s \in Submitters : sub[s] = "sending" => ~closed
  /\ \A p \in Stoppers : stp[p] = "closing" => ~closed

\* The jobs the workers received, then those still buffered, are exactly the
\* jobs the pool accepted, in order: none lost, doubled or overtaken between
\* Submit and worker.
FirstInFirstOut == arrival = taken \o jobs

\* A job is in one place, and the place agrees with how far it got: buffered
\* once, carried by one goroutine, or settled; so no job runs twice.
OnePlace ==
  /\ \A i, k \in DOMAIN jobs : i # k => jobs[i] # jobs[k]
  /\ \A j \in Jobs : (fate[j] = "queued") <=> (j \in Queued)
  /\ \A a, b \in Submitters \cup Workers :
       carry[a] # NoJob /\ carry[a] = carry[b] => a = b
  /\ \A w \in Workers : CASE wkr[w] = "holding" -> fate[carry[w]] = "held"
                          [] wkr[w] = "running" -> fate[carry[w]] = "running"
                          [] OTHER -> carry[w] = NoJob

\* The pool never owes more answers than the channel and the workers can hold:
\* what bounds the memory of the bot however fast the rooms talk.
Backpressure ==
  Cardinality({j \in Jobs : fate[j] \in {"queued", "held", "running"}})
    <= QueueSize + Cardinality(Workers)

\* The gauge of busy workers counts the jobs being run and comes back down
\* when a job panics.
GaugeIsHonest == active = Cardinality({j \in Jobs : fate[j] = "running"})

\* Whatever the jobs do, a worker is lost only to a cancelled context or to a
\* closed and empty channel: a panic never shrinks the pool.
PoolKeepsItsWorkers ==
  \A w \in Workers : wkr[w] = "exited" => ctxDone \/ (closed /\ jobs = <<>>)

\* done is closed only after the last worker has left, and no worker is
\* spawned after that: the misuse of WaitGroup the comment on done excludes.
DoneMeansGone == done => \A w \in Workers : wkr[w] = "exited"

\* A Stop that returned because the pool drained, and not because time ran
\* out, left no accepted job behind unless the context was cancelled.
DrainedMeansSettled ==
  \A p \in Stoppers :
    stp[p] = "drained" /\ ~ctxDone =>
      \A i \in DOMAIN arrival : fate[arrival[i]] \in Settled

\* Once stopped is set no job is accepted, whatever Submits were under way
\* when Stop came.
NothingAcceptedAfterStop == [][stopped => arrival' = arrival]_vars

-----------------------------------------------------------------------------
(* Liveness *)

\* Neither Submit nor Stop waits for a job or for a full queue, even when every
\* job that runs is stuck and the pool is being stopped.
CallsReturn ==
  /\ \A s \in Submitters : sub[s] # "idle" ~> sub[s] = "idle"
  /\ \A p \in Stoppers :
       stp[p] = "announced" ~> stp[p] \in {"drained", "timedout", "ignored"}

\* When jobs end, closing the channel or cancelling the context ends Start.
StartEnds == JobFairness => (closed \/ ctxDone ~> done)
=============================================================================
