------------------------ MODULE DispatcherRefinement ------------------------
(***************************************************************************)
(* Dispatcher implements JobLedger.  A job is accepted when it enters the  *)
(* channel or the hands of a worker, begun when runJob starts, settled     *)
(* when runJob's deferred calls have run.                                  *)
(***************************************************************************)
EXTENDS Dispatcher

StatusOf(f) ==
  CASE f \in {"new", "submitting"}      -> "outside"
    [] f \in {"rejected", "dropped"}    -> "refused"
    [] f \in {"queued", "held"}         -> "accepted"
    [] f = "running"                    -> "begun"
    [] f \in {"answered", "panicked"}   -> "settled"

Ledger == INSTANCE JobLedger WITH
            status  <- [j \in Jobs |-> StatusOf(fate[j])],
            open    <- ~stopped,
            aborted <- ctxDone,
            drained <- \E p \in Stoppers : stp[p] = "drained"

\* Every step of the pool is a step of the ledger or none at all. The hard
\* step is the report that ends Stop: that nothing is owed at that moment
\* depends on the closed channel, the exit of every worker and the WaitGroup.
KeepsTheLedger == Ledger!Safety

\* An accepted job is answered or panics, before and during a graceful stop,
\* unless the context is cancelled; provided jobs end, as JobTimeout makes
\* them.
SettlesWhatItOwes == JobFairness => Ledger!Promise
=============================================================================
