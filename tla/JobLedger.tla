----------------------------- MODULE JobLedger ------------------------------
(***************************************************************************)
(* What the worker pool promises to the rest of the bot, without channels, *)
(* locks or goroutines: a job offered to the pool is accepted or refused   *)
(* on the spot; an accepted job is begun and settled once; a shut pool     *)
(* accepts nothing; and the pool reports itself drained only when it owes  *)
(* nothing, or when its owner aborted it.  Dispatcher implements this, see *)
(* DispatcherRefinement.                                                   *)
(***************************************************************************)
CONSTANT Jobs

VARIABLES
  status,   \* what the pool has done with each job
  open,     \* the pool still accepts jobs
  aborted,  \* the context given to Start was cancelled
  drained   \* some Stop has reported that nothing is left

ledger == <<status, open, aborted, drained>>

Owed(j) == status[j] \in {"accepted", "begun"}

Init ==
  /\ status = [j \in Jobs |-> "outside"]
  /\ open = TRUE /\ aborted = FALSE /\ drained = FALSE

Become(j, from, to) ==
  /\ status[j] = from
  /\ status' = [status EXCEPT ![j] = to]
  /\ UNCHANGED <<open, aborted, drained>>

Accept(j) == open /\ Become(j, "outside", "accepted")
Refuse(j) == Become(j, "outside", "refused")
Begin(j)  == Become(j, "accepted", "begun")
Settle(j) == Become(j, "begun", "settled")

Shut  == open /\ open' = FALSE /\ UNCHANGED <<status, aborted, drained>>
Abort == ~aborted /\ aborted' = TRUE /\ UNCHANGED <<status, open, drained>>

ReportDrained ==
  /\ ~open /\ ~drained
  /\ aborted \/ \A j \in Jobs : ~Owed(j)
  /\ drained' = TRUE
  /\ UNCHANGED <<status, open, aborted>>

Next ==
  \/ \E j \in Jobs : Accept(j) \/ Refuse(j) \/ Begin(j) \/ Settle(j)
  \/ Shut \/ Abort \/ ReportDrained

Safety == Init /\ [][Next]_ledger

\* What is owed is settled, unless the pool is aborted.
Promise == \A j \in Jobs : Owed(j) ~> status[j] = "settled" \/ aborted

Spec == Safety /\ Promise
=============================================================================
