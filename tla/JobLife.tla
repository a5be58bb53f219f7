------------------------------ MODULE JobLife -------------------------------
(***************************************************************************)
(* One job in the hands of a worker, as the rest of the process sees it:   *)
(* runJob of internal/pipeline/worker.go without commands, sources or      *)
(* clocks.  A translation that asked for something hands an event to the   *)
(* metrics sink and is then answered; every other job is only answered; a  *)
(* panic, in process or in the sink, ends it without an answer.            *)
(* JobProcess implements this, and so does each job of Bot.                *)
(***************************************************************************)
EXTENDS Naturals

VARIABLES
  stage,    \* where the job is
  events,   \* how many events it handed to the sink
  answers   \* how many answers it handed to the Responder

life == <<stage, events, answers>>

Init == stage = "working" /\ events = 0 /\ answers = 0

Work ==
  /\ stage = "working" /\ stage' \in {"recording", "replying", "panicked"}
  /\ UNCHANGED <<events, answers>>

Record ==
  /\ stage = "recording" /\ stage' \in {"replying", "panicked"}
  /\ events' = events + 1 /\ UNCHANGED answers

Reply ==
  /\ stage = "replying" /\ stage' = "returned"
  /\ answers' = answers + 1 /\ UNCHANGED events

Next == Work \/ Record \/ Reply

Spec == Init /\ [][Next]_life
=============================================================================
