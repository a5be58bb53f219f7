------------------------------ MODULE LTClient ------------------------------
(***************************************************************************)
(* One call of the LibreTranslate client at a time: doJSON, doOnce and the *)
(* backoff of internal/translate/libretranslate.go, under the context of   *)
(* the job that its two calls share.                                       *)
(***************************************************************************)
EXTENDS JobContext, Sequences

VARIABLES
  phase,     \* where doJSON is
  attempt,   \* its loop variable
  lastErr,   \* its lastErr
  result,    \* what the call returned: "ok" or an error
  seen       \* history: how each exchange of the call ended

call == <<phase, attempt, lastErr, result, seen>>

Phases == {"idle", "trying", "backoff", "returned"}

Statuses == {"bad_request", "auth", "other_status", "rate_limited", "server"}
Errors   == Statuses \cup Transport \cup Bodies

(* isRetryableStatus, and the `true' doOnce returns when Do fails.         *)
Retryable_anyStatus(e) == e \in Statuses \cup Transport
Retryable(e) == e \in {"rate_limited", "server"} \cup Transport

Attempts == 1 + MaxRetries

-----------------------------------------------------------------------------
Init ==
  /\ phase = "idle" /\ attempt = 0
  /\ lastErr = "none" /\ result = "none" /\ seen = <<>>

(* doJSON up to its loop: with no attempt to make it returns lastErr, which *)
(* is nil.                                                                  *)
Begin ==
  /\ phase' = IF Attempts >= 1 THEN "trying" ELSE "returned"
  /\ result' = IF Attempts >= 1 THEN "none" ELSE "ok"
  /\ attempt' = 1 /\ lastErr' = "none" /\ seen' = <<>>

Return(r) == phase' = "returned" /\ result' = r

(* What the loop makes of an exchange that ended with o.                   *)
Conclude(o) ==
  /\ seen' = Append(seen, o)
  /\ lastErr' = IF o = "ok" THEN lastErr ELSE o
  /\ IF o = "ok" \/ ~Retryable(o) \/ attempt >= Attempts
       THEN Return(o) /\ UNCHANGED attempt
       ELSE phase' = "backoff" /\ attempt' = attempt + 1 /\ UNCHANGED result

DoOnce(o, d) ==
  /\ phase = "trying"
  /\ Exchange(o, d, LTTimeout, {"ok"} \cup Statuses)
  /\ Conclude(o)

(* backoffDelay(attempt - 2), with its jitter of a fifth either way.       *)
Delays ==
  LET base == BackoffBase * 2 ^ (attempt - 2)
  IN  (4 * base) \div 5 .. (6 * base) \div 5

BackOff(d) ==
  /\ phase = "backoff" /\ Sleeps(d, Delays)
  /\ phase' = "trying"
  /\ UNCHANGED <<attempt, lastErr, result, seen>>

\* The error of the context is dropped in favour of the last failure.
BackOffCut(e, d) ==
  /\ phase = "backoff" /\ SleepCut(e, d, Delays)
  /\ Return(lastErr)
  /\ UNCHANGED <<attempt, lastErr, seen>>

Step ==
  \E d \in Waits : \/ \E o \in Errors \cup {"ok"} : DoOnce(o, d)
                   \/ BackOff(d)
                   \/ \E e \in {"expired", "cancelled"} : BackOffCut(e, d)

-----------------------------------------------------------------------------
TypeOK ==
  /\ phase \in Phases /\ attempt \in Nat
  /\ lastErr \in Errors \cup {"none"}
  /\ result \in Errors \cup {"none", "ok"}
  /\ seen \in Seq(Errors \cup {"ok"})

\* doJSON retries what its comment says, and gives up when it says: a call ends
\* with a timeout, a refused connection, a 429 or a 5xx only when MaxRetries are
\* used up or the context of the job ended, it never makes more, and a 400, a
\* 401, a 403 or what else is not transient is its last exchange. Of a timeout
\* that falls within a body, which the code gives up, this says nothing.
RetriesAsTold ==
  /\ Len(seen) <= Later(1 + MaxRetries, 0)
  /\ \A i \in 1..Len(seen) - 1 :
       seen[i] \notin {"bad_request", "auth", "other_status", "undecodable"}
  /\ phase = "returned" /\ result \in {"client_timeout", "network", "rate_limited", "server"}
       => Len(seen) >= 1 + MaxRetries \/ Expired \/ cancelled

\* What a call returns is how its last exchange ended, a backoff cut short
\* included: a success is LibreTranslate's own, unless negative retries leave no
\* exchange to make.
ReturnsTheLast ==
  MaxRetries >= 0 /\ phase = "returned" => seen # <<>> /\ result = seen[Len(seen)]
=============================================================================
