----------------------------- MODULE JobContext -----------------------------
(***************************************************************************)
(* The context of a job and the HTTP exchanges made under it: what         *)
(* http.Client, json.Decoder and the timer of defaultSleep do, for the     *)
(* LibreTranslate client and for the wiki client alike.  Time is a number  *)
(* of ticks that advances by the length of each wait.                      *)
(***************************************************************************)
EXTENDS Integers

CONSTANTS
  MaxRetries,  \* LT_MAX_RETRIES, which no validation bounds from below
  LTTimeout,   \* the Timeout of the HTTP client of LibreTranslate, likewise
  WikiRetries, \* WIKI_MAX_RETRIES, not validated either
  WikiTimeout, \* the Timeout of the HTTP client of the wiki
  BackoffBase, \* backoffBase, the same in both clients
  MayCancel    \* whether the parent of the context can be cancelled

ASSUME RetriesInt     == MaxRetries \in Int /\ WikiRetries \in Int
ASSUME TimeoutsInt    == LTTimeout \in Int /\ WikiTimeout \in Int
ASSUME BackoffBasePos == BackoffBase \in Nat \ {0}
ASSUME MayCancelBool  == MayCancel \in BOOLEAN

VARIABLES
  now,       \* the clock
  deadline,  \* of the context of the job
  cancelled  \* the parent of that context was cancelled

(* Errors that are not a status; an error is named for what its caller can *)
(* tell of it.                                                             *)
Transport == {"network", "client_timeout", "expired", "cancelled"}
Bodies    == {"undecodable", "body_timeout"}

(* The errors that wrap context.DeadlineExceeded: net/http says so of its  *)
(* own Timeout as well as of the deadline of the request's context.        *)
IsDeadlineExceeded(e) == e \in {"client_timeout", "expired", "body_timeout"}

JobTimeout == LTTimeout * (1 + MaxRetries)

Expired   == now >= deadline
Later(a, b) == IF a > b THEN a ELSE b
UntilDeadline == Later(deadline - now, 0)

\* Nothing is waited for beyond the deadline.
Waits == 0..Later(JobTimeout, 0)

-----------------------------------------------------------------------------
(* One exchange of at most timeout ticks: it takes d of them and ends with *)
(* o, one of the answers or an error.  A Timeout of zero or less is none.  *)
Within(d, timeout) == timeout > 0 => d <= timeout

\* The server answers, well or not, or the connection fails.
Completes(o, d, timeout, answers) ==
  /\ ~Expired /\ ~cancelled
  /\ o \in answers \cup {"network", "undecodable"}
  /\ Within(d, timeout) /\ now + d <= deadline
  /\ UNCHANGED cancelled

\* The Timeout of the client ends it, before the answer or within its body.
TimesOut(o, d, timeout) ==
  /\ ~Expired /\ ~cancelled
  /\ o \in {"client_timeout", "body_timeout"}
  /\ timeout > 0 /\ d = timeout /\ now + d <= deadline
  /\ UNCHANGED cancelled

\* The deadline of the context does; if it passed before, Do fails at once.
Expires(o, d, timeout) ==
  /\ ~cancelled
  /\ o = "expired" \/ (o = "body_timeout" /\ ~Expired)
  /\ d = UntilDeadline /\ Within(d, timeout)
  /\ UNCHANGED cancelled

\* The parent of the context is cancelled, during the exchange or before.
IsCancelled(o, d, timeout) ==
  /\ o = "cancelled"
  /\ \/ cancelled /\ d = 0
     \/ MayCancel /\ ~Expired /\ Within(d, timeout) /\ now + d <= deadline
  /\ cancelled' = TRUE

Exchange(o, d, timeout, answers) ==
  /\ \/ Completes(o, d, timeout, answers) \/ TimesOut(o, d, timeout)
     \/ Expires(o, d, timeout) \/ IsCancelled(o, d, timeout)
  /\ now' = now + d
  /\ UNCHANGED deadline

(* defaultSleep for one of the delays: the timer fires, or the context     *)
(* ends first with the error e; either when both fall on the same tick.    *)
Sleeps(d, delays) ==
  /\ ~cancelled /\ d \in delays /\ now + d <= deadline
  /\ now' = now + d
  /\ UNCHANGED <<deadline, cancelled>>

SleepCut(e, d, delays) ==
  /\ \/ /\ e = "expired" /\ ~cancelled /\ d = UntilDeadline
        /\ \E delay \in delays : d <= delay
        /\ UNCHANGED cancelled
     \/ /\ e = "cancelled"
        /\ \/ cancelled /\ d = 0
           \/ MayCancel /\ d <= UntilDeadline /\ \E delay \in delays : d <= delay
        /\ cancelled' = TRUE
  /\ now' = now + d
  /\ UNCHANGED deadline
=============================================================================
