----------------------------- MODULE JobProcess -----------------------------
(***************************************************************************)
(* What a worker does with one job: process, processTranslate and          *)
(* processLookup of internal/pipeline/worker_lookup.go, with the outcome   *)
(* they record (worker.go) and the answer they choose (formatter.go,       *)
(* formatter_lookup.go).  The two calls of a translation go through        *)
(* LTClient and a wiki lookup through WikiLookup, under the deadline of    *)
(* the job; the search of an emoji makes no exchange.                      *)
(***************************************************************************)
EXTENDS JobContext, EmojiStore

CONSTANTS
  Langs,          \* the languages the detector can name
  DefaultTarget,  \* Formatter.DefaultTarget
  Pairs,          \* Formatter.Pairs, a sequence of records source, target
  MaxTextLength,  \* Formatter.MaxTextLength, 0 for no limit
  MaxQuery        \* maxLookupQueryRunes

ASSUME PairsSequence == Len(Pairs) \in Nat /\ DOMAIN Pairs = 1..Len(Pairs)

VARIABLES
  phase, attempt, lastErr, result, seen,           \* LTClient
  stage, pausing, tries, several, reply, trail,    \* WikiLookup
  pc,       \* where process is
  job,      \* the command of the job, the length of its argument, whether a
            \* source is configured for it
  lang,     \* the detected language
  ending,   \* the outcome and the answer that are still to be recorded and sent
  started,  \* history: when the context of the job was made
  asked,    \* history: the calls made to LibreTranslate, with their results
  recorded, \* history: the outcomes recorded
  answers,  \* history: the answers handed to the Responder
  emojis,   \* the list of the emoji source, made at boot
  shown     \* the emojis found, and the query

LT   == INSTANCE LTClient
Wiki == INSTANCE WikiLookup

clock  == <<now, cancelled>>
ltCall == <<phase, attempt, lastErr, result, seen>>
look   == <<stage, pausing, tries, several, reply, trail>>
told   == <<recorded, answers>>
given  == <<job, emojis>>
vars   == <<now, deadline, cancelled, phase, attempt, lastErr, result, seen,
            stage, pausing, tries, several, reply, trail, pc, job, lang, ending,
            started, asked, recorded, answers, emojis, shown>>

(* ParseCommand sends an unknown verb, and no verb, to "translate"; "blank" *)
(* is a mention without text.                                               *)
Kinds   == {"translate", "wiki", "emoji", "weather"}
Lengths == {0, 1, MaxQuery, MaxQuery + 1, MaxTextLength, MaxTextLength + 1}
Inputs  == [kind : Kinds, length : Lengths, enabled : BOOLEAN]
             \cup {[kind |-> "blank", length |-> 0, enabled |-> FALSE]}

None == "none"

-----------------------------------------------------------------------------
(* ResolveTarget: the first pair whose source is l, else the default.      *)
ResolveTarget_last(l) ==
  LET matches == {i \in DOMAIN Pairs : Pairs[i].source = l}
  IN  IF matches = {} THEN DefaultTarget
      ELSE Pairs[CHOOSE i \in matches : \A k \in matches : k <= i].target
ResolveTarget(l) ==
  LET matches == {i \in DOMAIN Pairs : Pairs[i].source = l}
  IN  IF matches = {} THEN DefaultTarget
      ELSE Pairs[CHOOSE i \in matches : \A k \in matches : i <= k].target

(* Formatter.TranslateError and errorKind                                  *)
TranslateError(e) ==
  CASE e = "auth"               -> "msg_auth"
    [] e = "bad_request"        -> "msg_unsupported"
    [] IsDeadlineExceeded(e)    -> "msg_timeout"
    [] OTHER                    -> "msg_unavailable"

ErrorKind(e) ==
  CASE e = "auth"                      -> "auth"
    [] e \in LT!Statuses \ {"auth"}    -> "http"
    [] IsDeadlineExceeded(e)           -> "timeout"
    [] OTHER                           -> "network"

(* Formatter.LookupError and lookupErrorKind                               *)
LookupError(e) ==
  CASE e = "rate_limited"       -> "msg_rate_limited"
    [] IsDeadlineExceeded(e)    -> "msg_lookup_timeout"
    [] OTHER                    -> "msg_lookup_unavailable"

LookupErrorKind(e) ==
  CASE e = "rate_limited"                      -> "rate_limited"
    [] e \in Wiki!Statuses \ {"rate_limited"} -> "http"
    [] IsDeadlineExceeded(e)                   -> "timeout"
    [] OTHER                                   -> "network"

-----------------------------------------------------------------------------
Outcome(status, kind) == [status |-> status, kind |-> kind]

Init ==
  /\ LT!Init /\ Wiki!Init
  /\ now = 0 /\ deadline = 0 /\ cancelled = FALSE
  /\ pc = "start" /\ job \in Inputs /\ lang = None
  /\ ending = [record |-> None, answer |-> None] /\ started = 0
  /\ asked = <<>> /\ recorded = <<>> /\ answers = <<>>
  /\ emojis \in {newEmojiStore(order) : order \in Iterations}
  /\ shown = [query |-> None, chars |-> <<>>]

(* Answer without recording an outcome.                                    *)
JustAnswer(answer) ==
  /\ pc' = "reply"
  /\ ending' = [record |-> None, answer |-> answer]

(* recordOutcome or recordLookup, then respond.                            *)
Finish(outcome, answer) ==
  /\ pc' = "record"
  /\ ending' = [record |-> outcome, answer |-> answer]

Fail(e) == Finish(Outcome("error", ErrorKind(e)), TranslateError(e))

\* The context of the job is made, and the clock does not move.
StartContext ==
  /\ started' = now /\ deadline' = now + JobTimeout
  /\ UNCHANGED clock

Help ==
  /\ pc = "start" /\ job.length = 0
  /\ JustAnswer("help")
  /\ UNCHANGED <<clock, deadline, ltCall, look, given, lang, started, asked, told, shown>>

IsLookup == job.kind \in {"wiki", "emoji"}

(* processTranslate up to the call of Detect; every kind that is not a     *)
(* lookup ends here.                                                       *)
TextTooLong ==
  /\ pc = "start" /\ job.length > 0 /\ ~IsLookup
  /\ MaxTextLength > 0 /\ job.length > MaxTextLength
  /\ JustAnswer("text_too_long")
  /\ UNCHANGED <<clock, deadline, ltCall, look, given, lang, started, asked, told, shown>>

StartDetect ==
  /\ pc = "start" /\ job.length > 0 /\ ~IsLookup
  /\ MaxTextLength > 0 => job.length <= MaxTextLength
  /\ pc' = "detect"
  /\ StartContext /\ LT!Begin
  /\ UNCHANGED <<look, given, lang, ending, asked, told, shown>>

(* doJSON at work for Detect or Translate.                                 *)
AskLibreTranslate ==
  /\ pc \in {"detect", "translate"}
  /\ LT!Step
  /\ UNCHANGED <<look, pc, given, lang, ending, started, asked, told, shown>>

Returned(call) == pc = call /\ phase = "returned"
Asked(call, r) == asked' = Append(asked, [call |-> call, result |-> r])

DetectFails ==
  /\ Returned("detect") /\ result # "ok"
  /\ Asked("detect", result) /\ Fail(result)
  /\ UNCHANGED <<clock, deadline, ltCall, look, given, lang, started, told, shown>>

(* An empty list of results is ErrNoDetectionResult.                       *)
DetectNothing ==
  /\ Returned("detect") /\ result = "ok"
  /\ Asked("detect", "no_result") /\ Fail("no_result")
  /\ UNCHANGED <<clock, deadline, ltCall, look, given, lang, started, told, shown>>

\* Some exchange brought a list: one that no attempt was made to fill is empty.
Detected(l) ==
  /\ Returned("detect") /\ result = "ok" /\ seen # <<>>
  /\ lang' = l /\ Asked("detect", "ok")

AlreadyTarget(l) ==
  /\ Detected(l) /\ l = ResolveTarget(l)
  /\ Finish(Outcome("already_target", None), "already_target")
  /\ UNCHANGED <<clock, deadline, ltCall, look, given, started, told, shown>>

StartTranslate_freshBudget(l) ==
  /\ Detected(l) /\ l # ResolveTarget(l)
  /\ pc' = "translate" /\ LT!Begin
  /\ deadline' = now + JobTimeout
  /\ UNCHANGED <<clock, look, given, ending, started, told, shown>>
StartTranslate(l) ==
  /\ Detected(l) /\ l # ResolveTarget(l)
  /\ pc' = "translate" /\ LT!Begin
  /\ UNCHANGED <<clock, deadline, look, given, ending, started, told, shown>>

TranslateReturns_again ==
  /\ Returned("translate")
  /\ IF result = "ok"
       THEN /\ Asked("translate", result) /\ Finish(Outcome("success", None), "translated")
            /\ UNCHANGED ltCall
       ELSE LT!Begin /\ UNCHANGED <<pc, ending, asked>>
  /\ UNCHANGED <<clock, deadline, look, given, lang, started, told, shown>>
TranslateReturns ==
  /\ Returned("translate")
  /\ Asked("translate", result)
  /\ IF result = "ok" THEN Finish(Outcome("success", None), "translated")
                      ELSE Fail(result)
  /\ UNCHANGED <<clock, deadline, ltCall, look, given, lang, started, told, shown>>

-----------------------------------------------------------------------------
(* processLookup                                                           *)
CannotLook ==
  /\ pc = "start" /\ job.length > 0 /\ IsLookup
  /\ ~job.enabled \/ job.length > MaxQuery
  /\ JustAnswer(IF ~job.enabled THEN "disabled" ELSE "query_too_long")
  /\ UNCHANGED <<clock, deadline, ltCall, look, given, lang, started, asked, told, shown>>

StartLook(kind) ==
  /\ pc = "start" /\ job.length > 0 /\ job.kind = kind
  /\ job.enabled /\ job.length <= MaxQuery
  /\ StartContext
  /\ UNCHANGED <<ltCall, given, lang, asked, told>>

StartWiki ==
  /\ StartLook("wiki")
  /\ pc' = "look" /\ Wiki!Begin
  /\ UNCHANGED <<ending, shown>>

AskWiki ==
  /\ pc = "look"
  /\ Wiki!Step
  /\ UNCHANGED <<ltCall, pc, given, lang, ending, started, asked, told, shown>>

\* A NotFoundError ends in success if a page came with it.
WikiReturns_anyNotFound ==
  /\ pc = "look" /\ stage = "over"
  /\ CASE reply.error = "none"      -> Finish(Outcome("success", None), "found")
       [] reply.error = "not_found" -> Finish(Outcome("not_found", "network"), "not_found")
       [] OTHER -> Finish(Outcome("error", LookupErrorKind(reply.error)), LookupError(reply.error))
  /\ UNCHANGED <<clock, deadline, ltCall, look, given, lang, started, asked, told, shown>>
WikiReturns ==
  /\ pc = "look" /\ stage = "over"
  /\ CASE reply.page # "none" ->
            Finish(Outcome("success", None),
                   IF reply.suggests THEN "found_and_suggestions" ELSE "found")
       [] reply.page = "none" /\ reply.error = "not_found" ->
            Finish(Outcome("not_found", "network"),
                   IF reply.suggests THEN "not_found_but" ELSE "not_found")
       [] OTHER ->
            Finish(Outcome("error", LookupErrorKind(reply.error)), LookupError(reply.error))
  /\ UNCHANGED <<clock, deadline, ltCall, look, given, lang, started, asked, told, shown>>

LookEmoji(q) ==
  /\ StartLook("emoji")
  /\ shown' = [query |-> q, chars |-> Look(emojis, q)]
  /\ IF shown'.chars # <<>> THEN Finish(Outcome("success", None), "found")
                            ELSE Finish(Outcome("not_found", "network"), "not_found")
  /\ UNCHANGED look

-----------------------------------------------------------------------------
Record_afterReply ==
  /\ pc = "record" /\ pc' = "reply"
  /\ UNCHANGED <<clock, deadline, ltCall, look, given, lang, ending, started, asked, told, shown>>
Record ==
  /\ pc = "record" /\ pc' = "reply"
  /\ recorded' = Append(recorded, ending.record)
  /\ UNCHANGED <<clock, deadline, ltCall, look, given, lang, ending, started, asked, answers, shown>>

(* respond: an error of SendGroup is logged, and that is all.              *)
Reply_again ==
  /\ pc = "reply"
  /\ \E sent \in BOOLEAN :
       /\ answers' = Append(answers, [answer |-> ending.answer, sent |-> sent])
       /\ pc' = IF sent \/ Len(answers) > 0 THEN "done" ELSE "reply"
  /\ UNCHANGED <<clock, deadline, ltCall, look, given, lang, ending, started, asked, recorded, shown>>
Reply ==
  /\ pc = "reply" /\ pc' = "done"
  /\ \E sent \in BOOLEAN :
       answers' = Append(answers, [answer |-> ending.answer, sent |-> sent])
  /\ UNCHANGED <<clock, deadline, ltCall, look, given, lang, ending, started, asked, recorded, shown>>

AtRest == pc = "done" /\ UNCHANGED vars

Next ==
  \/ Help \/ TextTooLong \/ StartDetect \/ AskLibreTranslate
  \/ DetectFails \/ DetectNothing
  \/ \E l \in Langs : AlreadyTarget(l) \/ StartTranslate(l)
  \/ TranslateReturns
  \/ CannotLook \/ StartWiki \/ AskWiki \/ WikiReturns
  \/ \E q \in Queries : LookEmoji(q)
  \/ Record \/ Reply \/ AtRest

Spec == Init /\ [][Next]_vars

\* The worker goes on, the servers' answers and the timers included.
FairSpec == Spec /\ WF_vars(Next)

-----------------------------------------------------------------------------
TypeOK ==
  /\ now \in Nat /\ deadline \in Int /\ cancelled \in BOOLEAN
  /\ LT!TypeOK /\ Wiki!TypeOK
  /\ pc \in {"start", "detect", "translate", "look", "record", "reply", "done"}
  /\ job \in Inputs /\ lang \in Langs \cup {None} /\ started \in Nat
  /\ Len(recorded) <= 1 /\ Len(asked) <= 2 /\ Len(answers) <= 1

\* A job that ends, without panicking, handed exactly one answer to the room,
\* whichever of the branches it went through and whether it was sent or not:
\* the bot is neither mute nor repeats itself.
AnsweredOnce == pc = "done" => Len(answers) = 1

\* Where the job is for those who see only its event and its answer; a lookup
\* has no event, it only counts for the metrics.
Stage ==
  CASE pc \in {"start", "detect", "translate", "look"} -> "working"
    [] pc = "record" -> IF IsLookup THEN "replying" ELSE "recording"
    [] pc = "reply"  -> "replying"
    [] pc = "done"   -> "returned"

Life == INSTANCE JobLife WITH
          stage   <- Stage,
          events  <- IF IsLookup THEN 0 ELSE Len(recorded),
          answers <- Len(answers)

\* Each step of a job is one that Bot reckons with, or none for it: a translation
\* that asked for something hands one event to the sink before its one answer,
\* and no job comes to its end without an answer or with a second one.
KeepsJobLife == Life!Spec

\* The answer a goes with the recorded outcome o.
Tells(o, a) ==
  \/ o.status = "success"        /\ a \in {"translated", "found", "found_and_suggestions"}
  \/ o.status = "already_target" /\ a = "already_target"
  \/ o.status = "not_found"      /\ a \in {"not_found", "not_found_but"}
  \/ /\ o.status = "error"
     /\ \/ o.kind = "auth"         /\ a = "msg_auth"
        \/ o.kind = "http"         /\ a \in {"msg_unsupported", "msg_unavailable",
                                             "msg_lookup_unavailable"}
        \/ o.kind = "rate_limited" /\ a = "msg_rate_limited"
        \/ o.kind = "timeout"      /\ a \in {"msg_timeout", "msg_lookup_timeout"}
        \/ o.kind = "network"      /\ a \in {"msg_unavailable", "msg_lookup_unavailable"}

\* The metrics and the room hear the same story: an outcome is recorded
\* before the answer it goes with, once, and only when a source was asked.
MetricsAgree ==
  pc = "done" =>
    LET a == answers[1].answer
    IN  IF a \in {"help", "text_too_long", "disabled", "query_too_long"}
          THEN recorded = <<>>
          ELSE Len(recorded) = 1 /\ Tells(recorded[1], a)

\* l is its own target: that of the first pair that names it, as the comment on
\* ResolveTarget says, and the default only when none does.
OwnTarget(l) ==
  \/ \E i \in DOMAIN Pairs : /\ Pairs[i].source = l /\ Pairs[i].target = l
                             /\ \A k \in 1..(i - 1) : Pairs[k].source # l
  \/ l = DefaultTarget /\ \A i \in DOMAIN Pairs : Pairs[i].source # l

\* A translation is announced only when both calls succeeded, in that order, by
\* what LibreTranslate last said to each, and a text is left alone exactly when
\* it is in its target language.
TranslatedForReal ==
  /\ LT!ReturnsTheLast
  /\ pc = "done" =>
       /\ answers[1].answer = "translated" =>
            asked = <<[call |-> "detect", result |-> "ok"],
                      [call |-> "translate", result |-> "ok"]>>
       /\ lang # None => (answers[1].answer = "already_target" <=> OwnTarget(lang))

\* Everything a job asks shares one budget, detection and translation or the
\* three gets of a lookup: it is done within JobTimeout of the moment it began,
\* and waits for nothing if negative retries leave it none.
SharedBudget == now <= started + Later(JobTimeout, 0)

\* What the two clients retry, and how often, is what their comments say: see
\* LTClient and WikiLookup.
RetriesAsTold == LT!RetriesAsTold /\ Wiki!RetriesAsTold

\* "Not found" is the wiki's own word, and what is shown is what it last sent,
\* with the alternatives it had: see WikiLookup.
NotFoundIsTheWikis == Wiki!NotFoundIsTheWikis
WikiAnswerIsWhole ==
  /\ Wiki!PageIsTheLastOne
  /\ pc = "done" /\ stage = "over" =>
       /\ reply.page # "none" <=> answers[1].answer \in {"found", "found_and_suggestions"}
       /\ reply.suggests <=> answers[1].answer \in {"found_and_suggestions", "not_found_but"}

\* The emojis shown are the best of the dataset, in order, whatever order the
\* map of the JSON was walked in: the same question has the same answer after
\* every restart, and "not found" is the answer only when nothing matches.
EmojisAreTheBest ==
  shown.query # None =>
    /\ IsBest(shown.chars, shown.query)
    /\ pc = "done" => (answers[1].answer = "found" <=> Matching(shown.query) # {})

\* A job whose deadline passed while it was with LibreTranslate says so.
ExpiredMeansTimeout ==
  pc = "done" /\ answers[1].answer \in {"msg_unavailable", "msg_unsupported", "msg_auth"}
    => now < deadline

\* A job comes to its end, whatever LibreTranslate does: the worker is never
\* lost to it.
JobEnds == <>(pc = "done")
=============================================================================
