----------------------------- MODULE WikiLookup -----------------------------
(***************************************************************************)
(* One Look of the wiki source at a time: MediaWiki.Look of                *)
(* internal/lookup/mediawiki.go over the retrying get of httpjson.go.  Up  *)
(* to three gets, the page by its title, the search, the page of the first *)
(* hit, share the context of the job.                                      *)
(***************************************************************************)
EXTENDS JobContext, Sequences

VARIABLES
  stage,    \* which get Look is in, "idle" before and "over" after
  pausing,  \* get is asleep before another attempt
  tries,    \* history: how the attempts of this get ended that were repeated
  several,  \* the search found more than one page
  reply,    \* what Look returned
  trail     \* history: how each get ended

look == <<stage, pausing, tries, several, reply, trail>>

Stages == {"title", "search", "first"}

(* What a 200 can carry: a page with an extract, a disambiguation, a page  *)
(* without extract; a list of hits.                                        *)
Summaries == {"article", "disambiguation", "bare"}
Hits      == {"no_page", "one_page", "pages"}
Statuses  == {"missing", "other_status", "rate_limited", "server"}
Errors    == Statuses \cup Transport \cup Bodies

Answers(s) == Statuses \cup (IF s = "search" THEN Hits ELSE Summaries)

(* isRetryable: a body that cannot be decoded is no HTTPError and no end   *)
(* of the context, so it passes for an error of transport.                 *)
Retryable_not429(e) == e \in {"server", "network", "undecodable"}
Retryable(e) == e \in {"rate_limited", "server", "network", "undecodable"}

NoReply == [page |-> "none", error |-> "none", suggests |-> FALSE]
Reply(page, error, suggests) == [page |-> page, error |-> error, suggests |-> suggests]

-----------------------------------------------------------------------------
Init ==
  /\ stage = "idle" /\ pausing = FALSE /\ tries = <<>> /\ several = FALSE
  /\ reply = NoReply /\ trail = <<>>

Get(s) == stage' = s /\ pausing' = FALSE /\ tries' = <<>>

Return(r) ==
  /\ stage' = "over" /\ pausing' = FALSE /\ reply' = r
  /\ UNCHANGED <<tries, several>>

(* With no attempt to make, a get returns nil and nothing decoded: no      *)
(* extract, then no page.                                                  *)
Begin ==
  /\ several' = FALSE /\ trail' = <<>>
  /\ IF WikiRetries >= 0
       THEN Get("title") /\ reply' = NoReply
       ELSE Get("over") /\ reply' = Reply("none", "not_found", FALSE)

(* What Look does when a get ends with o.                                  *)
TitleEnds_anyStatus(o) ==
  CASE o = "article"                        -> Return(Reply("article", "none", FALSE))
    [] o \in Statuses \cup {"disambiguation", "bare"} -> Get("search") /\ UNCHANGED <<several, reply>>
    [] OTHER                                -> Return(Reply("none", o, FALSE))
TitleEnds(o) ==
  CASE o = "article"                             -> Return(Reply("article", "none", FALSE))
    [] o \in {"missing", "disambiguation", "bare"} -> Get("search") /\ UNCHANGED <<several, reply>>
    [] OTHER                                     -> Return(Reply("none", o, FALSE))

SearchEnds(o) ==
  CASE o = "no_page"               -> Return(Reply("none", "not_found", FALSE))
    [] o \in {"one_page", "pages"} -> Get("first") /\ several' = (o = "pages") /\ UNCHANGED reply
    [] OTHER                       -> Return(Reply("none", o, FALSE))

\* An error is not told from a page without extract.
FirstEnds(o) ==
  Return(CASE o = "article"        -> Reply("article", "none", FALSE)
           [] o = "disambiguation" -> Reply("disambiguation", "not_found", several)
           [] OTHER                -> Reply("none", "not_found", TRUE))

GetEnds(o) ==
  /\ trail' = Append(trail, o)
  /\ \/ stage = "title"  /\ TitleEnds(o)
     \/ stage = "search" /\ SearchEnds(o)
     \/ stage = "first"  /\ FirstEnds(o)

Attempt(o, d) ==
  /\ stage \in Stages /\ ~pausing
  /\ Exchange(o, d, WikiTimeout, Answers(stage))
  /\ IF Retryable(o) /\ Len(tries) < WikiRetries
       THEN pausing' = TRUE /\ tries' = Append(tries, o) /\ UNCHANGED <<stage, several, reply, trail>>
       ELSE GetEnds(o)

(* backoffWithJitter(attempt): base * 2^(attempt-1) and up to as much again *)
Delays == LET base == BackoffBase * 2 ^ (Len(tries) - 1) IN base..(2 * base - 1)

BackOff(d) ==
  /\ pausing /\ Sleeps(d, Delays)
  /\ pausing' = FALSE
  /\ UNCHANGED <<stage, tries, several, reply, trail>>

\* Unlike doJSON, get returns the error of the context.
BackOffCut(e, d) == pausing /\ SleepCut(e, d, Delays) /\ GetEnds(e)

Step ==
  \E d \in Waits : \/ \E o \in Errors \cup Summaries \cup Hits : Attempt(o, d)
                   \/ BackOff(d)
                   \/ \E e \in {"expired", "cancelled"} : BackOffCut(e, d)

-----------------------------------------------------------------------------
TypeOK ==
  /\ stage \in Stages \cup {"idle", "over"}
  /\ pausing \in BOOLEAN /\ several \in BOOLEAN
  /\ reply.page \in {"none", "article", "disambiguation"}
  /\ reply.error \in Errors \cup {"none", "not_found"} /\ reply.suggests \in BOOLEAN
  /\ Len(trail) <= 3

\* A get retries what its comments say, and gives up when they say: a lookup ends
\* with a failure of the network, a 429 or a 5xx only when the get has used up
\* its WikiRetries, it never has more, and a 4xx of another kind or an end of the
\* context is not retried. Of a 200 that cannot be decoded, which the code does
\* retry, and of the client's own Timeout, which it does not, this says nothing.
RetriesAsTold ==
  /\ Len(tries) <= Later(WikiRetries, 0)
  /\ \A i \in DOMAIN tries :
       tries[i] \notin {"missing", "other_status", "expired", "cancelled"}
  /\ stage = "over" /\ trail # <<>> /\ trail[Len(trail)] \in {"network", "rate_limited", "server"}
       => Len(tries) >= WikiRetries

\* "Not found" is the wiki's own word: it has no such title, as a 404, a
\* disambiguation or a page without extract tell, and its search answered. A
\* failure of either is told as a failure.
NotFoundIsTheWikis ==
  stage = "over" /\ reply.error = "not_found" /\ WikiRetries >= 0 =>
    /\ Len(trail) >= 2
    /\ trail[1] \in {"missing", "disambiguation", "bare"}
    /\ trail[2] \in Hits

\* A page is answered with only if the last get brought it, and alternatives
\* are offered whenever the search had some and the page was no article: the
\* user is never left with a bare disambiguation that has alternatives.
PageIsTheLastOne ==
  stage = "over" =>
    /\ reply.page # "none" => trail # <<>> /\ reply.page = trail[Len(trail)]
    /\ Len(trail) = 3 /\ trail[3] # "article" /\ trail[2] = "pages" => reply.suggests
=============================================================================
