--------------------------- MODULE JobProcessProofs ---------------------------
(***************************************************************************)
(* Proofs about JobProcess for any retries, negative ones included, any    *)
(* timeouts, any pairs and any dataset of emojis.                          *)
(***************************************************************************)
EXTENDS JobProcess, EmojiStoreProofs, SequenceTheorems

-----------------------------------------------------------------------------
(* The budget of a job and the waits it is made of. *)

LEMMA BudgetInt == JobTimeout \in Int /\ LT!JobTimeout \in Int /\ Wiki!JobTimeout \in Int
  BY RetriesInt, TimeoutsInt DEF JobTimeout, LT!JobTimeout, Wiki!JobTimeout

LEMMA WaitsNat == LT!Waits \subseteq Nat /\ Wiki!Waits \subseteq Nat
  BY BudgetInt DEF LT!Waits, LT!Later, Wiki!Waits, Wiki!Later

(* What there is to the clock.                                             *)
ClockInv ==
  /\ now \in Nat /\ deadline \in Int /\ cancelled \in BOOLEAN /\ started \in Nat
  /\ pc \in {"detect", "translate", "look"} => deadline = started + JobTimeout
  /\ SharedBudget

(* No exchange and no pause of the LibreTranslate client outlasts the      *)
(* deadline of the job.                                                    *)
LEMMA AskClock ==
  ASSUME ClockInv, LT!Step
  PROVE  /\ now' \in Nat /\ deadline' = deadline /\ cancelled' \in BOOLEAN
         /\ now' <= Later(deadline, now)
<1>1. PICK d \in LT!Waits : \/ \E o \in LT!Errors \cup {"ok"} : LT!DoOnce(o, d)
                            \/ LT!BackOff(d)
                            \/ \E e \in {"expired", "cancelled"} : LT!BackOffCut(e, d)
  BY DEF LT!Step
<1>2. d \in Nat /\ now \in Nat /\ deadline \in Int /\ cancelled \in BOOLEAN
  BY WaitsNat DEF ClockInv
<1>3. CASE \E o \in LT!Errors \cup {"ok"} : LT!DoOnce(o, d)
  <2>1. PICK o \in LT!Errors \cup {"ok"} :
          LT!Exchange(o, d, LTTimeout, {"ok"} \cup LT!Statuses)
    BY <1>3 DEF LT!DoOnce
  <2>2. now' = now + d /\ deadline' = deadline
    BY <2>1 DEF LT!Exchange
  <2>3. cancelled' \in BOOLEAN
    BY <1>2, <2>1 DEF LT!Exchange, LT!Completes, LT!TimesOut, LT!Expires, LT!IsCancelled
  <2>4. now + d <= deadline \/ d = 0 \/ d = LT!UntilDeadline
    BY <1>2, <2>1 DEF LT!Exchange, LT!Completes, LT!TimesOut, LT!Expires, LT!IsCancelled
  <2>5. QED
    BY <1>2, <2>2, <2>3, <2>4 DEF LT!UntilDeadline, LT!Later, Later
<1>4. CASE LT!BackOff(d) \/ \E e \in {"expired", "cancelled"} : LT!BackOffCut(e, d)
  <2>1. now' = now + d /\ deadline' = deadline
    BY <1>4 DEF LT!BackOff, LT!BackOffCut, LT!Sleeps, LT!SleepCut
  <2>2. cancelled' \in BOOLEAN
    BY <1>2, <1>4 DEF LT!BackOff, LT!BackOffCut, LT!Sleeps, LT!SleepCut
  <2>3. now + d <= deadline \/ d = 0 \/ d <= LT!UntilDeadline
    BY <1>2, <1>4 DEF LT!BackOff, LT!BackOffCut, LT!Sleeps, LT!SleepCut
  <2>4. QED
    BY <1>2, <2>1, <2>2, <2>3 DEF LT!UntilDeadline, LT!Later, Later
<1>5. QED
  BY <1>1, <1>3, <1>4

(* Nor does one of the wiki client.                                        *)
LEMMA LookClock ==
  ASSUME ClockInv, Wiki!Step
  PROVE  /\ now' \in Nat /\ deadline' = deadline /\ cancelled' \in BOOLEAN
         /\ now' <= Later(deadline, now)
<1>1. PICK d \in Wiki!Waits :
        \/ \E o \in Wiki!Errors \cup Wiki!Summaries \cup Wiki!Hits : Wiki!Attempt(o, d)
        \/ Wiki!BackOff(d)
        \/ \E e \in {"expired", "cancelled"} : Wiki!BackOffCut(e, d)
  BY DEF Wiki!Step
<1>2. d \in Nat /\ now \in Nat /\ deadline \in Int /\ cancelled \in BOOLEAN
  BY WaitsNat DEF ClockInv
<1>3. CASE \E o \in Wiki!Errors \cup Wiki!Summaries \cup Wiki!Hits : Wiki!Attempt(o, d)
  <2>1. PICK o \in Wiki!Errors \cup Wiki!Summaries \cup Wiki!Hits :
          Wiki!Exchange(o, d, WikiTimeout, Wiki!Answers(stage))
    BY <1>3 DEF Wiki!Attempt
  <2>2. now' = now + d /\ deadline' = deadline
    BY <2>1 DEF Wiki!Exchange
  <2>3. cancelled' \in BOOLEAN
    BY <1>2, <2>1 DEF Wiki!Exchange, Wiki!Completes, Wiki!TimesOut, Wiki!Expires, Wiki!IsCancelled
  <2>4. now + d <= deadline \/ d = 0 \/ d = Wiki!UntilDeadline
    BY <1>2, <2>1 DEF Wiki!Exchange, Wiki!Completes, Wiki!TimesOut, Wiki!Expires, Wiki!IsCancelled
  <2>5. QED
    BY <1>2, <2>2, <2>3, <2>4 DEF Wiki!UntilDeadline, Wiki!Later, Later
<1>4. CASE Wiki!BackOff(d) \/ \E e \in {"expired", "cancelled"} : Wiki!BackOffCut(e, d)
  <2>1. now' = now + d /\ deadline' = deadline
    BY <1>4 DEF Wiki!BackOff, Wiki!BackOffCut, Wiki!Sleeps, Wiki!SleepCut
  <2>2. cancelled' \in BOOLEAN
    BY <1>2, <1>4 DEF Wiki!BackOff, Wiki!BackOffCut, Wiki!Sleeps, Wiki!SleepCut
  <2>3. now + d <= deadline \/ d = 0 \/ d <= Wiki!UntilDeadline
    BY <1>2, <1>4 DEF Wiki!BackOff, Wiki!BackOffCut, Wiki!Sleeps, Wiki!SleepCut
  <2>4. QED
    BY <1>2, <2>1, <2>2, <2>3 DEF Wiki!UntilDeadline, Wiki!Later, Later
<1>5. QED
  BY <1>1, <1>3, <1>4

-----------------------------------------------------------------------------
(* One call of LibreTranslate. *)

(* While doJSON is at work every exchange of the call failed and may be    *)
(* tried again, and the attempt it is at has not been spent.               *)
CallInv ==
  /\ LT!TypeOK /\ LT!RetriesAsTold /\ LT!ReturnsTheLast
  /\ phase = "backoff" => seen # <<>> /\ lastErr = seen[Len(seen)]
  /\ phase \in {"trying", "backoff"} =>
       /\ attempt <= 1 + MaxRetries /\ attempt = Len(seen) + 1
       /\ \A i \in 1..Len(seen) : LT!Retryable(seen[i])

(* A call that gave up keeps its reason, as long as the clock stands.      *)
LEMMA CallIdle ==
  ASSUME CallInv, UNCHANGED ltCall, phase = "idle" \/ UNCHANGED <<now, deadline, cancelled>>
  PROVE  CallInv'
  BY DEF CallInv, ltCall, LT!TypeOK, LT!RetriesAsTold, LT!ReturnsTheLast, LT!Expired

LEMMA CallInit == LT!Init => CallInv
<1> SUFFICES ASSUME LT!Init PROVE CallInv
  OBVIOUS
<1>1. phase = "idle" /\ attempt = 0 /\ lastErr = "none" /\ result = "none" /\ seen = <<>>
  BY DEF LT!Init
<1>2. seen \in Seq(LT!Errors \cup {"ok"}) /\ Len(seen) = 0
  BY <1>1
<1>3. QED
  BY <1>1, <1>2, RetriesInt
     DEF CallInv, LT!TypeOK, LT!Phases, LT!RetriesAsTold, LT!ReturnsTheLast, LT!Later

(* A new call starts from nothing, whatever the last one left.             *)
LEMMA CallBegins == LT!Begin => CallInv' /\ phase' # "idle"
<1> SUFFICES ASSUME LT!Begin PROVE CallInv' /\ phase' # "idle"
  OBVIOUS
<1>1. /\ attempt' = 1 /\ lastErr' = "none" /\ seen' = <<>>
      /\ \/ 1 + MaxRetries >= 1 /\ phase' = "trying" /\ result' = "none"
         \/ MaxRetries < 0 /\ phase' = "returned" /\ result' = "ok"
  BY RetriesInt DEF LT!Begin, LT!Attempts
<1>2. seen' \in Seq(LT!Errors \cup {"ok"}) /\ Len(seen') = 0
  BY <1>1
<1>3. LT!ReturnsTheLast'
  BY <1>1, RetriesInt DEF LT!ReturnsTheLast
<1>4. QED
  BY <1>1, <1>2, <1>3, RetriesInt
     DEF CallInv, LT!TypeOK, LT!Phases, LT!RetriesAsTold, LT!Later

(* doJSON goes on to another exchange only after a failure that may pass,  *)
(* and within its attempts; it gives one up only at their end, or when the *)
(* context of the job has ended.                                           *)
LEMMA CallGoesOn == ASSUME ClockInv, CallInv, LT!Step PROVE CallInv'
<1> USE RetriesInt DEF CallInv, LT!TypeOK
<1>1. PICK d \in LT!Waits : \/ \E o \in LT!Errors \cup {"ok"} : LT!DoOnce(o, d)
                            \/ LT!BackOff(d)
                            \/ \E e \in {"expired", "cancelled"} : LT!BackOffCut(e, d)
  BY DEF LT!Step
<1>2. ASSUME NEW o \in LT!Errors \cup {"ok"}, LT!DoOnce(o, d) PROVE CallInv'
  <2>1. /\ phase = "trying" /\ seen' = Append(seen, o)
        /\ lastErr' \in LT!Errors \cup {"none"} /\ (lastErr' = o \/ o = "ok")
        /\ \/ phase' = "returned" /\ result' = o /\ attempt' = attempt
           \/ /\ LT!Retryable(o) /\ attempt < 1 + MaxRetries
              /\ phase' = "backoff" /\ attempt' = attempt + 1 /\ result' = result
    BY <1>2 DEF LT!DoOnce, LT!Conclude, LT!Return, LT!Attempts
  <2>2. /\ seen' \in Seq(LT!Errors \cup {"ok"}) /\ Len(seen') = Len(seen) + 1
        /\ \A i \in 1..Len(seen) : seen'[i] = seen[i]
        /\ seen'[Len(seen) + 1] = o
    BY <2>1, AppendProperties
  <2>3. LT!TypeOK'
    BY <2>1, <2>2 DEF LT!Phases
  <2>4. \A i \in 1..Len(seen') - 1 : LT!Retryable(seen'[i])
    BY <2>1, <2>2
  <2>5. LT!RetriesAsTold'
    <3>1. Len(seen') <= LT!Later(1 + MaxRetries, 0)
      BY <2>1, <2>2 DEF LT!Later
    <3>2. \A e : LT!Retryable(e) => e \notin {"bad_request", "auth", "other_status", "undecodable"}
      BY DEF LT!Retryable, LT!Transport
    <3>3. ASSUME phase' = "returned",
                 result' \in {"client_timeout", "network", "rate_limited", "server"}
          PROVE  Len(seen') >= 1 + MaxRetries
      <4>1. LT!Retryable(o) /\ o # "ok" /\ phase' # "backoff"
        BY <2>1, <3>3 DEF LT!Retryable, LT!Transport
      <4>2. attempt >= 1 + MaxRetries
        <5>1. LT!Conclude(o)
          BY <1>2 DEF LT!DoOnce
        <5>2. QED
          BY <4>1, <5>1 DEF LT!Conclude, LT!Attempts
      <4>3. QED
        BY <2>1, <2>2, <4>2
    <3>4. QED
      BY <2>4, <3>1, <3>2, <3>3 DEF LT!RetriesAsTold
  <2>6. /\ LT!ReturnsTheLast'
        /\ phase' = "backoff" => seen' # <<>> /\ lastErr' = seen'[Len(seen')]
    <3>1. seen' # <<>> /\ seen'[Len(seen')] = o
      BY <2>2
    <3>2. phase' = "backoff" => o # "ok"
      BY <2>1 DEF LT!Retryable, LT!Transport
    <3>3. QED
      BY <2>1, <3>1, <3>2 DEF LT!ReturnsTheLast
  <2>7. QED
    BY <2>1, <2>2, <2>3, <2>4, <2>5, <2>6
<1>3. CASE LT!BackOff(d) \/ \E e \in {"expired", "cancelled"} : LT!BackOffCut(e, d)
  <2>1. /\ phase = "backoff" /\ attempt' = attempt /\ lastErr' = lastErr /\ seen' = seen
        /\ \/ phase' = "trying" /\ result' = result
           \/ phase' = "returned" /\ result' = lastErr
    BY <1>3 DEF LT!BackOff, LT!BackOffCut, LT!Return
  <2>2. phase' = "returned" => LT!Expired' \/ cancelled'
    <3>1. CASE LT!BackOff(d)
      BY <2>1, <3>1 DEF LT!BackOff
    <3>2. ASSUME NEW e \in {"expired", "cancelled"}, LT!BackOffCut(e, d)
          PROVE  LT!Expired' \/ cancelled'
      <4>1. LT!SleepCut(e, d, LT!Delays)
        BY <3>2 DEF LT!BackOffCut
      <4>2. CASE e = "cancelled"
        BY <4>1, <4>2 DEF LT!SleepCut
      <4>3. CASE e = "expired"
        <5>1. d = LT!UntilDeadline /\ now' = now + d /\ deadline' = deadline
          BY <4>1, <4>3 DEF LT!SleepCut
        <5>2. now \in Nat /\ deadline \in Int
          BY DEF ClockInv
        <5>3. QED
          BY <5>1, <5>2 DEF LT!UntilDeadline, LT!Later, LT!Expired
      <4>4. QED
        BY <3>2, <4>2, <4>3
    <3>3. QED
      BY <1>3, <3>1, <3>2
  <2>3. LT!RetriesAsTold'
    BY <2>1, <2>2 DEF LT!RetriesAsTold
  <2>4. QED
    BY <2>1, <2>3 DEF LT!Phases, LT!ReturnsTheLast
<1>4. QED
  BY <1>1, <1>2, <1>3

-----------------------------------------------------------------------------
(* One Look of the wiki. *)

Brought == Wiki!Errors \cup Wiki!Summaries \cup Wiki!Hits
NoTitle == {"missing", "disambiguation", "bare"}

(* What a get that is told to retry may end with only at its last attempt. *)
Passing == {"network", "rate_limited", "server"}

(* What a get may end with.                                                *)
Ends(s) == Wiki!Answers(s) \cup Wiki!Transport \cup Wiki!Bodies

(* Look gets on only by an answer of the wiki: to the search when the      *)
(* title is none, to the page of the first hit when the search had one.    *)
LookInv ==
  /\ Wiki!TypeOK /\ Wiki!RetriesAsTold
  /\ Wiki!NotFoundIsTheWikis /\ Wiki!PageIsTheLastOne
  /\ trail \in Seq(Brought) /\ tries \in Seq(Brought)
  /\ pausing => stage \in Wiki!Stages
  /\ stage = "title" => trail = <<>>
  /\ stage = "search" => Len(trail) = 1 /\ trail[1] \in NoTitle
  /\ stage = "first" => /\ Len(trail) = 2 /\ trail[1] \in NoTitle
                        /\ trail[2] \in {"one_page", "pages"}
                        /\ several <=> trail[2] = "pages"
  /\ stage = "over" /\ reply.page = "none" /\ reply.suggests => reply.error = "not_found"

LEMMA LookIdle == ASSUME LookInv, UNCHANGED look PROVE LookInv'
  BY DEF LookInv, look, Wiki!TypeOK, Wiki!RetriesAsTold,
         Wiki!NotFoundIsTheWikis, Wiki!PageIsTheLastOne

LEMMA LookInit == Wiki!Init => LookInv
<1> SUFFICES ASSUME Wiki!Init PROVE LookInv
  OBVIOUS
<1>1. /\ stage = "idle" /\ pausing \in BOOLEAN /\ ~pausing /\ several \in BOOLEAN
      /\ reply.page = "none" /\ reply.error = "none"
      /\ reply.suggests \in BOOLEAN /\ ~reply.suggests
  BY DEF Wiki!Init, Wiki!NoReply
<1>2. /\ trail \in Seq(Brought) /\ tries \in Seq(Brought)
      /\ Len(trail) = 0 /\ Len(tries) = 0
  BY DEF Wiki!Init
<1>3. Wiki!TypeOK
  BY <1>1, <1>2 DEF Wiki!TypeOK, Wiki!Stages
<1>4. Wiki!RetriesAsTold
  BY <1>2, RetriesInt DEF Wiki!RetriesAsTold, Wiki!Later
<1>5. Wiki!NotFoundIsTheWikis /\ Wiki!PageIsTheLastOne
  BY <1>1 DEF Wiki!NotFoundIsTheWikis, Wiki!PageIsTheLastOne
<1>6. QED
  BY <1>1, <1>2, <1>3, <1>4, <1>5 DEF LookInv

(* A new Look starts from nothing.                                         *)
LEMMA LookBegins == Wiki!Begin => LookInv' /\ stage' # "idle"
<1> SUFFICES ASSUME Wiki!Begin PROVE LookInv' /\ stage' # "idle"
  OBVIOUS
<1>1. /\ pausing' \in BOOLEAN /\ ~pausing' /\ several' \in BOOLEAN
      /\ reply'.page = "none" /\ reply'.suggests \in BOOLEAN /\ ~reply'.suggests
      /\ \/ stage' = "title" /\ reply'.error = "none"
         \/ stage' = "over" /\ WikiRetries < 0 /\ reply'.error = "not_found"
  <2>1. CASE WikiRetries >= 0
    <3>1. stage' = "title" /\ pausing' = FALSE /\ several' = FALSE /\ reply' = Wiki!NoReply
      BY <2>1 DEF Wiki!Begin, Wiki!Get
    <3>2. QED
      BY <3>1 DEF Wiki!NoReply
  <2>2. CASE ~(WikiRetries >= 0)
    <3>1. /\ stage' = "over" /\ pausing' = FALSE /\ several' = FALSE
          /\ reply' = Wiki!Reply("none", "not_found", FALSE)
      BY <2>2 DEF Wiki!Begin, Wiki!Get
    <3>2. WikiRetries < 0
      BY <2>2, RetriesInt
    <3>3. QED
      BY <3>1, <3>2 DEF Wiki!Reply
  <2>3. QED
    BY <2>1, <2>2
<1>2. trail' = <<>> /\ tries' = <<>>
  BY DEF Wiki!Begin, Wiki!Get
<1>3. /\ trail' \in Seq(Brought) /\ tries' \in Seq(Brought)
      /\ Len(trail') = 0 /\ Len(tries') = 0
  BY <1>2
<1>4. Wiki!TypeOK'
  BY <1>1, <1>3 DEF Wiki!TypeOK, Wiki!Stages
<1>5. Wiki!RetriesAsTold'
  BY <1>3, RetriesInt DEF Wiki!RetriesAsTold, Wiki!Later
<1>6. Wiki!NotFoundIsTheWikis' /\ Wiki!PageIsTheLastOne'
  BY <1>1, <1>3, RetriesInt DEF Wiki!NotFoundIsTheWikis, Wiki!PageIsTheLastOne
<1>7. QED
  BY <1>1, <1>2, <1>3, <1>4, <1>5, <1>6 DEF LookInv

(* What Look makes of a get that ended.                                    *)
LEMMA GetOver ==
  ASSUME LookInv, stage \in Wiki!Stages, NEW o \in Ends(stage), Wiki!GetEnds(o),
         o \in Passing => Len(tries) >= WikiRetries
  PROVE  LookInv' /\ stage' # "idle"
<1>1. /\ o \in Brought /\ pausing' \in BOOLEAN /\ ~pausing'
      /\ tries' = <<>> \/ (tries' = tries /\ stage' = "over")
      /\ stage' = "over" => tries' = tries
      /\ trail' = Append(trail, o)
  BY DEF Ends, Brought, Wiki!GetEnds, Wiki!Answers, Wiki!Errors, Wiki!TitleEnds,
         Wiki!SearchEnds, Wiki!FirstEnds, Wiki!Return, Wiki!Get
<1>2. /\ trail \in Seq(Brought) /\ trail' \in Seq(Brought) /\ Len(trail') = Len(trail) + 1
      /\ \A i \in 1..Len(trail) : trail'[i] = trail[i]
      /\ trail'[Len(trail) + 1] = o
  BY <1>1, AppendProperties DEF LookInv
<1>3. Wiki!RetriesAsTold' /\ tries' \in Seq(Brought)
  <2>1. /\ tries' \in Seq(Brought) /\ Len(tries') <= Wiki!Later(WikiRetries, 0)
        /\ \A i \in DOMAIN tries' :
             tries'[i] \notin {"missing", "other_status", "expired", "cancelled"}
    <3>1. CASE tries' = <<>>
      <4>1. tries' \in Seq(Brought) /\ Len(tries') = 0 /\ DOMAIN tries' = {}
        BY <3>1
      <4>2. QED
        BY <4>1, RetriesInt DEF Wiki!Later
    <3>2. CASE tries' = tries
      BY <3>2 DEF LookInv, Wiki!RetriesAsTold
    <3>3. QED
      BY <1>1, <3>1, <3>2
  <2>2. trail'[Len(trail')] = o
    BY <1>2
  <2>3. QED
    BY <1>1, <2>1, <2>2 DEF Wiki!RetriesAsTold, Passing
<1>4. /\ several \in BOOLEAN /\ reply.page \in {"none", "article", "disambiguation"}
      /\ reply.error \in Wiki!Errors \cup {"none", "not_found"}
      /\ reply.suggests \in BOOLEAN
  BY DEF LookInv, Wiki!TypeOK
<1>5. o \in Wiki!Errors => o # "not_found"
  BY DEF Wiki!Errors, Wiki!Statuses, Wiki!Transport, Wiki!Bodies
<1>6. CASE stage = "title"
  <2>1. Wiki!TitleEnds(o) /\ Len(trail') = 1 /\ trail'[1] = o
    <3>1. Len(trail) = 0
      BY <1>6 DEF LookInv
    <3>2. QED
      BY <1>2, <1>6, <3>1 DEF Wiki!GetEnds
  <2>2. /\ several' = several
        /\ \/ o \in NoTitle /\ stage' = "search" /\ reply' = reply
           \/ /\ stage' = "over" /\ reply'.suggests \in BOOLEAN /\ ~reply'.suggests
              /\ \/ o = "article" /\ reply'.page = "article" /\ reply'.error = "none"
                 \/ o \in Wiki!Errors /\ reply'.page = "none" /\ reply'.error = o
    <3>1. CASE o = "article"
      <4>1. /\ stage' = "over" /\ several' = several
            /\ reply' = Wiki!Reply("article", "none", FALSE)
        BY <2>1, <3>1 DEF Wiki!TitleEnds, Wiki!Return, Wiki!Get
      <4>2. QED
        BY <3>1, <4>1 DEF Wiki!Reply
    <3>2. CASE o \in NoTitle
      BY <2>1, <3>2 DEF Wiki!TitleEnds, Wiki!Return, Wiki!Get, NoTitle
    <3>3. CASE o # "article" /\ o \notin NoTitle
      <4>1. o \in Wiki!Errors
        BY <1>6, <3>3 DEF Ends, Wiki!Answers, Wiki!Summaries, Wiki!Errors, NoTitle
      <4>2. stage' = "over" /\ several' = several /\ reply' = Wiki!Reply("none", o, FALSE)
        BY <2>1, <3>3 DEF Wiki!TitleEnds, Wiki!Return, Wiki!Get, NoTitle
      <4>3. QED
        BY <4>1, <4>2 DEF Wiki!Reply
    <3>4. QED
      BY <3>1, <3>2, <3>3
  <2>3. Wiki!TypeOK'
    BY <1>1, <1>4, <2>1, <2>2 DEF Wiki!TypeOK, Wiki!Stages
  <2>4. Wiki!NotFoundIsTheWikis' /\ Wiki!PageIsTheLastOne'
    BY <1>2, <1>5, <2>1, <2>2 DEF Wiki!NotFoundIsTheWikis, Wiki!PageIsTheLastOne
  <2>5. QED
    BY <1>1, <1>2, <1>3, <2>1, <2>2, <2>3, <2>4 DEF LookInv, Wiki!Stages
<1>7. CASE stage = "search"
  <2>1. /\ Wiki!SearchEnds(o) /\ Len(trail') = 2 /\ trail'[1] \in NoTitle /\ trail'[2] = o
    <3>1. Len(trail) = 1 /\ trail[1] \in NoTitle
      BY <1>7 DEF LookInv
    <3>2. QED
      BY <1>2, <1>7, <3>1 DEF Wiki!GetEnds
  <2>2. \/ /\ o \in {"one_page", "pages"} /\ stage' = "first" /\ reply' = reply
           /\ several' \in BOOLEAN /\ (several' <=> o = "pages")
        \/ /\ stage' = "over" /\ several' = several
           /\ reply'.page = "none" /\ reply'.suggests \in BOOLEAN /\ ~reply'.suggests
           /\ \/ o = "no_page" /\ reply'.error = "not_found"
              \/ o \in Wiki!Errors /\ reply'.error = o
    <3>1. CASE o = "no_page"
      <4>1. /\ stage' = "over" /\ several' = several
            /\ reply' = Wiki!Reply("none", "not_found", FALSE)
        BY <2>1, <3>1 DEF Wiki!SearchEnds, Wiki!Return, Wiki!Get
      <4>2. QED
        BY <3>1, <4>1 DEF Wiki!Reply
    <3>2. CASE o \in {"one_page", "pages"}
      BY <2>1, <3>2 DEF Wiki!SearchEnds, Wiki!Return, Wiki!Get
    <3>3. CASE o \notin Wiki!Hits
      <4>1. o \in Wiki!Errors
        BY <1>7, <3>3 DEF Ends, Wiki!Answers, Wiki!Errors
      <4>2. stage' = "over" /\ several' = several /\ reply' = Wiki!Reply("none", o, FALSE)
        BY <2>1, <3>3 DEF Wiki!SearchEnds, Wiki!Return, Wiki!Get, Wiki!Hits
      <4>3. QED
        BY <4>1, <4>2 DEF Wiki!Reply
    <3>4. QED
      BY <3>1, <3>2, <3>3 DEF Wiki!Hits
  <2>3. Wiki!TypeOK'
    BY <1>1, <1>4, <2>1, <2>2 DEF Wiki!TypeOK, Wiki!Stages
  <2>4. Wiki!NotFoundIsTheWikis' /\ Wiki!PageIsTheLastOne'
    BY <1>2, <1>5, <2>1, <2>2
       DEF Wiki!NotFoundIsTheWikis, Wiki!PageIsTheLastOne, Wiki!Hits, NoTitle
  <2>5. QED
    BY <1>1, <1>2, <1>3, <2>1, <2>2, <2>3, <2>4 DEF LookInv, Wiki!Stages
<1>8. CASE stage = "first"
  <2>1. /\ Wiki!FirstEnds(o) /\ Len(trail') = 3 /\ trail'[1] \in NoTitle
        /\ trail'[2] \in {"one_page", "pages"} /\ trail'[3] = o
        /\ several <=> trail'[2] = "pages"
    <3>1. /\ Len(trail) = 2 /\ trail[1] \in NoTitle /\ trail[2] \in {"one_page", "pages"}
          /\ several <=> trail[2] = "pages"
      BY <1>8 DEF LookInv
    <3>2. QED
      BY <1>2, <1>8, <3>1 DEF Wiki!GetEnds
  <2>2. /\ stage' = "over" /\ several' = several /\ reply'.suggests \in BOOLEAN
        /\ \/ o = "article" /\ reply'.page = "article" /\ reply'.error = "none"
              /\ ~reply'.suggests
           \/ o = "disambiguation" /\ reply'.page = "disambiguation"
              /\ reply'.error = "not_found" /\ (reply'.suggests <=> several)
           \/ o \notin {"article", "disambiguation"} /\ reply'.page = "none"
              /\ reply'.error = "not_found" /\ reply'.suggests
    BY <1>4, <2>1 DEF Wiki!FirstEnds, Wiki!Return, Wiki!Get, Wiki!Reply
  <2>3. Wiki!TypeOK'
    BY <1>1, <1>4, <2>1, <2>2 DEF Wiki!TypeOK, Wiki!Stages
  <2>4. Wiki!NotFoundIsTheWikis'
    BY <2>1 DEF Wiki!NotFoundIsTheWikis, Wiki!Hits, NoTitle
  <2>5. Wiki!PageIsTheLastOne'
    <3>1. reply'.page # "none" => trail' # <<>> /\ reply'.page = trail'[Len(trail')]
      <4>1. trail' # <<>>
        BY <2>1
      <4>2. QED
        BY <2>1, <2>2, <4>1
    <3>2. trail'[3] # "article" /\ trail'[2] = "pages" => reply'.suggests
      BY <2>1, <2>2
    <3>3. QED
      BY <3>1, <3>2 DEF Wiki!PageIsTheLastOne
  <2>6. QED
    BY <1>1, <1>2, <1>3, <2>1, <2>2, <2>3, <2>4, <2>5 DEF LookInv, Wiki!Stages
<1>9. QED
  BY <1>6, <1>7, <1>8 DEF Wiki!Stages

(* A get makes another attempt only after a failure that may pass.         *)
LEMMA LookGoesOn == ASSUME LookInv, stage # "idle", Wiki!Step PROVE LookInv' /\ stage' # "idle"
<1> USE RetriesInt DEF LookInv, Wiki!TypeOK
<1>1. PICK d \in Wiki!Waits :
        \/ \E o \in Wiki!Errors \cup Wiki!Summaries \cup Wiki!Hits : Wiki!Attempt(o, d)
        \/ Wiki!BackOff(d)
        \/ \E e \in {"expired", "cancelled"} : Wiki!BackOffCut(e, d)
  BY DEF Wiki!Step
<1>2. ASSUME NEW o \in Brought, Wiki!Attempt(o, d) PROVE LookInv' /\ stage' # "idle"
  <2>1. stage \in Wiki!Stages /\ o \in Ends(stage)
    BY <1>2 DEF Wiki!Attempt, Wiki!Exchange, Wiki!Completes, Wiki!TimesOut, Wiki!Expires,
                Wiki!IsCancelled, Ends, Wiki!Transport, Wiki!Bodies
  <2>2. CASE Wiki!GetEnds(o) /\ ~(Wiki!Retryable(o) /\ Len(tries) < WikiRetries)
    <3>1. o \in Passing => Len(tries) >= WikiRetries
      BY <2>2 DEF Wiki!Retryable, Passing
    <3>2. QED
      BY <2>1, <2>2, <3>1, GetOver
  <2>3. CASE /\ Wiki!Retryable(o) /\ Len(tries) < WikiRetries
             /\ pausing' = TRUE /\ tries' = Append(tries, o)
             /\ UNCHANGED <<stage, several, reply, trail>>
    <3>1. /\ tries' \in Seq(Brought) /\ Len(tries') = Len(tries) + 1
          /\ \A i \in 1..Len(tries) : tries'[i] = tries[i]
          /\ tries'[Len(tries) + 1] = o
      BY <2>3, AppendProperties
    <3>2. Wiki!RetriesAsTold'
      <4>1. o \notin {"missing", "other_status", "expired", "cancelled"} /\ stage' # "over"
        BY <2>1, <2>3 DEF Wiki!Retryable, Wiki!Stages
      <4>2. Len(tries') <= Wiki!Later(WikiRetries, 0)
        BY <2>3, <3>1 DEF Wiki!Later
      <4>3. QED
        BY <3>1, <4>1, <4>2 DEF Wiki!RetriesAsTold
    <3>3. QED
      BY <2>1, <2>3, <3>1, <3>2 DEF Wiki!NotFoundIsTheWikis, Wiki!PageIsTheLastOne
  <2>4. QED
    BY <1>2, <2>2, <2>3 DEF Wiki!Attempt
<1>3. CASE Wiki!BackOff(d)
  <2>1. /\ pausing' = FALSE /\ UNCHANGED <<stage, tries, several, reply, trail>>
    BY <1>3 DEF Wiki!BackOff
  <2>2. Wiki!RetriesAsTold'
    BY <2>1 DEF Wiki!RetriesAsTold
  <2>3. Wiki!NotFoundIsTheWikis' /\ Wiki!PageIsTheLastOne'
    BY <2>1 DEF Wiki!NotFoundIsTheWikis, Wiki!PageIsTheLastOne
  <2>4. QED
    BY <2>1, <2>2, <2>3
<1>4. ASSUME NEW e \in {"expired", "cancelled"}, Wiki!BackOffCut(e, d)
      PROVE  LookInv' /\ stage' # "idle"
  <2>1. /\ stage \in Wiki!Stages /\ e \in Ends(stage) /\ Wiki!GetEnds(e)
        /\ e \notin Passing
    BY <1>4 DEF Wiki!BackOffCut, Ends, Wiki!Transport, Passing
  <2>2. QED
    BY <2>1, GetOver
<1>5. QED
  BY <1>1, <1>2, <1>3, <1>4 DEF Brought

-----------------------------------------------------------------------------
(* The target of a language. *)

(* ResolveTarget leads a language to itself when the first pair that names *)
(* it does, or when none does and it is the default.                       *)
LEMMA TargetOfFirst == \A l : OwnTarget(l) <=> l = ResolveTarget(l)
<1> SUFFICES ASSUME NEW l PROVE OwnTarget(l) <=> l = ResolveTarget(l)
  OBVIOUS
<1> DEFINE Matches == {i \in DOMAIN Pairs : Pairs[i].source = l}
<1>1. Matches \in SUBSET Nat /\ \A i \in Matches : \A k \in 1..(i - 1) : k \in DOMAIN Pairs
  BY PairsSequence
<1>2. CASE Matches = {}
  BY <1>2 DEF OwnTarget, ResolveTarget
<1>3. CASE Matches # {}
  <2> DEFINE First == CHOOSE i \in Matches : \A k \in Matches : i <= k
  <2>1. First \in Matches /\ \A k \in Matches : First <= k
    BY <1>1, <1>3, FirstOf
  <2>2. ResolveTarget(l) = Pairs[First].target
    BY <1>3 DEF ResolveTarget
  <2> HIDE DEF First
  <2>3. ASSUME NEW i \in Matches
        PROVE  (\A k \in 1..(i - 1) : Pairs[k].source # l) <=> i = First
    <3>1. First \in Nat /\ i \in Nat /\ First <= i
      BY <1>1, <2>1
    <3>2. i # First => First \in 1..(i - 1) /\ Pairs[First].source = l
      BY <1>1, <2>1, <3>1, PairsSequence
    <3>3. ASSUME i = First, NEW k \in 1..(i - 1) PROVE Pairs[k].source # l
      <4>1. k \in DOMAIN Pairs /\ k < First
        BY <1>1, <3>1, <3>3
      <4>2. QED
        BY <2>1, <3>1, <4>1
    <3>4. QED
      BY <3>2, <3>3
  <2>4. OwnTarget(l) <=> Pairs[First].target = l
    BY <1>3, <2>1, <2>3 DEF OwnTarget
  <2>5. QED
    BY <2>2, <2>4
<1>4. QED
  BY <1>2, <1>3

-----------------------------------------------------------------------------
(* The job. *)

JobTypes ==
  /\ pc \in {"start", "detect", "translate", "look", "record", "reply", "done"}
  /\ job \in Inputs /\ lang \in Langs \cup {None}

Detection   == [call |-> "detect", result |-> "ok"]
Translation == [call |-> "translate", result |-> "ok"]

(* What was asked of LibreTranslate, and the answer that will come of it.  *)
AskInv ==
  /\ pc \in {"start", "detect", "look"} => asked = <<>> /\ lang = None
  /\ pc = "translate" => asked = <<Detection>> /\ ~OwnTarget(lang)
  /\ pc \in {"record", "reply", "done"} =>
       /\ Len(asked) <= 2
       /\ ending.answer = "translated" => asked = <<Detection, Translation>>
       /\ lang # None => (ending.answer = "already_target" <=> OwnTarget(lang))

Silent == {"help", "text_too_long", "disabled", "query_too_long"}

(* What was recorded, and the answer that was or will be handed over.      *)
StoryInv ==
  /\ pc \in {"start", "detect", "translate", "look", "record"} => recorded = <<>>
  /\ pc = "record" => Tells(ending.record, ending.answer)
  /\ pc \in {"reply", "done"} =>
       \/ recorded = <<>> /\ ending.answer \in Silent
       \/ recorded = <<ending.record>> /\ Tells(ending.record, ending.answer)
  /\ pc # "done" => answers = <<>>
  /\ pc = "done" => Len(answers) = 1 /\ answers[1].answer = ending.answer

(* What the wiki said, and the answer that will come of it.                *)
PageInv ==
  /\ pc \in {"start", "detect", "translate"} => stage = "idle"
  /\ pc = "look" => stage # "idle"
  /\ pc \in {"record", "reply", "done"} /\ stage # "idle" =>
       /\ stage = "over"
       /\ reply.page # "none" <=> ending.answer \in {"found", "found_and_suggestions"}
       /\ reply.suggests <=> ending.answer \in {"found_and_suggestions", "not_found_but"}

(* LibreTranslate has not been called.                                     *)
IdleInv == pc \in {"start", "look"} => phase = "idle"

JobInv ==
  /\ ClockInv /\ CallInv /\ LookInv /\ IdleInv
  /\ JobTypes /\ AskInv /\ StoryInv /\ PageInv

(* A job that was just taken.                                              *)
LEMMA JobInit == Init => JobInv
<1> SUFFICES ASSUME Init PROVE JobInv
  OBVIOUS
<1>1. CallInv /\ LookInv /\ IdleInv
  BY CallInit, LookInit DEF Init, IdleInv, LT!Init
<1>2. /\ pc = "start" /\ job \in Inputs /\ lang = None /\ asked = <<>> /\ recorded = <<>>
      /\ answers = <<>> /\ stage = "idle"
  BY DEF Init, Wiki!Init
<1>3. now = 0 /\ deadline = 0 /\ started = 0
  BY DEF Init
<1>4. cancelled \in BOOLEAN
  BY DEF Init
<1>5. SharedBudget
  BY <1>3, BudgetInt DEF SharedBudget, Later
<1>6. ClockInv
  BY <1>2, <1>3, <1>4, <1>5 DEF ClockInv
<1>7. QED
  BY <1>1, <1>2, <1>6 DEF JobInv, JobTypes, AskInv, StoryInv, PageInv

(* Which of the two clients a step of the job runs.                        *)
LEMMA CallSteps ==
  ASSUME IdleInv, [Next]_vars
  PROVE  \/ UNCHANGED ltCall /\ (phase = "idle" \/ UNCHANGED <<now, deadline, cancelled>>)
         \/ LT!Begin \/ LT!Step
<1> USE DEF ltCall, clock
<1>1. ASSUME Help \/ TextTooLong \/ DetectFails \/ DetectNothing \/ TranslateReturns
      PROVE  UNCHANGED ltCall /\ UNCHANGED <<now, deadline, cancelled>>
  BY <1>1 DEF Help, TextTooLong, DetectFails, DetectNothing, TranslateReturns
<1>2. ASSUME StartDetect \/ AskLibreTranslate PROVE LT!Begin \/ LT!Step
  BY <1>2 DEF StartDetect, AskLibreTranslate
<1>3. ASSUME NEW l \in Langs, AlreadyTarget(l) \/ StartTranslate(l)
      PROVE  LT!Begin \/ (UNCHANGED ltCall /\ UNCHANGED <<now, deadline, cancelled>>)
  BY <1>3 DEF AlreadyTarget, StartTranslate
<1>4. ASSUME CannotLook \/ StartWiki \/ AskWiki
      PROVE  UNCHANGED ltCall /\ phase = "idle"
  BY <1>4 DEF IdleInv, CannotLook, StartWiki, StartLook, AskWiki
<1>5. ASSUME NEW q \in Queries, LookEmoji(q) PROVE UNCHANGED ltCall /\ phase = "idle"
  BY <1>5 DEF IdleInv, LookEmoji, StartLook
<1>6. ASSUME WikiReturns \/ Record \/ Reply \/ AtRest \/ UNCHANGED vars
      PROVE  UNCHANGED ltCall /\ UNCHANGED <<now, deadline, cancelled>>
  BY <1>6 DEF WikiReturns, Record, Reply, AtRest, vars
<1>7. QED
  BY <1>1, <1>2, <1>3, <1>4, <1>5, <1>6 DEF Next

LEMMA IdleKept == ASSUME IdleInv, [Next]_vars PROVE IdleInv'
<1>1. ASSUME StartWiki \/ AskWiki \/ AtRest \/ UNCHANGED vars PROVE IdleInv'
  BY <1>1 DEF IdleInv, StartWiki, StartLook, AskWiki, AtRest, vars, ltCall
<1>2. ASSUME Help \/ TextTooLong \/ StartDetect \/ AskLibreTranslate \/ CannotLook
             \/ Record \/ Reply
      PROVE  pc' \notin {"start", "look"}
  BY <1>2 DEF Help, TextTooLong, StartDetect, AskLibreTranslate, CannotLook, JustAnswer,
              Record, Reply
<1>3. ASSUME DetectFails \/ DetectNothing \/ TranslateReturns \/ WikiReturns
      PROVE  pc' = "record"
  BY <1>3 DEF DetectFails, DetectNothing, TranslateReturns, WikiReturns, Fail, Finish
<1>4. ASSUME NEW l \in Langs, AlreadyTarget(l) \/ StartTranslate(l)
      PROVE  pc' \notin {"start", "look"}
  BY <1>4 DEF AlreadyTarget, StartTranslate, Finish
<1>5. ASSUME NEW q \in Queries, LookEmoji(q) PROVE pc' = "record"
  BY <1>5 DEF LookEmoji, Finish
<1>6. QED
  BY <1>1, <1>2, <1>3, <1>4, <1>5 DEF Next, IdleInv

LEMMA LookSteps ==
  [Next]_vars => UNCHANGED look \/ Wiki!Begin \/ (pc = "look" /\ Wiki!Step)
<1> USE DEF look
<1>1. ASSUME Help \/ TextTooLong \/ DetectFails \/ DetectNothing \/ TranslateReturns
             \/ StartDetect \/ AskLibreTranslate
      PROVE  UNCHANGED look
  BY <1>1 DEF Help, TextTooLong, DetectFails, DetectNothing, TranslateReturns,
              StartDetect, AskLibreTranslate
<1>2. ASSUME NEW l \in Langs, AlreadyTarget(l) \/ StartTranslate(l)
      PROVE  UNCHANGED look
  BY <1>2 DEF AlreadyTarget, StartTranslate
<1>3. ASSUME CannotLook \/ WikiReturns PROVE UNCHANGED look
  BY <1>3 DEF CannotLook, WikiReturns
<1>4. ASSUME StartWiki \/ AskWiki PROVE Wiki!Begin \/ (pc = "look" /\ Wiki!Step)
  BY <1>4 DEF StartWiki, AskWiki
<1>5. ASSUME NEW q \in Queries, LookEmoji(q) PROVE UNCHANGED look
  BY <1>5 DEF LookEmoji
<1>6. ASSUME Record \/ Reply \/ AtRest \/ UNCHANGED vars PROVE UNCHANGED look
  BY <1>6 DEF Record, Reply, AtRest, vars
<1>7. QED
  BY <1>1, <1>2, <1>3, <1>4, <1>5, <1>6 DEF Next

(* The clients keep what they promise of a call and of a Look.             *)
LEMMA ClientsKept == ASSUME JobInv, [Next]_vars PROVE CallInv' /\ LookInv' /\ IdleInv'
<1>1. CallInv'
  BY CallSteps, CallIdle, CallBegins, CallGoesOn DEF JobInv
<1>2. LookInv'
  BY LookSteps, LookIdle, LookBegins, LookGoesOn DEF JobInv, PageInv
<1>3. QED
  BY <1>1, <1>2, IdleKept DEF JobInv

(* The deadline is set when the context is made and never moved: not even  *)
(* the second call of a translation gets a new one.                        *)
LEMMA ClockKept == ASSUME JobInv, [Next]_vars PROVE ClockInv'
<1>1. /\ now \in Nat /\ deadline \in Int /\ started \in Nat
      /\ pc \in {"detect", "translate", "look"} => deadline = started + JobTimeout
      /\ now <= started + Later(JobTimeout, 0)
  BY DEF JobInv, ClockInv, SharedBudget
<1>2. cancelled \in BOOLEAN
  BY DEF JobInv, ClockInv
<1>3. ASSUME UNCHANGED <<now, deadline, cancelled, started>>,
             \/ pc' = pc \/ pc' \notin {"detect", "translate", "look"}
             \/ pc = "detect" /\ pc' = "translate"
      PROVE  ClockInv'
  BY <1>3 DEF JobInv, ClockInv, SharedBudget
<1>4. ASSUME StartContext PROVE ClockInv'
  <2>1. started' = now /\ deadline' = now + JobTimeout /\ now' = now /\ cancelled' = cancelled
    BY <1>4 DEF StartContext, clock
  <2>2. SharedBudget'
    BY <1>1, <2>1, BudgetInt DEF SharedBudget, Later
  <2>3. QED
    BY <1>1, <1>2, <2>1, <2>2, BudgetInt DEF ClockInv
<1>5. ASSUME pc \in {"detect", "translate", "look"}, pc' = pc, started' = started,
             LT!Step \/ Wiki!Step
      PROVE  ClockInv'
  <2>1. /\ now' \in Nat /\ deadline' = deadline /\ cancelled' \in BOOLEAN
        /\ now' <= Later(deadline, now)
    BY <1>5, AskClock, LookClock DEF JobInv
  <2>2. now' <= started + Later(JobTimeout, 0)
    BY <1>1, <1>5, <2>1, BudgetInt DEF Later
  <2>3. SharedBudget'
    BY <1>5, <2>2 DEF SharedBudget
  <2>4. QED
    BY <1>1, <1>5, <2>1, <2>3 DEF ClockInv
<1>6. ASSUME Help \/ TextTooLong \/ CannotLook PROVE ClockInv'
  BY <1>3, <1>6 DEF Help, TextTooLong, CannotLook, JustAnswer, clock
<1>7. ASSUME DetectFails \/ DetectNothing \/ TranslateReturns PROVE ClockInv'
  <2>1. UNCHANGED <<now, deadline, cancelled, started>> /\ pc' = "record"
    BY <1>7 DEF DetectFails, DetectNothing, TranslateReturns, Fail, Finish, clock
  <2>2. QED
    BY <1>3, <2>1
<1>8. ASSUME WikiReturns PROVE ClockInv'
  <2>1. UNCHANGED <<now, deadline, cancelled, started>> /\ pc' = "record"
    BY <1>8 DEF WikiReturns, Finish, clock
  <2>2. QED
    BY <1>3, <2>1
<1>9. ASSUME NEW l \in Langs, AlreadyTarget(l) \/ StartTranslate(l) PROVE ClockInv'
  <2>1. /\ UNCHANGED <<now, deadline, cancelled, started>>
        /\ pc' = "record" \/ (pc = "detect" /\ pc' = "translate")
    BY <1>9 DEF AlreadyTarget, StartTranslate, Detected, Returned, Finish, clock
  <2>2. QED
    BY <1>3, <2>1
<1>10. ASSUME Record \/ Reply \/ AtRest \/ UNCHANGED vars PROVE ClockInv'
  <2>1. UNCHANGED <<now, deadline, cancelled, started>> /\ (pc' = pc \/ pc' \in {"reply", "done"})
    BY <1>10 DEF Record, Reply, AtRest, vars, clock
  <2>2. QED
    BY <1>3, <2>1
<1>11. ASSUME StartDetect \/ StartWiki \/ \E q \in Queries : LookEmoji(q) PROVE ClockInv'
  BY <1>4, <1>11 DEF StartDetect, StartWiki, LookEmoji, StartLook
<1>12. ASSUME AskLibreTranslate \/ AskWiki PROVE ClockInv'
  BY <1>5, <1>12 DEF AskLibreTranslate, AskWiki
<1>13. QED
  BY <1>6, <1>7, <1>8, <1>9, <1>10, <1>11, <1>12 DEF Next

LEMMA AppendToOne == ASSUME NEW x, NEW y PROVE Append(<<x>>, y) = <<x, y>>
<1> DEFINE s == Append(<<x>>, y)
           t == <<x, y>>
<1>1. s \in Seq({x, y}) /\ Len(s) = 2 /\ s[1] = x /\ s[2] = y
  OBVIOUS
<1>2. t \in Seq({x, y}) /\ Len(t) = 2 /\ t[1] = x /\ t[2] = y
  OBVIOUS
<1>3. \A i \in 1..2 : i = 1 \/ i = 2
  OBVIOUS
<1> HIDE DEF s, t
<1>4. s = t
  BY <1>1, <1>2, <1>3, SeqEqual
<1>5. QED
  BY <1>4 DEF s, t

(* What was asked of LibreTranslate decides the answer.                    *)
LEMMA AskKept == ASSUME JobInv, [Next]_vars PROVE JobTypes' /\ AskInv'
<1> USE DEF JobInv, JobTypes, AskInv, given
<1>1. ASSUME Help \/ TextTooLong \/ CannotLook PROVE JobTypes' /\ AskInv'
  <2>1. /\ pc = "start" /\ pc' = "reply" /\ job' = job /\ lang' = lang /\ asked' = asked
        /\ ending'.answer \in Silent
    BY <1>1 DEF Help, TextTooLong, CannotLook, JustAnswer, Silent
  <2>2. QED
    BY <2>1 DEF Silent
<1>2. ASSUME StartDetect \/ StartWiki PROVE JobTypes' /\ AskInv'
  BY <1>2 DEF StartDetect, StartWiki, StartLook
<1>3. ASSUME AskLibreTranslate \/ AskWiki PROVE JobTypes' /\ AskInv'
  BY <1>3 DEF AskLibreTranslate, AskWiki
<1>4. ASSUME DetectFails \/ DetectNothing PROVE JobTypes' /\ AskInv'
  <2>1. PICK e : /\ pc = "detect" /\ pc' = "record" /\ job' = job /\ lang' = lang
                 /\ asked' = Append(asked, [call |-> "detect", result |-> e])
                 /\ ending'.answer = TranslateError(e)
    BY <1>4 DEF DetectFails, DetectNothing, Returned, Asked, Fail, Finish
  <2>2. ending'.answer \notin {"translated", "already_target"}
    BY <2>1 DEF TranslateError
  <2>3. Len(asked') = 1
    BY <2>1
  <2>4. QED
    BY <2>1, <2>2, <2>3
<1>5. ASSUME NEW l \in Langs, AlreadyTarget(l) PROVE JobTypes' /\ AskInv'
  <2>1. /\ pc = "detect" /\ pc' = "record" /\ job' = job /\ lang' = l
        /\ asked' = Append(asked, Detection) /\ ending'.answer = "already_target"
        /\ OwnTarget(l)
    BY <1>5, TargetOfFirst DEF AlreadyTarget, Detected, Returned, Asked, Finish, Detection
  <2>2. Len(asked') = 1
    BY <2>1
  <2>3. QED
    BY <2>1, <2>2
<1>6. ASSUME NEW l \in Langs, StartTranslate(l) PROVE JobTypes' /\ AskInv'
  <2>1. /\ pc = "detect" /\ pc' = "translate" /\ job' = job /\ lang' = l
        /\ asked' = Append(asked, Detection) /\ ~OwnTarget(l)
    BY <1>6, TargetOfFirst DEF StartTranslate, Detected, Returned, Asked, Detection
  <2>2. QED
    BY <2>1
<1>7. ASSUME TranslateReturns PROVE JobTypes' /\ AskInv'
  <2>1. /\ pc = "translate" /\ pc' = "record" /\ job' = job /\ lang' = lang
        /\ asked' = Append(asked, [call |-> "translate", result |-> result])
        /\ \/ result = "ok" /\ ending'.answer = "translated"
           \/ result # "ok" /\ ending'.answer = TranslateError(result)
    BY <1>7 DEF TranslateReturns, Returned, Asked, Fail, Finish
  <2>2. asked' = <<Detection, [call |-> "translate", result |-> result]>>
    <3> DEFINE r == [call |-> "translate", result |-> result]
    <3>1. asked = <<Detection>> /\ asked' = Append(asked, r)
      BY <2>1
    <3> HIDE DEF r
    <3>2. asked' = <<Detection, r>>
      BY <3>1, AppendToOne
    <3>3. QED
      BY <3>2 DEF r
  <2>3. Len(asked') = 2
    BY <2>2
  <2>4. TranslateError(result) \notin {"translated", "already_target"}
    BY DEF TranslateError
  <2>5. ending'.answer = "translated" => asked' = <<Detection, Translation>>
    <3>1. ending'.answer = "translated" => result = "ok"
      BY <2>1, <2>4
    <3>2. QED
      BY <2>2, <3>1 DEF Translation
  <2>6. ending'.answer # "already_target" /\ ~OwnTarget(lang)
    BY <2>1, <2>4
  <2>7. QED
    BY <2>1, <2>3, <2>5, <2>6
<1>8. ASSUME WikiReturns PROVE JobTypes' /\ AskInv'
  <2>1. /\ pc = "look" /\ pc' = "record" /\ job' = job /\ lang' = lang /\ asked' = asked
        /\ ending'.answer \notin {"translated", "already_target"}
    BY <1>8 DEF WikiReturns, Finish, LookupError
  <2>2. QED
    BY <2>1
<1>9. ASSUME NEW q \in Queries, LookEmoji(q) PROVE JobTypes' /\ AskInv'
  <2>1. /\ pc = "start" /\ pc' = "record" /\ job' = job /\ lang' = lang /\ asked' = asked
        /\ ending'.answer \in {"found", "not_found"}
    BY <1>9 DEF LookEmoji, StartLook, Finish
  <2>2. QED
    BY <2>1
<1>10. ASSUME Record \/ Reply \/ AtRest \/ UNCHANGED vars PROVE JobTypes' /\ AskInv'
  BY <1>10 DEF Record, Reply, AtRest, vars
<1>11. QED
  BY <1>1, <1>2, <1>3, <1>4, <1>5, <1>6, <1>7, <1>8, <1>9, <1>10 DEF Next

(* errorKind and TranslateError agree on every error, and so do            *)
(* lookupErrorKind and LookupError.                                        *)
LEMMA ErrorsAgree ==
  \A e : /\ Tells(Outcome("error", ErrorKind(e)), TranslateError(e))
         /\ Tells(Outcome("error", LookupErrorKind(e)), LookupError(e))
<1> SUFFICES ASSUME NEW e
             PROVE  /\ Tells(Outcome("error", ErrorKind(e)), TranslateError(e))
                    /\ Tells(Outcome("error", LookupErrorKind(e)), LookupError(e))
  OBVIOUS
<1> USE DEF Tells, Outcome
<1>1. /\ LT!Statuses = {"bad_request", "auth", "other_status", "rate_limited", "server"}
      /\ Wiki!Statuses = {"missing", "other_status", "rate_limited", "server"}
  BY DEF LT!Statuses, Wiki!Statuses
<1>2. IsDeadlineExceeded(e) <=> e \in {"client_timeout", "expired", "body_timeout"}
  BY DEF IsDeadlineExceeded
<1>3. Tells(Outcome("error", ErrorKind(e)), TranslateError(e))
  <2>1. CASE e = "auth"
    <3>1. ErrorKind(e) = "auth" /\ TranslateError(e) = "msg_auth"
      BY <1>1, <1>2, <2>1 DEF ErrorKind, TranslateError
    <3>2. QED
      BY <3>1
  <2>2. CASE e # "auth" /\ e \in LT!Statuses
    <3>1. ErrorKind(e) = "http" /\ TranslateError(e) \in {"msg_unsupported", "msg_unavailable"}
      BY <1>1, <1>2, <2>2 DEF ErrorKind, TranslateError
    <3>2. QED
      BY <3>1
  <2>3. CASE IsDeadlineExceeded(e)
    <3>1. ErrorKind(e) = "timeout" /\ TranslateError(e) = "msg_timeout"
      BY <1>1, <1>2, <2>3 DEF ErrorKind, TranslateError
    <3>2. QED
      BY <3>1
  <2>4. CASE e \notin LT!Statuses /\ ~IsDeadlineExceeded(e)
    <3>1. ErrorKind(e) = "network" /\ TranslateError(e) = "msg_unavailable"
      BY <1>1, <1>2, <2>4 DEF ErrorKind, TranslateError
    <3>2. QED
      BY <3>1
  <2>5. QED
    BY <2>1, <2>2, <2>3, <2>4
<1>4. Tells(Outcome("error", LookupErrorKind(e)), LookupError(e))
  <2>1. CASE e = "rate_limited"
    <3>1. LookupErrorKind(e) = "rate_limited" /\ LookupError(e) = "msg_rate_limited"
      BY <1>1, <1>2, <2>1 DEF LookupErrorKind, LookupError
    <3>2. QED
      BY <3>1
  <2>2. CASE e # "rate_limited" /\ e \in Wiki!Statuses
    <3>1. LookupErrorKind(e) = "http" /\ LookupError(e) = "msg_lookup_unavailable"
      BY <1>1, <1>2, <2>2 DEF LookupErrorKind, LookupError
    <3>2. QED
      BY <3>1
  <2>3. CASE IsDeadlineExceeded(e)
    <3>1. LookupErrorKind(e) = "timeout" /\ LookupError(e) = "msg_lookup_timeout"
      BY <1>1, <1>2, <2>3 DEF LookupErrorKind, LookupError
    <3>2. QED
      BY <3>1
  <2>4. CASE e \notin Wiki!Statuses /\ ~IsDeadlineExceeded(e)
    <3>1. LookupErrorKind(e) = "network" /\ LookupError(e) = "msg_lookup_unavailable"
      BY <1>1, <1>2, <2>4 DEF LookupErrorKind, LookupError
    <3>2. QED
      BY <3>1
  <2>5. QED
    BY <2>1, <2>2, <2>3, <2>4
<1>5. QED
  BY <1>3, <1>4

(* An outcome is recorded before the answer that tells of it.              *)
LEMMA StoryKept == ASSUME JobInv, [Next]_vars PROVE StoryInv'
<1> USE DEF JobInv, StoryInv, told
<1>1. ASSUME Help \/ TextTooLong \/ CannotLook PROVE StoryInv'
  <2>1. /\ pc = "start" /\ pc' = "reply" /\ recorded' = recorded /\ answers' = answers
        /\ ending'.answer \in Silent
    BY <1>1 DEF Help, TextTooLong, CannotLook, JustAnswer, Silent
  <2>2. QED
    BY <2>1
<1>2. ASSUME UNCHANGED told, pc \in {"start", "detect", "translate", "look"},
             pc' \in {"detect", "translate", "look"}
      PROVE  StoryInv'
  BY <1>2
<1>3. ASSUME StartDetect \/ StartWiki \/ AskLibreTranslate \/ AskWiki PROVE StoryInv'
  BY <1>2, <1>3 DEF StartDetect, StartWiki, StartLook, AskLibreTranslate, AskWiki
<1>4. ASSUME UNCHANGED told, pc \in {"start", "detect", "translate", "look"}, pc' = "record",
             Tells(ending'.record, ending'.answer)
      PROVE  StoryInv'
  BY <1>4
<1>5. ASSUME DetectFails \/ DetectNothing PROVE StoryInv'
  <2>1. PICK e : Returned("detect") /\ Fail(e) /\ UNCHANGED told
    BY <1>5 DEF DetectFails, DetectNothing
  <2>2. QED
    BY <1>4, <2>1, ErrorsAgree DEF Returned, Fail, Finish
<1>6. ASSUME NEW l \in Langs, AlreadyTarget(l) \/ StartTranslate(l) PROVE StoryInv'
  BY <1>2, <1>4, <1>6
     DEF AlreadyTarget, StartTranslate, Detected, Returned, Finish, Outcome, Tells
<1>7. ASSUME TranslateReturns PROVE StoryInv'
  <2>1. UNCHANGED told /\ pc = "translate"
    BY <1>7 DEF TranslateReturns, Returned
  <2>2. CASE result = "ok"
    BY <1>4, <1>7, <2>1, <2>2 DEF TranslateReturns, Finish, Outcome, Tells
  <2>3. CASE result # "ok"
    BY <1>4, <1>7, <2>1, <2>3, ErrorsAgree DEF TranslateReturns, Fail, Finish
  <2>4. QED
    BY <2>2, <2>3
<1>8. ASSUME WikiReturns PROVE StoryInv'
  <2>1. UNCHANGED told /\ pc = "look"
    BY <1>8 DEF WikiReturns
  <2>2. CASE reply.page # "none"
    BY <1>4, <1>8, <2>1, <2>2 DEF WikiReturns, Finish, Outcome, Tells
  <2>3. CASE reply.page = "none" /\ reply.error = "not_found"
    BY <1>4, <1>8, <2>1, <2>3 DEF WikiReturns, Finish, Outcome, Tells
  <2>4. CASE reply.page = "none" /\ reply.error # "not_found"
    BY <1>4, <1>8, <2>1, <2>4, ErrorsAgree DEF WikiReturns, Finish
  <2>5. QED
    BY <2>2, <2>3, <2>4
<1>9. ASSUME NEW q \in Queries, LookEmoji(q) PROVE StoryInv'
  BY <1>4, <1>9 DEF LookEmoji, StartLook, Finish, Outcome, Tells
<1>10. ASSUME Record PROVE StoryInv'
  <2>1. /\ pc = "record" /\ pc' = "reply" /\ ending' = ending /\ answers' = answers
        /\ recorded' = Append(recorded, ending.record)
    BY <1>10 DEF Record
  <2>2. recorded' = <<ending.record>>
    BY <2>1
  <2>3. QED
    BY <2>1, <2>2
<1>11. ASSUME Reply PROVE StoryInv'
  <2>1. PICK sent \in BOOLEAN :
          /\ pc = "reply" /\ pc' = "done" /\ ending' = ending /\ recorded' = recorded
          /\ answers' = Append(answers, [answer |-> ending.answer, sent |-> sent])
    BY <1>11 DEF Reply
  <2>2. Len(answers') = 1 /\ answers'[1].answer = ending.answer
    BY <2>1
  <2>3. QED
    BY <2>1, <2>2
<1>12. ASSUME AtRest \/ UNCHANGED vars PROVE StoryInv'
  BY <1>12 DEF AtRest, vars
<1>13. QED
  BY <1>1, <1>3, <1>5, <1>6, <1>7, <1>8, <1>9, <1>10, <1>11, <1>12 DEF Next

(* A Look begins with its job and ends before the answer is chosen.        *)
LEMMA PageKept == ASSUME JobInv, [Next]_vars PROVE PageInv'
<1> USE DEF JobInv, PageInv
<1>1. ASSUME UNCHANGED look, pc \in {"start", "detect", "translate"},
             pc' # "look"
      PROVE  PageInv'
  BY <1>1 DEF look
<1>2. ASSUME Help \/ TextTooLong \/ CannotLook PROVE PageInv'
  BY <1>1, <1>2 DEF Help, TextTooLong, CannotLook, JustAnswer
<1>3. ASSUME StartDetect \/ AskLibreTranslate PROVE PageInv'
  BY <1>1, <1>3 DEF StartDetect, AskLibreTranslate
<1>4. ASSUME DetectFails \/ DetectNothing \/ TranslateReturns PROVE PageInv'
  BY <1>1, <1>4 DEF DetectFails, DetectNothing, TranslateReturns, Returned, Fail, Finish
<1>5. ASSUME NEW l \in Langs, AlreadyTarget(l) \/ StartTranslate(l) PROVE PageInv'
  BY <1>1, <1>5 DEF AlreadyTarget, StartTranslate, Detected, Returned, Finish
<1>6. ASSUME NEW q \in Queries, LookEmoji(q) PROVE PageInv'
  BY <1>1, <1>6 DEF LookEmoji, StartLook, Finish
<1>7. ASSUME StartWiki PROVE PageInv'
  BY <1>7, LookBegins DEF StartWiki
<1>8. ASSUME AskWiki PROVE PageInv'
  BY <1>8, LookGoesOn DEF AskWiki
<1>9. ASSUME WikiReturns PROVE PageInv'
  <2>1. /\ stage = "over" /\ reply.suggests \in BOOLEAN
        /\ reply.page = "none" /\ reply.suggests => reply.error = "not_found"
    BY <1>9 DEF WikiReturns, LookInv, Wiki!TypeOK
  <2>2. pc' = "record" /\ UNCHANGED look
    BY <1>9 DEF WikiReturns, Finish
  <2>3. CASE reply.page # "none"
    <3>1. ending'.answer = IF reply.suggests THEN "found_and_suggestions" ELSE "found"
      BY <1>9, <2>3 DEF WikiReturns, Finish
    <3>2. QED
      BY <2>1, <2>2, <2>3, <3>1 DEF look
  <2>4. CASE reply.page = "none" /\ reply.error = "not_found"
    <3>1. ending'.answer = IF reply.suggests THEN "not_found_but" ELSE "not_found"
      BY <1>9, <2>4 DEF WikiReturns, Finish
    <3>2. QED
      BY <2>1, <2>2, <2>4, <3>1 DEF look
  <2>5. CASE reply.page = "none" /\ reply.error # "not_found"
    <3>1. ending'.answer \in {"msg_rate_limited", "msg_lookup_timeout", "msg_lookup_unavailable"}
      BY <1>9, <2>5 DEF WikiReturns, Finish, LookupError
    <3>2. QED
      BY <2>1, <2>2, <2>5, <3>1 DEF look
  <2>6. QED
    BY <2>3, <2>4, <2>5
<1>10. ASSUME Record \/ Reply PROVE PageInv'
  <2>1. /\ pc \in {"record", "reply"} /\ pc' \in {"reply", "done"}
        /\ UNCHANGED look /\ ending' = ending
    BY <1>10 DEF Record, Reply
  <2>2. QED
    BY <2>1 DEF look
<1>11. ASSUME AtRest \/ UNCHANGED vars PROVE PageInv'
  BY <1>11 DEF AtRest, vars
<1>12. QED
  BY <1>2, <1>3, <1>4, <1>5, <1>6, <1>7, <1>8, <1>9, <1>10, <1>11 DEF Next

(* What is shown is what Look makes of the list of the boot, for one of    *)
(* the orders of the map, and chooses the answer.                          *)
EmojiInv ==
  /\ \E order \in Iterations : emojis = newEmojiStore(order)
  /\ shown.query # None =>
       /\ shown.query \in Queries
       /\ shown.chars = Look(emojis, shown.query)
       /\ pc \in {"record", "reply", "done"}
       /\ ending.answer = IF shown.chars # <<>> THEN "found" ELSE "not_found"

LEMMA EmojiKept == ASSUME EmojiInv, [Next]_vars PROVE EmojiInv'
<1>1. CASE UNCHANGED vars \/ AtRest
  BY <1>1 DEF EmojiInv, AtRest, vars
<1>2. CASE Help \/ TextTooLong \/ StartDetect \/ CannotLook
  BY <1>2 DEF EmojiInv, Help, TextTooLong, StartDetect, CannotLook, given
<1>3. CASE AskLibreTranslate \/ DetectFails \/ DetectNothing \/ TranslateReturns
  BY <1>3 DEF EmojiInv, AskLibreTranslate, DetectFails, DetectNothing, TranslateReturns,
              Returned, given
<1>4. CASE \E l \in Langs : AlreadyTarget(l) \/ StartTranslate(l)
  BY <1>4 DEF EmojiInv, AlreadyTarget, StartTranslate, Detected, Returned, given
<1>5. CASE StartWiki \/ AskWiki \/ WikiReturns
  BY <1>5 DEF EmojiInv, StartWiki, StartLook, AskWiki, WikiReturns, given
<1>6. ASSUME NEW q \in Queries, LookEmoji(q) PROVE EmojiInv'
  BY <1>6 DEF EmojiInv, LookEmoji, StartLook, Finish, given
<1>7. CASE Record \/ Reply
  BY <1>7 DEF EmojiInv, Record, Reply, given
<1>8. QED
  BY <1>1, <1>2, <1>3, <1>4, <1>5, <1>6, <1>7 DEF Next

LEMMA EmojiInvariant == Spec => []EmojiInv
<1>1. Init => EmojiInv
  BY DEF Init, EmojiInv
<1>2. EmojiInv /\ [Next]_vars => EmojiInv'
  BY EmojiKept
<1>3. QED
  BY <1>1, <1>2, PTL DEF Spec

LEMMA JobInvariant == Spec => []JobInv
<1>1. JobInv /\ [Next]_vars => JobInv'
  BY ClientsKept, ClockKept, AskKept, StoryKept, PageKept DEF JobInv
<1>2. QED
  BY JobInit, <1>1, PTL DEF Spec

-----------------------------------------------------------------------------
(* Every variable keeps its type, and the histories their bounds.          *)
THEOREM JobTypeCorrect == Spec => []TypeOK
<1>1. JobInv => TypeOK
  <2> SUFFICES ASSUME JobInv PROVE TypeOK
    OBVIOUS
  <2>1. /\ now \in Nat /\ deadline \in Int /\ cancelled \in BOOLEAN /\ started \in Nat
        /\ LT!TypeOK /\ Wiki!TypeOK
    BY DEF JobInv, ClockInv, CallInv, LookInv
  <2>2. JobTypes
    BY DEF JobInv
  <2>3. Len(recorded) \in 0..1
    <3>1. recorded = <<>> \/ recorded = <<ending.record>>
      BY <2>2 DEF JobInv, JobTypes, StoryInv
    <3>2. QED
      BY <3>1
  <2>4. Len(answers) \in 0..1
    <3>1. answers = <<>> \/ Len(answers) = 1
      BY DEF JobInv, StoryInv
    <3>2. QED
      BY <3>1
  <2>5. Len(asked) <= 2
    <3>1. Len(<<>>) = 0 /\ Len(<<Detection>>) = 1
      OBVIOUS
    <3>2. QED
      BY <2>2, <3>1 DEF JobInv, JobTypes, AskInv
  <2>6. \A n \in 0..1 : n <= 1
    OBVIOUS
  <2>7. QED
    BY <2>1, <2>2, <2>3, <2>4, <2>5, <2>6 DEF TypeOK, JobTypes
<1>2. QED
  BY JobInvariant, <1>1, PTL

(* A job that ends answered the room exactly once, on every path through   *)
(* process.                                                                *)
THEOREM OneAnswer == Spec => []AnsweredOnce
<1>1. JobInv => AnsweredOnce
  BY DEF JobInv, StoryInv, AnsweredOnce
<1>2. QED
  BY JobInvariant, <1>1, PTL

(* The outcome recorded for a job and the answer it gave tell the same     *)
(* story, whatever failed: errorKind and TranslateError, written apart,    *)
(* sort every error alike, and nothing is recorded when no source was      *)
(* asked.                                                                  *)
THEOREM OneStory == Spec => []MetricsAgree
<1>1. JobInv => MetricsAgree
  <2> SUFFICES ASSUME JobInv, pc = "done"
               PROVE  LET a == answers[1].answer
                      IN  IF a \in Silent THEN recorded = <<>>
                          ELSE Len(recorded) = 1 /\ Tells(recorded[1], a)
    BY DEF MetricsAgree, Silent
  <2>1. answers[1].answer = ending.answer
    BY DEF JobInv, StoryInv
  <2>2. \/ recorded = <<>> /\ ending.answer \in Silent
        \/ recorded = <<ending.record>> /\ Tells(ending.record, ending.answer)
    BY DEF JobInv, StoryInv
  <2>3. Tells(ending.record, ending.answer) => ending.answer \notin Silent
    BY DEF Tells, Silent
  <2>4. recorded = <<ending.record>> => Len(recorded) = 1 /\ recorded[1] = ending.record
    OBVIOUS
  <2>5. QED
    BY <2>1, <2>2, <2>3, <2>4
<1>2. QED
  BY JobInvariant, <1>1, PTL

(* A translation is announced only after both calls succeeded, in order,   *)
(* and a text is left alone exactly when ResolveTarget leads its language  *)
(* to itself.                                                              *)
THEOREM NoFeignedTranslation == Spec => []TranslatedForReal
<1>1. JobInv => TranslatedForReal
  BY DEF JobInv, CallInv, StoryInv, AskInv, TranslatedForReal, Detection, Translation
<1>2. QED
  BY JobInvariant, <1>1, PTL

(* All the exchanges and pauses of a job, detection and translation or the *)
(* three gets of a lookup, fit into one JobTimeout.                        *)
THEOREM OneBudget == Spec => []SharedBudget
<1>1. JobInv => SharedBudget
  BY DEF JobInv, ClockInv
<1>2. QED
  BY JobInvariant, <1>1, PTL

(* The comments on what the two clients retry are kept: what may pass is   *)
(* given up only when the retries are used up or the context has ended,    *)
(* and what they rule out is not sent again (libretranslate.go, doJSON;    *)
(* httpjson.go, get).                                                      *)
THEOREM RetriedAsTold == Spec => []RetriesAsTold
<1>1. JobInv => RetriesAsTold
  BY DEF JobInv, CallInv, LookInv, RetriesAsTold
<1>2. QED
  BY JobInvariant, <1>1, PTL

(* A lookup says "not found" only on the word of the wiki: the title is    *)
(* none, and the search answered.                                          *)
THEOREM NotFoundIsTold == Spec => []NotFoundIsTheWikis
<1>1. JobInv => NotFoundIsTheWikis
  BY DEF JobInv, LookInv, NotFoundIsTheWikis
<1>2. QED
  BY JobInvariant, <1>1, PTL

(* What is shown of the wiki is what it last sent, with the alternatives   *)
(* it had, up to the answer of the job.                                    *)
THEOREM AnswerIsWhole == Spec => []WikiAnswerIsWhole
<1>1. JobInv => WikiAnswerIsWhole
  <2> SUFFICES ASSUME JobInv PROVE WikiAnswerIsWhole
    OBVIOUS
  <2>1. Wiki!PageIsTheLastOne
    BY DEF JobInv, LookInv
  <2>2. ASSUME pc = "done", stage = "over"
        PROVE  /\ reply.page # "none" <=> ending.answer \in {"found", "found_and_suggestions"}
               /\ reply.suggests <=> ending.answer \in {"found_and_suggestions", "not_found_but"}
               /\ answers[1].answer = ending.answer
    BY <2>2 DEF JobInv, PageInv, StoryInv
  <2>3. QED
    BY <2>1, <2>2 DEF WikiAnswerIsWhole
<1>2. QED
  BY JobInvariant, <1>1, PTL

(* The emojis shown are the best of the dataset, in order, and "not found" *)
(* is the answer only when none matches, for every dataset and every order *)
(* in which its map is walked.                                             *)
THEOREM BestEmojisShown == Spec => []EmojisAreTheBest
<1>1. JobInv /\ EmojiInv => EmojisAreTheBest
  <2> SUFFICES ASSUME JobInv, EmojiInv, shown.query # None
               PROVE  /\ IsBest(shown.chars, shown.query)
                      /\ pc = "done" => (answers[1].answer = "found"
                                          <=> Matching(shown.query) # {})
    BY DEF EmojisAreTheBest
  <2>1. /\ IsBest(shown.chars, shown.query)
        /\ shown.chars = <<>> <=> Matching(shown.query) = {}
    BY LookIsBest DEF EmojiInv
  <2>2. ending.answer = IF shown.chars # <<>> THEN "found" ELSE "not_found"
    BY DEF EmojiInv
  <2>3. pc = "done" => answers[1].answer = ending.answer
    BY DEF JobInv, StoryInv
  <2>4. QED
    BY <2>1, <2>2, <2>3
<1>2. QED
  BY JobInvariant, EmojiInvariant, <1>1, PTL

-----------------------------------------------------------------------------
(* A job is what JobLife has of one. *)

(* Where the job is tells whether it is a lookup.                          *)
KindInv ==
  /\ pc \in {"detect", "translate"} => ~IsLookup
  /\ pc = "look" => IsLookup

(* Each step of the job is a step of its life, or shows nothing of it.     *)
LEMMA LifeMoves ==
  ASSUME JobInv, KindInv, [Next]_vars
  PROVE  KindInv' /\ [Life!Next]_(Life!life)
<1> USE DEF KindInv, IsLookup, Stage, Life!Next, Life!life
(* The job goes on, with nothing to show for it.                           *)
<1>1. ASSUME pc \in {"start", "detect", "translate", "look"},
             pc' \in {"detect", "translate", "look"}, UNCHANGED <<job, told>>,
             pc' = "look" <=> IsLookup
      PROVE  KindInv' /\ [Life!Next]_(Life!life)
  BY <1>1 DEF told
(* It chooses its answer.                                                  *)
<1>2. ASSUME pc \in {"start", "detect", "translate", "look"}, pc' \in {"record", "reply"},
             UNCHANGED <<job, told>>
      PROVE  KindInv' /\ [Life!Next]_(Life!life)
  BY <1>2 DEF told, Life!Work
<1>3. CASE Help \/ TextTooLong \/ CannotLook
  BY <1>2, <1>3 DEF Help, TextTooLong, CannotLook, JustAnswer, given
<1>4. CASE StartDetect \/ StartWiki
  BY <1>1, <1>4 DEF StartDetect, StartWiki, StartLook, given
<1>5. CASE AskLibreTranslate \/ AskWiki
  BY <1>1, <1>5 DEF AskLibreTranslate, AskWiki, given
<1>6. CASE DetectFails \/ DetectNothing \/ TranslateReturns \/ WikiReturns
  BY <1>2, <1>6 DEF DetectFails, DetectNothing, TranslateReturns, WikiReturns,
                    Returned, Fail, Finish, given
<1>7. ASSUME NEW l \in Langs, AlreadyTarget(l)
      PROVE  KindInv' /\ [Life!Next]_(Life!life)
  BY <1>2, <1>7 DEF AlreadyTarget, Detected, Returned, Finish, given
<1>8. ASSUME NEW l \in Langs, StartTranslate(l)
      PROVE  KindInv' /\ [Life!Next]_(Life!life)
  BY <1>1, <1>8 DEF StartTranslate, Detected, Returned, given
<1>9. ASSUME NEW q \in Queries, LookEmoji(q)
      PROVE  KindInv' /\ [Life!Next]_(Life!life)
  BY <1>2, <1>9 DEF LookEmoji, StartLook, Finish, given
<1>10. CASE Record
  <2>1. pc = "record" /\ pc' = "reply" /\ UNCHANGED <<job, answers>>
    BY <1>10 DEF Record, given
  <2>2. Len(recorded) = 0 /\ Len(recorded') = 1
    BY <1>10 DEF Record, JobInv, StoryInv
  <2>3. QED
    BY <2>1, <2>2 DEF Life!Record
<1>11. CASE Reply
  <2>1. pc = "reply" /\ pc' = "done" /\ UNCHANGED <<job, recorded>>
    BY <1>11 DEF Reply, given
  <2>2. Len(answers) = 0 /\ Len(answers') = 1
    BY <1>11 DEF Reply, JobInv, StoryInv
  <2>3. QED
    BY <2>1, <2>2 DEF Life!Reply
<1>12. CASE AtRest \/ UNCHANGED vars
  BY <1>12 DEF AtRest, vars
<1>13. QED
  BY <1>3, <1>4, <1>5, <1>6, <1>7, <1>8, <1>9, <1>10, <1>11, <1>12 DEF Next

(* A job, whatever it asks of whom and whatever comes back, is seen by the *)
(* rest of the process as JobLife has it: a translation that asked for     *)
(* something hands over one event and then one answer, every other job one *)
(* answer and no event.                                                    *)
THEOREM JobLifeImplemented == Spec => KeepsJobLife
<1>1. Init => KindInv /\ Life!Init
  BY DEF Init, KindInv, Stage, Life!Init
<1>2. JobInv /\ KindInv /\ [Next]_vars => KindInv' /\ [Life!Next]_(Life!life)
  BY LifeMoves
<1>3. QED
  BY <1>1, <1>2, JobInvariant, PTL DEF Spec, KeepsJobLife, Life!Spec

-----------------------------------------------------------------------------
(* LT_MAX_RETRIES below zero, which the configuration accepts. *)

NothingAsked ==
  MaxRetries < 0 =>
    /\ phase \in {"idle", "returned"} /\ seen = <<>>
    /\ lang = None /\ pc # "translate"
    /\ ending.answer \notin {"translated", "already_target"}

LEMMA NothingAskedKept == ASSUME NothingAsked, [Next]_vars PROVE NothingAsked'
<1> SUFFICES ASSUME MaxRetries < 0 PROVE NothingAsked'
  BY DEF NothingAsked
<1>1. /\ phase \in {"idle", "returned"} /\ seen = <<>> /\ lang = None /\ pc # "translate"
      /\ ending.answer \notin {"translated", "already_target"}
  BY DEF NothingAsked
<1>2. CASE Help \/ TextTooLong \/ CannotLook
  BY <1>1, <1>2 DEF NothingAsked, Help, TextTooLong, CannotLook, JustAnswer, ltCall
<1>3. CASE StartDetect
  BY <1>1, <1>3, RetriesInt DEF NothingAsked, StartDetect, LT!Begin, LT!Attempts
<1>4. ~AskLibreTranslate
  BY <1>1 DEF AskLibreTranslate, LT!Step, LT!DoOnce, LT!BackOff, LT!BackOffCut
<1>5. CASE DetectFails \/ DetectNothing
  BY <1>1, <1>5
     DEF NothingAsked, DetectFails, DetectNothing, Fail, Finish, TranslateError, ltCall
<1>6. \A l \in Langs : ~AlreadyTarget(l) /\ ~StartTranslate(l)
  BY <1>1 DEF AlreadyTarget, StartTranslate, Detected
<1>7. ~TranslateReturns
  BY <1>1 DEF TranslateReturns, Returned
<1>8. CASE StartWiki \/ AskWiki
  BY <1>1, <1>8 DEF NothingAsked, StartWiki, StartLook, AskWiki, ltCall
<1>9. CASE WikiReturns
  BY <1>1, <1>9 DEF NothingAsked, WikiReturns, Finish, LookupError, ltCall
<1>10. ASSUME NEW q \in Queries, LookEmoji(q) PROVE NothingAsked'
  BY <1>1, <1>10 DEF NothingAsked, LookEmoji, StartLook, Finish, ltCall
<1>11. CASE Record \/ Reply \/ AtRest \/ UNCHANGED vars
  BY <1>1, <1>11 DEF NothingAsked, Record, Reply, AtRest, vars, ltCall
<1>12. QED
  BY <1>2, <1>3, <1>4, <1>5, <1>6, <1>7, <1>8, <1>9, <1>10, <1>11 DEF Next

(* Negative retries turn every translation away: doJSON returns nil        *)
(* without an attempt, but Detect makes of the list it left empty an       *)
(* error, so that neither a translation nor "already in that language" is  *)
(* ever the answer.                                                        *)
THEOREM NegativeRetriesTranslateNothing ==
  ASSUME MaxRetries < 0
  PROVE  Spec => [](pc = "done" =>
                      answers[1].answer \notin {"translated", "already_target"})
<1>1. Init => NothingAsked
  BY DEF Init, LT!Init, NothingAsked, None
<1>2. NothingAsked /\ [Next]_vars => NothingAsked'
  BY NothingAskedKept
<1>3. NothingAsked /\ JobInv =>
        (pc = "done" => answers[1].answer \notin {"translated", "already_target"})
  BY DEF NothingAsked, JobInv, StoryInv
<1>4. QED
  BY <1>1, <1>2, <1>3, JobInvariant, PTL DEF Spec
=============================================================================
