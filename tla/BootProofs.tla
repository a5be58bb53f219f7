----------------------------- MODULE BootProofs -----------------------------
(***************************************************************************)
(* Proofs about Boot for any set of configurations that can be written: a  *)
(* boot that fails leaves nothing behind, one that succeeds has what it    *)
(* needs, and one that panics does so for a known reason.                  *)
(***************************************************************************)
EXTENDS Boot, TLAPS, SequenceTheorems

Parts == {"server", "influx", "languages"}
Steps == {"load", "logger", "server", "influx", "emoji", "log", "detector",
          "languages", "dispatcher", "select", "unwind", "exited"}

Owed == Range(deferred)

(* What was started and still runs has its call owed, except the server's  *)
(* goroutine, which nobody waits for; an early end is always unwound.      *)
UnwindInv ==
  /\ pc \in Steps /\ deferred \in Seq(Parts) /\ running \subseteq Parts
  /\ exit \in {"none", "error", "panic"}
  /\ exit # "none" <=> pc \in {"unwind", "exited"}
  /\ pc = "exited" => deferred = <<>>
  /\ running \ {"server"} \subseteq Owed
  /\ exit = "none" /\ "server" \in running => "server" \in Owed
  /\ listening => "server" \in Owed

-----------------------------------------------------------------------------
(* A call that is deferred is owed, and a call that was made is not any    *)
(* more, unless it was deferred twice.                                     *)
LEMMA Deferring ==
  ASSUME deferred \in Seq(Parts), NEW part \in Parts, Starts(part)
  PROVE  /\ deferred' \in Seq(Parts) /\ Owed' = Owed \cup {part}
         /\ running' = running \cup {part}
<1> DEFINE call == <<part>>
<1>1. call \in Seq(Parts) /\ Range(call) = {part}
  BY DEF Range
<1>2. deferred' = call \o deferred /\ running' = running \cup {part}
  BY DEF Starts
<1> HIDE DEF call
<1>3. call \o deferred \in Seq(Parts)
  BY <1>1, ConcatProperties
<1>4. Range(call \o deferred) = Range(call) \cup Range(deferred)
  BY <1>1, RangeConcatenation
<1>5. QED
  BY <1>1, <1>2, <1>3, <1>4 DEF Owed

LEMMA Undoing ==
  ASSUME deferred \in Seq(Parts), deferred # <<>>, deferred' = Tail(deferred)
  PROVE  /\ Head(deferred) \in Parts /\ deferred' \in Seq(Parts)
         /\ Owed \ {Head(deferred)} \subseteq Owed'
<1>1. /\ Head(deferred) \in Parts /\ deferred' \in Seq(Parts)
      /\ Len(deferred) \in Nat \ {0} /\ Len(deferred') = Len(deferred) - 1
      /\ \A i \in 1..Len(deferred') : deferred'[i] = deferred[i + 1]
      /\ Head(deferred) = deferred[1]
  BY HeadTailProperties, EmptySeq
<1>2. ASSUME NEW i \in 1..Len(deferred), i # 1
      PROVE  deferred[i] \in Owed'
  <2>1. i - 1 \in 1..Len(deferred') /\ deferred'[i - 1] = deferred[i]
    BY <1>1, <1>2
  <2>2. Owed' = {deferred'[k] : k \in 1..Len(deferred')}
    <3>1. \A s \in Seq(Parts) : Range(s) = {s[k] : k \in 1..Len(s)}
      BY RangeEquality
    <3>2. QED
      BY <1>1, <3>1 DEF Owed
  <2>3. QED
    BY <2>1, <2>2
<1>3. Owed = {deferred[i] : i \in 1..Len(deferred)}
  BY RangeEquality DEF Owed
<1>4. QED
  BY <1>1, <1>2, <1>3

(* run() begins with nothing started.                                      *)
LEMMA UnwindInit == Init => UnwindInv
<1> SUFFICES ASSUME Init PROVE UnwindInv
  OBVIOUS
<1>1. pc = "load" /\ running = {} /\ ~listening /\ deferred = <<>> /\ exit = "none"
  BY DEF Init
<1>2. QED
  BY <1>1 DEF UnwindInv, Steps

(* A step of run() that starts nothing: it goes on, or it ends.            *)
LEMMA PlainStep ==
  ASSUME UnwindInv, NEW step, At(step), step \notin {"unwind", "exited"},
         \/ \E to \in Steps \ {"unwind", "exited"} : Proceeds(to)
         \/ \E how \in {"error", "panic"} : Ends(how)
  PROVE  UnwindInv'
<1>1. /\ pc = step /\ exit = "none" /\ listening' = listening
      /\ running' = running /\ deferred' = deferred /\ Owed' = Owed
  BY DEF At, Proceeds, Goes, Ends, UnwindInv, Owed
<1>2. \/ pc' \in Steps \ {"unwind", "exited"} /\ exit' = exit
      \/ pc' = "unwind" /\ exit' \in {"error", "panic"}
  BY DEF Proceeds, Goes, Ends
<1>3. QED
  BY <1>1, <1>2 DEF UnwindInv, Steps

(* A step of run() that starts a part.                                     *)
LEMMA StartingStep ==
  ASSUME UnwindInv, NEW step, At(step), step \notin {"unwind", "exited"},
         NEW to \in Steps \ {"unwind", "exited"}, Goes(to),
         NEW part \in Parts, Starts(part)
  PROVE  UnwindInv'
<1>1. pc = step /\ exit = "none" /\ listening' = listening /\ pc' = to /\ exit' = exit
  BY DEF At, Goes, UnwindInv
<1>2. /\ deferred' \in Seq(Parts) /\ Owed' = Owed \cup {part}
      /\ running' = running \cup {part}
  BY Deferring DEF UnwindInv
<1>3. QED
  BY <1>1, <1>2 DEF UnwindInv

(* The goroutines of the server and of the languages move by themselves.   *)
LEMMA GoroutineStep ==
  ASSUME UnwindInv, ServerListens \/ ServerFails \/ ServerEnds \/ LanguagesEnd
  PROVE  UnwindInv'
<1>1. pc' = pc /\ exit' = exit /\ deferred' = deferred /\ Owed' = Owed
  BY DEF ServerListens, ServerFails, ServerEnds, LanguagesEnd, Owed
<1>2. CASE ServerListens
  <2>1. running' = running /\ listening' /\ "server" \in running /\ ~IsShut
    BY <1>2 DEF ServerListens
  <2>2. "server" \in Owed
    BY <2>1 DEF IsShut, UnwindInv, Owed
  <2>3. QED
    BY <1>1, <2>1, <2>2 DEF UnwindInv
<1>3. CASE ServerFails \/ ServerEnds \/ LanguagesEnd
  <2>1. listening' = listening /\ running' \subseteq running
    BY <1>3 DEF ServerFails, ServerEnds, LanguagesEnd
  <2>2. QED
    BY <1>1, <2>1 DEF UnwindInv
<1>4. QED
  BY <1>2, <1>3

(* One deferred call is made.                                              *)
LEMMA UnwindStep ==
  ASSUME UnwindInv, Unwind
  PROVE  UnwindInv'
<1>1. /\ pc = "unwind" /\ pc' = pc /\ exit' = exit /\ deferred # <<>>
      /\ deferred' = Tail(deferred)
      /\ IF Head(deferred) = "server"
           THEN listening' = FALSE /\ running' = running
           ELSE running' = running \ {Head(deferred)} /\ listening' = listening
  BY DEF Unwind
<1>2. /\ deferred' \in Seq(Parts)
      /\ Owed \ {Head(deferred)} \subseteq Owed'
  BY <1>1, Undoing DEF UnwindInv
<1>3. QED
  BY <1>1, <1>2 DEF UnwindInv

(* Every step keeps the books of the deferred calls.                       *)
LEMMA UnwindNext == UnwindInv /\ [Next]_vars => UnwindInv'
<1> SUFFICES ASSUME UnwindInv, [Next]_vars PROVE UnwindInv'
  OBVIOUS
<1>1. CASE LoadConfig
  BY <1>1, PlainStep DEF LoadConfig, Steps
<1>2. CASE NewLogger
  BY <1>2, PlainStep DEF NewLogger, Steps
<1>3. CASE StartServer
  BY <1>3, StartingStep DEF StartServer, Steps, Parts
<1>4. CASE ServerListens \/ ServerFails \/ ServerEnds \/ LanguagesEnd
  BY <1>4, GoroutineStep
<1>5. CASE StartInflux
  <2>1. At("influx") /\ "influx" \in Parts /\ "emoji" \in Steps \ {"unwind", "exited"}
    BY <1>5 DEF StartInflux, Parts, Steps
  <2>2. Proceeds("emoji") \/ Ends("panic") \/ (Goes("emoji") /\ Starts("influx"))
    BY <1>5 DEF StartInflux
  <2>3. QED
    BY <2>1, <2>2, PlainStep, StartingStep
<1>6. CASE LoadEmoji
  BY <1>6, PlainStep DEF LoadEmoji, Steps
<1>7. CASE LogDataset
  BY <1>7, PlainStep DEF LogDataset, Steps
<1>8. CASE NewDetector
  BY <1>8, PlainStep DEF NewDetector, Steps
<1>9. CASE FetchLanguages
  BY <1>9, StartingStep DEF FetchLanguages, Steps, Parts
<1>10. CASE NewDispatcher
  BY <1>10, PlainStep DEF NewDispatcher, Steps
<1>11. CASE Unwind
  BY <1>11, UnwindStep
<1>12. CASE Exit
  <2>1. /\ pc = "unwind" /\ deferred = <<>> /\ pc' = "exited" /\ exit' = exit
        /\ running' = running /\ listening' = listening /\ deferred' = deferred
    BY <1>12 DEF Exit
  <2>2. QED
    BY <2>1 DEF UnwindInv, Owed, Steps
<1>13. CASE AtRest \/ UNCHANGED vars
  BY <1>13 DEF AtRest, vars, UnwindInv, Owed
<1>14. QED
  BY <1>1, <1>2, <1>3, <1>4, <1>5, <1>6, <1>7, <1>8, <1>9, <1>10, <1>11, <1>12, <1>13
     DEF Next

LEMMA UnwindInvariant == Spec => []UnwindInv
  BY UnwindInit, UnwindNext, PTL DEF Spec

(* However the boot fails, the sink has been drained, the languages        *)
(* goroutine is gone and the server takes no connection when run() has     *)
(* ended (main.go, the deferred calls).                                    *)
THEOREM NothingIsLeftRunning == Spec => []NothingLeftRunning
<1>1. UnwindInv => NothingLeftRunning
  <2> SUFFICES ASSUME UnwindInv, pc = "exited"
               PROVE  exit # "none" /\ running \subseteq {"server"} /\ ~listening
    BY DEF NothingLeftRunning
  <2>1. Owed = {}
    BY EmptySeq DEF UnwindInv, Owed, Range
  <2>2. QED
    BY <2>1 DEF UnwindInv
<1>2. QED
  BY <1>1, UnwindInvariant, PTL

-----------------------------------------------------------------------------
(* The configuration: what one setting is read as, and what a loaded one   *)
(* is known to hold.                                                       *)

Written == readable \in BOOLEAN /\ IsLayer(file, Settings) /\ IsLayer(env, EnvSettings)

Sound(cfg) ==
  /\ cfg = Layers(file, env) /\ validate(cfg) = {}
  /\ \A s \in EnvSettings : ~IsGarbage(env, s)
  /\ \A s \in Settings \ Secrets : ~IsGarbage(file, s)

KnownPanic ==
  \/ Cfg["EMOJI_ENABLED"] = "false"
  \/ Cfg["INFLUX_ENABLED"] = "true" /\ Unmakeable("INFLUX_QUEUE_SIZE")
  \/ Unmakeable("QUEUE_SIZE")

LoadInv ==
  /\ Written
  /\ pc = "load" => exit = "none"
  /\ pc \notin {"load", "unwind", "exited"} => loaded.accepted /\ Sound(Cfg)
  /\ exit = "panic" => KnownPanic

(* The settings that the theorems speak of are read from the environment.  *)
LEMMA SettingsRead ==
  /\ Secrets \subseteq EnvSettings /\ EnvSettings \subseteq Settings
  /\ {"XMPP_ROOMS", "EMOJI_ENABLED"} \subseteq EnvSettings
<1>1. /\ EnvOrder[2] = "XMPP_PASSWORD" /\ EnvOrder[8] = "LT_API_KEY"
      /\ EnvOrder[23] = "INFLUX_TOKEN"
      /\ EnvOrder[5] = "XMPP_ROOMS" /\ EnvOrder[33] = "EMOJI_ENABLED"
      /\ {2, 5, 8, 23, 33} \subseteq DOMAIN EnvOrder
  BY DEF EnvOrder
<1>2. \A i \in DOMAIN EnvOrder : EnvOrder[i] \in EnvSettings
  BY DEF EnvSettings, Range
<1>3. QED
  BY <1>1, <1>2 DEF Secrets, Settings

(* The environment comes before the file, the file before the defaults.    *)
LEMMA Reading ==
  ASSUME Written, NEW s \in Settings
  PROVE  Layers(file, env)[s] =
           IF s \in DOMAIN env THEN env[s]
           ELSE IF s \in DOMAIN file \ Secrets THEN file[s] ELSE defaults[s]
<1>1. DOMAIN Heeded(file) = DOMAIN file \ Secrets
  BY DEF Heeded
<1>2. \A t \in DOMAIN file \ Secrets : Heeded(file)[t] = file[t]
  BY DEF Heeded
<1>3. QED
  BY <1>1, <1>2 DEF Layers, Layered

(* Load accepts only what it could read and validate.                      *)
LEMMA LoadIsSound ==
  ASSUME Written, Load(readable, file, env).accepted
  PROVE  Sound(Load(readable, file, env).cfg)
<1> DEFINE cfg == Layers(file, env)
           garbled == {s \in EnvSettings : IsGarbage(env, s)}
           refused == ~readable \/ \E s \in Settings \ Secrets : IsGarbage(file, s)
<1>1. ASSUME NEW why PROVE ~Refused(why).accepted
  BY DEF Refused
<1>2. ~refused
  BY <1>1 DEF Load
<1>3. garbled = {}
  BY <1>1, <1>2 DEF Load
<1>4. validate(cfg) = {}
  BY <1>1, <1>2, <1>3 DEF Load
<1>5. Load(readable, file, env) = Accepted(cfg)
  BY <1>2, <1>3, <1>4 DEF Load
<1>6. Load(readable, file, env).cfg = cfg
  BY <1>5 DEF Accepted
<1>7. QED
  BY <1>2, <1>3, <1>4, <1>6 DEF Sound

(* A flag that was read is true or false.                                  *)
LEMMA EmojiFlag ==
  ASSUME Written, NEW cfg, Sound(cfg)
  PROVE  cfg["EMOJI_ENABLED"] \in {"true", "false"}
<1> DEFINE s == "EMOJI_ENABLED"
<1>1. s \in EnvSettings /\ s \in Settings /\ s \notin Secrets
  BY SettingsRead DEF Secrets
<1>2. Writings(s) = {"true", "false", "garbage"} /\ defaults[s] = "true"
  <2>1. defaults[s] = "true"
    BY <1>1 DEF defaults, Numbers, Lists
  <2>2. Writings(s) = {"true", "false", "garbage"}
    BY DEF Writings, Flags, Numbers, QueueSizes
  <2>3. QED
    BY <2>1, <2>2
<1>3. s \in DOMAIN env => env[s] \in {"true", "false"}
  BY <1>1, <1>2 DEF Written, IsLayer, Sound, IsGarbage
<1>4. s \in DOMAIN file => file[s] \in {"true", "false"}
  BY <1>1, <1>2 DEF Written, IsLayer, Sound, IsGarbage
<1>5. QED
  BY <1>1, <1>2, <1>3, <1>4, Reading DEF Sound

(* What run() finds is what somebody can have written.                     *)
LEMMA LoadInit == Init => LoadInv
<1> SUFFICES ASSUME Init PROVE LoadInv
  OBVIOUS
<1>1. Written
  BY FoundOk DEF Init, Written
<1>2. QED
  BY <1>1 DEF Init, LoadInv

(* The configuration is loaded once, and every step that panics has one of *)
(* the known reasons.                                                      *)
LEMMA LoadNext == UnwindInv /\ LoadInv /\ [Next]_vars => LoadInv'
<1> SUFFICES ASSUME UnwindInv, LoadInv, [Next]_vars PROVE LoadInv'
  OBVIOUS
<1>1. Written'
  BY DEF LoadInv, Written, Next, vars, found, At, LoadConfig, NewLogger, StartServer,
         ServerListens, ServerFails, ServerEnds, StartInflux, LoadEmoji, LogDataset,
         NewDetector, FetchLanguages, LanguagesEnd, NewDispatcher, Unwind, Exit, AtRest
<1>2. CASE LoadConfig
  <2>1. /\ pc = "load" /\ exit = "none" /\ UNCHANGED found
        /\ loaded' = Load(readable, file, env)
        /\ IF loaded'.accepted THEN Proceeds("logger") ELSE Ends("error")
    BY <1>2 DEF LoadConfig, At, LoadInv
  <2>2. CASE loaded'.accepted
    <3>1. Sound(Cfg)'
      BY <2>1, <2>2, LoadIsSound DEF LoadInv, Cfg, found, Sound
    <3>2. pc' = "logger" /\ exit' = "none"
      BY <2>1, <2>2 DEF Proceeds, Goes
    <3>3. QED
      BY <1>1, <2>2, <3>1, <3>2 DEF LoadInv
  <2>3. CASE ~loaded'.accepted
    <3>1. pc' = "unwind" /\ exit' = "error"
      BY <2>1, <2>3 DEF Ends
    <3>2. QED
      BY <1>1, <3>1 DEF LoadInv
  <2>4. QED
    BY <2>2, <2>3
<1>3. ASSUME loaded' = loaded, UNCHANGED found, exit' = exit,
             \/ pc' = pc
             \/ pc \notin {"load", "unwind", "exited"} /\ pc' # "load"
             \/ pc' \in {"unwind", "exited"}
      PROVE  LoadInv'
  <2>1. KnownPanic' = KnownPanic /\ Cfg' = Cfg
    BY <1>3 DEF KnownPanic, Unmakeable, Cfg
  <2>2. Sound(Cfg) => Sound(Cfg)'
    BY <1>3, <2>1 DEF Sound, found
  <2>3. QED
    BY <1>1, <1>3, <2>1, <2>2 DEF LoadInv
<1>4. ASSUME NEW how \in {"error", "panic"}, Ends(how), loaded' = loaded, UNCHANGED found,
             how = "panic" => KnownPanic
      PROVE  LoadInv'
  <2>1. KnownPanic' = KnownPanic /\ pc' = "unwind" /\ exit' = how
    BY <1>4 DEF KnownPanic, Unmakeable, Cfg, Ends
  <2>2. QED
    BY <1>1, <1>4, <2>1 DEF LoadInv
<1>5. CASE NewLogger \/ LoadEmoji \/ NewDetector
  BY <1>3, <1>4, <1>5 DEF NewLogger, LoadEmoji, NewDetector, At, Proceeds, Goes
<1>6. CASE StartServer \/ FetchLanguages
  BY <1>3, <1>6 DEF StartServer, FetchLanguages, At, Goes
<1>7. CASE StartInflux
  <2>1. CASE Cfg["INFLUX_ENABLED"] = "true" /\ Unmakeable("INFLUX_QUEUE_SIZE")
    <3>1. Ends("panic") /\ loaded' = loaded /\ UNCHANGED found
      BY <1>7, <2>1 DEF StartInflux, At
    <3>2. QED
      BY <1>4, <2>1, <3>1 DEF KnownPanic
  <2>2. CASE ~(Cfg["INFLUX_ENABLED"] = "true" /\ Unmakeable("INFLUX_QUEUE_SIZE"))
    <3>1. /\ Proceeds("emoji") \/ (Goes("emoji") /\ Starts("influx"))
          /\ pc = "influx" /\ loaded' = loaded /\ UNCHANGED found
      BY <1>7, <2>2 DEF StartInflux, At
    <3>2. QED
      BY <1>3, <3>1 DEF Proceeds, Goes
  <2>3. QED
    BY <2>1, <2>2
<1>8. CASE LogDataset
  <2>1. pc = "log" /\ loaded' = loaded /\ UNCHANGED found
    BY <1>8 DEF LogDataset, At
  <2>2. Cfg["EMOJI_ENABLED"] \in {"true", "false"}
    BY <2>1, EmojiFlag DEF LoadInv
  <2>3. Proceeds("detector") \/ (Ends("panic") /\ KnownPanic)
    BY <1>8, <2>2 DEF LogDataset, KnownPanic
  <2>4. QED
    BY <1>3, <1>4, <2>1, <2>3 DEF Proceeds, Goes
<1>9. CASE NewDispatcher
  <2>1. pc = "dispatcher" /\ loaded' = loaded /\ UNCHANGED found
    BY <1>9 DEF NewDispatcher, At
  <2>2. Proceeds("select") \/ (Ends("panic") /\ KnownPanic)
    BY <1>9 DEF NewDispatcher, KnownPanic
  <2>3. QED
    BY <1>3, <1>4, <2>1, <2>2 DEF Proceeds, Goes
<1>10. CASE \/ ServerListens \/ ServerFails \/ ServerEnds \/ LanguagesEnd
            \/ Unwind \/ Exit \/ AtRest \/ UNCHANGED vars
  BY <1>3, <1>10 DEF ServerListens, ServerFails, ServerEnds, LanguagesEnd, Unwind, Exit,
                     AtRest, vars, found
<1>11. QED
  BY <1>2, <1>5, <1>6, <1>7, <1>8, <1>9, <1>10 DEF Next

LEMMA LoadInvariant == Spec => []LoadInv
  BY UnwindInit, UnwindNext, LoadInit, LoadNext, PTL DEF Spec

(* The boot panics for the known reasons only: the assertion on a source   *)
(* that was not made (main.go:122) and the two calls of make, given a size *)
(* they refuse (worker.go:69, influx.go:58).                               *)
THEOREM PanicsKnown == Spec => []PanicsAreKnown
<1>1. LoadInv => PanicsAreKnown
  BY DEF LoadInv, KnownPanic, Unmakeable, PanicsAreKnown
<1>2. QED
  BY <1>1, LoadInvariant, PTL

(* The pipeline starts on a complete configuration only, the environment   *)
(* has the last word, and no secret comes from the file (config.go, Load   *)
(* and validate).                                                          *)
THEOREM OnlyCompleteStarts == Spec => []StartsOnlyComplete
<1>1. ASSUME Written, NEW cfg, Sound(cfg)
      PROVE  /\ \A s \in Required : cfg[s] \notin {"empty", "none"}
             /\ cfg["XMPP_ROOMS"] = "some" /\ cfg["LT_URL"] # "bad"
             /\ cfg["WIKI_ENABLED"] = "true" =>
                  "empty" \notin {cfg["WIKI_HOST"], cfg["WIKI_USER_AGENT"]}
             /\ cfg["INFLUX_ENABLED"] = "true" => \A s \in InfluxNeeds : cfg[s] # "empty"
             /\ \A s \in DOMAIN env : cfg[s] = env[s]
             /\ \A s \in Secrets \ DOMAIN env : cfg[s] = "empty"
  <2>1. {s \in WikiNeeds : cfg["WIKI_ENABLED"] = "true" /\ Missing(cfg, s)} = {}
    BY <1>1 DEF Sound, validate
  <2>2. /\ {s \in Required : Missing(cfg, s)} = {}
        /\ {s \in {"LT_URL"} : cfg[s] = "bad"} = {}
        /\ {s \in InfluxNeeds : cfg["INFLUX_ENABLED"] = "true" /\ Missing(cfg, s)} = {}
    BY <1>1, <2>1 DEF Sound, validate
  <2>3. \A s \in Required : cfg[s] \notin {"empty", "none"}
    BY <2>2 DEF Missing
  <2>4. cfg["LT_URL"] # "bad"
    BY <2>2
  <2>5. cfg["WIKI_ENABLED"] = "true" =>
          "empty" \notin {cfg["WIKI_HOST"], cfg["WIKI_USER_AGENT"]}
    BY <2>1 DEF WikiNeeds, Missing
  <2>6. cfg["INFLUX_ENABLED"] = "true" => \A s \in InfluxNeeds : cfg[s] # "empty"
    BY <2>2 DEF Missing
  <2>7. \A s \in DOMAIN env : cfg[s] = env[s]
    BY <1>1, SettingsRead, Reading DEF Sound, Written, IsLayer
  <2>8. \A s \in Secrets : s \in Settings /\ defaults[s] = "empty"
    <3>1. \A s \in Secrets : s \in Settings
      BY SettingsRead
    <3>2. QED
      BY <3>1 DEF Secrets, defaults, Numbers, Lists
  <2>9. \A s \in Secrets \ DOMAIN env : cfg[s] = "empty"
    BY <1>1, <2>8, Reading DEF Sound
  <2>10. cfg["XMPP_ROOMS"] = "some"
    <3> DEFINE r == "XMPP_ROOMS"
    <3>1. r \in Settings /\ r \notin Secrets /\ r \in Required
      BY SettingsRead DEF Secrets, Required
    <3>2. Writings(r) = {"none", "some"} /\ defaults[r] = "none"
      BY <3>1 DEF Writings, defaults, Flags, Numbers, QueueSizes, Lists
    <3>3. cfg[r] \in {"none", "some"}
      BY <1>1, <3>1, <3>2, Reading DEF Sound, Written, IsLayer
    <3>4. QED
      BY <2>3, <3>1, <3>3
  <2>11. QED
    BY <2>3, <2>4, <2>5, <2>6, <2>7, <2>9, <2>10
<1>2. LoadInv => StartsOnlyComplete
  <2> SUFFICES ASSUME LoadInv, pc \notin {"load", "unwind", "exited"}
               PROVE  StartsOnlyComplete
    BY DEF StartsOnlyComplete
  <2>1. Written /\ Sound(Cfg)
    BY DEF LoadInv
  <2>2. QED
    BY <1>1, <2>1 DEF StartsOnlyComplete, Required
<1>3. QED
  BY <1>2, LoadInvariant, PTL
=============================================================================
