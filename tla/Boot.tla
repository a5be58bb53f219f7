-------------------------------- MODULE Boot --------------------------------
(***************************************************************************)
(* run() of cmd/bot/main.go up to its select: the configuration is loaded  *)
(* and the parts of the bot are started one by one, each with the deferred *)
(* call that stops it.  An early return, or a panic, makes those calls in  *)
(* the reverse order.                                                      *)
(***************************************************************************)
EXTENDS Config, FiniteSets

CONSTANT Found   \* the configurations run() may find: a file and an environment

ASSUME FoundOk ==
  \A f \in Found :
    f.readable \in BOOLEAN /\ IsLayer(f.file, Settings) /\ IsLayer(f.env, EnvSettings)

VARIABLES
  readable, file, env,  \* the configuration as found
  loaded,    \* what Load returned
  pc,        \* the next step of run()
  running,   \* the goroutines that have not ended
  listening, \* the HTTP server takes connections
  deferred,  \* the calls run() owes, last first
  exit       \* how run() is ending: "none", "error" or "panic"

found == <<readable, file, env>>
vars  == <<readable, file, env, loaded, pc, running, listening, deferred, exit>>

Cfg    == loaded.cfg
IsShut == exit # "none" /\ "server" \notin Range(deferred)   \* Shutdown was called

-----------------------------------------------------------------------------
Init ==
  /\ \E f \in Found : readable = f.readable /\ file = f.file /\ env = f.env
  /\ loaded = Refused({}) /\ pc = "load"
  /\ running = {} /\ listening = FALSE /\ deferred = <<>> /\ exit = "none"

At(step)     == pc = step /\ UNCHANGED <<found, listening>>
Goes(to)     == pc' = to /\ UNCHANGED exit
Proceeds(to) == Goes(to) /\ UNCHANGED <<running, deferred>>
Ends(how)    == pc' = "unwind" /\ exit' = how /\ UNCHANGED <<running, deferred>>

Starts_undeferred(part) ==
  running' = running \cup {part} /\ UNCHANGED deferred
Starts(part) ==
  running' = running \cup {part} /\ deferred' = <<part>> \o deferred

LoadConfig ==
  /\ At("load")
  /\ loaded' = Load(readable, file, env)
  /\ IF loaded'.accepted THEN Proceeds("logger") ELSE Ends("error")

NewLogger ==
  /\ At("logger") /\ UNCHANGED loaded
  /\ IF Cfg["LOG_LEVEL"] = "good" THEN Proceeds("server") ELSE Ends("error")

StartServer ==
  /\ At("server") /\ UNCHANGED loaded
  /\ Goes("influx") /\ Starts("server")

\* ListenAndServe.  It can fail while run() is at any step, and after its end:
\* nobody waits for its goroutine.
ServerListens ==
  /\ "server" \in running /\ ~listening /\ ~IsShut /\ Cfg["METRICS_ADDR"] # "bad"
  /\ listening' = TRUE
  /\ UNCHANGED <<found, loaded, pc, running, deferred, exit>>

ServerFails ==
  /\ "server" \in running /\ ~listening /\ Cfg["METRICS_ADDR"] # "good"
  /\ running' = running \ {"server"}
  /\ UNCHANGED <<found, loaded, pc, listening, deferred, exit>>

ServerEnds ==
  /\ "server" \in running /\ ~listening /\ IsShut
  /\ running' = running \ {"server"}
  /\ UNCHANGED <<found, loaded, pc, listening, deferred, exit>>

\* make(chan) panics for a size that is negative or beyond what it can allocate;
\* nothing bounds the size it is given.
Unmakeable(size) == Cfg[size] \in {"negative", "huge"}

StartInflux ==
  /\ At("influx") /\ UNCHANGED loaded
  /\ CASE Cfg["INFLUX_ENABLED"] = "false" -> Proceeds("emoji")
       [] Cfg["INFLUX_ENABLED"] = "true" /\ Unmakeable("INFLUX_QUEUE_SIZE") -> Ends("panic")
       [] OTHER -> Goes("emoji") /\ Starts("influx")

\* NewMediaWiki starts nothing and cannot fail.
NoDataset == Cfg["EMOJI_ENABLED"] = "true" /\ Cfg["EMOJI_DATA_FILE"] = "bad"
LoadEmoji_unchecked ==
  /\ At("emoji") /\ UNCHANGED loaded
  /\ IF NoDataset THEN Ends("panic") ELSE Proceeds("log")
LoadEmoji ==
  /\ At("emoji") /\ UNCHANGED loaded
  /\ IF NoDataset THEN Ends("error") ELSE Proceeds("log")

\* The type assertion on the source that was not made panics.
LogDataset ==
  /\ At("log") /\ UNCHANGED loaded
  /\ IF Cfg["EMOJI_ENABLED"] = "true" THEN Proceeds("detector") ELSE Ends("panic")

NewDetector ==
  /\ At("detector") /\ UNCHANGED loaded
  /\ IF Cfg["DETECTOR"] = "bad" THEN Ends("error") ELSE Proceeds("languages")

FetchLanguages ==
  /\ At("languages") /\ UNCHANGED loaded
  /\ Goes("dispatcher") /\ Starts("languages")

LanguagesEnd ==
  /\ "languages" \in running /\ running' = running \ {"languages"}
  /\ UNCHANGED <<found, loaded, pc, listening, deferred, exit>>

NewDispatcher ==
  /\ At("dispatcher") /\ UNCHANGED loaded
  /\ IF Unmakeable("QUEUE_SIZE") THEN Ends("panic") ELSE Proceeds("select")

\* Shutdown closes the server and does not wait for its goroutine; the two
\* others wait: Close, and bgCancel with <-langDone.
Unwind ==
  /\ pc = "unwind" /\ deferred # <<>> /\ deferred' = Tail(deferred)
  /\ IF Head(deferred) = "server"
       THEN listening' = FALSE /\ UNCHANGED running
       ELSE running' = running \ {Head(deferred)} /\ UNCHANGED listening
  /\ UNCHANGED <<found, loaded, pc, exit>>

Exit ==
  /\ pc = "unwind" /\ deferred = <<>> /\ pc' = "exited"
  /\ UNCHANGED <<found, loaded, running, listening, deferred, exit>>

AtRest == pc \in {"select", "exited"} /\ UNCHANGED vars

Next ==
  \/ LoadConfig \/ NewLogger \/ StartServer \/ ServerListens \/ ServerFails \/ ServerEnds
  \/ StartInflux \/ LoadEmoji \/ LogDataset \/ NewDetector
  \/ FetchLanguages \/ LanguagesEnd \/ NewDispatcher \/ Unwind \/ Exit \/ AtRest

Spec == Init /\ [][Next]_vars

-----------------------------------------------------------------------------
\* Whatever step of the boot fails, and be it by a panic: when run() has ended
\* the sink has been drained, the languages goroutine, which logs, is gone, and
\* the server takes no connection.  Only the server's goroutine may still run.
NothingLeftRunning ==
  pc = "exited" => exit # "none" /\ running \subseteq {"server"} /\ ~listening

\* The pipeline starts only on a complete configuration, in which the
\* environment has the last word, also when it says nothing ("env sempre
\* vence"), and no secret comes from the file.
StartsOnlyComplete ==
  pc \notin {"load", "unwind", "exited"} =>
    /\ \A s \in {"XMPP_JID", "XMPP_PASSWORD", "XMPP_SERVER", "LT_URL", "LT_API_KEY",
                 "DEFAULT_TARGET"} : Cfg[s] # "empty"
    /\ Cfg["XMPP_ROOMS"] = "some" /\ Cfg["LT_URL"] # "bad"
    /\ Cfg["WIKI_ENABLED"] = "true" => "empty" \notin {Cfg["WIKI_HOST"], Cfg["WIKI_USER_AGENT"]}
    /\ Cfg["INFLUX_ENABLED"] = "true" => \A s \in InfluxNeeds : Cfg[s] # "empty"
    /\ \A s \in DOMAIN env : Cfg[s] = env[s]
    /\ \A s \in Secrets \ DOMAIN env : Cfg[s] = "empty"

\* No step of the boot panics but for the settings that the validation lets
\* through: !emoji disabled, or a size that make refuses, below zero or beyond
\* its maximum, for the queue of the jobs or that of a sink in use. Every other
\* failure is told as an error.
PanicsAreKnown ==
  exit = "panic" =>
    \/ Cfg["EMOJI_ENABLED"] = "false"
    \/ Cfg["INFLUX_ENABLED"] = "true" /\ Cfg["INFLUX_QUEUE_SIZE"] \in {"negative", "huge"}
    \/ Cfg["QUEUE_SIZE"] \in {"negative", "huge"}

\* !emoji can be disabled: EMOJI_ENABLED is a setting, and CommandDisabled the
\* answer a bot without it gives.
EmojiCanBeDisabled ==
  exit = "panic" => \E s \in QueueSizes : Cfg[s] \in {"negative", "huge"}
=============================================================================
