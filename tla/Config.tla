------------------------------- MODULE Config -------------------------------
(***************************************************************************)
(* internal/config/config.go: what Load makes of a YAML file and of the    *)
(* environment.  A setting goes by the name of its environment variable,   *)
(* also where there is none (EMOJI_LANG), and its value by what the rest   *)
(* of the program can tell of it:                                          *)
(*   a text   "empty", "good" or "bad", the last for one that is malformed *)
(*            (LT_URL), unknown (DETECTOR, LOG_LEVEL), unreadable          *)
(*            (EMOJI_DATA_FILE) or of no use (METRICS_ADDR);               *)
(*   a number "negative", "zero" or "positive", or, for the size of a      *)
(*            queue, "huge": more than make can allocate;                  *)
(*   a flag   "true" or "false";                                           *)
(*   a list   "none" or "some".                                            *)
(* What is written for it may also be "garbage", which has no reading.     *)
(***************************************************************************)
EXTENDS Sequences, Functions

Flags == {"XMPP_TLS", "INFLUX_ENABLED", "WIKI_ENABLED", "EMOJI_ENABLED"}

QueueSizes == {"QUEUE_SIZE", "INFLUX_QUEUE_SIZE"}

Numbers == {"LT_TIMEOUT_MS", "LT_MAX_RETRIES", "MAX_TEXT_LENGTH", "WORKER_POOL_SIZE",
            "QUEUE_SIZE", "INFLUX_TIMEOUT_MS", "INFLUX_QUEUE_SIZE",
            "WIKI_MAX_EXTRACT_CHARS", "WIKI_TIMEOUT_MS", "WIKI_MAX_RETRIES",
            "EMOJI_MAX_RESULTS"}

Lists == {"XMPP_ROOMS", "TRANSLATION_PAIRS"}

Secrets == {"XMPP_PASSWORD", "LT_API_KEY", "INFLUX_TOKEN"}

(* The order in which applyEnv reads the environment.                      *)
EnvOrder ==
  << "XMPP_JID", "XMPP_PASSWORD", "XMPP_SERVER", "XMPP_TLS", "XMPP_ROOMS", "XMPP_NICKNAME",
     "LT_URL", "LT_API_KEY", "LT_TIMEOUT_MS", "LT_MAX_RETRIES",
     "DEFAULT_TARGET", "TRANSLATION_PAIRS", "DETECTOR", "MAX_TEXT_LENGTH",
     "WORKER_POOL_SIZE", "QUEUE_SIZE", "LOG_LEVEL", "METRICS_ADDR",
     "INFLUX_ENABLED", "INFLUX_URL", "INFLUX_ORG", "INFLUX_BUCKET", "INFLUX_TOKEN",
     "INFLUX_TIMEOUT_MS", "INFLUX_QUEUE_SIZE",
     "WIKI_ENABLED", "WIKI_HOST", "WIKI_LANG", "WIKI_USER_AGENT",
     "WIKI_MAX_EXTRACT_CHARS", "WIKI_TIMEOUT_MS", "WIKI_MAX_RETRIES",
     "EMOJI_ENABLED", "EMOJI_DATA_FILE", "EMOJI_MAX_RESULTS" >>

EnvSettings == Range(EnvOrder)
Settings    == EnvSettings \cup {"EMOJI_LANG"}

(* ParseBool, Atoi, splitNonEmpty and parsePairs: rooms cannot be garbage. *)
Writings(s) ==
  CASE s \in Flags                -> {"true", "false", "garbage"}
    [] s \in QueueSizes           -> {"negative", "zero", "positive", "huge", "garbage"}
    [] s \in Numbers \ QueueSizes -> {"negative", "zero", "positive", "garbage"}
    [] s = "XMPP_ROOMS"           -> {"none", "some"}
    [] s = "TRANSLATION_PAIRS"    -> {"none", "some", "garbage"}
    [] OTHER                      -> {"empty", "good", "bad"}

(* What somebody may have written for some of the settings.                *)
IsLayer(layer, settings) ==
  DOMAIN layer \subseteq settings /\ \A s \in DOMAIN layer : layer[s] \in Writings(s)

defaults == [s \in Settings |->
  CASE s \in {"XMPP_TLS", "WIKI_ENABLED", "EMOJI_ENABLED"} -> "true"
    [] s = "INFLUX_ENABLED" -> "false"
    [] s \in Numbers        -> "positive"
    [] s \in Lists          -> "none"
    [] s \in {"XMPP_NICKNAME", "DEFAULT_TARGET", "DETECTOR", "LOG_LEVEL", "METRICS_ADDR",
              "WIKI_HOST", "WIKI_LANG", "EMOJI_LANG"} -> "good"
    [] OTHER                -> "empty"]

-----------------------------------------------------------------------------
Refused(why)  == [accepted |-> FALSE, why |-> why]
Accepted(cfg) == [accepted |-> TRUE, cfg |-> cfg]

IsGarbage(layer, s) == s \in DOMAIN layer /\ layer[s] = "garbage"

(* validate: what is missing or malformed.  The wiki's complaint is made   *)
(* instead of the others, not beside them.                                 *)
Required     == {"XMPP_JID", "XMPP_PASSWORD", "XMPP_SERVER", "XMPP_ROOMS",
                 "LT_URL", "LT_API_KEY", "DEFAULT_TARGET"}
InfluxNeeds  == {"INFLUX_URL", "INFLUX_ORG", "INFLUX_BUCKET", "INFLUX_TOKEN"}
WikiNeeds    == {"WIKI_HOST", "WIKI_USER_AGENT"}

Missing(cfg, s) == cfg[s] \in {"empty", "none"}

validate(cfg) ==
  LET wiki == {s \in WikiNeeds : cfg["WIKI_ENABLED"] = "true" /\ Missing(cfg, s)}
  IN  IF wiki # {}
        THEN IF "WIKI_HOST" \in wiki THEN {"WIKI_HOST"} ELSE wiki
        ELSE {s \in Required : Missing(cfg, s)}
               \cup {s \in {"LT_URL"} : cfg[s] = "bad"}
               \cup {s \in InfluxNeeds : cfg["INFLUX_ENABLED"] = "true" /\ Missing(cfg, s)}

(* A file is what it writes for some settings; of the secrets it can write *)
(* nothing that counts.  An empty list of pairs leaves the pairs alone.    *)
Heeded(file) == [s \in DOMAIN file \ Secrets |-> file[s]]

Layered(upper, lower) ==
  [s \in Settings |-> IF s \in DOMAIN upper THEN upper[s]
                      ELSE IF s \in DOMAIN lower THEN lower[s] ELSE defaults[s]]

Layers_fileLast(file, env) == Layered(Heeded(file), env)
Layers(file, env) == Layered(env, Heeded(file))

(* Load: the file, the first variable that cannot be parsed, validate.     *)
Load(readable, file, env) ==
  LET garbled == {s \in EnvSettings : IsGarbage(env, s)}
      cfg     == Layers(file, env)
  IN  CASE ~readable \/ \E s \in Settings \ Secrets : IsGarbage(file, s) -> Refused({"CONFIG_FILE"})
        [] OTHER ->
             IF garbled # {}
               THEN Refused({Head(SelectSeq(EnvOrder, LAMBDA s : s \in garbled))})
             ELSE IF validate(cfg) # {} THEN Refused(validate(cfg))
             ELSE Accepted(cfg)
=============================================================================
