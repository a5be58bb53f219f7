------------------------------- MODULE MCBoot -------------------------------
(***************************************************************************)
(* Instances of Boot for TLC: an environment that boots the bot, with up   *)
(* to two variables written otherwise or not at all, beside a file that    *)
(* writes up to one setting.                                               *)
(***************************************************************************)
EXTENDS Boot, TLC

TestEnv == [s \in Required \ {"DEFAULT_TARGET"} |-> IF s \in Lists THEN "some" ELSE "good"]
FullEnv == TestEnv @@ ("WIKI_USER_AGENT" :> "good") @@ ("INFLUX_ENABLED" :> "true")
             @@ [s \in InfluxNeeds |-> "good"]

Without(e, s)   == [t \in DOMAIN e \ {s} |-> e[t]]
Rewritten(e, s) == {Without(e, s)} \cup {(s :> w) @@ e : w \in Writings(s)}
OneChanged(e)   == UNION {Rewritten(e, s) : s \in EnvSettings}
TwoChanged(e)   == UNION {OneChanged(d) : d \in OneChanged(e)}

Find(r, f, e) == [readable |-> r, file |-> f, env |-> e]

NoFile  == << >>
AnyFile == UNION {{(s :> w) : w \in Writings(s)} : s \in Settings}

MCFound ==
  {Find(FALSE, NoFile, FullEnv)}
    \cup {Find(TRUE, NoFile, e) : e \in TwoChanged(FullEnv)}
    \cup {Find(TRUE, f, e) : f \in AnyFile, e \in OneChanged(FullEnv)}

NoEmojiFound == {Find(TRUE, NoFile, ("EMOJI_ENABLED" :> "false") @@ FullEnv)}
=============================================================================
