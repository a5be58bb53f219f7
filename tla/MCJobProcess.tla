---------------------------- MODULE MCJobProcess ----------------------------
(***************************************************************************)
(* Instances of JobProcess for TLC. The pairs are those of the example     *)
(* configuration in kind: one language named twice, so that the order of   *)
(* the pairs matters, and one whose pair leads to itself.  The emojis have *)
(* every score, two names of one length, a synonym for want of a name, and *)
(* an entry with neither.                                                  *)
(***************************************************************************)
EXTENDS JobProcess, TLC

MCPairs == << [source |-> "en", target |-> "es"],
              [source |-> "en", target |-> "en"],
              [source |-> "fr", target |-> "fr"] >>

MCAnnotations == <<
  [tts |-> <<"wild cat">>,    default |-> <<"lynx">>],
  [tts |-> <<"cat">>,         default |-> <<"pet">>],
  [tts |-> <<"bob cat">>,     default |-> <<>>],
  [tts |-> <<>>,              default |-> <<"catapult">>],
  [tts |-> <<>>,              default |-> <<>>] >>

MCWidth == ("wild cat" :> 8) @@ ("cat" :> 3) @@ ("bob cat" :> 8)
           @@ ("catapult" :> 8) @@ ("lynx" :> 4) @@ ("pet" :> 3)

\* The second query is found in a synonym of one emoji, the third nowhere.
Related(text) ==
  CASE text = "cat"      -> [cat |-> "same", pe |-> "apart", dog |-> "apart"]
    [] text = "catapult" -> [cat |-> "prefix", pe |-> "apart", dog |-> "apart"]
    [] text = "pet"      -> [cat |-> "apart", pe |-> "prefix", dog |-> "apart"]
    [] text \in {"wild cat", "bob cat"} ->
         [cat |-> "inside", pe |-> "apart", dog |-> "apart"]
    [] OTHER             -> [cat |-> "apart", pe |-> "apart", dog |-> "apart"]
MCKin == [text \in DOMAIN MCWidth |-> Related(text)]
=============================================================================
