----------------------------- MODULE EmojiStore -----------------------------
(***************************************************************************)
(* The emoji source, internal/lookup/emoji.go: how newEmojiStore builds    *)
(* the list out of a JSON object, which Go iterates in any order, and what *)
(* Look finds in it.  A text stands for itself folded; all that matters of *)
(* it is how it relates to a query, and its length.                        *)
(***************************************************************************)
EXTENDS Integers, Sequences, SequencesExt, FiniteSetsExt

CONSTANTS
  Annotations,  \* a function from the characters, numbered in the order of
                \* their strings, to records tts, default of sequences of texts
  Queries,      \* what users look for, folded and not empty
  Kin,          \* Kin[text][query]: "same", "prefix", "inside" or "apart"
  Width,        \* Width[text], the length of the text
  MaxResults    \* EmojiConfig.MaxResults, once NewEmojiStore has put 8 for 0

Chars == DOMAIN Annotations
Texts == DOMAIN Width

ASSUME CharsNumbered  == IsFiniteSet(Chars) /\ Chars \subseteq Int
ASSUME TextsAnnotate  == \A c \in Chars : /\ Annotations[c].tts \in Seq(Texts)
                                          /\ Annotations[c].default \in Seq(Texts)
ASSUME TextsMeasured  == \A t \in Texts : Width[t] \in Nat
ASSUME TextsCompared  == \A t \in Texts, q \in Queries :
                           Kin[t][q] \in {"same", "prefix", "inside", "apart"}
ASSUME SomeResults    == MaxResults \in Nat \ {0}

(* The name is the first tts, or else the first synonym; without either    *)
(* the entry is left out.                                                  *)
Named(c) == Annotations[c].tts # <<>> \/ Annotations[c].default # <<>>
Name(c)  == Head(Annotations[c].tts \o Annotations[c].default)

\* The orders in which the entries can come out of the map.
Iterations == SetToSeqs(Chars)

(* What sort.Slice makes of a set whose elements the relation less tells   *)
(* apart: each takes the place that so many of them come before.           *)
Before(S, less, x) == {y \in S : <<y, x>> \in less}
Sorted(S, less) ==
  [i \in 1..Cardinality(S) |->
     CHOOSE x \in S : Cardinality(Before(S, less, x)) = i - 1]

newEmojiStore_unsorted(order) == SelectSeq(order, Named)
newEmojiStore(order) ==
  LET named == {c \in Range(order) : Named(c)}
  IN  Sorted(named, {p \in named \X named : p[1] < p[2]})

(* scoreEmoji: the name first, then the best of the synonyms.              *)
NameScore == [same |-> 100, prefix |-> 80, inside |-> 60, apart |-> 0]
KeyScore  == [same |-> 50, prefix |-> 35, inside |-> 20, apart |-> 0]

scoreEmoji(c, q) ==
  LET byName == NameScore[Kin[Name(c)][q]]
  IN  IF byName > 0 THEN byName
      ELSE Max({0} \cup {KeyScore[Kin[k][q]] : k \in Range(Annotations[c].default)})

(* How Look compares two hits: by score, then by the length of the name.   *)
Better(c, d, q) == \/ scoreEmoji(c, q) > scoreEmoji(d, q)
                   \/ /\ scoreEmoji(c, q) = scoreEmoji(d, q)
                      /\ Width[Name(c)] < Width[Name(d)]

(* Look: the hits, sorted stably, as many as the answer may hold; none is  *)
(* a NotFoundError.                                                        *)
Look(emojis, q) ==
  LET hits == {k \in DOMAIN emojis : scoreEmoji(emojis[k], q) > 0}
      less == {p \in hits \X hits :
                 \/ Better(emojis[p[1]], emojis[p[2]], q)
                 \/ ~Better(emojis[p[2]], emojis[p[1]], q) /\ p[1] < p[2]}
      sorted == Sorted(hits, less)
  IN  [i \in 1..Min({MaxResults, Len(sorted)}) |-> emojis[sorted[i]]]

-----------------------------------------------------------------------------
(* What the answer should be, told of the dataset and not of any order.    *)
Outranks(c, d, q) ==
  LET s == scoreEmoji(c, q)   t == scoreEmoji(d, q)
      v == Width[Name(c)]     w == Width[Name(d)]
  IN  s > t \/ (s = t /\ v < w) \/ (s = t /\ v = w /\ c < d)

Matching(q) == {c \in Chars : Named(c) /\ scoreEmoji(c, q) > 0}

IsBest(shown, q) ==
  /\ Range(shown) =
       {c \in Matching(q) : Cardinality({d \in Matching(q) : Outranks(d, c, q)}) < MaxResults}
  /\ \A i \in 1..Len(shown) - 1 : Outranks(shown[i], shown[i + 1], q)
=============================================================================
