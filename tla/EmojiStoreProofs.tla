--------------------------- MODULE EmojiStoreProofs ---------------------------
(***************************************************************************)
(* Proofs about EmojiStore for any dataset and any query: the order in     *)
(* which Go walks the map of the JSON makes no difference to the list, and *)
(* what Look answers is the best of the dataset.                           *)
(***************************************************************************)
EXTENDS EmojiStore, TLAPS, FiniteSetTheorems, SequenceTheorems

-----------------------------------------------------------------------------
(* Sorting. *)

(* less tells the elements of the finite set S apart.                      *)
StrictOrder(S, less) ==
  /\ IsFiniteSet(S)
  /\ \A x \in S : <<x, x>> \notin less
  /\ \A x, y, z \in S : <<x, y>> \in less /\ <<y, z>> \in less => <<x, z>> \in less
  /\ \A x, y \in S : x # y => <<x, y>> \in less \/ <<y, x>> \in less

(* Fewer elements come before x than there are, and fewer yet than before  *)
(* any y that x itself comes before.                                       *)
LEMMA BeforeGrows ==
  ASSUME NEW S, NEW less, StrictOrder(S, less)
  PROVE  \A x \in S :
           /\ IsFiniteSet(Before(S, less, x))
           /\ Cardinality(Before(S, less, x)) \in 0..Cardinality(S) - 1
           /\ \A y \in S : <<x, y>> \in less =>
                Cardinality(Before(S, less, x)) < Cardinality(Before(S, less, y))
<1> SUFFICES ASSUME NEW x \in S
             PROVE  /\ IsFiniteSet(Before(S, less, x))
                    /\ Cardinality(Before(S, less, x)) \in 0..Cardinality(S) - 1
                    /\ \A y \in S : <<x, y>> \in less =>
                         Cardinality(Before(S, less, x)) < Cardinality(Before(S, less, y))
  OBVIOUS
<1>1. IsFiniteSet(S) /\ Cardinality(S) \in Nat
  BY FS_CardinalityType DEF StrictOrder
<1>2. ASSUME NEW T \in SUBSET S
      PROVE  IsFiniteSet(T) /\ Cardinality(T) \in Nat
  BY <1>1, FS_Subset, FS_CardinalityType
<1>3. \A y \in S : Before(S, less, y) \in SUBSET S /\ y \notin Before(S, less, y)
  BY DEF Before, StrictOrder
<1>4. Cardinality(Before(S, less, x)) < Cardinality(S)
  <2>1. Before(S, less, x) # S
    BY <1>3
  <2>2. QED
    BY <1>1, <1>2, <1>3, <2>1, FS_Subset
<1>5. ASSUME NEW y \in S, <<x, y>> \in less
      PROVE  Cardinality(Before(S, less, x)) < Cardinality(Before(S, less, y))
  <2>1. Before(S, less, x) \in SUBSET Before(S, less, y) /\ x \in Before(S, less, y)
    BY <1>5 DEF Before, StrictOrder
  <2>2. Before(S, less, x) # Before(S, less, y)
    BY <1>3, <2>1
  <2>3. QED
    BY <1>2, <1>3, <2>1, <2>2, FS_Subset
<1>6. QED
  BY <1>1, <1>2, <1>3, <1>4, <1>5

(* Every place is taken, by one element alone.                             *)
LEMMA PlacesTaken ==
  ASSUME NEW S, NEW less, StrictOrder(S, less),
         NEW i \in 1..Cardinality(S)
  PROVE  /\ \E x \in S : Cardinality(Before(S, less, x)) = i - 1
         /\ \A x, y \in S : /\ Cardinality(Before(S, less, x)) = i - 1
                            /\ Cardinality(Before(S, less, y)) = i - 1
                            => x = y
<1> DEFINE Places == 0..Cardinality(S) - 1
           place  == [x \in S |-> Cardinality(Before(S, less, x))]
<1>1. IsFiniteSet(S) /\ Cardinality(S) \in Nat
  BY FS_CardinalityType DEF StrictOrder
<1>2. IsFiniteSet(Places) /\ Cardinality(Places) = Cardinality(S)
  <2>1. /\ IsFiniteSet(0..Cardinality(S) - 1)
        /\ Cardinality(0..Cardinality(S) - 1) =
             IF 0 > Cardinality(S) - 1 THEN 0 ELSE (Cardinality(S) - 1) - 0 + 1
    <3> DEFINE b == Cardinality(S) - 1
    <3>1. b \in Int
      BY <1>1
    <3> HIDE DEF b
    <3>2. IsFiniteSet(0..b) /\ Cardinality(0..b) = IF 0 > b THEN 0 ELSE b - 0 + 1
      BY <3>1, FS_Interval
    <3>3. QED
      BY <3>2 DEF b
  <2>2. QED
    BY <1>1, <2>1
<1>3. \A x \in S : place[x] \in Places
  BY BeforeGrows
<1>4. ASSUME NEW x \in S, NEW y \in S, place[x] = place[y] PROVE x = y
  <2>1. ~(<<x, y>> \in less) /\ ~(<<y, x>> \in less)
    BY <1>1, <1>4, BeforeGrows
  <2>2. QED
    BY <2>1 DEF StrictOrder
<1>5. place \in Injection(S, Places)
  <2>1. place \in [S -> Places]
    BY <1>3
  <2> HIDE DEF Places
  <2>2. QED
    BY <1>4, <2>1 DEF Injection, IsInjective
<1>6. place \in Surjection(S, Places)
  <2> HIDE DEF place, Places
  <2>1. QED
    BY <1>2, <1>5, FS_Injection
<1>7. \A t \in Places : \E x \in S : place[x] = t
  <2> HIDE DEF place, Places
  <2>1. QED
    BY <1>6 DEF Surjection
<1>8. i - 1 \in Places
  BY <1>1
<1>9. QED
  BY <1>4, <1>7, <1>8

(* What Sorted makes of an order: every element once, each in the place    *)
(* that so many come before.                                               *)
LEMMA SortedTakesAll ==
  ASSUME NEW S, NEW less, StrictOrder(S, less)
  PROVE  /\ Cardinality(S) \in Nat
         /\ DOMAIN Sorted(S, less) = 1..Cardinality(S)
         /\ \A i \in 1..Cardinality(S) :
              /\ Sorted(S, less)[i] \in S
              /\ Cardinality(Before(S, less, Sorted(S, less)[i])) = i - 1
         /\ \A i, j \in 1..Cardinality(S) :
              i < j <=> <<Sorted(S, less)[i], Sorted(S, less)[j]>> \in less
         /\ \A x \in S : \E i \in 1..Cardinality(S) : Sorted(S, less)[i] = x
<1> DEFINE s == Sorted(S, less)
           Place(x) == Cardinality(Before(S, less, x))
<1>1. Cardinality(S) \in Nat
  BY FS_CardinalityType DEF StrictOrder
<1>2. DOMAIN s = 1..Cardinality(S)
  BY DEF Sorted
<1>3. ASSUME NEW i \in 1..Cardinality(S) PROVE s[i] \in S /\ Place(s[i]) = i - 1
  <2>1. s[i] = CHOOSE x \in S : Place(x) = i - 1
    BY DEF Sorted
  <2>2. \E x \in S : Place(x) = i - 1
    BY PlacesTaken
  <2> HIDE DEF s, Place
  <2>3. QED
    BY <2>1, <2>2
<1>4. ASSUME NEW i \in 1..Cardinality(S), NEW j \in 1..Cardinality(S)
      PROVE  i < j <=> <<s[i], s[j]>> \in less
  <2>1. s[i] \in S /\ s[j] \in S /\ Place(s[i]) = i - 1 /\ Place(s[j]) = j - 1
    BY <1>3
  <2>2. /\ <<s[i], s[j]>> \in less => Place(s[i]) < Place(s[j])
        /\ <<s[j], s[i]>> \in less => Place(s[j]) < Place(s[i])
    BY <2>1, BeforeGrows
  <2>3. s[i] # s[j] => <<s[i], s[j]>> \in less \/ <<s[j], s[i]>> \in less
    BY <2>1 DEF StrictOrder
  <2> HIDE DEF s, Place
  <2>4. QED
    BY <2>1, <2>2, <2>3
<1>5. ASSUME NEW x \in S PROVE \E i \in 1..Cardinality(S) : s[i] = x
  <2>1. Place(x) + 1 \in 1..Cardinality(S) /\ Place(x) \in Int
    BY <1>1, BeforeGrows
  <2>2. s[Place(x) + 1] \in S /\ Place(s[Place(x) + 1]) = Place(x)
    BY <1>3, <2>1
  <2>3. s[Place(x) + 1] = x
    <3> DEFINE i == Place(x) + 1
    <3>1. i \in 1..Cardinality(S) /\ Place(x) = i - 1 /\ Place(s[i]) = i - 1 /\ s[i] \in S
      BY <2>1, <2>2
    <3> HIDE DEF i, s
    <3>2. s[i] = x
      BY <3>1, PlacesTaken
    <3>3. QED
      BY <3>2 DEF i
  <2>4. QED
    BY <2>1, <2>3
<1>6. QED
  BY <1>1, <1>2, <1>3, <1>4, <1>5

-----------------------------------------------------------------------------
(* The list. *)

(* Every order in which the map can be walked names every character.       *)
LEMMA IterationsNameAll == \A order \in Iterations : Range(order) = Chars
<1> SUFFICES ASSUME NEW order \in Iterations PROVE Range(order) = Chars
  OBVIOUS
<1> DEFINE D == 1..Cardinality(Chars)
<1>1. IsFiniteSet(D) /\ Cardinality(D) = Cardinality(Chars)
  <2>1. Cardinality(Chars) \in Nat
    BY CharsNumbered, FS_CardinalityType
  <2>2. QED
    BY <2>1, FS_Interval
<1>2. order \in [D -> Chars] /\ \A i, j \in D : i # j => order[i] # order[j]
  BY DEF Iterations, SetToSeqs
<1> HIDE DEF D
<1>3. order \in Injection(D, Chars)
  BY <1>2 DEF Injection, IsInjective
<1>4. order \in Surjection(D, Chars)
  BY <1>1, <1>3, CharsNumbered, FS_Injection
<1>5. QED
  BY <1>2, <1>4 DEF Surjection, Range

(* The characters that have a name, which the list is made of.             *)
NamedChars == {c \in Chars : Named(c)}

(* The list holds every character that has a name, in their order.         *)
LEMMA ListOfNamed ==
  ASSUME NEW order \in Iterations
  PROVE  LET emojis == newEmojiStore(order) n == Cardinality(NamedChars)
         IN  /\ n \in Nat /\ DOMAIN emojis = 1..n
             /\ \A k \in 1..n : emojis[k] \in NamedChars
             /\ \A j, k \in 1..n : j < k <=> emojis[j] < emojis[k]
             /\ \A c \in NamedChars : \E k \in 1..n : emojis[k] = c
<1> DEFINE less == {p \in NamedChars \X NamedChars : p[1] < p[2]}
<1>1. newEmojiStore(order) = Sorted(NamedChars, less)
  BY IterationsNameAll DEF newEmojiStore, NamedChars
<1>2. \A c, d \in NamedChars : <<c, d>> \in less <=> c < d
  OBVIOUS
<1> HIDE DEF less
<1>3. StrictOrder(NamedChars, less)
  <2>1. IsFiniteSet(NamedChars) /\ NamedChars \subseteq Int
    BY CharsNumbered, FS_Subset DEF NamedChars
  <2>2. QED
    BY <1>2, <2>1 DEF StrictOrder
<1> DEFINE s == Sorted(NamedChars, less)
           n == Cardinality(NamedChars)
<1>4. /\ n \in Nat /\ DOMAIN s = 1..n
      /\ \A k \in 1..n : s[k] \in NamedChars
      /\ \A j, k \in 1..n : j < k <=> <<s[j], s[k]>> \in less
      /\ \A c \in NamedChars : \E k \in 1..n : s[k] = c
  BY <1>3, SortedTakesAll
<1> HIDE DEF s, n
<1>5. \A j, k \in 1..n : j < k <=> s[j] < s[k]
  BY <1>2, <1>4
<1>6. newEmojiStore(order) = s /\ Cardinality(NamedChars) = n
  BY <1>1 DEF s, n
<1>7. QED
  BY <1>4, <1>5, <1>6

(* The list is the same whatever the order the map is walked in: a restart *)
(* changes nothing, as the comment on the sort wants.                      *)
THEOREM ListIsDeterministic ==
  \A order, other \in Iterations : newEmojiStore(order) = newEmojiStore(other)
  BY IterationsNameAll DEF newEmojiStore

-----------------------------------------------------------------------------
(* The score. *)

LEMMA NameIsText == \A c \in NamedChars : Name(c) \in Texts
<1> SUFFICES ASSUME NEW c \in NamedChars PROVE Name(c) \in Texts
  OBVIOUS
<1> DEFINE tts == Annotations[c].tts
           key == Annotations[c].default
<1>1. tts \in Seq(Texts) /\ key \in Seq(Texts) /\ (tts # <<>> \/ key # <<>>)
  BY TextsAnnotate DEF NamedChars, Named
<1>2. Name(c) = Head(tts \o key)
  BY DEF Name
<1> HIDE DEF tts, key
<1>3. tts \o key \in Seq(Texts) /\ tts \o key # <<>>
  BY <1>1
<1>4. QED
  BY <1>2, <1>3

(* The best of the synonyms is there to be found.                          *)
LEMMA BestKeyScore ==
  ASSUME NEW S, S \subseteq {0, 20, 35, 50}, S # {}
  PROVE  Max(S) \in S
<1>1. \E x \in S : \A y \in S : x >= y
  <2>1. CASE 50 \in S
    BY <2>1
  <2>2. CASE 50 \notin S /\ 35 \in S
    BY <2>2
  <2>3. CASE 50 \notin S /\ 35 \notin S /\ 20 \in S
    BY <2>3
  <2>4. CASE 50 \notin S /\ 35 \notin S /\ 20 \notin S
    <3>1. \A y \in S : y = 0
      BY <2>4
    <3>2. 0 \in S
      BY <3>1
    <3>3. QED
      BY <3>1, <3>2
  <2>5. QED
    BY <2>1, <2>2, <2>3, <2>4
<1>2. QED
  BY <1>1 DEF Max

LEMMA ScoreInt == \A c \in NamedChars, q \in Queries : scoreEmoji(c, q) \in Int
<1> SUFFICES ASSUME NEW c \in NamedChars, NEW q \in Queries
             PROVE  scoreEmoji(c, q) \in Int
  OBVIOUS
<1> DEFINE keys == {KeyScore[Kin[k][q]] : k \in Range(Annotations[c].default)}
<1>1. NameScore[Kin[Name(c)][q]] \in Int
  BY NameIsText, TextsCompared DEF NameScore
<1>2. \A k \in Range(Annotations[c].default) : k \in Texts
  BY TextsAnnotate DEF NamedChars, Range
<1>3. {0} \cup keys \subseteq {0, 20, 35, 50}
  BY <1>2, TextsCompared DEF KeyScore
<1> HIDE DEF keys
<1>4. Max({0} \cup keys) \in Int
  BY <1>3, BestKeyScore
<1>5. QED
  BY <1>1, <1>4 DEF scoreEmoji, keys

(* How one emoji is better than another, told of their scores and widths.  *)
LEMMA RankIsStrict ==
  ASSUME NEW q \in Queries
  PROVE  \A c, d \in NamedChars :
           /\ Better(c, d, q) => ~Better(d, c, q)
           /\ Outranks(c, d, q) <=> Better(c, d, q) \/ (~Better(d, c, q) /\ c < d)
           /\ c # d => Outranks(c, d, q) \/ Outranks(d, c, q)
           /\ ~Outranks(c, c, q)
           /\ \A e \in NamedChars :
                Outranks(c, d, q) /\ Outranks(d, e, q) => Outranks(c, e, q)
<1>1. \A c \in NamedChars : /\ scoreEmoji(c, q) \in Int /\ Width[Name(c)] \in Int
                            /\ c \in Int
  BY ScoreInt, NameIsText, TextsMeasured, CharsNumbered DEF NamedChars
<1>2. ASSUME NEW c \in NamedChars, NEW d \in NamedChars
      PROVE  /\ Better(c, d, q) => ~Better(d, c, q)
             /\ Outranks(c, d, q) <=> Better(c, d, q) \/ (~Better(d, c, q) /\ c < d)
             /\ c # d => Outranks(c, d, q) \/ Outranks(d, c, q)
             /\ ~Outranks(c, c, q)
  BY <1>1 DEF Better, Outranks
<1>3. ASSUME NEW c \in NamedChars, NEW d \in NamedChars, NEW e \in NamedChars,
             Outranks(c, d, q), Outranks(d, e, q)
      PROVE  Outranks(c, e, q)
  BY <1>1, <1>3 DEF Outranks
<1>4. QED
  BY <1>2, <1>3

-----------------------------------------------------------------------------
(* The answer. *)

(* How many may be shown.                                                  *)
LEMMA ShownAtMost ==
  ASSUME NEW m \in Nat
  PROVE  /\ Min({MaxResults, m}) \in Nat
         /\ Min({MaxResults, m}) <= m /\ Min({MaxResults, m}) <= MaxResults
         /\ Min({MaxResults, m}) = m \/ Min({MaxResults, m}) = MaxResults
<1>1. \E x \in {MaxResults, m} : \A y \in {MaxResults, m} : x <= y
  BY SomeResults
<1>2. /\ Min({MaxResults, m}) \in {MaxResults, m}
      /\ \A y \in {MaxResults, m} : Min({MaxResults, m}) <= y
  BY <1>1 DEF Min
<1>3. QED
  BY <1>2, SomeResults

(* A one-to-one map of finite sets keeps their size.                       *)
LEMMA SameSize ==
  ASSUME NEW S, NEW T, IsFiniteSet(S), NEW f,
         \A x \in S : f[x] \in T,
         \A x, y \in S : f[x] = f[y] => x = y,
         \A t \in T : \E x \in S : f[x] = t
  PROVE  IsFiniteSet(T) /\ Cardinality(T) = Cardinality(S)
<1> DEFINE g == [x \in S |-> f[x]]
<1>1. g \in [S -> T]
  OBVIOUS
<1>2. g \in Bijection(S, T)
  BY <1>1 DEF Bijection, Injection, Surjection, IsInjective
<1>3. ExistsBijection(S, T)
  BY <1>2 DEF ExistsBijection
<1>4. QED
  BY <1>3, FS_Bijection

(* The answer is the best of the dataset, as many as may be shown, in      *)
(* order, and is empty only when nothing matches.                          *)
LEMMA LookIsBest ==
  ASSUME NEW order \in Iterations, NEW q \in Queries
  PROVE  /\ IsBest(Look(newEmojiStore(order), q), q)
         /\ Look(newEmojiStore(order), q) \in Seq(Chars)
         /\ Look(newEmojiStore(order), q) = <<>> <=> Matching(q) = {}
<1> DEFINE e == newEmojiStore(order)
           hits == {k \in DOMAIN e : scoreEmoji(e[k], q) > 0}
           less == {p \in hits \X hits :
                      \/ Better(e[p[1]], e[p[2]], q)
                      \/ ~Better(e[p[2]], e[p[1]], q) /\ p[1] < p[2]}
           s == Sorted(hits, less)
           shown == Look(e, q)
           most == Min({MaxResults, Len(s)})
<1>1. shown = [i \in 1..most |-> e[s[i]]]
  BY DEF Look
<1>2. /\ Cardinality(NamedChars) \in Nat /\ DOMAIN e = 1..Cardinality(NamedChars)
      /\ \A k \in DOMAIN e : e[k] \in NamedChars
      /\ \A j, k \in DOMAIN e : j < k <=> e[j] < e[k]
      /\ \A c \in NamedChars : \E k \in DOMAIN e : e[k] = c
  BY ListOfNamed
<1>3. IsFiniteSet(hits) /\ hits \subseteq Nat /\ hits \subseteq DOMAIN e
  <2>1. IsFiniteSet(DOMAIN e) /\ DOMAIN e \subseteq Nat
    BY <1>2, FS_Interval
  <2>2. hits \in SUBSET DOMAIN e
    OBVIOUS
  <2> HIDE DEF hits, e
  <2>3. QED
    BY <2>1, <2>2, FS_Subset
<1> HIDE DEF e
<1>4. /\ \A k \in hits : e[k] \in Matching(q) /\ e[k] \in NamedChars
      /\ \A c \in Matching(q) : \E k \in hits : e[k] = c
      /\ Matching(q) \subseteq NamedChars
  BY <1>2 DEF Matching, NamedChars
<1>5. \A j, k \in hits : e[j] = e[k] => j = k
  <2>1. NamedChars \subseteq Int
    BY CharsNumbered DEF NamedChars
  <2>2. \A j, k \in hits : /\ j \in Nat /\ k \in Nat /\ e[j] \in Int /\ e[k] \in Int
                           /\ j < k <=> e[j] < e[k]
    BY <1>2, <1>3, <2>1
  <2> HIDE DEF hits
  <2>3. ASSUME NEW j \in hits, NEW k \in hits, e[j] = e[k] PROVE j = k
    <3>1. j \in Nat /\ k \in Nat /\ e[j] \in Int /\ e[k] \in Int
      BY <2>2
    <3>2. (j < k <=> e[j] < e[k]) /\ (k < j <=> e[k] < e[j])
      BY <2>2
    <3>3. QED
      BY <2>3, <3>1, <3>2
  <2>4. QED
    BY <2>3
<1>6. \A j, k \in hits : <<j, k>> \in less <=> Outranks(e[j], e[k], q)
  <2>1. ASSUME NEW j \in hits, NEW k \in hits
        PROVE  <<j, k>> \in less <=> Outranks(e[j], e[k], q)
    <3>1. (j < k) = (e[j] < e[k])
      BY <1>2, <1>3
    <3>2. e[j] \in NamedChars /\ e[k] \in NamedChars
      BY <1>4
    <3> HIDE DEF hits
    <3>3. <<j, k>> \in less <=> \/ Better(e[j], e[k], q)
                                \/ ~Better(e[k], e[j], q) /\ j < k
      <4>1. \A p \in hits \X hits : p \in less <=>
              \/ Better(e[p[1]], e[p[2]], q)
              \/ ~Better(e[p[2]], e[p[1]], q) /\ p[1] < p[2]
        OBVIOUS
      <4> HIDE DEF less
      <4>2. <<j, k>> \in hits \X hits /\ <<j, k>>[1] = j /\ <<j, k>>[2] = k
        OBVIOUS
      <4>3. QED
        BY <4>1, <4>2
    <3> HIDE DEF less
    <3>4. Outranks(e[j], e[k], q) <=> \/ Better(e[j], e[k], q)
                                      \/ ~Better(e[k], e[j], q) /\ e[j] < e[k]
      BY <3>2, RankIsStrict
    <3>5. QED
      BY <3>1, <3>3, <3>4
  <2>2. QED
    BY <2>1
<1> HIDE DEF less, hits
<1>7. StrictOrder(hits, less)
  <2>1. \A x \in hits : <<x, x>> \notin less
    BY <1>4, <1>6, RankIsStrict
  <2>2. \A x, y \in hits : x # y => <<x, y>> \in less \/ <<y, x>> \in less
    BY <1>4, <1>5, <1>6, RankIsStrict
  <2>3. ASSUME NEW x \in hits, NEW y \in hits, NEW z \in hits,
               <<x, y>> \in less, <<y, z>> \in less
        PROVE  <<x, z>> \in less
    BY <1>4, <1>6, <2>3, RankIsStrict
  <2>4. QED
    BY <1>3, <2>1, <2>2, <2>3 DEF StrictOrder
<1> DEFINE m == Cardinality(hits)
<1>8. /\ m \in Nat /\ DOMAIN s = 1..m
      /\ \A i \in 1..m : s[i] \in hits /\ Cardinality(Before(hits, less, s[i])) = i - 1
      /\ \A i, j \in 1..m : i < j <=> <<s[i], s[j]>> \in less
      /\ \A k \in hits : \E i \in 1..m : s[i] = k
  BY <1>7, SortedTakesAll
<1> HIDE DEF s, m
<1>9. Len(s) = m
  BY <1>8
<1>10. most \in Nat /\ most <= m /\ most <= MaxResults /\ (most = m \/ most = MaxResults)
  BY <1>8, <1>9, ShownAtMost
<1> HIDE DEF most
(* As many hits come before k as there are emojis that outrank its own.    *)
<1>11. \A k \in hits : Cardinality({d \in Matching(q) : Outranks(d, e[k], q)})
                        = Cardinality(Before(hits, less, k))
  <2> SUFFICES ASSUME NEW k \in hits
               PROVE  Cardinality({d \in Matching(q) : Outranks(d, e[k], q)})
                        = Cardinality(Before(hits, less, k))
    OBVIOUS
  <2> DEFINE S == Before(hits, less, k)
             T == {d \in Matching(q) : Outranks(d, e[k], q)}
  <2>1. IsFiniteSet(S)
    BY <1>7, BeforeGrows
  <2>2. \A x \in S : e[x] \in T
    BY <1>4, <1>6 DEF Before
  <2>3. \A x, y \in S : e[x] = e[y] => x = y
    BY <1>5 DEF Before
  <2>4. \A t \in T : \E x \in S : e[x] = t
    BY <1>4, <1>6 DEF Before
  <2> HIDE DEF S, T
  <2>5. Cardinality(T) = Cardinality(S)
    BY <2>1, <2>2, <2>3, <2>4, SameSize
  <2>6. QED
    BY <2>5 DEF S, T
<1> DEFINE Ahead(c) == Cardinality({d \in Matching(q) : Outranks(d, c, q)})
<1>12. \A i \in 1..m : e[s[i]] \in Matching(q) /\ Ahead(e[s[i]]) = i - 1
  BY <1>4, <1>8, <1>11
<1>13. \A c \in Matching(q) : \E i \in 1..m : c = e[s[i]]
  BY <1>4, <1>8
<1> HIDE DEF Ahead
<1>14. Range(shown) = {c \in Matching(q) : Ahead(c) < MaxResults}
  <2>1. \A c : c \in Range(shown) <=> \E i \in 1..most : c = e[s[i]]
    BY <1>1 DEF Range
  <2>2. ASSUME NEW i \in 1..most PROVE e[s[i]] \in Matching(q) /\ Ahead(e[s[i]]) < MaxResults
    BY <1>8, <1>10, <1>12, SomeResults
  <2>3. ASSUME NEW c \in Matching(q), Ahead(c) < MaxResults
        PROVE  \E i \in 1..most : c = e[s[i]]
    <3>1. PICK i \in 1..m : c = e[s[i]]
      BY <1>13
    <3>2. i - 1 < MaxResults
      BY <1>12, <2>3, <3>1
    <3>3. i \in 1..most
      BY <1>8, <1>10, <3>2, SomeResults
    <3>4. QED
      BY <3>1, <3>3
  <2>4. QED
    BY <2>1, <2>2, <2>3
<1>15. Len(shown) = most
  BY <1>1, <1>10
<1>16. ASSUME NEW i \in 1..Len(shown) - 1 PROVE Outranks(shown[i], shown[i + 1], q)
  <2>1. i \in 1..most /\ i + 1 \in 1..most /\ i \in 1..m /\ i + 1 \in 1..m /\ i < i + 1
    BY <1>8, <1>10, <1>15
  <2>2. s[i] \in hits /\ s[i + 1] \in hits /\ <<s[i], s[i + 1]>> \in less
    BY <1>8, <2>1
  <2>3. shown[i] = e[s[i]] /\ shown[i + 1] = e[s[i + 1]]
    BY <1>1, <2>1
  <2>4. QED
    BY <1>6, <2>2, <2>3
<1>17. IsBest(shown, q)
  BY <1>14, <1>16 DEF IsBest, Ahead
<1>18. shown \in Seq(Chars)
  <2>1. \A i \in 1..most : e[s[i]] \in Chars
    BY <1>8, <1>10, <1>12 DEF Matching
  <2>2. QED
    BY <1>1, <1>10, <2>1
<1>19. shown = <<>> <=> Matching(q) = {}
  <2>1. Matching(q) = {} <=> m = 0
    BY <1>8, <1>12, <1>13
  <2>2. most = 0 <=> m = 0
    BY <1>8, <1>10, SomeResults
  <2> HIDE DEF shown
  <2>3. shown = <<>> <=> most = 0
    BY <1>10, <1>15, <1>18
  <2>4. QED
    BY <2>1, <2>2, <2>3
<1>20. QED
  BY <1>17, <1>18, <1>19 DEF e

(* Whatever the order the map was walked in, !emoji answers with the best  *)
(* of the dataset, and with a NotFoundError only when nothing matches.     *)
THEOREM AnswerIsBest ==
  \A order \in Iterations, q \in Queries :
    LET shown == Look(newEmojiStore(order), q)
    IN  IsBest(shown, q) /\ (shown = <<>> <=> Matching(q) = {})
  BY LookIsBest

-----------------------------------------------------------------------------
(* What IsBest says is enough to tell the answer. *)

(* How the emojis that match rank among each other.                        *)
Ranking(q) == {p \in Matching(q) \X Matching(q) : Outranks(p[1], p[2], q)}

LEMMA RankingOrders ==
  ASSUME NEW q \in Queries
  PROVE  /\ StrictOrder(Matching(q), Ranking(q))
         /\ \A c \in Matching(q) :
              Before(Matching(q), Ranking(q), c) = {d \in Matching(q) : Outranks(d, c, q)}
<1>1. Matching(q) \subseteq NamedChars /\ IsFiniteSet(Matching(q))
  BY CharsNumbered, FS_Subset DEF Matching, NamedChars
<1>2. \A c, d \in Matching(q) : <<c, d>> \in Ranking(q) <=> Outranks(c, d, q)
  BY DEF Ranking
<1>3. StrictOrder(Matching(q), Ranking(q))
  <2>1. \A x \in Matching(q) : <<x, x>> \notin Ranking(q)
    BY <1>1, <1>2, RankIsStrict
  <2>2. \A x, y \in Matching(q) :
          x # y => <<x, y>> \in Ranking(q) \/ <<y, x>> \in Ranking(q)
    BY <1>1, <1>2, RankIsStrict
  <2>3. ASSUME NEW x \in Matching(q), NEW y \in Matching(q), NEW z \in Matching(q),
               <<x, y>> \in Ranking(q), <<y, z>> \in Ranking(q)
        PROVE  <<x, z>> \in Ranking(q)
    BY <1>1, <1>2, <2>3, RankIsStrict
  <2>4. QED
    BY <1>1, <2>1, <2>2, <2>3 DEF StrictOrder
<1>4. QED
  BY <1>2, <1>3 DEF Before

(* A set of naturals has a first: of the intervals up to its members, one  *)
(* contains no other.                                                      *)
LEMMA FirstOf ==
  ASSUME NEW S \in SUBSET Nat, S # {}
  PROVE  \E i \in S : \A k \in S : i <= k
<1> DEFINE T == {1..i : i \in S}
<1>1. T \subseteq FiniteSubsetsOf(Nat) /\ T # {}
  <2>1. ASSUME NEW i \in S PROVE 1..i \in SUBSET Nat /\ IsFiniteSet(1..i)
    BY FS_Interval
  <2>2. QED
    BY <2>1 DEF FiniteSubsetsOf
<1>2. \E x \in T : \A y \in T : ~(<<y, x>> \in StrictSubsetOrdering(Nat))
  <2> HIDE DEF T
  <2>1. QED
    BY <1>1, FS_StrictSubsetOrderingWellFounded, WFMin
<1>3. PICK i \in S : \A k \in S : ~(<<1..k, 1..i>> \in StrictSubsetOrdering(Nat))
  BY <1>2
<1>4. ASSUME NEW k \in S, k < i PROVE <<1..k, 1..i>> \in StrictSubsetOrdering(Nat)
  <2>1. i \in 1..i /\ i \notin 1..k /\ 1..k \subseteq 1..i /\ 1..i \subseteq Nat
    BY <1>4
  <2>2. QED
    BY <2>1 DEF StrictSubsetOrdering
<1>5. \A k \in S : ~(k < i)
  BY <1>3, <1>4
<1>6. QED
  BY <1>5

(* In an answer each emoji stands behind as many as outrank it.            *)
LEMMA BestInPlace ==
  ASSUME NEW q \in Queries, NEW shown \in Seq(Chars), IsBest(shown, q)
  PROVE  /\ \A i \in 1..Len(shown) : /\ shown[i] \in Matching(q)
                                     /\ Cardinality(Before(Matching(q), Ranking(q), shown[i]))
                                          = i - 1
         /\ Len(shown) = Cardinality({c \in Matching(q) :
              Cardinality({d \in Matching(q) : Outranks(d, c, q)}) < MaxResults})
<1> DEFINE n == Len(shown)
           Ahead(c) == Cardinality({d \in Matching(q) : Outranks(d, c, q)})
           Top == {c \in Matching(q) : Ahead(c) < MaxResults}
<1>1. n \in Nat /\ DOMAIN shown = 1..n
  OBVIOUS
<1>2. Range(shown) = Top /\ \A i \in 1..n - 1 : Outranks(shown[i], shown[i + 1], q)
  BY DEF IsBest
<1>3. Matching(q) \subseteq NamedChars
  BY DEF Matching, NamedChars
<1>4. \A i \in 1..n : shown[i] \in Top /\ shown[i] \in Matching(q) /\ shown[i] \in NamedChars
  BY <1>1, <1>2, <1>3 DEF Range
<1>5. \A c \in Top : \E i \in 1..n : shown[i] = c
  BY <1>1, <1>2 DEF Range
<1> HIDE DEF n, Top
(* Each outranks all that follow: let the k-th be the first one behind.    *)
<1>6. ASSUME NEW i \in 1..n
      PROVE  \A k \in 1..n : i < k => Outranks(shown[i], shown[k], q)
  <2> DEFINE Fails == {k \in 1..n : i < k /\ ~Outranks(shown[i], shown[k], q)}
  <2>1. ASSUME Fails # {} PROVE FALSE
    <3>1. Fails \in SUBSET Nat
      BY <1>1
    <3> HIDE DEF Fails
    <3>2. PICK k \in Fails : \A j \in Fails : k <= j
      BY <2>1, <3>1, FirstOf
    <3> USE DEF Fails
    <3>3. k \in 1..n /\ i < k /\ ~Outranks(shown[i], shown[k], q)
      OBVIOUS
    <3>4. k - 1 \in 1..n /\ k - 1 \in 1..n - 1 /\ k = (k - 1) + 1 /\ k - 1 < k
      BY <1>1, <3>3
    <3>5. Outranks(shown[k - 1], shown[k], q)
      BY <1>2, <3>4
    <3>6. k - 1 # i
      BY <3>3, <3>5
    <3>7. i < k - 1
      BY <1>1, <3>3, <3>6
    <3>8. Outranks(shown[i], shown[k - 1], q)
      BY <1>1, <3>2, <3>4, <3>7
    <3>9. QED
      BY <1>4, <3>3, <3>4, <3>5, <3>8, RankIsStrict
  <2>2. QED
    BY <2>1
<1>7. \A i, k \in 1..n : i < k <=> Outranks(shown[i], shown[k], q)
  <2>1. ASSUME NEW i \in 1..n, NEW k \in 1..n, Outranks(shown[i], shown[k], q) PROVE i < k
    <3>1. i # k
      BY <1>4, <2>1, RankIsStrict
    <3>2. ~(k < i)
      <4>1. ASSUME k < i PROVE FALSE
        <5>1. Outranks(shown[k], shown[i], q)
          BY <1>6, <4>1
        <5>2. QED
          BY <1>4, <2>1, <5>1, RankIsStrict
      <4>2. QED
        BY <4>1
    <3>3. QED
      BY <1>1, <3>1, <3>2
  <2>2. QED
    BY <1>6, <2>1
<1>8. \A i, k \in 1..n : shown[i] = shown[k] => i = k
  <2>1. ASSUME NEW i \in 1..n, NEW k \in 1..n, shown[i] = shown[k] PROVE i = k
    <3>1. ~Outranks(shown[i], shown[k], q) /\ ~Outranks(shown[k], shown[i], q)
      BY <1>4, <2>1, RankIsStrict
    <3>2. ~(i < k) /\ ~(k < i)
      BY <1>7, <3>1
    <3>3. QED
      BY <1>1, <3>2
  <2>2. QED
    BY <2>1
<1>9. n = Cardinality(Top)
  <2>1. IsFiniteSet(1..n) /\ Cardinality(1..n) = n
    BY <1>1, FS_Interval
  <2> DEFINE D == 1..n
  <2>2. /\ \A i \in D : shown[i] \in Top
        /\ \A i, k \in D : shown[i] = shown[k] => i = k
        /\ \A c \in Top : \E i \in D : shown[i] = c
    BY <1>4, <1>5, <1>8
  <2>3. IsFiniteSet(D) /\ Cardinality(D) = n
    BY <2>1
  <2> HIDE DEF D
  <2>4. QED
    BY <2>2, <2>3, SameSize
(* Whatever outranks one that is shown is shown as well, before it.        *)
<1>10. ASSUME NEW i \in 1..n
       PROVE  Cardinality(Before(Matching(q), Ranking(q), shown[i])) = i - 1
  <2> DEFINE T == {d \in Matching(q) : Outranks(d, shown[i], q)}
  <2>1. Before(Matching(q), Ranking(q), shown[i]) = T
    BY <1>4, RankingOrders
  <2>2. IsFiniteSet(1..(i - 1)) /\ Cardinality(1..(i - 1)) = i - 1
    <3>1. i - 1 \in Int /\ (1 > i - 1 => i - 1 = 0)
      BY <1>1
    <3> DEFINE b == i - 1
    <3> HIDE DEF b
    <3>2. IsFiniteSet(1..b) /\ Cardinality(1..b) = IF 1 > b THEN 0 ELSE b - 1 + 1
      BY <3>1, FS_Interval DEF b
    <3>3. b \in Int /\ (1 > b => b = 0)
      BY <3>1 DEF b
    <3>4. Cardinality(1..b) = b
      BY <3>2, <3>3
    <3>5. QED
      BY <3>2, <3>4 DEF b
  <2>3. \A j \in 1..(i - 1) : j \in 1..n /\ j < i
    BY <1>1
  <2>4. \A j \in 1..(i - 1) : shown[j] \in T
    BY <1>4, <1>7, <2>3
  <2>5. \A j, k \in 1..(i - 1) : shown[j] = shown[k] => j = k
    BY <1>8, <2>3
  <2>6. ASSUME NEW d \in T PROVE \E j \in 1..(i - 1) : shown[j] = d
    <3>1. Ahead(d) < MaxResults
      <4> DEFINE B(c) == Before(Matching(q), Ranking(q), c)
      <4>1. /\ d \in Matching(q) /\ shown[i] \in Matching(q)
            /\ <<d, shown[i]>> \in Ranking(q)
        BY <1>4 DEF Ranking
      <4>2. Cardinality(B(d)) < Cardinality(B(shown[i]))
        BY <4>1, BeforeGrows, RankingOrders
      <4>3. Ahead(d) = Cardinality(B(d)) /\ Ahead(shown[i]) = Cardinality(B(shown[i]))
        BY <4>1, RankingOrders
      <4>4. /\ Cardinality(B(d)) \in Int /\ Cardinality(B(shown[i])) \in Int
            /\ Ahead(shown[i]) < MaxResults
        <5>1. \A c \in Matching(q) : Cardinality(B(c)) \in 0..Cardinality(Matching(q)) - 1
          BY BeforeGrows, RankingOrders
        <5>2. Ahead(shown[i]) < MaxResults
          BY <1>4 DEF Top
        <5>3. Cardinality(Matching(q)) \in Nat
          BY RankingOrders, FS_CardinalityType DEF StrictOrder
        <5> HIDE DEF B, Ahead
        <5>4. QED
          BY <4>1, <5>1, <5>2, <5>3
      <4> HIDE DEF B, Ahead
      <4>5. QED
        BY <4>2, <4>3, <4>4, SomeResults
    <3>2. d \in Top
      BY <3>1 DEF Top
    <3>3. PICK j \in 1..n : shown[j] = d
      BY <1>5, <3>2
    <3>4. j < i
      BY <1>7, <3>3
    <3>5. j \in 1..(i - 1)
      BY <1>1, <3>4
    <3>6. QED
      BY <3>3, <3>5
  <2> DEFINE D == 1..(i - 1)
  <2> HIDE DEF T
  <2>7. Cardinality(T) = i - 1
    <3>1. /\ \A j \in D : shown[j] \in T
          /\ \A j, k \in D : shown[j] = shown[k] => j = k
          /\ \A d \in T : \E j \in D : shown[j] = d
      BY <2>4, <2>5, <2>6
    <3>2. IsFiniteSet(D) /\ Cardinality(D) = i - 1
      BY <2>2
    <3> HIDE DEF D
    <3>3. QED
      BY <3>1, <3>2, SameSize
  <2>8. QED
    BY <2>1, <2>7
<1>11. QED
  BY <1>4, <1>9, <1>10 DEF n, Top

(* There is one best answer to a query: IsBest leaves Look no choice, and  *)
(* the same question has the same answer after every restart.              *)
THEOREM BestIsUnique ==
  \A q \in Queries : \A shown, other \in Seq(Chars) :
    IsBest(shown, q) /\ IsBest(other, q) => shown = other
<1> SUFFICES ASSUME NEW q \in Queries,
                    NEW shown \in Seq(Chars), NEW other \in Seq(Chars),
                    IsBest(shown, q), IsBest(other, q)
             PROVE  shown = other
  OBVIOUS
<1>1. Len(shown) = Len(other)
  BY BestInPlace
<1>2. ASSUME NEW i \in 1..Len(shown) PROVE shown[i] = other[i]
  <2> DEFINE place(c) == Cardinality(Before(Matching(q), Ranking(q), c))
  <2>1. shown[i] \in Matching(q) /\ place(shown[i]) = i - 1
    BY BestInPlace
  <2>2. other[i] \in Matching(q) /\ place(other[i]) = i - 1
    BY <1>1, BestInPlace
  <2>3. i \in 1..Cardinality(Matching(q)) /\ StrictOrder(Matching(q), Ranking(q))
    <3>1. StrictOrder(Matching(q), Ranking(q))
      BY RankingOrders
    <3>2. Cardinality(Matching(q)) \in Nat
      BY <3>1, FS_CardinalityType DEF StrictOrder
    <3>3. place(shown[i]) \in 0..Cardinality(Matching(q)) - 1
      BY <2>1, <3>1, BeforeGrows
    <3> HIDE DEF place
    <3>4. QED
      BY <2>1, <3>1, <3>2, <3>3
  <2>4. QED
    BY <2>1, <2>2, <2>3, PlacesTaken
<1>3. QED
  BY <1>1, <1>2, SeqEqual
=============================================================================
