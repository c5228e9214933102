--------------------------- MODULE CompleterProofs ---------------------------
(***************************************************************************)
(* What the completion of a line promises, for every schema, every command  *)
(* file and everything that may be typed.                                   *)
(***************************************************************************)
EXTENDS Completer, CommandTreeProofs

\* The CLI nodes of a mode are the first lists on the way to some schema node.
OnPath(nodes) ==
  /\ \E S : nodes \in Seq(S)
  /\ \E n \in Node : /\ Len(nodes) <= Len(ListPath[n])
                     /\ \A i \in 1..Len(nodes) : nodes[i].token = FullToken(ListPath[n][i])

ModeOK(m) == m.config \in BOOLEAN /\ OnPath(m.nodes)

\* The inductive invariant: what is typed and entered are words, the cursor is
\* only after a word if there is one, and the stack leads somewhere.
PromptInv == /\ typed \in Seq(Word) /\ line \in Seq(Word)
             /\ partial \in BOOLEAN /\ (partial => typed # << >>)
             /\ ModeOK(mode)

\* The levels at which commands are looked up.
Level(t) == t = ExecRoot \/ t = YangRoot \/ \E n \in SNode : t = FullToken(n)

-----------------------------------------------------------------------------
(***************************************************************************)
(* Lookup.                                                                  *)
(***************************************************************************)

\* A set of numbers up to n that is not empty has a greatest element, and Max is it.
LEMMA GreatestNat ==
  ASSUME NEW n \in Nat, NEW S \in SUBSET (0..n), S # {}
  PROVE  Max(S) \in S /\ \A y \in S : y <= Max(S)
<1> DEFINE D == {n - x : x \in S}
<1>1. D \in SUBSET Nat /\ D # {}
  <2>1. \A x \in S : n - x \in Nat
    OBVIOUS
  <2> QED BY <2>1
<1>2. PICK d \in D : \A k \in D : d <= k
  <2> HIDE DEF D
  <2> QED BY <1>1, LeastNat
<1>3. PICK x \in S : d = n - x
  BY <1>2
<1>4. \A y \in S : x >= y
  <2> SUFFICES ASSUME NEW y \in S PROVE x >= y
    OBVIOUS
  <2>1. n - y \in D
    OBVIOUS
  <2>2. n - x <= n - y
    BY <1>2, <1>3, <2>1
  <2> QED BY <2>2
<1>5. Max(S) \in S /\ \A y \in S : Max(S) >= y
  BY <1>4 DEF Max
<1> QED BY <1>5

\* The name of the keyword that a word selects selects nothing else.
LEMMA NameSelectsSame ==
  ASSUME NEW t, NEW add, NEW w, NEW u \in Selected(t, add, w), ~IsString(u)
  PROVE  Selected(t, add, TokenName(u)) = {u}
<1> DEFINE M == MatchingTokens(t, add, w)
           s == TokenName(u)
           N == MatchingTokens(t, add, s)
<1>1. u \in M /\ u \in GetTokens(t, add)
  BY DEF Selected, Chosen, MatchingTokens
<1>2. N \subseteq M
  <2> SUFFICES ASSUME NEW v \in N PROVE v \in M
    OBVIOUS
  <2>1. v \in GetTokens(t, add) /\ (IsString(v) \/ <<s, TokenName(v)>> \in Abbrev)
    BY DEF MatchingTokens, Matches
  <2>2. <<w, s>> \in Abbrev
    BY <1>1 DEF MatchingTokens, Matches
  <2>3. <<s, TokenName(v)>> \in Abbrev => <<w, TokenName(v)>> \in Abbrev
    <3> HIDE DEF s
    <3>1. \A x, y, z : <<x, y>> \in Abbrev /\ <<y, z>> \in Abbrev => <<x, z>> \in Abbrev
      BY WordAssumption
    <3> QED BY <2>2, <3>1
  <2> QED BY <2>1, <2>3 DEF MatchingTokens, Matches
<1>3. PICK v : v \in Selected(t, add, s)
  BY <1>1, NameSelects
<1>4. v \in N
  BY <1>3 DEF Selected, Chosen
<1>5. v = u
  <2>1. CASE M = {u}
    BY <1>2, <1>4, <2>1
  <2>2. CASE M # {u}
    <3>1. MatchesExactly(u, w)
      BY <2>2 DEF Selected, Chosen
    <3>2. s = w
      BY <3>1 DEF MatchesExactly
    <3> QED BY <1>3, <3>2, SelectedUnique
  <2> QED BY <2>1, <2>2
<1> QED BY <1>3, <1>5, SelectedUnique

\* Every token has a word for a name.
LEMMA NameIsWord == \A t \in Token : TokenName(t) \in Word
<1> SUFFICES ASSUME NEW t \in Token PROVE TokenName(t) \in Word
  OBVIOUS
<1>1. CASE t \in YangToken
  BY <1>1, TokenShape, SchemaAssumption DEF TokenName
<1>2. CASE t \in InternalToken
  <2>1. t[1] \in DOMAIN Internal /\ IsInternal(t)
    BY <1>2, TokenShape
  <2>2. Internal[t[1]] \in InternalRecord
    BY <2>1, InternalAssumption
  <2> QED BY <2>1, <2>2 DEF TokenName, InternalRecord
<1> QED BY <1>1, <1>2 DEF Token

-----------------------------------------------------------------------------
(***************************************************************************)
(* Reading.                                                                 *)
(***************************************************************************)

\* Nothing is read of an empty line; with one more word the parser goes on from where the others took it.
LEMMA OneMoreWord ==
  ASSUME NEW level, NEW config, NEW words \in Seq(Word), NEW s \in Word
  PROVE  Readings(level, config, Append(words, s))
           = TakingWord(Readings(level, config, words), config, s, words = << >>)
<1> DEFINE n == Len(words)
           more == Append(words, s)
<1>1. /\ n \in Nat /\ more \in Seq(Word) /\ Len(more) = n + 1 /\ more[n + 1] = s
      /\ \A j \in 1..n : words[j] = more[j]
      /\ n + 1 = 1 <=> words = << >>
  BY LenProperties, AppendProperties
<1> HIDE DEF more
<1>2. n \in 0..n /\ n <= Len(more) /\ n + 1 \in 1..Len(more) /\ (n + 1) - 1 = n
  BY <1>1
<1>3. ReadingsAfter(level, config, words)[n] = ReadingsAfter(level, config, more)[n]
  BY <1>1, <1>2, SameBeginning
<1>4. ReadingsAfter(level, config, more)[n + 1]
        = TakingWord(ReadingsAfter(level, config, more)[n], config, more[n + 1], n + 1 = 1)
  BY <1>1, <1>2, ReadingsStep
<1>5. (n + 1 = 1) = (words = << >>)
  BY <1>1
<1> HIDE DEF n
<1>6. Readings(level, config, more) = ReadingsAfter(level, config, more)[n + 1]
  BY <1>1 DEF Readings
<1>7. Readings(level, config, words) = ReadingsAfter(level, config, words)[n]
  BY DEF Readings, n
<1> QED BY <1>1, <1>3, <1>4, <1>5, <1>6, <1>7 DEF more

\* Before the first word nothing is read.
LEMMA NothingYet ==
  ASSUME NEW level, NEW config, NEW words \in Seq(Word)
  PROVE  Len(words) = 0 => Readings(level, config, words) = {NothingRead(level)}
<1> DEFINE R == ReadingsAfter(level, config, words)
<1>1. R[0] = {NothingRead(level)}
  BY ReadingsStep
<1>2. Readings(level, config, words) = R[Len(words)]
  BY DEF Readings
<1> HIDE DEF R
<1> QED BY <1>1, <1>2

\* A token further in than a level: what is selected at it or below.
Beyond(level, t) ==
  t \in Token /\ (level \in YangToken /\ t \in YangToken => Depth[level[1]] < Depth[t[1]])

\* Such a token is not the level itself.
LEMMA BeyondDiffers ==
  ASSUME NEW level, Level(level), NEW t, Beyond(level, t)
  PROVE  t # level
<1> SUFFICES ASSUME t = level PROVE FALSE
  OBVIOUS
<1>1. t \notin Roots
  BY TokenShape DEF Beyond, Token
<1>2. PICK n \in SNode : t = FullToken(n)
  BY <1>1 DEF Level, Roots
<1>3. t \in YangToken /\ t[1] \in SNode
  BY <1>2, InnerToken
<1>4. Depth[t[1]] < Depth[t[1]] /\ Depth[t[1]] \in Nat
  BY <1>3, SchemaAssumption DEF Beyond
<1> QED BY <1>4

\* What a word selects at the level, or further in, is further in.
LEMMA BeyondStep ==
  ASSUME NEW level, Level(level), NEW t, t = level \/ Beyond(level, t),
         NEW add, NEW w, NEW u \in Selected(t, add, w)
  PROVE  Beyond(level, u)
<1>1. u \in Token /\ (ParentToken(u) = t \/ ParentToken(u) \in {ConfigRoot, DefaultRoot})
  BY LookupFinds
<1>2. SUFFICES ASSUME level \in YangToken, u \in YangToken PROVE Depth[level[1]] < Depth[u[1]]
  BY <1>1 DEF Beyond
<1>3. PICK n \in SNode : level = FullToken(n)
  BY <1>2, TokenShape DEF Level, Roots
<1>4. /\ level[1] = n /\ level[2] = NArgs(n) /\ NArgs(n) \in Nat /\ u[1] \in SNode /\ u[2] \in 0..NArgs(u[1])
      /\ u = <<u[1], u[2]>>
  BY <1>2, <1>3, InnerToken, TokenShape
<1>5. ParentToken(u) = t /\ t \in YangToken
  <2>1. ParentToken(u) \in YangToken \cup {YangRoot} /\ ConfigRoot \notin YangToken \cup {YangRoot}
        /\ DefaultRoot \notin YangToken \cup {YangRoot}
    BY <1>2, AboveYang, TokenShape, RootsDiffer DEF Roots
  <2>2. YangRoot \notin Token /\ (t \in Token \/ t = level)
    BY TokenShape DEF Beyond, Token, Roots
  <2>3. ParentToken(u) = t
    BY <1>1, <2>1
  <2> QED BY <1>2, <2>1, <2>2, <2>3 DEF Token
<1>6. /\ Depth[u[1]] \in Nat /\ Depth[SParent[u[1]]] \in Nat /\ Depth[SParent[u[1]]] < Depth[u[1]]
      /\ Depth[n] \in Nat
  BY <1>4, SchemaAssumption
<1>7. (t[1] = u[1] /\ t[2] = u[2] - 1 /\ u[2] > 0) \/ t[1] = SParent[u[1]]
  <2>1. u[2] > 0 \/ u[2] = 0
    BY <1>4, InnerToken
  <2> QED BY <1>2, <1>5, <2>1, AboveYang
<1>8. CASE t = level
  <2>1. t[1] = SParent[u[1]]
    <3> SUFFICES ASSUME t[1] = u[1], t[2] = u[2] - 1 PROVE FALSE
      BY <1>7
    <3>1. NArgs(n) = u[2] - 1 /\ u[2] \in 0..NArgs(n)
      BY <1>4, <1>8
    <3> QED BY <1>4, <3>1
  <2> QED BY <1>4, <1>6, <1>8, <2>1
<1>9. CASE t # level
  <2>1. Depth[n] < Depth[t[1]]
    BY <1>2, <1>4, <1>5, <1>9 DEF Beyond
  <2> QED BY <1>4, <1>6, <1>7, <2>1
<1> QED BY <1>8, <1>9

\* After a word the reading has left the level, unless the word was "no".
LEMMA WordsLead ==
  ASSUME NEW level, Level(level), NEW config, NEW words \in Seq(Word),
         NEW i \in 0..Len(words), NEW c \in ReadingsAfter(level, config, words)[i]
  PROVE  \/ c.token = level /\ (i = 0 \/ c.negate)
         \/ Beyond(level, c.token)
<1> DEFINE R == ReadingsAfter(level, config, words)
           Good(k) == \A d \in R[k] : \/ d.token = level /\ (k = 0 \/ d.negate)
                                      \/ Beyond(level, d.token)
           T == {k \in Nat : k <= Len(words) => Good(k)}
<1>1. Len(words) \in Nat
  BY LenProperties
<1>2. 0 \in T
  <2>1. R[0] = {NothingRead(level)}
    BY ReadingsStep
  <2> HIDE DEF R
  <2> QED BY <2>1 DEF NothingRead
<1>3. ASSUME NEW k \in T PROVE k + 1 \in T
  <2> SUFFICES ASSUME k + 1 <= Len(words), NEW d \in R[k + 1]
               PROVE  (d.token = level /\ d.negate) \/ Beyond(level, d.token)
    OBVIOUS
  <2>1. k + 1 \in 1..Len(words) /\ (k + 1) - 1 = k /\ k <= Len(words) /\ k \in 0..Len(words)
    BY <1>1
  <2>2. Good(k)
    BY <2>1
  <2>3. R[k + 1] = TakingWord(R[k], config, words[k + 1], k + 1 = 1)
    BY <2>1, ReadingsStep
  <2>4. R[k] \subseteq ReadingType(level)
    BY <2>1, ReadingShape
  <2> HIDE DEF R
  <2>5. PICK b \in R[k] : \E t \in Selected(b.token, k + 1 = 1 /\ config, words[k + 1]) :
           d = Taking(b, t, words[k + 1], k + 1 = 1)
    BY <2>3 DEF TakingWord
  <2>10. PICK t \in Selected(b.token, k + 1 = 1 /\ config, words[k + 1]) :
           d = Taking(b, t, words[k + 1], k + 1 = 1)
    BY <2>5
  <2>6. b.token = level \/ Beyond(level, b.token)
    BY <2>2
  <2>7. Beyond(level, t)
    BY <2>6, BeyondStep
  <2>8. b \in ReadingType(level)
    BY <2>4
  <2>9. CASE k + 1 = 1 /\ TokenName(t) = "no"
    <3>1. d = [b EXCEPT !.negate = TRUE]
      BY <2>10, <2>9 DEF Taking
    <3>2. d.token = b.token /\ d.negate
      BY <2>8, <3>1 DEF ReadingType
    <3> QED BY <2>6, <3>2
  <2>11. CASE ~(k + 1 = 1 /\ TokenName(t) = "no")
    <3>1. d.token = t
      BY <2>10, <2>8, <2>11 DEF Taking, ReadingType
    <3> QED BY <2>7, <3>1
  <2> QED BY <2>9, <2>11
<1>4. T = Nat
  <2> HIDE DEF T
  <2>1. T \in SUBSET Nat
    BY DEF T
  <2> QED BY <1>2, <1>3, <2>1, NatSetInduction
<1>5. i \in T /\ i <= Len(words)
  BY <1>1, <1>4
<1> QED BY <1>5

-----------------------------------------------------------------------------
(***************************************************************************)
(* Suggesting.                                                              *)
(***************************************************************************)

\* Commands are looked up at a level.
LEMMA LevelOfMode ==
  ASSUME NEW m, ModeOK(m)
  PROVE  /\ Level(WdToken(m))
         /\ m.config /\ m.nodes # << >> =>
              \E n \in Node : /\ Len(m.nodes) <= Len(ListPath[n])
                              /\ \A i \in 1..Len(m.nodes) : m.nodes[i].token = FullToken(ListPath[n][i])
                              /\ WdToken(m)[1] = ListPath[n][Len(m.nodes)]
                              /\ Len(m.nodes) \in 1..Len(ListPath[n])
<1>1. CASE ~m.config \/ m.nodes = << >>
  BY <1>1 DEF Level, WdToken
<1>2. CASE m.config /\ m.nodes # << >>
  <2> DEFINE k == Len(m.nodes)
  <2>1. k \in Nat \ {0}
    BY <1>2, LenProperties, EmptySeq DEF ModeOK, OnPath
  <2>2. PICK n \in Node : /\ k <= Len(ListPath[n])
                          /\ \A i \in 1..k : m.nodes[i].token = FullToken(ListPath[n][i])
    BY DEF ModeOK, OnPath
  <2>3. k \in 1..k /\ k \in 1..Len(ListPath[n])
    BY <2>1, <2>2, InnermostList, LenProperties
  <2>4. ListPath[n][k] \in SNode
    BY <2>3, ListOnPath
  <2>5. WdToken(m) = FullToken(ListPath[n][k])
    BY <1>2, <2>2, <2>3 DEF WdToken, Last
  <2>6. WdToken(m)[1] = ListPath[n][k]
    BY <2>4, <2>5, InnerToken
  <2> QED BY <2>2, <2>3, <2>4, <2>5, <2>6 DEF Level
<1> QED BY <1>1, <1>2

\* A line is its words up to its length; without the last one it is its front.
LEMMA WholeLine ==
  ASSUME NEW words \in Seq(Word)
  PROVE  /\ SubSeq(words, 1, Len(words)) = words
         /\ Len(words) \in Nat
         /\ words # << >> => /\ Len(words) - 1 \in Nat
                             /\ SubSeq(words, 1, Len(words) - 1) = Front(words)
                             /\ Front(words) \in Seq(Word)
                             /\ words[Len(words)] \in Word
                             /\ words = Append(Front(words), words[Len(words)])
<1>1. Len(words) \in Nat /\ \A i \in 1..Len(words) : words[i] \in Word
  BY LenProperties, ElementOfSeq
<1>2. SubSeq(words, 1, Len(words)) = words
  <2> DEFINE s == SubSeq(words, 1, Len(words))
  <2>1. s \in Seq(Word) /\ Len(s) = Len(words) /\ \A i \in 1..Len(words) : s[i] = words[i]
    BY <1>1, SubSeqProperties
  <2> HIDE DEF s
  <2>2. s = words
    BY <2>1, SeqEqual
  <2> QED BY <2>2 DEF s
<1>3. ASSUME words # << >>
      PROVE  /\ Len(words) - 1 \in Nat
             /\ SubSeq(words, 1, Len(words) - 1) = Front(words)
             /\ Front(words) \in Seq(Word)
             /\ words[Len(words)] \in Word
             /\ words = Append(Front(words), words[Len(words)])
  <2> DEFINE f == SubSeq(words, 1, Len(words) - 1)
             g == Append(f, words[Len(words)])
  <2>1. Len(words) \in Nat /\ Len(words) > 0
    <3>1. Len(words) \in Nat \ {0}
      BY <1>3, EmptySeq
    <3> QED BY <3>1
  <2>2. f = Front(words)
    BY DEF Front
  <2>3. f \in Seq(Word) /\ Len(f) = Len(words) - 1 /\ \A i \in 1..(Len(words) - 1) : f[i] = words[i]
    <3>1. PICK k \in Nat : k = Len(words) - 1
      BY <2>1
    <3>2. f = SubSeq(words, 1, k) /\ \A i \in 1..k : words[i] \in Word
      BY <1>1, <3>1
    <3> HIDE DEF f
    <3>3. f \in Seq(Word) /\ Len(f) = k /\ \A i \in 1..k : f[i] = words[i]
      BY <3>2, SubSeqProperties
    <3> QED BY <3>1, <3>3
  <2> HIDE DEF f
  <2>4. words[Len(words)] \in Word
    BY <1>1, <2>1
  <2>5. /\ g \in Seq(Word) /\ Len(g) = Len(f) + 1 /\ g[Len(f) + 1] = words[Len(words)]
        /\ \A i \in 1..Len(f) : g[i] = f[i]
    BY <2>3, <2>4, AppendProperties
  <2> HIDE DEF g
  <2>6. g = words
    <3>1. Len(g) = Len(words)
      BY <2>1, <2>3, <2>5
    <3>2. ASSUME NEW i \in 1..Len(words) PROVE g[i] = words[i]
      BY <2>1, <2>3, <2>5
    <3> QED BY <2>5, <3>1, <3>2, SeqEqual
  <2>7. Len(words) - 1 \in Nat /\ SubSeq(words, 1, Len(words) - 1) = f
    BY <2>1 DEF f
  <2> QED BY <2>2, <2>3, <2>4, <2>6, <2>7 DEF g
<1> QED BY <1>1, <1>2, <1>3

\* The parser gets through the whole line if the line has a reading, and through
\* all but its last word if only the words before it have one.
LEMMA ResolvedIs ==
  ASSUME NEW m, NEW words \in Seq(Word)
  PROVE  /\ Resolved(m, words) \in 0..Len(words)
         /\ ReadAt(m, words) # {} => Resolved(m, words) = Len(words)
         /\ words # << >> /\ ReadAt(m, words) = {} /\ ReadAt(m, Front(words)) # {} =>
              Resolved(m, words) = Len(words) - 1
<1> DEFINE n == Len(words)
           S == {i \in 0..n : ReadAt(m, SubSeq(words, 1, i)) # {}}
<1>1. n \in Nat /\ 0 \in 0..n /\ n \in 0..n
  BY WholeLine
<1>2. 0 \in S
  <2>1. SubSeq(words, 1, 0) = << >> /\ << >> \in Seq(Word) /\ Len(<< >>) = 0
    <3>1. SubSeq(words, 1, 0) = << >>
      BY <1>1, SubSeqEmpty
    <3> QED BY <3>1, EmptySeq
  <2>2. ReadAt(m, << >>) = {NothingRead(WdToken(m))}
    BY <2>1, NothingYet DEF ReadAt
  <2> QED BY <1>1, <2>1, <2>2
<1>3. S \in SUBSET (0..n) /\ S # {}
  BY <1>2
<1>4. Resolved(m, words) = Max(S)
  BY DEF Resolved
<1>5. Max(S) \in S /\ \A y \in S : y <= Max(S)
  <2> HIDE DEF S
  <2> QED BY <1>1, <1>3, GreatestNat
<1>6. ASSUME ReadAt(m, words) # {} PROVE Max(S) = n
  <2>1. n \in S
    BY <1>1, <1>6, WholeLine
  <2>2. n <= Max(S) /\ Max(S) \in 0..n
    BY <1>3, <1>5, <2>1
  <2> HIDE DEF S
  <2> QED BY <1>1, <2>2
<1>7. ASSUME words # << >>, ReadAt(m, words) = {}, ReadAt(m, Front(words)) # {}
      PROVE  Max(S) = n - 1
  <2>1. n - 1 \in 0..n /\ n - 1 \in S /\ n \notin S
    <3>1. n - 1 \in Nat /\ SubSeq(words, 1, n - 1) = Front(words) /\ SubSeq(words, 1, n) = words
      BY <1>7, WholeLine
    <3>2. n - 1 \in 0..n
      BY <1>1, <3>1
    <3> QED BY <1>7, <3>1, <3>2
  <2>2. n - 1 <= Max(S) /\ Max(S) \in 0..n /\ Max(S) # n
    BY <1>3, <1>5, <2>1
  <2> HIDE DEF S
  <2> QED BY <1>1, <2>2
<1> QED BY <1>3, <1>4, <1>5, <1>6, <1>7

\* For a line that has a reading the suggestions are those for it.
LEMMA SuggestedForLine ==
  ASSUME NEW m, NEW words \in Seq(Word), NEW unfinished, NEW c \in ReadAt(m, words)
  PROVE  Suggestions(m, words, unfinished) = Following(m, c, unfinished)
<1>1. Resolved(m, words) = Len(words) /\ SubSeq(words, 1, Len(words)) = words
  BY ResolvedIs, WholeLine
<1>2. Suggestions(m, words, unfinished) = UNION {Following(m, d, unfinished) : d \in ReadAt(m, words)}
  BY <1>1 DEF Suggestions, SuggestedAfter
<1>3. ReadAt(m, words) = {c}
  <2>1. Len(words) \in 0..Len(words)
    BY WholeLine
  <2>2. \A d, e \in ReadAt(m, words) : d = e
    BY <2>1, ReadingShape DEF ReadAt, Readings
  <2> QED BY <2>2
<1> QED BY <1>2, <1>3

\* The tokens offered after a line whose reading is c, and those a word picks.
Offered(m, c, words) == GetTokens(c.token, words = << >> /\ m.config)
Picked(m, c, words, w) == Selected(c.token, words = << >> /\ m.config, w)

\* The name of a token that is offered picks a token, that of a keyword that was
\* picked nothing else.
LEMMA OfferedAndPicked ==
  ASSUME NEW m, NEW c, NEW words
  PROVE  /\ \A u \in Offered(m, c, words) :
              /\ u \in Token /\ TokenName(u) \in Word
              /\ \A s : s = TokenName(u) \/ IsString(u) => Picked(m, c, words, s) # {}
         /\ \A w : \A u \in Picked(m, c, words, w) :
              /\ u \in Offered(m, c, words)
              /\ ~IsString(u) => Picked(m, c, words, TokenName(u)) = {u}
<1> DEFINE add == words = << >> /\ m.config
<1>1. Offered(m, c, words) = GetTokens(c.token, add) /\ \A w : Picked(m, c, words, w) = Selected(c.token, add, w)
  BY DEF Offered, Picked
<1> HIDE DEF add
<1>2. \A u \in GetTokens(c.token, add) : /\ u \in Token
                                         /\ \A s : s = TokenName(u) \/ IsString(u) => Selected(c.token, add, s) # {}
  BY NameSelects DEF GetTokens
<1>3. \A w : \A u \in Selected(c.token, add, w) :
         /\ u \in GetTokens(c.token, add)
         /\ ~IsString(u) => Selected(c.token, add, TokenName(u)) = {u}
  BY NameSelectsSame DEF Selected, Chosen, MatchingTokens
<1> QED BY <1>1, <1>2, <1>3, NameIsWord

\* There is one reading at most, and a word that is picked takes it further.
LEMMA OneReading ==
  ASSUME NEW m, NEW words \in Seq(Word), NEW c \in ReadAt(m, words)
  PROVE  /\ ReadAt(m, words) = {c}
         /\ c \in ReadingType(WdToken(m))
         /\ \A s \in Word : ReadAt(m, Append(words, s))
                              = {Taking(c, t, s, words = << >>) : t \in Picked(m, c, words, s)}
<1>1. Len(words) \in 0..Len(words)
  BY WholeLine
<1>2. /\ ReadAt(m, words) \subseteq ReadingType(WdToken(m))
      /\ \A d, e \in ReadAt(m, words) : d = e
  BY <1>1, ReadingShape DEF ReadAt, Readings
<1>3. ReadAt(m, words) = {c}
  BY <1>2
<1>4. ASSUME NEW s \in Word
      PROVE  ReadAt(m, Append(words, s)) = {Taking(c, t, s, words = << >>) : t \in Picked(m, c, words, s)}
  <2>1. ReadAt(m, Append(words, s)) = TakingWord(ReadAt(m, words), m.config, s, words = << >>)
    BY OneMoreWord DEF ReadAt
  <2>2. ReadAt(m, Append(words, s)) = TakingWord({c}, m.config, s, words = << >>)
    BY <1>3, <2>1
  <2> QED BY <2>2 DEF TakingWord, Picked
<1> QED BY <1>2, <1>3, <1>4

\* "no" is all that is typed.
NoAlone(m, words) == \E c \in ReadAt(m, words) : c.negate /\ c.token = c.level

\* s, the name of keyword u, completes the last word of a line, given the reading
\* of the others.
Completes(m, b, words, s, u) ==
  /\ u \in Offered(m, b, Front(words)) /\ u \in Token
  /\ s = TokenName(u) /\ ~IsString(u)
  /\ ReadAt(m, words) # {} =>
       /\ u \in Picked(m, b, Front(words), words[Len(words)])
       /\ ~(Front(words) = << >> /\ TokenName(u) = "no")

\* While a word that the line ends with is completed the suggestions are the
\* tokens that it selects or, if it selects none, all those that it matches.
LEMMA SuggestedForWord ==
  ASSUME NEW m, ModeOK(m), NEW words \in Seq(Word), words # << >>,
         NEW b \in ReadAt(m, Front(words)),
         NEW unfinished, unfinished = TRUE, NEW s \in Suggestions(m, words, unfinished),
         ~NoAlone(m, words)
  PROVE  \E u : Completes(m, b, words, s, u)
<1> DEFINE f == Front(words)
           first == f = << >>
           w == words[Len(words)]
           n == Len(words)
<1>1. /\ n \in Nat /\ n - 1 \in Nat /\ f \in Seq(Word) /\ w \in Word /\ words = Append(f, w)
      /\ SubSeq(words, 1, n - 1) = f
      /\ Len(f) = n - 1
  <2>1. /\ n \in Nat /\ n - 1 \in Nat /\ f \in Seq(Word) /\ w \in Word /\ words = Append(f, w)
        /\ SubSeq(words, 1, n - 1) = f
    BY WholeLine
  <2>2. Len(f) \in Nat /\ Len(Append(f, w)) = Len(f) + 1
    BY <2>1, LenProperties, AppendProperties
  <2> QED BY <2>1, <2>2
<1>2. Level(WdToken(m))
  BY LevelOfMode
<1>3. b \in ReadingType(WdToken(m)) /\ ReadAt(m, f) = {b}
  BY <1>1, OneReading
<1>4. ReadAt(m, words) = {Taking(b, t, w, first) : t \in Picked(m, b, f, w)}
  <2> HIDE DEF f, w
  <2>1. b \in ReadAt(m, f)
    BY <1>3
  <2>2. ReadAt(m, Append(f, w)) = {Taking(b, t, w, f = << >>) : t \in Picked(m, b, f, w)}
    BY <1>1, <2>1, OneReading
  <2> QED BY <1>1, <2>2
<1>5. ASSUME NEW c \in ReadAt(m, words)
      PROVE  \E u \in Picked(m, b, f, w) :
               c.token = u /\ Following(m, c, TRUE) = Shown({u}, TRUE) /\ ~(first /\ TokenName(u) = "no")
  <2>1. PICK u \in Picked(m, b, f, w) : c = Taking(b, u, w, first)
    BY <1>4, <1>5
  <2>2. c \in ReadingType(WdToken(m)) /\ c.token # c.level
    <3>1. n \in 0..n /\ n # 0
      BY <1>1
    <3>2. c \in ReadingType(WdToken(m))
      BY OneReading
    <3>3. \/ c.token = WdToken(m) /\ (n = 0 \/ c.negate)
          \/ Beyond(WdToken(m), c.token)
      BY <1>2, <3>1, WordsLead DEF ReadAt, Readings
    <3>4. c.level = WdToken(m)
      BY <3>2 DEF ReadingType
    <3> QED BY <1>2, <3>1, <3>2, <3>3, <3>4, BeyondDiffers DEF NoAlone
  <2>3. ~(first /\ TokenName(u) = "no")
    <3> SUFFICES ASSUME first, TokenName(u) = "no" PROVE FALSE
      OBVIOUS
    <3>1. c = [b EXCEPT !.negate = TRUE]
      BY <2>1 DEF Taking
    <3>2. c.token = b.token /\ c.level = b.level
      BY <1>3, <3>1 DEF ReadingType
    <3>3. b = NothingRead(WdToken(m))
      <4>1. Len(f) = 0
        OBVIOUS
      <4> HIDE DEF f
      <4> QED BY <1>1, <1>3, <4>1, NothingYet DEF ReadAt
    <3> QED BY <2>2, <3>2, <3>3 DEF NothingRead
  <2>4. c.token = u
    BY <1>3, <2>1, <2>3 DEF Taking, ReadingType
  <2>5. Following(m, c, TRUE) = Shown({u}, TRUE)
    BY <2>2, <2>4 DEF Following
  <2> QED BY <2>3, <2>4, <2>5
<1>6. ASSUME NEW M, s \in Shown(M, TRUE)
      PROVE  \E u \in M : s = TokenName(u) /\ ~IsString(u)
  BY <1>6 DEF Shown
<1>7. \A u \in Offered(m, b, f) : u \in Token
  BY OfferedAndPicked
<1>8. CASE ReadAt(m, words) # {}
  <2>1. PICK c : c \in ReadAt(m, words)
    BY <1>8
  <2>2. s \in Following(m, c, TRUE)
    BY <2>1, SuggestedForLine
  <2>3. PICK u \in Picked(m, b, f, w) :
           Following(m, c, TRUE) = Shown({u}, TRUE) /\ ~(first /\ TokenName(u) = "no")
    BY <1>5, <2>1
  <2>4. s = TokenName(u) /\ ~IsString(u)
    BY <2>2, <2>3 DEF Shown
  <2>5. u \in Offered(m, b, f)
    BY OfferedAndPicked
  <2> QED BY <1>7, <2>3, <2>4, <2>5 DEF Completes
<1>9. CASE ReadAt(m, words) = {}
  <2>1. Resolved(m, words) = n - 1 /\ n - 1 # n
    BY <1>1, <1>9, ResolvedIs
  <2>2. s \in Shown(MatchingTokens(b.token, n - 1 = 0 /\ m.config, words[n - 1 + 1]), TRUE)
    BY <1>1, <1>3, <2>1 DEF Suggestions, SuggestedAfter
  <2>3. (n - 1 = 0) = first
    BY <1>1, EmptySeq
  <2>4. PICK u \in MatchingTokens(b.token, first /\ m.config, words[n - 1 + 1]) :
           s = TokenName(u) /\ ~IsString(u)
    BY <1>6, <2>2, <2>3
  <2>5. u \in Offered(m, b, f)
    BY DEF MatchingTokens, Offered
  <2> QED BY <1>7, <1>9, <2>4, <2>5 DEF Completes
<1> QED BY <1>8, <1>9

\* Between words the suggestions are everything that may come next.
LEMMA SuggestedForNext ==
  ASSUME NEW m, ModeOK(m), NEW words \in Seq(Word), NEW c \in ReadAt(m, words),
         ~(c.negate /\ c.token = c.level)
  PROVE  Suggestions(m, words, FALSE) = Shown(Offered(m, c, words), FALSE)
<1>1. Suggestions(m, words, FALSE) = Following(m, c, FALSE)
  BY SuggestedForLine
<1>2. Len(words) \in 0..Len(words) /\ (Len(words) = 0 <=> words = << >>)
  BY WholeLine, EmptySeq
<1>3. Level(WdToken(m)) /\ c.level = WdToken(m)
  <2>1. c \in ReadingType(WdToken(m))
    BY <1>2, ReadingShape DEF ReadAt, Readings
  <2> QED BY <2>1, LevelOfMode DEF ReadingType
<1>4. \/ c.token = WdToken(m) /\ (Len(words) = 0 \/ c.negate)
      \/ Beyond(WdToken(m), c.token)
  BY <1>2, <1>3, WordsLead DEF ReadAt, Readings
<1>5. CASE c.token = c.level
  <2>1. words = << >>
    BY <1>2, <1>3, <1>4, <1>5, BeyondDiffers
  <2>2. Following(m, c, FALSE) = Shown(GetTokens(c.level, m.config), FALSE)
    BY <1>5 DEF Following
  <2> DEFINE G == Offered(m, c, words)
  <2>3. G = GetTokens(c.level, m.config)
    BY <1>5, <2>1 DEF Offered, GetTokens, OfferedParents
  <2> HIDE DEF G
  <2>4. Suggestions(m, words, FALSE) = Shown(G, FALSE)
    BY <1>1, <2>2, <2>3
  <2> QED BY <2>4 DEF G
<1>6. CASE c.token # c.level
  <2>1. words # << >>
    <3> SUFFICES ASSUME words = << >> PROVE FALSE
      OBVIOUS
    <3>1. c = NothingRead(WdToken(m))
      BY <1>2, NothingYet DEF ReadAt
    <3> QED BY <1>6, <3>1 DEF NothingRead
  <2>2. Following(m, c, FALSE) = Shown(Children(c.token), FALSE)
    BY <1>6 DEF Following, NextTokens
  <2>3. Children(c.token) = GetTokens(c.token, FALSE)
    BY DEF Children, GetTokens, OfferedParents
  <2> DEFINE G == Offered(m, c, words)
  <2>4. G = GetTokens(c.token, FALSE)
    BY <2>1 DEF Offered, GetTokens, OfferedParents
  <2> HIDE DEF G
  <2>5. Suggestions(m, words, FALSE) = Shown(G, FALSE)
    BY <1>1, <2>2, <2>3, <2>4
  <2> QED BY <2>5 DEF G
<1> QED BY <1>5, <1>6

\* A word that is suggested can be read.
LEMMA SuggestedIsRead ==
  ASSUME NEW m, NEW words \in Seq(Word), NEW c \in ReadAt(m, words), NEW s \in Word,
         Picked(m, c, words, s) # {}
  PROVE  ReadAt(m, Append(words, s)) # {}
<1>1. PICK t : t \in Picked(m, c, words, s)
  OBVIOUS
<1>2. Taking(c, t, s, words = << >>) \in ReadAt(m, Append(words, s))
  BY <1>1, OneReading
<1> QED BY <1>2

-----------------------------------------------------------------------------
(***************************************************************************)
(* The properties follow from the invariant.                                *)
(***************************************************************************)

\* Suggestions can be read (CliCompleter::complete).
LEMMA Parses == PromptInv => SuggestionsParse
<1> SUFFICES ASSUME PromptInv, ReadAt(mode, Fixed) # {}, ~AfterNo,
                    NEW s \in Suggestions(mode, typed, partial)
             PROVE  ReadAt(mode, WithWord(typed, partial, s)) # {}
  BY DEF SuggestionsParse
<1>1. typed \in Seq(Word) /\ partial \in BOOLEAN /\ (partial => typed # << >>) /\ ModeOK(mode)
  BY DEF PromptInv
<1>2. PICK b : b \in ReadAt(mode, Fixed)
  OBVIOUS
<1>3. CASE partial
  <2>1. Fixed = Front(typed) /\ Front(typed) \in Seq(Word) /\ WithWord(typed, partial, s) = Append(Front(typed), s)
    BY <1>1, <1>3, WholeLine DEF Fixed, WithWord
  <2>2. ~NoAlone(mode, typed)
    BY DEF AfterNo, NoAlone
  <2>3. partial = TRUE
    BY <1>1, <1>3
  <2>4. PICK u : Completes(mode, b, typed, s, u)
    <3>1. b \in ReadAt(mode, Front(typed)) /\ typed # << >>
      BY <1>1, <1>2, <1>3, <2>1
    <3> QED BY <1>1, <2>2, <2>3, <3>1, SuggestedForWord
  <2>5. Picked(mode, b, Front(typed), s) # {} /\ s \in Word
    BY <2>4, OfferedAndPicked DEF Completes
  <2> QED BY <1>2, <2>1, <2>5, SuggestedIsRead
<1>4. CASE ~partial
  <2>1. Fixed = typed /\ WithWord(typed, partial, s) = Append(typed, s) /\ partial = FALSE
    BY <1>1, <1>4 DEF Fixed, WithWord
  <2>2. s \in Shown(Offered(mode, b, typed), FALSE)
    BY <1>1, <1>2, <2>1, SuggestedForNext DEF AfterNo
  <2>3. PICK u \in Offered(mode, b, typed) :
           (s = TokenName(u) \/ (IsString(u) /\ s = Placeholder))
    BY <2>2 DEF Shown
  <2>4. s \in Word
    BY <2>3, OfferedAndPicked, CompleterAssumption
  <2>5. Picked(mode, b, typed, s) # {}
    BY <2>3, OfferedAndPicked
  <2> QED BY <1>1, <1>2, <2>1, <2>4, <2>5, SuggestedIsRead
<1> QED BY <1>1, <1>3, <1>4

\* A completion is the same command (CliCompleter::complete).
LEMMA KeepsMeaning == PromptInv => CompletionKeepsMeaning
<1> SUFFICES ASSUME PromptInv, partial, ~AfterNo, ReadAt(mode, typed) # {},
                    NEW s \in Suggestions(mode, typed, partial)
             PROVE  Commanded(WithWord(typed, partial, s)) = Commanded(typed)
  BY DEF CompletionKeepsMeaning
<1> DEFINE f == Front(typed)
           w == typed[Len(typed)]
           first == f = << >>
<1>1. /\ typed \in Seq(Word) /\ typed # << >> /\ ModeOK(mode)
      /\ f \in Seq(Word) /\ w \in Word /\ typed = Append(f, w)
      /\ WithWord(typed, partial, s) = Append(f, s)
  BY WholeLine DEF PromptInv, WithWord
<1>2. PICK b : b \in ReadAt(mode, f)
  <2> HIDE DEF f, w
  <2>1. ReadAt(mode, typed) = TakingWord(ReadAt(mode, f), mode.config, w, f = << >>)
    BY <1>1, OneMoreWord DEF ReadAt
  <2> QED BY <2>1 DEF TakingWord
<1>3. PICK u : Completes(mode, b, typed, s, u)
  <2>1. ~NoAlone(mode, typed)
    BY DEF AfterNo, NoAlone
  <2>2. partial = TRUE
    BY DEF PromptInv
  <2> QED BY <1>1, <1>2, <2>1, <2>2, SuggestedForWord
<1>4. /\ s = TokenName(u) /\ ~IsString(u) /\ u \in Token
      /\ u \in Offered(mode, b, f) /\ u \in Picked(mode, b, f, w)
      /\ ~(first /\ TokenName(u) = "no")
  BY <1>3 DEF Completes
<1>5. b \in ReadingType(WdToken(mode)) /\ s \in Word
  BY <1>1, <1>2, <1>4, OneReading, NameIsWord
<1>6. Picked(mode, b, f, s) = {u} /\ Picked(mode, b, f, w) = {u}
  <2>1. Picked(mode, b, f, s) = {u}
    BY <1>4, OfferedAndPicked
  <2>2. \A v \in Picked(mode, b, f, w) : v = u
    BY <1>4, SelectedUnique DEF Picked
  <2> QED BY <1>4, <2>1, <2>2
<1>7. /\ ReadAt(mode, Append(f, s)) = {Taking(b, u, s, first)}
      /\ ReadAt(mode, Append(f, w)) = {Taking(b, u, w, first)}
  <2> HIDE DEF f, w
  <2>1. \A x \in Word : ReadAt(mode, Append(f, x))
                          = {Taking(b, t, x, first) : t \in Picked(mode, b, f, x)}
    BY <1>1, <1>2, OneReading
  <2> QED BY <1>1, <1>5, <1>6, <2>1
<1>8. ASSUME NEW x
      PROVE  Taking(b, u, x, first).token = u /\ Taking(b, u, x, first).negate = b.negate
  BY <1>4, <1>5 DEF Taking, ReadingType
<1>9. Commanded(Append(f, s)) = {<<u, b.negate>>} /\ Commanded(Append(f, w)) = {<<u, b.negate>>}
  <2> HIDE DEF f, w
  <2> QED BY <1>7, <1>8 DEF Commanded
<1> QED BY <1>1, <1>9

\* Nothing that can follow is missing (CliCompleter::complete).
LEMMA Complete == PromptInv => NothingMissing
<1> SUFFICES ASSUME PromptInv, ~partial, NEW c \in ReadAt(mode, typed), NEW w \in TypedWord,
                    NEW t \in Selected(c.token, typed = << >> /\ mode.config, w)
             PROVE  Shown({t}, FALSE) \subseteq Suggestions(mode, typed, FALSE)
  BY DEF NothingMissing
<1>1. t \in Offered(mode, c, typed)
  BY OfferedAndPicked DEF Picked
<1>2. CASE ~(c.negate /\ c.token = c.level)
  <2>1. Suggestions(mode, typed, FALSE) = Shown(Offered(mode, c, typed), FALSE)
    BY <1>2, SuggestedForNext DEF PromptInv
  <2> QED BY <1>1, <2>1 DEF Shown
<1>3. CASE c.token = c.level
  <2>1. Suggestions(mode, typed, FALSE) = Shown(GetTokens(c.level, mode.config), FALSE)
    <3>1. typed \in Seq(Word)
      BY DEF PromptInv
    <3>2. Suggestions(mode, typed, FALSE) = Following(mode, c, FALSE)
      BY <3>1, SuggestedForLine
    <3> QED BY <1>3, <3>2 DEF Following
  <2>2. t \in GetTokens(c.level, mode.config)
    BY <1>1, <1>3 DEF Offered, GetTokens, OfferedParents
  <2> QED BY <2>1, <2>2 DEF Shown
<1> QED BY <1>2, <1>3

-----------------------------------------------------------------------------
(***************************************************************************)
(* The invariant.                                                           *)
(***************************************************************************)

\* Whatever is suggested is a word.
LEMMA SuggestedWord ==
  ASSUME NEW m, NEW words \in Seq(Word), NEW unfinished, NEW s \in Suggestions(m, words, unfinished)
  PROVE  s \in Word
<1>1. ASSUME NEW M \in SUBSET Token, NEW b, s \in Shown(M, b) PROVE s \in Word
  BY <1>1, NameIsWord, CompleterAssumption DEF Shown
<1> DEFINE k == Resolved(m, words)
           w == SubSeq(words, 1, k)
<1>2. k \in 0..Len(words) /\ Len(words) \in Nat
  BY ResolvedIs, WholeLine
<1>3. w \in Seq(Word)
  <2>1. \A i \in 1..k : words[i] \in Word
    BY <1>2, ElementOfSeq
  <2> HIDE DEF k
  <2> QED BY <1>2, <2>1, SubSeqProperties
<1>4. PICK c \in ReadAt(m, w) :
         s \in IF k = Len(words) THEN Following(m, c, unfinished)
               ELSE Shown(MatchingTokens(c.token, k = 0 /\ m.config, words[k + 1]), unfinished)
  BY DEF Suggestions, SuggestedAfter
<1>5. c.token \in Token \/ c.token = c.level
  <2>1. c \in ReadingType(WdToken(m))
    BY <1>3, OneReading
  <2> QED BY <2>1 DEF ReadingType
<1>6. CASE k = Len(words)
  <2>1. s \in Following(m, c, unfinished)
    BY <1>4, <1>6
  <2>2. GetTokens(c.level, m.config) \in SUBSET Token /\ Children(c.token) \in SUBSET Token
    BY DEF GetTokens, Children
  <2>3. CASE c.token = c.level
    <3>1. s \in Shown(GetTokens(c.level, m.config), unfinished)
      BY <2>1, <2>3 DEF Following
    <3> QED BY <1>1, <2>2, <3>1
  <2>4. CASE c.token # c.level /\ unfinished
    <3>1. s \in Shown({c.token}, TRUE) /\ {c.token} \in SUBSET Token
      BY <1>5, <2>1, <2>4 DEF Following
    <3> QED BY <1>1, <3>1
  <2>5. CASE c.token # c.level /\ ~unfinished
    <3>1. s \in Shown(Children(c.token), FALSE)
      BY <2>1, <2>5 DEF Following, NextTokens
    <3> QED BY <1>1, <2>2, <3>1
  <2> QED BY <2>3, <2>4, <2>5
<1>7. CASE k # Len(words)
  <2>1. MatchingTokens(c.token, k = 0 /\ m.config, words[k + 1]) \in SUBSET Token
    BY DEF MatchingTokens, GetTokens
  <2>2. s \in Shown(MatchingTokens(c.token, k = 0 /\ m.config, words[k + 1]), unfinished)
    BY <1>4, <1>7
  <2> QED BY <1>1, <2>1, <2>2
<1> QED BY <1>6, <1>7

\* The first CLI nodes of a stack, and those of a target, lead somewhere.
LEMMA ShorterPath ==
  ASSUME NEW nodes, OnPath(nodes), NEW k \in Nat, k <= Len(nodes)
  PROVE  OnPath(SubSeq(nodes, 1, k))
<1> DEFINE s == SubSeq(nodes, 1, k)
<1>1. PICK S : nodes \in Seq(S)
  BY DEF OnPath
<1>2. PICK n \in Node : /\ Len(nodes) <= Len(ListPath[n])
                        /\ \A i \in 1..Len(nodes) : nodes[i].token = FullToken(ListPath[n][i])
  BY DEF OnPath
<1>3. Len(nodes) \in Nat /\ \A i \in 1..k : nodes[i] \in S
  BY <1>1, LenProperties, ElementOfSeq
<1>4. s \in Seq(S) /\ Len(s) = k /\ \A i \in 1..k : s[i] = nodes[i]
  BY <1>3, SubSeqProperties
<1>5. Len(s) <= Len(ListPath[n])
  <2>1. Len(ListPath[n]) \in Nat
    BY InnermostList, LenProperties
  <2> HIDE DEF s
  <2> QED BY <1>2, <1>3, <1>4, <2>1
<1>6. ASSUME NEW i \in 1..Len(s) PROVE s[i].token = FullToken(ListPath[n][i])
  <2> HIDE DEF s
  <2>1. i \in 1..k /\ i \in 1..Len(nodes)
    BY <1>3, <1>4
  <2> QED BY <1>2, <1>4, <2>1
<1> HIDE DEF s
<1>7. OnPath(s)
  BY <1>4, <1>5, <1>6 DEF OnPath
<1> QED BY <1>7 DEF s

\* The stack that an edit enters leads to its target.
LEMMA TargetPath ==
  ASSUME NEW n \in SNode, NEW keys
  PROVE  OnPath(StackOf(n, keys))
<1> DEFINE s == StackOf(n, keys)
           Of(i) == [token |-> FullToken(ListPath[n][i]), keys |-> KeysOf(ListPath[n][i], keys)]
           S == {Of(i) : i \in 1..Len(ListPath[n])}
<1>1. n \in Node /\ Len(ListPath[n]) \in Nat /\ DOMAIN ListPath[n] = 1..Len(ListPath[n])
  BY InnermostList, LenProperties DEF Node
<1>2. s = [i \in 1..Len(ListPath[n]) |-> Of(i)]
  BY <1>1 DEF StackOf
<1>3. s \in [1..Len(ListPath[n]) -> S]
  <2> HIDE DEF s, Of
  <2> QED BY <1>2
<1>4. s \in Seq(S) /\ Len(s) = Len(ListPath[n])
  <2> HIDE DEF s, S
  <2>1. s \in Seq(S)
    BY <1>1, <1>3
  <2> QED BY <1>1, <1>3, <2>1, LenProperties
<1>5. \A i \in 1..Len(s) : s[i].token = FullToken(ListPath[n][i])
  BY <1>2, <1>4
<1> HIDE DEF s, S
<1>6. Len(s) <= Len(ListPath[n])
  BY <1>1, <1>4
<1>7. OnPath(s)
  BY <1>1, <1>4, <1>5, <1>6 DEF OnPath
<1> QED BY <1>7 DEF s

\* The modes a session can be in after a line.
LEMMA ModesReached ==
  ASSUME NEW m, ModeOK(m)
  PROVE  /\ ModeOK(Operational) /\ ModeOK(Configure(<< >>)) /\ ModeOK(PopNode(m))
         /\ \A k \in Nat : k <= Len(m.nodes) => ModeOK(Configure(SubSeq(m.nodes, 1, k)))
<1>1. OnPath(m.nodes)
  BY DEF ModeOK
<1>2. OnPath(<< >>)
  <2>1. << >> \in Seq({}) /\ Len(<< >>) = 0 /\ Top \in Node /\ ListPath[Top] = << >>
    BY EmptySeq, PathAssumption DEF Node
  <2> QED BY <2>1 DEF OnPath
<1>3. \A k \in Nat : k <= Len(m.nodes) => ModeOK(Configure(SubSeq(m.nodes, 1, k)))
  BY <1>1, ShorterPath DEF ModeOK, Configure
<1>4. ModeOK(Operational) /\ ModeOK(Configure(<< >>))
  BY <1>2 DEF ModeOK, Operational, Configure
<1>5. ModeOK(PopNode(m))
  <2>1. CASE m.nodes = << >>
    BY <1>4, <2>1 DEF PopNode
  <2>2. CASE m.nodes # << >>
    <3>1. Len(m.nodes) \in Nat \ {0}
      BY <1>1, <2>2, EmptySeq, LenProperties DEF OnPath
    <3>2. Len(m.nodes) - 1 \in Nat /\ Len(m.nodes) - 1 <= Len(m.nodes)
      BY <3>1
    <3>3. PopNode(m) = Configure(SubSeq(m.nodes, 1, Len(m.nodes) - 1))
      BY <2>2 DEF PopNode, Front
    <3> QED BY <1>3, <3>2, <3>3
  <2> QED BY <2>1, <2>2
<1> QED BY <1>3, <1>4, <1>5

\* The line is answered in such a mode, from such a mode.
LEMMA AnswerKeeps ==
  ASSUME ModeOK(mode), line \in Seq(Word), Answer
  PROVE  ModeOK(mode')
<1>1. CASE Unknown
  BY <1>1 DEF Unknown, state
<1>2. CASE Execute
  <2>1. PICK c \in Meant(mode, line) :
           IF Action(c.token) = "edit" THEN EditAt(c, ModeAt(mode, c))
           ELSE CallAt(Action(c.token), ModeAt(mode, c))
    BY <1>2 DEF Execute
  <2>2. PICK level \in Levels(mode) :
           /\ c \in Readings(level, mode.config, line)
           /\ c.token # c.level /\ Action(c.token) # "none"
    BY DEF Meant, Innermost, Commands
  <2>3. c.level = level /\ c.token \in Token
    <3>1. Len(line) \in 0..Len(line)
      BY WholeLine
    <3>2. c \in ReadingType(level)
      BY <2>2, <3>1, ReadingShape DEF Readings
    <3> QED BY <2>2, <3>2 DEF ReadingType
  <2>4. ModeOK(ModeAt(mode, c))
    <3>1. CASE ~mode.config
      BY <3>1 DEF ModeAt
    <3>2. CASE mode.config
      <4>1. ModeAt(mode, c) = Configure(SubSeq(mode.nodes, 1, Len(ListPath[level[1]])))
        BY <2>3, <3>2 DEF ModeAt
      <4>2. Len(mode.nodes) \in Nat
        BY LenProperties DEF ModeOK, OnPath
      <4>3. Len(ListPath[level[1]]) \in Nat /\ Len(ListPath[level[1]]) <= Len(mode.nodes)
        <5>1. CASE level = YangRoot
          <6>1. level[1] = Top /\ ListPath[Top] = << >> /\ Len(<< >>) = 0
            BY <5>1, RootsDiffer, PathAssumption, EmptySeq
          <6> QED BY <4>2, <6>1
        <5>2. CASE level # YangRoot
          <6>1. PICK a \in Ancestors[WdToken(mode)[1]] : level = FullToken(a)
            BY <3>2, <5>2 DEF Levels
          <6>2. CASE mode.nodes = << >>
            <7>1. WdToken(mode)[1] = Top
              BY <3>2, <6>2, RootsDiffer DEF WdToken
            <7> QED BY <7>1, PathAssumption
          <6>3. CASE mode.nodes # << >>
            <7>1. PICK n \in Node : /\ WdToken(mode)[1] = ListPath[n][Len(mode.nodes)]
                                    /\ Len(mode.nodes) \in 1..Len(ListPath[n])
              BY <3>2, <6>3, LevelOfMode
            <7> DEFINE l == WdToken(mode)[1]
            <7>2. l \in SNode /\ Len(ListPath[l]) = Len(mode.nodes)
              BY <7>1, ListOnPath
            <7>3. a \in SNode /\ Len(ListPath[a]) <= Len(ListPath[l])
              BY <6>1, <7>2, AncestorPath DEF Node, Starts
            <7>4. level[1] = a /\ Len(ListPath[a]) \in Nat
              BY <6>1, <7>3, InnerToken, InnermostList, LenProperties DEF Node
            <7> QED BY <7>2, <7>3, <7>4
          <6> QED BY <6>2, <6>3
        <5> QED BY <5>1, <5>2
      <4> QED BY <4>1, <4>3, ModesReached
    <3> QED BY <3>1, <3>2
  <2>5. CASE Action(c.token) = "edit"
    <3>1. c.token[1] \in SNode
      <4>1. ASSUME c.token \in InternalToken PROVE FALSE
        <5>1. IsInternal(c.token) /\ c.token[1] \in DOMAIN Internal
          BY <4>1, TokenShape
        <5>2. Internal[c.token[1]] \in InternalRecord
          BY <5>1, InternalAssumption
        <5> QED BY <2>5, <5>1, <5>2 DEF Action, InternalRecord, Callback, ExecCallback,
            ConfigCallback, PlainCallback
      <4> QED BY <2>3, <4>1, TokenShape DEF Token
    <3>2. mode' = ModeAt(mode, c) \/ \E keys : mode' = Configure(StackOf(c.token[1], keys))
      BY <2>1, <2>5 DEF EditAt, Become
    <3>3. \A keys : ModeOK(Configure(StackOf(c.token[1], keys)))
      BY <3>1, TargetPath DEF ModeOK, Configure
    <3> QED BY <2>4, <3>2, <3>3
  <2>6. CASE Action(c.token) # "edit"
    <3>1. mode' = ModeAfter(Action(c.token), ModeAt(mode, c))
      BY <2>1, <2>6 DEF CallAt, Become
    <3>2. mode' \in {Configure(<< >>), Operational, PopNode(ModeAt(mode, c)), ModeAt(mode, c)}
      BY <3>1 DEF ModeAfter
    <3> QED BY <2>4, <3>2, ModesReached
  <2> QED BY <2>1, <2>5, <2>6
<1> QED BY <1>1, <1>2 DEF Answer

\* It holds before anything is typed.
LEMMA InitPrompt == PromptInit => PromptInv
<1> SUFFICES ASSUME PromptInit PROVE PromptInv
  OBVIOUS
<1>1. mode = Operational /\ line = << >> /\ typed = << >> /\ partial = FALSE
  BY DEF PromptInit, Init
<1>2. ModeOK(Operational)
  <2>1. << >> \in Seq({}) /\ Len(<< >>) = 0 /\ Top \in Node /\ ListPath[Top] = << >>
    BY EmptySeq, PathAssumption DEF Node
  <2> QED BY <2>1 DEF ModeOK, OnPath, Operational
<1> QED BY <1>1, <1>2, EmptySeq DEF PromptInv

\* Every step at the prompt, and every answer, keeps it.
LEMMA PromptStep == PromptInv /\ [PromptNext]_prompted => PromptInv'
<1> SUFFICES ASSUME PromptInv, [PromptNext]_prompted PROVE PromptInv'
  OBVIOUS
<1>1. /\ typed \in Seq(Word) /\ line \in Seq(Word)
      /\ partial \in BOOLEAN /\ (partial => typed # << >>) /\ ModeOK(mode)
  BY DEF PromptInv
<1>2. /\ \A w \in Word : Append(typed, w) \in Seq(Word) /\ Append(typed, w) # << >>
      /\ typed # << >> => Front(typed) \in Seq(Word)
      /\ << >> \in Seq(Word)
  <2>1. ASSUME NEW w \in Word PROVE Append(typed, w) \in Seq(Word) /\ Append(typed, w) # << >>
    BY <1>1, AppendProperties
  <2> QED BY <1>1, <2>1, WholeLine, EmptySeq
<1>3. ASSUME NEW w \in TypedWord, TypeWord(w) PROVE PromptInv'
  <2>1. w \in Word
    BY CompleterAssumption
  <2>2. typed' = Append(typed, w) /\ partial' = TRUE /\ mode' = mode /\ line' = line
    BY <1>3 DEF TypeWord, vars, state
  <2> QED BY <1>1, <1>2, <2>1, <2>2 DEF PromptInv
<1>4. ASSUME NEW s \in Suggestions(mode, typed, partial), Accept(s) PROVE PromptInv'
  <2>1. s \in Word
    BY <1>1, SuggestedWord
  <2>2. typed' = WithWord(typed, partial, s) /\ partial' = FALSE /\ mode' = mode /\ line' = line
    BY <1>4 DEF Accept, vars, state
  <2>3. WithWord(typed, partial, s) \in Seq(Word)
    <3>1. CASE partial
      <4>1. Append(Front(typed), s) \in Seq(Word)
        BY <1>1, <1>2, <2>1, <3>1, AppendProperties
      <4> QED BY <3>1, <4>1 DEF WithWord
    <3>2. CASE ~partial
      BY <1>2, <2>1, <3>2 DEF WithWord
    <3> QED BY <3>1, <3>2
  <2> QED BY <1>1, <2>2, <2>3 DEF PromptInv
<1>5. ASSUME TypeBlank PROVE PromptInv'
  BY <1>1, <1>5 DEF PromptInv, TypeBlank, vars, state
<1>6. ASSUME Submit PROVE PromptInv'
  BY <1>1, <1>2, <1>6 DEF PromptInv, Submit, state
<1>7. ASSUME ControlZ PROVE PromptInv'
  <2>1. <<"end">> \in Seq(Word)
    BY CompleterAssumption
  <2>2. line' = <<"end">> /\ mode' = mode /\ typed' = typed /\ partial' = partial
    BY <1>7 DEF ControlZ, state
  <2> QED BY <1>1, <2>1, <2>2 DEF PromptInv
<1>8. ASSUME Clear PROVE PromptInv'
  BY <1>1, <1>2, <1>8 DEF PromptInv, Clear, vars, state
<1>9. ASSUME Run PROVE PromptInv'
  <2>1. ModeOK(mode') /\ line' = << >> /\ typed' = typed /\ partial' = partial
    BY <1>1, <1>9, AnswerKeeps DEF Run, Answer
  <2> QED BY <1>1, <1>2, <2>1 DEF PromptInv
<1>10. ASSUME Quit PROVE PromptInv'
  BY <1>1, <1>10 DEF PromptInv, Quit, Interrupt
<1>11. ASSUME Left \/ UNCHANGED prompted PROVE PromptInv'
  BY <1>1, <1>11 DEF PromptInv, Left, prompted, vars, state
<1> QED BY <1>3, <1>4, <1>5, <1>6, <1>7, <1>8, <1>9, <1>10, <1>11 DEF PromptNext

\* It holds of every session.
LEMMA PromptInvariance == PromptSpec => []PromptInv
BY InitPrompt, PromptStep, PTL DEF PromptSpec

-----------------------------------------------------------------------------
\* Whatever is suggested after words that the parser knows is known to it there.
THEOREM SuggestionsAreKnown == PromptSpec => []SuggestionsParse
BY PromptInvariance, Parses, PTL

\* Completing a word does not make it another command.
THEOREM CompletionIsSafe == PromptSpec => []CompletionKeepsMeaning
BY PromptInvariance, KeepsMeaning, PTL

\* Whatever the parser knows next is suggested.
THEOREM SuggestionsAreComplete == PromptSpec => []NothingMissing
BY PromptInvariance, Complete, PTL
=============================================================================
