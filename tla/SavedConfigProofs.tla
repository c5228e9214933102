------------------------- MODULE SavedConfigProofs -------------------------
(***************************************************************************)
(* A printed configuration that is read back comes back, for every schema,  *)
(* every configuration and every order in which it may be printed.          *)
(***************************************************************************)
EXTENDS SavedConfig, CommandTreeProofs, FiniteSetTheorems

-----------------------------------------------------------------------------
(***************************************************************************)
(* Paths of the schema, node by node.                                       *)
(***************************************************************************)

NodeAt(n, i) == CHOOSE a \in Ancestors[n] : Depth[a] = i

\* A proper ancestor is an ancestor of the parent, and not as deep.
LEMMA ProperAncestor ==
  ASSUME NEW n \in SNode, NEW a \in Ancestors[n], a # n
  PROVE  /\ a \in Ancestors[SParent[n]] /\ a \in SNode /\ SParent[n] \in SNode
         /\ Depth[a] <= Depth[SParent[n]] /\ Depth[a] < Depth[n]
<1>1. a \in Ancestors[SParent[n]] /\ SParent[n] \in SNode \cup {Top}
  <2>1. Ancestors[n] = Ancestors[SParent[n]] \cup {n} /\ SParent[n] \in SNode \cup {Top}
    BY PathStep DEF Node
  <2> QED BY <2>1
<1>2. SParent[n] \in SNode
  BY <1>1, PathAssumption
<1>3. a \in SNode /\ Depth[a] <= Depth[SParent[n]]
  BY <1>1, <1>2, AncestorDepth
<1>4. Depth[SParent[n]] < Depth[n] /\ Depth[n] \in Nat /\ Depth[SParent[n]] \in Nat /\ Depth[a] \in Nat
  BY <1>2, <1>3, SchemaAssumption
<1> QED BY <1>1, <1>2, <1>3, <1>4

\* On the path to a node there is one node of each depth.
LEMMA NodeAtDepth ==
  ASSUME NEW n \in SNode
  PROVE  /\ n \in Ancestors[n] /\ Depth[n] \in Nat \ {0}
         /\ \A i \in 1..Depth[n] : NodeAt(n, i) \in Ancestors[n] /\ Depth[NodeAt(n, i)] = i
         /\ \A a \in Ancestors[n] : Depth[a] \in 1..Depth[n] /\ NodeAt(n, Depth[a]) = a
<1> DEFINE T == {m \in SNode : \A i \in 1..Depth[m] : \E a \in Ancestors[m] : Depth[a] = i}
<1>1. \A m \in SNode : Depth[m] \in Nat \ {0} /\ m \in Ancestors[m]
  <2> SUFFICES ASSUME NEW m \in SNode PROVE Depth[m] \in Nat \ {0} /\ m \in Ancestors[m]
    OBVIOUS
  <2>1. Depth[m] \in Nat /\ Depth[SParent[m]] \in Nat /\ Depth[m] = Depth[SParent[m]] + 1
    BY SchemaAssumption, DepthAssumption
  <2>2. m \in Ancestors[m]
    BY PathStep
  <2> QED BY <2>1, <2>2
<1>2. ASSUME NEW m \in SNode, SParent[m] \in T \cup {Top} PROVE m \in T
  <2>1. Ancestors[m] = Ancestors[SParent[m]] \cup {m} /\ Depth[m] = Depth[SParent[m]] + 1
    BY PathStep, DepthAssumption
  <2> SUFFICES ASSUME NEW i \in 1..Depth[m] PROVE \E a \in Ancestors[m] : Depth[a] = i
    OBVIOUS
  <2>2. CASE i = Depth[m]
    BY <1>1, <2>2
  <2>3. CASE i # Depth[m]
    <3>1. Depth[SParent[m]] \in Nat /\ i \in 1..Depth[SParent[m]]
      BY <2>1, <2>3, SchemaAssumption
    <3>2. SParent[m] # Top
      BY <3>1, DepthAssumption
    <3> QED BY <1>2, <2>1, <3>1, <3>2
  <2> QED BY <2>2, <2>3
<1>3. T = SNode
  <2> HIDE DEF T
  <2>1. T \in SUBSET SNode
    BY DEF T
  <2> QED BY <1>2, <2>1, TreeInduction
<1>4. \A i \in 1..Depth[n] : NodeAt(n, i) \in Ancestors[n] /\ Depth[NodeAt(n, i)] = i
  BY <1>3 DEF NodeAt
<1>5. ASSUME NEW a \in Ancestors[n] PROVE Depth[a] \in 1..Depth[n] /\ NodeAt(n, Depth[a]) = a
  <2>1. a \in SNode /\ Depth[a] \in 1..Depth[n]
    BY <1>1, AncestorDepth
  <2> DEFINE b == NodeAt(n, Depth[a])
  <2>2. b \in Ancestors[n] /\ Depth[b] = Depth[a]
    BY <1>4, <2>1
  <2>3. b \in SNode
    BY <2>2, AncestorDepth
  <2>4. a \in Ancestors[b] \/ b \in Ancestors[a]
    BY <2>2, AncestorChain DEF Node
  <2> HIDE DEF b
  <2>5. a = b
    BY <1>1, <2>1, <2>2, <2>3, <2>4, ProperAncestor
  <2> QED BY <2>1, <2>5 DEF b
<1> QED BY <1>1, <1>4, <1>5

\* The path leads from parent to child.
LEMMA NodeAtStep ==
  ASSUME NEW n \in SNode, NEW i \in 1..Depth[n]
  PROVE  /\ NodeAt(n, i) \in SNode /\ NodeAt(n, i) \in Ancestors[n]
         /\ i = 1 => SParent[NodeAt(n, i)] = Top
         /\ i > 1 => SParent[NodeAt(n, i)] = NodeAt(n, i - 1)
         /\ NodeAt(n, Depth[n]) = n
<1> DEFINE a == NodeAt(n, i)
<1>1. a \in Ancestors[n] /\ Depth[a] = i /\ n \in Ancestors[n] /\ NodeAt(n, Depth[n]) = n
  BY NodeAtDepth
<1>2. a \in SNode /\ Ancestors[a] \subseteq Ancestors[n]
  BY <1>1, AncestorChain DEF Node
<1> HIDE DEF a
<1>3. /\ SParent[a] \in SNode \cup {Top} /\ Depth[a] = Depth[SParent[a]] + 1
      /\ Depth[SParent[a]] \in Nat
  BY <1>2, SchemaAssumption, DepthAssumption
<1>4. CASE SParent[a] = Top
  BY <1>1, <1>2, <1>3, <1>4, DepthAssumption DEF a
<1>5. CASE SParent[a] \in SNode
  <2>1. SParent[a] \in Ancestors[SParent[a]] /\ Depth[SParent[a]] \in Nat \ {0}
    BY <1>5, NodeAtDepth
  <2>2. SParent[a] \in Ancestors[a]
    BY <1>2, <2>1, PathStep
  <2>3. NodeAt(n, Depth[SParent[a]]) = SParent[a]
    BY <1>2, <2>2, NodeAtDepth
  <2>4. Depth[SParent[a]] = i - 1 /\ i # 1
    BY <1>1, <1>3, <2>1
  <2> QED BY <1>1, <1>2, <2>3, <2>4 DEF a
<1> QED BY <1>3, <1>4, <1>5

-----------------------------------------------------------------------------
(***************************************************************************)
(* The list a line starts below, and the nodes between it and the node.     *)
(***************************************************************************)

\* That list is the nearest one above the node: it has the keys of all of them.
LEMMA OuterList ==
  ASSUME NEW n \in SNode
  PROVE  LET o == Outer(n) IN
         /\ o \in Node
         /\ o # Top => /\ o \in SNode /\ SKind[o] = "list" /\ o # n
                       /\ o \in Ancestors[SParent[n]] /\ o \in Ancestors[n]
         /\ Len(ListPath[o]) = Len(ListPath[SParent[n]])
         /\ KeyDepth[o] \in Nat /\ KeyDepth[n] = KeyDepth[o] + KeyCount[n]
         /\ Depth[o] \in Nat /\ Depth[o] < Depth[n]
<1> DEFINE q == SParent[n]
           o == Outer(n)
<1>1. /\ q \in Node /\ n \in SNode /\ ListPath[q] \in Seq(SNode) /\ Len(ListPath[q]) \in Nat
      /\ KeyDepth[q] \in Nat /\ KeyDepth[n] = KeyDepth[q] + KeyCount[n]
      /\ Ancestors[n] = Ancestors[q] \cup {n}
  BY PathStep, LenProperties
<1>2. Depth[n] \in Nat /\ Depth[q] \in Nat /\ Depth[q] < Depth[n]
  BY SchemaAssumption
<1>3. CASE ListPath[q] = << >>
  <2>1. o = Top /\ KeyDepth[q] = 0
    BY <1>1, <1>3, InnermostList DEF Outer
  <2>2. /\ Depth[Top] = 0 /\ KeyDepth[Top] = 0 /\ ListPath[Top] = << >>
    BY PathAssumption, DepthAssumption
  <2> QED BY <1>1, <1>2, <1>3, <2>1, <2>2 DEF Node
<1>4. CASE ListPath[q] # << >>
  <2>1. Len(ListPath[q]) \in 1..Len(ListPath[q]) /\ o = ListPath[q][Len(ListPath[q])]
    BY <1>1, <1>4, EmptySeq DEF Outer, Last
  <2>2. /\ o \in Ancestors[q] /\ o \in SNode /\ SKind[o] = "list"
        /\ Len(ListPath[o]) = Len(ListPath[q])
    BY <1>1, <2>1, ListOnPath
  <2>3. KeyDepth[q] = KeyDepth[o]
    BY <1>1, <1>4, <2>1, InnermostList
  <2>4. q \in SNode
    BY <1>1, <2>2, PathAssumption DEF Node
  <2>5. Depth[o] <= Depth[q] /\ Depth[o] \in Nat
    BY <2>2, <2>4, AncestorDepth, SchemaAssumption
  <2>6. o # n /\ Depth[o] < Depth[n]
    BY <1>2, <2>5
  <2> HIDE DEF o
  <2> QED BY <1>1, <2>2, <2>3, <2>5, <2>6 DEF o, Node
<1> QED BY <1>3, <1>4

\* What lies between is containers, whose token is their word.
LEMMA BetweenContainers ==
  ASSUME NEW n \in SNode, NEW i \in 1..Depth[n], Depth[Outer(n)] < i
  PROVE  /\ i < Depth[n] => NArgs(NodeAt(n, i)) = 0
         /\ i = Depth[Outer(n)] + 1 => SParent[NodeAt(n, i)] = Outer(n)
<1> DEFINE q == SParent[n]
           o == Outer(n)
           a == NodeAt(n, i)
<1>1. /\ a \in SNode /\ a \in Ancestors[n] /\ Depth[a] = i /\ Depth[n] \in Nat
      /\ q \in Node /\ Len(ListPath[q]) \in Nat
  BY NodeAtStep, NodeAtDepth, PathStep, LenProperties
<1>2. /\ o \in Node /\ Depth[o] \in Nat /\ Len(ListPath[o]) = Len(ListPath[q])
      /\ o # Top => o \in SNode /\ o \in Ancestors[q] /\ o \in Ancestors[n]
      /\ o = Top => ListPath[o] = << >> /\ Depth[o] = 0
  BY OuterList, PathAssumption, DepthAssumption
<1> HIDE DEF o, a
<1>3. ASSUME i < Depth[n], SKind[a] = "list" PROVE FALSE
  <2>1. a # n
    BY <1>1, <1>3
  <2>2. a \in Ancestors[q] /\ SParent[a] \in Node
    BY <1>1, <2>1, ProperAncestor, PathStep
  <2>3. /\ Len(ListPath[a]) = Len(ListPath[SParent[a]]) + 1
        /\ Len(ListPath[SParent[a]]) \in Nat
    BY <1>1, <1>3, <2>2, ListStep, PathStep, LenProperties
  <2>4. Len(ListPath[a]) <= Len(ListPath[q])
    BY <1>1, <2>2, AncestorPath DEF Starts
  <2>5. o # Top
    BY <1>1, <1>2, <2>3, <2>4, EmptySeq
  <2>6. o \in Ancestors[a] \/ a \in Ancestors[o]
    BY <1>1, <1>2, <2>2, <2>5, AncestorChain
  <2>7. o \in Ancestors[a]
    <3>1. a \in Ancestors[o] => Depth[a] <= Depth[o]
      BY <1>2, <2>5, AncestorDepth
    <3> QED BY <1>1, <1>2, <2>6, <3>1 DEF o
  <2>8. o \in Ancestors[SParent[a]]
    BY <1>1, <2>7, ProperAncestor DEF o
  <2>9. Len(ListPath[o]) <= Len(ListPath[SParent[a]])
    BY <2>2, <2>8, AncestorPath DEF Starts
  <2> QED BY <1>1, <1>2, <2>3, <2>4, <2>9
<1>4. ASSUME i < Depth[n] PROVE NArgs(a) = 0
  <2>1. i + 1 \in 1..Depth[n] /\ i + 1 > 1 /\ (i + 1) - 1 = i
    BY <1>1, <1>4
  <2>2. NodeAt(n, i + 1) \in SNode /\ SParent[NodeAt(n, i + 1)] = a
    BY <2>1, NodeAtStep DEF a
  <2>3. SKind[a] \in Inner
    BY <1>1, <2>2, SchemaAssumption
  <2>4. KeyCount[a] = 0
    <3>1. KeyCount[a] \in Nat /\ ~(KeyCount[a] > 0)
      BY <1>1, <1>3, <1>4, PathStep
    <3> QED BY <3>1
  <2> QED BY <1>1, <2>3, <2>4, InnerToken
<1>5. ASSUME i = Depth[o] + 1 PROVE SParent[a] = o
  <2>1. CASE o = Top
    BY <1>2, <1>5, <2>1, NodeAtStep DEF a
  <2>2. CASE o # Top
    <3>1. NodeAt(n, Depth[o]) = o /\ Depth[o] \in 1..Depth[n]
      BY <1>2, <2>2, NodeAtDepth
    <3>2. i > 1 /\ i - 1 = Depth[o]
      BY <1>2, <1>5, <3>1
    <3> QED BY <3>1, <3>2, NodeAtStep DEF a
  <2> QED BY <2>1, <2>2
<1> QED BY <1>4, <1>5 DEF a, o

-----------------------------------------------------------------------------
(***************************************************************************)
(* How a printed line is read below its list.                               *)
(***************************************************************************)

\* The name of a node selects its token below its parent, whatever internal
\* commands are offered there, too.
LEMMA WordSelects ==
  ASSUME NamesDiffer, NEW a \in SNode, NEW add
  PROVE  Selected(FullToken(SParent[a]), add, SName[a]) = {<<a, 0>>}
<1> DEFINE q == FullToken(SParent[a])
           u == <<a, 0>>
           M == MatchingTokens(q, add, SName[a])
<1>1. u \in YangToken /\ u[1] = a /\ u[2] = 0
  <2>1. NArgs(a) \in Nat
    BY InnerToken
  <2> QED BY <2>1 DEF YangToken
<1>2. u \in Token /\ ~IsInternal(u) /\ ParentToken(u) = q /\ ~IsString(u) /\ TokenName(u) = SName[a]
  BY <1>1, TokenShape DEF ParentToken, IsString, TokenName
<1>3. u \in M
  BY <1>2, WordAssumption DEF MatchingTokens, GetTokens, OfferedParents, Matches
<1>4. ASSUME NEW v \in M, MatchesExactly(v, SName[a]) PROVE Order[u[1]] <= Order[v[1]]
  <2>1. v \in Token /\ ParentToken(v) \in {q, ConfigRoot, DefaultRoot}
    BY DEF MatchingTokens, GetTokens, OfferedParents
  <2>2. CASE v \in InternalToken
    <3>1. v[1] \in DOMAIN Internal
      BY <2>2, TokenShape
    <3>2. Order[a] < Order[v[1]] /\ Order[a] \in Nat /\ Order[v[1]] \in Nat
      BY <3>1, OrderAssumption, SchemaAssumption
    <3> QED BY <1>1, <3>2
  <2>3. CASE v \in YangToken
    <3>1. /\ ParentToken(v) \in YangToken \cup {YangRoot} /\ (IsString(v) <=> v[2] > 0)
          /\ v = <<v[1], v[2]>> /\ v[1] \in SNode /\ v[2] \in 0..NArgs(v[1]) /\ ~IsInternal(v)
          /\ NArgs(v[1]) \in Nat
      BY <2>3, AboveYang, TokenShape, InnerToken
    <3>2. ParentToken(v) = q
      <4>1. ParentToken(v) \notin {ConfigRoot, DefaultRoot}
        BY <3>1, TokenShape, RootsDiffer DEF Roots
      <4> QED BY <2>1, <4>1
    <3>3. ~(v[2] > 0)
      <4> SUFFICES ASSUME v[2] > 0 PROVE FALSE
        OBVIOUS
      <4>1. ParentToken(v) = <<v[1], v[2] - 1>>
        BY <2>3, AboveYang
      <4>2. v[1] = SParent[a] /\ v[2] - 1 = NArgs(SParent[a])
        BY <3>2, <4>1 DEF FullToken
      <4> QED BY <3>1, <4>2
    <3>4. v[2] = 0 /\ SName[v[1]] = SName[a]
      BY <1>4, <3>1, <3>3 DEF MatchesExactly, TokenName
    <3>5. FullToken(SParent[v[1]]) = FullToken(SParent[a])
      BY <3>1, <3>2, <3>4 DEF ParentToken
    <3>6. v[1] = a
      BY <3>1, <3>4, <3>5 DEF NamesDiffer, FullToken
    <3> QED BY <1>1, <3>6, SchemaAssumption
  <2> QED BY <2>1, <2>2, <2>3 DEF Token
<1>5. u \in Selected(q, add, SName[a])
  BY <1>2, <1>3, <1>4 DEF Selected, Chosen, MatchesExactly
<1> HIDE DEF q, u
<1>6. Selected(q, add, SName[a]) = {u}
  BY <1>5, SelectedUnique
<1> QED BY <1>6 DEF q, u

\* Where an argument is due, any word is it.
LEMMA ArgumentSelects ==
  ASSUME NEW n \in SNode, NEW j \in Nat, j < NArgs(n), NEW w, NEW add, ~add
  PROVE  Selected(<<n, j>>, add, w) = {<<n, j + 1>>}
<1> DEFINE t == <<n, j>>
           u == <<n, j + 1>>
           M == MatchingTokens(t, add, w)
<1>1. u \in YangToken /\ u[1] = n /\ u[2] = j + 1 /\ NArgs(n) \in Nat /\ t[1] = n
  <2>1. NArgs(n) \in Nat
    BY InnerToken
  <2>2. j + 1 \in 0..NArgs(n)
    BY <2>1
  <2> QED BY <2>1, <2>2 DEF YangToken
<1>2. u \in Token /\ ParentToken(u) = t /\ IsString(u)
  <2>1. /\ u \in Token /\ (IsString(u) <=> u[2] > 0)
        /\ u[2] > 0 => ParentToken(u) = <<u[1], u[2] - 1>>
    BY <1>1, AboveYang, TokenShape
  <2>2. u[2] > 0 /\ u[2] - 1 = j
    BY <1>1
  <2> QED BY <1>1, <2>1, <2>2
<1>3. ASSUME NEW v \in Token, ParentToken(v) = t PROVE v = u
  <2>1. CASE v \in InternalToken
    <3>1. ParentToken(v) = <<Internal[v[1]].parent, 0>> /\ v[1] \in DOMAIN Internal
      BY <2>1, AboveInternal, TokenShape
    <3>2. Internal[v[1]].parent \in DOMAIN Internal \cup Trees
      BY <3>1, InternalAssumption DEF InternalRecord
    <3>3. Internal[v[1]].parent = n
      BY <1>3, <3>1
    <3> QED BY <3>2, <3>3, InternalAssumption
  <2>2. CASE v \in YangToken
    <3>1. /\ v = <<v[1], v[2]>> /\ v[1] \in SNode /\ v[2] \in 0..NArgs(v[1]) /\ ~IsInternal(v)
          /\ NArgs(v[1]) \in Nat
          /\ v[2] > 0 => ParentToken(v) = <<v[1], v[2] - 1>>
      BY <2>2, AboveYang, TokenShape, InnerToken
    <3>2. CASE v[2] > 0
      <4>1. v[1] = n /\ v[2] - 1 = j
        BY <1>3, <3>1, <3>2
      <4>2. v[2] = j + 1
        BY <3>1, <4>1
      <4> QED BY <3>1, <4>1, <4>2
    <3>3. CASE ~(v[2] > 0)
      <4>1. ParentToken(v) = <<SParent[v[1]], NArgs(SParent[v[1]])>>
        BY <3>1, <3>3 DEF ParentToken, FullToken
      <4>2. SParent[v[1]] = n /\ NArgs(n) = j
        BY <1>3, <4>1
      <4> QED BY <1>1, <4>2
    <3> QED BY <3>2, <3>3
  <2> QED BY <2>1, <2>2 DEF Token
<1> HIDE DEF t, u
<1>4. M = {u}
  BY <1>2, <1>3 DEF MatchingTokens, GetTokens, OfferedParents, Matches
<1>5. Selected(t, add, w) = {u}
  BY <1>4 DEF Selected, Chosen
<1> QED BY <1>5 DEF t, u

\* What is read of a line after i of its words: a token below its list, and the
\* words after the names as arguments.
ReadUpTo(level, token, args) == [level |-> level, token |-> token, negate |-> FALSE, args |-> args]

\* How many names a line has.
Names(n) == Depth[n] - Depth[Outer(n)]

\* The names of a line lead down the path to its node.
LEMMA NamesRead ==
  ASSUME NamesDiffer, NEW n \in SNode, NEW words \in Seq(Word), NEW config,
         Names(n) <= Len(words),
         \A i \in 1..Names(n) : words[i] = SName[NodeAt(n, Depth[Outer(n)] + i)],
         NEW j \in 1..Names(n)
  PROVE  ReadingsAfter(FullToken(Outer(n)), config, words)[j]
           = {ReadUpTo(FullToken(Outer(n)), <<NodeAt(n, Depth[Outer(n)] + j), 0>>, << >>)}
<1> DEFINE o == Outer(n)
           d == Names(n)
           level == FullToken(o)
           R == ReadingsAfter(level, config, words)
           a(k) == NodeAt(n, Depth[o] + k)
           Good(k) == R[k] = {ReadUpTo(level, <<a(k), 0>>, << >>)}
           T == {k \in Nat : k + 1 <= d => Good(k + 1)}
<1>1. /\ Len(words) \in Nat /\ Depth[o] \in Nat /\ Depth[n] \in Nat /\ Depth[n] = Depth[o] + d
      /\ d \in Nat /\ d <= Len(words) /\ \A i \in 1..d : words[i] = SName[a(i)]
  BY LenProperties, OuterList, SchemaAssumption DEF Names
<1>. /\ R = ReadingsAfter(level, config, words) /\ level = FullToken(o) /\ j \in 1..d
  OBVIOUS
<1> HIDE DEF R, level, d
<1>2. ASSUME NEW k \in 1..d
      PROVE  /\ a(k) \in SNode /\ words[k] = SName[a(k)]
             /\ k < d => FullToken(a(k)) = <<a(k), 0>>
             /\ k = 1 => SParent[a(k)] = o
             /\ k > 1 => SParent[a(k)] = a(k - 1)
  <2>1. Depth[o] + k \in 1..Depth[n] /\ Depth[o] < Depth[o] + k
    BY <1>1
  <2>2. k > 1 => Depth[o] + k > 1 /\ (Depth[o] + k) - 1 = Depth[o] + (k - 1)
    BY <1>1
  <2>3. k < d => Depth[o] + k < Depth[n]
    BY <1>1
  <2>4. a(k) \in SNode /\ (k > 1 => SParent[a(k)] = a(k - 1))
    BY <2>1, <2>2, NodeAtStep
  <2>5. /\ k < d => NArgs(a(k)) = 0
        /\ k = 1 => SParent[a(k)] = o
    BY <1>1, <2>1, <2>3, BetweenContainers
  <2> QED BY <1>1, <2>4, <2>5 DEF FullToken
<1> HIDE DEF a, o
<1>. d \in Nat
  BY <1>1
<1>3. ASSUME NEW k \in 1..d, NEW c, R[k - 1] = {c}, c.token = FullToken(SParent[a(k)])
      PROVE  R[k] = {Taking(c, <<a(k), 0>>, SName[a(k)], k = 1)}
  <2>1. k \in 1..Len(words)
    BY <1>1
  <2>2. R[k] = TakingWord(R[k - 1], config, words[k], k = 1)
    BY <2>1, ReadingsStep
  <2>3. \A add : Selected(c.token, add, words[k]) = {<<a(k), 0>>}
    BY <1>2, <1>3, WordSelects
  <2>4. Selected(c.token, k = 1 /\ config, words[k]) = {<<a(k), 0>>}
    BY <2>3, Zenon
  <2>5. TakingWord(R[k - 1], config, words[k], k = 1) = {Taking(c, <<a(k), 0>>, words[k], k = 1)}
    BY <1>3, <2>4 DEF TakingWord
  <2>6. words[k] = SName[a(k)]
    BY <1>2
  <2> QED BY <2>2, <2>5, <2>6
<1>4. ASSUME NEW k \in 1..d, NEW first, NEW t0
      PROVE  Taking(ReadUpTo(level, t0, << >>), <<a(k), 0>>, SName[a(k)], first)
               = ReadUpTo(level, <<a(k), 0>>, << >>)
  <2>1. <<a(k), 0>> \in YangToken /\ <<a(k), 0>>[1] = a(k) /\ <<a(k), 0>>[2] = 0
    <3>1. NArgs(a(k)) \in Nat
      BY <1>2, InnerToken
    <3> QED BY <1>2, <3>1, TokenShape
  <2>2. ~HasArgument(<<a(k), 0>>) /\ TokenName(<<a(k), 0>>) = SName[a(k)] /\ SName[a(k)] # "no"
    BY <1>2, <2>1, AboveYang, TokenShape DEF TokenName, NamesDiffer
  <2> QED BY <2>2 DEF Taking, ReadUpTo
<1>5. ASSUME NEW k \in 1..d, NEW t0, R[k - 1] = {ReadUpTo(level, t0, << >>)},
             t0 = FullToken(SParent[a(k)])
      PROVE  Good(k)
  <2>1. ReadUpTo(level, t0, << >>).token = t0
    BY DEF ReadUpTo
  <2> DEFINE c == ReadUpTo(level, t0, << >>)
  <2>2. R[k] = {Taking(c, <<a(k), 0>>, SName[a(k)], k = 1)}
    <3> HIDE DEF c
    <3> QED BY <1>3, <1>5, <2>1 DEF c
  <2>3. \A first : Taking(c, <<a(k), 0>>, SName[a(k)], first) = ReadUpTo(level, <<a(k), 0>>, << >>)
    BY <1>4
  <2> HIDE DEF c
  <2>4. Taking(c, <<a(k), 0>>, SName[a(k)], k = 1) = ReadUpTo(level, <<a(k), 0>>, << >>)
    BY <2>3, Zenon
  <2> QED BY <2>2, <2>4
<1>6. 0 \in T
  <2> SUFFICES ASSUME 1 <= d PROVE Good(1)
    OBVIOUS
  <2>1. 1 \in 1..d /\ SParent[a(1)] = o
    BY <1>2
  <2>2. R[1 - 1] = {ReadUpTo(level, level, << >>)} /\ level = FullToken(o)
    BY ReadingsStep DEF NothingRead, ReadUpTo, o
  <2> QED BY <1>5, <2>1, <2>2
<1>7. ASSUME NEW k \in T PROVE k + 1 \in T
  <2> HIDE DEF Good
  <2>0. k \in Nat /\ (k + 1 <= d => Good(k + 1))
    OBVIOUS
  <2> SUFFICES ASSUME (k + 1) + 1 <= d PROVE Good((k + 1) + 1)
    BY <2>0
  <2>1. /\ k + 1 \in 1..d /\ k + 1 < d /\ (k + 1) + 1 \in 1..d /\ (k + 1) + 1 > 1
        /\ ((k + 1) + 1) - 1 = k + 1
    BY <2>0
  <2>2. R[((k + 1) + 1) - 1] = {ReadUpTo(level, <<a(k + 1), 0>>, << >>)}
    BY <2>0, <2>1 DEF Good
  <2>3. SParent[a((k + 1) + 1)] = a(((k + 1) + 1) - 1) /\ FullToken(a(k + 1)) = <<a(k + 1), 0>>
    BY <1>2, <2>1
  <2>4. <<a(k + 1), 0>> = FullToken(SParent[a((k + 1) + 1)])
    BY <2>1, <2>3
  <2> QED BY <1>5, <2>1, <2>2, <2>4
<1>8. T = Nat
  <2> HIDE DEF T
  <2>1. T \in SUBSET Nat
    BY DEF T
  <2> QED BY <1>6, <1>7, <2>1, NatSetInduction
<1>9. ASSUME NEW i \in 1..d PROVE Good(i)
  <2> HIDE DEF Good
  <2>1. i - 1 \in Nat /\ (i - 1) + 1 = i /\ i <= d
    OBVIOUS
  <2>2. i - 1 \in T
    BY <1>8, <2>1
  <2> QED BY <2>1, <2>2
<1> QED BY <1>9 DEF a, o, R, level

\* The words after the names are taken as the arguments.
LEMMA ArgumentsRead ==
  ASSUME NEW n \in SNode, NEW words \in Seq(Word), NEW config,
         NEW d \in Nat, d > 0, Len(words) = d + NArgs(n),
         NEW level, ReadingsAfter(level, config, words)[d] = {ReadUpTo(level, <<n, 0>>, << >>)}
  PROVE  ReadingsAfter(level, config, words)[d + NArgs(n)]
           = {ReadUpTo(level, FullToken(n), SubSeq(words, d + 1, d + NArgs(n)))}
<1> DEFINE R == ReadingsAfter(level, config, words)
           Args(k) == SubSeq(words, d + 1, d + k)
           Good(k) == R[d + k] = {ReadUpTo(level, <<n, k>>, Args(k))}
           T == {k \in Nat : k <= NArgs(n) => Good(k)}
<1>1. Len(words) \in Nat /\ NArgs(n) \in Nat
  BY LenProperties, InnerToken
<1>. R = ReadingsAfter(level, config, words) /\ R[d] = {ReadUpTo(level, <<n, 0>>, << >>)}
  OBVIOUS
<1> HIDE DEF R
<1>2. ASSUME NEW k \in Nat, k <= NArgs(n)
      PROVE  /\ Args(k) \in Seq(Word) /\ Len(Args(k)) = k
             /\ \A x \in 1..k : Args(k)[x] = words[d + x]
  <2>1. \A x \in (d + 1)..(d + k) : words[x] \in Word
    BY <1>1, <1>2, ElementOfSeq
  <2>2. d + 1 \in Int /\ d + k \in Int
    OBVIOUS
  <2>3. /\ Args(k) \in Seq(Word)
        /\ Len(Args(k)) = IF d + 1 <= d + k THEN (d + k) - (d + 1) + 1 ELSE 0
        /\ \A x \in 1..((d + k) - (d + 1) + 1) : Args(k)[x] = words[(d + 1) + x - 1]
    BY <2>1, <2>2, SubSeqProperties
  <2> HIDE DEF Args
  <2> QED BY <1>2, <2>3
<1> HIDE DEF Args
<1>3. 0 \in T
  <2>1. Args(0) = << >>
    BY <1>1, <1>2, EmptySeq
  <2>2. R[d + 0] = {ReadUpTo(level, <<n, 0>>, << >>)}
    <3>1. d + 0 = d
      OBVIOUS
    <3> QED BY <3>1
  <2> QED BY <2>1, <2>2
<1>4. ASSUME NEW k \in T PROVE k + 1 \in T
  <2> HIDE DEF Good
  <2>0. k \in Nat /\ (k <= NArgs(n) => Good(k))
    OBVIOUS
  <2> SUFFICES ASSUME k + 1 <= NArgs(n) PROVE Good(k + 1)
    BY <2>0
  <2> DEFINE i == d + (k + 1)
             c == ReadUpTo(level, <<n, k>>, Args(k))
             t == <<n, k + 1>>
             w == words[i]
  <2>1. /\ k < NArgs(n) /\ k <= NArgs(n) /\ i \in 1..Len(words) /\ i - 1 = d + k /\ ~(i = 1)
    BY <1>1, <2>0
  <2>2. R[d + k] = {c}
    BY <2>0, <2>1 DEF Good
  <2>3. R[i] = TakingWord(R[d + k], config, w, i = 1)
    <3> HIDE DEF i
    <3> QED BY <2>1, ReadingsStep
  <2>4. Selected(<<n, k>>, (i = 1) /\ config, w) = {t}
    <3> HIDE DEF i
    <3>1. ~((i = 1) /\ config)
      BY <2>1
    <3>2. \A add : ~add => Selected(<<n, k>>, add, w) = {t}
      BY <2>0, <2>1, ArgumentSelects
    <3> QED BY <3>1, <3>2, Zenon
  <2>5. c.token = <<n, k>> /\ c.args = Args(k) /\ c = ReadUpTo(level, c.token, c.args)
    BY DEF ReadUpTo
  <2>6. R[i] = {Taking(c, t, w, i = 1)}
    <3> HIDE DEF i, c, t, w
    <3>1. Selected(c.token, (i = 1) /\ config, w) = {t}
      BY <2>4, <2>5 DEF t
    <3>2. TakingWord(R[d + k], config, w, i = 1) = {Taking(c, t, w, i = 1)}
      BY <2>2, <3>1 DEF TakingWord
    <3> QED BY <2>3, <3>2
  <2>7. HasArgument(t) /\ IsString(t)
    <3>1. t \in YangToken /\ t[2] = k + 1
      BY <2>0, <2>1, TokenShape
    <3> QED BY <2>0, <2>1, <3>1, AboveYang
  <2>8. Append(Args(k), w) = Args(k + 1)
    <3>1. w \in Word
      BY <2>1, ElementOfSeq
    <3>2. /\ Append(Args(k), w) \in Seq(Word) /\ Len(Append(Args(k), w)) = k + 1
          /\ \A x \in 1..k : Append(Args(k), w)[x] = words[d + x]
          /\ Append(Args(k), w)[k + 1] = w
      BY <1>2, <2>0, <2>1, <3>1, AppendProperties
    <3>3. /\ Args(k + 1) \in Seq(Word) /\ Len(Args(k + 1)) = k + 1
          /\ \A x \in 1..(k + 1) : Args(k + 1)[x] = words[d + x]
      BY <1>2, <2>0, <2>1
    <3>4. \A x \in 1..(k + 1) : Append(Args(k), w)[x] = Args(k + 1)[x]
      BY <2>0, <2>1, <3>2, <3>3
    <3> QED BY <3>2, <3>3, <3>4, SeqEqual
  <2>9. Taking(c, t, w, i = 1) = ReadUpTo(level, t, Args(k + 1))
    <3> HIDE DEF i, t, w
    <3>1. Taking(c, t, w, i = 1) = [c EXCEPT !.token = t, !.args = Append(c.args, w)]
      BY <2>1, <2>7 DEF Taking, ReadUpTo
    <3> QED BY <2>5, <2>8, <3>1 DEF ReadUpTo
  <2> QED BY <2>6, <2>9 DEF Good
<1>5. T = Nat
  <2> HIDE DEF T
  <2>1. T \in SUBSET Nat
    BY DEF T
  <2> QED BY <1>3, <1>4, <2>1, NatSetInduction
<1>6. Good(NArgs(n))
  <2> HIDE DEF Good
  <2>1. NArgs(n) \in Nat /\ NArgs(n) <= NArgs(n)
    BY <1>1
  <2> QED BY <1>5, <2>1
<1> QED BY <1>6 DEF Args, R, FullToken

-----------------------------------------------------------------------------
(***************************************************************************)
(* The line of an entry.                                                    *)
(***************************************************************************)

\* What the assumptions say of an entry that is printed.
LEMMA SavedEntry ==
  ASSUME NEW cfg \in SavedConfigs, NEW e \in cfg
  PROVE  /\ e \in Entry /\ e = [node |-> e.node, keys |-> e.keys, val |-> e.val]
         /\ e.node \in SNode /\ e.keys \in Seq(Word) /\ e.val \in Word \cup {None}
         /\ SKind[e.node] # "np-container"
         /\ Len(e.keys) = KeyDepth[e.node]
         /\ e.val # None <=> SKind[e.node] \in {"leaf", "leaf-list"}
         /\ PathEntries(e.node, e.keys) \subseteq cfg
         /\ SKind[e.node] = "leaf" => At(cfg, e.node, e.keys) = {e}
<1>1. DataTree(cfg)
  BY SavedAssumption
<1>2. e \in Entry
  BY <1>1 DEF DataTree
<1>3. /\ e = [node |-> e.node, keys |-> e.keys, val |-> e.val]
      /\ e.node \in SNode /\ e.keys \in Seq(Word) /\ e.val \in Word \cup {None}
  BY <1>2 DEF Entry
<1> QED BY <1>1, <1>2, <1>3 DEF DataTree

\* The arguments of the line: the keys of the entry itself, and its value.
OwnArgs(e) ==
  SubSeq(e.keys, KeyDepth[Outer(e.node)] + 1, Len(e.keys))
    \o (IF e.val = None THEN << >> ELSE <<e.val>>)

\* There are as many as the node takes.
LEMMA OwnArguments ==
  ASSUME NEW cfg \in SavedConfigs, NEW e \in cfg
  PROVE  OwnArgs(e) \in Seq(Word) /\ Len(OwnArgs(e)) = NArgs(e.node)
<1> DEFINE n == e.node
           own == SubSeq(e.keys, KeyDepth[Outer(n)] + 1, Len(e.keys))
           val == IF e.val = None THEN << >> ELSE <<e.val>>
<1>1. /\ n \in SNode /\ e.keys \in Seq(Word) /\ e.val \in Word \cup {None}
      /\ SKind[n] # "np-container" /\ Len(e.keys) = KeyDepth[n]
      /\ e.val # None <=> SKind[n] \in {"leaf", "leaf-list"}
  BY SavedEntry
<1>2. /\ KeyDepth[Outer(n)] \in Nat /\ KeyDepth[n] = KeyDepth[Outer(n)] + KeyCount[n]
      /\ KeyCount[n] \in Nat /\ (SKind[n] = "list" <=> KeyCount[n] > 0)
      /\ SKind[n] \in SchemaKind
  BY <1>1, OuterList, PathStep, SchemaAssumption
<1>3. own \in Seq(Word) /\ Len(own) = KeyCount[n]
  <2> DEFINE k == KeyDepth[Outer(n)]
  <2>1. \A i \in (k + 1)..Len(e.keys) : e.keys[i] \in Word
    BY <1>1, <1>2, ElementOfSeq
  <2>2. k + 1 \in Int /\ Len(e.keys) \in Int /\ Len(e.keys) = k + KeyCount[n]
    BY <1>1, <1>2
  <2> HIDE DEF k
  <2>3. /\ SubSeq(e.keys, k + 1, Len(e.keys)) \in Seq(Word)
        /\ Len(SubSeq(e.keys, k + 1, Len(e.keys)))
             = IF k + 1 <= Len(e.keys) THEN Len(e.keys) - (k + 1) + 1 ELSE 0
    BY <2>1, <2>2, SubSeqProperties
  <2>4. k \in Nat /\ (IF k + 1 <= Len(e.keys) THEN Len(e.keys) - (k + 1) + 1 ELSE 0) = KeyCount[n]
    BY <1>2, <2>2 DEF k
  <2> QED BY <2>3, <2>4 DEF k
<1>4. val \in Seq(Word) /\ Len(val) = (IF e.val = None THEN 0 ELSE 1)
  BY <1>1
<1>5. NArgs(n) = KeyCount[n] + (IF e.val = None THEN 0 ELSE 1)
  BY <1>1, <1>2 DEF NArgs, SchemaKind
<1>6. OwnArgs(e) = own \o val
  BY DEF OwnArgs
<1> HIDE DEF own, val, n
<1>7. own \o val \in Seq(Word) /\ Len(own \o val) = Len(own) + Len(val)
  BY <1>3, <1>4, ConcatProperties
<1> QED BY <1>3, <1>4, <1>5, <1>6, <1>7 DEF n

\* The words of the line: the names of the nodes below the list, down to the
\* node, and the arguments.
LEMMA PrintedWords ==
  ASSUME NEW cfg \in SavedConfigs, NEW e \in cfg
  PROVE  LET n == e.node
             d == Names(n) IN
         /\ d \in Nat /\ d > 0
         /\ Printed(e) \in Seq(Word)
         /\ Len(Printed(e)) = d + NArgs(n)
         /\ \A i \in 1..d : Printed(e)[i] = SName[NodeAt(n, Depth[Outer(n)] + i)]
         /\ SubSeq(Printed(e), d + 1, d + NArgs(n)) = OwnArgs(e)
<1> DEFINE n == e.node
           o == Outer(n)
           d == Names(n)
           names == NamesBelow(n, Depth[o])
           args == OwnArgs(e)
<1>1. n \in SNode
  BY SavedEntry
<1>2. /\ Depth[o] \in Nat /\ Depth[o] < Depth[n] /\ Depth[n] \in Nat
      /\ args \in Seq(Word) /\ Len(args) = NArgs(n) /\ NArgs(n) \in Nat
  BY <1>1, OuterList, SchemaAssumption, OwnArguments, InnerToken
<1>3. d \in Nat /\ d > 0 /\ \A i \in 1..d : Depth[o] + i \in 1..Depth[n]
  BY <1>2 DEF Names
<1>4. names = [i \in 1..d |-> SName[NodeAt(n, Depth[o] + i)]]
  BY DEF NamesBelow, NodeAt, Names
<1>5. \A i \in 1..d : SName[NodeAt(n, Depth[o] + i)] \in Word
  <2> SUFFICES ASSUME NEW i \in 1..d PROVE SName[NodeAt(n, Depth[o] + i)] \in Word
    OBVIOUS
  <2>1. NodeAt(n, Depth[o] + i) \in SNode
    BY <1>1, <1>3, NodeAtStep
  <2> QED BY <2>1, SchemaAssumption
<1> HIDE DEF d, names, args, o, n
<1>6. names \in [1..d -> Word]
  BY <1>4, <1>5
<1>7. names \in Seq(Word) /\ Len(names) = d
  BY <1>3, <1>6, SeqDef
<1>8. Printed(e) = names \o args
  <2> DEFINE own == SubSeq(e.keys, KeyDepth[o] + 1, Len(e.keys))
             val == IF e.val = None THEN << >> ELSE <<e.val>>
  <2>1. own \in Seq(Word) /\ val \in Seq(Word)
    <3>1. /\ e.keys \in Seq(Word) /\ e.val \in Word \cup {None} /\ Len(e.keys) = KeyDepth[n]
          /\ KeyDepth[o] \in Nat /\ Len(e.keys) \in Nat
      BY <1>1, SavedEntry, OuterList, LenProperties DEF n, o
    <3>2. KeyDepth[o] + 1 \in Int /\ Len(e.keys) \in Int
      BY <3>1
    <3>3. \A i \in (KeyDepth[o] + 1)..Len(e.keys) : e.keys[i] \in Word
      BY <3>1, ElementOfSeq
    <3>4. own \in Seq(Word)
      BY <3>2, <3>3, SubSeqProperties
    <3> QED BY <3>1, <3>4
  <2>2. Printed(e) = (names \o own) \o val
    BY DEF Printed, names, n, o
  <2>3. args = own \o val
    BY DEF args, OwnArgs, n, o
  <2> HIDE DEF own, val
  <2>4. (names \o own) \o val = names \o (own \o val)
    BY <1>7, <2>1, ConcatAssociative
  <2> QED BY <2>2, <2>3, <2>4
<1>9. /\ Printed(e) \in Seq(Word) /\ Len(Printed(e)) = d + NArgs(n)
      /\ \A i \in 1..(d + NArgs(n)) : Printed(e)[i] = IF i <= d THEN names[i] ELSE args[i - d]
  <2>1. /\ names \o args \in Seq(Word) /\ Len(names \o args) = Len(names) + Len(args)
        /\ \A i \in 1..(Len(names) + Len(args)) :
             (names \o args)[i] = IF i <= Len(names) THEN names[i] ELSE args[i - Len(names)]
    BY <1>2, <1>7, ConcatProperties
  <2> QED BY <1>2, <1>7, <1>8, <2>1
<1>10. \A i \in 1..d : Printed(e)[i] = SName[NodeAt(n, Depth[o] + i)]
  BY <1>2, <1>3, <1>4, <1>9
<1>11. SubSeq(Printed(e), d + 1, d + NArgs(n)) = args
  <2>1. d + 1 \in Int /\ d + NArgs(n) \in Int
    BY <1>2, <1>3
  <2>2. \A i \in (d + 1)..(d + NArgs(n)) : Printed(e)[i] \in Word
    BY <1>2, <1>3, <1>9, ElementOfSeq
  <2> DEFINE s == SubSeq(Printed(e), d + 1, d + NArgs(n))
  <2>3. /\ s \in Seq(Word)
        /\ Len(s) = IF d + 1 <= d + NArgs(n) THEN (d + NArgs(n)) - (d + 1) + 1 ELSE 0
        /\ \A i \in 1..((d + NArgs(n)) - (d + 1) + 1) : s[i] = Printed(e)[(d + 1) + i - 1]
    BY <2>1, <2>2, SubSeqProperties
  <2> HIDE DEF s
  <2>4. Len(s) = NArgs(n)
    BY <1>2, <1>3, <2>3
  <2>5. \A i \in 1..NArgs(n) : s[i] = args[i]
    <3> SUFFICES ASSUME NEW i \in 1..NArgs(n) PROVE s[i] = args[i]
      OBVIOUS
    <3>1. /\ i \in 1..((d + NArgs(n)) - (d + 1) + 1) /\ (d + 1) + i - 1 = d + i
          /\ d + i \in 1..(d + NArgs(n)) /\ ~(d + i <= d) /\ (d + i) - d = i
      BY <1>2, <1>3
    <3> QED BY <1>9, <2>3, <3>1
  <2>6. s = args
    BY <1>2, <2>3, <2>4, <2>5, SeqEqual
  <2> QED BY <2>6 DEF s
<1> QED BY <1>3, <1>9, <1>10, <1>11 DEF d, o, n, args

\* At the list it starts below a line has one reading: its node, with its keys
\* and its value as arguments.
LEMMA PrintedReads ==
  ASSUME NamesDiffer, NEW cfg \in SavedConfigs, NEW e \in cfg, NEW config
  PROVE  LET level == FullToken(Outer(e.node)) IN
         Readings(level, config, Printed(e)) = {ReadUpTo(level, FullToken(e.node), OwnArgs(e))}
<1> DEFINE n == e.node
           words == Printed(e)
           d == Names(n)
           level == FullToken(Outer(n))
           R == ReadingsAfter(level, config, words)
<1>1. n \in SNode
  BY SavedEntry
<1>2. /\ d \in Nat /\ d > 0 /\ words \in Seq(Word) /\ Len(words) = d + NArgs(n)
      /\ \A i \in 1..d : words[i] = SName[NodeAt(n, Depth[Outer(n)] + i)]
      /\ SubSeq(words, d + 1, d + NArgs(n)) = OwnArgs(e)
  BY PrintedWords
<1>3. Readings(level, config, words) = R[Len(words)]
  BY DEF Readings
<1> HIDE DEF n, words
<1>4. d <= Len(words) /\ d \in 1..d
  BY <1>1, <1>2, InnerToken
<1>5. NodeAt(n, Depth[Outer(n)] + d) = n
  <2>1. Depth[n] \in Nat \ {0} /\ Depth[Outer(n)] \in Nat
    BY <1>1, OuterList, NodeAtDepth
  <2>2. Depth[n] \in 1..Depth[n] /\ Depth[Outer(n)] + d = Depth[n]
    BY <2>1 DEF Names
  <2>3. NodeAt(n, Depth[n]) = n
    BY <1>1, <2>2, NodeAtStep
  <2> QED BY <2>2, <2>3
<1>6. R[d] = {ReadUpTo(level, <<NodeAt(n, Depth[Outer(n)] + d), 0>>, << >>)}
  <2>1. Names(n) <= Len(words) /\ Names(n) \in 1..Names(n) /\ words \in Seq(Word)
    BY <1>2, <1>4
  <2>2. \A i \in 1..Names(n) : words[i] = SName[NodeAt(n, Depth[Outer(n)] + i)]
    BY <1>2
  <2>3. ReadingsAfter(FullToken(Outer(n)), config, words)[Names(n)]
          = {ReadUpTo(FullToken(Outer(n)), <<NodeAt(n, Depth[Outer(n)] + Names(n)), 0>>, << >>)}
    BY <1>1, <2>1, <2>2, NamesRead
  <2> QED BY <2>3
<1> HIDE DEF d, level
<1>7. R[d + NArgs(n)] = {ReadUpTo(level, FullToken(n), SubSeq(words, d + 1, d + NArgs(n)))}
  BY <1>1, <1>2, <1>5, <1>6, ArgumentsRead
<1> HIDE DEF R
<1> QED BY <1>2, <1>3, <1>7 DEF level, n, words

-----------------------------------------------------------------------------
(***************************************************************************)
(* The order of the lines.                                                  *)
(***************************************************************************)

Orders(cfg) == {s \in SetToSeqs(cfg) : DepthFirst(s)}

\* Every entry has its place in the order, and no other.
LEMMA EveryEntry ==
  ASSUME NEW cfg \in SavedConfigs, NEW order \in Orders(cfg)
  PROVE  /\ Len(order) \in Nat /\ DOMAIN order = 1..Len(order)
         /\ \A i \in 1..Len(order) : order[i] \in cfg
         /\ \A e \in cfg : \E i \in 1..Len(order) : order[i] = e
         /\ ToSet(order) = cfg
<1>1. IsFiniteSet(cfg)
  BY SavedAssumption DEF DataTree
<1> DEFINE c == Cardinality(cfg)
<1>2. /\ order \in [1..c -> cfg]
      /\ \A i, j \in 1..c : i # j => order[i] # order[j]
  BY DEF Orders, SetToSeqs
<1>3. c \in Nat
  BY <1>1, FS_CardinalityType
<1> HIDE DEF c
<1>4. order \in Injection(1..c, cfg)
  BY <1>2 DEF Injection, IsInjective
<1>5. Cardinality(1..c) = c
  BY <1>3, FS_Interval
<1>6. order \in Surjection(1..c, cfg)
  BY <1>1, <1>4, <1>5, FS_Injection DEF c
<1>7. \A e \in cfg : \E i \in 1..c : order[i] = e
  BY <1>6 DEF Surjection
<1>8. order \in Seq(cfg)
  BY <1>2, <1>3, SeqDef
<1>9. Len(order) = c /\ DOMAIN order = 1..c
  BY <1>2, <1>3, <1>8, LenProperties
<1>10. ToSet(order) = cfg
  BY <1>2, <1>7, <1>9 DEF ToSet
<1> QED BY <1>2, <1>3, <1>7, <1>9, <1>10

\* The keys of a list on the path to an entry.
LEMMA KeysOfAncestor ==
  ASSUME NEW cfg \in SavedConfigs, NEW e \in cfg, NEW a \in Ancestors[e.node]
  PROVE  /\ KeyDepth[a] \in Nat /\ KeyDepth[a] <= KeyDepth[e.node]
         /\ KeysOf(a, e.keys) \in Seq(Word) /\ Len(KeysOf(a, e.keys)) = KeyDepth[a]
         /\ \A i \in 1..KeyDepth[a] : KeysOf(a, e.keys)[i] = e.keys[i]
         /\ KeysOf(a, KeysOf(a, e.keys)) = KeysOf(a, e.keys)
<1> DEFINE k == KeyDepth[a]
<1>1. /\ e.node \in SNode /\ e.keys \in Seq(Word) /\ Len(e.keys) = KeyDepth[e.node]
      /\ KeyDepth[e.node] \in Nat
  BY SavedEntry, PathStep
<1>2. a \in SNode /\ KeyDepth[a] <= KeyDepth[e.node] /\ k \in Nat
  BY <1>1, AncestorPath, PathStep DEF Node
<1>3. \A i \in 1..k : e.keys[i] \in Word
  BY <1>1, <1>2, ElementOfSeq
<1>4. KeysOf(a, e.keys) = SubSeq(e.keys, 1, k)
  BY DEF KeysOf
<1> HIDE DEF k
<1>5. /\ SubSeq(e.keys, 1, k) \in Seq(Word)
      /\ Len(SubSeq(e.keys, 1, k)) = IF 1 <= k THEN k - 1 + 1 ELSE 0
      /\ \A i \in 1..(k - 1 + 1) : SubSeq(e.keys, 1, k)[i] = e.keys[1 + i - 1]
  BY <1>2, <1>3, SubSeqProperties
<1>6. Len(SubSeq(e.keys, 1, k)) = k /\ \A i \in 1..k : SubSeq(e.keys, 1, k)[i] = e.keys[i]
  BY <1>2, <1>5
<1>7. SubSeq(SubSeq(e.keys, 1, k), 1, k) = SubSeq(e.keys, 1, k)
  BY <1>2, Beginning
<1> QED BY <1>2, <1>4, <1>5, <1>6, <1>7 DEF k, KeysOf

\* What an entry needs comes before it.
LEMMA PathFirst ==
  ASSUME NEW cfg \in SavedConfigs, NEW order \in Orders(cfg), NEW k \in 1..Len(order),
         NEW x \in PathEntries(order[k].node, order[k].keys), x # order[k]
  PROVE  \E i \in 1..Len(order) : i < k /\ order[i] = x
<1> DEFINE e == order[k]
<1>1. e \in cfg /\ DOMAIN order = 1..Len(order) /\ ToSet(order) = cfg /\ Len(order) \in Nat
  BY EveryEntry
<1>2. PathEntries(e.node, e.keys) \subseteq cfg
  BY <1>1, SavedEntry
<1>3. x \in cfg
  BY <1>2
<1>4. PICK j \in 1..Len(order) : order[j] = x
  BY <1>3, EveryEntry
<1>5. PICK a \in Ancestors[e.node] : x = [node |-> a, keys |-> KeysOf(a, e.keys), val |-> None]
  BY DEF PathEntries
<1>6. e \in Below(cfg, x.node, x.keys)
  BY <1>1, <1>5 DEF Below
<1>7. DepthFirst(order)
  BY DEF Orders
<1>8. ASSUME k < j PROVE FALSE
  <2>1. order[k] \notin Below(ToSet(order), order[j].node, order[j].keys) \ {order[j]}
    BY <1>1, <1>7, <1>8 DEF DepthFirst
  <2> QED BY <1>1, <1>4, <1>6, <2>1
<1>9. j # k
  BY <1>4
<1> QED BY <1>1, <1>4, <1>8, <1>9

\* The line before stands in the list that a line starts below.
LEMMA LineBefore ==
  ASSUME NEW cfg \in SavedConfigs, NEW order \in Orders(cfg), NEW k \in 1..Len(order),
         k + 1 \in 1..Len(order), Outer(order[k + 1].node) # Top
  PROVE  LET o == Outer(order[k + 1].node) IN
         /\ o \in Ancestors[order[k].node]
         /\ KeysOf(o, order[k].keys) = KeysOf(o, order[k + 1].keys)
<1> DEFINE e == order[k + 1]
           p == order[k]
           o == Outer(e.node)
           x == [node |-> o, keys |-> KeysOf(o, e.keys), val |-> None]
<1>1. /\ e \in cfg /\ p \in cfg /\ DOMAIN order = 1..Len(order) /\ ToSet(order) = cfg
      /\ Len(order) \in Nat
  BY EveryEntry
<1>2. e.node \in SNode
  BY <1>1, SavedEntry
<1>3. o \in SNode /\ SKind[o] = "list" /\ o # e.node /\ o \in Ancestors[e.node]
  BY <1>2, OuterList
<1>4. x \in PathEntries(e.node, e.keys) /\ x # e
  BY <1>3 DEF PathEntries
<1>5. PICK i \in 1..Len(order) : i < k + 1 /\ order[i] = x
  BY <1>4, PathFirst
<1>6. o \in Ancestors[x.node]
  BY <1>3, PathStep
<1>7. KeysOf(o, x.keys) = KeysOf(o, e.keys)
  BY <1>1, <1>3, KeysOfAncestor
<1>8. order[k] \in Below(ToSet(order), o, KeysOf(o, x.keys))
  <2>1. DepthFirst(order)
    BY DEF Orders
  <2>2. i \in DOMAIN order /\ k + 1 \in DOMAIN order /\ i < k + 1
    BY <1>1, <1>5
  <2>3. o \in Ancestors[order[i].node] \cap Ancestors[order[k + 1].node]
    BY <1>3, <1>5, <1>6
  <2>4. KeysOf(o, order[i].keys) = KeysOf(o, order[k + 1].keys)
    BY <1>5, <1>7
  <2> HIDE DEF o, x, e
  <2>5. \A l \in i..(k + 1) : order[l] \in Below(ToSet(order), o, KeysOf(o, order[i].keys))
    BY <2>1, <2>2, <2>3, <2>4 DEF DepthFirst
  <2>6. k \in i..(k + 1)
    BY <1>5
  <2> QED BY <1>5, <2>5, <2>6
<1> QED BY <1>7, <1>8 DEF Below

-----------------------------------------------------------------------------
(***************************************************************************)
(* Where a line is read.                                                    *)
(***************************************************************************)

\* The reading of the line of e that is meant.
Reading(e) == ReadUpTo(FullToken(Outer(e.node)), FullToken(e.node), OwnArgs(e))

\* It is a configuration command that adds.
LEMMA ReadingEdits ==
  ASSUME NEW cfg \in SavedConfigs, NEW e \in cfg
  PROVE  LET c == Reading(e) IN
         /\ c.level = FullToken(Outer(e.node)) /\ c.level[1] = Outer(e.node)
         /\ c.token[1] = e.node /\ ~c.negate /\ c.args = OwnArgs(e)
         /\ c.token # c.level /\ Action(c.token) = "edit"
<1> DEFINE n == e.node
           o == Outer(n)
           c == Reading(e)
<1>1. n \in SNode /\ SKind[n] # "np-container" /\ SKind[n] \in SchemaKind
  BY SavedEntry, SchemaAssumption
<1>2. o # n
  BY <1>1, OuterList, PathStep
<1>3. FullToken(n) = <<n, NArgs(n)>> /\ FullToken(o) = <<o, NArgs(o)>>
  BY DEF FullToken
<1>4. c.level = FullToken(o) /\ c.token = FullToken(n) /\ ~c.negate /\ c.args = OwnArgs(e)
  BY DEF Reading, ReadUpTo
<1>5. ~IsInternal(FullToken(n))
  BY <1>1, InnerToken, TokenShape
<1>6. IsFullCommand(FullToken(n))
  <2>1. NArgs(n) = IF SKind[n] = "list" THEN KeyCount[n]
                   ELSE IF SKind[n] \in {"leaf", "leaf-list"} THEN 1 ELSE 0
    BY <1>1 DEF NArgs
  <2>2. FullToken(n)[1] = n /\ FullToken(n)[2] = NArgs(n)
    BY <1>3
  <2> HIDE DEF n
  <2> QED BY <1>1, <2>1, <2>2 DEF IsFullCommand, SchemaKind
<1> HIDE DEF c, n, o
<1>7. c.level[1] = o /\ c.token[1] = n /\ c.token # c.level
  BY <1>2, <1>3, <1>4
<1>8. Action(c.token) = "edit"
  BY <1>4, <1>5, <1>6 DEF Action
<1> QED BY <1>4, <1>7, <1>8 DEF c, n, o

\* A level that does not know the first word of a line has no reading of it.
LEMMA FirstWordUnknown ==
  ASSUME NEW level, NEW config, NEW words \in Seq(Word), words # << >>,
         \A add : (add <=> config) => Selected(level, add, Head(words)) = {}
  PROVE  Readings(level, config, words) = {}
<1> DEFINE R == ReadingsAfter(level, config, words)
<1>1. 1 \in 1..Len(words) /\ 1 \in 0..Len(words) /\ Len(words) \in 1..Len(words) /\ 1 - 1 = 0
  BY EmptySeq, LenProperties
<1>2. Head(words) = words[1]
  OBVIOUS
<1>3. (1 = 1) /\ config <=> config
  OBVIOUS
<1>4. Selected(level, (1 = 1) /\ config, Head(words)) = {}
  BY <1>3, Zenon
<1>5. R[0] = {NothingRead(level)} /\ NothingRead(level).token = level
  BY ReadingsStep DEF NothingRead
<1>6. R[1] = TakingWord(R[0], config, words[1], 1 = 1)
  BY <1>1, ReadingsStep
<1>7. R[1] = {}
  <2> HIDE DEF R
  <2> QED BY <1>2, <1>4, <1>5, <1>6 DEF TakingWord
<1>8. R[Len(words)] = {}
  BY <1>1, <1>7, NoReading
<1> QED BY <1>8 DEF Readings

\* The CLI stands at node q, which is below the list of the line of e, and
\* nothing between knows the first word of that line.
Stands(m, q, e) ==
  /\ m.config /\ q \in Node /\ WdToken(m)[1] = q
  /\ Outer(e.node) = Top \/ Outer(e.node) \in Ancestors[q]
  /\ \A x \in Ancestors[q] :
       x # Outer(e.node) /\ (Outer(e.node) = Top \/ Outer(e.node) \in Ancestors[x]) =>
         \A add : add => Selected(FullToken(x), add, Head(Printed(e))) = {}

\* Then the line is read at that list.
LEMMA LineMeans ==
  ASSUME NamesDiffer, NEW cfg \in SavedConfigs, NEW e \in cfg, NEW m, NEW q, Stands(m, q, e)
  PROVE  Meant(m, Printed(e)) = {Reading(e)}
<1> DEFINE o == Outer(e.node)
           words == Printed(e)
           c == Reading(e)
           C == Commands(m, words)
<1>1. /\ e.node \in SNode /\ words \in Seq(Word) /\ words # << >>
      /\ o \in Node
  <2>1. e.node \in SNode /\ words \in Seq(Word) /\ Len(words) > 0
    BY SavedEntry, PrintedWords, InnerToken
  <2>2. words # << >>
    BY <2>1, EmptySeq
  <2> QED BY <2>1, <2>2, OuterList
<1>2. YangRoot = FullToken(Top) /\ Top \notin SNode
  BY SchemaAssumption DEF YangRoot, FullToken, NArgs
<1>3. /\ m.config /\ q \in Node /\ (o = Top \/ o \in Ancestors[q])
      /\ \A x \in Ancestors[q] : x # o /\ (o = Top \/ o \in Ancestors[x]) =>
           \A add : add => Selected(FullToken(x), add, Head(words)) = {}
      /\ Levels(m) = {YangRoot} \cup {FullToken(x) : x \in Ancestors[q]}
  BY DEF Stands, Levels
<1>4. FullToken(o) \in Levels(m)
  BY <1>2, <1>3
<1>5. /\ c.level = FullToken(o) /\ c.level[1] = o /\ c.token # c.level /\ Action(c.token) = "edit"
  BY ReadingEdits
<1>6. Readings(FullToken(o), m.config, words) = {c}
  BY PrintedReads DEF Reading
<1> HIDE DEF words, c, o
<1>7. c \in C
  BY <1>4, <1>5, <1>6 DEF Commands
<1>8. ASSUME NEW x \in Ancestors[q], x # o, o = Top \/ o \in Ancestors[x]
      PROVE  Readings(FullToken(x), m.config, words) = {}
  <2>1. \A add : (add <=> m.config) => Selected(FullToken(x), add, Head(words)) = {}
    BY <1>3, <1>8
  <2> QED BY <1>1, <2>1, FirstWordUnknown
<1>9. ASSUME NEW d \in C PROVE d = c \/ (Inside(c, d) /\ ~Inside(d, c))
  <2>1. PICK level \in Levels(m) : d \in Readings(level, m.config, words)
    BY DEF Commands
  <2>2. d.level = level
    <3>1. Len(words) \in 0..Len(words)
      BY <1>1, LenProperties
    <3>2. d \in ReadingType(level)
      BY <1>1, <2>1, <3>1, ReadingShape DEF Readings
    <3> QED BY <3>2 DEF ReadingType
  <2>3. CASE level = FullToken(o)
    BY <1>6, <2>1, <2>3
  <2>4. CASE level # FullToken(o)
    <3>1. CASE level = YangRoot
      <4>1. o # Top
        BY <1>2, <2>4, <3>1
      <4>2. Inside(c, d)
        BY <1>5, <2>2, <2>4, <3>1 DEF Inside
      <4>3. level[1] = Top /\ Ancestors[Top] = {} /\ FullToken(o) # YangRoot
        BY <2>4, <3>1, PathAssumption DEF YangRoot
      <4>4. ~Inside(d, c)
        BY <1>5, <2>2, <4>3 DEF Inside
      <4> QED BY <4>2, <4>4
    <3>2. CASE level # YangRoot
      <4>1. PICK x \in Ancestors[q] : level = FullToken(x)
        BY <1>3, <3>2
      <4>2. x # o
        BY <2>4, <4>1
      <4>3. ~(o = Top \/ o \in Ancestors[x])
        BY <1>8, <2>1, <4>1, <4>2
      <4>4. o \in Ancestors[q]
        BY <1>3, <4>3
      <4>5. x \in Ancestors[o]
        BY <1>3, <4>3, <4>4, AncestorChain
      <4>6. level[1] = x
        BY <4>1 DEF FullToken
      <4>7. Inside(c, d)
        BY <1>5, <2>2, <2>4, <4>5, <4>6 DEF Inside
      <4>8. FullToken(o) # YangRoot
        <5>1. FullToken(o)[1] = o /\ YangRoot[1] = Top
          BY DEF FullToken, YangRoot
        <5> QED BY <4>3, <5>1
      <4>9. ~Inside(d, c)
        BY <1>5, <2>2, <4>3, <4>6, <4>8 DEF Inside
      <4> QED BY <4>7, <4>9
    <3> QED BY <3>1, <3>2
  <2> QED BY <2>3, <2>4
<1>10. ~Inside(c, c)
  BY DEF Inside
<1> HIDE DEF C
<1>11. Innermost(C) = {c}
  BY <1>7, <1>9, <1>10 DEF Innermost
<1> QED BY <1>11 DEF Meant, C, c, words

-----------------------------------------------------------------------------
(***************************************************************************)
(* Where the CLI stands after a line.                                       *)
(***************************************************************************)

\* The list that a line with node n enters, or stays in.
Entered(n) == IF SKind[n] = "list" THEN n ELSE Outer(n)

\* It is the last list on the path, below all the others.
LEMMA EnteredList ==
  ASSUME NEW n \in SNode
  PROVE  /\ Entered(n) \in Node
         /\ ListPath[n] = << >> => Entered(n) = Top
         /\ ListPath[n] # << >> => Entered(n) = ListPath[n][Len(ListPath[n])]
         /\ \A a \in Ancestors[n] : SKind[a] = "list" => a \in Ancestors[Entered(n)]
<1> DEFINE t == Entered(n)
           N == Len(ListPath[n])
<1>1. /\ ListPath[n] \in Seq(SNode) /\ ListPath[SParent[n]] \in Seq(SNode) /\ N \in Nat
      /\ SParent[n] \in Node /\ n \in Node
  BY PathStep, LenProperties
<1>2. /\ ListPath[n] = << >> => t = Top
      /\ ListPath[n] # << >> => t = ListPath[n][N]
  <2>1. CASE SKind[n] = "list"
    <3>1. N = Len(ListPath[SParent[n]]) + 1 /\ ListPath[n][N] = n
      BY <2>1, ListStep
    <3>2. Len(ListPath[SParent[n]]) \in Nat /\ Len(<< >>) = 0
      BY <1>1, LenProperties, EmptySeq
    <3>3. ListPath[n] # << >>
      BY <3>1, <3>2
    <3> QED BY <2>1, <3>1, <3>3 DEF Entered
  <2>2. CASE SKind[n] # "list"
    <3>1. ListPath[n] = ListPath[SParent[n]]
      BY <2>2, PathStep
    <3>2. t = Outer(n)
      BY <2>2 DEF Entered
    <3> QED BY <3>1, <3>2 DEF Outer, Last
  <2> QED BY <2>1, <2>2
<1>3. t \in Node
  <2>1. ListPath[n] # << >> => N \in 1..N
    BY <1>1, EmptySeq
  <2>2. ListPath[n] # << >> => ListPath[n][N] \in SNode
    BY <1>1, <2>1, ElementOfSeq
  <2> QED BY <1>2, <2>2 DEF Node
<1> HIDE DEF t
<1>4. ASSUME NEW a \in Ancestors[n], SKind[a] = "list" PROVE a \in Ancestors[t]
  <2> DEFINE j == Len(ListPath[a])
  <2>1. a \in SNode /\ a \in Node /\ j \in Nat /\ j <= N /\ \A i \in 1..j : ListPath[a][i] = ListPath[n][i]
    <3>1. a \in SNode /\ Starts(ListPath[a], ListPath[n])
      BY <1>1, AncestorPath
    <3>2. ListPath[a] \in Seq(SNode)
      BY <3>1, PathStep
    <3> QED BY <3>1, <3>2, LenProperties DEF Starts, Node
  <2>2. j \in 1..j /\ ListPath[a][j] = a
    <3>1. j = Len(ListPath[SParent[a]]) + 1 /\ ListPath[a][j] = a
      BY <1>4, <2>1, ListStep
    <3>2. Len(ListPath[SParent[a]]) \in Nat
      BY <2>1, PathStep, LenProperties
    <3> QED BY <3>1, <3>2
  <2>3. ListPath[n][j] = a /\ N \in 1..N
    BY <1>1, <2>1, <2>2
  <2>4. t = ListPath[n][N]
    <3>1. ListPath[n] # << >>
      BY <1>1, <2>3, EmptySeq
    <3> QED BY <1>2, <3>1
  <2>5. t \in Ancestors[n] /\ t \in SNode /\ Len(ListPath[t]) = N
    BY <1>1, <2>3, <2>4, ListOnPath
  <2>6. a \in Ancestors[t] \/ t \in Ancestors[a]
    BY <1>1, <2>5, AncestorChain
  <2>7. CASE t \in Ancestors[a]
    <3>1. N <= j
      BY <2>1, <2>5, <2>7, AncestorPath DEF Starts
    <3>2. a = t
      BY <1>1, <2>1, <2>3, <2>4, <3>1
    <3> QED BY <2>1, <3>2, PathStep
  <2> QED BY <2>6, <2>7
<1> QED BY <1>2, <1>3, <1>4 DEF t

\* The stack of an entry holds the lists on its path with their keys.
LEMMA StackOfEntry ==
  ASSUME NEW cfg \in SavedConfigs, NEW p \in cfg
  PROVE  LET s == StackOf(p.node, p.keys)
             lists == ListPath[p.node] IN
         /\ s \in Seq(CliNode) /\ Len(s) = Len(lists) /\ Len(lists) \in Nat
         /\ \A i \in 1..Len(lists) : /\ s[i].token = FullToken(lists[i])
                                     /\ s[i].keys = KeysOf(lists[i], p.keys)
<1> DEFINE s == StackOf(p.node, p.keys)
           lists == ListPath[p.node]
<1>1. p.node \in SNode /\ p.node \in Node
  BY SavedEntry DEF Node
<1>2. lists \in Seq(SNode) /\ Len(lists) \in Nat /\ DOMAIN lists = 1..Len(lists)
  BY <1>1, PathStep, LenProperties
<1>3. s = [i \in 1..Len(lists) |-> [token |-> FullToken(lists[i]), keys |-> KeysOf(lists[i], p.keys)]]
  BY <1>2 DEF StackOf
<1>4. ASSUME NEW i \in 1..Len(lists)
      PROVE  [token |-> FullToken(lists[i]), keys |-> KeysOf(lists[i], p.keys)] \in CliNode
  <2>1. lists[i] \in Ancestors[p.node] /\ lists[i] \in SNode
    BY <1>1, ListOnPath
  <2>2. FullToken(lists[i]) \in YangToken /\ KeysOf(lists[i], p.keys) \in Seq(Word)
    BY <2>1, InnerToken, KeysOfAncestor
  <2> QED BY <2>2 DEF CliNode
<1> HIDE DEF s, lists
<1>5. s \in [1..Len(lists) -> CliNode]
  BY <1>3, <1>4
<1>6. s \in Seq(CliNode)
  BY <1>2, <1>5, SeqDef
<1>7. Len(s) = Len(lists)
  BY <1>2, <1>5, <1>6, LenProperties
<1> QED BY <1>2, <1>3, <1>6, <1>7 DEF s, lists

\* After the line of p, the CLI stands where the line of e is read as meant.
LEMMA StandsAtEntry ==
  ASSUME NoneNearer, NEW cfg \in SavedConfigs, NEW e \in cfg, NEW p \in cfg,
         Outer(e.node) = Top \/ Outer(e.node) \in Ancestors[p.node]
  PROVE  Stands(Configure(StackOf(p.node, p.keys)), Entered(p.node), e)
<1> DEFINE s == StackOf(p.node, p.keys)
           m == Configure(s)
           q == Entered(p.node)
           o == Outer(e.node)
           lists == ListPath[p.node]
<1>1. p.node \in SNode /\ e.node \in SNode
  BY SavedEntry
<1>2. /\ q \in Node
      /\ lists = << >> => q = Top
      /\ lists # << >> => q = lists[Len(lists)]
      /\ \A a \in Ancestors[p.node] : SKind[a] = "list" => a \in Ancestors[q]
  BY <1>1, EnteredList
<1>3. m.config /\ m.nodes = s
  BY DEF Configure
<1>4. WdToken(m)[1] = q
  <2>1. /\ s \in Seq(CliNode) /\ Len(s) = Len(lists) /\ Len(lists) \in Nat
        /\ \A i \in 1..Len(lists) : s[i].token = FullToken(lists[i])
    BY StackOfEntry
  <2>2. lists \in Seq(SNode)
    BY <1>1, PathStep
  <2> HIDE DEF s, lists, q, m
  <2>3. CASE lists = << >>
    <3>1. s = << >>
      BY <2>1, <2>2, <2>3, EmptySeq
    <3>2. WdToken(m) = YangRoot
      BY <1>3, <3>1 DEF WdToken
    <3> QED BY <1>2, <2>3, <3>2 DEF YangRoot
  <2>4. CASE lists # << >>
    <3>1. s # << >> /\ Len(lists) \in 1..Len(lists)
      BY <2>1, <2>2, <2>4, EmptySeq
    <3>2. WdToken(m) = s[Len(s)].token
      BY <1>3, <3>1 DEF WdToken, Last
    <3>3. WdToken(m) = FullToken(q)
      BY <1>2, <2>1, <2>4, <3>1, <3>2
    <3> QED BY <3>3 DEF FullToken
  <2> QED BY <2>3, <2>4
<1>5. o = Top \/ o \in Ancestors[q]
  BY <1>1, <1>2, OuterList
<1>6. ASSUME NEW x \in Ancestors[q], x # o, o = Top \/ o \in Ancestors[x]
      PROVE  \A add : add => Selected(FullToken(x), add, Head(Printed(e))) = {}
  <2>1. x \in LevelsBetween(e, p)
    BY <1>6 DEF LevelsBetween, Entered
  <2>2. Selected(FullToken(x), TRUE, Head(Printed(e))) = {}
    BY <2>1 DEF NoneNearer
  <2> QED BY <2>2 DEF Selected, Chosen, MatchingTokens, GetTokens, OfferedParents
<1> HIDE DEF m, q
<1> QED BY <1>2, <1>3, <1>4, <1>5, <1>6 DEF Stands, m, q

\* At the root of the configuration, too, if there is no list above the node.
LEMMA StandsAtRoot ==
  ASSUME NEW cfg \in SavedConfigs, NEW e \in cfg, Outer(e.node) = Top
  PROVE  Stands(Configure(<< >>), Top, e)
<1>1. Configure(<< >>).config /\ WdToken(Configure(<< >>)) = YangRoot
  BY DEF Configure, WdToken
<1>2. YangRoot[1] = Top /\ Top \in Node /\ Ancestors[Top] = {}
  BY PathAssumption DEF YangRoot, Node
<1> QED BY <1>1, <1>2 DEF Stands

\* The keys that are taken from the level of a line are those of its own list.
LEMMA BaseOfLine ==
  ASSUME NEW cfg \in SavedConfigs, NEW e \in cfg, NEW nodes,
         LET o == Outer(e.node) IN
         \/ nodes = << >> /\ o = Top
         \/ \E p \in cfg : /\ nodes = StackOf(p.node, p.keys)
                           /\ o # Top => o \in Ancestors[p.node] /\ KeysOf(o, p.keys) = KeysOf(o, e.keys)
  PROVE  BaseKeys(ModeAt(Configure(nodes), Reading(e))) = KeysOf(Outer(e.node), e.keys)
<1> DEFINE o == Outer(e.node)
           N == Len(ListPath[o])
           m == ModeAt(Configure(nodes), Reading(e))
<1>1. m = Configure(SubSeq(nodes, 1, N))
  <2>1. Reading(e).level[1] = o
    BY ReadingEdits
  <2> QED BY <2>1 DEF ModeAt, Configure
<1>2. m.nodes = SubSeq(nodes, 1, N)
  <2> HIDE DEF m, N
  <2> QED BY <1>1 DEF Configure
<1>3. e.node \in SNode /\ e.keys \in Seq(Word)
  BY SavedEntry
<1>4. CASE o = Top
  <2>1. N = 0 /\ KeyDepth[o] = 0
    BY <1>4, PathAssumption, EmptySeq
  <2>2. m.nodes = << >>
    BY <1>2, <2>1, SubSeqEmpty
  <2>3. KeysOf(o, e.keys) = << >>
    BY <2>1, SubSeqEmpty DEF KeysOf
  <2> QED BY <2>2, <2>3 DEF BaseKeys
<1>5. CASE o # Top
  <2>1. PICK p \in cfg : /\ nodes = StackOf(p.node, p.keys) /\ o \in Ancestors[p.node]
                         /\ KeysOf(o, p.keys) = KeysOf(o, e.keys)
    BY <1>5
  <2> DEFINE lists == ListPath[p.node]
  <2>2. p.node \in SNode /\ o \in SNode /\ SKind[o] = "list"
    BY <1>3, <1>5, <2>1, SavedEntry, OuterList
  <2>3. /\ nodes \in Seq(CliNode) /\ Len(nodes) = Len(lists) /\ Len(lists) \in Nat
        /\ \A i \in 1..Len(lists) : nodes[i].keys = KeysOf(lists[i], p.keys)
    BY <2>1, StackOfEntry
  <2>4. N \in Nat /\ N \in 1..Len(lists) /\ lists[N] = o
    <3>1. N <= Len(lists) /\ \A i \in 1..N : ListPath[o][i] = lists[i]
      BY <2>1, <2>2, AncestorPath DEF Starts, Node
    <3>2. N = Len(ListPath[SParent[o]]) + 1 /\ ListPath[o][N] = o
      BY <2>2, ListStep
    <3>3. Len(ListPath[SParent[o]]) \in Nat
      BY <2>2, PathStep, LenProperties
    <3>4. N \in Nat /\ N \in 1..N /\ N \in 1..Len(lists)
      BY <2>3, <3>1, <3>2, <3>3
    <3> QED BY <3>1, <3>2, <3>4
  <2> HIDE DEF N, lists
  <2>5. \A i \in 1..N : nodes[i] \in CliNode
    BY <2>3, <2>4, ElementOfSeq
  <2>6. /\ SubSeq(nodes, 1, N) \in Seq(CliNode)
        /\ Len(SubSeq(nodes, 1, N)) = (IF 1 <= N THEN N - 1 + 1 ELSE 0)
        /\ \A i \in 1..(N - 1 + 1) : SubSeq(nodes, 1, N)[i] = nodes[1 + i - 1]
    BY <2>4, <2>5, SubSeqProperties
  <2>7. /\ Len(SubSeq(nodes, 1, N)) = N /\ SubSeq(nodes, 1, N)[N] = nodes[N]
        /\ SubSeq(nodes, 1, N) # << >>
    <3>1. N - 1 + 1 = N /\ 1 <= N /\ 1 + N - 1 = N
      BY <2>4
    <3>2. Len(SubSeq(nodes, 1, N)) = N /\ SubSeq(nodes, 1, N)[N] = nodes[N]
      BY <2>4, <2>6, <3>1
    <3>3. N # 0 /\ Len(<< >>) = 0
      BY <2>4, EmptySeq
    <3> QED BY <3>2, <3>3
  <2>8. BaseKeys(m) = nodes[N].keys
    BY <1>2, <2>7 DEF BaseKeys, Last
  <2> QED BY <2>1, <2>3, <2>4, <2>8
<1> QED BY <1>4, <1>5

-----------------------------------------------------------------------------
(***************************************************************************)
(* What a line does.                                                        *)
(***************************************************************************)

\* The keys of the level and the arguments of the line are the keys of the entry
\* and its value.
LEMMA PathOfLine ==
  ASSUME NEW cfg \in SavedConfigs, NEW e \in cfg
  PROVE  LET path == KeysOf(Outer(e.node), e.keys) \o OwnArgs(e) IN
         /\ SubSeq(path, 1, KeyDepth[e.node]) = e.keys
         /\ (IF Len(path) > KeyDepth[e.node] THEN Last(path) ELSE None) = e.val
<1> DEFINE n == e.node
           k == KeyDepth[Outer(n)]
           L == KeyDepth[n]
           keys == e.keys
           val == IF e.val = None THEN << >> ELSE <<e.val>>
           path == KeysOf(Outer(n), e.keys) \o OwnArgs(e)
<1>1. /\ n \in SNode /\ keys \in Seq(Word) /\ Len(keys) = L /\ L \in Nat
      /\ e.val \in Word \cup {None}
  BY SavedEntry, LenProperties
<1>2. k \in Nat /\ k <= L
  <2> HIDE DEF n
  <2>1. KeyDepth[Outer(n)] \in Nat /\ KeyDepth[n] = KeyDepth[Outer(n)] + KeyCount[n]
    BY <1>1, OuterList
  <2>2. KeyCount[n] \in Nat
    BY <1>1, PathStep
  <2> QED BY <2>1, <2>2
<1>3. path = SubSeq(keys, 1, k) \o (SubSeq(keys, k + 1, L) \o val)
  BY <1>1 DEF KeysOf, OwnArgs
<1>4. /\ val \in Seq(Word) /\ Len(val) = (IF e.val = None THEN 0 ELSE 1)
      /\ e.val # None => val[1] = e.val
  BY <1>1
<1> HIDE DEF k, L, keys, val, path
<1>5. SubSeq(keys, 1, k) \in Seq(Word) /\ SubSeq(keys, k + 1, L) \in Seq(Word)
  <2>1. \A i \in 1..L : keys[i] \in Word
    BY <1>1, ElementOfSeq
  <2>2. (\A i \in 1..k : keys[i] \in Word) /\ (\A i \in (k + 1)..L : keys[i] \in Word)
    BY <1>1, <1>2, <2>1
  <2>3. k \in Int /\ L \in Int /\ k + 1 \in Int
    BY <1>1, <1>2
  <2> QED BY <2>2, <2>3, SubSeqProperties
<1>6. SubSeq(keys, 1, k) \o SubSeq(keys, k + 1, L) = keys
  <2>1. 1 \in 1..(Len(keys) + 1) /\ k \in (1 - 1)..Len(keys) /\ L \in k..Len(keys)
    BY <1>1, <1>2
  <2>2. SubSeq(keys, 1, k) \o SubSeq(keys, k + 1, L) = SubSeq(keys, 1, L)
    BY <1>1, <2>1, ConcatAdjacentSubSeq
  <2> QED BY <1>1, <2>2, SubSeqFull
<1>7. path = keys \o val
  <2>1. (SubSeq(keys, 1, k) \o SubSeq(keys, k + 1, L)) \o val
          = SubSeq(keys, 1, k) \o (SubSeq(keys, k + 1, L) \o val)
    <3>1. \A s, t, u \in Seq(Word) : (s \o t) \o u = s \o (t \o u)
      BY ConcatAssociative
    <3> QED BY <1>4, <1>5, <3>1, Zenon
  <2> QED BY <1>3, <1>6, <2>1
<1>8. /\ path \in Seq(Word) /\ Len(path) = L + Len(val)
      /\ \A i \in 1..(L + Len(val)) : path[i] = IF i <= L THEN keys[i] ELSE val[i - L]
  <2>1. /\ keys \o val \in Seq(Word) /\ Len(keys \o val) = Len(keys) + Len(val)
        /\ \A i \in 1..(Len(keys) + Len(val)) :
             (keys \o val)[i] = IF i <= Len(keys) THEN keys[i] ELSE val[i - Len(keys)]
    BY <1>1, <1>4, ConcatProperties
  <2> QED BY <1>1, <1>7, <2>1
<1>9. SubSeq(path, 1, L) = keys
  <2>1. \A i \in 1..L : path[i] \in Word
    BY <1>1, <1>4, <1>8, ElementOfSeq
  <2>2. /\ SubSeq(path, 1, L) \in Seq(Word)
        /\ Len(SubSeq(path, 1, L)) = (IF 1 <= L THEN L - 1 + 1 ELSE 0)
        /\ \A i \in 1..(L - 1 + 1) : SubSeq(path, 1, L)[i] = path[1 + i - 1]
    BY <1>1, <2>1, SubSeqProperties
  <2>3. Len(SubSeq(path, 1, L)) = Len(keys)
    BY <1>1, <2>2
  <2>4. \A i \in 1..Len(keys) : SubSeq(path, 1, L)[i] = keys[i]
    <3> SUFFICES ASSUME NEW i \in 1..Len(keys) PROVE SubSeq(path, 1, L)[i] = keys[i]
      OBVIOUS
    <3>1. i \in 1..(L - 1 + 1) /\ 1 + i - 1 = i /\ i <= L /\ i \in 1..(L + Len(val))
      BY <1>1, <1>4
    <3>2. SubSeq(path, 1, L)[i] = path[i]
      BY <2>2, <3>1
    <3> QED BY <1>8, <3>1, <3>2
  <2> QED BY <1>1, <2>2, <2>3, <2>4, SeqEqual
<1>10. (IF Len(path) > L THEN Last(path) ELSE None) = e.val
  <2>1. CASE e.val = None
    <3>1. ~(Len(path) > L)
      BY <1>1, <1>4, <1>8, <2>1
    <3> QED BY <2>1, <3>1
  <2>2. CASE e.val # None
    <3>1. Len(path) = L + 1 /\ Len(path) > L
      BY <1>1, <1>4, <1>8, <2>2
    <3>2. Last(path) = path[L + 1]
      BY <3>1 DEF Last
    <3>3. L + 1 \in 1..(L + Len(val)) /\ ~(L + 1 <= L) /\ (L + 1) - L = 1
      BY <1>1, <1>4, <2>2
    <3>4. path[L + 1] = val[1]
      BY <1>8, <3>3
    <3> QED BY <1>4, <2>2, <3>1, <3>2, <3>4
  <2> QED BY <2>1, <2>2
<1> QED BY <1>9, <1>10 DEF path, L, keys

\* A line that is read where it was meant enters its entry, and sets it if
\* libyang accepts the path.
LEMMA LineAnswered ==
  ASSUME NamesDiffer, NEW cfg \in SavedConfigs, NEW e \in cfg, NEW nodes, NEW q,
         Stands(Configure(nodes), q, e),
         BaseKeys(ModeAt(Configure(nodes), Reading(e))) = KeysOf(Outer(e.node), e.keys),
         mode = Configure(nodes), line = Printed(e), Answer
  PROVE  /\ mode' = Configure(StackOf(e.node, e.keys)) /\ running' = running /\ line' = << >>
         /\ candidate' = IF Refused(e.keys, e.val) THEN candidate
                         ELSE Some(NewPath(candidate.tree, e.node, e.keys, e.val))
<1> DEFINE c == Reading(e)
           m == ModeAt(mode, c)
<1>1. Meant(mode, line) = {c}
  BY LineMeans
<1>2. Action(c.token) = "edit" /\ c.token[1] = e.node /\ ~c.negate /\ c.args = OwnArgs(e)
  BY ReadingEdits
<1>3. BaseKeys(m) = KeysOf(Outer(e.node), e.keys)
  OBVIOUS
<1> HIDE DEF c
<1>4. EditAt(c, m) /\ line' = << >>
  BY <1>1, <1>2 DEF Answer, Execute, Unknown
<1>5. LET path == KeysOf(Outer(e.node), e.keys) \o OwnArgs(e) IN
      /\ SubSeq(path, 1, KeyDepth[e.node]) = e.keys
      /\ (IF Len(path) > KeyDepth[e.node] THEN Last(path) ELSE None) = e.val
  BY PathOfLine
<1> HIDE DEF m
<1>6. /\ mode' = Configure(StackOf(e.node, e.keys)) /\ running' = running
      /\ candidate' = IF Refused(e.keys, e.val) THEN candidate
                      ELSE Some(NewPath(candidate.tree, e.node, e.keys, e.val))
  <2> DEFINE path == BaseKeys(m) \o c.args
             keys == SubSeq(path, 1, KeyDepth[c.token[1]])
             val == IF Len(path) > KeyDepth[c.token[1]] THEN Last(path) ELSE None
  <2>1. path = KeysOf(Outer(e.node), e.keys) \o OwnArgs(e)
    BY <1>2, <1>3
  <2>2. keys = e.keys /\ val = e.val
    <3> HIDE DEF path
    <3> QED BY <1>2, <1>5, <2>1
  <2>3. /\ running' = running /\ mode' = Configure(StackOf(c.token[1], keys))
        /\ candidate' = IF Refused(keys, val) THEN candidate
                        ELSE Some(NewPath(candidate.tree, c.token[1], keys, val))
    BY <1>2, <1>4 DEF EditAt, Become
  <2> HIDE DEF keys, val
  <2> QED BY <1>2, <2>2, <2>3
<1> QED BY <1>4, <1>6

-----------------------------------------------------------------------------
(***************************************************************************)
(* The configuration that builds up.                                        *)
(***************************************************************************)

\* The entries of the first k lines that libyang accepts.
Accepted(order, k) == {order[i] : i \in {j \in 1..k : ~Refused(order[j].keys, order[j].val)}}

\* What running becomes with these entries.
Restored(cfg, A) == Except(cfg, A) \cup A

\* One more line that is accepted adds its entry to them, and nothing else.
LEMMA LineRestores ==
  ASSUME NEW cfg \in SavedConfigs, NEW order \in Orders(cfg), NEW k \in Nat,
         k + 1 \in 1..Len(order), ~Refused(order[k + 1].keys, order[k + 1].val), NEW base
  PROVE  LET e == order[k + 1] IN
         NewPath(Restored(base, Accepted(order, k)), e.node, e.keys, e.val)
           = Restored(base, Accepted(order, k + 1))
<1> DEFINE e == order[k + 1]
           A == Accepted(order, k)
           B == Accepted(order, k + 1)
           path == PathEntries(e.node, e.keys)
<1>1. /\ e \in cfg /\ Len(order) \in Nat /\ \A i \in 1..Len(order) : order[i] \in cfg
  BY EveryEntry
<1>2. /\ e = [node |-> e.node, keys |-> e.keys, val |-> e.val]
      /\ e.node \in SNode
      /\ SKind[e.node] = "leaf" => At(cfg, e.node, e.keys) = {e}
  BY <1>1, SavedEntry
<1>3. B = A \cup {e}
  <2>1. 1..(k + 1) = (1..k) \cup {k + 1}
    OBVIOUS
  <2> QED BY <2>1 DEF Accepted
<1>4. A \subseteq cfg
  BY <1>1 DEF Accepted
<1>5. path \subseteq A \cup {e}
  <2> SUFFICES ASSUME NEW x \in path, x # e PROVE x \in A
    OBVIOUS
  <2>1. PICK i \in 1..Len(order) : i < k + 1 /\ order[i] = x
    BY PathFirst
  <2>2. i \in 1..k
    BY <2>1
  <2>3. PICK a \in Ancestors[e.node] : x = [node |-> a, keys |-> KeysOf(a, e.keys), val |-> None]
    BY DEF PathEntries
  <2>4. ~Refused(x.keys, x.val)
    <3>1. ASSUME NEW w \in BadWord PROVE x.val # w /\ \A j \in DOMAIN x.keys : x.keys[j] # w
      <4>1. x.val # w
        BY <2>3, SavedAssumption
      <4>2. x.keys = KeysOf(a, e.keys)
        BY <2>3
      <4>3. /\ KeyDepth[a] \in Nat /\ KeyDepth[a] <= KeyDepth[e.node]
            /\ KeysOf(a, e.keys) \in Seq(Word) /\ Len(KeysOf(a, e.keys)) = KeyDepth[a]
            /\ \A j \in 1..KeyDepth[a] : KeysOf(a, e.keys)[j] = e.keys[j]
        BY <1>1, KeysOfAncestor
      <4>4. DOMAIN x.keys = 1..KeyDepth[a]
        BY <4>2, <4>3, LenProperties
      <4>5. Len(e.keys) = KeyDepth[e.node] /\ DOMAIN e.keys = 1..KeyDepth[e.node] /\ KeyDepth[e.node] \in Nat
        BY <1>1, SavedEntry, LenProperties, PathStep
      <4>6. \A j \in 1..KeyDepth[a] : j \in DOMAIN e.keys
        BY <4>3, <4>5
      <4>7. \A j \in DOMAIN e.keys : e.keys[j] # w
        BY DEF Refused
      <4> QED BY <4>1, <4>2, <4>3, <4>4, <4>6, <4>7
    <3> QED BY <3>1 DEF Refused
  <2> QED BY <2>1, <2>2, <2>4 DEF Accepted
<1> DEFINE T == Restored(base, A)
<1>6. NewPath(T, e.node, e.keys, e.val)
        = (IF SKind[e.node] = "leaf" THEN T \ At(T, e.node, e.keys) ELSE T) \cup path \cup {e}
  BY <1>2 DEF NewPath
<1>7. CASE SKind[e.node] # "leaf"
  <2>1. Except(base, B) = Except(base, A)
    BY <1>3, <1>7 DEF Except, At
  <2> QED BY <1>3, <1>5, <1>6, <1>7, <2>1 DEF Restored
<1>8. CASE SKind[e.node] = "leaf"
  <2>1. At(A, e.node, e.keys) \subseteq {e}
    BY <1>2, <1>4, <1>8 DEF At
  <2>2. Except(base, B) = Except(base, A) \ At(base, e.node, e.keys)
    BY <1>3, <1>8 DEF Except, At
  <2>3. (T \ At(T, e.node, e.keys)) \cup {e} = Except(base, B) \cup A \cup {e}
    BY <2>1, <2>2 DEF Restored, At, Except
  <2> QED BY <1>3, <1>5, <1>6, <1>8, <2>3 DEF Restored
<1> QED BY <1>7, <1>8

\* A line that is refused leaves them as they are.
LEMMA LineRefused ==
  ASSUME NEW order, NEW k \in Nat, Refused(order[k + 1].keys, order[k + 1].val)
  PROVE  Accepted(order, k + 1) = Accepted(order, k)
<1>1. 1..(k + 1) = (1..k) \cup {k + 1}
  OBVIOUS
<1> QED BY <1>1 DEF Accepted

-----------------------------------------------------------------------------
(***************************************************************************)
(* The invariant: after k lines, in some order in which the configuration   *)
(* may have been printed, the CLI stands in the entry of the last one, and  *)
(* the candidate has what was accepted so far.                              *)
(***************************************************************************)

\* The lines after the first k.
LinesAfter(order, k) == [i \in 1..(Len(order) - k) |-> Printed(order[k + i])]

NodesAfter(order, k) == IF k = 0 THEN << >> ELSE StackOf(order[k].node, order[k].keys)

\* k lines have been answered, and the next one may have been taken.
Underway(order, k) ==
  /\ mode = Configure(NodesAfter(order, k))
  /\ candidate = Some(Restored(running, Accepted(order, k)))
  /\ \/ line = << >> /\ file = LinesAfter(order, k)
     \/ k < Len(order) /\ line = Printed(order[k + 1]) /\ file = LinesAfter(order, k + 1)

RestoreInv ==
  /\ saved \in SavedConfigs
  /\ stage \in {"start", "lines", "commit", "done"}
  /\ \E order \in Orders(saved) :
       /\ stage = "start" => line = << >> /\ file = LinesAfter(order, 0)
       /\ stage = "lines" => \E k \in 0..Len(order) : Underway(order, k)
  /\ FileRestores

\* Taking a line leaves the lines after it.
LEMMA LinesTaken ==
  ASSUME NEW cfg \in SavedConfigs, NEW order \in Orders(cfg), NEW k \in 0..Len(order)
  PROVE  /\ LinesAfter(order, k) = << >> <=> k = Len(order)
         /\ k < Len(order) => /\ Head(LinesAfter(order, k)) = Printed(order[k + 1])
                              /\ Tail(LinesAfter(order, k)) = LinesAfter(order, k + 1)
                              /\ Printed(order[k + 1]) # << >>
<1> DEFINE N == Len(order)
           Rest(j) == LinesAfter(order, j)
<1>1. N \in Nat /\ \A i \in 1..N : order[i] \in cfg
  BY EveryEntry
<1>2. \A i \in 1..N : Printed(order[i]) \in Seq(Word) /\ Printed(order[i]) # << >>
  <2> SUFFICES ASSUME NEW i \in 1..N PROVE Printed(order[i]) \in Seq(Word) /\ Printed(order[i]) # << >>
    OBVIOUS
  <2>1. order[i] \in cfg
    BY <1>1
  <2> DEFINE e == order[i]
  <2>2. Printed(e) \in Seq(Word) /\ Len(Printed(e)) = Names(e.node) + NArgs(e.node)
        /\ Names(e.node) \in Nat /\ Names(e.node) > 0
    BY <2>1, PrintedWords
  <2>3. NArgs(e.node) \in Nat
    BY <2>1, SavedEntry, InnerToken
  <2> HIDE DEF e
  <2>4. Len(Printed(e)) > 0 /\ Len(<< >>) = 0
    BY <2>2, <2>3, EmptySeq
  <2> QED BY <2>2, <2>4 DEF e
<1>3. ASSUME NEW j \in 0..N
      PROVE  /\ Rest(j) \in Seq(Seq(Word)) /\ Len(Rest(j)) = N - j
             /\ \A i \in 1..(N - j) : Rest(j)[i] = Printed(order[j + i])
  <2>1. N - j \in Nat /\ \A i \in 1..(N - j) : j + i \in 1..N
    BY <1>1
  <2>2. Rest(j) = [i \in 1..(N - j) |-> Printed(order[j + i])]
    BY DEF LinesAfter
  <2> HIDE DEF Rest
  <2>3. Rest(j) \in [1..(N - j) -> Seq(Word)]
    BY <1>2, <2>1, <2>2
  <2>4. Rest(j) \in Seq(Seq(Word))
    BY <2>1, <2>3, SeqDef
  <2>5. Len(Rest(j)) = N - j
    BY <2>1, <2>3, <2>4, LenProperties
  <2> QED BY <2>2, <2>4, <2>5
<1> HIDE DEF Rest, N
<1>. k \in 0..N
  BY DEF N
<1>4. Rest(k) = << >> <=> k = N
  <2>1. Rest(k) = << >> => Len(Rest(k)) = 0
    BY EmptySeq
  <2>2. Rest(k) # << >> => Len(Rest(k)) # 0
    BY <1>3, EmptySeq
  <2>3. Len(Rest(k)) = N - k
    BY <1>3
  <2>4. N - k = 0 <=> k = N
    BY <1>1
  <2> QED BY <2>1, <2>2, <2>3, <2>4
<1>5. ASSUME k < N
      PROVE  /\ Head(Rest(k)) = Printed(order[k + 1]) /\ Tail(Rest(k)) = Rest(k + 1)
             /\ Printed(order[k + 1]) # << >>
  <2>1. /\ k + 1 \in 0..N /\ k + 1 \in 1..N /\ 1 \in 1..(N - k) /\ N - (k + 1) = (N - k) - 1
        /\ N - k \in Nat /\ N - (k + 1) \in Nat
    BY <1>1, <1>5
  <2>2. Rest(k) # << >>
    BY <1>1, <1>4, <1>5
  <2>3. Head(Rest(k)) = Rest(k)[1]
    BY <1>3, <2>2
  <2>4. /\ Tail(Rest(k)) \in Seq(Seq(Word)) /\ Len(Tail(Rest(k))) = N - (k + 1)
        /\ \A i \in 1..(N - (k + 1)) : Tail(Rest(k))[i] = Rest(k)[i + 1]
    BY <1>3, <2>1, <2>2, HeadTailProperties
  <2>5. ASSUME NEW i \in 1..(N - (k + 1)) PROVE Tail(Rest(k))[i] = Rest(k + 1)[i]
    <3>1. i + 1 \in 1..(N - k) /\ k + (i + 1) = (k + 1) + i
      BY <2>1
    <3>2. Rest(k)[i + 1] = Printed(order[k + (i + 1)]) /\ Rest(k + 1)[i] = Printed(order[(k + 1) + i])
      BY <1>3, <2>1, <3>1
    <3> QED BY <2>4, <3>1, <3>2
  <2>6. Tail(Rest(k)) = Rest(k + 1)
    BY <1>3, <2>1, <2>4, <2>5, SeqEqual
  <2> QED BY <1>2, <1>3, <2>1, <2>3, <2>6
<1> QED BY <1>4, <1>5 DEF Rest, N

\* Before the first line.
LEMMA RestoreInit == SavedInit => RestoreInv
<1> SUFFICES ASSUME SavedInit PROVE RestoreInv
  OBVIOUS
<1>1. saved \in SavedConfigs /\ file \in Files(saved) /\ stage = "start" /\ line = << >>
  BY DEF SavedInit, BatchInit
<1>2. PICK order \in Orders(saved) : file = [i \in DOMAIN order |-> Printed(order[i])]
  BY <1>1 DEF Files, Orders
<1>3. DOMAIN order = 1..Len(order) /\ Len(order) \in Nat
  BY <1>1, EveryEntry
<1>4. file = LinesAfter(order, 0)
  <2>1. Len(order) - 0 = Len(order) /\ \A i \in 1..Len(order) : 0 + i = i
    BY <1>3
  <2> QED BY <1>2, <1>3, <2>1 DEF LinesAfter
<1> QED BY <1>1, <1>4 DEF RestoreInv, FileRestores

\* Reading the file starts with running as the candidate.
LEMMA ReadFileKeeps ==
  RestoreInv /\ ReadFile /\ UNCHANGED <<saved, file>> => RestoreInv'
<1> SUFFICES ASSUME RestoreInv, ReadFile, UNCHANGED <<saved, file>> PROVE RestoreInv'
  OBVIOUS
<1>1. /\ stage = "start" /\ stage' = "lines" /\ saved \in SavedConfigs
      /\ mode' = Configure(<< >>) /\ candidate' = Some(running)
      /\ running' = running /\ line' = line /\ saved' = saved /\ file' = file
  BY DEF ReadFile, RestoreInv
<1>2. PICK order \in Orders(saved) : line = << >> /\ file = LinesAfter(order, 0)
  BY <1>1 DEF RestoreInv
<1>3. Len(order) \in Nat
  BY <1>1, EveryEntry
<1>4. Accepted(order, 0) = {}
  BY DEF Accepted
<1>5. Restored(running, {}) = running
  BY DEF Restored, Except, At
<1>6. Underway(order, 0)'
  BY <1>1, <1>2, <1>4, <1>5 DEF Underway, NodesAfter
<1>7. 0 \in 0..Len(order)
  BY <1>3
<1> QED BY <1>1, <1>2, <1>6, <1>7 DEF RestoreInv, FileRestores

\* A line is taken from the file.
LEMMA SavedLineKeeps == RestoreInv /\ SavedLine => RestoreInv'
<1> SUFFICES ASSUME RestoreInv, SavedLine PROVE RestoreInv'
  OBVIOUS
<1>1. /\ stage = "lines" /\ line = << >> /\ file # << >> /\ line' = Head(file) /\ file' = Tail(file)
      /\ stage' = stage /\ saved' = saved /\ saved \in SavedConfigs
      /\ mode' = mode /\ candidate' = candidate /\ running' = running
  BY DEF SavedLine, state, RestoreInv
<1>2. PICK order \in Orders(saved) : \E k \in 0..Len(order) : Underway(order, k)
  BY <1>1 DEF RestoreInv
<1>3. PICK k \in 0..Len(order) : Underway(order, k)
  BY <1>2
<1>4. Len(order) \in Nat
  BY <1>1, EveryEntry
<1>5. file = LinesAfter(order, k)
  <2>1. k < Len(order) => Printed(order[k + 1]) # << >>
    BY <1>1, LinesTaken
  <2> QED BY <1>1, <1>3, <2>1 DEF Underway
<1>6. k < Len(order)
  <2>1. k # Len(order)
    BY <1>1, <1>5, LinesTaken
  <2> QED BY <1>4, <2>1
<1>7. line' = Printed(order[k + 1]) /\ file' = LinesAfter(order, k + 1)
  BY <1>1, <1>5, <1>6, LinesTaken
<1>8. Underway(order, k)'
  BY <1>1, <1>3, <1>6, <1>7 DEF Underway
<1> QED BY <1>1, <1>8 DEF RestoreInv, FileRestores

\* The heart of it: a line is answered in its place.
LEMMA LineEnteredKeeps ==
  ASSUME NamesDiffer, NoneNearer, RestoreInv, LineEntered, UNCHANGED <<saved, file>>
  PROVE  RestoreInv'
<1>1. /\ stage = "lines" /\ stage' = "lines" /\ Answer /\ line # << >>
      /\ saved' = saved /\ file' = file /\ saved \in SavedConfigs
  BY DEF LineEntered, RestoreInv, Answer
<1>2. PICK order \in Orders(saved) : \E k \in 0..Len(order) : Underway(order, k)
  BY <1>1 DEF RestoreInv
<1>3. PICK k \in 0..Len(order) : Underway(order, k)
  BY <1>2
<1>4. Len(order) \in Nat /\ \A i \in 1..Len(order) : order[i] \in saved
  BY <1>1, EveryEntry
<1> DEFINE nodes == NodesAfter(order, k)
           e == order[k + 1]
<1>5. /\ k < Len(order) /\ line = Printed(e) /\ file = LinesAfter(order, k + 1)
      /\ mode = Configure(nodes) /\ candidate = Some(Restored(running, Accepted(order, k)))
  BY <1>1, <1>3 DEF Underway
<1>6. k \in Nat /\ k + 1 \in 1..Len(order) /\ k + 1 \in 0..Len(order) /\ e \in saved
  BY <1>4, <1>5
<1>7. /\ \E q : Stands(Configure(nodes), q, e)
      /\ BaseKeys(ModeAt(Configure(nodes), Reading(e))) = KeysOf(Outer(e.node), e.keys)
  <2>1. CASE k = 0
    <3>1. Outer(e.node) = Top
      <4> SUFFICES ASSUME Outer(e.node) # Top PROVE FALSE
        OBVIOUS
      <4> DEFINE o == Outer(e.node)
                 x == [node |-> o, keys |-> KeysOf(o, e.keys), val |-> None]
      <4>1. o # e.node /\ o \in Ancestors[e.node] /\ SKind[o] = "list"
        BY <1>1, <1>6, SavedEntry, OuterList
      <4>2. x \in PathEntries(e.node, e.keys) /\ x # e
        BY <4>1 DEF PathEntries
      <4>3. \E i \in 1..Len(order) : i < k + 1 /\ order[i] = x
        BY <1>1, <1>6, <4>2, PathFirst
      <4> QED BY <2>1, <4>3
    <3>2. nodes = << >>
      BY <2>1 DEF NodesAfter
    <3> HIDE DEF nodes, e
    <3>3. Stands(Configure(nodes), Top, e)
      BY <1>1, <1>6, <3>1, <3>2, StandsAtRoot
    <3>4. BaseKeys(ModeAt(Configure(nodes), Reading(e))) = KeysOf(Outer(e.node), e.keys)
      BY <1>1, <1>6, <3>1, <3>2, BaseOfLine
    <3> QED BY <3>3, <3>4
  <2>2. CASE k # 0
    <3> DEFINE p == order[k]
               o == Outer(e.node)
    <3>1. k \in 1..Len(order) /\ p \in saved
      BY <1>4, <1>6, <2>2
    <3>2. o # Top => o \in Ancestors[p.node] /\ KeysOf(o, p.keys) = KeysOf(o, e.keys)
      BY <1>1, <1>6, <3>1, LineBefore
    <3>3. nodes = StackOf(p.node, p.keys)
      BY <2>2 DEF NodesAfter
    <3> HIDE DEF nodes, e, p
    <3>4. Stands(Configure(nodes), Entered(p.node), e)
      BY <1>1, <1>6, <3>1, <3>2, <3>3, StandsAtEntry
    <3>5. BaseKeys(ModeAt(Configure(nodes), Reading(e))) = KeysOf(Outer(e.node), e.keys)
      BY <1>1, <1>6, <3>1, <3>2, <3>3, BaseOfLine
    <3> QED BY <3>4, <3>5
  <2> QED BY <2>1, <2>2
<1>8. /\ mode' = Configure(StackOf(e.node, e.keys)) /\ running' = running /\ line' = << >>
      /\ candidate' = IF Refused(e.keys, e.val) THEN candidate
                      ELSE Some(NewPath(candidate.tree, e.node, e.keys, e.val))
  <2> HIDE DEF nodes, e
  <2>1. PICK q : Stands(Configure(nodes), q, e)
    BY <1>7
  <2> QED BY <1>1, <1>5, <1>6, <1>7, <2>1, LineAnswered
<1>9. candidate' = Some(Restored(running, Accepted(order, k + 1)))
  <2>1. CASE Refused(e.keys, e.val)
    BY <1>5, <1>6, <1>8, <2>1, LineRefused
  <2>2. CASE ~Refused(e.keys, e.val)
    <3>1. candidate.tree = Restored(running, Accepted(order, k))
      BY <1>5 DEF Some
    <3>2. NewPath(Restored(running, Accepted(order, k)), e.node, e.keys, e.val)
            = Restored(running, Accepted(order, k + 1))
      BY <1>1, <1>6, <2>2, LineRestores
    <3> QED BY <1>8, <2>2, <3>1, <3>2
  <2> QED BY <2>1, <2>2
<1>10. Underway(order, k + 1)'
  <2>1. k + 1 # 0
    BY <1>6
  <2> QED BY <1>1, <1>5, <1>8, <1>9, <2>1 DEF Underway, NodesAfter
<1> QED BY <1>1, <1>6, <1>10 DEF RestoreInv, FileRestores

\* When the file is through, the candidate is what the property says.
LEMMA EndOfFileKeeps ==
  RestoreInv /\ file = << >> /\ EndOfFile /\ UNCHANGED <<saved, file>> => RestoreInv'
<1> SUFFICES ASSUME RestoreInv, file = << >>, EndOfFile, UNCHANGED <<saved, file>> PROVE RestoreInv'
  OBVIOUS
<1>1. /\ stage = "lines" /\ line = << >> /\ stage' = "commit" /\ saved' = saved
      /\ candidate' = candidate /\ running' = running /\ saved \in SavedConfigs
  BY DEF EndOfFile, vars, state, RestoreInv
<1>2. PICK order \in Orders(saved) : \E k \in 0..Len(order) : Underway(order, k)
  BY <1>1 DEF RestoreInv
<1>3. PICK k \in 0..Len(order) : Underway(order, k)
  BY <1>2
<1>4. /\ \A i \in 1..Len(order) : order[i] \in saved
      /\ \A e \in saved : \E i \in 1..Len(order) : order[i] = e
  BY <1>1, EveryEntry
<1>5. k = Len(order)
  <2>1. k < Len(order) => Printed(order[k + 1]) # << >>
    BY <1>1, LinesTaken
  <2>2. LinesAfter(order, k) = << >>
    BY <1>1, <1>3, <2>1 DEF Underway
  <2> QED BY <1>1, <2>2, LinesTaken
<1>6. Accepted(order, k) = {e \in saved : ~Refused(e.keys, e.val)}
  BY <1>4, <1>5 DEF Accepted
<1>7. candidate = Some(Restored(running, Accepted(order, k)))
  BY <1>3 DEF Underway
<1>8. FileRestores'
  BY <1>1, <1>6, <1>7 DEF FileRestores, Restored
<1> QED BY <1>1, <1>2, <1>8 DEF RestoreInv

\* Every step keeps the invariant.
LEMMA RestoreStep ==
  ASSUME NamesDiffer, NoneNearer, RestoreInv, [SavedNext]_restore
  PROVE  RestoreInv'
<1>1. CASE SavedLine
  BY <1>1, SavedLineKeeps
<1>2. CASE ReadFile /\ UNCHANGED <<saved, file>>
  BY <1>2, ReadFileKeeps
<1>3. CASE LineEntered /\ UNCHANGED <<saved, file>>
  BY <1>3, LineEnteredKeeps
<1>4. CASE file = << >> /\ EndOfFile /\ UNCHANGED <<saved, file>>
  BY <1>4, EndOfFileKeeps
<1>5. CASE FinalCommit /\ UNCHANGED <<saved, file>>
  <2>1. stage' = "done" /\ saved' = saved
    BY <1>5 DEF FinalCommit
  <2>2. saved \in SavedConfigs /\ \E order \in Orders(saved) : TRUE
    BY DEF RestoreInv
  <2> QED BY <2>1, <2>2 DEF RestoreInv, FileRestores
<1>6. CASE UNCHANGED restore
  BY <1>6 DEF restore, batch, vars, state, RestoreInv, Underway, FileRestores
<1>7. CASE Done /\ UNCHANGED <<saved, file>>
  BY <1>6, <1>7 DEF Done, restore
<1> QED BY <1>1, <1>2, <1>3, <1>4, <1>5, <1>6, <1>7 DEF SavedNext

\* A configuration that is printed (cmd_show_config_cmds) and read back with
\* --file is there again, whatever the schema, the configuration and the order of
\* the lines, however many of them are refused: if the nodes below a node have
\* different names, none of them "no", and no level further in than the one a
\* line was printed for knows its first word.
THEOREM PrintedConfigRestores ==
  ASSUME NamesDiffer, NoneNearer
  PROVE  SavedSpec => []FileRestores
<1>1. SavedInit => RestoreInv
  BY RestoreInit
<1>2. RestoreInv /\ [SavedNext]_restore => RestoreInv'
  BY RestoreStep
<1>3. RestoreInv => FileRestores
  BY DEF RestoreInv
<1> QED BY <1>1, <1>2, <1>3, PTL DEF SavedSpec

=============================================================================
