------------------------- MODULE CommandTreeProofs -------------------------
(***************************************************************************)
(* Facts about the paths of the schema and about the tokens, for every      *)
(* schema: how keys and lists accumulate from the root down to a node.      *)
(***************************************************************************)
EXTENDS CommandTree, SequenceTheorems, WellFoundedInduction, TLAPS

Node == SNode \cup {Top}

-----------------------------------------------------------------------------
\* A set of naturals that is not empty has a least element.
LEMMA LeastNat ==
  ASSUME NEW S \in SUBSET Nat, S # {}
  PROVE  \E m \in S : \A k \in S : m <= k
<1> DEFINE R == {p \in Nat \X Nat : p[1] < p[2]}
<1>1. IsWellFoundedOn(R, Nat)
  BY NatLessThanWellFounded DEF OpToRel
<1>2. PICK x \in S : \A y \in S : <<y, x>> \notin R
  <2> HIDE DEF R
  <2> QED BY <1>1, WFMin
<1>3. ASSUME NEW y \in S PROVE x <= y
  <2>1. <<y, x>> \in Nat \X Nat /\ ~ (y < x)  BY <1>2
  <2> QED BY <2>1
<1> QED BY <1>3

\* Induction over the naturals: a set that holds 0 and, with each number, the
\* next one holds them all.
LEMMA NatSetInduction ==
  ASSUME NEW T \in SUBSET Nat, 0 \in T, \A n \in T : n + 1 \in T
  PROVE  T = Nat
<1> SUFFICES ASSUME Nat \ T # {} PROVE FALSE
  OBVIOUS
<1>1. PICK m \in Nat \ T : \A k \in Nat \ T : m <= k
  <2>1. Nat \ T \in SUBSET Nat
    OBVIOUS
  <2> QED BY <2>1, LeastNat
<1>2. m - 1 \in Nat /\ ~ (m <= m - 1)
  BY <1>1
<1>3. m - 1 \in T
  BY <1>1, <1>2
<1>4. (m - 1) + 1 = m
  BY <1>1
<1> QED BY <1>1, <1>3, <1>4

\* Induction from the root of the schema down: a set of nodes that holds a node
\* whenever it holds its parent holds them all (token_yang.rs visits the schema
\* in this order).
LEMMA TreeInduction ==
  ASSUME NEW T \in SUBSET SNode,
         \A n \in SNode : SParent[n] \in T \cup {Top} => n \in T
  PROVE  T = SNode
<1> SUFFICES ASSUME SNode \ T # {} PROVE FALSE
  OBVIOUS
<1> DEFINE D == {Depth[n] : n \in SNode \ T}
<1>1. D \in SUBSET Nat /\ D # {}
  BY SchemaAssumption
<1>2. PICK d \in D : \A k \in D : d <= k
  <2> HIDE DEF D
  <2> QED BY <1>1, LeastNat
<1>3. PICK n \in SNode \ T : d = Depth[n]
  BY <1>2
<1>4. SParent[n] \in SNode \ T
  BY <1>3, SchemaAssumption
<1>5. Depth[SParent[n]] \in D
  BY <1>4
<1>6. Depth[SParent[n]] < Depth[n] /\ Depth[n] \in Nat /\ Depth[SParent[n]] \in Nat
  BY <1>3, <1>4, SchemaAssumption
<1> QED BY <1>2, <1>3, <1>5, <1>6

-----------------------------------------------------------------------------
\* The types of the tables, and how a row follows from the row of its parent.
LEMMA PathStep ==
  ASSUME NEW n \in SNode
  PROVE  /\ SParent[n] \in Node /\ n \in Node /\ n # Top
         /\ KeyCount[n] \in Nat
         /\ SKind[n] = "list" <=> KeyCount[n] > 0
         /\ KeyDepth[SParent[n]] \in Nat /\ KeyDepth[n] \in Nat
         /\ KeyDepth[n] = KeyDepth[SParent[n]] + KeyCount[n]
         /\ ListPath[SParent[n]] \in Seq(SNode) /\ ListPath[n] \in Seq(SNode)
         /\ SKind[n] = "list" => ListPath[n] = ListPath[SParent[n]] \o <<n>>
         /\ SKind[n] # "list" => ListPath[n] = ListPath[SParent[n]]
         /\ Ancestors[n] = Ancestors[SParent[n]] \cup {n}
<1>1. /\ SParent[n] \in Node /\ n \in Node /\ n # Top
      /\ KeyCount[n] \in Nat
      /\ SKind[n] = "list" <=> KeyCount[n] > 0
  BY SchemaAssumption DEF Node
<1>2. /\ KeyDepth[SParent[n]] \in Nat /\ KeyDepth[n] \in Nat
      /\ ListPath[SParent[n]] \in Seq(SNode) /\ ListPath[n] \in Seq(SNode)
  BY <1>1, PathAssumption DEF Node
<1>3. /\ KeyDepth[n] = KeyDepth[SParent[n]] + KeyCount[n]
      /\ Ancestors[n] = Ancestors[SParent[n]] \cup {n}
      /\ ListPath[n] = ListPath[SParent[n]] \o (IF SKind[n] = "list" THEN <<n>> ELSE << >>)
  BY PathAssumption
<1>4. ListPath[SParent[n]] \o << >> = ListPath[SParent[n]]
  BY <1>2, ConcatEmptySeq
<1> QED BY <1>1, <1>2, <1>3, <1>4

\* A list is the last element of its own path, below the lists of its parent.
LEMMA ListStep ==
  ASSUME NEW n \in SNode, SKind[n] = "list"
  PROVE  /\ Len(ListPath[n]) = Len(ListPath[SParent[n]]) + 1
         /\ ListPath[n][Len(ListPath[n])] = n
         /\ \A i \in 1..Len(ListPath[SParent[n]]) : ListPath[n][i] = ListPath[SParent[n]][i]
<1>1. ListPath[n] = ListPath[SParent[n]] \o <<n>> /\ ListPath[SParent[n]] \in Seq(SNode)
  BY PathStep
<1>2. <<n>> \in Seq(SNode) /\ Len(<<n>>) = 1 /\ <<n>>[1] = n
  OBVIOUS
<1> QED BY <1>1, <1>2, ConcatProperties

\* s is an initial segment of t.
Starts(s, t) == Len(s) <= Len(t) /\ \A i \in 1..Len(s) : s[i] = t[i]

\* Initial segments of initial segments are initial segments.
LEMMA StartsTransitive ==
  ASSUME NEW s, NEW t, NEW u, Len(s) \in Nat, Len(t) \in Nat, Len(u) \in Nat,
         Starts(s, t), Starts(t, u)
  PROVE  Starts(s, u)
<1>1. Len(s) <= Len(u)
  BY DEF Starts
<1>2. ASSUME NEW i \in 1..Len(s) PROVE s[i] = u[i]
  <2>1. i \in 1..Len(t)
    BY DEF Starts
  <2> QED BY <2>1 DEF Starts
<1> QED BY <1>1, <1>2 DEF Starts

\* The path of an ancestor starts the path of a node, and needs no more keys.
LEMMA AncestorPath ==
  ASSUME NEW n \in Node, NEW a \in Ancestors[n]
  PROVE  /\ a \in SNode
         /\ Starts(ListPath[a], ListPath[n])
         /\ KeyDepth[a] <= KeyDepth[n]
<1> DEFINE Good(m) == \A b \in Ancestors[m] :
                        /\ b \in SNode
                        /\ Starts(ListPath[b], ListPath[m])
                        /\ KeyDepth[b] <= KeyDepth[m]
           T == {m \in SNode : Good(m)}
<1>1. Good(Top)
  BY PathAssumption
<1>2. ASSUME NEW m \in SNode, SParent[m] \in T \cup {Top} PROVE m \in T
  <2>1. Good(SParent[m])
    BY <1>1, <1>2
  <2>2. SUFFICES ASSUME NEW b \in Ancestors[m]
                 PROVE  /\ b \in SNode
                        /\ Starts(ListPath[b], ListPath[m])
                        /\ KeyDepth[b] <= KeyDepth[m]
    OBVIOUS
  <2>3. CASE b = m
    <3>1. Len(ListPath[m]) \in Nat /\ KeyDepth[m] \in Nat
      BY PathStep, LenProperties
    <3> QED BY <2>3, <3>1 DEF Starts
  <2>4. CASE b \in Ancestors[SParent[m]]
    <3>1. b \in SNode /\ Starts(ListPath[b], ListPath[SParent[m]]) /\ KeyDepth[b] <= KeyDepth[SParent[m]]
      BY <2>1, <2>4
    <3>2. KeyDepth[b] <= KeyDepth[m]
      <4>1. KeyDepth[b] \in Nat
        BY <3>1, PathStep
      <4>2. /\ KeyDepth[SParent[m]] \in Nat /\ KeyCount[m] \in Nat
            /\ KeyDepth[m] = KeyDepth[SParent[m]] + KeyCount[m]
        BY PathStep
      <4> QED BY <3>1, <4>1, <4>2
    <3>3. Len(ListPath[b]) \in Nat /\ Len(ListPath[SParent[m]]) \in Nat /\ Len(ListPath[m]) \in Nat
      BY <3>1, PathStep, LenProperties
    <3>4. Starts(ListPath[SParent[m]], ListPath[m])
      <4>1. CASE SKind[m] = "list"
        BY <3>3, <4>1, ListStep DEF Starts
      <4>2. CASE SKind[m] # "list"
        <5>1. ListPath[m] = ListPath[SParent[m]]
          BY <4>2, PathStep
        <5> QED BY <3>3, <5>1 DEF Starts
      <4> QED BY <4>1, <4>2
    <3>5. Starts(ListPath[b], ListPath[m])
      BY <3>1, <3>3, <3>4, StartsTransitive
    <3> QED BY <3>1, <3>2, <3>5
  <2>5. Ancestors[m] = Ancestors[SParent[m]] \cup {m}
    BY PathStep
  <2> QED BY <2>3, <2>4, <2>5
<1>3. T = SNode
  <2> HIDE DEF T
  <2>1. T \in SUBSET SNode  BY DEF T
  <2> QED BY <1>2, <2>1, TreeInduction
<1>4. Good(n)
  BY <1>1, <1>3 DEF Node
<1> QED BY <1>4

\* Only lists take keys: a path needs as many as the innermost list on it.
LEMMA InnermostList ==
  ASSUME NEW n \in Node
  PROVE  /\ ListPath[n] \in Seq(SNode)
         /\ ListPath[n] = << >> => KeyDepth[n] = 0
         /\ ListPath[n] # << >> => KeyDepth[n] = KeyDepth[ListPath[n][Len(ListPath[n])]]
<1> DEFINE Good(m) ==
             /\ ListPath[m] \in Seq(SNode)
             /\ ListPath[m] = << >> => KeyDepth[m] = 0
             /\ ListPath[m] # << >> => KeyDepth[m] = KeyDepth[ListPath[m][Len(ListPath[m])]]
           T == {m \in SNode : Good(m)}
<1>1. Good(Top)
  BY PathAssumption
<1>2. ASSUME NEW m \in SNode, SParent[m] \in T \cup {Top} PROVE m \in T
  <2>1. Good(SParent[m])
    BY <1>1, <1>2
  <2>2. CASE SKind[m] = "list"
    <3>1. Len(ListPath[m]) = Len(ListPath[SParent[m]]) + 1 /\ ListPath[m][Len(ListPath[m])] = m
      BY <2>2, ListStep
    <3>2. ListPath[m] \in Seq(SNode) /\ Len(ListPath[SParent[m]]) \in Nat
      BY PathStep, LenProperties
    <3>3. ListPath[m] # << >>
      BY <3>1, <3>2
    <3> QED BY <3>1, <3>2, <3>3
  <2>3. CASE SKind[m] # "list"
    <3>1. ListPath[m] = ListPath[SParent[m]]
      BY <2>3, PathStep
    <3>2. KeyDepth[m] = KeyDepth[SParent[m]]
      <4>1. KeyCount[m] = 0
        <5>1. KeyCount[m] \in Nat /\ ~ (KeyCount[m] > 0)
          BY <2>3, PathStep
        <5> QED BY <5>1
      <4>2. KeyDepth[m] = KeyDepth[SParent[m]] + KeyCount[m] /\ KeyDepth[SParent[m]] \in Nat
        BY PathStep
      <4> QED BY <4>1, <4>2
    <3> QED BY <2>1, <3>1, <3>2
  <2> QED BY <2>2, <2>3
<1>3. T = SNode
  <2> HIDE DEF T
  <2>1. T \in SUBSET SNode  BY DEF T
  <2> QED BY <1>2, <2>1, TreeInduction
<1> QED BY <1>1, <1>3 DEF Node

\* The i-th list on a path is a list, an ancestor, and the end of a path of i lists.
LEMMA ListOnPath ==
  ASSUME NEW n \in Node, NEW i \in 1..Len(ListPath[n])
  PROVE  /\ ListPath[n][i] \in Ancestors[n]
         /\ ListPath[n][i] \in SNode
         /\ SKind[ListPath[n][i]] = "list"
         /\ Len(ListPath[ListPath[n][i]]) = i
<1> DEFINE Good(m) == \A j \in 1..Len(ListPath[m]) :
                        /\ ListPath[m][j] \in Ancestors[m]
                        /\ ListPath[m][j] \in SNode
                        /\ SKind[ListPath[m][j]] = "list"
                        /\ Len(ListPath[ListPath[m][j]]) = j
           T == {m \in SNode : Good(m)}
<1>1. Good(Top)
  BY PathAssumption
<1>2. ASSUME NEW m \in SNode, SParent[m] \in T \cup {Top} PROVE m \in T
  <2>1. Good(SParent[m])
    BY <1>1, <1>2
  <2>2. CASE SKind[m] = "list"
    <3> SUFFICES ASSUME NEW j \in 1..Len(ListPath[m])
                 PROVE  /\ ListPath[m][j] \in Ancestors[m]
                        /\ ListPath[m][j] \in SNode
                        /\ SKind[ListPath[m][j]] = "list"
                        /\ Len(ListPath[ListPath[m][j]]) = j
      OBVIOUS
    <3>1. Len(ListPath[SParent[m]]) \in Nat
      BY PathStep, LenProperties
    <3>2. CASE j = Len(ListPath[m])
      BY <2>2, <3>2, ListStep, PathStep
    <3>3. CASE j # Len(ListPath[m])
      <4>1. /\ Len(ListPath[m]) = Len(ListPath[SParent[m]]) + 1
            /\ \A k \in 1..Len(ListPath[SParent[m]]) : ListPath[m][k] = ListPath[SParent[m]][k]
        BY <2>2, ListStep
      <4>2. j \in 1..Len(ListPath[SParent[m]])
        BY <3>1, <3>3, <4>1
      <4>3. Ancestors[SParent[m]] \subseteq Ancestors[m]
        BY PathStep
      <4> QED BY <2>1, <4>1, <4>2, <4>3
    <3> QED BY <3>2, <3>3
  <2>3. CASE SKind[m] # "list"
    BY <2>1, <2>3, PathStep
  <2> QED BY <2>2, <2>3
<1>3. T = SNode
  <2> HIDE DEF T
  <2>1. T \in SUBSET SNode  BY DEF T
  <2> QED BY <1>2, <2>1, TreeInduction
<1>4. Good(n)
  BY <1>1, <1>3 DEF Node
<1> QED BY <1>4

-----------------------------------------------------------------------------
\* A token is a token of the schema or one of the file, never both, and no root.
LEMMA TokenShape ==
  /\ \A t \in YangToken : /\ t = <<t[1], t[2]>> /\ t[1] \in SNode /\ t[2] \in 0..NArgs(t[1])
                          /\ t \in Token /\ ~IsInternal(t)
                          /\ t \notin InternalToken /\ t \notin Roots
  /\ \A t \in InternalToken : /\ t = <<t[1], 0>> /\ t[1] \in DOMAIN Internal /\ t[2] = 0
                              /\ t \in Token /\ IsInternal(t)
                              /\ t \notin YangToken /\ t \notin Roots
  /\ \A n \in SNode, k \in Nat : k <= NArgs(n) => <<n, k>> \in YangToken
<1>1. DOMAIN Internal \cap (SNode \cup {Top} \cup Trees) = {} /\ SNode \cap Trees = {} /\ Top \notin SNode
  BY InternalAssumption, SchemaAssumption
<1>2. ASSUME NEW t \in YangToken
      PROVE  /\ t = <<t[1], t[2]>> /\ t[1] \in SNode /\ t[2] \in 0..NArgs(t[1])
             /\ t \in Token /\ ~IsInternal(t)
             /\ t \notin InternalToken /\ t \notin Roots
  <2>1. PICK n \in SNode : t \in {n} \X (0..NArgs(n))
    BY DEF YangToken
  <2>2. t = <<t[1], t[2]>> /\ t[1] = n /\ t[2] \in 0..NArgs(n)
    BY <2>1
  <2>3. t[1] \notin DOMAIN Internal /\ t[1] # Top /\ t[1] \notin Trees
    BY <1>1, <2>2
  <2> QED BY <2>2, <2>3 DEF Token, IsInternal, InternalToken, Roots, ExecRoot, YangRoot,
                            ConfigRoot, DefaultRoot, Trees
<1>3. ASSUME NEW t \in InternalToken
      PROVE  /\ t = <<t[1], 0>> /\ t[1] \in DOMAIN Internal /\ t[2] = 0
             /\ t \in Token /\ IsInternal(t)
             /\ t \notin YangToken /\ t \notin Roots
  <2>1. t = <<t[1], 0>> /\ t[1] \in DOMAIN Internal /\ t[2] = 0
    BY DEF InternalToken
  <2>2. t[1] \notin SNode /\ t[1] # Top /\ t[1] \notin Trees
    BY <1>1, <2>1
  <2>3. t \notin YangToken
    BY <1>2, <2>2
  <2> QED BY <2>1, <2>2, <2>3 DEF Token, IsInternal, Roots, ExecRoot, YangRoot,
                                  ConfigRoot, DefaultRoot, Trees
<1>4. ASSUME NEW n \in SNode, NEW k \in Nat, k <= NArgs(n) PROVE <<n, k>> \in YangToken
  <2>1. NArgs(n) \in Nat
    BY SchemaAssumption DEF NArgs
  <2>2. <<n, k>> \in {n} \X (0..NArgs(n))
    BY <1>4, <2>1
  <2> QED BY <2>2 DEF YangToken
<1> QED BY <1>2, <1>3, <1>4

\* The last token of an inner node takes the keys of the node, if any.
LEMMA InnerToken ==
  ASSUME NEW n \in SNode
  PROVE  /\ NArgs(n) \in Nat
         /\ FullToken(n) \in YangToken /\ FullToken(n)[1] = n /\ FullToken(n)[2] = NArgs(n)
         /\ SKind[n] \in Inner => NArgs(n) = KeyCount[n]
         /\ SKind[n] = "list" => NArgs(n) = KeyCount[n] /\ NArgs(n) > 0
<1>1. SKind[n] \in SchemaKind /\ KeyCount[n] \in Nat /\ (SKind[n] = "list" <=> KeyCount[n] > 0)
  BY SchemaAssumption
<1>2. NArgs(n) \in Nat /\ (SKind[n] = "list" => NArgs(n) = KeyCount[n])
  BY <1>1 DEF NArgs
<1>3. SKind[n] \in Inner => NArgs(n) = KeyCount[n]
  BY <1>1 DEF NArgs, Inner
<1>4. FullToken(n) \in YangToken /\ FullToken(n)[1] = n /\ FullToken(n)[2] = NArgs(n)
  BY <1>2, TokenShape DEF FullToken
<1> QED BY <1>1, <1>2, <1>3, <1>4

\* What lies above a token of the schema: an argument's predecessor, or the
\* last token of the parent node, which is an inner node or the root.
LEMMA AboveYang ==
  ASSUME NEW t \in YangToken
  PROVE  /\ ParentToken(t) \in YangToken \cup {YangRoot}
         /\ IsString(t) <=> t[2] > 0
         /\ HasArgument(t) <=> t[2] > 0
         /\ t[2] > 0 => /\ ParentToken(t) = <<t[1], t[2] - 1>>
                        /\ ParentToken(t)[1] = t[1] /\ ParentToken(t)[2] = t[2] - 1
                        /\ ParentToken(t) \in YangToken
         /\ t[2] = 0 => /\ ParentToken(t) = FullToken(SParent[t[1]])
                        /\ ParentToken(t)[1] = SParent[t[1]]
                        /\ SParent[t[1]] = Top => ParentToken(t) = YangRoot
                        /\ SParent[t[1]] # Top => /\ SParent[t[1]] \in SNode
                                                  /\ SKind[SParent[t[1]]] \in Inner
                                                  /\ ParentToken(t) \in YangToken
<1>1. /\ t = <<t[1], t[2]>> /\ t[1] \in SNode /\ t[2] \in 0..NArgs(t[1]) /\ ~IsInternal(t)
      /\ NArgs(t[1]) \in Nat
  BY TokenShape, InnerToken
<1>2. (IsString(t) <=> t[2] > 0) /\ (HasArgument(t) <=> t[2] > 0)
  BY <1>1 DEF IsString, HasArgument
<1>3. ASSUME t[2] > 0
      PROVE  /\ ParentToken(t) = <<t[1], t[2] - 1>>
             /\ <<t[1], t[2] - 1>> \in YangToken
  <2>1. t[2] - 1 \in Nat /\ t[2] - 1 <= NArgs(t[1])
    BY <1>1, <1>3
  <2> QED BY <1>1, <1>3, <2>1, TokenShape DEF ParentToken
<1>4. ASSUME t[2] = 0
      PROVE  /\ ParentToken(t) = FullToken(SParent[t[1]])
             /\ SParent[t[1]] = Top => FullToken(SParent[t[1]]) = YangRoot
             /\ SParent[t[1]] # Top => /\ SParent[t[1]] \in SNode
                                       /\ SKind[SParent[t[1]]] \in Inner
                                       /\ FullToken(SParent[t[1]]) \in YangToken
             /\ FullToken(SParent[t[1]])[1] = SParent[t[1]]
  <2>1. ParentToken(t) = FullToken(SParent[t[1]])
    BY <1>1, <1>4 DEF ParentToken
  <2>2. SParent[t[1]] \in SNode \cup {Top} /\ (SParent[t[1]] # Top => SKind[SParent[t[1]]] \in Inner)
    BY <1>1, SchemaAssumption
  <2>3. NArgs(Top) = 0
    BY SchemaAssumption DEF NArgs
  <2>4. SParent[t[1]] = Top => FullToken(SParent[t[1]]) = YangRoot
    BY <2>3 DEF FullToken, YangRoot
  <2> QED BY <2>1, <2>2, <2>4, InnerToken DEF FullToken
<1> QED BY <1>1, <1>2, <1>3, <1>4

\* What lies above a token of the file: a token of the same tree, or its root.
LEMMA AboveInternal ==
  ASSUME NEW t \in InternalToken
  PROVE  LET c == t[1] IN
         /\ ParentToken(t) = <<Internal[c].parent, 0>>
         /\ \/ /\ ParentToken(t) \in InternalToken
               /\ Internal[c].tree = Internal[ParentToken(t)[1]].tree
            \/ /\ ParentToken(t) \in {ExecRoot, ConfigRoot, DefaultRoot}
               /\ Internal[c].tree = ParentToken(t)[1]
<1> DEFINE c == t[1]
<1>1. c \in DOMAIN Internal /\ ParentToken(t) = <<Internal[c].parent, 0>>
  BY TokenShape DEF ParentToken
<1>2. Internal[c] \in InternalRecord
  BY <1>1, InternalAssumption
<1>3. Internal[c].parent \in DOMAIN Internal \cup Trees
  BY <1>2 DEF InternalRecord
<1>4. CASE Internal[c].parent \in Trees
  <2>1. Internal[c].tree = Internal[c].parent
    BY <1>1, <1>4, InternalAssumption
  <2> QED BY <1>1, <1>4, <2>1 DEF Trees, ExecRoot, ConfigRoot, DefaultRoot
<1>5. CASE Internal[c].parent \notin Trees
  <2>1. Internal[c].tree = Internal[Internal[c].parent].tree
    BY <1>1, <1>5, InternalAssumption
  <2>2. <<Internal[c].parent, 0>> \in InternalToken
    BY <1>3, <1>5 DEF InternalToken
  <2> QED BY <1>1, <2>1, <2>2
<1> QED BY <1>4, <1>5

\* The four roots are four, and the lookup at a token finds tokens below it or,
\* where commands of the file are offered, below a root of the file.
LEMMA RootsDiffer ==
  /\ YangRoot \notin {ExecRoot, ConfigRoot, DefaultRoot}
  /\ ExecRoot \notin {ConfigRoot, DefaultRoot}
  /\ YangRoot[1] = Top /\ ExecRoot[1] = "exec"
BY SchemaAssumption DEF Trees, YangRoot, ExecRoot, ConfigRoot, DefaultRoot

\* A word that selects a token selects a child of the current token, or an
\* internal command offered beside the children.
LEMMA LookupFinds ==
  ASSUME NEW c, NEW add, NEW w, NEW t \in Selected(c, add, w)
  PROVE  /\ t \in Token /\ TokenName(t) \in Word
         /\ \/ ParentToken(t) = c
            \/ add /\ ParentToken(t) \in {ConfigRoot, DefaultRoot}
<1>1. t \in GetTokens(c, add)
  BY DEF Selected, Chosen, MatchingTokens
<1>2. /\ t \in Token
      /\ \/ ParentToken(t) = c
         \/ add /\ ParentToken(t) \in {ConfigRoot, DefaultRoot}
  BY <1>1 DEF GetTokens, OfferedParents
<1>3. TokenName(t) \in Word
  <2>1. CASE t \in YangToken
    BY <2>1, TokenShape, SchemaAssumption DEF TokenName
  <2>2. CASE t \in InternalToken
    <3>1. t[1] \in DOMAIN Internal /\ IsInternal(t)
      BY <2>2, TokenShape
    <3>2. Internal[t[1]] \in InternalRecord
      BY <3>1, InternalAssumption
    <3> QED BY <3>1, <3>2 DEF TokenName, InternalRecord
  <2> QED BY <1>2, <2>1, <2>2 DEF Token
<1> QED BY <1>2, <1>3

\* A word selects one token at most: the only one that matches, or the one
\* created first of those it names exactly.
LEMMA SelectedUnique ==
  ASSUME NEW c, NEW add, NEW w, NEW u \in Selected(c, add, w), NEW v \in Selected(c, add, w)
  PROVE  u = v
<1> DEFINE M == MatchingTokens(c, add, w)
<1>1. /\ u \in Token /\ v \in Token /\ u \in M /\ v \in M
      /\ ParentToken(u) \in OfferedParents(c, add) /\ ParentToken(v) \in OfferedParents(c, add)
  BY DEF Selected, Chosen, MatchingTokens, GetTokens
<1>2. \A t \in Token : /\ t[1] \in SNode \cup DOMAIN Internal /\ Order[t[1]] \in Nat
                       /\ t[1] \in SNode => t \in YangToken
                       /\ t[1] \notin SNode => t = <<t[1], 0>>
  <2>1. DOMAIN Internal \cap SNode = {}
    BY InternalAssumption
  <2>2. ASSUME NEW t \in Token
        PROVE  /\ t[1] \in SNode \cup DOMAIN Internal
               /\ t[1] \in SNode => t \in YangToken
               /\ t[1] \notin SNode => t = <<t[1], 0>>
    BY <2>1, TokenShape DEF Token
  <2> QED BY <2>2, SchemaAssumption
<1>3. u = v \/ u[1] = v[1]
  <2>1. CASE M = {u} \/ M = {v}
    BY <1>1, <2>1
  <2>2. CASE M # {u} /\ M # {v}
    <3>1. /\ MatchesExactly(u, w) /\ MatchesExactly(v, w)
          /\ Order[u[1]] <= Order[v[1]] /\ Order[v[1]] <= Order[u[1]]
      BY <1>1, <2>2 DEF Selected, Chosen
    <3>2. Order[u[1]] = Order[v[1]]
      BY <1>1, <1>2, <3>1
    <3> QED BY <1>1, <1>2, <3>2, OrderAssumption
  <2> QED BY <2>1, <2>2
<1>4. ASSUME u[1] = v[1], u[1] \in SNode PROVE u = v
  <2>1. u \in YangToken /\ v \in YangToken
    BY <1>1, <1>2, <1>4
  <2>2. ParentToken(u) = c /\ ParentToken(v) = c
    <3>1. /\ ParentToken(u) \in YangToken \cup {YangRoot} /\ ParentToken(v) \in YangToken \cup {YangRoot}
          /\ ConfigRoot \notin YangToken \cup {YangRoot} /\ DefaultRoot \notin YangToken \cup {YangRoot}
      BY <2>1, AboveYang, TokenShape, RootsDiffer DEF Roots
    <3> QED BY <1>1, <3>1 DEF OfferedParents
  <2>3. /\ u = <<u[1], u[2]>> /\ v = <<u[1], v[2]>> /\ u[2] \in Nat /\ v[2] \in Nat
    <3>1. /\ u = <<u[1], u[2]>> /\ v = <<v[1], v[2]>>
          /\ u[2] \in 0..NArgs(u[1]) /\ v[2] \in 0..NArgs(u[1])
          /\ NArgs(u[1]) \in Nat
      BY <1>4, <2>1, TokenShape, InnerToken
    <3> QED BY <1>4, <3>1
  <2>4. SParent[u[1]] # u[1]
    <3>1. /\ Depth[SParent[u[1]]] < Depth[u[1]] /\ Depth[u[1]] \in Nat
      BY <1>4, SchemaAssumption
    <3> QED BY <3>1
  <2>5. CASE u[2] > 0 /\ v[2] > 0
    <3>1. c[2] = u[2] - 1 /\ c[2] = v[2] - 1
      BY <2>1, <2>2, <2>5, AboveYang
    <3> QED BY <2>3, <3>1
  <2>6. CASE (u[2] > 0 /\ v[2] = 0) \/ (u[2] = 0 /\ v[2] > 0)
    <3>1. c[1] = u[1] /\ c[1] = SParent[u[1]]
      BY <1>4, <2>1, <2>2, <2>6, AboveYang
    <3> QED BY <2>4, <3>1
  <2>7. CASE u[2] = 0 /\ v[2] = 0
    BY <2>3, <2>7
  <2> QED BY <2>3, <2>5, <2>6, <2>7
<1>5. ASSUME u[1] = v[1], u[1] \notin SNode PROVE u = v
  BY <1>1, <1>2, <1>5
<1> QED BY <1>3, <1>4, <1>5

\* A word that names one of the tokens exactly selects one of them.
LEMMA ExactIsChosen ==
  ASSUME NEW M \in SUBSET Token, NEW w, NEW u \in M, MatchesExactly(u, w)
  PROVE  Chosen(M, w) # {}
<1> DEFINE E == {v \in M : MatchesExactly(v, w)}
           D == {Order[v[1]] : v \in E}
<1>1. \A v \in Token : Order[v[1]] \in Nat
  <2>1. \A v \in Token : v[1] \in SNode \cup DOMAIN Internal
    BY TokenShape DEF Token
  <2> QED BY <2>1, SchemaAssumption
<1>2. D \in SUBSET Nat /\ D # {}
  BY <1>1
<1>3. PICK d \in D : \A k \in D : d <= k
  <2> HIDE DEF D
  <2> QED BY <1>2, LeastNat
<1>4. PICK v \in E : d = Order[v[1]]
  BY <1>3
<1>5. \A x \in M : MatchesExactly(x, w) => Order[v[1]] <= Order[x[1]]
  BY <1>3, <1>4
<1>6. v \in Chosen(M, w)
  BY <1>4, <1>5 DEF Chosen
<1> QED BY <1>6

\* The name of a token that is offered selects a token, and so does any word
\* where a string token is.
LEMMA NameSelects ==
  ASSUME NEW t, NEW add, NEW u \in GetTokens(t, add), NEW s, s = TokenName(u) \/ IsString(u)
  PROVE  Selected(t, add, s) # {}
<1>1. u \in Token
  BY DEF GetTokens
<1>2. <<TokenName(u), TokenName(u)>> \in Abbrev
  <2>1. CASE u \in YangToken
    BY <2>1, TokenShape, WordAssumption DEF TokenName
  <2>2. CASE u \in InternalToken
    BY <2>2, TokenShape, WordAssumption DEF TokenName
  <2> QED BY <1>1, <2>1, <2>2 DEF Token
<1>3. Matches(u, s) /\ MatchesExactly(u, s)
  BY <1>2 DEF Matches, MatchesExactly
<1>4. u \in MatchingTokens(t, add, s) /\ MatchingTokens(t, add, s) \in SUBSET Token
  BY <1>3 DEF MatchingTokens, GetTokens
<1> QED BY <1>3, <1>4, ExactIsChosen DEF Selected

-----------------------------------------------------------------------------
(***************************************************************************)
(* Ancestors.                                                               *)
(***************************************************************************)

\* The ancestors of a node are a chain, each with its own ancestors.
LEMMA AncestorChain ==
  ASSUME NEW n \in Node, NEW a \in Ancestors[n]
  PROVE  /\ a \in SNode /\ Ancestors[a] \subseteq Ancestors[n]
         /\ \A b \in Ancestors[n] : a \in Ancestors[b] \/ b \in Ancestors[a]
<1> DEFINE T == {m \in SNode : \A c \in Ancestors[m] :
                   /\ Ancestors[c] \subseteq Ancestors[m]
                   /\ \A b \in Ancestors[m] : c \in Ancestors[b] \/ b \in Ancestors[c]}
<1>1. ASSUME NEW m \in SNode, SParent[m] \in T \cup {Top} PROVE m \in T
  <2>1. Ancestors[m] = Ancestors[SParent[m]] \cup {m}
    BY PathStep
  <2>2. CASE SParent[m] = Top
    BY <2>1, <2>2, PathAssumption
  <2>3. CASE SParent[m] \in T
    BY <2>1, <2>3
  <2> QED BY <1>1, <2>2, <2>3
<1>2. T = SNode
  <2> HIDE DEF T
  <2>1. T \in SUBSET SNode
    BY DEF T
  <2> QED BY <1>1, <2>1, TreeInduction
<1>3. n \in SNode
  BY PathAssumption DEF Node
<1>4. n \in T
  BY <1>2, <1>3
<1> QED BY <1>4, AncestorPath

\* Ancestors are not deeper than their descendants.
LEMMA AncestorDepth ==
  ASSUME NEW n \in SNode, NEW a \in Ancestors[n]
  PROVE  a \in SNode /\ Depth[a] <= Depth[n]
<1> DEFINE T == {m \in SNode : \A b \in Ancestors[m] : Depth[b] <= Depth[m]}
<1>1. ASSUME NEW m \in SNode, SParent[m] \in T \cup {Top} PROVE m \in T
  <2>1. /\ Ancestors[m] = Ancestors[SParent[m]] \cup {m} /\ Ancestors[m] \subseteq SNode
        /\ Depth[m] \in Nat /\ Depth[SParent[m]] \in Nat /\ Depth[SParent[m]] < Depth[m]
        /\ \A b \in SNode : Depth[b] \in Nat
    BY PathStep, PathAssumption, SchemaAssumption
  <2>2. CASE SParent[m] = Top
    BY <2>1, <2>2, PathAssumption
  <2>3. CASE SParent[m] \in T
    BY <2>1, <2>3
  <2> QED BY <1>1, <2>1, <2>2, <2>3
<1>2. T = SNode
  <2> HIDE DEF T
  <2>1. T \in SUBSET SNode
    BY DEF T
  <2> QED BY <1>1, <2>1, TreeInduction
<1>3. n \in T /\ a \in SNode
  BY <1>2, PathAssumption
<1> QED BY <1>3

\* Two nodes that are ancestors of one another are one.
LEMMA SameNode ==
  ASSUME NEW m \in SNode, NEW n \in SNode, m \in Ancestors[n], n \in Ancestors[m]
  PROVE  m = n
<1> SUFFICES ASSUME m # n PROVE FALSE
  OBVIOUS
<1>1. m \in Ancestors[SParent[n]]
  BY PathStep
<1>2. /\ SParent[n] \in SNode \cup {Top} /\ Depth[SParent[n]] < Depth[n]
      /\ Depth[SParent[n]] \in Nat /\ Depth[n] \in Nat /\ Depth[m] \in Nat
  BY SchemaAssumption
<1>3. SParent[n] # Top
  BY <1>1, PathAssumption
<1>4. Depth[m] <= Depth[SParent[n]] /\ Depth[n] <= Depth[m]
  BY <1>1, <1>2, <1>3, AncestorDepth
<1> QED BY <1>2, <1>4

\* The beginning of the beginning of a sequence.
LEMMA Beginning ==
  ASSUME NEW s, NEW m \in Nat, NEW n \in Nat, m <= n
  PROVE  SubSeq(SubSeq(s, 1, n), 1, m) = SubSeq(s, 1, m)
<1> DEFINE S == {s[i] : i \in 1..n}
           u == SubSeq(s, 1, n)
<1>1. /\ Len(u) = n /\ \A i \in 1..n : u[i] = s[i]
  BY SubSeqProperties
<1>2. \A i \in 1..m : s[i] \in S /\ u[i] = s[i]
  BY <1>1
<1> HIDE DEF S, u
<1>3. /\ SubSeq(s, 1, m) \in Seq(S) /\ Len(SubSeq(s, 1, m)) = m
      /\ \A i \in 1..m : SubSeq(s, 1, m)[i] = s[i]
  BY <1>2, SubSeqProperties
<1>4. /\ SubSeq(u, 1, m) \in Seq(S) /\ Len(SubSeq(u, 1, m)) = m
      /\ \A i \in 1..m : SubSeq(u, 1, m)[i] = u[i]
  BY <1>2, SubSeqProperties
<1>5. SubSeq(u, 1, m) = SubSeq(s, 1, m)
  BY <1>2, <1>3, <1>4, SeqEqual
<1> QED BY <1>5 DEF u

-----------------------------------------------------------------------------
(***************************************************************************)
(* What a line means at a level: at most one reading after each word.       *)
(***************************************************************************)

\* The readings of a line are computed word by word, as the loop of
\* parse_command_try does.
LEMMA ReadingsStep ==
  ASSUME NEW level, NEW config, NEW words \in Seq(Word)
  PROVE  LET R == ReadingsAfter(level, config, words) IN
         /\ R[0] = {NothingRead(level)}
         /\ \A i \in 1..Len(words) : R[i] = TakingWord(R[i - 1], config, words[i], i = 1)
<1> DEFINE R == ReadingsAfter(level, config, words)
           Next(g, i) == IF i = 0 THEN {NothingRead(level)}
                         ELSE TakingWord(g[i - 1], config, words[i], i = 1)
           T == {m \in Nat : \E g : g = [i \in 0..m |-> Next(g, i)]}
<1>1. 0 \in T
  <2>1. [i \in 0..0 |-> {NothingRead(level)}] = [i \in 0..0 |-> Next([j \in 0..0 |-> {NothingRead(level)}], i)]
    OBVIOUS
  <2> QED BY <2>1
<1>2. ASSUME NEW m \in T PROVE m + 1 \in T
  <2>1. PICK g : g = [i \in 0..m |-> Next(g, i)]
    OBVIOUS
  <2> DEFINE h == [i \in 0..(m + 1) |-> IF i = m + 1 THEN Next(g, m + 1) ELSE g[i]]
  <2>2. ASSUME NEW i \in 0..(m + 1) PROVE h[i] = Next(h, i)
    <3>1. CASE i = m + 1
      <4>1. m \in 0..(m+1) /\ m # m + 1 /\ i - 1 = m /\ i # 0
        BY <3>1
      <4>2. h[i - 1] = g[i - 1] /\ h[i] = Next(g, i)
        BY <4>1, <3>1
      <4> HIDE DEF h
      <4> QED BY <4>1, <4>2
    <3>2. CASE i # m + 1
      <4>1. i \in 0..m
        BY <3>2
      <4>2. g[i] = Next(g, i) 
        BY <2>1, <4>1
      <4>3. h[i] = g[i]
        BY <3>2
      <4>4. i # 0 => h[i-1] = g[i-1]
        BY <4>1
      <4> HIDE DEF h
      <4> QED BY <4>2, <4>3, <4>4
    <3> QED BY <3>1, <3>2
  <2>3. h = [i \in 0..(m + 1) |-> h[i]]
    OBVIOUS
  <2>4. h = [i \in 0..(m + 1) |-> Next(h, i)]
    <3> HIDE DEF h, Next
    <3> QED BY <2>2, <2>3
  <2>5. m + 1 \in Nat
    OBVIOUS
  <2> HIDE DEF h, Next
  <2> QED BY <2>4, <2>5
<1>3. T = Nat
  <2> HIDE DEF T
  <2>1. T \in SUBSET Nat
    BY DEF T
  <2> QED BY <1>1, <1>2, <2>1, NatSetInduction
<1>4. Len(words) \in Nat
  BY LenProperties
<1>5. \E g : g = [i \in 0..Len(words) |-> Next(g, i)]
  BY <1>3, <1>4
<1>6. R = [i \in 0..Len(words) |-> Next(R, i)]
  BY <1>5 DEF ReadingsAfter
<1> HIDE DEF R
<1>7. R[0] = {NothingRead(level)}
  BY <1>4, <1>6
<1>8. ASSUME NEW i \in 1..Len(words)
      PROVE  R[i] = TakingWord(R[i - 1], config, words[i], i = 1)
  <2>1. i \in 0..Len(words) /\ i # 0
    BY <1>4
  <2> HIDE DEF Next
  <2>2. R[i] = Next(R, i)
    BY <1>6, <2>1
  <2> QED BY <2>1, <2>2 DEF Next
<1> QED BY <1>7, <1>8 DEF R

\* A reading is at the level it started from, at a token that was selected there
\* or at that level itself.
ReadingType(level) ==
  [level : {level}, token : Token \cup {level}, negate : BOOLEAN, args : Seq(Word)]

\* One more word makes a reading from a reading.
LEMMA TakingType ==
  ASSUME NEW level, NEW c \in ReadingType(level), NEW t \in Token, TokenName(t) \in Word,
         NEW word \in Word, NEW first
  PROVE  Taking(c, t, word, first) \in ReadingType(level)
<1>1. c.args \in Seq(Word) /\ c.level = level
  BY DEF ReadingType
<1>2. \A x \in Word : Append(c.args, x) \in Seq(Word)
  BY <1>1, AppendProperties
<1>3. CASE first /\ TokenName(t) = "no"
  BY <1>3 DEF Taking, ReadingType
<1>4. CASE ~(first /\ TokenName(t) = "no")
  <2> DEFINE args == IF ~HasArgument(t) THEN c.args
                     ELSE Append(c.args, IF IsString(t) THEN word ELSE TokenName(t))
  <2>1. args \in Seq(Word)
    BY <1>1, <1>2
  <2>2. Taking(c, t, word, first) = [c EXCEPT !.token = t, !.args = args]
    BY <1>4 DEF Taking, ReadingType
  <2> HIDE DEF args
  <2> QED BY <2>1, <2>2 DEF ReadingType
<1> QED BY <1>3, <1>4

\* After each word there is one reading at most, and it has that shape.
LEMMA ReadingShape ==
  ASSUME NEW level, NEW config, NEW words \in Seq(Word), NEW i \in 0..Len(words)
  PROVE  LET R == ReadingsAfter(level, config, words)[i] IN
         R \subseteq ReadingType(level) /\ \A c, d \in R : c = d
<1> DEFINE R == ReadingsAfter(level, config, words)
           Good(k) == R[k] \subseteq ReadingType(level) /\ \A c, d \in R[k] : c = d
           T == {k \in Nat : k <= Len(words) => Good(k)}
<1>1. Len(words) \in Nat
  BY LenProperties
<1>2. 0 \in T
  <2>1. R[0] = {NothingRead(level)}
    BY ReadingsStep
  <2>2. NothingRead(level) \in ReadingType(level)
    BY EmptySeq DEF NothingRead, ReadingType
  <2> HIDE DEF R
  <2>3. Good(0)
    BY <2>1, <2>2
  <2> QED BY <2>3
<1>3. ASSUME NEW k \in T PROVE k + 1 \in T
  <2> SUFFICES ASSUME k + 1 <= Len(words) PROVE Good(k + 1)
    OBVIOUS
  <2>1. k + 1 \in 1..Len(words) /\ (k + 1) - 1 = k /\ k <= Len(words) /\ words[k + 1] \in Word
    BY <1>1, ElementOfSeq
  <2>2. Good(k)
    BY <2>1
  <2>3. R[k + 1] = TakingWord(R[k], config, words[k + 1], k + 1 = 1)
    BY <2>1, ReadingsStep
  <2> HIDE DEF R
  <2>4. ASSUME NEW d \in R[k + 1]
        PROVE  \E c \in R[k], t \in Token :
                 /\ TokenName(t) \in Word
                 /\ t \in Selected(c.token, k + 1 = 1 /\ config, words[k + 1])
                 /\ d = Taking(c, t, words[k + 1], k + 1 = 1)
    BY <2>3, LookupFinds DEF TakingWord
  <2>5. R[k + 1] \subseteq ReadingType(level)
    BY <2>1, <2>2, <2>4, TakingType
  <2>6. ASSUME NEW d \in R[k + 1], NEW e \in R[k + 1] PROVE d = e
    BY <2>2, <2>4, SelectedUnique
  <2> QED BY <2>5, <2>6
<1>4. T = Nat
  <2> HIDE DEF T
  <2>1. T \in SUBSET Nat
    BY DEF T
  <2> QED BY <1>2, <1>3, <2>1, NatSetInduction
<1>5. i \in T /\ i <= Len(words)
  BY <1>1, <1>4
<1> QED BY <1>5

\* Words that the parser does not get through are not made good by later ones.
LEMMA NoReading ==
  ASSUME NEW level, NEW config, NEW words \in Seq(Word), NEW i \in 0..Len(words),
         ReadingsAfter(level, config, words)[i] = {}
  PROVE  \A j \in i..Len(words) : ReadingsAfter(level, config, words)[j] = {}
<1> DEFINE R == ReadingsAfter(level, config, words)
           T == {k \in Nat : i <= k /\ k <= Len(words) => R[k] = {}}
<1>1. Len(words) \in Nat
  BY LenProperties
<1>2. R[i] = {}
  OBVIOUS
<1>3. 0 \in T
  BY <1>2
<1>4. ASSUME NEW k \in T PROVE k + 1 \in T
  <2> SUFFICES ASSUME i <= k + 1, k + 1 <= Len(words) PROVE R[k + 1] = {}
    OBVIOUS
  <2>1. CASE i = k + 1
    BY <1>2, <2>1
  <2>2. CASE i # k + 1
    <3>1. k + 1 \in 1..Len(words) /\ (k + 1) - 1 = k /\ i <= k /\ k <= Len(words)
      BY <1>1, <2>2
    <3>2. R[k] = {}
      BY <3>1
    <3>3. R[k + 1] = TakingWord(R[k], config, words[k + 1], k + 1 = 1)
      BY <3>1, ReadingsStep
    <3> HIDE DEF R
    <3> QED BY <3>2, <3>3 DEF TakingWord
  <2> QED BY <2>1, <2>2
<1>5. T = Nat
  <2> HIDE DEF T
  <2>1. T \in SUBSET Nat
    BY DEF T
  <2> QED BY <1>3, <1>4, <2>1, NatSetInduction
<1> QED BY <1>1, <1>5

\* What was read of the first words does not depend on the words after them.
LEMMA SameBeginning ==
  ASSUME NEW level, NEW config, NEW s \in Seq(Word), NEW t \in Seq(Word),
         NEW i \in 0..Len(s), i <= Len(t), \A j \in 1..i : s[j] = t[j]
  PROVE  ReadingsAfter(level, config, s)[i] = ReadingsAfter(level, config, t)[i]
<1> DEFINE R == ReadingsAfter(level, config, s)
           Q == ReadingsAfter(level, config, t)
           T == {k \in Nat : k <= i => R[k] = Q[k]}
<1>1. Len(s) \in Nat /\ Len(t) \in Nat
  BY LenProperties
<1>2. 0 \in T
  <2>1. R[0] = {NothingRead(level)} /\ Q[0] = {NothingRead(level)}
    BY ReadingsStep
  <2> HIDE DEF R, Q
  <2> QED BY <2>1
<1>3. ASSUME NEW k \in T PROVE k + 1 \in T
  <2> SUFFICES ASSUME k + 1 <= i PROVE R[k + 1] = Q[k + 1]
    OBVIOUS
  <2>1. /\ k + 1 \in 1..i /\ k + 1 \in 1..Len(s) /\ k + 1 \in 1..Len(t)
        /\ (k + 1) - 1 = k /\ k <= i
    BY <1>1
  <2>2. R[k] = Q[k] /\ s[k + 1] = t[k + 1]
    BY <2>1
  <2>3. /\ R[k + 1] = TakingWord(R[k], config, s[k + 1], k + 1 = 1)
        /\ Q[k + 1] = TakingWord(Q[k], config, t[k + 1], k + 1 = 1)
    BY <2>1, ReadingsStep
  <2> HIDE DEF R, Q
  <2> QED BY <2>2, <2>3
<1>4. T = Nat
  <2> HIDE DEF T
  <2>1. T \in SUBSET Nat
    BY DEF T
  <2> QED BY <1>2, <1>3, <2>1, NatSetInduction
<1>5. i \in T
  BY <1>1, <1>4
<1> QED BY <1>5
=============================================================================
