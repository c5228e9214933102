----------------------------- MODULE CliProofs -----------------------------
(***************************************************************************)
(* The inductive invariant of the session, for every schema, every command  *)
(* file and every set of lines, and what follows from it: that no line      *)
(* panics, that the prompt follows the mode, that an edit stays in the      *)
(* entry at whose level it was found, and that nothing but a refused        *)
(* command takes the CLI into an entry that is not in the candidate.        *)
(***************************************************************************)
EXTENDS Cli, CommandTreeProofs

IInv == /\ TypeOK
        /\ StackIsPath
        /\ ScopeMatchesStack
        /\ WalkMatchesStack
        /\ TokenOfMode
        /\ CandidateInConfigure

-----------------------------------------------------------------------------
(***************************************************************************)
(* Types.                                                                   *)
(***************************************************************************)

\* A host name comes from the hostname leaf, or is the default.
LEMMA HostnameType ==
  ASSUME NEW cfg \in Config
  PROVE  HostnameOf(cfg) \in Host
<1>1. CASE At(cfg, HostLeaf, << >>) = {}
  BY <1>1 DEF HostnameOf, Host
<1>2. CASE At(cfg, HostLeaf, << >>) # {}
  <2>1. (CHOOSE e \in At(cfg, HostLeaf, << >>) : TRUE) \in At(cfg, HostLeaf, << >>)
    BY <1>2
  <2>2. At(cfg, HostLeaf, << >>) \subseteq Entry
    BY DEF At, Config
  <2> QED BY <1>2, <2>1, <2>2 DEF HostnameOf, Host, Entry
<1> QED BY <1>1, <1>2

\* A mode has a flag and a stack of CLI nodes.
LEMMA ModeParts ==
  ASSUME NEW m \in CommandMode
  PROVE  /\ m.config \in BOOLEAN /\ m.nodes \in Seq(CliNode) /\ Len(m.nodes) \in Nat
         /\ DOMAIN m.nodes = 1..Len(m.nodes)
         /\ m.nodes # << >> => /\ Len(m.nodes) \in 1..Len(m.nodes) /\ Len(m.nodes) > 0
                               /\ Last(m.nodes) \in CliNode
                               /\ Last(m.nodes) = m.nodes[Len(m.nodes)]
         /\ \A i \in 1..Len(m.nodes) : m.nodes[i] \in CliNode
<1>1. m.config \in BOOLEAN /\ m.nodes \in Seq(CliNode)
  BY DEF CommandMode
<1>2. Len(m.nodes) \in Nat /\ DOMAIN m.nodes = 1..Len(m.nodes)
  BY <1>1, LenProperties
<1>3. \A i \in 1..Len(m.nodes) : m.nodes[i] \in CliNode
  BY <1>1, ElementOfSeq
<1>4. ASSUME m.nodes # << >> PROVE Len(m.nodes) \in 1..Len(m.nodes) /\ Len(m.nodes) > 0
  <2>1. Len(m.nodes) \in Nat \ {0}
    BY <1>1, <1>4, EmptySeq
  <2> QED BY <2>1
<1> QED BY <1>1, <1>2, <1>3, <1>4 DEF Last

\* update_prompt builds a prompt from any host name and mode.
LEMMA PromptType ==
  ASSUME NEW h \in Host, NEW m \in CommandMode
  PROVE  PromptOf(h, m) \in Prompt
<1>1. CASE m.nodes = << >>
  BY <1>1, ModeParts DEF PromptOf, Prompt
<1>2. CASE m.nodes # << >>
  <2>1. Last(m.nodes) \in CliNode
    BY <1>2, ModeParts
  <2>2. <<Last(m.nodes)>> \in Seq(CliNode)
    BY <2>1
  <2> QED BY <1>2, <2>2, ModeParts DEF PromptOf, Prompt
<1> QED BY <1>1, <1>2

\* Entering configuration mode with a stack gives a mode.
LEMMA ConfigureType ==
  ASSUME NEW nodes \in Seq(CliNode)
  PROVE  /\ Configure(nodes) \in CommandMode
         /\ Configure(nodes).config /\ Configure(nodes).nodes = nodes
         /\ Operational \in CommandMode /\ ~Operational.config /\ Operational.nodes = << >>
BY DEF Configure, Operational, CommandMode

\* Whether a CLI node fits depends on the nodes up to it alone.
LEMMA SamePrefix ==
  ASSUME NEW s, NEW t, NEW i \in Nat \ {0}, \A j \in 1..i : s[j] = t[j], NodeFits(s, i)
  PROVE  NodeFits(t, i)
<1>1. s[i] = t[i] /\ (i > 1 => s[i - 1] = t[i - 1])
  OBVIOUS
<1>2. \A j \in 1..i : s[j] = t[j]
  OBVIOUS
<1>3. NodeFits(s, i)
  OBVIOUS
<1> QED BY <1>1, <1>2, <1>3 DEF NodeFits

\* mode_config_exit with a CLI node to leave keeps a path a path.
LEMMA PopKeepsPath ==
  ASSUME NEW m \in CommandMode, IsPath(m.nodes), m.nodes # << >>
  PROVE  /\ PopNode(m) \in CommandMode /\ PopNode(m).config
         /\ IsPath(PopNode(m).nodes)
         /\ Len(PopNode(m).nodes) = Len(m.nodes) - 1
         /\ \A i \in 1..(Len(m.nodes) - 1) : PopNode(m).nodes[i] = m.nodes[i]
<1> DEFINE front == Front(m.nodes)
<1>1. PopNode(m) = Configure(front)
  BY DEF PopNode
<1>2. Len(m.nodes) \in Nat /\ Len(m.nodes) > 0 /\ \A i \in 1..Len(m.nodes) : m.nodes[i] \in CliNode
  BY ModeParts
<1>3. front = SubSeq(m.nodes, 1, Len(m.nodes) - 1)
  BY DEF Front
<1>4. /\ front \in Seq(CliNode) /\ Len(front) = Len(m.nodes) - 1
      /\ \A i \in 1..(Len(m.nodes) - 1) : front[i] = m.nodes[i]
  <2> HIDE DEF front
  <2>1. \A i \in 1..(Len(m.nodes) - 1) : m.nodes[i] \in CliNode
    BY <1>2
  <2>2. front = SubSeq(m.nodes, 1, Len(m.nodes) - 1) /\ Len(m.nodes) - 1 \in Nat
    BY <1>2, <1>3
  <2>3. m.nodes \in Seq(CliNode)
    BY ModeParts
  <2> QED BY <1>2, <2>1, <2>2, <2>3, SubSeqProperties
<1>5. IsPath(front)
  <2> HIDE DEF front
  <2>1. DOMAIN front = 1..Len(front) /\ DOMAIN m.nodes = 1..Len(m.nodes)
    BY <1>4, LenProperties, ModeParts
  <2>2. ASSUME NEW i \in 1..Len(front) PROVE NodeFits(front, i)
    <3>1. NodeFits(m.nodes, i)
      BY <1>2, <1>4, <2>1 DEF IsPath
    <3>2. i \in Nat \ {0} /\ \A j \in 1..i : m.nodes[j] = front[j]
      BY <1>2, <1>4
    <3> QED BY <3>1, <3>2, SamePrefix
  <2> QED BY <2>1, <2>2 DEF IsPath
<1> QED BY <1>1, <1>4, <1>5, ConfigureType

-----------------------------------------------------------------------------
(***************************************************************************)
(* Levels and lookup.                                                       *)
(***************************************************************************)

\* At the token of a level - the root, or the last token of an inner node - the
\* arguments passed are the keys of the lists down to it.
LEMMA LevelToken ==
  ASSUME NEW t, t = YangRoot \/ \E n \in SNode : SKind[n] \in Inner /\ t = FullToken(n)
  PROVE  /\ t \in YangToken \cup {YangRoot} /\ t[1] \in Node
         /\ ArgDepth(t) = KeyDepth[t[1]] /\ KeyDepth[t[1]] \in Nat
         /\ t[1] = Top \/ t[1] \in Ancestors[t[1]]
<1>1. CASE t = YangRoot
  <2>1. t[1] = Top /\ t[1] \notin SNode /\ KeyDepth[Top] = 0
    BY <1>1, RootsDiffer, SchemaAssumption, PathAssumption
  <2> QED BY <1>1, <2>1 DEF ArgDepth, Node
<1>2. ASSUME NEW n \in SNode, SKind[n] \in Inner, t = FullToken(n)
      PROVE  /\ t \in YangToken /\ t[1] = n
             /\ ArgDepth(t) = KeyDepth[n] /\ KeyDepth[n] \in Nat
             /\ n \in Ancestors[n]
  <2>1. t \in YangToken /\ t[1] = n /\ t[2] = KeyCount[n]
    BY <1>2, InnerToken
  <2>2. KeyDepth[n] = KeyDepth[SParent[n]] + KeyCount[n] /\ KeyDepth[n] \in Nat /\ n \in Ancestors[n]
    BY PathStep
  <2> QED BY <2>1, <2>2 DEF ArgDepth
<1> QED BY <1>1, <1>2 DEF Node

\* A command is looked up at the root or at the last key of the innermost list.
LEMMA WorkingToken ==
  ASSUME mode \in CommandMode, IsPath(mode.nodes), mode.config
  PROVE  LET t == WdToken(mode) IN
         /\ t = YangRoot \/ \E n \in SNode : SKind[n] = "list" /\ t = FullToken(n)
         /\ StackAround(t[1])
<1>1. CASE mode.nodes = << >>
  <2>1. WdToken(mode) = YangRoot /\ YangRoot[1] = Top /\ ListPath[Top] = << >>
    BY <1>1, RootsDiffer, PathAssumption DEF WdToken
  <2>2. Len(mode.nodes) = 0 /\ DOMAIN mode.nodes = {}
    BY <1>1
  <2> QED BY <1>1, <2>1, <2>2 DEF StackAround
<1>2. CASE mode.nodes # << >>
  <2> DEFINE k == Len(mode.nodes)
             list == mode.nodes[k].token[1]
  <2>1. k \in 1..k /\ DOMAIN mode.nodes = 1..k /\ mode.nodes[k] \in CliNode
    BY <1>2, ModeParts
  <2>2. NodeFits(mode.nodes, k)
    BY <2>1 DEF IsPath
  <2>3. list \in SNode
    BY <2>1, TokenShape DEF CliNode
  <2>4. SKind[list] = "list" /\ mode.nodes[k].token = FullToken(list)
    BY <2>2 DEF NodeFits
  <2>5. StackAround(list)
    BY <2>1, <2>2 DEF NodeFits, StackAround
  <2>6. WdToken(mode) = mode.nodes[k].token
    BY <1>2 DEF WdToken, Last
  <2>7. WdToken(mode)[1] = list
    BY <2>6
  <2> QED BY <2>3, <2>4, <2>5, <2>6, <2>7
<1> QED BY <1>1, <1>2

\* Tokens, roots and the walk from one to the next keep their types.
LEMMA TokenTypes ==
  /\ YangToken \subseteq AnyToken /\ InternalToken \subseteq AnyToken
  /\ Roots \subseteq AnyToken /\ NoToken \in AnyToken
  /\ YangRoot \in AnyToken /\ ExecRoot \in AnyToken
  /\ NoToken \notin YangToken /\ NoToken # YangRoot /\ NoToken # ExecRoot
BY NoTokenAssumption DEF AnyToken, Token, Roots

\* When a command is over nothing of the parser's state matters any more.
LEMMA ReturnKeeps ==
  ASSUME pc' \in {"ready", "exited"}, cmd' = IdleCmd, try' = IdleTry,
         SessionTypeOK', IsPath(mode.nodes)', CandidateInConfigure'
  PROVE  IInv'
<1>1. pc' \in {"ready", "exited"} /\ cmd' = IdleCmd /\ try' = IdleTry
  OBVIOUS
<1>2. IdleCmd \in CmdLocals /\ IdleCmd.orig = Operational
  <2>1. << >> \in Seq(Word) /\ Operational \in CommandMode
    BY ConfigureType, EmptySeq
  <2> QED BY <2>1, TokenTypes DEF IdleCmd, CmdLocals, ErrorKind
<1>3. IdleTry \in TryLocals
  BY TokenTypes, EmptySeq DEF IdleTry, TryFrom, TryLocals
<1>4. Operational.nodes = << >>
  BY DEF Operational
<1>5. ParserTypeOK'
  BY <1>1, <1>2, <1>3, <1>4 DEF ParserTypeOK
<1>6. StackIsPath'
  <2>1. IsPath(cmd.orig.nodes)'
    BY <1>1, <1>2, <1>4 DEF IsPath
  <2> QED BY <2>1 DEF StackIsPath
<1>7. ScopeMatchesStack' /\ WalkMatchesStack' /\ TokenOfMode'
  BY <1>1 DEF ScopeMatchesStack, WalkMatchesStack, TokenOfMode
<1> QED BY <1>5, <1>6, <1>7 DEF IInv, TypeOK

-----------------------------------------------------------------------------
(***************************************************************************)
(* The steps of the parser.                                                 *)
(***************************************************************************)

\* Entering a line keeps the invariant.
LEMMA EnterKeeps ==
  ASSUME IInv, NEW line \in Lines, Enter(line)
  PROVE  IInv'
<1> DEFINE wd == WdToken(mode)
<1>1. /\ pc' = "words" /\ UNCHANGED session
      /\ cmd' = [line |-> line, orig |-> mode, error |-> "none", climb |-> wd, child |-> wd]
      /\ try' = [start |-> wd, curr |-> wd, next |-> 1, negate |-> FALSE, args |-> << >>]
  BY DEF Enter, TryFrom
<1>2. /\ SessionTypeOK /\ mode \in CommandMode /\ IsPath(mode.nodes) /\ CandidateInConfigure
      /\ (~mode.config => mode.nodes = << >>)
  BY DEF IInv, TypeOK, SessionTypeOK, StackIsPath
<1>3. mode' = mode /\ candidate' = candidate /\ running' = running /\ hostname' = hostname /\ prompt' = prompt
  BY <1>1 DEF session
<1>4. ~mode.config => wd = ExecRoot
  BY DEF WdToken
<1>5. mode.config => /\ wd = YangRoot \/ \E n \in SNode : SKind[n] \in Inner /\ wd = FullToken(n)
                     /\ StackAround(wd[1])
  BY <1>2, WorkingToken DEF Inner
<1>6. mode.config => /\ wd \in YangToken \cup {YangRoot}
                     /\ ArgDepth(wd) = KeyDepth[wd[1]] /\ KeyDepth[wd[1]] \in Nat
                     /\ wd[1] = Top \/ wd[1] \in Ancestors[wd[1]]
  <2> HIDE DEF wd
  <2> QED BY <1>5, LevelToken
<1>7. wd \in AnyToken /\ wd # NoToken /\ (~mode.config => wd \notin YangToken \cup {YangRoot})
  <2>1. ExecRoot \notin YangToken \cup {YangRoot}
    BY TokenShape, RootsDiffer DEF Roots
  <2> QED BY <1>2, <1>4, <1>6, <2>1, TokenTypes, ModeParts
<1> HIDE DEF wd
<1>8. ParserTypeOK'
  <2>1. line \in Seq(Word)
    BY LinesAssumption
  <2>2. cmd' \in CmdLocals
    BY <1>1, <1>2, <1>7, <2>1 DEF CmdLocals, ErrorKind
  <2>3. try' \in TryLocals
    BY <1>1, <1>7 DEF TryLocals
  <2> QED BY <1>1, <1>2, <2>2, <2>3 DEF ParserTypeOK
<1>9. TypeOK' /\ CandidateInConfigure'
  BY <1>2, <1>3, <1>8 DEF TypeOK, SessionTypeOK, CandidateInConfigure
<1>10. StackIsPath'
  BY <1>1, <1>2, <1>3 DEF StackIsPath, IsPath
<1>11. ScopeMatchesStack'
  <2> SUFFICES ASSUME wd \in YangToken \cup {YangRoot}
               PROVE  /\ mode.config
                      /\ StackAround(wd[1])
                      /\ wd[1] = Top \/ wd[1] \in Ancestors[wd[1]]
                      /\ Len(<< >>) = ArgDepth(wd) - KeyDepth[wd[1]]
    BY <1>1, <1>3 DEF ScopeMatchesStack, StackAround
  <2>1. mode.config
    BY <1>2, <1>7, ModeParts
  <2> QED BY <1>5, <1>6, <2>1
<1>12. WalkMatchesStack'
  BY <1>1, <1>2, <1>3, <1>4, <1>5, <1>6, <1>7 DEF WalkMatchesStack, StackAround, wd
<1>13. TokenOfMode'
  BY <1>1, <1>2, <1>3, <1>4, <1>6, ModeParts DEF TokenOfMode
<1> QED BY <1>9, <1>10, <1>11, <1>12, <1>13 DEF IInv

\* One more word: the token it selects lies right below the current one, or
\* below a root of the file in configuration mode.
LEMMA MatchWordKeeps ==
  ASSUME IInv, MatchWord
  PROVE  IInv'
<1>1. /\ pc = "words" /\ pc' = "words" /\ cmd' = cmd
      /\ mode' = mode /\ candidate' = candidate /\ running' = running
      /\ hostname' = hostname /\ prompt' = prompt
  BY DEF MatchWord, session
<1>2. /\ TypeOK /\ SessionTypeOK /\ ParserTypeOK /\ try \in TryLocals /\ cmd \in CmdLocals
      /\ ScopeMatchesStack /\ WalkMatchesStack /\ TokenOfMode
  BY DEF IInv, TypeOK, ParserTypeOK
<1>3. PICK t \in Selected(try.curr, AddInternal, CurrentWord) :
        try' = IF try.next = 1 /\ TokenName(t) = "no"
               THEN [try EXCEPT !.negate = TRUE, !.next = try.next + 1]
               ELSE [try EXCEPT !.curr = t, !.next = try.next + 1,
                       !.args = IF ~HasArgument(t) THEN try.args
                                ELSE Append(try.args, IF IsString(t) THEN CurrentWord
                                                      ELSE TokenName(t))]
  BY DEF MatchWord
<1>4. CurrentWord \in Word
  <2>1. try.next \in Nat \ {0} /\ try.next <= Len(cmd.line) /\ cmd.line \in Seq(Word)
    BY <1>2 DEF MatchWord, TryLocals, CmdLocals
  <2>2. try.next \in 1..Len(cmd.line)
    BY <2>1
  <2> QED BY <2>1, <2>2, ElementOfSeq DEF CurrentWord
<1>5. /\ t \in Token /\ TokenName(t) \in Word
      /\ \/ ParentToken(t) = try.curr
         \/ mode.config /\ ParentToken(t) \in {ConfigRoot, DefaultRoot}
  <2>1. /\ t \in Token /\ TokenName(t) \in Word
        /\ \/ ParentToken(t) = try.curr
           \/ AddInternal /\ ParentToken(t) \in {ConfigRoot, DefaultRoot}
    BY LookupFinds
  <2>2. AddInternal => mode.config
    BY DEF AddInternal
  <2> QED BY <2>1, <2>2
<1>6. /\ try.start \in AnyToken /\ try.curr \in AnyToken /\ try.next \in Nat \ {0}
      /\ try.negate \in BOOLEAN /\ try.args \in Seq(Word) /\ Len(try.args) \in Nat
  BY <1>2, LenProperties DEF TryLocals
<1>7. CASE try' = [try EXCEPT !.negate = TRUE, !.next = try.next + 1]
  <2>1. /\ try'.start = try.start /\ try'.curr = try.curr /\ try'.args = try.args
        /\ try' \in TryLocals
    <3>1. try' = [start |-> try.start, curr |-> try.curr, next |-> try.next + 1,
                  negate |-> TRUE, args |-> try.args]
      BY <1>2, <1>7 DEF TryLocals
    <3> QED BY <1>6, <3>1 DEF TryLocals
  <2>2. TypeOK'
    BY <1>1, <1>2, <2>1 DEF TypeOK, SessionTypeOK, ParserTypeOK
  <2>3. ScopeMatchesStack' /\ TokenOfMode'
    BY <1>1, <1>2, <2>1 DEF ScopeMatchesStack, StackAround, TokenOfMode
  <2> QED BY <1>1, <2>2, <2>3 DEF IInv, StackIsPath, WalkMatchesStack, StackAround,
      CandidateInConfigure
<1>8. CASE try' = [try EXCEPT !.curr = t, !.next = try.next + 1,
                     !.args = IF ~HasArgument(t) THEN try.args
                              ELSE Append(try.args, IF IsString(t) THEN CurrentWord
                                                    ELSE TokenName(t))]
  <2> DEFINE args == IF ~HasArgument(t) THEN try.args
                     ELSE Append(try.args, IF IsString(t) THEN CurrentWord ELSE TokenName(t))
  <2>1. /\ args \in Seq(Word)
        /\ HasArgument(t) => Len(args) = Len(try.args) + 1
        /\ ~HasArgument(t) => args = try.args
    <3>1. (IF IsString(t) THEN CurrentWord ELSE TokenName(t)) \in Word
      BY <1>4, <1>5
    <3> QED BY <1>6, <3>1, AppendProperties
  <2>2. t \in AnyToken
    BY <1>5 DEF AnyToken
  <2>3. /\ try'.start = try.start /\ try'.curr = t /\ try'.args = args
        /\ try' \in TryLocals
    <3> HIDE DEF args
    <3>1. try' = [try EXCEPT !.curr = t, !.next = try.next + 1, !.args = args]
      BY <1>8 DEF args
    <3>2. try' = [start |-> try.start, curr |-> t, next |-> try.next + 1,
                  negate |-> try.negate, args |-> args]
      BY <1>2, <3>1 DEF TryLocals
    <3> QED BY <1>6, <2>1, <2>2, <3>2 DEF TryLocals
  <2> HIDE DEF args
  <2>4. TypeOK'
    BY <1>1, <1>2, <2>3 DEF TypeOK, SessionTypeOK, ParserTypeOK
  <2>5. CASE t \in YangToken
    <3>1. ParentToken(t) = try.curr /\ try.curr \in YangToken \cup {YangRoot}
      BY <1>5, <2>5, AboveYang, TokenShape, RootsDiffer DEF Roots
    <3>2. /\ mode.config /\ try.start \in YangToken \cup {YangRoot}
          /\ StackAround(try.start[1])
          /\ try.start[1] = Top \/ try.start[1] \in Ancestors[try.curr[1]]
          /\ Len(try.args) = ArgDepth(try.curr) - KeyDepth[try.start[1]]
      BY <1>1, <1>2, <3>1 DEF ScopeMatchesStack
    <3>3. t[1] \in SNode /\ t[2] \in Nat /\ (HasArgument(t) <=> t[2] > 0)
      BY <2>5, TokenShape, InnerToken, AboveYang
    <3>4. KeyDepth[try.start[1]] \in Nat
      <4>1. try.start[1] \in Node
        BY <3>2, TokenShape, RootsDiffer DEF Node
      <4> QED BY <4>1, PathAssumption DEF Node
    <3>5. /\ try.start[1] = Top \/ try.start[1] \in Ancestors[t[1]]
          /\ Len(args) = ArgDepth(t) - KeyDepth[try.start[1]]
      <4>1. CASE t[2] > 0
        <5>1. try.curr[1] = t[1] /\ try.curr[2] = t[2] - 1
          BY <2>5, <3>1, <4>1, AboveYang
        <5>2. KeyDepth[SParent[t[1]]] \in Nat
          BY <3>3, PathStep
        <5>3. ArgDepth(t) = ArgDepth(try.curr) + 1 /\ ArgDepth(try.curr) \in Int
          BY <3>3, <5>1, <5>2 DEF ArgDepth
        <5>4. Len(args) = Len(try.args) + 1
          BY <1>6, <2>1, <3>3, <4>1
        <5>5. Len(args) = ArgDepth(t) - KeyDepth[try.start[1]]
          BY <3>2, <3>4, <5>3, <5>4
        <5> QED BY <3>2, <5>1, <5>5
      <4>2. CASE t[2] = 0
        <5>1. try.curr[1] = SParent[t[1]]
          BY <2>5, <3>1, <4>2, AboveYang
        <5>2. try.curr = YangRoot \/ \E n \in SNode : SKind[n] \in Inner /\ try.curr = FullToken(n)
          BY <2>5, <3>1, <4>2, AboveYang
        <5>3. ArgDepth(try.curr) = KeyDepth[SParent[t[1]]] /\ KeyDepth[SParent[t[1]]] \in Nat
          BY <5>1, <5>2, LevelToken
        <5>4. ArgDepth(t) = KeyDepth[SParent[t[1]]]
          BY <3>3, <4>2, <5>3 DEF ArgDepth
        <5>5. try.start[1] = Top \/ try.start[1] \in Ancestors[t[1]]
          <6>1. Ancestors[t[1]] = Ancestors[try.curr[1]] \cup {t[1]}
            BY <3>3, <5>1, PathStep
          <6> QED BY <3>2, <6>1
        <5>6. args = try.args
          BY <2>1, <3>3, <4>2
        <5>7. Len(args) = ArgDepth(t) - KeyDepth[try.start[1]]
          BY <3>2, <5>3, <5>4, <5>6
        <5> QED BY <5>5, <5>7
      <4> QED BY <3>3, <4>1, <4>2
    <3>6. ScopeMatchesStack'
      BY <1>1, <2>3, <3>2, <3>5 DEF ScopeMatchesStack, StackAround
    <3>7. TokenOfMode'
      BY <1>1, <2>3, <2>5, <3>2 DEF TokenOfMode
    <3> QED BY <1>1, <2>4, <3>6, <3>7 DEF IInv, StackIsPath, WalkMatchesStack, StackAround,
        CandidateInConfigure
  <2>6. CASE t \in InternalToken
    <3>1. t \notin YangToken /\ t # YangRoot
      BY <2>6, TokenShape DEF Roots
    <3>2. ScopeMatchesStack'
      BY <2>3, <3>1 DEF ScopeMatchesStack
    <3>3. mode.config <=> Internal[t[1]].tree # "exec"
      <4>1. CASE ParentToken(t) \in InternalToken
        <5>1. Internal[t[1]].tree = Internal[ParentToken(t)[1]].tree
          BY <2>6, <4>1, AboveInternal, TokenShape DEF Roots
        <5>2. ParentToken(t) = try.curr
          BY <1>5, <4>1, TokenShape DEF Roots
        <5>3. try.curr \notin YangToken \cup {YangRoot} /\ try.curr # ExecRoot
          BY <4>1, <5>2, TokenShape DEF Roots
        <5> QED BY <1>1, <1>2, <5>1, <5>2, <5>3 DEF TokenOfMode
      <4>2. CASE ParentToken(t) = ExecRoot
        <5>1. Internal[t[1]].tree = "exec"
          BY <2>6, <4>2, AboveInternal, TokenShape, RootsDiffer DEF Roots
        <5>2. try.curr = ExecRoot
          BY <1>5, <4>2, RootsDiffer
        <5>3. ExecRoot \notin YangToken \cup {YangRoot} /\ ExecRoot \notin InternalToken
          BY TokenShape, RootsDiffer DEF Roots
        <5> QED BY <1>1, <1>2, <5>1, <5>2, <5>3 DEF TokenOfMode
      <4>3. CASE ParentToken(t) \in {ConfigRoot, DefaultRoot}
        <5>1. Internal[t[1]].tree # "exec"
          BY <2>6, <4>3, AboveInternal, TokenShape DEF Roots, ConfigRoot, DefaultRoot
        <5>2. mode.config
          <6>1. CASE ParentToken(t) = try.curr
            <7>1. try.curr \notin YangToken \cup {YangRoot} \cup InternalToken \cup {ExecRoot}
              BY <4>3, <6>1, TokenShape, RootsDiffer DEF Roots
            <7> QED BY <1>1, <1>2, <7>1 DEF TokenOfMode
          <6> QED BY <1>5, <6>1
        <5> QED BY <5>1, <5>2
      <4> QED BY <2>6, <4>1, <4>2, <4>3, AboveInternal
    <3>4. TokenOfMode'
      BY <1>1, <2>3, <2>6, <3>3 DEF TokenOfMode
    <3> QED BY <1>1, <2>4, <3>2, <3>4 DEF IInv, StackIsPath, WalkMatchesStack, StackAround,
        CandidateInConfigure
  <2> QED BY <1>5, <2>5, <2>6 DEF Token
<1> QED BY <1>3, <1>7, <1>8

\* A failed attempt keeps the invariant: the walk starts, or goes on, where it was.
LEMMA FailTryKeeps ==
  ASSUME IInv, pc = "words", NEW error \in ErrorKind, FailTry(error)
  PROVE  IInv'
<1>1. /\ pc' = "climb" /\ UNCHANGED <<session, try>>
      /\ cmd' = [cmd EXCEPT !.error = IF cmd.error = "none" THEN error ELSE cmd.error]
  BY DEF FailTry
<1>2. /\ mode' = mode /\ candidate' = candidate /\ running' = running /\ hostname' = hostname
      /\ prompt' = prompt /\ try' = try
  BY <1>1 DEF session
<1>3. TypeOK /\ cmd \in CmdLocals
  BY DEF IInv, TypeOK, ParserTypeOK
<1>4. /\ cmd' \in CmdLocals
      /\ cmd'.orig = cmd.orig /\ cmd'.climb = cmd.climb /\ cmd'.child = cmd.child
  BY <1>1, <1>3 DEF CmdLocals
<1>5. TypeOK'
  BY <1>1, <1>2, <1>3, <1>4 DEF TypeOK, SessionTypeOK, ParserTypeOK
<1>6. WalkMatchesStack'
  BY <1>1, <1>2, <1>4 DEF IInv, WalkMatchesStack, StackAround
<1>7. ScopeMatchesStack' /\ TokenOfMode'
  BY <1>1 DEF ScopeMatchesStack, TokenOfMode
<1> QED BY <1>2, <1>4, <1>5, <1>6, <1>7 DEF IInv, StackIsPath, CandidateInConfigure

\* Finding a command keeps the invariant.
LEMMA CommandFoundKeeps ==
  ASSUME IInv, CommandFound
  PROVE  IInv'
<1>1. /\ pc = "words" /\ pc' = "run" /\ mode' = mode /\ candidate' = candidate /\ running' = running
      /\ hostname' = hostname /\ prompt' = prompt /\ cmd' = cmd /\ try' = try
  BY DEF CommandFound, session
<1>2. TypeOK' /\ StackIsPath' /\ CandidateInConfigure'
  BY <1>1 DEF IInv, TypeOK, SessionTypeOK, ParserTypeOK, StackIsPath, CandidateInConfigure
<1>3. ScopeMatchesStack'
  BY <1>1 DEF IInv, ScopeMatchesStack, StackAround
<1>4. try.curr \in Token
  <2>1. TokenOfMode /\ try.curr # try.start
    BY DEF IInv, CommandFound, IsCommand
  <2>2. CASE try.curr = YangRoot
    <3>1. /\ try.start \in YangToken \cup {YangRoot}
          /\ try.start[1] = Top \/ try.start[1] \in Ancestors[Top]
      BY <1>1, <2>2, RootsDiffer DEF IInv, ScopeMatchesStack
    <3>2. try.start[1] = Top
      BY <3>1, PathAssumption
    <3>3. try.start \notin YangToken
      BY <3>2, TokenShape, SchemaAssumption
    <3> QED BY <2>1, <2>2, <3>1, <3>3
  <2>3. CASE try.curr \in YangToken \cup InternalToken
    BY <2>3 DEF Token
  <2> QED BY <1>1, <2>1, <2>2, <2>3 DEF TokenOfMode
<1>5. TokenOfMode'
  BY <1>1, <1>4 DEF IInv, TokenOfMode
<1>6. WalkMatchesStack'
  BY <1>1 DEF WalkMatchesStack
<1> QED BY <1>2, <1>3, <1>5, <1>6 DEF IInv

\* One iteration of the back-tracking loop visits a token of the schema, or its
\* root, in configuration mode, and the CLI stack follows.
LEMMA ClimbStep ==
  ASSUME IInv, pc = "climb", cmd.climb # NoToken, cmd.child \notin Roots, LeaveList, ClimbOn
  PROVE  /\ mode.config /\ mode' \in CommandMode /\ mode'.config /\ IsPath(mode'.nodes)
         /\ cmd.child \in YangToken /\ cmd.climb \in YangToken \cup {YangRoot}
         /\ \/ cmd.climb = cmd.child /\ \E n \in SNode : SKind[n] = "list" /\ cmd.child = FullToken(n)
            \/ cmd.climb = ParentToken(cmd.child)
         /\ cmd'.child = cmd.climb /\ cmd'.climb = NextAncestor(cmd.climb)
         /\ cmd'.orig = cmd.orig /\ cmd' \in CmdLocals
         /\ prompt' \in Prompt
         /\ (IF cmd.climb = YangRoot THEN mode.nodes = << >> ELSE StackAround(cmd.climb[1])')
         /\ ~NodeUpdate(cmd.climb) => mode' = mode
<1> DEFINE t == cmd.climb
<1>1. /\ mode \in CommandMode /\ hostname \in Host /\ prompt \in Prompt /\ cmd \in CmdLocals
      /\ IsPath(mode.nodes)
  BY DEF IInv, TypeOK, SessionTypeOK, ParserTypeOK, StackIsPath
<1>2. mode.config
  <2>1. ~mode.config => cmd.child = ExecRoot
    BY DEF IInv, WalkMatchesStack
  <2> QED BY <1>1, <2>1, ModeParts DEF Roots
<1>3. /\ cmd.child \in YangToken \cup {YangRoot}
      /\ (t = cmd.child /\ cmd.child = WdToken(mode)) \/ t = NextAncestor(cmd.child)
      /\ StackAround(t[1])
  BY <1>2 DEF IInv, WalkMatchesStack
<1>4. cmd.child \in YangToken /\ NextAncestor(cmd.child) = ParentToken(cmd.child)
  BY <1>3 DEF Roots, NextAncestor
<1>5. /\ \/ t = cmd.child /\ \E n \in SNode : SKind[n] = "list" /\ cmd.child = FullToken(n)
         \/ t = ParentToken(cmd.child)
      /\ t \in YangToken \cup {YangRoot}
  <2>1. CASE t = cmd.child /\ cmd.child = WdToken(mode)
    <3>1. cmd.child # YangRoot
      BY DEF Roots
    <3> QED BY <1>1, <1>2, <1>4, <2>1, <3>1, WorkingToken
  <2>2. CASE t = ParentToken(cmd.child)
    BY <1>4, <2>2, AboveYang
  <2> QED BY <1>3, <1>4, <2>1, <2>2
<1>6. /\ cmd' = [cmd EXCEPT !.child = t, !.climb = NextAncestor(t)]
      /\ IF NodeUpdate(t) THEN mode' = PopNode(mode) /\ prompt' = PromptOf(hostname, PopNode(mode))
         ELSE mode' = mode /\ prompt' = prompt
  BY DEF ClimbOn, LeaveList, MoveTo
<1>7. NextAncestor(t) \in AnyToken
  <2>1. CASE t = YangRoot
    BY <2>1, TokenTypes DEF NextAncestor, Roots
  <2>2. CASE t \in YangToken
    <3>1. NextAncestor(t) = ParentToken(t)
      BY <2>2, TokenShape DEF NextAncestor
    <3> QED BY <2>2, <3>1, AboveYang, TokenTypes
  <2> QED BY <1>5, <2>1, <2>2
<1>8. cmd' \in CmdLocals /\ cmd'.child = t /\ cmd'.climb = NextAncestor(t) /\ cmd'.orig = cmd.orig
  <2>1. cmd' = [line |-> cmd.line, orig |-> cmd.orig, error |-> cmd.error,
                climb |-> NextAncestor(t), child |-> t]
    BY <1>1, <1>6 DEF CmdLocals
  <2> QED BY <1>1, <1>7, <2>1 DEF CmdLocals
<1>9. CASE t = YangRoot
  <2>1. ~NodeUpdate(t) /\ t[1] = Top
    BY <1>9, RootsDiffer, SchemaAssumption DEF NodeUpdate
  <2>2. Len(mode.nodes) = 0
    BY <1>3, <2>1, PathAssumption DEF StackAround
  <2>3. mode.nodes = << >>
    BY <1>1, <2>2, ModeParts
  <2> QED BY <1>1, <1>2, <1>4, <1>5, <1>6, <1>8, <1>9, <2>1, <2>3
<1>10. CASE t \in YangToken /\ t[2] > 0
  <2>1. ~NodeUpdate(t) /\ NextAncestor(t)[1] = t[1]
    BY <1>10, AboveYang, TokenShape DEF NodeUpdate, NextAncestor
  <2>2. mode' = mode /\ prompt' = prompt
    BY <1>6, <2>1
  <2>3. StackAround(cmd.climb[1])'
    BY <1>3, <1>8, <2>1, <2>2 DEF StackAround
  <2>4. t # YangRoot
    BY <1>10, TokenShape DEF Roots
  <2> QED BY <1>1, <1>2, <1>4, <1>5, <1>6, <1>8, <2>1, <2>2, <2>3, <2>4
<1>11. CASE t \in YangToken /\ t[2] = 0
  <2>1. t[1] \in SNode /\ NextAncestor(t)[1] = SParent[t[1]] /\ t # YangRoot
    BY <1>11, AboveYang, TokenShape DEF NextAncestor, Roots
  <2>2. CASE SKind[t[1]] = "list"
    <3>1. NodeUpdate(t)
      BY <1>11, <2>1, <2>2 DEF NodeUpdate
    <3>2. mode' = PopNode(mode) /\ prompt' = PromptOf(hostname, PopNode(mode))
      BY <1>6, <3>1
    <3>3. /\ Len(ListPath[t[1]]) = Len(ListPath[SParent[t[1]]]) + 1
          /\ \A i \in 1..Len(ListPath[SParent[t[1]]]) : ListPath[t[1]][i] = ListPath[SParent[t[1]]][i]
          /\ Len(ListPath[SParent[t[1]]]) \in Nat
      BY <2>1, <2>2, ListStep, PathStep, LenProperties
    <3>4. /\ Len(mode.nodes) = Len(ListPath[t[1]]) /\ Len(mode.nodes) \in Nat
          /\ \A i \in 1..Len(mode.nodes) : ListPath[t[1]][i] = mode.nodes[i].token[1]
      BY <1>1, <1>3, ModeParts DEF StackAround
    <3>5. mode.nodes # << >>
      BY <3>3, <3>4
    <3>6. /\ mode' \in CommandMode /\ mode'.config /\ IsPath(mode'.nodes)
          /\ Len(mode'.nodes) = Len(mode.nodes) - 1
          /\ \A i \in 1..(Len(mode.nodes) - 1) : mode'.nodes[i] = mode.nodes[i]
      BY <1>1, <3>2, <3>5, PopKeepsPath
    <3>7. prompt' \in Prompt
      BY <1>1, <3>2, <3>6, PromptType
    <3>8. StackAround(cmd.climb[1])'
      <4> DEFINE p == SParent[t[1]]
      <4>1. DOMAIN mode'.nodes = 1..Len(mode'.nodes)
        BY <3>6, ModeParts
      <4>2. cmd'.climb[1] = p
        BY <1>8, <2>1
      <4>3. Len(ListPath[p]) = Len(mode'.nodes)
        BY <3>3, <3>4, <3>6
      <4>4. ASSUME NEW i \in 1..Len(mode'.nodes) PROVE ListPath[p][i] = mode'.nodes[i].token[1]
        <5>1. i \in 1..Len(ListPath[p]) /\ i \in 1..(Len(mode.nodes) - 1) /\ i \in 1..Len(mode.nodes)
          BY <3>3, <3>4, <3>6
        <5>2. ListPath[t[1]][i] = ListPath[p][i] /\ mode'.nodes[i] = mode.nodes[i]
          BY <3>3, <3>6, <5>1
        <5>3. ListPath[t[1]][i] = mode.nodes[i].token[1]
          BY <3>4, <5>1
        <5> QED BY <5>2, <5>3
      <4> HIDE DEF p
      <4> QED BY <4>1, <4>2, <4>3, <4>4 DEF StackAround
    <3> QED BY <1>2, <1>4, <1>5, <1>8, <2>1, <3>1, <3>6, <3>7, <3>8
  <2>3. CASE SKind[t[1]] # "list"
    <3>1. ~NodeUpdate(t) /\ mode' = mode /\ prompt' = prompt
      BY <1>6, <2>3 DEF NodeUpdate
    <3>2. ListPath[SParent[t[1]]] = ListPath[t[1]]
      BY <2>1, <2>3, PathStep
    <3>3. StackAround(cmd.climb[1])'
      BY <1>3, <1>8, <2>1, <3>1, <3>2 DEF StackAround
    <3> QED BY <1>1, <1>2, <1>4, <1>5, <1>8, <2>1, <3>1, <3>3
  <2> QED BY <2>2, <2>3
<1>12. t \in YangToken => t[2] \in Nat
  BY TokenShape, InnerToken
<1> QED BY <1>5, <1>9, <1>10, <1>11, <1>12

\* The position of the walk after one iteration.
LEMMA ClimbKeepsWalk ==
  ASSUME IInv, pc = "climb", cmd.climb # NoToken, cmd.child \notin Roots, LeaveList, ClimbOn,
         pc' \in {"words", "climb"}, UNCHANGED <<candidate, running, hostname>>, try' \in TryLocals
  PROVE  TypeOK' /\ StackIsPath' /\ WalkMatchesStack' /\ CandidateInConfigure'
<1>1. /\ mode.config /\ mode' \in CommandMode /\ mode'.config /\ IsPath(mode'.nodes)
      /\ cmd.climb \in YangToken \cup {YangRoot}
      /\ cmd'.child = cmd.climb /\ cmd'.climb = NextAncestor(cmd.climb)
      /\ cmd'.orig = cmd.orig /\ cmd' \in CmdLocals
      /\ prompt' \in Prompt
      /\ (IF cmd.climb = YangRoot THEN mode.nodes = << >> ELSE StackAround(cmd.climb[1])')
      /\ ~NodeUpdate(cmd.climb) => mode' = mode
  BY ClimbStep
<1>2. candidate' = candidate /\ running' = running /\ hostname' = hostname
  OBVIOUS
<1>3. TypeOK'
  BY <1>1, <1>2 DEF IInv, TypeOK, SessionTypeOK, ParserTypeOK
<1>4. StackIsPath' /\ CandidateInConfigure'
  BY <1>1, <1>2 DEF IInv, StackIsPath, CandidateInConfigure
<1>5. WalkMatchesStack'
  <2>1. mode'.config = cmd'.orig.config
    BY <1>1 DEF IInv, WalkMatchesStack
  <2>2. CASE cmd.climb = YangRoot
    <3>1. NextAncestor(cmd.climb) = NoToken /\ ~NodeUpdate(cmd.climb)
      BY <2>2, RootsDiffer, SchemaAssumption DEF NextAncestor, Roots, NodeUpdate
    <3> QED BY <1>1, <2>1, <2>2, <3>1 DEF WalkMatchesStack
  <2>3. CASE cmd.climb \in YangToken
    <3>1. cmd.climb # YangRoot /\ NextAncestor(cmd.climb) # NoToken
      BY <2>3, AboveYang, TokenShape, TokenTypes DEF NextAncestor, Roots
    <3> QED BY <1>1, <2>1, <2>3, <3>1 DEF WalkMatchesStack
  <2> QED BY <1>1, <2>2, <2>3
<1> QED BY <1>3, <1>4, <1>5

\* Passing a list key in the walk keeps the invariant.
LEMMA PassKeyKeeps ==
  ASSUME IInv, PassKey
  PROVE  IInv'
<1>1. /\ pc = "climb" /\ cmd.climb # NoToken /\ cmd.child \notin Roots /\ LeaveList /\ ClimbOn
      /\ pc' = "climb" /\ try' = try /\ UNCHANGED <<candidate, running, hostname>>
  BY DEF PassKey
<1>2. try' \in TryLocals
  BY <1>1 DEF IInv, TypeOK, ParserTypeOK
<1>3. TypeOK' /\ StackIsPath' /\ WalkMatchesStack' /\ CandidateInConfigure'
  BY <1>1, <1>2, ClimbKeepsWalk
<1>4. ScopeMatchesStack' /\ TokenOfMode'
  BY <1>1 DEF ScopeMatchesStack, TokenOfMode
<1> QED BY <1>3, <1>4 DEF IInv

\* The search starts again only where a level begins, never below a list key,
\* so the CLI stack is that of the level and no argument has been collected.
LEMMA RetryAboveKeeps ==
  ASSUME IInv, RetryAbove
  PROVE  IInv'
<1> DEFINE t == cmd.climb
<1>1. /\ pc = "climb" /\ t # NoToken /\ cmd.child \notin Roots /\ LeaveList /\ ClimbOn
      /\ ~IsString(cmd.child)
      /\ pc' = "words" /\ try' = TryFrom(t) /\ UNCHANGED <<candidate, running, hostname>>
  BY DEF RetryAbove
<1>2. /\ mode.config /\ cmd.child \in YangToken /\ t \in YangToken \cup {YangRoot}
      /\ \/ t = cmd.child /\ \E n \in SNode : SKind[n] = "list" /\ cmd.child = FullToken(n)
         \/ t = ParentToken(cmd.child)
      /\ ~NodeUpdate(t) => mode' = mode
      /\ mode'.config
  BY <1>1, ClimbStep
<1>3. cmd.child[2] = 0
  <2>1. cmd.child[2] \in Nat /\ ~ (cmd.child[2] > 0)
    BY <1>1, <1>2, AboveYang, TokenShape, InnerToken
  <2> QED BY <2>1
<1>4. t = ParentToken(cmd.child)
  <2>1. ~ \E n \in SNode : SKind[n] = "list" /\ cmd.child = FullToken(n)
    BY <1>3, InnerToken
  <2> QED BY <1>2, <2>1
<1>5. t = YangRoot \/ \E n \in SNode : SKind[n] \in Inner /\ t = FullToken(n)
  BY <1>2, <1>3, <1>4, AboveYang
<1>6. ~NodeUpdate(t)
  <2>1. CASE t = YangRoot
    BY <2>1, RootsDiffer, SchemaAssumption DEF NodeUpdate
  <2>2. ASSUME NEW n \in SNode, t = FullToken(n) PROVE ~NodeUpdate(t)
    BY <2>2, InnerToken DEF NodeUpdate
  <2> QED BY <1>5, <2>1, <2>2
<1>7. mode' = mode
  BY <1>2, <1>6
<1>8. /\ try'.start = t /\ try'.curr = t /\ try'.args = << >>
      /\ try' \in TryLocals
  <2>1. t \in AnyToken
    BY <1>2, TokenTypes
  <2>2. try' = [start |-> t, curr |-> t, next |-> 1, negate |-> FALSE, args |-> << >>]
    BY <1>1 DEF TryFrom
  <2> QED BY <2>1, <2>2, EmptySeq DEF TryLocals
<1>9. TypeOK' /\ StackIsPath' /\ WalkMatchesStack' /\ CandidateInConfigure'
  BY <1>1, <1>8, ClimbKeepsWalk
<1>10. StackAround(t[1])
  BY <1>1, <1>2 DEF IInv, WalkMatchesStack
<1>11. ArgDepth(t) = KeyDepth[t[1]] /\ KeyDepth[t[1]] \in Nat /\ (t[1] = Top \/ t[1] \in Ancestors[t[1]])
  BY <1>5, LevelToken
<1> HIDE DEF t
<1>12. ScopeMatchesStack'
  <2>1. Len(try'.args) = ArgDepth(t) - KeyDepth[t[1]]
    BY <1>8, <1>11
  <2>2. \A i \in DOMAIN mode'.nodes : ListPath[t[1]][i] = mode'.nodes[i].token[1]
    BY <1>7, <1>10 DEF StackAround
  <2>3. Len(ListPath[t[1]]) = Len(mode'.nodes)
    BY <1>7, <1>10 DEF StackAround
  <2> QED BY <1>2, <1>8, <1>11, <2>1, <2>2, <2>3 DEF ScopeMatchesStack, StackAround
<1>13. TokenOfMode'
  BY <1>1, <1>2, <1>8 DEF TokenOfMode
<1> QED BY <1>9, <1>12, <1>13 DEF IInv

\* mode_set, to a mode whose CLI stack is a path.
LEMMA ModeSetKeeps ==
  ASSUME IInv, NEW m \in CommandMode, ModeSet(m), IsPath(m.nodes), ~m.config => m.nodes = << >>,
         UNCHANGED <<running, hostname>>
  PROVE  SessionTypeOK' /\ IsPath(mode.nodes)' /\ CandidateInConfigure' /\ mode' = m
<1>1. /\ SessionTypeOK /\ CandidateInConfigure /\ mode \in CommandMode /\ hostname \in Host
      /\ candidate \in [some : BOOLEAN, tree : Config] /\ running \in Config
  BY DEF IInv, TypeOK, SessionTypeOK
<1>2. CASE mode = m
  BY <1>1, <1>2 DEF ModeSet, SessionTypeOK, CandidateInConfigure
<1>3. CASE mode # m
  <2>1. /\ candidate' = CASE m.config /\ ~mode.config -> Some(running)
                          [] ~m.config /\ mode.config -> NoCandidate
                          [] OTHER -> candidate
        /\ mode' = m /\ prompt' = PromptOf(hostname, m)
    BY <1>3 DEF ModeSet, MoveTo
  <2>2. m.config \in BOOLEAN /\ mode.config \in BOOLEAN
    BY <1>1, ModeParts
  <2>3. /\ Some(running) \in [some : BOOLEAN, tree : Config] /\ Some(running).some
        /\ NoCandidate \in [some : BOOLEAN, tree : Config]
    BY <1>1 DEF Some, NoCandidate, Config
  <2>4. candidate' \in [some : BOOLEAN, tree : Config] /\ (m.config => candidate'.some)
    BY <1>1, <2>1, <2>2, <2>3 DEF CandidateInConfigure
  <2>5. prompt' \in Prompt
    BY <1>1, <2>1, PromptType
  <2> QED BY <1>1, <2>1, <2>4, <2>5 DEF SessionTypeOK, CandidateInConfigure
<1> QED BY <1>2, <1>3

\* Giving up restores the stack the line was entered with, which keeps the invariant.
LEMMA GiveUpKeeps ==
  ASSUME IInv, GiveUp
  PROVE  IInv'
<1>1. cmd.orig \in CommandMode /\ IsPath(cmd.orig.nodes) /\ (~cmd.orig.config => cmd.orig.nodes = << >>)
  BY DEF IInv, TypeOK, ParserTypeOK, CmdLocals, StackIsPath
<1>2. SessionTypeOK' /\ IsPath(mode.nodes)' /\ CandidateInConfigure'
  BY <1>1, ModeSetKeeps DEF GiveUp
<1> QED BY <1>2, ReturnKeeps DEF GiveUp, Return

-----------------------------------------------------------------------------
(***************************************************************************)
(* The callbacks.                                                           *)
(***************************************************************************)

\* Every callback keeps the invariant.
LEMMA CallKeeps ==
  ASSUME IInv, Call
  PROVE  IInv'
<1>1. /\ SessionTypeOK /\ CandidateInConfigure /\ mode \in CommandMode /\ IsPath(mode.nodes)
      /\ candidate \in [some : BOOLEAN, tree : Config] /\ running \in Config /\ hostname \in Host
      /\ (~mode.config => mode.nodes = << >>)
  BY DEF IInv, TypeOK, SessionTypeOK, StackIsPath
<1>2. << >> \in Seq(CliNode) /\ IsPath(<< >>)
  BY EmptySeq DEF IsPath
<1>3. CASE CmdConfig
  <2>1. Configure(<< >>) \in CommandMode /\ Configure(<< >>).nodes = << >> /\ Configure(<< >>).config
    BY <1>2, ConfigureType
  <2>2. SessionTypeOK' /\ IsPath(mode.nodes)' /\ CandidateInConfigure'
    BY <1>2, <1>3, <2>1, ModeSetKeeps DEF CmdConfig
  <2> QED BY <1>3, <2>2, ReturnKeeps DEF CmdConfig, Return
<1>4. CASE CmdExitExec
  <2>1. SessionTypeOK' /\ IsPath(mode.nodes)' /\ CandidateInConfigure'
    BY <1>1, <1>4 DEF CmdExitExec, session, SessionTypeOK, CandidateInConfigure
  <2> QED BY <1>4, <2>1, ReturnKeeps DEF CmdExitExec
<1>5. CASE CmdEnd
  <2>1. Operational \in CommandMode /\ Operational.nodes = << >>
    BY <1>2, ConfigureType
  <2>2. SessionTypeOK' /\ IsPath(mode.nodes)' /\ CandidateInConfigure'
    BY <1>2, <1>5, <2>1, ModeSetKeeps DEF CmdEnd
  <2> QED BY <1>5, <2>2, ReturnKeeps DEF CmdEnd, Return
<1>6. CASE CmdExitConfig
  <2>1. /\ mode.config /\ mode' = PopNode(mode) /\ prompt' = PromptOf(hostname, PopNode(mode))
        /\ candidate' = candidate /\ running' = running /\ hostname' = hostname
    BY <1>6 DEF CmdExitConfig, MoveTo
  <2>2. PopNode(mode) \in CommandMode /\ IsPath(PopNode(mode).nodes)
        /\ (~PopNode(mode).config => PopNode(mode).nodes = << >>)
    <3>1. CASE mode.nodes = << >>
      <4>1. PopNode(mode) = Operational
        BY <3>1 DEF PopNode
      <4> QED BY <1>2, <4>1, ConfigureType
    <3>2. CASE mode.nodes # << >>
      BY <1>1, <3>2, PopKeepsPath
    <3> QED BY <3>1, <3>2
  <2>3. prompt' \in Prompt
    BY <1>1, <2>1, <2>2, PromptType
  <2>4. SessionTypeOK' /\ IsPath(mode.nodes)' /\ CandidateInConfigure'
    BY <1>1, <2>1, <2>2, <2>3 DEF SessionTypeOK, CandidateInConfigure
  <2> QED BY <1>6, <2>4, ReturnKeeps DEF CmdExitConfig, Return
<1>7. CASE CmdTop
  <2>1. /\ mode' = Configure(<< >>) /\ prompt' = PromptOf(hostname, Configure(<< >>))
        /\ candidate' = candidate /\ running' = running /\ hostname' = hostname /\ mode.config
    BY <1>7 DEF CmdTop, MoveTo
  <2>2. Configure(<< >>) \in CommandMode /\ Configure(<< >>).nodes = << >> /\ Configure(<< >>).config
    BY <1>2, ConfigureType
  <2>3. prompt' \in Prompt
    BY <1>1, <2>1, <2>2, PromptType
  <2>4. SessionTypeOK' /\ IsPath(mode.nodes)' /\ CandidateInConfigure'
    BY <1>1, <1>2, <2>1, <2>2, <2>3 DEF SessionTypeOK, CandidateInConfigure
  <2> QED BY <1>7, <2>4, ReturnKeeps DEF CmdTop, Return
<1>8. CASE CmdDiscard
  <2>1. SessionTypeOK' /\ IsPath(mode.nodes)' /\ CandidateInConfigure'
    BY <1>1, <1>8 DEF CmdDiscard, Some, SessionTypeOK, CandidateInConfigure
  <2> QED BY <1>8, <2>1, ReturnKeeps DEF CmdDiscard, Return
<1>9. CASE CmdCommit
  <2>1. CASE UNCHANGED session
    <3>1. SessionTypeOK' /\ IsPath(mode.nodes)' /\ CandidateInConfigure'
      BY <1>1, <2>1 DEF session, SessionTypeOK, CandidateInConfigure
    <3> QED BY <1>9, <3>1, ReturnKeeps DEF CmdCommit, Return
  <2>2. CASE /\ running' = candidate.tree
             /\ hostname' = HostnameOf(candidate.tree)
             /\ prompt' = PromptOf(HostnameOf(candidate.tree), mode)
             /\ UNCHANGED <<mode, candidate>>
    <3>1. running' \in Config /\ hostname' \in Host
      BY <1>1, <2>2, HostnameType
    <3>2. prompt' \in Prompt
      BY <1>1, <2>2, <3>1, PromptType
    <3>3. SessionTypeOK' /\ IsPath(mode.nodes)' /\ CandidateInConfigure'
      BY <1>1, <2>2, <3>1, <3>2 DEF SessionTypeOK, CandidateInConfigure
    <3> QED BY <1>9, <3>3, ReturnKeeps DEF CmdCommit, Return
  <2> QED BY <1>9, <2>1, <2>2 DEF CmdCommit
<1>10. CASE CmdReadCandidate \/ CmdPrint
  <2>1. UNCHANGED session /\ Return
    BY <1>10 DEF CmdReadCandidate, CmdPrint
  <2>2. SessionTypeOK' /\ IsPath(mode.nodes)' /\ CandidateInConfigure'
    BY <1>1, <2>1 DEF session, SessionTypeOK, CandidateInConfigure
  <2> QED BY <2>1, <2>2, ReturnKeeps DEF Return
<1> QED BY <1>3, <1>4, <1>5, <1>6, <1>7, <1>8, <1>9, <1>10 DEF Call

-----------------------------------------------------------------------------
(***************************************************************************)
(* edit_candidate.                                                          *)
(***************************************************************************)

\* The token of an edit is a token of the schema at which a command may end.
LEMMA EditToken ==
  ASSUME IInv, Editing
  PROVE  /\ try.curr \in YangToken /\ IsFullCommand(try.curr)
         /\ try.curr = <<try.curr[1], try.curr[2]>> /\ try.curr[1] \in SNode /\ try.curr[2] \in Nat
<1> DEFINE t == try.curr
<1>1. TokenOfMode /\ pc = "run" /\ Action(t) = "edit"
  BY DEF IInv, Editing
<1>2. t \in YangToken
  <2>1. ASSUME t \in InternalToken PROVE FALSE
    <3>1. t[1] \in DOMAIN Internal /\ IsInternal(t)
      BY <2>1, TokenShape
    <3>2. Internal[t[1]] \in InternalRecord
      BY <3>1, InternalAssumption
    <3>3. Action(t) \in Callback \cup {"none"}
      BY <3>1, <3>2 DEF Action, InternalRecord
    <3> QED BY <1>1, <3>3 DEF Callback, ExecCallback, ConfigCallback, PlainCallback
  <2> QED BY <1>1, <2>1 DEF TokenOfMode, Token
<1>3. t = <<t[1], t[2]>> /\ t[1] \in SNode /\ t[2] \in Nat /\ ~IsInternal(t)
  BY <1>2, TokenShape, InnerToken
<1>4. IsFullCommand(t)
  BY <1>1, <1>3 DEF Action
<1> QED BY <1>2, <1>3, <1>4

\* What edit_candidate finds when it is called: the lists of the CLI stack are
\* the first ones on the way to the target, and the arguments are the keys of
\* the others, followed by the value if the target takes one.
LEMMA EditScope ==
  ASSUME IInv, Editing
  PROVE  /\ EditFits
         /\ Target \in SNode /\ Lists \in Seq(SNode) /\ Skip \in 0..Len(Lists)
         /\ \A i \in 1..Skip : Lists[i] = mode.nodes[i].token[1]
         /\ PathKeys \in Seq(Word) /\ Len(PathKeys) = KeyDepth[Target]
         /\ BaseKeys(mode) \in Seq(Word) /\ Len(BaseKeys(mode)) <= KeyDepth[Target]
         /\ \A i \in 1..Len(BaseKeys(mode)) : PathKeys[i] = BaseKeys(mode)[i]
         /\ Value \in Word \cup {None}
<1> DEFINE t == try.curr
           s == try.start[1]
<1>1. /\ mode \in CommandMode /\ IsPath(mode.nodes) /\ CandidateInConfigure /\ try \in TryLocals
      /\ ScopeMatchesStack /\ TokenOfMode /\ pc = "run" /\ Action(t) = "edit"
  BY DEF IInv, TypeOK, SessionTypeOK, ParserTypeOK, StackIsPath, Editing
<1>2. t \in YangToken
  BY EditToken
<1>3. /\ t[1] \in SNode /\ t[2] \in Nat /\ IsFullCommand(t) /\ t \notin InternalToken
      /\ Target = t[1] /\ Target \in Node
  BY <1>2, EditToken, TokenShape DEF Target, Node
<1>4. /\ mode.config /\ StackAround(s) /\ s \in Node
      /\ s = Top \/ s \in Ancestors[Target]
      /\ Len(try.args) = ArgDepth(t) - KeyDepth[s]
  <2>1. /\ mode.config /\ StackAround(s) /\ try.start \in YangToken \cup {YangRoot}
        /\ s = Top \/ s \in Ancestors[Target]
        /\ Len(try.args) = ArgDepth(t) - KeyDepth[s]
    BY <1>1, <1>2, <1>3 DEF ScopeMatchesStack
  <2>2. s \in Node
    BY <2>1, TokenShape, RootsDiffer DEF Node
  <2> QED BY <2>1, <2>2
<1> HIDE DEF t, s
<1>5. /\ Lists \in Seq(SNode) /\ Len(Lists) \in Nat /\ Skip \in Nat
      /\ KeyDepth[s] \in Nat /\ KeyDepth[Target] \in Nat /\ KeyDepth[s] <= KeyDepth[Target]
      /\ Starts(ListPath[s], Lists)
      /\ Len(ListPath[s]) = Skip /\ \A i \in 1..Skip : ListPath[s][i] = mode.nodes[i].token[1]
  <2>1. /\ Lists \in Seq(SNode) /\ Len(Lists) \in Nat
        /\ KeyDepth[s] \in Nat /\ KeyDepth[Target] \in Nat
    BY <1>3, <1>4, PathAssumption, LenProperties DEF Lists, Node
  <2>2. Skip \in Nat /\ DOMAIN mode.nodes = 1..Skip
    BY <1>1, ModeParts DEF Skip
  <2>3. Len(ListPath[s]) = Skip /\ \A i \in 1..Skip : ListPath[s][i] = mode.nodes[i].token[1]
    BY <1>4, <2>2 DEF StackAround, Skip
  <2>4. KeyDepth[s] <= KeyDepth[Target] /\ Starts(ListPath[s], Lists)
    <3>1. CASE s = Top
      BY <2>1, <3>1, PathAssumption DEF Starts
    <3>2. CASE s \in Ancestors[Target]
      BY <1>3, <3>2, AncestorPath DEF Lists
    <3> QED BY <1>4, <3>1, <3>2
  <2> QED BY <2>1, <2>2, <2>3, <2>4
<1>6. Skip \in 0..Len(Lists) /\ \A i \in 1..Skip : Lists[i] = mode.nodes[i].token[1]
  BY <1>5 DEF Starts
<1>7. KeysTaken = KeyDepth[Target] - KeyDepth[s]
  <2>1. CASE Skip = 0
    <3>1. ListPath[s] = << >> /\ KeyDepth[s] = 0
      <4>1. ListPath[s] \in Seq(SNode)
        BY <1>4, InnermostList
      <4>2. ListPath[s] = << >>
        BY <1>5, <2>1, <4>1, EmptySeq
      <4> QED BY <1>4, <4>2, InnermostList
    <3> QED BY <1>5, <1>6, <2>1, <3>1 DEF KeysTaken
  <2>2. CASE Skip # 0
    <3>1. ListPath[s] # << >>
      BY <1>5, <2>2
    <3>2. KeyDepth[s] = KeyDepth[ListPath[s][Skip]]
      BY <1>4, <1>5, <3>1, InnermostList
    <3>3. Lists[Skip] = ListPath[s][Skip]
      BY <1>5, <2>2 DEF Starts
    <3> QED BY <1>5, <1>6, <2>2, <3>2, <3>3 DEF KeysTaken
  <2> QED BY <2>1, <2>2
<1>8. /\ ArgDepth(t) \in Nat
      /\ KeyDepth[Target] <= ArgDepth(t)
      /\ ArgDepth(t) <= KeyDepth[Target] + (IF TakesValue THEN 1 ELSE 0)
  <2>1. /\ KeyDepth[SParent[Target]] \in Nat /\ KeyCount[Target] \in Nat
        /\ KeyDepth[Target] = KeyDepth[SParent[Target]] + KeyCount[Target]
        /\ (SKind[Target] = "list" <=> KeyCount[Target] > 0)
    BY <1>3, PathStep
  <2>2. ArgDepth(t) = KeyDepth[SParent[Target]] + t[2]
    BY <1>3 DEF ArgDepth
  <2>3. /\ t[2] \in Nat /\ KeyCount[Target] <= t[2]
        /\ t[2] <= KeyCount[Target] + (IF TakesValue THEN 1 ELSE 0)
    <3>1. SKind[Target] # "list" => KeyCount[Target] = 0
      BY <2>1
    <3>2. t[2] <= NArgs(Target) /\ t[2] \in Nat /\ NArgs(Target) \in Nat
      <4>1. t[2] \in 0..NArgs(t[1]) /\ NArgs(t[1]) \in Nat
        BY <1>2, <1>3, TokenShape, InnerToken
      <4> QED BY <1>3, <4>1
    <3>3. CASE SKind[Target] = "list"
      <4>1. t[2] = KeyCount[Target]
        BY <1>3, <3>3 DEF IsFullCommand
      <4> QED BY <2>1, <4>1
    <3>4. CASE SKind[Target] \in {"p-container", "empty-leaf"}
      <4>1. NArgs(Target) = 0
        BY <1>3, <3>4 DEF NArgs
      <4> QED BY <3>1, <3>2, <3>4, <4>1
    <3>5. CASE SKind[Target] \in {"leaf", "leaf-list"}
      <4>1. t[2] = 1 /\ TakesValue
        BY <1>3, <3>5 DEF IsFullCommand, TakesValue
      <4> QED BY <3>1, <3>5, <4>1
    <3>6. SKind[Target] \in {"list", "p-container", "empty-leaf", "leaf", "leaf-list"}
      BY <1>3 DEF IsFullCommand
    <3> QED BY <3>3, <3>4, <3>5, <3>6
  <2> QED BY <2>1, <2>2, <2>3
<1>9. /\ try.args \in Seq(Word) /\ Len(try.args) \in Nat /\ KeysTaken \in Nat
      /\ KeysTaken <= Len(try.args)
      /\ Len(try.args) <= KeysTaken + (IF TakesValue THEN 1 ELSE 0)
  <2>1. try.args \in Seq(Word) /\ Len(try.args) \in Nat
    BY <1>1, LenProperties DEF TryLocals
  <2> DEFINE d == ArgDepth(t)
             below == KeyDepth[s]
             bound == IF TakesValue THEN 1 ELSE 0
  <2>2. bound \in Nat /\ d \in Nat /\ KeyDepth[Target] <= d /\ d <= KeyDepth[Target] + bound
    BY <1>8
  <2>3. below \in Nat /\ KeyDepth[Target] \in Nat /\ below <= KeyDepth[Target]
    BY <1>5
  <2>4. Len(try.args) = d - below /\ KeysTaken = KeyDepth[Target] - below
    BY <1>4, <1>7
  <2> HIDE DEF d, below, bound
  <2>5. KeysTaken \in Nat /\ KeysTaken <= Len(try.args) /\ Len(try.args) <= KeysTaken + bound
    BY <2>2, <2>3, <2>4
  <2> QED BY <2>1, <2>5 DEF bound
<1>10. EditFits
  BY <1>1, <1>4, <1>9 DEF EditFits, CandidateInConfigure
<1>11. BaseKeys(mode) \in Seq(Word) /\ Len(BaseKeys(mode)) = KeyDepth[s]
  <2>1. CASE mode.nodes = << >>
    <3>1. Skip = 0 /\ BaseKeys(mode) = << >>
      BY <2>1 DEF Skip, BaseKeys
    <3>2. ListPath[s] = << >>
      BY <1>4, <1>5, <3>1, InnermostList, EmptySeq
    <3> QED BY <1>4, <3>1, <3>2, InnermostList, EmptySeq
  <2>2. CASE mode.nodes # << >>
    <3>1. Skip \in 1..Skip /\ mode.nodes[Skip] \in CliNode /\ DOMAIN mode.nodes = 1..Skip
      BY <1>1, <2>2, ModeParts DEF Skip
    <3>2. NodeFits(mode.nodes, Skip)
      BY <1>1, <3>1 DEF IsPath
    <3>3. BaseKeys(mode) = mode.nodes[Skip].keys /\ BaseKeys(mode) \in Seq(Word)
      BY <2>2, <3>1 DEF BaseKeys, Last, Skip, CliNode
    <3>4. Len(BaseKeys(mode)) = KeyDepth[mode.nodes[Skip].token[1]]
      BY <3>2, <3>3 DEF NodeFits
    <3>5. ListPath[s] # << >> /\ ListPath[s][Skip] = mode.nodes[Skip].token[1]
      BY <1>5, <3>1
    <3> QED BY <1>4, <1>5, <3>3, <3>4, <3>5, InnermostList
  <2> QED BY <2>1, <2>2
<1>12. /\ PathKeys \in Seq(Word) /\ Len(PathKeys) = KeyDepth[Target]
       /\ \A i \in 1..Len(BaseKeys(mode)) : PathKeys[i] = BaseKeys(mode)[i]
  <2> DEFINE taken == SubSeq(try.args, 1, KeysTaken)
  <2>1. \A i \in 1..KeysTaken : try.args[i] \in Word
    BY <1>9, ElementOfSeq
  <2>2. taken \in Seq(Word) /\ Len(taken) = KeysTaken
    BY <1>9, <2>1, SubSeqProperties
  <2>3. PathKeys = BaseKeys(mode) \o taken
    BY DEF PathKeys
  <2> HIDE DEF taken
  <2> QED BY <1>5, <1>7, <1>11, <2>2, <2>3, ConcatProperties
<1>13. Value \in Word \cup {None}
  <2>1. CASE Len(try.args) > KeysTaken
    <3>1. Len(try.args) \in 1..Len(try.args)
      BY <1>9, <2>1
    <3> QED BY <1>9, <2>1, <3>1, ElementOfSeq DEF Value, Last
  <2>2. CASE ~ (Len(try.args) > KeysTaken)
    BY <2>2 DEF Value
  <2> QED BY <2>1, <2>2
<1> QED BY <1>3, <1>5, <1>6, <1>10, <1>11, <1>12, <1>13

\* The keys of a list on the way to the target are the first keys of the path.
LEMMA KeysPrefix ==
  ASSUME NEW n \in Node, NEW a \in Ancestors[n], NEW keys \in Seq(Word), Len(keys) = KeyDepth[n]
  PROVE  /\ KeysOf(a, keys) \in Seq(Word) /\ Len(KeysOf(a, keys)) = KeyDepth[a]
         /\ \A i \in 1..KeyDepth[a] : KeysOf(a, keys)[i] = keys[i]
         /\ KeyDepth[a] \in Nat /\ KeyDepth[a] <= Len(keys)
<1>1. a \in SNode /\ KeyDepth[a] <= KeyDepth[n] /\ KeyDepth[a] \in Nat /\ KeyDepth[n] \in Nat
  BY AncestorPath, PathAssumption DEF Node
<1>2. \A i \in 1..KeyDepth[a] : keys[i] \in Word
  BY <1>1, ElementOfSeq
<1>3. /\ SubSeq(keys, 1, KeyDepth[a]) \in Seq(Word)
      /\ Len(SubSeq(keys, 1, KeyDepth[a])) = KeyDepth[a]
      /\ \A i \in 1..KeyDepth[a] : SubSeq(keys, 1, KeyDepth[a])[i] = keys[i]
  BY <1>1, <1>2, SubSeqProperties
<1> QED BY <1>1, <1>3 DEF KeysOf

\* The CLI nodes that edit_candidate enters continue the stack to a path that
\* ends at the innermost list around the target.
LEMMA PushKeepsPath ==
  ASSUME IInv, Editing
  PROVE  /\ Configure(mode.nodes \o PushedNodes) \in CommandMode
         /\ Configure(mode.nodes \o PushedNodes).config
         /\ IsPath(Configure(mode.nodes \o PushedNodes).nodes)
         /\ LET new == mode.nodes \o PushedNodes IN
            /\ DOMAIN new = 1..Len(Lists)
            /\ \A i \in 1..Skip : new[i] = mode.nodes[i]
            /\ \A i \in (Skip + 1)..Len(Lists) : /\ new[i].token[1] = Lists[i]
                                                 /\ new[i].keys = KeysOf(Lists[i], PathKeys)
<1> DEFINE new == mode.nodes \o PushedNodes
           count == Len(Lists) - Skip
<1>1. /\ Target \in SNode /\ Target \in Node /\ Lists \in Seq(SNode) /\ Skip \in 0..Len(Lists) /\ Len(Lists) \in Nat
      /\ \A i \in 1..Skip : Lists[i] = mode.nodes[i].token[1]
      /\ PathKeys \in Seq(Word) /\ Len(PathKeys) = KeyDepth[Target]
      /\ BaseKeys(mode) \in Seq(Word) /\ Len(BaseKeys(mode)) <= KeyDepth[Target]
      /\ \A i \in 1..Len(BaseKeys(mode)) : PathKeys[i] = BaseKeys(mode)[i]
  BY EditScope, LenProperties DEF Node
<1>2. /\ mode \in CommandMode /\ IsPath(mode.nodes) /\ mode.nodes \in Seq(CliNode)
      /\ Len(mode.nodes) = Skip /\ DOMAIN mode.nodes = 1..Skip
  BY ModeParts DEF IInv, TypeOK, SessionTypeOK, StackIsPath, Skip
<1>3. count \in Nat
  BY <1>1
<1>4. \A i \in 1..Len(Lists) :
        /\ Lists[i] \in SNode /\ Lists[i] \in Ancestors[Target] /\ SKind[Lists[i]] = "list"
        /\ Len(ListPath[Lists[i]]) = i
        /\ \A j \in 1..i : ListPath[Lists[i]][j] = Lists[j]
  <2> SUFFICES ASSUME NEW i \in 1..Len(Lists)
               PROVE  /\ Lists[i] \in SNode /\ Lists[i] \in Ancestors[Target] /\ SKind[Lists[i]] = "list"
                      /\ Len(ListPath[Lists[i]]) = i
                      /\ \A j \in 1..i : ListPath[Lists[i]][j] = Lists[j]
    OBVIOUS
  <2>1. /\ Lists[i] \in SNode /\ Lists[i] \in Ancestors[Target] /\ SKind[Lists[i]] = "list"
        /\ Len(ListPath[Lists[i]]) = i
    BY <1>1, ListOnPath DEF Lists
  <2>2. Starts(ListPath[Lists[i]], Lists)
    BY <1>1, <2>1, AncestorPath DEF Lists
  <2> QED BY <2>1, <2>2 DEF Starts
<1>5. /\ PushedNodes \in Seq(CliNode) /\ Len(PushedNodes) = count
      /\ \A i \in 1..count : PushedNodes[i] = [token |-> FullToken(Lists[Skip + i]),
                                               keys |-> KeysOf(Lists[Skip + i], PathKeys)]
  <2>1. PushedNodes = [i \in 1..count |-> [token |-> FullToken(Lists[Skip + i]),
                                           keys |-> KeysOf(Lists[Skip + i], PathKeys)]]
    BY DEF PushedNodes
  <2>2. ASSUME NEW i \in 1..count
        PROVE  [token |-> FullToken(Lists[Skip + i]), keys |-> KeysOf(Lists[Skip + i], PathKeys)] \in CliNode
    <3>1. Skip + i \in 1..Len(Lists)
      BY <1>1, <1>3
    <3>2. FullToken(Lists[Skip + i]) \in YangToken
      BY <1>4, <3>1, InnerToken
    <3>3. KeysOf(Lists[Skip + i], PathKeys) \in Seq(Word)
      BY <1>1, <1>4, <3>1, KeysPrefix
    <3> QED BY <3>2, <3>3 DEF CliNode
  <2>3. PushedNodes \in [1..count -> CliNode]
    BY <2>1, <2>2
  <2> HIDE DEF count
  <2>4. PushedNodes \in Seq(CliNode)
    BY <1>3, <2>3, SeqDef
  <2>5. Len(PushedNodes) = count
    BY <1>3, <2>3, <2>4, LenProperties
  <2> QED BY <2>1, <2>4, <2>5
<1> HIDE DEF count
<1>6. new = mode.nodes \o PushedNodes /\ Skip \in Nat /\ count \in Nat /\ Skip + count = Len(Lists)
  BY <1>1, <1>3 DEF count
<1> HIDE DEF new
<1>7. /\ new \in Seq(CliNode) /\ Len(new) = Len(Lists) /\ DOMAIN new = 1..Len(Lists)
      /\ \A i \in 1..Skip : new[i] = mode.nodes[i]
      /\ \A i \in (Skip + 1)..Len(Lists) : /\ new[i].token = FullToken(Lists[i])
                                           /\ new[i].keys = KeysOf(Lists[i], PathKeys)
  <2>1. /\ new \in Seq(CliNode) /\ Len(new) = Len(mode.nodes) + Len(PushedNodes)
        /\ \A i \in 1..(Len(mode.nodes) + Len(PushedNodes)) :
              new[i] = IF i <= Len(mode.nodes) THEN mode.nodes[i] ELSE PushedNodes[i - Len(mode.nodes)]
    <3>1. mode.nodes \in Seq(CliNode) /\ PushedNodes \in Seq(CliNode)
      BY <1>2, <1>5
    <3>2. new = mode.nodes \o PushedNodes
      BY <1>6
    <3> QED BY <3>1, <3>2, ConcatProperties
  <2>2. Len(mode.nodes) + Len(PushedNodes) = Len(Lists)
    BY <1>2, <1>5, <1>6
  <2>3. ASSUME NEW i \in (Skip + 1)..Len(Lists)
        PROVE  new[i].token = FullToken(Lists[i]) /\ new[i].keys = KeysOf(Lists[i], PathKeys)
    <3>1. i - Skip \in 1..count /\ Skip + (i - Skip) = i /\ i \in 1..Len(Lists) /\ ~ (i <= Skip)
      BY <1>1, <1>6
    <3>2. new[i] = PushedNodes[i - Skip]
      BY <1>2, <2>1, <2>2, <3>1
    <3> QED BY <1>5, <3>1, <3>2
  <2>4. ASSUME NEW i \in 1..Skip PROVE new[i] = mode.nodes[i]
    <3>1. i \in 1..Len(Lists) /\ i <= Skip
      BY <1>1, <1>6
    <3> QED BY <1>2, <2>1, <2>2, <3>1
  <2>5. DOMAIN new = 1..Len(new)
    BY <2>1, LenProperties
  <2> QED BY <2>1, <2>2, <2>3, <2>4, <2>5
<1>8. \A i \in 1..Len(Lists) : new[i].token[1] = Lists[i]
  <2> SUFFICES ASSUME NEW i \in 1..Len(Lists) PROVE new[i].token[1] = Lists[i]
    OBVIOUS
  <2>1. CASE i \in 1..Skip
    BY <1>1, <1>7, <2>1
  <2>2. CASE i \in (Skip + 1)..Len(Lists)
    <3>1. new[i].token = FullToken(Lists[i])
      BY <1>7, <2>2
    <3> QED BY <1>4, <3>1, InnerToken
  <2>3. i \in 1..Skip \/ i \in (Skip + 1)..Len(Lists)
    BY <1>1, <1>6
  <2> QED BY <2>1, <2>2, <2>3
<1>9. ASSUME NEW i \in 1..Len(Lists), i >= Skip
      PROVE  /\ Len(new[i].keys) = KeyDepth[Lists[i]]
             /\ \A j \in 1..KeyDepth[Lists[i]] : new[i].keys[j] = PathKeys[j]
             /\ new[i].keys \in Seq(Word)
  <2>1. CASE i = Skip
    <3>1. i \in 1..Skip /\ mode.nodes # << >> /\ new[i] = mode.nodes[i] /\ mode.nodes[i] \in CliNode
      BY <1>2, <1>6, <1>7, <2>1, ModeParts
    <3>2. new[i].keys = BaseKeys(mode)
      <4>1. BaseKeys(mode) = mode.nodes[Len(mode.nodes)].keys
        BY <3>1 DEF BaseKeys, Last
      <4> QED BY <1>2, <2>1, <3>1, <4>1
    <3>3. Len(new[i].keys) = KeyDepth[Lists[i]]
      <4>1. NodeFits(mode.nodes, i)
        BY <1>2, <3>1 DEF IsPath
      <4>2. Len(mode.nodes[i].keys) = KeyDepth[mode.nodes[i].token[1]]
        BY <4>1 DEF NodeFits
      <4> QED BY <1>1, <3>1, <4>2
    <3> QED BY <1>1, <3>2, <3>3
  <2>2. CASE i \in (Skip + 1)..Len(Lists)
    <3>1. new[i].keys = KeysOf(Lists[i], PathKeys)
      BY <1>7, <2>2
    <3> QED BY <1>1, <1>4, <3>1, KeysPrefix
  <2>3. i = Skip \/ i \in (Skip + 1)..Len(Lists)
    BY <1>1, <1>6, <1>9
  <2> QED BY <2>1, <2>2, <2>3
<1>10. ASSUME NEW i \in 1..Len(Lists) PROVE NodeFits(new, i)
  <2>1. CASE i \in 1..Skip
    <3>1. NodeFits(mode.nodes, i)
      BY <1>2, <2>1 DEF IsPath
    <3>2. i \in Nat \ {0} /\ \A j \in 1..i : mode.nodes[j] = new[j]
      BY <1>6, <1>7, <2>1
    <3> QED BY <3>1, <3>2, SamePrefix
  <2>2. CASE i \in (Skip + 1)..Len(Lists)
    <3>1. new[i].token[1] = Lists[i] /\ new[i].token = FullToken(Lists[i])
      BY <1>7, <1>8, <2>2
    <3>2. /\ SKind[Lists[i]] = "list" /\ Len(ListPath[Lists[i]]) = i
          /\ \A j \in 1..i : ListPath[Lists[i]][j] = Lists[j]
      BY <1>4
    <3>3. \A j \in 1..i : new[j].token[1] = Lists[j]
      BY <1>1, <1>8
    <3>4. Len(new[i].keys) = KeyDepth[Lists[i]]
      <4>1. i >= Skip
        BY <1>6, <2>2
      <4> QED BY <1>9, <4>1
    <3>5. i > 1 => KeysOf(new[i - 1].token[1], new[i].keys) = new[i - 1].keys
      <4> SUFFICES ASSUME i > 1
                   PROVE  KeysOf(new[i - 1].token[1], new[i].keys) = new[i - 1].keys
        OBVIOUS
      <4> DEFINE a == Lists[i - 1]
      <4>1. i - 1 \in 1..Len(Lists) /\ i - 1 >= Skip /\ i >= Skip /\ i - 1 \in 1..i /\ Len(ListPath[Lists[i]]) = i
        BY <1>1, <1>6, <2>2, <3>2
      <4>2. Lists[i] \in Node /\ a \in Ancestors[Lists[i]]
        <5>1. ListPath[Lists[i]][i - 1] = a /\ Lists[i] \in Node
          BY <1>4, <3>2, <4>1 DEF Node
        <5> QED BY <4>1, <5>1, ListOnPath
      <4>3. /\ new[i].keys \in Seq(Word) /\ new[i - 1].keys \in Seq(Word)
            /\ Len(new[i].keys) = KeyDepth[Lists[i]] /\ Len(new[i - 1].keys) = KeyDepth[a]
            /\ \A j \in 1..KeyDepth[Lists[i]] : new[i].keys[j] = PathKeys[j]
            /\ \A j \in 1..KeyDepth[a] : new[i - 1].keys[j] = PathKeys[j]
        BY <1>9, <4>1
      <4> HIDE DEF a
      <4>4. /\ KeysOf(a, new[i].keys) \in Seq(Word) /\ Len(KeysOf(a, new[i].keys)) = KeyDepth[a]
            /\ \A j \in 1..KeyDepth[a] : KeysOf(a, new[i].keys)[j] = new[i].keys[j]
            /\ KeyDepth[a] \in Nat /\ KeyDepth[a] <= KeyDepth[Lists[i]]
        <5> DEFINE k == new[i].keys
                   m == Lists[i]
        <5>1. k \in Seq(Word) /\ Len(k) = KeyDepth[m] /\ m \in Node /\ a \in Ancestors[m]
          BY <4>2, <4>3
        <5> HIDE DEF k, m
        <5>2. /\ KeysOf(a, k) \in Seq(Word) /\ Len(KeysOf(a, k)) = KeyDepth[a]
              /\ \A j \in 1..KeyDepth[a] : KeysOf(a, k)[j] = k[j]
              /\ KeyDepth[a] \in Nat /\ KeyDepth[a] <= KeyDepth[m]
          BY <5>1, KeysPrefix
        <5> QED BY <5>2 DEF k, m
      <4>5. \A j \in 1..KeyDepth[a] : KeysOf(a, new[i].keys)[j] = new[i - 1].keys[j]
        <5>1. KeyDepth[Lists[i]] \in Nat
          BY <1>4, PathStep
        <5>2. \A j \in 1..KeyDepth[a] : j \in 1..KeyDepth[Lists[i]]
          BY <4>4, <5>1
        <5> QED BY <4>3, <4>4, <5>2
      <4>6. KeysOf(a, new[i].keys) = new[i - 1].keys
        <5> DEFINE s == KeysOf(a, new[i].keys)
                   u == new[i - 1].keys
        <5>1. s \in Seq(Word) /\ u \in Seq(Word) /\ Len(s) = KeyDepth[a] /\ Len(u) = KeyDepth[a]
          BY <4>3, <4>4
        <5>2. \A j \in 1..KeyDepth[a] : s[j] = u[j]
          BY <4>5
        <5> HIDE DEF s, u
        <5>3. s = u
          BY <5>1, <5>2, SeqEqual
        <5> QED BY <5>3 DEF s, u
      <4> QED BY <1>8, <4>1, <4>6 DEF a
    <3> QED BY <3>1, <3>2, <3>3, <3>4, <3>5 DEF NodeFits
  <2>3. i \in 1..Skip \/ i \in (Skip + 1)..Len(Lists)
    BY <1>1, <1>6
  <2> QED BY <2>1, <2>2, <2>3
<1>11. IsPath(new)
  BY <1>7, <1>10 DEF IsPath
<1>12. \A i \in (Skip + 1)..Len(Lists) : i \in 1..Len(Lists)
  BY <1>1
<1>13. /\ new = mode.nodes \o PushedNodes /\ DOMAIN new = 1..Len(Lists)
       /\ \A i \in 1..Skip : new[i] = mode.nodes[i]
       /\ \A i \in (Skip + 1)..Len(Lists) : /\ new[i].token[1] = Lists[i]
                                            /\ new[i].keys = KeysOf(Lists[i], PathKeys)
  BY <1>6, <1>7, <1>8, <1>12
<1> QED BY <1>7, <1>11, <1>13, ConfigureType

\* new_path yields a configuration.
LEMMA NewPathType ==
  ASSUME NEW cfg \in Config, NEW n \in SNode, NEW keys \in Seq(Word), Len(keys) = KeyDepth[n],
         NEW val \in Word \cup {None}
  PROVE  NewPath(cfg, n, keys, val) \in Config
<1>1. \A a \in Ancestors[n] : a \in SNode /\ KeysOf(a, keys) \in Seq(Word)
  BY AncestorPath, KeysPrefix DEF Node
<1>2. PathEntries(n, keys) \subseteq Entry
  BY <1>1 DEF PathEntries, Entry
<1>3. [node |-> n, keys |-> keys, val |-> val] \in Entry
  BY DEF Entry
<1> QED BY <1>2, <1>3 DEF NewPath, Config

\* Every configuration command keeps the invariant.
LEMMA EditKeeps ==
  ASSUME IInv, Edit
  PROVE  IInv'
<1>1. /\ SessionTypeOK /\ CandidateInConfigure /\ mode \in CommandMode /\ IsPath(mode.nodes)
      /\ candidate \in [some : BOOLEAN, tree : Config] /\ running \in Config /\ hostname \in Host
      /\ Editing
  BY DEF IInv, TypeOK, SessionTypeOK, StackIsPath, Edit, SetRejected, SetApplied, Negated
<1>2. EditFits /\ candidate.some
  BY <1>1, EditScope DEF EditFits
<1>3. CASE SetRejected \/ SetApplied
  <2> DEFINE m == Configure(mode.nodes \o PushedNodes)
  <2>1. m \in CommandMode /\ m.config /\ IsPath(m.nodes)
    BY <1>1, PushKeepsPath
  <2>2. /\ mode' = m /\ prompt' = PromptOf(hostname, m) /\ running' = running /\ hostname' = hostname
        /\ Return
    BY <1>3 DEF SetRejected, SetApplied, MoveTo
  <2>3. candidate' \in [some : BOOLEAN, tree : Config] /\ candidate'.some
    <3>1. CASE SetRejected
      BY <1>1, <1>2, <3>1 DEF SetRejected
    <3>2. CASE SetApplied
      <4>1. NewPath(candidate.tree, Target, PathKeys, Value) \in Config
        BY <1>1, EditScope, NewPathType
      <4> QED BY <3>2, <4>1 DEF SetApplied, Some
    <3> QED BY <1>3, <3>1, <3>2
  <2> HIDE DEF m
  <2>4. prompt' \in Prompt
    BY <1>1, <2>1, <2>2, PromptType
  <2>5. SessionTypeOK' /\ IsPath(mode.nodes)' /\ CandidateInConfigure'
    BY <1>1, <2>1, <2>2, <2>3, <2>4 DEF SessionTypeOK, CandidateInConfigure
  <2> QED BY <2>2, <2>5, ReturnKeeps DEF Return
<1>4. CASE Negated
  <2>1. /\ mode' = mode /\ prompt' = prompt /\ running' = running /\ hostname' = hostname /\ Return
        /\ \E gone \in RemovedBy(candidate.tree) : candidate' = Some(candidate.tree \ gone)
    BY <1>4 DEF Negated
  <2>2. candidate' \in [some : BOOLEAN, tree : Config] /\ candidate'.some
    BY <1>1, <2>1 DEF Some, Config
  <2>3. SessionTypeOK' /\ IsPath(mode.nodes)' /\ CandidateInConfigure'
    BY <1>1, <2>1, <2>2 DEF SessionTypeOK, CandidateInConfigure
  <2> QED BY <2>1, <2>3, ReturnKeeps DEF Return
<1> QED BY <1>3, <1>4 DEF Edit

-----------------------------------------------------------------------------
(***************************************************************************)
(* The theorems.                                                            *)
(***************************************************************************)

\* The invariant holds when the session starts.
LEMMA InitInvariant == Init => IInv
<1> SUFFICES ASSUME Init PROVE IInv
  OBVIOUS
<1>1. /\ running \in Config /\ mode = Operational /\ candidate = NoCandidate
      /\ hostname = HostnameOf(running) /\ prompt = PromptOf(hostname, mode)
      /\ pc = "ready" /\ cmd = IdleCmd /\ try = IdleTry
  BY LinesAssumption DEF Init, Config, Entry
<1>2. << >> \in Seq(CliNode) /\ << >> \in Seq(Word)
  BY EmptySeq
<1>3. mode \in CommandMode /\ mode.nodes = << >> /\ ~mode.config
  BY <1>1, <1>2, ConfigureType
<1>4. hostname \in Host /\ prompt \in Prompt
  BY <1>1, <1>3, HostnameType, PromptType
<1>5. SessionTypeOK
  BY <1>1, <1>3, <1>4 DEF SessionTypeOK, NoCandidate, Config
<1>6. cmd \in CmdLocals /\ cmd.orig = Operational
  BY <1>1, <1>2, <1>3, TokenTypes DEF IdleCmd, CmdLocals, ErrorKind
<1>7. try \in TryLocals
  BY <1>1, <1>2, TokenTypes DEF IdleTry, TryFrom, TryLocals
<1>8. ParserTypeOK
  BY <1>1, <1>3, <1>6, <1>7 DEF ParserTypeOK
<1>9. StackIsPath /\ CandidateInConfigure
  BY <1>1, <1>3, <1>6 DEF StackIsPath, IsPath, CandidateInConfigure
<1>10. ScopeMatchesStack /\ WalkMatchesStack /\ TokenOfMode
  BY <1>1 DEF ScopeMatchesStack, WalkMatchesStack, TokenOfMode
<1> QED BY <1>5, <1>8, <1>9, <1>10 DEF IInv, TypeOK

\* A step that changes nothing keeps the invariant.
LEMMA StutterKeeps ==
  ASSUME IInv, UNCHANGED vars
  PROVE  IInv'
BY DEF vars, session, IInv, TypeOK, SessionTypeOK, ParserTypeOK, StackIsPath, ScopeMatchesStack,
       WalkMatchesStack, TokenOfMode, CandidateInConfigure, StackAround

\* Leaving at the prompt keeps the invariant.
LEMMA InterruptKeeps ==
  ASSUME IInv, Interrupt
  PROVE  IInv'
<1>1. pc' = "exited" /\ UNCHANGED <<session, cmd, try>>
  BY DEF Interrupt
<1>2. TypeOK' /\ StackIsPath' /\ CandidateInConfigure'
  BY <1>1 DEF session, IInv, TypeOK, SessionTypeOK, ParserTypeOK, StackIsPath, CandidateInConfigure
<1>3. ScopeMatchesStack' /\ WalkMatchesStack' /\ TokenOfMode'
  BY <1>1 DEF ScopeMatchesStack, WalkMatchesStack, TokenOfMode
<1> QED BY <1>2, <1>3 DEF IInv

\* Every step of the parser keeps the invariant.
LEMMA ParseKeeps ==
  ASSUME IInv, Parse
  PROVE  IInv'
<1>1. CASE WordUnresolved
  <2>1. \E error \in ErrorKind : FailTry(error)
    BY <1>1 DEF WordUnresolved, ErrorKind
  <2> QED BY <1>1, <2>1, FailTryKeeps DEF WordUnresolved
<1>2. CASE CommandIncomplete
  <2>1. \E error \in ErrorKind : FailTry(error)
    BY <1>2 DEF CommandIncomplete, ErrorKind
  <2> QED BY <1>2, <2>1, FailTryKeeps DEF CommandIncomplete
<1> QED BY <1>1, <1>2, MatchWordKeeps, CommandFoundKeeps, PassKeyKeeps, RetryAboveKeeps,
           GiveUpKeeps DEF Parse

\* The invariant is inductive.
LEMMA NextInvariant == IInv /\ [Next]_vars => IInv'
<1> SUFFICES ASSUME IInv, [Next]_vars PROVE IInv'
  OBVIOUS
<1>1. CASE \E line \in Lines : Enter(line)
  BY <1>1, EnterKeeps
<1>2. CASE Step
  BY <1>2, ParseKeeps, EditKeeps, CallKeeps DEF Step
<1>3. CASE Exited \/ UNCHANGED vars
  BY <1>3, StutterKeeps DEF Exited
<1>4. CASE Interrupt
  BY <1>4, InterruptKeeps
<1> QED BY <1>1, <1>2, <1>3, <1>4 DEF Next

\* The inductive invariant holds in every state of every session.
THEOREM Invariance == Spec => []IInv
BY InitInvariant, NextInvariant, PTL DEF Spec

\* The session, the parser's locals and the CLI stack always have the types of
\* the code's structures, whatever the schema and the lines (session.rs,
\* parser.rs).
THEOREM TypeInvariant == Spec => []TypeOK
<1>1. IInv => TypeOK
  BY DEF IInv
<1> QED BY <1>1, Invariance, PTL

\* The CLI stack is a path of the schema with the keys of that path, through
\* pushes, pops, back-tracking and its undoing.
THEOREM StackInvariant == Spec => []StackIsPath
<1>1. IInv => StackIsPath
  BY DEF IInv
<1> QED BY <1>1, Invariance, PTL

\* The parser tries a command at the level the CLI stack stands for, with one
\* argument for each argument token passed since.
THEOREM ScopeInvariant == Spec => []ScopeMatchesStack
<1>1. IInv => ScopeMatchesStack
  BY DEF IInv
<1> QED BY <1>1, Invariance, PTL

\* The back-tracking walk and the CLI stack move in step.
THEOREM WalkInvariant == Spec => []WalkMatchesStack
<1>1. IInv => WalkMatchesStack
  BY DEF IInv
<1> QED BY <1>1, Invariance, PTL

\* No line makes edit_candidate or a callback panic, whatever the schema.
THEOREM PanicFreedom == Spec => []NoPanic
<1>1. IInv => NoPanic
  <2> SUFFICES ASSUME IInv PROVE NoPanic
    OBVIOUS
  <2>1. Editing => EditFits
    BY EditScope
  <2>2. ASSUME NEW callback \in ConfigCallback, Calling(callback) PROVE mode.config
    <3>1. pc = "run" /\ Action(try.curr) = callback /\ TokenOfMode
      BY <2>2 DEF Calling, IInv
    <3>2. CASE try.curr \in YangToken
      BY <3>1, <3>2, TokenShape DEF TokenOfMode, Roots
    <3>3. CASE try.curr \in InternalToken
      <4>1. try.curr[1] \in DOMAIN Internal /\ Internal[try.curr[1]].action = callback
        BY <3>1, <3>3, TokenShape DEF Action
      <4>2. Internal[try.curr[1]].tree # "exec"
        BY <2>2, <4>1, InternalAssumption
      <4> QED BY <3>1, <3>3, <4>2, TokenShape DEF TokenOfMode, Roots
    <3> QED BY <3>1, <3>2, <3>3 DEF TokenOfMode, Token
  <2>3. {"cmd_exit_config", "cmd_top"} \subseteq ConfigCallback /\ CandidateReader \subseteq ConfigCallback
    BY DEF ConfigCallback, CandidateReader
  <2>4. mode.config => candidate.some
    BY DEF IInv, CandidateInConfigure
  <2> QED BY <2>1, <2>2, <2>3, <2>4 DEF NoPanic
<1> QED BY <1>1, Invariance, PTL

\* Every step of the program from a state of the invariant is a LookupStep.
LEMMA LookupStepHolds ==
  ASSUME IInv, Next
  PROVE  LookupStep
<1>1. CASE \E line \in Lines : Enter(line)
  BY <1>1 DEF Enter, LookupStep
<1>2. CASE Edit \/ Call
  <2>1. pc = "run"
    BY <1>2 DEF Edit, SetRejected, SetApplied, Negated, Editing, Call, CmdConfig, CmdExitExec,
         CmdEnd, CmdExitConfig, CmdTop, CmdDiscard, CmdCommit, CmdReadCandidate, CmdPrint, Calling
  <2> QED BY <2>1 DEF LookupStep
<1>3. CASE MatchWord \/ WordUnresolved \/ CommandFound \/ CommandIncomplete
  BY <1>3 DEF MatchWord, WordUnresolved, CommandFound, CommandIncomplete, FailTry, session,
     LookupStep
<1>4. CASE PassKey \/ RetryAbove
  <2>1. /\ pc = "climb" /\ cmd.climb # NoToken /\ cmd.child \notin Roots /\ LeaveList /\ ClimbOn
        /\ pc' # "ready" /\ candidate' = candidate
    BY <1>4 DEF PassKey, RetryAbove
  <2>2. mode.config /\ mode'.config
    BY <2>1, ClimbStep
  <2>3. mode.config \in BOOLEAN /\ mode'.config \in BOOLEAN
    <3>1. mode \in CommandMode /\ mode' \in CommandMode
      BY <2>1, ClimbStep DEF IInv, TypeOK, SessionTypeOK
    <3> QED BY <3>1 DEF CommandMode
  <2> QED BY <2>1, <2>2, <2>3 DEF LookupStep
<1>5. CASE GiveUp
  <2>1. pc = "climb" /\ ModeSet(cmd.orig) /\ UNCHANGED <<running, hostname>>
    BY <1>5 DEF GiveUp
  <2>2. cmd.orig \in CommandMode /\ IsPath(cmd.orig.nodes) /\ (~cmd.orig.config => cmd.orig.nodes = << >>)
    BY DEF IInv, TypeOK, ParserTypeOK, CmdLocals, StackIsPath
  <2>3. mode' = cmd.orig
    BY <2>1, <2>2, ModeSetKeeps
  <2>4. mode.config = cmd.orig.config
    BY <2>1 DEF IInv, WalkMatchesStack
  <2>5. candidate' = candidate
    BY <2>1, <2>4 DEF ModeSet, MoveTo
  <2> QED BY <2>3, <2>4, <2>5 DEF LookupStep
<1>6. CASE Exited \/ Interrupt
  BY <1>6 DEF Exited, Interrupt, LookupStep
<1> QED BY <1>1, <1>2, <1>3, <1>4, <1>5, <1>6 DEF Next, Step, Parse

\* Looking a command up never touches the candidate nor leaves the configuration
\* mode, and a search that fails puts the CLI stack back.
THEOREM LookupSafety == Spec => LookupKeepsSession
<1>1. IInv /\ [Next]_vars => [LookupStep]_vars
  BY LookupStepHolds
<1>2. Spec => [][LookupStep]_vars
  BY <1>1, Invariance, PTL DEF Spec
<1> QED BY <1>2 DEF LookupKeepsSession

-----------------------------------------------------------------------------
(***************************************************************************)
(* The prompt.                                                              *)
(***************************************************************************)

\* The two cached values agree with what they are computed from, at each step.
PromptFollows == hostname = HostnameOf(running) /\ prompt = PromptOf(hostname, mode)

\* A step that moves to another mode, if at all, leaves the prompt right.
LEMMA MoveFollows ==
  ASSUME PromptFollows, UNCHANGED <<running, hostname>>,
         UNCHANGED <<mode, prompt>> \/ \E m : MoveTo(m)
  PROVE  PromptFollows'
BY DEF PromptFollows, MoveTo

\* mode_set moves to another mode or does nothing.
LEMMA ModeSetMoves ==
  ASSUME NEW m, ModeSet(m)
  PROVE  UNCHANGED <<mode, prompt>> \/ \E k : MoveTo(k)
BY DEF ModeSet

\* No step of the program lets the prompt fall behind.
LEMMA PromptStep == PromptFollows /\ [Next]_vars => PromptFollows'
<1> SUFFICES ASSUME PromptFollows, [Next]_vars PROVE PromptFollows'
  OBVIOUS
<1>1. CASE UNCHANGED session
  BY <1>1 DEF session, PromptFollows
<1>2. CASE PassKey \/ RetryAbove
  <2>1. LeaveList /\ UNCHANGED <<running, hostname>>
    BY <1>2 DEF PassKey, RetryAbove
  <2>2. UNCHANGED <<mode, prompt>> \/ \E m : MoveTo(m)
    BY <2>1 DEF LeaveList
  <2> QED BY <2>1, <2>2, MoveFollows
<1>3. CASE GiveUp \/ CmdConfig \/ CmdEnd
  <2>1. UNCHANGED <<running, hostname>> /\ \E m : ModeSet(m)
    BY <1>3 DEF GiveUp, CmdConfig, CmdEnd
  <2> QED BY <2>1, ModeSetMoves, MoveFollows
<1>4. CASE SetRejected \/ SetApplied \/ CmdExitConfig \/ CmdTop
  <2>1. UNCHANGED <<running, hostname>> /\ \E m : MoveTo(m)
    BY <1>4 DEF SetRejected, SetApplied, CmdExitConfig, CmdTop
  <2> QED BY <2>1, MoveFollows
<1>5. CASE Negated \/ CmdDiscard
  <2>1. UNCHANGED <<mode, prompt>> /\ UNCHANGED <<running, hostname>>
    BY <1>5 DEF Negated, CmdDiscard
  <2> QED BY <2>1, MoveFollows
<1>6. CASE CmdCommit
  <2>1. CASE UNCHANGED session
    BY <2>1, <1>1
  <2>2. CASE /\ running' = candidate.tree
             /\ hostname' = HostnameOf(candidate.tree)
             /\ prompt' = PromptOf(HostnameOf(candidate.tree), mode)
             /\ UNCHANGED <<mode, candidate>>
    <3>1. hostname' = HostnameOf(running') /\ prompt' = PromptOf(hostname', mode')
      BY <2>2
    <3> QED BY <3>1 DEF PromptFollows
  <2> QED BY <1>6, <2>1, <2>2 DEF CmdCommit
<1>7. CASE \/ \E line \in Lines : Enter(line)
           \/ MatchWord \/ WordUnresolved \/ CommandFound \/ CommandIncomplete
           \/ CmdExitExec \/ CmdReadCandidate \/ CmdPrint \/ Interrupt \/ Exited \/ UNCHANGED vars
  <2>1. UNCHANGED session
    BY <1>7 DEF Enter, MatchWord, WordUnresolved, CommandFound, CommandIncomplete, FailTry,
         CmdExitExec, CmdReadCandidate, CmdPrint, Interrupt, Exited, vars
  <2> QED BY <2>1, <1>1
<1> QED BY <1>2, <1>3, <1>4, <1>5, <1>6, <1>7 DEF Next, Step, Parse, Edit, Call

\* The prompt shows the node at which the next line will be looked up and the
\* host name of the running configuration, after every line (session.rs
\* update_prompt and its callers).
THEOREM PromptTruth == Spec => []PromptCurrent
<1>1. Init => PromptFollows
  BY DEF Init, PromptFollows
<1>2. PromptFollows => PromptCurrent
  BY DEF PromptFollows, PromptCurrent
<1> QED BY <1>1, <1>2, PromptStep, PTL DEF Spec

-----------------------------------------------------------------------------
(***************************************************************************)
(* Edits.                                                                   *)
(***************************************************************************)

\* The keys of a node begin with those of each of its ancestors.
LEMMA KeysBegin ==
  ASSUME NEW n \in Node, NEW a \in Ancestors[n], NEW keys
  PROVE  KeysOf(a, KeysOf(n, keys)) = KeysOf(a, keys)
<1>1. KeyDepth[a] \in Nat /\ KeyDepth[n] \in Nat /\ KeyDepth[a] <= KeyDepth[n]
  BY AncestorPath, PathAssumption DEF Node
<1> QED BY <1>1, Beginning DEF KeysOf

\* The list of the innermost CLI node is around the target of an edit, whose
\* path begins with the keys of that node.
LEMMA LevelOfEdit ==
  ASSUME IInv, Editing, mode.nodes # << >>
  PROVE  LET list == Last(mode.nodes).token[1] IN
         /\ list \in Ancestors[Target] /\ Target \in Node
         /\ KeysOf(list, PathKeys) = BaseKeys(mode)
         /\ PathKeys \in Seq(Word) /\ Len(PathKeys) = KeyDepth[Target]
<1> DEFINE list == Last(mode.nodes).token[1]
           base == BaseKeys(mode)
<1>1. /\ Target \in SNode /\ Target \in Node /\ Skip \in 0..Len(Lists)
      /\ \A i \in 1..Skip : Lists[i] = mode.nodes[i].token[1]
      /\ PathKeys \in Seq(Word) /\ Len(PathKeys) = KeyDepth[Target]
      /\ base \in Seq(Word)
      /\ \A i \in 1..Len(base) : PathKeys[i] = base[i]
  BY EditScope DEF Node
<1>2. /\ IsPath(mode.nodes) /\ Len(mode.nodes) = Skip /\ DOMAIN mode.nodes = 1..Skip
      /\ Skip \in Nat /\ Skip > 0
  BY ModeParts DEF IInv, TypeOK, SessionTypeOK, StackIsPath, Skip
<1>3. Last(mode.nodes) = mode.nodes[Skip] /\ base = mode.nodes[Skip].keys
  BY <1>2 DEF Last, BaseKeys
<1>4. NodeFits(mode.nodes, Skip)
  BY <1>2 DEF IsPath
<1>5. Len(base) = KeyDepth[list]
  BY <1>3, <1>4 DEF NodeFits
<1>6. list = Lists[Skip] /\ list \in Ancestors[Target]
  BY <1>1, <1>2, <1>3, ListOnPath DEF Lists
<1> HIDE DEF list, base
<1>7. /\ KeysOf(list, PathKeys) \in Seq(Word) /\ Len(KeysOf(list, PathKeys)) = KeyDepth[list]
      /\ \A i \in 1..KeyDepth[list] : KeysOf(list, PathKeys)[i] = PathKeys[i]
  BY <1>1, <1>6, KeysPrefix
<1>8. KeysOf(list, PathKeys) = base
  BY <1>1, <1>5, <1>7, SeqEqual
<1> QED BY <1>1, <1>6, <1>8 DEF list, base

\* What may differ between two candidates when an edit is made at a level.
InLevel(list, keys, e) ==
  \/ list \in Ancestors[e.node] /\ KeysOf(list, e.keys) = keys
  \/ e \in PathEntries(list, keys)

\* What new_path creates or replaces is in the level, or on the way to it.
LEMMA NewPathInLevel ==
  ASSUME NEW cfg, NEW n \in Node, NEW list \in Ancestors[n], NEW keys, NEW val,
         NEW e, e \in (NewPath(cfg, n, keys, val) \ cfg) \cup (cfg \ NewPath(cfg, n, keys, val))
  PROVE  InLevel(list, KeysOf(list, keys), e)
<1>1. \/ e.node = n /\ e.keys = keys
      \/ e \in PathEntries(n, keys)
  BY DEF NewPath, At
<1>2. CASE e.node = n /\ e.keys = keys
  BY <1>2 DEF InLevel
<1>3. CASE e \in PathEntries(n, keys)
  <2>1. PICK a \in Ancestors[n] : /\ SKind[a] \in {"list", "p-container"}
                                  /\ e = [node |-> a, keys |-> KeysOf(a, keys), val |-> None]
    BY <1>3 DEF PathEntries
  <2>2. a \in SNode /\ list \in SNode /\ (list \in Ancestors[a] \/ a \in Ancestors[list])
    BY AncestorChain
  <2>3. CASE list \in Ancestors[a]
    <3>1. KeysOf(list, KeysOf(a, keys)) = KeysOf(list, keys)
      BY <2>2, <2>3, KeysBegin DEF Node
    <3> QED BY <2>1, <2>3, <3>1 DEF InLevel
  <2>4. CASE a \in Ancestors[list]
    <3>1. KeysOf(a, KeysOf(list, keys)) = KeysOf(a, keys)
      BY <2>2, <2>4, KeysBegin DEF Node
    <3>2. e \in PathEntries(list, KeysOf(list, keys))
      BY <2>1, <2>4, <3>1 DEF PathEntries
    <3> QED BY <3>2 DEF InLevel
  <2> QED BY <2>2, <2>3, <2>4
<1> QED BY <1>1, <1>2, <1>3

\* What "no" removes is in the level.
LEMMA RemovalInLevel ==
  ASSUME NEW cfg \in Config, NEW n \in Node, NEW list \in Ancestors[n], NEW keys,
         KeysOf(n, keys) = keys,
         NEW gone \in Removals(cfg, n, keys), NEW e \in gone
  PROVE  InLevel(list, KeysOf(list, keys), e)
<1>1. \/ e.node = n /\ e.keys = keys
      \/ e \in Below(cfg, n, keys)
  BY DEF Removals, At
<1>2. CASE e.node = n /\ e.keys = keys
  BY <1>2 DEF InLevel
<1>3. CASE e \in Below(cfg, n, keys)
  <2>1. e \in Entry /\ n \in Ancestors[e.node] /\ KeysOf(n, e.keys) = keys
    BY <1>3 DEF Below, Config
  <2>2. list \in Ancestors[e.node]
    BY <2>1, AncestorChain DEF Entry, Node
  <2>3. KeysOf(list, KeysOf(n, e.keys)) = KeysOf(list, e.keys)
    BY KeysBegin
  <2> QED BY <2>1, <2>2, <2>3 DEF InLevel
<1> QED BY <1>1, <1>2, <1>3

\* The part of EditsStayInScope that speaks of a step.
ScopeStep ==
  Editing /\ mode.config /\ mode.nodes # << >> =>
    LET list == Last(mode.nodes).token[1]
        keys == BaseKeys(mode)
        changed == (candidate'.tree \ candidate.tree) \cup (candidate.tree \ candidate'.tree) IN
    \A e \in changed :
      \/ e \in Below(changed, list, keys)
      \/ e \in PathEntries(list, keys)

\* Every step of the program from a state of the invariant is a ScopeStep.
LEMMA ScopeStepHolds ==
  ASSUME IInv, Next
  PROVE  ScopeStep
<1> SUFFICES ASSUME Editing, mode.nodes # << >>,
                    NEW e \in (candidate'.tree \ candidate.tree) \cup (candidate.tree \ candidate'.tree)
             PROVE  InLevel(Last(mode.nodes).token[1], BaseKeys(mode), e)
  BY DEF ScopeStep, InLevel, Below
<1> DEFINE list == Last(mode.nodes).token[1]
<1>1. /\ list \in Ancestors[Target] /\ Target \in Node
      /\ KeysOf(list, PathKeys) = BaseKeys(mode)
      /\ PathKeys \in Seq(Word) /\ Len(PathKeys) = KeyDepth[Target]
  BY LevelOfEdit
<1>2. candidate.tree \in Config
  BY DEF IInv, TypeOK, SessionTypeOK
<1>3. KeysOf(Target, PathKeys) = PathKeys
  <2>1. /\ KeyDepth[Target] \in Nat /\ \A i \in 1..KeyDepth[Target] : PathKeys[i] \in Word
    BY <1>1, PathAssumption, ElementOfSeq DEF Node
  <2>2. /\ SubSeq(PathKeys, 1, KeyDepth[Target]) \in Seq(Word)
        /\ Len(SubSeq(PathKeys, 1, KeyDepth[Target])) = KeyDepth[Target]
        /\ \A i \in 1..KeyDepth[Target] : SubSeq(PathKeys, 1, KeyDepth[Target])[i] = PathKeys[i]
    BY <2>1, SubSeqProperties
  <2>3. SubSeq(PathKeys, 1, KeyDepth[Target]) = PathKeys
    BY <1>1, <2>2, SeqEqual
  <2> QED BY <2>3 DEF KeysOf
<1> HIDE DEF list
<1>4. CASE SetApplied
  <2>1. candidate'.tree = NewPath(candidate.tree, Target, PathKeys, Value)
    BY <1>4 DEF SetApplied, Some
  <2>2. InLevel(list, KeysOf(list, PathKeys), e)
    BY <1>1, <2>1, NewPathInLevel
  <2> QED BY <1>1, <2>2 DEF list
<1>5. CASE Negated
  <2>1. PICK gone \in Removals(candidate.tree, Target, PathKeys) :
           candidate'.tree = candidate.tree \ gone
    BY <1>5 DEF Negated, RemovedBy, Some
  <2>2. e \in gone
    BY <2>1
  <2>3. InLevel(list, KeysOf(list, PathKeys), e)
    BY <1>1, <1>2, <1>3, <2>2, RemovalInLevel
  <2> QED BY <1>1, <2>3 DEF list
<1>6. candidate' # candidate
  OBVIOUS
<1>7. pc = "run" /\ Action(try.curr) = "edit"
  BY DEF Editing
<1>8. SetApplied \/ Negated
  BY <1>6, <1>7 DEF Next, Enter, Interrupt, Step, Exited, Parse, Edit, Call, session, vars,
     MatchWord, WordUnresolved, FailTry, CommandFound, CommandIncomplete, PassKey, RetryAbove, GiveUp,
     SetRejected, CmdConfig, CmdExitExec, CmdEnd, CmdExitConfig, CmdTop, CmdDiscard, CmdCommit,
     CmdReadCandidate, CmdPrint, Calling, CandidateReader
<1> QED BY <1>4, <1>5, <1>8

\* A configuration command changes only what lies in the entry at whose level
\* it was found, or creates that entry, for every schema (session.rs
\* edit_candidate after back-tracking in parser.rs).
THEOREM EditScopes == Spec => EditsStayInScope
<1>1. IInv /\ [Next]_vars => [ScopeStep]_vars
  BY ScopeStepHolds
<1>2. Spec => [][ScopeStep]_vars
  BY <1>1, Invariance, PTL DEF Spec
<1> QED BY <1>2 DEF EditsStayInScope, ScopeStep

-----------------------------------------------------------------------------
(***************************************************************************)
(* What is known of the line that is being looked up, besides IInv.         *)
(***************************************************************************)

\* The walk has only popped nodes of the stack the line was entered with.
StackOfLine == pc \in {"words", "climb", "run"} => Starts(mode.nodes, cmd.orig.nodes)

\* A command is looked up from the token of a level, and is not that token.
LevelStart(t) == t = YangRoot \/ \E n \in SNode : SKind[n] \in Inner /\ t = FullToken(n)
FoundBelow ==
  /\ pc \in {"words", "run"} /\ mode.config => LevelStart(try.start)
  /\ pc = "run" => try.curr # try.start

\* The commands of the root of the configuration are only found there.
FoundAtRoot ==
  pc \in {"words", "run"} /\ try.curr \in InternalToken /\ Internal[try.curr[1]].tree = "config" =>
    mode.nodes = << >>

LInv == IInv /\ StackOfLine /\ FoundBelow /\ FoundAtRoot

-----------------------------------------------------------------------------
(***************************************************************************)
(* These hold at every step.                                                *)
(***************************************************************************)

\* They say nothing of a program that is not looking a command up.
LEMMA IdleLine ==
  ASSUME pc' \in {"ready", "exited"}
  PROVE  StackOfLine' /\ FoundBelow' /\ FoundAtRoot'
BY DEF StackOfLine, FoundBelow, FoundAtRoot

\* A line is looked up first at the level of the innermost CLI node.
LEMMA EnterLine ==
  ASSUME IInv, NEW line \in Lines, Enter(line)
  PROVE  StackOfLine' /\ FoundBelow' /\ FoundAtRoot'
<1> DEFINE wd == WdToken(mode)
<1>1. /\ pc' = "words" /\ mode' = mode /\ cmd'.orig = mode
      /\ try'.start = wd /\ try'.curr = wd
  BY DEF Enter, TryFrom, session
<1>2. mode \in CommandMode /\ IsPath(mode.nodes) /\ Len(mode.nodes) \in Nat
  BY ModeParts DEF IInv, TypeOK, SessionTypeOK, StackIsPath
<1>3. StackOfLine'
  BY <1>1, <1>2 DEF StackOfLine, Starts
<1>4. mode.config => LevelStart(wd)
  <2> HIDE DEF wd
  <2>1. mode.config => wd = YangRoot \/ \E n \in SNode : SKind[n] = "list" /\ wd = FullToken(n)
    BY <1>2, WorkingToken DEF wd
  <2> QED BY <2>1 DEF LevelStart, Inner
<1>5. wd \notin InternalToken
  <2>1. CASE ~mode.config
    BY <2>1, TokenShape DEF WdToken, Roots
  <2>2. CASE mode.config
    <3> HIDE DEF wd
    <3> QED BY <1>4, <2>2, LevelToken, TokenShape, RootsDiffer DEF LevelStart, Roots
  <2> QED BY <2>1, <2>2
<1> HIDE DEF wd
<1>6. FoundBelow' /\ FoundAtRoot'
  BY <1>1, <1>4, <1>5 DEF FoundBelow, FoundAtRoot
<1> QED BY <1>3, <1>6

\* The tokens of the root of the configuration are offered at the root, and below
\* one of their own.
LEMMA MatchWordLine ==
  ASSUME LInv, MatchWord
  PROVE  StackOfLine' /\ FoundBelow' /\ FoundAtRoot'
<1>1. /\ pc = "words" /\ pc' = "words" /\ cmd' = cmd /\ mode' = mode
  BY DEF MatchWord, session
<1>2. try \in TryLocals /\ ScopeMatchesStack /\ TokenOfMode /\ mode \in CommandMode
  BY DEF LInv, IInv, TypeOK, SessionTypeOK, ParserTypeOK
<1>3. PICK t \in Selected(try.curr, AddInternal, CurrentWord) :
        try' = IF try.next = 1 /\ TokenName(t) = "no"
               THEN [try EXCEPT !.negate = TRUE, !.next = try.next + 1]
               ELSE [try EXCEPT !.curr = t, !.next = try.next + 1,
                       !.args = IF ~HasArgument(t) THEN try.args
                                ELSE Append(try.args, IF IsString(t) THEN CurrentWord
                                                      ELSE TokenName(t))]
  BY DEF MatchWord
<1>4. try'.start = try.start /\ (try'.curr = try.curr \/ try'.curr = t)
  BY <1>2, <1>3 DEF TryLocals
<1>5. StackOfLine' /\ FoundBelow'
  BY <1>1, <1>4 DEF LInv, StackOfLine, FoundBelow
<1>6. ASSUME t \in InternalToken, Internal[t[1]].tree = "config" PROVE mode.nodes = << >>
  <2>1. t \in GetTokens(try.curr, AddInternal)
    BY <1>3 DEF Selected, Chosen, MatchingTokens
  <2>2. \/ ParentToken(t) = try.curr
        \/ ParentToken(t) = DefaultRoot
        \/ ParentToken(t) = ConfigRoot /\ try.curr = YangRoot
    BY <2>1 DEF GetTokens, OfferedParents
  <2>3. CASE ParentToken(t) = ConfigRoot /\ try.curr = YangRoot
    <3>1. /\ StackAround(try.start[1])
          /\ try.start[1] = Top \/ try.start[1] \in Ancestors[Top]
      BY <1>1, <1>2, <2>3, RootsDiffer DEF ScopeMatchesStack
    <3>2. Len(mode.nodes) = 0
      BY <3>1, PathAssumption DEF StackAround
    <3> QED BY <1>2, <3>2, ModeParts
  <2>4. CASE ParentToken(t) = DefaultRoot
    <3>1. DefaultRoot \notin InternalToken /\ DefaultRoot[1] = "config-default"
      BY TokenShape DEF Roots, DefaultRoot
    <3> QED BY <1>6, <2>4, <3>1, AboveInternal
  <2>5. CASE ParentToken(t) = try.curr /\ try.curr \in InternalToken
    <3>1. try.curr \notin Roots
      BY <2>5, TokenShape
    <3>2. Internal[try.curr[1]].tree = "config"
      BY <1>6, <2>5, <3>1, AboveInternal DEF Roots
    <3> QED BY <1>1, <2>5, <3>2 DEF LInv, FoundAtRoot
  <2>6. CASE ParentToken(t) = try.curr /\ try.curr \notin InternalToken
    <3>1. try.curr \in {ExecRoot, ConfigRoot, DefaultRoot} /\ Internal[t[1]].tree = try.curr[1]
      BY <1>6, <2>6, AboveInternal
    <3>2. try.curr = ExecRoot
      BY <1>1, <1>2, <3>1, TokenShape, RootsDiffer DEF TokenOfMode, Roots
    <3> QED BY <1>6, <3>1, <3>2, RootsDiffer
  <2> QED BY <2>2, <2>3, <2>4, <2>5, <2>6
<1>7. FoundAtRoot'
  BY <1>1, <1>4, <1>6 DEF LInv, FoundAtRoot
<1> QED BY <1>5, <1>7

\* The end of an attempt changes nothing of this.
LEMMA AttemptLine ==
  ASSUME LInv, WordUnresolved \/ CommandFound \/ CommandIncomplete
  PROVE  StackOfLine' /\ FoundBelow' /\ FoundAtRoot'
<1>1. cmd \in CmdLocals
  BY DEF LInv, IInv, TypeOK, ParserTypeOK
<1>2. CASE WordUnresolved \/ CommandIncomplete
  <2>1. /\ pc = "words" /\ pc' = "climb" /\ mode' = mode /\ cmd'.orig = cmd.orig
    BY <1>1, <1>2 DEF WordUnresolved, CommandIncomplete, FailTry, session, CmdLocals
  <2> QED BY <2>1 DEF LInv, StackOfLine, FoundBelow, FoundAtRoot
<1>3. CASE CommandFound
  <2>1. /\ pc = "words" /\ pc' = "run" /\ mode' = mode /\ cmd' = cmd /\ try' = try
        /\ try.curr # try.start
    BY <1>3 DEF CommandFound, IsCommand, session
  <2> QED BY <2>1 DEF LInv, StackOfLine, FoundBelow, FoundAtRoot
<1> QED BY <1>2, <1>3

\* A step of the walk leaves a beginning of the stack.
LEMMA ClimbLine ==
  ASSUME LInv, PassKey \/ RetryAbove
  PROVE  StackOfLine' /\ FoundBelow' /\ FoundAtRoot'
<1>1. /\ pc = "climb" /\ cmd.climb # NoToken /\ cmd.child \notin Roots /\ LeaveList /\ ClimbOn
      /\ pc' \in {"words", "climb"} /\ IInv
  BY DEF PassKey, RetryAbove, LInv
<1>2. /\ cmd'.orig = cmd.orig /\ cmd.child \in YangToken
      /\ cmd.climb \in YangToken \cup {YangRoot}
      /\ \/ cmd.climb = cmd.child /\ \E n \in SNode : SKind[n] = "list" /\ cmd.child = FullToken(n)
         \/ cmd.climb = ParentToken(cmd.child)
      /\ mode' \in CommandMode
  BY <1>1, ClimbStep
<1>3. /\ mode \in CommandMode /\ IsPath(mode.nodes) /\ cmd.orig \in CommandMode
  BY <1>1 DEF IInv, TypeOK, SessionTypeOK, ParserTypeOK, CmdLocals, StackIsPath
<1>4. /\ Len(mode.nodes) \in Nat /\ Len(mode'.nodes) \in Nat /\ Len(cmd.orig.nodes) \in Nat
  BY <1>2, <1>3, ModeParts
<1>5. Starts(mode'.nodes, mode.nodes)
  <2>1. CASE mode' = mode
    BY <1>4, <2>1 DEF Starts
  <2>2. CASE mode' = PopNode(mode) /\ mode.nodes = << >>
    BY <1>4, <2>2 DEF PopNode, Operational, Starts
  <2>3. CASE mode' = PopNode(mode) /\ mode.nodes # << >>
    <3>1. /\ Len(mode'.nodes) = Len(mode.nodes) - 1
          /\ \A i \in 1..(Len(mode.nodes) - 1) : mode'.nodes[i] = mode.nodes[i]
      BY <1>3, <2>3, PopKeepsPath
    <3> QED BY <1>4, <3>1 DEF Starts
  <2> QED BY <1>1, <2>1, <2>2, <2>3 DEF LeaveList, MoveTo
<1>6. StackOfLine'
  <2>1. Starts(mode.nodes, cmd.orig.nodes)
    BY <1>1 DEF LInv, StackOfLine
  <2>2. Starts(mode'.nodes, cmd.orig.nodes)
    BY <1>4, <1>5, <2>1, StartsTransitive
  <2> QED BY <1>2, <2>2 DEF StackOfLine
<1>7. CASE PassKey
  <2>1. pc' = "climb"
    BY <1>7 DEF PassKey
  <2> QED BY <1>6, <2>1 DEF FoundBelow, FoundAtRoot
<1>8. CASE RetryAbove
  <2>1. pc' = "words" /\ try'.start = cmd.climb /\ try'.curr = cmd.climb /\ ~IsString(cmd.child)
    BY <1>8 DEF RetryAbove, TryFrom
  <2>2. cmd.child[2] = 0
    BY <1>2, <2>1, AboveYang, TokenShape, InnerToken
  <2>3. cmd.climb = ParentToken(cmd.child)
    BY <1>2, <2>2, InnerToken
  <2>4. LevelStart(cmd.climb)
    BY <1>2, <2>2, <2>3, AboveYang DEF LevelStart
  <2>5. cmd.climb \notin InternalToken
    BY <1>2, TokenShape DEF Roots
  <2> QED BY <1>6, <2>1, <2>4, <2>5 DEF FoundBelow, FoundAtRoot
<1> QED BY <1>7, <1>8

\* Every step of the program keeps the invariant.
LEMMA LineStep == LInv /\ [Next]_vars => LInv'
<1> SUFFICES ASSUME LInv, [Next]_vars PROVE LInv'
  OBVIOUS
<1>1. IInv /\ IInv'
  BY NextInvariant DEF LInv
<1>2. CASE \E line \in Lines : Enter(line)
  BY <1>1, <1>2, EnterLine DEF LInv
<1>3. CASE MatchWord
  BY <1>1, <1>3, MatchWordLine DEF LInv
<1>4. CASE WordUnresolved \/ CommandFound \/ CommandIncomplete
  BY <1>1, <1>4, AttemptLine DEF LInv
<1>5. CASE PassKey \/ RetryAbove
  BY <1>1, <1>5, ClimbLine DEF LInv
<1>6. CASE GiveUp \/ Edit \/ Call \/ Interrupt \/ Exited
  <2>1. pc' \in {"ready", "exited"}
    BY <1>6 DEF GiveUp, Return, Edit, SetRejected, SetApplied, Negated, Call, CmdConfig,
       CmdExitExec,
         CmdEnd, CmdExitConfig, CmdTop, CmdDiscard, CmdCommit, CmdReadCandidate, CmdPrint, Interrupt,
         Exited, vars
  <2> QED BY <1>1, <2>1, IdleLine DEF LInv
<1>7. CASE UNCHANGED vars
  BY <1>1, <1>7 DEF LInv, vars, session, StackOfLine, FoundBelow, FoundAtRoot
<1> QED BY <1>2, <1>3, <1>4, <1>5, <1>6, <1>7 DEF Next, Step, Parse

-----------------------------------------------------------------------------
(***************************************************************************)
(* Entries and edits.                                                       *)
(***************************************************************************)

\* The entries of a stack of CLI nodes are in a configuration.
Holds(cfg, nodes) ==
  \A i \in DOMAIN nodes : At(cfg, nodes[i].token[1], nodes[i].keys) # {}

\* Those of the beginning of a stack are, if all are.
LEMMA PrefixHolds ==
  ASSUME NEW cfg, NEW s \in Seq(CliNode), NEW t \in Seq(CliNode), Starts(s, t), Holds(cfg, t)
  PROVE  Holds(cfg, s)
<1>1. /\ DOMAIN s = 1..Len(s) /\ DOMAIN t = 1..Len(t) /\ Len(s) \in Nat /\ Len(t) \in Nat
  BY LenProperties
<1>2. \A i \in 1..Len(s) : i \in 1..Len(t) /\ s[i] = t[i]
  BY <1>1 DEF Starts
<1> QED BY <1>1, <1>2 DEF Holds

\* The lists of the CLI stack are around the target of an edit, and the target is
\* none of them: a list is not a command at its own level.
LEMMA StackAroundEdit ==
  ASSUME LInv, Editing, NEW i \in DOMAIN mode.nodes
  PROVE  LET list == mode.nodes[i].token[1] IN
         /\ i \in 1..Skip /\ list = Lists[i] /\ list \in SNode /\ SKind[list] = "list"
         /\ list \in Ancestors[Target] /\ list # Target
<1> DEFINE list == mode.nodes[i].token[1]
           start == try.start
<1>1. /\ IInv /\ pc = "run" /\ try.curr \in YangToken /\ IsFullCommand(try.curr)
      /\ try.curr = <<try.curr[1], try.curr[2]>> /\ try.curr[2] \in Nat
      /\ Target \in SNode /\ Target = try.curr[1] /\ Target \in Node
  BY EditToken DEF LInv, Editing, Target, Node
<1>2. i \in 1..Skip /\ Skip \in 0..Len(Lists) /\ Skip \in Nat /\ list = Lists[i]
  <2>1. mode \in CommandMode
    BY <1>1 DEF IInv, TypeOK, SessionTypeOK
  <2>2. i \in 1..Skip /\ Skip \in Nat
    BY <2>1, ModeParts DEF Skip
  <2> QED BY <1>1, <2>2, EditScope
<1>3. list \in SNode /\ SKind[list] = "list" /\ list \in Ancestors[Target]
  <2>1. i \in 1..Len(Lists)
    BY <1>2
  <2> QED BY <1>1, <1>2, <2>1, ListOnPath DEF Lists
<1>4. /\ mode.config /\ start \in YangToken \cup {YangRoot} /\ StackAround(start[1])
      /\ start[1] = Top \/ start[1] \in Ancestors[Target]
  BY <1>1 DEF IInv, ScopeMatchesStack
<1>5. Len(ListPath[start[1]]) = Skip /\ ListPath[start[1]][i] = list
  BY <1>4 DEF StackAround, Skip
<1>6. start[1] \in SNode /\ list \in Ancestors[start[1]] /\ start[1] \in Ancestors[Target]
  <2>1. start[1] # Top
    BY <1>2, <1>5, PathAssumption, EmptySeq
  <2>2. start[1] \in SNode /\ start[1] \in Node
    BY <1>1, <1>4, <2>1, AncestorPath DEF Node
  <2>3. i \in 1..Len(ListPath[start[1]])
    BY <1>2, <1>5
  <2> QED BY <1>4, <1>5, <2>1, <2>2, <2>3, ListOnPath
<1> HIDE DEF list, start
<1>7. ASSUME list = Target PROVE FALSE
  <2>1. start[1] = Target
    BY <1>1, <1>6, <1>7, SameNode
  <2>2. start = FullToken(Target)
    <3>1. LevelStart(start)
      BY <1>1, <1>4 DEF LInv, FoundBelow, start
    <3>2. start # YangRoot
      BY <1>6, RootsDiffer, SchemaAssumption
    <3>3. PICK n \in SNode : start = FullToken(n)
      BY <3>1, <3>2 DEF LevelStart
    <3> QED BY <2>1, <3>3, InnerToken
  <2>3. try.curr[2] = NArgs(Target)
    BY <1>1, <1>3, <1>7, InnerToken DEF IsFullCommand
  <2>4. try.curr = start
    BY <1>1, <2>2, <2>3 DEF FullToken
  <2> QED BY <1>1, <2>4 DEF LInv, FoundBelow, start
<1> QED BY <1>2, <1>3, <1>7 DEF list

\* An edit that is applied creates the entries it enters and keeps the others.
LEMMA SetHolds ==
  ASSUME LInv, SetApplied, Holds(candidate.tree, mode.nodes)
  PROVE  Holds(candidate'.tree, mode'.nodes)
<1> DEFINE new == mode.nodes \o PushedNodes
<1>1. /\ IInv /\ Editing /\ mode' = Configure(new)
      /\ candidate' = Some(NewPath(candidate.tree, Target, PathKeys, Value))
  BY DEF LInv, SetApplied, MoveTo
<1>2. /\ DOMAIN new = 1..Len(Lists) /\ \A i \in 1..Skip : new[i] = mode.nodes[i]
      /\ \A i \in (Skip + 1)..Len(Lists) : /\ new[i].token[1] = Lists[i]
                                           /\ new[i].keys = KeysOf(Lists[i], PathKeys)
  BY <1>1, PushKeepsPath
<1>3. /\ Skip \in Nat /\ Target \in Node /\ Len(Lists) \in Nat
  BY <1>1, EditScope, LenProperties DEF Node
<1>4. mode'.nodes = new /\ candidate'.tree = NewPath(candidate.tree, Target, PathKeys, Value)
  BY <1>1 DEF Configure, Some
<1>5. DOMAIN mode.nodes = 1..Skip
  BY <1>1, ModeParts DEF IInv, TypeOK, SessionTypeOK, Skip
<1> HIDE DEF new
<1>6. ASSUME NEW i \in 1..Len(Lists) PROVE At(candidate'.tree, new[i].token[1], new[i].keys) # {}
  <2>1. CASE i \in 1..Skip
    <3> DEFINE list == mode.nodes[i].token[1]
               keys == mode.nodes[i].keys
    <3>1. PICK e \in candidate.tree : e.node = list /\ e.keys = keys
      BY <1>5, <2>1 DEF Holds, At
    <3>2. SKind[list] = "list"
      BY <1>1, <1>5, <2>1, StackAroundEdit
    <3> HIDE DEF list, keys
    <3>3. e \in candidate'.tree
      BY <1>4, <3>1, <3>2 DEF NewPath, At
    <3>4. e \in At(candidate'.tree, list, keys)
      BY <3>1, <3>3 DEF At
    <3> QED BY <1>2, <2>1, <3>4 DEF list, keys
  <2>2. CASE i \notin 1..Skip
    <3> DEFINE e == [node |-> Lists[i], keys |-> KeysOf(Lists[i], PathKeys), val |-> None]
    <3>1. Lists[i] \in Ancestors[Target] /\ SKind[Lists[i]] = "list"
      BY <1>3, ListOnPath DEF Lists
    <3>2. e \in PathEntries(Target, PathKeys)
      BY <3>1 DEF PathEntries
    <3>3. e \in At(candidate'.tree, Lists[i], KeysOf(Lists[i], PathKeys))
      BY <1>4, <3>2 DEF NewPath, At
    <3>4. i \in (Skip + 1)..Len(Lists)
      BY <1>3, <2>2
    <3> QED BY <1>2, <3>3, <3>4
  <2> QED BY <2>1, <2>2
<1> QED BY <1>2, <1>4, <1>6 DEF Holds

\* "no" removes nothing around the level at which it was found.
LEMMA NegatedHolds ==
  ASSUME LInv, Negated, Holds(candidate.tree, mode.nodes)
  PROVE  Holds(candidate'.tree, mode'.nodes)
<1>1. Editing /\ mode' = mode
  BY DEF Negated
<1>2. PICK gone \in Removals(candidate.tree, Target, PathKeys) :
         candidate'.tree = candidate.tree \ gone
  BY DEF Negated, RemovedBy, Some
<1>3. ASSUME NEW i \in DOMAIN mode.nodes
      PROVE  At(candidate'.tree, mode.nodes[i].token[1], mode.nodes[i].keys) # {}
  <2> DEFINE list == mode.nodes[i].token[1]
             keys == mode.nodes[i].keys
  <2>1. list \in SNode /\ list \in Ancestors[Target] /\ list # Target /\ Target \in SNode
    BY <1>1, StackAroundEdit, EditToken DEF LInv, Target
  <2>2. PICK e \in candidate.tree : e.node = list /\ e.keys = keys
    BY DEF Holds, At
  <2> HIDE DEF list, keys
  <2>3. e \notin gone
    <3>1. CASE e.node = Target
      BY <2>1, <2>2, <3>1
    <3>2. CASE Target \in Ancestors[e.node]
      BY <2>1, <2>2, <3>2, SameNode
    <3> QED BY <3>1, <3>2 DEF Removals, At, Below
  <2>4. e \in At(candidate'.tree, list, keys)
    BY <1>2, <2>2, <2>3 DEF At
  <2> QED BY <2>4 DEF list, keys
<1> QED BY <1>1, <1>3 DEF Holds

\* "discard" is only found where the CLI stack is empty.
LEMMA DiscardAtRoot ==
  ASSUME LInv, CmdDiscard
  PROVE  mode.nodes = << >>
<1>1. pc = "run" /\ Action(try.curr) = "cmd_discard"
  BY DEF CmdDiscard, Calling
<1>2. try.curr \in Token
  BY <1>1 DEF LInv, IInv, TokenOfMode
<1>3. try.curr \in InternalToken /\ IsInternal(try.curr)
  <2>1. CASE try.curr \in YangToken
    BY <1>1, <2>1, TokenShape DEF Action
  <2> QED BY <1>2, <2>1, TokenShape DEF Token
<1>4. try.curr[1] \in DOMAIN Internal /\ Internal[try.curr[1]].tree = "config"
  BY <1>1, <1>3, TokenShape, DiscardAssumption DEF Action
<1> QED BY <1>1, <1>3, <1>4 DEF LInv, FoundAtRoot

-----------------------------------------------------------------------------
(***************************************************************************)
(* The theorem.                                                             *)
(***************************************************************************)

\* The part of OnlyRejectionDangles that speaks of a step.
DangleStep ==
  pc' = "ready" /\ StackExists(cmd.orig.nodes) /\ ~StackExists(mode.nodes)' => SetRejected

\* Every step of the program from a state of the invariant is a DangleStep.
LEMMA DangleStepHolds ==
  ASSUME LInv, Next
  PROVE  DangleStep
<1> SUFFICES ASSUME pc' = "ready", Holds(candidate.tree, cmd.orig.nodes), ~SetRejected
             PROVE  Holds(candidate'.tree, mode'.nodes)
  BY DEF DangleStep, StackExists, Holds
<1>1. /\ IInv /\ mode \in CommandMode /\ IsPath(mode.nodes)
      /\ cmd.orig \in CommandMode /\ IsPath(cmd.orig.nodes) /\ (~cmd.orig.config => cmd.orig.nodes = << >>)
      /\ mode.nodes \in Seq(CliNode) /\ cmd.orig.nodes \in Seq(CliNode)
  <2>1. mode \in CommandMode /\ cmd.orig \in CommandMode
    BY DEF LInv, IInv, TypeOK, SessionTypeOK, ParserTypeOK, CmdLocals
  <2> QED BY <2>1, ModeParts DEF LInv, IInv, TypeOK, ParserTypeOK, StackIsPath
<1>2. pc = "run" => Holds(candidate.tree, mode.nodes)
  BY <1>1, PrefixHolds DEF LInv, StackOfLine
<1>3. ASSUME mode'.nodes = << >> PROVE Holds(candidate'.tree, mode'.nodes)
  BY <1>3 DEF Holds
<1>4. CASE GiveUp
  <2>1. pc = "climb" /\ mode' = cmd.orig
    BY <1>1, <1>4, ModeSetKeeps DEF GiveUp
  <2>2. candidate' = candidate
    BY <1>1, <2>1, LookupStepHolds DEF LookupStep
  <2> QED BY <2>1, <2>2
<1>5. CASE SetApplied
  BY <1>2, <1>5, SetHolds DEF SetApplied, Editing
<1>6. CASE Negated
  BY <1>2, <1>6, NegatedHolds DEF Negated, Editing
<1>7. CASE CmdConfig \/ CmdEnd
  <2>1. PICK m \in {Configure(<< >>), Operational} : ModeSet(m) /\ UNCHANGED <<running, hostname>>
    BY <1>7 DEF CmdConfig, CmdEnd
  <2>2. m \in CommandMode /\ m.nodes = << >> /\ IsPath(m.nodes)
    <3>1. << >> \in Seq(CliNode) /\ IsPath(<< >>)
      BY EmptySeq DEF IsPath
    <3>2. /\ Configure(<< >>) \in CommandMode /\ Configure(<< >>).nodes = << >>
          /\ Operational \in CommandMode /\ Operational.nodes = << >>
      BY <3>1, ConfigureType
    <3> QED BY <2>1, <3>1, <3>2
  <2>3. mode' = m
    BY <1>1, <2>1, <2>2, ModeSetKeeps
  <2> QED BY <1>3, <2>2, <2>3
<1>8. CASE CmdTop
  BY <1>3, <1>8 DEF CmdTop, MoveTo, Configure
<1>9. CASE CmdExitConfig
  <2>1. pc = "run" /\ candidate' = candidate /\ mode' = PopNode(mode)
    BY <1>9 DEF CmdExitConfig, Calling, MoveTo
  <2>2. CASE mode.nodes = << >>
    BY <1>3, <2>1, <2>2 DEF PopNode, Operational
  <2>3. CASE mode.nodes # << >>
    <3>1. /\ mode' \in CommandMode /\ Len(mode'.nodes) = Len(mode.nodes) - 1
          /\ \A i \in 1..(Len(mode.nodes) - 1) : mode'.nodes[i] = mode.nodes[i]
      BY <1>1, <2>1, <2>3, PopKeepsPath
    <3>2. mode'.nodes \in Seq(CliNode)
      BY <3>1 DEF CommandMode
    <3>3. Len(mode.nodes) \in Nat
      BY <1>1, ModeParts
    <3>4. Starts(mode'.nodes, mode.nodes)
      BY <3>1, <3>3 DEF Starts
    <3> QED BY <1>1, <1>2, <2>1, <3>2, <3>4, PrefixHolds
  <2> QED BY <2>2, <2>3
<1>10. CASE CmdDiscard
  <2>1. mode' = mode /\ mode.nodes = << >>
    BY <1>10, DiscardAtRoot DEF CmdDiscard
  <2> QED BY <1>3, <2>1
<1>11. CASE CmdCommit \/ CmdReadCandidate \/ CmdPrint
  <2>1. pc = "run" /\ mode' = mode /\ candidate' = candidate
    BY <1>11 DEF CmdCommit, CmdReadCandidate, CmdPrint, Calling, session
  <2> QED BY <1>2, <2>1
<1>12. CASE Parse /\ ~GiveUp
  BY <1>12 DEF Parse, MatchWord, WordUnresolved, CommandFound, CommandIncomplete, FailTry, PassKey,
     RetryAbove
<1>13. CASE \/ \E line \in Lines : Enter(line)
            \/ Interrupt \/ Exited \/ CmdExitExec
  BY <1>13 DEF Enter, Interrupt, Exited, CmdExitExec, vars
<1> QED BY <1>4, <1>5, <1>6, <1>7, <1>8, <1>9, <1>10, <1>11, <1>12, <1>13
     DEF Next, Step, Edit, Call

\* LInv holds throughout.
LEMMA LineInvariance == Spec => []LInv
<1>1. Init => LInv
  BY InitInvariant DEF Init, LInv, StackOfLine, FoundBelow, FoundAtRoot
<1> QED BY <1>1, LineStep, PTL DEF Spec

\* A command leaves the CLI in an entry that is not in the candidate only when it
\* started in one, or when libyang refused an edit whose CLI nodes were already
\* entered (session.rs edit_candidate), for every schema and all lines.
THEOREM EntriesStay == Spec => OnlyRejectionDangles
<1>1. LInv /\ [Next]_vars => [DangleStep]_vars
  BY DangleStepHolds
<1>2. Spec => [][DangleStep]_vars
  BY <1>1, LineInvariance, PTL DEF Spec
<1> QED BY <1>2 DEF OnlyRejectionDangles, DangleStep
=============================================================================
