---------------------------- MODULE CommandTree ----------------------------
(***************************************************************************)
(* The command tree of holo-cli (token.rs): an arena of tokens under four   *)
(* roots.  The tokens of configuration commands are generated from the      *)
(* YANG schema (token_yang.rs); the others are loaded from                  *)
(* internal_commands.xml (token_xml.rs, see InternalCommands).              *)
(*                                                                          *)
(* gen_cmds creates one word token for a schema node and one string token   *)
(* for each argument it takes, each the child of the one before, so a token *)
(* is named here by the pair <<node, number of arguments so far>>.  Schema- *)
(* only nodes (choice, case) get no token and are not in SNode, and list    *)
(* keys are the arguments of their list.                                    *)
(***************************************************************************)
EXTENDS Integers, Sequences

CONSTANTS
  Word,        \* the words of a command line: names, abbreviations, values
  Abbrev,      \* the pairs <<w, name>> such that name starts with w
  SNode,       \* the configuration nodes of the YANG schema
  Top,         \* what the parent link of a top-level schema node leads to
  SParent,     \* parent of a schema node
  SKind,       \* kind of a schema node
  KeyCount,    \* number of keys of a list, 0 for the other nodes
  SName,       \* name of a schema node
  Depth,       \* length of the path from Top to a schema node
  Ancestors,   \* snode.inclusive_ancestors(), as a set
  ListPath,    \* the lists among them, from the root down
  KeyDepth,    \* how many keys those lists have together
  Internal,    \* the tokens of internal_commands.xml, by identifier
  Order        \* order of creation: token_yang::gen_cmds, then token_xml::gen_cmds

\* The four roots of Commands; none of them holds a token.
ExecRoot == <<"exec", 0>>
YangRoot == <<Top, 0>>
ConfigRoot == <<"config", 0>>
DefaultRoot == <<"config-default", 0>>
Roots == {ExecRoot, YangRoot, ConfigRoot, DefaultRoot}
Trees == {"exec", "config", "config-default"}

SchemaKind == {"np-container", "p-container", "list", "leaf", "empty-leaf", "leaf-list"}
Inner == {"np-container", "p-container", "list"}

\* Callbacks that only make sense in one mode, and the others.  "cmd_show"
\* stands for the show and clear commands that leave the session alone.
ExecCallback == {"cmd_config", "cmd_exit_exec"}
ConfigCallback == {"cmd_exit_config", "cmd_top", "cmd_discard", "cmd_commit",
                   "cmd_validate", "cmd_show_candidate", "cmd_show_config_changes"}
PlainCallback == {"cmd_end", "cmd_list", "cmd_pwd", "cmd_show_running", "cmd_show"}
Callback == ExecCallback \cup ConfigCallback \cup PlainCallback

InternalRecord ==
  [parent : DOMAIN Internal \cup Trees, tree : Trees, name : Word,
   string : BOOLEAN, argument : BOOLEAN, action : Callback \cup {"none"}]

\* Every name starts with itself, and what starts with a word starts with the
\* words that one starts with.
ASSUME WordAssumption ==
  /\ Abbrev \subseteq Word \X Word
  /\ \A n \in SNode : <<SName[n], SName[n]>> \in Abbrev
  /\ \A c \in DOMAIN Internal : <<Internal[c].name, Internal[c].name>> \in Abbrev
  /\ \A v \in Abbrev, w \in Abbrev : v[2] = w[1] => <<v[1], w[2]>> \in Abbrev

\* The schema is a forest below Top, every configuration list has a key, and
\* only containers and lists have children.
ASSUME SchemaAssumption ==
  /\ Top \notin SNode
  /\ Top \notin Trees
  /\ SParent \in [SNode -> SNode \cup {Top}]
  /\ SKind \in [SNode -> SchemaKind]
  /\ KeyCount \in [SNode -> Nat]
  /\ SName \in [SNode -> Word]
  /\ Depth \in [SNode \cup {Top} -> Nat]
  /\ Order \in [SNode \cup DOMAIN Internal -> Nat]
  /\ \A n \in SNode :
       /\ (SKind[n] = "list") <=> (KeyCount[n] > 0)
       /\ Depth[SParent[n]] < Depth[n]
       /\ SParent[n] # Top => SKind[SParent[n]] \in Inner

\* What walking the parent links up to the root yields.
ASSUME PathAssumption ==
  /\ Ancestors \in [SNode \cup {Top} -> SUBSET SNode]
  /\ ListPath \in [SNode \cup {Top} -> Seq(SNode)]
  /\ KeyDepth \in [SNode \cup {Top} -> Nat]
  /\ Ancestors[Top] = {} /\ ListPath[Top] = << >> /\ KeyDepth[Top] = 0
  /\ \A n \in SNode :
       /\ Ancestors[n] = Ancestors[SParent[n]] \cup {n}
       /\ ListPath[n] = ListPath[SParent[n]] \o (IF SKind[n] = "list" THEN <<n>> ELSE << >>)
       /\ KeyDepth[n] = KeyDepth[SParent[n]] + KeyCount[n]

\* The trees of the XML file are disjoint, and a callback that needs one mode
\* is only found in the trees of that mode.
ASSUME InternalAssumption ==
  /\ DOMAIN Internal \cap (SNode \cup {Top} \cup Trees) = {}
  /\ Internal \in [DOMAIN Internal -> InternalRecord]
  /\ SNode \cap Trees = {}
  /\ \A c \in DOMAIN Internal :
       /\ Internal[c].parent \in Trees => Internal[c].tree = Internal[c].parent
       /\ Internal[c].parent \notin Trees => Internal[c].tree = Internal[Internal[c].parent].tree
       /\ Internal[c].action \in ExecCallback => Internal[c].tree = "exec"
       /\ Internal[c].action \in ConfigCallback => Internal[c].tree # "exec"

\* No two nodes, or elements of the file, have their tokens created at once, and
\* those of the schema come first.
ASSUME OrderAssumption ==
  /\ \A c, d \in SNode \cup DOMAIN Internal : Order[c] = Order[d] => c = d
  /\ \A n \in SNode, c \in DOMAIN Internal : Order[n] < Order[c]

\* "discard" is in the tree of the root of the configuration alone, where no CLI
\* node can be left in an entry that goes.
ASSUME DiscardAssumption ==
  \A c \in DOMAIN Internal : Internal[c].action = "cmd_discard" => Internal[c].tree = "config"

-----------------------------------------------------------------------------
(***************************************************************************)
(* The arena: the tokens, their parents and their attributes.               *)
(***************************************************************************)

\* String tokens that add_tokens puts after the word of n.
NArgs(n) ==
  CASE n \notin SNode -> 0
    [] n \in SNode /\ SKind[n] = "list" -> KeyCount[n]
    [] n \in SNode /\ SKind[n] \in {"leaf", "leaf-list"} -> 1
    [] OTHER -> 0

YangToken == UNION {{n} \X (0..NArgs(n)) : n \in SNode}
InternalToken == (DOMAIN Internal) \X {0}
Token == YangToken \cup InternalToken
IsInternal(t) == t[1] \in DOMAIN Internal

\* The last token of a node, below which those of its children are added.
FullToken(n) == <<n, NArgs(n)>>

ParentToken(t) ==
  IF IsInternal(t) THEN <<Internal[t[1]].parent, 0>>
  ELSE IF t[2] > 0 THEN <<t[1], t[2] - 1>>
  ELSE FullToken(SParent[t[1]])

Children(t) == {u \in Token : ParentToken(u) = t}

TokenName(t) == IF IsInternal(t) THEN Internal[t[1]].name ELSE SName[t[1]]

IsString(t) == IF IsInternal(t) THEN Internal[t[1]].string ELSE t[2] > 0

HasArgument(t) == IF IsInternal(t) THEN Internal[t[1]].argument ELSE t[2] > 0

\* Mutant: all the tokens of a list are marked as leading to its CLI node.
NodeUpdateAll(t) == t[1] \in SNode /\ SKind[t[1]] = "list"

NodeUpdate(t) == t[1] \in SNode /\ t[2] = 0 /\ SKind[t[1]] = "list"

\* is_full_command: the tokens of a schema node at which a command may end.
IsFullCommand(t) ==
  CASE SKind[t[1]] \in {"p-container", "empty-leaf"} -> TRUE
    [] SKind[t[1]] = "list" -> t[2] = KeyCount[t[1]]
    [] SKind[t[1]] \in {"leaf", "leaf-list"} -> t[2] = 1
    [] OTHER -> FALSE

Action(t) ==
  IF IsInternal(t) THEN Internal[t[1]].action
  ELSE IF IsFullCommand(t) THEN "edit" ELSE "none"

-----------------------------------------------------------------------------
(***************************************************************************)
(* Token lookup (parser.rs get_tokens, find_matching_tokens and             *)
(* find_exact_matching_token, on Token::matches).                           *)
(***************************************************************************)

\* Token::matches: a string token matches any word, exactly or not.
Matches(t, w) == IsString(t) \/ <<w, TokenName(t)>> \in Abbrev
MatchesExactly(t, w) == IsString(t) \/ TokenName(t) = w

\* Mutant: the commands of the root of the configuration are known everywhere.
OfferedParentsAll(t, addInternal) ==
  {t} \cup (IF addInternal THEN {ConfigRoot, DefaultRoot} ELSE {})

\* In configuration mode internal commands can be the first word: some at the
\* root, the others at every node.
OfferedParents(t, addInternal) ==
  {t} \cup (IF addInternal THEN {DefaultRoot} ELSE {})
      \cup (IF addInternal /\ t = YangRoot THEN {ConfigRoot} ELSE {})

GetTokens(t, addInternal) ==
  {u \in Token : ParentToken(u) \in OfferedParents(t, addInternal)}

MatchingTokens(t, addInternal, w) == {u \in GetTokens(t, addInternal) : Matches(u, w)}

\* Of the tokens that match a word: the only one, or the first exact one.
Chosen(M, w) ==
  {u \in M : \/ M = {u}
             \/ /\ MatchesExactly(u, w)
                /\ \A v \in M : MatchesExactly(v, w) => Order[u[1]] <= Order[v[1]]}

\* The token a word selects.  At most one qualifies, and none does when the word
\* is unknown or ambiguous.
Selected(t, addInternal, w) == Chosen(MatchingTokens(t, addInternal, w), w)

-----------------------------------------------------------------------------
(***************************************************************************)
(* What a line means at a level: the token and the arguments it leads to.   *)
(***************************************************************************)

\* Before the first word.
NothingRead(level) == [level |-> level, token |-> level, negate |-> FALSE, args |-> << >>]

\* c after one more word, which selected token t.
Taking(c, t, word, first) ==
  IF first /\ TokenName(t) = "no" THEN [c EXCEPT !.negate = TRUE]
  ELSE [c EXCEPT !.token = t,
          !.args = IF ~HasArgument(t) THEN @
                   ELSE Append(@, IF IsString(t) THEN word ELSE TokenName(t))]

\* What the readings C become with one more word: each word selects at most one
\* token, so there is at most one at any time.
TakingWord(C, config, word, first) ==
  UNION {{Taking(c, t, word, first) : t \in Selected(c.token, first /\ config, word)} : c \in C}

\* The readings of a line at a level after each number of its words.
ReadingsAfter(level, config, words) ==
  LET after[i \in 0..Len(words)] ==
        IF i = 0 THEN {NothingRead(level)}
        ELSE TakingWord(after[i - 1], config, words[i], i = 1)
  IN after

Readings(level, config, words) == ReadingsAfter(level, config, words)[Len(words)]
=============================================================================
