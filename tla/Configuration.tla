--------------------------- MODULE Configuration ---------------------------
(***************************************************************************)
(* What a session works on: configurations, the CLI stack of the            *)
(* configuration mode and the prompt.  Shared by Cli, which follows the     *)
(* code step by step, and Shell, which says what a line does.               *)
(***************************************************************************)
EXTENDS CommandTree, SequencesExt

CONSTANTS
  Lines,       \* the command lines a user may enter, as sequences of words; one that
               \* normalize_input_line leaves empty changes nothing and is left out
  BadWord,     \* the words that libyang rejects as a key or as a value
  HostLeaf,    \* the leaf /ietf-system:system/hostname
  DefaultHostname,
  InitialConfig,  \* configurations that the daemon may return at start-up
  None         \* no value

ASSUME LinesAssumption ==
  /\ Lines \subseteq Seq(Word) \ {<< >>}
  /\ HostLeaf \in SNode
  /\ InitialConfig \subseteq SUBSET [node : SNode, keys : Seq(Word), val : Word \cup {None}]

-----------------------------------------------------------------------------
(***************************************************************************)
(* Configurations.  A data node that can be created by a command is an      *)
(* entry: its schema node, the keys of all the lists above it (and of the   *)
(* list itself) in one sequence, and the value of a leaf or leaf-list.      *)
(***************************************************************************)

Entry == [node : SNode, keys : Seq(Word), val : Word \cup {None}]
Config == SUBSET Entry

KeysOf(n, keys) == SubSeq(keys, 1, KeyDepth[n])

\* The entry with this path: what find_path looks for.
At(cfg, n, keys) == {e \in cfg : e.node = n /\ e.keys = keys}

Below(cfg, n, keys) == {e \in cfg : n \in Ancestors[e.node] /\ KeysOf(n, e.keys) = keys}

\* Lists and presence containers on the path, which libyang creates if missing.
PathEntries(n, keys) ==
  {[node |-> a, keys |-> KeysOf(a, keys), val |-> None] :
     a \in {x \in Ancestors[n] : SKind[x] \in {"list", "p-container"}}}

\* DataTree::new_path: a leaf is replaced, a leaf-list gets one more entry.
NewPath(cfg, n, keys, val) ==
  (IF SKind[n] = "leaf" THEN cfg \ At(cfg, n, keys) ELSE cfg)
  \cup PathEntries(n, keys)
  \cup {[node |-> n, keys |-> keys, val |-> val]}

\* libyang refuses a path with such a key or value.
Refused(keys, val) == \E w \in BadWord : val = w \/ \E i \in DOMAIN keys : keys[i] = w

\* What "no" may remove.  remove() is only called for a path that find_path
\* knows.  The path has no value in it: for a leaf-list libyang either finds
\* nothing or finds some entry of it, whatever the value that was typed.
Removals(cfg, n, keys) ==
  IF SKind[n] = "leaf-list"
  THEN {{}} \cup {{e} : e \in At(cfg, n, keys)}
  ELSE {IF At(cfg, n, keys) = {} THEN {} ELSE Below(cfg, n, keys)}

HostnameOf(cfg) ==
  IF At(cfg, HostLeaf, << >>) = {} THEN DefaultHostname
  ELSE (CHOOSE e \in At(cfg, HostLeaf, << >>) : TRUE).val

-----------------------------------------------------------------------------
(***************************************************************************)
(* The mode of a session and the options it holds (session.rs).             *)
(***************************************************************************)

Operational == [config |-> FALSE, nodes |-> << >>]
Configure(nodes) == [config |-> TRUE, nodes |-> nodes]

NoCandidate == [some |-> FALSE, tree |-> {}]
Some(cfg) == [some |-> TRUE, tree |-> cfg]

\* CommandMode::token and CommandMode::data_path.
WdToken(m) ==
  IF ~m.config THEN ExecRoot
  ELSE IF m.nodes = << >> THEN YangRoot ELSE Last(m.nodes).token

BaseKeys(m) == IF m.nodes = << >> THEN << >> ELSE Last(m.nodes).keys

PromptOf(host, m) ==
  [host |-> host, config |-> m.config,
   node |-> IF m.nodes = << >> THEN << >> ELSE <<Last(m.nodes)>>]

\* mode_config_exit
PopNode(m) ==
  IF m.nodes = << >> THEN Operational
  ELSE Configure(Front(m.nodes))

CliNode == [token : YangToken, keys : Seq(Word)]
CommandMode == [config : BOOLEAN, nodes : Seq(CliNode)]
Host == Word \cup {None, DefaultHostname}
Prompt == [host : Host, config : BOOLEAN, node : Seq(CliNode)]
=============================================================================
