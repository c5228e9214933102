-------------------------- MODULE InternalCommands --------------------------
(***************************************************************************)
(* The tokens that token_xml.rs loads from internal_commands.xml: the trees *)
(* "exec", "config" and "config-default", in the order of the file.  A      *)
(* token is identified by its path in the file.  All of the two             *)
(* configuration trees is here except the output formats of "show"; of the  *)
(* many "show" and "clear" commands of the exec tree, which change nothing  *)
(* in the session, one subtree stands for all: it has the shape they share, *)
(* a keyword and a string argument offered side by side.                    *)
(***************************************************************************)
EXTENDS Integers, Sequences, TLC

\* A token element: name, kind="string", argument= and cmd= attributes, the
\* path of the element it is nested in and the name of the enclosing tree.
Element(tree, parent, name, string, argument, callback) ==
  [id |-> parent \o " " \o name,
   token |-> [parent |-> parent, tree |-> tree, name |-> name, string |-> string,
              argument |-> argument, action |-> callback]]

ExecTokens ==
  LET Exec(parent, name, callback) == Element("exec", parent, name, FALSE, FALSE, callback) IN
  << Exec("exec", "configure", "cmd_config"),
     Exec("exec", "exit", "cmd_exit_exec"),
     Exec("exec", "end", "cmd_end"),
     Exec("exec", "list", "cmd_list"),
     Exec("exec", "show", "none"),
     Element("exec", "exec show", "running", FALSE, TRUE, "cmd_show_running"),
     Element("exec", "exec show", "ospfv2", FALSE, TRUE, "none"),
     Exec("exec show ospfv2", "interface", "cmd_show"),
     Element("exec", "exec show ospfv2 interface", "detail", FALSE, TRUE, "cmd_show"),
     Element("exec", "exec show ospfv2 interface", "NAME", TRUE, TRUE, "cmd_show"),
     Element("exec", "exec show ospfv2 interface NAME", "detail", FALSE, TRUE, "cmd_show") >>

ConfigTokens ==
  << Element("config", "config", "discard", FALSE, FALSE, "cmd_discard"),
     Element("config", "config", "validate", FALSE, FALSE, "cmd_validate") >>

DefaultTokens ==
  LET Default(parent, name, callback) == Element("config-default", parent, name, FALSE, FALSE, callback) IN
  << Default("config-default", "no", "none"),
     Default("config-default", "commit", "cmd_commit"),
     Default("config-default commit", "comment", "none"),
     Element("config-default", "config-default commit comment", "comment", TRUE, TRUE, "cmd_commit"),
     Default("config-default", "end", "cmd_end"),
     Default("config-default", "exit", "cmd_exit_config"),
     Default("config-default", "list", "cmd_list"),
     Default("config-default", "pwd", "cmd_pwd"),
     Default("config-default", "top", "cmd_top"),
     Default("config-default", "show", "none"),
     Element("config-default", "config-default show", "candidate", FALSE, TRUE, "cmd_show_candidate"),
     Element("config-default", "config-default show", "running", FALSE, TRUE, "cmd_show_running"),
     Default("config-default show", "changes", "cmd_show_config_changes") >>

\* token_xml::gen_cmds walks the file once, so the order of the elements is
\* the order in which the tokens are created.
XmlTokens == ExecTokens \o ConfigTokens \o DefaultTokens

\* The position of the element with this identifier.
PositionIn(tokens, id) == CHOOSE i \in DOMAIN tokens : tokens[i].id = id
IdsIn(tokens) == {tokens[i].id : i \in DOMAIN tokens}
TokensById(tokens) == [id \in IdsIn(tokens) |-> tokens[PositionIn(tokens, id)].token]
PositionsById(tokens) == [id \in IdsIn(tokens) |-> PositionIn(tokens, id)]

\* The empty function is only there for TLC, which then evaluates a table once.
XmlInternal == TokensById(XmlTokens) @@ << >>
XmlOrder == PositionsById(XmlTokens) @@ << >>
=============================================================================
