------------------------------ MODULE MC_Schema ------------------------------
(***************************************************************************)
(* A small schema with the shapes that matter, and the words of the lines   *)
(* that exercise them.                                                      *)
(*                                                                          *)
(*   hostname               leaf                                            *)
(*   interfaces             container                                       *)
(*     interface NAME       list                                            *)
(*       enabled VALUE      leaf: shares the prefix "en" with "end"         *)
(*       ipv4               presence container                              *)
(*         address IP       list in a list                                  *)
(*   route DEST NEXTHOP     list with two keys                              *)
(*     tag VALUE            leaf-list                                       *)
(***************************************************************************)
EXTENDS Configuration, InternalCommands

Node(name, parent, kind, keys) == [name |-> name, parent |-> parent, kind |-> kind, keys |-> keys]

\* In the order in which gen_cmds visits them: siblings sorted by name.
Schema == <<
  Node("hostname", "yang", "leaf", 0),
  Node("interfaces", "yang", "np-container", 0),
  Node("interface", "interfaces", "list", 1),
  Node("enabled", "interface", "leaf", 0),
  Node("ipv4", "interface", "p-container", 0),
  Node("address", "ipv4", "list", 1),
  Node("route", "yang", "list", 2),
  Node("tag", "route", "leaf-list", 0) >>

MCTop == "yang"
MCSNode == {Schema[i].name : i \in DOMAIN Schema}

SchemaPosition(n) == CHOOSE i \in DOMAIN Schema : Schema[i].name = n
Row(n) == Schema[SchemaPosition(n)]

\* The columns of the table, and what accumulates along the parent links.  (The
\* empty functions make TLC evaluate each table once.)
MCSParent == [n \in MCSNode |-> Row(n).parent] @@ << >>
MCSKind == [n \in MCSNode |-> Row(n).kind] @@ << >>
MCKeyCount == [n \in MCSNode |-> Row(n).keys] @@ << >>
MCSName == [n \in MCSNode |-> n] @@ << >>

PathTo[n \in MCSNode \cup {MCTop}] ==
  IF n = MCTop THEN << >> ELSE Append(PathTo[MCSParent[n]], n)
IsList(n) == MCSKind[n] = "list"
MCDepth == [n \in DOMAIN PathTo |-> Len(PathTo[n])] @@ << >>
MCAncestors == [n \in DOMAIN PathTo |-> ToSet(PathTo[n])] @@ << >>
MCListPath == [n \in DOMAIN PathTo |-> SelectSeq(PathTo[n], IsList)] @@ << >>
MCKeyDepth == [n \in DOMAIN PathTo |->
                 FoldSeq(LAMBDA list, sum : sum + MCKeyCount[list], 0, MCListPath[n])] @@ << >>

\* The tokens of the schema are created before those of the file.
MCOrder == [n \in MCSNode |-> SchemaPosition(n)]
           @@ [id \in DOMAIN XmlOrder |-> Len(Schema) + XmlOrder[id]]
MCInternal == XmlInternal

Values == {"a", "b", "bad", "x", "NAME"}
Names == MCSNode \cup {XmlTokens[i].token.name : i \in DOMAIN XmlTokens}
\* Abbreviations used in the lines, with the names they are a prefix of.
Abbreviations == {<<"en", "enabled">>, <<"en", "end">>, <<"i", "interfaces">>,
                  <<"i", "interface">>, <<"i", "ipv4">>, <<"t", "tag">>, <<"t", "top">>,
                  <<"ex", "exit">>, <<"con", "configure">>, <<"interface", "interfaces">>,
                  <<"det", "detail">>}
MCWord == Names \cup Values \cup {x[1] : x \in Abbreviations}
MCAbbrev == Abbreviations \cup {<<n, n>> : n \in Names}
MCBadWord == {"bad"}

HostEntry(v) == [node |-> "hostname", keys |-> << >>, val |-> v]
InterfaceEntry(k) == [node |-> "interface", keys |-> <<k>>, val |-> "none"]
MCInitialConfig == {{}, {HostEntry("b"), InterfaceEntry("a")}}
=============================================================================
