----------------------------- MODULE SavedConfig -----------------------------
(***************************************************************************)
(* A configuration that was printed as commands (cmd_show_config_cmds) and  *)
(* is read back with --file.  Each data node becomes a line of its own that *)
(* starts below the nearest list around it: which entry it configures       *)
(* depends on where the lines before it have left the CLI, also when they   *)
(* were refused.                                                            *)
(*                                                                          *)
(* Values are words.  The printed text has comments and indentation, too,   *)
(* which normalize_input_line removes.                                      *)
(***************************************************************************)
EXTENDS Batch, FiniteSets

CONSTANT SavedConfigs   \* configurations that are printed

\* What libyang has in a data tree: nodes that commands can create, with the
\* keys of the lists on their path and a value where they have one, below the
\* entries of that path; and a leaf has one value.
DataTree(cfg) ==
  /\ cfg \in SUBSET Entry /\ IsFiniteSet(cfg)
  /\ \A e \in cfg :
       /\ SKind[e.node] # "np-container"
       /\ Len(e.keys) = KeyDepth[e.node]
       /\ e.val # None <=> SKind[e.node] \in {"leaf", "leaf-list"}
       /\ PathEntries(e.node, e.keys) \subseteq cfg
       /\ SKind[e.node] = "leaf" => At(cfg, e.node, e.keys) = {e}

ASSUME SavedAssumption == None \notin BadWord /\ \A cfg \in SavedConfigs : DataTree(cfg)

\* Paths go from node to node.
ASSUME DepthAssumption == Depth[Top] = 0 /\ \A n \in SNode : Depth[n] = Depth[SParent[n]] + 1

VARIABLES saved,  \* the configuration that was printed
          file    \* its lines that have not been read

restore == <<batch, saved, file>>

-----------------------------------------------------------------------------
\* The names of the schema nodes on the path to n, below depth.
NamesBelow(n, depth) ==
  [i \in 1..(Depth[n] - depth) |-> SName[CHOOSE a \in Ancestors[n] : Depth[a] = depth + i]]

\* The nearest list around a node, not counting the node.
Outer(n) == IF ListPath[SParent[n]] = << >> THEN Top ELSE Last(ListPath[SParent[n]])

\* Mutant: the keys of the lists around it are printed, too.
PrintedWithAllKeys(e) ==
  NamesBelow(e.node, Depth[Outer(e.node)])
    \o e.keys
    \o (IF e.val = None THEN << >> ELSE <<e.val>>)

\* The line of an entry: the names from the nearest list around it down to it,
\* its own keys if it is a list, its value if it has one.
Printed(e) ==
  NamesBelow(e.node, Depth[Outer(e.node)])
    \o SubSeq(e.keys, KeyDepth[Outer(e.node)] + 1, Len(e.keys))
    \o (IF e.val = None THEN << >> ELSE <<e.val>>)

\* The traversal is depth-first: parents come first, and nothing else comes
\* between the nodes below one node.
DepthFirst(order) ==
  \A i, j \in DOMAIN order : i < j =>
    /\ order[i] \notin Below(ToSet(order), order[j].node, order[j].keys) \ {order[j]}
    /\ \A n \in Ancestors[order[i].node] \cap Ancestors[order[j].node] :
         KeysOf(n, order[i].keys) = KeysOf(n, order[j].keys) =>
           \A k \in i..j : order[k] \in Below(ToSet(order), n, KeysOf(n, order[i].keys))

Files(cfg) ==
  {[i \in DOMAIN order |-> Printed(order[i])] : order \in {s \in SetToSeqs(cfg) : DepthFirst(s)}}

-----------------------------------------------------------------------------
SavedInit ==
  /\ BatchInit
  /\ saved \in SavedConfigs
  /\ file \in Files(saved)

SavedLine ==
  /\ stage = "lines" /\ line = << >> /\ file # << >>
  /\ line' = Head(file)
  /\ file' = Tail(file)
  /\ UNCHANGED <<state, stage, saved>>

SavedNext ==
  \/ SavedLine
  \/ ReadFile /\ UNCHANGED <<saved, file>>
  \/ LineEntered /\ UNCHANGED <<saved, file>>
  \/ file = << >> /\ EndOfFile /\ UNCHANGED <<saved, file>>
  \/ FinalCommit /\ UNCHANGED <<saved, file>>
  \/ Done /\ UNCHANGED <<saved, file>>

SavedSpec == SavedInit /\ [][SavedNext]_restore

-----------------------------------------------------------------------------
(***************************************************************************)
(* What must be true of the names for a printed line to be read where it    *)
(* was meant, in any order of the lines.  YANG promises only part of it.    *)
(***************************************************************************)

\* The nodes below a node have different names, and none is "no".
NamesDiffer ==
  /\ \A m, n \in SNode : SParent[m] = SParent[n] /\ SName[m] = SName[n] => m = n
  /\ \A n \in SNode : SName[n] # "no"

\* The levels between the list a line starts below and the entry of p, where the
\* CLI stands after the line of p.
LevelsBetween(e, p) ==
  {m \in Ancestors[IF SKind[p.node] = "list" THEN p.node ELSE Outer(p.node)] :
     m # Outer(e.node) /\ (Outer(e.node) = Top \/ Outer(e.node) \in Ancestors[m])}

\* No level further in knows the first word of a line.
NoneNearer ==
  \A cfg \in SavedConfigs : \A e, p \in cfg : \A m \in LevelsBetween(e, p) :
    Selected(FullToken(m), TRUE, Head(Printed(e))) = {}

-----------------------------------------------------------------------------
\* What is left of a configuration where the leaves of another one are set.
Except(cfg, other) ==
  {e \in cfg : SKind[e.node] = "leaf" => At(other, e.node, e.keys) = {}}

\* Reading a printed configuration back restores every entry that libyang does
\* not refuse, in the place where it was, and touches nothing else: a refused
\* line takes the entries below it with it and no others.
FileRestores ==
  stage = "commit" =>
    LET accepted == {e \in saved : ~Refused(e.keys, e.val)} IN
    candidate = Some(Except(running, accepted) \cup accepted)
=============================================================================
