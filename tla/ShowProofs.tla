---------------------------- MODULE ShowProofs ----------------------------
(***************************************************************************)
(* For any lines and any daemon: a command that goes wrong reports it, and *)
(* never leaves a running pager behind.  For the lines of the trees, with  *)
(* any words typed: callbacks know the arguments they are given; a panic   *)
(* has its cause in one answer of the daemon, in an RPC that failed, in a  *)
(* word with a quote or, for one command, in two answers that do not fit   *)
(* together; and what is shown is what the words and the help of the line  *)
(* name, wherever the daemon has its entries where its schema says.        *)
(***************************************************************************)
EXTENDS ShowSchema, ShowTree, TLAPS

Running == phase \notin {"prompt", "returned", "panicked"}

(* While a command runs nothing has gone wrong yet, but for arguments that *)
(* are looked at late: whatever else goes wrong ends it.                   *)
TroubleEnds ==
    Running => trouble = IF command.fit = "ok" THEN {} ELSE {"arguments"}

(* Past the first RPC the arguments fit; before it too, unless it is the   *)
(* one for attribute sets.                                                 *)
FirstMisfits ==
    Running /\ (phase = "first" => command.first # "attributes") => command.fit = "ok"

IInv == TypeOK /\ PagerOwnsTerminal /\ FailureReported /\ TroubleEnds /\ FirstMisfits

(* At the first prompt nothing is under way.                               *)
LEMMA InitOk == Init => IInv
  BY TreesAssumption DEF Init, IInv, TypeOK, Phases, PagerOwnsTerminal, FailureReported, Returned,
     TroubleEnds, FirstMisfits, Running

(* Where a callback goes from its arguments.                               *)
LEMMA StartCases ==
  ASSUME NEW c, Start(c)
  PROVE  \/ phase' = "returned" /\ outcome' = "shown"
         \/ phase' \in {"page", "execute", "fetch"} /\ outcome' = "none"
  BY DEF Start, GoTo, Return

(* Where a callback goes that looks at its arguments first.                *)
LEMMA UnderstandCases ==
  ASSUME NEW c, Understand(c)
  PROVE  \/ c.fit = "refused" /\ phase' = "returned" /\ outcome' = "reported"
         \/ c.fit # "ok" /\ phase' = "panicked" /\ outcome' = "none"
         \/ c.fit = "ok" /\ phase' = "returned" /\ outcome' = "shown"
         \/ c.fit = "ok" /\ phase' \in {"first", "page", "execute", "fetch"} /\ outcome' = "none"
  BY StartCases DEF Understand, GoTo, Return, Panic

(* A line that is called has not failed yet, unless its arguments misfit.  *)
LEMMA CallOk == ASSUME IInv, NEW l \in Offered, Call(l) PROVE IInv'
<1> DEFINE c == Callback(l.cmd, l.args)
<1>1. /\ phase = "prompt" /\ line' = l /\ command' = c /\ l # Absent
      /\ trouble' = IF c.fit = "ok" THEN {} ELSE {"arguments"}
      /\ UNCHANGED <<tree, paging, seen, early, shown, sent, pager>>
  BY TreesAssumption DEF Call, command
<1> HIDE DEF c
<1>2. \/ c.first = "attributes" /\ phase' = "first" /\ outcome' = "none"
      \/ c.fit = "refused" /\ phase' = "returned" /\ outcome' = "reported"
      \/ c.fit # "ok" /\ phase' = "panicked" /\ outcome' = "none"
      \/ c.fit = "ok" /\ phase' = "returned" /\ outcome' = "shown"
      \/ c.fit = "ok" /\ phase' \in {"first", "page", "execute", "fetch"} /\ outcome' = "none"
  <2>1. IF c.first = "attributes" THEN GoTo("first") ELSE Understand(c)
    BY DEF Call, c
  <2> QED
    BY <2>1, UnderstandCases DEF GoTo
<1>3. TypeOK'
  BY <1>1, <1>2 DEF IInv, TypeOK, Phases
<1>4. PagerOwnsTerminal' /\ FailureReported'
  BY <1>1, <1>2 DEF IInv, PagerOwnsTerminal, FailureReported, Returned
<1>5. TroubleEnds' /\ FirstMisfits'
  BY <1>1, <1>2 DEF TroubleEnds, FirstMisfits, Running
<1> QED
  BY <1>3, <1>4, <1>5 DEF IInv

(* So for the answer to the first RPC.                                     *)
LEMMA FirstOk == ASSUME IInv, First PROVE IInv'
<1>1. /\ phase = "first" /\ line # Absent /\ command' = command
      /\ trouble = IF command.fit = "ok" THEN {} ELSE {"arguments"}
      /\ early' = tree
      /\ UNCHANGED <<tree, paging, line, seen, shown, sent, pager, trouble>>
  BY DEF First, command, IInv, TypeOK, TroubleEnds, Running
<1> DEFINE c == command
<1> HIDE DEF c
<1>2. \/ phase' = "panicked" /\ outcome' = "none"
      \/ c.fit = "refused" /\ phase' = "returned" /\ outcome' = "reported"
      \/ c.fit = "ok" /\ phase' = "returned" /\ outcome' = "shown"
      \/ c.fit = "ok" /\ phase' \in {"first", "page", "execute", "fetch"} /\ outcome' = "none"
  BY UnderstandCases, StartCases
     DEF First, Panic, GoTo, c, IInv, FirstMisfits, Running
<1>3. TypeOK'
  BY <1>1, <1>2 DEF IInv, TypeOK, Phases
<1>4. PagerOwnsTerminal' /\ FailureReported'
  BY <1>1, <1>2 DEF IInv, PagerOwnsTerminal, FailureReported, Returned, c
<1>5. TroubleEnds' /\ FirstMisfits'
  BY <1>1, <1>2 DEF TroubleEnds, FirstMisfits, Running, c
<1> QED
  BY <1>3, <1>4, <1>5 DEF IInv

(* Each step keeps the invariant.                                          *)
LEMMA NextOk == ASSUME IInv, [Next]_vars PROVE IInv'
<1>1. CASE \E l \in Offered : Call(l)
  BY <1>1, CallOk
<1>2. CASE First
  BY <1>2, FirstOk
<1> USE TreesAssumption DEF IInv, TypeOK, Phases, PagerOwnsTerminal, FailureReported, Returned,
     TroubleEnds, FirstMisfits, Running, GoTo, Return, Panic, Fail, command
<1>3. CASE FirstFails
  BY <1>3 DEF FirstFails
<1>4. CASE Fetch
  BY <1>4 DEF Fetch
<1>5. CASE FetchFails
  BY <1>5 DEF FetchFails
<1>6. CASE Layout
  BY <1>6 DEF Layout
<1>7. CASE LayoutFails
  BY <1>7 DEF LayoutFails
<1>8. CASE PrintOut \/ SpawnPager \/ SpawnFails
  BY <1>8 DEF PrintOut, SpawnPager, SpawnFails
<1>9. CASE WritePager \/ WriteFails \/ WaitPager
  BY <1>9 DEF WritePager, WriteFails, WaitPager
<1>10. CASE ExecuteRpc \/ ExecuteFails
  BY <1>10 DEF ExecuteRpc, ExecuteFails
<1>11. CASE NextLine
  BY <1>11 DEF NextLine
<1>12. CASE LeavePager \/ DaemonMoves
  BY <1>12 DEF LeavePager, DaemonMoves
<1>13. CASE UNCHANGED vars
  BY <1>13 DEF vars
<1> HIDE DEF IInv, TypeOK, Phases, PagerOwnsTerminal, FailureReported, Returned,
     TroubleEnds, FirstMisfits, Running, GoTo, Return, Panic, Fail, command
<1> QED
  BY <1>1, <1>2, <1>3, <1>4, <1>5, <1>6, <1>7, <1>8, <1>9, <1>10, <1>11, <1>12, <1>13 DEF Next

(* The invariant holds of every command.                                   *)
LEMMA Invariance == Spec => []IInv
<1>1. IInv /\ [Next]_vars => IInv'
  BY NextOk
<1> QED
  BY InitOk, <1>1, PTL DEF Spec

(* The state of a command keeps its types.                                 *)
THEOREM TypeCorrect == Spec => []TypeOK
<1>1. IInv => TypeOK
  BY DEF IInv
<1> QED
  BY Invariance, <1>1, PTL

(* A command that returns has reported an error if something went wrong on *)
(* the way, and only then.                                                 *)
THEOREM FailuresAreReported == Spec => []FailureReported
<1>1. IInv => FailureReported
  BY DEF IInv
<1> QED
  BY Invariance, <1>1, PTL

(* The prompt and a running pager never share the terminal.                *)
THEOREM TerminalIsOwned == Spec => []PagerOwnsTerminal
<1>1. IInv => PagerOwnsTerminal
  BY DEF IInv
<1> QED
  BY Invariance, <1>1, PTL

-----------------------------------------------------------------------------
(***************************************************************************)
(* The lines of the trees and the callbacks they call.  What the words of  *)
(* a line can be follows from how its arguments are put together.          *)
(***************************************************************************)
(* Every line has the argument, with one of the words; or, if it has it.   *)
Gives(arguments, name, words) ==
    \A a \in arguments : name \in DOMAIN a /\ a[name] \in words
Allows(arguments, name, words) ==
    \A a \in arguments : name \in DOMAIN a => a[name] \in words

LEMMA WordGives ==
  ASSUME NEW name, NEW word, NEW words
  PROVE  /\ word \in words => Gives(Is(name, word), name, words)
         /\ Typed \subseteq words => Gives(AnyWord(name), name, words)
  BY DEF Gives, Is, AnyWord

LEMMA WordAllows ==
  ASSUME NEW name, NEW word, NEW other, NEW words
  PROVE  /\ other # name \/ word \in words => Allows(Is(name, word), other, words)
         /\ other # name \/ Typed \subseteq words => Allows(AnyWord(name), other, words)
         /\ Allows(Bare, other, words)
  BY DEF Allows, Is, AnyWord, Bare

(* A merge of two sets of arguments holds what its parts hold.             *)
LEMMA AndHas == ASSUME NEW first, NEW second, NEW c \in And(first, second)
  PROVE  \E a \in first, b \in second :
     /\ DOMAIN c = DOMAIN a \cup DOMAIN b
     /\ \A n \in DOMAIN a : c[n] = a[n]
     /\ \A n \in DOMAIN b \ DOMAIN a : c[n] = b[n]
  BY DEF And

LEMMA BothGive ==
  ASSUME NEW first, NEW second, NEW name, NEW words
  PROVE  /\ Gives(first, name, words) => Gives(And(first, second), name, words)
         /\ Allows(first, name, words) /\ Gives(second, name, words) =>
               Gives(And(first, second), name, words)
         /\ Allows(first, name, words) /\ Allows(second, name, words) =>
               Allows(And(first, second), name, words)
<1> SUFFICES ASSUME NEW c \in And(first, second)
    PROVE  /\ Gives(first, name, words) => name \in DOMAIN c /\ c[name] \in words
           /\ Allows(first, name, words) /\ Gives(second, name, words) =>
                 name \in DOMAIN c /\ c[name] \in words
           /\ Allows(first, name, words) /\ Allows(second, name, words) =>
                 (name \in DOMAIN c => c[name] \in words)
  BY DEF Gives, Allows
<1>1. PICK a \in first, b \in second :
     /\ DOMAIN c = DOMAIN a \cup DOMAIN b
     /\ \A n \in DOMAIN a : c[n] = a[n]
     /\ \A n \in DOMAIN b \ DOMAIN a : c[n] = b[n]
  BY DEF And
<1> QED
  BY <1>1 DEF Gives, Allows

LEMMA EitherGives ==
  ASSUME NEW first, NEW second, NEW name, NEW words
  PROVE  /\ Gives(first, name, words) /\ Gives(second, name, words) =>
               Gives(first \cup second, name, words)
         /\ Allows(first, name, words) /\ Allows(second, name, words) =>
               Allows(first \cup second, name, words)
         /\ Allows(first, name, words) => Allows(Perhaps(first), name, words)
         /\ Gives(first, name, words) => Allows(first, name, words)
  BY DEF Gives, Allows, Perhaps

(* A line has the callback and one of the arguments it was listed with.    *)
LEMMA LinesHas == ASSUME NEW cmd, NEW about, NEW A, NEW l \in Lines(cmd, about, A)
   PROVE l.cmd = cmd /\ l.about = about /\ l.args \in A
  BY DEF Lines

(* The callback of each name.                                              *)
LEMMA CallbackIs ==
  ASSUME NEW args
  PROVE  /\ Callback("cmd_show_config", args) = CmdShowConfig(args)
         /\ Callback("cmd_show_config_changes", args) = CmdShowConfigChanges(args)
         /\ Callback("cmd_show_state", args) = CmdShowState(args)
         /\ Callback("cmd_show_yang_modules", args) = CmdShowYangModules(args)
         /\ Callback("cmd_show_isis_interface", args) = CmdShowIsisInterface(args)
         /\ Callback("cmd_show_isis_adjacency", args) = CmdShowIsisAdjacency(args)
         /\ Callback("cmd_show_isis_database", args) = CmdShowIsisDatabase(args)
         /\ Callback("cmd_show_isis_route", args) = CmdShowIsisRoute(args)
         /\ Callback("cmd_show_ospf_interface", args) = CmdShowOspfInterface(args)
         /\ Callback("cmd_show_ospf_interface_detail", args) = CmdShowOspfInterfaceDetail(args)
         /\ Callback("cmd_show_ospf_vlink", args) = CmdShowOspfVlink(args)
         /\ Callback("cmd_show_ospf_neighbor", args) = CmdShowOspfNeighbor(args)
         /\ Callback("cmd_show_ospf_neighbor_detail", args) = CmdShowOspfNeighborDetail(args)
         /\ Callback("cmd_show_ospf_database_as", args) = CmdShowOspfDatabaseAs(args)
         /\ Callback("cmd_show_ospf_database_area", args) = CmdShowOspfDatabaseArea(args)
         /\ Callback("cmd_show_ospf_database_link", args) = CmdShowOspfDatabaseLink(args)
         /\ Callback("cmd_show_ospf_route", args) = CmdShowOspfRoute(args)
         /\ Callback("cmd_show_ospf_hostnames", args) = CmdShowOspfHostnames(args)
         /\ Callback("cmd_show_rip_interface", args) = CmdShowRipInterface(args)
         /\ Callback("cmd_show_rip_interface_detail", args) = CmdShowRipInterfaceDetail(args)
         /\ Callback("cmd_show_rip_neighbor", args) = CmdShowRipNeighbor(args)
         /\ Callback("cmd_show_rip_neighbor_detail", args) = CmdShowRipNeighborDetail(args)
         /\ Callback("cmd_show_rip_route", args) = CmdShowRipRoute(args)
         /\ Callback("cmd_show_mpls_ldp_discovery", args) = CmdShowMplsLdpDiscovery(args)
         /\ Callback("cmd_show_mpls_ldp_discovery_detail", args) =
               CmdShowMplsLdpDiscoveryDetail(args)
         /\ Callback("cmd_show_mpls_ldp_peer", args) = CmdShowMplsLdpPeer(args)
         /\ Callback("cmd_show_mpls_ldp_peer_detail", args) = CmdShowMplsLdpPeerDetail(args)
         /\ Callback("cmd_show_mpls_ldp_binding_address", args) = CmdShowMplsLdpBindingAddress(args)
         /\ Callback("cmd_show_mpls_ldp_binding_fec", args) = CmdShowMplsLdpBindingFec(args)
         /\ Callback("cmd_show_route", args) = CmdShowRoute(args)
         /\ Callback("cmd_show_bgp_summary", args) = CmdShowBgpSummary(args)
         /\ Callback("cmd_show_bgp_neighbor", args) = CmdShowBgpNeighbor(args)
         /\ Callback("cmd_show_bgp_neighbor_detail", args) = CmdShowBgpNeighborDetail(args)
         /\ Callback("cmd_clear_isis_adjacency", args) = CmdClearIsisAdjacency(args)
         /\ Callback("cmd_clear_isis_database", args) = CmdClearIsisDatabase(args)
         /\ Callback("cmd_clear_bgp_neighbor", args) = CmdClearBgpNeighbor(args)
  BY DEF Callback

(* The callback of a line knows its words, but for a neighbor to clear     *)
(* that is not an address.                                                 *)
Fitting(l) ==
    \/ Callback(l.cmd, l.args).fit = "ok"
    \/ l.cmd = "cmd_clear_bgp_neighbor" /\ l.args.neighbor \notin Address

(* The words a command puts into a path are words of its line.             *)
KeysOf(args) == {Absent, "ipv4"} \cup {args[name] : name \in DOMAIN args}

(* A step is a list, filtered if at all by a leaf of the schema and a word *)
(* of the line.                                                            *)
SoundStep(step, args) ==
    step.key # Absent => step.key \in KeysOf(args) /\ step.leaf # "neighbor-router-id="
SoundSteps(steps, args) == \A i \in DOMAIN steps : SoundStep(steps[i], args)

(* The commands that lay out the entries of an answer.                     *)
RowLayout(layout) == layout \notin {"printed", "local", "execute", "state"}
Sound(l) ==
    RowLayout(Callback(l.cmd, l.args).layout) =>
        SoundSteps(Callback(l.cmd, l.args).steps, l.args)

(* The lines on which OSPF neighbors are looked up by an id: the path of   *)
(* that command is broken.                                                 *)
BrokenPath(l) == l.cmd = "cmd_show_ospf_neighbor" /\ "router_id" \in DOMAIN l.args

(* A step that follows a list, and one that filters by an argument.        *)
LEMMA StepSound ==
  ASSUME NEW args, NEW list, NEW leaf, leaf # "neighbor-router-id=", NEW name
  PROVE  /\ SoundStep(Every(list), args)
         /\ SoundStep(Filter(list, leaf, Opt(args, name)), args)
  BY DEF SoundStep, Filter, Every, Opt, KeysOf

(* A path of sound steps is sound.                                         *)
LEMMA StepsSound ==
  ASSUME NEW args, NEW a, NEW b, NEW c
  PROVE  /\ SoundStep(a, args) => SoundSteps(<<a>>, args)
         /\ SoundStep(a, args) /\ SoundStep(b, args) => SoundSteps(<<a, b>>, args)
         /\ SoundStep(a, args) /\ SoundStep(b, args) /\ SoundStep(c, args) =>
               SoundSteps(<<a, b, c>>, args)
  BY DEF SoundSteps

(* The callbacks of the lines of each protocol, by name.                   *)
LEMMA ConfigCommand ==
  ASSUME NEW l \in ConfigLines
  PROVE  /\ l.cmd \in
               {"cmd_show_config", "cmd_show_config_changes", "cmd_show_state",
                "cmd_show_yang_modules"}
         /\ Callback(l.cmd, l.args) \in
               {CmdShowConfig(l.args), CmdShowConfigChanges(l.args),
                CmdShowState(l.args), CmdShowYangModules(l.args)}
<1>1. \A cmd, about, A : l \in Lines(cmd, about, A) => l.cmd = cmd
  BY LinesHas
<1>2. l.cmd \in
        {"cmd_show_config", "cmd_show_config_changes", "cmd_show_state",
         "cmd_show_yang_modules"}
  BY <1>1 DEF ConfigLines
<1> QED
  BY <1>2, CallbackIs

LEMMA IsisCommand ==
  ASSUME NEW l \in IsisLines
  PROVE  /\ l.cmd \in
               {"cmd_show_isis_interface", "cmd_show_isis_database",
                "cmd_show_isis_route", "cmd_show_isis_adjacency",
                "cmd_clear_isis_adjacency", "cmd_clear_isis_database"}
         /\ Callback(l.cmd, l.args) \in
               {CmdShowIsisInterface(l.args), CmdShowIsisDatabase(l.args),
                CmdShowIsisRoute(l.args), CmdShowIsisAdjacency(l.args),
                CmdClearIsisAdjacency(l.args), CmdClearIsisDatabase(l.args)}
<1>1. \A cmd, about, A : l \in Lines(cmd, about, A) => l.cmd = cmd
  BY LinesHas
<1>2. l.cmd \in
        {"cmd_show_isis_interface", "cmd_show_isis_database", "cmd_show_isis_route",
         "cmd_show_isis_adjacency", "cmd_clear_isis_adjacency",
         "cmd_clear_isis_database"}
  BY <1>1 DEF IsisLines
<1> QED
  BY <1>2, CallbackIs

LEMMA BgpCommand ==
  ASSUME NEW l \in BgpLines
  PROVE  /\ l.cmd \in
               {"cmd_show_bgp_summary", "cmd_show_bgp_neighbor_detail",
                "cmd_show_bgp_neighbor", "cmd_clear_bgp_neighbor"}
         /\ Callback(l.cmd, l.args) \in
               {CmdShowBgpSummary(l.args), CmdShowBgpNeighborDetail(l.args),
                CmdShowBgpNeighbor(l.args), CmdClearBgpNeighbor(l.args)}
<1>1. \A cmd, about, A : l \in Lines(cmd, about, A) => l.cmd = cmd
  BY LinesHas
<1>2. l.cmd \in
        {"cmd_show_bgp_summary", "cmd_show_bgp_neighbor_detail",
         "cmd_show_bgp_neighbor", "cmd_clear_bgp_neighbor"}
  BY <1>1 DEF BgpLines
<1> QED
  BY <1>2, CallbackIs

LEMMA OspfCommand ==
  ASSUME NEW l \in OspfLines
  PROVE  /\ l.cmd \in
               {"cmd_show_ospf_interface", "cmd_show_ospf_interface_detail",
                "cmd_show_ospf_vlink", "cmd_show_ospf_neighbor",
                "cmd_show_ospf_neighbor_detail", "cmd_show_ospf_hostnames",
                "cmd_show_ospf_database_as", "cmd_show_ospf_database_area",
                "cmd_show_ospf_database_link", "cmd_show_ospf_route"}
         /\ Callback(l.cmd, l.args) \in
               {CmdShowOspfInterface(l.args), CmdShowOspfInterfaceDetail(l.args),
                CmdShowOspfVlink(l.args), CmdShowOspfNeighbor(l.args),
                CmdShowOspfNeighborDetail(l.args), CmdShowOspfHostnames(l.args),
                CmdShowOspfDatabaseAs(l.args), CmdShowOspfDatabaseArea(l.args),
                CmdShowOspfDatabaseLink(l.args), CmdShowOspfRoute(l.args)}
<1>1. \A cmd, about, A : l \in Lines(cmd, about, A) => l.cmd = cmd
  BY LinesHas
<1>2. l.cmd \in
        {"cmd_show_ospf_interface", "cmd_show_ospf_interface_detail",
         "cmd_show_ospf_vlink", "cmd_show_ospf_neighbor",
         "cmd_show_ospf_neighbor_detail", "cmd_show_ospf_hostnames",
         "cmd_show_ospf_database_as", "cmd_show_ospf_database_area",
         "cmd_show_ospf_database_link", "cmd_show_ospf_route"}
  BY <1>1 DEF OspfLines
<1> QED
  BY <1>2, CallbackIs

LEMMA RipCommand ==
  ASSUME NEW l \in RipLines
  PROVE  /\ l.cmd \in
               {"cmd_show_rip_interface", "cmd_show_rip_interface_detail",
                "cmd_show_rip_neighbor", "cmd_show_rip_neighbor_detail",
                "cmd_show_rip_route"}
         /\ Callback(l.cmd, l.args) \in
               {CmdShowRipInterface(l.args), CmdShowRipInterfaceDetail(l.args),
                CmdShowRipNeighbor(l.args), CmdShowRipNeighborDetail(l.args),
                CmdShowRipRoute(l.args)}
<1>1. \A cmd, about, A : l \in Lines(cmd, about, A) => l.cmd = cmd
  BY LinesHas
<1>2. l.cmd \in
        {"cmd_show_rip_interface", "cmd_show_rip_interface_detail",
         "cmd_show_rip_neighbor", "cmd_show_rip_neighbor_detail", "cmd_show_rip_route"}
  BY <1>1 DEF RipLines
<1> QED
  BY <1>2, CallbackIs

LEMMA LdpCommand ==
  ASSUME NEW l \in LdpLines
  PROVE  /\ l.cmd \in
               {"cmd_show_mpls_ldp_discovery", "cmd_show_mpls_ldp_discovery_detail",
                "cmd_show_mpls_ldp_peer", "cmd_show_mpls_ldp_peer_detail",
                "cmd_show_mpls_ldp_binding_address", "cmd_show_mpls_ldp_binding_fec"}
         /\ Callback(l.cmd, l.args) \in
               {CmdShowMplsLdpDiscovery(l.args), CmdShowMplsLdpDiscoveryDetail(l.args),
                CmdShowMplsLdpPeer(l.args), CmdShowMplsLdpPeerDetail(l.args),
                CmdShowMplsLdpBindingAddress(l.args), CmdShowMplsLdpBindingFec(l.args)}
<1>1. \A cmd, about, A : l \in Lines(cmd, about, A) => l.cmd = cmd
  BY LinesHas
<1>2. l.cmd \in
        {"cmd_show_mpls_ldp_discovery", "cmd_show_mpls_ldp_discovery_detail",
         "cmd_show_mpls_ldp_peer", "cmd_show_mpls_ldp_peer_detail",
         "cmd_show_mpls_ldp_binding_address", "cmd_show_mpls_ldp_binding_fec"}
  BY <1>1 DEF LdpLines
<1> QED
  BY <1>2, CallbackIs

LEMMA RouteCommand ==
  ASSUME NEW l \in RouteLines
  PROVE  /\ l.cmd \in
               {"cmd_show_route"}
         /\ Callback(l.cmd, l.args) \in
               {CmdShowRoute(l.args)}
<1>1. \A cmd, about, A : l \in Lines(cmd, about, A) => l.cmd = cmd
  BY LinesHas
<1>2. l.cmd \in
        {"cmd_show_route"}
  BY <1>1 DEF RouteLines
<1> QED
  BY <1>2, CallbackIs

(* The paths of each protocol are sound, and its lines fit.                *)
LEMMA IsisSteps ==
  ASSUME NEW args
  PROVE  /\ SoundSteps(CmdShowIsisInterface(args).steps, args)
         /\ SoundSteps(CmdShowIsisAdjacency(args).steps, args)
         /\ SoundSteps(CmdShowIsisDatabase(args).steps, args)
         /\ SoundSteps(CmdShowIsisRoute(args).steps, args)
<1>1. /\ CmdShowIsisInterface(args).steps =
           <<IsisInterface(args)>>
      /\ CmdShowIsisAdjacency(args).steps =
           <<IsisInterface(args), Every("adjacencies/adjacency")>>
      /\ CmdShowIsisDatabase(args).steps =
           <<Every("isis/database/levels"), Every("lsp")>>
      /\ CmdShowIsisRoute(args).steps =
           <<Every("isis/local-rib/route"), Every("next-hops/next-hop")>>
  BY DEF CmdShowIsisInterface, CmdShowIsisAdjacency, CmdShowIsisDatabase,
         CmdShowIsisRoute, Table, Command, WithNames, Needing
<1>2. SoundStep(IsisInterface(args), args)
  BY StepSound DEF IsisInterface
<1> QED
  BY <1>1, <1>2, StepSound, StepsSound

LEMMA IsisLine == ASSUME NEW l \in IsisLines PROVE Fitting(l) /\ Sound(l)
<1>1. /\ CmdShowIsisInterface(l.args).fit = "ok"
      /\ CmdShowIsisDatabase(l.args).fit = "ok"
      /\ CmdShowIsisRoute(l.args).fit = "ok"
      /\ CmdShowIsisAdjacency(l.args).fit = "ok"
      /\ CmdClearIsisAdjacency(l.args).fit = "ok"
      /\ CmdClearIsisDatabase(l.args).fit = "ok"
  BY DEF CmdShowIsisInterface, CmdShowIsisDatabase, CmdShowIsisRoute,
         CmdShowIsisAdjacency, CmdClearIsisAdjacency, CmdClearIsisDatabase, Command,
         Table, WithNames, Needing, Execute
<1>2. /\ CmdClearIsisAdjacency(l.args).layout = "execute"
      /\ CmdClearIsisDatabase(l.args).layout = "execute"
  BY DEF CmdClearIsisAdjacency, CmdClearIsisDatabase, Execute, Command
<1> QED
  BY <1>1, <1>2, IsisSteps, IsisCommand DEF Fitting, Sound, RowLayout

LEMMA LdpSteps ==
  ASSUME NEW args
  PROVE  /\ SoundSteps(CmdShowMplsLdpDiscovery(args).steps, args)
         /\ SoundSteps(CmdShowMplsLdpDiscoveryDetail(args).steps, args)
         /\ SoundSteps(CmdShowMplsLdpPeer(args).steps, args)
         /\ SoundSteps(CmdShowMplsLdpPeerDetail(args).steps, args)
         /\ SoundSteps(CmdShowMplsLdpBindingAddress(args).steps, args)
         /\ SoundSteps(CmdShowMplsLdpBindingFec(args).steps, args)
<1>1. /\ CmdShowMplsLdpDiscovery(args).steps =
           <<LdpInterface(args), LdpAdjacency, Every("peer")>>
      /\ CmdShowMplsLdpDiscoveryDetail(args).steps =
           <<LdpInterface(args)>>
      /\ CmdShowMplsLdpPeer(args).steps =
           <<LdpPeer(args), LdpAdjacency>>
      /\ CmdShowMplsLdpPeerDetail(args).steps =
           <<LdpPeer(args)>>
      /\ CmdShowMplsLdpBindingAddress(args).steps =
           <<Filter("mpls-ldp/global/bindings/address", "address", Opt(args, "address"))>>
      /\ CmdShowMplsLdpBindingFec(args).steps =
           <<Filter("mpls-ldp/global/bindings/fec-label", "fec", Opt(args, "fec")),
             Filter("peer", "lsr-id", Opt(args, "lsr-id"))>>
  BY DEF CmdShowMplsLdpDiscovery, CmdShowMplsLdpDiscoveryDetail, CmdShowMplsLdpPeer,
         CmdShowMplsLdpPeerDetail, CmdShowMplsLdpBindingAddress,
         CmdShowMplsLdpBindingFec, LdpTable, LdpText, Table, Text, Command
<1>2. /\ SoundStep(LdpInterface(args), args) /\ SoundStep(LdpPeer(args), args)
      /\ SoundStep(LdpAdjacency, args)
  BY StepSound DEF LdpInterface, LdpPeer, LdpAdjacency
<1>3. /\ SoundStep(Every("peer"), args)
      /\ SoundStep(Filter("mpls-ldp/global/bindings/address", "address", Opt(args, "address")),
                   args)
      /\ SoundStep(Filter("mpls-ldp/global/bindings/fec-label", "fec", Opt(args, "fec")), args)
      /\ SoundStep(Filter("peer", "lsr-id", Opt(args, "lsr-id")), args)
  BY StepSound
<1> QED
  BY <1>1, <1>2, <1>3, StepsSound

LEMMA LdpLine == ASSUME NEW l \in LdpLines PROVE Fitting(l) /\ Sound(l)
<1>1. /\ CmdShowMplsLdpDiscovery(l.args).fit = "ok"
      /\ CmdShowMplsLdpDiscoveryDetail(l.args).fit = "ok"
      /\ CmdShowMplsLdpPeer(l.args).fit = "ok"
      /\ CmdShowMplsLdpPeerDetail(l.args).fit = "ok"
      /\ CmdShowMplsLdpBindingAddress(l.args).fit = "ok"
      /\ CmdShowMplsLdpBindingFec(l.args).fit = "ok"
  BY DEF CmdShowMplsLdpDiscovery, CmdShowMplsLdpDiscoveryDetail, CmdShowMplsLdpPeer,
         CmdShowMplsLdpPeerDetail, CmdShowMplsLdpBindingAddress,
         CmdShowMplsLdpBindingFec, Command, Table, Text, LdpTable, LdpText
<1> QED
  BY <1>1, LdpSteps, LdpCommand DEF Fitting, Sound

LEMMA RouteLine == ASSUME NEW l \in RouteLines PROVE Fitting(l) /\ Sound(l)
<1>1. CmdShowRoute(l.args).fit = "ok" /\ CmdShowRoute(l.args).steps = <<Every("routes/route")>>
  BY DEF CmdShowRoute, Command, Requesting
<1>2. SoundSteps(CmdShowRoute(l.args).steps, l.args)
  BY <1>1, StepSound, StepsSound
<1> QED
  BY <1>1, <1>2, RouteCommand DEF Fitting, Sound

(* Every OSPF line names one of the two versions.                          *)
LEMMA OspfArguments ==
  ASSUME NEW l \in OspfLines
  PROVE  "protocol" \in DOMAIN l.args /\ l.args["protocol"] \in Ospf
<1> DEFINE either == Is("protocol", "ospfv2") \cup Is("protocol", "ospfv3")
<1>1. Gives(either, "protocol", Ospf)
  BY WordGives, EitherGives DEF Ospf
<1>2. \A A : Gives(And(either, A), "protocol", Ospf)
  BY <1>1, BothGive
<1>3. \A A, B : Gives(And(And(either, A), B), "protocol", Ospf)
  BY <1>2, BothGive
<1>4. \A cmd, about, A : l \in Lines(cmd, about, A) => l.args \in A
  BY LinesHas
<1>5. \/ l.args \in either
      \/ \E A : l.args \in And(either, A)
      \/ \E A, B : l.args \in And(And(either, A), B)
  BY <1>4 DEF OspfLines
<1> QED
  BY <1>1, <1>2, <1>3, <1>5 DEF Gives

LEMMA OspfSteps ==
  ASSUME NEW args
  PROVE  /\ SoundSteps(CmdShowOspfInterface(args).steps, args)
         /\ SoundSteps(CmdShowOspfInterfaceDetail(args).steps, args)
         /\ SoundSteps(CmdShowOspfVlink(args).steps, args)
         /\ SoundSteps(CmdShowOspfNeighborDetail(args).steps, args)
         /\ SoundSteps(CmdShowOspfDatabaseAs(args).steps, args)
         /\ SoundSteps(CmdShowOspfDatabaseArea(args).steps, args)
         /\ SoundSteps(CmdShowOspfDatabaseLink(args).steps, args)
         /\ SoundSteps(CmdShowOspfRoute(args).steps, args)
         /\ SoundSteps(CmdShowOspfHostnames(args).steps, args)
<1>1. /\ CmdShowOspfInterface(args).steps =
           OspfInterface(args)
      /\ CmdShowOspfInterfaceDetail(args).steps =
           OspfInterface(args)
      /\ CmdShowOspfVlink(args).steps =
           <<OspfArea, Every("virtual-links/virtual-link"), Every("neighbors/neighbor")>>
      /\ CmdShowOspfNeighbor(args).steps =
           OspfNeighbor("neighbor-router-id=", args)
      /\ CmdShowOspfNeighborDetail(args).steps =
           OspfNeighbor("neighbor-router-id", args)
      /\ CmdShowOspfDatabaseAs(args).steps =
           <<Every("database/as-scope-lsa/header")>>
      /\ CmdShowOspfDatabaseArea(args).steps =
           <<OspfArea, Every("database/area-scope-lsa/header")>>
      /\ CmdShowOspfDatabaseLink(args).steps =
           <<OspfArea, Every("interfaces/interface"),
             Every("database/link-scope-lsa/header")>>
      /\ CmdShowOspfRoute(args).steps =
           <<Filter("ospf/local-rib/route", "prefix", Opt(args, "prefix")),
             Every("next-hops/next-hop")>>
      /\ CmdShowOspfHostnames(args).steps =
           <<Every("ospf/hostnames/hostname")>>
  BY DEF CmdShowOspfInterface, CmdShowOspfInterfaceDetail, CmdShowOspfVlink,
         CmdShowOspfNeighbor, CmdShowOspfNeighborDetail, CmdShowOspfDatabaseAs,
         CmdShowOspfDatabaseArea, CmdShowOspfDatabaseLink, CmdShowOspfRoute,
         CmdShowOspfHostnames, OspfDatabase, OspfTable, OspfText, Table, Text, Command,
         WithNames, Needing
<1>2. SoundStep(OspfArea, args)
  BY StepSound DEF OspfArea
<1>3. /\ SoundSteps(OspfInterface(args), args)
      /\ SoundSteps(OspfNeighbor("neighbor-router-id", args), args)
  <2>1. /\ SoundStep(Every("interfaces/interface"), args)
        /\ SoundStep(Filter("interfaces/interface", "name", Opt(args, "name")), args)
        /\ SoundStep(Filter("neighbors/neighbor", "neighbor-router-id",
                            Opt(args, "router_id")), args)
    BY StepSound
  <2> QED
    BY <1>2, <2>1, StepsSound DEF OspfInterface, OspfNeighbor
<1> QED
  BY <1>1, <1>2, <1>3, StepSound, StepsSound

LEMMA OspfLine ==
  ASSUME NEW l \in OspfLines
  PROVE  Fitting(l) /\ (~BrokenPath(l) => Sound(l))
<1> DEFINE args == l.args
<1>1. OspfFit(args) = "ok"
  BY OspfArguments DEF OspfFit, Must, Opt
<1>2. /\ CmdShowOspfInterface(l.args).fit = OspfFit(l.args)
      /\ CmdShowOspfInterfaceDetail(l.args).fit = OspfFit(l.args)
      /\ CmdShowOspfVlink(l.args).fit = OspfFit(l.args)
      /\ CmdShowOspfNeighbor(l.args).fit = OspfFit(l.args)
      /\ CmdShowOspfNeighborDetail(l.args).fit = OspfFit(l.args)
      /\ CmdShowOspfHostnames(l.args).fit = OspfFit(l.args)
      /\ CmdShowOspfDatabaseAs(l.args).fit = OspfFit(l.args)
      /\ CmdShowOspfDatabaseArea(l.args).fit = OspfFit(l.args)
      /\ CmdShowOspfDatabaseLink(l.args).fit = OspfFit(l.args)
      /\ CmdShowOspfRoute(l.args).fit = OspfFit(l.args)
  BY DEF CmdShowOspfInterface, CmdShowOspfInterfaceDetail, CmdShowOspfVlink,
         CmdShowOspfNeighbor, CmdShowOspfNeighborDetail, CmdShowOspfHostnames,
         CmdShowOspfDatabaseAs, CmdShowOspfDatabaseArea, CmdShowOspfDatabaseLink,
         CmdShowOspfRoute, OspfDatabase, OspfTable, OspfText, Table, Text, Command,
         WithNames, Needing
<1>3. Fitting(l)
  BY <1>1, <1>2, OspfCommand DEF Fitting
<1>8. ASSUME "router_id" \notin DOMAIN args
      PROVE  SoundSteps(CmdShowOspfNeighbor(args).steps, args)
  <2>1. SoundStep(OspfArea, args) /\ SoundStep(Every("interfaces/interface"), args)
    BY DEF SoundStep, OspfArea, Every
  <2>2. CmdShowOspfNeighbor(args).steps = OspfNeighbor("neighbor-router-id=", args)
    BY DEF CmdShowOspfNeighbor, OspfTable, Table, Command, WithNames
  <2>3. SoundStep(Filter("neighbors/neighbor", "neighbor-router-id=", Opt(args, "router_id")), args)
    BY <1>8 DEF SoundStep, Filter, Opt
  <2> QED
    BY <2>1, <2>2, <2>3, StepsSound DEF OspfNeighbor
<1>9. l.cmd # "cmd_show_ospf_neighbor" => Sound(l)
  <2>1. l.cmd # "cmd_show_ospf_neighbor" =>
           Callback(l.cmd, l.args) \in
               {CmdShowOspfInterface(args), CmdShowOspfInterfaceDetail(args),
                CmdShowOspfVlink(args), CmdShowOspfNeighborDetail(args),
                CmdShowOspfDatabaseAs(args), CmdShowOspfDatabaseArea(args),
                CmdShowOspfDatabaseLink(args), CmdShowOspfRoute(args),
                CmdShowOspfHostnames(args)}
    BY OspfCommand, CallbackIs
  <2> QED
    BY OspfSteps, <2>1 DEF Sound
<1>10. l.cmd = "cmd_show_ospf_neighbor" => (~BrokenPath(l) => Sound(l))
  <2>1. Callback("cmd_show_ospf_neighbor", args) = CmdShowOspfNeighbor(args)
    BY CallbackIs
  <2> QED
    BY <1>8, <2>1 DEF Sound, BrokenPath
<1> QED
  BY <1>3, <1>9, <1>10

(* Every RIP line names one of the two versions.                           *)
LEMMA RipArguments ==
  ASSUME NEW l \in RipLines
  PROVE  "protocol" \in DOMAIN l.args /\ l.args["protocol"] \in {"ripv2", "ripng"}
<1> DEFINE either == Is("protocol", "ripv2") \cup Is("protocol", "ripng")
           words == {"ripv2", "ripng"}
<1>1. Gives(either, "protocol", words)
  BY WordGives, EitherGives
<1>2. \A A : Gives(And(either, A), "protocol", words)
  BY <1>1, BothGive
<1>3. \A A, B : Gives(And(And(either, A), B), "protocol", words)
  BY <1>2, BothGive
<1>4. \A cmd, about, A : l \in Lines(cmd, about, A) => l.args \in A
  BY LinesHas
<1>5. \/ \E A : l.args \in And(either, A)
      \/ \E A, B : l.args \in And(And(either, A), B)
  BY <1>4 DEF RipLines
<1> QED
  BY <1>2, <1>3, <1>5 DEF Gives

LEMMA RipSteps ==
  ASSUME NEW args
  PROVE  /\ SoundSteps(CmdShowRipInterface(args).steps, args)
         /\ SoundSteps(CmdShowRipInterfaceDetail(args).steps, args)
         /\ SoundSteps(CmdShowRipNeighbor(args).steps, args)
         /\ SoundSteps(CmdShowRipNeighborDetail(args).steps, args)
         /\ SoundSteps(CmdShowRipRoute(args).steps, args)
<1>1. /\ CmdShowRipInterface(args).steps =
           RipInterface(args)
      /\ CmdShowRipInterfaceDetail(args).steps =
           RipInterface(args)
      /\ CmdShowRipNeighbor(args).steps =
           RipNeighbor(args)
      /\ CmdShowRipNeighborDetail(args).steps =
           RipNeighbor(args)
      /\ CmdShowRipRoute(args).steps =
           <<Filter(RipNames(args).routes, RipNames(args).prefix, Opt(args, "prefix"))>>
  BY DEF CmdShowRipInterface, CmdShowRipInterfaceDetail, CmdShowRipNeighbor,
         CmdShowRipNeighborDetail, CmdShowRipRoute, RipTable, RipText, Table, Text,
         Command
<1>2. /\ RipNames(args).address # "neighbor-router-id="
      /\ RipNames(args).prefix # "neighbor-router-id="
  BY DEF RipNames
<1>3. SoundSteps(RipInterface(args), args) /\ SoundSteps(RipNeighbor(args), args)
  BY <1>2, StepSound, StepsSound DEF RipInterface, RipNeighbor
<1> QED
  BY <1>1, <1>2, <1>3, StepSound, StepsSound

LEMMA RipLine == ASSUME NEW l \in RipLines PROVE Fitting(l) /\ Sound(l)
<1>1. RipFit(l.args) = "ok"
  BY RipArguments DEF RipFit, Must, Opt
<1>2. /\ CmdShowRipInterface(l.args).fit = RipFit(l.args)
      /\ CmdShowRipInterfaceDetail(l.args).fit = RipFit(l.args)
      /\ CmdShowRipNeighbor(l.args).fit = RipFit(l.args)
      /\ CmdShowRipNeighborDetail(l.args).fit = RipFit(l.args)
      /\ CmdShowRipRoute(l.args).fit = RipFit(l.args)
  BY DEF CmdShowRipInterface, CmdShowRipInterfaceDetail, CmdShowRipNeighbor,
         CmdShowRipNeighborDetail, CmdShowRipRoute, RipTable, RipText, Table, Text,
         Command
<1> QED
  BY <1>1, <1>2, RipSteps, RipCommand DEF Fitting, Sound

LEMMA ConfigFits == ASSUME NEW l \in ConfigLines PROVE Fitting(l)
<1> DEFINE which == Is("configuration", "running") \cup Is("configuration", "candidate")
           how == Perhaps(And(Format, Perhaps(Defaults)))
           what == And(which, how) \cup And(Is("configuration", "running"), Defaults)
<1>1. /\ Gives(which, "configuration", {"candidate", "running"})
      /\ Gives(Is("configuration", "running"), "configuration", {"candidate", "running"})
      /\ Allows(which, "format", Formats)
      /\ Allows(Is("configuration", "running"), "format", Formats)
  BY WordGives, WordAllows, EitherGives
<1>2. Allows(Format, "format", Formats) /\ Allows(Defaults, "format", Formats)
  BY WordAllows, EitherGives DEF Format, Defaults, Formats
<1>3. Allows(how, "format", Formats)
  BY <1>2, BothGive, EitherGives
<1> HIDE DEF which, how
<1>4. Gives(what, "configuration", {"candidate", "running"}) /\ Allows(what, "format", Formats)
  BY <1>1, <1>2, <1>3, BothGive, EitherGives
<1> HIDE DEF what
<1>5. CASE l \in Lines("cmd_show_config", "configuration", what)
  <2>1. /\ l.cmd = "cmd_show_config"
        /\ "configuration" \in DOMAIN l.args /\ l.args["configuration"] \in {"candidate", "running"}
        /\ "format" \in DOMAIN l.args => l.args["format"] \in Formats
    BY <1>4, <1>5, LinesHas DEF Gives, Allows
  <2>8. Callback(l.cmd, l.args) = CmdShowConfig(l.args)
    BY <2>1, CallbackIs
  <2>9. CmdShowConfig(l.args).fit = "ok"
    BY <2>1 DEF CmdShowConfig, May, Must, Opt, Local, Command
  <2> QED
    BY <2>8, <2>9 DEF Fitting
<1>6. CASE l \in Lines("cmd_show_state", "state", And(Perhaps(AnyWord("xpath")), Perhaps(Format)))
  <2>1. Allows(And(Perhaps(AnyWord("xpath")), Perhaps(Format)), "format", Formats)
    BY <1>2, WordAllows, BothGive, EitherGives
  <2>2. /\ l.cmd = "cmd_show_state"
        /\ "format" \in DOMAIN l.args => l.args["format"] \in Formats
    BY <1>6, <2>1, LinesHas DEF Allows
  <2>8. Callback(l.cmd, l.args) = CmdShowState(l.args)
    BY <2>2, CallbackIs
  <2>9. CmdShowState(l.args).fit = "ok"
    BY <2>2 DEF CmdShowState, May, Opt, Command
  <2> QED
    BY <2>8, <2>9 DEF Fitting
<1>7. CASE l.cmd \in {"cmd_show_config_changes", "cmd_show_yang_modules"}
  <2>1. Callback(l.cmd, l.args) \in {CmdShowConfigChanges(l.args), CmdShowYangModules(l.args)}
    BY <1>7, CallbackIs
  <2> QED
    BY <2>1 DEF Fitting, CmdShowConfigChanges, CmdShowYangModules, Local, Command
<1> QED
  BY <1>5, <1>6, <1>7, LinesHas DEF ConfigLines, what, which, how

LEMMA ConfigSound == ASSUME NEW l \in ConfigLines PROVE Sound(l)
<1>1. /\ CmdShowConfig(l.args).layout = "local"
      /\ CmdShowConfigChanges(l.args).layout = "printed"
      /\ CmdShowState(l.args).layout = "state"
      /\ CmdShowYangModules(l.args).layout = "printed"
  BY DEF CmdShowConfig, CmdShowConfigChanges, CmdShowState, CmdShowYangModules, Local, Command
<1> QED
  BY <1>1, ConfigCommand DEF Sound, RowLayout

LEMMA BgpFits == ASSUME NEW l \in BgpLines PROVE Fitting(l)
<1> DEFINE bgp == Is("protocol", "bgp")
           neighbor == And(bgp, AnyWord("neighbor"))
           received == And(neighbor, And(Is("type", "received-routes"), Perhaps(Family)))
           advertised == And(neighbor, And(Is("type", "advertised-routes"), Perhaps(Family)))
           reset == Is("type", "hard") \cup Is("type", "soft") \cup Is("type", "soft-in")
           clear == And(And(bgp, Perhaps(AnyWord("neighbor"))), Perhaps(reset))
           routes == {"received-routes", "advertised-routes"}
           resets == {"hard", "soft", "soft-in"}
<1>1. Allows(Perhaps(Family), "afi", Afis)
  BY WordAllows, EitherGives DEF Family, Afis
<1>2. /\ Allows(bgp, "afi", Afis) /\ Allows(bgp, "type", resets) /\ Allows(bgp, "type", routes)
      /\ Allows(bgp, "neighbor", Typed)
  BY WordAllows
<1>3. /\ Gives(neighbor, "neighbor", Typed) /\ Allows(neighbor, "afi", Afis)
      /\ Allows(neighbor, "type", routes)
  BY <1>2, WordGives, WordAllows, BothGive
<1>4. CASE l \in Lines("cmd_show_bgp_summary", "messages", And(bgp, Perhaps(Family)))
  <2>1. Allows(And(bgp, Perhaps(Family)), "afi", Afis)
    BY <1>1, <1>2, BothGive
  <2>2. l.cmd = "cmd_show_bgp_summary" /\ ("afi" \in DOMAIN l.args => l.args["afi"] \in Afis)
    BY <1>4, <2>1, LinesHas DEF Allows
  <2>8. Callback(l.cmd, l.args) = CmdShowBgpSummary(l.args)
    BY <2>2, CallbackIs
  <2>9. CmdShowBgpSummary(l.args).fit = "ok"
    BY <2>2 DEF CmdShowBgpSummary, Table, Command, May, Opt
  <2> QED
    BY <2>8, <2>9 DEF Fitting
<1>5. CASE \/ l \in Lines("cmd_show_bgp_neighbor", "received", received)
           \/ l \in Lines("cmd_show_bgp_neighbor", "advertised", advertised)
  <2>1. \A word \in routes : Gives(And(Is("type", word), Perhaps(Family)), "type", routes)
    BY WordGives, BothGive
  <2>2. \A word \in routes : Allows(And(Is("type", word), Perhaps(Family)), "afi", Afis)
    BY <1>1, WordAllows, BothGive
  <2> HIDE DEF neighbor
  <2>3. /\ Gives(received, "type", routes) /\ Gives(received, "neighbor", Typed)
        /\ Allows(received, "afi", Afis)
        /\ Gives(advertised, "type", routes) /\ Gives(advertised, "neighbor", Typed)
        /\ Allows(advertised, "afi", Afis)
    BY <1>3, <2>1, <2>2, BothGive
  <2> HIDE DEF received, advertised
  <2>4. /\ l.cmd = "cmd_show_bgp_neighbor"
        /\ "neighbor" \in DOMAIN l.args
        /\ "type" \in DOMAIN l.args /\ l.args["type"] \in routes
        /\ "afi" \in DOMAIN l.args => l.args["afi"] \in Afis
    BY <1>5, <2>3, LinesHas DEF Gives, Allows
  <2>8. Callback(l.cmd, l.args) = CmdShowBgpNeighbor(l.args)
    BY <2>4, CallbackIs
  <2>9. CmdShowBgpNeighbor(l.args).fit = "ok"
    BY <2>4 DEF CmdShowBgpNeighbor, Command, May, Must, Opt
  <2> QED
    BY <2>8, <2>9 DEF Fitting
<1>6. CASE l \in Lines("cmd_clear_bgp_neighbor", "neighbor", clear)
  <2>1. Allows(Perhaps(reset), "type", resets)
    BY WordAllows, EitherGives
  <2>2. Allows(And(bgp, Perhaps(AnyWord("neighbor"))), "type", resets)
    BY <1>2, WordAllows, BothGive, EitherGives
  <2>3. Allows(clear, "type", resets)
    BY <2>1, <2>2, BothGive
  <2> HIDE DEF clear
  <2>4. /\ l.cmd = "cmd_clear_bgp_neighbor"
        /\ "type" \in DOMAIN l.args => l.args["type"] \in resets
    BY <1>6, <2>3, LinesHas DEF Allows
  <2>5. Callback(l.cmd, l.args) = CmdClearBgpNeighbor(l.args)
    BY <2>4, CallbackIs
  <2>6. Opt(l.args, "neighbor") \in Address \cup {Absent} => CmdClearBgpNeighbor(l.args).fit = "ok"
    BY <2>4 DEF CmdClearBgpNeighbor, Execute, Command, Opt
  <2> QED
    BY <2>4, <2>5, <2>6 DEF Fitting, Opt
<1>7. CASE l.cmd = "cmd_show_bgp_neighbor_detail"
  <2>1. Callback(l.cmd, l.args) = CmdShowBgpNeighborDetail(l.args)
    BY <1>7, CallbackIs
  <2> QED
    BY <2>1 DEF Fitting, CmdShowBgpNeighborDetail, Command, Needing, Requesting
<1> QED
  BY <1>4, <1>5, <1>6, <1>7, LinesHas DEF BgpLines

LEMMA BgpSound == ASSUME NEW l \in BgpLines PROVE Sound(l)
<1> DEFINE args == l.args
           afi == IF Opt(args, "afi") = Absent THEN "ipv4" ELSE Opt(args, "afi")
           routes == IF Opt(args, "type") = "received-routes"
                     THEN RoutesOf.received ELSE RoutesOf.advertised
<1>1. /\ CmdShowBgpSummary(args).steps =
           <<Every("bgp/neighbors/neighbor"), Every("statistics"), Every("messages")>>
      /\ CmdShowBgpNeighbor(args).steps =
           <<Filter("bgp/rib/afi-safis/afi-safi", "name", afi),
             Filter("neighbors/neighbor", "neighbor-address", Opt(args, "neighbor")),
             Every(routes)>>
      /\ CmdShowBgpNeighborDetail(args).steps =
           <<Filter("bgp/neighbors/neighbor", "remote-address", Opt(args, "neighbor"))>>
      /\ CmdClearBgpNeighbor(args).layout = "execute"
  BY DEF CmdShowBgpSummary, CmdShowBgpNeighbor, CmdShowBgpNeighborDetail,
         CmdClearBgpNeighbor, Table, Command, Needing, Requesting, Execute
<1>2. SoundStep(Filter("bgp/rib/afi-safis/afi-safi", "name", afi), args)
  BY DEF SoundStep, Filter, KeysOf, Opt
<1> HIDE DEF afi, routes
<1>3. /\ SoundSteps(CmdShowBgpSummary(args).steps, args)
      /\ SoundSteps(CmdShowBgpNeighbor(args).steps, args)
      /\ SoundSteps(CmdShowBgpNeighborDetail(args).steps, args)
  BY <1>1, <1>2, StepSound, StepsSound
<1> QED
  BY <1>1, <1>3, BgpCommand DEF Sound, RowLayout

(* Every line of the trees fits its callback, and all but the broken ones  *)
(* make paths that can be evaluated.                                       *)
LEMMA LineSound ==
  ASSUME NEW l \in ShowLines
  PROVE  Fitting(l) /\ (~BrokenPath(l) => Sound(l))
  BY ConfigFits, ConfigSound, IsisLine, BgpFits, BgpSound, OspfLine, RipLine, LdpLine, RouteLine
     DEF ShowLines

-----------------------------------------------------------------------------
(* Arguments are a trouble only when they do not fit.                      *)
Misfits == "arguments" \in trouble => line # Absent /\ command.fit # "ok"

(* Nothing is fetched at the prompt.  Only a command that lays out entries *)
(* comes to the layout, after its attribute sets if it needs them.         *)
Fetched ==
    /\ phase = "prompt" => seen = Absent /\ early = Absent
    /\ phase \in {"fetch", "layout"} =>
          /\ command.layout \notin {"printed", "local", "execute"}
          /\ command.first = "attributes" => early # Absent
    /\ phase = "layout" => RowLayout(command.layout)

CauseInv == Fetched /\ PanicHasCause

(* The lines are lines of the trees; none of them looks OSPF neighbors up  *)
(* by an id; and the family that is filled in holds no quote.              *)
OfferedByTrees == Offered \subseteq ShowLines
NoneBroken == (\A l \in Offered : ~BrokenPath(l)) /\ "ipv4" \notin Quoted

(* Where a callback goes from its arguments.                               *)
LEMMA StartGoes ==
  ASSUME NEW c, Start(c)
  PROVE  /\ phase' \in {"returned", "page", "execute", "fetch"}
         /\ phase' = "fetch" => c.layout \notin {"printed", "local", "execute"}
  BY DEF Start, GoTo, Return

LEMMA UnderstandGoes ==
  ASSUME NEW c, Understand(c)
  PROVE  /\ phase' \in {"returned", "page", "execute", "fetch", "first", "panicked"}
         /\ phase' = "fetch" => c.layout \notin {"printed", "local", "execute"}
         /\ phase' = "first" => c.first # "nothing"
         /\ phase' = "panicked" => c.fit # "ok"
         /\ c.first = "attributes" => phase' # "first"
  BY StartGoes DEF Understand, GoTo, Return, Panic

(* At the first prompt nothing was fetched.                                *)
LEMMA CauseInit == Init => Misfits /\ CauseInv
  BY DEF Init, CauseInv, Misfits, Fetched, PanicHasCause

(* Each step keeps the facts about arguments.                              *)
LEMMA MisfitsNext ==
  ASSUME IInv, Misfits, [Next]_vars
  PROVE  Misfits'
<1>1. ASSUME NEW l \in Offered, Call(l)
      PROVE  Misfits'
  <2> DEFINE c == Callback(l.cmd, l.args)
  <2>1. /\ line' = l /\ l # Absent /\ command' = c
        /\ trouble' = IF c.fit = "ok" THEN {} ELSE {"arguments"}
    BY <1>1, TreesAssumption DEF Call, command
  <2> HIDE DEF c
  <2> QED
    BY <2>1 DEF Misfits
<1>2. CASE NextLine
  BY <1>2 DEF NextLine, Misfits
<1>3. CASE \/ First \/ FirstFails \/ Fetch \/ FetchFails \/ Layout \/ LayoutFails
           \/ PrintOut \/ SpawnPager \/ SpawnFails \/ WritePager \/ WriteFails
           \/ WaitPager \/ ExecuteRpc \/ ExecuteFails \/ LeavePager \/ DaemonMoves
           \/ UNCHANGED vars
  <2>1. line' = line /\ trouble' \subseteq trouble \cup {"rpc", "pager"}
    BY <1>3 DEF First, FirstFails, Fetch, FetchFails, Layout, LayoutFails, PrintOut,
                SpawnPager, SpawnFails, WritePager, WriteFails, WaitPager, ExecuteRpc,
                ExecuteFails, LeavePager, DaemonMoves, vars, Fail
  <2>2. command' = command
    BY <2>1 DEF command
  <2> QED
    BY <2>1, <2>2 DEF Misfits
<1> QED
  BY <1>1, <1>2, <1>3 DEF Next

(* A line is read: what its callback asks for first is asked for.          *)
LEMMA CauseCall ==
  ASSUME IInv, CauseInv, NEW l \in Offered, Call(l)
  PROVE  CauseInv'
<1> DEFINE c == Callback(l.cmd, l.args)
<1>1. /\ phase = "prompt" /\ line' = l /\ l # Absent /\ command' = c
      /\ trouble' = IF c.fit = "ok" THEN {} ELSE {"arguments"}
      /\ UNCHANGED <<tree, paging, seen, early, shown, sent, pager>>
      /\ IF c.first = "attributes" THEN GoTo("first") ELSE Understand(c)
  BY TreesAssumption DEF Call, command
<1> HIDE DEF c
<1>2. /\ phase' \in {"returned", "page", "execute", "fetch", "first", "panicked"}
      /\ phase' = "fetch" =>
            c.layout \notin {"printed", "local", "execute"} /\ c.first # "attributes"
      /\ phase' = "first" => c.first # "nothing"
      /\ phase' = "panicked" => c.fit # "ok"
  BY <1>1, UnderstandGoes DEF GoTo
<1>3. Fetched'
  BY <1>1, <1>2 DEF CauseInv, Fetched
<1>4. PanicHasCause'
  BY <1>1, <1>2 DEF PanicHasCause, WellServed
<1> QED
  BY <1>3, <1>4 DEF CauseInv

(* The first answer suffices, or is the cause.                             *)
LEMMA CauseFirst ==
  ASSUME IInv, CauseInv, First
  PROVE  CauseInv'
<1>1. /\ phase = "first" /\ line # Absent /\ command' = command
      /\ trouble = IF command.fit = "ok" THEN {} ELSE {"arguments"}
      /\ early' = tree /\ early' # Absent
      /\ UNCHANGED <<tree, paging, line, seen, shown, sent, pager, trouble>>
  BY TreesAssumption DEF First, command, IInv, TypeOK, TroubleEnds, Running
<1>2. CASE ~FirstSuffices(tree, command)
  <2>1. phase' = "panicked"
    BY <1>2 DEF First, Panic, GoTo
  <2>2. ~WellServed'
    BY <1>1, <1>2 DEF WellServed, Supplied
  <2> QED
    BY <1>1, <2>1, <2>2 DEF CauseInv, Fetched, PanicHasCause
<1>3. CASE FirstSuffices(tree, command) /\ command.first = "attributes"
  <2>1. Understand(command)
    BY <1>3 DEF First
  <2>2. /\ phase' \in {"returned", "page", "execute", "fetch", "panicked"}
        /\ phase' = "fetch" => command.layout \notin {"printed", "local", "execute"}
        /\ phase' = "panicked" => command.fit # "ok"
    BY <1>3, <2>1, UnderstandGoes
  <2>3. Fetched'
    BY <1>1, <2>2 DEF CauseInv, Fetched
  <2>4. PanicHasCause'
    BY <1>1, <2>2 DEF PanicHasCause, WellServed
  <2> QED
    BY <2>3, <2>4 DEF CauseInv
<1>4. CASE FirstSuffices(tree, command) /\ command.first # "attributes"
  <2>1. Start(command)
    BY <1>4 DEF First
  <2>2. /\ phase' \in {"returned", "page", "execute", "fetch"}
        /\ phase' = "fetch" => command.layout \notin {"printed", "local", "execute"}
    BY <2>1, StartGoes
  <2> QED
    BY <1>1, <1>4, <2>2 DEF CauseInv, Fetched, PanicHasCause
<1> QED
  BY <1>2, <1>3, <1>4

(* The layout panics on what the answer lacks, on an attribute set that is *)
(* not known, or on a path that is none.                                   *)
LEMMA CauseLayout ==
  ASSUME OfferedByTrees, NoneBroken, IInv, CauseInv, LayoutFails
  PROVE  CauseInv'
<1>1. /\ phase = "layout" /\ phase' = "panicked" /\ line \in Offered /\ command' = command
      /\ seen # Absent
      /\ LayoutPanics(seen, command) \/ MayPanic(seen, command)
      /\ UNCHANGED <<tree, paging, line, seen, early, shown, sent, pager, trouble>>
  BY DEF LayoutFails, Panic, GoTo, command, IInv, TypeOK
<1>2. Fetched'
  BY <1>1 DEF CauseInv, Fetched
<1>3. SetUnknown(seen, command)' <=> SetUnknown(seen, command)
  BY <1>1 DEF SetUnknown
<1>4. WellServed' => WellServed
  BY <1>1, <1>3 DEF WellServed, Supplied
<1>5. ASSUME WellServed
      PROVE  FALSE
  <2>1. /\ \A n \in Rows(seen, command), leaf \in command.needs :
              <<n, leaf>> \notin Data[seen].lacks
        /\ ~MayPanic(seen, command)
    BY <1>1, <1>5 DEF WellServed, Supplied, MayPanic
  <2>2. RowLayout(command.layout) /\ (command.first = "attributes" => early # Absent)
    BY <1>1 DEF CauseInv, Fetched
  <2>3. ~SetUnknown(seen, command)
    BY <1>1, <1>5, <2>2 DEF WellServed, SetUnknown
  <2>4. \A name \in DOMAIN line.args : line.args[name] \notin Quoted
    BY <1>5 DEF WellServed
  <2>5. PICK i \in Evaluated(seen, command) : InvalidXPath(command.steps[i])
    BY <1>1, <2>1, <2>3 DEF LayoutPanics
  <2>6. i \in DOMAIN command.steps
    BY <2>5 DEF Evaluated
  <2>7. SoundSteps(command.steps, line.args)
    BY <1>1, <2>2, LineSound DEF OfferedByTrees, NoneBroken, Sound, command
  <2>8. /\ command.steps[i].key \in KeysOf(line.args)
        /\ command.steps[i].key \in Quoted
        /\ command.steps[i].key # Absent
    BY <2>5, <2>6, <2>7 DEF SoundSteps, SoundStep, InvalidXPath
  <2> QED
    BY <2>4, <2>8 DEF KeysOf, NoneBroken
<1> QED
  BY <1>1, <1>2, <1>4, <1>5 DEF CauseInv, PanicHasCause

(* What the daemon and the pager do leaves the answers as they were.       *)
LEMMA CauseKept ==
  ASSUME CauseInv, UNCHANGED <<phase, line, seen, early, trouble>>
  PROVE  CauseInv'
<1>1. command' = command
  BY DEF command
<1>2. Fetched'
  BY <1>1 DEF CauseInv, Fetched
<1>3. SetUnknown(seen, command)' <=> SetUnknown(seen, command)
  BY <1>1 DEF SetUnknown
<1>4. WellServed' => WellServed
  BY <1>1, <1>3 DEF WellServed, Supplied
<1> QED
  BY <1>2, <1>4 DEF CauseInv, PanicHasCause

(* Each step keeps the facts about causes.                                 *)
LEMMA CauseNext ==
  ASSUME OfferedByTrees, NoneBroken, IInv, CauseInv, [Next]_vars
  PROVE  CauseInv'
<1>1. CASE \E l \in Offered : Call(l)
  BY <1>1, CauseCall
<1>2. CASE First
  BY <1>2, CauseFirst
<1>3. CASE LayoutFails
  BY <1>3, CauseLayout
<1>4. CASE Fetch
  <2>1. /\ phase = "fetch" /\ seen' = tree
        /\ phase' = IF command.layout = "state" THEN "page" ELSE "layout"
        /\ UNCHANGED <<tree, paging, line, early, shown, sent, pager, trouble>>
    BY <1>4 DEF Fetch, GoTo
  <2>2. command' = command
    BY <2>1 DEF command
  <2> QED
    BY <2>1, <2>2 DEF CauseInv, Fetched, PanicHasCause, RowLayout
<1>5. CASE FirstFails
  <2>1. /\ phase' \in {"returned", "panicked"} /\ trouble' = trouble \cup {"rpc"}
        /\ UNCHANGED <<tree, paging, line, seen, early, shown, sent, pager>>
    BY <1>5 DEF FirstFails, Panic, GoTo, Return, Fail
  <2>2. command' = command
    BY <2>1 DEF command
  <2> QED
    BY <2>1, <2>2 DEF CauseInv, Fetched, PanicHasCause, WellServed
<1>6. CASE \/ FetchFails \/ Layout \/ PrintOut \/ SpawnPager \/ SpawnFails \/ WritePager
           \/ WriteFails \/ WaitPager \/ ExecuteRpc \/ ExecuteFails
  <2>1. /\ phase' \in {"returned", "page", "write", "wait"}
        /\ trouble' \subseteq trouble \cup {"rpc", "pager"}
        /\ UNCHANGED <<line, seen, early>>
    BY <1>6 DEF FetchFails, Layout, PrintOut, SpawnPager, SpawnFails, WritePager, WriteFails,
                WaitPager, ExecuteRpc, ExecuteFails, GoTo, Return, Fail
  <2>2. command' = command
    BY <2>1 DEF command
  <2> QED
    BY <2>1, <2>2 DEF CauseInv, Fetched, PanicHasCause
<1>7. CASE NextLine
  BY <1>7 DEF NextLine, CauseInv, Fetched, PanicHasCause
<1>8. CASE LeavePager \/ DaemonMoves \/ UNCHANGED vars
  BY <1>8, CauseKept DEF LeavePager, DaemonMoves, vars
<1> QED
  BY <1>1, <1>2, <1>3, <1>4, <1>5, <1>6, <1>7, <1>8 DEF Next

(* No line of the trees brings a callback an argument it does not know,    *)
(* whatever words are typed, but a neighbor to clear that is no address.   *)
THEOREM ArgumentsAreKnown ==
  ASSUME OfferedByTrees
  PROVE  Spec => []ArgumentsFit
<1>1. IInv /\ Misfits /\ [Next]_vars => Misfits'
  BY MisfitsNext
<1>2. IInv /\ Misfits => ArgumentsFit
  BY LineSound DEF IInv, TypeOK, Misfits, ArgumentsFit, Fitting, command, OfferedByTrees
<1> QED
  BY CauseInit, Invariance, <1>1, <1>2, PTL DEF Spec

(* Whatever the daemon has, and however it changes between two RPCs of a   *)
(* command, a panic has one of the causes: an unknown argument, an RPC     *)
(* that failed, an answer that lacks what is unwrapped, a route whose      *)
(* attribute set was not fetched, or a quote.                              *)
THEOREM PanicsHaveCauses ==
  ASSUME OfferedByTrees, NoneBroken
  PROVE  Spec => []PanicHasCause
<1>1. IInv /\ CauseInv /\ [Next]_vars => CauseInv'
  BY CauseNext
<1>2. CauseInv => PanicHasCause
  BY DEF CauseInv
<1> QED
  BY CauseInit, Invariance, <1>1, <1>2, PTL DEF Spec

-----------------------------------------------------------------------------
(***************************************************************************)
(* What a command finds, and what its line asks for.                       *)
(***************************************************************************)
(* No word of a line is the sentinel for one that was not typed.           *)
Resets == {"hard", "soft", "soft-in"}
WordsAreWords == Absent \notin Typed \cup Afis \cup Resets

(* A step that picks no entry, and one that picks by the argument name.    *)
Passing(step, at, name) ==
    step.list = at.list /\ step.key = Absent /\ at.leaf \notin LeavesOf(name)
Picking(step, at, name, args) ==
    /\ step.list = at.list /\ step.leaf = at.leaf /\ at.leaf \in LeavesOf(name)
    /\ step.key = Opt(args, name)

(* A path leads to a place, picking at its k-th step; at none if k is 0.   *)
LeadsTo(steps, place, name, args, k) ==
    /\ Len(steps) = Len(place)
    /\ \A i \in 1..Len(place) :
          IF i = k THEN Picking(steps[i], place[i], name, args)
                   ELSE Passing(steps[i], place[i], name)
    /\ IF k = 0 THEN name \notin Filters ELSE name \in Filters /\ k \in 1..Len(place)

(* The words of a line: its protocol, and at most one that picks entries.  *)
Speaks(args, protocol, name) ==
    /\ "protocol" \in DOMAIN args /\ args["protocol"] = protocol
    /\ DOMAIN args \cap Filters \subseteq {name}
    /\ name \in DOMAIN args => args[name] \in Typed

(* A place is one to three lists.                                          *)
LEMMA PlaceType ==
  ASSUME NEW r \in Schema
  PROVE  /\ Len(r.place) \in 1..3
         /\ DOMAIN r.place = 1..Len(r.place) /\ 0 \notin 1..Len(r.place)
<1> DEFINE Short == \/ \E p, k, a : r = Row(p, k, <<a>>)
                    \/ \E p, k, a, b : r = Row(p, k, <<a, b>>)
                    \/ \E p, k, a, b, c : r = Row(p, k, <<a, b, c>>)
<1>4. r \in IsisRows => Short
  BY DEF IsisRows
<1>5. r \in OspfRows => Short
  BY DEF OspfRows
<1>6. r \in RipRows => Short
  BY DEF RipRows
<1>7. r \in LdpRows => Short
  BY DEF LdpRows
<1>8. r \in BgpRows \cup RibRows => Short
  BY DEF BgpRows, RibRows
<1>9. Short
  BY <1>4, <1>5, <1>6, <1>7, <1>8 DEF Schema
<1> HIDE DEF Short
<1>10. CASE \E p, k, a : r = Row(p, k, <<a>>)
  <2>1. PICK p, k, a : r = Row(p, k, <<a>>)
    BY <1>10
  <2>2. r.place = <<a>>
    BY <2>1 DEF Row
  <2> QED
    BY <2>2
<1>11. CASE \E p, k, a, b : r = Row(p, k, <<a, b>>)
  <2>1. PICK p, k, a, b : r = Row(p, k, <<a, b>>)
    BY <1>11
  <2>2. r.place = <<a, b>>
    BY <2>1 DEF Row
  <2> QED
    BY <2>2
<1>12. CASE \E p, k, a, b, c : r = Row(p, k, <<a, b, c>>)
  <2>1. PICK p, k, a, b, c : r = Row(p, k, <<a, b, c>>)
    BY <1>12
  <2>2. r.place = <<a, b, c>>
    BY <2>1 DEF Row
  <2> QED
    BY <2>2
<1> QED
  BY <1>9, <1>10, <1>11, <1>12 DEF Short

(* The key that each step asks for.                                        *)
HasKeys(n, steps, place) ==
    \A i \in 1..Len(place) : steps[i].key # Absent =>
        steps[i].leaf = place[i].leaf /\ n.path[i].key = steps[i].key

(* The rows of a command whose path leads to a place are the entries of    *)
(* that place with the key it picks.                                       *)
LEMMA RowsOfPlace ==
  ASSUME NEW t, FollowsSchema(t), NEW c, NEW r \in Schema, c.protocol \in r.protocols,
         Len(c.steps) = Len(r.place),
         \A i \in 1..Len(r.place) : c.steps[i].list = r.place[i].list,
         NEW n \in Visible(t, c.data), n.protocol = c.protocol
  PROVE  n \in Rows(t, c) <=>
            /\ c.instance \in {Absent, n.instance}
            /\ n.kind = r.kind
            /\ HasKeys(n, c.steps, r.place)
<1>1. Placed(n)
  BY DEF FollowsSchema, Visible
<1>2. /\ n.kind = r.kind <=>
            Len(n.path) = Len(r.place) /\
                \A i \in 1..Len(r.place) : n.path[i].list = r.place[i].list
      /\ n.kind = r.kind => \A i \in 1..Len(r.place) : n.path[i].leaf = r.place[i].leaf
  BY <1>1, PlaceType DEF Placed, Along
<1>3. n \in Rows(t, c) <=>
         /\ c.instance \in {Absent, n.instance}
         /\ Len(n.path) = Len(r.place)
         /\ \A i \in 1..Len(r.place) :
               /\ n.path[i].list = r.place[i].list
               /\ c.steps[i].key # Absent =>
                     n.path[i].leaf = c.steps[i].leaf /\ n.path[i].key = c.steps[i].key
  BY DEF Rows, Found, Matches
<1> QED
  BY <1>2, <1>3 DEF HasKeys

(* What a line asks for, of a command.                                     *)
AskedOf(t, c, l) ==
    {n \in Visible(t, c.data) : /\ n.kind = l.about
                                /\ c.instance \in {Absent, n.instance}
                                /\ Carries(n, l.args)}

(* A command acts as typed if its path leads to the place of what its line *)
(* is about and picks what its words say.                                  *)
LEMMA ActsByPlace ==
  ASSUME WordsAreWords, NEW t, FollowsSchema(t), NEW l, NEW c,
         NEW r \in Schema, c.protocol \in r.protocols, r.kind = l.about,
         r.kind \notin {"rib route", "received", "advertised"},
         NEW name, NEW k \in 0..3, LeadsTo(c.steps, r.place, name, l.args, k),
         Speaks(l.args, c.protocol, name)
  PROVE  Rows(t, c) = AskedOf(t, c, l)
<1>2. \A n \in Rows(t, c) : n \in Visible(t, c.data) /\ n.protocol = c.protocol
  BY DEF Rows, Found
<1>3. \A n \in Visible(t, c.data) : n.kind = r.kind => n.family = Absent
  BY DEF FollowsSchema, OfFamily, Visible
<1>4. ASSUME NEW n \in Visible(t, c.data), n.kind = r.kind, n.protocol = c.protocol
      PROVE  /\ DOMAIN n.path = 1..Len(r.place)
             /\ \A i \in 1..Len(r.place) : n.path[i].leaf = r.place[i].leaf
  BY <1>4, PlaceType DEF FollowsSchema, Visible, Placed, Along
<1>5. /\ Len(c.steps) = Len(r.place)
      /\ \A i \in 1..Len(r.place) : c.steps[i].list = r.place[i].list
  BY DEF LeadsTo, Picking, Passing
<1>9. /\ Len(r.place) \in 1..3
      /\ \A i \in 1..Len(r.place) : i # k => Passing(c.steps[i], r.place[i], name)
      /\ k # 0 => /\ k \in 1..Len(r.place) /\ name \in Filters
                  /\ Picking(c.steps[k], r.place[k], name, l.args)
      /\ k = 0 => name \notin Filters
  BY PlaceType DEF LeadsTo
<1>10. 0 \notin 1..Len(r.place)
  BY PlaceType
<1>6. ASSUME NEW n \in Visible(t, c.data), n.kind = r.kind, n.protocol = c.protocol
      PROVE  Carries(n, l.args) <=> HasKeys(n, c.steps, r.place)
  <2>1. Carries(n, l.args) <=>
          \A m \in DOMAIN l.args \cap Filters : \E i \in 1..Len(r.place) :
              r.place[i].leaf \in LeavesOf(m) /\ n.path[i].key = l.args[m]
    BY <1>3, <1>4, <1>6 DEF Carries, Speaks
  <2>2. CASE k = 0 \/ name \notin DOMAIN l.args
    <3>1. DOMAIN l.args \cap Filters = {}
      BY <1>9, <2>2 DEF Speaks
    <3>2. \A i \in 1..Len(r.place) : c.steps[i].key = Absent
      <4> SUFFICES ASSUME NEW i \in 1..Len(r.place) PROVE c.steps[i].key = Absent
        OBVIOUS
      <4>1. i # k => c.steps[i].key = Absent
        BY <1>9 DEF Passing
      <4>2. i = k => c.steps[i].key = Absent
        <5> SUFFICES ASSUME i = k PROVE c.steps[i].key = Absent
          OBVIOUS
        <5>1. k # 0
          BY <1>10
        <5>2. c.steps[k].key = Opt(l.args, name)
          BY <1>9, <5>1 DEF Picking
        <5>3. name \notin DOMAIN l.args
          BY <2>2, <5>1
        <5> QED
          BY <5>2, <5>3 DEF Opt
      <4> QED
        BY <4>1, <4>2
    <3> QED
      BY <2>1, <3>1, <3>2 DEF HasKeys
  <2>3. CASE k # 0 /\ name \in DOMAIN l.args
    <3>1. /\ DOMAIN l.args \cap Filters = {name} /\ k \in 1..Len(r.place)
          /\ l.args[name] # Absent
      BY <1>9, <2>3 DEF Speaks, WordsAreWords
    <3>2. /\ c.steps[k].leaf = r.place[k].leaf /\ r.place[k].leaf \in LeavesOf(name)
          /\ c.steps[k].key = l.args[name]
      BY <1>9, <2>3, <3>1 DEF Picking, Opt
    <3>3. \A i \in 1..Len(r.place) : i # k =>
             c.steps[i].key = Absent /\ r.place[i].leaf \notin LeavesOf(name)
      BY <1>9, <3>1 DEF Passing
    <3>4. Carries(n, l.args) <=> n.path[k].key = l.args[name]
      BY <2>1, <3>1, <3>2, <3>3
    <3> QED
      BY <3>1, <3>2, <3>3, <3>4 DEF HasKeys
  <2> QED
    BY <2>2, <2>3
<1>7. \A n \in Visible(t, c.data) : n.protocol = c.protocol =>
         (n \in Rows(t, c) <=> /\ c.instance \in {Absent, n.instance}
                               /\ n.kind = r.kind
                               /\ Carries(n, l.args))
  <2> SUFFICES ASSUME NEW n \in Visible(t, c.data), n.protocol = c.protocol
      PROVE  n \in Rows(t, c) <=> /\ c.instance \in {Absent, n.instance}
                                  /\ n.kind = r.kind
                                  /\ Carries(n, l.args)
    OBVIOUS
  <2>1. n \in Rows(t, c) <=>
            /\ c.instance \in {Absent, n.instance}
            /\ n.kind = r.kind
            /\ HasKeys(n, c.steps, r.place)
    BY <1>5, RowsOfPlace
  <2> QED
    BY <1>6, <2>1
<1>8. \A n : Carries(n, l.args) => n.protocol = c.protocol
  BY DEF Carries, Speaks
<1> QED
  BY <1>2, <1>7, <1>8 DEF AskedOf

(* Arguments that name a protocol, and at most one of which picks entries. *)
NoOther(arguments, name) == \A a \in arguments : DOMAIN a \cap Filters \subseteq {name}
Speak(arguments, protocols, name) ==
    /\ Gives(arguments, "protocol", protocols) /\ Allows(arguments, name, Typed)
    /\ NoOther(arguments, name)

(* How they are put together keeps that.                                   *)
LEMMA ProtocolSpeaks ==
  ASSUME NEW protocol, NEW name, name # "protocol"
  PROVE  Speak(Is("protocol", protocol), {protocol}, name)
<1>1. Gives(Is("protocol", protocol), "protocol", {protocol})
  BY WordGives
<1>2. Allows(Is("protocol", protocol), name, Typed)
  BY WordAllows
<1>3. NoOther(Is("protocol", protocol), name)
  BY DEF NoOther, Is, Filters
<1> QED
  BY <1>1, <1>2, <1>3 DEF Speak

(* So for one of two protocols.                                            *)
LEMMA EitherSpeaks ==
  ASSUME NEW A, NEW B, NEW p, NEW q, NEW name, Speak(A, {p}, name), Speak(B, {q}, name)
  PROVE  Speak(A \cup B, {p, q}, name)
<1>1. Gives(A, "protocol", {p, q}) /\ Gives(B, "protocol", {p, q})
  BY DEF Speak, Gives
<1>2. NoOther(A \cup B, name)
  BY DEF Speak, NoOther
<1> QED
  BY <1>1, <1>2, EitherGives DEF Speak

(* Nothing that is put together adds a word that picks entries.            *)
LEMMA NoOtherKept ==
  ASSUME NEW A, NEW B, NEW name, NoOther(A, name), NoOther(B, name)
  PROVE  NoOther(And(A, B), name) /\ NoOther(Perhaps(B), name)
<1>1. NoOther(And(A, B), name)
  <2> SUFFICES ASSUME NEW c \in And(A, B) PROVE DOMAIN c \cap Filters \subseteq {name}
    BY DEF NoOther
  <2>1. PICK a \in A, b \in B : DOMAIN c = DOMAIN a \cup DOMAIN b
    BY AndHas
  <2> QED
    BY <2>1 DEF NoOther
<1>2. NoOther(Perhaps(B), name)
  BY DEF NoOther, Perhaps
<1> QED
  BY <1>1, <1>2

(* What else a line may bring: the word that picks entries, or a word that *)
(* picks none.                                                             *)
LEMMA MoreSpeaks ==
  ASSUME NEW A, NEW P, NEW name, Speak(A, P, name)
  PROVE  /\ Speak(And(A, AnyWord(name)), P, name)
         /\ Speak(And(A, Perhaps(AnyWord(name))), P, name)
         /\ name # "detail" => Speak(And(A, Detail), P, name)
         /\ name # "afi" => Speak(And(A, Perhaps(Family)), P, name)
         /\ name # "type" => \A word : Speak(And(A, Is("type", word)), P, name)
<1>1. ASSUME NEW B, Allows(B, name, Typed), NoOther(B, name)
      PROVE  Speak(And(A, B), P, name) /\ Speak(And(A, Perhaps(B)), P, name)
  <2>1. NoOther(And(A, B), name) /\ NoOther(And(A, Perhaps(B)), name)
    BY <1>1, NoOtherKept DEF Speak
  <2>2. Allows(Perhaps(B), name, Typed)
    BY <1>1, EitherGives
  <2>3. Allows(And(A, B), name, Typed) /\ Allows(And(A, Perhaps(B)), name, Typed)
    BY <1>1, <2>2, BothGive DEF Speak
  <2>4. Gives(And(A, B), "protocol", P) /\ Gives(And(A, Perhaps(B)), "protocol", P)
    BY BothGive DEF Speak
  <2> QED
    BY <2>1, <2>3, <2>4 DEF Speak
<1>2. Allows(AnyWord(name), name, Typed) /\ NoOther(AnyWord(name), name)
  BY WordAllows DEF NoOther, AnyWord
<1>3. ASSUME NEW other, NEW word, other # name, other \notin Filters
      PROVE  Allows(Is(other, word), name, Typed) /\ NoOther(Is(other, word), name)
  BY <1>3, WordAllows DEF NoOther, Is
<1>4. name # "afi" => Allows(Family, name, Typed) /\ NoOther(Family, name)
  <2>1. name # "afi" =>
          /\ Allows(Is("afi", "ipv4"), name, Typed) /\ NoOther(Is("afi", "ipv4"), name)
          /\ Allows(Is("afi", "ipv6"), name, Typed) /\ NoOther(Is("afi", "ipv6"), name)
    BY <1>3 DEF Filters
  <2> QED
    BY <2>1, EitherGives DEF Family, NoOther
<1>5. name # "detail" => Allows(Detail, name, Typed) /\ NoOther(Detail, name)
  BY <1>3 DEF Detail, Filters
<1>6. name # "type" =>
          \A word : Allows(Is("type", word), name, Typed) /\ NoOther(Is("type", word), name)
  BY <1>3 DEF Filters
<1> QED
  BY <1>1, <1>2, <1>4, <1>5, <1>6

(* Each line names one of the protocols.                                   *)
LEMMA SpeakerSpeaks ==
  ASSUME NEW A, NEW P, NEW name, Speak(A, P, name), NEW args \in A
  PROVE  \E p \in P : Speaks(args, p, name)
  BY DEF Speak, Speaks, Gives, Allows, NoOther

(* Paths of up to three steps that pick at one of them, or at none.        *)
Arrives(steps, place, name, args) == \E k \in 0..3 : LeadsTo(steps, place, name, args, k)

(* Where each step passes, or is the one that picks, the path arrives.     *)
LEMMA Leads ==
  ASSUME NEW s1, NEW s2, NEW s3, NEW a1, NEW a2, NEW a3, NEW name, NEW args
  PROVE  /\ name \notin Filters /\ Passing(s1, a1, name) =>
               Arrives(<<s1>>, <<a1>>, name, args)
         /\ name \notin Filters /\ Passing(s1, a1, name) /\ Passing(s2, a2, name) =>
               Arrives(<<s1, s2>>, <<a1, a2>>, name, args)
         /\ name \notin Filters /\ Passing(s1, a1, name) /\ Passing(s2, a2, name) /\
                Passing(s3, a3, name) =>
               Arrives(<<s1, s2, s3>>, <<a1, a2, a3>>, name, args)
         /\ name \in Filters /\ Picking(s1, a1, name, args) =>
               Arrives(<<s1>>, <<a1>>, name, args)
         /\ name \in Filters /\ Picking(s1, a1, name, args) /\ Passing(s2, a2, name) =>
               Arrives(<<s1, s2>>, <<a1, a2>>, name, args)
         /\ name \in Filters /\ Passing(s1, a1, name) /\ Picking(s2, a2, name, args) =>
               Arrives(<<s1, s2>>, <<a1, a2>>, name, args)
         /\ name \in Filters /\ Picking(s1, a1, name, args) /\ Passing(s2, a2, name) /\
                Passing(s3, a3, name) =>
               Arrives(<<s1, s2, s3>>, <<a1, a2, a3>>, name, args)
         /\ name \in Filters /\ Passing(s1, a1, name) /\ Passing(s2, a2, name) /\
                Picking(s3, a3, name, args) =>
               Arrives(<<s1, s2, s3>>, <<a1, a2, a3>>, name, args)
<1>1. /\ name \notin Filters /\ Passing(s1, a1, name) =>
            LeadsTo(<<s1>>, <<a1>>, name, args, 0)
      /\ name \notin Filters /\ Passing(s1, a1, name) /\ Passing(s2, a2, name) =>
            LeadsTo(<<s1, s2>>, <<a1, a2>>, name, args, 0)
      /\ name \notin Filters /\ Passing(s1, a1, name) /\ Passing(s2, a2, name) /\
             Passing(s3, a3, name) =>
            LeadsTo(<<s1, s2, s3>>, <<a1, a2, a3>>, name, args, 0)
      /\ name \in Filters /\ Picking(s1, a1, name, args) =>
            LeadsTo(<<s1>>, <<a1>>, name, args, 1)
      /\ name \in Filters /\ Picking(s1, a1, name, args) /\ Passing(s2, a2, name) =>
            LeadsTo(<<s1, s2>>, <<a1, a2>>, name, args, 1)
      /\ name \in Filters /\ Passing(s1, a1, name) /\ Picking(s2, a2, name, args) =>
            LeadsTo(<<s1, s2>>, <<a1, a2>>, name, args, 2)
      /\ name \in Filters /\ Picking(s1, a1, name, args) /\ Passing(s2, a2, name) /\
             Passing(s3, a3, name) =>
            LeadsTo(<<s1, s2, s3>>, <<a1, a2, a3>>, name, args, 1)
      /\ name \in Filters /\ Passing(s1, a1, name) /\ Passing(s2, a2, name) /\
             Picking(s3, a3, name, args) =>
            LeadsTo(<<s1, s2, s3>>, <<a1, a2, a3>>, name, args, 3)
  BY DEF LeadsTo
<1> QED
  BY <1>1 DEF Arrives

(* A line acts as typed on every daemon that follows the schema.           *)
Acts(l) ==
    RowLayout(Callback(l.cmd, l.args).layout) =>
        \A t : FollowsSchema(t) => Rows(t, Callback(l.cmd, l.args)) = Asked(t, l)

(* With these arguments a callback asks for a protocol and a place of it.  *)
Reaches(cmd, args, protocol, place, name) ==
    /\ Callback(cmd, args).protocol = protocol
    /\ Arrives(Callback(cmd, args).steps, place, name, args)

(* So it does with any of which at most one picks entries.                 *)
Leading(cmd, P, place, name) ==
    \A args : \A p \in P : Speaks(args, p, name) => Reaches(cmd, args, p, place, name)

(* Kinds of entries that are of no family.                                 *)
OneFamily(kind) == kind \notin {"rib route", "received", "advertised"}
InSchema(P, kind, place) == Row(P, kind, place) \in Schema /\ OneFamily(kind)
Answers(cmd, kind, P, name) ==
    \E R, place : P \subseteq R /\ InSchema(R, kind, place) /\ Leading(cmd, P, place, name)

(* A line that reaches the place of what it is about acts as typed.        *)
LEMMA LineActs ==
  ASSUME WordsAreWords, NEW cmd, NEW about, NEW A, NEW l \in Lines(cmd, about, A),
         NEW P, NEW place, InSchema(P, about, place), NEW p \in P,
         NEW name, Reaches(cmd, l.args, p, place, name),
         Speaks(l.args, p, name)
  PROVE  Acts(l)
<1>1. l.cmd = cmd /\ l.about = about
  BY LinesHas
<1> DEFINE r == Row(P, about, place)
           c == Callback(cmd, l.args)
<1>2. r \in Schema /\ r.protocols = P /\ r.kind = about /\ r.place = place
  BY DEF Row, InSchema
<1>3. PICK k \in 0..3 : c.protocol = p /\ LeadsTo(c.steps, place, name, l.args, k)
  BY DEF Reaches, Arrives
<1>4. c = Callback(l.cmd, l.args)
  BY <1>1
<1> HIDE DEF r, c
<1>5. \A t : FollowsSchema(t) => Rows(t, c) = AskedOf(t, c, l)
  BY <1>1, <1>2, <1>3, ActsByPlace DEF InSchema, OneFamily
<1>6. \A t : Asked(t, l) = AskedOf(t, Callback(l.cmd, l.args), l)
  BY DEF Asked, AskedOf
<1> QED
  BY <1>4, <1>5, <1>6 DEF Acts

(* A command that leads to the place of a row of the schema answers.       *)
LEMMA AnswersBy ==
  ASSUME NEW cmd, NEW kind, NEW P, NEW R, NEW place, NEW name, P \subseteq R,
         InSchema(R, kind, place), Leading(cmd, P, place, name)
  PROVE  Answers(cmd, kind, P, name)
  BY DEF Answers

(* Lines whose words are of some protocols, of which it answers some.      *)
LEMMA SomeAct ==
  ASSUME WordsAreWords, NEW cmd, NEW about, NEW A, NEW Q, NEW name, Speak(A, Q, name),
         NEW P, Answers(cmd, about, P, name)
  PROVE  \A l \in Lines(cmd, about, A) : l.args["protocol"] \in P => Acts(l)
<1> SUFFICES ASSUME NEW l \in Lines(cmd, about, A), l.args["protocol"] \in P
             PROVE  Acts(l)
  OBVIOUS
<1>1. PICK R, place : P \subseteq R /\ InSchema(R, about, place) /\ Leading(cmd, P, place, name)
  BY DEF Answers
<1>2. PICK q \in Q : Speaks(l.args, q, name)
  BY LinesHas, SpeakerSpeaks
<1>3. q \in P
  BY <1>2 DEF Speaks
<1>4. Reaches(cmd, l.args, q, place, name)
  BY <1>1, <1>2, <1>3 DEF Leading
<1> QED
  BY <1>1, <1>2, <1>3, <1>4, LineActs

(* Lines of whose protocols it answers each.                               *)
LEMMA AllAct ==
  ASSUME WordsAreWords, NEW cmd, NEW about, NEW A, NEW P, NEW name, Speak(A, P, name),
         Answers(cmd, about, P, name)
  PROVE  \A l \in Lines(cmd, about, A) : Acts(l)
<1>1. \A l \in Lines(cmd, about, A) : l.args["protocol"] \in P
  BY LinesHas DEF Speak, Gives
<1> QED
  BY <1>1, SomeAct

(* What is not laid out row by row is not asked for.                       *)
LEMMA OtherAct ==
  ASSUME NEW cmd, NEW about, NEW A, \A args : ~RowLayout(Callback(cmd, args).layout)
  PROVE  \A l \in Lines(cmd, about, A) : Acts(l)
  BY LinesHas DEF Acts

(* Where the commands of IS-IS lead to.                                    *)
LEMMA IsisAnswers ==
  /\ Answers("cmd_show_isis_interface", "interface", {"isis"}, "name")
  /\ Answers("cmd_show_isis_adjacency", "adjacency", {"isis"}, "name")
  /\ Answers("cmd_show_isis_database", "lsp", {"isis"}, "none")
  /\ Answers("cmd_show_isis_route", "route", {"isis"}, "none")
<1> DEFINE interfaces == <<IsisLink>>
           adjacencies == <<IsisLink, At("adjacencies/adjacency", "neighbor-sysid")>>
           lsps == <<At("isis/database/levels", "level"), At("lsp", "lsp-id")>>
           routes == <<At("isis/local-rib/route", "prefix"), Hop>>
<1>1. ASSUME NEW args
      PROVE  /\ Reaches("cmd_show_isis_interface", args, "isis", interfaces, "name")
             /\ Reaches("cmd_show_isis_adjacency", args, "isis", adjacencies, "name")
             /\ Reaches("cmd_show_isis_database", args, "isis", lsps, "none")
             /\ Reaches("cmd_show_isis_route", args, "isis", routes, "none")
  <2>1. /\ CmdShowIsisInterface(args).steps = <<IsisInterface(args)>>
        /\ CmdShowIsisAdjacency(args).steps =
               <<IsisInterface(args), Every("adjacencies/adjacency")>>
        /\ CmdShowIsisDatabase(args).steps = <<Every("isis/database/levels"), Every("lsp")>>
        /\ CmdShowIsisRoute(args).steps =
               <<Every("isis/local-rib/route"), Every("next-hops/next-hop")>>
    BY DEF CmdShowIsisInterface, CmdShowIsisAdjacency, CmdShowIsisDatabase,
           CmdShowIsisRoute, Table, Command, WithNames, Needing
  <2>2. /\ CmdShowIsisInterface(args).protocol = "isis"
        /\ CmdShowIsisAdjacency(args).protocol = "isis"
        /\ CmdShowIsisDatabase(args).protocol = "isis"
        /\ CmdShowIsisRoute(args).protocol = "isis"
    BY DEF CmdShowIsisInterface, CmdShowIsisAdjacency, CmdShowIsisDatabase,
           CmdShowIsisRoute, Table, Command, WithNames, Needing
  <2>3. /\ Callback("cmd_show_isis_interface", args) = CmdShowIsisInterface(args)
        /\ Callback("cmd_show_isis_adjacency", args) = CmdShowIsisAdjacency(args)
        /\ Callback("cmd_show_isis_database", args) = CmdShowIsisDatabase(args)
        /\ Callback("cmd_show_isis_route", args) = CmdShowIsisRoute(args)
    BY CallbackIs
  <2>4. /\ Picking(IsisInterface(args), IsisLink, "name", args)
    BY DEF Picking, IsisInterface, IsisLink, Hop, Filter, Every, At, LeavesOf
  <2>5. /\ Passing(Every("adjacencies/adjacency"),
               At("adjacencies/adjacency", "neighbor-sysid"), "name")
        /\ Passing(Every("isis/database/levels"), At("isis/database/levels", "level"), "none")
        /\ Passing(Every("lsp"), At("lsp", "lsp-id"), "none")
        /\ Passing(Every("isis/local-rib/route"), At("isis/local-rib/route", "prefix"), "none")
        /\ Passing(Every("next-hops/next-hop"), Hop, "none")
    BY DEF Passing, IsisInterface, IsisLink, Hop, Filter, Every, At, LeavesOf
  <2>6. "name" \in Filters /\ "none" \notin Filters
    BY DEF Filters
  <2> QED
    BY <2>1, <2>2, <2>3, <2>4, <2>5, <2>6, Leads DEF Reaches
<1>2. /\ InSchema({"isis"}, "interface", interfaces)
      /\ InSchema({"isis"}, "adjacency", adjacencies)
      /\ InSchema({"isis"}, "lsp", lsps)
      /\ InSchema({"isis"}, "route", routes)
  BY DEF InSchema, OneFamily, Schema, IsisRows
<1> HIDE DEF interfaces, adjacencies, lsps, routes
<1>3. /\ Leading("cmd_show_isis_interface", {"isis"}, interfaces, "name")
      /\ Leading("cmd_show_isis_adjacency", {"isis"}, adjacencies, "name")
      /\ Leading("cmd_show_isis_database", {"isis"}, lsps, "none")
      /\ Leading("cmd_show_isis_route", {"isis"}, routes, "none")
  BY <1>1 DEF Leading
<1> QED
  BY <1>2, <1>3, AnswersBy

(* Where the commands of OSPF lead to.                                     *)
LEMMA OspfAnswers ==
  /\ Answers("cmd_show_ospf_interface", "interface", Ospf, "name")
  /\ Answers("cmd_show_ospf_interface_detail", "interface", Ospf, "name")
  /\ Answers("cmd_show_ospf_vlink", "vlink neighbor", Ospf, "none")
  /\ Answers("cmd_show_ospf_neighbor_detail", "neighbor", Ospf, "router_id")
  /\ Answers("cmd_show_ospf_database_area", "area-scope LSA", Ospf, "none")
  /\ Answers("cmd_show_ospf_database_link", "link-scope LSA", Ospf, "none")
  /\ Answers("cmd_show_ospf_route", "route", Ospf, "prefix")
  /\ Answers("cmd_show_ospf_hostnames", "hostname", Ospf, "none")
<1> DEFINE interfaces == <<Area, OspfLink>>
           vlinkNeighbors ==
               <<Area, At("virtual-links/virtual-link", "router-id"),
                 At("neighbors/neighbor", "neighbor-router-id")>>
           peers == <<Area, OspfLink, At("neighbors/neighbor", "neighbor-router-id")>>
           areaLsas == <<Area, At("database/area-scope-lsa/header", "lsa-id")>>
           linkLsas == <<Area, OspfLink, At("database/link-scope-lsa/header", "lsa-id")>>
           routes == <<At("ospf/local-rib/route", "prefix"), Hop>>
           names == <<At("ospf/hostnames/hostname", "router-id")>>
<1>1. ASSUME NEW args, NEW p \in Ospf, "protocol" \in DOMAIN args, args["protocol"] = p
      PROVE  /\ Reaches("cmd_show_ospf_interface", args, p, interfaces, "name")
             /\ Reaches("cmd_show_ospf_interface_detail", args, p, interfaces, "name")
             /\ Reaches("cmd_show_ospf_vlink", args, p, vlinkNeighbors, "none")
             /\ Reaches("cmd_show_ospf_neighbor_detail", args, p, peers, "router_id")
             /\ Reaches("cmd_show_ospf_database_area", args, p, areaLsas, "none")
             /\ Reaches("cmd_show_ospf_database_link", args, p, linkLsas, "none")
             /\ Reaches("cmd_show_ospf_route", args, p, routes, "prefix")
             /\ Reaches("cmd_show_ospf_hostnames", args, p, names, "none")
  <2>1. Protocol(args) = p
    BY <1>1 DEF Protocol, Opt
  <2>2. /\ CmdShowOspfInterface(args).steps =
               <<OspfArea, Filter("interfaces/interface", "name", Opt(args, "name"))>>
        /\ CmdShowOspfInterfaceDetail(args).steps =
               <<OspfArea, Filter("interfaces/interface", "name", Opt(args, "name"))>>
        /\ CmdShowOspfVlink(args).steps =
               <<OspfArea, Every("virtual-links/virtual-link"), Every("neighbors/neighbor")>>
        /\ CmdShowOspfNeighborDetail(args).steps =
               <<OspfArea, Every("interfaces/interface"),
                 Filter("neighbors/neighbor", "neighbor-router-id", Opt(args, "router_id"))>>
        /\ CmdShowOspfDatabaseArea(args).steps =
               <<OspfArea, Every("database/area-scope-lsa/header")>>
        /\ CmdShowOspfDatabaseLink(args).steps =
               <<OspfArea, Every("interfaces/interface"),
                 Every("database/link-scope-lsa/header")>>
        /\ CmdShowOspfRoute(args).steps =
               <<Filter("ospf/local-rib/route", "prefix", Opt(args, "prefix")),
                 Every("next-hops/next-hop")>>
        /\ CmdShowOspfHostnames(args).steps = <<Every("ospf/hostnames/hostname")>>
    BY <2>1 DEF CmdShowOspfInterface, CmdShowOspfInterfaceDetail, CmdShowOspfVlink,
                CmdShowOspfNeighborDetail, CmdShowOspfDatabaseArea,
                CmdShowOspfDatabaseLink, CmdShowOspfRoute, CmdShowOspfHostnames,
                OspfInterface, OspfNeighbor, OspfDatabase, OspfTable, OspfText, Table,
                Text, Command, WithNames, Needing
  <2>3. /\ CmdShowOspfInterface(args).protocol = p
        /\ CmdShowOspfInterfaceDetail(args).protocol = p
        /\ CmdShowOspfVlink(args).protocol = p
        /\ CmdShowOspfNeighborDetail(args).protocol = p
        /\ CmdShowOspfDatabaseArea(args).protocol = p
        /\ CmdShowOspfDatabaseLink(args).protocol = p
        /\ CmdShowOspfRoute(args).protocol = p
        /\ CmdShowOspfHostnames(args).protocol = p
    BY <2>1 DEF CmdShowOspfInterface, CmdShowOspfInterfaceDetail, CmdShowOspfVlink,
                CmdShowOspfNeighborDetail, CmdShowOspfDatabaseArea,
                CmdShowOspfDatabaseLink, CmdShowOspfRoute, CmdShowOspfHostnames,
                OspfInterface, OspfNeighbor, OspfDatabase, OspfTable, OspfText, Table,
                Text, Command, WithNames, Needing
  <2>4. /\ Callback("cmd_show_ospf_interface", args) = CmdShowOspfInterface(args)
        /\ Callback("cmd_show_ospf_interface_detail", args) = CmdShowOspfInterfaceDetail(args)
        /\ Callback("cmd_show_ospf_vlink", args) = CmdShowOspfVlink(args)
        /\ Callback("cmd_show_ospf_neighbor_detail", args) = CmdShowOspfNeighborDetail(args)
        /\ Callback("cmd_show_ospf_database_area", args) = CmdShowOspfDatabaseArea(args)
        /\ Callback("cmd_show_ospf_database_link", args) = CmdShowOspfDatabaseLink(args)
        /\ Callback("cmd_show_ospf_route", args) = CmdShowOspfRoute(args)
        /\ Callback("cmd_show_ospf_hostnames", args) = CmdShowOspfHostnames(args)
    BY CallbackIs
  <2>5. /\ Picking(Filter("interfaces/interface", "name", Opt(args, "name")), OspfLink, "name",
               args)
        /\ Picking(Filter("neighbors/neighbor", "neighbor-router-id", Opt(args, "router_id")),
               At("neighbors/neighbor", "neighbor-router-id"), "router_id", args)
        /\ Picking(Filter("ospf/local-rib/route", "prefix", Opt(args, "prefix")),
               At("ospf/local-rib/route", "prefix"), "prefix", args)
    BY DEF Picking, OspfArea, Area, OspfLink, Hop, Filter, Every, At, LeavesOf
  <2>6. /\ Passing(OspfArea, Area, "name")
        /\ Passing(OspfArea, Area, "none")
        /\ Passing(Every("virtual-links/virtual-link"),
               At("virtual-links/virtual-link", "router-id"), "none")
        /\ Passing(Every("neighbors/neighbor"), At("neighbors/neighbor", "neighbor-router-id"),
               "none")
        /\ Passing(OspfArea, Area, "router_id")
        /\ Passing(Every("interfaces/interface"), OspfLink, "router_id")
        /\ Passing(Every("database/area-scope-lsa/header"),
               At("database/area-scope-lsa/header", "lsa-id"), "none")
        /\ Passing(Every("interfaces/interface"), OspfLink, "none")
        /\ Passing(Every("database/link-scope-lsa/header"),
               At("database/link-scope-lsa/header", "lsa-id"), "none")
        /\ Passing(Every("next-hops/next-hop"), Hop, "prefix")
        /\ Passing(Every("ospf/hostnames/hostname"), At("ospf/hostnames/hostname", "router-id"),
               "none")
    BY DEF Passing, OspfArea, Area, OspfLink, Hop, Filter, Every, At, LeavesOf
  <2>7. "name" \in Filters /\ "none" \notin Filters /\ "prefix" \in Filters /\
            "router_id" \in Filters
    BY DEF Filters
  <2> QED
    BY <2>2, <2>3, <2>4, <2>5, <2>6, <2>7, Leads DEF Reaches
<1>2. /\ InSchema(Ospf, "interface", interfaces)
      /\ InSchema(Ospf, "vlink neighbor", vlinkNeighbors)
      /\ InSchema(Ospf, "neighbor", peers)
      /\ InSchema(Ospf, "area-scope LSA", areaLsas)
      /\ InSchema(Ospf, "link-scope LSA", linkLsas)
      /\ InSchema(Ospf, "route", routes)
      /\ InSchema(Ospf, "hostname", names)
  BY DEF InSchema, OneFamily, Schema, OspfRows
<1> HIDE DEF interfaces, vlinkNeighbors, peers, areaLsas, linkLsas, routes, names
<1>3. /\ Leading("cmd_show_ospf_interface", Ospf, interfaces, "name")
      /\ Leading("cmd_show_ospf_interface_detail", Ospf, interfaces, "name")
      /\ Leading("cmd_show_ospf_vlink", Ospf, vlinkNeighbors, "none")
      /\ Leading("cmd_show_ospf_neighbor_detail", Ospf, peers, "router_id")
      /\ Leading("cmd_show_ospf_database_area", Ospf, areaLsas, "none")
      /\ Leading("cmd_show_ospf_database_link", Ospf, linkLsas, "none")
      /\ Leading("cmd_show_ospf_route", Ospf, routes, "prefix")
      /\ Leading("cmd_show_ospf_hostnames", Ospf, names, "none")
  BY <1>1 DEF Leading, Speaks
<1> QED
  BY <1>2, <1>3, AnswersBy

(* Where the commands of RIP lead to, for IPv4.                            *)
LEMMA Ripv2Answers ==
  /\ Answers("cmd_show_rip_interface", "interface", {"ripv2"}, "name")
  /\ Answers("cmd_show_rip_interface_detail", "interface", {"ripv2"}, "name")
  /\ Answers("cmd_show_rip_neighbor", "neighbor", {"ripv2"}, "address")
  /\ Answers("cmd_show_rip_neighbor_detail", "neighbor", {"ripv2"}, "address")
  /\ Answers("cmd_show_rip_route", "route", {"ripv2"}, "prefix")
<1> DEFINE interfaces == <<At("rip/interfaces/interface", "interface")>>
           peers == <<At("rip/ipv4/neighbors/neighbor", "ipv4-address")>>
           routes == <<At("rip/ipv4/routes/route", "ipv4-prefix")>>
<1>1. ASSUME NEW args, "protocol" \in DOMAIN args, args["protocol"] = "ripv2"
      PROVE  /\ Reaches("cmd_show_rip_interface", args, "ripv2", interfaces, "name")
             /\ Reaches("cmd_show_rip_interface_detail", args, "ripv2", interfaces, "name")
             /\ Reaches("cmd_show_rip_neighbor", args, "ripv2", peers, "address")
             /\ Reaches("cmd_show_rip_neighbor_detail", args, "ripv2", peers, "address")
             /\ Reaches("cmd_show_rip_route", args, "ripv2", routes, "prefix")
  <2>1. Protocol(args) = "ripv2"
    BY <1>1 DEF Protocol, Opt
  <2>2. RipNames(args) = [neighbors |-> "rip/ipv4/neighbors/neighbor",
            address |-> "ipv4-address",
                          routes |-> "rip/ipv4/routes/route", prefix |-> "ipv4-prefix"]
    BY <2>1 DEF RipNames
  <2>3. /\ CmdShowRipInterface(args).steps =
               <<Filter("rip/interfaces/interface", "interface", Opt(args, "name"))>>
        /\ CmdShowRipInterfaceDetail(args).steps =
               <<Filter("rip/interfaces/interface", "interface", Opt(args, "name"))>>
        /\ CmdShowRipNeighbor(args).steps =
               <<Filter("rip/ipv4/neighbors/neighbor", "ipv4-address", Opt(args, "address"))>>
        /\ CmdShowRipNeighborDetail(args).steps =
               <<Filter("rip/ipv4/neighbors/neighbor", "ipv4-address", Opt(args, "address"))>>
        /\ CmdShowRipRoute(args).steps =
               <<Filter("rip/ipv4/routes/route", "ipv4-prefix", Opt(args, "prefix"))>>
    BY <2>1, <2>2 DEF CmdShowRipInterface, CmdShowRipInterfaceDetail, CmdShowRipNeighbor,
                      CmdShowRipNeighborDetail, CmdShowRipRoute, RipInterface,
                      RipNeighbor, RipTable, RipText, Table, Text, Command
  <2>4. /\ CmdShowRipInterface(args).protocol = "ripv2"
        /\ CmdShowRipInterfaceDetail(args).protocol = "ripv2"
        /\ CmdShowRipNeighbor(args).protocol = "ripv2"
        /\ CmdShowRipNeighborDetail(args).protocol = "ripv2"
        /\ CmdShowRipRoute(args).protocol = "ripv2"
    BY <2>1, <2>2 DEF CmdShowRipInterface, CmdShowRipInterfaceDetail, CmdShowRipNeighbor,
                      CmdShowRipNeighborDetail, CmdShowRipRoute, RipInterface,
                      RipNeighbor, RipTable, RipText, Table, Text, Command
  <2>5. /\ Callback("cmd_show_rip_interface", args) = CmdShowRipInterface(args)
        /\ Callback("cmd_show_rip_interface_detail", args) = CmdShowRipInterfaceDetail(args)
        /\ Callback("cmd_show_rip_neighbor", args) = CmdShowRipNeighbor(args)
        /\ Callback("cmd_show_rip_neighbor_detail", args) = CmdShowRipNeighborDetail(args)
        /\ Callback("cmd_show_rip_route", args) = CmdShowRipRoute(args)
    BY CallbackIs
  <2>6. /\ Picking(Filter("rip/interfaces/interface", "interface", Opt(args, "name")),
               At("rip/interfaces/interface", "interface"), "name", args)
        /\ Picking(Filter("rip/ipv4/neighbors/neighbor", "ipv4-address", Opt(args, "address")),
               At("rip/ipv4/neighbors/neighbor", "ipv4-address"), "address", args)
        /\ Picking(Filter("rip/ipv4/routes/route", "ipv4-prefix", Opt(args, "prefix")),
               At("rip/ipv4/routes/route", "ipv4-prefix"), "prefix", args)
    BY DEF Picking, Filter, At, LeavesOf
  <2>7. "address" \in Filters /\ "name" \in Filters /\ "prefix" \in Filters
    BY DEF Filters
  <2> QED
    BY <2>3, <2>4, <2>5, <2>6, <2>7, Leads DEF Reaches
<1>2. /\ InSchema({"ripv2", "ripng"}, "interface", interfaces)
      /\ InSchema({"ripv2"}, "neighbor", peers)
      /\ InSchema({"ripv2"}, "route", routes)
  BY DEF InSchema, OneFamily, Schema, RipRows
<1> HIDE DEF interfaces, peers, routes
<1>3. /\ Leading("cmd_show_rip_interface", {"ripv2"}, interfaces, "name")
      /\ Leading("cmd_show_rip_interface_detail", {"ripv2"}, interfaces, "name")
      /\ Leading("cmd_show_rip_neighbor", {"ripv2"}, peers, "address")
      /\ Leading("cmd_show_rip_neighbor_detail", {"ripv2"}, peers, "address")
      /\ Leading("cmd_show_rip_route", {"ripv2"}, routes, "prefix")
  BY <1>1 DEF Leading, Speaks
<1>4. {"ripv2"} \subseteq {"ripv2", "ripng"}
  OBVIOUS
<1> QED
  BY <1>2, <1>3, <1>4, AnswersBy

(* Where the commands of RIP lead to, for IPv6.                            *)
LEMMA RipngAnswers ==
  /\ Answers("cmd_show_rip_interface", "interface", {"ripng"}, "name")
  /\ Answers("cmd_show_rip_interface_detail", "interface", {"ripng"}, "name")
  /\ Answers("cmd_show_rip_neighbor", "neighbor", {"ripng"}, "address")
  /\ Answers("cmd_show_rip_neighbor_detail", "neighbor", {"ripng"}, "address")
  /\ Answers("cmd_show_rip_route", "route", {"ripng"}, "prefix")
<1> DEFINE interfaces == <<At("rip/interfaces/interface", "interface")>>
           peers == <<At("rip/ipv6/neighbors/neighbor", "ipv6-address")>>
           routes == <<At("rip/ipv6/routes/route", "ipv6-prefix")>>
<1>1. ASSUME NEW args, "protocol" \in DOMAIN args, args["protocol"] = "ripng"
      PROVE  /\ Reaches("cmd_show_rip_interface", args, "ripng", interfaces, "name")
             /\ Reaches("cmd_show_rip_interface_detail", args, "ripng", interfaces, "name")
             /\ Reaches("cmd_show_rip_neighbor", args, "ripng", peers, "address")
             /\ Reaches("cmd_show_rip_neighbor_detail", args, "ripng", peers, "address")
             /\ Reaches("cmd_show_rip_route", args, "ripng", routes, "prefix")
  <2>1. Protocol(args) = "ripng"
    BY <1>1 DEF Protocol, Opt
  <2>2. RipNames(args) = [neighbors |-> "rip/ipv6/neighbors/neighbor",
            address |-> "ipv6-address",
                          routes |-> "rip/ipv6/routes/route", prefix |-> "ipv6-prefix"]
    BY <2>1 DEF RipNames
  <2>3. /\ CmdShowRipInterface(args).steps =
               <<Filter("rip/interfaces/interface", "interface", Opt(args, "name"))>>
        /\ CmdShowRipInterfaceDetail(args).steps =
               <<Filter("rip/interfaces/interface", "interface", Opt(args, "name"))>>
        /\ CmdShowRipNeighbor(args).steps =
               <<Filter("rip/ipv6/neighbors/neighbor", "ipv6-address", Opt(args, "address"))>>
        /\ CmdShowRipNeighborDetail(args).steps =
               <<Filter("rip/ipv6/neighbors/neighbor", "ipv6-address", Opt(args, "address"))>>
        /\ CmdShowRipRoute(args).steps =
               <<Filter("rip/ipv6/routes/route", "ipv6-prefix", Opt(args, "prefix"))>>
    BY <2>1, <2>2 DEF CmdShowRipInterface, CmdShowRipInterfaceDetail, CmdShowRipNeighbor,
                      CmdShowRipNeighborDetail, CmdShowRipRoute, RipInterface,
                      RipNeighbor, RipTable, RipText, Table, Text, Command
  <2>4. /\ CmdShowRipInterface(args).protocol = "ripng"
        /\ CmdShowRipInterfaceDetail(args).protocol = "ripng"
        /\ CmdShowRipNeighbor(args).protocol = "ripng"
        /\ CmdShowRipNeighborDetail(args).protocol = "ripng"
        /\ CmdShowRipRoute(args).protocol = "ripng"
    BY <2>1, <2>2 DEF CmdShowRipInterface, CmdShowRipInterfaceDetail, CmdShowRipNeighbor,
                      CmdShowRipNeighborDetail, CmdShowRipRoute, RipInterface,
                      RipNeighbor, RipTable, RipText, Table, Text, Command
  <2>5. /\ Callback("cmd_show_rip_interface", args) = CmdShowRipInterface(args)
        /\ Callback("cmd_show_rip_interface_detail", args) = CmdShowRipInterfaceDetail(args)
        /\ Callback("cmd_show_rip_neighbor", args) = CmdShowRipNeighbor(args)
        /\ Callback("cmd_show_rip_neighbor_detail", args) = CmdShowRipNeighborDetail(args)
        /\ Callback("cmd_show_rip_route", args) = CmdShowRipRoute(args)
    BY CallbackIs
  <2>6. /\ Picking(Filter("rip/interfaces/interface", "interface", Opt(args, "name")),
               At("rip/interfaces/interface", "interface"), "name", args)
        /\ Picking(Filter("rip/ipv6/neighbors/neighbor", "ipv6-address", Opt(args, "address")),
               At("rip/ipv6/neighbors/neighbor", "ipv6-address"), "address", args)
        /\ Picking(Filter("rip/ipv6/routes/route", "ipv6-prefix", Opt(args, "prefix")),
               At("rip/ipv6/routes/route", "ipv6-prefix"), "prefix", args)
    BY DEF Picking, Filter, At, LeavesOf
  <2>7. "address" \in Filters /\ "name" \in Filters /\ "prefix" \in Filters
    BY DEF Filters
  <2> QED
    BY <2>3, <2>4, <2>5, <2>6, <2>7, Leads DEF Reaches
<1>2. /\ InSchema({"ripv2", "ripng"}, "interface", interfaces)
      /\ InSchema({"ripng"}, "neighbor", peers)
      /\ InSchema({"ripng"}, "route", routes)
  BY DEF InSchema, OneFamily, Schema, RipRows
<1> HIDE DEF interfaces, peers, routes
<1>3. /\ Leading("cmd_show_rip_interface", {"ripng"}, interfaces, "name")
      /\ Leading("cmd_show_rip_interface_detail", {"ripng"}, interfaces, "name")
      /\ Leading("cmd_show_rip_neighbor", {"ripng"}, peers, "address")
      /\ Leading("cmd_show_rip_neighbor_detail", {"ripng"}, peers, "address")
      /\ Leading("cmd_show_rip_route", {"ripng"}, routes, "prefix")
  BY <1>1 DEF Leading, Speaks
<1>4. {"ripng"} \subseteq {"ripv2", "ripng"}
  OBVIOUS
<1> QED
  BY <1>2, <1>3, <1>4, AnswersBy

(* Where the commands of LDP lead to, but for the bindings of a FEC.       *)
LEMMA LdpAnswers ==
  /\ Answers("cmd_show_mpls_ldp_discovery", "discovered peer", {"mpls-ldp"}, "name")
  /\ Answers("cmd_show_mpls_ldp_discovery_detail", "interface", {"mpls-ldp"}, "name")
  /\ Answers("cmd_show_mpls_ldp_peer", "peer adjacency", {"mpls-ldp"}, "lsr-id")
  /\ Answers("cmd_show_mpls_ldp_peer_detail", "peer", {"mpls-ldp"}, "lsr-id")
  /\ Answers("cmd_show_mpls_ldp_binding_address", "address binding", {"mpls-ldp"}, "address")
<1> DEFINE discovered == <<LdpLink, Adjacency, At("peer", "lsr-id")>>
           interfaces == <<LdpLink>>
           peerAdjacencies == <<LdpPeerEntry, Adjacency>>
           peers == <<LdpPeerEntry>>
           bindings == <<At("mpls-ldp/global/bindings/address", "address")>>
<1>1. ASSUME NEW args
      PROVE  /\ Reaches("cmd_show_mpls_ldp_discovery", args, "mpls-ldp", discovered, "name")
             /\ Reaches("cmd_show_mpls_ldp_discovery_detail", args, "mpls-ldp", interfaces,
                    "name")
             /\ Reaches("cmd_show_mpls_ldp_peer", args, "mpls-ldp", peerAdjacencies, "lsr-id")
             /\ Reaches("cmd_show_mpls_ldp_peer_detail", args, "mpls-ldp", peers, "lsr-id")
             /\ Reaches("cmd_show_mpls_ldp_binding_address", args, "mpls-ldp", bindings,
                    "address")
  <2>1. /\ CmdShowMplsLdpDiscovery(args).steps =
               <<LdpInterface(args), LdpAdjacency, Every("peer")>>
        /\ CmdShowMplsLdpDiscoveryDetail(args).steps = <<LdpInterface(args)>>
        /\ CmdShowMplsLdpPeer(args).steps = <<LdpPeer(args), LdpAdjacency>>
        /\ CmdShowMplsLdpPeerDetail(args).steps = <<LdpPeer(args)>>
        /\ CmdShowMplsLdpBindingAddress(args).steps =
               <<Filter("mpls-ldp/global/bindings/address", "address", Opt(args, "address"))>>
    BY DEF CmdShowMplsLdpDiscovery, CmdShowMplsLdpDiscoveryDetail, CmdShowMplsLdpPeer,
           CmdShowMplsLdpPeerDetail, CmdShowMplsLdpBindingAddress, LdpTable, LdpText,
           Table, Text, Command
  <2>2. /\ CmdShowMplsLdpDiscovery(args).protocol = "mpls-ldp"
        /\ CmdShowMplsLdpDiscoveryDetail(args).protocol = "mpls-ldp"
        /\ CmdShowMplsLdpPeer(args).protocol = "mpls-ldp"
        /\ CmdShowMplsLdpPeerDetail(args).protocol = "mpls-ldp"
        /\ CmdShowMplsLdpBindingAddress(args).protocol = "mpls-ldp"
    BY DEF CmdShowMplsLdpDiscovery, CmdShowMplsLdpDiscoveryDetail, CmdShowMplsLdpPeer,
           CmdShowMplsLdpPeerDetail, CmdShowMplsLdpBindingAddress, LdpTable, LdpText,
           Table, Text, Command
  <2>3. /\ Callback("cmd_show_mpls_ldp_discovery", args) = CmdShowMplsLdpDiscovery(args)
        /\ Callback("cmd_show_mpls_ldp_discovery_detail",
               args) = CmdShowMplsLdpDiscoveryDetail(args)
        /\ Callback("cmd_show_mpls_ldp_peer", args) = CmdShowMplsLdpPeer(args)
        /\ Callback("cmd_show_mpls_ldp_peer_detail", args) = CmdShowMplsLdpPeerDetail(args)
        /\ Callback("cmd_show_mpls_ldp_binding_address",
               args) = CmdShowMplsLdpBindingAddress(args)
    BY CallbackIs
  <2>4. /\ Picking(LdpInterface(args), LdpLink, "name", args)
        /\ Picking(LdpPeer(args), LdpPeerEntry, "lsr-id", args)
        /\ Picking(Filter("mpls-ldp/global/bindings/address", "address", Opt(args, "address")),
               At("mpls-ldp/global/bindings/address", "address"), "address", args)
    BY DEF Picking, LdpInterface, LdpPeer, LdpAdjacency, LdpLink, LdpPeerEntry, Adjacency,
           Filter, Every, At, LeavesOf
  <2>5. /\ Passing(LdpAdjacency, Adjacency, "name")
        /\ Passing(Every("peer"), At("peer", "lsr-id"), "name")
        /\ Passing(LdpAdjacency, Adjacency, "lsr-id")
    BY DEF Passing, LdpInterface, LdpPeer, LdpAdjacency, LdpLink, LdpPeerEntry, Adjacency,
           Filter, Every, At, LeavesOf
  <2>6. "address" \in Filters /\ "lsr-id" \in Filters /\ "name" \in Filters
    BY DEF Filters
  <2> QED
    BY <2>1, <2>2, <2>3, <2>4, <2>5, <2>6, Leads DEF Reaches
<1>2. /\ InSchema({"mpls-ldp"}, "discovered peer", discovered)
      /\ InSchema({"mpls-ldp"}, "interface", interfaces)
      /\ InSchema({"mpls-ldp"}, "peer adjacency", peerAdjacencies)
      /\ InSchema({"mpls-ldp"}, "peer", peers)
      /\ InSchema({"mpls-ldp"}, "address binding", bindings)
  BY DEF InSchema, OneFamily, Schema, LdpRows
<1> HIDE DEF discovered, interfaces, peerAdjacencies, peers, bindings
<1>3. /\ Leading("cmd_show_mpls_ldp_discovery", {"mpls-ldp"}, discovered, "name")
      /\ Leading("cmd_show_mpls_ldp_discovery_detail", {"mpls-ldp"}, interfaces, "name")
      /\ Leading("cmd_show_mpls_ldp_peer", {"mpls-ldp"}, peerAdjacencies, "lsr-id")
      /\ Leading("cmd_show_mpls_ldp_peer_detail", {"mpls-ldp"}, peers, "lsr-id")
      /\ Leading("cmd_show_mpls_ldp_binding_address", {"mpls-ldp"}, bindings, "address")
  BY <1>1 DEF Leading
<1> QED
  BY <1>2, <1>3, AnswersBy

(* Where the commands of BGP neighbors lead to.                            *)
LEMMA BgpAnswers ==
  /\ Answers("cmd_show_bgp_summary", "messages", {"bgp"}, "none")
  /\ Answers("cmd_show_bgp_neighbor_detail", "neighbor", {"bgp"}, "neighbor")
<1> DEFINE messages == <<BgpPeer, At("statistics", Absent), At("messages", Absent)>>
           peers == <<BgpPeer>>
<1>1. ASSUME NEW args
      PROVE  /\ Reaches("cmd_show_bgp_summary", args, "bgp", messages, "none")
             /\ Reaches("cmd_show_bgp_neighbor_detail", args, "bgp", peers, "neighbor")
  <2>1. /\ CmdShowBgpSummary(args).steps =
               <<Every("bgp/neighbors/neighbor"), Every("statistics"), Every("messages")>>
        /\ CmdShowBgpNeighborDetail(args).steps =
               <<Filter("bgp/neighbors/neighbor", "remote-address", Opt(args, "neighbor"))>>
    BY DEF CmdShowBgpSummary, CmdShowBgpNeighborDetail, Table, Command, Needing, Requesting
  <2>2. /\ CmdShowBgpSummary(args).protocol = "bgp"
        /\ CmdShowBgpNeighborDetail(args).protocol = "bgp"
    BY DEF CmdShowBgpSummary, CmdShowBgpNeighborDetail, Table, Command, Needing, Requesting
  <2>3. /\ Callback("cmd_show_bgp_summary", args) = CmdShowBgpSummary(args)
        /\ Callback("cmd_show_bgp_neighbor_detail", args) = CmdShowBgpNeighborDetail(args)
    BY CallbackIs
  <2>4. /\ Picking(Filter("bgp/neighbors/neighbor", "remote-address", Opt(args, "neighbor")),
               BgpPeer, "neighbor", args)
    BY DEF Picking, BgpPeer, Filter, Every, At, LeavesOf
  <2>5. /\ Passing(Every("bgp/neighbors/neighbor"), BgpPeer, "none")
        /\ Passing(Every("statistics"), At("statistics", Absent), "none")
        /\ Passing(Every("messages"), At("messages", Absent), "none")
    BY DEF Passing, BgpPeer, Filter, Every, At, LeavesOf
  <2>6. "neighbor" \in Filters /\ "none" \notin Filters
    BY DEF Filters
  <2> QED
    BY <2>1, <2>2, <2>3, <2>4, <2>5, <2>6, Leads DEF Reaches
<1>2. /\ InSchema({"bgp"}, "messages", messages)
      /\ InSchema({"bgp"}, "neighbor", peers)
  BY DEF InSchema, OneFamily, Schema, BgpRows
<1> HIDE DEF messages, peers
<1>3. /\ Leading("cmd_show_bgp_summary", {"bgp"}, messages, "none")
      /\ Leading("cmd_show_bgp_neighbor_detail", {"bgp"}, peers, "neighbor")
  BY <1>1 DEF Leading
<1> QED
  BY <1>2, <1>3, AnswersBy

(* What the words of a line of IS-IS pick is what is shown of it.          *)
LEMMA IsisActs ==
  ASSUME WordsAreWords, NEW l \in IsisLines
  PROVE  Acts(l)
<1> DEFINE isis == Is("protocol", "isis")
           named == And(isis, Perhaps(AnyWord("name")))
<1>1. Speak(isis, {"isis"}, "name") /\ Speak(isis, {"isis"}, "none")
  BY ProtocolSpeaks
<1>2. Speak(named, {"isis"}, "name")
  BY <1>1, MoreSpeaks
<1>3. \/ l \in Lines("cmd_show_isis_interface", "interface", named)
      \/ l \in Lines("cmd_show_isis_database", "lsp", isis)
      \/ l \in Lines("cmd_show_isis_route", "route", isis)
      \/ l \in Lines("cmd_show_isis_adjacency", "adjacency", isis)
      \/ l \in Lines("cmd_clear_isis_adjacency", "adjacency", isis)
      \/ l \in Lines("cmd_clear_isis_database", "lsp", isis)
  BY DEF IsisLines
<1> HIDE DEF isis, named
<1>4. l \in Lines("cmd_show_isis_interface", "interface", named) => Acts(l)
  BY <1>2, IsisAnswers, AllAct
<1>5. l \in Lines("cmd_show_isis_database", "lsp", isis) => Acts(l)
  BY <1>1, IsisAnswers, AllAct
<1>6. l \in Lines("cmd_show_isis_route", "route", isis) => Acts(l)
  BY <1>1, IsisAnswers, AllAct
<1>7. l \in Lines("cmd_show_isis_adjacency", "adjacency", isis) => Acts(l)
  BY <1>1, IsisAnswers, AllAct
<1>8. \A args : /\ ~RowLayout(CmdClearIsisAdjacency(args).layout)
                /\ ~RowLayout(CmdClearIsisDatabase(args).layout)
  BY DEF CmdClearIsisAdjacency, CmdClearIsisDatabase, Execute, Command, RowLayout
<1>9. \A args : /\ ~RowLayout(Callback("cmd_clear_isis_adjacency", args).layout)
                /\ ~RowLayout(Callback("cmd_clear_isis_database", args).layout)
  BY <1>8, CallbackIs
<1>10. \/ l \in Lines("cmd_clear_isis_adjacency", "adjacency", isis)
       \/ l \in Lines("cmd_clear_isis_database", "lsp", isis)
       => Acts(l)
  BY <1>9, OtherAct
<1> QED
  BY <1>3, <1>4, <1>5, <1>6, <1>7, <1>10

(* The neighbors of OSPF when none is named.                               *)
LEMMA OspfNeighborLeads ==
  ASSUME NEW args, NEW p \in Ospf, "protocol" \in DOMAIN args, args["protocol"] = p,
         "router_id" \notin DOMAIN args
  PROVE  Reaches("cmd_show_ospf_neighbor", args, p,
                 <<Area, OspfLink, At("neighbors/neighbor", "neighbor-router-id")>>, "none")
<1> DEFINE step == Filter("neighbors/neighbor", "neighbor-router-id=", Opt(args, "router_id"))
<1>1. Protocol(args) = p
  BY DEF Protocol, Opt
<1>2. /\ CmdShowOspfNeighbor(args).steps = <<OspfArea, Every("interfaces/interface"), step>>
      /\ CmdShowOspfNeighbor(args).protocol = p
  BY <1>1 DEF CmdShowOspfNeighbor, OspfNeighbor, OspfTable, Table, Command, WithNames
<1>3. Callback("cmd_show_ospf_neighbor", args) = CmdShowOspfNeighbor(args)
  BY CallbackIs
<1>4. /\ Passing(OspfArea, Area, "none")
      /\ Passing(Every("interfaces/interface"), OspfLink, "none")
      /\ Passing(step, At("neighbors/neighbor", "neighbor-router-id"), "none")
  BY DEF Passing, OspfArea, Area, OspfLink, Every, Filter, At, LeavesOf, Opt
<1>5. "none" \notin Filters
  BY DEF Filters
<1> HIDE DEF step
<1> QED
  BY <1>2, <1>3, <1>4, <1>5, Leads DEF Reaches

(* The lines of OSPF, but for the broken path and the LSAs of AS scope.    *)
LEMMA OspfActs ==
  ASSUME WordsAreWords, NEW l \in OspfLines, ~BrokenPath(l), l.cmd # "cmd_show_ospf_database_as"
  PROVE  Acts(l)
<1> DEFINE ospf == Is("protocol", "ospfv2") \cup Is("protocol", "ospfv3")
           named == And(ospf, Perhaps(AnyWord("name")))
           neighbor == And(ospf, Perhaps(AnyWord("router_id")))
           prefix == And(ospf, Perhaps(AnyWord("prefix")))
           namedDetail == And(named, Detail)
           neighborDetail == And(neighbor, Detail)
<1>1. /\ Speak(ospf, Ospf, "none") /\ Speak(ospf, Ospf, "name")
      /\ Speak(ospf, Ospf, "router_id") /\ Speak(ospf, Ospf, "prefix")
  BY ProtocolSpeaks, EitherSpeaks DEF Ospf
<1>2. /\ Speak(named, Ospf, "name") /\ Speak(neighbor, Ospf, "router_id")
      /\ Speak(prefix, Ospf, "prefix")
  BY <1>1, MoreSpeaks
<1>3. Speak(namedDetail, Ospf, "name") /\ Speak(neighborDetail, Ospf, "router_id")
  BY <1>2, MoreSpeaks
<1>4. \/ l \in Lines("cmd_show_ospf_interface", "interface", named)
      \/ l \in Lines("cmd_show_ospf_interface_detail", "interface", namedDetail)
      \/ l \in Lines("cmd_show_ospf_vlink", "vlink neighbor", ospf)
      \/ l \in Lines("cmd_show_ospf_neighbor", "neighbor", neighbor)
      \/ l \in Lines("cmd_show_ospf_neighbor_detail", "neighbor", neighborDetail)
      \/ l \in Lines("cmd_show_ospf_hostnames", "hostname", ospf)
      \/ l \in Lines("cmd_show_ospf_database_as", "AS-scope LSA", ospf)
      \/ l \in Lines("cmd_show_ospf_database_area", "area-scope LSA", ospf)
      \/ l \in Lines("cmd_show_ospf_database_link", "link-scope LSA", ospf)
      \/ l \in Lines("cmd_show_ospf_route", "route", prefix)
  BY DEF OspfLines
<1> HIDE DEF ospf, named, neighbor, prefix, namedDetail, neighborDetail
<1>5. l \in Lines("cmd_show_ospf_interface", "interface", named) => Acts(l)
  BY <1>2, OspfAnswers, AllAct
<1>6. l \in Lines("cmd_show_ospf_interface_detail", "interface", namedDetail) => Acts(l)
  BY <1>3, OspfAnswers, AllAct
<1>7. l \in Lines("cmd_show_ospf_vlink", "vlink neighbor", ospf) => Acts(l)
  BY <1>1, OspfAnswers, AllAct
<1>8. CASE l \in Lines("cmd_show_ospf_neighbor", "neighbor", neighbor)
  <2>1. l.cmd = "cmd_show_ospf_neighbor" /\ "router_id" \notin DOMAIN l.args
    BY <1>8, LinesHas DEF BrokenPath
  <2>2. PICK p \in Ospf : Speaks(l.args, p, "router_id")
    BY <1>2, <1>8, LinesHas, SpeakerSpeaks
  <2>3. Speaks(l.args, p, "none")
    <3>1. DOMAIN l.args \cap Filters = {}
      BY <2>1, <2>2 DEF Speaks
    <3>2. Allows(AnyWord("router_id"), "none", Typed) /\ Allows(ospf, "none", Typed)
      BY <1>1, WordAllows DEF Speak
    <3>3. Allows(neighbor, "none", Typed)
      BY <3>2, EitherGives, BothGive DEF neighbor
    <3>4. "none" \in DOMAIN l.args => l.args["none"] \in Typed
      BY <1>8, <3>3, LinesHas DEF Allows
    <3> QED
      BY <2>2, <3>1, <3>4 DEF Speaks
  <2>4. Reaches("cmd_show_ospf_neighbor", l.args, p,
                <<Area, OspfLink, At("neighbors/neighbor", "neighbor-router-id")>>, "none")
    BY <2>1, <2>2, OspfNeighborLeads DEF Speaks
  <2>5. InSchema(Ospf, "neighbor",
                 <<Area, OspfLink, At("neighbors/neighbor", "neighbor-router-id")>>)
    BY DEF InSchema, OneFamily, Schema, OspfRows
  <2> QED
    BY <1>8, <2>3, <2>4, <2>5, LineActs
<1>9. l \in Lines("cmd_show_ospf_neighbor_detail", "neighbor", neighborDetail) => Acts(l)
  BY <1>3, OspfAnswers, AllAct
<1>10. l \in Lines("cmd_show_ospf_hostnames", "hostname", ospf) => Acts(l)
  BY <1>1, OspfAnswers, AllAct
<1>11. l \notin Lines("cmd_show_ospf_database_as", "AS-scope LSA", ospf)
  BY LinesHas
<1>12. l \in Lines("cmd_show_ospf_database_area", "area-scope LSA", ospf) => Acts(l)
  BY <1>1, OspfAnswers, AllAct
<1>13. l \in Lines("cmd_show_ospf_database_link", "link-scope LSA", ospf) => Acts(l)
  BY <1>1, OspfAnswers, AllAct
<1>14. l \in Lines("cmd_show_ospf_route", "route", prefix) => Acts(l)
  BY <1>2, OspfAnswers, AllAct
<1> QED
  BY <1>4, <1>5, <1>6, <1>7, <1>8, <1>9, <1>10, <1>11, <1>12, <1>13, <1>14

(* The lines of RIP, of either version.                                    *)
LEMMA RipActs ==
  ASSUME WordsAreWords, NEW l \in RipLines
  PROVE  Acts(l)
<1> DEFINE both == {"ripv2", "ripng"}
           rip == Is("protocol", "ripv2") \cup Is("protocol", "ripng")
           named == And(rip, Perhaps(AnyWord("name")))
           neighbor == And(rip, Perhaps(AnyWord("address")))
           prefix == And(rip, Perhaps(AnyWord("prefix")))
           namedDetail == And(named, Detail)
           neighborDetail == And(neighbor, Detail)
<1>1. Speak(rip, both, "name") /\ Speak(rip, both, "address") /\ Speak(rip, both, "prefix")
  BY ProtocolSpeaks, EitherSpeaks
<1>2. Speak(named, both, "name") /\ Speak(neighbor, both, "address") /\
          Speak(prefix, both, "prefix")
  BY <1>1, MoreSpeaks
<1>3. Speak(namedDetail, both, "name") /\ Speak(neighborDetail, both, "address")
  BY <1>2, MoreSpeaks
<1>4. /\ l.args["protocol"] \in {"ripv2"} \/ l.args["protocol"] \in {"ripng"}
      /\ \/ l \in Lines("cmd_show_rip_interface", "interface", named)
         \/ l \in Lines("cmd_show_rip_interface_detail", "interface", namedDetail)
         \/ l \in Lines("cmd_show_rip_neighbor", "neighbor", neighbor)
         \/ l \in Lines("cmd_show_rip_neighbor_detail", "neighbor", neighborDetail)
         \/ l \in Lines("cmd_show_rip_route", "route", prefix)
  <2>1. \/ l \in Lines("cmd_show_rip_interface", "interface", named)
        \/ l \in Lines("cmd_show_rip_interface_detail", "interface", namedDetail)
        \/ l \in Lines("cmd_show_rip_neighbor", "neighbor", neighbor)
        \/ l \in Lines("cmd_show_rip_neighbor_detail", "neighbor", neighborDetail)
        \/ l \in Lines("cmd_show_rip_route", "route", prefix)
    BY DEF RipLines
  <2> HIDE DEF rip, named, neighbor, prefix, namedDetail, neighborDetail
  <2>2. l.args["protocol"] \in {"ripv2", "ripng"}
    BY <1>2, <1>3, <2>1, LinesHas DEF Speak, Gives
  <2> QED
    BY <2>1, <2>2
<1> HIDE DEF both, rip, named, neighbor, prefix, namedDetail, neighborDetail
<1>7. l \in Lines("cmd_show_rip_interface", "interface", named) => Acts(l)
  BY <1>2, <1>4, Ripv2Answers, RipngAnswers, SomeAct
<1>8. l \in Lines("cmd_show_rip_interface_detail", "interface", namedDetail) => Acts(l)
  BY <1>3, <1>4, Ripv2Answers, RipngAnswers, SomeAct
<1>9. l \in Lines("cmd_show_rip_neighbor", "neighbor", neighbor) => Acts(l)
  BY <1>2, <1>4, Ripv2Answers, RipngAnswers, SomeAct
<1>10. l \in Lines("cmd_show_rip_neighbor_detail", "neighbor", neighborDetail) => Acts(l)
  BY <1>3, <1>4, Ripv2Answers, RipngAnswers, SomeAct
<1>11. l \in Lines("cmd_show_rip_route", "route", prefix) => Acts(l)
  BY <1>2, <1>4, Ripv2Answers, RipngAnswers, SomeAct
<1> QED
  BY <1>4, <1>7, <1>8, <1>9, <1>10, <1>11

(* The bindings of a FEC: all peers of the one that is named, or of all.   *)
LEMMA FecAnswers == Answers("cmd_show_mpls_ldp_binding_fec", "fec binding", {"mpls-ldp"}, "fec")
<1> DEFINE bindings == <<At("mpls-ldp/global/bindings/fec-label", "fec"), At("peer", "lsr-id")>>
<1>1. ASSUME NEW args, DOMAIN args \cap Filters \subseteq {"fec"}
      PROVE  Reaches("cmd_show_mpls_ldp_binding_fec", args, "mpls-ldp", bindings, "fec")
  <2> DEFINE s1 == Filter("mpls-ldp/global/bindings/fec-label", "fec", Opt(args, "fec"))
             s2 == Filter("peer", "lsr-id", Opt(args, "lsr-id"))
  <2>1. /\ CmdShowMplsLdpBindingFec(args).steps = <<s1, s2>>
        /\ CmdShowMplsLdpBindingFec(args).protocol = "mpls-ldp"
    BY DEF CmdShowMplsLdpBindingFec, LdpTable, Table, Command
  <2>2. Callback("cmd_show_mpls_ldp_binding_fec", args) = CmdShowMplsLdpBindingFec(args)
    BY CallbackIs
  <2>3. "lsr-id" \notin DOMAIN args /\ "fec" \in Filters
    BY <1>1 DEF Filters
  <2>4. /\ Picking(s1, At("mpls-ldp/global/bindings/fec-label", "fec"), "fec", args)
        /\ Passing(s2, At("peer", "lsr-id"), "fec")
    BY <2>3 DEF Picking, Passing, Filter, At, LeavesOf, Opt
  <2> HIDE DEF s1, s2
  <2> QED
    BY <2>1, <2>2, <2>3, <2>4, Leads DEF Reaches
<1>2. InSchema({"mpls-ldp"}, "fec binding", bindings)
  BY DEF InSchema, OneFamily, Schema, LdpRows
<1> HIDE DEF bindings
<1>3. Leading("cmd_show_mpls_ldp_binding_fec", {"mpls-ldp"}, bindings, "fec")
  BY <1>1 DEF Leading, Speaks
<1> QED
  BY <1>2, <1>3, AnswersBy

(* The lines of LDP.                                                       *)
LEMMA LdpActs ==
  ASSUME WordsAreWords, NEW l \in LdpLines
  PROVE  Acts(l)
<1> DEFINE ldp == Is("protocol", "mpls-ldp")
           named == And(ldp, Perhaps(AnyWord("name")))
           peer == And(ldp, Perhaps(AnyWord("lsr-id")))
           address == And(ldp, Perhaps(AnyWord("address")))
           fec == And(ldp, Perhaps(AnyWord("fec")))
           namedDetail == And(named, Detail)
           peerDetail == And(peer, Detail)
           P == {"mpls-ldp"}
<1>1. /\ Speak(ldp, P, "name") /\ Speak(ldp, P, "lsr-id")
      /\ Speak(ldp, P, "address") /\ Speak(ldp, P, "fec")
  BY ProtocolSpeaks
<1>2. /\ Speak(named, P, "name") /\ Speak(peer, P, "lsr-id")
      /\ Speak(address, P, "address") /\ Speak(fec, P, "fec")
  BY <1>1, MoreSpeaks
<1>3. Speak(namedDetail, P, "name") /\ Speak(peerDetail, P, "lsr-id")
  BY <1>2, MoreSpeaks
<1>4. \/ l \in Lines("cmd_show_mpls_ldp_discovery", "discovered peer", named)
      \/ l \in Lines("cmd_show_mpls_ldp_discovery_detail", "interface", namedDetail)
      \/ l \in Lines("cmd_show_mpls_ldp_peer", "peer adjacency", peer)
      \/ l \in Lines("cmd_show_mpls_ldp_peer_detail", "peer", peerDetail)
      \/ l \in Lines("cmd_show_mpls_ldp_binding_address", "address binding", address)
      \/ l \in Lines("cmd_show_mpls_ldp_binding_fec", "fec binding", fec)
  BY DEF LdpLines
<1> HIDE DEF ldp, named, peer, address, fec, namedDetail, peerDetail
<1>5. l \in Lines("cmd_show_mpls_ldp_discovery", "discovered peer", named) => Acts(l)
  BY <1>2, LdpAnswers, AllAct
<1>6. l \in Lines("cmd_show_mpls_ldp_discovery_detail", "interface", namedDetail) => Acts(l)
  BY <1>3, LdpAnswers, AllAct
<1>7. l \in Lines("cmd_show_mpls_ldp_peer", "peer adjacency", peer) => Acts(l)
  BY <1>2, LdpAnswers, AllAct
<1>8. l \in Lines("cmd_show_mpls_ldp_peer_detail", "peer", peerDetail) => Acts(l)
  BY <1>3, LdpAnswers, AllAct
<1>9. l \in Lines("cmd_show_mpls_ldp_binding_address", "address binding", address) => Acts(l)
  BY <1>2, LdpAnswers, AllAct
<1>10. l \in Lines("cmd_show_mpls_ldp_binding_fec", "fec binding", fec) => Acts(l)
  BY <1>2, FecAnswers, AllAct
<1> QED
  BY <1>4, <1>5, <1>6, <1>7, <1>8, <1>9, <1>10

(* The routes of a RIB are those of the family typed, or of IPv4.          *)
LEMMA RouteActs ==
  ASSUME WordsAreWords, NEW l \in RouteLines
  PROVE  Acts(l)
<1> DEFINE c == CmdShowRoute(l.args)
           afi == IF "afi" \in DOMAIN l.args THEN l.args["afi"] ELSE "ipv4"
           place == <<At("routes/route", "destination-prefix")>>
           r == Row({"rib"}, "rib route", place)
<1>1. /\ l.about = "rib route" /\ l.args \in Perhaps(Family)
      /\ Callback(l.cmd, l.args) = c
  <2>1. l \in Lines("cmd_show_route", "rib route", Perhaps(Family))
    BY DEF RouteLines
  <2>2. l.cmd = "cmd_show_route" /\ l.about = "rib route" /\ l.args \in Perhaps(Family)
    BY <2>1, LinesHas
  <2>3. Callback("cmd_show_route", l.args) = c
    BY CallbackIs
  <2> QED
    BY <2>2, <2>3
<1>2. DOMAIN l.args \subseteq {"afi"}
  <2>1. \A a \in Family : DOMAIN a \subseteq {"afi"}
    BY DEF Family, Is
  <2>2. DOMAIN << >> = {}
    OBVIOUS
  <2> QED
    BY <1>1, <2>1, <2>2 DEF Perhaps
<1>3. Allows(Perhaps(Family), "afi", Afis)
  BY WordAllows, EitherGives DEF Family, Afis
<1>4. afi # Absent
  BY <1>1, <1>3 DEF Allows, WordsAreWords, Afis
<1>5. c.protocol = "rib" /\ c.instance = afi /\ c.steps = <<Every("routes/route")>>
  BY <1>4 DEF CmdShowRoute, Command, Requesting, Opt
<1>6. r \in Schema /\ r.protocols = {"rib"} /\ r.kind = "rib route" /\ r.place = place
  BY DEF Schema, RibRows, Row
<1>7. /\ Len(c.steps) = Len(place)
      /\ \A i \in 1..Len(place) : c.steps[i].list = place[i].list
      /\ \A i \in 1..Len(place) : c.steps[i].key = Absent
  BY <1>5 DEF Every, At
<1>8. \A n : Carries(n, l.args) <=> n.family \in {Absent, afi}
  BY <1>2 DEF Carries, Filters
<1> HIDE DEF c, afi, place, r
<1>9. ASSUME NEW t, FollowsSchema(t), NEW n \in Visible(t, c.data), n.protocol = "rib"
      PROVE  n \in Rows(t, c) <=> c.instance \in {Absent, n.instance} /\ n.kind = "rib route"
  <2>1. n \in Rows(t, c) <=>
           /\ c.instance \in {Absent, n.instance}
           /\ n.kind = "rib route"
           /\ HasKeys(n, c.steps, place)
    <3>1. r \in Schema /\ c.protocol \in r.protocols /\ n.protocol = c.protocol
      BY <1>5, <1>6, <1>9
    <3>2. /\ Len(c.steps) = Len(r.place)
          /\ \A i \in 1..Len(r.place) : c.steps[i].list = r.place[i].list
      BY <1>6, <1>7
    <3>3. n \in Rows(t, c) <=>
             /\ c.instance \in {Absent, n.instance}
             /\ n.kind = r.kind
             /\ HasKeys(n, c.steps, r.place)
      BY <1>9, <3>1, <3>2, RowsOfPlace
    <3> QED
      BY <1>6, <3>3
  <2> QED
    BY <1>7, <2>1 DEF HasKeys
<1>10. ASSUME NEW t, FollowsSchema(t)
       PROVE  Rows(t, c) = AskedOf(t, c, l)
  <2>1. \A n \in Rows(t, c) : n \in Visible(t, c.data) /\ n.protocol = "rib"
    BY <1>5 DEF Rows, Found
  <2>2. \A n \in Visible(t, c.data) :
           n.kind = "rib route" => n.protocol = "rib" /\ n.family = n.instance
    BY <1>10 DEF FollowsSchema, OfFamily, Visible
  <2> QED
    <3>1. \A n \in Visible(t, c.data) : n.protocol = "rib" =>
            (n \in Rows(t, c) <=> c.instance = n.instance /\ n.kind = "rib route")
      BY <1>4, <1>5, <1>9, <1>10
    <3>2. AskedOf(t, c, l) =
            {n \in Visible(t, c.data) : n.kind = "rib route" /\ c.instance = n.instance}
      BY <1>1, <1>4, <1>5, <1>8, <2>2 DEF AskedOf
    <3> QED
      BY <2>1, <2>2, <3>1, <3>2
<1> QED
  BY <1>1, <1>10 DEF Acts, Asked, AskedOf

(* The routes exchanged with a BGP neighbor, in one direction.             *)
LEMMA BgpRoutesAct ==
  ASSUME WordsAreWords, NEW l, NEW kind \in {"received", "advertised"}, NEW type,
         type = IF kind = "received" THEN "received-routes" ELSE "advertised-routes",
         l \in Lines("cmd_show_bgp_neighbor", kind,
                     And(And(Is("protocol", "bgp"), AnyWord("neighbor")),
                         And(Is("type", type), Perhaps(Family))))
  PROVE  Acts(l)
<1> DEFINE neighbor == And(Is("protocol", "bgp"), AnyWord("neighbor"))
           what == And(Is("type", type), Perhaps(Family))
           args == l.args
           c == CmdShowBgpNeighbor(args)
           afi == IF "afi" \in DOMAIN args THEN args["afi"] ELSE "ipv4"
           list == IF kind = "received" THEN "adj-rib-in-pre/routes/route"
                   ELSE "adj-rib-out-post/routes/route"
           place == <<BgpRib, BgpRibPeer, At(list, "prefix")>>
           r == Row({"bgp"}, kind, place)
<1>1. l.about = kind /\ Callback(l.cmd, args) = c
  BY LinesHas, CallbackIs
<1>2. /\ Allows(what, "afi", Afis) /\ Gives(what, "type", {type})
      /\ Allows(what, "neighbor", Typed) /\ NoOther(what, "neighbor")
  <2>1. Allows(Perhaps(Family), "afi", Afis) /\ Allows(Perhaps(Family), "neighbor", Typed)
    BY WordAllows, EitherGives DEF Family, Afis
  <2>2. /\ Allows(Is("type", type), "afi", Afis) /\ Gives(Is("type", type), "type", {type})
        /\ Allows(Is("type", type), "neighbor", Typed)
    BY WordAllows, WordGives
  <2>3. NoOther(Is("type", type), "neighbor") /\ NoOther(Family, "neighbor")
    BY DEF NoOther, Is, Family, Filters
  <2>4. NoOther(Perhaps(Family), "neighbor")
    BY <2>3, NoOtherKept
  <2> QED
    BY <2>1, <2>2, <2>3, <2>4, BothGive, NoOtherKept
<1>3. /\ Gives(neighbor, "neighbor", Typed) /\ Gives(neighbor, "protocol", {"bgp"})
      /\ Allows(neighbor, "afi", Afis) /\ Allows(neighbor, "type", {type})
      /\ NoOther(neighbor, "neighbor")
  <2>1. /\ Gives(AnyWord("neighbor"), "neighbor", Typed)
        /\ Gives(Is("protocol", "bgp"), "protocol", {"bgp"})
        /\ Allows(Is("protocol", "bgp"), "afi", Afis)
        /\ Allows(Is("protocol", "bgp"), "type", {type})
        /\ Allows(Is("protocol", "bgp"), "neighbor", Typed)
        /\ Allows(AnyWord("neighbor"), "afi", Afis) /\
               Allows(AnyWord("neighbor"), "type", {type})
    BY WordAllows, WordGives
  <2>2. NoOther(Is("protocol", "bgp"), "neighbor") /\ NoOther(AnyWord("neighbor"), "neighbor")
    BY DEF NoOther, Is, AnyWord, Filters
  <2> QED
    BY <2>1, <2>2, BothGive, NoOtherKept
<1> HIDE DEF neighbor, what
<1>4. /\ "neighbor" \in DOMAIN args /\ args["neighbor"] \in Typed
      /\ "protocol" \in DOMAIN args /\ args["protocol"] = "bgp"
      /\ "type" \in DOMAIN args /\ args["type"] = type
      /\ "afi" \in DOMAIN args => args["afi"] \in Afis
      /\ DOMAIN args \cap Filters \subseteq {"neighbor"}
  <2>1. args \in And(neighbor, what)
    BY LinesHas DEF neighbor, what
  <2>2. /\ Gives(And(neighbor, what), "neighbor", Typed)
        /\ Gives(And(neighbor, what), "protocol", {"bgp"})
        /\ Gives(And(neighbor, what), "type", {type})
        /\ Allows(And(neighbor, what), "afi", Afis)
        /\ NoOther(And(neighbor, what), "neighbor")
    BY <1>2, <1>3, BothGive, NoOtherKept
  <2> QED
    BY <2>1, <2>2 DEF Gives, Allows, NoOther
<1>5. afi # Absent /\ args["neighbor"] # Absent
  BY <1>4 DEF WordsAreWords, Afis
<1>6. c.protocol = "bgp" /\ c.instance = "main"
  BY DEF CmdShowBgpNeighbor, Command
<1>7. c.steps = <<Filter("bgp/rib/afi-safis/afi-safi", "name", afi),
                  Filter("neighbors/neighbor", "neighbor-address", args["neighbor"]),
                  Every(list)>>
  <2>1. (IF Opt(args, "afi") = Absent THEN "ipv4" ELSE Opt(args, "afi")) = afi
    BY <1>4 DEF Opt, WordsAreWords
  <2>2. (IF Opt(args,
            "type") = "received-routes" THEN RoutesOf.received ELSE RoutesOf.advertised) = list
    BY <1>4 DEF Opt, RoutesOf
  <2>3. Opt(args, "neighbor") = args["neighbor"]
    BY <1>4 DEF Opt
  <2> HIDE DEF afi, list
  <2> QED
    BY <2>1, <2>2, <2>3 DEF CmdShowBgpNeighbor, Command
<1>8. r \in Schema /\ r.protocols = {"bgp"} /\ r.kind = kind /\ r.place = place
  BY DEF Schema, BgpRows, Row
<1> HIDE DEF c, afi, list, r
<1>9. /\ Len(c.steps) = Len(place) /\ Len(place) = 3
      /\ \A i \in 1..Len(place) : c.steps[i].list = place[i].list
      /\ c.steps[1].key = afi /\ c.steps[1].leaf = place[1].leaf
      /\ c.steps[2].key = args["neighbor"] /\ c.steps[2].leaf = place[2].leaf
      /\ c.steps[3].key = Absent
      /\ place[2].leaf \in LeavesOf("neighbor")
      /\ place[1].leaf \notin LeavesOf("neighbor") /\ place[3].leaf \notin LeavesOf("neighbor")
  BY <1>7 DEF Every, Filter, At, BgpRib, BgpRibPeer, LeavesOf
<1> HIDE DEF place
<1>10. ASSUME NEW t, FollowsSchema(t), NEW n \in Visible(t, c.data), n.protocol = "bgp"
       PROVE  n \in Rows(t, c) <=> /\ c.instance \in {Absent, n.instance} /\ n.kind = kind
                                   /\ n.path[1].key = afi /\ n.path[2].key = args["neighbor"]
  <2>1. n \in Rows(t, c) <=>
           c.instance \in {Absent, n.instance} /\ n.kind = kind /\ HasKeys(n, c.steps, place)
    BY <1>6, <1>8, <1>9, <1>10, RowsOfPlace
  <2>2. 1..Len(place) = {1, 2, 3}
    BY <1>9
  <2>3. HasKeys(n, c.steps, place) <=>
           n.path[1].key = afi /\ n.path[2].key = args["neighbor"]
    BY <1>5, <1>9, <2>2 DEF HasKeys
  <2> QED
    BY <2>1, <2>3
<1>11. ASSUME NEW t, FollowsSchema(t), NEW n \in Visible(t, c.data), n.protocol = "bgp",
           n.kind = kind
       PROVE  Carries(n, args) <=> n.path[1].key = afi /\ n.path[2].key = args["neighbor"]
  <2>1. n.family = n.path[1].key /\ n.family # Absent
    BY <1>11 DEF FollowsSchema, OfFamily, Visible
  <2>2. DOMAIN n.path = 1..Len(n.path) /\ Placed(n)
    BY <1>11 DEF FollowsSchema, Visible
  <2>3. Len(n.path) = 3 /\ DOMAIN place = 1..3
    BY <1>8, <1>9, <1>11, <2>2, PlaceType DEF Placed, Along
  <2>4. \A i \in 1..3 : n.path[i].leaf = place[i].leaf
    BY <1>8, <1>11, <2>2, <2>3 DEF Placed
  <2>5. DOMAIN args \cap Filters = {"neighbor"}
    BY <1>4 DEF Filters
  <2>6. (\E i \in DOMAIN n.path :
            n.path[i].leaf \in LeavesOf("neighbor") /\ n.path[i].key = args["neighbor"])
        <=> n.path[2].key = args["neighbor"]
    BY <1>9, <2>2, <2>3, <2>4
  <2> QED
    BY <1>4, <1>11, <2>1, <2>5, <2>6 DEF Carries, afi
<1>12. ASSUME NEW t, FollowsSchema(t)
       PROVE  Rows(t, c) = AskedOf(t, c, l)
  <2>1. \A n \in Rows(t, c) : n \in Visible(t, c.data) /\ n.protocol = "bgp"
    BY <1>6 DEF Rows, Found
  <2>2. \A n : Carries(n, args) => n.protocol = "bgp"
    BY <1>4 DEF Carries
  <2> QED
    BY <1>1, <1>10, <1>11, <1>12, <2>1, <2>2 DEF AskedOf
<1> QED
  BY <1>1, <1>12 DEF Acts, Asked, AskedOf

(* The lines of BGP.                                                       *)
LEMMA BgpActs ==
  ASSUME WordsAreWords, NEW l \in BgpLines
  PROVE  Acts(l)
<1> DEFINE bgp == Is("protocol", "bgp")
           neighbor == And(bgp, AnyWord("neighbor"))
           family == And(bgp, Perhaps(Family))
           received == And(neighbor, And(Is("type", "received-routes"), Perhaps(Family)))
           advertised == And(neighbor, And(Is("type", "advertised-routes"), Perhaps(Family)))
<1>1. Speak(bgp, {"bgp"}, "none") /\ Speak(bgp, {"bgp"}, "neighbor")
  BY ProtocolSpeaks
<1>2. Speak(family, {"bgp"}, "none") /\ Speak(neighbor, {"bgp"}, "neighbor")
  BY <1>1, MoreSpeaks
<1>3. \/ l \in Lines("cmd_show_bgp_summary", "messages", family)
      \/ l \in Lines("cmd_show_bgp_neighbor_detail", "neighbor", neighbor)
      \/ l \in Lines("cmd_show_bgp_neighbor", "received", received)
      \/ l \in Lines("cmd_show_bgp_neighbor", "advertised", advertised)
      \/ l.cmd = "cmd_clear_bgp_neighbor"
  BY LinesHas DEF BgpLines
<1>4. l \in Lines("cmd_show_bgp_neighbor", "received", received) => Acts(l)
  BY BgpRoutesAct
<1>5. l \in Lines("cmd_show_bgp_neighbor", "advertised", advertised) => Acts(l)
  BY BgpRoutesAct
<1> HIDE DEF bgp, neighbor, family, received, advertised
<1>6. l \in Lines("cmd_show_bgp_summary", "messages", family) => Acts(l)
  BY <1>2, BgpAnswers, AllAct
<1>7. l \in Lines("cmd_show_bgp_neighbor_detail", "neighbor", neighbor) => Acts(l)
  BY <1>2, BgpAnswers, AllAct
<1>8. l.cmd = "cmd_clear_bgp_neighbor" => Acts(l)
  <2>1. ~RowLayout(CmdClearBgpNeighbor(l.args).layout)
    BY DEF CmdClearBgpNeighbor, Execute, Command, RowLayout
  <2>2. Callback("cmd_clear_bgp_neighbor", l.args) = CmdClearBgpNeighbor(l.args)
    BY CallbackIs
  <2> QED
    BY <2>1, <2>2 DEF Acts
<1> QED
  BY <1>3, <1>4, <1>5, <1>6, <1>7, <1>8

(* The lines about the configuration lay out no entries.                   *)
LEMMA ConfigActs == ASSUME NEW l \in ConfigLines PROVE Acts(l)
<1>1. /\ CmdShowConfig(l.args).layout = "local"
      /\ CmdShowConfigChanges(l.args).layout = "printed"
      /\ CmdShowState(l.args).layout = "state"
      /\ CmdShowYangModules(l.args).layout = "printed"
  BY DEF CmdShowConfig, CmdShowConfigChanges, CmdShowState, CmdShowYangModules, Local, Command
<1> QED
  BY <1>1, ConfigCommand DEF Acts, RowLayout

(* Every line of the trees but two acts as typed.                          *)
LEMMA ShownAct ==
  ASSUME WordsAreWords, NEW l \in ShowLines, ~BrokenPath(l), l.cmd # "cmd_show_ospf_database_as"
  PROVE  Acts(l)
  BY ConfigActs, IsisActs, BgpActs, OspfActs, RipActs, LdpActs, RouteActs DEF ShowLines

(* The neighbor that is typed is sent, and nothing else without a type.    *)
Sends(l, input) ==
    LET neighbor == {l.args[name] : name \in DOMAIN l.args \cap {"neighbor"}}
        type == {l.args[name] : name \in DOMAIN l.args \cap {"type"}}
    IN  /\ neighbor \subseteq input
        /\ type = {} => input = neighbor

Clears(l) ==
    Callback(l.cmd, l.args).layout = "execute" =>
        Sends(l, Callback(l.cmd, l.args).steps[2])

(* Only three commands execute an RPC of the daemon.                       *)
LEMMA Executing ==
  ASSUME NEW l \in ShowLines, Callback(l.cmd, l.args).layout = "execute"
  PROVE  \/ l \in IsisLines /\ l.cmd \in {"cmd_clear_isis_adjacency", "cmd_clear_isis_database"}
         \/ l \in BgpLines /\ l.cmd = "cmd_clear_bgp_neighbor"
<1> DEFINE args == l.args
<1>1. l \notin ConfigLines
  <2>1. /\ CmdShowConfig(args).layout = "local" /\ CmdShowConfigChanges(args).layout = "printed"
        /\ CmdShowState(args).layout = "state" /\ CmdShowYangModules(args).layout = "printed"
    BY DEF CmdShowConfig, CmdShowConfigChanges, CmdShowState, CmdShowYangModules, Local, Command
  <2> QED
    BY <2>1, ConfigCommand
<1>2. /\ CmdShowIsisInterface(args).layout = "table" /\
             CmdShowIsisDatabase(args).layout = "table"
      /\ CmdShowIsisRoute(args).layout = "table" /\ CmdShowIsisAdjacency(args).layout = "table"
  BY DEF CmdShowIsisInterface, CmdShowIsisDatabase, CmdShowIsisRoute, CmdShowIsisAdjacency,
         Table, Command, WithNames, Needing
<1>3. l \in IsisLines =>
         l.cmd \in {"cmd_clear_isis_adjacency", "cmd_clear_isis_database"}
  BY <1>2, IsisCommand, CallbackIs
<1>4. /\ CmdShowBgpSummary(args).layout = "table" /\ CmdShowBgpNeighbor(args).layout = "text"
      /\ CmdShowBgpNeighborDetail(args).layout = "text"
  BY DEF CmdShowBgpSummary, CmdShowBgpNeighbor, CmdShowBgpNeighborDetail, Table, Command,
      Needing, Requesting
<1>5. l \in BgpLines => l.cmd = "cmd_clear_bgp_neighbor"
  BY <1>4, BgpCommand, CallbackIs
<1>6. l \notin OspfLines
  <2>1. /\ CmdShowOspfInterface(args).layout = "table" /\
               CmdShowOspfVlink(args).layout = "table"
        /\ CmdShowOspfInterfaceDetail(args).layout = "text"
        /\ CmdShowOspfNeighbor(args).layout = "table"
        /\ CmdShowOspfNeighborDetail(args).layout = "text"
        /\ CmdShowOspfHostnames(args).layout = "table" /\
               CmdShowOspfRoute(args).layout = "table"
        /\ CmdShowOspfDatabaseAs(args).layout = "table"
        /\ CmdShowOspfDatabaseArea(args).layout = "table"
        /\ CmdShowOspfDatabaseLink(args).layout = "table"
    BY DEF CmdShowOspfInterface, CmdShowOspfInterfaceDetail, CmdShowOspfVlink,
           CmdShowOspfNeighbor, CmdShowOspfNeighborDetail, CmdShowOspfHostnames,
           CmdShowOspfDatabaseAs, CmdShowOspfDatabaseArea, CmdShowOspfDatabaseLink,
           CmdShowOspfRoute, OspfDatabase, OspfTable, OspfText, Table, Text, Command,
           WithNames, Needing
  <2> QED
    BY <2>1, OspfCommand
<1>7. l \notin RipLines
  <2>1. \A c \in {CmdShowRipInterface(args), CmdShowRipInterfaceDetail(args),
                  CmdShowRipNeighbor(args), CmdShowRipNeighborDetail(args),
                  CmdShowRipRoute(args)} : c.layout # "execute"
    BY DEF CmdShowRipInterface, CmdShowRipInterfaceDetail, CmdShowRipNeighbor,
           CmdShowRipNeighborDetail, CmdShowRipRoute, RipTable, RipText, Table, Text, Command
  <2> QED
    BY <2>1, RipCommand
<1>8. l \notin LdpLines
  <2>1. \A c \in {CmdShowMplsLdpDiscovery(args), CmdShowMplsLdpDiscoveryDetail(args),
                  CmdShowMplsLdpPeer(args), CmdShowMplsLdpPeerDetail(args),
                  CmdShowMplsLdpBindingAddress(args), CmdShowMplsLdpBindingFec(args)} :
           c.layout # "execute"
    BY DEF CmdShowMplsLdpDiscovery, CmdShowMplsLdpDiscoveryDetail, CmdShowMplsLdpPeer,
           CmdShowMplsLdpPeerDetail, CmdShowMplsLdpBindingAddress, CmdShowMplsLdpBindingFec,
           LdpTable, LdpText, Table, Text, Command
  <2> QED
    BY <2>1, LdpCommand
<1>9. l \notin RouteLines
  <2>1. CmdShowRoute(args).layout = "routes"
    BY DEF CmdShowRoute, Command, Requesting
  <2> QED
    BY <2>1, RouteCommand
<1> QED
  BY <1>1, <1>3, <1>5, <1>6, <1>7, <1>8, <1>9 DEF ShowLines

(* The lines that clear something send what was typed.                     *)
LEMMA ClearsAct ==
  ASSUME WordsAreWords, NEW l \in ShowLines
  PROVE  Clears(l)
<1> DEFINE args == l.args
           c == Callback(l.cmd, args)
<1> SUFFICES ASSUME c.layout = "execute" PROVE Sends(l, c.steps[2])
  BY DEF Clears
<1>1. CASE l \in IsisLines /\ l.cmd \in {"cmd_clear_isis_adjacency", "cmd_clear_isis_database"}
  <2>1. c.steps[2] = {}
    <3>1. /\ CmdClearIsisAdjacency(args).steps = <<"clear-adjacency", {}>>
          /\ CmdClearIsisDatabase(args).steps = <<"clear-database", {}>>
      BY DEF CmdClearIsisAdjacency, CmdClearIsisDatabase, Execute, Command
    <3>2. c = CmdClearIsisAdjacency(args) \/ c = CmdClearIsisDatabase(args)
      BY <1>1, CallbackIs
    <3> QED
      BY <3>1, <3>2
  <2>2. \/ l \in Lines("cmd_clear_isis_adjacency", "adjacency", Is("protocol", "isis"))
        \/ l \in Lines("cmd_clear_isis_database", "lsp", Is("protocol", "isis"))
    BY <1>1, LinesHas DEF IsisLines
  <2>3. DOMAIN args = {"protocol"}
    BY <2>2, LinesHas DEF Is
  <2> QED
    BY <2>1, <2>3 DEF Sends
<1>2. CASE l \in BgpLines /\ l.cmd = "cmd_clear_bgp_neighbor"
  <2> DEFINE bgp == Is("protocol", "bgp")
             reset == Is("type", "hard") \cup Is("type", "soft") \cup Is("type", "soft-in")
             clear == And(And(bgp, Perhaps(AnyWord("neighbor"))), Perhaps(reset))
             operation == IF Opt(args, "type") = "soft-in" THEN "soft-inbound"
                          ELSE Opt(args, "type")
             input == {operation, Opt(args, "neighbor")} \ {Absent}
  <2>1. l \in Lines("cmd_clear_bgp_neighbor", "neighbor", clear)
    BY <1>2, LinesHas DEF BgpLines
  <2>2. Allows(clear, "neighbor", Typed)
    BY WordAllows, EitherGives, BothGive
  <2> HIDE DEF clear
  <2>3. "neighbor" \in DOMAIN args => args["neighbor"] # Absent
    BY <2>1, <2>2, LinesHas DEF Allows, WordsAreWords
  <2>4. c.steps[2] = input
    <3>1. Callback("cmd_clear_bgp_neighbor", args) = CmdClearBgpNeighbor(args)
      BY CallbackIs
    <3>2. CmdClearBgpNeighbor(args).steps = <<"clear", input>>
      BY DEF CmdClearBgpNeighbor, Execute, Command
    <3> QED
      BY <1>2, <3>1, <3>2
  <2>5. {args[name] : name \in DOMAIN args \cap {"neighbor"}} = {Opt(args,
            "neighbor")} \ {Absent}
    BY <2>3 DEF Opt
  <2>6. {args[name] : name \in DOMAIN args \cap {"type"}} = {} => operation = Absent
    <3>1. {args[name] : name \in DOMAIN args \cap {"type"}} = {} => "type" \notin DOMAIN args
      OBVIOUS
    <3>2. "type" \notin DOMAIN args => Opt(args, "type") = Absent
      BY DEF Opt
    <3> QED
      BY <3>1, <3>2 DEF WordsAreWords, Resets
  <2>7. {Opt(args, "neighbor")} \ {Absent} \subseteq input
    OBVIOUS
  <2>8. operation = Absent => input = {Opt(args, "neighbor")} \ {Absent}
    OBVIOUS
  <2> HIDE DEF operation, input
  <2> QED
    BY <2>4, <2>5, <2>6, <2>7, <2>8 DEF Sends
<1> QED
  BY <1>1, <1>2, Executing

-----------------------------------------------------------------------------
(* What a command lays out is what it found in the answer, and what it     *)
(* sends is what it made of its words.                                     *)
Laying == phase \in {"page", "write", "wait"} \/ (Returned /\ outcome = "shown")

ShownInv ==
    /\ phase = "execute" => command.layout = "execute"
    /\ phase = "fetch" => command.layout \notin {"printed", "local", "execute"}
    /\ phase = "layout" => RowLayout(command.layout)
    /\ phase \in {"page", "write", "wait"} => command.layout # "execute"
    /\ Returned /\ outcome = "shown" /\ command.layout = "execute" => sent = command.steps[2]
    /\ Laying /\ RowLayout(command.layout) => seen \in Trees /\ shown = Rows(seen, command)

(* What a callback may do by its layout.                                   *)
LEMMA StartShows ==
  ASSUME NEW c, Start(c)
  PROVE  /\ phase' = "returned" => c.layout = "printed"
         /\ phase' = "page" => c.layout = "local"
         /\ phase' = "execute" => c.layout = "execute"
         /\ phase' = "fetch" => c.layout \notin {"printed", "local", "execute"}
         /\ phase' \in {"returned", "page", "execute", "fetch"}
  BY DEF Start, GoTo, Return

(* The same after a look at the arguments.                                 *)
LEMMA UnderstandShows ==
  ASSUME NEW c, Understand(c)
  PROVE  /\ phase' = "returned" /\ outcome' = "shown" => c.layout = "printed"
         /\ phase' = "page" => c.layout = "local"
         /\ phase' = "execute" => c.layout = "execute"
         /\ phase' = "fetch" => c.layout \notin {"printed", "local", "execute"}
         /\ phase' \in {"returned", "page", "execute", "fetch", "first", "panicked"}
  BY StartShows DEF Understand, GoTo, Return, Panic

(* At the first prompt nothing is shown.                                   *)
LEMMA ShownInit == Init => ShownInv
  BY DEF Init, ShownInv, Laying, Returned

(* Each step keeps it.                                                     *)
LEMMA ShownNext ==
  ASSUME IInv, ShownInv, [Next]_vars
  PROVE  ShownInv'
<1> USE DEF ShownInv, Laying, Returned
<1>1. ASSUME NEW l \in Offered, Call(l)
      PROVE  ShownInv'
  <2> DEFINE c == Callback(l.cmd, l.args)
  <2>1. command' = c /\ (IF c.first = "attributes" THEN GoTo("first") ELSE Understand(c))
    BY <1>1 DEF Call, command
  <2> HIDE DEF c
  <2>2. CASE c.first = "attributes"
    BY <2>1, <2>2 DEF GoTo
  <2>3. CASE Understand(c)
    BY <2>1, <2>3, UnderstandShows DEF RowLayout
  <2> QED
    BY <2>1, <2>2, <2>3
<1>2. CASE First
  <2>1. command' = command
    BY <1>2 DEF First, command
  <2>2. Panic \/ Understand(command) \/ Start(command)
    BY <1>2 DEF First
  <2> QED
    BY <2>1, <2>2, StartShows, UnderstandShows DEF Panic, GoTo, RowLayout
<1>3. CASE Fetch
  <2>1. /\ phase = "fetch" /\ command' = command
        /\ phase' = IF command.layout = "state" THEN "page" ELSE "layout"
    BY <1>3 DEF Fetch, GoTo, command
  <2> QED
    BY <2>1 DEF RowLayout
<1>4. CASE Layout
  <2>1. /\ phase = "layout" /\ command' = command /\ line' = line /\ seen' = seen
        /\ shown' = Rows(seen, command) /\ sent' = sent
        /\ phase' \in {"returned", "page"}
        /\ seen \in Trees
    BY <1>4 DEF Layout, GoTo, Return, command, IInv, TypeOK
  <2>2. Rows(seen, command)' = Rows(seen, command)
    BY <2>1 DEF Rows, Found, Visible
  <2> QED
    BY <2>1, <2>2 DEF RowLayout
<1>5. CASE ExecuteRpc
  <2>1. /\ phase = "execute" /\ command' = command /\ sent' = command.steps[2]
        /\ phase' = "returned"
    BY <1>5 DEF ExecuteRpc, Return, command
  <2> QED
    BY <2>1 DEF RowLayout
<1>6. CASE FirstFails \/ FetchFails \/ LayoutFails \/ SpawnFails \/ WriteFails \/ ExecuteFails
  <2>1. phase' = "panicked" \/ (phase' = "returned" /\ outcome' = "reported")
    BY <1>6 DEF FirstFails, FetchFails, LayoutFails, SpawnFails, WriteFails, ExecuteFails,
                Panic, GoTo, Return
  <2> QED
    BY <2>1
<1>7. CASE PrintOut \/ SpawnPager \/ WritePager \/ WaitPager
  <2>1. /\ phase \in {"page", "write", "wait"}
        /\ phase' \in {"returned", "page", "write", "wait"}
        /\ UNCHANGED <<line, seen, shown, sent>>
    BY <1>7 DEF PrintOut, SpawnPager, WritePager, WaitPager, Return, GoTo
  <2>2. command' = command /\ Rows(seen, command)' = Rows(seen, command)
    BY <2>1 DEF command, Rows, Found, Visible
  <2> QED
    BY <2>1, <2>2
<1>8. CASE NextLine
  BY <1>8 DEF NextLine
<1>9. CASE LeavePager \/ DaemonMoves \/ UNCHANGED vars
  <2>1. UNCHANGED <<phase, outcome, line, seen, shown, sent>>
    BY <1>9 DEF LeavePager, DaemonMoves, vars
  <2>2. command' = command /\ Rows(seen, command)' = Rows(seen, command)
    BY <2>1 DEF command, Rows, Found, Visible
  <2> QED
    BY <2>1, <2>2
<1> QED
  BY <1>1, <1>2, <1>3, <1>4, <1>5, <1>6, <1>7, <1>8, <1>9 DEF Next

(* The daemon has its entries where the schema says; no word of a line is  *)
(* the sentinel; and no line asks for the LSAs of AS scope, whose path     *)
(* leads nowhere.                                                          *)
DaemonFollowsSchema == \A t \in Trees : FollowsSchema(t)
NoneMisled == \A l \in Offered : l.cmd # "cmd_show_ospf_database_as"

(* Whatever the daemon holds where its schema says, and whatever words are *)
(* typed, a command that lays out an answer shows all of the entries that  *)
(* its help and its words name and no other, and one that clears something *)
(* sends the neighbor that was typed.                                      *)
THEOREM LinesActAsTyped ==
  ASSUME OfferedByTrees, NoneBroken, NoneMisled, WordsAreWords, DaemonFollowsSchema
  PROVE  Spec => []ActsAsTyped
<1>1. IInv /\ ShownInv /\ [Next]_vars => ShownInv'
  BY ShownNext
<1>2. IInv /\ ShownInv => ActsAsTyped
  <2> SUFFICES ASSUME IInv, ShownInv, Returned, outcome = "shown"
               PROVE  /\ command.layout \in {"table", "text", "routes"} =>
                             shown = Asked(seen, line)
                      /\ command.layout = "execute" => Sends(line, sent)
    BY DEF ActsAsTyped, Sends
  <2>1. line \in Offered
    BY DEF IInv, TypeOK, Returned
  <2>2. Acts(line) /\ Clears(line)
    BY <2>1, ShownAct, ClearsAct DEF OfferedByTrees, NoneBroken, NoneMisled
  <2>3. CASE command.layout \in {"table", "text", "routes"}
    <3>1. RowLayout(command.layout)
      BY <2>3 DEF RowLayout
    <3>2. seen \in Trees /\ shown = Rows(seen, command)
      BY <3>1 DEF ShownInv, Laying
    <3>3. Rows(seen, command) = Asked(seen, line)
      BY <2>2, <3>1, <3>2 DEF Acts, DaemonFollowsSchema, command
    <3> QED
      BY <2>3, <3>2, <3>3
  <2>4. CASE command.layout = "execute"
    BY <2>2, <2>4 DEF ShownInv, Clears, command
  <2> QED
    BY <2>3, <2>4
<1> QED
  BY ShownInit, Invariance, <1>1, <1>2, PTL DEF Spec

=============================================================================
