--------------------------- MODULE ShowCommands ---------------------------
(***************************************************************************)
(* The callbacks of the show and clear commands, each as what it asks of   *)
(* the daemon and which entries of the answer it lays out.  A callback     *)
(* gets the arguments the parser collected, a function from their names to *)
(* the words typed.                                                        *)
(*                                                                         *)
(* An entry is one list entry of the daemon's tree (or a container, under  *)
(* a step without a key): the protocol and the name of its instance, and   *)
(* the steps down to it, each with the list, the leaf that is its key and  *)
(* the value of that leaf.  What is printed of an entry is left out,       *)
(* except for the leaves whose absence the callback does not survive.      *)
(***************************************************************************)
EXTENDS Naturals, Sequences

CONSTANTS
    Absent,     \* no value
    Address,    \* the words that are IP addresses
    Quoted      \* the words that hold a quote, which end an XPath literal early

-----------------------------------------------------------------------------
(* Arguments.  A callback that does not know a word panics or refuses it.  *)
Opt(args, name) == IF name \in DOMAIN args THEN args[name] ELSE Absent

Must(args, name, words) == IF Opt(args, name) \in words THEN "ok" ELSE "panic"
May(args, name, words, otherwise) ==
    IF Opt(args, name) \in words \cup {Absent} THEN "ok" ELSE otherwise

(* Steps of a path: every entry of a list, or those the key leaves.        *)
Every(list) == [list |-> list, leaf |-> Absent, key |-> Absent]
Filter(list, leaf, value) == [list |-> list, leaf |-> leaf, key |-> value]

(* find_xpath fails on a predicate that is not one, and is unwrapped.      *)
InvalidXPath(step) == step.key # Absent /\ (step.leaf = "neighbor-router-id=" \/ step.key \in Quoted)

(* A command: whether its arguments fit, where the rows come from, what it *)
(* requests for them - all protocols, its one instance, or just the rows - *)
(* the first RPC some need, the leaves it cannot do without and the        *)
(* layout.                                                                 *)
Command(layout, fit, protocol, instance, data, steps) ==
    [layout |-> layout, fit |-> fit, protocol |-> protocol, instance |-> instance,
     data |-> data, steps |-> steps, request |-> "protocols", first |-> "nothing", needs |-> {}]

Table(fit, protocol, data, steps) == Command("table", fit, protocol, Absent, data, steps)
Text(fit, protocol, data, steps) == Command("text", fit, protocol, Absent, data, steps)
Local(layout, fit) == Command(layout, fit, Absent, Absent, Absent, << >>)

WithNames(command) == [command EXCEPT !.first = "hostnames"]
Needing(command, leaves) == [command EXCEPT !.needs = leaves]
Requesting(command, what) == [command EXCEPT !.request = what]

-----------------------------------------------------------------------------
(* Configuration, state and modules.                                       *)
Formats == {"json", "xml"}

CmdShowConfig(args) ==
    IF May(args, "format", Formats, "panic") = "ok"
    THEN Local("local", Must(args, "configuration", {"candidate", "running"}))
    ELSE Local("local", "panic")
CmdShowConfigChanges(args) == Local("printed", "ok")
CmdShowState(args) ==
    Command("state", May(args, "format", Formats, "panic"),
            Absent, Opt(args, "xpath"), "State", << >>)
CmdShowYangModules(args) == Local("printed", "ok")

-----------------------------------------------------------------------------
(* IS-IS.                                                                  *)
IsisInterface(args) == Filter("isis/interfaces/interface", "name", Opt(args, "name"))

CmdShowIsisInterface(args) == Table("ok", "isis", "All", <<IsisInterface(args)>>)
CmdShowIsisAdjacency(args) ==
    WithNames(Table("ok", "isis", "State",
                    <<IsisInterface(args), Every("adjacencies/adjacency")>>))
CmdShowIsisDatabase(args) ==
    Needing(WithNames(Table("ok", "isis", "State",
                            <<Every("isis/database/levels"), Every("lsp")>>)),
            {"sequence", "checksum"})
CmdShowIsisRoute(args) ==
    Table("ok", "isis", "State",
          <<Every("isis/local-rib/route"), Every("next-hops/next-hop")>>)

-----------------------------------------------------------------------------
(* OSPF.  Each command reads which of the two protocols it is about from   *)
(* an argument.                                                            *)
Ospf == {"ospfv2", "ospfv3"}
OspfFit(args) == Must(args, "protocol", Ospf)
OspfArea == Every("ospf/areas/area")
Protocol(args) == Opt(args, "protocol")
OspfTable(args, data, steps) == Table(OspfFit(args), Protocol(args), data, steps)
OspfText(args, data, steps) == Text(OspfFit(args), Protocol(args), data, steps)

OspfInterface(args) ==
    <<OspfArea, Filter("interfaces/interface", "name", Opt(args, "name"))>>

CmdShowOspfInterface(args) == OspfTable(args, "All", OspfInterface(args))
CmdShowOspfInterfaceDetail(args) == OspfText(args, "All", OspfInterface(args))
CmdShowOspfVlink(args) ==
    WithNames(OspfTable(args, "All",
        <<OspfArea, Every("virtual-links/virtual-link"), Every("neighbors/neighbor")>>))

OspfNeighbor(leaf, args) ==
    <<OspfArea, Every("interfaces/interface"),
      Filter("neighbors/neighbor", leaf, Opt(args, "router_id"))>>

CmdShowOspfNeighbor(args) ==
    WithNames(OspfTable(args, "All", OspfNeighbor("neighbor-router-id=", args)))
\* Mutant: the filter of the table.
CmdShowOspfNeighborDetailAsTable(args) ==
    OspfText(args, "All", OspfNeighbor("neighbor-router-id=", args))

CmdShowOspfNeighborDetail(args) ==
    OspfText(args, "All", OspfNeighbor("neighbor-router-id", args))

OspfDatabase(args, steps) ==
    Needing(WithNames(OspfTable(args, "State", steps)), {"type", "seq-num"})

CmdShowOspfDatabaseAs(args) ==
    OspfDatabase(args, <<Every("database/as-scope-lsa/header")>>)
CmdShowOspfDatabaseArea(args) ==
    OspfDatabase(args, <<OspfArea, Every("database/area-scope-lsa/header")>>)
CmdShowOspfDatabaseLink(args) ==
    OspfDatabase(args, <<OspfArea, Every("interfaces/interface"),
                         Every("database/link-scope-lsa/header")>>)
CmdShowOspfRoute(args) ==
    OspfTable(args, "State",
        <<Filter("ospf/local-rib/route", "prefix", Opt(args, "prefix")),
          Every("next-hops/next-hop")>>)
CmdShowOspfHostnames(args) == OspfTable(args, "State", <<Every("ospf/hostnames/hostname")>>)

-----------------------------------------------------------------------------
(* RIP.  The protocol decides the address family and the names of keys.    *)
\* Mutant: only one of the two protocols is known.
RipFitOne(args) == Must(args, "protocol", {"ripv2"})

RipFit(args) == Must(args, "protocol", {"ripv2", "ripng"})
RipNames(args) ==
    IF Protocol(args) = "ripv2"
    THEN [neighbors |-> "rip/ipv4/neighbors/neighbor", address |-> "ipv4-address",
          routes |-> "rip/ipv4/routes/route", prefix |-> "ipv4-prefix"]
    ELSE [neighbors |-> "rip/ipv6/neighbors/neighbor", address |-> "ipv6-address",
          routes |-> "rip/ipv6/routes/route", prefix |-> "ipv6-prefix"]
RipTable(args, steps) == Table(RipFit(args), Protocol(args), "State", steps)
RipText(args, steps) == Text(RipFit(args), Protocol(args), "State", steps)

\* Mutant: the interface is looked up by another leaf.
RipInterfaceByName(args) ==
    <<Filter("rip/interfaces/interface", "name", Opt(args, "name"))>>

RipInterface(args) == <<Filter("rip/interfaces/interface", "interface", Opt(args, "name"))>>
RipNeighbor(args) ==
    <<Filter(RipNames(args).neighbors, RipNames(args).address, Opt(args, "address"))>>

CmdShowRipInterface(args) == RipTable(args, RipInterface(args))
CmdShowRipInterfaceDetail(args) == RipText(args, RipInterface(args))
CmdShowRipNeighbor(args) == RipTable(args, RipNeighbor(args))
CmdShowRipNeighborDetail(args) == RipText(args, RipNeighbor(args))
CmdShowRipRoute(args) ==
    RipTable(args,
        <<Filter(RipNames(args).routes, RipNames(args).prefix, Opt(args, "prefix"))>>)

-----------------------------------------------------------------------------
(* LDP.                                                                    *)
LdpTable(steps) == Table("ok", "mpls-ldp", "State", steps)
LdpText(steps) == Text("ok", "mpls-ldp", "State", steps)

LdpInterface(args) ==
    Filter("mpls-ldp/discovery/interfaces/interface", "name", Opt(args, "name"))
LdpAdjacency == Every("address-families/ipv4/hello-adjacencies/hello-adjacency")
LdpPeer(args) == Filter("mpls-ldp/peers/peer", "lsr-id", Opt(args, "lsr-id"))

CmdShowMplsLdpDiscovery(args) ==
    LdpTable(<<LdpInterface(args), LdpAdjacency, Every("peer")>>)
CmdShowMplsLdpDiscoveryDetail(args) == LdpText(<<LdpInterface(args)>>)
CmdShowMplsLdpPeer(args) == LdpTable(<<LdpPeer(args), LdpAdjacency>>)
CmdShowMplsLdpPeerDetail(args) == LdpText(<<LdpPeer(args)>>)
CmdShowMplsLdpBindingAddress(args) ==
    LdpTable(<<Filter("mpls-ldp/global/bindings/address", "address", Opt(args, "address"))>>)
CmdShowMplsLdpBindingFec(args) ==
    LdpTable(<<Filter("mpls-ldp/global/bindings/fec-label", "fec", Opt(args, "fec")),
               Filter("peer", "lsr-id", Opt(args, "lsr-id"))>>)

-----------------------------------------------------------------------------
(* BGP.  Two of the commands only know the instance named main.            *)
Afis == {"ipv4", "ipv6"}

CmdShowBgpSummary(args) ==
    Table(May(args, "afi", Afis, "refused"), "bgp", "All",
          <<Every("bgp/neighbors/neighbor"), Every("statistics"), Every("messages")>>)

RoutesOf == [received |-> "adj-rib-in-pre/routes/route",
             advertised |-> "adj-rib-out-post/routes/route"]

CmdShowBgpNeighbor(args) ==
    LET afi == IF Opt(args, "afi") = Absent THEN "ipv4" ELSE Opt(args, "afi")
        fit == IF "neighbor" \notin DOMAIN args THEN "panic"
               ELSE IF May(args, "afi", Afis, "refused") # "ok" THEN "refused"
               ELSE Must(args, "type", {"received-routes", "advertised-routes"})
        routes == IF Opt(args, "type") = "received-routes"
                  THEN RoutesOf.received ELSE RoutesOf.advertised
    IN  [Command("text", fit, "bgp", "main", "State",
                 <<Filter("bgp/rib/afi-safis/afi-safi", "name", afi),
                   Filter("neighbors/neighbor", "neighbor-address", Opt(args, "neighbor")),
                   Every(routes)>>)
         EXCEPT !.first = "attributes", !.request = "rows", !.needs = {"attr-index"}]

CmdShowBgpNeighborDetail(args) ==
    Requesting(
        Needing(Command("text", "ok", "bgp", "main", "All",
                    <<Filter("bgp/neighbors/neighbor", "remote-address", Opt(args, "neighbor"))>>),
                {"last-established"}),
        "instance")

-----------------------------------------------------------------------------
(* Routes of the routing table: the instance is the RIB of the family.     *)
CmdShowRoute(args) ==
    Requesting(
        Command("routes", "ok", "rib",
                IF Opt(args, "afi") = Absent THEN "ipv4" ELSE Opt(args, "afi"),
                "All", <<Every("routes/route")>>),
        "instance")

-----------------------------------------------------------------------------
(* Clear: an RPC of the daemon, with what was typed in its input.  A word  *)
(* the schema does not accept there panics while the input is built.       *)
Execute(fit, rpc, input) ==
    [Command("execute", fit, Absent, Absent, Absent, << >>) EXCEPT !.steps = <<rpc, input>>]

CmdClearIsisAdjacency(args) == Execute("ok", "clear-adjacency", {})
CmdClearIsisDatabase(args) == Execute("ok", "clear-database", {})
CmdClearBgpNeighbor(args) ==
    LET operation == IF Opt(args, "type") = "soft-in" THEN "soft-inbound" ELSE Opt(args, "type")
        known == /\ operation \in {"hard", "soft", "soft-inbound", Absent}
                 /\ Opt(args, "neighbor") \in Address \cup {Absent}
    IN  Execute(IF known THEN "ok" ELSE "panic", "clear",
                {operation, Opt(args, "neighbor")} \ {Absent})

(* The callback a token of the tree names.                                 *)
Callback(cmd, args) ==
    CASE cmd = "cmd_show_config" -> CmdShowConfig(args)
      [] cmd = "cmd_show_config_changes" -> CmdShowConfigChanges(args)
      [] cmd = "cmd_show_state" -> CmdShowState(args)
      [] cmd = "cmd_show_yang_modules" -> CmdShowYangModules(args)
      [] cmd = "cmd_show_isis_interface" -> CmdShowIsisInterface(args)
      [] cmd = "cmd_show_isis_adjacency" -> CmdShowIsisAdjacency(args)
      [] cmd = "cmd_show_isis_database" -> CmdShowIsisDatabase(args)
      [] cmd = "cmd_show_isis_route" -> CmdShowIsisRoute(args)
      [] cmd = "cmd_show_ospf_interface" -> CmdShowOspfInterface(args)
      [] cmd = "cmd_show_ospf_interface_detail" -> CmdShowOspfInterfaceDetail(args)
      [] cmd = "cmd_show_ospf_vlink" -> CmdShowOspfVlink(args)
      [] cmd = "cmd_show_ospf_neighbor" -> CmdShowOspfNeighbor(args)
      [] cmd = "cmd_show_ospf_neighbor_detail" -> CmdShowOspfNeighborDetail(args)
      [] cmd = "cmd_show_ospf_database_as" -> CmdShowOspfDatabaseAs(args)
      [] cmd = "cmd_show_ospf_database_area" -> CmdShowOspfDatabaseArea(args)
      [] cmd = "cmd_show_ospf_database_link" -> CmdShowOspfDatabaseLink(args)
      [] cmd = "cmd_show_ospf_route" -> CmdShowOspfRoute(args)
      [] cmd = "cmd_show_ospf_hostnames" -> CmdShowOspfHostnames(args)
      [] cmd = "cmd_show_rip_interface" -> CmdShowRipInterface(args)
      [] cmd = "cmd_show_rip_interface_detail" -> CmdShowRipInterfaceDetail(args)
      [] cmd = "cmd_show_rip_neighbor" -> CmdShowRipNeighbor(args)
      [] cmd = "cmd_show_rip_neighbor_detail" -> CmdShowRipNeighborDetail(args)
      [] cmd = "cmd_show_rip_route" -> CmdShowRipRoute(args)
      [] cmd = "cmd_show_mpls_ldp_discovery" -> CmdShowMplsLdpDiscovery(args)
      [] cmd = "cmd_show_mpls_ldp_discovery_detail" -> CmdShowMplsLdpDiscoveryDetail(args)
      [] cmd = "cmd_show_mpls_ldp_peer" -> CmdShowMplsLdpPeer(args)
      [] cmd = "cmd_show_mpls_ldp_peer_detail" -> CmdShowMplsLdpPeerDetail(args)
      [] cmd = "cmd_show_mpls_ldp_binding_address" -> CmdShowMplsLdpBindingAddress(args)
      [] cmd = "cmd_show_mpls_ldp_binding_fec" -> CmdShowMplsLdpBindingFec(args)
      [] cmd = "cmd_show_route" -> CmdShowRoute(args)
      [] cmd = "cmd_show_bgp_summary" -> CmdShowBgpSummary(args)
      [] cmd = "cmd_show_bgp_neighbor" -> CmdShowBgpNeighbor(args)
      [] cmd = "cmd_show_bgp_neighbor_detail" -> CmdShowBgpNeighborDetail(args)
      [] cmd = "cmd_clear_isis_adjacency" -> CmdClearIsisAdjacency(args)
      [] cmd = "cmd_clear_isis_database" -> CmdClearIsisDatabase(args)
      [] cmd = "cmd_clear_bgp_neighbor" -> CmdClearBgpNeighbor(args)

=============================================================================
