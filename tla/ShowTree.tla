----------------------------- MODULE ShowTree -----------------------------
(***************************************************************************)
(* The show and clear lines of the internal command trees: which callback  *)
(* a line runs, the arguments its words become, and what its help says it  *)
(* is about.  Words are whole; abbreviations are a matter of the parser.   *)
(* A table is about the entries that its rows are for: the innermost list  *)
(* of its columns where the help names one around it, as for virtual links *)
(* ("vlink neighbor") and LDP peers ("peer adjacency").                    *)
(***************************************************************************)
EXTENDS Sequences

CONSTANT Typed  \* the words typed where the tree takes any word

(* Arguments, as sets of functions from names to words.                    *)
Is(name, word) == [{name} -> {word}]
AnyWord(name) == [{name} -> Typed]
And(first, second) ==
    {[n \in DOMAIN a \cup DOMAIN b |-> IF n \in DOMAIN a THEN a[n] ELSE b[n]] :
        a \in first, b \in second}
Perhaps(arguments) == {<< >>} \cup arguments
Bare == {<< >>}

Lines(cmd, about, arguments) == {[cmd |-> cmd, about |-> about, args |-> a] : a \in arguments}

Format == Is("format", "json") \cup Is("format", "xml")
Defaults == Is("with-defaults", "with-defaults")
Detail == Is("detail", "detail")
Family == Is("afi", "ipv4") \cup Is("afi", "ipv6")

ConfigLines ==
    Lines("cmd_show_config", "configuration",
          And(Is("configuration", "running") \cup Is("configuration", "candidate"),
              Perhaps(And(Format, Perhaps(Defaults))))
          \cup And(Is("configuration", "running"), Defaults))
    \cup Lines("cmd_show_config_changes", "configuration", Bare)
    \cup Lines("cmd_show_state", "state",
               And(Perhaps(AnyWord("xpath")), Perhaps(Format)))
    \cup Lines("cmd_show_yang_modules", "modules", Bare)

IsisLines ==
    LET Isis == Is("protocol", "isis")
    IN  Lines("cmd_show_isis_interface", "interface", And(Isis, Perhaps(AnyWord("name"))))
        \cup Lines("cmd_show_isis_database", "lsp", Isis)
        \cup Lines("cmd_show_isis_route", "route", Isis)
        \cup Lines("cmd_show_isis_adjacency", "adjacency", Isis)
        \cup Lines("cmd_clear_isis_adjacency", "adjacency", Isis)
        \cup Lines("cmd_clear_isis_database", "lsp", Isis)

BgpLines ==
    LET Bgp == Is("protocol", "bgp")
        Neighbor == And(Bgp, AnyWord("neighbor"))
        Routes(type) == And(Neighbor, And(Is("type", type), Perhaps(Family)))
        Reset == Is("type", "hard") \cup Is("type", "soft") \cup Is("type", "soft-in")
    IN  Lines("cmd_show_bgp_summary", "messages", And(Bgp, Perhaps(Family)))
        \cup Lines("cmd_show_bgp_neighbor_detail", "neighbor", Neighbor)
        \cup Lines("cmd_show_bgp_neighbor", "received", Routes("received-routes"))
        \cup Lines("cmd_show_bgp_neighbor", "advertised", Routes("advertised-routes"))
        \cup Lines("cmd_clear_bgp_neighbor", "neighbor",
                   And(And(Bgp, Perhaps(AnyWord("neighbor"))), Perhaps(Reset)))

OspfLines ==
    LET Ospf == Is("protocol", "ospfv2") \cup Is("protocol", "ospfv3")
        Interface == And(Ospf, Perhaps(AnyWord("name")))
        Neighbor == And(Ospf, Perhaps(AnyWord("router_id")))
    IN  Lines("cmd_show_ospf_interface", "interface", Interface)
        \cup Lines("cmd_show_ospf_interface_detail", "interface", And(Interface, Detail))
        \cup Lines("cmd_show_ospf_vlink", "vlink neighbor", Ospf)
        \cup Lines("cmd_show_ospf_neighbor", "neighbor", Neighbor)
        \cup Lines("cmd_show_ospf_neighbor_detail", "neighbor", And(Neighbor, Detail))
        \cup Lines("cmd_show_ospf_hostnames", "hostname", Ospf)
        \cup Lines("cmd_show_ospf_database_as", "AS-scope LSA", Ospf)
        \cup Lines("cmd_show_ospf_database_area", "area-scope LSA", Ospf)
        \cup Lines("cmd_show_ospf_database_link", "link-scope LSA", Ospf)
        \cup Lines("cmd_show_ospf_route", "route", And(Ospf, Perhaps(AnyWord("prefix"))))

RipLines ==
    LET Rip == Is("protocol", "ripv2") \cup Is("protocol", "ripng")
        Interface == And(Rip, Perhaps(AnyWord("name")))
        Neighbor == And(Rip, Perhaps(AnyWord("address")))
    IN  Lines("cmd_show_rip_interface", "interface", Interface)
        \cup Lines("cmd_show_rip_interface_detail", "interface", And(Interface, Detail))
        \cup Lines("cmd_show_rip_neighbor", "neighbor", Neighbor)
        \cup Lines("cmd_show_rip_neighbor_detail", "neighbor", And(Neighbor, Detail))
        \cup Lines("cmd_show_rip_route", "route", And(Rip, Perhaps(AnyWord("prefix"))))

LdpLines ==
    LET Ldp == Is("protocol", "mpls-ldp")
        Interface == And(Ldp, Perhaps(AnyWord("name")))
        Peer == And(Ldp, Perhaps(AnyWord("lsr-id")))
    IN  Lines("cmd_show_mpls_ldp_discovery", "discovered peer", Interface)
        \cup Lines("cmd_show_mpls_ldp_discovery_detail", "interface", And(Interface, Detail))
        \cup Lines("cmd_show_mpls_ldp_peer", "peer adjacency", Peer)
        \cup Lines("cmd_show_mpls_ldp_peer_detail", "peer", And(Peer, Detail))
        \cup Lines("cmd_show_mpls_ldp_binding_address", "address binding",
                   And(Ldp, Perhaps(AnyWord("address"))))
        \cup Lines("cmd_show_mpls_ldp_binding_fec", "fec binding",
                   And(Ldp, Perhaps(AnyWord("fec"))))

RouteLines == Lines("cmd_show_route", "rib route", Perhaps(Family))

ShowLines ==
    ConfigLines \cup IsisLines \cup BgpLines \cup OspfLines \cup RipLines \cup LdpLines
    \cup RouteLines

=============================================================================
