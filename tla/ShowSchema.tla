----------------------------- MODULE ShowSchema -----------------------------
(***************************************************************************)
(* Where the YANG modules of the daemon have the entries that the help of  *)
(* the show commands speaks of: for each protocol and kind of entry, the   *)
(* lists on the way to it and the leaf that is the key of each.  External: *)
(* taken from the paths the commands follow and the leaves they print.     *)
(***************************************************************************)
EXTENDS Show

At(list, leaf) == [list |-> list, leaf |-> leaf]
Row(protocols, kind, place) == [protocols |-> protocols, kind |-> kind, place |-> place]

(* The lists that several kinds of entries are found in.                   *)
IsisLink == At("isis/interfaces/interface", "name")
Area == At("ospf/areas/area", "area-id")
OspfLink == At("interfaces/interface", "name")
Hop == At("next-hops/next-hop", "next-hop")
LdpLink == At("mpls-ldp/discovery/interfaces/interface", "name")
Adjacency == At("address-families/ipv4/hello-adjacencies/hello-adjacency", "adjacent-address")
LdpPeerEntry == At("mpls-ldp/peers/peer", "lsr-id")
BgpPeer == At("bgp/neighbors/neighbor", "remote-address")
BgpRib == At("bgp/rib/afi-safis/afi-safi", "name")
BgpRibPeer == At("neighbors/neighbor", "neighbor-address")

IsisRows ==
    {Row({"isis"}, "interface", <<IsisLink>>),
     Row({"isis"}, "adjacency", <<IsisLink, At("adjacencies/adjacency", "neighbor-sysid")>>),
     Row({"isis"}, "lsp", <<At("isis/database/levels", "level"), At("lsp", "lsp-id")>>),
     Row({"isis"}, "route", <<At("isis/local-rib/route", "prefix"), Hop>>)}

OspfRows ==
    {Row(Ospf, "interface", <<Area, OspfLink>>),
     Row(Ospf, "neighbor", <<Area, OspfLink, At("neighbors/neighbor", "neighbor-router-id")>>),
     Row(Ospf, "vlink neighbor", <<Area, At("virtual-links/virtual-link", "router-id"),
                                   At("neighbors/neighbor", "neighbor-router-id")>>),
     Row(Ospf, "AS-scope LSA", <<At("ospf/database/as-scope-lsa/header", "lsa-id")>>),
     Row(Ospf, "area-scope LSA", <<Area, At("database/area-scope-lsa/header", "lsa-id")>>),
     Row(Ospf, "link-scope LSA",
         <<Area, OspfLink, At("database/link-scope-lsa/header", "lsa-id")>>),
     Row(Ospf, "route", <<At("ospf/local-rib/route", "prefix"), Hop>>),
     Row(Ospf, "hostname", <<At("ospf/hostnames/hostname", "router-id")>>)}

RipRows ==
    {Row({"ripv2", "ripng"}, "interface", <<At("rip/interfaces/interface", "interface")>>),
     Row({"ripv2"}, "neighbor", <<At("rip/ipv4/neighbors/neighbor", "ipv4-address")>>),
     Row({"ripng"}, "neighbor", <<At("rip/ipv6/neighbors/neighbor", "ipv6-address")>>),
     Row({"ripv2"}, "route", <<At("rip/ipv4/routes/route", "ipv4-prefix")>>),
     Row({"ripng"}, "route", <<At("rip/ipv6/routes/route", "ipv6-prefix")>>)}

LdpRows ==
    {Row({"mpls-ldp"}, "interface", <<LdpLink>>),
     Row({"mpls-ldp"}, "discovered peer", <<LdpLink, Adjacency, At("peer", "lsr-id")>>),
     Row({"mpls-ldp"}, "peer", <<LdpPeerEntry>>),
     Row({"mpls-ldp"}, "peer adjacency", <<LdpPeerEntry, Adjacency>>),
     Row({"mpls-ldp"}, "address binding",
         <<At("mpls-ldp/global/bindings/address", "address")>>),
     Row({"mpls-ldp"}, "fec binding",
         <<At("mpls-ldp/global/bindings/fec-label", "fec"), At("peer", "lsr-id")>>)}

BgpRows ==
    {Row({"bgp"}, "neighbor", <<BgpPeer>>),
     Row({"bgp"}, "messages", <<BgpPeer, At("statistics", Absent), At("messages", Absent)>>),
     Row({"bgp"}, "received",
         <<BgpRib, BgpRibPeer, At("adj-rib-in-pre/routes/route", "prefix")>>),
     Row({"bgp"}, "advertised",
         <<BgpRib, BgpRibPeer, At("adj-rib-out-post/routes/route", "prefix")>>)}

RibRows == {Row({"rib"}, "rib route", <<At("routes/route", "destination-prefix")>>)}

Schema == IsisRows \cup OspfRows \cup RipRows \cup LdpRows \cup BgpRows \cup RibRows

(* The path of an entry leads through the lists of a place.                *)
Along(path, place) ==
    Len(path) = Len(place) /\ \A i \in DOMAIN place : path[i].list = place[i].list

(* An entry is of the kind its place says, and each list has its key.      *)
Placed(n) ==
    \A r \in Schema : n.protocol \in r.protocols =>
        /\ n.kind = r.kind <=> Along(n.path, r.place)
        /\ n.kind = r.kind => \A i \in DOMAIN r.place : n.path[i].leaf = r.place[i].leaf

(* Routes are of a family: those of a RIB of the one it is named for, the  *)
(* received and advertised ones of the one they are listed under.          *)
OfFamily(n) ==
    /\ n.kind = "rib route" => n.protocol = "rib" /\ n.family = n.instance
    /\ n.kind \in {"received", "advertised"} => n.family = n.path[1].key /\ n.family # Absent
    /\ n.kind \notin {"rib route", "received", "advertised"} => n.family = Absent

FollowsSchema(t) ==
    \A n \in Data[t].entries : DOMAIN n.path = 1..Len(n.path) /\ Placed(n) /\ OfFamily(n)

=============================================================================
