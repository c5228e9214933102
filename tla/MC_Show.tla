------------------------------ MODULE MC_Show ------------------------------
(***************************************************************************)
(* The show commands for TLC: a daemon with every protocol, in four        *)
(* states, and the lines of the trees with three words.                    *)
(***************************************************************************)
EXTENDS ShowSchema, ShowTree

MCTyped == {"eth0", "10.0.0.1", "a'b"}
MCAddress == {"10.0.0.1"}
MCQuoted == {"a'b"}

(* The values of the keys: two where a command filters.                    *)
Interfaces == {"eth0", "eth1"}
Numbers == {"10.0.0.1", "10.0.0.2"}
KeysAt(step) ==
    IF step = BgpRib THEN Afis
    ELSE IF step.leaf \in {"name", "interface"} THEN Interfaces
    ELSE IF step.leaf \in {"area-id", "level", "lsa-id", "lsp-id", Absent} THEN {"1"}
    ELSE Numbers

PathsAlong(place) ==
    {[i \in DOMAIN place |-> [list |-> place[i].list, leaf |-> place[i].leaf, key |-> keys[i]]] :
        keys \in {k \in [DOMAIN place -> Afis \cup Interfaces \cup Numbers \cup {"1"}] :
                    \A i \in DOMAIN place : k[i] \in KeysAt(place[i])}}

(* Each place of the schema has its entries, and so has each on the way.   *)
InstancesOf(protocol) ==
    CASE protocol = "isis" -> {"main", "blue"} [] protocol = "rib" -> Afis [] OTHER -> {"main"}

KindAt(protocol, place) ==
    LET rows == {r \in Schema : protocol \in r.protocols /\ r.place = place}
    IN  IF rows = {} THEN "part" ELSE (CHOOSE r \in rows : TRUE).kind

FamilyAt(kind, instance, path) ==
    CASE kind = "rib route" -> instance
      [] kind \in {"received", "advertised"} -> path[1].key
      [] OTHER -> Absent

EntriesAt(protocol, place) ==
    LET kind == KindAt(protocol, place)
    IN  {[kind |-> kind, protocol |-> protocol, instance |-> i,
          family |-> FamilyAt(kind, i, q), path |-> q] :
            i \in InstancesOf(protocol), q \in PathsAlong(place)}

EntriesOf(r) ==
    UNION {EntriesAt(p, SubSeq(r.place, 1, depth)) : p \in r.protocols, depth \in 0..Len(r.place)}

MCEntries == UNION {EntriesOf(r) : r \in Schema}

(* Four trees.  Full has everything; an IS-IS interface that is down has  *)
(* no state.  Partial is a router without IS-IS and OSPFv3, with one       *)
(* interface and one BGP neighbor for IPv6, whose data is incomplete.      *)
(* Starting has BGP neighbors, but no routes and an empty attribute set;   *)
(* table has nothing but an IPv4 routing table.                            *)
Live == {n \in MCEntries : ~(n.protocol = "isis" /\ \E i \in DOMAIN n.path : n.path[i].key = "eth1")}
Some ==
    {n \in MCEntries :
        /\ n.protocol \notin {"isis", "ospfv3"}
        /\ \A i \in DOMAIN n.path : n.path[i].key # "eth1"
        /\ ~ /\ n.kind \in {"received", "advertised"}
             /\ n.family = "ipv6" /\ n.path[2].key = "10.0.0.1"}
Peers == {n \in MCEntries : n.protocol = "bgp" /\ n.kind \notin {"received", "advertised"}}
Table4 == {n \in MCEntries : n.protocol = "rib" /\ n.instance = "ipv4"}
BgpRouteEntries == {n \in MCEntries : n.kind \in {"received", "advertised"}}
Missing == {"sequence", "checksum", "type", "seq-num", "last-established"}
Lacking == {<<n, leaf>> \in Some \X (Missing \cup {"attr-index"}) :
               IF leaf = "attr-index" THEN n.kind = "advertised" ELSE n.path # << >>}
ByKind == [n \in BgpRouteEntries |-> IF n.kind = "received" THEN 1 ELSE 2]
Second == [n \in BgpRouteEntries |-> 2]
Unreferenced == [n \in {} |-> 0]

MCTrees == {"full", "partial", "starting", "table"}
MCData ==
    [full |-> [entries |-> MCEntries, state |-> Live, lacks |-> {},
               kept |-> {"isis", "ospfv2", "ospfv3", "bgp"}, attributes |-> {1, 2}, bare |-> {},
               uses |-> ByKind],
     partial |-> [entries |-> Some, state |-> Some, lacks |-> Lacking,
                  kept |-> {"ospfv2", "bgp"}, attributes |-> {2}, bare |-> {},
                  uses |-> Second],
     starting |-> [entries |-> Peers, state |-> Peers, lacks |-> {}, kept |-> {"bgp"},
                   attributes |-> {3}, bare |-> {3}, uses |-> Unreferenced],
     table |-> [entries |-> Table4, state |-> Table4, lacks |-> {}, kept |-> {},
                attributes |-> {}, bare |-> {}, uses |-> Unreferenced]]

ASSUME DataAssumption == \A t \in Trees : FollowsSchema(t)

(* The lines whose commands do not do what their help says, and the rest.  *)
AsScopeLines == {l \in ShowLines : l.cmd = "cmd_show_ospf_database_as"}
RouterIdLines ==
    {l \in ShowLines : l.cmd = "cmd_show_ospf_neighbor" /\ "router_id" \in DOMAIN l.args}
RightLines == ShowLines \ (AsScopeLines \cup RouterIdLines)

=============================================================================
