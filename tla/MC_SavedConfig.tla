---------------------------- MODULE MC_SavedConfig ----------------------------
(***************************************************************************)
(* Configurations with lists in lists, leaves next to them, a list with two *)
(* keys, and keys and values that are refused.                              *)
(***************************************************************************)
EXTENDS SavedConfig, MC_Schema

Under(n, keys, v) == [node |-> n, keys |-> keys, val |-> v]

MCSavedConfigs == {
  {InterfaceEntry("a"), Under("enabled", <<"a">>, "b"), Under("ipv4", <<"a">>, "none"),
   Under("address", <<"a", "a">>, "none"), Under("address", <<"a", "b">>, "none"),
   HostEntry("a")},
  {InterfaceEntry("a"), Under("enabled", <<"a">>, "bad"),
   InterfaceEntry("bad"), Under("enabled", <<"bad">>, "b"), Under("ipv4", <<"bad">>, "none"),
   Under("address", <<"bad", "b">>, "none")},
  {InterfaceEntry("b"), Under("ipv4", <<"b">>, "none"), Under("address", <<"b", "bad">>, "none"),
   Under("address", <<"b", "a">>, "none"), Under("enabled", <<"b">>, "x"),
   InterfaceEntry("a")},
  {Under("route", <<"a", "b">>, "none"), Under("tag", <<"a", "b">>, "a"),
   Under("tag", <<"a", "b">>, "bad"), Under("route", <<"a", "bad">>, "none"),
   Under("tag", <<"a", "bad">>, "b"), HostEntry("bad")} }

NoLines == {}

ASSUME NamesAssumption == NamesDiffer /\ NoneNearer
=============================================================================
