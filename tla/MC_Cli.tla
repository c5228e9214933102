------------------------------- MODULE MC_Cli -------------------------------
(***************************************************************************)
(* The lines of one session over the schema of MC_Schema.                   *)
(***************************************************************************)
EXTENDS CliRefinesShell, MC_Schema

\* Lines of the exec mode, of the root of the configuration and of list entries.
ExecLines == {<<"con">>, <<"end">>, <<"exit">>, <<"show", "ospfv2", "interface", "det">>}
ModeLines == {<<"end">>, <<"ex">>, <<"top">>, <<"t">>, <<"discard">>, <<"commit">>,
              <<"commit", "comment", "a">>, <<"validate">>, <<"show", "candidate">>,
              <<"no">>, <<"en">>}
InterfaceLines == {
  <<"i", "interface", "a">>, <<"no", "interfaces", "interface", "a">>,
  <<"interfaces", "interface", "bad", "enabled", "a">>,
  <<"enabled", "b">>, <<"enabled", "bad">>, <<"no", "enabled", "a">>,
  <<"ipv4">>, <<"no", "ipv4">>, <<"ipv4", "address", "b">>,
  <<"interface", "b">>, <<"i">>, <<"no", "address", "b">> }
RouteLines == {<<"route", "a", "b">>, <<"route", "a">>, <<"tag", "a">>, <<"tag", "b">>,
               <<"no", "tag", "b">>, <<"no", "route", "a", "b">>}

\* Without the commits, so that the running configuration is one of the initial
\* ones: RouteSession commits.
InterfaceSession ==
  (ExecLines \cup ModeLines \cup InterfaceLines) \ {<<"commit">>, <<"commit", "comment", "a">>}
RouteSession == ExecLines \cup ModeLines \cup RouteLines \cup {<<"hostname", "a">>}

\* Lines that are known at some levels and not at others, with the commands that
\* enter, leave and keep these levels.
LevelSession ==
  {<<"con">>, <<"exit">>, <<"end">>, <<"discard">>, <<"no">>, <<"en">>,
   <<"interfaces", "interface", "a">>, <<"interface", "b">>, <<"ipv4", "address", "b">>,
   <<"no", "ipv4">>, <<"enabled", "bad">>, <<"no", "interface", "a">>,
   <<"t">>, <<"i", "interface", "bad", "enabled", "a">>, <<"validate">>}

\* With these, one line or more for each way through the parser and for each
\* callback, and a list with two keys next to the lists nested in lists.
AnswerSession ==
  (LevelSession \ {<<"validate">>, <<"interface", "b">>})
    \cup {<<"route", "a", "b">>, <<"commit">>}
=============================================================================
