------------------------------ MODULE MC_Batch ------------------------------
(***************************************************************************)
(* The lines of MC_Cli, in a file.                                          *)
(***************************************************************************)
EXTENDS Batch, MC_Schema

FileLines ==
  {<<"interfaces", "interface", "a">>, <<"enabled", "b">>, <<"exit">>, <<"end">>,
   <<"interfaces", "interface", "bad">>, <<"discard">>, <<"commit">>}
=============================================================================
