---------------------------- MODULE MC_Completer ----------------------------
(***************************************************************************)
(* Typing at the root of both modes and in nested entries.                  *)
(***************************************************************************)
EXTENDS Completer, MC_Schema

TypedLines ==
  {<<"configure">>, <<"exit">>, <<"interfaces", "interface", "a">>, <<"ipv4", "address", "b">>}

\* An abbreviation of two names, a word that is a prefix of another, and "no".
MCTypedWord == {"no", "en", "i", "interface"}

NoConfig == {{}}
=============================================================================
