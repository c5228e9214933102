-------------------------- MODULE MC_ModuleCache --------------------------
(***************************************************************************)
(* Two processes; a module of holo with a submodule, which imports a       *)
(* published module loaded after it; and a daemon upgraded once: the       *)
(* published module gets a new revision, the module of holo changes under  *)
(* the one it has.                                                         *)
(***************************************************************************)
EXTENDS ModuleCache, TLC

MCUnit == {"ietf", "holo", "holo-sub"}
MCOwner == "ietf" :> "ietf" @@ "holo" :> "holo" @@ "holo-sub" :> "holo"
MCNeeds == "ietf" :> << >> @@ "holo" :> <<"holo-sub", "ietf">> @@ "holo-sub" :> << >>
MCServed == <<"holo", "ietf">>
MCRevision == "ietf" :> (0 :> "r0" @@ 1 :> "r1") @@
              "holo" :> (0 :> "r0" @@ 1 :> "r0") @@
              "holo-sub" :> (0 :> None @@ 1 :> None)
=============================================================================
