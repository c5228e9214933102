---------------------------- MODULE ModuleCache ----------------------------
(***************************************************************************)
(* How a holo-cli process comes up: it connects to the daemon, asks which  *)
(* YANG modules it serves and has libyang load them, taking each text      *)
(* from the cache directory when it can and from the daemon when it must;  *)
(* what the daemon sends is written into that directory on the way.        *)
(* Several processes of one machine share the directory, a process may be  *)
(* killed at any moment (in the middle of a write too), and the daemon may *)
(* be upgraded while processes run.                                        *)
(*                                                                         *)
(* A Unit is a module or a submodule.  Owner[u] is the module a submodule  *)
(* belongs to and u itself for a module; the callback is given both names. *)
(* Holo are the modules whose name starts with "holo".  Needs[u] lists the *)
(* units u imports or includes, which it names without a revision, and     *)
(* Served the modules of the daemon's capabilities, in order.              *)
(* Revision[u][k] is the revision of u the daemon of release k serves, or  *)
(* None.                                                                   *)
(***************************************************************************)
EXTENDS Naturals, Sequences

CONSTANTS Process, Unit, Owner, Holo, Served, Needs, Revision, MaxRelease,
          None, Absent, Broken

Release == 0 .. MaxRelease
Dated == {Revision[u][k] : u \in Unit, k \in Release} \ {None}
Request == [unit : Unit, rev : Dated \cup {None}]

ASSUME CacheAssumption ==
    /\ MaxRelease \in Nat
    /\ Owner \in [Unit -> Unit]
    /\ Holo \subseteq Unit
    /\ Served \in Seq(Unit)
    /\ Needs \in [Unit -> Seq(Unit)]
    /\ DOMAIN Revision = Unit
    /\ \A u \in Unit : DOMAIN Revision[u] = Release

VARIABLES
    release,    \* the release of the daemon that runs
    file,       \* the cache directory: what the file of each path holds
    phase,      \* how far each process has come
    wanted,     \* the loads a process still has to do, the current one first
    answer,     \* the text the daemon sent for that one, or None
    context,    \* the texts in the libyang context of the process
    since,      \* the release whose capabilities the process was told
    spoilt      \* history: paths left broken by anybody since the process began

vars == <<release, file, phase, wanted, answer, context, since, spoilt>>

Published(u) == Owner[u] \notin Holo

\* Mutant: only the name of the unit itself is looked at.
MayCacheName(u) == u \notin Holo

(* The callback saves what it fetched unless it is for a module of holo.   *)
MayCache(u) == Owner[u] \notin Holo

(* The text of u in release k.  A published module never changes under its *)
(* revision; a module of holo, or one without a revision, may change with  *)
(* every release.                                                          *)
Text(u, k) ==
    [unit |-> u, rev |-> Revision[u][k],
     build |-> IF Published(u) /\ Revision[u][k] # None THEN 0 ELSE k]

Texts == {Text(u, k) : u \in Unit, k \in Release}

(* A file is absent, broken (truncated, half written or overwritten by     *)
(* halves) or whole.  A broken file does not parse.                        *)
ASSUME DistinctAssumption == Texts \cap {None, Absent, Broken} = {} /\ None \notin Request

CachePath(q) == [unit |-> q.unit, rev |-> q.rev]
Current(p) == Head(wanted[p])

Phases == {"off", "connect", "directory", "capabilities", "loading", "asking",
           "opening", "writing", "ready", "failed"}

Fits(text, q) == text.unit = q.unit /\ (q.rev = None \/ text.rev = q.rev)

(* What libyang finds in the search directory for a load: the files named  *)
(* after the unit, of the wanted revision or of none, that parse to it.    *)
Candidates(q) ==
    {f \in Request : /\ f.unit = q.unit
                     /\ q.rev = None \/ f.rev \in {q.rev, None}
                     /\ file[f] \in Texts
                     /\ Fits(file[f], q)}

AtPhase(p, from) == phase[p] = from
GoTo(p, to) == phase' = [phase EXCEPT ![p] = to]

-----------------------------------------------------------------------------
Init ==
    /\ release = 0
    /\ file = [f \in Request |-> Absent]
    /\ phase = [p \in Process |-> "off"]
    /\ wanted = [p \in Process |-> << >>]
    /\ answer = [p \in Process |-> None]
    /\ context = [p \in Process |-> {}]
    /\ since = [p \in Process |-> 0]
    /\ spoilt = [p \in Process |-> {}]

Start(p) ==
    /\ AtPhase(p, "off")
    /\ GoTo(p, "connect")
    /\ spoilt' = [spoilt EXCEPT ![p] = {}]
    /\ UNCHANGED <<release, file, wanted, answer, context, since>>

(* Both ends of the first connection: without it the process exits.        *)
Connect(p) ==
    /\ AtPhase(p, "connect")
    /\ \E next \in {"directory", "failed"} : GoTo(p, next)
    /\ UNCHANGED <<release, file, wanted, answer, context, since, spoilt>>

MakeDirectory(p) ==
    /\ AtPhase(p, "directory")
    /\ \E next \in {"capabilities", "failed"} : GoTo(p, next)
    /\ UNCHANGED <<release, file, wanted, answer, context, since, spoilt>>

\* Mutant: the revision announced is not passed on to libyang.
CapabilitiesAny(p) ==
    /\ AtPhase(p, "capabilities")
    /\ GoTo(p, "loading")
    /\ wanted' = [wanted EXCEPT ![p] =
           [i \in DOMAIN Served |-> [unit |-> Served[i], rev |-> None]]]
    /\ since' = [since EXCEPT ![p] = release]
    /\ UNCHANGED <<release, file, answer, context, spoilt>>

(* Capabilities and the second connection, the one of the callback: each   *)
(* is expected to succeed and ends the process when it does not.           *)
Capabilities(p) ==
    /\ AtPhase(p, "capabilities")
    /\ \/ /\ GoTo(p, "loading")
          /\ wanted' = [wanted EXCEPT ![p] =
               [i \in DOMAIN Served |->
                  [unit |-> Served[i], rev |-> Revision[Served[i]][release]]]]
          /\ since' = [since EXCEPT ![p] = release]
       \/ /\ GoTo(p, "failed")
          /\ UNCHANGED <<wanted, since>>
    /\ UNCHANGED <<release, file, answer, context, spoilt>>

(* A text enters the context, and what it imports or includes is loaded    *)
(* next.                                                                   *)
Parse(p, text) ==
    /\ context' = [context EXCEPT ![p] = @ \cup {text}]
    /\ wanted' = [wanted EXCEPT ![p] =
         [i \in DOMAIN Needs[text.unit] |->
            [unit |-> Needs[text.unit][i], rev |-> None]] \o Tail(@)]

Loading(p) == AtPhase(p, "loading") /\ wanted[p] # << >>
InContext(p) == \E text \in context[p] : Fits(text, Current(p))

AlreadyLoaded(p) ==
    /\ Loading(p)
    /\ InContext(p)
    /\ wanted' = [wanted EXCEPT ![p] = Tail(@)]
    /\ UNCHANGED <<release, file, phase, answer, context, since, spoilt>>

FromFile(p) ==
    /\ Loading(p)
    /\ ~InContext(p)
    /\ \E f \in Candidates(Current(p)) : Parse(p, file[f])
    /\ UNCHANGED <<release, file, phase, answer, since, spoilt>>

(* Nothing in the directory parses: libyang asks the callback.             *)
Ask(p) ==
    /\ Loading(p)
    /\ ~InContext(p)
    /\ Candidates(Current(p)) = {}
    /\ GoTo(p, "asking")
    /\ UNCHANGED <<release, file, wanted, answer, context, since, spoilt>>

\* Mutant: the text is kept after it was returned.
DeliverKept(p, text) == GoTo(p, "loading") /\ Parse(p, text) /\ UNCHANGED answer

(* The callback returns a text to libyang.                                 *)
Deliver(p, text) ==
    /\ GoTo(p, "loading")
    /\ Parse(p, text)
    /\ answer' = [answer EXCEPT ![p] = None]

(* GetSchema: the daemon serves one revision of each unit.  What may be    *)
(* cached is saved before it is returned to libyang.                       *)
GetSchema(p) ==
    /\ AtPhase(p, "asking")
    /\ LET text == Text(Current(p).unit, release)
       IN  /\ Fits(text, Current(p))
           /\ \/ /\ MayCache(text.unit)
                 /\ GoTo(p, "opening")
                 /\ answer' = [answer EXCEPT ![p] = text]
                 /\ UNCHANGED <<wanted, context>>
              \/ /\ ~MayCache(text.unit)
                 /\ Deliver(p, text)
    /\ UNCHANGED <<release, file, since, spoilt>>

\* Mutant: a unit the daemon does not have is asked for again.
GetSchemaRetries(p) == AtPhase(p, "asking") /\ UNCHANGED vars

(* The RPC fails or the daemon does not have the revision: LY_ENOTFOUND,   *)
(* load_module fails and the process panics.                               *)
GetSchemaFails(p) ==
    /\ AtPhase(p, "asking")
    /\ GoTo(p, "failed")
    /\ UNCHANGED <<release, file, wanted, answer, context, since, spoilt>>

Spoil(f) == spoilt' = [p \in Process |-> spoilt[p] \cup {f}]

\* Mutant: a file that exists is not written again.
OpenNew(p) ==
    /\ AtPhase(p, "opening")
    /\ LET f == CachePath(Current(p))
       IN  \/ /\ file[f] = Absent
              /\ file' = [file EXCEPT ![f] = Broken]
              /\ GoTo(p, "writing")
              /\ UNCHANGED <<wanted, answer, context>>
           \/ /\ file[f] # Absent
              /\ Deliver(p, answer[p])
              /\ UNCHANGED file
    /\ UNCHANGED <<release, since, spoilt>>

(* fs::write creates or truncates the file and then writes the text.       *)
OpenFile(p) ==
    /\ AtPhase(p, "opening")
    /\ file' = [file EXCEPT ![CachePath(Current(p))] = Broken]
    /\ GoTo(p, "writing")
    /\ UNCHANGED <<release, wanted, answer, context, since, spoilt>>

OpenFails(p) ==
    /\ AtPhase(p, "opening")
    /\ Deliver(p, answer[p])
    /\ Spoil(CachePath(Current(p)))
    /\ UNCHANGED <<release, file, since>>

(* The text replaces what the file held when the process opened it, and    *)
(* mixes with what another process has written since.                      *)
WriteFile(p) ==
    /\ AtPhase(p, "writing")
    /\ LET f == CachePath(Current(p))
       IN  \/ /\ file' = [file EXCEPT ![f] = answer[p]]
              /\ UNCHANGED spoilt
           \/ /\ file[f] \notin {Broken, answer[p]}
              /\ file' = [file EXCEPT ![f] = Broken]
              /\ Spoil(f)
    /\ Deliver(p, answer[p])
    /\ UNCHANGED <<release, since>>

(* The disk is full: the failure is logged and the load goes on.           *)
WriteFails(p) ==
    /\ AtPhase(p, "writing")
    /\ file' = [file EXCEPT ![CachePath(Current(p))] = Broken]
    /\ Spoil(CachePath(Current(p)))
    /\ Deliver(p, answer[p])
    /\ UNCHANGED <<release, since>>

(* Every module is loaded; Session::new reads the running configuration    *)
(* and unwraps the result.                                                 *)
Loaded(p) ==
    /\ AtPhase(p, "loading")
    /\ wanted[p] = << >>
    /\ \E next \in {"ready", "failed"} : GoTo(p, next)
    /\ UNCHANGED <<release, file, wanted, answer, context, since, spoilt>>

(* The process ends, or is killed wherever it is.                          *)
End(p) ==
    /\ ~AtPhase(p, "off")
    /\ GoTo(p, "off")
    /\ wanted' = [wanted EXCEPT ![p] = << >>]
    /\ answer' = [answer EXCEPT ![p] = None]
    /\ context' = [context EXCEPT ![p] = {}]
    /\ IF AtPhase(p, "writing") THEN Spoil(CachePath(Current(p)))
       ELSE UNCHANGED spoilt
    /\ UNCHANGED <<release, file, since>>

Upgrade ==
    /\ release < MaxRelease
    /\ release' = release + 1
    /\ UNCHANGED <<file, phase, wanted, answer, context, since, spoilt>>

Load(p) == AlreadyLoaded(p) \/ FromFile(p) \/ Ask(p)
Callback(p) ==
    \/ GetSchema(p) \/ GetSchemaFails(p)
    \/ OpenFile(p) \/ OpenFails(p) \/ WriteFile(p) \/ WriteFails(p)

StartUp(p) ==
    Connect(p) \/ MakeDirectory(p) \/ Capabilities(p) \/ Load(p) \/ Callback(p) \/ Loaded(p)

Next == Upgrade \/ \E p \in Process : Start(p) \/ StartUp(p) \/ End(p)

(* A process that is coming up keeps running, and each RPC is answered or  *)
(* fails.                                                                  *)
Fairness == \A p \in Process : WF_vars(StartUp(p))

Spec == Init /\ [][Next]_vars /\ Fairness

-----------------------------------------------------------------------------
(* Each variable ranges over what the code can put there, and a text is    *)
(* held back from libyang only while it is being saved.                    *)
TypeOK ==
    /\ release \in Release
    /\ file \in [Request -> {Absent, Broken} \cup Texts]
    /\ phase \in [Process -> Phases]
    /\ wanted \in [Process -> Seq(Request)]
    /\ answer \in [Process -> Texts \cup {None}]
    /\ \A p \in Process : answer[p] # None => phase[p] \in {"opening", "writing"}
    /\ context \in [Process -> SUBSET Texts]
    /\ since \in [Process -> Release]
    /\ spoilt \in [Process -> SUBSET Request]

(* A file that parses holds what its name says: the unit (a submodule, not *)
(* the module that includes it) and, when it names one, the revision; and  *)
(* no file holds a module of holo, whose text may change under one         *)
(* revision.  Whatever processes write at once, and wherever one is killed. *)
CacheTruth ==
    \A f \in Request : file[f] \in Texts => Fits(file[f], f) /\ Published(f.unit)

(* A process in the prompt has every module the daemon announced, in the   *)
(* revision announced, and with the very text the daemon had then: from    *)
(* the cache only where the text cannot have changed.  A module of holo is *)
(* as the daemon had it when the process asked or later, never older.      *)
ReadyMatchesDaemon ==
    \A p \in Process : AtPhase(p, "ready") =>
        \A i \in DOMAIN Served : LET u == Served[i] IN
            \E text \in context[p] :
                /\ Fits(text, [unit |-> u, rev |-> Revision[u][since[p]]])
                /\ ~Published(u) => text.build >= since[p]
                /\ Published(u) /\ Revision[u][since[p]] # None =>
                       text = Text(u, since[p])

(* The cache heals: once a process that loaded a unit of a published       *)
(* module is in the prompt, some path of that unit holds a whole text,     *)
(* whatever a process killed earlier had left there, unless somebody       *)
(* writes the file right now or has failed to since the process began.     *)
BeingWritten(f) == \E p \in Process : AtPhase(p, "writing") /\ CachePath(Current(p)) = f
CacheFilled ==
    \A p \in Process : AtPhase(p, "ready") =>
        \A text \in context[p] : Published(text.unit) =>
            \E f \in Request :
                /\ f.unit = text.unit
                /\ file[f] \in Texts \/ BeingWritten(f) \/ f \in spoilt[p]

(* A process that connects ends in the prompt or out: modules that import  *)
(* others, files that do not parse and another process in the same         *)
(* directory do not keep it loading for ever.                              *)
StartEnds ==
    \A p \in Process :
        AtPhase(p, "connect") ~> phase[p] \in {"ready", "failed", "off"}

=============================================================================
