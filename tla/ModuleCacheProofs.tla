------------------------- MODULE ModuleCacheProofs -------------------------
(***************************************************************************)
(* For any number of processes, units and releases, with processes killed   *)
(* anywhere: a cached file that parses holds what its name says, and a      *)
(* process in the prompt has the modules its daemon announced.              *)
(***************************************************************************)
EXTENDS ModuleCache, SequenceTheorems, TLAPS

\* The text of a unit in a release, and its revision.
LEMMA TextType ==
  ASSUME NEW u \in Unit, NEW k \in Release
  PROVE  /\ Text(u, k) \in Texts
         /\ Text(u, k).unit = u
         /\ Text(u, k).rev = Revision[u][k]
         /\ [unit |-> u, rev |-> Revision[u][k]] \in Request
  <1>1. Text(u, k) \in Texts  BY DEF Texts
  <1>2. Revision[u][k] \in Dated \cup {None}  BY DEF Dated
  <1>3. QED  BY <1>1, <1>2 DEF Text, Request

\* A text is one of a unit.
LEMMA TextUnit ==
  ASSUME NEW text \in Texts
  PROVE  text.unit \in Unit
  BY DEF Text, Texts

\* Two texts of a published module that carry one revision are one text.
LEMMA PublishedOnce ==
  ASSUME NEW u \in Unit, NEW k \in Release, NEW text \in Texts,
         Published(u), Revision[u][k] # None,
         text.unit = u, text.rev = Revision[u][k]
  PROVE  text = Text(u, k)
  BY DEF Text, Texts

\* The first load of a queue and the rest of it.
LEMMA QueueTail ==
  ASSUME NEW queue \in Seq(Request), queue # << >>
  PROVE  /\ Head(queue) \in Request
         /\ Tail(queue) \in Seq(Request)
         /\ \A j \in 1 .. Len(queue) :
               queue[j] = Head(queue) \/
               \E i \in 1 .. Len(Tail(queue)) : Tail(queue)[i] = queue[j]
  <1>1. /\ Head(queue) \in Request /\ Tail(queue) \in Seq(Request)
        /\ Len(Tail(queue)) = Len(queue) - 1
        /\ \A i \in 1 .. Len(Tail(queue)) : Tail(queue)[i] = queue[i + 1]
    BY HeadTailProperties
  <1>2. Len(queue) \in Nat /\ Head(queue) = queue[1]  BY LenProperties
  <1>3. ASSUME NEW j \in 1 .. Len(queue), j # 1
        PROVE  \E i \in 1 .. Len(Tail(queue)) : Tail(queue)[i] = queue[j]
    <2>1. j - 1 \in 1 .. Len(Tail(queue)) /\ Tail(queue)[j - 1] = queue[j]
      BY <1>1, <1>2, <1>3
    <2>2. QED  BY <2>1
  <1>4. QED  BY <1>1, <1>2, <1>3

Imports(u) == [i \in DOMAIN Needs[u] |-> [unit |-> Needs[u][i], rev |-> None]]

\* What a unit needs is a list of loads.
LEMMA ImportsType ==
  ASSUME NEW u \in Unit
  PROVE  Imports(u) \in Seq(Request)
  <1>1. Needs[u] \in Seq(Unit)  BY CacheAssumption
  <1>2. /\ Len(Needs[u]) \in Nat /\ DOMAIN Needs[u] = 1 .. Len(Needs[u])
        /\ \A i \in DOMAIN Needs[u] : Needs[u][i] \in Unit
    BY <1>1, LenProperties
  <1>3. Imports(u) \in [1 .. Len(Needs[u]) -> Request]
    BY <1>2 DEF Imports, Request
  <1>4. QED  BY <1>2, <1>3, SeqDef

\* What the daemon announces is a list of loads.
LEMMA AnnouncedType ==
  ASSUME NEW k \in Release
  PROVE  [i \in DOMAIN Served |-> [unit |-> Served[i], rev |-> Revision[Served[i]][k]]]
            \in Seq(Request)
  <1> DEFINE announced == [i \in DOMAIN Served |->
                            [unit |-> Served[i], rev |-> Revision[Served[i]][k]]]
  <1>1. Served \in Seq(Unit)  BY CacheAssumption
  <1>2. /\ Len(Served) \in Nat /\ DOMAIN Served = 1 .. Len(Served)
        /\ \A i \in DOMAIN Served : Served[i] \in Unit
    BY <1>1, LenProperties
  <1>3. announced \in [1 .. Len(Served) -> Request]
    BY <1>2, TextType
  <1>4. QED  BY <1>2, <1>3, SeqDef

-----------------------------------------------------------------------------
(***************************************************************************)
(* The inductive invariant: what the phases say of the queue and of the     *)
(* answer, and that each announced module is queued or loaded.              *)
(***************************************************************************)
Early == {"off", "connect", "directory", "capabilities"}

PhaseInv ==
  \A p \in Process :
    /\ phase[p] \in Early => wanted[p] = << >> /\ context[p] = {}
    /\ phase[p] \in {"asking", "opening", "writing"} => wanted[p] # << >>
    /\ phase[p] \in {"opening", "writing"} =>
          answer[p] \in Texts /\ Fits(answer[p], Current(p)) /\ Published(answer[p].unit)
    /\ phase[p] = "ready" => wanted[p] = << >>

\* What is in the context of a module of holo came from the daemon.
FreshInv ==
  \A p \in Process :
    /\ since[p] <= release
    /\ \A text \in context[p] : ~Published(text.unit) => text.build >= since[p]

Announced(p, i) == [unit |-> Served[i], rev |-> Revision[Served[i]][since[p]]]
Queued(p, q) == \E j \in 1 .. Len(wanted[p]) : wanted[p][j] = q
Known(p, q) == \E text \in context[p] : Fits(text, q)

AnnouncedInv ==
  \A p \in Process : phase[p] \notin Early \cup {"failed"} =>
    \A i \in DOMAIN Served : Queued(p, Announced(p, i)) \/ Known(p, Announced(p, i))

IInv == TypeOK /\ CacheTruth /\ PhaseInv /\ FreshInv /\ AnnouncedInv

\* No process has started.
LEMMA InitIInv ==
  ASSUME Init
  PROVE  IInv
  <1>1. 0 \in Release /\ << >> \in Seq(Request)
    BY CacheAssumption, EmptySeq DEF Release
  <1>2. TypeOK  BY <1>1 DEF Init, TypeOK, Phases
  <1>3. CacheTruth  BY DistinctAssumption DEF Init, CacheTruth
  <1>4. PhaseInv  BY DEF Init, PhaseInv, Early
  <1>5. FreshInv /\ AnnouncedInv  BY DEF Init, FreshInv, AnnouncedInv, Early
  <1>6. QED  BY <1>2, <1>3, <1>4, <1>5 DEF IInv

-----------------------------------------------------------------------------
(***************************************************************************)
(* A text enters the context.                                               *)
(***************************************************************************)

\* Nothing is lost: what was queued is still queued, but for the load done.
LEMMA ParseStep ==
  ASSUME TypeOK, NEW p \in Process, NEW text \in Texts,
         wanted[p] # << >>, Parse(p, text)
  PROVE  /\ wanted' \in [Process -> Seq(Request)]
         /\ context' \in [Process -> SUBSET Texts]
         /\ \A q : Queued(p, q) => q = Current(p) \/ Queued(p, q)'
         /\ \A q : Known(p, q) \/ Fits(text, q) => Known(p, q)'
         /\ \A r \in Process \ {p} : wanted'[r] = wanted[r] /\ context'[r] = context[r]
         /\ context'[p] = context[p] \cup {text}
  <1> DEFINE first == Imports(text.unit)
             rest == Tail(wanted[p])
  <1>1. wanted[p] \in Seq(Request) /\ wanted \in [Process -> Seq(Request)]
        /\ context \in [Process -> SUBSET Texts]
    BY DEF TypeOK
  <1>2. first \in Seq(Request)  BY TextUnit, ImportsType
  <1>3. rest \in Seq(Request)  BY <1>1, QueueTail
  <1>4. /\ first \o rest \in Seq(Request)
        /\ Len(first \o rest) = Len(first) + Len(rest)
        /\ \A j \in 1 .. Len(first) + Len(rest) : (first \o rest)[j] =
              IF j <= Len(first) THEN first[j] ELSE rest[j - Len(first)]
    BY <1>2, <1>3, ConcatProperties
  <1>5. wanted' = [wanted EXCEPT ![p] = first \o rest]  BY DEF Parse, Imports
  <1>6. context' = [context EXCEPT ![p] = context[p] \cup {text}]  BY DEF Parse
  <1>7. ASSUME NEW q, Queued(p, q), q # Current(p)
        PROVE  Queued(p, q)'
    <2>1. PICK j \in 1 .. Len(wanted[p]) : wanted[p][j] = q  BY <1>7 DEF Queued
    <2>2. PICK k \in 1 .. Len(rest) : rest[k] = q
      BY <1>1, <1>7, <2>1, QueueTail DEF Current
    <2>3. Len(first) \in Nat /\ Len(rest) \in Nat  BY <1>2, <1>3, LenProperties
    <2>4. /\ Len(first) + k \in 1 .. Len(first) + Len(rest)
          /\ ~(Len(first) + k <= Len(first))
          /\ (Len(first) + k) - Len(first) = k
      BY <2>3
    <2>5. (first \o rest)[Len(first) + k] = q  BY <1>4, <2>2, <2>4
    <2>6. wanted'[p] = first \o rest  BY <1>1, <1>5
    <2>7. QED  BY <1>4, <2>4, <2>5, <2>6 DEF Queued
  <1>8. context'[p] = context[p] \cup {text}  BY <1>1, <1>6
  <1>9. ASSUME NEW q, Known(p, q) \/ Fits(text, q)
        PROVE  Known(p, q)'
    BY <1>8, <1>9 DEF Known, Fits
  <1>10. wanted' \in [Process -> Seq(Request)]  BY <1>1, <1>4, <1>5
  <1>11. context' \in [Process -> SUBSET Texts]  BY <1>1, <1>6
  <1>12. QED  BY <1>1, <1>5, <1>6, <1>7, <1>8, <1>9, <1>10, <1>11

\* With a text that fits, the invariant's parts about queue and context hold.
LEMMA ParsePreserves ==
  ASSUME IInv, NEW p \in Process, NEW text \in Texts,
         phase[p] \in {"loading", "asking", "opening", "writing"},
         wanted[p] # << >>, Parse(p, text), Fits(text, Current(p)),
         ~Published(text.unit) => text.build >= since[p],
         GoTo(p, "loading"),
         answer' \in [Process -> Texts \cup {None}],
         \A r \in Process \ {p} : answer'[r] = answer[r],
         UNCHANGED <<release, since>>
  PROVE  /\ wanted' \in [Process -> Seq(Request)]
         /\ context' \in [Process -> SUBSET Texts]
         /\ phase' \in [Process -> Phases]
         /\ PhaseInv' /\ FreshInv' /\ AnnouncedInv'
  <1>1. /\ wanted' \in [Process -> Seq(Request)]
        /\ context' \in [Process -> SUBSET Texts]
        /\ \A q : Queued(p, q) => q = Current(p) \/ Queued(p, q)'
        /\ \A q : Known(p, q) \/ Fits(text, q) => Known(p, q)'
        /\ \A r \in Process \ {p} : wanted'[r] = wanted[r] /\ context'[r] = context[r]
        /\ context'[p] = context[p] \cup {text}
    BY ParseStep DEF IInv
  <1>2. phase \in [Process -> Phases]  BY DEF IInv, TypeOK
  <1>3. phase' = [phase EXCEPT ![p] = "loading"]  BY DEF GoTo
  <1>4. phase' \in [Process -> Phases]  BY <1>2, <1>3 DEF Phases
  <1>5. phase'[p] = "loading" /\ \A r \in Process \ {p} : phase'[r] = phase[r]
    BY <1>2, <1>3
  <1>6. PhaseInv'
    <2> SUFFICES ASSUME NEW r \in Process
        PROVE  /\ phase'[r] \in Early => wanted'[r] = << >> /\ context'[r] = {}
               /\ phase'[r] \in {"asking", "opening", "writing"} => wanted'[r] # << >>
               /\ phase'[r] \in {"opening", "writing"} =>
                     answer'[r] \in Texts /\ Fits(answer'[r], Current(r)')
                     /\ Published(answer'[r].unit)
               /\ phase'[r] = "ready" => wanted'[r] = << >>
      BY DEF PhaseInv
    <2>1. CASE r = p  BY <1>5, <2>1 DEF Early
    <2>2. CASE r # p  BY <1>1, <1>5, <2>2 DEF IInv, PhaseInv, Current
    <2>3. QED  BY <2>1, <2>2
  <1>7. FreshInv'
    BY <1>1 DEF IInv, FreshInv
  <1>8. AnnouncedInv'
    <2> SUFFICES ASSUME NEW r \in Process, phase'[r] \notin Early \cup {"failed"},
                        NEW i \in DOMAIN Served
        PROVE  Queued(r, Announced(r, i))' \/ Known(r, Announced(r, i))'
      BY DEF AnnouncedInv
    <2>1. Announced(r, i)' = Announced(r, i)  BY DEF Announced
    <2>2. CASE r = p
      <3>1. Queued(p, Announced(p, i)) \/ Known(p, Announced(p, i))
        BY <2>2 DEF IInv, AnnouncedInv, Early
      <3>2. Queued(p, Announced(p, i))' \/ Known(p, Announced(p, i))'
        <4>1. CASE Known(p, Announced(p, i))  BY <1>1, <2>1, <2>2, <4>1 DEF Known
        <4>2. CASE Queued(p, Announced(p, i))
          BY <1>1, <2>1, <2>2, <4>2 DEF Known, Queued
        <4>3. QED  BY <3>1, <4>1, <4>2
      <3>3. QED  BY <2>2, <3>2
    <2>3. CASE r # p
      <3>1. Queued(r, Announced(r, i)) \/ Known(r, Announced(r, i))
        BY <1>5, <2>3 DEF IInv, AnnouncedInv
      <3>2. QED  BY <1>1, <2>1, <2>3, <3>1 DEF Queued, Known
    <2>4. QED  BY <2>2, <2>3
  <1>9. QED  BY <1>1, <1>4, <1>6, <1>7, <1>8

-----------------------------------------------------------------------------
(***************************************************************************)
(* Steps that leave files, queues and contexts alone.                       *)
(***************************************************************************)

\* Steps that move one process and touch neither files nor texts.
LEMMA PhaseStep ==
  ASSUME IInv, NEW p \in Process, NEW to \in Phases, GoTo(p, to),
         UNCHANGED <<release, file, wanted, answer, context, since>>,
         spoilt' \in [Process -> SUBSET Request],
         to \in Early => phase[p] \in Early,
         {to, phase[p]} \cap {"opening", "writing"} = {},
         to = "asking" => wanted[p] # << >>,
         to = "ready" => wanted[p] = << >>,
         to \in Early \cup {"failed"} \/ phase[p] \notin Early \cup {"failed"}
  PROVE  IInv'
  <1>1. phase \in [Process -> Phases]  BY DEF IInv, TypeOK
  <1>2. phase'[p] = to /\ \A r \in Process \ {p} : phase'[r] = phase[r]
    BY <1>1 DEF GoTo
  <1>3. TypeOK'  BY <1>1, <1>2 DEF IInv, TypeOK, GoTo
  <1>4. CacheTruth' /\ FreshInv'  BY DEF IInv, CacheTruth, FreshInv
  <1>5. PhaseInv'
    <2> SUFFICES ASSUME NEW r \in Process
        PROVE  /\ phase'[r] \in Early => wanted[r] = << >> /\ context[r] = {}
               /\ phase'[r] \in {"asking", "opening", "writing"} => wanted[r] # << >>
               /\ phase'[r] \in {"opening", "writing"} =>
                     answer[r] \in Texts /\ Fits(answer[r], Current(r))
                     /\ Published(answer[r].unit)
               /\ phase'[r] = "ready" => wanted[r] = << >>
      BY DEF PhaseInv, Current
    <2>1. CASE r = p  BY <1>2, <2>1 DEF IInv, PhaseInv
    <2>2. CASE r # p  BY <1>2, <2>2 DEF IInv, PhaseInv
    <2>3. QED  BY <2>1, <2>2
  <1>6. AnnouncedInv'
    <2> SUFFICES ASSUME NEW r \in Process, phase'[r] \notin Early \cup {"failed"},
                        NEW i \in DOMAIN Served
        PROVE  Queued(r, Announced(r, i)) \/ Known(r, Announced(r, i))
      BY DEF AnnouncedInv, Queued, Known, Announced
    <2>1. phase[r] \notin Early \cup {"failed"}  BY <1>2
    <2>2. QED  BY <2>1 DEF IInv, AnnouncedInv
  <1>7. QED  BY <1>3, <1>4, <1>5, <1>6 DEF IInv

\* A process starts.
LEMMA StartStep ==
  ASSUME IInv, NEW p \in Process, Start(p)
  PROVE  IInv'
  <1>1. spoilt' \in [Process -> SUBSET Request]  BY DEF Start, IInv, TypeOK
  <1>2. QED  BY <1>1, PhaseStep DEF Start, Phases, Early, AtPhase

\* It connects.
LEMMA ConnectStep ==
  ASSUME IInv, NEW p \in Process, Connect(p) \/ MakeDirectory(p)
  PROVE  IInv'
  <1>1. PICK to \in {"directory", "capabilities", "failed"} : GoTo(p, to)
    BY DEF Connect, MakeDirectory
  <1>2. /\ UNCHANGED <<release, file, wanted, answer, context, since, spoilt>>
        /\ phase[p] \in Early
    BY DEF Connect, MakeDirectory, AtPhase, Early
  <1>3. spoilt' \in [Process -> SUBSET Request]  BY <1>2 DEF IInv, TypeOK
  <1>4. QED  BY <1>1, <1>2, <1>3, PhaseStep DEF Phases, Early

\* libyang asks the callback.
LEMMA AskStep ==
  ASSUME IInv, NEW p \in Process, Ask(p) \/ GetSchemaFails(p) \/ Loaded(p)
  PROVE  IInv'
  <1>1. spoilt' \in [Process -> SUBSET Request]
    BY DEF Ask, GetSchemaFails, Loaded, IInv, TypeOK
  <1>2. CASE Ask(p)
    BY <1>1, <1>2, PhaseStep DEF Ask, Loading, AtPhase, Phases, Early
  <1>3. CASE GetSchemaFails(p)
    BY <1>1, <1>3, PhaseStep DEF GetSchemaFails, AtPhase, Phases, Early
  <1>4. CASE Loaded(p)
    <2>1. PICK to \in {"ready", "failed"} : GoTo(p, to)  BY <1>4 DEF Loaded
    <2>2. QED  BY <1>1, <1>4, <2>1, PhaseStep DEF Loaded, AtPhase, Phases, Early
  <1>5. QED  BY <1>2, <1>3, <1>4

\* The callback opens the file: it is broken until it is written.
LEMMA OpenFileStep ==
  ASSUME IInv, NEW p \in Process, OpenFile(p)
  PROVE  IInv'
  <1> DEFINE f == CachePath(Current(p))
  <1>1. /\ phase[p] = "opening" /\ GoTo(p, "writing")
        /\ file' = [file EXCEPT ![f] = Broken]
        /\ UNCHANGED <<release, wanted, answer, context, since, spoilt>>
    BY DEF OpenFile, AtPhase
  <1>2. TypeOK'  BY <1>1 DEF IInv, TypeOK, GoTo, Phases
  <1>3. CacheTruth'
    BY <1>1, DistinctAssumption DEF IInv, TypeOK, CacheTruth
  <1>4. phase'[p] = "writing" /\ \A r \in Process \ {p} : phase'[r] = phase[r]
    BY <1>1 DEF GoTo, IInv, TypeOK
  <1>5. PhaseInv'
    <2> SUFFICES ASSUME NEW r \in Process
        PROVE  /\ phase'[r] \in Early => wanted[r] = << >> /\ context[r] = {}
               /\ phase'[r] \in {"asking", "opening", "writing"} => wanted[r] # << >>
               /\ phase'[r] \in {"opening", "writing"} =>
                     answer[r] \in Texts /\ Fits(answer[r], Current(r))
                     /\ Published(answer[r].unit)
               /\ phase'[r] = "ready" => wanted[r] = << >>
      BY <1>1 DEF PhaseInv, Current
    <2>1. CASE r = p  BY <1>1, <1>4, <2>1 DEF IInv, PhaseInv, Early
    <2>2. CASE r # p  BY <1>4, <2>2 DEF IInv, PhaseInv
    <2>3. QED  BY <2>1, <2>2
  <1>6. FreshInv'  BY <1>1 DEF IInv, FreshInv
  <1>7. AnnouncedInv'
    <2> SUFFICES ASSUME NEW r \in Process, phase'[r] \notin Early \cup {"failed"},
                        NEW i \in DOMAIN Served
        PROVE  Queued(r, Announced(r, i)) \/ Known(r, Announced(r, i))
      BY <1>1 DEF AnnouncedInv, Queued, Known, Announced
    <2>1. phase[r] \notin Early \cup {"failed"}  BY <1>1, <1>4 DEF Early
    <2>2. QED  BY <2>1 DEF IInv, AnnouncedInv
  <1>8. QED  BY <1>2, <1>3, <1>5, <1>6, <1>7 DEF IInv

\* The daemon is replaced: what was taken from it is no older than before.
LEMMA UpgradeStep ==
  ASSUME IInv, Upgrade
  PROVE  IInv'
  <1>1. /\ release < MaxRelease /\ release' = release + 1 /\ release \in Release
        /\ UNCHANGED <<file, phase, wanted, answer, context, since, spoilt>>
    BY DEF Upgrade, IInv, TypeOK
  <1>2. release' \in Release  BY <1>1, CacheAssumption DEF Release
  <1>3. TypeOK'  BY <1>1, <1>2 DEF IInv, TypeOK
  <1>4. CacheTruth' /\ PhaseInv'
    BY <1>1 DEF IInv, CacheTruth, PhaseInv, Current
  <1>5. FreshInv'
    BY <1>1, CacheAssumption DEF IInv, TypeOK, FreshInv, Release
  <1>6. AnnouncedInv'
    BY <1>1 DEF IInv, AnnouncedInv, Queued, Known, Announced
  <1>7. QED  BY <1>3, <1>4, <1>5, <1>6 DEF IInv

-----------------------------------------------------------------------------
(***************************************************************************)
(* Steps that change a queue.                                               *)
(***************************************************************************)

\* The daemon announces its modules, and all of them are wanted.
LEMMA CapabilitiesStep ==
  ASSUME IInv, NEW p \in Process, Capabilities(p)
  PROVE  IInv'
  <1> DEFINE announced == [i \in DOMAIN Served |->
                [unit |-> Served[i], rev |-> Revision[Served[i]][release]]]
  <1>1. CASE GoTo(p, "failed") /\ UNCHANGED <<wanted, since>>
    <2>1. spoilt' \in [Process -> SUBSET Request]  BY DEF Capabilities, IInv, TypeOK
    <2>2. QED  BY <1>1, <2>1, PhaseStep DEF Capabilities, AtPhase, Phases, Early
  <1>2. CASE /\ GoTo(p, "loading")
             /\ wanted' = [wanted EXCEPT ![p] = announced]
             /\ since' = [since EXCEPT ![p] = release]
    <2>1. /\ phase[p] = "capabilities"
          /\ UNCHANGED <<release, file, answer, context, spoilt>>
      BY DEF Capabilities, AtPhase
    <2>2. release \in Release /\ announced \in Seq(Request)
      BY AnnouncedType DEF IInv, TypeOK
    <2>3. TypeOK'  BY <1>2, <2>1, <2>2 DEF IInv, TypeOK, GoTo, Phases
    <2>4. /\ phase'[p] = "loading" /\ wanted'[p] = announced /\ since'[p] = release
          /\ context[p] = {}
          /\ \A r \in Process \ {p} : /\ phase'[r] = phase[r] /\ wanted'[r] = wanted[r]
                                      /\ since'[r] = since[r]
      BY <1>2, <2>1 DEF GoTo, IInv, TypeOK, PhaseInv, Early
    <2>5. CacheTruth'  BY <2>1 DEF IInv, CacheTruth
    <2>6. PhaseInv'  BY <2>1, <2>4 DEF IInv, PhaseInv, Current, Early
    <2>7. FreshInv'  BY <2>1, <2>2, <2>4 DEF IInv, FreshInv, Release
    <2>8. AnnouncedInv'
      <3> SUFFICES ASSUME NEW r \in Process, phase'[r] \notin Early \cup {"failed"},
                          NEW i \in DOMAIN Served
          PROVE  Queued(r, Announced(r, i))' \/ Known(r, Announced(r, i))'
        BY DEF AnnouncedInv
      <3>1. CASE r = p
        <4>1. Len(announced) \in Nat /\ DOMAIN announced = 1 .. Len(announced)
          BY <2>2, LenProperties
        <4>2. i \in 1 .. Len(announced) /\ announced[i] = Announced(r, i)'
          BY <2>4, <3>1, <4>1 DEF Announced
        <4>3. QED  BY <2>4, <3>1, <4>2 DEF Queued
      <3>2. CASE r # p
        <4>1. Queued(r, Announced(r, i)) \/ Known(r, Announced(r, i))
          BY <2>4, <3>2 DEF IInv, AnnouncedInv
        <4>2. QED  BY <2>1, <2>4, <3>2, <4>1 DEF Queued, Known, Announced
      <3>3. QED  BY <3>1, <3>2
    <2>9. QED  BY <2>3, <2>5, <2>6, <2>7, <2>8 DEF IInv
  <1>3. QED  BY <1>1, <1>2 DEF Capabilities

\* A load that the context can answer leaves the queue.
LEMMA AlreadyLoadedStep ==
  ASSUME IInv, NEW p \in Process, AlreadyLoaded(p)
  PROVE  IInv'
  <1>1. /\ phase[p] = "loading" /\ wanted[p] # << >> /\ Known(p, Current(p))
        /\ wanted' = [wanted EXCEPT ![p] = Tail(wanted[p])]
        /\ UNCHANGED <<release, file, phase, answer, context, since, spoilt>>
    BY DEF AlreadyLoaded, Loading, InContext, Known, AtPhase
  <1>2. wanted \in [Process -> Seq(Request)]  BY DEF IInv, TypeOK
  <1>3. /\ Tail(wanted[p]) \in Seq(Request)
        /\ \A q : Queued(p, q) => q = Current(p) \/
              \E i \in 1 .. Len(Tail(wanted[p])) : Tail(wanted[p])[i] = q
    BY <1>1, <1>2, QueueTail DEF Queued, Current
  <1>4. wanted'[p] = Tail(wanted[p]) /\ \A r \in Process \ {p} : wanted'[r] = wanted[r]
    BY <1>1, <1>2
  <1>5. TypeOK'  BY <1>1, <1>2, <1>3 DEF IInv, TypeOK
  <1>6. CacheTruth' /\ FreshInv'  BY <1>1 DEF IInv, CacheTruth, FreshInv
  <1>7. PhaseInv'  BY <1>1, <1>4 DEF IInv, PhaseInv, Current, Early
  <1>8. AnnouncedInv'
    <2> SUFFICES ASSUME NEW r \in Process, phase[r] \notin Early \cup {"failed"},
                        NEW i \in DOMAIN Served
        PROVE  Queued(r, Announced(r, i))' \/ Known(r, Announced(r, i))'
      BY <1>1 DEF AnnouncedInv
    <2>1. Queued(r, Announced(r, i)) \/ Known(r, Announced(r, i))
      BY DEF IInv, AnnouncedInv
    <2>2. CASE r = p
      <3> DEFINE q == Announced(p, i)
      <3>1. Announced(r, i)' = q  BY <1>1, <2>2 DEF Announced
      <3>2. CASE Known(p, q)
        <4>1. Known(p, q)'  BY <1>1, <3>2 DEF Known, Announced
        <4>2. QED  BY <2>2, <3>1, <4>1 DEF Known
      <3>3. CASE Queued(p, q) /\ q # Current(p)
        <4>1. \E j \in 1 .. Len(wanted'[p]) : wanted'[p][j] = q
          BY <1>3, <1>4, <3>3
        <4>2. QED  BY <2>2, <3>1, <4>1 DEF Queued
      <3>4. QED  BY <1>1, <2>1, <2>2, <3>2, <3>3
    <2>3. CASE r # p
      BY <1>1, <1>4, <2>1, <2>3 DEF Queued, Known, Announced
    <2>4. QED  BY <2>2, <2>3
  <1>9. QED  BY <1>5, <1>6, <1>7, <1>8 DEF IInv

\* A file that is read is not a module of holo, so its age does not matter.
LEMMA FromFileStep ==
  ASSUME IInv, NEW p \in Process, FromFile(p)
  PROVE  IInv'
  <1>1. PICK f \in Candidates(Current(p)) : Parse(p, file[f])  BY DEF FromFile
  <1>2. /\ phase[p] = "loading" /\ wanted[p] # << >>
        /\ UNCHANGED <<release, file, phase, answer, since, spoilt>>
    BY DEF FromFile, Loading, AtPhase
  <1>3. f \in Request /\ file[f] \in Texts /\ Fits(file[f], Current(p))
    BY <1>1 DEF Candidates
  <1>4. Published(file[f].unit)  BY <1>3 DEF IInv, CacheTruth, Fits
  <1>5. GoTo(p, "loading")  BY <1>2 DEF GoTo, IInv, TypeOK
  <1>6. answer' \in [Process -> Texts \cup {None}]  BY <1>2 DEF IInv, TypeOK
  <1>7. /\ wanted' \in [Process -> Seq(Request)]
        /\ context' \in [Process -> SUBSET Texts]
        /\ PhaseInv' /\ FreshInv' /\ AnnouncedInv'
    BY <1>1, <1>2, <1>3, <1>4, <1>5, <1>6, ParsePreserves
  <1>8. TypeOK'  BY <1>2, <1>7 DEF IInv, TypeOK
  <1>9. CacheTruth'  BY <1>2 DEF IInv, CacheTruth
  <1>10. QED  BY <1>7, <1>8, <1>9 DEF IInv

\* The text handed to libyang by the callback.
LEMMA DeliverPreserves ==
  ASSUME IInv, NEW p \in Process, NEW text \in Texts,
         phase[p] \in {"asking", "opening", "writing"},
         Deliver(p, text), Fits(text, Current(p)),
         ~Published(text.unit) => text.build >= since[p],
         UNCHANGED <<release, since>>,
         file' \in [Request -> {Absent, Broken} \cup Texts], CacheTruth',
         spoilt' \in [Process -> SUBSET Request]
  PROVE  IInv'
  <1>1. wanted[p] # << >>  BY DEF IInv, PhaseInv
  <1>2. /\ Parse(p, text) /\ GoTo(p, "loading")
        /\ answer' = [answer EXCEPT ![p] = None]
        /\ answer \in [Process -> Texts \cup {None}]
    BY DEF Deliver, IInv, TypeOK
  <1>3. /\ answer' \in [Process -> Texts \cup {None}]
        /\ \A r \in Process \ {p} : answer'[r] = answer[r]
    BY <1>2
  <1>4. /\ wanted' \in [Process -> Seq(Request)]
        /\ context' \in [Process -> SUBSET Texts]
        /\ phase' \in [Process -> Phases]
        /\ PhaseInv' /\ FreshInv' /\ AnnouncedInv'
    BY <1>1, <1>2, <1>3, ParsePreserves
  <1>5. \A r \in Process : answer'[r] # None => phase'[r] \in {"opening", "writing"}
    <2>1. answer'[p] = None  BY <1>2
    <2>2. \A r \in Process \ {p} : phase'[r] = phase[r]  BY <1>2 DEF GoTo, IInv, TypeOK
    <2>3. QED  BY <1>3, <2>1, <2>2 DEF IInv, TypeOK
  <1>6. TypeOK'  BY <1>3, <1>4, <1>5 DEF IInv, TypeOK
  <1>7. QED  BY <1>4, <1>6 DEF IInv

-----------------------------------------------------------------------------
(***************************************************************************)
(* The callback, and the end of a process.                                  *)
(***************************************************************************)

\* The daemon's text goes to the callback.
LEMMA GetSchemaStep ==
  ASSUME IInv, NEW p \in Process, GetSchema(p)
  PROVE  IInv'
  <1> DEFINE text == Text(Current(p).unit, release)
  <1>1. /\ phase[p] = "asking" /\ wanted[p] # << >> /\ Fits(text, Current(p))
        /\ UNCHANGED <<release, file, since, spoilt>>
    BY DEF GetSchema, AtPhase, IInv, PhaseInv
  <1>2. Current(p) \in Request /\ release \in Release
    BY <1>1, QueueTail DEF Current, IInv, TypeOK
  <1>3. Current(p).unit \in Unit  BY <1>2 DEF Request
  <1>4. text \in Texts /\ text.unit = Current(p).unit  BY <1>2, <1>3, TextType
  <1>5. file' \in [Request -> {Absent, Broken} \cup Texts] /\ CacheTruth'
        /\ spoilt' \in [Process -> SUBSET Request]
    BY <1>1 DEF IInv, TypeOK, CacheTruth
  <1>6. CASE /\ MayCache(text.unit) /\ GoTo(p, "opening")
             /\ answer' = [answer EXCEPT ![p] = text]
             /\ UNCHANGED <<wanted, context>>
    <2>1. TypeOK'  BY <1>1, <1>4, <1>6 DEF IInv, TypeOK, GoTo, Phases
    <2>2. /\ phase'[p] = "opening" /\ answer'[p] = text
          /\ \A r \in Process \ {p} : phase'[r] = phase[r] /\ answer'[r] = answer[r]
      BY <1>6 DEF GoTo, IInv, TypeOK
    <2>3. PhaseInv'
      <3> SUFFICES ASSUME NEW r \in Process
          PROVE  /\ phase'[r] \in Early => wanted[r] = << >> /\ context[r] = {}
                 /\ phase'[r] \in {"asking", "opening", "writing"} => wanted[r] # << >>
                 /\ phase'[r] \in {"opening", "writing"} =>
                       answer'[r] \in Texts /\ Fits(answer'[r], Current(r))
                       /\ Published(answer'[r].unit)
                 /\ phase'[r] = "ready" => wanted[r] = << >>
        BY <1>6 DEF PhaseInv, Current
      <3>1. CASE r = p
        BY <1>1, <1>4, <1>6, <2>2, <3>1 DEF Early, MayCache, Published
      <3>2. CASE r # p  BY <2>2, <3>2 DEF IInv, PhaseInv
      <3>3. QED  BY <3>1, <3>2
    <2>4. FreshInv'  BY <1>1, <1>6 DEF IInv, FreshInv
    <2>5. AnnouncedInv'
      <3> SUFFICES ASSUME NEW r \in Process, phase'[r] \notin Early \cup {"failed"},
                          NEW i \in DOMAIN Served
          PROVE  Queued(r, Announced(r, i)) \/ Known(r, Announced(r, i))
        BY <1>1, <1>6 DEF AnnouncedInv, Queued, Known, Announced
      <3>1. phase[r] \notin Early \cup {"failed"}  BY <1>1, <2>2 DEF Early
      <3>2. QED  BY <3>1 DEF IInv, AnnouncedInv
    <2>6. QED  BY <1>5, <2>1, <2>3, <2>4, <2>5 DEF IInv
  <1>7. CASE ~MayCache(text.unit) /\ Deliver(p, text)
    <2>1. ~Published(text.unit)  BY <1>7 DEF MayCache, Published
    <2>2. text.build = release  BY <1>4, <2>1 DEF Text
    <2>3. text.build >= since[p]  BY <1>2, <2>2 DEF IInv, TypeOK, FreshInv, Release
    <2>4. QED  BY <1>1, <1>4, <1>5, <1>7, <2>3, DeliverPreserves
  <1>8. QED  BY <1>6, <1>7 DEF GetSchema

\* The history of spoilt writes keeps its type.
LEMMA SpoilType ==
  ASSUME IInv, NEW f \in Request, Spoil(f) \/ UNCHANGED spoilt
  PROVE  spoilt' \in [Process -> SUBSET Request]
  BY DEF IInv, TypeOK, Spoil

\* What is written is what fits the path, so the cache stays true.
LEMMA WriteStep ==
  ASSUME IInv, NEW p \in Process, OpenFails(p) \/ WriteFile(p) \/ WriteFails(p)
  PROVE  IInv'
  <1> DEFINE f == CachePath(Current(p))
  <1>1. /\ phase[p] \in {"opening", "writing"} /\ wanted[p] # << >>
        /\ answer[p] \in Texts /\ Fits(answer[p], Current(p))
        /\ Published(answer[p].unit)
        /\ UNCHANGED <<release, since>> /\ Deliver(p, answer[p])
    BY DEF OpenFails, WriteFile, WriteFails, AtPhase, IInv, PhaseInv
  <1>2. Current(p) \in Request  BY <1>1, QueueTail DEF Current, IInv, TypeOK
  <1>3. f \in Request /\ f = Current(p)  BY <1>2 DEF CachePath, Request
  <1>4. spoilt' \in [Process -> SUBSET Request]
    BY <1>3, SpoilType DEF OpenFails, WriteFile, WriteFails
  <1>5. \/ UNCHANGED file
        \/ file' = [file EXCEPT ![f] = Broken]
        \/ file' = [file EXCEPT ![f] = answer[p]]
    BY DEF OpenFails, WriteFile, WriteFails
  <1>6. file \in [Request -> {Absent, Broken} \cup Texts] /\ CacheTruth
    BY DEF IInv, TypeOK
  <1>7. file' \in [Request -> {Absent, Broken} \cup Texts]  BY <1>1, <1>5, <1>6
  <1>8. CacheTruth'
    <2>1. CASE UNCHANGED file  BY <1>6, <2>1 DEF CacheTruth
    <2>2. CASE file' = [file EXCEPT ![f] = Broken]
      BY <1>6, <2>2, DistinctAssumption DEF CacheTruth
    <2>3. CASE file' = [file EXCEPT ![f] = answer[p]]
      <3>1. Fits(answer[p], f) /\ Published(f.unit)  BY <1>1, <1>3 DEF Fits
      <3>2. QED  BY <1>3, <1>6, <2>3, <3>1 DEF CacheTruth
    <2>4. QED  BY <1>5, <2>1, <2>2, <2>3
  <1>9. QED  BY <1>1, <1>4, <1>7, <1>8, DeliverPreserves

\* A process ends or is killed: what it had under way is dropped.
LEMMA EndStep ==
  ASSUME IInv, NEW p \in Process, End(p)
  PROVE  IInv'
  <1>1. /\ GoTo(p, "off") /\ wanted' = [wanted EXCEPT ![p] = << >>]
        /\ answer' = [answer EXCEPT ![p] = None]
        /\ context' = [context EXCEPT ![p] = {}]
        /\ UNCHANGED <<release, file, since>>
    BY DEF End
  <1>2. spoilt' \in [Process -> SUBSET Request]
    <2>1. CASE UNCHANGED spoilt  BY <2>1 DEF IInv, TypeOK
    <2>2. CASE phase[p] = "writing" /\ Spoil(CachePath(Current(p)))
      <3>1. wanted[p] # << >>  BY <2>2 DEF IInv, PhaseInv
      <3>2. Current(p) \in Request  BY <3>1, QueueTail DEF Current, IInv, TypeOK
      <3>3. CachePath(Current(p)) \in Request  BY <3>2 DEF CachePath, Request
      <3>4. QED  BY <2>2, <3>3, SpoilType
    <2>3. QED  BY <2>1, <2>2 DEF End, AtPhase
  <1>3. << >> \in Seq(Request)  BY EmptySeq
  <1>4. TypeOK'  BY <1>1, <1>2, <1>3 DEF IInv, TypeOK, GoTo, Phases
  <1>5. /\ phase'[p] = "off" /\ wanted'[p] = << >> /\ context'[p] = {}
        /\ \A r \in Process \ {p} :
              /\ phase'[r] = phase[r] /\ wanted'[r] = wanted[r]
              /\ context'[r] = context[r] /\ answer'[r] = answer[r]
    BY <1>1 DEF GoTo, IInv, TypeOK
  <1>6. CacheTruth'  BY <1>1 DEF IInv, CacheTruth
  <1>7. PhaseInv'  BY <1>5 DEF IInv, PhaseInv, Current, Early
  <1>8. FreshInv'  BY <1>1, <1>5 DEF IInv, FreshInv
  <1>9. AnnouncedInv'
    <2> SUFFICES ASSUME NEW r \in Process, phase'[r] \notin Early \cup {"failed"},
                        NEW i \in DOMAIN Served
        PROVE  Queued(r, Announced(r, i))' \/ Known(r, Announced(r, i))'
      BY DEF AnnouncedInv
    <2>1. r # p /\ phase[r] \notin Early \cup {"failed"}  BY <1>5 DEF Early
    <2>2. Queued(r, Announced(r, i)) \/ Known(r, Announced(r, i))
      BY <2>1 DEF IInv, AnnouncedInv
    <2>3. QED  BY <1>1, <1>5, <2>1, <2>2 DEF Queued, Known, Announced
  <1>10. QED  BY <1>4, <1>6, <1>7, <1>8, <1>9 DEF IInv

\* Every step keeps the invariant.
LEMMA NextIInv ==
  ASSUME IInv, [Next]_vars
  PROVE  IInv'
  <1>1. CASE UNCHANGED vars
    BY <1>1 DEF vars, IInv, TypeOK, CacheTruth, PhaseInv, FreshInv, AnnouncedInv,
                Current, Queued, Known, Announced
  <1>2. CASE Upgrade  BY <1>2, UpgradeStep
  <1>3. ASSUME NEW p \in Process, Start(p) \/ StartUp(p) \/ End(p)
        PROVE  IInv'
    <2>1. CASE Load(p)
      BY <2>1, AlreadyLoadedStep, FromFileStep, AskStep DEF Load
    <2>2. CASE Callback(p)
      BY <2>2, GetSchemaStep, AskStep, OpenFileStep, WriteStep DEF Callback
    <2>3. CASE Connect(p) \/ MakeDirectory(p) \/ Capabilities(p) \/ Loaded(p)
      BY <2>3, ConnectStep, CapabilitiesStep, AskStep
    <2>4. QED  BY <1>3, <2>1, <2>2, <2>3, StartStep, EndStep DEF StartUp
  <1>4. QED  BY <1>1, <1>2, <1>3 DEF Next

\* The invariant holds at every step.
THEOREM Invariance == Spec => []IInv
  <1>1. Init => IInv  BY InitIInv
  <1>2. IInv /\ [Next]_vars => IInv'  BY NextIInv
  <1>3. QED  BY <1>1, <1>2, PTL DEF Spec

\* Every variable keeps its range.
THEOREM TypeCorrect == Spec => []TypeOK
  <1>1. IInv => TypeOK  BY DEF IInv
  <1>2. QED  BY <1>1, Invariance, PTL

\* The cache directory never lies about what a file holds and never holds a
\* module of holo, however many processes write it and die in it.
THEOREM CacheIsTrue == Spec => []CacheTruth
  <1>1. IInv => CacheTruth  BY DEF IInv
  <1>2. QED  BY <1>1, Invariance, PTL

\* A session works on the modules the daemon announced, from whatever source
\* their texts came.
THEOREM ReadyIsCurrent == Spec => []ReadyMatchesDaemon
  <1>1. ASSUME IInv  PROVE ReadyMatchesDaemon
    <2> SUFFICES ASSUME NEW p \in Process, phase[p] = "ready", NEW i \in DOMAIN Served
        PROVE  LET u == Served[i] IN
            \E text \in context[p] :
                /\ Fits(text, [unit |-> u, rev |-> Revision[u][since[p]]])
                /\ ~Published(u) => text.build >= since[p]
                /\ Published(u) /\ Revision[u][since[p]] # None =>
                       text = Text(u, since[p])
      BY DEF ReadyMatchesDaemon, AtPhase
    <2> DEFINE u == Served[i]
    <2>1. wanted[p] = << >> /\ phase[p] \notin Early \cup {"failed"}
      BY <1>1 DEF IInv, PhaseInv, Early
    <2>2. ~Queued(p, Announced(p, i))  BY <2>1, EmptySeq DEF Queued
    <2>3. PICK text \in context[p] : Fits(text, Announced(p, i))
      BY <1>1, <2>1, <2>2 DEF IInv, AnnouncedInv, Known
    <2>4. text \in Texts /\ since[p] \in Release  BY <1>1 DEF IInv, TypeOK
    <2>5. Served \in Seq(Unit)  BY CacheAssumption
    <2>6. u \in Unit  BY <2>5, LenProperties
    <2>7. text.unit = u /\ (Revision[u][since[p]] # None =>
                              text.rev = Revision[u][since[p]])
      BY <2>3 DEF Fits, Announced
    <2>8. ~Published(u) => text.build >= since[p]
      BY <1>1, <2>7 DEF IInv, FreshInv
    <2>9. Published(u) /\ Revision[u][since[p]] # None => text = Text(u, since[p])
      BY <2>4, <2>6, <2>7, PublishedOnce
    <2>10. QED  BY <2>3, <2>8, <2>9 DEF Announced
  <1>2. QED  BY <1>1, Invariance, PTL

-----------------------------------------------------------------------------
(***************************************************************************)
(* The cache heals.  A path is accounted for, for a process, while it holds *)
(* a text, is being written, or was spoilt since the process began; no step *)
(* takes that from a path, and a text of a published module enters a        *)
(* context only when a path of its unit is accounted for.                   *)
(***************************************************************************)
Accounted(p, f) == file[f] \in Texts \/ BeingWritten(f) \/ f \in spoilt[p]

FilledInv ==
  \A p \in Process : \A text \in context[p] : Published(text.unit) =>
    \E f \in Request : f.unit = text.unit /\ Accounted(p, f)

\* A step of one process leaves the others where they are.
LEMMA OthersKept ==
  ASSUME IInv, NEW q \in Process, Start(q) \/ StartUp(q) \/ End(q),
         NEW r \in Process \ {q}
  PROVE  phase'[r] = phase[r] /\ wanted'[r] = wanted[r] /\ context'[r] = context[r]
  <1>1. /\ phase \in [Process -> Phases]
        /\ wanted \in [Process -> Seq(Request)]
        /\ context \in [Process -> SUBSET Texts]
    BY DEF IInv, TypeOK
  <1>2. CASE Start(q) \/ Connect(q) \/ MakeDirectory(q) \/ Loaded(q)
    BY <1>1, <1>2 DEF Start, Connect, MakeDirectory, Loaded, GoTo
  <1>3. CASE Capabilities(q)  BY <1>1, <1>3 DEF Capabilities, GoTo
  <1>4. CASE Load(q)
    BY <1>1, <1>4 DEF Load, AlreadyLoaded, FromFile, Ask, Parse, GoTo
  <1>5. CASE GetSchema(q) \/ GetSchemaFails(q)
    BY <1>1, <1>5 DEF GetSchema, GetSchemaFails, Deliver, Parse, GoTo
  <1>6. CASE OpenFile(q) \/ OpenFails(q) \/ WriteFile(q) \/ WriteFails(q)
    BY <1>1, <1>6 DEF OpenFile, OpenFails, WriteFile, WriteFails, Deliver, Parse, GoTo
  <1>7. CASE End(q)  BY <1>1, <1>7 DEF End, GoTo
  <1>8. QED
    BY <1>2, <1>3, <1>4, <1>5, <1>6, <1>7 DEF StartUp, Callback

\* The path a process in the callback works on, and the text it has for it.
LEMMA PathInHand ==
  ASSUME IInv, NEW q \in Process, phase[q] \in {"opening", "writing"}
  PROVE  /\ CachePath(Current(q)) \in Request
         /\ CachePath(Current(q)).unit = answer[q].unit
         /\ answer[q] \in Texts
  <1>1. wanted[q] # << >> /\ wanted[q] \in Seq(Request) /\ answer[q] \in Texts
        /\ Fits(answer[q], Current(q))
    BY DEF IInv, PhaseInv, TypeOK
  <1>2. Current(q) \in Request  BY <1>1, QueueTail DEF Current
  <1>3. QED  BY <1>1, <1>2 DEF CachePath, Request, Fits

\* What a step does to the files and to what is known to be spoilt.
LEMMA FileStep ==
  ASSUME IInv, NEW q \in Process, Start(q) \/ StartUp(q) \/ End(q),
         NEW p \in Process, ~Start(p), NEW f \in Request
  PROVE  /\ f \in spoilt[p] => f \in spoilt'[p]
         /\ phase[q] = "writing" /\ CachePath(Current(q)) = f =>
               file'[f] \in Texts \/ f \in spoilt'[p]
         /\ file'[f] # file[f] =>
               \/ file'[f] \in Texts \/ f \in spoilt'[p]
               \/ phase'[q] = "writing" /\ CachePath(Current(q)') = f
  <1> DEFINE g == CachePath(Current(q))
  <1>1. /\ phase \in [Process -> Phases]
        /\ file \in [Request -> {Absent, Broken} \cup Texts]
        /\ spoilt \in [Process -> SUBSET Request]
    BY DEF IInv, TypeOK
  <1>2. CASE /\ UNCHANGED <<file, spoilt>> \/ (UNCHANGED file /\ Start(q))
             /\ phase[q] # "writing"
    BY <1>1, <1>2 DEF Start
  <1>3. CASE OpenFile(q)
    <2>1. /\ phase[q] = "opening" /\ phase' = [phase EXCEPT ![q] = "writing"]
          /\ file' = [file EXCEPT ![g] = Broken]
          /\ UNCHANGED <<wanted, spoilt>>
      BY <1>3 DEF OpenFile, AtPhase, GoTo
    <2>2. phase'[q] = "writing" /\ CachePath(Current(q)') = g
      BY <1>1, <2>1 DEF CachePath, Current
    <2>3. file'[f] # file[f] => f = g  BY <1>1, <2>1
    <2>4. QED  BY <2>1, <2>2, <2>3
  <1>4. CASE OpenFails(q) \/ WriteFile(q) \/ WriteFails(q)
    <2>1. g \in Request /\ answer[q] \in Texts
      BY <1>4, PathInHand DEF OpenFails, WriteFile, WriteFails, AtPhase
    <2>2. \/ /\ UNCHANGED file /\ phase[q] = "opening"
             /\ spoilt' = [r \in Process |-> spoilt[r] \cup {g}]
          \/ /\ file' = [file EXCEPT ![g] = Broken]
             /\ spoilt' = [r \in Process |-> spoilt[r] \cup {g}]
          \/ /\ file' = [file EXCEPT ![g] = answer[q]]
             /\ UNCHANGED spoilt
      BY <1>4 DEF OpenFails, WriteFile, WriteFails, AtPhase, Spoil
    <2>3. QED  BY <1>1, <2>1, <2>2
  <1>5. CASE End(q)
    BY <1>1, <1>5 DEF End, AtPhase, Spoil
  <1>6. CASE Start(q) \/ Connect(q) \/ MakeDirectory(q) \/ Capabilities(q) \/ Loaded(q)
    BY <1>2, <1>6 DEF Start, Connect, MakeDirectory, Capabilities, Loaded, AtPhase
  <1>7. CASE Load(q) \/ GetSchema(q) \/ GetSchemaFails(q)
    BY <1>2, <1>7 DEF Load, AlreadyLoaded, FromFile, Ask, Loading, GetSchema,
                      GetSchemaFails, AtPhase
  <1>8. QED
    BY <1>3, <1>4, <1>5, <1>6, <1>7 DEF StartUp, Callback

\* No step takes it from a path that it is accounted for, but the one by which
\* the process that accounts for it begins.
LEMMA AccountedKept ==
  ASSUME IInv, NEW q \in Process, Start(q) \/ StartUp(q) \/ End(q),
         NEW p \in Process, ~Start(p), NEW f \in Request, Accounted(p, f)
  PROVE  Accounted(p, f)'
  <1>1. /\ f \in spoilt[p] => f \in spoilt'[p]
        /\ phase[q] = "writing" /\ CachePath(Current(q)) = f =>
              file'[f] \in Texts \/ f \in spoilt'[p]
        /\ file'[f] # file[f] =>
              \/ file'[f] \in Texts \/ f \in spoilt'[p]
              \/ phase'[q] = "writing" /\ CachePath(Current(q)') = f
    BY FileStep
  <1>2. CASE f \in spoilt[p]  BY <1>1, <1>2 DEF Accounted
  <1>3. CASE file[f] \in Texts
    BY <1>1, <1>3 DEF Accounted, BeingWritten, AtPhase
  <1>4. CASE BeingWritten(f)
    <2>1. PICK r \in Process : phase[r] = "writing" /\ CachePath(Current(r)) = f
      BY <1>4 DEF BeingWritten, AtPhase
    <2>2. CASE r = q  BY <1>1, <2>1, <2>2 DEF Accounted
    <2>3. CASE r # q
      <3>1. phase'[r] = phase[r] /\ wanted'[r] = wanted[r]  BY <2>3, OthersKept
      <3>2. phase'[r] = "writing" /\ CachePath(Current(r)') = f
        BY <2>1, <3>1 DEF CachePath, Current
      <3>3. QED  BY <3>2 DEF Accounted, BeingWritten, AtPhase
    <2>4. QED  BY <2>2, <2>3
  <1>5. QED  BY <1>2, <1>3, <1>4 DEF Accounted

\* A text of a published module is read from a whole file, or was written, or
\* could not be written.
LEMMA NewText ==
  ASSUME IInv, NEW q \in Process, Start(q) \/ StartUp(q) \/ End(q),
         NEW text \in context'[q], text \notin context[q], Published(text.unit)
  PROVE  \E f \in Request : f.unit = text.unit /\ Accounted(q, f)'
  <1>1. context \in [Process -> SUBSET Texts]  BY DEF IInv, TypeOK
  <1>2. ~UNCHANGED context  OBVIOUS
  <1>3. CASE FromFile(q)
    <2>1. PICK f \in Candidates(Current(q)) : Parse(q, file[f])
      BY <1>3 DEF FromFile
    <2>2. text = file[f]  BY <1>1, <2>1 DEF Parse
    <2>3. f \in Request /\ file[f] \in Texts /\ f.unit = text.unit
      BY <2>1, <2>2 DEF Candidates, Fits
    <2>4. UNCHANGED file  BY <1>3 DEF FromFile
    <2>5. Accounted(q, f)'  BY <2>3, <2>4 DEF Accounted
    <2>6. QED  BY <2>3, <2>5
  <1>4. CASE GetSchema(q)
    <2> DEFINE sent == Text(Current(q).unit, release)
    <2>1. ~MayCache(sent.unit) /\ Deliver(q, sent)  BY <1>2, <1>4 DEF GetSchema
    <2>2. text = sent  BY <1>1, <2>1 DEF Deliver, Parse
    <2>3. QED  BY <2>1, <2>2 DEF MayCache, Published
  <1>5. CASE OpenFails(q) \/ WriteFile(q) \/ WriteFails(q)
    <2>1. PICK f \in Request :
             f = CachePath(Current(q)) /\ f.unit = answer[q].unit /\ answer[q] \in Texts
      BY <1>5, PathInHand DEF OpenFails, WriteFile, WriteFails, AtPhase
    <2>2. Deliver(q, answer[q])
      BY <1>5 DEF OpenFails, WriteFile, WriteFails
    <2>3. text = answer[q]  BY <1>1, <2>2 DEF Deliver, Parse
    <2>4. file'[f] \in Texts \/ f \in spoilt'[q]
      BY <1>5, <2>1 DEF OpenFails, WriteFile, WriteFails, Spoil, IInv, TypeOK
    <2>5. Accounted(q, f)'  BY <2>4 DEF Accounted
    <2>6. QED  BY <2>1, <2>3, <2>5
  <1>6. CASE End(q)  BY <1>1, <1>6 DEF End
  <1>7. QED
    BY <1>2, <1>3, <1>4, <1>5, <1>6
       DEF Start, StartUp, Connect, MakeDirectory, Capabilities, Loaded, Load,
           AlreadyLoaded, Ask, Callback, GetSchemaFails, OpenFile

\* Every step keeps what is known of the files.
LEMMA FilledStep ==
  ASSUME IInv, FilledInv, [Next]_vars
  PROVE  FilledInv'
  <1>1. CASE UNCHANGED vars
    BY <1>1 DEF vars, FilledInv, Accounted, BeingWritten, AtPhase, CachePath, Current
  <1>2. CASE Upgrade
    BY <1>2 DEF Upgrade, FilledInv, Accounted, BeingWritten, AtPhase, CachePath, Current
  <1>3. ASSUME NEW q \in Process, Start(q) \/ StartUp(q) \/ End(q)
        PROVE  FilledInv'
    <2> SUFFICES ASSUME NEW p \in Process, NEW text \in context'[p],
                        Published(text.unit)
        PROVE  \E f \in Request : f.unit = text.unit /\ Accounted(p, f)'
      BY DEF FilledInv
    <2>1. CASE p = q /\ text \notin context[p]  BY <1>3, <2>1, NewText
    <2>2. CASE p # q \/ text \in context[p]
      <3>1. text \in context[p]  BY <1>3, <2>2, OthersKept
      <3>2. ~Start(p)
        BY <3>1 DEF Start, AtPhase, IInv, PhaseInv, Early
      <3>3. PICK f \in Request : f.unit = text.unit /\ Accounted(p, f)
        BY <3>1 DEF FilledInv
      <3>4. Accounted(p, f)'  BY <1>3, <3>2, <3>3, AccountedKept
      <3>5. QED  BY <3>3, <3>4
    <2>3. QED  BY <2>1, <2>2
  <1>4. QED  BY <1>1, <1>2, <1>3 DEF Next

\* A text of a published module that a process in the prompt has loaded can be
\* read from the cache again, unless a write of it runs or has gone wrong.
THEOREM CacheHeals == Spec => []CacheFilled
  <1>1. Init => FilledInv  BY DEF Init, FilledInv
  <1>2. IInv /\ FilledInv /\ [Next]_vars => FilledInv'  BY FilledStep
  <1>3. FilledInv => CacheFilled  BY DEF FilledInv, CacheFilled, Accounted
  <1>4. QED  BY <1>1, <1>2, <1>3, Invariance, PTL DEF Spec

=============================================================================
