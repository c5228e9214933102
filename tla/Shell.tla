------------------------------- MODULE Shell -------------------------------
(***************************************************************************)
(* What the command line of holo-cli promises, one step per line: it is     *)
(* read at the innermost level of the configuration that knows it, with the *)
(* keys of the lists around that level, and its effect is that of the       *)
(* command found there.  A line that no level knows does nothing.           *)
(*                                                                          *)
(* There is no parser state here, no stack that is popped while it is       *)
(* searched and no counting of lists to skip: Cli has all of these and      *)
(* implements this specification (CliRefinesShell).                         *)
(***************************************************************************)
EXTENDS Configuration

VARIABLES mode, candidate, running, hostname, prompt,
          open,  \* the session has not been left
          line   \* the line to be answered, or none

state == <<mode, candidate, running, hostname, prompt, open>>
vars == <<state, line>>

-----------------------------------------------------------------------------
(***************************************************************************)
(* Which command a line means.                                              *)
(***************************************************************************)

\* The levels at which a line may be read: the root of the mode and, in
\* configuration mode, every schema node around the current list entry.
Levels(m) ==
  IF ~m.config THEN {ExecRoot}
  ELSE {YangRoot} \cup {FullToken(n) : n \in Ancestors[WdToken(m)[1]]}

Commands(m, words) ==
  {c \in UNION {Readings(level, m.config, words) : level \in Levels(m)} :
     c.token # c.level /\ Action(c.token) # "none"}

\* d is read deeper in the configuration than c.
Inside(d, c) ==
  d.level # c.level /\ (c.level = YangRoot \/ c.level[1] \in Ancestors[d.level[1]])

\* Those of the readings C for which there is none further in.
Innermost(C) == {c \in C : \A d \in C : ~Inside(d, c)}

Meant(m, words) == Innermost(Commands(m, words))

-----------------------------------------------------------------------------
(***************************************************************************)
(* What a command does.                                                     *)
(***************************************************************************)

\* The mode at the level where c was read: the lists further in are left.
ModeAt(m, c) ==
  IF ~m.config THEN m ELSE Configure(SubSeq(m.nodes, 1, Len(ListPath[c.level[1]])))

\* The CLI stack of an entry with these keys.
StackOf(n, keys) ==
  [i \in DOMAIN ListPath[n] |->
     [token |-> FullToken(ListPath[n][i]), keys |-> KeysOf(ListPath[n][i], keys)]]

Become(m) == mode' = m /\ prompt' = PromptOf(hostname', m)

\* A configuration command names an entry with the keys of the level and its
\* own arguments.  Without "no" it enters that entry.
EditAt(c, m) ==
  LET n == c.token[1]
      path == BaseKeys(m) \o c.args
      keys == SubSeq(path, 1, KeyDepth[n])
      val == IF Len(path) > KeyDepth[n] THEN Last(path) ELSE None IN
  /\ UNCHANGED <<running, hostname, open>>
  /\ IF c.negate
     THEN /\ Become(m)
          /\ \E gone \in Removals(candidate.tree, n, keys) :
               candidate' = Some(candidate.tree \ gone)
     ELSE /\ Become(Configure(StackOf(n, keys)))
          /\ candidate' = IF Refused(keys, val) THEN candidate
                          ELSE Some(NewPath(candidate.tree, n, keys, val))

\* A callback may choose another mode, and replace or drop the candidate; a
\* commit may fail and change nothing.
ModeAfter(callback, m) ==
  CASE callback \in {"cmd_config", "cmd_top"} -> Configure(<< >>)
    [] callback = "cmd_end" -> Operational
    [] callback = "cmd_exit_config" -> PopNode(m)
    [] OTHER -> m

CandidateAfter(callback, m) ==
  CASE callback \in {"cmd_config", "cmd_discard"} -> Some(running)
    [] callback = "cmd_end" /\ m.config -> NoCandidate
    [] OTHER -> candidate

CallAt(callback, m) ==
  /\ candidate' = CandidateAfter(callback, m)
  /\ \/ UNCHANGED <<running, hostname>>
     \/ /\ callback = "cmd_commit"
        /\ running' = candidate.tree
        /\ hostname' = HostnameOf(candidate.tree)
  /\ open' = (callback # "cmd_exit_exec")
  /\ Become(ModeAfter(callback, m))

Execute ==
  \E c \in Meant(mode, line) :
    LET m == ModeAt(mode, c)
        action == Action(c.token) IN
    IF action = "edit" THEN EditAt(c, m) ELSE CallAt(action, m)

Unknown == Meant(mode, line) = {} /\ UNCHANGED state

-----------------------------------------------------------------------------
Init ==
  /\ running \in InitialConfig
  /\ mode = Operational
  /\ candidate = NoCandidate
  /\ hostname = HostnameOf(running)
  /\ prompt = PromptOf(hostname, mode)
  /\ open = TRUE
  /\ line = << >>

Enter == open /\ line = << >> /\ line' \in Lines /\ UNCHANGED state

Answer == line # << >> /\ (Execute \/ Unknown) /\ line' = << >>

\* The user ends the session instead of entering a line.
Interrupt ==
  /\ open /\ line = << >>
  /\ open' = FALSE
  /\ UNCHANGED <<mode, candidate, running, hostname, prompt, line>>

Next == Enter \/ Interrupt \/ Answer

Spec == Init /\ [][Next]_vars
=============================================================================
